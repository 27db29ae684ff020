------------------------------ MODULE MCFlatDB ------------------------------
(***************************************************************************)
(* Instances of FlatDB for TLC: b1 is one unit long and b2 two, so that a  *)
(* write can fail half-way, and with files of two units a block may need   *)
(* the next file although this one has room.                               *)
(***************************************************************************)
EXTENDS FlatDB

CONSTANTS b1, b2, k, v, w, r

MCBlockLen == [x \in Blocks |-> IF x = b1 THEN 1 ELSE 2]
=============================================================================
