---------------------------- MODULE MCOrphanPool ----------------------------
(* Instances of OrphanPool for TLC: a tree of five blocks                  *)
(*      genesis <- 1 <- 2 <- 4 <- 5                                        *)
(*                   <- 3                                                  *)
(* in which 1 and 4 are key blocks, 3 and 4 invalid.                       *)
EXTENDS OrphanPool

MCBlock == 1..5

MCPrev == <<0, 1, 1, 2, 4>>

MCKeyBlock == {1, 4}

(* Block 5 names the wrong key block. *)
MCPrevKey == <<0, 1, 1, 1, 1>>

MCInvalid == {3, 4}
=============================================================================
