------------------------------ MODULE AtomicDB ------------------------------
(***************************************************************************)
(* What database.DB promises its callers (src/database/interface.go):      *)
(* the metadata is one map, a write transaction changes it all at once or  *)
(* not at all, and a restart returns to some state in which every          *)
(* transaction is either whole or absent.                                  *)
(*                                                                         *)
(* visible is what a transaction that starts now reads, stable what a      *)
(* restart would return to, pending the updates of the write transaction.  *)
(***************************************************************************)

VARIABLES visible, stable, pending

vars == <<visible, stable, pending>>

NoKeys == [k \in {} |-> {}]

NoUpdate == [keys |-> NoKeys, removed |-> {}]

\* The map m after the updates u: removals win, as pendingRemove is consulted first.
Overlay(m, u) ==
    [k \in (DOMAIN m \cup DOMAIN u.keys) \ u.removed |->
        IF k \in DOMAIN u.keys THEN u.keys[k] ELSE m[k]]

\* The caller works on its transaction; nobody else sees it.
Work == UNCHANGED <<visible, stable>>

\* Commit makes every update of the transaction visible in one step.
Commit ==
    /\ visible' = Overlay(visible, pending)
    /\ pending' = NoUpdate
    /\ UNCHANGED stable

\* Commit makes every update visible and durable in one step.
CommitThrough ==
    /\ stable = visible
    /\ visible' = Overlay(visible, pending)
    /\ stable' = Overlay(stable, pending)
    /\ pending' = NoUpdate

\* Everything committed so far becomes durable.
Flush ==
    /\ stable' = visible
    /\ UNCHANGED <<visible, pending>>

\* The process stops: what is not durable is gone, transaction by transaction.
Restart ==
    /\ visible' = stable
    /\ pending' = NoUpdate
    /\ UNCHANGED stable

Init ==
    /\ stable = visible
    /\ pending = NoUpdate

Next == Work \/ Commit \/ CommitThrough \/ Flush \/ Restart

Spec == Init /\ [][Next]_vars
=============================================================================
