------------------------------ MODULE MCMemPool ------------------------------
(***************************************************************************)
(* The memory pool, and the notification manager that tells the websocket  *)
(* clients what the pool and the chain do.  They share no state, so a      *)
(* behaviour runs one of them: focus says which.                           *)
(*                                                                         *)
(* One coin base cb with two coins.  a spends the first, b and d depend on *)
(* a, c conflicts with a.  k is a ticket on the second coin; v and w are   *)
(* votes of one ticket of the base, v for B1 and w against.  B1 mines a    *)
(* and k; B2 approves it and mines v, C2 does not approve it and mines c   *)
(* instead, M2 is a micro block on it that mines b.                        *)
(***************************************************************************)
EXTENDS MemPool, NtfnManager

VARIABLE focus

MCTx == {"a", "b", "c", "d", "k", "v", "w"}
MCBaseTx == {"cb", "t1"}
MCType == [a |-> "regular", b |-> "regular", c |-> "regular", d |-> "regular",
           k |-> "ticket", v |-> "vote", w |-> "vote"]
MCStakeBase == <<"null", 0>>
MCInputs == [cb |-> {}, t1 |-> {},
             a |-> {<<"cb", 0>>}, b |-> {<<"a", 0>>}, c |-> {<<"cb", 0>>},
             d |-> {<<"a", 1>>, <<"b", 0>>}, k |-> {<<"cb", 1>>},
             v |-> {MCStakeBase, <<"t1", 0>>}, w |-> {MCStakeBase, <<"t1", 0>>}]
MCOutputs == [cb |-> {0, 1}, t1 |-> {0}, a |-> {0, 1}, b |-> {0},
              c |-> {0}, d |-> {0}, k |-> {0}, v |-> {0}, w |-> {0}]
MCVotesFor == [v |-> "B1", w |-> "B1"]
MCPrice == [k |-> 2]
MCExpiry == [t \in MCTx |-> IF t = "c" THEN 2 ELSE 0]
MCBlock == {"B0", "B1", "B2", "C2", "M2"}
MCPrev == [B1 |-> "B0", B2 |-> "B1", C2 |-> "B1", M2 |-> "B1"]
MCRegular == [B0 |-> <<>>, B1 |-> <<"a">>, B2 |-> <<>>, C2 |-> <<"c">>,
              M2 |-> <<"b">>]
MCStake == [B0 |-> <<>>, B1 |-> <<"k">>, B2 |-> <<"v">>, C2 |-> <<>>,
            M2 |-> <<>>]
MCStakeDiff == [B0 |-> 2, B1 |-> 2, B2 |-> 1, C2 |-> 3, M2 |-> 2]

\* For the clients: the second transaction spends the first.
MCSpends == <<0, 1>>

MCInit == focus \in {"pool", "ntfn"} /\ Init /\ InitNtfn

MCNext ==
    \/ focus = "pool" /\ Next /\ UNCHANGED <<ntfnVars, focus>>
    \/ focus = "ntfn" /\ NextNtfn /\ UNCHANGED <<vars, focus>>

MCSpec == MCInit /\ [][MCNext]_<<vars, ntfnVars, focus>>
=============================================================================
