------------------------------- MODULE MCNet -------------------------------
(***************************************************************************)
(* One connection of the node to a peer, one of a websocket client to its  *)
(* RPC server, and its address manager.  The modules share no state, so a  *)
(* behaviour runs one of them: focus says which, and only its goroutines   *)
(* are scheduled.                                                          *)
(* Three addresses share a tried bucket for one and a new bucket for two;  *)
(* one of them can be in a second new bucket.                              *)
(***************************************************************************)
EXTENDS PeerIO, PeerStall, AddrManager, WsClient

CONSTANTS a1, a2, a3, s1, s2

VARIABLE focus

MCNewBucketOf == [a \in Addr |-> [s \in Src |-> IF s = s1 \/ a # a1 THEN 1 ELSE 2]]
MCTriedBucketOf == [a \in Addr |-> 1]

MCInit ==
    /\ focus \in {"io", "stall", "addr", "client"}
    /\ InitIO /\ InitStall /\ InitAddr /\ InitClient
    /\ focus # "io" => pc["negotiate"] = "read"
    /\ focus # "client" => authenticated = FALSE

MCNext ==
    \/ focus = "io" /\ NextIO /\ UNCHANGED <<stallVars, addrVars, clientVars, focus>>
    \/ focus = "stall" /\ NextStall /\ UNCHANGED <<ioVars, addrVars, clientVars, focus>>
    \/ focus = "addr" /\ NextAddr /\ UNCHANGED <<ioVars, stallVars, clientVars, focus>>
    \/ focus = "client" /\ NextClient /\ UNCHANGED <<ioVars, stallVars, addrVars, focus>>

MCSpec ==
    /\ MCInit /\ [][MCNext]_<<ioVars, stallVars, addrVars, clientVars, focus>>
    /\ focus = "io" => FairIO
    /\ focus = "client" => FairClient

\* The goroutines of a connection that is closed end, and nobody is left
\* waiting for them.
ConnectionsEnd == (focus = "io" => HandlersEnd) /\ (focus = "client" => ClientEnds)
=============================================================================
