---------------------------- MODULE ConnManager ----------------------------
(***************************************************************************)
(* The connection manager (connmgr/connmanager.go): it keeps a number of   *)
(* outbound connections alive.                                             *)
(*                                                                         *)
(* One goroutine, connHandler, owns the map conns and handles one message  *)
(* of the unbuffered channel requests at a time.  Everybody else is a      *)
(* goroutine of its own: Connect and NewConnReq dial and then block on     *)
(* requests until connHandler takes their message, and the timers of       *)
(* handleFailedConn start Connect or NewConnReq again later.  A flow is    *)
(* such a goroutine or timer working for one request, at pc                *)
(*    "timer"   waiting in time.AfterFunc to call Connect,                 *)
(*    "dial"    past the test of cm.stop: in GetNewAddress or cfg.Dial, or *)
(*              blocked on requests with their outcome.                    *)
(* Nobody sees the outcome of a dial before connHandler takes it, so it is *)
(* chosen then.  The lengths of the delays are abstracted: a timer fires   *)
(* at any time.                                                            *)
(*                                                                         *)
(* The module describes the manager's own steps; who asks for connections  *)
(* and who closes them is module Server, which extends this one.           *)
(***************************************************************************)
EXTENDS Integers, FiniteSets, Sequences

CONSTANTS
    TargetOutbound,     \* cfg.TargetOutbound
    MaxFailedAttempts,  \* maxFailedAttempts, 25 in the code
    PermanentPeers,     \* how many permanent peers the configuration names
    MaxConnReqs,        \* bound on the number of connection requests
    MaxDials            \* bound on the number of successful dials

ASSUME ConnAssumption ==
    /\ TargetOutbound \in Nat \ {0}
    /\ MaxFailedAttempts \in Nat \ {0}
    /\ PermanentPeers \in Nat
    /\ MaxConnReqs \in Nat
    /\ MaxDials \in Nat

VARIABLES
    connReqs,           \* id -> the ConnReq with that id; the ids are
                        \* 1..connReqCount
    conns,              \* conns of connHandler: id -> its connection
    flows,              \* the goroutines and timers that work for a request
    spawned,            \* goroutines that have not passed the test of
                        \* cm.stop at the head of Connect or NewConnReq
    failedAttempts,     \* cm.failedAttempts, counted up to the limit
    dials,              \* how many connections have been established
    connHandler,        \* "new", "running" or "done"
    launched,           \* whether Start has made its initial requests
    early,              \* history: how many requests were given up for a
                        \* new one before that
    stop                \* cm.stop

connVars == <<connReqs, conns, flows, spawned, failedAttempts, dials,
              connHandler, launched, early, stop>>

(* A connection request is permanent (configured, or added over RPC),      *)
(* one that is tried once (added over RPC), or one that NewConnReq made.   *)
Kind == {"permanent", "once", "auto"}

ConnState == {"pending", "established", "disconnected", "failed"}

connReqCount == Len(connReqs)

Ids == DOMAIN connReqs

Flow == [id : Nat, pc : {"timer", "dial"}]

ConnTypeOK ==
    /\ connReqs \in Seq([kind : Kind, state : ConnState])
    /\ DOMAIN conns \subseteq Ids
    /\ conns \in [DOMAIN conns -> 1..dials]
    /\ flows \in SUBSET Flow
    /\ \A f \in flows : f.id \in Ids
    /\ spawned \in [Kind -> Nat]
    /\ failedAttempts \in 0..MaxFailedAttempts
    /\ dials \in 0..MaxDials
    /\ connHandler \in {"new", "running", "done"}
    /\ launched \in BOOLEAN
    /\ early \in Nat
    /\ stop \in BOOLEAN

(* newServer starts a goroutine for every configured peer before the       *)
(* manager itself is started.                                              *)
ConnInit ==
    /\ connReqs = <<>>
    /\ conns = [i \in {} |-> 0]
    /\ flows = {}
    /\ spawned = [k \in Kind |-> IF k = "permanent" THEN PermanentPeers
                                                    ELSE 0]
    /\ failedAttempts = 0
    /\ dials = 0
    /\ connHandler = "new"
    /\ launched = FALSE
    /\ early = 0
    /\ stop = FALSE

-----------------------------------------------------------------------------
(* Goroutines on their way to connHandler.                                 *)

(* Connect of a new request, and NewConnReq: both return when the manager  *)
(* has been stopped; otherwise the request gets the next id.  NewConnReq   *)
(* then asks for an address, and reports a failure when it gets none.      *)
BeginConnect(k) ==
    /\ spawned[k] > 0
    /\ spawned' = [spawned EXCEPT ![k] = @ - 1]
    /\ \/ /\ stop
          /\ UNCHANGED <<connReqs, flows>>
       \/ /\ ~ stop
          /\ connReqCount < MaxConnReqs
          /\ connReqs' = Append(connReqs, [kind |-> k, state |-> "pending"])
          /\ flows' = flows \cup {[id |-> connReqCount + 1, pc |-> "dial"]}
    /\ UNCHANGED <<conns, failedAttempts, dials, connHandler,
                   launched, early, stop>>

(* The timer of a permanent request fires and calls Connect. *)
RetryFires(f) ==
    /\ f.pc = "timer"
    /\ flows' = (flows \ {f})
                    \cup (IF stop THEN {} ELSE {[f EXCEPT !.pc = "dial"]})
    /\ UNCHANGED <<connReqs, conns, spawned, failedAttempts, dials,
                   connHandler, launched, early, stop>>

-----------------------------------------------------------------------------
(* connHandler.                                                            *)

Established == DOMAIN conns

Permanent(i) == connReqs[i].kind = "permanent"

SetState(i, s) == connReqs' = [connReqs EXCEPT ![i].state = s]

CapFailed(n) == IF n > MaxFailedAttempts THEN MaxFailedAttempts ELSE n

(* handleFailedConn(c): nothing once stopped; a permanent request is       *)
(* dialled again by a timer; any other one is replaced by a new request,   *)
(* at once or, after MaxFailedAttempts failures in a row, by a timer.  The *)
(* model does not tell the two apart: a goroutine may start late as well.  *)
handleFailedConn(i, others) ==
    IF stop
    THEN flows' = others /\ UNCHANGED <<spawned, failedAttempts, early>>
    ELSE IF Permanent(i)
    THEN /\ flows' = others \cup {[id |-> i, pc |-> "timer"]}
         /\ UNCHANGED <<spawned, failedAttempts, early>>
    ELSE /\ failedAttempts' = CapFailed(failedAttempts + 1)
         /\ spawned' = [spawned EXCEPT !["auto"] = @ + 1]
         /\ early' = IF launched THEN early ELSE early + 1
         /\ flows' = others

(* A dial succeeded.  The OnConnection callback is a goroutine of its own: *)
(* see module Server.                                                      *)
handleConnected(f) ==
    /\ connHandler = "running"
    /\ f.pc = "dial"
    /\ dials < MaxDials
    /\ dials' = dials + 1
    /\ SetState(f.id, "established")
    /\ conns' = [i \in Established \cup {f.id} |->
                    IF i = f.id THEN dials + 1 ELSE conns[i]]
    /\ failedAttempts' = 0
    /\ flows' = flows \ {f}
    /\ UNCHANGED <<spawned, connHandler, launched, early, stop>>

(* GetNewAddress or a dial failed. *)
handleFailed(f) ==
    /\ connHandler = "running"
    /\ f.pc = "dial"
    /\ SetState(f.id, "failed")
    /\ handleFailedConn(f.id, flows \ {f})
    /\ UNCHANGED <<conns, dials, connHandler, launched, stop>>

(* The test that decides whether a lost connection is replaced or retried, *)
(* made with the number of connections that are left.                      *)
BelowTarget(n) == n < TargetOutbound

(* handleDisconnected with retry set, for an id that a peer's              *)
(* disconnection names.  An id without connection is only logged.          *)
handleDisconnected(i) ==
    /\ IF i \in Established
       THEN /\ SetState(i, "disconnected")
            /\ conns' = [j \in Established \ {i} |-> conns[j]]
            /\ IF BelowTarget(Cardinality(Established \ {i}))
               THEN handleFailedConn(i, flows)
               ELSE UNCHANGED <<flows, spawned, failedAttempts, early>>
       ELSE UNCHANGED <<connReqs, conns, flows, spawned, failedAttempts,
                        early>>
    /\ UNCHANGED <<dials, connHandler, launched, stop>>

(* Disconnect(id) with connHandler's answer to it. *)
Disconnect(i) ==
    IF stop THEN UNCHANGED connVars ELSE handleDisconnected(i)

-----------------------------------------------------------------------------
(* Start and Stop.                                                         *)

StartHandler ==
    /\ connHandler = "new"
    /\ connHandler' = "running"
    /\ UNCHANGED <<connReqs, conns, flows, spawned, failedAttempts, dials,
                   launched, early, stop>>

(* The loop at the end of Start: the requests that already have an id      *)
(* count towards the target.                                               *)
StartRequests ==
    /\ connHandler # "new"
    /\ ~ launched
    /\ launched' = TRUE
    /\ spawned' = [spawned EXCEPT !["auto"] = @ +
          (IF connReqCount < TargetOutbound
           THEN TargetOutbound - connReqCount ELSE 0)]
    /\ UNCHANGED <<connReqs, conns, flows, failedAttempts, dials,
                   connHandler, early, stop>>

(* cm.stop is set and quit is closed; connHandler may take more messages   *)
(* before its select picks quit.                                           *)
Stop ==
    /\ ~ stop
    /\ stop' = TRUE
    /\ UNCHANGED <<connReqs, conns, flows, spawned, failedAttempts, dials,
                   connHandler, launched, early>>

(* Mutant: the handler waits until every connection has been closed. *)
HandlerWaitsForConns ==
    /\ stop
    /\ Established = {}
    /\ connHandler = "running"
    /\ connHandler' = "done"
    /\ UNCHANGED <<connReqs, conns, flows, spawned, failedAttempts, dials,
                   launched, early, stop>>

HandlerQuits ==
    /\ stop
    /\ connHandler = "running"
    /\ connHandler' = "done"
    /\ UNCHANGED <<connReqs, conns, flows, spawned, failedAttempts, dials,
                   launched, early, stop>>

(* The steps that connHandler and the manager's goroutines take by         *)
(* themselves, a new connection apart.                                     *)
ConnInternal ==
    \/ \E f \in flows : RetryFires(f) \/ handleFailed(f)
    \/ StartHandler
    \/ StartRequests
    \/ HandlerQuits

-----------------------------------------------------------------------------
(* Properties.                                                             *)

(* How many connections there are, and how many are being worked on. *)
InProgress ==
    Cardinality(flows) + spawned["permanent"] + spawned["once"]
        + spawned["auto"]

(* Until it is stopped, the manager never loses one of its TargetOutbound  *)
(* outbound slots: after Start has made its requests, every slot is a      *)
(* connection or an attempt, whatever fails, disconnects or is refused an  *)
(* address, in whatever order connHandler sees it.  Start counts the ids   *)
(* that have been given out, not the requests there are: one that failed   *)
(* and was replaced while Start ran takes two ids and costs a slot.        *)
SlotsKept ==
    launched /\ ~ stop =>
        Cardinality(Established) + InProgress + early >= TargetOutbound

(* What the comment on TargetOutbound says, "the number of outbound        *)
(* network connections to maintain".  It does not hold if TargetOutbound   *)
(* is above 1 and a request for one attempt fails between the start of     *)
(* connHandler and the loop of Start.                                      *)
AllSlotsKept ==
    launched /\ ~ stop => Cardinality(Established) + InProgress >= TargetOutbound

(* A request is never worked on twice: it has at most one goroutine or     *)
(* timer, and none while it has a connection.  Two would give the same id  *)
(* two connections, of which conns remembers one.                          *)
OneFlowPerRequest ==
    /\ \A f, g \in flows : f.id = g.id => f = g
    /\ \A f \in flows : f.id \notin Established

(* State reports a request established exactly when connHandler has its    *)
(* connection.                                                             *)
StateMatchesConns ==
    \A i \in Ids : connReqs[i].state = "established" <=> i \in Established

WorkedOn(i) == i \in Established \/ \E f \in flows : f.id = i

(* A permanent request is given up, left without connection, goroutine and *)
(* timer, only when the manager has stopped, or when its connection is     *)
(* lost while TargetOutbound others are up (the code tests the target      *)
(* before it looks at Permanent).                                          *)
PermanentKeptBelowTarget ==
    [][\A i \in Ids :
          Permanent(i) /\ WorkedOn(i) /\ ~ WorkedOn(i)' =>
              stop \/ Cardinality(Established') >= TargetOutbound]_connVars
=============================================================================
