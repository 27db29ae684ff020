----------------------------- MODULE PeerStall -----------------------------
(***************************************************************************)
(* The deadlines of stallHandler (peer/peer.go).  Every request that is    *)
(* sent sets a deadline for its answers, every message that is read takes  *)
(* deadlines away, and a ticker disconnects the peer when a deadline has   *)
(* passed, after moving it by the time inHandler has spent in callbacks,   *)
(* during which it cannot read the answer.                                 *)
(*                                                                         *)
(* Time is an integer clock.  It does not pass while the ticker is due, so *)
(* what is late here is late because of the code and not of the scheduler. *)
(***************************************************************************)
EXTENDS Integers

CONSTANTS
    TickInterval,       \* stallTickInterval
    ResponseTimeout,    \* stallResponseTimeout
    Requests,           \* the requests that are sent
    MaxTime             \* bound on the clock

ASSUME PeerStallAssumption ==
    /\ TickInterval \in Nat \ {0} /\ ResponseTimeout \in Nat \ {0}
    /\ Requests \subseteq {"version", "mempool", "getblocks", "getdata",
                           "getheaders", "getminingstate"}
    /\ MaxTime \in Nat

Response == {"verack", "inv", "block", "tx", "notfound", "headers", "miningstate", "other"}

VARIABLES
    now,        \* the clock
    tick,       \* when the ticker fires next
    deadline,   \* pendingResponses: the deadline of a response, 0 if none
    handler,    \* the time the active callback started, -1 if none
    offset,     \* deadlineOffset
    stalled,    \* the response the peer was disconnected for, "" if none
    hidden,     \* history: an overdue mining state has ended the loop of a
                \* tick although another response was overdue
    idle,       \* history: time since the request outside callbacks
    lost        \* history: callback time since the request that an earlier
                \* tick has taken into account and forgotten

stallVars == <<now, tick, deadline, handler, offset, stalled, hidden, idle, lost>>

-----------------------------------------------------------------------------
\* maybeAddDeadline: the responses a request expects, and the time they have.
Expects(req) ==
    CASE req = "version" -> {"verack"}
      [] req \in {"mempool", "getblocks"} -> {"inv"}
      [] req = "getdata" -> {"block", "tx", "notfound"}
      [] req = "getheaders" -> {"headers"}
      [] req = "getminingstate" -> {"miningstate"}

Timeout(resp) == IF resp = "headers" THEN 3 * ResponseTimeout ELSE ResponseTimeout

\* sccReceiveMessage: one of a group of responses stands for the group.
Clears(resp) ==
    IF resp \in {"block", "tx", "notfound"} THEN {"block", "tx", "notfound"} ELSE {resp}

Active == handler # -1

\* sccSendMessage
SendMessage(req) ==
    /\ stalled = ""
    /\ deadline' = [r \in Response |->
                      IF r \in Expects(req) THEN now + Timeout(r) ELSE deadline[r]]
    /\ idle' = [r \in Response |-> IF r \in Expects(req) THEN 0 ELSE idle[r]]
    /\ lost' = [r \in Response |-> IF r \in Expects(req) THEN 0 ELSE lost[r]]
    /\ UNCHANGED <<now, tick, handler, offset, stalled, hidden>>

\* inHandler reads a message (sccReceiveMessage) and enters its callback
\* (sccHandlerStart).
ReceiveMessage(resp) ==
    /\ stalled = ""
    /\ ~Active
    /\ deadline' = [r \in Response |-> IF r \in Clears(resp) THEN 0 ELSE deadline[r]]
    /\ idle' = [r \in Response |-> IF r \in Clears(resp) THEN 0 ELSE idle[r]]
    /\ lost' = [r \in Response |-> IF r \in Clears(resp) THEN 0 ELSE lost[r]]
    /\ handler' = now
    /\ UNCHANGED <<now, tick, offset, stalled, hidden>>

\* sccHandlerDone
HandlerDone ==
    /\ stalled = ""
    /\ Active
    /\ offset' = offset + (now - handler)
    /\ handler' = -1
    /\ UNCHANGED <<now, tick, deadline, stalled, hidden, idle, lost>>

\* Mutant: the callback that still runs is not counted.
TickOffsetDone == offset

\* The offset that the ticker applies to every deadline.
TickOffset == offset + (IF Active THEN now - handler ELSE 0)

Expired == {r \in Response : deadline[r] # 0 /\ now >= deadline[r] + TickOffset}

\* When the request of response r was sent.
SentAt(r) == deadline[r] - Timeout(r)

\* The callback time since the request that this tick has counted and the next
\* one will not: a callback that is still active is counted again.
Forgotten(r) == (now - SentAt(r)) - idle[r]
                  - (IF Active THEN now - (IF handler > SentAt(r) THEN handler ELSE SentAt(r))
                     ELSE 0)

\* stallTicker: the first expired response in the random order of the map ends
\* the loop; a mining state that does not come is not a reason to disconnect.
StallTick ==
    /\ stalled = ""
    /\ now = tick
    /\ tick' = now + TickInterval
    /\ \/ Expired = {} /\ UNCHANGED <<stalled, hidden>>
       \/ \E r \in Expired \ {"miningstate"} : stalled' = r /\ UNCHANGED hidden
       \/ /\ "miningstate" \in Expired
          /\ hidden' = (hidden \/ Expired # {"miningstate"})
          /\ UNCHANGED stalled
    /\ offset' = 0
    /\ lost' = [r \in Response |-> IF deadline[r] # 0 /\ stalled' = "" THEN Forgotten(r) ELSE lost[r]]
    /\ UNCHANGED <<now, deadline, handler, idle>>

Pass ==
    /\ stalled = ""
    /\ now < MaxTime
    /\ now < tick
    /\ now' = now + 1
    /\ idle' = [r \in Response |-> IF deadline[r] # 0 /\ ~Active THEN idle[r] + 1 ELSE idle[r]]
    /\ UNCHANGED <<tick, deadline, handler, offset, stalled, hidden, lost>>

InitStall ==
    /\ now = 0
    /\ tick = TickInterval
    /\ deadline = [r \in Response |-> 0]
    /\ handler = -1
    /\ offset = 0
    /\ stalled = "" /\ hidden = FALSE
    /\ idle = [r \in Response |-> 0]
    /\ lost = [r \in Response |-> 0]

NextStall ==
    \/ \E req \in Requests : SendMessage(req)
    \/ \E req \in Requests : \E resp \in Expects(req) \union {"other"} : ReceiveMessage(resp)
    \/ HandlerDone \/ StallTick \/ Pass

SpecStall == InitStall /\ [][NextStall]_stallVars

-----------------------------------------------------------------------------
\* A peer is disconnected for stalling exactly when it stalls.  It is not
\* disconnected unless the time since the request, without the time spent in
\* callbacks, has reached the timeout; callback time that an earlier tick has
\* counted and forgotten (deadlineOffset is reset on every tick, the deadlines
\* are not moved) counts against the peer, so a prompt answer behind several
\* slow callbacks can be called a stall.  And a response that is overdue is
\* noticed by the second tick after its timeout, whatever callbacks run,
\* unless an overdue mining state has hidden it.
StallJudged ==
    /\ stalled # "" => idle[stalled] + lost[stalled] >= Timeout(stalled)
    /\ \A r \in Response \ {"miningstate"} :
          (stalled = "" /\ deadline[r] # 0 /\ ~hidden)
             => idle[r] <= Timeout(r) + 2 * TickInterval
=============================================================================
