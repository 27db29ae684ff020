----------------------------- MODULE NetProofs ------------------------------
(***************************************************************************)
(* Proofs about five parts of the network code, PeerStall, PeerIO, Server, *)
(* WsClient and AddrManager.                                               *)
(*                                                                         *)
(* PeerStall.  The clock of stallHandler moves its deadlines by the time   *)
(* that callbacks took, but forgets that time at every tick.  idle and     *)
(* lost keep, for every response, the time outside callbacks since its     *)
(* request and the callback time that was forgotten, and StallInv relates  *)
(* the two to the deadline, the offset and the callback that is running: a *)
(* tick that finds a deadline passed has seen enough of that time, and one *)
(* that does not has not seen much more.  All of it is linear arithmetic   *)
(* over the clocks, for any timeouts and tick interval.                    *)
(*                                                                         *)
(* Server, with the ConnManager it extends.  ConnInv is what the steps of  *)
(* the connection manager keep; its slots have to be counted before the    *)
(* loop of Start as well, by the ids given out.  ServerInv adds the peers: *)
(* a peer that is not done owns the connection of its request, alone, and  *)
(* a listed peer has passed handleAddPeerMsg, so that it is counted in its *)
(* group exactly once.                                                     *)
(*                                                                         *)
(* WsClient.  The flag waiting of notificationQueueHandler is a token that *)
(* the notification on its way carries: OneToken says that one of the      *)
(* places between the two handlers holds it, and InOrder that what was     *)
(* written, this one, the pending ones and ntfnChan are, in this order,    *)
(* all that the manager queued.                                            *)
(*                                                                         *)
(* PeerIO.  IOInv counts: the flag waiting of queueHandler is the token of *)
(* the one message on its way (OneMessage), the reject message is in one   *)
(* of the places it passes through or was reported (RejectOnce), and an    *)
(* item is in one message, or was announced, only once it is known to the  *)
(* peer (ItemOnce).  A step that moves messages keeps the counts, and what *)
(* a step takes out of the queues it reports.                              *)
(*                                                                         *)
(* AddrManager.  AddrInv relates the index, the new buckets and nNew       *)
(* (NewAgrees) to the tried buckets (TriedAgrees) and says the same of the *)
(* file (FileAgrees), from which a restart builds the tables.  The helpers *)
(* of AddAddress and Good change them one after the other, so NewAgrees    *)
(* has two parameters: the addresses on their way to a bucket and the ones *)
(* that are tried.                                                         *)
(***************************************************************************)
EXTENDS PeerStall, PeerIO, Server, WsClient, AddrManager, OrderLemmas, FiniteSetTheorems, SequenceTheorems, TLAPS

(* The types of the clocks and deadlines of stallHandler.                  *)
StallType ==
    /\ now \in Nat /\ tick \in Nat /\ offset \in Nat
    /\ deadline \in [Response -> Nat]
    /\ handler \in Int /\ handler >= -1
    /\ handler =< now
    /\ tick - TickInterval =< now /\ now =< tick
    /\ idle \in [Response -> Nat]
    /\ lost \in [Response -> Int]

(* The callback time since a request that no earlier tick has forgotten is *)
(* in the offset that the next tick applies.                               *)
Accounted(r) ==
    deadline[r] # 0 => (now - SentAt(r)) - idle[r] - lost[r] =< TickOffset

(* The time since a request is at least the time outside callbacks, also   *)
(* when the callback that is active began, if it began after the request.  *)
Elapsed(r) ==
    deadline[r] # 0 =>
        /\ idle[r] =< now - SentAt(r)
        /\ Active => idle[r] =< handler - SentAt(r) \/ idle[r] = 0

(* The offset of the next tick leaves out the time outside callbacks,      *)
(* unless all of that has passed since the last tick.                      *)
Bounded(r) ==
    deadline[r] # 0 => \/ idle[r] + TickOffset =< now - SentAt(r)
                       \/ idle[r] =< now - (tick - TickInterval)

(* A response that the last tick did not find overdue.                     *)
Noticed(r) ==
    deadline[r] # 0 =>
        idle[r] =< Timeout(r) + TickInterval + (now - (tick - TickInterval))

(* The three accounts of the time a response has been waited for.          *)
Timed(r) == Accounted(r) /\ Elapsed(r) /\ Bounded(r)

(* The inductive invariant of stallHandler.                                *)
StallInv ==
    /\ StallType
    /\ hidden \in BOOLEAN
    /\ stalled \in Response \cup {""}
    /\ stalled = "" => \A r \in Response : Timed(r)
    /\ stalled = "" /\ ~hidden =>
          \A r \in Response \ {"miningstate"} : Noticed(r)
    /\ stalled # "" => idle[stalled] + lost[stalled] >= Timeout(stalled)

(* Every response has a deadline in the future.                            *)
LEMMA TimeoutType ==
    ASSUME NEW r
    PROVE  Timeout(r) \in Nat \ {0}
BY PeerStallAssumption DEF Timeout

(* Nothing is waited for when the peer starts.                             *)
LEMMA StallInit == InitStall => StallInv
<1> SUFFICES ASSUME InitStall PROVE StallInv
    OBVIOUS
<1>1. StallType
    <2>1. /\ now = 0 /\ tick = TickInterval /\ handler = -1 /\ offset = 0
          /\ deadline = [r \in Response |-> 0] /\ idle = [r \in Response |-> 0]
          /\ lost = [r \in Response |-> 0]
        BY DEF InitStall
    <2> QED BY <2>1, PeerStallAssumption DEF StallType
<1>2. \A r \in Response : deadline[r] = 0
    BY DEF InitStall
<1>3. stalled = ""
    BY DEF InitStall
<1>4. \A r \in Response : Timed(r) /\ Noticed(r)
    BY <1>2 DEF Timed, Accounted, Elapsed, Bounded, Noticed
<1>5. hidden \in BOOLEAN
    BY DEF InitStall
<1> QED BY <1>1, <1>3, <1>4, <1>5 DEF StallInv

(* A request sets the deadline of what it expects.                         *)
LEMMA SendStep ==
    ASSUME StallInv, NEW req \in Requests, SendMessage(req)
    PROVE  StallInv'
<1>0. stalled = ""
    BY DEF SendMessage
<1>1. StallType
    BY DEF StallInv, SendMessage
<1>2. /\ now' = now /\ tick' = tick /\ handler' = handler /\ offset' = offset
      /\ deadline' = [r \in Response |-> IF r \in Expects(req)
                                         THEN now + Timeout(r) ELSE deadline[r]]
      /\ idle' = [r \in Response |-> IF r \in Expects(req) THEN 0 ELSE idle[r]]
      /\ lost' = [r \in Response |-> IF r \in Expects(req) THEN 0 ELSE lost[r]]
    BY DEF SendMessage
<1>3. \A r \in Response : now + Timeout(r) \in Nat
    BY <1>1, TimeoutType DEF StallType
<1>4. StallType'
    <2>1. deadline' \in [Response -> Nat]
        BY <1>1, <1>2, <1>3 DEF StallType
    <2>2. idle' \in [Response -> Nat] /\ lost' \in [Response -> Int]
        BY <1>1, <1>2 DEF StallType
    <2> QED BY <1>1, <1>2, <2>1, <2>2 DEF StallType
<1>5. TickOffset' = TickOffset /\ TickOffset \in Nat
      /\ (Active' <=> Active)
    BY <1>1, <1>2 DEF TickOffset, Active, StallType
<1>6. ASSUME NEW r \in Response
      PROVE  Timed(r)' /\ (Noticed(r) => Noticed(r)')
    <2>1. CASE r \in Expects(req)
        <3>1. /\ deadline'[r] = now + Timeout(r) /\ idle'[r] = 0 /\ lost'[r] = 0
            BY <1>2, <2>1
        <3>2. SentAt(r)' = now
            BY <1>1, <3>1, TimeoutType DEF SentAt, StallType
        <3> QED
            BY <1>1, <1>2, <1>5, <3>1, <3>2, TimeoutType, PeerStallAssumption
               DEF Timed, Accounted, Elapsed, Bounded, Noticed, StallType
    <2>2. CASE r \notin Expects(req)
        <3>1. /\ deadline'[r] = deadline[r] /\ idle'[r] = idle[r]
              /\ lost'[r] = lost[r]
            BY <1>2, <2>2
        <3>2. SentAt(r)' = SentAt(r)
            BY <3>1 DEF SentAt
        <3>3. Timed(r)
            BY <1>0 DEF StallInv
        <3> QED BY <1>2, <1>5, <3>1, <3>2, <3>3
                   DEF Timed, Accounted, Elapsed, Bounded, Noticed
    <2> QED BY <2>1, <2>2
<1>9. hidden' = hidden /\ hidden \in BOOLEAN /\ stalled' = stalled
    BY DEF SendMessage, StallInv
<1> QED BY <1>0, <1>2, <1>4, <1>6, <1>9 DEF StallInv

(* A response clears its deadlines and starts its callback.                *)
LEMMA ReceiveStep ==
    ASSUME StallInv, NEW resp, ReceiveMessage(resp)
    PROVE  StallInv'
<1>0. stalled = ""
    BY DEF ReceiveMessage
<1>1. StallType /\ ~Active
    BY DEF StallInv, ReceiveMessage
<1>2. /\ now' = now /\ tick' = tick /\ handler' = now /\ offset' = offset
      /\ deadline' = [r \in Response |-> IF r \in Clears(resp) THEN 0
                                                               ELSE deadline[r]]
      /\ idle' = [r \in Response |-> IF r \in Clears(resp) THEN 0 ELSE idle[r]]
      /\ lost' = [r \in Response |-> IF r \in Clears(resp) THEN 0 ELSE lost[r]]
    BY DEF ReceiveMessage
<1>3. StallType'
    BY <1>1, <1>2 DEF StallType
<1>4. TickOffset' = TickOffset
    BY <1>1, <1>2 DEF TickOffset, Active, StallType
<1>5. ASSUME NEW r \in Response
      PROVE  Timed(r)' /\ (Noticed(r) => Noticed(r)')
    <2>1. CASE r \in Clears(resp)
        BY <1>2, <2>1 DEF Timed, Accounted, Elapsed, Bounded, Noticed
    <2>2. CASE r \notin Clears(resp)
        <3>1. /\ deadline'[r] = deadline[r] /\ idle'[r] = idle[r]
              /\ lost'[r] = lost[r]
            BY <1>2, <2>2
        <3>2. SentAt(r)' = SentAt(r)
            BY <3>1 DEF SentAt
        <3>3. Timed(r)
            BY <1>0 DEF StallInv
        <3> QED BY <1>2, <1>4, <3>1, <3>2, <3>3
                   DEF Timed, Accounted, Elapsed, Bounded, Noticed
    <2> QED BY <2>1, <2>2
<1>9. hidden' = hidden /\ hidden \in BOOLEAN /\ stalled' = stalled
    BY DEF ReceiveMessage, StallInv
<1> QED BY <1>0, <1>2, <1>3, <1>5, <1>9 DEF StallInv

(* The time of a callback is added to the offset.                          *)
LEMMA HandlerDoneStep ==
    ASSUME StallInv, HandlerDone
    PROVE  StallInv'
<1>0. stalled = ""
    BY DEF HandlerDone
<1>1. StallType /\ Active
    BY DEF StallInv, HandlerDone
<1>2. /\ now' = now /\ tick' = tick /\ handler' = -1
      /\ offset' = offset + (now - handler)
      /\ deadline' = deadline
      /\ idle' = idle /\ lost' = lost
    BY DEF HandlerDone
<1>3. StallType'
    BY <1>1, <1>2 DEF StallType, Active
<1>4. TickOffset' = TickOffset /\ ~Active'
    BY <1>1, <1>2 DEF TickOffset, Active, StallType
<1>5. ASSUME NEW r \in Response
      PROVE  Timed(r)' /\ (Noticed(r) => Noticed(r)')
    <2>1. Timed(r)
        BY <1>0 DEF StallInv
    <2>2. SentAt(r)' = SentAt(r)
        BY <1>2 DEF SentAt
    <2> QED BY <1>2, <1>4, <2>1, <2>2
               DEF Timed, Accounted, Elapsed, Bounded, Noticed
<1>9. hidden' = hidden /\ hidden \in BOOLEAN /\ stalled' = stalled
    BY DEF HandlerDone, StallInv
<1> QED BY <1>0, <1>2, <1>3, <1>5, <1>9 DEF StallInv

(* Time passes up to the next tick.                                        *)
LEMMA PassStep ==
    ASSUME StallInv, Pass
    PROVE  StallInv'
<1>0. stalled = ""
    BY DEF Pass
<1>1. StallType /\ now < tick
    BY DEF StallInv, Pass
<1>2. /\ now' = now + 1 /\ tick' = tick /\ handler' = handler
      /\ offset' = offset
      /\ deadline' = deadline /\ lost' = lost
      /\ idle' = [r \in Response |-> IF deadline[r] # 0 /\ ~Active
                                     THEN idle[r] + 1 ELSE idle[r]]
    BY DEF Pass
<1>3. StallType'
    <2>1. \A r \in Response : idle[r] \in Nat /\ idle[r] + 1 \in Nat
        BY <1>1 DEF StallType
    <2>2. idle' \in [Response -> Nat]
        BY <1>2, <2>1
    <2>3. /\ now \in Nat /\ tick \in Nat /\ offset \in Nat /\ handler \in Int
          /\ handler >= -1 /\ handler =< now /\ TickInterval \in Nat
          /\ tick - TickInterval =< now /\ now < tick
        BY <1>1, PeerStallAssumption DEF StallType
    <2>4. /\ now + 1 \in Nat /\ handler =< now + 1
          /\ tick - TickInterval =< now + 1 /\ now + 1 =< tick
        BY <2>3
    <2>5. deadline \in [Response -> Nat] /\ lost \in [Response -> Int]
        BY <1>1 DEF StallType
    <2> QED BY <1>2, <2>2, <2>3, <2>4, <2>5 DEF StallType
<1>4. /\ Active' <=> Active
      /\ Active => TickOffset' = TickOffset + 1
      /\ ~Active => TickOffset' = TickOffset
      /\ TickOffset \in Int
    BY <1>1, <1>2 DEF TickOffset, Active, StallType
<1>5. ASSUME NEW r \in Response, deadline[r] # 0
      PROVE  Timed(r)' /\ (Noticed(r) => Noticed(r)')
    <2>1. Timed(r)
        BY <1>0 DEF StallInv
    <2>2. SentAt(r)' = SentAt(r) /\ SentAt(r) \in Int
        BY <1>1, <1>2, TimeoutType DEF SentAt, StallType
    <2>3. /\ idle[r] \in Nat /\ lost[r] \in Int /\ lost'[r] = lost[r]
          /\ deadline'[r] = deadline[r] /\ now \in Nat /\ tick \in Nat
          /\ handler \in Int /\ Timeout(r) \in Nat /\ TickInterval \in Nat
        BY <1>1, <1>2, TimeoutType, PeerStallAssumption DEF StallType
    <2>4. CASE Active
        <3>1. idle'[r] = idle[r]
            BY <1>2, <2>4
        <3> QED BY <1>2, <1>4, <1>5, <2>1, <2>2, <2>3, <2>4, <3>1
                   DEF Timed, Accounted, Elapsed, Bounded, Noticed
    <2>5. CASE ~Active
        <3>1. idle'[r] = idle[r] + 1
            BY <1>2, <1>5, <2>5
        <3> QED BY <1>2, <1>4, <1>5, <2>1, <2>2, <2>3, <2>5, <3>1
                   DEF Timed, Accounted, Elapsed, Bounded, Noticed
    <2> QED BY <2>4, <2>5
<1>6. ASSUME NEW r \in Response, deadline[r] = 0
      PROVE  Timed(r)' /\ (Noticed(r) => Noticed(r)')
    BY <1>2, <1>6 DEF Timed, Accounted, Elapsed, Bounded, Noticed
<1>9. hidden' = hidden /\ hidden \in BOOLEAN /\ stalled' = stalled
    BY DEF Pass, StallInv
<1> QED BY <1>0, <1>2, <1>3, <1>5, <1>6, <1>9 DEF StallInv

(* A tick compares the deadlines with the offset and forgets the offset.   *)
LEMMA TickStep ==
    ASSUME StallInv, StallTick
    PROVE  StallInv'
<1>0. stalled = ""
    BY DEF StallTick
<1>1. StallType /\ now = tick
    BY DEF StallInv, StallTick
<1>2. /\ now' = now /\ tick' = now + TickInterval /\ offset' = 0
      /\ handler' = handler /\ deadline' = deadline /\ idle' = idle
    BY DEF StallTick
<1>11. lost' = [r \in Response |-> IF deadline[r] # 0 /\ stalled' = ""
                                   THEN Forgotten(r) ELSE lost[r]]
    BY DEF StallTick
<1>3. \/ Expired = {} /\ stalled' = stalled /\ hidden' = hidden
      \/ \E r \in Expired \ {"miningstate"} : stalled' = r /\ hidden' = hidden
      \/ /\ "miningstate" \in Expired
         /\ hidden' = (hidden \/ Expired # {"miningstate"})
         /\ stalled' = stalled
    BY DEF StallTick
<1>4. /\ stalled' = "" \/ stalled' \in Expired
      /\ hidden' \in BOOLEAN
      /\ stalled' = "" /\ ~hidden' => ~hidden /\ Expired \subseteq {"miningstate"}
    <2>1. "" \notin Expired /\ hidden \in BOOLEAN
        BY DEF Expired, Response, StallInv
    <2>2. CASE Expired = {} /\ stalled' = stalled /\ hidden' = hidden
        BY <1>0, <2>1, <2>2
    <2>3. CASE \E r \in Expired \ {"miningstate"} :
                  stalled' = r /\ hidden' = hidden
        BY <1>0, <2>1, <2>3
    <2>4. CASE /\ "miningstate" \in Expired
               /\ hidden' = (hidden \/ Expired # {"miningstate"})
               /\ stalled' = stalled
        <3>1. hidden' \in BOOLEAN
            BY <2>4
        <3>2. ~hidden' => ~hidden /\ Expired = {"miningstate"}
            BY <2>4
        <3>3. stalled' = ""
            BY <1>0, <2>4
        <3> QED BY <3>1, <3>2, <3>3, Zenon
    <2> QED BY <1>3, <2>2, <2>3, <2>4
<1>5. \A r \in Response : SentAt(r) \in Int /\ Forgotten(r) \in Int
    BY <1>1, TimeoutType DEF SentAt, Forgotten, StallType
<1>6. StallType'
    <2>1. lost' \in [Response -> Int]
        <3>1. \A r \in Response : lost[r] \in Int
            BY <1>1 DEF StallType
        <3>2. CASE stalled' = ""
            <4>1. lost' = [r \in Response |-> IF deadline[r] # 0
                                              THEN Forgotten(r) ELSE lost[r]]
                BY <1>11, <3>2
            <4> QED BY <1>5, <3>1, <4>1
        <3>3. CASE stalled' # ""
            <4>1. lost' = [r \in Response |-> lost[r]]
                BY <1>11, <3>3
            <4> QED BY <3>1, <4>1
        <3> QED BY <3>2, <3>3
    <2> QED BY <1>1, <1>2, <2>1, PeerStallAssumption DEF StallType
<1>10. stalled' \in Response \cup {""}
    BY <1>4 DEF Expired
<1>7. CASE stalled' = ""
    <2>1. ASSUME NEW r \in Response, deadline[r] # 0
          PROVE  Timed(r)' /\ (r \notin Expired => Noticed(r)')
        <3>1. Accounted(r) /\ Elapsed(r) /\ Bounded(r)
            BY <1>0 DEF StallInv, Timed
        <3>2. SentAt(r)' = SentAt(r) /\ SentAt(r) \in Int
            BY <1>2, <1>5 DEF SentAt
        <3>3. /\ idle[r] \in Nat /\ idle'[r] = idle[r] 
              /\ deadline'[r] = deadline[r] /\ now \in Nat /\ handler \in Int
              /\ handler =< now /\ Timeout(r) \in Nat /\ TickInterval \in Nat
            BY <1>1, <1>2, TimeoutType, PeerStallAssumption
               DEF StallType
        <3>4. /\ TickOffset' = IF Active THEN now - handler ELSE 0
              /\ Active' <=> Active
            BY <1>2, <3>3 DEF TickOffset, Active
        <3>11. lost'[r] = Forgotten(r)
            BY <1>7, <1>11, <2>1
        <3>5. Accounted(r)'
            BY <1>2, <3>2, <3>3, <3>4, <3>11 DEF Accounted, Forgotten
        <3>6. Elapsed(r)'
            BY <1>2, <3>1, <3>2, <3>3, <3>4 DEF Elapsed
        <3>7. Bounded(r)'
            BY <1>2, <2>1, <3>1, <3>2, <3>3, <3>4 DEF Bounded, Elapsed
        <3>8. ASSUME r \notin Expired
              PROVE  idle[r] =< Timeout(r) + TickInterval
            <4>2. now < deadline[r] + TickOffset
                BY <1>1, <2>1, <3>8 DEF Expired, TickOffset, StallType, Active
            <4>3. TickOffset \in Int
                BY <1>1 DEF TickOffset, StallType, Active
            <4>4. deadline[r] = SentAt(r) + Timeout(r)
                BY <1>1, TimeoutType DEF SentAt, StallType
            <4> QED BY <1>1, <2>1, <3>1, <3>2, <3>3, <4>2, <4>3, <4>4
                       DEF Bounded
        <3>9. r \notin Expired => Noticed(r)'
            BY <1>2, <3>3, <3>8 DEF Noticed
        <3> QED BY <3>5, <3>6, <3>7, <3>9 DEF Timed
    <2>2. ASSUME NEW r \in Response, deadline[r] = 0
          PROVE  Timed(r)' /\ (r \notin Expired => Noticed(r)')
        BY <1>2, <2>2 DEF Timed, Accounted, Elapsed, Bounded, Noticed
    <2>3. ~hidden' => \A r \in Response \ {"miningstate"} : Noticed(r)'
        BY <1>4, <1>7, <2>1, <2>2
    <2>4. \A r \in Response : Timed(r)'
        BY <2>1, <2>2
    <2> QED BY <1>4, <1>6, <1>7, <1>10, <2>3, <2>4 DEF StallInv
<1>8. CASE stalled' # ""
    <2> DEFINE r == stalled'
    <2>1. r \in Response /\ deadline[r] # 0 /\ now >= deadline[r] + TickOffset
        BY <1>4, <1>8 DEF Expired
    <2>2. idle'[r] = idle[r] /\ lost'[r] = lost[r]
        BY <1>2, <1>8, <1>11, <2>1
    <2> HIDE DEF r
    <2>3. Accounted(r)
        BY <1>0, <2>1 DEF StallInv, Timed
    <2>4. /\ deadline[r] = SentAt(r) + Timeout(r) /\ SentAt(r) \in Int
          /\ TickOffset \in Int /\ Timeout(r) \in Nat /\ now \in Nat
          /\ idle[r] \in Nat /\ lost[r] \in Int
        BY <1>1, <2>1, TimeoutType DEF SentAt, TickOffset, Active, StallType
    <2>5. idle'[r] + lost'[r] >= Timeout(r)
        BY <2>1, <2>2, <2>3, <2>4 DEF Accounted
    <2> QED BY <1>4, <1>6, <1>8, <1>10, <2>5 DEF StallInv, r
<1> QED BY <1>7, <1>8

(* The accounts of time that stallHandler keeps are inductive.             *)
THEOREM StallInvariant == SpecStall => []StallInv
<1>1. StallInv /\ [NextStall]_stallVars => StallInv'
    <2> SUFFICES ASSUME StallInv, [NextStall]_stallVars PROVE StallInv'
        OBVIOUS
    <2>1. CASE \E req \in Requests : SendMessage(req)
        BY <2>1, SendStep
    <2>2. CASE \E req \in Requests :
                  \E resp \in Expects(req) \union {"other"} :
                      ReceiveMessage(resp)
        BY <2>2, ReceiveStep
    <2>3. CASE HandlerDone
        BY <2>3, HandlerDoneStep
    <2>4. CASE StallTick
        BY <2>4, TickStep
    <2>5. CASE Pass
        BY <2>5, PassStep
    <2>6. CASE UNCHANGED stallVars
        BY <2>6 DEF stallVars, StallInv, StallType, Timed, Accounted,
                    Elapsed, Bounded, Noticed, SentAt, TickOffset, Active
    <2> QED BY <2>1, <2>2, <2>3, <2>4, <2>5, <2>6 DEF NextStall
<1> QED BY <1>1, StallInit, PTL DEF SpecStall

(* For any interval and timeout: a peer is disconnected only when the time *)
(* outside callbacks and the callback time that ticks have forgotten reach *)
(* the timeout, and an overdue response is noticed by the second tick.     *)
THEOREM StallsAreJudged == SpecStall => []StallJudged
<1>1. StallInv => StallJudged
    <2> SUFFICES ASSUME StallInv PROVE StallJudged
        OBVIOUS
    <2>1. ASSUME NEW r \in Response \ {"miningstate"}, stalled = "",
                 deadline[r] # 0, ~hidden
          PROVE  idle[r] =< Timeout(r) + 2 * TickInterval
        <3>1. Noticed(r) /\ StallType
            BY <2>1 DEF StallInv
        <3>2. idle[r] =< Timeout(r) + TickInterval
                            + (now - (tick - TickInterval))
            BY <2>1, <3>1 DEF Noticed
        <3>3. /\ now \in Nat /\ tick \in Nat /\ now =< tick
              /\ idle[r] \in Nat /\ TickInterval \in Nat /\ Timeout(r) \in Nat
            BY <3>1, TimeoutType, PeerStallAssumption DEF StallType
        <3> QED BY <3>2, <3>3
    <2> QED BY <2>1 DEF StallJudged, StallInv
<1> QED BY <1>1, StallInvariant, PTL

-----------------------------------------------------------------------------
(* Slots of the connection manager, as numbers.                            *)

(* The goroutines that have not begun.                                     *)
Waiting(sp) == sp["permanent"] + sp["once"] + sp["auto"]

(* Slots as numbers: connections, flows, goroutines and those lost early.  *)
AtLeast(e, f, w, l, t) == e + f + w + l >= t

(* One slot more than before, in the same three numbers.                   *)
More(f2, w2, l2, f, w, l) == f2 + w2 + l2 >= f + w + l + 1

(* The slots, before and after the loop of Start.                          *)
SlotsInv ==
    ~ stop =>
        /\ launched =>
              AtLeast(Cardinality(Established), Cardinality(flows),
                      Waiting(spawned), early, TargetOutbound)
        /\ ~ launched =>
              \/ AtLeast(Cardinality(Established), Cardinality(flows), 0, early,
                         TargetOutbound)
              \/ AtLeast(Cardinality(Established), Cardinality(flows), 0, early,
                         Len(connReqs))

(* The inductive invariant of the connection manager: types, no request    *)
(* worked on twice, states that match conns, and the slots.                *)
ConnInv ==
    /\ ConnTypeOK /\ IsFiniteSet(flows)
    /\ OneFlowPerRequest /\ StateMatchesConns /\ SlotsInv

(* The domain of a sequence.                                               *)
LEMMA SeqDomain ==
    ASSUME NEW S, NEW q \in Seq(S)
    PROVE  DOMAIN q = 1..Len(q) /\ Len(q) \in Nat
OBVIOUS

(* The ids given out are 1..connReqCount.                                  *)
LEMMA IdsAre ==
    ASSUME ConnTypeOK
    PROVE  Ids = 1..Len(connReqs) /\ Len(connReqs) \in Nat
<1> DEFINE S == [kind : Kind, state : ConnState]
<1>1. connReqs \in Seq(S)
    BY DEF ConnTypeOK
<1> HIDE DEF S
<1> QED BY <1>1, SeqDomain DEF Ids

(* A connection that is lost, or a flow that has failed, is replaced.      *)
LEMMA SlotMoves ==
    ASSUME NEW e \in Nat, NEW f \in Nat, NEW w \in Nat, NEW l \in Nat, NEW e2 \in Nat,
           NEW f1 \in Nat, NEW f2 \in Nat, NEW w2 \in Nat, NEW l2 \in Nat, NEW t \in Nat,
           AtLeast(e, f, w, l, t)
    PROVE  /\ e2 = e - 1 /\ More(f2, w2, l2, f, w, l) => AtLeast(e2, f2, w2, l2, t)
           /\ f1 = f - 1 /\ More(f2, w2, l2, f1, w, l) => AtLeast(e, f2, w2, l2, t)
BY DEF AtLeast, More

(* Finitely many connections are up.                                       *)
LEMMA EstFinite ==
    ASSUME ConnTypeOK
    PROVE  IsFiniteSet(Established) /\ Cardinality(Established) \in Nat
<1>1. Established \subseteq 1..Len(connReqs)
    BY IdsAre DEF ConnTypeOK, Established
<1>2. IsFiniteSet(1..Len(connReqs))
    BY IdsAre, FS_Interval
<1>3. IsFiniteSet(Established)
    BY <1>1, <1>2, FS_Subset
<1> QED BY <1>3, FS_CardinalityType

(* The counts of goroutines that have not begun are numbers.               *)
LEMMA WaitingType ==
    ASSUME NEW sp \in [Kind -> Nat]
    PROVE  /\ sp["permanent"] \in Nat /\ sp["once"] \in Nat /\ sp["auto"] \in Nat
           /\ Waiting(sp) \in Nat
BY DEF Kind, Waiting

(* Starting n goroutines of a kind.                                        *)
LEMMA WaitingMore ==
    ASSUME NEW sp \in [Kind -> Nat], NEW k \in Kind, NEW n \in Nat
    PROVE  /\ [sp EXCEPT ![k] = @ + n] \in [Kind -> Nat]
           /\ Waiting([sp EXCEPT ![k] = @ + n]) = Waiting(sp) + n
<1>1. k = "permanent" \/ k = "once" \/ k = "auto"
    BY DEF Kind
<1>2. "permanent" \in Kind /\ "once" \in Kind /\ "auto" \in Kind
    BY DEF Kind
<1>3. sp["permanent"] \in Nat /\ sp["once"] \in Nat /\ sp["auto"] \in Nat
    BY WaitingType
<1>4. CASE k = "permanent"
    BY <1>4, <1>2, <1>3 DEF Waiting
<1>5. CASE k = "once"
    BY <1>5, <1>2, <1>3 DEF Waiting
<1>6. CASE k = "auto"
    BY <1>6, <1>2, <1>3 DEF Waiting
<1> QED BY <1>1, <1>4, <1>5, <1>6

(* One goroutine of a kind begins.                                         *)
LEMMA WaitingLess ==
    ASSUME NEW sp \in [Kind -> Nat], NEW k \in Kind, sp[k] > 0
    PROVE  /\ [sp EXCEPT ![k] = @ - 1] \in [Kind -> Nat]
           /\ Waiting([sp EXCEPT ![k] = @ - 1]) = Waiting(sp) - 1
<1>1. k = "permanent" \/ k = "once" \/ k = "auto"
    BY DEF Kind
<1>2. "permanent" \in Kind /\ "once" \in Kind /\ "auto" \in Kind
    BY DEF Kind
<1>3. sp["permanent"] \in Nat /\ sp["once"] \in Nat /\ sp["auto"] \in Nat
    BY WaitingType
<1>4. CASE k = "permanent"
    BY <1>4, <1>2, <1>3 DEF Waiting
<1>5. CASE k = "once"
    BY <1>5, <1>2, <1>3 DEF Waiting
<1>6. CASE k = "auto"
    BY <1>6, <1>2, <1>3 DEF Waiting
<1> QED BY <1>1, <1>4, <1>5, <1>6

(* handleFailedConn adds a timer for request i, or a goroutine.            *)
FailedOK(i, others) ==
    /\ flows' \in SUBSET Flow /\ IsFiniteSet(flows')
    /\ spawned' \in [Kind -> Nat] /\ early' \in Nat
    /\ failedAttempts' \in 0..MaxFailedAttempts
    /\ \A f \in flows' : f \in others \/ f.id = i
    /\ \A f, g \in flows' : f.id = i /\ g.id = i => f = g
    /\ ~ stop /\ launched =>
          More(Cardinality(flows'), Waiting(spawned'), early',
               Cardinality(others), Waiting(spawned), early)
    /\ ~ stop /\ ~ launched =>
          More(Cardinality(flows'), 0, early', Cardinality(others), 0, early)

(* handleFailedConn makes up for the slot that was lost: with a timer for  *)
(* the same request, or with a goroutine that asks for a new one.          *)
LEMMA FailedConn ==
    ASSUME NEW i \in Nat, NEW others \in SUBSET Flow, IsFiniteSet(others), ConnTypeOK,
           \A f \in others : f.id # i, handleFailedConn(i, others)
    PROVE  FailedOK(i, others)
<1>0. /\ Cardinality(others) \in Nat /\ early \in Nat
      /\ spawned \in [Kind -> Nat] /\ Waiting(spawned) \in Nat
      /\ failedAttempts \in 0..MaxFailedAttempts
    BY FS_CardinalityType, WaitingType DEF ConnTypeOK
<1>1. CASE stop
    BY <1>0, <1>1 DEF handleFailedConn, FailedOK
<1>2. CASE ~ stop /\ Permanent(i)
    <2> DEFINE f0 == [id |-> i, pc |-> "timer"]
    <2>1. flows' = others \cup {f0} /\ UNCHANGED <<spawned, failedAttempts, early>>
        BY <1>2 DEF handleFailedConn
    <2>2. f0 \in Flow /\ f0.id = i /\ f0 \notin others
        BY DEF Flow
    <2>3. IsFiniteSet(flows') /\ Cardinality(flows') = Cardinality(others) + 1
        BY <2>1, <2>2, FS_AddElement
    <2>4. /\ flows' \in SUBSET Flow
          /\ \A f \in flows' : f \in others \/ f.id = i
          /\ \A f, g \in flows' : f.id = i /\ g.id = i => f = g
        <3> HIDE DEF f0
        <3> QED BY <2>1, <2>2
    <2>5. spawned' = spawned /\ failedAttempts' = failedAttempts /\ early' = early
        BY <2>1
    <2> QED BY <1>0, <2>3, <2>4, <2>5 DEF FailedOK, More
<1>3. CASE ~ stop /\ ~ Permanent(i)
    <2>1. /\ failedAttempts' = CapFailed(failedAttempts + 1)
          /\ spawned' = [spawned EXCEPT !["auto"] = @ + 1]
          /\ early' = (IF launched THEN early ELSE early + 1)
          /\ flows' = others
        BY <1>3 DEF handleFailedConn
    <2>2. "auto" \in Kind
        BY DEF Kind
    <2>3. spawned' \in [Kind -> Nat] /\ Waiting(spawned') = Waiting(spawned) + 1
        BY <1>0, <2>1, <2>2, WaitingMore
    <2>4. failedAttempts' \in 0..MaxFailedAttempts
        BY <1>0, <2>1, ConnAssumption DEF CapFailed
    <2>5. CASE launched
        BY <1>0, <2>1, <2>3, <2>4, <2>5 DEF FailedOK, More
    <2>6. CASE ~ launched
        BY <1>0, <2>1, <2>3, <2>4, <2>6 DEF FailedOK, More
    <2> QED BY <2>5, <2>6
<1> QED BY <1>1, <1>2, <1>3

-----------------------------------------------------------------------------
(* The connection manager.                                                 *)

(* Before Start, nothing is connected and no id is given out.              *)
LEMMA ConnInitInv == ConnInit => ConnInv
<1> SUFFICES ASSUME ConnInit PROVE ConnInv
    OBVIOUS
<1>1. /\ connReqs = <<>> /\ flows = {} /\ Established = {} /\ early = 0
      /\ Len(connReqs) = 0 /\ Ids = {} /\ launched = FALSE /\ stop = FALSE
    BY DEF ConnInit, Established, Ids
<1>2. ConnTypeOK
    <2>1. spawned \in [Kind -> Nat]
        BY ConnAssumption DEF ConnInit
    <2>2. conns \in [DOMAIN conns -> 1..dials]
        BY DEF ConnInit
    <2>3. connReqs \in Seq([kind : Kind, state : ConnState])
        BY <1>1
    <2>4. /\ DOMAIN conns \subseteq Ids /\ flows \in SUBSET Flow
          /\ \A f \in flows : f.id \in Ids
        BY <1>1 DEF Established
    <2>5. /\ failedAttempts \in 0..MaxFailedAttempts /\ dials \in 0..MaxDials
          /\ early \in Nat
        BY ConnAssumption DEF ConnInit
    <2>6. connHandler \in {"new", "running", "done"} /\ launched \in BOOLEAN /\ stop \in BOOLEAN
        BY DEF ConnInit
    <2> QED BY <2>1, <2>2, <2>3, <2>4, <2>5, <2>6 DEF ConnTypeOK
<1>3. Cardinality({}) = 0 /\ IsFiniteSet({})
    BY FS_EmptySet
<1>4. OneFlowPerRequest /\ StateMatchesConns
    BY <1>1 DEF OneFlowPerRequest, StateMatchesConns
<1>5. SlotsInv
    BY <1>1, <1>3 DEF SlotsInv, AtLeast
<1> QED BY <1>1, <1>2, <1>3, <1>4, <1>5 DEF ConnInv

(* The facts about numbers and finite sets that the steps need.            *)
LEMMA ConnFacts ==
    ASSUME ConnInv
    PROVE  /\ Ids = 1..Len(connReqs) /\ Len(connReqs) \in Nat
           /\ IsFiniteSet(Established) /\ Cardinality(Established) \in Nat
           /\ IsFiniteSet(flows) /\ Cardinality(flows) \in Nat
           /\ Waiting(spawned) \in Nat /\ spawned \in [Kind -> Nat]
           /\ early \in Nat /\ TargetOutbound \in Nat
           /\ Established \subseteq Ids /\ \A f \in flows : f \in Flow /\ f.id \in Ids
BY IdsAre, EstFinite, WaitingType, FS_CardinalityType, ConnAssumption
   DEF ConnInv, ConnTypeOK, Established

(* A step that leaves the requests and their flows alone.                  *)
LEMMA SameFlows ==
    ASSUME ConnInv, UNCHANGED <<connReqs, conns, flows, failedAttempts, dials, early>>,
           spawned' \in [Kind -> Nat], connHandler' \in {"new", "running", "done"},
           launched' \in BOOLEAN, stop' \in BOOLEAN, SlotsInv'
    PROVE  ConnInv'
<1>1. ConnTypeOK'
    BY DEF ConnInv, ConnTypeOK, Ids
<1>2. OneFlowPerRequest' /\ StateMatchesConns'
    BY DEF ConnInv, OneFlowPerRequest, StateMatchesConns, Established, Ids
<1> QED BY <1>1, <1>2 DEF ConnInv

(* Connect and NewConnReq turn a goroutine into the flow of a new id.      *)
LEMMA BeginConnectStep ==
    ASSUME ConnInv, NEW k \in Kind, BeginConnect(k)
    PROVE  ConnInv'
<1> DEFINE f0 == [id |-> Len(connReqs) + 1, pc |-> "dial"]
           r0 == [kind |-> k, state |-> "pending"]
<1>0. /\ spawned' \in [Kind -> Nat] /\ Waiting(spawned') = Waiting(spawned) - 1
      /\ UNCHANGED <<conns, failedAttempts, dials, connHandler, launched, early, stop>>
      /\ Established' = Established
    BY ConnFacts, WaitingLess DEF BeginConnect, Established
<1>1. CASE stop /\ UNCHANGED <<connReqs, flows>>
    <2>1. SlotsInv'
        BY <1>0, <1>1 DEF SlotsInv
    <2>2. connHandler \in {"new", "running", "done"} /\ launched \in BOOLEAN /\ stop \in BOOLEAN
        BY DEF ConnInv, ConnTypeOK
    <2> QED BY <1>0, <1>1, <2>1, <2>2, SameFlows
<1>2. CASE connReqs' = Append(connReqs, r0) /\ flows' = flows \cup {f0}
    <2>1. /\ connReqs' \in Seq([kind : Kind, state : ConnState])
          /\ Len(connReqs') = Len(connReqs) + 1
          /\ \A i \in 1..Len(connReqs) : connReqs'[i] = connReqs[i]
          /\ connReqs'[Len(connReqs) + 1] = r0
          /\ Ids' = 1..(Len(connReqs) + 1)
        <3>1. r0 \in [kind : Kind, state : ConnState]
            BY DEF ConnState
        <3>2. connReqs \in Seq([kind : Kind, state : ConnState])
            BY DEF ConnInv, ConnTypeOK
        <3> HIDE DEF r0
        <3> QED BY <1>2, <3>1, <3>2 DEF Ids
    <2>2. f0 \in Flow /\ f0.id = Len(connReqs) + 1 /\ f0 \notin flows
        BY ConnFacts DEF Flow
    <2> HIDE DEF f0
    <2>3. IsFiniteSet(flows') /\ Cardinality(flows') = Cardinality(flows) + 1
        BY <1>2, <2>2, ConnFacts, FS_AddElement
    <2>4. \A f \in flows' : f \in Flow /\ f.id \in Ids'
        BY <1>2, <2>1, <2>2, ConnFacts
    <2>5. ConnTypeOK'
        <3>1. flows' \in SUBSET Flow
            BY <2>4
        <3>2. DOMAIN conns' \subseteq Ids'
            BY <1>0, <2>1, ConnFacts DEF Established
        <3>3. conns' \in [DOMAIN conns' -> 1..dials']
            BY <1>0 DEF ConnInv, ConnTypeOK
        <3>4. /\ failedAttempts' \in 0..MaxFailedAttempts /\ dials' \in 0..MaxDials
              /\ connHandler' \in {"new", "running", "done"}
              /\ launched' \in BOOLEAN /\ early' \in Nat /\ stop' \in BOOLEAN
            BY <1>0 DEF ConnInv, ConnTypeOK
        <3> QED BY <1>0, <2>1, <2>4, <3>1, <3>2, <3>3, <3>4 DEF ConnTypeOK
    <2>6. OneFlowPerRequest'
        <3>1. \A f \in flows : f.id # Len(connReqs) + 1
            BY ConnFacts
        <3>2. Len(connReqs) + 1 \notin Established
            BY ConnFacts
        <3>3. \A f, g \in flows : f.id = g.id => f = g
            BY DEF ConnInv, OneFlowPerRequest
        <3>4. \A f \in flows : f.id \notin Established
            BY DEF ConnInv, OneFlowPerRequest
        <3> QED BY <1>0, <1>2, <2>2, <3>1, <3>2, <3>3, <3>4 DEF OneFlowPerRequest
    <2>7. StateMatchesConns'
        <3>1. connReqs'[Len(connReqs) + 1].state = "pending"
            BY <2>1
        <3>2. Len(connReqs) + 1 \notin Established
            BY ConnFacts
        <3>3. \A i \in 1..Len(connReqs) : connReqs[i].state = "established" <=> i \in Established
            BY ConnFacts DEF ConnInv, StateMatchesConns
        <3>4. \A i \in Ids' : i \in 1..Len(connReqs) \/ i = Len(connReqs) + 1
            BY <2>1, ConnFacts
        <3>5. \A i \in Ids' : connReqs'[i].state = "established" <=> i \in Established
            <4> SUFFICES ASSUME NEW i \in Ids'
                         PROVE  connReqs'[i].state = "established" <=> i \in Established
                OBVIOUS
            <4>1. CASE i \in 1..Len(connReqs)
                BY <4>1, <2>1, <3>3
            <4>2. CASE i = Len(connReqs) + 1
                BY <4>2, <3>1, <3>2
            <4> QED BY <3>4, <4>1, <4>2
        <3> QED BY <1>0, <3>5 DEF StateMatchesConns
    <2>8. SlotsInv'
        <3>1. ConnInv => SlotsInv
            BY DEF ConnInv
        <3>2. Cardinality(Established)' = Cardinality(Established)
            BY <1>0
        <3>3. Cardinality(flows)' = Cardinality(flows) + 1
            BY <2>3
        <3>4. launched' = launched /\ early' = early /\ stop' = stop
            BY <1>0
        <3>5. Waiting(spawned)' = Waiting(spawned) - 1 /\ Len(connReqs)' = Len(connReqs) + 1
            BY <1>0, <2>1
        <3>6. CASE launched
            BY <3>1, <3>2, <3>3, <3>4, <3>5, <3>6, ConnFacts DEF SlotsInv, AtLeast
        <3>7. CASE ~ launched
            BY <3>1, <3>2, <3>3, <3>4, <3>5, <3>7, ConnFacts DEF SlotsInv, AtLeast
        <3> QED BY <3>6, <3>7
    <2> QED BY <2>3, <2>5, <2>6, <2>7, <2>8 DEF ConnInv
<1> QED BY <1>1, <1>2 DEF BeginConnect, connReqCount

(* The timer becomes the dial of the same request.                         *)
LEMMA RetryFiresStep ==
    ASSUME ConnInv, NEW f \in flows, RetryFires(f)
    PROVE  ConnInv'
<1> DEFINE d == [f EXCEPT !.pc = "dial"]
<1>0. /\ UNCHANGED <<connReqs, conns, spawned, failedAttempts, dials, connHandler, launched,
                     early, stop>>
      /\ Established' = Established /\ Ids' = Ids
    BY DEF RetryFires, Established, Ids
<1>1. d \in Flow /\ d.id = f.id /\ d # f
    BY ConnFacts DEF RetryFires, Flow
<1>2. IsFiniteSet(flows \ {f}) /\ Cardinality(flows \ {f}) = Cardinality(flows) - 1
    BY ConnFacts, FS_RemoveElement
<1>3. /\ \A g, h \in flows : g.id = h.id => g = h
      /\ \A g \in flows : g.id \notin Established
    BY DEF ConnInv, OneFlowPerRequest
<1>4. d \notin flows
    BY <1>1, <1>3
<1> HIDE DEF d
<1>5. flows' = (flows \ {f}) \cup (IF stop THEN {} ELSE {d})
    BY DEF RetryFires, d
<1>6. IsFiniteSet(flows') /\ (~ stop => Cardinality(flows') = Cardinality(flows))
    <2>1. CASE stop
        BY <1>2, <1>5, <2>1
    <2>2. CASE ~ stop
        <3> DEFINE rest == flows \ {f}
        <3>1. flows' = rest \cup {d} /\ d \notin rest
            BY <1>4, <1>5, <2>2
        <3>2. IsFiniteSet(rest) /\ Cardinality(rest) = Cardinality(flows) - 1
            BY <1>2
        <3> HIDE DEF rest
        <3>3. IsFiniteSet(flows') /\ Cardinality(flows') = Cardinality(rest) + 1
            BY <3>1, <3>2, FS_AddElement
        <3> QED BY <3>2, <3>3, ConnFacts
    <2> QED BY <2>1, <2>2
<1>7. \A g \in flows' : \E h \in flows : g.id = h.id /\ g \in Flow /\ (g = h \/ (h = f /\ g = d))
    BY <1>1, <1>5, ConnFacts
<1>8. ConnTypeOK'
    <2>1. \A g \in flows' : g \in Flow /\ g.id \in Ids'
        BY <1>0, <1>7, ConnFacts
    <2> QED BY <1>0, <2>1 DEF ConnInv, ConnTypeOK
<1>9. OneFlowPerRequest'
    <2>1. ASSUME NEW g \in flows', NEW h \in flows', g.id = h.id
          PROVE  g = h
        BY <1>1, <1>3, <1>5, <2>1
    <2>2. \A g \in flows' : g.id \notin Established'
        BY <1>0, <1>3, <1>7
    <2> QED BY <2>1, <2>2 DEF OneFlowPerRequest
<1>10. StateMatchesConns'
    BY <1>0 DEF ConnInv, StateMatchesConns
<1>11. SlotsInv'
    BY <1>0, <1>6 DEF ConnInv, SlotsInv
<1> QED BY <1>6, <1>8, <1>9, <1>10, <1>11 DEF ConnInv

(* SetState changes the state of one request.                              *)
LEMMA SetStateIs ==
    ASSUME ConnTypeOK, NEW i \in Ids, NEW s \in ConnState, SetState(i, s)
    PROVE  /\ connReqs' \in Seq([kind : Kind, state : ConnState])
           /\ Len(connReqs') = Len(connReqs) /\ Ids' = Ids
           /\ connReqs'[i].state = s
           /\ \A j \in Ids : j # i => connReqs'[j] = connReqs[j]
           /\ \A j \in Ids : connReqs'[j].kind = connReqs[j].kind
<1> DEFINE S == [kind : Kind, state : ConnState]
           v == [connReqs[i] EXCEPT !.state = s]
<1>1. connReqs \in Seq(S)
    BY DEF ConnTypeOK
<1>2. Ids = 1..Len(connReqs) /\ Len(connReqs) \in Nat
    BY IdsAre
<1>3. connReqs[i] \in S
    <2> HIDE DEF S
    <2> QED BY <1>1, <1>2
<1>4. v \in S /\ v.state = s /\ v.kind = connReqs[i].kind
    BY <1>3
<1>5. connReqs' = [connReqs EXCEPT ![i] = v]
    BY DEF SetState
<1> HIDE DEF v, S
<1>6. DOMAIN connReqs' = 1..Len(connReqs)
    BY <1>2, <1>5 DEF Ids
<1>7. connReqs'[i] = v /\ \A j \in Ids : j # i => connReqs'[j] = connReqs[j]
    BY <1>2, <1>5 DEF Ids
<1>8. connReqs' \in Seq(S) /\ Len(connReqs') = Len(connReqs)
    BY <1>1, <1>2, <1>4, <1>5
<1>9. \A j \in Ids : connReqs'[j].kind = connReqs[j].kind
    BY <1>4, <1>7
<1>10. Ids' = Ids
    BY <1>2, <1>6 DEF Ids
<1> QED BY <1>4, <1>7, <1>8, <1>9, <1>10 DEF S

(* handleConnected turns a flow into a connection.                         *)
LEMMA ConnectedStep ==
    ASSUME ConnInv, NEW f \in flows, handleConnected(f)
    PROVE  ConnInv'
<1> DEFINE E == Established
<1>0. /\ f \in Flow /\ f.id \in Ids /\ f.id \notin Established
      /\ \A g, h \in flows : g.id = h.id => g = h
      /\ \A g \in flows : g.id \notin Established
    BY ConnFacts DEF ConnInv, OneFlowPerRequest
<1>1. /\ UNCHANGED <<spawned, connHandler, launched, early, stop>>
      /\ dials < MaxDials /\ dials' = dials + 1 /\ failedAttempts' = 0
      /\ flows' = flows \ {f}
      /\ conns' = [i \in Established \cup {f.id} |-> IF i = f.id THEN dials + 1 ELSE conns[i]]
      /\ SetState(f.id, "established")
    BY DEF handleConnected
<1>2. Established' = Established \cup {f.id}
    BY <1>1 DEF Established
<1>3. /\ connReqs' \in Seq([kind : Kind, state : ConnState])
      /\ Len(connReqs') = Len(connReqs) /\ Ids' = Ids
      /\ connReqs'[f.id].state = "established"
      /\ \A j \in Ids : j # f.id => connReqs'[j] = connReqs[j]
    <2>1. "established" \in ConnState /\ ConnTypeOK
        BY DEF ConnState, ConnInv
    <2> QED BY <1>0, <1>1, <2>1, SetStateIs
<1>4. IsFiniteSet(flows') /\ Cardinality(flows') = Cardinality(flows) - 1
    BY <1>1, ConnFacts, FS_RemoveElement
<1>5. Cardinality(Established') = Cardinality(Established) + 1
    BY <1>0, <1>2, ConnFacts, FS_AddElement
<1>6. ConnTypeOK'
    <2>1. conns \in [Established -> 1..dials] /\ dials \in 0..MaxDials
        BY DEF ConnInv, ConnTypeOK, Established
    <2>2. dials' \in 0..MaxDials /\ \A i \in Established : conns[i] \in 1..dials'
        BY <1>1, <2>1, ConnAssumption
    <2>3. conns' \in [DOMAIN conns' -> 1..dials']
        BY <1>1, <2>1, <2>2
    <2>4. DOMAIN conns' \subseteq Ids'
        BY <1>0, <1>2, <1>3, ConnFacts DEF Established
    <2>5. flows' \in SUBSET Flow /\ \A g \in flows' : g.id \in Ids'
        BY <1>1, <1>3, ConnFacts
    <2>6. /\ spawned' \in [Kind -> Nat] /\ failedAttempts' \in 0..MaxFailedAttempts
          /\ early' \in Nat
        BY <1>1, ConnFacts, ConnAssumption
    <2>7. /\ connHandler' \in {"new", "running", "done"}
          /\ launched' \in BOOLEAN /\ stop' \in BOOLEAN
        BY <1>1 DEF ConnInv, ConnTypeOK
    <2> QED BY <1>3, <2>2, <2>3, <2>4, <2>5, <2>6, <2>7 DEF ConnTypeOK
<1>7. OneFlowPerRequest'
    BY <1>0, <1>1, <1>2 DEF OneFlowPerRequest
<1>8. StateMatchesConns'
    <2>1. \A i \in Ids : connReqs[i].state = "established" <=> i \in Established
        BY DEF ConnInv, StateMatchesConns
    <2> QED BY <1>2, <1>3, <2>1 DEF StateMatchesConns
<1>9. SlotsInv'
    <2>1. SlotsInv
        BY DEF ConnInv
    <2>2. /\ Cardinality(Established)' + Cardinality(flows)'
                = Cardinality(Established) + Cardinality(flows)
          /\ Waiting(spawned)' = Waiting(spawned) /\ Len(connReqs)' = Len(connReqs)
          /\ launched' = launched /\ early' = early /\ stop' = stop
        BY <1>1, <1>3, <1>4, <1>5, ConnFacts
    <2> QED BY <2>1, <2>2, ConnFacts DEF SlotsInv, AtLeast
<1> QED BY <1>4, <1>6, <1>7, <1>8, <1>9 DEF ConnInv

(* handleFailed: the flow goes and handleFailedConn replaces it.           *)
LEMMA FailedStep ==
    ASSUME ConnInv, NEW f \in flows, handleFailed(f)
    PROVE  ConnInv'
<1> DEFINE others == flows \ {f}
<1>0. /\ f \in Flow /\ f.id \in Ids /\ f.id \notin Established
      /\ \A g, h \in flows : g.id = h.id => g = h
      /\ \A g \in flows : g.id \notin Established
    BY ConnFacts DEF ConnInv, OneFlowPerRequest
<1>1. /\ UNCHANGED <<conns, dials, connHandler, launched, stop>>
      /\ SetState(f.id, "failed") /\ handleFailedConn(f.id, others)
      /\ Established' = Established
    BY DEF handleFailed, Established
<1>2. /\ connReqs' \in Seq([kind : Kind, state : ConnState])
      /\ Len(connReqs') = Len(connReqs) /\ Ids' = Ids
      /\ connReqs'[f.id].state = "failed"
      /\ \A j \in Ids : j # f.id => connReqs'[j] = connReqs[j]
    <2>1. "failed" \in ConnState /\ ConnTypeOK
        BY DEF ConnState, ConnInv
    <2> QED BY <1>0, <1>1, <2>1, SetStateIs
<1>3. /\ IsFiniteSet(others) /\ Cardinality(others) = Cardinality(flows) - 1
      /\ others \in SUBSET Flow /\ \A g \in others : g.id # f.id
    BY <1>0, ConnFacts, FS_RemoveElement
<1>4. FailedOK(f.id, others)
    <2>1. f.id \in Nat /\ ConnTypeOK
        BY <1>0 DEF Flow, ConnInv
    <2> HIDE DEF others
    <2> QED BY <1>1, <1>3, <2>1, FailedConn
<1>5. ConnTypeOK'
    <2>1. \A g \in flows' : g.id \in Ids'
        BY <1>0, <1>2, <1>4, ConnFacts DEF FailedOK
    <2>2. DOMAIN conns' \subseteq Ids' /\ conns' \in [DOMAIN conns' -> 1..dials']
        BY <1>1, <1>2 DEF ConnInv, ConnTypeOK
    <2>3. /\ connHandler' \in {"new", "running", "done"} /\ dials' \in 0..MaxDials
          /\ launched' \in BOOLEAN /\ stop' \in BOOLEAN
        BY <1>1 DEF ConnInv, ConnTypeOK
    <2> QED BY <1>2, <1>4, <2>1, <2>2, <2>3 DEF ConnTypeOK, FailedOK
<1>6. OneFlowPerRequest'
    <2>1. /\ \A g \in flows' : g \in others \/ g.id = f.id
          /\ \A g, h \in flows' : g.id = f.id /\ h.id = f.id => g = h
        BY <1>4 DEF FailedOK
    <2> QED BY <1>0, <1>1, <1>3, <2>1 DEF OneFlowPerRequest
<1>7. StateMatchesConns'
    <2>1. \A i \in Ids : connReqs[i].state = "established" <=> i \in Established
        BY DEF ConnInv, StateMatchesConns
    <2> QED BY <1>0, <1>1, <1>2, <2>1 DEF StateMatchesConns
<1>8. SlotsInv'
    <2>1. SlotsInv
        BY DEF ConnInv
    <2>2. /\ Cardinality(Established)' = Cardinality(Established)
          /\ launched' = launched /\ stop' = stop /\ Len(connReqs)' = Len(connReqs)
        BY <1>1, <1>2
    <2>3. /\ Cardinality(flows') \in Nat /\ Waiting(spawned') \in Nat /\ early' \in Nat
          /\ Cardinality(others) \in Nat
        BY <1>3, <1>4, FS_CardinalityType, WaitingType DEF FailedOK
    <2>4. /\ Cardinality(Established) \in Nat /\ Cardinality(flows) \in Nat
          /\ Waiting(spawned) \in Nat /\ early \in Nat /\ TargetOutbound \in Nat
          /\ Len(connReqs) \in Nat /\ Cardinality(others) = Cardinality(flows) - 1
        BY <1>3, ConnFacts
    <2> HIDE DEF others
    <2>7. ASSUME ~ stop, launched
          PROVE  AtLeast(Cardinality(Established), Cardinality(flows'), Waiting(spawned'),
                         early', TargetOutbound)
        <3>1. AtLeast(Cardinality(Established), Cardinality(flows), Waiting(spawned), early,
                      TargetOutbound)
            BY <2>1, <2>7 DEF SlotsInv
        <3>2. More(Cardinality(flows'), Waiting(spawned'), early',
                   Cardinality(others), Waiting(spawned), early)
            BY <1>4, <2>7 DEF FailedOK
        <3> QED BY <2>3, <2>4, <3>1, <3>2, SlotMoves
    <2>8. ASSUME ~ stop, ~ launched
          PROVE  \/ AtLeast(Cardinality(Established), Cardinality(flows'), 0, early',
                            TargetOutbound)
                 \/ AtLeast(Cardinality(Established), Cardinality(flows'), 0, early',
                            Len(connReqs))
        <3>2. More(Cardinality(flows'), 0, early', Cardinality(others), 0, early)
            BY <1>4, <2>8 DEF FailedOK
        <3>3. CASE AtLeast(Cardinality(Established), Cardinality(flows), 0, early,
                           TargetOutbound)
            BY <2>3, <2>4, <3>2, <3>3, SlotMoves
        <3>4. CASE AtLeast(Cardinality(Established), Cardinality(flows), 0, early,
                           Len(connReqs))
            BY <2>3, <2>4, <3>2, <3>4, SlotMoves
        <3> QED BY <2>1, <2>8, <3>3, <3>4 DEF SlotsInv
    <2> QED BY <2>2, <2>7, <2>8 DEF SlotsInv
<1> QED BY <1>4, <1>5, <1>6, <1>7, <1>8 DEF ConnInv, FailedOK

(* handleDisconnected: the connection goes, and is replaced if too few     *)
(* are left.                                                               *)
LEMMA DisconnectedStep ==
    ASSUME ConnInv, NEW i, handleDisconnected(i)
    PROVE  ConnInv'
<1>1. CASE i \notin Established
    <2>1. UNCHANGED <<connReqs, conns, flows, failedAttempts, dials, early>>
          /\ UNCHANGED <<spawned, connHandler, launched, stop>>
        BY <1>1 DEF handleDisconnected
    <2>2. SlotsInv'
        BY <2>1 DEF ConnInv, SlotsInv, Established
    <2>3. /\ spawned' \in [Kind -> Nat] /\ connHandler' \in {"new", "running", "done"}
          /\ launched' \in BOOLEAN /\ stop' \in BOOLEAN
        BY <2>1 DEF ConnInv, ConnTypeOK
    <2> QED BY <2>1, <2>2, <2>3, SameFlows
<1>2. CASE i \in Established
    <2> DEFINE E == Established \ {i}
    <2>0. /\ i \in Ids /\ i \in Nat /\ \A f \in flows : f.id # i
          /\ \A g, h \in flows : g.id = h.id => g = h
          /\ \A g \in flows : g.id \notin Established
        BY <1>2, ConnFacts DEF ConnInv, OneFlowPerRequest
    <2>1. /\ UNCHANGED <<dials, connHandler, launched, stop>>
          /\ SetState(i, "disconnected")
          /\ conns' = [j \in E |-> conns[j]]
        BY <1>2 DEF handleDisconnected
    <2>2. Established' = E
        BY <2>1 DEF Established
    <2>3. IsFiniteSet(E) /\ Cardinality(E) = Cardinality(Established) - 1
        BY <1>2, ConnFacts, FS_RemoveElement
    <2>4. /\ connReqs' \in Seq([kind : Kind, state : ConnState])
          /\ Len(connReqs') = Len(connReqs) /\ Ids' = Ids
          /\ connReqs'[i].state = "disconnected"
          /\ \A j \in Ids : j # i => connReqs'[j] = connReqs[j]
        <3>1. "disconnected" \in ConnState /\ ConnTypeOK
            BY DEF ConnState, ConnInv
        <3> QED BY <2>0, <2>1, <3>1, SetStateIs
    <2>5. \/ FailedOK(i, flows)
          \/ /\ ~ BelowTarget(Cardinality(E))
             /\ UNCHANGED <<flows, spawned, failedAttempts, early>>
        <3>1. CASE BelowTarget(Cardinality(E))
            <4>1. handleFailedConn(i, flows)
                BY <1>2, <3>1 DEF handleDisconnected
            <4>2. flows \in SUBSET Flow /\ IsFiniteSet(flows) /\ ConnTypeOK
                BY DEF ConnInv, ConnTypeOK
            <4> QED BY <2>0, <4>1, <4>2, FailedConn
        <3>2. CASE ~ BelowTarget(Cardinality(E))
            BY <1>2, <3>2 DEF handleDisconnected
        <3> QED BY <3>1, <3>2
    <2>6. /\ flows' \in SUBSET Flow /\ IsFiniteSet(flows')
          /\ spawned' \in [Kind -> Nat] /\ early' \in Nat
          /\ failedAttempts' \in 0..MaxFailedAttempts
          /\ \A f \in flows' : f \in flows \/ f.id = i
          /\ \A f, g \in flows' : f.id = i /\ g.id = i => f = g
        <3>1. CASE FailedOK(i, flows)
            BY <3>1 DEF FailedOK
        <3>2. CASE UNCHANGED <<flows, spawned, failedAttempts, early>>
            BY <2>0, <3>2 DEF ConnInv, ConnTypeOK
        <3> QED BY <2>5, <3>1, <3>2
    <2>7. ConnTypeOK'
        <3>1. \A g \in flows' : g.id \in Ids'
            BY <2>0, <2>4, <2>6, ConnFacts
        <3>2. DOMAIN conns' \subseteq Ids'
            BY <2>1, <2>4, ConnFacts
        <3>3. conns' \in [DOMAIN conns' -> 1..dials']
            <4>1. conns \in [Established -> 1..dials]
                BY DEF ConnInv, ConnTypeOK, Established
            <4> QED BY <2>1, <4>1
        <3>4. /\ connHandler' \in {"new", "running", "done"} /\ dials' \in 0..MaxDials
              /\ launched' \in BOOLEAN /\ stop' \in BOOLEAN
            BY <2>1 DEF ConnInv, ConnTypeOK
        <3> QED BY <2>4, <2>6, <3>1, <3>2, <3>3, <3>4 DEF ConnTypeOK
    <2>8. OneFlowPerRequest'
        BY <2>0, <2>2, <2>6 DEF OneFlowPerRequest
    <2>9. StateMatchesConns'
        <3>1. \A j \in Ids : connReqs[j].state = "established" <=> j \in Established
            BY DEF ConnInv, StateMatchesConns
        <3> QED BY <2>2, <2>4, <3>1 DEF StateMatchesConns
    <2>10. SlotsInv'
        <3>1. SlotsInv
            BY DEF ConnInv
        <3>2. /\ Cardinality(Established)' = Cardinality(E)
              /\ launched' = launched /\ stop' = stop /\ Len(connReqs)' = Len(connReqs)
            BY <2>1, <2>2, <2>4
        <3>3. /\ Cardinality(flows') \in Nat /\ Waiting(spawned') \in Nat /\ early' \in Nat
            BY <2>6, FS_CardinalityType, WaitingType
        <3>4. /\ Cardinality(Established) \in Nat /\ Cardinality(flows) \in Nat
              /\ Waiting(spawned) \in Nat /\ early \in Nat /\ TargetOutbound \in Nat
              /\ Len(connReqs) \in Nat /\ Cardinality(E) = Cardinality(Established) - 1
            BY <2>3, ConnFacts
        <3>5. Cardinality(E) \in Nat
            BY <2>3, FS_CardinalityType
        <3> HIDE DEF E
        <3>6. CASE ~ BelowTarget(Cardinality(E))
            <4>1. Cardinality(E) >= TargetOutbound
                BY <3>4, <3>5, <3>6 DEF BelowTarget
            <4> QED BY <3>2, <3>3, <3>4, <3>5, <4>1 DEF SlotsInv, AtLeast
        <3>7. CASE FailedOK(i, flows)
            <4>1. ASSUME ~ stop, launched
                  PROVE  AtLeast(Cardinality(E), Cardinality(flows'), Waiting(spawned'),
                                 early', TargetOutbound)
                <5>1. AtLeast(Cardinality(Established), Cardinality(flows), Waiting(spawned),
                              early, TargetOutbound)
                    BY <3>1, <4>1 DEF SlotsInv
                <5>2. More(Cardinality(flows'), Waiting(spawned'), early',
                           Cardinality(flows), Waiting(spawned), early)
                    BY <3>7, <4>1 DEF FailedOK
                <5> QED BY <3>3, <3>4, <3>5, <5>1, <5>2, SlotMoves
            <4>2. ASSUME ~ stop, ~ launched
                  PROVE  \/ AtLeast(Cardinality(E), Cardinality(flows'), 0, early',
                                    TargetOutbound)
                         \/ AtLeast(Cardinality(E), Cardinality(flows'), 0, early',
                                    Len(connReqs))
                <5>2. More(Cardinality(flows'), 0, early', Cardinality(flows), 0, early)
                    BY <3>7, <4>2 DEF FailedOK
                <5>3. CASE AtLeast(Cardinality(Established), Cardinality(flows), 0, early,
                                   TargetOutbound)
                    BY <3>3, <3>4, <3>5, <5>2, <5>3, SlotMoves
                <5>4. CASE AtLeast(Cardinality(Established), Cardinality(flows), 0, early,
                                   Len(connReqs))
                    BY <3>3, <3>4, <3>5, <5>2, <5>4, SlotMoves
                <5> QED BY <3>1, <4>2, <5>3, <5>4 DEF SlotsInv
            <4> QED BY <3>2, <4>1, <4>2 DEF SlotsInv
        <3> QED BY <2>5, <3>6, <3>7
    <2> QED BY <2>6, <2>7, <2>8, <2>9, <2>10 DEF ConnInv
<1> QED BY <1>1, <1>2

(* Start, Stop and a command that starts a goroutine.                      *)
LEMMA ControlStep ==
    ASSUME ConnInv, StartHandler \/ Stop \/ HandlerQuits
    PROVE  ConnInv'
<1>1. /\ UNCHANGED <<connReqs, conns, flows, failedAttempts, dials, early>>
      /\ spawned' = spawned /\ launched' = launched /\ (stop' = stop \/ stop' = TRUE)
      /\ connHandler' \in {connHandler, "running", "done"}
    BY DEF StartHandler, Stop, HandlerQuits
<1>2. SlotsInv'
    BY <1>1 DEF ConnInv, SlotsInv, Established
<1>3. /\ spawned' \in [Kind -> Nat] /\ connHandler' \in {"new", "running", "done"}
      /\ launched' \in BOOLEAN /\ stop' \in BOOLEAN
    BY <1>1 DEF ConnInv, ConnTypeOK
<1> QED BY <1>1, <1>2, <1>3, SameFlows

(* The loop of Start fills up the slots that no id was given out for.      *)
LEMMA StartRequestsStep ==
    ASSUME ConnInv, StartRequests
    PROVE  ConnInv'
<1> DEFINE n == IF Len(connReqs) < TargetOutbound THEN TargetOutbound - Len(connReqs) ELSE 0
<1>1. /\ UNCHANGED <<connReqs, conns, flows, failedAttempts, dials, early>>
      /\ launched = FALSE /\ launched' = TRUE /\ UNCHANGED <<connHandler, stop>>
      /\ spawned' = [spawned EXCEPT !["auto"] = @ + n]
    BY DEF StartRequests, connReqCount, ConnInv, ConnTypeOK
<1>2. n \in Nat /\ n + Len(connReqs) >= TargetOutbound
    BY ConnFacts
<1>3. spawned' \in [Kind -> Nat] /\ Waiting(spawned') = Waiting(spawned) + n
    <2>1. "auto" \in Kind
        BY DEF Kind
    <2> HIDE DEF n
    <2> QED BY <1>1, <1>2, <2>1, ConnFacts, WaitingMore
<1> HIDE DEF n
<1>4. SlotsInv'
    <2>1. SlotsInv
        BY DEF ConnInv
    <2>2. /\ Cardinality(Established)' = Cardinality(Established)
          /\ Cardinality(flows)' = Cardinality(flows) /\ early' = early /\ stop' = stop
        BY <1>1 DEF Established
    <2>3. ASSUME ~ stop
          PROVE  AtLeast(Cardinality(Established), Cardinality(flows), Waiting(spawned'), early,
                         TargetOutbound)
        <3>1. \/ AtLeast(Cardinality(Established), Cardinality(flows), 0, early, TargetOutbound)
              \/ AtLeast(Cardinality(Established), Cardinality(flows), 0, early, Len(connReqs))
            BY <1>1, <2>1, <2>3 DEF SlotsInv
        <3> QED BY <1>2, <1>3, <3>1, ConnFacts DEF AtLeast
    <2> QED BY <1>1, <2>2, <2>3 DEF SlotsInv
<1>5. connHandler' \in {"new", "running", "done"} /\ launched' \in BOOLEAN /\ stop' \in BOOLEAN
    BY <1>1 DEF ConnInv, ConnTypeOK
<1> QED BY <1>1, <1>3, <1>4, <1>5, SameFlows

(* A goroutine more takes no slot away.                                    *)
LEMMA SpawnStep ==
    ASSUME ConnInv, NEW k \in Kind, spawned' = [spawned EXCEPT ![k] = @ + 1],
           UNCHANGED <<connReqs, conns, flows, failedAttempts, dials, connHandler, launched,
                       early, stop>>
    PROVE  ConnInv'
<1>1. spawned' \in [Kind -> Nat] /\ Waiting(spawned') = Waiting(spawned) + 1
    BY ConnFacts, WaitingMore
<1>2. SlotsInv'
    <2>1. SlotsInv
        BY DEF ConnInv
    <2>2. /\ Cardinality(Established)' = Cardinality(Established) /\ early' = early
          /\ Cardinality(flows)' = Cardinality(flows) /\ Len(connReqs)' = Len(connReqs)
          /\ launched' = launched /\ stop' = stop
        BY DEF Established
    <2>3. ASSUME ~ stop, launched
          PROVE  AtLeast(Cardinality(Established), Cardinality(flows), Waiting(spawned'), early,
                         TargetOutbound)
        BY <1>1, <2>1, <2>3, ConnFacts DEF SlotsInv, AtLeast
    <2> QED BY <2>1, <2>2, <2>3 DEF SlotsInv
<1>3. connHandler' \in {"new", "running", "done"} /\ launched' \in BOOLEAN /\ stop' \in BOOLEAN
    BY DEF ConnInv, ConnTypeOK
<1> QED BY <1>1, <1>2, <1>3, SameFlows

(* The steps of peers leave the connection manager alone.                  *)
LEMMA ConnUnchanged ==
    ASSUME ConnInv, UNCHANGED connVars
    PROVE  ConnInv'
<1>1. /\ UNCHANGED <<connReqs, conns, flows, failedAttempts, dials, early>>
      /\ UNCHANGED <<spawned, connHandler, launched, stop>>
    BY DEF connVars
<1>2. SlotsInv'
    BY <1>1 DEF ConnInv, SlotsInv, Established
<1>3. /\ spawned' \in [Kind -> Nat] /\ connHandler' \in {"new", "running", "done"}
      /\ launched' \in BOOLEAN /\ stop' \in BOOLEAN
    BY <1>1 DEF ConnInv, ConnTypeOK
<1> QED BY <1>1, <1>2, <1>3, SameFlows

-----------------------------------------------------------------------------
(* The peers.                                                              *)

(* The types of peerState, with what ties the peers to the requests.       *)
PeerTypes ==
    /\ peers \in Seq(ServerPeer)
    /\ listed \subseteq PeerIDs
    /\ outboundGroups \in [Group -> Int]
    /\ banned \subseteq Host
    /\ banPeers \subseteq PeerIDs
    /\ peerHandler \in {"running", "done"}
    /\ queries \in 0..MaxQueries
    /\ hostOf \in Seq(Host) /\ Len(hostOf) = Len(connReqs)
    /\ \A p \in PeerIDs : Inbound(p) \/ peers[p].connReq \in Ids

(* The connection of a peer that is not done is the one of its request, and *)
(* no two such peers share a request.                                      *)
OwnInv ==
    /\ \A p \in PeerIDs : ~ Inbound(p) /\ ~ peers[p].done =>
          /\ peers[p].connReq \in Established
          /\ conns[peers[p].connReq] = peers[p].conn
    /\ \A p, q \in PeerIDs :
          /\ ~ Inbound(p) /\ ~ peers[p].done /\ ~ peers[q].done
          /\ peers[p].connReq = peers[q].connReq
          => p = q

(* The outbound peers of a group.                                          *)
OutIn(g) == {p \in listed : ~ Inbound(p) /\ GroupKey(peers[p].host) = g}

(* The lists: only peers that handleAddPeerMsg has seen, counted by        *)
(* group, and no more than the limit.                                      *)
ListInv ==
    /\ \A p \in listed : peers[p].stage = "handled"
    /\ \A g \in Group : outboundGroups[g] = Cardinality(OutIn(g))
    /\ Cardinality(listed) =< MaxPeers

(* The inductive invariant of the server.                                  *)
ServerInv == ConnInv /\ PeerTypes /\ OwnInv /\ ListInv

(* It implies what the run checks.                                         *)
LEMMA ServerInvImplies == ServerInv => ServerSound
<1> SUFFICES ASSUME ServerInv PROVE ServerSound
    OBVIOUS
<1>1. TypeOK /\ OneFlowPerRequest /\ StateMatchesConns
    BY DEF ServerInv, ConnInv, PeerTypes, TypeOK
<1>2. GroupsCountListed /\ PeerLimit
    BY DEF ServerInv, ListInv, GroupsCountListed, PeerLimit, OutIn
<1>3. SlotsKept
    <2>1. SlotsInv /\ ConnInv
        BY DEF ServerInv, ConnInv
    <2>2. ASSUME launched, ~ stop
          PROVE  Cardinality(Established) + InProgress + early >= TargetOutbound
        <3>1. Cardinality(Established) + Cardinality(flows) + Waiting(spawned) + early
                  >= TargetOutbound
            BY <2>1, <2>2 DEF SlotsInv, AtLeast
        <3>2. InProgress = Cardinality(flows) + Waiting(spawned)
            <4>1. /\ spawned["permanent"] \in Nat /\ spawned["once"] \in Nat
                  /\ spawned["auto"] \in Nat /\ Cardinality(flows) \in Nat
                BY <2>1, ConnFacts, WaitingType
            <4> QED BY <4>1 DEF InProgress, Waiting
        <3> QED BY <2>1, <3>1, <3>2, ConnFacts
    <2> QED BY <2>2 DEF SlotsKept
<1>4. DisconnectHitsOwnConn
    BY DEF ServerInv, OwnInv, DisconnectHitsOwnConn
<1> QED BY <1>1, <1>2, <1>3, <1>4 DEF ServerSound, PeerStateConsistent

(* The facts about the peers that the steps need.                          *)
LEMMA PeerIDsAre ==
    ASSUME PeerTypes
    PROVE  /\ PeerIDs = 1..Len(peers) /\ Len(peers) \in Nat
           /\ \A p \in PeerIDs : /\ peers[p] \in ServerPeer
                                 /\ peers[p].host \in Host
                                 /\ GroupKey(peers[p].host) \in Group
           /\ IsFiniteSet(listed) /\ Cardinality(listed) \in Nat
           /\ \A g \in Group : IsFiniteSet(OutIn(g)) /\ Cardinality(OutIn(g)) \in Nat
<1>1. PeerIDs = 1..Len(peers) /\ Len(peers) \in Nat
    BY SeqDomain DEF PeerTypes, PeerIDs
<1>2. \A p \in PeerIDs : peers[p] \in ServerPeer
    BY <1>1 DEF PeerTypes
<1>3. \A p \in PeerIDs : peers[p].host \in Host
    BY <1>2 DEF ServerPeer
<1>4. IsFiniteSet(listed)
    <2>1. listed \subseteq 1..Len(peers)
        BY <1>1 DEF PeerTypes
    <2>2. 1 \in Int /\ Len(peers) \in Int
        BY <1>1
    <2>3. IsFiniteSet(1..Len(peers))
        BY <2>2, FS_Interval
    <2> QED BY <2>1, <2>3, FS_Subset
<1>5. \A g \in Group : IsFiniteSet(OutIn(g))
    <2>1. \A g \in Group : OutIn(g) \subseteq listed
        BY DEF OutIn
    <2> QED BY <1>4, <2>1, FS_Subset
<1> QED BY <1>1, <1>2, <1>3, <1>4, <1>5, FS_CardinalityType DEF Group

(* It holds when the server starts.                                        *)
LEMMA ServerInitInv == Init => ServerInv
<1> SUFFICES ASSUME Init PROVE ServerInv
    OBVIOUS
<1>1. ConnInv
    BY ConnInitInv DEF Init
<1>2. peers = <<>> /\ PeerIDs = {} /\ listed = {} /\ banPeers = {} /\ banned = {}
    BY DEF Init, PeerIDs
<1>3. PeerTypes
    <2>1. outboundGroups \in [Group -> Int] /\ queries \in 0..MaxQueries
        BY ServerAssumption DEF Init
    <2>2. hostOf \in Seq(Host) /\ Len(hostOf) = Len(connReqs)
        BY DEF Init, ConnInit
    <2>3. peerHandler \in {"running", "done"}
        BY DEF Init
    <2>4. peers \in Seq(ServerPeer)
        BY <1>2
    <2> QED BY <1>2, <2>1, <2>2, <2>3, <2>4 DEF PeerTypes
<1>4. OwnInv
    BY <1>2 DEF OwnInv
<1>5. ListInv
    <2>1. \A g \in Group : OutIn(g) = {} /\ outboundGroups[g] = 0
        BY <1>2 DEF OutIn, Init
    <2>2. Cardinality({}) = 0
        BY FS_EmptySet
    <2>3. \A g \in Group : outboundGroups[g] = Cardinality(OutIn(g))
        BY <2>1, <2>2
    <2>4. Cardinality(listed) =< MaxPeers
        BY <1>2, <2>2, ServerAssumption
    <2> QED BY <1>2, <2>3, <2>4 DEF ListInv
<1> QED BY <1>1, <1>3, <1>4, <1>5 DEF ServerInv

(* A value of peers that only sets flags.                                  *)
Flagged(new) ==
    /\ new \in Seq(ServerPeer) /\ Len(new) = Len(peers) /\ DOMAIN new = PeerIDs
    /\ \A p \in PeerIDs : /\ new[p].connReq = peers[p].connReq
                          /\ new[p].conn = peers[p].conn
                          /\ new[p].host = peers[p].host

(* Setting flags of one peer.                                              *)
LEMMA FlagOne ==
    ASSUME PeerTypes, NEW p \in PeerIDs, NEW v \in ServerPeer,
           v.connReq = peers[p].connReq, v.conn = peers[p].conn, v.host = peers[p].host
    PROVE  /\ Flagged([peers EXCEPT ![p] = v])
           /\ \A q \in PeerIDs :
                 [peers EXCEPT ![p] = v][q] = IF q = p THEN v ELSE peers[q]
<1>1. PeerIDs = 1..Len(peers) /\ Len(peers) \in Nat /\ peers \in Seq(ServerPeer)
    BY PeerIDsAre DEF PeerTypes
<1> DEFINE new == [peers EXCEPT ![p] = v]
<1>2. \A q \in PeerIDs : new[q] = IF q = p THEN v ELSE peers[q]
    BY DEF PeerIDs
<1>3. DOMAIN new = PeerIDs
    BY DEF PeerIDs
<1>4. new \in Seq(ServerPeer) /\ Len(new) = Len(peers)
    BY <1>1
<1> HIDE DEF new
<1>5. Flagged(new)
    BY <1>2, <1>3, <1>4 DEF Flagged
<1> QED BY <1>2, <1>5 DEF new

(* Close sets connected to FALSE and nothing else.                         *)
LEMMA CloseIs ==
    ASSUME PeerTypes, NEW ps
    PROVE  /\ Flagged(Close(ps))
           /\ \A p \in PeerIDs : /\ Close(ps)[p].done = peers[p].done
                                 /\ Close(ps)[p].stage = peers[p].stage
<1>1. /\ PeerIDs = 1..Len(peers) /\ Len(peers) \in Nat
      /\ \A p \in PeerIDs : peers[p] \in ServerPeer
    BY PeerIDsAre
<1>2. \A p \in PeerIDs : /\ [peers[p] EXCEPT !.connected = FALSE] \in ServerPeer
                         /\ [peers[p] EXCEPT !.connected = FALSE].done = peers[p].done
                         /\ [peers[p] EXCEPT !.connected = FALSE].stage = peers[p].stage
                         /\ [peers[p] EXCEPT !.connected = FALSE].connReq = peers[p].connReq
                         /\ [peers[p] EXCEPT !.connected = FALSE].conn = peers[p].conn
                         /\ [peers[p] EXCEPT !.connected = FALSE].host = peers[p].host
    BY <1>1 DEF ServerPeer
<1> DEFINE W(p) == IF p \in ps THEN [peers[p] EXCEPT !.connected = FALSE] ELSE peers[p]
<1>3. Close(ps) = [p \in PeerIDs |-> W(p)]
    BY DEF Close
<1>4. \A p \in PeerIDs : /\ W(p) \in ServerPeer
                         /\ W(p).done = peers[p].done /\ W(p).stage = peers[p].stage
                         /\ W(p).connReq = peers[p].connReq /\ W(p).conn = peers[p].conn
                         /\ W(p).host = peers[p].host
    BY <1>1, <1>2
<1> HIDE DEF W
<1>5. /\ DOMAIN Close(ps) = 1..Len(peers)
      /\ \A p \in 1..Len(peers) : Close(ps)[p] = W(p)
      /\ Close(ps) \in [1..Len(peers) -> ServerPeer]
    BY <1>1, <1>3, <1>4
<1>6. Close(ps) \in Seq(ServerPeer) /\ Len(Close(ps)) = Len(peers)
    BY <1>1, <1>5
<1> QED BY <1>1, <1>4, <1>5, <1>6 DEF Flagged

(* What flags cannot change.                                               *)
LEMMA FlaggedKeeps ==
    ASSUME ServerInv, Flagged(peers')
    PROVE  /\ PeerIDs' = PeerIDs
           /\ \A p \in PeerIDs : Inbound(p)' <=> Inbound(p)
           /\ listed' = listed => \A g \in Group : OutIn(g)' = OutIn(g)
<1>1. PeerIDs' = PeerIDs
    BY DEF Flagged, PeerIDs
<1>2. \A p \in PeerIDs : Inbound(p)' <=> Inbound(p)
    BY DEF Flagged, Inbound
<1>3. listed \subseteq PeerIDs
    BY DEF ServerInv, PeerTypes
<1>4. ASSUME listed' = listed, NEW g \in Group
      PROVE  OutIn(g)' = OutIn(g)
    BY <1>2, <1>3, <1>4 DEF OutIn, Flagged
<1> QED BY <1>1, <1>2, <1>4

(* The three parts of the invariant about peers, for a step that flags.    *)
LEMMA TypesStep ==
    ASSUME ServerInv, Flagged(peers'), UNCHANGED hostOf,
           Len(connReqs') = Len(connReqs), Ids' = Ids,
           listed' \subseteq PeerIDs, outboundGroups' \in [Group -> Int],
           banned' \subseteq Host, banPeers' \subseteq PeerIDs,
           peerHandler' \in {"running", "done"}, queries' \in 0..MaxQueries
    PROVE  PeerTypes'
<1>1. PeerIDs' = PeerIDs /\ \A p \in PeerIDs : Inbound(p)' <=> Inbound(p)
    BY FlaggedKeeps
<1>2. \A p \in PeerIDs' : Inbound(p)' \/ peers'[p].connReq \in Ids'
    BY <1>1 DEF ServerInv, PeerTypes, Flagged
<1>3. peers' \in Seq(ServerPeer)
    BY DEF Flagged
<1>4. hostOf' \in Seq(Host) /\ Len(hostOf') = Len(connReqs')
    BY DEF ServerInv, PeerTypes
<1> QED BY <1>1, <1>2, <1>3, <1>4 DEF PeerTypes

(* Peers that are not done keep the connection of their request.           *)
LEMMA OwnStep ==
    ASSUME ServerInv, Flagged(peers'),
           \A p \in PeerIDs : peers[p].done => peers'[p].done,
           \A p \in PeerIDs : ~ Inbound(p) /\ ~ peers'[p].done =>
               /\ peers[p].connReq \in Established'
               /\ conns'[peers[p].connReq] = conns[peers[p].connReq]
    PROVE  OwnInv'
<1>1. PeerIDs' = PeerIDs /\ \A p \in PeerIDs : Inbound(p)' <=> Inbound(p)
    BY FlaggedKeeps
<1>2. \A p \in PeerIDs : /\ peers'[p].connReq = peers[p].connReq
                         /\ peers'[p].conn = peers[p].conn
    BY DEF Flagged
<1>3. OwnInv
    BY DEF ServerInv
<1>4. ASSUME NEW p \in PeerIDs, ~ Inbound(p), ~ peers'[p].done
      PROVE  /\ peers'[p].connReq \in Established'
             /\ conns'[peers'[p].connReq] = peers'[p].conn
    BY <1>2, <1>3, <1>4 DEF OwnInv
<1>5. ASSUME NEW p \in PeerIDs, NEW q \in PeerIDs, ~ Inbound(p), ~ peers'[p].done,
             ~ peers'[q].done, peers'[p].connReq = peers'[q].connReq
      PROVE  p = q
    BY <1>2, <1>3, <1>5 DEF OwnInv
<1> QED BY <1>1, <1>4, <1>5 DEF OwnInv

(* The counts of groups do not depend on flags.                            *)
LEMMA ListStep ==
    ASSUME ServerInv, Flagged(peers'), listed' = listed, outboundGroups' = outboundGroups,
           \A p \in listed : peers'[p].stage = "handled"
    PROVE  ListInv'
<1>1. \A g \in Group : OutIn(g)' = OutIn(g)
    BY FlaggedKeeps
<1> QED BY <1>1 DEF ServerInv, ListInv

(* A step of a peer that leaves the lists and the connections alone.       *)
LEMMA QuietStep ==
    ASSUME ServerInv, Flagged(peers'), UNCHANGED connVars,
           UNCHANGED <<listed, outboundGroups, hostOf>>,
           \A p \in PeerIDs : peers[p].done => peers'[p].done,
           \A p \in listed : peers'[p].stage = "handled",
           banned' \subseteq Host, banPeers' \subseteq PeerIDs,
           peerHandler' \in {"running", "done"}, queries' \in 0..MaxQueries
    PROVE  ServerInv'
<1>1. ConnInv'
    BY ConnUnchanged DEF ServerInv
<1>2. /\ connReqs' = connReqs /\ Ids' = Ids /\ conns' = conns /\ Established' = Established
      /\ listed' = listed /\ outboundGroups' = outboundGroups /\ hostOf' = hostOf
    BY DEF connVars, Ids, Established
<1>3. PeerTypes'
    <2>1. listed' \subseteq PeerIDs /\ outboundGroups' \in [Group -> Int]
        BY <1>2 DEF ServerInv, PeerTypes
    <2> QED BY <1>2, <2>1, TypesStep
<1>4. OwnInv'
    <2>1. \A p \in PeerIDs : ~ Inbound(p) /\ ~ peers'[p].done =>
               /\ peers[p].connReq \in Established'
               /\ conns'[peers[p].connReq] = conns[peers[p].connReq]
        BY <1>2 DEF ServerInv, OwnInv
    <2> QED BY <2>1, OwnStep
<1>5. ListInv'
    BY <1>2, ListStep
<1> QED BY <1>1, <1>3, <1>4, <1>5 DEF ServerInv


(* OnVersion: the peer is not listed yet.                                  *)
LEMMA OnVersionStep ==
    ASSUME ServerInv, NEW p \in PeerIDs, OnVersion(p)
    PROVE  ServerInv'
<1> DEFINE v == [peers[p] EXCEPT !.stage = "version"]
<1>1. PeerTypes /\ ListInv /\ peers[p] \in ServerPeer
    BY PeerIDsAre DEF ServerInv
<1>2. /\ v \in ServerPeer /\ v.done = peers[p].done
      /\ v.connReq = peers[p].connReq /\ v.conn = peers[p].conn /\ v.host = peers[p].host
    BY <1>1 DEF ServerPeer
<1>3. /\ peers' = [peers EXCEPT ![p] = v] /\ UNCHANGED connVars
      /\ UNCHANGED <<listed, outboundGroups, banned, banPeers, peerHandler, queries, hostOf>>
    BY <1>1 DEF OnVersion
<1>4. p \notin listed
    BY <1>1 DEF OnVersion, ListInv
<1> HIDE DEF v
<1>5. Flagged(peers') /\ \A q \in PeerIDs : peers'[q] = IF q = p THEN v ELSE peers[q]
    BY <1>1, <1>2, <1>3, FlagOne
<1>6. \A q \in PeerIDs : peers[q].done => peers'[q].done
    BY <1>2, <1>5
<1>7. \A q \in listed : peers'[q].stage = "handled"
    BY <1>1, <1>4, <1>5 DEF ListInv, PeerTypes
<1>8. /\ banned' \subseteq Host /\ banPeers' \subseteq PeerIDs
      /\ peerHandler' \in {"running", "done"} /\ queries' \in 0..MaxQueries
    BY <1>1, <1>3 DEF PeerTypes
<1> QED BY <1>3, <1>5, <1>6, <1>7, <1>8, QuietStep

(* The loss of a connection is seen by no list until donePeers is          *)
(* handled.                                                                *)
LEMMA ConnectionLostStep ==
    ASSUME ServerInv, NEW p \in PeerIDs, ConnectionLost(p)
    PROVE  ServerInv'
<1> DEFINE v == [peers[p] EXCEPT !.connected = FALSE]
<1>1. PeerTypes /\ ListInv /\ peers[p] \in ServerPeer
    BY PeerIDsAre DEF ServerInv
<1>2. /\ v \in ServerPeer /\ v.done = peers[p].done /\ v.stage = peers[p].stage
      /\ v.connReq = peers[p].connReq /\ v.conn = peers[p].conn /\ v.host = peers[p].host
    BY <1>1 DEF ServerPeer
<1>3. /\ peers' = [peers EXCEPT ![p] = v] /\ UNCHANGED connVars
      /\ UNCHANGED <<listed, outboundGroups, banned, banPeers, peerHandler, queries, hostOf>>
    BY <1>1 DEF ConnectionLost
<1> HIDE DEF v
<1>5. Flagged(peers') /\ \A q \in PeerIDs : peers'[q] = IF q = p THEN v ELSE peers[q]
    BY <1>1, <1>2, <1>3, FlagOne
<1>6. \A q \in PeerIDs : peers[q].done => peers'[q].done
    BY <1>2, <1>5
<1>7. \A q \in listed : peers'[q].stage = "handled"
    BY <1>1, <1>2, <1>5 DEF ListInv, PeerTypes
<1>8. /\ banned' \subseteq Host /\ banPeers' \subseteq PeerIDs
      /\ peerHandler' \in {"running", "done"} /\ queries' \in 0..MaxQueries
    BY <1>1, <1>3 DEF PeerTypes
<1> QED BY <1>3, <1>5, <1>6, <1>7, <1>8, QuietStep

(* Leaving the peers alone is a special case.                              *)
LEMMA SamePeers ==
    ASSUME PeerTypes, peers' = peers
    PROVE  /\ Flagged(peers')
           /\ \A p \in PeerIDs : peers[p].done => peers'[p].done
BY DEF PeerTypes, Flagged, PeerIDs

(* Banning closes the connection of a peer and leaves the lists alone.     *)
LEMMA BanStep ==
    ASSUME ServerInv, NEW p \in PeerIDs, addBanScore(p) \/ handleBanPeerMsg(p)
    PROVE  ServerInv'
<1>1. PeerTypes /\ ListInv /\ peers[p].host \in Host
    BY PeerIDsAre DEF ServerInv
<1>2. UNCHANGED connVars /\ UNCHANGED <<listed, outboundGroups, peerHandler, hostOf>>
    BY DEF addBanScore, handleBanPeerMsg
<1>3. /\ Flagged(peers') /\ \A q \in PeerIDs : peers[q].done => peers'[q].done
      /\ \A q \in listed : peers'[q].stage = "handled"
    <2>1. CASE addBanScore(p)
        BY <2>1, <1>1, SamePeers DEF addBanScore, ListInv
    <2>2. CASE handleBanPeerMsg(p)
        <3>1. peers' = Close({p})
            BY <2>2 DEF handleBanPeerMsg
        <3> QED BY <3>1, <1>1, CloseIs DEF ListInv, PeerTypes
    <2> QED BY <2>1, <2>2
<1>4. banned' \subseteq Host /\ banPeers' \subseteq PeerIDs
    BY <1>1 DEF addBanScore, handleBanPeerMsg, PeerTypes
<1>5. queries' \in 0..MaxQueries
    BY <1>1, ServerAssumption DEF addBanScore, handleBanPeerMsg, PeerTypes
<1>6. peerHandler' \in {"running", "done"}
    BY <1>1, <1>2 DEF PeerTypes
<1> QED BY <1>2, <1>3, <1>4, <1>5, <1>6, QuietStep

(* Peers that leave the lists: inbound ones ...                            *)
LEMMA DropInbound ==
    ASSUME ServerInv, Flagged(peers'), NEW out \in SUBSET listed,
           \A p \in out : Inbound(p),
           listed' = listed \ out, outboundGroups' = outboundGroups,
           \A p \in listed : peers'[p].stage = "handled"
    PROVE  ListInv'
<1>1. \A p \in PeerIDs : /\ Inbound(p)' <=> Inbound(p)
                         /\ peers'[p].host = peers[p].host
    BY FlaggedKeeps DEF Flagged
<1>2. /\ PeerTypes /\ ListInv /\ listed \subseteq PeerIDs
      /\ IsFiniteSet(listed) /\ Cardinality(listed) \in Nat
    BY PeerIDsAre DEF ServerInv, PeerTypes
<1>3. \A g \in Group : OutIn(g)' = OutIn(g)
    BY <1>1, <1>2 DEF OutIn
<1>4. Cardinality(listed') =< Cardinality(listed) /\ Cardinality(listed') \in Nat
    BY <1>2, FS_Subset, FS_CardinalityType
<1>5. Cardinality(listed') =< MaxPeers
    BY <1>2, <1>4, ServerAssumption DEF ListInv
<1> QED BY <1>2, <1>3, <1>5 DEF ListInv

(* ... and outbound ones of one group.                                     *)
LEMMA DropOutbound ==
    ASSUME ServerInv, Flagged(peers'), NEW g0 \in Group, NEW out \in SUBSET listed,
           \A p \in out : ~ Inbound(p) /\ GroupKey(peers[p].host) = g0,
           listed' = listed \ out,
           outboundGroups' = [outboundGroups EXCEPT ![g0] = @ - Cardinality(out)],
           \A p \in listed : peers'[p].stage = "handled"
    PROVE  ListInv'
<1>1. \A p \in PeerIDs : /\ Inbound(p)' <=> Inbound(p)
                         /\ peers'[p].host = peers[p].host
    BY FlaggedKeeps DEF Flagged
<1>2. /\ PeerTypes /\ ListInv /\ listed \subseteq PeerIDs
      /\ IsFiniteSet(listed) /\ Cardinality(listed) \in Nat
      /\ outboundGroups \in [Group -> Int]
      /\ \A g \in Group : IsFiniteSet(OutIn(g)) /\ Cardinality(OutIn(g)) \in Nat
    BY PeerIDsAre DEF ServerInv, PeerTypes
<1>3. \A g \in Group : OutIn(g)' = IF g = g0 THEN OutIn(g) \ out ELSE OutIn(g)
    BY <1>1, <1>2 DEF OutIn
<1>4. Cardinality(listed') =< Cardinality(listed) /\ Cardinality(listed') \in Nat
    BY <1>2, FS_Subset, FS_CardinalityType
<1>5. Cardinality(listed') =< MaxPeers
    BY <1>2, <1>4, ServerAssumption DEF ListInv
<1>6. Cardinality(OutIn(g0) \ out) = Cardinality(OutIn(g0)) - Cardinality(out)
    <2>1. out \subseteq OutIn(g0)
        BY DEF OutIn
    <2>2. OutIn(g0) \cap out = out
        BY <2>1
    <2>3. IsFiniteSet(out)
        BY <1>2, FS_Subset
    <2> QED BY <1>2, <2>2, <2>3, FS_Difference
<1>7. \A g \in Group : outboundGroups'[g] = Cardinality(OutIn(g)')
    <2>1. outboundGroups'[g0] = outboundGroups[g0] - Cardinality(out)
        BY <1>2
    <2>2. outboundGroups[g0] = Cardinality(OutIn(g0))
        BY <1>2 DEF ListInv
    <2>3. outboundGroups'[g0] = Cardinality(OutIn(g0)')
        BY <2>1, <2>2, <1>3, <1>6
    <2>4. ASSUME NEW g \in Group, g # g0
          PROVE  outboundGroups'[g] = Cardinality(OutIn(g)')
        BY <1>2, <1>3, <2>4 DEF ListInv
    <2> QED BY <2>3, <2>4
<1> QED BY <1>2, <1>5, <1>7 DEF ListInv

(* The group count of one peer that leaves.                                *)
LEMMA OneLeaves ==
    ASSUME PeerTypes, NEW p \in PeerIDs
    PROVE  /\ GroupKey(peers[p].host) \in Group
           /\ Cardinality({p}) = 1
           /\ GroupCount(p, -1) =
                 [outboundGroups EXCEPT ![GroupKey(peers[p].host)] = @ - Cardinality({p})]
           /\ GroupCount(p, -1) \in [Group -> Int]
<1>1. GroupKey(peers[p].host) \in Group /\ outboundGroups \in [Group -> Int]
    BY PeerIDsAre DEF PeerTypes
<1>2. Cardinality({p}) = 1
    BY FS_Singleton
<1> DEFINE g == GroupKey(peers[p].host)
<1> HIDE DEF g
<1>3. outboundGroups[g] \in Int
    BY <1>1 DEF g
<1>4. outboundGroups[g] + (-1) = outboundGroups[g] - 1
    BY <1>3
<1>5. GroupCount(p, -1) = [outboundGroups EXCEPT ![g] = outboundGroups[g] - 1]
    BY <1>4 DEF GroupCount, g
<1> QED BY <1>1, <1>2, <1>3, <1>5 DEF g

(* The commands that take peers out of the lists and close them.           *)
LEMMA RemovalStep ==
    ASSUME ServerInv, NEW out, peers' = Close(out), ListInv', listed' \subseteq listed,
           outboundGroups' \in [Group -> Int], Query,
           UNCHANGED connVars, UNCHANGED <<banned, banPeers, peerHandler, hostOf>>
    PROVE  ServerInv'
<1>1. PeerTypes
    BY DEF ServerInv
<1>2. ConnInv'
    BY ConnUnchanged DEF ServerInv
<1>3. /\ connReqs' = connReqs /\ Ids' = Ids /\ conns' = conns /\ Established' = Established
      /\ hostOf' = hostOf
    BY DEF connVars, Ids, Established
<1>4. Flagged(peers') /\ \A p \in PeerIDs : peers[p].done <=> peers'[p].done
    BY <1>1, CloseIs
<1>5. PeerTypes'
    <2>1. queries' \in 0..MaxQueries
        BY <1>1, ServerAssumption DEF Query, PeerTypes
    <2>2. /\ listed' \subseteq PeerIDs /\ banned' \subseteq Host /\ banPeers' \subseteq PeerIDs
          /\ peerHandler' \in {"running", "done"}
        BY <1>1 DEF PeerTypes
    <2> QED BY <1>3, <1>4, <2>1, <2>2, TypesStep
<1>6. OwnInv'
    <2>1. \A p \in PeerIDs : ~ Inbound(p) /\ ~ peers'[p].done =>
               /\ peers[p].connReq \in Established'
               /\ conns'[peers[p].connReq] = conns[peers[p].connReq]
        BY <1>3, <1>4 DEF ServerInv, OwnInv
    <2> QED BY <1>4, <2>1, OwnStep
<1> QED BY <1>2, <1>5, <1>6 DEF ServerInv

(* removeNodeMsg: a persistent peer leaves and its group is counted down.  *)
LEMMA RemoveNodeStep ==
    ASSUME ServerInv, NEW p \in PeerIDs, RemoveNode(p)
    PROVE  ServerInv'
<1>1. PeerTypes /\ ListInv /\ listed \subseteq PeerIDs
    BY DEF ServerInv, PeerTypes
<1>2. /\ p \in listed /\ ~ Inbound(p)
      /\ listed' = listed \ {p} /\ outboundGroups' = GroupCount(p, -1)
      /\ peers' = Close({p}) /\ Query
      /\ UNCHANGED connVars /\ UNCHANGED <<banned, banPeers, peerHandler, hostOf>>
    BY DEF RemoveNode, persistentPeers, persistent
<1>3. Flagged(peers') /\ \A q \in listed : peers'[q].stage = "handled"
    BY <1>1, <1>2, CloseIs DEF ListInv
<1>4. /\ GroupKey(peers[p].host) \in Group
      /\ outboundGroups' = [outboundGroups EXCEPT ![GroupKey(peers[p].host)] =
                                @ - Cardinality({p})]
      /\ outboundGroups' \in [Group -> Int]
    BY <1>1, <1>2, OneLeaves
<1>5. ListInv'
    <2>1. {p} \in SUBSET listed
        BY <1>2
    <2>2. \A q \in {p} : ~ Inbound(q) /\ GroupKey(peers[q].host) = GroupKey(peers[p].host)
        BY <1>2
    <2> QED BY <1>2, <1>3, <1>4, <2>1, <2>2, DropOutbound
<1> QED BY <1>2, <1>4, <1>5, RemovalStep

(* disconnectNodeMsg: an inbound peer leaves, or several outbound ones of  *)
(* one address, hence of one group.                                        *)
LEMMA DisconnectNodeStep ==
    ASSUME ServerInv, NEW h \in Host, DisconnectNode(h)
    PROVE  ServerInv'
<1> DEFINE of == {p \in listed : peers[p].host = h}
           inb == {p \in of : Inbound(p)}
           out == {p \in of : ~ Inbound(p) /\ ~ persistent(p)}
<1>1. /\ PeerTypes /\ ListInv /\ listed \subseteq PeerIDs
      /\ outboundGroups \in [Group -> Int]
    BY DEF ServerInv, PeerTypes
<1>2. /\ Query /\ UNCHANGED connVars /\ UNCHANGED <<banned, banPeers, peerHandler, hostOf>>
      /\ \/ \E p \in inb : /\ listed' = listed \ {p}
                           /\ peers' = Close({p}) /\ UNCHANGED outboundGroups
         \/ /\ listed' = listed \ out /\ peers' = Close(out)
            /\ outboundGroups' = [outboundGroups EXCEPT ![GroupKey(h)] =
                                      @ - Cardinality(out)]
    BY DEF DisconnectNode
<1>3. ASSUME NEW p \in inb, listed' = listed \ {p}, peers' = Close({p}),
             UNCHANGED outboundGroups
      PROVE  ServerInv'
    <2>1. {p} \in SUBSET listed /\ \A q \in {p} : Inbound(q)
        OBVIOUS
    <2>2. Flagged(peers') /\ \A q \in listed : peers'[q].stage = "handled"
        BY <1>1, <1>3, CloseIs DEF ListInv
    <2>3. ListInv'
        BY <1>3, <2>1, <2>2, DropInbound
    <2>4. listed' \subseteq listed /\ outboundGroups' \in [Group -> Int]
        BY <1>1, <1>3
    <2> QED BY <1>2, <1>3, <2>3, <2>4, RemovalStep
<1>4. ASSUME listed' = listed \ out, peers' = Close(out),
             outboundGroups' = [outboundGroups EXCEPT ![GroupKey(h)] = @ - Cardinality(out)]
      PROVE  ServerInv'
    <2>1. out \in SUBSET listed /\ GroupKey(h) \in Group
        BY DEF Group
    <2>2. \A q \in out : ~ Inbound(q) /\ GroupKey(peers[q].host) = GroupKey(h)
        OBVIOUS
    <2>3. Cardinality(out) \in Nat
        BY <1>1, <2>1, PeerIDsAre, FS_Subset, FS_CardinalityType
    <2> HIDE DEF out
    <2>4. Flagged(peers') /\ \A q \in listed : peers'[q].stage = "handled"
        BY <1>1, <1>4, CloseIs DEF ListInv
    <2>5. ListInv'
        BY <1>4, <2>1, <2>2, <2>4, DropOutbound
    <2>6. listed' \subseteq listed /\ outboundGroups' \in [Group -> Int]
        BY <1>1, <1>4, <2>1, <2>3
    <2> QED BY <1>2, <1>4, <2>5, <2>6, RemovalStep
<1> QED BY <1>2, <1>3, <1>4

(* handleAddPeerMsg: the peer was not listed, since its stage was          *)
(* "version"; it enters with its group, unless the server is full.         *)
LEMMA AddPeerStep ==
    ASSUME ServerInv, NEW p \in PeerIDs, handleAddPeerMsg(p)
    PROVE  ServerInv'
<1> DEFINE h == peers[p].host
           v == [peers[p] EXCEPT !.stage = "handled", !.connected = FALSE]
           w == [peers[p] EXCEPT !.stage = "handled"]
<1>1. PeerTypes /\ ListInv /\ peers[p] \in ServerPeer /\ listed \subseteq PeerIDs
    BY PeerIDsAre DEF ServerInv, PeerTypes
<1>2. /\ v \in ServerPeer /\ v.done = peers[p].done /\ v.stage = "handled"
      /\ v.connReq = peers[p].connReq /\ v.conn = peers[p].conn /\ v.host = peers[p].host
      /\ w \in ServerPeer /\ w.done = peers[p].done /\ w.stage = "handled"
      /\ w.connReq = peers[p].connReq /\ w.conn = peers[p].conn /\ w.host = peers[p].host
    BY <1>1 DEF ServerPeer
<1>3. /\ [peers EXCEPT ![p].stage = "handled", ![p].connected = FALSE]
             = [peers EXCEPT ![p] = v]
      /\ [peers EXCEPT ![p].stage = "handled"] = [peers EXCEPT ![p] = w]
    BY <1>1 DEF PeerIDs
<1>4. /\ UNCHANGED connVars /\ UNCHANGED <<banPeers, peerHandler, queries, hostOf>>
      /\ peers[p].stage = "version"
      /\ \/ /\ peers' = [peers EXCEPT ![p] = v]
            /\ UNCHANGED <<listed, outboundGroups>> /\ banned' \subseteq banned
         \/ /\ ~ Full /\ peers' = [peers EXCEPT ![p] = w] /\ banned' \subseteq banned
            /\ listed' = listed \cup {p}
            /\ outboundGroups' = IF Inbound(p) THEN outboundGroups ELSE GroupCount(p, 1)
    BY <1>3 DEF handleAddPeerMsg
<1>5. p \notin listed
    BY <1>1, <1>4 DEF ListInv
<1>6. /\ banned' \subseteq Host /\ banPeers' \subseteq PeerIDs
      /\ peerHandler' \in {"running", "done"} /\ queries' \in 0..MaxQueries
    BY <1>1, <1>4 DEF PeerTypes
<1> HIDE DEF v, w
<1>7. CASE peers' = [peers EXCEPT ![p] = v] /\ UNCHANGED <<listed, outboundGroups>>
    <2>1. Flagged(peers') /\ \A q \in PeerIDs : peers'[q] = IF q = p THEN v ELSE peers[q]
        BY <1>1, <1>2, <1>7, FlagOne
    <2>2. \A q \in PeerIDs : peers[q].done => peers'[q].done
        BY <1>2, <2>1
    <2>3. \A q \in listed : peers'[q].stage = "handled"
        BY <1>1, <1>5, <2>1 DEF ListInv
    <2> QED BY <1>4, <1>6, <1>7, <2>1, <2>2, <2>3, QuietStep
<1>8. CASE /\ ~ Full /\ peers' = [peers EXCEPT ![p] = w]
           /\ listed' = listed \cup {p}
           /\ outboundGroups' = IF Inbound(p) THEN outboundGroups ELSE GroupCount(p, 1)
    <2>1. Flagged(peers') /\ \A q \in PeerIDs : peers'[q] = IF q = p THEN w ELSE peers[q]
        BY <1>1, <1>2, <1>8, FlagOne
    <2>2. \A q \in PeerIDs : peers[q].done <=> peers'[q].done
        BY <1>2, <2>1
    <2>3. \A q \in listed' : peers'[q].stage = "handled"
        BY <1>1, <1>2, <1>8, <2>1 DEF ListInv
    <2> DEFINE g0 == GroupKey(peers[p].host)
    <2>4. /\ g0 \in Group /\ outboundGroups \in [Group -> Int]
          /\ IsFiniteSet(listed) /\ Cardinality(listed) \in Nat
          /\ \A g \in Group : IsFiniteSet(OutIn(g)) /\ Cardinality(OutIn(g)) \in Nat
        BY <1>1, PeerIDsAre DEF PeerTypes
    <2>5. \A q \in PeerIDs : /\ Inbound(q)' <=> Inbound(q)
                             /\ peers'[q].host = peers[q].host
        BY <2>1, FlaggedKeeps DEF Flagged
    <2>6. \A g \in Group : OutIn(g)' = IF ~ Inbound(p) /\ g = g0
                                       THEN OutIn(g) \cup {p} ELSE OutIn(g)
        BY <1>1, <1>8, <2>5 DEF OutIn
    <2> HIDE DEF g0
    <2>7. outboundGroups' \in [Group -> Int]
          /\ \A g \in Group : outboundGroups'[g] = IF ~ Inbound(p) /\ g = g0
                              THEN outboundGroups[g] + 1 ELSE outboundGroups[g]
        BY <1>8, <2>4 DEF GroupCount, g0
    <2>8. \A g \in Group : outboundGroups'[g] = Cardinality(OutIn(g)')
        <3>1. \A g \in Group : outboundGroups[g] = Cardinality(OutIn(g))
            BY <1>1 DEF ListInv
        <3>2. CASE Inbound(p)
            BY <3>1, <3>2, <2>6, <2>7
        <3>3. CASE ~ Inbound(p)
            <4>1. p \notin OutIn(g0)
                BY <1>5 DEF OutIn
            <4>2. Cardinality(OutIn(g0) \cup {p}) = Cardinality(OutIn(g0)) + 1
                BY <2>4, <4>1, FS_AddElement
            <4>3. ASSUME NEW g \in Group PROVE outboundGroups'[g] = Cardinality(OutIn(g)')
                <5>1. CASE g = g0
                    BY <5>1, <3>1, <3>3, <4>2, <2>6, <2>7
                <5>2. CASE g # g0
                    BY <5>2, <3>1, <2>6, <2>7
                <5> QED BY <5>1, <5>2
            <4> QED BY <4>3
        <3> QED BY <3>2, <3>3
    <2>9. Cardinality(listed') =< MaxPeers
        <3>1. Cardinality(listed') = Cardinality(listed) + 1
            BY <1>5, <1>8, <2>4, FS_AddElement
        <3>2. ~ (Cardinality(listed) >= MaxPeers)
            BY <1>8 DEF Full
        <3> QED BY <3>1, <3>2, <2>4, ServerAssumption
    <2>10. ListInv'
        BY <2>3, <2>8, <2>9 DEF ListInv
    <2>11. ConnInv'
        BY <1>4, ConnUnchanged DEF ServerInv
    <2>12. /\ connReqs' = connReqs /\ Ids' = Ids /\ conns' = conns
           /\ Established' = Established /\ hostOf' = hostOf
        BY <1>4 DEF connVars, Ids, Established
    <2>13. PeerTypes'
        <3>1. listed' \subseteq PeerIDs
            BY <1>1, <1>8
        <3> QED BY <3>1, <2>1, <2>7, <2>12, <1>6, TypesStep
    <2>14. OwnInv'
        <3>1. \A q \in PeerIDs : ~ Inbound(q) /\ ~ peers'[q].done =>
                   /\ peers[q].connReq \in Established'
                   /\ conns'[peers[q].connReq] = conns[peers[q].connReq]
            BY <2>2, <2>12 DEF ServerInv, OwnInv
        <3> QED BY <2>1, <2>2, <3>1, OwnStep
    <2> QED BY <2>10, <2>11, <2>13, <2>14 DEF ServerInv
<1> QED BY <1>4, <1>7, <1>8

(* Disconnect takes away the connection of its request, if any.            *)
LEMMA DisconnectIs ==
    ASSUME ConnInv, NEW i, Disconnect(i)
    PROVE  /\ ConnInv' /\ Len(connReqs') = Len(connReqs) /\ Ids' = Ids
           /\ \A j \in Established : j # i => j \in Established' /\ conns'[j] = conns[j]
<1>1. CASE stop
    <2>1. UNCHANGED connVars
        BY <1>1 DEF Disconnect
    <2>2. connReqs' = connReqs /\ conns' = conns /\ Ids' = Ids /\ Established' = Established
        BY <2>1 DEF connVars, Ids, Established
    <2> QED BY <2>1, <2>2, ConnUnchanged
<1>2. CASE ~ stop
    <2>1. handleDisconnected(i)
        BY <1>2 DEF Disconnect
    <2>2. ConnInv'
        BY <2>1, DisconnectedStep
    <2>3. CASE i \in Established
        <3>1. SetState(i, "disconnected") /\ conns' = [j \in Established \ {i} |-> conns[j]]
            BY <2>1, <2>3 DEF handleDisconnected
        <3>2. Len(connReqs') = Len(connReqs) /\ Ids' = Ids
            BY <2>3, <3>1, ConnFacts, SetStateIs DEF ConnInv, ConnState
        <3>3. Established' = Established \ {i}
              /\ \A j \in Established \ {i} : conns'[j] = conns[j]
            BY <3>1 DEF Established
        <3> QED BY <2>2, <3>2, <3>3
    <2>4. CASE i \notin Established
        <3>1. connReqs' = connReqs /\ conns' = conns
            BY <2>1, <2>4 DEF handleDisconnected
        <3>2. Ids' = Ids /\ Established' = Established
            BY <3>1 DEF Ids, Established
        <3> QED BY <2>2, <3>1, <3>2
    <2> QED BY <2>3, <2>4
<1> QED BY <1>1, <1>2

(* handleDonePeerMsg: the peer is done, so that nothing depends on the     *)
(* connection that Disconnect takes away; no other peer shares it.         *)
LEMMA DonePeerStep ==
    ASSUME ServerInv, NEW p \in PeerIDs, handleDonePeerMsg(p)
    PROVE  ServerInv'
<1> DEFINE v == [peers[p] EXCEPT !.done = TRUE]
<1>1. /\ ConnInv /\ PeerTypes /\ OwnInv /\ ListInv /\ peers[p] \in ServerPeer
      /\ listed \subseteq PeerIDs /\ outboundGroups \in [Group -> Int]
    BY PeerIDsAre DEF ServerInv, PeerTypes
<1>2. /\ v \in ServerPeer /\ v.done = TRUE /\ v.stage = peers[p].stage
      /\ v.connReq = peers[p].connReq /\ v.conn = peers[p].conn /\ v.host = peers[p].host
    BY <1>1 DEF ServerPeer
<1>3. /\ peers' = [peers EXCEPT ![p] = v] /\ ~ peers[p].done
      /\ outboundGroups' = GroupAfterDone(p) /\ listed' = listed \ {p}
      /\ UNCHANGED <<banned, banPeers, peerHandler, queries, hostOf>>
      /\ Inbound(p) => UNCHANGED connVars
      /\ ~ Inbound(p) => Disconnect(peers[p].connReq)
    BY <1>1 DEF handleDonePeerMsg
<1> HIDE DEF v
<1>4. Flagged(peers') /\ \A q \in PeerIDs : peers'[q] = IF q = p THEN v ELSE peers[q]
    BY <1>1, <1>2, <1>3, FlagOne
<1>5. /\ \A q \in PeerIDs : peers[q].done => peers'[q].done
      /\ \A q \in PeerIDs : ~ peers'[q].done => q # p /\ ~ peers[q].done
    BY <1>2, <1>4
<1>6. \A q \in listed : peers'[q].stage = "handled"
    BY <1>1, <1>2, <1>4 DEF ListInv
<1>7. /\ ConnInv' /\ Len(connReqs') = Len(connReqs) /\ Ids' = Ids
      /\ \A j \in Established : \/ ~ Inbound(p) /\ j = peers[p].connReq
                                \/ j \in Established' /\ conns'[j] = conns[j]
    <2>1. CASE Inbound(p)
        <3>1. UNCHANGED connVars
            BY <1>3, <2>1
        <3>2. /\ connReqs' = connReqs /\ conns' = conns
              /\ Ids' = Ids /\ Established' = Established
            BY <3>1 DEF connVars, Ids, Established
        <3> QED BY <1>1, <3>1, <3>2, ConnUnchanged
    <2>2. CASE ~ Inbound(p)
        BY <1>1, <1>3, <2>2, DisconnectIs
    <2> QED BY <2>1, <2>2
<1>8. OwnInv'
    <2>1. ASSUME NEW q \in PeerIDs, ~ Inbound(q), ~ peers'[q].done
          PROVE  /\ peers[q].connReq \in Established'
                 /\ conns'[peers[q].connReq] = conns[peers[q].connReq]
        <3>1. q # p /\ ~ peers[q].done /\ peers[q].connReq \in Established
            BY <2>1, <1>1, <1>5 DEF OwnInv
        <3>2. peers[q].connReq # peers[p].connReq
            BY <3>1, <2>1, <1>1, <1>3 DEF OwnInv
        <3> QED BY <3>1, <3>2, <1>7
    <2> QED BY <1>4, <1>5, <2>1, OwnStep
<1>9. ListInv' /\ outboundGroups' \in [Group -> Int]
    <2>1. CASE p \in listed /\ ~ Inbound(p)
        <3>1. VersionKnown(p)
            BY <1>1, <2>1 DEF VersionKnown, ListInv
        <3>2. outboundGroups' = GroupCount(p, -1)
            BY <1>3, <2>1, <3>1 DEF GroupAfterDone
        <3>3. /\ GroupKey(peers[p].host) \in Group
              /\ outboundGroups' = [outboundGroups EXCEPT ![GroupKey(peers[p].host)] =
                                        @ - Cardinality({p})]
              /\ outboundGroups' \in [Group -> Int]
            BY <1>1, <3>2, OneLeaves
        <3>4. {p} \in SUBSET listed
              /\ \A q \in {p} : ~ Inbound(q) /\ GroupKey(peers[q].host) = GroupKey(peers[p].host)
            BY <2>1
        <3> DEFINE g0 == GroupKey(peers[p].host)
        <3>5. /\ g0 \in Group /\ listed' = listed \ {p}
              /\ outboundGroups' = [outboundGroups EXCEPT ![g0] = @ - Cardinality({p})]
              /\ \A q \in {p} : ~ Inbound(q) /\ GroupKey(peers[q].host) = g0
            BY <1>3, <3>3, <3>4
        <3> HIDE DEF g0
        <3>6. ListInv'
            BY <1>4, <1>6, <3>4, <3>5, DropOutbound
        <3> QED BY <3>3, <3>6
    <2>2. CASE p \notin listed
        <3>1. outboundGroups' = outboundGroups /\ listed' = listed
            BY <1>3, <2>2 DEF GroupAfterDone
        <3> QED BY <1>1, <1>4, <1>6, <3>1, ListStep
    <2>3. CASE p \in listed /\ Inbound(p)
        <3>1. outboundGroups' = outboundGroups
            BY <1>3, <2>3 DEF GroupAfterDone
        <3>2. {p} \in SUBSET listed /\ \A q \in {p} : Inbound(q)
            BY <2>3
        <3> QED BY <1>1, <1>3, <1>4, <1>6, <3>1, <3>2, DropInbound
    <2> QED BY <2>1, <2>2, <2>3
<1>10. PeerTypes'
    <2>1. /\ listed' \subseteq PeerIDs /\ banned' \subseteq Host /\ banPeers' \subseteq PeerIDs
          /\ peerHandler' \in {"running", "done"} /\ queries' \in 0..MaxQueries
          /\ hostOf' = hostOf
        BY <1>1, <1>3 DEF PeerTypes
    <2> QED BY <1>4, <1>7, <1>9, <2>1, TypesStep
<1> QED BY <1>7, <1>8, <1>9, <1>10 DEF ServerInv

(* A new peer, which is in no list yet.                                    *)
LEMMA PeerAppended ==
    ASSUME ServerInv, NEW v \in ServerPeer, v.stage = "new", peers' = Append(peers, v),
           listed' = listed, outboundGroups' = outboundGroups
    PROVE  /\ PeerIDs' = PeerIDs \cup {Len(peers) + 1} /\ Len(peers) + 1 \notin PeerIDs
           /\ peers'[Len(peers) + 1] = v /\ \A q \in PeerIDs : peers'[q] = peers[q]
           /\ peers' \in Seq(ServerPeer) /\ ListInv'
<1>1. /\ PeerTypes /\ ListInv /\ PeerIDs = 1..Len(peers) /\ Len(peers) \in Nat
      /\ peers \in Seq(ServerPeer) /\ listed \subseteq PeerIDs
    BY PeerIDsAre DEF ServerInv, PeerTypes
<1>2. /\ peers' \in Seq(ServerPeer) /\ Len(peers') = Len(peers) + 1
      /\ peers'[Len(peers) + 1] = v /\ \A q \in 1..Len(peers) : peers'[q] = peers[q]
    BY <1>1
<1>3. DOMAIN peers' = 1..Len(peers')
    BY <1>2, SeqDomain
<1>4. PeerIDs' = PeerIDs \cup {Len(peers) + 1} /\ Len(peers) + 1 \notin PeerIDs
    BY <1>1, <1>2, <1>3 DEF PeerIDs
<1>5. \A q \in PeerIDs : peers'[q] = peers[q]
    BY <1>1, <1>2
<1>6. \A g \in Group : OutIn(g)' = OutIn(g)
    BY <1>1, <1>5 DEF OutIn, Inbound
<1>7. ListInv'
    BY <1>1, <1>5, <1>6 DEF ListInv
<1> QED BY <1>2, <1>4, <1>5, <1>7

(* An inbound peer has no request.                                         *)
LEMMA InboundStep ==
    ASSUME ServerInv, NEW h \in Host, inboundPeerConnected(h)
    PROVE  ServerInv'
<1> DEFINE v == newServerPeer(0, 0, h)
           n == Len(peers) + 1
<1>1. /\ v \in ServerPeer /\ v.stage = "new" /\ v.connReq = 0
    BY DEF newServerPeer, ServerPeer
<1>2. /\ peers' = Append(peers, v) /\ UNCHANGED connVars
      /\ UNCHANGED <<listed, outboundGroups, banned, banPeers, peerHandler, queries, hostOf>>
    BY DEF inboundPeerConnected
<1> HIDE DEF v
<1>3. /\ PeerIDs' = PeerIDs \cup {n} /\ n \notin PeerIDs
      /\ peers'[n] = v /\ \A q \in PeerIDs : peers'[q] = peers[q]
      /\ peers' \in Seq(ServerPeer) /\ ListInv'
    BY <1>1, <1>2, PeerAppended
<1> HIDE DEF n
<1>4. ConnInv'
    BY <1>2, ConnUnchanged DEF ServerInv
<1>5. /\ connReqs' = connReqs /\ Ids' = Ids /\ conns' = conns /\ Established' = Established
    BY <1>2 DEF connVars, Ids, Established
<1>6. \A q \in PeerIDs' : Inbound(q)' <=> (q = n \/ Inbound(q))
    BY <1>1, <1>3 DEF Inbound
<1>7. PeerTypes'
    <2>1. PeerTypes
        BY DEF ServerInv
    <2>2. \A q \in PeerIDs' : Inbound(q)' \/ peers'[q].connReq \in Ids'
        BY <2>1, <1>3, <1>5, <1>6 DEF PeerTypes
    <2>3. /\ hostOf' \in Seq(Host) /\ Len(hostOf') = Len(connReqs')
          /\ outboundGroups' \in [Group -> Int] /\ banned' \subseteq Host
          /\ peerHandler' \in {"running", "done"} /\ queries' \in 0..MaxQueries
          /\ listed' \subseteq PeerIDs' /\ banPeers' \subseteq PeerIDs'
        BY <2>1, <1>2, <1>3, <1>5 DEF PeerTypes
    <2> QED BY <1>3, <2>2, <2>3 DEF PeerTypes
<1>8. OwnInv'
    <2>1. OwnInv
        BY DEF ServerInv
    <2>2. ASSUME NEW q \in PeerIDs', ~ Inbound(q)', ~ peers'[q].done
          PROVE  /\ peers'[q].connReq \in Established'
                 /\ conns'[peers'[q].connReq] = peers'[q].conn
        BY <2>1, <2>2, <1>3, <1>5, <1>6 DEF OwnInv
    <2>3. ASSUME NEW q \in PeerIDs', NEW r \in PeerIDs', ~ Inbound(q)', ~ peers'[q].done,
                 ~ peers'[r].done, peers'[q].connReq = peers'[r].connReq
          PROVE  q = r
        <3>1. ~ Inbound(r)'
            BY <2>3 DEF Inbound
        <3>2. q \in PeerIDs /\ r \in PeerIDs /\ ~ Inbound(q)
            BY <2>3, <3>1, <1>3, <1>6
        <3> QED BY <2>1, <2>3, <3>2, <1>3 DEF OwnInv
    <2> QED BY <2>2, <2>3 DEF OwnInv
<1> QED BY <1>3, <1>4, <1>7, <1>8 DEF ServerInv

(* A request that is dialled has no connection, so no peer that is not     *)
(* done came from it.                                                      *)
LEMMA OutboundStep ==
    ASSUME ServerInv, NEW f \in flows, outboundPeerConnected(f)
    PROVE  ServerInv'
<1> DEFINE v == newServerPeer(f.id, dials', hostOf[f.id])
           n == Len(peers) + 1
<1>1. /\ ConnInv /\ PeerTypes /\ OwnInv
      /\ Ids = 1..Len(connReqs) /\ Len(connReqs) \in Nat /\ f.id \in Ids
      /\ f.id \notin Established
    BY ConnFacts DEF ServerInv, ConnInv, OneFlowPerRequest
<1>2. /\ peers' = Append(peers, v) /\ handleConnected(f)
      /\ UNCHANGED <<listed, outboundGroups, banned, banPeers, peerHandler, queries, hostOf>>
    BY DEF outboundPeerConnected
<1>3. ConnInv'
    BY <1>1, <1>2, ConnectedStep
<1>4. /\ SetState(f.id, "established") /\ dials' = dials + 1 /\ dials \in Nat
      /\ Established' = Established \cup {f.id} /\ conns'[f.id] = dials'
      /\ \A j \in Established : conns'[j] = conns[j]
    BY <1>1, <1>2 DEF handleConnected, Established, ConnInv, ConnTypeOK
<1>5. Len(connReqs') = Len(connReqs) /\ Ids' = Ids
    BY <1>1, <1>4, SetStateIs DEF ConnInv, ConnState
<1>6. /\ v \in ServerPeer /\ v.stage = "new" /\ v.connReq = f.id /\ v.conn = dials'
      /\ f.id # 0
    <2>1. hostOf[f.id] \in Host
        BY <1>1 DEF PeerTypes
    <2>2. f.id \in Nat /\ f.id # 0 /\ dials' \in Nat
        BY <1>1, <1>4
    <2> QED BY <2>1, <2>2 DEF newServerPeer, ServerPeer
<1> HIDE DEF v
<1>7. /\ PeerIDs' = PeerIDs \cup {n} /\ n \notin PeerIDs
      /\ peers'[n] = v /\ \A q \in PeerIDs : peers'[q] = peers[q]
      /\ peers' \in Seq(ServerPeer) /\ ListInv'
    BY <1>2, <1>6, PeerAppended
<1> HIDE DEF n
<1>8. /\ \A q \in PeerIDs : Inbound(q)' <=> Inbound(q)
      /\ peers'[n].connReq # 0
    BY <1>6, <1>7 DEF Inbound
<1>9. PeerTypes'
    <2>2. \A q \in PeerIDs' : Inbound(q)' \/ peers'[q].connReq \in Ids'
        BY <1>1, <1>5, <1>6, <1>7, <1>8 DEF PeerTypes
    <2>3. /\ hostOf' \in Seq(Host) /\ Len(hostOf') = Len(connReqs')
          /\ outboundGroups' \in [Group -> Int] /\ banned' \subseteq Host
          /\ peerHandler' \in {"running", "done"} /\ queries' \in 0..MaxQueries
          /\ listed' \subseteq PeerIDs' /\ banPeers' \subseteq PeerIDs'
        BY <1>1, <1>2, <1>5, <1>7 DEF PeerTypes
    <2> QED BY <1>7, <2>2, <2>3 DEF PeerTypes
<1>10. OwnInv'
    <2>1. \A q \in PeerIDs : ~ Inbound(q) /\ ~ peers[q].done =>
              /\ peers[q].connReq \in Established /\ peers[q].connReq # f.id
              /\ conns[peers[q].connReq] = peers[q].conn
        BY <1>1 DEF OwnInv
    <2>2. ASSUME NEW q \in PeerIDs', ~ Inbound(q)', ~ peers'[q].done
          PROVE  /\ peers'[q].connReq \in Established'
                 /\ conns'[peers'[q].connReq] = peers'[q].conn
        <3>1. CASE q = n
            BY <3>1, <1>4, <1>6, <1>7
        <3>2. CASE q \in PeerIDs
            BY <3>2, <2>1, <2>2, <1>4, <1>7, <1>8
        <3> QED BY <3>1, <3>2, <1>7
    <2>3. ASSUME NEW q \in PeerIDs', NEW r \in PeerIDs', ~ Inbound(q)', ~ peers'[q].done,
                 ~ peers'[r].done, peers'[q].connReq = peers'[r].connReq
          PROVE  q = r
        <3>1. ~ Inbound(r)'
            BY <2>3 DEF Inbound
        <3>2. CASE q = n /\ r \in PeerIDs
            BY <3>1, <3>2, <2>1, <2>3, <1>6, <1>7, <1>8
        <3>3. CASE r = n /\ q \in PeerIDs
            BY <3>1, <3>3, <2>1, <2>3, <1>6, <1>7, <1>8
        <3>4. CASE q \in PeerIDs /\ r \in PeerIDs
            BY <3>4, <2>3, <1>1, <1>7, <1>8 DEF OwnInv
        <3> QED BY <3>2, <3>3, <3>4, <1>7
    <2> QED BY <2>2, <2>3 DEF OwnInv
<1> QED BY <1>3, <1>7, <1>9, <1>10 DEF ServerInv

(* A step of the connection manager that keeps the connections there are.  *)
LEMMA ConnOnly ==
    ASSUME ServerInv, ConnInv', peers' = peers,
           UNCHANGED <<listed, outboundGroups, banned, banPeers, peerHandler>>,
           queries' \in 0..MaxQueries, conns' = conns,
           hostOf' \in Seq(Host), Len(hostOf') = Len(connReqs'), Ids \subseteq Ids'
    PROVE  ServerInv'
<1>1. /\ PeerIDs' = PeerIDs /\ Established' = Established
      /\ \A p \in PeerIDs : Inbound(p)' <=> Inbound(p)
    BY DEF PeerIDs, Established, Inbound
<1>2. PeerTypes'
    BY <1>1 DEF ServerInv, PeerTypes
<1>3. OwnInv'
    BY <1>1 DEF ServerInv, OwnInv
<1>4. \A g \in Group : OutIn(g)' = OutIn(g)
    BY DEF OutIn, Inbound
<1>5. ListInv'
    BY <1>4 DEF ServerInv, ListInv
<1> QED BY <1>2, <1>3, <1>5 DEF ServerInv

(* The steps that the manager takes by itself.                             *)
LEMMA ConnInternalStep ==
    ASSUME ServerInv, ConnInternal, UNCHANGED serverVars
    PROVE  ServerInv'
<1>1. ConnInv /\ PeerTypes
    BY DEF ServerInv
<1>2. ConnInv' /\ conns' = conns /\ Len(connReqs') = Len(connReqs) /\ Ids' = Ids
    <2>1. ASSUME NEW f \in flows, RetryFires(f)
          PROVE  ConnInv' /\ conns' = conns /\ connReqs' = connReqs
        BY <1>1, <2>1, RetryFiresStep DEF RetryFires
    <2>2. ASSUME NEW f \in flows, handleFailed(f)
          PROVE  /\ ConnInv' /\ conns' = conns
                 /\ Len(connReqs') = Len(connReqs) /\ Ids' = Ids
        <3>1. ConnInv' /\ conns' = conns /\ SetState(f.id, "failed")
            BY <1>1, <2>2, FailedStep DEF handleFailed
        <3>2. f.id \in Ids /\ "failed" \in ConnState /\ ConnTypeOK
            BY <1>1, ConnFacts DEF ConnState, ConnInv
        <3> QED BY <3>1, <3>2, SetStateIs
    <2>3. ASSUME StartHandler \/ HandlerQuits
          PROVE  ConnInv' /\ conns' = conns /\ connReqs' = connReqs
        BY <1>1, <2>3, ControlStep DEF StartHandler, HandlerQuits
    <2>4. ASSUME StartRequests
          PROVE  ConnInv' /\ conns' = conns /\ connReqs' = connReqs
        BY <1>1, <2>4, StartRequestsStep DEF StartRequests
    <2>5. connReqs' = connReqs => Ids' = Ids
        BY DEF Ids
    <2> QED BY <2>1, <2>2, <2>3, <2>4, <2>5 DEF ConnInternal
<1>3. /\ peers' = peers /\ hostOf' = hostOf /\ queries' = queries
      /\ UNCHANGED <<listed, outboundGroups, banned, banPeers, peerHandler>>
    BY DEF serverVars
<1>4. hostOf' \in Seq(Host) /\ Len(hostOf') = Len(connReqs') /\ queries' \in 0..MaxQueries
    BY <1>1, <1>2, <1>3 DEF PeerTypes
<1> QED BY <1>2, <1>3, <1>4, ConnOnly

(* A new request has an address like all others.                           *)
LEMMA NewRequestStep ==
    ASSUME ServerInv, NEW k \in Kind, NewRequest(k)
    PROVE  ServerInv'
<1>1. /\ ConnInv /\ PeerTypes /\ ConnTypeOK /\ BeginConnect(k)
      /\ Ids = 1..Len(connReqs) /\ Len(connReqs) \in Nat
    BY ConnFacts DEF ServerInv, ConnInv, NewRequest
<1>2. ConnInv' /\ conns' = conns
    BY <1>1, BeginConnectStep DEF BeginConnect
<1>3. /\ peers' = peers
      /\ UNCHANGED <<listed, outboundGroups, banned, banPeers, peerHandler, queries>>
    BY DEF NewRequest
<1> DEFINE r == [kind |-> k, state |-> "pending"]
<1>4. connReqs' = connReqs \/ connReqs' = Append(connReqs, r)
    BY <1>1 DEF BeginConnect
<1>5. hostOf' \in Seq(Host) /\ Len(hostOf') = Len(connReqs') /\ Ids \subseteq Ids'
    <2>1. CASE connReqs' = connReqs
        BY <1>1, <2>1 DEF NewRequest, PeerTypes, Ids
    <2>2. CASE connReqs' # connReqs
        <3>1. PICK h \in Host : hostOf' = Append(hostOf, h)
            BY <2>2 DEF NewRequest
        <3> DEFINE S == [kind : Kind, state : ConnState]
        <3>2. connReqs \in Seq(S) /\ r \in S
            BY <1>1 DEF ConnTypeOK, ConnState
        <3> HIDE DEF S, r
        <3>3. Len(connReqs') = Len(connReqs) + 1
            BY <1>4, <2>2, <3>2
        <3>4. hostOf' \in Seq(Host) /\ Len(hostOf') = Len(hostOf) + 1
            BY <1>1, <3>1 DEF PeerTypes
        <3>5. Ids' = 1..Len(connReqs')
            BY <1>4, <2>2, <3>2, SeqDomain DEF Ids
        <3> QED BY <1>1, <3>3, <3>4, <3>5 DEF PeerTypes
    <2> QED BY <2>1, <2>2
<1>6. queries' \in 0..MaxQueries
    BY <1>1, <1>3 DEF PeerTypes
<1> QED BY <1>2, <1>3, <1>5, <1>6, ConnOnly

(* connectNodeMsg starts a goroutine of the manager.                       *)
LEMMA ConnectNodeStep ==
    ASSUME ServerInv, NEW h \in Host, NEW k \in {"permanent", "once"}, ConnectNode(h, k)
    PROVE  ServerInv'
<1>1. ConnInv /\ PeerTypes /\ k \in Kind
    BY DEF ServerInv, Kind
<1>2. ConnInv'
    BY <1>1, SpawnStep DEF ConnectNode
<1>3. /\ peers' = peers /\ conns' = conns /\ connReqs' = connReqs /\ hostOf' = hostOf
      /\ UNCHANGED <<listed, outboundGroups, banned, banPeers, peerHandler>>
    BY DEF ConnectNode
<1>4. queries' \in 0..MaxQueries
    BY <1>1, ServerAssumption DEF ConnectNode, Query, PeerTypes
<1>5. hostOf' \in Seq(Host) /\ Len(hostOf') = Len(connReqs') /\ Ids \subseteq Ids'
    BY <1>1, <1>3 DEF PeerTypes, Ids
<1> QED BY <1>2, <1>3, <1>4, <1>5, ConnOnly

(* The end of peerHandler closes the listed peers and stops the manager.   *)
LEMMA ShutDownStep ==
    ASSUME ServerInv, ShutDown
    PROVE  ServerInv'
<1>1. ConnInv /\ PeerTypes /\ ListInv /\ listed \subseteq PeerIDs
    BY DEF ServerInv, PeerTypes
<1>2. /\ peers' = Close(listed) /\ Stop /\ peerHandler' = "done" /\ banPeers' = {}
      /\ UNCHANGED <<listed, outboundGroups, banned, queries, hostOf>>
    BY DEF ShutDown
<1>3. ConnInv'
    BY <1>1, <1>2, ControlStep
<1>4. connReqs' = connReqs /\ conns' = conns /\ Ids' = Ids /\ Established' = Established
    BY <1>2 DEF Stop, Ids, Established
<1>5. /\ Flagged(peers') /\ \A q \in PeerIDs : peers[q].done <=> peers'[q].done
      /\ \A q \in listed : peers'[q].stage = "handled"
    BY <1>1, <1>2, CloseIs DEF ListInv
<1>6. PeerTypes'
    <2>1. /\ listed' \subseteq PeerIDs /\ banned' \subseteq Host /\ banPeers' \subseteq PeerIDs
          /\ peerHandler' \in {"running", "done"} /\ queries' \in 0..MaxQueries
          /\ outboundGroups' \in [Group -> Int] /\ hostOf' = hostOf
        BY <1>1, <1>2 DEF PeerTypes
    <2> QED BY <1>4, <1>5, <2>1, TypesStep
<1>7. OwnInv'
    <2>1. \A q \in PeerIDs : ~ Inbound(q) /\ ~ peers'[q].done =>
               /\ peers[q].connReq \in Established'
               /\ conns'[peers[q].connReq] = conns[peers[q].connReq]
        BY <1>4, <1>5 DEF ServerInv, OwnInv
    <2> QED BY <1>5, <2>1, OwnStep
<1>8. ListInv'
    BY <1>2, <1>5, ListStep
<1> QED BY <1>3, <1>6, <1>7, <1>8 DEF ServerInv

(* Nothing changes.                                                        *)
LEMMA ServerStutter ==
    ASSUME ServerInv, UNCHANGED vars
    PROVE  ServerInv'
<1>1. UNCHANGED connVars /\ UNCHANGED serverVars
    BY DEF vars
<1>2. /\ peers' = peers /\ conns' = conns /\ connReqs' = connReqs /\ hostOf' = hostOf
      /\ queries' = queries
      /\ UNCHANGED <<listed, outboundGroups, banned, banPeers, peerHandler>>
    BY <1>1 DEF connVars, serverVars
<1>3. ConnInv'
    BY <1>1, ConnUnchanged DEF ServerInv
<1>4. /\ hostOf' \in Seq(Host) /\ Len(hostOf') = Len(connReqs') /\ Ids \subseteq Ids'
      /\ queries' \in 0..MaxQueries
    BY <1>2 DEF ServerInv, PeerTypes, Ids
<1> QED BY <1>2, <1>3, <1>4, ConnOnly

(* Every step of the server keeps the invariant.                           *)
LEMMA ServerNextInv == ServerInv /\ [Next]_vars => ServerInv'
<1> SUFFICES ASSUME ServerInv, [Next]_vars PROVE ServerInv'
    OBVIOUS
<1>1. ASSUME ConnStep PROVE ServerInv'
    BY <1>1, ConnInternalStep, NewRequestStep, OutboundStep DEF ConnStep
<1>2. ASSUME NEW h \in Host, inboundPeerConnected(h) \/ DisconnectNode(h) PROVE ServerInv'
    BY <1>2, InboundStep, DisconnectNodeStep
<1>3. ASSUME NEW p \in PeerIDs, PeerStep(p) PROVE ServerInv'
    BY <1>3, OnVersionStep, ConnectionLostStep, BanStep DEF PeerStep
<1>4. ASSUME NEW p \in PeerIDs, HandlerStep(p) PROVE ServerInv'
    BY <1>4, AddPeerStep, DonePeerStep, BanStep DEF HandlerStep
<1>5. ASSUME NEW p \in PeerIDs, RemoveNode(p) PROVE ServerInv'
    BY <1>5, RemoveNodeStep
<1>6. ASSUME NEW h \in Host, NEW k \in {"permanent", "once"}, ConnectNode(h, k)
      PROVE  ServerInv'
    BY <1>6, ConnectNodeStep
<1>7. ASSUME ShutDown PROVE ServerInv'
    BY <1>7, ShutDownStep
<1>8. ASSUME UNCHANGED vars PROVE ServerInv'
    BY <1>8, ServerStutter
<1> QED BY <1>1, <1>2, <1>3, <1>4, <1>5, <1>6, <1>7, <1>8 DEF Next

(* The inductive invariant holds in every state of the server, for any     *)
(* number of hosts, peers, requests and dials and any target.              *)
THEOREM ServerInvariant == Spec => []ServerInv
<1>1. Init => ServerInv
    BY ServerInitInv
<1>2. ServerInv /\ [Next]_vars => ServerInv'
    BY ServerNextInv
<1> QED BY <1>1, <1>2, PTL DEF Spec

(* The lists of peerHandler, its counts by group and conns of connHandler  *)
(* agree; no outbound slot is lost, other than those given up before       *)
(* Start made its requests; and handling the disconnection of a peer       *)
(* never takes down the connection of another one.                         *)
THEOREM ServerIsSound == Spec => []ServerSound
<1>1. ServerInv => ServerSound
    BY ServerInvImplies
<1> QED BY <1>1, ServerInvariant, PTL

-----------------------------------------------------------------------------
(* Permanent requests.                                                     *)

(* A request stays worked on while nothing is taken away.                  *)
LEMMA StillWorkedOn ==
    ASSUME NEW i, WorkedOn(i), conns' = conns, flows \subseteq flows'
    PROVE  WorkedOn(i)'
BY DEF WorkedOn, Established

(* What handleFailedConn leaves of the flows.                              *)
LEMMA FailedKeeps ==
    ASSUME NEW j, NEW others, ~ stop, handleFailedConn(j, others)
    PROVE  /\ others \subseteq flows'
           /\ Permanent(j) => \E f \in flows' : f.id = j
<1>1. CASE Permanent(j)
    <2> DEFINE t == [id |-> j, pc |-> "timer"]
    <2>1. flows' = others \cup {t} /\ t.id = j
        BY <1>1 DEF handleFailedConn
    <2> HIDE DEF t
    <2> QED BY <2>1
<1>2. CASE ~ Permanent(j)
    BY <1>2 DEF handleFailedConn
<1> QED BY <1>1, <1>2

(* What happens to a dial leaves a permanent request with a connection, a  *)
(* goroutine or a timer.                                                   *)
LEMMA FlowStepKeeps ==
    ASSUME ~ stop, NEW i, Permanent(i), WorkedOn(i), NEW f \in flows,
           RetryFires(f) \/ handleFailed(f) \/ handleConnected(f), ConnInv
    PROVE  WorkedOn(i)'
<1>1. CASE RetryFires(f)
    <2> DEFINE d == [f EXCEPT !.pc = "dial"]
    <2>1. flows' = (flows \ {f}) \cup {d} /\ conns' = conns
        BY <1>1 DEF RetryFires
    <2>2. d.id = f.id
        BY ConnFacts DEF Flow
    <2> HIDE DEF d
    <2> QED BY <2>1, <2>2 DEF WorkedOn, Established
<1>2. CASE handleFailed(f)
    <2>1. /\ handleFailedConn(f.id, flows \ {f}) /\ conns' = conns
        BY <1>2 DEF handleFailed
    <2>2. /\ flows \ {f} \subseteq flows'
          /\ Permanent(f.id) => \E g \in flows' : g.id = f.id
        BY <2>1, FailedKeeps
    <2> QED BY <2>1, <2>2 DEF WorkedOn, Established
<1>3. CASE handleConnected(f)
    <2>1. Established' = Established \cup {f.id} /\ flows' = flows \ {f}
        BY <1>3 DEF handleConnected, Established
    <2> QED BY <2>1 DEF WorkedOn
<1> QED BY <1>1, <1>2, <1>3

(* Disconnect gives up a permanent request only if enough connections are  *)
(* left.                                                                   *)
LEMMA DisconnectKeeps ==
    ASSUME ~ stop, NEW i, Permanent(i), WorkedOn(i), NEW j, Disconnect(j), ConnInv,
           ~ WorkedOn(i)'
    PROVE  Cardinality(Established') >= TargetOutbound
<1>1. handleDisconnected(j)
    BY DEF Disconnect
<1>2. CASE j \in Established /\ BelowTarget(Cardinality(Established \ {j}))
    <2>1. handleFailedConn(j, flows) /\ Established' = Established \ {j}
        BY <1>1, <1>2 DEF handleDisconnected, Established
    <2>2. flows \subseteq flows' /\ (Permanent(j) => \E f \in flows' : f.id = j)
        BY <2>1, FailedKeeps
    <2>3. WorkedOn(i)'
        BY <2>1, <2>2 DEF WorkedOn
    <2> QED BY <2>3
<1>3. CASE j \in Established /\ ~ BelowTarget(Cardinality(Established \ {j}))
    <2>1. Established' = Established \ {j}
        BY <1>1, <1>3 DEF handleDisconnected, Established
    <2>2. Cardinality(Established \ {j}) \in Nat /\ TargetOutbound \in Nat
        BY ConnFacts, FS_Subset, FS_CardinalityType
    <2> QED BY <1>3, <2>1, <2>2 DEF BelowTarget
<1>4. CASE j \notin Established
    <2>1. conns' = conns /\ flows' = flows
        BY <1>1, <1>4 DEF handleDisconnected
    <2> QED BY <2>1, StillWorkedOn
<1> QED BY <1>2, <1>3, <1>4

(* Of all the steps only handleDonePeerMsg, which disconnects, can give    *)
(* up a permanent request.                                                 *)
LEMMA PermanentStep ==
    ASSUME ServerInv, [Next]_vars, NEW i, Permanent(i), WorkedOn(i), ~ stop, ~ WorkedOn(i)'
    PROVE  Cardinality(Established') >= TargetOutbound
<1>0. ConnInv
    BY DEF ServerInv
<1>1. ~ (conns' = conns /\ flows \subseteq flows')
    BY StillWorkedOn
<1>2. ~ (UNCHANGED connVars) /\ ~ (UNCHANGED vars)
    BY <1>1 DEF connVars, vars
<1>3. \A f \in flows : ~ (RetryFires(f) \/ handleFailed(f) \/ handleConnected(f))
    BY <1>0, FlowStepKeeps
<1>4. ~ ConnStep
    <2>1. ~ StartHandler /\ ~ StartRequests /\ ~ HandlerQuits
        BY <1>1 DEF StartHandler, StartRequests, HandlerQuits
    <2>2. \A k \in Kind : ~ NewRequest(k)
        BY <1>1 DEF NewRequest, BeginConnect
    <2>3. \A f \in flows : ~ outboundPeerConnected(f)
        BY <1>3 DEF outboundPeerConnected
    <2> QED BY <1>3, <2>1, <2>2, <2>3 DEF ConnStep, ConnInternal
<1>5. \A h \in Host : ~ inboundPeerConnected(h) /\ ~ DisconnectNode(h)
    BY <1>2 DEF inboundPeerConnected, DisconnectNode
<1>6. \A p \in PeerIDs : ~ PeerStep(p) /\ ~ RemoveNode(p)
    BY <1>2 DEF PeerStep, OnVersion, ConnectionLost, addBanScore, RemoveNode
<1>7. ~ ShutDown
    BY <1>1 DEF ShutDown, Stop
<1>8. \A h \in Host, k \in {"permanent", "once"} : ~ ConnectNode(h, k)
    BY <1>1 DEF ConnectNode
<1>9. PICK p \in PeerIDs : HandlerStep(p)
    BY <1>2, <1>4, <1>5, <1>6, <1>7, <1>8 DEF Next
<1>10. Disconnect(peers[p].connReq)
    BY <1>2, <1>9 DEF HandlerStep, handleAddPeerMsg, handleDonePeerMsg, handleBanPeerMsg
<1> QED BY <1>0, <1>10, DisconnectKeeps

(* A permanent request is given up only after the stop, or when its        *)
(* connection is lost while TargetOutbound others are up.                  *)
THEOREM PermanentRequestsKept == Spec => PermanentKeptBelowTarget
<1> DEFINE A == \A i \in Ids :
                   Permanent(i) /\ WorkedOn(i) /\ ~ WorkedOn(i)' =>
                       stop \/ Cardinality(Established') >= TargetOutbound
<1>1. ServerInv /\ [Next]_vars => [A]_connVars
    BY PermanentStep
<1> QED BY <1>1, ServerInvariant, PTL DEF Spec, PermanentKeptBelowTarget

-----------------------------------------------------------------------------
(* WsClient *)

(* The notification that notificationQueueHandler offers, one that is in   *)
(* the send channel, and one that outHandler has not reported yet.         *)
Offered == wsAt[NtfnQueue] \in {"check", "put"}
Handed == Sending # {}
Taken == wsAt[Writer] \in {"write", "signal"} /\ wsMsg[Writer] # Reply

(* The types of the client's channels and locals.  An answer is never      *)
(* taken for a notification.                                               *)
ClientType ==
    /\ DOMAIN wsAt = Goroutine /\ wsMsg \in [Goroutine -> Nat]
    /\ disconnected \in BOOLEAN /\ waiting \in BOOLEAN
    /\ ntfnSentChan \in {0, 1}
    /\ nQueued \in Nat /\ (wsAt[Manager] = "put" => nQueued > 0)
    /\ sendChan \in Seq(Nat)
    /\ pendingNtfns \in Seq(Nat \ {0})
    /\ ntfnChan = <<>> \/ \E n \in Nat \ {0} : ntfnChan = <<n>>
    /\ accepted \in Seq(Nat \ {0}) /\ written \in Seq(Nat \ {0})
    /\ \A g \in Service \cup {Reader} : wsMsg[g] = Reply
    /\ Offered => wsMsg[NtfnQueue] # Reply
    /\ wsAt[Writer] = "signal" => wsMsg[Writer] # Reply

(* The flag waiting is a token: while it is set, one notification at most  *)
(* is somewhere between the two handlers, or has been reported.            *)
OneToken ==
    /\ \A i, j \in Sending : i = j
    /\ Offered => ~Handed
    /\ Offered \/ Handed => ~Taken
    /\ Offered \/ Handed \/ Taken => ntfnSentChan = 0
    /\ ~waiting => ~Offered /\ ~Handed /\ ~Taken /\ ntfnSentChan = 0 /\ pendingNtfns = <<>>

(* The one notification that has left pendingNtfns and is not written.     *)
Carried ==
    IF wsAt[Writer] = "write" /\ wsMsg[Writer] # Reply THEN <<wsMsg[Writer]>>
    ELSE IF Handed THEN InSendChan
    ELSE IF Offered THEN <<wsMsg[NtfnQueue]>> ELSE <<>>

(* Nothing is lost or overtaken while the client is connected.             *)
InOrder ==
    /\ wsAt[Writer] \in {"drain", "ended"} => disconnected
    /\ IsPrefix(written, accepted)
    /\ ~disconnected => accepted = written \o (Carried \o (pendingNtfns \o ntfnChan))

(* The inductive invariant of a websocket client.                          *)
ClientInv == ClientType /\ OneToken /\ InOrder

(* The notifications, as messages.                                         *)
Ntfn == Nat \ {0}

(* A sequence is a prefix of itself with anything behind it.               *)
LEMMA PrefixOfConcat ==
    ASSUME NEW s \in Seq(Ntfn), NEW t \in Seq(Ntfn)
    PROVE  IsPrefix(s, s \o t)
<1>1. /\ s \o t \in Seq(Ntfn) /\ Len(s \o t) = Len(s) + Len(t)
      /\ \A i \in 1..Len(s) : (s \o t)[i] = s[i]
  BY ConcatProperties
<1>2. Len(s) \in Nat /\ Len(t) \in Nat
  OBVIOUS
<1>3. SubSeq(s, 1, Len(s)) = SubSeq(s \o t, 1, Len(s))
  BY <1>1, <1>2
<1> QED BY <1>1, <1>2, <1>3 DEF IsPrefix

(* A prefix stays one when an element is appended.                         *)
LEMMA PrefixOfAppend ==
    ASSUME NEW s \in Seq(Ntfn), NEW t \in Seq(Ntfn), NEW e \in Ntfn, IsPrefix(s, t)
    PROVE  IsPrefix(s, Append(t, e))
<1>1. Len(s) \in Nat /\ Len(t) \in Nat /\ Len(s) =< Len(t) /\ SubSeq(s, 1, Len(s)) = SubSeq(t, 1, Len(s))
  BY DEF IsPrefix
<1>2. Len(Append(t, e)) = Len(t) + 1 /\ \A i \in 1..Len(s) : Append(t, e)[i] = t[i]
  BY <1>1
<1>3. SubSeq(t, 1, Len(s)) = SubSeq(Append(t, e), 1, Len(s))
  BY <1>1, <1>2
<1> QED BY <1>1, <1>2, <1>3 DEF IsPrefix

(* How a notification moves along written, Carried, pendingNtfns and       *)
(* ntfnChan.                                                               *)
LEMMA QueuedLast ==
    ASSUME NEW w \in Seq(Ntfn), NEW c \in Seq(Ntfn), NEW p \in Seq(Ntfn), NEW n \in Ntfn
    PROVE  Append(w \o (c \o (p \o <<>>)), n) = w \o (c \o (p \o <<n>>))
<1>1. <<n>> \in Seq(Ntfn) /\ p \o <<n>> \in Seq(Ntfn) /\ c \o p \in Seq(Ntfn) /\ w \o (c \o p) \in Seq(Ntfn)
  OBVIOUS
<1>2. p \o <<>> = p
  BY ConcatEmptySeq
<1>3. Append(w \o (c \o p), n) = (w \o (c \o p)) \o <<n>>
  BY <1>1, AppendIsConcat
<1>4. (w \o (c \o p)) \o <<n>> = w \o ((c \o p) \o <<n>>)
  BY <1>1, ConcatAssociative
<1>5. (c \o p) \o <<n>> = c \o (p \o <<n>>)
  BY <1>1, ConcatAssociative
<1> QED BY <1>2, <1>3, <1>4, <1>5

(* The carried notification becomes the last one written.                  *)
LEMMA WrittenFirst ==
    ASSUME NEW w \in Seq(Ntfn), NEW p \in Seq(Ntfn), NEW n \in Ntfn
    PROVE  w \o (<<n>> \o p) = Append(w, n) \o (<<>> \o p)
<1>1. <<n>> \in Seq(Ntfn)
  OBVIOUS
<1>2. Append(w, n) = w \o <<n>>
  BY AppendIsConcat
<1>3. (w \o <<n>>) \o p = w \o (<<n>> \o p)
  BY <1>1, ConcatAssociative
<1>4. <<>> \o p = p
  BY ConcatEmptySeq
<1> QED BY <1>2, <1>3, <1>4

(* The first pending notification becomes the carried one.                 *)
LEMMA PendingFirst ==
    ASSUME NEW p \in Seq(Ntfn), NEW q \in Seq(Ntfn), p # <<>>
    PROVE  /\ Head(p) \in Ntfn /\ Tail(p) \in Seq(Ntfn)
           /\ <<>> \o (p \o q) = <<Head(p)>> \o (Tail(p) \o q)
<1>1. Head(p) \in Ntfn /\ Tail(p) \in Seq(Ntfn) /\ <<Head(p)>> \in Seq(Ntfn)
  OBVIOUS
<1>2. p = <<Head(p)>> \o Tail(p)
  BY <1>1
<1>3. (<<Head(p)>> \o Tail(p)) \o q = <<Head(p)>> \o (Tail(p) \o q)
  BY <1>1, ConcatAssociative
<1>4. <<>> \o (p \o q) = p \o q
  BY ConcatEmptySeq
<1> QED BY <1>1, <1>2, <1>3, <1>4

(* A notification from ntfnChan becomes the last pending one.              *)
LEMMA Received ==
    ASSUME NEW p \in Seq(Ntfn), NEW q \in Seq(Ntfn)
    PROVE  p \o q = (p \o q) \o <<>>
BY ConcatEmptySeq

(* Nothing is pending: it becomes the carried one.                         *)
LEMMA Relayed ==
    ASSUME NEW n \in Ntfn
    PROVE  <<>> \o (<<>> \o <<n>>) = <<n>> \o (<<>> \o <<>>)
<1>1. <<n>> \in Seq(Ntfn)
  OBVIOUS
<1>2. <<>> \o <<n>> = <<n>> /\ <<n>> \o <<>> = <<n>>
  BY <1>1, ConcatEmptySeq
<1>3. <<>> \o <<>> = <<>>
  OBVIOUS
<1> QED BY <1>2, <1>3

(* The notification in the send channel, whichever place it has.           *)
LEMMA OnlyOneSent ==
    ASSUME OneToken, NEW i \in Sending
    PROVE  InSendChan = <<sendChan[i]>>
<1>1. (CHOOSE j \in Sending : TRUE) \in Sending
  OBVIOUS
<1>2. (CHOOSE j \in Sending : TRUE) = i
  BY <1>1 DEF OneToken
<1> QED BY <1>2 DEF InSendChan

(* What is carried is a notification or nothing.                           *)
LEMMA CarriedType ==
    ASSUME ClientType, OneToken
    PROVE  Carried = <<>> \/ \E n \in Ntfn : Carried = <<n>>
<1> USE DEF Ntfn
<1>1. Writer \in Goroutine /\ NtfnQueue \in Goroutine
  BY ClientAssumption DEF Writer, NtfnQueue, Goroutine, Manager
<1>2. \A i \in Sending : sendChan[i] \in Ntfn
  BY DEF Sending, ClientType, Reply
<1>3. CASE Handed
  <2>1. PICK i \in Sending : TRUE
    BY <1>3 DEF Handed
  <2>2. InSendChan = <<sendChan[i]>> /\ sendChan[i] \in Ntfn
    BY <1>2, <2>1, OnlyOneSent
  <2> QED BY <1>1, <1>3, <2>2 DEF Carried, ClientType, Reply
<1>4. CASE ~Handed
  BY <1>1, <1>4 DEF Carried, ClientType, Reply
<1> QED BY <1>3, <1>4

(* What is carried, and what ntfnChan holds, are sequences.                *)
LEMMA CarriedSeq ==
    ASSUME ClientType, OneToken
    PROVE  Carried \in Seq(Ntfn) /\ ntfnChan \in Seq(Ntfn)
<1>1. <<>> \in Seq(Ntfn) /\ \A n \in Ntfn : <<n>> \in Seq(Ntfn)
  OBVIOUS
<1>2. ntfnChan = <<>> \/ \E n \in Ntfn : ntfnChan = <<n>>
  BY DEF ClientType, Ntfn
<1>3. Carried = <<>> \/ \E n \in Ntfn : Carried = <<n>>
  BY CarriedType
<1>4. Carried \in Seq(Ntfn)
  BY <1>1, <1>3, Zenon
<1>5. ntfnChan \in Seq(Ntfn)
  BY <1>1, <1>2, Zenon
<1> QED BY <1>4, <1>5

(* The goroutines of a client are different ones.                          *)
LEMMA GoroutinesDiffer ==
    /\ Reader \in Goroutine /\ NtfnQueue \in Goroutine /\ Writer \in Goroutine /\ Manager \in Goroutine
    /\ Service \subseteq Goroutine
    /\ Reader # NtfnQueue /\ Reader # Writer /\ Reader # Manager
    /\ NtfnQueue # Writer /\ NtfnQueue # Manager /\ Writer # Manager
    /\ \A s \in Service : s # Reader /\ s # NtfnQueue /\ s # Writer /\ s # Manager
BY ClientAssumption DEF Reader, NtfnQueue, Writer, Manager, Goroutine, Service

(* A step that touches neither the notifications nor the goroutines that   *)
(* handle them.                                                            *)
LEMMA ClientQuiet ==
    ASSUME ClientInv,
           UNCHANGED <<sendChan, ntfnChan, ntfnSentChan, pendingNtfns, waiting, nQueued, accepted, written>>,
           DOMAIN wsAt' = Goroutine, wsMsg' \in [Goroutine -> Nat],
           \A g \in {NtfnQueue, Writer, Manager} : wsAt'[g] = wsAt[g] /\ wsMsg'[g] = wsMsg[g],
           \A g \in Service \cup {Reader} : wsMsg'[g] = Reply,
           disconnected' \in BOOLEAN, disconnected => disconnected'
    PROVE  ClientInv'
<1>1. /\ wsAt'[NtfnQueue] = wsAt[NtfnQueue] /\ wsMsg'[NtfnQueue] = wsMsg[NtfnQueue]
      /\ wsAt'[Writer] = wsAt[Writer] /\ wsMsg'[Writer] = wsMsg[Writer]
      /\ wsAt'[Manager] = wsAt[Manager]
  OBVIOUS
<1>2. Sending' = Sending /\ InSendChan' = InSendChan
  BY DEF Sending, InSendChan
<1>3. Offered' = Offered /\ Handed' = Handed /\ Taken' = Taken
  BY <1>1, <1>2 DEF Offered, Handed, Taken
<1>4. Carried' = Carried
  BY <1>1, <1>2, <1>3 DEF Carried
<1>5. ClientType'
  BY <1>1, <1>3 DEF ClientInv, ClientType
<1>6. OneToken'
  BY <1>2, <1>3 DEF ClientInv, OneToken
<1>7. InOrder'
  BY <1>1, <1>4 DEF ClientInv, InOrder
<1> QED BY <1>5, <1>6, <1>7 DEF ClientInv

(* The places of notifications after a message is appended or taken.       *)
LEMMA SendingAppendReply ==
    ASSUME ClientType, OneToken, sendChan' = Append(sendChan, Reply)
    PROVE  Sending' = Sending /\ InSendChan' = InSendChan
<1>0. sendChan \in Seq(Nat) /\ Reply \in Nat
  BY DEF ClientType, Reply
<1>1. /\ DOMAIN sendChan = 1..Len(sendChan) /\ DOMAIN sendChan' = 1..(Len(sendChan) + 1)
      /\ Len(sendChan) \in Nat
      /\ \A i \in 1..Len(sendChan) : sendChan'[i] = sendChan[i]
      /\ sendChan'[Len(sendChan) + 1] = Reply
  BY <1>0
<1>2. Sending' = Sending
  BY <1>1 DEF Sending
<1>3. \A i \in Sending : sendChan'[i] = sendChan[i]
  BY <1>1 DEF Sending
<1>4. InSendChan' = IF Sending = {} THEN <<>> ELSE <<sendChan'[CHOOSE i \in Sending : TRUE]>>
  BY <1>2 DEF InSendChan
<1>5. CASE Sending = {}
  BY <1>2, <1>4, <1>5 DEF InSendChan
<1>6. CASE Sending # {}
  <2>1. (CHOOSE i \in Sending : TRUE) \in Sending
    BY <1>6
  <2>2. sendChan'[CHOOSE i \in Sending : TRUE] = sendChan[CHOOSE i \in Sending : TRUE]
    BY <1>3, <2>1
  <2> QED BY <1>2, <1>4, <1>6, <2>2 DEF InSendChan
<1> QED BY <1>5, <1>6

(* A notification is appended to a channel without one.                    *)
LEMMA SendingAppendNtfn ==
    ASSUME ClientType, Sending = {}, NEW m \in Ntfn, sendChan' = Append(sendChan, m)
    PROVE  /\ sendChan' \in Seq(Nat) /\ InSendChan' = <<m>> /\ Sending' # {}
           /\ \A i, j \in Sending' : i = j
<1>0. sendChan \in Seq(Nat) /\ m \in Nat /\ m # Reply
  BY DEF ClientType, Reply, Ntfn
<1>1. /\ DOMAIN sendChan = 1..Len(sendChan) /\ DOMAIN sendChan' = 1..(Len(sendChan) + 1)
      /\ Len(sendChan) \in Nat /\ sendChan' \in Seq(Nat)
      /\ \A i \in 1..Len(sendChan) : sendChan'[i] = sendChan[i]
      /\ sendChan'[Len(sendChan) + 1] = m
  BY <1>0
<1>2. \A i \in 1..Len(sendChan) : sendChan'[i] = Reply
  BY <1>1 DEF Sending
<1>3. Sending' = {Len(sendChan) + 1}
  BY <1>0, <1>1, <1>2 DEF Sending
<1>4. (CHOOSE i \in Sending' : TRUE) = Len(sendChan) + 1
  BY <1>3
<1>5. InSendChan' = <<m>>
  BY <1>1, <1>3, <1>4 DEF InSendChan
<1> QED BY <1>1, <1>3, <1>5

(* The first message is taken from the channel.                            *)
LEMMA SendingTail ==
    ASSUME ClientType, OneToken, sendChan # <<>>, sendChan' = Tail(sendChan)
    PROVE  /\ sendChan' \in Seq(Nat) /\ Head(sendChan) \in Nat
           /\ \A i, j \in Sending' : i = j
           /\ Head(sendChan) = Reply => (Sending' = {} <=> Sending = {}) /\ InSendChan' = InSendChan
           /\ Head(sendChan) # Reply => /\ Sending' = {} /\ Sending # {}
                                        /\ InSendChan = <<Head(sendChan)>>
<1>0. sendChan \in Seq(Nat)
  BY DEF ClientType
<1>1. /\ Len(sendChan) \in Nat /\ Len(sendChan) >= 1
      /\ DOMAIN sendChan = 1..Len(sendChan) /\ DOMAIN sendChan' = 1..(Len(sendChan) - 1)
      /\ sendChan' \in Seq(Nat) /\ Head(sendChan) = sendChan[1] /\ Head(sendChan) \in Nat
      /\ \A i \in 1..(Len(sendChan) - 1) : sendChan'[i] = sendChan[i + 1]
  BY <1>0
<1>2. \A i \in Sending' : i \in Nat /\ i + 1 \in Sending /\ sendChan'[i] = sendChan[i + 1]
  BY <1>1 DEF Sending
<1>3. \A i \in Sending : i # 1 => i - 1 \in Sending'
  BY <1>1 DEF Sending
<1>4. \A i, j \in Sending' : i = j
  <2> TAKE i, j \in Sending'
  <2>1. i + 1 = j + 1
    BY <1>2 DEF OneToken
  <2> QED BY <1>2, <2>1
<1>5. ASSUME Head(sendChan) # Reply
      PROVE  Sending' = {} /\ Sending # {} /\ InSendChan = <<Head(sendChan)>>
  <2>1. 1 \in Sending
    BY <1>1, <1>5 DEF Sending
  <2>2. Sending' = {}
    <3> SUFFICES ASSUME NEW i \in Sending' PROVE FALSE
      OBVIOUS
    <3>1. i + 1 = 1 /\ i \in Nat /\ i \in DOMAIN sendChan'
      BY <1>2, <2>1 DEF OneToken, Sending
    <3> QED BY <1>1, <3>1
  <2> QED BY <1>1, <2>1, <2>2, OnlyOneSent
<1>6. ASSUME Head(sendChan) = Reply
      PROVE  (Sending' = {} <=> Sending = {}) /\ InSendChan' = InSendChan
  <2>1. 1 \notin Sending
    BY <1>1, <1>6 DEF Sending
  <2>2. Sending' = {} <=> Sending = {}
    BY <1>2, <1>3, <2>1
  <2>3. ASSUME Sending' # {} PROVE InSendChan' = InSendChan
    <3>1. (CHOOSE i \in Sending' : TRUE) \in Sending'
      BY <2>3
    <3>2. /\ (CHOOSE i \in Sending' : TRUE) + 1 \in Sending
          /\ sendChan'[CHOOSE i \in Sending' : TRUE] = sendChan[(CHOOSE i \in Sending' : TRUE) + 1]
      BY <1>2, <3>1
    <3>3. InSendChan = <<sendChan[(CHOOSE i \in Sending' : TRUE) + 1]>>
      BY <3>2, OnlyOneSent
    <3> QED BY <2>3, <3>2, <3>3 DEF InSendChan
  <2> QED BY <2>2, <2>3 DEF InSendChan
<1> QED BY <1>1, <1>4, <1>5, <1>6

(* The send channel keeps its notification while answers come and go.      *)
LEMMA AnswerStep ==
    ASSUME ClientInv, sendChan' = Append(sendChan, Reply),
           UNCHANGED <<ntfnChan, ntfnSentChan, pendingNtfns, waiting, nQueued, accepted, written>>,
           DOMAIN wsAt' = Goroutine, wsMsg' = wsMsg, disconnected' = disconnected,
           \A g \in {NtfnQueue, Writer, Manager} : wsAt'[g] = wsAt[g]
    PROVE  ClientInv'
<1>1. /\ wsAt'[NtfnQueue] = wsAt[NtfnQueue] /\ wsAt'[Writer] = wsAt[Writer]
      /\ wsAt'[Manager] = wsAt[Manager]
  OBVIOUS
<1>2. Sending' = Sending /\ InSendChan' = InSendChan
  BY SendingAppendReply DEF ClientInv
<1>3. Offered' = Offered /\ Handed' = Handed /\ Taken' = Taken
  BY <1>1, <1>2 DEF Offered, Handed, Taken
<1>4. Carried' = Carried
  BY <1>1, <1>2, <1>3 DEF Carried
<1>5. sendChan' \in Seq(Nat)
  BY DEF ClientInv, ClientType, Reply
<1>6. ClientType'
  BY <1>1, <1>3, <1>5 DEF ClientInv, ClientType
<1>7. OneToken'
  BY <1>2, <1>3 DEF ClientInv, OneToken
<1>8. InOrder'
  BY <1>1, <1>4 DEF ClientInv, InOrder
<1> QED BY <1>6, <1>7, <1>8 DEF ClientInv

(* SendMessage looks at the flag.                                          *)
LEMMA SendCheckStep ==
    ASSUME ClientInv, NEW g \in Service \cup {Reader, NtfnQueue}, WsSendCheck(g)
    PROVE  ClientInv'
<1>1. /\ DOMAIN wsAt = Goroutine /\ wsMsg \in [Goroutine -> Nat] /\ wsMsg' = wsMsg
      /\ \A h \in Service \cup {Reader} : wsMsg[h] = Reply
      /\ disconnected' = disconnected /\ disconnected \in BOOLEAN
      /\ UNCHANGED <<sendChan, ntfnChan, pendingNtfns, waiting, nQueued, accepted, written>>
  BY DEF ClientInv, ClientType, WsSendCheck
<1>2. PICK at : wsAt' = [wsAt EXCEPT ![g] = at]
  BY DEF WsSendCheck, WsGo
<1>3. DOMAIN wsAt' = Goroutine /\ \A h \in Goroutine : h # g => wsAt'[h] = wsAt[h]
  BY <1>1, <1>2
<1>4. CASE g \in Service \cup {Reader}
  <2>1. wsMsg[g] = Reply /\ g \notin {NtfnQueue, Writer, Manager}
    BY <1>1, <1>4, GoroutinesDiffer
  <2>2. ntfnSentChan' = ntfnSentChan
    BY <2>1 DEF WsSendCheck
  <2>3. \A h \in {NtfnQueue, Writer, Manager} : wsAt'[h] = wsAt[h] /\ wsMsg'[h] = wsMsg[h]
    BY <1>1, <1>3, <2>1, GoroutinesDiffer
  <2> QED BY <1>1, <1>3, <2>2, <2>3, ClientQuiet
<1>5. CASE g = NtfnQueue
  <2>1. /\ wsAt'[Writer] = wsAt[Writer] /\ wsAt'[Manager] = wsAt[Manager]
    BY <1>3, <1>5, GoroutinesDiffer
  <2>2. Offered /\ wsMsg[NtfnQueue] # Reply
    BY <1>5 DEF WsSendCheck, Offered, ClientInv, ClientType
  <2>3. Sending' = Sending /\ InSendChan' = InSendChan
    BY <1>1 DEF Sending, InSendChan
  <2>4. Handed' = Handed /\ Taken' = Taken
    BY <1>1, <2>1, <2>3 DEF Handed, Taken
  <2>5. ~Handed /\ ~Taken /\ ntfnSentChan = 0 /\ waiting
    BY <2>2 DEF ClientInv, OneToken, ClientType
  <2>6. CASE ~disconnected /\ WsGo(NtfnQueue, "put") /\ UNCHANGED ntfnSentChan
    <3>1. Offered'
      BY <1>1, <2>6, GoroutinesDiffer DEF WsGo, Offered
    <3>2. Carried' = Carried
      BY <1>1, <2>1, <2>2, <2>3, <2>4, <3>1 DEF Carried
    <3>3. ClientType'
      BY <1>1, <1>3, <2>1, <2>2, <2>6 DEF ClientInv, ClientType
    <3>4. OneToken'
      BY <1>1, <2>3, <2>4, <2>5, <2>6, <3>1 DEF ClientInv, OneToken
    <3>5. InOrder'
      BY <1>1, <2>1, <3>2 DEF ClientInv, InOrder
    <3> QED BY <3>3, <3>4, <3>5 DEF ClientInv
  <2>7. CASE disconnected /\ WsGo(NtfnQueue, AfterSend(NtfnQueue)) /\ ntfnSentChan' = 1
    <3>1. ~Offered'
      BY <1>1, <2>7, GoroutinesDiffer DEF WsGo, Offered, AfterSend
    <3>3. ClientType'
      BY <1>1, <1>3, <2>1, <3>1, <2>7 DEF ClientInv, ClientType
    <3>4. OneToken'
      BY <1>1, <2>3, <2>4, <2>5, <2>7, <3>1 DEF ClientInv, OneToken
    <3>5. InOrder'
      BY <1>1, <2>1, <2>7 DEF ClientInv, InOrder
    <3> QED BY <3>3, <3>4, <3>5 DEF ClientInv
  <2> QED BY <1>5, <2>2, <2>6, <2>7 DEF WsSendCheck
<1> QED BY <1>4, <1>5

(* SendMessage uses the channel.                                           *)
LEMMA SendPutStep ==
    ASSUME ClientInv, NEW g \in Service \cup {Reader, NtfnQueue}, WsSendPut(g)
    PROVE  ClientInv'
<1>1. /\ DOMAIN wsAt = Goroutine /\ wsMsg \in [Goroutine -> Nat] /\ wsMsg' = wsMsg
      /\ \A h \in Service \cup {Reader} : wsMsg[h] = Reply
      /\ disconnected' = disconnected /\ disconnected \in BOOLEAN
      /\ UNCHANGED <<ntfnSentChan, ntfnChan, pendingNtfns, waiting, nQueued, accepted, written>>
      /\ sendChan' = Append(sendChan, wsMsg[g])
      /\ wsAt' = [wsAt EXCEPT ![g] = AfterSend(g)]
  BY DEF ClientInv, ClientType, WsSendPut, WsGo
<1>3. DOMAIN wsAt' = Goroutine /\ \A h \in Goroutine : h # g => wsAt'[h] = wsAt[h]
  BY <1>1
<1>4. CASE g \in Service \cup {Reader}
  <2>1. wsMsg[g] = Reply /\ g \notin {NtfnQueue, Writer, Manager}
    BY <1>1, <1>4, GoroutinesDiffer
  <2>3. \A h \in {NtfnQueue, Writer, Manager} : wsAt'[h] = wsAt[h]
    BY <1>1, <1>3, <2>1, GoroutinesDiffer
  <2> QED BY <1>1, <1>3, <2>1, <2>3, AnswerStep
<1>5. CASE g = NtfnQueue
  <2>1. /\ wsAt'[Writer] = wsAt[Writer] /\ wsAt'[Manager] = wsAt[Manager]
    BY <1>3, <1>5, GoroutinesDiffer
  <2>2. Offered /\ wsMsg[NtfnQueue] # Reply
    BY <1>5 DEF WsSendPut, Offered, ClientInv, ClientType
  <2>3. ~Handed /\ ~Taken /\ ntfnSentChan = 0 /\ waiting
    BY <2>2 DEF ClientInv, OneToken, ClientType
  <2>4. wsMsg[NtfnQueue] \in Ntfn
    BY <1>1, <2>2, GoroutinesDiffer DEF Ntfn, Reply
  <2>5. /\ sendChan' \in Seq(Nat) /\ InSendChan' = <<wsMsg[NtfnQueue]>> /\ Sending' # {}
        /\ \A i, j \in Sending' : i = j
    BY <1>1, <1>5, <2>3, <2>4, SendingAppendNtfn DEF Handed, ClientInv
  <2>6. Handed' /\ Taken' = Taken /\ ~Offered'
    BY <1>1, <1>5, <2>1, <2>5, GoroutinesDiffer DEF Handed, Taken, Offered, AfterSend
  <2>7. ~(wsAt[Writer] = "write" /\ wsMsg[Writer] # Reply)
    BY <2>3 DEF Taken
  <2>8. Carried' = Carried
    BY <1>1, <2>1, <2>2, <2>3, <2>5, <2>6, <2>7 DEF Carried
  <2>9. ClientType'
    BY <1>1, <1>3, <2>1, <2>5, <2>6 DEF ClientInv, ClientType
  <2>10. OneToken'
    BY <1>1, <2>3, <2>5, <2>6 DEF OneToken
  <2>11. InOrder'
    BY <1>1, <2>1, <2>8 DEF ClientInv, InOrder
  <2> QED BY <2>9, <2>10, <2>11 DEF ClientInv
<1> QED BY <1>4, <1>5

(* SendMessage, by inHandler, a request or the queue handler.              *)
LEMMA ClientSends ==
    ASSUME ClientInv, NEW g \in Service \cup {Reader, NtfnQueue}, WsSendMessage(g)
    PROVE  ClientInv'
BY SendCheckStep, SendPutStep DEF WsSendMessage

(* The steps of inHandler, of the requests and Disconnect.                 *)
LEMMA ReaderStep ==
    ASSUME ClientInv,
           \/ WsRead \/ WsAcquire \/ WsDone \/ DisconnectClient
           \/ \E s \in Service : Answer(s)
    PROVE  ClientInv'
<1>1. /\ DOMAIN wsAt = Goroutine /\ wsMsg \in [Goroutine -> Nat] /\ Reply \in Nat
      /\ \A h \in Service \cup {Reader} : wsMsg[h] = Reply
      /\ disconnected \in BOOLEAN
  BY DEF ClientInv, ClientType, Reply
<1>2. /\ UNCHANGED <<sendChan, ntfnChan, ntfnSentChan, pendingNtfns, waiting, nQueued, accepted, written>>
      /\ disconnected' = disconnected \/ disconnected' = TRUE
  BY DEF WsRead, WsAcquire, WsDone, DisconnectClient, Answer, wsInRest
<1>3. \/ UNCHANGED wsAt
      \/ \E g \in Service \cup {Reader}, at \in {"done", "check", "acquire", "ended"} :
            wsAt' = [wsAt EXCEPT ![g] = at]
      \/ \E s \in Service : wsAt' = [wsAt EXCEPT ![s] = "work", ![Reader] = "top"]
  BY DEF WsRead, WsAcquire, WsDone, DisconnectClient, Answer, WsGo, WsGoWith
<1>4. \/ UNCHANGED wsMsg
      \/ \E g \in Service \cup {Reader} : wsMsg' = [wsMsg EXCEPT ![g] = Reply]
  BY DEF WsRead, WsAcquire, WsDone, DisconnectClient, Answer, WsGo, WsGoWith
<1>5. DOMAIN wsAt' = Goroutine /\ \A h \in {NtfnQueue, Writer, Manager} : wsAt'[h] = wsAt[h]
  BY <1>1, <1>3, GoroutinesDiffer
<1>6. /\ wsMsg' \in [Goroutine -> Nat]
      /\ \A h \in {NtfnQueue, Writer, Manager} : wsMsg'[h] = wsMsg[h]
      /\ \A h \in Service \cup {Reader} : wsMsg'[h] = Reply
  BY <1>1, <1>4, GoroutinesDiffer
<1> QED BY <1>1, <1>2, <1>5, <1>6, ClientQuiet

(* QueueNotification, the check and the send.                              *)
LEMMA QueueNotificationStep ==
    ASSUME ClientInv, QueueNotification
    PROVE  ClientInv'
<1>1. /\ DOMAIN wsAt = Goroutine /\ wsMsg' = wsMsg /\ disconnected' = disconnected
      /\ UNCHANGED <<sendChan, ntfnSentChan, pendingNtfns, waiting, written>>
      /\ nQueued \in Nat /\ accepted \in Seq(Ntfn) /\ written \in Seq(Ntfn)
      /\ pendingNtfns \in Seq(Ntfn) /\ disconnected \in BOOLEAN
  BY DEF ClientInv, ClientType, QueueNotification, Ntfn
<1>2. /\ DOMAIN wsAt' = Goroutine
      /\ wsAt'[NtfnQueue] = wsAt[NtfnQueue] /\ wsAt'[Writer] = wsAt[Writer]
  BY <1>1, GoroutinesDiffer DEF QueueNotification, WsGo
<1>3. Sending' = Sending /\ InSendChan' = InSendChan
  BY <1>1 DEF Sending, InSendChan
<1>4. Offered' = Offered /\ Handed' = Handed /\ Taken' = Taken
  BY <1>1, <1>2, <1>3 DEF Offered, Handed, Taken
<1>5. Carried' = Carried /\ Carried \in Seq(Ntfn)
  BY <1>1, <1>2, <1>3, <1>4, CarriedSeq DEF Carried, ClientInv
<1>6. OneToken'
  BY <1>1, <1>3, <1>4 DEF ClientInv, OneToken
<1>7. CASE nQueued' = nQueued + 1 /\ UNCHANGED <<ntfnChan, accepted>>
  <2>1. ClientType'
    BY <1>1, <1>2, <1>4, <1>7 DEF ClientInv, ClientType
  <2>2. InOrder'
    BY <1>1, <1>2, <1>5, <1>7 DEF ClientInv, InOrder
  <2> QED BY <1>6, <2>1, <2>2 DEF ClientInv
<1>8. CASE /\ wsAt[Manager] = "put" /\ ntfnChan = <<>> /\ ntfnChan' = <<nQueued>>
           /\ accepted' = Append(accepted, nQueued) /\ UNCHANGED nQueued
  <2>1. nQueued \in Ntfn
    BY <1>1, <1>8 DEF ClientInv, ClientType, Ntfn
  <2>2. accepted' \in Seq(Ntfn)
    BY <1>1, <1>8, <2>1
  <2>3. ClientType'
    BY <1>1, <1>2, <1>4, <1>8, <2>1, <2>2 DEF ClientInv, ClientType, Ntfn
  <2>4. IsPrefix(written', accepted')
    BY <1>1, <1>8, <2>1, PrefixOfAppend DEF ClientInv, InOrder
  <2>5. ~disconnected => accepted = written \o (Carried \o (pendingNtfns \o <<>>))
    BY <1>8 DEF ClientInv, InOrder
  <2>6. ~disconnected => accepted' = written \o (Carried \o (pendingNtfns \o <<nQueued>>))
    <3>1. Append(written \o (Carried \o (pendingNtfns \o <<>>)), nQueued)
            = written \o (Carried \o (pendingNtfns \o <<nQueued>>))
      BY <1>1, <1>5, <2>1, QueuedLast
    <3> QED BY <1>8, <2>5, <3>1, Zenon
  <2>7. InOrder'
    BY <1>1, <1>2, <1>5, <1>8, <2>4, <2>6 DEF ClientInv, InOrder
  <2> QED BY <1>6, <2>3, <2>7 DEF ClientInv
<1> QED BY <1>7, <1>8 DEF QueueNotification

(* notificationQueueHandler receives a notification.                       *)
LEMMA NtfnReceiveStep ==
    ASSUME ClientInv, NtfnReceive
    PROVE  ClientInv'
<1>1. /\ DOMAIN wsAt = Goroutine /\ wsMsg \in [Goroutine -> Nat] /\ disconnected' = disconnected
      /\ UNCHANGED <<sendChan, ntfnSentChan, written, accepted, nQueued>>
      /\ written \in Seq(Ntfn) /\ pendingNtfns \in Seq(Ntfn) /\ disconnected \in BOOLEAN
      /\ waiting' = TRUE /\ waiting \in BOOLEAN /\ ntfnChan' = <<>>
  BY DEF ClientInv, ClientType, NtfnReceive, Ntfn, wsQueueRest
<1>2. PICK n \in Ntfn : ntfnChan = <<n>>
  BY DEF ClientInv, ClientType, NtfnReceive, Ntfn
<1>3. Sending' = Sending /\ InSendChan' = InSendChan
  BY <1>1 DEF Sending, InSendChan
<1>4. ~disconnected => accepted = written \o (Carried \o (pendingNtfns \o <<n>>))
  BY <1>2 DEF ClientInv, InOrder
<1>5. ~Offered
  BY DEF NtfnReceive, Offered
<1>6. CASE ~waiting /\ WsGoWith(NtfnQueue, "check", Head(ntfnChan)) /\ UNCHANGED pendingNtfns
  <2>1. /\ wsAt' = [wsAt EXCEPT ![NtfnQueue] = "check"] /\ wsMsg' = [wsMsg EXCEPT ![NtfnQueue] = n]
    BY <1>2, <1>6 DEF WsGoWith, WsGo
  <2>2. /\ DOMAIN wsAt' = Goroutine /\ wsMsg' \in [Goroutine -> Nat]
        /\ wsAt'[NtfnQueue] = "check" /\ wsMsg'[NtfnQueue] = n /\ n # Reply
        /\ wsAt'[Writer] = wsAt[Writer] /\ wsMsg'[Writer] = wsMsg[Writer]
        /\ wsAt'[Manager] = wsAt[Manager]
        /\ \A g \in Service \cup {Reader} : wsMsg'[g] = wsMsg[g]
    BY <1>1, <2>1, GoroutinesDiffer DEF Ntfn, Reply
  <2>3. Offered' /\ Handed' = Handed /\ Taken' = Taken
    BY <1>3, <2>2 DEF Offered, Handed, Taken
  <2>4. ~Handed /\ ~Taken /\ ntfnSentChan = 0 /\ pendingNtfns = <<>>
    BY <1>6 DEF ClientInv, OneToken
  <2>5. Carried = <<>> /\ Carried' = <<n>>
    BY <1>5, <2>2, <2>3, <2>4 DEF Carried, Taken
  <2>6. ClientType'
    BY <1>1, <1>6, <2>2, <2>3 DEF ClientInv, ClientType
  <2>7. OneToken'
    BY <1>1, <1>3, <2>3, <2>4 DEF ClientInv, OneToken
  <2>8. ~disconnected => accepted = written \o (<<n>> \o (<<>> \o <<>>))
    BY <1>4, <2>4, <2>5, Relayed
  <2>9. InOrder'
    BY <1>1, <1>6, <2>2, <2>4, <2>5, <2>8 DEF ClientInv, InOrder
  <2> QED BY <2>6, <2>7, <2>9 DEF ClientInv
<1>7. CASE waiting /\ pendingNtfns' = pendingNtfns \o ntfnChan /\ UNCHANGED <<wsAt, wsMsg>>
  <2>1. Offered' = Offered /\ Handed' = Handed /\ Taken' = Taken
    BY <1>3, <1>7 DEF Offered, Handed, Taken
  <2>2. Carried' = Carried
    BY <1>3, <1>7, <2>1 DEF Carried
  <2>3. <<n>> \in Seq(Ntfn) /\ pendingNtfns' = pendingNtfns \o <<n>>
    BY <1>1, <1>2, <1>7
  <2>8. pendingNtfns' \in Seq(Ntfn)
    BY <1>1, <2>3, ConcatProperties
  <2>4. pendingNtfns \o <<n>> = pendingNtfns' \o <<>>
    BY <1>1, <2>3, Received
  <2>5. ClientType'
    BY <1>1, <1>7, <2>1, <2>8 DEF ClientInv, ClientType, Ntfn
  <2>6. OneToken'
    BY <1>1, <1>3, <1>7, <2>1 DEF ClientInv, OneToken
  <2>7. InOrder'
    BY <1>1, <1>4, <1>7, <2>2, <2>4 DEF ClientInv, InOrder
  <2> QED BY <2>5, <2>6, <2>7 DEF ClientInv
<1> QED BY <1>6, <1>7 DEF NtfnReceive

(* The next pending notification, or none.                                 *)
LEMMA NtfnNextStep ==
    ASSUME ClientInv, NtfnNext
    PROVE  ClientInv'
<1>1. /\ DOMAIN wsAt = Goroutine /\ wsMsg \in [Goroutine -> Nat] /\ disconnected' = disconnected
      /\ UNCHANGED <<sendChan, ntfnChan, written, accepted, nQueued>>
      /\ written \in Seq(Ntfn) /\ pendingNtfns \in Seq(Ntfn) /\ disconnected \in BOOLEAN
      /\ waiting \in BOOLEAN /\ ntfnSentChan = 1 /\ ntfnSentChan' = 0
  BY DEF ClientInv, ClientType, NtfnNext, Ntfn, wsQueueRest
<1>2. ~Offered /\ ~Handed /\ ~Taken /\ waiting
  BY <1>1 DEF ClientInv, OneToken
<1>3. Sending' = Sending /\ InSendChan' = InSendChan
  BY <1>1 DEF Sending, InSendChan
<1>4. Carried = <<>>
  BY <1>2 DEF Carried, Taken
<1>5. CASE pendingNtfns = <<>> /\ waiting' = FALSE /\ UNCHANGED <<wsAt, wsMsg, pendingNtfns>>
  <2>1. Offered' = Offered /\ Handed' = Handed /\ Taken' = Taken
    BY <1>3, <1>5 DEF Offered, Handed, Taken
  <2>2. Carried' = Carried
    BY <1>3, <1>5, <2>1 DEF Carried
  <2>3. ClientType'
    BY <1>1, <1>5, <2>1 DEF ClientInv, ClientType
  <2>4. OneToken'
    BY <1>1, <1>2, <1>3, <1>5, <2>1 DEF ClientInv, OneToken
  <2>5. InOrder'
    BY <1>1, <1>5, <2>2 DEF ClientInv, InOrder
  <2> QED BY <2>3, <2>4, <2>5 DEF ClientInv
<1>6. CASE /\ pendingNtfns # <<>> /\ pendingNtfns' = Tail(pendingNtfns)
           /\ WsGoWith(NtfnQueue, "check", Head(pendingNtfns)) /\ UNCHANGED waiting
  <2> DEFINE n == Head(pendingNtfns)
  <2>0. ntfnChan \in Seq(Ntfn)
    BY CarriedSeq DEF ClientInv
  <2>1. /\ n \in Ntfn /\ Tail(pendingNtfns) \in Seq(Ntfn)
        /\ <<>> \o (pendingNtfns \o ntfnChan) = <<n>> \o (Tail(pendingNtfns) \o ntfnChan)
    BY <1>1, <1>6, <2>0, PendingFirst
  <2> HIDE DEF n
  <2>2. /\ wsAt' = [wsAt EXCEPT ![NtfnQueue] = "check"] /\ wsMsg' = [wsMsg EXCEPT ![NtfnQueue] = n]
    BY <1>6 DEF WsGoWith, WsGo, n
  <2>3. /\ DOMAIN wsAt' = Goroutine /\ wsMsg' \in [Goroutine -> Nat]
        /\ wsAt'[NtfnQueue] = "check" /\ wsMsg'[NtfnQueue] = n /\ n # Reply
        /\ wsAt'[Writer] = wsAt[Writer] /\ wsMsg'[Writer] = wsMsg[Writer]
        /\ wsAt'[Manager] = wsAt[Manager]
        /\ \A g \in Service \cup {Reader} : wsMsg'[g] = wsMsg[g]
    BY <1>1, <2>1, <2>2, GoroutinesDiffer DEF Ntfn, Reply
  <2>4. Offered' /\ Handed' = Handed /\ Taken' = Taken
    BY <1>3, <2>3 DEF Offered, Handed, Taken
  <2>5. Carried' = <<n>>
    BY <1>2, <2>3, <2>4 DEF Carried, Taken
  <2>6. ClientType'
    BY <1>1, <1>6, <2>1, <2>3, <2>4 DEF ClientInv, ClientType, Ntfn
  <2>7. OneToken'
    BY <1>1, <1>2, <1>3, <1>6, <2>4 DEF ClientInv, OneToken
  <2>8. InOrder'
    BY <1>1, <1>4, <1>6, <2>1, <2>3, <2>5 DEF ClientInv, InOrder
  <2> QED BY <2>6, <2>7, <2>8 DEF ClientInv
<1> QED BY <1>5, <1>6 DEF NtfnNext

(* notificationQueueHandler ends and drains its channels.                  *)
LEMMA NtfnQueueQuitStep ==
    ASSUME ClientInv, NtfnQueueQuit
    PROVE  ClientInv'
<1>1. /\ DOMAIN wsAt = Goroutine /\ wsMsg' = wsMsg /\ disconnected /\ disconnected' = disconnected
      /\ UNCHANGED <<sendChan, pendingNtfns, waiting, written, accepted, nQueued>>
      /\ ntfnSentChan' = 0 /\ ntfnChan' = <<>>
      /\ wsAt' = [wsAt EXCEPT ![NtfnQueue] = "ended"]
  BY DEF ClientInv, ClientType, NtfnQueueQuit, wsQueueRest, WsGo
<1>2. /\ DOMAIN wsAt' = Goroutine /\ wsAt'[NtfnQueue] = "ended"
      /\ wsAt'[Writer] = wsAt[Writer] /\ wsAt'[Manager] = wsAt[Manager]
  BY <1>1, GoroutinesDiffer
<1>3. Sending' = Sending
  BY <1>1 DEF Sending
<1>4. ~Offered' /\ Handed' = Handed /\ Taken' = Taken
  BY <1>1, <1>2, <1>3 DEF Offered, Handed, Taken
<1>5. ClientType'
  BY <1>1, <1>2, <1>4 DEF ClientInv, ClientType
<1>6. OneToken'
  BY <1>1, <1>3, <1>4 DEF ClientInv, OneToken
<1>7. InOrder'
  BY <1>1, <1>2 DEF ClientInv, InOrder
<1> QED BY <1>5, <1>6, <1>7 DEF ClientInv

(* outHandler takes a message.                                             *)
LEMMA TakeStep ==
    ASSUME ClientInv, WsTake
    PROVE  ClientInv'
<1>1. /\ DOMAIN wsAt = Goroutine /\ wsMsg \in [Goroutine -> Nat] /\ disconnected' = disconnected
      /\ UNCHANGED <<ntfnChan, ntfnSentChan, pendingNtfns, waiting, written, accepted, nQueued>>
      /\ sendChan # <<>> /\ sendChan' = Tail(sendChan)
      /\ wsAt' = [wsAt EXCEPT ![Writer] = "write"] /\ wsMsg' = [wsMsg EXCEPT ![Writer] = Head(sendChan)]
      /\ wsAt[Writer] = "select"
  BY DEF ClientInv, ClientType, WsTake, wsOutRest, WsGoWith, WsGo
<1> DEFINE m == Head(sendChan)
<1>2. /\ sendChan' \in Seq(Nat) /\ m \in Nat
      /\ \A i, j \in Sending' : i = j
      /\ m = Reply => (Sending' = {} <=> Sending = {}) /\ InSendChan' = InSendChan
      /\ m # Reply => Sending' = {} /\ Sending # {} /\ InSendChan = <<m>>
  BY <1>1, SendingTail DEF ClientInv
<1>0. wsMsg' = [wsMsg EXCEPT ![Writer] = m]
  BY <1>1
<1> HIDE DEF m
<1>3. /\ DOMAIN wsAt' = Goroutine /\ wsMsg' \in [Goroutine -> Nat]
      /\ wsAt'[Writer] = "write" /\ wsMsg'[Writer] = m
      /\ wsAt'[NtfnQueue] = wsAt[NtfnQueue] /\ wsMsg'[NtfnQueue] = wsMsg[NtfnQueue]
      /\ wsAt'[Manager] = wsAt[Manager]
      /\ \A g \in Service \cup {Reader} : wsMsg'[g] = wsMsg[g]
  BY <1>0, <1>1, <1>2, GoroutinesDiffer
<1>4. Offered' = Offered /\ ~Taken
  BY <1>1, <1>3 DEF Offered, Taken
<1>5. Taken' = (m # Reply)
  BY <1>3 DEF Taken
<1>6. ClientType'
  BY <1>1, <1>2, <1>3, <1>4 DEF ClientInv, ClientType
<1>7. OneToken'
  BY <1>1, <1>2, <1>4, <1>5 DEF ClientInv, OneToken, Handed
<1>8. Carried' = Carried
  <2>1. CASE m = Reply
    BY <1>1, <1>2, <1>3, <1>4, <2>1 DEF Carried, Handed
  <2>2. CASE m # Reply
    BY <1>1, <1>2, <1>3, <2>2 DEF Carried, Handed
  <2> QED BY <2>1, <2>2
<1>9. InOrder'
  BY <1>1, <1>3, <1>8 DEF ClientInv, InOrder
<1> QED BY <1>6, <1>7, <1>9 DEF ClientInv

(* outHandler writes a message, or fails.                                  *)
LEMMA WriteStep ==
    ASSUME ClientInv, WsWrite
    PROVE  ClientInv'
<1>1. /\ DOMAIN wsAt = Goroutine /\ wsMsg \in [Goroutine -> Nat] /\ wsMsg' = wsMsg
      /\ UNCHANGED <<sendChan, ntfnChan, ntfnSentChan, pendingNtfns, waiting, accepted, nQueued>>
      /\ wsAt[Writer] = "write" /\ disconnected \in BOOLEAN
      /\ written \in Seq(Ntfn) /\ accepted \in Seq(Ntfn) /\ pendingNtfns \in Seq(Ntfn)
  BY DEF ClientInv, ClientType, WsWrite, wsOutRest, Ntfn
<1>2. PICK at \in {"select", "signal", "drain"} : wsAt' = [wsAt EXCEPT ![Writer] = at]
  BY DEF WsWrite, WsGo
<1>3. /\ DOMAIN wsAt' = Goroutine /\ wsAt'[Writer] = at
      /\ wsAt'[NtfnQueue] = wsAt[NtfnQueue] /\ wsAt'[Manager] = wsAt[Manager]
  BY <1>1, <1>2, GoroutinesDiffer
<1>4. Sending' = Sending /\ InSendChan' = InSendChan
  BY <1>1 DEF Sending, InSendChan
<1>5. Offered' = Offered /\ Handed' = Handed /\ (Taken' => Taken)
  BY <1>1, <1>3, <1>4 DEF Offered, Handed, Taken
<1>6. OneToken'
  BY <1>1, <1>4, <1>5 DEF ClientInv, OneToken
<1>7. CASE ~disconnected /\ UNCHANGED disconnected /\ wsMsg[Writer] = Reply /\ at = "select"
           /\ written' = written
  <2>1. Carried' = Carried
    BY <1>1, <1>3, <1>4, <1>5, <1>7 DEF Carried
  <2>2. ClientType'
    BY <1>1, <1>3, <1>5, <1>7 DEF ClientInv, ClientType
  <2>3. InOrder'
    BY <1>1, <1>3, <1>7, <2>1 DEF ClientInv, InOrder
  <2> QED BY <1>6, <2>2, <2>3 DEF ClientInv
<1>8. CASE /\ ~disconnected /\ UNCHANGED disconnected /\ wsMsg[Writer] # Reply /\ at = "signal"
           /\ written' = Append(written, wsMsg[Writer])
  <2> DEFINE m == wsMsg[Writer]
  <2>1. m \in Ntfn
    BY <1>1, <1>8, GoroutinesDiffer DEF Ntfn, Reply
  <2>2. Taken /\ ~Handed /\ ~Offered
    BY <1>1, <1>8 DEF Taken, ClientInv, OneToken
  <2>3. Carried = <<m>> /\ Carried' = <<>>
    BY <1>1, <1>3, <1>5, <1>8, <2>2 DEF Carried
  <2>4. ntfnChan \in Seq(Ntfn) /\ pendingNtfns \o ntfnChan \in Seq(Ntfn)
    BY <1>1, CarriedSeq, ConcatProperties DEF ClientInv
  <2>5. accepted = written \o (<<m>> \o (pendingNtfns \o ntfnChan))
    BY <1>8, <2>3 DEF ClientInv, InOrder
  <2> HIDE DEF m
  <2>6. accepted = Append(written, m) \o (<<>> \o (pendingNtfns \o ntfnChan))
    BY <1>1, <2>1, <2>4, <2>5, WrittenFirst
  <2>7. Append(written, m) \in Seq(Ntfn) /\ <<>> \o (pendingNtfns \o ntfnChan) \in Seq(Ntfn)
    BY <1>1, <2>1, <2>4, ConcatEmptySeq
  <2>8. written' = Append(written, m)
    BY <1>8 DEF m
  <2>9. IsPrefix(written', accepted')
    BY <1>1, <2>6, <2>7, <2>8, PrefixOfConcat
  <2>10. ClientType'
    BY <1>1, <1>3, <1>5, <1>8, <2>7, <2>8 DEF ClientInv, ClientType, Ntfn
  <2>11. InOrder'
    BY <1>1, <1>3, <1>8, <2>3, <2>6, <2>8, <2>9 DEF InOrder
  <2> QED BY <1>6, <2>10, <2>11 DEF ClientInv
<1>9. CASE disconnected' = TRUE /\ UNCHANGED written /\ at = "drain"
  <2>2. ClientType'
    BY <1>1, <1>3, <1>5, <1>9 DEF ClientInv, ClientType
  <2>3. InOrder'
    BY <1>1, <1>9 DEF ClientInv, InOrder
  <2> QED BY <1>6, <2>2, <2>3 DEF ClientInv
<1>10. \/ ~disconnected /\ UNCHANGED disconnected /\ wsMsg[Writer] = Reply /\ at = "select" /\ written' = written
       \/ /\ ~disconnected /\ UNCHANGED disconnected /\ wsMsg[Writer] # Reply /\ at = "signal"
          /\ written' = Append(written, wsMsg[Writer])
       \/ disconnected' = TRUE /\ UNCHANGED written /\ at = "drain"
  BY <1>1, <1>2, <1>3, GoroutinesDiffer DEF WsWrite, WsGo
<1> QED BY <1>7, <1>8, <1>9, <1>10

(* outHandler reports the notification it has written.                     *)
LEMMA SignalStep ==
    ASSUME ClientInv, WsSignal
    PROVE  ClientInv'
<1>1. /\ DOMAIN wsAt = Goroutine /\ wsMsg' = wsMsg /\ disconnected' = disconnected
      /\ UNCHANGED <<sendChan, ntfnChan, pendingNtfns, waiting, accepted, nQueued, written>>
      /\ wsAt[Writer] = "signal" /\ ntfnSentChan = 0 /\ ntfnSentChan' = 1
      /\ wsAt' = [wsAt EXCEPT ![Writer] = "select"]
  BY DEF ClientInv, ClientType, WsSignal, wsOutRest, WsGo
<1>2. /\ DOMAIN wsAt' = Goroutine /\ wsAt'[Writer] = "select"
      /\ wsAt'[NtfnQueue] = wsAt[NtfnQueue] /\ wsAt'[Manager] = wsAt[Manager]
  BY <1>1, GoroutinesDiffer
<1>3. Sending' = Sending /\ InSendChan' = InSendChan
  BY <1>1 DEF Sending, InSendChan
<1>4. Offered' = Offered /\ Handed' = Handed /\ ~Taken'
  BY <1>1, <1>2, <1>3 DEF Offered, Handed, Taken
<1>5. Taken
  BY <1>1 DEF Taken, ClientInv, ClientType
<1>6. Carried' = Carried
  BY <1>1, <1>2, <1>3, <1>4 DEF Carried
<1>7. ClientType'
  BY <1>1, <1>2, <1>4 DEF ClientInv, ClientType
<1>8. OneToken'
  BY <1>1, <1>3, <1>4, <1>5 DEF ClientInv, OneToken
<1>9. InOrder'
  BY <1>1, <1>2, <1>6 DEF ClientInv, InOrder
<1> QED BY <1>7, <1>8, <1>9 DEF ClientInv

(* outHandler sees quit.                                                   *)
LEMMA QuitStep ==
    ASSUME ClientInv, WsQuit
    PROVE  ClientInv'
<1>1. /\ DOMAIN wsAt = Goroutine /\ wsMsg' = wsMsg /\ disconnected' = disconnected /\ disconnected
      /\ UNCHANGED <<sendChan, ntfnChan, ntfnSentChan, pendingNtfns, waiting, accepted, nQueued, written>>
      /\ wsAt[Writer] = "select" /\ wsAt' = [wsAt EXCEPT ![Writer] = "drain"]
  BY DEF ClientInv, ClientType, WsQuit, wsOutRest, WsGo
<1>2. /\ DOMAIN wsAt' = Goroutine /\ wsAt'[Writer] = "drain"
      /\ wsAt'[NtfnQueue] = wsAt[NtfnQueue] /\ wsAt'[Manager] = wsAt[Manager]
  BY <1>1, GoroutinesDiffer
<1>3. Sending' = Sending
  BY <1>1 DEF Sending
<1>4. Offered' = Offered /\ Handed' = Handed /\ ~Taken'
  BY <1>1, <1>2, <1>3 DEF Offered, Handed, Taken
<1>5. ClientType'
  BY <1>1, <1>2, <1>4 DEF ClientInv, ClientType
<1>6. OneToken'
  BY <1>1, <1>3, <1>4 DEF ClientInv, OneToken
<1>7. InOrder'
  BY <1>1, <1>2 DEF ClientInv, InOrder
<1> QED BY <1>5, <1>6, <1>7 DEF ClientInv

(* The cleanup loop of outHandler reports what it throws away.             *)
LEMMA DrainStep ==
    ASSUME ClientInv, WsDrain
    PROVE  ClientInv'
<1>1. /\ DOMAIN wsAt = Goroutine /\ wsMsg' = wsMsg /\ disconnected' = disconnected /\ disconnected
      /\ UNCHANGED <<ntfnChan, pendingNtfns, waiting, accepted, nQueued, written>>
      /\ wsAt[Writer] = "drain"
  BY DEF ClientInv, ClientType, InOrder, WsDrain, wsOutRest
<1>2. /\ DOMAIN wsAt' = Goroutine /\ wsAt'[Writer] \in {"drain", "ended"}
      /\ wsAt'[NtfnQueue] = wsAt[NtfnQueue] /\ wsAt'[Manager] = wsAt[Manager]
  BY <1>1, GoroutinesDiffer DEF WsDrain, WsGo
<1>3. Offered' = Offered /\ ~Taken /\ ~Taken'
  BY <1>1, <1>2 DEF Offered, Taken
<1>4. InOrder'
  BY <1>1, <1>2 DEF ClientInv, InOrder
<1>5. CASE UNCHANGED <<sendChan, ntfnSentChan>>
  <2>1. Sending' = Sending /\ Handed' = Handed
    BY <1>5 DEF Sending, Handed
  <2>2. ClientType'
    BY <1>1, <1>2, <1>3, <1>5 DEF ClientInv, ClientType
  <2>3. OneToken'
    BY <1>1, <1>3, <1>5, <2>1 DEF ClientInv, OneToken
  <2> QED BY <1>4, <2>2, <2>3 DEF ClientInv
<1>6. CASE /\ sendChan # <<>> /\ sendChan' = Tail(sendChan)
           /\ IF Head(sendChan) = Reply THEN UNCHANGED ntfnSentChan
              ELSE ntfnSentChan = 0 /\ ntfnSentChan' = 1
  <2>1. /\ sendChan' \in Seq(Nat)
        /\ \A i, j \in Sending' : i = j
        /\ Head(sendChan) = Reply => (Sending' = {} <=> Sending = {})
        /\ Head(sendChan) # Reply => Sending' = {} /\ Sending # {}
    BY <1>6, SendingTail DEF ClientInv
  <2>2. ClientType'
    BY <1>1, <1>2, <1>3, <1>6, <2>1 DEF ClientInv, ClientType
  <2>3. OneToken'
    BY <1>1, <1>3, <1>6, <2>1 DEF ClientInv, OneToken, Handed
  <2> QED BY <1>4, <2>2, <2>3 DEF ClientInv
<1> QED BY <1>5, <1>6 DEF WsDrain

(* A new client satisfies the invariant.                                   *)
LEMMA ClientInitially == InitClient => ClientInv
<1> SUFFICES ASSUME InitClient PROVE ClientInv
  OBVIOUS
<1>1. /\ wsAt = [g \in Goroutine |->
                   CASE g \in Service -> "none" [] g = Reader -> "top" [] g = Manager -> "idle"
                     [] OTHER -> "select"]
      /\ wsMsg = [g \in Goroutine |-> Reply]
      /\ disconnected = FALSE /\ ntfnChan = <<>> /\ sendChan = <<>> /\ ntfnSentChan = 0
      /\ pendingNtfns = <<>> /\ waiting = FALSE /\ nQueued = 0 /\ accepted = <<>> /\ written = <<>>
  BY DEF InitClient
<1>2. /\ DOMAIN wsAt = Goroutine /\ wsMsg \in [Goroutine -> Nat]
      /\ wsAt[Manager] = "idle" /\ wsAt[NtfnQueue] = "select" /\ wsAt[Writer] = "select"
      /\ \A g \in Service \cup {Reader} : wsMsg[g] = Reply
  BY <1>1, GoroutinesDiffer DEF Reply
<1>3. Sending = {} /\ ~Handed /\ ~Offered /\ ~Taken
  BY <1>1, <1>2 DEF Sending, Handed, Offered, Taken
<1>4. Carried = <<>>
  BY <1>2, <1>3 DEF Carried
<1>9. <<>> \in Seq(Nat) /\ <<>> \in Seq(Nat \ {0})
  OBVIOUS
<1>5. ClientType
  BY <1>1, <1>2, <1>3, <1>9 DEF ClientType
<1>6. OneToken
  BY <1>1, <1>3 DEF OneToken
<1>7. <<>> \o (<<>> \o (<<>> \o <<>>)) = <<>> /\ IsPrefix(<<>>, <<>>)
  <2>1. <<>> \in Seq(Ntfn) /\ <<>> \o <<>> = <<>>
    OBVIOUS
  <2>2. IsPrefix(<<>>, <<>> \o <<>>)
    BY <2>1, PrefixOfConcat
  <2> QED BY <2>1, <2>2
<1>8. InOrder
  BY <1>1, <1>2, <1>4, <1>7 DEF InOrder
<1> QED BY <1>5, <1>6, <1>8 DEF ClientInv

(* Every step of a client keeps the invariant.                             *)
LEMMA ClientStep == ClientInv /\ [NextClient]_clientVars => ClientInv'
<1> SUFFICES ASSUME ClientInv, [NextClient]_clientVars PROVE ClientInv'
  OBVIOUS
<1>1. ASSUME inHandler PROVE ClientInv'
  BY <1>1, ReaderStep, ClientSends DEF inHandler
<1>2. ASSUME notificationQueueHandler PROVE ClientInv'
  BY <1>2, NtfnReceiveStep, NtfnNextStep, NtfnQueueQuitStep, ClientSends DEF notificationQueueHandler
<1>3. ASSUME outHandler PROVE ClientInv'
  BY <1>3, TakeStep, WriteStep, SignalStep, QuitStep, DrainStep DEF outHandler
<1>4. ASSUME NEW s \in Service, serviceRequest(s) PROVE ClientInv'
  BY <1>4, ReaderStep, ClientSends DEF serviceRequest
<1>5. CASE UNCHANGED clientVars
  <2>1. /\ UNCHANGED <<sendChan, ntfnChan, ntfnSentChan, pendingNtfns, waiting, nQueued, accepted, written>>
        /\ wsAt' = wsAt /\ wsMsg' = wsMsg /\ disconnected' = disconnected
    BY <1>5 DEF clientVars
  <2> QED BY <2>1, ClientQuiet DEF ClientInv, ClientType
<1> QED BY <1>1, <1>2, <1>3, <1>4, <1>5, ReaderStep, QueueNotificationStep DEF NextClient

(* The invariant holds in every behaviour, for any number of requests and  *)
(* any size of the send channel.                                           *)
THEOREM ClientInvariant == SpecClient => []ClientInv
BY ClientInitially, ClientStep, PTL DEF SpecClient

(* Why the invariant is what the property says: what is carried is the one *)
(* of the three places that is not empty.                                  *)
LEMMA ClientInvInOrder ==
    ASSUME ClientInv
    PROVE  NotificationsInOrder
<1> USE DEF ClientInv
<1> DEFINE w == Holds(Writer, {"write"})
           q == Holds(NtfnQueue, {"check", "put"})
           n == Len(Holds(Writer, {"write", "signal"})) + Cardinality(Sending) + Len(q) + ntfnSentChan
<1>0. Len(<<>>) = 0 /\ (\A x : Len(<<x>>) = 1) /\ Cardinality({}) = 0
  BY FS_EmptySet
<1>1. q = IF Offered THEN <<wsMsg[NtfnQueue]>> ELSE <<>>
  BY DEF Holds, Offered, ClientType
<1>2. Holds(Writer, {"write", "signal"}) = IF Taken THEN <<wsMsg[Writer]>> ELSE <<>>
  BY DEF Holds, Taken
<1>3. w = IF wsAt[Writer] = "write" /\ wsMsg[Writer] # Reply THEN <<wsMsg[Writer]>> ELSE <<>>
  BY DEF Holds
<1>4. ntfnSentChan \in {0, 1}
  BY DEF ClientType
<1>5. Cardinality(Sending) = IF Handed THEN 1 ELSE 0
  <2>1. CASE Handed
    <3>1. PICK i \in Sending : TRUE
      BY <2>1 DEF Handed
    <3>2. Sending = {i}
      BY <3>1 DEF OneToken
    <3> QED BY <2>1, <3>2, FS_Singleton
  <2>2. CASE ~Handed
    BY <1>0, <2>2 DEF Handed
  <2> QED BY <2>1, <2>2
<1>12. /\ Len(q) = IF Offered THEN 1 ELSE 0
       /\ Len(Holds(Writer, {"write", "signal"})) = IF Taken THEN 1 ELSE 0
  BY <1>0, <1>1, <1>2
<1> HIDE DEF q
<1>6. n =< 1
  <2>1. CASE Offered
    <3>1. ~Handed /\ ~Taken /\ ntfnSentChan = 0
      BY <2>1 DEF OneToken
    <3> QED BY <1>5, <1>12, <2>1, <3>1
  <2>2. CASE ~Offered /\ Handed
    <3>1. ~Taken /\ ntfnSentChan = 0
      BY <2>2 DEF OneToken
    <3> QED BY <1>5, <1>12, <2>2, <3>1
  <2>3. CASE ~Offered /\ ~Handed /\ Taken
    <3>1. ntfnSentChan = 0
      BY <2>3 DEF OneToken
    <3> QED BY <1>5, <1>12, <2>3, <3>1
  <2>4. CASE ~Offered /\ ~Handed /\ ~Taken
    BY <1>4, <1>5, <1>12, <2>4
  <2> QED BY <2>1, <2>2, <2>3, <2>4
<1>7. InSendChan = IF Handed THEN InSendChan ELSE <<>>
  BY DEF InSendChan, Handed
<1>8. /\ Carried \in Seq(Ntfn) /\ ntfnChan \in Seq(Ntfn) /\ pendingNtfns \in Seq(Ntfn)
      /\ <<>> \in Seq(Ntfn) /\ written \in Seq(Ntfn)
  BY CarriedSeq DEF ClientType, Ntfn
<1>9. (w \o InSendChan) \o q = Carried
  <2>1. <<>> \o <<>> = <<>> /\ Carried \o <<>> = Carried /\ <<>> \o Carried = Carried
    BY <1>8, ConcatEmptySeq
  <2>2. CASE wsAt[Writer] = "write" /\ wsMsg[Writer] # Reply
    <3>1. Taken /\ ~Handed /\ ~Offered
      BY <2>2 DEF Taken, OneToken
    <3>2. w = Carried /\ InSendChan = <<>> /\ q = <<>>
      BY <1>1, <1>3, <1>7, <2>2, <3>1 DEF Carried
    <3> QED BY <2>1, <3>2
  <2>3. CASE ~(wsAt[Writer] = "write" /\ wsMsg[Writer] # Reply) /\ Handed
    <3>1. w = <<>> /\ InSendChan = Carried /\ q = <<>>
      BY <1>1, <1>3, <2>3 DEF Carried, OneToken
    <3> QED BY <2>1, <3>1
  <2>4. CASE ~(wsAt[Writer] = "write" /\ wsMsg[Writer] # Reply) /\ ~Handed
    <3>1. w = <<>> /\ InSendChan = <<>> /\ q = Carried
      BY <1>1, <1>3, <1>7, <2>4 DEF Carried
    <3> QED BY <2>1, <3>1
  <2> QED BY <2>2, <2>3, <2>4
<1>10. Underway = (Carried \o pendingNtfns) \o ntfnChan
  BY <1>9 DEF Underway, q
<1>11. Underway = Carried \o (pendingNtfns \o ntfnChan)
  BY <1>8, <1>10, ConcatAssociative
<1> QED BY <1>6, <1>11 DEF NotificationsInOrder, InOrder, q

(* The notifications of a websocket client are written in the order they   *)
(* were queued, none is lost while it is connected, and one at most is     *)
(* between the handlers.                                                   *)
THEOREM NotificationsStayInOrder == SpecClient => []NotificationsInOrder
BY ClientInvariant, ClientInvInOrder, PTL

-----------------------------------------------------------------------------
(* PeerIO *)

(* The messages, and where they are counted.                               *)
Message == [kind : {"plain", "reject"}, items : SUBSET Item]
(* The messages somebody waits for.                                        *)
Rejects == {m \in Message : m.kind = "reject"}
(* The messages with an item.                                              *)
Carrying(i) == {m \in Message : i \in m.items}

(* How many messages of a sequence are in P.                               *)
CountIn(s, P) == Cardinality({k \in DOMAIN s : s[k] \in P})
(* How many messages in the queues and channels of the peer are in P.      *)
Total(P) ==
    CountIn(sending, P) + CountIn(sendQueue, P) + CountIn(queue.pending, P) + CountIn(outputQueue, P)

(* The goroutines of a peer and those that call it.                        *)
PeerGoroutine == {"negotiate", "start", "caller"} \cup Handler

(* The types of the channels and of the locals.                            *)
IOType ==
    /\ pc = [g \in PeerGoroutine |-> pc[g]]
    /\ disc \in BOOLEAN /\ sendDone \in BOOLEAN /\ doneChan \in Nat
    /\ outputQueue \in Seq(Message)
    /\ queue \in [pending : Seq(Message), waiting : BOOLEAN, inv : Seq(Item)]
    /\ sendQueue = <<>> \/ \E m \in Message : sendQueue = <<m>>
    /\ sending = <<>> \/ \E m \in Message : sending = <<m>>
    /\ outputInvChan \in Seq(Item)
    /\ knownInventory \in SUBSET Item
    /\ announced \in [Item -> Nat]

(* The handlers start once.                                                *)
Started == pc["start"] # "done" => \A g \in Handler : pc[g] = "off"

(* The flag waiting is the token of the message on its way.                *)
OneMessage ==
    /\ sending # <<>> <=> pc["out"] \in {"control", "write"}
    /\ sendQueue # <<>> => sending = <<>>
    /\ sendQueue # <<>> \/ sending # <<>> => pc["out"] # "sendDone"
    /\ sendQueue # <<>> \/ sending # <<>> \/ pc["out"] = "sendDone" => ~sendDone
    /\ ~queue.waiting => /\ sendQueue = <<>> /\ sending = <<>> /\ pc["out"] # "sendDone" /\ ~sendDone
                         /\ queue.pending = <<>>

(* The reject message, which inHandler sends once, is somewhere or has     *)
(* been reported.                                                          *)
RejectOnce ==
    /\ doneChan + Total(Rejects) =< 1
    /\ pc["in"] \notin {"await", "close", "done"} => doneChan + Total(Rejects) = 0

(* An item is known to the peer before it is in a message, and in one      *)
(* message only.                                                           *)
ItemOnce ==
    \A i \in Item : /\ announced[i] + Total(Carrying(i)) =< 1
                    /\ i \notin knownInventory => announced[i] + Total(Carrying(i)) = 0

(* The inductive invariant of the goroutines of a peer.                    *)
IOInv == IOType /\ Started /\ OneMessage /\ RejectOnce /\ ItemOnce

-----------------------------------------------------------------------------
(* Counting in a sequence is a natural number.                             *)
LEMMA CountType ==
    ASSUME NEW S, NEW s \in Seq(S), NEW P
    PROVE  CountIn(s, P) \in Nat /\ IsFiniteSet({k \in DOMAIN s : s[k] \in P})
<1>1. Len(s) \in Nat /\ DOMAIN s = 1..Len(s)
    BY LenProperties
<1>2. IsFiniteSet(1..Len(s))
    BY <1>1, FS_Interval
<1>3. {k \in DOMAIN s : s[k] \in P} \in SUBSET (1..Len(s))
    BY <1>1
<1>4. IsFiniteSet({k \in DOMAIN s : s[k] \in P})
    BY <1>2, <1>3, FS_Subset
<1>. QED
    BY <1>4, FS_CardinalityType DEF CountIn

(* Nothing is counted where nothing is.                                    *)
LEMMA CountNone ==
    ASSUME NEW S, NEW s \in Seq(S), NEW P, \A k \in DOMAIN s : s[k] \notin P
    PROVE  CountIn(s, P) = 0
<1>1. {k \in DOMAIN s : s[k] \in P} = {}
    OBVIOUS
<1>. QED
    BY <1>1, FS_EmptySet DEF CountIn

(* A sequence of one.                                                      *)
LEMMA CountOne ==
    ASSUME NEW m, NEW P
    PROVE  CountIn(<<m>>, P) = IF m \in P THEN 1 ELSE 0
<1>1. DOMAIN <<m>> = {1} /\ <<m>>[1] = m
    OBVIOUS
<1>2. CASE m \in P
    <2>1. {k \in DOMAIN <<m>> : <<m>>[k] \in P} = {1}
        BY <1>1, <1>2
    <2>. QED
        BY <2>1, <1>2, FS_Singleton DEF CountIn
<1>3. CASE m \notin P
    <2>1. {k \in DOMAIN <<m>> : <<m>>[k] \in P} = {}
        BY <1>1, <1>3
    <2>. QED
        BY <2>1, <1>3, FS_EmptySet DEF CountIn
<1>. QED
    BY <1>2, <1>3

(* The count of a concatenation is the sum.                                *)
LEMMA CountConcat ==
    ASSUME NEW S, NEW s \in Seq(S), NEW t \in Seq(S), NEW P
    PROVE  CountIn(s \o t, P) = CountIn(s, P) + CountIn(t, P)
<1>. DEFINE n == Len(s)
            A == {k \in DOMAIN s : s[k] \in P}
            B == {k \in DOMAIN t : t[k] \in P}
            C == {k \in (n + 1)..(n + Len(t)) : t[k - n] \in P}
            D == {k \in DOMAIN (s \o t) : (s \o t)[k] \in P}
            f == [k \in B |-> k + n]
<1>1. n \in Nat /\ Len(t) \in Nat /\ DOMAIN s = 1..n /\ DOMAIN t = 1..Len(t)
    BY LenProperties
<1>2. s \o t \in Seq(S) /\ DOMAIN (s \o t) = 1..(n + Len(t))
      /\ \A k \in 1..(n + Len(t)) : (s \o t)[k] = IF k <= n THEN s[k] ELSE t[k - n]
    BY <1>1, ConcatProperties, LenProperties
<1>3. D = A \cup C /\ A \cap C = {}
    <2>1. ASSUME NEW k \in D PROVE k \in A \cup C
        BY <1>1, <1>2
    <2>2. ASSUME NEW k \in A PROVE k \in D /\ k \notin C
        BY <1>1, <1>2
    <2>3. ASSUME NEW k \in C PROVE k \in D
        <3>1. k \in 1..(n + Len(t)) /\ ~(k <= n)
            BY <1>1
        <3>. QED
            BY <1>2, <3>1
    <2>. QED
        BY <2>1, <2>2, <2>3
<1>4. IsFiniteSet(A) /\ IsFiniteSet(B) /\ IsFiniteSet(D)
    BY <1>2, CountType
<1>5. IsFiniteSet(C) /\ Cardinality(C) = Cardinality(B)
    <2>1. f \in [B -> C]
        BY <1>1
    <2>2. \A j, k \in B : f[j] = f[k] => j = k
        BY <1>1
    <2>3. ASSUME NEW c \in C PROVE \E k \in B : f[k] = c
        <3>1. c - n \in B
            BY <1>1
        <3>2. f[c - n] = c
            BY <1>1, <3>1
        <3>. QED
            BY <3>1, <3>2
    <2>. HIDE DEF B, C, f
    <2>4. f \in Bijection(B, C)
        BY <2>1, <2>2, <2>3 DEF Bijection, Injection, Surjection, IsInjective
    <2>5. ExistsBijection(B, C)
        BY <2>4 DEF ExistsBijection
    <2>. QED
        BY <1>4, <2>5, FS_Bijection
<1>6. Cardinality(D) = Cardinality(A) + Cardinality(C)
    <2>1. Cardinality(A \cup C) = Cardinality(A) + Cardinality(C) - Cardinality(A \cap C)
        BY <1>4, <1>5, FS_Union
    <2>2. Cardinality(A \cap C) = 0
        BY <1>3, FS_EmptySet
    <2>3. Cardinality(A) \in Nat /\ Cardinality(C) \in Nat
        BY <1>4, <1>5, FS_CardinalityType
    <2>. HIDE DEF A, C, D
    <2>. QED
        BY <1>3, <2>1, <2>2, <2>3
<1>7. CountIn(s \o t, P) = Cardinality(D) /\ CountIn(s, P) = Cardinality(A)
      /\ CountIn(t, P) = Cardinality(B)
    BY DEF CountIn
<1>. HIDE DEF A, B, C, D
<1>. QED
    BY <1>5, <1>6, <1>7

(* Append adds the message.                                                *)
LEMMA CountAppend ==
    ASSUME NEW S, NEW s \in Seq(S), NEW m \in S, NEW P
    PROVE  CountIn(Append(s, m), P) = CountIn(s, P) + (IF m \in P THEN 1 ELSE 0)
<1>1. <<m>> \in Seq(S)
    OBVIOUS
<1>2. Append(s, m) = s \o <<m>>
    BY AppendIsConcat
<1>3. CountIn(s \o <<m>>, P) = CountIn(s, P) + CountIn(<<m>>, P)
    BY <1>1, CountConcat
<1>4. CountIn(<<m>>, P) = IF m \in P THEN 1 ELSE 0
    BY CountOne
<1>. QED
    BY <1>2, <1>3, <1>4

(* The first message and the others.                                       *)
LEMMA CountTail ==
    ASSUME NEW S, NEW s \in Seq(S), s # <<>>, NEW P
    PROVE  /\ SubSeq(s, 1, 1) = <<s[1]>> /\ s[1] \in S /\ Tail(s) \in Seq(S)
           /\ CountIn(SubSeq(s, 1, 1), P) + CountIn(Tail(s), P) = CountIn(s, P)
<1>1. SubSeq(s, 1, 1) = <<s[1]>> /\ s[1] \in S /\ Tail(s) \in Seq(S)
    <2>1. Len(s) \in Nat /\ Len(s) > 0 /\ DOMAIN s = 1..Len(s)
        BY LenProperties, EmptySeq
    <2>2. s[1] \in S
        BY <2>1, ElementOfSeq
    <2>3. Tail(s) \in Seq(S)
        BY HeadTailProperties
    <2>4. SubSeq(s, 1, 1) \in Seq(S) /\ Len(SubSeq(s, 1, 1)) = 1 /\ SubSeq(s, 1, 1)[1] = s[1]
        BY <2>1
    <2>5. <<s[1]>> \in Seq(S) /\ Len(<<s[1]>>) = 1 /\ <<s[1]>>[1] = s[1]
        BY <2>2
    <2>. DEFINE t == SubSeq(s, 1, 1)
                u == <<s[1]>>
    <2>6. Len(t) = Len(u) /\ (\A i \in 1..Len(t) : t[i] = u[i])
        BY <2>4, <2>5
    <2>7. t \in Seq(S) /\ u \in Seq(S)
        BY <2>4, <2>5
    <2>8. t = u
        <3>. HIDE DEF t, u
        <3>. QED
            BY <2>6, <2>7, SeqEqual
    <2>. QED
        BY <2>2, <2>3, <2>8
<1>2. s = <<s[1]>> \o Tail(s)
    BY <1>1
<1>3. <<s[1]>> \in Seq(S)
    BY <1>1
<1>4. CountIn(<<s[1]>> \o Tail(s), P) = CountIn(<<s[1]>>, P) + CountIn(Tail(s), P)
    BY <1>1, <1>3, CountConcat
<1>. QED
    BY <1>1, <1>2, <1>4

(* What is sent to the doneChans of a sequence of messages.                *)
LEMMA SignalsCount ==
    ASSUME NEW s \in Seq(Message)
    PROVE  Signals(s) = CountIn(s, Rejects)
<1>1. \A k \in DOMAIN s : s[k] \in Message
    BY LenProperties, ElementOfSeq
<1>2. {k \in DOMAIN s : s[k].kind = "reject"} = {k \in DOMAIN s : s[k] \in Rejects}
    BY <1>1 DEF Rejects
<1>. QED
    BY <1>2 DEF Signals, CountIn

(* The two messages without items.                                         *)
LEMMA MsgType ==
    /\ Msg("plain") \in Message /\ Msg("reject") \in Message
    /\ Msg("plain") \notin Rejects /\ Msg("reject") \in Rejects
    /\ \A i \in Item : Msg("plain") \notin Carrying(i) /\ Msg("reject") \notin Carrying(i)
BY DEF Msg, Message, Rejects, Carrying

-----------------------------------------------------------------------------
(* At the beginning nothing is anywhere.                                   *)
LEMMA IOStart == InitIO => IOInv
<1>. SUFFICES ASSUME InitIO PROVE IOInv
    OBVIOUS
<1>1. /\ outputQueue = <<>> /\ sendQueue = <<>> /\ sending = <<>> /\ outputInvChan = <<>>
      /\ queue = [pending |-> <<>>, waiting |-> FALSE, inv |-> <<>>]
      /\ disc = FALSE /\ sendDone = FALSE /\ doneChan = 0
      /\ knownInventory = {} /\ announced = [i \in Item |-> 0]
    BY DEF InitIO
<1>2. pc = [g \in PeerGoroutine |-> pc[g]] /\ pc["start"] = "wait" /\ (\A g \in Handler : pc[g] = "off")
    BY DEF InitIO, PeerGoroutine, Handler
<1>3. IOType
    <2>1. queue \in [pending : Seq(Message), waiting : BOOLEAN, inv : Seq(Item)]
        BY <1>1
    <2>. QED
        BY <1>1, <1>2, <2>1 DEF IOType
<1>4. Started /\ OneMessage
    BY <1>1, <1>2 DEF Started, OneMessage, Handler
<1>5. ASSUME NEW P PROVE Total(P) = 0
    <2>1. CountIn(<<>>, P) = 0
        BY FS_EmptySet DEF CountIn
    <2>2. queue.pending = <<>>
        BY <1>1
    <2>. QED
        BY <2>1, <2>2, <1>1 DEF Total
<1>6. RejectOnce /\ ItemOnce
    BY <1>1, <1>5 DEF RejectOnce, ItemOnce
<1>. QED
    BY <1>3, <1>4, <1>6 DEF IOInv

(* The counts are natural numbers, before a step and after it.             *)
LEMMA TotalType ==
    ASSUME NEW P
    PROVE  /\ IOType => /\ sending \in Seq(Message) /\ sendQueue \in Seq(Message)
                        /\ queue.pending \in Seq(Message) /\ outputQueue \in Seq(Message)
                        /\ Total(P) \in Nat
                        /\ CountIn(sending, P) \in Nat /\ CountIn(sendQueue, P) \in Nat
                        /\ CountIn(queue.pending, P) \in Nat /\ CountIn(outputQueue, P) \in Nat
           /\ IOType' => Total(P)' \in Nat
<1>1. <<>> \in Seq(Message) /\ \A m \in Message : <<m>> \in Seq(Message)
    OBVIOUS
<1>2. \A s \in Seq(Message) : CountIn(s, P) \in Nat
    BY CountType
<1>3. ASSUME IOType
      PROVE  /\ sending \in Seq(Message) /\ sendQueue \in Seq(Message)
             /\ queue.pending \in Seq(Message) /\ outputQueue \in Seq(Message)
    BY <1>1, <1>3 DEF IOType
<1>4. ASSUME IOType'
      PROVE  /\ sending' \in Seq(Message) /\ sendQueue' \in Seq(Message)
             /\ queue'.pending \in Seq(Message) /\ outputQueue' \in Seq(Message)
    BY <1>1, <1>4 DEF IOType
<1>5. ASSUME IOType'
      PROVE  /\ CountIn(sending', P) \in Nat /\ CountIn(sendQueue', P) \in Nat
             /\ CountIn(queue'.pending, P) \in Nat /\ CountIn(outputQueue', P) \in Nat
    BY <1>2, <1>4, <1>5
<1>6. IOType' => Total(P)' \in Nat
    BY <1>5 DEF Total, CountIn
<1>. QED
    BY <1>2, <1>3, <1>6 DEF Total

(* The program counters move: inHandler never comes back from waiting for  *)
(* its reject message, and the handlers are started once.                  *)
PcMoves ==
    /\ pc' = [g \in PeerGoroutine |-> pc'[g]]
    /\ pc["in"] \in {"await", "close", "done"} => pc'["in"] \in {"await", "close", "done"}
    /\ pc["start"] = "done" => pc'["start"] = "done"
    /\ pc'["start"] # "done" => \A g \in Handler : pc'[g] = pc[g]

(* outHandler neither takes a message nor reports one.                     *)
OutIdle ==
    /\ pc["out"] # "sendDone" => pc'["out"] # "sendDone"
    /\ pc["out"] \in {"control", "write"} <=> pc'["out"] \in {"control", "write"}

(* Started holds whatever else a step does.                                *)
LEMMA StartedKept == IOInv /\ PcMoves => Started'
BY DEF IOInv, Started, PcMoves

(* One goroutine moves, which is a handler only after start.               *)
LEMMA GoMoves ==
    ASSUME IOInv, NEW g \in PeerGoroutine, NEW l, Go(g, l),
           g \in Handler => pc[g] # "off",
           g = "in" /\ pc["in"] \in {"await", "close", "done"} => l \in {"await", "close", "done"},
           g = "start" => l = "done"
    PROVE  /\ PcMoves
           /\ pc'[g] = l
           /\ \A h \in PeerGoroutine \ {g} : pc'[h] = pc[h]
<1>1. pc' = [pc EXCEPT ![g] = l]
    BY DEF Go
<1>2. pc = [h \in PeerGoroutine |-> pc[h]]
    BY DEF IOInv, IOType
<1>3. pc'[g] = l /\ (\A h \in PeerGoroutine \ {g} : pc'[h] = pc[h])
    BY <1>1, <1>2
<1>4. pc' = [h \in PeerGoroutine |-> pc'[h]]
    BY <1>1, <1>2
<1>5. Handler \subseteq PeerGoroutine /\ "start" \in PeerGoroutine /\ "in" \in PeerGoroutine /\ "start" \notin Handler
    BY DEF PeerGoroutine, Handler
<1>6. pc["in"] \in {"await", "close", "done"} => pc'["in"] \in {"await", "close", "done"}
    BY <1>3, <1>5
<1>7. pc["start"] = "done" => pc'["start"] = "done"
    BY <1>3, <1>5
<1>8. pc'["start"] # "done" => \A h \in Handler : pc'[h] = pc[h]
    <2>. SUFFICES ASSUME pc'["start"] # "done" PROVE \A h \in Handler : pc'[h] = pc[h]
        OBVIOUS
    <2>1. g # "start" /\ pc["start"] # "done"
        BY <1>3, <1>5
    <2>2. g \notin Handler
        BY <2>1 DEF IOInv, Started
    <2>. QED
        BY <1>3, <1>5, <2>2
<1>. QED
    BY <1>3, <1>4, <1>6, <1>7, <1>8 DEF PcMoves

(* A step that loses no reject message unreported and announces nothing that *)
(* was not in a message.                                                   *)
LEMMA DrainKeeps ==
    ASSUME IOInv, IOType', PcMoves,
           doneChan' + Total(Rejects)' = doneChan + Total(Rejects),
           \A i \in Item : announced'[i] + Total(Carrying(i))' =< announced[i] + Total(Carrying(i)),
           knownInventory \subseteq knownInventory'
    PROVE  RejectOnce' /\ ItemOnce'
<1>1. RejectOnce'
    BY DEF IOInv, RejectOnce, PcMoves
<1>2. ASSUME NEW i \in Item
      PROVE  /\ announced'[i] + Total(Carrying(i))' =< 1
             /\ i \notin knownInventory' => announced'[i] + Total(Carrying(i))' = 0
    <2>1. announced[i] \in Nat /\ announced'[i] \in Nat
        BY DEF IOInv, IOType
    <2>2. Total(Carrying(i)) \in Nat
        BY TotalType DEF IOInv
    <2>3. Total(Carrying(i))' \in Nat
        BY TotalType
    <2>4. /\ announced[i] + Total(Carrying(i)) =< 1
          /\ i \notin knownInventory => announced[i] + Total(Carrying(i)) = 0
        BY DEF IOInv, ItemOnce
    <2>. HIDE DEF Total
    <2>. QED
        BY <2>1, <2>2, <2>3, <2>4
<1>3. ItemOnce'
    BY <1>2 DEF ItemOnce
<1>. QED
    BY <1>1, <1>3

(* A step that leaves every message where it is.                           *)
LEMMA PeerQuiet ==
    ASSUME IOInv, PcMoves, OutIdle, disc' \in BOOLEAN,
           UNCHANGED <<outputQueue, outputInvChan, queue, sendQueue, sending, sendDone,
                       doneChan, announced>>,
           knownInventory \subseteq knownInventory' /\ knownInventory' \subseteq Item
    PROVE  IOInv'
<1>1. IOType'
    BY DEF IOInv, IOType, PcMoves
<1>2. OneMessage'
    BY DEF IOInv, OneMessage, OutIdle
<1>3. ASSUME NEW P PROVE Total(P)' = Total(P)
    BY DEF Total, CountIn
<1>4. \A i \in Item : announced'[i] + Total(Carrying(i))' =< announced[i] + Total(Carrying(i))
    <2>. TAKE i \in Item
    <2>1. announced[i] \in Nat
        BY DEF IOInv, IOType
    <2>2. Total(Carrying(i)) \in Nat
        BY TotalType DEF IOInv
    <2>. QED
        BY <1>3, <2>1, <2>2
<1>5. doneChan' + Total(Rejects)' = doneChan + Total(Rejects)
    BY <1>3
<1>6. RejectOnce' /\ ItemOnce'
    BY <1>1, <1>4, <1>5, DrainKeeps
<1>. QED
    BY <1>1, <1>2, <1>6, StartedKept DEF IOInv

(* A plain message is appended to outputQueue.                             *)
LEMMA PlainStep ==
    ASSUME IOInv, PcMoves, OutIdle, disc' \in BOOLEAN,
           outputQueue' = Append(outputQueue, Msg("plain")),
           UNCHANGED <<outputInvChan, queue, sendQueue, sending, sendDone, doneChan,
                       knownInventory, announced>>
    PROVE  IOInv'
<1>1. IOType'
    BY MsgType DEF IOInv, IOType, PcMoves
<1>2. OneMessage'
    BY DEF IOInv, OneMessage, OutIdle
<1>3. ASSUME NEW P \in {Rejects} \cup {Carrying(i) : i \in Item}
      PROVE  Total(P)' = Total(P) /\ Total(P) \in Nat
    <2>1. Msg("plain") \notin P /\ Msg("plain") \in Message
        BY MsgType
    <2>2. CountIn(outputQueue', P) = CountIn(outputQueue, P) + 0
        BY <2>1, CountAppend DEF IOInv, IOType
    <2>3. CountIn(outputQueue, P) \in Nat /\ Total(P) \in Nat
        BY TotalType DEF IOInv
    <2>4. Total(P)' = CountIn(sending, P) + CountIn(sendQueue, P) + CountIn(queue.pending, P)
                        + CountIn(outputQueue', P)
        BY DEF Total, CountIn
    <2>. QED
        BY <2>2, <2>3, <2>4 DEF Total
<1>4. \A i \in Item : announced'[i] + Total(Carrying(i))' =< announced[i] + Total(Carrying(i))
    <2>. TAKE i \in Item
    <2>1. announced[i] \in Nat
        BY DEF IOInv, IOType
    <2>. QED
        BY <1>3, <2>1
<1>5. doneChan' + Total(Rejects)' = doneChan + Total(Rejects)
    BY <1>3
<1>6. RejectOnce' /\ ItemOnce'
    BY <1>1, <1>4, <1>5, DrainKeeps
<1>. QED
    BY <1>1, <1>2, <1>6, StartedKept DEF IOInv

(* Moving messages from one place to the next keeps what is counted.       *)
LEMMA MoveStep ==
    ASSUME IOInv, IOType', PcMoves, OneMessage', \A P : Total(P)' = Total(P),
           UNCHANGED <<doneChan, announced, knownInventory>>
    PROVE  IOInv'
<1>1. \A i \in Item : announced'[i] + Total(Carrying(i))' =< announced[i] + Total(Carrying(i))
    <2>. TAKE i \in Item
    <2>1. announced[i] \in Nat
        BY DEF IOInv, IOType
    <2>2. Total(Carrying(i)) \in Nat
        BY TotalType DEF IOInv
    <2>. QED
        BY <2>1, <2>2
<1>2. doneChan' + Total(Rejects)' = doneChan + Total(Rejects)
    OBVIOUS
<1>3. RejectOnce' /\ ItemOnce'
    BY <1>1, <1>2, DrainKeeps
<1>. QED
    BY <1>3, StartedKept DEF IOInv


-----------------------------------------------------------------------------
(* The goroutines, for the steps that name them.                           *)
LEMMA PeerGoroutines ==
    /\ Handler = {"in", "queue", "out", "stall"}
    /\ PeerGoroutine = {"negotiate", "start", "caller", "in", "queue", "out", "stall"}
BY DEF Handler, PeerGoroutine

(* A step in which no goroutine moves.                                     *)
LEMMA NobodyMoves == ASSUME IOInv, pc' = pc PROVE PcMoves /\ OutIdle
BY DEF IOInv, IOType, PcMoves, OutIdle

(* A step of a goroutine other than outHandler leaves outHandler idle.     *)
LEMMA OthersMove ==
    ASSUME IOInv, NEW g \in PeerGoroutine \ {"out"}, NEW l, Go(g, l),
           g \in Handler => pc[g] # "off",
           g = "in" /\ pc["in"] \in {"await", "close", "done"} => l \in {"await", "close", "done"},
           g = "start" => l = "done"
    PROVE  PcMoves /\ OutIdle
<1>1. PcMoves /\ (\A h \in PeerGoroutine \ {g} : pc'[h] = pc[h])
    BY GoMoves
<1>2. pc'["out"] = pc["out"]
    BY <1>1, PeerGoroutines
<1>. QED
    BY <1>1, <1>2 DEF OutIdle

(* Disconnect and the negotiation touch no message.                        *)
LEMMA NegotiationKeeps ==
    ASSUME IOInv, DisconnectPeer \/ NegotiateStep
    PROVE  IOInv'
<1>0. disc \in BOOLEAN /\ knownInventory \subseteq Item
    BY DEF IOInv, IOType
<1>1. CASE DisconnectPeer
    <2>1. pc' = pc /\ disc' \in BOOLEAN /\ knownInventory' = knownInventory
          /\ UNCHANGED <<outputQueue, outputInvChan, queue, sendQueue, sending, sendDone,
                         doneChan, announced>>
        BY <1>1 DEF DisconnectPeer
    <2>. QED
        BY <1>0, <2>1, NobodyMoves, PeerQuiet
<1>2. CASE NegotiateStep
    <2>1. PICK l : Go("negotiate", l)
        BY <1>2 DEF NegotiateStep, NegotiateWrite, NegotiateRead
    <2>2. PcMoves /\ OutIdle
        BY <2>1, OthersMove, PeerGoroutines
    <2>3. disc' = disc /\ knownInventory' = knownInventory
          /\ UNCHANGED <<outputQueue, outputInvChan, queue, sendQueue, sending, sendDone,
                         doneChan, announced>>
        BY <1>2 DEF NegotiateStep, NegotiateWrite, NegotiateRead, negotiationRest
    <2>. QED
        BY <1>0, <2>2, <2>3, PeerQuiet
<1>. QED
    BY <1>1, <1>2

(* start starts the handlers, which were off, and queues the verack message. *)
LEMMA StartKeeps ==
    ASSUME IOInv, StartStep
    PROVE  IOInv'
<1>0. disc \in BOOLEAN /\ knownInventory \subseteq Item /\ pc = [g \in PeerGoroutine |-> pc[g]]
    BY DEF IOInv, IOType
<1>1. pc["start"] = "wait"
    BY DEF StartStep, StartReceives, StartTimesOut, At
<1>2. pc["in"] = "off" /\ pc["out"] = "off"
    BY <1>1, PeerGoroutines DEF IOInv, Started
<1>3. UNCHANGED <<outputInvChan, queue, sendQueue, sending, sendDone, doneChan,
                  knownInventory, announced>>
    BY DEF StartStep, StartReceives, StartTimesOut, negotiationRest
<1>4. disc' \in BOOLEAN
    BY <1>0 DEF StartStep, StartReceives, StartTimesOut
<1>5. \/ outputQueue' = outputQueue
      \/ outputQueue' = Append(outputQueue, Msg("plain"))
    BY DEF StartStep, StartReceives, StartTimesOut
<1>6. PcMoves /\ OutIdle
    <2>1. CASE pc' = StartHandlers
        <3>1. pc' = [g \in PeerGoroutine |-> pc'[g]]
            BY <2>1, <1>0 DEF StartHandlers
        <3>2. pc'["out"] = "select" /\ pc'["start"] = "done"
            BY <2>1, <1>0, PeerGoroutines DEF StartHandlers
        <3>. QED
            BY <3>1, <3>2, <1>2 DEF PcMoves, OutIdle
    <2>2. CASE pc' = [pc EXCEPT !["start"] = "done", !["negotiate"] = "done"]
        <3>1. pc' = [g \in PeerGoroutine |-> pc'[g]]
            BY <2>2, <1>0
        <3>2. pc'["out"] = "off" /\ pc'["start"] = "done"
            BY <2>2, <1>0, <1>2, PeerGoroutines
        <3>. QED
            BY <3>1, <3>2, <1>2 DEF PcMoves, OutIdle
    <2>3. CASE Go("start", "done")
        BY <2>3, OthersMove, PeerGoroutines
    <2>. QED
        BY <2>1, <2>2, <2>3 DEF StartStep, StartReceives, StartTimesOut
<1>. QED
    BY <1>0, <1>3, <1>4, <1>5, <1>6, PeerQuiet, PlainStep

(* The reject message is reported at once, or it is put into outputQueue:  *)
(* either way it is the first.                                             *)
LEMMA InRejectKeeps ==
    ASSUME IOInv, InReject \/ InPush
    PROVE  IOInv'
<1>0. pc["in"] \in {"reject", "push"}
    BY DEF InReject, InPush, At
<1>1. doneChan + Total(Rejects) = 0 /\ doneChan \in Nat /\ Total(Rejects) \in Nat
      /\ CountIn(outputQueue, Rejects) \in Nat
    BY <1>0, TotalType DEF IOInv, IOType, RejectOnce
<1>2. PICK l \in {"await", "push"} : Go("in", l) /\ (l = "push" => doneChan' = doneChan /\ outputQueue' = outputQueue)
    BY DEF InReject, InPush
<1>3. PcMoves /\ OutIdle /\ pc'["in"] = l
    <2>1. "in" \in PeerGoroutine \ {"out"} /\ pc["in"] # "off"
        BY <1>0, PeerGoroutines
    <2>2. PcMoves /\ OutIdle
        BY <1>0, <1>2, <2>1, OthersMove
    <2>3. pc'["in"] = l
        BY <1>0, <1>2, <2>1, GoMoves
    <2>. QED
        BY <2>2, <2>3
<1>4. UNCHANGED <<disc, outputInvChan, queue, sendQueue, sending, sendDone, knownInventory, announced>>
    BY DEF InReject, InPush, inRest
<1>5. \/ outputQueue' = outputQueue /\ (doneChan' = doneChan \/ doneChan' = doneChan + 1)
      \/ outputQueue' = Append(outputQueue, Msg("reject")) /\ doneChan' = doneChan
    BY DEF InReject, InPush
<1>6. IOType'
    <2>1. doneChan' \in Nat
        BY <1>1, <1>5
    <2>2. outputQueue' \in Seq(Message)
        <3>1. outputQueue \in Seq(Message) /\ Msg("reject") \in Message
            BY MsgType DEF IOInv, IOType
        <3>. QED
            BY <1>5, <3>1
    <2>. QED
        BY <1>3, <1>4, <2>1, <2>2 DEF IOInv, IOType, PcMoves
<1>7. OneMessage'
    BY <1>3, <1>4 DEF IOInv, OneMessage, OutIdle
<1>8. ASSUME NEW P
      PROVE  Total(P)' = CountIn(sending, P) + CountIn(sendQueue, P) + CountIn(queue.pending, P)
                           + CountIn(outputQueue', P)
    BY <1>4 DEF Total, CountIn
<1>9. ASSUME NEW P, outputQueue' = Append(outputQueue, Msg("reject"))
      PROVE  Total(P)' = Total(P) + (IF Msg("reject") \in P THEN 1 ELSE 0)
    <2>1. outputQueue \in Seq(Message) /\ Msg("reject") \in Message
        BY MsgType DEF IOInv, IOType
    <2>2. CountIn(outputQueue', P) = CountIn(outputQueue, P) + (IF Msg("reject") \in P THEN 1 ELSE 0)
        BY <1>9, <2>1, CountAppend
    <2>3. /\ CountIn(sending, P) \in Nat /\ CountIn(sendQueue, P) \in Nat
          /\ CountIn(queue.pending, P) \in Nat /\ CountIn(outputQueue, P) \in Nat
        BY TotalType DEF IOInv
    <2>. QED
        BY <1>8, <2>2, <2>3 DEF Total
<1>10. ASSUME NEW P, outputQueue' = outputQueue
       PROVE  Total(P)' = Total(P)
    BY <1>8, <1>10 DEF Total
<1>11. RejectOnce'
    <2>1. CASE outputQueue' = outputQueue /\ (doneChan' = doneChan \/ doneChan' = doneChan + 1)
        <3>0. Total(Rejects)' = Total(Rejects)
            BY <1>10, <2>1
        <3>a. doneChan = 0 /\ Total(Rejects) = 0
            BY <1>1
        <3>b. l = "push" => doneChan' = doneChan
            BY <1>2
        <3>1. Total(Rejects)' = 0 /\ (doneChan' = 0 \/ doneChan' = 1) /\ (l = "push" => doneChan' = 0)
            BY <2>1, <3>0, <3>a, <3>b
        <3>2. doneChan' + Total(Rejects)' =< 1
            BY <3>1
        <3>3. l = "push" => doneChan' + Total(Rejects)' = 0
            BY <3>1
        <3>. QED
            BY <1>3, <3>2, <3>3 DEF RejectOnce
    <2>2. CASE outputQueue' = Append(outputQueue, Msg("reject")) /\ doneChan' = doneChan
        <3>1. Total(Rejects)' = Total(Rejects) + 1
            BY <1>9, <2>2, MsgType
        <3>2. Total(Rejects)' = 1 /\ doneChan' = 0
            BY <1>1, <2>2, <3>1
        <3>3. l # "push"
            <4>. SUFFICES ASSUME l = "push" PROVE FALSE
                OBVIOUS
            <4>1. Total(Rejects)' = Total(Rejects)
                BY <1>2, <1>10
            <4>. QED
                BY <1>1, <3>1, <4>1
        <3>. QED
            BY <1>3, <3>2, <3>3 DEF RejectOnce
    <2>. QED
        BY <1>5, <2>1, <2>2
<1>12. ItemOnce'
    <2>1. ASSUME NEW j \in Item PROVE Total(Carrying(j))' = Total(Carrying(j))
        <3>1. Total(Carrying(j)) \in Nat
            BY TotalType DEF IOInv
        <3>2. CASE outputQueue' = outputQueue
            BY <3>2, <1>10
        <3>3. CASE outputQueue' = Append(outputQueue, Msg("reject"))
            BY <3>1, <3>3, <1>9, MsgType
        <3>. QED
            BY <1>5, <3>2, <3>3
    <2>. QED
        BY <1>4, <2>1 DEF IOInv, ItemOnce
<1>. QED
    BY <1>3, <1>6, <1>7, <1>11, <1>12, StartedKept DEF IOInv

(* inHandler.                                                              *)
LEMMA InKeeps ==
    ASSUME IOInv, InStep
    PROVE  IOInv'
<1>0. disc \in BOOLEAN /\ knownInventory \subseteq Item
    BY DEF IOInv, IOType
<1>1. CASE InReject \/ InPush
    BY <1>1, InRejectKeeps
<1>2. CASE InPong
    <2>1. pc["in"] = "pong" /\ Go("in", "handled")
        BY <1>2 DEF InPong, At
    <2>2. PcMoves /\ OutIdle
        BY <2>1, OthersMove, PeerGoroutines
    <2>3. outputQueue' = Append(outputQueue, Msg("plain")) /\ disc' = disc
          /\ UNCHANGED <<outputInvChan, queue, sendQueue, sending, sendDone, doneChan,
                         knownInventory, announced>>
        BY <1>2 DEF InPong, inRest
    <2>. QED
        BY <1>0, <2>2, <2>3, PlainStep
<1>3. CASE InRead \/ InReadFails \/ InControl \/ InHandle \/ InAwait \/ InClose
    <2>1. PICK l : Go("in", l) /\ (pc["in"] \in {"await", "close", "done"} => l \in {"await", "close", "done"})
        BY <1>3 DEF InRead, InReadFails, InControl, InHandle, InAwait, InClose, At
    <2>2. pc["in"] # "off"
        BY <1>3 DEF InRead, InReadFails, InControl, InHandle, InAwait, InClose, At
    <2>3. PcMoves /\ OutIdle
        BY <2>1, <2>2, OthersMove, PeerGoroutines
    <2>4. UNCHANGED <<outputQueue, outputInvChan, queue, sendQueue, sending, sendDone,
                      doneChan, announced>>
        BY <1>3 DEF InRead, InReadFails, InControl, InHandle, InAwait, InClose, inRest
    <2>5. disc' \in BOOLEAN
        BY <1>3, <1>0 DEF InRead, InReadFails, InControl, InHandle, InAwait, InClose
    <2>6. knownInventory \subseteq knownInventory' /\ knownInventory' \subseteq Item
        <3>1. CASE InHandle
            <4>1. knownInventory' \in {knownInventory \union {i} : i \in Item} \cup {knownInventory}
                BY <3>1 DEF InHandle
            <4>. QED
                BY <1>0, <4>1
        <3>2. CASE knownInventory' = knownInventory
            BY <1>0, <3>2
        <3>. QED
            BY <1>3, <3>1, <3>2 DEF InRead, InReadFails, InControl, InAwait, InClose
    <2>. QED
        BY <2>3, <2>4, <2>5, <2>6, PeerQuiet
<1>. QED
    BY <1>1, <1>2, <1>3 DEF InStep

(* stallHandler and the goroutines that call the peer.                     *)
LEMMA OthersKeep ==
    ASSUME IOInv, StallStep \/ CallerStep
    PROVE  IOInv'
<1>0. disc \in BOOLEAN /\ knownInventory \subseteq Item
    BY DEF IOInv, IOType
<1>1. disc' = disc /\ UNCHANGED <<queue, sendQueue, sending, sendDone, doneChan,
                                  knownInventory, announced>>
    BY DEF StallStep, StallControl, StallQuits, stallRest, CallerStep, QueueMessage,
           QueueInventory, callerRest
<1>2. PcMoves /\ OutIdle
    <2>1. CASE pc' = pc
        BY <2>1, NobodyMoves
    <2>2. CASE pc["stall"] = "run" /\ Go("stall", "done")
        BY <2>2, OthersMove, PeerGoroutines
    <2>3. ASSUME NEW l, Go("caller", l) PROVE PcMoves /\ OutIdle
        BY <2>3, OthersMove, PeerGoroutines
    <2>4. \/ pc' = pc
          \/ pc["stall"] = "run" /\ Go("stall", "done")
          \/ \E l : Go("caller", l)
        BY DEF StallStep, StallControl, StallQuits, CallerStep, QueueMessage, QueueInventory, At
    <2>. QED
        BY <2>1, <2>2, <2>3, <2>4
<1>3. CASE outputQueue' = Append(outputQueue, Msg("plain")) /\ outputInvChan' = outputInvChan
    BY <1>0, <1>1, <1>2, <1>3, PlainStep
<1>4. CASE outputQueue' = outputQueue /\ outputInvChan' \in Seq(Item)
    <2>1. IOType'
        BY <1>0, <1>1, <1>2, <1>4 DEF IOInv, IOType, PcMoves
    <2>2. OneMessage'
        BY <1>1, <1>2 DEF IOInv, OneMessage, OutIdle
    <2>3. \A P : Total(P)' = Total(P)
        BY <1>1, <1>4 DEF Total, CountIn
    <2>. QED
        BY <1>1, <1>2, <2>1, <2>2, <2>3, MoveStep
<1>5. \/ outputQueue' = Append(outputQueue, Msg("plain")) /\ outputInvChan' = outputInvChan
      \/ outputQueue' = outputQueue /\ outputInvChan' \in Seq(Item)
    <2>1. outputInvChan \in Seq(Item)
        BY DEF IOInv, IOType
    <2>2. \A i \in Item : Append(outputInvChan, i) \in Seq(Item)
        BY <2>1
    <2>3. CASE StallStep
        BY <2>1, <2>3 DEF StallStep, StallControl, StallQuits, stallRest
    <2>4. CASE QueueMessage
        BY <2>1, <2>4 DEF QueueMessage
    <2>5. ASSUME NEW i \in Item, QueueInventory(i)
          PROVE  outputQueue' = outputQueue /\ outputInvChan' \in Seq(Item)
        BY <2>1, <2>2, <2>5 DEF QueueInventory
    <2>. QED
        BY <2>3, <2>4, <2>5 DEF CallerStep
<1>. QED
    BY <1>3, <1>4, <1>5

-----------------------------------------------------------------------------
(* What is counted after a step.                                           *)
LEMMA TotalNext ==
    ASSUME NEW P
    PROVE  Total(P)' = CountIn(sending', P) + CountIn(sendQueue', P) + CountIn(queue'.pending, P)
                         + CountIn(outputQueue', P)
BY DEF Total, CountIn

(* Nothing is counted in the empty sequence.                               *)
LEMMA CountEmpty == ASSUME NEW P PROVE CountIn(<<>>, P) = 0
BY FS_EmptySet DEF CountIn

(* A sequence of one message, alone and at the end of another.             *)
LEMMA OneAtTheEnd ==
    ASSUME NEW S, NEW m \in S, NEW s \in Seq(S)
    PROVE  /\ <<m>> \in Seq(S) /\ Tail(<<m>>) = <<>> /\ SubSeq(<<m>>, 1, 1) = <<m>>
           /\ s \o <<>> = s /\ s \o <<m>> \in Seq(S)
           /\ \A P : CountIn(s \o <<m>>, P) = CountIn(s, P) + CountIn(<<m>>, P)
<1>1. <<m>> \in Seq(S) /\ <<m>> # <<>> /\ Len(<<m>>) = 1
    OBVIOUS
<1>2. SubSeq(<<m>>, 1, 1) = <<<<m>>[1]>> /\ <<m>>[1] = m
    BY <1>1, CountTail
<1>3. Tail(<<m>>) \in Seq(S) /\ Len(Tail(<<m>>)) = 0
    BY <1>1
<1>4. Tail(<<m>>) = <<>>
    BY <1>3, EmptySeq
<1>5. s \o <<>> = s
    BY ConcatEmptySeq
<1>6. s \o <<m>> \in Seq(S)
    BY <1>1, ConcatProperties
<1>7. \A P : CountIn(s \o <<m>>, P) = CountIn(s, P) + CountIn(<<m>>, P)
    BY <1>1, CountConcat
<1>. QED
    BY <1>1, <1>2, <1>4, <1>5, <1>6, <1>7

(* queueHandler takes a message from outputQueue: it waits, or it is the one *)
(* on its way.                                                             *)
LEMMA QueueTakesKeeps ==
    ASSUME IOInv, QueueTakes
    PROVE  IOInv'
<1>. DEFINE m == outputQueue[1]
<1>1. /\ sending \in Seq(Message) /\ sendQueue \in Seq(Message)
      /\ queue.pending \in Seq(Message) /\ outputQueue \in Seq(Message)
    BY TotalType DEF IOInv
<1>2. /\ outputQueue # <<>> /\ outputQueue' = Tail(outputQueue) /\ pc' = pc /\ disc' = disc
      /\ UNCHANGED <<sending, outputInvChan, sendDone, doneChan, knownInventory, announced>>
    BY DEF QueueTakes, queueRest
<1>3. SubSeq(outputQueue, 1, 1) = <<m>> /\ m \in Message /\ Tail(outputQueue) \in Seq(Message)
    BY <1>1, <1>2, CountTail
<1>4. Tail(<<m>>) = <<>> /\ SubSeq(<<m>>, 1, 1) = <<m>> /\ queue.pending \o <<>> = queue.pending
      /\ <<m>> \in Seq(Message) /\ queue.pending \o <<m>> \in Seq(Message)
    BY <1>1, <1>3, OneAtTheEnd
<1>. HIDE DEF m
<1>5. \/ /\ queue.waiting /\ sendQueue' = sendQueue
         /\ queue' = [queue EXCEPT !.pending = queue.pending \o <<m>>]
      \/ /\ ~queue.waiting /\ sendQueue = <<>> /\ sendQueue' = <<m>>
         /\ queue' = [queue EXCEPT !.pending = queue.pending, !.waiting = TRUE]
    BY <1>3, <1>4 DEF QueueTakes, QueuePackets
<1>6. queue \in [pending : Seq(Message), waiting : BOOLEAN, inv : Seq(Item)]
    BY DEF IOInv, IOType
<1>7. /\ queue' \in [pending : Seq(Message), waiting : BOOLEAN, inv : Seq(Item)]
      /\ queue'.waiting
      /\ \/ queue'.pending = queue.pending \o <<m>> /\ sendQueue' = sendQueue /\ queue.waiting
         \/ queue'.pending = queue.pending /\ sendQueue = <<>> /\ sendQueue' = <<m>> /\ ~queue.waiting
    BY <1>4, <1>5, <1>6
<1>8. IOType'
    BY <1>2, <1>3, <1>7 DEF IOInv, IOType
<1>9. OneMessage'
    BY <1>2, <1>7 DEF IOInv, OneMessage
<1>10. ASSUME NEW P PROVE Total(P)' = Total(P)
    <2>1. CountIn(<<m>>, P) + CountIn(outputQueue', P) = CountIn(outputQueue, P)
        BY <1>1, <1>2, <1>3, CountTail
    <2>2. CountIn(queue.pending \o <<m>>, P) = CountIn(queue.pending, P) + CountIn(<<m>>, P)
        BY <1>1, <1>3, OneAtTheEnd
    <2>3. /\ CountIn(sending, P) \in Nat /\ CountIn(sendQueue, P) \in Nat
          /\ CountIn(queue.pending, P) \in Nat /\ CountIn(outputQueue, P) \in Nat
          /\ CountIn(outputQueue', P) \in Nat /\ CountIn(<<m>>, P) \in Nat
        BY <1>1, <1>2, <1>3, <1>4, CountType
    <2>4. CASE queue'.pending = queue.pending \o <<m>> /\ sendQueue' = sendQueue
        <3>1. Total(P)' = CountIn(sending, P) + CountIn(sendQueue, P)
                            + CountIn(queue.pending \o <<m>>, P) + CountIn(outputQueue', P)
            BY <1>2, <2>4, TotalNext
        <3>. QED
            BY <2>1, <2>2, <2>3, <3>1 DEF Total
    <2>5. CASE queue'.pending = queue.pending /\ sendQueue = <<>> /\ sendQueue' = <<m>>
        <3>1. Total(P)' = CountIn(sending, P) + CountIn(<<m>>, P)
                            + CountIn(queue.pending, P) + CountIn(outputQueue', P)
            BY <1>2, <2>5, TotalNext
        <3>2. CountIn(sendQueue, P) = 0
            BY <2>5, CountEmpty
        <3>. QED
            BY <2>1, <2>3, <3>1, <3>2 DEF Total
    <2>. QED
        BY <1>7, <2>4, <2>5
<1>. QED
    BY <1>2, <1>8, <1>9, <1>10, NobodyMoves, MoveStep

(* The previous message was written: the next one follows.                 *)
LEMMA QueueSendDoneKeeps ==
    ASSUME IOInv, QueueSendDone
    PROVE  IOInv'
<1>1. /\ sending \in Seq(Message) /\ sendQueue \in Seq(Message)
      /\ queue.pending \in Seq(Message) /\ outputQueue \in Seq(Message)
    BY TotalType DEF IOInv
<1>2. /\ sendDone /\ sendDone' = FALSE /\ pc' = pc /\ disc' = disc
      /\ UNCHANGED <<sending, outputQueue, outputInvChan, doneChan, knownInventory, announced>>
    BY DEF QueueSendDone, queueRest
<1>3. queue.waiting /\ sendQueue = <<>> /\ sending = <<>> /\ pc["out"] # "sendDone"
    BY <1>2 DEF IOInv, OneMessage
<1>4. queue \in [pending : Seq(Message), waiting : BOOLEAN, inv : Seq(Item)]
    BY DEF IOInv, IOType
<1>5. CASE queue.pending = <<>>
    <2>1. /\ queue' \in [pending : Seq(Message), waiting : BOOLEAN, inv : Seq(Item)]
          /\ queue'.pending = queue.pending /\ sendQueue' = sendQueue
        BY <1>4, <1>5 DEF QueueSendDone
    <2>2. IOType'
        BY <1>2, <2>1 DEF IOInv, IOType
    <2>3. OneMessage'
        BY <1>2, <1>3, <1>5, <2>1 DEF IOInv, OneMessage
    <2>4. \A P : Total(P)' = Total(P)
        BY <1>2, <2>1, TotalNext DEF Total
    <2>. QED
        BY <1>2, <2>2, <2>3, <2>4, NobodyMoves, MoveStep
<1>6. CASE queue.pending # <<>>
    <2>. DEFINE m == queue.pending[1]
    <2>1. SubSeq(queue.pending, 1, 1) = <<m>> /\ m \in Message /\ Tail(queue.pending) \in Seq(Message)
        BY <1>1, <1>6, CountTail
    <2>2. /\ queue' \in [pending : Seq(Message), waiting : BOOLEAN, inv : Seq(Item)]
          /\ queue'.pending = Tail(queue.pending) /\ queue'.waiting /\ sendQueue' = <<m>>
        BY <1>3, <1>4, <1>6, <2>1 DEF QueueSendDone
    <2>. HIDE DEF m
    <2>3. IOType'
        BY <1>2, <2>1, <2>2 DEF IOInv, IOType
    <2>4. OneMessage'
        BY <1>2, <1>3, <2>2 DEF IOInv, OneMessage
    <2>5. ASSUME NEW P PROVE Total(P)' = Total(P)
        <3>1. CountIn(<<m>>, P) + CountIn(Tail(queue.pending), P) = CountIn(queue.pending, P)
            BY <1>1, <1>6, <2>1, CountTail
        <3>2. <<m>> \in Seq(Message)
            BY <2>1
        <3>3. /\ CountIn(sending, P) \in Nat /\ CountIn(queue.pending, P) \in Nat
              /\ CountIn(outputQueue, P) \in Nat /\ CountIn(<<m>>, P) \in Nat
              /\ CountIn(Tail(queue.pending), P) \in Nat /\ CountIn(sendQueue, P) = 0
            BY <1>1, <1>3, <2>1, <3>2, CountType, CountEmpty
        <3>4. Total(P)' = CountIn(sending, P) + CountIn(<<m>>, P) + CountIn(Tail(queue.pending), P)
                            + CountIn(outputQueue, P)
            BY <1>2, <2>2, TotalNext
        <3>. QED
            BY <3>1, <3>3, <3>4 DEF Total
    <2>. QED
        BY <1>2, <2>3, <2>4, <2>5, NobodyMoves, MoveStep
<1>. QED
    BY <1>5, <1>6

(* queueHandler takes an item, or drops it before the version is known.    *)
LEMMA QueueTakesInvKeeps ==
    ASSUME IOInv, QueueTakesInv
    PROVE  IOInv'
<1>1. outputInvChan \in Seq(Item) /\ queue \in [pending : Seq(Message), waiting : BOOLEAN, inv : Seq(Item)]
    BY DEF IOInv, IOType
<1>2. /\ outputInvChan # <<>> /\ outputInvChan' = Tail(outputInvChan) /\ pc' = pc /\ disc' = disc
      /\ UNCHANGED <<sendQueue, sending, sendDone, outputQueue, doneChan, knownInventory, announced>>
    BY DEF QueueTakesInv, queueRest
<1>3. outputInvChan[1] \in Item /\ Tail(outputInvChan) \in Seq(Item)
    BY <1>1, <1>2, CountTail
<1>4. Append(queue.inv, outputInvChan[1]) \in Seq(Item)
    BY <1>1, <1>3
<1>5. /\ queue' \in [pending : Seq(Message), waiting : BOOLEAN, inv : Seq(Item)]
      /\ queue'.pending = queue.pending /\ queue'.waiting = queue.waiting
    BY <1>1, <1>4 DEF QueueTakesInv
<1>6. IOType'
    BY <1>2, <1>3, <1>5 DEF IOInv, IOType
<1>7. OneMessage'
    BY <1>2, <1>5 DEF IOInv, OneMessage
<1>8. \A P : Total(P)' = Total(P)
    BY <1>2, <1>5, TotalNext DEF Total
<1>. QED
    BY <1>2, <1>6, <1>7, <1>8, NobodyMoves, MoveStep

(* What is drained is reported.                                            *)
LEMMA QueueQuitsKeeps ==
    ASSUME IOInv, QueueQuits
    PROVE  IOInv'
<1>1. /\ sending \in Seq(Message) /\ sendQueue \in Seq(Message)
      /\ queue.pending \in Seq(Message) /\ outputQueue \in Seq(Message)
    BY TotalType DEF IOInv
<1>2. /\ pc["queue"] = "run" /\ Go("queue", "done") /\ disc' = disc
      /\ doneChan' = doneChan + Signals(queue.pending) + Signals(outputQueue)
      /\ queue' = [queue EXCEPT !.pending = <<>>] /\ outputQueue' = <<>> /\ outputInvChan' = <<>>
      /\ UNCHANGED <<sendQueue, sending, sendDone, knownInventory, announced>>
    BY DEF QueueQuits, queueRest, At
<1>3. PcMoves /\ OutIdle
    BY <1>2, OthersMove, PeerGoroutines
<1>4. queue \in [pending : Seq(Message), waiting : BOOLEAN, inv : Seq(Item)] /\ doneChan \in Nat
    BY DEF IOInv, IOType
<1>5. /\ queue' \in [pending : Seq(Message), waiting : BOOLEAN, inv : Seq(Item)]
      /\ queue'.pending = <<>> /\ queue'.waiting = queue.waiting
    <2>1. queue' = [queue EXCEPT !.pending = <<>>] /\ <<>> \in Seq(Message)
        BY <1>2
    <2>. QED
        BY <1>4, <2>1
<1>6. Signals(queue.pending) = CountIn(queue.pending, Rejects)
      /\ Signals(outputQueue) = CountIn(outputQueue, Rejects)
    BY <1>1, SignalsCount
<1>7. ASSUME NEW P
      PROVE  /\ CountIn(sending, P) \in Nat /\ CountIn(sendQueue, P) \in Nat
             /\ CountIn(queue.pending, P) \in Nat /\ CountIn(outputQueue, P) \in Nat
             /\ Total(P)' = CountIn(sending, P) + CountIn(sendQueue, P)
    <2>1. /\ CountIn(sending, P) \in Nat /\ CountIn(sendQueue, P) \in Nat
          /\ CountIn(queue.pending, P) \in Nat /\ CountIn(outputQueue, P) \in Nat
        BY <1>1, CountType
    <2>2. Total(P)' = CountIn(sending, P) + CountIn(sendQueue, P) + CountIn(<<>>, P) + CountIn(<<>>, P)
        BY <1>2, <1>5, TotalNext
    <2>. QED
        BY <2>1, <2>2, CountEmpty
<1>8. IOType'
    <2>1. doneChan' \in Nat
        BY <1>2, <1>4, <1>6, <1>7
    <2>. QED
        BY <1>2, <1>3, <1>5, <2>1 DEF IOInv, IOType, PcMoves
<1>9. OneMessage'
    BY <1>2, <1>3, <1>5 DEF IOInv, OneMessage, OutIdle
<1>10. doneChan' + Total(Rejects)' = doneChan + Total(Rejects)
    BY <1>2, <1>4, <1>6, <1>7 DEF Total
<1>11. \A i \in Item : announced'[i] + Total(Carrying(i))' =< announced[i] + Total(Carrying(i))
    <2>. TAKE i \in Item
    <2>1. announced[i] \in Nat /\ announced' = announced
        BY <1>2 DEF IOInv, IOType
    <2>. QED
        BY <1>7, <2>1 DEF Total
<1>12. RejectOnce' /\ ItemOnce'
    BY <1>2, <1>3, <1>8, <1>10, <1>11, DrainKeeps
<1>. QED
    BY <1>3, <1>8, <1>9, <1>12, StartedKept DEF IOInv

-----------------------------------------------------------------------------
(* A quotient is a natural number, and zero until the dividend reaches the *)
(* divisor.                                                                *)
LEMMA QuotientPositive ==
    ASSUME NEW a \in Nat, NEW d \in Nat \ {0}
    PROVE  a \div d \in Nat /\ (a >= d => a \div d >= 1) /\ (a < d => a \div d = 0)
<1>. DEFINE q == a \div d
<1>1. q \in Int /\ d * q =< a /\ a < d * q + d
    OBVIOUS
<1>. HIDE DEF q
<1>2. q >= 0
    <2>. SUFFICES ASSUME q =< -1 PROVE FALSE
        BY <1>1
    <2>1. d * q =< d * (-1)
        BY <1>1
    <2>2. d * q + d =< 0
        BY <1>1, <2>1
    <2>. QED
        BY <1>1, <2>2
<1>3. ASSUME a >= d PROVE q >= 1
    <2>. SUFFICES ASSUME q = 0 PROVE FALSE
        BY <1>1, <1>2
    <2>1. d * q = 0
        OBVIOUS
    <2>. QED
        BY <1>1, <1>3, <2>1
<1>4. ASSUME a < d PROVE q = 0
    <2>. SUFFICES ASSUME q >= 1 PROVE FALSE
        BY <1>1, <1>2
    <2>1. d * q >= d * 1
        BY <1>1
    <2>. QED
        BY <1>1, <1>4, <2>1
<1>. QED
    BY <1>1, <1>2, <1>3, <1>4 DEF q

(* What trickles: items, each once, none of which the peer knows.          *)
LEMMA FreshType ==
    ASSUME NEW inv \in Seq(Item), NEW f \in Fresh(inv)
    PROVE  /\ f \in Seq(Item)
           /\ \A j, k \in DOMAIN f : f[j] = f[k] => j = k
           /\ \A k \in DOMAIN f : f[k] \notin knownInventory
<1>. DEFINE unknown == {k \in DOMAIN inv : /\ inv[k] \notin knownInventory
                                           /\ \A j \in 1..(k - 1) : inv[j] # inv[k]}
            n == Cardinality(unknown)
<1>1. PICK at \in [1..n -> unknown] :
         /\ \A j, k \in DOMAIN at : j < k => at[j] < at[k]
         /\ f = [k \in DOMAIN at |-> inv[at[k]]]
    BY DEF Fresh
<1>2. Len(inv) \in Nat /\ DOMAIN inv = 1..Len(inv)
    BY LenProperties
<1>3. n \in Nat
    <2>1. unknown \in SUBSET (1..Len(inv)) /\ IsFiniteSet(1..Len(inv))
        BY <1>2, FS_Interval
    <2>. HIDE DEF unknown
    <2>2. IsFiniteSet(unknown)
        BY <2>1, FS_Subset
    <2>. QED
        BY <2>2, FS_CardinalityType
<1>4. ASSUME NEW k \in unknown
      PROVE  k \in 1..Len(inv) /\ inv[k] \in Item /\ inv[k] \notin knownInventory
             /\ \A j \in 1..(k - 1) : inv[j] # inv[k]
    BY <1>2, ElementOfSeq
<1>. HIDE DEF unknown, n
<1>5. DOMAIN at = 1..n /\ DOMAIN f = 1..n /\ \A k \in 1..n : at[k] \in unknown /\ f[k] = inv[at[k]]
    BY <1>1
<1>6. f \in [1..n -> Item]
    <2>1. f = [k \in 1..n |-> inv[at[k]]]
        BY <1>1, <1>5
    <2>. QED
        BY <1>4, <1>5, <2>1
<1>7. f \in Seq(Item)
    BY <1>3, <1>6
<1>8. ASSUME NEW j \in 1..n, NEW k \in 1..n, f[j] = f[k], j < k PROVE FALSE
    <2>1. at[j] < at[k] /\ at[j] \in 1..Len(inv) /\ at[k] \in 1..Len(inv)
        BY <1>1, <1>4, <1>5, <1>8
    <2>2. at[j] \in 1..(at[k] - 1)
        BY <2>1, <1>2
    <2>. QED
        BY <1>4, <1>5, <1>8, <2>2
<1>9. ASSUME NEW j \in 1..n, NEW k \in 1..n, f[j] = f[k] PROVE j = k
    <2>1. ~(j < k) /\ ~(k < j)
        BY <1>8, <1>9
    <2>. QED
        BY <1>3, <2>1
<1>. QED
    BY <1>4, <1>5, <1>7, <1>9

(* The inv messages are plain, there is one if there is an item, and an item *)
(* that is only once in f is in at most one of them.                       *)
LEMMA BatchesType ==
    ASSUME NEW f \in Seq(Item), \A j, k \in DOMAIN f : f[j] = f[k] => j = k
    PROVE  /\ Batches(f) \in Seq(Message)
           /\ f # <<>> => Batches(f) # <<>>
           /\ f = <<>> => Batches(f) = <<>>
           /\ CountIn(Batches(f), Rejects) = 0
           /\ \A i \in Item : /\ CountIn(Batches(f), Carrying(i)) =< 1
                              /\ i \notin ToSet(f) => CountIn(Batches(f), Carrying(i)) = 0
<1>. DEFINE n == (Len(f) + TrickleSize - 1) \div TrickleSize
            items(k) == {f[i] : i \in {j \in DOMAIN f : (j - 1) \div TrickleSize = k - 1}}
            b == [k \in 1..n |-> [kind |-> "plain", items |-> items(k)]]
<1>1. Len(f) \in Nat /\ DOMAIN f = 1..Len(f) /\ TrickleSize \in Nat \ {0}
    BY LenProperties, PeerIOAssumption
<1>2. Batches(f) = b
    BY DEF Batches
<1>3. n \in Nat /\ (Len(f) >= 1 => n >= 1) /\ (Len(f) = 0 => n = 0)
    <2>1. /\ Len(f) + TrickleSize - 1 \in Nat
          /\ Len(f) >= 1 => Len(f) + TrickleSize - 1 >= TrickleSize
          /\ Len(f) = 0 => Len(f) + TrickleSize - 1 < TrickleSize
        BY <1>1
    <2>. QED
        BY <1>1, <2>1, QuotientPositive
<1>4. \A k \in 1..n : items(k) \subseteq Item
    <2>1. \A j \in DOMAIN f : f[j] \in Item
        BY <1>1, ElementOfSeq
    <2>. QED
        BY <2>1
<1>5. ASSUME NEW k \in 1..n, NEW i \in items(k)
      PROVE  \E j \in DOMAIN f : f[j] = i /\ (j - 1) \div TrickleSize = k - 1
    OBVIOUS
<1>6. ASSUME NEW k \in 1..n, NEW l \in 1..n, NEW i \in items(k), i \in items(l)
      PROVE  k = l
    <2>1. PICK j \in DOMAIN f : f[j] = i /\ (j - 1) \div TrickleSize = k - 1
        BY <1>5
    <2>2. PICK h \in DOMAIN f : f[h] = i /\ (h - 1) \div TrickleSize = l - 1
        BY <1>5, <1>6
    <2>3. j = h
        BY <2>1, <2>2
    <2>4. k - 1 = l - 1
        BY <2>1, <2>2, <2>3
    <2>. HIDE DEF n
    <2>. QED
        BY <1>3, <2>4
<1>. HIDE DEF n, items
<1>7. b \in [1..n -> Message]
    BY <1>4 DEF Message
<1>8. b \in Seq(Message) /\ DOMAIN b = 1..n
    BY <1>3, <1>7
<1>9. f # <<>> => b # <<>>
    <2>. SUFFICES ASSUME f # <<>> PROVE b # <<>>
        OBVIOUS
    <2>1. Len(f) >= 1
        BY <1>1, EmptySeq
    <2>2. 1 \in DOMAIN b
        BY <1>3, <1>8, <2>1
    <2>. QED
        BY <2>2
<1>10. f = <<>> => b = <<>>
    <2>. SUFFICES ASSUME f = <<>> PROVE b = <<>>
        OBVIOUS
    <2>1. n = 0
        BY <1>3
    <2>2. Len(b) = 0
        BY <1>8, <2>1
    <2>. HIDE DEF b
    <2>. QED
        BY <1>8, <2>2, EmptySeq
<1>11. CountIn(b, Rejects) = 0
    <2>1. \A k \in DOMAIN b : b[k] \notin Rejects
        BY <1>8 DEF Rejects
    <2>. HIDE DEF b
    <2>. QED
        BY <1>8, <2>1, CountNone
<1>12. ASSUME NEW i \in Item
       PROVE  CountIn(b, Carrying(i)) =< 1
    <2>. DEFINE S == {k \in DOMAIN b : b[k] \in Carrying(i)}
    <2>1. \A k, l \in S : k = l
        BY <1>6, <1>8 DEF Carrying
    <2>a. CountIn(b, Carrying(i)) = Cardinality(S)
        BY DEF CountIn
    <2>. HIDE DEF S
    <2>2. CASE S = {}
        BY <2>a, <2>2, FS_EmptySet
    <2>3. CASE S # {}
        <3>a. PICK k : k \in S
            BY <2>3
        <3>1. S = {k}
            BY <2>1, <3>a
        <3>2. Cardinality(S) = 1
            BY <3>1, FS_Singleton
        <3>. QED
            BY <2>a, <3>2
    <2>. QED
        BY <2>2, <2>3
<1>13. ASSUME NEW i \in Item, i \notin ToSet(f)
       PROVE  CountIn(b, Carrying(i)) = 0
    <2>1. \A k \in DOMAIN b : b[k] \notin Carrying(i)
        BY <1>5, <1>8, <1>13 DEF Carrying, ToSet
    <2>. HIDE DEF b
    <2>. QED
        BY <1>8, <2>1, CountNone
<1>. QED
    BY <1>2, <1>8, <1>9, <1>10, <1>11, <1>12, <1>13

(* The inventory that trickles becomes known and is put into messages.     *)
LEMMA QueueTricklesKeeps ==
    ASSUME IOInv, QueueTrickles
    PROVE  IOInv'
<1>1. /\ sending \in Seq(Message) /\ sendQueue \in Seq(Message)
      /\ queue.pending \in Seq(Message) /\ outputQueue \in Seq(Message)
    BY TotalType DEF IOInv
<1>2. queue \in [pending : Seq(Message), waiting : BOOLEAN, inv : Seq(Item)]
      /\ doneChan \in Nat /\ announced \in [Item -> Nat] /\ knownInventory \subseteq Item
    BY DEF IOInv, IOType
<1>3. PICK f \in Fresh(queue.inv) :
       /\ knownInventory' = knownInventory \union ToSet(f)
       /\ IF queue.waiting \/ f = <<>>
          THEN /\ queue' = [queue EXCEPT !.pending = @ \o Batches(f), !.inv = <<>>]
               /\ UNCHANGED sendQueue
          ELSE /\ sendQueue = <<>>
               /\ sendQueue' = SubSeq(Batches(f), 1, 1)
               /\ queue' = [pending |-> queue.pending \o Tail(Batches(f)),
                            waiting |-> TRUE, inv |-> <<>>]
    BY DEF QueueTrickles
<1>. DEFINE b == Batches(f)
<1>4. pc' = pc /\ disc' = disc
      /\ UNCHANGED <<sending, outputQueue, outputInvChan, sendDone, doneChan, announced>>
    BY DEF QueueTrickles, queueRest
<1>5. /\ f \in Seq(Item)
      /\ \A j, k \in DOMAIN f : f[j] = f[k] => j = k
      /\ \A k \in DOMAIN f : f[k] \notin knownInventory
    BY <1>2, FreshType
<1>6. /\ b \in Seq(Message)
      /\ (f = <<>> <=> b = <<>>)
      /\ CountIn(b, Rejects) = 0
      /\ \A i \in Item : /\ CountIn(b, Carrying(i)) =< 1
                         /\ i \notin ToSet(f) => CountIn(b, Carrying(i)) = 0
    BY <1>5, BatchesType
<1>7. ToSet(f) \subseteq Item /\ (\A i \in ToSet(f) : i \notin knownInventory)
    <2>1. \A k \in DOMAIN f : f[k] \in Item
        BY <1>5, LenProperties, ElementOfSeq
    <2>. QED
        BY <1>5, <2>1 DEF ToSet
<1>. HIDE DEF b
<1>8. \/ /\ queue.waiting \/ b = <<>>
         /\ queue' = [queue EXCEPT !.pending = queue.pending \o b, !.inv = <<>>]
         /\ sendQueue' = sendQueue
      \/ /\ ~queue.waiting /\ b # <<>> /\ sendQueue = <<>> /\ sendQueue' = SubSeq(b, 1, 1)
         /\ queue' = [pending |-> queue.pending \o Tail(b), waiting |-> TRUE, inv |-> <<>>]
    BY <1>3, <1>6 DEF b
<1>9. queue.pending \o b \in Seq(Message) /\ (b = <<>> => queue.pending \o b = queue.pending)
    BY <1>1, <1>6, ConcatProperties, ConcatEmptySeq
<1>10. ASSUME NEW P, b # <<>>
       PROVE  /\ SubSeq(b, 1, 1) = <<b[1]>> /\ b[1] \in Message
              /\ Tail(b) \in Seq(Message) /\ queue.pending \o Tail(b) \in Seq(Message)
              /\ CountIn(queue.pending \o Tail(b), P) + CountIn(SubSeq(b, 1, 1), P)
                   = CountIn(queue.pending, P) + CountIn(b, P)
    <2>1. /\ SubSeq(b, 1, 1) = <<b[1]>> /\ b[1] \in Message /\ Tail(b) \in Seq(Message)
          /\ CountIn(SubSeq(b, 1, 1), P) + CountIn(Tail(b), P) = CountIn(b, P)
        BY <1>6, <1>10, CountTail
    <2>2. queue.pending \o Tail(b) \in Seq(Message)
        BY <1>1, <2>1, ConcatProperties
    <2>3. CountIn(queue.pending \o Tail(b), P) = CountIn(queue.pending, P) + CountIn(Tail(b), P)
        BY <1>1, <2>1, CountConcat
    <2>4. <<b[1]>> \in Seq(Message)
        BY <2>1
    <2>5. CountIn(queue.pending, P) \in Nat /\ CountIn(Tail(b), P) \in Nat
          /\ CountIn(SubSeq(b, 1, 1), P) \in Nat
        BY <1>1, <2>1, <2>4, CountType
    <2>. QED
        BY <2>1, <2>2, <2>3, <2>5
<1>11. ASSUME NEW P PROVE Total(P)' = Total(P) + CountIn(b, P) /\ CountIn(b, P) \in Nat
    <2>1. /\ CountIn(sending, P) \in Nat /\ CountIn(sendQueue, P) \in Nat
          /\ CountIn(queue.pending, P) \in Nat /\ CountIn(outputQueue, P) \in Nat
          /\ CountIn(b, P) \in Nat
        BY <1>1, <1>6, CountType
    <2>2. CASE /\ queue' = [queue EXCEPT !.pending = queue.pending \o b, !.inv = <<>>]
               /\ sendQueue' = sendQueue
        <3>1. queue'.pending = queue.pending \o b
            BY <1>2, <2>2
        <3>2. CountIn(queue.pending \o b, P) = CountIn(queue.pending, P) + CountIn(b, P)
            BY <1>1, <1>6, CountConcat
        <3>3. Total(P)' = CountIn(sending, P) + CountIn(sendQueue, P) + CountIn(queue.pending \o b, P)
                            + CountIn(outputQueue, P)
            BY <1>4, <2>2, <3>1, TotalNext
        <3>. QED
            BY <2>1, <3>2, <3>3 DEF Total
    <2>3. CASE /\ b # <<>> /\ sendQueue = <<>> /\ sendQueue' = SubSeq(b, 1, 1)
               /\ queue' = [pending |-> queue.pending \o Tail(b), waiting |-> TRUE, inv |-> <<>>]
        <3>1. queue'.pending = queue.pending \o Tail(b)
            BY <2>3
        <3>2. Total(P)' = CountIn(sending, P) + CountIn(SubSeq(b, 1, 1), P)
                            + CountIn(queue.pending \o Tail(b), P) + CountIn(outputQueue, P)
            BY <1>4, <2>3, <3>1, TotalNext
        <3>3. CountIn(queue.pending \o Tail(b), P) + CountIn(SubSeq(b, 1, 1), P)
                   = CountIn(queue.pending, P) + CountIn(b, P)
            BY <1>10, <2>3
        <3>4. CountIn(SubSeq(b, 1, 1), P) \in Nat /\ CountIn(queue.pending \o Tail(b), P) \in Nat
            <4>1. SubSeq(b, 1, 1) = <<b[1]>> /\ b[1] \in Message /\ queue.pending \o Tail(b) \in Seq(Message)
                BY <1>10, <2>3
            <4>2. <<b[1]>> \in Seq(Message)
                BY <4>1
            <4>. QED
                BY <4>1, <4>2, CountType
        <3>5. CountIn(sendQueue, P) = 0
            BY <2>3, CountEmpty
        <3>. QED
            BY <2>1, <3>2, <3>3, <3>4, <3>5 DEF Total
    <2>. QED
        BY <1>8, <2>1, <2>2, <2>3
<1>12. IOType'
    <2>1. knownInventory' \in SUBSET Item
        BY <1>2, <1>3, <1>7
    <2>2. queue' \in [pending : Seq(Message), waiting : BOOLEAN, inv : Seq(Item)]
        <3>1. <<>> \in Seq(Item)
            OBVIOUS
        <3>2. CASE queue' = [queue EXCEPT !.pending = queue.pending \o b, !.inv = <<>>]
            BY <1>2, <1>9, <3>1, <3>2
        <3>3. CASE /\ b # <<>>
                   /\ queue' = [pending |-> queue.pending \o Tail(b), waiting |-> TRUE, inv |-> <<>>]
            <4>1. queue.pending \o Tail(b) \in Seq(Message)
                BY <1>10, <3>3
            <4>. QED
                BY <3>1, <3>3, <4>1
        <3>. QED
            BY <1>8, <3>2, <3>3
    <2>3. sendQueue' = <<>> \/ \E m \in Message : sendQueue' = <<m>>
        BY <1>8, <1>10 DEF IOInv, IOType
    <2>. QED
        BY <1>4, <2>1, <2>2, <2>3 DEF IOInv, IOType
<1>13. OneMessage'
    <2>1. CASE /\ queue.waiting \/ b = <<>>
               /\ queue' = [queue EXCEPT !.pending = queue.pending \o b, !.inv = <<>>]
               /\ sendQueue' = sendQueue
        <3>1. queue'.waiting = queue.waiting /\ (~queue.waiting => queue'.pending = queue.pending)
            BY <1>2, <1>9, <2>1
        <3>. QED
            BY <1>4, <2>1, <3>1 DEF IOInv, OneMessage
    <2>2. CASE /\ ~queue.waiting /\ b # <<>> /\ sendQueue = <<>> /\ sendQueue' = SubSeq(b, 1, 1)
               /\ queue' = [pending |-> queue.pending \o Tail(b), waiting |-> TRUE, inv |-> <<>>]
        <3>1. queue'.waiting
            BY <2>2
        <3>. QED
            BY <1>4, <2>2, <3>1 DEF IOInv, OneMessage
    <2>. QED
        BY <1>8, <2>1, <2>2
<1>14. RejectOnce'
    <2>1. Total(Rejects)' = Total(Rejects)
        <3>1. Total(Rejects) \in Nat
            BY TotalType DEF IOInv
        <3>. QED
            BY <1>6, <1>11, <3>1
    <2>. QED
        BY <1>4, <2>1 DEF IOInv, RejectOnce
<1>15. ItemOnce'
    <2>1. ASSUME NEW i \in Item
          PROVE  /\ announced[i] + Total(Carrying(i))' =< 1
                 /\ i \notin knownInventory' => announced[i] + Total(Carrying(i))' = 0
        <3>1. announced[i] \in Nat /\ Total(Carrying(i)) \in Nat
            BY <1>2, TotalType DEF IOInv
        <3>2. /\ announced[i] + Total(Carrying(i)) =< 1
              /\ i \notin knownInventory => announced[i] + Total(Carrying(i)) = 0
            BY DEF IOInv, ItemOnce
        <3>3. Total(Carrying(i))' = Total(Carrying(i)) + CountIn(b, Carrying(i))
              /\ CountIn(b, Carrying(i)) \in Nat
            BY <1>11
        <3>4. CASE i \in ToSet(f)
            <4>1. announced[i] + Total(Carrying(i)) = 0 /\ CountIn(b, Carrying(i)) =< 1
                BY <1>6, <1>7, <3>2, <3>4
            <4>2. i \in knownInventory'
                BY <1>3, <3>4
            <4>. QED
                BY <3>1, <3>3, <4>1, <4>2
        <3>5. CASE i \notin ToSet(f)
            <4>1. CountIn(b, Carrying(i)) = 0
                BY <1>6, <3>5
            <4>2. i \notin knownInventory' => i \notin knownInventory
                BY <1>3
            <4>. QED
                BY <3>1, <3>2, <3>3, <4>1, <4>2
        <3>. QED
            BY <3>4, <3>5
    <2>. QED
        BY <1>4, <2>1 DEF ItemOnce
<1>16. Started'
    BY <1>4, NobodyMoves, StartedKept
<1>. QED
    BY <1>12, <1>13, <1>14, <1>15, <1>16 DEF IOInv

-----------------------------------------------------------------------------
(* outHandler takes the message on its way, reports to the stall handler,  *)
(* says that it is done, or queues a ping.                                 *)
LEMMA OutMovesKeep ==
    ASSUME IOInv, OutTakes \/ OutControl \/ OutSendDone \/ OutPing
    PROVE  IOInv'
<1>1. /\ sending \in Seq(Message) /\ sendQueue \in Seq(Message)
      /\ queue.pending \in Seq(Message) /\ outputQueue \in Seq(Message)
    BY TotalType DEF IOInv
<1>2. disc \in BOOLEAN /\ knownInventory \subseteq Item
    BY DEF IOInv, IOType
<1>3. disc' = disc /\ UNCHANGED <<outputInvChan, queue, doneChan, knownInventory, announced>>
    BY DEF OutTakes, OutControl, OutSendDone, OutPing, outRest
<1>4. "out" \in PeerGoroutine /\ "out" # "in" /\ "out" # "start"
    BY PeerGoroutines
<1>5. CASE OutTakes
    <2>1. /\ pc["out"] = "select" /\ sendQueue # <<>> /\ sending' = sendQueue /\ sendQueue' = <<>>
          /\ Go("out", "control") /\ outputQueue' = outputQueue /\ sendDone' = sendDone
        BY <1>5 DEF OutTakes, At
    <2>2. PcMoves /\ pc'["out"] = "control"
        BY <1>4, <2>1, GoMoves
    <2>3. sending = <<>>
        BY <2>1 DEF IOInv, OneMessage
    <2>4. IOType'
        BY <1>3, <2>1, <2>2 DEF IOInv, IOType, PcMoves
    <2>5. OneMessage'
        BY <1>3, <2>1, <2>2, <2>3 DEF IOInv, OneMessage
    <2>6. ASSUME NEW P PROVE Total(P)' = Total(P)
        <3>1. /\ CountIn(sending, P) = 0 /\ CountIn(sendQueue', P) = 0
              /\ CountIn(sending', P) = CountIn(sendQueue, P)
            BY <2>1, <2>3, CountEmpty
        <3>2. /\ CountIn(sendQueue, P) \in Nat
              /\ CountIn(queue.pending, P) \in Nat /\ CountIn(outputQueue, P) \in Nat
            BY <1>1, CountType
        <3>3. Total(P)' = CountIn(sendQueue, P) + CountIn(<<>>, P) + CountIn(queue.pending, P)
                            + CountIn(outputQueue, P)
            BY <1>3, <2>1, TotalNext
        <3>. QED
            BY <3>1, <3>2, <3>3, CountEmpty DEF Total
    <2>. QED
        BY <1>3, <2>2, <2>4, <2>5, <2>6, MoveStep
<1>6. CASE OutControl
    <2>1. /\ pc["out"] = "control" /\ Go("out", "write")
          /\ UNCHANGED <<outputQueue, sendQueue, sending, sendDone>>
        BY <1>6 DEF OutControl, At
    <2>2. PcMoves /\ pc'["out"] = "write"
        BY <1>4, <2>1, GoMoves
    <2>3. OutIdle
        BY <2>1, <2>2 DEF OutIdle
    <2>. QED
        BY <1>2, <1>3, <2>1, <2>2, <2>3, PeerQuiet
<1>7. CASE OutSendDone
    <2>1. /\ pc["out"] = "sendDone" /\ ~sendDone /\ sendDone' = TRUE /\ Go("out", "select")
          /\ UNCHANGED <<outputQueue, sendQueue, sending>>
        BY <1>7 DEF OutSendDone, At
    <2>2. PcMoves /\ pc'["out"] = "select"
        BY <1>4, <2>1, GoMoves
    <2>3. IOType'
        BY <1>3, <2>1, <2>2 DEF IOInv, IOType, PcMoves
    <2>4. OneMessage'
        BY <1>3, <2>1, <2>2 DEF IOInv, OneMessage
    <2>5. \A P : Total(P)' = Total(P)
        BY <1>3, <2>1, TotalNext DEF Total
    <2>. QED
        BY <1>3, <2>2, <2>3, <2>4, <2>5, MoveStep
<1>8. CASE OutPing
    <2>1. /\ pc["out"] \in {"select", "ping"}
          /\ Go("out", "ping") \/ Go("out", "select")
          /\ UNCHANGED <<sendQueue, sending, sendDone>>
          /\ outputQueue' = outputQueue \/ outputQueue' = Append(outputQueue, Msg("plain"))
        BY <1>8 DEF OutPing, At
    <2>2. PcMoves /\ pc'["out"] \in {"select", "ping"}
        BY <1>4, <2>1, GoMoves
    <2>3. OutIdle
        BY <2>1, <2>2 DEF OutIdle
    <2>. QED
        BY <1>2, <1>3, <2>1, <2>2, <2>3, PeerQuiet, PlainStep
<1>. QED
    BY <1>5, <1>6, <1>7, <1>8

(* writeMessage: the message leaves the model, its doneChan is told, and its *)
(* items are announced unless the peer is disconnected.                    *)
LEMMA OutWriteKeeps ==
    ASSUME IOInv, OutWrite
    PROVE  IOInv'
<1>1. /\ sending \in Seq(Message) /\ sendQueue \in Seq(Message)
      /\ queue.pending \in Seq(Message) /\ outputQueue \in Seq(Message)
    BY TotalType DEF IOInv
<1>2. doneChan \in Nat /\ announced \in [Item -> Nat] /\ disc \in BOOLEAN
    BY DEF IOInv, IOType
<1>3. /\ pc["out"] = "write" /\ doneChan' = doneChan + Signals(sending) /\ sending' = <<>>
      /\ UNCHANGED <<outputQueue, sendQueue, sendDone, outputInvChan, queue, knownInventory>>
    BY DEF OutWrite, outRest, At
<1>4. PICK m \in Message : sending = <<m>>
    BY <1>3 DEF IOInv, IOType, OneMessage
<1>5. sending[1] = m
    BY <1>4
<1>6. PICK l \in {"sendDone", "select"} : Go("out", l)
    BY DEF OutWrite
<1>7. PcMoves /\ pc'["out"] = l
    BY <1>3, <1>6, GoMoves, PeerGoroutines
<1>8. disc' \in BOOLEAN /\ announced' \in [Item -> Nat]
      /\ \A i \in Item : announced'[i] =< announced[i] + (IF m \in Carrying(i) THEN 1 ELSE 0)
    <2>1. \/ /\ announced' = [i \in Item |-> IF ~disc /\ i \in m.items
                                             THEN announced[i] + 1 ELSE announced[i]]
             /\ disc' = disc
          \/ announced' = announced /\ disc' = TRUE
        BY <1>5 DEF OutWrite
    <2>2. \A i \in Item : announced[i] \in Nat /\ (i \in m.items <=> m \in Carrying(i))
        BY <1>2 DEF Carrying
    <2>3. CASE announced' = [i \in Item |-> IF ~disc /\ i \in m.items
                                             THEN announced[i] + 1 ELSE announced[i]]
        <3>1. announced' \in [Item -> Nat]
            BY <2>2, <2>3
        <3>2. \A i \in Item : announced'[i] =< announced[i] + (IF m \in Carrying(i) THEN 1 ELSE 0)
            BY <2>2, <2>3
        <3>. QED
            BY <1>2, <2>1, <3>1, <3>2
    <2>4. CASE announced' = announced
        <3>1. \A i \in Item : announced'[i] =< announced[i] + (IF m \in Carrying(i) THEN 1 ELSE 0)
            BY <2>2, <2>4
        <3>. QED
            BY <1>2, <2>1, <2>4, <3>1
    <2>. QED
        BY <2>1, <2>3, <2>4
<1>9. ASSUME NEW P
      PROVE  /\ Total(P) = (IF m \in P THEN 1 ELSE 0) + Total(P)' /\ Total(P)' \in Nat
             /\ CountIn(sending, P) = IF m \in P THEN 1 ELSE 0
    <2>1. CountIn(sending, P) = IF m \in P THEN 1 ELSE 0
        BY <1>4, CountOne
    <2>2. /\ CountIn(sendQueue, P) \in Nat
          /\ CountIn(queue.pending, P) \in Nat /\ CountIn(outputQueue, P) \in Nat
        BY <1>1, CountType
    <2>3. Total(P)' = CountIn(<<>>, P) + CountIn(sendQueue, P) + CountIn(queue.pending, P)
                        + CountIn(outputQueue, P)
        BY <1>3, TotalNext
    <2>. QED
        BY <2>1, <2>2, <2>3, CountEmpty DEF Total
<1>10. doneChan' = doneChan + (IF m \in Rejects THEN 1 ELSE 0)
    BY <1>1, <1>3, <1>9, SignalsCount
<1>11. IOType'
    <2>1. doneChan' \in Nat
        BY <1>2, <1>10
    <2>. QED
        BY <1>3, <1>7, <1>8, <2>1 DEF IOInv, IOType, PcMoves
<1>12. OneMessage'
    BY <1>3, <1>4, <1>6, <1>7 DEF IOInv, OneMessage
<1>13. doneChan' + Total(Rejects)' = doneChan + Total(Rejects)
    BY <1>2, <1>9, <1>10
<1>14. \A i \in Item : announced'[i] + Total(Carrying(i))' =< announced[i] + Total(Carrying(i))
    <2>. TAKE i \in Item
    <2>1. announced[i] \in Nat /\ announced'[i] \in Nat
          /\ announced'[i] =< announced[i] + (IF m \in Carrying(i) THEN 1 ELSE 0)
        BY <1>2, <1>8
    <2>2. Total(Carrying(i)) = (IF m \in Carrying(i) THEN 1 ELSE 0) + Total(Carrying(i))'
          /\ Total(Carrying(i))' \in Nat
        BY <1>9
    <2>. QED
        BY <2>1, <2>2
<1>15. RejectOnce' /\ ItemOnce'
    BY <1>3, <1>7, <1>11, <1>13, <1>14, DrainKeeps
<1>. QED
    BY <1>7, <1>11, <1>12, <1>15, StartedKept DEF IOInv

(* The end of outHandler: what is left in sendQueue is reported.           *)
LEMMA OutQuitsKeeps ==
    ASSUME IOInv, OutQuits
    PROVE  IOInv'
<1>1. /\ sending \in Seq(Message) /\ sendQueue \in Seq(Message)
      /\ queue.pending \in Seq(Message) /\ outputQueue \in Seq(Message)
    BY TotalType DEF IOInv
<1>2. disc \in BOOLEAN /\ knownInventory \subseteq Item /\ doneChan \in Nat
    BY DEF IOInv, IOType
<1>3. disc' = disc /\ UNCHANGED <<outputQueue, sending, sendDone, outputInvChan, queue,
                                  knownInventory, announced>>
    BY DEF OutQuits, outRest
<1>4. PICK l \in {"waitQueue", "done"} : Go("out", l)
    BY DEF OutQuits
<1>5. pc["out"] \in {"select", "waitQueue"}
    BY DEF OutQuits, At
<1>6. PcMoves /\ pc'["out"] = l
    BY <1>4, <1>5, GoMoves, PeerGoroutines
<1>7. OutIdle
    BY <1>5, <1>6 DEF OutIdle
<1>8. CASE sendQueue' = sendQueue /\ doneChan' = doneChan
    BY <1>2, <1>3, <1>6, <1>7, <1>8, PeerQuiet
<1>9. CASE sendQueue' = <<>> /\ doneChan' = doneChan + Signals(sendQueue)
    <2>1. Signals(sendQueue) = CountIn(sendQueue, Rejects)
        BY <1>1, SignalsCount
    <2>2. ASSUME NEW P
          PROVE  /\ CountIn(sendQueue, P) \in Nat /\ Total(P)' \in Nat
                 /\ Total(P) = Total(P)' + CountIn(sendQueue, P)
        <3>1. /\ CountIn(sending, P) \in Nat /\ CountIn(sendQueue, P) \in Nat
              /\ CountIn(queue.pending, P) \in Nat /\ CountIn(outputQueue, P) \in Nat
            BY <1>1, CountType
        <3>2. Total(P)' = CountIn(sending, P) + CountIn(<<>>, P) + CountIn(queue.pending, P)
                            + CountIn(outputQueue, P)
            BY <1>3, <1>9, TotalNext
        <3>. QED
            BY <3>1, <3>2, CountEmpty DEF Total
    <2>3. IOType'
        <3>1. doneChan' \in Nat
            BY <1>2, <1>9, <2>1, <2>2
        <3>. QED
            BY <1>3, <1>6, <1>9, <3>1 DEF IOInv, IOType, PcMoves
    <2>4. OneMessage'
        BY <1>3, <1>7, <1>9 DEF IOInv, OneMessage, OutIdle
    <2>5. doneChan' + Total(Rejects)' = doneChan + Total(Rejects)
        BY <1>2, <1>9, <2>1, <2>2
    <2>6. \A i \in Item : announced'[i] + Total(Carrying(i))' =< announced[i] + Total(Carrying(i))
        <3>. TAKE i \in Item
        <3>1. announced[i] \in Nat /\ announced' = announced
            BY <1>3 DEF IOInv, IOType
        <3>2. CountIn(sendQueue, Carrying(i)) \in Nat /\ Total(Carrying(i))' \in Nat
              /\ Total(Carrying(i)) = Total(Carrying(i))' + CountIn(sendQueue, Carrying(i))
            BY <2>2
        <3>. QED
            BY <3>1, <3>2
    <2>7. RejectOnce' /\ ItemOnce'
        BY <1>3, <1>6, <2>3, <2>5, <2>6, DrainKeeps
    <2>. QED
        BY <1>6, <2>3, <2>4, <2>7, StartedKept DEF IOInv
<1>. QED
    BY <1>8, <1>9 DEF OutQuits

(* Nothing happens.                                                        *)
LEMMA IOStutter == ASSUME IOInv, UNCHANGED ioVars PROVE IOInv'
<1>1. /\ pc' = pc /\ disc' = disc /\ knownInventory' = knownInventory
      /\ UNCHANGED <<outputQueue, outputInvChan, queue, sendQueue, sending, sendDone,
                     doneChan, announced>>
    BY DEF ioVars
<1>2. disc \in BOOLEAN /\ knownInventory \subseteq Item
    BY DEF IOInv, IOType
<1>. QED
    BY <1>1, <1>2, NobodyMoves, PeerQuiet

(* IOInv says what OneOnTheWay needs.                                      *)
LEMMA IOInvSays == IOInv => OneOnTheWay
<1>. SUFFICES ASSUME IOInv PROVE OneOnTheWay
    OBVIOUS
<1>1. Len(sendQueue) = (IF sendQueue = <<>> THEN 0 ELSE 1) /\ Len(sending) = (IF sending = <<>> THEN 0 ELSE 1)
    <2>1. Len(<<>>) = 0 /\ \A m \in Message : Len(<<m>>) = 1 /\ <<m>> # <<>>
        OBVIOUS
    <2>. QED
        BY <2>1 DEF IOInv, IOType
<1>2. OnTheWay =< 1
    BY <1>1 DEF IOInv, OneMessage, OnTheWay, At
<1>3. ~queue.waiting => OnTheWay = 0 /\ queue.pending = <<>>
    BY <1>1 DEF IOInv, OneMessage, OnTheWay, At
<1>4. doneChan =< 1
    <2>1. doneChan \in Nat /\ Total(Rejects) \in Nat /\ doneChan + Total(Rejects) =< 1
        BY TotalType DEF IOInv, IOType, RejectOnce
    <2>. QED
        BY <2>1
<1>5. ASSUME NEW i \in Item PROVE announced[i] =< 1
    <2>1. announced[i] \in Nat /\ Total(Carrying(i)) \in Nat /\ announced[i] + Total(Carrying(i)) =< 1
        BY TotalType DEF IOInv, IOType, ItemOnce
    <2>. QED
        BY <2>1
<1>. QED
    BY <1>2, <1>3, <1>4, <1>5 DEF OneOnTheWay

(* IOInv is an invariant.                                                  *)
THEOREM PeerIOInvariant == SpecIO => []IOInv
<1>1. InitIO => IOInv
    BY IOStart
<1>2. ASSUME IOInv, [NextIO]_ioVars PROVE IOInv'
    <2>1. CASE DisconnectPeer \/ NegotiateStep
        BY <1>2, <2>1, NegotiationKeeps
    <2>2. CASE StartStep
        BY <1>2, <2>2, StartKeeps
    <2>3. CASE InStep
        BY <1>2, <2>3, InKeeps
    <2>4. CASE QueueStep
        BY <1>2, <2>4, QueueTakesKeeps, QueueSendDoneKeeps, QueueTakesInvKeeps, QueueTricklesKeeps,
           QueueQuitsKeeps DEF QueueStep
    <2>5. CASE OutStep
        BY <1>2, <2>5, OutMovesKeep, OutWriteKeeps, OutQuitsKeeps DEF OutStep
    <2>6. CASE StallStep \/ CallerStep
        BY <1>2, <2>6, OthersKeep
    <2>7. CASE UNCHANGED ioVars
        BY <1>2, <2>7, IOStutter
    <2>. QED
        BY <1>2, <2>1, <2>2, <2>3, <2>4, <2>5, <2>6, <2>7 DEF NextIO
<1>. QED
    BY <1>1, <1>2, PTL DEF SpecIO

(* OneOnTheWay for every buffer size, every set of items and every number of *)
(* events.                                                                 *)
THEOREM OneMessageOnTheWay == SpecIO => []OneOnTheWay
BY PeerIOInvariant, IOInvSays, PTL

-----------------------------------------------------------------------------
(* AddrManager *)

(* The new buckets that hold an address.                                   *)
Holders(new, a) == {b \in NewBucket : a \in new[b]}
(* The address is in the list of a tried bucket.                           *)
InTried(tried, a) == \E b \in TriedBucket : \E i \in DOMAIN tried[b] : tried[b][i] = a
(* The addresses in the tried buckets.                                     *)
TriedSet(tried) == {a \in Addr : InTried(tried, a)}

(* What is known of an address.                                            *)
AddrRec == [stamp : Nat, src : Src, tried : BOOLEAN, refs : Nat]

(* The index, the new buckets and their counter agree, T being the tried   *)
(* addresses.  The addresses of X are on their way to a bucket.            *)
NewAgrees(t, X, T) ==
    /\ DOMAIN t.index \subseteq Addr /\ t.index \in [DOMAIN t.index -> AddrRec]
    /\ t.new \in [NewBucket -> SUBSET Addr]
    /\ \A b \in NewBucket : t.new[b] \subseteq DOMAIN t.index
    /\ \A b \in NewBucket : Cardinality(t.new[b]) =< newBucketSize + 1
    /\ \A a \in DOMAIN t.index :
          /\ t.index[a].refs = Cardinality(Holders(t.new, a))
          /\ t.index[a].refs =< newBucketsPerAddress
          /\ t.index[a].tried <=> a \in T
          /\ a \notin X => (t.index[a].tried <=> t.index[a].refs = 0)
    /\ T \subseteq DOMAIN t.index
    /\ t.nNew = Cardinality({a \in DOMAIN t.index : ~t.index[a].tried})

(* No address is twice in the tried buckets.                               *)
TriedAgrees(tried) ==
    /\ tried \in [TriedBucket -> Seq(Addr)]
    /\ \A b \in TriedBucket : Len(tried[b]) =< triedBucketSize
    /\ \A b, c \in TriedBucket : \A i \in DOMAIN tried[b], j \in DOMAIN tried[c] :
          tried[b][i] = tried[c][j] => b = c /\ i = j

(* The same of what the file holds.                                        *)
FileAgrees(f) ==
    /\ DOMAIN f.src \subseteq Addr /\ f.src \in [DOMAIN f.src -> Src]
    /\ f.new \in [NewBucket -> SUBSET Addr]
    /\ \A b \in NewBucket : f.new[b] \subseteq DOMAIN f.src /\ Cardinality(f.new[b]) =< newBucketSize + 1
    /\ TriedAgrees(f.tried) /\ TriedSet(f.tried) \subseteq DOMAIN f.src
    /\ \A a \in DOMAIN f.src :
          /\ Cardinality(Holders(f.new, a)) =< newBucketsPerAddress
          /\ InTried(f.tried, a) <=> Holders(f.new, a) = {}

(* The inductive invariant of the address manager.                         *)
AddrInv ==
    /\ NewAgrees(Tables, {}, TriedSet(addrTried))
    /\ TriedAgrees(addrTried)
    /\ nTried = Cardinality(TriedSet(addrTried))
    /\ FileAgrees(peersFile)

-----------------------------------------------------------------------------
(* The elements of a sequence with one more.                               *)
LEMMA AppendAt ==
    ASSUME NEW S, NEW s \in Seq(S), NEW m \in S
    PROVE  /\ Append(s, m) \in Seq(S) /\ Len(s) \in Nat
           /\ Len(Append(s, m)) = Len(s) + 1
           /\ DOMAIN s = 1..Len(s) /\ DOMAIN Append(s, m) = 1..(Len(s) + 1)
           /\ \A l \in 1..Len(s) : Append(s, m)[l] = s[l]
           /\ Append(s, m)[Len(s) + 1] = m
<1>1. Len(s) \in Nat /\ DOMAIN s = 1..Len(s)
    BY LenProperties
<1>2. Append(s, m) \in Seq(S) /\ Len(Append(s, m)) = Len(s) + 1
      /\ (\A l \in 1..Len(s) : Append(s, m)[l] = s[l]) /\ Append(s, m)[Len(s) + 1] = m
    BY AppendProperties
<1>3. DOMAIN Append(s, m) = 1..(Len(s) + 1)
    BY <1>2, LenProperties
<1>. QED
    BY <1>1, <1>2, <1>3

(* Sets of addresses and of buckets are finite.                            *)
LEMMA AddrsFinite ==
    ASSUME NEW S, S \subseteq Addr
    PROVE  IsFiniteSet(S) /\ Cardinality(S) \in Nat /\ (Cardinality(S) = 0 <=> S = {})
BY AddrAssumption, FS_Subset, FS_CardinalityType, FS_EmptySet

(* The buckets that hold an address are finitely many.                     *)
LEMMA HoldersFinite ==
    ASSUME NEW new, NEW a
    PROVE  /\ IsFiniteSet(Holders(new, a)) /\ Cardinality(Holders(new, a)) \in Nat
           /\ Cardinality(Holders(new, a)) = 0 <=> Holders(new, a) = {}
<1>1. Holders(new, a) \subseteq NewBucket
    BY DEF Holders
<1>. QED
    BY <1>1, AddrAssumption, FS_Subset, FS_CardinalityType, FS_EmptySet

(* Addresses leave a new bucket.                                           *)
LEMMA DropAgrees ==
    ASSUME NEW t, NEW X, NEW T, NewAgrees(t, X, T), NEW b \in NewBucket,
           NEW S \in SUBSET t.new[b], X \cap S = {}
    PROVE  /\ NewAgrees(DropFromNew(t, b, S), X, T)
           /\ DropFromNew(t, b, S).new = [t.new EXCEPT ![b] = @ \ S]
           /\ \A x \in DOMAIN t.index \ S : /\ x \in DOMAIN DropFromNew(t, b, S).index
                                           /\ DropFromNew(t, b, S).index[x] = t.index[x]
           /\ S # {} => Cardinality(DropFromNew(t, b, S).new[b]) =< newBucketSize
<1>. DEFINE D == DOMAIN t.index
            gone == {a \in S : t.index[a].refs = 1}
            u == DropFromNew(t, b, S)
<1>1. /\ D \subseteq Addr /\ t.index \in [D -> AddrRec] /\ t.new \in [NewBucket -> SUBSET Addr]
      /\ \A c \in NewBucket : t.new[c] \subseteq D /\ Cardinality(t.new[c]) =< newBucketSize + 1
      /\ T \subseteq D /\ t.nNew = Cardinality({a \in D : ~t.index[a].tried})
    BY DEF NewAgrees
<1>2. \A a \in D :
         /\ t.index[a].refs = Cardinality(Holders(t.new, a))
         /\ t.index[a].refs =< newBucketsPerAddress
         /\ t.index[a].tried <=> a \in T
         /\ a \notin X => (t.index[a].tried <=> t.index[a].refs = 0)
         /\ t.index[a] \in AddrRec /\ t.index[a].refs \in Nat
    BY <1>1 DEF NewAgrees, AddrRec
<1>3. /\ u.index = [a \in D \ gone |->
                      IF a \in S THEN [t.index[a] EXCEPT !.refs = @ - 1] ELSE t.index[a]]
      /\ u.new = [t.new EXCEPT ![b] = @ \ S]
      /\ u.nNew = t.nNew - Cardinality(gone)
    BY DEF DropFromNew
<1>. HIDE DEF u
<1>4. ASSUME NEW a \in S
      PROVE  /\ a \in D /\ b \in Holders(t.new, a) /\ t.index[a].refs >= 1
             /\ ~t.index[a].tried /\ a \notin T
    <2>1. a \in D /\ b \in Holders(t.new, a)
        BY <1>1 DEF Holders
    <2>2. t.index[a].refs # 0
        BY <1>2, <2>1, HoldersFinite
    <2>. QED
        BY <1>2, <2>1, <2>2
<1>5. DOMAIN u.index = D \ gone /\ gone \subseteq S
    BY <1>3
<1>6. \A a \in D \ S : a \in DOMAIN u.index /\ u.index[a] = t.index[a]
    BY <1>3, <1>5
<1>7. ASSUME NEW a \in S, a \notin gone
      PROVE  /\ a \in D \ gone /\ u.index[a] \in AddrRec /\ u.index[a].refs = t.index[a].refs - 1
             /\ u.index[a].tried = t.index[a].tried /\ u.index[a].refs >= 1
    <2>1. a \in D \ gone /\ u.index[a] = [t.index[a] EXCEPT !.refs = @ - 1]
        BY <1>3, <1>4, <1>7
    <2>2. t.index[a] \in AddrRec /\ t.index[a].refs \in Nat /\ t.index[a].refs >= 2
        BY <1>2, <1>4, <1>7
    <2>. QED
        BY <2>1, <2>2 DEF AddrRec
<1>8. u.index \in [D \ gone -> AddrRec]
    <2>1. \A a \in D \ gone : u.index[a] \in AddrRec
        BY <1>2, <1>6, <1>7
    <2>. QED
        BY <1>3, <2>1
<1>9. /\ u.new \in [NewBucket -> SUBSET Addr] /\ u.new[b] = t.new[b] \ S
      /\ \A c \in NewBucket : u.new[c] \subseteq t.new[c] /\ (c # b => u.new[c] = t.new[c])
    BY <1>1, <1>3
<1>10. ASSUME NEW a \in D
       PROVE  Holders(u.new, a) = IF a \in S THEN Holders(t.new, a) \ {b} ELSE Holders(t.new, a)
    BY <1>9 DEF Holders
<1>11. ASSUME NEW c \in NewBucket PROVE u.new[c] \subseteq D \ gone
    <2>1. CASE c = b
        BY <1>1, <1>5, <1>9, <2>1
    <2>2. ASSUME c # b, NEW a \in u.new[c], a \in gone PROVE FALSE
        <3>1. a \in S /\ a \in D /\ c \in Holders(t.new, a) /\ b \in Holders(t.new, a)
            BY <1>4, <1>9, <2>2 DEF Holders
        <3>2. Cardinality(Holders(t.new, a)) = 1 /\ IsFiniteSet(Holders(t.new, a))
            BY <1>2, <2>2, <3>1, HoldersFinite
        <3>3. PICK x : Holders(t.new, a) = {x}
            BY <3>2, FS_Singleton
        <3>. QED
            BY <2>2, <3>1, <3>3
    <2>. QED
        BY <1>1, <1>9, <2>1, <2>2
<1>12. ASSUME NEW c \in NewBucket PROVE Cardinality(u.new[c]) =< newBucketSize + 1
    <2>1. IsFiniteSet(t.new[c]) /\ u.new[c] \in SUBSET t.new[c] /\ Cardinality(t.new[c]) \in Nat
        BY <1>1, <1>9, AddrsFinite
    <2>2. Cardinality(u.new[c]) =< Cardinality(t.new[c]) /\ Cardinality(u.new[c]) \in Nat
        BY <2>1, FS_Subset, FS_CardinalityType
    <2>. QED
        BY <1>1, <2>1, <2>2, AddrAssumption
<1>13. ASSUME NEW a \in D \ gone
       PROVE  /\ u.index[a].refs = Cardinality(Holders(u.new, a))
              /\ u.index[a].refs =< newBucketsPerAddress
              /\ u.index[a].tried <=> a \in T
              /\ a \notin X => (u.index[a].tried <=> u.index[a].refs = 0)
    <2>1. CASE a \in S
        <3>1. Cardinality(Holders(t.new, a) \ {b}) = Cardinality(Holders(t.new, a)) - 1
            BY <1>4, <2>1, HoldersFinite, FS_RemoveElement
        <3>2. u.index[a].refs = Cardinality(Holders(u.new, a))
            BY <1>2, <1>7, <1>10, <2>1, <3>1
        <3>. QED
            BY <1>2, <1>4, <1>7, <2>1, <3>2, AddrAssumption
    <2>2. CASE a \notin S
        BY <1>2, <1>6, <1>10, <2>2
    <2>. QED
        BY <2>1, <2>2
<1>14. T \subseteq D \ gone
    BY <1>1, <1>4, <1>5
<1>15. u.nNew = Cardinality({a \in D \ gone : ~u.index[a].tried})
    <2>. DEFINE N == {a \in D : ~t.index[a].tried}
    <2>1. {a \in D \ gone : ~u.index[a].tried} = N \ gone
        BY <1>6, <1>7
    <2>2. N \cap gone = gone
        BY <1>4, <1>5
    <2>3. IsFiniteSet(N)
        BY <1>1, AddrsFinite
    <2>4. Cardinality(N \ gone) = Cardinality(N) - Cardinality(N \cap gone)
        BY <2>3, FS_Difference
    <2>. QED
        BY <1>1, <1>3, <2>1, <2>2, <2>4
<1>16. NewAgrees(u, X, T)
    <2>1. D \ gone \subseteq Addr
        BY <1>1
    <2>. QED
        BY <1>3, <1>5, <1>8, <1>9, <1>11, <1>12, <1>13, <1>14, <1>15, <2>1 DEF NewAgrees
<1>17. ASSUME S # {} PROVE Cardinality(u.new[b]) =< newBucketSize
    <2>1. PICK a : a \in S
        BY <1>17
    <2>2. IsFiniteSet(t.new[b]) /\ Cardinality(t.new[b]) \in Nat
        BY <1>1, AddrsFinite
    <2>3. Cardinality(t.new[b] \ {a}) = Cardinality(t.new[b]) - 1 /\ IsFiniteSet(t.new[b] \ {a})
        BY <2>1, <2>2, FS_RemoveElement
    <2>4. u.new[b] \in SUBSET (t.new[b] \ {a})
        BY <1>9, <2>1
    <2>5. Cardinality(u.new[b]) =< Cardinality(t.new[b]) - 1 /\ Cardinality(u.new[b]) \in Nat
        BY <2>3, <2>4, FS_Subset, FS_CardinalityType
    <2>. QED
        BY <1>1, <2>2, <2>5, AddrAssumption
<1>. QED
    BY <1>3, <1>6, <1>16, <1>17 DEF u

(* An address gets a reference in a bucket with room.                      *)
LEMMA PlaceAgrees ==
    ASSUME NEW t, NEW x, NEW T, NewAgrees(t, {x}, T), NEW b \in NewBucket,
           x \in DOMAIN t.index, x \notin T, x \notin t.new[b],
           t.index[x].refs < newBucketsPerAddress, Cardinality(t.new[b]) =< newBucketSize
    PROVE  NewAgrees(Place(t, x, b), {}, T)
<1>. DEFINE D == DOMAIN t.index
            u == Place(t, x, b)
            r == [t.index[x] EXCEPT !.refs = t.index[x].refs + 1]
<1>1. /\ D \subseteq Addr /\ t.index \in [D -> AddrRec] /\ t.new \in [NewBucket -> SUBSET Addr]
      /\ \A c \in NewBucket : t.new[c] \subseteq D /\ Cardinality(t.new[c]) =< newBucketSize + 1
      /\ T \subseteq D /\ t.nNew = Cardinality({a \in D : ~t.index[a].tried})
    BY DEF NewAgrees
<1>2. \A a \in D :
         /\ t.index[a].refs = Cardinality(Holders(t.new, a))
         /\ t.index[a].refs =< newBucketsPerAddress
         /\ t.index[a].tried <=> a \in T
         /\ a # x => (t.index[a].tried <=> t.index[a].refs = 0)
         /\ t.index[a] \in AddrRec /\ t.index[a].refs \in Nat
    BY <1>1 DEF NewAgrees, AddrRec
<1>3. /\ u.index = [t.index EXCEPT ![x] = r] /\ u.new = [t.new EXCEPT ![b] = @ \union {x}]
      /\ u.nNew = t.nNew
    BY DEF Place
<1>4. r \in AddrRec /\ r.refs = t.index[x].refs + 1 /\ r.tried = t.index[x].tried
    BY <1>2 DEF AddrRec
<1>. HIDE DEF u, r
<1>5. /\ DOMAIN u.index = D /\ u.index \in [D -> AddrRec] /\ u.index[x] = r
      /\ \A a \in D : a # x => u.index[a] = t.index[a]
    BY <1>1, <1>3, <1>4
<1>6. /\ u.new \in [NewBucket -> SUBSET Addr] /\ u.new[b] = t.new[b] \union {x}
      /\ \A c \in NewBucket : c # b => u.new[c] = t.new[c]
    BY <1>1, <1>3
<1>7. ASSUME NEW a \in D
      PROVE  Holders(u.new, a) = IF a = x THEN Holders(t.new, a) \union {b} ELSE Holders(t.new, a)
    BY <1>6 DEF Holders
<1>8. Cardinality(Holders(u.new, x)) = Cardinality(Holders(t.new, x)) + 1
    <2>1. b \notin Holders(t.new, x)
        BY DEF Holders
    <2>. QED
        BY <1>7, <2>1, HoldersFinite, FS_AddElement
<1>9. ASSUME NEW c \in NewBucket
      PROVE  u.new[c] \subseteq D /\ Cardinality(u.new[c]) =< newBucketSize + 1
    <2>1. CASE c = b
        <3>1. IsFiniteSet(t.new[b]) /\ Cardinality(t.new[b]) \in Nat
            BY <1>1, AddrsFinite
        <3>2. Cardinality(t.new[b] \union {x}) = Cardinality(t.new[b]) + 1
            BY <3>1, FS_AddElement
        <3>5. u.new[c] = t.new[b] \union {x}
            BY <1>6, <2>1
        <3>6. Cardinality(t.new[b]) + 1 =< newBucketSize + 1
            BY <3>1, AddrAssumption
        <3>3. Cardinality(u.new[c]) =< newBucketSize + 1
            BY <3>2, <3>5, <3>6
        <3>4. u.new[c] \subseteq D
            BY <1>1, <1>6, <2>1
        <3>. QED
            BY <3>3, <3>4
    <2>2. CASE c # b
        BY <1>1, <1>6, <2>2
    <2>. QED
        BY <2>1, <2>2
<1>10. ASSUME NEW a \in D
       PROVE  /\ u.index[a].refs = Cardinality(Holders(u.new, a))
              /\ u.index[a].refs =< newBucketsPerAddress
              /\ u.index[a].tried <=> a \in T
              /\ u.index[a].tried <=> u.index[a].refs = 0
    <2>1. CASE a = x
        BY <1>2, <1>4, <1>5, <1>8, <2>1, AddrAssumption
    <2>2. CASE a # x
        BY <1>2, <1>5, <1>7, <2>2
    <2>. QED
        BY <2>1, <2>2
<1>11. u.nNew = Cardinality({a \in D : ~u.index[a].tried})
    <2>1. {a \in D : ~u.index[a].tried} = {a \in D : ~t.index[a].tried}
        BY <1>4, <1>5
    <2>. QED
        BY <1>1, <1>3, <2>1
<1>12. NewAgrees(u, {}, T)
    BY <1>1, <1>3, <1>5, <1>6, <1>9, <1>10, <1>11 DEF NewAgrees
<1>. QED
    BY <1>12 DEF u

(* updateAddress makes room in a bucket that is over its size.             *)
LEMMA ExpireAgrees ==
    ASSUME NEW t, NEW x, NEW T, NewAgrees(t, {x}, T), NEW b \in NewBucket,
           x \in DOMAIN t.index, x \notin t.new[b],
           Cardinality(t.new[b]) > newBucketSize, NEW u \in expireNew(t, b)
    PROVE  /\ NewAgrees(u, {x}, T) /\ x \in DOMAIN u.index /\ u.index[x] = t.index[x]
           /\ x \notin u.new[b] /\ Cardinality(u.new[b]) =< newBucketSize
<1>1. t.new[b] # {} /\ t.new \in [NewBucket -> SUBSET Addr]
    <2>1. t.new \in [NewBucket -> SUBSET Addr]
        BY DEF NewAgrees
    <2>2. Cardinality({}) = 0 /\ ~(0 > newBucketSize)
        BY FS_EmptySet, AddrAssumption
    <2>. QED
        BY <2>1, <2>2
<1>2. PICK S \in SUBSET t.new[b] : S # {} /\ u = DropFromNew(t, b, S)
    <2>. DEFINE Rest(bad) == t.new[b] \ bad
                Oldest(bad) == {a \in Rest(bad) : \A c \in Rest(bad) : t.index[a].stamp <= t.index[c].stamp}
                Drops(bad) == IF Rest(bad) = {} THEN {DropFromNew(t, b, bad)}
                              ELSE {DropFromNew(t, b, bad \union {a}) : a \in Oldest(bad)}
    <2>1. PICK bad \in SUBSET t.new[b] : u \in Drops(bad)
        BY DEF expireNew
    <2>2. CASE Rest(bad) = {}
        <3>1. bad # {} /\ u = DropFromNew(t, b, bad)
            BY <1>1, <2>1, <2>2
        <3>. QED
            BY <3>1
    <2>3. CASE Rest(bad) # {}
        <3>1. PICK a \in Oldest(bad) : u = DropFromNew(t, b, bad \union {a})
            BY <2>1, <2>3
        <3>2. bad \union {a} \in SUBSET t.new[b] /\ bad \union {a} # {}
            OBVIOUS
        <3>. QED
            BY <3>1, <3>2
    <2>. QED
        BY <2>2, <2>3
<1>3. {x} \cap S = {} /\ x \notin S
    OBVIOUS
<1>4. /\ NewAgrees(u, {x}, T) /\ u.new = [t.new EXCEPT ![b] = @ \ S]
      /\ x \in DOMAIN u.index /\ u.index[x] = t.index[x]
      /\ Cardinality(u.new[b]) =< newBucketSize
    BY <1>2, <1>3, DropAgrees
<1>. QED
    BY <1>1, <1>4

(* updateAddress, the part after the checks.                               *)
LEMMA PutAgrees ==
    ASSUME NEW t, NEW x \in Addr, NEW s \in Src, NEW T, NewAgrees(t, {x}, T),
           x \in DOMAIN t.index, x \notin T,
           t.index[x].refs < newBucketsPerAddress, NEW u \in PutInNew(t, x, s)
    PROVE  NewAgrees(u, {}, T)
<1>. DEFINE b == NewBucketOf[x][s]
<1>1. b \in NewBucket
    BY DEF NewBucket
<1>2. CASE x \in t.new[b]
    <2>1. u = t
        BY <1>2 DEF PutInNew
    <2>2. t.index[x].refs = Cardinality(Holders(t.new, x)) /\ b \in Holders(t.new, x)
          /\ (t.index[x].tried <=> x \in T)
        BY <1>1, <1>2 DEF NewAgrees, Holders
    <2>3. t.index[x].refs # 0
        BY <2>2, HoldersFinite
    <2>4. \A a \in DOMAIN t.index : t.index[a].tried <=> t.index[a].refs = 0
        BY <2>2, <2>3 DEF NewAgrees
    <2>. QED
        BY <2>1, <2>4 DEF NewAgrees
<1>3. CASE x \notin t.new[b]
    <2>1. PICK v \in (IF Cardinality(t.new[b]) > newBucketSize THEN expireNew(t, b) ELSE {t}) : u = Place(v, x, b)
        BY <1>3 DEF PutInNew
    <2>2. Cardinality(t.new[b]) \in Nat
        BY <1>1, AddrsFinite DEF NewAgrees
    <2>3. /\ NewAgrees(v, {x}, T) /\ x \in DOMAIN v.index /\ v.index[x] = t.index[x]
          /\ x \notin v.new[b] /\ Cardinality(v.new[b]) =< newBucketSize
        <3>1. CASE Cardinality(t.new[b]) > newBucketSize
            BY <1>1, <1>3, <2>1, <3>1, ExpireAgrees
        <3>2. CASE ~(Cardinality(t.new[b]) > newBucketSize)
            BY <1>3, <2>1, <2>2, <3>2, AddrAssumption
        <3>. QED
            BY <3>1, <3>2
    <2>. HIDE DEF b
    <2>. QED
        BY <1>1, <2>1, <2>3, PlaceAgrees
<1>. QED
    BY <1>2, <1>3

-----------------------------------------------------------------------------
(* A timestamp changes nothing else.                                       *)
LEMMA StampAgrees ==
    ASSUME NEW t, NEW T, NewAgrees(t, {}, T), NEW a \in DOMAIN t.index, NEW stamp \in Nat, NEW u,
           u.index = [t.index EXCEPT ![a].stamp = stamp], u.new = t.new, u.nNew = t.nNew
    PROVE  /\ NewAgrees(u, {}, T) /\ DOMAIN u.index = DOMAIN t.index
           /\ u.index[a].refs = t.index[a].refs /\ u.index[a].tried = t.index[a].tried
<1>1. t.index \in [DOMAIN t.index -> AddrRec]
    BY DEF NewAgrees
<1>2. /\ DOMAIN u.index = DOMAIN t.index /\ u.index \in [DOMAIN t.index -> AddrRec]
      /\ \A x \in DOMAIN t.index : u.index[x].refs = t.index[x].refs /\ u.index[x].tried = t.index[x].tried
    BY <1>1 DEF AddrRec
<1>3. {x \in DOMAIN u.index : ~u.index[x].tried} = {x \in DOMAIN t.index : ~t.index[x].tried}
    BY <1>2
<1>4. ASSUME NEW x \in DOMAIN u.index
      PROVE  /\ u.index[x].refs = Cardinality(Holders(u.new, x))
             /\ u.index[x].refs =< newBucketsPerAddress
             /\ u.index[x].tried <=> x \in T
             /\ u.index[x].tried <=> u.index[x].refs = 0
    BY <1>2 DEF NewAgrees
<1>5. /\ DOMAIN u.index \subseteq Addr /\ u.index \in [DOMAIN u.index -> AddrRec]
      /\ u.new \in [NewBucket -> SUBSET Addr]
      /\ \A b \in NewBucket : u.new[b] \subseteq DOMAIN u.index
      /\ \A b \in NewBucket : Cardinality(u.new[b]) =< newBucketSize + 1
      /\ T \subseteq DOMAIN u.index
    BY <1>2 DEF NewAgrees
<1>6. u.nNew = Cardinality({x \in DOMAIN u.index : ~u.index[x].tried})
    BY <1>3 DEF NewAgrees
<1>7. NewAgrees(u, {}, T)
    BY <1>4, <1>5, <1>6 DEF NewAgrees
<1>. QED
    BY <1>2, <1>7

(* An address that is on its way is not judged.                            *)
LEMMA FewerAgree ==
    ASSUME NEW t, NEW T, NEW X, NewAgrees(t, {}, T)
    PROVE  NewAgrees(t, X, T)
BY DEF NewAgrees

(* An address that was not known is.                                       *)
LEMMA FreshAgrees ==
    ASSUME NEW t, NEW T, NewAgrees(t, {}, T), NEW a \in Addr, a \notin DOMAIN t.index,
           NEW r \in AddrRec, r.refs = 0, ~r.tried, NEW u,
           u.index = With(t.index, a, r), u.new = t.new, u.nNew = t.nNew + 1
    PROVE  NewAgrees(u, {a}, T) /\ a \in DOMAIN u.index /\ a \notin T /\ u.index[a] = r
<1>. DEFINE D == DOMAIN t.index
<1>1. /\ D \subseteq Addr /\ t.index \in [D -> AddrRec] /\ t.new \in [NewBucket -> SUBSET Addr]
      /\ \A c \in NewBucket : t.new[c] \subseteq D
      /\ T \subseteq D /\ t.nNew = Cardinality({x \in D : ~t.index[x].tried})
    BY DEF NewAgrees
<1>2. /\ DOMAIN u.index = D \union {a} /\ u.index[a] = r
      /\ \A x \in D : u.index[x] = t.index[x] /\ x # a
    BY DEF With
<1>3. u.index \in [D \union {a} -> AddrRec]
    <2>1. \A x \in D \union {a} : u.index[x] \in AddrRec
        BY <1>1, <1>2
    <2>. QED
        BY <1>2, <2>1 DEF With
<1>4. Holders(u.new, a) = {}
    BY <1>1 DEF Holders
<1>5. Cardinality(Holders(u.new, a)) = 0
    BY <1>4, FS_EmptySet
<1>6. ASSUME NEW x \in D \union {a}
      PROVE  /\ u.index[x].refs = Cardinality(Holders(u.new, x))
             /\ u.index[x].refs =< newBucketsPerAddress
             /\ u.index[x].tried <=> x \in T
             /\ x \notin {a} => (u.index[x].tried <=> u.index[x].refs = 0)
    <2>1. CASE x = a
        BY <1>1, <1>2, <1>5, <2>1, AddrAssumption
    <2>2. CASE x \in D
        BY <1>2, <2>2 DEF NewAgrees
    <2>. QED
        BY <2>1, <2>2
<1>7. u.nNew = Cardinality({x \in D \union {a} : ~u.index[x].tried})
    <2>. DEFINE N == {x \in D : ~t.index[x].tried}
    <2>1. {x \in D \union {a} : ~u.index[x].tried} = N \union {a}
        BY <1>2
    <2>2. IsFiniteSet(N) /\ a \notin N
        BY <1>1, AddrsFinite
    <2>3. Cardinality(N \union {a}) = Cardinality(N) + 1
        BY <2>2, FS_AddElement
    <2>. QED
        BY <1>1, <2>1, <2>3
<1>8. /\ D \union {a} \subseteq Addr /\ T \subseteq D \union {a}
      /\ \A c \in NewBucket : u.new[c] \subseteq D \union {a} /\ Cardinality(u.new[c]) =< newBucketSize + 1
    BY <1>1 DEF NewAgrees
<1>9. NewAgrees(u, {a}, T)
    BY <1>1, <1>2, <1>3, <1>6, <1>7, <1>8 DEF NewAgrees
<1>. QED
    BY <1>1, <1>2, <1>9

(* AddAddress.                                                             *)
LEMMA AddKeeps ==
    ASSUME AddrInv, NEW a \in Addr, NEW s \in Src, NEW stamp \in Nat, AddAddress(a, s, stamp)
    PROVE  AddrInv'
<1>. DEFINE T == TriedSet(addrTried)
<1>1. NewAgrees(Tables, {}, T)
    BY DEF AddrInv
<1>2. Tables.index = addrIndex /\ Tables.new = addrNew /\ Tables.nNew = nNew
    BY DEF Tables
<1>3. UNCHANGED <<addrTried, nTried, peersFile>>
    BY DEF AddAddress
<1>4. \E u : NewAgrees(u, {}, T) /\ SetTables(u)
    <2>1. CASE a \in Known
        <3>. DEFINE t == IF stamp > addrIndex[a].stamp
                         THEN [Tables EXCEPT !.index[a].stamp = stamp] ELSE Tables
        <3>1. PICK u \in {t} \union (IF addrIndex[a].tried \/ addrIndex[a].refs = newBucketsPerAddress
                                     THEN {} ELSE PutInNew(t, a, s)) : SetTables(u)
            BY <2>1 DEF AddAddress
        <3>2. a \in DOMAIN Tables.index
            BY <1>2, <2>1 DEF Known
        <3>3. /\ NewAgrees(t, {}, T) /\ DOMAIN t.index = DOMAIN addrIndex
              /\ t.index[a].refs = addrIndex[a].refs /\ t.index[a].tried = addrIndex[a].tried
            <4>1. CASE stamp > addrIndex[a].stamp
                <5>1. t = [Tables EXCEPT !.index[a].stamp = stamp]
                    BY <4>1
                <5>2. t.index = [Tables.index EXCEPT ![a].stamp = stamp] /\ t.new = Tables.new /\ t.nNew = Tables.nNew
                    BY <5>1 DEF Tables
                <5>. HIDE DEF t
                <5>. QED
                    BY <1>1, <1>2, <3>2, <5>2, StampAgrees
            <4>2. CASE ~(stamp > addrIndex[a].stamp)
                BY <1>1, <1>2, <4>2
            <4>. QED
                BY <4>1, <4>2
        <3>. HIDE DEF t
        <3>4. CASE u = t
            BY <3>1, <3>3, <3>4
        <3>5. CASE /\ ~addrIndex[a].tried /\ addrIndex[a].refs # newBucketsPerAddress
                   /\ u \in PutInNew(t, a, s)
            <4>1. a \in DOMAIN t.index
                BY <3>2, <3>3, <1>2
            <4>2. NewAgrees(t, {a}, T)
                BY <3>3, FewerAgree
            <4>3. a \notin T /\ t.index[a].refs =< newBucketsPerAddress /\ t.index[a].refs \in Nat
                BY <3>3, <3>5, <4>1 DEF NewAgrees, AddrRec
            <4>4. t.index[a].refs < newBucketsPerAddress
                BY <3>3, <3>5, <4>3, AddrAssumption
            <4>. HIDE DEF T
            <4>5. NewAgrees(u, {}, T)
                BY <3>5, <4>1, <4>2, <4>3, <4>4, PutAgrees
            <4>. QED
                BY <3>1, <4>5
        <3>. QED
            BY <3>1, <3>4, <3>5
    <2>2. CASE a \notin Known
        <3>. DEFINE r == [stamp |-> stamp, src |-> s, tried |-> FALSE, refs |-> 0]
                    t == [Tables EXCEPT !.index = With(@, a, r), !.nNew = @ + 1]
        <3>1. PICK u \in PutInNew(t, a, s) : SetTables(u)
            BY <2>2 DEF AddAddress
        <3>2. t.index = With(Tables.index, a, r) /\ t.new = Tables.new /\ t.nNew = Tables.nNew + 1
            BY DEF Tables
        <3>3. r \in AddrRec /\ r.refs = 0 /\ ~r.tried
            BY DEF AddrRec
        <3>4. a \notin DOMAIN Tables.index
            BY <1>2, <2>2 DEF Known
        <3>. DEFINE o == Tables
        <3>8. NewAgrees(o, {}, T) /\ a \notin DOMAIN o.index
              /\ t.index = With(o.index, a, r) /\ t.new = o.new /\ t.nNew = o.nNew + 1
            BY <1>1, <3>2, <3>4
        <3>. HIDE DEF t, r, T, o
        <3>5. NewAgrees(t, {a}, T) /\ a \in DOMAIN t.index /\ a \notin T /\ t.index[a] = r
            BY <3>3, <3>8, FreshAgrees
        <3>6. t.index[a].refs < newBucketsPerAddress
            BY <3>3, <3>5, AddrAssumption
        <3>7. NewAgrees(u, {}, T)
            BY <3>1, <3>5, <3>6, PutAgrees
        <3>. QED
            BY <3>1, <3>7
    <2>. QED
        BY <2>1, <2>2
<1>5. PICK u : NewAgrees(u, {}, T) /\ SetTables(u)
    BY <1>4
<1>6. NewAgrees(Tables, {}, T)'
    BY <1>3, <1>5 DEF NewAgrees, Tables, SetTables
<1>. QED
    BY <1>3, <1>6 DEF AddrInv

(* Connected.                                                              *)
LEMMA ConnectedKeeps ==
    ASSUME AddrInv, NEW a \in Addr, Connected(a)
    PROVE  AddrInv'
<1>. DEFINE T == TriedSet(addrTried)
<1>1. NewAgrees(Tables, {}, T)
    BY DEF AddrInv
<1>2. /\ UNCHANGED <<addrNew, addrTried, nNew, nTried, peersFile>> /\ a \in DOMAIN addrIndex
      /\ addrIndex' = [addrIndex EXCEPT ![a].stamp = MaxStamp]
    BY DEF Connected, Known
<1>3. /\ Tables'.index = [Tables.index EXCEPT ![a].stamp = MaxStamp] /\ Tables'.new = Tables.new
      /\ Tables'.nNew = Tables.nNew /\ a \in DOMAIN Tables.index
    BY <1>2 DEF Tables
<1>. DEFINE t == Tables
            u == Tables'
<1>4. u.index = [t.index EXCEPT ![a].stamp = MaxStamp] /\ u.new = t.new /\ u.nNew = t.nNew
      /\ a \in DOMAIN t.index /\ NewAgrees(t, {}, T) /\ MaxStamp \in Nat
    BY <1>1, <1>3, AddrAssumption
<1>. HIDE DEF t, u, T
<1>5. NewAgrees(u, {}, T)
    BY <1>4, StampAgrees
<1>. QED
    BY <1>2, <1>5 DEF AddrInv, u, T

-----------------------------------------------------------------------------
(* An address is added to the list of a tried bucket.                      *)
LEMMA TriedAppend ==
    ASSUME NEW tr, NEW new, TriedAgrees(tr), NEW a \in Addr, a \notin TriedSet(tr), NEW tb \in TriedBucket,
           Len(tr[tb]) < triedBucketSize, new = [tr EXCEPT ![tb] = Append(tr[tb], a)]
    PROVE  TriedAgrees(new) /\ TriedSet(new) = TriedSet(tr) \union {a}
<1>. DEFINE s == tr[tb]
            w == Append(s, a)
<1>1. tr \in [TriedBucket -> Seq(Addr)] /\ s \in Seq(Addr)
    BY DEF TriedAgrees
<1>2. /\ w \in Seq(Addr) /\ Len(s) \in Nat /\ Len(w) = Len(s) + 1
      /\ DOMAIN s = 1..Len(s) /\ DOMAIN w = 1..(Len(s) + 1)
      /\ (\A l \in 1..Len(s) : w[l] = s[l]) /\ w[Len(s) + 1] = a
    BY <1>1, AppendAt
<1>. HIDE DEF w
<1>3. /\ new \in [TriedBucket -> Seq(Addr)] /\ new[tb] = w
      /\ \A b \in TriedBucket : b # tb => new[b] = tr[b]
    BY <1>1, <1>2 DEF w
<1>4. \A b \in TriedBucket : Len(new[b]) =< triedBucketSize
    <2>1. Len(w) =< triedBucketSize
        BY <1>2, AddrAssumption
    <2>. QED
        BY <1>3, <2>1 DEF TriedAgrees
<1>5. ASSUME NEW b \in TriedBucket, NEW i \in DOMAIN new[b]
      PROVE  \/ i \in DOMAIN tr[b] /\ new[b][i] = tr[b][i] /\ tr[b][i] # a
             \/ b = tb /\ i = Len(s) + 1 /\ new[b][i] = a
    <2>1. \A j \in DOMAIN tr[b] : tr[b][j] # a
        BY DEF TriedSet, InTried
    <2>2. CASE b = tb
        BY <1>2, <1>3, <2>1, <2>2
    <2>3. CASE b # tb
        BY <1>3, <2>1, <2>3
    <2>. QED
        BY <2>2, <2>3
<1>6. ASSUME NEW b \in TriedBucket, NEW c \in TriedBucket, NEW i \in DOMAIN new[b], NEW j \in DOMAIN new[c],
             new[b][i] = new[c][j]
      PROVE  b = c /\ i = j
    BY <1>5, <1>6 DEF TriedAgrees
<1>7. TriedAgrees(new)
    BY <1>3, <1>4, <1>6 DEF TriedAgrees
<1>8. ASSUME NEW x \in Addr PROVE InTried(new, x) <=> InTried(tr, x) \/ x = a
    <2>1. InTried(new, x) => InTried(tr, x) \/ x = a
        BY <1>5 DEF InTried
    <2>2. InTried(new, a)
        <3>1. Len(s) + 1 \in DOMAIN new[tb] /\ new[tb][Len(s) + 1] = a
            BY <1>2, <1>3
        <3>. QED
            BY <3>1 DEF InTried
    <2>3. ASSUME NEW b \in TriedBucket, NEW i \in DOMAIN tr[b] PROVE i \in DOMAIN new[b] /\ new[b][i] = tr[b][i]
        <3>1. CASE b = tb
            BY <1>2, <1>3, <3>1
        <3>2. CASE b # tb
            BY <1>3, <3>2
        <3>. QED
            BY <3>1, <3>2
    <2>4. InTried(tr, x) => InTried(new, x)
        BY <2>3 DEF InTried
    <2>. QED
        BY <2>1, <2>2, <2>4
<1>. QED
    BY <1>7, <1>8 DEF TriedSet

(* An address takes the place of another.                                  *)
LEMMA TriedReplace ==
    ASSUME NEW tr, NEW new, TriedAgrees(tr), NEW a \in Addr, a \notin TriedSet(tr), NEW tb \in TriedBucket,
           NEW p \in DOMAIN tr[tb],
           new \in [TriedBucket -> Seq(Addr)], \A b \in TriedBucket : DOMAIN new[b] = DOMAIN tr[b],
           new[tb][p] = a, \A b \in TriedBucket : \A l \in DOMAIN tr[b] : ~(b = tb /\ l = p) => new[b][l] = tr[b][l]
    PROVE  /\ TriedAgrees(new) /\ tr[tb][p] \in TriedSet(tr) /\ tr[tb][p] # a
           /\ TriedSet(new) = (TriedSet(tr) \ {tr[tb][p]}) \union {a}
<1>. DEFINE s == tr[tb]
            rm == s[p]
<1>1. tr \in [TriedBucket -> Seq(Addr)] /\ s \in Seq(Addr)
    BY DEF TriedAgrees
<1>2. /\ Len(s) \in Nat /\ DOMAIN s = 1..Len(s) /\ rm \in Addr
    BY <1>1, LenProperties, ElementOfSeq
<1>5. \A b \in TriedBucket : DOMAIN new[b] = DOMAIN tr[b] /\ Len(new[b]) =< triedBucketSize
    <2>1. ASSUME NEW b \in TriedBucket PROVE Len(new[b]) = Len(tr[b])
        <3>1. new[b] \in Seq(Addr) /\ tr[b] \in Seq(Addr) /\ DOMAIN new[b] = DOMAIN tr[b]
            BY <1>1
        <3>2. /\ Len(new[b]) \in Nat /\ DOMAIN new[b] = 1..Len(new[b])
              /\ Len(tr[b]) \in Nat /\ DOMAIN tr[b] = 1..Len(tr[b])
            BY <3>1, LenProperties
        <3>. QED
            BY <3>1, <3>2
    <2>. QED
        BY <2>1 DEF TriedAgrees
<1>6. rm \in TriedSet(tr) /\ rm # a
    <2>1. InTried(tr, rm)
        BY DEF InTried
    <2>. QED
        BY <1>2, <2>1 DEF TriedSet
<1>7. ASSUME NEW b \in TriedBucket, NEW i \in DOMAIN new[b]
      PROVE  \/ i \in DOMAIN tr[b] /\ new[b][i] = tr[b][i] /\ tr[b][i] # a /\ tr[b][i] # rm /\ ~(b = tb /\ i = p)
             \/ b = tb /\ i = p /\ new[b][i] = a
    <2>1. \A j \in DOMAIN tr[b] : tr[b][j] # a
        BY DEF TriedSet, InTried
    <2>2. i \in DOMAIN tr[b] /\ (tr[b][i] = rm => b = tb /\ i = p)
        BY <1>5 DEF TriedAgrees
    <2>. QED
        BY <2>1, <2>2
<1>8. ASSUME NEW b \in TriedBucket, NEW c \in TriedBucket, NEW i \in DOMAIN new[b], NEW j \in DOMAIN new[c],
             new[b][i] = new[c][j]
      PROVE  b = c /\ i = j
    BY <1>7, <1>8 DEF TriedAgrees
<1>9. TriedAgrees(new)
    BY <1>5, <1>8 DEF TriedAgrees
<1>10. ASSUME NEW x \in Addr PROVE InTried(new, x) <=> (InTried(tr, x) /\ x # rm) \/ x = a
    <2>1. InTried(new, x) => (InTried(tr, x) /\ x # rm) \/ x = a
        BY <1>7 DEF InTried
    <2>2. InTried(new, a)
        <3>1. p \in DOMAIN new[tb] /\ new[tb][p] = a
            BY <1>5
        <3>. QED
            BY <3>1 DEF InTried
    <2>3. ASSUME NEW b \in TriedBucket, NEW i \in DOMAIN tr[b], tr[b][i] # rm
          PROVE  i \in DOMAIN new[b] /\ new[b][i] = tr[b][i]
        <3>1. i \in DOMAIN new[b]
            BY <1>5
        <3>2. ~(b = tb /\ i = p)
            BY <2>3
        <3>. QED
            BY <3>1, <3>2
    <2>4. InTried(tr, x) /\ x # rm => InTried(new, x)
        BY <2>3 DEF InTried
    <2>. QED
        BY <2>1, <2>2, <2>4
<1>. QED
    BY <1>6, <1>9, <1>10 DEF TriedSet

(* An address leaves all new buckets for a tried one.                      *)
LEMMA LeaveAgrees ==
    ASSUME NEW t, NEW T, NewAgrees(t, {}, T), NEW a \in DOMAIN t.index, ~t.index[a].tried, NEW u,
           DOMAIN u.new = NewBucket, u.new \in [DOMAIN u.new -> SUBSET Addr],
           \A b \in NewBucket : u.new[b] = t.new[b] \ {a},
           DOMAIN u.index = DOMAIN t.index, u.index \in [DOMAIN t.index -> AddrRec],
           u.index[a].tried, u.index[a].refs = 0,
           \A x \in DOMAIN t.index \ {a} : u.index[x] = t.index[x],
           u.nNew = t.nNew - 1
    PROVE  /\ NewAgrees(u, {}, T \union {a}) /\ Holders(u.new, a) = {}
           /\ \A b \in Holders(t.new, a) : Cardinality(u.new[b]) =< newBucketSize
<1>. DEFINE D == DOMAIN t.index
<1>1. /\ D \subseteq Addr /\ t.index \in [D -> AddrRec] /\ t.new \in [NewBucket -> SUBSET Addr]
      /\ \A c \in NewBucket : t.new[c] \subseteq D /\ Cardinality(t.new[c]) =< newBucketSize + 1
      /\ T \subseteq D /\ t.nNew = Cardinality({x \in D : ~t.index[x].tried})
    BY DEF NewAgrees
<1>2. /\ u.new \in [NewBucket -> SUBSET Addr]
      /\ \A b \in NewBucket : u.new[b] = t.new[b] \ {a}
    BY <1>1
<1>3. Holders(u.new, a) = {} /\ \A x \in D \ {a} : Holders(u.new, x) = Holders(t.new, x)
    BY <1>2 DEF Holders
<1>4. ASSUME NEW b \in NewBucket
      PROVE  /\ Cardinality(u.new[b]) =< newBucketSize + 1
             /\ a \in t.new[b] => Cardinality(u.new[b]) =< newBucketSize
    <2>1. IsFiniteSet(t.new[b]) /\ Cardinality(t.new[b]) \in Nat
        BY <1>1, AddrsFinite
    <2>2. Cardinality(t.new[b] \ {a}) = IF a \in t.new[b] THEN Cardinality(t.new[b]) - 1 ELSE Cardinality(t.new[b])
        BY <2>1, FS_RemoveElement
    <2>3. u.new[b] = t.new[b] \ {a} /\ Cardinality(t.new[b]) =< newBucketSize + 1
        BY <1>1, <1>2
    <2>. QED
        BY <2>1, <2>2, <2>3, AddrAssumption
<1>5. ASSUME NEW x \in D
      PROVE  /\ u.index[x].refs = Cardinality(Holders(u.new, x))
             /\ u.index[x].refs =< newBucketsPerAddress
             /\ u.index[x].tried <=> x \in T \union {a}
             /\ u.index[x].tried <=> u.index[x].refs = 0
    <2>1. CASE x = a
        <3>1. Cardinality(Holders(u.new, x)) = 0
            BY <1>3, <2>1, FS_EmptySet
        <3>2. u.index[x].tried /\ u.index[x].refs = 0
            BY <2>1
        <3>3. 0 =< newBucketsPerAddress
            BY AddrAssumption
        <3>. QED
            BY <2>1, <3>1, <3>2, <3>3
    <2>2. CASE x # a
        BY <1>3, <2>2 DEF NewAgrees
    <2>. QED
        BY <2>1, <2>2
<1>6. u.nNew = Cardinality({x \in D : ~u.index[x].tried})
    <2>. DEFINE N == {x \in D : ~t.index[x].tried}
    <2>1. {x \in D : ~u.index[x].tried} = N \ {a} /\ a \in N
        OBVIOUS
    <2>2. IsFiniteSet(N)
        BY <1>1, AddrsFinite
    <2>3. Cardinality(N \ {a}) = Cardinality(N) - 1
        BY <2>1, <2>2, FS_RemoveElement
    <2>. QED
        BY <1>1, <2>1, <2>3
<1>7. /\ T \union {a} \subseteq D
      /\ \A c \in NewBucket : u.new[c] \subseteq D
    BY <1>1, <1>2
<1>8. NewAgrees(u, {}, T \union {a})
    BY <1>1, <1>2, <1>4, <1>5, <1>6, <1>7 DEF NewAgrees
<1>. QED
    BY <1>3, <1>4, <1>8 DEF Holders

(* An address leaves its tried bucket for a new one with room.             *)
LEMMA ReturnAgrees ==
    ASSUME NEW t, NEW T, NewAgrees(t, {}, T), NEW a \in DOMAIN t.index, t.index[a].tried, NEW u,
           NEW nb \in NewBucket, Cardinality(t.new[nb]) =< newBucketSize,
           u.new = [t.new EXCEPT ![nb] = t.new[nb] \union {a}],
           DOMAIN u.index = DOMAIN t.index, u.index \in [DOMAIN t.index -> AddrRec],
           ~u.index[a].tried, u.index[a].refs = 1,
           \A x \in DOMAIN t.index \ {a} : u.index[x] = t.index[x],
           u.nNew = t.nNew + 1
    PROVE  NewAgrees(u, {}, T \ {a})
<1>. DEFINE D == DOMAIN t.index
<1>1. /\ D \subseteq Addr /\ t.index \in [D -> AddrRec] /\ t.new \in [NewBucket -> SUBSET Addr]
      /\ \A c \in NewBucket : t.new[c] \subseteq D /\ Cardinality(t.new[c]) =< newBucketSize + 1
      /\ T \subseteq D /\ t.nNew = Cardinality({x \in D : ~t.index[x].tried})
    BY DEF NewAgrees
<1>2. /\ u.new \in [NewBucket -> SUBSET Addr] /\ u.new[nb] = t.new[nb] \union {a}
      /\ \A b \in NewBucket : b # nb => u.new[b] = t.new[b]
    BY <1>1
<1>3. Holders(t.new, a) = {}
    <2>1. t.index[a].refs = 0 /\ t.index[a].refs = Cardinality(Holders(t.new, a))
        BY DEF NewAgrees
    <2>. QED
        BY <2>1, HoldersFinite
<1>4. Holders(u.new, a) = {nb} /\ \A x \in D \ {a} : Holders(u.new, x) = Holders(t.new, x)
    BY <1>2, <1>3 DEF Holders
<1>5. ASSUME NEW b \in NewBucket PROVE Cardinality(u.new[b]) =< newBucketSize + 1
    <2>1. IsFiniteSet(t.new[b]) /\ Cardinality(t.new[b]) \in Nat
        BY <1>1, AddrsFinite
    <2>2. CASE b = nb
        <3>1. a \notin t.new[b]
            BY <1>3 DEF Holders
        <3>2. Cardinality(t.new[b] \union {a}) = Cardinality(t.new[b]) + 1
            BY <2>1, <3>1, FS_AddElement
        <3>3. u.new[b] = t.new[b] \union {a} /\ Cardinality(t.new[b]) =< newBucketSize
            BY <1>2, <2>2
        <3>4. Cardinality(t.new[b]) + 1 =< newBucketSize + 1
            BY <2>1, <3>3, AddrAssumption
        <3>. QED
            BY <3>2, <3>3, <3>4
    <2>3. CASE b # nb
        BY <1>1, <1>2, <2>3
    <2>. QED
        BY <2>2, <2>3
<1>6. ASSUME NEW x \in D
      PROVE  /\ u.index[x].refs = Cardinality(Holders(u.new, x))
             /\ u.index[x].refs =< newBucketsPerAddress
             /\ u.index[x].tried <=> x \in T \ {a}
             /\ u.index[x].tried <=> u.index[x].refs = 0
    <2>1. CASE x = a
        BY <1>4, <2>1, FS_Singleton, AddrAssumption
    <2>2. CASE x # a
        BY <1>4, <2>2 DEF NewAgrees
    <2>. QED
        BY <2>1, <2>2
<1>7. u.nNew = Cardinality({x \in D : ~u.index[x].tried})
    <2>. DEFINE N == {x \in D : ~t.index[x].tried}
    <2>1. {x \in D : ~u.index[x].tried} = N \union {a} /\ a \notin N
        OBVIOUS
    <2>2. IsFiniteSet(N)
        BY <1>1, AddrsFinite
    <2>3. Cardinality(N \union {a}) = Cardinality(N) + 1
        BY <2>1, <2>2, FS_AddElement
    <2>. QED
        BY <1>1, <2>1, <2>3
<1>8. /\ T \ {a} \subseteq D
      /\ \A c \in NewBucket : u.new[c] \subseteq D
    BY <1>1, <1>2
<1>. QED
    BY <1>1, <1>2, <1>5, <1>6, <1>7, <1>8 DEF NewAgrees


(* The oldest of a list that is not empty.                                 *)
LEMMA PickedTried ==
    ASSUME AddrInv, NEW b \in TriedBucket, DOMAIN addrTried[b] # {}
    PROVE  pickTried(b) \in DOMAIN addrTried[b]
<1>. DEFINE D == DOMAIN addrTried[b]
            rank == [i \in D |-> addrIndex[addrTried[b][i]].stamp]
<1>1. addrTried[b] \in Seq(Addr) /\ D \subseteq Nat
    <2>1. addrTried[b] \in Seq(Addr)
        BY DEF AddrInv, TriedAgrees
    <2>. QED
        BY <2>1, LenProperties
<1>2. \A i \in D : rank[i] \in Nat
    <2>1. ASSUME NEW i \in D PROVE addrTried[b][i] \in DOMAIN addrIndex
        <3>1. addrTried[b][i] \in TriedSet(addrTried)
            BY <1>1, ElementOfSeq, LenProperties DEF TriedSet, InTried
        <3>. QED
            BY <3>1 DEF AddrInv, NewAgrees, Tables
    <2>2. addrIndex \in [DOMAIN addrIndex -> AddrRec]
        BY DEF AddrInv, NewAgrees, Tables
    <2>. QED
        BY <2>1, <2>2 DEF AddrRec
<1>. HIDE DEF rank
<1>3. PICK x \in D : \A y \in D : rank[x] =< rank[y]
    BY <1>2, LeastRank
<1>. DEFINE M == {i \in D : rank[i] = rank[x]}
<1>4. M # {} /\ M \subseteq Nat
    BY <1>1, <1>3
<1>5. PICK i \in M : \A j \in M : i =< j
    BY <1>4, LeastNatural
<1>6. \A j \in D : rank[i] < rank[j] \/ (rank[i] = rank[j] /\ i <= j)
    BY <1>2, <1>3, <1>5
<1>7. \E k \in D : \A j \in D :
          \/ addrIndex[addrTried[b][k]].stamp < addrIndex[addrTried[b][j]].stamp
          \/ addrIndex[addrTried[b][k]].stamp = addrIndex[addrTried[b][j]].stamp /\ k <= j
    BY <1>5, <1>6 DEF rank
<1>. QED
    BY <1>7 DEF pickTried

(* The entry of an address that becomes a tried one.                       *)
LEMMA TriedRec ==
    ASSUME NEW r \in AddrRec
    PROVE  /\ [r EXCEPT !.tried = TRUE, !.refs = 0] \in AddrRec
           /\ [r EXCEPT !.tried = TRUE, !.refs = 0].tried
           /\ [r EXCEPT !.tried = TRUE, !.refs = 0].refs = 0
BY DEF AddrRec

(* The entry of a tried address that goes back to a new bucket.            *)
LEMMA ReturnedRec ==
    ASSUME NEW r \in AddrRec
    PROVE  /\ [r EXCEPT !.tried = FALSE, !.refs = 1] \in AddrRec
           /\ ~[r EXCEPT !.tried = FALSE, !.refs = 1].tried
           /\ [r EXCEPT !.tried = FALSE, !.refs = 1].refs = 1
BY DEF AddrRec

(* The tables of a good address's own move.                                *)
LEMMA GoodFacts ==
    ASSUME AddrInv, NEW a \in Addr, Good(a)
    PROVE  /\ a \in DOMAIN addrIndex /\ ~addrIndex[a].tried /\ a \notin TriedSet(addrTried)
           /\ addrIndex \in [DOMAIN addrIndex -> AddrRec]
           /\ addrIndex[a].refs = Cardinality(Holders(addrNew, a))
           /\ Holders(addrNew, a) # {} /\ TriedBucketOf[a] \in TriedBucket
           /\ addrTried \in [TriedBucket -> Seq(Addr)] /\ UNCHANGED peersFile
<1>1. /\ a \in DOMAIN addrIndex /\ ~addrIndex[a].tried /\ UNCHANGED peersFile
      /\ Holders(addrNew, a) # {}
    BY DEF Good, Known, Holders
<1>2. NewAgrees(Tables, {}, TriedSet(addrTried)) /\ TriedAgrees(addrTried)
    BY DEF AddrInv
<1>3. /\ addrIndex \in [DOMAIN addrIndex -> AddrRec]
      /\ addrIndex[a].refs = Cardinality(Holders(addrNew, a)) /\ a \notin TriedSet(addrTried)
    BY <1>1, <1>2 DEF NewAgrees, Tables
<1>. QED
    BY <1>1, <1>2, <1>3 DEF TriedAgrees, TriedBucket

(* Good, with room in the tried bucket.                                    *)
LEMMA GoodRoom ==
    ASSUME AddrInv, NEW a \in Addr, Good(a), Len(addrTried[TriedBucketOf[a]]) < triedBucketSize
    PROVE  AddrInv'
<1>. DEFINE T == TriedSet(addrTried)
            tb == TriedBucketOf[a]
            from == Holders(addrNew, a)
            t == Tables
            u == Tables'
<1>1. /\ a \in DOMAIN addrIndex /\ ~addrIndex[a].tried /\ a \notin T
      /\ addrIndex \in [DOMAIN addrIndex -> AddrRec] /\ addrIndex[a].refs = Cardinality(from)
      /\ tb \in TriedBucket /\ addrTried \in [TriedBucket -> Seq(Addr)] /\ UNCHANGED peersFile
    BY GoodFacts
<1>2. /\ addrIndex' = [addrIndex EXCEPT ![a].tried = TRUE, ![a].refs = @ - Cardinality(from)]
      /\ addrNew' = [b \in NewBucket |-> addrNew[b] \ {a}]
      /\ addrTried' = [addrTried EXCEPT ![tb] = Append(@, a)]
      /\ nTried' = nTried + 1 /\ nNew' = nNew - 1
    BY DEF Good, Holders
<1>3. /\ DOMAIN addrIndex' = DOMAIN addrIndex
      /\ addrIndex'[a] = [addrIndex[a] EXCEPT !.tried = TRUE, !.refs = addrIndex[a].refs - Cardinality(from)]
      /\ \A x \in DOMAIN addrIndex \ {a} : addrIndex'[x] = addrIndex[x]
    BY <1>1, <1>2
<1>4. addrIndex'[a] \in AddrRec /\ addrIndex'[a].tried /\ addrIndex'[a].refs = 0
    <2>1. addrIndex[a] \in AddrRec /\ addrIndex[a].refs \in Nat
        BY <1>1 DEF AddrRec
    <2>2. addrIndex[a].refs - Cardinality(from) = 0
        BY <1>1, <2>1
    <2>3. addrIndex'[a] = [addrIndex[a] EXCEPT !.tried = TRUE, !.refs = 0]
        BY <1>3, <2>2
    <2>. QED
        BY <2>1, <2>3, TriedRec
<1>5. addrIndex' \in [DOMAIN addrIndex -> AddrRec]
    <2>1. \A x \in DOMAIN addrIndex : addrIndex'[x] \in AddrRec
        BY <1>1, <1>3, <1>4
    <2>2. addrIndex' = [x \in DOMAIN addrIndex |-> addrIndex'[x]]
        BY <1>2
    <2>. QED
        BY <2>1, <2>2
<1>6. /\ NewAgrees(t, {}, T) /\ a \in DOMAIN t.index /\ ~t.index[a].tried
      /\ DOMAIN u.new = NewBucket /\ u.new \in [DOMAIN u.new -> SUBSET Addr]
      /\ \A b \in NewBucket : u.new[b] = t.new[b] \ {a}
      /\ DOMAIN u.index = DOMAIN t.index /\ u.index \in [DOMAIN t.index -> AddrRec]
      /\ u.index[a].tried /\ u.index[a].refs = 0
      /\ \A x \in DOMAIN t.index \ {a} : u.index[x] = t.index[x]
      /\ u.nNew = t.nNew - 1
    <2>1. NewAgrees(t, {}, T) /\ addrNew \in [NewBucket -> SUBSET Addr]
        BY DEF AddrInv, NewAgrees, Tables
    <2>. QED
        BY <1>1, <1>2, <1>3, <1>4, <1>5, <2>1 DEF Tables
<1>. HIDE DEF t, u, T
<1>7. NewAgrees(u, {}, T \union {a})
    BY <1>6, LeaveAgrees
<1>8. TriedAgrees(addrTried') /\ TriedSet(addrTried') = T \union {a}
    <2>1. TriedAgrees(addrTried) /\ addrTried' = [addrTried EXCEPT ![tb] = Append(addrTried[tb], a)]
        BY <1>2 DEF AddrInv
    <2>. QED
        BY <1>1, <2>1, TriedAppend DEF T
<1>9. nTried' = Cardinality(T \union {a})
    <2>1. IsFiniteSet(T) /\ nTried = Cardinality(T)
        BY AddrsFinite DEF AddrInv, T, TriedSet
    <2>. QED
        BY <1>1, <1>2, <2>1, FS_AddElement
<1>. QED
    BY <1>1, <1>7, <1>8, <1>9 DEF AddrInv, u

(* Good, with a full tried bucket: two addresses change places.            *)
LEMMA GoodFull ==
    ASSUME AddrInv, NEW a \in Addr, Good(a), ~(Len(addrTried[TriedBucketOf[a]]) < triedBucketSize)
    PROVE  AddrInv'
<1>. DEFINE T == TriedSet(addrTried)
            tb == TriedBucketOf[a]
            from == Holders(addrNew, a)
            new == [b \in NewBucket |-> addrNew[b] \ {a}]
            old == CHOOSE b \in from : \A c \in from : b <= c
            i == pickTried(tb)
            rm == addrTried[tb][i]
            own == NewBucketOf[rm][addrIndex[rm].src]
            nb == IF Cardinality(new[own]) >= newBucketSize THEN old ELSE own
            ra == [addrIndex[a] EXCEPT !.tried = TRUE, !.refs = addrIndex[a].refs - Cardinality(from)]
            rr == [addrIndex[rm] EXCEPT !.tried = FALSE, !.refs = addrIndex[rm].refs + 1]
            t == Tables
            m == [index |-> [addrIndex EXCEPT ![a] = ra], new |-> new, nNew |-> nNew - 1]
            u == Tables'
<1>1. /\ a \in DOMAIN addrIndex /\ ~addrIndex[a].tried /\ a \notin T /\ from # {}
      /\ addrIndex \in [DOMAIN addrIndex -> AddrRec] /\ addrIndex[a].refs = Cardinality(from)
      /\ tb \in TriedBucket /\ addrTried \in [TriedBucket -> Seq(Addr)] /\ UNCHANGED peersFile
    BY GoodFacts
<1>2. /\ addrIndex' = [addrIndex EXCEPT ![a].tried = TRUE, ![a].refs = @ - Cardinality(from),
                                        ![rm].tried = FALSE, ![rm].refs = @ + 1]
      /\ addrNew' = [new EXCEPT ![nb] = @ \union {rm}]
      /\ addrTried' = [addrTried EXCEPT ![tb][i] = a]
      /\ UNCHANGED <<nTried, nNew>>
    BY DEF Good, Holders
<1>3. i \in DOMAIN addrTried[tb]
    <2>1. addrTried[tb] \in Seq(Addr) /\ Len(addrTried[tb]) \in Nat /\ DOMAIN addrTried[tb] = 1..Len(addrTried[tb])
        BY <1>1, LenProperties
    <2>2. 1 \in DOMAIN addrTried[tb]
        BY <2>1, AddrAssumption
    <2>. QED
        BY <1>1, <2>2, PickedTried
<1>. HIDE DEF i
<1>4. /\ TriedAgrees(addrTried') /\ rm \in T /\ rm # a
      /\ TriedSet(addrTried') = (T \ {rm}) \union {a}
    <2>1. /\ TriedAgrees(addrTried) /\ addrTried' \in [TriedBucket -> Seq(Addr)]
          /\ \A b \in TriedBucket : DOMAIN addrTried'[b] = DOMAIN addrTried[b]
          /\ addrTried'[tb][i] = a
          /\ \A b \in TriedBucket : \A l \in DOMAIN addrTried[b] :
                ~(b = tb /\ l = i) => addrTried'[b][l] = addrTried[b][l]
        <3>. DEFINE w == [addrTried[tb] EXCEPT ![i] = a]
        <3>1. TriedAgrees(addrTried) /\ addrTried' = [addrTried EXCEPT ![tb] = w]
            BY <1>2 DEF AddrInv
        <3>2. addrTried[tb] \in Seq(Addr) /\ i \in 1..Len(addrTried[tb])
            BY <1>1, <1>3, LenProperties
        <3>3. /\ w \in Seq(Addr) /\ DOMAIN w = DOMAIN addrTried[tb] /\ w[i] = a
              /\ \A l \in DOMAIN addrTried[tb] : l # i => w[l] = addrTried[tb][l]
            BY <1>3, <3>2, ExceptSeq
        <3>. HIDE DEF w
        <3>. QED
            BY <1>1, <3>1, <3>3
    <2>2. a \notin TriedSet(addrTried) /\ tb \in TriedBucket /\ i \in DOMAIN addrTried[tb]
        BY <1>1, <1>3
    <2>. HIDE DEF T, tb, rm, new, m, t, u, ra, rr, from, old, own, nb
    <2>3. /\ TriedAgrees(addrTried') /\ addrTried[tb][i] \in TriedSet(addrTried) /\ addrTried[tb][i] # a
          /\ TriedSet(addrTried') = (TriedSet(addrTried) \ {addrTried[tb][i]}) \union {a}
        BY <2>1, <2>2, TriedReplace
    <2>. QED
        BY <2>3 DEF T, rm
<1>. HIDE DEF rm
<1>5. /\ rm \in DOMAIN addrIndex /\ addrIndex[rm].tried /\ addrIndex[rm].refs = 0
      /\ NewAgrees(t, {}, T) /\ addrIndex[rm] \in AddrRec /\ own \in NewBucket
    <2>1. NewAgrees(t, {}, T)
        BY DEF AddrInv
    <2>2. rm \in DOMAIN addrIndex /\ addrIndex[rm].tried /\ addrIndex[rm].refs = 0
        BY <1>4, <2>1 DEF NewAgrees, Tables
    <2>3. addrIndex[rm] \in AddrRec /\ rm \in Addr /\ addrIndex[rm].src \in Src
        BY <1>1, <1>4, <2>2 DEF AddrRec, TriedSet
    <2>. QED
        BY <2>1, <2>2, <2>3 DEF NewBucket
<1>6. old \in from
    <2>1. from \subseteq Nat
        BY AddrAssumption DEF Holders
    <2>2. \E b \in from : \A c \in from : b <= c
        BY <1>1, <2>1, LeastNatural
    <2>. QED
        BY <2>2
<1>. HIDE DEF old, own
<1>7. ra \in AddrRec /\ ra.tried /\ ra.refs = 0 /\ rr \in AddrRec /\ ~rr.tried /\ rr.refs = 1
    <2>1. addrIndex[a] \in AddrRec /\ addrIndex[a].refs \in Nat
        BY <1>1 DEF AddrRec
    <2>2. addrIndex[a].refs - Cardinality(from) = 0 /\ addrIndex[rm].refs + 1 = 1
        BY <1>1, <1>5, <2>1
    <2>3. /\ ra = [addrIndex[a] EXCEPT !.tried = TRUE, !.refs = 0]
          /\ rr = [addrIndex[rm] EXCEPT !.tried = FALSE, !.refs = 1]
        BY <2>2
    <2>. HIDE DEF ra, rr
    <2>4. ra \in AddrRec /\ ra.tried /\ ra.refs = 0
        BY <2>1, <2>3, TriedRec
    <2>5. rr \in AddrRec /\ ~rr.tried /\ rr.refs = 1
        BY <1>5, <2>3, ReturnedRec
    <2>. QED
        BY <2>4, <2>5
<1>8. addrIndex' = [[addrIndex EXCEPT ![a] = ra] EXCEPT ![rm] = rr]
    BY <1>1, <1>2, <1>4, <1>5
<1>. HIDE DEF ra, rr, from
<1>9. /\ NewAgrees(t, {}, T) /\ a \in DOMAIN t.index /\ ~t.index[a].tried
      /\ DOMAIN m.new = NewBucket /\ m.new \in [DOMAIN m.new -> SUBSET Addr]
      /\ \A b \in NewBucket : m.new[b] = t.new[b] \ {a}
      /\ DOMAIN m.index = DOMAIN t.index /\ m.index \in [DOMAIN t.index -> AddrRec]
      /\ m.index[a].tried /\ m.index[a].refs = 0
      /\ \A x \in DOMAIN t.index \ {a} : m.index[x] = t.index[x]
      /\ m.nNew = t.nNew - 1
    <2>1. addrNew \in [NewBucket -> SUBSET Addr]
        BY <1>5 DEF NewAgrees, Tables
    <2>. QED
        BY <1>1, <1>5, <1>7, <2>1 DEF Tables
<1>10. /\ rm \in DOMAIN m.index /\ m.index[rm].tried
       /\ u.new = [m.new EXCEPT ![nb] = m.new[nb] \union {rm}]
       /\ DOMAIN u.index = DOMAIN m.index /\ u.index \in [DOMAIN m.index -> AddrRec]
       /\ ~u.index[rm].tried /\ u.index[rm].refs = 1
       /\ \A x \in DOMAIN m.index \ {rm} : u.index[x] = m.index[x]
    BY <1>1, <1>2, <1>4, <1>5, <1>7, <1>8 DEF Tables
<1>11. u.nNew = m.nNew + 1
    <2>1. nNew \in Nat
        <3>1. nNew = Cardinality({x \in DOMAIN addrIndex : ~addrIndex[x].tried}) /\ DOMAIN addrIndex \subseteq Addr
            BY <1>5 DEF NewAgrees, Tables
        <3>. QED
            BY <3>1, AddrsFinite
    <2>. QED
        BY <1>2, <2>1 DEF Tables
<1>12. Holders(t.new, a) = from /\ \A b \in NewBucket : m.new[b] = new[b]
    BY DEF Tables, from
<1>. HIDE DEF t, m, u, T, new
<1>13. /\ NewAgrees(m, {}, T \union {a})
       /\ \A b \in from : Cardinality(m.new[b]) =< newBucketSize
    <2>1. /\ NewAgrees(m, {}, T \union {a})
          /\ \A b \in Holders(t.new, a) : Cardinality(m.new[b]) =< newBucketSize
        BY <1>9, LeaveAgrees
    <2>. QED
        BY <1>12, <2>1
<1>14. nb \in NewBucket /\ Cardinality(m.new[nb]) =< newBucketSize
    <2>1. old \in NewBucket /\ Cardinality(m.new[old]) =< newBucketSize
        BY <1>6, <1>13 DEF from, Holders
    <2>2. ASSUME ~(Cardinality(new[own]) >= newBucketSize) PROVE Cardinality(m.new[own]) =< newBucketSize
        <3>1. m.new[own] \subseteq Addr
            BY <1>5, <1>13 DEF NewAgrees
        <3>2. Cardinality(m.new[own]) \in Nat /\ m.new[own] = new[own]
            BY <1>5, <1>12, <3>1, AddrsFinite
        <3>. QED
            BY <2>2, <3>2, AddrAssumption
    <2>. QED
        BY <1>5, <2>1, <2>2
<1>. HIDE DEF nb
<1>15. NewAgrees(u, {}, (T \union {a}) \ {rm})
    BY <1>10, <1>11, <1>13, <1>14, ReturnAgrees
<1>16. (T \union {a}) \ {rm} = (T \ {rm}) \union {a}
    BY <1>4
<1>17. nTried' = Cardinality((T \ {rm}) \union {a})
    <2>1. IsFiniteSet(T) /\ nTried = Cardinality(T) /\ Cardinality(T) \in Nat
        BY AddrsFinite DEF AddrInv, T, TriedSet
    <2>2. Cardinality(T \ {rm}) = Cardinality(T) - 1 /\ IsFiniteSet(T \ {rm})
        BY <1>4, <2>1, FS_RemoveElement
    <2>3. Cardinality((T \ {rm}) \union {a}) = Cardinality(T \ {rm}) + 1
        BY <1>1, <2>2, FS_AddElement
    <2>. QED
        BY <1>2, <2>1, <2>2, <2>3
<1>. QED
    BY <1>1, <1>4, <1>15, <1>16, <1>17 DEF AddrInv, u


-----------------------------------------------------------------------------
(* An address is in the list of a tried bucket.                            *)
LEMMA TriedMember ==
    ASSUME NEW tried, NEW a
    PROVE  (\E b \in TriedBucket : a \in ToSet(tried[b])) = InTried(tried, a)
BY DEF ToSet, InTried

(* The file that holds nothing, or half of what was saved.                 *)
LEMMA EmptyFile == FileAgrees(Nothing) /\ FileAgrees(Half) /\ TriedSet(Nothing.tried) = {}
<1>. DEFINE news == [b \in NewBucket |-> {}]
            lists == [b \in TriedBucket |-> <<>>]
<1>1. /\ Nothing.src = <<>> /\ Nothing.new = news /\ Nothing.tried = lists
      /\ Half.src = <<>> /\ Half.new = news /\ Half.tried = lists
    BY DEF Nothing, Half
<1>2. Cardinality({}) = 0 /\ DOMAIN <<>> = {}
    BY FS_EmptySet
<1>3. TriedAgrees(lists)
    <2>1. lists \in [TriedBucket -> Seq(Addr)] /\ \A b \in TriedBucket : Len(lists[b]) = 0 /\ DOMAIN lists[b] = {}
        BY EmptySeq
    <2>2. 0 =< triedBucketSize
        BY AddrAssumption
    <2>. QED
        BY <2>1, <2>2 DEF TriedAgrees
<1>4. TriedSet(lists) = {}
    BY <1>2 DEF TriedSet, InTried
<1>5. \A b \in NewBucket : news[b] = {} /\ Cardinality(news[b]) =< newBucketSize + 1
    BY <1>2, AddrAssumption
<1>6. news \in [NewBucket -> SUBSET Addr]
    OBVIOUS
<1>7. <<>> \in [{} -> Src]
    BY <1>2
<1>. HIDE DEF news, lists
<1>. QED
    BY <1>1, <1>2, <1>3, <1>4, <1>5, <1>6, <1>7 DEF FileAgrees

(* The tables are saved whole, or half of them.                            *)
LEMMA SaveKeeps ==
    ASSUME AddrInv, savePeers
    PROVE  AddrInv'
<1>. DEFINE f == [whole |-> TRUE, src |-> [a \in Known |-> addrIndex[a].src],
                  new |-> addrNew, tried |-> addrTried]
<1>1. /\ peersFile' \in {Half, f}
      /\ UNCHANGED <<addrIndex, addrNew, addrTried, nNew, nTried>>
    BY DEF savePeers
<1>2. NewAgrees(Tables, {}, TriedSet(addrTried)) /\ TriedAgrees(addrTried)
    BY DEF AddrInv
<1>3. /\ Known \subseteq Addr /\ addrIndex \in [Known -> AddrRec]
      /\ addrNew \in [NewBucket -> SUBSET Addr]
      /\ \A b \in NewBucket : addrNew[b] \subseteq Known /\ Cardinality(addrNew[b]) =< newBucketSize + 1
      /\ TriedSet(addrTried) \subseteq Known
    BY <1>2 DEF NewAgrees, Tables, Known
<1>4. ASSUME NEW a \in Known
      PROVE  /\ Cardinality(Holders(addrNew, a)) =< newBucketsPerAddress
             /\ InTried(addrTried, a) <=> Holders(addrNew, a) = {}
    <2>1. /\ addrIndex[a].refs = Cardinality(Holders(addrNew, a))
          /\ addrIndex[a].refs =< newBucketsPerAddress
          /\ addrIndex[a].tried <=> a \in TriedSet(addrTried)
          /\ addrIndex[a].tried <=> addrIndex[a].refs = 0
        BY <1>2 DEF NewAgrees, Tables, Known
    <2>2. a \in TriedSet(addrTried) <=> InTried(addrTried, a)
        BY <1>3 DEF TriedSet
    <2>3. Cardinality(Holders(addrNew, a)) = 0 <=> Holders(addrNew, a) = {}
        BY HoldersFinite
    <2>. QED
        BY <2>1, <2>2, <2>3
<1>5. /\ DOMAIN f.src = Known /\ f.src \in [Known -> Src]
      /\ f.new = addrNew /\ f.tried = addrTried
    BY <1>3 DEF AddrRec
<1>. HIDE DEF f
<1>6. FileAgrees(f)
    BY <1>2, <1>3, <1>4, <1>5 DEF FileAgrees
<1>7. FileAgrees(peersFile')
    BY <1>1, <1>6, EmptyFile
<1>. QED
    BY <1>1, <1>7 DEF AddrInv, NewAgrees, Tables

(* The lists have as many entries as there are tried addresses.            *)
LEMMA TriedCount ==
    ASSUME NEW tried, TriedAgrees(tried)
    PROVE  Cardinality(UNION {{b} \X DOMAIN tried[b] : b \in TriedBucket}) = Cardinality(TriedSet(tried))
<1>. DEFINE P == UNION {{b} \X DOMAIN tried[b] : b \in TriedBucket}
            T == TriedSet(tried)
            g == [p \in P |-> tried[p[1]][p[2]]]
<1>1. ASSUME NEW p \in P
      PROVE  /\ p[1] \in TriedBucket /\ p[2] \in DOMAIN tried[p[1]] /\ p = <<p[1], p[2]>>
             /\ tried[p[1]][p[2]] \in T
    <2>1. PICK b \in TriedBucket : p \in {b} \X DOMAIN tried[b]
        OBVIOUS
    <2>2. p[1] = b /\ p[2] \in DOMAIN tried[b] /\ p = <<p[1], p[2]>>
        BY <2>1
    <2>3. tried[b] \in Seq(Addr)
        BY DEF TriedAgrees
    <2>4. tried[b][p[2]] \in Addr
        BY <2>2, <2>3, LenProperties, ElementOfSeq
    <2>. QED
        BY <2>2, <2>4 DEF TriedSet, InTried
<1>2. ASSUME NEW b \in TriedBucket, NEW i \in DOMAIN tried[b]
      PROVE  <<b, i>> \in P
    <2>1. <<b, i>> \in {b} \X DOMAIN tried[b]
        OBVIOUS
    <2>. QED
        BY <2>1
<1>. HIDE DEF P
<1>3. g \in [P -> T]
    BY <1>1
<1>4. ASSUME NEW p \in P, NEW q \in P, g[p] = g[q] PROVE p = q
    <2>1. p[1] = q[1] /\ p[2] = q[2]
        BY <1>1, <1>4 DEF TriedAgrees
    <2>. QED
        BY <1>1, <2>1
<1>5. ASSUME NEW a \in T PROVE \E p \in P : g[p] = a
    <2>3. PICK b \in TriedBucket : \E j \in DOMAIN tried[b] : tried[b][j] = a
        BY DEF TriedSet, InTried
    <2>1. PICK i \in DOMAIN tried[b] : tried[b][i] = a
        BY <2>3
    <2>2. <<b, i>> \in P /\ g[<<b, i>>] = a
        BY <1>2, <2>1
    <2>. QED
        BY <2>2
<1>. HIDE DEF g
<1>6. g \in Injection(P, T) /\ g \in Surjection(P, T)
    BY <1>3, <1>4, <1>5 DEF Injection, IsInjective, Surjection
<1>7. IsFiniteSet(T)
    BY AddrsFinite DEF TriedSet
<1>. QED
    BY <1>6, <1>7, FS_Injection DEF P

(* The tables that a restart builds.                                       *)
LEMMA RestartKeeps ==
    ASSUME AddrInv, Restart
    PROVE  AddrInv'
<1>. DEFINE f == IF peersFile.whole THEN peersFile ELSE Nothing
            D == DOMAIN f.src
            T == TriedSet(f.tried)
            rec(a) == [stamp |-> MaxStamp, src |-> f.src[a],
                       tried |-> InTried(f.tried, a), refs |-> Cardinality(Holders(f.new, a))]
<1>1. FileAgrees(f)
    BY EmptyFile DEF AddrInv
<1>2. /\ addrIndex' = [a \in D |-> rec(a)] /\ addrNew' = f.new /\ addrTried' = f.tried /\ peersFile' = f
      /\ nNew' = Cardinality({a \in D : Cardinality(Holders(f.new, a)) > 0})
      /\ nTried' = Cardinality(UNION {{b} \X DOMAIN f.tried[b] : b \in TriedBucket})
    <2>1. \A a : (\E b \in TriedBucket : a \in ToSet(f.tried[b])) = InTried(f.tried, a)
        BY TriedMember
    <2>2. /\ addrIndex' = [a \in D |-> [stamp |-> MaxStamp, src |-> f.src[a],
                                        tried |-> (\E b \in TriedBucket : a \in ToSet(f.tried[b])),
                                        refs |-> Cardinality(Holders(f.new, a))]]
          /\ addrNew' = f.new /\ addrTried' = f.tried /\ peersFile' = f
          /\ nNew' = Cardinality({a \in D : Cardinality(Holders(f.new, a)) > 0})
          /\ nTried' = Cardinality(UNION {{b} \X DOMAIN f.tried[b] : b \in TriedBucket})
        BY DEF Restart, Holders
    <2>. HIDE DEF f
    <2>. QED
        BY <2>1, <2>2
<1>. HIDE DEF f
<1>3. /\ D \subseteq Addr /\ f.src \in [D -> Src] /\ f.new \in [NewBucket -> SUBSET Addr]
      /\ \A b \in NewBucket : f.new[b] \subseteq D /\ Cardinality(f.new[b]) =< newBucketSize + 1
      /\ TriedAgrees(f.tried) /\ T \subseteq D
    BY <1>1 DEF FileAgrees
<1>4. ASSUME NEW a \in D
      PROVE  /\ rec(a) \in AddrRec /\ rec(a).refs = Cardinality(Holders(f.new, a))
             /\ rec(a).refs =< newBucketsPerAddress
             /\ rec(a).tried <=> a \in T
             /\ rec(a).tried <=> rec(a).refs = 0
             /\ ~rec(a).tried <=> Cardinality(Holders(f.new, a)) > 0
    <2>1. /\ Cardinality(Holders(f.new, a)) =< newBucketsPerAddress
          /\ InTried(f.tried, a) <=> Holders(f.new, a) = {}
        BY <1>1 DEF FileAgrees
    <2>2. /\ Cardinality(Holders(f.new, a)) \in Nat
          /\ Cardinality(Holders(f.new, a)) = 0 <=> Holders(f.new, a) = {}
        BY HoldersFinite
    <2>3. a \in T <=> InTried(f.tried, a)
        BY <1>3 DEF TriedSet
    <2>4. f.src[a] \in Src /\ MaxStamp \in Nat /\ InTried(f.tried, a) \in BOOLEAN
        BY <1>3, AddrAssumption DEF InTried
    <2>5. rec(a) \in AddrRec
        BY <2>2, <2>4 DEF AddrRec
    <2>6. Cardinality(Holders(f.new, a)) > 0 <=> Cardinality(Holders(f.new, a)) # 0
        BY <2>2
    <2>7. rec(a).refs = Cardinality(Holders(f.new, a)) /\ (rec(a).tried <=> InTried(f.tried, a))
        OBVIOUS
    <2>. HIDE DEF rec
    <2>. QED
        BY <2>1, <2>2, <2>3, <2>5, <2>6, <2>7
<1>. HIDE DEF rec
<1>5. {a \in D : ~addrIndex'[a].tried} = {a \in D : Cardinality(Holders(f.new, a)) > 0}
    BY <1>2, <1>4
<1>6. DOMAIN addrIndex' = D /\ addrIndex' \in [D -> AddrRec]
    BY <1>2, <1>4
<1>7. NewAgrees(Tables', {}, T)
    <2>1. Tables'.index = addrIndex' /\ Tables'.new = f.new /\ Tables'.nNew = nNew'
        BY <1>2 DEF Tables
    <2>2. ASSUME NEW a \in D
          PROVE  /\ addrIndex'[a].refs = Cardinality(Holders(f.new, a))
                 /\ addrIndex'[a].refs =< newBucketsPerAddress
                 /\ addrIndex'[a].tried <=> a \in T
                 /\ addrIndex'[a].tried <=> addrIndex'[a].refs = 0
        BY <1>2, <1>4
    <2>3. nNew' = Cardinality({a \in D : ~addrIndex'[a].tried})
        BY <1>2, <1>5
    <2>. HIDE DEF T
    <2>. QED
        BY <1>3, <1>6, <2>1, <2>2, <2>3 DEF NewAgrees
<1>8. nTried' = Cardinality(T)
    BY <1>2, <1>3, TriedCount
<1>. QED
    BY <1>1, <1>2, <1>3, <1>7, <1>8 DEF AddrInv

(* Every step keeps the tables, the counters and the file in agreement.    *)
LEMMA AddrStep ==
    ASSUME AddrInv, [NextAddr]_addrVars
    PROVE  AddrInv'
<1>1. ASSUME NEW a \in Addr, NEW s \in Src, NEW stamp \in 1..MaxStamp, AddAddress(a, s, stamp)
      PROVE  AddrInv'
    BY <1>1, AddKeeps
<1>2. ASSUME NEW a \in Addr, Good(a) PROVE AddrInv'
    BY <1>2, GoodRoom, GoodFull
<1>3. ASSUME NEW a \in Addr, Connected(a) PROVE AddrInv'
    BY <1>3, ConnectedKeeps
<1>4. CASE savePeers
    BY <1>4, SaveKeeps
<1>5. CASE Restart
    BY <1>5, RestartKeeps
<1>6. CASE UNCHANGED addrVars
    BY <1>6 DEF addrVars, AddrInv, NewAgrees, Tables
<1>. QED
    BY <1>1, <1>2, <1>3, <1>4, <1>5, <1>6 DEF NextAddr

(* The node starts with no address.                                        *)
LEMMA AddrStart ==
    ASSUME InitAddr
    PROVE  AddrInv
<1>1. FileAgrees(Nothing) /\ TriedSet(Nothing.tried) = {} /\ DOMAIN <<>> = {} /\ Cardinality({}) = 0
    BY EmptyFile, FS_EmptySet
<1>2. /\ addrIndex = <<>> /\ addrNew = Nothing.new /\ addrTried = Nothing.tried
      /\ nNew = 0 /\ nTried = 0 /\ peersFile = Nothing
    BY DEF InitAddr
<1>3. /\ Nothing.new \in [NewBucket -> SUBSET Addr] /\ TriedAgrees(Nothing.tried)
      /\ \A b \in NewBucket : Nothing.new[b] \subseteq {} /\ Cardinality(Nothing.new[b]) =< newBucketSize + 1
    <2>1. Nothing.src = <<>>
        BY DEF Nothing
    <2>. QED
        BY <1>1, <2>1 DEF FileAgrees
<1>4. NewAgrees(Tables, {}, {})
    <2>1. Tables.index = <<>> /\ Tables.new = Nothing.new /\ Tables.nNew = 0
        BY <1>2 DEF Tables
    <2>2. {a \in DOMAIN <<>> : ~Tables.index[a].tried} = {} /\ <<>> \in [DOMAIN <<>> -> AddrRec]
        BY <1>1
    <2>. QED
        BY <1>1, <1>3, <2>1, <2>2 DEF NewAgrees
<1>. QED
    BY <1>1, <1>2, <1>3, <1>4 DEF AddrInv

(* The places of an address in the tried buckets.                          *)
LEMMA PlacesCount ==
    ASSUME NEW tried, TriedAgrees(tried), NEW a
    PROVE  Cardinality({p \in TriedBucket \X (1..triedBucketSize) :
                          p[2] \in DOMAIN tried[p[1]] /\ tried[p[1]][p[2]] = a})
             = IF InTried(tried, a) THEN 1 ELSE 0
<1>. DEFINE P == {p \in TriedBucket \X (1..triedBucketSize) :
                    p[2] \in DOMAIN tried[p[1]] /\ tried[p[1]][p[2]] = a}
<1>1. CASE InTried(tried, a)
    <2>6. PICK b \in TriedBucket : \E j \in DOMAIN tried[b] : tried[b][j] = a
        BY <1>1 DEF InTried
    <2>1. PICK i \in DOMAIN tried[b] : tried[b][i] = a
        BY <2>6
    <2>2. i \in 1..triedBucketSize
        <3>1. tried[b] \in Seq(Addr) /\ Len(tried[b]) =< triedBucketSize
            BY DEF TriedAgrees
        <3>2. Len(tried[b]) \in Nat /\ i \in 1..Len(tried[b])
            BY <3>1, LenProperties
        <3>. QED
            BY <3>1, <3>2, AddrAssumption
    <2>3. <<b, i>> \in P
        BY <2>1, <2>2
    <2>4. ASSUME NEW p \in P PROVE p = <<b, i>>
        <3>1. p[1] \in TriedBucket /\ p = <<p[1], p[2]>> /\ p[2] \in DOMAIN tried[p[1]] /\ tried[p[1]][p[2]] = a
            OBVIOUS
        <3>2. p[1] = b /\ p[2] = i
            BY <2>1, <3>1 DEF TriedAgrees
        <3>. QED
            BY <3>1, <3>2
    <2>5. P = {<<b, i>>}
        BY <2>3, <2>4
    <2>. QED
        BY <1>1, <2>5, FS_Singleton
<1>2. CASE ~InTried(tried, a)
    <2>1. P = {}
        BY <1>2 DEF InTried
    <2>. QED
        BY <1>2, <2>1, FS_EmptySet
<1>. QED
    BY <1>1, <1>2

(* The invariant says that the tables agree.                               *)
LEMMA AddrInvAgree == AddrInv => AddrTablesAgree
<1>. SUFFICES ASSUME AddrInv PROVE AddrTablesAgree
    OBVIOUS
<1>. DEFINE T == TriedSet(addrTried)
<1>1. NewAgrees(Tables, {}, T) /\ TriedAgrees(addrTried) /\ nTried = Cardinality(T)
    BY DEF AddrInv
<1>2. /\ \A b \in NewBucket : addrNew[b] \subseteq DOMAIN addrIndex /\ Cardinality(addrNew[b]) =< newBucketSize + 1
      /\ DOMAIN addrIndex \subseteq Addr /\ T \subseteq DOMAIN addrIndex
      /\ nNew = Cardinality({a \in DOMAIN addrIndex : ~addrIndex[a].tried})
    BY <1>1 DEF NewAgrees, Tables
<1>3. \A a \in DOMAIN addrIndex :
         /\ addrIndex[a].refs = Cardinality(Holders(addrNew, a))
         /\ addrIndex[a].refs =< newBucketsPerAddress
         /\ addrIndex[a].tried <=> a \in T
         /\ addrIndex[a].tried <=> addrIndex[a].refs = 0
    BY <1>1 DEF NewAgrees, Tables
<1>4. nTried = Cardinality({a \in DOMAIN addrIndex : addrIndex[a].tried})
    <2>1. T = {a \in DOMAIN addrIndex : addrIndex[a].tried}
        BY <1>2, <1>3
    <2>. QED
        BY <1>1, <2>1
<1>5. ASSUME NEW a \in DOMAIN addrIndex
      PROVE  Cardinality({p \in TriedBucket \X (1..triedBucketSize) :
                            p[2] \in DOMAIN addrTried[p[1]] /\ addrTried[p[1]][p[2]] = a})
               = IF addrIndex[a].tried THEN 1 ELSE 0
    <2>1. addrIndex[a].tried <=> InTried(addrTried, a)
        BY <1>2, <1>3 DEF TriedSet
    <2>. QED
        BY <1>1, <2>1, PlacesCount
<1>6. TablesAgree(addrIndex, addrNew, addrTried, nNew, nTried)
    BY <1>2, <1>3, <1>4, <1>5 DEF TablesAgree, Holders
<1>7. \A b \in TriedBucket : Len(addrTried[b]) =< triedBucketSize
    BY <1>1 DEF TriedAgrees
<1>8. ASSUME NEW a \in DOMAIN peersFile.src
      PROVE  (\E b \in NewBucket : a \in peersFile.new[b])
                <=> ~(\E b \in TriedBucket : a \in ToSet(peersFile.tried[b]))
    <2>1. InTried(peersFile.tried, a) <=> Holders(peersFile.new, a) = {}
        BY DEF AddrInv, FileAgrees
    <2>. QED
        BY <2>1, TriedMember DEF Holders
<1>. QED
    BY <1>2, <1>6, <1>7, <1>8 DEF AddrTablesAgree

(* The invariant of the address manager.                                   *)
THEOREM AddrInvariant == SpecAddr => []AddrInv
<1>1. InitAddr => AddrInv
    BY AddrStart
<1>2. AddrInv /\ [NextAddr]_addrVars => AddrInv'
    BY AddrStep
<1>. QED
    BY <1>1, <1>2, PTL DEF SpecAddr

(* The index, the buckets, the counters and the file agree.                *)
THEOREM AddressTablesAgree == SpecAddr => []AddrTablesAgree
BY AddrInvariant, AddrInvAgree, PTL

=============================================================================
