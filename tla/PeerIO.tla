------------------------------- MODULE PeerIO -------------------------------
(***************************************************************************)
(* The goroutines of one peer connection (peer/peer.go): the negotiation   *)
(* of the protocol version, the input, queue, output and stall handlers,   *)
(* the channels between them, and how they all end once the peer has been  *)
(* disconnected.                                                           *)
(*                                                                         *)
(* A step is what a goroutine does between two operations on a channel,    *)
(* the socket or the disconnect flag.  A select with several ready cases   *)
(* takes any of them.  Disconnect sets the flag, closes the socket and     *)
(* closes quit; anybody may call it: the idle timer, the stall handler,    *)
(* the server.  Messages are their kinds.  The one message somebody waits  *)
(* for is the reject message of inHandler, which carries a doneChan.       *)
(***************************************************************************)
EXTENDS Integers, FiniteSets, Sequences, SequencesExt

CONSTANTS
    Item,           \* the inventory that may be announced
    OutputBuffer,   \* outputBufferSize
    TrickleSize,    \* maxInvTrickleSize
    MaxEvents       \* bound on the messages read after the negotiation, the
                    \* pings the ticker sends and what the server queues

ASSUME PeerIOAssumption ==
    /\ OutputBuffer \in Nat \ {0} /\ TrickleSize \in Nat \ {0}
    /\ MaxEvents \in Nat

VARIABLES
    pc,             \* where each goroutine is
    disc,           \* disconnect # 0: the socket and quit are closed
    versionKnown,   \* versionKnown
    verAckReceived, \* verAckReceived
    got,            \* what inHandler has read last
    outputQueue,    \* outputQueue, a channel of OutputBuffer messages
    outputInvChan,  \* outputInvChan
    queue,          \* the locals of queueHandler: pending, waiting, inv
    sendQueue,      \* sendQueue, a channel of one message
    sending,        \* the message outHandler has taken, as a sequence
    sendDone,       \* sendDoneQueue: TRUE if it holds its one element
    stallControl,   \* stallControl: TRUE if it holds its one element
    ioStopped,      \* the local of stallHandler
    doneChan,       \* how often the doneChan of the reject message was sent to
    knownInventory, \* knownInventory
    announced,      \* history: how often each item was written to the socket
    events          \* how many of the MaxEvents have happened

ioVars == <<pc, disc, versionKnown, verAckReceived, got, outputQueue,
            outputInvChan, queue, sendQueue, sending, sendDone, stallControl,
            ioStopped, doneChan, knownInventory, announced, events>>

Handler == {"in", "queue", "out", "stall"}

At(g, l) == pc[g] = l
Go(g, l) == pc' = [pc EXCEPT ![g] = l]

\* A message: "reject", or "plain" for those nobody waits for (verack, pong,
\* ping, inv and what the server sends), with the items of an inv.
Msg(k) == [kind |-> k, items |-> {}]

\* What the receiver of a message with a doneChan does with it.
Signals(msgs) == Cardinality({i \in DOMAIN msgs : msgs[i].kind = "reject"})

-----------------------------------------------------------------------------
(* Negotiation: a goroutine of its own, and start waiting for its result.   *)

\* Disconnect, called by anybody.
DisconnectPeer ==
    /\ ~disc
    /\ disc' = TRUE
    /\ UNCHANGED <<pc, versionKnown, verAckReceived, got, outputQueue,
                   outputInvChan, queue, sendQueue, sending, sendDone,
                   stallControl, ioStopped, doneChan, knownInventory, announced,
                   events>>

negotiationRest == <<verAckReceived, got, outputInvChan, queue, sendQueue,
                     sending, sendDone, stallControl, ioStopped, doneChan,
                     knownInventory, announced, events>>

\* Negotiation is a write and a read: in this order for an outbound peer
\* ("write", "readLast"), in the other for an inbound one ("read", "writeLast").
AfterNegotiate(l) == CASE l = "write" -> "readLast"
                       [] l = "read" -> "writeLast"
                       [] OTHER -> "ok"

\* writeLocalVersionMsg: a write after Disconnect does nothing and succeeds.
NegotiateWrite ==
    /\ pc["negotiate"] \in {"write", "writeLast"}
    /\ \/ Go("negotiate", AfterNegotiate(pc["negotiate"]))
       \/ ~disc /\ Go("negotiate", "err")
    /\ UNCHANGED <<disc, versionKnown, outputQueue, negotiationRest>>

\* readRemoteVersionMsg and handleRemoteVersionMsg.  A first message that is
\* not a version message, and a version that is too old, are answered with a
\* reject message; the result of that write is the result of the function, so
\* the negotiation goes on.
NegotiateRead ==
    /\ pc["negotiate"] \in {"read", "readLast"}
    /\ \/ /\ ~disc
          /\ versionKnown' \in BOOLEAN
          /\ Go("negotiate", AfterNegotiate(pc["negotiate"]))
       \/ /\ Go("negotiate", "err")        \* a read error, or our own nonce
          /\ UNCHANGED versionKnown
    /\ UNCHANGED <<disc, outputQueue, negotiationRest>>

\* start receives the result.  The handlers are started and a verack message
\* is queued, or the peer is disconnected.
StartHandlers ==
    [pc EXCEPT !["start"] = "done", !["negotiate"] = "done",
               !["in"] = "read", !["queue"] = "run", !["out"] = "select",
               !["stall"] = "run"]

StartReceives ==
    /\ At("start", "wait")
    /\ \/ /\ At("negotiate", "ok")
          /\ pc' = StartHandlers
          /\ outputQueue' = IF disc THEN outputQueue ELSE Append(outputQueue, Msg("plain"))
          /\ UNCHANGED disc
       \/ /\ At("negotiate", "err")
          /\ pc' = [pc EXCEPT !["start"] = "done", !["negotiate"] = "done"]
          /\ disc' = TRUE
          /\ UNCHANGED outputQueue
    /\ UNCHANGED <<versionKnown, negotiationRest>>

\* negotiateTimeout: nobody receives the result of the negotiation any more.
StartTimesOut ==
    /\ At("start", "wait")
    /\ Go("start", "done")
    /\ disc' = TRUE
    /\ UNCHANGED <<versionKnown, outputQueue, negotiationRest>>

-----------------------------------------------------------------------------
(* inHandler *)

inRest == <<versionKnown, outputInvChan, queue, sendQueue, sending,
            sendDone, ioStopped, announced>>

\* readMessage returns a message; it may have been read before Disconnect.
InRead ==
    /\ At("in", "read")
    /\ ~disc
    /\ events < MaxEvents
    /\ events' = events + 1
    /\ got' \in {"verack", "version", "ping", "inv"}
    /\ Go("in", "received")
    /\ UNCHANGED <<disc, verAckReceived, outputQueue, stallControl, doneChan,
                   knownInventory, inRest>>

\* The loop ends, or readMessage fails: a malformed message is answered, unless we or the
\* remote side have disconnected.
InReadFails ==
    /\ At("in", "read")
    /\ \/ Go("in", "close")
       \/ ~disc /\ Go("in", "reject")
    /\ UNCHANGED <<disc, verAckReceived, got, outputQueue, stallControl, doneChan,
                   knownInventory, events, inRest>>

\* sccReceiveMessage, sccHandlerStart and sccHandlerDone.
InControl ==
    /\ ~stallControl
    /\ \/ At("in", "received") /\ Go("in", "started")
       \/ At("in", "started") /\ Go("in", "handle")
       \/ At("in", "handled") /\ Go("in", "read")
    /\ stallControl' = TRUE
    /\ UNCHANGED <<disc, verAckReceived, got, outputQueue, doneChan,
                   knownInventory, events, inRest>>

\* The switch on the message.  A second version message is rejected, a second
\* verack ends the connection, a ping is answered, an inv makes its items
\* known to the peer (handleInvMsg of the block manager).
InHandle ==
    /\ At("in", "handle")
    /\ Go("in", CASE got = "version" -> "reject"
                  [] got = "verack"  -> IF verAckReceived THEN "close" ELSE "handled"
                  [] got = "ping"    -> IF disc THEN "handled" ELSE "pong"
                  [] got = "inv"     -> "handled")
    /\ verAckReceived' = (verAckReceived \/ got = "verack")
    /\ knownInventory' \in IF got = "inv" THEN {knownInventory \union {i} : i \in Item}
                           ELSE {knownInventory}
    /\ got' = ""
    /\ UNCHANGED <<disc, outputQueue, stallControl, doneChan, events, inRest>>

\* handlePingMsg, past the check of Connected in QueueMessage.
InPong ==
    /\ At("in", "pong")
    /\ Len(outputQueue) < OutputBuffer
    /\ outputQueue' = Append(outputQueue, Msg("plain"))
    /\ Go("in", "handled")
    /\ UNCHANGED <<disc, verAckReceived, got, stallControl, doneChan,
                   knownInventory, events, inRest>>

\* PushRejectMsg with wait: QueueMessage looks at Connected ...
InReject ==
    /\ At("in", "reject")
    /\ Go("in", IF disc THEN "await" ELSE "push")
    /\ doneChan' = IF disc THEN doneChan + 1 ELSE doneChan
    /\ UNCHANGED <<disc, verAckReceived, got, outputQueue, stallControl,
                   knownInventory, events, inRest>>

\* ... sends the message to outputQueue ...
InPush ==
    /\ At("in", "push")
    /\ Len(outputQueue) < OutputBuffer
    /\ outputQueue' = Append(outputQueue, Msg("reject"))
    /\ Go("in", "await")
    /\ UNCHANGED <<disc, verAckReceived, got, stallControl, doneChan,
                   knownInventory, events, inRest>>

\* ... and inHandler waits until somebody has dealt with it.
InAwait ==
    /\ At("in", "await")
    /\ doneChan > 0
    /\ Go("in", "close")
    /\ UNCHANGED <<disc, verAckReceived, got, outputQueue, stallControl, doneChan,
                   knownInventory, events, inRest>>

\* The end: Disconnect and close(inQuit).
InClose ==
    /\ At("in", "close")
    /\ disc' = TRUE
    /\ Go("in", "done")
    /\ UNCHANGED <<verAckReceived, got, outputQueue, stallControl, doneChan,
                   knownInventory, events, inRest>>

-----------------------------------------------------------------------------
(* queueHandler *)

queueRest == <<disc, versionKnown, verAckReceived, got, sending,
               stallControl, ioStopped, announced, events>>

\* queuePacket for the messages of a sequence: the first goes to sendQueue if
\* nothing is on its way, the others wait.
QueuePackets(msgs) ==
    IF queue.waiting
    THEN /\ queue' = [queue EXCEPT !.pending = @ \o msgs]
         /\ UNCHANGED sendQueue
    ELSE /\ sendQueue = <<>>
         /\ sendQueue' = SubSeq(msgs, 1, 1)
         /\ queue' = [queue EXCEPT !.pending = @ \o Tail(msgs), !.waiting = TRUE]

QueueTakes ==
    /\ At("queue", "run")
    /\ outputQueue # <<>>
    /\ outputQueue' = Tail(outputQueue)
    /\ QueuePackets(SubSeq(outputQueue, 1, 1))
    /\ UNCHANGED <<pc, outputInvChan, sendDone, doneChan, knownInventory, queueRest>>

\* The previous message was written: the next one follows.
QueueSendDone ==
    /\ At("queue", "run")
    /\ sendDone
    /\ sendDone' = FALSE
    /\ IF queue.pending = <<>>
       THEN /\ queue' = [queue EXCEPT !.waiting = FALSE]
            /\ UNCHANGED sendQueue
       ELSE /\ sendQueue = <<>>
            /\ sendQueue' = SubSeq(queue.pending, 1, 1)
            /\ queue' = [queue EXCEPT !.pending = Tail(@)]
    /\ UNCHANGED <<pc, outputQueue, outputInvChan, doneChan, knownInventory, queueRest>>

QueueTakesInv ==
    /\ At("queue", "run")
    /\ outputInvChan # <<>>
    /\ outputInvChan' = Tail(outputInvChan)
    /\ queue' = IF versionKnown THEN [queue EXCEPT !.inv = Append(@, outputInvChan[1])]
                ELSE queue
    /\ UNCHANGED <<pc, sendQueue, outputQueue, sendDone, doneChan, knownInventory, queueRest>>

\* Mutant: what became known since it was queued is announced all the same.
FreshAll(inv) == {inv}

\* The items of the inventory queue that the peer does not know, in their
\* order; one that was queued twice becomes known with its first occurrence.
\* There is one such sequence.
Fresh(inv) ==
    LET unknown == {k \in DOMAIN inv : /\ inv[k] \notin knownInventory
                                       /\ \A j \in 1..(k - 1) : inv[j] # inv[k]}
    IN  {[k \in DOMAIN at |-> inv[at[k]]] :
            at \in {at \in [1..Cardinality(unknown) -> unknown] :
                       \A j, k \in DOMAIN at : j < k => at[j] < at[k]}}

\* Inv messages of at most TrickleSize items.
Batches(f) ==
    [k \in 1..((Len(f) + TrickleSize - 1) \div TrickleSize) |->
       [kind  |-> "plain",
        items |-> {f[i] : i \in {j \in DOMAIN f : (j - 1) \div TrickleSize = k - 1}}]]

\* trickleTicker
QueueTrickles ==
    /\ At("queue", "run")
    /\ ~disc
    /\ queue.inv # <<>>
    /\ \E f \in Fresh(queue.inv) :
       /\ knownInventory' = knownInventory \union ToSet(f)
       /\ IF queue.waiting \/ f = <<>>
          THEN /\ queue' = [queue EXCEPT !.pending = @ \o Batches(f), !.inv = <<>>]
               /\ UNCHANGED sendQueue
          ELSE /\ sendQueue = <<>>
               /\ sendQueue' = SubSeq(Batches(f), 1, 1)
               /\ queue' = [pending |-> queue.pending \o Tail(Batches(f)),
                            waiting |-> TRUE, inv |-> <<>>]
    /\ UNCHANGED <<pc, outputQueue, outputInvChan, sendDone, doneChan, queueRest>>

\* quit: the pending messages and the two channels are drained, those that
\* wait for a message are told, and queueQuit is closed.
QueueQuits ==
    /\ At("queue", "run")
    /\ disc
    /\ Go("queue", "done")
    /\ doneChan' = doneChan + Signals(queue.pending) + Signals(outputQueue)
    /\ queue' = [queue EXCEPT !.pending = <<>>]
    /\ outputQueue' = <<>>
    /\ outputInvChan' = <<>>
    /\ UNCHANGED <<sendQueue, sendDone, knownInventory, queueRest>>

-----------------------------------------------------------------------------
(* outHandler *)

outRest == <<versionKnown, verAckReceived, got, outputInvChan, queue,
             ioStopped, knownInventory>>

OutTakes ==
    /\ At("out", "select")
    /\ sendQueue # <<>>
    /\ sending' = sendQueue
    /\ sendQueue' = <<>>
    /\ Go("out", "control")
    /\ UNCHANGED <<disc, outputQueue, sendDone, stallControl, doneChan, announced, events, outRest>>

\* sccSendMessage
OutControl ==
    /\ At("out", "control")
    /\ ~stallControl
    /\ stallControl' = TRUE
    /\ Go("out", "write")
    /\ UNCHANGED <<disc, outputQueue, sendQueue, sending, sendDone, doneChan, announced, events, outRest>>

\* writeMessage.  It does nothing after Disconnect; a failed write disconnects
\* the peer and is not reported to queueHandler.
OutWrite ==
    /\ At("out", "write")
    /\ doneChan' = doneChan + Signals(sending)
    /\ sending' = <<>>
    /\ \/ /\ Go("out", "sendDone")
          /\ announced' = [i \in Item |-> IF ~disc /\ i \in sending[1].items
                                          THEN announced[i] + 1 ELSE announced[i]]
          /\ UNCHANGED disc
       \/ /\ Go("out", "select")
          /\ disc' = TRUE
          /\ UNCHANGED announced
    /\ UNCHANGED <<outputQueue, sendQueue, sendDone, stallControl, events, outRest>>

OutSendDone ==
    /\ At("out", "sendDone")
    /\ ~sendDone
    /\ sendDone' = TRUE
    /\ Go("out", "select")
    /\ UNCHANGED <<disc, outputQueue, sendQueue, sending, stallControl, doneChan, announced, events, outRest>>

\* pingTicker: QueueMessage from outHandler itself, the check and the send.
OutPing ==
    /\ \/ /\ At("out", "select")
          /\ events < MaxEvents
          /\ ~disc
          /\ events' = events + 1
          /\ Go("out", "ping")
          /\ UNCHANGED outputQueue
       \/ /\ At("out", "ping")
          /\ Len(outputQueue) < OutputBuffer
          /\ outputQueue' = Append(outputQueue, Msg("plain"))
          /\ Go("out", "select")
          /\ UNCHANGED events
    /\ UNCHANGED <<disc, sendQueue, sending, sendDone, stallControl, doneChan, announced, outRest>>

\* quit, and then queueQuit: sendQueue is drained and outQuit closed.
OutQuits ==
    /\ \/ /\ At("out", "select") /\ disc
          /\ Go("out", "waitQueue")
          /\ UNCHANGED <<sendQueue, doneChan>>
       \/ /\ At("out", "waitQueue") /\ At("queue", "done")
          /\ Go("out", "done")
          /\ doneChan' = doneChan + Signals(sendQueue)
          /\ sendQueue' = <<>>
    /\ UNCHANGED <<disc, outputQueue, sending, sendDone, stallControl, announced, events, outRest>>

-----------------------------------------------------------------------------
(* stallHandler, without the deadlines (see PeerStall). *)

stallRest == <<disc, versionKnown, verAckReceived, got, outputQueue,
               outputInvChan, queue, sendQueue, sending, sendDone, doneChan,
               knownInventory, announced, events>>

StallControl ==
    /\ At("stall", "run")
    /\ stallControl
    /\ stallControl' = FALSE
    /\ UNCHANGED <<pc, ioStopped, stallRest>>

\* A receive from inQuit or outQuit.  A closed channel is always ready, so the
\* second receive may be from the same one.
StallQuits ==
    /\ At("stall", "run")
    /\ At("in", "done") \/ At("out", "done")
    /\ ioStopped' = TRUE
    /\ IF ioStopped THEN Go("stall", "done") /\ stallControl' = FALSE
       ELSE UNCHANGED <<pc, stallControl>>
    /\ UNCHANGED stallRest

-----------------------------------------------------------------------------
(* A goroutine of the server that calls QueueMessage and QueueInventory,    *)
(* each a check of Connected followed by a send.                            *)

callerRest == <<disc, versionKnown, verAckReceived, got, queue, sendQueue,
                sending, sendDone, stallControl, ioStopped, doneChan,
                knownInventory, announced>>

QueueMessage ==
    /\ At("start", "done")
    /\ \/ /\ At("caller", "idle") /\ ~disc /\ events < MaxEvents
          /\ Go("caller", "message")
          /\ events' = events + 1
          /\ UNCHANGED outputQueue
       \/ /\ At("caller", "message")
          /\ Len(outputQueue) < OutputBuffer
          /\ outputQueue' = Append(outputQueue, Msg("plain"))
          /\ Go("caller", "idle")
          /\ UNCHANGED events
    /\ UNCHANGED <<outputInvChan, callerRest>>

QueueInventory(i) ==
    /\ At("start", "done")
    /\ \/ /\ At("caller", "idle") /\ ~disc /\ events < MaxEvents
          /\ i \notin knownInventory
          /\ Go("caller", i)
          /\ events' = events + 1
          /\ UNCHANGED outputInvChan
       \/ /\ At("caller", i)
          /\ Len(outputInvChan) < OutputBuffer
          /\ outputInvChan' = Append(outputInvChan, i)
          /\ Go("caller", "idle")
          /\ UNCHANGED events
    /\ UNCHANGED <<outputQueue, callerRest>>

-----------------------------------------------------------------------------
\* newPeerBase and AssociateConnection
InitIO ==
    /\ \E first \in {"read", "write"} :       \* inbound or outbound
         pc = [g \in {"negotiate", "start", "caller"} \union Handler |->
                 CASE g = "negotiate" -> first
                   [] g = "start" -> "wait"
                   [] g = "caller" -> "idle"
                   [] OTHER -> "off"]
    /\ disc = FALSE
    /\ versionKnown = FALSE /\ verAckReceived = FALSE
    /\ got = ""
    /\ outputQueue = <<>> /\ outputInvChan = <<>>
    /\ queue = [pending |-> <<>>, waiting |-> FALSE, inv |-> <<>>]
    /\ sendQueue = <<>> /\ sending = <<>>
    /\ sendDone = FALSE /\ stallControl = FALSE
    /\ ioStopped = FALSE
    /\ doneChan = 0
    /\ knownInventory = {}
    /\ announced = [i \in Item |-> 0]
    /\ events = 0

NegotiateStep == NegotiateWrite \/ NegotiateRead
StartStep == StartReceives \/ StartTimesOut
InStep == \/ InRead \/ InReadFails \/ InControl \/ InHandle
          \/ InPong \/ InReject \/ InPush \/ InAwait \/ InClose
QueueStep == \/ QueueTakes \/ QueueSendDone \/ QueueTakesInv \/ QueueTrickles
             \/ QueueQuits
OutStep == OutTakes \/ OutControl \/ OutWrite \/ OutSendDone \/ OutPing \/ OutQuits
StallStep == StallControl \/ StallQuits
CallerStep == QueueMessage \/ \E i \in Item : QueueInventory(i)

NextIO ==
    \/ DisconnectPeer \/ NegotiateStep \/ StartStep \/ InStep \/ QueueStep \/ OutStep
    \/ StallStep \/ CallerStep

SpecIO == InitIO /\ [][NextIO]_ioVars

\* The scheduler runs every goroutine that can run.
FairIO ==
    /\ WF_ioVars(NegotiateStep) /\ WF_ioVars(StartStep) /\ WF_ioVars(InStep)
    /\ WF_ioVars(QueueStep) /\ WF_ioVars(OutStep) /\ WF_ioVars(StallStep) /\ WF_ioVars(CallerStep)

FairSpecIO == SpecIO /\ FairIO

-----------------------------------------------------------------------------
(* Properties. *)

\* The messages between queueHandler and outHandler.
OnTheWay == Len(sendQueue) + Len(sending) + (IF sendDone THEN 1 ELSE 0)
              + (IF At("out", "sendDone") THEN 1 ELSE 0)

\* The handover between queueHandler and outHandler (the flag waiting) keeps at
\* most one message between them, so that no send on sendQueue and
\* sendDoneQueue ever blocks queueHandler and the handlers of the server that
\* depend on it; nothing waits in pendingMsgs unless a message is on its way;
\* the goroutine that waits for its reject message is told at most once (a
\* second send on doneChan would block the handler that sends it); and no item
\* is announced to the peer twice, although it can be queued twice.
OneOnTheWay ==
    /\ OnTheWay <= 1
    /\ At("queue", "run") /\ ~queue.waiting => OnTheWay = 0 /\ queue.pending = <<>>
    /\ doneChan <= 1
    /\ \A i \in Item : announced[i] <= 1

\* The two ways in which a goroutine of a disconnected peer is left behind.
\* A message that was queued after queueHandler had drained its channels: the
\* check of Connected in QueueMessage came before Disconnect.
RejectLost ==
    /\ At("in", "await") /\ doneChan = 0 /\ At("queue", "done")
    /\ Signals(outputQueue) = 1

\* stallHandler has ended, having seen one of inQuit and outQuit twice, and a
\* control message waits in the channel that nobody empties any more.
ControlStuck ==
    /\ At("stall", "done") /\ stallControl
    /\ pc["in"] \in {"received", "started", "handled"} \/ At("out", "control")

\* After Disconnect every handler of the peer ends, and with them the tickers
\* and the socket they hold: nobody waits for a channel nobody serves any
\* more, apart from the two races named above.
HandlersEnd ==
    (disc /\ At("start", "done"))
      ~> \/ \A g \in Handler : pc[g] \in {"off", "done"}
         \/ RejectLost
         \/ ControlStuck

\* The handlers, and with them the callbacks for every message, run only for
\* a peer whose version message was accepted.
VersionFirst == At("in", "read") => versionKnown

\* The stall handler ends after the two handlers it serves.
StallHandlerLast == At("stall", "done") => At("in", "done") /\ At("out", "done")
=============================================================================
