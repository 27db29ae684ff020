------------------------------ MODULE WsClient ------------------------------
(***************************************************************************)
(* One websocket client of the RPC server (rpcwebsocket.go): inHandler,    *)
(* the goroutines that service its requests, notificationQueueHandler,     *)
(* outHandler and the notification manager that queues notifications for   *)
(* it, with the channels between them and how they all end.                *)
(*                                                                         *)
(* SendMessage and QueueNotification look at the disconnected flag first   *)
(* and use their channel afterwards, in a step of its own.  A request is   *)
(* its class; a notification is its number.  The semaphore holds at most   *)
(* MaxReqs requests; their answers, those of inHandler and a notification  *)
(* have to fit into the send channel when outHandler is gone.              *)
(***************************************************************************)
EXTENDS Integers, FiniteSets, Sequences, SequencesExt

CONSTANTS
    MaxReqs,        \* RPCMaxConcurrentReqs
    SendBuffer,     \* websocketSendBufferSize
    MaxRead,        \* bound on the requests that are read
    MaxNtfns        \* bound on the notifications

ASSUME ClientAssumption ==
    MaxReqs \in Nat /\ SendBuffer \in Nat /\ MaxRead \in Nat /\ MaxNtfns \in Nat

VARIABLES
    wsAt,           \* where each goroutine is
    wsMsg,          \* the message each of them is about to send
    disconnected,   \* disconnected, with quit and the connection closed
    authenticated,  \* authenticated
    isAdmin,        \* isAdmin
    ntfnChan,       \* ntfnChan, of one notification
    sendChan,       \* sendChan
    ntfnSentChan,   \* how many elements ntfnSentChan, of one, holds
    pendingNtfns,   \* pendingNtfns of notificationQueueHandler
    waiting,        \* waiting of notificationQueueHandler
    nRead,          \* the number of requests read
    nQueued,        \* the number of notifications offered
    accepted,       \* history: the notifications taken by QueueNotification
    written         \* history: the notifications written to the connection

clientVars == <<wsAt, wsMsg, disconnected, authenticated, isAdmin, ntfnChan,
                sendChan, ntfnSentChan, pendingNtfns, waiting, nRead, nQueued,
                accepted, written>>

Service == 1..MaxReqs
Reader == MaxReqs + 1
NtfnQueue == MaxReqs + 2
Writer == MaxReqs + 3
Manager == MaxReqs + 4
Goroutine == 1..Manager

Reply == 0          \* a message that is an answer; notifications are 1, 2, ...

\* newWebsocketClient and Start; a client may be authenticated by its HTTP
\* request already.
InitClient ==
    /\ wsAt = [g \in Goroutine |->
           CASE g \in Service -> "none" [] g = Reader -> "top" [] g = Manager -> "idle"
             [] OTHER -> "select"]
    /\ wsMsg = [g \in Goroutine |-> Reply]
    /\ disconnected = FALSE
    /\ authenticated \in BOOLEAN
    /\ isAdmin \in {FALSE, authenticated}
    /\ ntfnChan = <<>> /\ sendChan = <<>> /\ ntfnSentChan = 0
    /\ pendingNtfns = <<>> /\ waiting = FALSE
    /\ nRead = 0 /\ nQueued = 0
    /\ accepted = <<>> /\ written = <<>>

WsGo(g, at) == wsAt' = [wsAt EXCEPT ![g] = at]
WsGoWith(g, at, m) == WsGo(g, at) /\ wsMsg' = [wsMsg EXCEPT ![g] = m]

\* Where a goroutine continues after SendMessage.
AfterSend(g) == IF g = Reader THEN "top" ELSE IF g = NtfnQueue THEN "select" ELSE "none"

-----------------------------------------------------------------------------
(* SendMessage and Disconnect.                                              *)

\* The flag is looked at; a doneChan gets its false.
WsSendCheck(g) ==
    /\ wsAt[g] = "check"
    /\ \/ ~disconnected /\ WsGo(g, "put") /\ UNCHANGED ntfnSentChan
       \/ /\ disconnected /\ WsGo(g, AfterSend(g))
          /\ IF wsMsg[g] = Reply THEN UNCHANGED ntfnSentChan
             ELSE ntfnSentChan = 0 /\ ntfnSentChan' = 1
    /\ UNCHANGED <<wsMsg, disconnected, authenticated, isAdmin, ntfnChan, sendChan,
                   pendingNtfns, waiting, nRead, nQueued, accepted, written>>

WsSendPut(g) ==
    /\ wsAt[g] = "put" /\ Len(sendChan) < SendBuffer
    /\ sendChan' = Append(sendChan, wsMsg[g])
    /\ WsGo(g, AfterSend(g))
    /\ UNCHANGED <<wsMsg, disconnected, authenticated, isAdmin, ntfnChan,
                   ntfnSentChan, pendingNtfns, waiting, nRead, nQueued, accepted, written>>

WsSendMessage(g) == WsSendCheck(g) \/ WsSendPut(g)

\* Disconnect by the manager that shuts down.
DisconnectClient ==
    /\ ~disconnected /\ disconnected' = TRUE
    /\ UNCHANGED <<wsAt, wsMsg, authenticated, isAdmin, ntfnChan, sendChan,
                   ntfnSentChan, pendingNtfns, waiting, nRead, nQueued, accepted, written>>

-----------------------------------------------------------------------------
(* inHandler and the requests.                                              *)

wsInRest == <<ntfnChan, sendChan, ntfnSentChan, pendingNtfns, waiting, nQueued,
            accepted, written>>

\* quit is looked at, and the connection read: nothing more comes, or a request
\* of some class.  A client that has not authenticated is disconnected by
\* everything except the right authentication, one that has by another one.
WsRead ==
    /\ wsAt[Reader] = "top"
    /\ \/ /\ WsGo(Reader, "done") /\ UNCHANGED <<wsMsg, authenticated, isAdmin, nRead>>
       \/ /\ ~disconnected /\ nRead < MaxRead /\ nRead' = nRead + 1
          /\ \E class \in {"garbage", "noid", "login", "limitedlogin", "badlogin",
                           "limitedcmd", "admincmd"} :
                 LET login == class \in {"login", "limitedlogin"}
                 IN  \/ /\ authenticated = (class \in {"login", "limitedlogin", "badlogin"})
                        /\ ~(login /\ ~authenticated)
                        /\ WsGo(Reader, "done") /\ UNCHANGED <<wsMsg, authenticated, isAdmin>>
                     \/ /\ login /\ ~authenticated
                        /\ authenticated' = TRUE /\ isAdmin' = (class = "login")
                        /\ WsGoWith(Reader, "check", Reply)
                     \/ /\ authenticated
                        /\ \/ class = "garbage" \/ (class = "admincmd" /\ ~isAdmin)
                        /\ WsGoWith(Reader, "check", Reply)
                        /\ UNCHANGED <<authenticated, isAdmin>>
                     \/ /\ authenticated
                        /\ class = "limitedcmd" \/ (class = "admincmd" /\ isAdmin)
                        /\ WsGo(Reader, "acquire") /\ UNCHANGED <<wsMsg, authenticated, isAdmin>>
    /\ UNCHANGED <<wsInRest, disconnected>>

\* The semaphore, and a goroutine for the request.
WsAcquire ==
    /\ wsAt[Reader] = "acquire"
    /\ \E s \in Service :
           /\ wsAt[s] = "none" /\ \A r \in Service : r < s => wsAt[r] # "none"
           /\ wsAt' = [wsAt EXCEPT ![s] = "work", ![Reader] = "top"]
    /\ UNCHANGED <<wsInRest, wsMsg, disconnected, authenticated, isAdmin, nRead>>

WsDone ==
    /\ wsAt[Reader] = "done" /\ WsGo(Reader, "ended") /\ disconnected' = TRUE
    /\ UNCHANGED <<wsInRest, wsMsg, authenticated, isAdmin, nRead>>

inHandler == WsRead \/ WsAcquire \/ WsDone \/ WsSendMessage(Reader)

\* The handler of the command returns, and the answer is sent.
Answer(s) ==
    /\ wsAt[s] = "work" /\ WsGoWith(s, "check", Reply)
    /\ UNCHANGED <<wsInRest, disconnected, authenticated, isAdmin, nRead>>

serviceRequest(s) == Answer(s) \/ WsSendMessage(s)

-----------------------------------------------------------------------------
(* The notifications.                                                       *)

wsQueueRest == <<disconnected, authenticated, isAdmin, sendChan, nRead, nQueued,
               accepted, written>>

\* QueueNotification, called by the one goroutine of the manager.
QueueNotification ==
    /\ \/ /\ wsAt[Manager] = "idle" /\ nQueued < MaxNtfns
          /\ nQueued' = nQueued + 1
          /\ WsGo(Manager, IF disconnected THEN "idle" ELSE "put")
          /\ UNCHANGED <<ntfnChan, accepted>>
       \/ /\ wsAt[Manager] = "put" /\ ntfnChan = <<>>
          /\ ntfnChan' = <<nQueued>> /\ accepted' = Append(accepted, nQueued)
          /\ WsGo(Manager, "idle") /\ UNCHANGED nQueued
    /\ UNCHANGED <<wsMsg, disconnected, authenticated, isAdmin, sendChan,
                   ntfnSentChan, pendingNtfns, waiting, nRead, written>>

\* Mutant: a notification is sent at once although another is being sent.
NtfnReceiveSends ==
    /\ wsAt[NtfnQueue] = "select" /\ ntfnChan # <<>> /\ ntfnChan' = <<>>
    /\ WsGoWith(NtfnQueue, "check", Head(ntfnChan)) /\ waiting' = TRUE
    /\ UNCHANGED <<wsQueueRest, ntfnSentChan, pendingNtfns>>

\* A notification is sent, or has to wait for the one that is being sent.
NtfnReceive ==
    /\ wsAt[NtfnQueue] = "select" /\ ntfnChan # <<>> /\ ntfnChan' = <<>>
    /\ \/ /\ ~waiting /\ WsGoWith(NtfnQueue, "check", Head(ntfnChan))
          /\ UNCHANGED pendingNtfns
       \/ /\ waiting /\ pendingNtfns' = pendingNtfns \o ntfnChan
          /\ UNCHANGED <<wsAt, wsMsg>>
    /\ waiting' = TRUE
    /\ UNCHANGED <<wsQueueRest, ntfnSentChan>>

\* One has been sent: the next.
NtfnNext ==
    /\ wsAt[NtfnQueue] = "select" /\ ntfnSentChan = 1 /\ ntfnSentChan' = 0
    /\ \/ /\ pendingNtfns = <<>> /\ waiting' = FALSE
          /\ UNCHANGED <<wsAt, wsMsg, pendingNtfns>>
       \/ /\ pendingNtfns # <<>> /\ pendingNtfns' = Tail(pendingNtfns)
          /\ WsGoWith(NtfnQueue, "check", Head(pendingNtfns)) /\ UNCHANGED waiting
    /\ UNCHANGED <<wsQueueRest, ntfnChan>>

\* After quit its channels are drained once.
NtfnQueueQuit ==
    /\ wsAt[NtfnQueue] = "select" /\ disconnected
    /\ ntfnChan' = <<>> /\ ntfnSentChan' = 0 /\ WsGo(NtfnQueue, "ended")
    /\ UNCHANGED <<wsQueueRest, wsMsg, pendingNtfns, waiting>>

notificationQueueHandler == NtfnReceive \/ NtfnNext \/ NtfnQueueQuit \/ WsSendMessage(NtfnQueue)

-----------------------------------------------------------------------------
(* outHandler.                                                              *)

wsOutRest == <<authenticated, isAdmin, ntfnChan, pendingNtfns, waiting, nRead, nQueued, accepted>>

WsTake ==
    /\ wsAt[Writer] = "select" /\ sendChan # <<>>
    /\ WsGoWith(Writer, "write", Head(sendChan)) /\ sendChan' = Tail(sendChan)
    /\ UNCHANGED <<wsOutRest, disconnected, ntfnSentChan, written>>

\* The message is written and its doneChan signalled, or the client is gone.
WsWrite ==
    /\ wsAt[Writer] = "write"
    /\ \/ /\ ~disconnected
          /\ written' = IF wsMsg[Writer] = Reply THEN written ELSE Append(written, wsMsg[Writer])
          /\ WsGo(Writer, IF wsMsg[Writer] = Reply THEN "select" ELSE "signal")
          /\ UNCHANGED disconnected
       \/ WsGo(Writer, "drain") /\ disconnected' = TRUE /\ UNCHANGED written
    /\ UNCHANGED <<wsOutRest, wsMsg, sendChan, ntfnSentChan>>

WsSignal ==
    /\ wsAt[Writer] = "signal" /\ ntfnSentChan = 0 /\ ntfnSentChan' = 1
    /\ WsGo(Writer, "select")
    /\ UNCHANGED <<wsOutRest, wsMsg, disconnected, sendChan, written>>

\* Mutant: quit is looked at only when there is a message to write.
WsQuitWithMessage ==
    /\ wsAt[Writer] = "select" /\ disconnected /\ sendChan # <<>> /\ WsGo(Writer, "drain")
    /\ UNCHANGED <<wsOutRest, wsMsg, disconnected, sendChan, ntfnSentChan, written>>

WsQuit ==
    /\ wsAt[Writer] = "select" /\ disconnected /\ WsGo(Writer, "drain")
    /\ UNCHANGED <<wsOutRest, wsMsg, disconnected, sendChan, ntfnSentChan, written>>

\* The cleanup loop: it ends when the channel is empty.
WsDrain ==
    /\ wsAt[Writer] = "drain"
    /\ \/ sendChan = <<>> /\ WsGo(Writer, "ended") /\ UNCHANGED <<sendChan, ntfnSentChan>>
       \/ /\ sendChan # <<>> /\ sendChan' = Tail(sendChan)
          /\ IF Head(sendChan) = Reply THEN UNCHANGED ntfnSentChan
             ELSE ntfnSentChan = 0 /\ ntfnSentChan' = 1
          /\ UNCHANGED wsAt
    /\ UNCHANGED <<wsOutRest, wsMsg, disconnected, written>>

outHandler == WsTake \/ WsWrite \/ WsSignal \/ WsQuit \/ WsDrain

NextClient ==
    \/ inHandler \/ notificationQueueHandler \/ outHandler
    \/ QueueNotification \/ DisconnectClient
    \/ \E s \in Service : serviceRequest(s)

SpecClient == InitClient /\ [][NextClient]_clientVars

\* Every goroutine is scheduled: commands return, a write ends or fails, and a
\* connection that is closed ends the read.
FairClient ==
    /\ WF_clientVars(notificationQueueHandler)
    /\ WF_clientVars(outHandler)
    /\ WF_clientVars(WsAcquire \/ WsDone \/ WsSendMessage(Reader))
    /\ WF_clientVars(disconnected /\ WsRead)
    /\ WF_clientVars(wsAt[Manager] = "put" /\ QueueNotification)
    /\ \A s \in Service : WF_clientVars(serviceRequest(s))

-----------------------------------------------------------------------------
(* Properties.                                                              *)

Holds(g, places) == IF wsAt[g] \in places /\ wsMsg[g] # Reply THEN <<wsMsg[g]>> ELSE <<>>

\* The notifications in the send channel are between answers.
Sending == {i \in DOMAIN sendChan : sendChan[i] # Reply}
InSendChan == IF Sending = {} THEN <<>> ELSE <<sendChan[CHOOSE i \in Sending : TRUE]>>

\* Where the accepted notifications are that have not been written, in the
\* order they leave.
Underway ==
    Holds(Writer, {"write"}) \o InSendChan \o Holds(NtfnQueue, {"check", "put"})
        \o pendingNtfns \o ntfnChan

\* The notifications are written in the order the manager queued them.  While
\* the client is connected none is lost, and one at most is on its way to the
\* connection or being signalled, so that nobody waits on ntfnSentChan.
NotificationsInOrder ==
    /\ IsPrefix(written, accepted)
    /\ ~disconnected => accepted = written \o Underway
    /\ Len(Holds(Writer, {"write", "signal"})) + Cardinality(Sending)
          + Len(Holds(NtfnQueue, {"check", "put"})) + ntfnSentChan <= 1

\* A client that is disconnected ends: its goroutines, the requests it was
\* served, and the notification the manager was about to queue for it, so that
\* nobody is left blocked on its channels.
ClientEnds ==
    /\ disconnected ~> (/\ \A g \in {Reader, NtfnQueue, Writer} : wsAt[g] = "ended"
                        /\ \A s \in Service : wsAt[s] = "none")
    /\ wsAt[Manager] = "put" ~> wsAt[Manager] = "idle"
=============================================================================
