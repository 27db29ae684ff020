----------------------------- MODULE NtfnManager -----------------------------
(***************************************************************************)
(* The notification manager of the RPC server (rpcwebsocket.go): its       *)
(* queueHandler and notificationHandler, the calls of the block manager    *)
(* and of the memory pool that feed it, and the websocket clients that     *)
(* connect, register, load transaction filters, rescan blocks and leave.   *)
(*                                                                         *)
(* An event is a notification of one Kind; "blocks" events may connect a   *)
(* block of transactions, "txs" events are transactions of the memory      *)
(* pool.  A client serves one request at a time here; its goroutines and   *)
(* channels are module WsClient, where QueueNotification is shown never to *)
(* block for ever.                                                         *)
(***************************************************************************)
EXTENDS Integers, FiniteSets, Sequences, SequencesExt

CONSTANTS
    Client,
    Kind,           \* what a client may register for: "blocks", "txs",
                    \* "winning", "spentmissed", "newtickets", "stakediff"
    Spends,         \* the transaction whose output each of the transactions 1,
                    \* 2, ... spends, or 0
    Watched,        \* those that pay the address the clients watch
    MaxClients,     \* RPCMaxWebsockets
    MaxFilters,     \* bound on the filters that are made
    MaxEvents,      \* bound on the events
    MaxRequests     \* bound on the requests

VARIABLES
    quit,           \* quit is closed
    queueAlive,     \* queueHandler runs; it closes notificationMsgs at its end
    handlerAlive,   \* notificationHandler runs
    q,              \* the queue of queueHandler
    conn,           \* the life of each client, as WebsocketHandler goes on
    request,        \* the request that is served for each client
    clients,        \* clients of notificationHandler
    registered,     \* its other maps, by kind
    filterData,     \* the filter of each client, 0 if none
    filters,        \* the outputs each of the filters watches
    requests,       \* how many requests there have been
    subscribed,     \* history: whose registration has been answered, by kind
    log,            \* history: the events, who had to be told, and whether
                    \* they were handled
    delivered,      \* history: the events told to each client
    examined        \* history: the transactions looked at, by which filters,
                    \* and to whom they were relevant

ntfnVars == <<quit, queueAlive, handlerAlive, q, conn, request,
              clients, registered, filterData, filters, requests, subscribed, log,
              delivered, examined>>

NoRequest == [op |-> "none", kind |-> "none", f |-> 0]
Message(type, c, k, n, txs) == [type |-> type, c |-> c, kind |-> k, n |-> n, txs |-> txs]

InitNtfn ==
    /\ quit = FALSE /\ queueAlive = TRUE /\ handlerAlive = TRUE
    /\ q = <<>>
    /\ conn = [c \in Client |-> "new"]
    /\ request = [c \in Client |-> NoRequest]
    /\ clients = {} /\ registered = [k \in Kind |-> {}]
    /\ filterData = [c \in Client |-> 0] /\ filters = <<>>
    /\ requests = 0
    /\ subscribed = [k \in Kind |-> {}]
    /\ log = <<>> /\ delivered = [c \in Client |-> <<>>] /\ examined = <<>>

-----------------------------------------------------------------------------
(* The queue.                                                               *)

\* Mutant: skipQueue stays set: a message overtakes those that wait.
EnqueueSkips(m) == queueAlive /\ q' = <<m>> \o q

\* queueHandler receives a message.  An empty queue is skipped if the handler is
\* ready, which is the same as a message that is taken at once.
Enqueue(m) == queueAlive /\ q' = Append(q, m)

QueueQuit ==
    /\ queueAlive /\ quit /\ queueAlive' = FALSE
    /\ UNCHANGED <<quit, handlerAlive, q, conn, request, clients,
                   registered, filterData, filters, requests, subscribed, log,
                   delivered, examined>>

queueHandler == QueueQuit

-----------------------------------------------------------------------------
(* The events of the block manager and of the memory pool.                  *)

producerRest == <<quit, queueAlive, handlerAlive, conn, request, clients, registered,
                  filterData, filters, requests, subscribed, delivered, examined>>

\* A block is connected or a transaction accepted, the n-th, or there is an event
\* of another kind.  NotifyBlockConnected and its like queue it; after quit
\* they give it up, and nothing happens.
Notify ==
    LET n == Len(log) + 1
    IN  /\ n <= MaxEvents
        /\ \E k \in Kind :
               /\ log' = Append(log, [expect |-> subscribed[k], done |-> FALSE])
               /\ Enqueue(Message("event", 0, k, n,
                          IF k \in {"blocks", "txs"} THEN <<n>> ELSE <<>>))
        /\ UNCHANGED producerRest

-----------------------------------------------------------------------------
(* notificationHandler.                                                     *)

Up(c) == conn[c] = "up"

\* The transaction spends an output the filter watches, or pays the address.
relevant(f, tx) ==
    f # 0 /\ (Spends[tx] \in filters[f] \/ tx \in Watched)

\* The outputs that pay a watched address are watched from now on.
addUnspentOutPoint(used, tx) ==
    [f \in DOMAIN filters |->
        IF f \in used /\ tx \in Watched THEN filters[f] \cup {tx} ELSE filters[f]]

\* subscribedClients and notifyRelevantTxAccepted: the filters of these clients
\* look at the transaction.
Examine(some, txs) ==
    IF txs = <<>> THEN UNCHANGED <<filters, examined>>
    ELSE LET tx == Head(txs)
             by == [c \in Client |-> IF c \in some THEN filterData[c] ELSE 0]
         IN  /\ filters' = addUnspentOutPoint({filterData[c] : c \in some}, tx)
             /\ examined' = Append(examined,
                    [tx |-> tx, by |-> by, told |-> {c \in some : relevant(by[c], tx)}])

\* QueueNotification for everybody: a client that has disconnected is passed.
Deliver(some, n) ==
    delivered' = [c \in Client |->
        IF c \in some /\ Up(c) THEN Append(delivered[c], n) ELSE delivered[c]]

handlerRest == <<quit, queueAlive, conn, request, filterData, requests, subscribed>>

notifyEvent(m) ==
    LET told == {c \in clients : \E t \in ToSet(m.txs) : relevant(filterData[c], t)}
    IN  /\ \/ /\ m.kind = "txs"     \* notifyForNewTx and notifyRelevantTxAccepted
              /\ Examine(clients, m.txs) /\ Deliver(registered["txs"] \cup told, m.n)
           \/ /\ m.kind = "blocks"  \* notifyBlockConnected
              /\ Examine(registered["blocks"], m.txs) /\ Deliver(registered["blocks"], m.n)
           \/ /\ m.kind \notin {"txs", "blocks"}
              /\ Deliver(registered[m.kind], m.n) /\ UNCHANGED <<filters, examined>>
        /\ log' = [log EXCEPT ![m.n].done = TRUE]
        /\ UNCHANGED <<clients, registered>>

\* Registrations.  A client that is removed stays registered for the events
\* about tickets and about the stake difficulty.
control(m) ==
    /\ \/ m.type = "register" /\ registered' = [registered EXCEPT ![m.kind] = @ \cup {m.c}]
          /\ UNCHANGED clients
       \/ m.type = "unregister" /\ registered' = [registered EXCEPT ![m.kind] = @ \ {m.c}]
          /\ UNCHANGED clients
       \/ m.type = "add" /\ clients' = clients \cup {m.c} /\ UNCHANGED registered
       \/ /\ m.type = "remove" /\ clients' = clients \ {m.c}
          /\ registered' = [k \in Kind |->
                 IF k \in {"blocks", "txs"} THEN registered[k] \ {m.c} ELSE registered[k]]
    /\ UNCHANGED <<filters, log, delivered, examined>>

Handle ==
    /\ queueAlive /\ handlerAlive /\ q # <<>> /\ q' = Tail(q)
    /\ LET m == Head(q) IN IF m.type = "event" THEN notifyEvent(m) ELSE control(m)
    /\ UNCHANGED <<handlerRest, handlerAlive>>

\* quit, or the channel closed by queueHandler: all clients are disconnected.
HandlerQuit ==
    /\ handlerAlive /\ (quit \/ ~queueAlive)
    /\ handlerAlive' = FALSE
    /\ conn' = [c \in Client |-> IF c \in clients /\ Up(c) THEN "down" ELSE conn[c]]
    /\ UNCHANGED <<quit, queueAlive, q, request, clients, registered,
                   filterData, filters, requests, subscribed, log, delivered, examined>>

notificationHandler == Handle \/ HandlerQuit

Shutdown ==
    /\ ~quit /\ quit' = TRUE
    /\ UNCHANGED <<queueAlive, handlerAlive, q, conn, request, clients,
                   registered, filterData, filters, requests, subscribed, log,
                   delivered, examined>>

-----------------------------------------------------------------------------
(* A client: WebsocketHandler and the commands.                             *)

SetConn(c, s) == conn' = [conn EXCEPT ![c] = s]
connRest == <<quit, queueAlive, handlerAlive, request, clients, registered,
              filterData, filters, requests, log, delivered, examined>>

\* NumClients is answered by an idle handler, or 0 after quit; the client is
\* added by a message of its own, later.
Connect(c) ==
    /\ conn[c] = "new"
    /\ \/ handlerAlive
          /\ SetConn(c, IF Cardinality(clients) + 1 > MaxClients THEN "gone" ELSE "adding")
       \/ quit /\ SetConn(c, IF 1 > MaxClients THEN "gone" ELSE "adding")
    /\ UNCHANGED <<connRest, q, subscribed>>

\* AddClient does not look at quit.
AddClient(c) ==
    /\ conn[c] = "adding" /\ Enqueue(Message("add", c, "none", 0, <<>>))
    /\ SetConn(c, "up")
    /\ UNCHANGED <<connRest, subscribed>>

\* The connection is lost, and WaitForShutdown returns: requests that are
\* served may go on.
Leave(c) ==
    /\ Up(c) /\ SetConn(c, "down")
    /\ subscribed' = [k \in Kind |-> subscribed[k] \ {c}]
    /\ UNCHANGED <<connRest, q>>

RemoveClient(c) ==
    /\ conn[c] = "down" /\ SetConn(c, "gone")
    /\ Enqueue(Message("remove", c, "none", 0, <<>>)) \/ (quit /\ UNCHANGED q)
    /\ UNCHANGED <<connRest, subscribed>>

requestRest == <<quit, queueAlive, handlerAlive, conn, clients, registered,
                 log, delivered>>

\* A client asks to register for a kind, or not to be told of it any more.
Ask(c) ==
    /\ Up(c) /\ request[c] = NoRequest
    /\ requests < MaxRequests /\ requests' = requests + 1
    /\ \E op \in {"register", "unregister"}, k \in Kind :
           /\ op = "unregister" => c \in subscribed[k]
           /\ request' = [request EXCEPT ![c] = [op |-> op, kind |-> k, f |-> 0]]
           /\ subscribed' = IF op = "register" THEN subscribed
                            ELSE [subscribed EXCEPT ![k] = @ \ {c}]
    /\ UNCHANGED <<requestRest, q, filterData, filters, examined>>

\* The message is queued, without a look at quit, and the request answered.
Registered(c) ==
    LET r == request[c]
    IN  /\ r.op \in {"register", "unregister"}
        /\ Enqueue(Message(r.op, c, r.kind, 0, <<>>))
        /\ request' = [request EXCEPT ![c] = NoRequest]
        /\ subscribed' = IF r.op = "register" /\ Up(c)
                         THEN [subscribed EXCEPT ![r.kind] = @ \cup {c}] ELSE subscribed
        /\ UNCHANGED <<requestRest, filterData, filters, requests, examined>>

\* loadtxfilter: a filter with the address is made, or the one there is is kept.
handleLoadTxFilter(c) ==
    /\ Up(c) /\ request[c] = NoRequest
    /\ requests < MaxRequests /\ requests' = requests + 1
    /\ Len(filters) < MaxFilters
    /\ \E reload \in BOOLEAN :
           IF reload \/ filterData[c] = 0
           THEN /\ filters' = Append(filters, {})
                /\ filterData' = [filterData EXCEPT ![c] = Len(filters) + 1]
           ELSE UNCHANGED <<filters, filterData>>
    /\ UNCHANGED <<requestRest, q, request, subscribed, examined>>

\* rescan takes the filter, and then looks at the blocks: here at one,
\* with the first of the transactions.
handleRescan(c) ==
    /\ Up(c) /\ request[c] = NoRequest /\ filterData[c] # 0
    /\ requests < MaxRequests /\ requests' = requests + 1
    /\ request' = [request EXCEPT ![c] = [op |-> "rescan", kind |-> "none", f |-> filterData[c]]]
    /\ UNCHANGED <<requestRest, q, filterData, filters, subscribed, examined>>

rescanBlock(c) ==
    LET f == request[c].f
    IN  /\ request[c].op = "rescan" /\ request' = [request EXCEPT ![c] = NoRequest]
        /\ filters' = addUnspentOutPoint({f}, 1)
        /\ examined' = Append(examined,
               [tx |-> 1, by |-> [d \in Client |-> IF d = c THEN f ELSE 0],
                told |-> IF relevant(f, 1) THEN {c} ELSE {}])
        /\ UNCHANGED <<requestRest, q, filterData, requests, subscribed>>

ClientStep(c) ==
    \/ Connect(c) \/ AddClient(c) \/ Leave(c) \/ RemoveClient(c) \/ Ask(c)
    \/ Registered(c) \/ handleLoadTxFilter(c) \/ handleRescan(c) \/ rescanBlock(c)

NextNtfn ==
    \/ queueHandler \/ notificationHandler \/ Notify \/ Shutdown
    \/ \E c \in Client : ClientStep(c)

SpecNtfn == InitNtfn /\ [][NextNtfn]_ntfnVars

-----------------------------------------------------------------------------
(* Properties.                                                              *)

\* An event that has been handled was told to every client whose registration
\* had been answered before it was queued, unless the client has left since; and
\* each client is told the events in the order they were queued.
RegisteredTold ==
    \A c \in Client :
        /\ Up(c) => \A n \in DOMAIN log :
               log[n].done /\ c \in log[n].expect => n \in ToSet(delivered[c])
        /\ \A i, j \in DOMAIN delivered[c] : i < j => delivered[c][i] < delivered[c][j]

\* A client that was told of a payment to an address it watches, by a
\* notification or by a rescan, is told of the transaction that spends it, as
\* long as it has not replaced its filter.
SpendsTold ==
    \A i, j \in DOMAIN examined : \A c \in examined[i].told :
        /\ i < j /\ Spends[examined[j].tx] = examined[i].tx
        /\ examined[i].tx \in Watched
        /\ examined[j].by[c] = examined[i].by[c]
        => c \in examined[j].told

NtfnSound == RegisteredTold /\ SpendsTold
=============================================================================
