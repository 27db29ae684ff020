------------------------------ MODULE CPUMiner ------------------------------
(***************************************************************************)
(* The goroutines of the CPU miner (cpuminer.go): the workers, the         *)
(* controller that starts and stops them, the speed monitor they report    *)
(* to, and the calls of the RPC server and of the server: Start, Stop,     *)
(* SetNumWorkers, HashesPerSecond and GenerateNBlocks.                     *)
(*                                                                         *)
(* What a block contains and how it is solved is module Mining.  Here a    *)
(* template is made or not, and a search ends by a solution, by quit or    *)
(* because the work is stale.  The lock of block submission is held only   *)
(* inside the steps Top and Submit.  handleSetGenerate never calls         *)
(* SetNumWorkers with 0, so the number of workers is at least 1.           *)
(***************************************************************************)
EXTENDS Integers, FiniteSets, Sequences, Functions

CONSTANTS
    Caller,         \* the goroutines that call the methods, as numbers
    Worker,         \* bound on the workers alive at a time, as other numbers
    DefaultWorkers, \* defaultNumWorkers
    MaxWorkers,     \* bound on what SetNumWorkers is called with
    MaxCalls        \* bound on the calls

ASSUME MinerAssumption ==
    /\ Caller \subseteq Nat \ {0} /\ Worker \subseteq Nat /\ Caller \cap Worker = {}
    /\ DefaultWorkers \in Nat \ {0} /\ MaxWorkers \in Nat /\ MaxCalls \in Nat

VARIABLES
    mlock,          \* who holds the mutex of the miner; 0: nobody
    started,        \* started
    discreteMining, \* discreteMining
    numWorkers,     \* numWorkers, read by the controller without the lock
    quitClosed,     \* quit is closed
    monitor,        \* the speed monitor is alive
    monitorClosed,  \* speedMonitorQuit is closed
    controller,     \* where the controller is
    runningWorkers, \* its local, a worker for each quit channel
    signalled,      \* the workers whose quit channel is closed
    mining,         \* where each worker is, and each caller in its own search
    call,           \* what each caller is doing
    calls,          \* how many calls have been made
    crashed         \* a map was written by two goroutines, or a number
                    \* of workers has wrapped around

minerVars == <<mlock, started, discreteMining, numWorkers, quitClosed, monitor,
               monitorClosed, controller, runningWorkers, signalled, mining,
               call, calls, crashed>>

NoCall == [op |-> "none", at |-> "none", arg |-> 0]

\* newCPUMiner.
InitMiner ==
    /\ mlock = 0 /\ started = FALSE /\ discreteMining = FALSE
    /\ numWorkers = DefaultWorkers
    /\ quitClosed = FALSE /\ monitor = FALSE /\ monitorClosed = FALSE
    /\ controller = "none" /\ runningWorkers = <<>> /\ signalled = {}
    /\ mining = [t \in Worker \cup Caller |-> "none"]
    /\ call = [c \in Caller |-> NoCall]
    /\ calls = 0 /\ crashed = FALSE

AliveWorkers == {w \in Worker : mining[w] # "none"}

Doing(c, op, at) == call[c].op = op /\ call[c].at = at
CallAt(c, at) == call' = [call EXCEPT ![c].at = at]
ReturnOf(c) == call' = [call EXCEPT ![c] = NoCall]

-----------------------------------------------------------------------------
(* A search for a block, by a worker or by GenerateNBlocks.                 *)

searchRest == <<mlock, started, discreteMining, numWorkers, quitClosed, monitor,
                monitorClosed, controller, runningWorkers, calls>>

Search(t, from, to) ==
    /\ mining[t] = from
    /\ mining' = [mining EXCEPT ![t] = to]

\* The loop of a worker looks at quit before it takes a template.  Without one
\* it stays where it is.
Top(w) ==
    /\ \/ w \in signalled /\ Search(w, "top", "none") /\ signalled' = signalled \ {w}
       \/ w \notin signalled /\ Search(w, "top", "solve") /\ UNCHANGED signalled
    /\ UNCHANGED <<searchRest, call, crashed>>

\* solveBlock, between two sends to the speed monitor: quit, the ticker, a
\* solution, or the end of the nonces.  GenerateNBlocks passes no quit channel.
Solve(t) ==
    /\ \/ Search(t, "solve", "tick") \/ Search(t, "solve", "found")
       \/ Search(t, "solve", "top")
    /\ UNCHANGED <<searchRest, signalled, call, crashed>>

\* The speed monitor receives the number of hashes; the work is stale, or not.
Continue(t) ==
    /\ monitor /\ Search(t, "tick", "solve")
    /\ UNCHANGED <<searchRest, signalled, call, crashed>>

Stale(t) ==
    /\ monitor /\ Search(t, "tick", "top")
    /\ UNCHANGED <<searchRest, signalled, call, crashed>>

\* A worker reports a solution, submits its block and begins to count it in
\* minedOnParents.
Submit(w) ==
    /\ monitor /\ Search(w, "found", "count")
    /\ UNCHANGED <<searchRest, signalled, call, crashed>>

\* minedOnParents is a map without a lock: two workers that write it at a time
\* may end the program.
Count(w) ==
    /\ Search(w, "count", "top")
    /\ crashed' \in {FALSE, \E v \in Worker \ {w} : mining[v] = "count"}
    /\ UNCHANGED <<searchRest, signalled, call>>

generateBlocks(w) ==
    \/ Top(w) \/ Solve(w) \/ Continue(w) \/ Stale(w) \/ Submit(w) \/ Count(w)

-----------------------------------------------------------------------------
(* The speed monitor.                                                       *)

speedMonitor ==
    /\ monitor /\ monitorClosed /\ monitor' = FALSE
    /\ UNCHANGED <<mlock, started, discreteMining, numWorkers, quitClosed,
                   monitorClosed, controller, runningWorkers, signalled, mining,
                   call, calls, crashed>>

-----------------------------------------------------------------------------
(* The controller.                                                          *)

controllerRest == <<mlock, started, discreteMining, numWorkers, quitClosed,
                    monitor, calls>>

\* Goroutines have no names: the new ones are the first that are free.
launchWorkers(n) ==
    \E new \in [1..n -> Worker \ AliveWorkers] :
        /\ \A i, j \in 1..n : i < j => new[i] < new[j]
        /\ \A w \in Worker \ AliveWorkers : w \notin Range(new) => \A i \in 1..n : new[i] < w
        /\ runningWorkers' = runningWorkers \o new
        /\ mining' = [t \in DOMAIN mining |->
               IF t \in Range(new) THEN "top" ELSE mining[t]]

ControllerLaunch ==
    /\ controller = "launch" /\ launchWorkers(numWorkers) /\ controller' = "select"
    /\ UNCHANGED <<controllerRest, monitorClosed, signalled, call, crashed>>

\* The comparison with numWorkers and the two uses of it after that read the
\* variable anew.
ControllerCompare ==
    /\ \/ controller = "update"
          /\ controller' = IF numWorkers = Len(runningWorkers) THEN "select" ELSE "compare"
       \/ controller = "compare"
          /\ controller' = IF numWorkers > Len(runningWorkers) THEN "grow" ELSE "shrink"
    /\ UNCHANGED <<controllerRest, monitorClosed, runningWorkers, signalled,
                   mining, call, crashed>>

\* numWorkers - numRunning is a uint32: less than zero is four thousand million
\* workers.
ControllerGrow ==
    /\ controller = "grow" /\ controller' = "select"
    /\ \/ /\ numWorkers >= Len(runningWorkers)
          /\ launchWorkers(numWorkers - Len(runningWorkers))
          /\ UNCHANGED crashed
       \/ /\ numWorkers < Len(runningWorkers)
          /\ crashed' = TRUE /\ UNCHANGED <<runningWorkers, mining>>
    /\ UNCHANGED <<controllerRest, monitorClosed, signalled, call>>

\* One round of the loop that closes the quit channel of the newest worker.
ControllerShrink ==
    /\ controller = "shrink"
    /\ \/ /\ Len(runningWorkers) > numWorkers
          /\ signalled' = signalled \cup {runningWorkers[Len(runningWorkers)]}
          /\ runningWorkers' = SubSeq(runningWorkers, 1, Len(runningWorkers) - 1)
          /\ UNCHANGED controller
       \/ /\ Len(runningWorkers) <= numWorkers /\ controller' = "select"
          /\ UNCHANGED <<signalled, runningWorkers>>
    /\ UNCHANGED <<controllerRest, monitorClosed, mining, call, crashed>>

ControllerQuit ==
    /\ controller = "select" /\ quitClosed /\ controller' = "wait"
    /\ signalled' = signalled \cup Range(runningWorkers)
    /\ runningWorkers' = <<>>
    /\ UNCHANGED <<controllerRest, monitorClosed, mining, call, crashed>>

\* Mutant: the speed monitor is told to quit before the workers have ended.
ControllerDoneEarly ==
    /\ controller = "wait" /\ controller' = "none" /\ monitorClosed' = TRUE
    /\ UNCHANGED <<controllerRest, runningWorkers, signalled, mining, call, crashed>>

\* workerWg.Wait, and the end of the speed monitor.
ControllerDone ==
    /\ controller = "wait" /\ AliveWorkers = {}
    /\ controller' = "none" /\ monitorClosed' = TRUE
    /\ UNCHANGED <<controllerRest, runningWorkers, signalled, mining, call, crashed>>

miningWorkerController ==
    \/ ControllerLaunch \/ ControllerCompare \/ ControllerGrow \/ ControllerShrink
    \/ ControllerQuit \/ ControllerDone

-----------------------------------------------------------------------------
(* The calls.                                                               *)

callRest == <<numWorkers, runningWorkers, signalled, calls, crashed>>

\* A caller begins a call: it waits for the lock.
BeginCall(c) ==
    /\ call[c] = NoCall /\ calls < MaxCalls /\ calls' = calls + 1
    /\ \E op \in {"Start", "Stop", "HashesPerSecond", "SetNumWorkers", "GenerateNBlocks"} :
           \E n \in IF op = "SetNumWorkers" THEN 1..MaxWorkers ELSE {1} :
               call' = [call EXCEPT ![c] = [op |-> op, at |-> "lock", arg |-> n]]
    /\ UNCHANGED <<mlock, started, discreteMining, numWorkers, quitClosed, monitor,
                   monitorClosed, controller, runningWorkers, signalled, mining, crashed>>

Start(c) ==
    /\ Doing(c, "Start", "lock") /\ mlock = 0 /\ ReturnOf(c)
    /\ IF started \/ discreteMining
       THEN UNCHANGED <<quitClosed, monitorClosed, monitor, controller, started>>
       ELSE /\ quitClosed' = FALSE /\ monitorClosed' = FALSE /\ monitor' = TRUE
            /\ controller' = "launch" /\ started' = TRUE
    /\ UNCHANGED <<callRest, mlock, discreteMining, mining>>

Stop(c) ==
    /\ \/ /\ Doing(c, "Stop", "lock") /\ mlock = 0
          /\ IF ~started \/ discreteMining
             THEN ReturnOf(c) /\ UNCHANGED <<mlock, quitClosed>>
             ELSE CallAt(c, "wait") /\ mlock' = c /\ quitClosed' = TRUE
          /\ UNCHANGED started
       \/ /\ Doing(c, "Stop", "wait") /\ controller = "none" /\ ~monitor
          /\ started' = FALSE /\ mlock' = 0 /\ ReturnOf(c) /\ UNCHANGED quitClosed
    /\ UNCHANGED <<callRest, discreteMining, monitor, monitorClosed, controller, mining>>

\* The answer is received while the lock is held.
HashesPerSecond(c) ==
    /\ \/ /\ Doing(c, "HashesPerSecond", "lock") /\ mlock = 0
          /\ IF started THEN CallAt(c, "query") /\ mlock' = c
             ELSE ReturnOf(c) /\ UNCHANGED mlock
       \/ /\ Doing(c, "HashesPerSecond", "query") /\ monitor
          /\ mlock' = 0 /\ ReturnOf(c)
    /\ UNCHANGED <<callRest, started, discreteMining, quitClosed, monitor,
                   monitorClosed, controller, mining>>

\* The number is set, and sent for while the lock is held: to the controller
\* or to a GenerateNBlocks that looks for it.
SetNumWorkers(c) ==
    /\ Doing(c, "SetNumWorkers", "lock") /\ mlock = 0
    /\ numWorkers' = call[c].arg
    /\ IF started THEN CallAt(c, "send") /\ mlock' = c
       ELSE ReturnOf(c) /\ UNCHANGED mlock
    /\ UNCHANGED <<started, discreteMining, quitClosed, monitor, monitorClosed,
                   controller, runningWorkers, signalled, mining, calls, crashed>>

ReceiveUpdate(c) ==
    /\ Doing(c, "SetNumWorkers", "send") /\ controller = "select"
    /\ controller' = "update"
    /\ mlock' = 0 /\ ReturnOf(c)
    /\ UNCHANGED <<callRest, started, discreteMining, quitClosed, monitor,
                   monitorClosed, mining>>

\* GenerateNBlocks begins, unless the miner runs already.
GenerateStart(c) ==
    /\ Doing(c, "GenerateNBlocks", "lock") /\ mlock = 0
    /\ IF started \/ discreteMining
       THEN ReturnOf(c) /\ UNCHANGED <<started, discreteMining, monitor, monitorClosed, mining>>
       ELSE /\ started' = TRUE /\ discreteMining' = TRUE
            /\ monitor' = TRUE /\ monitorClosed' = FALSE
            /\ mining' = [mining EXCEPT ![c] = "top"] /\ CallAt(c, "mine")
    /\ UNCHANGED <<callRest, mlock, quitClosed, controller>>

\* Mutant: GenerateNBlocks does not look for an update.
GenerateTopDeaf(c) ==
    /\ Search(c, "top", "solve")
    /\ UNCHANGED <<callRest, mlock, started, discreteMining, quitClosed, monitor,
                   monitorClosed, controller, call>>

\* The top of its loop: a pending update is received and ignored.
GenerateTop(c) ==
    /\ Search(c, "top", "solve")
    /\ LET senders == {d \in Caller : Doing(d, "SetNumWorkers", "send")}
       IN  IF senders = {} THEN UNCHANGED <<mlock, call>>
           ELSE /\ mlock' = 0
                /\ call' = [d \in Caller |-> IF d \in senders THEN NoCall ELSE call[d]]
    /\ UNCHANGED <<callRest, started, discreteMining, quitClosed, monitor,
                   monitorClosed, controller>>

\* The solution is reported and submitted.  It is the last one, or not.
GenerateSubmit(c) ==
    /\ monitor
    /\ \/ Search(c, "found", "none") /\ CallAt(c, "finish")
       \/ Search(c, "found", "top") /\ UNCHANGED call
    /\ UNCHANGED <<callRest, mlock, started, discreteMining, quitClosed, monitor,
                   monitorClosed, controller>>

\* After the last block: the lock, the end of the monitor, and the return.
GenerateFinish(c) ==
    /\ \/ /\ Doing(c, "GenerateNBlocks", "finish") /\ mlock = 0
          /\ mlock' = c /\ monitorClosed' = TRUE /\ CallAt(c, "wait")
          /\ UNCHANGED <<started, discreteMining>>
       \/ /\ Doing(c, "GenerateNBlocks", "wait") /\ ~monitor
          /\ started' = FALSE /\ discreteMining' = FALSE /\ mlock' = 0 /\ ReturnOf(c)
          /\ UNCHANGED monitorClosed
    /\ UNCHANGED <<callRest, quitClosed, monitor, controller, mining>>

GenerateNBlocks(c) ==
    \/ GenerateStart(c) \/ GenerateTop(c) \/ GenerateSubmit(c) \/ GenerateFinish(c)
    \/ Solve(c) \/ Continue(c) \/ Stale(c)

CallStep(c) ==
    \/ Start(c) \/ Stop(c) \/ HashesPerSecond(c) \/ SetNumWorkers(c)
    \/ ReceiveUpdate(c) \/ GenerateNBlocks(c)

NextMiner ==
    /\ ~crashed
    /\ \/ \E c \in Caller : BeginCall(c) \/ CallStep(c)
       \/ \E w \in Worker : generateBlocks(w)
       \/ miningWorkerController \/ speedMonitor

SpecMiner == InitMiner /\ [][NextMiner]_minerVars

\* Every goroutine is scheduled.  The search of a block ends: the work is stale
\* after five seconds, whatever the ticker and quit do.
FairMiner ==
    /\ \A c \in Caller : WF_minerVars(~crashed /\ CallStep(c))
    /\ \A w \in Worker : WF_minerVars(~crashed /\ generateBlocks(w))
    /\ \A t \in Worker \cup Caller : SF_minerVars(~crashed /\ Stale(t))
    /\ WF_minerVars(~crashed /\ miningWorkerController)
    /\ WF_minerVars(~crashed /\ speedMonitor)

-----------------------------------------------------------------------------
(* Properties.                                                              *)

\* Once the lock is free and the miner is not started nothing of it is left;
\* whoever searches has a monitor to report to; a controller that waits for the
\* next update, with none pending, has as many workers as were asked for, and
\* every other worker that is still alive has been told to quit.
MinerSound ==
    /\ mlock = 0 /\ ~started => controller = "none" /\ ~monitor /\ AliveWorkers = {}
    /\ (\E t \in DOMAIN mining : mining[t] # "none") => monitor
    /\ /\ controller = "select" /\ ~quitClosed /\ ~crashed
       /\ \A c \in Caller : ~Doing(c, "SetNumWorkers", "send")
       => /\ Len(runningWorkers) = numWorkers
          /\ AliveWorkers \ signalled = Range(runningWorkers)
    /\ discreteMining => AliveWorkers = {}

\* SetNumWorkers holds the lock and waits for a receiver, while the only one is
\* a GenerateNBlocks that has mined its last block and waits for the lock.
Stuck ==
    \E c, d \in Caller :
        Doing(c, "SetNumWorkers", "send") /\ Doing(d, "GenerateNBlocks", "finish")

\* A call returns, unless the program has ended or the two calls above wait for
\* each other; GenerateNBlocks does once it has mined its last block.
CallsReturn ==
    \A c \in Caller :
        (call[c] # NoCall /\ (call[c].op = "GenerateNBlocks" => call[c].at # "mine"))
            ~> (call[c] = NoCall \/ Doing(c, "GenerateNBlocks", "mine") \/ crashed \/ Stuck)

\* What the comment at the top of the loop of GenerateNBlocks relies on: a
\* `setgenerate` during a `generate` is received and ignored.
SetGenerateIgnored == ~Stuck
=============================================================================
