---------------------------- MODULE IndexManager ----------------------------
(***************************************************************************)
(* The optional indexes of the chain (blockchain/indexers/manager.go,      *)
(* txindex.go, addrindex.go) beside the ledger of UtxoView.                *)
(*                                                                         *)
(* An index keeps a tip in the database.  While the node runs, each        *)
(* enabled index is updated in the database transaction that moves the     *)
(* best block.  An index that was disabled for a while is brought up to    *)
(* the best block at start-up, one database transaction per height, and an *)
(* index can be dropped, in several transactions.  The process can stop    *)
(* between any two transactions and be started again with other indexes    *)
(* enabled, or only to drop one.                                           *)
(*                                                                         *)
(* The transaction index maps a transaction to the internal id of its      *)
(* block, and the id to the block; the next id is kept in memory.  The     *)
(* address index is the set of transactions it lists; its levels and the   *)
(* exists address index, which forgets nothing, are in LedgerCodec.        *)
(***************************************************************************)
EXTENDS UtxoView

CONSTANT MaxBlockID     \* bound on the ids that are given out

Index == {"tx", "addr"}

(* The commands of the command line: the indexes to run with (the address  *)
(* index enables the transaction index), or the index to drop.             *)
Commands == {"none", "tx", "addr", "droptx", "dropaddr"}

VARIABLES
    command,        \* of the running process
    phase,          \* what it is doing
    todo,           \* the drop under way: what is still to be done
    tips,           \* the tip of each index, NoTip for none
    dropping,       \* the indexes with a drop key
    txEntries,      \* the transaction index: the block id of a transaction, 0 for none
    idByHash,       \* the id of a block, 0 for none
    hashByID,       \* the block of an id, NoTip for none
    idBuckets,      \* whether the two buckets above exist
    addrEntries,    \* the transactions the address index lists
    curBlockID,     \* idx.curBlockID; -1 stands for the wrapped 2^32 - 1
    torn            \* history: curBlockID has moved without its transaction

NoTip == "NoTip"

txStore == <<txEntries, idByHash, hashByID, idBuckets>>

store == <<tips, dropping, txStore, addrEntries>>

indexes == <<command, phase, todo, store, curBlockID, torn>>

vars == <<ledger, indexes>>

Enabled == CASE command = "tx" -> {"tx"} [] command = "addr" -> Index [] OTHER -> {}

Init ==
    /\ InitLedger
    /\ command = "none"
    /\ phase = "stopped"
    /\ todo = << >>
    /\ tips = [i \in Index |-> NoTip]
    /\ dropping = {}
    /\ txEntries = [t \in Tx |-> 0]
    /\ idByHash = [b \in Hash |-> 0]
    /\ hashByID = [n \in 1 .. MaxBlockID |-> NoTip]
    /\ idBuckets = FALSE
    /\ addrEntries = {}
    /\ curBlockID = 0
    /\ torn = FALSE

-----------------------------------------------------------------------------
(* Connecting a block to the indexes, and disconnecting one. *)

(* The transactions an index lists with block b: the regular ones of its   *)
(* parent if its vote bit approves them, and its stake transactions.       *)
Listed(b) ==
    (IF b \in Approves /\ Height[b] > 1 THEN Txs(Regular[Prev[b]]) ELSE {})
      \cup Txs(Stake[b])

(* dbIndexConnectBlock refuses a block that does not extend the tip; the   *)
(* indexers need the ids of the parent.                                    *)
CanConnect(i, b) ==
    /\ tips[i] = Prev[b]
    /\ b \in Approves /\ Height[b] > 1 => idByHash[Prev[b]] # 0

(* dbAddTxIndexEntries, dbPutBlockIDIndexEntry. *)
TxConnect(b, id) ==
    /\ txEntries' = [t \in Tx |->
                        IF t \in Txs(Stake[b]) THEN id
                        ELSE IF t \in Listed(b) THEN idByHash[Prev[b]]
                        ELSE txEntries[t]]
    /\ idByHash' = [idByHash EXCEPT ![b] = id]
    /\ hashByID' = [hashByID EXCEPT ![id] = b]
    /\ curBlockID' = id

(* The indexes of S take block b. *)
IndexConnect(S, b) ==
    /\ \A i \in S : CanConnect(i, b)
    /\ curBlockID \in 0 .. MaxBlockID - 1
    /\ tips' = [i \in Index |-> IF i \in S THEN b ELSE tips[i]]
    /\ IF "tx" \in S THEN TxConnect(b, curBlockID + 1)
       ELSE UNCHANGED <<txEntries, idByHash, hashByID, curBlockID>>
    /\ addrEntries' = IF "addr" \in S THEN addrEntries \cup Listed(b)
                      ELSE addrEntries
    /\ UNCHANGED <<idBuckets, dropping>>

(* Mutant: the tip of the index stays. *)
TipsStay(b) == tips

TipsBack(b) == [i \in Index |-> IF i \in Enabled THEN Prev[b] ELSE tips[i]]

(* dbIndexDisconnectBlock of every enabled index. *)
IndexDisconnect(b) ==
    /\ \A i \in Enabled : tips[i] = b
    /\ \A t \in Listed(b) : "tx" \in Enabled => txEntries[t] # 0
    /\ tips' = TipsBack(b)
    /\ IF "tx" \in Enabled
       THEN /\ txEntries' = [t \in Tx |-> IF t \in Listed(b) THEN 0 ELSE txEntries[t]]
            /\ hashByID' = [hashByID EXCEPT ![idByHash[b]] = NoTip]
            /\ idByHash' = [idByHash EXCEPT ![b] = 0]
            /\ curBlockID' = curBlockID - 1
       ELSE UNCHANGED <<txEntries, idByHash, hashByID, curBlockID>>
    /\ addrEntries' = IF "addr" \in Enabled THEN addrEntries \ Listed(b)
                      ELSE addrEntries
    /\ UNCHANGED <<idBuckets, dropping>>

-----------------------------------------------------------------------------
(* The running node. *)

Running == phase = "running"

StepUnindexed ==
    /\ chain' = chain
    /\ UNCHANGED <<store, curBlockID>>

(* A step of the chain, with the indexes in its database transaction. *)
ChainStep ==
    /\ Running
    /\ \/ \E b \in Block : ExtendBestChain(b) \/ FastAdd(b) \/ SideBlock(b)
       \/ DetachStep
       \/ AttachStep
    /\ \/ StepUnindexed
       \/ Len(chain') > Len(chain) /\ IndexConnect(Enabled, Last(chain'))
       \/ Len(chain') < Len(chain) /\ IndexDisconnect(Tip)
    /\ UNCHANGED <<command, phase, todo, torn>>

(* The transaction of a reorganization fails: what it wrote is gone, but   *)
(* the transaction index may have counted its block already.               *)
FailedStep ==
    /\ Running
    /\ UpdateFails
    /\ \/ UNCHANGED <<curBlockID, torn>>
       \/ /\ "tx" \in Enabled
          /\ curBlockID' = IF reorg.detach # << >> THEN curBlockID - 1
                           ELSE curBlockID + 1
          /\ torn' = TRUE
    /\ UNCHANGED <<command, phase, todo, store>>

-----------------------------------------------------------------------------
(* dropIndex, one database transaction at a time. *)

DropSteps(i) ==
    IF tips[i] = NoTip THEN << >>
    ELSE <<<<"mark", i>>, <<"entries", i>>>>
           \o (IF i = "tx" THEN <<<<"ids", i>>>> ELSE << >>) \o <<<<"finish", i>>>>

MarkDropping(i) == dropping \cup {i}

Fail == phase' = "failed" /\ todo' = << >>

DropStep ==
    /\ todo # << >>
    /\ LET what == todo[1][1]
           i    == todo[1][2]
       IN  \/ /\ what = "mark"
              /\ dropping' = MarkDropping(i)
              /\ todo' = Tail(todo)
              /\ UNCHANGED <<tips, txStore, addrEntries, phase>>
           \/ /\ what = "entries"
              /\ IF i = "tx"
                 THEN /\ txEntries' = [t \in Tx |-> 0]
                      /\ UNCHANGED <<idByHash, hashByID, idBuckets, addrEntries>>
                 ELSE addrEntries' = {} /\ UNCHANGED txStore
              /\ todo' = Tail(todo)
              /\ UNCHANGED <<tips, dropping, phase>>
           \/ \* DeleteBucket refuses a bucket that is gone already.
              /\ what = "ids" /\ ~ idBuckets
              /\ Fail
              /\ UNCHANGED store
           \/ /\ what = "ids" /\ idBuckets
              /\ idByHash' = [b \in Hash |-> 0]
              /\ hashByID' = [n \in 1 .. MaxBlockID |-> NoTip]
              /\ idBuckets' = FALSE
              /\ todo' = Tail(todo)
              /\ UNCHANGED <<tips, dropping, txEntries, addrEntries, phase>>
           \/ /\ what = "finish"
              /\ tips' = [tips EXCEPT ![i] = NoTip]
              /\ dropping' = dropping \ {i}
              /\ todo' = Tail(todo)
              /\ UNCHANGED <<txStore, addrEntries, phase>>
    /\ UNCHANGED <<ledger, command, curBlockID, torn>>

-----------------------------------------------------------------------------
(* Start-up. *)

(* The process ends, by itself or in a crash, and is started again.        *)
Restart(c) ==
    /\ RestartLedger
    /\ command' = c
    /\ curBlockID' = 0
    /\ phase' = CASE c \in {"droptx", "dropaddr"} -> "drop"
                  [] c = "none"                   -> "running"
                  [] OTHER                        -> "finish_drops"
    /\ todo' = CASE c = "droptx"   -> DropSteps("addr") \o DropSteps("tx")
                 [] c = "dropaddr" -> DropSteps("addr")
                 [] c = "none"     -> << >>
                 [] OTHER ->
                      (IF "tx" \in dropping THEN DropSteps("tx") ELSE << >>)
                        \o (IF c = "addr" /\ "addr" \in dropping
                            THEN DropSteps("addr") ELSE << >>)
    /\ UNCHANGED <<store, torn>>

(* A drop command ends when its index is gone. *)
DropDone ==
    /\ phase = "drop" /\ todo = << >>
    /\ phase' = "stopped"
    /\ UNCHANGED <<ledger, command, todo, store, curBlockID, torn>>

(* TxIndex.Init looks for an id in use that the next one is not, by        *)
(* scanning and bisecting.                                                 *)
LatestID ==
    {n \in 0 .. MaxBlockID :
        /\ n = 0 => hashByID[1] = NoTip
        /\ n > 0 => hashByID[n] # NoTip
        /\ n \in 1 .. MaxBlockID - 1 => hashByID[n + 1] = NoTip}

(* maybeCreateIndexes, and the Init of the indexes.  An index that exists  *)
(* and whose tip is not on the main chain is to be rolled back: the loop   *)
(* loads the block of that height from the main chain, which is not the    *)
(* tip, and dbIndexDisconnectBlock refuses it.                             *)
CreateAndRollBack ==
    /\ phase = "finish_drops" /\ todo = << >>
    /\ tips' = [i \in Index |->
                   IF i \in Enabled /\ tips[i] = NoTip THEN Genesis ELSE tips[i]]
    /\ idBuckets' = (idBuckets \/ tips["tx"] = NoTip)
    /\ curBlockID' \in LatestID
    /\ phase' = IF \A i \in Enabled : tips'[i] \in Main THEN "catch_up" ELSE "failed"
    /\ UNCHANGED <<ledger, command, todo, dropping, txEntries, idByHash,
                   hashByID, addrEntries, torn>>

(* The indexes at the lowest height below the best block. *)
Lowest ==
    {i \in Enabled : \A j \in Enabled : Height[tips[i]] <= Height[tips[j]]
                       /\ Height[tips[i]] < Height[Tip]}

(* makeUtxoView reads the inputs of the transactions of a block from the   *)
(* transaction index, which has taken the block before.  It skips the      *)
(* first regular transaction only, and takes the input of the second       *)
(* coinbase of a key block for one to look up.                             *)
CanMakeView(b) ==
    /\ ~ (b \in Approves /\ Prev[b] \in KeyBlock \ {Genesis})
    /\ \A t \in Origins(Stake[b]) \cup
             (IF b \in Approves THEN Origins(Regular[Prev[b]]) ELSE {}) :
          txEntries[t] # 0 \/ t \in Listed(b)

NextHeight == {b \in Main : \E i \in Lowest : Height[b] = Height[tips[i]] + 1}

CannotIndex(b) ==
    \/ "addr" \in Lowest /\ ~ CanMakeView(b)
    \/ \E i \in Lowest : ~ CanConnect(i, b)

(* Mutant: a block that cannot be indexed is tried again. *)
CatchUpRetries ==
    /\ phase = "catch_up"
    /\ \E b \in NextHeight :
          /\ ~ CannotIndex(b)
          /\ IndexConnect(Lowest, b)
    /\ UNCHANGED <<ledger, command, phase, todo, torn>>

(* One height of the catch-up. *)
CatchUp ==
    /\ phase = "catch_up"
    /\ \E b \in NextHeight :
          IF CannotIndex(b)
          THEN phase' = "failed" /\ UNCHANGED <<store, curBlockID>>
          ELSE IndexConnect(Lowest, b) /\ UNCHANGED phase
    /\ UNCHANGED <<ledger, command, todo, torn>>

CaughtUp ==
    /\ phase = "catch_up" /\ Lowest = {}
    /\ phase' = "running"
    /\ UNCHANGED <<ledger, command, todo, store, curBlockID, torn>>

StartUp == DropStep \/ DropDone \/ CreateAndRollBack \/ CatchUp \/ CaughtUp

Next ==
    \/ ChainStep
    \/ FailedStep
    \/ StartUp
    \/ \E c \in Commands : Restart(c)

(* The start-up runs on the main goroutine, which nothing holds up. *)
Spec == Init /\ [][Next]_vars /\ WF_vars(StartUp)

-----------------------------------------------------------------------------
(* Properties. *)

TypeOK ==
    /\ Main \subseteq Hash /\ side \subseteq Block /\ Main \cap side = {}
    /\ tips \in [Index -> Hash \cup {NoTip}]
    /\ dropping \subseteq Index
    /\ txEntries \in [Tx -> 0 .. MaxBlockID]
    /\ idByHash \in [Hash -> 0 .. MaxBlockID]
    /\ hashByID \in [1 .. MaxBlockID -> Hash \cup {NoTip}]
    /\ addrEntries \subseteq Tx
    /\ curBlockID \in -1 .. MaxBlockID + 1
    /\ command \in Commands

AllListed == UNION {Listed(b) : b \in Main}

(* However often the node was stopped, started with other indexes and      *)
(* moved between branches: while it runs, every enabled index stands at    *)
(* the best block and lists exactly the transactions of the main chain     *)
(* that the vote bits approve, and the transaction index leads to a block  *)
(* of the main chain that carries the transaction (unless an update failed *)
(* under the index).                                                       *)
IndexesFollow ==
    /\ TypeOK
    /\ Running =>
          /\ \A i \in Enabled : tips[i] = Tip
          /\ "addr" \in Enabled => addrEntries = AllListed
          /\ "tx" \in Enabled => /\ {t \in Tx : txEntries[t] # 0} = AllListed
                                 /\ idByHash[Tip] # 0
          /\ "tx" \in Enabled /\ ~ torn =>
                \A t \in AllListed :
                   LET b == hashByID[txEntries[t]]
                   IN  b \in Main /\ t \in Txs(Regular[b]) \cup Txs(Stake[b])

(* A start fails only where the code cannot go on: an enabled index was    *)
(* left on a block that is no longer on the main chain; the address index  *)
(* has to catch up with a block it cannot load the inputs of; or a drop of *)
(* the transaction index was cut off after its id buckets went.            *)
StartFailsOnly ==
    phase = "failed" =>
      \/ \E i \in Enabled : tips[i] \notin Main
      \/ /\ "addr" \in Enabled
         /\ \E b \in Main \ {Genesis} : Prev[b] = tips["addr"] /\ ~ CanMakeView(b)
      \/ "tx" \in dropping /\ ~ idBuckets

(* What the indexes list while the node runs, and when it cannot start.    *)
IndexesSound == IndexesFollow /\ StartFailsOnly

(* Every start ends: the node runs, has dropped its index, or gives up.    *)
StartEnds ==
    phase \in {"drop", "finish_drops", "catch_up"}
      ~> phase \in {"running", "stopped", "failed"}

=============================================================================
