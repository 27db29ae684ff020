----------------------------- MODULE BlockChain -----------------------------
(***************************************************************************)
(* Chain selection and reorganization of blockchain.BlockChain             *)
(* (blockchain/chain.go, accept.go, process.go, chainio.go).               *)
(*                                                                         *)
(* The chain in memory is a tree of block nodes with a best node; the      *)
(* chain in the database is the best state, the main chain index and the   *)
(* stored blocks.  Writers are serialized by the block manager's           *)
(* goroutine, but a reorganization is a series of database transactions,   *)
(* one per block, and the chain lock is released after each of them to     *)
(* deliver a notification: readers see every intermediate state, and the   *)
(* process can stop in any of them.  So the check phase, each              *)
(* disconnectBlock and each connectBlock of a reorganization are separate  *)
(* steps here.                                                             *)
(*                                                                         *)
(* A header is its block's parent, its work and whether checkConnectBlock  *)
(* accepts it.  Chains are at most medianTimeBlocks (11) blocks long, far  *)
(* below minMemoryNodes (2880): calcPastMedianTime then loads the whole    *)
(* main chain at start-up, every parent stays in memory, and nothing is    *)
(* pruned.                                                                 *)
(***************************************************************************)
EXTENDS Integers, FiniteSets

CONSTANTS
    Block,          \* block hashes, the genesis block apart
    Genesis,        \* the genesis block
    NoBlock,        \* the nil pointer
    Prev,           \* header.PrevBlock of every block
    Height,         \* header.Height
    Work,           \* CalcWork(header.Bits) of a key block, 0 of a micro block
    Ancestry,       \* a block and its ancestors, by Prev
    ChainWork,      \* the work of a block and its ancestors together
    Invalid,        \* blocks checkConnectBlock refuses
    MaxForced,      \* bound on forced reorganizations
    MaxFailures,    \* bound on failed database updates
    MaxRestarts     \* bound on crashes outside a panic

Hash == Block \cup {Genesis}

ASSUME TreeAssumption ==
    /\ NoBlock \notin Hash
    /\ Genesis \notin Block
    /\ Prev \in [Block -> Hash]
    /\ Height \in [Hash -> Nat]
    /\ Height[Genesis] = 0
    /\ \A b \in Block : Height[b] = Height[Prev[b]] + 1
    /\ Invalid \subseteq Block

ASSUME AncestryAssumption ==
    /\ Ancestry \in [Hash -> SUBSET Hash]
    /\ Ancestry[Genesis] = {Genesis}
    /\ \A b \in Block : Ancestry[b] = {b} \cup Ancestry[Prev[b]]
    /\ \A h \in Hash : \A a \in Ancestry[h] :
          /\ Ancestry[a] \subseteq Ancestry[h]
          /\ a # h => Height[a] < Height[h]

ASSUME WorkAssumption ==
    /\ Work \in [Hash -> Nat]
    /\ ChainWork \in [Hash -> Nat]
    /\ ChainWork[Genesis] = Work[Genesis]
    /\ \A b \in Block : ChainWork[b] = ChainWork[Prev[b]] + Work[b]

ASSUME BoundAssumption ==
    /\ MaxForced \in Nat
    /\ MaxFailures \in Nat
    /\ MaxRestarts \in Nat

VARIABLES
    index,          \* b.index: the blocks that have a node in memory
    workSum,        \* workSum of the node in the index, 0 without one
    inMainChain,    \* nodes whose inMainChain flag is set
    bestNode,       \* b.bestNode
    blockCache,     \* b.blockCache: blocks held for the side chains
    firstChild,     \* the first node of b.depNodes[genesis]
    reorg,          \* the nodes reorganizeChain has yet to detach and attach
    db,             \* what the database holds
    reply,          \* outcome of the last call
    forced,         \* forced reorganizations so far
    failures,       \* failed database updates so far
    restarts        \* restarts so far

memory == <<index, workSum, inMainChain, bestNode, blockCache, firstChild>>

counters == <<forced, failures, restarts>>

vars == <<memory, reorg, db, reply, counters>>

NoReorg == [detach |-> {}, attach |-> {}]

Idle == reorg = NoReorg

Panicked == reply = "panic"

Replies == {"none", "duplicate", "orphan", "error", "invalid", "assert",
            "nofork", "panic", "mainchain", "sidechain", "reorganizing"}

TypeOK ==
    /\ index \in SUBSET Hash
    /\ workSum \in [Hash -> Int]
    /\ \A h \in Hash \ index : workSum[h] = 0
    /\ inMainChain \in SUBSET index
    /\ bestNode \in index
    /\ blockCache \in SUBSET Block
    /\ firstChild \in Block \cup {NoBlock}
    /\ reorg \in [detach : SUBSET Block, attach : SUBSET Block]
    /\ db \in [hash : Hash, workSum : Int, main : SUBSET Hash,
               stored : SUBSET Hash]
    /\ reply \in Replies
    /\ forced \in 0 .. MaxForced
    /\ failures \in 0 .. MaxFailures
    /\ restarts \in 0 .. MaxRestarts

(* createChainState *)
Init ==
    /\ index = {Genesis}
    /\ workSum = [h \in Hash |-> IF h = Genesis THEN Work[Genesis] ELSE 0]
    /\ inMainChain = {Genesis}
    /\ bestNode = Genesis
    /\ blockCache = {}
    /\ firstChild = NoBlock
    /\ reorg = NoReorg
    /\ db = [hash |-> Genesis, workSum |-> Work[Genesis], main |-> {Genesis},
             stored |-> {Genesis}]
    /\ reply = "none"
    /\ forced = 0
    /\ failures = 0
    /\ restarts = 0

-----------------------------------------------------------------------------
(* Nodes and the work they carry. *)

(* workSum of the ancestor a of the best block once calcPastMedianTime has *)
(* walked back to it from a best node of work sum: loadBlockNode gives     *)
(* each parent its first child's sum less the PARENT's own work, so the    *)
(* works of a up to the parent of best are taken off.                      *)
loadBlockNode(best, sum, a) ==
    sum - ((ChainWork[best] - Work[best]) - (ChainWork[a] - Work[a]))

(* getPrevNodeFromBlock for the children of genesis: findNode returns the  *)
(* best node when that is genesis, and otherwise always loads a new        *)
(* genesis node, which is the parent of the nodes in depNodes.             *)
getGenesisNode ==
    IF bestNode = Genesis
    THEN workSum
    ELSE [workSum EXCEPT ![Genesis] = workSum[firstChild] - Work[Genesis]]

getPrevNodeFromBlock(b) ==
    IF Prev[b] = Genesis THEN getGenesisNode ELSE workSum

(* The work sums once maybeAcceptBlock has created the node of b. *)
newBlockNode(b) ==
    LET prev == getPrevNodeFromBlock(b)
    IN  [prev EXCEPT ![b] = prev[Prev[b]] + Work[b]]

-----------------------------------------------------------------------------
(* The two database transactions. *)

(* connectBlock's db.Update: best state, main chain index, block. *)
dbConnectBlock(n, sum) ==
    [hash |-> n, workSum |-> sum, main |-> db.main \cup {n},
     stored |-> db.stored \cup {n}]

(* disconnectBlock's db.Update: the best state gets the hash of the        *)
(* previous node and the work sum of the disconnected one; the block stays *)
(* stored.                                                                 *)
dbDisconnectBlock(n) ==
    [db EXCEPT !.hash = Prev[n], !.workSum = workSum[n],
               !.main = db.main \ {n}]

(* depNodes[genesis] after n is appended to the children of its parent. *)
FirstChildWith(n) ==
    IF Prev[n] = Genesis /\ firstChild = NoBlock THEN n ELSE firstChild

-----------------------------------------------------------------------------
(* Reorganizations. *)

(* getReorganizeNodes walks up from node to the first node that is flagged *)
(* inMainChain, collecting the nodes to attach, *)
AttachNodes(node) ==
    {n \in Ancestry[node] :
        \A m \in Ancestry[node] : n \in Ancestry[m] => m \notin inMainChain}

ForkNode(node) ==
    CHOOSE f \in Ancestry[node] :
        /\ f \in inMainChain
        /\ \A m \in Ancestry[node] : m \in inMainChain => m \in Ancestry[f]

(* and then down from the best node to that fork point.                    *)
DetachNodes(node) == Ancestry[bestNode] \ Ancestry[ForkNode(node)]

(* The outcome of getReorganizeNodes and of the part of reorganizeChain    *)
(* before anything is changed.  The walk down from the best node must meet *)
(* the fork point; every block to attach must be in the side chain cache   *)
(* and pass checkConnectBlock.  The hash of the last attached node is then *)
(* read, through a nil pointer when there is nothing to attach.            *)
checkReorganize(node, cache) ==
    LET attach == AttachNodes(node)
    IN  CASE ForkNode(node) \notin Ancestry[bestNode] -> "nofork"
          [] attach \ cache # {}                      -> "assert"
          [] attach \cap Invalid # {}                 -> "invalid"
          [] attach = {}                              -> "panic"
          [] OTHER                                    -> "reorganizing"

(* getReorganizeNodes and the checks of reorganizeChain. *)
StartReorganize(node, cache) ==
    /\ reply' = checkReorganize(node, cache)
    /\ reorg' = IF reply' = "reorganizing"
                THEN [detach |-> DetachNodes(node), attach |-> AttachNodes(node)]
                ELSE NoReorg

Highest(S) == CHOOSE n \in S : \A m \in S : Height[m] <= Height[n]

Lowest(S) == CHOOSE n \in S : \A m \in S : Height[n] <= Height[m]

(* Mutant: the detached block is not put in the side chain cache. *)
DisconnectDropsBlock(n) ==
    /\ bestNode' = Prev[n]
    /\ inMainChain' = inMainChain \ {n}
    /\ db' = dbDisconnectBlock(n)
    /\ UNCHANGED <<index, workSum, firstChild, blockCache>>

(* disconnectBlock of a node that is the best node. *)
disconnectBlock(n) ==
    /\ bestNode' = Prev[n]
    /\ inMainChain' = inMainChain \ {n}
    /\ blockCache' = blockCache \cup {n}
    /\ db' = dbDisconnectBlock(n)
    /\ UNCHANGED <<index, workSum, firstChild>>

(* connectBlock of a node whose parent is the best node. *)
connectBlock(n, sums) ==
    /\ index' = index \cup {n}
    /\ workSum' = sums
    /\ inMainChain' = inMainChain \cup {n}
    /\ bestNode' = n
    /\ firstChild' = FirstChildWith(n)
    /\ db' = dbConnectBlock(n, sums[n])

(* reorganizeChain detaches the nodes from the best node down.  An error   *)
(* of disconnectBlock ends it where it stands.                             *)
DetachStep ==
    /\ reorg.detach # {}
    /\ LET n == Highest(reorg.detach)
       IN  IF n = bestNode
           THEN /\ disconnectBlock(n)
                /\ reorg' = [reorg EXCEPT !.detach = @ \ {n}]
                /\ UNCHANGED reply
           ELSE /\ reorg' = NoReorg
                /\ reply' = "assert"
                /\ UNCHANGED <<memory, db>>
    /\ UNCHANGED counters

(* The next node of the list of nodes to attach. *)
NextAttach == Lowest(reorg.attach)

(* Mutant: the loop over the nodes to attach ends after the first. *)
AttachesOnlyOne == NoReorg

(* The lists without the node that has just been attached. *)
WithoutAttached == [reorg EXCEPT !.attach = @ \ {NextAttach}]

(* It then attaches the side chain from the fork point up, and drops each  *)
(* block from the side chain cache once it is connected.                   *)
AttachStep ==
    /\ reorg.detach = {}
    /\ reorg.attach # {}
    /\ IF Prev[NextAttach] = bestNode
       THEN /\ connectBlock(NextAttach, workSum)
            /\ blockCache' = blockCache \ {NextAttach}
            /\ reorg' = WithoutAttached
            /\ reply' = IF reorg' = NoReorg THEN "mainchain" ELSE reply
       ELSE /\ reorg' = NoReorg
            /\ reply' = "assert"
            /\ UNCHANGED <<memory, db>>
    /\ UNCHANGED counters

(* A database update of the reorganization fails: its transaction is       *)
(* rolled back and reorganizeChain returns the error, leaving the chain    *)
(* where it stands.                                                        *)
UpdateFails ==
    /\ ~ Idle
    /\ failures < MaxFailures
    /\ failures' = failures + 1
    /\ reorg' = NoReorg
    /\ reply' = "error"
    /\ UNCHANGED <<memory, db, forced, restarts>>

-----------------------------------------------------------------------------
(* ProcessBlock and ForceHeadReorganization, called when no other call is  *)
(* in progress.                                                            *)

Ready == Idle /\ ~ Panicked

(* blockExistsV2 finds the block, or blockExists does not find its parent  *)
(* (an orphan, see OrphanPool), or finds it only among the stored blocks   *)
(* and getPrevNodeFromBlock fails on a block that is not in the main chain.*)
RefuseBlock(b) ==
    /\ Ready
    /\ b \in index \/ Prev[b] \notin index
    /\ reply' = CASE b \in index             -> "duplicate"
                  [] Prev[b] \in db.stored   -> "error"
                  [] OTHER                   -> "orphan"
    /\ UNCHANGED <<memory, reorg, db, counters>>

NewBlock(b) == Ready /\ b \notin index /\ Prev[b] \in index

(* connectBestChain, the block extends the best chain. *)
ExtendBestChain(b) ==
    /\ NewBlock(b)
    /\ Prev[b] = bestNode
    /\ IF b \in Invalid
       THEN reply' = "invalid" /\ UNCHANGED <<memory, db>>
       ELSE /\ connectBlock(b, newBlockNode(b))
            /\ reply' = "mainchain"
            /\ UNCHANGED blockCache
    /\ UNCHANGED <<reorg, counters>>

(* Mutant: the longer chain is taken for the one with the most work. *)
MoreBlocks(sums, b) == Height[b] > Height[bestNode]

(* The work of the new node against that of the best node. *)
MoreWork(sums, b) == sums[b] > sums[bestNode]

(* The node and its block are kept whatever becomes of them. *)
AddToSideChain(b) ==
    /\ index' = index \cup {b}
    /\ workSum' = newBlockNode(b)
    /\ blockCache' = blockCache \cup {b}
    /\ UNCHANGED <<inMainChain, bestNode, firstChild, db>>

(* connectBestChain, the block extends or creates a side chain that does   *)
(* not have more work than the best chain,                                 *)
ExtendSideChain(b) ==
    /\ NewBlock(b)
    /\ Prev[b] # bestNode
    /\ ~ MoreWork(newBlockNode(b), b)
    /\ AddToSideChain(b)
    /\ reply' = "sidechain"
    /\ UNCHANGED <<reorg, counters>>

(* and one that does.                                                      *)
ReorganizeToBlock(b) ==
    /\ NewBlock(b)
    /\ Prev[b] # bestNode
    /\ MoreWork(newBlockNode(b), b)
    /\ AddToSideChain(b)
    /\ StartReorganize(b, blockCache')
    /\ UNCHANGED counters

(* ProcessBlock with BFDryRun: the node of a side chain block is removed   *)
(* again when connectBestChain returns, a reorganization ends after its    *)
(* checks; only a reloaded genesis node stays.                             *)
DryRun(b) ==
    /\ NewBlock(b)
    /\ workSum' = getPrevNodeFromBlock(b)
    /\ reply' = "none"
    /\ UNCHANGED <<index, inMainChain, bestNode, blockCache, firstChild,
                   reorg, db, counters>>

(* ForceHeadReorganization from the best block to any other node in the    *)
(* index, which the miner asks for.                                        *)
ForceHeadReorganization(node) ==
    /\ Ready
    /\ forced < MaxForced
    /\ node \in index \ {bestNode}
    /\ forced' = forced + 1
    /\ StartReorganize(node, blockCache)
    /\ UNCHANGED <<memory, db, failures, restarts>>

(* The process stops at any point, a panic included, and initChainState    *)
(* loads the best block and its ancestors from the database.               *)
Restart ==
    /\ Panicked \/ restarts < MaxRestarts
    /\ restarts' = IF Panicked THEN restarts ELSE restarts + 1
    /\ Ancestry[db.hash] \subseteq db.main \cap db.stored
    /\ index' = Ancestry[db.hash]
    /\ inMainChain' = Ancestry[db.hash]
    /\ bestNode' = db.hash
    /\ workSum' = [h \in Hash |->
                     IF h \in Ancestry[db.hash]
                     THEN loadBlockNode(db.hash, db.workSum, h)
                     ELSE 0]
    /\ blockCache' = {}
    /\ firstChild' = IF db.hash = Genesis
                     THEN NoBlock
                     ELSE Lowest(Ancestry[db.hash] \ {Genesis})
    /\ reorg' = NoReorg
    /\ reply' = "none"
    /\ UNCHANGED <<db, forced, failures>>

Next ==
    \/ \E b \in Block :
          \/ RefuseBlock(b)
          \/ ExtendBestChain(b)
          \/ ExtendSideChain(b)
          \/ ReorganizeToBlock(b)
          \/ DryRun(b)
    \/ \E node \in Hash : ForceHeadReorganization(node)
    \/ DetachStep
    \/ AttachStep
    \/ UpdateFails
    \/ Restart

Spec == Init /\ [][Next]_vars

(* The goroutine that runs reorganizeChain is not stopped for ever. *)
FairSpec == Spec /\ WF_vars(DetachStep) /\ WF_vars(AttachStep)

-----------------------------------------------------------------------------
(* Properties. *)

(* Whenever the lock is free, in the middle of a reorganization too, the   *)
(* chain in memory and the one in the database are the same: one best      *)
(* block, its ancestors and no others flagged inMainChain and listed in    *)
(* the main chain index, and all of them stored.  A restart that finds     *)
(* anything else cannot load the chain.                                    *)
MemoryMatchesDatabase ==
    /\ bestNode = db.hash
    /\ inMainChain = Ancestry[bestNode]
    /\ db.main = Ancestry[db.hash]
    /\ db.main \subseteq db.stored

(* A node off the main chain has its parent in the index and its block in  *)
(* the side chain cache, which holds nothing else: the blocks a later      *)
(* reorganization needs are exactly the blocks that are kept.              *)
SideChainsKept ==
    /\ \A n \in index \ {Genesis} : Prev[n] \in index
    /\ blockCache = index \ inMainChain

(* A block that checkConnectBlock refuses is never on the main chain, not  *)
(* even in the middle of a reorganization that started with such a block   *)
(* among the ones to attach.                                               *)
MainChainValid == db.main \cap Invalid = {}

(* The AssertErrors of reorganizeChain, connectBlock and disconnectBlock   *)
(* and the dead end of getReorganizeNodes are never reached: every block   *)
(* to attach is in the cache, every block detached is the best block when  *)
(* its turn comes, every block attached extends the best block.            *)
ReorgFits == reply \notin {"assert", "nofork"}

(* Between calls no side chain whose blocks are all acceptable has more    *)
(* work, by the sums the nodes carry, than the best chain; forced          *)
(* reorganizations and failed database updates excepted, which leave the   *)
(* heavier chain in memory.                                                *)
HeaviestByWorkSum ==
    Ready /\ forced = 0 /\ failures = 0 =>
        \A n \in index \ inMainChain :
            AttachNodes(n) \cap Invalid = {} => workSum[n] <= workSum[bestNode]

(* Memory and database hold the same valid main chain, the side chain      *)
(* cache the rest, and no reorganization runs into an assertion.           *)
ChainSound ==
    /\ TypeOK
    /\ MemoryMatchesDatabase
    /\ SideChainsKept
    /\ MainChainValid
    /\ ReorgFits

(* A reorganization that has passed its checks ends with its target as the *)
(* best block, unless a database update fails or the process restarts.     *)
ReorgEnds ==
    \A t \in Block :
        (reorg.attach # {} /\ t = Highest(reorg.attach))
            ~> (bestNode = t \/ reply \in {"error", "none"})

(* What the comment of connectBestChain promises: "proper chain selection  *)
(* according to the chain with the most proof of work".                    *)
BestHasMostWork ==
    Ready /\ forced = 0 /\ failures = 0 =>
        \A n \in index :
            Ancestry[n] \cap Invalid = {} => ChainWork[n] <= ChainWork[bestNode]

(* What the comment on the best chain state says is stored: "the           *)
(* accumulated work sum up to and including the best block".               *)
PersistedWork ==
    restarts = 0 => db.workSum = ChainWork[db.hash]

(* What the comment of forceHeadReorganization says of a block hash "so    *)
(* long as it matches up with the current organization of the best chain": *)
(* the chain is reorganized to it, or an error is returned.                *)
ForceReorgReturns == ~ Panicked
=============================================================================
