-------------------------- MODULE BlockChainProofs --------------------------
(* Proofs about chain selection and reorganization, for every tree of      *)
(* blocks and any number of faults.                                        *)
EXTENDS BlockChain, OrderLemmas

USE TreeAssumption, AncestryAssumption DEF Hash

-----------------------------------------------------------------------------
(* Ancestry.                                                               *)

(* A block is an ancestor of itself.                                       *)
LEMMA SelfAncestor ==
    ASSUME NEW h \in Hash
    PROVE  h \in Ancestry[h] /\ Ancestry[h] \subseteq Hash
OBVIOUS

(* So is the parent of a block other than the genesis block.               *)
LEMMA PrevAncestor ==
    ASSUME NEW b \in Block
    PROVE  /\ Prev[b] \in Hash
           /\ Prev[b] \in Ancestry[b]
           /\ Ancestry[b] = {b} \cup Ancestry[Prev[b]]
           /\ b \notin Ancestry[Prev[b]]
<1>1. Prev[b] \in Hash /\ Ancestry[b] = {b} \cup Ancestry[Prev[b]]
  OBVIOUS
<1>2. Prev[b] \in Ancestry[b]
  BY <1>1, SelfAncestor
<1>3. b \notin Ancestry[Prev[b]]
  <2> SUFFICES ASSUME b \in Ancestry[Prev[b]] PROVE FALSE
    OBVIOUS
  <2>1. Height[b] = Height[Prev[b]] + 1 /\ Height[Prev[b]] \in Nat
    BY <1>1
  <2>2. b # Prev[b]
    BY <2>1
  <2> QED BY <1>1, <2>1, <2>2
<1> QED BY <1>1, <1>2, <1>3

(* Two blocks that descend from each other are the same. *)
LEMMA AncestorsAntisymmetric ==
    ASSUME NEW a \in Hash, NEW h \in Hash, a \in Ancestry[h], h \in Ancestry[a]
    PROVE  a = h
OBVIOUS

(* A set with the parent of each of its blocks has all their ancestors. *)
LEMMA AncestorsWithin ==
    ASSUME NEW S \in SUBSET Hash,
           \A n \in S \ {Genesis} : Prev[n] \in S,
           NEW h \in S
    PROVE  Ancestry[h] \subseteq S
<1> DEFINE bad == {n \in S : ~ (Ancestry[n] \subseteq S)}
<1> SUFFICES ASSUME bad # {} PROVE FALSE
  OBVIOUS
<1>0. \A n \in bad : Height[n] \in Nat
  OBVIOUS
<1> HIDE DEF bad
<1>1. PICK n \in bad : \A m \in bad : Height[n] =< Height[m]
  BY <1>0, LeastRank
<1> USE DEF bad
<1>2. n # Genesis
  BY <1>1
<1>3. n \in Block /\ Prev[n] \in S
  BY <1>1, <1>2
<1>4. Prev[n] \notin bad
  BY <1>1, <1>3
<1>5. Ancestry[n] \subseteq S
  BY <1>1, <1>3, <1>4, PrevAncestor
<1> QED BY <1>1, <1>5

(* The genesis block is an ancestor of every block.                        *)
LEMMA GenesisAncestor ==
    ASSUME NEW h \in Hash
    PROVE  Genesis \in Ancestry[h]
<1> DEFINE bad == {n \in Hash : Genesis \notin Ancestry[n]}
<1> SUFFICES ASSUME bad # {} PROVE FALSE
  OBVIOUS
<1>0. \A n \in bad : Height[n] \in Nat
  OBVIOUS
<1> HIDE DEF bad
<1>1. PICK n \in bad : \A m \in bad : Height[n] =< Height[m]
  BY <1>0, LeastRank
<1> USE DEF bad
<1>2. n \in Block
  BY <1>1
<1>3. Prev[n] \notin bad
  BY <1>1, <1>2
<1> QED BY <1>1, <1>2, <1>3, PrevAncestor

(* The ancestors of a block are one branch. *)
LEMMA AncestorsLinear ==
    ASSUME NEW h \in Hash, NEW a \in Ancestry[h], NEW c \in Ancestry[h]
    PROVE  a \in Ancestry[c] \/ c \in Ancestry[a]
<1> DEFINE comparable(x, y) == x \in Ancestry[y] \/ y \in Ancestry[x]
           bad == {n \in Hash : \E x, y \in Ancestry[n] : ~ comparable(x, y)}
<1> SUFFICES ASSUME bad # {} PROVE FALSE
  OBVIOUS
<1>0. \A n \in bad : Height[n] \in Nat
  OBVIOUS
<1> HIDE DEF bad
<1>1. PICK n \in bad : \A m \in bad : Height[n] =< Height[m]
  BY <1>0, LeastRank
<1> USE DEF bad
<1>2. PICK x \in Ancestry[n], y \in Ancestry[n] : ~ comparable(x, y)
  BY <1>1
<1>3. n \in Block
  BY <1>1, <1>2
<1>4. x # n /\ y # n
  BY <1>2, <1>3
<1>5. x \in Ancestry[Prev[n]] /\ y \in Ancestry[Prev[n]]
  BY <1>3, <1>4, PrevAncestor
<1>6. Prev[n] \in bad
  BY <1>2, <1>3, <1>5
<1> QED BY <1>1, <1>3, <1>6

-----------------------------------------------------------------------------
(* The inductive invariant.                                                *)

(* depNodes[genesis] is not empty once a block has been connected, so that *)
(* findNode can give a reloaded genesis node a work sum.                   *)
FirstChildSet == bestNode # Genesis => firstChild # NoBlock

(* What is left of a reorganization: from the best node down to a fork     *)
(* point, and from there up to a target in the index, through blocks that  *)
(* passed checkConnectBlock.  Without one, all three are the best node.    *)
ReorgPlan ==
    \E t \in index : \E f \in Ancestry[t] \cap Ancestry[bestNode] :
        /\ reorg.detach = Ancestry[bestNode] \ Ancestry[f]
        /\ reorg.attach = Ancestry[t] \ Ancestry[f]
        /\ reorg.attach \cap Invalid = {}

(* The conjuncts of TypeOK about memory and database, and the others. *)
ChainTypes ==
    /\ index \in SUBSET Hash
    /\ workSum \in [Hash -> Int]
    /\ \A h \in Hash \ index : workSum[h] = 0
    /\ inMainChain \in SUBSET index
    /\ bestNode \in index
    /\ blockCache \in SUBSET Block
    /\ firstChild \in Block \cup {NoBlock}
    /\ db \in [hash : Hash, workSum : Int, main : SUBSET Hash,
               stored : SUBSET Hash]

(* The types of the arguments of the calls under way.                      *)
CallTypes ==
    /\ reorg \in [detach : SUBSET Block, attach : SUBSET Block]
    /\ reply \in Replies
    /\ forced \in 0 .. MaxForced
    /\ failures \in 0 .. MaxFailures
    /\ restarts \in 0 .. MaxRestarts

(* What every step keeps about the chain, *)
ChainInv ==
    /\ ChainTypes
    /\ MemoryMatchesDatabase
    /\ SideChainsKept
    /\ MainChainValid
    /\ FirstChildSet

(* and about the call in progress.                                         *)
CallInv ==
    /\ CallTypes
    /\ ReorgFits
    /\ ReorgPlan

(* The inductive invariant of chain selection.                             *)
IInv == ChainInv /\ CallInv

(* What the main chain is, seen from its tip.                              *)
LEMMA ChainFacts ==
    ASSUME ChainInv
    PROVE  /\ bestNode \in Hash
           /\ Genesis \in index
           /\ inMainChain = Ancestry[bestNode]
           /\ \A n \in index : Ancestry[n] \subseteq index
           /\ blockCache \subseteq index
<1>1. bestNode \in Hash /\ inMainChain = Ancestry[bestNode]
  BY DEF ChainInv, ChainTypes, MemoryMatchesDatabase
<1>2. \A n \in index : Ancestry[n] \subseteq index
  BY AncestorsWithin DEF ChainInv, ChainTypes, SideChainsKept
<1>3. Genesis \in index
  BY <1>1, <1>2, GenesisAncestor DEF ChainInv, ChainTypes
<1> QED BY <1>1, <1>2, <1>3 DEF ChainInv, SideChainsKept

-----------------------------------------------------------------------------
(* getReorganizeNodes collects the nodes off the main chain, *)
LEMMA AttachIsBranch ==
    ASSUME bestNode \in Hash, inMainChain = Ancestry[bestNode], NEW node \in Hash
    PROVE  AttachNodes(node) = Ancestry[node] \ Ancestry[bestNode]
<1>1. ASSUME NEW n \in Ancestry[node], n \notin Ancestry[bestNode],
             NEW m \in Ancestry[node], n \in Ancestry[m]
      PROVE  m \notin inMainChain
  BY <1>1
<1>2. ASSUME NEW n \in AttachNodes(node) PROVE n \notin Ancestry[bestNode]
  BY <1>2, SelfAncestor DEF AttachNodes
<1> QED BY <1>1, <1>2 DEF AttachNodes

(* and its fork point is the last common ancestor.                         *)
LEMMA ForkIsCommon ==
    ASSUME bestNode \in Hash, inMainChain = Ancestry[bestNode], NEW node \in Hash
    PROVE  /\ ForkNode(node) \in Ancestry[node] \cap Ancestry[bestNode]
           /\ Ancestry[node] \cap Ancestry[bestNode]
                 \subseteq Ancestry[ForkNode(node)]
<1> DEFINE common == Ancestry[node] \cap Ancestry[bestNode]
<1>1. common # {} /\ common \subseteq Hash
  BY GenesisAncestor
<1>2. \A x \in common : Height[x] \in Nat /\ Height[x] =< Height[node]
  OBVIOUS
<1> HIDE DEF common
<1>3. PICK f \in common : \A m \in common : Height[m] =< Height[f]
  BY <1>1, <1>2, GreatestRank
<1>4. ASSUME NEW m \in common PROVE m \in Ancestry[f]
  <2>1. m \in Ancestry[f] \/ f \in Ancestry[m]
    BY <1>4, <1>3, AncestorsLinear DEF common
  <2>2. f \in Ancestry[m] /\ f # m => Height[f] < Height[m]
    BY <1>1, <1>4
  <2>3. Height[m] =< Height[f] /\ Height[m] \in Nat /\ Height[f] \in Nat
    BY <1>1, <1>2, <1>3, <1>4
  <2> QED BY <1>1, <2>1, <2>2, <2>3, SelfAncestor
<1>5. \E g \in Ancestry[node] :
         /\ g \in inMainChain
         /\ \A m \in Ancestry[node] : m \in inMainChain => m \in Ancestry[g]
  BY <1>3, <1>4 DEF common
<1>6. /\ ForkNode(node) \in Ancestry[node]
      /\ ForkNode(node) \in inMainChain
      /\ \A m \in Ancestry[node] :
            m \in inMainChain => m \in Ancestry[ForkNode(node)]
  BY <1>5 DEF ForkNode
<1> QED BY <1>6

-----------------------------------------------------------------------------
(* The chain through the steps that change it.                             *)

(* Work sums stay integers: a genesis node is only reloaded when it has a  *)
(* child to take its sum from.                                             *)
LEMMA SumsTyped ==
    ASSUME ChainInv, NEW b \in Block
    PROVE  /\ getPrevNodeFromBlock(b) \in [Hash -> Int]
           /\ \A h \in Hash \ index : getPrevNodeFromBlock(b)[h] = 0
           /\ newBlockNode(b) \in [Hash -> Int]
           /\ \A h \in Hash \ (index \cup {b}) : newBlockNode(b)[h] = 0
<1> DEFINE prev == getPrevNodeFromBlock(b)
<1>1. Genesis \in index /\ Work \in [Hash -> Nat]
  BY ChainFacts, WorkAssumption
<1>2. /\ getGenesisNode \in [Hash -> Int]
      /\ \A h \in Hash \ index : getGenesisNode[h] = 0
  <2>1. CASE bestNode = Genesis
    BY <2>1 DEF getGenesisNode, ChainInv, ChainTypes
  <2>2. CASE bestNode # Genesis
    <3>1. workSum[firstChild] - Work[Genesis] \in Int
      BY <1>1, <2>2 DEF ChainInv, ChainTypes, FirstChildSet
    <3> QED BY <1>1, <2>2, <3>1 DEF getGenesisNode, ChainInv, ChainTypes
  <2> QED BY <2>1, <2>2
<1>3. prev \in [Hash -> Int] /\ \A h \in Hash \ index : prev[h] = 0
  BY <1>2 DEF getPrevNodeFromBlock, ChainInv, ChainTypes
<1>4. newBlockNode(b) = [prev EXCEPT ![b] = prev[Prev[b]] + Work[b]]
  BY DEF newBlockNode
<1>5. prev[Prev[b]] + Work[b] \in Int
  BY <1>1, <1>3, PrevAncestor
<1> HIDE DEF prev
<1>6. newBlockNode(b) \in [Hash -> Int]
  BY <1>3, <1>4, <1>5
<1>7. \A h \in Hash \ (index \cup {b}) : newBlockNode(b)[h] = 0
  BY <1>3, <1>4
<1> QED BY <1>3, <1>6, <1>7 DEF prev

(* connectBlock, with the block dropped from the side chain cache. *)
LEMMA ConnectKeepsChain ==
    ASSUME ChainInv, NEW n \in Block, n \notin Invalid, Prev[n] = bestNode,
           NEW sums \in [Hash -> Int],
           \A h \in Hash \ (index \cup {n}) : sums[h] = 0,
           connectBlock(n, sums),
           blockCache' = blockCache \ {n}
    PROVE  ChainInv'
<1>1. Ancestry[n] = {n} \cup Ancestry[bestNode]
  BY PrevAncestor
<1>2. ChainTypes'
  BY DEF ChainInv, ChainTypes, connectBlock, dbConnectBlock, FirstChildWith
<1>3. MemoryMatchesDatabase'
  BY <1>1 DEF ChainInv, ChainTypes, MemoryMatchesDatabase, connectBlock,
              dbConnectBlock
<1>4. SideChainsKept'
  BY DEF ChainInv, ChainTypes, SideChainsKept, connectBlock
<1>5. MainChainValid'
  BY DEF ChainInv, ChainTypes, MainChainValid, connectBlock, dbConnectBlock
<1>6. FirstChildSet'
  BY DEF ChainInv, FirstChildSet, connectBlock, FirstChildWith
<1> QED BY <1>2, <1>3, <1>4, <1>5, <1>6 DEF ChainInv

(* disconnectBlock leaves a chain.                                         *)
LEMMA DisconnectKeepsChain ==
    ASSUME ChainInv, bestNode \in Block, disconnectBlock(bestNode)
    PROVE  ChainInv' /\ Ancestry[bestNode'] = Ancestry[bestNode] \ {bestNode}
<1>1. /\ Ancestry[bestNode] = {bestNode} \cup Ancestry[Prev[bestNode]]
      /\ bestNode \notin Ancestry[Prev[bestNode]]
      /\ Prev[bestNode] \in Hash
  BY PrevAncestor
<1>2. bestNode' = Prev[bestNode] /\ Prev[bestNode] \in index
  BY DEF disconnectBlock, ChainInv, ChainTypes, SideChainsKept
<1>3. ChainTypes'
  BY <1>1, <1>2 DEF ChainInv, ChainTypes, disconnectBlock, dbDisconnectBlock
<1>4. MemoryMatchesDatabase'
  BY <1>1, <1>2 DEF ChainInv, ChainTypes, MemoryMatchesDatabase,
                    disconnectBlock, dbDisconnectBlock
<1>5. SideChainsKept'
  BY DEF ChainInv, ChainTypes, SideChainsKept, disconnectBlock
<1>6. MainChainValid'
  BY DEF ChainInv, ChainTypes, MainChainValid, disconnectBlock,
         dbDisconnectBlock
<1>7. FirstChildSet'
  BY <1>2 DEF ChainInv, FirstChildSet, disconnectBlock
<1> QED BY <1>1, <1>2, <1>3, <1>4, <1>5, <1>6, <1>7 DEF ChainInv

(* A block on a side chain does not touch the main chain.                  *)
LEMMA SideBlockKeepsChain ==
    ASSUME ChainInv, NEW b \in Block, NewBlock(b), AddToSideChain(b)
    PROVE  ChainInv'
<1>1. b \notin inMainChain
  BY DEF ChainInv, ChainTypes, NewBlock
<1>2. ChainTypes'
  BY SumsTyped DEF ChainInv, ChainTypes, AddToSideChain
<1>3. MemoryMatchesDatabase' /\ MainChainValid' /\ FirstChildSet'
  BY DEF ChainInv, MemoryMatchesDatabase, MainChainValid, FirstChildSet,
         AddToSideChain
<1>4. SideChainsKept'
  BY <1>1 DEF ChainInv, SideChainsKept, AddToSideChain, NewBlock
<1> QED BY <1>2, <1>3, <1>4 DEF ChainInv

(* A restart loads a chain.                                                *)
LEMMA RestartKeepsChain ==
    ASSUME ChainInv, Restart
    PROVE  ChainInv'
<1> DEFINE h == db.hash
<1>1. h \in Hash /\ h = bestNode /\ db.workSum \in Int
  BY DEF ChainInv, ChainTypes, MemoryMatchesDatabase
<1>2. h \in Ancestry[h] /\ Ancestry[h] \subseteq Hash
  BY <1>1, SelfAncestor
<1>3. firstChild' \in Block \cup {NoBlock} /\ (h # Genesis => firstChild' # NoBlock)
  <2>1. CASE h = Genesis
    BY <2>1 DEF Restart
  <2>2. CASE h # Genesis
    <3> DEFINE S == Ancestry[h] \ {Genesis}
    <3>1. S # {} /\ S \subseteq Block /\ \A x \in S : Height[x] \in Nat
      BY <1>1, <1>2, <2>2
    <3> HIDE DEF S
    <3>2. \E x \in S : \A y \in S : Height[x] =< Height[y]
      BY <3>1, LeastRank
    <3>3. Lowest(S) \in S
      BY <3>2 DEF Lowest
    <3>4. firstChild' = Lowest(S)
      BY <2>2 DEF Restart, S
    <3> QED BY <3>1, <3>3, <3>4
  <2> QED BY <2>1, <2>2
<1>4. workSum' \in [Hash -> Int] /\ \A x \in Hash \ index' : workSum'[x] = 0
  <2>1. \A x \in Ancestry[h] : loadBlockNode(h, db.workSum, x) \in Int
    BY <1>1, <1>2, WorkAssumption DEF loadBlockNode
  <2> QED BY <2>1 DEF Restart
<1>5. ChainTypes'
  BY <1>1, <1>2, <1>3, <1>4 DEF Restart, ChainInv, ChainTypes
<1>6. MemoryMatchesDatabase' /\ MainChainValid'
  BY <1>1 DEF Restart, ChainInv, MemoryMatchesDatabase, MainChainValid
<1>7. SideChainsKept'
  <2>1. ASSUME NEW n \in Ancestry[h] \ {Genesis} PROVE Prev[n] \in Ancestry[h]
    BY <1>1, <1>2, PrevAncestor
  <2> QED BY <2>1 DEF Restart, SideChainsKept
<1>8. FirstChildSet'
  BY <1>3 DEF Restart, FirstChildSet
<1> QED BY <1>5, <1>6, <1>7, <1>8 DEF ChainInv

-----------------------------------------------------------------------------
(* The reorganization through its steps.                                   *)

(* The part of a branch above a fork point has no genesis block. *)
LEMMA BranchOfBlocks ==
    ASSUME NEW h \in Hash, NEW f \in Hash
    PROVE  Ancestry[h] \ Ancestry[f] \subseteq Block
BY GenesisAncestor

(* Without a reorganization the plan is empty. *)
LEMMA NoReorgPlan ==
    ASSUME bestNode \in index, bestNode \in Hash, reorg = NoReorg
    PROVE  ReorgPlan
BY SelfAncestor DEF ReorgPlan, NoReorg

(* The checks of reorganizeChain leave a plan, or none. *)
LEMMA StartMakesPlan ==
    ASSUME ChainInv, ChainInv', bestNode' = bestNode,
           NEW node \in index', NEW cache,
           Ancestry[node] \ Ancestry[bestNode] \subseteq cache,
           StartReorganize(node, cache)
    PROVE  /\ ReorgPlan'
           /\ ReorgFits'
           /\ reply' \in Replies
           /\ reorg' \in [detach : SUBSET Block, attach : SUBSET Block]
<1>1. /\ bestNode \in Hash /\ inMainChain = Ancestry[bestNode]
      /\ bestNode' \in index' /\ node \in Hash
  BY ChainFacts DEF ChainInv, ChainTypes
<1>2. AttachNodes(node) = Ancestry[node] \ Ancestry[bestNode]
  BY <1>1, AttachIsBranch
<1> DEFINE f == ForkNode(node)
<1>3. /\ f \in Ancestry[node] \cap Ancestry[bestNode]
      /\ Ancestry[node] \cap Ancestry[bestNode] \subseteq Ancestry[f]
  BY <1>1, ForkIsCommon
<1> HIDE DEF f
<1>4. f \in Hash
  BY <1>1, <1>3, SelfAncestor
<1>5. Ancestry[f] \subseteq Ancestry[bestNode]
  BY <1>1, <1>3
<1>6. AttachNodes(node) = Ancestry[node] \ Ancestry[f]
  BY <1>2, <1>3, <1>5
<1>7. reply' \in {"invalid", "panic", "reorganizing"}
  BY <1>2, <1>3 DEF StartReorganize, checkReorganize, f
<1>8. reply' = "reorganizing" => AttachNodes(node) \cap Invalid = {}
  BY DEF StartReorganize, checkReorganize
<1>9. CASE reply' # "reorganizing"
  <2>1. reorg' = NoReorg
    BY <1>9 DEF StartReorganize
  <2>2. ReorgPlan'
    BY <1>1, <2>1, SelfAncestor DEF ReorgPlan, NoReorg
  <2> QED BY <1>7, <2>1, <2>2 DEF ReorgFits, Replies, NoReorg
<1>10. CASE reply' = "reorganizing"
  <2>1. reorg' = [detach |-> Ancestry[bestNode] \ Ancestry[f],
                  attach |-> Ancestry[node] \ Ancestry[f]]
    BY <1>6, <1>10 DEF StartReorganize, DetachNodes, f
  <2>2. ReorgPlan'
    BY <1>1, <1>3, <1>6, <1>8, <1>10, <2>1 DEF ReorgPlan
  <2>3. /\ Ancestry[bestNode] \ Ancestry[f] \in SUBSET Block
        /\ Ancestry[node] \ Ancestry[f] \in SUBSET Block
    BY <1>1, <1>4, BranchOfBlocks
  <2> QED BY <1>7, <2>1, <2>2, <2>3 DEF ReorgFits, Replies
<1> QED BY <1>9, <1>10

(* The first block to detach is the best block. *)
LEMMA DetachIsBest ==
    ASSUME IInv, reorg.detach # {}
    PROVE  Highest(reorg.detach) = bestNode /\ bestNode \in reorg.detach
<1>1. PICK f \in Ancestry[bestNode] :
         reorg.detach = Ancestry[bestNode] \ Ancestry[f]
  BY DEF IInv, CallInv, ReorgPlan
<1>2. bestNode \in Hash /\ f \in Hash
  BY <1>1, ChainFacts, SelfAncestor DEF IInv
<1>3. bestNode \in reorg.detach
  <2>1. SUFFICES ASSUME bestNode \in Ancestry[f] PROVE FALSE
    BY <1>1, <1>2, SelfAncestor
  <2>2. f = bestNode
    BY <1>1, <1>2, <2>1, AncestorsAntisymmetric
  <2> QED BY <1>1, <2>2
<1>4. \A m \in reorg.detach : m # bestNode => Height[m] < Height[bestNode]
  BY <1>1, <1>2
<1>5. \A m \in reorg.detach : Height[m] \in Nat
  BY <1>1, <1>2, SelfAncestor
<1>6. \A m \in reorg.detach : Height[m] =< Height[bestNode]
  BY <1>3, <1>4, <1>5
<1>7. /\ Highest(reorg.detach) \in reorg.detach
      /\ Height[bestNode] =< Height[Highest(reorg.detach)]
  BY <1>3, <1>6 DEF Highest
<1>8. Highest(reorg.detach) = bestNode
  BY <1>3, <1>4, <1>5, <1>7
<1> QED BY <1>3, <1>8

(* The first block to attach extends the best block. *)
LEMMA AttachExtendsBest ==
    ASSUME IInv, reorg.detach = {}, reorg.attach # {}
    PROVE  /\ NextAttach \in reorg.attach /\ NextAttach \in Block
           /\ Prev[NextAttach] = bestNode
           /\ NextAttach \notin Invalid
           /\ \E t \in index :
                 /\ NextAttach \in Ancestry[t]
                 /\ reorg.attach = Ancestry[t] \ Ancestry[bestNode]
<1>0. PICK t \in index : \E f \in Ancestry[t] \cap Ancestry[bestNode] :
         /\ reorg.detach = Ancestry[bestNode] \ Ancestry[f]
         /\ reorg.attach = Ancestry[t] \ Ancestry[f]
         /\ reorg.attach \cap Invalid = {}
  BY DEF IInv, CallInv, ReorgPlan
<1>1. PICK f \in Ancestry[t] \cap Ancestry[bestNode] :
         /\ reorg.detach = Ancestry[bestNode] \ Ancestry[f]
         /\ reorg.attach = Ancestry[t] \ Ancestry[f]
         /\ reorg.attach \cap Invalid = {}
  BY <1>0
<1>2. bestNode \in Hash /\ t \in Hash /\ f \in Hash
  BY <1>1, ChainFacts, SelfAncestor DEF IInv, ChainInv, ChainTypes
<1>3. f = bestNode
  <2>1. bestNode \in Ancestry[f]
    BY <1>1, <1>2, SelfAncestor
  <2> QED BY <1>1, <1>2, <2>1, AncestorsAntisymmetric
<1> DEFINE n == NextAttach
<1>4. reorg.attach \subseteq Block
  BY <1>1, <1>2, BranchOfBlocks
<1>5. n \in reorg.attach /\ \A m \in reorg.attach : Height[n] =< Height[m]
  <2>1. \A m \in reorg.attach : Height[m] \in Nat
    BY <1>4
  <2>2. \E x \in reorg.attach : \A m \in reorg.attach : Height[x] =< Height[m]
    BY <2>1, LeastRank
  <2> QED BY <2>2 DEF NextAttach, Lowest
<1> HIDE DEF n
<1>6. n \in Block /\ n \in Ancestry[t] /\ n \notin Ancestry[bestNode]
  BY <1>1, <1>3, <1>4, <1>5
<1>7. Prev[n] \in Ancestry[bestNode]
  <2>1. Prev[n] \in Ancestry[t]
    BY <1>2, <1>6, PrevAncestor
  <2>2. Prev[n] \notin reorg.attach
    BY <1>4, <1>5
  <2> QED BY <1>1, <1>3, <2>1, <2>2
<1>8. bestNode \in Ancestry[Prev[n]]
  <2>1. bestNode \in Ancestry[n]
    BY <1>1, <1>2, <1>3, <1>6, AncestorsLinear
  <2>2. bestNode # n
    BY <1>2, <1>6, SelfAncestor
  <2> QED BY <1>6, <2>1, <2>2, PrevAncestor
<1>9. Prev[n] = bestNode
  BY <1>2, <1>6, <1>7, <1>8, PrevAncestor, AncestorsAntisymmetric
<1>10. n \notin Invalid
  BY <1>1, <1>5
<1> QED BY <1>1, <1>3, <1>5, <1>6, <1>9, <1>10 DEF n

-----------------------------------------------------------------------------
(* The invariant is inductive.                                             *)

(* The invariant holds of the genesis block.                               *)
LEMMA InitIInv == Init => IInv
<1> SUFFICES ASSUME Init PROVE IInv
  OBVIOUS
<1> USE DEF Init
<1>1. ChainTypes
  BY WorkAssumption DEF ChainTypes
<1>2. MemoryMatchesDatabase /\ SideChainsKept /\ MainChainValid /\ FirstChildSet
  BY DEF MemoryMatchesDatabase, SideChainsKept, MainChainValid, FirstChildSet
<1>3. CallTypes
  BY BoundAssumption DEF CallTypes, NoReorg, Replies
<1>4. ReorgFits
  BY DEF ReorgFits
<1>5. ReorgPlan
  BY NoReorgPlan
<1> QED BY <1>1, <1>2, <1>3, <1>4, <1>5 DEF IInv, ChainInv, CallInv

(* A step that leaves the chain alone keeps what is known about it. *)
LEMMA ChainUnchanged ==
    ASSUME ChainInv, UNCHANGED <<memory, db>>
    PROVE  ChainInv'
BY DEF ChainInv, ChainTypes, MemoryMatchesDatabase, SideChainsKept,
       MainChainValid, FirstChildSet, memory

(* A plan that is left alone stays one as long as the best node does and   *)
(* the index does not shrink.                                              *)
LEMMA PlanUnchanged ==
    ASSUME ReorgPlan, UNCHANGED <<reorg, bestNode>>, index \subseteq index'
    PROVE  ReorgPlan'
BY DEF ReorgPlan

(* A call that ends, or none, is within its types. *)
LEMMA CallEnds ==
    ASSUME ChainInv', reorg' = NoReorg
    PROVE  /\ ReorgPlan'
           /\ reorg' \in [detach : SUBSET Block, attach : SUBSET Block]
<1>1. bestNode' \in index' /\ bestNode' \in Hash
  BY DEF ChainInv, ChainTypes
<1> QED BY <1>1, SelfAncestor DEF ReorgPlan, NoReorg

(* reorganizeChain keeps it while it detaches blocks,                      *)
LEMMA DetachKeepsIInv ==
    ASSUME IInv, DetachStep
    PROVE  IInv'
<1> DEFINE n == bestNode
<1>1. Highest(reorg.detach) = n /\ n \in reorg.detach
  BY DetachIsBest DEF DetachStep
<1>2. n \in Block
  BY <1>1 DEF IInv, CallInv, CallTypes
<1>3. /\ disconnectBlock(n)
      /\ reorg' = [reorg EXCEPT !.detach = @ \ {n}]
      /\ UNCHANGED <<reply, counters>>
  BY <1>1 DEF DetachStep
<1>4. ChainInv' /\ Ancestry[bestNode'] = Ancestry[n] \ {n}
  BY <1>2, <1>3, DisconnectKeepsChain DEF IInv
<1>5. ReorgPlan'
  <2>0. PICK t \in index : \E f \in Ancestry[t] \cap Ancestry[bestNode] :
           /\ reorg.detach = Ancestry[bestNode] \ Ancestry[f]
           /\ reorg.attach = Ancestry[t] \ Ancestry[f]
           /\ reorg.attach \cap Invalid = {}
    BY DEF IInv, CallInv, ReorgPlan
  <2>1. PICK f \in Ancestry[t] \cap Ancestry[n] :
           /\ reorg.detach = Ancestry[n] \ Ancestry[f]
           /\ reorg.attach = Ancestry[t] \ Ancestry[f]
           /\ reorg.attach \cap Invalid = {}
    BY <2>0
  <2>2. f \in Hash
    BY <1>2, <2>1, SelfAncestor
  <2>3. f # n
    BY <1>1, <2>1
  <2>4. f \in Ancestry[t] \cap Ancestry[bestNode']
    BY <1>4, <2>1, <2>3
  <2>5. /\ reorg'.detach = reorg.detach \ {n}
        /\ reorg'.attach = reorg.attach
    BY <1>3 DEF IInv, CallInv, CallTypes
  <2>6. reorg'.detach = Ancestry[bestNode'] \ Ancestry[f]
    BY <1>4, <2>1, <2>5
  <2>7. t \in index'
    BY <1>3 DEF disconnectBlock
  <2> QED BY <2>1, <2>4, <2>5, <2>6, <2>7 DEF ReorgPlan
<1>6. CallTypes' /\ ReorgFits'
  BY <1>3 DEF IInv, CallInv, CallTypes, ReorgFits, counters
<1> QED BY <1>4, <1>5, <1>6 DEF IInv, CallInv

(* and while it attaches them.                                             *)
LEMMA AttachKeepsIInv ==
    ASSUME IInv, AttachStep
    PROVE  IInv'
<1> DEFINE n == NextAttach
<1>1. /\ n \in reorg.attach /\ n \in Block /\ Prev[n] = bestNode
      /\ n \notin Invalid
  BY AttachExtendsBest DEF AttachStep
<1>2. PICK t \in index : /\ n \in Ancestry[t]
                         /\ reorg.attach = Ancestry[t] \ Ancestry[bestNode]
  BY AttachExtendsBest DEF AttachStep
<1>3. /\ connectBlock(n, workSum)
      /\ blockCache' = blockCache \ {n}
      /\ reorg' = [reorg EXCEPT !.attach = @ \ {n}]
      /\ reply' \in {"mainchain", reply}
      /\ UNCHANGED counters
  BY <1>1 DEF AttachStep, WithoutAttached
<1>4. reorg.detach = {}
  BY DEF AttachStep
<1> HIDE DEF n
<1>5. ChainInv'
  BY <1>1, <1>3, ConnectKeepsChain DEF IInv, ChainInv, ChainTypes
<1>6. bestNode' = n /\ t \in index'
  BY <1>3 DEF connectBlock
<1>7. ReorgPlan'
  <2>1. Ancestry[n] = {n} \cup Ancestry[bestNode] /\ n \in Ancestry[n]
    BY <1>1, PrevAncestor
  <2>2. reorg'.detach = {} /\ reorg'.attach = reorg.attach \ {n}
    BY <1>3, <1>4 DEF IInv, CallInv, CallTypes
  <2>3. reorg'.attach = Ancestry[t] \ Ancestry[n]
    BY <1>2, <2>1, <2>2
  <2>4. reorg'.attach \cap Invalid = {}
    BY <2>2 DEF IInv, CallInv, ReorgPlan
  <2>5. n \in Ancestry[t] \cap Ancestry[bestNode']
    BY <1>2, <1>6, <2>1
  <2> QED BY <1>6, <2>2, <2>3, <2>4, <2>5 DEF ReorgPlan
<1>8. CallTypes' /\ ReorgFits'
  BY <1>3 DEF IInv, CallInv, CallTypes, ReorgFits, Replies, counters
<1> QED BY <1>5, <1>7, <1>8 DEF IInv, CallInv

(* Every step keeps it.                                                    *)
LEMMA NextIInv == IInv /\ [Next]_vars => IInv'
<1> SUFFICES ASSUME IInv, [Next]_vars PROVE IInv'
  OBVIOUS
<1>0. ChainInv /\ CallInv /\ CallTypes
  BY DEF IInv, CallInv
<1>1. ASSUME NEW b \in Block, RefuseBlock(b) PROVE IInv'
  <2>1. ChainInv'
    BY <1>0, <1>1, ChainUnchanged DEF RefuseBlock
  <2>2. ReorgPlan'
    BY <1>0, <1>1, PlanUnchanged DEF RefuseBlock, CallInv, memory
  <2>3. reply' \in {"duplicate", "error", "orphan"}
    BY <1>1 DEF RefuseBlock
  <2>4. CallTypes' /\ ReorgFits'
    BY <1>0, <1>1, <2>3 DEF RefuseBlock, CallTypes, ReorgFits, Replies, counters
  <2> QED BY <2>1, <2>2, <2>4 DEF IInv, CallInv
<1>2. ASSUME NEW b \in Block, ExtendBestChain(b) PROVE IInv'
  <2>1. NewBlock(b) /\ Prev[b] = bestNode /\ reorg = NoReorg
        /\ UNCHANGED <<reorg, counters>>
    BY <1>2 DEF ExtendBestChain, NewBlock, Ready, Idle
  <2>2. ChainInv'
    <3>1. CASE b \in Invalid
      BY <1>0, <1>2, <3>1, ChainUnchanged DEF ExtendBestChain
    <3>2. CASE b \notin Invalid
      <4>1. connectBlock(b, newBlockNode(b)) /\ UNCHANGED blockCache
        BY <1>2, <3>2 DEF ExtendBestChain
      <4>2. blockCache' = blockCache \ {b}
        BY <1>0, <2>1, <4>1, ChainFacts DEF NewBlock
      <4>3. /\ newBlockNode(b) \in [Hash -> Int]
            /\ \A h \in Hash \ (index \cup {b}) : newBlockNode(b)[h] = 0
        BY <1>0, SumsTyped
      <4> QED BY <1>0, <2>1, <3>2, <4>1, <4>2, <4>3, ConnectKeepsChain
    <3> QED BY <3>1, <3>2
  <2>3. reply' \in {"invalid", "mainchain"}
    BY <1>2 DEF ExtendBestChain
  <2>4. ReorgPlan'
    BY <2>1, <2>2, CallEnds
  <2>5. CallTypes' /\ ReorgFits'
    BY <1>0, <2>1, <2>3 DEF CallTypes, ReorgFits, Replies, counters
  <2> QED BY <2>2, <2>4, <2>5 DEF IInv, CallInv
<1>3. ASSUME NEW b \in Block, ExtendSideChain(b) PROVE IInv'
  <2>1. NewBlock(b) /\ AddToSideChain(b) /\ reply' = "sidechain"
        /\ UNCHANGED <<reorg, counters>>
    BY <1>3 DEF ExtendSideChain
  <2>2. ChainInv'
    BY <1>0, <2>1, SideBlockKeepsChain
  <2>3. ReorgPlan'
    BY <1>0, <2>1, PlanUnchanged DEF AddToSideChain, CallInv
  <2>4. CallTypes' /\ ReorgFits'
    BY <1>0, <2>1 DEF CallTypes, ReorgFits, Replies, counters
  <2> QED BY <2>2, <2>3, <2>4 DEF IInv, CallInv
<1>4. ASSUME NEW b \in Block, ReorganizeToBlock(b) PROVE IInv'
  <2>1. NewBlock(b) /\ AddToSideChain(b) /\ StartReorganize(b, blockCache')
        /\ UNCHANGED counters
    BY <1>4 DEF ReorganizeToBlock
  <2>2. ChainInv'
    BY <1>0, <2>1, SideBlockKeepsChain
  <2>3. b \in index' /\ bestNode' = bestNode
    BY <2>1 DEF AddToSideChain
  <2>4. Ancestry[b] \ Ancestry[bestNode] \subseteq blockCache'
    <3>1. Ancestry[b] \subseteq index' /\ inMainChain' = Ancestry[bestNode]
      <4>1. /\ inMainChain' = Ancestry[bestNode']
            /\ \A n \in index' : Ancestry[n] \subseteq index'
        <5>1. bestNode' \in Hash /\ inMainChain' = Ancestry[bestNode']
          BY <2>2 DEF ChainInv, ChainTypes, MemoryMatchesDatabase
        <5>2. \A n \in index' : Ancestry[n] \subseteq index'
          <6>1. index' \in SUBSET Hash
                /\ \A n \in index' \ {Genesis} : Prev[n] \in index'
            BY <2>2 DEF ChainInv, ChainTypes, SideChainsKept
          <6> QED BY <6>1, AncestorsWithin
        <5> QED BY <5>1, <5>2
      <4> QED BY <2>3, <4>1
    <3> QED BY <2>2, <3>1 DEF ChainInv, SideChainsKept
  <2>5. /\ ReorgPlan' /\ ReorgFits' /\ reply' \in Replies
        /\ reorg' \in [detach : SUBSET Block, attach : SUBSET Block]
    BY <1>0, <2>1, <2>2, <2>3, <2>4, StartMakesPlan
  <2>6. CallTypes'
    BY <1>0, <2>1, <2>5 DEF CallTypes, counters
  <2> QED BY <2>2, <2>5, <2>6 DEF IInv, CallInv
<1>5. ASSUME NEW b \in Block, DryRun(b) PROVE IInv'
  <2>1. ChainTypes'
    BY <1>0, <1>5, SumsTyped DEF DryRun, ChainInv, ChainTypes
  <2>2. MemoryMatchesDatabase' /\ SideChainsKept' /\ MainChainValid'
        /\ FirstChildSet'
    BY <1>0, <1>5 DEF DryRun, ChainInv, MemoryMatchesDatabase, SideChainsKept,
                      MainChainValid, FirstChildSet
  <2>3. ReorgPlan'
    BY <1>0, <1>5, PlanUnchanged DEF DryRun, CallInv
  <2>4. CallTypes' /\ ReorgFits'
    BY <1>0, <1>5 DEF DryRun, CallTypes, ReorgFits, Replies, counters
  <2> QED BY <2>1, <2>2, <2>3, <2>4 DEF IInv, ChainInv, CallInv
<1>6. ASSUME NEW node \in Hash, ForceHeadReorganization(node) PROVE IInv'
  <2>1. /\ node \in index /\ StartReorganize(node, blockCache)
        /\ UNCHANGED <<memory, db, failures, restarts>>
        /\ forced < MaxForced /\ forced' = forced + 1
    BY <1>6 DEF ForceHeadReorganization
  <2>2. ChainInv' /\ node \in index' /\ bestNode' = bestNode
    BY <1>0, <2>1, ChainUnchanged DEF memory
  <2>3. Ancestry[node] \ Ancestry[bestNode] \subseteq blockCache
    BY <1>0, <2>1, ChainFacts DEF ChainInv, SideChainsKept
  <2>4. /\ ReorgPlan' /\ ReorgFits' /\ reply' \in Replies
        /\ reorg' \in [detach : SUBSET Block, attach : SUBSET Block]
    BY <1>0, <2>1, <2>2, <2>3, StartMakesPlan
  <2>5. CallTypes'
    BY <1>0, <2>1, <2>4, BoundAssumption DEF CallTypes
  <2> QED BY <2>2, <2>4, <2>5 DEF IInv, CallInv
<1>7. ASSUME DetachStep PROVE IInv'
  BY <1>7, DetachKeepsIInv
<1>8. ASSUME AttachStep PROVE IInv'
  BY <1>8, AttachKeepsIInv
<1>9. ASSUME UpdateFails PROVE IInv'
  <2>1. ChainInv'
    BY <1>0, <1>9, ChainUnchanged DEF UpdateFails
  <2>2. ReorgPlan' /\ reorg' \in [detach : SUBSET Block, attach : SUBSET Block]
    BY <1>9, <2>1, CallEnds DEF UpdateFails
  <2>3. CallTypes' /\ ReorgFits'
    BY <1>0, <1>9, <2>2, BoundAssumption
       DEF UpdateFails, CallTypes, ReorgFits, Replies
  <2> QED BY <2>1, <2>2, <2>3 DEF IInv, CallInv
<1>10. ASSUME Restart PROVE IInv'
  <2>1. ChainInv'
    BY <1>0, <1>10, RestartKeepsChain
  <2>2. ReorgPlan' /\ reorg' \in [detach : SUBSET Block, attach : SUBSET Block]
    BY <1>10, <2>1, CallEnds DEF Restart
  <2>3. CallTypes' /\ ReorgFits'
    BY <1>0, <1>10, <2>2, BoundAssumption
       DEF Restart, CallTypes, ReorgFits, Replies
  <2> QED BY <2>1, <2>2, <2>3 DEF IInv, CallInv
<1>11. ASSUME UNCHANGED vars PROVE IInv'
  <2>1. ChainInv'
    BY <1>0, <1>11, ChainUnchanged DEF vars
  <2>2. ReorgPlan'
    BY <1>0, <1>11, PlanUnchanged DEF vars, memory, CallInv
  <2>3. CallTypes' /\ ReorgFits'
    BY <1>0, <1>11 DEF vars, counters, CallInv, CallTypes, ReorgFits
  <2> QED BY <2>1, <2>2, <2>3 DEF IInv, CallInv
<1> QED
  BY <1>1, <1>2, <1>3, <1>4, <1>5, <1>6, <1>7, <1>8, <1>9, <1>10, <1>11
     DEF Next

-----------------------------------------------------------------------------
(* Every reachable state satisfies the inductive invariant. *)
THEOREM ChainInvariant == Spec => []IInv
BY InitIInv, NextIInv, PTL DEF Spec

(* The variables of the chain keep their types; in particular every node   *)
(* that connectBestChain or findNode creates has a work sum.               *)
THEOREM TypeCorrect == Spec => []TypeOK
<1>1. IInv => TypeOK
  BY DEF IInv, ChainInv, ChainTypes, CallInv, CallTypes, TypeOK
<1> QED BY <1>1, ChainInvariant, PTL

(* In every state between two database transactions of reorganizeChain,    *)
(* after failed updates and restarts, memory and database hold the same    *)
(* chain.                                                                  *)
THEOREM MemoryIsDatabase == Spec => []MemoryMatchesDatabase
<1>1. IInv => MemoryMatchesDatabase
  BY DEF IInv, ChainInv
<1> QED BY <1>1, ChainInvariant, PTL

(* The side chain cache holds the blocks off the main chain and no others, *)
(* whatever connectBlock and disconnectBlock move in and out of it.        *)
THEOREM SideChainsAreKept == Spec => []SideChainsKept
<1>1. IInv => SideChainsKept
  BY DEF IInv, ChainInv
<1> QED BY <1>1, ChainInvariant, PTL

(* No block that checkConnectBlock refuses is ever on the main chain: the  *)
(* checks before a reorganization cover all it connects later.             *)
THEOREM MainChainIsValid == Spec => []MainChainValid
<1>1. IInv => MainChainValid
  BY DEF IInv, ChainInv
<1> QED BY <1>1, ChainInvariant, PTL

(* No reorganization meets one of the assertions of reorganizeChain,       *)
(* connectBlock and disconnectBlock.                                       *)
THEOREM ReorganizationsFit == Spec => []ReorgFits
<1>1. IInv => ReorgFits
  BY DEF IInv, CallInv
<1> QED BY <1>1, ChainInvariant, PTL

(* The chain is sound for any tree of blocks and any number of forks,      *)
(* reorganizations, failed updates and stops.                              *)
THEOREM ChainIsSound == Spec => []ChainSound
BY TypeCorrect, MemoryIsDatabase, SideChainsAreKept, MainChainIsValid,
   ReorganizationsFit, PTL DEF ChainSound

-----------------------------------------------------------------------------
(* The choice of the best chain by work sums.                              *)

(* The sums grow along a branch.  The genesis node is left out: findNode   *)
(* may have given a reloaded one any sum.                                  *)
SumsGrow ==
    \A n \in index : \A a \in Ancestry[n] \ {Genesis} : workSum[a] =< workSum[n]

(* The block the reorganization in progress leads to; without one, the     *)
(* best block.                                                             *)
IsTarget(t) ==
    \E f \in Ancestry[t] \cap Ancestry[bestNode] :
        /\ reorg.detach = Ancestry[bestNode] \ Ancestry[f]
        /\ reorg.attach = Ancestry[t] \ Ancestry[f]

(* Nothing that could be connected has more work than that block. *)
HeaviestAt(t) ==
    \A n \in index \ {Genesis} :
        Ancestry[n] \cap Invalid = {} => workSum[n] =< workSum[t]

(* The branch that reorganizeChain attaches is the heaviest.               *)
TargetHeaviest ==
    forced = 0 /\ failures = 0 => \A t \in index : IsTarget(t) => HeaviestAt(t)

(* What is known of the work sums during a reorganization.                 *)
WorkInv == IInv /\ SumsGrow /\ TargetHeaviest

(* The work of a chain grows with it. *)
LEMMA ChainWorkGrows ==
    ASSUME NEW h \in Hash, NEW a \in Ancestry[h]
    PROVE  ChainWork[a] =< ChainWork[h]
<1> DEFINE bad == {n \in Hash : \E x \in Ancestry[n] : ~ (ChainWork[x] =< ChainWork[n])}
<1> SUFFICES ASSUME bad # {} PROVE FALSE
  OBVIOUS
<1>0. \A n \in bad : Height[n] \in Nat
  OBVIOUS
<1> HIDE DEF bad
<1>1. PICK n \in bad : \A m \in bad : Height[n] =< Height[m]
  BY <1>0, LeastRank
<1> USE DEF bad
<1>2. PICK x \in Ancestry[n] : ~ (ChainWork[x] =< ChainWork[n])
  BY <1>1
<1>3. n \in Hash /\ x \in Hash /\ ChainWork[n] \in Nat /\ ChainWork[x] \in Nat
  BY <1>1, <1>2, SelfAncestor, WorkAssumption
<1>4. n \in Block /\ x # n
  BY <1>2, <1>3
<1>5. x \in Ancestry[Prev[n]] /\ Prev[n] \in Hash
  BY <1>2, <1>4, PrevAncestor
<1>6. Prev[n] \notin bad
  BY <1>1, <1>4
<1>7. ChainWork[x] =< ChainWork[Prev[n]]
  BY <1>5, <1>6
<1>8. ChainWork[n] = ChainWork[Prev[n]] + Work[n] /\ Work[n] \in Nat
      /\ ChainWork[Prev[n]] \in Nat
  BY <1>4, <1>5, WorkAssumption
<1> QED BY <1>2, <1>3, <1>7, <1>8

(* Without a reorganization the best block is the only target. *)
LEMMA TargetIsBest ==
    ASSUME bestNode \in Hash, reorg = NoReorg, NEW t \in Hash
    PROVE  IsTarget(t) <=> t = bestNode
<1>1. ASSUME IsTarget(t) PROVE t = bestNode
  <2>1. PICK f \in Ancestry[t] \cap Ancestry[bestNode] :
           Ancestry[bestNode] \ Ancestry[f] = {} /\ Ancestry[t] \ Ancestry[f] = {}
    BY <1>1 DEF IsTarget, NoReorg
  <2>2. f \in Hash
    BY <2>1, SelfAncestor
  <2>3. f = t
    BY <2>1, <2>2, SelfAncestor, AncestorsAntisymmetric
  <2>4. f = bestNode
    BY <2>1, <2>2, SelfAncestor, AncestorsAntisymmetric
  <2> QED BY <2>3, <2>4
<1>2. IsTarget(bestNode)
  BY SelfAncestor DEF IsTarget, NoReorg
<1> QED BY <1>1, <1>2

(* A new node leaves all sums but its own and that of genesis alone, and   *)
(* that of genesis too while genesis is the best block.                    *)
LEMMA OtherSumsKept ==
    ASSUME ChainInv, NEW b \in Block, NewBlock(b)
    PROVE  /\ \A n \in index : n # Genesis \/ n = bestNode =>
                 /\ getPrevNodeFromBlock(b)[n] = workSum[n]
                 /\ newBlockNode(b)[n] = workSum[n]
           /\ newBlockNode(b)[b] = getPrevNodeFromBlock(b)[Prev[b]] + Work[b]
           /\ Prev[b] # Genesis \/ Prev[b] = bestNode =>
                 newBlockNode(b)[b] = workSum[Prev[b]] + Work[b]
<1> DEFINE prev == getPrevNodeFromBlock(b)
<1>1. prev \in [Hash -> Int] /\ b \in Hash /\ b \notin index /\ Prev[b] \in index
      /\ index \subseteq Hash /\ workSum \in [Hash -> Int]
  BY SumsTyped DEF NewBlock, ChainInv, ChainTypes
<1>2. newBlockNode(b) = [prev EXCEPT ![b] = prev[Prev[b]] + Work[b]]
  BY DEF newBlockNode
<1>3. \A n \in index : n # Genesis \/ n = bestNode => prev[n] = workSum[n]
  BY <1>1 DEF getPrevNodeFromBlock, getGenesisNode
<1> HIDE DEF prev
<1>4. \A n \in index : n # b => newBlockNode(b)[n] = prev[n]
  BY <1>1, <1>2
<1>5. newBlockNode(b)[b] = prev[Prev[b]] + Work[b]
  BY <1>1, <1>2
<1> QED BY <1>1, <1>3, <1>4, <1>5 DEF prev

(* So the sums still grow along every branch. *)
LEMMA NewNodeGrows ==
    ASSUME ChainInv, SumsGrow, NEW b \in Block, NewBlock(b),
           index' = index \cup {b}, workSum' = newBlockNode(b)
    PROVE  SumsGrow'
<1>1. /\ \A n \in index : Ancestry[n] \subseteq index
      /\ index \subseteq Hash /\ b \notin index /\ Prev[b] \in index
      /\ workSum \in [Hash -> Int] /\ Work[b] \in Nat
  BY ChainFacts, WorkAssumption DEF ChainInv, ChainTypes, NewBlock
<1>2. \A n \in index \ {Genesis} : workSum'[n] = workSum[n]
  BY OtherSumsKept
<1>3. ASSUME NEW n \in index, NEW a \in Ancestry[n] \ {Genesis}
      PROVE  workSum'[a] =< workSum'[n]
  <2>1. n # Genesis
    BY <1>3
  <2>2. a \in index
    BY <1>1
  <2> QED BY <1>2, <1>3, <2>1, <2>2 DEF SumsGrow
<1>4. ASSUME NEW a \in Ancestry[b] \ {Genesis}
      PROVE  workSum'[a] =< workSum'[b]
  <2>0. workSum'[b] \in Int /\ Ancestry[b] = {b} \cup Ancestry[Prev[b]]
    BY SumsTyped, PrevAncestor
  <2>1. CASE a = b
    BY <2>0, <2>1
  <2>2. CASE a # b
    <3>1. a \in Ancestry[Prev[b]] /\ a \in index /\ a # Genesis
      BY <1>1, <2>0, <2>2
    <3>2. Prev[b] # Genesis
      BY <3>1
    <3>3. workSum'[b] = workSum[Prev[b]] + Work[b]
      BY <3>2, OtherSumsKept
    <3>4. workSum[a] =< workSum[Prev[b]]
      BY <1>1, <3>1 DEF SumsGrow
    <3>5. workSum'[a] = workSum[a] /\ workSum[a] \in Int /\ workSum[Prev[b]] \in Int
      BY <1>1, <1>2, <3>1
    <3> QED BY <1>1, <3>3, <3>4, <3>5
  <2> QED BY <2>1, <2>2
<1> QED BY <1>3, <1>4 DEF SumsGrow

(* What the best block has shown between two calls. *)
LEMMA BestIsHeaviest ==
    ASSUME WorkInv, Ready, forced = 0, failures = 0
    PROVE  HeaviestAt(bestNode)
<1>1. bestNode \in Hash /\ bestNode \in index /\ reorg = NoReorg
  BY ChainFacts DEF WorkInv, IInv, ChainInv, ChainTypes, Ready, Idle
<1>2. IsTarget(bestNode)
  BY <1>1, TargetIsBest
<1> QED BY <1>1, <1>2 DEF WorkInv, TargetHeaviest

(* A call that ends without a reorganization has to show it again, *)
LEMMA HeaviestEnds ==
    ASSUME ChainInv', reorg' = NoReorg,
           forced' = 0 /\ failures' = 0 => HeaviestAt(bestNode)'
    PROVE  TargetHeaviest'
<1>1. bestNode' \in Hash /\ index' \subseteq Hash
  BY DEF ChainInv, ChainTypes
<1>2. ASSUME NEW t \in index', IsTarget(t)' PROVE t = bestNode'
  <2>1. t \in Hash
    BY <1>1
  <2>2. PICK f \in Ancestry[t] \cap Ancestry[bestNode'] :
           Ancestry[bestNode'] \ Ancestry[f] = {} /\ Ancestry[t] \ Ancestry[f] = {}
    BY <1>2 DEF IsTarget, NoReorg
  <2>3. f \in Hash
    BY <1>1, <2>2, SelfAncestor
  <2>4. f = t
    BY <2>1, <2>2, <2>3, SelfAncestor, AncestorsAntisymmetric
  <2>5. f = bestNode'
    BY <1>1, <2>2, <2>3, SelfAncestor, AncestorsAntisymmetric
  <2> QED BY <2>4, <2>5
<1>3. ASSUME forced' = 0, failures' = 0, NEW t \in index', IsTarget(t)'
      PROVE  HeaviestAt(t)'
  <2>1. t = bestNode' /\ HeaviestAt(bestNode)'
    BY <1>2, <1>3
  <2> QED BY <2>1 DEF HeaviestAt
<1> QED BY <1>3 DEF TargetHeaviest

(* and one that leaves memory and the lists alone need not.                *)
LEMMA WorkUnchanged ==
    ASSUME SumsGrow, TargetHeaviest, UNCHANGED <<memory, reorg, forced, failures>>
    PROVE  SumsGrow' /\ TargetHeaviest'
BY DEF SumsGrow, TargetHeaviest, HeaviestAt, IsTarget, memory

(* A block whose chain became heavier than the best one is the target of   *)
(* the reorganization it starts, and heavier than everything else.         *)
LEMMA ReorganizeKeepsWork ==
    ASSUME WorkInv, ChainInv', NEW b \in Block, ReorganizeToBlock(b)
    PROVE  SumsGrow' /\ TargetHeaviest'
<1>1. /\ NewBlock(b) /\ AddToSideChain(b) /\ StartReorganize(b, blockCache')
      /\ newBlockNode(b)[b] > newBlockNode(b)[bestNode]
      /\ Ready /\ UNCHANGED counters
  BY DEF ReorganizeToBlock, MoreWork, NewBlock
<1>2. /\ index' = index \cup {b} /\ workSum' = newBlockNode(b)
      /\ bestNode' = bestNode
  BY <1>1 DEF AddToSideChain
<1>3. SumsGrow'
  BY <1>1, <1>2, NewNodeGrows DEF WorkInv, IInv
<1>4. /\ bestNode \in Hash /\ bestNode \in index /\ index \subseteq Hash
      /\ inMainChain = Ancestry[bestNode] /\ b \in Hash /\ b \notin index
      /\ Ancestry[bestNode] \subseteq index
      /\ workSum' \in [Hash -> Int] /\ workSum \in [Hash -> Int]
  BY <1>1, ChainFacts DEF WorkInv, IInv, ChainInv, ChainTypes, NewBlock
<1>5. \A n \in index \ {Genesis} : workSum'[n] = workSum[n]
  BY <1>1, <1>2, OtherSumsKept DEF WorkInv, IInv
<1>6. workSum'[bestNode] = workSum[bestNode]
  BY <1>1, <1>2, <1>4, OtherSumsKept DEF WorkInv, IInv
<1>7. AttachNodes(b) = Ancestry[b] \ Ancestry[bestNode] /\ b \in AttachNodes(b)
  BY <1>4, AttachIsBranch, SelfAncestor
<1>8. CASE reply' # "reorganizing"
  <2>1. reorg' = NoReorg
    BY <1>1, <1>8 DEF StartReorganize
  <2>2. AttachNodes(b) \cap Invalid # {}
    <3>1. ForkNode(b) \in Ancestry[bestNode]
      BY <1>4, ForkIsCommon
    <3>2. AttachNodes(b) \subseteq blockCache'
      <4>1. Ancestry[b] \subseteq index'
        <5>1. index' \in SUBSET Hash /\ b \in index'
              /\ \A n \in index' \ {Genesis} : Prev[n] \in index'
          BY <1>2 DEF ChainInv, ChainTypes, SideChainsKept
        <5> QED BY <5>1, AncestorsWithin
      <4>2. inMainChain' = Ancestry[bestNode]
        BY <1>1, <1>4 DEF AddToSideChain
      <4> QED BY <1>7, <4>1, <4>2 DEF ChainInv, SideChainsKept
    <3>3. reply' = checkReorganize(b, blockCache')
      BY <1>1 DEF StartReorganize
    <3> QED BY <1>7, <1>8, <3>1, <3>2, <3>3 DEF checkReorganize
  <2>3. forced' = 0 /\ failures' = 0 => HeaviestAt(bestNode)'
    <3> SUFFICES ASSUME forced = 0, failures = 0, NEW n \in index' \ {Genesis},
                        Ancestry[n] \cap Invalid = {}
                 PROVE  workSum'[n] =< workSum'[bestNode']
      BY <1>1 DEF counters, HeaviestAt
    <3>1. n # b
      BY <1>7, <2>2
    <3>2. n \in index \ {Genesis}
      BY <1>2, <3>1
    <3>3. workSum[n] =< workSum[bestNode]
      BY <1>1, <3>2, BestIsHeaviest DEF HeaviestAt
    <3> QED BY <1>2, <1>5, <1>6, <3>2, <3>3
  <2> QED BY <1>3, <2>1, <2>3, HeaviestEnds
<1>9. CASE reply' = "reorganizing"
  <2>1. reorg'.attach = Ancestry[b] \ Ancestry[bestNode]
    BY <1>1, <1>7, <1>9 DEF StartReorganize
  <2>2. ASSUME NEW t \in index', IsTarget(t)' PROVE t = b
    <3>1. t \in Hash
      BY <1>2, <1>4
    <3>2. PICK f \in Ancestry[t] : reorg'.attach = Ancestry[t] \ Ancestry[f]
      BY <2>2 DEF IsTarget
    <3>3. f \in Hash /\ b \in Ancestry[t] \ Ancestry[f]
      BY <1>7, <2>1, <3>1, <3>2, SelfAncestor
    <3>4. t \notin Ancestry[f]
      BY <3>1, <3>2, <3>3
    <3>5. t \in Ancestry[b]
      BY <2>1, <3>1, <3>2, <3>4, SelfAncestor
    <3> QED BY <1>4, <3>1, <3>3, <3>5, AncestorsAntisymmetric
  <2>3. ASSUME forced = 0, failures = 0, NEW n \in index' \ {Genesis},
               Ancestry[n] \cap Invalid = {}
        PROVE  workSum'[n] =< workSum'[b]
    <3>1. CASE n = b
      BY <1>4, <3>1
    <3>2. CASE n # b
      <4>1. n \in index \ {Genesis}
        BY <1>2, <3>2
      <4>2. workSum[n] =< workSum[bestNode]
        BY <1>1, <2>3, <4>1, BestIsHeaviest DEF HeaviestAt
      <4>3. workSum'[n] = workSum[n] /\ workSum[n] \in Int /\ workSum[bestNode] \in Int
            /\ workSum'[b] \in Int /\ workSum'[b] > workSum[bestNode]
        BY <1>1, <1>2, <1>4, <1>5, <1>6, <4>1
      <4> QED BY <4>2, <4>3
    <3> QED BY <3>1, <3>2
  <2>4. TargetHeaviest'
    BY <1>1, <2>2, <2>3 DEF TargetHeaviest, HeaviestAt, counters
  <2> QED BY <1>3, <2>4
<1> QED BY <1>8, <1>9

(* The steps of a reorganization keep its target. *)
LEMMA StepsKeepTarget ==
    ASSUME WorkInv, DetachStep \/ AttachStep
    PROVE  SumsGrow' /\ TargetHeaviest'
<1>0. /\ bestNode \in Hash /\ index \subseteq Hash
      /\ \A n \in index : Ancestry[n] \subseteq index
  BY ChainFacts DEF WorkInv, IInv, ChainInv, ChainTypes
<1>1. CASE DetachStep
  <2>1. Highest(reorg.detach) = bestNode /\ bestNode \in reorg.detach
    BY <1>1, DetachIsBest DEF WorkInv, DetachStep
  <2>2. /\ disconnectBlock(bestNode) /\ UNCHANGED counters
        /\ reorg' = [reorg EXCEPT !.detach = @ \ {bestNode}]
    BY <1>1, <2>1 DEF DetachStep
  <2>3. reorg \in [detach : SUBSET Block, attach : SUBSET Block]
    BY DEF WorkInv, IInv, CallInv, CallTypes
  <2>4. /\ index' = index /\ workSum' = workSum /\ bestNode' = Prev[bestNode]
        /\ reorg'.detach = reorg.detach \ {bestNode}
        /\ reorg'.attach = reorg.attach
    BY <2>2, <2>3 DEF disconnectBlock
  <2>5. /\ Ancestry[bestNode] = {bestNode} \cup Ancestry[Prev[bestNode]]
        /\ bestNode \notin Ancestry[Prev[bestNode]] /\ Prev[bestNode] \in Hash
    BY <2>1, <2>3, PrevAncestor
  <2>6. ASSUME NEW t \in index, IsTarget(t)' PROVE IsTarget(t)
    <3>1. PICK f \in Ancestry[t] \cap Ancestry[Prev[bestNode]] :
             /\ reorg.detach \ {bestNode} = Ancestry[Prev[bestNode]] \ Ancestry[f]
             /\ reorg.attach = Ancestry[t] \ Ancestry[f]
      BY <2>4, <2>6 DEF IsTarget
    <3>2. f \in Ancestry[bestNode] /\ bestNode \notin Ancestry[f]
      BY <2>5, <3>1
    <3>3. reorg.detach = Ancestry[bestNode] \ Ancestry[f]
      BY <2>1, <2>5, <3>1, <3>2
    <3> QED BY <3>1, <3>2, <3>3 DEF IsTarget
  <2>7. TargetHeaviest'
    BY <2>2, <2>4, <2>6 DEF WorkInv, TargetHeaviest, HeaviestAt, counters
  <2> QED BY <2>4, <2>7 DEF WorkInv, SumsGrow
<1>2. CASE AttachStep
  <2> DEFINE c == NextAttach
  <2>1. /\ c \in reorg.attach /\ c \in Block /\ Prev[c] = bestNode
        /\ reorg.detach = {} /\ c \in index
    BY <1>0, <1>2, AttachExtendsBest DEF WorkInv, AttachStep
  <2>2. connectBlock(c, workSum) /\ reorg' = WithoutAttached /\ UNCHANGED counters
    BY <1>2, <2>1 DEF AttachStep
  <2>3. reorg \in [detach : SUBSET Block, attach : SUBSET Block]
    BY DEF WorkInv, IInv, CallInv, CallTypes
  <2>4. /\ index' = index /\ workSum' = workSum /\ bestNode' = c
        /\ reorg'.detach = {} /\ reorg'.attach = reorg.attach \ {c}
    BY <2>1, <2>2, <2>3 DEF connectBlock, WithoutAttached
  <2> HIDE DEF c
  <2>5. Ancestry[c] = {c} \cup Ancestry[bestNode] /\ c \notin Ancestry[bestNode]
    BY <2>1, PrevAncestor
  <2>6. ASSUME NEW t \in index, IsTarget(t)' PROVE IsTarget(t)
    <3>0. t \in Hash /\ c \in Hash
      BY <1>0, <2>1
    <3>1. PICK f \in Ancestry[t] \cap Ancestry[c] :
             /\ {} = Ancestry[c] \ Ancestry[f]
             /\ reorg.attach \ {c} = Ancestry[t] \ Ancestry[f]
      BY <2>4, <2>6 DEF IsTarget
    <3>2. f \in Hash /\ c \in Ancestry[f]
      BY <3>0, <3>1, SelfAncestor
    <3>3. f = c
      BY <3>0, <3>1, <3>2, AncestorsAntisymmetric
    <3>4. bestNode \in Ancestry[bestNode] /\ Ancestry[c] \subseteq Ancestry[t]
      BY <1>0, <3>0, <3>1, <3>3, SelfAncestor
    <3>5. reorg.attach = Ancestry[t] \ Ancestry[bestNode]
      BY <2>1, <2>5, <3>1, <3>3, <3>4
    <3> QED BY <2>1, <2>5, <3>4, <3>5 DEF IsTarget
  <2>7. TargetHeaviest'
    BY <2>2, <2>4, <2>6 DEF WorkInv, TargetHeaviest, HeaviestAt, counters
  <2> QED BY <2>4, <2>7 DEF WorkInv, SumsGrow
<1> QED BY <1>1, <1>2

(* initChainState loads one branch, along which the sums grow. *)
LEMMA RestartKeepsWork ==
    ASSUME WorkInv, ChainInv', Restart
    PROVE  SumsGrow' /\ TargetHeaviest'
<1> DEFINE h == db.hash
<1>1. h \in Hash /\ db.workSum \in Int
  BY DEF WorkInv, IInv, ChainInv, ChainTypes
<1>2. /\ index' = Ancestry[h] /\ bestNode' = h /\ reorg' = NoReorg
      /\ \A n \in Ancestry[h] : workSum'[n] = loadBlockNode(h, db.workSum, n)
  BY <1>1, SelfAncestor DEF Restart
<1> HIDE DEF h
<1>3. ASSUME NEW n \in Ancestry[h], NEW a \in Ancestry[n] \ {Genesis}
      PROVE  workSum'[a] =< workSum'[n]
  <2>1. n \in Hash /\ a \in Ancestry[h] /\ a \in Hash
    BY <1>1, SelfAncestor
  <2>2. ChainWork[a] - Work[a] =< ChainWork[n] - Work[n]
    <3>1. CASE a = n
      BY <2>1, <3>1, WorkAssumption
    <3>2. CASE a # n
      <4>1. n \in Block /\ a \in Block
        BY <1>3, <2>1, <3>2
      <4>2. a \in Ancestry[Prev[n]] /\ Prev[n] \in Hash
        BY <1>3, <3>2, <4>1, PrevAncestor
      <4>3. ChainWork[a] =< ChainWork[Prev[n]]
        BY <4>2, ChainWorkGrows
      <4>4. ChainWork[n] = ChainWork[Prev[n]] + Work[n]
        BY <4>1, WorkAssumption
      <4>5. /\ ChainWork[a] \in Nat /\ Work[a] \in Nat /\ ChainWork[Prev[n]] \in Nat
            /\ Work[n] \in Nat
        BY <2>1, <4>2, WorkAssumption
      <4> QED BY <4>3, <4>4, <4>5
    <3> QED BY <3>1, <3>2
  <2>3. /\ ChainWork[a] \in Nat /\ Work[a] \in Nat /\ ChainWork[n] \in Nat
        /\ Work[n] \in Nat /\ ChainWork[h] \in Nat /\ Work[h] \in Nat
    BY <1>1, <2>1, WorkAssumption
  <2>4. loadBlockNode(h, db.workSum, a) =< loadBlockNode(h, db.workSum, n)
    BY <1>1, <2>2, <2>3 DEF loadBlockNode
  <2> QED BY <1>2, <2>1, <2>4
<1>4. SumsGrow'
  BY <1>2, <1>3 DEF SumsGrow
<1>5. HeaviestAt(bestNode)'
  <2>1. \A n \in Ancestry[h] \ {Genesis} : workSum'[n] =< workSum'[h]
    BY <1>1, <1>3, SelfAncestor
  <2> QED BY <1>2, <2>1 DEF HeaviestAt
<1> QED BY <1>2, <1>4, <1>5, HeaviestEnds

(* Every step keeps it.                                                    *)
LEMMA NextWorkInv == WorkInv /\ [Next]_vars => WorkInv'
<1> SUFFICES ASSUME WorkInv, [Next]_vars PROVE WorkInv'
  OBVIOUS
<1>0. IInv' /\ ChainInv' /\ IInv /\ ChainInv /\ SumsGrow /\ TargetHeaviest
  BY NextIInv DEF WorkInv, IInv
<1>f. /\ bestNode \in Hash /\ bestNode \in index /\ index \subseteq Hash
      /\ workSum \in [Hash -> Int] /\ \A n \in index : Ancestry[n] \subseteq index
  BY <1>0, ChainFacts DEF ChainInv, ChainTypes
<1> SUFFICES SumsGrow' /\ TargetHeaviest'
  BY <1>0 DEF WorkInv
<1>1. ASSUME NEW b \in Block, RefuseBlock(b) PROVE SumsGrow' /\ TargetHeaviest'
  BY <1>0, <1>1, WorkUnchanged DEF RefuseBlock, counters
<1>2. ASSUME NEW b \in Block, ExtendBestChain(b) PROVE SumsGrow' /\ TargetHeaviest'
  <2>1. /\ NewBlock(b) /\ Ready /\ Prev[b] = bestNode /\ reorg' = NoReorg
        /\ UNCHANGED <<reorg, counters>>
    BY <1>2 DEF ExtendBestChain, NewBlock, Ready, Idle
  <2>2. CASE b \in Invalid
    BY <1>0, <1>2, <2>1, <2>2, WorkUnchanged DEF ExtendBestChain, counters
  <2>3. CASE b \notin Invalid
    <3>1. index' = index \cup {b} /\ workSum' = newBlockNode(b) /\ bestNode' = b
      BY <1>2, <2>3 DEF ExtendBestChain, connectBlock
    <3>2. SumsGrow'
      BY <1>0, <2>1, <3>1, NewNodeGrows
    <3>3. /\ \A n \in index \ {Genesis} : workSum'[n] = workSum[n]
          /\ workSum'[b] = workSum[bestNode] + Work[b]
          /\ Work[b] \in Nat
      BY <1>0, <2>1, <3>1, OtherSumsKept, WorkAssumption
    <3>4. ASSUME forced = 0, failures = 0, NEW n \in index' \ {Genesis},
                 Ancestry[n] \cap Invalid = {}
          PROVE  workSum'[n] =< workSum'[b]
      <4>1. CASE n = b
        BY <1>f, <3>3, <4>1
      <4>2. CASE n # b
        <5>1. n \in index \ {Genesis}
          BY <3>1, <4>2
        <5>2. workSum[n] =< workSum[bestNode]
          BY <2>1, <3>4, <5>1, BestIsHeaviest DEF HeaviestAt
        <5> QED BY <1>f, <3>3, <5>1, <5>2
      <4> QED BY <4>1, <4>2
    <3> QED BY <1>0, <2>1, <3>1, <3>2, <3>4, HeaviestEnds DEF HeaviestAt, counters
  <2> QED BY <2>2, <2>3
<1>3. ASSUME NEW b \in Block, ExtendSideChain(b) PROVE SumsGrow' /\ TargetHeaviest'
  <2>1. /\ NewBlock(b) /\ Ready /\ reorg' = NoReorg /\ UNCHANGED counters
        /\ ~ (newBlockNode(b)[b] > newBlockNode(b)[bestNode])
        /\ index' = index \cup {b} /\ workSum' = newBlockNode(b)
        /\ bestNode' = bestNode
    BY <1>3 DEF ExtendSideChain, AddToSideChain, NewBlock, Ready, Idle, MoreWork
  <2>2. SumsGrow'
    BY <1>0, <2>1, NewNodeGrows
  <2>3. /\ \A n \in index \ {Genesis} : workSum'[n] = workSum[n]
        /\ workSum'[bestNode] = workSum[bestNode]
    BY <1>0, <1>f, <2>1, OtherSumsKept
  <2>4. ASSUME forced = 0, failures = 0, NEW n \in index' \ {Genesis},
               Ancestry[n] \cap Invalid = {}
        PROVE  workSum'[n] =< workSum'[bestNode]
    <3>1. CASE n = b
      <4>1. workSum' \in [Hash -> Int]
        BY <1>0 DEF ChainInv, ChainTypes
      <4> QED BY <1>f, <2>1, <3>1, <4>1
    <3>2. CASE n # b
      <4>1. n \in index \ {Genesis}
        BY <2>1, <3>2
      <4>2. workSum[n] =< workSum[bestNode]
        BY <2>1, <2>4, <4>1, BestIsHeaviest DEF HeaviestAt
      <4> QED BY <2>3, <4>1, <4>2
    <3> QED BY <3>1, <3>2
  <2> QED BY <1>0, <2>1, <2>2, <2>4, HeaviestEnds DEF HeaviestAt, counters
<1>4. ASSUME NEW b \in Block, ReorganizeToBlock(b) PROVE SumsGrow' /\ TargetHeaviest'
  BY <1>0, <1>4, ReorganizeKeepsWork
<1>5. ASSUME NEW b \in Block, DryRun(b) PROVE SumsGrow' /\ TargetHeaviest'
  <2>1. /\ NewBlock(b) /\ Ready /\ reorg' = NoReorg /\ UNCHANGED counters
        /\ index' = index /\ workSum' = getPrevNodeFromBlock(b)
        /\ bestNode' = bestNode
    BY <1>5 DEF DryRun, NewBlock, Ready, Idle
  <2>2. /\ \A n \in index \ {Genesis} : workSum'[n] = workSum[n]
        /\ workSum'[bestNode] = workSum[bestNode]
    BY <1>0, <1>f, <2>1, OtherSumsKept
  <2>3. SumsGrow'
    <3>1. \A n \in index : \A a \in Ancestry[n] \ {Genesis} : n # Genesis
      OBVIOUS
    <3> QED BY <1>0, <1>f, <2>1, <2>2, <3>1 DEF SumsGrow
  <2>4. forced = 0 /\ failures = 0 => HeaviestAt(bestNode)'
    BY <2>1, <2>2, BestIsHeaviest DEF HeaviestAt
  <2> QED BY <1>0, <2>1, <2>3, <2>4, HeaviestEnds DEF counters
<1>6. ASSUME NEW node \in Hash, ForceHeadReorganization(node)
      PROVE  SumsGrow' /\ TargetHeaviest'
  <2>1. forced' # 0
    BY <1>0, <1>6, BoundAssumption
       DEF ForceHeadReorganization, IInv, CallInv, CallTypes
  <2>2. SumsGrow'
    BY <1>0, <1>6 DEF ForceHeadReorganization, memory, SumsGrow
  <2> QED BY <2>1, <2>2 DEF TargetHeaviest
<1>7. ASSUME DetachStep \/ AttachStep PROVE SumsGrow' /\ TargetHeaviest'
  BY <1>7, StepsKeepTarget
<1>8. ASSUME UpdateFails PROVE SumsGrow' /\ TargetHeaviest'
  <2>1. failures' # 0
    BY <1>0, <1>8, BoundAssumption DEF UpdateFails, IInv, CallInv, CallTypes
  <2>2. SumsGrow'
    BY <1>0, <1>8 DEF UpdateFails, memory, SumsGrow
  <2> QED BY <2>1, <2>2 DEF TargetHeaviest
<1>9. ASSUME Restart PROVE SumsGrow' /\ TargetHeaviest'
  BY <1>0, <1>9, RestartKeepsWork
<1>10. ASSUME UNCHANGED vars PROVE SumsGrow' /\ TargetHeaviest'
  BY <1>0, <1>10, WorkUnchanged DEF vars, counters
<1> QED
  BY <1>1, <1>2, <1>3, <1>4, <1>5, <1>6, <1>7, <1>8, <1>9, <1>10 DEF Next

(* However branches grow, are reorganized to or are cut short by a stop,   *)
(* between two calls no acceptable branch in memory has a greater work sum *)
(* than the best chain.                                                    *)
THEOREM HeaviestIsBest == Spec => []HeaviestByWorkSum
<1>1. Init => WorkInv
  <2> SUFFICES ASSUME Init PROVE WorkInv
    OBVIOUS
  <2>1. IInv
    BY InitIInv
  <2>2. index = {Genesis}
    BY DEF Init
  <2> QED BY <2>1, <2>2 DEF WorkInv, SumsGrow, TargetHeaviest, HeaviestAt
<1>2. WorkInv => HeaviestByWorkSum
  <2> SUFFICES ASSUME WorkInv, Ready, forced = 0, failures = 0,
                      NEW n \in index \ inMainChain,
                      AttachNodes(n) \cap Invalid = {}
               PROVE  workSum[n] =< workSum[bestNode]
    BY DEF HeaviestByWorkSum
  <2>1. /\ bestNode \in Hash /\ inMainChain = Ancestry[bestNode] /\ n \in Hash
        /\ Ancestry[bestNode] \cap Invalid = {}
    BY ChainFacts DEF WorkInv, IInv, ChainInv, ChainTypes, MainChainValid,
                      MemoryMatchesDatabase
  <2>2. AttachNodes(n) = Ancestry[n] \ Ancestry[bestNode]
    BY <2>1, AttachIsBranch
  <2>3. Ancestry[n] \cap Invalid = {} /\ n # Genesis
    BY <2>1, <2>2, GenesisAncestor
  <2>4. HeaviestAt(bestNode)
    BY BestIsHeaviest
  <2> QED BY <2>3, <2>4 DEF HeaviestAt
<1> QED BY <1>1, <1>2, NextWorkInv, PTL DEF Spec
=============================================================================
