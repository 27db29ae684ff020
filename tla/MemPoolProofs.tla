--------------------------- MODULE MemPoolProofs ----------------------------
(***************************************************************************)
(* Proofs about MemPool.  The maps of the pool agree by PoolInv, which     *)
(* every call keeps.  What the transactions spend is harder: while         *)
(* handleNotifyMsg makes its calls the pool and the chain disagree, and    *)
(* what is wrong now has to be set right by a call that is still to come.  *)
(* BackedInv says so of every coin that a transaction of the pool spends:  *)
(* it is unspent or made in the pool, or a later call puts its maker back  *)
(* or confirms a transaction that spends it.  This is inductive since the  *)
(* chain is one that checkConnectBlock let through (ChainInv) and since    *)
(* the calls of a block confirm a transaction before those that spend it   *)
(* (OrderInv).  WaitInv says what an orphan waits for, also in the middle  *)
(* of the walk of processOrphans.                                          *)
(***************************************************************************)
EXTENDS MemPool, FiniteSetTheorems, SequenceTheorems, TLAPS

(* Type correctness, in parts.                                             *)
ChainType == chain \in Seq(Block) /\ chain # <<>>
(* The calls that handleNotifyMsg has still to make.                       *)
CallType == job \in Seq(Call)
(* The queue of processOrphans, and the orphans of the entry it is at.     *)
WalkType == walk \in [queue : Seq(Tx), todo : SUBSET Tx]
(* The votes that are counted for each block.                              *)
VotesType == votes \in [Block -> SUBSET Tx]
(* The transactions of the pool and the heights they were added at.        *)
PoolType == InPool \subseteq Tx /\ pool \in [InPool -> Nat \ {0}]

(* The orphans and their index.                                            *)
OrphanInv ==
    /\ orphans \subseteq Tx /\ IsFiniteSet(orphans)
    /\ orphansByPrev \in [AllTx -> SUBSET Tx]
    /\ \A p \in AllTx : orphansByPrev[p] = {t \in orphans : p \in Parents(t)}
    /\ Cardinality(orphans) <= MaxOrphanTxs

(* The transactions of the pool and the outpoints they spend.              *)
OutpointInv ==
    /\ DOMAIN outpoints \subseteq OutPoint
    /\ OutpointsIndexed

(* No transaction is in both pools.                                        *)
Apart == orphans \cap InPool = {}

(* The inductive invariant for the maps of the pool.                       *)
PoolInv ==
    /\ ChainType /\ CallType /\ WalkType /\ VotesType /\ PoolType
    /\ OrphanInv /\ OutpointInv /\ Apart

(* The invariant says all that PoolConsistent does.                        *)
LEMMA PoolInvImplies == PoolInv => PoolConsistent
BY DEF PoolInv, PoolConsistent, TypeOK, ChainType, CallType, WalkType, VotesType,
       PoolType, OrphanInv, OutpointInv, Apart, OrphansIndexed

(* It holds of the empty pool.                                             *)
LEMMA PoolInit == Init => PoolInv
<1> SUFFICES ASSUME Init PROVE PoolInv
    OBVIOUS
<1>1. ChainType /\ CallType /\ WalkType /\ VotesType
    <2>1. ChainType
        BY PoolAssumption DEF Init, ChainType
    <2>2. CallType
        BY DEF Init, CallType
    <2>3. WalkType
        BY DEF Init, WalkType
    <2>4. VotesType
        BY DEF Init, VotesType
    <2> QED BY <2>1, <2>2, <2>3, <2>4
<1>2. InPool = {} /\ PoolType
    BY DEF Init, InPool, PoolType
<1>3. OrphanInv
    <2>1. orphans = {} /\ orphansByPrev = [p \in AllTx |-> {}]
        BY DEF Init
    <2>2. Cardinality({}) = 0 /\ IsFiniteSet({})
        BY FS_EmptySet
    <2> QED BY <2>1, <2>2, PoolAssumption DEF OrphanInv
<1>4. OutpointInv /\ Apart
    BY <1>2 DEF Init, OutpointInv, Apart, OutpointsIndexed
<1> QED BY <1>1, <1>2, <1>3, <1>4 DEF PoolInv

(* Parents are known transactions, the null outpoint has none.             *)
LEMMA ParentsType ==
    ASSUME NEW t \in Tx
    PROVE  Parents(t) \subseteq AllTx
<1>1. \A o \in OutPoint : o # StakeBase => o[1] \in AllTx
    BY DEF OutPoint
<1> QED BY <1>1, InputAssumption DEF Parents, RealInputs

(* What every accepted transaction has passed.                             *)
LEMMA Accepted ==
    ASSUME NEW t \in Tx, NEW others, NEW policy,
           Outcome(t, others, policy) = "accepted"
    PROVE  /\ t \notin InPool /\ t \notin others
           /\ ~ SpendsTicket(t) => Inputs[t] \cap DOMAIN outpoints = {}
<1>1. t \notin InPool /\ t \notin others
    BY DEF Outcome, Refused
<1>2. ~ Duplicate(t)
    BY DEF Outcome, Refused
<1>3. ASSUME ~ SpendsTicket(t)
      PROVE  ~ checkPoolDoubleSpend(t)
    <2>1. Type[t] # "vote" /\ Type[t] # "revocation"
        BY <1>3 DEF SpendsTicket
    <2> QED BY <1>2, <2>1 DEF Duplicate
<1> QED BY <1>1, <1>3 DEF checkPoolDoubleSpend

(* What a transaction has passed that is found to be an orphan.            *)
LEMMA Waits ==
    ASSUME NEW t \in Tx, NEW others, NEW policy,
           Outcome(t, others, policy) = "orphan"
    PROVE  t \notin InPool /\ t \notin others
BY DEF Outcome, Refused

-----------------------------------------------------------------------------
(* addTransaction and removeTransaction.                                   *)

(* insertVote keeps the type of the counts.                                *)
LEMMA InsertVote ==
    ASSUME VotesType, NEW t \in Tx, insertVote(t)
    PROVE  VotesType'
<1>1. CASE votes' = votes
    BY <1>1 DEF VotesType
<1>2. CASE Type[t] = "vote" /\ votes' = [votes EXCEPT ![VotesFor[t]] = @ \cup {t}]
    <2>1. VotesFor[t] \in Block
        BY <1>2, PoolAssumption
    <2> QED BY <1>2, <2>1 DEF VotesType
<1> QED BY <1>1, <1>2 DEF insertVote

(* addTransaction enters the inputs of a transaction that conflicts with   *)
(* nothing in the pool.                                                    *)
LEMMA AddKeeps ==
    ASSUME PoolType, OutpointInv, VotesType, ChainType,
           NEW t \in Tx, addTransaction(t), t \notin InPool,
           ~ SpendsTicket(t) => Inputs[t] \cap DOMAIN outpoints = {}
    PROVE  /\ PoolType' /\ OutpointInv' /\ VotesType'
           /\ InPool' = InPool \cup {t}
<1>1. VotesType'
    BY InsertVote DEF addTransaction
<1>2. InPool' = InPool \cup {t}
    BY DEF addTransaction, InPool
<1>3. PoolType'
    <2>1. Len(chain) \in Nat \ {0}
        BY DEF ChainType
    <2>2. pool' = [u \in InPool \cup {t} |->
                   IF u # t THEN pool[u]
                   ELSE IF Type[t] = "regular" THEN 1 ELSE Len(chain)]
        BY DEF addTransaction
    <2>3. \A u \in InPool \cup {t} : pool'[u] \in Nat \ {0}
        BY <2>1, <2>2 DEF PoolType
    <2> QED BY <1>2, <2>2, <2>3 DEF PoolType
<1>4. /\ DOMAIN outpoints' = DOMAIN outpoints \cup Inputs[t]
      /\ \A o \in Inputs[t] : outpoints'[o] = t
      /\ \A o \in DOMAIN outpoints \ Inputs[t] : outpoints'[o] = outpoints[o]
    BY DEF addTransaction
<1>5. DOMAIN outpoints' \subseteq OutPoint
    BY <1>4, InputAssumption DEF OutpointInv
<1>6. ASSUME NEW o \in DOMAIN outpoints'
      PROVE  outpoints'[o] \in InPool' /\ o \in Inputs[outpoints'[o]]
    BY <1>2, <1>4 DEF OutpointInv, OutpointsIndexed
<1>7. ASSUME NEW u \in InPool', ~ SpendsTicket(u), NEW o \in Inputs[u]
      PROVE  o \in DOMAIN outpoints' /\ outpoints'[o] = u
    <2>1. CASE u = t
        BY <1>4, <2>1
    <2>2. CASE u # t
        <3>1. o \in DOMAIN outpoints /\ outpoints[o] = u /\ u \in Tx
            BY <1>2, <1>7, <2>2 DEF OutpointInv, OutpointsIndexed, PoolType
        <3>2. o \notin Inputs[t]
            BY <1>7, <3>1, InputAssumption, PoolAssumption DEF SpendsTicket
        <3> QED BY <1>4, <3>1, <3>2
    <2> QED BY <2>1, <2>2
<1>8. OutpointInv'
    BY <1>5, <1>6, <1>7 DEF OutpointInv, OutpointsIndexed, SpendsTicket
<1> QED BY <1>1, <1>2, <1>3, <1>8

(* removeTransaction takes out just the outpoints of what it removes,      *)
(* since a vote shares no input with the others.                           *)
LEMMA RemoveKeeps ==
    ASSUME PoolType, OutpointInv, NEW txs, removeTransaction(txs)
    PROVE  /\ PoolType' /\ OutpointInv'
           /\ InPool' = InPool \ txs
<1> DEFINE gone == txs \cap InPool
<1>1. pool' = [u \in InPool \ gone |-> pool[u]]
    BY DEF removeTransaction, Restrict
<1>2. InPool' = InPool \ txs
    BY <1>1 DEF InPool
<1>3. PoolType'
    BY <1>1, <1>2 DEF PoolType
<1>4. /\ DOMAIN outpoints' = DOMAIN outpoints \ UNION {Inputs[t] : t \in gone}
      /\ \A o \in DOMAIN outpoints' : outpoints'[o] = outpoints[o]
    BY DEF removeTransaction, Restrict
<1>5. ASSUME NEW o \in DOMAIN outpoints'
      PROVE  outpoints'[o] \in InPool' /\ o \in Inputs[outpoints'[o]]
    BY <1>2, <1>4 DEF OutpointInv, OutpointsIndexed
<1>6. ASSUME NEW u \in InPool', ~ SpendsTicket(u), NEW o \in Inputs[u]
      PROVE  o \in DOMAIN outpoints' /\ outpoints'[o] = u
    <2>1. u \in InPool /\ u \in Tx /\ o \in DOMAIN outpoints /\ outpoints[o] = u
        BY <1>2, <1>6 DEF OutpointInv, OutpointsIndexed, PoolType
    <2>2. ASSUME NEW t \in gone, o \in Inputs[t]
          PROVE  FALSE
        <3>1. t \in InPool /\ t \in Tx /\ t # u
            BY <1>2 DEF PoolType
        <3>2. ~ SpendsTicket(t)
            BY <1>6, <2>1, <2>2, <3>1, InputAssumption, PoolAssumption DEF SpendsTicket
        <3> QED BY <2>1, <2>2, <3>1, <3>2 DEF OutpointInv, OutpointsIndexed
    <2> QED BY <1>4, <2>1, <2>2
<1>7. OutpointInv'
    BY <1>4, <1>5, <1>6 DEF OutpointInv, OutpointsIndexed, SpendsTicket
<1> QED BY <1>2, <1>3, <1>7

(* removeOrphan takes an orphan out of every entry of the index.           *)
LEMMA RemoveOrphanKeeps ==
    ASSUME OrphanInv, NEW t, orphans' = orphans \ {t},
           orphansByPrev' = removeOrphan(orphansByPrev, t)
    PROVE  OrphanInv'
<1>1. IsFiniteSet(orphans')
    BY FS_Subset DEF OrphanInv
<1>2. Cardinality(orphans') <= Cardinality(orphans)
    BY FS_Subset DEF OrphanInv
<1>3. Cardinality(orphans') <= MaxOrphanTxs
    <2>1. Cardinality(orphans) \in Nat /\ Cardinality(orphans') \in Nat
        BY <1>1, FS_CardinalityType DEF OrphanInv
    <2> QED BY <1>2, <2>1, PoolAssumption DEF OrphanInv
<1>4. orphansByPrev' \in [AllTx -> SUBSET Tx]
    BY DEF OrphanInv, removeOrphan
<1>5. \A p \in AllTx : orphansByPrev'[p] = {u \in orphans' : p \in Parents(u)}
    BY DEF OrphanInv, removeOrphan
<1> QED BY <1>1, <1>3, <1>4, <1>5 DEF OrphanInv, Parents, RealInputs


(* addOrphan, with the eviction of limitNumOrphans, keeps the index and    *)
(* the limit.                                                              *)
LEMMA AddOrphanKeeps ==
    ASSUME OrphanInv, NEW t \in Tx, t \notin orphans, NEW e \in Evicted,
           orphans' = (orphans \ e) \cup {t},
           orphansByPrev' = addToIndex([p \in AllTx |-> orphansByPrev[p] \ e], t)
    PROVE  OrphanInv'
<1>0. /\ IsFiniteSet(orphans) /\ Cardinality(orphans) \in Nat
      /\ Cardinality(orphans) <= MaxOrphanTxs /\ MaxOrphanTxs \in Nat \ {0}
    BY FS_CardinalityType, PoolAssumption DEF OrphanInv
<1>1. IsFiniteSet(orphans \ e)
    BY <1>0, FS_Subset
<1>2. IsFiniteSet(orphans') /\ Cardinality(orphans') = Cardinality(orphans \ e) + 1
    BY <1>1, FS_AddElement
<1>3. Cardinality(orphans \ e) + 1 <= MaxOrphanTxs
    <2>1. CASE Cardinality(orphans) + 1 > MaxOrphanTxs
        <3>1. PICK o \in orphans : e = {o}
            BY <2>1 DEF Evicted
        <3>2. Cardinality(orphans \ {o}) = Cardinality(orphans) - 1
            BY <1>0, FS_RemoveElement
        <3> QED BY <1>0, <3>1, <3>2
    <2>2. CASE ~ (Cardinality(orphans) + 1 > MaxOrphanTxs)
        <3>1. e = {}
            BY <2>2 DEF Evicted
        <3>2. orphans \ e = orphans
            BY <3>1
        <3> QED BY <1>0, <2>2, <3>2
    <2> QED BY <2>1, <2>2
<1>4. Parents(t) \subseteq AllTx
    BY ParentsType
<1>5. /\ orphansByPrev' \in [AllTx -> SUBSET Tx]
      /\ \A p \in AllTx : orphansByPrev'[p] =
            (orphansByPrev[p] \ e) \cup (IF p \in Parents(t) THEN {t} ELSE {})
    BY DEF addToIndex, OrphanInv
<1>6. \A p \in AllTx : orphansByPrev'[p] = {u \in orphans' : p \in Parents(u)}
    BY <1>5 DEF OrphanInv
<1>7. orphans' \subseteq Tx
    BY DEF OrphanInv
<1> QED BY <1>2, <1>3, <1>5, <1>6, <1>7 DEF OrphanInv, Parents, RealInputs

-----------------------------------------------------------------------------
(* One lemma for every action.                                             *)

(* ProcessTransaction keeps the maps consistent.                           *)
LEMMA ProcessStep ==
    ASSUME PoolInv, NEW t \in Tx, NEW policy \in BOOLEAN, NEW allowOrphan \in BOOLEAN,
           ProcessTransaction(t, policy, allowOrphan)
    PROVE  PoolInv'
<1> DEFINE o == Outcome(t, orphans, policy)
<1>1. ChainType' /\ CallType'
    BY DEF ProcessTransaction, PoolInv, ChainType, CallType
<1>2. CASE o = "accepted"
    <2>1. /\ addTransaction(t) /\ walkFrom(t)
          /\ UNCHANGED <<orphans, orphansByPrev>>
        BY <1>2 DEF ProcessTransaction
    <2>2. /\ t \notin InPool /\ t \notin orphans
          /\ ~ SpendsTicket(t) => Inputs[t] \cap DOMAIN outpoints = {}
        BY <1>2, Accepted
    <2>3. PoolType' /\ OutpointInv' /\ VotesType' /\ InPool' = InPool \cup {t}
        BY <2>1, <2>2, AddKeeps DEF PoolInv
    <2>4. WalkType'
        BY <2>1 DEF WalkType, walkFrom
    <2>5. OrphanInv' /\ Apart'
        BY <2>1, <2>2, <2>3 DEF PoolInv, OrphanInv, Apart, Parents, RealInputs
    <2> QED BY <1>1, <2>3, <2>4, <2>5 DEF PoolInv
<1>3. CASE o # "accepted"
    <2>1. UNCHANGED <<pool, outpoints, votes, walk>>
        BY <1>3 DEF ProcessTransaction
    <2>2. /\ InPool' = InPool /\ PoolType' /\ OutpointInv' /\ VotesType'
          /\ WalkType'
        BY <2>1 DEF PoolInv, InPool, PoolType, OutpointInv, OutpointsIndexed,
                    VotesType, WalkType, SpendsTicket
    <2>3. CASE o = "orphan" /\ allowOrphan
        <3>1. t \notin InPool /\ t \notin orphans
            BY <2>3, Waits
        <3>2. PICK e \in Evicted :
                 /\ orphans' = (orphans \ e) \cup {t}
                 /\ orphansByPrev' =
                        addToIndex([p \in AllTx |-> orphansByPrev[p] \ e], t)
            BY <2>3 DEF ProcessTransaction
        <3>3. OrphanInv'
            BY <3>1, <3>2, AddOrphanKeeps DEF PoolInv
        <3>4. Apart'
            BY <2>2, <3>1, <3>2 DEF PoolInv, Apart
        <3> QED BY <1>1, <2>2, <3>3, <3>4 DEF PoolInv
    <2>4. CASE ~ (o = "orphan" /\ allowOrphan)
        <3>1. UNCHANGED <<orphans, orphansByPrev>>
            BY <2>4 DEF ProcessTransaction
        <3>2. OrphanInv' /\ Apart'
            BY <2>2, <3>1 DEF PoolInv, OrphanInv, Apart, Parents, RealInputs
        <3> QED BY <1>1, <2>2, <3>2 DEF PoolInv
    <2> QED BY <2>3, <2>4
<1> QED BY <1>2, <1>3

(* So does taking the next entry of the queue of processOrphans,           *)
LEMMA WalkNextStep ==
    ASSUME PoolInv, WalkNext
    PROVE  PoolInv'
<1>1. WalkType'
    <2>1. /\ walk.queue \in Seq(Tx) /\ walk.queue # <<>>
          /\ walk' = [queue |-> Tail(walk.queue),
                      todo |-> orphansByPrev[Head(walk.queue)]]
        BY DEF WalkNext, PoolInv, WalkType
    <2>2. Head(walk.queue) \in AllTx /\ Tail(walk.queue) \in Seq(Tx)
        BY <2>1 DEF AllTx
    <2>3. orphansByPrev[Head(walk.queue)] \subseteq Tx
        BY <2>2 DEF PoolInv, OrphanInv
    <2> QED BY <2>1, <2>2, <2>3 DEF WalkType
<1>2. UNCHANGED <<chain, pool, orphans, orphansByPrev, outpoints, votes, job>>
    BY DEF WalkNext
<1> QED BY <1>1, <1>2 DEF PoolInv, ChainType, CallType, VotesType, PoolType, InPool,
           OrphanInv, Parents, RealInputs, OutpointInv, OutpointsIndexed, SpendsTicket, Apart

(* and examining one of its orphans.                                       *)
LEMMA WalkOrphanStep ==
    ASSUME PoolInv, NEW t \in walk.todo, NEW policy \in BOOLEAN,
           WalkOrphan(t, policy)
    PROVE  PoolInv'
<1> DEFINE o == Outcome(t, orphans \ {t}, policy)
<1>0. t \in Tx
    BY DEF PoolInv, WalkType
<1>1. ChainType' /\ CallType'
    BY DEF WalkOrphan, PoolInv, ChainType, CallType
<1>2. WalkType'
    <2>1. walk' = [queue |-> IF o = "accepted" THEN Append(walk.queue, t)
                                               ELSE walk.queue,
                   todo |-> walk.todo \ {t}]
        BY DEF WalkOrphan, walkOn
    <2>2. /\ walk.queue \in Seq(Tx) /\ Append(walk.queue, t) \in Seq(Tx)
          /\ walk.todo \ {t} \subseteq Tx
        BY <1>0 DEF PoolInv, WalkType
    <2> HIDE DEF o
    <2> QED BY <2>1, <2>2 DEF WalkType
<1>3. CASE o = "accepted"
    <2>1. /\ addTransaction(t)
          /\ orphans' = orphans \ {t}
          /\ orphansByPrev' = removeOrphan(orphansByPrev, t)
        BY <1>3 DEF WalkOrphan
    <2>2. /\ t \notin InPool
          /\ ~ SpendsTicket(t) => Inputs[t] \cap DOMAIN outpoints = {}
        BY <1>0, <1>3, Accepted
    <2>3. PoolType' /\ OutpointInv' /\ VotesType' /\ InPool' = InPool \cup {t}
        BY <1>0, <2>1, <2>2, AddKeeps DEF PoolInv
    <2>4. OrphanInv'
        BY <2>1, RemoveOrphanKeeps DEF PoolInv
    <2>5. Apart'
        BY <2>1, <2>3 DEF PoolInv, Apart
    <2> QED BY <1>1, <1>2, <2>3, <2>4, <2>5 DEF PoolInv
<1>4. CASE o # "accepted"
    <2>1. UNCHANGED <<pool, outpoints, votes>>
        BY <1>4 DEF WalkOrphan
    <2>2. InPool' = InPool /\ PoolType' /\ OutpointInv' /\ VotesType'
        BY <2>1 DEF PoolInv, InPool, PoolType, OutpointInv, OutpointsIndexed,
                    VotesType, SpendsTicket
    <2>3. CASE o = "orphan"
        <3>1. UNCHANGED <<orphans, orphansByPrev>>
            BY <2>3 DEF WalkOrphan
        <3>2. OrphanInv' /\ Apart'
            BY <2>2, <3>1 DEF PoolInv, OrphanInv, Apart, Parents, RealInputs
        <3> QED BY <1>1, <1>2, <2>2, <3>2 DEF PoolInv
    <2>4. CASE o # "orphan"
        <3>1. /\ orphans' = orphans \ {t}
              /\ orphansByPrev' = removeOrphan(orphansByPrev, t)
            BY <2>4 DEF WalkOrphan
        <3>2. OrphanInv'
            BY <3>1, RemoveOrphanKeeps DEF PoolInv
        <3>3. Apart'
            BY <2>2, <3>1 DEF PoolInv, Apart
        <3> QED BY <1>1, <1>2, <2>2, <3>2, <3>3 DEF PoolInv
    <2> QED BY <2>3, <2>4
<1> QED BY <1>3, <1>4

(* The parts of the invariant that a step leaves alone with its variables. *)
LEMMA SameOrphans ==
    ASSUME OrphanInv, UNCHANGED <<orphans, orphansByPrev>>
    PROVE  OrphanInv'
BY DEF OrphanInv, Parents, RealInputs

(* As above, for the pool and its outpoints.                               *)
LEMMA SamePool ==
    ASSUME PoolType, OutpointInv, UNCHANGED <<pool, outpoints>>
    PROVE  PoolType' /\ OutpointInv' /\ InPool' = InPool
BY DEF InPool, PoolType, OutpointInv, OutpointsIndexed, SpendsTicket

(* A regular transaction, of the pool or of a block.                       *)
IsRegular(p) == p \in Tx /\ Type[p] = "regular"

(* The trees of a block: regular transactions in one, the others in the    *)
(* other.                                                                  *)
LEMMA TreeTypes ==
    ASSUME NEW b \in Block
    PROVE  /\ Regular[b] \in Seq(Tx) /\ Stake[b] \in Seq(Tx)
           /\ \A x \in ToSet(Regular[b]) : IsRegular(x)
           /\ \A x \in ToSet(Stake[b]) : x \in Tx /\ ~ IsRegular(x)
<1>1. /\ Regular[b] \in Seq({t \in Tx : Type[t] = "regular"})
      /\ Stake[b] \in Seq({t \in Tx : Type[t] # "regular"})
    BY PoolAssumption
<1>2. \A i \in DOMAIN Regular[b] : Regular[b][i] \in {t \in Tx : Type[t] = "regular"}
    BY <1>1
<1>3. \A i \in DOMAIN Stake[b] : Stake[b][i] \in {t \in Tx : Type[t] # "regular"}
    BY <1>1
<1>4. Regular[b] \in Seq(Tx)
    BY <1>1
<1>5. Stake[b] \in Seq(Tx)
    BY <1>1
<1> QED BY <1>2, <1>3, <1>4, <1>5 DEF ToSet, IsRegular

(* The calls for the transactions of a tree.                               *)
LEMMA CallsType ==
    ASSUME NEW op \in {"accept", "confirm"}, NEW txs \in Seq(Tx)
    PROVE  Calls(op, txs) \in Seq(Call)
<1>1. DOMAIN txs = 1..Len(txs) /\ Len(txs) \in Nat
    OBVIOUS
<1>2. \A i \in 1..Len(txs) : [op |-> op, tx |-> txs[i]] \in Call
    BY DEF Call
<1>3. Calls(op, txs) = [i \in 1..Len(txs) |-> [op |-> op, tx |-> txs[i]]]
    BY <1>1 DEF Calls
<1> QED BY <1>1, <1>2, <1>3

(* An invalidated tree is a tree.                                          *)
LEMMA InvalidatedType ==
    ASSUME NEW b
    PROVE  Invalidated(b) \in Seq(Tx)
<1>1. CASE b \notin Approves /\ Prev[b] \in KeyBlock
    BY <1>1, TreeTypes, PoolAssumption DEF Invalidated
<1>2. CASE ~ (b \notin Approves /\ Prev[b] \in KeyBlock)
    BY <1>2 DEF Invalidated
<1> QED BY <1>1, <1>2

(* NTBlockConnected leaves the maps alone and lists calls.                 *)
LEMMA ConnectedStep ==
    ASSUME PoolInv, NEW b \in Block, NEW last \in BOOLEAN, BlockConnected(b, last)
    PROVE  PoolInv'
<1>1. UNCHANGED <<pool, orphans, orphansByPrev, outpoints, votes, walk>>
    BY DEF BlockConnected
<1>2. OrphanInv' /\ PoolType' /\ OutpointInv' /\ InPool' = InPool
    BY <1>1, SameOrphans, SamePool DEF PoolInv
<1>3. VotesType' /\ WalkType' /\ Apart'
    BY <1>1, <1>2 DEF PoolInv, VotesType, WalkType, Apart
<1>4. ChainType'
    BY DEF BlockConnected, PoolInv, ChainType
<1>5. CallType'
    <2> DEFINE s1 == Calls("accept", Invalidated(b))
               s2 == Calls("confirm", Regular[b])
               s3 == Calls("confirm", Stake[b])
               s4 == IF last THEN <<[op |-> "prune"]>> ELSE <<>>
    <2>1. s1 \in Seq(Call) /\ s2 \in Seq(Call) /\ s3 \in Seq(Call)
        BY CallsType, InvalidatedType, TreeTypes
    <2>2. s4 \in Seq(Call)
        <3>1. [op |-> "prune"] \in Call
            BY DEF Call
        <3>2. <<[op |-> "prune"]>> \in Seq(Call)
            BY <3>1
        <3> QED BY <3>2
    <2>3. job' = s1 \o s2 \o s3 \o s4
        BY DEF BlockConnected
    <2> HIDE DEF s1, s2, s3, s4
    <2>4. s1 \o s2 \in Seq(Call)
        BY <2>1
    <2>5. s1 \o s2 \o s3 \in Seq(Call)
        BY <2>1, <2>4
    <2> QED BY <2>2, <2>3, <2>5 DEF CallType
<1> QED BY <1>2, <1>3, <1>4, <1>5 DEF PoolInv

(* NTBlockDisconnected leaves the maps alone and lists calls.              *)
LEMMA DisconnectedStep ==
    ASSUME PoolInv, BlockDisconnected
    PROVE  PoolInv'
<1>1. UNCHANGED <<pool, orphans, orphansByPrev, outpoints, votes, walk>>
    BY DEF BlockDisconnected
<1>2. OrphanInv' /\ PoolType' /\ OutpointInv' /\ InPool' = InPool
    BY <1>1, SameOrphans, SamePool DEF PoolInv
<1>3. VotesType' /\ WalkType' /\ Apart'
    BY <1>1, <1>2 DEF PoolInv, VotesType, WalkType, Apart
<1>4. chain \in Seq(Block) /\ Len(chain) > 1
    BY DEF BlockDisconnected, PoolInv, ChainType
<1>5. ChainType'
    <2>1. chain' = SubSeq(chain, 1, Len(chain) - 1)
        BY DEF BlockDisconnected, Front
    <2>2. chain' \in Seq(Block) /\ Len(chain') = Len(chain) - 1
        BY <1>4, <2>1
    <2> QED BY <1>4, <2>2 DEF ChainType
<1>6. CallType'
    <2>1. Tip \in Block
        BY <1>4 DEF Tip, Last
    <2> DEFINE s1 == Calls("confirm", Invalidated(Tip))
               s2 == Calls("accept", Regular[Tip])
               s3 == Calls("accept", Stake[Tip])
    <2>2. s1 \in Seq(Call) /\ s2 \in Seq(Call) /\ s3 \in Seq(Call)
        BY <2>1, CallsType, InvalidatedType, TreeTypes
    <2>3. job' = s1 \o s2 \o s3
        BY DEF BlockDisconnected
    <2> HIDE DEF s1, s2, s3
    <2>4. s1 \o s2 \in Seq(Call)
        BY <2>2
    <2> QED BY <2>2, <2>3, <2>4 DEF CallType
<1> QED BY <1>2, <1>3, <1>5, <1>6 DEF PoolInv

(* A call that accepts or confirms names a transaction.                    *)
LEMMA CalledType ==
    ASSUME PoolInv, NEW op \in {"accept", "confirm"}, Called(op)
    PROVE  Head(job).tx \in Tx /\ CallType'
<1>1. job \in Seq(Call) /\ job # <<>> /\ Head(job).op = op /\ job' = Tail(job)
    BY DEF Called, PoolInv, CallType
<1>2. Head(job) \in Call /\ Tail(job) \in Seq(Call)
    BY <1>1
<1>3. [op |-> "prune"].op = "prune"
    OBVIOUS
<1>4. Head(job) \in [op : {"accept", "confirm"}, tx : Tx]
    BY <1>1, <1>2, <1>3 DEF Call
<1> QED BY <1>1, <1>2, <1>4 DEF CallType

(* MaybeAcceptTransaction and the removal after it keep the maps           *)
(* consistent.                                                             *)
LEMMA PutBackStep ==
    ASSUME PoolInv, NEW policy \in BOOLEAN, PutBack(policy)
    PROVE  PoolInv'
<1> DEFINE t == Head(job).tx
           o == Outcome(t, orphans, policy)
<1>1. t \in Tx /\ CallType'
    BY CalledType DEF PutBack
<1>2. UNCHANGED <<chain, orphans, orphansByPrev, walk>>
    BY DEF PutBack
<1>3. ChainType' /\ WalkType' /\ OrphanInv'
    BY <1>2, SameOrphans DEF PoolInv, ChainType, WalkType
<1> HIDE DEF t
<1>4. CASE o = "accepted"
    <2>1. addTransaction(t)
        BY <1>4 DEF PutBack, t
    <2>2. /\ t \notin InPool /\ t \notin orphans
          /\ ~ SpendsTicket(t) => Inputs[t] \cap DOMAIN outpoints = {}
        BY <1>1, <1>4, Accepted
    <2>3. PoolType' /\ OutpointInv' /\ VotesType' /\ InPool' = InPool \cup {t}
        BY <1>1, <2>1, <2>2, AddKeeps DEF PoolInv
    <2>4. Apart'
        BY <1>2, <2>2, <2>3 DEF PoolInv, Apart
    <2> QED BY <1>1, <1>3, <2>3, <2>4 DEF PoolInv
<1>5. CASE o = "refused"
    <2>1. removeTransaction(WithRedeemers(t)) /\ UNCHANGED votes
        BY <1>5 DEF PutBack, t
    <2>2. PoolType' /\ OutpointInv' /\ InPool' = InPool \ WithRedeemers(t)
        BY <2>1, RemoveKeeps DEF PoolInv
    <2>3. VotesType' /\ Apart'
        BY <1>2, <2>1, <2>2 DEF PoolInv, VotesType, Apart
    <2> QED BY <1>1, <1>3, <2>2, <2>3 DEF PoolInv
<1>6. CASE o # "accepted" /\ o # "refused"
    <2>1. UNCHANGED <<pool, outpoints, votes>>
        BY <1>6 DEF PutBack, t
    <2>2. PoolType' /\ OutpointInv' /\ InPool' = InPool
        BY <2>1, SamePool DEF PoolInv
    <2>3. VotesType' /\ Apart'
        BY <1>2, <2>1, <2>2 DEF PoolInv, VotesType, Apart
    <2> QED BY <1>1, <1>3, <2>2, <2>3 DEF PoolInv
<1> QED BY <1>4, <1>5, <1>6

(* RemoveTransaction, RemoveDoubleSpends and RemoveOrphan keep the maps    *)
(* consistent.                                                             *)
LEMMA ConfirmStep ==
    ASSUME PoolInv, Confirm
    PROVE  PoolInv'
<1> DEFINE t == Head(job).tx
<1>1. t \in Tx /\ CallType'
    BY CalledType DEF Confirm
<1>2. /\ removeTransaction({t} \cup DoubleSpends(t))
      /\ orphans' = orphans \ {t}
      /\ orphansByPrev' = removeOrphan(orphansByPrev, t)
      /\ walk' = [queue |-> <<t>>, todo |-> {}]
      /\ UNCHANGED <<chain, votes>>
    BY DEF Confirm, walkFrom
<1> HIDE DEF t
<1>3. PoolType' /\ OutpointInv' /\ InPool' = InPool \ ({t} \cup DoubleSpends(t))
    BY <1>2, RemoveKeeps DEF PoolInv
<1>4. OrphanInv'
    BY <1>2, RemoveOrphanKeeps DEF PoolInv
<1>5. ChainType' /\ VotesType'
    BY <1>2 DEF PoolInv, ChainType, VotesType
<1>6. WalkType'
    BY <1>1, <1>2 DEF WalkType
<1>7. Apart'
    BY <1>2, <1>3 DEF PoolInv, Apart
<1> QED BY <1>1, <1>3, <1>4, <1>5, <1>6, <1>7 DEF PoolInv

(* PruneStakeTx and PruneExpiredTx keep the maps consistent.               *)
LEMMA PruneStep ==
    ASSUME PoolInv, Prune
    PROVE  PoolInv'
<1>1. UNCHANGED <<chain, orphans, orphansByPrev, votes, walk>>
    BY DEF Prune
<1>2. ChainType' /\ VotesType' /\ WalkType' /\ OrphanInv'
    BY <1>1, SameOrphans DEF PoolInv, ChainType, VotesType, WalkType
<1>3. \/ job' = Tail(job) /\ UNCHANGED <<pool, outpoints>>
      \/ job' = job /\ \E t \in InPool : removeTransaction(WithRedeemers(t))
    BY DEF Prune
<1>4. CASE job' = Tail(job) /\ UNCHANGED <<pool, outpoints>>
    <2>1. PoolType' /\ OutpointInv' /\ InPool' = InPool
        BY <1>4, SamePool DEF PoolInv
    <2>2. job \in Seq(Call) /\ job # <<>>
        BY DEF Prune, PoolInv, CallType
    <2>3. CallType' /\ Apart'
        BY <1>1, <1>4, <2>1, <2>2 DEF PoolInv, CallType, Apart
    <2> QED BY <1>2, <2>1, <2>3 DEF PoolInv
<1>5. ASSUME NEW t \in InPool, removeTransaction(WithRedeemers(t)), job' = job
      PROVE  PoolInv'
    <2>1. PoolType' /\ OutpointInv' /\ InPool' = InPool \ WithRedeemers(t)
        BY <1>5, RemoveKeeps DEF PoolInv
    <2>2. CallType' /\ Apart'
        BY <1>1, <1>5, <2>1 DEF PoolInv, CallType, Apart
    <2> QED BY <1>2, <2>1, <2>2 DEF PoolInv
<1> QED BY <1>3, <1>4, <1>5

(* A step that changes nothing keeps the invariant.                        *)
LEMMA PoolUnchanged ==
    ASSUME PoolInv, UNCHANGED vars
    PROVE  PoolInv'
<1>1. UNCHANGED <<chain, pool, orphans, orphansByPrev, outpoints, votes, job, walk>>
    BY DEF vars
<1>2. OrphanInv' /\ PoolType' /\ OutpointInv' /\ InPool' = InPool
    BY <1>1, SameOrphans, SamePool DEF PoolInv
<1> QED BY <1>1, <1>2 DEF PoolInv, ChainType, CallType, WalkType, VotesType, Apart

(* The maps of the pool agree, whatever the blocks and transactions are.   *)
THEOREM PoolInvariant == Spec => []PoolInv
<1>1. PoolInv /\ [Next]_vars => PoolInv'
    <2> SUFFICES ASSUME PoolInv, [Next]_vars PROVE PoolInv'
        OBVIOUS
    <2>1. CASE \E t \in Tx, policy, allowOrphan \in BOOLEAN :
                  ProcessTransaction(t, policy, allowOrphan)
        BY <2>1, ProcessStep
    <2>2. CASE \E b \in Block, last \in BOOLEAN : BlockConnected(b, last)
        BY <2>2, ConnectedStep
    <2>3. CASE BlockDisconnected
        BY <2>3, DisconnectedStep
    <2>4. CASE WalkNext
        BY <2>4, WalkNextStep
    <2>5. CASE \E t \in walk.todo, policy \in BOOLEAN : WalkOrphan(t, policy)
        BY <2>5, WalkOrphanStep
    <2>6. CASE \E policy \in BOOLEAN : PutBack(policy)
        BY <2>6, PutBackStep
    <2>7. CASE Confirm
        BY <2>7, ConfirmStep
    <2>8. CASE Prune
        BY <2>8, PruneStep
    <2>9. CASE UNCHANGED vars
        BY <2>9, PoolUnchanged
    <2> QED BY <2>1, <2>2, <2>3, <2>4, <2>5, <2>6, <2>7, <2>8, <2>9 DEF Next
<1> QED BY <1>1, PoolInit, PTL DEF Spec

(* Through every sequence of acceptance, eviction, confirmation,           *)
(* reorganization and pruning the maps of the memory pool agree, and no    *)
(* two regular transactions or tickets in it spend the same coin.          *)
THEOREM PoolIsConsistent == Spec => []PoolConsistent
BY PoolInvariant, PoolInvImplies, PTL

-----------------------------------------------------------------------------
(* What the chain holds.                                                   *)

(* A call for transaction x in a list of calls.                            *)
Has(calls, op, x) == \E i \in DOMAIN calls : calls[i].op = op /\ calls[i].tx = x

(* A transaction that a later call of the job confirms,                    *)
ToConfirm(x) == Has(job, "confirm", x)
(* or puts back.                                                           *)
ToAccept(x) == Has(job, "accept", x)

(* The transactions of the view with the tree of the tip.                  *)
ViewTx(c) == Applied(c) \cup ToSet(Regular[Last(c)])

(* What the transactions spend is made by them.                            *)
Closed(txs) == \A y \in txs : \A o \in RealInputs(y) : \E x \in txs : o \in Coins(x)

(* The chain c is linked and every block of it was connected.              *)
Linked(c) ==
    /\ c[1] = Base
    /\ \A n \in 2..Len(c) :
          /\ Prev[c[n]] = c[n-1]
          /\ Connects(SubSeq(c, 1, n-1), c[n])
    /\ \A n \in 1..Len(c) :
          /\ Closed(Applied(SubSeq(c, 1, n)))
          /\ Closed(ViewTx(SubSeq(c, 1, n)))

(* The main chain is linked.                                               *)
ChainInv == Linked(chain)

(* A coin names the transaction that makes it.                             *)
LEMMA CoinOf ==
    ASSUME NEW x, NEW o \in Coins(x)
    PROVE  o[1] = x
BY DEF Coins

(* A coin is unspent if one of the transactions makes it and none spends   *)
(* it.                                                                     *)
LEMMA UnspentElem ==
    ASSUME NEW txs, NEW o
    PROVE  o \in UnspentOf(txs) <=> /\ \E x \in txs : o \in Coins(x)
                                    /\ \A x \in txs : o \notin Inputs[x]
<1>1. o \in UNION {Coins(t) : t \in txs} <=> \E x \in txs : o \in Coins(x)
    OBVIOUS
<1>2. o \in UNION {Inputs[t] : t \in txs} <=> \E x \in txs : o \in Inputs[x]
    OBVIOUS
<1> DEFINE made == UNION {Coins(t) : t \in txs}
           spent == UNION {Inputs[t] : t \in txs}
<1>3. UnspentOf(txs) = made \ spent
    BY DEF UnspentOf
<1>4. o \in made <=> \E x \in txs : o \in Coins(x)
    BY <1>1
<1>5. o \in spent <=> \E x \in txs : o \in Inputs[x]
    BY <1>2
<1> HIDE DEF made, spent
<1> QED BY <1>3, <1>4, <1>5

(* FetchUtxoView with the tree of the tip.                                 *)
LEMMA ViewIs == FetchUtxoView(TRUE) = UnspentOf(ViewTx(chain))
BY DEF FetchUtxoView, ViewTx, Tip

(* The transactions that connectTransactions has applied.                  *)
LEMMA AppliedElem ==
    ASSUME NEW c \in Seq(Block), NEW x
    PROVE  x \in Applied(c) <=>
             \/ x \in BaseTx
             \/ \E i \in 1..Len(c) : x \in ToSet(Stake[c[i]])
             \/ \E i \in 1..Len(c) : i < Len(c) /\ x \in Approved(c[i], c[i+1])
BY DEF Applied

(* A chain with one more block.                                            *)
LEMMA AppendIs ==
    ASSUME NEW c \in Seq(Block), c # <<>>, NEW b \in Block
    PROVE  /\ Append(c, b) \in Seq(Block) /\ Len(Append(c, b)) = Len(c) + 1
           /\ \A i \in 1..Len(c) : Append(c, b)[i] = c[i]
           /\ Append(c, b)[Len(c) + 1] = b
           /\ Last(Append(c, b)) = b /\ Last(c) = c[Len(c)] /\ Last(c) \in Block
           /\ Len(c) \in Nat \ {0}
BY DEF Last

(* One more block applies its stake tree and the tree it approves,         *)
LEMMA AppliedAppend ==
    ASSUME NEW c \in Seq(Block), c # <<>>, NEW b \in Block
    PROVE  Applied(Append(c, b)) =
               Applied(c) \cup Approved(Last(c), b) \cup ToSet(Stake[b])
<1> DEFINE d == Append(c, b)
<1>1. /\ d \in Seq(Block) /\ Len(d) = Len(c) + 1
      /\ \A i \in 1..Len(c) : d[i] = c[i]
      /\ d[Len(c) + 1] = b
      /\ Last(c) = c[Len(c)]
      /\ Len(c) \in Nat \ {0}
    BY AppendIs
<1> HIDE DEF d
<1>2. ASSUME NEW x \in Applied(d)
      PROVE  x \in Applied(c) \cup Approved(Last(c), b) \cup ToSet(Stake[b])
    <2>1. CASE x \in BaseTx
        BY <2>1, AppliedElem
    <2>2. ASSUME NEW i \in 1..Len(d), x \in ToSet(Stake[d[i]])
          PROVE  x \in Applied(c) \cup ToSet(Stake[b])
        <3>1. CASE i \in 1..Len(c)
            <4>1. x \in ToSet(Stake[c[i]])
                BY <1>1, <2>2, <3>1
            <4> QED BY <3>1, <4>1, AppliedElem
        <3>2. CASE i = Len(c) + 1
            BY <1>1, <2>2, <3>2
        <3> QED BY <1>1, <3>1, <3>2
    <2>3. ASSUME NEW i \in 1..Len(d), i < Len(d), x \in Approved(d[i], d[i+1])
          PROVE  x \in Applied(c) \cup Approved(Last(c), b)
        <3>1. CASE i < Len(c)
            <4>1. i \in 1..Len(c) /\ i + 1 \in 1..Len(c)
                BY <1>1, <3>1
            <4>2. d[i] = c[i] /\ d[i+1] = c[i+1]
                BY <1>1, <4>1
            <4>3. x \in Approved(c[i], c[i+1])
                BY <2>3, <4>2
            <4> QED BY <3>1, <4>1, <4>3, AppliedElem
        <3>2. CASE i = Len(c)
            BY <1>1, <2>3, <3>2
        <3> QED BY <1>1, <2>3, <3>1, <3>2
    <2> QED BY <1>1, <2>1, <2>2, <2>3, AppliedElem
<1>3. ASSUME NEW x \in Applied(c)
      PROVE  x \in Applied(d)
    <2>1. CASE x \in BaseTx
        BY <1>1, <2>1, AppliedElem
    <2>2. ASSUME NEW i \in 1..Len(c), x \in ToSet(Stake[c[i]])
          PROVE  x \in Applied(d)
        <3>1. i \in 1..Len(d) /\ x \in ToSet(Stake[d[i]])
            BY <1>1, <2>2
        <3> QED BY <1>1, <3>1, AppliedElem
    <2>3. ASSUME NEW i \in 1..Len(c), i < Len(c), x \in Approved(c[i], c[i+1])
          PROVE  x \in Applied(d)
        <3>1. i \in 1..Len(d) /\ i < Len(d) /\ d[i] = c[i] /\ d[i+1] = c[i+1]
            BY <1>1, <2>3
        <3>2. x \in Approved(d[i], d[i+1])
            BY <2>3, <3>1
        <3> QED BY <1>1, <3>1, <3>2, AppliedElem
    <2> QED BY <2>1, <2>2, <2>3, AppliedElem
<1>4. ASSUME NEW x \in Approved(Last(c), b)
      PROVE  x \in Applied(d)
    <2>1. /\ Len(c) \in 1..Len(d) /\ Len(c) < Len(d)
          /\ d[Len(c)] = Last(c) /\ d[Len(c) + 1] = b
        BY <1>1
    <2>2. x \in Approved(d[Len(c)], d[Len(c) + 1])
        BY <2>1
    <2> QED BY <1>1, <2>1, <2>2, AppliedElem
<1>5. ASSUME NEW x \in ToSet(Stake[b])
      PROVE  x \in Applied(d)
    <2>1. Len(c) + 1 \in 1..Len(d) /\ x \in ToSet(Stake[d[Len(c) + 1]])
        BY <1>1
    <2> QED BY <1>1, <2>1, AppliedElem
<1>6. Applied(d) = Applied(c) \cup Approved(Last(c), b) \cup ToSet(Stake[b])
    BY <1>2, <1>3, <1>4, <1>5
<1> QED BY <1>6 DEF d

(* and with its own regular tree makes up the view.                        *)
LEMMA ViewAppend ==
    ASSUME NEW c \in Seq(Block), c # <<>>, NEW b \in Block
    PROVE  ViewTx(Append(c, b)) = Applied(c) \cup Approved(Last(c), b)
               \cup ToSet(Stake[b]) \cup ToSet(Regular[b])
BY AppliedAppend, AppendIs DEF ViewTx

(* The transactions that a block is connected to.                          *)
Before(c, b) == Applied(c) \cup Approved(Last(c), b)

(* A block is connected to transactions that have all they spend.          *)
LEMMA BeforeClosed ==
    ASSUME NEW c, NEW b, Closed(Applied(c)), Closed(ViewTx(c))
    PROVE  Closed(Before(c, b))
<1>1. Before(c, b) = Applied(c) \/ Before(c, b) = ViewTx(c)
    BY DEF Before, Approved, ViewTx
<1> QED BY <1>1

(* The transactions of a block that come before the ith one.               *)
StakeBefore(c, b, i) == Before(c, b) \cup {Stake[b][j] : j \in 1..(i-1)}
(* As above, for a transaction of the regular tree.                        *)
RegularBefore(c, b, i) ==
    Before(c, b) \cup ToSet(Stake[b]) \cup {Regular[b][j] : j \in 1..(i-1)}

(* What checkConnectBlock has seen of a stake transaction,                 *)
LEMMA ConnectsStake ==
    ASSUME NEW c \in Seq(Block), NEW b \in Block, Connects(c, b),
           NEW i \in DOMAIN Stake[b]
    PROVE  /\ Stake[b][i] \notin StakeBefore(c, b, i)
           /\ \A o \in RealInputs(Stake[b][i]) :
                \E x \in StakeBefore(c, b, i) : o \in Coins(x)
<1> DEFINE s == Stake[b]
           r == Regular[b]
           earlier == {(s \o r)[j] : j \in 1..(i-1)}
<1>1. s \in Seq(Tx) /\ r \in Seq(Tx) /\ i \in DOMAIN s
    BY TreeTypes
<1>2. i \in DOMAIN (s \o r) =>
         /\ (s \o r)[i] \notin AppliedBefore(c, b, i)
         /\ RealInputs((s \o r)[i]) \subseteq UnspentOf(AppliedBefore(c, b, i))
    BY DEF Connects, Order
<1>9. AppliedBefore(c, b, i) = Applied(c) \cup Approved(Last(c), b) \cup earlier
    BY DEF AppliedBefore, Order
<1>3. StakeBefore(c, b, i) = Before(c, b) \cup {s[j] : j \in 1..(i-1)}
    BY DEF StakeBefore
<1> HIDE DEF s, r
<1>4. /\ i \in DOMAIN (s \o r) /\ i \in 1..Len(s) /\ Len(s) \in Nat
      /\ (s \o r)[i] = s[i]
      /\ \A j \in 1..Len(s) : (s \o r)[j] = s[j]
    BY <1>1
<1>5. \A j \in 1..(i-1) : (s \o r)[j] = s[j]
    BY <1>4
<1>6. earlier = {s[j] : j \in 1..(i-1)}
    BY <1>5
<1> HIDE DEF earlier
<1>7. Applied(c) \cup Approved(Last(c), b) \cup earlier = StakeBefore(c, b, i)
    BY <1>3, <1>6 DEF Before
<1>8. s[i] \notin StakeBefore(c, b, i)
      /\ RealInputs(s[i]) \subseteq UnspentOf(StakeBefore(c, b, i))
    BY <1>2, <1>4, <1>7, <1>9
<1> QED BY <1>8, UnspentElem DEF s

(* and of a regular one.                                                   *)
LEMMA ConnectsRegular ==
    ASSUME NEW c \in Seq(Block), NEW b \in Block, Connects(c, b),
           NEW i \in DOMAIN Regular[b]
    PROVE  /\ Regular[b][i] \notin RegularBefore(c, b, i)
           /\ \A o \in RealInputs(Regular[b][i]) :
                \E x \in RegularBefore(c, b, i) : o \in Coins(x)
<1> DEFINE s == Stake[b]
           r == Regular[b]
           n == Len(s)
           k == n + i
           earlier == {(s \o r)[j] : j \in 1..(k - 1)}
           first == {r[j] : j \in 1..(i-1)}
<1>1. s \in Seq(Tx) /\ r \in Seq(Tx) /\ i \in DOMAIN r
    BY TreeTypes
<1>2. k \in DOMAIN (s \o r) =>
         /\ (s \o r)[k] \notin AppliedBefore(c, b, k)
         /\ RealInputs((s \o r)[k]) \subseteq UnspentOf(AppliedBefore(c, b, k))
    BY DEF Connects, Order
<1>10. k = n + i
    OBVIOUS
<1> HIDE DEF k
<1>9. AppliedBefore(c, b, k) = Applied(c) \cup Approved(Last(c), b) \cup earlier
    BY DEF AppliedBefore, Order
<1>3. RegularBefore(c, b, i) = Before(c, b) \cup ToSet(s) \cup first
    BY DEF RegularBefore
<1> HIDE DEF s, r
<1>4. /\ k \in DOMAIN (s \o r) /\ n \in Nat /\ i \in 1..Len(r)
      /\ Len(r) \in Nat
      /\ DOMAIN s = 1..n
      /\ \A j \in 1..n : (s \o r)[j] = s[j]
      /\ \A j \in 1..Len(r) : (s \o r)[n + j] = r[j]
    BY <1>1, <1>10
<1> HIDE DEF n
<1>5. ASSUME NEW x
      PROVE  x \in earlier <=> x \in ToSet(s) \cup first
    <2>1. ASSUME NEW j \in 1..(k - 1), x = (s \o r)[j]
          PROVE  x \in ToSet(s) \cup first
        <3>1. CASE j <= n
            BY <1>4, <2>1, <3>1 DEF ToSet
        <3>2. CASE j > n
            <4>1. j - n \in 1..(i-1) /\ j - n \in 1..Len(r) /\ j = n + (j - n)
                BY <1>4, <1>10, <3>2
            <4>2. x = r[j - n]
                BY <1>4, <2>1, <4>1
            <4> QED BY <4>1, <4>2
        <3> QED BY <1>4, <1>10, <3>1, <3>2
    <2>2. ASSUME x \in ToSet(s)
          PROVE  x \in earlier
        <3>1. PICK j \in 1..n : x = s[j]
            BY <1>4, <2>2 DEF ToSet
        <3>2. j \in 1..(k - 1) /\ x = (s \o r)[j]
            BY <1>4, <1>10, <3>1
        <3> QED BY <3>2
    <2>3. ASSUME NEW m \in 1..(i-1), x = r[m]
          PROVE  x \in earlier
        <3>1. m \in 1..Len(r) /\ n + m \in 1..(k - 1)
            BY <1>4, <1>10
        <3>2. x = (s \o r)[n + m]
            BY <1>4, <2>3, <3>1
        <3> QED BY <3>1, <3>2
    <2> QED BY <2>1, <2>2, <2>3
<1> HIDE DEF earlier, first
<1>6. Applied(c) \cup Approved(Last(c), b) \cup earlier = RegularBefore(c, b, i)
    BY <1>3, <1>5 DEF Before
<1>7. (s \o r)[k] = r[i]
    BY <1>4, <1>10
<1>8. r[i] \notin RegularBefore(c, b, i)
      /\ RealInputs(r[i]) \subseteq UnspentOf(RegularBefore(c, b, i))
    BY <1>2, <1>4, <1>6, <1>7, <1>9
<1> QED BY <1>8, UnspentElem DEF r

(* A parent makes one of the inputs.                                       *)
LEMMA ParentOf ==
    ASSUME NEW y, NEW p \in Parents(y)
    PROVE  \E o \in RealInputs(y) : o[1] = p
BY DEF Parents

(* What connecting a block shows about its transactions.                   *)
LEMMA ConnectsOrder ==
    ASSUME NEW c \in Seq(Block), c # <<>>, NEW b \in Block, Connects(c, b),
           Closed(Applied(c)), Closed(ViewTx(c))
    PROVE  /\ \A y \in ViewTx(Append(c, b)) : \A o \in RealInputs(y) :
                 o[1] \in ToSet(Regular[b]) => y \in ToSet(Regular[b])
           /\ \A i, j \in DOMAIN Regular[b] :
                 i <= j => Regular[b][j] \notin Parents(Regular[b][i])
           /\ Closed(Applied(Append(c, b))) /\ Closed(ViewTx(Append(c, b)))
<1>0. /\ Applied(Append(c, b)) = Before(c, b) \cup ToSet(Stake[b])
      /\ ViewTx(Append(c, b)) = Before(c, b) \cup ToSet(Stake[b]) \cup ToSet(Regular[b])
    BY AppliedAppend, ViewAppend DEF Before
<1>1. Closed(Before(c, b))
    BY BeforeClosed
<1>2. ASSUME NEW y \in ToSet(Stake[b]), NEW o \in RealInputs(y)
      PROVE  \E x \in Before(c, b) \cup ToSet(Stake[b]) : o \in Coins(x)
    <2>1. PICK i \in DOMAIN Stake[b] : y = Stake[b][i]
        BY DEF ToSet
    <2>2. PICK x \in StakeBefore(c, b, i) : o \in Coins(x)
        BY <2>1, ConnectsStake
    <2>3. StakeBefore(c, b, i) \subseteq Before(c, b) \cup ToSet(Stake[b])
        <3>1. Stake[b] \in Seq(Tx)
            BY TreeTypes
        <3>2. \A j \in 1..(i-1) : j \in DOMAIN Stake[b]
            BY <3>1
        <3> QED BY <3>2 DEF StakeBefore, ToSet
    <2> QED BY <2>2, <2>3
<1>3. ASSUME NEW i \in DOMAIN Regular[b]
      PROVE  RegularBefore(c, b, i) \subseteq ViewTx(Append(c, b))
    <2>1. Regular[b] \in Seq(Tx)
        BY TreeTypes
    <2>2. \A j \in 1..(i-1) : j \in DOMAIN Regular[b]
        BY <2>1
    <2> QED BY <1>0, <2>2 DEF RegularBefore, ToSet
<1>4. Closed(Applied(Append(c, b)))
    BY <1>0, <1>1, <1>2 DEF Closed
<1>5. Closed(ViewTx(Append(c, b)))
    <2>1. ASSUME NEW y \in ToSet(Regular[b]), NEW o \in RealInputs(y)
          PROVE  \E x \in ViewTx(Append(c, b)) : o \in Coins(x)
        <3>1. PICK i \in DOMAIN Regular[b] : y = Regular[b][i]
            BY DEF ToSet
        <3>2. PICK x \in RegularBefore(c, b, i) : o \in Coins(x)
            BY <3>1, ConnectsRegular
        <3> QED BY <1>3, <3>2
    <2> QED BY <1>0, <1>4, <2>1 DEF Closed
<1>6. ASSUME NEW x \in ToSet(Regular[b])
      PROVE  x \notin Before(c, b) \cup ToSet(Stake[b])
    <2>1. PICK i \in DOMAIN Regular[b] : x = Regular[b][i]
        BY DEF ToSet
    <2>2. x \notin RegularBefore(c, b, i)
        BY <2>1, ConnectsRegular
    <2> QED BY <2>2 DEF RegularBefore
<1>7. ASSUME NEW y \in Before(c, b) \cup ToSet(Stake[b]), NEW o \in RealInputs(y)
      PROVE  o[1] \notin ToSet(Regular[b])
    <2>1. PICK x \in Before(c, b) \cup ToSet(Stake[b]) : o \in Coins(x)
        BY <1>1, <1>2 DEF Closed
    <2> QED BY <1>6, <2>1, CoinOf
<1>8. ASSUME NEW i \in DOMAIN Regular[b], NEW j \in DOMAIN Regular[b], i <= j
      PROVE  Regular[b][j] \notin Parents(Regular[b][i])
    <2>1. RegularBefore(c, b, i) \subseteq RegularBefore(c, b, j)
        <3>1. i \in Nat /\ j \in Nat
            <4>1. Regular[b] \in Seq(Tx)
                BY TreeTypes
            <4> QED BY <4>1
        <3>2. \A k \in 1..(i-1) : k \in 1..(j-1)
            BY <1>8, <3>1
        <3> QED BY <3>2 DEF RegularBefore
    <2>2. SUFFICES ASSUME Regular[b][j] \in Parents(Regular[b][i]) PROVE FALSE
        OBVIOUS
    <2>3. PICK o \in RealInputs(Regular[b][i]) : o[1] = Regular[b][j]
        BY <2>2, ParentOf
    <2>4. PICK x \in RegularBefore(c, b, i) : o \in Coins(x)
        BY ConnectsRegular
    <2>5. x = Regular[b][j]
        BY <2>3, <2>4, CoinOf
    <2> QED BY <2>1, <2>4, <2>5, ConnectsRegular
<1> QED BY <1>0, <1>4, <1>5, <1>7, <1>8

-----------------------------------------------------------------------------
(* Lists of calls.                                                         *)

(* The calls of a list made of two.                                        *)
LEMMA HasConcat ==
    ASSUME NEW s \in Seq(Call), NEW t \in Seq(Call), NEW op, NEW x
    PROVE  Has(s \o t, op, x) <=> Has(s, op, x) \/ Has(t, op, x)
<1>1. /\ Len(s) \in Nat /\ Len(t) \in Nat
      /\ DOMAIN s = 1..Len(s) /\ DOMAIN t = 1..Len(t)
      /\ DOMAIN (s \o t) = 1..(Len(s) + Len(t))
      /\ \A i \in 1..Len(s) : (s \o t)[i] = s[i]
      /\ \A i \in 1..Len(t) : (s \o t)[Len(s) + i] = t[i]
    OBVIOUS
<1>2. ASSUME NEW i \in DOMAIN (s \o t), (s \o t)[i].op = op, (s \o t)[i].tx = x
      PROVE  Has(s, op, x) \/ Has(t, op, x)
    <2>1. CASE i <= Len(s)
        <3>1. i \in DOMAIN s /\ (s \o t)[i] = s[i]
            BY <1>1, <2>1
        <3> QED BY <1>2, <3>1 DEF Has
    <2>2. CASE i > Len(s)
        <3>1. i - Len(s) \in DOMAIN t /\ i = Len(s) + (i - Len(s))
            BY <1>1, <2>2
        <3>2. (s \o t)[i] = t[i - Len(s)]
            BY <1>1, <3>1
        <3> QED BY <1>2, <3>1, <3>2 DEF Has
    <2> QED BY <1>1, <2>1, <2>2
<1>3. ASSUME NEW i \in DOMAIN s, s[i].op = op, s[i].tx = x
      PROVE  Has(s \o t, op, x)
    <2>1. i \in DOMAIN (s \o t) /\ (s \o t)[i] = s[i]
        BY <1>1
    <2> QED BY <1>3, <2>1 DEF Has
<1>4. ASSUME NEW i \in DOMAIN t, t[i].op = op, t[i].tx = x
      PROVE  Has(s \o t, op, x)
    <2>1. Len(s) + i \in DOMAIN (s \o t) /\ (s \o t)[Len(s) + i] = t[i]
        BY <1>1
    <2> QED BY <1>4, <2>1 DEF Has
<1> QED BY <1>2, <1>3, <1>4 DEF Has

(* The calls for the transactions of a tree.                               *)
LEMMA HasCalls ==
    ASSUME NEW txs \in Seq(Tx), NEW op, NEW kind, NEW x
    PROVE  Has(Calls(kind, txs), op, x) <=> op = kind /\ x \in ToSet(txs)
BY DEF Has, Calls, ToSet

(* The calls that are left after the first.                                *)
LEMMA HasTail ==
    ASSUME NEW s \in Seq(Call), s # <<>>, NEW op, NEW x
    PROVE  /\ Has(Tail(s), op, x) => Has(s, op, x)
           /\ Has(s, op, x) => \/ Has(Tail(s), op, x)
                               \/ Head(s).op = op /\ Head(s).tx = x
<1>1. /\ Len(s) \in Nat \ {0} /\ DOMAIN s = 1..Len(s) /\ Head(s) = s[1]
      /\ DOMAIN Tail(s) = 1..(Len(s) - 1)
      /\ \A i \in 1..(Len(s) - 1) : Tail(s)[i] = s[i + 1]
    OBVIOUS
<1>2. ASSUME NEW i \in DOMAIN Tail(s), Tail(s)[i].op = op, Tail(s)[i].tx = x
      PROVE  Has(s, op, x)
    <2>1. i + 1 \in DOMAIN s /\ Tail(s)[i] = s[i + 1]
        BY <1>1
    <2> QED BY <1>2, <2>1 DEF Has
<1>3. ASSUME NEW i \in DOMAIN s, s[i].op = op, s[i].tx = x, i # 1
      PROVE  Has(Tail(s), op, x)
    <2>1. i - 1 \in DOMAIN Tail(s) /\ Tail(s)[i - 1] = s[i]
        BY <1>1, <1>3
    <2> QED BY <1>3, <2>1 DEF Has
<1>4. ASSUME Has(s, op, x)
      PROVE  Has(Tail(s), op, x) \/ (Head(s).op = op /\ Head(s).tx = x)
    <2>1. PICK i \in DOMAIN s : s[i].op = op /\ s[i].tx = x
        BY <1>4 DEF Has
    <2>2. CASE i = 1
        BY <1>1, <2>1, <2>2
    <2>3. CASE i # 1
        BY <1>3, <2>1, <2>3
    <2> QED BY <2>2, <2>3
<1> QED BY <1>2, <1>4 DEF Has

(* An empty list has no calls.                                             *)
LEMMA HasNothing ==
    ASSUME NEW op, NEW x
    PROVE  ~ Has(<<>>, op, x)
BY DEF Has

(* The call that prunes names no transaction.                              *)
LEMMA HasPrune ==
    ASSUME NEW op \in {"accept", "confirm"}, NEW x
    PROVE  ~ Has(<<[op |-> "prune"]>>, op, x)
<1>1. \A i \in DOMAIN <<[op |-> "prune"]>> : <<[op |-> "prune"]>>[i].op = "prune"
    OBVIOUS
<1> QED BY <1>1 DEF Has

(* No regular transaction is confirmed after one that spends it.           *)
Ordered(s) ==
    \A i, j \in DOMAIN s :
        /\ i <= j /\ s[i].op = "confirm" /\ s[j].op = "confirm"
        /\ IsRegular(s[j].tx)
        => s[j].tx \notin Parents(s[i].tx)

(* A list made of two is in order if nothing in the first spends what the  *)
(* second confirms.                                                        *)
LEMMA OrderedConcat ==
    ASSUME NEW s \in Seq(Call), NEW t \in Seq(Call), Ordered(s), Ordered(t),
           \A x, y \in Tx : /\ Has(s, "confirm", x) /\ Has(t, "confirm", y)
                            /\ IsRegular(y)
                            => y \notin Parents(x)
    PROVE  Ordered(s \o t)
<1> DEFINE u == s \o t
<1>1. /\ Len(s) \in Nat /\ Len(t) \in Nat
      /\ DOMAIN s = 1..Len(s) /\ DOMAIN t = 1..Len(t)
      /\ DOMAIN u = 1..(Len(s) + Len(t))
      /\ \A i \in 1..Len(s) : u[i] = s[i]
      /\ \A i \in 1..Len(t) : u[Len(s) + i] = t[i]
    OBVIOUS
<1> HIDE DEF u
<1>2. SUFFICES ASSUME NEW i \in DOMAIN u, NEW j \in DOMAIN u, i <= j,
                      u[i].op = "confirm", u[j].op = "confirm", IsRegular(u[j].tx)
               PROVE  u[j].tx \notin Parents(u[i].tx)
    BY DEF Ordered, u
<1>3. CASE j <= Len(s)
    <2>1. i \in DOMAIN s /\ j \in DOMAIN s /\ u[i] = s[i] /\ u[j] = s[j]
        BY <1>1, <1>2, <1>3
    <2> QED BY <1>2, <2>1 DEF Ordered
<1>4. CASE i > Len(s)
    <2>1. /\ i - Len(s) \in DOMAIN t /\ i = Len(s) + (i - Len(s))
          /\ j - Len(s) \in DOMAIN t /\ j = Len(s) + (j - Len(s))
          /\ i - Len(s) <= j - Len(s)
        BY <1>1, <1>2, <1>4
    <2>2. u[i] = t[i - Len(s)] /\ u[j] = t[j - Len(s)]
        BY <1>1, <2>1
    <2> QED BY <1>2, <2>1, <2>2 DEF Ordered
<1>5. CASE i <= Len(s) /\ j > Len(s)
    <2>1. /\ i \in DOMAIN s /\ u[i] = s[i]
          /\ j - Len(s) \in DOMAIN t /\ j = Len(s) + (j - Len(s))
        BY <1>1, <1>5
    <2>2. u[j] = t[j - Len(s)]
        BY <1>1, <2>1
    <2>3. s[i] \in Call /\ s[i].op = "confirm"
        BY <1>2, <2>1
    <2>4. [op |-> "prune"].op = "prune"
        OBVIOUS
    <2>5. s[i].tx \in Tx
        BY <2>3, <2>4 DEF Call
    <2>6. Has(s, "confirm", s[i].tx)
        BY <2>1, <2>3 DEF Has
    <2>7. Has(t, "confirm", t[j - Len(s)].tx)
        BY <1>2, <2>1, <2>2 DEF Has
    <2>8. u[j].tx \in Tx
        BY <1>2 DEF IsRegular
    <2> QED BY <1>2, <2>1, <2>2, <2>5, <2>6, <2>7, <2>8
<1> QED BY <1>1, <1>3, <1>4, <1>5

(* The rest of a list is in order.                                         *)
LEMMA OrderedTail ==
    ASSUME NEW s \in Seq(Call), s # <<>>, Ordered(s)
    PROVE  Ordered(Tail(s))
<1>1. /\ Len(s) \in Nat \ {0} /\ DOMAIN s = 1..Len(s)
      /\ DOMAIN Tail(s) = 1..(Len(s) - 1)
      /\ \A i \in 1..(Len(s) - 1) : Tail(s)[i] = s[i + 1]
    OBVIOUS
<1>2. SUFFICES ASSUME NEW i \in DOMAIN Tail(s), NEW j \in DOMAIN Tail(s), i <= j,
                      Tail(s)[i].op = "confirm", Tail(s)[j].op = "confirm",
                      IsRegular(Tail(s)[j].tx)
               PROVE  Tail(s)[j].tx \notin Parents(Tail(s)[i].tx)
    BY DEF Ordered
<1>3. /\ i + 1 \in DOMAIN s /\ j + 1 \in DOMAIN s /\ i + 1 <= j + 1
      /\ Tail(s)[i] = s[i + 1] /\ Tail(s)[j] = s[j + 1]
    BY <1>1, <1>2
<1> QED BY <1>2, <1>3 DEF Ordered

(* A list that confirms nothing is in order.                               *)
LEMMA OrderedNoConfirm ==
    ASSUME NEW s, \A i \in DOMAIN s : s[i].op # "confirm"
    PROVE  Ordered(s)
BY DEF Ordered

(* A regular tree in which no transaction comes before its parents is      *)
(* confirmed in order.                                                     *)
LEMMA OrderedRegular ==
    ASSUME NEW b \in Block,
           \A i, j \in DOMAIN Regular[b] :
               i <= j => Regular[b][j] \notin Parents(Regular[b][i])
    PROVE  Ordered(Calls("confirm", Regular[b]))
BY DEF Ordered, Calls

(* Stake transactions are not regular.                                     *)
LEMMA OrderedStake ==
    ASSUME NEW b \in Block
    PROVE  Ordered(Calls("confirm", Stake[b]))
<1>1. \A i \in DOMAIN Stake[b] : ~ IsRegular(Stake[b][i])
    BY TreeTypes DEF ToSet
<1> QED BY <1>1 DEF Ordered, Calls

-----------------------------------------------------------------------------
(* The coins that the transactions of the pool spend.                      *)

(* The regular transactions that have still to be confirmed come before    *)
(* all that spend them.                                                    *)
OrderInv ==
    /\ \A x \in Tx : ToConfirm(x) => x \in ViewTx(chain)
    /\ \A y \in ViewTx(chain) : \A o \in RealInputs(y) :
          IsRegular(o[1]) /\ ToConfirm(o[1]) => ToConfirm(y)
    /\ Ordered(job)

(* A coin that is there, or whose maker or spender is still to be dealt    *)
(* with.                                                                   *)
Backed(o) ==
    \/ o \in FetchUtxoView(TRUE)
    \/ o[1] \in InPool
    \/ o[1] \in lost
    \/ ToAccept(o[1])
    \/ \E y \in Tx : ToConfirm(y) /\ o \in Inputs[y]

(* Whatever spends the coin in the chain is still to be confirmed.         *)
SpentLater(o) == \A y \in ViewTx(chain) : o \in Inputs[y] => ToConfirm(y)

(* What holds of the coins that a transaction of the pool spends.  A       *)
(* regular parent in the pool may have been spent by the chain before.     *)
Good(o) == Backed(o) /\ (~ IsRegular(o[1]) => SpentLater(o))

(* Every coin that a regular transaction or a ticket of the pool spends    *)
(* is good, unless the transaction was examined against the votes.         *)
BackedInv ==
    \A t \in InPool : ~ SpendsTicket(t) =>
        \A o \in Inputs[t] : o \in Coins(o[1]) /\ (t \notin doubted => Good(o))

(* A parent that neither the chain nor the pool has.                       *)
Missing(p) == ~ EntryIn(FetchUtxoView(TRUE), p) /\ p \notin InPool

(* An orphan waits for a parent that is missing or still to be dealt with. *)
WaitsFor(p) == p \in ToSet(walk.queue) \/ ToConfirm(p) \/ Missing(p)

(* Each orphan is about to be examined or waits for a parent.              *)
WaitInv ==
    /\ walk.todo \subseteq orphans
    /\ \A t \in orphans \ doubted :
          t \in walk.todo \/ \E p \in Parents(t) : WaitsFor(p)

(* The inductive invariant for what the transactions spend.                *)
SpendInv == PoolInv /\ ChainInv /\ OrderInv /\ BackedInv /\ WaitInv

(* What the history variables keep.                                        *)
LEMMA RememberIs ==
    ASSUME NEW n, NEW e, NEW w, Remember(n, e, w)
    PROVE  /\ \A t \in InPool' : \A p \in Parents(t) : p \in lost \cup n => p \in lost'
           /\ \A t \in InPool' \cup orphans' : t \notin doubted' =>
                 /\ t \notin w
                 /\ t \in e => isTxTreeValid
                 /\ t \notin e => t \notin doubted
<1>1. ASSUME NEW t \in InPool', NEW p \in Parents(t), p \in lost \cup n
      PROVE  p \in lost'
    BY <1>1 DEF Remember, InPool
<1>2. ASSUME NEW t \in InPool' \cup orphans', t \notin doubted'
      PROVE  t \notin w /\ (t \in e => isTxTreeValid) /\ (t \notin e => t \notin doubted)
    BY <1>2 DEF Remember, InPool
<1> QED BY <1>1, <1>2

(* The view depends on the chain alone.                                    *)
LEMMA SameView ==
    ASSUME UNCHANGED chain
    PROVE  /\ ViewTx(chain') = ViewTx(chain) /\ FetchUtxoView(TRUE)' = FetchUtxoView(TRUE)
BY DEF FetchUtxoView, Tip

(* An accepted transaction spends coins of the view or of the pool.        *)
LEMMA AcceptedSpends ==
    ASSUME NEW t \in Tx, NEW others, NEW policy,
           Outcome(t, others, policy) = "accepted", ~ SpendsTicket(t), NEW o \in Inputs[t]
    PROVE  /\ o \in Coins(o[1])
           /\ isTxTreeValid => \/ o \in FetchUtxoView(TRUE)
                               \/ IsRegular(o[1]) /\ o[1] \in InPool
<1> DEFINE coins == FetchUtxoView(isTxTreeValid)
<1>1. o \in RealInputs(t) /\ o \in OutPoint /\ o # StakeBase
    BY InputAssumption DEF RealInputs, SpendsTicket
<1>2. o[1] \in Parents(t)
    BY <1>1 DEF Parents
<1>3. EntryIn(coins, o[1]) \/ o[1] \in InPool
    BY <1>2 DEF Outcome
<1>4. \/ o \in coins
      \/ /\ ~ EntryIn(coins, o[1])
         /\ IsRegular(o[1]) /\ o[2] \in Outputs[o[1]]
    BY <1>1 DEF Outcome, Admitted, IsRegular
<1>5. o \in Coins(o[1])
    <2>1. CASE o \in coins
        <3>1. PICK txs : coins = UnspentOf(txs)
            BY DEF FetchUtxoView
        <3>2. PICK x \in txs : o \in Coins(x)
            BY <2>1, <3>1, UnspentElem
        <3> QED BY <3>2, CoinOf
    <2>2. CASE o[2] \in Outputs[o[1]]
        <3>1. o = <<o[1], o[2]>>
            BY <1>1 DEF OutPoint
        <3> QED BY <2>2, <3>1 DEF Coins
    <2> QED BY <1>4, <2>1, <2>2
<1>6. isTxTreeValid => coins = FetchUtxoView(TRUE)
    BY DEF FetchUtxoView
<1> QED BY <1>3, <1>4, <1>5, <1>6

-----------------------------------------------------------------------------
(* Removal reaches whatever spends what is removed.                        *)

(* A set of transactions with whatever in the pool spends their outputs.   *)
TakesRedeemers(txs) ==
    \A u \in txs : \A o \in Coins(u) : o \in DOMAIN outpoints => outpoints[o] \in txs

(* The same with the redeemers as a set.                                   *)
LEMMA RedeemersElem ==
    ASSUME NEW txs
    PROVE  Redeemers(txs) \subseteq txs <=> TakesRedeemers(txs)
BY DEF Redeemers, TakesRedeemers

(* removeTransaction with removeRedeemers takes the redeemers of what it   *)
(* takes.                                                                  *)
LEMMA WithRedeemersIs ==
    ASSUME OutpointInv, NEW t
    PROVE  t \in WithRedeemers(t) /\ TakesRedeemers(WithRedeemers(t))
<1>1. t \in WithRedeemers(t)
    BY DEF WithRedeemers
<1>2. ASSUME NEW u \in WithRedeemers(t), NEW o \in Coins(u), o \in DOMAIN outpoints
      PROVE  outpoints[o] \in WithRedeemers(t)
    <2>1. outpoints[o] \in InPool
        BY <1>2 DEF OutpointInv, OutpointsIndexed
    <2>2. ASSUME NEW S \in SUBSET (InPool \cup {t}), t \in S, Redeemers(S) \subseteq S
          PROVE  outpoints[o] \in S
        <3>1. u \in S
            BY <2>2 DEF WithRedeemers
        <3> QED BY <1>2, <2>2, <3>1, RedeemersElem DEF TakesRedeemers
    <2> QED BY <2>1, <2>2 DEF WithRedeemers
<1> QED BY <1>1, <1>2 DEF TakesRedeemers

(* A transaction of the pool goes with each of its parents.                *)
LEMMA ChildGoes ==
    ASSUME OutpointInv, NEW txs, TakesRedeemers(txs),
           NEW t \in InPool, ~ SpendsTicket(t), NEW o \in Inputs[t],
           o \in Coins(o[1]), o[1] \in txs
    PROVE  t \in txs
BY DEF OutpointInv, OutpointsIndexed, TakesRedeemers

(* RemoveDoubleSpends takes the redeemers of what it takes.                *)
LEMMA DoubleSpendsTakes ==
    ASSUME OutpointInv, NEW c
    PROVE  TakesRedeemers(DoubleSpends(c))
<1> DEFINE named(S) == {outpoints[o] : o \in S \cap DOMAIN outpoints}
           removed(S) == UNION {WithRedeemers(u) : u \in named(S) \ {c}}
           first == removed(Inputs[c] \cap {StakeBase})
           rest == RealInputs(c) \ UNION {Inputs[u] : u \in first \cap InPool}
<1>1. DoubleSpends(c) = IF c \in InPool THEN {} ELSE first \cup removed(rest)
    BY DEF DoubleSpends
<1>2. ASSUME NEW S
      PROVE  TakesRedeemers(removed(S))
    <2>1. SUFFICES ASSUME NEW v \in removed(S), NEW o \in Coins(v), o \in DOMAIN outpoints
                   PROVE  outpoints[o] \in removed(S)
        BY DEF TakesRedeemers
    <2>2. PICK u \in named(S) \ {c} : v \in WithRedeemers(u)
        BY <2>1
    <2>3. outpoints[o] \in WithRedeemers(u)
        BY <2>1, <2>2, WithRedeemersIs DEF TakesRedeemers
    <2> QED BY <2>2, <2>3
<1>3. TakesRedeemers(first) /\ TakesRedeemers(removed(rest))
    BY <1>2
<1> DEFINE second == removed(rest)
<1>4. TakesRedeemers(first \cup second)
    <2>1. TakesRedeemers(first) /\ TakesRedeemers(second)
        BY <1>3
    <2> HIDE DEF first, second
    <2> QED BY <2>1 DEF TakesRedeemers
<1>5. TakesRedeemers({})
    BY DEF TakesRedeemers
<1>6. DoubleSpends(c) = {} \/ DoubleSpends(c) = first \cup second
    BY <1>1
<1> HIDE DEF first, second
<1> QED BY <1>4, <1>5, <1>6

(* A transaction that survives a confirmed one shares no input with it.    *)
LEMMA ConflictGoes ==
    ASSUME PoolType, OutpointInv, NEW c \in Tx, NEW t \in InPool, ~ SpendsTicket(t),
           NEW o \in Inputs[t], o \in Inputs[c]
    PROVE  t \in {c} \cup DoubleSpends(c)
<1>1. t \in Tx /\ o \in DOMAIN outpoints /\ outpoints[o] = t
    BY DEF PoolType, OutpointInv, OutpointsIndexed
<1>2. ~ SpendsTicket(c)
    BY <1>1, PoolAssumption, InputAssumption DEF SpendsTicket
<1>3. CASE c \in InPool
    BY <1>1, <1>2, <1>3 DEF OutpointInv, OutpointsIndexed
<1>4. CASE c \notin InPool
    <2> DEFINE named(S) == {outpoints[i] : i \in S \cap DOMAIN outpoints}
               removed(S) == UNION {WithRedeemers(u) : u \in named(S) \ {c}}
               first == removed(Inputs[c] \cap {StakeBase})
               rest == RealInputs(c) \ UNION {Inputs[u] : u \in first \cap InPool}
    <2>1. DoubleSpends(c) = first \cup removed(rest)
        BY <1>4 DEF DoubleSpends
    <2>2. StakeBase \notin Inputs[c]
        BY <1>2, InputAssumption DEF SpendsTicket
    <2>3. Inputs[c] \cap {StakeBase} = {}
        BY <2>2
    <2>4. first = {}
        BY <2>3
    <2>5. rest = Inputs[c]
        BY <2>2, <2>4 DEF RealInputs
    <2>6. CASE t = c
        BY <2>6
    <2>7. CASE t # c
        <3>1. t \in named(rest) \ {c}
            BY <1>1, <2>5, <2>7
        <3>2. t \in WithRedeemers(t)
            BY WithRedeemersIs
        <3>3. t \in removed(rest)
            BY <3>1, <3>2
        <3> QED BY <2>1, <3>3
    <2> QED BY <2>6, <2>7
<1> QED BY <1>3, <1>4

-----------------------------------------------------------------------------
(* Steps that leave the chain alone.                                       *)

(* A coin stays good if whatever vouched for it is succeeded by something  *)
(* that does.                                                              *)
LEMMA GoodStays ==
    ASSUME UNCHANGED chain, NEW o, Good(o),
           o[1] \in InPool => o[1] \in InPool' \/ Backed(o)',
           o[1] \in lost => o[1] \in lost',
           ToAccept(o[1]) => ToAccept(o[1])' \/ o[1] \in InPool' \/ o[1] \in lost',
           \A y : ToConfirm(y) /\ o \in Inputs[y] => ToConfirm(y)'
    PROVE  Good(o)'
<1>1. /\ ViewTx(chain') = ViewTx(chain)
      /\ FetchUtxoView(TRUE)' = FetchUtxoView(TRUE)
    BY SameView
<1>2. Backed(o)'
    BY <1>1 DEF Good, Backed
<1>3. SpentLater(o) => SpentLater(o)'
    BY <1>1 DEF SpentLater
<1> QED BY <1>2, <1>3 DEF Good, IsRegular

(* Only blocks change the chain.                                           *)
LEMMA ChainSame ==
    ASSUME ChainInv, UNCHANGED chain
    PROVE  ChainInv'
BY DEF ChainInv

(* The order of calls that do not change.                                  *)
LEMMA OrderSame ==
    ASSUME OrderInv, UNCHANGED <<chain, job>>
    PROVE  OrderInv'
<1>1. \A x : ToConfirm(x)' <=> ToConfirm(x)
    BY DEF ToConfirm
<1>2. ViewTx(chain') = ViewTx(chain) /\ Ordered(job') = Ordered(job)
    OBVIOUS
<1> QED BY <1>1, <1>2 DEF OrderInv, IsRegular

(* What a call leaves to be done.                                          *)
LEMMA CallsLeft ==
    ASSUME CallType, job # <<>>, job' = Tail(job), NEW x
    PROVE  /\ ToConfirm(x)' => ToConfirm(x)
           /\ ToConfirm(x) => ToConfirm(x)' \/ (Head(job).op = "confirm" /\ Head(job).tx = x)
           /\ ToAccept(x) => ToAccept(x)' \/ (Head(job).op = "accept" /\ Head(job).tx = x)
BY HasTail DEF CallType, ToConfirm, ToAccept

(* The calls that are left are in order.                                   *)
LEMMA OrderLeft ==
    ASSUME OrderInv, CallType, job # <<>>, UNCHANGED chain, job' = Tail(job)
    PROVE  OrderInv'
<1>1. ViewTx(chain') = ViewTx(chain)
    OBVIOUS
<1>2. Ordered(job')
    BY OrderedTail DEF OrderInv, CallType
<1>3. \A x \in Tx : ToConfirm(x)' => x \in ViewTx(chain)
    BY CallsLeft DEF OrderInv
<1>4. ASSUME NEW y \in ViewTx(chain), NEW o \in RealInputs(y),
             IsRegular(o[1]), ToConfirm(o[1])'
      PROVE  ToConfirm(y)'
    <2>1. ToConfirm(o[1]) /\ ToConfirm(y)
        BY <1>4, CallsLeft DEF OrderInv
    <2>2. CASE Head(job).op = "confirm" /\ Head(job).tx = y
        <3>1. PICK i \in DOMAIN job' : job'[i].op = "confirm" /\ job'[i].tx = o[1]
            BY <1>4 DEF ToConfirm, Has
        <3>2. job \in Seq(Call) /\ job' = Tail(job) /\ job # <<>>
            BY DEF CallType
        <3>3. /\ 1 \in DOMAIN job /\ i + 1 \in DOMAIN job /\ 1 <= i + 1
              /\ job[1] = Head(job) /\ job[i + 1] = job'[i]
            BY <3>1, <3>2
        <3>4. o[1] \notin Parents(y)
            BY <1>4, <2>2, <3>1, <3>3 DEF OrderInv, Ordered
        <3> QED BY <3>4 DEF Parents
    <2> QED BY <2>1, <2>2, CallsLeft
<1> QED BY <1>1, <1>2, <1>3, <1>4 DEF OrderInv, IsRegular

(* The transaction of a call that confirms is in the chain.                *)
LEMMA ConfirmedInView ==
    ASSUME PoolInv, OrderInv, Called("confirm")
    PROVE  /\ ToConfirm(Head(job).tx) /\ Head(job).tx \in ViewTx(chain)
<1>1. Head(job).tx \in Tx
    BY CalledType
<1>2. ToConfirm(Head(job).tx)
    <2>1. job \in Seq(Call) /\ job # <<>> /\ Head(job).op = "confirm"
        BY DEF PoolInv, CallType, Called
    <2>2. 1 \in DOMAIN job /\ job[1] = Head(job)
        BY <2>1
    <2> QED BY <2>1, <2>2 DEF ToConfirm, Has
<1> QED BY <1>1, <1>2 DEF OrderInv

(* BackedInv after a step that adds t or nothing to the pool and removes   *)
(* nothing.                                                                *)
LEMMA BackedAdd ==
    ASSUME PoolInv, BackedInv, UNCHANGED chain, NEW t \in Tx, NEW others, NEW policy,
           \/ /\ Outcome(t, others, policy) = "accepted" /\ InPool' = InPool \cup {t}
              /\ t \notin doubted' => isTxTreeValid
           \/ InPool' = InPool,
           \A u \in InPool : u \notin doubted' => u \notin doubted,
           \A u \in InPool' : \A p \in Parents(u) : p \in lost => p \in lost',
           \A x : ToConfirm(x) => ToConfirm(x)',
           \A x : ToAccept(x) => \/ ToAccept(x)' \/ x \in InPool'
                                 \/ \A u \in InPool' : x \in Parents(u) => x \in lost'
    PROVE  BackedInv'
<1>1. SUFFICES ASSUME NEW u \in InPool', ~ SpendsTicket(u), NEW o \in Inputs[u]
               PROVE  o \in Coins(o[1]) /\ (u \notin doubted' => Good(o)')
    BY DEF BackedInv, SpendsTicket, Coins
<1>2. CASE u \in InPool
    <2>1. o \in Coins(o[1]) /\ (u \notin doubted => Good(o))
        BY <1>1, <1>2 DEF BackedInv
    <2>2. ASSUME u \notin doubted'
          PROVE  Good(o)'
        <3>1. Good(o)
            BY <1>2, <2>1, <2>2
        <3>2. o # StakeBase
            BY <1>1, <1>2, InputAssumption DEF SpendsTicket, PoolInv, PoolType
        <3>3. o[1] \in Parents(u)
            BY <1>1, <3>2 DEF Parents, RealInputs
        <3>4. /\ o[1] \in InPool => o[1] \in InPool'
              /\ o[1] \in lost => o[1] \in lost'
              /\ ToAccept(o[1]) => ToAccept(o[1])' \/ o[1] \in InPool' \/ o[1] \in lost'
            BY <1>1, <3>3
        <3> QED BY <3>1, <3>4, GoodStays
    <2> QED BY <2>1, <2>2
<1>3. CASE u \notin InPool
    <2>1. /\ u = t /\ Outcome(t, others, policy) = "accepted"
          /\ InPool' = InPool \cup {t} /\ (t \notin doubted' => isTxTreeValid)
        BY <1>1, <1>3
    <2>2. /\ o \in Coins(o[1])
          /\ isTxTreeValid => \/ o \in FetchUtxoView(TRUE)
                              \/ IsRegular(o[1]) /\ o[1] \in InPool
        BY <1>1, <2>1, AcceptedSpends
    <2>3. ASSUME isTxTreeValid
          PROVE  Good(o)'
        <3>1. /\ ViewTx(chain') = ViewTx(chain)
              /\ FetchUtxoView(TRUE)' = FetchUtxoView(TRUE)
              /\ FetchUtxoView(TRUE) = UnspentOf(ViewTx(chain))
            BY SameView, ViewIs
        <3>2. Backed(o)'
            BY <2>1, <2>2, <2>3, <3>1 DEF Backed
        <3>3. ASSUME ~ IsRegular(o[1])
              PROVE  SpentLater(o)'
            <4>1. o \in UnspentOf(ViewTx(chain))
                BY <2>2, <2>3, <3>1, <3>3
            <4> QED BY <3>1, <4>1, UnspentElem DEF SpentLater
        <3> QED BY <3>2, <3>3 DEF Good, IsRegular
    <2> QED BY <2>1, <2>2, <2>3
<1> QED BY <1>2, <1>3

(* BackedInv after a step that removes transactions and what redeems them, *)
(* and may be the last to name one of them.                                *)
LEMMA BackedRemove ==
    ASSUME PoolInv, BackedInv, UNCHANGED chain, NEW txs, TakesRedeemers(txs),
           InPool' = InPool \ txs,
           \A u \in InPool' : u \notin doubted' => u \notin doubted,
           \A u \in InPool' : \A p \in Parents(u) : p \in lost => p \in lost',
           \A x : ToConfirm(x) => ToConfirm(x)',
           \A x : ToAccept(x) => ToAccept(x)' \/ x \in txs
    PROVE  BackedInv'
<1>1. SUFFICES ASSUME NEW u \in InPool', ~ SpendsTicket(u), NEW o \in Inputs[u]
               PROVE  o \in Coins(o[1]) /\ (u \notin doubted' => Good(o)')
    BY DEF BackedInv, SpendsTicket, Coins
<1>2. u \in InPool /\ u \notin txs /\ u \in Tx
    BY DEF PoolInv, PoolType
<1>3. o \in Coins(o[1]) /\ (u \notin doubted => Good(o))
    BY <1>1, <1>2 DEF BackedInv
<1>4. o[1] \notin txs
    BY <1>1, <1>2, <1>3, ChildGoes DEF PoolInv
<1>5. o[1] \in Parents(u)
    BY <1>1, <1>2, InputAssumption DEF SpendsTicket, Parents, RealInputs
<1>6. ASSUME u \notin doubted'
      PROVE  Good(o)'
    <2>1. Good(o)
        BY <1>1, <1>3, <1>6
    <2>2. /\ o[1] \in InPool => o[1] \in InPool'
          /\ o[1] \in lost => o[1] \in lost'
          /\ ToAccept(o[1]) => ToAccept(o[1])'
        BY <1>1, <1>4, <1>5
    <2> QED BY <2>1, <2>2, GoodStays
<1> QED BY <1>3, <1>6

(* BackedInv after a transaction of the chain has been confirmed.          *)
LEMMA BackedConfirm ==
    ASSUME PoolInv, BackedInv, OrderInv, UNCHANGED chain, NEW c \in Tx,
           c \in ViewTx(chain), ToConfirm(c),
           InPool' = InPool \ ({c} \cup DoubleSpends(c)),
           \A u \in InPool' : u \notin doubted' => u \notin doubted,
           \A u \in InPool' : \A p \in Parents(u) : p \in lost => p \in lost',
           \A x : ToConfirm(x) => ToConfirm(x)' \/ x = c,
           \A x : ToAccept(x) => ToAccept(x)'
    PROVE  BackedInv'
<1>1. SUFFICES ASSUME NEW u \in InPool', ~ SpendsTicket(u), NEW o \in Inputs[u]
               PROVE  o \in Coins(o[1]) /\ (u \notin doubted' => Good(o)')
    BY DEF BackedInv, SpendsTicket, Coins
<1>2. u \in InPool /\ u \notin {c} \cup DoubleSpends(c) /\ u \in Tx
    BY DEF PoolInv, PoolType
<1>3. o \in Coins(o[1]) /\ (u \notin doubted => Good(o))
    BY <1>1, <1>2 DEF BackedInv
<1>4. o \notin Inputs[c]
    BY <1>1, <1>2, ConflictGoes DEF PoolInv
<1>5. o[1] \notin DoubleSpends(c)
    <2>1. TakesRedeemers(DoubleSpends(c))
        BY DoubleSpendsTakes DEF PoolInv
    <2> QED BY <1>1, <1>2, <1>3, <2>1, ChildGoes DEF PoolInv
<1>6. o # StakeBase /\ o[1] \in Parents(u)
    BY <1>1, <1>2, InputAssumption DEF SpendsTicket, Parents, RealInputs
<1>7. ASSUME u \notin doubted'
      PROVE  Good(o)'
    <2>1. Good(o)
        BY <1>1, <1>3, <1>7
    <2>2. \A y : ToConfirm(y) /\ o \in Inputs[y] => ToConfirm(y)'
        BY <1>4
    <2>3. ASSUME o[1] \in InPool, o[1] \notin InPool'
          PROVE  Backed(o)'
        <3>1. o[1] = c /\ o \in Coins(c)
            BY <1>3, <1>5, <2>3
        <3>2. CASE o \in FetchUtxoView(TRUE)
            BY <3>2, SameView DEF Backed
        <3>3. CASE o \notin FetchUtxoView(TRUE)
            <4>0. o \notin UnspentOf(ViewTx(chain))
                BY <3>3, ViewIs
            <4>1. PICK y \in ViewTx(chain) : o \in Inputs[y]
                <5>1. \E x \in ViewTx(chain) : o \in Coins(x)
                    BY <3>1
                <5> QED BY <4>0, <5>1, UnspentElem
            <4>2. ToConfirm(y)
                <5>1. CASE IsRegular(c)
                    <6>1. o \in RealInputs(y)
                        BY <1>6, <4>1 DEF RealInputs
                    <6> QED BY <3>1, <5>1, <6>1 DEF OrderInv
                <5>2. CASE ~ IsRegular(c)
                    BY <2>1, <3>1, <4>1, <5>2 DEF Good, SpentLater
                <5> QED BY <5>1, <5>2
            <4>3. ToConfirm(y)'
                BY <2>2, <4>1, <4>2
            <4>4. y \in Tx
                <5>1. job \in Seq(Call)
                    BY DEF PoolInv, CallType
                <5>2. PICK i \in DOMAIN job : job[i].op = "confirm" /\ job[i].tx = y
                    BY <4>2 DEF ToConfirm, Has
                <5>3. job[i] \in Call
                    BY <5>1
                <5>4. [op |-> "prune"].op = "prune"
                    OBVIOUS
                <5> QED BY <5>2, <5>3, <5>4 DEF Call
            <4> QED BY <4>1, <4>3, <4>4 DEF Backed
        <3> QED BY <3>2, <3>3
    <2>4. /\ o[1] \in lost => o[1] \in lost'
          /\ ToAccept(o[1]) => ToAccept(o[1])'
        BY <1>1, <1>6
    <2> QED BY <2>1, <2>2, <2>3, <2>4, GoodStays
<1> QED BY <1>3, <1>7

(* WaitInv after a step that empties no list but the one of the walk: the  *)
(* orphans that are left were waiting, and what they wait for is missing   *)
(* still or comes next.                                                    *)
LEMMA WaitStays ==
    ASSUME WaitInv, UNCHANGED chain,
           walk.todo' \subseteq orphans',
           \A t \in orphans' : t \notin doubted' =>
              \/ t \in walk.todo' \/ \E p \in Parents(t) : WaitsFor(p)'
              \/ t \in orphans \ doubted /\ t \notin walk.todo,
           \A t \in orphans' : t \notin doubted' => \A p \in Parents(t) :
              /\ p \in ToSet(walk.queue) => t \in walk.todo' \/ p \in ToSet(walk.queue)'
              /\ ToConfirm(p) => ToConfirm(p)' \/ p \in ToSet(walk.queue)'
              /\ p \in InPool' => p \in InPool \/ p \in ToSet(walk.queue)'
    PROVE  WaitInv'
<1>1. FetchUtxoView(TRUE)' = FetchUtxoView(TRUE)
    BY SameView
<1>2. \A p : EntryIn(FetchUtxoView(TRUE), p)' <=> EntryIn(FetchUtxoView(TRUE), p)
    BY <1>1 DEF EntryIn
<1>3. ASSUME NEW t \in orphans', t \notin doubted'
      PROVE  t \in walk.todo' \/ \E p \in Parents(t) : WaitsFor(p)'
    <2>1. CASE t \in orphans \ doubted /\ t \notin walk.todo
        <3>1. PICK p \in Parents(t) : WaitsFor(p)
            BY <2>1 DEF WaitInv
        <3>2. t \in walk.todo' \/ WaitsFor(p)'
            BY <1>2, <1>3, <3>1 DEF WaitsFor, Missing
        <3> QED BY <3>2
    <2> QED BY <1>3, <2>1
<1> QED BY <1>3 DEF WaitInv, Parents, RealInputs

(* An empty queue holds nothing.                                           *)
LEMMA QueueEmpty ==
    ASSUME walk.queue = <<>>, NEW p
    PROVE  p \notin ToSet(walk.queue)
BY DEF ToSet

(* The queue that processOrphans starts with.                              *)
LEMMA QueueOne ==
    ASSUME NEW t, walk' = [queue |-> <<t>>, todo |-> {}]
    PROVE  t \in ToSet(walk.queue)' /\ walk.todo' = {}
<1>1. walk'.queue = <<t>> /\ walk'.todo = {}
    OBVIOUS
<1>2. 1 \in DOMAIN <<t>> /\ <<t>>[1] = t
    OBVIOUS
<1>3. t \in ToSet(<<t>>)
    BY <1>2 DEF ToSet
<1> QED BY <1>1, <1>3

(* A transaction with unknown parents, when the tip's tree counts.         *)
LEMMA OrphanMisses ==
    ASSUME NEW t \in Tx, NEW others, NEW policy,
           Outcome(t, others, policy) = "orphan", isTxTreeValid
    PROVE  \E p \in Parents(t) : Missing(p)
<1>1. \E p \in Parents(t) :
         ~ (EntryIn(FetchUtxoView(isTxTreeValid), p) \/ p \in InPool)
    BY DEF Outcome
<1>2. FetchUtxoView(isTxTreeValid) = FetchUtxoView(TRUE)
    BY DEF FetchUtxoView
<1> QED BY <1>1, <1>2 DEF Missing

(* A missing parent stays missing when chain and pool do not change.       *)
LEMMA MissingSame ==
    ASSUME UNCHANGED <<chain, pool>>, NEW p, Missing(p)
    PROVE  Missing(p)'
BY SameView DEF Missing, EntryIn, InPool

-----------------------------------------------------------------------------
(* One lemma for every action that leaves the chain alone.                 *)

(* A processed transaction is backed when it is accepted, waits for a      *)
(* parent when it becomes an orphan, and is first in the queue for those   *)
(* that wait for it.                                                       *)
LEMMA ProcessSpend ==
    ASSUME SpendInv, NEW t \in Tx, NEW policy \in BOOLEAN, NEW allowOrphan \in BOOLEAN,
           ProcessTransaction(t, policy, allowOrphan)
    PROVE  SpendInv'
<1> DEFINE o == Outcome(t, orphans, policy)
           e == {t} \ (InPool \cup orphans)
<1>1. PoolInv /\ PoolInv'
    BY ProcessStep DEF SpendInv
<1>2. UNCHANGED <<chain, job>>
    BY DEF ProcessTransaction
<1>3. ChainInv' /\ OrderInv'
    BY <1>2, ChainSame, OrderSame DEF SpendInv
<1>4. Remember({}, e, {})
    BY DEF ProcessTransaction
<1>5. /\ \A u \in InPool' : \A p \in Parents(u) : p \in lost \cup {} => p \in lost'
      /\ \A u \in InPool' \cup orphans' : u \notin doubted' =>
            /\ u \in e => isTxTreeValid
            /\ u \notin e => u \notin doubted
    BY <1>4, RememberIs
<1>6. \A x : ToConfirm(x)' = ToConfirm(x) /\ ToAccept(x)' = ToAccept(x)
    BY <1>2 DEF ToConfirm, ToAccept
<1>7. walk.queue = <<>> /\ walk.todo = {}
    BY DEF ProcessTransaction, Idle
<1>8. CASE o = "accepted"
    <2>1. /\ addTransaction(t) /\ walk' = [queue |-> <<t>>, todo |-> {}]
          /\ UNCHANGED orphans
        BY <1>8 DEF ProcessTransaction, walkFrom
    <2>2. /\ t \notin InPool /\ t \notin orphans
          /\ InPool' = InPool \cup {t}
        BY <1>1, <1>8, <2>1, Accepted DEF addTransaction, InPool
    <2>3. \A u \in InPool : u \notin doubted' => u \notin doubted
        BY <1>5, <2>2
    <2>4. t \notin doubted' => isTxTreeValid
        BY <1>5, <2>2
    <2>5. BackedInv'
        BY <1>1, <1>2, <1>5, <1>6, <1>8, <2>2, <2>3, <2>4, BackedAdd DEF SpendInv
    <2>6. t \in ToSet(walk.queue)' /\ walk.todo' = {}
        BY <2>1, QueueOne
    <2>7. \A u \in orphans' : u \notin doubted' => u \in orphans \ doubted
        BY <1>5, <2>1
    <2>8. WaitInv'
        BY <1>2, <1>6, <1>7, <2>2, <2>6, <2>7, WaitStays, QueueEmpty DEF SpendInv
    <2> QED BY <1>1, <1>3, <2>5, <2>8 DEF SpendInv
<1>9. CASE o # "accepted"
    <2>1. UNCHANGED <<pool, walk>>
        BY <1>9 DEF ProcessTransaction
    <2>2. InPool' = InPool
        BY <2>1 DEF InPool
    <2>3. \A u \in InPool : u \notin doubted' => u \notin doubted
        BY <1>5, <2>2
    <2>4. BackedInv'
        BY <1>1, <1>2, <1>5, <1>6, <2>2, <2>3, BackedAdd DEF SpendInv
    <2>5. walk.todo' = {} /\ walk.queue' = walk.queue
        BY <1>7, <2>1
    <2>6. ASSUME NEW u \in orphans', u \notin doubted'
          PROVE  u \in orphans \ doubted \/ \E p \in Parents(u) : Missing(p)'
        <3>1. CASE u \in orphans
            BY <1>5, <2>6, <3>1
        <3>2. CASE u \notin orphans
            <4>1. o = "orphan" /\ u = t
                BY <1>9, <2>6, <3>2 DEF ProcessTransaction
            <4>2. u \in e
                BY <4>1, <3>2, Waits
            <4>3. isTxTreeValid
                BY <1>5, <2>6, <4>2
            <4>4. PICK p \in Parents(u) : Missing(p)
                BY <4>1, <4>3, OrphanMisses
            <4>5. Missing(p)'
                BY <1>2, <2>1, <4>4, MissingSame
            <4> QED BY <4>5
        <3> QED BY <3>1, <3>2
    <2>7. ASSUME NEW u \in orphans', u \notin doubted'
          PROVE  u \in orphans \ doubted \/ \E p \in Parents(u) : WaitsFor(p)'
        BY <2>6, <2>7 DEF WaitsFor
    <2>8. WaitInv'
        BY <1>2, <1>6, <1>7, <2>2, <2>5, <2>7, WaitStays, QueueEmpty DEF SpendInv
    <2> QED BY <1>1, <1>3, <2>4, <2>8 DEF SpendInv
<1> QED BY <1>8, <1>9

(* The orphans of the entry that leaves the queue are examined.            *)
LEMMA WalkNextSpend ==
    ASSUME SpendInv, WalkNext
    PROVE  SpendInv'
<1>1. PoolInv /\ PoolInv'
    BY WalkNextStep DEF SpendInv
<1>2. UNCHANGED <<chain, pool, orphans, job, lost, doubted>>
    BY DEF WalkNext
<1>3. ChainInv' /\ OrderInv'
    BY <1>2, ChainSame, OrderSame DEF SpendInv
<1>4. InPool' = InPool
    BY <1>2 DEF InPool
<1>5. \A x : ToConfirm(x)' = ToConfirm(x) /\ ToAccept(x)' = ToAccept(x)
    BY <1>2 DEF ToConfirm, ToAccept
<1>6. BackedInv'
    <2>1. SUFFICES ASSUME NEW u \in InPool', ~ SpendsTicket(u), NEW i \in Inputs[u]
                   PROVE  i \in Coins(i[1]) /\ (u \notin doubted' => Good(i)')
        BY DEF BackedInv, SpendsTicket, Coins
    <2>2. i \in Coins(i[1]) /\ (u \notin doubted => Good(i))
        BY <1>4, <2>1 DEF SpendInv, BackedInv
    <2>3. Good(i) => Good(i)'
        BY <1>2, <1>4, <1>5, GoodStays
    <2> QED BY <1>2, <2>2, <2>3
<1>7. WaitInv'
    <2> DEFINE q == walk.queue
               h == Head(q)
    <2>1. /\ q \in Seq(Tx) /\ q # <<>> /\ walk.todo = {}
          /\ walk'.queue = Tail(q) /\ walk'.todo = orphansByPrev[h]
        BY <1>1 DEF WalkNext, PoolInv, WalkType
    <2> HIDE DEF q
    <2>2. h \in AllTx
        BY <2>1 DEF AllTx
    <2>3. orphansByPrev[h] = {t \in orphans : h \in Parents(t)}
        BY <1>1, <2>2 DEF PoolInv, OrphanInv
    <2>4. ASSUME NEW p \in ToSet(q), p # h
          PROVE  p \in ToSet(Tail(q))
        <3>1. PICK i \in DOMAIN q : p = q[i]
            BY DEF ToSet
        <3>2. i - 1 \in DOMAIN Tail(q) /\ Tail(q)[i - 1] = p
            BY <2>1, <2>4, <3>1
        <3> QED BY <3>2 DEF ToSet
    <2>5. walk.todo' \subseteq orphans'
        BY <1>2, <2>1, <2>3
    <2>6. ASSUME NEW t \in orphans', NEW p \in Parents(t), p \in ToSet(walk.queue)
          PROVE  t \in walk.todo' \/ p \in ToSet(walk.queue)'
        <3>1. CASE p = h
            BY <1>2, <2>1, <2>3, <2>6, <3>1
        <3>2. CASE p # h
            BY <2>1, <2>4, <2>6, <3>2 DEF q
        <3> QED BY <3>1, <3>2
    <2> QED BY <1>2, <1>4, <1>5, <2>1, <2>5, <2>6, WaitStays DEF SpendInv
<1> QED BY <1>1, <1>3, <1>6, <1>7 DEF SpendInv

(* An orphan leaves the pool of orphans or still misses a parent.          *)
LEMMA WalkOrphanSpend ==
    ASSUME SpendInv, NEW t \in walk.todo, NEW policy \in BOOLEAN, WalkOrphan(t, policy)
    PROVE  SpendInv'
<1> DEFINE o == Outcome(t, orphans \ {t}, policy)
<1>1. PoolInv /\ PoolInv' /\ t \in Tx /\ t \in orphans /\ t \notin InPool
    BY WalkOrphanStep DEF SpendInv, WaitInv, PoolInv, Apart, OrphanInv
<1>2. UNCHANGED <<chain, job>>
    BY DEF WalkOrphan
<1>3. ChainInv' /\ OrderInv'
    BY <1>2, ChainSame, OrderSame DEF SpendInv
<1>4. Remember({}, {t}, {})
    BY DEF WalkOrphan
<1>5. /\ \A u \in InPool' : \A p \in Parents(u) : p \in lost \cup {} => p \in lost'
      /\ \A u \in InPool' \cup orphans' : u \notin doubted' =>
            /\ u \in {t} => isTxTreeValid
            /\ u \notin {t} => u \notin doubted
    BY <1>4, RememberIs
<1>6. \A x : ToConfirm(x)' = ToConfirm(x) /\ ToAccept(x)' = ToAccept(x)
    BY <1>2 DEF ToConfirm, ToAccept
<1>7. /\ walk'.todo = walk.todo \ {t}
      /\ walk'.queue = IF o = "accepted" THEN Append(walk.queue, t) ELSE walk.queue
    BY DEF WalkOrphan, walkOn
<1>8. /\ walk.queue \in Seq(Tx) /\ walk.todo \subseteq orphans
    BY <1>1 DEF PoolInv, WalkType, SpendInv, WaitInv
<1>9. CASE o = "accepted"
    <2>1. addTransaction(t) /\ orphans' = orphans \ {t}
        BY <1>9 DEF WalkOrphan
    <2>2. InPool' = InPool \cup {t}
        BY <2>1 DEF addTransaction, InPool
    <2>3. \A u \in InPool : u \notin doubted' => u \notin doubted
        BY <1>1, <1>5, <2>2
    <2>4. t \notin doubted' => isTxTreeValid
        BY <1>5, <2>2
    <2>5. BackedInv'
        BY <1>1, <1>2, <1>5, <1>6, <1>9, <2>2, <2>3, <2>4, BackedAdd DEF SpendInv
    <2>6. t \in ToSet(walk.queue)' /\ ToSet(walk.queue) \subseteq ToSet(walk.queue)'
        <3> DEFINE q == walk.queue
        <3>1. q \in Seq(Tx) /\ walk'.queue = Append(q, t)
            BY <1>7, <1>8, <1>9
        <3>2. ToSet(walk.queue)' = ToSet(Append(q, t)) /\ ToSet(walk.queue) = ToSet(q)
            BY <3>1
        <3> HIDE DEF q
        <3>3. /\ Len(q) \in Nat /\ DOMAIN Append(q, t) = 1..(Len(q) + 1)
              /\ Append(q, t)[Len(q) + 1] = t
              /\ \A i \in DOMAIN q : i \in 1..(Len(q) + 1) /\ Append(q, t)[i] = q[i]
            BY <1>1, <3>1
        <3>4. t \in ToSet(Append(q, t)) /\ ToSet(q) \subseteq ToSet(Append(q, t))
            BY <3>3 DEF ToSet
        <3> QED BY <3>2, <3>4
    <2>7. walk.todo' \subseteq orphans'
        BY <1>7, <1>8, <2>1
    <2>8. \A u \in orphans' : u \notin doubted' =>
             u \in walk.todo' \/ (u \in orphans \ doubted /\ u \notin walk.todo)
        BY <1>5, <1>7, <2>1
    <2>9. WaitInv'
        BY <1>2, <1>6, <2>2, <2>6, <2>7, <2>8, WaitStays DEF SpendInv
    <2> QED BY <1>1, <1>3, <2>5, <2>9 DEF SpendInv
<1>10. CASE o # "accepted"
    <2>1. UNCHANGED pool
        BY <1>10 DEF WalkOrphan
    <2>2. InPool' = InPool
        BY <2>1 DEF InPool
    <2>3. \A u \in InPool : u \notin doubted' => u \notin doubted
        BY <1>1, <1>5, <2>2
    <2>4. BackedInv'
        BY <1>1, <1>2, <1>5, <1>6, <2>2, <2>3, BackedAdd DEF SpendInv
    <2>5. ToSet(walk.queue)' = ToSet(walk.queue)
        BY <1>7, <1>10
    <2>6. \/ orphans' = orphans \ {t}
          \/ o = "orphan" /\ orphans' = orphans
        BY <1>10 DEF WalkOrphan
    <2>7. walk.todo' \subseteq orphans'
        BY <1>7, <1>8, <2>6
    <2>8. ASSUME NEW u \in orphans', u \notin doubted'
          PROVE  \/ u \in walk.todo' \/ \E p \in Parents(u) : WaitsFor(p)'
                 \/ u \in orphans \ doubted /\ u \notin walk.todo
        <3>1. CASE u # t
            BY <1>5, <1>7, <2>6, <2>8, <3>1
        <3>2. CASE u = t
            <4>1. o = "orphan" /\ isTxTreeValid
                BY <1>5, <2>6, <2>8, <3>2
            <4>2. PICK p \in Parents(t) : Missing(p)
                BY <1>1, <4>1, OrphanMisses
            <4>3. Missing(p)'
                BY <1>2, <2>1, <4>2, MissingSame
            <4> QED BY <3>2, <4>3 DEF WaitsFor
        <3> QED BY <3>1, <3>2
    <2>9. WaitInv'
        BY <1>2, <1>6, <2>2, <2>5, <2>7, <2>8, WaitStays DEF SpendInv
    <2> QED BY <1>1, <1>3, <2>4, <2>9 DEF SpendInv
<1> QED BY <1>9, <1>10

(* A transaction that is put back is in the pool, lost, or gone with       *)
(* whatever spends it; the orphans that wait for it are not processed.     *)
LEMMA PutBackSpend ==
    ASSUME SpendInv, NEW policy \in BOOLEAN, PutBack(policy)
    PROVE  SpendInv'
<1> DEFINE t == Head(job).tx
           o == Outcome(t, orphans, policy)
           e == {t} \ (InPool \cup orphans)
           n == IF o = "orphan" THEN {t} ELSE {}
           w == IF o = "accepted" THEN orphansByPrev[t] ELSE {}
<1>1. PoolInv /\ PoolInv' /\ t \in Tx
    BY PutBackStep, CalledType DEF SpendInv, PutBack
<1>2. UNCHANGED <<chain, orphans, walk>>
    BY DEF PutBack
<1>3. /\ job # <<>> /\ job' = Tail(job) /\ Head(job).op = "accept" /\ CallType
      /\ walk.queue = <<>> /\ walk.todo = {}
    BY <1>1 DEF PutBack, Called, PoolInv
<1>4. ChainInv' /\ OrderInv'
    BY <1>2, <1>3, ChainSame, OrderLeft DEF SpendInv
<1>5. \A x : ToConfirm(x) => ToConfirm(x)'
    BY <1>3, CallsLeft
<1>6. \A x : ToAccept(x) => ToAccept(x)' \/ x = t
    BY <1>3, CallsLeft
<1>7. Remember(n, e, w)
    BY DEF PutBack
<1>8. /\ \A u \in InPool' : \A p \in Parents(u) : p \in lost \cup n => p \in lost'
      /\ \A u \in InPool' \cup orphans' : u \notin doubted' =>
            /\ u \notin w
            /\ u \in e => isTxTreeValid
            /\ u \notin e => u \notin doubted
    <2> HIDE DEF n, e, w
    <2> QED BY <1>7, RememberIs
<1>9. \/ o = "accepted" /\ addTransaction(t)
      \/ o = "refused" /\ removeTransaction(WithRedeemers(t))
      \/ o = "orphan" /\ UNCHANGED pool
    <2>1. o \in {"accepted", "refused", "orphan"}
        BY DEF Outcome
    <2> QED BY <2>1 DEF PutBack
<1>10. /\ BackedInv'
       /\ \/ InPool' \subseteq InPool
          \/ o = "accepted" /\ InPool' = InPool \cup {t}
    <2>1. CASE o = "accepted" /\ addTransaction(t)
        <3>1. t \notin InPool /\ t \notin orphans /\ InPool' = InPool \cup {t}
            BY <1>1, <2>1, Accepted DEF addTransaction, InPool
        <3>2. /\ \A u \in InPool : u \notin doubted' => u \notin doubted
              /\ t \notin doubted' => isTxTreeValid
            BY <1>8, <3>1
        <3>3. BackedInv'
            BY <1>1, <1>2, <1>5, <1>6, <1>8, <2>1, <3>1, <3>2, BackedAdd DEF SpendInv
        <3> QED BY <2>1, <3>1, <3>3
    <2>2. CASE o = "refused" /\ removeTransaction(WithRedeemers(t))
        <3>1. t \in WithRedeemers(t) /\ TakesRedeemers(WithRedeemers(t))
            BY <1>1, WithRedeemersIs DEF PoolInv
        <3>2. InPool' = InPool \ WithRedeemers(t)
            BY <1>1, <2>2, RemoveKeeps DEF PoolInv
        <3>3. \A u \in InPool' : u \notin doubted' => u \notin doubted
            BY <1>8, <3>2
        <3>4. \A u \in InPool' : \A p \in Parents(u) : p \in lost => p \in lost'
            BY <1>8
        <3>5. \A x : ToAccept(x) => ToAccept(x)' \/ x \in WithRedeemers(t)
            BY <1>6, <3>1
        <3>6. BackedInv'
            <4> HIDE DEF t
            <4> QED BY <1>1, <1>2, <1>5, <3>1, <3>2, <3>3, <3>4, <3>5, BackedRemove
                    DEF SpendInv
        <3>7. InPool' \subseteq InPool
            BY <3>2
        <3> QED BY <3>6, <3>7
    <2>3. CASE o = "orphan" /\ UNCHANGED pool
        <3>1. InPool' = InPool
            BY <2>3 DEF InPool
        <3>2. \A u \in InPool : u \notin doubted' => u \notin doubted
            BY <1>8, <3>1
        <3>3. \A u \in InPool' : t \in Parents(u) => t \in lost'
            BY <1>8, <2>3
        <3>4. \A u \in InPool' : \A p \in Parents(u) : p \in lost => p \in lost'
            BY <1>8
        <3>5. \A x : ToAccept(x) => \/ ToAccept(x)'
                                    \/ \A u \in InPool' : x \in Parents(u) => x \in lost'
            BY <1>6, <3>3
        <3>6. BackedInv'
            <4> HIDE DEF t
            <4> QED BY <1>1, <1>2, <1>5, <3>1, <3>2, <3>4, <3>5, BackedAdd DEF SpendInv
        <3>7. InPool' \subseteq InPool
            BY <3>1
        <3> QED BY <3>6, <3>7
    <2> QED BY <1>9, <2>1, <2>2, <2>3
<1>11. WaitInv'
    <2>1. walk.todo' = {} /\ walk.queue' = walk.queue
        BY <1>2, <1>3
    <2>2. \A u \in orphans' : u \notin doubted' => u \in orphans \ doubted
        BY <1>2, <1>8
    <2>3. ASSUME NEW u \in orphans', u \notin doubted', NEW p \in Parents(u), p \in InPool'
          PROVE  p \in InPool
        <3>1. ASSUME p \notin InPool
              PROVE  FALSE
            <4>1. o = "accepted" /\ p = t
                BY <1>10, <2>3, <3>1
            <4>2. t \in AllTx
                BY <1>1 DEF AllTx
            <4>3. u \in orphansByPrev[t]
                BY <1>1, <1>2, <2>3, <4>1, <4>2 DEF PoolInv, OrphanInv
            <4> QED BY <1>8, <2>3, <4>1, <4>3
        <3> QED BY <3>1
    <2> QED BY <1>2, <1>3, <1>5, <2>1, <2>2, <2>3, WaitStays, QueueEmpty DEF SpendInv
<1> QED BY <1>1, <1>4, <1>10, <1>11 DEF SpendInv

(* A confirmed transaction takes with it whatever spends its inputs, and   *)
(* its outputs are spent by the chain only where a later call confirms     *)
(* that.                                                                   *)
LEMMA ConfirmSpend ==
    ASSUME SpendInv, Confirm
    PROVE  SpendInv'
<1> DEFINE c == Head(job).tx
<1>1. PoolInv /\ PoolInv' /\ c \in Tx
    BY ConfirmStep, CalledType DEF SpendInv, Confirm
<1>2. /\ removeTransaction({c} \cup DoubleSpends(c))
      /\ orphans' = orphans \ {c}
      /\ walk' = [queue |-> <<c>>, todo |-> {}]
      /\ UNCHANGED chain
      /\ Remember({}, {}, {})
    BY DEF Confirm, walkFrom
<1>3. /\ job # <<>> /\ job' = Tail(job) /\ Head(job).op = "confirm" /\ CallType
      /\ walk.queue = <<>> /\ walk.todo = {}
    BY <1>1 DEF Confirm, Called, PoolInv
<1>4. ChainInv' /\ OrderInv'
    BY <1>2, <1>3, ChainSame, OrderLeft DEF SpendInv
<1>5. \A x : ToConfirm(x) => ToConfirm(x)' \/ x = c
    BY <1>3, CallsLeft
<1>6. \A x : ToAccept(x) => ToAccept(x)'
    BY <1>3, CallsLeft
<1>7. /\ \A u \in InPool' : \A p \in Parents(u) : p \in lost \cup {} => p \in lost'
      /\ \A u \in InPool' \cup orphans' : u \notin doubted' => u \notin doubted
    BY <1>2, RememberIs
<1>8. ToConfirm(c) /\ c \in ViewTx(chain)
    BY <1>1, ConfirmedInView DEF SpendInv, Confirm
<1> HIDE DEF c
<1>9. InPool' = InPool \ ({c} \cup DoubleSpends(c))
    BY <1>1, <1>2, RemoveKeeps DEF PoolInv
<1>10. BackedInv'
    <2>1. \A u \in InPool' : u \notin doubted' => u \notin doubted
        BY <1>7
    <2> QED BY <1>1, <1>2, <1>5, <1>6, <1>7, <1>8, <1>9, <2>1, BackedConfirm DEF SpendInv
<1>11. WaitInv'
    <2>1. c \in ToSet(walk.queue)' /\ walk.todo' = {}
        BY <1>2, QueueOne
    <2>2. \A u \in orphans' : u \notin doubted' => u \in orphans \ doubted
        BY <1>2, <1>7
    <2> QED BY <1>2, <1>3, <1>5, <1>9, <2>1, <2>2, WaitStays, QueueEmpty DEF SpendInv
<1> QED BY <1>1, <1>4, <1>10, <1>11 DEF SpendInv

(* Pruning takes the redeemers of what it takes.                           *)
LEMMA PruneSpend ==
    ASSUME SpendInv, Prune
    PROVE  SpendInv'
<1>1. PoolInv /\ PoolInv'
    BY PruneStep DEF SpendInv
<1>2. /\ UNCHANGED <<chain, orphans, walk>> /\ Remember({}, {}, {})
      /\ job # <<>> /\ Head(job).op = "prune" /\ CallType
    BY <1>1 DEF Prune, PoolInv
<1>3. /\ \A u \in InPool' : \A p \in Parents(u) : p \in lost \cup {} => p \in lost'
      /\ \A u \in InPool' \cup orphans' : u \notin doubted' => u \notin doubted
    BY <1>2, RememberIs
<1>4. \A u \in InPool' : u \notin doubted' => u \notin doubted
    BY <1>3
<1>5. \/ job' = Tail(job) /\ UNCHANGED pool
      \/ job' = job /\ \E t \in InPool : removeTransaction(WithRedeemers(t))
    BY DEF Prune
<1>6. /\ OrderInv' /\ BackedInv' /\ InPool' \subseteq InPool
      /\ \A x : ToConfirm(x) => ToConfirm(x)'
    <2>1. CASE job' = Tail(job) /\ UNCHANGED pool
        <3>1. InPool' = InPool
            BY <2>1 DEF InPool
        <3>2. OrderInv'
            BY <1>2, <2>1, OrderLeft DEF SpendInv
        <3>3. \A x : ToConfirm(x) => ToConfirm(x)'
            BY <1>2, <2>1, CallsLeft
        <3>4. \A x : ToAccept(x) => ToAccept(x)'
            BY <1>2, <2>1, CallsLeft
        <3>5. TakesRedeemers({}) /\ InPool' = InPool \ {}
            BY <3>1 DEF TakesRedeemers
        <3>6. BackedInv'
            BY <1>1, <1>2, <1>3, <1>4, <3>3, <3>4, <3>5, BackedRemove DEF SpendInv
        <3> QED BY <3>1, <3>2, <3>3, <3>6
    <2>2. ASSUME NEW t \in InPool, removeTransaction(WithRedeemers(t)), job' = job
          PROVE  /\ OrderInv' /\ BackedInv' /\ InPool' \subseteq InPool
                 /\ \A x : ToConfirm(x) => ToConfirm(x)'
        <3>1. InPool' = InPool \ WithRedeemers(t)
            BY <1>1, <2>2, RemoveKeeps DEF PoolInv
        <3>2. OrderInv'
            BY <1>2, <2>2, OrderSame DEF SpendInv
        <3>3. \A x : ToConfirm(x)' = ToConfirm(x) /\ ToAccept(x)' = ToAccept(x)
            BY <2>2 DEF ToConfirm, ToAccept
        <3>4. TakesRedeemers(WithRedeemers(t))
            BY <1>1, WithRedeemersIs DEF PoolInv
        <3>5. BackedInv'
            BY <1>1, <1>2, <1>3, <1>4, <3>1, <3>3, <3>4, BackedRemove DEF SpendInv
        <3> QED BY <3>1, <3>2, <3>3, <3>5
    <2> QED BY <1>5, <2>1, <2>2
<1>7. ChainInv'
    BY <1>2, ChainSame DEF SpendInv
<1>8. WaitInv'
    <2>1. walk.todo' = walk.todo /\ walk.queue' = walk.queue
        BY <1>2
    <2>2. \A u \in orphans' : u \notin doubted' => u \in orphans \ doubted
        BY <1>2, <1>3
    <2>3. walk.todo' \subseteq orphans'
        BY <1>2 DEF SpendInv, WaitInv
    <2> QED BY <1>2, <1>6, <2>1, <2>2, <2>3, WaitStays DEF SpendInv
<1> QED BY <1>1, <1>6, <1>7, <1>8 DEF SpendInv

-----------------------------------------------------------------------------
(* Blocks are connected and disconnected.                                  *)

(* A step that takes transactions out of the chain to put them back, and   *)
(* brings transactions in to confirm them.                                 *)
Switches(old, new) ==
    /\ \A x \in new : x \in old \/ (x \in Tx /\ ToConfirm(x)')
    /\ \A x \in old : x \in new \/ ToAccept(x)'

(* Blocks come and go: a coin that is no longer there has a call for its   *)
(* maker or its spender.                                                   *)
LEMMA BackedSwitch ==
    ASSUME PoolInv, BackedInv, job = <<>>, UNCHANGED pool,
           Switches(ViewTx(chain), ViewTx(chain')),
           \A u \in InPool' : u \notin doubted' => u \notin doubted,
           \A u \in InPool' : \A p \in Parents(u) : p \in lost => p \in lost'
    PROVE  BackedInv'
<1> DEFINE V == ViewTx(chain)
           W == ViewTx(chain')
<1>0. InPool' = InPool
    BY DEF InPool
<1>1. SUFFICES ASSUME NEW u \in InPool', ~ SpendsTicket(u), NEW o \in Inputs[u]
               PROVE  o \in Coins(o[1]) /\ (u \notin doubted' => Good(o)')
    BY DEF BackedInv, SpendsTicket, Coins
<1>2. u \in InPool /\ u \in Tx
    BY <1>0 DEF PoolInv, PoolType
<1>3. o \in Coins(o[1]) /\ (u \notin doubted => Good(o))
    BY <1>1, <1>2 DEF BackedInv
<1>4. \A x : ~ ToConfirm(x) /\ ~ ToAccept(x)
    BY HasNothing DEF ToConfirm, ToAccept
<1>5. o[1] \in Parents(u)
    BY <1>1, <1>2, InputAssumption DEF SpendsTicket, Parents, RealInputs
<1>6. ASSUME u \notin doubted'
      PROVE  Good(o)'
    <2>1. Good(o)
        BY <1>1, <1>3, <1>6
    <2>2. FetchUtxoView(TRUE) = UnspentOf(V) /\ FetchUtxoView(TRUE)' = UnspentOf(W)
        BY ViewIs DEF FetchUtxoView, ViewTx, Tip
    <2>3. Switches(V, W)
        OBVIOUS
    <2>4. Backed(o)'
        <3>1. CASE o \in FetchUtxoView(TRUE)
            <4> HIDE DEF V, W
            <4>0. o \in UnspentOf(V)
                BY <2>2, <3>1
            <4>1. /\ \E x \in V : o \in Coins(x)
                  /\ \A x \in V : o \notin Inputs[x]
                BY <4>0, UnspentElem
            <4>2. o[1] \in V
                BY <4>1, CoinOf
            <4>3. CASE o[1] \notin W
                BY <2>3, <4>2, <4>3 DEF Switches, Backed
            <4>4. CASE \E y \in W : o \in Inputs[y]
                BY <2>3, <4>1, <4>4 DEF Switches, Backed
            <4>5. CASE o[1] \in W /\ \A y \in W : o \notin Inputs[y]
                <5>1. o \in UnspentOf(W)
                    BY <1>3, <4>5, UnspentElem
                <5> QED BY <2>2, <5>1 DEF Backed
            <4> QED BY <4>3, <4>4, <4>5
        <3>2. CASE o[1] \in InPool
            BY <1>0, <3>2 DEF Backed
        <3>3. CASE o[1] \in lost
            BY <1>1, <1>5, <3>3 DEF Backed
        <3> QED BY <1>4, <2>1, <3>1, <3>2, <3>3 DEF Good, Backed
    <2>5. ASSUME ~ IsRegular(o[1])
          PROVE  SpentLater(o)'
        <3>1. \A y \in V : o \notin Inputs[y]
            BY <1>4, <2>1, <2>5 DEF Good, SpentLater
        <3>2. \A y \in W : o \in Inputs[y] => ToConfirm(y)'
            BY <2>3, <3>1 DEF Switches
        <3> QED BY <3>2 DEF SpentLater
    <2> QED BY <2>4, <2>5 DEF Good, IsRegular
<1> QED BY <1>3, <1>6

(* The chain without its last block.                                       *)
LEMMA ChainFront ==
    ASSUME NEW c \in Seq(Block), Len(c) > 1
    PROVE  /\ Front(c) \in Seq(Block) /\ Front(c) # <<>> /\ Len(Front(c)) = Len(c) - 1
           /\ \A i \in 1..(Len(c) - 1) : Front(c)[i] = c[i]
           /\ c = Append(Front(c), Last(c)) /\ Last(c) \in Block
           /\ Last(Front(c)) = c[Len(c) - 1] /\ Last(c) = c[Len(c)]
<1> DEFINE f == SubSeq(c, 1, Len(c) - 1)
<1>1. Len(c) \in Nat /\ DOMAIN c = 1..Len(c) /\ c[Len(c)] \in Block
    OBVIOUS
<1>2. /\ f \in Seq(Block) /\ Len(f) = Len(c) - 1
      /\ \A i \in 1..(Len(c) - 1) : f[i] = c[i]
    OBVIOUS
<1>3. Front(c) = f /\ Last(c) = c[Len(c)]
    BY DEF Front, Last
<1> HIDE DEF f
<1>4. c = Append(f, Last(c))
    <2> DEFINE b == Last(c)
               d == Append(f, b)
    <2>1. b \in Block /\ b = c[Len(c)]
        BY <1>1, <1>3
    <2> HIDE DEF b
    <2>2. f # <<>>
        BY <1>1, <1>2
    <2>3. /\ d \in Seq(Block) /\ Len(d) = Len(f) + 1 /\ d[Len(f) + 1] = b
          /\ \A i \in 1..Len(f) : d[i] = f[i]
        BY <1>2, <2>1, <2>2, AppendIs
    <2> HIDE DEF d
    <2>4. Len(d) = Len(c)
        BY <1>1, <1>2, <2>3
    <2>5. \A i \in 1..Len(c) : d[i] = c[i]
        BY <1>1, <1>2, <2>1, <2>3
    <2>6. d = c
        BY <2>3, <2>4, <2>5
    <2> QED BY <2>6 DEF d, b
<1>6. f # <<>> /\ Last(f) = c[Len(c) - 1]
    BY <1>1, <1>2 DEF Last
<1> QED BY <1>1, <1>2, <1>3, <1>4, <1>6

(* The beginning of a chain does not change when a block is added.         *)
LEMMA PrefixAppend ==
    ASSUME NEW c \in Seq(Block), NEW b \in Block, NEW n \in 1..Len(c)
    PROVE  SubSeq(Append(c, b), 1, n) = SubSeq(c, 1, n)
<1> DEFINE d == Append(c, b)
<1>1. /\ d \in Seq(Block) /\ Len(d) = Len(c) + 1 /\ Len(c) \in Nat
      /\ \A i \in 1..Len(c) : d[i] = c[i]
    OBVIOUS
<1> HIDE DEF d
<1>2. /\ SubSeq(d, 1, n) \in Seq(Block) /\ Len(SubSeq(d, 1, n)) = n
      /\ \A i \in 1..n : SubSeq(d, 1, n)[i] = d[i]
    BY <1>1
<1>3. /\ SubSeq(c, 1, n) \in Seq(Block) /\ Len(SubSeq(c, 1, n)) = n
      /\ \A i \in 1..n : SubSeq(c, 1, n)[i] = c[i]
    BY <1>1
<1>4. SubSeq(d, 1, n) = SubSeq(c, 1, n)
    BY <1>1, <1>2, <1>3
<1> QED BY <1>4 DEF d

(* The whole of a chain as a prefix.                                       *)
LEMMA WholePrefix ==
    ASSUME NEW c \in Seq(Block)
    PROVE  SubSeq(c, 1, Len(c)) = c
OBVIOUS

(* A block that connects keeps the chain linked.                           *)
LEMMA LinkedAppend ==
    ASSUME NEW c \in Seq(Block), c # <<>>, NEW b \in Block, Linked(c),
           Prev[b] = Last(c), Connects(c, b)
    PROVE  Linked(Append(c, b))
<1> DEFINE d == Append(c, b)
           m == Len(c)
<1>1. /\ d \in Seq(Block) /\ Len(d) = m + 1 /\ m \in Nat \ {0}
      /\ \A i \in 1..m : d[i] = c[i]
      /\ d[m + 1] = b /\ Last(c) = c[m]
    BY AppendIs
<1>2. \A n \in 1..m : SubSeq(d, 1, n) = SubSeq(c, 1, n)
    BY PrefixAppend
<1>3. SubSeq(c, 1, m) = c /\ SubSeq(d, 1, m + 1) = d
    BY <1>1, WholePrefix
<1>4. Closed(Applied(c)) /\ Closed(ViewTx(c))
    <2>1. m \in 1..Len(c)
        BY <1>1
    <2>2. Closed(Applied(SubSeq(c, 1, m))) /\ Closed(ViewTx(SubSeq(c, 1, m)))
        BY <2>1 DEF Linked
    <2> QED BY <1>3, <2>2
<1>5. Closed(Applied(d)) /\ Closed(ViewTx(d))
    BY <1>4, ConnectsOrder
<1> HIDE DEF d, m
<1>6. ASSUME NEW n \in 2..Len(d)
      PROVE  Prev[d[n]] = d[n-1] /\ Connects(SubSeq(d, 1, n-1), d[n])
    <2>1. CASE n <= m
        <3>1. /\ n \in 2..m /\ n - 1 \in 1..m /\ d[n] = c[n] /\ d[n-1] = c[n-1]
              /\ SubSeq(d, 1, n-1) = SubSeq(c, 1, n-1)
            BY <1>1, <1>2, <2>1
        <3> QED BY <3>1 DEF Linked, m
    <2>2. CASE n = m + 1
        <3>1. d[n] = b /\ d[n-1] = c[m] /\ n - 1 = m
            BY <1>1, <2>2
        <3>2. SubSeq(d, 1, n-1) = c
            BY <1>1, <1>2, <1>3, <3>1
        <3> QED BY <1>1, <3>1, <3>2
    <2> QED BY <1>1, <2>1, <2>2
<1>7. ASSUME NEW n \in 1..Len(d)
      PROVE  Closed(Applied(SubSeq(d, 1, n))) /\ Closed(ViewTx(SubSeq(d, 1, n)))
    <2>1. CASE n <= m
        <3>1. n \in 1..m /\ SubSeq(d, 1, n) = SubSeq(c, 1, n)
            BY <1>1, <1>2, <2>1
        <3> QED BY <3>1 DEF Linked, m
    <2>2. CASE n = m + 1
        BY <1>3, <1>5, <2>2
    <2> QED BY <1>1, <2>1, <2>2
<1>8. d[1] = Base
    BY <1>1 DEF Linked
<1>9. Linked(d)
    BY <1>6, <1>7, <1>8 DEF Linked
<1> QED BY <1>9 DEF d

(* What holds of a chain holds of it without its last block, and the last  *)
(* block connects to the rest.                                             *)
LEMMA LinkedFront ==
    ASSUME NEW c \in Seq(Block), NEW b \in Block, c # <<>>, Linked(Append(c, b))
    PROVE  /\ Linked(c) /\ Prev[b] = Last(c) /\ Connects(c, b)
           /\ Closed(Applied(c)) /\ Closed(ViewTx(c))
<1> DEFINE d == Append(c, b)
           m == Len(c)
<1>1. /\ d \in Seq(Block) /\ Len(d) = m + 1 /\ m \in Nat \ {0}
      /\ \A i \in 1..m : d[i] = c[i]
      /\ d[m + 1] = b /\ Last(c) = c[m]
    BY AppendIs
<1>2. \A n \in 1..m : SubSeq(d, 1, n) = SubSeq(c, 1, n)
    BY PrefixAppend
<1>3. SubSeq(c, 1, m) = c
    BY WholePrefix
<1>4. Linked(d) /\ m = Len(c)
    OBVIOUS
<1> HIDE DEF d, m
<1>5. ASSUME NEW n \in 2..m
      PROVE  Prev[c[n]] = c[n-1] /\ Connects(SubSeq(c, 1, n-1), c[n])
    <2>1. /\ n \in 2..Len(d) /\ n - 1 \in 1..m /\ d[n] = c[n] /\ d[n-1] = c[n-1]
          /\ SubSeq(d, 1, n-1) = SubSeq(c, 1, n-1)
        BY <1>1, <1>2
    <2> QED BY <1>4, <2>1 DEF Linked
<1>6. ASSUME NEW n \in 1..m
      PROVE  Closed(Applied(SubSeq(c, 1, n))) /\ Closed(ViewTx(SubSeq(c, 1, n)))
    <2>1. n \in 1..Len(d) /\ SubSeq(d, 1, n) = SubSeq(c, 1, n)
        BY <1>1, <1>2
    <2> QED BY <1>4, <2>1 DEF Linked
<1>7. c[1] = Base
    BY <1>1, <1>4 DEF Linked
<1>8. Linked(c)
    BY <1>4, <1>5, <1>6, <1>7 DEF Linked
<1>9. Prev[b] = Last(c) /\ Connects(c, b)
    <2>1. /\ m + 1 \in 2..Len(d) /\ m + 1 - 1 = m /\ m \in 1..m
        BY <1>1
    <2>2. Prev[d[m+1]] = d[m] /\ Connects(SubSeq(d, 1, m), d[m+1])
        BY <1>4, <2>1 DEF Linked
    <2> QED BY <1>1, <1>2, <1>3, <2>1, <2>2
<1>10. Closed(Applied(c)) /\ Closed(ViewTx(c))
    <2>1. m \in 1..m
        BY <1>1
    <2>2. Closed(Applied(SubSeq(c, 1, m))) /\ Closed(ViewTx(SubSeq(c, 1, m)))
        BY <1>6, <2>1
    <2> QED BY <1>3, <2>2
<1> QED BY <1>8, <1>9, <1>10

(* What has to be confirmed or put back for a block.                       *)
LEMMA InvalidatedIs ==
    ASSUME NEW c \in Seq(Block), NEW b \in Block, c # <<>>, Prev[b] = Last(c)
    PROVE  /\ ToSet(Regular[Last(c)]) \subseteq Approved(Last(c), b) \cup ToSet(Invalidated(b))
           /\ ToSet(Invalidated(b)) \subseteq ToSet(Regular[Last(c)])
           /\ Approved(Last(c), b) \subseteq ToSet(Regular[Last(c)])
           /\ Invalidated(b) = Regular[Last(c)] \/ Invalidated(b) = <<>>
BY DEF Approved, Invalidated, ToSet

(* Calls that put back confirm nothing.                                    *)
LEMMA AcceptsOrdered ==
    ASSUME NEW txs
    PROVE  Ordered(Calls("accept", txs))
BY DEF Ordered, Calls

(* The calls that a connected block makes,                                 *)
LEMMA ConnectedCalls ==
    ASSUME NEW b \in Block, NEW last \in BOOLEAN,
           job' = Calls("accept", Invalidated(b))
                      \o Calls("confirm", Regular[b]) \o Calls("confirm", Stake[b])
                      \o (IF last THEN <<[op |-> "prune"]>> ELSE <<>>),
           Ordered(Calls("confirm", Regular[b]))
    PROVE  /\ \A x : ToConfirm(x)' <=> x \in ToSet(Regular[b]) \cup ToSet(Stake[b])
           /\ \A x : ToAccept(x)' <=> x \in ToSet(Invalidated(b))
           /\ Ordered(job')
<1> DEFINE s1 == Calls("accept", Invalidated(b))
           s2 == Calls("confirm", Regular[b])
           s3 == Calls("confirm", Stake[b])
           s4 == IF last THEN <<[op |-> "prune"]>> ELSE <<>>
           u == s1 \o s2
           v == u \o s3
<1>1. s1 \in Seq(Call) /\ s2 \in Seq(Call) /\ s3 \in Seq(Call)
    BY CallsType, InvalidatedType, TreeTypes
<1>2. s4 \in Seq(Call)
    <2>1. [op |-> "prune"] \in Call
        BY DEF Call
    <2>2. <<[op |-> "prune"]>> \in Seq(Call)
        BY <2>1
    <2> QED BY <2>2
<1>3. job' = v \o s4
    OBVIOUS
<1>4. \A op \in {"accept", "confirm"} : \A x :
         /\ Has(s1, op, x) <=> op = "accept" /\ x \in ToSet(Invalidated(b))
         /\ Has(s2, op, x) <=> op = "confirm" /\ x \in ToSet(Regular[b])
         /\ Has(s3, op, x) <=> op = "confirm" /\ x \in ToSet(Stake[b])
         /\ ~ Has(s4, op, x)
    BY HasCalls, HasPrune, HasNothing, InvalidatedType, TreeTypes
<1>5. Ordered(s1) /\ Ordered(s2) /\ Ordered(s3) /\ Ordered(s4)
    <2>1. Ordered(s4)
        <3>1. \A i \in DOMAIN s4 : s4[i].op # "confirm"
            <4>1. CASE last
                BY <4>1
            <4>2. CASE ~ last
                BY <4>2
            <4> QED BY <4>1, <4>2
        <3> HIDE DEF s4
        <3> QED BY <3>1, OrderedNoConfirm
    <2> QED BY <2>1, AcceptsOrdered, OrderedStake
<1>6. \A x \in Tx : Has(s3, "confirm", x) => ~ IsRegular(x)
    BY <1>4, TreeTypes
<1> HIDE DEF s1, s2, s3, s4
<1>7. u \in Seq(Call)
    BY <1>1
<1>8. v \in Seq(Call)
    <2> HIDE DEF u
    <2> QED BY <1>1, <1>7
<1>9. ASSUME NEW op \in {"accept", "confirm"}, NEW x
      PROVE  Has(job', op, x) <=> \/ Has(s1, op, x) \/ Has(s2, op, x) \/ Has(s3, op, x)
    <2>1. Has(u, op, x) <=> Has(s1, op, x) \/ Has(s2, op, x)
        BY <1>1, HasConcat
    <2> HIDE DEF u
    <2>2. Has(v, op, x) <=> Has(u, op, x) \/ Has(s3, op, x)
        BY <1>1, <1>7, HasConcat
    <2> HIDE DEF v
    <2>3. Has(v \o s4, op, x) <=> Has(v, op, x) \/ Has(s4, op, x)
        BY <1>2, <1>8, HasConcat
    <2>4. Has(job', op, x) <=> Has(v, op, x) \/ Has(s4, op, x)
        BY <1>3, <2>3
    <2> QED BY <1>4, <2>1, <2>2, <2>4
<1>10. Ordered(u)
    <2>1. \A x, y \in Tx : /\ Has(s1, "confirm", x) /\ Has(s2, "confirm", y)
                           /\ IsRegular(y)
                           => y \notin Parents(x)
        BY <1>4
    <2> QED BY <1>1, <1>5, <2>1, OrderedConcat
<1>11. Ordered(v)
    <2>1. \A x, y \in Tx : /\ Has(u, "confirm", x) /\ Has(s3, "confirm", y)
                           /\ IsRegular(y)
                           => y \notin Parents(x)
        BY <1>6
    <2> HIDE DEF u
    <2> QED BY <1>1, <1>5, <1>7, <1>10, <2>1, OrderedConcat
<1>12. Ordered(job')
    <2>1. \A x, y \in Tx : /\ Has(v, "confirm", x) /\ Has(s4, "confirm", y)
                           /\ IsRegular(y)
                           => y \notin Parents(x)
        BY <1>4
    <2> HIDE DEF v
    <2>2. Ordered(v \o s4)
        BY <1>2, <1>5, <1>8, <1>11, <2>1, OrderedConcat
    <2> QED BY <1>3, <2>2
<1> QED BY <1>4, <1>9, <1>12 DEF ToConfirm, ToAccept

(* and those of a disconnected one.                                        *)
LEMMA DisconnectedCalls ==
    ASSUME NEW b \in Block,
           job' = Calls("confirm", Invalidated(b))
                      \o Calls("accept", Regular[b]) \o Calls("accept", Stake[b]),
           Ordered(Calls("confirm", Invalidated(b)))
    PROVE  /\ \A x : ToConfirm(x)' <=> x \in ToSet(Invalidated(b))
           /\ \A x : ToAccept(x)' <=> x \in ToSet(Regular[b]) \cup ToSet(Stake[b])
           /\ Ordered(job')
<1> DEFINE s1 == Calls("confirm", Invalidated(b))
           s2 == Calls("accept", Regular[b])
           s3 == Calls("accept", Stake[b])
           u == s1 \o s2
<1>1. s1 \in Seq(Call) /\ s2 \in Seq(Call) /\ s3 \in Seq(Call)
    BY CallsType, InvalidatedType, TreeTypes
<1>2. job' = u \o s3
    OBVIOUS
<1>3. \A op \in {"accept", "confirm"} : \A x :
         /\ Has(s1, op, x) <=> op = "confirm" /\ x \in ToSet(Invalidated(b))
         /\ Has(s2, op, x) <=> op = "accept" /\ x \in ToSet(Regular[b])
         /\ Has(s3, op, x) <=> op = "accept" /\ x \in ToSet(Stake[b])
    BY HasCalls, InvalidatedType, TreeTypes
<1>4. Ordered(s1) /\ Ordered(s2) /\ Ordered(s3)
    BY AcceptsOrdered
<1> HIDE DEF s1, s2, s3
<1>5. u \in Seq(Call)
    BY <1>1
<1>6. ASSUME NEW op \in {"accept", "confirm"}, NEW x
      PROVE  Has(job', op, x) <=> \/ Has(s1, op, x) \/ Has(s2, op, x) \/ Has(s3, op, x)
    <2>1. Has(u, op, x) <=> Has(s1, op, x) \/ Has(s2, op, x)
        BY <1>1, HasConcat
    <2> HIDE DEF u
    <2>2. Has(u \o s3, op, x) <=> Has(u, op, x) \/ Has(s3, op, x)
        BY <1>1, <1>5, HasConcat
    <2> QED BY <1>2, <2>1, <2>2
<1>7. Ordered(u)
    <2>1. \A x, y \in Tx : /\ Has(s1, "confirm", x) /\ Has(s2, "confirm", y)
                           /\ IsRegular(y)
                           => y \notin Parents(x)
        BY <1>3
    <2> QED BY <1>1, <1>4, <2>1, OrderedConcat
<1>8. Ordered(job')
    <2>1. \A x, y \in Tx : /\ Has(u, "confirm", x) /\ Has(s3, "confirm", y)
                           /\ IsRegular(y)
                           => y \notin Parents(x)
        BY <1>3
    <2> HIDE DEF u
    <2>2. Ordered(u \o s3)
        BY <1>1, <1>4, <1>5, <1>7, <2>1, OrderedConcat
    <2> QED BY <1>2, <2>2
<1> QED BY <1>3, <1>6, <1>8 DEF ToConfirm, ToAccept

(* A connected block: what it takes out of the view is put back and what   *)
(* it brings is confirmed, a parent before its children.                   *)
LEMMA ConnectedSpend ==
    ASSUME SpendInv, NEW b \in Block, NEW last \in BOOLEAN, BlockConnected(b, last)
    PROVE  SpendInv'
<1> DEFINE w == IF Invalidated(b) = <<>> THEN {} ELSE orphans
<1>1. PoolInv /\ PoolInv'
    BY ConnectedStep DEF SpendInv
<1>2. /\ chain \in Seq(Block) /\ chain # <<>> /\ Linked(chain)
      /\ job = <<>> /\ walk.queue = <<>> /\ walk.todo = {}
      /\ Prev[b] = Last(chain) /\ Connects(chain, b) /\ chain' = Append(chain, b)
      /\ UNCHANGED <<pool, orphans, walk>>
      /\ Remember({}, {}, w)
    BY <1>1 DEF BlockConnected, Idle, Tip, PoolInv, ChainType, SpendInv, ChainInv
<1>3. ChainInv'
    <2>1. Linked(chain')
        BY <1>2, LinkedAppend
    <2> QED BY <2>1 DEF ChainInv
<1>4. Closed(Applied(chain)) /\ Closed(ViewTx(chain))
    <2>1. Len(chain) \in 1..Len(chain) /\ SubSeq(chain, 1, Len(chain)) = chain
        BY <1>2, WholePrefix
    <2>2. /\ Closed(Applied(SubSeq(chain, 1, Len(chain))))
          /\ Closed(ViewTx(SubSeq(chain, 1, Len(chain))))
        BY <1>2, <2>1 DEF Linked
    <2> QED BY <2>1, <2>2
<1> DEFINE V == ViewTx(chain)
           W == ViewTx(chain')
<1>5. /\ \A y \in W : \A o \in RealInputs(y) :
            o[1] \in ToSet(Regular[b]) => y \in ToSet(Regular[b])
      /\ Ordered(Calls("confirm", Regular[b]))
    <2>1. /\ \A y \in ViewTx(Append(chain, b)) : \A o \in RealInputs(y) :
                o[1] \in ToSet(Regular[b]) => y \in ToSet(Regular[b])
          /\ \A i, j \in DOMAIN Regular[b] :
                i <= j => Regular[b][j] \notin Parents(Regular[b][i])
        BY <1>2, <1>4, ConnectsOrder
    <2>2. Ordered(Calls("confirm", Regular[b]))
        BY <2>1, OrderedRegular
    <2> QED BY <1>2, <2>1, <2>2
<1>6. /\ \A x : ToConfirm(x)' <=> x \in ToSet(Regular[b]) \cup ToSet(Stake[b])
      /\ \A x : ToAccept(x)' <=> x \in ToSet(Invalidated(b))
      /\ Ordered(job')
    <2>1. job' = Calls("accept", Invalidated(b))
                      \o Calls("confirm", Regular[b]) \o Calls("confirm", Stake[b])
                      \o (IF last THEN <<[op |-> "prune"]>> ELSE <<>>)
        BY DEF BlockConnected
    <2> QED BY <1>5, <2>1, ConnectedCalls
<1>7. /\ V = Applied(chain) \cup ToSet(Regular[Last(chain)])
      /\ W = Applied(chain) \cup Approved(Last(chain), b)
                 \cup ToSet(Stake[b]) \cup ToSet(Regular[b])
    BY <1>2, ViewAppend DEF ViewTx
<1>8. /\ ToSet(Regular[Last(chain)]) \subseteq
            Approved(Last(chain), b) \cup ToSet(Invalidated(b))
      /\ Approved(Last(chain), b) \subseteq ToSet(Regular[Last(chain)])
    BY <1>2, InvalidatedIs
<1>9. \A x \in ToSet(Stake[b]) \cup ToSet(Regular[b]) : x \in Tx
    BY TreeTypes DEF IsRegular
<1>10. Switches(V, W)
    <2> HIDE DEF V, W
    <2> QED BY <1>6, <1>7, <1>8, <1>9 DEF Switches
<1>11. OrderInv'
    <2>1. \A x \in Tx : ToConfirm(x)' => x \in W
        BY <1>6, <1>7
    <2>2. ASSUME NEW y \in W, NEW o \in RealInputs(y), IsRegular(o[1]), ToConfirm(o[1])'
          PROVE  ToConfirm(y)'
        <3>1. o[1] \in ToSet(Regular[b])
            BY <1>6, <2>2, TreeTypes
        <3> QED BY <1>5, <1>6, <3>1
    <2> QED BY <1>6, <2>1, <2>2 DEF OrderInv, IsRegular, RealInputs
<1>12. /\ \A u \in InPool' : \A p \in Parents(u) : p \in lost \cup {} => p \in lost'
       /\ \A u \in InPool' \cup orphans' : u \notin doubted' =>
             u \notin w /\ (u \notin {} => u \notin doubted)
    <2> HIDE DEF w
    <2> QED BY <1>2, RememberIs
<1>13. BackedInv'
    <2>1. /\ \A u \in InPool' : u \notin doubted' => u \notin doubted
          /\ \A u \in InPool' : \A p \in Parents(u) : p \in lost => p \in lost'
        BY <1>12
    <2> QED BY <1>1, <1>2, <1>10, <2>1, BackedSwitch DEF SpendInv
<1>14. WaitInv'
    <2>1. walk.todo' \subseteq orphans'
        BY <1>2
    <2>2. ASSUME NEW t \in orphans', t \notin doubted'
          PROVE  \E p \in Parents(t) : WaitsFor(p)'
        <3>1. t \in orphans \ doubted /\ t \notin w
            BY <1>2, <1>12, <2>2
        <3>2. Invalidated(b) = <<>>
            BY <3>1
        <3>3. V \subseteq W
            <4>1. ToSet(Invalidated(b)) = {}
                BY <3>2 DEF ToSet
            <4> QED BY <1>7, <1>8, <4>1
        <3>4. PICK p \in Parents(t) : WaitsFor(p)
            BY <1>2, <3>1 DEF SpendInv, WaitInv
        <3>5. Missing(p)
            BY <1>2, <3>4, HasNothing, QueueEmpty DEF WaitsFor, ToConfirm
        <3>6. InPool' = InPool
            BY <1>2 DEF InPool
        <3>7. FetchUtxoView(TRUE) = UnspentOf(V) /\ FetchUtxoView(TRUE)' = UnspentOf(W)
            BY ViewIs DEF FetchUtxoView, ViewTx, Tip
        <3> HIDE DEF V, W
        <3>8. ASSUME NEW o \in UnspentOf(W), o[1] = p
              PROVE  ToConfirm(p)'
            <4>1. p \in W /\ o \in Coins(p) /\ \A x \in W : o \notin Inputs[x]
                BY <3>8, UnspentElem, CoinOf
            <4>2. p \notin V
                <5>1. SUFFICES ASSUME p \in V PROVE FALSE
                    OBVIOUS
                <5>2. /\ \E x \in V : o \in Coins(x)
                      /\ \A x \in V : o \notin Inputs[x]
                    BY <3>3, <4>1, <5>1
                <5>3. o \in UnspentOf(V)
                    BY <5>2, UnspentElem
                <5> QED BY <3>5, <3>7, <3>8, <5>3 DEF Missing, EntryIn
            <4> QED BY <1>10, <4>1, <4>2 DEF Switches
        <3>9. ToConfirm(p)' \/ Missing(p)'
            BY <3>5, <3>6, <3>7, <3>8 DEF Missing, EntryIn
        <3> QED BY <3>9 DEF WaitsFor
    <2> QED BY <2>1, <2>2 DEF WaitInv, Parents, RealInputs
<1> QED BY <1>1, <1>3, <1>11, <1>13, <1>14 DEF SpendInv

(* The tree that a disconnected block had invalidated.                     *)
LEMMA TreeBefore ==
    ASSUME NEW c \in Seq(Block), c # <<>>, Linked(c)
    PROVE  /\ \A y \in ViewTx(c) : \A o \in RealInputs(y) :
                 o[1] \in ToSet(Regular[Last(c)]) => y \in ToSet(Regular[Last(c)])
           /\ Ordered(Calls("confirm", Regular[Last(c)]))
<1>1. CASE Len(c) = 1
    <2>1. Last(c) = Base
        BY <1>1 DEF Linked, Last
    <2>2. Regular[Last(c)] = <<>>
        BY <2>1, PoolAssumption
    <2>3. ToSet(Regular[Last(c)]) = {} /\ Ordered(Calls("confirm", Regular[Last(c)]))
        BY <2>2 DEF ToSet, Ordered, Calls
    <2> QED BY <2>3
<1>2. CASE Len(c) > 1
    <2> DEFINE f == Front(c)
               b == Last(c)
    <2>1. f \in Seq(Block) /\ f # <<>> /\ b \in Block /\ c = Append(f, b)
        BY <1>2, ChainFront
    <2> HIDE DEF f, b
    <2>2. Connects(f, b) /\ Closed(Applied(f)) /\ Closed(ViewTx(f))
        BY <2>1, LinkedFront
    <2>3. /\ \A y \in ViewTx(c) : \A o \in RealInputs(y) :
                o[1] \in ToSet(Regular[b]) => y \in ToSet(Regular[b])
          /\ \A i, j \in DOMAIN Regular[b] :
                i <= j => Regular[b][j] \notin Parents(Regular[b][i])
        BY <2>1, <2>2, ConnectsOrder
    <2>4. Ordered(Calls("confirm", Regular[b]))
        BY <2>1, <2>3, OrderedRegular
    <2> QED BY <2>3, <2>4 DEF b
<1>3. Len(c) \in Nat /\ Len(c) # 0
    BY LenProperties, EmptySeq
<1>4. \A n \in Nat : n # 0 => n = 1 \/ n > 1
    OBVIOUS
<1>5. Len(c) = 1 \/ Len(c) > 1
    BY <1>3, <1>4
<1> QED BY <1>1, <1>2, <1>5

(* A disconnected block: its transactions are put back, and the tree that  *)
(* it had invalidated is confirmed.                                        *)
LEMMA DisconnectedSpend ==
    ASSUME SpendInv, BlockDisconnected
    PROVE  SpendInv'
<1> DEFINE c == Front(chain)
           b == Last(chain)
<1>1. PoolInv /\ PoolInv'
    BY DisconnectedStep DEF SpendInv
<1>2. /\ chain \in Seq(Block) /\ Len(chain) > 1 /\ Linked(chain)
      /\ job = <<>> /\ walk.queue = <<>> /\ walk.todo = {}
      /\ chain' = c
      /\ job' = Calls("confirm", Invalidated(b))
                    \o Calls("accept", Regular[b]) \o Calls("accept", Stake[b])
      /\ UNCHANGED <<pool, orphans, walk>>
      /\ Remember({}, {}, orphans)
    BY <1>1 DEF BlockDisconnected, Idle, Tip, PoolInv, ChainType, SpendInv, ChainInv
<1>3. c \in Seq(Block) /\ c # <<>> /\ b \in Block /\ chain = Append(c, b)
    BY <1>2, ChainFront
<1> HIDE DEF c, b
<1>4. Linked(c) /\ Prev[b] = Last(c)
    BY <1>2, <1>3, LinkedFront
<1>5. ChainInv'
    BY <1>2, <1>4 DEF ChainInv
<1> DEFINE V == ViewTx(chain)
           W == ViewTx(chain')
<1>6. /\ W = Applied(c) \cup ToSet(Regular[Last(c)])
      /\ V = Applied(c) \cup Approved(Last(c), b) \cup ToSet(Stake[b]) \cup ToSet(Regular[b])
    BY <1>2, <1>3, ViewAppend DEF ViewTx
<1>7. /\ ToSet(Regular[Last(c)]) \subseteq Approved(Last(c), b) \cup ToSet(Invalidated(b))
      /\ ToSet(Invalidated(b)) \subseteq ToSet(Regular[Last(c)])
      /\ Approved(Last(c), b) \subseteq ToSet(Regular[Last(c)])
      /\ Invalidated(b) = Regular[Last(c)] \/ Invalidated(b) = <<>>
    BY <1>3, <1>4, InvalidatedIs
<1>8. /\ \A y \in W : \A o \in RealInputs(y) :
            o[1] \in ToSet(Regular[Last(c)]) => y \in ToSet(Regular[Last(c)])
      /\ Ordered(Calls("confirm", Regular[Last(c)]))
    BY <1>2, <1>3, <1>4, TreeBefore
<1>9. Ordered(Calls("confirm", Invalidated(b)))
    <2>1. Ordered(Calls("confirm", <<>>))
        BY DEF Ordered, Calls
    <2> QED BY <1>7, <1>8, <2>1
<1>10. /\ \A x : ToConfirm(x)' <=> x \in ToSet(Invalidated(b))
       /\ \A x : ToAccept(x)' <=> x \in ToSet(Regular[b]) \cup ToSet(Stake[b])
       /\ Ordered(job')
    BY <1>2, <1>3, <1>9, DisconnectedCalls
<1>11. \A x \in ToSet(Invalidated(b)) : x \in Tx
    <2>1. Last(c) \in Block
        BY <1>3 DEF Last
    <2> QED BY <1>7, <2>1, TreeTypes DEF IsRegular
<1>12. Switches(V, W)
    <2> HIDE DEF V, W
    <2> QED BY <1>6, <1>7, <1>10, <1>11 DEF Switches
<1>13. OrderInv'
    <2>1. \A x \in Tx : ToConfirm(x)' => x \in W
        BY <1>6, <1>7, <1>10
    <2>2. ASSUME NEW y \in W, NEW o \in RealInputs(y), IsRegular(o[1]), ToConfirm(o[1])'
          PROVE  ToConfirm(y)'
        <3>1. o[1] \in ToSet(Invalidated(b))
            BY <1>10, <2>2
        <3>2. Invalidated(b) = Regular[Last(c)]
            BY <1>7, <3>1 DEF ToSet
        <3>3. y \in ToSet(Invalidated(b))
            BY <1>8, <3>1, <3>2
        <3> QED BY <1>10, <3>3
    <2> QED BY <1>10, <2>1, <2>2 DEF OrderInv, IsRegular, RealInputs
<1>14. /\ \A u \in InPool' : \A p \in Parents(u) : p \in lost \cup {} => p \in lost'
       /\ \A u \in InPool' \cup orphans' : u \notin doubted' =>
             u \notin orphans /\ (u \notin {} => u \notin doubted)
    BY <1>2, RememberIs
<1>15. BackedInv'
    <2>1. /\ \A u \in InPool' : u \notin doubted' => u \notin doubted
          /\ \A u \in InPool' : \A p \in Parents(u) : p \in lost => p \in lost'
        BY <1>14
    <2> QED BY <1>1, <1>2, <1>12, <2>1, BackedSwitch DEF SpendInv
<1>16. WaitInv'
    <2>1. walk.todo' \subseteq orphans'
        BY <1>2
    <2>2. \A t \in orphans' : t \in doubted'
        BY <1>2, <1>14
    <2> QED BY <2>1, <2>2 DEF WaitInv
<1> QED BY <1>1, <1>5, <1>13, <1>15, <1>16 DEF SpendInv

-----------------------------------------------------------------------------
(* The invariant holds of the empty pool over the first block.             *)
LEMMA SpendInit == Init => SpendInv
<1> SUFFICES ASSUME Init PROVE SpendInv
    OBVIOUS
<1>1. PoolInv
    BY PoolInit
<1>2. /\ chain = <<Base>> /\ InPool = {} /\ orphans = {} /\ job = <<>>
      /\ walk.todo = {}
    BY DEF Init, InPool
<1>3. OrderInv
    <2>1. \A x : ~ ToConfirm(x)
        BY <1>2, HasNothing DEF ToConfirm
    <2>2. Ordered(job)
        BY <1>2 DEF Ordered
    <2> QED BY <2>1, <2>2 DEF OrderInv
<1>4. ChainInv
    <2>1. Base \in Block /\ Regular[Base] = <<>> /\ Stake[Base] = <<>>
        BY PoolAssumption
    <2>2. chain \in Seq(Block) /\ Len(chain) = 1 /\ chain[1] = Base /\ Last(chain) = Base
        BY <1>2, <2>1 DEF Last
    <2>3. ToSet(Regular[Base]) = {} /\ ToSet(Stake[Base]) = {}
        BY <2>1 DEF ToSet
    <2>4. ASSUME NEW x \in Applied(chain)
          PROVE  x \in BaseTx
        <3>1. \A i \in 1..Len(chain) : i = 1 /\ ~ (i < Len(chain))
            BY <2>2
        <3> QED BY <2>2, <2>3, <3>1, AppliedElem
    <2>5. ASSUME NEW x \in BaseTx
          PROVE  x \in Applied(chain)
        BY <2>2, AppliedElem
    <2>6. Applied(chain) = BaseTx /\ ViewTx(chain) = BaseTx
        BY <2>2, <2>3, <2>4, <2>5 DEF ViewTx
    <2>7. Closed(BaseTx)
        BY InputAssumption DEF Closed, RealInputs, Coins
    <2>8. SubSeq(chain, 1, 1) = chain
        BY <2>2, WholePrefix
    <2>9. /\ \A n \in 1..Len(chain) : n = 1
          /\ \A n \in 2..Len(chain) : FALSE
        BY <2>2
    <2> QED BY <2>2, <2>6, <2>7, <2>8, <2>9 DEF ChainInv, Linked
<1>5. BackedInv /\ WaitInv
    BY <1>2 DEF BackedInv, WaitInv
<1> QED BY <1>1, <1>3, <1>4, <1>5 DEF SpendInv

(* Whatever a transaction of the pool spends is backed at every step of a  *)
(* notification, and every orphan is waiting for a good reason.            *)
THEOREM SpendInvariant == Spec => []SpendInv
<1>1. SpendInv /\ [Next]_vars => SpendInv'
    <2> SUFFICES ASSUME SpendInv, [Next]_vars PROVE SpendInv'
        OBVIOUS
    <2>1. CASE \E t \in Tx, policy, allowOrphan \in BOOLEAN :
                  ProcessTransaction(t, policy, allowOrphan)
        BY <2>1, ProcessSpend
    <2>2. CASE \E b \in Block, last \in BOOLEAN : BlockConnected(b, last)
        BY <2>2, ConnectedSpend
    <2>3. CASE BlockDisconnected
        BY <2>3, DisconnectedSpend
    <2>4. CASE WalkNext
        BY <2>4, WalkNextSpend
    <2>5. CASE \E t \in walk.todo, policy \in BOOLEAN : WalkOrphan(t, policy)
        BY <2>5, WalkOrphanSpend
    <2>6. CASE \E policy \in BOOLEAN : PutBack(policy)
        BY <2>6, PutBackSpend
    <2>7. CASE Confirm
        BY <2>7, ConfirmSpend
    <2>8. CASE Prune
        BY <2>8, PruneSpend
    <2>9. CASE UNCHANGED vars
        <3>1. UNCHANGED <<chain, pool, orphans, orphansByPrev, outpoints, votes,
                          job, walk, lost, doubted>>
            BY <2>9 DEF vars
        <3>2. PoolInv'
            BY <2>9, PoolUnchanged DEF SpendInv
        <3>3. ChainInv' /\ OrderInv'
            BY <3>1, ChainSame, OrderSame DEF SpendInv
        <3>4. \A x : ToConfirm(x)' = ToConfirm(x) /\ ToAccept(x)' = ToAccept(x)
            BY <3>1 DEF ToConfirm, ToAccept
        <3>5. BackedInv'
            BY <3>1, <3>4, SameView DEF SpendInv, BackedInv, Good, Backed, SpentLater,
                    SpendsTicket, Coins, IsRegular, InPool
        <3>6. WaitInv'
            <4>1. walk' = walk /\ InPool' = InPool
                BY <3>1 DEF InPool
            <4>2. walk.todo' \subseteq orphans'
                BY <3>1, <4>1 DEF SpendInv, WaitInv
            <4> QED BY <3>1, <3>4, <4>1, <4>2, WaitStays DEF SpendInv
        <3> QED BY <3>2, <3>3, <3>5, <3>6 DEF SpendInv
    <2> QED BY <2>1, <2>2, <2>3, <2>4, <2>5, <2>6, <2>7, <2>8, <2>9 DEF Next
<1> QED BY <1>1, SpendInit, PTL DEF Spec

(* For any blocks and transactions: whatever a regular transaction or a    *)
(* ticket of the memory pool spends is unspent in the chain or made in     *)
(* the pool once blockHandler is idle, unless a parent could not be put    *)
(* back or the votes were against the tip.                                 *)
THEOREM PoolIsSpendable == Spec => []PoolSpendable
<1>1. SpendInv => PoolSpendable
    <2> SUFFICES ASSUME SpendInv, Idle, NEW t \in InPool, ~ SpendsTicket(t),
                        t \notin doubted, NEW o \in Inputs[t]
                 PROVE  \/ o \in FetchUtxoView(TRUE)
                        \/ o[1] \in InPool
                        \/ o[1] \in lost
        BY DEF PoolSpendable
    <2>1. Backed(o)
        BY DEF SpendInv, BackedInv, Good
    <2>2. job = <<>>
        BY DEF Idle
    <2> QED BY <2>1, <2>2, HasNothing DEF Backed, ToAccept, ToConfirm
<1> QED BY <1>1, SpendInvariant, PTL

(* For any blocks and transactions: when blockHandler is idle every        *)
(* orphan lacks a parent, unless it waited while blocks were disconnected  *)
(* or invalidated or its parent was put back.                              *)
THEOREM OrphansAreAdopted == Spec => []OrphansAdopted
<1>1. SpendInv => OrphansAdopted
    <2> SUFFICES ASSUME SpendInv, Idle, NEW t \in orphans \ doubted
                 PROVE  \E p \in Parents(t) :
                            ~ EntryIn(FetchUtxoView(TRUE), p) /\ p \notin InPool
        BY DEF OrphansAdopted
    <2>1. job = <<>> /\ walk.queue = <<>> /\ walk.todo = {}
        BY DEF Idle
    <2>2. PICK p \in Parents(t) : WaitsFor(p)
        BY <2>1 DEF SpendInv, WaitInv
    <2>3. Missing(p)
        BY <2>1, <2>2, HasNothing, QueueEmpty DEF WaitsFor, ToConfirm
    <2> QED BY <2>3 DEF Missing
<1> QED BY <1>1, SpendInvariant, PTL
=============================================================================
