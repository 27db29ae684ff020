-------------------------- MODULE OrphanPoolProofs --------------------------
(* Proofs about the orphan pool, for every set of blocks and every limit.  *)
EXTENDS OrphanPool, OrderLemmas, FiniteSetTheorems, TLAPS

(* The limit is exceeded only while oldestOrphan is nil: a stale pointer   *)
(* lets one insertion through, and is cleared by it.  This is what makes   *)
(* PoolBound inductive.                                                    *)
LimitByPointer ==
    /\ IsFiniteSet(Orphans)
    /\ Cardinality(Orphans) =< MaxOrphanBlocks + 1
    /\ oldestOrphan # NoOrphan => Cardinality(Orphans) =< MaxOrphanBlocks

(* The inductive invariant. *)
IInv ==
    /\ TypeOK
    /\ PoolIndexed
    /\ OrphansUnknown
    /\ LimitByPointer
    /\ StrandedOnlyByError

-----------------------------------------------------------------------------
(* What Unlist leaves to each parent. *)
LEMMA UnlistChildren ==
    ASSUME NEW po, po \in [DOMAIN po -> SUBSET Block],
           NEW gone, NEW p
    PROVE  /\ Children(Unlist(po, gone), p)
                 = {b \in Children(po, p) : ~ (b \in gone /\ Prev[b] = p)}
           /\ p \in DOMAIN Unlist(po, gone) => p \in DOMAIN po
           /\ p \in DOMAIN Unlist(po, gone)
                 => Children(Unlist(po, gone), p) # {}
           /\ Unlist(po, gone) \in
                 [DOMAIN Unlist(po, gone) -> SUBSET Block]
BY DEF Unlist, Children

(* What Enlist adds to each parent. *)
LEMMA EnlistChildren ==
    ASSUME NEW po, po \in [DOMAIN po -> SUBSET Block],
           NEW b \in Block, NEW p
    PROVE  /\ Children(Enlist(po, b), p) =
                 Children(po, p) \cup (IF p = Prev[b] THEN {b} ELSE {})
           /\ DOMAIN Enlist(po, b) = DOMAIN po \cup {Prev[b]}
           /\ Enlist(po, b) \in [DOMAIN Enlist(po, b) -> SUBSET Block]
BY DEF Enlist, Children

(* The pointer after the scan is nil only if nothing was left to scan; it  *)
(* names a fresh orphan if it was nil before.                              *)
LEMMA ScanResult ==
    ASSUME TypeOK, BlockAssumption, NEW oldest \in OldestAfterScan
    PROVE  /\ oldest \in OrphanBlock \cup {NoOrphan}
           /\ oldestOrphan = NoOrphan /\ Fresh # {}
                 => oldest.block \in Fresh
           /\ oldest # NoOrphan \/ Fresh = {}
<1> DEFINE earliest == {b \in Fresh : \A c \in Fresh : orphans[b] =< orphans[c]}
           moving == {b \in earliest :
                         \/ oldestOrphan = NoOrphan
                         \/ orphans[b] < oldestOrphan.expiration}
<1>1. /\ orphans \in [Orphans -> Nat]
      /\ Fresh \subseteq Orphans
      /\ Orphans \subseteq Block
  BY DEF TypeOK, Fresh
<1>2. ASSUME Fresh # {} PROVE earliest # {}
  <2> DEFINE times == {orphans[b] : b \in Fresh}
  <2>1. times \subseteq Nat /\ times # {}
    BY <1>1, <1>2
  <2>2. PICK t \in times : \A u \in times : t =< u
    BY <2>1, LeastNatural
  <2> QED BY <2>2, <1>1
<1>3. CASE moving = {}
  <2>1. oldest = oldestOrphan
    BY <1>3 DEF OldestAfterScan
  <2>2. oldestOrphan = NoOrphan => Fresh = {}
    BY <1>2, <1>3
  <2> QED BY <2>1, <2>2 DEF TypeOK
<1>4. CASE moving # {}
  <2>1. PICK b \in moving : oldest = [block |-> b, expiration |-> orphans[b]]
    BY <1>4 DEF OldestAfterScan
  <2>2. b \in Fresh /\ b \in Block /\ orphans[b] \in Nat
    BY <1>1
  <2>3. oldest.block = b /\ oldest \in OrphanBlock
    BY <2>1, <2>2 DEF OrphanBlock
  <2>4. oldest # NoOrphan
    BY <2>2, <2>3, BlockAssumption DEF NoOrphan
  <2> QED BY <2>2, <2>3, <2>4
<1> QED BY <1>3, <1>4

-----------------------------------------------------------------------------
(* addOrphanBlock keeps the limit up to one stale pointer. *)
LEMMA AddWithinLimit ==
    ASSUME TypeOK, LimitByPointer, BlockAssumption, LimitAssumption,
           NEW b \in Block, b \notin Orphans, addOrphanBlock(b)
    PROVE  LimitByPointer'
<1>1. PICK oldest \in OldestAfterScan :
         LET evicted == IF AtLimit THEN {oldest.block} ELSE {}
             left == Fresh \ evicted
         IN  /\ orphans' = [c \in left \cup {b} |->
                               IF c = b THEN Expiration ELSE orphans[c]]
             /\ oldestOrphan' = IF AtLimit THEN NoOrphan ELSE oldest
  BY DEF addOrphanBlock
<1> DEFINE evicted == IF AtLimit THEN {oldest.block} ELSE {}
           left == Fresh \ evicted
<1>2. Orphans' = left \cup {b} /\ b \notin left
  BY <1>1 DEF Orphans, Fresh
<1>3. /\ IsFiniteSet(Fresh) /\ Cardinality(Fresh) \in Nat
      /\ Cardinality(Fresh) =< Cardinality(Orphans)
      /\ Cardinality(Orphans) \in Nat
  BY FS_Subset, FS_CardinalityType DEF LimitByPointer, Fresh
<1>4. /\ IsFiniteSet(left) /\ Cardinality(left) \in Nat
      /\ Cardinality(left) =< Cardinality(Fresh)
  BY <1>3, FS_Subset, FS_CardinalityType
<1>5. /\ IsFiniteSet(Orphans')
      /\ Cardinality(Orphans') = Cardinality(left) + 1
  BY <1>2, <1>4, FS_AddElement
<1>6. CASE ~ AtLimit
  <2>1. Cardinality(left) + 1 =< MaxOrphanBlocks
    BY <1>3, <1>6, <1>4, LimitAssumption DEF AtLimit
  <2> QED BY <2>1, <1>4, <1>5, LimitAssumption DEF LimitByPointer
<1>7. CASE AtLimit
  <2>1. oldestOrphan' = NoOrphan
    BY <1>1, <1>7
  <2>2. CASE oldestOrphan # NoOrphan
    BY <1>3, <1>4, <1>5, <2>1, <2>2, LimitAssumption DEF LimitByPointer
  <2>3. CASE oldestOrphan = NoOrphan
    <3>1. Fresh # {}
      BY <1>3, <1>7, FS_EmptySet, LimitAssumption DEF AtLimit
    <3>2. oldest.block \in Fresh
      BY <2>3, <3>1, ScanResult
    <3>3. Cardinality(left) = Cardinality(Fresh) - 1
      BY <1>3, <1>7, <3>2, FS_RemoveElement
    <3> QED BY <1>3, <1>4, <1>5, <2>1, <3>3, LimitAssumption
            DEF LimitByPointer
  <2> QED BY <2>2, <2>3
<1> QED BY <1>6, <1>7

(* addOrphanBlock keeps the two maps in agreement. *)
LEMMA AddIndexed ==
    ASSUME TypeOK, PoolIndexed, BlockAssumption,
           NEW b \in Block, b \notin Orphans, addOrphanBlock(b)
    PROVE  PoolIndexed'
<1>1. PICK oldest \in OldestAfterScan :
         LET evicted == IF AtLimit THEN {oldest.block} ELSE {}
             left == Fresh \ evicted
         IN  /\ orphans' = [c \in left \cup {b} |->
                               IF c = b THEN Expiration ELSE orphans[c]]
             /\ prevOrphans' =
                   Enlist(Unlist(prevOrphans, Expired \cup evicted), b)
  BY DEF addOrphanBlock
<1> DEFINE evicted == IF AtLimit THEN {oldest.block} ELSE {}
           gone == Expired \cup evicted
           po == Unlist(prevOrphans, gone)
<1> HIDE DEF evicted, po
<1>2. Orphans' = (Orphans \ gone) \cup {b}
  BY <1>1 DEF Orphans, Fresh, evicted
<1>3. prevOrphans \in [DOMAIN prevOrphans -> SUBSET Block]
  BY DEF TypeOK
<1>4. po \in [DOMAIN po -> SUBSET Block]
  BY <1>3, UnlistChildren DEF po
<1>5. prevOrphans' = Enlist(po, b)
  BY <1>1 DEF po, evicted
<1>6. ASSUME NEW p \in Hash
      PROVE  /\ Children(prevOrphans', p) = {c \in Orphans' : Prev[c] = p}
             /\ p \in DOMAIN prevOrphans' => Children(prevOrphans', p) # {}
  <2>1. /\ Children(prevOrphans', p) =
             Children(po, p) \cup (IF p = Prev[b] THEN {b} ELSE {})
        /\ DOMAIN prevOrphans' = DOMAIN po \cup {Prev[b]}
    BY <1>4, <1>5, EnlistChildren
  <2>2. /\ Children(po, p) = {c \in Children(prevOrphans, p) :
                                 ~ (c \in gone /\ Prev[c] = p)}
        /\ p \in DOMAIN po => Children(po, p) # {}
    BY <1>3, UnlistChildren DEF po
  <2>3. Children(prevOrphans, p) = {c \in Orphans : Prev[c] = p}
    BY DEF PoolIndexed
  <2> QED BY <1>2, <2>1, <2>2, <2>3
<1> QED BY <1>6 DEF PoolIndexed

(* removeOrphanBlock keeps the two maps in agreement. *)
LEMMA RemoveIndexed ==
    ASSUME TypeOK, PoolIndexed,
           NEW b \in Orphans, removeOrphanBlock(b)
    PROVE  PoolIndexed' /\ Orphans' = Orphans \ {b}
<1>1. Orphans' = Orphans \ {b}
  BY DEF removeOrphanBlock, Orphans
<1> DEFINE po == Unlist(prevOrphans, {b})
<1> HIDE DEF po
<1>0. prevOrphans' = po
  BY DEF removeOrphanBlock, po
<1>2. ASSUME NEW p \in Hash
      PROVE  /\ Children(prevOrphans', p) = {c \in Orphans' : Prev[c] = p}
             /\ p \in DOMAIN prevOrphans' => Children(prevOrphans', p) # {}
  <2>0. prevOrphans \in [DOMAIN prevOrphans -> SUBSET Block]
    BY DEF TypeOK
  <2>1. /\ Children(po, p) = {c \in Children(prevOrphans, p) :
                                 ~ (c \in {b} /\ Prev[c] = p)}
        /\ p \in DOMAIN po => Children(po, p) # {}
    BY <2>0, UnlistChildren DEF po
  <2>2. Children(prevOrphans, p) = {c \in Orphans : Prev[c] = p}
    BY DEF PoolIndexed
  <2> QED BY <1>0, <1>1, <2>1, <2>2
<1> QED BY <1>1, <1>2 DEF PoolIndexed

(* The types after addOrphanBlock and removeOrphanBlock. *)
PoolTypeOK ==
    /\ Orphans \in SUBSET Block
    /\ orphans \in [Orphans -> Nat]
    /\ DOMAIN prevOrphans \in SUBSET Hash
    /\ prevOrphans \in [DOMAIN prevOrphans -> SUBSET Block]
    /\ oldestOrphan \in OrphanBlock \cup {NoOrphan}

(* addOrphanBlock keeps the types.                                         *)
LEMMA AddTypes ==
    ASSUME TypeOK, BlockAssumption, LimitAssumption,
           NEW b \in Block, addOrphanBlock(b)
    PROVE  PoolTypeOK'
<1>1. PICK oldest \in OldestAfterScan :
         LET evicted == IF AtLimit THEN {oldest.block} ELSE {}
             left == Fresh \ evicted
         IN  /\ orphans' = [c \in left \cup {b} |->
                               IF c = b THEN Expiration ELSE orphans[c]]
             /\ prevOrphans' =
                   Enlist(Unlist(prevOrphans, Expired \cup evicted), b)
             /\ oldestOrphan' = IF AtLimit THEN NoOrphan ELSE oldest
  BY DEF addOrphanBlock
<1> DEFINE evicted == IF AtLimit THEN {oldest.block} ELSE {}
           po == Unlist(prevOrphans, Expired \cup evicted)
<1>2. Orphans' \in SUBSET Block /\ orphans' \in [Orphans' -> Nat]
  BY <1>1, LimitAssumption DEF TypeOK, Orphans, Fresh, Expiration
<1>3. oldestOrphan' \in OrphanBlock \cup {NoOrphan}
  BY <1>1, ScanResult
<1>4. po \in [DOMAIN po -> SUBSET Block] /\ DOMAIN po \subseteq Hash
  BY UnlistChildren DEF TypeOK
<1>5. /\ prevOrphans' \in [DOMAIN prevOrphans' -> SUBSET Block]
      /\ DOMAIN prevOrphans' = DOMAIN po \cup {Prev[b]}
  BY <1>1, <1>4, EnlistChildren
<1> QED BY <1>2, <1>3, <1>4, <1>5, BlockAssumption DEF PoolTypeOK, Hash

(* removeOrphanBlock keeps the types.                                      *)
LEMMA RemoveTypes ==
    ASSUME TypeOK, NEW b \in Orphans, removeOrphanBlock(b)
    PROVE  PoolTypeOK'
BY UnlistChildren DEF TypeOK, PoolTypeOK, removeOrphanBlock, Orphans

-----------------------------------------------------------------------------
(* The invariant holds of the empty pool.                                  *)
LEMMA InitIInv == Init => IInv
<1> SUFFICES ASSUME Init PROVE IInv
  OBVIOUS
<1>1. Orphans = {} /\ DOMAIN prevOrphans = {}
  BY DEF Init, Orphans
<1>2. TypeOK
  BY <1>1 DEF Init, TypeOK, Hash, Replies
<1>3. PoolIndexed /\ OrphansUnknown /\ StrandedOnlyByError
  BY <1>1 DEF PoolIndexed, OrphansUnknown, StrandedOnlyByError, Children
<1>4. LimitByPointer
  BY <1>1, FS_EmptySet, LimitAssumption DEF LimitByPointer, Init
<1> QED BY <1>2, <1>3, <1>4 DEF IInv

(* An orphan that leaves the pool and is handed to maybeAcceptBlock. *)
LEMMA OrphanLeaves ==
    ASSUME IInv, ~ Idle,
           NEW b \in Children(prevOrphans, Head(processHashes)),
           removeOrphanBlock(b)
    PROVE  /\ b \in Orphans /\ b \in Block
           /\ Prev[b] = Head(processHashes)
           /\ Orphans' = Orphans \ {b}
           /\ PoolTypeOK' /\ PoolIndexed' /\ LimitByPointer'
<1>1. Head(processHashes) \in Hash
  BY DEF IInv, TypeOK, Idle
<1>2. b \in Orphans /\ Prev[b] = Head(processHashes)
  BY <1>1 DEF IInv, PoolIndexed
<1>3. PoolTypeOK' /\ PoolIndexed' /\ Orphans' = Orphans \ {b}
  BY <1>2, RemoveTypes, RemoveIndexed DEF IInv
<1>4. /\ IsFiniteSet(Orphans') /\ Cardinality(Orphans') \in Nat
      /\ Cardinality(Orphans') =< Cardinality(Orphans)
      /\ Cardinality(Orphans) \in Nat
  BY <1>3, FS_Subset, FS_CardinalityType DEF IInv, LimitByPointer
<1>5. LimitByPointer'
  BY <1>4, LimitAssumption DEF IInv, LimitByPointer, removeOrphanBlock
<1>6. b \in Block
  BY <1>2 DEF IInv, TypeOK
<1> QED BY <1>2, <1>3, <1>5, <1>6

(* Steps that leave the pool alone keep what is said of it. *)
LEMMA PoolUnchanged ==
    ASSUME IInv, UNCHANGED pool
    PROVE  PoolTypeOK' /\ PoolIndexed' /\ LimitByPointer' /\ Orphans' = Orphans
BY DEF IInv, TypeOK, PoolTypeOK, PoolIndexed, LimitByPointer, pool, Orphans,
       Children

(* Every step keeps it.                                                    *)
LEMMA NextIInv == IInv /\ [Next]_vars => IInv'
<1> SUFFICES ASSUME IInv, [Next]_vars PROVE IInv'
  OBVIOUS
<1> USE BlockAssumption, LimitAssumption
<1>0. TypeOK /\ PoolTypeOK
  BY DEF IInv, TypeOK, PoolTypeOK
<1>1. ASSUME NEW b \in Block, ProcessDuplicate(b) PROVE IInv'
  <2>1. PoolTypeOK' /\ PoolIndexed' /\ LimitByPointer' /\ Orphans' = Orphans
    BY <1>1, PoolUnchanged DEF ProcessDuplicate
  <2>2. TypeOK'
    BY <1>0, <1>1, <2>1 DEF TypeOK, PoolTypeOK, ProcessDuplicate, Replies
  <2>3. OrphansUnknown' /\ StrandedOnlyByError'
    BY <1>1, <2>1 DEF IInv, ProcessDuplicate, OrphansUnknown,
                      StrandedOnlyByError
  <2> QED BY <2>1, <2>2, <2>3 DEF IInv
<1>2. ASSUME NEW b \in Block, ProcessOrphan(b) PROVE IInv'
  <2>1. PoolTypeOK' /\ PoolIndexed' /\ LimitByPointer'
    BY <1>2, AddTypes, AddIndexed, AddWithinLimit DEF IInv, ProcessOrphan
  <2>2. TypeOK'
    BY <1>0, <1>2, <2>1 DEF TypeOK, PoolTypeOK, ProcessOrphan, Replies
  <2>3. Orphans' \subseteq Orphans \cup {b}
    BY <1>2 DEF ProcessOrphan, addOrphanBlock, Orphans, Fresh
  <2>4. OrphansUnknown' /\ StrandedOnlyByError'
    BY <1>2, <2>3 DEF IInv, ProcessOrphan, OrphansUnknown,
                      StrandedOnlyByError
  <2> QED BY <2>1, <2>2, <2>4 DEF IInv
<1>3. ASSUME NEW b \in Block, ProcessWrongKeyHash(b) PROVE IInv'
  <2>1. PoolTypeOK' /\ PoolIndexed' /\ LimitByPointer' /\ Orphans' = Orphans
    BY <1>3, PoolUnchanged DEF ProcessWrongKeyHash
  <2>2. TypeOK'
    BY <1>0, <1>3, <2>1 DEF TypeOK, PoolTypeOK, ProcessWrongKeyHash, Replies
  <2>3. OrphansUnknown' /\ StrandedOnlyByError'
    BY <1>3, <2>1 DEF IInv, ProcessWrongKeyHash, OrphansUnknown,
                      StrandedOnlyByError
  <2> QED BY <2>1, <2>2, <2>3 DEF IInv
<1>4. ASSUME NEW b \in Block, ProcessAccepted(b) PROVE IInv'
  <2>1. PoolTypeOK' /\ PoolIndexed' /\ LimitByPointer' /\ Orphans' = Orphans
    BY <1>4, PoolUnchanged DEF ProcessAccepted
  <2>2. TypeOK'
    BY <1>0, <1>4, <2>1
       DEF TypeOK, PoolTypeOK, ProcessAccepted, Accepts, Hash
  <2>3. OrphansUnknown'
    BY <1>4, <2>1 DEF IInv, ProcessAccepted, Connectable, Accepts,
                      OrphansUnknown
  <2>4. b \in Elems(processHashes') /\ Elems(processHashes) = {}
    BY <1>4 DEF ProcessAccepted, Connectable, Idle, Elems
  <2>5. StrandedOnlyByError'
    BY <1>4, <2>1, <2>4 DEF IInv, ProcessAccepted, Accepts,
                            StrandedOnlyByError
  <2> QED BY <2>1, <2>2, <2>3, <2>5 DEF IInv
<1>5. ASSUME NEW b \in Block, ProcessRefused(b) PROVE IInv'
  <2>1. PoolTypeOK' /\ PoolIndexed' /\ LimitByPointer' /\ Orphans' = Orphans
    BY <1>5, PoolUnchanged DEF ProcessRefused
  <2>2. TypeOK'
    BY <1>0, <1>5, <2>1
       DEF TypeOK, PoolTypeOK, ProcessRefused, Refuses, Hash, Replies
  <2>3. OrphansUnknown'
    BY <1>5, <2>1 DEF IInv, ProcessRefused, Connectable, Refuses,
                      OrphansUnknown
  <2>4. StrandedOnlyByError'
    BY <1>5, <2>1 DEF IInv, ProcessRefused, Refuses, StrandedOnlyByError
  <2> QED BY <2>1, <2>2, <2>3, <2>4 DEF IInv
<1>6. ASSUME OrphanAccepted PROVE IInv'
  <2>1. PICK b \in Children(prevOrphans, Head(processHashes)) :
           /\ removeOrphanBlock(b)
           /\ Accepts(b)
           /\ processHashes' = Append(processHashes, b)
    BY <1>6 DEF OrphanAccepted
  <2>2. ~ Idle /\ UNCHANGED <<now, reply, unwalked>>
    BY <1>6 DEF OrphanAccepted
  <2>3. /\ b \in Orphans /\ b \in Block
        /\ Orphans' = Orphans \ {b}
        /\ PoolTypeOK' /\ PoolIndexed' /\ LimitByPointer'
    BY <2>1, <2>2, OrphanLeaves
  <2>4. TypeOK'
    BY <1>0, <2>1, <2>2, <2>3 DEF TypeOK, PoolTypeOK, Accepts, Hash
  <2>5. OrphansUnknown'
    BY <2>1, <2>3 DEF IInv, Accepts, OrphansUnknown
  <2>6. Elems(processHashes') = Elems(processHashes) \cup {b}
    <3>1. processHashes \in Seq(Hash) /\ b \in Hash
      BY <1>0, <2>3 DEF TypeOK, Hash
    <3>2. /\ DOMAIN processHashes' = 1..(Len(processHashes) + 1)
          /\ DOMAIN processHashes = 1..Len(processHashes)
          /\ Len(processHashes) \in Nat
          /\ \A i \in 1..Len(processHashes) :
                processHashes'[i] = processHashes[i]
          /\ processHashes'[Len(processHashes) + 1] = b
      BY <2>1, <3>1
    <3> QED BY <3>2 DEF Elems
  <2>7. StrandedOnlyByError'
    BY <2>1, <2>2, <2>3, <2>6 DEF IInv, Accepts, StrandedOnlyByError
  <2> QED BY <2>3, <2>4, <2>5, <2>7 DEF IInv
<1>7. ASSUME OrphanRefused PROVE IInv'
  <2>1. PICK b \in Children(prevOrphans, Head(processHashes)) :
           removeOrphanBlock(b) /\ Refuses(b)
    BY <1>7 DEF OrphanRefused
  <2>2. /\ ~ Idle /\ UNCHANGED now
        /\ processHashes' = <<>> /\ reply' = "error"
        /\ unwalked' = unwalked \cup Elems(processHashes) \cup (known' \ known)
    BY <1>7 DEF OrphanRefused
  <2>3. /\ b \in Orphans /\ b \in Block
        /\ Orphans' = Orphans \ {b}
        /\ PoolTypeOK' /\ PoolIndexed' /\ LimitByPointer'
    BY <2>1, <2>2, OrphanLeaves
  <2>4. Elems(processHashes) \subseteq Hash
    BY <1>0 DEF TypeOK, Elems
  <2>5. TypeOK'
    BY <1>0, <2>1, <2>2, <2>3, <2>4
       DEF TypeOK, PoolTypeOK, Refuses, Hash, Replies
  <2>6. OrphansUnknown'
    BY <2>1, <2>3 DEF IInv, Refuses, OrphansUnknown
  <2>7. StrandedOnlyByError'
    BY <2>1, <2>2, <2>3 DEF IInv, Refuses, StrandedOnlyByError
  <2> QED BY <2>3, <2>5, <2>6, <2>7 DEF IInv
<1>8. ASSUME OrphansWalked PROVE IInv'
  <2>1. PoolTypeOK' /\ PoolIndexed' /\ LimitByPointer' /\ Orphans' = Orphans
    BY <1>8, PoolUnchanged DEF OrphansWalked
  <2>2. /\ processHashes \in Seq(Hash) /\ processHashes # <<>>
        /\ processHashes' = Tail(processHashes)
    BY <1>0, <1>8 DEF TypeOK, OrphansWalked, Idle
  <2>3. TypeOK'
    BY <1>0, <1>8, <2>1, <2>2 DEF TypeOK, PoolTypeOK, OrphansWalked, Replies
  <2>4. OrphansUnknown'
    BY <1>8, <2>1 DEF IInv, OrphansWalked, OrphansUnknown
  <2>5. Elems(processHashes) \subseteq
           Elems(processHashes') \cup {Head(processHashes)}
    <3>1. /\ DOMAIN processHashes = 1..Len(processHashes)
          /\ DOMAIN processHashes' = 1..(Len(processHashes) - 1)
          /\ Len(processHashes) \in Nat
          /\ processHashes[1] = Head(processHashes)
          /\ \A i \in 1..(Len(processHashes) - 1) :
                processHashes'[i] = processHashes[i + 1]
      BY <2>2
    <3>2. ASSUME NEW i \in DOMAIN processHashes, i # 1
          PROVE  processHashes[i] \in Elems(processHashes')
      <4>1. i - 1 \in DOMAIN processHashes'
        BY <3>1, <3>2
      <4>2. processHashes'[i - 1] = processHashes[i]
        BY <3>1, <3>2
      <4> QED BY <4>1, <4>2 DEF Elems
    <3> QED BY <3>1, <3>2 DEF Elems
  <2>6. \A b \in Orphans : Prev[b] # Head(processHashes)
    BY <1>8, <2>2 DEF IInv, PoolIndexed, OrphansWalked
  <2>7. StrandedOnlyByError'
    BY <1>8, <2>1, <2>5, <2>6 DEF IInv, OrphansWalked, StrandedOnlyByError
  <2> QED BY <2>1, <2>3, <2>4, <2>7 DEF IInv
<1>9. ASSUME Tick PROVE IInv'
  <2>1. PoolTypeOK' /\ PoolIndexed' /\ LimitByPointer' /\ Orphans' = Orphans
    BY <1>9, PoolUnchanged DEF Tick
  <2>2. TypeOK'
    BY <1>0, <1>9, <2>1 DEF TypeOK, PoolTypeOK, Tick
  <2>3. OrphansUnknown' /\ StrandedOnlyByError'
    BY <1>9, <2>1 DEF IInv, Tick, OrphansUnknown, StrandedOnlyByError
  <2> QED BY <2>1, <2>2, <2>3 DEF IInv
<1>10. ASSUME UNCHANGED vars PROVE IInv'
  BY <1>10 DEF vars, IInv, TypeOK, PoolIndexed, OrphansUnknown,
               LimitByPointer, StrandedOnlyByError, Orphans, Children, Elems
<1> QED
  BY <1>1, <1>2, <1>3, <1>4, <1>5, <1>6, <1>7, <1>8, <1>9, <1>10
     DEF Next, ProcessBlock, processOrphans

(* The inductive invariant holds in every reachable state. *)
THEOREM PoolInvariant == Spec => []IInv
BY InitIInv, NextIInv, PTL DEF Spec

(* The variables of the orphan pool keep their types. *)
THEOREM TypeCorrect == Spec => []TypeOK
<1>1. IInv => TypeOK
  BY DEF IInv
<1> QED BY <1>1, PoolInvariant, PTL

(* orphans and prevOrphans hold the same blocks whatever addOrphanBlock,   *)
(* removeOrphanBlock and processOrphans do.                                *)
THEOREM PoolIsIndexed == Spec => []PoolIndexed
<1>1. IInv => PoolIndexed
  BY DEF IInv
<1> QED BY <1>1, PoolInvariant, PTL

(* The pool never holds more than one block above maxOrphanBlocks. *)
THEOREM PoolIsBounded == Spec => []PoolBound
<1>1. IInv => PoolBound
  BY DEF IInv, LimitByPointer, PoolBound
<1> QED BY <1>1, PoolInvariant, PTL

(* addOrphanBlock never evicts through a nil oldestOrphan. *)
THEOREM EvictionIsDefined == Spec => []EvictionHasTarget
<1>1. IInv => EvictionHasTarget
  <2> SUFFICES ASSUME IInv, AtLimit, NoOrphan \in OldestAfterScan
               PROVE  FALSE
    BY DEF EvictionHasTarget
  <2>1. Fresh = {}
    BY ScanResult, BlockAssumption DEF IInv
  <2> QED BY <2>1, FS_EmptySet, LimitAssumption DEF AtLimit
<1> QED BY <1>1, PoolInvariant, PTL

(* The pool is sound for any tree of blocks and any limit: its variables   *)
(* keep their types, its two maps agree, it exceeds maxOrphanBlocks by at  *)
(* most one block and an eviction always has a block to evict.             *)
THEOREM PoolIsSound == Spec => []PoolSound
BY TypeCorrect, PoolIsIndexed, PoolIsBounded, EvictionIsDefined, PTL DEF PoolSound

(* processOrphans overlooks an orphan only when maybeAcceptBlock failed,   *)
(* and a block it has accepted is not an orphan any more.                  *)
THEOREM OnlyErrorsStrand == Spec => []OrphansFollow
<1>1. IInv => OrphansFollow
  BY DEF IInv, OrphansFollow
<1> QED BY <1>1, PoolInvariant, PTL
=============================================================================
