----------------------------- MODULE OrphanPool -----------------------------
(***************************************************************************)
(* The orphan block pool of blockchain.BlockChain and the part of          *)
(* ProcessBlock that feeds and drains it (blockchain/chain.go and          *)
(* blockchain/process.go).                                                 *)
(*                                                                         *)
(* A block whose parent is not known is kept in the map orphans with an    *)
(* expiration time, and under its parent's hash in prevOrphans.  When a    *)
(* block is accepted, processOrphans walks the orphans that descend from   *)
(* it.  addOrphanBlock drops expired orphans lazily and, at the limit, the *)
(* orphan the pointer oldestOrphan names; nothing else ever clears that    *)
(* pointer, so it can name an orphan that has left the pool.               *)
(*                                                                         *)
(* ProcessBlock calls are made one at a time (the block manager's          *)
(* goroutine), but maybeAcceptBlock releases the chain lock to deliver     *)
(* notifications, so readers see every state between two orphans: each     *)
(* iteration of processOrphans is a step of its own.  maybeAcceptBlock is  *)
(* represented by its effect on the set of blocks blockExists knows; the   *)
(* chain itself is in module BlockChain.                                   *)
(***************************************************************************)
EXTENDS Integers, Sequences, FiniteSets

CONSTANTS
    Block,              \* block hashes, the genesis block apart
    Genesis,            \* the genesis block, known from the start
    Prev,               \* header.PrevBlock of every block
    PrevKey,            \* header.PrevKeyBlock of every block
    KeyBlock,           \* blocks whose hash meets the target in header.Bits
    Invalid,            \* blocks maybeAcceptBlock refuses
    MaxOrphanBlocks,    \* maxOrphanBlocks, 500 in the code
    OrphanLifetime,     \* one hour in the code
    MaxTime             \* bound on the clock

ASSUME BlockAssumption ==
    /\ Genesis \notin Block
    /\ Prev \in [Block -> Block \cup {Genesis}]
    /\ PrevKey \in [Block -> Block \cup {Genesis}]
    /\ KeyBlock \subseteq Block \cup {Genesis}
    /\ Invalid \subseteq Block

ASSUME LimitAssumption ==
    /\ MaxOrphanBlocks \in Nat \ {0}
    /\ OrphanLifetime \in Nat
    /\ MaxTime \in Nat

VARIABLES
    known,          \* blocks for which blockExists is true
    orphans,        \* b.orphans: block -> expiration
    prevOrphans,    \* b.prevOrphans: parent hash -> the orphans listed there
    oldestOrphan,   \* b.oldestOrphan: a pointer to an orphan, possibly stale
    now,            \* time.Now()
    processHashes,  \* work list of processOrphans; its head is being walked
    reply,          \* outcome of the last ProcessBlock call
    unwalked        \* history: known blocks whose orphans were not walked
                    \* because maybeAcceptBlock returned an error

vars == <<known, orphans, prevOrphans, oldestOrphan, now, processHashes,
          reply, unwalked>>

pool == <<orphans, prevOrphans, oldestOrphan>>

Hash == Block \cup {Genesis}

Elems(s) == {s[i] : i \in DOMAIN s}

Orphans == DOMAIN orphans

(* The nil pointer; an orphanBlock is its block and its expiration. *)
NoOrphan == [block |-> Genesis, expiration |-> 0]

OrphanBlock == [block : Block, expiration : Nat]

Idle == processHashes = <<>>

Replies == {"none", "duplicate", "error", "orphan", "accepted"}

TypeOK ==
    /\ known \in SUBSET Hash
    /\ Orphans \in SUBSET Block
    /\ orphans \in [Orphans -> Nat]
    /\ DOMAIN prevOrphans \in SUBSET Hash
    /\ prevOrphans \in [DOMAIN prevOrphans -> SUBSET Block]
    /\ oldestOrphan \in OrphanBlock \cup {NoOrphan}
    /\ now \in Nat
    /\ processHashes \in Seq(Hash)
    /\ reply \in Replies
    /\ unwalked \in SUBSET Hash

Init ==
    /\ known = {Genesis}
    /\ orphans = [b \in {} |-> 0]
    /\ prevOrphans = [p \in {} |-> {}]
    /\ oldestOrphan = NoOrphan
    /\ now = 0
    /\ processHashes = <<>>
    /\ reply = "none"
    /\ unwalked = {}

-----------------------------------------------------------------------------
(* The two maps.  The slice a parent has in prevOrphans is the set of its  *)
(* members, so processOrphans may walk siblings in any order, the order of *)
(* arrival included.                                                       *)

Children(po, p) == IF p \in DOMAIN po THEN po[p] ELSE {}

(* Mutant: the map keeps a parent whose list becomes empty. *)
UnlistKeepsEmpty(po, gone) ==
    [p \in DOMAIN po |-> {b \in po[p] : ~ (b \in gone /\ Prev[b] = p)}]

(* prevOrphans after removeOrphanBlock of every block of gone: a parent    *)
(* whose list becomes empty leaves the map.                                *)
Unlist(po, gone) ==
    LET kept(p) == {b \in po[p] : ~ (b \in gone /\ Prev[b] = p)}
    IN  [p \in {q \in DOMAIN po : kept(q) # {}} |-> kept(p)]

(* prevOrphans after b is appended to its parent's list. *)
Enlist(po, b) ==
    [p \in DOMAIN po \cup {Prev[b]} |->
        Children(po, p) \cup (IF p = Prev[b] THEN {b} ELSE {})]

-----------------------------------------------------------------------------
(* addOrphanBlock: expiry, the limit, the insertion.                       *)

Expired == {b \in Orphans : now > orphans[b]}

Fresh == Orphans \ Expired

(* What oldestOrphan may be after the scan: the map is walked in any order *)
(* and the pointer moves to a fresh orphan that expires strictly before    *)
(* the one it names, whether or not that one is still in the pool.         *)
OldestAfterScan ==
    LET earliest == {b \in Fresh : \A c \in Fresh : orphans[b] =< orphans[c]}
        moving == {b \in earliest : \/ oldestOrphan = NoOrphan
                                    \/ orphans[b] < oldestOrphan.expiration}
    IN  IF moving = {}
        THEN {oldestOrphan}
        ELSE {[block |-> b, expiration |-> orphans[b]] : b \in moving}

AtLimit == Cardinality(Fresh) + 1 > MaxOrphanBlocks

Expiration == now + OrphanLifetime

addOrphanBlock(b) ==
    \E oldest \in OldestAfterScan :
        LET evicted == IF AtLimit THEN {oldest.block} ELSE {}
            left == Fresh \ evicted
        IN  /\ orphans' = [c \in left \cup {b} |->
                              IF c = b THEN Expiration ELSE orphans[c]]
            /\ prevOrphans' =
                  Enlist(Unlist(prevOrphans, Expired \cup evicted), b)
            /\ oldestOrphan' = IF AtLimit THEN NoOrphan ELSE oldest

removeOrphanBlock(b) ==
    /\ orphans' = [c \in Orphans \ {b} |-> orphans[c]]
    /\ prevOrphans' = Unlist(prevOrphans, {b})
    /\ UNCHANGED oldestOrphan

-----------------------------------------------------------------------------
(* prevKeyHashExists: whether keyHash is the key block a child of p must   *)
(* name in PrevKeyBlock: p itself if p is a key block, else p's own.       *)
(* Genesis also stands for the zero hash the genesis header names there.   *)
prevKeyHashExists(p, keyHash) ==
    IF p \in KeyBlock \/ p = Genesis THEN keyHash = p ELSE keyHash = PrevKey[p]

(* maybeAcceptBlock(b) without an error. *)
Accepts(b) ==
    /\ b \notin Invalid
    /\ known' = known \cup {b}

(* maybeAcceptBlock(b) with an error: refused before it enters the block   *)
(* index, or left there by a reorganization that failed.                   *)
Refuses(b) ==
    /\ b \in Invalid
    /\ known' \in {known, known \cup {b}}

(* ProcessBlock of a block already known, or already an orphan. *)
ProcessDuplicate(b) ==
    /\ Idle
    /\ b \in known \cup Orphans
    /\ reply' = "duplicate"
    /\ UNCHANGED <<known, pool, now, processHashes, unwalked>>

(* ProcessBlock of a block whose parent is not known. *)
ProcessOrphan(b) ==
    /\ Idle
    /\ b \notin known \cup Orphans
    /\ Prev[b] \notin known
    /\ addOrphanBlock(b)
    /\ reply' = "orphan"
    /\ UNCHANGED <<known, now, processHashes, unwalked>>

(* ProcessBlock of a block that names the wrong PrevKeyBlock: only a block *)
(* that arrives after its parent is checked here.                          *)
ProcessWrongKeyHash(b) ==
    /\ Idle
    /\ b \notin known \cup Orphans
    /\ Prev[b] \in known
    /\ ~ prevKeyHashExists(Prev[b], PrevKey[b])
    /\ reply' = "error"
    /\ UNCHANGED <<known, pool, now, processHashes, unwalked>>

(* Mutant: a block that is an orphan is not recognised. *)
ConnectableOrphan(b) ==
    /\ Idle
    /\ b \notin known
    /\ Prev[b] \in known
    /\ prevKeyHashExists(Prev[b], PrevKey[b])

(* ProcessBlock reaches maybeAcceptBlock. *)
Connectable(b) ==
    /\ Idle
    /\ b \notin known \cup Orphans
    /\ Prev[b] \in known
    /\ prevKeyHashExists(Prev[b], PrevKey[b])

(* ProcessBlock of a block maybeAcceptBlock accepts; processOrphans is     *)
(* called with its hash.                                                   *)
ProcessAccepted(b) ==
    /\ Connectable(b)
    /\ Accepts(b)
    /\ processHashes' = <<b>>
    /\ UNCHANGED <<pool, now, reply, unwalked>>

ProcessRefused(b) ==
    /\ Connectable(b)
    /\ Refuses(b)
    /\ unwalked' = unwalked \cup (known' \ known)
    /\ reply' = "error"
    /\ UNCHANGED <<pool, now, processHashes>>

(* One iteration of the inner loop of processOrphans: an orphan of the     *)
(* block being walked leaves the pool and is accepted.                     *)
OrphanAccepted ==
    /\ ~ Idle
    /\ \E b \in Children(prevOrphans, Head(processHashes)) :
          /\ removeOrphanBlock(b)
          /\ Accepts(b)
          /\ processHashes' = Append(processHashes, b)
    /\ UNCHANGED <<now, reply, unwalked>>

(* The same iteration when maybeAcceptBlock fails: processOrphans returns  *)
(* the error at once, and ProcessBlock hands it to its caller.             *)
OrphanRefused ==
    /\ ~ Idle
    /\ \E b \in Children(prevOrphans, Head(processHashes)) :
          /\ removeOrphanBlock(b)
          /\ Refuses(b)
    /\ unwalked' = unwalked \cup Elems(processHashes) \cup (known' \ known)
    /\ processHashes' = <<>>
    /\ reply' = "error"
    /\ UNCHANGED now

(* Mutant: the walk of a block may end before its last orphan. *)
OrphansWalkedEarly ==
    /\ ~ Idle
    /\ processHashes' = Tail(processHashes)
    /\ reply' = IF Tail(processHashes) = <<>> THEN "accepted" ELSE reply
    /\ UNCHANGED <<known, pool, now, unwalked>>

(* The block being walked has no orphan left: the next hash is popped, and *)
(* ProcessBlock returns when there is none.                                *)
OrphansWalked ==
    /\ ~ Idle
    /\ Children(prevOrphans, Head(processHashes)) = {}
    /\ processHashes' = Tail(processHashes)
    /\ reply' = IF Tail(processHashes) = <<>> THEN "accepted" ELSE reply
    /\ UNCHANGED <<known, pool, now, unwalked>>

Tick ==
    /\ now < MaxTime
    /\ now' = now + 1
    /\ UNCHANGED <<known, pool, processHashes, reply, unwalked>>

ProcessBlock(b) ==
    \/ ProcessDuplicate(b)
    \/ ProcessOrphan(b)
    \/ ProcessWrongKeyHash(b)
    \/ ProcessAccepted(b)
    \/ ProcessRefused(b)

processOrphans == OrphanAccepted \/ OrphanRefused \/ OrphansWalked

Next ==
    \/ \E b \in Block : ProcessBlock(b)
    \/ processOrphans
    \/ Tick

Spec == Init /\ [][Next]_vars

(* A call of ProcessBlock that has started runs to its end. *)
FairSpec == Spec /\ WF_vars(processOrphans)

-----------------------------------------------------------------------------
(* The two maps agree: a block is an orphan exactly if its parent lists    *)
(* it, and a parent without orphans is not a key of prevOrphans.           *)
(* addOrphanBlock and removeOrphanBlock each update both maps.             *)
PoolIndexed ==
    \A p \in Hash :
        /\ Children(prevOrphans, p) = {b \in Orphans : Prev[b] = p}
        /\ p \in DOMAIN prevOrphans => Children(prevOrphans, p) # {}

(* A block is never both an orphan and part of the block index: HaveBlock  *)
(* and ProcessBlock would otherwise disagree on where it is.               *)
OrphansUnknown == Orphans \cap known = {}

(* The pool exceeds its limit by at most one block, however often          *)
(* oldestOrphan is stale when addOrphanBlock evicts what it names.         *)
PoolBound == Cardinality(Orphans) =< MaxOrphanBlocks + 1

(* addOrphanBlock never hands a nil oldestOrphan to removeOrphanBlock. *)
EvictionHasTarget == AtLimit => NoOrphan \notin OldestAfterScan

(* An orphan whose parent is known is about to be walked by                *)
(* processOrphans, or an error of maybeAcceptBlock cut its walk short.     *)
StrandedOnlyByError ==
    \A b \in Orphans :
        Prev[b] \in known => Prev[b] \in Elems(processHashes) \cup unwalked

(* The two maps of the pool list the same orphans, the pool keeps its      *)
(* bound, and the eviction that keeps it has a block to evict.             *)
PoolSound == TypeOK /\ PoolIndexed /\ PoolBound /\ EvictionHasTarget

(* An orphan is a block the chain does not have, and one whose parent it   *)
(* has is on its way to the chain, or an error stranded it.                *)
OrphansFollow == OrphansUnknown /\ StrandedOnlyByError

(* Every orphan whose parent becomes known is eventually handed to         *)
(* maybeAcceptBlock, unless an error ended the walk.                       *)
OrphansResolved ==
    \A b \in Block :
        (b \in Orphans /\ Prev[b] \in known)
            ~> (b \notin Orphans \/ Prev[b] \in unwalked)

(* processOrphans as its comment states it: when ProcessBlock returns, no  *)
(* orphan is left whose parent has been accepted.                          *)
NoOrphanOfAcceptedBlock ==
    Idle => \A b \in Orphans : Prev[b] \notin known \ Invalid
=============================================================================
