----------------------------- MODULE ChainRules -----------------------------
(***************************************************************************)
(* The rules of the chain that need no more than a few of its blocks: what *)
(* a block may mint (subsidy.go), the commitment to its transactions       *)
(* (merkle.go), the clock of the network (mediantime.go), checkpoints      *)
(* (checkpoints.go), and how two nodes find the last block they share      *)
(* (blocklocator.go, server.go).                                           *)
(***************************************************************************)
EXTENDS ChainView

CONSTANTS
    BaseSubsidy, MulSubsidy, DivSubsidy, SubsidyReductionInterval, BlockOneLedger,
    WorkRewardProportion, StakeRewardProportion, BlockTaxProportion,
    OrganizationPkScript, StakeValidationHeight, TicketsPerBlock, subsidyCacheInitWidth,
    maxMedianTimeEntries, maxAllowedOffsetSecs,
    CheckpointConfirmations,
    MaxBlockLocatorsPerMsg, MaxBlocksPerMsg, MaxBlockHeadersPerMsg, NoStop

---------------------------------------------------------------------------
(* Subsidies.  Amounts are of int64 in the code and far below its limit. *)

BlockOneSubsidy == FoldSeq(LAMBDA o, sum : sum + o.amount, 0, BlockOneLedger)
TotalSubsidyProportions == WorkRewardProportion + StakeRewardProportion + BlockTaxProportion

RECURSIVE Reduced(_)
Reduced(i) == IF i = 0 THEN BaseSubsidy ELSE (Reduced(i - 1) * MulSubsidy) \div DivSubsidy

\* The subsidy of a block on a key block of height kh, and the cache after
\* the call.  A value is made from the one before it if that is cached.
CalcBlockSubsidy(cache, kh) ==
    LET i == kh \div SubsidyReductionInterval
        v == IF i - 1 \in DOMAIN cache THEN (cache[i - 1] * MulSubsidy) \div DivSubsidy ELSE Reduced(i)
    IN  CASE kh = 0 -> [v |-> BlockOneSubsidy, c |-> cache]
          [] kh # 0 /\ i = 0 -> [v |-> BaseSubsidy, c |-> cache]
          [] i # 0 /\ i \in DOMAIN cache -> [v |-> cache[i], c |-> cache]
          [] OTHER -> [v |-> v, c |-> [j \in DOMAIN cache \union {i} |-> IF j = i THEN v ELSE cache[j]]]

\* The loop asks for the value of the last iteration each time.
NewSubsidyCache(kh) ==
    LET i == kh \div SubsidyReductionInterval
    IN  IF i < subsidyCacheInitWidth THEN <<>> ELSE CalcBlockSubsidy(<<>>, i * SubsidyReductionInterval).c

Share(subsidy, proportion) == (subsidy * proportion) \div TotalSubsidyProportions

CalcBlockWorkSubsidy(cache, kh, voters) ==
    LET s == Share(CalcBlockSubsidy(cache, kh).v, WorkRewardProportion)
    IN  IF kh + 1 < StakeValidationHeight THEN s ELSE (voters * s) \div TicketsPerBlock

CalcStakeVoteSubsidy(cache, kh) ==
    (CalcBlockSubsidy(cache, kh).v * StakeRewardProportion) \div (TotalSubsidyProportions * TicketsPerBlock)

CalcBlockTaxSubsidy(cache, kh, voters) ==
    IF BlockTaxProportion = 0 THEN 0
    ELSE LET v == IF kh + 1 < StakeValidationHeight THEN 5 ELSE voters
         IN  (v * Share(CalcBlockSubsidy(cache, kh).v, BlockTaxProportion)) \div TicketsPerBlock

\* Outputs carry what their script pays to, or several addresses.
BlockOneCoinbasePaysTokens(tx) ==
    \/ BlockOneLedger = <<>>
    \/ /\ tx.lockTime = 0 /\ ~tx.expires /\ tx.final
       /\ Len(tx.outs) = Len(BlockOneLedger)
       /\ \A i \in DOMAIN tx.outs :
             /\ tx.outs[i].version = 0 /\ tx.outs[i].addrs = {BlockOneLedger[i].address}
             /\ tx.outs[i].value = BlockOneLedger[i].amount

CoinbasePaysTax(cache, tx, kh, voters) ==
    \/ kh <= 1 \/ BlockTaxProportion = 0
    \/ /\ tx.outs # <<>>
       /\ tx.outs[1].version = 0 /\ tx.outs[1].addrs = OrganizationPkScript
       /\ tx.outs[1].value = CalcBlockTaxSubsidy(cache, kh, voters)

\* A block adds what its votes mint, and what the coinbase of its parent
\* minted if it approves of that tree.
CalculateAddedSubsidy(block, parent) ==
    FoldSeq(LAMBDA v, sum : sum + v, IF block.approves THEN parent.coinbaseIn ELSE 0, block.votesIn)

\* Whoever asked for which subsidies before, the cache answers what the
\* schedule says, and what the miner, the voters and the organization get
\* is never more than the subsidy of the block.
SubsidySound(kh, asked) ==
    LET cache == FoldSeq(LAMBDA h, c : CalcBlockSubsidy(c, h).c, NewSubsidyCache(kh), asked)
        all(h) == IF h = 0 THEN BlockOneSubsidy ELSE Reduced(h \div SubsidyReductionInterval)
    IN  \A h \in 0..(4 * SubsidyReductionInterval), voters \in 0..TicketsPerBlock :
           /\ CalcBlockSubsidy(cache, h).v = all(h)
           /\ CalcBlockWorkSubsidy(cache, h, voters) + CalcBlockTaxSubsidy(cache, h, voters)
                + (voters * CalcStakeVoteSubsidy(cache, h)) <= all(h)

\* The outputs a coinbase of the first block has to have are those that
\* subsidy is the sum of, and the rules agree on the tax output of others.
CoinbaseSound(tx, kh, voters) ==
    /\ BlockOneCoinbasePaysTokens(tx) =>
          FoldSeq(LAMBDA o, sum : sum + o.value, 0, tx.outs) = CalcBlockSubsidy(<<>>, 0).v
    /\ kh > 1 /\ CoinbasePaysTax(<<>>, tx, kh, voters) =>
          tx.outs[1].value + CalcBlockWorkSubsidy(<<>>, kh, voters) <= CalcBlockSubsidy(<<>>, kh).v
    /\ CalculateAddedSubsidy([approves |-> TRUE, votesIn |-> [i \in 1..voters |-> CalcStakeVoteSubsidy(<<>>, kh)]],
                             [coinbaseIn |-> CalcBlockWorkSubsidy(<<>>, kh, voters)
                                               + CalcBlockTaxSubsidy(<<>>, kh, voters)])
          <= CalcBlockSubsidy(<<>>, kh).v

---------------------------------------------------------------------------
(* Merkle trees.  A hash is the tree of what was hashed. *)

RECURSIVE nextPowerOfTwo(_)
nextPowerOfTwo(n) == IF n = 1 THEN 1 ELSE 2 * nextPowerOfTwo((n + 1) \div 2)

NoHash == <<>>
ZeroHash == <<0>>
HashMerkleBranches(left, right) == <<"node", left, right>>

RECURSIVE Parents(_, _)
Parents(merkles, i) ==
    IF i > Len(merkles) - 1 THEN merkles
    ELSE Parents(Append(merkles,
                        CASE merkles[i] = NoHash -> NoHash
                          [] merkles[i] # NoHash /\ merkles[i + 1] = NoHash ->
                                HashMerkleBranches(merkles[i], merkles[i])
                          [] OTHER -> HashMerkleBranches(merkles[i], merkles[i + 1])), i + 2)

\* The leaves, filled up to a power of two, and level by level their parents.
\* In the compressed form the first leaf is read from the coinbase, whose
\* first output has to have room for it.
BuildMerkleTreeStore(txs, compressed) ==
    LET leaves == (IF compressed THEN <<txs[1].ens>> ELSE <<>>) \o [i \in DOMAIN txs |-> txs[i].hash]
        pot == nextPowerOfTwo(Len(leaves))
    IN  CASE txs = <<>> -> <<ZeroHash>>
          [] txs # <<>> /\ compressed /\ txs[1].ens = NoHash ->
                <<ZeroHash>> \o [i \in 1..(2 * pot - 2) |-> NoHash]
          [] OTHER -> Parents(leaves \o [i \in 1..(pot - Len(leaves)) |-> NoHash], 1)
MerkleRoot(txs, compressed) == Last(BuildMerkleTreeStore(txs, compressed))

\* The root by definition: the last hash of an odd level is paired with
\* itself.
RECURSIVE RootOf(_)
RootOf(hs) ==
    IF Len(hs) = 1 THEN hs[1]
    ELSE RootOf([i \in 1..((Len(hs) + 1) \div 2) |->
                    HashMerkleBranches(hs[2 * i - 1], hs[IF 2 * i <= Len(hs) THEN 2 * i ELSE 2 * i - 1])])

\* The last entry of the store is the root of the leaves, and no other list
\* of different transactions has it.
MerkleSound(txs, compressed, others) ==
    /\ txs # <<>> /\ (compressed => txs[1].ens # NoHash) =>
          MerkleRoot(txs, compressed) =
             RootOf((IF compressed THEN <<txs[1].ens>> ELSE <<>>) \o [i \in DOMAIN txs |-> txs[i].hash])
    /\ \A other \in others :
          MerkleRoot(other, compressed) = MerkleRoot(txs, compressed) =>
             other = txs \/ MerkleRoot(txs, compressed) = NoHash

---------------------------------------------------------------------------
(* The clock.  A sample is the name of its source and an offset in seconds. *)

NewMedianTime == [known |-> {}, offsets |-> <<>>, offsetSecs |-> 0]

\* Mutant: a source may send as many samples as it likes.
AddTimeSampleAgain(m, s) ==
    LET kept == IF Len(m.offsets) = maxMedianTimeEntries THEN Tail(m.offsets) ELSE m.offsets
        offsets == Append(kept, s.offset)
        n == Len(offsets)
        median == SortSeq(offsets, <)[(n \div 2) + 1]
    IN  [m EXCEPT !.offsets = offsets,
                  !.offsetSecs = IF n < 5 \/ n % 2 = 0 THEN @
                                 ELSE IF median \in (1 - maxAllowedOffsetSecs)..(maxAllowedOffsetSecs - 1)
                                 THEN median ELSE 0]

\* An even number of samples changes nothing: the limit is even, so the
\* clock stays as it is once as many sources were heard.
AddTimeSample(m, s) ==
    LET kept == IF Len(m.offsets) = maxMedianTimeEntries /\ maxMedianTimeEntries > 0
                THEN Tail(m.offsets) ELSE m.offsets
        offsets == Append(kept, s.offset)
        n == Len(offsets)
        median == SortSeq(offsets, <)[(n \div 2) + 1]
    IN  IF s.id \in m.known THEN m
        ELSE [known |-> m.known \union {s.id}, offsets |-> offsets,
              offsetSecs |-> IF n < 5 \/ n % 2 = 0 THEN m.offsetSecs
                             ELSE IF median \in (1 - maxAllowedOffsetSecs)..(maxAllowedOffsetSecs - 1)
                             THEN median ELSE 0]

\* Sources that are a minority among those heard first cannot move the clock
\* out of the range of the others, however often they speak.
ClockSound(samples, honest) ==
    LET m == FoldLeft(AddTimeSample, NewMedianTime, samples)
        heard(k) == {s.id : s \in Range(SubSeq(samples, 1, k))}
        majority(k) == 2 * Cardinality(heard(k) \intersect honest) > Cardinality(heard(k))
        counts(k) == Cardinality(heard(k)) >= 5
    IN  /\ m.offsetSecs \in (1 - maxAllowedOffsetSecs)..(maxAllowedOffsetSecs - 1)
        /\ (\A k \in DOMAIN samples : counts(k) => majority(k)) =>
              m.offsetSecs \in {0} \union {s.offset : s \in {t \in Range(samples) : t.id \in honest}}

---------------------------------------------------------------------------
(* Checkpoints are heights and hashes; a chain is the hashes of the main   *)
(* chain by height.                                                        *)

verifyCheckpoint(cps, height, hash) == \A c \in Range(cps) : c.height = height => c.hash = hash

MainChainHas(chain, hash) == \E h \in DOMAIN chain : chain[h] = hash

\* cp remembers the last checkpoint passed and the next one: 0 is none.
findPreviousCheckpoint(cps, cp, chain) ==
    LET passed == {i \in DOMAIN cps : MainChainHas(chain, cps[i].hash)}
        last == CHOOSE i \in passed : \A j \in passed : j <= i
        after(i) == IF i < Len(cps) THEN i + 1 ELSE 0
        best == CHOOSE h \in DOMAIN chain : \A g \in DOMAIN chain : g <= h
    IN  CASE cps = <<>> -> cp
          [] cps # <<>> /\ cp.block = 0 /\ cp.next = 0 ->
                IF passed = {} THEN [cp EXCEPT !.next = 1] ELSE [cp EXCEPT !.block = last, !.next = after(last)]
          [] cp.next # 0 /\ best >= cps[cp.next].height ->
                IF MainChainHas(chain, cps[cp.next].hash)
                THEN [cp EXCEPT !.block = cp.next, !.next = after(cp.next)] ELSE [cp EXCEPT !.failed = TRUE]
          [] OTHER -> cp

\* A block may become a checkpoint that is deep enough, in order of time
\* with its neighbours and without nonstandard transactions.
IsCheckpointCandidate(chain, best, h, standard) ==
    /\ h \in DOMAIN chain /\ h <= best - CheckpointConfirmations /\ h > 0
    /\ chain[h - 1].time <= chain[h].time /\ chain[h].time <= chain[h + 1].time
    /\ standard

\* A block that may become a checkpoint stays one that may, as the chain grows.
CandidateSound(chain, standard) ==
    LET tip(best) == [h \in 0..best |-> chain[h]]
    IN  \A best \in DOMAIN chain, h \in DOMAIN chain :
           best + 1 \in DOMAIN chain /\ IsCheckpointCandidate(tip(best), best, h, standard) =>
              IsCheckpointCandidate(tip(best + 1), best + 1, h, standard)

\* A node that grows its chain block by block, each verified, knows the last
\* checkpoint it passed, also when it was stopped on the way.
CheckpointSound(cps, chain, restarts) ==
    LET grown(h) == [g \in 0..h |-> chain[g]]
        ask(cp, h) == findPreviousCheckpoint(cps, cp, grown(h))
        fresh == [block |-> 0, next |-> 0, failed |-> FALSE]
        step(cp, h) == ask(IF h \in restarts THEN fresh ELSE cp, h)
        refused == {h \in DOMAIN chain : ~verifyCheckpoint(cps, h, chain[h])}
        top == CHOOSE h \in DOMAIN chain : \A g \in DOMAIN chain : g <= h
        upTo == IF refused = {} THEN top ELSE (CHOOSE h \in refused : \A g \in refused : h <= g) - 1
        at(k) == FoldLeft(step, fresh, [i \in 1..(k + 1) |-> i - 1])
    IN  \A k \in 0..upTo :
           LET past == {i \in DOMAIN cps : cps[i].height <= k}
           IN  /\ ~at(k).failed
               /\ at(k).block = IF past = {} THEN 0 ELSE CHOOSE i \in past : \A j \in past : j <= i

---------------------------------------------------------------------------
(* Block locators.  T is the tree of a node, tip the end of its main chain. *)

RECURSIVE ChainOf(_, _), Locate(_, _, _, _, _, _, _)
ChainOf(T, n) == IF n = nil THEN {} ELSE {n} \union ChainOf(T, T[n].parent)
HashAt(T, tip, h) == CHOOSE n \in ChainOf(T, tip) : T[n].height = h

\* The walk along a side chain compares in the wrong direction and never
\* leaves the block it starts at, so the blocks of a side chain are left out.
Locate(T, tip, node, fork, height, increment, loc) ==
    LET inc == IF Len(loc) > 10 THEN increment * 2 ELSE increment
        h == height - inc
        more == CASE h > fork /\ fork # -1 -> IF T[node].height = h THEN <<node>> ELSE <<>>
                  [] OTHER -> IF h > T[tip].height THEN <<>> ELSE <<HashAt(T, tip, h)>>
    IN  IF Len(loc) >= MaxBlockLocatorsPerMsg - 1 \/ h < 1 THEN loc
        ELSE Locate(T, tip, node, fork, h, inc, loc \o more)

blockLocatorFromHash(T, tip, n) ==
    LET main == ChainOf(T, tip)
        fork == CHOOSE h \in {T[m].height : m \in ChainOf(T, n) \intersect main} :
                   \A g \in {T[m].height : m \in ChainOf(T, n) \intersect main} : g <= h
    IN  IF n = 0 \/ n \notin DOMAIN T THEN <<n>>
        ELSE Locate(T, tip, n, IF n \in main \/ fork = 0 THEN -1 ELSE fork, T[n].height, 1, <<n>>) \o <<0>>

BlockHeightByHash(T, tip, n) == IF n \in ChainOf(T, tip) THEN T[n].height ELSE -1

HeightRange(T, tip, start, end) ==
    LET top == T[tip].height
        last == (IF end > top + 1 THEN top + 1 ELSE end) - 1
    IN  IF end <= start \/ start > top THEN <<>> ELSE [i \in 1..(last - start + 1) |-> HashAt(T, tip, start + i - 1)]

\* The first entry of the locator that is on the main chain says where to
\* start; the genesis block is never sent.
StartIdx(T, tip, loc) ==
    LET known == {i \in DOMAIN loc : BlockHeightByHash(T, tip, loc[i]) # -1}
    IN  IF known = {} THEN 1
        ELSE BlockHeightByHash(T, tip, loc[CHOOSE i \in known : \A j \in known : i <= j]) + 1

locateBlocks(T, tip, loc, stop) ==
    LET stopHeight == IF stop = NoStop THEN -1 ELSE BlockHeightByHash(T, tip, stop)
        start == StartIdx(T, tip, loc)
        asked == IF stopHeight = -1 THEN T[tip].height + 1 ELSE stopHeight + 1
        end == IF asked - start > MaxBlockHeadersPerMsg \/ stopHeight = -1
               THEN start + MaxBlockHeadersPerMsg ELSE asked
    IN  IF loc = <<>> THEN (IF stopHeight = -1 THEN <<>> ELSE <<stop>>) ELSE HeightRange(T, tip, start, end)

\* A node that is not current does not answer.
OnGetHeaders(T, tip, current, loc, stop) ==
    IF current THEN [sent |-> TRUE, headers |-> locateBlocks(T, tip, loc, stop)]
    ELSE [sent |-> FALSE, headers |-> <<>>]

\* The inventory a peer is sent, and the block whose request makes the node
\* announce its best block so that the peer asks for more.
OnGetBlocks(T, tip, loc, stop) ==
    LET stopHeight == IF stop = NoStop THEN -1 ELSE BlockHeightByHash(T, tip, stop)
        start == StartIdx(T, tip, loc)
        cut == stopHeight = -1 \/ stopHeight + 1 - start > MaxBlocksPerMsg
        inv == HeightRange(T, tip, start, IF cut THEN start + MaxBlocksPerMsg ELSE stopHeight + 1)
    IN  [inv |-> inv, continueHash |-> IF cut /\ Len(inv) = MaxBlocksPerMsg THEN Last(inv) ELSE nil]

\* A node with the branch that ends in mine asks one with the chain to tip.
\* The answer starts at a block it has no later one of, it is the beginning
\* of what it lacks, and there is an answer unless it lacks nothing; blocks
\* below the last one they share are sent again no further down than twice
\* the depth of the fork.
LocatorSound(T, tip, mine, side) ==
    LET loc == blockLocatorFromHash(T, mine, side)
        theirs == ChainOf(T, tip)
        shared == ChainOf(T, mine) \intersect theirs
        forkHeight == CHOOSE h \in {T[n].height : n \in shared} : \A n \in shared : T[n].height <= h
        got == OnGetHeaders(T, tip, TRUE, loc, NoStop).headers
        inv == OnGetBlocks(T, tip, loc, NoStop)
        depth == T[mine].height - forkHeight
        first == T[got[1]].height
    IN  /\ ancestorNode(T, mine, forkHeight) = ancestorNode(T, tip, forkHeight)
        /\ (got = <<>>) = (T[tip].height = StartIdx(T, tip, loc) - 1)
        /\ got # <<>> => /\ T[got[1]].parent \in shared \union ChainOf(T, side)
                         /\ \A i \in 2..Len(got) : T[got[i]].parent = got[i - 1]
                         /\ side = mine => /\ first - 1 <= forkHeight
                                           /\ forkHeight - (first - 1) <= (IF depth <= 10 THEN 0 ELSE depth)
        /\ inv.inv = SubSeq(got, 1, IF Len(got) < MaxBlocksPerMsg THEN Len(got) ELSE MaxBlocksPerMsg)
        /\ inv.continueHash # nil => inv.continueHash = Last(inv.inv)
=============================================================================
