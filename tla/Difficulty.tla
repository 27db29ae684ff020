----------------------------- MODULE Difficulty -----------------------------
(***************************************************************************)
(* Proof-of-work targets and ticket prices (blockchain/difficulty.go).     *)
(* Targets are numbers; a byte has Base values and the fixed-point numbers *)
(* of the averages have Unit steps, where the code has 256 and 2^32.       *)
(***************************************************************************)
EXTENDS ChainView

CONSTANTS
    Base, Unit, oneLsh256, PowLimit,
    WorkDiffAlpha, WorkDiffWindowSize, WorkDiffWindows, TargetTimespan, RetargetAdjustmentFactor,
    ReduceMinDifficulty, MinDiffReductionTime, TargetTimePerBlock, maxShift,
    StakeDiffAlpha, StakeDiffWindowSize, StakeDiffWindows, MinimumStakeDiff, TicketPoolSize,
    TicketPoolSizeWeight, TicketsPerBlock, MaxFreshStakePerBlock, TicketMaturity, CoinbaseMaturity,
    StakeValidationHeight, BaseSubsidy, MulSubsidy, DivSubsidy, SubsidyReductionInterval, BlockOneSubsidy

Smaller(a, b) == IF a < b THEN a ELSE b

---------------------------------------------------------------------------
(* The compact form of a target: three digits and an exponent. *)

RECURSIVE Digits(_)
Digits(n) == IF n = 0 THEN 0 ELSE 1 + Digits(n \div Base)

HashToBig(hash) == FoldRight(LAMBDA b, n : n * Base + b, hash, 0)

CompactToBig(c) ==
    LET n == IF c.e <= 3 THEN c.m \div Base^(3 - c.e) ELSE c.m * Base^(c.e - 3)
    IN  IF c.neg THEN -n ELSE n

BigToCompact(n) ==
    LET a == IF n < 0 THEN -n ELSE n  e == Digits(a)
        m == IF e <= 3 THEN a * Base^(3 - e) ELSE a \div Base^(e - 3)
        carry == m >= Base^3 \div 2
    IN  IF n = 0 THEN [e |-> 0, m |-> 0, neg |-> FALSE]
        ELSE [e |-> IF carry THEN e + 1 ELSE e, m |-> IF carry THEN m \div Base ELSE m, neg |-> n < 0]

PowLimitBits == BigToCompact(PowLimit)

CalcWork(bits) ==
    LET n == CompactToBig(bits) IN IF n <= 0 THEN 0 ELSE oneLsh256 \div (n + 1)

---------------------------------------------------------------------------
(* Proof of work *)

\* The easiest target a block may have that is so much later than one with
\* the given target.
RECURSIVE Ease(_, _)
Ease(target, duration) ==
    IF duration <= 0 \/ target >= PowLimit THEN target
    ELSE Ease(target * RetargetAdjustmentFactor, duration - TargetTimespan * RetargetAdjustmentFactor)
calcEasiestDifficulty(bits, duration) ==
    IF ReduceMinDifficulty /\ duration > MinDiffReductionTime THEN PowLimitBits
    ELSE BigToCompact(Smaller(Ease(CompactToBig(bits), duration), PowLimit))

RECURSIVE findPrevTestNetDifficulty(_, _)
findPrevTestNetDifficulty(T, n) ==
    CASE n = nil -> PowLimitBits
      [] n # nil /\ T[n].height % (WorkDiffWindowSize * WorkDiffWindows) # 0 /\ T[n].bits = PowLimitBits ->
            findPrevTestNetDifficulty(T, getPrevNodeFromNode(T, n))
      [] OTHER -> T[n].bits

\* The weight of window w, and the weighted mean of v(0), ... v(windows - 1).
Weight(w, windows, alpha) == 2^((windows - w) * alpha)
WeightedMean(v(_), windows, alpha) ==
    MapThenSumSet(LAMBDA w : v(w) * Weight(w, windows, alpha), 0..(windows - 1))
        \div MapThenSumSet(LAMBDA w : Weight(w, windows, alpha), 0..(windows - 1))

\* The key block i before n, and the block i before n; both stop at the
\* genesis block.
RECURSIVE KeyAt(_, _, _), NodeBack(_, _, _)
KeyAt(T, n, i) == IF i = 0 \/ n = 0 THEN n ELSE KeyAt(T, getPrevKeyNodeFromNode(T, n), i - 1)
NodeBack(T, n, i) == IF i = 0 \/ n = 0 THEN n ELSE NodeBack(T, T[n].parent, i - 1)

\* How long window w back from n took, in units of the time it should take.
WindowTime(T, n, w) ==
    LET older == KeyAt(T, n, (w + 1) * WorkDiffWindowSize)
        recent == KeyAt(T, n, w * WorkDiffWindowSize)
        t == IF T[older].height = 0 THEN TargetTimespan ELSE T[recent].time - T[older].time
    IN  (t * Unit) \div TargetTimespan

Retarget(old, mean) ==
    LET next == (mean * old) \div Unit
    IN  CASE old = 0 -> next
          [] old # 0 /\ next = 0 -> PowLimit
          [] old # 0 /\ next > old * RetargetAdjustmentFactor -> old * RetargetAdjustmentFactor
          [] old # 0 /\ next # 0 /\ next < old \div RetargetAdjustmentFactor -> old \div RetargetAdjustmentFactor
          [] OTHER -> next

\* The target of a block that is found at time t on top of n.
calcNextRequiredDifficulty(T, n, t) ==
    LET k == KeyNode(T, n)
        old == CompactToBig(T[k].bits)
        late == t - T[k].time - MinDiffReductionTime
        shifts == (late \div TargetTimePerBlock) + 1
        eased == IF shifts < maxShift THEN old * 2^shifts ELSE oneLsh256
        mean == WeightedMean(LAMBDA w : WindowTime(T, k, w), WorkDiffWindows, WorkDiffAlpha)
    IN  CASE n = nil -> PowLimitBits
          [] n # nil /\ T[n].height = 0 -> T[n].bits
          [] n # nil /\ T[n].height # 0 /\ (T[k].keyHeight + 1) % WorkDiffWindowSize # 0 ->
                IF ~ReduceMinDifficulty THEN T[k].bits
                ELSE IF late > 0 THEN BigToCompact(Smaller(eased, PowLimit))
                ELSE findPrevTestNetDifficulty(T, k)
          [] OTHER -> BigToCompact(Smaller(Retarget(old, mean), PowLimit))

---------------------------------------------------------------------------
(* Ticket prices, the old algorithm *)

mergeDifficulty(old, d1, d2) ==
    LET c1 == (old * Unit) \div d1  c2 == (d2 * Unit) \div old
    IN  ((((c2 * Unit) \div c1) * old) \div Unit)

Limit(old, next) ==
    CASE next = 0 -> old \div RetargetAdjustmentFactor
      [] next # 0 /\ next \div old > RetargetAdjustmentFactor - 1 -> old * RetargetAdjustmentFactor
      [] next # 0 /\ old \div next > RetargetAdjustmentFactor - 1 -> old \div RetargetAdjustmentFactor
      [] OTHER -> next

AtLeastOne(n) == IF n <= 0 THEN 1 ELSE n

\* The ticket pool at the start of each window, and the tickets bought in
\* it, in units of their targets.
PoolChange(T, n, w) ==
    LET target == TicketsPerBlock * TicketPoolSize
        pool == T[NodeBack(T, n, (w + 1) * StakeDiffWindowSize - 1)].pool
    IN  (AtLeastOne((pool - target) * TicketPoolSizeWeight + target) * Unit) \div target
FreshChange(T, n, w) ==
    LET first == w * StakeDiffWindowSize
        fresh == MapThenSumSet(LAMBDA i : T[NodeBack(T, n, i)].fresh, first..(first + StakeDiffWindowSize - 1))
    IN  (AtLeastOne(fresh) * Unit) \div (StakeDiffWindowSize * TicketsPerBlock)

\* The price that follows old after n, which ends a window.
PriceV1(T, n, old) ==
    LET change(v(_)) == (WeightedMean(v, StakeDiffWindows, StakeDiffAlpha) * old) \div Unit
        byPool == Limit(old, change(LAMBDA w : PoolChange(T, n, w)))
        byFresh == Limit(old, change(LAMBDA w : FreshChange(T, n, w)))
        next == Limit(old, mergeDifficulty(old, byPool, byFresh))
    IN  IF next < MinimumStakeDiff THEN MinimumStakeDiff ELSE next

\* The estimate repeats the computation on the blocks it made up.
EstimatedPriceV1(T, n, old) == PriceV1(T, n, old)

StakeDiffStartHeight == CoinbaseMaturity + 1

calcNextRequiredStakeDifficultyV1(T, n) ==
    CASE n = nil \/ (n # nil /\ T[n].height < StakeDiffStartHeight) -> MinimumStakeDiff
      [] n # nil /\ T[n].height >= StakeDiffStartHeight /\ (T[n].height + 1) % StakeDiffWindowSize # 0 -> T[n].sbits
      [] OTHER -> PriceV1(T, n, T[n].sbits)

\* The rest of a window, with the tickets in its first blocks.
RECURSIVE Fill(_, _, _, _)
Fill(T, n, h, tickets) ==
    IF T[n].height + 1 >= h THEN [t |-> T, n |-> n]
    ELSE LET m == Cardinality(DOMAIN T)  f == Smaller(MaxFreshStakePerBlock, tickets)
             node == [T[n] EXCEPT !.parent = n, !.height = @ + 1, !.fresh = f]
         IN  Fill([i \in DOMAIN T \union {m} |-> IF i = m THEN node ELSE T[i]], m, h, tickets - f)

TooMany == -1
estimateNextStakeDifficultyV1(T, n, tickets, useMaxTickets) ==
    LET nextAdjHeight == ((T[n].height \div StakeDiffWindowSize) + 1) * StakeDiffWindowSize
        maxTickets == (nextAdjHeight - T[n].height) * MaxFreshStakePerBlock
        f == Fill(T, n, nextAdjHeight, IF useMaxTickets THEN maxTickets ELSE tickets)
    IN  CASE n = nil \/ (n # nil /\ T[n].height < StakeDiffStartHeight) -> MinimumStakeDiff
          [] n # nil /\ T[n].height >= StakeDiffStartHeight /\ (T[n].height + 1) % StakeDiffWindowSize # 0
             /\ ~useMaxTickets /\ tickets > maxTickets -> TooMany
          [] OTHER -> EstimatedPriceV1(f.t, f.n, T[n].sbits)

---------------------------------------------------------------------------
(* Ticket prices, the algorithm in force *)

RECURSIVE Reduced(_, _, _)
Reduced(supply, subsidy, k) ==
    IF k = 0 THEN [supply |-> supply, subsidy |-> subsidy]
    ELSE Reduced(supply + SubsidyReductionInterval * subsidy, (subsidy * MulSubsidy) \div DivSubsidy, k - 1)
estimateSupply(height) ==
    LET r == Reduced(BlockOneSubsidy, BaseSubsidy, height \div SubsidyReductionInterval)
    IN  IF height <= 0 THEN 0
        ELSE r.supply + (1 + (height % SubsidyReductionInterval)) * r.subsidy - BaseSubsidy * 2

sumPurchasedTickets(T, n, num) ==
    LET ns == IF num <= 0 THEN <<>> ELSE KeyBack(T, n, num)
    IN  MapThenSumSet(LAMBDA i : T[ns[i]].fresh, DOMAIN ns)

calcNextStakeDiffV2(nextHeight, curDiff, prevPoolSizeAll, curPoolSizeAll) ==
    LET target == TicketsPerBlock * (TicketPoolSize + TicketMaturity)
        next == ((curDiff * curPoolSizeAll * curPoolSizeAll) \div prevPoolSizeAll) \div target
        bounded == Smaller(next, estimateSupply(nextHeight) \div TicketPoolSize)
    IN  IF bounded < MinimumStakeDiff THEN MinimumStakeDiff ELSE bounded

\* The tickets that were live or not yet mature at the last change of the
\* price before height h.
PrevPoolSizeAll(T, n, h) ==
    LET p == ancestorKeyNode(T, n, h - StakeDiffWindowSize - 1)
    IN  IF p < 0 THEN 0 ELSE T[p].pool + sumPurchasedTickets(T, p, TicketMaturity)

calcNextRequiredStakeDifficulty(T, n) ==
    LET nextHeight == IF n = nil THEN 0 ELSE T[n].keyHeight + 2
        prev == PrevPoolSizeAll(T, n, nextHeight)
    IN  CASE nextHeight < StakeDiffStartHeight -> MinimumStakeDiff
          [] nextHeight >= StakeDiffStartHeight /\ (nextHeight % StakeDiffWindowSize # 0 \/ ~T[n].key) -> T[n].sbits
          [] OTHER -> IF prev = 0 THEN T[n].sbits
                      ELSE calcNextStakeDiffV2(nextHeight, T[n].sbits, prev,
                                               T[n].pool + sumPurchasedTickets(T, n, TicketMaturity))

Unsupported == -2
PendingVotes(height, nextRetargetHeight) ==
    LET blocks == IF height < StakeValidationHeight THEN nextRetargetHeight - StakeValidationHeight
                  ELSE nextRetargetHeight - height - 1
    IN  IF nextRetargetHeight > StakeValidationHeight THEN blocks * TicketsPerBlock ELSE 0

estimateNextStakeDifficultyV2(T, n, tickets, useMaxTickets) ==
    LET height == T[n].keyHeight + 1
        blocks == StakeDiffWindowSize - (height % StakeDiffWindowSize)
        next == height + blocks
        maxTickets == (blocks - 1) * MaxFreshStakePerBlock
        newTickets == IF useMaxTickets THEN maxTickets ELSE tickets
        prev == PrevPoolSizeAll(T, n, next)
        floor == next - TicketMaturity - 1
        remaining == sumPurchasedTickets(T, n, height - floor)
        floorNode == ancestorKeyNode(T, n, floor - 1)
        maturing == IF floorNode < 0 THEN 0
                    ELSE sumPurchasedTickets(T, floorNode, floor - (height - TicketMaturity))
    IN  CASE ~T[n].key -> T[n].sbits
          [] T[n].key /\ StakeDiffWindowSize > TicketMaturity -> Unsupported
          [] T[n].key /\ StakeDiffWindowSize <= TicketMaturity /\ newTickets > maxTickets -> TooMany
          [] T[n].key /\ StakeDiffWindowSize <= TicketMaturity /\ newTickets <= maxTickets
             /\ next < StakeDiffStartHeight -> MinimumStakeDiff
          [] OTHER -> IF prev = 0 THEN T[n].sbits
                      ELSE calcNextStakeDiffV2(next, T[n].sbits, prev,
                              T[n].pool + maturing - PendingVotes(height, next) + remaining + newTickets)
=============================================================================
