----------------------------- MODULE BlockRules -----------------------------
(***************************************************************************)
(* What a block has to satisfy (validate.go, accept.go).                   *)
(*                                                                         *)
(* A block is a key block if its hash meets the target and a micro block   *)
(* if it only meets the target times DifficultyRate: pow is "key",         *)
(* "micro", or "none" for a template nobody solved.  A key block starts    *)
(* with two coinbases, the first of which a micro block leaves out.        *)
(*                                                                         *)
(* A transaction has a type, inputs (the outpoint and the fraud proof:     *)
(* value, height and index of what it spends), and outputs of a class.  A  *)
(* view maps a transaction to its outputs and those that are spent.  A     *)
(* chain is a sequence of nodes: the block, the ledger after it (without   *)
(* its own regular tree, which the next block decides on), and the tickets *)
(* drawn and missed.  A rule that fails is FALSE.                          *)
(***************************************************************************)
EXTENDS ChainRules

CONSTANTS
    MaxAmount, MaxTxSize, MaxBlockPayload, MaxSigOpsPerBlock,
    CoinbaseMaturity, TicketMaturity, SStxChangeMaturity,
    StakeEnabledHeight, MinimumStakeDiff, MaxFreshStakePerBlock,
    MicroBlockValidationHeight, MaxMicroPerKey,
    CalculateRewards(_, _, _),      \* stake.CalculateRewards
    NoTx,                           \* the null hash
    NullIndex                       \* wire.NullBlockIndex

NoVote == [on |-> 0, keyHeight |-> 0, yes |-> FALSE]
Txs(block) == block.regular \o block.stake
Ids(txs) == [i \in DOMAIN txs |-> txs[i].id]
Total(outs) == FoldSeq(LAMBDA o, t : t + o.value, 0, outs)
OfType(txs, type) == SelectSeq(txs, LAMBDA tx : tx.type = type)
Voting(keyHeight) == keyHeight + 1 >= StakeValidationHeight
VoteSubsidy(keyHeight) == CalcStakeVoteSubsidy(<<>>, keyHeight)

---------------------------------------------------------------------------
(* Without the chain *)

IsCoinBaseTx(tx) == Len(tx.ins) = 1 /\ tx.ins[1].tx = NoTx
isNullFraudProof(in) == in.height = NullIndex /\ in.bindex = NullIndex

CheckTransactionSanity(tx) ==
    /\ tx.ins # <<>> /\ tx.outs # <<>> /\ tx.size <= MaxTxSize
    /\ \A i \in DOMAIN tx.outs : tx.outs[i].value >= 0
    /\ Total(tx.outs) <= MaxAmount
    /\ IF IsCoinBaseTx(tx) THEN isNullFraudProof(tx.ins[1])
       ELSE \A i \in DOMAIN tx.ins : tx.ins[i].tx = NoTx => tx.type = "SSGen" /\ i = 1
    /\ IsInjective([i \in DOMAIN tx.ins |-> <<tx.ins[i].tx, tx.ins[i].index>>])

checkProofOfStake(block) ==
    \A i \in DOMAIN block.stake :
        block.stake[i].type = "SStx" =>
            LET price == block.stake[i].outs[1].value
            IN  price >= block.sbits /\ price >= MinimumStakeDiff

checkProofOfWork(block, noPow) ==
    noPow \/ block.pow = "key" \/ (block.pow = "micro" /\ block.height > MicroBlockValidationHeight)

\* The commitment to a list of transactions.  That of a micro block starts
\* with the coinbase it leaves out, whose hash is in the one it has.
MerkleRootOf(txs, compressed) ==
    IF compressed THEN <<txs[1].outs[1].data[2]>> \o Ids(txs) ELSE Ids(txs)

CountSigOps(tx, isCoinBase, isSSGen) == tx.outSigs + (IF isCoinBase THEN 0 ELSE tx.inSigs)

checkStakeTree(block) ==
    /\ \A i \in DOMAIN block.stake :
          CheckTransactionSanity(block.stake[i]) /\ block.stake[i].type # "Regular"
    /\ Len(OfType(block.stake, "SStx")) = block.freshStake
    /\ LET votes == Len(OfType(block.stake, "SSGen"))
       IN  /\ Voting(block.keyHeight) => votes > TicketsPerBlock \div 2
           /\ votes <= TicketsPerBlock /\ votes = block.voters
    /\ Len(OfType(block.stake, "SSRtx")) = block.revocations
    /\ Ids(block.stake) = block.stakeRoot

checkBothTrees(block) ==
    LET ops(tx) == CountSigOps(tx, IsCoinBaseTx(tx), tx.type = "SSGen")
    IN  /\ IsInjective(Ids(Txs(block)))
        /\ FoldSeq(LAMBDA tx, n : n + ops(tx), 0, Txs(block)) <= MaxSigOpsPerBlock
        /\ ~Voting(block.keyHeight) => block.voteBit = 1

\* The stake tree is looked at in a key block only: neither in a micro block
\* nor in a template.
checkBlockSanity(block, noPow) ==
    LET coinbases == IF noPow \/ block.pow = "key" THEN 2 ELSE 1
    IN  /\ checkProofOfWork(block, noPow) /\ checkProofOfStake(block)
        /\ Len(block.regular) >= coinbases
        /\ block.payload <= MaxBlockPayload /\ block.size >= block.payload
        /\ \A i \in DOMAIN block.regular : IsCoinBaseTx(block.regular[i]) <=> i <= coinbases
        /\ \A i \in DOMAIN block.regular :
              block.regular[i].type = "Regular" /\ CheckTransactionSanity(block.regular[i])
        /\ block.pow = "key" /\ ~noPow => checkStakeTree(block)
        /\ block.root = MerkleRootOf(block.regular, coinbases = 1)
        /\ checkBothTrees(block)

---------------------------------------------------------------------------
(* After its parent *)

IsFinalizedTransaction(tx, keyHeight) == tx.lockTime = 0 \/ tx.lockTime < keyHeight \/ tx.final

checkBlockHeaderContext(chain, block) ==
    LET prev == chain[block.parent].b
    IN  block.height > 1 /\ block.voteBit # prev.voteBit => prev.pow = "key"

\* The coinbase both kinds of block have says the height of the block.
checkCoinbaseUniqueHeight(block) ==
    LET coinbase == IF block.pow = "key" THEN block.regular[2] ELSE block.regular[1]
    IN  /\ Len(block.regular[1].outs) >= 2 /\ Len(coinbase.outs) >= 2
        /\ coinbase.outs[1].class = "null" /\ coinbase.outs[1].data[1] = block.height

checkBlockContext(chain, block) ==
    /\ checkBlockHeaderContext(chain, block)
    /\ block.size <= MaxBlockPayload
    /\ \A i \in DOMAIN Txs(block) : IsFinalizedTransaction(Txs(block)[i], block.keyHeight)
    /\ block.height = chain[block.parent].b.height + 1
    /\ block.height > 1 => checkCoinbaseUniqueHeight(block)

MicroLimit(chain, block) ==
    block.pow = "micro" => block.height - chain[block.prevKey].b.height <= MaxMicroPerKey

---------------------------------------------------------------------------
(* The tickets of a key block *)

\* Before the first votes there are only tickets.
TicketsAllowed(stake, block, requiredSBits) ==
    LET tickets == OfType(block.stake, "SStx")
    IN  /\ \A i \in DOMAIN block.stake :
              block.stake[i].type \in {"SSGen", "SSRtx"} =>
                  block.keyHeight > StakeEnabledHeight /\ Voting(block.keyHeight)
        /\ block.sbits = requiredSBits
        /\ \A i \in DOMAIN tickets : tickets[i].outs[1].value >= block.sbits
        /\ Len(tickets) <= MaxFreshStakePerBlock
        /\ block.poolSize = stake.poolSize

VotesAllowed(stake, block) ==
    LET votes == OfType(block.stake, "SSGen")
        yea == Len(SelectSeq(votes, LAMBDA tx : tx.vote.yes))
    IN  /\ block.voters >= (TicketsPerBlock \div 2) + 1
        /\ \A i \in DOMAIN votes :
              /\ votes[i].ins[2].tx \in stake.winners
              /\ votes[i].vote.on = block.prevKey
              /\ votes[i].vote.keyHeight = block.keyHeight - 1
        /\ block.voteBit = 1 <=> yea > Len(votes) - yea
        /\ block.finalState = stake.finalState

RevocationsAllowed(stake, block) ==
    \A i \in DOMAIN block.stake :
        /\ block.stake[i].type # "Regular"
        /\ block.stake[i].type = "SSRtx" => block.stake[i].ins[1].tx \in stake.missed

CheckBlockStakeSanity(chain, block, requiredSBits) ==
    LET stake == chain[block.parent].stake
    IN  /\ TicketsAllowed(stake, block, requiredSBits)
        /\ Voting(block.keyHeight) =>
              VotesAllowed(stake, block) /\ RevocationsAllowed(stake, block)

---------------------------------------------------------------------------
(* Inputs *)

\* Spends the inputs of a transaction and adds its outputs.
connectTransaction(view, tx, height, index) ==
    LET spent(id) == {tx.ins[i].index : i \in {j \in DOMAIN tx.ins : tx.ins[j].tx = id}}
        entry == [height |-> height, index |-> index, coinbase |-> IsCoinBaseTx(tx),
                  expires |-> tx.expiry # 0, type |-> tx.type, outs |-> tx.outs, spent |-> {}]
    IN  [id \in DOMAIN view \union {tx.id} |->
            IF id = tx.id THEN entry ELSE [view[id] EXCEPT !.spent = @ \union spent(id)]]

ConnectAll(view, txs, height) ==
    LET C[i \in 0..Len(txs)] ==
            IF i = 0 THEN view ELSE connectTransaction(C[i - 1], txs[i], height, i - 1)
    IN  C[Len(txs)]

Exists(view, in) == in.tx \in DOMAIN view /\ in.index \in DOMAIN view[in.tx].outs
IsOutputSpent(view, in) == ~Exists(view, in) \/ in.index \in view[in.tx].spent
Spent(view, in) == view[in.tx].outs[in.index]

KeyHeightByHeight(chain, height, next) ==
    CASE height = next.height -> next.keyHeight
      [] height < chain[1].b.height -> height
      [] OTHER -> LET n == CHOOSE m \in DOMAIN chain : chain[m].b.height = height
                  IN  chain[n].b.keyHeight

\* What the commitments of a ticket say its buyers gave.
Commitments(outs) == [k \in 1..((Len(outs) - 1) \div 2) |-> outs[2 * k].data[1]]
Values(outs) == [k \in DOMAIN outs |-> outs[k].value]

TicketInputs(view, tx) ==
    /\ \A i \in DOMAIN tx.ins :
          ~IsOutputSpent(view, tx.ins[i]) /\ Spent(view, tx.ins[i]).class # "null"
    /\ Commitments(tx.outs) =
          [k \in DOMAIN tx.ins |-> Spent(view, tx.ins[k]).value - tx.outs[2 * k + 1].value]

PaysTicket(view, in, pays, subsidy) ==
    /\ in.tx \in DOMAIN view /\ view[in.tx].type = "SStx"
    /\ LET outs == view[in.tx].outs
       IN  /\ Values(pays) = CalculateRewards(Commitments(outs), outs[1].value, subsidy)
           /\ outs[1].class = "ticket"

VoteInputs(chain, view, tx, next) ==
    /\ next.keyHeight >= StakeEnabledHeight + 1
    /\ tx.ins[1].value = VoteSubsidy(tx.vote.keyHeight)
    /\ tx.ins[2].index = 1
    /\ PaysTicket(view, tx.ins[2], SubSeq(tx.outs, 3, Len(tx.outs)),
                  VoteSubsidy(tx.vote.keyHeight))
    /\ next.keyHeight - KeyHeightByHeight(chain, view[tx.ins[2].tx].height, next) > TicketMaturity

RevocationInputs(chain, view, tx, next) ==
    /\ next.keyHeight >= StakeEnabledHeight + 2
    /\ PaysTicket(view, tx.ins[1], tx.outs, 0)
    /\ next.keyHeight - KeyHeightByHeight(chain, view[tx.ins[1].tx].height, next)
          > TicketMaturity + 1

\* Mutant: the places are the same in both kinds of block.
FraudProofAsKey(in, entry, next, check) ==
    /\ in.value = entry.outs[in.index].value
    /\ in.height = entry.height /\ in.bindex = entry.index

\* In a micro block the place of a transaction in the same block is one off:
\* the miner dropped the first coinbase after the proofs were made.
FraudProof(in, entry, next, check) ==
    /\ in.value = entry.outs[in.index].value
    /\ in.height = entry.height
    /\ in.bindex = IF check = "key" \/ in.height # next.height THEN entry.index ELSE entry.index + 1

SpendableInput(chain, view, tx, in, next, check) ==
    /\ Exists(view, in)
    /\ LET entry == view[in.tx]
           out == Spent(view, in)
           age == next.keyHeight - KeyHeightByHeight(chain, entry.height, next)
       IN  /\ out.value \in 1..MaxAmount
           /\ check # "none" => FraudProof(in, entry, next, check)
           /\ entry.coinbase \/ entry.expires \/ out.class \in {"gen", "revoke"} =>
                 age >= CoinbaseMaturity
           /\ ~IsOutputSpent(view, in)
           /\ in.tree = IF entry.type = "Regular" THEN "regular" ELSE "stake"
           /\ out.class = "ticket" => tx.type \in {"SSGen", "SSRtx"}
           /\ out.class = "change" => age >= SStxChangeMaturity

\* The fee counts for the miner only in the regular tree.
CheckTransactionInputs(chain, view, tx, next, check) ==
    LET paid == {i \in DOMAIN tx.ins : ~(tx.type = "SSGen" /\ i = 1)}
        in == MapThenSumSet(LAMBDA i : Spent(view, tx.ins[i]).value, paid)
                  + (IF tx.type = "SSGen" THEN VoteSubsidy(tx.vote.keyHeight) ELSE 0)
        ok == /\ CASE tx.type = "SStx" -> TicketInputs(view, tx)
                   [] tx.type = "SSGen" -> VoteInputs(chain, view, tx, next)
                   [] tx.type = "SSRtx" -> RevocationInputs(chain, view, tx, next)
                   [] OTHER -> TRUE
              /\ \A i \in paid : SpendableInput(chain, view, tx, tx.ins[i], next, check)
              /\ in \in Total(tx.outs)..MaxAmount
              /\ tx.type = "Regular" =>
                    \A i \in DOMAIN tx.outs : tx.outs[i].class \in {"pay", "null"}
    IN  CASE tx.expiry # 0 /\ next.keyHeight >= tx.expiry -> [ok |-> FALSE, fee |-> 0]
          [] IsCoinBaseTx(tx) -> [ok |-> TRUE, fee |-> 0]
          [] OTHER -> [ok |-> ok,
                       fee |-> IF ok /\ tx.type = "Regular" THEN in - Total(tx.outs) ELSE 0]

CountP2SHSigOps(tx, isCoinBase, isSSGen, view) ==
    IF isCoinBase \/ isSSGen THEN [ok |-> TRUE, n |-> 0]
    ELSE [ok |-> \A i \in DOMAIN tx.ins : ~IsOutputSpent(view, tx.ins[i]), n |-> tx.p2shSigs]

checkNumSigOps(tx, view, index, regular, coinbases) ==
    LET isCoinbase == regular /\ index <= coinbases
        p2sh == CountP2SHSigOps(tx, isCoinbase, tx.type = "SSGen", view)
    IN  [ok |-> p2sh.ok, n |-> CountSigOps(tx, isCoinbase, tx.type = "SSGen") + p2sh.n]
---------------------------------------------------------------------------
(* Fees.  Of the fees of a regular tree its block gets six tenths, the     *)
(* next block three, and the next key block one.                           *)

\* What a block says its regular transactions pay.
TotalFees(block) ==
    LET first == IF block.pow = "key" THEN 3 ELSE 2
        fee(tx) == FoldSeq(LAMBDA in, t : t + in.value, 0, tx.ins) - Total(tx.outs)
    IN  FoldSeq(LAMBDA tx, t : t + fee(tx), 0, SubSeq(block.regular, first, Len(block.regular)))

\* The fees of the blocks from the parent back to the last key block.
FeesSinceKey(chain, parent, prevKey) ==
    MapThenSumSet(LAMBDA n : TotalFees(chain[n].b), prevKey..parent)

\* Fees are lost with the votes that are missing.
ByVoters(fees, keyHeight, voters) ==
    IF Voting(keyHeight) THEN (fees * voters) \div TicketsPerBlock ELSE fees

BlockFees(chain, parent, fees, keyHeight, voters) ==
    (ByVoters(fees, keyHeight, voters) * 6) \div 10
        + (ByVoters(TotalFees(chain[parent].b), keyHeight, voters) * 3) \div 10

KeyFees(chain, parent, prevKey, keyHeight, voters) ==
    ByVoters(FeesSinceKey(chain, parent, prevKey), keyHeight, voters) \div 10

KeySubsidy(keyHeight, voters) ==
    CalcBlockWorkSubsidy(<<>>, keyHeight, voters) + CalcBlockTaxSubsidy(<<>>, keyHeight, voters)

CoinbaseValue(chain, block, fees, stakeFees, isMining) ==
    LET key == block.pow = "key" \/ isMining
        own == BlockFees(chain, block.parent, fees, block.keyHeight, block.voters)
        all == own + stakeFees
                  + KeyFees(chain, block.parent, block.prevKey, block.keyHeight, block.voters)
        limit == IF key THEN KeySubsidy(block.keyHeight, block.voters) + all ELSE own
        out == Total(block.regular[1].outs) + (IF key THEN Total(block.regular[2].outs) ELSE 0)
    IN  /\ block.regular[1].ins[1].value = limit - (IF key THEN all ELSE own)
        /\ out <= limit

checkStakeBaseAmounts(txs, view, keyHeight) ==
    \A i \in DOMAIN txs :
        txs[i].type = "SSGen" =>
            Total(txs[i].outs) - Spent(view, txs[i].ins[2]).value <= VoteSubsidy(keyHeight - 1)

getStakeBaseAmounts(txs, view) ==
    FoldSeq(LAMBDA tx, t : t + Total(tx.outs) - Spent(view, tx.ins[2]).value, 0,
            OfType(txs, "SSGen"))

\* The view has the inputs spent already; their amounts are still there.
getStakeTreeFees(txs, view, keyHeight) ==
    LET in(tx) == MapThenSumSet(LAMBDA i : Spent(view, tx.ins[i]).value,
                                {i \in DOMAIN tx.ins : ~(tx.type = "SSGen" /\ i = 1)})
        minted(tx) == IF tx.type = "SSGen" THEN VoteSubsidy(keyHeight - 1) ELSE 0
        fee(tx) == in(tx) + minted(tx) - Total(tx.outs)
    IN  FoldSeq(LAMBDA tx, t : t + fee(tx), 0, txs)

StakeBases(block, txs, view) ==
    block.pow = "key" =>
        /\ Voting(block.keyHeight) => txs # <<>>
        /\ checkStakeBaseAmounts(txs, view, block.keyHeight)
        /\ getStakeBaseAmounts(txs, view) <=
              (IF Voting(block.keyHeight)
               THEN VoteSubsidy(block.keyHeight - 1) * block.voters ELSE 0)

\* What is known after transaction i, if s was known before it.
Connected(s, tx, i, height, ops, ins) ==
    IF ~s.ok \/ ~ops.ok \/ s.ops + ops.n > MaxSigOpsPerBlock \/ ~ins.ok
    THEN [s EXCEPT !.ok = FALSE]
    ELSE [ok |-> TRUE, ops |-> s.ops + ops.n, fees |-> s.fees + ins.fee,
          view |-> connectTransaction(s.view, tx, height, i - 1)]

\* Each transaction sees what the ones before it did.
ConnectEach(chain, block, view, txs, regular, key) ==
    LET C[i \in 0..Len(txs)] ==
            IF i = 0 THEN [ok |-> TRUE, ops |-> 0, fees |-> 0, view |-> view]
            ELSE Connected(C[i - 1], txs[i], i, block.height,
                     checkNumSigOps(txs[i], C[i - 1].view, i, regular, IF key THEN 2 ELSE 1),
                     CheckTransactionInputs(chain, C[i - 1].view, txs[i], block,
                                            IF key THEN "key" ELSE "micro"))
    IN  C[Len(txs)]

PaidFor(chain, block, txs, regular, stakeFees, isMining, last) ==
    [ok |-> /\ last.ok
            /\ IF regular THEN CoinbaseValue(chain, block, last.fees, stakeFees, isMining)
               ELSE StakeBases(block, txs, last.view),
     view |-> last.view]

checkTransactionsAndConnect(chain, block, view, txs, regular, stakeFees, isMining) ==
    PaidFor(chain, block, txs, regular, stakeFees, isMining,
            ConnectEach(chain, block, view, txs, regular, block.pow = "key" \/ isMining))

---------------------------------------------------------------------------
(* Connecting *)

\* The regular tree of the parent counts if the votes say so, and always
\* if the parent is a micro block.
RegularTreeValid(block, parent) == block.voteBit = 1 \/ parent.pow # "key"

ParentView(chain, block) ==
    LET parent == chain[block.parent]
    IN  IF RegularTreeValid(block, parent.b)
        THEN ConnectAll(parent.view, parent.b.regular, parent.b.height) ELSE parent.view

ConnectsRegular(chain, block, isMining, stake, stakeFees) ==
    /\ stake.ok /\ stakeFees >= 0
    /\ checkTransactionsAndConnect(chain, block, stake.view, block.regular,
                                   TRUE, stakeFees, isMining).ok

checkConnectBlock(chain, block, requiredSBits, isMining) ==
    /\ isMining \/ block.pow = "key" =>
          CoinbasePaysTax(<<>>, block.regular[1], block.keyHeight, block.voters)
    /\ block.pow = "key" => CheckBlockStakeSanity(chain, block, requiredSBits)
    /\ \E stake \in {checkTransactionsAndConnect(chain, block, ParentView(chain, block),
                                                  block.stake, FALSE, 0, isMining)} :
          ConnectsRegular(chain, block, isMining, stake,
                          getStakeTreeFees(block.stake, stake.view, block.keyHeight))

\* The block is tried where it belongs: on the ledger as its parent left it,
\* after the blocks that came later are disconnected.
CheckConnectBlock(chain, block, requiredSBits, isMining) ==
    /\ block.parent \in DOMAIN chain
    /\ \E ledger \in {SubSeq(chain, 1, block.parent)} :
          checkConnectBlock(ledger, block, requiredSBits, isMining)

\* What is left of the ledger once the block is connected: its own regular
\* tree was only tried.
ConnectedView(chain, block) == ConnectAll(ParentView(chain, block), block.stake, block.height)

\* Everything a block goes through before it extends the chain.
AcceptBlock(chain, block, requiredSBits) ==
    /\ checkBlockSanity(block, FALSE)
    /\ MicroLimit(chain, block) /\ checkBlockContext(chain, block)
    /\ checkConnectBlock(chain, block, requiredSBits, FALSE)
=============================================================================
