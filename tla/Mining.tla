------------------------------- MODULE Mining -------------------------------
(***************************************************************************)
(* Block templates (mining.go) and their solution (cpuminer.go), on a      *)
(* chain that grows by what is mined.                                      *)
(*                                                                         *)
(* A template is made as a key block and checked as one, but for what a    *)
(* block without proof of work skips: its tickets.  Whether it becomes a   *)
(* key block or, cut down, a micro block is known when the hash is.        *)
(***************************************************************************)
EXTENDS BlockRules

CONSTANTS
    BlockHeaderOverhead, BlockMaxSize, BlockMinSize, BlockPrioritySize,
    TxMinFreeFee, MinHighPriority,
    TicketPrice,        \* the stake difficulty, here the same for every block
    CoinbaseSize,
    Spends,             \* the payments that may be announced
    VotePatterns,       \* how many winners vote for and against
    FirstHeights,       \* where the chain starts
    Tickets,            \* the tickets that are there at the start, in order of the lottery
    Ledger,             \* the outputs that are there at the start
    MaxBlocks           \* the length of the chain

VARIABLES
    wallet,     \* the payments nobody has announced yet
    chain,      \* the nodes of the main chain
    pool,       \* the memory pool
    refused     \* the templates and blocks that were refused

Tip == chain[Len(chain)]
OnKey == Tip.b.pow = "key"
PrevKey == IF OnKey THEN Len(chain) ELSE Tip.b.prevKey
NextBlock ==
    [height |-> Tip.b.height + 1, keyHeight |-> Tip.b.keyHeight + (IF OnKey THEN 1 ELSE 0)]

---------------------------------------------------------------------------
(* Transactions *)

Out(value, class, data) ==
    [value |-> value, class |-> class, data |-> data, version |-> 0,
     addrs |-> IF class = "tax" THEN OrganizationPkScript ELSE {}]
In(id, index, tree) ==
    [tx |-> id, index |-> index, tree |-> tree, value |-> 0, height |-> 0, bindex |-> 0]
MakeTx(id, type, ins, outs, vote) ==
    [id |-> id, type |-> type, ins |-> ins, outs |-> outs, vote |-> vote, expiry |-> 0,
     lockTime |-> 0, final |-> TRUE, fee |-> 0, size |-> 2, inSigs |-> Len(ins),
     outSigs |-> 0, p2shSigs |-> 0]

CoinbaseIn(value) ==
    [In(NoTx, 1, "regular") EXCEPT !.value = value, !.height = NullIndex, !.bindex = NullIndex]

createExtraCoinbaseTx(next, voters, fees) ==
    LET subsidy == CalcBlockWorkSubsidy(<<>>, next.keyHeight, voters)
        tax == CalcBlockTaxSubsidy(<<>>, next.keyHeight, voters)
    IN  [MakeTx(<<"extra", next.height>>, "Regular", <<CoinbaseIn(subsidy + tax)>>,
                <<Out(tax, "tax", <<>>), Out(0, "null", <<next.keyHeight, NoTx>>),
                  Out(subsidy, "pay", <<>>), Out(fees, "pay", <<>>)>>, NoVote)
            EXCEPT !.size = CoinbaseSize]

createCoinbaseTx(next, extra, fees) ==
    [MakeTx(<<"coinbase", next.height>>, "Regular", <<CoinbaseIn(0)>>,
            <<Out(0, "null", <<next.height, extra.id>>), Out(fees, "pay", <<>>)>>, NoVote)
        EXCEPT !.size = CoinbaseSize]

VoteTx(view, ticket, on, keyHeight, yes) ==
    LET subsidy == VoteSubsidy(keyHeight)
        outs == view[ticket].outs
        pays == CalculateRewards(Commitments(outs), outs[1].value, subsidy)
    IN  MakeTx(<<"vote", ticket[2]>>, "SSGen",
               <<[In(NoTx, 1, "regular") EXCEPT !.value = subsidy], In(ticket, 1, "stake")>>,
               <<Out(0, "null", <<>>), Out(0, "null", <<>>)>>
                   \o [k \in DOMAIN pays |-> Out(pays[k], "gen", <<>>)],
               [on |-> on, keyHeight |-> keyHeight, yes |-> yes])

RevocationTx(view, ticket) ==
    LET outs == view[ticket].outs
        pays == CalculateRewards(Commitments(outs), outs[1].value, 0)
    IN  MakeTx(<<"revoke", ticket[2]>>, "SSRtx", <<In(ticket, 1, "stake")>>,
               [k \in DOMAIN pays |-> Out(pays[k], "revoke", <<>>)], NoVote)

---------------------------------------------------------------------------
(* Which transactions are mined, and in which order *)

Votes == {tx \in pool : tx.type = "SSGen" /\ tx.vote.on = PrevKey}
Yea == Cardinality({tx \in Votes : tx.vote.yes})
Nay == Cardinality(Votes) - Yea
EnoughVotes == Yea > TicketsPerBlock \div 2 \/ Nay > TicketsPerBlock \div 2

IsTxTreeValid ==
    LET votes == {tx \in pool : tx.type = "SSGen" /\ tx.vote.on = Len(chain)}
        yea == Cardinality({tx \in votes : tx.vote.yes})
    IN  Cardinality(votes) <= TicketsPerBlock \div 2 \/ yea > Cardinality(votes) - yea

FetchCurrentUtxoView ==
    IF IsTxTreeValid THEN ConnectAll(Tip.view, Tip.b.regular, Tip.b.height) ELSE Tip.view

PaidIns(tx) == {i \in DOMAIN tx.ins : ~(tx.type = "SSGen" /\ i = 1)}
Missing(view, tx) == {tx.ins[i].tx : i \in {j \in PaidIns(tx) : IsOutputSpent(view, tx.ins[j])}}

\* The transactions that may be mined, and which others each waits for.
Candidates(view) ==
    {tx \in pool :
        /\ IsFinalizedTransaction(tx, NextBlock.keyHeight)
        /\ tx.type = "SSGen" => tx.vote.on = PrevKey /\ tx.vote.keyHeight = NextBlock.keyHeight - 1
        /\ Missing(view, tx) \subseteq {other.id : other \in pool}}

txStakePriority(type) == CASE type = "SSGen" -> 2 [] type = "SStx" -> 1 [] OTHER -> 0

\* The fee the pool noted: what the inputs are worth is known when the
\* transaction gets there.
FeePerKB(tx) == (tx.fee * 1000) \div tx.size
CalcPriority(view, tx) ==
    LET known == {i \in PaidIns(tx) : ~IsOutputSpent(view, tx.ins[i])}
        aged(in) == Spent(view, in).value * (NextBlock.height - view[in.tx].height)
    IN  MapThenSumSet(LAMBDA i : aged(tx.ins[i]), known) \div tx.size

txPQByStakeAndFee(view, x, y) ==
    \/ txStakePriority(x.type) > txStakePriority(y.type)
    \/ /\ txStakePriority(x.type) = txStakePriority(y.type)
       /\ \/ FeePerKB(x) > FeePerKB(y)
          \/ FeePerKB(x) = FeePerKB(y) /\ CalcPriority(view, x) > CalcPriority(view, y)

txPQByStakeAndFeeAndThenPriority(view, x, y) ==
    \/ txStakePriority(x.type) > txStakePriority(y.type)
    \/ /\ txStakePriority(x.type) = txStakePriority(y.type)
       /\ IF txStakePriority(x.type) > 0 THEN FeePerKB(x) > FeePerKB(y)
          ELSE LET p == CalcPriority(view, x)  q == CalcPriority(view, y)
               IN  p > q \/ (p = q /\ FeePerKB(x) > FeePerKB(y))

Less(s, x, y) ==
    IF s.byFee THEN txPQByStakeAndFee(s.first, x, y)
    ELSE txPQByStakeAndFeeAndThenPriority(s.first, x, y)

spendTransaction(view, tx) == connectTransaction(view, tx, NextBlock.height, NullIndex)

SigOps(s, tx) ==
    LET isSSGen == tx.type = "SSGen"  p2sh == CountP2SHSigOps(tx, FALSE, isSSGen, s.view)
    IN  [ok |-> p2sh.ok, n |-> CountSigOps(tx, FALSE, isSSGen) + p2sh.n]

\* The limits a transaction may break; what depends on it goes with it.
Skipped(s, tx) ==
    \/ tx.type = "SStx" /\ (s.tickets >= MaxFreshStakePerBlock \/ tx.outs[1].value < TicketPrice)
    \/ tx.type = "SSRtx" /\ tx.ins[1].tx \notin Tip.stake.missed
    \/ s.size + tx.size >= BlockMaxSize
    \/ ~SigOps(s, tx).ok \/ s.ops + SigOps(s, tx).n > MaxSigOpsPerBlock
    \/ tx.type = "SSGen" /\ (tx.ins[2].tx \in s.voted \/ tx.ins[2].tx \notin Tip.stake.winners)
    \/ /\ s.byFee /\ FeePerKB(tx) < TxMinFreeFee
       /\ tx.type = "Regular" /\ s.size + tx.size >= BlockMinSize

\* The space for transactions of high priority is used up.
EndsPriority(s, tx) ==
    /\ ~s.byFee
    /\ s.size + tx.size >= BlockPrioritySize \/ CalcPriority(s.first, tx) <= MinHighPriority
PutBack(s, tx) ==
    EndsPriority(s, tx)
        /\ (s.size + tx.size > BlockPrioritySize \/ CalcPriority(s.first, tx) < MinHighPriority)

Take(s, tx, ready) ==
    [s EXCEPT !.view = spendTransaction(@, tx), !.txs = Append(@, tx), !.size = @ + tx.size,
              !.ops = @ + SigOps(s, tx).n,
              !.tickets = @ + (IF tx.type = "SStx" THEN 1 ELSE 0),
              !.voted = IF tx.type = "SSGen" THEN @ \union {tx.ins[2].tx} ELSE @,
              !.byFee = @ \/ EndsPriority(s, tx),
              !.queue = (@ \ {tx}) \union ready, !.waiting = @ \ ready]

\* The transactions that waited for tx only.
Released(s, tx) ==
    {d \in s.waiting : Missing(s.first, d) \subseteq {x.id : x \in Range(s.txs)} \union {tx.id}}

Consider(s, tx) ==
    IF Skipped(s, tx) THEN [s EXCEPT !.queue = @ \ {tx}]
    ELSE IF PutBack(s, tx) THEN [s EXCEPT !.byFee = TRUE]
    ELSE IF ~CheckTransactionInputs(chain, s.view, tx, NextBlock, "none").ok
    THEN [s EXCEPT !.queue = @ \ {tx}, !.byFee = @ \/ EndsPriority(s, tx)]
    ELSE Take(s, tx, Released(s, tx))

RECURSIVE Select(_)
Select(s) ==
    IF s.queue = {} THEN s
    ELSE Select(Consider(s, CHOOSE x \in s.queue : \A y \in s.queue : ~Less(s, y, x)))

BlockTxns(view) ==
    LET all == Candidates(view)
        ready == {tx \in all : Missing(view, tx) = {}}
    IN  Select([queue |-> ready, waiting |-> all \ ready, first |-> view, view |-> view,
                txs |-> <<>>, size |-> BlockHeaderOverhead, ops |-> 0, tickets |-> 0,
                voted |-> {}, byFee |-> BlockPrioritySize = 0]).txs

---------------------------------------------------------------------------
(* The template *)

\* Notes in a transaction what it spends.
ProofFrom(view, in) ==
    [in EXCEPT !.value = Spent(view, in).value, !.height = view[in.tx].height,
               !.bindex = view[in.tx].index]

\* A stake transaction may spend only what was there before the block.
maybeInsertStakeTx(view, tx) ==
    IF \E i \in PaidIns(tx) : tx.ins[i].tx \notin DOMAIN view THEN <<>>
    ELSE <<[tx EXCEPT !.ins = [i \in DOMAIN tx.ins |->
               IF i \in PaidIns(tx) THEN ProofFrom(view, tx.ins[i])
               ELSE [tx.ins[i] EXCEPT !.height = NullIndex, !.bindex = NullIndex]]]>>

InsertAll(view, txs) == FlattenSeq([i \in DOMAIN txs |-> maybeInsertStakeTx(view, txs[i])])

\* Whether the votes taken approve the regular tree of the last key block.
VoteBits(votes) ==
    LET yea == Len(SelectSeq(votes, LAMBDA tx : tx.vote.yes))
    IN  CASE ~Voting(NextBlock.keyHeight) -> 1
          [] Voting(NextBlock.keyHeight) /\ yea = 0 -> 0
          [] OTHER -> IF Len(votes) \div yea <= 1 THEN 1 ELSE 0

\* If they do not, what spends a regular transaction of the top block goes.
WithoutTop(txs) ==
    LET top == {Tip.b.regular[i].id : i \in DOMAIN Tip.b.regular}
    IN  SelectSeq(txs, LAMBDA tx :
            tx.type = "Regular" => \A i \in DOMAIN tx.ins : tx.ins[i].tx \notin top)

containsTxIns(txs, tx) == \E i \in DOMAIN tx.ins : tx.ins[i].tx \in Range(Ids(txs))

FreshTickets(view, txs) ==
    InsertAll(view, SelectSeq(txs, LAMBDA tx : /\ tx.type = "SStx" /\ ~containsTxIns(txs, tx)
                                               /\ tx.outs[1].value >= TicketPrice))

\* The shares of the two coinbases.
CoinbaseFees(txs, voters) ==
    LET scaled(fees) == IF Voting(NextBlock.keyHeight)
                        THEN (fees * voters) \div TicketsPerBlock ELSE fees
        fees == FoldSeq(LAMBDA tx, t : t + tx.fee, 0, txs)
    IN  ((scaled(fees) * 6) \div 10) + ((scaled(TotalFees(Tip.b)) * 3) \div 10)

ExtraCoinbaseFees(stake, voters) ==
    LET since == FoldSeq(LAMBDA n, t : t + TotalFees(n.b), 0, SubSeq(chain, PrevKey, Len(chain)))
        fees == FoldSeq(LAMBDA tx, t : t + tx.fee, 0, stake)
    IN  fees + (IF Voting(NextBlock.keyHeight)
                THEN (since * voters) \div TicketsPerBlock ELSE since) \div 10

\* What spends a transaction of the same block names its place in it.
FraudProofs(view, txs) ==
    [n \in DOMAIN txs |->
        IF n <= 2 THEN txs[n]
        ELSE [txs[n] EXCEPT !.ins = [i \in DOMAIN @ |->
            LET in == @[i]
                k == CHOOSE m \in DOMAIN txs : txs[m].id = in.tx
            IN  IF in.tx \in DOMAIN view THEN ProofFrom(view, in)
                ELSE [in EXCEPT !.value = txs[k].outs[in.index].value,
                                !.height = NextBlock.height, !.bindex = k - 1]]]]

\* A transaction whose input is neither in the ledger nor in the block.
MissesProof(view, txs) ==
    \E n \in 3..Len(txs) : \E i \in DOMAIN txs[n].ins :
        txs[n].ins[i].tx \notin DOMAIN view \union Range(Ids(txs))

Header(stake, votes, fresh, revocations, voteBit) ==
    [height |-> NextBlock.height, keyHeight |-> NextBlock.keyHeight, parent |-> Len(chain),
     prevKey |-> PrevKey, pow |-> "none", voteBit |-> voteBit, sbits |-> TicketPrice,
     voters |-> Len(votes), freshStake |-> Len(fresh), revocations |-> Len(revocations),
     poolSize |-> Tip.stake.poolSize, finalState |-> Tip.stake.finalState,
     stake |-> stake, stakeRoot |-> Ids(stake)]

SizeOf(txs) == BlockHeaderOverhead + FoldSeq(LAMBDA tx, t : t + tx.size, 0, txs)
BlockOf(header, regular) ==
    [f \in DOMAIN header \union {"regular", "root", "size", "payload"} |->
        CASE f = "regular" -> regular
          [] f = "root" -> MerkleRootOf(regular, FALSE)
          [] f \in {"size", "payload"} -> SizeOf(regular \o header.stake)
          [] OTHER -> header[f]]

\* What the miner itself checks: everything that needs no proof of work.
SelfCheck(block) ==
    checkBlockSanity(block, TRUE) /\ CheckConnectBlock(chain, block, TicketPrice, TRUE)

\* "few" if there are too few votes, "error" if the template is given up.
Checked(view, regular, block) ==
    IF MissesProof(view, regular) \/ ~SelfCheck(block)
    THEN [is |-> "error", block |-> {}] ELSE [is |-> "new", block |-> {block}]

Template(view, header, regular) ==
    IF Voting(NextBlock.keyHeight)
       /\ (~EnoughVotes \/ header.voters < (TicketsPerBlock \div 2) + 1)
    THEN [is |-> "few", block |-> {}]
    ELSE Checked(view, regular, BlockOf(header, FraudProofs(view, regular)))

\* The two coinbases, the payments after them.
Paid(header, extra, paying) ==
    <<extra, createCoinbaseTx(NextBlock, extra, CoinbaseFees(paying, header.voters))>> \o paying

WithCoinbases(view, header, paying) ==
    Template(view, header,
             Paid(header, createExtraCoinbaseTx(NextBlock, header.voters,
                              ExtraCoinbaseFees(header.stake, header.voters)), paying))

\* The block with the votes taken and the transactions txs.
Filled(view, votes, txs, fresh, revoked) ==
    WithCoinbases(view, Header(votes \o fresh \o revoked, votes, fresh, revoked, VoteBits(votes)),
                  OfType(txs, "Regular"))

IfVoting(txs) == IF Voting(NextBlock.keyHeight) THEN txs ELSE <<>>

\* The template takes the votes first, then drops what they disapprove.
WithVotes(view, votes, txs) ==
    Filled(view, votes, txs, FreshTickets(view, txs), IfVoting(InsertAll(view, OfType(txs, "SSRtx"))))

FromChosen(view, chosen, votes) ==
    WithVotes(view, votes, IF VoteBits(votes) = 1 THEN chosen ELSE WithoutTop(chosen))

FromView(view, chosen) ==
    FromChosen(view, chosen, IfVoting(InsertAll(view, OfType(chosen, "SSGen"))))

NewBlockTemplate == FromView(FetchCurrentUtxoView, BlockTxns(FetchCurrentUtxoView))

WithRegular(top, regular) ==
    [top EXCEPT !.pow = "none", !.regular = regular, !.root = MerkleRootOf(regular, FALSE),
                !.size = SizeOf(regular \o top.stake), !.payload = SizeOf(regular \o top.stake)]

CheckedAgain(block) ==
    IF SelfCheck(block)
    THEN [is |-> "recycled", block |-> {block}] ELSE [is |-> "error", block |-> {}]

\* The last key block over again: its tickets, its header, new coinbases.
handleTooFewVoters ==
    LET top == chain[PrevKey].b
        extra == createExtraCoinbaseTx(top, top.voters, 0)
    IN  CheckedAgain(WithRegular(top, <<extra, createCoinbaseTx(top, extra, 0)>>))

\* The easier target is tried if there is something to earn.
MicroAllowed(block) ==
    /\ block.height - chain[block.prevKey].b.height <= MaxMicroPerKey
    /\ block.height > MicroBlockValidationHeight
    /\ block.regular[2].outs[2].value > 0

\* The header stays as it was hashed, that is with the root over both
\* coinbases and the counts of the stake tree.
solveBlock(block, pow) ==
    IF pow = "key" THEN [block EXCEPT !.pow = "key"]
    ELSE [block EXCEPT !.pow = "micro", !.regular = Tail(@), !.stake = <<>>,
                       !.payload = SizeOf(Tail(block.regular))]

---------------------------------------------------------------------------
(* What a block changes *)

\* The tickets of a key block: the winners that did not vote are missed,
\* those old enough join the lottery.
NextStake(block) ==
    LET stake == Tip.stake
        voted == {tx.ins[2].tx : tx \in Range(OfType(block.stake, "SSGen"))}
        revoked == {tx.ins[1].tx : tx \in Range(OfType(block.stake, "SSRtx"))}
        ripe == SelectSeq(chain, LAMBDA n :
                    n.b.pow = "key" /\ n.b.keyHeight = block.keyHeight - TicketMaturity)
        matured == FlattenSeq([k \in DOMAIN ripe |-> Ids(OfType(ripe[k].b.stake, "SStx"))])
        live == SelectSeq(stake.live, LAMBDA t : t \notin stake.winners) \o matured
        draws == Voting(block.keyHeight + 1)
    IN  IF block.pow # "key" THEN stake
        ELSE [live |-> live, poolSize |-> Len(live), finalState |-> stake.finalState + 1,
              winners |-> IF draws THEN Range(SubSeq(live, 1, TicketsPerBlock)) ELSE {},
              missed |-> (stake.missed \union (stake.winners \ voted)) \ revoked]

Conflicts(txs, tx) ==
    {x \in txs : /\ x.id # tx.id
                 /\ \E i \in PaidIns(x) : \E j \in PaidIns(tx) :
                       x.ins[i].tx = tx.ins[j].tx /\ x.ins[i].index = tx.ins[j].index}

\* The transactions of a refused tree come back, those of the block go.
PoolAfter(block) ==
    LET undone == ~RegularTreeValid(block, Tip.b)
        back == IF undone THEN Range(SubSeq(Tip.b.regular, 3, Len(Tip.b.regular))) ELSE {}
        mined == {tx \in Range(Txs(block)) : ~IsCoinBaseTx(tx)}
    IN  {tx \in pool \union {[b EXCEPT !.ins = [i \in DOMAIN @ |->
                                 In(@[i].tx, @[i].index, @[i].tree)]] : b \in back} :
            \A m \in mined : tx.id # m.id /\ tx \notin Conflicts({tx}, m)}

---------------------------------------------------------------------------
(* Steps *)

\* A payment, a ticket or a revocation reaches the pool.
Announce(tx) ==
    /\ Conflicts(pool, tx) = {}
    /\ CheckTransactionInputs(chain, FoldSet(LAMBDA x, v : spendTransaction(v, x),
                                             FetchCurrentUtxoView, pool), tx, NextBlock, "none").ok
    /\ pool' = pool \union {tx}
    /\ wallet' = wallet \ {tx}
    /\ UNCHANGED <<chain, refused>>

Revoke ==
    /\ Voting(NextBlock.keyHeight)
    /\ \E ticket \in Tip.stake.missed : Announce(RevocationTx(Tip.view, ticket))

\* The winners vote on the last key block.
Cast(yes, n) ==
    LET won == SetToSeq(Tip.stake.winners \ {tx.ins[2].tx : tx \in Votes})
    IN  {VoteTx(Tip.view, won[k], PrevKey, chain[PrevKey].b.keyHeight, k <= yes) : k \in 1..n}

CastVotes(pattern) ==
    /\ Tip.stake.winners # {} /\ Votes = {}
    /\ pool' = pool \union Cast(pattern[1], pattern[1] + pattern[2])
    /\ UNCHANGED <<wallet, chain, refused>>

LateVote(yes) ==
    /\ Votes # {} /\ ~OnKey /\ Cardinality(Votes) < TicketsPerBlock
    /\ pool' = pool \union Cast(IF yes THEN 1 ELSE 0, 1)
    /\ UNCHANGED <<wallet, chain, refused>>

submitBlock(block) ==
    IF AcceptBlock(chain, block, TicketPrice)
    THEN /\ chain' = Append(chain, [b |-> block, view |-> ConnectedView(chain, block),
                                    stake |-> NextStake(block)])
         /\ pool' = PoolAfter(block)
         /\ UNCHANGED <<wallet, refused>>
    ELSE refused' = refused \union {block.pow} /\ UNCHANGED <<wallet, chain, pool>>

\* Mining only goes on once the template is there.
Mine(pow) ==
    /\ Len(chain) <= MaxBlocks
    /\ \E template \in {NewBlockTemplate} :
          \/ /\ template.is = "error" /\ pow = "key"
             /\ refused' = refused \union {IF Nay > Yea THEN "disapproved" ELSE "template"}
             /\ UNCHANGED <<wallet, chain, pool>>
          \/ \E block \in template.block :
                /\ pow = "micro" => MicroAllowed(block)
                /\ submitBlock(solveBlock(block, pow))

\* A second child of the parent of the last key block: it joins the side
\* chains, from where only more votes bring it back.
Recycle ==
    /\ Len(chain) <= MaxBlocks /\ PrevKey > 1 /\ NewBlockTemplate.is = "few"
    /\ refused' =
          IF \E block \in handleTooFewVoters.block :
                AcceptBlock(SubSeq(chain, 1, PrevKey - 1), solveBlock(block, "key"), TicketPrice)
          THEN refused ELSE refused \union {"recycled"}
    /\ UNCHANGED <<wallet, chain, pool>>

---------------------------------------------------------------------------

Genesis(height) ==
    LET next == [height |-> height, keyHeight |-> height]
        extra == createExtraCoinbaseTx(next, TicketsPerBlock, 0)
        regular == <<extra, createCoinbaseTx(next, extra, 0)>>
        header == [height |-> height, keyHeight |-> height, parent |-> 0, prevKey |-> 0,
                   pow |-> "key", voteBit |-> 1, sbits |-> TicketPrice,
                   voters |-> TicketsPerBlock, freshStake |-> 0, revocations |-> 0,
                   poolSize |-> Len(Tickets), finalState |-> 0, stake |-> <<>>,
                   stakeRoot |-> <<>>]
    IN  [b |-> BlockOf(header, regular), view |-> Ledger,
         stake |-> [live |-> Tickets, poolSize |-> Len(Tickets), finalState |-> 0, missed |-> {},
                    winners |-> IF Voting(height + 1)
                                THEN Range(SubSeq(Tickets, 1, TicketsPerBlock)) ELSE {}]]

MiningInit ==
    /\ chain \in {<<Genesis(height)>> : height \in FirstHeights}
    /\ wallet = Spends /\ pool = {} /\ refused = {}

MiningNext ==
    \/ \E tx \in wallet : Announce(tx)
    \/ Revoke
    \/ \E pattern \in VotePatterns : CastVotes(pattern)
    \/ \E yes \in BOOLEAN : LateVote(yes)
    \/ \E pow \in {"key", "micro"} : Mine(pow)
    \/ Recycle

---------------------------------------------------------------------------
(* Properties *)

KeyNodes == {n \in DOMAIN chain : chain[n].b.pow = "key"}
NextKey(n) == {m \in KeyNodes : m > n /\ \A k \in KeyNodes : k > n => k >= m}

\* A block made from a template that passed the miner's own check, which
\* leaves out the tickets and takes every block for a key block, passes the
\* check of the chain, both as a key block and cut down to a micro block; a
\* template that fails its own check comes up only after a vote against the
\* last key block.
TemplatesAccepted == refused \subseteq {"disapproved"}

\* The regular transactions of a key block are in the ledger if and only if
\* the votes in the next key block approve them, whatever the micro blocks in
\* between said.
VotesDecide ==
    \A n \in KeyNodes : \A m \in NextKey(n) :
        LET votes == OfType(chain[m].b.stake, "SSGen")
            yea == Len(SelectSeq(votes, LAMBDA tx : tx.vote.yes))
            counted == chain[n].b.regular[1].id \in DOMAIN chain[m].view
        IN  Voting(chain[m].b.keyHeight) => (counted <=> 2 * yea > Len(votes))

Supply(view) ==
    MapThenSumSet(LAMBDA id : MapThenSumSet(LAMBDA i : view[id].outs[i].value,
                                            DOMAIN view[id].outs \ view[id].spent), DOMAIN view)

\* What the blocks were to mint, and the fees that came back with a tree.
Minted ==
    LET last == Len(chain)
        counted == {n \in 1..last : n < last => RegularTreeValid(chain[n + 1].b, chain[n].b)}
        subsidy == MapThenSumSet(LAMBDA n : chain[n].b.regular[1].ins[1].value, counted)
        votes == FoldSeq(LAMBDA node, t : t + FoldSeq(LAMBDA tx, u : u + tx.ins[1].value, 0,
                            OfType(node.b.stake, "SSGen")), 0, chain)
        undone == MapThenSumSet(LAMBDA n : TotalFees(chain[n].b), (1..last) \ counted)
    IN  [due |-> Supply(chain[1].view) + subsidy + votes, undone |-> (undone * 4) \div 10]

\* The coins grow by the subsidies of the key blocks that counted and of the
\* votes, and by nothing else but four tenths of the fees of a refused tree,
\* which the blocks after it are paid although nobody paid them.
SupplyBounded ==
    Supply(ConnectAll(Tip.view, Tip.b.regular, Tip.b.height)) <= Minted.due + Minted.undone

MiningSound == TemplatesAccepted /\ VotesDecide /\ SupplyBounded
=============================================================================
