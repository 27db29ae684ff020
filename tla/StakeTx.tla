------------------------------ MODULE StakeTx ------------------------------
(***************************************************************************)
(* The transactions of the stake tree (blockchain/stake/staketx.go): which *)
(* transactions are tickets, votes and revocations, what they commit to,   *)
(* and what a vote or a revocation has to pay to those who bought the      *)
(* ticket.                                                                 *)
(*                                                                         *)
(* A transaction has inputs ins (null: the outpoint is the null one,       *)
(* noProof: the fraud proof is null, index and tree of the output it       *)
(* spends) and outputs outs (version, value, script pk).                   *)
(***************************************************************************)
EXTENDS Standard

CONSTANTS
    LimitBits,      \* the bits of a fee limit, 6 in the code
    HalfBits,       \* the bits of a half of the word of limits, 8
    AmountBits,     \* the bits of an amount below the script hash flag, 63
    MaxInputsPerSStx

MaxOutputsPerSStx == MaxInputsPerSStx * 2 + 1
MaxOutputsPerSSGen == MaxInputsPerSStx + 2
MaxOutputsPerSSRtx == MaxInputsPerSStx

rangeLimitMax == 2^LimitBits - 1

\* Is bit k of a word set?
Bit(w, k) == (w \div 2^k) % 2 = 1

---------------------------------------------------------------------------
(* The data the outputs push *)

\* What a contributor commits to: the hash its reward goes to, the amount
\* with the flag of a script hash, and the limits of the fees.
GenerateSStxAddrPush(a, amount, limits) ==
    <<Op("RETURN"), AddData([n |-> 30, t |-> "commit", hash |-> a.d,
        amount |-> amount + (IF a.kind = "ScriptHash" THEN 2^AmountBits ELSE 0),
        limits |-> limits])>>

GenerateSSGenBlockRef(hash, height, keyHeight) ==
    <<Op("RETURN"), AddData([n |-> 40, t |-> "ref", block |-> hash, height |-> height,
                             keyHeight |-> keyHeight])>>

\* The vote bits, alone or followed by the version of the vote.
GenerateSSGenVotes(bits) == <<Op("RETURN"), AddData([n |-> 2, t |-> "votes", bits |-> bits])>>

AddrFromSStxPkScrCommitment(pk) ==
    Address(IF Bit(pk[2].d.amount, AmountBits) THEN "ScriptHash" ELSE "PubKeyHash", secp, pk[2].d.hash)
AmountFromSStxPkScrCommitment(pk) == pk[2].d.amount % 2^AmountBits

SSGenBlockVotedOn(tx) ==
    LET d == tx.outs[1].pk[2].d IN [hash |-> d.block, height |-> d.height, keyHeight |-> d.keyHeight]
SSGenVoteBits(tx) == tx.outs[2].pk[2].d.bits
SSGenVersion(tx) == IF ScriptLen(tx.outs[2].pk) < 8 THEN 0 ELSE tx.outs[2].pk[2].d.version

\* The commitments of a ticket and the change that follows each.
SStxStakeOutputInfo(outs) ==
    [k \in 1..(Len(outs) \div 2) |->
        LET c == outs[2 * k].pk[2].d
        IN  [isP2SH |-> Bit(c.amount, AmountBits), hash |-> c.hash,
             amount |-> c.amount % 2^AmountBits, change |-> outs[2 * k + 1].value,
             rules |-> <<Bit(c.limits, LimitBits), Bit(c.limits, HalfBits + LimitBits)>>,
             limits |-> <<c.limits % 2^LimitBits, (c.limits \div 2^HalfBits) % 2^LimitBits>>]]

\* The payments of a vote or a revocation: those of outs, each of the class.
PaymentInfo(outs, class) ==
    LET paid(o) == /\ GetScriptClass(o.version, o.pk) = class
                   /\ GetStakeOutSubclass(o.pk) \in {"PubKeyHash", "ScriptHash"}
    IN  IF \E k \in DOMAIN outs : ~paid(outs[k]) THEN [r |-> "error"]
        ELSE [r |-> "ok",
              pays |-> [k \in DOMAIN outs |->
                          [isP2SH |-> GetStakeOutSubclass(outs[k].pk) = "ScriptHash",
                           hash |-> ExtractPkScriptAddrs(outs[k].pk).addrs[1].d,
                           amount |-> outs[k].value]]]
TxSSGenStakeOutputInfo(tx) == PaymentInfo(SubSeq(tx.outs, 3, Len(tx.outs)), "StakeGen")
TxSSRtxStakeOutputInfo(tx) == PaymentInfo(tx.outs, "StakeRevocation")

---------------------------------------------------------------------------
(* What the transactions are *)

IsNullInput(in) == in.null /\ in.noProof
IsStakeBase(tx) == Len(tx.ins) = 2 /\ IsNullInput(tx.ins[1])

SameVersions(tx) == \A k \in DOMAIN tx.outs : tx.outs[k].version = DefaultScriptVersion
Class(tx, k) == GetScriptClass(tx.outs[k].version, tx.outs[k].pk)

\* A push of data whose length fits in one byte.
NullPush(tx, k, lo, hi) ==
    /\ Class(tx, k) = "NullData" /\ Len(tx.outs[k].pk) = 2
    /\ tx.outs[k].pk[2].op = "DATA" /\ tx.outs[k].pk[2].d.n \in lo..hi

IsSStx(tx) ==
    /\ Len(tx.ins) <= MaxInputsPerSStx
    /\ Len(tx.outs) \in 1..MaxOutputsPerSStx
    /\ SameVersions(tx)
    /\ Class(tx, 1) = "StakeSubmission"
    /\ Len(tx.outs) = 2 * Len(tx.ins) + 1
    /\ \A k \in 2..Len(tx.outs) :
         IF k % 2 = 1 THEN Class(tx, k) = "StakeSubChange" ELSE NullPush(tx, k, 30, 75)

\* The second output is read although only the first is known to exist.
IsSSGen(tx) ==
    LET early == /\ Len(tx.ins) = 2 /\ Len(tx.outs) \in 1..MaxOutputsPerSSGen
                 /\ IsStakeBase(tx) /\ tx.ins[2].index = 0 /\ tx.ins[2].tree = "stake"
                 /\ SameVersions(tx) /\ NullPush(tx, 1, 40, 40)
    IN  IF ~early THEN "no" ELSE IF Len(tx.outs) = 1 THEN "panic"
        ELSE IF /\ NullPush(tx, 2, 2, 75)
                /\ \A k \in 3..Len(tx.outs) : Class(tx, k) = "StakeGen" THEN "yes" ELSE "no"

IsSSRtx(tx) ==
    /\ Len(tx.ins) = 1 /\ Len(tx.outs) \in 1..MaxOutputsPerSSRtx
    /\ SameVersions(tx)
    /\ tx.ins[1].tree = "stake"
    /\ \A k \in DOMAIN tx.outs : Class(tx, k) = "StakeRevocation"

DetermineTxType(tx) ==
    IF IsSStx(tx) THEN "SStx" ELSE IF IsSSGen(tx) # "no" THEN IsSSGen(tx)
    ELSE IF IsSSRtx(tx) THEN "SSRtx" ELSE "regular"

SetTxTree(tx) == IF DetermineTxType(tx) = "regular" THEN "regular" ELSE "stake"

---------------------------------------------------------------------------
(* What they pay *)

RECURSIVE SumOf(_)
SumOf(s) == IF s = <<>> THEN 0 ELSE Head(s) + SumOf(Tail(s))

\* What each contributor gave, and the fees of the ticket.
SStxNullOutputAmounts(amounts, changes, amountTicket) ==
    LET contrib == [k \in DOMAIN amounts |-> amounts[k] - changes[k]]
    IN  IF \/ Len(amounts) # Len(changes) \/ amountTicket <= 0
           \/ \E k \in DOMAIN contrib : contrib[k] < 0 THEN [r |-> "error"]
        ELSE [r |-> "ok", fees |-> SumOf(contrib) - amountTicket, contrib |-> contrib]

CalculateRewards(amounts, amountTicket, subsidy) ==
    [k \in DOMAIN amounts |-> (amounts[k] * (amountTicket + subsidy)) \div SumOf(amounts)]

VerifySStxAmounts(sstxAmts, calcAmts) == sstxAmts = calcAmts

\* The payments against the commitments and the rewards worked out: kind 1
\* is a vote, 2 a revocation.
FeeAllowance(limit, calc) ==
    IF limit < rangeLimitMax /\ 2^limit < calc THEN 2^limit ELSE calc

VerifyStakingPkhsAndAmounts(commits, pays, calcAmts, kind) ==
    /\ Len(commits) = Len(pays) /\ Len(pays) = Len(calcAmts)
    /\ \A k \in DOMAIN pays :
         /\ commits[k].isP2SH = pays[k].isP2SH /\ commits[k].hash = pays[k].hash
         /\ IF commits[k].rules[kind]
            THEN pays[k].amount \in (calcAmts[k] - FeeAllowance(commits[k].limits[kind], calcAmts[k]))
                                        ..calcAmts[k]
            ELSE pays[k].amount = calcAmts[k]

---------------------------------------------------------------------------
(* A ticket of contributions gifts (the input, the change, the address of  *)
(* the reward and the limits) at a price, and the transactions that spend  *)
(* it.                                                                     *)

In(null, tree) == [null |-> null, noProof |-> null, index |-> 0, tree |-> tree]
Out(pk, value) == [version |-> DefaultScriptVersion, pk |-> pk, value |-> value]

Ticket(owner, price, gifts) ==
    [ins |-> [k \in DOMAIN gifts |-> In(FALSE, "regular")],
     outs |-> <<Out(PayToSStx(owner), price)>>
        \o [j \in 1..(2 * Len(gifts)) |->
              LET g == gifts[(j + 1) \div 2]
              IN  IF j % 2 = 1 THEN Out(GenerateSStxAddrPush(g.addr, g.input - g.change, g.limits), 0)
                  ELSE Out(PayToSStxChange(g.addr), g.change)]]

SpendTicket(kind, gifts, amounts) ==
    IF kind = 1
    THEN [ins |-> <<In(TRUE, "regular"), In(FALSE, "stake")>>,
          outs |-> <<Out(GenerateSSGenBlockRef("b", 7, 3), 0), Out(GenerateSSGenVotes(5), 0)>>
                      \o [k \in DOMAIN gifts |-> Out(PayToSSGen(gifts[k].addr), amounts[k])]]
    ELSE [ins |-> <<In(FALSE, "stake")>>,
          outs |-> [k \in DOMAIN gifts |-> Out(PayToSSRtx(gifts[k].addr), amounts[k])]]

\* Is spending accepted for the ticket (the checks validate.go makes)?
SpendAccepted(tx, price, spend, kind, subsidy) ==
    LET commits == SStxStakeOutputInfo(tx.outs)
        pays == IF kind = 1 THEN TxSSGenStakeOutputInfo(spend) ELSE TxSSRtxStakeOutputInfo(spend)
        calc == CalculateRewards([k \in DOMAIN commits |-> commits[k].amount], price, subsidy)
    IN  pays.r = "ok" /\ VerifyStakingPkhsAndAmounts(commits, pays.pays, calc, kind)

\* A ticket says who gave what; every spending of it that is accepted pays
\* each contributor its share, short of no more than the fee it allowed,
\* and all of them no more than the ticket and the subsidy; the spending
\* that pays the shares rounded down is accepted.
TicketSound(owner, price, gifts, kind, subsidy) ==
    LET tx == Ticket(owner, price, gifts)
        commits == SStxStakeOutputInfo(tx.outs)
        given == SStxNullOutputAmounts([k \in DOMAIN gifts |-> gifts[k].input],
                                       [k \in DOMAIN gifts |-> gifts[k].change], price)
        total == price + given.fees
        due(k) == (gifts[k].input - gifts[k].change) * (price + subsidy)
        rule(k) == Bit(gifts[k].limits, LimitBits + (HalfBits * (kind - 1)))
        limit(k) == (gifts[k].limits \div 2^(HalfBits * (kind - 1))) % 2^LimitBits
        share(k) == due(k) \div total
        fair(k, a) == /\ a * total <= due(k)
                      /\ ~rule(k) => (a + 1) * total > due(k)
                      /\ limit(k) < rangeLimitMax => (a + 2^limit(k) + 1) * total > due(k)
        tops == [k \in DOMAIN gifts |-> share(k) + 1]
    IN  /\ DetermineTxType(tx) = "SStx"
        /\ given.r = "ok"
        /\ VerifySStxAmounts([k \in DOMAIN commits |-> commits[k].amount], given.contrib)
        /\ \A k \in DOMAIN gifts : /\ AddrFromSStxPkScrCommitment(tx.outs[2 * k].pk) = gifts[k].addr
                                   /\ AmountFromSStxPkScrCommitment(tx.outs[2 * k].pk) = given.contrib[k]
        /\ \A amounts \in [DOMAIN gifts -> 0..Max({tops[k] : k \in DOMAIN gifts})] :
             \A spend \in {SpendTicket(kind, gifts, amounts)} :
             \A accepted \in {SpendAccepted(tx, price, spend, kind, subsidy)} :
                 /\ DetermineTxType(spend) = IF kind = 1 THEN "yes" ELSE "SSRtx"
                 /\ kind = 1 => /\ SSGenVoteBits(spend) = 5 /\ SSGenVersion(spend) = 0
                                /\ SSGenBlockVotedOn(spend) = [hash |-> "b", height |-> 7,
                                                               keyHeight |-> 3]
                 /\ accepted =>
                      /\ \A k \in DOMAIN gifts : fair(k, amounts[k])
                      /\ SumOf(amounts) <= price + subsidy
                 /\ amounts = [k \in DOMAIN gifts |-> share(k)] => accepted

\* No transaction is of two types, and those of one are in the stake tree.
TypesSound(tx) ==
    Cardinality({t \in {1, 2, 3} : CASE t = 1 -> IsSStx(tx) [] t = 2 -> IsSSGen(tx) # "no"
                                     [] t = 3 -> IsSSRtx(tx)}) = IF SetTxTree(tx) = "stake" THEN 1 ELSE 0
=============================================================================
