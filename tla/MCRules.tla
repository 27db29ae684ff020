------------------------------ MODULE MCRules ------------------------------
(***************************************************************************)
(* The rules every node has to compute alike: the script machine, and the  *)
(* algorithms without a state of their own.  A behaviour checks one of     *)
(* them on one input: focus says which.                                    *)
(***************************************************************************)
EXTENDS ScriptEngine, Wire

CONSTANTS Foci      \* the parts that are checked

VARIABLES
    focus, input,
    tree, deployments, caches, buckets,     \* those of Deployments
    wallet, chain, pool, refused            \* those of Mining

StringsUpTo(S, n) == UNION {[1..k -> S] : k \in 0..n}

Entry(o, l, v) == [op |-> o, len |-> l, val |-> v]
Table(es) == [b \in 0..7 |-> es[b + 1]]

TControl == Table(<<Entry("FALSE", 1, 0), Entry("DATA", 2, 0), Entry("N", 1, 1),
                    Entry("IF", 1, 0), Entry("ELSE", 1, 0), Entry("ENDIF", 1, 0),
                    Entry("DATA", -1, 0), Entry("NOTIF", 1, 0)>>)
THash == Table(<<Entry("FALSE", 1, 0), Entry("DATA", 2, 0), Entry("DATA", 3, 0),
                 Entry("N", 1, 1), Entry("HASH160", 1, 0), Entry("EQUAL", 1, 0),
                 Entry("SSTX", 1, 0), Entry("DUP", 1, 0)>>)
MCTx == [version |-> 2, lockTime |-> 5, threshold |-> 4, sequence |-> 7, mask |-> 4,
         final |-> FALSE, single |-> FALSE]
MCAltKeyLen == <<2, 2, 2>>

Load(tbl, sig, pk, flags, version) ==
    /\ table = tbl /\ scripts = <<sig, pk>>
    /\ vm = NewEngine(tbl, sig, pk, flags, version)

\* A machine in front of one opcode, with a stack of items in buffers of
\* their own.
LoadOpcode(op, items, alt, flags) ==
    /\ table = TControl /\ scripts = <<>>
    /\ LET pop == [e |-> Entry(op, 1, 0), s |-> [b |-> 1, o |-> 0, n |-> 0]]
           own(is, k) == [i \in DOMAIN is |-> [b |-> k + i, o |-> 0, n |-> Len(is[i])]]
       IN  vm = [Machine(<<<<>>>> \o items \o alt, <<<<>>, <<pop>>>>, flags)
                    EXCEPT !.si = 2, !.d = own(items, 1), !.a = own(alt, 1 + Len(items))]

InitControl ==
    \/ \E pk \in StringsUpTo({0, 2, 3, 4, 5}, 5), sig \in {<<>>, <<2>>} :
          Load(TControl, sig, pk, {}, 0)
    \/ \E pk \in StringsUpTo(0..7, 3), flags \in {{}, {"MinimalData"}}, v \in {0, 1} :
          Load(TControl, <<2, 0>>, pk, flags, v)

InitHash ==
    \E sig \in LET short == StringsUpTo({0, 1, 2, 3, 4, 7}, 3)
               IN  short \union {<<3>> \o s : s \in short}, h \in {4, 5}, stake \in BOOLEAN,
       flags \in {{}, {"Bip16"}, {"Bip16", "CleanStack"}, {"SigPushOnly"}} :
        Load(THash, sig, (IF stake THEN <<6>> ELSE <<>>) \o <<4, 1, h, 5>>, flags, 0)

Number == StringsUpTo({0, 1, 4, 7}, 2)

InitNumber ==
    \/ \E op \in BinaryOps \union {"EQUAL"}, x, y \in Number, flags \in {{}, {"MinimalData"}} :
          LoadOpcode(op, <<<<7>>, x, y>>, <<>>, flags)
    \/ \E op \in UnaryOps \union {"CHECKLOCKTIMEVERIFY", "CHECKSEQUENCEVERIFY", "VERIFY",
                                  "IFDUP", "NOP1"},
          x \in StringsUpTo({0, 1, 3, 4, 7}, 3),
          flags \in {{}, {"MinimalData", "DiscourageUpgradableNops"},
                     {"CheckLockTimeVerify", "CheckSequenceVerify"},
                     {"MinimalData", "CheckLockTimeVerify", "CheckSequenceVerify"}} :
          LoadOpcode(op, <<x>>, <<>>, flags)
    \/ \E x, y, z \in {NumBytes(n) : n \in -2..2} : LoadOpcode("WITHIN", <<x, y, z>>, <<>>, {})

InitStack ==
    \/ \E op \in StackOps \union SpliceOps, n \in 0..6, k \in 0..2 :
          LoadOpcode(op, [i \in 1..n |-> <<i>>], [i \in 1..k |-> <<i>>], {})
    \/ \E op \in SpliceOps \union {"PICK", "ROLL", "EQUALVERIFY", "HASH160", "SHA1", "DEPTH"},
          x, y \in {<<>>, <<1>>, <<5>>, <<2>>, <<1, 2>>, <<3, 1, 2, 4, 5>>} :
          LoadOpcode(op, <<<<7, 6, 5>>, x, y>>, <<>>, {})
    \/ \E op \in {"RETURN", "VER", "NOP", "CODESEPARATOR", "VERIF", "1NEGATE", "RESERVED"} :
          LoadOpcode(op, <<<<1>>>>, <<>>, {})

\* Signatures of the keys 1 and 2, one that does not parse, one of the type
\* Single, none, and one whose R leaves no room for S.
SigOf(k, ht) == Append(Der(<<k>>, <<1>>), ht)
MCSigs == {SigOf(1, 1), SigOf(2, 1), <<1, 1>>, SigOf(1, 3), <<>>, <<3, 6, 2, 3, 0, 0, 0, 0, 1>>}
MCKeys == {<<2, 1>>, <<2, 2>>, <<7, 1>>}
SigFlags == {{}, {"StrictEncoding"}, {"DERSignatures"}, {"LowS"}}

InitSig ==
    \/ \E keys \in StringsUpTo(MCKeys, 3), sigs \in StringsUpTo(MCSigs, 2), flags \in SigFlags,
          op \in {"CHECKMULTISIG", "CHECKMULTISIGVERIFY"} :
          LoadOpcode(op, <<<<5>>>> \o sigs \o <<NumBytes(Len(sigs))>> \o keys
                         \o <<NumBytes(Len(keys))>>, <<>>, flags)
    \/ \E key \in MCKeys, sig \in MCSigs, flags \in SigFlags,
          op \in {"CHECKSIG", "CHECKSIGVERIFY"} :
          LoadOpcode(op, <<<<5>>, sig, key>>, <<>>, flags)
    \/ \E key \in {<<2, 1>>, <<1>>}, sig \in {<<2, 1>>, <<1, 3>>, <<>>, <<1, 1, 1>>}, t \in 0..7,
          op \in {"CHECKSIGALT", "CHECKSIGALTVERIFY"} :
          LoadOpcode(op, <<sig, key, <<t>>>>, <<>>, {"StrictEncoding"})

\* Bytes that are nearly a signature.
InitDer ==
    \E n \in (MinSigLen - 1)..MaxSigLen :
    \E tail \in [1..(n - 2) -> {0, 1, 2, 4}] :
        /\ table = TControl /\ scripts = <<<<SeqTag, n - 2>> \o tail>>
        /\ vm = Fail(Machine(<<>>, <<>>, {}))

---------------------------------------------------------------------------
(* Messages *)

\* A message of a layout: its words tell their places apart, its lists and
\* strings have the lengths c gives the fields.
SampleLen(c, el) ==
    LET top == IF el.max > 100000 THEN 300 ELSE el.max
    IN  CASE c[el.f] = "none" -> 0 [] c[el.f] = "one" -> 1 [] c[el.f] = "full" -> top
          [] c[el.f] = "over" -> top + 1

RECURSIVE Sample(_, _, _), SampleEl(_, _, _, _)
Sample(layout, c, m) ==
    IF layout = <<>> THEN m ELSE Sample(Tail(layout), c, SampleEl(Head(layout), Len(layout), c, m))
SampleEl(el, i, c, m) ==
    LET put(v) == Join(m, [f \in {el.f} |-> v])
    IN  CASE el.k = "word" -> put(i)
          [] el.k = "bytes" ->
                put(IF SampleLen(c, el) = 0 THEN EmptyBytes
                    ELSE [n |-> SampleLen(c, el), v |-> IF el.f = "Cmd" THEN c.object ELSE "b"])
          [] el.k = "list" ->
                put(IF c[el.f] = "none" THEN EmptyList
                    ELSE [n |-> SampleLen(c, el), e |-> Sample(el.e, c, <<>>)])
          [] el.k = "witness" ->
                put(IF m[el.f].n = 0 THEN m[el.f] ELSE [m[el.f] EXCEPT !.e = Sample(el.e, c, @)])
          [] el.k = "zero" -> m
          [] el.k = "object" -> IF Names(m.Cmd.v) THEN SampleEl(el.e, i, c, m) ELSE m

\* Two fields whose lengths vary in each message, the lengths of the others.
Varied(cmd) ==
    CASE cmd = "addr" -> {"AddrList"} [] cmd \in {"inv", "getdata", "notfound"} -> {"InvList"}
      [] cmd \in {"getblocks", "getheaders"} -> {"BlockLocatorHashes"} [] cmd = "headers" -> {"Headers"}
      [] cmd = "miningstate" -> {"BlockHashes", "VoteHashes"} [] cmd = "filteradd" -> {"Data"}
      [] cmd = "filterload" -> {"Filter"} [] cmd = "version" -> {"UserAgent"}
      [] cmd = "reject" -> {"Cmd", "Reason"} [] cmd = "merkleblock" -> {"Hashes", "SHashes", "Flags"}
      [] cmd = "tx" -> {"TxIn", "TxOut", "SignatureScript", "PkScript"}
      [] cmd = "block" -> {"Transactions", "STransactions", "TxIn", "TxOut"}
      [] cmd = "alert" -> {"SerializedPayload", "Signature"} [] OTHER -> {}
OtherFields == [f \in {"SignatureScript", "PkScript", "Cmd", "object", "SetCancel", "SetSubVer", "Ver",
                       "Comment", "StatusBar", "Reserved"} |-> IF f = "object" THEN "version" ELSE "one"]

Pong == WriteMessageN("pong", [Nonce |-> 7], 1, 1)

InitWire ==
    \/ \E cmd \in DOMAIN makeEmptyMessage, pver \in {0, 1}, object \in {"block", "version"} :
       \E c \in [Varied(cmd) -> {"none", "one", "full", "over"}] :
          input = [k |-> "message", cmd |-> cmd, pver |-> pver,
                   m |-> Sample(makeEmptyMessage[cmd].enc,
                                Join(Join(OtherFields, c), [o \in {"object"} |-> object]), <<>>)]
    \/ \E c \in [{"SetCancel", "SetSubVer", "Ver", "Comment"} -> {"none", "one", "full"}] :
          input = [k |-> "alert", m |-> Sample(Alert.enc, Join(OtherFields, c), <<>>)]
    \/ \E magic \in {1, 2}, cmd \in {"ping", "inv", "other"}, sum \in {0, 8},
          len \in {8, MaxMessagePayload + 8} :
          input = [k |-> "frame", frame |-> <<Header(magic, cmd, len, sum), Element(8, 5)>>]
    \/ \E n \in {0, 1, 252, 253, 254, 255, 65535, 65536, NoLimit} : input = [k |-> "varint", n |-> n]

\* Messages survive the wire, refused ones do not spoil the stream, and sizes
\* are those of the encodings.
WireSound ==
    focus = "wire" =>
        CASE input.k = "message" ->
                /\ MessagesSurvive(input.cmd, input.m, input.pver, Pong)
                /\ input.cmd = "tx" => SizesExact(input.m)
                /\ input.cmd = "block" =>
                      /\ blockSerializeSize(input.m) = SizeOf(Encode(MsgBlock.enc, input.m))
                      /\ input.m.Transactions.n > 0 =>
                            TxStart(input.m, input.m.Transactions.n) =
                                SizeOf(Encode(Front(MsgBlock.enc), input.m))
          [] input.k = "alert" ->
                LET got == Decode(Alert.dec, <<>>, Encode(Alert.enc, input.m))
                IN  got.st = "ok" /\ got.m = input.m
          [] input.k = "frame" -> RefusalsSkipped(input.frame, Pong)
          [] input.k = "varint" -> VarIntCanonical(input.n) /\ ReadVarInt(WriteVarInt(input.n), input.n)

---------------------------------------------------------------------------
(* Records of the database *)

Codec == INSTANCE LedgerCodec

Fill(b, n) == Codec!Repeat(b, n)
PayToHash(b, tail) == <<118, 169, 20>> \o Fill(b, 20) \o <<136>> \o tail
Abscissa(b) == Fill(9, 31) \o <<b>>
Templates ==
    {PayToHash(7, <<172>>), <<169, 20>> \o Fill(7, 20) \o <<135>>}
    \union {PayToHash(7, <<t, 190>>) : t \in {1, 4, 5, 81, 84, 85, 96, 97}}
    \union {<<33, f>> \o Abscissa(b) \o <<172>> : f \in 2..4, b \in {3, 4}}
    \union {<<65, f>> \o Abscissa(b) \o Codec!Ordinate(Abscissa(c), odd) \o <<172>> :
               f \in {4, 6}, b \in {3, 4}, c \in {4, 5}, odd \in BOOLEAN}
MCScripts ==
    Templates \union {Append(s, 0) : s \in Templates}
    \union {[PayToHash(7, <<172>>) EXCEPT ![i] = 0] : i \in {1, 2, 3, 24, 25}}
    \union {Fill(5, n) : n \in {0, 1, 62, 63, 64, 191, 192, 193, 300}}

MCOutput(kind, i) ==
    LET script == <<PayToHash(i, <<172>>), Fill(6, i), PayToHash(1, <<81, 190>>)>>[(i % 3) + 1]
    IN  [spent |-> kind = "spent", compressed |-> kind = "loaded", amount |-> i * 100,
         scriptVersion |-> i * 20,
         pkScript |-> IF kind = "loaded" THEN Codec!putCompressedScript(script) ELSE script]
TicketOuts(n) == [i \in 1..n |-> [amount |-> 1000 * i, scriptVersion |-> i, pkScript |-> Fill(i, 3 * i)]]
Extra(txType) == IF txType = 1 THEN Codec!putTxToMinimalOutputs(TicketOuts(2)) ELSE <<>>
MCEntry(outs, txType, flag, n) ==
    [version |-> n, height |-> 100 * n, index |-> n, coinBase |-> flag, hasExpiry |-> txType = 3,
     txType |-> txType, outputs |-> outs, stakeExtra |-> Extra(txType)]

MCTxIn(k) == [ValueIn |-> k, BlockHeight |-> 10 * k, BlockIndex |-> 100 * k]
MCStxo(k, txType, full, kind) ==
    LET o == MCOutput(kind, k)
    IN  [pkScript |-> o.pkScript, compressed |-> o.compressed, scriptVersion |-> o.scriptVersion,
         amount |-> k, height |-> 10 * k, index |-> 100 * k, fullySpent |-> full,
         coinBase |-> k = 2, hasExpiry |-> k = 3, txType |-> txType, txVersion |-> 200,
         stakeExtra |-> IF full THEN Extra(txType) ELSE <<>>]
MCTxns(shape) ==
    [t \in DOMAIN shape |->
        [txType |-> shape[t].txType,
         TxIn |-> [i \in 1..shape[t].n |->
                      MCTxIn(i + FoldSeq(LAMBDA x, sum : sum + x.n - (IF x.txType = 2 THEN 1 ELSE 0), 0,
                                         SubSeq(shape, 1, t - 1))
                               - (IF shape[t].txType = 2 THEN 1 ELSE 0))]]]

MCBest(n) ==
    [hash |-> Fill(n, 32), height |-> 1000 * n, totalTxns |-> 70000 * n, totalSubsidy |-> 500 * n,
     workSum |-> Fill(n + 1, n)]
MCStake(n, winners) ==
    [Hash |-> Fill(n, 32), Height |-> 257 * n, KeyHeight |-> n, Live |-> 300 * n, Missed |-> n,
     Revoked |-> 65536 * n, PerBlock |-> Len(winners), NextWinners |-> winners]
TicketFlags == [{"Missed", "Revoked", "Spent", "Expired"} -> BOOLEAN]

\* Transactions with the addresses of what they spend and pay.
Paying(addrs) == [addrs |-> addrs, null |-> FALSE, commit |-> "a"]
Committing(a) == [addrs |-> <<>>, null |-> TRUE, commit |-> a]
Spending(script, ticket) == [known |-> TRUE, script |-> script, ticket |-> ticket, redeem |-> <<>>]
Indexed(ins, outs, kind) == [ins |-> ins, outs |-> outs, vote |-> kind = "vote", ticket |-> kind = "ticket"]
MCCoinbase == Indexed(<<Spending(Paying(<<"b">>), FALSE)>>, <<Paying(<<"a">>)>>, "regular")
MCPays == Indexed(<<Spending(Paying(<<"a">>), FALSE)>>, <<Paying(<<"b">>), Paying(<<"a">>)>>, "regular")
MCShares == Indexed(<<[Spending(Paying(<<"a">>), FALSE) EXCEPT !.known = FALSE], Spending(Paying(<<"b">>), FALSE)>>,
                    <<Paying(<<"b", "a", "b">>), Committing("a")>>, "regular")
MCBuys == Indexed(<<Spending(Paying(<<"b">>), FALSE)>>, <<Paying(<<"b">>), Committing("a")>>, "ticket")
MCVotes == Indexed(<<Spending(Paying(<<"a">>), FALSE), Spending(Paying(<<"b">>), TRUE)>>, <<Paying(<<"b">>)>>, "vote")
MCIndexed(n, kind, approves) ==
    [id |-> n, height |-> n, approves |-> approves,
     regular |-> IF kind \in {"regular", "both"} THEN <<MCCoinbase, MCPays, MCShares, MCPays, MCPays, MCShares>>
                 ELSE <<MCCoinbase>>,
     stake |-> IF kind \in {"stake", "both"} THEN <<MCVotes, MCVotes, MCBuys, MCBuys>> ELSE <<>>]
MCUnconfirmed == [t \in 1..3 |-> [f \in {"id"} \union DOMAIN MCVotes |->
                                    IF f = "id" THEN t ELSE <<MCPays, MCBuys, MCVotes>>[t][f]]]

\* A transaction that redeems a multisig script of b and c, and one that pays d.
MCRedeems == Indexed(<<[Spending(Paying(<<"a">>), FALSE) EXCEPT !.redeem = <<"b", "c">>]>>, <<Paying(<<"a">>)>>, "regular")
MCPaysD == Indexed(<<>>, <<Paying(<<"d">>)>>, "regular")
MCExistsParent == [MCIndexed(1, "empty", TRUE) EXCEPT !.regular = <<MCCoinbase, MCRedeems>>]
MCExistsStep(code) ==
    CASE code = "redeem" -> [is |-> "add", tx |-> MCRedeems]
      [] code = "pay" -> [is |-> "add", tx |-> MCPaysD]
      [] code = "approve" -> [is |-> "connect", block |-> MCIndexed(2, "empty", TRUE), parent |-> MCExistsParent]
      [] code = "reject" -> [is |-> "connect", block |-> MCIndexed(2, "stake", FALSE), parent |-> MCExistsParent]
      [] code = "fail" -> [is |-> "fail", block |-> MCIndexed(2, "stake", TRUE), parent |-> MCExistsParent]

InitCodec ==
    \/ \E n \in (0..300) \union (16380..16520) \union {2113663, 2113664, 270549119, 270549120},
          rest \in {<<>>, <<0>>, <<255>>} : input = [k |-> "number", n |-> n, rest |-> rest]
    \/ \E m \in 0..120, e \in 0..7 : input = [k |-> "amount", n |-> m * 10^e]
    \/ \E m \in 1..2 : input = [k |-> "amount", n |-> m * 10^9]
    \/ \E s \in MCScripts : input = [k |-> "script", s |-> s]
    \/ \E I \in SUBSET {0, 1, 2, 9, 10} \ {{}} : \E kinds \in [I -> {"spent", "new", "loaded"}] :
       \E txType \in 0..3 :
          input = [k |-> "entry", e |-> MCEntry([i \in I |-> MCOutput(kinds[i], i)], txType, txType = 0, 1 + txType)]
    \/ \E shape \in StringsUpTo({[txType |-> 0, n |-> 1], [txType |-> 0, n |-> 2], [txType |-> 2, n |-> 2]}, 2) :
       LET txns == MCTxns(shape)
       IN  \E full \in [1..Codec!numStxos(txns) -> {"part", "regular", "ticket"}] :
              input = [k |-> "journal", txns |-> txns,
                       stxos |-> [i \in DOMAIN full |->
                                     MCStxo(i, IF full[i] = "ticket" THEN 1 ELSE 0, full[i] # "part",
                                            IF i = 1 THEN "loaded" ELSE "new")]]
    \/ \E n \in 0..3 : input = [k |-> "minimal", outs |-> TicketOuts(n), rest |-> Fill(n, n)]
    \/ \E n \in 0..3, version \in {1, 2, 3, 300}, comp \in {1, 2}, started \in BOOLEAN :
          input = [k |-> "start", best |-> MCBest(n),
                   info |-> [version |-> version, compVer |-> comp, date |-> 1000000 * n,
                             upgradeStarted |-> started]]
    \/ \E n, w \in 0..2 : input = [k |-> "stakestate", b |-> MCStake(n, [i \in 1..w |-> Fill(i, 32)])]
    \/ \E flags \in StringsUpTo(TicketFlags, 2) :
          input = [k |-> "undo", utds |-> [i \in DOMAIN flags |->
                      [TicketHash |-> Fill(i, 32), TicketHeight |-> 300 * i, TicketKeyHeight |-> i,
                       flags |-> flags[i]]]]
    \/ \E old, new \in {<<1>>, <<1, 2>>, <<1, 3>>, <<1, 3, 4>>, <<1, 2, 5, 6>>} :
          input = [k |-> "index", old |-> old, new |-> new]
    \/ \E n \in {0, 8, 25, 57} : \E taken \in 0..(n + 1), again \in {0, 33} :
          input = [k |-> "address", n |-> n, taken |-> taken, again |-> again]
    \/ \E kinds \in [1..3 -> {"empty", "both"}], approving \in SUBSET (1..3) :
          input = [k |-> "blocks", chain |-> [n \in 1..3 |-> MCIndexed(n, kinds[n], n \in approving)]]
    \/ \E steps \in StringsUpTo([add : BOOLEAN, tx : DOMAIN MCUnconfirmed], 3) :
          input = [k |-> "unconfirmed", steps |-> steps]
    \/ \E steps \in StringsUpTo({"redeem", "pay", "approve", "reject", "fail"}, 3) : input = [k |-> "exists", steps |-> steps]

StartsSound(best, info) ==
    LET db == Codec!createChainState(MCBest(0), 5)
        moved == [db EXCEPT !.info = Codec!serializeDatabaseInfo(info),
                            !.chainState = Codec!serializeBestChainState(best)]
        start == Codec!initChainState(Codec!dbPutBlockIndex(moved, best.hash, best.height))
        stake == Codec!deserializeStakeInfo(Codec!serializeStakeInfo(info))
    IN  /\ Codec!initChainState(Codec!NewDatabase).st = "create"
        /\ Codec!initChainState(db) = [st |-> "loaded", state |-> MCBest(0)]
        /\ start = IF info.upgradeStarted \/ info.version > 2 \/ info.compVer > 1
                   THEN [st |-> "refused"] ELSE [st |-> "loaded", state |-> best]
        /\ Codec!deserializeDatabaseInfo(Codec!serializeDatabaseInfo(info)) = info
        /\ stake.ok /\ \A f \in DOMAIN stake.info : stake.info[f] = info[f]

\* Everything the ledger keeps in the database is read back as it was.
CodecSound ==
    focus = "codec" =>
        CASE input.k = "number" -> Codec!NumberSurvives(input.n, input.rest)
          [] input.k = "amount" -> Codec!decompressTxOutAmount(Codec!compressTxOutAmount(input.n)) = input.n
          [] input.k = "script" -> Codec!ScriptSurvives(input.s)
          [] input.k = "entry" ->
                LET view == [h \in {"a", "b"} |-> [modified |-> h = "a", entry |-> input.e]]
                    bucket == Codec!dbPutUtxoView([h \in {"a", "b"} |-> <<>>], view)
                IN  /\ Codec!EntrySurvives(input.e)
                    /\ Codec!dbFetchUtxoEntry(bucket, "a").ok = ~Codec!IsFullySpent(input.e)
                    /\ bucket["b"] = <<>>
          [] input.k = "journal" -> Codec!JournalSurvives(input.stxos, input.txns)
          [] input.k = "minimal" ->
                LET bytes == Codec!putTxToMinimalOutputs(input.outs)
                IN  /\ Len(bytes) = Codec!serializeSizeForMinimalOutputs(input.outs)
                    /\ Codec!deserializeToMinimalOutputs(bytes \o input.rest)
                          = [outs |-> input.outs, size |-> Len(bytes)]
          [] input.k = "start" -> StartsSound(input.best, input.info)
          [] input.k = "stakestate" ->
                Codec!deserializeStakeState(Codec!serializeStakeState(input.b)) = [ok |-> TRUE, state |-> input.b]
          [] input.k = "undo" ->
                LET ths == [i \in DOMAIN input.utds |-> input.utds[i].TicketHash]
                    tickets == {[hash |-> u.TicketHash, Height |-> u.TicketHeight,
                                 KeyHeight |-> u.TicketKeyHeight, flags |-> u.flags] : u \in Range(input.utds)}
                IN  /\ Codec!deserializeBlockUndoData(Codec!serializeBlockUndoData(input.utds))
                          = [ok |-> TRUE, utds |-> input.utds]
                    /\ Codec!deserializeTicketHashes(Codec!serializeTicketHashes(ths)) = [ok |-> TRUE, ths |-> ths]
                    /\ Codec!DbLoadAllTickets(FoldSet(LAMBDA t, b : Codec!DbPutTicket(b, t), <<>>, tickets))
                          = [ok |-> TRUE, tickets |-> tickets]
          [] input.k = "index" ->
                Codec!IndexesInverse(FoldLeft(LAMBDA d, h : Codec!dbPutBlockIndex(d, input.old[h], h),
                                              Codec!NewDatabase, [i \in DOMAIN input.old |-> i]),
                                     input.old, input.new)
          [] input.k = "address" -> Codec!AddressLevels(input.n, input.taken, input.again)
          [] input.k = "blocks" -> Codec!BlocksIndexed({"a", "b"}, input.chain)
          [] input.k = "unconfirmed" -> Codec!UnconfirmedSound({"a", "b"}, MCUnconfirmed, input.steps)
          [] input.k = "exists" -> Codec!ExistsSound({"a", "b", "c", "d"},
                                                     [n \in DOMAIN input.steps |-> MCExistsStep(input.steps[n])])

\* What is sent, and what is stored, is read back as it was.
FormatsSound == WireSound /\ CodecSound

---------------------------------------------------------------------------
(* Deployments *)

Choice(b, abstain, no) == [bits |-> b, isAbstain |-> abstain, isNo |-> no]
MCChoices == <<Choice(0, TRUE, FALSE), Choice(1, FALSE, TRUE), Choice(2, FALSE, FALSE)>>
Agenda(name, m, s, e) == [id |-> name, mask |-> m, start |-> s, expire |-> e, choices |-> MCChoices]
MCDefinitions == {<<Agenda("a", 1, 1, 20), Agenda("b", 2, 0, 6)>>, <<Agenda("b", 2, 0, 6)>>}

Dep == INSTANCE Deployments WITH
    medianTimeBlocks <- 3, BlockUpgradeNumToCheck <- 2, StakeValidationHeight <- 2,
    StakeVersionInterval <- 2, RuleChangeActivationInterval <- 2, RuleChangeActivationQuorum <- 2,
    RuleChangeActivationMultiplier <- 3, RuleChangeActivationDivisor <- 4,
    StakeMajorityMultiplier <- 3, StakeMajorityDivisor <- 4, BlockRejectNumRequired <- 2,
    TicketsPerBlock <- 2, Version <- 4, Definitions <- MCDefinitions

\* The two votes of the key blocks of a window, for the first and for the
\* second agenda.
Vote(v, a, b) == [version |-> v, bits |-> <<a, b>>]
Votes(kind) ==
    CASE kind = "yes" -> <<Vote(4, 2, 2), Vote(4, 2, 2)>>
      [] kind = "no" -> <<Vote(4, 1, 1), Vote(4, 1, 2)>>
      [] kind = "abstain" -> <<Vote(4, 0, 0), Vote(4, 0, 3)>>
      [] kind = "mixed" -> <<Vote(4, 2, 1), Vote(4, 1, 2)>>
      [] kind = "old" -> <<Vote(3, 2, 2), Vote(4, 2, 2)>>
NodeAt(p, h, kh, isKey, kind) ==
    [parent |-> p, height |-> h, keyHeight |-> kh, key |-> isKey, time |-> (3 * h) \div 2,
     version |-> IF kind = "old" THEN 3 ELSE 4, stakeVersion |-> IF kh < 3 THEN 3 ELSE 4,
     votes |-> IF isKey /\ kh > 0 THEN Votes(kind) ELSE <<>>]

\* A chain of key blocks, two to a window, with one micro block in it, and a
\* branch from the end of the first window whose votes differ.
Window(kh) == (kh + 1) \div 2
Tree(kinds, other) ==
    [n \in 0..10 |->
        CASE n <= 3 -> NodeAt(n - 1, n, n, TRUE, kinds[IF n = 0 THEN 1 ELSE Window(n)])
          [] n = 4 -> NodeAt(3, 4, 4, FALSE, "yes")
          [] n \in 5..8 -> NodeAt(n - 1, n, n - 1, TRUE, kinds[Window(n - 1)])
          [] n \in 9..10 -> NodeAt(IF n = 9 THEN 2 ELSE 9, n - 6, n - 6, TRUE, other)]

NoDeployments == tree = <<>> /\ deployments = <<>> /\ caches = <<>> /\ buckets = <<>>

InitDeployments ==
    /\ tree \in {Tree(<<"yes", "mixed", "yes", "no">>, "abstain"),
                 Tree(<<"old", "yes", "yes", "no">>, "no")}
    /\ deployments \in MCDefinitions
    /\ \E r \in {Dep!initThresholdCaches(tree, <<>>, deployments, 1)} :
          caches = r.c /\ buckets = r.b

\* The life cycle depends on the tree and the definitions alone: it is
\* checked while the caches are those of a node that has just started.
DeploymentsSound ==
    focus = "deployments" => /\ Dep!CachesTransparent
                             /\ caches = Dep!newThresholdCaches(deployments) =>
                                   /\ Dep!LifeCycle
                                   /\ Dep!TalliesAgree
                                   /\ Dep!VoterMajorityTransparent

---------------------------------------------------------------------------
(* Difficulty *)

Diff(reduce) == INSTANCE Difficulty WITH
    medianTimeBlocks <- 3, BlockUpgradeNumToCheck <- 2,
    Base <- 4, Unit <- 16, oneLsh256 <- 4096, PowLimit <- 448, maxShift <- 6,
    WorkDiffAlpha <- 1, WorkDiffWindowSize <- 2, WorkDiffWindows <- 2, TargetTimespan <- 4,
    RetargetAdjustmentFactor <- 4, ReduceMinDifficulty <- reduce, MinDiffReductionTime <- 3,
    TargetTimePerBlock <- 2, StakeDiffAlpha <- 1, StakeDiffWindowSize <- 3, StakeDiffWindows <- 2,
    MinimumStakeDiff <- 20, TicketPoolSize <- 2, TicketPoolSizeWeight <- 4, TicketsPerBlock <- 1,
    MaxFreshStakePerBlock <- 2, TicketMaturity <- 3, CoinbaseMaturity <- 2, StakeValidationHeight <- 7,
    BaseSubsidy <- 40, MulSubsidy <- 3, DivSubsidy <- 4, SubsidyReductionInterval <- 3, BlockOneSubsidy <- 100

\* A chain of key blocks and one micro block, at the given times.
TimedChain(times, bits) ==
    [n \in 0..6 |-> [parent |-> n - 1, height |-> n, key |-> n # 3,
                     keyHeight |-> IF n > 3 THEN n - 1 ELSE n, time |-> times[n + 1], bits |-> bits]]

\* A chain of key blocks whose tickets mature, are drawn and have the price
\* the rules ask for; live is the pool after a block.
RECURSIVE PricedChain(_, _)
PricedChain(fresh, n) ==
    IF n = 0
    THEN [t |-> [i \in {0} |-> [parent |-> -1, height |-> 0, keyHeight |-> 0, key |-> TRUE, pool |-> 0,
                                fresh |-> 0, sbits |-> 20]], live |-> 0]
    ELSE LET c == PricedChain(fresh, n - 1)
             node == [parent |-> n - 1, height |-> n, keyHeight |-> n, key |-> TRUE, pool |-> c.live,
                      fresh |-> fresh[n], sbits |-> Diff(FALSE)!calcNextRequiredStakeDifficulty(c.t, n - 1)]
         IN  [t |-> [i \in 0..n |-> IF i = n THEN node ELSE c.t[i]],
              live |-> c.live + (IF n > 3 THEN fresh[n - 3] ELSE 0) - (IF n + 1 >= 7 THEN 1 ELSE 0)]

InitDifficulty ==
    \/ input \in [k : {"compact"}, n : -300..1200]
    \/ \E times \in [1..7 -> {0, 4, 20}], b \in {5, 448}, t \in {9, 30}, r \in BOOLEAN :
          /\ times[1] = 0 /\ times[2] # 4
          /\ input = [k |-> "work", t |-> TimedChain(times, Diff(FALSE)!BigToCompact(b)), at |-> t, reduce |-> r]
    \/ \E fresh \in [1..8 -> {0, 2}] \union [1..8 -> {1, 2}] :
          /\ \A n \in 1..8 : PricedChain(fresh, n).live >= 0
          /\ input = [k |-> "price", t |-> PricedChain(fresh, 8).t]

\* The compact form keeps the leading digits and is a normal form; more
\* work is never less work after it.
CompactSound(n) ==
    LET c == Diff(FALSE)!BigToCompact(n)  r == Diff(FALSE)!CompactToBig(c)
    IN  /\ IF n >= 0 THEN r \in 0..n /\ (n - r) * 8 <= n ELSE r \in n..0
        /\ Diff(FALSE)!BigToCompact(r) = c
        /\ n >= 0 => Diff(FALSE)!HashToBig([i \in 1..6 |-> (n \div 4^(i - 1)) % 4]) = n
        /\ n > 0 => Diff(FALSE)!CalcWork(c) >= Diff(FALSE)!CalcWork(Diff(FALSE)!BigToCompact(n + 1))

\* Whatever the clocks of the miners said, there is a target the next block
\* can meet, no easier than the limit, and a change of it is bounded; the
\* easiest one a checkpoint leaves room for only gets easier with time.
TargetSound(T, n, t, reduce) ==
    LET target == Diff(FALSE)!CompactToBig(Diff(reduce)!calcNextRequiredDifficulty(T, n, t))
        old == Diff(FALSE)!CompactToBig(T[Diff(FALSE)!KeyNode(T, n)].bits)
        easiest(time) == Diff(FALSE)!CompactToBig(Diff(reduce)!calcEasiestDifficulty(T[0].bits, time))
    IN  /\ target \in 1..448
        /\ T[n].time <= t =>
             easiest(T[n].time) \in Diff(FALSE)!CompactToBig(T[0].bits)..easiest(t)
        /\ ~reduce => target \in {old, 448} \/ (4 * target) \div 3 \in (old \div 4)..(6 * old)

\* What a wallet is told the next price will be, if so many tickets are
\* bought until then, is the price the chain asks for when they were bought;
\* but for the interval with the first votes, which counts one block of votes
\* too many.
EstimateSound(T, n) ==
    LET end == CHOOSE m \in n..(n + 2) : (m + 2) % 3 = 0
        bought(m) == MapThenSumSet(LAMBDA i : T[i].fresh, (n + 1)..m)
        flat == [i \in DOMAIN T |-> [T[i] EXCEPT !.sbits = 20]]
        endV1 == CHOOSE m \in n..(n + 2) : (m + 1) % 3 = 0
    IN  /\ end \in DOMAIN T /\ ~(n + 1 < 7 /\ end + 2 > 7) =>
             Diff(FALSE)!estimateNextStakeDifficultyV2(T, n, bought(end), FALSE) = Diff(FALSE)!calcNextRequiredStakeDifficulty(T, end)
        /\ endV1 \in DOMAIN T /\ n >= 3 =>
             Diff(FALSE)!estimateNextStakeDifficultyV1(flat, n, bought(endV1), FALSE)
                = Diff(FALSE)!calcNextRequiredStakeDifficultyV1(flat, endV1)

DifficultySound ==
    focus = "difficulty" =>
        CASE input.k = "compact" -> CompactSound(input.n)
          [] input.k = "work" -> \A n \in 0..6 : TargetSound(input.t, n, input.at, input.reduce)
          [] input.k = "price" -> \A n \in 1..8 : EstimateSound(input.t, n)

---------------------------------------------------------------------------
(* The chain *)

Chain == INSTANCE ChainRules WITH
    medianTimeBlocks <- 3, BlockUpgradeNumToCheck <- 2,
    BaseSubsidy <- 997, MulSubsidy <- 3, DivSubsidy <- 4, SubsidyReductionInterval <- 3,
    BlockOneLedger <- <<[address |-> "a", amount |-> 60], [address |-> "b", amount |-> 40]>>,
    WorkRewardProportion <- 6, StakeRewardProportion <- 3, BlockTaxProportion <- 1,
    OrganizationPkScript <- {"org"}, StakeValidationHeight <- 6, TicketsPerBlock <- 5,
    subsidyCacheInitWidth <- 4, maxMedianTimeEntries <- 6, maxAllowedOffsetSecs <- 5,
    CheckpointConfirmations <- 2, MaxBlockLocatorsPerMsg <- 500, MaxBlocksPerMsg <- 3,
    MaxBlockHeadersPerMsg <- 5, NoStop <- -5

LeafTx(i, room) == [hash |-> <<"tx", i>>, ens |-> IF room THEN <<"ens", i>> ELSE <<>>]
Distinct(n, k) == {s \in UNION {[1..j -> 1..n] : j \in 0..k} : IsInjective(s)}
LeafList(s, room) == [i \in DOMAIN s |-> LeafTx(s[i], room)]

CoinbaseOut(a, v) == [version |-> 0, addrs |-> {a}, value |-> v]

\* A main chain of the given height and a branch from one of its blocks.
ForkedTree(height, fork, len) ==
    [n \in 0..(height + len) |->
        IF n <= height THEN [parent |-> n - 1, height |-> n]
        ELSE [parent |-> IF n = height + 1 THEN fork ELSE n - 1, height |-> fork + n - height]]

InitChain ==
    \/ \E kh \in {0, 9, 13}, asked \in StringsUpTo({0, 2, 4, 7, 10, 13}, 2) :
          input = [k |-> "subsidy", kh |-> kh, asked |-> asked]
    \/ \E outs \in StringsUpTo({CoinbaseOut(a, v) : a \in {"a", "b", "org"}, v \in {40, 60, 74, 99}}, 2),
          lockTime \in {0, 1}, kh \in {1, 4, 8}, voters \in {0, 3, 5} :
          input = [k |-> "coinbase", kh |-> kh, voters |-> voters,
                   tx |-> [lockTime |-> lockTime, expires |-> FALSE, final |-> TRUE, outs |-> outs]]
    \/ \E s \in Distinct(4, 4) \union {[i \in 1..n |-> i] : n \in 5..9}, compressed, room \in BOOLEAN :
          input = [k |-> "merkle", s |-> s, compressed |-> compressed, room |-> room]
    \/ \E ids \in {s \in [1..6 -> 1..5] : Cardinality(Range(s)) = 5}, a, b \in {-9, 4} :
          input = [k |-> "clock", samples |-> [i \in 1..6 |->
                      [id |-> ids[i], offset |-> CASE ids[i] = 4 -> a [] ids[i] = 5 -> b [] OTHER -> ids[i] - 1]]]
    \/ \E heights \in {{}, {3}, {2, 5}, {1, 3, 4}, {6, 7}}, wrong \in 0..8, restarts \in {r \in SUBSET (0..6) : Cardinality(r) <= 2} :
          input = [k |-> "checkpoint", wrong |-> wrong, restarts |-> restarts,
                   cps |-> SetToSortSeq({[height |-> h, hash |-> 10 + h] : h \in heights},
                                        LAMBDA x, y : x.height < y.height)]
    \/ \E times \in [0..5 -> 0..2], standard \in BOOLEAN :
          input = [k |-> "candidate", chain |-> [h \in 0..5 |-> [time |-> times[h]]], standard |-> standard]
    \/ \E h \in {0, 1, 4, 13, 28} : \E f \in {0, 1, h \div 2, h - 1, h} \intersect (0..h), l \in {1, 12, 20} :
          input = [k |-> "locator", t |-> ForkedTree(h, f, l), h |-> h, l |-> l]

\* What a block mints, commits to, may be dated, and where two chains part.
ChainSound ==
    focus = "chain" =>
        CASE input.k = "subsidy" -> Chain!SubsidySound(input.kh, input.asked)
          [] input.k = "coinbase" -> Chain!CoinbaseSound(input.tx, input.kh, input.voters)
          [] input.k = "merkle" ->
                Chain!MerkleSound(LeafList(input.s, input.room), input.compressed,
                                  {LeafList(s, input.room) : s \in Distinct(4, 4)})
          [] input.k = "clock" -> Chain!ClockSound(input.samples, {1, 2, 3})
          [] input.k = "checkpoint" ->
                Chain!CheckpointSound(input.cps, [h \in 0..7 |-> IF h = input.wrong THEN 99 ELSE 10 + h],
                                      input.restarts)
          [] input.k = "candidate" -> Chain!CandidateSound(input.chain, input.standard)
          [] input.k = "locator" ->
                LET main == input.h  branch == input.h + input.l
                IN  /\ \A side \in DOMAIN input.t : Chain!LocatorSound(input.t, main, branch, side)
                    /\ \A side \in DOMAIN input.t : Chain!LocatorSound(input.t, branch, main, side)

\* The numbers every node has to compute alike: targets, prices, subsidies,
\* commitments and locators.
ConsensusSound == DifficultySound /\ ChainSound

---------------------------------------------------------------------------
(* Standard outputs and stake transactions *)

Stake == INSTANCE StakeTx WITH LimitBits <- 2, HalfBits <- 4, AmountBits <- 5, MaxInputsPerSStx <- 2

Key(id, len, valid) == [n |-> len, t |-> "key", id |-> id, valid |-> valid]
SecpKey(id) == Key(id, 33, TRUE)
MultiScripts ==
    {Stake!MultiSigScript([k \in DOMAIN keys |-> SecpKey(keys[k])], m) :
        keys \in {<<2>>, <<1, 2>>, <<1, 1>>, <<1, 2, 3>>, <<2, 1, 2>>}, m \in 1..2}
OneKeyScripts ==
    {Stake!payToPubKeyScript(SecpKey(1)), Stake!payToPubKeyScript(Key(1, 65, TRUE)),
     Stake!payToPubKeyScript(Key(1, 33, FALSE)), Stake!payToPubKeyAltScript(Key(1, 33, TRUE), 2),
     Stake!payToPubKeyHashScript(Stake!KeyHash(SecpKey(1))),
     Stake!payToPubKeyHashAltScript(Stake!KeyHash(Key(1, 33, TRUE)), 2)}
Hashed(s) == Stake!payToScriptHashScript(Stake!ScriptHash(s))
Holder(keys, known) == [keys |-> keys, scripts |-> known]

MCAddresses ==
    {Stake!Address("PubKeyHash", dsa, Stake!KeyHash(SecpKey(1))) : dsa \in {0, 1, 2, 4, 5}}
        \union {Stake!Address("ScriptHash", 0, Stake!ScriptHash(s)) : s \in OneKeyScripts}
        \union {Stake!Address("PubKey", dsa, SecpKey(1)) : dsa \in {0, 1, 2, 5}}
Owners == {Stake!Address("PubKeyHash", 0, Stake!KeyHash(SecpKey(1))),
           Stake!Address("ScriptHash", 0, Stake!ScriptHash(Stake!payToPubKeyScript(SecpKey(2))))}

Payer(given, change, a, limits) == [input |-> given, change |-> change, addr |-> a, limits |-> limits]
LimitWords == {0, 5, 7, 101}

MCOuts ==
    LET a == CHOOSE o \in Owners : TRUE
    IN  {Stake!Out(pk, 0) : pk \in {Stake!PayToSStx(a), Stake!PayToSStxChange(a), Stake!PayToSSGen(a),
            Stake!PayToSSRtx(a), Stake!GenerateSStxAddrPush(a, 3, 0), Stake!GenerateSSGenBlockRef("b", 7, 3),
            Stake!GenerateSSGenVotes(5), <<Stake!Op("RETURN")>>}}

\* A transaction to be signed, and what a single change makes of it.
SignedTx(m, n) ==
    [ins |-> [k \in 1..m |-> [prev |-> k, sequence |-> 5, value |-> 10 * k, script |-> <<>>]],
     outs |-> [k \in 1..n |-> [version |-> 0, value |-> k, pk |-> <<Stake!Op("RETURN")>>]]]
Variants(tx, idx) ==
    {tx} \union {[tx EXCEPT !.ins[k][f] = 9] : k \in DOMAIN tx.ins, f \in {"prev", "sequence", "value"}}
         \union {[tx EXCEPT !.outs[k][f] = 9] : k \in DOMAIN tx.outs, f \in {"version", "value"}}
         \union {[tx EXCEPT !.outs[k].pk = <<>>] : k \in DOMAIN tx.outs}
         \union {[tx EXCEPT !.outs = Front(@)] : k \in {1} \intersect DOMAIN tx.outs}
         \union {[tx EXCEPT !.ins = Front(@)] : k \in {idx + 1} \intersect DOMAIN tx.ins}

InitStandard ==
    \/ \E a \in MCAddresses : input = [k |-> "address", a |-> a]
    \/ \E s \in OneKeyScripts, shape \in {"bare", "hashed", "tagged"}, keys \in {{}, {1}}, known \in BOOLEAN :
          input = [k |-> "sign", s |-> s, shape |-> shape,
                   holders |-> <<Holder(keys, IF known THEN {s} ELSE {})>>]
    \/ \E s \in MultiScripts, shape \in {"bare", "hashed", "tagged"}, n \in 1..2 :
       \E keys \in [1..n -> {{1}, {2}, {1, 3}}], unaware \in 0..1 :
          input = [k |-> "sign", s |-> s, shape |-> shape,
                   holders |-> [j \in 1..n |-> Holder(keys[j], IF j = unaware THEN {} ELSE {s})]]
    \/ \E n \in 1..2, price \in {1, 4, 7}, subsidy \in {0, 2, 3}, kind \in 1..2, owner \in Owners :
       \E gifts \in [1..n -> {Payer(i, 1, owner, w) : i \in {3, 6}, w \in LimitWords}] :
          /\ Stake!SumOf([j \in 1..n |-> gifts[j].input - gifts[j].change]) >= price
          /\ kind = 2 => subsidy = 0
          /\ input = [k |-> "ticket", owner |-> owner, price |-> price, gifts |-> gifts,
                      kind |-> kind, subsidy |-> subsidy]
    \/ \E ins \in {<<Stake!In(FALSE, "stake")>>, <<Stake!In(FALSE, "regular")>>,
                   <<Stake!In(TRUE, "regular"), Stake!In(FALSE, "stake")>>},
          n \in 1..3 :
       \E outs \in [1..n -> MCOuts] : input = [k |-> "types", tx |-> [ins |-> ins, outs |-> outs]]
    \/ \E m \in {1, 3}, n \in {0, 2, 3} : \E idx \in {1, 2} \intersect 1..m : \E other \in Variants(SignedTx(m, n), idx) :
       \E base \in 0..5, alone \in {0, 128} :
          input = [k |-> "hash", type |-> base + alone, tx |-> SignedTx(m, n), other |-> other, idx |-> idx]

Shaped(s, shape) ==
    CASE shape = "bare" -> s [] shape = "hashed" -> Hashed(s)
      [] OTHER -> <<Stake!Op("SSGEN")>> \o (IF Stake!typeOfScript(s) = "PubKeyHash" THEN s ELSE Hashed(s))

\* Who can spend an output, and what a ticket returns.
OutputsSound ==
    focus = "standard" =>
        CASE input.k = "address" -> Stake!AddressSound(input.a)
          [] input.k = "sign" ->
                Stake!SpendingSound(Shaped(input.s, input.shape), input.holders, {0, 60299, 60300, 100000},
                                    100000, {0, 4, 5})
          [] input.k = "hash" -> Stake!SignatureCovers(input.type, input.tx, input.other, input.idx)
          [] input.k = "ticket" ->
                Stake!TicketSound(input.owner, input.price, input.gifts, input.kind, input.subsidy)
          [] input.k = "types" -> Stake!TypesSound(input.tx)

---------------------------------------------------------------------------
(* A chain on which a few payments are made, tickets bought, and blocks mined, *)
(* from before the first votes and from after them.                            *)

TicketRules == INSTANCE StakeTx WITH
    LimitBits <- 2, HalfBits <- 4, AmountBits <- 5, MaxInputsPerSStx <- 2
MCCalculateRewards(amounts, ticket, subsidy) ==
    TicketRules!CalculateRewards(amounts, ticket, subsidy)

MCTicketPrice == 20
MCTickets == [n \in 1..12 |-> <<"ticket", n>>]

OutOf(value, class, data) ==
    [value |-> value, class |-> class, data |-> data, version |-> 0, addrs |-> {}]
Made(id, type, from, outs, fee) ==
    [id |-> id, type |-> type, outs |-> outs, vote |-> [on |-> 0, keyHeight |-> 0, yes |-> FALSE],
     ins |-> <<[tx |-> from[1], index |-> from[2], tree |-> "regular", value |-> 0, height |-> 0,
                bindex |-> 0]>>,
     expiry |-> 0, lockTime |-> 0, final |-> TRUE, fee |-> fee, size |-> 2, inSigs |-> 1,
     outSigs |-> 0, p2shSigs |-> 0]

Pay(n, from, values, fee) ==
    Made(<<"pay", n>>, "Regular", from,
         [k \in DOMAIN values |-> OutOf(values[k], "pay", <<>>)], fee)
TicketOf(value) ==
    <<OutOf(MCTicketPrice, "ticket", <<>>), OutOf(0, "null", <<value>>), OutOf(0, "change", <<>>)>>
Buy(n, from, value) == Made(<<"ticket", 20 + n>>, "SStx", from, TicketOf(value), 0)

Coin(outs, type) ==
    [height |-> 2, index |-> 2, coinbase |-> FALSE, expires |-> FALSE, type |-> type,
     outs |-> outs, spent |-> {}]
MCCoins ==
    [id \in Range(MCTickets) \union {<<"coin", 1>>, <<"coin", 2>>} |->
        IF id[1] = "coin"
        THEN Coin(<<OutOf(200, "pay", <<>>), OutOf(25, "pay", <<>>)>>, "Regular")
        ELSE Coin(TicketOf(25), "SStx")]

\* Three payments in a row, a ticket from a coin and one from a payment.
MCSpends ==
    {Pay(1, <<<<"coin", 1>>, 1>>, <<100, 25>>, 75),
     Pay(2, <<<<"pay", 1>>, 1>>, <<60>>, 40),
     Pay(3, <<<<"pay", 2>>, 1>>, <<59>>, 1),
     Buy(1, <<<<"coin", 2>>, 2>>, 25), Buy(2, <<<<"pay", 1>>, 2>>, 25)}

Miner == INSTANCE Mining WITH
    medianTimeBlocks <- 3, BlockUpgradeNumToCheck <- 2,
    BaseSubsidy <- 100, MulSubsidy <- 3, DivSubsidy <- 4, SubsidyReductionInterval <- 100,
    BlockOneLedger <- <<[address |-> "a", amount |-> 60]>>,
    WorkRewardProportion <- 6, StakeRewardProportion <- 3, BlockTaxProportion <- 1,
    OrganizationPkScript <- {"org"}, StakeValidationHeight <- 8, TicketsPerBlock <- 3,
    subsidyCacheInitWidth <- 4, maxMedianTimeEntries <- 6, maxAllowedOffsetSecs <- 5,
    CheckpointConfirmations <- 2, MaxBlockLocatorsPerMsg <- 500, MaxBlocksPerMsg <- 3,
    MaxBlockHeadersPerMsg <- 5, NoStop <- -5,
    MaxAmount <- 100000, MaxTxSize <- 10, MaxBlockPayload <- 100, MaxSigOpsPerBlock <- 20,
    CoinbaseMaturity <- 2, TicketMaturity <- 1, SStxChangeMaturity <- 1,
    StakeEnabledHeight <- 3, MinimumStakeDiff <- 10, MaxFreshStakePerBlock <- 2,
    MicroBlockValidationHeight <- 1, MaxMicroPerKey <- 2,
    CalculateRewards <- MCCalculateRewards, NoTx <- <<"none", 0>>, NullIndex <- 99,
    BlockHeaderOverhead <- 2, BlockMaxSize <- 16, BlockMinSize <- 0, BlockPrioritySize <- 12,
    TxMinFreeFee <- 10, MinHighPriority <- 350, TicketPrice <- MCTicketPrice, CoinbaseSize <- 3,
    Spends <- MCSpends, VotePatterns <- {<<2, 1>>, <<1, 2>>, <<1, 1>>},
    FirstHeights <- {5, 8}, Tickets <- MCTickets, Ledger <- MCCoins, MaxBlocks <- 2

---------------------------------------------------------------------------
(* A focus without the script machine leaves it stopped. *)
NoScript ==
    /\ table = TControl /\ scripts = <<>>
    /\ vm = Fail(Machine(<<>>, <<>>, {}))

InitScript ==
    CASE focus = "control" -> InitControl
      [] focus = "hash" -> InitHash
      [] focus = "number" -> InitNumber
      [] focus = "stack" -> InitStack
      [] focus = "sig" -> InitSig
      [] focus = "der" -> InitDer

ScriptFoci == {"control", "hash", "number", "stack", "sig", "der"}

NoMining == wallet = {} /\ chain = <<>> /\ pool = {} /\ refused = {}

\* Blocks that are mined are accepted, count as the votes say, and mint what
\* they may.
MiningSound == focus = "mining" => Miner!MiningSound

MCInit ==
    /\ focus \in Foci
    /\ IF focus = "deployments" THEN InitDeployments ELSE NoDeployments
    /\ IF focus = "mining" THEN Miner!MiningInit ELSE NoMining
    /\ IF focus \in ScriptFoci THEN InitScript /\ input = <<>>
       ELSE /\ NoScript
            /\ CASE focus = "wire" -> InitWire
                 [] focus = "codec" -> InitCodec
                 [] focus = "difficulty" -> InitDifficulty
                 [] focus = "chain" -> InitChain
                 [] focus = "standard" -> InitStandard
                 [] OTHER -> input = <<>>

deploymentState == <<tree, deployments, caches, buckets>>
miningState == <<wallet, chain, pool, refused>>

MCNext ==
    \/ Step /\ UNCHANGED <<focus, input, deploymentState, miningState>>
    \/ /\ focus = "deployments" /\ Dep!DeploymentsNext
       /\ UNCHANGED <<focus, input, engineVars, miningState>>
    \/ /\ focus = "mining" /\ Miner!MiningNext
       /\ UNCHANGED <<focus, input, engineVars, deploymentState>>

MCSpec ==
    MCInit /\ [][MCNext]_<<engineVars, focus, input, deploymentState, miningState>>
=============================================================================
