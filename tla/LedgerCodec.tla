----------------------------- MODULE LedgerCodec -----------------------------
(***************************************************************************)
(* How the ledger is kept in the database (blockchain/compress.go,         *)
(* chainio.go and stake/internal/ticketdb): numbers, amounts and scripts   *)
(* in compressed form, unspent outputs, the spend journal, the best state  *)
(* and the ticket records.  A string of bytes is a sequence of 0..255.     *)
(***************************************************************************)
EXTENDS Integers, Sequences, SequencesExt, FiniteSetsExt

Repeat(b, n) == [i \in 1..n |-> b]
From(s, i) == SubSeq(s, i, Len(s))
Bit(n, k) == (n \div 2^k) % 2 = 1
If(c, n) == IF c THEN n ELSE 0

---------------------------------------------------------------------------
(* Numbers of variable length, the most significant group of bits first. *)

RECURSIVE serializeSizeVLQ(_), Groups(_, _), ReadGroups(_, _, _)
serializeSizeVLQ(n) == IF n > 127 THEN 1 + serializeSizeVLQ((n \div 128) - 1) ELSE 1

Groups(n, highBit) ==
    IF n <= 127 THEN <<n + highBit>>
    ELSE Append(Groups((n \div 128) - 1, 128), (n % 128) + highBit)
putVLQ(n) == Groups(n, 0)

ReadGroups(s, i, n) ==
    IF i > Len(s) THEN [n |-> n, size |-> Len(s)]
    ELSE LET m == n * 128 + (s[i] % 128)
         IN  IF s[i] < 128 THEN [n |-> m, size |-> i] ELSE ReadGroups(s, i + 1, m + 1)
deserializeVLQ(s) == ReadGroups(s, 1, 0)

\* Numbers of a fixed width, the least significant byte first.
RECURSIVE PutUint(_, _), Uint(_)
PutUint(n, w) == IF w = 0 THEN <<>> ELSE <<n % 256>> \o PutUint(n \div 256, w - 1)
Uint(s) == IF s = <<>> THEN 0 ELSE Head(s) + 256 * Uint(Tail(s))

---------------------------------------------------------------------------
(* Amounts: a multiple of a power of ten takes fewer bytes. *)

RECURSIVE Exponent(_, _)
Exponent(amount, e) == IF amount % 10 = 0 /\ e < 9 THEN Exponent(amount \div 10, e + 1) ELSE e

compressTxOutAmount(amount) ==
    IF amount = 0 THEN 0
    ELSE LET e == Exponent(amount, 0)
             n == amount \div 10^e
         IN  IF e < 9 THEN 1 + 10 * (9 * (n \div 10) + (n % 10) - 1) + e
             ELSE 10 + 10 * (n - 1)

decompressTxOutAmount(amount) ==
    IF amount = 0 THEN 0
    ELSE LET e == (amount - 1) % 10
             m == (amount - 1) \div 10
             n == IF e < 9 THEN (m \div 9) * 10 + (m % 9) + 1 ELSE m + 1
         IN  n * 10^e

---------------------------------------------------------------------------
(* Scripts *)

OP_DATA_1 == 1
OP_DATA_20 == 20
OP_DATA_33 == 33
OP_DATA_65 == 65
OP_1 == 81
OP_16 == 96
OP_DUP == 118
OP_EQUAL == 135
OP_EQUALVERIFY == 136
OP_HASH160 == 169
OP_CHECKSIG == 172
OP_CHECKSIGALT == 190
BSTypeBliss == 4
LMSTypeLMS == 5

\* chainec.Secp256k1: which abscissae lie on the curve, and the ordinate of
\* each oddness.
OnCurve(x) == x[32] % 4 # 3
Ordinate(x, odd) == [x EXCEPT ![1] = 7, ![32] = 2 * (x[32] % 64) + If(odd, 1)]
ParsePubKey(key) ==
    \/ Len(key) = 33 /\ key[1] \in {2, 3} /\ OnCurve(From(key, 2))
    \/ /\ Len(key) = 65 /\ key[1] = 4
       /\ LET x == SubSeq(key, 2, 33)
              y == From(key, 34)
          IN  OnCurve(x) /\ y = Ordinate(x, Bit(y[32], 0))

isPubKeyHash(s) ==
    /\ Len(s) = 25 /\ SubSeq(s, 1, 3) = <<OP_DUP, OP_HASH160, OP_DATA_20>>
    /\ From(s, 24) = <<OP_EQUALVERIFY, OP_CHECKSIG>>
isOneByteMaxDataPush(b) == b \in OP_1..OP_16 \/ b = OP_DATA_1
isPubKeyHashAlt(s) ==
    /\ Len(s) = 26 /\ SubSeq(s, 1, 3) = <<OP_DUP, OP_HASH160, OP_DATA_20>>
    /\ s[24] = OP_EQUALVERIFY /\ isOneByteMaxDataPush(s[25]) /\ s[26] = OP_CHECKSIGALT
isScriptHash(s) ==
    Len(s) = 23 /\ SubSeq(s, 1, 2) = <<OP_HASH160, OP_DATA_20>> /\ s[23] = OP_EQUAL
isPubKey(s) ==
    \/ /\ Len(s) = 35 /\ s[1] = OP_DATA_33 /\ s[35] = OP_CHECKSIG /\ s[2] \in {2, 3}
       /\ ParsePubKey(SubSeq(s, 2, 34))
    \/ /\ Len(s) = 67 /\ s[1] = OP_DATA_65 /\ s[67] = OP_CHECKSIG /\ s[2] = 4
       /\ ParsePubKey(SubSeq(s, 2, 66))

cstPayToPubKeyHash == 0
cstPayToScriptHash == 1
cstPayToPubKeyCompEven == 2
cstPayToPubKeyCompOdd == 3
cstPayToPubKeyUncompEven == 4
cstPayToPubKeyUncompOdd == 5
cstPayToPubKeyHashBliss == 6
cstPayToPubKeyHashLms == 7
numSpecialScripts == 64

compressedScriptSize(s) ==
    IF isPubKeyHash(s) \/ isPubKeyHashAlt(s) \/ isScriptHash(s) THEN 21
    ELSE IF isPubKey(s) THEN 33
    ELSE serializeSizeVLQ(Len(s) + numSpecialScripts) + Len(s)

decodeCompressedScriptSize(s) ==
    LET code == deserializeVLQ(s)
    IN  IF s = <<>> THEN 0
        ELSE CASE code.n \in {cstPayToPubKeyHash, cstPayToScriptHash, cstPayToPubKeyHashBliss,
                              cstPayToPubKeyHashLms} -> 21
               [] code.n \in cstPayToPubKeyCompEven..cstPayToPubKeyUncompOdd -> 33
               [] OTHER -> code.n - numSpecialScripts + code.size

putCompressedScript(s) ==
    CASE isPubKeyHash(s) -> <<cstPayToPubKeyHash>> \o SubSeq(s, 4, 23)
      [] isScriptHash(s) -> <<cstPayToScriptHash>> \o SubSeq(s, 3, 22)
      [] isPubKey(s) ->
            << CASE s[2] = 2 -> cstPayToPubKeyCompEven
                 [] s[2] = 3 -> cstPayToPubKeyCompOdd
                 [] s[2] = 4 -> IF Bit(s[66], 0) THEN cstPayToPubKeyUncompOdd
                                ELSE cstPayToPubKeyUncompEven >> \o SubSeq(s, 3, 34)
      [] isPubKeyHashAlt(s) ->
            << IF s[25] \in {5, 85} THEN cstPayToPubKeyHashLms ELSE cstPayToPubKeyHashBliss >>
            \o SubSeq(s, 4, 23)
      [] OTHER -> putVLQ(Len(s) + numSpecialScripts) \o s

decompressScript(c) ==
    LET code == deserializeVLQ(c)
        body(n) == SubSeq(c, code.size + 1, code.size + n)
        payToHash(tail) == <<OP_DUP, OP_HASH160, OP_DATA_20>> \o body(20) \o <<OP_EQUALVERIFY>> \o tail
    IN  IF c = <<>> THEN <<>>
        ELSE CASE code.n = cstPayToPubKeyHash -> payToHash(<<OP_CHECKSIG>>)
               [] code.n = cstPayToScriptHash -> <<OP_HASH160, OP_DATA_20>> \o body(20) \o <<OP_EQUAL>>
               [] code.n \in {cstPayToPubKeyCompEven, cstPayToPubKeyCompOdd} ->
                     <<OP_DATA_33, IF code.n = cstPayToPubKeyCompOdd THEN 3 ELSE 2>> \o body(32)
                     \o <<OP_CHECKSIG>>
               [] code.n \in {cstPayToPubKeyUncompEven, cstPayToPubKeyUncompOdd} ->
                     LET odd == code.n = cstPayToPubKeyUncompOdd
                     IN  IF ~ParsePubKey(<<IF odd THEN 3 ELSE 2>> \o body(32)) THEN <<>>
                         ELSE <<OP_DATA_65, 4>> \o body(32) \o Ordinate(body(32), odd)
                              \o <<OP_CHECKSIG>>
               [] code.n = cstPayToPubKeyHashBliss -> payToHash(<<BSTypeBliss, OP_CHECKSIGALT>>)
               [] code.n = cstPayToPubKeyHashLms -> payToHash(<<LMSTypeLMS, OP_CHECKSIGALT>>)
               [] OTHER -> body(code.n - numSpecialScripts)

---------------------------------------------------------------------------
(* Outputs: an amount (of an unspent one only), the script version and the *)
(* script, which is compressed already when it came from the database.     *)

compressedTxOutSize(o, hasAmount) ==
    serializeSizeVLQ(o.scriptVersion)
    + If(hasAmount, serializeSizeVLQ(compressTxOutAmount(o.amount)))
    + IF o.compressed THEN Len(o.pkScript) ELSE compressedScriptSize(o.pkScript)

putCompressedTxOut(o, hasAmount) ==
    (IF hasAmount THEN putVLQ(compressTxOutAmount(o.amount)) ELSE <<>>)
    \o putVLQ(o.scriptVersion)
    \o IF o.compressed THEN o.pkScript ELSE putCompressedScript(o.pkScript)

decodeCompressedTxOut(s, hasAmount) ==
    LET after(amount, version, at, size) ==
            IF (hasAmount /\ amount.size >= Len(s)) \/ size < 0 \/ Len(s) - at < size
            THEN [ok |-> FALSE]
            ELSE [ok |-> TRUE, size |-> at + size,
                  out |-> [amount |-> If(hasAmount, decompressTxOutAmount(amount.n)),
                           scriptVersion |-> version.n, compressed |-> TRUE,
                           pkScript |-> SubSeq(s, at + 1, at + size)]]
        script(amount, version, at) ==
            after(amount, version, at, decodeCompressedScriptSize(From(s, at + 1)))
        output(amount, start) ==
            LET version == deserializeVLQ(From(s, start + 1))
            IN  script(amount, version, start + version.size)
        amountRead == deserializeVLQ(s)
    IN  output(amountRead, If(hasAmount, amountRead.size))

\* The script of an output, decompressed when it is first asked for.
PkScript(o) == IF o.compressed THEN decompressScript(o.pkScript) ELSE o.pkScript

TxTypeRegular == 0
TxTypeSStx == 1
TxTypeSSGen == 2

encodeFlags(coinBase, hasExpiry, txType, fullySpent) ==
    txType * 4 + If(coinBase, 1) + If(hasExpiry, 2) + If(fullySpent, 16)
decodeFlags(b) ==
    [coinBase |-> Bit(b, 0), hasExpiry |-> Bit(b, 1), txType |-> (b \div 4) % 4]
decodeFlagsFullySpent(b) == Bit(b, 4)

---------------------------------------------------------------------------
(* The outputs of a ticket purchase that votes and revocations need. *)

putTxToMinimalOutputs(outs) ==
    putVLQ(Len(outs))
    \o FlattenSeq([i \in DOMAIN outs |->
          putVLQ(compressTxOutAmount(outs[i].amount)) \o putVLQ(outs[i].scriptVersion)
          \o putVLQ(Len(outs[i].pkScript)) \o outs[i].pkScript])
serializeSizeForMinimalOutputs(outs) ==
    FoldSeq(LAMBDA o, sz : sz + serializeSizeVLQ(compressTxOutAmount(o.amount))
                              + serializeSizeVLQ(o.scriptVersion)
                              + serializeSizeVLQ(Len(o.pkScript)) + Len(o.pkScript),
            serializeSizeVLQ(Len(outs)), outs)

\* What is left of s after the next output, and the output.
NextMinimal(s) ==
    LET amount == deserializeVLQ(s)
        version == deserializeVLQ(From(s, amount.size + 1))
        len == deserializeVLQ(From(s, amount.size + version.size + 1))
        at == amount.size + version.size + len.size
    IN  [size |-> at + len.n,
         out |-> [amount |-> decompressTxOutAmount(amount.n), scriptVersion |-> version.n,
                  pkScript |-> SubSeq(s, at + 1, at + len.n)]]
RECURSIVE MinimalAfter(_, _, _, _)
MinimalAfter(s, offset, n, outs) ==
    IF n = 0 THEN [outs |-> outs, size |-> offset]
    ELSE LET next == NextMinimal(From(s, offset + 1))
         IN  MinimalAfter(s, offset + next.size, n - 1, Append(outs, next.out))
deserializeToMinimalOutputs(s) ==
    LET count == deserializeVLQ(s) IN MinimalAfter(s, count.size, count.n, <<>>)
readDeserializeSizeOfMinimalOutputs(s) == deserializeToMinimalOutputs(s).size

---------------------------------------------------------------------------
(* Entries of the utxo set: the unspent outputs of a transaction.  Which   *)
(* ones those are is kept in two bits of the header code, for the outputs  *)
(* 0 and 1, and a bitmap for the others.                                   *)

IsOutputSpent(e, i) == i \notin DOMAIN e.outputs \/ e.outputs[i].spent
IsFullySpent(e) == \A i \in DOMAIN e.outputs : e.outputs[i].spent
Unspent(e) == {i \in DOMAIN e.outputs : ~e.outputs[i].spent}
Ascending(S) == SetToSortSeq(S, <)

numBitmapBytes(e) == (Max(DOMAIN e.outputs) + 6) \div 8
utxoEntryHeaderCode(e) ==
    4 * (numBitmapBytes(e) - If(IsOutputSpent(e, 0) /\ IsOutputSpent(e, 1), 1))
    + If(~IsOutputSpent(e, 0), 1) + If(~IsOutputSpent(e, 1), 2)

EntryFlags(e) == encodeFlags(e.coinBase, e.hasExpiry, e.txType, FALSE)
utxoEntrySize(e) ==
    serializeSizeVLQ(e.version) + serializeSizeVLQ(e.height) + serializeSizeVLQ(e.index)
    + serializeSizeVLQ(EntryFlags(e)) + serializeSizeVLQ(utxoEntryHeaderCode(e)) + numBitmapBytes(e)
    + MapThenSumSet(LAMBDA i : compressedTxOutSize(e.outputs[i], TRUE), Unspent(e))
    + If(e.txType = TxTypeSStx, Len(e.stakeExtra))

\* The bytes of an entry; none at all for one that is spent.
serializeUtxoEntry(e) ==
    IF IsFullySpent(e) THEN <<>>
    ELSE putVLQ(e.version) \o putVLQ(e.height) \o putVLQ(e.index) \o putVLQ(EntryFlags(e))
         \o putVLQ(utxoEntryHeaderCode(e))
         \o [k \in 1..numBitmapBytes(e) |->
                MapThenSumSet(LAMBDA j : If(~IsOutputSpent(e, 2 + (k - 1) * 8 + j), 2^j), 0..7)]
         \o FlattenSeq([k \in 1..Cardinality(Unspent(e)) |->
                putCompressedTxOut(e.outputs[Ascending(Unspent(e))[k]], TRUE)])
         \o IF e.txType = TxTypeSStx THEN e.stakeExtra ELSE <<>>

\* Reads an output for each of the indexes, from the offset on.
RECURSIVE ReadOutputs(_, _, _, _)
ReadOutputs(s, offset, indexes, outs) ==
    IF indexes = <<>> THEN [ok |-> TRUE, outputs |-> outs, size |-> offset]
    ELSE LET then(d) ==
                 IF ~d.ok THEN d
                 ELSE ReadOutputs(s, offset + d.size, Tail(indexes),
                                  [i \in DOMAIN outs \union {Head(indexes)} |->
                                      IF i = Head(indexes)
                                      THEN [spent |-> FALSE, compressed |-> TRUE, amount |-> d.out.amount,
                                            scriptVersion |-> d.out.scriptVersion,
                                            pkScript |-> d.out.pkScript]
                                      ELSE outs[i]])
         IN  then(decodeCompressedTxOut(From(s, offset + 1), TRUE))

\* The first k numbers, and the offset behind them.
NumbersAt(s, k) ==
    LET plus(r, d) == [n |-> Append(r.n, d.n), at |-> r.at + d.size]
        read[i \in 0..k] ==
            IF i = 0 THEN [n |-> <<>>, at |-> 0]
            ELSE plus(read[i - 1], deserializeVLQ(From(s, read[i - 1].at + 1)))
    IN  read[k]

\* The entry whose version, height, index, flags and code are fields, with
\* the bitmap and the outputs from the offset at on.
UtxoEntryAt(s, fields, at) ==
    LET code == fields[5]
        bytes == (code \div 4) + If(code % 4 = 0, 1)
        indexes == (IF Bit(code, 0) THEN <<0>> ELSE <<>>) \o (IF Bit(code, 1) THEN <<1>> ELSE <<>>)
                   \o Ascending({2 + i * 8 + j : <<i, j>> \in
                                   {p \in (0..(bytes - 1)) \X (0..7) : Bit(s[at + 1 + p[1]], p[2])}})
        d == decodeFlags(fields[4])
        entry(read) ==
            IF ~read.ok THEN [ok |-> FALSE]
            ELSE [ok |-> TRUE,
                  entry |-> [version |-> fields[1], height |-> fields[2], index |-> fields[3],
                             coinBase |-> d.coinBase, hasExpiry |-> d.hasExpiry,
                             txType |-> d.txType, outputs |-> read.outputs,
                             stakeExtra |-> IF d.txType = TxTypeSStx
                                            THEN From(s, read.size + 1) ELSE <<>>]]
    IN  IF at >= Len(s) \/ Len(s) - at < bytes THEN [ok |-> FALSE]
        ELSE entry(ReadOutputs(s, at + bytes, indexes, <<>>))

deserializeUtxoEntry(s) ==
    LET entry(r) == UtxoEntryAt(s, r.n, r.at) IN entry(NumbersAt(s, 5))

---------------------------------------------------------------------------
(* The spend journal: the outputs a block spends, the last one first.      *)
(* Amounts and places are those its inputs name, so they are not stored;   *)
(* what belongs to the whole transaction is stored with its last output.   *)

StxoFlags(o) == encodeFlags(o.coinBase, o.hasExpiry, o.txType, o.fullySpent)

spentTxOutSerializeSize(o) ==
    serializeSizeVLQ(StxoFlags(o)) + compressedTxOutSize(o, FALSE)
    + If(o.fullySpent, serializeSizeVLQ(o.txVersion) + If(o.txType = TxTypeSStx, Len(o.stakeExtra)))

putSpentTxOut(o) ==
    putVLQ(StxoFlags(o)) \o putCompressedTxOut(o, FALSE)
    \o IF ~o.fullySpent THEN <<>>
       ELSE putVLQ(o.txVersion) \o IF o.txType = TxTypeSStx THEN o.stakeExtra ELSE <<>>

\* The rest of an output of the journal, after its flags and the output itself.
SpentTxOutFrom(s, in, flags, o) ==
    LET full == decodeFlagsFullySpent(flags.n)
        d == IF full THEN decodeFlags(flags.n)
             ELSE [coinBase |-> FALSE, hasExpiry |-> FALSE, txType |-> TxTypeRegular]
        at == flags.size + o.size
        version == deserializeVLQ(From(s, at + 1))
        extraAt == at + version.size
        extra == If(d.txType = TxTypeSStx, readDeserializeSizeOfMinimalOutputs(From(s, extraAt + 1)))
        stxo == [pkScript |-> o.out.pkScript, compressed |-> TRUE,
                 scriptVersion |-> o.out.scriptVersion, amount |-> in.ValueIn,
                 height |-> in.BlockHeight, index |-> in.BlockIndex, fullySpent |-> full,
                 coinBase |-> d.coinBase, hasExpiry |-> d.hasExpiry, txType |-> d.txType,
                 txVersion |-> IF full THEN version.n ELSE 0,
                 stakeExtra |-> IF full THEN SubSeq(s, extraAt + 1, extraAt + extra) ELSE <<>>]
    IN  IF ~o.ok THEN [ok |-> FALSE]
        ELSE IF ~full THEN [ok |-> TRUE, stxo |-> stxo, size |-> at]
        ELSE IF \/ extraAt > Len(s)
                \/ d.txType = TxTypeSStx /\ (extra = 0 \/ extra > Len(s) - extraAt)
        THEN [ok |-> FALSE]
        ELSE [ok |-> TRUE, stxo |-> stxo, size |-> extraAt + extra]

decodeSpentTxOut(s, in) ==
    LET after(flags) ==
            IF flags.size >= Len(s) THEN [ok |-> FALSE]
            ELSE SpentTxOutFrom(s, in, flags,
                                decodeCompressedTxOut(From(s, flags.size + 1), FALSE))
    IN  IF s = <<>> THEN [ok |-> FALSE] ELSE after(deserializeVLQ(s))

\* The inputs whose outputs are in the journal, in their order: a vote's
\* first input creates its reward.
JournalInputs(txns) ==
    FlattenSeq([k \in DOMAIN txns |-> IF txns[k].txType = TxTypeSSGen THEN Tail(txns[k].TxIn)
                                      ELSE txns[k].TxIn])
numStxos(txns) ==
    FoldSeq(LAMBDA tx, n : n + IF tx.txType = TxTypeSSGen THEN 1 ELSE Len(tx.TxIn), 0, txns)

\* Mutant: the first one first.
serializeForwards(stxos) ==
    IF \E i \in DOMAIN stxos : Len(putSpentTxOut(stxos[i])) # spentTxOutSerializeSize(stxos[i])
    THEN [ok |-> FALSE]
    ELSE [ok |-> TRUE, bytes |-> FlattenSeq([i \in DOMAIN stxos |-> putSpentTxOut(stxos[i])])]
serializeSpendJournalEntry(stxos) ==
    IF \E i \in DOMAIN stxos : Len(putSpentTxOut(stxos[i])) # spentTxOutSerializeSize(stxos[i])
    THEN [ok |-> FALSE]
    ELSE [ok |-> TRUE,
          bytes |-> FlattenSeq([i \in DOMAIN stxos |-> putSpentTxOut(stxos[Len(stxos) + 1 - i])])]

\* Reads the last inputs first.
RECURSIVE ReadStxos(_, _, _)
ReadStxos(s, ins, stxos) ==
    IF ins = <<>> THEN [ok |-> TRUE, stxos |-> stxos]
    ELSE LET then(d) == IF ~d.ok THEN d
                        ELSE ReadStxos(From(s, d.size + 1), Front(ins), <<d.stxo>> \o stxos)
         IN  then(decodeSpentTxOut(s, Last(ins)))
deserializeSpendJournalEntry(s, txns) ==
    IF s = <<>> THEN IF numStxos(txns) # 0 THEN [ok |-> FALSE] ELSE [ok |-> TRUE, stxos |-> <<>>]
    ELSE ReadStxos(s, JournalInputs(txns), <<>>)

---------------------------------------------------------------------------
(* The utxo set and the indexes of the main chain in the database. *)

Keep(f, S) == [k \in S |-> f[k]]
Set(f, k, v) == [x \in DOMAIN f \union {k} |-> IF x = k THEN v ELSE f[x]]
Drop(f, k) == Keep(f, DOMAIN f \ {k})

\* Entries that did not change are left alone, spent ones are deleted.
dbPutUtxoView(bucket, view) ==
    LET written == {h \in DOMAIN view : view[h].modified}
        gone == {h \in written : IsFullySpent(view[h].entry)}
    IN  [h \in (DOMAIN bucket \union written) \ gone |->
            IF h \in written THEN serializeUtxoEntry(view[h].entry) ELSE bucket[h]]
dbFetchUtxoEntry(bucket, h) ==
    IF h \notin DOMAIN bucket \/ bucket[h] = <<>> THEN [ok |-> FALSE]
    ELSE deserializeUtxoEntry(bucket[h])

dbPutBlockIndex(db, hash, height) ==
    [db EXCEPT !.hashIndex = Set(@, hash, height), !.heightIndex = Set(@, height, hash)]
dbRemoveBlockIndex(db, hash, height) ==
    [db EXCEPT !.hashIndex = Drop(@, hash), !.heightIndex = Drop(@, height)]
dbMainChainHasBlock(db, hash) == hash \in DOMAIN db.hashIndex

HeightRange(db, bestHeight, startHeight, endHeight) ==
    LET stop == IF endHeight > bestHeight + 1 THEN bestHeight + 1 ELSE endHeight
    IN  IF startHeight = endHeight \/ startHeight > bestHeight THEN <<>>
        ELSE [k \in 1..(stop - startHeight) |-> db.heightIndex[startHeight + k - 1]]

---------------------------------------------------------------------------
(* The versions of the database and the best state. *)

currentDatabaseVersion == 2
currentCompressionVersion == 1

\* The highest bit of the version says that an upgrade has begun.
PutVersion(version, started) == [PutUint(version, 4) EXCEPT ![4] = @ + If(started, 128)]
Version(s) == Uint([SubSeq(s, 1, 4) EXCEPT ![4] = @ % 128])
Started(s) == s[4] >= 128

serializeDatabaseInfo(i) ==
    PutVersion(i.version, i.upgradeStarted) \o PutUint(i.compVer, 4) \o PutUint(i.date, 4)
deserializeDatabaseInfo(s) ==
    [version |-> Version(s), compVer |-> Uint(SubSeq(s, 5, 8)), date |-> Uint(SubSeq(s, 9, 12)),
     upgradeStarted |-> Started(s)]

serializeBestChainState(b) ==
    b.hash \o PutUint(b.height, 4) \o PutUint(b.totalTxns, 8) \o PutUint(b.totalSubsidy, 8)
    \o PutUint(Len(b.workSum), 4) \o b.workSum
deserializeBestChainState(s) ==
    LET len == Uint(SubSeq(s, 53, 56))
    IN  IF Len(s) < 56 THEN [ok |-> FALSE]
        ELSE IF Len(s) - 56 < len THEN [ok |-> FALSE]
        ELSE [ok |-> TRUE,
              state |-> [hash |-> SubSeq(s, 1, 32), height |-> Uint(SubSeq(s, 33, 36)),
                         totalTxns |-> Uint(SubSeq(s, 37, 44)),
                         totalSubsidy |-> Uint(SubSeq(s, 45, 52)),
                         workSum |-> SubSeq(s, 57, 56 + len)]]

\* A database in which nothing has been written, and the one that the first
\* start leaves, in one transaction.
Missing == <<>>
NewDatabase == [info |-> Missing, chainState |-> Missing, hashIndex |-> <<>>, heightIndex |-> <<>>]
createChainState(genesis, now) ==
    dbPutBlockIndex(
        [NewDatabase EXCEPT
            !.info = serializeDatabaseInfo([version |-> currentDatabaseVersion,
                                            compVer |-> currentCompressionVersion, date |-> now,
                                            upgradeStarted |-> FALSE]),
            !.chainState = serializeBestChainState(genesis)], genesis.hash, genesis.height)

\* Whether a start creates the state, refuses the database or loads it.
initChainState(db) ==
    LET info == deserializeDatabaseInfo(db.info)
        best == deserializeBestChainState(db.chainState)
    IN  IF db.info = Missing THEN [st |-> "create"]
        ELSE IF \/ Len(db.info) < 12 \/ info.upgradeStarted
                \/ info.version > currentDatabaseVersion \/ info.compVer > currentCompressionVersion
        THEN [st |-> "refused"]
        ELSE IF db.chainState = Missing THEN [st |-> "create"]
        ELSE IF ~best.ok \/ ~dbMainChainHasBlock(db, best.state.hash) THEN [st |-> "refused"]
        ELSE [st |-> "loaded", state |-> best.state]

---------------------------------------------------------------------------
(* The ticket records (ticketdb). *)

serializeStakeInfo(i) == PutVersion(i.version, i.upgradeStarted) \o PutUint(i.date, 4)
deserializeStakeInfo(s) ==
    IF Len(s) < 8 THEN [ok |-> FALSE]
    ELSE [ok |-> TRUE, info |-> [version |-> Version(s), date |-> Uint(SubSeq(s, 5, 8)),
                                 upgradeStarted |-> Started(s)]]

minimumBestChainStateSize == 32 + 4 + 4 + 4 + 8 + 8 + 2
serializeStakeState(b) ==
    b.Hash \o PutUint(b.Height, 4) \o PutUint(b.KeyHeight, 4) \o PutUint(b.Live, 4)
    \o PutUint(b.Missed, 8) \o PutUint(b.Revoked, 8) \o PutUint(b.PerBlock, 2)
    \o FlattenSeq([i \in 1..b.PerBlock |->
          IF i \in DOMAIN b.NextWinners THEN b.NextWinners[i] ELSE Repeat(0, 32)])
deserializeStakeState(s) ==
    LET perBlock == Uint(SubSeq(s, 61, 62))
    IN  IF Len(s) < minimumBestChainStateSize THEN [ok |-> FALSE]
        ELSE [ok |-> TRUE,
              state |-> [Hash |-> SubSeq(s, 1, 32), Height |-> Uint(SubSeq(s, 33, 36)),
                         KeyHeight |-> Uint(SubSeq(s, 37, 40)), Live |-> Uint(SubSeq(s, 41, 44)),
                         Missed |-> Uint(SubSeq(s, 45, 52)), Revoked |-> Uint(SubSeq(s, 53, 60)),
                         PerBlock |-> perBlock,
                         NextWinners |-> [i \in 1..perBlock |->
                                             SubSeq(s, 31 + 32 * i, 62 + 32 * i)]]]

undoBitFlagsToByte(t) ==
    If(t.Missed, 1) + If(t.Revoked, 2) + If(t.Spent, 4) + If(t.Expired, 8)
undoBitFlagsFromByte(b) ==
    [Missed |-> Bit(b, 0), Revoked |-> Bit(b, 1), Spent |-> Bit(b, 2), Expired |-> Bit(b, 3)]

undoTicketDataSize == 41
serializeBlockUndoData(utds) ==
    FlattenSeq([i \in DOMAIN utds |->
        utds[i].TicketHash \o PutUint(utds[i].TicketHeight, 4) \o PutUint(utds[i].TicketKeyHeight, 4)
        \o <<undoBitFlagsToByte(utds[i].flags)>>])
deserializeBlockUndoData(s) ==
    IF Len(s) % undoTicketDataSize # 0 THEN [ok |-> FALSE]
    ELSE [ok |-> TRUE,
          utds |-> [i \in 1..(Len(s) \div undoTicketDataSize) |->
                      LET at == (i - 1) * undoTicketDataSize
                      IN  [TicketHash |-> SubSeq(s, at + 1, at + 32),
                           TicketHeight |-> Uint(SubSeq(s, at + 33, at + 36)),
                           TicketKeyHeight |-> Uint(SubSeq(s, at + 37, at + 40)),
                           flags |-> undoBitFlagsFromByte(s[at + 41])]]]

serializeTicketHashes(ths) == FlattenSeq(ths)
deserializeTicketHashes(s) ==
    IF Len(s) % 32 # 0 THEN [ok |-> FALSE]
    ELSE [ok |-> TRUE, ths |-> [i \in 1..(Len(s) \div 32) |-> SubSeq(s, 32 * i - 31, 32 * i)]]

\* A ticket of a bucket, and what loading the bucket makes of it.
DbPutTicket(bucket, t) ==
    Set(bucket, t.hash, PutUint(t.Height, 4) \o PutUint(t.KeyHeight, 4) \o <<undoBitFlagsToByte(t.flags)>>)
DbLoadAllTickets(bucket) ==
    IF \E h \in DOMAIN bucket : Len(bucket[h]) < 9 THEN [ok |-> FALSE]
    ELSE [ok |-> TRUE,
          tickets |-> {[hash |-> h, Height |-> Uint(SubSeq(bucket[h], 1, 4)),
                        KeyHeight |-> Uint(SubSeq(bucket[h], 5, 8)),
                        flags |-> undoBitFlagsFromByte(bucket[h][9])] : h \in DOMAIN bucket}]

---------------------------------------------------------------------------
(* The address index (indexers/addrindex.go): the entries of one address,  *)
(* oldest first, are kept in levels, each twice the size of the one below  *)
(* and the oldest entries in the highest.  <<>> is a level that is not in  *)
(* the bucket.                                                             *)

level0MaxEntries == 8
maxEntriesForLevel(level) == level0MaxEntries * 2^level
minEntriesToReachLevel(level) == 1 + level0MaxEntries * (2^level - 1)

\* The entry goes to level 0; when that is full, every full level moves up
\* by one, the highest of them into the first level with room.
dbPutAddrIndexEntry(levels, entry) ==
    IF Len(levels[0]) < level0MaxEntries THEN [levels EXCEPT ![0] = Append(@, entry)]
    ELSE LET room == Min({l \in DOMAIN levels \ {0} : Len(levels[l]) # maxEntriesForLevel(l)})
         IN  [l \in DOMAIN levels |->
                CASE l > room -> levels[l]
                  [] l = room -> levels[l] \o levels[l - 1]
                  [] l \in 1..(room - 1) -> levels[l - 1]
                  [] l = 0 -> <<entry>>]

\* The entries of the n lowest levels.
Lowest(levels, n) == FlattenSeq([i \in 1..n |-> levels[n - i]])
FirstEmpty(levels) == Min({l \in DOMAIN levels : levels[l] = <<>>})

\* Levels are read up to the first that is missing; counting from the newest
\* entry, only as many as the request takes.  The sum of the two numbers
\* stays below 2^32 here.
dbFetchAddrIndexEntries(levels, numToSkip, numRequested, reverse) ==
    LET end == FirstEmpty(levels)
        enough == {n \in 0..end : reverse /\ Len(Lowest(levels, n)) >= numToSkip + numRequested}
        read == Lowest(levels, Min(enough \union {end}))
        numEntries == Len(read)
        numToLoad == Min({numEntries - numToSkip, numRequested})
    IN  IF numToSkip >= numEntries THEN [results |-> <<>>, skipped |-> numEntries]
        ELSE [skipped |-> numToSkip,
              results |-> [i \in 1..numToLoad |->
                 IF reverse THEN read[numEntries - numToSkip - i + 1] ELSE read[numToSkip + i]]]

\* What is left of the highest level that was touched goes to the lowest
\* levels that may hold it: every level but 0 empty, half full or full.
RECURSIVE Squash(_, _, _), Spread(_, _, _, _), Backfill(_, _, _, _)
Squash(pending, level, rest) ==
    LET full == maxEntriesForLevel(level)
        minPrevRequired == minEntriesToReachLevel(level - 1)
        offset == IF Len(rest) < full \div 2 + minPrevRequired THEN 0
                  ELSE IF Len(rest) - full >= minPrevRequired THEN full ELSE full \div 2
    IN  IF level = 0 THEN [pending EXCEPT ![0] = rest]
        ELSE Squash([pending EXCEPT ![level] = SubSeq(rest, 1, offset)], level - 1, From(rest, offset + 1))

\* Half of the entries stay in each level on the way down to the lowest
\* empty one.
Spread(pending, level, lowestEmpty, rest) ==
    LET offset == maxEntriesForLevel(level) \div 2
    IN  IF level <= lowestEmpty THEN [pending EXCEPT ![level] = rest]
        ELSE Spread([pending EXCEPT ![level] = SubSeq(rest, 1, offset)], level - 1, lowestEmpty,
                    From(rest, offset + 1))

\* While the highest level that was touched is empty, the next one fills the
\* empty ones below it; one that is half full moves down as a whole.
Backfill(levels, pending, highest, lowestEmpty) ==
    LET next == highest + 1
        isFull == Len(levels[next]) = maxEntriesForLevel(next)
    IN  IF pending[highest] # <<>> \/ levels[next] = <<>> THEN pending
        ELSE Backfill(levels,
                      Spread([pending EXCEPT ![next] = <<>>], IF isFull THEN next ELSE highest,
                             lowestEmpty, levels[next]), next, next)

dbRemoveAddrIndexEntries(levels, count) ==
    LET held(level) == Len(Lowest(levels, level + 1))
        highest == Min({l \in DOMAIN levels : held(l) >= count})
        left == SubSeq(levels[highest], 1, held(highest) - count)
        removed == [l \in DOMAIN levels |-> IF l < highest THEN <<>> ELSE IF l = highest THEN left ELSE levels[l]]
        squashed == Squash(removed, highest, left)
        empty == {l \in 0..highest : squashed[l] = <<>>}
    IN  IF count <= 0 THEN [ok |-> TRUE, levels |-> levels]
        ELSE IF held(FirstEmpty(levels)) < count THEN [ok |-> FALSE, levels |-> levels]
        ELSE IF removed[0] # <<>> THEN [ok |-> TRUE, levels |-> removed]
        ELSE [ok |-> TRUE, levels |-> Backfill(levels, squashed, highest, Min(empty \union {255}))]

\* The addresses of a transaction in the order of its inputs and outputs.  A
\* script has the addresses it pays; the data outputs of a ticket commit to
\* one more.  An input whose entry the view lacks is left out.
Touched(script, isSStx) == IF isSStx /\ script.null THEN Append(script.addrs, script.commit) ELSE script.addrs
Addresses(tx, skipped, isSStx) ==
    FlattenSeq([k \in DOMAIN tx.ins |->
                  IF k <= skipped \/ ~tx.ins[k].known THEN <<>> ELSE Touched(tx.ins[k].script, tx.ins[k].ticket)])
    \o FlattenSeq([k \in DOMAIN tx.outs |-> Touched(tx.outs[k], isSStx)])

\* The last entry tells whether the address has the transaction already.
indexPkScript(data, addrs, txIdx) ==
    FoldLeft(LAMBDA d, a : IF d[a] # <<>> /\ Last(d[a]) = txIdx THEN d ELSE [d EXCEPT ![a] = Append(@, txIdx)],
             data, addrs)

\* The parent's regular transactions if the block approves them, then the
\* stake transactions; neither the coinbase nor a stakebase spends anything.
ParentRegular(block, parent) == IF block.approves /\ block.height > 1 THEN parent.regular ELSE <<>>
indexBlock(addresses, block, parent) ==
    LET regular == ParentRegular(block, parent)
        lists == [k \in DOMAIN regular |-> Addresses(regular[k], IF k = 1 THEN Len(regular[k].ins) ELSE 0, FALSE)]
                 \o [k \in DOMAIN block.stake |-> Addresses(block.stake[k], If(block.stake[k].vote, 1),
                                                            block.stake[k].ticket)]
    IN  FoldLeft(LAMBDA d, k : indexPkScript(d, lists[k], k), [a \in addresses |-> <<>>],
                 [k \in DOMAIN lists |-> k])

ConnectBlock(buckets, block, parent) ==
    LET data == indexBlock(DOMAIN buckets, block, parent)
        start == Len(ParentRegular(block, parent))
        location(k) == IF k <= start THEN <<parent.id, "regular", k>> ELSE <<block.id, "stake", k - start>>
    IN  [a \in DOMAIN buckets |->
            FoldLeft(LAMBDA levels, k : dbPutAddrIndexEntry(levels, location(k)), buckets[a], data[a])]

\* Whether every removal succeeded, and what it leaves.
DisconnectBlock(buckets, block, parent) ==
    LET data == indexBlock(DOMAIN buckets, block, parent)
        left == [a \in DOMAIN buckets |-> dbRemoveAddrIndexEntries(buckets[a], Len(data[a]))]
    IN  [ok |-> \A a \in DOMAIN left : left[a].ok, buckets |-> [a \in DOMAIN left |-> left[a].levels]]

\* The addresses of the transactions in the memory pool, in both directions;
\* {} is an entry that is not there.
AddUnconfirmedTx(maps, tx) ==
    LET addrs == Range(Addresses(tx, If(tx.vote, 1), tx.ticket))
    IN  [txnsByAddr |-> [a \in DOMAIN maps.txnsByAddr |->
                            maps.txnsByAddr[a] \union (IF a \in addrs THEN {tx.id} ELSE {})],
         addrsByTx |-> [maps.addrsByTx EXCEPT ![tx.id] = @ \union addrs]]
RemoveUnconfirmedTx(maps, hash) ==
    [txnsByAddr |-> [a \in DOMAIN maps.txnsByAddr |->
                        maps.txnsByAddr[a] \ (IF a \in maps.addrsByTx[hash] THEN {hash} ELSE {})],
     addrsByTx |-> [maps.addrsByTx EXCEPT ![hash] = {}]]

\* The exists address index (indexers/existsaddrindex.go): the addresses ever
\* seen, those stored and those of transactions in the memory pool.  It reads
\* the outputs and the keys of a multisig script that an input redeems.
UsedAddrs(tx) ==
    UNION {Range(tx.ins[k].redeem) : k \in DOMAIN tx.ins}
        \union UNION {Range(Touched(tx.outs[k], tx.ticket)) : k \in DOMAIN tx.outs}
addUnconfirmedTx(index, tx) == [index EXCEPT !.mpExistsAddr = @ \union UsedAddrs(tx)]

\* The addresses of the pool are taken over with those of the block.  They
\* leave the pool's map at once, whether the database transaction around the
\* call commits or not.
ExistsConnectBlock(index, block, parent, commits) ==
    LET txs == ParentRegular(block, parent) \o block.stake
        used == UNION {UsedAddrs(txs[k]) : k \in DOMAIN txs} \union index.mpExistsAddr
    IN  [mpExistsAddr |-> {}, stored |-> index.stored \union (IF commits THEN used ELSE {})]
ExistsAddress(index, a) == a \in index.stored \/ a \in index.mpExistsAddr

---------------------------------------------------------------------------
(* Properties of the encodings. *)

\* A number can be told from what follows it, and takes the bytes that were
\* reserved for it.
NumberSurvives(n, rest) ==
    /\ Len(putVLQ(n)) = serializeSizeVLQ(n)
    /\ deserializeVLQ(putVLQ(n) \o rest) = [n |-> n, size |-> serializeSizeVLQ(n)]

\* A script comes back, except the alternative pay-to-pubkey-hash scripts:
\* they keep their hash and become one of two types.
ScriptSurvives(s) ==
    /\ Len(putCompressedScript(s)) = compressedScriptSize(s)
    /\ decodeCompressedScriptSize(putCompressedScript(s)) = compressedScriptSize(s)
    /\ LET back == decompressScript(putCompressedScript(s))
       IN  IF isPubKeyHashAlt(s) THEN \E t \in {BSTypeBliss, LMSTypeLMS} : back = [s EXCEPT ![25] = t]
           ELSE back = s

\* What the database gives back is what was put there: every script as the
\* code that decompresses it leaves it.
SameOutput(o, p) ==
    /\ o.scriptVersion = p.scriptVersion /\ o.amount = p.amount
    /\ PkScript(p) = IF o.compressed THEN PkScript(o) ELSE decompressScript(putCompressedScript(o.pkScript))

\* An entry comes back with its unspent outputs and nothing else, takes the
\* bytes reserved for it, and is written again as it was read.
EntrySurvives(e) ==
    IF IsFullySpent(e) THEN serializeUtxoEntry(e) = <<>>
    ELSE \A bytes \in {serializeUtxoEntry(e)} :
         \A d \in {deserializeUtxoEntry(bytes)} :
             /\ Len(bytes) = utxoEntrySize(e) /\ d.ok
             /\ \A f \in {"version", "height", "index", "coinBase", "hasExpiry", "txType", "stakeExtra"} :
                   d.entry[f] = e[f]
             /\ DOMAIN d.entry.outputs = Unspent(e)
             /\ \A i \in Unspent(e) : SameOutput(e.outputs[i], d.entry.outputs[i])
             /\ deserializeUtxoEntry(serializeUtxoEntry(d.entry)) = d

\* A block's journal comes back in the order of its inputs, with all that
\* disconnecting the block needs: of an output that was not its transaction's
\* last, the output only.
JournalSurvives(stxos, txns) ==
    \A w \in {serializeSpendJournalEntry(stxos)} :
        /\ w.ok
        /\ Len(JournalInputs(txns)) = Len(stxos) =>
           \A d \in {deserializeSpendJournalEntry(w.bytes, txns)} :
           /\ d.ok /\ Len(d.stxos) = Len(stxos)
           /\ \A i \in DOMAIN stxos :
              /\ SameOutput(stxos[i], d.stxos[i])
              /\ \A f \in {"height", "index", "fullySpent"} : d.stxos[i][f] = stxos[i][f]
              /\ stxos[i].fullySpent =>
                    \A f \in {"coinBase", "hasExpiry", "txType", "txVersion", "stakeExtra"} :
                        d.stxos[i][f] = stxos[i][f]

\* The two indexes of the main chain are inverses of each other after any
\* reorganization, and a range of heights is that part of the chain.
IndexesInverse(db, old, new) ==
    LET removed == FoldLeft(LAMBDA d, h : dbRemoveBlockIndex(d, old[h], h), db, Reverse([i \in 1..Len(old) |-> i]))
        done == FoldLeft(LAMBDA d, h : dbPutBlockIndex(d, new[h], h), removed, [i \in 1..Len(new) |-> i])
    IN  /\ done.heightIndex = new
        /\ \A h \in DOMAIN new : done.hashIndex[new[h]] = h
        /\ \A x \in DOMAIN done.hashIndex : done.heightIndex[done.hashIndex[x]] = x
        /\ \A a, b \in 1..(Len(new) + 2) : a <= b => 
              HeightRange(done, Len(new), a, b) = SubSeq(new, a, IF b > Len(new) THEN Len(new) ELSE b - 1)

\* The levels hold the entries in order and without gaps, and what is fetched
\* from either end is that part of them.
LevelsHold(levels, entries) ==
    LET n == Len(entries)
        slice(skip, num) == SubSeq(entries, skip + 1, Min({n, skip + num}))
    IN  /\ Lowest(levels, FirstEmpty(levels)) = entries
        /\ \A l \in DOMAIN levels : l > FirstEmpty(levels) => levels[l] = <<>>
        /\ \A l \in DOMAIN levels \ {0} :
              Len(levels[l]) \in {0, maxEntriesForLevel(l) \div 2, maxEntriesForLevel(l)}
        /\ \A skip \in {0, 9, n}, num \in {0, 1, n} :
              /\ dbFetchAddrIndexEntries(levels, skip, num, FALSE)
                    = [results |-> slice(skip, num), skipped |-> Min({skip, n})]
              /\ dbFetchAddrIndexEntries(levels, skip, num, TRUE)
                    = [results |-> SubSeq(Reverse(entries), skip + 1, Min({n, skip + num})),
                       skipped |-> Min({skip, n})]

\* Blocks that add entries of an address and blocks whose disconnection takes
\* the newest ones away leave the levels as entries put one by one would be
\* read, in whatever order they come; taking more than there are is refused.
AddressLevels(put, taken, again) ==
    LET none == [l \in 0..6 |-> <<>>]
        added(levels, a, b) == FoldLeft(dbPutAddrIndexEntry, levels, [i \in 1..(b - a) |-> a + i])
        kept == put - taken
        oldest == [i \in 1..kept |-> i]
        newest == [i \in 1..again |-> put + i]
    IN  \A before \in {added(none, 0, put)} : \A removed \in {dbRemoveAddrIndexEntries(before, taken)} :
        /\ LevelsHold(before, [i \in 1..put |-> i])
        /\ removed.ok = (kept >= 0)
        /\ removed.ok =>
           \A after \in {added(removed.levels, put, put + again)} :
              /\ LevelsHold(removed.levels, oldest)
              /\ LevelsHold(after, oldest \o newest)
              /\ kept > 0 =>
                 LevelsHold(dbRemoveAddrIndexEntries(after, again + 1).levels, Front(oldest))

\* An address lists every transaction that pays it or spends from it, once
\* and in the order of the chain, whatever blocks were connected, and
\* disconnecting the last block takes away what it had added.
BlocksIndexed(addresses, chain) ==
    LET touches(tx, skipped, isSStx, a) == a \in Range(Addresses(tx, skipped, isSStx))
        parent(n) == chain[IF n = 1 THEN 1 ELSE n - 1]
        listed(n, a) ==
            LET r == ParentRegular(chain[n], parent(n))
                t == chain[n].stake
            IN  SelectSeq([k \in DOMAIN r |-> <<parent(n).id, "regular", k>>],
                          LAMBDA l : touches(r[l[3]], If(l[3] = 1, Len(r[l[3]].ins)), FALSE, a))
                \o SelectSeq([k \in DOMAIN t |-> <<chain[n].id, "stake", k>>],
                             LAMBDA l : touches(t[l[3]], If(t[l[3]].vote, 1), t[l[3]].ticket, a))
        upTo(n, a) == FlattenSeq([m \in 1..n |-> listed(m, a)])
        none == [a \in addresses |-> [l \in 0..4 |-> <<>>]]
        index[n \in 0..Len(chain)] ==
            IF n = 0 THEN none ELSE ConnectBlock(index[n - 1], chain[n], parent(n))
        holds(buckets, n) == \A a \in addresses : LevelsHold(buckets[a], upTo(n, a))
    IN  \A n \in 1..Len(chain) : \A back \in {DisconnectBlock(index[n], chain[n], parent(n))} :
            back.ok /\ \A m \in {n - 1, n} : holds(IF m = n THEN index[n] ELSE back.buckets, m)

\* The two maps of the unconfirmed transactions stay inverses of each other,
\* whatever is added twice or removed without having been there.
UnconfirmedSound(addresses, txs, steps) ==
    LET none == [txnsByAddr |-> [a \in addresses |-> {}], addrsByTx |-> [t \in DOMAIN txs |-> {}]]
        maps == FoldLeft(LAMBDA m, s : IF s.add THEN AddUnconfirmedTx(m, txs[s.tx]) ELSE RemoveUnconfirmedTx(m, s.tx),
                         none, steps)
        last(t) == SelectSeq(steps, LAMBDA s : s.tx = t)
        there(t) == last(t) # <<>> /\ Last(last(t)).add
    IN  \A t \in DOMAIN txs : \A a \in addresses :
            /\ t \in maps.txnsByAddr[a] <=> a \in maps.addrsByTx[t]
            /\ t \in maps.txnsByAddr[a] <=>
                  there(t) /\ a \in Range(Addresses(txs[t], If(txs[t].vote, 1), txs[t].ticket))

\* An address that exists goes on existing, disconnected blocks included, and
\* exists as soon as something pays it; only a block whose transaction rolls
\* back makes the index forget, and then only what the pool alone had shown.
ExistsSound(addresses, steps) ==
    LET empty == [mpExistsAddr |-> {}, stored |-> {}]
        after(x, s) == CASE s.is = "add" -> addUnconfirmedTx(x, s.tx)
                         [] s.is = "connect" -> ExistsConnectBlock(x, s.block, s.parent, TRUE)
                         [] s.is = "fail" -> ExistsConnectBlock(x, s.block, s.parent, FALSE)
        index[n \in 0..Len(steps)] == IF n = 0 THEN empty ELSE after(index[n - 1], steps[n])
        shown(s) == CASE s.is = "add" -> UsedAddrs(s.tx)
                      [] s.is = "connect" ->
                            UNION {UsedAddrs(s.block.stake[k]) : k \in DOMAIN s.block.stake}
                                \union UNION {UsedAddrs(t) : t \in Range(ParentRegular(s.block, s.parent))}
                      [] OTHER -> {}
        exists(n, a) == ExistsAddress(index[n], a)
    IN  \A n \in DOMAIN steps : \A a \in addresses :
            /\ a \in shown(steps[n]) => exists(n, a)
            /\ exists(n - 1, a) /\ ~exists(n, a) =>
                  /\ steps[n].is = "fail"
                  /\ ~ \E m \in 1..n : steps[m].is = "connect" /\ a \in shown(steps[m])
            /\ exists(n, a) => \E m \in 1..n : a \in shown(steps[m])
==============================================================================
