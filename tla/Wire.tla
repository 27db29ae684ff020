-------------------------------- MODULE Wire --------------------------------
(***************************************************************************)
(* The messages of the peer-to-peer protocol (wire): how each is written   *)
(* and read, and how large it may be.                                      *)
(*                                                                         *)
(* The bytes of a message are tokens with their width.  A layout is the    *)
(* list of the elements a BtcEncode writes or a BtcDecode reads, in their  *)
(* order; the two of a message are translated separately.  The entries of  *)
(* a list are all alike, so that lists of the greatest allowed length are  *)
(* no larger than others: a list is its length and its entry.  Likewise a  *)
(* string of bytes is its length and a name for its content.               *)
(***************************************************************************)
EXTENDS Integers, Sequences, SequencesExt, FiniteSetsExt

MaxMessagePayload == 1024 * 1024 * 32
MaxBlockPayload == 2048000
MaxVarIntPayload == 9
HashSize == 32
NoLimit == 2147483647

VarIntSerializeSize(n) == IF n < 253 THEN 1 ELSE IF n <= 65535 THEN 3 ELSE 5

\* The first byte of the encoding of n: n itself, or how many bytes follow.
WriteVarInt(n) == IF n < 253 THEN n ELSE IF n <= 65535 THEN 253 ELSE 254
\* Whether a first byte d followed by the value n is accepted.
ReadVarInt(d, n) ==
    CASE d = 255 -> FALSE       \* a value below 2^32 has a shorter encoding
      [] d = 254 -> n >= 65536
      [] d = 253 -> n \in 253..65535
      [] OTHER -> n = d

Element(w, v) == [k |-> "word", w |-> w, v |-> v]
VarInt(n) == [k |-> "varint", w |-> VarIntSerializeSize(n), v |-> n]
Chunk(b) == [k |-> "bytes", w |-> b.n, v |-> b]
SizeOf(toks) == FoldSeq(LAMBDA t, sum : t.w + sum, 0, toks)
Run(n, toks) == [k |-> "run", w |-> n * SizeOf(toks), v |-> toks]

NoEntry == [none |-> 0]
EmptyBytes == [n |-> 0, v |-> "none"]
EmptyList == [n |-> 0, e |-> NoEntry]

---------------------------------------------------------------------------
(* The elements of a layout: a word, bytes with their length, a list with  *)
(* its length, and those with a condition.                                 *)

El(f, w) == [k |-> "word", f |-> f, w |-> w]
VarBytes(f, max) == [k |-> "bytes", f |-> f, max |-> max]
ListOf(f, max, layout) == [k |-> "list", f |-> f, max |-> max, e |-> layout, room |-> f]
\* A list read into an array made for another one.
ListInRoomOf(f, max, layout, room) == [ListOf(f, max, layout) EXCEPT !.room = room]
\* The witness data of the inputs whose prefixes were read before.
WitnessOf(f, layout) == [k |-> "witness", f |-> f, max |-> NoLimit, e |-> layout]
ZeroCount == [k |-> "zero"]
IfMore(el) == [k |-> "more", e |-> el]
IfObject(el) == [k |-> "object", e |-> el]

Names(f) == f \in {"block", "tx"}

RECURSIVE Encode(_, _), EncodeEl(_, _)
Encode(layout, m) == FlattenSeq([i \in DOMAIN layout |-> EncodeEl(layout[i], m)])
EncodeEl(el, m) ==
    CASE el.k = "word" -> <<Element(el.w, m[el.f])>>
      [] el.k = "bytes" -> <<VarInt(m[el.f].n)>> \o IF m[el.f].n = 0 THEN <<>> ELSE <<Chunk(m[el.f])>>
      [] el.k \in {"list", "witness"} ->
            <<VarInt(m[el.f].n)>>
            \o IF m[el.f].n = 0 THEN <<>> ELSE <<Run(m[el.f].n, Encode(el.e, m[el.f].e))>>
      [] el.k = "zero" -> <<VarInt(0)>>
      [] el.k = "object" -> IF Names(m.Cmd.v) THEN EncodeEl(el.e, m) ELSE <<>>

\* The checks BtcEncode makes before it writes anything.
EncodeRefuses(layout, m) ==
    \E i \in DOMAIN layout : layout[i].k \in {"list", "bytes"} /\ m[layout[i].f].n > layout[i].max

\* What a decoder has read, and what is left.
Got(st, m, rest) == [st |-> st, m |-> m, rest |-> rest]

\* Two records joined; the fields of the second win.
Join(a, b) == [f \in DOMAIN a \union DOMAIN b |-> IF f \in DOMAIN b THEN b[f] ELSE a[f]]

RECURSIVE Decode(_, _, _), DecodeEl(_, _, _)
Decode(layout, m, toks) ==
    IF layout = <<>> THEN Got("ok", m, toks)
    ELSE LET g == DecodeEl(Head(layout), m, toks)
         IN  IF g.st # "ok" THEN g ELSE Decode(Tail(layout), g.m, g.rest)
DecodeEl(el, m, toks) ==
    LET refuse == Got("error", m, toks)
        put(v, rest) == Got("ok", Join(m, [f \in {el.f} |-> v]), rest)
        n == Head(toks).v
        room == IF el.room = el.f THEN n ELSE m[el.room].n
        entry(old) == Decode(el.e, old, toks[2].v)
    IN  IF el.k = "more" THEN IF toks = <<>> THEN Got("ok", m, toks) ELSE DecodeEl(el.e, m, toks)
        ELSE IF el.k = "object" THEN IF Names(m.Cmd.v) THEN DecodeEl(el.e, m, toks) ELSE Got("ok", m, toks)
        ELSE IF toks = <<>> THEN refuse
        ELSE IF el.k = "word"
        THEN IF Head(toks).k = "word" /\ Head(toks).w = el.w
             THEN put(Head(toks).v, Tail(toks)) ELSE refuse
        ELSE IF Head(toks).k # "varint" THEN refuse
        ELSE IF el.k = "zero" THEN IF n > 0 THEN refuse ELSE Got("ok", m, Tail(toks))
        ELSE IF el.k = "bytes"
        THEN IF n = 0 THEN put(EmptyBytes, Tail(toks))
             ELSE IF n > el.max \/ Len(toks) < 2 \/ toks[2].k # "bytes" \/ toks[2].w # n
             THEN refuse ELSE put(toks[2].v, SubSeq(toks, 3, Len(toks)))
        ELSE IF n > el.max \/ (el.k = "witness" /\ n # m[el.f].n) THEN refuse
        ELSE IF n = 0 THEN put(IF el.k = "list" THEN EmptyList ELSE m[el.f], Tail(toks))
        ELSE IF Len(toks) < 2 \/ toks[2].k # "run" THEN refuse
        ELSE LET g == entry(IF el.k = "list" THEN <<>> ELSE m[el.f].e)
             IN  IF g.st # "ok" THEN [g EXCEPT !.m = m]
                 ELSE IF el.k = "list" /\ n > room THEN Got("panic", m, toks)
                 ELSE put([n |-> n, e |-> g.m], SubSeq(toks, 3, Len(toks)))

---------------------------------------------------------------------------
(* The messages.  A message without a layout for decoding of its own reads *)
(* what it writes.                                                         *)

Message(encode, decode, max) == [enc |-> encode, dec |-> decode, max |-> max, since |-> 0]

readBlockHeader ==
    <<El("Version", 4), El("PrevBlock", 32), El("PrevKeyBlock", 32), El("MerkleRoot", 32),
      El("StakeRoot", 32), El("VoteBits", 2), El("FinalState", 6), El("Voters", 2),
      El("FreshStake", 1), El("Revocations", 1), El("PoolSize", 4), El("Bits", 4),
      El("SBits", 8), El("Height", 4), El("KeyHeight", 4), El("Size", 4), El("Timestamp", 4),
      El("ExtraData", 32), El("Nonce", 4), El("StakeVersion", 4)>>
writeBlockHeader ==
    <<El("Version", 4), El("PrevBlock", 32), El("PrevKeyBlock", 32), El("MerkleRoot", 32),
      El("StakeRoot", 32), El("VoteBits", 2), El("FinalState", 6), El("Voters", 2),
      El("FreshStake", 1), El("Revocations", 1), El("PoolSize", 4), El("Bits", 4),
      El("SBits", 8), El("Height", 4), El("KeyHeight", 4), El("Size", 4), El("Timestamp", 4),
      El("ExtraData", 32), El("Nonce", 4), El("StakeVersion", 4)>>
blockHeaderLen == 180 + 32 + 4

readNetAddress(ts) ==
    (IF ts THEN <<El("Timestamp", 4)>> ELSE <<>>) \o <<El("Services", 8), El("IP", 16), El("Port", 2)>>
writeNetAddress(ts) ==
    (IF ts THEN <<El("Timestamp", 4)>> ELSE <<>>) \o <<El("Services", 8), El("IP", 16), El("Port", 2)>>
maxNetAddressPayload == 26 + 4
readInvVect == <<El("Type", 4), El("Hash", 32)>>
writeInvVect == <<El("Type", 4), El("Hash", 32)>>
maxInvVectPayload == 4 + HashSize

MaxAddrPerMsg == 1000
MaxInvPerMsg == 50000
MaxBlockLocatorsPerMsg == 500
MaxBlockHeadersPerMsg == 2000
MaxMSBlocksAtHeadPerMsg == 8
MaxMSVotesAtHeadPerMsg == 40
MaxFilterAddDataSize == 520
MaxFilterLoadFilterSize == 36000
MaxUserAgentLen == 256
minTxPayload == 4 + 1 + 1 + 1 + 4 + 4
MaxTxPerTxTree == ((MaxBlockPayload \div minTxPayload) \div 2) + 1
maxFlagsPerMerkleBlock == (MaxTxPerTxTree \div 8) + 1
maxTxInPerMessage == (MaxMessagePayload \div (11 + HashSize)) + 1
maxTxOutPerMessage == (MaxMessagePayload \div 9) + 1

MsgAddr ==
    Message(<<ListOf("AddrList", MaxAddrPerMsg, writeNetAddress(TRUE))>>,
            <<ListOf("AddrList", MaxAddrPerMsg, readNetAddress(TRUE))>>,
            MaxVarIntPayload + MaxAddrPerMsg * maxNetAddressPayload)

InvMessage ==
    Message(<<ListOf("InvList", MaxInvPerMsg, writeInvVect)>>,
            <<ListOf("InvList", MaxInvPerMsg, readInvVect)>>,
            MaxVarIntPayload + MaxInvPerMsg * maxInvVectPayload)
MsgInv == InvMessage
MsgGetData == InvMessage
MsgNotFound == InvMessage

LocatorLayout ==
    <<El("ProtocolVersion", 4), ListOf("BlockLocatorHashes", MaxBlockLocatorsPerMsg, <<El("Hash", 32)>>),
      El("HashStop", 32)>>
MsgGetBlocks ==
    Message(LocatorLayout, LocatorLayout,
            4 + MaxVarIntPayload + MaxBlockLocatorsPerMsg * HashSize + HashSize)
MsgGetHeaders == MsgGetBlocks

MsgHeaders ==
    Message(<<ListOf("Headers", MaxBlockHeadersPerMsg, Append(writeBlockHeader, ZeroCount))>>,
            <<ListOf("Headers", MaxBlockHeadersPerMsg, Append(readBlockHeader, ZeroCount))>>,
            MaxVarIntPayload + (84 + 4 + HashSize * 4 + 1) * MaxBlockHeadersPerMsg)

MiningStateLayout ==
    <<El("Version", 4), El("Height", 4),
      ListOf("BlockHashes", MaxMSBlocksAtHeadPerMsg, <<El("Hash", 32)>>),
      ListOf("VoteHashes", MaxMSVotesAtHeadPerMsg, <<El("Hash", 32)>>)>>
MsgMiningState ==
    Message(MiningStateLayout, MiningStateLayout,
            4 + 4 + MaxVarIntPayload + MaxMSBlocksAtHeadPerMsg * HashSize
                  + MaxVarIntPayload + MaxMSVotesAtHeadPerMsg * HashSize)

MsgFilterAdd ==
    Message(<<VarBytes("Data", MaxFilterAddDataSize)>>, <<VarBytes("Data", MaxFilterAddDataSize)>>,
            VarIntSerializeSize(MaxFilterAddDataSize) + MaxFilterAddDataSize)
FilterLoadLayout ==
    <<VarBytes("Filter", MaxFilterLoadFilterSize), El("HashFuncs", 4), El("Tweak", 4), El("Flags", 1)>>
MsgFilterLoad ==
    Message(FilterLoadLayout, FilterLoadLayout,
            VarIntSerializeSize(MaxFilterLoadFilterSize) + MaxFilterLoadFilterSize + 9)

MsgPing == Message(<<El("Nonce", 8)>>, <<El("Nonce", 8)>>, 8)
MsgPong == Message(<<El("Nonce", 8)>>, <<El("Nonce", 8)>>, 8)
MsgFeeFilter == [Message(<<El("MinFee", 8)>>, <<El("MinFee", 8)>>, 8) EXCEPT !.since = 1]
MsgSendHeaders == [Message(<<>>, <<>>, 0) EXCEPT !.since = 1]
MsgVerAck == Message(<<>>, <<>>, 0)
MsgGetAddr == Message(<<>>, <<>>, 0)
MsgMemPool == Message(<<>>, <<>>, 0)
MsgGetMiningState == Message(<<>>, <<>>, 0)
MsgFilterClear == Message(<<>>, <<>>, 0)

\* The string of a reject is read up to the size of a message.
MsgReject ==
    Message(<<VarBytes("Cmd", NoLimit), El("Code", 1), VarBytes("Reason", NoLimit),
              IfObject(El("Hash", 32))>>,
            <<VarBytes("Cmd", MaxMessagePayload), El("Code", 1),
              VarBytes("Reason", MaxMessagePayload), IfObject(El("Hash", 32))>>,
            MaxMessagePayload)

\* The fields of the two addresses of a version message, by name.
AddressAt(p, layout) == [i \in DOMAIN layout |-> [layout[i] EXCEPT !.f = p \o @]]
MsgVersion ==
    Message(<<El("ProtocolVersion", 4), El("Services", 8), El("Timestamp", 8)>>
            \o AddressAt("You", writeNetAddress(FALSE)) \o AddressAt("Me", writeNetAddress(FALSE))
            \o <<El("Nonce", 8), VarBytes("UserAgent", MaxUserAgentLen), El("LastBlock", 4),
                 El("LastKeyBlock", 4), El("RelayTx", 1)>>,
            <<El("ProtocolVersion", 4), El("Services", 8), El("Timestamp", 8)>>
            \o AddressAt("You", readNetAddress(FALSE))
            \o [i \in 1..3 |-> IfMore(AddressAt("Me", readNetAddress(FALSE))[i])]
            \o <<IfMore(El("Nonce", 8)), IfMore(VarBytes("UserAgent", MaxUserAgentLen)),
                 IfMore(El("LastBlock", 4)), IfMore(El("LastKeyBlock", 4)), IfMore(El("RelayTx", 1))>>,
            33 + maxNetAddressPayload * 2 + MaxVarIntPayload + MaxUserAgentLen)

\* The array for the hashes of the stake transactions is made as long as the
\* one for the hashes of the others (msgmerkleblock.go:117).
MsgMerkleBlock ==
    Message(writeBlockHeader
            \o <<El("Transactions", 4), ListOf("Hashes", MaxTxPerTxTree, <<El("Hash", 32)>>),
                 El("STransactions", 4), ListOf("SHashes", MaxTxPerTxTree, <<El("Hash", 32)>>),
                 VarBytes("Flags", maxFlagsPerMerkleBlock)>>,
            readBlockHeader
            \o <<El("Transactions", 4), ListOf("Hashes", MaxTxPerTxTree, <<El("Hash", 32)>>),
                 El("STransactions", 4),
                 ListInRoomOf("SHashes", MaxTxPerTxTree, <<El("Hash", 32)>>, "Hashes"),
                 VarBytes("Flags", maxFlagsPerMerkleBlock)>>,
            MaxBlockPayload)

---------------------------------------------------------------------------
(* Transactions and blocks *)

SerTypes == {"Full", "NoWitness", "OnlyWitness", "WitnessSigning", "WitnessValueSigning"}

WriteOutPoint == <<El("Hash", 32), El("Index", 4), El("Tree", 1)>>
ReadOutPoint == <<El("Hash", 32), El("Index", 4), El("Tree", 1)>>
writeTxInPrefix == Append(WriteOutPoint, El("Sequence", 4))
readTxInPrefix == Append(ReadOutPoint, El("Sequence", 4))
writeTxInWitness ==
    <<El("ValueIn", 8), El("BlockHeight", 4), El("BlockIndex", 4), VarBytes("SignatureScript", NoLimit)>>
readTxInWitness ==
    <<El("ValueIn", 8), El("BlockHeight", 4), El("BlockIndex", 4),
      VarBytes("SignatureScript", MaxMessagePayload)>>
writeTxInWitnessSigning == <<VarBytes("SignatureScript", NoLimit)>>
readTxInWitnessSigning == <<VarBytes("SignatureScript", MaxMessagePayload)>>
writeTxInWitnessValueSigning == <<El("ValueIn", 8), VarBytes("SignatureScript", NoLimit)>>
readTxInWitnessValueSigning == <<El("ValueIn", 8), VarBytes("SignatureScript", MaxMessagePayload)>>
writeTxOut == <<El("Value", 8), El("Version", 2), VarBytes("PkScript", NoLimit)>>
readTxOut == <<El("Value", 8), El("Version", 2), VarBytes("PkScript", MaxMessagePayload)>>

encodePrefix ==
    <<ListOf("TxIn", NoLimit, writeTxInPrefix), ListOf("TxOut", NoLimit, writeTxOut),
      El("LockTime", 4), El("Expiry", 4)>>
decodePrefix ==
    <<ListOf("TxIn", maxTxInPerMessage, readTxInPrefix),
      ListOf("TxOut", maxTxOutPerMessage, readTxOut), El("LockTime", 4), El("Expiry", 4)>>

\* The version and the type of the serialization share the first word.
txEncode(ser) ==
    <<El("VersionSer", 4)>> \o
    CASE ser = "NoWitness" -> encodePrefix
      [] ser = "OnlyWitness" -> <<ListOf("TxIn", NoLimit, writeTxInWitness)>>
      [] ser = "WitnessSigning" -> <<ListOf("TxIn", NoLimit, writeTxInWitnessSigning)>>
      [] ser = "WitnessValueSigning" -> <<ListOf("TxIn", NoLimit, writeTxInWitnessValueSigning)>>
      [] ser = "Full" -> Append(encodePrefix, WitnessOf("TxIn", writeTxInWitness))

txDecode(ser) ==
    <<El("VersionSer", 4)>> \o
    CASE ser = "NoWitness" -> decodePrefix
      [] ser = "OnlyWitness" -> <<ListOf("TxIn", maxTxInPerMessage, readTxInWitness)>>
      [] ser = "WitnessSigning" -> <<ListOf("TxIn", maxTxInPerMessage, readTxInWitnessSigning)>>
      [] ser = "WitnessValueSigning" ->
            <<ListOf("TxIn", maxTxInPerMessage, readTxInWitnessValueSigning)>>
      [] ser = "Full" -> Append(decodePrefix, WitnessOf("TxIn", readTxInWitness))

MsgTx == Message(txEncode("Full"), txDecode("Full"), MaxBlockPayload)

ScriptSize(b) == VarIntSerializeSize(b.n) + b.n
SerializeSizePrefix == 41
SerializeSizeWitness(in) == 8 + 4 + 4 + ScriptSize(in.SignatureScript)
SerializeSizeOut(out) == 8 + 2 + ScriptSize(out.PkScript)

\* MsgTx.SerializeSize
SerializeSize(ser, tx) ==
    LET ins == tx.TxIn.n
        outs == tx.TxOut.n
        perIn(size) == IF ins = 0 THEN 0 ELSE ins * size
        perOut == IF outs = 0 THEN 0 ELSE outs * SerializeSizeOut(tx.TxOut.e)
    IN  CASE ser = "NoWitness" ->
                12 + VarIntSerializeSize(ins) + VarIntSerializeSize(outs)
                   + perIn(SerializeSizePrefix) + perOut
          [] ser = "OnlyWitness" ->
                4 + VarIntSerializeSize(ins) + perIn(SerializeSizeWitness(tx.TxIn.e))
          [] ser = "WitnessSigning" ->
                4 + VarIntSerializeSize(ins) + perIn(ScriptSize(tx.TxIn.e.SignatureScript))
          [] ser = "WitnessValueSigning" ->
                4 + VarIntSerializeSize(ins) + perIn(8 + ScriptSize(tx.TxIn.e.SignatureScript))
          [] ser = "Full" ->
                12 + VarIntSerializeSize(ins) + VarIntSerializeSize(ins) + VarIntSerializeSize(outs)
                   + perIn(SerializeSizePrefix) + perIn(SerializeSizeWitness(tx.TxIn.e)) + perOut

\* Where the public key script of output i (from 0) starts.
PkScriptLoc(tx, i) ==
    4 + VarIntSerializeSize(tx.TxIn.n) + VarIntSerializeSize(tx.TxOut.n)
      + tx.TxIn.n * SerializeSizePrefix
      + (i + 1) * (8 + 2 + VarIntSerializeSize(tx.TxOut.e.PkScript.n)) + i * tx.TxOut.e.PkScript.n

MsgBlock ==
    Message(writeBlockHeader \o <<ListOf("Transactions", NoLimit, txEncode("Full")),
                                  ListOf("STransactions", NoLimit, txEncode("Full"))>>,
            readBlockHeader \o <<ListOf("Transactions", MaxTxPerTxTree, txDecode("Full")),
                                 ListOf("STransactions", MaxTxPerTxTree, txDecode("Full"))>>,
            MaxBlockPayload)

blockSerializeSize(b) ==
    LET txs(l) == IF l.n = 0 THEN 0 ELSE l.n * SerializeSize("Full", l.e)
    IN  blockHeaderLen + VarIntSerializeSize(b.Transactions.n) + VarIntSerializeSize(b.STransactions.n)
           + txs(b.Transactions) + txs(b.STransactions)

\* DeserializeTxLoc: the start of transaction i (from 0) of the regular tree.
TxStart(b, i) ==
    blockHeaderLen + VarIntSerializeSize(b.Transactions.n) + i * SerializeSize("Full", b.Transactions.e)

---------------------------------------------------------------------------
(* Alerts *)

maxAlertSize == MaxMessagePayload - 72 - MaxVarIntPayload - 1
maxCountSetCancel == (maxAlertSize - 45 - MaxVarIntPayload + 1) \div 4
maxCountSetSubVer == (maxAlertSize - 45 - MaxVarIntPayload + 1) \div 256

AlertLayout(max) ==
    <<El("Version", 4), El("RelayUntil", 8), El("Expiration", 8), El("ID", 4), El("Cancel", 4),
      ListOf("SetCancel", maxCountSetCancel, <<El("ID", 4)>>), El("MinVer", 4), El("MaxVer", 4),
      ListOf("SetSubVer", maxCountSetSubVer, <<VarBytes("Ver", max)>>), El("Priority", 4),
      VarBytes("Comment", max), VarBytes("StatusBar", max), VarBytes("Reserved", max)>>
Alert == Message(AlertLayout(NoLimit), AlertLayout(MaxMessagePayload), maxAlertSize)

MsgAlert ==
    Message(<<VarBytes("SerializedPayload", NoLimit), VarBytes("Signature", NoLimit)>>,
            <<VarBytes("SerializedPayload", MaxMessagePayload), VarBytes("Signature", MaxMessagePayload)>>,
            MaxMessagePayload)

---------------------------------------------------------------------------
(* Frames: a header of 24 bytes with the network, the command, the length  *)
(* and the checksum of the payload, and the payload.                       *)

makeEmptyMessage ==
    [ c \in {"version", "verack", "getaddr", "addr", "getblocks", "inv", "getdata", "notfound",
             "block", "tx", "getheaders", "headers", "ping", "pong", "alert", "mempool",
             "miningstate", "getminings", "filteradd", "filterclear", "filterload",
             "merkleblock", "reject", "sendheaders", "feefilter"} |->
      CASE c = "version" -> MsgVersion [] c = "verack" -> MsgVerAck [] c = "getaddr" -> MsgGetAddr
        [] c = "addr" -> MsgAddr [] c = "getblocks" -> MsgGetBlocks [] c = "inv" -> MsgInv
        [] c = "getdata" -> MsgGetData [] c = "notfound" -> MsgNotFound [] c = "block" -> MsgBlock
        [] c = "tx" -> MsgTx [] c = "getheaders" -> MsgGetHeaders [] c = "headers" -> MsgHeaders
        [] c = "ping" -> MsgPing [] c = "pong" -> MsgPong [] c = "alert" -> MsgAlert
        [] c = "mempool" -> MsgMemPool [] c = "miningstate" -> MsgMiningState
        [] c = "getminings" -> MsgGetMiningState [] c = "filteradd" -> MsgFilterAdd
        [] c = "filterclear" -> MsgFilterClear [] c = "filterload" -> MsgFilterLoad
        [] c = "merkleblock" -> MsgMerkleBlock [] c = "reject" -> MsgReject
        [] c = "sendheaders" -> MsgSendHeaders [] c = "feefilter" -> MsgFeeFilter ]

\* External: the checksum of a payload.
Checksum(toks) == SizeOf(toks) % 251

Header(magic, cmd, len, sum) == [k |-> "header", w |-> 24, v |-> <<magic, cmd, len, sum>>]

\* The tokens of the frame, or none if the message is refused.
WriteMessageN(cmd, m, pver, net) ==
    LET msg == makeEmptyMessage[cmd]
        payload == Encode(msg.enc, m)
        size == SizeOf(payload)
    IN  IF pver < msg.since \/ EncodeRefuses(msg.enc, m)
           \/ (cmd = "alert" /\ m.SerializedPayload.n = 0)
           \/ size > MaxMessagePayload \/ size > msg.max
        THEN <<>>
        ELSE <<Header(net, cmd, size, Checksum(payload))>> \o payload

\* The tokens after the first n bytes; none if n ends within one.
RECURSIVE discardInput(_, _)
discardInput(toks, n) ==
    IF n <= 0 \/ toks = <<>> THEN IF n < 0 THEN <<>> ELSE toks
    ELSE discardInput(Tail(toks), n - Head(toks).w)

ReadMessageN(stream, pver, net) ==
    LET hdr == Head(stream).v
        rest == Tail(stream)
        len == hdr[3]
        after == discardInput(rest, len)
        payload == SubSeq(rest, 1, Len(rest) - Len(after))
        msg == makeEmptyMessage[hdr[2]]
    IN  IF len > MaxMessagePayload THEN Got("error", <<>>, rest)
        ELSE IF hdr[1] # net \/ hdr[2] \notin DOMAIN makeEmptyMessage
        THEN Got("error", <<>>, after)
        ELSE IF len > msg.max \/ SizeOf(payload) < len \/ Checksum(payload) # hdr[4]
                \/ pver < msg.since
        THEN Got("error", <<>>, after)
        ELSE [Decode(msg.dec, <<>>, payload) EXCEPT !.rest = after]

---------------------------------------------------------------------------
(* Properties, of one message m of the type cmd *)

MerklePanics(cmd, m) == cmd = "merkleblock" /\ m.SHashes.n > m.Hashes.n

\* Whatever a node can send, its peer with the same protocol version reads
\* back as it was, and the rest of the stream with it; a message with as many
\* entries as its AddX operations allow is never too large to be sent.  A
\* filtered block with more stake transactions than others cannot be read.
MessagesSurvive(cmd, m, pver, next) ==
    \A frame \in {WriteMessageN(cmd, m, pver, 1)} :
        /\ frame # <<>> =>
              \A got \in {ReadMessageN(frame \o next, pver, 1)} :
                 IF MerklePanics(cmd, m) THEN got.st = "panic"
                 ELSE got.st = "ok" /\ got.m = m /\ got.rest = next
        /\ (pver >= 1 /\ cmd \notin {"block", "tx", "merkleblock", "reject", "alert"}
              /\ ~EncodeRefuses(makeEmptyMessage[cmd].enc, m)) => frame # <<>>

\* Every number has exactly one encoding that is accepted (common.go:477).
VarIntCanonical(n) ==
    \A d \in {0, 1, 252, 253, 254, 255} : ReadVarInt(d, n) => WriteVarInt(n) = d

\* A frame that is refused does not spoil the ones behind it, unless it claims
\* more than MaxMessagePayload (message.go:299 returns without discarding).
RefusalsSkipped(frame, next) ==
    \A got \in {ReadMessageN(frame \o next, 1, 1)} :
        got.st = "error" /\ Head(frame).v[3] <= MaxMessagePayload => got.rest = next

\* The sizes and positions the code computes without encoding are those of the
\* encoding (msgtx.go:1174 and 1265, msgblock.go:315 and 172).
SizesExact(tx) ==
    /\ \A ser \in SerTypes : SerializeSize(ser, tx) = SizeOf(Encode(txEncode(ser), tx))
    /\ tx.TxOut.n > 0 =>
          \A i \in {0, tx.TxOut.n - 1} :
             LET enc == Encode(txEncode("Full"), tx)
                 outs == CHOOSE j \in DOMAIN enc :
                            enc[j].k = "run" /\ enc[j].v = Encode(writeTxOut, tx.TxOut.e)
             IN  PkScriptLoc(tx, i) =
                    SizeOf(SubSeq(enc, 1, outs - 1))
                    + i * SizeOf(Encode(writeTxOut, tx.TxOut.e))
                    + SizeOf(Encode(writeTxOut, tx.TxOut.e)) - tx.TxOut.e.PkScript.n
    /\ Encode(txEncode("NoWitness"), tx) =
          Encode(txEncode("NoWitness"),
                 IF tx.TxIn.n = 0 THEN tx
                 ELSE [tx EXCEPT !.TxIn.e.SignatureScript = EmptyBytes, !.TxIn.e.ValueIn = 0])
=============================================================================
