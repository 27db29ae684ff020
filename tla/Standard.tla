----------------------------- MODULE Standard -----------------------------
(***************************************************************************)
(* The standard output scripts (txscript/standard.go): how they are built  *)
(* from addresses, classified and taken apart, and how an input that       *)
(* spends one is signed by several holders of keys one after the other     *)
(* (txscript/sign.go).                                                     *)
(*                                                                         *)
(* A script is the sequence of its parsed opcodes: op its name, i the      *)
(* value of a small integer, d the data it pushes, a record with its       *)
(* length n and what it stands for: a key (t = "key"), a hash of a key or  *)
(* of a script, a signature of a script by a key, a script.                *)
(***************************************************************************)
EXTENDS Integers, Sequences, FiniteSets, SequencesExt

NoData == [n |-> 0, t |-> "none"]
Op(o) == [op |-> o, i |-> 0, d |-> NoData]
AddInt64(k) == IF k = 0 THEN Op("0") ELSE [Op("N") EXCEPT !.i = k]

\* A push of data in its canonical form.
AddData(d) ==
    IF d.n = 0 THEN Op("0")
    ELSE [Op(IF d.n < 76 THEN "DATA" ELSE "PUSHDATA") EXCEPT !.d = d]

\* The serialized length of a script.
OpLen(p) == 1 + p.d.n + (IF p.op # "PUSHDATA" THEN 0 ELSE IF p.d.n < 256 THEN 1 ELSE 2)
RECURSIVE ScriptLen(_)
ScriptLen(pops) == IF pops = <<>> THEN 0 ELSE OpLen(Head(pops)) + ScriptLen(Tail(pops))

Ops(pops) == [k \in DOMAIN pops |-> pops[k].op]

\* The hashes and signatures: a hash tells what was hashed, a signature
\* which key signed which script.
KeyHash(k) == [n |-> 20, t |-> "pkh", key |-> k]
ScriptHash(s) == [n |-> 20, t |-> "sh", script |-> s]
ScriptData(s) == [n |-> ScriptLen(s), t |-> "script", script |-> s]

StakeTags == {"SSTX", "SSGEN", "SSRTX", "SSTXCHANGE"}
DefaultScriptVersion == 0

---------------------------------------------------------------------------
(* Classes *)

PubKeyOps == <<"DUP", "HASH160", "DATA", "EQUALVERIFY">>
KeyLens == {33, 65}

isPubkey(pops) == Len(pops) = 2 /\ pops[1].d.n \in KeyLens /\ pops[2].op = "CHECKSIG"

isOneByteMaxDataPush(p) == p.op = "N" \/ (p.op = "DATA" /\ p.d.n \in 1..16)

isPubkeyAlt(pops) ==
    /\ Len(pops) = 3
    /\ pops[1].d.n < 512 /\ isOneByteMaxDataPush(pops[2]) /\ pops[3].op = "CHECKSIGALT"

isPubkeyHash(pops) ==
    Ops(pops) = PubKeyOps \o <<"CHECKSIG">> /\ pops[3].d.n = 20

isPubkeyHashAlt(pops) ==
    /\ Len(pops) = 6 /\ Ops(SubSeq(pops, 1, 4)) = PubKeyOps /\ pops[3].d.n = 20
    /\ isOneByteMaxDataPush(pops[5]) /\ pops[6].op = "CHECKSIGALT"

isScriptHash(pops) == Ops(pops) = <<"HASH160", "DATA", "EQUAL">> /\ pops[2].d.n = 20

isSmallInt(p) == p.op \in {"0", "N"}

isMultiSig(pops) ==
    LET l == Len(pops)
    IN  /\ l >= 4
        /\ isSmallInt(pops[1]) /\ isSmallInt(pops[l - 1]) /\ pops[l].op = "CHECKMULTISIG"
        /\ l - 3 = pops[l - 1].i
        /\ \A k \in 2..(l - 2) : pops[k].d.n \in KeyLens

IsMultisigSigScript(pops) ==
    /\ pops # <<>> /\ Last(pops).d.t = "script"
    /\ isMultiSig(Last(pops).d.script)

MaxDataCarrierSize == 256
isNullData(pops) ==
    \/ Ops(pops) = <<"RETURN">>
    \/ /\ Len(pops) = 2 /\ pops[1].op = "RETURN"
       /\ pops[2].op \in {"0", "DATA", "PUSHDATA"} /\ pops[2].d.n <= MaxDataCarrierSize

\* The four classes of outputs with a stake tag in front.
Tagged(tag, pops) ==
    pops # <<>> /\ pops[1].op = tag /\ (isPubkeyHash(Tail(pops)) \/ isScriptHash(Tail(pops)))
isStakeSubmission(pops) == Tagged("SSTX", pops)
isStakeGen(pops) == Tagged("SSGEN", pops)
isStakeRevocation(pops) == Tagged("SSRTX", pops)
isSStxChange(pops) == Tagged("SSTXCHANGE", pops)

typeOfScript(pops) ==
    IF isPubkey(pops) THEN "PubKey" ELSE IF isPubkeyAlt(pops) THEN "PubkeyAlt"
    ELSE IF isPubkeyHash(pops) THEN "PubKeyHash" ELSE IF isPubkeyHashAlt(pops) THEN "PubkeyHashAlt"
    ELSE IF isScriptHash(pops) THEN "ScriptHash" ELSE IF isMultiSig(pops) THEN "MultiSig"
    ELSE IF isNullData(pops) THEN "NullData" ELSE IF isStakeSubmission(pops) THEN "StakeSubmission"
    ELSE IF isStakeGen(pops) THEN "StakeGen" ELSE IF isStakeRevocation(pops) THEN "StakeRevocation"
    ELSE IF isSStxChange(pops) THEN "StakeSubChange" ELSE "NonStandard"

GetScriptClass(version, pops) ==
    IF version # DefaultScriptVersion THEN "NonStandard" ELSE typeOfScript(pops)

StakeClasses == {"StakeSubmission", "StakeGen", "StakeRevocation", "StakeSubChange"}
IsStakeOutput(pops) == typeOfScript(pops) \in StakeClasses

GetStakeOutSubclass(pops) ==
    IF ~IsStakeOutput(pops) THEN "error"
    ELSE typeOfScript(SelectSeq(pops, LAMBDA p : p.op \notin StakeTags))

getStakeOutSubscript(pops) == Tail(pops)

ContainsStakeOpCodes(pops) == \E k \in DOMAIN pops : pops[k].op \in StakeTags

expectedInputs(pops, class, subclass) ==
    CASE class \in {"PubKey", "ScriptHash"} -> 1
      [] class = "PubKeyHash" -> 2
      [] class \in StakeClasses -> IF subclass = "PubKeyHash" THEN 2 ELSE 1
      [] class = "MultiSig" -> pops[1].i
      [] OTHER -> -1

\* What an input needs and what its signature script gives, under BIP 16.
CalcScriptInfo(sigPops, pops) ==
    LET class == typeOfScript(pops)
        subClass == IF class \in StakeClasses THEN GetStakeOutSubclass(pops) ELSE "none"
        own == expectedInputs(pops, class, subClass)
        redeem == Last(sigPops).d.script
        inner == expectedInputs(redeem, typeOfScript(redeem), "none")
    IN  [class |-> class, numInputs |-> Len(sigPops),
         expected |-> IF "ScriptHash" \notin {class, subClass} THEN own
                      ELSE IF inner = -1 THEN -1 ELSE own + inner]

CalcMultiSigStats(pops) ==
    IF Len(pops) < 4 THEN <<>> ELSE <<pops[Len(pops) - 1].i, pops[1].i>>

---------------------------------------------------------------------------
(* Addresses: the kind, the signature suite (0 secp256k1, 1 edwards, 2     *)
(* schnorr, 4 bliss, 5 lms) and the key or the hash it stands for.         *)

secp == 0
bliss == 4
AltSuites == {1, 2, 4, 5}
Address(kind, dsa, d) == [kind |-> kind, dsa |-> dsa, d |-> d]

payToPubKeyHashScript(h) ==
    <<Op("DUP"), Op("HASH160"), AddData(h), Op("EQUALVERIFY"), Op("CHECKSIG")>>
payToPubKeyHashAltScript(h, suite) ==
    <<Op("DUP"), Op("HASH160"), AddData(h), Op("EQUALVERIFY"), AddInt64(suite), Op("CHECKSIGALT")>>
payToScriptHashScript(h) == <<Op("HASH160"), AddData(h), Op("EQUAL")>>
payToPubKeyScript(k) == <<AddData(k), Op("CHECKSIG")>>
payToPubKeyAltScript(k, suite) == <<AddData(k), AddInt64(suite), Op("CHECKSIGALT")>>

PayToAddrScript(a) ==
    CASE a.kind = "PubKeyHash" /\ a.dsa = secp -> payToPubKeyHashScript(a.d)
      [] a.kind = "PubKeyHash" /\ a.dsa # secp -> payToPubKeyHashAltScript(a.d, a.dsa)
      [] a.kind = "ScriptHash" -> payToScriptHashScript(a.d)
      [] a.kind = "PubKey" /\ a.dsa = secp -> payToPubKeyScript(a.d)
      [] a.kind = "PubKey" /\ a.dsa # secp -> payToPubKeyAltScript(a.d, a.dsa)

\* The outputs with a stake tag.  An address of a bliss or lms key gives
\* the tag of votes and the key in the place of a hash, whatever was asked
\* for; the other addresses are refused.
StakeScript(tag, a) ==
    CASE a.kind = "PubKeyHash" /\ a.dsa = secp -> <<Op(tag)>> \o payToPubKeyHashScript(a.d)
      [] a.kind = "ScriptHash" -> <<Op(tag)>> \o payToScriptHashScript(a.d)
      [] a.kind = "PubKey" /\ a.dsa >= bliss ->
            <<Op("SSGEN"), Op("DUP"), Op("HASH160"), AddData(a.d), Op("EQUALVERIFY"),
              AddInt64(a.dsa), Op("CHECKSIG")>>
      [] OTHER -> <<>>
PayToSStx(a) == StakeScript("SSTX", a)
PayToSStxChange(a) == StakeScript("SSTXCHANGE", a)
PayToSSGen(a) == StakeScript("SSGEN", a)
PayToSSRtx(a) == StakeScript("SSRTX", a)

MultiSigScript(keys, nrequired) ==
    <<AddInt64(nrequired)>> \o [k \in DOMAIN keys |-> AddData(keys[k])]
        \o <<AddInt64(Len(keys)), Op("CHECKMULTISIG")>>

extractOneBytePush(p) ==
    IF ~isOneByteMaxDataPush(p) THEN -1 ELSE IF p.op = "N" THEN p.i ELSE p.d.first

ExtractPkScriptAltSigType(pops) ==
    LET val == extractOneBytePush(pops[IF isPubkeyHashAlt(pops) THEN 5 ELSE 2])
    IN  IF ~isPubkeyAlt(pops) /\ ~isPubkeyHashAlt(pops) THEN -1
        ELSE IF val \in AltSuites THEN val ELSE -1

\* The class, the addresses and the number of signatures of a script.  A
\* key that does not parse gives no address.
ParsePubKey(d) == d.t = "key" /\ d.valid
SecpAddress(d) == Address("PubKey", secp, [d EXCEPT !.n = 33])

RECURSIVE ExtractPkScriptAddrs(_)
ExtractPkScriptAddrs(pops) ==
    LET class == typeOfScript(pops)
        suite == ExtractPkScriptAltSigType(pops)
        info(addrs, req) == [class |-> class, addrs |-> addrs, required |-> req]
        inner == ExtractPkScriptAddrs(getStakeOutSubscript(pops))
        keys == SelectSeq(SubSeq(pops, 2, Len(pops) - 2), LAMBDA p : ParsePubKey(p.d))
    IN  CASE class = "PubKeyHash" -> info(<<Address("PubKeyHash", secp, pops[3].d)>>, 1)
          [] class = "PubkeyHashAlt" ->
                info(IF suite = -1 THEN <<>> ELSE <<Address("PubKeyHash", suite, pops[3].d)>>, 1)
          [] class = "PubKey" ->
                info(IF ParsePubKey(pops[1].d) THEN <<SecpAddress(pops[1].d)>> ELSE <<>>, 1)
          [] class = "PubkeyAlt" ->
                info(IF suite \in AltSuites /\ ParsePubKey(pops[1].d)
                     THEN <<Address("PubKey", suite, pops[1].d)>> ELSE <<>>, 1)
          [] class \in StakeClasses -> info(inner.addrs, inner.required)
          [] class = "ScriptHash" -> info(<<Address("ScriptHash", secp, pops[2].d)>>, 1)
          [] class = "MultiSig" ->
                info([k \in DOMAIN keys |-> SecpAddress(keys[k].d)], pops[1].i)
          [] OTHER -> info(<<>>, 0)

---------------------------------------------------------------------------
(* Signing.  A holder has a set of keys and a set of scripts it knows.     *)

Done(s) == [r |-> "ok", script |-> s]
Refused == [r |-> "error", script |-> <<>>]
Panic == [r |-> "panic", script |-> <<>>]

Sig(key, sub) == [n |-> 71, t |-> "sig", key |-> key.id, sub |-> sub]
RawTxInSignature(sub, key) == AddData(Sig(key, sub))

\* The key of an address, or of the hash in one.
KeyOf(a) == IF a.kind = "PubKey" THEN a.d ELSE a.d.key
HasKey(holder, a) == (a.kind = "PubKey" \/ a.d.t = "pkh") /\ KeyOf(a).id \in holder.keys
GetScript(holder, a) == {s \in holder.scripts : a.d = ScriptHash(s)}

SignatureScript(sub, key) == <<RawTxInSignature(sub, key), AddData(key)>>
p2pkSignatureScript(sub, key) == <<RawTxInSignature(sub, key)>>

signMultiSig(sub, addrs, nRequired, holder) ==
    LET mine == SelectSeq(addrs, LAMBDA a : HasKey(holder, a))
        some == SubSeq(mine, 1, IF Len(mine) < nRequired THEN Len(mine) ELSE nRequired)
    IN  [k \in DOMAIN some |-> RawTxInSignature(sub, KeyOf(some[k]))]

\* The outputs of one address: with a key, or with the hash of a script,
\* whose signature script is the script itself until it is signed in turn.
signWithKey(addrs, holder, Script(_)) ==
    IF addrs = <<>> THEN Panic
    ELSE IF HasKey(holder, addrs[1]) THEN Done(Script(KeyOf(addrs[1]))) ELSE Refused
signWithScript(addrs, holder) ==
    IF GetScript(holder, addrs[1]) = {} THEN Refused
    ELSE Done(CHOOSE s \in GetScript(holder, addrs[1]) : TRUE)

handleStakeOutSign(sub, holder, addrs, subClass) ==
    CASE subClass = "PubKeyHash" ->
            signWithKey(addrs, holder, LAMBDA key : SignatureScript(sub, key))
      [] subClass = "ScriptHash" -> signWithScript(addrs, holder)
      [] OTHER -> Refused

signClass(sub, holder, x) ==
    CASE x.class \in {"PubKey", "PubkeyAlt"} ->
            signWithKey(x.addrs, holder, LAMBDA key : p2pkSignatureScript(sub, key))
      [] x.class \in {"PubKeyHash", "PubkeyHashAlt"} ->
            signWithKey(x.addrs, holder, LAMBDA key : SignatureScript(sub, key))
      [] x.class = "ScriptHash" -> signWithScript(x.addrs, holder)
      [] x.class = "MultiSig" -> Done(signMultiSig(sub, x.addrs, x.required, holder))
      [] x.class \in StakeClasses ->
            handleStakeOutSign(sub, holder, x.addrs, GetStakeOutSubclass(sub))
      [] OTHER -> Refused

sign(sub, holder) == signClass(sub, holder, ExtractPkScriptAddrs(sub))

\* The signatures of both scripts, each filed under the first address whose
\* key made it, in the order of the addresses and filled up with OP_0.
Made(d, a, pops) == d.t = "sig" /\ d.key = KeyOf(a).id /\ d.sub = pops

\* Mutant: the signatures in the order in which they were made.
mergeBySigner(pops, addrs, nRequired, sigPops, prevPops) ==
    LET sigs == SelectSeq(prevPops \o sigPops,
                          LAMBDA p : \E k \in DOMAIN addrs : Made(p.d, addrs[k], pops))
        some == SubSeq(sigs, 1, IF Len(sigs) < nRequired THEN Len(sigs) ELSE nRequired)
    IN  IF sigPops = <<>> THEN prevPops ELSE IF prevPops = <<>> THEN sigPops
        ELSE some \o [k \in 1..(nRequired - Len(some)) |-> Op("0")]

mergeMultiSig(pops, addrs, nRequired, sigPops, prevPops) ==
    LET made(a) == SelectSeq(sigPops \o prevPops, LAMBDA p : Made(p.d, a, pops))
        signed == SelectSeq(addrs, LAMBDA a : made(a) # <<>>)
        some == SubSeq(signed, 1, IF Len(signed) < nRequired THEN Len(signed) ELSE nRequired)
    IN  IF sigPops = <<>> THEN prevPops ELSE IF prevPops = <<>> THEN sigPops
        ELSE [k \in DOMAIN some |-> made(some[k])[1]]
                \o [k \in 1..(nRequired - Len(some)) |-> Op("0")]

RECURSIVE mergeScripts(_, _, _, _, _, _)
mergeScripts(pops, class, addrs, nRequired, sigPops, prevPops) ==
    LET script == Last(sigPops).d.script
        x == ExtractPkScriptAddrs(script)
    IN  CASE class = "ScriptHash" ->
                IF sigPops = <<>> THEN prevPops ELSE IF prevPops = <<>> THEN sigPops
                ELSE mergeScripts(script, x.class, x.addrs, x.required, sigPops, prevPops)
                        \o <<AddData(ScriptData(script))>>
          [] class = "MultiSig" -> mergeMultiSig(pops, addrs, nRequired, sigPops, prevPops)
          [] OTHER -> IF ScriptLen(sigPops) > ScriptLen(prevPops) THEN sigPops ELSE prevPops

SignTxOutputAs(pops, holder, previous, x, class) ==
    LET whole(first, second) ==
            IF class = "ScriptHash"
            THEN Append(second.script, AddData(ScriptData(first.script))) ELSE second.script
        merged(first, second) ==
            IF second.r # "ok" THEN second
            ELSE Done(mergeScripts(pops, class, x.addrs, x.required, whole(first, second), previous))
        then(first) ==
            IF first.r # "ok" THEN first
            ELSE merged(first, IF class = "ScriptHash" THEN sign(first.script, holder) ELSE first)
    IN  then(sign(pops, holder))

SignTxOutput(pops, holder, previous) ==
    LET signed(x) ==
            SignTxOutputAs(pops, holder, previous, x,
                           IF x.class \in StakeClasses THEN GetStakeOutSubclass(pops) ELSE x.class)
    IN  signed(ExtractPkScriptAddrs(pops))

---------------------------------------------------------------------------
(* What a signature covers (txscript/script.go).  A hash stands for what   *)
(* was hashed; <<>> is the error of a type Single without an output of the *)
(* input's index.  cachedPrefix is <<>> or the hash of the transaction.    *)

SigHashOld == 0
SigHashAll == 1
SigHashNone == 2
SigHashSingle == 3
SigHashAllValue == 4
SigHashAnyOneCanPay == 128

TxHash(tx) == [ins |-> [k \in DOMAIN tx.ins |-> <<tx.ins[k].prev, tx.ins[k].sequence>>], outs |-> tx.outs]
TxHashWitness(tx, withValue) ==
    [k \in DOMAIN tx.ins |-> IF withValue THEN <<tx.ins[k].value, tx.ins[k].script>> ELSE <<tx.ins[k].script>>]

calcSignatureHash(script, hashType, tx, idx, cachedPrefix) ==
    LET base == hashType % 32
        alone == hashType >= SigHashAnyOneCanPay
        code == SelectSeq(script, LAMBDA p : p.op # "CODESEPARATOR")
        ins == [k \in DOMAIN tx.ins |->
                   [tx.ins[k] EXCEPT !.script = IF k = idx THEN code ELSE <<>>,
                                     !.sequence = IF base \in {SigHashNone, SigHashSingle} /\ k # idx
                                                  THEN 0 ELSE @]]
        outs == CASE base = SigHashNone -> <<>>
                  [] base = SigHashSingle ->
                        [k \in 1..idx |-> IF k = idx THEN tx.outs[k]
                                          ELSE [tx.outs[k] EXCEPT !.value = -1, !.pk = <<>>]]
                  [] OTHER -> tx.outs
        copy == [ins |-> IF alone THEN <<ins[idx]>> ELSE ins, outs |-> outs]
    IN  IF base = SigHashSingle /\ idx > Len(tx.outs) THEN <<>>
        ELSE <<hashType,
               IF cachedPrefix # <<>> /\ base = SigHashAll /\ ~alone THEN cachedPrefix[1] ELSE TxHash(copy),
               TxHashWitness(copy, base = SigHashAllValue)>>

---------------------------------------------------------------------------
(* What is relayed (mempool/policy.go). *)

maxStandardP2SHSigOps == 15
maxStandardTxSize == 100000
maxStandardSigScriptSize == 4096
maxStandardMultiSigKeys == 3
maxNullDataOutputs == 4
MaxMultiSigKeys == 20
TypicalInputSize == 165

isPushOnly(pops) == \A k \in DOMAIN pops : pops[k].op \in {"0", "N", "DATA", "PUSHDATA"}

getSigOpCount(pops, precise) ==
    LET ops(k) == CASE pops[k].op \in {"CHECKSIG", "CHECKSIGALT"} -> 1
                    [] pops[k].op = "CHECKMULTISIG" ->
                          IF precise /\ k > 1 /\ pops[k - 1].op = "N" THEN pops[k - 1].i ELSE MaxMultiSigKeys
                    [] OTHER -> 0
    IN  FoldFunction(LAMBDA x, y : x + y, 0, [k \in DOMAIN pops |-> ops(k)])

\* With BIP 16 the operations are those of the script that is pushed last.
GetPreciseSigOpCount(sigPops, pops) ==
    IF ~isScriptHash(pops) THEN getSigOpCount(pops, TRUE)
    ELSE IF ~isPushOnly(sigPops) \/ sigPops = <<>> \/ Last(sigPops).d.t # "script" THEN 0
    ELSE getSigOpCount(Last(sigPops).d.script, TRUE)

checkInputsStandard(ins, isVote) ==
    \A k \in DOMAIN ins : ~(k = 1 /\ isVote) =>
        LET class == GetScriptClass(ins[k].version, ins[k].pk)
        IN  /\ class # "NonStandard"
            /\ class = "ScriptHash" => GetPreciseSigOpCount(ins[k].sig, ins[k].pk) <= maxStandardP2SHSigOps

checkPkScriptStandard(version, pops, class) ==
    /\ version = DefaultScriptVersion /\ class # "NonStandard"
    /\ class = "MultiSig" =>
          LET stats == CalcMultiSigStats(pops)
          IN  stats # <<>> /\ stats[1] \in 1..maxStandardMultiSigKeys /\ stats[2] \in 1..stats[1]

IsUnspendable(amount, pops) == amount = 0 \/ (pops # <<>> /\ pops[1].op = "RETURN")

\* The size of the output and of the input that is to spend it, against the
\* fee for a thousand bytes.
SpendSize(pops) == 8 + 2 + (IF ScriptLen(pops) < 253 THEN 1 ELSE 3) + ScriptLen(pops) + TypicalInputSize
isDust(out, minRelayTxFee) ==
    \/ IsUnspendable(out.value, out.pk)
    \/ (out.value * 1000) \div (3 * SpendSize(out.pk)) < minRelayTxFee

\* The answer for the first output that fails.
OutputsStandard(outs, regular, minRelayTxFee) ==
    LET class(k) == GetScriptClass(outs[k].version, outs[k].pk)
        answer(k) == IF ~checkPkScriptStandard(outs[k].version, outs[k].pk, class(k)) THEN "nonstandard"
                     ELSE IF class(k) # "NullData" /\ regular /\ isDust(outs[k], minRelayTxFee) THEN "dust"
                     ELSE "ok"
        bad == SelectSeq([k \in DOMAIN outs |-> answer(k)], LAMBDA a : a # "ok")
    IN  IF bad # <<>> THEN bad[1]
        ELSE IF regular /\ Cardinality({k \in DOMAIN outs : class(k) = "NullData"}) > maxNullDataOutputs
        THEN "nonstandard" ELSE "ok"

checkTransactionStandard(tx, minRelayTxFee, maxTxVersion) ==
    IF /\ tx.serType = "full" /\ tx.version \in 1..maxTxVersion /\ tx.final /\ tx.size <= maxStandardTxSize
       /\ \A k \in DOMAIN tx.ins :
             ScriptLen(tx.ins[k].sig) <= maxStandardSigScriptSize /\ isPushOnly(tx.ins[k].sig)
    THEN OutputsStandard(tx.outs, tx.regular, minRelayTxFee) ELSE "nonstandard"

---------------------------------------------------------------------------
(* Reference: what the script machine accepts for a standard output.       *)

\* Signatures of distinct places of the list of keys, in its order.
SignedInOrder(sub, keys, sigs) ==
    \E f \in [DOMAIN sigs -> DOMAIN keys] :
        /\ \A j, k \in DOMAIN sigs : j < k => f[j] < f[k]
        /\ \A k \in DOMAIN sigs : sigs[k].d.t = "sig" /\ sigs[k].d.sub = sub
                                  /\ sigs[k].d.key = keys[f[k]].d.id

RECURSIVE Accepts(_, _, _)
Accepts(pops, sub, sigPops) ==
    LET class == typeOfScript(pops)
        signs(d, id) == d.t = "sig" /\ d.sub = sub /\ d.key = id
    IN  CASE class = "PubKey" -> Len(sigPops) = 1 /\ signs(sigPops[1].d, pops[1].d.id)
          [] class = "PubkeyAlt" -> Len(sigPops) = 1 /\ signs(sigPops[1].d, pops[1].d.id)
          [] class \in {"PubKeyHash", "PubkeyHashAlt"} ->
                /\ Len(sigPops) = 2 /\ sigPops[2].d.t = "key"
                /\ KeyHash(sigPops[2].d) = pops[3].d /\ signs(sigPops[1].d, sigPops[2].d.id)
          [] class = "ScriptHash" ->
                /\ sigPops # <<>> /\ Last(sigPops).d.t = "script"
                /\ ScriptHash(Last(sigPops).d.script) = pops[2].d
                /\ Accepts(Last(sigPops).d.script, Last(sigPops).d.script, Front(sigPops))
          [] class = "MultiSig" ->
                /\ Len(sigPops) = pops[1].i
                /\ SignedInOrder(sub, SubSeq(pops, 2, Len(pops) - 2), sigPops)
          [] class \in StakeClasses -> Accepts(Tail(pops), sub, sigPops)
          [] OTHER -> FALSE

\* The holders sign one after the other, each on top of what the others
\* left; a refusal leaves it as it was.
RECURSIVE SignedBy(_, _, _)
SignedBy(pops, holders, script) ==
    IF holders = <<>> THEN script
    ELSE LET left(r) == IF r.r = "ok" THEN r.script ELSE script
         IN  SignedBy(pops, Tail(holders), left(SignTxOutput(pops, Head(holders), script)))

\* The script that says who has to sign.
Signable(pops) ==
    LET inner == IF IsStakeOutput(pops) THEN Tail(pops) ELSE pops
    IN  IF isScriptHash(inner) THEN inner[2].d.script ELSE inner

\* An input is spendable exactly when the holders who know its script have
\* the keys it asks for between them, in whatever order they signed, and a
\* spendable input has the number of pushes the relay rules expect.
SigningSound(pops, holders, final, accepted) ==
    LET x == ExtractPkScriptAddrs(Signable(pops))
        able == {k \in DOMAIN holders :
                    Signable(pops) \in holders[k].scripts \union {pops, Tail(pops)}}
        held == {a \in DOMAIN x.addrs : \E k \in able : HasKey(holders[k], x.addrs[a])}
    IN  /\ accepted <=> Cardinality(held) >= x.required
        /\ accepted /\ x.addrs[1].dsa = secp =>
             \A info \in {CalcScriptInfo(final, pops)} : info.numInputs = info.expected
        /\ isMultiSig(Signable(pops)) =>
             /\ CalcMultiSigStats(Signable(pops))[2] = x.required
             /\ accepted => IsMultisigSigScript(final) = (pops # Signable(pops))

\* Two transactions that a signature of a type cannot tell apart agree in what
\* the type covers: the inputs or one of them, their sequences, their amounts,
\* the outputs, the one at the input's index with the versions of those before
\* it, or none.  The hash the machine keeps from an earlier input is the one
\* it would compute.
SignatureCovers(hashType, tx, other, idx) ==
    LET base == hashType % 32
        alone == hashType >= SigHashAnyOneCanPay
        own == base \in {SigHashNone, SigHashSingle}
        same(f, only) == /\ tx.ins[idx][f] = other.ins[idx][f]
                         /\ ~only => \A k \in DOMAIN tx.ins : tx.ins[k][f] = other.ins[k][f]
        hash(t, cached) == calcSignatureHash(<<Op("CHECKSIG")>>, hashType, t, idx, cached)
        covered == /\ alone \/ Len(tx.ins) = Len(other.ins)
                   /\ same("prev", alone) /\ same("sequence", alone \/ own)
                   /\ base = SigHashAllValue => same("value", alone)
                   /\ CASE base = SigHashNone -> TRUE
                        [] base = SigHashSingle ->
                              /\ tx.outs[idx] = other.outs[idx]
                              /\ \A k \in 1..idx : tx.outs[k].version = other.outs[k].version
                        [] OTHER -> tx.outs = other.outs
    IN  \A mine \in {hash(tx, <<>>)}, its \in {hash(other, <<>>)} :
        /\ mine = <<>> <=> base = SigHashSingle /\ idx > Len(tx.outs)
        /\ mine # <<>> /\ its # <<>> => (mine = its <=> covered)
        /\ hash(tx, <<TxHash(tx)>>) = mine

\* What the holders can spend is relayed: the input that the script machine
\* accepts is standard, and so is an output of that kind, unless it is worth
\* less than a third of the fee for spending it.
RelaySound(pops, final, values, minRelayTxFee, counts) ==
    \A value \in values, nulls \in counts, regular \in BOOLEAN :
        LET in == [sig |-> final, version |-> DefaultScriptVersion, pk |-> pops]
            data == [version |-> DefaultScriptVersion, pk |-> <<Op("RETURN")>>, value |-> 0]
            paid == [data EXCEPT !.pk = pops, !.value = value]
            outs == <<paid>> \o [k \in 1..nulls |-> data]
            tx == [serType |-> "full", version |-> 1, final |-> TRUE, size |-> 300, ins |-> <<in>>,
                   outs |-> outs, regular |-> regular]
        IN  /\ checkInputsStandard(<<in>>, FALSE)
            /\ checkTransactionStandard(tx, minRelayTxFee, 1)
                 = IF ~regular THEN "ok"
                   ELSE IF value * 1000 < 3 * SpendSize(pops) * minRelayTxFee THEN "dust"
                   ELSE IF nulls > maxNullDataOutputs THEN "nonstandard" ELSE "ok"

\* What a wallet can sign, and what the others relay of it.
SpendingSound(pops, holders, values, minRelayTxFee, counts) ==
    \A final \in {SignedBy(pops, holders, <<>>)} :
    \A accepted \in {Accepts(pops, pops, final)} :
        /\ SigningSound(pops, holders, final, accepted)
        /\ accepted => RelaySound(pops, final, values, minRelayTxFee, counts)

\* An address comes back from the output that pays it, plain or tagged.
AddressSound(a) ==
    LET back(pops, class) == ExtractPkScriptAddrs(pops) = [class |-> class, addrs |-> <<a>>,
                                                           required |-> 1]
        plain == CASE a.kind = "ScriptHash" -> "ScriptHash"
                   [] a.kind = "PubKey" /\ a.dsa = secp -> "PubKey"
                   [] a.kind = "PubKey" /\ a.dsa # secp -> "PubkeyAlt"
                   [] a.kind = "PubKeyHash" /\ a.dsa = secp -> "PubKeyHash"
                   [] OTHER -> "PubkeyHashAlt"
    IN  /\ back(PayToAddrScript(a), plain) /\ ~ContainsStakeOpCodes(PayToAddrScript(a))
        /\ a.dsa = secp /\ a.kind # "PubKey" =>
             /\ back(PayToSStx(a), "StakeSubmission") /\ back(PayToSStxChange(a), "StakeSubChange")
             /\ back(PayToSSGen(a), "StakeGen") /\ back(PayToSSRtx(a), "StakeRevocation")
             /\ GetStakeOutSubclass(PayToSSGen(a)) = plain
=============================================================================
