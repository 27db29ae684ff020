---------------------------- MODULE ScriptEngine ----------------------------
(***************************************************************************)
(* The script engine (txscript/engine.go, script.go and the control and    *)
(* signature opcodes of opcode.go): parsing, conditional execution, the    *)
(* limits, pay-to-script-hash, and signatures.                             *)
(*                                                                         *)
(* Scripts are bytes.  A behaviour has a table of opcodes of its own, one  *)
(* for each value of a byte: the 256 entries of opcodeArray do not fit     *)
(* into the small bytes of the model.  An entry has the name, the length   *)
(* (the length of the opcode with its data; -1 if a byte with the length   *)
(* of the data follows) and the value of a small integer opcode.           *)
(* Hash functions, keys and the verification of a signature are external.  *)
(***************************************************************************)
EXTENDS ScriptStack

CONSTANTS
    MaxStackSize,           \* maxStackSize, 1024
    MaxOpsPerScript,        \* 255
    MaxPubKeysPerMultiSig,  \* 20
    maxScriptSize,          \* 16384
    AltLen, AltIdx,         \* 26 and 24: where parseAltScriptTemplate looks
    MaxSmallInt, MaxDirect, \* 16, and 75 bytes: a push without a length byte
    HashLen,                \* bytes of a script hash, 20
    KeyLen, LongKeyLen,     \* bytes of a public key, 33 and 65
    SeqTag, IntTag,         \* 0x30 and 0x02, the markers of a DER signature
    MinSigLen, MaxSigLen,   \* 8 and 72
    AltKeyLen,              \* bytes of a key, by type of signature
    AltSigLen,              \* bytes of a signature, 65
    Tx                      \* the transaction: version, lockTime, sequence,
                            \* threshold, and single: the index has an output

ASSUME ScriptEngineAssumption ==
    /\ {MaxStackSize, MaxOpsPerScript, MaxPubKeysPerMultiSig, maxScriptSize} \subseteq Nat
    /\ {AltLen, AltIdx, HashLen, KeyLen, LongKeyLen} \subseteq Nat \ {0}

VARIABLES
    table,      \* the opcodes of this behaviour
    scripts,    \* the bytes of the signature script and the public key script
    vm          \* the machine

engineVars == <<table, scripts, vm>>

---------------------------------------------------------------------------
(* Parsing: a parsed opcode is an entry of the table and the slice of its  *)
(* data.  The data of an opcode shares the buffer of the script.           *)

\* Position 24 of a script of 26 bytes: a push of up to 16 bytes is read as
\* the small integer opcode of its length.
AltRead(entry, script, i) ==
    IF Len(script) = AltLen /\ i = AltIdx /\ entry.len \in 2..17
    THEN [op |-> "N", len |-> 1, val |-> entry.len - 1]
    ELSE entry

\* The opcodes of a slice of a buffer, or an unfinished one marked "SHORT".
parseScript(tbl, script, slice) ==
    LET end == Len(script)
        from[i \in 1..(end + 1)] ==
            IF i > end THEN <<>>
            ELSE LET e == AltRead(tbl[script[i]], script, i)
                     dlen == IF e.len > 0 THEN e.len - 1
                             ELSE IF i = end THEN end ELSE script[i + 1]
                     start == IF e.len > 0 THEN i + 1 ELSE i + 2
                     s == [b |-> slice.b, o |-> slice.o + start - 1, n |-> dlen]
                 IN  IF start + dlen - 1 > end
                     THEN <<[e |-> [e EXCEPT !.op = "SHORT"], s |-> slice]>>
                     ELSE <<[e |-> e, s |-> s]>> \o from[start + dlen]
    IN  from[1]

Parses(pops) == \A i \in DOMAIN pops : pops[i].e.op # "SHORT"

\* parsedOpcode.bytes
popBytes(tbl, m, pop) ==
    <<CHOOSE b \in 0..(Radix - 1) : tbl[b] = pop.e>>
    \o (IF pop.e.len > 0 THEN <<>> ELSE <<pop.s.n>>) \o Bytes(m, pop.s)

unparseScript(tbl, m, pops) ==
    FlattenSeq([i \in DOMAIN pops |-> popBytes(tbl, m, pops[i])])

IsPush(pop) == pop.e.op \in {"FALSE", "DATA", "1NEGATE", "N", "RESERVED"}
isPushOnly(pops) == \A i \in DOMAIN pops : IsPush(pops[i])

StakeOps == {"SSTX", "SSGEN", "SSRTX", "SSTXCHANGE"}

isScriptHash(pops) ==
    /\ [i \in DOMAIN pops |-> pops[i].e.op] = <<"HASH160", "DATA", "EQUAL">>
    /\ pops[2].s.n = HashLen

isAnyKindOfScriptHash(pops) ==
    isScriptHash(pops) \/ (pops # <<>> /\ pops[1].e.op \in StakeOps /\ isScriptHash(Tail(pops)))

\* The last push of the signature script may not hold stake opcodes.
HasP2SHScriptSigStakeOpCodes(tbl, m, sig, pk) ==
    /\ Parses(pk) /\ isAnyKindOfScriptHash(pk)
    /\ LET pushed == SelectSeq(sig, LAMBDA p : p.e.op \in {"DATA", "FALSE"})
           last == pushed[Len(pushed)].s
           inner == parseScript(tbl, Bytes(m, last), last)
       IN  \/ ~Parses(sig) \/ pushed = <<>> \/ ~Parses(inner)
           \/ \E i \in DOMAIN inner : inner[i].e.op \in StakeOps

---------------------------------------------------------------------------
(* Signatures *)

Strict(m) == "StrictEncoding" \in m.flags
AnyEncodingFlag(m) == m.flags \intersect {"StrictEncoding", "DERSignatures", "LowS"} # {}

\* The type without AnyOneCanPay, the top bit, is All, None or Single.
checkHashTypeEncoding(m, ht) == Strict(m) => ht % SignBit \in 1..3

checkPubKeyEncoding(m, key) ==
    Strict(m) => \/ Len(key) = KeyLen /\ key[1] \in {2, 3}
                 \/ Len(key) = LongKeyLen /\ key[1] = 4

\* The checks in the order of the code, with positions counted from 0 as
\* there; "panic" if one reads past the end.
derCheck(sig) ==
    LET at(i) == sig[i + 1]
        n == Len(sig)
        rLen == at(3)
        sLen == at(rLen + 5)
    IN  IF n < MinSigLen \/ n > MaxSigLen \/ at(0) # SeqTag \/ at(1) # n - 2
           \/ rLen + 5 > n THEN "error"
        ELSE IF rLen + 5 >= n THEN "panic"
        ELSE IF \/ rLen + sLen + 6 # n \/ at(2) # IntTag \/ rLen = 0
                \/ at(4) >= SignBit
                \/ rLen > 1 /\ at(4) = 0 /\ at(5) < SignBit
                \/ at(rLen + 4) # IntTag \/ sLen = 0
                \/ at(rLen + 6) >= SignBit
                \/ sLen > 1 /\ at(rLen + 6) = 0 /\ at(rLen + 7) < SignBit
        THEN "error" ELSE "ok"

\* LowS: half of the group order is an external number; a first byte of S of
\* at least half of the sign bit stands for a larger S.
checkSignatureEncoding(m, sig) ==
    IF ~AnyEncodingFlag(m) THEN "ok"
    ELSE IF derCheck(sig) = "ok" /\ "LowS" \in m.flags /\ sig[sig[4] + 7] >= SignBit \div 2
    THEN "error" ELSE derCheck(sig)

\* External: a key is the byte 2 and its name, a signature of the key with
\* the name k has k for its R.  Everything else does not parse.
ParsePubKey(key) == Len(key) = KeyLen /\ key[1] = 2
ParseSignature(sig) == Len(sig) = MinSigLen /\ derCheck(sig) = "ok"
Verify(key, sig) == sig[5] = key[2]

\* calcSignatureHash fails for a type Single without an output of that index.
hashFails(ht) == ht % SignBit = 3 /\ ~Tx.single

opcodeCheckSig(m) ==
    IF Depth(m) < 2 THEN Fail(m)
    ELSE LET key == TopBytes(m, 0)
             full == TopBytes(m, 1)
             sig == Front(full)
             ht == full[Len(full)]
             out(b) == PushBool(Popped(m, 2), b)
             enc == checkSignatureEncoding(m, sig)
         IN  IF full = <<>> THEN out(FALSE)
             ELSE IF ~checkHashTypeEncoding(m, ht) \/ enc = "error" THEN Fail(m)
             ELSE IF enc = "panic" THEN [m EXCEPT !.st = "panic"]
             ELSE IF ~checkPubKeyEncoding(m, key) THEN Fail(m)
             ELSE IF hashFails(ht) \/ ~ParsePubKey(key) \/ ~ParseSignature(sig)
             THEN out(FALSE)
             ELSE out(Verify(key, sig))

\* The loop of opcodeCheckMultiSig at key t and signature j: the keys are used
\* up in order, and it gives up when fewer keys than signatures are left.
matchSigs(m, keys, sigs) ==
    LET try[t \in 1..(Len(keys) + 1), j \in 1..(Len(sigs) + 1)] ==
            IF j > Len(sigs) THEN "true"
            ELSE IF Len(sigs) - j > Len(keys) - t THEN "false"
            ELSE LET full == sigs[j]
                     sig == Front(full)
                     ht == full[Len(full)]
                     enc == checkSignatureEncoding(m, sig)
                 IN  IF full = <<>> THEN try[t + 1, j]
                     ELSE IF ~checkHashTypeEncoding(m, ht) \/ enc = "error" THEN "error"
                     ELSE IF enc = "panic" THEN "panic"
                     ELSE IF ~ParseSignature(sig) THEN try[t + 1, j]
                     ELSE IF ~checkPubKeyEncoding(m, keys[t]) THEN "error"
                     ELSE IF ~ParsePubKey(keys[t]) THEN try[t + 1, j]
                     ELSE IF hashFails(ht) THEN "error"
                     ELSE IF Verify(keys[t], sig) THEN try[t + 1, j + 1]
                     ELSE try[t + 1, j]
    IN  try[1, 1]

\* The items below the top k of the stack, topmost first.
Below(m, k, n) == [i \in 1..n |-> TopBytes(m, k + i - 1)]

opcodeCheckMultiSig(m) ==
    IF ~NumbersOnTop(m, 1) \/ Num(m, 0) \notin 0..MaxPubKeysPerMultiSig
       \/ m.ops + Num(m, 0) > MaxOpsPerScript \/ Depth(m) < Num(m, 0) + 2
    THEN Fail(m)
    ELSE LET nk == Num(m, 0)
             rest == [Popped(m, nk + 1) EXCEPT !.ops = @ + nk]
         IN  IF ~NumbersOnTop(rest, 1) \/ Num(rest, 0) \notin 0..nk
                \/ Depth(rest) < Num(rest, 0) + 1
             THEN Fail(m)
             ELSE LET ns == Num(rest, 0)
                      r == matchSigs(m, Below(m, 1, nk), Below(rest, 1, ns))
                  IN  CASE r = "error" -> Fail(m)
                        [] r = "panic" -> [m EXCEPT !.st = "panic"]
                        [] OTHER -> PushBool(Popped(rest, ns + 1), r = "true")

\* Parsing the key and the signature and verifying: external, the two match
\* or they do not.
verifyAlt(sig, key) == sig[1] = key[1]

\* The types of signature: for 1 and 2 (edwards and secSchnorr) the length of
\* the signature is checked, for the others (bliss and lms) its last byte is
\* read whatever its length.
opcodeCheckSigAlt(m) ==
    IF Depth(m) = 0 \/ NumRefused(TopBytes(m, 0), Minimal(m), 1) THEN Fail(m)
    ELSE LET t == Num(m, 0) % Radix
             out(n, b) == PushBool(Popped(m, n), b)
         IN  IF t = 0 \/ t \notin DOMAIN AltKeyLen THEN out(1, t # 0)
             ELSE IF Depth(m) < 2 THEN Fail(m)
             ELSE IF Len(TopBytes(m, 1)) # AltKeyLen[t] THEN out(2, FALSE)
             ELSE IF Depth(m) < 3 THEN Fail(m)
             ELSE LET full == TopBytes(m, 2)
                      ht == full[Len(full)]
                  IN  IF t \in {1, 2} /\ Len(full) # AltSigLen THEN out(3, FALSE)
                      ELSE IF full = <<>> THEN [m EXCEPT !.st = "panic"]
                      ELSE IF ~checkHashTypeEncoding(m, ht) THEN Fail(m)
                      ELSE out(3, ~hashFails(ht) /\ verifyAlt(full, TopBytes(m, 1)))

SigOps == {"CHECKSIG", "CHECKSIGVERIFY", "CHECKMULTISIG", "CHECKMULTISIGVERIFY",
           "CHECKSIGALT", "CHECKSIGALTVERIFY"}

Verified(m, verifies) == IF Running(m) /\ verifies THEN opcodeVerify(m) ELSE m

sigOp(m, op) ==
    Verified(CASE op \in {"CHECKSIG", "CHECKSIGVERIFY"} -> opcodeCheckSig(m)
               [] op \in {"CHECKMULTISIG", "CHECKMULTISIGVERIFY"} -> opcodeCheckMultiSig(m)
               [] op \in {"CHECKSIGALT", "CHECKSIGALTVERIFY"} -> opcodeCheckSigAlt(m),
             op \in {"CHECKSIGVERIFY", "CHECKMULTISIGVERIFY", "CHECKSIGALTVERIFY"})

---------------------------------------------------------------------------
(* Control *)

verifyLockTime(txLock, threshold, lock) ==
    /\ (txLock < threshold) = (lock < threshold)
    /\ lock <= txLock

\* Without its flag the opcode is a NOP, which may be discouraged.
upgradable(m) == IF "DiscourageUpgradableNops" \in m.flags THEN Fail(m) ELSE m

LockOnTop(m) == Depth(m) > 0 /\ ~NumRefused(TopBytes(m, 0), Minimal(m), LongNumLen)
                /\ Num(m, 0) >= 0

opcodeCheckLockTimeVerify(m) ==
    IF "CheckLockTimeVerify" \notin m.flags THEN upgradable(m)
    ELSE IF /\ LockOnTop(m)
            /\ verifyLockTime(Tx.lockTime, Tx.threshold, Num(m, 0))
            /\ ~Tx.final
    THEN m ELSE Fail(m)

\* A sequence is its value below the bit that says it counts seconds, that
\* bit, and the bit that disables it.
SeqDisabled(n) == (n \div (4 * Tx.mask)) % 2 = 1
SeqMasked(n) == n % (2 * Tx.mask)

opcodeCheckSequenceVerify(m) ==
    IF "CheckSequenceVerify" \notin m.flags THEN upgradable(m)
    ELSE IF /\ Tx.version >= 2 /\ LockOnTop(m)
            /\ \/ SeqDisabled(Num(m, 0))
               \/ /\ ~SeqDisabled(Tx.sequence)
                  /\ verifyLockTime(SeqMasked(Tx.sequence), Tx.mask, SeqMasked(Num(m, 0)))
    THEN m ELSE Fail(m)

isBranchExecuting(m) == m.cond = <<>> \/ m.cond[Len(m.cond)] = "true"

opcodeIf(m, op) ==
    IF ~isBranchExecuting(m) THEN [m EXCEPT !.cond = Append(@, "skip")]
    ELSE IF Depth(m) = 0 THEN Fail(m)
    ELSE [Popped(m, 1) EXCEPT !.cond =
            Append(@, IF asBool(TopBytes(m, 0)) = (op = "IF") THEN "true" ELSE "false")]

opcodeElse(m) ==
    IF m.cond = <<>> THEN Fail(m)
    ELSE [m EXCEPT !.cond[Len(m.cond)] =
            CASE @ = "true" -> "false" [] @ = "false" -> "true" [] @ = "skip" -> "skip"]

opcodeEndif(m) == IF m.cond = <<>> THEN Fail(m) ELSE [m EXCEPT !.cond = Front(@)]

Conditionals == {"IF", "NOTIF", "ELSE", "ENDIF"}

conditional(m, op) ==
    CASE op \in {"IF", "NOTIF"} -> opcodeIf(m, op)
      [] op = "ELSE" -> opcodeElse(m)
      [] op = "ENDIF" -> opcodeEndif(m)

\* External: a hash of HashLen bytes.
Hash(bytes) ==
    [i \in 1..HashLen |-> (i + MapThenSumSet(LAMBDA k : (2 * k + 1) * (bytes[k] + 1), DOMAIN bytes)) % Radix]

HashOps == {"RIPEMD160", "SHA1", "SHA256", "HASH160", "HASH256"}
hashOp(m) ==
    IF Depth(m) = 0 THEN Fail(m) ELSE PushFresh(Popped(m, 1), Hash(TopBytes(m, 0)), 0)

controlOp(m, pop) ==
    CASE pop.e.op = "VERIFY" -> opcodeVerify(m)
      [] pop.e.op = "CHECKLOCKTIMEVERIFY" -> opcodeCheckLockTimeVerify(m)
      [] pop.e.op = "CHECKSEQUENCEVERIFY" -> opcodeCheckSequenceVerify(m)
      [] pop.e.op = "NOP" \/ pop.e.op \in StakeOps -> m
      [] pop.e.op = "NOP1" -> upgradable(m)
      [] pop.e.op \in {"RETURN", "RESERVED", "VER", "INVALIDOPCODE"} -> Fail(m)

pushOp(m, pop) ==
    CASE pop.e.op = "FALSE" -> PushFresh(m, <<>>, 0)
      [] pop.e.op = "DATA" -> PushSlice(m, pop.s)
      [] pop.e.op = "1NEGATE" -> PushInt(m, -1)
      [] pop.e.op = "N" -> PushInt(m, pop.e.val)

opfunc(m, pop) ==
    LET op == pop.e.op
    IN  CASE op \in StackOps -> stackOp(m, op)
          [] op \in SpliceOps -> spliceOp(m, op)
          [] op \in UnaryOps -> unaryOp(m, op)
          [] op \in BinaryOps -> binaryOp(m, op)
          [] op = "WITHIN" -> opcodeWithin(m)
          [] op \in {"EQUAL", "EQUALVERIFY"} -> opcodeEqual(m, op)
          [] op \in HashOps -> hashOp(m)
          [] op \in SigOps -> sigOp(m, op)
          [] op \in Conditionals -> conditional(m, op)
          [] IsPush(pop) /\ op # "RESERVED" -> pushOp(m, pop)
          [] OTHER -> controlOp(m, pop)

\* A push of the length of its data, of a small integer, or with a length
\* byte, that is not the shortest one.
checkMinimalDataPush(m, pop) ==
    LET bs == Bytes(m, pop.s)
    IN  pop.e.op = "DATA" =>
            /\ bs # <<>>
            /\ Len(bs) = 1 => bs[1] \notin 1..MaxSmallInt \union {SignBit + 1}
            /\ Len(bs) <= MaxDirect => pop.e.len > 0

executeOpcode(m, pop) ==
    LET counted == IF IsPush(pop) THEN m ELSE [m EXCEPT !.ops = @ + 1]
    IN  IF \/ pop.e.op \in {"CODESEPARATOR", "VERIF", "VERNOTIF"}
           \/ counted.ops > MaxOpsPerScript
           \/ IsPush(pop) /\ pop.s.n > MaxScriptElementSize
        THEN Fail(m)
        ELSE IF ~isBranchExecuting(m) /\ pop.e.op \notin Conditionals THEN counted
        ELSE IF Minimal(m) /\ isBranchExecuting(m) /\ ~checkMinimalDataPush(m, pop) THEN Fail(m)
        ELSE opfunc(counted, pop)

---------------------------------------------------------------------------
(* The engine *)

CheckErrorCondition(m, final) ==
    IF \/ final /\ "CleanStack" \in m.flags /\ Depth(m) # 1
       \/ Depth(m) < 1 THEN Fail(m)
    ELSE IF asBool(TopBytes(m, 0)) THEN Popped(m, 1) ELSE Fail(m)

\* Past the last script: the verdict of Execute.
Finished(m) ==
    IF ~Running(m) \/ m.si <= Len(m.prog) THEN m
    ELSE LET out == CheckErrorCondition(m, TRUE)
         IN  IF Running(out) THEN [out EXCEPT !.st = "accept"] ELSE out

\* An empty next script is skipped.
NextScript(m) ==
    [m EXCEPT !.si = IF @ <= Len(m.prog) /\ m.prog[@] = <<>> THEN @ + 1 ELSE @]

\* After the public key script of pay-to-script-hash: the redeem script is
\* the last item the signature script left, and runs on the items below it.
redeem(m) ==
    LET checked == CheckErrorCondition(m, FALSE)
        last == m.saved[Len(m.saved)]
        pops == parseScript(table, Bytes(m, last), last)
    IN  IF ~Running(checked) THEN Fail(m)
        ELSE IF m.saved = <<>> THEN [m EXCEPT !.st = "panic"]
        ELSE IF ~Parses(pops) THEN Fail(m)
        ELSE [checked EXCEPT !.prog = Append(@, pops), !.d = Front(m.saved)]

\* What Step does after the last opcode of a script.
EndOfScript(m) ==
    LET clean == [m EXCEPT !.a = <<>>, !.ops = 0, !.so = 1, !.si = @ + 1]
    IN  IF m.cond # <<>> THEN Fail(m)
        ELSE IF m.bip16 /\ m.si = 1 THEN NextScript([clean EXCEPT !.saved = m.d])
        ELSE IF m.bip16 /\ m.si = 2
        THEN LET out == redeem(clean) IN IF Running(out) THEN NextScript(out) ELSE out
        ELSE NextScript(clean)

AfterOpcode(m) ==
    IF ~Running(m) THEN m
    ELSE IF Len(m.d) + Len(m.a) > MaxStackSize THEN Fail(m)
    ELSE IF m.so < Len(m.prog[m.si]) THEN [m EXCEPT !.so = @ + 1]
    ELSE Finished(EndOfScript([m EXCEPT !.so = @ + 1]))

step(m) ==
    IF m.si > Len(m.prog) \/ m.so > Len(m.prog[m.si]) THEN Fail(m)
    ELSE AfterOpcode(executeOpcode(m, m.prog[m.si][m.so]))

Machine(mem, prog, flags) ==
    [mem |-> mem, d |-> <<>>, a |-> <<>>, cond |-> <<>>, ops |-> 0, flags |-> flags,
     prog |-> prog, si |-> 1, so |-> 1, saved |-> <<>>, bip16 |-> FALSE, st |-> "run"]

NewEngine(tbl, sig, pk, flags, version) ==
    LET whole(b, bytes) == parseScript(tbl, bytes, [b |-> b, o |-> 0, n |-> Len(bytes)])
        new == Machine(<<sig, pk>>, <<whole(1, sig), whole(2, pk)>>, flags)
        sigOps == new.prog[1]
        pkOps == new.prog[2]
        p2sh == "Bip16" \in flags /\ isAnyKindOfScriptHash(pkOps)
    IN  IF \/ "CleanStack" \in flags /\ "Bip16" \notin flags
           \/ "SigPushOnly" \in flags /\ ~(Parses(sigOps) /\ isPushOnly(sigOps))
           \/ version = 0 /\ HasP2SHScriptSigStakeOpCodes(tbl, new, sigOps, pkOps)
           \/ Len(sig) > maxScriptSize \/ Len(pk) > maxScriptSize
           \/ ~Parses(sigOps) \/ ~Parses(pkOps)
           \/ p2sh /\ ~isPushOnly(sigOps)
        THEN Fail(new)
        ELSE [new EXCEPT !.si = IF sig = <<>> THEN 2 ELSE 1, !.bip16 = p2sh,
                         !.st = IF version # 0 THEN "accept" ELSE "run"]

Step == Running(vm) /\ vm' = step(vm) /\ UNCHANGED <<table, scripts>>

---------------------------------------------------------------------------
(* Properties *)

Current == vm.prog[vm.si][vm.so]
CanStep == Running(vm) /\ vm.si <= Len(vm.prog) /\ vm.so <= Len(vm.prog[vm.si])

\* The stack transformations of the comments of opcode.go: the items an opcode
\* takes from the top, x1 being the deepest, and those it leaves.
Shuffle ==
    [ o \in {"DROP", "2DROP", "DUP", "2DUP", "3DUP", "OVER", "2OVER", "ROT", "2ROT",
             "SWAP", "2SWAP", "NIP", "TUCK"} |->
      CASE o = "DROP" -> <<1, <<>>>>
        [] o = "2DROP" -> <<2, <<>>>>
        [] o = "DUP" -> <<1, <<1, 1>>>>
        [] o = "2DUP" -> <<2, <<1, 2, 1, 2>>>>
        [] o = "3DUP" -> <<3, <<1, 2, 3, 1, 2, 3>>>>
        [] o = "OVER" -> <<2, <<1, 2, 1>>>>
        [] o = "2OVER" -> <<4, <<1, 2, 3, 4, 1, 2>>>>
        [] o = "ROT" -> <<3, <<2, 3, 1>>>>
        [] o = "2ROT" -> <<6, <<3, 4, 5, 6, 1, 2>>>>
        [] o = "SWAP" -> <<2, <<2, 1>>>>
        [] o = "2SWAP" -> <<4, <<3, 4, 1, 2>>>>
        [] o = "NIP" -> <<2, <<2>>>>
        [] o = "TUCK" -> <<2, <<2, 1, 2>>>> ]

\* What the comments say of the operations on numbers whose code is not the
\* operation itself: rotations and shifts move bits, a remainder has the sign
\* of the dividend.
DocNumber(op, x, y, r) ==
    CASE op = "ROTR" -> \A k \in 0..(WordBits - 1) : Bit(r, k) = Bit(x, (k + y) % WordBits)
      [] op = "ROTL" -> \A k \in 0..(WordBits - 1) : Bit(r, (k + y) % WordBits) = Bit(x, k)
      [] op = "LSHIFT" -> \A k \in 0..(WordBits - 1) :
                              Bit(r, k) = IF k < y THEN 0 ELSE Bit(x, k - y)
      [] op = "RSHIFT" -> \A k \in 0..(WordBits - 1) :
                              Bit(r, k) = IF k + y < WordBits THEN Bit(x, k + y)
                                          ELSE Bit(x, WordBits - 1)
      [] op = "DIV" -> \E m \in (1 - Magnitude(y))..(Magnitude(y) - 1) :
                              x = y * r + m /\ (m = 0 \/ (m < 0) = (x < 0))
      [] op = "MOD" -> /\ Magnitude(r) < Magnitude(y) /\ (r = 0 \/ (r < 0) = (x < 0))
                       /\ (x - r) % Magnitude(y) = 0
      [] OTHER -> r = binaryResult(op, x, y)

\* The items of xs without the top n.
Under(xs, n) == SubSeq(xs, 1, Len(xs) - n)

DocEffect(op, xs, ys) ==
    LET n == Len(xs)
    IN  CASE op \in DOMAIN Shuffle ->
                LET take == Shuffle[op][1]
                    give == Shuffle[op][2]
                IN  ys = Under(xs, take) \o [i \in DOMAIN give |-> xs[n - take + give[i]]]
          [] op = "CAT" -> ys = Append(Under(xs, 2), xs[n - 1] \o xs[n])
          [] op = "SIZE" -> ys = Append(xs, NumBytes(Len(xs[n])))
          [] op = "PICK" -> ys = Append(Under(xs, 1), xs[n - 1 - NumOf(xs[n])])
          [] op = "ROLL" ->
                ys = Append(RemoveAt(Under(xs, 1), n - 1 - NumOf(xs[n])), xs[n - 1 - NumOf(xs[n])])
          [] op \in {"LEFT", "RIGHT"} ->
                /\ Under(ys, 1) = Under(xs, 2)
                /\ xs[n - 1] # <<>> =>
                     LET k == NumOf(xs[n])
                         half == IF op = "LEFT" THEN SubSeq(xs[n - 1], 1, k)
                                 ELSE SubSeq(xs[n - 1], k + 1, Len(xs[n - 1]))
                     IN  ys[Len(ys)] = half
          [] op \in UnaryOps -> Under(ys, 1) = Under(xs, 1)
          [] op \in BinaryOps \ {"NUMEQUALVERIFY"} ->
                /\ Under(ys, 1) = Under(xs, 2)
                /\ checkMinimalDataEncoding(ys[Len(ys)])
                /\ DocNumber(op, NumOf(xs[n - 1]), NumOf(xs[n]), NumOf(ys[Len(ys)]))
          [] op \in SigOps \union {"NUMEQUALVERIFY", "EQUALVERIFY", "VERIFY", "WITHIN",
                                   "EQUAL", "SUBSTR"} ->
                Len(ys) <= Len(xs) /\ Under(ys, 1) = SubSeq(xs, 1, Len(ys) - 1)
          [] OTHER -> TRUE

\* Each opcode changes the data stack as its comment says, and nothing below
\* the items it takes (opcode.go:1186-2300): the loops over nipN and the
\* slices of shared buffers amount to the documented transformation.
StackEffects ==
    CanStep /\ isBranchExecuting(vm) =>
        \A out \in {executeOpcode(vm, Current)} :
            Running(out) => DocEffect(Current.e.op, Values(vm, vm.d), Values(out, out.d))

\* Only the branches whose enclosing conditionals are all taken execute: the
\* engine looks at the top of condStack only (engine.go:119).
NestedBranches ==
    \A i \in 1..(Len(vm.cond) - 1) : vm.cond[i] # "true" => vm.cond[i + 1] = "skip"

\* A pay-to-script-hash output is spent only with a redeem script that has the
\* hash of the output, and that script runs on the items the signature script
\* pushed below it, whatever the public key script did to the stack
\* (engine.go:300-318).
RedeemSound ==
    vm.bip16 /\ vm.si = 3 /\ vm.so = 1 /\ Running(vm) =>
        LET hashed == vm.prog[2][Len(vm.prog[2]) - 1].s
            pushed == vm.prog[1]
        IN  /\ Hash(Bytes(vm, vm.saved[Len(vm.saved)])) = Bytes(vm, hashed)
            /\ Len(vm.d) = Len(pushed) - 1
            /\ vm.d = Front(vm.saved)

\* The machine stays within its limits, and an index out of range is possible
\* in the checks of a signature only.
WithinLimits ==
    /\ Running(vm) => Len(vm.d) + Len(vm.a) <= MaxStackSize /\ vm.ops <= MaxOpsPerScript
    /\ \A i \in DOMAIN vm.d : vm.d[i].n <= MaxScriptElementSize
    /\ vm.st = "panic" => Current.e.op \in SigOps
    /\ vm.st = "accept" /\ vm.si > 1 => vm.cond = <<>>

\* The signatures can be assigned to keys in the order of both.
Assignable(keys, sigs) ==
    \E f \in [DOMAIN sigs -> DOMAIN keys] :
        /\ \A i, j \in DOMAIN sigs : i < j => f[i] < f[j]
        /\ \A j \in DOMAIN sigs : /\ sigs[j] # <<>> /\ ParseSignature(Front(sigs[j]))
                                  /\ ParsePubKey(keys[f[j]])
                                  /\ Verify(keys[f[j]], Front(sigs[j]))

\* The single pass over the keys finds an assignment of the signatures if
\* there is one (opcode.go:2601-2704).  With the encoding flags it may end in
\* an error, which it does not without them.
MultiSigMatches ==
    CanStep /\ Current.e.op = "CHECKMULTISIG" /\ NumbersOnTop(vm, 1)
            /\ Num(vm, 0) \in 0..(Depth(vm) - 2) =>
        LET nk == Num(vm, 0)
            keys == Below(vm, 1, nk)
            ns == NumOf(TopBytes(vm, nk + 1))
            sigs == Below(vm, nk + 2, ns)
        IN  ns \in 0..nk /\ ns <= Depth(vm) - nk - 2 =>
            \A out \in {executeOpcode(vm, Current)} :
                /\ Running(out) => asBool(TopBytes(out, 0)) = Assignable(keys, sigs)
                /\ vm.flags = {} /\ Tx.single /\ ~Running(out) =>
                      vm.ops + nk >= MaxOpsPerScript \/ nk > MaxPubKeysPerMultiSig

\* A strict DER signature, from its two numbers.
Der(r, s) == <<SeqTag, Len(r) + Len(s) + 4, IntTag, Len(r)>> \o r \o <<IntTag, Len(s)>> \o s
Positive(n) == n # <<>> /\ n[1] < SignBit /\ (Len(n) > 1 /\ n[1] = 0 => n[2] >= SignBit)

\* checkSignatureEncoding accepts the encodings of two positive numbers
\* without superfluous bytes and nothing else (engine.go:430-540).
DerExact(sig) ==
    (derCheck(sig) = "ok") =
        /\ Len(sig) \in MinSigLen..MaxSigLen
        /\ \E k \in 1..(Len(sig) - 7) :
              LET r == SubSeq(sig, 5, 4 + k)
                  s == SubSeq(sig, 7 + k, Len(sig))
              IN  Positive(r) /\ Positive(s) /\ sig = Der(r, s)

\* Numbers and scripts survive their encodings: scriptnum.go:91 and 184, and
\* parsing and unparsing of every script that parseAltScriptTemplate does not
\* read differently (script.go:137).
EncodingsInvert ==
    /\ \A i \in DOMAIN vm.d :
          LET v == Bytes(vm, vm.d[i])
          IN  /\ NumOf(NumBytes(NumOf(v))) = NumOf(v)
              /\ checkMinimalDataEncoding(v) = (NumBytes(NumOf(v)) = v)
    /\ \A i \in DOMAIN scripts :
          LET whole == [b |-> i, o |-> 0, n |-> Len(scripts[i])]
              pops == parseScript(table, scripts[i], whole)
          IN  Parses(pops) /\ Len(scripts[i]) # AltLen =>
                  unparseScript(table, [mem |-> scripts], pops) = scripts[i]

\* Signatures are accepted in exactly the encodings and the assignments to
\* keys that the comments of checkSignatureEncoding and opcodeCheckMultiSig
\* describe.
SignaturesSound == MultiSigMatches /\ \A i \in DOMAIN scripts : DerExact(scripts[i])

\* The engine runs the branches, the scripts and the opcodes it should, each
\* opcode with the effect its comment states, and accepts the right signatures.
EngineSound ==
    /\ StackEffects
    /\ NestedBranches
    /\ RedeemSound
    /\ WithinLimits
    /\ EncodingsInvert
    /\ SignaturesSound
=============================================================================
