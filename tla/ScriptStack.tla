---------------------------- MODULE ScriptStack ----------------------------
(***************************************************************************)
(* Script numbers, the stacks of the script machine and the opcodes that   *)
(* work on them (txscript/scriptnum.go, stack.go and opcode.go).           *)
(*                                                                         *)
(* A stack item is a Go slice: a range of a buffer it may share with other *)
(* items and with the script itself, and the bytes of the buffer behind it *)
(* are its spare capacity.  Only opcodeCat writes into a buffer (append).  *)
(* A byte has BitsPerByte bits (8 in the code), so that the numbers of     *)
(* NumLen bytes (4), the int32 of the code, can be enumerated.             *)
(*                                                                         *)
(* A machine is a record: mem (the buffers), d and a (data and alternate   *)
(* stack), cond (condStack), ops (numOps), flags, and st, which is "run"   *)
(* until an opcode returns an error ("error") or panics ("panic").         *)
(***************************************************************************)
EXTENDS Integers, FiniteSets, Sequences, SequencesExt, FiniteSetsExt

CONSTANTS
    BitsPerByte,            \* 8 in the code
    NumLen,                 \* mathOpCodeMaxScriptNumLen, 4
    LongNumLen,             \* bytes of a lock time on the stack, 5
    MaxScriptElementSize,   \* 8192
    SizeClass               \* append rounds a new buffer up to a multiple of it

ASSUME ScriptStackAssumption ==
    /\ BitsPerByte \in Nat \ {0, 1} /\ NumLen \in Nat \ {0}
    /\ LongNumLen \in Nat /\ MaxScriptElementSize \in Nat
    /\ SizeClass \in Nat \ {0}

Radix == 2^BitsPerByte
SignBit == Radix \div 2
WordBits == BitsPerByte * NumLen
Word == 2^WordBits

---------------------------------------------------------------------------
(* Numbers *)

asBool(t) == \E i \in DOMAIN t : t[i] # 0 /\ ~(i = Len(t) /\ t[i] = SignBit)

fromBool(b) == IF b THEN <<1>> ELSE <<>>

Digits[n \in Nat] ==
    IF n = 0 THEN <<>> ELSE <<n % Radix>> \o Digits[n \div Radix]

Magnitude(n) == IF n < 0 THEN -n ELSE n

\* The sign goes into the top bit of the last byte, or into a byte of its own.
NumBytes(n) ==
    LET ds == Digits[Magnitude(n)]
    IN  IF n = 0 THEN <<>>
        ELSE IF ds[Len(ds)] >= SignBit
        THEN Append(ds, IF n < 0 THEN SignBit ELSE 0)
        ELSE IF n < 0 THEN [ds EXCEPT ![Len(ds)] = @ + SignBit] ELSE ds

checkMinimalDataEncoding(v) ==
    \/ v = <<>>
    \/ v[Len(v)] % SignBit # 0
    \/ Len(v) > 1 /\ v[Len(v) - 1] >= SignBit

NumRefused(v, minimal, maxLen) ==
    Len(v) > maxLen \/ (minimal /\ ~checkMinimalDataEncoding(v))

NumOf(v) ==
    LET raw == MapThenSumSet(LAMBDA i : v[i] * Radix^(i - 1), DOMAIN v)
    IN  IF v # <<>> /\ v[Len(v)] >= SignBit
        THEN SignBit * Radix^(Len(v) - 1) - raw
        ELSE raw

\* The conversion to int32 of a result of int32 arithmetic.
Wrap(n) == ((n + Word \div 2) % Word) - Word \div 2
Unsigned(n) == n % Word

---------------------------------------------------------------------------
(* Slices and stacks *)

Bytes(vm, s) == SubSeq(vm.mem[s.b], s.o + 1, s.o + s.n)
Capacity(vm, s) == Len(vm.mem[s.b]) - s.o

Values(vm, stk) == [i \in DOMAIN stk |-> Bytes(vm, stk[i])]

Running(vm) == vm.st = "run"
Fail(vm) == [vm EXCEPT !.st = "error"]
Depth(vm) == Len(vm.d)
Top(vm, i) == vm.d[Depth(vm) - i]
TopBytes(vm, i) == Bytes(vm, Top(vm, i))

PushSlice(vm, s) == [vm EXCEPT !.d = Append(@, s)]

\* A new buffer with spare bytes behind what is pushed.
PushFresh(vm, bytes, spare) ==
    [vm EXCEPT !.mem = Append(@, bytes \o [i \in 1..spare |-> 0]),
               !.d = Append(@, [b |-> Len(vm.mem) + 1, o |-> 0, n |-> Len(bytes)])]

\* Bytes() makes a buffer of capacity 9, one byte more than an int64 needs.
PushInt(vm, n) ==
    LET bs == NumBytes(n)
    IN  PushFresh(vm, bs, IF n = 0 THEN 0 ELSE (2 * NumLen + 1) - Len(bs))
PushBool(vm, b) == PushFresh(vm, fromBool(b), 0)

Popped(vm, n) == [vm EXCEPT !.d = SubSeq(@, 1, Len(@) - n)]

\* Mutant: the first of the shifted items is lost.
nipNShort(vm, idx) ==
    IF idx \notin 0..(Depth(vm) - 1) THEN Fail(vm)
    ELSE [vm EXCEPT !.d = SubSeq(@, 1, Len(@) - idx - 1)
                          \o SubSeq(@, Len(@) - idx + 2, Len(@))]

nipN(vm, idx) ==
    IF idx \notin 0..(Depth(vm) - 1) THEN Fail(vm)
    ELSE [vm EXCEPT !.d = RemoveAt(@, Len(@) - idx)]

PickN(vm, n) ==
    IF n \notin 0..(Depth(vm) - 1) THEN Fail(vm) ELSE PushSlice(vm, Top(vm, n))

RollN(vm, n) ==
    LET out == nipN(vm, n)
    IN  IF Running(out) THEN PushSlice(out, Top(vm, n)) ELSE out

\* The loops of the operations on n items; an error ends them.
Repeat(F(_), n, vm) ==
    LET after[i \in 0..n] ==
            IF i = 0 THEN vm
            ELSE IF Running(after[i - 1]) THEN F(after[i - 1]) ELSE after[i - 1]
    IN  after[n]

DropN(vm, n) == Repeat(LAMBDA m : nipN(m, 0), n, vm)
DupN(vm, n) == Repeat(LAMBDA m : PickN(m, n - 1), n, vm)
RotN(vm, n) == Repeat(LAMBDA m : RollN(m, 3 * n - 1), n, vm)
SwapN(vm, n) == Repeat(LAMBDA m : RollN(m, 2 * n - 1), n, vm)
OverN(vm, n) == Repeat(LAMBDA m : PickN(m, 2 * n - 1), n, vm)

Tuck(vm) ==
    IF Depth(vm) < 2 THEN Fail(vm)
    ELSE PushSlice(PushSlice(PushSlice(Popped(vm, 2), Top(vm, 0)), Top(vm, 1)),
                   Top(vm, 0))

---------------------------------------------------------------------------
(* Opcodes on items.  Each needs a number of items, the topmost of which   *)
(* it may read as numbers.                                                 *)

Minimal(vm) == "MinimalData" \in vm.flags

\* PopInt of the top n items succeeds.
NumbersOnTop(vm, n) ==
    /\ Depth(vm) >= n
    /\ \A i \in 0..(n - 1) : ~NumRefused(TopBytes(vm, i), Minimal(vm), NumLen)

Num(vm, i) == NumOf(TopBytes(vm, i))

StackOps == {"TOALTSTACK", "FROMALTSTACK", "2DROP", "2DUP", "3DUP", "2OVER",
             "2ROT", "2SWAP", "IFDUP", "DEPTH", "DROP", "DUP", "NIP", "OVER",
             "PICK", "ROLL", "ROT", "SWAP", "TUCK"}

altStackOp(vm, op) ==
    IF op = "TOALTSTACK"
    THEN IF Depth(vm) = 0 THEN Fail(vm)
         ELSE [Popped(vm, 1) EXCEPT !.a = Append(@, Top(vm, 0))]
    ELSE IF vm.a = <<>> THEN Fail(vm)
         ELSE [PushSlice(vm, vm.a[Len(vm.a)]) EXCEPT !.a = Front(@)]

depthOp(vm, op) ==
    CASE op = "IFDUP" ->
            IF Depth(vm) = 0 THEN Fail(vm)
            ELSE IF asBool(TopBytes(vm, 0)) THEN PushSlice(vm, Top(vm, 0)) ELSE vm
      [] op = "DEPTH" -> PushInt(vm, Depth(vm))
      [] op \in {"PICK", "ROLL"} ->
            IF ~NumbersOnTop(vm, 1) THEN Fail(vm)
            ELSE IF op = "PICK" THEN PickN(Popped(vm, 1), Num(vm, 0))
            ELSE RollN(Popped(vm, 1), Num(vm, 0))

stackOp(vm, op) ==
    CASE op \in {"TOALTSTACK", "FROMALTSTACK"} -> altStackOp(vm, op)
      [] op \in {"IFDUP", "DEPTH", "PICK", "ROLL"} -> depthOp(vm, op)
      [] op = "2DROP" -> DropN(vm, 2)
      [] op = "DROP" -> DropN(vm, 1)
      [] op = "DUP" -> DupN(vm, 1)
      [] op = "2DUP" -> DupN(vm, 2)
      [] op = "3DUP" -> DupN(vm, 3)
      [] op = "OVER" -> OverN(vm, 1)
      [] op = "2OVER" -> OverN(vm, 2)
      [] op = "ROT" -> RotN(vm, 1)
      [] op = "2ROT" -> RotN(vm, 2)
      [] op = "SWAP" -> SwapN(vm, 1)
      [] op = "2SWAP" -> SwapN(vm, 2)
      [] op = "NIP" -> nipN(vm, 1)
      [] op = "TUCK" -> Tuck(vm)

SpliceOps == {"CAT", "SUBSTR", "LEFT", "RIGHT", "SIZE"}

RoundUp(n) == ((n + SizeClass - 1) \div SizeClass) * SizeClass

\* append(b, a...): into the spare capacity of b if a fits, otherwise into a
\* new buffer, which is at least twice as large as the old one.
appendTo(vm, b, a) ==
    LET as == Bytes(vm, a)
        need == b.n + a.n
        new == RoundUp(IF need > 2 * Capacity(vm, b) THEN need ELSE 2 * Capacity(vm, b))
    IN  IF need <= Capacity(vm, b)
        THEN PushSlice([vm EXCEPT !.mem[b.b] =
                            [i \in DOMAIN @ |->
                                IF i \in (b.o + b.n + 1)..(b.o + need)
                                THEN as[i - b.o - b.n] ELSE @[i]]],
                       [b EXCEPT !.n = need])
        ELSE PushFresh(vm, Bytes(vm, b) \o as, new - need)

opcodeCat(vm) ==
    IF Depth(vm) < 2 THEN Fail(vm)
    ELSE LET a == Top(vm, 0)
             b == Top(vm, 1)
         IN  IF a.n = 0 \/ b.n = 0
             THEN PushSlice(Popped(vm, 2), IF a.n = 0 THEN b ELSE a)
             ELSE IF a.n + b.n > MaxScriptElementSize THEN Fail(vm)
             ELSE appendTo(Popped(vm, 2), b, a)

\* The part lo..hi of a slice shares its buffer; an empty part is nil.
PushPart(vm, s, lo, hi) ==
    IF lo = hi THEN PushFresh(vm, <<>>, 0)
    ELSE PushSlice(vm, [s EXCEPT !.o = @ + lo, !.n = hi - lo])

opcodeSubstr(vm) ==
    IF ~NumbersOnTop(vm, 2) \/ Depth(vm) < 3 THEN Fail(vm)
    ELSE LET v0 == Num(vm, 0)
             v1 == Num(vm, 1)
             s == Top(vm, 2)
             rest == Popped(vm, 3)
         IN  IF s.n = 0 THEN PushFresh(rest, <<>>, 0)
             ELSE IF v0 < 0 \/ v1 < 0 \/ v0 > s.n \/ v1 > s.n \/ v0 > v1 THEN Fail(vm)
             ELSE PushPart(rest, s, v0, v1)

opcodeLeftRight(vm, op) ==
    IF ~NumbersOnTop(vm, 1) \/ Depth(vm) < 2 THEN Fail(vm)
    ELSE LET v0 == Num(vm, 0)
             s == Top(vm, 1)
             rest == Popped(vm, 2)
         IN  IF s.n = 0 THEN PushFresh(rest, <<>>, 0)
             ELSE IF v0 \notin 0..s.n THEN Fail(vm)
             ELSE IF op = "LEFT" THEN PushPart(rest, s, 0, v0)
             ELSE PushPart(rest, s, v0, s.n)

opcodeSize(vm) == IF Depth(vm) = 0 THEN Fail(vm) ELSE PushInt(vm, Top(vm, 0).n)

spliceOp(vm, op) ==
    CASE op = "CAT" -> opcodeCat(vm)
      [] op = "SUBSTR" -> opcodeSubstr(vm)
      [] op \in {"LEFT", "RIGHT"} -> opcodeLeftRight(vm, op)
      [] op = "SIZE" -> opcodeSize(vm)

---------------------------------------------------------------------------
(* Arithmetic.  y is the top item (v0 in the code), x the one below (v1). *)

UnaryOps == {"INVERT", "1ADD", "1SUB", "NEGATE", "ABS", "NOT", "0NOTEQUAL"}
BitOps == {"AND", "OR", "XOR"}
RotateOps == {"ROTR", "ROTL"}
MathOps == {"ADD", "SUB", "MUL", "DIV", "MOD"}
ShiftOps == {"LSHIFT", "RSHIFT"}
CompareOps == {"BOOLAND", "BOOLOR", "NUMEQUAL", "NUMEQUALVERIFY", "NUMNOTEQUAL",
               "LESSTHAN", "GREATERTHAN", "LESSTHANOREQUAL", "GREATERTHANOREQUAL"}
BinaryOps == BitOps \union RotateOps \union MathOps \union ShiftOps
             \union CompareOps \union {"MIN", "MAX"}

Flag(b) == IF b THEN 1 ELSE 0

unaryResult(op, m) ==
    CASE op = "INVERT" -> -m - 1
      [] op = "1ADD" -> m + 1
      [] op = "1SUB" -> m - 1
      [] op = "NEGATE" -> -m
      [] op = "ABS" -> Magnitude(m)
      [] op = "NOT" -> Flag(m = 0)
      [] op = "0NOTEQUAL" -> Flag(m # 0)

Bit(n, k) == (Unsigned(n) \div 2^k) % 2
FromBits(B(_)) == Wrap(MapThenSumSet(LAMBDA k : B(k) * 2^k, 0..(WordBits - 1)))

bitResult(op, x, y) ==
    CASE op = "AND" -> FromBits(LAMBDA k : Bit(x, k) * Bit(y, k))
      [] op = "OR" -> FromBits(LAMBDA k : Flag(Bit(x, k) + Bit(y, k) > 0))
      [] op = "XOR" -> FromBits(LAMBDA k : (Bit(x, k) + Bit(y, k)) % 2)

rotateRight(v, c) ==
    Wrap(Unsigned(v) \div 2^c + Unsigned(Unsigned(v) * 2^(WordBits - c)))
rotateLeft(v, c) ==
    Wrap(Unsigned(Unsigned(v) * 2^c) + Unsigned(v) \div 2^(WordBits - c))

\* The quotient of Go rounds towards zero.
Quotient(x, y) ==
    LET q == Magnitude(x) \div Magnitude(y) IN IF (x < 0) = (y < 0) THEN q ELSE -q

mathResult(op, x, y) ==
    CASE op = "ADD" -> x + y
      [] op = "SUB" -> x - y
      [] op = "MUL" -> Wrap(x * y)
      [] op = "DIV" -> Wrap(Quotient(x, y))
      [] op = "MOD" -> x - y * Quotient(x, y)

shiftResult(op, x, y) ==
    IF op = "LSHIFT" THEN Wrap(Unsigned(x) * 2^y) ELSE x \div 2^y

compareResult(op, x, y) ==
    Flag(CASE op = "BOOLAND" -> x # 0 /\ y # 0
           [] op = "BOOLOR" -> x # 0 \/ y # 0
           [] op \in {"NUMEQUAL", "NUMEQUALVERIFY"} -> x = y
           [] op = "NUMNOTEQUAL" -> x # y
           [] op = "LESSTHAN" -> x < y
           [] op = "GREATERTHAN" -> x > y
           [] op = "LESSTHANOREQUAL" -> x <= y
           [] op = "GREATERTHANOREQUAL" -> x >= y)

minMaxResult(op, x, y) ==
    IF op = "MIN" THEN (IF x < y THEN x ELSE y) ELSE (IF x > y THEN x ELSE y)

binaryRefused(op, y) ==
    \/ op \in {"DIV", "MOD"} /\ y = 0
    \/ op \in RotateOps /\ y \notin 0..(WordBits - 1)
    \/ op \in ShiftOps /\ y \notin 0..WordBits

binaryResult(op, x, y) ==
    CASE op \in BitOps -> bitResult(op, x, y)
      [] op = "ROTR" -> rotateRight(x, y)
      [] op = "ROTL" -> rotateLeft(x, y)
      [] op \in MathOps -> mathResult(op, x, y)
      [] op \in ShiftOps -> shiftResult(op, x, y)
      [] op \in CompareOps -> compareResult(op, x, y)
      [] op \in {"MIN", "MAX"} -> minMaxResult(op, x, y)

opcodeVerify(vm) ==
    IF Depth(vm) > 0 /\ asBool(TopBytes(vm, 0)) THEN Popped(vm, 1) ELSE Fail(vm)

unaryOp(vm, op) ==
    IF ~NumbersOnTop(vm, 1) THEN Fail(vm)
    ELSE PushInt(Popped(vm, 1), unaryResult(op, Num(vm, 0)))

binaryOp(vm, op) ==
    IF ~NumbersOnTop(vm, 2) \/ binaryRefused(op, Num(vm, 0)) THEN Fail(vm)
    ELSE LET out == PushInt(Popped(vm, 2), binaryResult(op, Num(vm, 1), Num(vm, 0)))
         IN  IF op = "NUMEQUALVERIFY" THEN opcodeVerify(out) ELSE out

opcodeWithin(vm) ==
    IF ~NumbersOnTop(vm, 3) THEN Fail(vm)
    ELSE PushInt(Popped(vm, 3), Flag(Num(vm, 2) >= Num(vm, 1) /\ Num(vm, 2) < Num(vm, 0)))

opcodeEqual(vm, op) ==
    IF Depth(vm) < 2 THEN Fail(vm)
    ELSE LET out == PushBool(Popped(vm, 2), TopBytes(vm, 0) = TopBytes(vm, 1))
         IN  IF op = "EQUALVERIFY" THEN opcodeVerify(out) ELSE out
=============================================================================
