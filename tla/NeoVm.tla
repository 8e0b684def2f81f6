------------------------------- MODULE NeoVm -------------------------------
(***************************************************************************)
(* The NeoVM executor (vm/neovm/executor.go): a machine of an evaluation   *)
(* stack, an alternative stack and a stack of callers, whose values are    *)
(* integers, booleans, byte strings and references to arrays, structs and  *)
(* maps.  A byte has Base values and an int64 has IntBytes of them, so the *)
(* boundaries of the two integer representations are met by small values.  *)
(* A faulting opcode ends the whole invocation, so what it already popped  *)
(* is left alone.                                                          *)
(***************************************************************************)
EXTENDS Integers, Sequences, FiniteSets
LOCAL INSTANCE SequencesExt
LOCAL INSTANCE Bitwise

CONSTANTS Base,          \* values of a byte (256)
          IntBytes,      \* bytes of an int64 (8)
          MaxIntBytes,   \* constants.MAX_INT_SIZE
          StackLimit,    \* STACK_LIMIT
          CallLimit,     \* MAX_INVOCATION_STACK_SIZE
          ArrayLimit,    \* MAX_ARRAY_SIZE
          CloneLimit,    \* MAX_CLONE_LENGTH
          BytesLimit,    \* MAX_BYTEARRAY_SIZE
          Starts         \* [code, stack, heap, disableHasKey, allowEOF]

VARIABLES program, vm

neoVars == <<program, vm>>

(* ---- Values (types/neovm_value.go) ---------------------------------- *)
Small(n) == <<"int", n>>
Big(n) == <<"big", n>>
Bool(b) == <<"bool", IF b THEN 1 ELSE 0>>
Bytes(s) == <<"bytes", s>>
Numbers == {"int", "big", "bool"}

IsInt64(n) == -(Base ^ IntBytes) <= 2 * n /\ 2 * n < Base ^ IntBytes
MinInt64 == -(Base ^ IntBytes \div 2)
Wrap(n) == ((n - MinInt64) % (Base ^ IntBytes)) + MinInt64
Magnitude(n) == IF n < 0 THEN -n ELSE n
Fits(n) == Magnitude(n) < Base ^ MaxIntBytes

(* BigIntFromNeoBytes: little endian, two's complement. *)
BigIntFromNeoBytes(s) ==
  LET n == FoldLeft(LAMBDA acc, i : acc + s[i] * Base ^ (i - 1), 0, [i \in 1..Len(s) |-> i])
  IN IF s # <<>> /\ 2 * s[Len(s)] >= Base THEN n - Base ^ Len(s) ELSE n

(* BigIntToNeoBytes: the magnitude's bytes complemented when negative, and *)
(* one more byte when their top bit contradicts the sign.                  *)
BigIntToNeoBytes(n) ==
  LET l == CHOOSE k \in 0..(2 * MaxIntBytes) :
             Base ^ k > Magnitude(n) /\ \A j \in 0..(k - 1) : Base ^ j <= Magnitude(n)
      bs == [i \in 1..l |-> ((n % (Base ^ l)) \div (Base ^ (i - 1))) % Base]
  IN CASE n = 0 -> <<>>
       [] n < 0 /\ 2 * bs[l] < Base -> Append(bs, Base - 1)
       [] n > 0 /\ 2 * bs[l] >= Base -> Append(bs, 0)
       [] OTHER -> bs

(* A conversion yields <<>> for ERR_BAD_TYPE or an oversized integer. *)
AsBytes(v) ==
  CASE v[1] = "bool" -> << <<v[2]>> >>
    [] v[1] \in {"int", "big"} -> <<BigIntToNeoBytes(v[2])>>
    [] v[1] = "bytes" -> <<v[2]>>
    [] OTHER -> <<>>

AsBigInt(v) ==
  CASE v[1] \in Numbers -> <<v[2]>>
    [] v[1] = "bytes" -> <<BigIntFromNeoBytes(v[2])>>
    [] OTHER -> <<>>

IntValFromBigInt(n) ==
  IF ~Fits(n) THEN <<>> ELSE <<IF IsInt64(n) THEN Small(n) ELSE Big(n)>>

AsIntValue(v) ==
  CASE v[1] \in {"int", "bool"} -> <<Small(v[2])>>
    [] v[1] = "big" -> IntValFromBigInt(v[2])
    [] v[1] = "bytes" -> IntValFromBigInt(BigIntFromNeoBytes(v[2]))
    [] OTHER -> <<>>

AsInt64(v) ==
  LET i == AsIntValue(v)
  IN IF i = <<>> \/ i[1][1] = "big" THEN <<>> ELSE <<i[1][2]>>

AsBool(v) ==
  CASE v[1] \in Numbers -> <<v[2] # 0>>
    [] v[1] = "bytes" -> <<\E i \in DOMAIN v[2] : v[2][i] # 0>>
    [] v[1] \in {"struct", "map"} -> <<TRUE>>
    [] OTHER -> <<>>

AsIs(v) == <<v>>

(* ---- Integers (types/int_value.go) ----------------------------------- *)
(* overflow.Add64, Sub64 and Mul64: the wrapped result, and whether it is  *)
(* taken to be right.                                                      *)
Quo(a, b) == IF (a < 0) = (b < 0) THEN Magnitude(a) \div Magnitude(b)
             ELSE -(Magnitude(a) \div Magnitude(b))
Rem(a, b) == a - b * Quo(a, b)
Add64(a, b) == LET c == Wrap(a + b) IN <<c, (c > a) = (b > 0)>>
Sub64(a, b) == LET c == Wrap(a - b) IN <<c, (c < a) = (b > 0)>>
Mul64(a, b) ==
  LET c == Wrap(a * b)
  IN <<c, a = 0 \/ b = 0 \/ ((c < 0) = ((a < 0) # (b < 0)) /\ Wrap(Quo(c, b)) = a)>>

(* big.Int's bitwise operations on two's complement of unbounded length. *)
Twos == Base ^ (MaxIntBytes + 1)
Signed(n) == IF 2 * n >= Twos THEN n - Twos ELSE n
BitAnd(a, b) == Signed((a % Twos) & (b % Twos))
BitOr(a, b) == Signed((a % Twos) | (b % Twos))
BitXor(a, b) == Signed((a % Twos) ^^ (b % Twos))

(* The exact result of a binary operation, as big.Int computes it. *)
BigOp(op, a, b) ==
  CASE op = "ADD" -> a + b
    [] op = "SUB" -> a - b
    [] op = "MUL" -> a * b
    [] op = "DIV" -> Quo(a, b)
    [] op = "MOD" -> Rem(a, b)
    [] op = "MAX" -> IF a < b THEN b ELSE a
    [] op = "MIN" -> IF a < b THEN a ELSE b
    [] op = "AND" -> BitAnd(a, b)
    [] op = "OR" -> BitOr(a, b)
    [] op = "XOR" -> BitXor(a, b)

LittleOp(op, a, b) ==
  CASE op = "ADD" -> Add64(a, b)
    [] op = "SUB" -> Sub64(a, b)
    [] op = "MUL" -> Mul64(a, b)
    [] op = "DIV" -> <<Wrap(Quo(a, b)), TRUE>>
    [] OTHER -> <<BigOp(op, a, b), TRUE>>

\* Mutant: the overflow flag of the 64 bit operation is ignored.
intOpUnchecked(op, a, b) ==
  IF a[1] = "int" /\ b[1] = "int" THEN <<Small(LittleOp(op, a[2], b[2])[1])>>
  ELSE IntValFromBigInt(BigOp(op, a[2], b[2]))

(* intOp: int64 arithmetic when both are small and it did not overflow.    *)
intOp(op, a, b) ==
  IF a[1] = "int" /\ b[1] = "int" /\ LittleOp(op, a[2], b[2])[2]
  THEN <<Small(LittleOp(op, a[2], b[2])[1])>>
  ELSE IntValFromBigInt(BigOp(op, a[2], b[2]))

DivMod(op, a, b) == IF b[2] = 0 THEN <<>> ELSE intOp(op, a, b)

(* A shift count that is negative or past uint64 is refused. *)
TwoTo(n) == 2 ^ n
MaxBits == MaxIntBytes * (CHOOSE k \in 1..16 : TwoTo(k) = Base)
IsUint64(n) == 0 <= n /\ n < Base ^ IntBytes
Lsh(a, b) ==
  IF ~IsUint64(b[2]) \/ b[2] > MaxBits THEN <<>>
  ELSE IntValFromBigInt(a[2] * TwoTo(b[2]))
Rsh(a, b) ==
  IF ~IsUint64(b[2]) THEN <<>>
  ELSE IF b[2] > MaxBits THEN <<Small(IF a[2] < 0 THEN -1 ELSE 0)>>
  ELSE IntValFromBigInt(a[2] \div TwoTo(b[2]))

Invert(a) == <<a[1], -a[2] - 1>>
Abs(a) == IF a = Small(MinInt64) THEN Big(-MinInt64) ELSE <<a[1], Magnitude(a[2])>>
Cmp(a, b) == IF a < b THEN -1 ELSE IF a = b THEN 0 ELSE 1

(* ---- Compound values and the two stacks ------------------------------- *)
(* A cell of the heap is <<kind, contents, allocated>>: a sequence of      *)
(* values for arrays and structs, a function from key bytes to the pair of *)
(* key and value for maps.  "allocated" is FALSE for the nil slice of a    *)
(* cloned empty struct, which reflect.DeepEqual tells from an empty one.   *)
Cell(m, v) == m.heap[v[2]][2]
Alloc(m, kind, data) == [m EXCEPT !.heap = Append(@, <<kind, data, TRUE>>)]
NewRef(m, kind) == <<kind, Len(m.heap) + 1>>
SetCell(m, v, data) == [m EXCEPT !.heap[v[2]] = <<v[1], data, @[3] \/ data # <<>> >>]

Fault(m) == [m EXCEPT !.state = "FAULT"]
Peek(s, i) == s[Len(s) - i]
InStack(s, i) == 0 <= i /\ i < Len(s)
Drop(m, k) == [m EXCEPT !.eval = SubSeq(@, 1, Len(@) - k)]

\* Mutant: the limit is looked at before pushing, not with what is pushed.
PushManyOver(m, vs) ==
  IF Len(m.eval) > StackLimit THEN Fault(m) ELSE [m EXCEPT !.eval = @ \o vs]

PushMany(m, vs) ==
  IF Len(m.eval) + Len(vs) > StackLimit THEN Fault(m) ELSE [m EXCEPT !.eval = @ \o vs]
Push(m, v) == PushMany(m, <<v>>)
PushAll(m, r) == IF r = <<>> THEN Fault(m) ELSE Push(m, r[1])
PushBytes(m, s) == IF Len(s) > BytesLimit THEN Fault(m) ELSE Push(m, Bytes(s))

StackRemove(s, i) == SubSeq(s, 1, Len(s) - i - 1) \o SubSeq(s, Len(s) - i + 1, Len(s))
StackInsert(s, i, v) == SubSeq(s, 1, Len(s) - i) \o <<v>> \o SubSeq(s, Len(s) - i + 1, Len(s))
Swap(s, i, j) == [s EXCEPT ![Len(s) - i] = Peek(s, j), ![Len(s) - j] = Peek(s, i)]

(* PopAs...: the top k values converted, bottom one first, or a fault. *)
PopAs(m, k, As(_), Do(_, _)) ==
  IF Len(m.eval) < k \/ \E i \in 0..(k - 1) : As(Peek(m.eval, i)) = <<>>
  THEN Fault(m)
  ELSE Do(Drop(m, k), [i \in 1..k |-> As(Peek(m.eval, k - i))[1]])

(* ---- Reading the code (utils/vm_reader.go) ---------------------------- *)
Left(m) == Len(program.code) - m.ip
CodeAt(i) == IF i < Len(program.code) THEN program.code[i + 1] ELSE 0
Seek(m, to) == [m EXCEPT !.ip = IF to > Len(program.code) THEN Len(program.code) ELSE to]
ReadFails(m, n) == Left(m) = 0 \/ (~program.allowEOF /\ Left(m) < n)
ReadBytes(m, n) == [i \in 1..n |-> CodeAt(m.ip + i - 1)]
\* ReadUint16 and ReadUint32 take what is left and pad it with zeros.
ReadUint(m, n) ==
  FoldLeft(LAMBDA acc, i : acc + CodeAt(m.ip + i - 1) * Base ^ (i - 1), 0, [i \in 1..n |-> i])
ReadInt16(m) ==
  LET u == ReadUint(m, 2) IN IF 2 * u >= Base ^ 2 THEN u - Base ^ 2 ELSE u

(* ---- Pushing constants ------------------------------------------------ *)
PushBytesN == [PUSHBYTES1 |-> 1, PUSHBYTES2 |-> 2, PUSHBYTES3 |-> 3]
PushDataN == [PUSHDATA1 |-> 1, PUSHDATA2 |-> 2, PUSHDATA4 |-> 4]
PushInt == [PUSHM1 |-> -1, PUSH0 |-> 0, PUSH1 |-> 1, PUSH2 |-> 2, PUSH3 |-> 3]
PushOps == DOMAIN PushBytesN \cup DOMAIN PushDataN \cup DOMAIN PushInt

PushRead(m, n) == IF ReadFails(m, n) THEN Fault(m) ELSE PushBytes(Seek(m, m.ip + n), ReadBytes(m, n))
ExecutePush(m, op) ==
  CASE op \in DOMAIN PushInt -> Push(m, Small(PushInt[op]))
    [] op \in DOMAIN PushBytesN -> PushRead(m, PushBytesN[op])
    [] op \in DOMAIN PushDataN ->
         IF Left(m) = 0 THEN Fault(m)
         ELSE PushRead(Seek(m, m.ip + PushDataN[op]), ReadUint(m, PushDataN[op]))

(* ---- Flow control ----------------------------------------------------- *)
FlowOps == {"NOP", "JMP", "JMPIF", "JMPIFNOT", "CALL", "DCALL", "RET", "THROW", "THROWIFNOT"}

PushContext(m, ip) ==
  IF Len(m.callers) >= CallLimit THEN Fault(m)
  ELSE [m EXCEPT !.callers = Append(@, IF ip > Len(program.code) THEN Len(program.code) ELSE ip)]

\* The offset counts from the opcode: 3 bytes before the operand's end.
Jump(m, op) ==
  LET r == Seek(m, m.ip + 2)
      to == r.ip + ReadInt16(m) - 3
  IN IF Left(m) = 0 \/ to < 0 \/ to > Len(program.code) THEN Fault(m)
     ELSE IF op = "JMP" THEN Seek(r, to)
     ELSE PopAs(r, 1, AsBool, LAMBDA n, b : IF b[1] = (op = "JMPIF") THEN Seek(n, to) ELSE n)

ExecuteFlow(m, op) ==
  CASE op = "NOP" -> m
    [] op \in {"JMP", "JMPIF", "JMPIFNOT"} -> Jump(m, op)
    [] op = "CALL" ->
         LET c == PushContext(m, m.ip + 2) IN IF c.state = "FAULT" THEN c ELSE Jump(c, "JMP")
    [] op = "DCALL" ->
         LET c == PushContext(m, m.ip)
         IN IF c.state = "FAULT" THEN c
            ELSE PopAs(c, 1, AsInt64, LAMBDA n, t :
                         IF t[1] < 0 \/ t[1] >= Len(program.code) THEN Fault(n) ELSE Seek(n, t[1]))
    [] op = "RET" ->
         IF m.callers = <<>> THEN [m EXCEPT !.state = "HALT"]
         ELSE [m EXCEPT !.ip = m.callers[Len(m.callers)], !.callers = SubSeq(@, 1, Len(@) - 1)]
    [] op = "THROW" -> Fault(m)
    [] op = "THROWIFNOT" -> PopAs(m, 1, AsBool, LAMBDA n, b : IF b[1] THEN n ELSE Fault(n))

(* ---- Stack ------------------------------------------------------------ *)
StackOps == {"DUPFROMALTSTACK", "TOALTSTACK", "FROMALTSTACK", "XDROP", "XSWAP", "XTUCK", "DEPTH",
             "DROP", "DUP", "NIP", "OVER", "PICK", "ROLL", "ROT", "SWAP", "TUCK"}

Roll(m, n) ==
  IF ~InStack(m.eval, n) THEN Fault(m)
  ELSE [m EXCEPT !.eval = Append(StackRemove(@, n), Peek(@, n))]
CopyFrom(m, s, n) == IF ~InStack(s, n) THEN Fault(m) ELSE Push(m, Peek(s, n))

ExecuteStack(m, op) ==
  CASE op = "DUPFROMALTSTACK" -> CopyFrom(m, m.alt, 0)
    [] op = "TOALTSTACK" ->
         IF m.eval = <<>> \/ Len(m.alt) >= StackLimit THEN Fault(m)
         ELSE [Drop(m, 1) EXCEPT !.alt = Append(@, Peek(m.eval, 0))]
    [] op = "FROMALTSTACK" ->
         IF m.alt = <<>> THEN Fault(m)
         ELSE Push([m EXCEPT !.alt = SubSeq(@, 1, Len(@) - 1)], Peek(m.alt, 0))
    [] op = "XDROP" -> PopAs(m, 1, AsInt64, LAMBDA n, i :
         IF InStack(n.eval, i[1]) THEN [n EXCEPT !.eval = StackRemove(@, i[1])] ELSE Fault(n))
    [] op = "XSWAP" -> PopAs(m, 1, AsInt64, LAMBDA n, i :
         IF InStack(n.eval, i[1]) THEN [n EXCEPT !.eval = Swap(@, 0, i[1])] ELSE Fault(n))
    [] op = "XTUCK" -> PopAs(m, 1, AsInt64, LAMBDA n, i :
         IF n.eval = <<>> \/ i[1] < 0 \/ i[1] > Len(n.eval) THEN Fault(n)
         ELSE [n EXCEPT !.eval = StackInsert(@, i[1], Peek(@, 0))])
    [] op = "DEPTH" -> Push(m, Small(Len(m.eval)))
    [] op = "DROP" -> IF m.eval = <<>> THEN Fault(m) ELSE Drop(m, 1)
    [] op = "DUP" -> CopyFrom(m, m.eval, 0)
    [] op = "OVER" -> CopyFrom(m, m.eval, 1)
    [] op = "PICK" -> PopAs(m, 1, AsInt64, LAMBDA n, i : CopyFrom(n, n.eval, i[1]))
    [] op = "ROLL" -> PopAs(m, 1, AsInt64, LAMBDA n, i : Roll(n, i[1]))
    [] op = "ROT" -> Roll(m, 2)
    [] op = "SWAP" -> IF Len(m.eval) < 2 THEN Fault(m) ELSE [m EXCEPT !.eval = Swap(@, 0, 1)]
    [] op = "NIP" -> PopAs(m, 2, AsIs, LAMBDA n, x : Push(n, x[2]))
    [] op = "TUCK" -> PopAs(m, 2, AsIs, LAMBDA n, x : PushMany(n, <<x[2], x[1], x[2]>>))

(* ---- Byte strings ----------------------------------------------------- *)
SpliceOps == {"CAT", "SUBSTR", "LEFT", "RIGHT", "SIZE"}

ExecuteSplice(m, op) ==
  CASE op = "CAT" -> PopAs(m, 2, AsBytes, LAMBDA n, x : PushBytes(n, x[1] \o x[2]))
    [] op = "SIZE" -> PopAs(m, 1, AsBytes, LAMBDA n, x : Push(n, Small(Len(x[1]))))
    [] op \in {"LEFT", "RIGHT"} -> PopAs(m, 1, AsInt64, LAMBDA n, c :
         PopAs(n, 1, AsBytes, LAMBDA k, x :
           IF c[1] < 0 \/ c[1] > Len(x[1]) THEN Fault(k)
           ELSE PushBytes(k, IF op = "LEFT" THEN SubSeq(x[1], 1, c[1])
                             ELSE SubSeq(x[1], Len(x[1]) - c[1] + 1, Len(x[1])))))
    [] op = "SUBSTR" -> PopAs(m, 2, AsInt64, LAMBDA n, c :
         PopAs(n, 1, AsBytes, LAMBDA k, x :
           IF c[1] < 0 \/ c[1] > Len(x[1]) \/ c[2] < 0 \/ c[2] > Len(x[1]) \/ c[1] + c[2] > Len(x[1])
           THEN Fault(k) ELSE PushBytes(k, SubSeq(x[1], c[1] + 1, c[1] + c[2]))))

(* ---- Arithmetic and logic --------------------------------------------- *)
BinaryOps == {"ADD", "SUB", "MUL", "DIV", "MOD", "MAX", "MIN", "AND", "OR", "XOR", "SHL", "SHR"}
UnaryOps == {"INC", "DEC", "SIGN", "NEGATE", "ABS", "INVERT"}

Binary(op, a, b) ==
  CASE op \in {"DIV", "MOD"} -> DivMod(op, a, b)
    [] op = "SHL" -> Lsh(a, b)
    [] op = "SHR" -> Rsh(a, b)
    [] OTHER -> intOp(op, a, b)

Unary(op, a) ==
  CASE op = "INC" -> intOp("ADD", a, Small(1))
    [] op = "DEC" -> intOp("SUB", a, Small(1))
    [] op = "NEGATE" -> intOp("SUB", Small(0), a)
    [] op = "SIGN" -> <<Small(Cmp(a[2], 0))>>
    [] op = "ABS" -> <<Abs(a)>>
    [] op = "INVERT" -> <<Invert(a)>>

ExecuteInteger(m, op) ==
  IF op \in UnaryOps
  THEN PopAs(m, 1, AsIntValue, LAMBDA n, x : PushAll(n, Unary(op, x[1])))
  ELSE PopAs(m, 2, AsIntValue, LAMBDA n, x : PushAll(n, Binary(op, x[1], x[2])))

(* Comparisons lift the size limit; WITHIN and NZ keep it. *)
CompareOps == {"NUMEQUAL", "NUMNOTEQUAL", "LT", "GT", "LTE", "GTE", "WITHIN", "NZ", "BOOLAND",
               "BOOLOR", "NOT", "EQUAL"}

Compare(op, a, b) ==
  CASE op = "NUMEQUAL" -> a = b
    [] op = "NUMNOTEQUAL" -> a # b
    [] op = "LT" -> a < b
    [] op = "GT" -> a > b
    [] op = "LTE" -> a <= b
    [] op = "GTE" -> a >= b

(* reflect.DeepEqual of two values: same type, and same contents however   *)
(* deep; a pair of cells already under comparison counts as equal.         *)
RECURSIVE DeepEqual(_, _, _, _)
DeepEqual(h, v, w, seen) ==
  LET c == h[v[2]]
      d == h[w[2]]
  IN /\ v[1] = w[1]
     /\ \/ v[2] = w[2]
        \/ /\ v[1] \in {"array", "struct", "map"}
           /\ \/ {v[2], w[2]} \in seen
              \/ /\ c[3] = d[3]
                 /\ DOMAIN c[2] = DOMAIN d[2]
                 /\ \A i \in DOMAIN c[2] :
                      IF v[1] = "map"
                      THEN \A j \in 1..2 :
                             DeepEqual(h, c[2][i][j], d[2][i][j], seen \cup {{v[2], w[2]}})
                      ELSE DeepEqual(h, c[2][i], d[2][i], seen \cup {{v[2], w[2]}})

Equals(m, v, w) ==
  IF AsBytes(v) # <<>> /\ AsBytes(w) # <<>> THEN AsBytes(v) = AsBytes(w)
  ELSE v[1] = w[1] /\ IF v[1] = "struct" THEN DeepEqual(m.heap, v, w, {}) ELSE v[2] = w[2]

ExecuteCompare(m, op) ==
  CASE op \in {"LT", "GT", "LTE", "GTE", "NUMEQUAL", "NUMNOTEQUAL"} ->
         PopAs(m, 2, AsBigInt, LAMBDA n, x : Push(n, Bool(Compare(op, x[1], x[2]))))
    [] op = "WITHIN" -> PopAs(m, 3, AsIntValue, LAMBDA n, x :
         Push(n, Bool(x[2][2] <= x[1][2] /\ x[1][2] < x[3][2])))
    [] op = "NZ" -> PopAs(m, 1, AsIntValue, LAMBDA n, x : Push(n, Bool(x[1][2] # 0)))
    [] op = "NOT" -> PopAs(m, 1, AsBool, LAMBDA n, x : Push(n, Bool(~x[1])))
    [] op = "BOOLAND" -> PopAs(m, 2, AsBool, LAMBDA n, x : Push(n, Bool(x[1] /\ x[2])))
    [] op = "BOOLOR" -> PopAs(m, 2, AsBool, LAMBDA n, x : Push(n, Bool(x[1] \/ x[2])))
    [] op = "EQUAL" -> PopAs(m, 2, AsIs, LAMBDA n, x : Push(n, Bool(Equals(n, x[1], x[2]))))

(* ---- Arrays, structs and maps ----------------------------------------- *)
ArrayOps == {"ARRAYSIZE", "PACK", "UNPACK", "PICKITEM", "SETITEM", "NEWARRAY", "NEWSTRUCT", "NEWMAP",
             "APPEND", "REVERSE", "REMOVE", "HASKEY", "KEYS", "VALUES"}

(* cloneStruct: nested structs are copied, everything else is shared.  The *)
(* count of copied items is checked on entering a struct.                  *)
RECURSIVE cloneStruct(_, _, _)
cloneStruct(m, v, count) ==
  LET src == Cell(m, v)
      item(acc, i) ==
        IF ~acc.ok THEN acc
        ELSE IF src[i][1] # "struct"
        THEN [acc EXCEPT !.count = @ + 1, !.data = Append(@, src[i])]
        ELSE LET sub == cloneStruct(acc.m, src[i], acc.count + 1)
             IN [ok |-> sub.ok, m |-> sub.m, count |-> sub.count, data |-> Append(acc.data, sub.ref)]
      all == FoldLeft(item, [ok |-> TRUE, m |-> m, count |-> count, data |-> <<>>],
                      [i \in 1..Len(src) |-> i])
  IN IF count > CloneLimit THEN [ok |-> FALSE, m |-> m, count |-> count, ref |-> v]
     ELSE [ok |-> all.ok, count |-> all.count, ref |-> NewRef(all.m, "struct"),
           m |-> [all.m EXCEPT !.heap = Append(@, <<"struct", all.data, all.data # <<>> >>)]]

(* A struct is stored by value: SETITEM and APPEND copy it first. *)
ByValue(m, v) ==
  IF v[1] = "struct" THEN cloneStruct(m, v, 0) ELSE [ok |-> TRUE, m |-> m, ref |-> v]

LexLess(s, t) ==
  \E i \in 1..(Len(s) + 1) :
    /\ \A j \in 1..(i - 1) : j <= Len(t) /\ s[j] = t[j]
    /\ i <= Len(t)
    /\ i <= Len(s) => s[i] < t[i]
SortedKeys(f) == SetToSortSeq(DOMAIN f, LexLess)

NewWith(m, kind, data) ==
  IF Len(data) > ArrayLimit THEN Fault(m) ELSE Push(Alloc(m, kind, data), NewRef(m, kind))

Pack(m, size) ==
  IF size < 0 \/ size > Len(m.eval) \/ size > ArrayLimit THEN Fault(m)
  ELSE NewWith(Drop(m, size), "array", [i \in 1..size |-> Peek(m.eval, i - 1)])

InRange(ind, data) == ind # <<>> /\ 0 <= ind[1] /\ ind[1] < Len(data)

PickItem(m, item, index) ==
  LET ind == AsInt64(index)
      key == AsBytes(index)
      buf == AsBytes(item)
  IN CASE item[1] \in {"array", "struct"} ->
            IF InRange(ind, Cell(m, item)) THEN Push(m, Cell(m, item)[ind[1] + 1]) ELSE Fault(m)
       [] item[1] = "map" ->
            IF key # <<>> /\ key[1] \in DOMAIN Cell(m, item)
            THEN Push(m, Cell(m, item)[key[1]][2]) ELSE Fault(m)
       [] OTHER ->
            IF InRange(ind, buf[1]) THEN Push(m, Small(buf[1][ind[1] + 1])) ELSE Fault(m)

SetItem(m, item, index, val) ==
  LET ind == AsInt64(index)
      key == AsBytes(index)
  IN CASE item[1] \in {"array", "struct"} ->
            IF InRange(ind, Cell(m, item))
            THEN SetCell(m, item, [Cell(m, item) EXCEPT ![ind[1] + 1] = val]) ELSE Fault(m)
       [] item[1] = "map" ->
            IF key = <<>> THEN Fault(m)
            ELSE SetCell(m, item, [k \in DOMAIN Cell(m, item) \cup {key[1]} |->
                                     IF k = key[1] THEN <<index, val>> ELSE Cell(m, item)[k]])
       [] OTHER -> Fault(m)

AppendItem(m, arr, val) ==
  IF arr[1] \notin {"array", "struct"} \/ Len(Cell(m, arr)) >= ArrayLimit THEN Fault(m)
  ELSE SetCell(m, arr, Append(Cell(m, arr), val))

RemoveItem(m, item, index) ==
  LET ind == AsInt64(index)
      key == AsBytes(index)
  IN CASE item[1] = "map" ->
            IF key = <<>> THEN Fault(m)
            ELSE SetCell(m, item, [k \in DOMAIN Cell(m, item) \ {key[1]} |-> Cell(m, item)[k]])
       [] item[1] = "array" ->
            IF InRange(ind, Cell(m, item))
            THEN SetCell(m, item, RemoveAt(Cell(m, item), ind[1] + 1)) ELSE Fault(m)
       [] OTHER -> Fault(m)

AsMap(v) == IF v[1] = "map" THEN <<v>> ELSE <<>>
AsArray(v) == IF v[1] = "array" THEN <<v>> ELSE <<>>

ReverseItems(m, v) == IF v[1] \in {"array", "struct"} THEN SetCell(m, v, Reverse(Cell(m, v))) ELSE Fault(m)

HasKey(m, v, key) ==
  IF v[1] # "map" \/ AsBytes(key) = <<>> THEN Fault(m) ELSE Push(m, Bool(AsBytes(key)[1] \in DOMAIN Cell(m, v)))

\* A map's cell holds, per key's bytes, the key and the value.
KeysOrValues(m, v, op) ==
  LET f == Cell(m, v)
      ks == SortedKeys(f)
  IN NewWith(m, "array", [i \in 1..Len(ks) |-> f[ks[i]][IF op = "KEYS" THEN 1 ELSE 2]])

ExecuteArray(m, op) ==
  CASE op = "ARRAYSIZE" -> PopAs(m, 1, AsIs, LAMBDA n, x :
         IF x[1][1] = "array" THEN Push(n, Small(Len(Cell(n, x[1]))))
         ELSE IF AsBytes(x[1]) # <<>> THEN Push(n, Small(Len(AsBytes(x[1])[1]))) ELSE Fault(n))
    [] op = "PACK" -> PopAs(m, 1, AsInt64, LAMBDA n, x : Pack(n, x[1]))
    [] op = "UNPACK" -> PopAs(m, 1, AsArray, LAMBDA n, x :
         PushMany(n, Append(Reverse(Cell(n, x[1])), Small(Len(Cell(n, x[1]))))))
    [] op = "PICKITEM" -> PopAs(m, 2, AsIs, LAMBDA n, x : PickItem(n, x[1], x[2]))
    [] op = "SETITEM" -> PopAs(m, 3, AsIs, LAMBDA n, x :
         LET c == ByValue(n, x[3])
         IN IF c.ok THEN SetItem(c.m, x[1], x[2], c.ref) ELSE Fault(n))
    [] op \in {"NEWARRAY", "NEWSTRUCT"} -> PopAs(m, 1, AsInt64, LAMBDA n, x :
         IF x[1] < 0 \/ x[1] > ArrayLimit THEN Fault(n)
         ELSE NewWith(n, IF op = "NEWARRAY" THEN "array" ELSE "struct",
                      [i \in 1..x[1] |-> Bool(FALSE)]))
    [] op = "NEWMAP" -> NewWith(m, "map", <<>>)
    [] op = "APPEND" -> PopAs(m, 2, AsIs, LAMBDA n, x :
         LET c == ByValue(n, x[2])
         IN IF c.ok THEN AppendItem(c.m, x[1], c.ref) ELSE Fault(n))
    [] op = "REVERSE" -> PopAs(m, 1, AsIs, LAMBDA n, x : ReverseItems(n, x[1]))
    [] op = "REMOVE" -> PopAs(m, 2, AsIs, LAMBDA n, x : RemoveItem(n, x[1], x[2]))
    [] op = "HASKEY" -> PopAs(m, 2, AsIs, LAMBDA n, x : HasKey(n, x[1], x[2]))
    [] op \in {"KEYS", "VALUES"} -> PopAs(m, 1, AsMap, LAMBDA n, x : KeysOrValues(n, x[1], op))

(* ---- Hashes and signatures -------------------------------------------- *)
(* The result of a hash or of a signature check is not interpreted.        *)
HashOps == {"SHA1", "SHA256", "HASH160", "HASH256"}
ExecuteHash(m, digest) == PopAs(m, 1, AsBytes, LAMBDA n, x : PushBytes(n, digest))
ExecuteVerify(m, answer) ==
  PopAs(m, 3, AsBytes, LAMBDA n, x : IF answer = "bad key" THEN Fault(n) ELSE Push(n, Bool(answer = "ok")))

(* ---- The loop of NeoVmService.Invoke ---------------------------------- *)
Running == vm.state = "NONE" /\ vm.ip < Len(program.code)
Op == program.code[vm.ip + 1]
Fetched == Seek(vm, vm.ip + 1)
Disabled == program.disableHasKey /\ Op \in {"HASKEY", "KEYS", "DCALL", "VALUES"}
Executing(ops) == Running /\ ~Disabled /\ Op \in ops

KnownOps == PushOps \cup FlowOps \cup StackOps \cup SpliceOps \cup BinaryOps \cup UnaryOps
            \cup CompareOps \cup ArrayOps \cup HashOps \cup {"VERIFY"}

StepPush == Executing(PushOps) /\ vm' = ExecutePush(Fetched, Op)
StepFlow == Executing(FlowOps) /\ vm' = ExecuteFlow(Fetched, Op)
StepStack == Executing(StackOps) /\ vm' = ExecuteStack(Fetched, Op)
StepSplice == Executing(SpliceOps) /\ vm' = ExecuteSplice(Fetched, Op)
StepInteger == Executing(BinaryOps \cup UnaryOps) /\ vm' = ExecuteInteger(Fetched, Op)
StepCompare == Executing(CompareOps) /\ vm' = ExecuteCompare(Fetched, Op)
StepArray == Executing(ArrayOps) /\ vm' = ExecuteArray(Fetched, Op)
StepHash == Executing(HashOps) /\ \E d \in {<<0>>, <<1>>} : vm' = ExecuteHash(Fetched, d)
StepVerify == Executing({"VERIFY"}) /\ \E a \in {"bad key", "ok", "wrong"} : vm' = ExecuteVerify(Fetched, a)
StepRefused == Running /\ (Disabled \/ Op \notin KnownOps) /\ vm' = Fault(Fetched)
StepEnd == vm.state = "NONE" /\ vm.ip >= Len(program.code) /\ vm' = [vm EXCEPT !.state = "HALT"]

NeoInit ==
  \E s \in Starts :
    /\ program = [code |-> s.code, disableHasKey |-> s.disableHasKey, allowEOF |-> s.allowEOF]
    /\ vm = [eval |-> s.stack, alt |-> <<>>, heap |-> s.heap, callers |-> <<>>, ip |-> 0, state |-> "NONE"]

NeoNext ==
  /\ \/ StepPush \/ StepFlow \/ StepStack \/ StepSplice \/ StepInteger \/ StepCompare
     \/ StepArray \/ StepHash \/ StepVerify \/ StepRefused \/ StepEnd
  /\ UNCHANGED program

NeoSpec == NeoInit /\ [][NeoNext]_neoVars

(* ---- Properties ------------------------------------------------------- *)
(* The limits hold: neither stack passes STACK_LIMIT, no byte string, array *)
(* or call chain its own, and every reference points into the heap.         *)
NeoTypeOK ==
  /\ vm.state \in {"NONE", "HALT", "FAULT"}
  /\ vm.ip \in 0..Len(program.code)
  /\ Len(vm.eval) <= StackLimit /\ Len(vm.alt) <= StackLimit /\ Len(vm.callers) <= CallLimit
  /\ \A i \in DOMAIN vm.eval : vm.eval[i][1] \in {"array", "struct", "map"} =>
        vm.eval[i][2] \in DOMAIN vm.heap /\ vm.heap[vm.eval[i][2]][1] = vm.eval[i][1]

(* The mathematical meaning of an integer opcode, and when it has none. *)
Meaning(op, a, b) ==
  CASE op \in {"SHL", "SHR"} -> IF op = "SHL" THEN a * TwoTo(b) ELSE a \div TwoTo(b)
    [] op = "INC" -> a + 1
    [] op = "DEC" -> a - 1
    [] op = "NEGATE" -> -a
    [] op = "SIGN" -> Cmp(a, 0)
    [] op = "ABS" -> Magnitude(a)
    [] op = "INVERT" -> -a - 1
    [] OTHER -> BigOp(op, a, b)
Meaningless(op, a, b) ==
  \/ op \in {"DIV", "MOD"} /\ b = 0
  \/ op \in {"SHL", "SHR"} /\ ~IsUint64(b)
  \/ op = "SHL" /\ b > MaxBits

(* A step of an integer opcode, and what it must do.                         *)
StepIsExact ==
  LET k == IF Op \in UnaryOps THEN 1 ELSE 2
      x == [i \in 1..k |-> AsBigInt(Peek(vm.eval, k - i))]
      a == x[1][1]
      b == IF k = 2 THEN x[2][1] ELSE 0
      legal == Len(vm.eval) >= k /\ \A i \in 1..k : x[i] # <<>> /\ Fits(x[i][1])
      n == IF Op = "DIV" /\ a = MinInt64 /\ b = -1 THEN a
           ELSE IF Op = "SHR" /\ b > MaxBits THEN IF a < 0 THEN -1 ELSE 0
           ELSE Meaning(Op, a, b)
  IN IF legal /\ ~Meaningless(Op, a, b) /\ (Op = "INVERT" \/ Fits(n))
     THEN /\ vm'.state = "NONE"
          /\ Len(vm'.eval) = Len(vm.eval) - k + 1
          /\ Peek(vm'.eval, 0) = IF IsInt64(n) THEN Small(n) ELSE Big(n)
     ELSE vm'.state = "FAULT"

(* Every integer opcode computes on int64 pairs, on pairs of big integers   *)
(* and on mixed ones what the mathematical operation yields, in the one     *)
(* representation that other opcodes expect (int64 whenever it fits), and   *)
(* faults exactly when an operand is no integer of MAX_INT_SIZE, the        *)
(* operation has no result, or the result is too large.  Two exceptions     *)
(* are part of the code: the most negative int64 divided by -1 wraps, and   *)
(* INVERT does not check the size of its result (IntValue, ExecuteOp).      *)
IntegersExact == [][StepInteger => StepIsExact]_neoVars
============================================================================
