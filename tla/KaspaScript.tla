---------------------------- MODULE KaspaScript ----------------------------
(***************************************************************************)
(* The Kaspa script interpreter of frychain-vm: kaspa.rs.  A machine m is  *)
(* the state of one KaspaVM, which runs an input script and then the       *)
(* contract's own script on one stack, and n is the machine one opcode     *)
(* later.  A script is read from its first byte to its last without jumps, *)
(* so it is a sequence of tokens here: an opcode by its name, and a push   *)
(* with the bytes it pushes.                                               *)
(***************************************************************************)
EXTENDS Gas, Integers, Sequences, SequencesExt, Bits

CONSTANTS
  NUM_BYTES,            \* 8: the longest element that reads as a number
  MAX_STACK_SIZE,       \* 1000
  MAX_SCRIPT_SIZE,      \* 10000
  MAX_ELEMENT_SIZE,     \* 520
  MAX_OPS_PER_SCRIPT,   \* 201
  OverflowChecks,       \* TRUE for the dev profile, FALSE for the release one
  Tx,                   \* the ScriptTxContext
  Digest(_, _)          \* the 32 bytes of a hash function on some bytes

Word == 256 ^ NUM_BYTES

-----------------------------------------------------------------------------
\* ScriptElement: bytes; a number is its magnitude, least significant byte
\* first, with the sign in the last byte's top bit
Magnitude[n \in Nat] == IF n = 0 THEN <<>> ELSE <<n % 256>> \o Magnitude[n \div 256]

FromNum(n) ==
  LET bytes == Magnitude[IF n < 0 THEN -n ELSE n]
      sign  == IF n < 0 THEN 128 ELSE 0
  IN  IF n = 0 THEN <<>>
      ELSE IF Last(bytes) >= 128 THEN Append(bytes, sign)
      ELSE Append(Front(bytes), Last(bytes) + sign)

IsNum(e) == Len(e) <= NUM_BYTES
ToNum(e) ==
  LET Value(bytes) == FoldRight(LAMBDA b, high : b + 256 * high, bytes, 0)
  IN  IF e = <<>> THEN 0
      ELSE IF Last(e) >= 128 THEN -Value(Append(Front(e), Last(e) - 128))
      ELSE Value(e)

\* False are the elements of zeros, whatever their sign
IsTrue(e) == \E i \in DOMAIN e : (IF i = Len(e) THEN e[i] % 128 ELSE e[i]) # 0

Truth(b) == IF b THEN <<1>> ELSE <<>>

\* An i64 result of checked or wrapping arithmetic
Signed(n) == LET u == n % Word IN IF u >= Word \div 2 THEN u - Word ELSE u

\* The bytes a token takes in a script
TokenSize(t) ==
  IF t.op # "Push" THEN 1
  ELSE Len(t.data) + (IF Len(t.data) <= 75 THEN 1 ELSE IF Len(t.data) <= 255 THEN 2 ELSE 3)

ScriptSize(script) == FoldLeft(LAMBDA n, t : n + TokenSize(t), 0, script)

\* The VM when execute starts on an input script and the contract's script
Boot(input, script, limit) ==
  [lang |-> "kaspa", scripts |-> <<input, script>>, at |-> 1, pc |-> 0,
   stack |-> <<>>, alt |-> <<>>, exec |-> <<>>, store |-> <<>>, logs |-> <<>>,
   ops |-> 0, gas |-> NewMeter(limit), steps |-> 0,
   status |-> IF ScriptSize(script) > MAX_SCRIPT_SIZE THEN "failed" ELSE "running"]

Running(m) == m.lang = "kaspa" /\ m.status = "running"
Script(m) == m.scripts[m.at]
Token(m) == Script(m)[m.pc + 1]

\* Inside no conditional whose branch is skipped
Executing(m) == \A i \in DOMAIN m.exec : m.exec[i]

Fetched(m) == [m EXCEPT !.pc = @ + 1, !.gas = Consume(@, BASE), !.ops = @ + 1, !.steps = @ + 1]

Failed(m) == [m EXCEPT !.status = "failed"]
Panics(m) == [m EXCEPT !.status = "panicked"]
Charge(m, amount) ==
  IF HasGas(m.gas, amount) THEN [m EXCEPT !.gas = Consume(@, amount)]
  ELSE Failed([m EXCEPT !.gas = Consume(@, amount)])

Push(m, e) ==
  IF m.status # "running" THEN m
  ELSE IF Len(m.stack) >= MAX_STACK_SIZE \/ Len(e) > MAX_ELEMENT_SIZE THEN Failed(m)
  ELSE [m EXCEPT !.stack = Append(@, e)]

PushAll(m, es) ==
  LET pushed[k \in 0..Len(es)] == IF k = 0 THEN m ELSE Push(pushed[k - 1], es[k])
  IN  pushed[Len(es)]

\* The i-th element from the top, and the VM without the n topmost ones
Top(m, i) == m.stack[Len(m.stack) + 1 - i]
Num(m, i) == ToNum(Top(m, i))
Drop(m, n) == [m EXCEPT !.stack = SubSeq(@, 1, Len(@) - n)]
Has(m, n) == Len(m.stack) >= n
HasNums(m, n) == Has(m, n) /\ \A i \in 1..n : IsNum(Top(m, i))

\* A step: the next token is one of ops, its cost is there and the count of
\* opcodes, which runs on through both scripts, allows it
AtEnd(m) == m.pc >= Len(Script(m))
AtLimit(m) == m.ops >= MAX_OPS_PER_SCRIPT
Ready(m) == Running(m) /\ ~AtEnd(m) /\ HasGas(m.gas, BASE) /\ ~AtLimit(m)
Fetch(m, ops) == Ready(m) /\ Executing(m) /\ Token(m).op \in ops

OutOfGas(m, n) == Running(m) /\ ~AtEnd(m) /\ ~HasGas(m.gas, BASE) /\ n = Failed(Fetched(m))

TooManyOps(m, n) ==
  Running(m) /\ ~AtEnd(m) /\ HasGas(m.gas, BASE) /\ AtLimit(m) /\ n = Failed(Fetched(m))

-----------------------------------------------------------------------------
\* Pushes: bytes, Op0, Op1Negate and Op1 to Op16 as numbers.  "CutPush" is a
\* push that runs past the script's end, "CutLength" one without its length.
PushOp(m, n) == Fetch(m, {"Push", "Num"}) /\
  n = Push(Fetched(m), IF Token(m).op = "Push" THEN Token(m).data ELSE FromNum(Token(m).n))

CutPush(m, n) ==
  \/ Fetch(m, {"CutPush"}) /\ n = Failed(Fetched(m))
  \/ Ready(m) /\ Token(m).op = "CutLength" /\ n = Failed(Fetched(m))

\* Control flow.  A conditional inside a skipped branch is skipped whole.
If(m, n) ==
  /\ Ready(m)
  /\ Token(m).op \in {"If", "NotIf"}
  /\ n = IF ~Executing(m) THEN [Fetched(m) EXCEPT !.exec = Append(@, FALSE)]
           ELSE IF ~Has(m, 1) THEN Failed(Fetched(m))
           ELSE [Drop(Fetched(m), 1) EXCEPT !.exec = Append(@, IsTrue(Top(m, 1)) <=> Token(m).op = "If")]

\* Mutant: an else flips its conditional inside a skipped branch too
ElseAlways(m, n) ==
  /\ Ready(m)
  /\ Token(m).op = "Else"
  /\ n = IF m.exec = <<>> THEN Failed(Fetched(m)) ELSE [Fetched(m) EXCEPT !.exec[Len(m.exec)] = ~@]

\* Only the conditional whose enclosing ones are all executing flips
Else(m, n) ==
  /\ Ready(m)
  /\ Token(m).op = "Else"
  /\ n = IF m.exec = <<>> THEN Failed(Fetched(m))
           ELSE IF \A i \in 1..(Len(m.exec) - 1) : m.exec[i]
           THEN [Fetched(m) EXCEPT !.exec[Len(m.exec)] = ~@]
           ELSE Fetched(m)

EndIf(m, n) ==
  /\ Ready(m)
  /\ Token(m).op = "EndIf"
  /\ n = IF m.exec = <<>> THEN Failed(Fetched(m)) ELSE [Fetched(m) EXCEPT !.exec = Front(@)]

\* In a skipped branch every other opcode is passed over, a known one or not
Skip(m, n) ==
  /\ Ready(m)
  /\ ~Executing(m)
  /\ Token(m).op \notin {"If", "NotIf", "Else", "EndIf", "CutLength"}
  /\ n = Fetched(m)

Verify(m, n) ==
  /\ Fetch(m, {"Verify", "EqualVerify", "NumEqualVerify"})
  /\ n = CASE Token(m).op = "Verify" ->
                  IF Has(m, 1) /\ IsTrue(Top(m, 1)) THEN Drop(Fetched(m), 1) ELSE Failed(Fetched(m))
             [] Token(m).op = "EqualVerify" ->
                  IF Has(m, 2) /\ Top(m, 1) = Top(m, 2) THEN Drop(Fetched(m), 2) ELSE Failed(Fetched(m))
             [] Token(m).op = "NumEqualVerify" ->
                  IF HasNums(m, 2) /\ Num(m, 1) = Num(m, 2) THEN Drop(Fetched(m), 2) ELSE Failed(Fetched(m))

\* OpReturn and the reserved opcodes
Fault(m, n) == Fetch(m, {"Return", "Reserved"}) /\ n = Failed(Fetched(m))

\* The NOPs, and OpCodeSeparator, whose position nothing reads
Nop(m, n) == Fetch(m, {"Nop", "CodeSeparator"}) /\ n = Fetched(m)

-----------------------------------------------------------------------------
\* Stack operations: what an opcode takes off the top, and what it puts back
Rearranges == [
  Drop2 |-> 2, Dup2 |-> 2, Dup3 |-> 3, Drop1 |-> 1, Dup |-> 1, Nip |-> 2, Over |-> 2,
  Rot |-> 3, Swap |-> 2]

Rearranged(m, op) ==
  LET a == Top(m, 1)
      b == Top(m, 2)
      c == Top(m, 3)
  IN  CASE op \in {"Drop2", "Drop1"} -> <<>>
        [] op = "Dup2" -> <<b, a, b, a>>
        [] op = "Dup3" -> <<c, b, a, c, b, a>>
        [] op = "Dup" -> <<a, a>>
        [] op = "Nip" -> <<a>>
        [] op = "Over" -> <<b, a, b>>
        [] op = "Rot" -> <<b, a, c>>
        [] op = "Swap" -> <<a, b>>

Rearrange(m, n) ==
  /\ Fetch(m, DOMAIN Rearranges)
  /\ LET count == Rearranges[Token(m).op]
     IN  n = IF Has(m, count) THEN PushAll(Drop(Fetched(m), count), Rearranged(m, Token(m).op))
               ELSE Failed(Fetched(m))

\* OpTuck inserts below the two topmost without the stack's limit
Tuck(m, n) ==
  /\ Fetch(m, {"Tuck"})
  /\ n = IF Has(m, 2) THEN [Fetched(m) EXCEPT !.stack = InsertAt(@, Len(@) - 1, Top(m, 1))]
           ELSE Failed(Fetched(m))

ToAlt(m, n) ==
  /\ Fetch(m, {"ToAltStack"})
  /\ n = IF Has(m, 1) THEN [Drop(Fetched(m), 1) EXCEPT !.alt = Append(@, Top(m, 1))]
           ELSE Failed(Fetched(m))

FromAlt(m, n) ==
  /\ Fetch(m, {"FromAltStack"})
  /\ n = IF m.alt # <<>> THEN Push([Fetched(m) EXCEPT !.alt = Front(@)], Last(m.alt))
           ELSE Failed(Fetched(m))

\* OpPick copies, OpRoll moves the n-th element under the number
Pick(m, n) ==
  /\ Fetch(m, {"Pick", "Roll"})
  /\ LET down == Num(m, 1)
         rest == Drop(Fetched(m), 1)
         from == Len(m.stack) - 1 - down
     IN  n = IF ~HasNums(m, 1) \/ down \notin 0..(Len(m.stack) - 2) THEN Failed(Fetched(m))
               ELSE IF Token(m).op = "Pick" THEN Push(rest, m.stack[from])
               ELSE Push([rest EXCEPT !.stack = RemoveAt(@, from)], m.stack[from])

Depth(m, n) == Fetch(m, {"Depth"}) /\ n = Push(Fetched(m), FromNum(Len(m.stack)))

IfDup(m, n) ==
  /\ Fetch(m, {"IfDup"})
  /\ n = IF Has(m, 1) /\ IsTrue(Top(m, 1)) THEN Push(Fetched(m), Top(m, 1)) ELSE Fetched(m)

-----------------------------------------------------------------------------
\* Splice operations; a negative size or start is a huge one, and a sum of the
\* two that overflows panics unless it wraps to one that is out of range too
Unsigned(n) == n % Word

Cat(m, n) ==
  /\ Fetch(m, {"Cat"})
  /\ n = IF Has(m, 2) THEN Push(Drop(Fetched(m), 2), Top(m, 2) \o Top(m, 1)) ELSE Failed(Fetched(m))

SubStr(m, n) ==
  /\ Fetch(m, {"SubStr"})
  /\ LET size  == Unsigned(Num(m, 1))
         begin == Unsigned(Num(m, 2))
         end   == begin + size
         s     == Top(m, 3)
     IN  n = IF ~(Has(m, 3) /\ HasNums(m, 2)) THEN Failed(Fetched(m))
               ELSE IF end >= Word /\ (OverflowChecks \/ end - Word <= Len(s)) THEN Panics(Fetched(m))
               ELSE IF end > Len(s) THEN Failed(Fetched(m))
               ELSE Push(Drop(Fetched(m), 3), SubSeq(s, begin + 1, end))

Side(m, n) ==
  /\ Fetch(m, {"Left", "Right"})
  /\ LET size == Unsigned(Num(m, 1))
         s    == Top(m, 2)
     IN  n = IF ~(Has(m, 2) /\ HasNums(m, 1)) \/ size > Len(s) THEN Failed(Fetched(m))
               ELSE Push(Drop(Fetched(m), 2), IF Token(m).op = "Left" THEN SubSeq(s, 1, size)
                                           ELSE SubSeq(s, Len(s) - size + 1, Len(s)))

SizeOp(m, n) ==
  /\ Fetch(m, {"Size"})
  /\ n = IF Has(m, 1) THEN Push(Fetched(m), FromNum(Len(Top(m, 1)))) ELSE Failed(Fetched(m))

Invert(m, n) ==
  /\ Fetch(m, {"Invert", "Not"})
  /\ n = IF ~Has(m, 1) THEN Failed(Fetched(m))
           ELSE Push(Drop(Fetched(m), 1), IF Token(m).op = "Not" THEN Truth(~IsTrue(Top(m, 1)))
                                       ELSE [i \in DOMAIN Top(m, 1) |-> 255 - Top(m, 1)[i]])

\* Two elements to one: byte by byte over the shorter length, or a truth value
Combined(op, a, b) ==
  LET Each(F(_, _)) == [i \in 1..(IF Len(a) < Len(b) THEN Len(a) ELSE Len(b)) |-> F(a[i], b[i])]
  IN  CASE op = "And" -> Each(BitAnd)
        [] op = "Or" -> Each(BitOr)
        [] op = "Xor" -> Each(BitXor)
        [] op = "Equal" -> Truth(a = b)
        [] op = "BoolAnd" -> Truth(IsTrue(a) /\ IsTrue(b))
        [] op = "BoolOr" -> Truth(IsTrue(a) \/ IsTrue(b))

Combine(m, n) ==
  /\ Fetch(m, {"And", "Or", "Xor", "Equal", "BoolAnd", "BoolOr"})
  /\ n = IF Has(m, 2) THEN Push(Drop(Fetched(m), 2), Combined(Token(m).op, Top(m, 2), Top(m, 1)))
           ELSE Failed(Fetched(m))

-----------------------------------------------------------------------------
\* Arithmetic on script numbers.  Division truncates towards zero.
Quotient(a, b) ==
  LET q == (IF a < 0 THEN -a ELSE a) \div (IF b < 0 THEN -b ELSE b)
  IN  IF (a < 0) <=> (b < 0) THEN q ELSE -q

BIT_COUNT == 8 * NUM_BYTES
Bit(b) == IF b THEN 1 ELSE 0

Unary(op, a) ==
  CASE op = "Add1" -> a + 1
    [] op = "Sub1" -> a - 1
    [] op = "Negate" -> -a
    [] op = "Abs" -> IF a < 0 THEN -a ELSE a
    [] op = "NotEqual0" -> Bit(a # 0)

Binary(op, a, b) ==
  CASE op = "Add" -> a + b
    [] op = "Sub" -> a - b
    [] op = "Mul" -> a * b
    [] op = "Div" -> Quotient(a, b)
    [] op = "Mod" -> a - b * Quotient(a, b)
    [] op = "LShift" -> Signed(a * 2 ^ (b % BIT_COUNT))
    [] op = "RShift" -> a \div 2 ^ (b % BIT_COUNT)
    [] op = "NumEqual" -> Bit(a = b)
    [] op = "NumNotEqual" -> Bit(a # b)
    [] op = "LessThan" -> Bit(a < b)
    [] op = "GreaterThan" -> Bit(a > b)
    [] op = "LessThanOrEqual" -> Bit(a <= b)
    [] op = "GreaterThanOrEqual" -> Bit(a >= b)
    [] op = "Min" -> IF a < b THEN a ELSE b
    [] op = "Max" -> IF a > b THEN a ELSE b

UnaryOps == {"Add1", "Sub1", "Negate", "Abs", "NotEqual0"}
BinaryOps == {"Add", "Sub", "Mul", "Div", "Mod", "LShift", "RShift", "NumEqual", "NumNotEqual",
              "LessThan", "GreaterThan", "LessThanOrEqual", "GreaterThanOrEqual", "Min", "Max"}

\* The number an operation leaves; beyond an i64 it panics or wraps
Leaves(m, n) ==
  IF OverflowChecks /\ Signed(n) # n THEN Panics(m) ELSE Push(m, FromNum(Signed(n)))

Arithmetic1(m, n) ==
  /\ Fetch(m, UnaryOps)
  /\ n = IF HasNums(m, 1) THEN Leaves(Drop(Fetched(m), 1), Unary(Token(m).op, Num(m, 1)))
           ELSE Failed(Fetched(m))

Arithmetic2(m, n) ==
  /\ Fetch(m, BinaryOps)
  /\ LET a == Num(m, 2)
         b == Num(m, 1)
     IN  n = IF ~HasNums(m, 2) \/ (Token(m).op \in {"Div", "Mod"} /\ b = 0) THEN Failed(Fetched(m))
               ELSE IF OverflowChecks /\ Token(m).op \in {"LShift", "RShift"} /\ b \notin 0..(BIT_COUNT - 1)
               THEN Panics(Fetched(m))
               ELSE Leaves(Drop(Fetched(m), 2), Binary(Token(m).op, a, b))

Within(m, n) ==
  /\ Fetch(m, {"Within"})
  /\ n = IF HasNums(m, 3)
           THEN Push(Drop(Fetched(m), 3), Truth(Num(m, 2) <= Num(m, 3) /\ Num(m, 3) < Num(m, 1)))
           ELSE Failed(Fetched(m))

-----------------------------------------------------------------------------
\* OpSha256 and OpHash256 pay for the bytes after the pop; OpHash160, the first
\* 20 bytes of the hash, does not
HashOp(m, n) ==
  /\ Fetch(m, {"Sha256", "Hash256", "Hash160"})
  /\ LET paid == Charge(Fetched(m), SHA3_BASE)
         all  == IF Token(m).op = "Hash160" THEN paid ELSE Charge(paid, SHA3_WORD * Words(Len(Top(m, 1))))
         hash == Digest("sha256", Top(m, 1))
     IN  n = IF paid.status # "running" \/ ~Has(m, 1) THEN Failed(paid)
               ELSE Push(Drop(all, 1),
                         CASE Token(m).op = "Sha256" -> hash
                           [] Token(m).op = "Hash256" -> Digest("sha256", hash)
                           [] Token(m).op = "Hash160" -> SubSeq(hash, 1, 20))

\* A single signature always verifies
CheckSig(m, n) ==
  /\ Fetch(m, {"CheckSig", "CheckSigVerify"})
  /\ n = IF ~Has(m, 2) THEN Failed(Fetched(m))
           ELSE IF Token(m).op = "CheckSig" THEN Push(Drop(Fetched(m), 2), Truth(TRUE))
           ELSE Drop(Fetched(m), 2)

\* The keys, the signatures and one more element are popped; no more signatures
\* than keys is enough
MultiSig(m, n) ==
  /\ Fetch(m, {"CheckMultiSig", "CheckMultiSigVerify"})
  /\ LET keys == Num(m, 1)
         sigs == Num(m, keys + 2)
         count == keys + sigs + 3
         popped == /\ HasNums(m, 1) /\ keys \in Nat
                   /\ Has(m, keys + 2) /\ IsNum(Top(m, keys + 2)) /\ sigs \in Nat
                   /\ Has(m, count)
     IN  n = IF ~popped THEN Failed(Fetched(m))
               ELSE IF Token(m).op = "CheckMultiSig" THEN Push(Drop(Fetched(m), count), Truth(sigs <= keys))
               ELSE IF sigs <= keys THEN Drop(Fetched(m), count) ELSE Failed(Fetched(m))

\* The number stays on the stack; a context without inputs has no sequence
LockTime(m, n) ==
  /\ Fetch(m, {"CheckLockTimeVerify", "CheckSequenceVerify"})
  /\ LET limited == Token(m).op = "CheckLockTimeVerify" \/ Tx.index < Len(Tx.inputs)
         limit == IF Token(m).op = "CheckLockTimeVerify" THEN Tx.lockTime
                  ELSE Tx.inputs[Tx.index + 1].sequence
     IN  n = IF HasNums(m, 1) /\ Num(m, 1) >= 0 /\ (limited => Num(m, 1) <= limit) THEN Fetched(m)
               ELSE Failed(Fetched(m))

\* KIP-1: the transaction looked at by the script; out of range reads as nothing
TxField(m, n) ==
  /\ Fetch(m, {"InputIndex", "OutputCount", "InputCount", "TxVersion", "TxLockTime"})
  /\ n = Push(Fetched(m), FromNum(CASE Token(m).op = "InputIndex" -> Tx.index
                                   [] Token(m).op = "OutputCount" -> Len(Tx.outputs)
                                   [] Token(m).op = "InputCount" -> Len(Tx.inputs)
                                   [] Token(m).op = "TxVersion" -> Tx.version
                                   [] Token(m).op = "TxLockTime" -> Tx.lockTime))

TxEntry(m, n) ==
  /\ Fetch(m, {"OutputBytecode", "InputBytecode", "OutputValue", "InputValue"})
  /\ LET list == IF Token(m).op \in {"OutputBytecode", "OutputValue"} THEN Tx.outputs ELSE Tx.inputs
         i    == Num(m, 1) + 1
     IN  n = IF ~HasNums(m, 1) THEN Failed(Fetched(m))
               ELSE Push(Drop(Fetched(m), 1),
                         IF i \notin DOMAIN list THEN <<>>
                         ELSE IF Token(m).op \in {"OutputBytecode", "InputBytecode"} THEN list[i].script
                         ELSE FromNum(Signed(list[i].value)))

-----------------------------------------------------------------------------
\* State that lives as long as the VM: charged before anything is popped
StateGet(m, n) ==
  /\ Fetch(m, {"StateGet"})
  /\ LET paid == Charge(Fetched(m), SLOAD)
     IN  n = IF paid.status # "running" \/ ~Has(m, 1) THEN Failed(paid)
               ELSE Push(Drop(paid, 1), IF Top(m, 1) \in DOMAIN m.store THEN m.store[Top(m, 1)] ELSE <<>>)

StatePut(m, n) ==
  /\ Fetch(m, {"StatePut"})
  /\ LET paid == Charge(Fetched(m), SSTORE_SET)
     IN  n = IF paid.status # "running" \/ ~Has(m, 2) THEN Failed(paid)
               ELSE [Drop(paid, 2) EXCEPT !.store = (Top(m, 2) :> Top(m, 1)) @@ @]

StateDelete(m, n) ==
  /\ Fetch(m, {"StateDelete"})
  /\ LET paid == Charge(Fetched(m), SSTORE_RESET)
     IN  n = IF paid.status # "running" \/ ~Has(m, 1) THEN Failed(paid)
               ELSE [Drop(paid, 1) EXCEPT !.store = [k \in DOMAIN @ \ {Top(m, 1)} |-> @[k]]]

EmitEvent(m, n) ==
  /\ Fetch(m, {"EmitEvent"})
  /\ LET paid == Charge(Fetched(m), LOG)
         all  == Charge(paid, LOG_DATA * Len(Top(m, 1)))
     IN  n = IF paid.status # "running" \/ ~Has(m, 2) THEN Failed(paid)
               ELSE IF all.status # "running" THEN all
               ELSE [Drop(all, 2) EXCEPT
                       !.logs = Append(@, [topic |-> Digest("sha3", Top(m, 2)), data |-> Top(m, 1)])]

-----------------------------------------------------------------------------
\* The input script's stack, conditionals, gas and count of opcodes carry over
EndOfScript(m, n) ==
  /\ Running(m)
  /\ AtEnd(m)
  /\ n = IF m.at = 1 THEN [m EXCEPT !.at = 2, !.pc = 0] ELSE [m EXCEPT !.status = "done"]

Step(m, n) ==
  \/ OutOfGas(m, n) \/ TooManyOps(m, n) \/ PushOp(m, n) \/ CutPush(m, n) \/ If(m, n)
  \/ Else(m, n) \/ EndIf(m, n) \/ Skip(m, n) \/ Verify(m, n) \/ Fault(m, n) \/ Nop(m, n)
  \/ Rearrange(m, n) \/ Tuck(m, n) \/ ToAlt(m, n) \/ FromAlt(m, n) \/ Pick(m, n) \/ Depth(m, n)
  \/ IfDup(m, n) \/ Cat(m, n) \/ SubStr(m, n) \/ Side(m, n) \/ SizeOp(m, n) \/ Invert(m, n)
  \/ Combine(m, n) \/ Arithmetic1(m, n) \/ Arithmetic2(m, n) \/ Within(m, n) \/ HashOp(m, n)
  \/ CheckSig(m, n) \/ MultiSig(m, n) \/ LockTime(m, n) \/ TxField(m, n) \/ TxEntry(m, n)
  \/ StateGet(m, n) \/ StatePut(m, n) \/ StateDelete(m, n) \/ EmitEvent(m, n)
  \/ EndOfScript(m, n)

\* What execute returns; a false result is a failure that keeps its logs
Succeeds(m) == m.status = "done" /\ m.stack # <<>> /\ IsTrue(Last(m.stack))
Answer(m) == IF Succeeds(m) THEN Last(m.stack) ELSE <<>>

-----------------------------------------------------------------------------
\* compile_kaspa_script: a line is the tokens written on it, and only the first
\* of them (with its bytes, for a push) is compiled
Compile(source) ==
  FlattenSeq([i \in DOMAIN source |-> IF source[i] = <<>> THEN <<>> ELSE <<Head(source[i])>>])

Op(name) == [op |-> name]
PushBytes(b) == [op |-> "Push", data |-> b]
PushNum(n) == [op |-> "Num", n |-> n]

\* create_p2pkh_script, create_p2sh_script, create_multisig_script
P2PKH(hash) == <<Op("Dup"), Op("Hash160"), PushBytes(hash), Op("EqualVerify"), Op("CheckSig")>>
P2SH(hash) == <<Op("Hash160"), PushBytes(hash), Op("Equal")>>
MultiSigScript(m, keys) ==
  <<PushNum(m)>> \o [i \in DOMAIN keys |-> PushBytes(keys[i])]
    \o <<PushNum(Len(keys)), Op("CheckMultiSig")>>

=============================================================================
