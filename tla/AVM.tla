-------------------------------- MODULE AVM --------------------------------
(***************************************************************************)
(* The AVM/TEAL interpreter of frychain-vm: avm.rs.  A machine m is the    *)
(* state of one AVMInterpreter, n the machine one instruction later; an    *)
(* instruction that fails ends the program.  A program is its bytes, since *)
(* the code reads operands, constants and jump offsets byte by byte.       *)
(***************************************************************************)
EXTENDS Gas, Integers, Sequences, FiniteSetsExt, SequencesExt

CONSTANTS
  U64,              \* 2^64
  MAX_STACK_DEPTH,   \* 1000
  Digest(_, _)       \* the 32 bytes of a hash function on some bytes

\* A StackValue
Uint64(n) == [int |-> n]
Bytes(b) == [bytes |-> b]
AsBool(v) == IF "int" \in DOMAIN v THEN v.int # 0 ELSE \E i \in DOMAIN v.bytes : v.bytes[i] # 0
Truth(b) == Uint64(IF b THEN 1 ELSE 0)

\* The interpreter of a program when its execution starts: past the version
\* byte, or refused because of it
Boot(code, limit) ==
  [lang |-> "avm", code |-> code, pc |-> 1, stack |-> <<>>, ints |-> <<>>, bytes |-> <<>>,
   globals |-> <<>>, logs |-> <<>>, gas |-> NewMeter(limit), steps |-> 0,
   status |-> IF code = <<>> \/ code[1] > 10 THEN "failed" ELSE "running"]

Running(m) == m.lang = "avm" /\ m.status = "running"

\* The bytes of the program, counted from 0; only read below Size
Byte(m, i) == m.code[i + 1]
Size(m) == Len(m.code)
Opcode(m) == Byte(m, m.pc)

\* Mutant: an instruction costs nothing
FetchedFree(m) == [m EXCEPT !.pc = @ + 1]

\* The machine after the opcode is fetched and paid for
Fetched(m) == [m EXCEPT !.pc = @ + 1, !.gas = Consume(@, BASE), !.steps = @ + 1]

Failed(m) == [m EXCEPT !.status = "failed"]
Panics(m) == [m EXCEPT !.status = "panicked"]

Charge(m, amount) ==
  IF HasGas(m.gas, amount) THEN [m EXCEPT !.gas = Consume(@, amount)]
  ELSE Failed([m EXCEPT !.gas = Consume(@, amount)])

Push(m, v) ==
  IF m.status # "running" THEN m
  ELSE IF Len(m.stack) >= MAX_STACK_DEPTH THEN Failed(m)
  ELSE [m EXCEPT !.stack = Append(@, v)]

\* The i-th value from the top, and the machine without the n topmost ones
Top(m, i) == m.stack[Len(m.stack) + 1 - i]
Drop(m, n) == [m EXCEPT !.stack = SubSeq(@, 1, Len(@) - n)]

\* The top of the stack holds values of these types, the topmost first ("any"
\* for those the instruction converts itself)
Holds(m, types) ==
  /\ m.status = "running"
  /\ Len(m.stack) >= Len(types)
  /\ \A i \in DOMAIN types : types[i] \in {"any"} \cup DOMAIN Top(m, i)

\* The program ran off its end, or jumped past it
AtEnd(m) == m.pc >= Size(m)

\* An instruction's fetch: the next opcode is one of ops, and its base cost is
\* there.  Where it is not, OutOfGas is the step.
Fetch(m, ops) == Running(m) /\ ~AtEnd(m) /\ Opcode(m) \in ops /\ HasGas(m.gas, BASE)

OutOfGas(m, n) == Running(m) /\ ~AtEnd(m) /\ ~HasGas(m.gas, BASE) /\ n = Failed(Fetched(m))

-----------------------------------------------------------------------------
\* read_varuint at pc: seven bits to a byte, least significant first, at most
\* ten bytes
VarEnds(m, pc) == {n \in 1..10 : pc + n <= Size(m) /\ Byte(m, pc + n - 1) < 128}
VarReads(m, pc) == VarEnds(m, pc) # {}
VarSize(m, pc) == Min(VarEnds(m, pc))
VarValue(m, pc) ==
  FoldRight(LAMBDA b, high : ((b % 128) + 128 * high) % U64,
            SubSeq(m.code, pc + 1, pc + VarSize(m, pc)), 0)

\* intcblock: count constants are read, but the first from where the count
\* itself stands; pc passes the count only at the end
ReadInt(m) ==
  IF m.status # "running" THEN m
  ELSE IF ~VarReads(m, m.pc) THEN Failed(m)
  ELSE [m EXCEPT !.ints = Append(@, VarValue(m, m.pc)), !.pc = @ + VarSize(m, m.pc)]

\* count constants are read one after the other; more than the program has
\* bytes cannot be
ReadAll(Read(_), m, count) ==
  LET read[i \in 0..(Size(m) + 1)] == IF i = 0 THEN m ELSE Read(read[i - 1])
  IN  read[IF count \in 0..Size(m) THEN count ELSE Size(m) + 1]

\* Mutant: the constants are read from behind the count
IntConstantsSkipped(m) ==
  ReadAll(ReadInt, [m EXCEPT !.pc = @ + VarSize(m, m.pc)], VarValue(m, m.pc))

IntConstants(m) ==
  [ReadAll(ReadInt, m, VarValue(m, m.pc)) EXCEPT !.pc = @ + VarSize(m, m.pc)]

IntcBlock(m, n) ==
  /\ Fetch(m, {32})
  /\ n = IF VarReads(m, m.pc + 1) THEN IntConstants(Fetched(m)) ELSE Failed(Fetched(m))

\* bytecblock: a length that runs past the program is a slice out of range
ReadBytes(m) ==
  IF m.status # "running" THEN m
  ELSE IF ~VarReads(m, m.pc) THEN Failed(m)
  ELSE LET from == m.pc + VarSize(m, m.pc)
           to   == from + VarValue(m, m.pc)
       IN  IF to > Size(m) THEN Panics(m)
           ELSE [m EXCEPT !.bytes = Append(@, SubSeq(m.code, from + 1, to)), !.pc = to]

BytecBlock(m, n) ==
  /\ Fetch(m, {33})
  /\ n = IF ~VarReads(m, m.pc + 1) THEN Failed(Fetched(m))
           ELSE ReadAll(ReadBytes, [Fetched(m) EXCEPT !.pc = @ + VarSize(m, m.pc + 1)], VarValue(m, m.pc + 1))

\* A constant that was never loaded reads as 0 or as no bytes
IntAt(m, i) == Uint64(IF i < Len(m.ints) THEN m.ints[i + 1] ELSE 0)
BytesAt(m, i) == Bytes(IF i < Len(m.bytes) THEN m.bytes[i + 1] ELSE <<>>)

\* intc, bytec: the index is the next byte, read without a check
IndexedConstant(m, n) ==
  /\ Fetch(m, {34, 35})
  /\ n = IF m.pc + 1 >= Size(m) THEN Panics(Fetched(m))
           ELSE Push([Fetched(m) EXCEPT !.pc = @ + 1],
                     IF Opcode(m) = 34 THEN IntAt(m, Byte(m, m.pc + 1)) ELSE BytesAt(m, Byte(m, m.pc + 1)))

\* intc_0 to intc_3, bytec_0 to bytec_3
NamedConstant(m, n) ==
  /\ Fetch(m, 36..43)
  /\ n = Push(Fetched(m), IF Opcode(m) < 40 THEN IntAt(m, Opcode(m) - 36) ELSE BytesAt(m, Opcode(m) - 40))

-----------------------------------------------------------------------------
\* add, sub, div, mul, mod on the two topmost integers, modulo 2^64
Arithmetic(m, n) ==
  /\ Fetch(m, 8..12)
  /\ LET b == Top(Fetched(m), 1).int
         a == Top(Fetched(m), 2).int
         result == CASE Opcode(m) = 8 -> (a + b) % U64
                     [] Opcode(m) = 9 -> (a - b) % U64
                     [] Opcode(m) = 10 -> a \div b
                     [] Opcode(m) = 11 -> (a * b) % U64
                     [] Opcode(m) = 12 -> a % b
     IN  n = IF Holds(Fetched(m), <<"int", "int">>) /\ (Opcode(m) \in {10, 12} => b # 0)
               THEN Push(Drop(Fetched(m), 2), Uint64(result))
               ELSE Failed(Fetched(m))

\* && and || take any two values, == only integers
Logic(m, n) ==
  /\ Fetch(m, {16, 17, 19})
  /\ LET b == Top(Fetched(m), 1)
         a == Top(Fetched(m), 2)
         result == CASE Opcode(m) = 16 -> AsBool(a) /\ AsBool(b)
                     [] Opcode(m) = 17 -> AsBool(a) \/ AsBool(b)
                     [] Opcode(m) = 19 -> a = b
         types == IF Opcode(m) = 19 THEN <<"int", "int">> ELSE <<"any", "any">>
     IN  n = IF Holds(Fetched(m), types) THEN Push(Drop(Fetched(m), 2), Truth(result))
               ELSE Failed(Fetched(m))

Not(m, n) ==
  /\ Fetch(m, {18})
  /\ n = IF Holds(Fetched(m), <<"any">>)
           THEN Push(Drop(Fetched(m), 1), Truth(~AsBool(Top(Fetched(m), 1))))
           ELSE Failed(Fetched(m))

\* dup, pop, swap
StackOp(m, n) ==
  /\ Fetch(m, {72, 74, 79})
  /\ LET needs == IF Opcode(m) = 79 THEN <<"any", "any">> ELSE <<"any">>
     IN  n = IF ~Holds(Fetched(m), needs) THEN Failed(Fetched(m))
               ELSE CASE Opcode(m) = 72 -> Push(Fetched(m), Top(Fetched(m), 1))
                      [] Opcode(m) = 74 -> Drop(Fetched(m), 1)
                      [] Opcode(m) = 79 ->
                           Push(Push(Drop(Fetched(m), 2), Top(Fetched(m), 1)), Top(Fetched(m), 2))

-----------------------------------------------------------------------------
\* The offset after a branch's opcode, and where it leads: an address below 0
\* becomes one far past the program, which ends it
Offset(m, pc) ==
  LET u == 256 * Byte(m, pc) + Byte(m, pc + 1) IN IF u < 32768 THEN u ELSE u - 65536
Target(m, pc) == LET to == pc + 2 + Offset(m, pc) IN IF to < 0 THEN Size(m) ELSE to

\* bnz, bz and b
Branch(m, n) ==
  /\ Fetch(m, {64, 65, 66})
  /\ LET past == [Fetched(m) EXCEPT !.pc = @ + 2]
         jump == [Fetched(m) EXCEPT !.pc = Target(m, @)]
     IN  n = IF m.pc + 3 > Size(m) THEN Failed(Fetched(m))
               ELSE IF Opcode(m) = 66 THEN jump
               ELSE IF ~Holds(Fetched(m), <<"any">>) THEN Failed(past)
               ELSE Drop(IF AsBool(Top(Fetched(m), 1)) <=> Opcode(m) = 64 THEN jump ELSE past, 1)

\* return
Return(m, n) == Fetch(m, {67}) /\ n = [Fetched(m) EXCEPT !.status = "done"]

\* err, assert, and any byte that is no opcode
Known == {0, 1, 2, 3} \cup (8..12) \cup (16..19) \cup (32..43) \cup (64..68)
           \cup {72, 74, 79, 80, 81, 96, 97, 176}

Fault(m, n) == Fetch(m, (0..255) \ (Known \ {0})) /\ n = Failed(Fetched(m))

AssertTrue(m, n) ==
  /\ Fetch(m, {68})
  /\ n = IF Holds(Fetched(m), <<"any">>) /\ AsBool(Top(Fetched(m), 1)) THEN Drop(Fetched(m), 1)
           ELSE Failed(Fetched(m))

-----------------------------------------------------------------------------
\* sha256, keccak256 and sha3_256: a base cost before the pop, a cost for the
\* bytes after it.  keccak256 computes SHA3-256.
Hash(m, n) ==
  /\ Fetch(m, {1, 2, 3})
  /\ LET paid == Charge(Fetched(m), SHA3_BASE)
         data == Top(paid, 1).bytes
         all  == Charge(Drop(paid, 1), SHA3_WORD * Words(Len(data)))
     IN  n = IF Holds(paid, <<"bytes">>)
               THEN Push(all, Bytes(Digest(IF Opcode(m) = 1 THEN "sha256" ELSE "sha3", data)))
               ELSE Failed(paid)

\* app_global_get, app_global_put: state that ends with the interpreter
GlobalGet(m, n) ==
  /\ Fetch(m, {96})
  /\ LET paid == Charge(Fetched(m), SLOAD)
         key  == Top(paid, 1).bytes
     IN  n = IF Holds(paid, <<"bytes">>)
               THEN Push(Drop(paid, 1), IF key \in DOMAIN m.globals THEN m.globals[key] ELSE Uint64(0))
               ELSE Failed(paid)

GlobalPut(m, n) ==
  /\ Fetch(m, {97})
  /\ LET paid == Charge(Fetched(m), SSTORE_SET)
         put  == Top(paid, 2).bytes :> Top(paid, 1)
     IN  n = IF Holds(paid, <<"any", "bytes">>)
               THEN [Drop(paid, 2) EXCEPT !.globals = put @@ @]
               ELSE Failed(paid)

\* log: as Hash, paid before and after the pop
Log(m, n) ==
  /\ Fetch(m, {176})
  /\ LET paid == Charge(Fetched(m), LOG)
         data == Top(paid, 1).bytes
         all  == Charge(Drop(paid, 1), LOG_DATA * Len(data))
     IN  n = IF ~Holds(paid, <<"bytes">>) THEN Failed(paid)
               ELSE IF all.status # "running" THEN all
               ELSE [all EXCEPT !.logs = Append(@, data)]

\* len and concat
BytesOp(m, n) ==
  /\ Fetch(m, {80, 81})
  /\ LET b == Top(Fetched(m), 1).bytes
     IN  n = IF ~Holds(Fetched(m), IF Opcode(m) = 80 THEN <<"bytes">> ELSE <<"bytes", "bytes">>)
               THEN Failed(Fetched(m))
               ELSE IF Opcode(m) = 80 THEN Push(Drop(Fetched(m), 1), Uint64(Len(b)))
               ELSE Push(Drop(Fetched(m), 2), Bytes(Top(Fetched(m), 2).bytes \o b))

EndOfCode(m, n) == Running(m) /\ AtEnd(m) /\ n = [m EXCEPT !.status = "done"]

Step(m, n) ==
  \/ OutOfGas(m, n) \/ IntcBlock(m, n) \/ BytecBlock(m, n) \/ IndexedConstant(m, n)
  \/ NamedConstant(m, n) \/ Arithmetic(m, n) \/ Logic(m, n) \/ Not(m, n) \/ StackOp(m, n)
  \/ Branch(m, n) \/ Return(m, n) \/ Fault(m, n) \/ AssertTrue(m, n) \/ Hash(m, n)
  \/ GlobalGet(m, n) \/ GlobalPut(m, n) \/ Log(m, n) \/ BytesOp(m, n) \/ EndOfCode(m, n)

\* What execute returns: the top of the stack decides, and is the answer
Succeeds(m) == m.status = "done" /\ m.stack # <<>> /\ AsBool(Last(m.stack))
Answer(m) == IF m.status = "done" /\ m.stack # <<>> THEN <<Last(m.stack)>> ELSE <<>>

-----------------------------------------------------------------------------
\* compile_simple_teal: a literal becomes a block of one constant and a read of
\* constant 0; an operator becomes its opcode.  A line is <<"int", n>> or
\* <<op>>.
Varuint[n \in 0..(U64 - 1)] == IF n < 128 THEN <<n>> ELSE <<128 + (n % 128)>> \o Varuint[n \div 128]

OpcodeOf == [plus |-> 8, minus |-> 9, div |-> 10, times |-> 11, return |-> 67]

Line == ({"int"} \X (0..(U64 - 1))) \cup {<<op>> : op \in DOMAIN OpcodeOf}

CompileLine(line) ==
  IF line[1] = "int" THEN <<32, 1>> \o Varuint[line[2]] \o <<34, 0>> ELSE <<OpcodeOf[line[1]]>>

Compile(source) == <<6>> \o FlattenSeq([i \in DOMAIN source |-> CompileLine(source[i])])

=============================================================================
