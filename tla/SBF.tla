-------------------------------- MODULE SBF --------------------------------
(***************************************************************************)
(* The SBF interpreter of frychain-vm: sbf.rs.  A machine m is the state   *)
(* of one SbfVM, n the machine one instruction later.  parse_elf decodes   *)
(* the program before it runs, so an instruction is a record here: op and  *)
(* width stand for the opcode's number, reg says whether it takes a        *)
(* register instead of imm.                                                *)
(***************************************************************************)
EXTENDS Gas, Integers, Sequences, Bits

CONSTANTS
  BITS,             \* 64: registers hold numbers below 2^BITS
  HEAP_SIZE,        \* 32 KB
  STACK_SIZE,       \* 4096: only where r10 points to; no access reaches it
  MAX_CALL_DEPTH,   \* 64
  OverflowChecks    \* TRUE for the dev profile, FALSE for the release one

Word == 2 ^ BITS

\* The registers r0 to r10; an instruction can name sixteen
Register == 0..10

\* SbfVM::new: a program without instructions is one that returns 0
Trivial == <<[op |-> "mov", dst |-> 0, src |-> 0, reg |-> FALSE, width |-> 8, off |-> 0, imm |-> 0],
             [op |-> "exit", dst |-> 0, src |-> 0, reg |-> FALSE, width |-> 8, off |-> 0, imm |-> 0]>>

Boot(code, limit) ==
  [lang |-> "sbf", code |-> IF code = <<>> THEN Trivial ELSE code, pc |-> 0,
   regs |-> [r \in Register |-> IF r = 10 THEN STACK_SIZE ELSE 0],
   heap |-> [a \in 0..(HEAP_SIZE - 1) |-> 0],
   calls |-> <<>>, logs |-> <<>>, gas |-> NewMeter(limit), steps |-> 0, status |-> "running"]

Running(m) == m.lang = "sbf" /\ m.status = "running"
Size(m) == Len(m.code)
Instr(m) == m.code[m.pc + 1]

Fetched(m) == [m EXCEPT !.pc = @ + 1, !.gas = Consume(@, BASE), !.steps = @ + 1]

Failed(m) == [m EXCEPT !.status = "failed"]
Panics(m) == [m EXCEPT !.status = "panicked"]
Charge(m, amount) ==
  IF HasGas(m.gas, amount) THEN [m EXCEPT !.gas = Consume(@, amount)]
  ELSE Failed([m EXCEPT !.gas = Consume(@, amount)])

AtEnd(m) == m.pc >= Size(m)
Fetch(m, ops) == Running(m) /\ ~AtEnd(m) /\ Instr(m).op \in ops /\ HasGas(m.gas, BASE)
OutOfGas(m, n) == Running(m) /\ ~AtEnd(m) /\ ~HasGas(m.gas, BASE) /\ n = Failed(Fetched(m))

\* What an instruction takes: a register, or its immediate sign-extended
Operand(m) == IF Instr(m).reg THEN m.regs[Instr(m).src] ELSE Instr(m).imm % Word
NamesRegisters(rs) == rs \subseteq Register

Set(m, r, v) == [m EXCEPT !.regs[r] = v]

-----------------------------------------------------------------------------
\* A shift by BITS or more, and the negation of the least integer, overflow:
\* checked builds panic, the others shift by the amount modulo BITS and wrap
Overflows(m) ==
  \/ Instr(m).op \in {"lsh", "rsh"} /\ Operand(m) >= BITS
  \/ Instr(m).op = "neg" /\ m.regs[Instr(m).dst] = Word \div 2

Result(m, x, y) ==
  CASE Instr(m).op = "add" -> (x + y) % Word
    [] Instr(m).op = "sub" -> (x - y) % Word
    [] Instr(m).op = "mul" -> (x * y) % Word
    [] Instr(m).op = "div" -> x \div y
    [] Instr(m).op = "mod" -> x % y
    [] Instr(m).op = "or" -> BitOr(x, y)
    [] Instr(m).op = "and" -> BitAnd(x, y)
    [] Instr(m).op = "xor" -> BitXor(x, y)
    [] Instr(m).op = "lsh" -> (x * 2 ^ (y % BITS)) % Word
    [] Instr(m).op = "rsh" -> x \div 2 ^ (y % BITS)
    [] Instr(m).op = "neg" -> (-x) % Word
    [] Instr(m).op = "mov" -> y

\* Some operations exist with an immediate only; a division by zero is looked
\* for before the destination is touched
AluOps == {"add", "sub", "mul", "div", "mod", "or", "and", "xor", "lsh", "rsh", "neg", "mov"}
Decoded(m, ops, regOps) == Instr(m).op \in (IF Instr(m).reg THEN regOps ELSE ops)

Alu(m, n) ==
  /\ Fetch(m, AluOps)
  /\ Decoded(m, AluOps, {"add", "sub", "mul", "div", "mov"})
  /\ n = IF Instr(m).reg /\ Instr(m).src \notin Register THEN Panics(Fetched(m))
           ELSE IF Instr(m).op \in {"div", "mod"} /\ Operand(m) = 0 THEN Failed(Fetched(m))
           ELSE IF Instr(m).dst \notin Register \/ (OverflowChecks /\ Overflows(m)) THEN Panics(Fetched(m))
           ELSE Set(Fetched(m), Instr(m).dst, Result(m, m.regs[Instr(m).dst], Operand(m)))

-----------------------------------------------------------------------------
\* Memory: one heap, read and written from an address modulo 2^BITS.  An
\* address within width of the top wraps around the bound's check and panics
\* on the access itself.
Address(m, base) == (m.regs[base] + Instr(m).off) % Word
InHeap(a, n) == a + n <= HEAP_SIZE
Wraps(a, n) == n > 1 /\ a + n >= Word
MemoryCharge(m) == IF Instr(m).width = 8 THEN LOW ELSE VERY_LOW

\* Bytes of a number and back, the least significant first
ByteOf(v, k) == LET S[j \in 0..k] == IF j = 0 THEN v ELSE S[j - 1] \div 256 IN S[k] % 256
LittleEndian(m, a, n) ==
  LET High[k \in 0..n] == IF k = n THEN 0 ELSE (m.heap[a + k] + 256 * High[k + 1]) % Word
  IN  High[0]

\* ldxb, ldxh, ldxw, ldxdw
Load(m, n) ==
  /\ Fetch(m, {"ldx"})
  /\ LET a == Address(m, Instr(m).src)
         paid == Charge(Fetched(m), MemoryCharge(m))
     IN  n = IF Instr(m).src \notin Register THEN Panics(Fetched(m))
               ELSE IF paid.status # "running" THEN paid
               ELSE IF Wraps(a, Instr(m).width) THEN Panics(paid)
               ELSE IF ~InHeap(a, Instr(m).width) THEN Failed(paid)
               ELSE IF Instr(m).dst \notin Register THEN Panics(paid)
               ELSE Set(paid, Instr(m).dst, LittleEndian(m, a, Instr(m).width))

\* stb to stdw with an immediate, stxb to stxdw with a register
Store(m, n) ==
  /\ Fetch(m, {"st"})
  /\ LET a == Address(m, Instr(m).dst)
         width == Instr(m).width
         paid == Charge(Fetched(m), MemoryCharge(m))
     IN  n = IF ~NamesRegisters({Instr(m).dst} \cup (IF Instr(m).reg THEN {Instr(m).src} ELSE {}))
               THEN Panics(Fetched(m))
               ELSE IF paid.status # "running" THEN paid
               ELSE IF Wraps(a, width) THEN Panics(paid)
               ELSE IF ~InHeap(a, width) THEN Failed(paid)
               ELSE [paid EXCEPT !.heap =
                       [b \in DOMAIN @ |->
                          IF b \in a..(a + width - 1) THEN ByteOf(Operand(m), b - a) ELSE @[b]]]

-----------------------------------------------------------------------------
\* An address below 0 is one far past the program, which ends it
Goto(m, to) == [m EXCEPT !.pc = IF to < 0 THEN Size(m) ELSE to]

Taken(m, x, y) ==
  CASE Instr(m).op = "jeq" -> x = y
    [] Instr(m).op = "jne" -> x # y
    [] Instr(m).op = "jgt" -> x > y
    [] Instr(m).op = "jge" -> x >= y
    [] Instr(m).op = "jlt" -> x < y
    [] Instr(m).op = "jle" -> x <= y

Jump(m, n) == Fetch(m, {"ja"}) /\ n = Goto(Fetched(m), m.pc + 1 + Instr(m).off)

CondOps == {"jeq", "jne", "jgt", "jge", "jlt", "jle"}

CondJump(m, n) ==
  /\ Fetch(m, CondOps)
  /\ Decoded(m, CondOps, {"jeq"})
  /\ n = IF ~NamesRegisters({Instr(m).dst} \cup (IF Instr(m).reg THEN {Instr(m).src} ELSE {}))
           THEN Panics(Fetched(m))
           ELSE IF Taken(m, m.regs[Instr(m).dst], Operand(m)) THEN Goto(Fetched(m), m.pc + 1 + Instr(m).off)
           ELSE Fetched(m)

\* call: the depth is checked before a system call is told from a function
Paid(m) == Charge(Fetched(m), CALL)
Called(m) ==
  IF Paid(m).status = "running" /\ Len(m.calls) >= MAX_CALL_DEPTH THEN Failed(Paid(m)) ELSE Paid(m)

CallFunction(m, n) ==
  /\ Fetch(m, {"call"})
  /\ Instr(m).imm \notin {1, 2}
  /\ n = IF Called(m).status # "running" THEN Called(m)
           ELSE Goto([Called(m) EXCEPT !.calls = Append(@, m.pc + 1)], Instr(m).imm)

\* sol_log_: bytes out of the heap are left out of the log without an error
LogCall(m, n) ==
  /\ Fetch(m, {"call"})
  /\ Instr(m).imm = 1
  /\ LET from == m.regs[1]
         to   == from + m.regs[2]
         read == IF to >= Word THEN to - Word ELSE to
     IN  n = IF Called(m).status # "running" THEN Called(m)
               ELSE IF to >= Word /\ (OverflowChecks \/ read <= HEAP_SIZE) THEN Panics(Called(m))
               ELSE IF read > HEAP_SIZE THEN Set(Called(m), 0, 0)
               ELSE Set([Called(m) EXCEPT
                           !.logs = Append(@, [i \in 1..(to - from) |-> m.heap[from + i - 1]])], 0, 0)

\* sol_sha256: charged, and nothing is hashed
ShaCall(m, n) ==
  /\ Fetch(m, {"call"})
  /\ Instr(m).imm = 2
  /\ n = IF Called(m).status # "running" THEN Called(m)
           ELSE LET paid == Charge(Called(m), SHA3_BASE)
                IN  IF paid.status = "running" THEN Set(paid, 0, 0) ELSE paid

Exit(m, n) ==
  /\ Fetch(m, {"exit"})
  /\ n = IF m.calls = <<>> THEN [Fetched(m) EXCEPT !.status = "done"]
           ELSE [Fetched(m) EXCEPT !.pc = m.calls[Len(m.calls)],
                                !.calls = SubSeq(@, 1, Len(@) - 1)]

\* An opcode the interpreter has no arm for
Invalid(m, n) ==
  /\ Fetch(m, AluOps \cup CondOps \cup {"jset", "add32"})
  /\ ~Decoded(m, AluOps \cup CondOps, {"add", "sub", "mul", "div", "mov", "jeq"})
  /\ n = Failed(Fetched(m))

EndOfCode(m, n) == Running(m) /\ AtEnd(m) /\ n = [m EXCEPT !.status = "done"]

Step(m, n) ==
  \/ OutOfGas(m, n) \/ Alu(m, n) \/ Load(m, n) \/ Store(m, n) \/ Jump(m, n) \/ CondJump(m, n)
  \/ CallFunction(m, n) \/ LogCall(m, n) \/ ShaCall(m, n) \/ Exit(m, n) \/ Invalid(m, n)
  \/ EndOfCode(m, n)

\* What execute returns: 0 in r0 is success
Succeeds(m) == m.status = "done" /\ m.regs[0] = 0
Answer(m) == IF m.status = "done" THEN <<m.regs[0]>> ELSE <<>>

=============================================================================
