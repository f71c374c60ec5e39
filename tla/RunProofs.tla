------------------------------ MODULE RunProofs ------------------------------
(***************************************************************************)
(* What whole runs come to.  Two runs of a contract that differ only in    *)
(* their gas limits take the same steps, as long as the gas used by the    *)
(* one that did not run out is within the limit of the other: so an        *)
(* estimate is enough.  And a run of a compiled TEAL source goes through   *)
(* the lines of the source as an evaluation does that takes every small    *)
(* literal for 1.                                                          *)
(***************************************************************************)
EXTENDS ExecutorProofs

-----------------------------------------------------------------------------
\* The machine with another gas limit
Raised(m, L) == [m EXCEPT !.gas = [m.gas EXCEPT !.limit = L]]

\* What was used is less than the machine's limit, and no more than another one
Within(m, L) == m.gas.used < m.gas.limit /\ m.gas.used <= L

\* Nothing but the limit differs.
LEMMA RaisedReads ==
  ASSUME NEW m, NEW L
  PROVE  LET r == Raised(m, L) IN
         /\ r.lang = m.lang /\ r.status = m.status /\ r.steps = m.steps
         /\ r.code = m.code /\ r.pc = m.pc /\ r.stack = m.stack /\ r.logs = m.logs
         /\ r.ints = m.ints /\ r.bytes = m.bytes /\ r.globals = m.globals
         /\ r.regs = m.regs /\ r.heap = m.heap /\ r.calls = m.calls
         /\ r.scripts = m.scripts /\ r.at = m.at /\ r.alt = m.alt /\ r.exec = m.exec
         /\ r.store = m.store /\ r.ops = m.ops
         /\ r.call = m.call /\ r.val = m.val /\ r.env = m.env /\ r.functions = m.functions
         /\ r.capabilities = m.capabilities /\ r.active = m.active /\ r.granted = m.granted
         /\ r.tables = m.tables /\ r.keysets = m.keysets /\ r.modules = m.modules
         /\ r.module = m.module /\ r.depth = m.depth /\ r.todo = m.todo /\ r.frames = m.frames
BY DEF Raised

\* What one meter can pay for and not be empty, another one with room for it can
\* pay for as well.
LEMMA BothPay ==
  ASSUME NEW m, Metered(m), NEW L \in Nat, NEW amount,
         Consume(m.gas, amount).used < Consume(m.gas, amount).limit,
         Consume(m.gas, amount).used <= L
  PROVE  /\ HasGas(m.gas, amount) /\ HasGas(Raised(m, L).gas, amount)
         /\ [Raised(m, L) EXCEPT !.gas = Consume(Raised(m, L).gas, amount)]
              = Raised([m EXCEPT !.gas = Consume(m.gas, amount)], L)
<1> DEFINE g == m.gas
           h == Raised(m, L).gas
<1>1. g \in GasMeter /\ g.used \in Nat /\ g.limit \in Nat /\ g.used <= g.limit
  BY DEF Metered, Sound, GasMeter
<1>2. h = [g EXCEPT !.limit = L]
  BY DEF Raised, Metered
<1> HIDE DEF g, h
<1>3. HasGas(g, amount)
  BY <1>1 DEF g, Consume
<1>4. Consume(g, amount).used = g.used + amount /\ amount \in Nat
  BY <1>1, <1>3 DEF Consume, GasMeter, HasGas
<1>5. h.used = g.used /\ h.limit = L
  BY <1>1, <1>2 DEF GasMeter
<1>6. HasGas(h, amount)
  BY <1>1, <1>4, <1>5 DEF HasGas, g
<1>7. Consume(h, amount) = [Consume(g, amount) EXCEPT !.limit = L]
  BY <1>1, <1>2, <1>3, <1>5, <1>6, Zenon DEF Consume, GasMeter
<1>8. [Raised(m, L) EXCEPT !.gas = [Consume(g, amount) EXCEPT !.limit = L]]
        = Raised([m EXCEPT !.gas = Consume(g, amount)], L)
  BY Zenon DEF Raised, Metered
<1> QED
  BY <1>3, <1>6, <1>7, <1>8 DEF g, h

\* Gas that is left was left all along.
LEMMA WithinBefore ==
  ASSUME NEW m, Metered(m), NEW n, Spends(m, n), NEW L \in Nat, Within(n, L)
  PROVE  Within(m, L) /\ Metered(n)
BY DEF Metered, Sound, GasMeter, Spends, Within

-----------------------------------------------------------------------------
\* The AVM machine: what its instructions read
LEMMA AvmReads ==
  ASSUME NEW m, NEW L
  PROVE  LET r == Raised(m, L) IN
         /\ Avm!Running(r) <=> Avm!Running(m)
         /\ Avm!AtEnd(r) <=> Avm!AtEnd(m)
         /\ Avm!Size(r) = Avm!Size(m) /\ Avm!Opcode(r) = Avm!Opcode(m)
         /\ \A i : /\ Avm!Byte(r, i) = Avm!Byte(m, i) /\ Avm!Top(r, i) = Avm!Top(m, i)
                   /\ Avm!IntAt(r, i) = Avm!IntAt(m, i) /\ Avm!BytesAt(r, i) = Avm!BytesAt(m, i)
                   /\ Avm!Target(r, i) = Avm!Target(m, i)
                   /\ Avm!VarReads(r, i) <=> Avm!VarReads(m, i)
                   /\ Avm!VarSize(r, i) = Avm!VarSize(m, i)
                   /\ Avm!VarValue(r, i) = Avm!VarValue(m, i)
         /\ \A types : Avm!Holds(r, types) <=> Avm!Holds(m, types)
<1> DEFINE r == Raised(m, L)
<1>1. r.lang = m.lang /\ r.status = m.status /\ r.code = m.code /\ r.pc = m.pc /\ r.stack = m.stack
      /\ r.ints = m.ints /\ r.bytes = m.bytes
  BY RaisedReads
<1> HIDE DEF r
<1>2. Avm!Size(r) = Avm!Size(m) /\ \A i : Avm!Byte(r, i) = Avm!Byte(m, i) /\ Avm!Top(r, i) = Avm!Top(m, i)
  BY <1>1 DEF Avm!Size, Avm!Byte, Avm!Top
<1>3. \A i : Avm!VarEnds(r, i) = Avm!VarEnds(m, i)
  BY <1>2 DEF Avm!VarEnds
<1>4. \A i : /\ Avm!VarReads(r, i) <=> Avm!VarReads(m, i)
             /\ Avm!VarSize(r, i) = Avm!VarSize(m, i)
  BY <1>3 DEF Avm!VarReads, Avm!VarSize
<1>5. \A i : Avm!VarValue(r, i) = Avm!VarValue(m, i)
  BY <1>1, <1>4, Zenon DEF Avm!VarValue
<1>6. \A i : Avm!Target(r, i) = Avm!Target(m, i)
  BY <1>2 DEF Avm!Target, Avm!Offset
<1>7. \A types : Avm!Holds(r, types) <=> Avm!Holds(m, types)
  BY <1>1, <1>2 DEF Avm!Holds
<1> QED
  BY <1>1, <1>2, <1>4, <1>5, <1>6, <1>7
     DEF r, Avm!Running, Avm!AtEnd, Avm!Opcode, Avm!IntAt, Avm!BytesAt

\* ... and what they do to it
LEMMA AvmRaised ==
  ASSUME NEW m, NEW L
  PROVE  /\ Avm!Failed(Raised(m, L)) = Raised(Avm!Failed(m), L)
         /\ Avm!Panics(Raised(m, L)) = Raised(Avm!Panics(m), L)
         /\ \A v : Avm!Push(Raised(m, L), v) = Raised(Avm!Push(m, v), L)
         /\ \A k : Avm!Drop(Raised(m, L), k) = Raised(Avm!Drop(m, k), L)
<1>1. /\ Avm!Failed(Raised(m, L)) = Raised(Avm!Failed(m), L)
      /\ Avm!Panics(Raised(m, L)) = Raised(Avm!Panics(m), L)
  BY Zenon DEF Raised, Avm!Failed, Avm!Panics
<1>2. ASSUME NEW v PROVE Avm!Push(Raised(m, L), v) = Raised(Avm!Push(m, v), L)
  <2>1. Raised(m, L).status = m.status /\ Raised(m, L).stack = m.stack
    BY RaisedReads
  <2>2. [Raised(m, L) EXCEPT !.stack = Append(m.stack, v)] =
            Raised([m EXCEPT !.stack = Append(m.stack, v)], L)
    BY Zenon DEF Raised
  <2> QED
    BY <1>1, <2>1, <2>2 DEF Avm!Push
<1>3. ASSUME NEW k PROVE Avm!Drop(Raised(m, L), k) = Raised(Avm!Drop(m, k), L)
  BY Zenon DEF Raised, Avm!Drop
<1> QED
  BY <1>1, <1>2, <1>3

\* A cost that was paid with gas left
LEMMA AvmCharged ==
  ASSUME NEW m, Metered(m), NEW L \in Nat, NEW amount, Within(Avm!Charge(m, amount), L)
  PROVE  Avm!Charge(Raised(m, L), amount) = Raised(Avm!Charge(m, amount), L)
<1>1. \A g : Avm!Consume(g, amount) = Consume(g, amount) /\ (Avm!HasGas(g, amount) <=> HasGas(g, amount))
  BY DEF Avm!Consume, Consume, Avm!HasGas, HasGas
<1>2. Avm!Charge(m, amount).gas = Consume(m.gas, amount)
  BY <1>1 DEF Avm!Charge, Avm!Failed, Metered
<1>3. Consume(m.gas, amount).used < Consume(m.gas, amount).limit /\ Consume(m.gas, amount).used <= L
  BY <1>2 DEF Within
<1> QED
  BY <1>1, <1>3, BothPay DEF Avm!Charge

\* ... as the base cost is, and it is paid by both machines.
LEMMA AvmFetched ==
  ASSUME NEW m, Metered(m), NEW L \in Nat, Within(Avm!Fetched(m), L)
  PROVE  /\ Avm!Fetched(Raised(m, L)) = Raised(Avm!Fetched(m), L)
         /\ Avm!HasGas(m.gas, Avm!BASE) /\ Avm!HasGas(Raised(m, L).gas, Avm!BASE)
<1>1. \A g : Avm!Consume(g, Avm!BASE) = Consume(g, BASE) /\ (Avm!HasGas(g, Avm!BASE) <=> HasGas(g, BASE))
  BY DEF Avm!Consume, Consume, Avm!HasGas, HasGas, Avm!BASE, BASE
<1>2. Avm!Fetched(m).gas = Consume(m.gas, BASE)
  BY <1>1 DEF Avm!Fetched, Metered
<1>3. Consume(m.gas, BASE).used < Consume(m.gas, BASE).limit /\ Consume(m.gas, BASE).used <= L
  BY <1>2 DEF Within
<1>4. /\ HasGas(m.gas, BASE) /\ HasGas(Raised(m, L).gas, BASE)
      /\ [Raised(m, L) EXCEPT !.gas = Consume(Raised(m, L).gas, BASE)]
           = Raised([m EXCEPT !.gas = Consume(m.gas, BASE)], L)
  BY <1>3, BothPay
<1> DEFINE past == [m EXCEPT !.gas = Consume(m.gas, BASE)]
           r == Raised(m, L)
<1>5. Avm!Fetched(m) = [[past EXCEPT !.pc = m.pc + 1] EXCEPT !.steps = m.steps + 1]
  BY <1>1, Zenon DEF Avm!Fetched
<1>6. Avm!Fetched(r) = [[[r EXCEPT !.gas = Consume(r.gas, BASE)] EXCEPT !.pc = r.pc + 1]
          EXCEPT !.steps = r.steps + 1]
  BY <1>1, Zenon DEF Avm!Fetched
<1>7. r.pc = m.pc /\ r.steps = m.steps
  BY RaisedReads
<1> HIDE DEF past, r
<1>8. Avm!Fetched(r) = [[Raised(past, L) EXCEPT !.pc = m.pc + 1] EXCEPT !.steps = m.steps + 1]
  BY <1>4, <1>6, <1>7, Zenon DEF past, r
<1>9. [[Raised(past, L) EXCEPT !.pc = m.pc + 1] EXCEPT !.steps = m.steps + 1]
        = Raised([[past EXCEPT !.pc = m.pc + 1] EXCEPT !.steps = m.steps + 1], L)
  BY Zenon DEF Raised
<1> QED
  BY <1>1, <1>4, <1>5, <1>8, <1>9 DEF r

\* Reading a block of constants, one after the other
LEMMA AvmReadIntRaised ==
  ASSUME NEW m, NEW L
  PROVE  Avm!ReadInt(Raised(m, L)) = Raised(Avm!ReadInt(m), L)
<1> DEFINE r == Raised(m, L)
<1>1. r.status = m.status /\ r.pc = m.pc /\ r.ints = m.ints
  BY RaisedReads
<1>2. /\ Avm!VarReads(r, m.pc) <=> Avm!VarReads(m, m.pc)
      /\ Avm!VarSize(r, m.pc) = Avm!VarSize(m, m.pc) /\ Avm!VarValue(r, m.pc) = Avm!VarValue(m, m.pc)
  BY AvmReads
<1>3. Avm!Failed(r) = Raised(Avm!Failed(m), L)
  BY AvmRaised
<1>5. CASE m.status # "running" \/ ~Avm!VarReads(m, m.pc)
  BY <1>1, <1>2, <1>3, <1>5 DEF Avm!ReadInt
<1>6. CASE m.status = "running" /\ Avm!VarReads(m, m.pc)
  <2> DEFINE ints == Append(m.ints, Avm!VarValue(m, m.pc))
             pc == m.pc + Avm!VarSize(m, m.pc)
  <2>1. Avm!ReadInt(m) = [m EXCEPT !.ints = ints, !.pc = pc]
    BY <1>6 DEF Avm!ReadInt
  <2>2. Avm!ReadInt(r) = [r EXCEPT !.ints = ints, !.pc = pc]
    BY <1>1, <1>2, <1>6 DEF Avm!ReadInt
  <2> HIDE DEF ints, pc, r
  <2> QED
    BY <2>1, <2>2, Zenon DEF r, Raised
<1> QED
  BY <1>5, <1>6

\* A byte constant is read alike with another limit ...
LEMMA AvmReadBytesRaised ==
  ASSUME NEW m, NEW L
  PROVE  Avm!ReadBytes(Raised(m, L)) = Raised(Avm!ReadBytes(m), L)
<1> DEFINE r == Raised(m, L)
           from == m.pc + Avm!VarSize(m, m.pc)
           to == from + Avm!VarValue(m, m.pc)
<1>1. r.status = m.status /\ r.pc = m.pc /\ r.bytes = m.bytes /\ r.code = m.code
  BY RaisedReads
<1>2. /\ Avm!VarReads(r, m.pc) <=> Avm!VarReads(m, m.pc)
      /\ Avm!VarSize(r, m.pc) = Avm!VarSize(m, m.pc) /\ Avm!VarValue(r, m.pc) = Avm!VarValue(m, m.pc)
      /\ Avm!Size(r) = Avm!Size(m)
  BY AvmReads
<1>3. Avm!Failed(r) = Raised(Avm!Failed(m), L) /\ Avm!Panics(r) = Raised(Avm!Panics(m), L)
  BY AvmRaised
<1>5. CASE m.status # "running" \/ ~Avm!VarReads(m, m.pc)
  BY <1>1, <1>2, <1>3, <1>5 DEF Avm!ReadBytes
<1>6. CASE m.status = "running" /\ Avm!VarReads(m, m.pc) /\ to > Avm!Size(m)
  BY <1>1, <1>2, <1>3, <1>6 DEF Avm!ReadBytes
<1>7. CASE m.status = "running" /\ Avm!VarReads(m, m.pc) /\ ~(to > Avm!Size(m))
  <2> DEFINE bytes == Append(m.bytes, SubSeq(m.code, from + 1, to))
  <2>1. Avm!ReadBytes(m) = [m EXCEPT !.bytes = bytes, !.pc = to]
    BY <1>7 DEF Avm!ReadBytes
  <2>2. Avm!ReadBytes(r) = [r EXCEPT !.bytes = bytes, !.pc = to]
    BY <1>1, <1>2, <1>7 DEF Avm!ReadBytes
  <2> HIDE DEF bytes, to, r
  <2> QED
    BY <2>1, <2>2, Zenon DEF r, Raised
<1> QED
  BY <1>5, <1>6, <1>7

\* ... and so is a block of constants, as many as there are ...
LEMMA AvmReadAllRaised ==
  ASSUME NEW m, NEW L, NEW count, Avm!Size(m) \in Nat
  PROVE  /\ Avm!ReadAll(Avm!ReadInt, Raised(m, L), count) = Raised(Avm!ReadAll(Avm!ReadInt, m, count), L)
         /\ Avm!ReadAll(Avm!ReadBytes, Raised(m, L), count) =
                Raised(Avm!ReadAll(Avm!ReadBytes, m, count), L)
<1> DEFINE end == IF count \in 0..Avm!Size(m) THEN count ELSE Avm!Size(m) + 1
           r == Raised(m, L)
<1>1. Avm!Size(r) = Avm!Size(m)
  BY AvmReads
<1> HIDE DEF r
<1>2. end \in 0..(Avm!Size(m) + 1) /\ end \in Nat
  OBVIOUS
<1>3. Avm!ReadAll(Avm!ReadInt, r, count) = Raised(Avm!ReadAll(Avm!ReadInt, m, count), L)
  <2>1. PICK f : /\ f[0] = m
                 /\ \A j, k \in 0..(Avm!Size(m) + 1) : k = j + 1 => f[k] = Avm!ReadInt(f[j])
                 /\ Avm!ReadAll(Avm!ReadInt, m, count) = f[end]
    BY AvmReadIntSteps, Zenon
  <2>2. PICK g : /\ g[0] = r
                 /\ \A j, k \in 0..(Avm!Size(m) + 1) : k = j + 1 => g[k] = Avm!ReadInt(g[j])
                 /\ Avm!ReadAll(Avm!ReadInt, r, count) = g[end]
    <3>1. Avm!Size(r) \in Nat
      BY <1>1
    <3>2. \E g : /\ g[0] = r
                 /\ \A j, k \in 0..(Avm!Size(r) + 1) : k = j + 1 => g[k] = Avm!ReadInt(g[j])
                 /\ Avm!ReadAll(Avm!ReadInt, r, count)
                      = g[IF count \in 0..Avm!Size(r) THEN count ELSE Avm!Size(r) + 1]
      BY <3>1, AvmReadIntSteps, Zenon
    <3> QED
      BY <1>1, <3>2
  <2> HIDE DEF end
  <2> DEFINE S == {k \in Nat : k <= Avm!Size(m) + 1 => g[k] = Raised(f[k], L)}
  <2>3. 0 \in S
    BY <2>1, <2>2 DEF r
  <2>4. ASSUME NEW k \in Nat, k \in S PROVE k + 1 \in S
    <3> SUFFICES ASSUME k + 1 <= Avm!Size(m) + 1 PROVE g[k + 1] = Raised(f[k + 1], L)
      OBVIOUS
    <3>1. g[k] = Raised(f[k], L) /\ f[k + 1] = Avm!ReadInt(f[k]) /\ g[k + 1] = Avm!ReadInt(g[k])
      BY <2>1, <2>2, <2>4
    <3> QED
      BY <3>1, AvmReadIntRaised
  <2> HIDE DEF S
  <2>5. end \in S
    BY <1>2, <2>3, <2>4, Induction
  <2> QED
    BY <1>2, <2>1, <2>2, <2>5 DEF S
<1>4. Avm!ReadAll(Avm!ReadBytes, r, count) = Raised(Avm!ReadAll(Avm!ReadBytes, m, count), L)
  <2>1. PICK f : /\ f[0] = m
                 /\ \A j, k \in 0..(Avm!Size(m) + 1) : k = j + 1 => f[k] = Avm!ReadBytes(f[j])
                 /\ Avm!ReadAll(Avm!ReadBytes, m, count) = f[end]
    BY AvmReadBytesSteps, Zenon
  <2>2. PICK g : /\ g[0] = r
                 /\ \A j, k \in 0..(Avm!Size(m) + 1) : k = j + 1 => g[k] = Avm!ReadBytes(g[j])
                 /\ Avm!ReadAll(Avm!ReadBytes, r, count) = g[end]
    <3>1. Avm!Size(r) \in Nat
      BY <1>1
    <3>2. \E g : /\ g[0] = r
                 /\ \A j, k \in 0..(Avm!Size(r) + 1) : k = j + 1 => g[k] = Avm!ReadBytes(g[j])
                 /\ Avm!ReadAll(Avm!ReadBytes, r, count)
                      = g[IF count \in 0..Avm!Size(r) THEN count ELSE Avm!Size(r) + 1]
      BY <3>1, AvmReadBytesSteps, Zenon
    <3> QED
      BY <1>1, <3>2
  <2> HIDE DEF end
  <2> DEFINE S == {k \in Nat : k <= Avm!Size(m) + 1 => g[k] = Raised(f[k], L)}
  <2>3. 0 \in S
    BY <2>1, <2>2 DEF r
  <2>4. ASSUME NEW k \in Nat, k \in S PROVE k + 1 \in S
    <3> SUFFICES ASSUME k + 1 <= Avm!Size(m) + 1 PROVE g[k + 1] = Raised(f[k + 1], L)
      OBVIOUS
    <3>1. g[k] = Raised(f[k], L) /\ f[k + 1] = Avm!ReadBytes(f[k]) /\ g[k + 1] = Avm!ReadBytes(g[k])
      BY <2>1, <2>2, <2>4
    <3> QED
      BY <3>1, AvmReadBytesRaised
  <2> HIDE DEF S
  <2>5. end \in S
    BY <1>2, <2>3, <2>4, Induction
  <2> QED
    BY <1>2, <2>1, <2>2, <2>5 DEF S
<1> QED
  BY <1>3, <1>4 DEF r

\* ... which the two instructions that read one therefore keep alike.
LEMMA AvmConstantsRaised ==
  ASSUME NEW m, NEW L, Avm!Size(m) \in Nat
  PROVE  Avm!IntConstants(Raised(m, L)) = Raised(Avm!IntConstants(m), L)
<1> DEFINE r == Raised(m, L)
           all == Avm!ReadAll(Avm!ReadInt, m, Avm!VarValue(m, m.pc))
           x == Avm!VarSize(m, m.pc)
<1>1. r.pc = m.pc /\ Avm!VarValue(r, m.pc) = Avm!VarValue(m, m.pc) /\ Avm!VarSize(r, m.pc) = x
  BY RaisedReads, AvmReads
<1>2. Avm!ReadAll(Avm!ReadInt, r, Avm!VarValue(m, m.pc)) = Raised(all, L)
  BY AvmReadAllRaised
<1>3. Avm!IntConstants(m) = [all EXCEPT !.pc = all.pc + x]
  BY DEF Avm!IntConstants
<1>4. Avm!IntConstants(r) = [Raised(all, L) EXCEPT !.pc = Raised(all, L).pc + x]
  BY <1>1, <1>2 DEF Avm!IntConstants
<1> HIDE DEF all, x, r
<1>5. Raised(all, L).pc = all.pc
  BY RaisedReads
<1>6. [Raised(all, L) EXCEPT !.pc = all.pc + x] = Raised([all EXCEPT !.pc = all.pc + x], L)
  BY Zenon DEF Raised
<1> QED
  BY <1>3, <1>4, <1>5, <1>6 DEF r

\* Which opcodes an action is for
AvmOps(m, n) ==
  /\ Avm!IntcBlock(m, n) => Avm!Fetch(m, {32})
  /\ Avm!BytecBlock(m, n) => Avm!Fetch(m, {33})
  /\ Avm!IndexedConstant(m, n) => Avm!Fetch(m, {34, 35})
  /\ Avm!NamedConstant(m, n) => Avm!Fetch(m, 36..43)
  /\ Avm!Arithmetic(m, n) => Avm!Fetch(m, 8..12)
  /\ Avm!Logic(m, n) => Avm!Fetch(m, {16, 17, 19})
  /\ Avm!Not(m, n) => Avm!Fetch(m, {18})
  /\ Avm!StackOp(m, n) => Avm!Fetch(m, {72, 74, 79})
  /\ Avm!Branch(m, n) => Avm!Fetch(m, {64, 65, 66})
  /\ Avm!Return(m, n) => Avm!Fetch(m, {67})
  /\ Avm!Fault(m, n) => Avm!Fetch(m, (0..255) \ (Avm!Known \ {0}))
  /\ Avm!AssertTrue(m, n) => Avm!Fetch(m, {68})
  /\ Avm!Hash(m, n) => Avm!Fetch(m, {1, 2, 3})
  /\ Avm!GlobalGet(m, n) => Avm!Fetch(m, {96})
  /\ Avm!GlobalPut(m, n) => Avm!Fetch(m, {97})
  /\ Avm!Log(m, n) => Avm!Fetch(m, {176})
  /\ Avm!BytesOp(m, n) => Avm!Fetch(m, {80, 81})

\* Each instruction of the AVM is fetched by its opcode.
LEMMA AvmGuards ==
  ASSUME NEW m, NEW n
  PROVE  AvmOps(m, n)
BY DEF AvmOps, Avm!IntcBlock, Avm!BytecBlock, Avm!IndexedConstant, Avm!NamedConstant, Avm!Arithmetic,
   Avm!Logic, Avm!Not, Avm!StackOp, Avm!Branch, Avm!Return, Avm!Fault, Avm!AssertTrue, Avm!Hash,
   Avm!GlobalGet, Avm!GlobalPut, Avm!Log, Avm!BytesOp

\* Only one action is for an opcode: a machine that differs in its limit only,
\* and has gas for the next step, takes the same one.
LEMMA AvmAgain ==
  ASSUME NEW m, NEW L, NEW n, NEW p, Avm!Step(Raised(m, L), p)
  PROVE  /\ Avm!EndOfCode(m, n) => Avm!EndOfCode(Raised(m, L), p)
         /\ Avm!HasGas(Raised(m, L).gas, Avm!BASE) =>
            /\ Avm!IntcBlock(m, n) => Avm!IntcBlock(Raised(m, L), p)
            /\ Avm!BytecBlock(m, n) => Avm!BytecBlock(Raised(m, L), p)
            /\ Avm!IndexedConstant(m, n) => Avm!IndexedConstant(Raised(m, L), p)
            /\ Avm!NamedConstant(m, n) => Avm!NamedConstant(Raised(m, L), p)
            /\ Avm!Arithmetic(m, n) => Avm!Arithmetic(Raised(m, L), p)
            /\ Avm!Logic(m, n) => Avm!Logic(Raised(m, L), p)
            /\ Avm!Not(m, n) => Avm!Not(Raised(m, L), p)
            /\ Avm!StackOp(m, n) => Avm!StackOp(Raised(m, L), p)
            /\ Avm!Branch(m, n) => Avm!Branch(Raised(m, L), p)
            /\ Avm!Return(m, n) => Avm!Return(Raised(m, L), p)
            /\ Avm!Fault(m, n) => Avm!Fault(Raised(m, L), p)
            /\ Avm!AssertTrue(m, n) => Avm!AssertTrue(Raised(m, L), p)
            /\ Avm!Hash(m, n) => Avm!Hash(Raised(m, L), p)
            /\ Avm!GlobalGet(m, n) => Avm!GlobalGet(Raised(m, L), p)
            /\ Avm!GlobalPut(m, n) => Avm!GlobalPut(Raised(m, L), p)
            /\ Avm!Log(m, n) => Avm!Log(Raised(m, L), p)
            /\ Avm!BytesOp(m, n) => Avm!BytesOp(Raised(m, L), p)
<1> DEFINE r == Raised(m, L)
<1>1. Avm!Opcode(r) = Avm!Opcode(m) /\ (Avm!AtEnd(r) <=> Avm!AtEnd(m))
  BY AvmReads
<1> HIDE DEF r
<1>2. AvmOps(r, p) /\ AvmOps(m, n)
  BY AvmGuards
<1>3. /\ Avm!EndOfCode(r, p) => Avm!AtEnd(r)
      /\ Avm!OutOfGas(r, p) => ~Avm!AtEnd(r) /\ ~Avm!HasGas(r.gas, Avm!BASE)
  BY DEF Avm!EndOfCode, Avm!OutOfGas
<1>4. Avm!Step(r, p)
  BY DEF r
<1>5. ASSUME Avm!EndOfCode(m, n) PROVE Avm!EndOfCode(r, p)
  <2>1. Avm!AtEnd(m)
    BY <1>5 DEF Avm!EndOfCode
  <2> QED
    BY <1>1, <1>2, <1>3, <1>4, <2>1 DEF Avm!Step, AvmOps, Avm!Fetch, Avm!Known
<1>6. ASSUME Avm!IntcBlock(m, n), Avm!HasGas(r.gas, Avm!BASE) PROVE Avm!IntcBlock(r, p)
  BY <1>1, <1>2, <1>3, <1>4, <1>6 DEF Avm!Step, AvmOps, Avm!Fetch, Avm!Known
<1>7. ASSUME Avm!BytecBlock(m, n), Avm!HasGas(r.gas, Avm!BASE) PROVE Avm!BytecBlock(r, p)
  BY <1>1, <1>2, <1>3, <1>4, <1>7 DEF Avm!Step, AvmOps, Avm!Fetch, Avm!Known
<1>8. ASSUME Avm!IndexedConstant(m, n), Avm!HasGas(r.gas, Avm!BASE) PROVE Avm!IndexedConstant(r, p)
  BY <1>1, <1>2, <1>3, <1>4, <1>8 DEF Avm!Step, AvmOps, Avm!Fetch, Avm!Known
<1>9. ASSUME Avm!NamedConstant(m, n), Avm!HasGas(r.gas, Avm!BASE) PROVE Avm!NamedConstant(r, p)
  BY <1>1, <1>2, <1>3, <1>4, <1>9 DEF Avm!Step, AvmOps, Avm!Fetch, Avm!Known
<1>10. ASSUME Avm!Arithmetic(m, n), Avm!HasGas(r.gas, Avm!BASE) PROVE Avm!Arithmetic(r, p)
  BY <1>1, <1>2, <1>3, <1>4, <1>10 DEF Avm!Step, AvmOps, Avm!Fetch, Avm!Known
<1>11. ASSUME Avm!Logic(m, n), Avm!HasGas(r.gas, Avm!BASE) PROVE Avm!Logic(r, p)
  BY <1>1, <1>2, <1>3, <1>4, <1>11 DEF Avm!Step, AvmOps, Avm!Fetch, Avm!Known
<1>12. ASSUME Avm!Not(m, n), Avm!HasGas(r.gas, Avm!BASE) PROVE Avm!Not(r, p)
  BY <1>1, <1>2, <1>3, <1>4, <1>12 DEF Avm!Step, AvmOps, Avm!Fetch, Avm!Known
<1>13. ASSUME Avm!StackOp(m, n), Avm!HasGas(r.gas, Avm!BASE) PROVE Avm!StackOp(r, p)
  BY <1>1, <1>2, <1>3, <1>4, <1>13 DEF Avm!Step, AvmOps, Avm!Fetch, Avm!Known
<1>14. ASSUME Avm!Branch(m, n), Avm!HasGas(r.gas, Avm!BASE) PROVE Avm!Branch(r, p)
  BY <1>1, <1>2, <1>3, <1>4, <1>14 DEF Avm!Step, AvmOps, Avm!Fetch, Avm!Known
<1>15. ASSUME Avm!Return(m, n), Avm!HasGas(r.gas, Avm!BASE) PROVE Avm!Return(r, p)
  BY <1>1, <1>2, <1>3, <1>4, <1>15 DEF Avm!Step, AvmOps, Avm!Fetch, Avm!Known
<1>16. ASSUME Avm!Fault(m, n), Avm!HasGas(r.gas, Avm!BASE) PROVE Avm!Fault(r, p)
  BY <1>1, <1>2, <1>3, <1>4, <1>16 DEF Avm!Step, AvmOps, Avm!Fetch, Avm!Known
<1>17. ASSUME Avm!AssertTrue(m, n), Avm!HasGas(r.gas, Avm!BASE) PROVE Avm!AssertTrue(r, p)
  BY <1>1, <1>2, <1>3, <1>4, <1>17 DEF Avm!Step, AvmOps, Avm!Fetch, Avm!Known
<1>18. ASSUME Avm!Hash(m, n), Avm!HasGas(r.gas, Avm!BASE) PROVE Avm!Hash(r, p)
  BY <1>1, <1>2, <1>3, <1>4, <1>18 DEF Avm!Step, AvmOps, Avm!Fetch, Avm!Known
<1>19. ASSUME Avm!GlobalGet(m, n), Avm!HasGas(r.gas, Avm!BASE) PROVE Avm!GlobalGet(r, p)
  BY <1>1, <1>2, <1>3, <1>4, <1>19 DEF Avm!Step, AvmOps, Avm!Fetch, Avm!Known
<1>20. ASSUME Avm!GlobalPut(m, n), Avm!HasGas(r.gas, Avm!BASE) PROVE Avm!GlobalPut(r, p)
  BY <1>1, <1>2, <1>3, <1>4, <1>20 DEF Avm!Step, AvmOps, Avm!Fetch, Avm!Known
<1>21. ASSUME Avm!Log(m, n), Avm!HasGas(r.gas, Avm!BASE) PROVE Avm!Log(r, p)
  BY <1>1, <1>2, <1>3, <1>4, <1>21 DEF Avm!Step, AvmOps, Avm!Fetch, Avm!Known
<1>22. ASSUME Avm!BytesOp(m, n), Avm!HasGas(r.gas, Avm!BASE) PROVE Avm!BytesOp(r, p)
  BY <1>1, <1>2, <1>3, <1>4, <1>22 DEF Avm!Step, AvmOps, Avm!Fetch, Avm!Known
<1> QED
  BY <1>5, <1>6, <1>7, <1>8, <1>9, <1>10, <1>11, <1>12, <1>13, <1>14, <1>15, <1>16, <1>17, <1>18, <1>19,
     <1>20, <1>21, <1>22 DEF r

\* A step of the AVM interpreter that leaves gas is the step it takes with any
\* other limit that has room for it.
LEMMA AvmSame ==
  ASSUME NEW m, Metered(m), Avm!Size(m) \in Nat, NEW n, Avm!Step(m, n),
         NEW L \in Nat, Within(n, L), NEW p, Avm!Step(Raised(m, L), p)
  PROVE  p = Raised(n, L)
<1> DEFINE r == Raised(m, L)
           F == Avm!Fetched(m)
           R == Avm!Fetched(r)
<1>1. CASE Avm!EndOfCode(m, n)
  <2>1. Avm!EndOfCode(r, p)
    BY <1>1, AvmAgain
  <2> QED
    BY <1>1, <2>1, Zenon DEF Avm!EndOfCode, Raised
<1>2. CASE ~Avm!EndOfCode(m, n)
  <2>1. Spends(F, n) /\ Metered(F)
    <3>1. Spends(F, n)
      BY <1>2, AvmSpends
    <3>2. Avm!Consume(m.gas, Avm!BASE) = Consume(m.gas, BASE)
      BY DEF Avm!Consume, Consume, Avm!HasGas, HasGas, Avm!BASE, BASE
    <3>3. /\ {"gas", "steps", "status", "lang"} \subseteq DOMAIN F
          /\ F.gas = Consume(m.gas, BASE) /\ F.steps = m.steps + 1
      BY <3>2 DEF Avm!Fetched, Metered
    <3>4. Sound(F.gas) /\ F.steps \in Nat
      BY <3>3, ConsumeSound DEF Metered
    <3> HIDE DEF F
    <3> QED
      BY <3>1, <3>3, <3>4 DEF Metered
  <2>2. Within(F, L)
    BY <2>1, WithinBefore
  <2>3. R = Raised(F, L) /\ Avm!HasGas(m.gas, Avm!BASE) /\ Avm!HasGas(r.gas, Avm!BASE)
    BY <2>2, AvmFetched
  <2>4. /\ Avm!Size(r) = Avm!Size(m) /\ Avm!Opcode(r) = Avm!Opcode(m) /\ r.pc = m.pc
        /\ \A i : /\ Avm!Byte(r, i) = Avm!Byte(m, i)
                  /\ Avm!IntAt(r, i) = Avm!IntAt(m, i) /\ Avm!BytesAt(r, i) = Avm!BytesAt(m, i)
                  /\ Avm!Target(r, i) = Avm!Target(m, i)
                  /\ Avm!VarReads(r, i) <=> Avm!VarReads(m, i)
                  /\ Avm!VarSize(r, i) = Avm!VarSize(m, i)
                  /\ Avm!VarValue(r, i) = Avm!VarValue(m, i)
    BY AvmReads, RaisedReads
  <2>5. /\ R.pc = F.pc /\ R.globals = F.globals /\ R.logs = F.logs
        /\ \A i : Avm!Top(R, i) = Avm!Top(F, i)
        /\ \A types : Avm!Holds(R, types) <=> Avm!Holds(F, types)
    BY <2>3, AvmReads, RaisedReads
  <2>6. /\ Avm!Failed(R) = Raised(Avm!Failed(F), L) /\ Avm!Panics(R) = Raised(Avm!Panics(F), L)
        /\ \A v : Avm!Push(R, v) = Raised(Avm!Push(F, v), L)
        /\ \A k : Avm!Drop(R, k) = Raised(Avm!Drop(F, k), L)
    BY <2>3, AvmRaised
  <2>0. \A k, v : Avm!Push(Avm!Drop(R, k), v) = Raised(Avm!Push(Avm!Drop(F, k), v), L)
    <3> SUFFICES ASSUME NEW k, NEW v
                 PROVE  Avm!Push(Avm!Drop(R, k), v) = Raised(Avm!Push(Avm!Drop(F, k), v), L)
      OBVIOUS
    <3>1. Avm!Push(Raised(Avm!Drop(F, k), L), v) = Raised(Avm!Push(Avm!Drop(F, k), v), L)
      BY AvmRaised
    <3> QED
      BY <2>6, <3>1
  <2>7. ~Avm!OutOfGas(m, n)
    BY <2>3 DEF Avm!OutOfGas
  <2>8. Avm!Size(F) \in Nat
    BY DEF Avm!Size, Avm!Fetched
  <2> HIDE DEF r, F, R
  <2>9. CASE Avm!IntcBlock(m, n)
    <3>1. Avm!IntcBlock(r, p)
      BY <2>3, <2>9, AvmAgain DEF r
    <3>2. Avm!IntConstants(R) = Raised(Avm!IntConstants(F), L)
      BY <2>3, <2>8, AvmConstantsRaised
    <3> QED
      BY <2>4, <2>6, <2>9, <3>1, <3>2 DEF F, R, Avm!IntcBlock
  <2>10. CASE Avm!BytecBlock(m, n)
    <3>1. Avm!BytecBlock(r, p)
      BY <2>3, <2>10, AvmAgain DEF r
    <3> DEFINE x == Avm!VarSize(m, m.pc + 1)
               count == Avm!VarValue(m, m.pc + 1)
               past == [F EXCEPT !.pc = F.pc + x]
    <3>2. [R EXCEPT !.pc = R.pc + x] = Raised(past, L)
      BY <2>3, <2>5, Zenon DEF Raised
    <3>3. Avm!Size(past) \in Nat
      BY <2>8 DEF Avm!Size
    <3>4. n = IF ~Avm!VarReads(m, m.pc + 1) THEN Avm!Failed(F) ELSE Avm!ReadAll(Avm!ReadBytes, past, count)
      BY <2>10 DEF F, Avm!BytecBlock
    <3>5. p = IF ~Avm!VarReads(m, m.pc + 1) THEN Avm!Failed(R)
              ELSE Avm!ReadAll(Avm!ReadBytes, Raised(past, L), count)
      BY <2>4, <3>1, <3>2 DEF R, Avm!BytecBlock
    <3> HIDE DEF x, count, past
    <3>6. Avm!ReadAll(Avm!ReadBytes, Raised(past, L), count)
            = Raised(Avm!ReadAll(Avm!ReadBytes, past, count), L)
      BY <3>3, AvmReadAllRaised
    <3> QED
      BY <2>6, <3>4, <3>5, <3>6
  <2>11. CASE Avm!IndexedConstant(m, n)
    <3>1. Avm!IndexedConstant(r, p)
      BY <2>3, <2>11, AvmAgain DEF r
    <3> DEFINE past == [F EXCEPT !.pc = F.pc + 1]
               v == IF Avm!Opcode(m) = 34 THEN Avm!IntAt(m, Avm!Byte(m, m.pc + 1))
                    ELSE Avm!BytesAt(m, Avm!Byte(m, m.pc + 1))
    <3>2. [R EXCEPT !.pc = R.pc + 1] = Raised(past, L)
      BY <2>3, <2>5, Zenon DEF Raised
    <3>3. n = IF m.pc + 1 >= Avm!Size(m) THEN Avm!Panics(F) ELSE Avm!Push(past, v)
      BY <2>11 DEF F, Avm!IndexedConstant
    <3>4. p = IF m.pc + 1 >= Avm!Size(m) THEN Avm!Panics(R) ELSE Avm!Push(Raised(past, L), v)
      BY <2>4, <3>1, <3>2 DEF R, Avm!IndexedConstant
    <3> HIDE DEF past, v
    <3>5. Avm!Push(Raised(past, L), v) = Raised(Avm!Push(past, v), L)
      BY AvmRaised
    <3> QED
      BY <2>6, <3>3, <3>4, <3>5
  <2>12. CASE Avm!NamedConstant(m, n)
    <3>1. Avm!NamedConstant(r, p)
      BY <2>3, <2>12, AvmAgain DEF r
    <3> QED
      BY <2>4, <2>6, <2>12, <3>1 DEF F, R, Avm!NamedConstant
  <2>13. CASE Avm!Arithmetic(m, n)
    <3>1. Avm!Arithmetic(r, p)
      BY <2>3, <2>13, AvmAgain DEF r
    <3>2. Avm!Opcode(m) \in {8, 9, 10, 11, 12}
      BY <2>13, AvmGuards DEF Avm!Fetch, AvmOps
    <3> QED
      BY <2>0, <2>4, <2>5, <2>6, <2>13, <3>1, <3>2 DEF F, R, Avm!Arithmetic
  <2>14. CASE Avm!Logic(m, n)
    <3>1. Avm!Logic(r, p)
      BY <2>3, <2>14, AvmAgain DEF r
    <3>2. Avm!Opcode(m) \in {16, 17, 19}
      BY <2>14, AvmGuards DEF Avm!Fetch, AvmOps
    <3> QED
      BY <2>0, <2>4, <2>5, <2>6, <2>14, <3>1, <3>2 DEF F, R, Avm!Logic
  <2>15. CASE Avm!Not(m, n)
    <3>1. Avm!Not(r, p)
      BY <2>3, <2>15, AvmAgain DEF r
    <3> QED
      BY <2>0, <2>4, <2>5, <2>6, <2>15, <3>1 DEF F, R, Avm!Not
  <2>16. CASE Avm!StackOp(m, n)
    <3>1. Avm!StackOp(r, p)
      BY <2>3, <2>16, AvmAgain DEF r
    <3>2. \A x, y : Avm!Push(Avm!Push(Avm!Drop(R, 2), x), y) =
              Raised(Avm!Push(Avm!Push(Avm!Drop(F, 2), x), y), L)
      <4> SUFFICES ASSUME NEW x, NEW y
                   PROVE  Avm!Push(Avm!Push(Avm!Drop(R, 2), x), y)
                            = Raised(Avm!Push(Avm!Push(Avm!Drop(F, 2), x), y), L)
        OBVIOUS
      <4>1. Avm!Push(Raised(Avm!Push(Avm!Drop(F, 2), x), L), y) =
                Raised(Avm!Push(Avm!Push(Avm!Drop(F, 2), x), y), L)
        BY AvmRaised
      <4> QED
        BY <2>0, <4>1
    <3>3. Avm!Opcode(m) \in {72, 74, 79}
      BY <2>16, AvmGuards DEF Avm!Fetch, AvmOps
    <3> QED
      BY <2>4, <2>5, <2>6, <2>16, <3>1, <3>2, <3>3 DEF F, R, Avm!StackOp
  <2>17. CASE Avm!Branch(m, n)
    <3>1. Avm!Branch(r, p)
      BY <2>3, <2>17, AvmAgain DEF r
    <3> DEFINE past == [F EXCEPT !.pc = F.pc + 2]
               jump == [F EXCEPT !.pc = Avm!Target(m, F.pc)]
    <3>2. [R EXCEPT !.pc = R.pc + 2] = Raised(past, L)
              /\ [R EXCEPT !.pc = Avm!Target(m, R.pc)] = Raised(jump, L)
      BY <2>3, <2>5, Zenon DEF Raised
    <3>3. n = IF m.pc + 3 > Avm!Size(m) THEN Avm!Failed(F)
              ELSE IF Avm!Opcode(m) = 66 THEN jump
              ELSE IF ~Avm!Holds(F, <<"any">>) THEN Avm!Failed(past)
              ELSE Avm!Drop(IF Avm!AsBool(Avm!Top(F, 1)) <=> Avm!Opcode(m) = 64 THEN jump ELSE past, 1)
      BY <2>17 DEF F, Avm!Branch
    <3>4. p = IF m.pc + 3 > Avm!Size(m) THEN Avm!Failed(R)
              ELSE IF Avm!Opcode(m) = 66 THEN Raised(jump, L)
              ELSE IF ~Avm!Holds(F, <<"any">>) THEN Avm!Failed(Raised(past, L))
              ELSE Avm!Drop(IF Avm!AsBool(Avm!Top(F, 1)) <=> Avm!Opcode(m) = 64
                            THEN Raised(jump, L) ELSE Raised(past, L), 1)
      BY <2>4, <2>5, <3>1, <3>2 DEF R, Avm!Branch
    <3> HIDE DEF past, jump
    <3>5. /\ Avm!Failed(Raised(past, L)) = Raised(Avm!Failed(past), L)
          /\ Avm!Drop(Raised(past, L), 1) = Raised(Avm!Drop(past, 1), L)
          /\ Avm!Drop(Raised(jump, L), 1) = Raised(Avm!Drop(jump, 1), L)
      BY AvmRaised
    <3> QED
      BY <2>6, <3>3, <3>4, <3>5
  <2>18. CASE Avm!Return(m, n)
    <3>1. Avm!Return(r, p)
      BY <2>3, <2>18, AvmAgain DEF r
    <3>2. [R EXCEPT !.status = "done"] = Raised([F EXCEPT !.status = "done"], L)
      BY <2>3, Zenon DEF Raised
    <3> QED
      BY <2>18, <3>1, <3>2 DEF F, R, Avm!Return
  <2>19. CASE Avm!Fault(m, n)
    <3>1. Avm!Fault(r, p)
      BY <2>3, <2>19, AvmAgain DEF r
    <3> QED
      BY <2>6, <2>19, <3>1 DEF F, R, Avm!Fault
  <2>20. CASE Avm!AssertTrue(m, n)
    <3>1. Avm!AssertTrue(r, p)
      BY <2>3, <2>20, AvmAgain DEF r
    <3> QED
      BY <2>0, <2>4, <2>5, <2>6, <2>20, <3>1 DEF F, R, Avm!AssertTrue
  <2>21. CASE Avm!GlobalGet(m, n)
    <3>1. Avm!GlobalGet(r, p)
      BY <2>3, <2>21, AvmAgain DEF r
    <3> DEFINE paid == Avm!Charge(F, Avm!SLOAD)
               both == Avm!Charge(R, Avm!SLOAD)
    <3>2. Spends(F, paid) /\ Spends(paid, n)
      BY <2>21, AvmHelpers, AvmStack, SpendsData, SpendsTransitive, Zenon DEF F, Avm!GlobalGet
    <3>3. both = Raised(paid, L) /\ Metered(paid)
      <4>1. Metered(paid)
        BY <2>1, <3>2 DEF Spends
      <4>2. Within(paid, L)
        BY <3>2, <4>1, WithinBefore
      <4> QED
        BY <2>1, <2>3, <4>1, <4>2, AvmCharged
    <3> HIDE DEF paid, both
    <3>4. /\ \A i : Avm!Top(both, i) = Avm!Top(paid, i)
          /\ \A types : Avm!Holds(both, types) <=> Avm!Holds(paid, types)
          /\ Avm!Failed(both) = Raised(Avm!Failed(paid), L)
          /\ \A j : Avm!Drop(both, j) = Raised(Avm!Drop(paid, j), L)
      BY <3>3, AvmReads, AvmRaised, Zenon
    <3>5. \A v : Avm!Push(Avm!Drop(both, 1), v) = Raised(Avm!Push(Avm!Drop(paid, 1), v), L)
      <4> SUFFICES ASSUME NEW v
                   PROVE  Avm!Push(Avm!Drop(both, 1), v) = Raised(Avm!Push(Avm!Drop(paid, 1), v), L)
        OBVIOUS
      <4>1. Avm!Push(Raised(Avm!Drop(paid, 1), L), v) = Raised(Avm!Push(Avm!Drop(paid, 1), v), L)
        BY AvmRaised
      <4> QED
        BY <3>4, <4>1
    <3>6. r.globals = m.globals
      BY RaisedReads DEF r
    <3> QED
      BY <2>21, <3>1, <3>4, <3>5, <3>6 DEF F, R, Avm!GlobalGet, paid, both
  <2>22. CASE Avm!GlobalPut(m, n)
    <3>1. Avm!GlobalPut(r, p)
      BY <2>3, <2>22, AvmAgain DEF r
    <3> DEFINE paid == Avm!Charge(F, Avm!SSTORE_SET)
               both == Avm!Charge(R, Avm!SSTORE_SET)
    <3>2. Spends(F, paid) /\ Spends(paid, n)
      BY <2>22, AvmHelpers, AvmStack, SpendsData, SpendsTransitive, Zenon DEF F, Avm!GlobalPut
    <3>3. both = Raised(paid, L) /\ Metered(paid)
      <4>1. Metered(paid)
        BY <2>1, <3>2 DEF Spends
      <4>2. Within(paid, L)
        BY <3>2, <4>1, WithinBefore
      <4> QED
        BY <2>1, <2>3, <4>1, <4>2, AvmCharged
    <3> HIDE DEF paid, both
    <3>4. /\ \A i : Avm!Top(both, i) = Avm!Top(paid, i)
          /\ \A types : Avm!Holds(both, types) <=> Avm!Holds(paid, types)
          /\ Avm!Failed(both) = Raised(Avm!Failed(paid), L)
          /\ \A j : Avm!Drop(both, j) = Raised(Avm!Drop(paid, j), L)
      BY <3>3, AvmReads, AvmRaised, Zenon
    <3> DEFINE rest == Avm!Drop(paid, 2)
               left == Avm!Drop(both, 2)
    <3>5. /\ left = Raised(rest, L) /\ left.globals = rest.globals
          /\ Avm!Top(both, 1) = Avm!Top(paid, 1) /\ Avm!Top(both, 2) = Avm!Top(paid, 2)
          /\ Avm!Holds(both, <<"any", "bytes">>) <=> Avm!Holds(paid, <<"any", "bytes">>)
      BY <3>4, RaisedReads
    <3> HIDE DEF rest, left
    <3>6. CASE Avm!Holds(paid, <<"any", "bytes">>)
      BY <2>22, <3>1, <3>5, <3>6, Zenon DEF F, R, Avm!GlobalPut, both, paid, rest, left, Raised
    <3>7. CASE ~Avm!Holds(paid, <<"any", "bytes">>)
      BY <2>22, <3>1, <3>4, <3>7 DEF F, R, Avm!GlobalPut, both, paid
    <3> QED
      BY <3>6, <3>7
  <2>23. CASE Avm!Hash(m, n)
    <3>1. Avm!Hash(r, p)
      BY <2>3, <2>23, AvmAgain DEF r
    <3> DEFINE paid == Avm!Charge(F, Avm!SHA3_BASE)
               both == Avm!Charge(R, Avm!SHA3_BASE)
    <3>2. Spends(F, paid) /\ Spends(paid, n)
      BY <2>23, AvmHelpers, AvmStack, SpendsData, SpendsTransitive, Zenon DEF F, Avm!Hash
    <3>3. both = Raised(paid, L) /\ Metered(paid)
      <4>1. Metered(paid)
        BY <2>1, <3>2 DEF Spends
      <4>2. Within(paid, L)
        BY <3>2, <4>1, WithinBefore
      <4> QED
        BY <2>1, <2>3, <4>1, <4>2, AvmCharged
    <3> HIDE DEF paid, both
    <3>4. /\ \A i : Avm!Top(both, i) = Avm!Top(paid, i)
          /\ \A types : Avm!Holds(both, types) <=> Avm!Holds(paid, types)
          /\ Avm!Failed(both) = Raised(Avm!Failed(paid), L)
          /\ \A j : Avm!Drop(both, j) = Raised(Avm!Drop(paid, j), L)
      BY <3>3, AvmReads, AvmRaised, Zenon
    <3> DEFINE cost == Avm!SHA3_WORD * Avm!Words(Len(Avm!Top(paid, 1).bytes))
               all == Avm!Charge(Avm!Drop(paid, 1), cost)
               also == Avm!Charge(Avm!Drop(both, 1), cost)
    <3>5. CASE Avm!Holds(paid, <<"bytes">>)
      <4>1. Spends(paid, Avm!Drop(paid, 1)) /\ Spends(Avm!Drop(paid, 1), all) /\ Spends(all, n)
        BY <2>23, <3>5, AvmHelpers, AvmStack, SpendsData, SpendsNothing, Zenon DEF F, Avm!Hash, paid, Keeps
      <4>2. Metered(Avm!Drop(paid, 1)) /\ Metered(all)
        BY <3>3, <4>1 DEF Spends
      <4> HIDE DEF cost
      <4>3. Within(all, L)
        BY <4>1, <4>2, WithinBefore
      <4>4. Avm!Drop(both, 1) = Raised(Avm!Drop(paid, 1), L)
        BY <3>4
      <4>5. also = Raised(all, L)
        BY <4>2, <4>3, <4>4, AvmCharged
      <4>6. n = Avm!Push(all, Avm!Bytes(Digest(IF Avm!Opcode(m) = 1 THEN "sha256"
                ELSE "sha3", Avm!Top(paid, 1).bytes)))
        BY <2>23, <3>5 DEF F, Avm!Hash, paid, cost
      <4>7. p = Avm!Push(also, Avm!Bytes(Digest(IF Avm!Opcode(m) = 1 THEN "sha256"
                ELSE "sha3", Avm!Top(paid, 1).bytes)))
        BY <2>4, <3>1, <3>4, <3>5 DEF R, Avm!Hash, both, cost
      <4> HIDE DEF all, also
      <4> QED
        BY <4>5, <4>6, <4>7, AvmRaised
    <3>6. CASE ~Avm!Holds(paid, <<"bytes">>)
      BY <2>23, <3>1, <3>4, <3>6 DEF F, R, Avm!Hash, paid, both
    <3> QED
      BY <3>5, <3>6
  <2>24. CASE Avm!Log(m, n)
    <3>1. Avm!Log(r, p)
      BY <2>3, <2>24, AvmAgain DEF r
    <3> DEFINE paid == Avm!Charge(F, Avm!LOG)
               both == Avm!Charge(R, Avm!LOG)
    <3>2. Spends(F, paid) /\ Spends(paid, n)
      BY <2>24, AvmHelpers, AvmStack, SpendsData, SpendsTransitive, ZenonT(60) DEF F, Avm!Log
    <3>3. both = Raised(paid, L) /\ Metered(paid)
      <4>1. Metered(paid)
        BY <2>1, <3>2 DEF Spends
      <4>2. Within(paid, L)
        BY <3>2, <4>1, WithinBefore
      <4> QED
        BY <2>1, <2>3, <4>1, <4>2, AvmCharged
    <3> HIDE DEF paid, both
    <3>4. /\ \A i : Avm!Top(both, i) = Avm!Top(paid, i)
          /\ \A types : Avm!Holds(both, types) <=> Avm!Holds(paid, types)
          /\ Avm!Failed(both) = Raised(Avm!Failed(paid), L)
          /\ \A j : Avm!Drop(both, j) = Raised(Avm!Drop(paid, j), L)
      BY <3>3, AvmReads, AvmRaised, Zenon
    <3> DEFINE cost == Avm!LOG_DATA * Len(Avm!Top(paid, 1).bytes)
               all == Avm!Charge(Avm!Drop(paid, 1), cost)
               also == Avm!Charge(Avm!Drop(both, 1), cost)
    <3>5. CASE Avm!Holds(paid, <<"bytes">>)
      <4>1. Spends(paid, Avm!Drop(paid, 1)) /\ Spends(Avm!Drop(paid, 1), all) /\ Spends(all, n)
        BY <2>24, <3>5, AvmHelpers, AvmStack, SpendsData, SpendsNothing, Zenon DEF F, Avm!Log, paid, Keeps
      <4>2. Metered(Avm!Drop(paid, 1)) /\ Metered(all)
        BY <3>3, <4>1 DEF Spends
      <4> HIDE DEF cost
      <4>3. Within(all, L)
        BY <4>1, <4>2, WithinBefore
      <4>4. Avm!Drop(both, 1) = Raised(Avm!Drop(paid, 1), L)
        BY <3>4
      <4>5. also = Raised(all, L)
        BY <4>2, <4>3, <4>4, AvmCharged
      <4>6. n = IF all.status # "running" THEN all
                ELSE [all EXCEPT !.logs = Append(@, Avm!Top(paid, 1).bytes)]
        BY <2>24, <3>5 DEF F, Avm!Log, paid, cost
      <4>7. p = IF also.status # "running" THEN also
                ELSE [also EXCEPT !.logs = Append(@, Avm!Top(paid, 1).bytes)]
        BY <2>4, <3>1, <3>4, <3>5, SMTT(30) DEF R, Avm!Log, both, cost
      <4> HIDE DEF all, also
      <4>8. also.status = all.status /\ also.logs = all.logs
        BY <4>5, RaisedReads
      <4> QED
        BY <4>5, <4>6, <4>7, <4>8, Zenon DEF Raised
    <3>6. CASE ~Avm!Holds(paid, <<"bytes">>)
      BY <2>24, <3>1, <3>4, <3>6 DEF F, R, Avm!Log, paid, both
    <3> QED
      BY <3>5, <3>6
  <2>25. CASE Avm!BytesOp(m, n)
    <3>1. Avm!BytesOp(r, p)
      BY <2>3, <2>25, AvmAgain DEF r
    <3>2. Avm!Opcode(m) \in {80, 81}
      BY <2>25, AvmGuards DEF Avm!Fetch, AvmOps
    <3> QED
      BY <2>0, <2>4, <2>5, <2>6, <2>25, <3>1, <3>2 DEF F, R, Avm!BytesOp
  <2> QED
    BY <1>2, <2>7, <2>9, <2>10, <2>11, <2>12, <2>13, <2>14, <2>15, <2>16, <2>17, <2>18, <2>19, <2>20,
       <2>21, <2>22, <2>23, <2>24, <2>25 DEF Avm!Step
<1> QED
  BY <1>1, <1>2

-----------------------------------------------------------------------------
\* The SBF machine: what its instructions read
LEMMA SbfReads ==
  ASSUME NEW m, NEW L
  PROVE  LET r == Raised(m, L) IN
         /\ Sbf!Running(r) <=> Sbf!Running(m)
         /\ Sbf!AtEnd(r) <=> Sbf!AtEnd(m)
         /\ Sbf!Size(r) = Sbf!Size(m) /\ Sbf!Instr(r) = Sbf!Instr(m) /\ Sbf!Operand(r) = Sbf!Operand(m)
         /\ Sbf!Overflows(r) <=> Sbf!Overflows(m)
         /\ Sbf!MemoryCharge(r) = Sbf!MemoryCharge(m)
         /\ \A x, y : /\ Sbf!Result(r, x, y) = Sbf!Result(m, x, y)
                      /\ Sbf!Taken(r, x, y) <=> Sbf!Taken(m, x, y)
                      /\ Sbf!Decoded(r, x, y) <=> Sbf!Decoded(m, x, y)
                      /\ Sbf!LittleEndian(r, x, y) = Sbf!LittleEndian(m, x, y)
         /\ \A base : Sbf!Address(r, base) = Sbf!Address(m, base)
<1> DEFINE r == Raised(m, L)
<1>1. r.lang = m.lang /\ r.status = m.status /\ r.code = m.code /\ r.pc = m.pc
      /\ r.regs = m.regs /\ r.heap = m.heap
  BY RaisedReads
<1> HIDE DEF r
<1>2. Sbf!Size(r) = Sbf!Size(m) /\ Sbf!Instr(r) = Sbf!Instr(m)
  BY <1>1 DEF Sbf!Size, Sbf!Instr
<1>3. Sbf!Operand(r) = Sbf!Operand(m)
  BY <1>1, <1>2 DEF Sbf!Operand
<1>4. Sbf!Overflows(r) <=> Sbf!Overflows(m)
  BY <1>1, <1>2, <1>3 DEF Sbf!Overflows
<1>5. \A base : Sbf!Address(r, base) = Sbf!Address(m, base)
  BY <1>1, <1>2 DEF Sbf!Address
<1>6. ASSUME NEW x, NEW y PROVE Sbf!LittleEndian(r, x, y) = Sbf!LittleEndian(m, x, y)
  <2> DEFINE V(heap) == LET High[k \in 0..y] ==
          IF k = y THEN 0 ELSE (heap[x + k] + 256 * High[k + 1]) % Sbf!Word
                        IN  High[0]
  <2>1. Sbf!LittleEndian(r, x, y) = V(r.heap)
    BY DEF Sbf!LittleEndian
  <2>2. Sbf!LittleEndian(m, x, y) = V(m.heap)
    BY DEF Sbf!LittleEndian
  <2> HIDE DEF V
  <2> QED
    BY <1>1, <2>1, <2>2
<1>7. ASSUME NEW x, NEW y PROVE Sbf!Result(r, x, y) = Sbf!Result(m, x, y)
  <2> DEFINE V(op) == CASE op = "add" -> (x + y) % Sbf!Word
                        [] op = "sub" -> (x - y) % Sbf!Word
                        [] op = "mul" -> (x * y) % Sbf!Word
                        [] op = "div" -> x \div y
                        [] op = "mod" -> x % y
                        [] op = "or" -> Sbf!BitOr(x, y)
                        [] op = "and" -> Sbf!BitAnd(x, y)
                        [] op = "xor" -> Sbf!BitXor(x, y)
                        [] op = "lsh" -> (x * 2 ^ (y % BITS)) % Sbf!Word
                        [] op = "rsh" -> x \div 2 ^ (y % BITS)
                        [] op = "neg" -> (-x) % Sbf!Word
                        [] op = "mov" -> y
  <2>1. Sbf!Result(r, x, y) = V(Sbf!Instr(r).op)
    BY DEF Sbf!Result
  <2>2. Sbf!Result(m, x, y) = V(Sbf!Instr(m).op)
    BY DEF Sbf!Result
  <2> HIDE DEF V
  <2> QED
    BY <1>2, <2>1, <2>2
<1>8. ASSUME NEW x, NEW y PROVE Sbf!Taken(r, x, y) <=> Sbf!Taken(m, x, y)
  <2> DEFINE V(op) == CASE op = "jeq" -> x = y
                        [] op = "jne" -> x # y
                        [] op = "jgt" -> x > y
                        [] op = "jge" -> x >= y
                        [] op = "jlt" -> x < y
                        [] op = "jle" -> x <= y
  <2>1. Sbf!Taken(r, x, y) = V(Sbf!Instr(r).op)
    BY DEF Sbf!Taken
  <2>2. Sbf!Taken(m, x, y) = V(Sbf!Instr(m).op)
    BY DEF Sbf!Taken
  <2> HIDE DEF V
  <2> QED
    BY <1>2, <2>1, <2>2
<1>9. \A x, y : Sbf!Decoded(r, x, y) <=> Sbf!Decoded(m, x, y)
  BY <1>2 DEF Sbf!Decoded
<1> QED
  BY <1>1, <1>2, <1>3, <1>4, <1>5, <1>6, <1>7, <1>8, <1>9
     DEF r, Sbf!Running, Sbf!AtEnd, Sbf!MemoryCharge

\* ... and what they do to it
LEMMA SbfRaised ==
  ASSUME NEW m, NEW L
  PROVE  /\ Sbf!Failed(Raised(m, L)) = Raised(Sbf!Failed(m), L)
         /\ Sbf!Panics(Raised(m, L)) = Raised(Sbf!Panics(m), L)
         /\ \A x, v : Sbf!Set(Raised(m, L), x, v) = Raised(Sbf!Set(m, x, v), L)
         /\ \A to : Sbf!Goto(Raised(m, L), to) = Raised(Sbf!Goto(m, to), L)
<1>1. /\ Sbf!Failed(Raised(m, L)) = Raised(Sbf!Failed(m), L)
      /\ Sbf!Panics(Raised(m, L)) = Raised(Sbf!Panics(m), L)
  BY Zenon DEF Raised, Sbf!Failed, Sbf!Panics
<1>2. ASSUME NEW x, NEW v PROVE Sbf!Set(Raised(m, L), x, v) = Raised(Sbf!Set(m, x, v), L)
  BY Zenon DEF Raised, Sbf!Set
<1>3. ASSUME NEW to PROVE Sbf!Goto(Raised(m, L), to) = Raised(Sbf!Goto(m, to), L)
  <2>1. Sbf!Size(Raised(m, L)) = Sbf!Size(m)
    BY SbfReads
  <2> DEFINE x == IF to < 0 THEN Sbf!Size(m) ELSE to
  <2>2. Sbf!Goto(m, to) = [m EXCEPT !.pc = x] /\ Sbf!Goto(Raised(m, L), to) = [Raised(m, L) EXCEPT !.pc = x]
    BY <2>1 DEF Sbf!Goto
  <2> HIDE DEF x
  <2> QED
    BY <2>2, Zenon DEF Raised
<1> QED
  BY <1>1, <1>2, <1>3, SMTT(30)

\* A cost that was paid with gas left
LEMMA SbfCharged ==
  ASSUME NEW m, Metered(m), NEW L \in Nat, NEW amount, Within(Sbf!Charge(m, amount), L)
  PROVE  Sbf!Charge(Raised(m, L), amount) = Raised(Sbf!Charge(m, amount), L)
<1>1. \A g : Sbf!Consume(g, amount) = Consume(g, amount) /\ (Sbf!HasGas(g, amount) <=> HasGas(g, amount))
  BY DEF Sbf!Consume, Consume, Sbf!HasGas, HasGas
<1>2. Sbf!Charge(m, amount).gas = Consume(m.gas, amount)
  BY <1>1 DEF Sbf!Charge, Sbf!Failed, Metered
<1>3. Consume(m.gas, amount).used < Consume(m.gas, amount).limit /\ Consume(m.gas, amount).used <= L
  BY <1>2 DEF Within
<1> QED
  BY <1>1, <1>3, BothPay DEF Sbf!Charge

\* ... as the base cost is, and it is paid by both machines.
LEMMA SbfFetched ==
  ASSUME NEW m, Metered(m), NEW L \in Nat, Within(Sbf!Fetched(m), L)
  PROVE  /\ Sbf!Fetched(Raised(m, L)) = Raised(Sbf!Fetched(m), L)
         /\ Sbf!HasGas(m.gas, Sbf!BASE) /\ Sbf!HasGas(Raised(m, L).gas, Sbf!BASE)
<1>1. \A g : Sbf!Consume(g, Sbf!BASE) = Consume(g, BASE) /\ (Sbf!HasGas(g, Sbf!BASE) <=> HasGas(g, BASE))
  BY DEF Sbf!Consume, Consume, Sbf!HasGas, HasGas, Sbf!BASE, BASE
<1>2. Sbf!Fetched(m).gas = Consume(m.gas, BASE)
  BY <1>1 DEF Sbf!Fetched, Metered
<1>3. Consume(m.gas, BASE).used < Consume(m.gas, BASE).limit /\ Consume(m.gas, BASE).used <= L
  BY <1>2 DEF Within
<1>4. /\ HasGas(m.gas, BASE) /\ HasGas(Raised(m, L).gas, BASE)
      /\ [Raised(m, L) EXCEPT !.gas = Consume(Raised(m, L).gas, BASE)]
           = Raised([m EXCEPT !.gas = Consume(m.gas, BASE)], L)
  BY <1>3, BothPay
<1> DEFINE past == [m EXCEPT !.gas = Consume(m.gas, BASE)]
           r == Raised(m, L)
<1>5. Sbf!Fetched(m) = [[past EXCEPT !.pc = m.pc + 1] EXCEPT !.steps = m.steps + 1]
  BY <1>1, Zenon DEF Sbf!Fetched
<1>6. Sbf!Fetched(r) = [[[r EXCEPT !.gas = Consume(r.gas, BASE)] EXCEPT !.pc = r.pc + 1]
          EXCEPT !.steps = r.steps + 1]
  BY <1>1, Zenon DEF Sbf!Fetched
<1>7. r.pc = m.pc /\ r.steps = m.steps
  BY RaisedReads
<1> HIDE DEF past, r
<1>8. Sbf!Fetched(r) = [[Raised(past, L) EXCEPT !.pc = m.pc + 1] EXCEPT !.steps = m.steps + 1]
  BY <1>4, <1>6, <1>7, Zenon DEF past, r
<1>9. [[Raised(past, L) EXCEPT !.pc = m.pc + 1] EXCEPT !.steps = m.steps + 1]
        = Raised([[past EXCEPT !.pc = m.pc + 1] EXCEPT !.steps = m.steps + 1], L)
  BY Zenon DEF Raised
<1> QED
  BY <1>1, <1>4, <1>5, <1>8, <1>9 DEF r

\* Which instructions an action is for
SbfOps(m, n) ==
  /\ Sbf!Alu(m, n) => Sbf!Fetch(m, Sbf!AluOps)
         /\ Sbf!Decoded(m, Sbf!AluOps, {"add", "sub", "mul", "div", "mov"})
  /\ Sbf!Load(m, n) => Sbf!Fetch(m, {"ldx"})
  /\ Sbf!Store(m, n) => Sbf!Fetch(m, {"st"})
  /\ Sbf!Jump(m, n) => Sbf!Fetch(m, {"ja"})
  /\ Sbf!CondJump(m, n) => Sbf!Fetch(m, Sbf!CondOps) /\ Sbf!Decoded(m, Sbf!CondOps, {"jeq"})
  /\ Sbf!CallFunction(m, n) => Sbf!Fetch(m, {"call"}) /\ Sbf!Instr(m).imm \notin {1, 2}
  /\ Sbf!LogCall(m, n) => Sbf!Fetch(m, {"call"}) /\ Sbf!Instr(m).imm = 1
  /\ Sbf!ShaCall(m, n) => Sbf!Fetch(m, {"call"}) /\ Sbf!Instr(m).imm = 2
  /\ Sbf!Exit(m, n) => Sbf!Fetch(m, {"exit"})
  /\ Sbf!Invalid(m, n) => /\ Sbf!Fetch(m, Sbf!AluOps \cup Sbf!CondOps \cup {"jset", "add32"})
                          /\ ~Sbf!Decoded(m, Sbf!AluOps \cup Sbf!CondOps,
                                           {"add", "sub", "mul", "div", "mov", "jeq"})

\* Each instruction of SBF is fetched by its operation.
LEMMA SbfGuards ==
  ASSUME NEW m, NEW n
  PROVE  SbfOps(m, n)
BY DEF SbfOps, Sbf!Alu, Sbf!Load, Sbf!Store, Sbf!Jump, Sbf!CondJump, Sbf!CallFunction, Sbf!LogCall,
   Sbf!ShaCall, Sbf!Exit, Sbf!Invalid

\* Only one action is for an instruction: a machine that differs in its limit only,
\* and has gas for the next step, takes the same one.
LEMMA SbfAgain ==
  ASSUME NEW m, NEW L, NEW n, NEW p, Sbf!Step(Raised(m, L), p)
  PROVE  /\ Sbf!EndOfCode(m, n) => Sbf!EndOfCode(Raised(m, L), p)
         /\ Sbf!HasGas(Raised(m, L).gas, Sbf!BASE) =>
            /\ Sbf!Alu(m, n) => Sbf!Alu(Raised(m, L), p)
            /\ Sbf!Load(m, n) => Sbf!Load(Raised(m, L), p)
            /\ Sbf!Store(m, n) => Sbf!Store(Raised(m, L), p)
            /\ Sbf!Jump(m, n) => Sbf!Jump(Raised(m, L), p)
            /\ Sbf!CondJump(m, n) => Sbf!CondJump(Raised(m, L), p)
            /\ Sbf!CallFunction(m, n) => Sbf!CallFunction(Raised(m, L), p)
            /\ Sbf!LogCall(m, n) => Sbf!LogCall(Raised(m, L), p)
            /\ Sbf!ShaCall(m, n) => Sbf!ShaCall(Raised(m, L), p)
            /\ Sbf!Exit(m, n) => Sbf!Exit(Raised(m, L), p)
            /\ Sbf!Invalid(m, n) => Sbf!Invalid(Raised(m, L), p)
<1> DEFINE r == Raised(m, L)
<1>1. Sbf!Instr(r) = Sbf!Instr(m) /\ (Sbf!AtEnd(r) <=> Sbf!AtEnd(m))
  BY SbfReads
<1> HIDE DEF r
<1>2. SbfOps(r, p) /\ SbfOps(m, n)
  BY SbfGuards
<1>3. /\ Sbf!EndOfCode(r, p) => Sbf!AtEnd(r)
      /\ Sbf!OutOfGas(r, p) => ~Sbf!AtEnd(r) /\ ~Sbf!HasGas(r.gas, Sbf!BASE)
  BY DEF Sbf!EndOfCode, Sbf!OutOfGas
<1>4. Sbf!Step(r, p)
  BY DEF r
<1>5. ASSUME Sbf!EndOfCode(m, n) PROVE Sbf!EndOfCode(r, p)
  <2>1. Sbf!AtEnd(m)
    BY <1>5 DEF Sbf!EndOfCode
  <2> QED
    BY <1>1, <1>2, <1>3, <1>4, <2>1 DEF Sbf!Step, SbfOps, Sbf!Fetch, Sbf!Decoded, Sbf!AluOps, Sbf!CondOps
<1>6. ASSUME Sbf!Alu(m, n), Sbf!HasGas(r.gas, Sbf!BASE) PROVE Sbf!Alu(r, p)
  BY <1>1, <1>2, <1>3, <1>4, <1>6 DEF Sbf!Step, SbfOps, Sbf!Fetch, Sbf!Decoded, Sbf!AluOps, Sbf!CondOps
<1>7. ASSUME Sbf!Load(m, n), Sbf!HasGas(r.gas, Sbf!BASE) PROVE Sbf!Load(r, p)
  BY <1>1, <1>2, <1>3, <1>4, <1>7 DEF Sbf!Step, SbfOps, Sbf!Fetch, Sbf!Decoded, Sbf!AluOps, Sbf!CondOps
<1>8. ASSUME Sbf!Store(m, n), Sbf!HasGas(r.gas, Sbf!BASE) PROVE Sbf!Store(r, p)
  BY <1>1, <1>2, <1>3, <1>4, <1>8 DEF Sbf!Step, SbfOps, Sbf!Fetch, Sbf!Decoded, Sbf!AluOps, Sbf!CondOps
<1>9. ASSUME Sbf!Jump(m, n), Sbf!HasGas(r.gas, Sbf!BASE) PROVE Sbf!Jump(r, p)
  BY <1>1, <1>2, <1>3, <1>4, <1>9 DEF Sbf!Step, SbfOps, Sbf!Fetch, Sbf!Decoded, Sbf!AluOps, Sbf!CondOps
<1>10. ASSUME Sbf!CondJump(m, n), Sbf!HasGas(r.gas, Sbf!BASE) PROVE Sbf!CondJump(r, p)
  BY <1>1, <1>2, <1>3, <1>4, <1>10 DEF Sbf!Step, SbfOps, Sbf!Fetch, Sbf!Decoded, Sbf!AluOps, Sbf!CondOps
<1>11. ASSUME Sbf!CallFunction(m, n), Sbf!HasGas(r.gas, Sbf!BASE) PROVE Sbf!CallFunction(r, p)
  BY <1>1, <1>2, <1>3, <1>4, <1>11 DEF Sbf!Step, SbfOps, Sbf!Fetch, Sbf!Decoded, Sbf!AluOps, Sbf!CondOps
<1>12. ASSUME Sbf!LogCall(m, n), Sbf!HasGas(r.gas, Sbf!BASE) PROVE Sbf!LogCall(r, p)
  BY <1>1, <1>2, <1>3, <1>4, <1>12 DEF Sbf!Step, SbfOps, Sbf!Fetch, Sbf!Decoded, Sbf!AluOps, Sbf!CondOps
<1>13. ASSUME Sbf!ShaCall(m, n), Sbf!HasGas(r.gas, Sbf!BASE) PROVE Sbf!ShaCall(r, p)
  BY <1>1, <1>2, <1>3, <1>4, <1>13 DEF Sbf!Step, SbfOps, Sbf!Fetch, Sbf!Decoded, Sbf!AluOps, Sbf!CondOps
<1>14. ASSUME Sbf!Exit(m, n), Sbf!HasGas(r.gas, Sbf!BASE) PROVE Sbf!Exit(r, p)
  BY <1>1, <1>2, <1>3, <1>4, <1>14 DEF Sbf!Step, SbfOps, Sbf!Fetch, Sbf!Decoded, Sbf!AluOps, Sbf!CondOps
<1>15. ASSUME Sbf!Invalid(m, n), Sbf!HasGas(r.gas, Sbf!BASE) PROVE Sbf!Invalid(r, p)
  BY <1>1, <1>2, <1>3, <1>4, <1>15 DEF Sbf!Step, SbfOps, Sbf!Fetch, Sbf!Decoded, Sbf!AluOps, Sbf!CondOps
<1> QED
  BY <1>5, <1>6, <1>7, <1>8, <1>9, <1>10, <1>11, <1>12, <1>13, <1>14, <1>15 DEF r

\* A step of the SBF interpreter that leaves gas is the step it takes with any
\* other limit that has room for it.
LEMMA SbfSame ==
  ASSUME NEW m, Metered(m), NEW n, Sbf!Step(m, n),
         NEW L \in Nat, Within(n, L), NEW p, Sbf!Step(Raised(m, L), p)
  PROVE  p = Raised(n, L)
<1> DEFINE r == Raised(m, L)
           F == Sbf!Fetched(m)
           R == Sbf!Fetched(r)
<1>1. CASE Sbf!EndOfCode(m, n)
  <2>1. Sbf!EndOfCode(r, p)
    BY <1>1, SbfAgain
  <2> QED
    BY <1>1, <2>1, Zenon DEF Sbf!EndOfCode, Raised
<1>2. CASE ~Sbf!EndOfCode(m, n)
  <2>1. Spends(F, n) /\ Metered(F)
    <3>1. Spends(F, n)
      BY <1>2, SbfSpends
    <3>2. Sbf!Consume(m.gas, Sbf!BASE) = Consume(m.gas, BASE)
      BY DEF Sbf!Consume, Consume, Sbf!HasGas, HasGas, Sbf!BASE, BASE
    <3>3. /\ {"gas", "steps", "status", "lang"} \subseteq DOMAIN F
          /\ F.gas = Consume(m.gas, BASE) /\ F.steps = m.steps + 1
      BY <3>2 DEF Sbf!Fetched, Metered
    <3>4. Sound(F.gas) /\ F.steps \in Nat
      BY <3>3, ConsumeSound DEF Metered
    <3> HIDE DEF F
    <3> QED
      BY <3>1, <3>3, <3>4 DEF Metered
  <2>2. Within(F, L)
    BY <2>1, WithinBefore
  <2>3. R = Raised(F, L) /\ Sbf!HasGas(m.gas, Sbf!BASE) /\ Sbf!HasGas(r.gas, Sbf!BASE)
    BY <2>2, SbfFetched
  <2>4. /\ Sbf!Instr(r) = Sbf!Instr(m) /\ Sbf!Operand(r) = Sbf!Operand(m)
        /\ Sbf!Overflows(r) <=> Sbf!Overflows(m)
        /\ Sbf!MemoryCharge(r) = Sbf!MemoryCharge(m)
        /\ \A x, y : /\ Sbf!Result(r, x, y) = Sbf!Result(m, x, y)
                     /\ Sbf!Taken(r, x, y) <=> Sbf!Taken(m, x, y)
                     /\ Sbf!LittleEndian(r, x, y) = Sbf!LittleEndian(m, x, y)
        /\ \A base : Sbf!Address(r, base) = Sbf!Address(m, base)
        /\ r.regs = m.regs /\ r.heap = m.heap /\ r.pc = m.pc /\ r.calls = m.calls
    BY SbfReads, RaisedReads
  <2>5. R.calls = F.calls
    BY <2>3, RaisedReads
  <2>6. /\ Sbf!Failed(R) = Raised(Sbf!Failed(F), L) /\ Sbf!Panics(R) = Raised(Sbf!Panics(F), L)
        /\ \A x, v : Sbf!Set(R, x, v) = Raised(Sbf!Set(F, x, v), L)
        /\ \A to : Sbf!Goto(R, to) = Raised(Sbf!Goto(F, to), L)
        /\ R = Raised(F, L)
    BY <2>3, SbfRaised
  <2>7. ~Sbf!OutOfGas(m, n)
    BY <2>3 DEF Sbf!OutOfGas
  <2> HIDE DEF r, F, R
  <2>8. ASSUME Spends(Sbf!Called(m), n)
        PROVE  Sbf!Called(r) = Raised(Sbf!Called(m), L) /\ Metered(Sbf!Called(m))
    <3> DEFINE paid == Sbf!Charge(F, Sbf!CALL)
               both == Sbf!Charge(R, Sbf!CALL)
    <3>1. Sbf!Paid(m) = paid /\ Sbf!Paid(r) = both
      BY DEF Sbf!Paid, F, R
    <3>2. Spends(F, paid) /\ Spends(paid, Sbf!Called(m))
      BY <3>1, SbfHelpers, SpendsNothing, Zenon DEF Sbf!Called, Keeps
    <3>3. Metered(paid) /\ Metered(Sbf!Called(m))
      BY <2>1, <3>2 DEF Spends
    <3>4. Within(Sbf!Called(m), L)
      BY <2>8, <3>3, WithinBefore
    <3>5. Within(paid, L)
      BY <3>2, <3>3, <3>4, WithinBefore
    <3>6. both = Raised(paid, L)
      BY <2>1, <2>3, <3>5, SbfCharged
    <3> HIDE DEF paid, both
    <3>7. both.status = paid.status /\ Sbf!Failed(both) = Raised(Sbf!Failed(paid), L)
      BY <3>6, RaisedReads, SbfRaised, ZenonT(60)
    <3> QED
      BY <2>4, <3>1, <3>3, <3>6, <3>7 DEF Sbf!Called
  <2>9. CASE Sbf!Alu(m, n)
    <3>1. Sbf!Alu(r, p)
      BY <2>3, <2>9, SbfAgain DEF r
    <3> QED
      BY <2>4, <2>5, <2>6, <2>9, <3>1 DEF F, R, Sbf!Alu
  <2>10. CASE Sbf!Load(m, n)
    <3>1. Sbf!Load(r, p)
      BY <2>3, <2>10, SbfAgain DEF r
    <3> DEFINE paid == Sbf!Charge(F, Sbf!MemoryCharge(m))
               both == Sbf!Charge(R, Sbf!MemoryCharge(m))
    <3>2. CASE Sbf!Instr(m).src \notin Sbf!Register
      BY <2>4, <2>6, <2>10, <3>1, <3>2 DEF F, R, Sbf!Load
    <3>3. CASE (Sbf!Instr(m).src \in Sbf!Register)
      <4>1. Spends(F, paid) /\ Spends(paid, n)
        BY <2>10, <3>3, SbfHelpers, SpendsData, SpendsNothing, SpendsTransitive, Zenon
           DEF F, Sbf!Load, Sbf!Set, Keeps
      <4>2. Metered(paid)
        BY <2>1, <4>1 DEF Spends
      <4>3. both = Raised(paid, L)
        BY <2>1, <2>3, <4>1, <4>2, SbfCharged, WithinBefore
      <4> HIDE DEF paid, both
      <4>4. both.status = paid.status /\ both.heap = paid.heap
        BY <4>3, RaisedReads
      <4>5. /\ Sbf!Failed(both) = Raised(Sbf!Failed(paid), L)
                   /\ Sbf!Panics(both) = Raised(Sbf!Panics(paid), L)
            /\ \A x, v : Sbf!Set(both, x, v) = Raised(Sbf!Set(paid, x, v), L)
        BY <4>3, SbfRaised
      <4> QED
        BY <2>4, <2>10, <3>1, <3>3, <4>3, <4>4, <4>5 DEF F, R, Sbf!Load, paid, both
    <3> QED
      BY <3>2, <3>3
  <2>11. CASE Sbf!Store(m, n)
    <3>1. Sbf!Store(r, p)
      BY <2>3, <2>11, SbfAgain DEF r
    <3> DEFINE named == {Sbf!Instr(m).dst} \cup (IF Sbf!Instr(m).reg THEN {Sbf!Instr(m).src} ELSE {})
               paid == Sbf!Charge(F, Sbf!MemoryCharge(m))
               both == Sbf!Charge(R, Sbf!MemoryCharge(m))
    <3>2. CASE ~Sbf!NamesRegisters(named)
      BY <2>4, <2>6, <2>11, <3>1, <3>2 DEF F, R, Sbf!Store
    <3>3. CASE Sbf!NamesRegisters(named)
      <4>1. Spends(F, paid) /\ Spends(paid, n)
        BY <2>11, <3>3, SbfHelpers, SpendsData, SpendsNothing, SpendsTransitive, Zenon
           DEF F, Sbf!Store, Sbf!Set, Keeps
      <4>2. Metered(paid)
        BY <2>1, <4>1 DEF Spends
      <4>3. both = Raised(paid, L)
        BY <2>1, <2>3, <4>1, <4>2, SbfCharged, WithinBefore
      <4> HIDE DEF paid, both
      <4>4. both.status = paid.status /\ both.heap = paid.heap
        BY <4>3, RaisedReads
      <4> DEFINE a == Sbf!Address(m, Sbf!Instr(m).dst)
                 width == Sbf!Instr(m).width
                 Put(heap) == [b \in DOMAIN heap |->
                                 IF b \in a..(a + width - 1) THEN Sbf!ByteOf(Sbf!Operand(m), b - a)
                                     ELSE heap[b]]
      <4>5. /\ Sbf!Failed(both) = Raised(Sbf!Failed(paid), L)
                   /\ Sbf!Panics(both) = Raised(Sbf!Panics(paid), L)
        BY <4>3, SbfRaised
      <4>6. n = IF paid.status # "running" THEN paid
                ELSE IF Sbf!Wraps(a, width) THEN Sbf!Panics(paid)
                ELSE IF ~Sbf!InHeap(a, width) THEN Sbf!Failed(paid)
                ELSE [paid EXCEPT !.heap = Put(paid.heap)]
        BY <2>11, <3>3 DEF F, Sbf!Store, paid
      <4>7. p = IF both.status # "running" THEN both
                ELSE IF Sbf!Wraps(a, width) THEN Sbf!Panics(both)
                ELSE IF ~Sbf!InHeap(a, width) THEN Sbf!Failed(both)
                ELSE [both EXCEPT !.heap = Put(both.heap)]
        BY <2>4, <3>1, <3>3 DEF R, Sbf!Store, both
      <4> HIDE DEF a, width, Put
      <4>8. [both EXCEPT !.heap = Put(both.heap)] = Raised([paid EXCEPT !.heap = Put(paid.heap)], L)
        BY <4>3, <4>4, Zenon DEF Raised
      <4> QED
        BY <4>3, <4>4, <4>5, <4>6, <4>7, <4>8
    <3> QED
      BY <3>2, <3>3
  <2>12. CASE Sbf!Jump(m, n)
    <3>1. Sbf!Jump(r, p)
      BY <2>3, <2>12, SbfAgain DEF r
    <3> QED
      BY <2>4, <2>5, <2>6, <2>12, <3>1 DEF F, R, Sbf!Jump
  <2>13. CASE Sbf!CondJump(m, n)
    <3>1. Sbf!CondJump(r, p)
      BY <2>3, <2>13, SbfAgain DEF r
    <3> QED
      BY <2>4, <2>5, <2>6, <2>13, <3>1 DEF F, R, Sbf!CondJump
  <2>14. CASE Sbf!CallFunction(m, n)
    <3>1. Sbf!CallFunction(r, p)
      BY <2>3, <2>14, SbfAgain DEF r
    <3> DEFINE C == Sbf!Called(m)
               D == Sbf!Called(r)
    <3>2. Spends(C, n)
      BY <2>14, SbfHelpers, SpendsData, SpendsNothing, SpendsTransitive, ZenonT(60)
         DEF Sbf!CallFunction, Sbf!Goto, Sbf!Set, Keeps
    <3>3. D = Raised(C, L) /\ Metered(C)
      BY <2>8, <3>2
    <3> HIDE DEF C, D
    <3>4. /\ D.status = C.status /\ D.calls = C.calls /\ D.logs = C.logs
          /\ Sbf!Failed(D) = Raised(Sbf!Failed(C), L) /\ Sbf!Panics(D) = Raised(Sbf!Panics(C), L)
          /\ Sbf!Set(D, 0, 0) = Raised(Sbf!Set(C, 0, 0), L)
      <4>1. D.status = C.status /\ D.calls = C.calls /\ D.logs = C.logs
        BY <3>3, RaisedReads
      <4>2. /\ Sbf!Failed(D) = Raised(Sbf!Failed(C), L) /\ Sbf!Panics(D) = Raised(Sbf!Panics(C), L)
            /\ Sbf!Set(D, 0, 0) = Raised(Sbf!Set(C, 0, 0), L)
        BY <3>3, SbfRaised
      <4> QED
        BY <4>1, <4>2
    <3> DEFINE in == [C EXCEPT !.calls = Append(C.calls, m.pc + 1)]
    <3>5. [D EXCEPT !.calls = Append(C.calls, m.pc + 1)] = Raised(in, L)
      BY <3>3, Zenon DEF Raised
    <3>6. n = IF C.status # "running" THEN C ELSE Sbf!Goto(in, Sbf!Instr(m).imm)
      BY <2>14 DEF Sbf!CallFunction, C
    <3>7. p = IF C.status # "running" THEN D ELSE Sbf!Goto(Raised(in, L), Sbf!Instr(m).imm)
      BY <2>4, <3>1, <3>4, <3>5 DEF Sbf!CallFunction, D
    <3> HIDE DEF in
    <3>8. Sbf!Goto(Raised(in, L), Sbf!Instr(m).imm) = Raised(Sbf!Goto(in, Sbf!Instr(m).imm), L)
      BY SbfRaised
    <3> QED
      BY <3>3, <3>6, <3>7, <3>8
  <2>15. CASE Sbf!LogCall(m, n)
    <3>1. Sbf!LogCall(r, p)
      BY <2>3, <2>15, SbfAgain DEF r
    <3> DEFINE C == Sbf!Called(m)
               D == Sbf!Called(r)
    <3>2. Spends(C, n)
      BY <2>15, SbfHelpers, SpendsData, SpendsNothing, SpendsTransitive, ZenonT(60)
         DEF Sbf!LogCall, Sbf!Goto, Sbf!Set, Keeps
    <3>3. D = Raised(C, L) /\ Metered(C)
      BY <2>8, <3>2
    <3> HIDE DEF C, D
    <3>4. /\ D.status = C.status /\ D.calls = C.calls /\ D.logs = C.logs
          /\ Sbf!Failed(D) = Raised(Sbf!Failed(C), L) /\ Sbf!Panics(D) = Raised(Sbf!Panics(C), L)
          /\ Sbf!Set(D, 0, 0) = Raised(Sbf!Set(C, 0, 0), L)
      <4>1. D.status = C.status /\ D.calls = C.calls /\ D.logs = C.logs
        BY <3>3, RaisedReads
      <4>2. /\ Sbf!Failed(D) = Raised(Sbf!Failed(C), L) /\ Sbf!Panics(D) = Raised(Sbf!Panics(C), L)
            /\ Sbf!Set(D, 0, 0) = Raised(Sbf!Set(C, 0, 0), L)
        BY <3>3, SbfRaised
      <4> QED
        BY <4>1, <4>2
    <3> DEFINE from == m.regs[1]
               to == from + m.regs[2]
               read == IF to >= Sbf!Word THEN to - Sbf!Word ELSE to
               Said(heap) == [i \in 1..(to - from) |-> heap[from + i - 1]]
               logged == [C EXCEPT !.logs = Append(C.logs, Said(m.heap))]
    <3>5. [D EXCEPT !.logs = Append(D.logs, Said(m.heap))] = Raised(logged, L)
      BY <3>3, <3>4, Zenon DEF Raised
    <3>6. n = IF C.status # "running" THEN C
              ELSE IF to >= Sbf!Word /\ (OverflowChecks \/ read <= HEAP_SIZE) THEN Sbf!Panics(C)
              ELSE IF read > HEAP_SIZE THEN Sbf!Set(C, 0, 0)
              ELSE Sbf!Set(logged, 0, 0)
      BY <2>15 DEF Sbf!LogCall, C
    <3>7. p = IF D.status # "running" THEN D
              ELSE IF to >= Sbf!Word /\ (OverflowChecks \/ read <= HEAP_SIZE) THEN Sbf!Panics(D)
              ELSE IF read > HEAP_SIZE THEN Sbf!Set(D, 0, 0)
              ELSE Sbf!Set([D EXCEPT !.logs = Append(D.logs, Said(r.heap))], 0, 0)
      BY <2>4, <3>1 DEF Sbf!LogCall, D
    <3> HIDE DEF Said, read, to, from
    <3>8. Said(r.heap) = Said(m.heap)
      BY <2>4
    <3> HIDE DEF logged
    <3>9. Sbf!Set(Raised(logged, L), 0, 0) = Raised(Sbf!Set(logged, 0, 0), L)
      BY SbfRaised
    <3> QED
      BY <3>3, <3>4, <3>5, <3>6, <3>7, <3>8, <3>9, Zenon
  <2>16. CASE Sbf!ShaCall(m, n)
    <3>1. Sbf!ShaCall(r, p)
      BY <2>3, <2>16, SbfAgain DEF r
    <3> DEFINE C == Sbf!Called(m)
               D == Sbf!Called(r)
               paid == Sbf!Charge(C, Sbf!SHA3_BASE)
               both == Sbf!Charge(D, Sbf!SHA3_BASE)
    <3>9. n = IF C.status # "running" THEN C ELSE IF paid.status = "running" THEN Sbf!Set(paid, 0, 0)
              ELSE paid
      BY <2>16 DEF Sbf!ShaCall
    <3>10. p = IF D.status # "running" THEN D ELSE IF both.status = "running" THEN Sbf!Set(both, 0, 0)
               ELSE both
      BY <3>1 DEF Sbf!ShaCall
    <3>2. Spends(C, paid) /\ (C.status = "running" => Spends(paid, n)) /\ Spends(C, n)
      <4>1. Spends(C, paid) /\ Spends(C, C) /\ Spends(paid, paid)
        BY SbfHelpers, SpendsNothing DEF Keeps
      <4>2. Spends(paid, Sbf!Set(paid, 0, 0))
        <5>1. Keeps(paid, Sbf!Set(paid, 0, 0))
          BY DEF Sbf!Set, Keeps
        <5> QED
          BY <5>1, SpendsNothing
      <4> HIDE DEF C, paid
      <4> QED
        BY <3>9, <4>1, <4>2, SpendsTransitive
    <3>3. D = Raised(C, L) /\ Metered(C)
      BY <2>8, <3>2
    <3> HIDE DEF C, D, paid, both
    <3>4. /\ D.status = C.status /\ D.calls = C.calls /\ D.logs = C.logs
          /\ Sbf!Failed(D) = Raised(Sbf!Failed(C), L) /\ Sbf!Panics(D) = Raised(Sbf!Panics(C), L)
          /\ Sbf!Set(D, 0, 0) = Raised(Sbf!Set(C, 0, 0), L)
      <4>1. D.status = C.status /\ D.calls = C.calls /\ D.logs = C.logs
        BY <3>3, RaisedReads
      <4>2. /\ Sbf!Failed(D) = Raised(Sbf!Failed(C), L) /\ Sbf!Panics(D) = Raised(Sbf!Panics(C), L)
            /\ Sbf!Set(D, 0, 0) = Raised(Sbf!Set(C, 0, 0), L)
        BY <3>3, SbfRaised
      <4> QED
        BY <4>1, <4>2
    <3>5. ASSUME C.status = "running" PROVE both = Raised(paid, L)
      <4>1. Metered(paid)
        BY <3>2, <3>3 DEF Spends
      <4>2. Within(paid, L)
        BY <3>2, <3>5, <4>1, WithinBefore
      <4> QED
        BY <3>3, <4>1, <4>2, SbfCharged DEF paid, both
    <3>6. Sbf!Set(Raised(paid, L), 0, 0) = Raised(Sbf!Set(paid, 0, 0), L)
      BY SbfRaised
    <3>7. Raised(paid, L).status = paid.status
      BY RaisedReads
    <3> QED
      BY <3>3, <3>4, <3>5, <3>6, <3>7, <3>9, <3>10
  <2>17. CASE Sbf!Exit(m, n)
    <3>1. Sbf!Exit(r, p)
      BY <2>3, <2>17, SbfAgain DEF r
    <3>2. CASE m.calls = <<>>
      <4>1. n = [F EXCEPT !.status = "done"] /\ p = [R EXCEPT !.status = "done"]
        BY <2>4, <2>17, <3>1, <3>2 DEF F, R, Sbf!Exit
      <4> QED
        BY <2>3, <4>1, Zenon DEF Raised
    <3>3. CASE m.calls # <<>>
      <4> DEFINE to == m.calls[Len(m.calls)]
                 calls == SubSeq(F.calls, 1, Len(F.calls) - 1)
      <4>1. n = [F EXCEPT !.pc = to, !.calls = calls]
        BY <2>17, <3>3 DEF F, Sbf!Exit
      <4>2. p = [R EXCEPT !.pc = to, !.calls = calls]
        BY <2>4, <2>5, <3>1, <3>3 DEF R, Sbf!Exit
      <4> HIDE DEF to, calls
      <4> QED
        BY <2>3, <4>1, <4>2, Zenon DEF Raised
    <3> QED
      BY <3>2, <3>3
  <2>18. CASE Sbf!Invalid(m, n)
    <3>1. Sbf!Invalid(r, p)
      BY <2>3, <2>18, SbfAgain DEF r
    <3> QED
      BY <2>4, <2>5, <2>6, <2>18, <3>1 DEF F, R, Sbf!Invalid
  <2> QED
    BY <1>2, <2>7, <2>9, <2>10, <2>11, <2>12, <2>13, <2>14, <2>15, <2>16, <2>17, <2>18 DEF Sbf!Step
<1> QED
  BY <1>1, <1>2

-----------------------------------------------------------------------------
\* The Kaspa machine: what its opcodes read
LEMMA KaspaReads ==
  ASSUME NEW m, NEW L
  PROVE  LET r == Raised(m, L) IN
         /\ Kaspa!Running(r) <=> Kaspa!Running(m)
         /\ Kaspa!AtEnd(r) <=> Kaspa!AtEnd(m)
         /\ Kaspa!AtLimit(r) <=> Kaspa!AtLimit(m)
         /\ Kaspa!Token(r) = Kaspa!Token(m)
         /\ Kaspa!Executing(r) <=> Kaspa!Executing(m)
         /\ \A i : /\ Kaspa!Top(r, i) = Kaspa!Top(m, i) /\ Kaspa!Num(r, i) = Kaspa!Num(m, i)
                   /\ Kaspa!Has(r, i) <=> Kaspa!Has(m, i)
                   /\ Kaspa!HasNums(r, i) <=> Kaspa!HasNums(m, i)
         /\ \A op : Kaspa!Rearranged(r, op) = Kaspa!Rearranged(m, op)
<1> DEFINE r == Raised(m, L)
<1>1. r.lang = m.lang /\ r.status = m.status /\ r.scripts = m.scripts /\ r.at = m.at /\ r.pc = m.pc
      /\ r.stack = m.stack /\ r.exec = m.exec /\ r.ops = m.ops
  BY RaisedReads
<1> HIDE DEF r
<1>2. Kaspa!Script(r) = Kaspa!Script(m)
  BY <1>1 DEF Kaspa!Script
<1>3. \A i : /\ Kaspa!Top(r, i) = Kaspa!Top(m, i)
             /\ Kaspa!Has(r, i) <=> Kaspa!Has(m, i)
  BY <1>1 DEF Kaspa!Top, Kaspa!Has
<1>4. \A i : /\ Kaspa!Num(r, i) = Kaspa!Num(m, i)
             /\ Kaspa!HasNums(r, i) <=> Kaspa!HasNums(m, i)
  BY <1>3 DEF Kaspa!Num, Kaspa!HasNums
<1>5. ASSUME NEW op PROVE Kaspa!Rearranged(r, op) = Kaspa!Rearranged(m, op)
  <2> DEFINE V(a, b, c) == CASE op \in {"Drop2", "Drop1"} -> <<>>
                             [] op = "Dup2" -> <<b, a, b, a>>
                             [] op = "Dup3" -> <<c, b, a, c, b, a>>
                             [] op = "Dup" -> <<a, a>>
                             [] op = "Nip" -> <<a>>
                             [] op = "Over" -> <<b, a, b>>
                             [] op = "Rot" -> <<b, a, c>>
                             [] op = "Swap" -> <<a, b>>
  <2>1. Kaspa!Rearranged(r, op) = V(Kaspa!Top(r, 1), Kaspa!Top(r, 2), Kaspa!Top(r, 3))
    BY DEF Kaspa!Rearranged
  <2>2. Kaspa!Rearranged(m, op) = V(Kaspa!Top(m, 1), Kaspa!Top(m, 2), Kaspa!Top(m, 3))
    BY DEF Kaspa!Rearranged
  <2> HIDE DEF V
  <2> QED
    BY <1>3, <2>1, <2>2
<1>6. Kaspa!AtEnd(r) <=> Kaspa!AtEnd(m)
  BY <1>1, <1>2 DEF Kaspa!AtEnd
<1>7. Kaspa!Token(r) = Kaspa!Token(m)
  BY <1>1, <1>2 DEF Kaspa!Token
<1>8. Kaspa!Executing(r) <=> Kaspa!Executing(m)
  BY <1>1 DEF Kaspa!Executing
<1> QED
  BY <1>1, <1>3, <1>4, <1>5, <1>6, <1>7, <1>8 DEF r, Kaspa!Running, Kaspa!AtLimit

\* ... and what they do to it
LEMMA KaspaRaised ==
  ASSUME NEW m, NEW L
  PROVE  /\ Kaspa!Failed(Raised(m, L)) = Raised(Kaspa!Failed(m), L)
         /\ Kaspa!Panics(Raised(m, L)) = Raised(Kaspa!Panics(m), L)
         /\ \A e : Kaspa!Push(Raised(m, L), e) = Raised(Kaspa!Push(m, e), L)
         /\ \A k : Kaspa!Drop(Raised(m, L), k) = Raised(Kaspa!Drop(m, k), L)
         /\ \A k : Kaspa!Leaves(Raised(m, L), k) = Raised(Kaspa!Leaves(m, k), L)
<1>1. /\ Kaspa!Failed(Raised(m, L)) = Raised(Kaspa!Failed(m), L)
      /\ Kaspa!Panics(Raised(m, L)) = Raised(Kaspa!Panics(m), L)
  BY Zenon DEF Raised, Kaspa!Failed, Kaspa!Panics
<1>2. ASSUME NEW e PROVE Kaspa!Push(Raised(m, L), e) = Raised(Kaspa!Push(m, e), L)
  <2>1. Raised(m, L).status = m.status /\ Raised(m, L).stack = m.stack
    BY RaisedReads
  <2>2. [Raised(m, L) EXCEPT !.stack = Append(m.stack, e)] =
            Raised([m EXCEPT !.stack = Append(m.stack, e)], L)
    BY Zenon DEF Raised
  <2> QED
    BY <1>1, <2>1, <2>2 DEF Kaspa!Push
<1>3. ASSUME NEW k PROVE Kaspa!Drop(Raised(m, L), k) = Raised(Kaspa!Drop(m, k), L)
  BY Zenon DEF Raised, Kaspa!Drop
<1>4. ASSUME NEW k PROVE Kaspa!Leaves(Raised(m, L), k) = Raised(Kaspa!Leaves(m, k), L)
  BY <1>1, <1>2 DEF Kaspa!Leaves
<1> QED
  BY <1>1, <1>2, <1>3, <1>4

\* Pushing elements one after the other
LEMMA KaspaPushAllRaised ==
  ASSUME NEW m, NEW L, NEW es, Len(es) \in Nat
  PROVE  Kaspa!PushAll(Raised(m, L), es) = Raised(Kaspa!PushAll(m, es), L)
<1> DEFINE r == Raised(m, L)
<1> HIDE DEF r
<1>1. PICK f : /\ f[0] = m
               /\ \A j, k \in 0..Len(es) : k = j + 1 => f[k] = Kaspa!Push(f[j], es[k])
               /\ Kaspa!PushAll(m, es) = f[Len(es)]
  BY PushAllSteps
<1>2. PICK g : /\ g[0] = r
               /\ \A j, k \in 0..Len(es) : k = j + 1 => g[k] = Kaspa!Push(g[j], es[k])
               /\ Kaspa!PushAll(r, es) = g[Len(es)]
  BY PushAllSteps
<1> DEFINE S == {k \in Nat : k <= Len(es) => g[k] = Raised(f[k], L)}
<1>3. 0 \in S
  BY <1>1, <1>2 DEF r
<1>4. ASSUME NEW k \in Nat, k \in S PROVE k + 1 \in S
  <2> SUFFICES ASSUME k + 1 <= Len(es) PROVE g[k + 1] = Raised(f[k + 1], L)
    OBVIOUS
  <2>1. g[k] = Raised(f[k], L) /\ f[k + 1] = Kaspa!Push(f[k], es[k + 1])
            /\ g[k + 1] = Kaspa!Push(g[k], es[k + 1])
    BY <1>1, <1>2, <1>4
  <2> QED
    BY <2>1, KaspaRaised
<1> HIDE DEF S
<1>5. Len(es) \in S
  BY <1>3, <1>4, Induction
<1> QED
  BY <1>1, <1>2, <1>5 DEF S, r

\* A cost that was paid with gas left
LEMMA KaspaCharged ==
  ASSUME NEW m, Metered(m), NEW L \in Nat, NEW amount, Within(Kaspa!Charge(m, amount), L)
  PROVE  Kaspa!Charge(Raised(m, L), amount) = Raised(Kaspa!Charge(m, amount), L)
<1>1. \A g : Kaspa!Consume(g, amount) = Consume(g, amount)
          /\ (Kaspa!HasGas(g, amount) <=> HasGas(g, amount))
  BY DEF Kaspa!Consume, Consume, Kaspa!HasGas, HasGas
<1>2. Kaspa!Charge(m, amount).gas = Consume(m.gas, amount)
  BY <1>1 DEF Kaspa!Charge, Kaspa!Failed, Metered
<1>3. Consume(m.gas, amount).used < Consume(m.gas, amount).limit /\ Consume(m.gas, amount).used <= L
  BY <1>2 DEF Within
<1> QED
  BY <1>1, <1>3, BothPay DEF Kaspa!Charge

\* ... as the base cost is, and it is paid by both machines.
LEMMA KaspaFetched ==
  ASSUME NEW m, Metered(m), NEW L \in Nat, Within(Kaspa!Fetched(m), L)
  PROVE  /\ Kaspa!Fetched(Raised(m, L)) = Raised(Kaspa!Fetched(m), L)
         /\ Kaspa!HasGas(m.gas, Kaspa!BASE) /\ Kaspa!HasGas(Raised(m, L).gas, Kaspa!BASE)
<1>1. \A g : Kaspa!Consume(g, Kaspa!BASE) = Consume(g, BASE)
          /\ (Kaspa!HasGas(g, Kaspa!BASE) <=> HasGas(g, BASE))
  BY DEF Kaspa!Consume, Consume, Kaspa!HasGas, HasGas, Kaspa!BASE, BASE
<1>2. Kaspa!Fetched(m).gas = Consume(m.gas, BASE)
  BY <1>1 DEF Kaspa!Fetched, Metered
<1>3. Consume(m.gas, BASE).used < Consume(m.gas, BASE).limit /\ Consume(m.gas, BASE).used <= L
  BY <1>2 DEF Within
<1>4. /\ HasGas(m.gas, BASE) /\ HasGas(Raised(m, L).gas, BASE)
      /\ [Raised(m, L) EXCEPT !.gas = Consume(Raised(m, L).gas, BASE)]
           = Raised([m EXCEPT !.gas = Consume(m.gas, BASE)], L)
  BY <1>3, BothPay
<1> DEFINE past == [m EXCEPT !.gas = Consume(m.gas, BASE)]
           r == Raised(m, L)
<1>5. Kaspa!Fetched(m) = [[[past EXCEPT !.pc = m.pc + 1] EXCEPT !.ops = m.ops + 1]
          EXCEPT !.steps = m.steps + 1]
  BY <1>1, Zenon DEF Kaspa!Fetched
<1>6. Kaspa!Fetched(r) = [[[[r EXCEPT !.gas = Consume(r.gas, BASE)] EXCEPT !.pc = r.pc + 1]
                               EXCEPT !.ops = r.ops + 1] EXCEPT !.steps = r.steps + 1]
  BY <1>1, Zenon DEF Kaspa!Fetched
<1>7. r.pc = m.pc /\ r.steps = m.steps /\ r.ops = m.ops
  BY RaisedReads
<1> HIDE DEF past, r
<1>8. Kaspa!Fetched(r) = [[[Raised(past, L) EXCEPT !.pc = m.pc + 1] EXCEPT !.ops = m.ops + 1]
          EXCEPT !.steps = m.steps + 1]
  BY <1>4, <1>6, <1>7, Zenon DEF past, r
<1>9. [[[Raised(past, L) EXCEPT !.pc = m.pc + 1] EXCEPT !.ops = m.ops + 1] EXCEPT !.steps = m.steps + 1]
        = Raised([[[past EXCEPT !.pc = m.pc + 1] EXCEPT !.ops = m.ops + 1] EXCEPT !.steps = m.steps + 1], L)
  BY Zenon DEF Raised
<1> QED
  BY <1>1, <1>4, <1>5, <1>8, <1>9 DEF r

\* Which opcodes an action is for
KaspaOps(m, n) ==
  /\ Kaspa!PushOp(m, n) => Kaspa!Fetch(m, {"Push", "Num"})
  /\ Kaspa!CutPush(m, n) => (Kaspa!Fetch(m, {"CutPush"})
         \/ (Kaspa!Ready(m) /\ Kaspa!Token(m).op = "CutLength"))
  /\ Kaspa!If(m, n) => Kaspa!Ready(m) /\ Kaspa!Token(m).op \in {"If", "NotIf"}
  /\ Kaspa!Else(m, n) => Kaspa!Ready(m) /\ Kaspa!Token(m).op = "Else"
  /\ Kaspa!EndIf(m, n) => Kaspa!Ready(m) /\ Kaspa!Token(m).op = "EndIf"
  /\ Kaspa!Skip(m, n) => /\ Kaspa!Ready(m) /\ ~Kaspa!Executing(m)
                          /\ Kaspa!Token(m).op \notin {"If", "NotIf", "Else", "EndIf", "CutLength"}
  /\ Kaspa!Verify(m, n) => Kaspa!Fetch(m, {"Verify", "EqualVerify", "NumEqualVerify"})
  /\ Kaspa!Fault(m, n) => Kaspa!Fetch(m, {"Return", "Reserved"})
  /\ Kaspa!Nop(m, n) => Kaspa!Fetch(m, {"Nop", "CodeSeparator"})
  /\ Kaspa!Rearrange(m, n) => Kaspa!Fetch(m, {"Drop2", "Dup2", "Dup3", "Drop1", "Dup", "Nip", "Over",
                                                    "Rot", "Swap"})
  /\ Kaspa!Tuck(m, n) => Kaspa!Fetch(m, {"Tuck"})
  /\ Kaspa!ToAlt(m, n) => Kaspa!Fetch(m, {"ToAltStack"})
  /\ Kaspa!FromAlt(m, n) => Kaspa!Fetch(m, {"FromAltStack"})
  /\ Kaspa!Pick(m, n) => Kaspa!Fetch(m, {"Pick", "Roll"})
  /\ Kaspa!Depth(m, n) => Kaspa!Fetch(m, {"Depth"})
  /\ Kaspa!IfDup(m, n) => Kaspa!Fetch(m, {"IfDup"})
  /\ Kaspa!Cat(m, n) => Kaspa!Fetch(m, {"Cat"})
  /\ Kaspa!SubStr(m, n) => Kaspa!Fetch(m, {"SubStr"})
  /\ Kaspa!Side(m, n) => Kaspa!Fetch(m, {"Left", "Right"})
  /\ Kaspa!SizeOp(m, n) => Kaspa!Fetch(m, {"Size"})
  /\ Kaspa!Invert(m, n) => Kaspa!Fetch(m, {"Invert", "Not"})
  /\ Kaspa!Combine(m, n) => Kaspa!Fetch(m, {"And", "Or", "Xor", "Equal", "BoolAnd", "BoolOr"})
  /\ Kaspa!Arithmetic1(m, n) => Kaspa!Fetch(m, Kaspa!UnaryOps)
  /\ Kaspa!Arithmetic2(m, n) => Kaspa!Fetch(m, Kaspa!BinaryOps)
  /\ Kaspa!Within(m, n) => Kaspa!Fetch(m, {"Within"})
  /\ Kaspa!HashOp(m, n) => Kaspa!Fetch(m, {"Sha256", "Hash256", "Hash160"})
  /\ Kaspa!CheckSig(m, n) => Kaspa!Fetch(m, {"CheckSig", "CheckSigVerify"})
  /\ Kaspa!MultiSig(m, n) => Kaspa!Fetch(m, {"CheckMultiSig", "CheckMultiSigVerify"})
  /\ Kaspa!LockTime(m, n) => Kaspa!Fetch(m, {"CheckLockTimeVerify", "CheckSequenceVerify"})
  /\ Kaspa!TxField(m, n) => Kaspa!Fetch(m,
         {"InputIndex", "OutputCount", "InputCount", "TxVersion", "TxLockTime"})
  /\ Kaspa!TxEntry(m, n) => Kaspa!Fetch(m, {"OutputBytecode", "InputBytecode", "OutputValue", "InputValue"})
  /\ Kaspa!StateGet(m, n) => Kaspa!Fetch(m, {"StateGet"})
  /\ Kaspa!StatePut(m, n) => Kaspa!Fetch(m, {"StatePut"})
  /\ Kaspa!StateDelete(m, n) => Kaspa!Fetch(m, {"StateDelete"})
  /\ Kaspa!EmitEvent(m, n) => Kaspa!Fetch(m, {"EmitEvent"})

\* Each opcode of a Kaspa script is fetched by its name.
LEMMA KaspaGuards ==
  ASSUME NEW m, NEW n
  PROVE  KaspaOps(m, n)
<1>1. DOMAIN Kaspa!Rearranges = {"Drop2", "Dup2", "Dup3", "Drop1", "Dup", "Nip", "Over", "Rot", "Swap"}
  BY DEF Kaspa!Rearranges
<1>2. /\ Kaspa!PushOp(m, n) => Kaspa!Fetch(m, {"Push", "Num"})
      /\ Kaspa!CutPush(m, n) => (Kaspa!Fetch(m, {"CutPush"})
             \/ (Kaspa!Ready(m) /\ Kaspa!Token(m).op = "CutLength"))
      /\ Kaspa!If(m, n) => Kaspa!Ready(m) /\ Kaspa!Token(m).op \in {"If", "NotIf"}
      /\ Kaspa!Else(m, n) => Kaspa!Ready(m) /\ Kaspa!Token(m).op = "Else"
      /\ Kaspa!EndIf(m, n) => Kaspa!Ready(m) /\ Kaspa!Token(m).op = "EndIf"
      /\ Kaspa!Skip(m, n) => /\ Kaspa!Ready(m) /\ ~Kaspa!Executing(m)
                          /\ Kaspa!Token(m).op \notin {"If", "NotIf", "Else", "EndIf", "CutLength"}
      /\ Kaspa!Verify(m, n) => Kaspa!Fetch(m, {"Verify", "EqualVerify", "NumEqualVerify"})
  BY <1>1, Zenon
     DEF Kaspa!PushOp, Kaspa!CutPush, Kaspa!If, Kaspa!Else, Kaspa!EndIf, Kaspa!Skip, Kaspa!Verify
<1>3. /\ Kaspa!Fault(m, n) => Kaspa!Fetch(m, {"Return", "Reserved"})
      /\ Kaspa!Nop(m, n) => Kaspa!Fetch(m, {"Nop", "CodeSeparator"})
      /\ Kaspa!Rearrange(m, n) => Kaspa!Fetch(m, {"Drop2", "Dup2", "Dup3", "Drop1", "Dup", "Nip", "Over",
                                                    "Rot", "Swap"})
      /\ Kaspa!Tuck(m, n) => Kaspa!Fetch(m, {"Tuck"})
      /\ Kaspa!ToAlt(m, n) => Kaspa!Fetch(m, {"ToAltStack"})
      /\ Kaspa!FromAlt(m, n) => Kaspa!Fetch(m, {"FromAltStack"})
      /\ Kaspa!Pick(m, n) => Kaspa!Fetch(m, {"Pick", "Roll"})
  BY <1>1 DEF Kaspa!Fault, Kaspa!Nop, Kaspa!Rearrange, Kaspa!Tuck, Kaspa!ToAlt, Kaspa!FromAlt, Kaspa!Pick
<1>4. /\ Kaspa!Depth(m, n) => Kaspa!Fetch(m, {"Depth"})
      /\ Kaspa!IfDup(m, n) => Kaspa!Fetch(m, {"IfDup"})
      /\ Kaspa!Cat(m, n) => Kaspa!Fetch(m, {"Cat"})
      /\ Kaspa!SubStr(m, n) => Kaspa!Fetch(m, {"SubStr"})
      /\ Kaspa!Side(m, n) => Kaspa!Fetch(m, {"Left", "Right"})
      /\ Kaspa!SizeOp(m, n) => Kaspa!Fetch(m, {"Size"})
      /\ Kaspa!Invert(m, n) => Kaspa!Fetch(m, {"Invert", "Not"})
  BY <1>1 DEF Kaspa!Depth, Kaspa!IfDup, Kaspa!Cat, Kaspa!SubStr, Kaspa!Side, Kaspa!SizeOp, Kaspa!Invert
<1>5. /\ Kaspa!Combine(m, n) => Kaspa!Fetch(m, {"And", "Or", "Xor", "Equal", "BoolAnd", "BoolOr"})
      /\ Kaspa!Arithmetic1(m, n) => Kaspa!Fetch(m, Kaspa!UnaryOps)
      /\ Kaspa!Arithmetic2(m, n) => Kaspa!Fetch(m, Kaspa!BinaryOps)
      /\ Kaspa!Within(m, n) => Kaspa!Fetch(m, {"Within"})
      /\ Kaspa!HashOp(m, n) => Kaspa!Fetch(m, {"Sha256", "Hash256", "Hash160"})
      /\ Kaspa!CheckSig(m, n) => Kaspa!Fetch(m, {"CheckSig", "CheckSigVerify"})
      /\ Kaspa!MultiSig(m, n) => Kaspa!Fetch(m, {"CheckMultiSig", "CheckMultiSigVerify"})
  BY <1>1, Zenon
     DEF Kaspa!Combine, Kaspa!Arithmetic1, Kaspa!Arithmetic2, Kaspa!Within, Kaspa!HashOp, Kaspa!CheckSig,
     Kaspa!MultiSig
<1>6. /\ Kaspa!LockTime(m, n) => Kaspa!Fetch(m, {"CheckLockTimeVerify", "CheckSequenceVerify"})
      /\ Kaspa!TxField(m, n) => Kaspa!Fetch(m,
             {"InputIndex", "OutputCount", "InputCount", "TxVersion", "TxLockTime"})
      /\ Kaspa!TxEntry(m, n) => Kaspa!Fetch(m,
             {"OutputBytecode", "InputBytecode", "OutputValue", "InputValue"})
      /\ Kaspa!StateGet(m, n) => Kaspa!Fetch(m, {"StateGet"})
      /\ Kaspa!StatePut(m, n) => Kaspa!Fetch(m, {"StatePut"})
      /\ Kaspa!StateDelete(m, n) => Kaspa!Fetch(m, {"StateDelete"})
      /\ Kaspa!EmitEvent(m, n) => Kaspa!Fetch(m, {"EmitEvent"})
  BY <1>1
     DEF Kaspa!LockTime, Kaspa!TxField, Kaspa!TxEntry, Kaspa!StateGet, Kaspa!StatePut, Kaspa!StateDelete,
     Kaspa!EmitEvent
<1> QED
  BY <1>2, <1>3, <1>4, <1>5, <1>6 DEF KaspaOps

\* Only one action is for an opcode: a machine that differs in its limit only,
\* and has gas for the next step, takes the same one.
LEMMA KaspaAgain ==
  ASSUME NEW m, NEW L, NEW n, NEW p, Kaspa!Step(Raised(m, L), p)
  PROVE  /\ Kaspa!EndOfScript(m, n) => Kaspa!EndOfScript(Raised(m, L), p)
         /\ Kaspa!HasGas(Raised(m, L).gas, Kaspa!BASE) =>
            /\ Kaspa!TooManyOps(m, n) => Kaspa!TooManyOps(Raised(m, L), p)
            /\ Kaspa!PushOp(m, n) => Kaspa!PushOp(Raised(m, L), p)
            /\ Kaspa!CutPush(m, n) => Kaspa!CutPush(Raised(m, L), p)
            /\ Kaspa!If(m, n) => Kaspa!If(Raised(m, L), p)
            /\ Kaspa!Else(m, n) => Kaspa!Else(Raised(m, L), p)
            /\ Kaspa!EndIf(m, n) => Kaspa!EndIf(Raised(m, L), p)
            /\ Kaspa!Skip(m, n) => Kaspa!Skip(Raised(m, L), p)
            /\ Kaspa!Verify(m, n) => Kaspa!Verify(Raised(m, L), p)
            /\ Kaspa!Fault(m, n) => Kaspa!Fault(Raised(m, L), p)
            /\ Kaspa!Nop(m, n) => Kaspa!Nop(Raised(m, L), p)
            /\ Kaspa!Rearrange(m, n) => Kaspa!Rearrange(Raised(m, L), p)
            /\ Kaspa!Tuck(m, n) => Kaspa!Tuck(Raised(m, L), p)
            /\ Kaspa!ToAlt(m, n) => Kaspa!ToAlt(Raised(m, L), p)
            /\ Kaspa!FromAlt(m, n) => Kaspa!FromAlt(Raised(m, L), p)
            /\ Kaspa!Pick(m, n) => Kaspa!Pick(Raised(m, L), p)
            /\ Kaspa!Depth(m, n) => Kaspa!Depth(Raised(m, L), p)
            /\ Kaspa!IfDup(m, n) => Kaspa!IfDup(Raised(m, L), p)
            /\ Kaspa!Cat(m, n) => Kaspa!Cat(Raised(m, L), p)
            /\ Kaspa!SubStr(m, n) => Kaspa!SubStr(Raised(m, L), p)
            /\ Kaspa!Side(m, n) => Kaspa!Side(Raised(m, L), p)
            /\ Kaspa!SizeOp(m, n) => Kaspa!SizeOp(Raised(m, L), p)
            /\ Kaspa!Invert(m, n) => Kaspa!Invert(Raised(m, L), p)
            /\ Kaspa!Combine(m, n) => Kaspa!Combine(Raised(m, L), p)
            /\ Kaspa!Arithmetic1(m, n) => Kaspa!Arithmetic1(Raised(m, L), p)
            /\ Kaspa!Arithmetic2(m, n) => Kaspa!Arithmetic2(Raised(m, L), p)
            /\ Kaspa!Within(m, n) => Kaspa!Within(Raised(m, L), p)
            /\ Kaspa!HashOp(m, n) => Kaspa!HashOp(Raised(m, L), p)
            /\ Kaspa!CheckSig(m, n) => Kaspa!CheckSig(Raised(m, L), p)
            /\ Kaspa!MultiSig(m, n) => Kaspa!MultiSig(Raised(m, L), p)
            /\ Kaspa!LockTime(m, n) => Kaspa!LockTime(Raised(m, L), p)
            /\ Kaspa!TxField(m, n) => Kaspa!TxField(Raised(m, L), p)
            /\ Kaspa!TxEntry(m, n) => Kaspa!TxEntry(Raised(m, L), p)
            /\ Kaspa!StateGet(m, n) => Kaspa!StateGet(Raised(m, L), p)
            /\ Kaspa!StatePut(m, n) => Kaspa!StatePut(Raised(m, L), p)
            /\ Kaspa!StateDelete(m, n) => Kaspa!StateDelete(Raised(m, L), p)
            /\ Kaspa!EmitEvent(m, n) => Kaspa!EmitEvent(Raised(m, L), p)
<1> DEFINE r == Raised(m, L)
<1>1. /\ Kaspa!Token(r) = Kaspa!Token(m) /\ (Kaspa!AtEnd(r) <=> Kaspa!AtEnd(m))
      /\ Kaspa!Executing(r) <=> Kaspa!Executing(m)
      /\ Kaspa!AtLimit(r) <=> Kaspa!AtLimit(m)
  BY KaspaReads
<1> HIDE DEF r
<1>2. KaspaOps(r, p) /\ KaspaOps(m, n)
  BY KaspaGuards
<1>3. /\ Kaspa!EndOfScript(r, p) => Kaspa!AtEnd(r)
      /\ Kaspa!OutOfGas(r, p) => ~Kaspa!AtEnd(r) /\ ~Kaspa!HasGas(r.gas, Kaspa!BASE)
      /\ Kaspa!TooManyOps(r, p) => ~Kaspa!AtEnd(r) /\ Kaspa!AtLimit(r)
  BY DEF Kaspa!EndOfScript, Kaspa!OutOfGas, Kaspa!TooManyOps
<1>4. Kaspa!Step(r, p)
  BY DEF r
<1>5. ASSUME Kaspa!EndOfScript(m, n) PROVE Kaspa!EndOfScript(r, p)
  <2>1. Kaspa!AtEnd(m)
    BY <1>5, SMTT(30) DEF Kaspa!EndOfScript
  <2> QED
    BY <1>1, <1>2, <1>3, <1>4, <2>1, SMTT(30)
       DEF Kaspa!Step, KaspaOps, Kaspa!Fetch, Kaspa!Ready, Kaspa!UnaryOps, Kaspa!BinaryOps
<1>6. ASSUME Kaspa!TooManyOps(m, n), Kaspa!HasGas(r.gas, Kaspa!BASE) PROVE Kaspa!TooManyOps(r, p)
  <2>1. ~Kaspa!AtEnd(m) /\ Kaspa!AtLimit(m)
    BY <1>6 DEF Kaspa!TooManyOps
  <2> QED
    BY <1>1, <1>2, <1>3, <1>4, <1>6, <2>1, SMTT(30)
       DEF Kaspa!Step, KaspaOps, Kaspa!Fetch, Kaspa!Ready, Kaspa!UnaryOps, Kaspa!BinaryOps
<1>7. ASSUME Kaspa!PushOp(m, n), Kaspa!HasGas(r.gas, Kaspa!BASE) PROVE Kaspa!PushOp(r, p)
  BY <1>1, <1>2, <1>3, <1>4, <1>7, SMTT(30)
     DEF Kaspa!Step, KaspaOps, Kaspa!Fetch, Kaspa!Ready, Kaspa!UnaryOps, Kaspa!BinaryOps
<1>8. ASSUME Kaspa!CutPush(m, n), Kaspa!HasGas(r.gas, Kaspa!BASE) PROVE Kaspa!CutPush(r, p)
  BY <1>1, <1>2, <1>3, <1>4, <1>8, SMTT(30)
     DEF Kaspa!Step, KaspaOps, Kaspa!Fetch, Kaspa!Ready, Kaspa!UnaryOps, Kaspa!BinaryOps
<1>9. ASSUME Kaspa!If(m, n), Kaspa!HasGas(r.gas, Kaspa!BASE) PROVE Kaspa!If(r, p)
  BY <1>1, <1>2, <1>3, <1>4, <1>9, SMTT(30)
     DEF Kaspa!Step, KaspaOps, Kaspa!Fetch, Kaspa!Ready, Kaspa!UnaryOps, Kaspa!BinaryOps
<1>10. ASSUME Kaspa!Else(m, n), Kaspa!HasGas(r.gas, Kaspa!BASE) PROVE Kaspa!Else(r, p)
  BY <1>1, <1>2, <1>3, <1>4, <1>10, SMTT(30)
     DEF Kaspa!Step, KaspaOps, Kaspa!Fetch, Kaspa!Ready, Kaspa!UnaryOps, Kaspa!BinaryOps
<1>11. ASSUME Kaspa!EndIf(m, n), Kaspa!HasGas(r.gas, Kaspa!BASE) PROVE Kaspa!EndIf(r, p)
  BY <1>1, <1>2, <1>3, <1>4, <1>11, SMTT(30)
     DEF Kaspa!Step, KaspaOps, Kaspa!Fetch, Kaspa!Ready, Kaspa!UnaryOps, Kaspa!BinaryOps
<1>12. ASSUME Kaspa!Skip(m, n), Kaspa!HasGas(r.gas, Kaspa!BASE) PROVE Kaspa!Skip(r, p)
  BY <1>1, <1>2, <1>3, <1>4, <1>12, SMTT(30)
     DEF Kaspa!Step, KaspaOps, Kaspa!Fetch, Kaspa!Ready, Kaspa!UnaryOps, Kaspa!BinaryOps
<1>13. ASSUME Kaspa!Verify(m, n), Kaspa!HasGas(r.gas, Kaspa!BASE) PROVE Kaspa!Verify(r, p)
  BY <1>1, <1>2, <1>3, <1>4, <1>13, SMTT(30)
     DEF Kaspa!Step, KaspaOps, Kaspa!Fetch, Kaspa!Ready, Kaspa!UnaryOps, Kaspa!BinaryOps
<1>14. ASSUME Kaspa!Fault(m, n), Kaspa!HasGas(r.gas, Kaspa!BASE) PROVE Kaspa!Fault(r, p)
  BY <1>1, <1>2, <1>3, <1>4, <1>14, SMTT(30)
     DEF Kaspa!Step, KaspaOps, Kaspa!Fetch, Kaspa!Ready, Kaspa!UnaryOps, Kaspa!BinaryOps
<1>15. ASSUME Kaspa!Nop(m, n), Kaspa!HasGas(r.gas, Kaspa!BASE) PROVE Kaspa!Nop(r, p)
  BY <1>1, <1>2, <1>3, <1>4, <1>15, SMTT(30)
     DEF Kaspa!Step, KaspaOps, Kaspa!Fetch, Kaspa!Ready, Kaspa!UnaryOps, Kaspa!BinaryOps
<1>16. ASSUME Kaspa!Rearrange(m, n), Kaspa!HasGas(r.gas, Kaspa!BASE) PROVE Kaspa!Rearrange(r, p)
  BY <1>1, <1>2, <1>3, <1>4, <1>16, SMTT(30)
     DEF Kaspa!Step, KaspaOps, Kaspa!Fetch, Kaspa!Ready, Kaspa!UnaryOps, Kaspa!BinaryOps
<1>17. ASSUME Kaspa!Tuck(m, n), Kaspa!HasGas(r.gas, Kaspa!BASE) PROVE Kaspa!Tuck(r, p)
  BY <1>1, <1>2, <1>3, <1>4, <1>17, SMTT(30)
     DEF Kaspa!Step, KaspaOps, Kaspa!Fetch, Kaspa!Ready, Kaspa!UnaryOps, Kaspa!BinaryOps
<1>18. ASSUME Kaspa!ToAlt(m, n), Kaspa!HasGas(r.gas, Kaspa!BASE) PROVE Kaspa!ToAlt(r, p)
  BY <1>1, <1>2, <1>3, <1>4, <1>18, SMTT(30)
     DEF Kaspa!Step, KaspaOps, Kaspa!Fetch, Kaspa!Ready, Kaspa!UnaryOps, Kaspa!BinaryOps
<1>19. ASSUME Kaspa!FromAlt(m, n), Kaspa!HasGas(r.gas, Kaspa!BASE) PROVE Kaspa!FromAlt(r, p)
  BY <1>1, <1>2, <1>3, <1>4, <1>19, SMTT(30)
     DEF Kaspa!Step, KaspaOps, Kaspa!Fetch, Kaspa!Ready, Kaspa!UnaryOps, Kaspa!BinaryOps
<1>20. ASSUME Kaspa!Pick(m, n), Kaspa!HasGas(r.gas, Kaspa!BASE) PROVE Kaspa!Pick(r, p)
  BY <1>1, <1>2, <1>3, <1>4, <1>20, SMTT(30)
     DEF Kaspa!Step, KaspaOps, Kaspa!Fetch, Kaspa!Ready, Kaspa!UnaryOps, Kaspa!BinaryOps
<1>21. ASSUME Kaspa!Depth(m, n), Kaspa!HasGas(r.gas, Kaspa!BASE) PROVE Kaspa!Depth(r, p)
  BY <1>1, <1>2, <1>3, <1>4, <1>21, SMTT(30)
     DEF Kaspa!Step, KaspaOps, Kaspa!Fetch, Kaspa!Ready, Kaspa!UnaryOps, Kaspa!BinaryOps
<1>22. ASSUME Kaspa!IfDup(m, n), Kaspa!HasGas(r.gas, Kaspa!BASE) PROVE Kaspa!IfDup(r, p)
  BY <1>1, <1>2, <1>3, <1>4, <1>22, SMTT(30)
     DEF Kaspa!Step, KaspaOps, Kaspa!Fetch, Kaspa!Ready, Kaspa!UnaryOps, Kaspa!BinaryOps
<1>23. ASSUME Kaspa!Cat(m, n), Kaspa!HasGas(r.gas, Kaspa!BASE) PROVE Kaspa!Cat(r, p)
  BY <1>1, <1>2, <1>3, <1>4, <1>23, SMTT(30)
     DEF Kaspa!Step, KaspaOps, Kaspa!Fetch, Kaspa!Ready, Kaspa!UnaryOps, Kaspa!BinaryOps
<1>24. ASSUME Kaspa!SubStr(m, n), Kaspa!HasGas(r.gas, Kaspa!BASE) PROVE Kaspa!SubStr(r, p)
  BY <1>1, <1>2, <1>3, <1>4, <1>24, SMTT(30)
     DEF Kaspa!Step, KaspaOps, Kaspa!Fetch, Kaspa!Ready, Kaspa!UnaryOps, Kaspa!BinaryOps
<1>25. ASSUME Kaspa!Side(m, n), Kaspa!HasGas(r.gas, Kaspa!BASE) PROVE Kaspa!Side(r, p)
  BY <1>1, <1>2, <1>3, <1>4, <1>25, SMTT(30)
     DEF Kaspa!Step, KaspaOps, Kaspa!Fetch, Kaspa!Ready, Kaspa!UnaryOps, Kaspa!BinaryOps
<1>26. ASSUME Kaspa!SizeOp(m, n), Kaspa!HasGas(r.gas, Kaspa!BASE) PROVE Kaspa!SizeOp(r, p)
  BY <1>1, <1>2, <1>3, <1>4, <1>26, SMTT(30)
     DEF Kaspa!Step, KaspaOps, Kaspa!Fetch, Kaspa!Ready, Kaspa!UnaryOps, Kaspa!BinaryOps
<1>27. ASSUME Kaspa!Invert(m, n), Kaspa!HasGas(r.gas, Kaspa!BASE) PROVE Kaspa!Invert(r, p)
  BY <1>1, <1>2, <1>3, <1>4, <1>27, SMTT(30)
     DEF Kaspa!Step, KaspaOps, Kaspa!Fetch, Kaspa!Ready, Kaspa!UnaryOps, Kaspa!BinaryOps
<1>28. ASSUME Kaspa!Combine(m, n), Kaspa!HasGas(r.gas, Kaspa!BASE) PROVE Kaspa!Combine(r, p)
  BY <1>1, <1>2, <1>3, <1>4, <1>28, SMTT(30)
     DEF Kaspa!Step, KaspaOps, Kaspa!Fetch, Kaspa!Ready, Kaspa!UnaryOps, Kaspa!BinaryOps
<1>29. ASSUME Kaspa!Arithmetic1(m, n), Kaspa!HasGas(r.gas, Kaspa!BASE) PROVE Kaspa!Arithmetic1(r, p)
  BY <1>1, <1>2, <1>3, <1>4, <1>29, SMTT(30)
     DEF Kaspa!Step, KaspaOps, Kaspa!Fetch, Kaspa!Ready, Kaspa!UnaryOps, Kaspa!BinaryOps
<1>30. ASSUME Kaspa!Arithmetic2(m, n), Kaspa!HasGas(r.gas, Kaspa!BASE) PROVE Kaspa!Arithmetic2(r, p)
  BY <1>1, <1>2, <1>3, <1>4, <1>30, SMTT(30)
     DEF Kaspa!Step, KaspaOps, Kaspa!Fetch, Kaspa!Ready, Kaspa!UnaryOps, Kaspa!BinaryOps
<1>31. ASSUME Kaspa!Within(m, n), Kaspa!HasGas(r.gas, Kaspa!BASE) PROVE Kaspa!Within(r, p)
  BY <1>1, <1>2, <1>3, <1>4, <1>31, SMTT(30)
     DEF Kaspa!Step, KaspaOps, Kaspa!Fetch, Kaspa!Ready, Kaspa!UnaryOps, Kaspa!BinaryOps
<1>32. ASSUME Kaspa!HashOp(m, n), Kaspa!HasGas(r.gas, Kaspa!BASE) PROVE Kaspa!HashOp(r, p)
  BY <1>1, <1>2, <1>3, <1>4, <1>32, SMTT(30)
     DEF Kaspa!Step, KaspaOps, Kaspa!Fetch, Kaspa!Ready, Kaspa!UnaryOps, Kaspa!BinaryOps
<1>33. ASSUME Kaspa!CheckSig(m, n), Kaspa!HasGas(r.gas, Kaspa!BASE) PROVE Kaspa!CheckSig(r, p)
  BY <1>1, <1>2, <1>3, <1>4, <1>33, SMTT(30)
     DEF Kaspa!Step, KaspaOps, Kaspa!Fetch, Kaspa!Ready, Kaspa!UnaryOps, Kaspa!BinaryOps
<1>34. ASSUME Kaspa!MultiSig(m, n), Kaspa!HasGas(r.gas, Kaspa!BASE) PROVE Kaspa!MultiSig(r, p)
  BY <1>1, <1>2, <1>3, <1>4, <1>34, SMTT(30)
     DEF Kaspa!Step, KaspaOps, Kaspa!Fetch, Kaspa!Ready, Kaspa!UnaryOps, Kaspa!BinaryOps
<1>35. ASSUME Kaspa!LockTime(m, n), Kaspa!HasGas(r.gas, Kaspa!BASE) PROVE Kaspa!LockTime(r, p)
  BY <1>1, <1>2, <1>3, <1>4, <1>35, SMTT(30)
     DEF Kaspa!Step, KaspaOps, Kaspa!Fetch, Kaspa!Ready, Kaspa!UnaryOps, Kaspa!BinaryOps
<1>36. ASSUME Kaspa!TxField(m, n), Kaspa!HasGas(r.gas, Kaspa!BASE) PROVE Kaspa!TxField(r, p)
  BY <1>1, <1>2, <1>3, <1>4, <1>36, SMTT(30)
     DEF Kaspa!Step, KaspaOps, Kaspa!Fetch, Kaspa!Ready, Kaspa!UnaryOps, Kaspa!BinaryOps
<1>37. ASSUME Kaspa!TxEntry(m, n), Kaspa!HasGas(r.gas, Kaspa!BASE) PROVE Kaspa!TxEntry(r, p)
  BY <1>1, <1>2, <1>3, <1>4, <1>37, SMTT(30)
     DEF Kaspa!Step, KaspaOps, Kaspa!Fetch, Kaspa!Ready, Kaspa!UnaryOps, Kaspa!BinaryOps
<1>38. ASSUME Kaspa!StateGet(m, n), Kaspa!HasGas(r.gas, Kaspa!BASE) PROVE Kaspa!StateGet(r, p)
  BY <1>1, <1>2, <1>3, <1>4, <1>38, SMTT(30)
     DEF Kaspa!Step, KaspaOps, Kaspa!Fetch, Kaspa!Ready, Kaspa!UnaryOps, Kaspa!BinaryOps
<1>39. ASSUME Kaspa!StatePut(m, n), Kaspa!HasGas(r.gas, Kaspa!BASE) PROVE Kaspa!StatePut(r, p)
  BY <1>1, <1>2, <1>3, <1>4, <1>39, SMTT(30)
     DEF Kaspa!Step, KaspaOps, Kaspa!Fetch, Kaspa!Ready, Kaspa!UnaryOps, Kaspa!BinaryOps
<1>40. ASSUME Kaspa!StateDelete(m, n), Kaspa!HasGas(r.gas, Kaspa!BASE) PROVE Kaspa!StateDelete(r, p)
  BY <1>1, <1>2, <1>3, <1>4, <1>40, SMTT(30)
     DEF Kaspa!Step, KaspaOps, Kaspa!Fetch, Kaspa!Ready, Kaspa!UnaryOps, Kaspa!BinaryOps
<1>41. ASSUME Kaspa!EmitEvent(m, n), Kaspa!HasGas(r.gas, Kaspa!BASE) PROVE Kaspa!EmitEvent(r, p)
  BY <1>1, <1>2, <1>3, <1>4, <1>41, SMTT(30)
     DEF Kaspa!Step, KaspaOps, Kaspa!Fetch, Kaspa!Ready, Kaspa!UnaryOps, Kaspa!BinaryOps
<1> QED
  BY <1>5, <1>6, <1>7, <1>8, <1>9, <1>10, <1>11, <1>12, <1>13, <1>14, <1>15, <1>16, <1>17, <1>18, <1>19,
     <1>20, <1>21, <1>22, <1>23, <1>24, <1>25, <1>26, <1>27, <1>28, <1>29, <1>30, <1>31, <1>32,
     <1>33, <1>34, <1>35, <1>36, <1>37, <1>38, <1>39, <1>40, <1>41 DEF r

\* A step of the Kaspa interpreter that leaves gas is the step it takes with any
\* other limit that has room for it.
LEMMA KaspaSame ==
  ASSUME NEW m, Metered(m), NEW n, Kaspa!Step(m, n),
         NEW L \in Nat, Within(n, L), NEW p, Kaspa!Step(Raised(m, L), p)
  PROVE  p = Raised(n, L)
<1> DEFINE r == Raised(m, L)
           F == Kaspa!Fetched(m)
           R == Kaspa!Fetched(r)
<1>1. CASE Kaspa!EndOfScript(m, n)
  <2>1. Kaspa!EndOfScript(r, p)
    BY <1>1, KaspaAgain
  <2>2. r.at = m.at
    BY RaisedReads
  <2>3. n = IF m.at = 1 THEN [m EXCEPT !.at = 2, !.pc = 0] ELSE [m EXCEPT !.status = "done"]
    BY <1>1 DEF Kaspa!EndOfScript
  <2>4. p = IF m.at = 1 THEN [r EXCEPT !.at = 2, !.pc = 0] ELSE [r EXCEPT !.status = "done"]
    BY <2>1, <2>2 DEF Kaspa!EndOfScript
  <2> QED
    BY <2>3, <2>4, Zenon DEF Raised
<1>2. CASE ~Kaspa!EndOfScript(m, n)
  <2>1. Spends(F, n) /\ Metered(F)
    <3>1. Spends(F, n)
      BY <1>2, KaspaSpends
    <3>2. Kaspa!Consume(m.gas, Kaspa!BASE) = Consume(m.gas, BASE)
      BY DEF Kaspa!Consume, Consume, Kaspa!HasGas, HasGas, Kaspa!BASE, BASE
    <3>3. /\ {"gas", "steps", "status", "lang"} \subseteq DOMAIN F
          /\ F.gas = Consume(m.gas, BASE) /\ F.steps = m.steps + 1
      BY <3>2 DEF Kaspa!Fetched, Metered
    <3>4. Sound(F.gas) /\ F.steps \in Nat
      BY <3>3, ConsumeSound DEF Metered
    <3> HIDE DEF F
    <3> QED
      BY <3>1, <3>3, <3>4 DEF Metered
  <2>2. Within(F, L)
    BY <2>1, WithinBefore
  <2>3. R = Raised(F, L) /\ Kaspa!HasGas(m.gas, Kaspa!BASE) /\ Kaspa!HasGas(r.gas, Kaspa!BASE)
    BY <2>2, KaspaFetched
  <2>4. /\ Kaspa!Token(r) = Kaspa!Token(m)
        /\ Kaspa!Executing(r) <=> Kaspa!Executing(m)
        /\ \A i : /\ Kaspa!Top(r, i) = Kaspa!Top(m, i) /\ Kaspa!Num(r, i) = Kaspa!Num(m, i)
                  /\ Kaspa!Has(r, i) <=> Kaspa!Has(m, i)
                  /\ Kaspa!HasNums(r, i) <=> Kaspa!HasNums(m, i)
        /\ \A op : Kaspa!Rearranged(r, op) = Kaspa!Rearranged(m, op)
        /\ r.stack = m.stack /\ r.alt = m.alt /\ r.exec = m.exec /\ r.store = m.store
    BY KaspaReads, RaisedReads
  <2>5. R.stack = F.stack /\ R.alt = F.alt /\ R.exec = F.exec
    BY <2>3, RaisedReads
  <2>6. /\ Kaspa!Failed(R) = Raised(Kaspa!Failed(F), L) /\ Kaspa!Panics(R) = Raised(Kaspa!Panics(F), L)
        /\ \A e : Kaspa!Push(R, e) = Raised(Kaspa!Push(F, e), L)
        /\ \A k : Kaspa!Drop(R, k) = Raised(Kaspa!Drop(F, k), L)
        /\ R = Raised(F, L)
    BY <2>3, KaspaRaised
  <2>7. ~Kaspa!OutOfGas(m, n)
    BY <2>3 DEF Kaspa!OutOfGas
  <2> HIDE DEF r, F, R
  <2>8. /\ \A k, e : Kaspa!Push(Kaspa!Drop(R, k), e) = Raised(Kaspa!Push(Kaspa!Drop(F, k), e), L)
        /\ \A k, e : Kaspa!Leaves(Kaspa!Drop(R, k), e) = Raised(Kaspa!Leaves(Kaspa!Drop(F, k), e), L)
    BY <2>6, KaspaRaised
  <2>9. CASE Kaspa!TooManyOps(m, n)
    <3>1. Kaspa!TooManyOps(r, p)
      BY <2>3, <2>9, KaspaAgain DEF r
    <3> QED
      BY <2>4, <2>6, <2>8, <2>9, <3>1 DEF F, R, Kaspa!TooManyOps
  <2>10. CASE Kaspa!PushOp(m, n)
    <3>1. Kaspa!PushOp(r, p)
      BY <2>3, <2>10, KaspaAgain DEF r
    <3> QED
      BY <2>4, <2>6, <2>8, <2>10, <3>1 DEF F, R, Kaspa!PushOp
  <2>11. CASE Kaspa!CutPush(m, n)
    <3>1. Kaspa!CutPush(r, p)
      BY <2>3, <2>11, KaspaAgain DEF r
    <3> QED
      BY <2>4, <2>6, <2>8, <2>11, <3>1 DEF F, R, Kaspa!CutPush
  <2>12. CASE Kaspa!Skip(m, n)
    <3>1. Kaspa!Skip(r, p)
      BY <2>3, <2>12, KaspaAgain DEF r
    <3> QED
      BY <2>4, <2>6, <2>8, <2>12, <3>1 DEF F, R, Kaspa!Skip
  <2>13. CASE Kaspa!Fault(m, n)
    <3>1. Kaspa!Fault(r, p)
      BY <2>3, <2>13, KaspaAgain DEF r
    <3> QED
      BY <2>4, <2>6, <2>8, <2>13, <3>1 DEF F, R, Kaspa!Fault
  <2>14. CASE Kaspa!Nop(m, n)
    <3>1. Kaspa!Nop(r, p)
      BY <2>3, <2>14, KaspaAgain DEF r
    <3> QED
      BY <2>4, <2>6, <2>8, <2>14, <3>1 DEF F, R, Kaspa!Nop
  <2>15. CASE Kaspa!Verify(m, n)
    <3>1. Kaspa!Verify(r, p)
      BY <2>3, <2>15, KaspaAgain DEF r
    <3>2. Kaspa!Token(m).op \in {"Verify", "EqualVerify", "NumEqualVerify"}
      BY <2>15 DEF Kaspa!Verify, Kaspa!Fetch
    <3> QED
      BY <2>4, <2>6, <2>15, <3>1, <3>2 DEF F, R, Kaspa!Verify
  <2>16. CASE Kaspa!If(m, n)
    <3>1. Kaspa!If(r, p)
      BY <2>3, <2>16, KaspaAgain DEF r
    <3> DEFINE one == Kaspa!Drop(F, 1)
               two == Kaspa!Drop(R, 1)
               taken == Kaspa!IsTrue(Kaspa!Top(m, 1)) <=> Kaspa!Token(m).op = "If"
    <3>2. n = IF ~Kaspa!Executing(m) THEN [F EXCEPT !.exec = Append(F.exec, FALSE)]
              ELSE IF ~Kaspa!Has(m, 1) THEN Kaspa!Failed(F)
              ELSE [one EXCEPT !.exec = Append(one.exec, taken)]
      BY <2>16 DEF F, Kaspa!If
    <3>3. p = IF ~Kaspa!Executing(m) THEN [R EXCEPT !.exec = Append(R.exec, FALSE)]
              ELSE IF ~Kaspa!Has(m, 1) THEN Kaspa!Failed(R)
              ELSE [two EXCEPT !.exec = Append(two.exec, taken)]
      BY <2>4, <3>1 DEF R, Kaspa!If
    <3> HIDE DEF one, two, taken
    <3>4. two = Raised(one, L)
      BY <2>6 DEF one, two
    <3>5. two.exec = one.exec
      BY <3>4, RaisedReads
    <3>6. [two EXCEPT !.exec = Append(two.exec, taken)] =
              Raised([one EXCEPT !.exec = Append(one.exec, taken)], L)
      BY <3>4, <3>5, Zenon DEF Raised
    <3>7. [R EXCEPT !.exec = Append(R.exec, FALSE)] = Raised([F EXCEPT !.exec = Append(F.exec, FALSE)], L)
      BY <2>3, <2>5, Zenon DEF Raised
    <3> QED
      BY <2>6, <3>2, <3>3, <3>6, <3>7
  <2>17. CASE Kaspa!Else(m, n)
    <3>1. Kaspa!Else(r, p)
      BY <2>3, <2>17, KaspaAgain DEF r
    <3> DEFINE outer == \A i \in 1..(Len(m.exec) - 1) : m.exec[i]
               Flipped(exec) == [exec EXCEPT ![Len(m.exec)] = ~@]
    <3>2. n = IF m.exec = <<>> THEN Kaspa!Failed(F)
              ELSE IF outer THEN [F EXCEPT !.exec = Flipped(F.exec)] ELSE F
      BY <2>17 DEF F, Kaspa!Else
    <3>3. p = IF m.exec = <<>> THEN Kaspa!Failed(R)
              ELSE IF outer THEN [R EXCEPT !.exec = Flipped(R.exec)] ELSE R
      BY <2>4, <3>1 DEF R, Kaspa!Else
    <3> HIDE DEF outer, Flipped
    <3>4. [R EXCEPT !.exec = Flipped(R.exec)] = Raised([F EXCEPT !.exec = Flipped(F.exec)], L)
      BY <2>3, <2>5, Zenon DEF Raised
    <3> QED
      BY <2>6, <3>2, <3>3, <3>4
  <2>18. CASE Kaspa!EndIf(m, n)
    <3>1. Kaspa!EndIf(r, p)
      BY <2>3, <2>18, KaspaAgain DEF r
    <3>2. n = IF m.exec = <<>> THEN Kaspa!Failed(F) ELSE [F EXCEPT !.exec = Kaspa!Front(F.exec)]
      BY <2>18 DEF F, Kaspa!EndIf
    <3>3. p = IF m.exec = <<>> THEN Kaspa!Failed(R) ELSE [R EXCEPT !.exec = Kaspa!Front(R.exec)]
      BY <2>4, <3>1 DEF R, Kaspa!EndIf
    <3>4. [R EXCEPT !.exec = Kaspa!Front(R.exec)] = Raised([F EXCEPT !.exec = Kaspa!Front(F.exec)], L)
      BY <2>3, <2>5, Zenon DEF Raised
    <3> QED
      BY <2>6, <3>2, <3>3, <3>4
  <2>19. CASE Kaspa!Rearrange(m, n)
    <3>1. Kaspa!Rearrange(r, p)
      BY <2>3, <2>19, KaspaAgain DEF r
    <3> DEFINE op == Kaspa!Token(m).op
               count == Kaspa!Rearranges[op]
               es == Kaspa!Rearranged(m, op)
    <3>2. op \in DOMAIN Kaspa!Rearranges
      BY <2>19 DEF Kaspa!Rearrange, Kaspa!Fetch
    <3>3. Len(es) \in Nat
      BY <3>2 DEF Kaspa!Rearranged, Kaspa!Rearranges
    <3>4. n = IF Kaspa!Has(m, count) THEN Kaspa!PushAll(Kaspa!Drop(F, count), es) ELSE Kaspa!Failed(F)
      BY <2>19 DEF F, Kaspa!Rearrange
    <3>5. p = IF Kaspa!Has(m, count) THEN Kaspa!PushAll(Kaspa!Drop(R, count), es) ELSE Kaspa!Failed(R)
      BY <2>4, <3>1 DEF R, Kaspa!Rearrange
    <3> HIDE DEF op, count, es
    <3>6. Kaspa!PushAll(Kaspa!Drop(R, count), es) = Raised(Kaspa!PushAll(Kaspa!Drop(F, count), es), L)
      BY <2>6, <3>3, KaspaPushAllRaised
    <3> QED
      BY <2>6, <3>4, <3>5, <3>6
  <2>20. CASE Kaspa!Tuck(m, n)
    <3>1. Kaspa!Tuck(r, p)
      BY <2>3, <2>20, KaspaAgain DEF r
    <3> DEFINE Tucked(s) == Kaspa!InsertAt(s, Len(s) - 1, Kaspa!Top(m, 1))
    <3>2. n = IF Kaspa!Has(m, 2) THEN [F EXCEPT !.stack = Tucked(F.stack)] ELSE Kaspa!Failed(F)
      BY <2>20 DEF F, Kaspa!Tuck
    <3>3. p = IF Kaspa!Has(m, 2) THEN [R EXCEPT !.stack = Tucked(R.stack)] ELSE Kaspa!Failed(R)
      BY <2>4, <3>1 DEF R, Kaspa!Tuck
    <3> HIDE DEF Tucked
    <3>4. [R EXCEPT !.stack = Tucked(R.stack)] = Raised([F EXCEPT !.stack = Tucked(F.stack)], L)
      BY <2>3, <2>5, Zenon DEF Raised
    <3> QED
      BY <2>6, <3>2, <3>3, <3>4
  <2>21. CASE Kaspa!ToAlt(m, n)
    <3>1. Kaspa!ToAlt(r, p)
      BY <2>3, <2>21, KaspaAgain DEF r
    <3> DEFINE one == Kaspa!Drop(F, 1)
               two == Kaspa!Drop(R, 1)
               top == Kaspa!Top(m, 1)
    <3>2. n = IF Kaspa!Has(m, 1) THEN [one EXCEPT !.alt = Append(one.alt, top)] ELSE Kaspa!Failed(F)
      BY <2>21 DEF F, Kaspa!ToAlt
    <3>3. p = IF Kaspa!Has(m, 1) THEN [two EXCEPT !.alt = Append(two.alt, top)] ELSE Kaspa!Failed(R)
      BY <2>4, <3>1, Zenon DEF R, Kaspa!ToAlt
    <3> HIDE DEF one, two, top
    <3>4. two = Raised(one, L)
      BY <2>6 DEF one, two
    <3>5. two.alt = one.alt
      BY <3>4, RaisedReads
    <3>6. [two EXCEPT !.alt = Append(two.alt, top)] = Raised([one EXCEPT !.alt = Append(one.alt, top)], L)
      BY <3>4, <3>5, Zenon DEF Raised
    <3> QED
      BY <2>6, <3>2, <3>3, <3>6
  <2>22. CASE Kaspa!FromAlt(m, n)
    <3>1. Kaspa!FromAlt(r, p)
      BY <2>3, <2>22, KaspaAgain DEF r
    <3> DEFINE one == [F EXCEPT !.alt = Kaspa!Front(F.alt)]
               two == [R EXCEPT !.alt = Kaspa!Front(R.alt)]
    <3>2. n = IF m.alt # <<>> THEN Kaspa!Push(one, Kaspa!Last(m.alt)) ELSE Kaspa!Failed(F)
      BY <2>22 DEF F, Kaspa!FromAlt
    <3>3. p = IF m.alt # <<>> THEN Kaspa!Push(two, Kaspa!Last(m.alt)) ELSE Kaspa!Failed(R)
      BY <2>4, <3>1 DEF R, Kaspa!FromAlt
    <3>4. two = Raised(one, L)
      BY <2>3, <2>5, Zenon DEF Raised
    <3> HIDE DEF one, two
    <3> QED
      BY <2>6, <3>2, <3>3, <3>4, KaspaRaised
  <2>23. CASE Kaspa!Pick(m, n)
    <3>1. Kaspa!Pick(r, p)
      BY <2>3, <2>23, KaspaAgain DEF r
    <3> DEFINE down == Kaspa!Num(m, 1)
               from == Len(m.stack) - 1 - down
               one == Kaspa!Drop(F, 1)
               two == Kaspa!Drop(R, 1)
    <3>2. n = IF ~Kaspa!HasNums(m, 1) \/ down \notin 0..(Len(m.stack) - 2) THEN Kaspa!Failed(F)
              ELSE IF Kaspa!Token(m).op = "Pick" THEN Kaspa!Push(one, m.stack[from])
              ELSE Kaspa!Push([one EXCEPT !.stack = Kaspa!RemoveAt(one.stack, from)], m.stack[from])
      BY <2>23 DEF F, Kaspa!Pick
    <3>3. p = IF ~Kaspa!HasNums(m, 1) \/ down \notin 0..(Len(m.stack) - 2) THEN Kaspa!Failed(R)
              ELSE IF Kaspa!Token(m).op = "Pick" THEN Kaspa!Push(two, m.stack[from])
              ELSE Kaspa!Push([two EXCEPT !.stack = Kaspa!RemoveAt(two.stack, from)], m.stack[from])
      BY <2>4, <3>1 DEF R, Kaspa!Pick
    <3> HIDE DEF one, two, down, from
    <3>4. two = Raised(one, L)
      BY <2>6 DEF one, two
    <3>5. two.stack = one.stack
      BY <3>4, RaisedReads
    <3> DEFINE oneLess == [one EXCEPT !.stack = Kaspa!RemoveAt(one.stack, from)]
               twoLess == [two EXCEPT !.stack = Kaspa!RemoveAt(two.stack, from)]
    <3>6. twoLess = Raised(oneLess, L)
      BY <3>4, <3>5, Zenon DEF Raised
    <3>9. n = IF ~Kaspa!HasNums(m, 1) \/ down \notin 0..(Len(m.stack) - 2) THEN Kaspa!Failed(F)
              ELSE IF Kaspa!Token(m).op = "Pick" THEN Kaspa!Push(one, m.stack[from])
              ELSE Kaspa!Push(oneLess, m.stack[from])
      BY <3>2
    <3>10. p = IF ~Kaspa!HasNums(m, 1) \/ down \notin 0..(Len(m.stack) - 2) THEN Kaspa!Failed(R)
              ELSE IF Kaspa!Token(m).op = "Pick" THEN Kaspa!Push(two, m.stack[from])
              ELSE Kaspa!Push(twoLess, m.stack[from])
      BY <3>3
    <3> HIDE DEF oneLess, twoLess
    <3>7. Kaspa!Push(two, m.stack[from]) = Raised(Kaspa!Push(one, m.stack[from]), L)
      BY <3>4, KaspaRaised
    <3>8. Kaspa!Push(twoLess, m.stack[from]) = Raised(Kaspa!Push(oneLess, m.stack[from]), L)
      BY <3>6, KaspaRaised
    <3> QED
      BY <2>6, <3>7, <3>8, <3>9, <3>10
  <2>24. CASE Kaspa!Depth(m, n)
    <3>1. Kaspa!Depth(r, p)
      BY <2>3, <2>24, KaspaAgain DEF r
    <3> QED
      BY <2>4, <2>6, <2>8, <2>24, <3>1 DEF F, R, Kaspa!Depth
  <2>25. CASE Kaspa!IfDup(m, n)
    <3>1. Kaspa!IfDup(r, p)
      BY <2>3, <2>25, KaspaAgain DEF r
    <3> QED
      BY <2>4, <2>6, <2>8, <2>25, <3>1 DEF F, R, Kaspa!IfDup
  <2>26. CASE Kaspa!Cat(m, n)
    <3>1. Kaspa!Cat(r, p)
      BY <2>3, <2>26, KaspaAgain DEF r
    <3> QED
      BY <2>4, <2>6, <2>8, <2>26, <3>1 DEF F, R, Kaspa!Cat
  <2>27. CASE Kaspa!SubStr(m, n)
    <3>1. Kaspa!SubStr(r, p)
      BY <2>3, <2>27, KaspaAgain DEF r
    <3> QED
      BY <2>4, <2>6, <2>8, <2>27, <3>1 DEF F, R, Kaspa!SubStr
  <2>28. CASE Kaspa!Side(m, n)
    <3>1. Kaspa!Side(r, p)
      BY <2>3, <2>28, KaspaAgain DEF r
    <3> QED
      BY <2>4, <2>6, <2>8, <2>28, <3>1 DEF F, R, Kaspa!Side
  <2>29. CASE Kaspa!SizeOp(m, n)
    <3>1. Kaspa!SizeOp(r, p)
      BY <2>3, <2>29, KaspaAgain DEF r
    <3> QED
      BY <2>4, <2>6, <2>8, <2>29, <3>1 DEF F, R, Kaspa!SizeOp
  <2>30. CASE Kaspa!Invert(m, n)
    <3>1. Kaspa!Invert(r, p)
      BY <2>3, <2>30, KaspaAgain DEF r
    <3> QED
      BY <2>4, <2>6, <2>8, <2>30, <3>1 DEF F, R, Kaspa!Invert
  <2>31. CASE Kaspa!Combine(m, n)
    <3>1. Kaspa!Combine(r, p)
      BY <2>3, <2>31, KaspaAgain DEF r
    <3> QED
      BY <2>4, <2>6, <2>8, <2>31, <3>1 DEF F, R, Kaspa!Combine
  <2>32. CASE Kaspa!Arithmetic1(m, n)
    <3>1. Kaspa!Arithmetic1(r, p)
      BY <2>3, <2>32, KaspaAgain DEF r
    <3> QED
      BY <2>4, <2>6, <2>8, <2>32, <3>1 DEF F, R, Kaspa!Arithmetic1
  <2>33. CASE Kaspa!Arithmetic2(m, n)
    <3>1. Kaspa!Arithmetic2(r, p)
      BY <2>3, <2>33, KaspaAgain DEF r
    <3> QED
      BY <2>4, <2>6, <2>8, <2>33, <3>1 DEF F, R, Kaspa!Arithmetic2
  <2>34. CASE Kaspa!Within(m, n)
    <3>1. Kaspa!Within(r, p)
      BY <2>3, <2>34, KaspaAgain DEF r
    <3> QED
      BY <2>4, <2>6, <2>8, <2>34, <3>1 DEF F, R, Kaspa!Within
  <2>35. CASE Kaspa!HashOp(m, n)
    <3>1. Kaspa!HashOp(r, p)
      BY <2>3, <2>35, KaspaAgain DEF r
    <3> DEFINE paid == Kaspa!Charge(F, Kaspa!SHA3_BASE)
               both == Kaspa!Charge(R, Kaspa!SHA3_BASE)
    <3> DEFINE op == Kaspa!Token(m).op
               top == Kaspa!Top(m, 1)
               more == Kaspa!SHA3_WORD * Kaspa!Words(Len(top))
               all == IF op = "Hash160" THEN paid ELSE Kaspa!Charge(paid, more)
               allBoth == IF op = "Hash160" THEN both ELSE Kaspa!Charge(both, more)
               result == LET hash == Digest("sha256", top)
                         IN CASE op = "Sha256" -> hash
                              [] op = "Hash256" -> Digest("sha256", hash)
                              [] op = "Hash160" -> SubSeq(hash, 1, 20)
    <3>2. n = IF paid.status # "running" \/ ~Kaspa!Has(m, 1) THEN Kaspa!Failed(paid)
              ELSE Kaspa!Push(Kaspa!Drop(all, 1), result)
      BY <2>35 DEF F, Kaspa!HashOp
    <3>3. p = IF both.status # "running" \/ ~Kaspa!Has(m, 1) THEN Kaspa!Failed(both)
              ELSE Kaspa!Push(Kaspa!Drop(allBoth, 1), result)
      <4>1. op \in {"Sha256", "Hash256", "Hash160"}
        BY <2>35 DEF Kaspa!HashOp, Kaspa!Fetch
      <4>2. Kaspa!Token(r) = Kaspa!Token(m) /\ Kaspa!Top(r, 1) = top
                /\ (Kaspa!Has(r, 1) <=> Kaspa!Has(m, 1))
        BY <2>4
      <4> QED
        BY <3>1, <4>1, <4>2 DEF R, Kaspa!HashOp
    <3>4. Spends(F, paid) /\ Spends(paid, all)
      BY KaspaHelpers, SpendsNothing, Zenon DEF Keeps
    <3> HIDE DEF result
    <3>5. (paid.status = "running" /\ Kaspa!Has(m, 1) => Spends(all, n)) /\ Spends(paid, n)
      <4> HIDE DEF all, paid
      <4>1. Spends(all, Kaspa!Push(Kaspa!Drop(all, 1), result)) /\ Spends(paid, Kaspa!Failed(paid))
        BY KaspaHelpers, SpendsTransitive
      <4>2. Spends(paid, Kaspa!Push(Kaspa!Drop(all, 1), result))
        BY <3>4, <4>1, SpendsTransitive
      <4> QED
        BY <3>2, <4>1, <4>2
    <3>6. Metered(paid) /\ Metered(all)
      <4> HIDE DEF all, paid
      <4> QED
        BY <2>1, <3>4 DEF Spends
    <3>7. both = Raised(paid, L)
      <4> HIDE DEF all
      <4> QED
        BY <2>1, <2>3, <3>5, <3>6, KaspaCharged, WithinBefore
    <3>8. both.status = paid.status /\ Kaspa!Failed(both) = Raised(Kaspa!Failed(paid), L)
      <4> HIDE DEF both, paid
      <4>1. both.status = paid.status
        BY <3>7, RaisedReads
      <4>2. Kaspa!Failed(both) = Raised(Kaspa!Failed(paid), L)
        BY <3>7, KaspaRaised
      <4> QED
        BY <4>1, <4>2
    <3>9. ASSUME paid.status = "running", Kaspa!Has(m, 1) PROVE allBoth = Raised(all, L)
      <4>1. Within(all, L)
        <5> HIDE DEF all
        <5> QED
          BY <3>5, <3>6, <3>9, WithinBefore
      <4> HIDE DEF paid, both, op
      <4> QED
        BY <3>6, <3>7, <4>1, KaspaCharged
    <3> HIDE DEF paid, both, all, allBoth
    <3>10. Kaspa!Push(Kaspa!Drop(Raised(all, L), 1), result) =
               Raised(Kaspa!Push(Kaspa!Drop(all, 1), result), L)
      BY KaspaRaised
    <3> QED
      BY <3>2, <3>3, <3>8, <3>9, <3>10
  <2>36. CASE Kaspa!CheckSig(m, n)
    <3>1. Kaspa!CheckSig(r, p)
      BY <2>3, <2>36, KaspaAgain DEF r
    <3> QED
      BY <2>4, <2>6, <2>8, <2>36, <3>1, Zenon DEF F, R, Kaspa!CheckSig
  <2>37. CASE Kaspa!MultiSig(m, n)
    <3>1. Kaspa!MultiSig(r, p)
      BY <2>3, <2>37, KaspaAgain DEF r
    <3> QED
      BY <2>4, <2>6, <2>8, <2>37, <3>1 DEF F, R, Kaspa!MultiSig
  <2>38. CASE Kaspa!LockTime(m, n)
    <3>1. Kaspa!LockTime(r, p)
      BY <2>3, <2>38, KaspaAgain DEF r
    <3> QED
      BY <2>4, <2>6, <2>8, <2>38, <3>1 DEF F, R, Kaspa!LockTime
  <2>39. CASE Kaspa!TxField(m, n)
    <3>1. Kaspa!TxField(r, p)
      BY <2>3, <2>39, KaspaAgain DEF r
    <3>2. Kaspa!Token(m).op \in {"InputIndex", "OutputCount", "InputCount", "TxVersion", "TxLockTime"}
      BY <2>39 DEF Kaspa!TxField, Kaspa!Fetch
    <3> QED
      BY <2>4, <2>6, <2>39, <3>1, <3>2 DEF F, R, Kaspa!TxField
  <2>40. CASE Kaspa!TxEntry(m, n)
    <3>1. Kaspa!TxEntry(r, p)
      BY <2>3, <2>40, KaspaAgain DEF r
    <3> QED
      BY <2>4, <2>6, <2>8, <2>40, <3>1 DEF F, R, Kaspa!TxEntry
  <2>41. CASE Kaspa!StateGet(m, n)
    <3>1. Kaspa!StateGet(r, p)
      BY <2>3, <2>41, KaspaAgain DEF r
    <3> DEFINE paid == Kaspa!Charge(F, Kaspa!SLOAD)
               both == Kaspa!Charge(R, Kaspa!SLOAD)
    <3> DEFINE v == IF Kaspa!Top(m, 1) \in DOMAIN m.store THEN m.store[Kaspa!Top(m, 1)] ELSE <<>>
    <3>2. n = IF paid.status # "running" \/ ~Kaspa!Has(m, 1) THEN Kaspa!Failed(paid)
              ELSE Kaspa!Push(Kaspa!Drop(paid, 1), v)
      BY <2>41 DEF F, Kaspa!StateGet
    <3>3. p = IF both.status # "running" \/ ~Kaspa!Has(m, 1) THEN Kaspa!Failed(both)
              ELSE Kaspa!Push(Kaspa!Drop(both, 1), v)
      <4>1. /\ Kaspa!Top(r, 1) = Kaspa!Top(m, 1) /\ Kaspa!Top(r, 2) = Kaspa!Top(m, 2) /\ r.store = m.store
            /\ Kaspa!Has(r, 1) <=> Kaspa!Has(m, 1)
        BY <2>4
      <4> QED
        BY <3>1, <4>1 DEF R, Kaspa!StateGet
    <3>4. Spends(F, paid)
      BY KaspaHelpers
    <3> HIDE DEF v
    <3>5. Spends(paid, n)
      <4> HIDE DEF paid
      <4> QED
        BY <3>2, KaspaHelpers, SpendsTransitive, Zenon
    <3>6. Metered(paid)
      <4> HIDE DEF paid
      <4> QED
        BY <2>1, <3>4 DEF Spends
    <3>7. both = Raised(paid, L)
      BY <2>1, <2>3, <3>5, <3>6, KaspaCharged, WithinBefore
    <3> HIDE DEF paid, both
    <3>8. both.status = paid.status
      BY <3>7, RaisedReads
    <3>9. Kaspa!Failed(both) = Raised(Kaspa!Failed(paid), L)
      BY <3>7, KaspaRaised
    <3>10. Kaspa!Push(Kaspa!Drop(both, 1), v) = Raised(Kaspa!Push(Kaspa!Drop(paid, 1), v), L)
      BY <3>7, KaspaRaised
    <3> QED
      BY <3>2, <3>3, <3>8, <3>9, <3>10
  <2>42. CASE Kaspa!StatePut(m, n)
    <3>1. Kaspa!StatePut(r, p)
      BY <2>3, <2>42, KaspaAgain DEF r
    <3> DEFINE paid == Kaspa!Charge(F, Kaspa!SSTORE_SET)
               both == Kaspa!Charge(R, Kaspa!SSTORE_SET)
    <3> DEFINE one == Kaspa!Drop(paid, 2)
               two == Kaspa!Drop(both, 2)
    <3>2. Spends(F, paid) /\ Spends(paid, n)
      BY <2>42, KaspaHelpers, SpendsData, SpendsTransitive, Zenon DEF F, Kaspa!StatePut
    <3>3. both = Raised(paid, L) /\ Metered(paid)
      <4>1. Metered(paid)
        BY <2>1, <3>2 DEF Spends
      <4>2. Within(paid, L)
        BY <3>2, <4>1, WithinBefore
      <4> QED
        BY <2>1, <2>3, <4>1, <4>2, KaspaCharged
    <3> HIDE DEF paid, both
    <3>4. both.status = paid.status
      BY <3>3, RaisedReads
    <3>5. two = Raised(one, L) /\ Kaspa!Failed(both) = Raised(Kaspa!Failed(paid), L)
      BY <3>3, KaspaRaised
    <3> HIDE DEF one, two
    <3>6. two.store = one.store
      BY <3>5, RaisedReads
    <3>7. CASE paid.status # "running" \/ ~Kaspa!Has(m, 2)
      BY <2>4, <2>42, <3>1, <3>4, <3>5, <3>7 DEF F, R, Kaspa!StatePut, paid, both
    <3>8. CASE paid.status = "running" /\ Kaspa!Has(m, 2)
      <4>1. /\ Kaspa!Top(r, 1) = Kaspa!Top(m, 1) /\ Kaspa!Top(r, 2) = Kaspa!Top(m, 2)
            /\ Kaspa!Has(r, 2) <=> Kaspa!Has(m, 2)
        BY <2>4
      <4> QED
        BY <2>42, <3>1, <3>4, <3>5, <3>6, <3>8, <4>1, Zenon
           DEF F, R, Kaspa!StatePut, paid, both, one, two, Raised
    <3> QED
      BY <3>7, <3>8
  <2>43. CASE Kaspa!StateDelete(m, n)
    <3>1. Kaspa!StateDelete(r, p)
      BY <2>3, <2>43, KaspaAgain DEF r
    <3> DEFINE paid == Kaspa!Charge(F, Kaspa!SSTORE_RESET)
               both == Kaspa!Charge(R, Kaspa!SSTORE_RESET)
    <3> DEFINE one == Kaspa!Drop(paid, 1)
               two == Kaspa!Drop(both, 1)
               After(store) == [k \in DOMAIN store \ {Kaspa!Top(m, 1)} |-> store[k]]
    <3>2. n = IF paid.status # "running" \/ ~Kaspa!Has(m, 1) THEN Kaspa!Failed(paid)
              ELSE [one EXCEPT !.store = After(one.store)]
      BY <2>43 DEF F, Kaspa!StateDelete
    <3>3. p = IF both.status # "running" \/ ~Kaspa!Has(m, 1) THEN Kaspa!Failed(both)
              ELSE [two EXCEPT !.store = After(two.store)]
      <4>1. /\ Kaspa!Top(r, 1) = Kaspa!Top(m, 1) /\ Kaspa!Top(r, 2) = Kaspa!Top(m, 2) /\ r.store = m.store
            /\ Kaspa!Has(r, 1) <=> Kaspa!Has(m, 1)
        BY <2>4
      <4> QED
        BY <3>1, <4>1 DEF R, Kaspa!StateDelete
    <3>4. Spends(F, paid)
      BY KaspaHelpers
    <3> HIDE DEF After
    <3>5. Spends(paid, n)
      <4> DEFINE after == [one EXCEPT !.store = After(one.store)]
      <4>1. Spends(paid, one)
        BY KaspaHelpers
      <4> HIDE DEF paid, one
      <4>2. Spends(one, after)
        BY SpendsData, Zenon
      <4> HIDE DEF after
      <4>3. Spends(paid, after)
        BY <4>1, <4>2, SpendsTransitive
      <4>4. Spends(paid, Kaspa!Failed(paid))
        BY KaspaHelpers
      <4> QED
        BY <3>2, <4>3, <4>4 DEF after
    <3>6. Metered(paid)
      <4> HIDE DEF paid
      <4> QED
        BY <2>1, <3>4 DEF Spends
    <3>7. both = Raised(paid, L)
      BY <2>1, <2>3, <3>5, <3>6, KaspaCharged, WithinBefore
    <3> HIDE DEF paid, both
    <3>8. both.status = paid.status
      BY <3>7, RaisedReads
    <3>9. Kaspa!Failed(both) = Raised(Kaspa!Failed(paid), L)
      BY <3>7, KaspaRaised
    <3>10. two = Raised(one, L)
      BY <3>7, KaspaRaised
    <3> HIDE DEF one, two
    <3>11. two.store = one.store
      BY <3>10, RaisedReads
    <3>12. [two EXCEPT !.store = After(two.store)] = Raised([one EXCEPT !.store = After(one.store)], L)
      BY <3>10, <3>11, Zenon DEF Raised
    <3> QED
      BY <3>2, <3>3, <3>8, <3>9, <3>12
  <2>44. CASE Kaspa!EmitEvent(m, n)
    <3>1. Kaspa!EmitEvent(r, p)
      BY <2>3, <2>44, KaspaAgain DEF r
    <3> DEFINE paid == Kaspa!Charge(F, Kaspa!LOG)
               both == Kaspa!Charge(R, Kaspa!LOG)
    <3> DEFINE more == Kaspa!LOG_DATA * Len(Kaspa!Top(m, 1))
               all == Kaspa!Charge(paid, more)
               allBoth == Kaspa!Charge(both, more)
               one == Kaspa!Drop(all, 2)
               two == Kaspa!Drop(allBoth, 2)
               said == [topic |-> Digest("sha3", Kaspa!Top(m, 2)), data |-> Kaspa!Top(m, 1)]
    <3>2. n = IF paid.status # "running" \/ ~Kaspa!Has(m, 2) THEN Kaspa!Failed(paid)
              ELSE IF all.status # "running" THEN all ELSE [one EXCEPT !.logs = Append(one.logs, said)]
      BY <2>44 DEF F, Kaspa!EmitEvent
    <3>3. p = IF both.status # "running" \/ ~Kaspa!Has(m, 2) THEN Kaspa!Failed(both)
              ELSE IF allBoth.status # "running" THEN allBoth
                  ELSE [two EXCEPT !.logs = Append(two.logs, said)]
      <4>1. /\ Kaspa!Top(r, 1) = Kaspa!Top(m, 1) /\ Kaspa!Top(r, 2) = Kaspa!Top(m, 2) /\ r.store = m.store
            /\ Kaspa!Has(r, 2) <=> Kaspa!Has(m, 2)
        BY <2>4
      <4> QED
        BY <3>1, <4>1, Zenon DEF R, Kaspa!EmitEvent
    <3>4. Spends(F, paid)
      BY KaspaHelpers
    <3> HIDE DEF said
    <3>10. Spends(paid, all)
      BY KaspaHelpers, Zenon
    <3>5. Spends(paid, n) /\ (paid.status = "running" /\ Kaspa!Has(m, 2) => Spends(all, n))
      <4> DEFINE after == [one EXCEPT !.logs = Append(one.logs, said)]
      <4> HIDE DEF paid, all
      <4>1. Spends(all, one) /\ Spends(all, all)
        BY KaspaHelpers, SpendsNothing DEF Keeps
      <4> HIDE DEF one
      <4>2. Spends(one, after)
        BY SpendsData, Zenon
      <4> HIDE DEF after
      <4>3. Spends(all, after)
        BY <4>1, <4>2, SpendsTransitive
      <4>4. Spends(paid, Kaspa!Failed(paid)) /\ Spends(paid, after)
        BY <3>10, <4>3, KaspaHelpers, SpendsTransitive
      <4> QED
        BY <3>2, <3>10, <4>1, <4>3, <4>4 DEF after
    <3>6. Metered(paid)
      <4> HIDE DEF paid
      <4> QED
        BY <2>1, <3>4 DEF Spends
    <3>7. both = Raised(paid, L)
      BY <2>1, <2>3, <3>5, <3>6, KaspaCharged, WithinBefore
    <3> HIDE DEF paid, both
    <3>8. both.status = paid.status
      BY <3>7, RaisedReads
    <3>9. Kaspa!Failed(both) = Raised(Kaspa!Failed(paid), L)
      BY <3>7, KaspaRaised
    <3>11. ASSUME paid.status = "running", Kaspa!Has(m, 2) PROVE allBoth = Raised(all, L)
      <4> HIDE DEF more
      <4>1. Metered(all)
        BY <3>6, <3>10 DEF Spends
      <4>2. Within(all, L)
        BY <3>5, <3>11, <4>1, WithinBefore
      <4> QED
        BY <3>6, <3>7, <4>2, KaspaCharged
    <3> HIDE DEF all, allBoth
    <3>12. ASSUME allBoth = Raised(all, L)
           PROVE  /\ allBoth.status = all.status
                  /\ [two EXCEPT !.logs = Append(two.logs, said)] =
                         Raised([one EXCEPT !.logs = Append(one.logs, said)], L)
      <4>1. two = Raised(one, L)
        BY <3>12, KaspaRaised
      <4>2. allBoth.status = all.status
        BY <3>12, RaisedReads
      <4> HIDE DEF one, two
      <4>3. two.logs = one.logs
        BY <4>1, RaisedReads
      <4> QED
        BY <4>1, <4>2, <4>3, Zenon DEF Raised
    <3> HIDE DEF one, two
    <3> QED
      BY <3>2, <3>3, <3>8, <3>9, <3>11, <3>12
  <2> QED
    BY <1>2, <2>7, <2>9, <2>10, <2>11, <2>12, <2>13, <2>14, <2>15, <2>16, <2>17, <2>18, <2>19, <2>20,
       <2>21, <2>22, <2>23, <2>24, <2>25, <2>26, <2>27, <2>28, <2>29, <2>30, <2>31, <2>32, <2>33,
       <2>34, <2>35, <2>36, <2>37, <2>38, <2>39, <2>40, <2>41, <2>42, <2>43, <2>44 DEF Kaspa!Step
<1> QED
  BY <1>1, <1>2

-----------------------------------------------------------------------------
\* The Pact machine: what its evaluator reads
LEMMA PactReads ==
  ASSUME NEW m, NEW L
  PROVE  LET r == Raised(m, L) IN
         /\ Pact!Running(r) <=> Pact!Running(m)
         /\ Pact!Ok(r) <=> Pact!Ok(m)
         /\ Pact!Resumes(r) <=> Pact!Resumes(m)
         /\ Pact!Idle(r) <=> Pact!Idle(m)
         /\ Pact!Frame(r) = Pact!Frame(m) /\ Pact!Expr(r) = Pact!Expr(m) /\ Pact!Vals(r) = Pact!Vals(m)
         /\ Pact!Arguments(r) = Pact!Arguments(m) /\ Pact!Key(r) = Pact!Key(m)
         /\ \A name : Pact!FullName(r, name) = Pact!FullName(m, name)
         /\ \A guard : Pact!Verified(r, guard) = Pact!Verified(m, guard)
         /\ \A kinds : Pact!Completes(r, kinds) <=> Pact!Completes(m, kinds)
         /\ \A kinds, k : Pact!Returns(r, kinds, k) <=> Pact!Returns(m, kinds, k)
<1> DEFINE r == Raised(m, L)
<1>1. /\ r.lang = m.lang /\ r.status = m.status /\ r.frames = m.frames /\ r.todo = m.todo
      /\ r.module = m.module /\ r.active = m.active
  BY RaisedReads
<1> HIDE DEF r
<1>2. /\ Pact!Running(r) <=> Pact!Running(m)
      /\ Pact!Ok(r) <=> Pact!Ok(m)
  BY <1>1 DEF Pact!Running, Pact!Ok
<1>3. /\ Pact!Resumes(r) <=> Pact!Resumes(m)
      /\ Pact!Idle(r) <=> Pact!Idle(m)
  BY <1>1, <1>2 DEF Pact!Resumes, Pact!Idle
<1>4. Pact!Frame(r) = Pact!Frame(m)
  BY <1>1 DEF Pact!Frame
<1>5. Pact!Expr(r) = Pact!Expr(m) /\ Pact!Vals(r) = Pact!Vals(m)
  BY <1>4 DEF Pact!Expr, Pact!Vals
<1>6. Pact!Arguments(r) = Pact!Arguments(m)
  BY <1>5 DEF Pact!Arguments
<1>7. Pact!Key(r) = Pact!Key(m)
  BY <1>5, <1>6 DEF Pact!Key
<1>8. \A name : Pact!FullName(r, name) = Pact!FullName(m, name)
  BY <1>1 DEF Pact!FullName
<1>9. ASSUME NEW guard PROVE Pact!Verified(r, guard) = Pact!Verified(m, guard)
  <2> DEFINE V(active) == CASE guard.kind = "keyset" -> guard.keys \subseteq Signers
                            [] guard.kind = "capability" -> <<guard.name, <<>>>> \in Pact!ToSet(active)
                            [] OTHER -> TRUE
  <2>1. Pact!Verified(r, guard) = V(r.active) /\ Pact!Verified(m, guard) = V(m.active)
    BY DEF Pact!Verified
  <2> HIDE DEF V
  <2> QED
    BY <1>1, <2>1
<1>10. \A kinds : Pact!Completes(r, kinds) <=> Pact!Completes(m, kinds)
  BY <1>3, <1>5 DEF Pact!Completes
<1>11. \A kinds, k : Pact!Returns(r, kinds, k) <=> Pact!Returns(m, kinds, k)
  BY <1>3, <1>5 DEF Pact!Returns
<1> QED
  BY <1>2, <1>3, <1>4, <1>5, <1>6, <1>7, <1>8, <1>9, <1>10, <1>11 DEF r

\* ... and what it does to it
LEMMA PactRaised ==
  ASSUME NEW m, NEW L
  PROVE  LET r == Raised(m, L) IN
         /\ Pact!Failed(r) = Raised(Pact!Failed(m), L)
         /\ Pact!Panics(r) = Raised(Pact!Panics(m), L)
         /\ \A v : Pact!Give(r, v) = Raised(Pact!Give(m, v), L)
         /\ \A k : Pact!Number(r, k) = Raised(Pact!Number(m, k), L)
         /\ \A a : Pact!Times(r, a) = Raised(Pact!Times(m, a), L)
         /\ \A name : Pact!Lookup(r, name) = Raised(Pact!Lookup(m, name), L)
         /\ \A e : Pact!Ask(r, e) = Raised(Pact!Ask(m, e), L)
         /\ \A below : Pact!Return(r, below) = Raised(Pact!Return(m, below), L)
         /\ Pact!Leave(r) = Raised(Pact!Leave(m), L)
<1> DEFINE r == Raised(m, L)
<1>1. Pact!Failed(r) = Raised(Pact!Failed(m), L) /\ Pact!Panics(r) = Raised(Pact!Panics(m), L)
  BY Zenon DEF Raised, Pact!Failed, Pact!Panics
<1>2. /\ Pact!Ok(r) <=> Pact!Ok(m)
      /\ r.val = m.val /\ r.env = m.env /\ r.depth = m.depth /\ r.frames = m.frames
  BY PactReads, RaisedReads
<1>3. ASSUME NEW v PROVE Pact!Give(r, v) = Raised(Pact!Give(m, v), L)
  <2>1. [r EXCEPT !.val = v] = Raised([m EXCEPT !.val = v], L)
    BY Zenon DEF Raised
  <2> HIDE DEF r
  <2>2. CASE Pact!Ok(m)
    BY <1>2, <2>1, <2>2 DEF Pact!Give
  <2>3. CASE ~Pact!Ok(m)
    BY <1>2, <2>3 DEF Pact!Give, r
  <2> QED
    BY <2>2, <2>3
<1>4. ASSUME NEW e PROVE Pact!Ask(r, e) = Raised(Pact!Ask(m, e), L)
  BY Zenon DEF Raised, Pact!Ask
<1>5. ASSUME NEW below PROVE Pact!Return(r, below) = Raised(Pact!Return(m, below), L)
  <2> DEFINE frames == IF below = <<>> THEN <<>> ELSE [below EXCEPT ![Len(below)].vals = Append(@, m.val)]
  <2>1. CASE ~Pact!Ok(m)
    BY <1>2, <2>1 DEF Pact!Return
  <2>2. CASE Pact!Ok(m)
    <3>1. Pact!Return(m, below) = [m EXCEPT !.depth = m.depth - 1, !.frames = frames]
      BY <2>2 DEF Pact!Return
    <3> HIDE DEF r
    <3>2. Pact!Return(r, below) = [r EXCEPT !.depth = m.depth - 1, !.frames = frames]
      BY <1>2, <2>2 DEF Pact!Return
    <3> HIDE DEF frames
    <3>3. [r EXCEPT !.depth = m.depth - 1, !.frames = frames] =
              Raised([m EXCEPT !.depth = m.depth - 1, !.frames = frames], L)
      BY Zenon DEF Raised, r
    <3> QED
      BY <3>1, <3>2, <3>3
  <2> QED
    BY <2>1, <2>2
<1> HIDE DEF r
<1>6. \A k : Pact!Number(r, k) = Raised(Pact!Number(m, k), L)
  BY <1>1, <1>3 DEF Pact!Number
<1>7. \A a : Pact!Times(r, a) = Raised(Pact!Times(m, a), L)
  <2>1. r = Raised(m, L)
    BY DEF r
  <2> QED
    BY <1>2, <1>6, <2>1 DEF Pact!Times
<1>8. \A name : Pact!Lookup(r, name) = Raised(Pact!Lookup(m, name), L)
  BY <1>1, <1>2, <1>3 DEF Pact!Lookup
<1>9. Pact!Leave(r) = Raised(Pact!Leave(m), L)
  BY <1>2, <1>5 DEF Pact!Leave
<1> QED
  BY <1>1, <1>3, <1>4, <1>5, <1>6, <1>7, <1>8, <1>9 DEF r

\* pow multiplies step by step
LEMMA PactRaiseRaised ==
  ASSUME NEW m, NEW L, NEW a, NEW b \in Nat
  PROVE  Pact!Raise(Raised(m, L), a, b) = Raised(Pact!Raise(m, a, b), L)
<1> DEFINE r == Raised(m, L)
<1>0. Pact!Give(r, Pact!Integer(1)) = Raised(Pact!Give(m, Pact!Integer(1)), L)
  BY PactRaised
<1> HIDE DEF r
<1>1. PICK f : /\ f[0] = Pact!Give(m, Pact!Integer(1))
               /\ \A j, k \in 0..b : k = j + 1 => f[k] = Pact!Times(f[j], a)
               /\ Pact!Raise(m, a, b) = f[b]
  BY RaiseSteps
<1>2. PICK g : /\ g[0] = Pact!Give(r, Pact!Integer(1))
               /\ \A j, k \in 0..b : k = j + 1 => g[k] = Pact!Times(g[j], a)
               /\ Pact!Raise(r, a, b) = g[b]
  BY RaiseSteps
<1> DEFINE S == {k \in Nat : k <= b => g[k] = Raised(f[k], L)}
<1>3. 0 \in S
  BY <1>0, <1>1, <1>2
<1>4. ASSUME NEW k \in Nat, k \in S PROVE k + 1 \in S
  <2> SUFFICES ASSUME k + 1 <= b PROVE g[k + 1] = Raised(f[k + 1], L)
    OBVIOUS
  <2>1. g[k] = Raised(f[k], L) /\ f[k + 1] = Pact!Times(f[k], a) /\ g[k + 1] = Pact!Times(g[k], a)
    BY <1>1, <1>2, <1>4
  <2> QED
    BY <2>1, PactRaised
<1> HIDE DEF S
<1>5. b \in S
  BY <1>3, <1>4, Induction
<1> QED
  BY <1>1, <1>2, <1>5 DEF S, r

\* A cost that was paid with gas left
LEMMA PactCharged ==
  ASSUME NEW m, Metered(m), NEW L \in Nat, NEW amount, Within(Pact!Charge(m, amount), L)
  PROVE  Pact!Charge(Raised(m, L), amount) = Raised(Pact!Charge(m, amount), L)
<1>1. \A g : Pact!Consume(g, amount) = Consume(g, amount) /\ (Pact!HasGas(g, amount) <=> HasGas(g, amount))
  BY DEF Pact!Consume, Consume, Pact!HasGas, HasGas
<1>2. Pact!Charge(m, amount).gas = Consume(m.gas, amount)
  BY <1>1 DEF Pact!Charge, Pact!Failed, Metered
<1>3. Consume(m.gas, amount).used < Consume(m.gas, amount).limit /\ Consume(m.gas, amount).used <= L
  BY <1>2 DEF Within
<1> QED
  BY <1>1, <1>3, BothPay DEF Pact!Charge

\* A built-in function but hash, which costs gas, does not depend on the limit.
LEMMA PactApplyRaised ==
  ASSUME NEW m, NEW L, NEW f \in Pact!Builtins \ {"hash"}, NEW args
  PROVE  Pact!Apply(f, Raised(m, L), args) = Raised(Pact!Apply(f, m, args), L)
<1> DEFINE r == Raised(m, L)
<1>1. /\ Pact!Failed(r) = Raised(Pact!Failed(m), L) /\ Pact!Panics(r) = Raised(Pact!Panics(m), L)
      /\ \A v : Pact!Give(r, v) = Raised(Pact!Give(m, v), L)
      /\ \A k : Pact!Number(r, k) = Raised(Pact!Number(m, k), L)
  BY PactRaised
<1>2. r.module = m.module /\ r.keysets = m.keysets /\ r.logs = m.logs
  BY RaisedReads
<1>3. \A a : \A k \in Nat : Pact!Raise(r, a, k) = Raised(Pact!Raise(m, a, k), L)
  BY PactRaiseRaised
<1>4. \A x : [r EXCEPT !.keysets = x] = Raised([m EXCEPT !.keysets = x], L)
  BY Zenon DEF Raised
<1>5. \A x : [r EXCEPT !.logs = x] = Raised([m EXCEPT !.logs = x], L)
  BY Zenon DEF Raised
<1> HIDE DEF r
<1>6. ASSUME f \in Pact!Sums, NEW a, NEW b
      PROVE  Pact!Arithmetic(f, r, a, b) = Raised(Pact!Arithmetic(f, m, a, b), L)
  <2>1. b \in Nat => b % U32 \in Nat
    BY U32Assumption
  <2>2. b \in Nat => Pact!Raise(r, a, b % U32) = Raised(Pact!Raise(m, a, b % U32), L)
    BY <1>3, <2>1
  <2> QED
    BY <1>1, <1>6, <2>2 DEF Pact!Arithmetic, Pact!Sums
<1>7. ASSUME f \in {"abs", "sqrt"}, NEW a PROVE Pact!OfOne(f, r, a) = Raised(Pact!OfOne(f, m, a), L)
  BY <1>1, <1>7 DEF Pact!OfOne
<1>8. ASSUME f \in Pact!Texts PROVE Pact!OfText(f, r, args) = Raised(Pact!OfText(f, m, args), L)
  BY <1>1, <1>8 DEF Pact!OfText, Pact!Texts
<1>9. ASSUME f \in Pact!Lists PROVE Pact!OfList(f, r, args) = Raised(Pact!OfList(f, m, args), L)
  BY <1>1, <1>9 DEF Pact!OfList, Pact!Lists
<1>10. ASSUME NEW a, NEW b PROVE Pact!AddTime(r, a, b) = Raised(Pact!AddTime(m, a, b), L)
  BY <1>1 DEF Pact!AddTime
<1>11. ASSUME NEW name, NEW v PROVE Pact!DefineKeyset(r, name, v) = Raised(Pact!DefineKeyset(m, name, v), L)
  <2> DEFINE keys == IF Pact!Is(v, "list") THEN v.list ELSE <<>>
  <2>1. CASE \A i \in DOMAIN keys : Pact!Is(keys[i], "str")
    <3>1. PICK set : /\ Pact!DefineKeyset(m, name, v) = Pact!Give([m EXCEPT !.keysets = set], Pact!Unit)
                     /\ Pact!DefineKeyset(r, name, v) = Pact!Give([r EXCEPT !.keysets = set], Pact!Unit)
      BY <1>2, <2>1, Zenon DEF Pact!DefineKeyset
    <3> DEFINE put == [m EXCEPT !.keysets = set]
    <3>2. [r EXCEPT !.keysets = set] = Raised(put, L)
      BY Zenon DEF Raised, r
    <3> HIDE DEF put
    <3>3. Pact!Give(Raised(put, L), Pact!Unit) = Raised(Pact!Give(put, Pact!Unit), L)
      BY PactRaised
    <3> QED
      BY <3>1, <3>2, <3>3 DEF put
  <2>2. CASE ~(\A i \in DOMAIN keys : Pact!Is(keys[i], "str"))
    BY <1>1, <2>2 DEF Pact!DefineKeyset
  <2> QED
    BY <2>1, <2>2
<1>12. ASSUME f \in Pact!Guards PROVE Pact!OfGuard(f, r, args) = Raised(Pact!OfGuard(f, m, args), L)
  BY <1>1, <1>2, <1>11, <1>12 DEF Pact!OfGuard, Pact!Guards
<1>13. Pact!Give([r EXCEPT !.logs = Append(r.logs, args[1])], Pact!Bool(TRUE))
         = Raised(Pact!Give([m EXCEPT !.logs = Append(m.logs, args[1])], Pact!Bool(TRUE)), L)
  <2> DEFINE said == [m EXCEPT !.logs = Append(m.logs, args[1])]
  <2>1. [r EXCEPT !.logs = Append(r.logs, args[1])] = Raised(said, L)
    BY <1>2, Zenon DEF Raised, r
  <2> HIDE DEF said
  <2>2. Pact!Give(Raised(said, L), Pact!Bool(TRUE)) = Raised(Pact!Give(said, Pact!Bool(TRUE)), L)
    BY PactRaised, ZenonT(60)
  <2> QED
    BY <2>1, <2>2, Zenon DEF said
<1>14. r = Raised(m, L)
  BY DEF r
<1>15. CASE f \in Pact!Sums
  <2>1. \A x : Pact!Apply(f, x, args) = Pact!Arithmetic(f, x, args[1].int, args[2].int)
    BY <1>15, Zenon DEF Pact!Apply, Pact!Sums, Pact!Decisions, Pact!Texts, Pact!Lists, Pact!Guards
  <2> QED
    BY <1>6, <1>14, <1>15, <2>1
<1>16. CASE f \in {"abs", "sqrt"}
  <2>1. \A x : Pact!Apply(f, x, args) = Pact!OfOne(f, x, args[1].int)
    BY <1>16, Zenon DEF Pact!Apply, Pact!Sums, Pact!Decisions, Pact!Texts, Pact!Lists, Pact!Guards
  <2> QED
    BY <1>7, <1>14, <1>16, <2>1
<1>17. CASE f \in Pact!Decisions
  <2>1. \A x : Pact!Apply(f, x, args) = Pact!Give(x, Pact!Bool(Pact!Decided(f, args[1], args[2])))
    BY <1>17, Zenon DEF Pact!Apply, Pact!Sums, Pact!Decisions, Pact!Texts, Pact!Lists, Pact!Guards
  <2> QED
    BY <1>1, <1>14, <1>17, <2>1
<1>18. CASE f = "not"
  <2>1. \A x : Pact!Apply(f, x, args) = Pact!Give(x, Pact!Bool(~Pact!AsBool(args[1])))
    BY <1>18 DEF Pact!Apply, Pact!Sums, Pact!Decisions, Pact!Texts, Pact!Lists, Pact!Guards
  <2> QED
    BY <1>1, <1>14, <1>18, <2>1
<1>19. CASE f \in Pact!Texts
  <2>1. \A x : Pact!Apply(f, x, args) = Pact!OfText(f, x, args)
    BY <1>19, Zenon DEF Pact!Apply, Pact!Sums, Pact!Decisions, Pact!Texts, Pact!Lists, Pact!Guards
  <2> QED
    BY <1>8, <1>14, <1>19, <2>1
<1>20. CASE f \in Pact!Lists
  <2>1. \A x : Pact!Apply(f, x, args) = Pact!OfList(f, x, args)
    BY <1>20, Zenon DEF Pact!Apply, Pact!Sums, Pact!Decisions, Pact!Texts, Pact!Lists, Pact!Guards
  <2> QED
    BY <1>9, <1>14, <1>20, <2>1
<1>21. CASE f = "time"
  <2>1. \A x : Pact!Apply(f, x, args) = Pact!Give(x, [time |-> 0])
    BY <1>21 DEF Pact!Apply, Pact!Sums, Pact!Decisions, Pact!Texts, Pact!Lists, Pact!Guards
  <2> QED
    BY <1>1, <1>14, <1>21, <2>1
<1>22. CASE f = "add-time"
  <2>1. \A x : Pact!Apply(f, x, args) = Pact!AddTime(x, args[1], args[2])
    BY <1>22 DEF Pact!Apply, Pact!Sums, Pact!Decisions, Pact!Texts, Pact!Lists, Pact!Guards
  <2> QED
    BY <1>10, <1>14, <1>22, <2>1
<1>23. CASE f \in Pact!Guards
  <2>1. \A x : Pact!Apply(f, x, args) = Pact!OfGuard(f, x, args)
    BY <1>23, Zenon DEF Pact!Apply, Pact!Sums, Pact!Decisions, Pact!Texts, Pact!Lists, Pact!Guards
  <2> QED
    BY <1>12, <1>14, <1>23, <2>1
<1>24. CASE f = "emit-event"
  <2>1. \A x : Pact!Apply(f, x, args) =
            Pact!Give([x EXCEPT !.logs = Append(x.logs, args[1])], Pact!Bool(TRUE))
    BY <1>24 DEF Pact!Apply, Pact!Sums, Pact!Decisions, Pact!Texts, Pact!Lists, Pact!Guards
  <2> QED
    BY <1>13, <1>14, <1>24, <2>1, Zenon
<1>25. CASE f = "identity"
  <2>1. \A x : Pact!Apply(f, x, args) = Pact!Give(x, args[1])
    BY <1>25 DEF Pact!Apply, Pact!Sums, Pact!Decisions, Pact!Texts, Pact!Lists, Pact!Guards
  <2> QED
    BY <1>1, <1>14, <1>25, <2>1
<1>26. CASE f = "typeof"
  <2>1. \A x : Pact!Apply(f, x, args) = Pact!Give(x, Pact!Str(<<Pact!TypeOf(args[1])>>))
    BY <1>26 DEF Pact!Apply, Pact!Sums, Pact!Decisions, Pact!Texts, Pact!Lists, Pact!Guards
  <2> QED
    BY <1>1, <1>14, <1>26, <2>1
<1> QED
  BY <1>15, <1>16, <1>17, <1>18, <1>19, <1>20, <1>21, <1>22, <1>23, <1>24, <1>25, <1>26 DEF Pact!Builtins

\* hash does, as long as its gas was left.
LEMMA PactHashRaised ==
  ASSUME NEW m, Metered(m), NEW L \in Nat, NEW args, Within(Pact!HashOf(m, args), L)
  PROVE  Pact!HashOf(Raised(m, L), args) = Raised(Pact!HashOf(m, args), L)
<1> DEFINE r == Raised(m, L)
           n == Pact!HashOf(m, args)
           bytes == IF Pact!Is(args[1], "str") THEN Len(args[1].str) ELSE Pact!Size(args[1])
           more == Pact!SHA3_WORD * Pact!Words(bytes)
           hash == Pact!Str(Hex(args[1]))
           paid == Pact!Charge(m, Pact!SHA3_BASE)
           both == Pact!Charge(r, Pact!SHA3_BASE)
           all == Pact!Charge(paid, more)
           allBoth == Pact!Charge(both, more)
<1>1. n = IF ~Pact!Ok(paid) THEN paid ELSE IF args = <<>> THEN Pact!Panics(paid) ELSE Pact!Give(all, hash)
  BY DEF Pact!HashOf
<1>2. Pact!HashOf(r, args)
        = IF ~Pact!Ok(both) THEN both ELSE IF args = <<>> THEN Pact!Panics(both)
            ELSE Pact!Give(allBoth, hash)
  BY DEF Pact!HashOf
<1> HIDE DEF hash, more, n
<1>3. Spends(m, paid) /\ Spends(paid, all) /\ Spends(paid, paid)
  BY PactHelpers, Zenon DEF Aside
<1>4. Spends(all, Pact!Give(all, hash)) /\ Spends(paid, Pact!Panics(paid))
  BY PactHelpers, Zenon DEF Aside
<1> HIDE DEF all, paid
<1>5. Spends(paid, n) /\ (Pact!Ok(paid) /\ args # <<>> => Spends(all, n))
  BY <1>1, <1>3, <1>4, SpendsTransitive
<1>6. Metered(paid) /\ Metered(all)
  BY <1>3 DEF Spends
<1>7. Within(n, L)
  BY DEF n
<1>8. Within(paid, L)
  BY <1>5, <1>6, <1>7, WithinBefore
<1>9. both = Raised(paid, L)
  BY <1>8, PactCharged DEF paid
<1> HIDE DEF both
<1>10. ASSUME Pact!Ok(paid), args # <<>> PROVE allBoth = Raised(all, L)
  <2>1. Within(all, L)
    BY <1>5, <1>6, <1>7, <1>10, WithinBefore
  <2> QED
    BY <1>6, <1>9, <2>1, PactCharged DEF all
<1> HIDE DEF allBoth
<1>11. (Pact!Ok(both) <=> Pact!Ok(paid)) /\ Pact!Panics(both) = Raised(Pact!Panics(paid), L)
  BY <1>9, PactReads, PactRaised, Zenon
<1>12. Pact!Give(Raised(all, L), hash) = Raised(Pact!Give(all, hash), L)
  BY PactRaised
<1> QED
  BY <1>1, <1>2, <1>9, <1>10, <1>11, <1>12 DEF n, r

\* When the evaluator takes a step
PactOps(m, n) ==
  /\ Pact!Eval(m, n) => (Pact!Running(m) /\ m.todo # <<>>)
  /\ Pact!NextPart(m, n) => (Pact!Resumes(m) /\ Len(Pact!Vals(m)) < Len(Pact!Parts(Pact!Expr(m))))
  /\ Pact!EvalApp(m, n) => (Pact!Completes(m, {"app"}))
  /\ Pact!EvalLet(m, n) => (Pact!Completes(m, {"let"}))
  /\ Pact!EndOfBody(m, n) => (Pact!Returns(m, {"app", "let"}, 1))
  /\ Pact!EvalIf(m, n) => (Pact!Completes(m, {"if"}) \/ Pact!Returns(m, {"if"}, 1))
  /\ Pact!EvalModule(m, n) => (Pact!Completes(m, {"module"}))
  /\ Pact!Acquire(m, n) => (Pact!Completes(m, {"with-capability"}))
  /\ Pact!Granted(m, n) => (Pact!Returns(m, {"with-capability"}, 1))
  /\ Pact!EndOfScope(m, n) => (Pact!Returns(m, {"with-capability"}, 2))
  /\ Pact!EvalRequireCapability(m, n) => (Pact!Completes(m, {"require-capability"}))
  /\ Pact!EvalRead(m, n) => (Pact!Completes(m, {"read"}))
  /\ Pact!EvalWrite(m, n) => (Pact!Completes(m, {"write", "insert", "update"}))
  /\ Pact!EvalEnforce(m, n) => (Pact!Completes(m, {"enforce"}) \/ Pact!Completes(m, {"enforce-guard"}))
  /\ Pact!EvalNext(m, n) => (Pact!Idle(m) /\ m.code # <<>>)
  /\ Pact!StartCall(m, n) => (Pact!Idle(m) /\ m.code = <<>> /\ m.call # <<>>)
  /\ Pact!EndOfCode(m, n) => (Pact!Idle(m) /\ m.code = <<>> /\ m.call = <<>>)

\* ... as the actions' guards say
LEMMA PactGuards ==
  ASSUME NEW m, NEW n
  PROVE  PactOps(m, n)
BY Zenon DEF PactOps, Pact!Eval, Pact!NextPart, Pact!EvalApp, Pact!EvalLet, Pact!EndOfBody, Pact!EvalIf,
       Pact!EvalModule, Pact!Acquire, Pact!Granted, Pact!EndOfScope, Pact!EvalRequireCapability,
       Pact!EvalRead, Pact!EvalWrite, Pact!Writes, Pact!EvalEnforce, Pact!EvalNext, Pact!StartCall,
       Pact!EndOfCode

\* The evaluator has one step to take: a machine that differs in its limit only
\* takes the same one.
LEMMA PactAgain ==
  ASSUME NEW m, Pact!Resumes(m) => Len(Pact!Vals(m)) \in Nat,
         NEW L, NEW n, NEW p, Pact!Step(Raised(m, L), p)
  PROVE  /\ Pact!Eval(m, n) => Pact!Eval(Raised(m, L), p)
         /\ Pact!NextPart(m, n) => Pact!NextPart(Raised(m, L), p)
         /\ Pact!EvalApp(m, n) => Pact!EvalApp(Raised(m, L), p)
         /\ Pact!EvalLet(m, n) => Pact!EvalLet(Raised(m, L), p)
         /\ Pact!EndOfBody(m, n) => Pact!EndOfBody(Raised(m, L), p)
         /\ Pact!EvalIf(m, n) => Pact!EvalIf(Raised(m, L), p)
         /\ Pact!EvalModule(m, n) => Pact!EvalModule(Raised(m, L), p)
         /\ Pact!Acquire(m, n) => Pact!Acquire(Raised(m, L), p)
         /\ Pact!Granted(m, n) => Pact!Granted(Raised(m, L), p)
         /\ Pact!EndOfScope(m, n) => Pact!EndOfScope(Raised(m, L), p)
         /\ Pact!EvalRequireCapability(m, n) => Pact!EvalRequireCapability(Raised(m, L), p)
         /\ Pact!EvalRead(m, n) => Pact!EvalRead(Raised(m, L), p)
         /\ Pact!EvalWrite(m, n) => Pact!EvalWrite(Raised(m, L), p)
         /\ Pact!EvalEnforce(m, n) => Pact!EvalEnforce(Raised(m, L), p)
         /\ Pact!EvalNext(m, n) => Pact!EvalNext(Raised(m, L), p)
         /\ Pact!StartCall(m, n) => Pact!StartCall(Raised(m, L), p)
         /\ Pact!EndOfCode(m, n) => Pact!EndOfCode(Raised(m, L), p)
<1> DEFINE r == Raised(m, L)
           kind == Pact!Expr(m).kind
           has == Len(Pact!Vals(m))
           parts == Len(Pact!Parts(Pact!Expr(m)))
<1>1. PactOps(m, n) /\ PactOps(r, p)
  BY PactGuards
<1>2. /\ r.todo = m.todo /\ r.frames = m.frames /\ r.code = m.code /\ r.call = m.call
      /\ Pact!Expr(r) = Pact!Expr(m) /\ Pact!Vals(r) = Pact!Vals(m)
      /\ Pact!Resumes(r) <=> Pact!Resumes(m)
      /\ Pact!Idle(r) <=> Pact!Idle(m)
      /\ \A kinds : Pact!Completes(r, kinds) <=> Pact!Completes(m, kinds)
      /\ \A kinds, k : Pact!Returns(r, kinds, k) <=> Pact!Returns(m, kinds, k)
  BY PactReads, RaisedReads
<1>3. /\ Pact!Idle(m) => m.todo = <<>> /\ m.frames = <<>>
      /\ Pact!Resumes(m) => m.todo = <<>> /\ m.frames # <<>> /\ has \in Nat
      /\ \A kinds : Pact!Completes(m, kinds) => Pact!Resumes(m) /\ kind \in kinds /\ has = parts
      /\ \A kinds, k : Pact!Returns(m, kinds, k) => Pact!Resumes(m) /\ kind \in kinds /\ has - k = parts
  BY DEF Pact!Idle, Pact!Resumes, Pact!Completes, Pact!Returns
<1>4. Pact!Step(r, p)
  OBVIOUS
<1> HIDE DEF r, kind, has, parts
<1>5. parts = Len(Pact!Parts(Pact!Expr(m))) /\ has = Len(Pact!Vals(m))
  BY DEF parts, has
<1>6. ASSUME Pact!Eval(m, n) PROVE Pact!Eval(r, p)
  BY <1>1, <1>2, <1>3, <1>4, <1>5, <1>6 DEF PactOps, Pact!Step
<1>7. ASSUME Pact!NextPart(m, n) PROVE Pact!NextPart(r, p)
  BY <1>1, <1>2, <1>3, <1>4, <1>5, <1>7 DEF PactOps, Pact!Step
<1>8. ASSUME Pact!EvalApp(m, n) PROVE Pact!EvalApp(r, p)
  BY <1>1, <1>2, <1>3, <1>4, <1>5, <1>8 DEF PactOps, Pact!Step
<1>9. ASSUME Pact!EvalLet(m, n) PROVE Pact!EvalLet(r, p)
  BY <1>1, <1>2, <1>3, <1>4, <1>5, <1>9 DEF PactOps, Pact!Step
<1>10. ASSUME Pact!EndOfBody(m, n) PROVE Pact!EndOfBody(r, p)
  BY <1>1, <1>2, <1>3, <1>4, <1>5, <1>10 DEF PactOps, Pact!Step
<1>11. ASSUME Pact!EvalIf(m, n) PROVE Pact!EvalIf(r, p)
  BY <1>1, <1>2, <1>3, <1>4, <1>5, <1>11 DEF PactOps, Pact!Step
<1>12. ASSUME Pact!EvalModule(m, n) PROVE Pact!EvalModule(r, p)
  BY <1>1, <1>2, <1>3, <1>4, <1>5, <1>12 DEF PactOps, Pact!Step
<1>13. ASSUME Pact!Acquire(m, n) PROVE Pact!Acquire(r, p)
  BY <1>1, <1>2, <1>3, <1>4, <1>5, <1>13 DEF PactOps, Pact!Step
<1>14. ASSUME Pact!Granted(m, n) PROVE Pact!Granted(r, p)
  BY <1>1, <1>2, <1>3, <1>4, <1>5, <1>14 DEF PactOps, Pact!Step
<1>15. ASSUME Pact!EndOfScope(m, n) PROVE Pact!EndOfScope(r, p)
  BY <1>1, <1>2, <1>3, <1>4, <1>5, <1>15 DEF PactOps, Pact!Step
<1>16. ASSUME Pact!EvalRequireCapability(m, n) PROVE Pact!EvalRequireCapability(r, p)
  BY <1>1, <1>2, <1>3, <1>4, <1>5, <1>16 DEF PactOps, Pact!Step
<1>17. ASSUME Pact!EvalRead(m, n) PROVE Pact!EvalRead(r, p)
  BY <1>1, <1>2, <1>3, <1>4, <1>5, <1>17 DEF PactOps, Pact!Step
<1>18. ASSUME Pact!EvalWrite(m, n) PROVE Pact!EvalWrite(r, p)
  BY <1>1, <1>2, <1>3, <1>4, <1>5, <1>18 DEF PactOps, Pact!Step
<1>19. ASSUME Pact!EvalEnforce(m, n) PROVE Pact!EvalEnforce(r, p)
  BY <1>1, <1>2, <1>3, <1>4, <1>5, <1>19 DEF PactOps, Pact!Step
<1>20. ASSUME Pact!EvalNext(m, n) PROVE Pact!EvalNext(r, p)
  BY <1>1, <1>2, <1>3, <1>4, <1>5, <1>20 DEF PactOps, Pact!Step
<1>21. ASSUME Pact!StartCall(m, n) PROVE Pact!StartCall(r, p)
  BY <1>1, <1>2, <1>3, <1>4, <1>5, <1>21 DEF PactOps, Pact!Step
<1>22. ASSUME Pact!EndOfCode(m, n) PROVE Pact!EndOfCode(r, p)
  BY <1>1, <1>2, <1>3, <1>4, <1>5, <1>22 DEF PactOps, Pact!Step
<1> QED
  BY <1>6, <1>7, <1>8, <1>9, <1>10, <1>11, <1>12, <1>13, <1>14, <1>15, <1>16, <1>17, <1>18, <1>19, <1>20,
     <1>21, <1>22 DEF r

\* A built-in function whose gas was left does not depend on the limit.
LEMMA PactBuiltinRaised ==
  ASSUME NEW m, Metered(m), NEW L \in Nat, NEW f \in Pact!Builtins, NEW args,
         Within(Pact!Builtin(f, m, args), L)
  PROVE  Pact!Builtin(f, Raised(m, L), args) = Raised(Pact!Builtin(f, m, args), L)
<1>1. CASE Pact!Misfits(f, args) # {}
  BY <1>1, PactRaised, Zenon DEF Pact!Builtin
<1>2. CASE Pact!Misfits(f, args) = {}
  <2>1. \A x : Pact!Builtin(f, x, args) = Pact!Apply(f, x, args)
    BY <1>2 DEF Pact!Builtin
  <2>2. CASE f = "hash"
    <3>1. \A x : Pact!Apply(f, x, args) = Pact!HashOf(x, args)
      BY <2>2 DEF Pact!Apply, Pact!Sums, Pact!Decisions, Pact!Texts, Pact!Lists, Pact!Guards
    <3> QED
      BY <2>1, <3>1, PactHashRaised
  <2>3. CASE f # "hash"
    BY <2>1, <2>3, PactApplyRaised
  <2> QED
    BY <2>2, <2>3
<1> QED
  BY <1>1, <1>2

\* Nor do the expressions without parts, ...
LEMMA PactConstructRaised ==
  ASSUME NEW m, NEW L, NEW e, e.kind \in Pact!Simple
  PROVE  Pact!Construct(Raised(m, L), e) = Raised(Pact!Construct(m, e), L)
<1> DEFINE r == Raised(m, L)
<1>1. /\ \A v : Pact!Give(r, v) = Raised(Pact!Give(m, v), L)
      /\ \A name : Pact!Lookup(r, name) = Raised(Pact!Lookup(m, name), L)
  BY PactRaised
<1>2. /\ \A name : Pact!FullName(r, name) = Pact!FullName(m, name)
      /\ r.functions = m.functions /\ r.capabilities = m.capabilities /\ r.tables = m.tables
  BY PactReads, RaisedReads
<1> HIDE DEF r
<1>3. CASE e.kind \in {"literal", "symbol", "lambda", "defschema", "property", "interface"}
  BY <1>1, <1>3 DEF Pact!Construct, r
<1>4. CASE e.kind = "defun"
  <2>1. \A x : Pact!Construct(x, e) = Pact!Define("functions", x, e)
    BY <1>4 DEF Pact!Construct
  <2>2. PICK set : /\ Pact!Define("functions", m, e) = Pact!Give([m EXCEPT !.functions = set], Pact!Unit)
                   /\ Pact!Define("functions", r, e) = Pact!Give([r EXCEPT !.functions = set], Pact!Unit)
    BY <1>2, Zenon DEF Pact!Define
  <2> DEFINE put == [m EXCEPT !.functions = set]
  <2>3. [r EXCEPT !.functions = set] = Raised(put, L)
    BY Zenon DEF Raised, r
  <2> HIDE DEF put
  <2>4. Pact!Give(Raised(put, L), Pact!Unit) = Raised(Pact!Give(put, Pact!Unit), L)
    BY PactRaised
  <2> QED
    BY <2>1, <2>2, <2>3, <2>4 DEF put, r
<1>5. CASE e.kind = "defcap"
  <2>1. \A x : Pact!Construct(x, e) = Pact!Define("capabilities", x, e)
    BY <1>5 DEF Pact!Construct
  <2>2. PICK set : /\ Pact!Define("capabilities", m, e) =
                           Pact!Give([m EXCEPT !.capabilities = set], Pact!Unit)
                   /\ Pact!Define("capabilities", r, e) =
                          Pact!Give([r EXCEPT !.capabilities = set], Pact!Unit)
    BY <1>2, Zenon DEF Pact!Define
  <2> DEFINE put == [m EXCEPT !.capabilities = set]
  <2>3. [r EXCEPT !.capabilities = set] = Raised(put, L)
    BY Zenon DEF Raised, r
  <2> HIDE DEF put
  <2>4. Pact!Give(Raised(put, L), Pact!Unit) = Raised(Pact!Give(put, Pact!Unit), L)
    BY PactRaised
  <2> QED
    BY <2>1, <2>2, <2>3, <2>4 DEF put, r
<1>6. CASE e.kind = "deftable"
  <2>1. PICK set : /\ Pact!Construct(m, e) = Pact!Give([m EXCEPT !.tables = set], Pact!Unit)
                   /\ Pact!Construct(r, e) = Pact!Give([r EXCEPT !.tables = set], Pact!Unit)
    BY <1>2, <1>6, Zenon DEF Pact!Construct
  <2> DEFINE put == [m EXCEPT !.tables = set]
  <2>3. [r EXCEPT !.tables = set] = Raised(put, L)
    BY Zenon DEF Raised, r
  <2> HIDE DEF put
  <2>4. Pact!Give(Raised(put, L), Pact!Unit) = Raised(Pact!Give(put, Pact!Unit), L)
    BY PactRaised
  <2> QED
    BY <2>1, <2>3, <2>4 DEF put, r
<1> QED
  BY <1>3, <1>4, <1>5, <1>6 DEF Pact!Simple

\* ... nor guards, nor what the evaluator does to call itself.
LEMMA PactCallsRaised ==
  ASSUME NEW m, NEW L
  PROVE  LET r == Raised(m, L) IN
         /\ \A v : Pact!VerifyGuard(r, v) = Raised(Pact!VerifyGuard(m, v), L)
         /\ Pact!Bound(r) = Raised(Pact!Bound(m), L)
         /\ \A f : Pact!Call(r, f) = Raised(Pact!Call(m, f), L)
         /\ \A to : Pact!InScope(r, Raised(to, L)) = Raised(Pact!InScope(m, to), L)
<1> DEFINE r == Raised(m, L)
<1>1. /\ \A v : Pact!Give(r, v) = Raised(Pact!Give(m, v), L)
      /\ Pact!Failed(r) = Raised(Pact!Failed(m), L)
  BY PactRaised
<1>2. /\ Pact!Frame(r) = Pact!Frame(m) /\ Pact!Expr(r) = Pact!Expr(m) /\ Pact!Vals(r) = Pact!Vals(m)
      /\ Pact!Key(r) = Pact!Key(m)
      /\ \A guard : Pact!Verified(r, guard) = Pact!Verified(m, guard)
      /\ r.keysets = m.keysets /\ r.env = m.env
  BY PactReads, RaisedReads
<1> HIDE DEF r
<1>3. ASSUME NEW v PROVE Pact!VerifyGuard(r, v) = Raised(Pact!VerifyGuard(m, v), L)
  BY <1>1, <1>2, Zenon DEF Pact!VerifyGuard
<1>4. Pact!Bound(r) = Raised(Pact!Bound(m), L)
  <2>1. CASE ~(Pact!Expr(m).kind = "let" /\ Pact!Vals(m) # <<>>)
    BY <1>2, <2>1 DEF Pact!Bound, r
  <2>2. CASE Pact!Expr(m).kind = "let" /\ Pact!Vals(m) # <<>>
    BY <1>2, <2>2, Zenon DEF Pact!Bound, Raised, r
  <2> QED
    BY <2>1, <2>2
<1>5. ASSUME NEW f PROVE Pact!Call(r, f) = Raised(Pact!Call(m, f), L)
  <2> DEFINE in == [m EXCEPT !.env = Pact!Bind(m.env, f.params, Pact!Vals(m))]
  <2>1. [r EXCEPT !.env = Pact!Bind(m.env, f.params, Pact!Vals(m))] = Raised(in, L)
    BY Zenon DEF Raised, r
  <2>2. Pact!Call(m, f) = IF Len(Pact!Vals(m)) # Len(f.params) THEN Pact!Failed(m) ELSE Pact!Ask(in, f.body)
    BY DEF Pact!Call
  <2>3. Pact!Call(r, f) = IF Len(Pact!Vals(m)) # Len(f.params) THEN Pact!Failed(r)
            ELSE Pact!Ask(Raised(in, L), f.body)
    BY <1>2, <2>1 DEF Pact!Call
  <2> HIDE DEF in
  <2>4. Pact!Ask(Raised(in, L), f.body) = Raised(Pact!Ask(in, f.body), L)
    BY PactRaised
  <2> QED
    BY <1>1, <2>2, <2>3, <2>4
<1>6. ASSUME NEW to PROVE Pact!InScope(r, Raised(to, L)) = Raised(Pact!InScope(m, to), L)
  <2> DEFINE in == [to EXCEPT !.active = Append(to.active, Pact!Key(m))]
             u == Raised(to, L)
  <2>1. u.active = to.active
    BY RaisedReads
  <2>2. [u EXCEPT !.active = Append(to.active, Pact!Key(m))] = Raised(in, L)
    BY Zenon DEF Raised
  <2>3. Pact!InScope(m, to) = Pact!Ask(in, Pact!Expr(m).body)
    BY DEF Pact!InScope
  <2> HIDE DEF u, in
  <2>4. Pact!InScope(r, u) = Pact!Ask(Raised(in, L), Pact!Expr(m).body)
    BY <1>2, <2>1, <2>2 DEF Pact!InScope
  <2>5. Pact!Ask(Raised(in, L), Pact!Expr(m).body) = Raised(Pact!Ask(in, Pact!Expr(m).body), L)
    BY PactRaised
  <2> QED
    BY <2>3, <2>4, <2>5 DEF u
<1> QED
  BY <1>3, <1>4, <1>5, <1>6 DEF r

\* A step of the Pact evaluator that leaves gas is the step it takes with any
\* other limit that has room for it.
LEMMA PactSame ==
  ASSUME NEW m, Metered(m), Pact!Resumes(m) => Len(Pact!Vals(m)) \in Nat, NEW n, Pact!Step(m, n),
         NEW L \in Nat, Within(n, L), NEW p, Pact!Step(Raised(m, L), p)
  PROVE  p = Raised(n, L)
<1> DEFINE r == Raised(m, L)
<1>1. /\ r.todo = m.todo /\ r.frames = m.frames /\ r.code = m.code /\ r.call = m.call
      /\ r.env = m.env /\ r.depth = m.depth /\ r.functions = m.functions
      /\ r.capabilities = m.capabilities /\ r.granted = m.granted /\ r.active = m.active
      /\ r.tables = m.tables /\ r.modules = m.modules
  BY RaisedReads
<1>2. /\ Pact!Frame(r) = Pact!Frame(m) /\ Pact!Expr(r) = Pact!Expr(m) /\ Pact!Vals(r) = Pact!Vals(m)
      /\ Pact!Key(r) = Pact!Key(m)
  BY PactReads
<1>3. /\ Pact!Failed(r) = Raised(Pact!Failed(m), L)
      /\ \A v : Pact!Give(r, v) = Raised(Pact!Give(m, v), L)
      /\ \A e : Pact!Ask(r, e) = Raised(Pact!Ask(m, e), L)
      /\ Pact!Leave(r) = Raised(Pact!Leave(m), L)
  BY PactRaised, Zenon
<1>4. /\ \A v : Pact!VerifyGuard(r, v) = Raised(Pact!VerifyGuard(m, v), L)
      /\ Pact!Bound(r) = Raised(Pact!Bound(m), L)
      /\ \A f : Pact!Call(r, f) = Raised(Pact!Call(m, f), L)
      /\ \A to : Pact!InScope(r, Raised(to, L)) = Raised(Pact!InScope(m, to), L)
  BY PactCallsRaised
<1>5. \A v : Pact!Leave(Pact!Give(r, v)) = Raised(Pact!Leave(Pact!Give(m, v)), L)
  BY <1>3, PactRaised
<1>6. CASE Pact!Eval(m, n)
  <2>1. Pact!Eval(r, p)
    BY <1>6, PactAgain
  <2> DEFINE e == Head(m.todo)
             deeper == [m EXCEPT !.todo = <<>>, !.depth = m.depth + 1]
             charged == Pact!Charge(deeper, Pact!BASE)
             paid == [charged EXCEPT !.steps = charged.steps + 1]
             opened == Pact!Opened(paid, e)
             frame == [e |-> e, env |-> m.env, vals |-> <<>>]
             deeperR == [r EXCEPT !.todo = <<>>, !.depth = m.depth + 1]
             chargedR == Pact!Charge(deeperR, Pact!BASE)
             paidR == [chargedR EXCEPT !.steps = chargedR.steps + 1]
             openedR == Pact!Opened(paidR, e)
  <2>2. n = IF deeper.depth > MAX_RECURSION_DEPTH THEN Pact!Failed(deeper)
            ELSE IF ~Pact!Ok(paid) THEN paid
            ELSE IF ~Pact!Ok(opened) THEN opened
            ELSE IF e.kind \in Pact!Simple THEN Pact!Return(Pact!Construct(paid, e), m.frames)
            ELSE [opened EXCEPT !.frames = Append(opened.frames, frame)]
    BY <1>6 DEF Pact!Eval
  <2>3. p = IF deeperR.depth > MAX_RECURSION_DEPTH THEN Pact!Failed(deeperR)
            ELSE IF ~Pact!Ok(paidR) THEN paidR
            ELSE IF ~Pact!Ok(openedR) THEN openedR
            ELSE IF e.kind \in Pact!Simple THEN Pact!Return(Pact!Construct(paidR, e), m.frames)
            ELSE [openedR EXCEPT !.frames = Append(openedR.frames, frame)]
    BY <1>1, <2>1 DEF Pact!Eval
  <2>4. deeperR = Raised(deeper, L)
    BY Zenon DEF Raised
  <2>5. Metered(deeper)
    BY DEF Metered
  <2>6. Spends(paid, opened)
    <3>1. \A amount : Spends(paid, Pact!Charge(paid, amount))
      BY PactHelpers, Zenon DEF Aside
    <3>2. Spends(paid, paid) /\ \A x : Spends(paid, [paid EXCEPT !.module = x])
      BY PactCalls, SpendsData, Zenon
    <3> HIDE DEF paid
    <3> QED
      BY <3>1, <3>2, Zenon DEF Pact!Opened
  <2>7. /\ Metered(paid) /\ charged.gas = paid.gas
        /\ paid.status = charged.status
    <3>1. Metered(charged)
      BY <2>5, PactHelpers, Zenon DEF Aside, Spends
    <3> HIDE DEF charged
    <3> QED
      BY <3>1 DEF Metered
  <2> HIDE DEF r, deeper, deeperR, opened, openedR, e, frame
  <2>8. CASE deeper.depth > MAX_RECURSION_DEPTH
    <3>1. deeperR.depth = deeper.depth
      BY <2>4, RaisedReads
    <3>2. Pact!Failed(deeperR) = Raised(Pact!Failed(deeper), L)
      BY <2>4, PactRaised
    <3> QED
      BY <2>2, <2>3, <2>8, <3>1, <3>2
  <2>9. CASE ~(deeper.depth > MAX_RECURSION_DEPTH)
    <3> HIDE DEF paid, charged
    <3>1. Pact!Ok(paid) => Spends(opened, n)
      <4>1. e.kind \in Pact!Simple => Spends(paid, Pact!Return(Pact!Construct(paid, e), m.frames))
                /\ opened = paid
        <5> SUFFICES ASSUME e.kind \in Pact!Simple
                     PROVE  Spends(paid, Pact!Return(Pact!Construct(paid, e), m.frames)) /\ opened = paid
          OBVIOUS
        <5> DEFINE made == Pact!Construct(paid, e)
        <5>1. Spends(paid, made)
          BY AsideConstruct DEF Aside
        <5> HIDE DEF made
        <5>2. Spends(paid, Pact!Return(made, m.frames))
          BY <5>1, PactCalls, SpendsTransitive, Zenon
        <5>3. e.kind # "read" /\ e.kind \notin Pact!Writes /\ e.kind # "module"
          BY DEF Pact!Simple, Pact!Writes
        <5>4. opened = paid
          BY <5>3 DEF opened, Pact!Opened
        <5> QED
          BY <5>2, <5>4 DEF made
      <4>2. Spends(opened, opened) /\ Spends(opened,
                [opened EXCEPT !.frames = Append(opened.frames, frame)])
        BY PactCalls, SpendsData, Zenon
      <4> QED
        BY <2>2, <2>9, <4>1, <4>2
    <3>2. ~Pact!Ok(paid) => n = paid
      BY <2>2, <2>9
    <3>3. Spends(paid, n)
      BY <2>6, <3>1, <3>2, PactCalls, SpendsTransitive
    <3>4. Metered(opened)
      BY <2>6, <2>7 DEF Spends
    <3>5. Within(paid, L)
      BY <2>7, <3>3, WithinBefore
    <3>6. Within(charged, L)
      BY <2>7, <3>5 DEF Within
    <3>7. chargedR = Raised(charged, L)
      BY <2>4, <2>5, <3>6, PactCharged DEF charged
    <3>8. chargedR.steps = charged.steps
      BY <3>7, RaisedReads
    <3> HIDE DEF chargedR
    <3>9. paidR = Raised(paid, L)
      BY <3>7, <3>8, Zenon DEF paid, Raised
    <3> HIDE DEF paidR
    <3>10. Pact!Ok(paidR) <=> Pact!Ok(paid)
      BY <3>9, PactReads
    <3>11. ASSUME Pact!Ok(paid) PROVE openedR = Raised(opened, L)
      <4>1. Within(opened, L)
        BY <2>7, <3>1, <3>4, <3>11, WithinBefore
      <4>2. CASE e.kind = "read"
        <5>1. \A x : Pact!Opened(x, e) = Pact!Charge(x, Pact!SLOAD)
          BY <4>2 DEF Pact!Opened, Pact!Writes
        <5> QED
          BY <2>7, <3>9, <4>1, <5>1, PactCharged DEF opened, openedR
      <4>3. CASE e.kind \in Pact!Writes
        <5>1. \A x : Pact!Opened(x, e) = Pact!Charge(x, Pact!SSTORE_SET)
          BY <4>3 DEF Pact!Opened, Pact!Writes
        <5> QED
          BY <2>7, <3>9, <4>1, <5>1, PactCharged DEF opened, openedR
      <4>4. CASE e.kind = "module"
        <5>1. \A x : Pact!Opened(x, e) = [x EXCEPT !.module = e.name]
          BY <4>4 DEF Pact!Opened, Pact!Writes
        <5>2. opened = [paid EXCEPT !.module = e.name] /\ openedR = [paidR EXCEPT !.module = e.name]
          BY <5>1 DEF opened, openedR
        <5> QED
          BY <3>9, <5>2, Zenon DEF Raised
      <4>5. CASE e.kind # "read" /\ e.kind \notin Pact!Writes /\ e.kind # "module"
        BY <3>9, <4>5 DEF opened, openedR, Pact!Opened
      <4> QED
        BY <4>2, <4>3, <4>4, <4>5
    <3>12. deeperR.depth = deeper.depth
      BY <2>4, RaisedReads
    <3>13. CASE ~Pact!Ok(paid)
      BY <2>2, <2>3, <2>9, <3>9, <3>10, <3>12, <3>13
    <3>14. CASE Pact!Ok(paid)
      <4>1. (Pact!Ok(openedR) <=> Pact!Ok(opened)) /\ openedR.frames = opened.frames
        BY <3>11, <3>14, PactReads, RaisedReads
      <4>2. [openedR EXCEPT !.frames = Append(openedR.frames, frame)]
              = Raised([opened EXCEPT !.frames = Append(opened.frames, frame)], L)
        BY <3>11, <3>14, <4>1, Zenon DEF Raised
      <4>3. e.kind \in Pact!Simple =>
              Pact!Return(Pact!Construct(paidR, e), m.frames) =
                  Raised(Pact!Return(Pact!Construct(paid, e), m.frames), L)
        <5> DEFINE made == Pact!Construct(paid, e)
        <5>1. e.kind \in Pact!Simple => Pact!Construct(paidR, e) = Raised(made, L)
          BY <3>9, PactConstructRaised
        <5> HIDE DEF made
        <5>2. Pact!Return(Raised(made, L), m.frames) = Raised(Pact!Return(made, m.frames), L)
          BY PactRaised
        <5> QED
          BY <5>1, <5>2 DEF made
      <4> QED
        BY <2>2, <2>3, <2>9, <3>10, <3>11, <3>12, <3>14, <4>1, <4>2, <4>3
    <3> QED
      BY <3>13, <3>14
  <2> QED
    BY <2>8, <2>9
<1>7. CASE Pact!NextPart(m, n)
  <2>1. Pact!NextPart(r, p)
    BY <1>7, PactAgain, Zenon
  <2> HIDE DEF r
  <2>2. \A e : Pact!Ask(Pact!Bound(r), e) = Raised(Pact!Ask(Pact!Bound(m), e), L)
    BY <1>4, PactRaised
  <2> QED
    BY <1>2, <1>3, <1>7, <2>1, <2>2 DEF Pact!NextPart
<1>8. CASE Pact!EvalApp(m, n)
  <2>1. Pact!EvalApp(r, p)
    BY <1>8, PactAgain, Zenon
  <2> HIDE DEF r
  <2> DEFINE f == Pact!Expr(m).fun[1]
             built == Pact!Builtin(f, m, Pact!Vals(m))
  <2>2. CASE /\ "fun" \in DOMAIN Pact!Expr(m)
             /\ Len(Pact!Expr(m).fun) = 1 /\ f \in Pact!Builtins
    <3>1. n = Pact!Leave(built) /\ p = Pact!Leave(Pact!Builtin(f, r, Pact!Vals(m)))
      BY <1>2, <1>8, <2>1, <2>2 DEF Pact!EvalApp
    <3>2. Spends(m, built)
      BY <2>2, AsideBuiltin, Zenon DEF Aside
    <3> HIDE DEF f, built
    <3>3. Metered(built) /\ Spends(built, n)
      BY <3>1, <3>2, PactCalls DEF Spends
    <3>4. Within(built, L)
      BY <3>3, WithinBefore
    <3>5. Pact!Builtin(f, r, Pact!Vals(m)) = Raised(built, L)
      BY <2>2, <3>4, PactBuiltinRaised DEF built, r
    <3> QED
      BY <3>1, <3>5, PactRaised
  <2>3. CASE ~(/\ "fun" \in DOMAIN Pact!Expr(m)
               /\ Len(Pact!Expr(m).fun) = 1 /\ f \in Pact!Builtins)
    BY <1>1, <1>2, <1>3, <1>4, <1>8, <2>1, <2>3 DEF Pact!EvalApp
  <2> QED
    BY <2>2, <2>3
<1>9. CASE Pact!EvalLet(m, n)
  <2>1. Pact!EvalLet(r, p)
    BY <1>9, PactAgain, Zenon
  <2> HIDE DEF r
  <2>2. \A e : Pact!Ask(Pact!Bound(r), e) = Raised(Pact!Ask(Pact!Bound(m), e), L)
    BY <1>4, PactRaised
  <2> QED
    BY <1>2, <1>9, <2>1, <2>2 DEF Pact!EvalLet
<1>10. CASE Pact!EndOfBody(m, n)
  <2>1. Pact!EndOfBody(r, p)
    BY <1>10, PactAgain, Zenon
  <2> HIDE DEF r
  <2> DEFINE out == [m EXCEPT !.env = Pact!Frame(m).env]
  <2>2. [r EXCEPT !.env = Pact!Frame(m).env] = Raised(out, L)
    BY Zenon DEF Raised, r
  <2>3. n = Pact!Leave(out) /\ p = Pact!Leave(Raised(out, L))
    BY <1>2, <1>10, <2>1, <2>2 DEF Pact!EndOfBody
  <2> HIDE DEF out
  <2> QED
    BY <2>3, PactRaised
<1>11. CASE Pact!EvalIf(m, n)
  <2>1. Pact!EvalIf(r, p)
    BY <1>11, PactAgain, Zenon
  <2> HIDE DEF r
  <2>2. /\ Pact!Completes(r, {"if"}) <=> Pact!Completes(m, {"if"})
        /\ Pact!Returns(r, {"if"}, 1) <=> Pact!Returns(m, {"if"}, 1)
    BY PactReads DEF r
  <2>3. ~(Pact!Completes(m, {"if"}) /\ Pact!Returns(m, {"if"}, 1))
    BY DEF Pact!Completes, Pact!Returns
  <2> QED
    BY <1>2, <1>3, <1>11, <2>1, <2>2, <2>3 DEF Pact!EvalIf
<1>12. CASE Pact!EvalModule(m, n)
  <2>1. Pact!EvalModule(r, p)
    BY <1>12, PactAgain, Zenon
  <2> HIDE DEF r
  <2> DEFINE modules == m.modules \cup {Pact!Expr(m).name}
             out == [m EXCEPT !.module = <<>>, !.modules = modules]
  <2>2. [r EXCEPT !.module = <<>>, !.modules = modules] = Raised(out, L)
    <3> HIDE DEF modules
    <3> QED
      BY Zenon DEF Raised, r
  <2>3. /\ n = Pact!Leave(Pact!Give(out, Pact!Str(Pact!Expr(m).name)))
        /\ p = Pact!Leave(Pact!Give(Raised(out, L), Pact!Str(Pact!Expr(m).name)))
    BY <1>1, <1>2, <1>12, <2>1, <2>2 DEF Pact!EvalModule
  <2> HIDE DEF out
  <2> QED
    BY <2>3, PactRaised
<1>13. CASE Pact!Acquire(m, n)
  <2>1. Pact!Acquire(r, p)
    BY <1>13, PactAgain, Zenon
  <2> HIDE DEF r
  <2> DEFINE known == ~(Pact!Key(m) \in m.granted \/ Pact!Expr(m).name \notin DOMAIN m.capabilities)
             Granted(frames) == [frames EXCEPT ![Len(frames)].vals = Append(@, Pact!Unit)]
             to == [m EXCEPT !.frames = Granted(m.frames)]
             c == m.capabilities[Pact!Expr(m).name]
             env == Pact!Bind(m.env, c.params, Pact!Vals(m))
             in == [m EXCEPT !.env = env]
  <2>2. CASE ~known
    <3>1. n = Pact!InScope(m, to)
      BY <1>13, <2>2 DEF Pact!Acquire
    <3>2. p = Pact!InScope(r, [r EXCEPT !.frames = Granted(r.frames)])
      BY <1>1, <1>2, <2>1, <2>2 DEF Pact!Acquire
    <3> HIDE DEF Granted
    <3>3. [r EXCEPT !.frames = Granted(r.frames)] = Raised(to, L)
      BY <1>1, Zenon DEF Raised, r
    <3> HIDE DEF to
    <3> QED
      BY <1>4, <3>1, <3>2, <3>3
  <2>3. CASE known
    <3>1. n = Pact!Ask(in, c.body)
      BY <1>13, <2>3 DEF Pact!Acquire
    <3>2. p = Pact!Ask([r EXCEPT !.env = env], c.body)
      BY <1>1, <1>2, <2>1, <2>3 DEF Pact!Acquire
    <3> HIDE DEF env
    <3>3. [r EXCEPT !.env = env] = Raised(in, L)
      BY Zenon DEF Raised, r
    <3> HIDE DEF in, c
    <3>4. Pact!Ask(Raised(in, L), c.body) = Raised(Pact!Ask(in, c.body), L)
      BY PactRaised
    <3> QED
      BY <3>1, <3>2, <3>3, <3>4
  <2> QED
    BY <2>2, <2>3
<1>14. CASE Pact!Granted(m, n)
  <2>1. Pact!Granted(r, p)
    BY <1>14, PactAgain, Zenon
  <2> HIDE DEF r
  <2> DEFINE env == Pact!Frame(m).env
             granted == m.granted \cup {Pact!Key(m)}
             to == [m EXCEPT !.env = env, !.granted = granted]
  <2>2. n = Pact!InScope(m, to)
    BY <1>14 DEF Pact!Granted
  <2>3. p = Pact!InScope(r, [r EXCEPT !.env = env, !.granted = granted])
    BY <1>1, <1>2, <2>1 DEF Pact!Granted
  <2> HIDE DEF env, granted
  <2>4. [r EXCEPT !.env = env, !.granted = granted] = Raised(to, L)
    BY Zenon DEF Raised, r
  <2> HIDE DEF to
  <2> QED
    BY <1>4, <2>2, <2>3, <2>4
<1>15. CASE Pact!EndOfScope(m, n)
  <2>1. Pact!EndOfScope(r, p)
    BY <1>15, PactAgain, Zenon
  <2> HIDE DEF r
  <2> DEFINE active == Pact!Front(m.active)
             out == [m EXCEPT !.active = active]
  <2>2. n = Pact!Leave(out)
    BY <1>15 DEF Pact!EndOfScope
  <2>3. p = Pact!Leave([r EXCEPT !.active = active])
    BY <1>1, <2>1 DEF Pact!EndOfScope
  <2> HIDE DEF active
  <2>4. [r EXCEPT !.active = active] = Raised(out, L)
    BY Zenon DEF Raised, r
  <2> HIDE DEF out
  <2> QED
    BY <2>2, <2>3, <2>4, PactRaised, ZenonT(60)
<1>16. CASE Pact!EvalRequireCapability(m, n)
  <2>1. Pact!EvalRequireCapability(r, p)
    BY <1>16, PactAgain, Zenon
  <2> HIDE DEF r
  <2> QED
    BY <1>1, <1>2, <1>3, <1>4, <1>5, <1>16, <2>1, Zenon DEF Pact!EvalRequireCapability
<1>17. CASE Pact!EvalRead(m, n)
  <2>1. Pact!EvalRead(r, p)
    BY <1>17, PactAgain, Zenon
  <2> HIDE DEF r
  <2> QED
    BY <1>1, <1>2, <1>3, <1>4, <1>5, <1>17, <2>1 DEF Pact!EvalRead
<1>18. CASE Pact!EvalWrite(m, n)
  <2>1. Pact!EvalWrite(r, p)
    BY <1>18, PactAgain, Zenon
  <2> HIDE DEF r
  <2> DEFINE row == Pact!Vals(m)[2]
             table == Pact!Expr(m).table
             refused == \/ ~Pact!Is(row, "object") \/ table \notin DOMAIN m.tables
                        \/ Pact!Cardinality(DOMAIN m.tables[table]) >= MAX_TABLE_SIZE
  <2>2. CASE refused
    BY <1>1, <1>2, <1>3, <1>18, <2>1, <2>2 DEF Pact!EvalWrite
  <2>3. CASE ~refused
    <3>1. PICK tables : /\ n = Pact!Leave(Pact!Give([m EXCEPT !.tables = tables], Pact!Unit))
                        /\ p = Pact!Leave(Pact!Give([r EXCEPT !.tables = tables], Pact!Unit))
      BY <1>1, <1>2, <1>18, <2>1, <2>3, Zenon DEF Pact!EvalWrite
    <3> DEFINE out == [m EXCEPT !.tables = tables]
    <3>2. [r EXCEPT !.tables = tables] = Raised(out, L)
      BY Zenon DEF Raised, r
    <3> HIDE DEF out
    <3> QED
      BY <3>1, <3>2, PactRaised DEF out
  <2> QED
    BY <2>2, <2>3
<1>19. CASE Pact!EvalEnforce(m, n)
  <2>1. Pact!EvalEnforce(r, p)
    BY <1>19, PactAgain, Zenon
  <2> HIDE DEF r
  <2>2. /\ Pact!Completes(r, {"enforce"}) <=> Pact!Completes(m, {"enforce"})
        /\ Pact!Completes(r, {"enforce-guard"}) <=> Pact!Completes(m, {"enforce-guard"})
    BY PactReads DEF r
  <2>3. ~(Pact!Completes(m, {"enforce"}) /\ Pact!Completes(m, {"enforce-guard"}))
    BY DEF Pact!Completes
  <2>4. \A v : Pact!Leave(Pact!VerifyGuard(r, v)) = Raised(Pact!Leave(Pact!VerifyGuard(m, v)), L)
    BY <1>4, PactRaised
  <2> QED
    BY <1>2, <1>3, <1>5, <1>19, <2>1, <2>2, <2>3, <2>4, Zenon DEF Pact!EvalEnforce
<1>20. CASE Pact!EvalNext(m, n)
  <2>1. Pact!EvalNext(r, p)
    BY <1>20, PactAgain, Zenon
  <2> HIDE DEF r
  <2> DEFINE out == [m EXCEPT !.code = Tail(m.code)]
  <2>2. [r EXCEPT !.code = Tail(m.code)] = Raised(out, L)
    BY Zenon DEF Raised, r
  <2>3. n = Pact!Ask(out, Head(m.code)) /\ p = Pact!Ask(Raised(out, L), Head(m.code))
    BY <1>1, <1>20, <2>1, <2>2 DEF Pact!EvalNext
  <2> HIDE DEF out
  <2> QED
    BY <2>3, PactRaised
<1>21. CASE Pact!StartCall(m, n)
  <2>1. Pact!StartCall(r, p)
    BY <1>21, PactAgain, Zenon
  <2> HIDE DEF r
  <2>2. [r EXCEPT !.code = m.call, !.call = <<>>] = Raised([m EXCEPT !.code = m.call, !.call = <<>>], L)
    BY Zenon DEF Raised, r
  <2> QED
    BY <1>1, <1>3, <1>21, <2>1, <2>2 DEF Pact!StartCall
<1>22. CASE Pact!EndOfCode(m, n)
  <2>1. Pact!EndOfCode(r, p)
    BY <1>22, PactAgain, Zenon
  <2> HIDE DEF r
  <2>2. n = [m EXCEPT !.status = "done"] /\ p = [r EXCEPT !.status = "done"]
    BY <1>22, <2>1 DEF Pact!EndOfCode
  <2> QED
    BY <2>2, Zenon DEF Raised, r
<1> QED
  BY <1>6, <1>7, <1>8, <1>9, <1>10, <1>11, <1>12, <1>13, <1>14, <1>15, <1>16, <1>17, <1>18, <1>19, <1>20,
     <1>21, <1>22 DEF Pact!Step

-----------------------------------------------------------------------------
\* A step of one of the interpreters
Steps(m, n) == Avm!Step(m, n) \/ Sbf!Step(m, n) \/ Kaspa!Step(m, n) \/ Pact!Step(m, n)

\* A machine such as a run with the limit goes through
Fit(m, limit) ==
  /\ Paid(m, limit)
  /\ limit \in Nat
  /\ m.lang \in {"avm", "sbf", "kaspa", "pact"}
  /\ m.lang = "avm" => m.code \in Seq(0..255)
  /\ m.lang = "pact" /\ Pact!Resumes(m) => Len(Pact!Vals(m)) \in Nat

\* Only a machine that runs takes a step, and its language says which.
LEMMA StepsRun ==
  ASSUME NEW m, NEW n
  PROVE  /\ Avm!Step(m, n) => m.lang = "avm" /\ m.status = "running"
         /\ Sbf!Step(m, n) => m.lang = "sbf" /\ m.status = "running"
         /\ Kaspa!Step(m, n) => m.lang = "kaspa" /\ m.status = "running"
         /\ Pact!Step(m, n) => m.lang = "pact" /\ m.status = "running"
<1>1. Avm!Step(m, n) => Avm!Running(m)
  BY AvmFetches DEF Avm!EndOfCode
<1>2. Sbf!Step(m, n) => Sbf!Running(m)
  BY SbfFetches DEF Sbf!EndOfCode
<1>3. Kaspa!Step(m, n) => Kaspa!Running(m)
  BY KaspaFetches, Zenon DEF Kaspa!EndOfScript
<1> QED
  BY <1>1, <1>2, <1>3, PactRuns DEF Avm!Running, Sbf!Running, Kaspa!Running

\* The gas used only grows.
LEMMA StepGrows ==
  ASSUME NEW m, NEW limit, Fit(m, limit), NEW n, Steps(m, n)
  PROVE  n.gas.used >= m.gas.used
<1>1. Avm!Step(m, n) => Avm!Size(m) \in Nat
  <2>1. Avm!Step(m, n) => m.code \in Seq(0..255)
    BY StepsRun DEF Fit
  <2> QED
    BY <2>1 DEF Avm!Size
<1>2. Paid(m, limit)
  BY DEF Fit
<1> QED
  BY <1>1, <1>2, AvmStepPaid, SbfStepPaid, KaspaStepPaid, PactStepPaid DEF Steps

\* A step that leaves gas is the step the same machine takes with any other
\* limit that has room for it.
LEMMA StepSame ==
  ASSUME NEW m, NEW limit, Fit(m, limit), NEW n, Steps(m, n),
         NEW L \in Nat, Within(n, L), NEW p, Steps(Raised(m, L), p)
  PROVE  p = Raised(n, L)
<1>1. Raised(m, L).lang = m.lang
  BY RaisedReads
<1>2. Metered(m)
  BY DEF Fit, Paid
<1>3. CASE m.lang = "avm"
  <2>1. Avm!Step(m, n) /\ Avm!Step(Raised(m, L), p)
    BY <1>1, <1>3, StepsRun DEF Steps
  <2>2. Avm!Size(m) \in Nat
    BY <1>3 DEF Fit, Avm!Size
  <2> QED
    BY <1>2, <2>1, <2>2, AvmSame
<1>4. CASE m.lang = "sbf"
  <2>1. Sbf!Step(m, n) /\ Sbf!Step(Raised(m, L), p)
    BY <1>1, <1>4, StepsRun DEF Steps
  <2> QED
    BY <1>2, <2>1, SbfSame
<1>5. CASE m.lang = "kaspa"
  <2>1. Kaspa!Step(m, n) /\ Kaspa!Step(Raised(m, L), p)
    BY <1>1, <1>5, StepsRun DEF Steps
  <2> QED
    BY <1>2, <2>1, KaspaSame
<1>6. CASE m.lang = "pact"
  <2>1. Pact!Step(m, n) /\ Pact!Step(Raised(m, L), p)
    BY <1>1, <1>6, StepsRun DEF Steps
  <2>2. Pact!Resumes(m) => Len(Pact!Vals(m)) \in Nat
    BY <1>6 DEF Fit
  <2> QED
    BY <1>2, <2>1, <2>2, PactSame
<1> QED
  BY <1>3, <1>4, <1>5, <1>6 DEF Fit

\* Every machine the executor runs is such a machine.
LEMMA FitAlways == Spec => [](vm # Idle => Fit(vm, job.limit))
<1> DEFINE Scopes == vm.lang = "pact" /\ vm.status = "running" => ScopeInv(vm)
<1>1. MeterInv /\ Scopes => (vm # Idle => Fit(vm, job.limit))
  <2> SUFFICES ASSUME MeterInv, Scopes, vm # Idle PROVE Fit(vm, job.limit)
    OBVIOUS
  <2>1. job.limit \in Nat
    BY DEF MeterInv, Paid, Metered, Sound, GasMeter
  <2>2. Pact!Resumes(vm) => vm.status = "running"
    BY DEF Pact!Resumes, Pact!Running
  <2>3. vm.lang = "pact" /\ Pact!Resumes(vm) => Len(Pact!Vals(vm)) \in Nat
    BY <2>2, Resumed
  <2> QED
    BY <2>1, <2>3 DEF MeterInv, Fit
<1> QED
  BY <1>1, MeterAlways, ScopeAlways, PTL

-----------------------------------------------------------------------------
\* The machines tr[0], ..., tr[k] of a run of a contract, step by step
Run(c, kind, limit, tr, k) ==
  /\ k \in Nat
  /\ TypeOfContract(c) # "none"
  /\ tr[0] = Start(c, kind, limit)
  /\ \A i \in 0..k : Fit(tr[i], limit)
  /\ \A i \in 0..(k - 1) : Steps(tr[i], tr[i + 1])

\* What the executor returns of a machine that ended
Outcome(kind, limit, m) ==
  Result(kind, limit, Succeeds(m), m.gas.used, Answer(m), IF m.status = "done" THEN m.logs ELSE <<>>)

\* A result is that of a run of the contract that came to its end.
Ended(c, res) ==
  \E tr, k : /\ Run(c, res.kind, res.limit, tr, k)
             /\ tr[k].status \in {"done", "failed"}
             /\ res = Outcome(res.kind, res.limit, tr[k])

\* A call and an estimate of it start alike.
LEMMA StartRaised ==
  ASSUME NEW c, c \in Contract, TypeOfContract(c) # "none", NEW l, NEW E
  PROVE  Start(c, "execute", E) = Raised(Start(c, "estimate", l), E)
<1>1. TypeOfContract(c) \in {"avm", "sbf", "kaspa", "pact"}
  BY ContractAssumption DEF TypeOfContract
<1>2. Avm!Boot(c.code, E) = Raised(Avm!Boot(c.code, l), E)
  BY DEF Avm!Boot, Avm!NewMeter, Raised
<1>3. Sbf!Boot(c.code, E) = Raised(Sbf!Boot(c.code, l), E)
  <2> DEFINE code == IF c.code = <<>> THEN Sbf!Trivial ELSE c.code
             regs == [r \in Sbf!Register |-> IF r = 10 THEN STACK_SIZE ELSE 0]
             heap == [a \in 0..(HEAP_SIZE - 1) |-> 0]
             m(x) == [lang |-> "sbf", code |-> code, pc |-> 0, regs |-> regs, heap |-> heap, calls |-> <<>>,
                      logs |-> <<>>, gas |-> x, steps |-> 0, status |-> "running"]
  <2>1. Sbf!Boot(c.code, E) = m(Sbf!NewMeter(E)) /\ Sbf!Boot(c.code, l) = m(Sbf!NewMeter(l))
    BY DEF Sbf!Boot
  <2> HIDE DEF code, regs, heap
  <2>2. m(Sbf!NewMeter(E)) = Raised(m(Sbf!NewMeter(l)), E)
    BY DEF Raised, Sbf!NewMeter
  <2> HIDE DEF m
  <2> QED
    BY <2>1, <2>2
<1>4. Kaspa!Boot(c.input, c.code, E) = Raised(Kaspa!Boot(c.input, c.code, l), E)
  BY DEF Kaspa!Boot, Kaspa!NewMeter, Raised
<1>5. Pact!Boot(c.code, c.input, E) = Raised(Pact!Boot(c.code, c.input, l), E)
  <2> DEFINE code == IF c.code = Garbled THEN <<>> ELSE c.code
             status == IF c.code = Garbled THEN "failed" ELSE "running"
             val == Pact!Unit
             input == c.input
             nil == <<>>
             no == {}
             m(x) == [lang |-> "pact", code |-> code, call |-> input, val |-> val,
                      env |-> nil, functions |-> nil, capabilities |-> nil, active |-> nil, granted |-> no,
                      tables |-> nil, keysets |-> nil, modules |-> no, module |-> nil, depth |-> 0,
                      logs |-> nil, todo |-> nil, frames |-> nil, gas |-> x, steps |-> 0, status |-> status]
  <2>1. Pact!Boot(c.code, c.input, E) = m(Pact!NewMeter(E))
            /\ Pact!Boot(c.code, c.input, l) = m(Pact!NewMeter(l))
    BY DEF Pact!Boot
  <2>2. ASSUME NEW x, NEW y PROVE m(y) = [m(x) EXCEPT !.gas = y] /\ m(x).gas = x
    <3> HIDE DEF code, status, val, input, nil, no
    <3> QED
      OBVIOUS
  <2> HIDE DEF m
  <2>3. Pact!NewMeter(E) = [Pact!NewMeter(l) EXCEPT !.limit = E]
    BY DEF Pact!NewMeter
  <2> QED
    BY <2>1, <2>2, <2>3 DEF Raised
<1>6. CASE TypeOfContract(c) = "avm"
  BY <1>2, <1>6 DEF Start
<1>7. CASE TypeOfContract(c) = "sbf"
  BY <1>3, <1>7 DEF Start
<1>8. CASE TypeOfContract(c) = "kaspa"
  BY <1>4, <1>8 DEF Start
<1>9. CASE TypeOfContract(c) = "pact"
  BY <1>5, <1>9 DEF Start
<1> QED
  BY <1>1, <1>6, <1>7, <1>8, <1>9

\* The gas a run has used is at no time more than at its end.
LEMMA RunGrows ==
  ASSUME NEW c, NEW kind, NEW limit, NEW tr, NEW k, Run(c, kind, limit, tr, k)
  PROVE  \A i \in 0..k : tr[i].gas.used <= tr[k].gas.used
<1>1. \A i \in 0..k : tr[i].gas.used \in Nat
  BY DEF Run, Fit, Paid, Metered, Sound, GasMeter
<1>2. \A i \in 0..(k - 1) : tr[i].gas.used <= tr[i + 1].gas.used
  <2> SUFFICES ASSUME NEW i \in 0..(k - 1) PROVE tr[i].gas.used <= tr[i + 1].gas.used
    OBVIOUS
  <2>1. k \in Nat /\ i \in 0..k /\ i + 1 \in 0..k
    BY DEF Run
  <2>2. Fit(tr[i], limit) /\ Steps(tr[i], tr[i + 1])
    BY <2>1 DEF Run
  <2> QED
    BY <1>1, <2>1, <2>2, StepGrows
<1>3. k \in Nat
  BY DEF Run
<1> DEFINE S == {d \in Nat : d <= k => tr[k - d].gas.used <= tr[k].gas.used}
<1>4. 0 \in S
  <2>1. k - 0 = k /\ tr[k].gas.used <= tr[k].gas.used
    BY <1>1, <1>3
  <2> QED
    BY <2>1
<1>5. \A d \in S : d + 1 \in S
  <2> SUFFICES ASSUME NEW d \in Nat, d <= k => tr[k - d].gas.used <= tr[k].gas.used, d + 1 <= k
               PROVE  tr[k - (d + 1)].gas.used <= tr[k].gas.used
    OBVIOUS
  <2> DEFINE i == k - (d + 1)
  <2>1. i \in 0..(k - 1) /\ i + 1 = k - d /\ i + 1 \in 0..k /\ k \in 0..k /\ i \in 0..k
    BY <1>3
  <2>2. tr[i + 1].gas.used <= tr[k].gas.used
    BY <1>3, <2>1
  <2> HIDE DEF i
  <2>3. tr[i].gas.used <= tr[k].gas.used
    BY <1>1, <1>2, <2>1, <2>2
  <2> QED
    BY <2>3 DEF i
<1>6. S = Nat
  <2> HIDE DEF S
  <2>1. Nat \subseteq S
    BY <1>4, <1>5, Induction
  <2> QED
    BY <2>1 DEF S
<1>7. ASSUME NEW i \in 0..k PROVE tr[i].gas.used <= tr[k].gas.used
  <2>1. k - i \in Nat /\ k - i <= k /\ k - (k - i) = i
    BY <1>3
  <2>2. k - i \in S
    BY <1>6, <2>1
  <2> QED
    BY <2>1, <2>2
<1> QED
  BY <1>7

\* Two runs of a contract, one to estimate it and one with a limit that has room
\* for the gas the first one used, go through the same machines.
LEMMA RunsAgree ==
  ASSUME NEW c, c \in Contract, NEW l, NEW E \in Nat, NEW tr, NEW k, NEW ts, NEW j,
         Run(c, "estimate", l, tr, k), Run(c, "execute", E, ts, j),
         tr[k].gas.used < l, tr[k].gas.used <= E
  PROVE  \A i \in Nat : i <= k /\ i <= j => ts[i] = Raised(tr[i], E)
<1> DEFINE S == {i \in Nat : i <= k /\ i <= j => ts[i] = Raised(tr[i], E)}
<1>1. 0 \in S
  BY StartRaised DEF Run
<1>2. \A i \in S : i + 1 \in S
  <2> SUFFICES ASSUME NEW i \in Nat, i <= k /\ i <= j => ts[i] = Raised(tr[i], E), i + 1 <= k, i + 1 <= j
               PROVE  ts[i + 1] = Raised(tr[i + 1], E)
    OBVIOUS
  <2>1. /\ k \in Nat /\ j \in Nat /\ i \in 0..(k - 1) /\ i \in 0..(j - 1) /\ i \in 0..k /\ i + 1 \in 0..k
        /\ k \in 0..k
    BY DEF Run
  <2>2. ts[i] = Raised(tr[i], E)
    BY <2>1
  <2>3. Fit(tr[i], l) /\ Fit(tr[i + 1], l) /\ Fit(tr[k], l) /\ Steps(tr[i], tr[i + 1])
            /\ Steps(ts[i], ts[i + 1])
    BY <2>1 DEF Run
  <2>4. tr[i + 1].gas.used <= tr[k].gas.used
    BY <2>1, RunGrows
  <2>5. Within(tr[i + 1], E)
    BY <2>3, <2>4, SMTT(30) DEF Fit, Paid, Metered, Sound, GasMeter, Within
  <2> QED
    BY <2>2, <2>3, <2>5, StepSame
<1> HIDE DEF S
<1>3. Nat \subseteq S
  BY <1>1, <1>2, Induction
<1> QED
  BY <1>3 DEF S

\* A machine with another limit returns the same.
LEMMA OutcomeRaised ==
  ASSUME NEW m, NEW l, Fit(m, l), NEW E, NEW kind, NEW limit
  PROVE  Outcome(kind, limit, Raised(m, E)) = Outcome(kind, limit, m)
<1> DEFINE r == Raised(m, E)
<1>1. r.lang = m.lang /\ r.status = m.status /\ r.logs = m.logs /\ r.stack = m.stack /\ r.regs = m.regs
          /\ r.val = m.val
  BY RaisedReads
<1>2. r.gas.used = m.gas.used
  <2>1. r.gas = [m.gas EXCEPT !.limit = E] /\ m.gas \in GasMeter
    BY DEF Raised, Fit, Paid, Metered, Sound
  <2> QED
    BY <2>1 DEF GasMeter
<1> HIDE DEF r
<1>3. Succeeds(r) = Succeeds(m) /\ Answer(r) = Answer(m)
  <2>1. CASE m.lang = "avm"
    BY <1>1, <2>1 DEF Succeeds, Answer, Avm!Succeeds, Avm!Answer
  <2>2. CASE m.lang = "sbf"
    BY <1>1, <2>2 DEF Succeeds, Answer, Sbf!Succeeds, Sbf!Answer
  <2>3. CASE m.lang = "kaspa"
    BY <1>1, <2>3 DEF Succeeds, Answer, Kaspa!Succeeds, Kaspa!Answer
  <2>4. CASE m.lang = "pact"
    BY <1>1, <2>4 DEF Succeeds, Answer, Pact!Succeeds, Pact!Answer
  <2> QED
    BY <2>1, <2>2, <2>3, <2>4 DEF Fit
<1> QED
  BY <1>1, <1>2, <1>3 DEF Outcome, r

\* So the result of an estimate is that of a call with as much gas as it used.
LEMMA EndsAgree ==
  ASSUME NEW c, c \in Contract, NEW a, NEW b, Ended(c, a), Ended(c, b),
         a.kind = "estimate", b.kind = "execute", a.used < a.limit, a.used <= b.limit
  PROVE  [b EXCEPT !.kind = "estimate", !.limit = a.limit] = a
<1>1. PICK tr, k : /\ Run(c, "estimate", a.limit, tr, k)
                   /\ tr[k].status \in {"done", "failed"}
                   /\ a = Outcome("estimate", a.limit, tr[k])
  BY DEF Ended
<1>2. PICK ts, j : /\ Run(c, "execute", b.limit, ts, j)
                   /\ ts[j].status \in {"done", "failed"}
                   /\ b = Outcome("execute", b.limit, ts[j])
  BY DEF Ended
<1>3. a.used = tr[k].gas.used
  BY <1>1 DEF Outcome, Result
<1>4. k \in Nat /\ j \in Nat /\ Fit(tr[k], a.limit) /\ Fit(ts[j], b.limit)
  BY <1>1, <1>2 DEF Run
<1>5. b.limit \in Nat
  BY <1>4 DEF Fit
<1>6. \A i \in Nat : i <= k /\ i <= j => ts[i] = Raised(tr[i], b.limit)
  BY <1>1, <1>2, <1>3, <1>5, RunsAgree
<1>7. ~(k < j)
  <2> SUFFICES ASSUME k < j PROVE FALSE
    OBVIOUS
  <2>1. ts[k] = Raised(tr[k], b.limit) /\ k \in 0..(j - 1)
    BY <1>4, <1>6
  <2>2. Steps(ts[k], ts[k + 1])
    BY <1>2, <2>1 DEF Run
  <2>3. ts[k].status = "running"
    BY <2>2, StepsRun DEF Steps
  <2>4. ts[k].status = tr[k].status
    BY <2>1, RaisedReads
  <2> QED
    BY <1>1, <2>3, <2>4
<1>8. ~(j < k)
  <2> SUFFICES ASSUME j < k PROVE FALSE
    OBVIOUS
  <2>1. ts[j] = Raised(tr[j], b.limit) /\ j \in 0..(k - 1)
    BY <1>4, <1>6
  <2>2. Steps(tr[j], tr[j + 1])
    BY <1>1, <2>1 DEF Run
  <2>3. tr[j].status = "running"
    BY <2>2, StepsRun DEF Steps
  <2>4. ts[j].status = tr[j].status
    BY <2>1, RaisedReads
  <2> QED
    BY <1>2, <2>3, <2>4
<1>9. j = k /\ ts[k] = Raised(tr[k], b.limit)
  BY <1>4, <1>6, <1>7, <1>8
<1>10. b = Outcome("execute", b.limit, tr[k])
  BY <1>2, <1>4, <1>9, OutcomeRaised
<1> DEFINE m == tr[k]
           logs == IF m.status = "done" THEN m.logs ELSE <<>>
<1>11. /\ a = Result("estimate", a.limit, Succeeds(m), m.gas.used, Answer(m), logs)
       /\ b = Result("execute", b.limit, Succeeds(m), m.gas.used, Answer(m), logs)
  BY <1>1, <1>10 DEF Outcome
<1> HIDE DEF m, logs
<1> DEFINE success == Succeeds(m)
           data == Answer(m)
           used == m.gas.used
<1>12. /\ a = Result("estimate", a.limit, success, used, data, logs)
       /\ b = Result("execute", b.limit, success, used, data, logs)
  BY <1>11
<1> HIDE DEF success, data, used
<1> DEFINE R(kind, limit, ran) == [kind |-> kind, limit |-> limit, success |-> success, used |-> used,
                                   data |-> data, logs |-> logs, deployed |-> ran]
<1>13. ("estimate" = "deploy" /\ success) = FALSE /\ ("execute" = "deploy" /\ success) = FALSE
  OBVIOUS
<1>14. a = R("estimate", a.limit, FALSE) /\ b = R("execute", b.limit, FALSE)
  BY <1>12, <1>13, Zenon DEF Result
<1> HIDE DEF logs
<1>15. ASSUME NEW o, NEW y
       PROVE  [o EXCEPT !.kind = "estimate", !.limit = y] =
           [[o EXCEPT !.kind = "estimate"] EXCEPT !.limit = y]
  OBVIOUS
<1> DEFINE Limited(o, y) == [o EXCEPT !.limit = y]
           Called(o) == [o EXCEPT !.kind = "estimate"]
           given == b.limit
           asked == a.limit
<1>16. /\ Called(R("execute", given, FALSE)) = R("estimate", given, FALSE)
       /\ Limited(R("estimate", given, FALSE), asked) = R("estimate", asked, FALSE)
  <2> DEFINE estimating == "estimate"
             executing == "execute"
             no == FALSE
  <2> HIDE DEF given, asked, estimating, executing, no
  <2>1. [R(executing, given, no) EXCEPT !.kind = estimating] = R(estimating, given, no)
    OBVIOUS
  <2>2. [R(estimating, given, no) EXCEPT !.limit = asked] = R(estimating, asked, no)
    OBVIOUS
  <2> HIDE DEF R
  <2> QED
    BY <2>1, <2>2 DEF estimating, executing, no
<1>17. a = R("estimate", asked, FALSE) /\ b = R("execute", given, FALSE)
  BY <1>14
<1>18. [b EXCEPT !.kind = "estimate", !.limit = asked] = Limited(Called(b), asked)
  BY <1>15
<1> HIDE DEF R, Limited, Called, given
<1>19. Limited(Called(b), asked) = a
  BY <1>16, <1>17, Zenon
<1> QED
  BY <1>18, <1>19

-----------------------------------------------------------------------------
\* The call that runs is a run of the contract so far, and what the client keeps
\* of its estimate and of its call are results of runs of it.
RunInv ==
  /\ vm # Idle => /\ \E tr, k : Run(contract, job.kind, job.limit, tr, k) /\ tr[k] = vm
                  /\ job.kind = "estimate" => job.limit = ESTIMATE_LIMIT
  /\ estimate # None =>
       /\ estimate.gas = (estimate.run.used * 11) \div 10
       /\ estimate.run.used # 0 => /\ Ended(contract, estimate.run)
                                   /\ estimate.run.kind = "estimate"
                                   /\ estimate.run.limit = ESTIMATE_LIMIT
  /\ last # None /\ last.kind = "execute" /\ last.used # 0 => Ended(contract, last)

\* What a call returns: the result of a run, or nothing was used.
LEMMA ReturnRun ==
  ASSUME RunInv, NEW r, Return(r),
         r.used # 0 /\ r.kind \in {"estimate", "execute"} => Ended(contract, r),
         r.kind = "estimate" => r.limit = ESTIMATE_LIMIT
  PROVE  RunInv'
<1>1. vm' = Idle /\ contract' = contract
  BY DEF Return
<1>2. CASE r.kind = "estimate"
  <2>1. estimate' = [kind |-> "estimate", gas |-> (r.used * 11) \div 10, run |-> r] /\ last' = last
    BY <1>2 DEF Return, Estimated
  <2>2. estimate'.gas = (r.used * 11) \div 10 /\ estimate'.run = r
    BY <2>1
  <2> QED
    BY <1>1, <1>2, <2>1, <2>2 DEF RunInv
<1>3. CASE r.kind # "estimate"
  BY <1>1, <1>3 DEF Return, RunInv
<1> QED
  BY <1>2, <1>3

\* The run begins, or it is refused.
LEMMA BeginRun ==
  ASSUME RunInv, NEW kind, NEW limit, NEW depth, Begin(kind, limit, depth),
         kind = "estimate" => limit = ESTIMATE_LIMIT, (vm # Idle => Fit(vm, job.limit))'
  PROVE  RunInv'
<1>1. CASE Return(Refused(kind, limit))
  BY <1>1, ReturnRun DEF Refused, Result
<1>2. CASE ~Return(Refused(kind, limit))
  <2>1. /\ vm' = Start(contract, kind, limit) /\ job' = [kind |-> kind, limit |-> limit]
        /\ TypeOfContract(contract) # "none" /\ UNCHANGED <<contract, estimate, last>>
    BY <1>2 DEF Begin
  <2>2. job'.kind = kind /\ job'.limit = limit
    BY <2>1
  <2>3. ASSUME vm' # Idle PROVE \E tr, k : Run(contract, kind, limit, tr, k) /\ tr[k] = vm'
    <3> DEFINE tr == [i \in 0..0 |-> vm']
    <3>1. tr[0] = vm' /\ 0..0 = {0} /\ 0..(0 - 1) = {} /\ 0 \in Nat
      OBVIOUS
    <3>2. Fit(vm', limit)
      BY <2>2, <2>3
    <3> HIDE DEF tr
    <3>3. Run(contract, kind, limit, tr, 0)
      BY <2>1, <3>1, <3>2 DEF Run
    <3> QED
      BY <3>1, <3>3
  <2> QED
    BY <2>1, <2>2, <2>3 DEF RunInv
<1> QED
  BY <1>1, <1>2

\* A run goes on.
LEMMA StepRun ==
  ASSUME NEW c, NEW kind, NEW limit, NEW tr, NEW k, Run(c, kind, limit, tr, k),
         NEW n, Steps(tr[k], n), Fit(n, limit)
  PROVE  \E ts, j : Run(c, kind, limit, ts, j) /\ ts[j] = n
<1> DEFINE ts == [i \in 0..(k + 1) |-> IF i = k + 1 THEN n ELSE tr[i]]
<1>1. k \in Nat /\ TypeOfContract(c) # "none" /\ tr[0] = Start(c, kind, limit)
  BY DEF Run
<1>2. ts[k + 1] = n /\ \A i \in 0..k : ts[i] = tr[i]
  BY <1>1
<1> HIDE DEF ts
<1>3. k + 1 \in Nat /\ 0 \in 0..k
  BY <1>1
<1>4. ASSUME NEW i \in 0..(k + 1) PROVE Fit(ts[i], limit)
  <2>1. CASE i \in 0..k
    BY <1>2, <2>1 DEF Run
  <2>2. CASE i = k + 1
    BY <1>2, <2>2
  <2> QED
    BY <1>1, <2>1, <2>2
<1>5. ASSUME NEW i \in 0..((k + 1) - 1) PROVE Steps(ts[i], ts[i + 1])
  <2>1. CASE i \in 0..(k - 1)
    <3>1. i \in 0..k /\ i + 1 \in 0..k
      BY <1>1, <2>1
    <3> QED
      BY <1>2, <2>1, <3>1 DEF Run
  <2>2. CASE i = k
    <3>1. k \in 0..k
      BY <1>1
    <3> QED
      BY <1>2, <2>2, <3>1
  <2> QED
    BY <1>1, <2>1, <2>2
<1>6. Run(c, kind, limit, ts, k + 1)
  BY <1>1, <1>2, <1>3, <1>4, <1>5 DEF Run
<1> QED
  BY <1>2, <1>6

\* In every state
LEMMA RunAlways == Spec => []RunInv
<1> DEFINE Fits == vm # Idle => Fit(vm, job.limit)
<1>1. Init => RunInv
  BY DEF Init, RunInv
<1>2. RunInv /\ Fits /\ Fits' /\ [Next]_vars => RunInv'
  <2> SUFFICES ASSUME RunInv, Fits, Fits', [Next]_vars PROVE RunInv'
    OBVIOUS
  <2>1. CASE UNCHANGED vars
    BY <2>1 DEF vars, RunInv
  <2>2. ASSUME NEW limit, NEW depth, Execute(limit, depth) PROVE RunInv'
    BY <2>2, BeginRun DEF Execute
  <2>3. ASSUME NEW limit, Deploy(limit) PROVE RunInv'
    BY <2>3, BeginRun DEF Deploy
  <2>4. ASSUME NEW depth, EstimateGas(depth) PROVE RunInv'
    BY <2>4, BeginRun DEF EstimateGas
  <2>5. ASSUME NEW size, NEW limit, CallPrecompile(size, limit) PROVE RunInv'
    <3> DEFINE cost == PrecompileCost(contract.address, size)
               r == Result("precompile", limit, cost <= limit /\ (contract.address = 5 => size >= 32),
                           IF cost <= limit THEN cost ELSE limit, <<>>, <<>>)
    <3>1. Return(r) /\ r.kind = "precompile"
      BY <2>5 DEF CallPrecompile, Result
    <3> HIDE DEF r
    <3> QED
      BY <3>1, ReturnRun
  <2>6. ASSUME Steps(vm, vm'), UNCHANGED <<contract, job, estimate, last>> PROVE RunInv'
    <3>1. vm # Idle
      BY <2>6, StepsRun DEF Steps, Idle
    <3>2. PICK tr, k : Run(contract, job.kind, job.limit, tr, k) /\ tr[k] = vm
      BY <3>1 DEF RunInv
    <3>3. vm' # Idle => Fit(vm', job.limit)
      BY <2>6
    <3>4. vm' # Idle => \E ts, j : Run(contract, job.kind, job.limit, ts, j) /\ ts[j] = vm'
      BY <2>6, <3>2, <3>3, StepRun
    <3> QED
      BY <2>6, <3>1, <3>4 DEF RunInv
  <2>7. CASE Finish
    <3>1. vm # Idle
      BY <2>7 DEF Finish, Idle
    <3>2. PICK tr, k : Run(contract, job.kind, job.limit, tr, k) /\ tr[k] = vm
      BY <3>1 DEF RunInv
    <3> DEFINE r == Outcome(job.kind, job.limit, vm)
    <3>3. Return(r) /\ vm.status \in {"done", "failed"}
      BY <2>7 DEF Finish, Outcome
    <3>4. r.kind = job.kind /\ r.limit = job.limit
      BY DEF Outcome, Result
    <3> HIDE DEF r
    <3>5. Ended(contract, r)
      BY <3>2, <3>3, <3>4 DEF Ended, r
    <3>6. r.kind = "estimate" => r.limit = ESTIMATE_LIMIT
      BY <3>1, <3>4 DEF RunInv
    <3> QED
      BY <3>3, <3>5, <3>6, ReturnRun
  <2> QED
    BY <2>1, <2>2, <2>3, <2>4, <2>5, <2>6, <2>7
       DEF Next, Over, StepAvm, StepSbf, StepKaspa, StepPact, Steps
<1> QED
  BY <1>1, <1>2, FitAlways, PTL DEF Spec

\* An estimate that did not run out of gas itself is enough: a call of the same
\* contract with that limit returns what the estimating run returned, success or
\* failure, answer, logs and gas used, for every contract of every interpreter
\* and every limit of an estimate (executor.rs:220).
THEOREM EstimateIsEnough == Spec => []EstimateSuffices
<1>1. MeterInv /\ RunInv => EstimateSuffices
  <2> SUFFICES ASSUME MeterInv, RunInv, last # None, last.kind = "execute", estimate # None,
                      last.limit = estimate.gas, last.used > 0,
                      estimate.run.used \in 1..(ESTIMATE_LIMIT - 1)
               PROVE  [last EXCEPT !.kind = "estimate", !.limit = ESTIMATE_LIMIT] = estimate.run
    BY DEF EstimateSuffices
  <2> DEFINE used == estimate.run.used
  <2>1. used \in Nat /\ used # 0 /\ used < ESTIMATE_LIMIT /\ last.used # 0
    BY LimitAssumption
  <2>2. /\ Ended(contract, estimate.run) /\ Ended(contract, last) /\ contract \in Contract
        /\ estimate.run.kind = "estimate" /\ estimate.run.limit = ESTIMATE_LIMIT
        /\ last.limit = (used * 11) \div 10
    BY <2>1 DEF RunInv, MeterInv
  <2>3. used <= (used * 11) \div 10
    <3> HIDE DEF used
    <3> QED
      BY <2>1
  <2> QED
    BY <2>1, <2>2, <2>3, EndsAgree, ZenonT(60)
<1> QED
  BY <1>1, MeterAlways, RunAlways, PTL

-----------------------------------------------------------------------------
\* A flattened sequence is put together from the left.
LEMMA FlattenSteps ==
  ASSUME NEW ss, Len(ss) \in Nat \ {0}
  PROVE  \E flat : /\ flat[1] = ss[1]
                   /\ \A j, k \in 1..Len(ss) : k = j + 1 => flat[k] = flat[j] \o ss[k]
                   /\ Avm!FlattenSeq(ss) = flat[Len(ss)]
<1> DEFINE Def(f, n) == f = [i \in 1..n |-> IF i = 1 THEN ss[i] ELSE f[i - 1] \o ss[i]]
           flat == CHOOSE f : Def(f, Len(ss))
<1>1. \A n \in Nat : \E f : Def(f, n)
  <2> DEFINE P == {n \in Nat : \E f : Def(f, n)}
  <2>1. 0 \in P
    <3> DEFINE g == [k \in 1..0 |-> ss[k]]
    <3>1. Def(g, 0)
      OBVIOUS
    <3> QED
      BY <3>1, Zenon
  <2>2. ASSUME NEW n \in Nat, n \in P PROVE n + 1 \in P
    <3>1. PICK f : Def(f, n)
      BY <2>2, Zenon
    <3> DEFINE g == [k \in 1..(n + 1) |-> IF k = n + 1 THEN IF k = 1 THEN ss[k] ELSE f[n] \o ss[k] ELSE f[k]]
    <3>2. \A k \in 1..n : f[k] = IF k = 1 THEN ss[k] ELSE f[k - 1] \o ss[k]
      BY <3>1, Zenon
    <3>3. ASSUME NEW k \in 1..(n + 1) PROVE g[k] = IF k = 1 THEN ss[k] ELSE g[k - 1] \o ss[k]
      <4>1. k # 1 => g[k - 1] = f[k - 1]
        OBVIOUS
      <4>2. k # n + 1 => g[k] = f[k] /\ k \in 1..n
        OBVIOUS
      <4>3. k = n + 1 /\ k # 1 => g[k] = f[k - 1] \o ss[k]
        <5>1. k = n + 1 => k - 1 = n
          OBVIOUS
        <5>2. k = n + 1 /\ k # 1 => g[k] = f[n] \o ss[k]
          OBVIOUS
        <5> QED
          BY <5>1, <5>2
      <4>4. k = n + 1 /\ k = 1 => g[k] = ss[k]
        OBVIOUS
      <4> HIDE DEF g
      <4> QED
        BY <3>2, <4>1, <4>2, <4>3, <4>4
    <3>4. g = [k \in 1..(n + 1) |-> g[k]]
      OBVIOUS
    <3> HIDE DEF g
    <3>5. Def(g, n + 1)
      BY <3>3, <3>4
    <3> HIDE DEF Def
    <3> QED
      BY <3>5
  <2> HIDE DEF P
  <2>3. \A n \in Nat : n \in P
    BY <2>1, <2>2, Induction
  <2> QED
    BY <2>3, Zenon DEF P
<1>2. Def(flat, Len(ss))
  <2>1. \E f : Def(f, Len(ss))
    BY <1>1
  <2> HIDE DEF Def
  <2> QED
    BY <2>1
<1> HIDE DEF flat
<1>3. flat[1] = ss[1] /\ \A j, k \in 1..Len(ss) : k = j + 1 => flat[k] = flat[j] \o ss[k]
  <2>1. \A k \in 1..Len(ss) : flat[k] = IF k = 1 THEN ss[k] ELSE flat[k - 1] \o ss[k]
    BY <1>2, Zenon
  <2>2. ASSUME NEW j \in 1..Len(ss), NEW k \in 1..Len(ss), k = j + 1 PROVE flat[k] = flat[j] \o ss[k]
    <3>1. k # 1 /\ k - 1 = j
      BY <2>2
    <3> QED
      BY <2>1, <3>1
  <2>3. flat[1] = ss[1]
    <3>1. 1 \in 1..Len(ss)
      OBVIOUS
    <3> QED
      BY <2>1, <3>1
  <2> HIDE DEF Def
  <2> QED
    BY <2>2, <2>3, Zenon
<1>4. Avm!FlattenSeq(ss) = flat[Len(ss)]
  BY DEF Avm!FlattenSeq, flat
<1> HIDE DEF Def
<1> QED
  BY <1>3, <1>4

\* Each of the sequences stands in the flattened one behind those before it.
LEMMA Layout ==
  ASSUME NEW T, NEW ss \in Seq(Seq(T)), ss # <<>>
  PROVE  /\ Avm!FlattenSeq(ss) \in Seq(T)
         /\ \E off :
              /\ off[0] = 0 /\ off[Len(ss)] = Len(Avm!FlattenSeq(ss))
              /\ \A i \in 1..Len(ss) :
                   /\ off[i - 1] \in Nat /\ off[i] = off[i - 1] + Len(ss[i])
                   /\ \A j \in 1..Len(ss[i]) : Avm!FlattenSeq(ss)[off[i - 1] + j] = ss[i][j]
<1>1. Len(ss) \in Nat \ {0} /\ \A i \in 1..Len(ss) : ss[i] \in Seq(T)
  OBVIOUS
<1>2. PICK flat : /\ flat[1] = ss[1]
                  /\ \A j, k \in 1..Len(ss) : k = j + 1 => flat[k] = flat[j] \o ss[k]
                  /\ Avm!FlattenSeq(ss) = flat[Len(ss)]
  BY <1>1, FlattenSteps, Zenon
<1> DEFINE off == [i \in 0..Len(ss) |-> IF i = 0 THEN 0 ELSE Len(flat[i])]
           Laid(k) == /\ flat[k] \in Seq(T)
                      /\ \A i \in 1..k :
                           /\ off[i - 1] \in Nat /\ off[i] = off[i - 1] + Len(ss[i]) /\ off[i] <= Len(flat[k])
                           /\ \A j \in 1..Len(ss[i]) : flat[k][off[i - 1] + j] = ss[i][j]
           S == {n \in Nat : n + 1 <= Len(ss) => Laid(n + 1)}
<1>3. 0 \in S
  <2>1. flat[1] \in Seq(T) /\ off[0] = 0 /\ off[1] = Len(ss[1]) /\ Len(ss[1]) \in Nat /\ flat[1] = ss[1]
    BY <1>1, <1>2
  <2> HIDE DEF off
  <2>2. ASSUME NEW i \in 1..1
        PROVE  /\ off[i - 1] \in Nat /\ off[i] = off[i - 1] + Len(ss[i]) /\ off[i] <= Len(flat[1])
               /\ \A j \in 1..Len(ss[i]) : flat[1][off[i - 1] + j] = ss[i][j]
    <3>1. i = 1 /\ i - 1 = 0
      OBVIOUS
    <3> QED
      BY <2>1, <3>1
  <2>4. Laid(1)
    BY <2>1, <2>2
  <2> HIDE DEF Laid
  <2>3. Laid(0 + 1)
    BY <2>4
  <2> QED
    BY <2>3
<1>4. ASSUME NEW n \in Nat, n \in S PROVE n + 1 \in S
  <2> DEFINE k == n + 1
  <2> SUFFICES ASSUME k + 1 <= Len(ss) PROVE Laid(k + 1)
    <3> HIDE DEF Laid
    <3> QED
      OBVIOUS
  <2>1. Laid(k) /\ k \in 1..Len(ss) /\ k + 1 \in 1..Len(ss)
    <3> HIDE DEF Laid
    <3> QED
      BY <1>1, <1>4
  <2>2. /\ flat[k + 1] = flat[k] \o ss[k + 1] /\ flat[k] \in Seq(T) /\ ss[k + 1] \in Seq(T)
    BY <1>1, <1>2, <2>1
  <2>3. /\ flat[k + 1] \in Seq(T) /\ Len(flat[k + 1]) = Len(flat[k]) + Len(ss[k + 1])
        /\ Len(flat[k]) \in Nat /\ Len(ss[k + 1]) \in Nat /\ Len(flat[k + 1]) \in Nat
        /\ \A x \in 1..Len(flat[k]) : flat[k + 1][x] = flat[k][x]
        /\ \A x \in 1..Len(ss[k + 1]) : flat[k + 1][Len(flat[k]) + x] = ss[k + 1][x]
    <3> DEFINE a == flat[k]
               b == ss[k + 1]
               c == flat[k + 1]
    <3>1. c = a \o b /\ a \in Seq(T) /\ b \in Seq(T)
      BY <2>2
    <3> HIDE DEF a, b, c
    <3>2. /\ c \in Seq(T) /\ Len(c) = Len(a) + Len(b) /\ Len(a) \in Nat /\ Len(b) \in Nat /\ Len(c) \in Nat
          /\ \A x \in 1..Len(a) : c[x] = a[x]
          /\ \A x \in 1..Len(b) : c[Len(a) + x] = b[x]
      BY <3>1
    <3> QED
      BY <3>2 DEF a, b, c
  <2>4. off[k] = Len(flat[k]) /\ off[k + 1] = Len(flat[k + 1])
    BY <2>1
  <2> HIDE DEF off
  <2>5. ASSUME NEW i \in 1..k
        PROVE  /\ off[i - 1] \in Nat /\ off[i] = off[i - 1] + Len(ss[i]) /\ off[i] <= Len(flat[k + 1])
               /\ \A j \in 1..Len(ss[i]) : flat[k + 1][off[i - 1] + j] = ss[i][j]
    <3>1. /\ off[i - 1] \in Nat /\ off[i] = off[i - 1] + Len(ss[i]) /\ off[i] <= Len(flat[k])
          /\ \A j \in 1..Len(ss[i]) : flat[k][off[i - 1] + j] = ss[i][j]
      BY <2>1
    <3>2. Len(ss[i]) \in Nat
      BY <1>1, <2>1
    <3> HIDE DEF k
    <3> DEFINE long == Len(flat[k])
               longer == Len(flat[k + 1])
               more == Len(ss[k + 1])
    <3>5. long \in Nat /\ longer \in Nat /\ more \in Nat /\ longer = long + more
      BY <2>3
    <3> HIDE DEF long, longer, more
    <3>0. long \in Nat /\ longer \in Nat /\ long <= longer
      BY <3>5
    <3>3. off[i] \in Nat /\ off[i] <= longer
      <4>1. off[i] \in Nat /\ off[i] <= long
        BY <3>1, <3>2 DEF long
      <4> QED
        BY <3>0, <4>1
    <3>4. ASSUME NEW j \in 1..Len(ss[i]) PROVE off[i - 1] + j \in 1..Len(flat[k])
      <4> DEFINE first == off[i - 1]
                 size == Len(ss[i])
      <4>2. first \in Nat /\ size \in Nat /\ off[i] = first + size /\ off[i] <= long /\ j \in 1..size
        BY <3>1, <3>2 DEF long
      <4> HIDE DEF first, size
      <4>3. first + j \in 1..long
        BY <3>5, <4>2
      <4>1. off[i - 1] + j \in 1..long
        BY <4>3 DEF first
      <4> QED
        BY <4>1 DEF long
    <3> QED
      BY <2>3, <3>1, <3>3, <3>4 DEF longer
  <2>6. (k + 1) - 1 = k
    OBVIOUS
  <2> HIDE DEF k
  <2>7. \A i \in 1..(k + 1) : i \in 1..k \/ i = k + 1
    BY <2>1
  <2>8. /\ off[k] \in Nat /\ off[k + 1] = off[k] + Len(ss[k + 1]) /\ off[k + 1] <= Len(flat[k + 1])
        /\ \A j \in 1..Len(ss[k + 1]) : flat[k + 1][off[k] + j] = ss[k + 1][j]
    BY <2>3, <2>4
  <2> QED
    BY <2>3, <2>5, <2>6, <2>7, <2>8
<1> HIDE DEF S
<1>5. \A n \in Nat : n \in S
  BY <1>3, <1>4, Induction
<1>6. Laid(Len(ss))
  <2>1. Len(ss) - 1 \in Nat /\ (Len(ss) - 1) + 1 = Len(ss)
    BY <1>1
  <2>2. Len(ss) - 1 \in S
    BY <1>5, <2>1
  <2> HIDE DEF Laid
  <2> QED
    BY <2>1, <2>2 DEF S
<1>7. off[0] = 0 /\ off[Len(ss)] = Len(flat[Len(ss)])
  BY <1>1
<1> HIDE DEF off
<1>8. Avm!FlattenSeq(ss) \in Seq(T)
  BY <1>2, <1>6
<1>9. /\ off[0] = 0 /\ off[Len(ss)] = Len(Avm!FlattenSeq(ss))
      /\ \A i \in 1..Len(ss) :
           /\ off[i - 1] \in Nat /\ off[i] = off[i - 1] + Len(ss[i])
           /\ \A j \in 1..Len(ss[i]) : Avm!FlattenSeq(ss)[off[i - 1] + j] = ss[i][j]
  <2>1. Avm!FlattenSeq(ss) = flat[Len(ss)]
    BY <1>2
  <2>2. \A i \in 1..Len(ss) :
          /\ off[i - 1] \in Nat /\ off[i] = off[i - 1] + Len(ss[i])
          /\ \A j \in 1..Len(ss[i]) : flat[Len(ss)][off[i - 1] + j] = ss[i][j]
    BY <1>6
  <2> HIDE DEF Laid
  <2> QED
    BY <1>7, <2>1, <2>2, Zenon
<1> HIDE DEF Laid, S
<1> QED
  BY <1>8, <1>9, Zenon

\* A literal below 128 is one byte.
LEMMA SmallVaruint ==
  ASSUME NEW v \in 0..(U64 - 1), v < 128
  PROVE  Avm!Varuint[v] = <<v>>
<1> DEFINE Def(f, n) == f = [k \in 0..n |-> IF k < 128 THEN <<k>> ELSE <<128 + (k % 128)>> \o f[k \div 128]]
           varuint == CHOOSE f : Def(f, U64 - 1)
<1>1. \A n \in Nat : \E f : Def(f, n)
  <2> DEFINE P == {n \in Nat : \E f : Def(f, n)}
  <2>1. 0 \in P
    <3> DEFINE g == [k \in 0..0 |-> <<k>>]
    <3>1. Def(g, 0)
      OBVIOUS
    <3> QED
      BY <3>1, Zenon
  <2>2. ASSUME NEW n \in Nat, n \in P PROVE n + 1 \in P
    <3>1. PICK f : Def(f, n)
      BY <2>2
    <3> DEFINE Entry(k) == IF k < 128 THEN <<k>> ELSE <<128 + (k % 128)>> \o f[k \div 128]
               g == [k \in 0..(n + 1) |-> IF k = n + 1 THEN Entry(k) ELSE f[k]]
    <3>2. ASSUME NEW k \in 0..(n + 1), ~(k < 128) PROVE k \div 128 \in 0..n /\ k \div 128 # n + 1
      OBVIOUS
    <3>3. \A k \in 0..(n + 1) : g[k] = IF k < 128 THEN <<k>> ELSE <<128 + (k % 128)>> \o g[k \div 128]
      <4> SUFFICES ASSUME NEW k \in 0..(n + 1)
                   PROVE  g[k] = IF k < 128 THEN <<k>> ELSE <<128 + (k % 128)>> \o g[k \div 128]
        OBVIOUS
      <4>1. ~(k < 128) => g[k \div 128] = f[k \div 128]
        BY <3>2
      <4>2. k # n + 1 => g[k] = Entry(k)
        <5>1. k # n + 1 => g[k] = f[k] /\ k \in 0..n
          OBVIOUS
        <5> HIDE DEF g
        <5> QED
          BY <3>1, <5>1
      <4>3. k = n + 1 => g[k] = Entry(k)
        OBVIOUS
      <4> HIDE DEF g
      <4> QED
        BY <4>1, <4>2, <4>3
    <3>4. g = [k \in 0..(n + 1) |-> g[k]]
      OBVIOUS
    <3> HIDE DEF g
    <3>5. Def(g, n + 1)
      BY <3>3, <3>4
    <3> HIDE DEF Def
    <3> QED
      BY <3>5
  <2> HIDE DEF P
  <2>3. \A n \in Nat : n \in P
    BY <2>1, <2>2, Induction
  <2> QED
    BY <2>3, Zenon DEF P
<1>2. Def(varuint, U64 - 1)
  <2>1. U64 - 1 \in Nat
    BY AvmAssumption
  <2>2. \E f : Def(f, U64 - 1)
    BY <1>1, <2>1
  <2> HIDE DEF Def
  <2> QED
    BY <2>2
<1>3. Avm!Varuint = varuint
  BY DEF Avm!Varuint
<1> HIDE DEF varuint
<1> QED
  BY <1>2, <1>3

-----------------------------------------------------------------------------
\* Not a literal of more than one byte
Small(line) == line[1] = "int" => line[2] < 128

\* The bytes of a line: a block of one constant and a read of constant 0, or an opcode
LEMMA LineCode ==
  ASSUME NEW line \in Avm!Line, Small(line)
  PROVE  LET code == Avm!CompileLine(line) IN
         /\ code \in Seq(Nat)
         /\ line[1] = "int" => /\ Len(code) = 5 /\ code[1] = 32 /\ code[2] = 1 /\ code[3] \in 0..127
                               /\ code[4] = 34 /\ code[5] = 0
         /\ line[1] # "int" => /\ line[1] \in {"plus", "minus", "div", "times", "return"}
                               /\ Len(code) = 1 /\ code[1] = Avm!OpcodeOf[line[1]]
<1>1. CASE line[1] = "int"
  <2>1. line[2] \in 0..(U64 - 1) /\ line[2] < 128
    BY <1>1 DEF Avm!Line, Avm!OpcodeOf, Small
  <2>2. Avm!CompileLine(line) = <<32, 1>> \o <<line[2]>> \o <<34, 0>>
    BY <1>1, <2>1, SmallVaruint DEF Avm!CompileLine
  <2> DEFINE v == line[2]
  <2>3. v \in Nat
    BY <2>1
  <2> HIDE DEF v
  <2> DEFINE block == <<32, 1>> \o <<v>>
             read == <<34, 0>>
             code == block \o read
  <2>4. <<32, 1>> \in Seq(Nat) /\ <<v>> \in Seq(Nat) /\ <<34, 0>> \in Seq(Nat)
    BY <2>3
  <2>5. block \in Seq(Nat) /\ Len(block) = 3 /\ block[1] = 32 /\ block[2] = 1 /\ block[3] = v
    BY <2>4
  <2>8. read \in Seq(Nat) /\ Len(read) = 2 /\ read[1] = 34 /\ read[2] = 0
    OBVIOUS
  <2> HIDE DEF block, read
  <2>6. /\ code \in Seq(Nat) /\ Len(code) = 5 /\ code[1] = 32 /\ code[2] = 1 /\ code[3] = v
        /\ code[4] = 34 /\ code[5] = 0
    <3>1. /\ code \in Seq(Nat) /\ Len(code) = Len(block) + Len(read)
          /\ \A i \in 1..Len(block) : code[i] = block[i]
          /\ \A i \in 1..Len(read) : code[Len(block) + i] = read[i]
      <4>1. block \in Seq(Nat) /\ read \in Seq(Nat)
        BY <2>5, <2>8
      <4> QED
        BY <4>1
    <3> HIDE DEF code
    <3>2. 1 \in 1..3 /\ 2 \in 1..3 /\ 3 \in 1..3 /\ 1 \in 1..2 /\ 2 \in 1..2 /\ 3 + 1 = 4 /\ 3 + 2 = 5
      OBVIOUS
    <3>3. code[1] = block[1] /\ code[2] = block[2] /\ code[3] = block[3]
      BY <2>5, <3>1, <3>2, Zenon
    <3>4. code[3 + 1] = read[1] /\ code[3 + 2] = read[2]
      BY <2>5, <2>8, <3>1, <3>2, Zenon
    <3>5. code[4] = read[1] /\ code[5] = read[2]
      BY <3>2, <3>4, Zenon
    <3> QED
      BY <2>5, <2>8, <3>1, <3>3, <3>5
  <2>7. v \in 0..127 /\ Avm!CompileLine(line) = code
    BY <2>1, <2>2 DEF v, block, read
  <2> HIDE DEF code
  <2> QED
    BY <1>1, <2>6, <2>7
<1>2. CASE line[1] # "int"
  <2>1. line[1] \in {"plus", "minus", "div", "times", "return"}
    BY <1>2 DEF Avm!Line, Avm!OpcodeOf
  <2>2. Avm!CompileLine(line) = <<Avm!OpcodeOf[line[1]]>> /\ Avm!OpcodeOf[line[1]] \in Nat
    BY <1>2, <2>1 DEF Avm!CompileLine, Avm!OpcodeOf
  <2> QED
    BY <1>2, <2>1, <2>2
<1> QED
  BY <1>1, <1>2

\* Where each line of a source stands in its code: off[i] is the pc behind i lines.
Placed(code, source, off) ==
  /\ code[1] = 6 /\ off[0] = 1 /\ off[Len(source)] = Len(code)
  /\ \A i \in 1..Len(source) :
       /\ off[i - 1] \in Nat /\ off[i] \in Nat /\ off[i] <= Len(code)
       /\ source[i][1] = "int" =>
            /\ off[i] = off[i - 1] + 5
            /\ code[off[i - 1] + 1] = 32 /\ code[off[i - 1] + 2] = 1 /\ code[off[i - 1] + 3] \in 0..127
            /\ code[off[i - 1] + 4] = 34 /\ code[off[i - 1] + 5] = 0
       /\ source[i][1] # "int" =>
            /\ source[i][1] \in {"plus", "minus", "div", "times", "return"}
            /\ off[i] = off[i - 1] + 1
            /\ code[off[i - 1] + 1] = Avm!OpcodeOf[source[i][1]]

\* In the code of a source every line has its place.
LEMMA SourcePlaced ==
  ASSUME NEW source \in Seq(Avm!Line), source # <<>>, \A i \in DOMAIN source : Small(source[i])
  PROVE  \E off : Placed(Avm!Compile(source), source, off)
<1> DEFINE ss == [i \in DOMAIN source |-> Avm!CompileLine(source[i])]
           flat == Avm!FlattenSeq(ss)
           code == Avm!Compile(source)
<1>1. Len(source) \in Nat \ {0} /\ DOMAIN source = 1..Len(source)
          /\ \A i \in 1..Len(source) : source[i] \in Avm!Line
  OBVIOUS
<1>2. \A i \in 1..Len(source) : ss[i] = Avm!CompileLine(source[i]) /\ ss[i] \in Seq(Nat)
  BY <1>1, LineCode
<1>3. ss \in Seq(Seq(Nat)) /\ Len(ss) = Len(source) /\ ss # <<>>
  <2>1. ss = [i \in 1..Len(source) |-> ss[i]]
    BY <1>1
  <2> HIDE DEF ss
  <2> QED
    BY <1>1, <1>2, <2>1
<1> HIDE DEF ss
<1>4. PICK at : /\ at[0] = 0 /\ at[Len(ss)] = Len(flat)
                /\ \A i \in 1..Len(ss) :
                     /\ at[i - 1] \in Nat /\ at[i] = at[i - 1] + Len(ss[i])
                     /\ \A j \in 1..Len(ss[i]) : flat[at[i - 1] + j] = ss[i][j]
  BY <1>3, Layout, Zenon
<1>5. flat \in Seq(Nat)
  BY <1>3, Layout
<1>6. code = <<6>> \o flat
  BY DEF Avm!Compile, ss
<1> HIDE DEF flat, code
<1>7. /\ code[1] = 6 /\ Len(code) = Len(flat) + 1 /\ Len(flat) \in Nat
      /\ \A x \in 1..Len(flat) : code[x + 1] = flat[x]
  BY <1>5, <1>6
<1> DEFINE off == [i \in 0..Len(source) |-> at[i] + 1]
<1>8. off[0] = 1 /\ off[Len(source)] = Len(code)
  BY <1>1, <1>3, <1>4, <1>7
<1>9. \A i \in 1..Len(source) : at[i - 1] \in Nat /\ at[i] \in Nat /\ at[i] <= Len(flat)
  <2> DEFINE S == {d \in Nat : d < Len(source) => at[Len(source) - d] <= Len(flat)}
  <2>1. \A i \in 1..Len(source) : at[i - 1] \in Nat /\ at[i] \in Nat /\ at[i - 1] <= at[i]
    <3> SUFFICES ASSUME NEW i \in 1..Len(source)
            PROVE at[i - 1] \in Nat /\ at[i] \in Nat /\ at[i - 1] <= at[i]
      OBVIOUS
    <3>1. Len(ss[i]) \in Nat
      BY <1>2
    <3> QED
      BY <1>3, <1>4, <3>1
  <2>2. 0 \in S
    BY <1>1, <1>3, <1>4, <1>7
  <2>3. ASSUME NEW d \in Nat, d \in S PROVE d + 1 \in S
    <3> SUFFICES ASSUME d + 1 < Len(source) PROVE at[Len(source) - (d + 1)] <= Len(flat)
      OBVIOUS
    <3>1. Len(source) - d \in 1..Len(source) /\ (Len(source) - d) - 1 = Len(source) - (d + 1)
          /\ (Len(source) - d) - 1 \in 1..Len(source)
      BY <1>1
    <3>2. at[Len(source) - d] <= Len(flat)
      BY <1>1, <2>3
    <3> DEFINE x == Len(source) - d
    <3>3. at[x - 1] <= at[x] /\ at[x] \in Nat /\ at[x - 1] \in Nat /\ Len(flat) \in Nat
      BY <1>7, <2>1, <3>1
    <3> HIDE DEF x
    <3>4. at[x - 1] <= Len(flat)
      BY <3>2, <3>3 DEF x
    <3> QED
      BY <3>1, <3>4 DEF x
  <2> HIDE DEF S
  <2>4. \A d \in Nat : d \in S
    BY <2>2, <2>3, Induction
  <2> SUFFICES ASSUME NEW i \in 1..Len(source) PROVE at[i] <= Len(flat)
    BY <2>1
  <2>5. Len(source) - i \in Nat /\ Len(source) - i < Len(source) /\ Len(source) - (Len(source) - i) = i
    BY <1>1
  <2> QED
    BY <2>4, <2>5 DEF S
<1>10. ASSUME NEW i \in 1..Len(source)
       PROVE  /\ off[i - 1] \in Nat /\ off[i] \in Nat /\ off[i] <= Len(code)
              /\ off[i] = off[i - 1] + Len(ss[i])
              /\ \A j \in 1..Len(ss[i]) : code[off[i - 1] + j] = ss[i][j]
  <2>1. off[i - 1] = at[i - 1] + 1 /\ off[i] = at[i] + 1
    BY <1>1
  <2>2. /\ at[i - 1] \in Nat /\ at[i] \in Nat /\ at[i] <= Len(flat) /\ at[i] = at[i - 1] + Len(ss[i])
        /\ \A j \in 1..Len(ss[i]) : flat[at[i - 1] + j] = ss[i][j]
    BY <1>3, <1>4, <1>9
  <2>3. Len(ss[i]) \in Nat
    BY <1>2
  <2> HIDE DEF off
  <2>4. ASSUME NEW j \in 1..Len(ss[i]) PROVE code[off[i - 1] + j] = ss[i][j]
    <3> DEFINE n == Len(flat)
               a == at[i - 1]
               l == Len(ss[i])
    <3>0. a \in Nat /\ n \in Nat /\ l \in Nat /\ a + l <= n /\ j \in 1..l /\ off[i - 1] = a + 1
      BY <1>7, <2>1, <2>2, <2>3
    <3> HIDE DEF n, a, l
    <3>3. a + j \in 1..n /\ off[i - 1] + j = (a + j) + 1
      BY <3>0
    <3>1. at[i - 1] + j \in 1..Len(flat) /\ off[i - 1] + j = (at[i - 1] + j) + 1
      BY <3>3 DEF n, a
    <3>2. code[off[i - 1] + j] = flat[at[i - 1] + j]
      BY <1>7, <3>1
    <3> QED
      BY <2>2, <3>2
  <2>5. at[i] + 1 <= Len(code)
    BY <1>7, <2>2
  <2>6. off[i - 1] \in Nat /\ off[i] \in Nat /\ off[i] <= Len(code) /\ off[i] = off[i - 1] + Len(ss[i])
    <3> DEFINE a == at[i - 1]
               o == at[i]
               l == Len(ss[i])
               size == Len(code)
    <3>1. /\ a \in Nat /\ o \in Nat /\ l \in Nat /\ o = a + l /\ o + 1 <= size
          /\ off[i - 1] = a + 1 /\ off[i] = o + 1
      BY <2>1, <2>2, <2>3, <2>5
    <3> HIDE DEF a, o, l, size
    <3>2. off[i - 1] \in Nat /\ off[i] \in Nat /\ off[i] <= size /\ off[i] = off[i - 1] + l
      BY <3>1
    <3> QED
      BY <3>2 DEF l, size
  <2> QED
    BY <2>4, <2>6
<1> HIDE DEF off
<1>11. ASSUME NEW i \in 1..Len(source)
       PROVE /\ source[i][1] = "int" =>
                  /\ off[i] = off[i - 1] + 5
                  /\ code[off[i - 1] + 1] = 32 /\ code[off[i - 1] + 2] = 1 /\ code[off[i - 1] + 3] \in 0..127
                  /\ code[off[i - 1] + 4] = 34 /\ code[off[i - 1] + 5] = 0
             /\ source[i][1] # "int" =>
                  /\ source[i][1] \in {"plus", "minus", "div", "times", "return"}
                  /\ off[i] = off[i - 1] + 1
                  /\ code[off[i - 1] + 1] = Avm!OpcodeOf[source[i][1]]
  <2>1. source[i] \in Avm!Line /\ Small(source[i])
    BY <1>1
  <2>2. CASE source[i][1] = "int"
    <3>1. /\ Len(ss[i]) = 5 /\ ss[i][1] = 32 /\ ss[i][2] = 1 /\ ss[i][3] \in 0..127 /\ ss[i][4] = 34
                 /\ ss[i][5] = 0
      BY <1>2, <2>1, <2>2, LineCode
    <3>2. off[i] = off[i - 1] + 5 /\ \A j \in 1..5 : code[off[i - 1] + j] = ss[i][j]
      BY <1>10, <3>1
    <3>3. 1 \in 1..5 /\ 2 \in 1..5 /\ 3 \in 1..5 /\ 4 \in 1..5 /\ 5 \in 1..5
      OBVIOUS
    <3> QED
      BY <2>2, <3>1, <3>2, <3>3, Zenon
  <2>3. CASE source[i][1] # "int"
    <3>1. /\ Len(ss[i]) = 1 /\ ss[i][1] = Avm!OpcodeOf[source[i][1]]
          /\ source[i][1] \in {"plus", "minus", "div", "times", "return"}
      BY <1>2, <2>1, <2>3, LineCode
    <3>2. off[i] = off[i - 1] + 1 /\ \A j \in 1..1 : code[off[i - 1] + j] = ss[i][j]
      BY <1>10, <3>1
    <3>3. 1 \in 1..1
      OBVIOUS
    <3> QED
      BY <2>3, <3>1, <3>2, <3>3, Zenon
  <2> QED
    BY <2>2, <2>3
<1>12. Placed(code, source, off)
  BY <1>7, <1>8, <1>10, <1>11 DEF Placed
<1> QED
  BY <1>12 DEF code

-----------------------------------------------------------------------------
\* An opcode that can be paid for is the action that is taken, when gas is left.
LEMMA AvmTakes ==
  ASSUME NEW m, Metered(m), NEW n, Avm!Step(m, n), n.gas.used < n.gas.limit, ~Avm!AtEnd(m)
  PROVE  /\ Avm!Opcode(m) = 32 => Avm!IntcBlock(m, n)
         /\ Avm!Opcode(m) = 34 => Avm!IndexedConstant(m, n)
         /\ Avm!Opcode(m) \in 8..11 => Avm!Arithmetic(m, n)
         /\ Avm!Opcode(m) = 67 => Avm!Return(m, n)
<1>1. ~Avm!OutOfGas(m, n)
  <2> SUFFICES ASSUME Avm!OutOfGas(m, n) PROVE FALSE
    OBVIOUS
  <2>1. n = Avm!Failed(Avm!Fetched(m)) /\ ~Avm!HasGas(m.gas, Avm!BASE)
    BY DEF Avm!OutOfGas
  <2>2. n.gas = Avm!Consume(m.gas, Avm!BASE)
    BY <2>1 DEF Avm!Failed, Avm!Fetched, Metered
  <2>3. n.gas.used = m.gas.limit /\ n.gas.limit = m.gas.limit
    BY <2>1, <2>2 DEF Avm!Consume, Metered, Sound, GasMeter
  <2> QED
    BY <2>3 DEF Metered, Sound, GasMeter
<1>2. ~Avm!EndOfCode(m, n)
  BY DEF Avm!EndOfCode
<1>3. AvmOps(m, n)
  BY AvmGuards
<1> QED
  BY <1>1, <1>2, <1>3 DEF Avm!Step, AvmOps, Avm!Fetch, Avm!Known

\* What an AVM machine is made of
Fields(m) == {"lang", "code", "pc", "stack", "ints", "gas", "steps", "status"} \subseteq DOMAIN m

\* A number of one byte reads as that byte.
LEMMA VarOne ==
  ASSUME NEW m, Avm!Size(m) \in Nat, NEW pc \in Nat, pc < Avm!Size(m), m.code[pc + 1] = 1
  PROVE  Avm!VarReads(m, pc) /\ Avm!VarSize(m, pc) = 1 /\ Avm!VarValue(m, pc) = 1
<1>1. 1 \in Avm!VarEnds(m, pc) /\ \A x \in Avm!VarEnds(m, pc) : x \in Nat /\ 1 <= x
  BY DEF Avm!VarEnds, Avm!Byte
<1>2. Avm!VarReads(m, pc) /\ Avm!VarSize(m, pc) = 1
  BY <1>1 DEF Avm!VarReads, Avm!VarSize, Avm!Min
<1> DEFINE q == SubSeq(m.code, pc + 1, pc + 1)
           Low(s) == Avm!Min(s)
           Def(f) == f = [s \in SUBSET DOMAIN q |->
                            IF s = {} THEN 0
                            ELSE ((q[Low(s)] % 128) + 128 * f[s \ {Low(s)}]) % U64]
           fold == CHOOSE f : Def(f)
<1>3. DOMAIN q = {1} /\ q[1] = 1
  <2>1. q = [i \in 1..1 |-> m.code[pc + 1 + i - 1]]
    BY DEF Avm!Size
  <2>2. DOMAIN q = {1} /\ q[1] = m.code[pc + 1 + 1 - 1] /\ pc + 1 + 1 - 1 = pc + 1
    BY <2>1
  <2> QED
    BY <2>2
<1>4. Avm!VarValue(m, pc) = fold[DOMAIN q]
  BY <1>2 DEF Avm!VarValue, Avm!FoldRight, Avm!MapThenFoldSet
<1> HIDE DEF q
<1>5. Low({1}) = 1
  BY DEF Avm!Min
<1> HIDE DEF Low
<1>6. \E f : Def(f)
  <2> DEFINE g == [s \in SUBSET DOMAIN q |-> IF s = {} THEN 0 ELSE ((1 % 128) + 128 * 0) % U64]
  <2>1. \A s \in SUBSET DOMAIN q : s = {} \/ s = {1}
    BY <1>3
  <2>2. g[{}] = 0 /\ {1} \ {1} = {}
    OBVIOUS
  <2>3. ASSUME NEW s \in SUBSET DOMAIN q, s # {}
        PROVE  g[s] = ((q[Low(s)] % 128) + 128 * g[s \ {Low(s)}]) % U64
    <3>1. s = {1} /\ Low(s) = 1
      BY <1>5, <2>1, <2>3
    <3>2. q[Low(s)] = 1 /\ s \ {Low(s)} = {}
      BY <1>3, <3>1
    <3>3. g[s] = ((1 % 128) + 128 * 0) % U64
      BY <2>3
    <3> HIDE DEF g
    <3> QED
      BY <2>2, <3>2, <3>3
  <2>4. g[{}] = 0 /\ g = [s \in SUBSET DOMAIN q |-> g[s]]
    OBVIOUS
  <2> HIDE DEF g
  <2>5. Def(g)
    BY <2>3, <2>4
  <2> HIDE DEF Def
  <2> QED
    BY <2>5
<1>7. Def(fold)
  <2> HIDE DEF Def
  <2> QED
    BY <1>6
<1> HIDE DEF fold
<1>8. fold[{}] = 0
  BY <1>7
<1>9. {1} \ {1} = {} /\ {1} # {} /\ {1} \in SUBSET DOMAIN q
  BY <1>3
<1>10. fold[{1}] = ((1 % 128) + 128 * 0) % U64
  <2>1. fold[{1}] = ((q[Low({1})] % 128) + 128 * fold[{1} \ {Low({1})}]) % U64
    BY <1>7, <1>9
  <2>2. q[Low({1})] = 1 /\ fold[{1} \ {Low({1})}] = 0
    BY <1>3, <1>5, <1>8, <1>9
  <2> QED
    BY <2>1, <2>2
<1>11. fold[{1}] = 1
  BY <1>10, AvmAssumption
<1> QED
  BY <1>2, <1>3, <1>4, <1>11

\* A block that counts one constant loads that count, and the pc passes both.
LEMMA BlockReadsCount ==
  ASSUME NEW m, Fields(m), m.status = "running", Avm!Size(m) \in Nat, m.pc \in Nat, m.pc + 2 < Avm!Size(m),
         m.code[m.pc + 2] = 1, NEW n, Avm!IntcBlock(m, n)
  PROVE  n = [Avm!Fetched(m) EXCEPT !.ints = Append(m.ints, 1), !.pc = m.pc + 3]
<1> DEFINE F == Avm!Fetched(m)
           loaded == [F EXCEPT !.ints = Append(m.ints, 1), !.pc = m.pc + 2]
<1>1. F.pc = m.pc + 1 /\ F.status = "running" /\ F.code = m.code /\ F.ints = m.ints
          /\ Avm!Size(F) = Avm!Size(m)
  BY DEF Avm!Fetched, Avm!Size, Fields
<1>2. Fields(F)
  BY DEF Fields, Avm!Fetched
<1>3. Avm!VarReads(m, m.pc + 1)
  BY VarOne
<1>4. Avm!VarReads(F, F.pc) /\ Avm!VarSize(F, F.pc) = 1 /\ Avm!VarValue(F, F.pc) = 1
  <2>1. F.pc \in Nat /\ F.pc < Avm!Size(F) /\ F.code[F.pc + 1] = 1 /\ Avm!Size(F) \in Nat
    BY <1>1
  <2> HIDE DEF F
  <2> QED
    BY <2>1, VarOne
<1>5. n = Avm!IntConstants(F)
  BY <1>3 DEF Avm!IntcBlock
<1> HIDE DEF F
<1>6. Avm!ReadInt(F) = loaded
  <2>1. Avm!ReadInt(F) = [F EXCEPT !.ints = Append(F.ints, 1), !.pc = F.pc + 1]
    BY <1>1, <1>4 DEF Avm!ReadInt
  <2>2. F.pc + 1 = m.pc + 2
    BY <1>1
  <2> QED
    BY <1>1, <2>1, <2>2
<1>7. Avm!ReadAll(Avm!ReadInt, F, 1) = loaded
  <2>1. PICK read : /\ read[0] = F
                    /\ \A j, k \in 0..(Avm!Size(F) + 1) : k = j + 1 => read[k] = Avm!ReadInt(read[j])
                    /\ Avm!ReadAll(Avm!ReadInt, F, 1)
                         = read[IF 1 \in 0..Avm!Size(F) THEN 1 ELSE Avm!Size(F) + 1]
    <3>1. Avm!Size(F) \in Nat
      BY <1>1
    <3> QED
      BY <3>1, AvmReadIntSteps, Zenon
  <2>2. 1 \in 0..Avm!Size(F) /\ 0 \in 0..(Avm!Size(F) + 1) /\ 1 \in 0..(Avm!Size(F) + 1) /\ 1 = 0 + 1
    BY <1>1
  <2> HIDE DEF loaded
  <2> QED
    BY <1>6, <2>1, <2>2
<1>8. n = [loaded EXCEPT !.pc = loaded.pc + 1]
  BY <1>4, <1>5, <1>7 DEF Avm!IntConstants
<1>9. loaded.pc + 1 = m.pc + 3
  BY <1>1, <1>2 DEF Fields
<1>10. [loaded EXCEPT !.pc = m.pc + 3] = [F EXCEPT !.ints = Append(m.ints, 1), !.pc = m.pc + 3]
  BY Zenon
<1> QED
  BY <1>8, <1>9, <1>10 DEF F

-----------------------------------------------------------------------------
\* The elements of a sequence are those of a longer and of a shorter one.
LEMMA SequenceElements ==
  ASSUME NEW s, IsSeq(s), NEW e
  PROVE  /\ \A j \in 1..Len(s) : Append(s, e)[j] = s[j]
         /\ Append(s, e)[Len(s) + 1] = e
         /\ \A n \in 0..Len(s) : \A j \in 1..n : SubSeq(s, 1, n)[j] = s[j]
<1>1. PICK S : s \in Seq(S)
  BY DEF IsSeq
<1>2. s \in Seq(S \cup {e})
  BY <1>1
<1>3. /\ \A j \in 1..Len(s) : Append(s, e)[j] = s[j]
      /\ Append(s, e)[Len(s) + 1] = e
  BY <1>2
<1>4. ASSUME NEW n \in 0..Len(s) PROVE \A j \in 1..n : SubSeq(s, 1, n)[j] = s[j]
  BY <1>1
<1> QED
  BY <1>3, <1>4

\* The stack of a machine holds the numbers of an evaluation.
Mirrors(stack, s) ==
  /\ IsSeq(stack) /\ IsSeq(s) /\ Len(stack) = Len(s) /\ Len(s) <= MAX_STACK_DEPTH
  /\ \A j \in 1..Len(s) : stack[j] = Avm!Uint64(s[j])

\* A push of the same number on both keeps them alike,
LEMMA MirrorsPush ==
  ASSUME NEW stack, NEW s, Mirrors(stack, s), Len(s) < MAX_STACK_DEPTH, NEW x
  PROVE  Mirrors(Append(stack, Avm!Uint64(x)), Append(s, x))
<1> DEFINE v == Avm!Uint64(x)
<1>1. Len(s) \in Nat /\ Len(stack) = Len(s) /\ IsSeq(s) /\ IsSeq(stack)
  BY SequenceAppend DEF Mirrors
<1>2. /\ IsSeq(Append(stack, v)) /\ IsSeq(Append(s, x))
      /\ Len(Append(stack, v)) = Len(s) + 1 /\ Len(Append(s, x)) = Len(s) + 1
  BY <1>1, SequenceAppend
<1>3. ASSUME NEW j \in 1..(Len(s) + 1) PROVE Append(stack, v)[j] = Avm!Uint64(Append(s, x)[j])
  <2>1. j \in 1..Len(s) \/ j = Len(s) + 1
    BY <1>1
  <2>2. j \in 1..Len(s) => Append(stack, v)[j] = stack[j] /\ Append(s, x)[j] = s[j]
    BY <1>1, SequenceElements
  <2>3. Append(stack, v)[Len(s) + 1] = v /\ Append(s, x)[Len(s) + 1] = x
    BY <1>1, SequenceElements
  <2> QED
    BY <2>1, <2>2, <2>3 DEF Mirrors
<1>4. Len(s) + 1 <= MAX_STACK_DEPTH
  BY <1>1, AvmAssumption
<1> HIDE DEF v
<1>5. Mirrors(Append(stack, v), Append(s, x))
  BY <1>2, <1>3, <1>4 DEF Mirrors
<1> QED
  BY <1>5 DEF v

\* and so does taking as many from the top of both.
LEMMA MirrorsDrop ==
  ASSUME NEW stack, NEW s, Mirrors(stack, s), NEW n \in 0..Len(s)
  PROVE  Mirrors(SubSeq(stack, 1, n), SubSeq(s, 1, n)) /\ Len(SubSeq(s, 1, n)) = n
<1>1. Len(s) \in Nat /\ Len(stack) = Len(s) /\ IsSeq(s) /\ IsSeq(stack)
  BY SequenceAppend DEF Mirrors
<1>2. /\ IsSeq(SubSeq(stack, 1, n)) /\ IsSeq(SubSeq(s, 1, n))
      /\ Len(SubSeq(stack, 1, n)) = n /\ Len(SubSeq(s, 1, n)) = n
  BY <1>1, SequencePrefix
<1>3. ASSUME NEW j \in 1..n PROVE SubSeq(stack, 1, n)[j] = Avm!Uint64(SubSeq(s, 1, n)[j])
  <2>1. SubSeq(stack, 1, n)[j] = stack[j] /\ SubSeq(s, 1, n)[j] = s[j]
    BY <1>1, SequenceElements
  <2>2. j \in 1..Len(s)
    BY <1>1
  <2> QED
    BY <2>1, <2>2 DEF Mirrors
<1>4. n <= MAX_STACK_DEPTH
  BY <1>1, AvmAssumption DEF Mirrors
<1> QED
  BY <1>2, <1>3, <1>4 DEF Mirrors

\* The constant a literal reads is 1, if only ones were loaded.
LEMMA ReadPushesOne ==
  ASSUME NEW m, Fields(m), m.status = "running", Avm!Size(m) \in Nat, m.pc \in Nat, m.pc + 1 < Avm!Size(m),
         Avm!Opcode(m) = 34, m.code[m.pc + 2] = 0, m.ints \in Seq({1}), m.ints # <<>>,
         NEW n, Avm!IndexedConstant(m, n)
  PROVE  LET past == [Avm!Fetched(m) EXCEPT !.pc = m.pc + 2] IN
         n = IF Len(m.stack) >= MAX_STACK_DEPTH THEN Avm!Failed(past)
             ELSE [past EXCEPT !.stack = Append(m.stack, Avm!Uint64(1))]
<1> DEFINE F == Avm!Fetched(m)
           past == [F EXCEPT !.pc = m.pc + 2]
<1>1. F.pc + 1 = m.pc + 2 /\ F.status = "running" /\ F.stack = m.stack
  BY DEF Avm!Fetched, Fields
<1>2. Avm!Byte(m, m.pc + 1) = 0
  BY DEF Avm!Byte
<1>3. Avm!IntAt(m, 0) = Avm!Uint64(1)
  BY DEF Avm!IntAt
<1>4. ~(m.pc + 1 >= Avm!Size(m))
  OBVIOUS
<1>5. n = Avm!Push([F EXCEPT !.pc = F.pc + 1], Avm!IntAt(m, Avm!Byte(m, m.pc + 1)))
  BY <1>4, Zenon DEF Avm!IndexedConstant
<1>6. n = Avm!Push(past, Avm!Uint64(1))
  BY <1>1, <1>2, <1>3, <1>5, Zenon
<1> HIDE DEF F
<1>7. past.status = "running" /\ past.stack = m.stack
  BY <1>1
<1> HIDE DEF past
<1>8. n = IF Len(m.stack) >= MAX_STACK_DEPTH THEN Avm!Failed(past)
          ELSE [past EXCEPT !.stack = Append(m.stack, Avm!Uint64(1))]
  BY <1>6, <1>7 DEF Avm!Push
<1> QED
  BY <1>8 DEF past, F

\* The machine with another stack
Restacked(m, stack) == [m EXCEPT !.stack = stack]

\* An operator does to the stack of the machine what it does to the numbers.
LEMMA ArithmeticMirrors ==
  ASSUME NEW m, Fields(m), m.status = "running", NEW s, Mirrors(m.stack, s),
         NEW line, line[1] \in {"plus", "minus", "times", "div"}, Avm!Opcode(m) = Avm!OpcodeOf[line[1]],
         NEW n, Avm!Arithmetic(m, n), NEW r, r = EvalLine([status |-> "running", stack |-> s], line)
  PROVE  \/ r.status = "failed" /\ n = Avm!Failed(Avm!Fetched(m))
         \/ \E stack, t : /\ r = [status |-> "running", stack |-> t] /\ Mirrors(stack, t)
                          /\ n = Restacked(Avm!Fetched(m), stack)
<1> DEFINE F == Avm!Fetched(m)
           k == Len(s)
           x == s[k - 1]
           y == s[k]
<1>1. F.stack = m.stack /\ F.status = "running"
  BY DEF Avm!Fetched, Fields
<1>2. k \in Nat /\ Len(m.stack) = k
  BY SequenceAppend DEF Mirrors
<1>3. Avm!Opcode(m) = (CASE line[1] = "plus" -> 8 [] line[1] = "minus" -> 9
                         [] line[1] = "div" -> 10 [] line[1] = "times" -> 11)
  BY DEF Avm!OpcodeOf
<1> DEFINE b == Avm!Top(F, 1).int
           a == Avm!Top(F, 2).int
           result == CASE Avm!Opcode(m) = 8 -> (a + b) % U64
                       [] Avm!Opcode(m) = 9 -> (a - b) % U64
                       [] Avm!Opcode(m) = 10 -> a \div b
                       [] Avm!Opcode(m) = 11 -> (a * b) % U64
                       [] Avm!Opcode(m) = 12 -> a % b
<1>4. n = IF Avm!Holds(F, <<"int", "int">>) /\ (Avm!Opcode(m) \in {10, 12} => b # 0)
            THEN Avm!Push(Avm!Drop(F, 2), Avm!Uint64(result))
            ELSE Avm!Failed(F)
  BY Zenon DEF Avm!Arithmetic
<1>5. r = IF k < 2 \/ (line[1] = "div" /\ y = 0) THEN [status |-> "failed", stack |-> s]
          ELSE [status |-> "running", stack |-> Append(SubSeq(s, 1, k - 2), Worth(line[1], x, y))]
  <2> DEFINE e == [status |-> "running", stack |-> s]
             t == Append(SubSeq(s, 1, k - 2), Worth(line[1], x, y))
  <2>1. e.status = "running" /\ e.stack = s /\ line[1] # "return" /\ line[1] # "int"
    OBVIOUS
  <2> HIDE DEF e
  <2>2. EvalLine(e, line) = IF k < 2 \/ (line[1] = "div" /\ y = 0) THEN [e EXCEPT !.status = "failed"]
                            ELSE [e EXCEPT !.stack = t]
    BY <2>1, Zenon DEF EvalLine
  <2> HIDE DEF t
  <2>3. [e EXCEPT !.status = "failed"] = [status |-> "failed", stack |-> s]
        /\ [e EXCEPT !.stack = t] = [status |-> "running", stack |-> t]
    BY DEF e
  <2> QED
    BY <2>2, <2>3 DEF e, t
<1>6. CASE k < 2
  <2>1. ~Avm!Holds(F, <<"int", "int">>)
    BY <1>1, <1>2, <1>6 DEF Avm!Holds
  <2> HIDE DEF F, b, result
  <2> QED
    BY <1>4, <1>5, <1>6, <2>1 DEF F
<1>7. CASE ~(k < 2)
  <2>1. k \in 1..k /\ k - 1 \in 1..k /\ k + 1 - 1 = k /\ k + 1 - 2 = k - 1
    BY <1>2, <1>7
  <2>2. Avm!Top(F, 1) = Avm!Uint64(y) /\ Avm!Top(F, 2) = Avm!Uint64(x)
    BY <1>1, <1>2, <2>1 DEF Avm!Top, Mirrors
  <2>3. b = y /\ a = x
    BY <2>2 DEF Avm!Uint64
  <2>4. Avm!Holds(F, <<"int", "int">>)
    <3>1. Len(F.stack) >= 2
      BY <1>1, <1>2, <1>7
    <3>2. "int" \in DOMAIN Avm!Top(F, 1) /\ "int" \in DOMAIN Avm!Top(F, 2)
      BY <2>2 DEF Avm!Uint64
    <3> HIDE DEF F
    <3> QED
      BY <1>1, <3>1, <3>2 DEF Avm!Holds
  <2>5. Avm!Opcode(m) \in {10, 12} <=> line[1] = "div"
    BY <1>3
  <2>6. result = Worth(line[1], x, y)
    <3> HIDE DEF a, b, x, y
    <3> QED
      BY <1>3, <2>3 DEF Worth
  <2>7. CASE line[1] = "div" /\ y = 0
    <3> HIDE DEF F, b, result
    <3> QED
      BY <1>4, <1>5, <2>3, <2>5, <2>7 DEF F
  <2>8. CASE ~(line[1] = "div" /\ y = 0)
    <3> DEFINE w == Worth(line[1], x, y)
               rest == SubSeq(m.stack, 1, k - 2)
               less == SubSeq(s, 1, k - 2)
    <3>1. n = Avm!Push(Avm!Drop(F, 2), Avm!Uint64(w))
      <4> HIDE DEF F, b, result, w
      <4> QED
        BY <1>4, <2>3, <2>4, <2>5, <2>6, <2>8 DEF w
    <3>2. r = [status |-> "running", stack |-> Append(less, w)]
      BY <1>5, <1>7, <2>8, Zenon
    <3>3. k - 2 \in 0..k
      BY <1>2, <1>7
    <3>4. Mirrors(rest, less) /\ Len(less) = k - 2
      <4>1. ASSUME NEW j \in 0..Len(s)
            PROVE  /\ Mirrors(SubSeq(m.stack, 1, j), SubSeq(s, 1, j))
                   /\ Len(SubSeq(s, 1, j)) = j
        BY MirrorsDrop
      <4> QED
        BY <3>3, <4>1, Zenon
    <3>5. Len(less) < MAX_STACK_DEPTH /\ Len(rest) = Len(less)
      BY <1>2, <1>7, <3>4, AvmAssumption DEF Mirrors
    <3>6. Mirrors(Append(rest, Avm!Uint64(w)), Append(less, w))
      BY <3>4, <3>5, MirrorsPush
    <3> DEFINE D == Avm!Drop(F, 2)
    <3>7. D = [F EXCEPT !.stack = rest]
      <4> HIDE DEF F
      <4> QED
        BY <1>1, <1>2 DEF Avm!Drop
    <3>8. D.status = "running" /\ D.stack = rest
      <4>1. "stack" \in DOMAIN F
        BY DEF Avm!Fetched, Fields
      <4> HIDE DEF F, D, rest
      <4> QED
        BY <1>1, <3>7, <4>1
    <3>9. Avm!Push(D, Avm!Uint64(w)) = [D EXCEPT !.stack = Append(rest, Avm!Uint64(w))]
      <4>1. ~(Len(rest) >= MAX_STACK_DEPTH)
        BY <1>2, <3>4, <3>5, AvmAssumption
      <4> HIDE DEF D, w, rest
      <4> QED
        BY <3>8, <4>1 DEF Avm!Push
    <3> HIDE DEF D, rest, less, w, F
    <3>10. n = Restacked(F, Append(rest, Avm!Uint64(w)))
      BY <3>1, <3>7, <3>9 DEF D, Restacked
        <3> QED
      BY <3>2, <3>6, <3>10 DEF F
  <2> QED
    BY <2>7, <2>8
<1> QED
  BY <1>6, <1>7

-----------------------------------------------------------------------------
\* What a source comes to, line by line
LEMMA EvaluatedSteps ==
  ASSUME NEW source, Len(source) \in Nat
  PROVE  \E after :
           /\ after[0] = [status |-> "running", stack |-> <<>>]
           /\ \A j, k \in 0..Len(source) : k = j + 1 => after[k] = EvalLine(after[j], source[k])
           /\ Evaluated(source) = after[Len(source)]
<1> DEFINE start == [status |-> "running", stack |-> <<>>]
           Def(f, n) == f = [i \in 0..n |-> IF i = 0 THEN start ELSE EvalLine(f[i - 1], source[i])]
           after == CHOOSE f : Def(f, Len(source))
<1>1. \A n \in Nat : \E f : Def(f, n)
  <2> DEFINE P == {n \in Nat : \E f : Def(f, n)}
  <2>1. 0 \in P
    <3> DEFINE g == [k \in 0..0 |-> start]
    <3>1. Def(g, 0)
      OBVIOUS
    <3> QED
      BY <3>1, Zenon
  <2>2. ASSUME NEW n \in Nat, n \in P PROVE n + 1 \in P
    <3>1. PICK f : Def(f, n)
      BY <2>2
    <3> DEFINE g == [k \in 0..(n + 1) |-> IF k = n + 1 THEN EvalLine(f[n], source[k]) ELSE f[k]]
    <3>2. Def(g, n + 1)
      BY <3>1
    <3> HIDE DEF g, Def
    <3> QED
      BY <3>2
  <2> HIDE DEF P
  <2>3. \A n \in Nat : n \in P
    BY <2>1, <2>2, Induction
  <2> QED
    BY <2>3, Zenon DEF P
<1>2. Def(after, Len(source))
  <2>1. \E f : Def(f, Len(source))
    BY <1>1
  <2> HIDE DEF Def
  <2> QED
    BY <2>1
<1> HIDE DEF after
<1>3. after[0] = start /\ \A j, k \in 0..Len(source) : k = j + 1 => after[k] = EvalLine(after[j], source[k])
  BY <1>2
<1>4. Evaluated(source) = after[Len(source)]
  BY DEF Evaluated, after
<1> HIDE DEF Def
<1> QED
  BY <1>3, <1>4

\* The evaluation of a source, by the lines before
Evaluates(source, after) ==
  /\ after[0] = [status |-> "running", stack |-> <<>>]
  /\ \A j, k \in 0..Len(source) : k = j + 1 => after[k] = EvalLine(after[j], source[k])

\* Once it has returned or failed, nothing changes it.
LEMMA EvaluationStays ==
  ASSUME NEW source, Len(source) \in Nat, NEW after, Evaluates(source, after),
         NEW i \in 0..Len(source), after[i].status # "running"
  PROVE  after[Len(source)] = after[i]
<1> DEFINE S == {d \in Nat : i + d <= Len(source) => after[i + d] = after[i]}
<1>1. 0 \in S
  OBVIOUS
<1>2. ASSUME NEW d \in Nat, d \in S PROVE d + 1 \in S
  <2> SUFFICES ASSUME i + (d + 1) <= Len(source) PROVE after[i + (d + 1)] = after[i]
    OBVIOUS
  <2>1. i + d \in 0..Len(source) /\ i + (d + 1) \in 0..Len(source) /\ i + (d + 1) = (i + d) + 1
    OBVIOUS
  <2>2. after[i + d] = after[i] /\ after[i + (d + 1)] = EvalLine(after[i + d], source[i + (d + 1)])
    BY <1>2, <2>1 DEF Evaluates
  <2> QED
    BY <2>2 DEF EvalLine
<1> HIDE DEF S
<1>3. \A d \in Nat : d \in S
  BY <1>1, <1>2, Induction
<1>4. Len(source) - i \in Nat /\ i + (Len(source) - i) = Len(source)
  OBVIOUS
<1> QED
  BY <1>3, <1>4 DEF S

\* The machine runs the code of a source: it has come as far as the evaluation, or
\* is inside a literal, or has ended as the evaluation does.
Follows(source, off, after, m) ==
  /\ Fields(m) /\ m.lang = "avm" /\ m.code = Avm!Compile(source)
  /\ \/ /\ m.status = "running" /\ m.ints \in Seq({1})
        /\ \E s : \E i \in 0..Len(source) :
             /\ after[i] = [status |-> "running", stack |-> s] /\ Mirrors(m.stack, s)
             /\ \/ m.pc = off[i]
                \/ /\ i < Len(source) /\ source[i + 1][1] = "int"
                   /\ m.pc = off[i] + 3 /\ m.ints # <<>>
     \/ /\ m.status = "done"
        /\ after[Len(source)].status # "failed"
        /\ Mirrors(m.stack, after[Len(source)].stack)
     \/ m.status = "failed" /\ after[Len(source)].status = "failed"

\* What a literal and a return come to
LEMMA EvalLines ==
  ASSUME NEW s, NEW line
  PROVE  LET r == EvalLine([status |-> "running", stack |-> s], line) IN
         /\ line[1] = "return" => r = [status |-> "done", stack |-> s]
         /\ line[1] = "int" /\ Len(s) < MAX_STACK_DEPTH => r = [status |-> "running", stack |-> Append(s, 1)]
         /\ line[1] = "int" /\ ~(Len(s) < MAX_STACK_DEPTH) => r = [status |-> "failed", stack |-> s]
<1> DEFINE e == [status |-> "running", stack |-> s]
           r == EvalLine(e, line)
<1>1. e.status = "running" /\ e.stack = s
  OBVIOUS
<1> HIDE DEF e
<1>2. /\ line[1] = "return" => r = [e EXCEPT !.status = "done"]
      /\ line[1] = "int" /\ Len(s) < MAX_STACK_DEPTH => r = [e EXCEPT !.stack = Append(s, 1)]
      /\ line[1] = "int" /\ ~(Len(s) < MAX_STACK_DEPTH) => r = [e EXCEPT !.status = "failed"]
  BY <1>1 DEF EvalLine
<1> DEFINE t == Append(s, 1)
<1> HIDE DEF t
<1>3. /\ [e EXCEPT !.status = "done"] = [status |-> "done", stack |-> s]
      /\ [e EXCEPT !.status = "failed"] = [status |-> "failed", stack |-> s]
      /\ [e EXCEPT !.stack = t] = [status |-> "running", stack |-> t]
  BY DEF e
<1> QED
  BY <1>2, <1>3 DEF e, t

\* It goes on like this with every step.
LEMMA FollowsStep ==
  ASSUME NEW source, Len(source) \in Nat, NEW off, Placed(Avm!Compile(source), source, off),
         Len(Avm!Compile(source)) \in Nat, NEW after, Evaluates(source, after),
         NEW m, Metered(m), Follows(source, off, after, m),
         NEW n, Avm!Step(m, n), n.gas.used < n.gas.limit
  PROVE  Follows(source, off, after, n)
<1> DEFINE F == Avm!Fetched(m)
           N == Len(source)
<1>1. m.status = "running" /\ m.lang = "avm" /\ m.code = Avm!Compile(source) /\ Fields(m)
  BY StepsRun DEF Follows
<1>2. PICK s : \E i \in 0..N :
        /\ after[i] = [status |-> "running", stack |-> s] /\ Mirrors(m.stack, s) /\ m.ints \in Seq({1})
        /\ \/ m.pc = off[i]
           \/ i < N /\ source[i + 1][1] = "int" /\ m.pc = off[i] + 3 /\ m.ints # <<>>
  BY <1>1 DEF Follows
<1>7. PICK i \in 0..N :
        /\ after[i] = [status |-> "running", stack |-> s] /\ Mirrors(m.stack, s) /\ m.ints \in Seq({1})
        /\ \/ m.pc = off[i]
           \/ i < N /\ source[i + 1][1] = "int" /\ m.pc = off[i] + 3 /\ m.ints # <<>>
  BY <1>2
<1>3. Avm!Size(m) \in Nat /\ Avm!Size(m) = off[N] /\ m.code[1] = 6
  BY <1>1 DEF Avm!Size, Placed
<1>4. /\ Fields(F) /\ F.lang = "avm" /\ F.code = Avm!Compile(source) /\ F.status = "running"
      /\ F.pc = m.pc + 1 /\ F.stack = m.stack /\ F.ints = m.ints
  BY <1>1 DEF Fields, Avm!Fetched
<1>5. CASE m.pc = off[i] /\ i = N
  <2>1. Avm!AtEnd(m)
    BY <1>3, <1>5 DEF Avm!AtEnd
  <2>2. Avm!EndOfCode(m, n)
    <3>1. AvmOps(m, n)
      BY AvmGuards
    <3>2. ~Avm!OutOfGas(m, n)
      BY <2>1 DEF Avm!OutOfGas
    <3> QED
      BY <2>1, <3>1, <3>2 DEF Avm!Step, AvmOps, Avm!Fetch
  <2>3. n = [m EXCEPT !.status = "done"]
    BY <2>2 DEF Avm!EndOfCode
  <2>4. Fields(n) /\ n.lang = "avm" /\ n.code = Avm!Compile(source) /\ n.status = "done" /\ n.stack = m.stack
    BY <1>1, <2>3 DEF Fields
  <2>5. after[N].status # "failed" /\ after[N].stack = s
    BY <1>7, <1>5
  <2> QED
    BY <1>7, <2>4, <2>5 DEF Follows
<1>6. CASE i < N
  <2> DEFINE line == source[i + 1]
  <2>1. i + 1 \in 1..N /\ (i + 1) - 1 = i /\ i \in 0..N /\ i + 1 \in 0..N
    BY <1>6
  <2>2. /\ off[i] \in Nat
        /\ line[1] = "int" =>
             /\ off[i + 1] = off[i] + 5
             /\ m.code[off[i] + 1] = 32 /\ m.code[off[i] + 2] = 1
             /\ m.code[off[i] + 4] = 34 /\ m.code[off[i] + 5] = 0
        /\ line[1] # "int" =>
             /\ line[1] \in {"plus", "minus", "div", "times", "return"}
             /\ off[i + 1] = off[i] + 1 /\ m.code[off[i] + 1] = Avm!OpcodeOf[line[1]]
    BY <1>1, <2>1 DEF Placed
  <2>3. off[i + 1] \in Nat /\ off[i + 1] <= Avm!Size(m)
    BY <1>1, <2>1 DEF Placed, Avm!Size
  <2>4. after[i + 1] = EvalLine([status |-> "running", stack |-> s], line)
    BY <1>7, <2>1 DEF Evaluates
  <2>5. after[i + 1].status # "running" => after[N] = after[i + 1]
    BY <2>1, EvaluationStays
  <2>6. Len(s) \in Nat /\ Len(m.stack) = Len(s) /\ Len(m.ints) \in Nat
    BY <1>7, SequenceAppend DEF Mirrors
  <2> HIDE DEF F, N, line
  <2>7. ASSUME NEW stack, NEW t, Mirrors(stack, t), after[i + 1] = [status |-> "running", stack |-> t],
               Fields(n), n.lang = "avm", n.code = Avm!Compile(source), n.status = "running",
               n.ints \in Seq({1}), n.stack = stack, n.pc = off[i + 1]
        PROVE  Follows(source, off, after, n)
    BY <2>1, <2>7 DEF Follows, N
  <2>8. ASSUME Fields(n), n.lang = "avm", n.code = Avm!Compile(source), n.status = "failed",
               after[i + 1].status = "failed"
        PROVE  Follows(source, off, after, n)
    BY <2>5, <2>8 DEF Follows, N
  <2>9. CASE line[1] = "int" /\ m.pc = off[i]
    <3>1. m.pc \in Nat /\ m.pc + 2 < Avm!Size(m) /\ m.code[m.pc + 2] = 1 /\ m.code[m.pc + 1] = 32
      BY <1>3, <2>2, <2>3, <2>9, SMTT(30)
    <3>2. Avm!IntcBlock(m, n)
      <4>1. Avm!Opcode(m) = 32 /\ ~Avm!AtEnd(m)
        BY <1>3, <3>1 DEF Avm!Opcode, Avm!Byte, Avm!AtEnd
      <4> QED
        BY <4>1, AvmTakes
    <3>3. n = [F EXCEPT !.ints = Append(m.ints, 1), !.pc = m.pc + 3]
      BY <1>1, <1>3, <3>1, <3>2, BlockReadsCount DEF F
    <3>4. Append(m.ints, 1) \in Seq({1}) /\ Append(m.ints, 1) # <<>>
      <4>1. Append(m.ints, 1) \in Seq({1}) /\ Len(Append(m.ints, 1)) = Len(m.ints) + 1
        BY <1>7
      <4> QED
        BY <2>6, <4>1
    <3>5. /\ Fields(n) /\ n.lang = "avm" /\ n.code = Avm!Compile(source) /\ n.status = "running"
          /\ n.ints = Append(m.ints, 1) /\ n.pc = off[i] + 3 /\ n.stack = m.stack
      BY <1>4, <2>9, <3>3 DEF Fields
    <3> QED
      BY <1>7, <1>6, <2>9, <3>4, <3>5 DEF Follows, N, line
  <2>10. CASE line[1] = "int" /\ m.pc = off[i] + 3 /\ m.ints # <<>>
    <3>1. /\ m.pc \in Nat /\ m.pc + 1 < Avm!Size(m) /\ m.code[m.pc + 2] = 0 /\ m.code[m.pc + 1] = 34
          /\ m.pc + 2 = off[i + 1]
      <4>1. /\ off[i] \in Nat /\ off[i + 1] = off[i] + 5
            /\ m.code[off[i] + 4] = 34 /\ m.code[off[i] + 5] = 0
        BY <2>2, <2>10
      <4>2. m.pc + 1 = off[i] + 4 /\ m.pc + 2 = off[i] + 5 /\ m.pc \in Nat
        BY <2>10, <4>1, SMTT(30)
      <4>3. m.pc + 1 < Avm!Size(m)
        BY <1>3, <2>3, <4>1, <4>2, SMTT(30)
      <4> QED
        BY <4>1, <4>2, <4>3
    <3>0. Avm!Opcode(m) = 34
      BY <3>1 DEF Avm!Opcode, Avm!Byte
    <3>2. Avm!IndexedConstant(m, n)
      <4>1. ~Avm!AtEnd(m)
        BY <1>3, <3>1 DEF Avm!AtEnd
      <4> QED
        BY <3>0, <4>1, AvmTakes
    <3> DEFINE past == [F EXCEPT !.pc = off[i + 1]]
    <3>3. n = IF Len(m.stack) >= MAX_STACK_DEPTH THEN Avm!Failed(past)
              ELSE [past EXCEPT !.stack = Append(m.stack, Avm!Uint64(1))]
      BY <1>1, <1>7, <1>3, <2>10, <3>0, <3>1, <3>2, ReadPushesOne, ZenonT(60) DEF F
    <3>4. /\ Fields(past) /\ past.lang = "avm" /\ past.code = Avm!Compile(source) /\ past.status = "running"
          /\ past.ints = m.ints /\ past.pc = off[i + 1]
      BY <1>4 DEF Fields
    <3> HIDE DEF past
    <3>5. CASE Len(s) < MAX_STACK_DEPTH
      <4>1. n = [past EXCEPT !.stack = Append(m.stack, Avm!Uint64(1))]
        BY <2>6, <3>3, <3>5, AvmAssumption
      <4>2. Mirrors(Append(m.stack, Avm!Uint64(1)), Append(s, 1))
        BY <1>7, <3>5, MirrorsPush
      <4>3. after[i + 1] = [status |-> "running", stack |-> Append(s, 1)]
        BY <2>4, <2>10, <3>5, EvalLines
      <4> DEFINE stack == Append(m.stack, Avm!Uint64(1))
      <4> HIDE DEF stack
      <4>4. /\ Fields(n) /\ n.lang = "avm" /\ n.code = Avm!Compile(source) /\ n.status = "running"
            /\ n.ints \in Seq({1}) /\ n.stack = stack /\ n.pc = off[i + 1]
        BY <1>7, <3>4, <4>1 DEF Fields, stack
      <4> QED
        BY <2>7, <4>2, <4>3, <4>4 DEF stack
    <3>6. CASE ~(Len(s) < MAX_STACK_DEPTH)
      <4>1. n = Avm!Failed(past)
        BY <2>6, <3>3, <3>6, AvmAssumption
      <4>2. after[i + 1].status = "failed"
        <5>1. after[i + 1] = [status |-> "failed", stack |-> s]
          BY <2>4, <2>10, <3>6, EvalLines
        <5> QED
          BY <5>1
      <4>3. Fields(n) /\ n.lang = "avm" /\ n.code = Avm!Compile(source) /\ n.status = "failed"
        BY <3>4, <4>1 DEF Fields, Avm!Failed
      <4> QED
        BY <2>8, <4>2, <4>3
    <3> QED
      BY <3>5, <3>6
  <2>11. CASE line[1] # "int"
    <3>1. /\ m.pc = off[i] /\ m.pc \in Nat /\ m.pc < Avm!Size(m) /\ m.pc + 1 = off[i + 1]
          /\ Avm!Opcode(m) = Avm!OpcodeOf[line[1]]
      BY <1>7, <1>3, <2>2, <2>3, <2>11 DEF line, Avm!Opcode, Avm!Byte
    <3>2. ~Avm!AtEnd(m)
      BY <1>3, <3>1 DEF Avm!AtEnd
    <3>3. CASE line[1] = "return"
      <4>1. Avm!Return(m, n)
        BY <3>1, <3>2, <3>3, AvmTakes DEF Avm!OpcodeOf
      <4>2. n = [F EXCEPT !.status = "done"]
        BY <4>1 DEF Avm!Return, F
      <4>3. Fields(n) /\ n.lang = "avm" /\ n.code = Avm!Compile(source) /\ n.status = "done"
                /\ n.stack = m.stack
        BY <1>4, <4>2 DEF Fields
      <4>4. after[N].status # "failed" /\ after[N].stack = s
        <5>1. after[i + 1] = [status |-> "done", stack |-> s]
          BY <2>4, <3>3, EvalLines
        <5> QED
          BY <2>5, <5>1
      <4> QED
        BY <1>7, <4>3, <4>4 DEF Follows, N
    <3>4. CASE line[1] # "return"
      <4>1. line[1] \in {"plus", "minus", "times", "div"}
        BY <2>2, <2>11, <3>4
      <4>2. Avm!Arithmetic(m, n)
        BY <3>1, <3>2, <4>1, AvmTakes DEF Avm!OpcodeOf
      <4>3. \/ after[i + 1].status = "failed" /\ n = Avm!Failed(F)
            \/ \E stack, t : /\ after[i + 1] = [status |-> "running", stack |-> t] /\ Mirrors(stack, t)
                             /\ n = Restacked(F, stack)
        <5>1. Fields(m) /\ m.status = "running" /\ Mirrors(m.stack, s)
                  /\ Avm!Opcode(m) = Avm!OpcodeOf[line[1]]
          BY <1>1, <1>7, <3>1
        <5> DEFINE r == after[i + 1]
        <5>2. r = EvalLine([status |-> "running", stack |-> s], line)
          BY <2>4
        <5> HIDE DEF r
        <5>3. \/ r.status = "failed" /\ n = Avm!Failed(Avm!Fetched(m))
              \/ \E stack, t : /\ r = [status |-> "running", stack |-> t] /\ Mirrors(stack, t)
                               /\ n = Restacked(Avm!Fetched(m), stack)
          BY <4>1, <4>2, <5>1, <5>2, ArithmeticMirrors
        <5> QED
          BY <5>3 DEF F, r
      <4>4. CASE after[i + 1].status = "failed" /\ n = Avm!Failed(F)
        <5>1. Fields(n) /\ n.lang = "avm" /\ n.code = Avm!Compile(source) /\ n.status = "failed"
          BY <1>4, <4>4 DEF Fields, Avm!Failed
        <5> QED
          BY <2>8, <4>4, <5>1
      <4>5. ASSUME NEW stack, NEW t, after[i + 1] = [status |-> "running", stack |-> t], Mirrors(stack, t),
                   n = Restacked(F, stack)
            PROVE  Follows(source, off, after, n)
        <5>1. /\ Fields(n) /\ n.lang = "avm" /\ n.code = Avm!Compile(source) /\ n.status = "running"
              /\ n.ints \in Seq({1}) /\ n.stack = stack /\ n.pc = off[i + 1]
          BY <1>7, <1>4, <3>1, <4>5 DEF Fields, Restacked
        <5> QED
          BY <2>7, <4>5, <5>1
      <4> QED
        BY <4>3, <4>4, <4>5
    <3> QED
      BY <3>3, <3>4
  <2> QED
    BY <1>7, <2>9, <2>10, <2>11 DEF line
<1> QED
  BY <1>7, <1>5, <1>6

-----------------------------------------------------------------------------
\* A contract with a source, all of whose literals are small
Readable(c) == "source" \in DOMAIN c /\ \A i \in DOMAIN c.source : Small(c.source[i])

\* A contract is more than its version byte, so its source has a line.
LEMMA SourceHasLines ==
  ASSUME NEW c \in Contract, Readable(c), TypeOfContract(c) # "none"
  PROVE  /\ c.lang = "avm" /\ c.source \in Seq(Avm!Line) /\ c.source # <<>> /\ c.code = Avm!Compile(c.source)
         /\ TypeOfContract(c) = "avm" /\ c.code \in Seq(0..255) /\ c.code # <<>>
<1>1. c.lang = "avm" /\ c.source \in Seq(Avm!Line) /\ c.code = Avm!Compile(c.source) /\ c.code \in Seq(0..255)
  BY SourceAssumption, ContractAssumption DEF Readable
<1>2. ~(Len(c.code) < 4) /\ TypeOfContract(c) = "avm"
  BY <1>1 DEF TypeOfContract
<1>3. c.source # <<>>
  <2> SUFFICES ASSUME c.source = <<>> PROVE FALSE
    OBVIOUS
  <2> DEFINE ss == [i \in DOMAIN c.source |-> Avm!CompileLine(c.source[i])]
  <2>1. ss = <<>> /\ Len(ss) = 0
    OBVIOUS
  <2>2. Avm!FlattenSeq(ss) = <<>>
    <3> HIDE DEF ss
    <3> QED
      BY <2>1 DEF Avm!FlattenSeq
  <2>3. Avm!Compile(c.source) = <<6>> \o Avm!FlattenSeq(ss)
    BY DEF Avm!Compile
  <2> HIDE DEF ss
  <2>4. Avm!Compile(c.source) = <<6>>
    BY <2>2, <2>3
  <2>5. Len(<<6>>) = 1 /\ c.code = <<6>>
    BY <1>1, <2>4
  <2> QED
    BY <1>2, <2>5
<1> QED
  BY <1>1, <1>2, <1>3

\* A run begins where the evaluation does.
LEMMA FollowsStart ==
  ASSUME NEW c \in Contract, Readable(c), TypeOfContract(c) # "none", NEW limit,
         NEW off, Placed(Avm!Compile(c.source), c.source, off),
         NEW after, Evaluates(c.source, after)
  PROVE  Follows(c.source, off, after, Start(c, "execute", limit))
<1> DEFINE m == Start(c, "execute", limit)
           source == c.source
<1>1. c.code = Avm!Compile(source) /\ c.code # <<>> /\ TypeOfContract(c) = "avm" /\ Len(source) \in Nat
  BY SourceHasLines
<1>2. m = Avm!Boot(c.code, limit)
  BY <1>1 DEF Start
<1>3. c.code[1] = 6 /\ off[0] = 1 /\ after[0] = [status |-> "running", stack |-> <<>>]
  BY <1>1 DEF Placed, Evaluates
<1> HIDE DEF m
<1>4. /\ Fields(m) /\ m.lang = "avm" /\ m.code = c.code /\ m.pc = 1 /\ m.stack = <<>> /\ m.ints = <<>>
      /\ m.status = "running"
  BY <1>1, <1>2, <1>3 DEF Avm!Boot, Fields
<1>5. Mirrors(<<>>, <<>>)
  <2>1. IsSeq(<<>>)
    <3>1. <<>> \in Seq(Nat)
      OBVIOUS
    <3> QED
      BY <3>1 DEF IsSeq
  <2> QED
    BY <2>1, AvmAssumption DEF Mirrors
<1>6. m.ints \in Seq({1}) /\ 0 \in 0..Len(source)
  BY <1>1, <1>4
<1> QED
  BY <1>1, <1>3, <1>4, <1>5, <1>6 DEF Follows, m

\* A run that keeps below its limit follows the evaluation to its end.
LEMMA RunFollows ==
  ASSUME NEW c \in Contract, Readable(c), NEW limit, NEW tr, NEW k, Run(c, "execute", limit, tr, k),
         tr[k].gas.used < limit,
         NEW off, Placed(Avm!Compile(c.source), c.source, off),
         NEW after, Evaluates(c.source, after)
  PROVE  Follows(c.source, off, after, tr[k])
<1> DEFINE S == {i \in Nat : i <= k => Follows(c.source, off, after, tr[i])}
<1>1. /\ Len(c.source) \in Nat /\ Len(Avm!Compile(c.source)) \in Nat /\ k \in Nat
      /\ TypeOfContract(c) # "none" /\ tr[0] = Start(c, "execute", limit)
  <2>1. TypeOfContract(c) # "none" /\ k \in Nat /\ tr[0] = Start(c, "execute", limit)
    BY DEF Run
  <2>2. c.source \in Seq(Avm!Line) /\ c.code = Avm!Compile(c.source) /\ c.code \in Seq(0..255)
    BY <2>1, SourceHasLines
  <2>3. Len(c.source) \in Nat
    BY <2>2
  <2>4. Len(c.code) \in Nat
    BY <2>2
  <2> QED
    BY <2>1, <2>2, <2>3, <2>4
<1>2. 0 \in S
  BY <1>1, FollowsStart
<1>3. ASSUME NEW i \in Nat, i \in S PROVE i + 1 \in S
  <2> SUFFICES ASSUME i + 1 <= k PROVE Follows(c.source, off, after, tr[i + 1])
    OBVIOUS
  <2>1. i \in 0..(k - 1) /\ i \in 0..k /\ i + 1 \in 0..k /\ k \in 0..k
    BY <1>1
  <2>2. Follows(c.source, off, after, tr[i])
    BY <1>1, <1>3, <2>1
  <2>3. Fit(tr[i], limit) /\ Fit(tr[i + 1], limit) /\ Fit(tr[k], limit) /\ Steps(tr[i], tr[i + 1])
    BY <2>1 DEF Run
  <2> DEFINE m == tr[i]
             n == tr[i + 1]
  <2>4. n.gas.used <= tr[k].gas.used
    BY <2>1, RunGrows
  <2> HIDE DEF m, n
  <2>5. Metered(m) /\ n.gas.limit = limit /\ n.gas.used \in Nat /\ tr[k].gas.used \in Nat /\ limit \in Nat
    BY <2>3 DEF Fit, Paid, Metered, Sound, GasMeter, m, n
  <2>6. n.gas.used < n.gas.limit
    BY <2>4, <2>5
  <2>7. Avm!Step(m, n)
    <3>1. m.lang = "avm"
      BY <2>2 DEF Follows, m
    <3> QED
      BY <2>3, <3>1, StepsRun DEF Steps, m, n
  <2> QED
    BY <1>1, <2>2, <2>5, <2>6, <2>7, FollowsStep DEF m, n
<1> HIDE DEF S
<1>4. \A i \in Nat : i \in S
  BY <1>2, <1>3, Induction
<1> QED
  BY <1>1, <1>4 DEF S

\* What a run of a compiled source returns is what the evaluation comes to.
LEMMA EndsAsEvaluated ==
  ASSUME NEW c \in Contract, Readable(c), NEW res, Ended(c, res), res.kind = "execute", res.used < res.limit
  PROVE  LET r    == Evaluated(c.source)
             top  == r.stack[Len(r.stack)]
             ends == r.status # "failed" /\ r.stack # <<>>
         IN  /\ res.success = (ends /\ top # 0)
             /\ res.data = IF ends THEN <<Avm!Uint64(top)>> ELSE <<>>
<1>1. PICK tr, k : /\ Run(c, "execute", res.limit, tr, k)
                   /\ tr[k].status \in {"done", "failed"}
                   /\ res = Outcome("execute", res.limit, tr[k])
  BY DEF Ended
<1> DEFINE m == tr[k]
           source == c.source
           r == Evaluated(source)
<1>2. res.used = m.gas.used /\ res.success = Succeeds(m) /\ res.data = Answer(m)
  BY <1>1 DEF Outcome, Result
<1>3. /\ source \in Seq(Avm!Line) /\ source # <<>> /\ Len(source) \in Nat
      /\ \A i \in DOMAIN source : Small(source[i])
  <2>1. TypeOfContract(c) # "none"
    BY <1>1 DEF Run
  <2>2. source \in Seq(Avm!Line) /\ source # <<>>
    BY <2>1, SourceHasLines
  <2> QED
    BY <2>2 DEF Readable
<1>4. PICK off : Placed(Avm!Compile(source), source, off)
  BY <1>3, SourcePlaced
<1>5. PICK after : Evaluates(source, after) /\ r = after[Len(source)]
  BY <1>3, EvaluatedSteps DEF Evaluates
<1>6. Follows(source, off, after, m)
  BY <1>1, <1>2, <1>4, <1>5, RunFollows
<1> HIDE DEF m, r, source
<1>7. m.lang = "avm" /\ m.status \in {"done", "failed"}
  BY <1>1, <1>6 DEF Follows, m
<1>8. res.success = Avm!Succeeds(m) /\ res.data = Avm!Answer(m)
  BY <1>2, <1>7 DEF Succeeds, Answer
<1> DEFINE top == r.stack[Len(r.stack)]
           ends == r.status # "failed" /\ r.stack # <<>>
<1>9. CASE m.status = "failed"
  <2>1. r.status = "failed"
    BY <1>5, <1>6, <1>9 DEF Follows
  <2>2. Avm!Succeeds(m) = FALSE /\ Avm!Answer(m) = <<>>
    BY <1>9 DEF Avm!Succeeds, Avm!Answer
  <2> QED
    BY <1>8, <2>1, <2>2 DEF r, source
<1>10. CASE m.status = "done"
  <2>1. r.status # "failed" /\ Mirrors(m.stack, r.stack)
    BY <1>5, <1>6, <1>10 DEF Follows
  <2>2. IsSeq(m.stack) /\ IsSeq(r.stack) /\ Len(m.stack) = Len(r.stack) /\ Len(r.stack) \in Nat
    BY <2>1, SequenceAppend DEF Mirrors
  <2>3. (m.stack = <<>> <=> Len(m.stack) = 0) /\ (r.stack = <<>> <=> Len(r.stack) = 0)
    BY <2>2 DEF IsSeq
  <2>4. CASE r.stack = <<>>
    <3>1. m.stack = <<>> /\ ~ends
      BY <2>2, <2>3, <2>4
    <3>2. Avm!Succeeds(m) = FALSE /\ Avm!Answer(m) = <<>>
      BY <3>1 DEF Avm!Succeeds, Avm!Answer
    <3> QED
      BY <1>8, <2>4, <3>2 DEF r, source
  <2>5. CASE r.stack # <<>>
    <3>1. m.stack # <<>> /\ ends /\ Len(r.stack) \in 1..Len(r.stack)
      BY <2>1, <2>2, <2>3, <2>5
    <3>2. Avm!Last(m.stack) = Avm!Uint64(top)
      BY <2>1, <2>2, <3>1 DEF Avm!Last, Mirrors
    <3>3. Avm!AsBool(Avm!Uint64(top)) = (top # 0)
      BY DEF Avm!AsBool, Avm!Uint64
    <3> HIDE DEF top
    <3>4. Avm!Succeeds(m) = (top # 0) /\ Avm!Answer(m) = <<Avm!Uint64(top)>>
      BY <1>10, <3>1, <3>2, <3>3 DEF Avm!Succeeds, Avm!Answer
    <3>5. res.success = (ends /\ top # 0) /\ res.data = IF ends THEN <<Avm!Uint64(top)>> ELSE <<>>
      BY <1>8, <3>1, <3>4
    <3> QED
      BY <3>5 DEF r, source, top
  <2> QED
    BY <2>4, <2>5
<1> QED
  BY <1>7, <1>9, <1>10

\* Every small literal of a TEAL source is worth 1, for every source, whatever
\* its length and its literals: a call of the compiled contract that does not run
\* out of gas returns what the source comes to if each literal is 1 (avm.rs:229,
\* :571).
THEOREM LiteralsAreOnes == Spec => []LiteralsReadAsOne
<1>1. MeterInv /\ RunInv => LiteralsReadAsOne
  <2> SUFFICES ASSUME MeterInv, RunInv, last # None, last.kind = "execute", last.used \in 1..(last.limit - 1),
                      "source" \in DOMAIN contract,
                      \A i \in DOMAIN contract.source :
                        contract.source[i][1] = "int" => contract.source[i][2] < 128
               PROVE  LET r    == Evaluated(contract.source)
                          top  == r.stack[Len(r.stack)]
                          ends == r.status # "failed" /\ r.stack # <<>>
                      IN  /\ last.success = (ends /\ top # 0)
                          /\ last.data = IF ends THEN <<Avm!Uint64(top)>> ELSE <<>>
    BY DEF LiteralsReadAsOne
  <2>1. contract \in Contract /\ Readable(contract)
    BY DEF MeterInv, Readable, Small
  <2>2. last.used # 0
    OBVIOUS
  <2>3. Ended(contract, last)
    BY <2>2 DEF RunInv
  <2>4. last.used < last.limit
    <3>1. PICK tr, k : Run(contract, last.kind, last.limit, tr, k)
      BY <2>3 DEF Ended
    <3>2. last.limit \in Nat
      BY <3>1 DEF Run, Fit
    <3> QED
      BY <3>2
  <2> QED
    BY <2>1, <2>3, <2>4, EndsAsEvaluated
<1> QED
  BY <1>1, MeterAlways, RunAlways, PTL

=============================================================================
