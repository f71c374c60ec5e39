--------------------------- MODULE ExecutorProofs ---------------------------
(***************************************************************************)
(* What a gas meter guarantees for any limits, amounts and refunds, and    *)
(* what the executor's interpreters guarantee for any contracts: that      *)
(* every step is paid for, how far the Kaspa stacks grow, and what a Pact  *)
(* program leaves in scope.                                                *)
(***************************************************************************)
EXTENDS Executor, Sums

-----------------------------------------------------------------------------
\* A meter that keeps to its limit
Sound(m) == m \in GasMeter /\ m.used <= m.limit

\* A meter is made within its limit, with all of it left.
LEMMA NewMeterSound ==
  ASSUME NEW limit \in Nat
  PROVE  Sound(NewMeter(limit)) /\ Remaining(NewMeter(limit)) = limit
BY DEF Sound, NewMeter, Remaining, GasMeter

\* consume, on success, takes exactly the amount, and else all that is left; it
\* never leaves the limit, and never gives gas back.
THEOREM ConsumeSound ==
  ASSUME NEW m, Sound(m), NEW amount
  PROVE  LET n == Consume(m, amount) IN
         /\ Sound(n) /\ n.limit = m.limit /\ n.refund = m.refund
         /\ n.used >= m.used
         /\ HasGas(m, amount) => Remaining(n) = Remaining(m) - amount
         /\ ~HasGas(m, amount) => Remaining(n) = 0
<1>1. m.used \in Nat /\ m.limit \in Nat /\ m.refund \in Nat /\ m.used <= m.limit
  BY DEF Sound, GasMeter
<1> DEFINE n == Consume(m, amount)
<1>2. n \in GasMeter /\ n.limit = m.limit /\ n.refund = m.refund
      /\ n.used = IF amount \in 0..(m.limit - m.used) THEN m.used + amount ELSE m.limit
  BY <1>1 DEF Sound, Consume, GasMeter, HasGas
<1> HIDE DEF n
<1> QED
  BY <1>1, <1>2 DEF n, Sound, HasGas, Remaining

\* final_used: a refund never makes the work cost less than half of what it used,
\* nor more than it used.
THEOREM RefundBounded ==
  ASSUME NEW m \in GasMeter
  PROVE  /\ FinalUsed(m) \in Nat
         /\ FinalUsed(m) <= m.used
         /\ 2 * FinalUsed(m) >= m.used
<1>1. m.used \in Nat /\ m.refund \in Nat
  BY DEF GasMeter
<1>2. m.used \div 2 \in Nat /\ 2 * (m.used \div 2) <= m.used
  BY <1>1
<1> QED
  BY <1>1, <1>2 DEF FinalUsed

\* sub_meter: the callee gets a sound meter, no more than it asks for, and never
\* all that remains once that is 64 or more.
LEMMA SubMeterSound ==
  ASSUME NEW m, Sound(m), NEW limit \in Nat
  PROVE  LET sub == SubMeter(m, limit) IN
         /\ Sound(sub) /\ sub.used = 0
         /\ sub.limit <= limit /\ sub.limit <= Remaining(m)
         /\ Remaining(m) >= 64 => sub.limit < Remaining(m)
<1> DEFINE r == Remaining(m)
           most == r - r \div 64
           sub == SubMeter(m, limit)
<1>1. r \in Nat
  BY DEF Sound, GasMeter, Remaining
<1> HIDE DEF r
<1>2. r \div 64 \in Nat /\ r \div 64 <= r /\ (r >= 64 => r \div 64 > 0)
  BY <1>1
<1>3. most \in Nat /\ most <= r /\ (r >= 64 => most < r)
  BY <1>1, <1>2
<1>4. sub = NewMeter(IF limit < most THEN limit ELSE most)
  BY DEF SubMeter, r
<1> HIDE DEF most
<1>5. sub.limit = (IF limit < most THEN limit ELSE most) /\ sub.used = 0 /\ Sound(sub)
  BY <1>3, <1>4 DEF NewMeter, Sound, GasMeter
<1>6. /\ sub.limit <= limit /\ sub.limit <= r
      /\ r >= 64 => sub.limit < r
  BY <1>1, <1>3, <1>5
<1> QED
  BY <1>5, <1>6 DEF r

\* A caller that consumes the limit of the meter it hands to a callee, which
\* sub_meter leaves to it, has used after return_gas what it had used before and
\* what the callee used, and keeps to its limit: no gas is made or lost by a call.
THEOREM CallIsPaid ==
  ASSUME NEW m, Sound(m), NEW limit \in Nat,
         NEW sub, Sound(sub), sub.limit = SubMeter(m, limit).limit
  PROVE  LET after == ReturnGas(Consume(m, sub.limit), sub) IN
         /\ Sound(after) /\ after.limit = m.limit
         /\ after.used = m.used + sub.used
         /\ after.refund = m.refund + sub.refund
<1> DEFINE charged == Consume(m, sub.limit)
           after == ReturnGas(charged, sub)
<1>1. m \in GasMeter /\ m.used \in Nat /\ m.limit \in Nat /\ m.refund \in Nat /\ m.used <= m.limit
  BY DEF Sound, GasMeter
<1>2. sub.used \in Nat /\ sub.limit \in Nat /\ sub.refund \in Nat /\ sub.used <= sub.limit
  BY DEF Sound, GasMeter
<1>3. sub.limit <= m.limit - m.used /\ m.used + sub.limit <= m.limit
  <2>1. sub.limit <= Remaining(m)
    BY SubMeterSound
  <2>2. Remaining(m) = m.limit - m.used
    BY <1>1 DEF Remaining
  <2> QED
    BY <1>1, <1>2, <2>1, <2>2
<1>4. charged \in GasMeter /\ charged.limit = m.limit /\ charged.refund = m.refund
      /\ charged.used = m.used + sub.limit
  BY <1>1, <1>2, <1>3 DEF Consume, HasGas, GasMeter
<1>5. Remaining(sub) = sub.limit - sub.used
  BY <1>2 DEF Remaining
<1> HIDE DEF charged
<1>6. sub.limit - sub.used <= m.used + sub.limit
      /\ m.used + sub.limit - (sub.limit - sub.used) = m.used + sub.used
  BY <1>1, <1>2
<1>7. /\ after \in GasMeter /\ after.limit = m.limit
      /\ after.refund = m.refund + sub.refund /\ after.used = m.used + sub.used
  <2>1. after = [charged EXCEPT !.refund = @ + sub.refund,
                                !.used = IF Remaining(sub) > @ THEN 0 ELSE @ - Remaining(sub)]
    BY DEF ReturnGas
  <2>2. /\ after.refund = charged.refund + sub.refund
        /\ after.used = IF Remaining(sub) > charged.used THEN 0 ELSE charged.used - Remaining(sub)
        /\ after.limit = charged.limit
    BY <1>4, <2>1 DEF GasMeter
  <2>3. after.used = m.used + sub.used
    BY <1>1, <1>2, <1>4, <1>5, <1>6, <2>2
  <2>4. after = [charged EXCEPT !.refund = m.refund + sub.refund, !.used = m.used + sub.used]
    BY <1>4, <2>1, <2>2, <2>3, Zenon DEF GasMeter
  <2>5. m.refund + sub.refund \in Nat /\ m.used + sub.used \in Nat
    BY <1>1, <1>2
  <2> HIDE DEF after
  <2>6. after \in GasMeter
    BY <1>4, <2>4, <2>5, Zenon DEF GasMeter
  <2> QED
    BY <1>4, <2>2, <2>3, <2>6
<1>8. m.used + sub.used <= m.limit
  BY <1>1, <1>2, <1>3
<1> QED
  BY <1>7, <1>8 DEF Sound, charged

\* A caller that does not is charged nothing of what the callee used, and is even
\* given back what the callee left: sub_meter and return_gas alone lose gas.
THEOREM UnchargedCallIsFree ==
  ASSUME NEW m, Sound(m), NEW sub, Sound(sub)
  PROVE  LET after == ReturnGas(m, sub) IN
         /\ after.used <= m.used
         /\ sub.used < sub.limit /\ m.used > 0 => after.used < m.used
<1>1. m.used \in Nat /\ sub.used \in Nat /\ sub.limit \in Nat /\ sub.used <= sub.limit
  BY DEF Sound, GasMeter
<1>2. Remaining(sub) = sub.limit - sub.used
  BY <1>1 DEF Remaining
<1> DEFINE after == ReturnGas(m, sub)
<1>3. after.used = IF Remaining(sub) > m.used THEN 0 ELSE m.used - Remaining(sub)
  BY DEF ReturnGas, Sound, GasMeter
<1> HIDE DEF after
<1>4. /\ after.used <= m.used
      /\ sub.used < sub.limit /\ m.used > 0 => after.used < m.used
  BY <1>1, <1>2, <1>3
<1> QED
  BY <1>4 DEF after

-----------------------------------------------------------------------------
\* A machine that keeps to its limit, with the fields every interpreter has
Metered(m) ==
  /\ {"gas", "steps", "status", "lang"} \subseteq DOMAIN m
  /\ Sound(m.gas)
  /\ m.steps \in Nat

\* n is m after work that spends gas, if it spends any, within one step
Spends(m, n) ==
  Metered(m) =>
    /\ Metered(n)
    /\ n.lang = m.lang /\ n.steps = m.steps /\ n.gas.limit = m.gas.limit
    /\ n.gas.used >= m.gas.used
    /\ n.status = "running" => m.status = "running"
    /\ m.lang # "pact" => n.code = m.code

\* Work after work is work.
LEMMA SpendsTransitive ==
  ASSUME NEW m, NEW n, NEW o, Spends(m, n), Spends(n, o)
  PROVE  Spends(m, o)
BY DEF Spends, Metered, Sound, GasMeter

\* n differs from m in its data only
Keeps(m, n) ==
  /\ DOMAIN n = DOMAIN m /\ n.gas = m.gas /\ n.steps = m.steps /\ n.lang = m.lang
  /\ n.status = m.status
  /\ m.lang # "pact" => n.code = m.code

\* Changing data is work that spends nothing.
LEMMA SpendsNothing == \A m, n : Keeps(m, n) => Spends(m, n)
BY DEF Keeps, Spends, Metered, Sound, GasMeter

\* Changing any one field that holds data
LEMMA SpendsData ==
  ASSUME NEW m, NEW x
  PROVE  /\ Spends(m, [m EXCEPT !.active = x])
         /\ Spends(m, [m EXCEPT !.alt = x])
         /\ Spends(m, [m EXCEPT !.at = x])
         /\ Spends(m, [m EXCEPT !.bytes = x])
         /\ Spends(m, [m EXCEPT !.calls = x])
         /\ Spends(m, [m EXCEPT !.capabilities = x])
         /\ m.lang = "pact" => Spends(m, [m EXCEPT !.code = x])
         /\ Spends(m, [m EXCEPT !.call = x])
         /\ Spends(m, [m EXCEPT !.depth = x])
         /\ Spends(m, [m EXCEPT !.env = x])
         /\ Spends(m, [m EXCEPT !.exec = x])
         /\ Spends(m, [m EXCEPT !.frames = x])
         /\ Spends(m, [m EXCEPT !.functions = x])
         /\ Spends(m, [m EXCEPT !.globals = x])
         /\ Spends(m, [m EXCEPT !.granted = x])
         /\ Spends(m, [m EXCEPT !.heap = x])
         /\ Spends(m, [m EXCEPT !.ints = x])
         /\ Spends(m, [m EXCEPT !.keysets = x])
         /\ Spends(m, [m EXCEPT !.logs = x])
         /\ Spends(m, [m EXCEPT !.module = x])
         /\ Spends(m, [m EXCEPT !.modules = x])
         /\ Spends(m, [m EXCEPT !.ops = x])
         /\ Spends(m, [m EXCEPT !.pc = x])
         /\ Spends(m, [m EXCEPT !.regs = x])
         /\ Spends(m, [m EXCEPT !.stack = x])
         /\ Spends(m, [m EXCEPT !.store = x])
         /\ Spends(m, [m EXCEPT !.tables = x])
         /\ Spends(m, [m EXCEPT !.todo = x])
         /\ Spends(m, [m EXCEPT !.val = x])
<1>1. /\ Keeps(m, [m EXCEPT !.active = x])
      /\ Keeps(m, [m EXCEPT !.alt = x])
      /\ Keeps(m, [m EXCEPT !.at = x])
      /\ Keeps(m, [m EXCEPT !.bytes = x])
      /\ Keeps(m, [m EXCEPT !.calls = x])
      /\ Keeps(m, [m EXCEPT !.capabilities = x])
      /\ m.lang = "pact" => Keeps(m, [m EXCEPT !.code = x])
      /\ Keeps(m, [m EXCEPT !.call = x])
      /\ Keeps(m, [m EXCEPT !.depth = x])
      /\ Keeps(m, [m EXCEPT !.env = x])
      /\ Keeps(m, [m EXCEPT !.exec = x])
      /\ Keeps(m, [m EXCEPT !.frames = x])
      /\ Keeps(m, [m EXCEPT !.functions = x])
      /\ Keeps(m, [m EXCEPT !.globals = x])
      /\ Keeps(m, [m EXCEPT !.granted = x])
      /\ Keeps(m, [m EXCEPT !.heap = x])
      /\ Keeps(m, [m EXCEPT !.ints = x])
      /\ Keeps(m, [m EXCEPT !.keysets = x])
      /\ Keeps(m, [m EXCEPT !.logs = x])
      /\ Keeps(m, [m EXCEPT !.module = x])
      /\ Keeps(m, [m EXCEPT !.modules = x])
      /\ Keeps(m, [m EXCEPT !.ops = x])
      /\ Keeps(m, [m EXCEPT !.pc = x])
      /\ Keeps(m, [m EXCEPT !.regs = x])
      /\ Keeps(m, [m EXCEPT !.stack = x])
      /\ Keeps(m, [m EXCEPT !.store = x])
      /\ Keeps(m, [m EXCEPT !.tables = x])
      /\ Keeps(m, [m EXCEPT !.todo = x])
      /\ Keeps(m, [m EXCEPT !.val = x])
  BY DEF Keeps
<1> QED
  BY <1>1, SpendsNothing

\* So is consuming gas, and a status that is not running.
LEMMA SpendsGas ==
  ASSUME NEW m, NEW amount
  PROVE  Spends(m, [m EXCEPT !.gas = Consume(m.gas, amount)])
<1> DEFINE g == Consume(m.gas, amount)
           n == [m EXCEPT !.gas = g]
<1>1. Metered(m) => Sound(g) /\ g.limit = m.gas.limit /\ g.used >= m.gas.used
  BY ConsumeSound DEF Metered
<1> HIDE DEF g
<1>2. /\ DOMAIN n = DOMAIN m /\ n.gas = g
      /\ n.steps = m.steps /\ n.lang = m.lang /\ n.status = m.status /\ n.code = m.code
  OBVIOUS
<1> HIDE DEF n
<1>3. Spends(m, n)
  BY <1>1, <1>2 DEF Spends, Metered
<1> QED
  BY <1>3 DEF g, n

\* A status that stops the machine spends nothing.
LEMMA SpendsStatus ==
  ASSUME NEW m, NEW status, status # "running"
  PROVE  Spends(m, [m EXCEPT !.status = status])
<1> DEFINE n == [m EXCEPT !.status = status]
<1>1. /\ DOMAIN n = DOMAIN m /\ n.gas = m.gas
      /\ n.steps = m.steps /\ n.lang = m.lang /\ n.status = status /\ n.code = m.code
  OBVIOUS
<1> HIDE DEF n
<1>2. Spends(m, n)
  BY <1>1 DEF Spends, Metered, Sound, GasMeter
<1> QED
  BY <1>2 DEF n

\* The helpers of the Kaspa interpreter
LEMMA KaspaHelpers ==
  ASSUME NEW m
  PROVE  /\ Spends(m, Kaspa!Failed(m)) /\ Spends(m, Kaspa!Panics(m))
         /\ \A amount : Spends(m, Kaspa!Charge(m, amount))
         /\ \A e : Spends(m, Kaspa!Push(m, e))
         /\ \A n : Spends(m, Kaspa!Drop(m, n))
<1>1. Spends(m, Kaspa!Failed(m)) /\ Spends(m, Kaspa!Panics(m))
  BY SpendsStatus DEF Kaspa!Failed, Kaspa!Panics
<1>2. ASSUME NEW amount PROVE Spends(m, Kaspa!Charge(m, amount))
  <2>1. Kaspa!Consume(m.gas, amount) = Consume(m.gas, amount)
    BY DEF Kaspa!Consume, Consume, Kaspa!HasGas, HasGas
  <2> DEFINE paid == [m EXCEPT !.gas = Consume(m.gas, amount)]
  <2>2. Spends(m, paid)
    BY SpendsGas
  <2>3. Spends(paid, [paid EXCEPT !.status = "failed"])
    BY SpendsStatus, Zenon
  <2>4. Spends(m, [paid EXCEPT !.status = "failed"])
    BY <2>2, <2>3, SpendsTransitive
  <2> QED
    BY <2>1, <2>2, <2>4 DEF Kaspa!Charge, Kaspa!Failed
<1>3. ASSUME NEW e PROVE Spends(m, Kaspa!Push(m, e))
  <2>1. Keeps(m, m) /\ Keeps(m, [m EXCEPT !.stack = Append(m.stack, e)])
    BY DEF Keeps
  <2> QED
    BY <1>1, <2>1, SpendsNothing DEF Kaspa!Push
<1>4. ASSUME NEW n PROVE Spends(m, Kaspa!Drop(m, n))
  <2>1. Keeps(m, Kaspa!Drop(m, n))
    BY DEF Kaspa!Drop, Keeps
  <2> QED
    BY <2>1, SpendsNothing
<1> QED
  BY <1>1, <1>2, <1>3, <1>4

\* Pushing elements one after the other: the machines on the way
LEMMA PushAllSteps ==
  ASSUME NEW m, NEW es, Len(es) \in Nat
  PROVE  \E pushed :
           /\ pushed[0] = m
           /\ \A j, k \in 0..Len(es) : k = j + 1 => pushed[k] = Kaspa!Push(pushed[j], es[k])
           /\ Kaspa!PushAll(m, es) = pushed[Len(es)]
<1> DEFINE Def(f) == f = [k \in 0..Len(es) |-> IF k = 0 THEN m ELSE Kaspa!Push(f[k - 1], es[k])]
           pushed == CHOOSE f : Def(f)
<1>1. \E f : Def(f)
  <2> DEFINE P == {n \in Nat : \E f : f = [k \in 0..n |-> IF k = 0 THEN m ELSE Kaspa!Push(f[k - 1], es[k])]}
  <2>1. 0 \in P
    <3> DEFINE g == [k \in 0..0 |-> m]
    <3>1. g = [k \in 0..0 |-> IF k = 0 THEN m ELSE Kaspa!Push(g[k - 1], es[k])]
      OBVIOUS
    <3> QED
      BY <3>1, Zenon
  <2>2. ASSUME NEW n \in Nat, n \in P PROVE n + 1 \in P
    <3>1. PICK f : f = [k \in 0..n |-> IF k = 0 THEN m ELSE Kaspa!Push(f[k - 1], es[k])]
      BY <2>2
    <3> DEFINE g == [k \in 0..(n + 1) |-> IF k = n + 1 THEN Kaspa!Push(f[n], es[k]) ELSE f[k]]
    <3>2. g = [k \in 0..(n + 1) |-> IF k = 0 THEN m ELSE Kaspa!Push(g[k - 1], es[k])]
      BY <3>1
    <3> HIDE DEF g
    <3> QED
      BY <3>2
  <2> HIDE DEF P
  <2>3. \A n \in Nat : n \in P
    BY <2>1, <2>2, Induction
  <2> QED
    BY <2>3 DEF P
<1>2. Def(pushed)
  BY <1>1, Zenon
<1> HIDE DEF pushed
<1>3. Kaspa!PushAll(m, es) = pushed[Len(es)]
  BY DEF Kaspa!PushAll, pushed
<1>4. pushed[0] = m /\ \A j, k \in 0..Len(es) : k = j + 1 => pushed[k] = Kaspa!Push(pushed[j], es[k])
  BY <1>2
<1> QED
  BY <1>3, <1>4

\* ... which is work, whatever they are.
LEMMA KaspaPushAll ==
  ASSUME NEW m, NEW es, Len(es) \in Nat
  PROVE  Spends(m, Kaspa!PushAll(m, es))
<1>1. PICK pushed : /\ pushed[0] = m
                    /\ \A j, k \in 0..Len(es) : k = j + 1 => pushed[k] = Kaspa!Push(pushed[j], es[k])
                    /\ Kaspa!PushAll(m, es) = pushed[Len(es)]
  BY PushAllSteps
<1> DEFINE S == {n \in Nat : n <= Len(es) => Spends(m, pushed[n])}
<1>5. 0 \in S
  BY <1>1, SpendsNothing DEF Keeps
<1>6. ASSUME NEW n \in Nat, n \in S PROVE n + 1 \in S
  <2> SUFFICES ASSUME n + 1 <= Len(es) PROVE Spends(m, pushed[n + 1])
    OBVIOUS
  <2>1. Spends(m, pushed[n]) /\ pushed[n + 1] = Kaspa!Push(pushed[n], es[n + 1])
    BY <1>1, <1>6
  <2> QED
    BY <2>1, KaspaHelpers, SpendsTransitive, Zenon
<1> HIDE DEF S
<1>7. Len(es) \in S
  BY <1>5, <1>6, Induction
<1> QED
  BY <1>1, <1>7 DEF S

\* A step of the interpreter that fetches a token spends from there on
LEMMA KaspaSpends ==
  ASSUME NEW before, NEW after, Kaspa!Step(before, after), ~Kaspa!EndOfScript(before, after)
  PROVE  Spends(Kaspa!Fetched(before), after)
<1>1. Spends(Kaspa!Fetched(before), Kaspa!Fetched(before))
  BY SpendsNothing DEF Keeps
<1>2. \A m, n : Spends(m, Kaspa!Leaves(m, n))
  BY KaspaHelpers DEF Kaspa!Leaves
<1>3. CASE Kaspa!OutOfGas(before, after) \/ Kaspa!TooManyOps(before, after)
          \/ Kaspa!PushOp(before, after) \/ Kaspa!CutPush(before, after)
  BY <1>1, <1>3, KaspaHelpers, SpendsTransitive
     DEF Kaspa!OutOfGas, Kaspa!TooManyOps, Kaspa!PushOp, Kaspa!CutPush
<1>4. CASE Kaspa!Skip(before, after) \/ Kaspa!Fault(before, after) \/ Kaspa!Nop(before, after)
  BY <1>1, <1>4, KaspaHelpers, SpendsTransitive
     DEF Kaspa!Skip, Kaspa!Fault, Kaspa!Nop
<1>5. CASE Kaspa!Verify(before, after)
  BY <1>1, <1>5, KaspaHelpers, SpendsTransitive
     DEF Kaspa!Verify, Kaspa!Fetch
<1>6. CASE Kaspa!Depth(before, after)
  BY <1>1, <1>6, KaspaHelpers, SpendsTransitive, Zenon
     DEF Kaspa!Depth
<1>7. CASE Kaspa!IfDup(before, after)
  BY <1>1, <1>7, KaspaHelpers, SpendsTransitive
     DEF Kaspa!IfDup
<1>8. CASE Kaspa!Cat(before, after)
  BY <1>1, <1>8, KaspaHelpers, SpendsTransitive, Zenon
     DEF Kaspa!Cat
<1>9. CASE Kaspa!SubStr(before, after)
  BY <1>1, <1>9, KaspaHelpers, SpendsTransitive, Zenon
     DEF Kaspa!SubStr
<1>10. CASE Kaspa!Side(before, after)
  BY <1>1, <1>10, KaspaHelpers, SpendsTransitive, Zenon
     DEF Kaspa!Side
<1>11. CASE Kaspa!SizeOp(before, after)
  BY <1>1, <1>11, KaspaHelpers, SpendsTransitive, Zenon
     DEF Kaspa!SizeOp
<1>12. CASE Kaspa!Invert(before, after)
  BY <1>1, <1>12, KaspaHelpers, SpendsTransitive, Zenon
     DEF Kaspa!Invert
<1>13. CASE Kaspa!Combine(before, after)
  BY <1>1, <1>13, KaspaHelpers, SpendsTransitive, Zenon
     DEF Kaspa!Combine
<1>14. CASE Kaspa!Within(before, after)
  BY <1>1, <1>14, KaspaHelpers, SpendsTransitive, Zenon
     DEF Kaspa!Within
<1>15. CASE Kaspa!HashOp(before, after)
  BY <1>1, <1>15, KaspaHelpers, SpendsTransitive, Zenon
     DEF Kaspa!HashOp
<1>16. CASE Kaspa!CheckSig(before, after)
  BY <1>1, <1>16, KaspaHelpers, SpendsTransitive, Zenon
     DEF Kaspa!CheckSig
<1>17. CASE Kaspa!MultiSig(before, after)
  BY <1>1, <1>17, KaspaHelpers, SpendsTransitive, Zenon
     DEF Kaspa!MultiSig
<1>18. CASE Kaspa!LockTime(before, after)
  BY <1>1, <1>18, KaspaHelpers, SpendsTransitive
     DEF Kaspa!LockTime
<1>19. CASE Kaspa!TxField(before, after)
  BY <1>1, <1>19, KaspaHelpers, SpendsTransitive
     DEF Kaspa!TxField
<1>20. CASE Kaspa!TxEntry(before, after)
  BY <1>1, <1>20, KaspaHelpers, SpendsTransitive, Zenon
     DEF Kaspa!TxEntry
<1>21. CASE Kaspa!StateGet(before, after)
  BY <1>1, <1>21, KaspaHelpers, SpendsTransitive, Zenon
     DEF Kaspa!StateGet
<1>22. CASE Kaspa!If(before, after)
  BY <1>1, <1>22, KaspaHelpers, SpendsData, SpendsTransitive, Zenon
     DEF Kaspa!If
<1>23. CASE Kaspa!Else(before, after)
  BY <1>1, <1>23, KaspaHelpers, SpendsData, SpendsTransitive, Zenon
     DEF Kaspa!Else
<1>24. CASE Kaspa!EndIf(before, after)
  BY <1>1, <1>24, KaspaHelpers, SpendsData, SpendsTransitive, Zenon
     DEF Kaspa!EndIf
<1>25. CASE Kaspa!Tuck(before, after)
  BY <1>1, <1>25, KaspaHelpers, SpendsData, SpendsTransitive, Zenon
     DEF Kaspa!Tuck
<1>26. CASE Kaspa!ToAlt(before, after)
  BY <1>1, <1>26, KaspaHelpers, SpendsData, SpendsTransitive, Zenon
     DEF Kaspa!ToAlt
<1>27. CASE Kaspa!FromAlt(before, after)
  BY <1>1, <1>27, KaspaHelpers, SpendsData, SpendsTransitive, Zenon
     DEF Kaspa!FromAlt
<1>28. CASE Kaspa!Pick(before, after)
  BY <1>1, <1>28, KaspaHelpers, SpendsData, SpendsTransitive, Zenon
     DEF Kaspa!Pick
<1>29. CASE Kaspa!Arithmetic1(before, after)
  BY <1>1, <1>29, KaspaHelpers, <1>2, SpendsTransitive, Zenon
     DEF Kaspa!Arithmetic1
<1>30. CASE Kaspa!Arithmetic2(before, after)
  BY <1>1, <1>30, KaspaHelpers, <1>2, SpendsTransitive
     DEF Kaspa!Arithmetic2
<1>31. CASE Kaspa!StatePut(before, after)
  BY <1>1, <1>31, KaspaHelpers, SpendsData, SpendsTransitive, Zenon
     DEF Kaspa!StatePut
<1>32. CASE Kaspa!StateDelete(before, after)
  BY <1>1, <1>32, KaspaHelpers, SpendsData, SpendsTransitive, Zenon
     DEF Kaspa!StateDelete
<1>33. CASE Kaspa!EmitEvent(before, after)
  BY <1>1, <1>33, KaspaHelpers, SpendsData, SpendsTransitive, ZenonT(60)
     DEF Kaspa!EmitEvent
<1>34. CASE Kaspa!Rearrange(before, after)
  <2> DEFINE es == Kaspa!Rearranged(before, Kaspa!Token(before).op)
             m == Kaspa!Drop(Kaspa!Fetched(before), Kaspa!Rearranges[Kaspa!Token(before).op])
  <2>1. Kaspa!Token(before).op \in DOMAIN Kaspa!Rearranges
    BY <1>34 DEF Kaspa!Rearrange, Kaspa!Fetch
  <2>2. Len(es) \in Nat
    BY <2>1 DEF Kaspa!Rearranged, Kaspa!Rearranges
  <2> HIDE DEF es
  <2>3. Spends(m, Kaspa!PushAll(m, es))
    BY <2>2, KaspaPushAll
  <2>4. Spends(Kaspa!Fetched(before), Kaspa!PushAll(m, es))
    BY <2>3, KaspaHelpers, SpendsTransitive
  <2> QED
    BY <1>34, <2>4, KaspaHelpers DEF Kaspa!Rearrange, es
<1> QED
  BY <1>3, <1>4, <1>5, <1>6, <1>7, <1>8, <1>9, <1>10, <1>11, <1>12, <1>13, <1>14, <1>15, <1>16,
     <1>17, <1>18, <1>19, <1>20, <1>21, <1>22, <1>23, <1>24, <1>25, <1>26, <1>27, <1>28, <1>29,
     <1>30, <1>31, <1>32, <1>33, <1>34 DEF Kaspa!Step

-----------------------------------------------------------------------------
\* The helpers of the AVM interpreter
LEMMA AvmHelpers ==
  ASSUME NEW m
  PROVE  /\ Spends(m, Avm!Failed(m)) /\ Spends(m, Avm!Panics(m))
         /\ \A amount : Spends(m, Avm!Charge(m, amount))
<1>1. Spends(m, Avm!Failed(m)) /\ Spends(m, Avm!Panics(m))
  BY SpendsStatus DEF Avm!Failed, Avm!Panics
<1>2. ASSUME NEW amount PROVE Spends(m, Avm!Charge(m, amount))
  <2>1. Avm!Consume(m.gas, amount) = Consume(m.gas, amount)
    BY DEF Avm!Consume, Consume, Avm!HasGas, HasGas
  <2> DEFINE paid == [m EXCEPT !.gas = Consume(m.gas, amount)]
  <2>2. Spends(m, paid)
    BY SpendsGas
  <2>3. Spends(paid, [paid EXCEPT !.status = "failed"])
    BY SpendsStatus, Zenon
  <2>4. Spends(m, [paid EXCEPT !.status = "failed"])
    BY <2>2, <2>3, SpendsTransitive
  <2> QED
    BY <2>1, <2>2, <2>4 DEF Avm!Charge, Avm!Failed
<1> QED
  BY <1>1, <1>2

\* Pushing a value, and dropping some
LEMMA AvmStack ==
  ASSUME NEW m
  PROVE  /\ \A v : Spends(m, Avm!Push(m, v))
         /\ \A n : Spends(m, Avm!Drop(m, n))
<1>1. Spends(m, m)
  BY SpendsNothing DEF Keeps
<1>2. ASSUME NEW v PROVE Spends(m, Avm!Push(m, v))
  BY <1>1, AvmHelpers, SpendsData, Zenon DEF Avm!Push
<1>3. ASSUME NEW n PROVE Spends(m, Avm!Drop(m, n))
  BY SpendsData, Zenon DEF Avm!Drop
<1> QED
  BY <1>2, <1>3

\* Reading the constants of a block one after the other
LEMMA AvmReadIntSteps ==
  ASSUME NEW m, NEW count, Avm!Size(m) \in Nat
  PROVE  \E read :
           /\ read[0] = m
           /\ \A j, k \in 0..(Avm!Size(m) + 1) : k = j + 1 => read[k] = Avm!ReadInt(read[j])
           /\ Avm!ReadAll(Avm!ReadInt, m, count)
                = read[IF count \in 0..Avm!Size(m) THEN count ELSE Avm!Size(m) + 1]
<1> DEFINE Def(f, n) == f = [i \in 0..n |-> IF i = 0 THEN m ELSE Avm!ReadInt(f[i - 1])]
           read == CHOOSE f : Def(f, Avm!Size(m) + 1)
           end == IF count \in 0..Avm!Size(m) THEN count ELSE Avm!Size(m) + 1
<1>1. \A n \in Nat : \E f : Def(f, n)
  <2> DEFINE P == {n \in Nat : \E f : Def(f, n)}
  <2>1. 0 \in P
    <3> DEFINE g == [k \in 0..0 |-> m]
    <3>1. Def(g, 0)
      OBVIOUS
    <3> QED
      BY <3>1, Zenon
  <2>2. ASSUME NEW n \in Nat, n \in P PROVE n + 1 \in P
    <3>1. PICK f : Def(f, n)
      BY <2>2
    <3> DEFINE g == [k \in 0..(n + 1) |-> IF k = n + 1 THEN Avm!ReadInt(f[n]) ELSE f[k]]
    <3>2. Def(g, n + 1)
      BY <3>1
    <3> HIDE DEF g, Def
    <3> QED
      BY <3>2
  <2> HIDE DEF P
  <2>3. \A n \in Nat : n \in P
    BY <2>1, <2>2, Induction
  <2> QED
    BY <2>3, Zenon DEF P
<1>2. Def(read, Avm!Size(m) + 1)
  <2>1. Avm!Size(m) + 1 \in Nat
    OBVIOUS
  <2>2. \E f : Def(f, Avm!Size(m) + 1)
    BY <1>1, <2>1
  <2> HIDE DEF Def
  <2> QED
    BY <2>2
<1> HIDE DEF read
<1>3. read[0] = m /\ \A j, k \in 0..(Avm!Size(m) + 1) : k = j + 1 => read[k] = Avm!ReadInt(read[j])
  BY <1>2
<1>4. Avm!ReadAll(Avm!ReadInt, m, count) = read[end]
  BY DEF Avm!ReadAll, read
<1> HIDE DEF Def
<1> QED
  BY <1>3, <1>4

\* ... is work, whatever they are.
LEMMA AvmReadIntSpends ==
  ASSUME NEW m, NEW count, Avm!Size(m) \in Nat
  PROVE  Spends(m, Avm!ReadAll(Avm!ReadInt, m, count))
<1> DEFINE end == IF count \in 0..Avm!Size(m) THEN count ELSE Avm!Size(m) + 1
<1>1. PICK read : /\ read[0] = m
                  /\ \A j, k \in 0..(Avm!Size(m) + 1) : k = j + 1 => read[k] = Avm!ReadInt(read[j])
                  /\ Avm!ReadAll(Avm!ReadInt, m, count) = read[end]
  BY AvmReadIntSteps, Zenon
<1>5. \A x : Spends(x, Avm!ReadInt(x))
  <2> TAKE x
  <2>1. Spends(x, x)
    BY SpendsNothing DEF Keeps
  <2> QED
    BY <2>1, AvmHelpers, SpendsData, SpendsTransitive, Zenon DEF Avm!ReadInt
<1> DEFINE S == {n \in Nat : n <= Avm!Size(m) + 1 => Spends(m, read[n])}
<1>6. 0 \in S
  BY <1>1, SpendsNothing DEF Keeps
<1>7. ASSUME NEW n \in Nat, n \in S PROVE n + 1 \in S
  <2> SUFFICES ASSUME n + 1 <= Avm!Size(m) + 1 PROVE Spends(m, read[n + 1])
    OBVIOUS
  <2>1. Spends(m, read[n]) /\ read[n + 1] = Avm!ReadInt(read[n])
    BY <1>1, <1>7
  <2> QED
    BY <2>1, <1>5, SpendsTransitive
<1> HIDE DEF S
<1>8. end \in Nat /\ end <= Avm!Size(m) + 1
  OBVIOUS
<1> HIDE DEF end
<1>9. end \in S
  BY <1>6, <1>7, <1>8, Induction
<1> QED
  BY <1>1, <1>8, <1>9 DEF S

\* Reading the constants of a block one after the other
LEMMA AvmReadBytesSteps ==
  ASSUME NEW m, NEW count, Avm!Size(m) \in Nat
  PROVE  \E read :
           /\ read[0] = m
           /\ \A j, k \in 0..(Avm!Size(m) + 1) : k = j + 1 => read[k] = Avm!ReadBytes(read[j])
           /\ Avm!ReadAll(Avm!ReadBytes, m, count)
                = read[IF count \in 0..Avm!Size(m) THEN count ELSE Avm!Size(m) + 1]
<1> DEFINE Def(f, n) == f = [i \in 0..n |-> IF i = 0 THEN m ELSE Avm!ReadBytes(f[i - 1])]
           read == CHOOSE f : Def(f, Avm!Size(m) + 1)
           end == IF count \in 0..Avm!Size(m) THEN count ELSE Avm!Size(m) + 1
<1>1. \A n \in Nat : \E f : Def(f, n)
  <2> DEFINE P == {n \in Nat : \E f : Def(f, n)}
  <2>1. 0 \in P
    <3> DEFINE g == [k \in 0..0 |-> m]
    <3>1. Def(g, 0)
      OBVIOUS
    <3> QED
      BY <3>1, Zenon
  <2>2. ASSUME NEW n \in Nat, n \in P PROVE n + 1 \in P
    <3>1. PICK f : Def(f, n)
      BY <2>2
    <3> DEFINE g == [k \in 0..(n + 1) |-> IF k = n + 1 THEN Avm!ReadBytes(f[n]) ELSE f[k]]
    <3>2. Def(g, n + 1)
      BY <3>1
    <3> HIDE DEF g, Def
    <3> QED
      BY <3>2
  <2> HIDE DEF P
  <2>3. \A n \in Nat : n \in P
    BY <2>1, <2>2, Induction
  <2> QED
    BY <2>3, Zenon DEF P
<1>2. Def(read, Avm!Size(m) + 1)
  <2>1. Avm!Size(m) + 1 \in Nat
    OBVIOUS
  <2>2. \E f : Def(f, Avm!Size(m) + 1)
    BY <1>1, <2>1
  <2> HIDE DEF Def
  <2> QED
    BY <2>2
<1> HIDE DEF read
<1>3. read[0] = m /\ \A j, k \in 0..(Avm!Size(m) + 1) : k = j + 1 => read[k] = Avm!ReadBytes(read[j])
  BY <1>2
<1>4. Avm!ReadAll(Avm!ReadBytes, m, count) = read[end]
  BY DEF Avm!ReadAll, read
<1> HIDE DEF Def
<1> QED
  BY <1>3, <1>4

\* ... is work, whatever they are.
LEMMA AvmReadBytesSpends ==
  ASSUME NEW m, NEW count, Avm!Size(m) \in Nat
  PROVE  Spends(m, Avm!ReadAll(Avm!ReadBytes, m, count))
<1> DEFINE end == IF count \in 0..Avm!Size(m) THEN count ELSE Avm!Size(m) + 1
<1>1. PICK read : /\ read[0] = m
                  /\ \A j, k \in 0..(Avm!Size(m) + 1) : k = j + 1 => read[k] = Avm!ReadBytes(read[j])
                  /\ Avm!ReadAll(Avm!ReadBytes, m, count) = read[end]
  BY AvmReadBytesSteps, Zenon
<1>5. \A x : Spends(x, Avm!ReadBytes(x))
  <2> TAKE x
  <2>1. Spends(x, x)
    BY SpendsNothing DEF Keeps
  <2> QED
    BY <2>1, AvmHelpers, SpendsData, SpendsTransitive, ZenonT(60) DEF Avm!ReadBytes
<1> DEFINE S == {n \in Nat : n <= Avm!Size(m) + 1 => Spends(m, read[n])}
<1>6. 0 \in S
  BY <1>1, SpendsNothing DEF Keeps
<1>7. ASSUME NEW n \in Nat, n \in S PROVE n + 1 \in S
  <2> SUFFICES ASSUME n + 1 <= Avm!Size(m) + 1 PROVE Spends(m, read[n + 1])
    OBVIOUS
  <2>1. Spends(m, read[n]) /\ read[n + 1] = Avm!ReadBytes(read[n])
    BY <1>1, <1>7
  <2> QED
    BY <2>1, <1>5, SpendsTransitive
<1> HIDE DEF S
<1>8. end \in Nat /\ end <= Avm!Size(m) + 1
  OBVIOUS
<1> HIDE DEF end
<1>9. end \in S
  BY <1>6, <1>7, <1>8, Induction
<1> QED
  BY <1>1, <1>8, <1>9 DEF S

\* A step of the interpreter that fetches an opcode spends from there on
LEMMA AvmSpends ==
  ASSUME NEW before, NEW after, Avm!Step(before, after), ~Avm!EndOfCode(before, after),
      Avm!Size(before) \in Nat
  PROVE  Spends(Avm!Fetched(before), after)
<1>1. Spends(Avm!Fetched(before), Avm!Fetched(before))
  BY SpendsNothing DEF Keeps
<1>2. CASE Avm!OutOfGas(before, after)
  BY <1>1, <1>2, AvmHelpers, AvmStack, SpendsData, SpendsTransitive
     DEF Avm!OutOfGas
<1>3. CASE Avm!IntcBlock(before, after)
  <2>1. Avm!Size(Avm!Fetched(before)) \in Nat
    BY DEF Avm!Size, Avm!Fetched
  <2> QED
    BY <1>1, <1>3, <2>1, AvmHelpers, SpendsData, SpendsTransitive, AvmReadIntSpends, Zenon
       DEF Avm!IntcBlock, Avm!IntConstants
<1>4. CASE Avm!BytecBlock(before, after)
  <2> DEFINE past == [Avm!Fetched(before) EXCEPT !.pc = @ + Avm!VarSize(before, before.pc + 1)]
  <2>1. Avm!Size(past) \in Nat
    BY DEF Avm!Size, Avm!Fetched
  <2>2. Spends(Avm!Fetched(before), past)
    BY SpendsData, Zenon
  <2> HIDE DEF past
  <2>3. \A count : Spends(Avm!Fetched(before), Avm!ReadAll(Avm!ReadBytes, past, count))
    BY <2>1, <2>2, SpendsTransitive, AvmReadBytesSpends
  <2> QED
    BY <1>1, <1>4, <2>3, AvmHelpers DEF Avm!BytecBlock, past
<1>5. CASE Avm!IndexedConstant(before, after)
  BY <1>1, <1>5, AvmHelpers, AvmStack, SpendsData, SpendsTransitive, Zenon
     DEF Avm!IndexedConstant
<1>6. CASE Avm!NamedConstant(before, after)
  BY <1>1, <1>6, AvmHelpers, AvmStack, SpendsData, SpendsTransitive, Zenon
     DEF Avm!NamedConstant
<1>7. CASE Avm!Arithmetic(before, after)
  BY <1>1, <1>7, AvmHelpers, AvmStack, SpendsData, SpendsTransitive
     DEF Avm!Arithmetic
<1>8. CASE Avm!Logic(before, after)
  BY <1>1, <1>8, AvmHelpers, AvmStack, SpendsData, SpendsTransitive, Zenon
     DEF Avm!Logic
<1>9. CASE Avm!Not(before, after)
  BY <1>1, <1>9, AvmHelpers, AvmStack, SpendsData, SpendsTransitive
     DEF Avm!Not
<1>10. CASE Avm!StackOp(before, after)
  <2>1. Avm!Opcode(before) \in {72, 74, 79}
    BY <1>10 DEF Avm!StackOp, Avm!Fetch
  <2>2. \/ after = Avm!Failed(Avm!Fetched(before))
        \/ after = Avm!Push(Avm!Fetched(before), Avm!Top(Avm!Fetched(before), 1))
        \/ after = Avm!Drop(Avm!Fetched(before), 1)
        \/ \E x, y : after = Avm!Push(Avm!Push(Avm!Drop(Avm!Fetched(before), 2), x), y)
    BY <1>10, <2>1 DEF Avm!StackOp
  <2>3. ASSUME NEW x, NEW y
        PROVE  Spends(Avm!Fetched(before), Avm!Push(Avm!Push(Avm!Drop(Avm!Fetched(before), 2), x), y))
    <3> DEFINE rest == Avm!Drop(Avm!Fetched(before), 2)
    <3>1. Spends(Avm!Fetched(before), rest)
      BY AvmStack
    <3> HIDE DEF rest
    <3>2. Spends(rest, Avm!Push(rest, x))
      BY AvmStack
    <3> QED
      BY <3>1, <3>2, AvmStack, SpendsTransitive
  <2> QED
    BY <2>2, <2>3, AvmHelpers, AvmStack
<1>11. CASE Avm!Branch(before, after)
  BY <1>1, <1>11, AvmHelpers, AvmStack, SpendsData, SpendsTransitive, ZenonT(60)
     DEF Avm!Branch
<1>12. CASE Avm!Return(before, after)
  BY <1>12, SpendsStatus DEF Avm!Return
<1>13. CASE Avm!Fault(before, after)
  BY <1>1, <1>13, AvmHelpers, AvmStack, SpendsData, SpendsTransitive
     DEF Avm!Fault
<1>14. CASE Avm!AssertTrue(before, after)
  BY <1>1, <1>14, AvmHelpers, AvmStack, SpendsData, SpendsTransitive
     DEF Avm!AssertTrue
<1>15. CASE Avm!Hash(before, after)
  BY <1>1, <1>15, AvmHelpers, AvmStack, SpendsData, SpendsTransitive, Zenon
     DEF Avm!Hash
<1>16. CASE Avm!GlobalGet(before, after)
  BY <1>1, <1>16, AvmHelpers, AvmStack, SpendsData, SpendsTransitive, Zenon
     DEF Avm!GlobalGet
<1>17. CASE Avm!GlobalPut(before, after)
  BY <1>1, <1>17, AvmHelpers, AvmStack, SpendsData, SpendsTransitive, Zenon
     DEF Avm!GlobalPut
<1>18. CASE Avm!Log(before, after)
  BY <1>1, <1>18, AvmHelpers, AvmStack, SpendsData, SpendsTransitive, ZenonT(60)
     DEF Avm!Log
<1>19. CASE Avm!BytesOp(before, after)
  BY <1>1, <1>19, AvmHelpers, AvmStack, SpendsData, SpendsTransitive, ZenonT(60)
     DEF Avm!BytesOp
<1> QED
  BY <1>2, <1>3, <1>4, <1>5, <1>6, <1>7, <1>8, <1>9, <1>10, <1>11, <1>12, <1>13, <1>14, <1>15,
     <1>16, <1>17, <1>18, <1>19 DEF Avm!Step

-----------------------------------------------------------------------------
\* The helpers of the SBF interpreter
LEMMA SbfHelpers ==
  ASSUME NEW m
  PROVE  /\ Spends(m, Sbf!Failed(m)) /\ Spends(m, Sbf!Panics(m))
         /\ \A amount : Spends(m, Sbf!Charge(m, amount))
<1>1. Spends(m, Sbf!Failed(m)) /\ Spends(m, Sbf!Panics(m))
  BY SpendsStatus DEF Sbf!Failed, Sbf!Panics
<1>2. ASSUME NEW amount PROVE Spends(m, Sbf!Charge(m, amount))
  <2>1. Sbf!Consume(m.gas, amount) = Consume(m.gas, amount)
    BY DEF Sbf!Consume, Consume, Sbf!HasGas, HasGas
  <2> DEFINE paid == [m EXCEPT !.gas = Consume(m.gas, amount)]
  <2>2. Spends(m, paid)
    BY SpendsGas
  <2>3. Spends(paid, [paid EXCEPT !.status = "failed"])
    BY SpendsStatus, Zenon
  <2>4. Spends(m, [paid EXCEPT !.status = "failed"])
    BY <2>2, <2>3, SpendsTransitive
  <2> QED
    BY <2>1, <2>2, <2>4 DEF Sbf!Charge, Sbf!Failed
<1> QED
  BY <1>1, <1>2

\* A step of the interpreter that fetches an instruction spends from there on
LEMMA SbfSpends ==
  ASSUME NEW before, NEW after, Sbf!Step(before, after), ~Sbf!EndOfCode(before, after)
  PROVE  Spends(Sbf!Fetched(before), after)
<1>1. Spends(Sbf!Fetched(before), Sbf!Fetched(before))
  BY SpendsNothing DEF Keeps
<1>2. ASSUME NEW m, NEW r, NEW v PROVE Spends(m, Sbf!Set(m, r, v))
  <2>1. Keeps(m, Sbf!Set(m, r, v))
    BY DEF Keeps, Sbf!Set
  <2> QED
    BY <2>1, SpendsNothing
<1>3. ASSUME NEW m, NEW to PROVE Spends(m, Sbf!Goto(m, to))
  BY SpendsData, Zenon DEF Sbf!Goto
<1>4. CASE Sbf!OutOfGas(before, after)
  BY <1>1, <1>2, <1>3, <1>4, SbfHelpers, SpendsData, SpendsTransitive
     DEF Sbf!OutOfGas
<1>5. CASE Sbf!Alu(before, after)
  BY <1>1, <1>2, <1>3, <1>5, SbfHelpers, SpendsData, SpendsTransitive
     DEF Sbf!Alu
<1>6. CASE Sbf!Load(before, after)
  BY <1>1, <1>2, <1>3, <1>6, SbfHelpers, SpendsData, SpendsTransitive
     DEF Sbf!Load
<1>7. CASE Sbf!Store(before, after)
  BY <1>1, <1>2, <1>3, <1>7, SbfHelpers, SpendsData, SpendsTransitive, Zenon
     DEF Sbf!Store
<1>8. CASE Sbf!Jump(before, after)
  BY <1>1, <1>2, <1>3, <1>8, SbfHelpers, SpendsData, SpendsTransitive
     DEF Sbf!Jump
<1>9. CASE Sbf!CondJump(before, after)
  BY <1>1, <1>2, <1>3, <1>9, SbfHelpers, SpendsData, SpendsTransitive
     DEF Sbf!CondJump
<1>10. CASE Sbf!CallFunction(before, after)
  BY <1>1, <1>2, <1>3, <1>10, SbfHelpers, SpendsData, SpendsTransitive, Zenon
     DEF Sbf!CallFunction, Sbf!Called, Sbf!Paid
<1>11. CASE Sbf!LogCall(before, after)
  BY <1>1, <1>2, <1>3, <1>11, SbfHelpers, SpendsData, SpendsTransitive, ZenonT(60)
     DEF Sbf!LogCall, Sbf!Called, Sbf!Paid
<1>12. CASE Sbf!ShaCall(before, after)
  BY <1>1, <1>2, <1>3, <1>12, SbfHelpers, SpendsData, SpendsTransitive
     DEF Sbf!ShaCall, Sbf!Called, Sbf!Paid
<1>13. CASE Sbf!Exit(before, after)
  BY <1>13, SpendsStatus, SpendsData, SpendsTransitive, Zenon DEF Sbf!Exit
<1>14. CASE Sbf!Invalid(before, after)
  BY <1>1, <1>2, <1>3, <1>14, SbfHelpers, SpendsData, SpendsTransitive
     DEF Sbf!Invalid
<1> QED
  BY <1>4, <1>5, <1>6, <1>7, <1>8, <1>9, <1>10, <1>11, <1>12, <1>13, <1>14 DEF Sbf!Step

-----------------------------------------------------------------------------
\* What a Pact function leaves alone besides: the scope and the calls that wait
Scope(m) == <<m.env, m.active, m.module, m.depth, m.frames, m.todo>>
Aside(m, n) == Spends(m, n) /\ Scope(n) = Scope(m)

\* Work after work
LEMMA AsideTransitive ==
  ASSUME NEW m, NEW n, NEW o, Aside(m, n), Aside(n, o)
  PROVE  Aside(m, o)
BY SpendsTransitive DEF Aside

\* The helpers of the Pact interpreter, and what its functions change
LEMMA PactHelpers ==
  ASSUME NEW m
  PROVE  /\ Aside(m, m)
         /\ Aside(m, Pact!Failed(m)) /\ Aside(m, Pact!Panics(m))
         /\ \A amount : Aside(m, Pact!Charge(m, amount))
         /\ \A v : Aside(m, Pact!Give(m, v))
<1>1. Aside(m, m)
  BY SpendsNothing DEF Keeps, Aside
<1>2. ASSUME NEW status, status # "running" PROVE Aside(m, [m EXCEPT !.status = status])
  BY <1>2, SpendsStatus DEF Aside, Scope
<1>3. Aside(m, Pact!Failed(m)) /\ Aside(m, Pact!Panics(m))
  BY <1>2 DEF Pact!Failed, Pact!Panics
<1>4. ASSUME NEW amount PROVE Aside(m, Pact!Charge(m, amount))
  <2>1. Pact!Consume(m.gas, amount) = Consume(m.gas, amount)
    BY DEF Pact!Consume, Consume, Pact!HasGas, HasGas
  <2> DEFINE paid == [m EXCEPT !.gas = Consume(m.gas, amount)]
             out == [paid EXCEPT !.status = "failed"]
  <2>2. Spends(m, paid)
    BY SpendsGas
  <2>3. Spends(paid, out)
    BY SpendsStatus, Zenon
  <2>4. Spends(m, out)
    BY <2>2, <2>3, SpendsTransitive
  <2>5. Scope(paid) = Scope(m) /\ Scope(out) = Scope(m)
    BY DEF Scope
  <2> QED
    BY <2>1, <2>2, <2>4, <2>5 DEF Pact!Charge, Pact!Failed, Aside
<1>5. ASSUME NEW v PROVE Aside(m, Pact!Give(m, v))
  <2>1. Scope([m EXCEPT !.val = v]) = Scope(m)
    BY DEF Scope
  <2> QED
    BY <1>1, <2>1, SpendsData, Zenon DEF Pact!Give, Aside
<1> QED
  BY <1>1, <1>3, <1>4, <1>5

\* The tables of definitions, and the logs
LEMMA AsideData ==
  ASSUME NEW m, NEW x
  PROVE  /\ Aside(m, [m EXCEPT !.keysets = x]) /\ Aside(m, [m EXCEPT !.logs = x])
         /\ Aside(m, [m EXCEPT !.functions = x]) /\ Aside(m, [m EXCEPT !.capabilities = x])
         /\ Aside(m, [m EXCEPT !.tables = x]) /\ Aside(m, [m EXCEPT !.modules = x])
         /\ Aside(m, [m EXCEPT !.granted = x])
<1>1. /\ Scope([m EXCEPT !.keysets = x]) = Scope(m)
      /\ Scope([m EXCEPT !.logs = x]) = Scope(m)
      /\ Scope([m EXCEPT !.functions = x]) = Scope(m)
      /\ Scope([m EXCEPT !.capabilities = x]) = Scope(m)
      /\ Scope([m EXCEPT !.tables = x]) = Scope(m)
      /\ Scope([m EXCEPT !.modules = x]) = Scope(m)
      /\ Scope([m EXCEPT !.granted = x]) = Scope(m)
  BY DEF Scope
<1> QED
  BY <1>1, SpendsData, Zenon DEF Aside

\* pow multiplies step by step
LEMMA RaiseSteps ==
  ASSUME NEW m, NEW a, NEW b \in Nat
  PROVE  \E power :
           /\ power[0] = Pact!Give(m, Pact!Integer(1))
           /\ \A j, k \in 0..b : k = j + 1 => power[k] = Pact!Times(power[j], a)
           /\ Pact!Raise(m, a, b) = power[b]
<1> DEFINE Def(f, n) ==
             f = [i \in 0..n |-> IF i = 0 THEN Pact!Give(m, Pact!Integer(1)) ELSE Pact!Times(f[i - 1], a)]
           power == CHOOSE f : Def(f, b)
<1>1. \A n \in Nat : \E f : Def(f, n)
  <2> DEFINE P == {n \in Nat : \E f : Def(f, n)}
  <2>1. 0 \in P
    <3> DEFINE g == [k \in 0..0 |-> Pact!Give(m, Pact!Integer(1))]
    <3>1. Def(g, 0)
      OBVIOUS
    <3> QED
      BY <3>1, Zenon
  <2>2. ASSUME NEW n \in Nat, n \in P PROVE n + 1 \in P
    <3>1. PICK f : Def(f, n)
      BY <2>2
    <3> DEFINE g == [k \in 0..(n + 1) |-> IF k = n + 1 THEN Pact!Times(f[n], a) ELSE f[k]]
    <3>2. Def(g, n + 1)
      BY <3>1
    <3> HIDE DEF g, Def
    <3> QED
      BY <3>2
  <2> HIDE DEF P
  <2>3. \A n \in Nat : n \in P
    BY <2>1, <2>2, Induction
  <2> QED
    BY <2>3, Zenon DEF P
<1>2. Def(power, b)
  BY <1>1, Zenon
<1> HIDE DEF power
<1>3. /\ power[0] = Pact!Give(m, Pact!Integer(1))
      /\ \A j, k \in 0..b : k = j + 1 => power[k] = Pact!Times(power[j], a)
  BY <1>2
<1>4. Pact!Raise(m, a, b) = power[b]
  BY DEF Pact!Raise, power
<1> HIDE DEF Def
<1> QED
  BY <1>3, <1>4

\* ... and leaves the scope alone.
LEMMA AsideRaise ==
  ASSUME NEW m, NEW a, NEW b \in Nat
  PROVE  Aside(m, Pact!Raise(m, a, b))
<1>1. PICK power : /\ power[0] = Pact!Give(m, Pact!Integer(1))
                   /\ \A j, k \in 0..b : k = j + 1 => power[k] = Pact!Times(power[j], a)
                   /\ Pact!Raise(m, a, b) = power[b]
  BY RaiseSteps
<1>5. \A x : Aside(x, Pact!Times(x, a))
  BY PactHelpers DEF Pact!Times, Pact!Number
<1> DEFINE S == {n \in Nat : n <= b => Aside(m, power[n])}
<1>6. 0 \in S
  BY <1>1, PactHelpers, Zenon
<1>7. ASSUME NEW n \in Nat, n \in S PROVE n + 1 \in S
  <2> SUFFICES ASSUME n + 1 <= b PROVE Aside(m, power[n + 1])
    OBVIOUS
  <2>1. Aside(m, power[n]) /\ power[n + 1] = Pact!Times(power[n], a)
    BY <1>1, <1>7
  <2> QED
    BY <2>1, <1>5, AsideTransitive
<1> HIDE DEF S
<1>8. b \in S
  BY <1>6, <1>7, Induction
<1> QED
  BY <1>1, <1>8 DEF S

\* A built-in function leaves the scope alone
LEMMA AsideApply ==
  ASSUME NEW m, NEW f \in Pact!Builtins, NEW args
  PROVE  Aside(m, Pact!Apply(f, m, args))
<1>1. \A n : Aside(m, Pact!Number(m, n))
  BY PactHelpers DEF Pact!Number
<1>2. f \in Pact!Sums => \A a, b : Aside(m, Pact!Arithmetic(f, m, a, b))
  <2> SUFFICES ASSUME f \in Pact!Sums, NEW a, NEW b
               PROVE  Aside(m, Pact!Arithmetic(f, m, a, b))
    OBVIOUS
  <2>1. b \in Nat => b % U32 \in Nat
    BY U32Assumption
  <2>2. b \in Nat => Aside(m, Pact!Raise(m, a, b % U32))
    BY <2>1, AsideRaise
  <2> QED
    BY <1>1, <2>2, PactHelpers, Zenon DEF Pact!Arithmetic, Pact!Sums
<1>3. f \in {"abs", "sqrt"} => \A a : Aside(m, Pact!OfOne(f, m, a))
  BY <1>1, PactHelpers DEF Pact!OfOne
<1>4. f \in Pact!Texts => Aside(m, Pact!OfText(f, m, args))
  BY PactHelpers DEF Pact!OfText, Pact!Texts
<1>5. f \in Pact!Lists => Aside(m, Pact!OfList(f, m, args))
  BY PactHelpers, Zenon DEF Pact!OfList, Pact!Lists
<1>6. Aside(m, Pact!HashOf(m, args))
  BY PactHelpers, AsideTransitive, Zenon DEF Pact!HashOf
<1>7. \A a, b : Aside(m, Pact!AddTime(m, a, b))
  BY PactHelpers, Zenon DEF Pact!AddTime
<1>8. f \in Pact!Guards => Aside(m, Pact!OfGuard(f, m, args))
  <2>1. \A name, v : Aside(m, Pact!DefineKeyset(m, name, v))
    BY PactHelpers, AsideData, AsideTransitive, Zenon DEF Pact!DefineKeyset
  <2> QED
    BY <2>1, PactHelpers DEF Pact!OfGuard, Pact!Guards
<1>9. \A x, v : Aside(m, Pact!Give([m EXCEPT !.logs = x], v))
  BY PactHelpers, AsideData, AsideTransitive, Zenon
<1> QED
  BY <1>2, <1>3, <1>4, <1>5, <1>6, <1>7, <1>8, <1>9, PactHelpers, Zenon DEF Pact!Apply, Pact!Builtins

\* ... and so does one whose arguments may not fit.
LEMMA AsideBuiltin ==
  ASSUME NEW m, NEW f \in Pact!Builtins, NEW args
  PROVE  Aside(m, Pact!Builtin(f, m, args))
BY AsideApply, PactHelpers DEF Pact!Builtin

\* So do the expressions without parts.
LEMMA AsideConstruct ==
  ASSUME NEW m, NEW e, e.kind \in Pact!Simple
  PROVE  Aside(m, Pact!Construct(m, e))
<1>1. \A name : Aside(m, Pact!Lookup(m, name))
  BY PactHelpers, Zenon DEF Pact!Lookup
<1>2. Aside(m, Pact!Define("functions", m, e)) /\ Aside(m, Pact!Define("capabilities", m, e))
  BY PactHelpers, AsideData, AsideTransitive, Zenon DEF Pact!Define
<1> QED
  BY <1>1, <1>2, PactHelpers, AsideData, AsideTransitive, Zenon DEF Pact!Construct, Pact!Simple

\* A guard returns a value or fails.
LEMMA AsideGuard == \A m, v : Aside(m, Pact!VerifyGuard(m, v))
BY PactHelpers, Zenon DEF Pact!VerifyGuard

\* The evaluator's helpers change data only.
LEMMA PactCalls ==
  ASSUME NEW m
  PROVE  /\ Spends(m, m)
         /\ \A e : Spends(m, Pact!Ask(m, e))
         /\ \A below : Spends(m, Pact!Return(m, below))
         /\ Spends(m, Pact!Leave(m))
         /\ \A s : Spends(m, Pact!InScope(s, m))
<1>1. Spends(m, m)
  BY SpendsNothing DEF Keeps
<1>2. \A e : Spends(m, Pact!Ask(m, e))
  BY SpendsData, Zenon DEF Pact!Ask
<1>3. ASSUME NEW below PROVE Spends(m, Pact!Return(m, below))
  <2>1. \A x, y : Spends(m, [m EXCEPT !.depth = x, !.frames = y])
    BY SpendsData, SpendsTransitive, Zenon
  <2> QED
    BY <1>1, <2>1, Zenon DEF Pact!Return
<1>4. \A s : Spends(m, Pact!InScope(s, m))
  BY <1>2, SpendsData, SpendsTransitive, Zenon DEF Pact!InScope, Pact!Ask
<1> QED
  BY <1>1, <1>2, <1>3, <1>4 DEF Pact!Leave

\* A step of the evaluator but a call of it spends what built-in functions do.
LEMMA PactSpends ==
  ASSUME NEW before, NEW after, Pact!Step(before, after), ~Pact!Eval(before, after)
  PROVE  Spends(before, after)
<1>1. \A f, args : f \in Pact!Builtins => Spends(before, Pact!Builtin(f, before, args))
  BY AsideBuiltin, Zenon DEF Aside
<1>2. \A m, v : Spends(m, Pact!Give(m, v)) /\ Spends(m, Pact!Failed(m))
  BY PactHelpers DEF Aside
<1>3. \A v : Spends(before, Pact!VerifyGuard(before, v))
  BY AsideGuard DEF Aside
<1>4. CASE Pact!NextPart(before, after)
  BY <1>4, PactCalls, SpendsData, SpendsTransitive, <1>2, Zenon DEF Pact!NextPart, Pact!Bound
<1>5. CASE Pact!EvalApp(before, after)
  <2>1. \A g, args : g \in Pact!Builtins => Spends(before, Pact!Leave(Pact!Builtin(g, before, args)))
    BY <1>1, PactCalls, SpendsTransitive
  <2>2. \A g : Spends(before, Pact!Call(before, g))
    BY <1>2, PactCalls, SpendsData, SpendsTransitive, Zenon DEF Pact!Call
  <2> QED
    BY <1>5, <1>2, <2>1, <2>2 DEF Pact!EvalApp
<1>6. CASE Pact!EvalLet(before, after)
  BY <1>6, PactCalls, SpendsData, SpendsTransitive, Zenon DEF Pact!EvalLet, Pact!Bound
<1>7. CASE Pact!EndOfBody(before, after)
  BY <1>7, PactCalls, SpendsData, SpendsTransitive, Zenon DEF Pact!EndOfBody
<1>8. CASE Pact!EvalIf(before, after)
  BY <1>8, PactCalls, Zenon DEF Pact!EvalIf
<1>9. CASE Pact!EvalModule(before, after)
  BY <1>9, PactCalls, SpendsData, SpendsTransitive, <1>2, Zenon DEF Pact!EvalModule
<1>10. CASE Pact!Acquire(before, after)
  BY <1>10, PactCalls, SpendsData, SpendsTransitive, Zenon DEF Pact!Acquire
<1>11. CASE Pact!Granted(before, after)
  BY <1>11, PactCalls, SpendsData, SpendsTransitive, Zenon DEF Pact!Granted
<1>12. CASE Pact!EndOfScope(before, after)
  BY <1>12, PactCalls, SpendsData, SpendsTransitive, Zenon DEF Pact!EndOfScope
<1>13. CASE Pact!EvalRequireCapability(before, after)
  BY <1>13, PactCalls, SpendsData, SpendsTransitive, <1>2, Zenon DEF Pact!EvalRequireCapability
<1>14. CASE Pact!EvalRead(before, after)
  BY <1>14, PactCalls, SpendsData, SpendsTransitive, <1>2 DEF Pact!EvalRead
<1>15. CASE Pact!EvalWrite(before, after)
  <2>1. \A t, x : Keeps(before, [before EXCEPT !.tables[t] = x])
    BY DEF Keeps
  <2>2. \A t, x : Spends(before, [before EXCEPT !.tables[t] = x])
    BY <2>1, SpendsNothing
  <2>3. \A t, x : Spends(before, Pact!Leave(Pact!Give([before EXCEPT !.tables[t] = x], Pact!Unit)))
    BY <1>2, <2>2, PactCalls, SpendsTransitive
  <2> QED
    BY <1>15, <1>2, <2>3 DEF Pact!EvalWrite
<1>16. CASE Pact!EvalEnforce(before, after)
  <2>1. Spends(before, Pact!Leave(Pact!Give(before, Pact!Bool(TRUE))))
    BY <1>2, PactCalls, SpendsTransitive, Zenon
  <2>2. \A v : Spends(before, Pact!Leave(Pact!VerifyGuard(before, v)))
    BY <1>3, PactCalls, SpendsTransitive
  <2> QED
    BY <1>16, <1>2, <2>1, <2>2, Zenon DEF Pact!EvalEnforce
<1>17. CASE Pact!EvalNext(before, after)
  BY <1>17, PactCalls, SpendsData, SpendsTransitive, Zenon DEF Pact!EvalNext, Pact!Idle, Pact!Running
<1>18. CASE Pact!StartCall(before, after)
  BY <1>18, PactCalls, SpendsData, SpendsTransitive, <1>2, ZenonT(60)
     DEF Pact!StartCall, Pact!Idle, Pact!Running
<1>19. CASE Pact!EndOfCode(before, after)
  BY <1>19, SpendsStatus, Zenon DEF Pact!EndOfCode
<1> QED
  BY <1>4, <1>5, <1>6, <1>7, <1>8, <1>9, <1>10, <1>11, <1>12, <1>13, <1>14, <1>15, <1>16, <1>17,
     <1>18, <1>19 DEF Pact!Step

-----------------------------------------------------------------------------
\* A machine that has paid the base cost for each of its steps, within its limit;
\* the last step of one that stopped may be the one it had no gas for.
Paid(m, limit) ==
  /\ Metered(m)
  /\ m.gas.limit = limit
  /\ BASE * m.steps <= m.gas.used + (IF m.status = "running" THEN 0 ELSE BASE)

\* A step that pays the base cost first, and one that is no step
LEMMA StepPaid ==
  ASSUME NEW m, NEW limit, Paid(m, limit), m.status = "running",
         NEW n, DOMAIN n = DOMAIN m, n.lang = m.lang, n.steps = m.steps + 1,
         n.code = m.code, n.gas = Consume(m.gas, BASE),
         NEW o, Spends(n, o), HasGas(m.gas, BASE) \/ o.status # "running"
  PROVE  /\ Paid(o, limit) /\ o.lang = m.lang /\ (m.lang # "pact" => o.code = m.code)
         /\ o.gas.used >= m.gas.used
<1>1. Sound(m.gas) /\ m.steps \in Nat /\ BASE * m.steps <= m.gas.used /\ m.gas.limit = limit
  BY DEF Paid, Metered, Sound, GasMeter, BASE
<1>2. /\ Sound(n.gas) /\ n.gas.limit = limit /\ n.gas.used >= m.gas.used
      /\ HasGas(m.gas, BASE) => n.gas.used = m.gas.used + BASE
  <2>1. Sound(n.gas) /\ n.gas.limit = limit /\ n.gas.used >= m.gas.used
    BY <1>1, ConsumeSound
  <2>2. HasGas(m.gas, BASE) => n.gas.used = m.gas.used + BASE
    BY <1>1 DEF Consume, Sound, GasMeter
  <2> QED
    BY <2>1, <2>2
<1>3. Metered(n)
  BY <1>1, <1>2 DEF Metered, Paid
<1>4. /\ Metered(o) /\ o.lang = m.lang /\ o.steps = m.steps + 1 /\ o.gas.limit = limit
      /\ o.gas.used >= n.gas.used /\ (m.lang # "pact" => o.code = m.code)
  BY <1>2, <1>3 DEF Spends
<1>5. m.gas.used \in Nat /\ n.gas.used \in Nat /\ o.gas.used \in Nat
  BY <1>1, <1>2, <1>4 DEF Sound, GasMeter, Metered
<1>6. BASE * o.steps <= o.gas.used + (IF o.status = "running" THEN 0 ELSE BASE)
  BY <1>1, <1>2, <1>4, <1>5 DEF BASE
<1> QED
  BY <1>2, <1>4, <1>5, <1>6 DEF Paid

\* A step that fetches nothing, at the end of the code or of a script
LEMMA NotFetched ==
  ASSUME NEW m, NEW limit, Paid(m, limit), m.status = "running", NEW o, Spends(m, o)
  PROVE  /\ Paid(o, limit) /\ o.lang = m.lang /\ (m.lang # "pact" => o.code = m.code)
         /\ o.gas.used >= m.gas.used
<1>1. m.gas.used \in Nat /\ o.gas.used \in Nat
  BY DEF Paid, Spends, Metered, Sound, GasMeter
<1> QED
  BY <1>1 DEF Paid, Spends, Metered, BASE

\* A step that fetches has the gas for it, or the machine stops.
LEMMA KaspaFetches ==
  ASSUME NEW before, NEW after, Kaspa!Step(before, after), ~Kaspa!EndOfScript(before, after)
  PROVE  Kaspa!Running(before) /\ (HasGas(before.gas, BASE) \/ after = Kaspa!Failed(Kaspa!Fetched(before)))
<1>1. Kaspa!HasGas(before.gas, Kaspa!BASE) <=> HasGas(before.gas, BASE)
  BY DEF Kaspa!HasGas, HasGas, Kaspa!BASE, BASE
<1> QED
  BY <1>1, Zenon DEF Kaspa!Step, Kaspa!Fetch, Kaspa!Ready, Kaspa!OutOfGas, Kaspa!TooManyOps, Kaspa!PushOp,
     Kaspa!CutPush, Kaspa!If, Kaspa!Else, Kaspa!EndIf, Kaspa!Skip, Kaspa!Verify, Kaspa!Fault,
     Kaspa!Nop, Kaspa!Rearrange, Kaspa!Tuck, Kaspa!ToAlt, Kaspa!FromAlt, Kaspa!Pick, Kaspa!Depth,
     Kaspa!IfDup, Kaspa!Cat, Kaspa!SubStr, Kaspa!Side, Kaspa!SizeOp, Kaspa!Invert, Kaspa!Combine,
     Kaspa!Arithmetic1, Kaspa!Arithmetic2, Kaspa!Within, Kaspa!HashOp, Kaspa!CheckSig,
     Kaspa!MultiSig, Kaspa!LockTime, Kaspa!TxField, Kaspa!TxEntry, Kaspa!StateGet, Kaspa!StatePut,
     Kaspa!StateDelete, Kaspa!EmitEvent

\* A step of the Kaspa interpreter is paid for.
LEMMA KaspaStepPaid ==
  ASSUME NEW before, NEW after, Kaspa!Step(before, after), NEW limit, Paid(before, limit)
  PROVE  /\ Paid(after, limit) /\ after.lang = before.lang /\ after.gas.used >= before.gas.used
         /\ before.lang # "pact" => after.code = before.code
<1>1. CASE Kaspa!EndOfScript(before, after)
  <2>1. Spends(before, [before EXCEPT !.status = "done"])
    BY SpendsStatus
  <2>2. \A x, y : Spends(before, [before EXCEPT !.at = x, !.pc = y])
    BY SpendsData, SpendsTransitive, Zenon
  <2>3. before.status = "running" /\ before.lang = "kaspa" /\ Spends(before, after)
    BY <1>1, <2>1, <2>2, Zenon DEF Kaspa!EndOfScript, Kaspa!Running
  <2> QED
    BY <2>3, NotFetched
<1>2. CASE ~Kaspa!EndOfScript(before, after)
  <2>1. Kaspa!Running(before) /\ (HasGas(before.gas, BASE) \/ after = Kaspa!Failed(Kaspa!Fetched(before)))
    BY <1>2, KaspaFetches
  <2>2. Spends(Kaspa!Fetched(before), after)
    BY <1>2, KaspaSpends
  <2> DEFINE n == Kaspa!Fetched(before)
  <2>3. /\ DOMAIN n = DOMAIN before /\ n.lang = before.lang /\ n.steps = before.steps + 1
        /\ n.code = before.code /\ n.gas = Kaspa!Consume(before.gas, Kaspa!BASE)
    BY DEF Kaspa!Fetched
  <2>4. n.gas = Consume(before.gas, BASE)
    BY <2>3 DEF Kaspa!Consume, Consume, Kaspa!HasGas, HasGas, Kaspa!BASE, BASE
  <2>5. HasGas(before.gas, BASE) \/ after.status # "running"
    <3>1. Kaspa!Failed(Kaspa!Fetched(before)).status = "failed"
      BY DEF Kaspa!Failed
    <3> QED
      BY <2>1, <3>1
  <2>6. before.status = "running"
    BY <2>1 DEF Kaspa!Running
  <2> HIDE DEF n
  <2>7. Spends(n, after)
    BY <2>2 DEF n
  <2> QED
    BY <2>3, <2>4, <2>5, <2>6, <2>7, StepPaid
<1> QED
  BY <1>1, <1>2

\* A step that fetches has the gas for it, or the machine stops.
LEMMA AvmFetches ==
  ASSUME NEW before, NEW after, Avm!Step(before, after), ~Avm!EndOfCode(before, after)
  PROVE  Avm!Running(before) /\ (HasGas(before.gas, BASE) \/ after = Avm!Failed(Avm!Fetched(before)))
<1>1. Avm!HasGas(before.gas, Avm!BASE) <=> HasGas(before.gas, BASE)
  BY DEF Avm!HasGas, HasGas, Avm!BASE, BASE
<1> QED
  BY <1>1 DEF Avm!Step, Avm!Fetch, Avm!OutOfGas, Avm!IntcBlock, Avm!BytecBlock, Avm!IndexedConstant,
     Avm!NamedConstant, Avm!Arithmetic, Avm!Logic, Avm!Not, Avm!StackOp, Avm!Branch, Avm!Return,
     Avm!Fault, Avm!AssertTrue, Avm!Hash, Avm!GlobalGet, Avm!GlobalPut, Avm!Log, Avm!BytesOp

\* A step of the AVM interpreter is paid for.
LEMMA AvmStepPaid ==
  ASSUME NEW before, NEW after, Avm!Step(before, after), NEW limit, Paid(before, limit),
      Avm!Size(before) \in Nat
  PROVE  /\ Paid(after, limit) /\ after.lang = before.lang /\ after.gas.used >= before.gas.used
         /\ before.lang # "pact" => after.code = before.code
<1>1. CASE Avm!EndOfCode(before, after)
  <2>1. before.status = "running" /\ before.lang = "avm" /\ Spends(before, after)
    BY <1>1, SpendsStatus DEF Avm!EndOfCode, Avm!Running
  <2> QED
    BY <2>1, NotFetched
<1>2. CASE ~Avm!EndOfCode(before, after)
  <2>1. Avm!Running(before) /\ (HasGas(before.gas, BASE) \/ after = Avm!Failed(Avm!Fetched(before)))
    BY <1>2, AvmFetches
  <2>2. Spends(Avm!Fetched(before), after)
    BY <1>2, AvmSpends
  <2> DEFINE n == Avm!Fetched(before)
  <2>3. /\ DOMAIN n = DOMAIN before /\ n.lang = before.lang /\ n.steps = before.steps + 1
        /\ n.code = before.code /\ n.gas = Avm!Consume(before.gas, Avm!BASE)
    BY DEF Avm!Fetched
  <2>4. n.gas = Consume(before.gas, BASE)
    BY <2>3 DEF Avm!Consume, Consume, Avm!HasGas, HasGas, Avm!BASE, BASE
  <2>5. HasGas(before.gas, BASE) \/ after.status # "running"
    <3>1. Avm!Failed(Avm!Fetched(before)).status = "failed"
      BY DEF Avm!Failed
    <3> QED
      BY <2>1, <3>1
  <2>6. before.status = "running"
    BY <2>1 DEF Avm!Running
  <2> HIDE DEF n
  <2>7. Spends(n, after)
    BY <2>2 DEF n
  <2> QED
    BY <2>3, <2>4, <2>5, <2>6, <2>7, StepPaid
<1> QED
  BY <1>1, <1>2

\* A step that fetches has the gas for it, or the machine stops.
LEMMA SbfFetches ==
  ASSUME NEW before, NEW after, Sbf!Step(before, after), ~Sbf!EndOfCode(before, after)
  PROVE  Sbf!Running(before) /\ (HasGas(before.gas, BASE) \/ after = Sbf!Failed(Sbf!Fetched(before)))
<1>1. Sbf!HasGas(before.gas, Sbf!BASE) <=> HasGas(before.gas, BASE)
  BY DEF Sbf!HasGas, HasGas, Sbf!BASE, BASE
<1> QED
  BY <1>1 DEF Sbf!Step, Sbf!Fetch, Sbf!OutOfGas, Sbf!Alu, Sbf!Load, Sbf!Store, Sbf!Jump,
     Sbf!CondJump, Sbf!CallFunction, Sbf!LogCall, Sbf!ShaCall, Sbf!Exit, Sbf!Invalid

\* A step of the SBF interpreter is paid for.
LEMMA SbfStepPaid ==
  ASSUME NEW before, NEW after, Sbf!Step(before, after), NEW limit, Paid(before, limit)
  PROVE  /\ Paid(after, limit) /\ after.lang = before.lang /\ after.gas.used >= before.gas.used
         /\ before.lang # "pact" => after.code = before.code
<1>1. CASE Sbf!EndOfCode(before, after)
  <2>1. before.status = "running" /\ before.lang = "sbf" /\ Spends(before, after)
    BY <1>1, SpendsStatus DEF Sbf!EndOfCode, Sbf!Running
  <2> QED
    BY <2>1, NotFetched
<1>2. CASE ~Sbf!EndOfCode(before, after)
  <2>1. Sbf!Running(before) /\ (HasGas(before.gas, BASE) \/ after = Sbf!Failed(Sbf!Fetched(before)))
    BY <1>2, SbfFetches
  <2>2. Spends(Sbf!Fetched(before), after)
    BY <1>2, SbfSpends
  <2> DEFINE n == Sbf!Fetched(before)
  <2>3. /\ DOMAIN n = DOMAIN before /\ n.lang = before.lang /\ n.steps = before.steps + 1
        /\ n.code = before.code /\ n.gas = Sbf!Consume(before.gas, Sbf!BASE)
    BY DEF Sbf!Fetched
  <2>4. n.gas = Consume(before.gas, BASE)
    BY <2>3 DEF Sbf!Consume, Consume, Sbf!HasGas, HasGas, Sbf!BASE, BASE
  <2>5. HasGas(before.gas, BASE) \/ after.status # "running"
    <3>1. Sbf!Failed(Sbf!Fetched(before)).status = "failed"
      BY DEF Sbf!Failed
    <3> QED
      BY <2>1, <3>1
  <2>6. before.status = "running"
    BY <2>1 DEF Sbf!Running
  <2> HIDE DEF n
  <2>7. Spends(n, after)
    BY <2>2 DEF n
  <2> QED
    BY <2>3, <2>4, <2>5, <2>6, <2>7, StepPaid
<1> QED
  BY <1>1, <1>2

\* A step of the Pact interpreter is one of a machine that runs it.
LEMMA PactRuns ==
  ASSUME NEW before, NEW after, Pact!Step(before, after)
  PROVE  before.lang = "pact" /\ before.status = "running"
BY Zenon DEF Pact!Step, Pact!Eval, Pact!NextPart, Pact!EvalApp, Pact!EvalLet, Pact!EndOfBody, Pact!EvalIf,
       Pact!EvalModule, Pact!Acquire, Pact!Granted, Pact!EndOfScope, Pact!EvalRequireCapability,
       Pact!EvalRead, Pact!EvalWrite, Pact!EvalEnforce, Pact!EvalNext, Pact!StartCall, Pact!EndOfCode,
       Pact!Completes, Pact!Returns, Pact!Resumes, Pact!Idle, Pact!Running

\* A step of the Pact interpreter is paid for: a call of the evaluator is the
\* step that pays.
LEMMA PactStepPaid ==
  ASSUME NEW before, NEW after, Pact!Step(before, after), NEW limit, Paid(before, limit)
  PROVE  Paid(after, limit) /\ after.lang = before.lang /\ after.gas.used >= before.gas.used
<1>1. CASE Pact!Eval(before, after)
  <2>1. before.status = "running" /\ before.lang = "pact"
    BY <1>1 DEF Pact!Eval, Pact!Running
  <2> DEFINE e == Head(before.todo)
             deeper == [before EXCEPT !.todo = <<>>, !.depth = @ + 1]
             charged == Pact!Charge(deeper, Pact!BASE)
             paid == [charged EXCEPT !.steps = @ + 1]
             opened == Pact!Opened(paid, e)
             n == [deeper EXCEPT !.steps = @ + 1, !.gas = Consume(before.gas, BASE)]
  <2>2. Spends(before, deeper)
    BY SpendsData, SpendsTransitive, Zenon
  <2>3. /\ DOMAIN n = DOMAIN before /\ n.lang = before.lang /\ n.steps = before.steps + 1
        /\ n.code = before.code /\ n.gas = Consume(before.gas, BASE)
    OBVIOUS
  <2>4. /\ deeper.gas = before.gas /\ deeper.status = "running"
        /\ Pact!Consume(before.gas, Pact!BASE) = Consume(before.gas, BASE)
        /\ Pact!HasGas(before.gas, Pact!BASE) <=> HasGas(before.gas, BASE)
    BY <2>1 DEF Pact!Consume, Consume, Pact!HasGas, HasGas, Pact!BASE, BASE
  <2>5. /\ HasGas(before.gas, BASE) => paid.status = "running"
        /\ ~HasGas(before.gas, BASE) => paid.status = "failed"
        /\ DOMAIN paid = DOMAIN n /\ paid.lang = n.lang /\ paid.steps = n.steps
        /\ paid.gas = n.gas /\ n.status = "running"
    BY <2>1, <2>4 DEF Pact!Charge, Pact!Failed
  <2>6. Spends(n, paid)
    BY <2>1, <2>5 DEF Spends, Metered, Sound, GasMeter
  <2>7. Spends(paid, opened)
    <3>1. \A amount : Spends(paid, Pact!Charge(paid, amount))
      BY PactHelpers, Zenon DEF Aside
    <3>2. Spends(paid, paid) /\ \A x : Spends(paid, [paid EXCEPT !.module = x])
      BY PactCalls, SpendsData, Zenon
    <3> HIDE DEF paid
    <3> QED
      BY <3>1, <3>2 DEF Pact!Opened
  <2> HIDE DEF paid, charged, opened, e, n
  <2>8. \A x : Spends(opened, [opened EXCEPT !.frames = x])
    BY SpendsData, Zenon
  <2>9. e.kind \in Pact!Simple => \A below : Spends(paid, Pact!Return(Pact!Construct(paid, e), below))
    BY AsideConstruct, PactCalls, SpendsTransitive, Zenon DEF Aside
  <2>10. CASE deeper.depth > MAX_RECURSION_DEPTH
    <3>1. after = Pact!Failed(deeper)
      BY <1>1, <2>10 DEF Pact!Eval
    <3>2. Spends(before, after)
      BY <2>2, <3>1, PactHelpers, SpendsTransitive DEF Aside
    <3> QED
      BY <2>1, <3>2, NotFetched
  <2>11. CASE ~(deeper.depth > MAX_RECURSION_DEPTH)
    <3>1. \/ after = paid
          \/ after = opened
          \/ e.kind \in Pact!Simple /\ after = Pact!Return(Pact!Construct(paid, e), before.frames)
          \/ \E x : after = [opened EXCEPT !.frames = x]
      BY <1>1, <2>11, Zenon DEF Pact!Eval, paid, charged, opened, e
    <3>2. Spends(paid, after)
      BY <2>7, <2>8, <2>9, <3>1, PactCalls, SpendsTransitive
    <3>3. Spends(n, after)
      BY <2>6, <3>2, SpendsTransitive
    <3>4. Metered(n)
      BY <2>3, ConsumeSound DEF Metered, Paid
    <3>5. HasGas(before.gas, BASE) \/ after.status # "running"
      BY <2>5, <2>6, <3>2, <3>4 DEF Spends
    <3> QED
      BY <2>1, <2>3, <3>3, <3>5, StepPaid
  <2> QED
    BY <2>10, <2>11
<1>2. CASE ~Pact!Eval(before, after)
  <2>1. before.status = "running"
    BY PactRuns
  <2> QED
    BY <1>2, <2>1, PactSpends, NotFetched
<1> QED
  BY <1>1, <1>2

\* A call starts with its whole limit.
LEMMA StartPaid ==
  ASSUME NEW c \in Contract, TypeOfContract(c) # "none", NEW kind, NEW limit \in Nat
  PROVE  /\ Paid(Start(c, kind, limit), limit)
         /\ Start(c, kind, limit).lang \in {"avm", "sbf", "kaspa", "pact"}
         /\ Start(c, kind, limit).lang = "avm" => Start(c, kind, limit).code \in Seq(0..255)
<1> DEFINE input == IF kind = "deploy" THEN <<>> ELSE c.input
           m == Start(c, kind, limit)
<1>1. \A x : x.limit = limit /\ x.used = 0 /\ x \in GasMeter => Sound(x)
  BY DEF Sound, GasMeter
<1>2. NewMeter(limit) \in GasMeter /\ NewMeter(limit).limit = limit /\ NewMeter(limit).used = 0
  BY DEF NewMeter, GasMeter
<1> DEFINE Starts(x) == /\ {"gas", "steps", "status", "lang"} \subseteq DOMAIN x
                        /\ x.gas = NewMeter(limit) /\ x.steps = 0
<1>3. ASSUME NEW x, Starts(x) PROVE Paid(x, limit)
  BY <1>1, <1>2, <1>3 DEF Paid, Metered, BASE
<1>4. TypeOfContract(c) \in {"avm", "sbf", "kaspa", "pact"} => TypeOfContract(c) = c.lang
  BY DEF TypeOfContract
<1>5. CASE TypeOfContract(c) = "avm"
  <2>1. m = Avm!Boot(c.code, limit)
    BY <1>5 DEF Start
  <2>2. Starts(m) /\ m.lang = "avm" /\ m.code = c.code
    BY <2>1 DEF Avm!Boot, Avm!NewMeter, NewMeter
  <2>3. c.code \in Seq(0..255)
    BY <1>4, <1>5, ContractAssumption
  <2> QED
    BY <1>3, <2>2, <2>3
<1>6. CASE TypeOfContract(c) = "sbf"
  <2>1. m = Sbf!Boot(c.code, limit)
    BY <1>6 DEF Start
  <2>2. Starts(m) /\ m.lang = "sbf"
    BY <2>1 DEF Sbf!Boot, Sbf!NewMeter, NewMeter
  <2> QED
    BY <1>3, <2>2
<1>7. CASE TypeOfContract(c) = "kaspa"
  <2>1. m = Kaspa!Boot(input, c.code, limit)
    BY <1>7 DEF Start
  <2>2. Starts(m) /\ m.lang = "kaspa"
    BY <2>1 DEF Kaspa!Boot, Kaspa!NewMeter, NewMeter
  <2> QED
    BY <1>3, <2>2
<1>8. CASE TypeOfContract(c) = "pact"
  <2>1. m = Pact!Boot(c.code, input, limit)
    BY <1>8 DEF Start
  <2>2. Starts(m) /\ m.lang = "pact"
    BY <2>1 DEF Pact!Boot, Pact!NewMeter, NewMeter
  <2> QED
    BY <1>3, <2>2
<1>9. TypeOfContract(c) \in {"none", "avm", "sbf", "kaspa", "pact", "native"}
  BY ContractAssumption DEF TypeOfContract
<1>10. TypeOfContract(c) # "native"
  BY DEF TypeOfContract
<1> QED
  BY <1>5, <1>6, <1>7, <1>8, <1>9, <1>10

\* The call that runs has paid, and what the client keeps are numbers of gas.
MeterInv ==
  /\ contract \in Contract
  /\ vm # Idle => /\ vm.lang \in {"avm", "sbf", "kaspa", "pact"}
                  /\ vm.lang = "avm" => vm.code \in Seq(0..255)
                  /\ Paid(vm, job.limit)
  /\ estimate # None => estimate.gas \in Nat
  /\ last # None => last.used <= last.limit

\* What a call returns is within its limit.
LEMMA ReturnPaid ==
  ASSUME MeterInv, NEW r, Return(r), r.used \in Nat, r.used <= r.limit
  PROVE  MeterInv'
<1>1. vm' = Idle /\ contract' = contract
  BY DEF Return
<1>2. (r.used * 11) \div 10 \in Nat
  OBVIOUS
<1>3. Estimated(r).gas \in Nat
  BY <1>2 DEF Estimated
<1>4. (estimate' # None => estimate'.gas \in Nat) /\ (last' # None => last'.used <= last'.limit)
  BY <1>3 DEF Return, MeterInv
<1> QED
  BY <1>1, <1>4 DEF MeterInv

\* A call that begins, on a machine that has paid for nothing yet
LEMMA BeginPaid ==
  ASSUME MeterInv, NEW kind, NEW limit \in Nat, NEW depth, Begin(kind, limit, depth)
  PROVE  MeterInv'
<1>1. CASE Return(Refused(kind, limit))
  BY <1>1, ReturnPaid DEF Refused, Result
<1>2. CASE ~Return(Refused(kind, limit))
  <2>1. /\ vm' = Start(contract, kind, limit) /\ job' = [kind |-> kind, limit |-> limit]
        /\ TypeOfContract(contract) # "none" /\ UNCHANGED <<contract, estimate, last>>
    BY <1>2 DEF Begin
  <2>2. job'.limit = limit
    BY <2>1
  <2> QED
    BY <2>1, <2>2, StartPaid DEF MeterInv
<1> QED
  BY <1>1, <1>2

\* A step of an interpreter keeps to its language and is paid for.
LEMMA InterpreterPaid ==
  ASSUME MeterInv, Avm!Step(vm, vm') \/ Sbf!Step(vm, vm') \/ Kaspa!Step(vm, vm') \/ Pact!Step(vm, vm'),
         UNCHANGED <<contract, job, estimate, last>>
  PROVE  /\ MeterInv' /\ vm # Idle /\ vm'.lang = vm.lang
         /\ vm.lang = "kaspa" => Kaspa!Step(vm, vm')
         /\ vm.lang = "pact" => Pact!Step(vm, vm')
<1>1. vm.lang \in {"avm", "sbf", "kaspa", "pact"} => vm # Idle
  BY DEF Idle
<1>2. CASE Avm!Step(vm, vm')
  <2>1. vm.lang = "avm"
    BY <1>2, AvmFetches DEF Avm!EndOfCode, Avm!Running
  <2>2. Avm!Size(vm) \in Nat /\ Paid(vm, job.limit)
    BY <1>1, <2>1 DEF MeterInv, Avm!Size
  <2>3. Paid(vm', job.limit) /\ vm'.lang = "avm" /\ vm'.code = vm.code
    BY <1>2, <2>1, <2>2, AvmStepPaid
  <2> QED
    BY <1>1, <1>2, <2>1, <2>3 DEF MeterInv
<1>3. CASE Sbf!Step(vm, vm')
  <2>1. vm.lang = "sbf"
    BY <1>3, SbfFetches DEF Sbf!EndOfCode, Sbf!Running
  <2>2. Paid(vm', job.limit) /\ vm'.lang = "sbf"
    BY <1>1, <1>3, <2>1, SbfStepPaid DEF MeterInv
  <2> QED
    BY <1>1, <1>3, <2>1, <2>2 DEF MeterInv
<1>4. CASE Kaspa!Step(vm, vm')
  <2>1. vm.lang = "kaspa"
    BY <1>4, KaspaFetches, Zenon DEF Kaspa!EndOfScript, Kaspa!Running
  <2>2. Paid(vm', job.limit) /\ vm'.lang = "kaspa"
    BY <1>1, <1>4, <2>1, KaspaStepPaid DEF MeterInv
  <2> QED
    BY <1>1, <1>4, <2>1, <2>2 DEF MeterInv
<1>5. CASE Pact!Step(vm, vm')
  <2>1. vm.lang = "pact"
    BY <1>5, PactRuns
  <2>2. Paid(vm', job.limit) /\ vm'.lang = "pact"
    BY <1>1, <1>5, <2>1, PactStepPaid DEF MeterInv
  <2> QED
    BY <1>1, <1>5, <2>1, <2>2 DEF MeterInv
<1> QED
  BY <1>2, <1>3, <1>4, <1>5

\* In every state
LEMMA MeterAlways == Spec => []MeterInv
<1>1. Init => MeterInv
  BY DEF Init, MeterInv
<1>2. MeterInv /\ [Next]_vars => MeterInv'
  <2> SUFFICES ASSUME MeterInv, [Next]_vars PROVE MeterInv'
    OBVIOUS
  <2>1. CASE UNCHANGED vars
    BY <2>1 DEF vars, MeterInv
  <2>2. ASSUME NEW limit \in Limit, NEW depth, Execute(limit, depth) PROVE MeterInv'
    BY <2>2, LimitAssumption, BeginPaid DEF Execute
  <2>3. CASE estimate # None /\ Execute(estimate.gas, 0)
    BY <2>3, BeginPaid DEF Execute, MeterInv
  <2>4. ASSUME NEW limit \in Limit, Deploy(limit) PROVE MeterInv'
    BY <2>4, LimitAssumption, BeginPaid DEF Deploy
  <2>5. ASSUME NEW depth, EstimateGas(depth) PROVE MeterInv'
    BY <2>5, LimitAssumption, BeginPaid DEF EstimateGas
  <2>6. ASSUME NEW size \in InputSize, NEW limit \in Limit, CallPrecompile(size, limit) PROVE MeterInv'
    <3> DEFINE cost == PrecompileCost(contract.address, size)
               r == Result("precompile", limit, cost <= limit /\ (contract.address = 5 => size >= 32),
                           IF cost <= limit THEN cost ELSE limit, <<>>, <<>>)
    <3>1. Return(r) /\ r.kind = "precompile"
      BY <2>6 DEF CallPrecompile, Result
    <3>2. r.used <= r.limit
      BY LimitAssumption DEF Result
    <3> HIDE DEF r
    <3> QED
      BY <3>1, <3>2 DEF Return, MeterInv
  <2>7. ASSUME Avm!Step(vm, vm') \/ Sbf!Step(vm, vm') \/ Kaspa!Step(vm, vm')
            \/ Pact!Step(vm, vm'), UNCHANGED <<contract, job, estimate, last>>
        PROVE  MeterInv'
    BY <2>7, InterpreterPaid
  <2>8. CASE Finish
    <3>1. vm # Idle
      BY <2>8 DEF Finish, Idle
    <3> DEFINE r == Result(job.kind, job.limit, Succeeds(vm), vm.gas.used, Answer(vm),
                           IF vm.status = "done" THEN vm.logs ELSE <<>>)
    <3>2. Return(r) /\ r.used = vm.gas.used /\ r.limit = job.limit
      BY <2>8 DEF Finish, Result
    <3> HIDE DEF r
    <3>3. r.used \in Nat /\ r.used <= r.limit
      BY <3>1, <3>2 DEF MeterInv, Paid, Metered, Sound, GasMeter
    <3> QED
      BY <3>2, <3>3, ReturnPaid
  <2> QED
    BY <2>1, <2>2, <2>3, <2>4, <2>5, <2>6, <2>7, <2>8
       DEF Next, Over, StepAvm, StepSbf, StepKaspa, StepPact
<1> QED
  BY <1>1, <1>2, PTL DEF Spec

\* Every step of every interpreter pays at least the base cost before it does
\* anything, and no run uses more than its limit: with any contracts, limits and
\* sizes, a run has no more steps than its limit pays for (gas.rs:92 and the
\* consume at the head of each interpreter's step).
THEOREM StepsPaid == Spec => []StepsArePaid
<1>1. MeterInv => StepsArePaid
  BY DEF MeterInv, StepsArePaid, Paid, Metered, Sound
<1> QED
  BY <1>1, MeterAlways, PTL

\* What a step does to the interpreter: nothing, it ends or starts a call, or it
\* is a step of that interpreter.
LEMMA Moves ==
  ASSUME MeterInv, [Next]_vars
  PROVE  \/ vm' = vm \/ vm' = Idle
         \/ \E kind : \E limit \in Nat :
              /\ contract \in Contract /\ TypeOfContract(contract) # "none"
              /\ vm' = Start(contract, kind, limit)
         \/ /\ vm # Idle /\ vm'.lang = vm.lang
            /\ vm.lang = "kaspa" => Kaspa!Step(vm, vm')
            /\ vm.lang = "pact" => Pact!Step(vm, vm')
<1> DEFINE Starts == \E kind : \E limit \in Nat :
              /\ contract \in Contract /\ TypeOfContract(contract) # "none"
              /\ vm' = Start(contract, kind, limit)
<1>1. ASSUME NEW kind, NEW limit \in Nat, NEW depth, Begin(kind, limit, depth)
      PROVE  vm' = Idle \/ Starts
  BY <1>1 DEF Begin, Return, MeterInv
<1> HIDE DEF Starts
<1>2. ASSUME NEW limit \in Limit, NEW depth, Execute(limit, depth) PROVE vm' = Idle \/ Starts
  BY <1>1, <1>2, LimitAssumption DEF Execute
<1>3. CASE estimate # None /\ Execute(estimate.gas, 0)
  BY <1>1, <1>3 DEF Execute, MeterInv, Starts
<1>4. ASSUME NEW limit \in Limit, Deploy(limit) PROVE vm' = Idle \/ Starts
  BY <1>1, <1>4, LimitAssumption DEF Deploy
<1>5. ASSUME NEW depth, EstimateGas(depth) PROVE vm' = Idle \/ Starts
  BY <1>1, <1>5, LimitAssumption DEF EstimateGas
<1>6. ASSUME NEW size \in InputSize, NEW limit \in Limit, CallPrecompile(size, limit) PROVE vm' = Idle
  BY <1>6 DEF CallPrecompile, Return
<1>7. CASE Finish
  BY <1>7 DEF Finish, Return
<1>8. CASE StepAvm \/ StepSbf \/ StepKaspa \/ StepPact
  BY <1>8, InterpreterPaid DEF StepAvm, StepSbf, StepKaspa, StepPact
<1>9. CASE UNCHANGED vars \/ Over
  BY <1>9 DEF Over, vars
<1> QED
  BY <1>2, <1>3, <1>4, <1>5, <1>6, <1>7, <1>8, <1>9 DEF Next, Starts

-----------------------------------------------------------------------------
\* A sequence, of whatever elements
IsSeq(s) == \E S : s \in Seq(S)

\* What the sequence operators make of any sequence
LEMMA SequenceAppend ==
  ASSUME NEW s, IsSeq(s), NEW e
  PROVE  IsSeq(Append(s, e)) /\ Len(s) \in Nat /\ Len(Append(s, e)) = Len(s) + 1
<1>1. PICK S : s \in Seq(S)
  BY DEF IsSeq
<1>2. s \in Seq(S \cup {e})
  BY <1>1
<1>3. Append(s, e) \in Seq(S \cup {e}) /\ Len(Append(s, e)) = Len(s) + 1 /\ Len(s) \in Nat
  BY <1>2
<1> QED
  BY <1>3 DEF IsSeq

\* The first elements of a sequence
LEMMA SequencePrefix ==
  ASSUME NEW s, IsSeq(s), NEW n \in 0..Len(s)
  PROVE  IsSeq(SubSeq(s, 1, n)) /\ Len(SubSeq(s, 1, n)) = n
<1>1. PICK S : s \in Seq(S)
  BY DEF IsSeq
<1>2. SubSeq(s, 1, n) \in Seq(S) /\ Len(SubSeq(s, 1, n)) = n
  BY <1>1
<1> QED
  BY <1>2 DEF IsSeq

\* All of its elements but the last
LEMMA SequenceFront ==
  ASSUME NEW s, IsSeq(s), s # <<>>
  PROVE  IsSeq(Kaspa!Front(s)) /\ Len(Kaspa!Front(s)) = Len(s) - 1 /\ Len(s) \in Nat \ {0}
<1>1. PICK S : s \in Seq(S)
  BY DEF IsSeq
<1>2. Len(s) \in Nat \ {0}
  BY <1>1
<1>3. Len(s) - 1 \in 0..Len(s)
  BY <1>2
<1> QED
  BY <1>2, <1>3, SequencePrefix, Zenon DEF Kaspa!Front

\* One element taken out or put in
LEMMA SequenceSplice ==
  ASSUME NEW s, IsSeq(s), NEW i \in 1..Len(s), NEW e
  PROVE  /\ IsSeq(Kaspa!RemoveAt(s, i)) /\ Len(Kaspa!RemoveAt(s, i)) = Len(s) - 1
         /\ IsSeq(Kaspa!InsertAt(s, i, e)) /\ Len(Kaspa!InsertAt(s, i, e)) = Len(s) + 1
<1>1. PICK S : s \in Seq(S)
  BY DEF IsSeq
<1> DEFINE T == S \cup {e}
           a == SubSeq(s, 1, i - 1)
           b == SubSeq(s, i + 1, Len(s))
           c == SubSeq(s, i, Len(s))
<1>2. s \in Seq(T) /\ Len(s) \in Nat
  BY <1>1
<1>3. a \in Seq(T) /\ Len(a) = i - 1
  BY <1>2
<1>4. b \in Seq(T) /\ Len(b) = Len(s) - i
  BY <1>2
<1>5. c \in Seq(T) /\ Len(c) = Len(s) - i + 1
  BY <1>2
<1>6. <<e>> \in Seq(T) /\ Len(<<e>>) = 1
  OBVIOUS
<1> HIDE DEF a, b, c, T
<1>7. a \o b \in Seq(T) /\ Len(a \o b) = Len(s) - 1
  BY <1>2, <1>3, <1>4
<1>8. a \o <<e>> \in Seq(T) /\ Len(a \o <<e>>) = i
  BY <1>3, <1>6
<1>9. a \o <<e>> \o c \in Seq(T) /\ Len(a \o <<e>> \o c) = Len(s) + 1
  BY <1>2, <1>5, <1>8
<1> QED
  BY <1>7, <1>9, Zenon DEF IsSeq, Kaspa!RemoveAt, Kaspa!InsertAt, a, b, c

\* n is m with at most k more elements on its two stacks
Stacks(m) == IsSeq(m.stack) /\ IsSeq(m.alt)
Elements(m) == Len(m.stack) + Len(m.alt)
Grown(m, n, k) ==
  Stacks(m) => /\ Stacks(n)
               /\ Elements(n) <= Elements(m) + k
               /\ n.ops = m.ops

\* ... and the same conditionals
Straight(m, n, k) == Grown(m, n, k) /\ n.exec = m.exec

\* The lengths of the two stacks are numbers.
LEMMA StackLengths ==
  ASSUME NEW m, Stacks(m)
  PROVE  /\ IsSeq(m.stack) /\ IsSeq(m.alt)
         /\ Len(m.stack) \in Nat /\ Len(m.alt) \in Nat /\ Elements(m) \in Nat
<1>1. IsSeq(m.stack) /\ IsSeq(m.alt)
  BY DEF Stacks
<1>2. Len(m.stack) \in Nat /\ Len(m.alt) \in Nat
  BY <1>1, SequenceAppend
<1> DEFINE a == Len(m.stack)
           b == Len(m.alt)
<1>3. Elements(m) = a + b
  BY DEF Elements
<1>4. a \in Nat /\ b \in Nat
  BY <1>2
<1> HIDE DEF a, b
<1>5. Elements(m) \in Nat
  BY <1>3, <1>4
<1> QED
  BY <1>1, <1>2, <1>5

\* Two steps grow the stacks by what each of them does.
LEMMA GrownTransitive ==
  ASSUME NEW m, NEW n, NEW o, NEW j \in Int, NEW k \in Int, NEW l \in Int, l >= j + k,
         Straight(m, n, j), Straight(n, o, k)
  PROVE  Straight(m, o, l)
<1>1. Stacks(m) => Elements(m) \in Nat /\ Elements(n) \in Nat /\ Elements(o) \in Nat
  BY StackLengths DEF Straight, Grown
<1> QED
  BY <1>1 DEF Straight, Grown

\* A machine whose stacks have at most k elements more
LEMMA StraightBy ==
  ASSUME NEW m, NEW n, NEW k, n.ops = m.ops, n.exec = m.exec,
         Stacks(m) => /\ IsSeq(n.stack) /\ IsSeq(n.alt)
                      /\ Len(n.stack) + Len(n.alt) <= Len(m.stack) + Len(m.alt) + k
  PROVE  Straight(m, n, k)
BY Zenon DEF Straight, Grown, Stacks, Elements

\* The helpers of the interpreter
LEMMA GrownHelpers ==
  ASSUME NEW m
  PROVE  /\ \A k \in Nat : Straight(m, m, k)
         /\ \A k \in Nat : Straight(m, Kaspa!Failed(m), k) /\ Straight(m, Kaspa!Panics(m), k)
         /\ \A amount : Straight(m, Kaspa!Charge(m, amount), 0)
         /\ \A e : Straight(m, Kaspa!Push(m, e), 1)
<1>1. \A k \in Nat : Straight(m, m, k)
  BY StackLengths DEF Straight, Grown
<1>2. ASSUME NEW n, n.stack = m.stack, n.alt = m.alt, n.ops = m.ops, n.exec = m.exec, NEW k \in Nat
      PROVE  Straight(m, n, k)
  <2>1. Stacks(n) <=> Stacks(m)
    BY <1>2 DEF Stacks
  <2>2. Elements(n) = Elements(m)
    BY <1>2 DEF Elements
  <2> QED
    BY <1>2, <2>1, <2>2, StackLengths DEF Straight, Grown
<1>3. \A k \in Nat : Straight(m, Kaspa!Failed(m), k) /\ Straight(m, Kaspa!Panics(m), k)
  <2> DEFINE f == Kaspa!Failed(m)
             p == Kaspa!Panics(m)
  <2>1. /\ f.stack = m.stack /\ f.alt = m.alt /\ f.ops = m.ops /\ f.exec = m.exec
        /\ p.stack = m.stack /\ p.alt = m.alt /\ p.ops = m.ops /\ p.exec = m.exec
    BY DEF Kaspa!Failed, Kaspa!Panics
  <2> HIDE DEF f, p
  <2>2. \A k \in Nat : Straight(m, f, k) /\ Straight(m, p, k)
    BY <1>2, <2>1
  <2> QED
    BY <2>2 DEF f, p
<1>4. ASSUME NEW amount PROVE Straight(m, Kaspa!Charge(m, amount), 0)
  <2> DEFINE n == Kaspa!Charge(m, amount)
  <2>1. n.stack = m.stack /\ n.alt = m.alt /\ n.ops = m.ops /\ n.exec = m.exec
    BY DEF Kaspa!Charge, Kaspa!Failed
  <2> HIDE DEF n
  <2>2. Straight(m, n, 0)
    BY <1>2, <2>1
  <2> QED
    BY <2>2 DEF n
<1>5. ASSUME NEW e PROVE Straight(m, Kaspa!Push(m, e), 1)
  <2> DEFINE n == [m EXCEPT !.stack = Append(m.stack, e)]
  <2>1. n.stack = Append(m.stack, e) /\ n.alt = m.alt /\ n.ops = m.ops /\ n.exec = m.exec
    OBVIOUS
  <2> HIDE DEF n
  <2>2. Stacks(m) => Stacks(n) /\ Elements(n) = Elements(m) + 1
    <3> SUFFICES ASSUME Stacks(m) PROVE Stacks(n) /\ Elements(n) = Elements(m) + 1
      OBVIOUS
    <3>1. IsSeq(n.stack) /\ IsSeq(n.alt) /\ Len(n.stack) = Len(m.stack) + 1 /\ Len(n.alt) = Len(m.alt)
      BY <2>1, StackLengths, SequenceAppend
    <3>2. Elements(n) = (Len(m.stack) + 1) + Len(m.alt)
      BY <3>1 DEF Elements
    <3> DEFINE a == Len(m.stack)
               b == Len(m.alt)
    <3>3. a \in Nat /\ b \in Nat /\ Elements(m) = a + b /\ Elements(n) = (a + 1) + b
      BY <3>2, StackLengths, Zenon DEF Elements
    <3> HIDE DEF a, b
    <3>4. Elements(n) = Elements(m) + 1
      BY <3>3
    <3> QED
      BY <3>1, <3>4 DEF Stacks
  <2>3. Straight(m, n, 1)
    BY <2>1, <2>2, StackLengths DEF Straight, Grown
  <2> QED
    BY <1>1, <1>3, <2>3 DEF Kaspa!Push, n
<1> QED
  BY <1>1, <1>3, <1>4, <1>5

\* Elements that are there can be dropped.
LEMMA GrownDrop ==
  ASSUME NEW m, NEW n \in Nat, Len(m.stack) >= n
  PROVE  Straight(m, Kaspa!Drop(m, n), 0 - n)
<1> DEFINE o == Kaspa!Drop(m, n)
<1>1. o.stack = SubSeq(m.stack, 1, Len(m.stack) - n) /\ o.alt = m.alt /\ o.ops = m.ops /\ o.exec = m.exec
  BY DEF Kaspa!Drop
<1> HIDE DEF o
<1>2. Stacks(m) => /\ IsSeq(o.stack) /\ Len(o.stack) = Len(m.stack) - n
                   /\ Len(m.stack) \in Nat /\ Len(m.alt) \in Nat
  <2> SUFFICES ASSUME Stacks(m)
               PROVE  /\ IsSeq(o.stack) /\ Len(o.stack) = Len(m.stack) - n
                      /\ Len(m.stack) \in Nat /\ Len(m.alt) \in Nat
    OBVIOUS
  <2>1. Len(m.stack) \in Nat /\ Len(m.alt) \in Nat /\ IsSeq(m.stack)
    BY StackLengths DEF Stacks
  <2>2. Len(m.stack) - n \in 0..Len(m.stack)
    BY <2>1
  <2> QED
    BY <1>1, <2>1, <2>2, SequencePrefix
<1>3. Straight(m, o, 0 - n)
  <2>1. Stacks(m) => Stacks(o) /\ Elements(o) = Elements(m) - n
    <3> DEFINE a == Len(m.stack)
               b == Len(m.alt)
    <3> SUFFICES ASSUME Stacks(m) PROVE Stacks(o) /\ Elements(o) = Elements(m) - n
      OBVIOUS
    <3>1. a \in Nat /\ b \in Nat /\ Elements(m) = a + b /\ Elements(o) = (a - n) + b
      BY <1>1, <1>2, Zenon DEF Elements
    <3> HIDE DEF a, b
    <3>2. Elements(o) = Elements(m) - n
      BY <3>1
    <3> QED
      BY <1>1, <1>2, <3>2 DEF Stacks
  <2> QED
    BY <1>1, <2>1, StackLengths DEF Straight, Grown
<1> QED
  BY <1>3 DEF o

\* Between an opcode's fetch and its end, m is the machine that was fetched, or
\* has paid more.
Like(m) == Straight(Kaspa!Fetched(vm), m, 0) /\ m.stack = vm.stack

\* What an opcode does next leaves at most three elements more.
LEMMA LikeHelpers ==
  ASSUME NEW m, Like(m)
  PROVE  /\ Straight(Kaspa!Fetched(vm), m, 3)
         /\ Straight(Kaspa!Fetched(vm), Kaspa!Failed(m), 3)
                /\ Straight(Kaspa!Fetched(vm), Kaspa!Panics(m), 3)
         /\ \A amount : Like(Kaspa!Charge(m, amount))
         /\ \A e : Straight(Kaspa!Fetched(vm), Kaspa!Push(m, e), 3)
         /\ \A n \in Nat : Kaspa!Has(vm, n) =>
              /\ Straight(Kaspa!Fetched(vm), Kaspa!Drop(m, n), 3)
              /\ Straight(Kaspa!Fetched(vm), Kaspa!Panics(Kaspa!Drop(m, n)), 3)
              /\ \A e : Straight(Kaspa!Fetched(vm), Kaspa!Push(Kaspa!Drop(m, n), e), 3)
<1> DEFINE F == Kaspa!Fetched(vm)
<1>1. Straight(F, m, 0)
  BY DEF Like
<1> HIDE DEF F
<1>2. ASSUME NEW n, NEW k \in Int, k <= 3, Straight(m, n, k) PROVE Straight(F, n, 3)
  BY <1>1, <1>2, GrownTransitive
<1>3. Straight(F, m, 3) /\ Straight(F, Kaspa!Failed(m), 3) /\ Straight(F, Kaspa!Panics(m), 3)
  <2>1. Straight(m, m, 0) /\ Straight(m, Kaspa!Failed(m), 0) /\ Straight(m, Kaspa!Panics(m), 0)
    BY GrownHelpers
  <2> QED
    BY <1>2, <2>1
<1>4. ASSUME NEW amount PROVE Like(Kaspa!Charge(m, amount))
  <2>1. Straight(m, Kaspa!Charge(m, amount), 0)
    BY GrownHelpers
  <2>2. Straight(F, Kaspa!Charge(m, amount), 0)
    BY <1>1, <2>1, GrownTransitive
  <2>3. Kaspa!Charge(m, amount).stack = m.stack
    BY DEF Kaspa!Charge, Kaspa!Failed
  <2> QED
    BY <2>2, <2>3 DEF Like, F
<1>5. ASSUME NEW e PROVE Straight(F, Kaspa!Push(m, e), 3)
  <2>1. Straight(m, Kaspa!Push(m, e), 1)
    BY GrownHelpers, Zenon
  <2> QED
    BY <1>2, <2>1
<1>6. ASSUME NEW n \in Nat, Kaspa!Has(vm, n) PROVE Straight(m, Kaspa!Drop(m, n), 0 - n)
  <2>1. Len(m.stack) >= n
    BY <1>6 DEF Like, Kaspa!Has
  <2> QED
    BY <2>1, GrownDrop
<1>7. ASSUME NEW n \in Nat, Kaspa!Has(vm, n)
      PROVE  /\ Straight(F, Kaspa!Drop(m, n), 3)
             /\ Straight(F, Kaspa!Panics(Kaspa!Drop(m, n)), 3)
             /\ \A e : Straight(F, Kaspa!Push(Kaspa!Drop(m, n), e), 3)
  <2>1. Straight(m, Kaspa!Drop(m, n), 0 - n)
    BY <1>6, <1>7
  <2>2. 0 - n \in Int /\ 0 - n <= 3
    OBVIOUS
  <2>3. Straight(F, Kaspa!Drop(m, n), 3)
    BY <1>2, <2>1, <2>2
  <2>4. ASSUME NEW e PROVE Straight(F, Kaspa!Push(Kaspa!Drop(m, n), e), 3)
    <3>1. Straight(Kaspa!Drop(m, n), Kaspa!Push(Kaspa!Drop(m, n), e), 1)
      BY GrownHelpers
    <3>2. Straight(m, Kaspa!Push(Kaspa!Drop(m, n), e), 1)
      BY <2>1, <2>2, <3>1, GrownTransitive
    <3> QED
      BY <1>2, <3>2
  <2>5. Straight(F, Kaspa!Panics(Kaspa!Drop(m, n)), 3)
    <3>1. Straight(Kaspa!Drop(m, n), Kaspa!Panics(Kaspa!Drop(m, n)), 0)
      BY GrownHelpers
    <3>2. Straight(m, Kaspa!Panics(Kaspa!Drop(m, n)), 0)
      BY <2>1, <2>2, <3>1, GrownTransitive
    <3> QED
      BY <1>2, <3>2
  <2> QED
    BY <2>3, <2>4, <2>5
<1> QED
  BY <1>3, <1>4, <1>5, <1>7 DEF F

\* The data that the stacks do not hold
LEMMA StraightData ==
  ASSUME NEW m, NEW n, NEW k, NEW x, Straight(m, n, k)
  PROVE  Straight(m, [n EXCEPT !.store = x], k) /\ Straight(m, [n EXCEPT !.logs = x], k)
<1> DEFINE s == [n EXCEPT !.store = x]
           l == [n EXCEPT !.logs = x]
<1>1. /\ s.stack = n.stack /\ s.alt = n.alt /\ s.ops = n.ops /\ s.exec = n.exec
      /\ l.stack = n.stack /\ l.alt = n.alt /\ l.ops = n.ops /\ l.exec = n.exec
  OBVIOUS
<1> HIDE DEF s, l
<1>2. Stacks(s) <=> Stacks(n)
  BY <1>1 DEF Stacks
<1>3. Stacks(l) <=> Stacks(n)
  BY <1>1 DEF Stacks
<1>4. Elements(s) = Elements(n) /\ Elements(l) = Elements(n)
  BY <1>1 DEF Elements
<1>5. Straight(m, s, k) /\ Straight(m, l, k)
  BY <1>1, <1>2, <1>3, <1>4 DEF Straight, Grown
<1> QED
  BY <1>5 DEF s, l

\* Elements pushed one after the other
LEMMA GrownPushAll ==
  ASSUME NEW m, NEW es, Len(es) \in Nat
  PROVE  Straight(m, Kaspa!PushAll(m, es), Len(es))
<1>1. PICK pushed : /\ pushed[0] = m
                    /\ \A j, k \in 0..Len(es) : k = j + 1 => pushed[k] = Kaspa!Push(pushed[j], es[k])
                    /\ Kaspa!PushAll(m, es) = pushed[Len(es)]
  BY PushAllSteps
<1> DEFINE S == {n \in Nat : n <= Len(es) => Straight(m, pushed[n], n)}
<1>5. 0 \in S
  BY <1>1, GrownHelpers, Zenon
<1>6. ASSUME NEW n \in Nat, n \in S PROVE n + 1 \in S
  <2> SUFFICES ASSUME n + 1 <= Len(es) PROVE Straight(m, pushed[n + 1], n + 1)
    OBVIOUS
  <2>1. Straight(m, pushed[n], n) /\ pushed[n + 1] = Kaspa!Push(pushed[n], es[n + 1])
    BY <1>1, <1>6
  <2>2. Straight(pushed[n], pushed[n + 1], 1)
    BY <2>1, GrownHelpers, Zenon
  <2> QED
    BY <2>1, <2>2, GrownTransitive
<1> HIDE DEF S
<1>7. Len(es) \in S
  BY <1>5, <1>6, Induction
<1> QED
  BY <1>1, <1>7 DEF S

\* An opcode that is no conditional leaves at most three elements more, and the
\* conditionals as they are.
LEMMA KaspaStraight ==
  ASSUME Kaspa!Step(vm, vm'),
         ~(Kaspa!If(vm, vm') \/ Kaspa!Else(vm, vm') \/ Kaspa!EndIf(vm, vm') \/ Kaspa!EndOfScript(vm, vm'))
  PROVE  Straight(Kaspa!Fetched(vm), vm', 3)
<1> DEFINE F == Kaspa!Fetched(vm)
<1>1. Like(F)
  <2>1. F.stack = vm.stack
    BY DEF Kaspa!Fetched
  <2> QED
    BY <2>1, GrownHelpers DEF Like
<1> HIDE DEF F
<1>2. ASSUME NEW m, Like(m)
      PROVE  /\ Straight(F, m, 3) /\ Straight(F, Kaspa!Failed(m), 3) /\ Straight(F, Kaspa!Panics(m), 3)
             /\ \A amount : Like(Kaspa!Charge(m, amount))
             /\ \A e : Straight(F, Kaspa!Push(m, e), 3)
  BY <1>2, LikeHelpers DEF F
<1>3. ASSUME NEW m, Like(m), NEW n \in Nat, Kaspa!Has(vm, n)
      PROVE  /\ Straight(F, Kaspa!Drop(m, n), 3) /\ Straight(F, Kaspa!Panics(Kaspa!Drop(m, n)), 3)
             /\ \A e : Straight(F, Kaspa!Push(Kaspa!Drop(m, n), e), 3)
  BY <1>3, LikeHelpers DEF F
<1>4. \A n : Kaspa!HasNums(vm, n) => Kaspa!Has(vm, n)
  BY DEF Kaspa!HasNums
<1>5. CASE Kaspa!OutOfGas(vm, vm')
  BY <1>1, <1>2, <1>5 DEF Kaspa!OutOfGas, F
<1>6. CASE Kaspa!TooManyOps(vm, vm')
  BY <1>1, <1>2, <1>6 DEF Kaspa!TooManyOps, F
<1>7. CASE Kaspa!CutPush(vm, vm')
  BY <1>1, <1>2, <1>7 DEF Kaspa!CutPush, F
<1>8. CASE Kaspa!Skip(vm, vm')
  BY <1>1, <1>2, <1>8 DEF Kaspa!Skip, F
<1>9. CASE Kaspa!Fault(vm, vm')
  BY <1>1, <1>2, <1>9 DEF Kaspa!Fault, F
<1>10. CASE Kaspa!Nop(vm, vm')
  BY <1>1, <1>2, <1>10 DEF Kaspa!Nop, F
<1>11. CASE Kaspa!PushOp(vm, vm')
  BY <1>1, <1>2, <1>11 DEF Kaspa!PushOp, F
<1>12. CASE Kaspa!Depth(vm, vm')
  BY <1>1, <1>2, <1>12 DEF Kaspa!Depth, F
<1>13. CASE Kaspa!IfDup(vm, vm')
  BY <1>1, <1>2, <1>13 DEF Kaspa!IfDup, F
<1>14. CASE Kaspa!Cat(vm, vm')
  BY <1>1, <1>2, <1>3, <1>4, <1>14 DEF Kaspa!Cat, F
<1>15. CASE Kaspa!SubStr(vm, vm')
  BY <1>1, <1>2, <1>3, <1>4, <1>15 DEF Kaspa!SubStr, F
<1>16. CASE Kaspa!Side(vm, vm')
  BY <1>1, <1>2, <1>3, <1>4, <1>16 DEF Kaspa!Side, F
<1>17. CASE Kaspa!SizeOp(vm, vm')
  BY <1>1, <1>2, <1>17 DEF Kaspa!SizeOp, F
<1>18. CASE Kaspa!Invert(vm, vm')
  BY <1>1, <1>2, <1>3, <1>4, <1>18 DEF Kaspa!Invert, F
<1>19. CASE Kaspa!Combine(vm, vm')
  BY <1>1, <1>2, <1>3, <1>4, <1>19 DEF Kaspa!Combine, F
<1>20. CASE Kaspa!Within(vm, vm')
  BY <1>1, <1>2, <1>3, <1>4, <1>20 DEF Kaspa!Within, F
<1>21. CASE Kaspa!HashOp(vm, vm')
  BY <1>1, <1>2, <1>3, <1>4, <1>21 DEF Kaspa!HashOp, F
<1>22. CASE Kaspa!CheckSig(vm, vm')
  BY <1>1, <1>2, <1>3, <1>4, <1>22, Zenon DEF Kaspa!CheckSig, F
<1>23. CASE Kaspa!LockTime(vm, vm')
  BY <1>1, <1>2, <1>23 DEF Kaspa!LockTime, F
<1>24. CASE Kaspa!TxField(vm, vm')
  BY <1>1, <1>2, <1>24 DEF Kaspa!TxField, F
<1>25. CASE Kaspa!TxEntry(vm, vm')
  BY <1>1, <1>2, <1>3, <1>4, <1>25 DEF Kaspa!TxEntry, F
<1>26. CASE Kaspa!StateGet(vm, vm')
  BY <1>1, <1>2, <1>3, <1>4, <1>26 DEF Kaspa!StateGet, F
<1>27. CASE Kaspa!Verify(vm, vm')
  BY <1>1, <1>2, <1>3, <1>4, <1>27 DEF Kaspa!Verify, Kaspa!Fetch, F
<1>28. CASE Kaspa!MultiSig(vm, vm')
  <2> DEFINE x == Kaspa!Num(vm, 1)
             y == Kaspa!Num(vm, x + 2)
             count == x + y + 3
  <2>1. CASE x \in Nat /\ y \in Nat /\ Kaspa!Has(vm, count)
    <3>1. count \in Nat
      BY <2>1
    <3> HIDE DEF x, y, count
    <3>2. /\ Straight(F, Kaspa!Drop(F, count), 3)
          /\ \A e : Straight(F, Kaspa!Push(Kaspa!Drop(F, count), e), 3)
      BY <1>1, <1>3, <2>1, <3>1
    <3>3. Straight(F, Kaspa!Failed(F), 3)
      BY <1>1, <1>2
    <3> QED
      BY <1>28, <3>2, <3>3 DEF Kaspa!MultiSig, F, x, y, count
  <2>2. CASE ~(x \in Nat /\ y \in Nat /\ Kaspa!Has(vm, count))
    <3>1. vm' = Kaspa!Failed(F)
      BY <1>28, <2>2 DEF Kaspa!MultiSig, F
    <3>2. Straight(F, Kaspa!Failed(F), 3)
      BY <1>1, <1>2
    <3> HIDE DEF x, y, count
    <3> QED
      BY <3>1, <3>2 DEF F
  <2> QED
    BY <2>1, <2>2
<1>29. CASE Kaspa!Arithmetic1(vm, vm') \/ Kaspa!Arithmetic2(vm, vm')
  <2>1. ASSUME NEW n \in Nat, Kaspa!Has(vm, n), NEW x
            PROVE Straight(F, Kaspa!Leaves(Kaspa!Drop(F, n), x), 3)
    BY <1>1, <1>3, <2>1 DEF Kaspa!Leaves
  <2>2. CASE Kaspa!Arithmetic1(vm, vm')
    BY <1>1, <1>2, <1>4, <2>1, <2>2 DEF Kaspa!Arithmetic1, F
  <2>3. CASE Kaspa!Arithmetic2(vm, vm')
    BY <1>1, <1>2, <1>4, <2>1, <2>3 DEF Kaspa!Arithmetic2, F
  <2> QED
    BY <1>29, <2>2, <2>3
<1>30. CASE Kaspa!StatePut(vm, vm') \/ Kaspa!StateDelete(vm, vm') \/ Kaspa!EmitEvent(vm, vm')
  <2>1. ASSUME NEW m, Like(m), NEW n \in Nat, Kaspa!Has(vm, n), NEW x
        PROVE  /\ Straight(F, [Kaspa!Drop(m, n) EXCEPT !.store = x], 3)
               /\ Straight(F, [Kaspa!Drop(m, n) EXCEPT !.logs = x], 3)
    <3>1. Straight(F, Kaspa!Drop(m, n), 3)
      BY <1>3, <2>1
    <3> QED
      BY <3>1, StraightData, Zenon
  <2>2. CASE Kaspa!StatePut(vm, vm')
    BY <1>1, <1>2, <2>1, <2>2, Zenon DEF Kaspa!StatePut, F
  <2>3. CASE Kaspa!StateDelete(vm, vm')
    BY <1>1, <1>2, <2>1, <2>3, Zenon DEF Kaspa!StateDelete, F
  <2>4. CASE Kaspa!EmitEvent(vm, vm')
    BY <1>1, <1>2, <2>1, <2>4, Zenon DEF Kaspa!EmitEvent, F
  <2> QED
    BY <1>30, <2>2, <2>3, <2>4
<1>31. CASE Kaspa!Rearrange(vm, vm')
  <2> DEFINE n == Kaspa!Rearranges[Kaspa!Token(vm).op]
             es == Kaspa!Rearranged(vm, Kaspa!Token(vm).op)
             m == Kaspa!Drop(F, n)
  <2>1. Kaspa!Token(vm).op \in DOMAIN Kaspa!Rearranges
    BY <1>31 DEF Kaspa!Rearrange, Kaspa!Fetch
  <2>2. n \in Nat /\ Len(es) \in Nat /\ Len(es) <= n + 3
    BY <2>1 DEF Kaspa!Rearranged, Kaspa!Rearranges
  <2> HIDE DEF es, n
  <2>3. CASE Kaspa!Has(vm, n)
    <3>1. Straight(F, m, 0 - n)
      BY <1>1, <2>2, <2>3, GrownDrop DEF Like, Kaspa!Has
    <3>2. Straight(m, Kaspa!PushAll(m, es), Len(es))
      BY <2>2, GrownPushAll
    <3> HIDE DEF m
    <3>3. Straight(F, Kaspa!PushAll(m, es), 3)
      BY <2>2, <3>1, <3>2, GrownTransitive
    <3> QED
      BY <1>31, <2>3, <3>3 DEF Kaspa!Rearrange, F, m, n, es
  <2>4. CASE ~Kaspa!Has(vm, n)
    BY <1>1, <1>2, <1>31, <2>4 DEF Kaspa!Rearrange, F, n
  <2> QED
    BY <2>3, <2>4
<1>32. CASE Kaspa!Tuck(vm, vm')
  <2>1. CASE Kaspa!Has(vm, 2)
    <3> DEFINE at == Len(F.stack) - 1
               n == [F EXCEPT !.stack = Kaspa!InsertAt(F.stack, at, Kaspa!Top(vm, 1))]
    <3>1. vm' = n
      BY <1>32, <2>1 DEF Kaspa!Tuck, F
    <3>2. /\ n.stack = Kaspa!InsertAt(F.stack, at, Kaspa!Top(vm, 1))
          /\ n.alt = F.alt /\ n.ops = F.ops /\ n.exec = F.exec
      BY DEF F, Kaspa!Fetched
    <3>3. Stacks(F) => IsSeq(n.stack) /\ IsSeq(n.alt)
              /\ Len(n.stack) + Len(n.alt) <= Len(F.stack) + Len(F.alt) + 3
      <4> SUFFICES ASSUME Stacks(F) PROVE IsSeq(n.stack) /\ IsSeq(n.alt)
              /\ Len(n.stack) + Len(n.alt) <= Len(F.stack) + Len(F.alt) + 3
        BY Zenon
      <4>1. IsSeq(F.stack) /\ Len(F.stack) \in Nat /\ Len(F.stack) >= 2 /\ IsSeq(F.alt)
                /\ Len(F.alt) \in Nat
        BY <1>1, <2>1, StackLengths DEF Like, Kaspa!Has
      <4>2. at \in 1..Len(F.stack)
        BY <4>1
      <4> HIDE DEF at
      <4>3. IsSeq(n.stack) /\ Len(n.stack) = Len(F.stack) + 1
        BY <3>2, <4>1, <4>2, SequenceSplice
      <4> DEFINE a == Len(F.stack)
                 b == Len(F.alt)
                 c == Len(n.stack)
      <4>4. a \in Nat /\ b \in Nat /\ c = a + 1 /\ Len(n.alt) = b
        BY <3>2, <4>1, <4>3
      <4> HIDE DEF a, b, c
      <4>5. c + b <= a + b + 3
        BY <4>4
      <4> QED
        BY <3>2, <4>1, <4>3, <4>4, <4>5, Zenon DEF a, b, c
    <3> HIDE DEF n, at
    <3>4. Straight(F, n, 3)
      BY <3>2, <3>3, StraightBy, Zenon
    <3> QED
      BY <3>1, <3>4 DEF F
  <2>2. CASE ~Kaspa!Has(vm, 2)
    BY <1>1, <1>2, <1>32, <2>2 DEF Kaspa!Tuck, F
  <2> QED
    BY <2>1, <2>2
<1>33. CASE Kaspa!ToAlt(vm, vm')
  <2>1. CASE Kaspa!Has(vm, 1)
    <3> DEFINE d == Kaspa!Drop(F, 1)
               n == [d EXCEPT !.alt = Append(d.alt, Kaspa!Top(vm, 1))]
    <3>1. vm' = n
      BY <1>33, <2>1 DEF Kaspa!ToAlt, F
    <3>2. Straight(F, d, 0 - 1)
      BY <1>1, <2>1, GrownDrop DEF Like, Kaspa!Has
    <3>3. n.alt = Append(d.alt, Kaspa!Top(vm, 1)) /\ n.stack = d.stack /\ n.ops = d.ops /\ n.exec = d.exec
      BY DEF Kaspa!Drop, F, Kaspa!Fetched
    <3> HIDE DEF d, n
    <3>4. Stacks(d) => IsSeq(n.stack) /\ IsSeq(n.alt)
              /\ Len(n.stack) + Len(n.alt) <= Len(d.stack) + Len(d.alt) + 1
      <4> DEFINE a == Len(d.stack)
                 b == Len(d.alt)
                 c == Len(n.alt)
      <4>1. Stacks(d) => /\ IsSeq(n.stack) /\ IsSeq(n.alt)
                         /\ a \in Nat /\ b \in Nat /\ c = b + 1 /\ Len(n.stack) = a
        BY <3>3, StackLengths, SequenceAppend
      <4> HIDE DEF a, b, c
      <4>2. Stacks(d) => a + c <= a + b + 1
        BY <4>1
      <4> QED
        BY <4>1, <4>2, Zenon DEF a, b, c
    <3>5. Straight(d, n, 1)
      BY <3>3, <3>4, StraightBy, Zenon
    <3> QED
      BY <3>1, <3>2, <3>5, GrownTransitive DEF F
  <2>2. CASE ~Kaspa!Has(vm, 1)
    BY <1>1, <1>2, <1>33, <2>2 DEF Kaspa!ToAlt, F
  <2> QED
    BY <2>1, <2>2
<1>34. CASE Kaspa!FromAlt(vm, vm')
  <2>1. CASE vm.alt # <<>>
    <3> DEFINE n == [F EXCEPT !.alt = Kaspa!Front(F.alt)]
    <3>1. vm' = Kaspa!Push(n, Kaspa!Last(vm.alt))
      BY <1>34, <2>1 DEF Kaspa!FromAlt, F
    <3>2. n.alt = Kaspa!Front(F.alt) /\ n.stack = F.stack /\ n.ops = F.ops /\ n.exec = F.exec
              /\ F.alt # <<>>
      BY <2>1 DEF F, Kaspa!Fetched
    <3> HIDE DEF n
    <3>3. Stacks(F) => IsSeq(n.stack) /\ IsSeq(n.alt)
              /\ Len(n.stack) + Len(n.alt) <= Len(F.stack) + Len(F.alt) + 0
      <4> DEFINE a == Len(F.stack)
                 b == Len(F.alt)
                 c == Len(n.alt)
      <4>1. Stacks(F) => /\ IsSeq(n.stack) /\ IsSeq(n.alt)
                         /\ a \in Nat /\ b \in Nat /\ c = b - 1 /\ Len(n.stack) = a
        BY <3>2, StackLengths, SequenceFront
      <4> HIDE DEF a, b, c
      <4>2. Stacks(F) => a + c <= a + b + 0
        BY <4>1
      <4> QED
        BY <4>1, <4>2, Zenon DEF a, b, c
    <3>4. Straight(F, n, 0)
      BY <3>2, <3>3, StraightBy, Zenon
    <3>5. Straight(n, Kaspa!Push(n, Kaspa!Last(vm.alt)), 1)
      BY GrownHelpers, Zenon
    <3> QED
      BY <3>1, <3>4, <3>5, GrownTransitive DEF F
  <2>2. CASE vm.alt = <<>>
    BY <1>1, <1>2, <1>34, <2>2 DEF Kaspa!FromAlt, F
  <2> QED
    BY <2>1, <2>2
<1>35. CASE Kaspa!Pick(vm, vm')
  <2> DEFINE x == Kaspa!Num(vm, 1)
             rest == Kaspa!Drop(F, 1)
             from == Len(vm.stack) - 1 - x
             n == [rest EXCEPT !.stack = Kaspa!RemoveAt(rest.stack, from)]
  <2>1. CASE ~Kaspa!HasNums(vm, 1) \/ x \notin 0..(Len(vm.stack) - 2)
    BY <1>1, <1>2, <1>35, <2>1 DEF Kaspa!Pick, F
  <2>2. CASE Kaspa!HasNums(vm, 1) /\ x \in 0..(Len(vm.stack) - 2)
    <3>1. Kaspa!Has(vm, 1) /\ Len(F.stack) >= 1
      BY <1>1, <2>2 DEF Kaspa!HasNums, Kaspa!Has, Like
    <3>2. vm' = Kaspa!Push(rest, vm.stack[from]) \/ vm' = Kaspa!Push(n, vm.stack[from])
      BY <1>35, <2>2 DEF Kaspa!Pick, F
    <3>3. /\ n.stack = Kaspa!RemoveAt(rest.stack, from) /\ n.alt = rest.alt /\ n.ops = rest.ops
          /\ n.exec = rest.exec /\ rest.stack = SubSeq(F.stack, 1, Len(F.stack) - 1) /\ F.stack = vm.stack
      BY DEF F, Kaspa!Fetched, Kaspa!Drop
    <3>4. Straight(F, rest, 0 - 1)
      BY <3>1, GrownDrop
    <3> HIDE DEF n, rest
    <3>5. Straight(rest, Kaspa!Push(rest, vm.stack[from]), 1)
      BY GrownHelpers, Zenon
    <3>6. Straight(F, Kaspa!Push(rest, vm.stack[from]), 3)
      BY <3>4, <3>5, GrownTransitive
    <3>7. Stacks(F) => IsSeq(n.stack) /\ IsSeq(n.alt)
              /\ Len(n.stack) + Len(n.alt) <= Len(rest.stack) + Len(rest.alt) + (0 - 1)
      <4> SUFFICES ASSUME Stacks(F) PROVE IsSeq(n.stack) /\ IsSeq(n.alt)
              /\ Len(n.stack) + Len(n.alt) <= Len(rest.stack) + Len(rest.alt) + (0 - 1)
        BY Zenon
      <4>1. Stacks(rest)
        BY <3>4 DEF Straight, Grown
      <4>2. IsSeq(rest.stack) /\ Len(rest.stack) \in Nat /\ IsSeq(rest.alt) /\ Len(rest.alt) \in Nat
        BY <4>1, StackLengths
      <4>3. IsSeq(F.stack) /\ Len(F.stack) \in Nat
        BY StackLengths
      <4>4. Len(F.stack) - 1 \in 0..Len(F.stack)
        BY <3>1, <4>3
      <4>5. Len(rest.stack) = Len(F.stack) - 1
        BY <3>3, <4>3, <4>4, SequencePrefix
      <4>6. from \in 1..Len(rest.stack)
        BY <2>2, <3>3, <4>3, <4>5
      <4> HIDE DEF from
      <4>7. IsSeq(n.stack) /\ Len(n.stack) = Len(rest.stack) - 1
        BY <3>3, <4>2, <4>6, SequenceSplice, Zenon
      <4> DEFINE a == Len(rest.stack)
                 b == Len(rest.alt)
                 c == Len(n.stack)
      <4>8. a \in Nat /\ b \in Nat /\ c = a - 1 /\ Len(n.alt) = b
        BY <3>3, <4>2, <4>7
      <4> HIDE DEF a, b, c
      <4>9. c + b <= a + b + (0 - 1)
        BY <4>8
      <4> QED
        BY <3>3, <4>2, <4>7, <4>8, <4>9, Zenon DEF a, b, c
    <3>8. Straight(F, n, 0)
      <4>1. ASSUME Stacks(F) PROVE Stacks(rest) /\ Straight(rest, n, 0 - 1)
        BY <3>3, <3>4, <3>7, <4>1, StraightBy, Zenon DEF Straight, Grown
      <4>2. ASSUME Stacks(F) PROVE Straight(F, n, 0)
        BY <3>4, <4>1, <4>2, GrownTransitive
      <4>3. ASSUME ~Stacks(F) PROVE Straight(F, n, 0)
        BY <3>3, <3>4, <4>3 DEF Straight, Grown
      <4> QED
        BY <4>2, <4>3
    <3>9. Straight(n, Kaspa!Push(n, vm.stack[from]), 1)
      BY GrownHelpers, Zenon
    <3>10. Straight(F, Kaspa!Push(n, vm.stack[from]), 3)
      BY <3>8, <3>9, GrownTransitive
    <3> QED
      BY <3>2, <3>6, <3>10 DEF F
  <2> QED
    BY <2>1, <2>2
<1> QED
  BY <1>5, <1>6, <1>7, <1>8, <1>9, <1>10, <1>11, <1>12, <1>13, <1>14, <1>15, <1>16, <1>17, <1>18,
     <1>19, <1>20, <1>21, <1>22, <1>23, <1>24, <1>25, <1>26, <1>27, <1>28, <1>29, <1>30, <1>31,
     <1>32, <1>33, <1>34, <1>35 DEF Kaspa!Step, F

\* The conditionals: none executes inside a skipped one.
Nested(exec) == \A i, j \in DOMAIN exec : i < j /\ ~exec[i] => ~exec[j]

\* Opening a conditional, turning the innermost one over and closing it keep
\* the conditionals nested.
LEMMA NestedConditionals ==
  ASSUME NEW exec \in Seq(BOOLEAN), Nested(exec)
  PROVE  /\ \A b \in BOOLEAN : (b => \A i \in DOMAIN exec : exec[i]) =>
              Append(exec, b) \in Seq(BOOLEAN) /\ Nested(Append(exec, b))
         /\ exec # <<>> =>
              /\ Kaspa!Front(exec) \in Seq(BOOLEAN) /\ Nested(Kaspa!Front(exec))
              /\ \A b \in BOOLEAN : (\A i \in 1..(Len(exec) - 1) : exec[i]) =>
                   /\ [exec EXCEPT ![Len(exec)] = b] \in Seq(BOOLEAN)
                   /\ Nested([exec EXCEPT ![Len(exec)] = b])
<1>1. ASSUME NEW b \in BOOLEAN, b => \A i \in DOMAIN exec : exec[i]
      PROVE  Append(exec, b) \in Seq(BOOLEAN) /\ Nested(Append(exec, b))
  <2>1. /\ Append(exec, b) \in Seq(BOOLEAN) /\ DOMAIN Append(exec, b) = 1..(Len(exec) + 1)
        /\ DOMAIN exec = 1..Len(exec) /\ Len(exec) \in Nat
        /\ \A i \in 1..Len(exec) : Append(exec, b)[i] = exec[i]
        /\ Append(exec, b)[Len(exec) + 1] = b
    OBVIOUS
  <2> DEFINE e == Append(exec, b)
  <2> HIDE DEF e
  <2>2. ASSUME NEW i \in DOMAIN e, NEW j \in DOMAIN e, i < j, ~e[i] PROVE ~e[j]
    <3>1. i \in 1..Len(exec) /\ ~exec[i] /\ i \in DOMAIN exec
      BY <2>1, <2>2 DEF e
    <3>2. CASE j = Len(exec) + 1
      BY <1>1, <2>1, <3>1, <3>2 DEF e
    <3>3. CASE j # Len(exec) + 1
      <4>1. j \in DOMAIN exec /\ e[j] = exec[j]
        BY <2>1, <2>2, <3>3 DEF e
      <4> QED
        BY <2>2, <3>1, <4>1 DEF Nested
    <3> QED
      BY <3>2, <3>3
  <2> QED
    BY <2>1, <2>2 DEF Nested, e
<1>2. ASSUME exec # <<>>
      PROVE  Kaspa!Front(exec) \in Seq(BOOLEAN) /\ Nested(Kaspa!Front(exec))
  <2> DEFINE e == Kaspa!Front(exec)
  <2>1. Len(exec) \in Nat \ {0} /\ DOMAIN exec = 1..Len(exec)
    BY <1>2
  <2>2. /\ e \in Seq(BOOLEAN) /\ DOMAIN e = 1..(Len(exec) - 1)
        /\ \A i \in 1..(Len(exec) - 1) : e[i] = exec[i]
    BY <2>1 DEF Kaspa!Front
  <2> HIDE DEF e
  <2>3. \A i \in DOMAIN e : i \in DOMAIN exec /\ e[i] = exec[i]
    BY <2>1, <2>2
  <2> QED
    BY <2>2, <2>3 DEF Nested, e
<1>3. ASSUME exec # <<>>, NEW b \in BOOLEAN, \A i \in 1..(Len(exec) - 1) : exec[i]
      PROVE  [exec EXCEPT ![Len(exec)] = b] \in Seq(BOOLEAN) /\ Nested([exec EXCEPT ![Len(exec)] = b])
  <2> DEFINE e == [exec EXCEPT ![Len(exec)] = b]
  <2>1. Len(exec) \in Nat \ {0} /\ DOMAIN exec = 1..Len(exec)
    BY <1>3
  <2>2. e \in Seq(BOOLEAN)
    BY <2>1
  <2>3. DOMAIN e = DOMAIN exec /\ \A i \in DOMAIN exec : i # Len(exec) => e[i] = exec[i]
    OBVIOUS
  <2> HIDE DEF e
  <2>4. ASSUME NEW i \in DOMAIN e, NEW j \in DOMAIN e, i < j PROVE e[i]
    <3>1. i \in 1..(Len(exec) - 1) /\ i \in DOMAIN exec /\ i # Len(exec)
      BY <2>1, <2>3, <2>4
    <3> QED
      BY <1>3, <2>3, <3>1
  <2> QED
    BY <2>2, <2>4 DEF Nested, e
<1> QED
  BY <1>1, <1>2, <1>3

\* A Kaspa machine between two steps
StackInv(m) ==
  /\ Stacks(m) /\ m.ops \in Nat /\ Elements(m) <= 3 * m.ops
  /\ m.exec \in Seq(BOOLEAN) /\ Nested(m.exec)

\* A fetched machine has counted one opcode more.
LEMMA StackFetched ==
  ASSUME StackInv(vm), NEW n, Grown(Kaspa!Fetched(vm), n, 3), n.exec \in Seq(BOOLEAN), Nested(n.exec)
  PROVE  StackInv(n)
<1> DEFINE F == Kaspa!Fetched(vm)
<1>1. F.stack = vm.stack /\ F.alt = vm.alt /\ F.ops = vm.ops + 1
  BY DEF Kaspa!Fetched
<1>2. Grown(F, n, 3)
  OBVIOUS
<1> HIDE DEF F
<1>3. Stacks(F) /\ Elements(F) = Elements(vm) /\ Elements(F) \in Nat
  BY <1>1, StackLengths, Zenon DEF StackInv, Stacks, Elements
<1>4. Stacks(n) /\ Elements(n) <= Elements(F) + 3 /\ n.ops = F.ops
  BY <1>2, <1>3 DEF Grown
<1>5. Elements(n) \in Nat
  BY <1>4, StackLengths
<1> QED
  BY <1>1, <1>3, <1>4, <1>5 DEF StackInv

\* Every step keeps it.
LEMMA KaspaStep ==
  ASSUME StackInv(vm), Kaspa!Step(vm, vm')
  PROVE  StackInv(vm')
<1> DEFINE F == Kaspa!Fetched(vm)
<1>1. /\ F.exec = vm.exec /\ F.stack = vm.stack
      /\ vm.exec \in Seq(BOOLEAN) /\ Nested(vm.exec)
  BY DEF Kaspa!Fetched, StackInv
<1>2. Straight(F, F, 0)
  BY GrownHelpers, Zenon
<1> HIDE DEF F
<1>3. ASSUME NEW n, Straight(F, n, 3) PROVE StackInv(n)
  BY <1>1, <1>3, StackFetched DEF Straight, F
<1>4. ASSUME NEW n, NEW k \in Int, k <= 3, Straight(F, n, k), NEW exec \in Seq(BOOLEAN), Nested(exec)
      PROVE  StackInv([n EXCEPT !.exec = exec])
  <2> DEFINE o == [n EXCEPT !.exec = exec]
  <2>1. o.stack = n.stack /\ o.alt = n.alt /\ o.ops = n.ops /\ o.exec = exec
    OBVIOUS
  <2> HIDE DEF o
  <2>2. Stacks(o) <=> Stacks(n)
    BY <2>1 DEF Stacks
  <2>3. Elements(o) = Elements(n)
    BY <2>1 DEF Elements
  <2>4. Stacks(F) => Elements(F) \in Nat /\ (Stacks(n) => Elements(n) \in Nat)
    BY StackLengths
  <2>5. Grown(F, o, 3)
    BY <1>4, <2>1, <2>2, <2>3, <2>4 DEF Straight, Grown
  <2>6. StackInv(o)
    BY <1>4, <2>1, <2>5, StackFetched DEF F
  <2> QED
    BY <2>1, <2>6 DEF o
<1>5. StackInv(F) /\ StackInv(Kaspa!Failed(F))
  BY <1>2, <1>3, GrownHelpers
<1>6. Kaspa!Has(vm, 1) => Straight(F, Kaspa!Drop(F, 1), 0 - 1)
  BY <1>1, GrownDrop DEF Kaspa!Has
<1>7. CASE Kaspa!If(vm, vm')
  <2>1. CASE ~Kaspa!Executing(vm)
    <3> DEFINE exec == Append(vm.exec, FALSE)
    <3>1. vm' = [F EXCEPT !.exec = exec]
      BY <1>1, <1>7, <2>1 DEF Kaspa!If, F
    <3>2. exec \in Seq(BOOLEAN) /\ Nested(exec)
      BY <1>1, NestedConditionals, Zenon
    <3> HIDE DEF exec
    <3> QED
      BY <1>2, <1>4, <3>1, <3>2
  <2>2. CASE Kaspa!Executing(vm) /\ Kaspa!Has(vm, 1)
    <3> DEFINE d == Kaspa!Drop(F, 1)
               b == Kaspa!IsTrue(Kaspa!Top(vm, 1)) <=> Kaspa!Token(vm).op = "If"
    <3>1. vm' = [d EXCEPT !.exec = Append(d.exec, b)]
      BY <1>7, <2>2 DEF Kaspa!If, F
    <3>2. d.exec = vm.exec /\ b \in BOOLEAN
      BY <1>1 DEF Kaspa!Drop
    <3> DEFINE exec == Append(vm.exec, b)
    <3> HIDE DEF d
    <3> HIDE DEF b
    <3>3. exec \in Seq(BOOLEAN) /\ Nested(exec)
      BY <1>1, <2>2, <3>2, NestedConditionals DEF Kaspa!Executing
    <3>4. Straight(F, d, 0 - 1)
      BY <1>6, <2>2 DEF d
    <3>5. vm' = [d EXCEPT !.exec = exec]
      BY <3>1, <3>2
    <3> HIDE DEF exec
    <3> QED
      BY <1>4, <3>3, <3>4, <3>5
  <2>3. CASE Kaspa!Executing(vm) /\ ~Kaspa!Has(vm, 1)
    <3>1. vm' = Kaspa!Failed(F)
      BY <1>7, <2>3 DEF Kaspa!If, F
    <3> QED
      BY <1>5, <3>1
  <2> QED
    BY <2>1, <2>2, <2>3
<1>8. CASE Kaspa!Else(vm, vm')
  <2> DEFINE outer == \A i \in 1..(Len(vm.exec) - 1) : vm.exec[i]
             b == ~vm.exec[Len(vm.exec)]
             exec == [vm.exec EXCEPT ![Len(vm.exec)] = b]
  <2>1. CASE vm.exec = <<>> \/ ~outer
    <3>1. vm' = Kaspa!Failed(F) \/ vm' = F
      BY <1>8, <2>1 DEF Kaspa!Else, F
    <3> QED
      BY <1>5, <3>1
  <2>2. CASE vm.exec # <<>> /\ outer
    <3>1. vm' = [F EXCEPT !.exec = exec]
      BY <1>1, <1>8, <2>2 DEF Kaspa!Else, F
    <3>2. b \in BOOLEAN
      OBVIOUS
    <3> HIDE DEF b
    <3>3. exec \in Seq(BOOLEAN) /\ Nested(exec)
      BY <1>1, <2>2, <3>2, NestedConditionals, Zenon
    <3> HIDE DEF exec
    <3> QED
      BY <1>2, <1>4, <3>1, <3>3
  <2> QED
    BY <2>1, <2>2
<1>9. CASE Kaspa!EndIf(vm, vm')
  <2>1. CASE vm.exec = <<>>
    <3>1. vm' = Kaspa!Failed(F)
      BY <1>9, <2>1 DEF Kaspa!EndIf, F
    <3> QED
      BY <1>5, <3>1
  <2>2. CASE vm.exec # <<>>
    <3>1. vm' = [F EXCEPT !.exec = Kaspa!Front(vm.exec)]
      BY <1>1, <1>9, <2>2 DEF Kaspa!EndIf, F
    <3>2. Kaspa!Front(vm.exec) \in Seq(BOOLEAN) /\ Nested(Kaspa!Front(vm.exec))
      BY <1>1, <2>2, NestedConditionals
    <3> QED
      BY <1>2, <1>4, <3>1, <3>2
  <2> QED
    BY <2>1, <2>2
<1>10. CASE Kaspa!EndOfScript(vm, vm')
  <2>1. vm'.stack = vm.stack /\ vm'.alt = vm.alt /\ vm'.ops = vm.ops /\ vm'.exec = vm.exec
    BY <1>10 DEF Kaspa!EndOfScript
  <2> QED
    BY <2>1, Zenon DEF StackInv, Stacks, Elements
<1>11. CASE ~(Kaspa!If(vm, vm') \/ Kaspa!Else(vm, vm') \/ Kaspa!EndIf(vm, vm')
           \/ Kaspa!EndOfScript(vm, vm'))
  BY <1>3, <1>11, KaspaStraight DEF F
<1> QED
  BY <1>7, <1>8, <1>9, <1>10, <1>11

\* A call starts with empty stacks and no conditional.
LEMMA KaspaStart ==
  ASSUME NEW c \in Contract, TypeOfContract(c) # "none", NEW kind, NEW limit \in Nat,
         Start(c, kind, limit).lang = "kaspa"
  PROVE  StackInv(Start(c, kind, limit))
<1> DEFINE input == IF kind = "deploy" THEN <<>> ELSE c.input
           m == Kaspa!Boot(input, c.code, limit)
<1>1. TypeOfContract(c) \in {"avm", "sbf", "kaspa", "pact"}
  BY ContractAssumption DEF TypeOfContract
<1>2. Avm!Boot(c.code, limit).lang = "avm" /\ Sbf!Boot(c.code, limit).lang = "sbf"
  BY DEF Avm!Boot, Sbf!Boot
<1>3. Pact!Boot(c.code, input, limit).lang = "pact"
  BY DEF Pact!Boot
<1>4. Start(c, kind, limit) = m
  BY <1>1, <1>2, <1>3 DEF Start
<1>5. m.stack = <<>> /\ m.alt = <<>> /\ m.exec = <<>> /\ m.ops = 0
  BY DEF Kaspa!Boot
<1> HIDE DEF m
<1>6. <<>> \in Seq(BOOLEAN) /\ Len(<<>>) = 0
  OBVIOUS
<1>7. IsSeq(<<>>) /\ Nested(<<>>)
  BY <1>6 DEF IsSeq, Nested
<1> QED
  BY <1>4, <1>5, <1>6, <1>7 DEF StackInv, Stacks, Elements

\* A conditional inside a skipped branch never executes, and every opcode leaves
\* at most three elements more on the two stacks: with any scripts and limits,
\* the count of opcodes bounds the stacks, the two that OpTuck and OpToAltStack
\* push on without a check included (kaspa.rs:795, :831, :946).
THEOREM StacksBounded == Spec => []KaspaStacks
<1> DEFINE Inv == vm.lang = "kaspa" => StackInv(vm)
<1>1. Init => Inv
  BY DEF Init, Idle
<1>2. MeterInv /\ Inv /\ [Next]_vars => Inv'
  <2> SUFFICES ASSUME MeterInv, Inv, [Next]_vars, vm'.lang = "kaspa" PROVE StackInv(vm)'
    OBVIOUS
  <2>1. CASE vm' = vm
    BY <2>1
  <2>2. CASE vm' = Idle
    BY <2>2 DEF Idle
  <2>3. ASSUME NEW kind, NEW limit \in Nat, contract \in Contract, TypeOfContract(contract) # "none",
               vm' = Start(contract, kind, limit)
        PROVE  StackInv(vm')
    BY <2>3, KaspaStart
  <2>4. CASE vm'.lang = vm.lang /\ (vm.lang = "kaspa" => Kaspa!Step(vm, vm'))
    BY <2>4, KaspaStep
  <2> QED
    BY <2>1, <2>2, <2>3, <2>4, Moves
<1>3. Inv => KaspaStacks
  BY Zenon DEF KaspaStacks, StackInv, Nested, Elements
<1> QED
  BY <1>1, <1>2, <1>3, MeterAlways, PTL DEF Spec

-----------------------------------------------------------------------------
\* The calls of the evaluator that wait for a value: the expression, the
\* bindings before the call, and how many values it had when it last called.
At(m, i) ==
  Len(m.frames[i].vals) - (IF i = Len(m.frames) /\ m.todo = <<>> THEN 1 ELSE 0)
Calls(m) ==
  [i \in 1..Len(m.frames) |-> [e |-> m.frames[i].e, env |-> m.frames[i].env, at |-> At(m, i)]]

\* A call that has bound names of its own, and one that has put a capability in
\* scope
Binds(c) ==
  \/ c.e.kind = "let"
  \/ c.e.kind \in {"app", "with-capability"} /\ c.at \in Nat /\ c.at = Len(Pact!Parts(c.e))
Scoped(c) == c.e.kind = "with-capability" /\ c.at \in Nat /\ c.at - 1 = Len(c.e.args)

InScope(calls, n) == {i \in 1..n : Scoped(calls[i])}

\* n calls, one inside the other: each that binds no names passes on those it
\* was called with, each capability in scope is one call's, and a module is open
\* only inside its own call.
Nest(calls, n, env, active, module) ==
  /\ \A i \in 1..n : ~Binds(calls[i]) => (IF i = n THEN env ELSE calls[i + 1].env) = calls[i].env
  /\ (IF n = 0 THEN env ELSE calls[1].env) = <<>>
  /\ Len(active) = Cardinality(InScope(calls, n))
  /\ module # <<>> => \E i \in 1..n : calls[i].e.kind = "module"

\* The capabilities in scope are as many as their calls.
LEMMA InScopeFinite ==
  ASSUME NEW n \in Nat, NEW calls
  PROVE  /\ IsFiniteSet(InScope(calls, n)) /\ Cardinality(InScope(calls, n)) \in Nat
         /\ n + 1 \notin InScope(calls, n)
<1>1. IsFiniteSet(1..n)
  BY FS_Interval
<1>2. InScope(calls, n) \subseteq 1..n
  BY DEF InScope
<1>3. IsFiniteSet(InScope(calls, n))
  BY <1>1, <1>2, FS_Subset
<1>4. n + 1 \notin 1..n
  OBVIOUS
<1> QED
  BY <1>2, <1>3, <1>4, FS_CardinalityType

\* One call more, which may have put a capability in scope
LEMMA InScopeLast ==
  ASSUME NEW n \in Nat, NEW calls, NEW others, \A i \in 1..n : others[i] = calls[i]
  PROVE  Cardinality(InScope(others, n + 1)) =
           Cardinality(InScope(calls, n)) + (IF Scoped(others[n + 1]) THEN 1 ELSE 0)
<1> DEFINE S == InScope(calls, n)
           T == InScope(others, n + 1)
<1>1. 1..(n + 1) = (1..n) \cup {n + 1}
  OBVIOUS
<1>2. T = IF Scoped(others[n + 1]) THEN S \cup {n + 1} ELSE S
  BY <1>1 DEF InScope
<1>3. IsFiniteSet(S) /\ Cardinality(S) \in Nat /\ n + 1 \notin S
  BY InScopeFinite
<1> HIDE DEF S, T
<1>4. Cardinality(S \cup {n + 1}) = Cardinality(S) + 1
  BY <1>3, FS_AddElement
<1> QED
  BY <1>2, <1>3, <1>4 DEF S, T

\* A new call has bound nothing and put nothing in scope yet.
LEMMA NestPush ==
  ASSUME NEW n \in Nat, NEW calls, NEW env, NEW active, NEW module, NEW mod, NEW others,
         Nest(calls, n, env, active, module),
         \A i \in 1..n : others[i] = calls[i],
         others[n + 1].env = env, others[n + 1].at = -1,
         mod = module \/ others[n + 1].e.kind = "module"
  PROVE  Nest(others, n + 1, env, active, mod)
<1>1. ASSUME NEW i \in 1..(n + 1), ~Binds(others[i])
      PROVE  (IF i = n + 1 THEN env ELSE others[i + 1].env) = others[i].env
  <2>1. CASE i = n + 1
    BY <2>1
  <2>2. CASE i # n + 1
    <3>1. i \in 1..n /\ i + 1 \in 1..(n + 1)
      BY <2>2
    <3>2. (IF i = n THEN env ELSE calls[i + 1].env) = calls[i].env
      BY <1>1, <3>1 DEF Nest
    <3>3. others[i + 1].env = IF i = n THEN env ELSE calls[i + 1].env
      BY <3>1
    <3> QED
      BY <2>2, <3>1, <3>2, <3>3
  <2> QED
    BY <2>1, <2>2
<1>2. (IF n + 1 = 0 THEN env ELSE others[1].env) = <<>>
  <2>1. 1 \in 1..n \/ n = 0
    OBVIOUS
  <2> QED
    BY <2>1 DEF Nest
<1>3. ~Scoped(others[n + 1])
  BY DEF Scoped
<1>4. Len(active) = Cardinality(InScope(others, n + 1))
  <2>1. Cardinality(InScope(others, n + 1)) = Cardinality(InScope(calls, n)) + 0
    BY <1>3, InScopeLast
  <2> QED
    BY <2>1, InScopeFinite DEF Nest
<1>5. mod # <<>> => \E i \in 1..(n + 1) : others[i].e.kind = "module"
  <2>1. ASSUME mod # <<>>, mod = module PROVE \E i \in 1..(n + 1) : others[i].e.kind = "module"
    <3>1. PICK i \in 1..n : calls[i].e.kind = "module"
      BY <2>1 DEF Nest
    <3> QED
      BY <3>1
  <2> QED
    BY <2>1
<1> QED
  BY <1>1, <1>2, <1>4, <1>5 DEF Nest

\* The innermost call goes on: it may bind names and put a capability in scope, or take it back.
LEMMA NestTop ==
  ASSUME NEW k \in Nat \ {0}, NEW calls, NEW env, NEW active, NEW module, NEW bound, NEW scope, NEW others,
         Nest(calls, k, env, active, module), Len(active) \in Nat,
         \A i \in 1..(k - 1) : others[i] = calls[i],
         others[k].env = calls[k].env, others[k].e = calls[k].e,
         ~Binds(others[k]) => bound = calls[k].env,
         Len(scope) = Len(active) + (IF Scoped(others[k]) THEN 1 ELSE 0)
                                  - (IF Scoped(calls[k]) THEN 1 ELSE 0)
  PROVE  Nest(others, k, bound, scope, module)
<1> DEFINE n == k - 1
<1>1. n \in Nat /\ n + 1 = k /\ \A i \in 1..n : others[i] = calls[i]
  OBVIOUS
<1> HIDE DEF n
<1>2. ASSUME NEW i \in 1..k, ~Binds(others[i])
      PROVE  (IF i = k THEN bound ELSE others[i + 1].env) = others[i].env
  <2>1. CASE i = k
    BY <1>2, <2>1
  <2>2. CASE i # k
    <3>1. i \in 1..n /\ i + 1 \in 1..k
      BY <1>1, <2>2
    <3>2. calls[i + 1].env = calls[i].env
      BY <1>1, <1>2, <2>2, <3>1 DEF Nest
    <3>3. others[i + 1].env = calls[i + 1].env
      <4>1. i + 1 = k \/ i + 1 \in 1..n
        BY <1>1, <3>1
      <4> QED
        BY <1>1, <4>1
    <3> QED
      BY <1>1, <2>2, <3>1, <3>2, <3>3
  <2> QED
    BY <2>1, <2>2
<1>3. (IF k = 0 THEN bound ELSE others[1].env) = <<>>
  <2>1. 1 \in 1..n \/ k = 1
    BY <1>1
  <2> QED
    BY <1>1, <2>1 DEF Nest
<1>4. Len(scope) = Cardinality(InScope(others, k))
  <2>1. Cardinality(InScope(others, n + 1)) =
          Cardinality(InScope(calls, n)) + (IF Scoped(others[n + 1]) THEN 1 ELSE 0)
    BY <1>1, InScopeLast, Zenon
  <2>2. Cardinality(InScope(calls, n + 1)) =
          Cardinality(InScope(calls, n)) + (IF Scoped(calls[n + 1]) THEN 1 ELSE 0)
    BY <1>1, InScopeLast, Zenon
  <2>3. /\ Cardinality(InScope(others, k)) =
             Cardinality(InScope(calls, n)) + (IF Scoped(others[k]) THEN 1 ELSE 0)
        /\ Cardinality(InScope(calls, k)) =
             Cardinality(InScope(calls, n)) + (IF Scoped(calls[k]) THEN 1 ELSE 0)
    BY <1>1, <2>1, <2>2
  <2> DEFINE j == Cardinality(InScope(calls, n))
             a == Len(active)
  <2>4. j \in Nat /\ a \in Nat /\ a = Cardinality(InScope(calls, k))
    BY <1>1, InScopeFinite DEF Nest
  <2> HIDE DEF j, a
  <2> QED
    BY <2>3, <2>4 DEF j, a
<1>5. module # <<>> => \E i \in 1..k : others[i].e.kind = "module"
  <2> SUFFICES ASSUME module # <<>> PROVE \E i \in 1..k : others[i].e.kind = "module"
    OBVIOUS
  <2>1. PICK i \in 1..k : calls[i].e.kind = "module"
    BY DEF Nest
  <2>2. i \in 1..n \/ i = k
    BY <1>1
  <2>3. others[i].e.kind = "module"
    BY <1>1, <2>1, <2>2
  <2> QED
    BY <2>3
<1> QED
  BY <1>2, <1>3, <1>4, <1>5 DEF Nest

\* The innermost call returns to the one it was made from.
LEMMA NestPop ==
  ASSUME NEW n \in Nat, NEW calls, NEW env, NEW active, NEW module, NEW scope, NEW mod, NEW others,
         Nest(calls, n + 1, env, active, module), Len(active) \in Nat,
         \A i \in 1..n : others[i] = calls[i],
         Len(scope) = Len(active) - (IF Scoped(calls[n + 1]) THEN 1 ELSE 0),
         mod = <<>> \/ (mod = module /\ calls[n + 1].e.kind # "module")
  PROVE  Nest(others, n, calls[n + 1].env, scope, mod)
<1>1. ASSUME NEW i \in 1..n, ~Binds(others[i])
      PROVE  (IF i = n THEN calls[n + 1].env ELSE others[i + 1].env) = others[i].env
  <2>1. i # n + 1 /\ i \in 1..(n + 1) /\ (i # n => i + 1 \in 1..n)
    OBVIOUS
  <2>2. calls[i + 1].env = calls[i].env
    BY <1>1, <2>1 DEF Nest
  <2> QED
    BY <2>1, <2>2
<1>2. (IF n = 0 THEN calls[n + 1].env ELSE others[1].env) = <<>>
  <2>1. 1 \in 1..n \/ n = 0
    OBVIOUS
  <2>2. calls[1].env = <<>>
    BY DEF Nest
  <2> QED
    BY <2>1, <2>2
<1>3. Len(scope) = Cardinality(InScope(others, n))
  <2>1. Cardinality(InScope(calls, n + 1)) =
          Cardinality(InScope(calls, n)) + (IF Scoped(calls[n + 1]) THEN 1 ELSE 0)
    BY InScopeLast, Zenon
  <2>2. InScope(others, n) = InScope(calls, n)
    BY DEF InScope
  <2> DEFINE k == Cardinality(InScope(calls, n))
             a == Len(active)
  <2>3. k \in Nat /\ a \in Nat /\ a = Cardinality(InScope(calls, n + 1))
    BY InScopeFinite DEF Nest
  <2> HIDE DEF k, a
  <2> QED
    BY <2>1, <2>2, <2>3 DEF k, a
<1>4. mod # <<>> => \E i \in 1..n : others[i].e.kind = "module"
  <2> SUFFICES ASSUME mod # <<>> PROVE \E i \in 1..n : others[i].e.kind = "module"
    OBVIOUS
  <2>1. PICK i \in 1..(n + 1) : calls[i].e.kind = "module"
    BY DEF Nest
  <2>2. i \in 1..n
    BY <2>1
  <2> QED
    BY <2>1, <2>2
<1> QED
  BY <1>1, <1>2, <1>3, <1>4 DEF Nest

\* A Pact machine between two steps
Framed(frames) == IsSeq(frames) /\ \A i \in 1..Len(frames) : IsSeq(frames[i].vals)
ScopeInv(m) ==
  /\ Framed(m.frames) /\ IsSeq(m.active)
  /\ m.depth = Len(m.frames)
  /\ Nest(Calls(m), Len(m.frames), m.env, m.active, m.module)

\* What leaves the scope alone keeps it.
LEMMA ScopeAside ==
  ASSUME NEW m, NEW n, ScopeInv(m), Scope(n) = Scope(m)
  PROVE  ScopeInv(n)
<1>1. /\ n.env = m.env /\ n.active = m.active /\ n.module = m.module
      /\ n.depth = m.depth /\ n.frames = m.frames /\ n.todo = m.todo
  BY DEF Scope
<1>2. Calls(n) = Calls(m)
  BY <1>1 DEF Calls, At
<1> QED
  BY <1>1, <1>2 DEF ScopeInv

\* The elements of a longer sequence
LEMMA AppendElements ==
  ASSUME NEW s, IsSeq(s), NEW e
  PROVE  (\A i \in 1..Len(s) : Append(s, e)[i] = s[i]) /\ Append(s, e)[Len(s) + 1] = e
<1>1. PICK S : s \in Seq(S)
  BY DEF IsSeq
<1>2. s \in Seq(S \cup {e}) /\ Len(s) \in Nat
  BY <1>1
<1> QED
  BY <1>2

\* ... and of a shorter one
LEMMA FrontElements ==
  ASSUME NEW s, IsSeq(s)
  PROVE  \A i \in 1..(Len(s) - 1) : Kaspa!Front(s)[i] = s[i]
<1>1. PICK S : s \in Seq(S)
  BY DEF IsSeq
<1>2. Len(s) \in Nat
  BY <1>1
<1> QED
  BY <1>1, <1>2 DEF Kaspa!Front

\* The capabilities in scope follow what the innermost call has done.
Recounted(active, scope, c, d) ==
  Len(scope) = Len(active) + (IF Scoped(d) THEN 1 ELSE 0) - (IF Scoped(c) THEN 1 ELSE 0)

\* A call that goes on with a next part: its values and its bindings may change,
\* and it may put a capability in scope.
LEMMA ScopeAsk ==
  ASSUME NEW m, NEW n, ScopeInv(m), m.frames # <<>>,
         n.depth = m.depth, n.module = m.module, IsSeq(n.active),
         Framed(n.frames), Len(n.frames) = Len(m.frames),
         \A i \in 1..(Len(m.frames) - 1) : Calls(n)[i] = Calls(m)[i],
         NEW c, c = Calls(m)[Len(m.frames)], NEW d, d = Calls(n)[Len(m.frames)],
         d.e = c.e, d.env = c.env,
         ~Binds(d) => n.env = c.env,
         Recounted(m.active, n.active, c, d)
  PROVE  ScopeInv(n)
<1> DEFINE k == Len(m.frames)
           old == Calls(m)
           new == Calls(n)
<1>1. k \in Nat \ {0} /\ Len(m.active) \in Nat
  BY SequenceFront, SequenceAppend DEF ScopeInv, Framed
<1>2. Nest(old, k, m.env, m.active, n.module) /\ \A i \in 1..(k - 1) : new[i] = old[i]
  BY DEF ScopeInv
<1>3. /\ new[k].env = old[k].env /\ new[k].e = old[k].e
      /\ ~Binds(new[k]) => n.env = old[k].env
      /\ Len(n.active) = Len(m.active) + (IF Scoped(new[k]) THEN 1 ELSE 0)
                                       - (IF Scoped(old[k]) THEN 1 ELSE 0)
  BY DEF Recounted
<1>4. Nest(new, k, n.env, n.active, n.module)
  <2> HIDE DEF old, new, k
  <2> QED
    BY <1>1, <1>2, <1>3, NestTop, Zenon
<1> QED
  BY <1>4 DEF ScopeInv

\* A call that returns has taken back its bindings and its capability.
LEMMA ScopeLeave ==
  ASSUME NEW m, NEW n, ScopeInv(m), m.todo = <<>>, m.frames # <<>>,
         n.depth = m.depth, n.todo = <<>>, n.frames = m.frames, IsSeq(n.active), n.status = "running",
         NEW f, f = m.frames[Len(m.frames)],
         NEW c, c = [e |-> f.e, env |-> f.env, at |-> Len(f.vals) - 1],
         n.env = f.env,
         Len(n.active) = Len(m.active) - (IF Scoped(c) THEN 1 ELSE 0),
         n.module = <<>> \/ (n.module = m.module /\ f.e.kind # "module")
  PROVE  ScopeInv(Pact!Leave(n))
<1> DEFINE k == Len(m.frames) - 1
           below == Pact!Front(n.frames)
           x == [below[Len(below)] EXCEPT !.vals = Append(below[Len(below)].vals, n.val)]
           frames == IF below = <<>> THEN <<>> ELSE [below EXCEPT ![Len(below)] = x]
           o == Pact!Leave(n)
<1>1. o = [n EXCEPT !.depth = n.depth - 1, !.frames = frames]
  BY DEF Pact!Leave, Pact!Return, Pact!Ok
<1>2. /\ o.depth = m.depth - 1 /\ o.frames = frames /\ o.todo = <<>> /\ o.env = n.env
      /\ o.active = n.active /\ o.module = n.module
  BY <1>1
<1>3. Len(m.frames) \in Nat \ {0} /\ IsSeq(m.frames) /\ IsSeq(m.active)
  BY SequenceFront DEF ScopeInv, Framed
<1>4. k \in Nat /\ k + 1 = Len(m.frames)
  BY <1>3
<1>5. Len(m.active) \in Nat
  BY <1>3, SequenceAppend
<1>6. Kaspa!Front(m.frames) = Pact!Front(m.frames)
  BY DEF Kaspa!Front, Pact!Front
<1>7. /\ IsSeq(below) /\ Len(below) = k
      /\ \A i \in 1..k : below[i] = m.frames[i]
  <2>1. below = Kaspa!Front(m.frames)
    BY <1>6
  <2> HIDE DEF below
  <2> QED
    BY <1>3, <2>1, SequenceFront, FrontElements
<1> HIDE DEF k, below, o
<1>8. below = <<>> <=> k = 0
  BY <1>7, SequenceFront
<1>9. /\ IsSeq(frames) /\ Len(frames) = k
      /\ \A i \in 1..k : frames[i] = IF i = k THEN x ELSE m.frames[i]
  <2>1. CASE k = 0
    <3>1. frames = <<>> /\ Len(<<>>) = 0 /\ <<>> \in Seq({})
      BY <1>8, <2>1
    <3> QED
      BY <2>1, <3>1 DEF IsSeq
  <2>2. CASE k # 0
    <3>1. k \in 1..Len(below) /\ frames = [below EXCEPT ![k] = x]
      BY <1>4, <1>7, <1>8, <2>2
    <3> HIDE DEF frames, x
    <3>3. IsSeq(below)
      BY <1>7
    <3>2. /\ IsSeq(frames) /\ Len(frames) = Len(below)
          /\ \A j \in 1..Len(below) : frames[j] = IF j = k THEN x ELSE below[j]
      <4>1. PICK S : below \in Seq(S)
        BY <3>3 DEF IsSeq
      <4>2. below \in Seq(S \cup {x}) /\ DOMAIN below = 1..Len(below)
        BY <4>1
      <4>3. frames \in Seq(S \cup {x}) /\ Len(frames) = Len(below)
        BY <3>1, <4>2
      <4>4. \A j \in 1..Len(below) : frames[j] = IF j = k THEN x ELSE below[j]
        BY <3>1, <4>2
      <4> QED
        BY <4>3, <4>4 DEF IsSeq
    <3> QED
      BY <1>7, <3>1, <3>2
  <2> QED
    BY <2>1, <2>2
<1>10. k # 0 => /\ x.e = m.frames[k].e /\ x.env = m.frames[k].env
                /\ IsSeq(x.vals) /\ Len(x.vals) - 1 = Len(m.frames[k].vals)
  <2> SUFFICES ASSUME k # 0
               PROVE  /\ x.e = m.frames[k].e /\ x.env = m.frames[k].env
                      /\ IsSeq(x.vals) /\ Len(x.vals) - 1 = Len(m.frames[k].vals)
    OBVIOUS
  <2>1. k \in 1..k /\ k \in 1..Len(m.frames)
    BY <1>4
  <2>2. below[Len(below)] = m.frames[k] /\ IsSeq(m.frames[k].vals)
    BY <1>7, <2>1 DEF ScopeInv, Framed
  <2> DEFINE y == m.frames[k]
             z == [y EXCEPT !.vals = Append(y.vals, n.val)]
  <2>3. z.e = y.e /\ z.env = y.env /\ z.vals = Append(y.vals, n.val)
    BY SMTT(30)
  <2>4. x = z
    BY <2>2
  <2> HIDE DEF x, y, z
  <2>5. IsSeq(y.vals)
    BY <2>2 DEF y
  <2>6. IsSeq(z.vals) /\ Len(z.vals) = Len(y.vals) + 1 /\ Len(y.vals) \in Nat
    BY <2>3, <2>5, SequenceAppend
  <2>7. Len(z.vals) - 1 = Len(y.vals)
    BY <2>6
  <2> QED
    BY <2>3, <2>4, <2>6, <2>7, Zenon DEF y
<1> HIDE DEF frames, x
<1>11. \A i \in 1..k : Calls(o)[i] = Calls(m)[i]
  <2> SUFFICES ASSUME NEW i \in 1..k PROVE Calls(o)[i] = Calls(m)[i]
    OBVIOUS
  <2>1. i \in 1..Len(m.frames) /\ i # Len(m.frames) /\ Len(o.frames) = k
    BY <1>2, <1>4, <1>9
  <2>2. Len(m.frames[i].vals) \in Nat
    BY <2>1, SequenceAppend DEF ScopeInv, Framed
  <2>3. At(m, i) = Len(m.frames[i].vals)
    BY <2>1, <2>2 DEF At
  <2>4. /\ At(o, i) = Len(m.frames[i].vals)
        /\ o.frames[i].e = m.frames[i].e /\ o.frames[i].env = m.frames[i].env
    <3>1. CASE i = k
      <4>1. o.frames[i] = x /\ k # 0
        BY <1>2, <1>4, <1>9, <3>1
      <4>2. At(o, i) = Len(x.vals) - 1
        BY <1>2, <2>1, <3>1, <4>1 DEF At
      <4> QED
        BY <1>10, <3>1, <4>1, <4>2
    <3>2. CASE i # k
      <4>1. o.frames[i] = m.frames[i]
        BY <1>2, <1>9, <3>2
      <4>2. At(o, i) = Len(m.frames[i].vals) - 0
        BY <2>1, <3>2, <4>1 DEF At
      <4> QED
        BY <2>2, <4>1, <4>2
    <3> QED
      BY <3>1, <3>2
  <2> QED
    BY <2>1, <2>3, <2>4 DEF Calls
<1>12. Calls(m)[k + 1] = c
  <2>1. k + 1 \in 1..Len(m.frames) /\ At(m, k + 1) = Len(f.vals) - 1
    BY <1>4 DEF At
  <2> QED
    BY <1>4, <2>1 DEF Calls
<1>13. Nest(Calls(o), k, o.env, o.active, o.module)
  <2>1. Nest(Calls(m), k + 1, m.env, m.active, m.module)
    BY <1>4 DEF ScopeInv
  <2> DEFINE old == Calls(m)
             new == Calls(o)
  <2>5. old[k + 1] = c /\ c.env = f.env /\ c.e = f.e
    BY <1>12
  <2> HIDE DEF old
  <2>2. /\ o.env = old[k + 1].env
        /\ o.module = <<>> \/ (o.module = m.module /\ old[k + 1].e.kind # "module")
        /\ Len(o.active) = Len(m.active) - (IF Scoped(old[k + 1]) THEN 1 ELSE 0)
    BY <1>2, <2>5, Zenon
  <2>3. Nest(old, k + 1, m.env, m.active, m.module) /\ \A i \in 1..k : new[i] = old[i]
    BY <1>11, <2>1 DEF old
  <2> HIDE DEF new
  <2>4. Nest(new, k, old[k + 1].env, o.active, o.module)
    BY <1>4, <1>5, <2>2, <2>3, NestPop, Zenon
  <2> QED
    BY <2>2, <2>4 DEF new
<1>14. Framed(o.frames)
  <2>1. ASSUME NEW i \in 1..Len(o.frames) PROVE IsSeq(o.frames[i].vals)
    <3>1. i \in 1..k /\ i \in 1..Len(m.frames) /\ k # 0
      BY <1>2, <1>4, <1>9
    <3> QED
      BY <1>2, <1>9, <1>10, <3>1 DEF ScopeInv, Framed
  <2> QED
    BY <1>2, <1>9, <2>1 DEF Framed
<1>15. o.depth = k
  BY <1>2, <1>4 DEF ScopeInv
<1> QED
  BY <1>2, <1>9, <1>13, <1>14, <1>15 DEF ScopeInv, o

\* The call that waits for a value, when its last call was made with so many
Here(at) == [e |-> Pact!Expr(vm), env |-> Pact!Frame(vm).env, at |-> at]

\* What is known of it when it goes on
LEMMA Resumed ==
  ASSUME ScopeInv(vm), Pact!Resumes(vm)
  PROVE  /\ vm.todo = <<>> /\ vm.frames # <<>> /\ Pact!Frame(vm) = vm.frames[Len(vm.frames)]
         /\ IsSeq(vm.frames) /\ IsSeq(vm.active) /\ IsSeq(Pact!Vals(vm))
         /\ Len(Pact!Vals(vm)) \in Nat /\ Len(vm.active) \in Nat
         /\ ~Binds(Here(Len(Pact!Vals(vm)) - 1)) => vm.env = Pact!Frame(vm).env
<1> DEFINE k == Len(vm.frames)
<1>1. vm.todo = <<>> /\ vm.frames # <<>> /\ Pact!Frame(vm) = vm.frames[k]
  BY DEF Pact!Resumes, Pact!Frame, Pact!Last
<1>2. IsSeq(vm.frames) /\ IsSeq(vm.active) /\ \A i \in 1..k : IsSeq(vm.frames[i].vals)
  BY DEF ScopeInv, Framed
<1>3. k \in Nat \ {0}
  BY <1>1, <1>2, SequenceFront
<1>4. k \in 1..k
  BY <1>3
<1>5. IsSeq(Pact!Vals(vm)) /\ Len(Pact!Vals(vm)) \in Nat /\ Len(vm.active) \in Nat
  BY <1>1, <1>2, <1>4, SequenceAppend DEF Pact!Vals
<1>6. At(vm, k) = Len(Pact!Vals(vm)) - 1
  BY <1>1 DEF At, Pact!Vals
<1>7. Calls(vm)[k] = Here(Len(Pact!Vals(vm)) - 1)
  BY <1>1, <1>4, <1>6 DEF Calls, Here, Pact!Expr
<1>8. ~Binds(Calls(vm)[k]) => vm.env = Calls(vm)[k].env
  BY <1>4 DEF ScopeInv, Nest
<1>9. Here(Len(Pact!Vals(vm)) - 1).env = Pact!Frame(vm).env
  BY DEF Here
<1> QED
  BY <1>1, <1>2, <1>5, <1>7, <1>8, <1>9

\* What it has bound, and put in scope
LEMMA HereBinds ==
  ASSUME NEW at
  PROVE  /\ Binds(Here(at)) <=> \/ Pact!Expr(vm).kind = "let"
                                \/ /\ Pact!Expr(vm).kind \in {"app", "with-capability"}
                                   /\ at \in Nat /\ at = Len(Pact!Parts(Pact!Expr(vm)))
         /\ Scoped(Here(at)) <=> /\ Pact!Expr(vm).kind = "with-capability"
                                 /\ at \in Nat /\ at - 1 = Len(Pact!Parts(Pact!Expr(vm)))
<1>1. Here(at).e = Pact!Expr(vm) /\ Here(at).at = at
  BY DEF Here
<1>2. Pact!Expr(vm).kind = "with-capability" => Pact!Parts(Pact!Expr(vm)) = Pact!Expr(vm).args
  BY DEF Pact!Parts, Pact!Writes
<1> QED
  BY <1>1, <1>2 DEF Binds, Scoped

\* It goes on with a next part.
LEMMA GoOn ==
  ASSUME ScopeInv(vm), Pact!Resumes(vm),
         NEW n, n.depth = vm.depth, n.module = vm.module, n.todo # <<>>,
         IsSeq(n.active), IsSeq(n.frames), Len(n.frames) = Len(vm.frames),
         \A i \in 1..(Len(vm.frames) - 1) : n.frames[i] = vm.frames[i],
         NEW g, g = n.frames[Len(vm.frames)], g.e = Pact!Expr(vm),
         g.env = Pact!Frame(vm).env, IsSeq(g.vals),
         ~Binds(Here(Len(g.vals))) => n.env = Pact!Frame(vm).env,
         Recounted(vm.active, n.active, Here(Len(Pact!Vals(vm)) - 1), Here(Len(g.vals)))
  PROVE  ScopeInv(n)
<1> DEFINE k == Len(vm.frames)
           c == Here(Len(Pact!Vals(vm)) - 1)
           d == Here(Len(g.vals))
<1>1. k \in Nat \ {0} /\ vm.frames # <<>> /\ vm.todo = <<>> /\ Pact!Frame(vm) = vm.frames[k]
  BY Resumed, SequenceFront
<1>2. Framed(n.frames)
  <2>1. ASSUME NEW i \in 1..k PROVE IsSeq(n.frames[i].vals)
    <3>1. i \in 1..(k - 1) \/ i = k
      BY <1>1
    <3> QED
      BY <3>1 DEF ScopeInv, Framed
  <2> QED
    BY <2>1 DEF Framed
<1>3. ASSUME NEW i \in 1..(k - 1) PROVE Calls(n)[i] = Calls(vm)[i]
  <2>1. i \in 1..Len(n.frames) /\ i \in 1..Len(vm.frames) /\ i # k /\ n.frames[i] = vm.frames[i]
    BY <1>1, <1>3
  <2>2. At(n, i) = At(vm, i)
    BY <2>1 DEF At
  <2> QED
    BY <2>1, <2>2 DEF Calls
<1>4. c = Calls(vm)[k]
  <2>1. At(vm, k) = Len(Pact!Vals(vm)) - 1 /\ k \in 1..Len(vm.frames)
    BY <1>1 DEF At, Pact!Vals
  <2> QED
    BY <1>1, <2>1 DEF Calls, Here, Pact!Expr
<1>5. d = Calls(n)[k]
  <2>1. Len(g.vals) \in Nat
    BY SequenceAppend
  <2>2. At(n, k) = Len(g.vals) - 0 /\ k \in 1..Len(n.frames)
    BY <1>1 DEF At
  <2>3. At(n, k) = Len(g.vals)
    BY <2>1, <2>2
  <2> QED
    BY <2>2, <2>3 DEF Calls, Here
<1>6. /\ d.e = c.e /\ d.env = c.env
      /\ ~Binds(d) => n.env = c.env
      /\ Recounted(vm.active, n.active, c, d)
  BY DEF Here
<1> HIDE DEF c, d
<1> QED
  BY <1>1, <1>2, <1>3, <1>4, <1>5, <1>6, ScopeAsk, ZenonT(60)

\* It returns.
LEMMA ReturnsHere ==
  ASSUME ScopeInv(vm), Pact!Resumes(vm),
         NEW n, n.depth = vm.depth, n.todo = <<>>, n.frames = vm.frames, IsSeq(n.active),
         n.env = Pact!Frame(vm).env,
         Len(n.active) = Len(vm.active) - (IF Scoped(Here(Len(Pact!Vals(vm)) - 1)) THEN 1 ELSE 0),
         n.module = <<>> \/ (n.module = vm.module /\ Pact!Expr(vm).kind # "module"),
         Pact!Leave(n).status = "running"
  PROVE  ScopeInv(Pact!Leave(n))
<1> DEFINE g == vm.frames[Len(vm.frames)]
<1>1. vm.todo = <<>> /\ vm.frames # <<>> /\ Pact!Frame(vm) = g
  BY Resumed
<1>2. Here(Len(Pact!Vals(vm)) - 1) = [e |-> g.e, env |-> g.env, at |-> Len(g.vals) - 1]
  BY <1>1 DEF Here, Pact!Expr, Pact!Vals
<1>3. n.env = g.env /\ Pact!Expr(vm) = g.e
  BY <1>1 DEF Pact!Expr
<1>4. n.status = "running"
  BY DEF Pact!Leave, Pact!Return, Pact!Ok
<1> HIDE DEF g
<1> QED
  BY <1>1, <1>2, <1>3, <1>4, ScopeLeave, Zenon DEF g

\* A call that has neither bound names nor put a capability in scope returns
\* what leaves the scope alone.
LEMMA ReturnsAside ==
  ASSUME ScopeInv(vm), Pact!Resumes(vm),
         NEW n, Scope(n) = Scope(vm), Pact!Expr(vm).kind # "module",
         ~Binds(Here(Len(Pact!Vals(vm)) - 1)), ~Scoped(Here(Len(Pact!Vals(vm)) - 1)),
         Pact!Leave(n).status = "running"
  PROVE  ScopeInv(Pact!Leave(n))
<1>1. /\ n.env = vm.env /\ n.active = vm.active /\ n.module = vm.module
      /\ n.depth = vm.depth /\ n.frames = vm.frames /\ n.todo = vm.todo
  BY DEF Scope
<1>2. Len(vm.active) = Len(vm.active) - 0
  BY Resumed
<1> QED
  BY <1>1, <1>2, Resumed, ReturnsHere

\* A call without parts, of the program or of the call that waits, returns.
LEMMA ReturnsSimple ==
  ASSUME ScopeInv(vm), vm.todo # <<>>,
         NEW n, n.env = vm.env, n.active = vm.active, n.module = vm.module, n.todo = <<>>,
         n.depth = vm.depth + 1, n.frames = vm.frames,
         Pact!Return(n, vm.frames).status = "running"
  PROVE  ScopeInv(Pact!Return(n, vm.frames))
<1> DEFINE below == vm.frames
           k == Len(below)
           x == [below[k] EXCEPT !.vals = Append(below[k].vals, n.val)]
           frames == IF below = <<>> THEN <<>> ELSE [below EXCEPT ![k] = x]
           o == Pact!Return(n, vm.frames)
<1>1. n.status = "running" /\ o = [n EXCEPT !.depth = n.depth - 1, !.frames = frames]
  BY DEF Pact!Return, Pact!Ok
<1>2. /\ o.depth = n.depth - 1 /\ o.frames = frames /\ o.todo = <<>> /\ o.env = vm.env
      /\ o.active = vm.active /\ o.module = vm.module
  BY <1>1
<1>3. k \in Nat /\ IsSeq(below) /\ \A i \in 1..k : IsSeq(below[i].vals)
  BY SequenceAppend DEF ScopeInv, Framed
<1>4. below = <<>> <=> k = 0
  BY <1>3, SequenceFront
<1> HIDE DEF below, o
<1>5. k # 0 => /\ x.e = below[k].e /\ x.env = below[k].env /\ IsSeq(x.vals)
               /\ Len(x.vals) - 1 = Len(below[k].vals)
  <2> SUFFICES ASSUME k # 0
               PROVE  /\ x.e = below[k].e /\ x.env = below[k].env /\ IsSeq(x.vals)
                      /\ Len(x.vals) - 1 = Len(below[k].vals)
    OBVIOUS
  <2> DEFINE y == below[k]
             z == [y EXCEPT !.vals = Append(y.vals, n.val)]
  <2>1. z.e = y.e /\ z.env = y.env /\ z.vals = Append(y.vals, n.val)
    OBVIOUS
  <2>2. IsSeq(y.vals)
    BY <1>3
  <2>3. x = z
    OBVIOUS
  <2> HIDE DEF x, y, z
  <2>4. IsSeq(z.vals) /\ Len(z.vals) = Len(y.vals) + 1 /\ Len(y.vals) \in Nat
    BY <2>1, <2>2, SequenceAppend
  <2>5. Len(z.vals) - 1 = Len(y.vals)
    BY <2>4
  <2> QED
    BY <2>1, <2>3, <2>4, <2>5, Zenon DEF y
<1> HIDE DEF x
<1>6. IsSeq(frames) /\ Len(frames) = k /\ \A i \in 1..k : frames[i] = IF i = k THEN x ELSE below[i]
  <2>1. CASE k = 0
    <3>1. frames = <<>> /\ Len(<<>>) = 0 /\ <<>> \in Seq({})
      BY <1>4, <2>1
    <3> QED
      BY <2>1, <3>1 DEF IsSeq
  <2>2. CASE k # 0
    <3>1. frames = [below EXCEPT ![k] = x] /\ k \in 1..k
      BY <1>3, <1>4, <2>2
    <3>2. PICK S : below \in Seq(S)
      BY <1>3 DEF IsSeq
    <3>3. below \in Seq(S \cup {x}) /\ DOMAIN below = 1..k
      BY <3>2
    <3>6. k = Len(below)
      OBVIOUS
    <3> HIDE DEF k, frames
    <3>4. frames \in Seq(S \cup {x}) /\ Len(frames) = k
      BY <3>1, <3>3, <3>6
    <3>5. \A i \in 1..k : frames[i] = IF i = k THEN x ELSE below[i]
      BY <3>1, <3>3
    <3> QED
      BY <3>4, <3>5 DEF IsSeq
  <2> QED
    BY <2>1, <2>2
<1> HIDE DEF frames
<1>7. ASSUME NEW i \in 1..k PROVE Calls(o)[i] = Calls(vm)[i]
  <2>1. i \in 1..Len(vm.frames) /\ i \in 1..Len(o.frames) /\ Len(o.frames) = k /\ Len(vm.frames) = k
            /\ k # 0
    BY <1>2, <1>3, <1>6 DEF below
  <2>2. Len(below[i].vals) \in Nat
    BY <1>3, SequenceAppend
  <2>3. At(vm, i) = Len(below[i].vals)
    BY <2>2 DEF At, below
  <2>4. /\ At(o, i) = Len(below[i].vals)
        /\ o.frames[i].e = below[i].e /\ o.frames[i].env = below[i].env
    <3>1. CASE i = k
      <4>1. o.frames[i] = x
        BY <1>2, <1>6, <3>1
      <4>2. At(o, i) = Len(x.vals) - 1
        BY <1>2, <2>1, <3>1, <4>1 DEF At
      <4> QED
        BY <1>5, <2>1, <3>1, <4>1, <4>2
    <3>2. CASE i # k
      <4>1. o.frames[i] = below[i]
        BY <1>2, <1>6, <3>2
      <4>2. At(o, i) = Len(below[i].vals) - 0
        BY <2>1, <3>2, <4>1, Zenon DEF At
      <4> QED
        BY <2>2, <4>1, <4>2
    <3> QED
      BY <3>1, <3>2
  <2> QED
    BY <2>1, <2>3, <2>4 DEF Calls, below
<1>8. Calls(o) = Calls(vm)
  <2>1. Len(o.frames) = k /\ Len(vm.frames) = k
    BY <1>2, <1>6 DEF below
  <2>2. DOMAIN Calls(o) = 1..k /\ DOMAIN Calls(vm) = 1..k
    BY <2>1 DEF Calls
  <2>3. Calls(o) = [i \in 1..k |-> Calls(o)[i]] /\ Calls(vm) = [i \in 1..k |-> Calls(vm)[i]]
    BY <2>1 DEF Calls
  <2> QED
    BY <1>7, <2>3
<1>9. Framed(o.frames)
  <2>1. ASSUME NEW i \in 1..k PROVE IsSeq(o.frames[i].vals)
    <3>1. k # 0
      BY <1>3
    <3> QED
      BY <1>2, <1>3, <1>5, <1>6, <3>1
  <2> QED
    BY <1>2, <1>6, <2>1 DEF Framed
<1>10. o.depth = k
  <2>1. vm.depth = k
    BY DEF ScopeInv, below
  <2> QED
    BY <1>2, <1>3, <2>1
<1>11. Len(o.frames) = k /\ Len(vm.frames) = k
  BY <1>2, <1>6 DEF below
<1>12. ScopeInv(o)
  BY <1>2, <1>8, <1>9, <1>10, <1>11 DEF ScopeInv
<1> QED
  BY <1>12 DEF o

\* A call with parts waits for the first of them.
LEMMA WaitsForPart ==
  ASSUME ScopeInv(vm), vm.todo # <<>>, NEW e,
         NEW n, n.env = vm.env, n.active = vm.active, n.todo = <<>>,
         n.module = vm.module \/ e.kind = "module",
         n.depth = vm.depth + 1,
         n.frames = Append(vm.frames, [e |-> e, env |-> vm.env, vals |-> <<>>])
  PROVE  ScopeInv(n)
<1> DEFINE k == Len(vm.frames)
           g == [e |-> e, env |-> vm.env, vals |-> <<>>]
<1>1. k \in Nat /\ IsSeq(vm.frames) /\ \A i \in 1..k : IsSeq(vm.frames[i].vals)
  BY SequenceAppend DEF ScopeInv, Framed
<1>2. /\ IsSeq(n.frames) /\ Len(n.frames) = k + 1
      /\ (\A i \in 1..k : n.frames[i] = vm.frames[i]) /\ n.frames[k + 1] = g
  BY <1>1, SequenceAppend, AppendElements
<1>3. g.e = e /\ g.env = vm.env /\ g.vals = <<>> /\ Len(<<>>) = 0 /\ <<>> \in Seq({})
  OBVIOUS
<1> HIDE DEF g
<1>4. IsSeq(g.vals) /\ Len(g.vals) = 0
  BY <1>3 DEF IsSeq
<1>5. \A i \in 1..k : Calls(n)[i] = Calls(vm)[i]
  <2> SUFFICES ASSUME NEW i \in 1..k PROVE Calls(n)[i] = Calls(vm)[i]
    OBVIOUS
  <2>1. n.frames[i] = vm.frames[i] /\ i # Len(n.frames) /\ i \in 1..Len(n.frames)
    BY <1>1, <1>2
  <2>2. At(n, i) = At(vm, i)
    BY <2>1 DEF At
  <2> QED
    BY <2>1, <2>2 DEF Calls
<1>6. Calls(n)[k + 1].e = e /\ Calls(n)[k + 1].env = vm.env /\ Calls(n)[k + 1].at = -1
  <2>1. k + 1 \in 1..Len(n.frames) /\ At(n, k + 1) = -1
    BY <1>1, <1>2, <1>4 DEF At
  <2> QED
    BY <1>2, <1>3, <2>1 DEF Calls
<1>7. Nest(Calls(n), k + 1, n.env, n.active, n.module)
  <2> DEFINE old == Calls(vm)
             new == Calls(n)
  <2>1. Nest(old, k, vm.env, vm.active, vm.module)
    BY DEF ScopeInv
  <2>2. /\ \A i \in 1..k : new[i] = old[i]
        /\ new[k + 1].env = vm.env /\ new[k + 1].at = -1
        /\ n.module = vm.module \/ new[k + 1].e.kind = "module"
    BY <1>5, <1>6
  <2> HIDE DEF old, new, k
  <2>3. Nest(new, k + 1, vm.env, vm.active, n.module)
    BY <1>1, <2>1, <2>2, NestPush, Zenon
  <2> QED
    BY <2>3 DEF new
<1>8. Framed(n.frames)
  <2>1. ASSUME NEW i \in 1..(k + 1) PROVE IsSeq(n.frames[i].vals)
    <3>1. i \in 1..k \/ i = k + 1
      BY <1>1
    <3> QED
      BY <1>1, <1>2, <1>4, <3>1
  <2> QED
    BY <1>2, <2>1 DEF Framed
<1>9. n.depth = k + 1 /\ IsSeq(n.active)
  BY DEF ScopeInv
<1> QED
  BY <1>2, <1>7, <1>8, <1>9 DEF ScopeInv

\* It goes on without a change of its values: with its own bindings or others,
\* and without a capability.
LEMMA GoOnSame ==
  ASSUME ScopeInv(vm), Pact!Resumes(vm),
         NEW n, n.depth = vm.depth, n.module = vm.module, n.todo # <<>>, n.frames = vm.frames,
         IsSeq(n.active), ~Binds(Here(Len(Pact!Vals(vm)))) => n.env = Pact!Frame(vm).env,
         Recounted(vm.active, n.active, Here(Len(Pact!Vals(vm)) - 1), Here(Len(Pact!Vals(vm))))
  PROVE  ScopeInv(n)
<1> DEFINE g == n.frames[Len(vm.frames)]
<1>1. /\ IsSeq(n.frames) /\ g.e = Pact!Expr(vm) /\ g.env = Pact!Frame(vm).env /\ g.vals = Pact!Vals(vm)
      /\ IsSeq(Pact!Vals(vm))
  BY Resumed DEF Pact!Expr, Pact!Vals
<1>2. g = n.frames[Len(vm.frames)] /\ \A i \in 1..(Len(vm.frames) - 1) : n.frames[i] = vm.frames[i]
  OBVIOUS
<1> HIDE DEF g
<1> QED
  BY <1>1, <1>2, GoOn

\* ... and without any in scope of its own
LEMMA GoOnAside ==
  ASSUME ScopeInv(vm), Pact!Resumes(vm),
         NEW n, n.depth = vm.depth, n.module = vm.module, n.todo # <<>>, n.frames = vm.frames,
         n.active = vm.active, ~Binds(Here(Len(Pact!Vals(vm)))) => n.env = Pact!Frame(vm).env,
         ~Scoped(Here(Len(Pact!Vals(vm)) - 1)), ~Scoped(Here(Len(Pact!Vals(vm))))
  PROVE  ScopeInv(n)
<1>1. Recounted(vm.active, n.active, Here(Len(Pact!Vals(vm)) - 1), Here(Len(Pact!Vals(vm))))
  BY Resumed DEF Recounted
<1> QED
  BY <1>1, Resumed, GoOnSame

\* The innermost call gets other values.
Revalued(f, k, x) == [f EXCEPT ![k].vals = x]

\* It keeps its expression and its bindings, and the others all of theirs.
LEMMA TopReplaced ==
  ASSUME NEW f, IsSeq(f), NEW k, k = Len(f), k \in Nat \ {0}, NEW x
  PROVE  /\ IsSeq(Revalued(f, k, x)) /\ Len(Revalued(f, k, x)) = k
         /\ \A i \in 1..(k - 1) : Revalued(f, k, x)[i] = f[i]
         /\ Revalued(f, k, x)[k].e = f[k].e /\ Revalued(f, k, x)[k].env = f[k].env
         /\ Revalued(f, k, x)[k].vals = x
<1>1. PICK S : f \in Seq(S)
  BY DEF IsSeq
<1> DEFINE y == [f[k] EXCEPT !.vals = x]
           w == Revalued(f, k, x)
<1>2. w = [f EXCEPT ![k] = y]
  BY DEF Revalued
<1>3. y.e = f[k].e /\ y.env = f[k].env /\ y.vals = x
  OBVIOUS
<1> HIDE DEF y, w
<1>4. f \in Seq(S \cup {y}) /\ k \in 1..Len(f)
  BY <1>1
<1>5. w \in Seq(S \cup {y}) /\ Len(w) = k /\ w[k] = y /\ \A i \in 1..(k - 1) : w[i] = f[i]
  BY <1>2, <1>4
<1> QED
  BY <1>3, <1>5 DEF IsSeq, w

\* A call that has put a capability in scope finds it there.
LEMMA ScopeHeld ==
  ASSUME ScopeInv(vm), Pact!Resumes(vm), Scoped(Here(Len(Pact!Vals(vm)) - 1))
  PROVE  vm.active # <<>>
<1> DEFINE k == Len(vm.frames)
           S == InScope(Calls(vm), k)
<1>1. k \in Nat \ {0} /\ vm.todo = <<>> /\ Pact!Frame(vm) = vm.frames[k]
  BY Resumed, SequenceFront
<1>2. Calls(vm)[k] = Here(Len(Pact!Vals(vm)) - 1)
  <2>1. k \in 1..k /\ At(vm, k) = Len(Pact!Vals(vm)) - 1
    BY <1>1 DEF At, Pact!Vals
  <2> QED
    BY <1>1, <2>1 DEF Calls, Here, Pact!Expr
<1>3. k \in S
  BY <1>1, <1>2 DEF InScope
<1>4. IsFiniteSet(S) /\ Len(vm.active) = Cardinality(S)
  BY <1>1, InScopeFinite DEF ScopeInv, Nest
<1> HIDE DEF S
<1>5. Cardinality(S) # 0
  BY <1>3, <1>4, FS_EmptySet
<1>6. Len(<<>>) = 0
  OBVIOUS
<1> QED
  BY <1>4, <1>5, <1>6

\* Between two expressions nothing waits for a value.
LEMMA ScopeBetween ==
  ASSUME NEW m, NEW n, ScopeInv(m), m.frames = <<>>, n.frames = <<>>,
         n.env = m.env, n.active = m.active, n.module = m.module, n.depth = m.depth
  PROVE  ScopeInv(n)
<1>1. Len(<<>>) = 0 /\ Len(m.frames) = 0
  OBVIOUS
<1>2. Nest(Calls(m), 0, n.env, n.active, n.module)
  BY <1>1 DEF ScopeInv
<1>3. InScope(Calls(m), 0) = InScope(Calls(n), 0)
  BY DEF InScope
<1>4. Nest(Calls(n), 0, n.env, n.active, n.module)
  BY <1>2, <1>3 DEF Nest
<1> QED
  BY <1>1, <1>4 DEF ScopeInv

\* A call of the evaluator keeps the scope.
LEMMA ScopeEval ==
  ASSUME ScopeInv(vm), Pact!Eval(vm, vm'), vm'.status = "running"
  PROVE  ScopeInv(vm')
<1> DEFINE e == Head(vm.todo)
           deeper == [vm EXCEPT !.todo = <<>>, !.depth = vm.depth + 1]
           charged == Pact!Charge(deeper, Pact!BASE)
           paid == [charged EXCEPT !.steps = charged.steps + 1]
           opened == Pact!Opened(paid, e)
           c == Pact!Construct(paid, e)
           n == [opened EXCEPT !.frames = Append(opened.frames, [e |-> e, env |-> vm.env, vals |-> <<>>])]
<1>1. /\ deeper.todo = <<>> /\ deeper.depth = vm.depth + 1 /\ deeper.env = vm.env
      /\ deeper.active = vm.active /\ deeper.module = vm.module /\ deeper.frames = vm.frames
  OBVIOUS
<1>2. Scope(charged) = Scope(deeper)
  BY PactHelpers, Zenon DEF Aside
<1>3. Scope(paid) = Scope(charged)
  BY DEF Scope
<1>4. /\ paid.todo = <<>> /\ paid.depth = vm.depth + 1 /\ paid.env = vm.env
      /\ paid.active = vm.active /\ paid.module = vm.module /\ paid.frames = vm.frames
  <2> HIDE DEF paid, charged, deeper
  <2> QED
    BY <1>1, <1>2, <1>3 DEF Scope
<1>5. /\ Pact!Failed(deeper).status = "failed"
      /\ \/ vm' = Pact!Failed(deeper) \/ (vm' = paid /\ ~Pact!Ok(paid))
                \/ (vm' = opened /\ ~Pact!Ok(opened))
         \/ (e.kind \in Pact!Simple /\ vm' = Pact!Return(c, vm.frames))
         \/ (e.kind \notin Pact!Simple /\ vm' = n)
  BY DEF Pact!Eval, Pact!Failed
<1>6. \/ e.kind \in Pact!Simple /\ vm' = Pact!Return(c, vm.frames)
      \/ e.kind \notin Pact!Simple /\ vm' = n
  <2> HIDE DEF c, n, paid, opened, deeper
  <2> QED
    BY <1>5 DEF Pact!Ok
<1>7. vm.todo # <<>>
  BY DEF Pact!Eval
<1> HIDE DEF paid, charged, deeper
<1>8. CASE e.kind \in Pact!Simple
  <2>1. vm' = Pact!Return(c, vm.frames)
    BY <1>6, <1>8
  <2>2. Scope(c) = Scope(paid)
    BY <1>8, AsideConstruct DEF Aside
  <2> HIDE DEF c
  <2>3. /\ c.todo = <<>> /\ c.depth = vm.depth + 1 /\ c.env = vm.env
        /\ c.active = vm.active /\ c.module = vm.module /\ c.frames = vm.frames
    BY <1>4, <2>2 DEF Scope
  <2> QED
    BY <1>7, <2>1, <2>3, ReturnsSimple
<1>9. CASE e.kind \notin Pact!Simple
  <2>1. vm' = n
    BY <1>6, <1>9
  <2>2. /\ opened.todo = <<>> /\ opened.depth = vm.depth + 1 /\ opened.env = vm.env
        /\ opened.active = vm.active /\ opened.frames = vm.frames
        /\ opened.module = vm.module \/ e.kind = "module"
    <3>1. ASSUME NEW amount PROVE Scope(Pact!Charge(paid, amount)) = Scope(paid)
      BY PactHelpers DEF Aside
    <3>2. CASE e.kind = "module"
      <4>1. opened = [paid EXCEPT !.module = e.name]
        BY <3>2 DEF Pact!Opened, Pact!Writes
      <4> DEFINE o == opened
                 x == e.name
      <4>2. o = [paid EXCEPT !.module = x]
        BY <4>1
      <4> HIDE DEF o, x
      <4>3. /\ o.todo = paid.todo /\ o.depth = paid.depth /\ o.env = paid.env
            /\ o.active = paid.active /\ o.frames = paid.frames
        BY <4>2
      <4> HIDE DEF e
      <4> QED
        BY <1>4, <3>2, <4>3 DEF o
    <3>3. CASE e.kind # "module"
      <4>1. opened = paid \/ \E amount : opened = Pact!Charge(paid, amount)
        BY <3>3 DEF Pact!Opened
      <4>2. Scope(opened) = Scope(paid)
        BY <3>1, <4>1
      <4> HIDE DEF opened
      <4> QED
        BY <1>4, <4>2 DEF Scope
    <3> QED
      BY <3>2, <3>3
  <2>3. /\ n.todo = opened.todo /\ n.depth = opened.depth /\ n.env = opened.env
        /\ n.active = opened.active /\ n.module = opened.module
        /\ n.frames = Append(opened.frames, [e |-> e, env |-> vm.env, vals |-> <<>>])
    OBVIOUS
  <2> HIDE DEF n, opened, e
  <2> QED
    BY <1>7, <2>1, <2>2, <2>3, WaitsForPart
<1> QED
  BY <1>8, <1>9

\* So does every other step of it: what waits for a value goes on or returns.
LEMMA ScopeStep ==
  ASSUME ScopeInv(vm), Pact!Step(vm, vm'), vm'.status = "running"
  PROVE  ScopeInv(vm')
<1> DEFINE v == Len(Pact!Vals(vm))
           q == Len(Pact!Parts(Pact!Expr(vm)))
<1>1. Pact!Resumes(vm) => v \in Nat
  BY Resumed
<1>2. /\ Binds(Here(v)) <=> \/ Pact!Expr(vm).kind = "let"
                            \/ Pact!Expr(vm).kind \in {"app", "with-capability"} /\ v \in Nat /\ v = q
      /\ Scoped(Here(v)) <=> Pact!Expr(vm).kind = "with-capability" /\ v \in Nat /\ v - 1 = q
      /\ Binds(Here(v - 1)) <=> \/ Pact!Expr(vm).kind = "let"
                                \/ Pact!Expr(vm).kind \in {"app", "with-capability"} /\ v - 1 \in Nat
                                       /\ v - 1 = q
      /\ Scoped(Here(v - 1)) <=> Pact!Expr(vm).kind = "with-capability" /\ v - 1 \in Nat /\ v - 1 - 1 = q
  BY HereBinds
<1>3. \A m : Pact!Failed(m).status = "failed"
  BY DEF Pact!Failed
<1> HIDE DEF v, q
<1>4. ASSUME Pact!Resumes(vm), v = q
      PROVE  /\ ~Scoped(Here(v)) /\ ~Scoped(Here(v - 1))
             /\ Pact!Expr(vm).kind # "let" => ~Binds(Here(v - 1)) /\ vm.env = Pact!Frame(vm).env
             /\ Pact!Expr(vm).kind \in {"let", "app", "with-capability"} => Binds(Here(v))
  <2>1. ~Scoped(Here(v)) /\ ~Scoped(Here(v - 1)) /\ (Pact!Expr(vm).kind # "let" => ~Binds(Here(v - 1)))
    BY <1>1, <1>2, <1>4
  <2>2. Pact!Expr(vm).kind \in {"let", "app", "with-capability"} => Binds(Here(v))
    BY <1>1, <1>2, <1>4
  <2> QED
    BY <2>1, <2>2, <1>4, Resumed DEF v
<1>5. ASSUME Pact!Resumes(vm), v = q, Pact!Expr(vm).kind \notin {"let", "module"},
             NEW n, Scope(n) = Scope(vm), vm' = Pact!Leave(n)
      PROVE  ScopeInv(vm')
  BY <1>4, <1>5, ReturnsAside DEF v
<1>6. ASSUME Pact!Resumes(vm), v = q, Pact!Expr(vm).kind \in {"let", "app", "with-capability"},
             NEW x, NEW e, vm' = Pact!Ask([vm EXCEPT !.env = x], e)
      PROVE  ScopeInv(vm')
  <2> DEFINE n == Pact!Ask([vm EXCEPT !.env = x], e)
  <2>1. /\ n.depth = vm.depth /\ n.module = vm.module /\ n.todo # <<>> /\ n.frames = vm.frames
        /\ n.active = vm.active
    BY DEF Pact!Ask
  <2> HIDE DEF n
  <2> QED
    BY <1>4, <1>6, <2>1, GoOnAside DEF v, n
<1>7. CASE Pact!NextPart(vm, vm')
  <2> DEFINE n == Pact!Ask(Pact!Bound(vm), Pact!Parts(Pact!Expr(vm))[v + 1])
  <2>1. Pact!Resumes(vm) /\ v < q /\ vm' = n
    BY <1>3, <1>7 DEF Pact!NextPart, v, q
  <2>2. /\ n.depth = vm.depth /\ n.module = vm.module /\ n.todo # <<>> /\ n.frames = vm.frames
        /\ n.active = vm.active /\ (Pact!Expr(vm).kind = "let" \/ n.env = vm.env)
    BY DEF Pact!Ask, Pact!Bound
  <2> HIDE DEF n
  <2>3. ~Scoped(Here(v)) /\ ~Scoped(Here(v - 1))
    BY <1>1, <1>2, <2>1
  <2>4. Pact!Expr(vm).kind # "let" => ~Binds(Here(v - 1))
    BY <1>1, <1>2, <2>1
  <2>5. ~Binds(Here(v)) => n.env = Pact!Frame(vm).env
    BY <1>2, <2>1, <2>2, <2>4, Resumed DEF v
  <2> QED
    BY <2>1, <2>2, <2>3, <2>5, GoOnAside DEF v
<1>8. CASE Pact!EvalApp(vm, vm')
  <2>1. Pact!Resumes(vm) /\ v = q /\ Pact!Expr(vm).kind = "app"
    BY <1>8 DEF Pact!EvalApp, Pact!Completes, v, q
  <2>2. \/ \E f : f \in Pact!Builtins /\ vm' = Pact!Leave(Pact!Builtin(f, vm, Pact!Vals(vm)))
        \/ \E f : vm' = Pact!Call(vm, f)
    BY <1>3, <1>8 DEF Pact!EvalApp
  <2>3. ASSUME NEW f \in Pact!Builtins, vm' = Pact!Leave(Pact!Builtin(f, vm, Pact!Vals(vm)))
        PROVE  ScopeInv(vm')
    <3> DEFINE n == Pact!Builtin(f, vm, Pact!Vals(vm))
    <3>1. Scope(n) = Scope(vm)
      BY AsideBuiltin DEF Aside
    <3> HIDE DEF n
    <3> QED
      BY <1>5, <2>1, <2>3, <3>1 DEF n
  <2>4. ASSUME NEW f, vm' = Pact!Call(vm, f) PROVE ScopeInv(vm')
    BY <1>3, <1>6, <2>1, <2>4, Zenon DEF Pact!Call
  <2> QED
    BY <2>2, <2>3, <2>4
<1>9. CASE Pact!EvalLet(vm, vm')
  <2>1. Pact!Resumes(vm) /\ v = q /\ Pact!Expr(vm).kind = "let"
    BY <1>9 DEF Pact!EvalLet, Pact!Completes, v, q
  <2> DEFINE n == Pact!Ask(Pact!Bound(vm), Pact!Expr(vm).body)
  <2>2. vm' = n
    BY <1>9 DEF Pact!EvalLet
  <2>3. /\ n.depth = vm.depth /\ n.module = vm.module /\ n.todo # <<>> /\ n.frames = vm.frames
        /\ n.active = vm.active
    BY DEF Pact!Ask, Pact!Bound
  <2> HIDE DEF n
  <2> QED
    BY <1>4, <2>1, <2>2, <2>3, GoOnAside DEF v
<1>10. CASE Pact!EndOfBody(vm, vm')
  <2>1. Pact!Resumes(vm) /\ Pact!Expr(vm).kind \in {"app", "let"}
    BY <1>10 DEF Pact!EndOfBody, Pact!Returns
  <2> DEFINE n == [vm EXCEPT !.env = Pact!Frame(vm).env]
  <2>2. vm' = Pact!Leave(n)
    BY <1>10 DEF Pact!EndOfBody
  <2>3. /\ n.depth = vm.depth /\ n.module = vm.module /\ n.todo = vm.todo /\ n.frames = vm.frames
        /\ n.active = vm.active /\ n.env = Pact!Frame(vm).env
    OBVIOUS
  <2> HIDE DEF n
  <2>4. ~Scoped(Here(v - 1)) /\ Len(vm.active) = Len(vm.active) - 0
    BY <1>2, <2>1, Resumed
  <2> QED
    BY <2>1, <2>2, <2>3, <2>4, Resumed, ReturnsHere DEF v
<1>11. CASE Pact!EvalIf(vm, vm')
  <2>1. Pact!Resumes(vm) /\ Pact!Expr(vm).kind = "if"
    BY <1>11 DEF Pact!EvalIf, Pact!Returns, Pact!Completes
  <2>2. /\ ~Scoped(Here(v)) /\ ~Scoped(Here(v - 1)) /\ ~Binds(Here(v)) /\ ~Binds(Here(v - 1))
        /\ vm.env = Pact!Frame(vm).env
    <3>1. ~Scoped(Here(v)) /\ ~Scoped(Here(v - 1)) /\ ~Binds(Here(v)) /\ ~Binds(Here(v - 1))
      BY <1>2, <2>1
    <3> QED
      BY <2>1, <3>1, Resumed DEF v
  <2>3. ASSUME NEW e, vm' = Pact!Ask(vm, e) PROVE ScopeInv(vm')
    <3> DEFINE n == Pact!Ask(vm, e)
    <3>1. /\ n.depth = vm.depth /\ n.module = vm.module /\ n.todo # <<>> /\ n.frames = vm.frames
          /\ n.active = vm.active /\ n.env = vm.env
      BY DEF Pact!Ask
    <3> HIDE DEF n
    <3> QED
      BY <2>1, <2>2, <2>3, <3>1, GoOnAside DEF v, n
  <2>4. ASSUME vm' = Pact!Leave(vm) PROVE ScopeInv(vm')
    BY <2>1, <2>2, <2>4, ReturnsAside DEF v
  <2> QED
    BY <1>11, <2>3, <2>4 DEF Pact!EvalIf
<1>12. CASE Pact!EvalModule(vm, vm')
  <2>1. Pact!Resumes(vm) /\ v = q /\ Pact!Expr(vm).kind = "module"
    BY <1>12 DEF Pact!EvalModule, Pact!Completes, v, q
  <2> DEFINE closed == [vm EXCEPT !.module = <<>>, !.modules = vm.modules \cup {Pact!Expr(vm).name}]
             n == Pact!Give(closed, Pact!Str(Pact!Expr(vm).name))
  <2>2. vm' = Pact!Leave(n)
    BY <1>12 DEF Pact!EvalModule
  <2>3. /\ closed.depth = vm.depth /\ closed.module = <<>> /\ closed.todo = vm.todo
        /\ closed.frames = vm.frames /\ closed.active = vm.active /\ closed.env = vm.env
    OBVIOUS
  <2>4. Scope(n) = Scope(closed)
    BY PactHelpers DEF Aside
  <2> HIDE DEF n, closed
  <2>5. /\ n.depth = vm.depth /\ n.module = <<>> /\ n.todo = vm.todo
        /\ n.frames = vm.frames /\ n.active = vm.active /\ n.env = vm.env
    BY <2>3, <2>4 DEF Scope
  <2>6. ~Scoped(Here(v - 1)) /\ Len(vm.active) = Len(vm.active) - 0
    BY <1>4, <2>1, Resumed
  <2> QED
    BY <1>4, <2>1, <2>2, <2>5, <2>6, Resumed, ReturnsHere DEF v
<1>13. CASE Pact!Acquire(vm, vm')
  <2>1. Pact!Resumes(vm) /\ v = q /\ Pact!Expr(vm).kind = "with-capability"
    BY <1>13 DEF Pact!Acquire, Pact!Completes, v, q
  <2> DEFINE k == Len(vm.frames)
             m == [vm EXCEPT !.frames[k].vals = Append(@, Pact!Unit)]
             n == Pact!InScope(vm, m)
  <2>2. vm' = n \/ \E x, e : vm' = Pact!Ask([vm EXCEPT !.env = x], e)
    BY <1>13, Zenon DEF Pact!Acquire
  <2>3. ASSUME vm' = n PROVE ScopeInv(vm')
    <3> DEFINE f == vm.frames
               g == n.frames[k]
    <3>1. k \in Nat \ {0} /\ k = Len(f) /\ IsSeq(f) /\ Pact!Frame(vm) = f[k] /\ IsSeq(Pact!Vals(vm))
              /\ v \in Nat
      BY <1>1, <2>1, Resumed, SequenceFront
    <3>2. /\ n.depth = vm.depth /\ n.module = vm.module /\ n.todo # <<>> /\ n.env = vm.env
          /\ n.active = Append(vm.active, Pact!Key(vm)) /\ n.frames = m.frames
      BY DEF Pact!InScope, Pact!Ask
    <3>3. m.frames = Revalued(f, k, Append(f[k].vals, Pact!Unit))
      BY DEF Revalued
    <3> HIDE DEF n, m, f, k
    <3>4. /\ IsSeq(m.frames) /\ Len(m.frames) = k
          /\ \A i \in 1..(k - 1) : m.frames[i] = f[i]
          /\ m.frames[k].e = f[k].e /\ m.frames[k].env = f[k].env
          /\ m.frames[k].vals = Append(f[k].vals, Pact!Unit)
      <4> DEFINE x == Append(f[k].vals, Pact!Unit)
                 w == m.frames
      <4>1. IsSeq(f) /\ k = Len(f) /\ k \in Nat \ {0} /\ w = Revalued(f, k, x)
        BY <3>1, <3>3
      <4> HIDE DEF x, w
      <4>2. /\ IsSeq(w) /\ Len(w) = k
            /\ \A i \in 1..(k - 1) : w[i] = f[i]
        BY <4>1, TopReplaced
      <4>3. w[k].e = f[k].e /\ w[k].env = f[k].env /\ w[k].vals = x
        BY <4>1, TopReplaced
      <4> QED
        BY <4>2, <4>3 DEF w, x
    <3>5. /\ g.e = Pact!Expr(vm) /\ g.env = Pact!Frame(vm).env /\ g.vals = Append(Pact!Vals(vm), Pact!Unit)
      BY <3>1, <3>2, <3>4 DEF Pact!Expr, Pact!Vals
    <3>6. IsSeq(g.vals) /\ Len(g.vals) = v + 1
      BY <3>1, <3>5, SequenceAppend DEF v
    <3>7. IsSeq(n.active) /\ Len(n.active) = Len(vm.active) + 1 /\ Len(vm.active) \in Nat
      BY <2>1, <3>2, Resumed, SequenceAppend
    <3>8. Scoped(Here(Len(g.vals))) /\ ~Scoped(Here(v - 1)) /\ n.env = Pact!Frame(vm).env
      <4>1. Scoped(Here(v + 1))
        <5>1. v + 1 \in Nat /\ v + 1 - 1 = q
          BY <2>1, <3>1
        <5> QED
          BY <2>1, <5>1, HereBinds DEF q
      <4> QED
        BY <1>4, <2>1, <3>2, <3>6, <4>1
    <3>9. Recounted(vm.active, n.active, Here(v - 1), Here(Len(g.vals)))
      BY <3>7, <3>8 DEF Recounted
    <3>10. /\ IsSeq(n.frames) /\ Len(n.frames) = Len(vm.frames)
           /\ \A i \in 1..(Len(vm.frames) - 1) : n.frames[i] = vm.frames[i]
           /\ g = n.frames[Len(vm.frames)]
      BY <3>2, <3>4 DEF f, k
    <3> HIDE DEF g
    <3> QED
      BY <2>1, <2>3, <3>2, <3>5, <3>6, <3>7, <3>8, <3>9, <3>10, GoOn, Zenon DEF v
  <2> HIDE DEF n
  <2> QED
    BY <1>6, <2>1, <2>2, <2>3, Zenon
<1>14. CASE Pact!Granted(vm, vm')
  <2>1. Pact!Resumes(vm) /\ Pact!Expr(vm).kind = "with-capability" /\ v \in Nat /\ v - 1 = q
    BY <1>1, <1>14 DEF Pact!Granted, Pact!Returns, v, q
  <2> DEFINE n == Pact!InScope(vm,
          [vm EXCEPT !.env = Pact!Frame(vm).env, !.granted = vm.granted \cup {Pact!Key(vm)}])
  <2>2. vm' = n
    BY <1>14 DEF Pact!Granted
  <2>3. /\ n.depth = vm.depth /\ n.module = vm.module /\ n.todo # <<>> /\ n.env = Pact!Frame(vm).env
        /\ n.active = Append(vm.active, Pact!Key(vm)) /\ n.frames = vm.frames
    BY DEF Pact!InScope, Pact!Ask
  <2> HIDE DEF n
  <2>4. IsSeq(n.active) /\ Len(n.active) = Len(vm.active) + 1 /\ Len(vm.active) \in Nat
    BY <2>1, <2>3, Resumed, SequenceAppend
  <2>5. Scoped(Here(v)) /\ ~Scoped(Here(v - 1))
    BY <1>2, <2>1
  <2>6. Recounted(vm.active, n.active, Here(v - 1), Here(v))
    BY <2>4, <2>5 DEF Recounted
  <2> QED
    BY <2>1, <2>2, <2>3, <2>4, <2>6, GoOnSame, Zenon DEF v
<1>15. CASE Pact!EndOfScope(vm, vm')
  <2>1. Pact!Resumes(vm) /\ Pact!Expr(vm).kind = "with-capability" /\ v \in Nat \ {0} /\ v - 2 = q
    <3>1. Pact!Resumes(vm) /\ Pact!Expr(vm).kind = "with-capability" /\ Pact!Vals(vm) # <<>> /\ v - 2 = q
      BY <1>15 DEF Pact!EndOfScope, Pact!Returns, v, q
    <3>2. v \in Nat \ {0}
      BY <3>1, Resumed, SequenceFront DEF v
    <3> QED
      BY <3>1, <3>2
  <2> DEFINE n == [vm EXCEPT !.active = Pact!Front(vm.active)]
  <2>2. vm' = Pact!Leave(n)
    BY <1>15 DEF Pact!EndOfScope
  <2>3. /\ n.depth = vm.depth /\ n.module = vm.module /\ n.todo = vm.todo /\ n.env = vm.env
        /\ n.active = Pact!Front(vm.active) /\ n.frames = vm.frames
    OBVIOUS
  <2> HIDE DEF n
  <2>4. Scoped(Here(v - 1)) /\ ~Binds(Here(v - 1))
    <3>1. v - 1 \in Nat /\ v - 1 - 1 = q /\ v - 1 # q
      BY <2>1
    <3> QED
      BY <1>2, <2>1, <3>1
  <2>5. vm.active # <<>>
    BY <2>1, <2>4, ScopeHeld DEF v
  <2>6. IsSeq(n.active) /\ Len(n.active) = Len(vm.active) - 1
    <3>1. Kaspa!Front(vm.active) = Pact!Front(vm.active)
      BY DEF Kaspa!Front, Pact!Front
    <3> QED
      BY <2>1, <2>3, <2>5, <3>1, Resumed, SequenceFront
  <2>7. vm.env = Pact!Frame(vm).env
    BY <2>1, <2>4, Resumed DEF v
  <2> QED
    BY <2>1, <2>2, <2>3, <2>4, <2>6, <2>7, Resumed, ReturnsHere DEF v
<1>16. \A x : Scope(Pact!Give(vm, x)) = Scope(vm) /\ Scope(Pact!VerifyGuard(vm, x)) = Scope(vm)
  BY AsideGuard, PactHelpers DEF Aside
<1>17. CASE Pact!EvalRequireCapability(vm, vm') \/ Pact!EvalRead(vm, vm') \/ Pact!EvalEnforce(vm, vm')
  <2>1. Pact!Resumes(vm) /\ v = q /\ Pact!Expr(vm).kind
            \in {"require-capability", "read", "enforce", "enforce-guard"}
    BY <1>17, Zenon DEF Pact!EvalRequireCapability, Pact!EvalRead, Pact!EvalEnforce, Pact!Completes, v, q
  <2>2. \E x : vm' = Pact!Leave(Pact!Give(vm, x)) \/ vm' = Pact!Leave(Pact!VerifyGuard(vm, x))
    BY <1>3, <1>17, Zenon DEF Pact!EvalRequireCapability, Pact!EvalRead, Pact!EvalEnforce
  <2> QED
    BY <1>5, <1>16, <2>1, <2>2
<1>18. CASE Pact!EvalWrite(vm, vm')
  <2>1. Pact!Resumes(vm) /\ v = q /\ Pact!Expr(vm).kind \in Pact!Writes
    BY <1>18 DEF Pact!EvalWrite, Pact!Completes, v, q
  <2>2. Pact!Expr(vm).kind \notin {"let", "module"}
    BY <2>1 DEF Pact!Writes
  <2>3. \E t, x : vm' = Pact!Leave(Pact!Give([vm EXCEPT !.tables[t] = x], Pact!Unit))
    BY <1>3, <1>18, Zenon DEF Pact!EvalWrite
  <2>4. PICK t, x : vm' = Pact!Leave(Pact!Give([vm EXCEPT !.tables[t] = x], Pact!Unit))
    BY <2>3, Zenon
  <2> DEFINE n == [vm EXCEPT !.tables[t] = x]
  <2>5. Scope(n) = Scope(vm)
    BY DEF Scope
  <2> HIDE DEF n
  <2>6. Scope(Pact!Give(n, Pact!Unit)) = Scope(n)
    BY PactHelpers DEF Aside
  <2> QED
    BY <1>5, <2>1, <2>2, <2>4, <2>5, <2>6 DEF n
<1>19. CASE Pact!EvalNext(vm, vm') \/ Pact!StartCall(vm, vm') \/ Pact!EndOfCode(vm, vm')
  <2>1. /\ vm.frames = <<>>
        /\ vm'.env = vm.env /\ vm'.active = vm.active /\ vm'.module = vm.module
        /\ vm'.depth = vm.depth /\ vm'.frames = vm.frames
    <3>1. CASE Pact!EvalNext(vm, vm')
      BY <3>1 DEF Pact!EvalNext, Pact!Idle, Pact!Ask
    <3>2. CASE Pact!StartCall(vm, vm')
      BY <1>3, <3>2 DEF Pact!StartCall, Pact!Idle
    <3>3. CASE Pact!EndOfCode(vm, vm')
      BY <3>3 DEF Pact!EndOfCode
    <3> QED
      BY <1>19, <3>1, <3>2, <3>3
  <2> QED
    BY <2>1, ScopeBetween
<1>20. CASE Pact!Eval(vm, vm')
  BY <1>20, ScopeEval
<1> QED
  BY <1>7, <1>8, <1>9, <1>10, <1>11, <1>12, <1>13, <1>14, <1>15, <1>17, <1>18, <1>19, <1>20
     DEF Pact!Step

\* A machine that has just begun
LEMMA ScopeStart ==
  ASSUME NEW c \in Contract, TypeOfContract(c) # "none", NEW kind, NEW limit \in Nat,
         Start(c, kind, limit).lang = "pact"
  PROVE  ScopeInv(Start(c, kind, limit))
<1> DEFINE input == IF kind = "deploy" THEN <<>> ELSE c.input
           m == Pact!Boot(c.code, input, limit)
<1>1. TypeOfContract(c) \in {"avm", "sbf", "kaspa", "pact"}
  BY ContractAssumption DEF TypeOfContract
<1>2. Avm!Boot(c.code, limit).lang = "avm" /\ Sbf!Boot(c.code, limit).lang = "sbf"
  BY DEF Avm!Boot, Sbf!Boot
<1>3. Kaspa!Boot(input, c.code, limit).lang = "kaspa"
  BY DEF Kaspa!Boot
<1>4. Start(c, kind, limit) = m
  BY <1>1, <1>2, <1>3 DEF Start
<1>5. m.frames = <<>> /\ m.env = <<>> /\ m.active = <<>> /\ m.module = <<>> /\ m.depth = 0
  BY DEF Pact!Boot
<1> HIDE DEF m
<1>6. <<>> \in Seq({}) /\ Len(<<>>) = 0
  OBVIOUS
<1>7. IsSeq(<<>>)
  BY <1>6 DEF IsSeq
<1>8. Cardinality(InScope(Calls(m), 0)) = 0
  <2>1. InScope(Calls(m), 0) = {}
    BY DEF InScope
  <2> QED
    BY <2>1, FS_EmptySet
<1>9. Nest(Calls(m), 0, m.env, m.active, m.module)
  BY <1>5, <1>6, <1>8 DEF Nest
<1> QED
  BY <1>4, <1>5, <1>6, <1>7, <1>9 DEF ScopeInv, Framed

\* A Pact machine that runs has its scopes nested all along.
LEMMA ScopeAlways == Spec => [](vm.lang = "pact" /\ vm.status = "running" => ScopeInv(vm))
<1> DEFINE Inv == vm.lang = "pact" /\ vm.status = "running" => ScopeInv(vm)
<1>1. Init => Inv
  BY DEF Init, Idle
<1>2. MeterInv /\ Inv /\ [Next]_vars => Inv'
  <2> SUFFICES ASSUME MeterInv, Inv, [Next]_vars, vm'.lang = "pact", vm'.status = "running"
               PROVE  ScopeInv(vm)'
    OBVIOUS
  <2>1. CASE vm' = vm
    BY <2>1
  <2>2. CASE vm' = Idle
    BY <2>2 DEF Idle
  <2>3. ASSUME NEW kind, NEW limit \in Nat, contract \in Contract, TypeOfContract(contract) # "none",
               vm' = Start(contract, kind, limit)
        PROVE  ScopeInv(vm')
    BY <2>3, ScopeStart
  <2>4. CASE vm'.lang = vm.lang /\ (vm.lang = "pact" => Pact!Step(vm, vm'))
    <3>1. Pact!Step(vm, vm') /\ vm.lang = "pact"
      BY <2>4
    <3>2. vm.status = "running"
      BY <3>1, PactRuns
    <3> QED
      BY <3>1, <3>2, ScopeStep
  <2> QED
    BY <2>1, <2>2, <2>3, <2>4, Moves
<1> QED
  BY <1>1, <1>2, MeterAlways, PTL DEF Spec

\* Each call of the evaluator takes back, by the time it returns, the bindings,
\* the capability and the module it brought into scope: between two expressions
\* of a program nothing is bound, no capability is in scope, no module is open
\* and the recursion depth is zero again, for every program and every limit
\* (pact.rs:400, :416, :502, :1043, :1098).
THEOREM ScopeRestored == Spec => []PactScopeRestored
<1>1. (vm.lang = "pact" /\ vm.status = "running" => ScopeInv(vm)) => PactScopeRestored
  <2> SUFFICES ASSUME ScopeInv(vm), vm.frames = <<>>
               PROVE  vm.env = <<>> /\ vm.active = <<>> /\ vm.module = <<>> /\ vm.depth = 0
    BY DEF PactScopeRestored
  <2>1. Len(<<>>) = 0
    OBVIOUS
  <2>2. vm.depth = 0 /\ Nest(Calls(vm), 0, vm.env, vm.active, vm.module) /\ IsSeq(vm.active)
    BY <2>1 DEF ScopeInv
  <2>3. InScope(Calls(vm), 0) = {}
    BY DEF InScope
  <2>4. Len(vm.active) = 0
    BY <2>2, <2>3, FS_EmptySet, Zenon DEF Nest
  <2>5. vm.active = <<>>
    BY <2>2, <2>4, SequenceFront
  <2> QED
    BY <2>2, <2>5 DEF Nest
<1> QED
  BY <1>1, ScopeAlways, PTL

=============================================================================
