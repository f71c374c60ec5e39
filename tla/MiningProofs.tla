----------------------------- MODULE MiningProofs -----------------------------
(***************************************************************************)
(* For any number of threads and any targets: the nonce that a round       *)
(* returns meets its target, and no solution is lost on the way.           *)
(***************************************************************************)
EXTENDS Mining, Sums, TLAPS

\* What a thread returns wins; one that returns nothing has hashed no winner.
ReturnInv ==
  \A t \in Thread :
    /\ ret[t] # NoNonce => ret[t] \in winning
    /\ ret[t] = NoNonce => tried[t] \cap winning = {}
    /\ pc[t] \in {"check", "hash"} => ret[t] = NoNonce

\* The threads joined without a nonce had ended without one, and only when all
\* of them had does a round close with none.
JoinInv ==
  /\ \A t \in Thread : t < joined => pc[t] = "done" /\ ret[t] = NoNonce
  /\ main = "join" => result = NoNonce
  /\ main = "close" /\ result = NoNonce => joined = Threads

IInv == TypeOK /\ ReturnInv /\ JoinInv /\ ResultMeetsTarget

-----------------------------------------------------------------------------

\* Counters that wrap around stay below 2^64.
LEMMA Wraps == \A n \in Nat : n % U64 \in Nonce
BY MiningAssumption DEF Nonce

\* Before the first round nothing is found and nobody has been joined.
THEOREM InitEstablishesIInv == Init => IInv
<1> SUFFICES ASSUME Init PROVE IInv
  OBVIOUS
<1>1. TypeOK
  <2>1. 0 \in Nonce /\ 0 \in 0..Threads
    BY MiningAssumption DEF Nonce
  <2> QED
    BY <2>1 DEF Init, TypeOK, Each
<1>2. ReturnInv /\ JoinInv /\ ResultMeetsTarget
  BY DEF Init, ReturnInv, JoinInv, ResultMeetsTarget, Each, Thread
<1> QED
  BY <1>1, <1>2 DEF IInv

-----------------------------------------------------------------------------
\* The steps of a mining thread

\* A thread that only moves on, to where it has its result, keeps the invariant.
LEMMA MoveKeepsIInv ==
  ASSUME IInv, NEW t \in Thread, NEW step \in {"hash", "report", "done"},
         Goto(t, step), pc[t] # "done", step = "hash" => pc[t] = "check",
         found' \in BOOLEAN, counter' \in Nonce,
         UNCHANGED <<stop, nonce, local, tried, ret, main, round>>
  PROVE  IInv'
<1>1. /\ pc' \in [Thread -> {"check", "hash", "announce", "report", "done"}]
      /\ \A u \in Thread : pc'[u] = IF u = t THEN step ELSE pc[u]
  BY DEF IInv, TypeOK, Goto
<1>2. TypeOK'
  BY <1>1 DEF IInv, TypeOK, round
<1>3. ReturnInv'
  BY <1>1 DEF IInv, ReturnInv, round
<1>4. JoinInv' /\ ResultMeetsTarget'
  BY <1>1 DEF IInv, JoinInv, ResultMeetsTarget, round
<1> QED
  BY <1>2, <1>3, <1>4 DEF IInv

\* A thread that hashes a winner returns it or goes on to say it was found.
LEMMA HashKeepsIInv ==
  ASSUME IInv, NEW t \in Thread, Hash(t)
  PROVE  IInv'
<1>1. /\ nonce[t] \in Nonce /\ local[t] \in Nonce /\ t \in Nat /\ U64 \in Nat /\ Threads \in Nat
      /\ nonce[t] \in Nat /\ local[t] \in Nat
  BY MiningAssumption DEF IInv, TypeOK, Thread, Nonce
<1>2. NextNonce(nonce[t]) \in Nonce /\ (local[t] + 1) % U64 \in Nonce
  <2>1. nonce[t] + Threads \in Nat /\ local[t] + 1 \in Nat
    BY <1>1
  <2>2. (nonce[t] + Threads) % U64 \in Nonce /\ (local[t] + 1) % U64 \in Nonce
    BY <2>1, Wraps
  <2> QED
    BY <2>2 DEF NextNonce
<1>3. /\ pc[t] = "hash" /\ ret[t] = NoNonce /\ tried[t] \cap winning = {}
      /\ NoNonce \notin Nonce /\ ~(t < joined)
  BY MiningAssumption DEF IInv, ReturnInv, JoinInv, Hash, Nonce
<1>4. /\ local' \in [Thread -> Nonce] /\ tried' \in [Thread -> SUBSET Nonce]
      /\ \A u \in Thread : tried'[u] = IF u = t THEN tried[t] \cup {nonce[t]} ELSE tried[u]
      /\ UNCHANGED <<stop, found, counter, main, winning, joined, result>>
  BY <1>1, <1>2 DEF IInv, TypeOK, Hash, round
<1>5. CASE nonce[t] \in winning
  <2>1. /\ pc' \in [Thread -> {"check", "hash", "announce", "report", "done"}]
        /\ \A u \in Thread : pc'[u] = IF u = t THEN "announce" ELSE pc[u]
        /\ ret' \in [Thread -> Nonce \cup {NoNonce}]
        /\ \A u \in Thread : ret'[u] = IF u = t THEN nonce[t] ELSE ret[u]
        /\ UNCHANGED nonce
    BY <1>1, <1>5 DEF IInv, TypeOK, Hash, Goto
  <2>2. TypeOK'
    BY <1>4, <2>1 DEF IInv, TypeOK
  <2>3. ReturnInv'
    BY <1>1, <1>3, <1>4, <1>5, <2>1 DEF IInv, ReturnInv
  <2>4. JoinInv' /\ ResultMeetsTarget'
    BY <1>3, <1>4, <2>1 DEF IInv, JoinInv, ResultMeetsTarget
  <2> QED
    BY <2>2, <2>3, <2>4 DEF IInv
<1>6. CASE nonce[t] \notin winning
  <2>1. /\ pc' \in [Thread -> {"check", "hash", "announce", "report", "done"}]
        /\ \A u \in Thread : pc'[u] = IF u = t THEN "check" ELSE pc[u]
        /\ nonce' \in [Thread -> Nonce]
        /\ UNCHANGED ret
    BY <1>1, <1>2, <1>6 DEF IInv, TypeOK, Hash, Goto
  <2>2. TypeOK'
    BY <1>4, <2>1 DEF IInv, TypeOK
  <2>3. ReturnInv'
    BY <1>3, <1>4, <1>6, <2>1 DEF IInv, ReturnInv
  <2>4. JoinInv' /\ ResultMeetsTarget'
    BY <1>3, <1>4, <2>1 DEF IInv, JoinInv, ResultMeetsTarget
  <2> QED
    BY <2>2, <2>3, <2>4 DEF IInv
<1> QED
  BY <1>5, <1>6

\* The other steps of a mining thread return what it hashed, or nothing.
LEMMA WorkKeepsIInv ==
  ASSUME IInv, NEW t \in Thread, Work(t)
  PROVE  IInv'
<1>1. found \in BOOLEAN /\ counter \in Nonce
  BY DEF IInv, TypeOK
<1>2. CASE KeepOn(t)
  BY <1>1, <1>2, MoveKeepsIInv DEF KeepOn
<1>3. CASE GiveUp(t)
  BY <1>1, <1>3, MoveKeepsIInv DEF GiveUp
<1>4. CASE Hash(t)
  BY <1>4, HashKeepsIInv
<1>5. CASE Announce(t)
  BY <1>1, <1>5, MoveKeepsIInv DEF Announce
<1>6. CASE Report(t)
  <2>1. counter + local[t] \in Nat
    BY MiningAssumption DEF IInv, TypeOK, Nonce
  <2>2. counter' \in Nonce
    BY <1>6, <2>1, Wraps DEF Report
  <2> QED
    BY <1>1, <1>6, <2>2, MoveKeepsIInv DEF Report
<1> QED
  BY <1>2, <1>3, <1>4, <1>5, <1>6 DEF Work

-----------------------------------------------------------------------------
\* The steps of the coordinator

\* A round starts with idle threads that have hashed nothing.
LEMMA StartRoundKeepsIInv ==
  ASSUME IInv, NEW w \in Targets, StartRound(w)
  PROVE  IInv'
<1>1. /\ 0 \in Nonce /\ Thread \subseteq Nonce /\ 0 \in 0..Threads
      /\ \A t \in Thread : ~(t < 0)
  BY MiningAssumption DEF Nonce, Thread
<1>2. TypeOK'
  BY <1>1 DEF IInv, TypeOK, StartRound, Each
<1>3. ReturnInv' /\ JoinInv' /\ ResultMeetsTarget'
  BY <1>1 DEF StartRound, Each, ReturnInv, JoinInv, ResultMeetsTarget
<1> QED
  BY <1>2, <1>3 DEF IInv

\* Joining takes the first result in the order of the handles.
LEMMA JoinKeepsIInv ==
  ASSUME IInv, JoinNext \/ JoinedAll
  PROVE  IInv'
<1>1. /\ joined \in 0..Threads /\ Threads \in Nat /\ main = "join" /\ result = NoNonce
      /\ UNCHANGED <<stop, found, counter, worker, winning>>
  BY MiningAssumption DEF IInv, TypeOK, JoinInv, JoinNext, JoinedAll, round
<1>2. CASE JoinedAll
  BY <1>1, <1>2 DEF IInv, TypeOK, ReturnInv, JoinInv, ResultMeetsTarget, JoinedAll, round, worker
<1>3. CASE JoinNext /\ ret[joined] = NoNonce
  <2>1. /\ joined' = joined + 1 /\ joined' \in 0..Threads /\ UNCHANGED <<main, result>>
        /\ pc[joined] = "done"
        /\ \A t \in Thread : t < joined' => t < joined \/ t = joined
    BY <1>1, <1>3 DEF JoinNext, Thread
  <2> QED
    BY <1>1, <1>3, <2>1 DEF IInv, TypeOK, ReturnInv, JoinInv, ResultMeetsTarget, worker
<1>4. CASE JoinNext /\ ret[joined] # NoNonce
  <2>1. joined \in Thread
    BY <1>1, <1>4 DEF JoinNext, Thread
  <2>2. /\ result' = ret[joined] /\ main' = "close" /\ UNCHANGED joined
        /\ ret[joined] \in winning /\ ret[joined] \in Nonce \cup {NoNonce}
    BY <1>4, <2>1 DEF JoinNext, IInv, ReturnInv, TypeOK
  <2> QED
    BY <1>1, <1>4, <2>2 DEF IInv, TypeOK, ReturnInv, JoinInv, ResultMeetsTarget, worker
<1> QED
  BY <1>2, <1>3, <1>4

\* Every step of the miner keeps the invariant.
THEOREM StepKeepsIInv == IInv /\ [Next]_vars => IInv'
<1> SUFFICES ASSUME IInv, [Next]_vars PROVE IInv'
  OBVIOUS
<1>1. CASE UNCHANGED vars
  BY <1>1 DEF vars, worker, round, IInv, TypeOK, ReturnInv, JoinInv, ResultMeetsTarget
<1>2. CASE CtrlC
  BY <1>2 DEF CtrlC, worker, round, IInv, TypeOK, ReturnInv, JoinInv, ResultMeetsTarget
<1>3. CASE CloseRound \/ Quit
  BY <1>3 DEF CloseRound, Quit, worker, round, IInv, TypeOK, ReturnInv, JoinInv, ResultMeetsTarget
<1>4. CASE JoinNext \/ JoinedAll
  BY <1>4, JoinKeepsIInv
<1>5. ASSUME NEW w \in Targets, StartRound(w) PROVE IInv'
  BY <1>5, StartRoundKeepsIInv
<1>6. ASSUME NEW t \in Thread, Work(t) PROVE IInv'
  BY <1>6, WorkKeepsIInv
<1> QED
  BY <1>1, <1>2, <1>3, <1>4, <1>5, <1>6 DEF Next, Coordinate

\* The types of the state hold in every reachable state.
THEOREM TypeCorrect == Spec => []TypeOK
<1>1. IInv => TypeOK
  BY DEF IInv
<1> QED
  BY <1>1, InitEstablishesIInv, StepKeepsIInv, PTL DEF Spec

\* The nonce a round returns meets the target of the template of that round,
\* whichever thread found it and in whatever order the threads are joined.
THEOREM ResultMeetsTargetCorrect == Spec => []ResultMeetsTarget
<1>1. IInv => ResultMeetsTarget
  BY DEF IInv
<1> QED
  BY <1>1, InitEstablishesIInv, StepKeepsIInv, PTL DEF Spec

\* A round that returns nothing has lost no winning nonce that a thread hashed.
THEOREM SolutionKeptCorrect == Spec => []SolutionKept
<1>1. IInv => SolutionKept
  <2> SUFFICES ASSUME IInv, main = "close", result = NoNonce, NEW t \in Thread
               PROVE  tried[t] \cap winning = {}
    BY DEF SolutionKept
  <2>1. t < joined
    BY MiningAssumption DEF IInv, JoinInv, Thread
  <2> QED
    BY <2>1 DEF IInv, JoinInv, ReturnInv
<1> QED
  BY <1>1, InitEstablishesIInv, StepKeepsIInv, PTL DEF Spec

-----------------------------------------------------------------------------
(***************************************************************************)
(* Which nonces a thread has tried.                                        *)
(***************************************************************************)

\* The nonces of a thread's residue class
Class(t) == {n \in Nonce : \E i \in Nat : n = t + i * Threads}

\* Before it wraps around a thread is in its class, and has tried all of it that
\* is below its nonce ...
InClass(t) ==
  /\ tried[t] \subseteq Class(t)
  /\ pc[t] \in {"check", "hash"} =>
       nonce[t] \in Class(t) /\ \A n \in Class(t) : n < nonce[t] => n \in tried[t]

\* ... and after that it has tried the whole class, and no more until it counts
\* more nonces than the class has.
PastClass(t) == Class(t) \subseteq tried[t] /\ (tried[t] \subseteq Class(t) \/ ~Unwrapped(t))

TriedInv == \A t \in Thread : InClass(t) \/ PastClass(t)

\* The classes of different threads do not meet.
LEMMA ClassesDisjoint ==
  ASSUME NEW t \in Thread, NEW u \in Thread, t # u
  PROVE  Class(t) \cap Class(u) = {}
<1> SUFFICES ASSUME NEW i \in Nat, NEW j \in Nat, t + i * Threads = u + j * Threads
             PROVE  FALSE
  BY DEF Class
<1>1. /\ t \in Nat /\ u \in Nat /\ t < Threads /\ u < Threads /\ Threads \in Nat
      /\ i * Threads \in Nat /\ j * Threads \in Nat
  BY MiningAssumption DEF Thread
<1>2. CASE i < j
  BY <1>1, <1>2, Multiples
<1>3. CASE j < i
  BY <1>1, <1>3, Multiples
<1>4. CASE i = j
  BY <1>1, <1>4
<1> QED
  BY <1>2, <1>3, <1>4

\* How many nonces a class has: as many as there are before the wrap-around.
LEMMA ClassSize ==
  ASSUME NEW t \in Thread
  PROVE  /\ IsFiniteSet(Class(t))
         /\ \E k \in Nat : /\ Cardinality(Class(t)) = k
                           /\ t + k * Threads >= U64
                           /\ k > 0 /\ t + (k - 1) * Threads < U64
<1>1. t \in Nat /\ t < Threads /\ Threads \in Nat /\ U64 \in Nat /\ Threads > 0 /\ t < U64
  BY MiningAssumption DEF Thread
<1> DEFINE S == {k \in Nat : t + k * Threads >= U64}
<1>2. U64 \in S
  <2>1. U64 * Threads = (U64 - 1) * Threads + Threads
    BY <1>1
  <2>2. U64 * Threads >= U64
    BY <1>1
  <2> QED
    BY <1>1, <2>2
<1>3. PICK k \in S : \A m \in S : k <= m
  <2>1. S \in SUBSET Nat /\ S # {}
    BY <1>2
  <2> HIDE DEF S
  <2> QED
    BY <2>1, LeastElement
<1>4. k \in Nat /\ t + k * Threads >= U64 /\ k > 0
  BY <1>1
<1>5. t + (k - 1) * Threads < U64
  <2>1. k - 1 \in Nat /\ k - 1 \notin S /\ (k - 1) * Threads \in Nat
    BY <1>1, <1>3, <1>4
  <2> QED
    BY <1>1, <2>1
<1> HIDE DEF S
<1> DEFINE f == [i \in 0..(k - 1) |-> t + i * Threads]
<1>6. \A i \in 0..(k - 1) : i \in Nat /\ i * Threads \in Nat /\ t + i * Threads < U64
  <2> SUFFICES ASSUME NEW i \in 0..(k - 1)
               PROVE  i \in Nat /\ i * Threads \in Nat /\ t + i * Threads < U64
    OBVIOUS
  <2>1. i \in Nat /\ i * Threads \in Nat /\ k - 1 \in Nat /\ (k - 1) * Threads \in Nat
    BY <1>1, <1>4
  <2>2. CASE i = k - 1
    BY <1>5, <2>1, <2>2
  <2>3. CASE i < k - 1
    <3>1. i * Threads + Threads <= (k - 1) * Threads
      BY <1>1, <2>1, <2>3, Multiples
    <3> QED
      BY <1>1, <1>5, <2>1, <3>1
  <2> QED
    BY <1>4, <2>1, <2>2, <2>3
<1>7. f \in Bijection(0..(k - 1), Class(t))
  <2>1. \A i \in 0..(k - 1) : f[i] \in Class(t)
    BY <1>1, <1>6 DEF Class, Nonce
  <2>2. \A i, j \in 0..(k - 1) : i < j => f[i] < f[j]
    <3> SUFFICES ASSUME NEW i \in 0..(k - 1), NEW j \in 0..(k - 1), i < j
                 PROVE  t + i * Threads < t + j * Threads
      OBVIOUS
    <3>1. i * Threads + Threads <= j * Threads
      BY <1>1, <1>6, Multiples
    <3> QED
      BY <1>1, <1>6, <3>1
  <2>3. \A i, j \in 0..(k - 1) : f[i] = f[j] => i = j
    <3> SUFFICES ASSUME NEW i \in 0..(k - 1), NEW j \in 0..(k - 1), i # j PROVE f[i] # f[j]
      OBVIOUS
    <3>1. f[i] \in Nat /\ f[j] \in Nat /\ (i < j \/ j < i)
      BY <1>1, <1>4, <1>6
    <3> HIDE DEF f
    <3> QED
      BY <2>2, <3>1
  <2>4. \A n \in Class(t) : \E i \in 0..(k - 1) : f[i] = n
    <3> SUFFICES ASSUME NEW i \in Nat, t + i * Threads < U64 PROVE i \in 0..(k - 1)
      BY <1>1 DEF Class, Nonce
    <3>1. CASE i = k
      BY <1>1, <1>4, <3>1
    <3>2. CASE k < i
      <4>1. k * Threads + Threads <= i * Threads
        BY <1>1, <1>4, <3>2, Multiples
      <4>2. k * Threads \in Nat /\ i * Threads \in Nat
        BY <1>1, <1>4
      <4> QED
        BY <1>1, <1>4, <4>1, <4>2
    <3> QED
      BY <1>4, <3>1, <3>2
  <2>5. f \in [0..(k - 1) -> Class(t)]
    BY <2>1
  <2> HIDE DEF f
  <2> QED
    BY <2>3, <2>4, <2>5 DEF Bijection, Injection, Surjection, IsInjective
<1>8. IsFiniteSet(0..(k - 1)) /\ Cardinality(0..(k - 1)) = k
  BY <1>4, FS_Interval
<1>9. IsFiniteSet(Class(t)) /\ Cardinality(Class(t)) = k
  <2> HIDE DEF f
  <2>1. ExistsBijection(0..(k - 1), Class(t))
    BY <1>7 DEF ExistsBijection
  <2> QED
    BY <1>8, <2>1, FS_Bijection
<1> QED
  BY <1>4, <1>5, <1>9

\* A member of a class that is below the next one is not above this one.
LEMMA ClassStep ==
  ASSUME NEW t \in Thread, NEW n \in Class(t), NEW m \in Class(t), m < n + Threads
  PROVE  m <= n
<1>1. PICK i \in Nat : n = t + i * Threads
  BY DEF Class
<1>2. PICK j \in Nat : m = t + j * Threads
  BY DEF Class
<1>3. t \in Nat /\ Threads \in Nat /\ i * Threads \in Nat /\ j * Threads \in Nat
  BY MiningAssumption DEF Thread
<1>4. CASE i < j
  BY <1>1, <1>2, <1>3, <1>4, Multiples
<1>5. CASE i = j
  BY <1>1, <1>2, <1>3, <1>5
<1>6. CASE j < i
  BY <1>1, <1>2, <1>3, <1>6, Multiples
<1> QED
  BY <1>4, <1>5, <1>6

\* The next nonce is the next one of the class, unless there is none.
LEMMA ClassNext ==
  ASSUME NEW t \in Thread, NEW n \in Class(t), n + Threads < U64
  PROVE  n + Threads \in Class(t) /\ NextNonce(n) = n + Threads
<1>1. PICK i \in Nat : n = t + i * Threads
  BY DEF Class
<1>2. t \in Nat /\ Threads \in Nat /\ i * Threads \in Nat /\ n \in Nat /\ U64 \in Nat
  BY MiningAssumption DEF Thread, Class, Nonce
<1>3. (i + 1) * Threads = i * Threads + Threads /\ i + 1 \in Nat
  BY <1>2
<1>4. n + Threads = t + (i + 1) * Threads /\ n + Threads \in Nonce
  BY <1>1, <1>2, <1>3 DEF Nonce
<1>5. n + Threads \in Class(t)
  BY <1>3, <1>4 DEF Class
<1> QED
  BY <1>2, <1>5 DEF NextNonce

\* A hash keeps to the class in its order, or goes past the wrap-around.
LEMMA HashKeepsTriedInv ==
  ASSUME TypeOK, TriedInv, NEW t \in Thread, Hash(t)
  PROVE  TriedInv'
<1> DEFINE n == nonce[t]
           now == tried[t] \cup {n}
<1>1. /\ n \in Nonce /\ tried[t] \subseteq Nonce /\ pc[t] = "hash"
      /\ U64 \in Nat /\ Threads \in Nat /\ n \in Nat /\ t \in Nat
  BY MiningAssumption DEF TypeOK, Hash, Nonce, Thread
<1>2. tried'[t] = now /\ \A u \in Thread : u # t => tried'[u] = tried[u]
  BY DEF TypeOK, Hash
<1>3. \A u \in Thread : u # t => pc'[u] = pc[u] /\ nonce'[u] = nonce[u]
  BY DEF TypeOK, Hash, Goto
<1>4. \/ pc'[t] = "announce"
      \/ pc'[t] = "check" /\ nonce'[t] = NextNonce(n)
  BY DEF TypeOK, Hash, Goto
<1>5. ASSUME NEW u \in Thread, u # t PROVE (InClass(u) \/ PastClass(u))'
  <2>1. InClass(u) \/ PastClass(u)
    BY DEF TriedInv
  <2>2. UNCHANGED <<tried[u], pc[u], nonce[u]>>
    BY <1>2, <1>3, <1>5
  <2> QED
    BY <2>1, <2>2 DEF InClass, PastClass, Class, Unwrapped
<1>6. IsFiniteSet(Nonce)
  BY <1>1, FS_Interval DEF Nonce
<1>7. /\ IsFiniteSet(tried[t]) /\ Cardinality(tried[t]) \in Nat /\ IsFiniteSet(now)
      /\ Cardinality(now) = IF n \in tried[t] THEN Cardinality(tried[t]) ELSE Cardinality(tried[t]) + 1
  BY <1>1, <1>6, FS_Subset, FS_AddElement, FS_CardinalityType
<1> HIDE DEF now
<1>8. \A x : x \in now <=> x \in tried[t] \/ x = n
  BY DEF now
<1> HIDE DEF n
<1>9. CASE InClass(t) /\ n + Threads < U64
  <2>1. n \in Class(t) /\ now \subseteq Class(t)
    BY <1>1, <1>8, <1>9 DEF InClass, n
  <2>2. \A m \in Class(t) : m < n => m \in tried[t]
    BY <1>1, <1>9 DEF InClass, n
  <2>3. n + Threads \in Class(t) /\ NextNonce(n) = n + Threads
    BY <1>9, <2>1, ClassNext
  <2>4. ASSUME NEW m \in Class(t), m < n + Threads PROVE m \in now
    <3>1. m <= n /\ m \in Nat
      BY <2>1, <2>4, ClassStep DEF Class, Nonce
    <3> QED
      BY <1>1, <1>8, <2>2, <3>1
  <2>5. InClass(t)'
    BY <1>2, <1>4, <2>1, <2>3, <2>4 DEF InClass, Class
  <2> QED
    BY <1>5, <2>5 DEF TriedInv
<1>10. CASE InClass(t) /\ ~(n + Threads < U64)
  <2>1. n \in Class(t) /\ now \subseteq Class(t)
    BY <1>1, <1>8, <1>10 DEF InClass, n
  <2>2. \A m \in Class(t) : m < n => m \in tried[t]
    BY <1>1, <1>10 DEF InClass, n
  <2>3. ASSUME NEW m \in Class(t) PROVE m \in now
    <3>1. m < n + Threads /\ m \in Nat
      BY <1>1, <1>10 DEF Class, Nonce
    <3>2. m <= n
      BY <2>1, <3>1, ClassStep
    <3> QED
      BY <1>1, <1>8, <2>2, <3>1, <3>2
  <2>4. PastClass(t)'
    BY <1>2, <2>1, <2>3 DEF PastClass, Class
  <2> QED
    BY <1>5, <2>4 DEF TriedInv
<1>11. CASE PastClass(t)
  <2>1. Class(t) \subseteq now
    BY <1>8, <1>11 DEF PastClass
  <2>2. CASE now \subseteq Class(t)
    <3>1. PastClass(t)'
      BY <1>2, <2>1, <2>2 DEF PastClass, Class
    <3> QED
      BY <1>5, <3>1 DEF TriedInv
  <2>3. CASE tried[t] \subseteq Class(t) /\ ~(now \subseteq Class(t))
    <3>1. tried[t] = Class(t) /\ n \notin tried[t]
      BY <1>8, <1>11, <2>3 DEF PastClass
    <3>2. PICK k \in Nat : Cardinality(Class(t)) = k /\ t + k * Threads >= U64
      BY ClassSize
    <3>3. Cardinality(now) = k + 1
      BY <1>7, <3>1, <3>2
    <3>4. (k + 1) - 1 = k
      BY <3>2
    <3>5. ~Unwrapped(t)'
      BY <1>1, <1>2, <3>2, <3>3, <3>4 DEF Unwrapped
    <3>6. PastClass(t)'
      BY <1>2, <2>1, <3>5 DEF PastClass, Class
    <3> QED
      BY <1>5, <3>6 DEF TriedInv
  <2>4. CASE ~(tried[t] \subseteq Class(t))
    <3> DEFINE c == Cardinality(tried[t])
               d == Cardinality(now)
    <3>1. c \in Nat /\ (d = c \/ d = c + 1) /\ ~(t + (c - 1) * Threads < U64)
      BY <1>7, <1>11, <2>4 DEF PastClass, Unwrapped
    <3> HIDE DEF c, d
    <3>2. ~(t + (d - 1) * Threads < U64)
      <4>1. CASE d = c
        BY <3>1, <4>1
      <4>2. CASE d = c + 1
        <5>1. (d - 1) * Threads = (c - 1) * Threads + Threads /\ (c - 1) * Threads \in Int
          BY <1>1, <3>1, <4>2
        <5> QED
          BY <1>1, <3>1, <4>2, <5>1
      <4> QED
        BY <3>1, <4>1, <4>2
    <3>3. ~Unwrapped(t)'
      BY <1>2, <3>2 DEF Unwrapped, d
    <3>4. PastClass(t)'
      BY <1>2, <2>1, <3>3 DEF PastClass, Class
    <3> QED
      BY <1>5, <3>4 DEF TriedInv
  <2> QED
    BY <2>2, <2>3, <2>4
<1> QED
  BY <1>9, <1>10, <1>11 DEF TriedInv

\* The other steps of a thread, and those of the coordinator but the first of a
\* round, leave what is tried alone; none of them goes back to hashing with
\* another nonce.
LEMMA OthersKeepTriedInv ==
  ASSUME TypeOK, TriedInv, UNCHANGED <<nonce, tried>>,
         \A t \in Thread : pc'[t] \in {"check", "hash"} => pc[t] \in {"check", "hash"}
  PROVE  TriedInv'
<1> SUFFICES ASSUME NEW t \in Thread PROVE (InClass(t) \/ PastClass(t))'
  BY DEF TriedInv
<1>1. InClass(t) \/ PastClass(t)
  BY DEF TriedInv
<1> QED
  BY <1>1 DEF InClass, PastClass, Class, Unwrapped

\* A round starts with nothing tried, each thread at the first of its class.
LEMMA StartRoundKeepsTriedInv ==
  ASSUME NEW w \in Targets, StartRound(w)
  PROVE  TriedInv'
<1> SUFFICES ASSUME NEW t \in Thread PROVE InClass(t)'
  BY DEF TriedInv
<1>1. t \in Nat /\ Threads \in Nat /\ U64 \in Nat /\ t < Threads /\ Threads < U64
  BY MiningAssumption DEF Thread
<1>2. tried'[t] = {} /\ nonce'[t] = t
  BY DEF StartRound, Each
<1>3. t = t + 0 * Threads /\ t \in Nonce
  BY <1>1 DEF Nonce
<1>4. t \in Class(t)
  BY <1>3 DEF Class
<1>5. ASSUME NEW n \in Class(t) PROVE ~(n < t)
  <2>1. PICK i \in Nat : n = t + i * Threads
    BY DEF Class
  <2>2. i * Threads \in Nat
    BY <1>1
  <2> QED
    BY <1>1, <2>1, <2>2
<1> QED
  BY <1>2, <1>4, <1>5 DEF InClass, Class

\* A thread is in its class, or past the last nonce of it, at all times.
THEOREM TriedInvCorrect == Spec => []TriedInv
<1>1. Init => TriedInv
  BY DEF Init, Each, TriedInv, InClass
<1>2. TypeOK /\ TriedInv /\ [Next]_vars => TriedInv'
  <2> SUFFICES ASSUME TypeOK, TriedInv, [Next]_vars PROVE TriedInv'
    OBVIOUS
  <2>1. ASSUME NEW w \in Targets, StartRound(w) PROVE TriedInv'
    BY <2>1, StartRoundKeepsTriedInv
  <2>2. ASSUME NEW t \in Thread, Hash(t) PROVE TriedInv'
    BY <2>2, HashKeepsTriedInv
  <2>3. CASE JoinNext \/ JoinedAll \/ CloseRound \/ Quit \/ CtrlC \/ UNCHANGED vars
    <3>1. UNCHANGED <<nonce, tried, pc>>
      BY <2>3 DEF JoinNext, JoinedAll, CloseRound, Quit, CtrlC, vars, worker
    <3> QED
      BY <3>1, OthersKeepTriedInv
  <2>4. ASSUME NEW t \in Thread, KeepOn(t) \/ GiveUp(t) \/ Announce(t) \/ Report(t) PROVE TriedInv'
    <3>1. /\ UNCHANGED <<nonce, tried>>
          /\ \A u \in Thread : pc'[u] \in {"check", "hash"} => pc[u] \in {"check", "hash"}
      BY <2>4 DEF KeepOn, GiveUp, Announce, Report, Goto, TypeOK
    <3> QED
      BY <3>1, OthersKeepTriedInv
  <2> QED
    BY <2>1, <2>2, <2>3, <2>4 DEF Next, Coordinate, Work
<1> QED
  BY <1>1, <1>2, TypeCorrect, PTL DEF Spec

\* No nonce is hashed by two threads that have not gone past 2^64, for any
\* number of threads.
THEOREM NoDuplicateWorkCorrect == Spec => []NoDuplicateWork
<1>1. TriedInv => NoDuplicateWork
  <2> SUFFICES ASSUME TriedInv, NEW t \in Thread, NEW u \in Thread, t # u, Unwrapped(t), Unwrapped(u)
               PROVE  tried[t] \cap tried[u] = {}
    BY DEF NoDuplicateWork
  <2>1. tried[t] \subseteq Class(t) /\ tried[u] \subseteq Class(u)
    BY DEF TriedInv, InClass, PastClass
  <2> QED
    BY <2>1, ClassesDisjoint
<1> QED
  BY <1>1, TriedInvCorrect, PTL

\* Once every thread has hashed its share, every nonce has been tried, also
\* when the number of threads does not divide 2^64.
THEOREM NothingSkippedCorrect == Spec => []NothingSkipped
<1>1. ASSUME TypeOK, TriedInv, NEW t \in Thread, Cardinality(tried[t]) * Threads >= U64
      PROVE  Class(t) \subseteq tried[t]
  <2>1. CASE PastClass(t)
    BY <2>1 DEF PastClass
  <2>2. CASE tried[t] \subseteq Class(t)
    <3>1. PICK k \in Nat : /\ Cardinality(Class(t)) = k /\ k > 0 /\ t + (k - 1) * Threads < U64
      BY ClassSize
    <3>2. IsFiniteSet(Class(t))
      BY ClassSize
    <3> DEFINE c == Cardinality(tried[t])
    <3>3. c \in Nat /\ c <= k
      BY <2>2, <3>1, <3>2, FS_Subset, FS_CardinalityType
    <3>4. /\ t \in Nat /\ Threads \in Nat /\ U64 \in Nat
          /\ (k - 1) * Threads \in Nat /\ c * Threads \in Nat /\ k - 1 \in Nat
      BY <3>1, <3>3, MiningAssumption DEF Thread
    <3>5. c * Threads >= U64
      BY <1>1
    <3> HIDE DEF c
    <3>6. ~(c < k)
      <4> SUFFICES ASSUME c < k PROVE FALSE
        OBVIOUS
      <4>1. CASE c = k - 1
        BY <3>1, <3>4, <3>5, <4>1
      <4>2. CASE c < k - 1
        <5>1. c * Threads + Threads <= (k - 1) * Threads
          BY <3>3, <3>4, <4>2, Multiples
        <5> QED
          BY <3>1, <3>4, <3>5, <5>1
      <4> QED
        BY <3>1, <3>3, <4>1, <4>2
    <3>7. c = k
      BY <3>3, <3>6
    <3> QED
      BY <2>2, <3>1, <3>2, <3>7, FS_Subset DEF c
  <2> QED
    BY <1>1, <2>1, <2>2 DEF TriedInv, InClass
<1>2. ASSUME NEW n \in Nonce PROVE \E t \in Thread : n \in Class(t)
  <2>1. n \in Nat /\ Threads \in Nat /\ Threads > 0
    BY MiningAssumption DEF Nonce
  <2>2. n \div Threads \in Nat /\ n % Threads \in Thread /\ n = (n % Threads) + (n \div Threads) * Threads
    BY <2>1 DEF Thread
  <2> QED
    BY <2>2 DEF Class
<1>3. TypeOK /\ TriedInv => NothingSkipped
  <2> SUFFICES ASSUME TypeOK, TriedInv, \A t \in Thread : Cardinality(tried[t]) * Threads >= U64
               PROVE  UNION {tried[t] : t \in Thread} = Nonce
    BY DEF NothingSkipped
  <2>1. \A t \in Thread : Class(t) \subseteq tried[t] /\ tried[t] \subseteq Nonce
    BY <1>1 DEF TypeOK
  <2> QED
    BY <1>2, <2>1
<1> QED
  BY <1>3, TypeCorrect, TriedInvCorrect, PTL

-----------------------------------------------------------------------------
(***************************************************************************)
(* The hash count.                                                         *)
(***************************************************************************)

\* The hashes of the threads that have ended
Ended == [t \in Thread |-> IF pc[t] = "done" THEN local[t] ELSE 0]

\* The count is what the threads that have ended have hashed, modulo 2^64.
CountInv == counter = SumFunction(Ended) % U64

\* The miner has finitely many threads.
LEMMA ThreadFinite == IsFiniteSet(Thread)
BY FS_Interval, MiningAssumption DEF Thread

\* What the threads have hashed are naturals.
LEMMA EndedType == TypeOK => Ended \in [Thread -> Nat]
BY MiningAssumption DEF TypeOK, Ended, Nonce

\* At the start of a round nothing is counted.
LEMMA NothingEnded ==
  ASSUME \A t \in Thread : Ended[t] = 0, counter = 0
  PROVE  CountInv
<1>1. Ended \in [Thread -> Nat]
  BY DEF Ended
<1>2. SumFunction(Ended) = 0
  BY <1>1, ThreadFinite, SumFunctionZero
<1> QED
  BY <1>2, MiningAssumption DEF CountInv

\* A thread that ends adds its hashes to the count.
LEMMA ReportKeepsCountInv ==
  ASSUME TypeOK, TypeOK', CountInv, NEW t \in Thread, Report(t)
  PROVE  CountInv'
<1>1. Ended \in [Thread -> Nat] /\ Ended' \in [Thread -> Nat]
  <2>1. Ended \in [Thread -> Nat]
    BY EndedType
  <2>2. Ended' \in [Thread -> Nat]
    BY MiningAssumption DEF TypeOK, Ended, Nonce
  <2> QED
    BY <2>1, <2>2
<1>2. Ended[t] = 0 /\ Ended'[t] = local[t] /\ \A u \in Thread : u # t => Ended[u] = Ended'[u]
  BY DEF Ended, Report, Goto, TypeOK
<1>3. SumFunction(Ended') + Ended[t] = SumFunction(Ended) + Ended'[t]
  BY <1>1, <1>2, ThreadFinite, SumFunctionChange
<1>4. SumFunction(Ended) \in Nat /\ SumFunction(Ended') \in Nat /\ local[t] \in Nat
  BY <1>1, ThreadFinite, SumFunctionType, MiningAssumption DEF TypeOK, Nonce
<1>5. SumFunction(Ended') = SumFunction(Ended) + local[t]
  BY <1>2, <1>3, <1>4
<1>6. counter' = ((SumFunction(Ended) % U64) + local[t]) % U64
  BY DEF Report, CountInv
<1>7. U64 \in Nat \ {0}
  BY MiningAssumption
<1>8. counter' = (SumFunction(Ended) + local[t]) % U64
  BY <1>4, <1>6, <1>7, RemainderOfSum
<1> QED
  BY <1>5, <1>8 DEF CountInv

\* The count is kept by every step.
LEMMA CountInvHolds == Spec => []CountInv
<1>1. Init => CountInv
  <2> SUFFICES ASSUME Init PROVE CountInv
    OBVIOUS
  <2>1. \A t \in Thread : Ended[t] = 0
    BY DEF Init, Each, Ended
  <2> QED
    BY <2>1, NothingEnded DEF Init
<1>2. TypeOK /\ TypeOK' /\ CountInv /\ [Next]_vars => CountInv'
  <2> SUFFICES ASSUME TypeOK, TypeOK', CountInv, [Next]_vars PROVE CountInv'
    OBVIOUS
  <2>1. ASSUME NEW w \in Targets, StartRound(w) PROVE CountInv'
    <3>1. counter' = 0 /\ \A t \in Thread : Ended'[t] = 0
      BY <2>1 DEF StartRound, Each, Ended
    <3>2. Ended' \in [Thread -> Nat]
      BY <3>1 DEF Ended
    <3>3. SumFunction(Ended') = 0
      BY <3>1, <3>2, ThreadFinite, SumFunctionZero
    <3> QED
      BY <3>1, <3>3, MiningAssumption DEF CountInv
  <2>2. ASSUME NEW t \in Thread, Report(t) PROVE CountInv'
    BY <2>2, ReportKeepsCountInv
  <2>3. CASE JoinNext \/ JoinedAll \/ CloseRound \/ Quit \/ CtrlC \/ UNCHANGED vars
    <3>1. UNCHANGED <<counter, local, pc>>
      BY <2>3 DEF JoinNext, JoinedAll, CloseRound, Quit, CtrlC, vars, worker
    <3> QED
      BY <3>1 DEF CountInv, Ended
  <2>4. ASSUME NEW t \in Thread, KeepOn(t) \/ GiveUp(t) \/ Announce(t) \/ Hash(t) PROVE CountInv'
    <3>1. /\ UNCHANGED counter
          /\ pc[t] # "done" /\ pc'[t] # "done"
          /\ \A u \in Thread : u # t => pc'[u] = pc[u] /\ local'[u] = local[u]
      BY <2>4 DEF KeepOn, GiveUp, Announce, Hash, Goto, TypeOK
    <3>2. Ended' = Ended
      BY <3>1 DEF Ended
    <3> QED
      BY <3>1, <3>2 DEF CountInv
  <2> QED
    BY <2>1, <2>2, <2>3, <2>4 DEF Next, Coordinate, Work
<1> QED
  BY <1>1, <1>2, TypeCorrect, PTL DEF Spec

\* The count that is read when a round closes has every hash of every thread in
\* it, also of the threads that were not joined.
THEOREM HashesCountedCorrect == Spec => HashesCounted
<1>1. TypeOK /\ CountInv /\ [Next]_vars
        => [main = "close" /\ main' = "loop" => counter = SumFunction(local) % U64]_vars
  <2> SUFFICES ASSUME TypeOK, CountInv, [Next]_vars, main = "close", main' = "loop"
               PROVE  counter = SumFunction(local) % U64
    OBVIOUS
  <2>1. CloseRound
    BY DEF Next, Coordinate, StartRound, JoinNext, JoinedAll, Quit, CtrlC, Work,
           KeepOn, GiveUp, Hash, Announce, Report, vars
  <2>2. Ended = local
    BY <2>1 DEF CloseRound, Ended, TypeOK
  <2> QED
    BY <2>2 DEF CountInv
<1> QED
  BY <1>1, CountInvHolds, TypeCorrect, PTL DEF Spec, HashesCounted

=============================================================================
