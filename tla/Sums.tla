-------------------------------- MODULE Sums --------------------------------
(***************************************************************************)
(* Induction over the naturals, stated of a set, and what it shows of the  *)
(* sums that the specifications take with SumFunction, of remainders and   *)
(* of powers of two.                                                       *)
(***************************************************************************)
EXTENDS Integers, FiniteSetsExt, FiniteSetTheorems, WellFoundedInduction, TLAPS

\* Every non-empty set of naturals has a least element.
LEMMA LeastElement ==
  ASSUME NEW S \in SUBSET Nat, S # {}
  PROVE  \E n \in S : \A m \in S : n <= m
<1>1. PICK n \in S : \A y \in S : ~ (<<y, n>> \in OpToRel(<, Nat))
  BY NatLessThanWellFounded, WFMin
<1>2. ASSUME NEW m \in S, m < n PROVE FALSE
  <2>1. <<m, n>> \in OpToRel(<, Nat)
    BY <1>2 DEF OpToRel
  <2> QED
    BY <1>1, <2>1
<1> QED
  BY <1>2

\* What holds of 0, and of n + 1 when it holds of n, holds of every natural: a
\* property is the set of the naturals that have it.
LEMMA Induction ==
  ASSUME NEW S, 0 \in S, \A n \in Nat : n \in S => n + 1 \in S
  PROVE  \A n \in Nat : n \in S
<1> SUFFICES ASSUME NEW k \in Nat, k \notin S PROVE FALSE
  OBVIOUS
<1> DEFINE T == {n \in Nat : n \notin S}
<1>1. PICK n \in T : \A m \in T : n <= m
  <2>1. T \in SUBSET Nat /\ T # {}
    OBVIOUS
  <2> HIDE DEF T
  <2> QED
    BY <2>1, LeastElement
<1>2. n # 0 /\ n \in Nat
  OBVIOUS
<1>3. n - 1 \in Nat /\ n - 1 \notin T
  BY <1>1, <1>2
<1>4. (n - 1) + 1 \in S
  BY <1>3
<1> QED
  BY <1>2, <1>4

-----------------------------------------------------------------------------
\* The function that SumFunctionOnSet iterates over the subsets of S
Chosen(s) == CHOOSE x \in s : TRUE

AddsUp(it, f, S) ==
  it = [s \in SUBSET S |-> IF s = {} THEN 0 ELSE f[Chosen(s)] + it[s \ {Chosen(s)}]]

\* The subsets of at most n elements
UpTo(n, S) == {s \in SUBSET S : Cardinality(s) <= n}

\* The sum over the subsets of at most n elements
AddsUpTo(it, f, S, n) ==
  it = [s \in UpTo(n, S) |-> IF s = {} THEN 0 ELSE f[Chosen(s)] + it[s \ {Chosen(s)}]]

\* The element a fold takes first is one of the set.
LEMMA ChosenIn == \A s : s # {} => Chosen(s) \in s
BY DEF Chosen

\* Without it, the set has one element less.
LEMMA ChosenRemoved ==
  ASSUME NEW s, s # {}, IsFiniteSet(s)
  PROVE  /\ Chosen(s) \in s
         /\ s \ {Chosen(s)} \subseteq s /\ IsFiniteSet(s \ {Chosen(s)})
         /\ Cardinality(s \ {Chosen(s)}) = Cardinality(s) - 1
         /\ Cardinality(s) \in Nat
<1>1. Chosen(s) \in s
  BY ChosenIn
<1> QED
  BY <1>1, FS_RemoveElement, FS_CardinalityType

\* The recursion of a sum over a finite set has a solution.
LEMMA SumExists ==
  ASSUME NEW S, IsFiniteSet(S), NEW f
  PROVE  \E it : AddsUp(it, f, S)
<1> DEFINE P == {n \in Nat : \E it : AddsUpTo(it, f, S, n)}
<1>1. 0 \in P
  <2> DEFINE it == [s \in UpTo(0, S) |-> 0]
  <2>1. \A s \in UpTo(0, S) : s = {}
    BY FS_Subset, FS_EmptySet, FS_CardinalityType DEF UpTo
  <2>2. AddsUpTo(it, f, S, 0)
    BY <2>1 DEF AddsUpTo
  <2> QED
    BY <2>2
<1>2. ASSUME NEW n \in Nat, n \in P PROVE n + 1 \in P
  <2>1. PICK h : AddsUpTo(h, f, S, n)
    BY <1>2
  <2> DEFINE it == [s \in UpTo(n + 1, S) |-> IF s = {} THEN 0 ELSE f[Chosen(s)] + h[s \ {Chosen(s)}]]
  <2>2. ASSUME NEW s \in UpTo(n + 1, S), s # {}
        PROVE  /\ s \ {Chosen(s)} \in UpTo(n, S) /\ s \ {Chosen(s)} \in UpTo(n + 1, S)
               /\ it[s \ {Chosen(s)}] = h[s \ {Chosen(s)}]
    <3>1. IsFiniteSet(s) /\ s \in SUBSET S
      BY FS_Subset DEF UpTo
    <3>2. /\ s \ {Chosen(s)} \in UpTo(n, S) /\ s \ {Chosen(s)} \in UpTo(n + 1, S)
      BY <2>2, <3>1, ChosenRemoved DEF UpTo
    <3>3. h[s \ {Chosen(s)}] = IF s \ {Chosen(s)} = {} THEN 0
            ELSE f[Chosen(s \ {Chosen(s)})] + h[(s \ {Chosen(s)}) \ {Chosen(s \ {Chosen(s)})}]
      <4> DEFINE u == s \ {Chosen(s)}
      <4> HIDE DEF u, it
      <4>1. u \in UpTo(n, S)
        BY <3>2 DEF u
      <4>2. h[u] = IF u = {} THEN 0 ELSE f[Chosen(u)] + h[u \ {Chosen(u)}]
        BY <2>1, <4>1 DEF AddsUpTo
      <4> QED
        BY <4>2 DEF u
    <3> QED
      BY <3>2, <3>3
  <2>3. AddsUpTo(it, f, S, n + 1)
    <3>1. it = [s \in UpTo(n + 1, S) |-> IF s = {} THEN 0 ELSE f[Chosen(s)] + it[s \ {Chosen(s)}]]
      BY <2>2
    <3> QED
      BY <3>1 DEF AddsUpTo
  <2> QED
    BY <2>3
<1>3. Cardinality(S) \in P
  <2> HIDE DEF P
  <2> QED
    BY <1>1, <1>2, Induction, FS_CardinalityType
<1>4. UpTo(Cardinality(S), S) = SUBSET S
  BY FS_Subset DEF UpTo
<1> QED
  BY <1>3, <1>4 DEF AddsUpTo, AddsUp

\* The sum that the community modules define is a solution of it.
LEMMA SumAddsUp ==
  ASSUME NEW S, IsFiniteSet(S), NEW f
  PROVE  \E it : AddsUp(it, f, S) /\ SumFunctionOnSet(f, S) = it[S]
<1> DEFINE it == CHOOSE g : AddsUp(g, f, S)
<1>1. AddsUp(it, f, S)
  BY SumExists
<1>2. SumFunctionOnSet(f, S) = it[S]
  BY DEF SumFunctionOnSet, FoldFunctionOnSet, MapThenFoldSet, AddsUp, Chosen
<1> QED
  BY <1>1, <1>2

\* Induction over the size of a subset of S: P is the set of the subsets that
\* have the property.
LEMMA SubsetInduction ==
  ASSUME NEW S, IsFiniteSet(S), NEW P,
         \A s \in SUBSET S : (\A t \in s : s \ {t} \in P) => s \in P
  PROVE  SUBSET S \subseteq P
<1> DEFINE Q == {n \in Nat : \A s \in SUBSET S : Cardinality(s) = n => s \in P}
<1>1. 0 \in Q
  BY FS_Subset, FS_EmptySet
<1>2. ASSUME NEW n \in Nat, n \in Q PROVE n + 1 \in Q
  <2> SUFFICES ASSUME NEW s \in SUBSET S, Cardinality(s) = n + 1 PROVE s \in P
    OBVIOUS
  <2>1. IsFiniteSet(s)
    BY FS_Subset
  <2>2. ASSUME NEW t \in s PROVE s \ {t} \in P
    <3>1. s \ {t} \in SUBSET S /\ Cardinality(s \ {t}) = (n + 1) - 1
      BY <2>1, FS_RemoveElement
    <3> QED
      BY <1>2, <3>1
  <2> QED
    BY <2>2
<1>3. \A n \in Nat : n \in Q
  <2> HIDE DEF Q
  <2> QED
    BY <1>1, <1>2, Induction
<1> QED
  BY <1>3, FS_Subset, FS_CardinalityType

\* One step of the recursion.
LEMMA SumUnfold ==
  ASSUME NEW S, NEW f, NEW it, AddsUp(it, f, S), NEW s \in SUBSET S
  PROVE  it[s] = IF s = {} THEN 0 ELSE f[Chosen(s)] + it[s \ {Chosen(s)}]
BY DEF AddsUp

\* Each of the sums is a natural.
LEMMA SumType ==
  ASSUME NEW S, IsFiniteSet(S), NEW f, \A x \in S : f[x] \in Nat, NEW it, AddsUp(it, f, S)
  PROVE  \A s \in SUBSET S : it[s] \in Nat
<1> DEFINE P == {s \in SUBSET S : it[s] \in Nat}
<1>1. ASSUME NEW s \in SUBSET S, \A t \in s : s \ {t} \in P PROVE s \in P
  <2>1. CASE s = {}
    <3>1. it[s] = 0
      BY <2>1, SumUnfold
    <3> QED
      BY <3>1
  <2>2. CASE s # {}
    <3>1. Chosen(s) \in s
      BY <2>2, ChosenIn
    <3>2. it[s] = f[Chosen(s)] + it[s \ {Chosen(s)}]
      BY <2>2, SumUnfold
    <3>3. it[s \ {Chosen(s)}] \in Nat /\ f[Chosen(s)] \in Nat
      BY <1>1, <3>1
    <3> QED
      BY <3>2, <3>3
  <2> QED
    BY <2>1, <2>2
<1>2. SUBSET S \subseteq P
  <2> HIDE DEF P
  <2> QED
    BY <1>1, SubsetInduction
<1> QED
  BY <1>2

\* Sums of functions that agree are the same, whatever sets they are taken in.
LEMMA SumAgree ==
  ASSUME NEW S, NEW U, IsFiniteSet(S), NEW f, NEW g, NEW it, NEW ig,
         AddsUp(it, f, S), AddsUp(ig, g, U),
         S \subseteq U, \A x \in S : f[x] = g[x]
  PROVE  it[S] = ig[S]
<1> DEFINE P == {s \in SUBSET S : it[s] = ig[s]}
<1>1. ASSUME NEW s \in SUBSET S, \A t \in s : s \ {t} \in P PROVE s \in P
  <2>1. CASE s = {}
    BY <2>1, SumUnfold
  <2>2. CASE s # {}
    <3>1. Chosen(s) \in s
      BY <2>2, ChosenIn
    <3>2. it[s] = f[Chosen(s)] + it[s \ {Chosen(s)}] /\ ig[s] = g[Chosen(s)] + ig[s \ {Chosen(s)}]
      BY <2>2, SumUnfold
    <3>3. it[s \ {Chosen(s)}] = ig[s \ {Chosen(s)}] /\ f[Chosen(s)] = g[Chosen(s)]
      BY <1>1, <3>1
    <3> QED
      BY <3>2, <3>3
  <2> QED
    BY <2>1, <2>2
<1>2. SUBSET S \subseteq P
  <2> HIDE DEF P
  <2> QED
    BY <1>1, SubsetInduction
<1> QED
  BY <1>2

\* Any element can be taken out of a sum first.
LEMMA SumRemove ==
  ASSUME NEW S, IsFiniteSet(S), NEW f, \A x \in S : f[x] \in Nat, NEW it, AddsUp(it, f, S),
         NEW u \in SUBSET S, NEW x \in u
  PROVE  it[u] = f[x] + it[u \ {x}]
<1> DEFINE P == {s \in SUBSET S : \A t \in s : it[s] = f[t] + it[s \ {t}]}
<1>1. ASSUME NEW s \in SUBSET S, \A t \in s : s \ {t} \in P PROVE s \in P
  <2> SUFFICES ASSUME NEW t \in s PROVE it[s] = f[t] + it[s \ {t}]
    OBVIOUS
  <2>1. PICK c \in s : it[s] = f[c] + it[s \ {c}]
    <3>1. Chosen(s) \in s /\ s # {}
      BY ChosenIn
    <3>2. it[s] = f[Chosen(s)] + it[s \ {Chosen(s)}]
      BY <3>1, SumUnfold
    <3> QED
      BY <3>1, <3>2
  <2>2. CASE t # c
    <3>1. t \in s \ {c} /\ c \in s \ {t}
      BY <2>2
    <3>2. it[s \ {c}] = f[t] + it[(s \ {c}) \ {t}] /\ it[s \ {t}] = f[c] + it[(s \ {t}) \ {c}]
      BY <1>1, <3>1
    <3>3. (s \ {t}) \ {c} = (s \ {c}) \ {t}
      OBVIOUS
    <3> DEFINE rest == it[(s \ {c}) \ {t}]
    <3>4. f[c] \in Nat /\ f[t] \in Nat /\ rest \in Nat
      BY SumType
    <3>5. it[s \ {c}] = f[t] + rest /\ it[s \ {t}] = f[c] + rest
      BY <3>2, <3>3
    <3> HIDE DEF P, rest
    <3>6. it[s] = f[c] + (f[t] + rest)
      BY <2>1, <3>5
    <3> QED
      BY <3>4, <3>5, <3>6
  <2> QED
    BY <2>1, <2>2
<1>2. SUBSET S \subseteq P
  <2> HIDE DEF P
  <2> QED
    BY <1>1, SubsetInduction
<1> QED
  BY <1>2

-----------------------------------------------------------------------------
\* A sum of naturals is a natural.
THEOREM SumOnSetType ==
  ASSUME NEW S, IsFiniteSet(S), NEW f, \A x \in S : f[x] \in Nat
  PROVE  SumFunctionOnSet(f, S) \in Nat
<1>1. PICK it : AddsUp(it, f, S) /\ SumFunctionOnSet(f, S) = it[S]
  BY SumAddsUp
<1> QED
  BY <1>1, SumType

\* The sum over no elements.
THEOREM SumOnSetEmpty == \A f : SumFunctionOnSet(f, {}) = 0
<1> TAKE f
<1>1. PICK it : AddsUp(it, f, {}) /\ SumFunctionOnSet(f, {}) = it[{}]
  BY SumAddsUp, FS_EmptySet
<1> QED
  BY <1>1, SumUnfold

\* The sum depends on the values at the elements only.
THEOREM SumOnSetAgree ==
  ASSUME NEW S, IsFiniteSet(S), NEW f, NEW g, \A x \in S : f[x] = g[x]
  PROVE  SumFunctionOnSet(f, S) = SumFunctionOnSet(g, S)
<1>1. PICK it : AddsUp(it, f, S) /\ SumFunctionOnSet(f, S) = it[S]
  BY SumAddsUp
<1>2. PICK ig : AddsUp(ig, g, S) /\ SumFunctionOnSet(g, S) = ig[S]
  BY SumAddsUp
<1> QED
  BY <1>1, <1>2, SumAgree

\* The sum over a set with one more element.
THEOREM SumOnSetAdd ==
  ASSUME NEW S, IsFiniteSet(S), NEW t, t \notin S, NEW f, \A x \in S \cup {t} : f[x] \in Nat
  PROVE  SumFunctionOnSet(f, S \cup {t}) = f[t] + SumFunctionOnSet(f, S)
<1> DEFINE U == S \cup {t}
<1>1. IsFiniteSet(U) /\ U \ {t} = S /\ t \in U /\ S \subseteq U /\ \A x \in U : f[x] \in Nat
  BY FS_AddElement
<1> HIDE DEF U
<1>2. PICK it : AddsUp(it, f, S) /\ SumFunctionOnSet(f, S) = it[S]
  BY SumAddsUp
<1>3. PICK iu : AddsUp(iu, f, U) /\ SumFunctionOnSet(f, U) = iu[U]
  BY <1>1, SumAddsUp
<1>4. it[S] = iu[S]
  BY <1>1, <1>2, <1>3, SumAgree
<1>5. U \in SUBSET U
  OBVIOUS
<1>7. iu[U] = f[t] + iu[U \ {t}]
  BY <1>1, <1>3, <1>5, SumRemove
<1>8. SumFunctionOnSet(f, U) = f[t] + SumFunctionOnSet(f, S)
  BY <1>1, <1>2, <1>3, <1>4, <1>7
<1> QED
  BY <1>8 DEF U

\* A change of one value changes the sum by as much.
THEOREM SumOnSetChange ==
  ASSUME NEW S, IsFiniteSet(S), NEW f, NEW g, NEW t \in S,
         \A x \in S : f[x] \in Nat /\ g[x] \in Nat,
         \A x \in S : x # t => f[x] = g[x]
  PROVE  SumFunctionOnSet(g, S) + f[t] = SumFunctionOnSet(f, S) + g[t]
<1> DEFINE R == S \ {t}
<1>1. IsFiniteSet(R) /\ t \notin R /\ S = R \cup {t} /\ \A x \in R : x \in S /\ x # t
  BY FS_RemoveElement
<1> HIDE DEF R
<1>2. SumFunctionOnSet(f, R) = SumFunctionOnSet(g, R) /\ SumFunctionOnSet(f, R) \in Nat
  BY <1>1, SumOnSetAgree, SumOnSetType
<1>3. SumFunctionOnSet(f, R \cup {t}) = f[t] + SumFunctionOnSet(f, R) /\ SumFunctionOnSet(g, R \cup {t}) = g[t] + SumFunctionOnSet(g, R)
  BY <1>1, SumOnSetAdd
<1> QED
  BY <1>1, <1>2, <1>3

\* The same of a function's whole domain
THEOREM SumFunctionType ==
  ASSUME NEW S, IsFiniteSet(S), NEW f \in [S -> Nat]
  PROVE  SumFunction(f) \in Nat
<1>1. DOMAIN f = S /\ \A x \in S : f[x] \in Nat
  OBVIOUS
<1>2. SumFunctionOnSet(f, S) \in Nat
  BY <1>1, SumOnSetType
<1> QED
  BY <1>1, <1>2 DEF SumFunction

\* The same change in a function.
THEOREM SumFunctionChange ==
  ASSUME NEW S, IsFiniteSet(S), NEW f \in [S -> Nat], NEW g \in [S -> Nat], NEW t \in S,
         \A x \in S : x # t => f[x] = g[x]
  PROVE  SumFunction(g) + f[t] = SumFunction(f) + g[t]
<1>1. DOMAIN f = S /\ DOMAIN g = S /\ \A x \in S : f[x] \in Nat /\ g[x] \in Nat
  OBVIOUS
<1>2. SumFunctionOnSet(g, S) + f[t] = SumFunctionOnSet(f, S) + g[t]
  BY <1>1, SumOnSetChange
<1> QED
  BY <1>1, <1>2 DEF SumFunction

\* A sequence that gets one more number: h is f with v at its end.
THEOREM SumFunctionAppend ==
  ASSUME NEW n \in Nat, NEW f \in [1..n -> Nat], NEW h \in [1..(n + 1) -> Nat],
         \A i \in 1..n : h[i] = f[i]
  PROVE  SumFunction(h) = SumFunction(f) + h[n + 1]
<1>1. IsFiniteSet(1..n) /\ n + 1 \notin 1..n /\ 1..(n + 1) = 1..n \cup {n + 1}
  <2>1. IsFiniteSet(1..n)
    BY FS_Interval
  <2>2. n + 1 \notin 1..n /\ 1..(n + 1) = 1..n \cup {n + 1}
    OBVIOUS
  <2> QED
    BY <2>1, <2>2
<1>2. \A x \in 1..n \cup {n + 1} : h[x] \in Nat
  BY <1>1
<1>3. SumFunctionOnSet(h, 1..n \cup {n + 1}) = h[n + 1] + SumFunctionOnSet(h, 1..n)
  BY <1>1, <1>2, SumOnSetAdd
<1>4. SumFunctionOnSet(h, 1..n) = SumFunctionOnSet(f, 1..n)
  BY <1>1, SumOnSetAgree
<1>5. SumFunctionOnSet(f, 1..n) \in Nat
  BY <1>1, SumOnSetType
<1>6. DOMAIN f = 1..n /\ DOMAIN h = 1..(n + 1) /\ h[n + 1] \in Nat
  BY <1>1
<1>7. SumFunction(h) = SumFunctionOnSet(h, 1..(n + 1)) /\ SumFunction(f) = SumFunctionOnSet(f, 1..n)
  BY <1>6 DEF SumFunction
<1>8. SumFunction(h) = h[n + 1] + SumFunction(f)
  BY <1>1, <1>3, <1>4, <1>7
<1> QED
  BY <1>5, <1>6, <1>7, <1>8

\* A sum of zeros.
THEOREM SumFunctionZero ==
  ASSUME NEW S, IsFiniteSet(S), NEW f \in [S -> Nat], \A x \in S : f[x] = 0
  PROVE  SumFunction(f) = 0
<1>1. PICK it : AddsUp(it, f, S) /\ SumFunctionOnSet(f, S) = it[S]
  BY SumAddsUp
<1> DEFINE P == {s \in SUBSET S : it[s] = 0}
<1>2. ASSUME NEW s \in SUBSET S, \A t \in s : s \ {t} \in P PROVE s \in P
  <2>1. CASE s = {}
    <3>1. it[s] = 0
      BY <1>1, <2>1, SumUnfold
    <3> QED
      BY <3>1
  <2>2. CASE s # {}
    <3>1. Chosen(s) \in s
      BY <2>2, ChosenIn
    <3>2. it[s] = f[Chosen(s)] + it[s \ {Chosen(s)}]
      BY <1>1, <2>2, SumUnfold
    <3>3. it[s \ {Chosen(s)}] = 0 /\ f[Chosen(s)] = 0
      BY <1>2, <3>1
    <3> QED
      BY <3>2, <3>3
  <2> QED
    BY <2>1, <2>2
<1>3. SUBSET S \subseteq P
  <2> HIDE DEF P
  <2> QED
    BY <1>2, SubsetInduction
<1>4. DOMAIN f = S
  OBVIOUS
<1> QED
  BY <1>1, <1>3, <1>4 DEF SumFunction

-----------------------------------------------------------------------------
\* Multiples of m are m apart.
LEMMA Multiples ==
  ASSUME NEW m \in Nat, NEW a \in Int, NEW b \in Int, a < b
  PROVE  a * m + m <= b * m
<1> DEFINE d == b - a - 1
<1>1. d \in Nat /\ b = a + 1 + d
  OBVIOUS
<1> HIDE DEF d
<1>2. d * m \in Nat /\ a * m \in Int
  BY <1>1
<1>3. b * m = a * m + m + d * m
  BY <1>1
<1> QED
  BY <1>2, <1>3

\* Quotient and remainder are the only ones.
LEMMA RemainderUnique ==
  ASSUME NEW m \in Nat \ {0}, NEW p \in Int, NEW q \in Int, NEW r \in 0..(m - 1), NEW s \in 0..(m - 1),
         p * m + r = q * m + s
  PROVE  r = s
<1>1. p * m \in Int /\ q * m \in Int
  OBVIOUS
<1>2. CASE p < q
  BY <1>1, <1>2, Multiples
<1>3. CASE q < p
  BY <1>1, <1>3, Multiples
<1>4. CASE p = q
  BY <1>1, <1>4
<1> QED
  BY <1>2, <1>3, <1>4

\* A sum that is reduced on the way is the same as one reduced at the end: what
\* a counter of fixed width holds.
LEMMA RemainderOfSum ==
  ASSUME NEW m \in Nat \ {0}, NEW a \in Nat, NEW b \in Nat
  PROVE  ((a % m) + b) % m = (a + b) % m
<1> DEFINE p == a \div m
           x == (a % m) + b
           q == x \div m
           u == (a + b) \div m
<1>1. a = p * m + (a % m) /\ p \in Int /\ a % m \in 0..(m - 1) /\ p * m \in Int
  OBVIOUS
<1>2. x \in Nat
  BY <1>1
<1>3. x = q * m + (x % m) /\ q \in Int /\ x % m \in 0..(m - 1) /\ q * m \in Int
  <2> HIDE DEF x
  <2> QED
    BY <1>2
<1>4. a + b = u * m + ((a + b) % m) /\ u \in Int /\ (a + b) % m \in 0..(m - 1) /\ u * m \in Int
  OBVIOUS
<1>5. a + b = p * m + x
  BY <1>1
<1> HIDE DEF p, q, u, x
<1>6. (p + q) * m = p * m + q * m
  BY <1>1, <1>3
<1>7. (p + q) * m + (x % m) = u * m + ((a + b) % m)
  BY <1>1, <1>2, <1>3, <1>4, <1>5, <1>6
<1>8. p + q \in Int /\ u \in Int /\ x % m \in 0..(m - 1) /\ (a + b) % m \in 0..(m - 1)
  BY <1>1, <1>3, <1>4
<1>9. x % m = (a + b) % m
  BY <1>7, <1>8, RemainderUnique
<1> QED
  BY <1>9 DEF x

-----------------------------------------------------------------------------
\* Each power of two is twice the one before: the subsets of k + 1 elements are
\* those of k of them, with and without the last.
LEMMA PowerOfTwo ==
  ASSUME NEW k \in Nat
  PROVE  2 ^ k \in Nat /\ 2 ^ (k + 1) = 2 * 2 ^ k
<1> DEFINE A == SUBSET (1..k)
           B == {s \cup {k + 1} : s \in A}
           C == SUBSET (1..(k + 1))
           f == [s \in A |-> s \cup {k + 1}]
<1>1. /\ IsFiniteSet(1..k) /\ Cardinality(1..k) = k
      /\ IsFiniteSet(1..(k + 1)) /\ Cardinality(1..(k + 1)) = k + 1
  BY FS_Interval
<1>2. /\ IsFiniteSet(A) /\ Cardinality(A) = 2 ^ k
      /\ Cardinality(C) = 2 ^ (k + 1)
  BY <1>1, FS_SUBSET
<1>3. A \cup B = C /\ A \cap B = {}
  <2>1. k + 1 \notin 1..k /\ 1..(k + 1) = 1..k \cup {k + 1}
    OBVIOUS
  <2>2. ASSUME NEW s \in C PROVE s \in A \cup B
    <3>1. s \ {k + 1} \in A
      BY <2>1
    <3>2. CASE k + 1 \in s
      <4>1. s = (s \ {k + 1}) \cup {k + 1}
        BY <3>2
      <4> QED
        BY <3>1, <4>1
    <3> QED
      BY <2>1, <3>2
  <2>3. A \cup B \subseteq C
    BY <2>1
  <2>4. A \cap B = {}
    BY <2>1
  <2> QED
    BY <2>2, <2>3, <2>4
<1>4. IsFiniteSet(B) /\ Cardinality(B) = Cardinality(A)
  <2>1. ASSUME NEW r \in A, NEW s \in A, r \cup {k + 1} = s \cup {k + 1} PROVE r = s
    <3>1. k + 1 \notin r /\ k + 1 \notin s
      OBVIOUS
    <3> QED
      BY <2>1, <3>1
  <2>2. f \in [A -> B] /\ \A r, s \in A : f[r] = f[s] => r = s
    <3>1. \A s \in A : f[s] = s \cup {k + 1} /\ s \cup {k + 1} \in B
      OBVIOUS
    <3>2. f = [s \in A |-> f[s]]
      OBVIOUS
    <3>3. ASSUME NEW r \in A, NEW s \in A, f[r] = f[s] PROVE r = s
      <4>1. r \cup {k + 1} = s \cup {k + 1}
        BY <3>1, <3>3
      <4> QED
        BY <2>1, <4>1
    <3> HIDE DEF A, B, f
    <3>4. \A s \in A : f[s] \in B
      BY <3>1
    <3>5. f \in [A -> B]
      BY <3>2, <3>4
    <3> QED
      BY <3>3, <3>5
  <2>3. \A t \in B : \E s \in A : f[s] = t
    OBVIOUS
  <2>4. f \in Bijection(A, B)
    <3> HIDE DEF A, B, f
    <3> QED
      BY <2>2, <2>3 DEF Bijection, Injection, Surjection, IsInjective
  <2>5. ExistsBijection(A, B)
    BY <2>4 DEF ExistsBijection
  <2> QED
    BY <1>2, <2>5, FS_Bijection
<1>5. Cardinality(A \cup B) = Cardinality(A) + Cardinality(B) - Cardinality(A \cap B)
  BY <1>2, <1>4, FS_Union
<1>6. Cardinality({}) = 0 /\ Cardinality(A) \in Nat
  BY <1>2, FS_EmptySet, FS_CardinalityType
<1> HIDE DEF A, B, C, f
<1>7. Cardinality(C) = 2 * Cardinality(A)
  <2>1. Cardinality(A \cup B) = Cardinality(C) /\ Cardinality(A \cap B) = Cardinality({})
    BY <1>3
  <2>2. Cardinality(C) = Cardinality(A) + Cardinality(A) - 0
    BY <1>4, <1>5, <1>6, <2>1, Zenon
  <2> QED
    BY <1>6, <2>2
<1> QED
  BY <1>2, <1>6, <1>7, Zenon

\* Halving twice is dividing by the product.
LEMMA HalfOfQuotient ==
  ASSUME NEW a \in Nat, NEW m \in Nat \ {0}
  PROVE  a \div (2 * m) = (a \div m) \div 2
<1> DEFINE q == a \div m
           r == a % m
           Q == q \div 2
           s == q % 2
           R == s * m + r
<1>1. a = q * m + r /\ q \in Nat /\ r \in 0..(m - 1)
  OBVIOUS
<1>2. q = 2 * Q + s /\ Q \in Nat /\ s \in 0..1
  <2> HIDE DEF q
  <2> QED
    BY <1>1
<1> HIDE DEF q, r, Q, s, R
<1>3. s * m \in 0..m /\ R \in 0..(2 * m - 1) /\ R = s * m + r
  <2>1. s = 0 \/ s = 1
    BY <1>2
  <2> QED
    BY <1>1, <2>1 DEF R
<1>4. a = (2 * m) * Q + R
  BY <1>1, <1>2, <1>3
<1>5. a \div (2 * m) = Q
  BY <1>2, <1>3, <1>4
<1> QED
  BY <1>5 DEF Q, q

\* A power of two is larger than its exponent.
LEMMA PowerAbove ==
  ASSUME NEW k \in Nat
  PROVE  2 ^ k > k
<1> DEFINE P == {n \in Nat : 2 ^ n > n}
<1>1. 0 \in P
  OBVIOUS
<1>2. ASSUME NEW n \in Nat, n \in P PROVE n + 1 \in P
  BY <1>2, PowerOfTwo
<1> HIDE DEF P
<1>3. k \in P
  BY <1>1, <1>2, Induction
<1> QED
  BY <1>3 DEF P

\* A power of two is the product of two of them.
LEMMA PowerSplit ==
  ASSUME NEW d \in Nat, NEW k \in 0..d
  PROVE  2 ^ d = 2 ^ (d - k) * 2 ^ k
<1> DEFINE P == {m \in Nat : m <= d => 2 ^ d = 2 ^ (d - m) * 2 ^ m}
<1>1. 0 \in P
  BY PowerOfTwo
<1>2. ASSUME NEW m \in Nat, m \in P PROVE m + 1 \in P
  <2> SUFFICES ASSUME m + 1 <= d PROVE 2 ^ d = 2 ^ (d - (m + 1)) * 2 ^ (m + 1)
    OBVIOUS
  <2> DEFINE e == d - (m + 1)
  <2>1. e \in Nat /\ d - m = e + 1
    OBVIOUS
  <2> HIDE DEF e
  <2>2. 2 ^ (d - m) = 2 * 2 ^ e /\ 2 ^ (m + 1) = 2 * 2 ^ m /\ 2 ^ e \in Nat /\ 2 ^ m \in Nat
    BY <2>1, PowerOfTwo
  <2>3. 2 ^ d = 2 ^ (d - m) * 2 ^ m
    BY <1>2
  <2>4. (2 * 2 ^ e) * 2 ^ m = 2 ^ e * (2 * 2 ^ m)
    BY <2>2
  <2> QED
    BY <2>2, <2>3, <2>4 DEF e
<1> HIDE DEF P
<1>3. \A m \in Nat : m \in P
  BY <1>1, <1>2, Induction
<1> QED
  BY <1>3 DEF P

\* What is less than s * p is split into fewer than s parts of p.
LEMMA QuotientBelow ==
  ASSUME NEW s \in Nat, NEW p \in Nat \ {0}, NEW a \in 0..(s * p - 1)
  PROVE  a \div p \in 0..(s - 1)
<1> DEFINE q == a \div p
           r == a % p
<1>1. s * p \in Nat /\ a \in Nat
  OBVIOUS
<1>2. q \in Nat /\ r \in 0..(p - 1) /\ a = q * p + r /\ q * p \in Nat
  BY <1>1
<1> HIDE DEF q, r
<1>3. CASE s <= q
  <2>1. s * p <= q * p
    <3>1. CASE s < q
      BY <1>1, <1>2, <3>1, Multiples
    <3> QED
      BY <1>1, <1>2, <1>3, <3>1
  <2> QED
    BY <1>1, <1>2, <2>1
<1> QED
  BY <1>2, <1>3 DEF q

\* A multiple of p is divided by p without rest.
LEMMA ExactQuotient ==
  ASSUME NEW s \in Nat, NEW p \in Nat \ {0}
  PROVE  (s * p) \div p = s
<1>1. s * p \in Nat /\ s * p = p * s + 0
  OBVIOUS
<1> QED
  BY <1>1

=============================================================================
