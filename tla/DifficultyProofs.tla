--------------------------- MODULE DifficultyProofs ---------------------------
(***************************************************************************)
(* For any interval, block time, initial difficulty and gaps between       *)
(* blocks, on a branch of any length: a retarget is bounded, has the right *)
(* sign and is the same in both implementations, and blocks exactly on     *)
(* time raise the difficulty.                                              *)
(***************************************************************************)
EXTENDS Difficulty, Sums, TLAPS

Header == [time : Nat, difficulty : Nat \ {0}]

\* The difficulty of a header is what the rule gives for the headers before it.
FollowsRule(h) ==
  HeaderAt(h).difficulty \in
    IF ShouldAdjust(h)
    THEN CalculateNewDifficulty(HeaderAt(h - 1).difficulty,
                                HeaderAt(WindowStart(h)).time, HeaderAt(h - 1).time)
    ELSE {HeaderAt(h - 1).difficulty}

IInv ==
  /\ chain \in Seq(Header) /\ Len(chain) > 0
  /\ \A h \in 1..HeadHeight : FollowsRule(h)

-----------------------------------------------------------------------------
(***************************************************************************)
(* The rule for one window.                                                *)
(***************************************************************************)

\* Quotients and remainders.
LEMMA Division ==
  ASSUME NEW a \in Nat, NEW b \in Nat \ {0}
  PROVE  /\ a \div b \in Nat /\ a % b \in 0..(b - 1)
         /\ a = (a \div b) * b + (a % b)
  OBVIOUS

\* What a quotient lies between.
LEMMA QuotientAtLeast ==
  ASSUME NEW a \in Nat, NEW b \in Nat \ {0}, NEW x \in Int, x * b <= a
  PROVE  x <= a \div b
<1> DEFINE q == a \div b
           r == a % b
<1>1. q \in Nat /\ r \in 0..(b - 1) /\ a = q * b + r
  BY Division
<1> HIDE DEF q, r
<1>2. CASE q < x
  <2>1. q * b + b <= x * b
    BY <1>1, <1>2, Multiples
  <2>2. q * b \in Int /\ x * b \in Int
    BY <1>1
  <2> QED
    BY <1>1, <2>1, <2>2
<1>3. x <= q
  BY <1>1, <1>2
<1> QED
  BY <1>3 DEF q

\* A bound on the dividend is a bound on the quotient.
LEMMA QuotientAtMost ==
  ASSUME NEW a \in Nat, NEW b \in Nat \ {0}, NEW x \in Int, a <= x * b
  PROVE  a \div b <= x
<1> DEFINE q == a \div b
           r == a % b
<1>1. q \in Nat /\ r \in 0..(b - 1) /\ a = q * b + r
  BY Division
<1> HIDE DEF q, r
<1>2. CASE x < q
  <2>1. x * b + b <= q * b
    BY <1>1, <1>2, Multiples
  <2>2. q * b \in Int /\ x * b \in Int
    BY <1>1
  <2> QED
    BY <1>1, <2>1, <2>2
<1>3. q <= x
  BY <1>1, <1>2
<1> QED
  BY <1>3 DEF q

\* A quotient without remainder above x is x + 1 at least.
LEMMA QuotientAbove ==
  ASSUME NEW a \in Nat, NEW b \in Nat \ {0}, NEW x \in Int, x * b < a, a % b = 0
  PROVE  x + 1 <= a \div b
<1> DEFINE q == a \div b
<1>1. q \in Nat /\ a = q * b
  BY Division
<1> HIDE DEF q
<1>2. CASE q <= x
  <2>1. q = x \/ q * b + b <= x * b
    BY <1>1, <1>2, Multiples
  <2>2. q * b \in Int /\ x * b \in Int
    BY <1>1
  <2> QED
    BY <1>1, <2>1, <2>2
<1>3. x + 1 <= q
  BY <1>1, <1>2
<1> QED
  BY <1>3 DEF q

\* A ratio of 1 is exact.
LEMMA OneIsExact ==
  ASSUME NEW n \in Nat \ {0}
  PROVE  Exact(n, n)
<1>1. 0 \in 0..20 /\ 2^0 \in Int
  OBVIOUS
<1>2. ASSUME NEW x \in Int PROVE (n * x) % n = 0
  OBVIOUS
<1>3. (n * 2^0) % n = 0
  BY <1>1, <1>2
<1> QED
  BY <1>1, <1>3 DEF Exact

\* cur * num / den, when the ratio is between a quarter and four.
LEMMA ScaledBounded ==
  ASSUME NEW cur \in Nat \ {0}, NEW num \in Nat \ {0}, NEW den \in Nat \ {0},
         num < MaxFactor * den, den < MaxFactor * num,
         NEW d \in Scaled(cur, num, den)
  PROVE  /\ d \in Nat /\ d <= MaxFactor * cur /\ d >= cur \div MaxFactor
         /\ num < den => d <= cur
         /\ num >= den => d >= cur
<1> DEFINE a == cur * num
           q == a \div den
           low == cur \div MaxFactor
<1>1. a \in Nat /\ q \in Nat /\ low \in Nat /\ low * 4 <= cur /\ MaxFactor = 4
  <2>1. a \in Nat /\ MaxFactor = 4
    BY DEF MaxFactor
  <2> HIDE DEF a
  <2>2. q \in Nat
    BY <2>1, Division
  <2>3. low \in Nat /\ low * 4 <= cur
    BY <2>1
  <2> QED
    BY <2>1, <2>2, <2>3
<1>2. \/ d = q
      \/ d = q - 1 /\ q > 0 /\ a % den = 0 /\ ~Exact(num, den)
  BY DEF Scaled
<1>3. d \in Nat /\ d <= q
  BY <1>1, <1>2
<1>4. q <= 4 * cur
  <2>1. cur * num <= cur * (4 * den)
    BY <1>1
  <2>2. a <= (4 * cur) * den
    BY <2>1
  <2> DEFINE most == 4 * cur
  <2>3. most \in Int /\ a <= most * den /\ a \in Nat
    BY <1>1, <2>2
  <2> HIDE DEF a, most
  <2>4. a \div den <= most
    BY <2>3, QuotientAtMost
  <2> QED
    BY <2>4 DEF most
<1>5. num < den => q <= cur
  <2> SUFFICES ASSUME num < den PROVE q <= cur
    OBVIOUS
  <2>1. a <= cur * den /\ a \in Nat
    BY <1>1
  <2> HIDE DEF a
  <2> QED
    BY <2>1, QuotientAtMost
<1>6. low * den < a
  <2>1. cur * den < cur * (4 * num)
    BY <1>1
  <2>2. (low * 4) * den <= cur * den
    BY <1>1
  <2>3. 4 * (low * den) = (low * 4) * den /\ cur * (4 * num) = 4 * a
    BY <1>1
  <2>4. low * den \in Nat /\ cur * den \in Nat
    BY <1>1
  <2> HIDE DEF a, low
  <2> QED
    BY <1>1, <2>1, <2>2, <2>3, <2>4
<1>7. d >= low
  <2>1. CASE d = q
    <3>1. low * den <= a
      BY <1>1, <1>6
    <3> HIDE DEF a, low
    <3> QED
      BY <1>1, <2>1, <3>1, QuotientAtLeast
  <2>2. CASE d = q - 1 /\ a % den = 0
    <3>1. low + 1 <= q
      <4> HIDE DEF a, low
      <4>1. low \in Int /\ low * den < a /\ a \in Nat /\ a % den = 0
        BY <1>1, <1>6, <2>2
      <4> QED
        BY <4>1, QuotientAbove
    <3> QED
      BY <1>1, <2>2, <3>1
  <2> QED
    BY <1>2, <2>1, <2>2
<1>8. num >= den => d >= cur
  <2> SUFFICES ASSUME num >= den PROVE d >= cur
    OBVIOUS
  <2>1. CASE d = q
    <3>1. cur * den <= a
      OBVIOUS
    <3> QED
      BY <1>1, <2>1, <3>1, QuotientAtLeast
  <2>2. CASE d = q - 1 /\ a % den = 0 /\ ~Exact(num, den)
    <3>1. den < num
      BY <2>2, OneIsExact
    <3>2. cur * den < a
      BY <3>1
    <3>3. cur + 1 <= q
      <4> HIDE DEF a
      <4>1. cur \in Int /\ cur * den < a /\ a \in Nat /\ a % den = 0
        BY <1>1, <2>2, <3>2
      <4> QED
        BY <4>1, QuotientAbove
    <3> QED
      BY <1>1, <2>2, <3>3
  <2> QED
    BY <1>2, <2>1, <2>2
<1> HIDE DEF q, low
<1>9. d <= 4 * cur /\ (num < den => d <= cur)
  BY <1>1, <1>3, <1>4, <1>5
<1> QED
  BY <1>1, <1>3, <1>7, <1>8, <1>9 DEF low

\* Whatever the time a window took, its result is within a factor of four,
\* positive, and on the right side of the difficulty before.
LEMMA AdjustedBounded ==
  ASSUME NEW cur \in Nat \ {0}, NEW actual \in Nat, NEW d \in Adjusted(cur, actual)
  PROVE  /\ d \in Nat \ {0} /\ d <= MaxFactor * cur /\ d >= cur \div MaxFactor
         /\ actual > ExpectedTime => d <= cur
         /\ actual <= ExpectedTime => d >= cur
<1> DEFINE E == ExpectedTime
<1>1. E \in Nat \ {0} /\ MaxFactor = 4 /\ MinDifficulty = 1
  BY DifficultyAssumption DEF ExpectedTime, MaxFactor, MinDifficulty
<1> HIDE DEF E
<1>2. PICK x \in CASE E >= MaxFactor * actual -> {cur * MaxFactor}
                   [] MaxFactor * E <= actual -> {cur \div MaxFactor}
                   [] OTHER -> Scaled(cur, E, actual) : d = AtLeast(1, x)
  BY <1>1 DEF Adjusted, E
<1>3. cur \div 4 \in Nat /\ (cur \div 4) * 4 <= cur
  BY Division
<1>4. ASSUME x \in Int, x <= 4 * cur, x >= cur \div 4, actual > E => x <= cur, actual <= E => x >= cur
      PROVE  /\ d \in Nat \ {0} /\ d <= MaxFactor * cur /\ d >= cur \div MaxFactor
             /\ actual > E => d <= cur
             /\ actual <= E => d >= cur
  BY <1>1, <1>2, <1>3, <1>4 DEF AtLeast
<1>5. CASE E >= 4 * actual
  <2>1. x = cur * 4
    BY <1>1, <1>2, <1>5
  <2> QED
    BY <1>1, <1>3, <1>4, <1>5, <2>1 DEF E
<1>6. CASE ~(E >= 4 * actual) /\ 4 * E <= actual
  <2>1. x = cur \div 4
    BY <1>1, <1>2, <1>6
  <2> QED
    BY <1>1, <1>3, <1>4, <1>6, <2>1 DEF E
<1>7. CASE ~(E >= 4 * actual) /\ ~(4 * E <= actual)
  <2>1. x \in Scaled(cur, E, actual)
    BY <1>1, <1>2, <1>7
  <2>2. actual \in Nat \ {0} /\ E < MaxFactor * actual /\ actual < MaxFactor * E
    BY <1>1, <1>7
  <2>3. /\ x \in Nat /\ x <= MaxFactor * cur /\ x >= cur \div MaxFactor
        /\ E < actual => x <= cur
        /\ E >= actual => x >= cur
    BY <1>1, <2>1, <2>2, ScaledBounded
  <2>4. x \in Int /\ x <= 4 * cur /\ x >= cur \div 4 /\ (actual > E => x <= cur) /\ (actual <= E => x >= cur)
    BY <1>1, <2>3
  <2> QED
    BY <1>4, <2>4 DEF E
<1> QED
  BY <1>5, <1>6, <1>7

-----------------------------------------------------------------------------
(***************************************************************************)
(* The branch.                                                             *)
(***************************************************************************)

\* The heights on a branch.
LEMMA Heights ==
  ASSUME chain \in Seq(Header), Len(chain) > 0
  PROVE  /\ HeadHeight \in Nat
         /\ \A h \in 0..HeadHeight : HeaderAt(h) \in Header
         /\ \A h \in 1..(HeadHeight + 1) :
              WindowStart(h) \in 0..HeadHeight /\ h - 1 \in 0..HeadHeight
<1>1. HeadHeight \in Nat /\ Len(chain) = HeadHeight + 1
  BY DEF HeadHeight
<1>2. \A h \in 0..HeadHeight : HeaderAt(h) \in Header
  BY <1>1 DEF HeaderAt
<1>3. \A h \in 1..(HeadHeight + 1) : WindowStart(h) \in 0..HeadHeight /\ h - 1 \in 0..HeadHeight
  BY <1>1, DifficultyAssumption DEF WindowStart, AtLeast
<1> QED
  BY <1>1, <1>2, <1>3

\* The rule gives positive numbers.
LEMMA RuleBounded ==
  ASSUME IInv, NEW h \in 1..HeadHeight
  PROVE  LET before == HeaderAt(h - 1).difficulty
             after  == HeaderAt(h).difficulty
         IN  /\ before \in Nat \ {0} /\ after \in Nat \ {0}
             /\ HeaderAt(h - 1).time \in Nat /\ HeaderAt(WindowStart(h)).time \in Nat
             /\ ~ShouldAdjust(h) => after = before
             /\ ShouldAdjust(h) => after \in Adjusted(before, AtLeast(0, Span(h)))
<1>1. /\ HeaderAt(h) \in Header /\ HeaderAt(h - 1) \in Header /\ HeaderAt(WindowStart(h)) \in Header
  BY Heights DEF IInv
<1>2. FollowsRule(h)
  BY DEF IInv
<1> QED
  BY <1>1, <1>2 DEF FollowsRule, CalculateNewDifficulty, Span, Header

\* What the rule gives for the block after the head is positive.
LEMMA NextPositive ==
  ASSUME IInv, NEW d \in NextDifficulty
  PROVE  d \in Nat \ {0}
<1> DEFINE next == HeadHeight + 1
           cur == HeaderAt(HeadHeight).difficulty
           first == HeaderAt(WindowStart(next)).time
           last == HeaderAt(HeadHeight).time
<1>1. /\ HeadHeight \in Nat /\ next \in 1..(HeadHeight + 1) /\ HeadHeight \in 0..HeadHeight
      /\ WindowStart(next) \in 0..HeadHeight
  BY Heights DEF IInv
<1>2. cur \in Nat \ {0} /\ first \in Nat /\ last \in Nat
  <2>1. HeaderAt(HeadHeight) \in Header /\ HeaderAt(WindowStart(next)) \in Header
    BY <1>1, Heights DEF IInv
  <2> QED
    BY <2>1 DEF Header
<1>3. AtLeast(0, last - first) \in Nat
  BY <1>2 DEF AtLeast
<1>4. d = cur \/ d \in Adjusted(cur, AtLeast(0, last - first))
  BY DEF NextDifficulty, CalculateNewDifficulty
<1> HIDE DEF cur, first, last
<1> QED
  BY <1>2, <1>3, <1>4, AdjustedBounded

\* A branch is a sequence of headers that follow the rule, at all times.
THEOREM IInvHolds == Spec => []IInv
<1>1. Init => IInv
  <2> SUFFICES ASSUME Init PROVE IInv
    OBVIOUS
  <2>1. [time |-> 0, difficulty |-> InitialDifficulty] \in Header
    BY DifficultyAssumption DEF Header
  <2>2. chain \in Seq(Header) /\ Len(chain) = 1
    BY <2>1 DEF Init
  <2> QED
    BY <2>2 DEF IInv, HeadHeight
<1>2. ASSUME IInv, NEW gap \in Gaps, MineBlock(gap) PROVE IInv'
  <2>1. PICK d \in NextDifficulty :
          chain' = Append(chain, [time |-> HeaderAt(HeadHeight).time + gap, difficulty |-> d])
    BY <1>2 DEF MineBlock
  <2> DEFINE header == [time |-> HeaderAt(HeadHeight).time + gap, difficulty |-> d]
  <2> SUFFICES ASSUME NEW n \in Nat, HeadHeight = n PROVE IInv'
    BY <1>2, Heights DEF IInv
  <2>2. /\ n \in 0..n /\ n + 1 \in 1..(n + 1)
        /\ \A h \in 1..(n + 1) : WindowStart(h) \in 0..n /\ h - 1 \in 0..n
        /\ HeaderAt(n) \in Header
    BY <1>2, Heights DEF IInv
  <2>3. header \in Header
    BY <1>2, <2>2, NextPositive, DifficultyAssumption DEF Header
  <2>4. chain \in Seq(Header) /\ Len(chain) = n + 1
    BY <1>2 DEF IInv, HeadHeight
  <2>5. /\ chain' \in Seq(Header) /\ Len(chain') = n + 2 /\ HeadHeight' = n + 1
        /\ HeaderAt(n + 1)' = header
        /\ \A h \in 0..n : HeaderAt(h)' = HeaderAt(h)
    <3> HIDE DEF header
    <3>1. chain' = Append(chain, header)
      BY <2>1 DEF header
    <3>2. chain' \in Seq(Header) /\ Len(chain') = n + 2 /\ HeadHeight' = n + 1
      BY <2>3, <2>4, <3>1 DEF HeadHeight
    <3>3. chain'[(n + 1) + 1] = header /\ \A i \in 1..(n + 1) : chain'[i] = chain[i]
      BY <2>3, <2>4, <3>1
    <3>4. \A h \in 0..n : h + 1 \in 1..(n + 1)
      OBVIOUS
    <3> QED
      BY <3>2, <3>3, <3>4 DEF HeaderAt
  <2>6. ASSUME NEW h \in 1..n PROVE FollowsRule(h)'
    <3>1. FollowsRule(h) /\ h \in 0..n /\ h \in 1..(n + 1)
      BY <1>2, <2>2 DEF IInv
    <3>2. /\ HeaderAt(h)' = HeaderAt(h) /\ HeaderAt(h - 1)' = HeaderAt(h - 1)
          /\ HeaderAt(WindowStart(h))' = HeaderAt(WindowStart(h))
      BY <2>2, <2>5, <3>1
    <3> QED
      BY <3>1, <3>2 DEF FollowsRule
  <2>7. FollowsRule(n + 1)'
    <3>1. (n + 1) - 1 = n
      OBVIOUS
    <3>2. /\ HeaderAt(n + 1)'.difficulty = d /\ HeaderAt(n)' = HeaderAt(n)
          /\ HeaderAt(WindowStart(n + 1))' = HeaderAt(WindowStart(n + 1))
      BY <2>2, <2>5
    <3>3. d \in IF ShouldAdjust(n + 1)
                THEN CalculateNewDifficulty(HeaderAt(n).difficulty,
                       HeaderAt(WindowStart(n + 1)).time, HeaderAt(n).time)
                ELSE {HeaderAt(n).difficulty}
      BY <2>1 DEF NextDifficulty
    <3> QED
      BY <3>1, <3>2, <3>3 DEF FollowsRule
  <2>8. \A h \in 1..(n + 1) : h \in 1..n \/ h = n + 1
    OBVIOUS
  <2>9. ASSUME NEW h \in 1..(n + 1) PROVE FollowsRule(h)'
    BY <2>6, <2>7, <2>8
  <2> QED
    BY <2>5, <2>9 DEF IInv
<1>3. IInv /\ [Next]_chain => IInv'
  BY <1>2 DEF Next, IInv, HeadHeight, FollowsRule, HeaderAt
<1> QED
  BY <1>1, <1>3, PTL DEF Spec

-----------------------------------------------------------------------------

\* A retarget changes the difficulty at most four-fold either way, and never to
\* zero, for any interval and however long the window took.
THEOREM AdjustmentBoundedCorrect == Spec => []AdjustmentBounded
<1>1. IInv => AdjustmentBounded
  <2> SUFFICES ASSUME IInv, NEW h \in 1..HeadHeight
               PROVE  LET before == HeaderAt(h - 1).difficulty
                          after  == HeaderAt(h).difficulty
                      IN  /\ after >= MinDifficulty
                          /\ ~ShouldAdjust(h) => after = before
                          /\ after <= MaxFactor * before
                          /\ after >= before \div MaxFactor
    BY DEF AdjustmentBounded
  <2> DEFINE before == HeaderAt(h - 1).difficulty
             after == HeaderAt(h).difficulty
             actual == AtLeast(0, Span(h))
  <2>1. /\ before \in Nat \ {0} /\ after \in Nat \ {0} /\ actual \in Nat
        /\ ~ShouldAdjust(h) => after = before
        /\ ShouldAdjust(h) => after \in Adjusted(before, actual)
    BY RuleBounded DEF AtLeast, Span
  <2> HIDE DEF before, after, actual
  <2>2. CASE ShouldAdjust(h)
    <3>1. after <= MaxFactor * before /\ after >= before \div MaxFactor
      BY <2>1, <2>2, AdjustedBounded
    <3> QED
      BY <2>1, <2>2, <3>1 DEF before, after, MinDifficulty
  <2>3. CASE ~ShouldAdjust(h)
    <3>1. after = before /\ after >= 1
      BY <2>1, <2>3
    <3>2. before <= 4 * before /\ before >= before \div 4
      BY <2>1
    <3> QED
      BY <3>1, <3>2 DEF before, after, MinDifficulty, MaxFactor
  <2> QED
    BY <2>2, <2>3
<1> QED
  BY <1>1, IInvHolds, PTL

\* A slow window never raises the difficulty, and one in time never lowers it,
\* whatever the rounding does.
THEOREM FeedbackSignCorrect == Spec => []FeedbackSign
<1>1. IInv => FeedbackSign
  <2> SUFFICES ASSUME IInv, NEW h \in 1..HeadHeight, ShouldAdjust(h)
               PROVE  LET before == HeaderAt(h - 1).difficulty
                          after  == HeaderAt(h).difficulty
                      IN  /\ Span(h) > ExpectedTime => after <= before
                          /\ Span(h) <= ExpectedTime => after >= before
    BY DEF FeedbackSign
  <2> DEFINE before == HeaderAt(h - 1).difficulty
             after == HeaderAt(h).difficulty
             actual == AtLeast(0, Span(h))
  <2>1. /\ before \in Nat \ {0} /\ after \in Adjusted(before, actual) /\ actual \in Nat
    BY RuleBounded DEF AtLeast, Span
  <2>2. ExpectedTime \in Nat /\ Span(h) \in Int
    BY RuleBounded, DifficultyAssumption DEF ExpectedTime, Span
  <2>3. /\ Span(h) > ExpectedTime => actual > ExpectedTime
        /\ Span(h) <= ExpectedTime => actual <= ExpectedTime
    BY <2>2 DEF AtLeast
  <2> HIDE DEF before, after, actual
  <2>4. /\ actual > ExpectedTime => after <= before
        /\ actual <= ExpectedTime => after >= before
    BY <2>1, AdjustedBounded
  <2> QED
    BY <2>3, <2>4 DEF before, after
<1> QED
  BY <1>1, IInvHolds, PTL

\* The rule over the height index and the rule over a slice of headers agree
\* whenever the slice reaches back one interval.
THEOREM SameRuleCorrect == Spec => []SameRule
<1>1. IInv => SameRule
  <2> SUFFICES ASSUME IInv, NEW n \in 1..(HeadHeight + 1), n >= Interval
               PROVE  NextDifficultyOf(n) = NextDifficulty
    BY DEF SameRule
  <2> DEFINE first == HeadHeight - n + 1
             next == HeadHeight + 1
  <2>1. HeadHeight \in Nat /\ Interval \in Nat \ {0}
    BY Heights, DifficultyAssumption DEF IInv
  <2>2. ShouldAdjust(next) => next >= Interval
    BY <2>1 DEF ShouldAdjust
  <2>3. ShouldAdjust(next) => first <= WindowStart(next)
    BY <2>1, <2>2 DEF WindowStart, AtLeast
  <2> QED
    BY <2>3 DEF NextDifficultyOf, NextDifficulty
<1> QED
  BY <1>1, IInvHolds, PTL

\* A ratio of times is the ratio of the numbers of blocks they are for.
LEMMA ScaledCancels ==
  ASSUME NEW cur \in Nat \ {0}, NEW num \in Nat \ {0}, NEW den \in Nat \ {0}, NEW t \in Nat \ {0}
  PROVE  Scaled(cur, num * t, den * t) = Scaled(cur, num, den)
<1>1. ASSUME NEW a \in Int, NEW b \in Nat \ {0}
      PROVE  /\ b * t \in Nat \ {0}
             /\ (a * t) \div (b * t) = a \div b
             /\ (a * t) % (b * t) = 0 <=> a % b = 0
  <2> DEFINE q == a \div b
             r == a % b
             u == (a * t) \div (b * t)
             v == (a * t) % (b * t)
  <2>1. b * t \in Nat \ {0} /\ a * t \in Int
    OBVIOUS
  <2>2. q \in Int /\ r \in 0..(b - 1) /\ a = q * b + r
    OBVIOUS
  <2>3. u \in Int /\ v \in 0..(b * t - 1) /\ a * t = u * (b * t) + v
    <3> DEFINE x == a * t
               y == b * t
    <3>1. x \in Int /\ y \in Nat \ {0}
      BY <2>1
    <3> HIDE DEF x, y
    <3>2. x \div y \in Int /\ x % y \in 0..(y - 1) /\ x = (x \div y) * y + (x % y)
      BY <3>1
    <3> QED
      BY <3>2 DEF x, y
  <2> HIDE DEF q, r, u, v
  <2>4. r * t \in 0..(b * t - 1) /\ a * t = q * (b * t) + r * t /\ (r * t = 0 <=> r = 0)
    <3>1. r < b /\ r \in Nat /\ r * t \in Nat /\ b * t \in Nat
      BY <2>2
    <3>2. r * t + t <= b * t
      BY <3>1, Multiples
    <3>3. a * t = (q * b) * t + r * t /\ (q * b) * t = q * (b * t)
      BY <2>2
    <3> QED
      BY <2>2, <3>1, <3>2, <3>3
  <2>5. v = r * t
    BY <2>1, <2>2, <2>3, <2>4, RemainderUnique
  <2>6. u = q
    <3> DEFINE y == b * t
    <3>1. y \in Nat \ {0} /\ u * y = q * y
      BY <2>1, <2>2, <2>3, <2>4, <2>5
    <3> HIDE DEF y
    <3>2. u * y \in Int /\ q * y \in Int
      BY <2>2, <2>3, <3>1
    <3>3. ~(u < q) /\ ~(q < u)
      BY <2>2, <2>3, <3>1, <3>2, Multiples
    <3> QED
      BY <2>2, <2>3, <3>3
  <2> QED
    BY <2>1, <2>4, <2>5, <2>6 DEF q, r, u, v
<1>2. cur * (num * t) = (cur * num) * t
  OBVIOUS
<1>3. /\ (cur * (num * t)) \div (den * t) = (cur * num) \div den
      /\ (cur * (num * t)) % (den * t) = 0 <=> (cur * num) % den = 0
  <2> DEFINE a == cur * num
  <2>1. a \in Int
    OBVIOUS
  <2> HIDE DEF a
  <2>2. (a * t) \div (den * t) = a \div den /\ ((a * t) % (den * t) = 0 <=> a % den = 0)
    BY <1>1, <2>1
  <2> QED
    BY <1>2, <2>2 DEF a
<1>5. Exact(num * t, den * t) <=> Exact(num, den)
  <2>1. ASSUME NEW k \in 0..20
        PROVE  ((num * t) * 2^k) % (den * t) = 0 <=> (num * 2^k) % den = 0
    <3> DEFINE p == 2^k
    <3>1. p \in Int
      OBVIOUS
    <3> HIDE DEF p
    <3>2. (num * t) * p = (num * p) * t /\ num * p \in Int
      BY <3>1
    <3>3. ((num * t) * p) % (den * t) = 0 <=> (num * p) % den = 0
      BY <1>1, <3>2
    <3> QED
      BY <3>3 DEF p
  <2> QED
    BY <2>1 DEF Exact
<1> QED
  BY <1>3, <1>5 DEF Scaled

\* Blocks exactly on time raise the difficulty by interval/(interval - 1), for
\* any interval above 1 and any block time.
THEOREM OnTimeWindowRaisesCorrect == Spec => []OnTimeWindowRaises
<1>1. IInv => OnTimeWindowRaises
  <2> SUFFICES ASSUME IInv, NEW h \in 1..HeadHeight, ShouldAdjust(h), Interval > 1,
                      Span(h) = (Interval - 1) * TargetTime
               PROVE  HeaderAt(h).difficulty
                        \in Scaled(HeaderAt(h - 1).difficulty, Interval, Interval - 1)
    BY DEF OnTimeWindowRaises
  <2> DEFINE before == HeaderAt(h - 1).difficulty
             after == HeaderAt(h).difficulty
             actual == (Interval - 1) * TargetTime
             E == Interval * TargetTime
  <2>1. /\ Interval \in Nat \ {0} /\ Interval - 1 \in Nat \ {0} /\ TargetTime \in Nat \ {0}
        /\ actual \in Nat \ {0} /\ E \in Nat \ {0} /\ E = actual + TargetTime
    BY DifficultyAssumption
  <2>2. before \in Nat \ {0} /\ after \in Adjusted(before, AtLeast(0, Span(h)))
    BY RuleBounded
  <2>3. AtLeast(0, Span(h)) = actual
    BY <2>1 DEF AtLeast
  <2>4. TargetTime <= actual
    <3>1. 1 <= Interval - 1
      BY <2>1
    <3>2. 1 * TargetTime <= (Interval - 1) * TargetTime
      BY <2>1, <3>1
    <3> QED
      BY <2>1, <3>2
  <2>5. ExpectedTime = E /\ MaxFactor = 4 /\ MinDifficulty = 1
    BY DEF ExpectedTime, MaxFactor, MinDifficulty
  <2> HIDE DEF actual, E, before, after
  <2>6. E < 4 * actual /\ actual < 4 * E /\ E >= actual
    BY <2>1, <2>4
  <2>7. PICK x \in Scaled(before, E, actual) : after = AtLeast(1, x)
    <3>1. ~(E >= 4 * actual) /\ ~(4 * E <= actual)
      BY <2>1, <2>6
    <3>2. after \in Adjusted(before, actual)
      BY <2>2, <2>3
    <3> QED
      BY <2>5, <3>1, <3>2 DEF Adjusted
  <2>8. x \in Nat /\ x >= before
    BY <2>1, <2>2, <2>5, <2>6, ScaledBounded
  <2>9. after = x
    BY <2>2, <2>7, <2>8 DEF AtLeast
  <2>10. Scaled(before, E, actual) = Scaled(before, Interval, Interval - 1)
    BY <2>1, <2>2, ScaledCancels DEF E, actual
  <2> QED
    BY <2>9, <2>10 DEF before, after
<1> QED
  BY <1>1, IInvHolds, PTL

=============================================================================
