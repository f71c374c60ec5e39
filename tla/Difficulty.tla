------------------------------ MODULE Difficulty ------------------------------
(***************************************************************************)
(* Proof-of-work difficulty: the retargeting rule of consensus/difficulty  *)
(* .rs and of Blockchain::next_difficulty, and the difficulty-to-target    *)
(* conversion of core/types.rs, on one branch of the chain that grows by a *)
(* block at a time.                                                        *)
(***************************************************************************)
EXTENDS Integers, Sequences, SequencesExt, FiniteSetsExt

CONSTANTS
  Interval,           \* difficulty_adjustment_interval
  TargetTime,         \* target_block_time, in seconds
  InitialDifficulty,  \* initial_difficulty of the chain configuration
  DifficultyBits,     \* 128: the width of a Difficulty
  TargetBytes,        \* 32: the bytes of a target hash
  Gaps,               \* the seconds a block may come after its parent
  MaxHeight           \* bound on the length of the branch

ASSUME DifficultyAssumption ==
  /\ Interval \in Nat \ {0} /\ TargetTime \in Nat \ {0}
  /\ InitialDifficulty \in Nat \ {0}
  /\ DifficultyBits \in Nat \ {0} /\ TargetBytes \in Nat \ {0}
  /\ Gaps \subseteq Nat /\ MaxHeight \in Nat

\* The branch: the header of height h is chain[h + 1]
VARIABLE chain



HeaderAt(h) == chain[h + 1]
HeadHeight  == Len(chain) - 1

-----------------------------------------------------------------------------
(***************************************************************************)
(* The retargeting rule.                                                   *)
(***************************************************************************)

MaxFactor == 4
MinDifficulty == 1

AtLeast(lo, x) == IF x < lo THEN lo ELSE x

ShouldAdjust(height) == height > 0 /\ height % Interval = 0

ExpectedTime == Interval * TargetTime

\* num/den is a binary fraction, so that an f64 holds it exactly
Exact(num, den) == \E k \in 0..20 : (num * 2^k) % den = 0

\* (cur as f64 * (num / den)) as u128: the floor of the product, or one less
\* when the product is whole and the ratio was rounded down
Scaled(cur, num, den) ==
  LET q == (cur * num) \div den
  IN  IF (cur * num) % den = 0 /\ ~Exact(num, den) /\ q > 0 THEN {q, q - 1} ELSE {q}

\* Mutant of Adjusted: the ratio upside down
AdjustedInverted(cur, actual) ==
  {AtLeast(MinDifficulty, d) :
     d \in CASE actual = 0 -> {cur * MaxFactor}
             [] OTHER -> Scaled(cur, actual, ExpectedTime)}

\* Mutant of Adjusted: only the increase is clamped
AdjustedNoFloor(cur, actual) ==
  {AtLeast(MinDifficulty, d) :
     d \in CASE ExpectedTime >= MaxFactor * actual -> {cur * MaxFactor}
             [] OTHER -> Scaled(cur, ExpectedTime, actual)}

\* The results calculate_new_difficulty may give for a window that took actual
\* seconds: expected/actual, clamped to a factor of 4 either way, 1 at least
Adjusted(cur, actual) ==
  {AtLeast(MinDifficulty, d) :
     d \in CASE ExpectedTime >= MaxFactor * actual -> {cur * MaxFactor}
             [] MaxFactor * ExpectedTime <= actual -> {cur \div MaxFactor}
             [] OTHER -> Scaled(cur, ExpectedTime, actual)}

\* calculate_new_difficulty: the span saturates at 0
CalculateNewDifficulty(cur, first, last) == Adjusted(cur, AtLeast(0, last - first))

WindowStart(height) == AtLeast(0, height - Interval)

\* Mutant of NextDifficulty: the window starts one block late
NextDifficultyLate ==
  LET next == HeadHeight + 1
      head == HeaderAt(HeadHeight)
  IN  IF ShouldAdjust(next)
      THEN CalculateNewDifficulty(
             head.difficulty, HeaderAt(WindowStart(next) + 1).time, head.time)
      ELSE {head.difficulty}

\* Blockchain::next_difficulty, the window read through the height index
NextDifficulty ==
  LET next == HeadHeight + 1
      head == HeaderAt(HeadHeight)
  IN  IF ShouldAdjust(next)
      THEN CalculateNewDifficulty(
             head.difficulty, HeaderAt(WindowStart(next)).time, head.time)
      ELSE {head.difficulty}

\* DifficultyAdjuster::next_difficulty, given the n most recent headers
NextDifficultyOf(n) ==
  LET first == HeadHeight - n + 1   \* the height of the oldest header given
      next  == HeadHeight + 1
      head  == HeaderAt(HeadHeight)
      start == IF first <= WindowStart(next) THEN WindowStart(next) ELSE first
  IN  IF ShouldAdjust(next)
      THEN CalculateNewDifficulty(head.difficulty, HeaderAt(start).time, head.time)
      ELSE {head.difficulty}

-----------------------------------------------------------------------------
(***************************************************************************)
(* Difficulty to target.                                                   *)
(***************************************************************************)

BitLength(d) == Min({n \in 0..DifficultyBits : d < 2^n})

\* u128::leading_zeros and trailing_zeros
LeadingZeros(d)  == DifficultyBits - BitLength(d)
TrailingZeros(d) ==
  IF d = 0 THEN DifficultyBits ELSE Max({n \in 0..DifficultyBits : d % 2^n = 0})

\* to_target: one zero BYTE for each leading zero BIT of the difficulty, then a
\* byte 0xFF shifted by the trailing zeros, then 0xFF
ToTarget(d) ==
  LET zeros == Min({LeadingZeros(d), TargetBytes - 1})
  IN  [i \in 1..TargetBytes |->
         IF i <= zeros THEN 0
         ELSE IF i = zeros + 1 THEN 255 \div 2^(TrailingZeros(d) % 8)
         ELSE 255]

\* meets_difficulty: the hash is not above the target, byte by byte
MeetsDifficulty(hash, target) ==
  \/ hash = target
  \/ \E i \in DOMAIN target :
       /\ hash[i] < target[i]
       /\ \A j \in 1..(i - 1) : hash[j] = target[j]

-----------------------------------------------------------------------------
(***************************************************************************)
(* The branch grows: a block takes the difficulty the node computes and a  *)
(* timestamp not before its parent's, as validate_header requires.         *)
(***************************************************************************)

Init == chain = <<[time |-> 0, difficulty |-> InitialDifficulty]>>

MineBlock(gap) ==
  /\ HeadHeight < MaxHeight
  /\ \E d \in NextDifficulty :
       chain' = Append(chain, [time |-> HeaderAt(HeadHeight).time + gap, difficulty |-> d])

Next == \E gap \in Gaps : MineBlock(gap)

Spec == Init /\ [][Next]_chain

-----------------------------------------------------------------------------

\* The span of the window that ends before height h (h a retarget height)
Span(h) == HeaderAt(h - 1).time - HeaderAt(WindowStart(h)).time

\* Difficulty moves only at multiples of the interval, at most four-fold up,
\* to a quarter down, and never below 1: however long or short the window was.
AdjustmentBounded ==
  \A h \in 1..HeadHeight :
    LET before == HeaderAt(h - 1).difficulty
        after  == HeaderAt(h).difficulty
    IN  /\ after >= MinDifficulty
        /\ ~ShouldAdjust(h) => after = before
        /\ after <= MaxFactor * before
        /\ after >= before \div MaxFactor

\* A window slower than expected never raises the difficulty, a faster one
\* never lowers it: the feedback has the right sign, rounding included.
FeedbackSign ==
  \A h \in 1..HeadHeight :
    ShouldAdjust(h) =>
      LET before == HeaderAt(h - 1).difficulty
          after  == HeaderAt(h).difficulty
      IN  /\ Span(h) > ExpectedTime => after <= before
          /\ Span(h) <= ExpectedTime => after >= before

\* The two implementations of the rule, Blockchain::next_difficulty over the
\* height index and DifficultyAdjuster::next_difficulty over a slice of headers,
\* agree whenever the slice reaches back one interval.
SameRule ==
  \A n \in 1..(HeadHeight + 1) :
    n >= Interval => NextDifficultyOf(n) = NextDifficulty

\* The window holds one gap less than the interval, so blocks exactly on time
\* raise the difficulty by interval/(interval - 1), rounded down.
OnTimeWindowRaises ==
  \A h \in 1..HeadHeight :
    ShouldAdjust(h) /\ Interval > 1 /\ Span(h) = (Interval - 1) * TargetTime
      => LET before == HeaderAt(h - 1).difficulty
         IN  HeaderAt(h).difficulty \in Scaled(before, Interval, Interval - 1)

\* core/types.rs:233, "Higher difficulty = lower target": a retarget that raises
\* the difficulty does not raise the target a hash is held against.
HigherIsHarder ==
  \A h \in 1..HeadHeight :
    HeaderAt(h).difficulty > HeaderAt(h - 1).difficulty
      => MeetsDifficulty(ToTarget(HeaderAt(h).difficulty), ToTarget(HeaderAt(h - 1).difficulty))

=============================================================================
