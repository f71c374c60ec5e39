\* Two to three retarget windows of three blocks, spans from 0 to above 4x.
CONSTANTS
  Interval = 3
  TargetTime = 2
  InitialDifficulty = 7
  DifficultyBits = 12
  TargetBytes = 6
  Gaps = {0, 1, 2, 3, 13}
  MaxHeight = 7
SPECIFICATION Spec
INVARIANTS
  AdjustmentBounded
  
  
  OnTimeWindowRaises
CHECK_DEADLOCK FALSE
