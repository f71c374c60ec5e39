\* Four threads over six nonces: two residue classes, overlapping after the wrap-around.
CONSTANTS
  Threads = 4
  U64 = 6
  Targets = {{5}, {0, 3}}
  NoNonce = NoNonce
SPECIFICATION FairSpec
INVARIANTS
  NoDuplicateWork
  NothingSkipped
  ResultMeetsTarget
  SolutionKept
PROPERTIES
  HashesCounted
  RoundEnds
  StopEnds
CHECK_DEADLOCK FALSE
