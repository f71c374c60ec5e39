\* Every interpreter on short programs, with 16-bit numbers, in the release profile.
CONSTANTS
  Contract <- MCContract
  Limit = {12, 3100}
  CallDepth = {0, 1025}
  MAX_DEPTH = 1024
  ESTIMATE_LIMIT = 45000
  InputSize = {0, 31, 32, 33}
  U64 = 65536
  BITS = 16
  HEAP_SIZE = 9
  STACK_SIZE = 8
  MAX_CALL_DEPTH = 3
  MAX_STACK_DEPTH = 6
  NUM_BYTES = 2
  MAX_STACK_SIZE = 40
  MAX_SCRIPT_SIZE = 40
  MAX_ELEMENT_SIZE = 40
  MAX_OPS_PER_SCRIPT = 9
  MAX_RECURSION_DEPTH = 9
  MAX_TABLE_SIZE = 1
  IntModulus = 65536
  USIZE = 65536
  U32 = 256
  OverflowChecks = FALSE
  Tx <- MCTx
  Signers = {}
  Garbled = Garbled
  Digest <- MCDigest
  Hex <- MCHex
  DebugSize <- MCDebugSize
SPECIFICATION FairSpec
INVARIANTS
  StepsArePaid
  EstimateSuffices
  KaspaStacks
  PactScopeRestored
  LiteralsReadAsOne
PROPERTIES
  CallReturns
