\* The ledger, the peer table with two threads, the device registry and the Merkle trees, each on its own.
CONSTANTS
  Address = {a1, a2}
  Slot = {k}
  Code = {c1, c2}
  NoCode = NoCode
  Value = {Zero, v}
  Zero = Zero
  U128 = 4
  Nonce = {0, 1}
  Posted <- MCPosted
  Amount = {0, 1, 2}
  MaxCalls = 3
  Thread = {t1, t2}
  p1 = p1
  p2 = p2
  p3 = p3
  Peer = {p1, p2, p3}
  ShardOf <- MCShardOf
  MaxPeers = 1
  MaxIdle = 1
  Duration = {1}
  U64 = 8
  MaxTime = 2
  Absent = Absent
  Device = {d1, d2}
  Owner = {o1, o2}
  Type = {x, y}
  Revision = {1, 2}
  None = None
  Missing = Missing
  Leaf = {h1, h2}
  ZeroHash = ZeroHash
  MaxLeaves = 6
SYMMETRY Interchangeable
SPECIFICATION Spec
\* A thread that meets an expired ban stops for good, and the clock, the number
\* of changes to the ledger are bounded: the system does stop.
CHECK_DEADLOCK FALSE
INVARIANTS
  MergedLikeSerial
  StoresAgree
  PeersBounded
  BannedStayOut
  RegistryConsistent
  ProofsHold
PROPERTIES
  ExpiredBanHangs
  
