SPECIFICATION SafetySpec
CONSTANTS
  a = a
  b = b
  c = c
  p1 = p1
  p2 = p2
  h1 = h1
  h2 = h2
  Hand = {h1}
  Pair = {a, b}
  Partition = {p1, p2}
  PartitionOf <- MCPartitionOf
  Whole <- MCWhole
  Expected = 2
  TTL = 1
  MaxRevision = 2
  Id = {1}
  Output = {score}
  Rewind = 2
  CommitPartial = TRUE
  Poison = poison
  Poisoned = FALSE
  Ticking = TRUE
  FromBeginning = FALSE
  MaxLog = 3
  MaxFailures = 1
INVARIANTS
  CommittedScored
CHECK_DEADLOCK FALSE
