SPECIFICATION SafetySpec
CONSTANTS
  a = a
  b = b
  c = c
  p1 = p1
  p2 = p2
  h1 = h1
  h2 = h2
  Hand = {h1, h2}
  Pair = {a, b, c}
  Partition = {p1, p2}
  PartitionOf <- MCPartitionOf
  Whole <- MCWhole
  Expected = 2
  TTL = 1
  MaxRevision = 1
  Id = {1, 2}
  Output = {score}
  Rewind = 1
  CommitPartial = TRUE
  Poison = poison
  Poisoned = TRUE
  Ticking = FALSE
  FromBeginning = FALSE
  MaxLog = 2
  MaxFailures = 2
SYMMETRY HandSymmetry
INVARIANTS
  PublishedWhole
  DeadLetterJustified
  CommittedAnswered
CHECK_DEADLOCK FALSE
