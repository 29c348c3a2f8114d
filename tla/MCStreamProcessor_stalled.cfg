SPECIFICATION LiveSpec
CONSTANTS
  a = a
  b = b
  c = c
  p1 = p1
  p2 = p2
  h1 = h1
  h2 = h2
  Hand = {h1, h2}
  Pair = {a, b}
  Partition = {p1, p2}
  PartitionOf <- MCPartitionOf
  Whole <- MCWhole
  Expected = 2
  TTL = 1
  MaxRevision = 1
  Id = {1}
  Output = {score}
  Rewind = 0
  CommitPartial = FALSE
  Poison = poison
  Poisoned = FALSE
  Ticking = FALSE
  FromBeginning = TRUE
  MaxLog = 2
  MaxFailures = 1
PROPERTIES
  EventuallyCommitted
CHECK_DEADLOCK FALSE
