SPECIFICATION LiveSpec
CONSTANTS
  a = a
  b = b
  c = c
  p1 = p1
  p2 = p2
  h1 = h1
  h2 = h2
  Hand = {h1}
  Pair = {a, b}
  Partition = {p1, p2}
  PartitionOf <- MCPartitionOf
  Whole <- MCWhole
  Expected = 2
  TTL = 1
  MaxRevision = 2
  Id = {1}
  Output = {score, alert}
  Rewind = 2
  CommitPartial = TRUE
  Poison = poison
  Poisoned = FALSE
  Ticking = FALSE
  FromBeginning = TRUE
  MaxLog = 3
  MaxFailures = 1
INVARIANTS
  TypeOK
  PendingExact
  EmittedPublished
PROPERTIES
  RescoredForward
  ImplementsAtLeastOnce
  EventuallyScored
CHECK_DEADLOCK FALSE
