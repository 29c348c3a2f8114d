SPECIFICATION LiveSpec
CONSTANTS
  Partition = {p1, p2}
  MaxOffset = 3
  MaxFailures = 1
  Gaps = TRUE
  FromBeginning = TRUE
INVARIANTS
  TypeOK
  NoLoss
  NothingSkipped
PROPERTIES
  CommittedMonotone
  ImplementsAtLeastOnce
  EventuallyCommitted
