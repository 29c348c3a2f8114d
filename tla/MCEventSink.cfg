SPECIFICATION LiveSpec
CONSTANTS
  Partition = {p1}
  EventId = {e1}
  Content = {x, y, z}
  Refused = {z}
  Invalid = invalid
  Thread = {1, 2}
  MaxLog = 2
  MaxBuild = 1
  MaxFaults = 3
INVARIANTS
  TypeOK
  CommittedDurable
  OneDeadLetterPerBuild
PROPERTIES
  ImplementsLedger
  ImplementsAtLeastOnce
  EventuallyCommitted
CHECK_DEADLOCK FALSE
