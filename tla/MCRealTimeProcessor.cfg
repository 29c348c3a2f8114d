SPECIFICATION Spec
CONSTANTS
  Hand = {h1, h2}
  Alerting = {h1}
  BatchSize = 2
  FromBeginning = TRUE
  MaxLog = 3
  MaxFaults = 2
INVARIANTS
  TypeOK
  CommittedPersisted
  RowsOnce
  AlertsBacked
PROPERTY
  EventuallyCommitted
CHECK_DEADLOCK FALSE
