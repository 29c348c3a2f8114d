SPECIFICATION Spec
CONSTANTS
  Worker = {w1, w2}
  Nobody = Nobody
  Event <- MCEvent
  Poison = Poison
  BatchSize = 2
  MaxLog = 3
  MaxFailures = 2
INVARIANTS
  TypeOK
  CommittedLoaded
  OneRowPerEvent
  HistoryAnswersAsOf
CHECK_DEADLOCK FALSE
