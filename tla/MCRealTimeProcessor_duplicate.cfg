SPECIFICATION Spec
CONSTANTS
  Hand = {h1, h2}
  Alerting = {h1}
  BatchSize = 2
  FromBeginning = TRUE
  MaxLog = 2
  MaxFaults = 0
PROPERTY
  ReplayConverges
CHECK_DEADLOCK FALSE
