SPECIFICATION ReplaySpec
CONSTANTS
  Partition = {p1}
  Scores = p1
  EventId = {h1}
  Content = {0, 1, 2}
  Refused = {}
  EmittedAt = 0
  MaxClock = 2
  Invalid = invalid
  Thread = {1, 2}
  MaxLog = 2
  MaxBuild = 0
  MaxFaults = 0
INVARIANTS
  ReplaysDeduplicate
CHECK_DEADLOCK FALSE
