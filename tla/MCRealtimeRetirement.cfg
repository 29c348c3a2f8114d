SPECIFICATION Spec
CONSTANTS
  Window = 2
  MaxTime = 2
  MaxHands = 1
  MaxOutside = 1
  MaxFaults = 1
  MaxReports = 7
INVARIANTS
  TypeOK
  CaptureProvesSuspension
  DrillAfterWindow
PROPERTY FailedStartResumes
CHECK_DEADLOCK FALSE
