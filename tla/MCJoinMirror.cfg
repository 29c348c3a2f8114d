SPECIFICATION Spec
CONSTANTS
  Context <- MCContext
  Hand <- MCHand
  NoContext = NoContext
  Lateness = 1
  Window = 1
  MaxWatermark = 4
  MaxDeliveries = 2
INVARIANTS
  TypeOK
  SelectionCurrent
  RevisionsImprove
  FinalsAgree
PROPERTY EveryHandAnswered
CHECK_DEADLOCK FALSE
