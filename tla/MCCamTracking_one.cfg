CONSTANTS
  a1 = a1
  a2 = a2
  NumStations = 2
  NumFixed = 0
  FixedInside <- UnitInside
  Areas <- OneArea
  Droppable <- NoArea
  Freq <- SameFreq
  SlotsPerStep = 2
  Window = 1
  Deliveries <- Together
  MaxStep = 4
SPECIFICATION Spec
INVARIANT TypeOK
INVARIANT TagsUnique
INVARIANT OneRowPerCam
INVARIANT RowOnArrival
CHECK_DEADLOCK FALSE
