CONSTANTS
  a1 = a1
  a2 = a2
  NumStations = 3
  NumFixed = 0
  FixedInside <- UnitInside
  Areas <- OneArea
  Droppable <- NoArea
  Freq <- SameFreq
  SlotsPerStep = 1
  Window = 1
  Deliveries <- Apart
  MaxStep = 2
SPECIFICATION Spec
INVARIANT RowOnArrival
CHECK_DEADLOCK FALSE
