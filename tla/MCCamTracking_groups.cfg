CONSTANTS
  a1 = a1
  a2 = a2
  NumStations = 3
  NumFixed = 2
  FixedInside <- UnitInside
  Areas <- OneArea
  Droppable <- NoArea
  Freq <- SameFreq
  SlotsPerStep = 1
  Window = 1
  Deliveries <- Together
  MaxStep = 4
SPECIFICATION Spec
PROPERTY ReceptionsStored
CHECK_DEADLOCK FALSE
