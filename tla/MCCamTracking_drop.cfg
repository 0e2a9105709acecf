CONSTANTS
  a1 = a1
  a2 = a2
  NumStations = 2
  NumFixed = 0
  FixedInside <- UnitInside
  Areas <- OneArea
  Droppable <- OneArea
  Freq <- SameFreq
  SlotsPerStep = 2
  Window = 1
  Deliveries <- NotHeard
  MaxStep = 3
SPECIFICATION Spec
INVARIANT OnlyWantedAreas
CHECK_DEADLOCK FALSE
