CONSTANTS
  a1 = a1
  a2 = a2
  NumStations = 2
  NumFixed = 0
  FixedInside <- UnitInside
  Areas <- TwoAreas
  Droppable <- NoArea
  Freq <- MixedFreq
  SlotsPerStep = 2
  Window = 1
  Deliveries <- NotHeard
  MaxStep = 3
SPECIFICATION Spec
INVARIANT CamHasRow
CHECK_DEADLOCK FALSE
