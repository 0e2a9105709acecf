CONSTANTS
  a1 = a1
  a2 = a2
  NumStations = 2
  NumFixed = 1
  FixedInside <- UnitInside
  Areas <- TwoAreas
  Droppable <- NoArea
  Freq <- MixedFreq
  SlotsPerStep = 2
  Window = 1
  Deliveries <- Together
  MaxStep = 4
SPECIFICATION Spec
PROPERTY ReceptionsStored
CHECK_DEADLOCK FALSE
