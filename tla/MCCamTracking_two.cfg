CONSTANTS
  a1 = a1
  a2 = a2
  NumStations = 2
  NumFixed = 0
  FixedInside <- UnitInside
  Areas <- TwoAreas
  Droppable <- NoArea
  Freq <- MixedFreq
  SlotsPerStep = 2
  Window = 1
  Deliveries <- NotHeard
  MaxStep = 4
SPECIFICATION Spec
INVARIANT NodesInAreaPresent
INVARIANT SendingIffInside
INVARIANT OneChain
CHECK_DEADLOCK FALSE
