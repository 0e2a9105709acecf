CONSTANTS
  NumStations = 2
  NumFixed = 1
  Apps = {1}
  Modes = {"uni", "topo"}
  ReceiveSubs <- TwoKinds
  MaxDests = 1
  Window = 2
  Lossy = TRUE
  Late = TRUE
  MaxMessages = 2
  MaxSubs = 1
  MaxStep = 3
SPECIFICATION Spec
INVARIANT RunSurvives
CHECK_DEADLOCK FALSE
