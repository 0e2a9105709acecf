CONSTANTS
  NumStations = 2
  NumFixed = 1
  Apps = {1}
  Modes = {"uni", "geo", "topo"}
  ReceiveSubs <- TwoKinds
  MaxDests = 1
  Window = 2
  Lossy = TRUE
  Late = FALSE
  MaxMessages = 2
  MaxSubs = 2
  MaxStep = 3
SPECIFICATION Spec
INVARIANT TypeOK
INVARIANT OneRowPerPacket
INVARIANT RunSurvives
INVARIANT TopoHonest
INVARIANT ReportedOnce
PROPERTY HeardIsTold
CHECK_DEADLOCK FALSE
