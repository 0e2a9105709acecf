CONSTANTS
  NumStations = 2
  NumFixed = 2
  Apps = {1}
  Modes = {"geo"}
  ReceiveSubs <- ListenGeo
  MaxDests = 1
  Window = 2
  Lossy = TRUE
  Late = FALSE
  MaxMessages = 1
  MaxSubs = 1
  MaxStep = 3
SPECIFICATION Spec
INVARIANT NoPhantom
CHECK_DEADLOCK FALSE
