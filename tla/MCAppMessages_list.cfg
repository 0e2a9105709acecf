CONSTANTS
  NumStations = 3
  NumFixed = 3
  Apps = {1}
  Modes = {"uni"}
  ReceiveSubs <- ListenUni
  MaxDests = 2
  Window = 2
  Lossy = TRUE
  Late = FALSE
  MaxMessages = 1
  MaxSubs = 1
  MaxStep = 3
SPECIFICATION Spec
INVARIANT EachDestinationServed
CHECK_DEADLOCK FALSE
