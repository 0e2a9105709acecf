CONSTANTS
  NumStations = 2
  NumFixed = 2
  Apps = {1}
  Modes = {"uni"}
  ReceiveSubs <- ListenUni
  MaxDests = 1
  Window = 2
  Lossy = TRUE
  Late = FALSE
  MaxMessages = 2
  MaxSubs = 1
  MaxStep = 3
SPECIFICATION Spec
INVARIANT UnicastHonest
CHECK_DEADLOCK FALSE
