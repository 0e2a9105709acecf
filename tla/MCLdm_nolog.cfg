CONSTANTS
  v1 = v1
  v2 = v2
  r1 = r1
  Stations <- TwoVehicles
  Mobile <- TwoVehicles
  Kinds = {"CAM"}
  RelevantKinds = {"CAM", "DENM", "APP", "GEO"}
  RelevantStations <- TwoVehicles
  NumAreas = 0
  DirectionRule = FALSE
  Life = 2
  ExpiryTimes <- SomeExpiry
  SeqMod = 2
  LogOn = FALSE
  Senders <- OneVehicle
  Receivers <- SecondVehicle
  MaxCreate = 2
  MaxTime = 4
  MaxCopies = 1
  MaxReceptions = 2
SPECIFICATION Spec
INVARIANTS
  NothingOverdue
CHECK_DEADLOCK FALSE
