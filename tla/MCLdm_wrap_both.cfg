CONSTANTS
  v1 = v1
  v2 = v2
  r1 = r1
  Stations <- TwoVehicles
  Mobile <- TwoVehicles
  Kinds = {"CAM"}
  RelevantKinds = {"CAM", "DENM", "APP", "GEO"}
  RelevantStations <- TwoVehicles
  NumAreas = 0
  DirectionRule = FALSE
  Life = 3
  ExpiryTimes <- SomeExpiry
  SeqMod = 2
  LogOn = TRUE
  Senders <- OneVehicle
  Receivers <- SecondVehicle
  MaxCreate = 3
  MaxTime = 4
  MaxCopies = 1
  MaxReceptions = 2
SPECIFICATION Spec
INVARIANTS
  NeverInBothTables
CHECK_DEADLOCK FALSE
