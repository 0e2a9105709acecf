CONSTANTS
  v1 = v1
  v2 = v2
  r1 = r1
  Stations <- VehicleAndRsu
  Mobile <- OneVehicle
  Kinds = {"APP", "GEO"}
  RelevantKinds = {"CAM", "GEO"}
  RelevantStations <- OneVehicle
  NumAreas = 2
  DirectionRule = TRUE
  Life = 2
  ExpiryTimes <- SomeExpiry
  SeqMod = 2
  LogOn = TRUE
  Senders <- OneRsu
  Receivers <- VehicleAndRsu
  MaxCreate = 2
  MaxTime = 2
  MaxCopies = 1
  MaxReceptions = 4
SPECIFICATION Spec
PROPERTIES
  OnlyRelevantDirection
CHECK_DEADLOCK FALSE
