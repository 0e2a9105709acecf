CONSTANTS
  v1 = v1
  v2 = v2
  r1 = r1
  Stations <- VehicleAndRsu
  Mobile <- OneVehicle
  Kinds = {"APP", "CAM"}
  RelevantKinds = {"CAM", "GEO"}
  RelevantStations <- OneVehicle
  NumAreas = 2
  DirectionRule = TRUE
  Life = 2
  ExpiryTimes <- SomeExpiry
  SeqMod = 2
  LogOn = TRUE
  Senders <- OneRsu
  Receivers <- VehicleAndRsu
  MaxCreate = 4
  MaxTime = 3
  MaxCopies = 1
  MaxReceptions = 4
SPECIFICATION Spec
INVARIANTS
  TypeOK
PROPERTIES
  ReceiversRelevant
CHECK_DEADLOCK FALSE
