CONSTANTS
  v1 = v1
  v2 = v2
  r1 = r1
  Stations <- TwoVehicles
  Mobile <- TwoVehicles
  Kinds = {"CAM", "DENM"}
  RelevantKinds = {"CAM", "DENM", "APP", "GEO"}
  RelevantStations <- TwoVehicles
  NumAreas = 0
  DirectionRule = FALSE
  Life = 2
  ExpiryTimes <- SomeExpiry
  SeqMod = 3
  LogOn = TRUE
  Senders <- OneVehicle
  Receivers <- SecondVehicle
  MaxCreate = 3
  MaxTime = 5
  MaxCopies = 1
  MaxReceptions = 2
SPECIFICATION Spec
INVARIANTS
  ListsSynchronized
  StoredIffScheduled
  LifeFromLastReception
  NothingOverdue
  NeverAborts
PROPERTY
  MessageLifeSpec
CHECK_DEADLOCK FALSE
