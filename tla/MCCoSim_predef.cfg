CONSTANTS
  v1 = v1
  v2 = v2
  v3 = v3
  TsIds <- TwoVehicles
  PredefId <- LowPredef
  FixedIds <- OneFixed
  m_firstTimeStep = 0
  m_lastTimeStep = 1
SPECIFICATION Spec
INVARIANT
  UniqueIcsIds
CHECK_DEADLOCK FALSE
