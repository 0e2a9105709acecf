CONSTANTS
  v1 = v1
  v2 = v2
  v3 = v3
  TsIds <- ThreeVehicles
  PredefId <- HighPredef
  FixedIds <- OneFixed
  m_firstTimeStep = 1
  m_lastTimeStep = 2
SPECIFICATION FairSpec
INVARIANTS
  ActiveNodesTracked
  ActiveInSync
  DistinctNs3Nodes
  Lockstep
  LossStopsRun
  UniqueIcsIds
PROPERTY
  DeparturesDeactivated
CHECK_DEADLOCK FALSE
