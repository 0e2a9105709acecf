CONSTANTS
  self = self
  n1 = n1
  n2 = n2
  Nodes = {self, n1, n2}
  Self = self
  SECOND = 2
  BEACON = 1
  LIFE = 6
  MaxDelay = 1
  MaxTime = 20
SPECIFICATION Spec
INVARIANT CleanInBounds
INVARIANT AgeBound
INVARIANT OnlyHeardDirectly
PROPERTY NeighbourLeavesByCleaning
CHECK_DEADLOCK FALSE
