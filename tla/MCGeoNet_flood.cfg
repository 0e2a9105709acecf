CONSTANTS
  n1 = n1
  n2 = n2
  n3 = n3
  cam = cam
  app = app
  Nodes = {n1, n2, n3}
  NoNode = NoNode
  Services = {app}
  Flows <- Floods
  Reliable <- Line3
  SeqMod = 8
  HopMod = 5
  MaxSend = 2
SPECIFICATION FairSpec
INVARIANT NoGaps
PROPERTY FloodReaches
PROPERTY FloodEnds
CHECK_DEADLOCK FALSE
