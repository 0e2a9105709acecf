CONSTANTS
  n1 = n1
  n2 = n2
  n3 = n3
  cam = cam
  app = app
  Nodes = {n1, n2, n3}
  NoNode = NoNode
  Services = {app}
  Flows <- NoHops
  Reliable <- Line3
  SeqMod = 8
  HopMod = 5
  MaxSend = 1
SPECIFICATION Spec
INVARIANT HopBudget
CHECK_DEADLOCK FALSE
