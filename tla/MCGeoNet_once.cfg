CONSTANTS
  n1 = n1
  n2 = n2
  n3 = n3
  cam = cam
  app = app
  Nodes = {n1, n2, n3}
  NoNode = NoNode
  Services = {app}
  Flows <- AllProtocols
  Reliable <- NobodySure
  SeqMod = 8
  HopMod = 5
  MaxSend = 1
SPECIFICATION Spec
INVARIANT Once
INVARIANT LoopFree
INVARIANT HopBudget
PROPERTY DeliverySpec
CHECK_DEADLOCK FALSE
