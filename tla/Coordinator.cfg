SPECIFICATION Spec
CONSTANTS
  c1 = c1
  c2 = c2
  Agents = {a1}
  Clients <- TwoClients
  Ops <- MCOps
  MaxRequests = 1
  MaxConnections = 3
  FirstSession = 1
  FirstSequence = 100
  None = None
INVARIANTS ResponseIsForTheRequest 
PROPERTIES RequestSettles 
CHECK_DEADLOCK FALSE
