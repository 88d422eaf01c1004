SPECIFICATION Spec
CONSTANTS
  c1 = c1
  c2 = c2
  Agents = {a1}
  Clients <- OneClient
  Ops <- MCOps
  MaxRequests = 1
  MaxConnections = 3
  FirstSession = 4
  FirstSequence = 4
  None = None
INVARIANT FreshRequestIsNotDuplicate
CHECK_DEADLOCK FALSE
