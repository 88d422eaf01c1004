\* Two entities, crashes at every write, failing writes.
CONSTANTS
  CompactionThreshold = 4  RequestWindowCapacity = 2  TornTail = "reject"
  MaxSequence = 6  MaxStarts = 3  MaxFaults = 1
SPECIFICATION Spec
INVARIANTS
  AcknowledgedStoreLoads
  EpochsFence
  

  
CHECK_DEADLOCK FALSE
