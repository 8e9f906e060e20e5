SPECIFICATION FairSpec
CONSTANTS
  c1 = c1  c2 = c2  k1 = k1
  Consumers = {c1, c2}
  Clients = {k1}
  BatchSize <- One
  MaxInflight <- One
  Start <- Earliest
  Latest = Latest
  LargestBatch = 1
  MostInflight = 1
  Moves = {"publish", "timeout", "nak"}
  Faults = {}
  MaxEntries = 1
  MaxDeliveries = 2
PROPERTIES
  OverdueReclaimed
CHECK_DEADLOCK FALSE
