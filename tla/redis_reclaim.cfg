SPECIFICATION FairSpec
CONSTANTS
  c1 = c1  c2 = c2  k1 = k1
  Consumers = {c1, c2}
  Clients = {k1}
  BatchSize <- Two
  MaxInflight <- Roomy
  Start <- Earliest
  Latest = Latest
  LargestBatch = 2
  MostInflight = 3
  Moves = {"publish", "unsubscribe", "timeout", "die", "nak"}
  Faults = {}
  MaxEntries = 2
  MaxDeliveries = 2
PROPERTIES
  OverdueReclaimed
  CancelStops
CHECK_DEADLOCK FALSE
