SPECIFICATION Spec
CONSTANTS
  c1 = c1  c2 = c2  k1 = k1
  Consumers = {c1, c2}
  Clients = {k1}
  BatchSize <- One
  MaxInflight <- One
  Start <- Earliest
  Latest = Latest
  LargestBatch = 1
  MostInflight = 1
  Moves = {"publish", "ensure_stream", "close", "timeout", "ack", "nak", "dead_letter"}
  Faults = {"XACK", "XADD"}
  MaxEntries = 3
  MaxDeliveries = 2
INVARIANTS
  InflightBound
  CopiesPerDelivery
SYMMETRY Twins
CHECK_DEADLOCK FALSE
