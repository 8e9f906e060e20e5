SPECIFICATION Spec
CONSTANTS
  c1 = c1  c2 = c2  k1 = k1
  Consumers = {c1, c2}
  Clients = {k1}
  BatchSize <- Two
  MaxInflight <- Roomy
  Start <- Latests
  Latest = Latest
  LargestBatch = 2
  MostInflight = 3
  Moves = {"publish", "trim_stream", "timeout", "die", "ack", "dead_letter"}
  Faults = {"XADD", "XGROUP", "XPENDING", "XAUTOCLAIM", "XREADGROUP", "XACK"}
  MaxEntries = 2
  MaxDeliveries = 2
SYMMETRY Twins
INVARIANTS
  TypeOK
  NothingLost
PROPERTIES
  ImplementsLeasedQueue
CHECK_DEADLOCK FALSE
