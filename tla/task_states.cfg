SPECIFICATION LifecycleSpec
CONSTANTS
  k1 = k1  k2 = k2
  Clients = {k1, k2}
  Alphanumeric = {"job", "task", "1", "mail"}
  JobKeys <- MCJobKeys
  TaskKeys <- MCTaskKeys
  Keys <- MCKeys
  Fields <- MCFields
  Values <- MCValues
  Steps = {"1"}
  MaxItems = 1
  Nil = Nil
  Smaller = {}
  Calls = {}
  Stored <- MCStored
  Faults = {"EVALSHA", "HSET"}
  MaxCalls = 0
  MaxReads = 1
SYMMETRY Twins
INVARIANTS
  OneClaimant
PROPERTIES
  ImplementsTaskMachine
CHECK_DEADLOCK FALSE
