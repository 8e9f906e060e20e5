SPECIFICATION Spec
CONSTANTS
  k1 = k1  k2 = k2
  Clients = {k1, k2}
  Alphanumeric = {"job", "tasks", "gbe", "1", "2", "a"}
  RawIds <- MCRawIds
  TaskNames <- MCTaskNames
  IdOf <- MCIdOf
  Keys <- MCKeys
  Fields <- MCFields
  Values <- MCValues
  Nil = Nil
  Smaller <- MCSmaller
  Calls <- MCCalls
  Stored <- MCStored
  Faults = {"HSET", "EXPIRE", "EVALSHA"}
  MaxCalls = 3
  MaxReads = 3
SYMMETRY Twins
INVARIANTS
  ScanWithinMax
  PermanentByWrite
  JobScanFindsItsTasks
PROPERTIES
  ScanMissesNone
  ExpiryIsForGood
  GoneUntilWritten
CHECK_DEADLOCK FALSE
