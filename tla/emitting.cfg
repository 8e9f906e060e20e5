SPECIFICATION Spec
CONSTANTS
  e1 = e1  e2 = e2  e3 = e3
  Emitters = {e1, e2, e3}
  component <- MCComponent
  instance_id <- MCInstance
  Kinds <- MCKinds
  MaxEvents = 2
  MaxClock = 2
  MaxSent = 3
INVARIANTS
  HandledOnce
  SkippedForTwin
  AcceptedIsLogged
CHECK_DEADLOCK FALSE
