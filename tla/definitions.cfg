SPECIFICATION Spec
CONSTANTS
  a = a  b = b  c = c  d = d
  TaskNames = {a, b, c, d}
  Definitions <- SmallDefinitionsAndFourTasks
INVARIANTS
  TypeOK
  ValidateIsExact
  DependenciesFirst
  OrderIsComplete
CHECK_DEADLOCK FALSE
