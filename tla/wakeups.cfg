SPECIFICATION FairSpec
CONSTANTS
  q = q  dlq = dlq  g1 = g1  c1 = c1  c2 = c2
  Subjects = {q}
  DeadLetterOf <- MCDeadLetterOf
  Groups = {g1}
  SubjectOf <- MCSubjectOf
  Consumers = {c1, c2}
  GroupOf <- Competing
  BatchSize <- Two
  MaxInflight <- Roomy
  Starts <- Earliest
  Callers = {k1}
  Moves = {"publish", "ack", "nak", "unsubscribe"}
  MaxMsgs = 2
  MaxTime = 1
  NoConsumer = NoConsumer
INVARIANTS
  PendingIsExact
PROPERTIES
  ImplementsWorkQueue
  EventuallySettled
  NakRedelivered
  CancelStops
CHECK_DEADLOCK FALSE
