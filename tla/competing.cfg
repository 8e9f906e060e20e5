SPECIFICATION Spec
CONSTANTS
  q = q  dlq = dlq  g1 = g1  c1 = c1  c2 = c2
  Subjects = {q}
  DeadLetterOf <- MCDeadLetterOf
  Groups = {g1}
  SubjectOf <- MCSubjectOf
  Consumers = {c1, c2}
  GroupOf <- Competing
  BatchSize <- Two
  MaxInflight <- OneThenTwo
  Starts <- Earliest
  Callers = {k1}
  Moves = {"publish", "ensure_stream", "close", "drop_call", "timeout", "ack", "nak", "err"}
  MaxMsgs = 3
  MaxTime = 1
  NoConsumer = NoConsumer
INVARIANTS
  OneHolder
  Backpressure
  NoLostWakeup
PROPERTIES
  ImplementsWorkQueue
CHECK_DEADLOCK FALSE
