SPECIFICATION Spec
CONSTANTS
  q = q  dlq = dlq  g1 = g1  c1 = c1  c2 = c2
  Subjects = {q, dlq}
  DeadLetterOf <- MCDeadLetterOf
  Groups = {g1}
  SubjectOf <- MCSubjectOf
  Consumers = {c1}
  GroupOf <- Competing
  BatchSize <- Two
  MaxInflight <- Two
  Starts <- AnyStart
  Callers = {k1}
  Moves = {"publish", "trim_stream", "ack", "nak", "dead_letter", "ok",
           "panic", "drop_settle"}
  MaxMsgs = 3
  MaxTime = 2
  NoConsumer = NoConsumer
INVARIANTS
  TypeOK
  IndexAgrees
  CursorSplitsStream
  SettledIsFinal
  PendingIsExact
  DeadLetteredOnce
PROPERTIES
  ImplementsWorkQueue
  TrimRemovesExpired
CHECK_DEADLOCK FALSE
