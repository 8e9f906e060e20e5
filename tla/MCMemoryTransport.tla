--------------------------- MODULE MCMemoryTransport ---------------------------
(* Small instances of MemoryTransport for TLC: who subscribes to what.         *)
EXTENDS MemoryTransport

CONSTANTS q, dlq,  \* a work subject and the dead-letter subject of its domain
          g1,      \* a group on the work subject
          c1, c2   \* subscriptions

MCDeadLetterOf == [s \in Subjects |-> IF dlq \in Subjects THEN dlq ELSE s]

\* Every subscription works in one group.
MCSubjectOf == [g \in Groups |-> q]
Competing   == [c \in Consumers |-> g1]

One   == [c \in Consumers |-> 1]
Two   == [c \in Consumers |-> 2]
Roomy == [c \in Consumers |-> MaxMsgs + 1]

\* The first subscription has the smaller limit.
OneThenTwo == [c \in Consumers |-> IF c = c1 THEN 1 ELSE 2]

At(kind, arg) == [at |-> kind, arg |-> arg]
Earliest   == {At("earliest", 0)}
AnyStart   == {At("earliest", 0), At("latest", 0), At("timestamp", 2), At("id", 1), At("id", 9)}
=============================================================================
