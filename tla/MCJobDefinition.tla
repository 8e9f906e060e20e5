---------------------------- MODULE MCJobDefinition ----------------------------
(* Small sets of job definitions for TLC.                                      *)
EXTENDS JobDefinition, SequencesExt

CONSTANTS a, b, c, d

Few == TaskNames \ {d}

Shapes(inputs, n) ==
  [name : Few, depends_on : BoundedSeq(Few, n), input_from : inputs]

\* Two tasks that read inputs, three that do not: duplicate names, unknown and repeated
\* dependencies, self-dependencies and cycles of two and three tasks among them.
SmallDefinitions ==
  BoundedSeq(Shapes(SUBSET Few, 2), 2) \cup BoundedSeq(Shapes({{}}, 2), 3)

\* Every graph on four tasks, cyclic or not, with dependencies listed in one order.
Listed(S) == SelectSeq(<<d, b, c, a>>, LAMBDA n : n \in S)
FourTasks ==
  {[i \in 1..4 |-> [name |-> <<a, b, c, d>>[i], depends_on |-> Listed(D[i]), input_from |-> {}]] :
     D \in [1..4 -> SUBSET TaskNames]}

SmallDefinitionsAndFourTasks == SmallDefinitions \cup FourTasks
=============================================================================
