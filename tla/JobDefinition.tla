----------------------------- MODULE JobDefinition -----------------------------
(***************************************************************************)
(* JobDefinition::validate and JobDefinition::topological_order of          *)
(* crates/jobs-domain: the checks on a job definition and Kahn's algorithm, *)
(* run once to detect cycles and, for topological_order, once more to order *)
(* the tasks.  Both start from the iteration order of a HashMap, which no   *)
(* two runs share: the initial queue is any ordering of the roots.          *)
(***************************************************************************)
EXTENDS Integers, Sequences, FiniteSets, Functions

CONSTANTS
  TaskNames,    \* what tasks are called
  Definitions   \* the job definitions considered: JobDefinition.tasks of each

\* input_from is reduced to the tasks its references start with.
TaskDefinitions == [name : TaskNames, depends_on : Seq(TaskNames), input_from : SUBSET TaskNames]

ASSUME DefinitionsAssumption == Definitions \subseteq Seq(TaskDefinitions)

VARIABLES
  tasks,      \* JobDefinition.tasks
  stage,      \* where the call is
  inDegree,   \* in_degree: task name -> dependencies still to come
  queue,      \* the names whose dependencies have all been visited
  node,       \* the name last taken from the queue
  next,       \* the task the inner loop visits next; past the end when it is over
  order,      \* the names visited so far; validate keeps their number only
  result      \* what validate returns

vars == <<tasks, stage, inDegree, queue, node, next, order, result>>

Errors == {"ValidationFailed", "UnknownDependency", "CyclicDependency"}

-----------------------------------------------------------------------------
Names     == {tasks[i].name : i \in DOMAIN tasks}
Task(n)   == tasks[CHOOSE i \in DOMAIN tasks : tasks[i].name = n]
Deps(t)   == Range(t.depends_on)
Roots     == {n \in Names : Task(n).depends_on = <<>>}

DuplicateName ==
  \E i, j \in DOMAIN tasks : i # j /\ tasks[i].name = tasks[j].name

\* input_from refers to a task that is not in depends_on.
DanglingInput(t) == ~(t.input_from \subseteq Deps(t))

\* What the checks of one task come to, in their order.
Fault(t) ==
  IF ~(Deps(t) \subseteq Names) THEN "UnknownDependency"
  ELSE IF t.name \in Deps(t) THEN "CyclicDependency"
  ELSE IF DanglingInput(t) THEN "ValidationFailed"
  ELSE "none"

Faulty == {i \in DOMAIN tasks : Fault(tasks[i]) # "none"}

\* The first error of the checks before the sort, or "none".
Refusal ==
  IF tasks = <<>> \/ DuplicateName THEN "ValidationFailed"
  ELSE IF Faulty = {} THEN "none"
  ELSE Fault(tasks[CHOOSE i \in Faulty : \A j \in Faulty : i <= j])

Orderings(S) == Bijection(1..Cardinality(S), S)

-----------------------------------------------------------------------------
Init ==
  /\ tasks \in Definitions
  /\ stage = "check" /\ result = "none"
  /\ inDegree = <<>> /\ queue = <<>> /\ order = <<>>
  /\ node = <<>> /\ next = 0

\* in_degree, and the queue of its zero entries.
Seed ==
  /\ inDegree' = [n \in Names |-> Len(Task(n).depends_on)]
  /\ queue' \in Orderings(Roots)
  /\ order' = <<>>
  /\ next' = Len(tasks) + 1

Check ==
  /\ stage = "check"
  /\ IF Refusal = "none"
     THEN /\ Seed
          /\ stage' = "validate"
          /\ UNCHANGED result
     ELSE /\ stage' = "refused"
          /\ result' = Refusal
          /\ UNCHANGED <<inDegree, queue, order, next>>
  /\ UNCHANGED <<tasks, node>>

Sorting == stage \in {"validate", "sort"}

TakeNode ==
  /\ Sorting /\ next > Len(tasks) /\ queue # <<>>
  /\ node' = Head(queue)
  /\ queue' = Tail(queue)
  /\ order' = Append(order, Head(queue))
  /\ next' = 1
  /\ UNCHANGED <<tasks, stage, inDegree, result>>

\* The decrement that brings a count to zero queues the task.
AnyDecrement(n)  == TRUE
LastDecrement(n) == inDegree[n] = 1

PushFront(n) == <<n>> \o queue
PushBack(n)  == Append(queue, n)

VisitTask ==
  /\ Sorting /\ next <= Len(tasks)
  /\ next' = next + 1
  /\ LET n == tasks[next].name IN
     IF node \in Deps(tasks[next])
     THEN /\ inDegree' = [inDegree EXCEPT ![n] = @ - 1]
          /\ queue' = IF LastDecrement(n) THEN PushBack(n) ELSE queue
     ELSE UNCHANGED <<inDegree, queue>>
  /\ UNCHANGED <<tasks, stage, node, order, result>>

\* visited == tasks.len()
SomeVisited == order # <<>>
AllVisited  == Len(order) = Len(tasks)

EndOfQueue == Sorting /\ next > Len(tasks) /\ queue = <<>>

EndValidate ==
  /\ stage = "validate" /\ EndOfQueue
  /\ IF AllVisited
     THEN stage' = "valid" /\ result' = "ok"
     ELSE stage' = "refused" /\ result' = "CyclicDependency"
  /\ UNCHANGED <<tasks, inDegree, queue, node, next, order>>

\* topological_order goes on after validate.
StartSort ==
  /\ stage = "valid"
  /\ Seed
  /\ stage' = "sort"
  /\ UNCHANGED <<tasks, node, result>>

EndSort ==
  /\ stage = "sort" /\ EndOfQueue
  /\ stage' = "sorted"
  /\ UNCHANGED <<tasks, inDegree, queue, node, next, order, result>>

Next == Check \/ TakeNode \/ VisitTask \/ EndValidate \/ StartSort \/ EndSort

Spec == Init /\ [][Next]_vars

-----------------------------------------------------------------------------
(* Properties. *)

\* Every variable has its type: in particular no count of in_degree, an unsigned
\* integer, is ever decremented below zero.
TypeOK ==
  /\ tasks \in Seq(TaskDefinitions)
  /\ stage \in {"check", "validate", "valid", "sort", "sorted", "refused"}
  /\ stage \in {"validate", "valid", "sort", "sorted"} => inDegree \in [Names -> Nat]
  /\ queue \in Seq(Names) /\ order \in Seq(Names)
  /\ next \in 0..Len(tasks) + 1
  /\ Sorting /\ next <= Len(tasks) => next > 0 /\ node \in Names
  /\ result \in {"none", "ok"} \cup Errors

\* What is left of a set of tasks always has one that waits for none of them.
Acyclic ==
  \A S \in SUBSET Names : S # {} => \E n \in S : Deps(Task(n)) \cap S = {}

NoRepeatedDependency ==
  \A t \in Range(tasks) : \A i, j \in DOMAIN t.depends_on :
    t.depends_on[i] = t.depends_on[j] => i = j

Consistent ==
  /\ tasks # <<>>
  /\ ~DuplicateName
  /\ \A t \in Range(tasks) : Deps(t) \subseteq Names /\ t.input_from \subseteq Deps(t)

\* validate accepts exactly the consistent acyclic definitions without a repeated
\* dependency, whatever order the HashMap starts the sort in.
ValidateIsExact ==
  stage \in {"valid", "refused"} =>
    (result = "ok" <=> Consistent /\ Acyclic /\ NoRepeatedDependency)

\* A task is visited after everything it depends on, and once.
DependenciesFirst ==
  \A i \in 1..Len(order) :
    /\ \A d \in Deps(Task(order[i])) : \E j \in 1..i-1 : order[j] = d
    /\ \A j \in 1..Len(order) : order[i] = order[j] => i = j

\* topological_order returns every task, after everything it depends on, "roots first".
OrderIsComplete ==
  stage = "sorted" =>
    /\ Range(order) = Names /\ Len(order) = Len(tasks)
    /\ \A i \in 1..Len(order) : order[i] \in Roots <=> i <= Cardinality(Roots)

=============================================================================
