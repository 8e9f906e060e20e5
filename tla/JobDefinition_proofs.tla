-------------------------- MODULE JobDefinition_proofs --------------------------
(***************************************************************************)
(* Proofs about JobDefinition, for every set of job definitions: validate   *)
(* accepts exactly the good ones and topological_order orders them.         *)
(***************************************************************************)
EXTENDS JobDefinition, FiniteSetTheorems, SequenceTheorems, WellFoundedInduction, TLAPS

(* The visited names followed by the queue: what a sort never reorders.       *)
LineLength == Len(order) + Len(queue)
Line(p)    == IF p <= Len(order) THEN order[p] ELSE queue[p - Len(order)]

InLine(n)  == \E p \in 1..LineLength : Line(p) = n
Visited(n) == \E p \in 1..Len(order) : order[p] = n

(* The dependencies of task i that have been counted off its in_degree: those *)
(* visited, without the one the inner loop has not brought to i yet.          *)
Met(i) == {n \in Deps(tasks[i]) : Visited(n) /\ (next <= i => n # node)}

Counts ==
  \A i \in 1..Len(tasks) :
    inDegree[tasks[i].name] = Len(tasks[i].depends_on) - Cardinality(Met(i))

ZeroesInLine ==
  \A i \in 1..Len(tasks) : inDegree[tasks[i].name] = 0 <=> InLine(tasks[i].name)

LineDistinct == \A p, r \in 1..LineLength : Line(p) = Line(r) => p = r

RootsLead ==
  /\ Cardinality(Roots) \in 0..LineLength
  /\ \A p \in 1..LineLength : Line(p) \in Roots <=> p <= Cardinality(Roots)

InnerLoop == next >= 1 /\ (next <= Len(tasks) => Visited(node))

Progress ==
  Consistent /\ Counts /\ ZeroesInLine /\ LineDistinct /\ RootsLead /\ InnerLoop

Started == stage \in {"validate", "valid", "sort", "sorted"}


(* Where no sort is going on, the last one is over.                           *)
AtRest == stage \in {"valid", "sorted"} => next > Len(tasks) /\ queue = <<>> /\ AllVisited

Accepted == stage \in {"valid", "sort", "sorted"} => Acyclic /\ NoRepeatedDependency

Inv ==
  /\ TypeOK
  /\ Started => Progress
  /\ stage = "check" => order = <<>>
  /\ DependenciesFirst /\ AtRest /\ Accepted /\ ValidateIsExact

-----------------------------------------------------------------------------
(* Sequences and tasks. *)

\* How many values a sequence has, and when they are all different.
LEMMA RangeCount ==
  ASSUME NEW S, NEW s \in Seq(S)
  PROVE  /\ Range(s) \subseteq S
         /\ Range(s) = {s[i] : i \in 1..Len(s)}
         /\ IsFiniteSet(Range(s)) /\ Cardinality(Range(s)) \in Nat
         /\ Cardinality(Range(s)) <= Len(s)
         /\ Cardinality(Range(s)) = Len(s) <=>
              \A i, j \in 1..Len(s) : s[i] = s[j] => i = j
<1>1. s \in [1..Len(s) -> S] /\ DOMAIN s = 1..Len(s) /\ Len(s) \in Nat
  BY LenProperties
<1>2. Range(s) = {s[i] : i \in 1..Len(s)} /\ Range(s) \subseteq S
  BY <1>1 DEF Range
<1>3. s \in Surjection(1..Len(s), Range(s))
  BY <1>1, <1>2 DEF Surjection
<1>4. IsFiniteSet(1..Len(s)) /\ Cardinality(1..Len(s)) = Len(s)
  <2>1. 1 \in Int /\ Len(s) \in Int
    BY <1>1
  <2>2. /\ IsFiniteSet(1..Len(s))
        /\ Cardinality(1..Len(s)) = IF 1 > Len(s) THEN 0 ELSE Len(s) - 1 + 1
    BY <2>1, FS_Interval
  <2> QED
    BY <1>1, <2>2
<1>5. s \in Injection(1..Len(s), Range(s)) <=>
        \A i, j \in 1..Len(s) : s[i] = s[j] => i = j
  BY <1>1, <1>3 DEF Injection, Surjection, IsInjective
<1>6. /\ IsFiniteSet(Range(s)) /\ Cardinality(Range(s)) <= Cardinality(1..Len(s))
      /\ Cardinality(Range(s)) = Cardinality(1..Len(s)) <=> s \in Injection(1..Len(s), Range(s))
  BY <1>3, <1>4, FS_Surjection
<1> QED
  BY <1>2, <1>4, <1>5, <1>6, FS_CardinalityType

\* Each task of a list of task definitions, and its name.
LEMMA TaskFacts ==
  ASSUME tasks \in Seq(TaskDefinitions)
  PROVE  /\ Len(tasks) \in Nat /\ DOMAIN tasks = 1..Len(tasks)
         /\ \A i \in 1..Len(tasks) :
              /\ tasks[i] \in TaskDefinitions /\ tasks[i].name \in Names
              /\ tasks[i].depends_on \in Seq(TaskNames)
              /\ Len(tasks[i].depends_on) \in Nat
         /\ \A n \in Names : \E i \in 1..Len(tasks) : tasks[i].name = n
<1>1. Len(tasks) \in Nat /\ DOMAIN tasks = 1..Len(tasks)
  BY LenProperties
<1>2. \A i \in 1..Len(tasks) : tasks[i] \in TaskDefinitions
  BY ElementOfSeq
<1>3. \A i \in 1..Len(tasks) : tasks[i].name \in Names
  BY <1>1 DEF Names
<1>4. \A i \in 1..Len(tasks) : tasks[i].depends_on \in Seq(TaskNames)
  BY <1>2 DEF TaskDefinitions
<1>5. \A i \in 1..Len(tasks) : Len(tasks[i].depends_on) \in Nat
  BY <1>4, LenProperties
<1>6. \A n \in Names : \E i \in 1..Len(tasks) : tasks[i].name = n
  BY <1>1 DEF Names
<1> QED
  BY <1>1, <1>2, <1>3, <1>4, <1>5, <1>6

\* In a consistent definition a name means one task.
LEMMA TaskByName ==
  ASSUME tasks \in Seq(TaskDefinitions), ~DuplicateName, NEW i \in 1..Len(tasks)
  PROVE  Task(tasks[i].name) = tasks[i]
  BY TaskFacts DEF DuplicateName, Task

\* There are as many names as tasks.
LEMMA NamesCount ==
  ASSUME tasks \in Seq(TaskDefinitions), ~DuplicateName
  PROVE  IsFiniteSet(Names) /\ Cardinality(Names) = Len(tasks)
<1> DEFINE s == [i \in 1..Len(tasks) |-> tasks[i].name]
<1>1. Len(tasks) \in Nat /\ DOMAIN tasks = 1..Len(tasks)
      /\ \A i \in 1..Len(tasks) : tasks[i].name \in Names
  BY TaskFacts
<1>2. s \in Seq(Names) /\ Len(s) = Len(tasks) /\ \A i \in 1..Len(s) : s[i] = tasks[i].name
  BY <1>1
<1>3. Range(s) = Names
  <2>1. Range(s) = {s[i] : i \in 1..Len(s)}
    BY <1>2, RangeCount
  <2> QED
    BY <2>1, <1>1, <1>2 DEF Names
<1>4. \A i, j \in 1..Len(s) : s[i] = s[j] => i = j
  BY <1>1, <1>2 DEF DuplicateName
<1> HIDE DEF s
<1> QED
  BY <1>2, <1>3, <1>4, RangeCount

\* The dependencies of a task of a consistent definition.
LEMMA DepsFacts ==
  ASSUME tasks \in Seq(TaskDefinitions), Consistent, NEW i \in 1..Len(tasks)
  PROVE  /\ Deps(tasks[i]) \subseteq Names /\ IsFiniteSet(Deps(tasks[i]))
         /\ Cardinality(Deps(tasks[i])) \in Nat
         /\ Cardinality(Deps(tasks[i])) <= Len(tasks[i].depends_on)
         /\ Cardinality(Deps(tasks[i])) = Len(tasks[i].depends_on) <=>
              \A p, r \in DOMAIN tasks[i].depends_on :
                tasks[i].depends_on[p] = tasks[i].depends_on[r] => p = r
<1>1. tasks[i].depends_on \in Seq(TaskNames) /\ tasks[i] \in Range(tasks)
  BY TaskFacts DEF Range
<1>2. DOMAIN tasks[i].depends_on = 1..Len(tasks[i].depends_on)
  BY <1>1, LenProperties
<1> QED
  BY <1>1, <1>2, RangeCount DEF Consistent, Deps

\* Met dependencies are dependencies: counting them stays within the list.
LEMMA MetFacts ==
  ASSUME tasks \in Seq(TaskDefinitions), Consistent, NEW i \in 1..Len(tasks)
  PROVE  /\ Met(i) \subseteq Deps(tasks[i]) /\ IsFiniteSet(Met(i))
         /\ Cardinality(Met(i)) \in Nat
         /\ Cardinality(Met(i)) <= Cardinality(Deps(tasks[i]))
         /\ Cardinality(Met(i)) = Cardinality(Deps(tasks[i])) => Met(i) = Deps(tasks[i])
<1>1. Met(i) \subseteq Deps(tasks[i])
  BY DEF Met
<1> QED
  BY <1>1, DepsFacts, FS_Subset, FS_CardinalityType

-----------------------------------------------------------------------------
(* A sort. *)

\* A task is in the line exactly when everything it depends on has been met: its
\* in_degree is zero then and only then if no dependency is repeated.
LEMMA InLineMeansMet ==
  ASSUME tasks \in Seq(TaskDefinitions), Progress, NEW i \in 1..Len(tasks),
         InLine(tasks[i].name)
  PROVE  /\ Met(i) = Deps(tasks[i])
         /\ Cardinality(Deps(tasks[i])) = Len(tasks[i].depends_on)
<1>1. inDegree[tasks[i].name] = 0
  BY DEF Progress, ZeroesInLine
<1>2. 0 = Len(tasks[i].depends_on) - Cardinality(Met(i))
  BY <1>1 DEF Progress, Counts
<1> QED
  BY <1>2, TaskFacts, DepsFacts, MetFacts DEF Progress

\* The head of the queue is the entry of the line behind the visited names.
LEMMA QueueHead ==
  ASSUME TypeOK, LineDistinct, queue # <<>>
  PROVE  /\ Head(queue) \in Names /\ Tail(queue) \in Seq(Names)
         /\ Line(Len(order) + 1) = Head(queue) /\ InLine(Head(queue))
         /\ ~Visited(Head(queue))
         /\ Len(order) \in Nat /\ Len(queue) \in Nat /\ Len(queue) > 0
<1>1. Head(queue) \in Names /\ Tail(queue) \in Seq(Names)
  BY HeadTailProperties DEF TypeOK
<1>2. Len(order) \in Nat /\ Len(queue) \in Nat /\ Len(queue) > 0
  BY EmptySeq, LenProperties DEF TypeOK
<1>3. Line(Len(order) + 1) = Head(queue)
  BY <1>2 DEF Line, TypeOK
<1>4. \A p \in 1..Len(order) : Line(p) = order[p]
  BY <1>2 DEF Line
<1>5. Len(order) + 1 \in 1..LineLength /\ 1..Len(order) \subseteq 1..LineLength
  BY <1>2 DEF LineLength
<1>6. InLine(Head(queue))
  BY <1>3, <1>5 DEF InLine
<1>7. ASSUME NEW p \in 1..Len(order), order[p] = Head(queue)
      PROVE  FALSE
  <2>1. Line(p) = Line(Len(order) + 1) /\ p \in 1..LineLength
    BY <1>3, <1>4, <1>5, <1>7
  <2>2. p = Len(order) + 1
    BY <2>1, <1>5 DEF LineDistinct
  <2> QED
    BY <2>2, <1>2
<1> QED
  BY <1>1, <1>2, <1>3, <1>6, <1>7 DEF Visited

\* What depends on the definition alone does not change while it is sorted.
LEMMA SameDefinition ==
  ASSUME tasks' = tasks
  PROVE  /\ Names' = Names /\ Roots' = Roots
         /\ Consistent' = Consistent /\ Acyclic' = Acyclic
         /\ NoRepeatedDependency' = NoRepeatedDependency
         /\ \A n : Task(n)' = Task(n)
<1>1. Names' = Names /\ DuplicateName' = DuplicateName
  BY DEF Names, DuplicateName
<1>2. \A n : Task(n)' = Task(n)
  BY DEF Task
<1> QED
  BY <1>1, <1>2 DEF Roots, Consistent, Acyclic, NoRepeatedDependency, Deps

\* Steps that leave the sort alone leave what is said of it alone.
LEMMA SameSort ==
  ASSUME UNCHANGED <<tasks, inDegree, queue, node, next, order>>
  PROVE  /\ Progress => Progress'
         /\ DependenciesFirst => DependenciesFirst'
         /\ AllVisited' = AllVisited
<1>1. /\ tasks' = tasks /\ inDegree' = inDegree /\ queue' = queue
      /\ node' = node /\ next' = next /\ order' = order
  OBVIOUS
<1>2. /\ Roots' = Roots /\ Consistent' = Consistent /\ \A n : Task(n)' = Task(n)
  BY <1>1, SameDefinition
<1>3. LineLength' = LineLength /\ \A p : Line(p)' = Line(p)
  BY <1>1 DEF LineLength, Line
<1>4. \A n : (InLine(n)' <=> InLine(n)) /\ (Visited(n)' <=> Visited(n))
  BY <1>1, <1>3 DEF InLine, Visited
<1>5. \A i : Met(i)' = Met(i)
  BY <1>1, <1>4 DEF Met, Deps
<1>6. /\ Counts => Counts'
      /\ ZeroesInLine => ZeroesInLine'
  BY <1>1, <1>4, <1>5 DEF Counts, ZeroesInLine
<1>7. /\ LineDistinct => LineDistinct'
      /\ RootsLead => RootsLead'
  BY <1>2, <1>3 DEF LineDistinct, RootsLead
<1>8. InnerLoop => InnerLoop'
  <2>1. Visited(node)' <=> Visited(node)
    BY <1>1 DEF Visited
  <2> QED
    BY <1>1, <2>1 DEF InnerLoop
<1>9. DependenciesFirst => DependenciesFirst'
  <2>1. \A n : Deps(Task(n))' = Deps(Task(n))
    BY <1>2 DEF Deps
  <2> QED
    BY <1>1, <2>1 DEF DependenciesFirst
<1>10. AllVisited' = AllVisited
  BY <1>1 DEF AllVisited
<1> QED
  BY <1>2, <1>6, <1>7, <1>8, <1>9, <1>10 DEF Progress

\* A sort begins well: nothing visited, the roots queued, every count full.
LEMMA SeedProgress ==
  ASSUME tasks \in Seq(TaskDefinitions), Consistent, Seed, tasks' = tasks
  PROVE  /\ Progress'
         /\ queue' \in Seq(Names) /\ order' = <<>> /\ inDegree' \in [Names -> Nat]
         /\ next' = Len(tasks) + 1 /\ Len(tasks) \in Nat
<1> DEFINE c == Cardinality(Roots)
<1>1. /\ Roots \subseteq Names /\ IsFiniteSet(Roots) /\ c \in Nat
      /\ ~DuplicateName /\ Len(tasks) \in Nat
  <2>1. Roots \subseteq Names /\ ~DuplicateName
    BY DEF Roots, Consistent
  <2>2. IsFiniteSet(Names)
    BY <2>1, NamesCount
  <2> QED
    BY <2>1, <2>2, FS_Subset, FS_CardinalityType, TaskFacts
<1>2. /\ queue' \in [1..c -> Roots]
      /\ \A p, r \in 1..c : queue'[p] = queue'[r] => p = r
      /\ \A n \in Roots : \E p \in 1..c : queue'[p] = n
  BY DEF Seed, Orderings, Bijection, Injection, Surjection, IsInjective
<1>3. order' = <<>> /\ next' = Len(tasks) + 1
  BY DEF Seed
<1>4. \A i \in 1..Len(tasks) : Task(tasks[i].name) = tasks[i]
  BY <1>1, TaskByName
<1> HIDE DEF c
<1>5. queue' \in Seq(Names) /\ Len(queue') = c
  BY <1>1, <1>2
<1>6. LineLength' = c /\ \A p \in 1..c : Line(p)' = queue'[p]
  BY <1>1, <1>3, <1>5 DEF LineLength, Line
<1>7. \A n : InLine(n)' <=> n \in Roots
  BY <1>2, <1>6 DEF InLine
<1>8. \A i \in 1..Len(tasks) : Met(i)' = {}
  BY <1>3 DEF Met, Visited
<1>9. /\ inDegree' \in [Names -> Nat]
      /\ \A i \in 1..Len(tasks) : inDegree'[tasks[i].name] = Len(tasks[i].depends_on)
  <2>1. inDegree' = [n \in Names |-> Len(Task(n).depends_on)]
    BY DEF Seed
  <2>2. \A n \in Names : Len(Task(n).depends_on) \in Nat
    BY <1>4, TaskFacts
  <2>3. \A i \in 1..Len(tasks) : tasks[i].name \in Names
    BY TaskFacts
  <2> QED
    BY <2>1, <2>2, <2>3, <1>4
<1>10. Counts'
  <2> SUFFICES ASSUME NEW i \in 1..Len(tasks)
               PROVE  inDegree'[tasks[i].name] =
                        Len(tasks[i].depends_on) - Cardinality(Met(i)')
    BY DEF Counts
  <2>1. Cardinality(Met(i)') = 0
    BY <1>8, FS_EmptySet
  <2> QED
    BY <2>1, <1>9, TaskFacts
<1>11. ZeroesInLine'
  <2> SUFFICES ASSUME NEW i \in 1..Len(tasks)
               PROVE  inDegree'[tasks[i].name] = 0 <=> InLine(tasks[i].name)'
    BY DEF ZeroesInLine
  <2>1. tasks[i].name \in Roots <=> tasks[i].depends_on = <<>>
    BY <1>4, TaskFacts DEF Roots
  <2>2. tasks[i].depends_on = <<>> <=> Len(tasks[i].depends_on) = 0
    BY TaskFacts, EmptySeq
  <2> QED
    BY <2>1, <2>2, <1>7, <1>9
<1>12. LineDistinct'
  BY <1>2, <1>6 DEF LineDistinct
<1>13. RootsLead'
  <2>1. Roots' = Roots
    BY SameDefinition
  <2>2. \A p \in 1..c : Line(p)' \in Roots /\ p <= c
    BY <1>1, <1>2, <1>6
  <2> QED
    BY <2>1, <2>2, <1>1, <1>6 DEF RootsLead, c
<1>14. InnerLoop'
  BY <1>1, <1>3 DEF InnerLoop
<1>15. Consistent'
  BY SameDefinition
<1> QED
  BY <1>1, <1>3, <1>5, <1>9, <1>10, <1>11, <1>12, <1>13, <1>14, <1>15 DEF Progress

\* Taking a name from the queue leaves the line and the counts alone, and it comes
\* after everything it depends on.
LEMMA TakeProgress ==
  ASSUME TypeOK, Progress, DependenciesFirst, TakeNode
  PROVE  /\ Progress' /\ DependenciesFirst'
         /\ queue' \in Seq(Names) /\ order' \in Seq(Names) /\ node' \in Names
<1> DEFINE h == Head(queue)
           k == Len(order)
<1>1. /\ queue # <<>> /\ next > Len(tasks) /\ tasks' = tasks /\ inDegree' = inDegree
      /\ node' = h /\ next' = 1 /\ queue' = Tail(queue) /\ order' = Append(order, h)
  BY DEF TakeNode
<1>2. /\ h \in Names /\ Tail(queue) \in Seq(Names)
      /\ Line(k + 1) = h /\ InLine(h) /\ ~Visited(h)
      /\ k \in Nat /\ Len(queue) \in Nat /\ Len(queue) > 0
  BY <1>1, QueueHead DEF Progress
<1>3. /\ order' \in Seq(Names) /\ Len(order') = k + 1
      /\ \A p \in 1..k : order'[p] = order[p]
      /\ order'[k + 1] = h
  BY <1>1, <1>2 DEF TypeOK
<1>4. /\ Len(queue') = Len(queue) - 1
      /\ \A p \in 1..Len(queue) - 1 : queue'[p] = queue[p + 1]
  BY <1>1, <1>2, HeadTailProperties DEF TypeOK
<1> HIDE DEF h
<1>5. LineLength' = LineLength
  BY <1>2, <1>3, <1>4 DEF LineLength
<1>6. \A p \in 1..LineLength : Line(p)' = Line(p)
  <2> SUFFICES ASSUME NEW p \in 1..LineLength
               PROVE  Line(p)' = Line(p)
    OBVIOUS
  <2>1. CASE p <= k
    BY <2>1, <1>2, <1>3 DEF Line
  <2>2. CASE p = k + 1
    BY <2>2, <1>2, <1>3 DEF Line
  <2>3. CASE p > k + 1
    <3>1. p - (k + 1) \in 1..Len(queue) - 1
      BY <2>3, <1>2 DEF LineLength
    <3>2. queue'[p - (k + 1)] = queue[p - k]
      BY <3>1, <1>2, <1>4
    <3> QED
      BY <3>2, <2>3, <1>2, <1>3 DEF Line
  <2> QED
    BY <2>1, <2>2, <2>3, <1>2 DEF LineLength
<1>7. \A n : InLine(n)' <=> InLine(n)
  BY <1>5, <1>6 DEF InLine
<1>8. \A n : Visited(n)' <=> Visited(n) \/ n = h
  BY <1>2, <1>3 DEF Visited
<1>9. Names' = Names /\ Roots' = Roots /\ Consistent' /\ \A n : Task(n)' = Task(n)
  BY <1>1, SameDefinition DEF Progress
<1>10. Len(tasks) \in Nat
  BY TaskFacts DEF TypeOK
<1>11. \A i \in 1..Len(tasks) : Met(i)' = Met(i)
  BY <1>1, <1>2, <1>8, <1>10 DEF Met, Deps, TypeOK
<1>12. Counts' /\ ZeroesInLine'
  BY <1>1, <1>7, <1>11 DEF Progress, Counts, ZeroesInLine
<1>13. LineDistinct' /\ RootsLead'
  BY <1>5, <1>6, <1>9 DEF Progress, LineDistinct, RootsLead
<1>14. InnerLoop'
  BY <1>1, <1>8 DEF InnerLoop
<1>15. DependenciesFirst'
  <2>1. ASSUME NEW p \in 1..k, NEW d \in Deps(Task(order[p]))
        PROVE  \E r \in 1..p-1 : order[r] = d
    BY <2>1 DEF DependenciesFirst
  <2>2. ASSUME NEW d \in Deps(Task(h))
        PROVE  Visited(d)
    <3>1. PICK i \in 1..Len(tasks) : tasks[i].name = h
      BY <1>2, TaskFacts DEF TypeOK
    <3>2. Task(h) = tasks[i]
      BY <3>1, TaskByName DEF Progress, Consistent, TypeOK
    <3>3. Met(i) = Deps(tasks[i])
      BY <3>1, <1>2, InLineMeansMet DEF TypeOK
    <3> QED
      BY <2>2, <3>2, <3>3 DEF Met
  <2>3. ASSUME NEW p \in 1..k + 1, NEW d \in Deps(Task(order'[p]))
        PROVE  \E r \in 1..p-1 : order'[r] = d
    <3>1. CASE p <= k
      <4>1. p \in 1..k /\ order'[p] = order[p]
        BY <3>1, <1>2, <1>3
      <4>2. PICK r \in 1..p-1 : order[r] = d
        BY <4>1, <2>1, <2>3
      <4>3. order'[r] = order[r]
        BY <4>1, <1>2, <1>3
      <4> QED
        BY <4>2, <4>3
    <3>2. CASE p = k + 1
      BY <3>2, <2>2, <2>3, <1>2, <1>3 DEF Visited
    <3> QED
      BY <3>1, <3>2, <1>2
  <2>4. \A p, r \in 1..k + 1 : order'[p] = order'[r] => p = r
    <3>1. \A p \in 1..k + 1 : p \in 1..LineLength /\ order'[p] = Line(p)
      BY <1>2, <1>3 DEF LineLength, Line
    <3> QED
      BY <3>1 DEF Progress, LineDistinct
  <2>5. \A n : Deps(Task(n))' = Deps(Task(n))
    BY <1>9 DEF Deps
  <2> QED
    BY <2>3, <2>4, <2>5, <1>3 DEF DependenciesFirst
<1> QED
  BY <1>1, <1>2, <1>3, <1>9, <1>12, <1>13, <1>14, <1>15 DEF Progress

\* A turn of the inner loop: the count of a task that waits for the node goes down by
\* one, and the task joins the line when, and only when, it reaches zero.
LEMMA VisitProgress ==
  ASSUME TypeOK, Progress, VisitTask
  PROVE  Progress' /\ queue' \in Seq(Names) /\ inDegree' \in [Names -> Nat]
<1>0. PICK t \in 1..Len(tasks), n \in Names : t = next /\ n = tasks[t].name
  <2>1. next \in 1..Len(tasks)
    BY TaskFacts DEF TypeOK, Progress, InnerLoop, VisitTask
  <2> QED
    BY <2>1, TaskFacts DEF TypeOK
<1>1. /\ next <= Len(tasks) /\ next' = next + 1
      /\ tasks' = tasks /\ node' = node /\ order' = order
  BY DEF VisitTask
<1>2. Len(tasks) \in Nat /\ next \in 1..Len(tasks) /\ Visited(node)
  BY <1>1, TaskFacts DEF TypeOK, Progress, InnerLoop
<1>3. Len(order) \in Nat /\ Len(queue) \in Nat
  BY LenProperties DEF TypeOK
<1>4. \A m : Visited(m)' <=> Visited(m)
  BY <1>1 DEF Visited
<1>5. Names' = Names /\ Roots' = Roots /\ Consistent' /\ \A m : Task(m)' = Task(m)
  BY <1>1, SameDefinition DEF Progress
<1>6. InnerLoop'
  BY <1>1, <1>0, <1>2, <1>4 DEF InnerLoop
<1>7. \A i \in 1..Len(tasks) : i # t => Met(i)' = Met(i) /\ tasks[i].name # n
  <2>1. \A i \in 1..Len(tasks) : i # t => tasks[i].name # n
    BY <1>0, TaskFacts DEF Progress, Consistent, DuplicateName, TypeOK
  <2>2. \A i \in 1..Len(tasks) : i # t => (next' <= i <=> next <= i)
    BY <1>0, <1>1, <1>2
  <2>3. \A i \in 1..Len(tasks) : i # t => Met(i)' = Met(i)
    BY <2>2, <1>1, <1>4 DEF Met, Deps
  <2> QED
    BY <2>1, <2>3
<1>8. /\ Met(t)' = {m \in Deps(tasks[t]) : Visited(m)}
      /\ Met(t) = {m \in Deps(tasks[t]) : Visited(m) /\ m # node}
  <2>1. ~(next' <= t) /\ next <= t
    BY <1>0, <1>1, <1>2
  <2> QED
    BY <2>1, <1>1, <1>4 DEF Met, Deps
<1>9. inDegree \in [Names -> Nat]
  BY DEF TypeOK, VisitTask, Sorting
<1>10. CASE node \notin Deps(tasks[t])
  <2>1. inDegree' = inDegree /\ queue' = queue
    BY <1>0, <1>10 DEF VisitTask
  <2>2. Met(t)' = Met(t)
    BY <1>8, <1>10
  <2>3. LineLength' = LineLength /\ \A p : Line(p)' = Line(p)
    BY <1>1, <2>1 DEF LineLength, Line
  <2>4. Counts'
    <3>1. \A i \in 1..Len(tasks) : Met(i)' = Met(i)
      BY <1>7, <2>2
    <3> QED
      BY <3>1, <1>1, <2>1 DEF Progress, Counts
  <2>5. \A m : InLine(m)' <=> InLine(m)
    BY <2>3 DEF InLine
  <2>6. ZeroesInLine' /\ LineDistinct' /\ RootsLead'
    BY <1>1, <1>5, <2>1, <2>3, <2>5 DEF Progress, ZeroesInLine, LineDistinct, RootsLead
  <2> QED
    BY <1>5, <1>6, <1>9, <2>1, <2>4, <2>6 DEF Progress, TypeOK
<1>11. CASE node \in Deps(tasks[t])
  <2>1. /\ inDegree' = [inDegree EXCEPT ![n] = @ - 1]
        /\ queue' = IF inDegree[n] = 1 THEN Append(queue, n) ELSE queue
    BY <1>0, <1>11 DEF VisitTask, LastDecrement, PushBack
  <2>2. Met(t)' = Met(t) \cup {node} /\ node \notin Met(t)
    BY <1>0, <1>2, <1>8, <1>11
  <2>3. Cardinality(Met(t)') = Cardinality(Met(t)) + 1
    BY <2>2, <1>0, <1>2, MetFacts, FS_AddElement DEF TypeOK, Progress
  <2>4. Cardinality(Met(t)') <= Cardinality(Deps(tasks[t]))
    <3>1. Met(t)' \subseteq Deps(tasks[t])
      BY <1>8
    <3> QED
      BY <3>1, <1>0, <1>2, DepsFacts, FS_Subset DEF TypeOK, Progress
  <2>5. /\ Cardinality(Met(t)) \in Nat /\ Len(tasks[t].depends_on) \in Nat
        /\ Cardinality(Deps(tasks[t])) \in Nat
        /\ Cardinality(Deps(tasks[t])) <= Len(tasks[t].depends_on)
    BY <1>0, <1>2, MetFacts, DepsFacts, TaskFacts DEF TypeOK, Progress
  <2>6. /\ inDegree[n] = Len(tasks[t].depends_on) - Cardinality(Met(t))
        /\ inDegree[n] >= 1
    BY <2>3, <2>4, <2>5, <1>0, <1>2 DEF Progress, Counts
  <2>7. ~InLine(n)
    BY <2>6, <1>0, <1>2 DEF Progress, ZeroesInLine
  <2>8. /\ inDegree'[n] = inDegree[n] - 1 /\ inDegree' \in [Names -> Nat]
        /\ \A i \in 1..Len(tasks) : i # t =>
             inDegree'[tasks[i].name] = inDegree[tasks[i].name]
    BY <2>1, <2>6, <1>0, <1>2, <1>7, <1>9, TaskFacts DEF TypeOK
  <2>9. Counts'
    <3> SUFFICES ASSUME NEW i \in 1..Len(tasks)
                 PROVE  inDegree'[tasks[i].name] =
                          Len(tasks[i].depends_on) - Cardinality(Met(i)')
      BY <1>1 DEF Counts
    <3>1. CASE i = t
      <4>1. inDegree'[n] = Len(tasks[t].depends_on) - Cardinality(Met(t)')
        BY <2>3, <2>5, <2>6, <2>8
      <4>2. tasks[i].name = n /\ Met(i)' = Met(t)'
        BY <3>1, <1>0
      <4> QED
        BY <4>1, <4>2, <3>1
    <3>2. CASE i # t
      BY <3>2, <1>7, <2>8 DEF Progress, Counts
    <3> QED
      BY <3>1, <3>2
  <2>10. CASE inDegree[n] # 1
    <3>1. queue' = queue
      BY <2>1, <2>10
    <3>2. LineLength' = LineLength /\ \A p : Line(p)' = Line(p)
      BY <1>1, <3>1 DEF LineLength, Line
    <3>3. \A m : InLine(m)' <=> InLine(m)
      BY <3>2 DEF InLine
    <3>4. ZeroesInLine'
      <4> SUFFICES ASSUME NEW i \in 1..Len(tasks)
                   PROVE  inDegree'[tasks[i].name] = 0 <=> InLine(tasks[i].name)
        BY <1>1, <3>3 DEF ZeroesInLine
      <4>1. CASE i = t
        BY <4>1, <2>6, <2>7, <2>8, <2>10, <1>0, <1>2, <1>9
      <4>2. CASE i # t
        BY <4>2, <2>8 DEF Progress, ZeroesInLine
      <4> QED
        BY <4>1, <4>2
    <3>5. LineDistinct' /\ RootsLead'
      BY <1>5, <3>2 DEF Progress, LineDistinct, RootsLead
    <3> QED
      BY <1>5, <1>6, <2>8, <2>9, <3>1, <3>4, <3>5 DEF Progress, TypeOK
  <2>11. CASE inDegree[n] = 1
    <3>0. PICK l \in Nat : l = LineLength
      BY <1>3 DEF LineLength
    <3>1. /\ queue' = Append(queue, n) /\ queue' \in Seq(Names)
          /\ Len(queue') = Len(queue) + 1 /\ queue'[Len(queue) + 1] = n
          /\ \A p \in 1..Len(queue) : queue'[p] = queue[p]
      BY <3>0, <2>1, <2>11, <1>0, <1>2 DEF TypeOK
    <3>2. /\ LineLength' = l + 1
          /\ \A p \in 1..l : Line(p)' = Line(p)
          /\ Line(l + 1)' = n
      BY <3>0, <1>1, <1>3, <3>1 DEF LineLength, Line
    <3>3. \A m : InLine(m)' <=> InLine(m) \/ m = n
      BY <3>0, <3>2, <1>3 DEF InLine
    <3>4. ZeroesInLine'
      <4> SUFFICES ASSUME NEW i \in 1..Len(tasks)
                   PROVE  inDegree'[tasks[i].name] = 0
                            <=> InLine(tasks[i].name) \/ tasks[i].name = n
        BY <3>0, <1>1, <3>3 DEF ZeroesInLine
      <4>1. CASE i = t
        <5>1. tasks[i].name = n /\ inDegree'[n] = 0
          BY <4>1, <1>0, <2>8, <2>11
        <5> QED
          BY <5>1
      <4>2. CASE i # t
        BY <3>0, <4>2, <1>7, <2>8 DEF Progress, ZeroesInLine
      <4> QED
        BY <3>0, <4>1, <4>2
    <3>5. LineDistinct'
      <4> SUFFICES ASSUME NEW p \in 1..l + 1, NEW r \in 1..l + 1,
                          Line(p)' = Line(r)'
                   PROVE  p = r
        BY <3>0, <3>2 DEF LineDistinct
      <4>1. \A q \in 1..l : Line(q)' = Line(q) /\ Line(q) # n
        BY <3>0, <3>2, <2>7 DEF InLine
      <4>2. CASE p = l + 1 \/ r = l + 1
        BY <3>0, <4>1, <4>2, <3>2, <1>3
      <4>3. CASE p \in 1..l /\ r \in 1..l
        BY <3>0, <4>1, <4>3 DEF Progress, LineDistinct
      <4> QED
        BY <3>0, <4>2, <4>3, <1>3
    <3>6. RootsLead'
      <4>1. n \notin Roots
        <5>1. Task(n) = tasks[t]
          BY <3>0, <1>0, <1>2, TaskByName DEF TypeOK, Progress, Consistent
        <5>2. Len(tasks[t].depends_on) # 0
          BY <3>0, <2>5, <2>6
        <5> QED
          BY <3>0, <5>1, <5>2, EmptySeq DEF Roots
      <4>2. Cardinality(Roots) \in 0..l
        BY <3>0 DEF Progress, RootsLead
      <4>3. \A p \in 1..l : Line(p)' \in Roots <=> p <= Cardinality(Roots)
        BY <3>0, <3>2 DEF Progress, RootsLead
      <4>4. Line(l + 1)' \notin Roots /\ ~(l + 1 <= Cardinality(Roots))
        BY <3>0, <4>1, <4>2, <3>2, <1>3
      <4> QED
        BY <3>0, <4>2, <4>3, <4>4, <1>3, <1>5, <3>2 DEF RootsLead
    <3> QED
      BY <3>0, <1>5, <1>6, <2>8, <2>9, <3>1, <3>4, <3>5, <3>6 DEF Progress
  <2> QED
    BY <2>10, <2>11
<1> QED
  BY <1>10, <1>11

\* The least element of a set of naturals.
LEMMA LeastNatural ==
  ASSUME NEW P, P \subseteq Nat, P # {}
  PROVE  \E p \in P : \A r \in P : p <= r
<1>1. PICK p \in P : \A r \in P : ~(<<r, p>> \in OpToRel(<, Nat))
  BY NatLessThanWellFounded, WFMin
<1>2. \A r \in P : ~(r < p)
  BY <1>1 DEF OpToRel
<1> QED
  BY <1>2

\* When the queue runs dry the sort has visited every task exactly if the definition
\* has no cycle and repeats no dependency: the test of visited against the number of
\* tasks is right.
LEMMA ExactAtEnd ==
  ASSUME TypeOK, Progress, DependenciesFirst, next > Len(tasks), queue = <<>>
  PROVE  /\ AllVisited <=> Acyclic /\ NoRepeatedDependency
         /\ AllVisited => Range(order) = Names
         /\ LineLength = Len(order)
         /\ \A p \in 1..Len(order) : Line(p) = order[p]
<1>1. /\ Len(order) \in Nat /\ LineLength = Len(order)
      /\ \A p \in 1..Len(order) : Line(p) = order[p]
      /\ \A n : InLine(n) <=> Visited(n)
  <2>1. Len(order) \in Nat /\ Len(queue) = 0
    BY LenProperties, EmptySeq DEF TypeOK
  <2>2. LineLength = Len(order) /\ \A p \in 1..Len(order) : Line(p) = order[p]
    BY <2>1 DEF LineLength, Line
  <2> QED
    BY <2>1, <2>2 DEF InLine, Visited
<1>2. \A i \in 1..Len(tasks) : Met(i) = {d \in Deps(tasks[i]) : Visited(d)}
  <2>1. Len(tasks) \in Nat
    BY TaskFacts DEF TypeOK
  <2>2. \A i \in 1..Len(tasks) : ~(next <= i)
    BY <2>1 DEF TypeOK
  <2> QED
    BY <2>2 DEF Met
<1>3. /\ Range(order) \subseteq Names /\ Cardinality(Range(order)) = Len(order)
      /\ \A n : n \in Range(order) <=> Visited(n)
  <2>1. \A p, r \in 1..Len(order) : order[p] = order[r] => p = r
    BY DEF DependenciesFirst
  <2>2. Range(order) = {order[p] : p \in 1..Len(order)}
    BY RangeCount DEF TypeOK
  <2> QED
    BY <2>1, <2>2, RangeCount DEF Visited, TypeOK
<1>4. IsFiniteSet(Names) /\ Cardinality(Names) = Len(tasks)
  BY NamesCount DEF TypeOK, Progress, Consistent
<1>5. AllVisited <=> Range(order) = Names
  BY <1>3, <1>4, FS_Subset DEF AllVisited
<1>6. \A i \in 1..Len(tasks) : Task(tasks[i].name) = tasks[i] /\ tasks[i].name \in Names
  BY TaskByName, TaskFacts DEF TypeOK, Progress, Consistent
<1>7. ASSUME AllVisited
      PROVE  Acyclic
  <2> SUFFICES ASSUME NEW S \in SUBSET Names, S # {}
               PROVE  \E n \in S : Deps(Task(n)) \cap S = {}
    BY DEF Acyclic
  <2> DEFINE P == {p \in 1..Len(order) : order[p] \in S}
  <2>1. P \subseteq Nat /\ P # {}
    <3>1. PICK n \in S : Visited(n)
      BY <1>3, <1>5, <1>7
    <3> QED
      BY <1>1, <3>1 DEF Visited
  <2>2. PICK p \in P : \A r \in P : p <= r
    BY <2>1, LeastNatural
  <2>3. p \in 1..Len(order) /\ order[p] \in S
    BY <2>2
  <2>4. ASSUME NEW d \in Deps(Task(order[p])), d \in S
        PROVE  FALSE
    <3>1. PICK r \in 1..p-1 : order[r] = d
      BY <2>3 DEF DependenciesFirst
    <3>2. r \in P /\ r < p
      BY <3>1, <2>3, <2>4, <1>1
    <3> QED
      BY <3>1, <3>2, <2>2, <2>3, <1>1
  <2> QED
    BY <2>3, <2>4
<1>8. ASSUME AllVisited
      PROVE  NoRepeatedDependency
  <2> SUFFICES ASSUME NEW i \in 1..Len(tasks),
                      NEW p \in DOMAIN tasks[i].depends_on,
                      NEW r \in DOMAIN tasks[i].depends_on,
                      tasks[i].depends_on[p] = tasks[i].depends_on[r]
               PROVE  p = r
    <3>1. DOMAIN tasks = 1..Len(tasks)
      BY TaskFacts DEF TypeOK
    <3> QED
      BY <3>1 DEF NoRepeatedDependency, Range
  <2>1. InLine(tasks[i].name)
    BY <1>1, <1>3, <1>5, <1>6, <1>8
  <2> QED
    BY <2>1, InLineMeansMet, DepsFacts DEF TypeOK, Progress
<1>9. ASSUME Acyclic, NoRepeatedDependency
      PROVE  Range(order) = Names
  <2> DEFINE S == {n \in Names : ~Visited(n)}
  <2> SUFFICES ASSUME S # {}
               PROVE  FALSE
    BY <1>3
  <2>1. PICK n \in S : Deps(Task(n)) \cap S = {}
    BY <1>9 DEF Acyclic
  <2>2. PICK i \in 1..Len(tasks) : tasks[i].name = n
    BY <2>1, TaskFacts DEF TypeOK
  <2>3. Deps(tasks[i]) \subseteq Names
    BY DepsFacts DEF TypeOK, Progress
  <2>4. Met(i) = Deps(tasks[i])
    BY <2>1, <2>2, <2>3, <1>2, <1>6
  <2>5. tasks[i] \in Range(tasks)
    BY TaskFacts DEF TypeOK, Range
  <2>6. Cardinality(Deps(tasks[i])) = Len(tasks[i].depends_on)
    BY <2>5, <1>9, DepsFacts DEF TypeOK, Progress, NoRepeatedDependency
  <2>7. inDegree[n] = 0
    BY <2>2, <2>4, <2>6, TaskFacts DEF TypeOK, Progress, Counts
  <2>8. InLine(n)
    BY <2>2, <2>7 DEF Progress, ZeroesInLine
  <2> QED
    BY <2>1, <2>8, <1>1
<1> QED
  BY <1>1, <1>5, <1>7, <1>8, <1>9

\* The checks before the sort refuse an inconsistent definition, and nothing but
\* inconsistent definitions and tasks that depend on themselves.
LEMMA RefusalFacts ==
  ASSUME tasks \in Seq(TaskDefinitions)
  PROVE  /\ Refusal = "none" => Consistent
         /\ Refusal # "none" => ~(Consistent /\ Acyclic)
         /\ Refusal \in Errors \cup {"none"}
<1>1. Len(tasks) \in Nat /\ DOMAIN tasks = 1..Len(tasks)
  BY TaskFacts
<1>2. Range(tasks) = {tasks[i] : i \in 1..Len(tasks)}
  BY <1>1 DEF Range
<1>3. ASSUME Refusal = "none"
      PROVE  Consistent
  <2>1. tasks # <<>> /\ ~DuplicateName
    BY <1>3 DEF Refusal
  <2>2. Faulty = {}
    <3> SUFFICES ASSUME Faulty # {}
                 PROVE  FALSE
      OBVIOUS
    <3>1. Faulty \subseteq Nat
      BY <1>1 DEF Faulty
    <3>2. \E p \in Faulty : \A r \in Faulty : p <= r
      BY <3>1, LeastNatural
    <3>3. PICK p \in Faulty : Fault(tasks[p]) = Refusal
      BY <3>2, <2>1 DEF Refusal
    <3> QED
      BY <3>3, <1>3 DEF Faulty
  <2>3. \A i \in 1..Len(tasks) :
          Deps(tasks[i]) \subseteq Names /\ tasks[i].input_from \subseteq Deps(tasks[i])
    BY <2>2, <1>1 DEF Faulty, Fault, DanglingInput
  <2> QED
    BY <2>1, <2>3, <1>2 DEF Consistent
<1>4. ASSUME Refusal # "none", Consistent, Acyclic
      PROVE  FALSE
  <2>1. Faulty # {}
    BY <1>4 DEF Refusal, Consistent
  <2>2. PICK i \in 1..Len(tasks) : Fault(tasks[i]) # "none"
    BY <2>1, <1>1 DEF Faulty
  <2>3. tasks[i].name \in Deps(tasks[i])
    BY <2>2, <1>2, <1>4 DEF Fault, DanglingInput, Consistent
  <2>4. Task(tasks[i].name) = tasks[i] /\ tasks[i].name \in Names
    BY <1>4, TaskByName, TaskFacts DEF Consistent
  <2>5. {tasks[i].name} \in SUBSET Names /\ {tasks[i].name} # {}
    BY <2>4
  <2>6. \E n \in {tasks[i].name} : Deps(Task(n)) \cap {tasks[i].name} = {}
    BY <2>5, <1>4 DEF Acyclic
  <2> QED
    BY <2>3, <2>4, <2>6
<1>5. Refusal \in Errors \cup {"none"}
  BY DEF Refusal, Fault, Errors
<1> QED
  BY <1>3, <1>4, <1>5

-----------------------------------------------------------------------------
(* The invariant. *)

\* A call begins with the invariant.
LEMMA InvInit == Init => Inv
<1> SUFFICES ASSUME Init
             PROVE  Inv
  OBVIOUS
<1>1. tasks \in Seq(TaskDefinitions) /\ Len(tasks) \in Nat
  BY DefinitionsAssumption, LenProperties DEF Init
<1>2. TypeOK
  BY <1>1 DEF Init, TypeOK, Sorting
<1>3. DependenciesFirst
  BY DEF Init, DependenciesFirst
<1> QED
  BY <1>2, <1>3 DEF Inv, Init, Started, AtRest, Accepted, ValidateIsExact

\* Every step of a call keeps the invariant.
LEMMA InvStep == Inv /\ [Next]_vars => Inv'
<1> SUFFICES ASSUME Inv, [Next]_vars
             PROVE  Inv'
  OBVIOUS
<1>1. TypeOK /\ Len(tasks) \in Nat
  BY LenProperties DEF Inv, TypeOK
<1>2. CASE Check
  <2>1. stage = "check" /\ tasks' = tasks /\ node' = node
    BY <1>2 DEF Check
  <2>2. CASE Refusal = "none"
    <3>1. Seed /\ stage' = "validate" /\ result' = result
      BY <1>2, <2>2 DEF Check
    <3>2. Consistent
      BY <1>1, <2>2, RefusalFacts DEF TypeOK
    <3>3. /\ Progress' /\ queue' \in Seq(Names) /\ order' = <<>>
          /\ inDegree' \in [Names -> Nat] /\ next' = Len(tasks) + 1
      BY <1>1, <2>1, <3>1, <3>2, SeedProgress DEF TypeOK
    <3>4. TypeOK'
      BY <1>1, <2>1, <3>1, <3>3, SameDefinition DEF TypeOK, Sorting
    <3>5. DependenciesFirst'
      BY <3>3 DEF DependenciesFirst
    <3> QED
      BY <3>1, <3>3, <3>4, <3>5 DEF Inv, Started, AtRest, Accepted, ValidateIsExact
  <2>3. CASE Refusal # "none"
    <3>1. /\ stage' = "refused" /\ result' = Refusal /\ order' = order
          /\ queue' = queue /\ next' = next /\ inDegree' = inDegree
      BY <1>2, <2>3 DEF Check
    <3>2. ~(Consistent /\ Acyclic) /\ Refusal \in Errors
      BY <1>1, <2>3, RefusalFacts DEF TypeOK
    <3>3. ValidateIsExact'
      BY <2>1, <3>1, <3>2, SameDefinition DEF ValidateIsExact, Errors
    <3>4. TypeOK'
      BY <1>1, <2>1, <3>1, <3>2, SameDefinition DEF TypeOK, Sorting
    <3>5. DependenciesFirst'
      BY <2>1, <3>1 DEF Inv, DependenciesFirst
    <3> QED
      BY <3>1, <3>3, <3>4, <3>5 DEF Inv, Started, AtRest, Accepted
  <2> QED
    BY <2>2, <2>3
<1>3. CASE TakeNode
  <2>1. /\ stage \in {"validate", "sort"} /\ stage' = stage
        /\ tasks' = tasks /\ inDegree' = inDegree /\ result' = result /\ next' = 1
    BY <1>3 DEF TakeNode, Sorting
  <2>2. Progress /\ DependenciesFirst
    BY <2>1 DEF Inv, Started
  <2>3. /\ Progress' /\ DependenciesFirst'
        /\ queue' \in Seq(Names) /\ order' \in Seq(Names) /\ node' \in Names
    BY <1>1, <1>3, <2>2, TakeProgress
  <2>4. Names' = Names /\ Acyclic' = Acyclic /\ NoRepeatedDependency' = NoRepeatedDependency
    BY <2>1, SameDefinition
  <2>5. TypeOK'
    BY <1>1, <2>1, <2>3, <2>4 DEF TypeOK, Sorting
  <2> QED
    BY <2>1, <2>3, <2>4, <2>5 DEF Inv, Started, AtRest, Accepted, ValidateIsExact
<1>4. CASE VisitTask
  <2>1. /\ stage \in {"validate", "sort"} /\ stage' = stage /\ next <= Len(tasks)
        /\ tasks' = tasks /\ result' = result /\ next' = next + 1
        /\ node' = node /\ order' = order
    BY <1>4 DEF VisitTask, Sorting
  <2>2. Progress /\ DependenciesFirst
    BY <2>1 DEF Inv, Started
  <2>3. Progress' /\ queue' \in Seq(Names) /\ inDegree' \in [Names -> Nat]
    BY <1>1, <1>4, <2>2, VisitProgress
  <2>4. /\ Names' = Names /\ Acyclic' = Acyclic /\ NoRepeatedDependency' = NoRepeatedDependency
        /\ \A n : Task(n)' = Task(n)
    BY <2>1, SameDefinition
  <2>5. TypeOK'
    BY <1>1, <2>1, <2>3, <2>4 DEF TypeOK, Sorting
  <2>6. DependenciesFirst'
    <3>1. \A n : Deps(Task(n))' = Deps(Task(n))
      BY <2>4 DEF Deps
    <3> QED
      BY <2>1, <2>2, <3>1 DEF DependenciesFirst
  <2> QED
    BY <2>1, <2>3, <2>4, <2>5, <2>6 DEF Inv, Started, AtRest, Accepted, ValidateIsExact
<1>5. CASE EndValidate
  <2>1. /\ stage = "validate" /\ next > Len(tasks) /\ queue = <<>>
        /\ UNCHANGED <<tasks, inDegree, queue, node, next, order>>
        /\ Progress /\ DependenciesFirst
    BY <1>5 DEF EndValidate, EndOfQueue, Inv, Started
  <2>2. AllVisited <=> Acyclic /\ NoRepeatedDependency
    BY <1>1, <2>1, ExactAtEnd
  <2>3. /\ Consistent' = Consistent /\ Acyclic' = Acyclic
        /\ NoRepeatedDependency' = NoRepeatedDependency
        /\ Names' = Names /\ Roots' = Roots /\ \A n : Task(n)' = Task(n)
    BY <2>1, SameDefinition
  <2>4. \/ AllVisited /\ stage' = "valid" /\ result' = "ok"
        \/ ~AllVisited /\ stage' = "refused" /\ result' = "CyclicDependency"
    BY <1>5 DEF EndValidate
  <2>5. Progress' /\ DependenciesFirst' /\ AllVisited' = AllVisited
    BY <2>1, SameSort
  <2>6. ValidateIsExact'
    BY <2>1, <2>2, <2>3, <2>4 DEF ValidateIsExact, Progress
  <2>7. TypeOK'
    BY <1>1, <2>1, <2>3, <2>4 DEF TypeOK, Sorting, Errors
  <2> QED
    BY <2>1, <2>2, <2>3, <2>4, <2>5, <2>6, <2>7 DEF Inv, Started, AtRest, Accepted
<1>6. CASE StartSort
  <2>1. /\ stage = "valid" /\ stage' = "sort" /\ Seed
        /\ tasks' = tasks /\ node' = node /\ result' = result
        /\ Consistent /\ Acyclic /\ NoRepeatedDependency
    BY <1>6 DEF StartSort, Inv, Started, Progress, Accepted
  <2>2. /\ Progress' /\ queue' \in Seq(Names) /\ order' = <<>>
        /\ inDegree' \in [Names -> Nat] /\ next' = Len(tasks) + 1
    BY <1>1, <2>1, SeedProgress DEF TypeOK
  <2>3. Names' = Names /\ Acyclic' = Acyclic /\ NoRepeatedDependency' = NoRepeatedDependency
    BY <2>1, SameDefinition
  <2>4. TypeOK'
    BY <1>1, <2>1, <2>2, <2>3 DEF TypeOK, Sorting
  <2>5. DependenciesFirst'
    BY <2>2 DEF DependenciesFirst
  <2> QED
    BY <2>1, <2>2, <2>3, <2>4, <2>5 DEF Inv, Started, AtRest, Accepted, ValidateIsExact
<1>7. CASE EndSort
  <2>1. /\ stage = "sort" /\ stage' = "sorted" /\ next > Len(tasks) /\ queue = <<>>
        /\ UNCHANGED <<tasks, inDegree, queue, node, next, order, result>>
        /\ Progress /\ DependenciesFirst /\ Acyclic /\ NoRepeatedDependency
    BY <1>7 DEF EndSort, EndOfQueue, Inv, Started, Accepted
  <2>2. AllVisited
    BY <1>1, <2>1, ExactAtEnd
  <2>3. /\ Consistent' = Consistent /\ Acyclic' = Acyclic
        /\ NoRepeatedDependency' = NoRepeatedDependency
        /\ Names' = Names /\ Roots' = Roots /\ \A n : Task(n)' = Task(n)
    BY <2>1, SameDefinition
  <2>4. Progress' /\ DependenciesFirst' /\ AllVisited'
    BY <2>1, <2>2, SameSort
  <2>5. TypeOK'
    BY <1>1, <2>1, <2>3 DEF TypeOK, Sorting
  <2> QED
    BY <2>1, <2>3, <2>4, <2>5 DEF Inv, Started, AtRest, Accepted, ValidateIsExact
<1>8. CASE UNCHANGED vars
  <2>1. /\ UNCHANGED <<tasks, inDegree, queue, node, next, order>>
        /\ stage' = stage /\ result' = result
    BY <1>8 DEF vars
  <2>2. /\ Progress => Progress'
        /\ DependenciesFirst => DependenciesFirst' /\ AllVisited' = AllVisited
    BY <2>1, SameSort
  <2>3. /\ Consistent' = Consistent /\ Acyclic' = Acyclic
        /\ NoRepeatedDependency' = NoRepeatedDependency /\ Names' = Names
    BY <2>1, SameDefinition
  <2>4. TypeOK'
    BY <1>1, <2>1, <2>3 DEF TypeOK, Sorting
  <2> QED
    BY <2>1, <2>2, <2>3, <2>4 DEF Inv, Started, AtRest, Accepted, ValidateIsExact
<1> QED
  BY <1>2, <1>3, <1>4, <1>5, <1>6, <1>7, <1>8 DEF Next

\* The invariant holds throughout every call.
LEMMA Invariance == Spec => []Inv
<1> QED
  BY InvInit, InvStep, PTL DEF Spec

-----------------------------------------------------------------------------
(* Theorems. *)

\* For every set of definitions every variable keeps its type: no count of in_degree,
\* an unsigned integer in the code, is ever decremented below zero.
THEOREM TypeCorrect == Spec => []TypeOK
<1>1. Inv => TypeOK
  BY DEF Inv
<1> QED
  BY <1>1, Invariance, PTL

\* In every sort of every definition a task is visited after everything it depends
\* on, and once, whatever order the HashMap yields its roots in.
THEOREM DependenciesComeFirst == Spec => []DependenciesFirst
<1>1. Inv => DependenciesFirst
  BY DEF Inv
<1> QED
  BY <1>1, Invariance, PTL

\* validate accepts every consistent acyclic definition without a repeated dependency
\* and refuses every other one, whatever the size of the definition.
THEOREM ValidateExact == Spec => []ValidateIsExact
<1>1. Inv => ValidateIsExact
  BY DEF Inv
<1> QED
  BY <1>1, Invariance, PTL

\* topological_order returns every task of every accepted definition, the roots first.
THEOREM SortComplete == Spec => []OrderIsComplete
<1>1. ASSUME Inv
      PROVE  OrderIsComplete
  <2> SUFFICES ASSUME stage = "sorted"
               PROVE  /\ Range(order) = Names /\ Len(order) = Len(tasks)
                      /\ \A i \in 1..Len(order) : order[i] \in Roots <=> i <= Cardinality(Roots)
    BY DEF OrderIsComplete
  <2>1. /\ TypeOK /\ Progress /\ DependenciesFirst
        /\ next > Len(tasks) /\ queue = <<>> /\ AllVisited
    BY <1>1 DEF Inv, Started, AtRest
  <2>2. /\ Range(order) = Names /\ LineLength = Len(order)
        /\ \A p \in 1..Len(order) : Line(p) = order[p]
    BY <2>1, ExactAtEnd
  <2> QED
    BY <2>1, <2>2 DEF Progress, RootsLead, AllVisited
<1> QED
  BY <1>1, Invariance, PTL
=============================================================================
