------------------------------- MODULE WorkQueue -------------------------------
(***************************************************************************)
(* What a transport with consumer groups promises, without cursors, pending *)
(* sets, locks or loops: every group works through the log of its subject   *)
(* in order; an id that a worker has taken is with that worker until the    *)
(* worker settles it, returns it to the group, or forgets it, and a settled *)
(* id is never handed out again.                                            *)
(***************************************************************************)
EXTENDS Integers, Sequences, Functions

CONSTANTS Subjects, Groups, SubjectOf, Workers, GroupOf, Ids

VARIABLES
  log,       \* subject -> the ids published and not yet expired
  joined,    \* the groups that exist
  taken,     \* group -> the ids of the log it has passed
  returned,  \* group -> the ids handed back, to be taken again, in order
  held,      \* worker -> the ids it answers for
  done,      \* group -> the ids settled
  lost       \* group -> the ids forgotten by a worker

qvars == <<log, joined, taken, returned, held, done, lost>>

QInit ==
  /\ log = [s \in Subjects |-> <<>>]
  /\ joined = {}
  /\ taken = [g \in Groups |-> {}]
  /\ returned = [g \in Groups |-> <<>>]
  /\ held = [w \in Workers |-> {}]
  /\ done = [g \in Groups |-> {}]
  /\ lost = [g \in Groups |-> {}]

\* The ids of a log, and the first k of them.
First(s, k) == {log[s][i] : i \in 1..k}
Logged(s)   == First(s, Len(log[s]))

\* An id nothing in the system refers to.
Unused(id) ==
  /\ \A s \in Subjects : id \notin Logged(s)
  /\ \A g \in Groups : id \notin taken[g] \cup Range(returned[g]) \cup done[g] \cup lost[g]
  /\ \A w \in Workers : id \notin held[w]

AppendLog(s, id) == Unused(id) /\ log' = [log EXCEPT ![s] = Append(@, id)]

Publish(s, id) ==
  /\ AppendLog(s, id)
  /\ UNCHANGED <<joined, taken, returned, held, done, lost>>

Join(g, k) ==
  /\ g \notin joined
  /\ joined' = joined \cup {g}
  /\ taken' = [taken EXCEPT ![g] = First(SubjectOf[g], k)]
  /\ UNCHANGED <<log, returned, held, done, lost>>

\* The earliest id the group has not passed.
Take(w, i) ==
  LET g == GroupOf[w]
      s == SubjectOf[g]
  IN /\ g \in joined
     /\ First(s, i - 1) \subseteq taken[g] /\ log[s][i] \notin taken[g]
     /\ taken' = [taken EXCEPT ![g] = @ \cup {log[s][i]}]
     /\ held' = [held EXCEPT ![w] = @ \cup {log[s][i]}]
     /\ UNCHANGED <<log, joined, returned, done, lost>>

\* The earliest id handed back, or nothing if it has expired meanwhile.
Retake(w) ==
  LET g == GroupOf[w]
      id == Head(returned[g])
  IN /\ returned[g] # <<>>
     /\ returned' = [returned EXCEPT ![g] = Tail(@)]
     /\ held' = [held EXCEPT ![w] = IF id \in Logged(SubjectOf[g]) THEN @ \cup {id} ELSE @]
     /\ UNCHANGED <<log, joined, taken, done, lost>>

Release(w, id) ==
  /\ id \in held[w]
  /\ held' = [held EXCEPT ![w] = @ \ {id}]

Settle(w, id) ==
  /\ Release(w, id)
  /\ done' = [done EXCEPT ![GroupOf[w]] = @ \cup {id}]
  /\ UNCHANGED <<log, joined, taken, returned, lost>>

\* Settled by moving it, under a new id, to the log of subject s.
Divert(w, id, s, new) ==
  /\ Release(w, id)
  /\ done' = [done EXCEPT ![GroupOf[w]] = @ \cup {id}]
  /\ AppendLog(s, new)
  /\ UNCHANGED <<joined, taken, returned, lost>>

Return(w, id) ==
  /\ Release(w, id)
  /\ returned' = [returned EXCEPT ![GroupOf[w]] = Append(@, id)]
  /\ UNCHANGED <<log, joined, taken, done, lost>>

Forget(w, ids) ==
  /\ ids # {} /\ ids \subseteq held[w]
  /\ held' = [held EXCEPT ![w] = @ \ ids]
  /\ lost' = [lost EXCEPT ![GroupOf[w]] = @ \cup ids]
  /\ UNCHANGED <<log, joined, taken, returned, done>>

\* The n oldest ids of a log expire, taken or not.
Expire(s, n) ==
  /\ log' = [log EXCEPT ![s] = SubSeq(@, n + 1, Len(@))]
  /\ taken' = [g \in Groups |->
                 IF SubjectOf[g] = s THEN taken[g] \ First(s, n) ELSE taken[g]]
  /\ UNCHANGED <<joined, returned, held, done, lost>>

WorkerStep(w) ==
  \/ \E i \in 1..Len(log[SubjectOf[GroupOf[w]]]) : Take(w, i)
  \/ Retake(w)
  \/ \E id \in held[w] : Settle(w, id) \/ Return(w, id)
  \/ \E id \in held[w], s \in Subjects, new \in Ids : Divert(w, id, s, new)
  \/ \E ids \in SUBSET held[w] : Forget(w, ids)

QNext ==
  \/ \E s \in Subjects, id \in Ids : Publish(s, id)
  \/ \E g \in Groups : \E k \in 0..Len(log[SubjectOf[g]]) : Join(g, k)
  \/ \E s \in Subjects : \E n \in 1..Len(log[s]) : Expire(s, n)
  \/ \E w \in Workers : WorkerStep(w)

QSpec == QInit /\ [][QNext]_qvars

=============================================================================
