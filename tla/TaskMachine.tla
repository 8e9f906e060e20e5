------------------------------ MODULE TaskMachine ------------------------------
(***************************************************************************)
(* What the state records of jobs and tasks promise to those who read them:  *)
(* an item climbs the ladder of its kind one rung at a time and then has one *)
(* of two outcomes, it may be cancelled on the way, a task that was taken    *)
(* may go back to pending, and an item that has ended, or is gone, stays so. *)
(***************************************************************************)
EXTENDS Integers, Sequences

CONSTANTS Jobs, Tasks, None

VARIABLES
  state,     \* item -> its state, None when it has no record
  appeared   \* items that ever had a state

Items == Jobs \cup Tasks

Ladder(x) ==
  IF x \in Jobs THEN <<"pending", "running">>
  ELSE <<"blocked", "pending", "claimed", "running">>

Outcomes == {"completed", "failed"}

Init == state = [x \in Items |-> None] /\ appeared = {}

Submit(x) ==
  /\ x \notin appeared /\ appeared' = appeared \cup {x}
  /\ \E s \in {"pending", Ladder(x)[1]} : state' = [state EXCEPT ![x] = s]

\* Where an item may go from the rung i of its ladder.
Onward(x, i) ==
  LET L == Ladder(x) IN
       (IF i < Len(L) THEN {L[i + 1]} ELSE Outcomes)
  \cup {"cancelled"}
  \cup (IF x \in Tasks /\ i > 2 THEN {"pending"} ELSE {})

Move(x) ==
  /\ \E i \in 1..Len(Ladder(x)) :
       /\ state[x] = Ladder(x)[i]
       /\ \E s \in Onward(x, i) : state' = [state EXCEPT ![x] = s]
  /\ UNCHANGED appeared

\* The record is deleted, or expires.
Vanish(x) ==
  /\ state[x] # None
  /\ state' = [state EXCEPT ![x] = None]
  /\ UNCHANGED appeared

Next == \E x \in Items : Submit(x) \/ Move(x) \/ Vanish(x)

Spec == Init /\ [][Next]_<<state, appeared>>

=============================================================================
