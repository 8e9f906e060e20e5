------------------------------ MODULE LeasedQueue ------------------------------
(***************************************************************************)
(* What a consumer group with acknowledgement timeouts promises: ids are    *)
(* taken in the order they were published, none left out; an id stays open  *)
(* until a worker that was given it finishes it, or it has expired; an open *)
(* id is given to another worker only when it is overdue.  Unlike in        *)
(* WorkQueue several workers may have an id at once, and a worker may be    *)
(* given ids it never learns of.                                            *)
(***************************************************************************)
EXTENDS Integers

CONSTANTS Workers, Ids

VARIABLES
  published,  \* the ids 1..published exist
  expired,    \* the ids 1..expired exist no longer
  joined,     \* the group exists
  passed,     \* the group has taken the ids up to it
  open,       \* the ids taken and not finished
  overdue,    \* the open ids whose worker has had its time
  held        \* worker -> the ids it knows it was given

qvars == <<published, expired, joined, passed, open, overdue, held>>

QInit ==
  /\ published = 0 /\ expired = 0 /\ joined = FALSE /\ passed = 0
  /\ open = {} /\ overdue = {}
  /\ held = [w \in Workers |-> {}]

Publish ==
  /\ published' = published + 1
  /\ UNCHANGED <<expired, joined, passed, open, overdue, held>>

Expire ==
  /\ expired' \in expired..published
  /\ UNCHANGED <<published, joined, passed, open, overdue, held>>

Join(p) ==
  /\ ~joined
  /\ joined' = TRUE /\ passed' = p
  /\ UNCHANGED <<published, expired, open, overdue, held>>

\* A worker learns of the ids it is given, or the news is lost.
Give(w, S) ==
  /\ held[w] = {}
  /\ held' \in {held, [held EXCEPT ![w] = S]}

\* The next ids, up to the k-th.
Take(w, k) ==
  /\ joined /\ passed < k /\ k <= published
  /\ passed' = k
  /\ LET S == {i \in Ids : passed < i /\ expired < i /\ i <= k} IN
     open' = open \cup S /\ Give(w, S)
  /\ UNCHANGED <<published, expired, joined, overdue>>

\* Overdue ids, while expired ones are cleared away.
Retake(w, S, gone) ==
  /\ S \subseteq overdue /\ gone \subseteq open
  /\ \A i \in S : i > expired
  /\ \A i \in gone : i <= expired
  /\ open' = open \ gone /\ overdue' = overdue \ (S \cup gone)
  /\ Give(w, S)
  /\ UNCHANGED <<published, expired, joined, passed>>

Lapse(i) ==
  /\ i \in open /\ overdue' = overdue \cup {i}
  /\ UNCHANGED <<published, expired, joined, passed, open, held>>

\* A worker need not be the last one the id was given to.
Finish(w, i) ==
  /\ i \in held[w]
  /\ open' = open \ {i} /\ overdue' = overdue \ {i}
  /\ UNCHANGED <<published, expired, joined, passed, held>>

\* A worker lets go of ids it finished, returned or forgot.
Drop(w, S) ==
  /\ held' = [held EXCEPT ![w] = @ \ S]
  /\ UNCHANGED <<published, expired, joined, passed, open, overdue>>

QNext ==
  \/ Publish \/ Expire
  \/ joined' /\ Join(passed')
  \/ \E i \in Ids : Lapse(i)
  \/ \E w \in Workers :
       \/ Take(w, passed')
       \/ \E S \in SUBSET overdue, gone \in SUBSET open : Retake(w, S, gone)
       \/ \E i \in held[w] : Finish(w, i)
       \/ \E S \in SUBSET held[w] : Drop(w, S)

QSpec == QInit /\ [][QNext]_qvars

=============================================================================
