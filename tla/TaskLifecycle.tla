----------------------------- MODULE TaskLifecycle -----------------------------
(***************************************************************************)
(* The states of jobs and tasks (crates/jobs-domain/src/state.rs) in the     *)
(* records of the store.  Those who move them are not in this repository:    *)
(* drivers, workers and watchers are any clients that submit an item once,   *)
(* that ask transition_to whether a state they have seen may become another  *)
(* and write it with compare_and_swap, and that repeat a call that failed.   *)
(* What they have seen may be as old as they like.                          *)
(***************************************************************************)
EXTENDS RedisStateStore

CONSTANTS
  JobKeys, TaskKeys,   \* keys of jobs and of tasks
  Steps,               \* values of a task's current_step
  MaxItems             \* bound: items ever submitted

\* The prefix of the keys of all tasks.
AnyTask == <<"gbe", ".", "state", ".", "tasks", ".">>

\* Nothing is stored when a lifecycle begins.
ASSUME LifecycleAssumption ==
  /\ Keys = JobKeys \cup TaskKeys /\ JobKeys \cap TaskKeys = {}
  /\ {"state", "current_step"} \subseteq Fields /\ AnyTask \in Seq(STRING)
  /\ {"pending", "running", "completed", "failed", "cancelled", "blocked", "claimed"}
       \cup Steps \subseteq Values
  /\ \A left \in Stored : left.record = [key \in Keys |-> Absent]

VARIABLES
  submitted,   \* items a driver has put
  appeared,    \* history: keys that ever had a state
  holders      \* history: task -> clients told they claimed it, since it was last free

historyVars == <<appeared, holders>>
lifecycleVars == <<vars, submitted, historyVars>>

-----------------------------------------------------------------------------
(* state.rs                                                                 *)

JobState_can_transition_to(s, next) ==
  \/ s = "pending" /\ next \in {"running", "cancelled"}
  \/ s = "running" /\ next \in {"completed", "failed", "cancelled"}

\* A task that failed may be tried again.
RetriesFailed(s, next) ==
  \/ s \in {"blocked", "claimed", "running", "failed"} /\ next = "pending"
  \/ s = "pending" /\ next \in {"claimed", "cancelled"}
  \/ s = "claimed" /\ next \in {"running", "cancelled"}
  \/ s = "running" /\ next \in {"completed", "failed", "cancelled"}
  \/ s = "blocked" /\ next = "cancelled"

TaskState_can_transition_to(s, next) ==
  \/ s \in {"blocked", "claimed", "running"} /\ next = "pending"
  \/ s = "pending" /\ next \in {"claimed", "cancelled"}
  \/ s = "claimed" /\ next \in {"running", "cancelled"}
  \/ s = "running" /\ next \in {"completed", "failed", "cancelled"}
  \/ s = "blocked" /\ next = "cancelled"

JobStates  == {"pending", "running", "completed", "failed", "cancelled"}
TaskStates == JobStates \cup {"blocked", "claimed"}

\* JobState and TaskState have the same.
is_terminal(s) == s \in {"completed", "failed", "cancelled"}

\* The states transition_to returns Ok for.
transition_to(key, s) ==
  IF key \in JobKeys THEN {next \in JobStates : JobState_can_transition_to(s, next)}
  ELSE {next \in TaskStates : TaskState_can_transition_to(s, next)}

-----------------------------------------------------------------------------
(* The clients.                                                             *)

LifecycleInit ==
  /\ Init
  /\ submitted = {} /\ appeared = {} /\ holders = [key \in TaskKeys |-> {}]

\* The states a client has seen: in a field it read, a record it found, or its own swap.
Seen(k) ==
  LET a == answer[k] IN
  IF a.is # "ok" THEN {}
  ELSE CASE a.to.op = "get_field" -> {<<a.to.key, a.value.field>>}
         [] a.to.op = "compare_and_swap" /\ a.value.swapped -> {<<a.to.key, a.to.new>>}
         [] a.to.op = "read" ->
              {<<a.value.results[i][1], a.value.results[i][2]["state"]>> :
                 i \in 1..Len(a.value.results)}
         [] OTHER -> {}

Submit(k, key, s, ttl) ==
  /\ key \notin submitted /\ Cardinality(submitted) < MaxItems
  /\ submitted' = submitted \cup {key}
  /\ Begin(k, [op |-> "put", key |-> key, fields |-> Only("state", s), ttl |-> ttl])

Look(k, key) == Begin(k, [op |-> "get_field", key |-> key, field |-> "state"])

\* A watcher's look at the tasks in a state.
LookFor(k, s) ==
  Begin(k, [op |-> "scan", prefix |-> AnyTask,
            filter |-> [op |-> "Eq", field |-> "state", value |-> s, max_results |-> NoMax]])

Move(k) ==
  \E seen \in Seen(k) : \E next \in transition_to(seen[1], seen[2]) :
    Begin(k, [op |-> "compare_and_swap", key |-> seen[1], field |-> "state",
              expected |-> seen[2], new |-> next])

\* The caller of a swap that failed cannot know whether it was made, and tries again.
Retry(k) ==
  /\ answer[k].is = "err" /\ answer[k].to.op = "compare_and_swap"
  /\ Begin(k, answer[k].to)

\* A worker's word on its progress.
Progress(k, step) ==
  \E seen \in Seen(k) :
    /\ seen[2] = "running"
    /\ Begin(k, [op |-> "set_field", key |-> seen[1], field |-> "current_step",
                 value |-> step])

\* A sweeper deletes what it saw ended.
Sweep(k) ==
  \E seen \in Seen(k) :
    is_terminal(seen[2]) /\ Begin(k, [op |-> "delete", key |-> seen[1]])

Client(k) ==
  \/ \E key \in Keys : Look(k, key)
  \/ \E s \in {"claimed", "running"} : LookFor(k, s)
  \/ Move(k) \/ Retry(k) \/ Sweep(k) \/ \E step \in Steps : Progress(k, step)

\* Who was told of a claim, until the task leaves the states of one that was taken.
Told(k, key) ==
  /\ call[k] # Idle /\ call[k].op = "compare_and_swap" /\ call[k].key = key
  /\ call[k].new = "claimed"
  /\ answer[k]' = Ok(call[k], [swapped |-> TRUE])

Follow ==
  /\ appeared' = appeared \cup {key \in Keys : record'[key]["state"] # Nil}
  /\ holders' = [key \in TaskKeys |->
       IF record'[key]["state"] \notin {"claimed", "running"} THEN {}
       ELSE holders[key] \cup {k \in Clients : Told(k, key)}]

LifecycleNext ==
  /\ \/ \E k \in Clients : Client(k) /\ UNCHANGED submitted
     \/ \E k \in Clients, key \in Keys, ttl \in {"none", "seconds"} :
          \E s \in (IF key \in JobKeys THEN {"pending"} ELSE {"blocked", "pending"}) :
            Submit(k, key, s, ttl)
     \/ /\ \/ \E k \in Clients : Command(k) \/ Drop(k)
           \/ \E key \in expiring : TimeToLive(key)
        /\ UNCHANGED submitted
  /\ UNCHANGED made
  /\ Observe /\ Follow

LifecycleSpec == LifecycleInit /\ [][LifecycleNext]_lifecycleVars

-----------------------------------------------------------------------------
(* Properties.                                                              *)

\* What readers of the records see, over all interleavings of clients that move items on
\* what they once saw, with lost replies, retries, crashes, deletion and expiry: each
\* item follows its machine, ends once, and never comes back.
Machine == INSTANCE TaskMachine WITH
  Jobs <- JobKeys, Tasks <- TaskKeys, None <- Nil,
  state <- [key \in Keys |-> record[key]["state"]], appeared <- appeared

ImplementsTaskMachine == Machine!Spec

\* At most one client was told it claimed a task, as long as the task was not freed.
OneClaimant == \A key \in TaskKeys : Cardinality(holders[key]) <= 1

=============================================================================
