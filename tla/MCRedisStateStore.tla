--------------------------- MODULE MCRedisStateStore ---------------------------
(* Jobs, task names and calls for TLC.                                        *)
EXTENDS JobIndex, TLC

CONSTANTS k1, k2

\* Two ids, one the beginning of the other, and one that ids.rs must refuse: with it
\* the index key of a task of job_1 is that of a task of job_1.tasks.a.
Job1  == <<"job", "_", "1">>
Job12 == <<"job", "_", "1", "2">>
JobX  == <<"job", "_", "1", ".", "tasks", ".", "a">>
MCRawIds == {Job1, Job12, JobX}
MCIdOf == Job1 :> "j1" @@ Job12 :> "j12" @@ JobX :> "jx"

NameB == <<"a", ".", "tasks", ".", "a">>
MCTaskNames == {<<"a">>, NameB}

MCKeys == {job_task_index_key(job, name) : job \in JobIds, name \in MCTaskNames}
MCFields == {"job_id", "state"}
MCValues == {"j1", "j12", "jx", "claimed", "pending"}
MCSmaller == {<<"claimed", "pending">>}

KeyA == job_task_index_key(Job1, <<"a">>)
KeyB == job_task_index_key(Job1, NameB)

KeyC == job_task_index_key(Job12, <<"a">>)

\* Nothing, or a task of each job, the first with or without a time to live.
Left(with, expires) ==
  [record |-> [key \in MCKeys |-> IF key \in DOMAIN with THEN with[key] ELSE Absent],
   expiring |-> expires]
TwoTasks == KeyA :> TaskRecord(Job1, "pending") @@ KeyC :> TaskRecord(Job12, "pending")
MCStored == {Left(<<>>, {})} \cup {Left(TwoTasks, expires) : expires \in {{}, {KeyA}}}

\* The calls of the sweeper, of those who create tasks and of those who work on them.
PutTask(job, name, ttl) ==
  [op |-> "put", key |-> job_task_index_key(job, name),
   fields |-> TaskRecord(job, "pending"), ttl |-> ttl]

MCCalls ==
       {PutTask(Job1, <<"a">>, ttl) : ttl \in Ttls}
  \cup {PutTask(job, <<"a">>, "none") : job \in JobIds}
  \cup {[op |-> op, key |-> KeyA] : op \in {"get", "delete"}}
  \cup {[op |-> "set_fields", key |-> KeyA, fields |-> Absent],
        [op |-> "set_fields", key |-> KeyB, fields |-> Only("state", "pending")],
        [op |-> "set_field", key |-> KeyA, field |-> "state", value |-> "claimed"],
        [op |-> "compare_and_swap", key |-> KeyA, field |-> "state",
         expected |-> "pending", new |-> "claimed"]}
  \cup {ScanOfJob(Job1, f) : f \in {NoFilter,
         [op |-> "Gt", field |-> "state", value |-> "claimed", max_results |-> 0],
         [op |-> "Lt", field |-> "state", value |-> "pending", max_results |-> 1]}}

Twins == Permutations(Clients)
=============================================================================
