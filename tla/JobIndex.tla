-------------------------------- MODULE JobIndex --------------------------------
(***************************************************************************)
(* The index of crates/jobs-domain/src/keys.rs in the state store: a record  *)
(* per task of a job, under a key made of the job's id and the task's name,  *)
(* and a scan of all tasks of a job by the prefix of their keys.  Ids are    *)
(* those ids.rs accepts; a task name is any text.                           *)
(***************************************************************************)
EXTENDS RedisStateStore

CONSTANTS
  RawIds,      \* texts that are tried as job ids
  TaskNames,   \* names of tasks
  IdOf         \* text -> the value that stands for it in a record

JobIds == {raw \in RawIds : JobId(raw)}

\* The record of a task says which job it is of.
TaskRecord(job, state) ==
  [Absent EXCEPT !["job_id"] = IdOf[job], !["state"] = state]

\* Records of jobs and of tasks (job_key, task_key) have another word here.
IndexKey(key) == Len(key) >= 3 /\ key[3] = "idx"

\* The fields of an index record, if they say which job a task is of, say the one of its key.
OfItsJob(key, fields) ==
  IndexKey(key) =>
    \E job \in JobIds, name \in TaskNames :
      key = job_task_index_key(job, name) /\ fields["job_id"] \in {Nil, IdOf[job]}

ASSUME TextsAssumption ==
  /\ RawIds \subseteq Seq(STRING) /\ TaskNames \subseteq Seq(STRING)
  /\ Keys \subseteq Seq(STRING) /\ "job_id" \in Fields

\* Who writes the index writes a task under the key of its job.
ASSUME WritersAssumption ==
  /\ \A left \in Stored, key \in Keys : OfItsJob(key, left.record[key])
  /\ \A c \in Calls :
       /\ c.op \in {"put", "expire", "set_fields"} => OfItsJob(c.key, c.fields)
       /\ c.op = "set_field" => OfItsJob(c.key, Only(c.field, c.value))
       /\ c.op = "compare_and_swap" => OfItsJob(c.key, Only(c.field, c.new))

ScanOfJob(job, filter) ==
  [op |-> "scan", prefix |-> job_tasks_prefix(job), filter |-> filter]

\* What a scan of a job's tasks finds: records of that job (or what field writes and
\* expiry left of one, without a job), whatever other ids look like and whatever names
\* their tasks have.
JobScanFindsItsTasks ==
  \A k \in Clients, job \in JobIds :
    Calling(k, {"read"}) /\ call[k].prefix = job_tasks_prefix(job) =>
      \A i \in 1..Len(found[k]) : found[k][i][2]["job_id"] \in {Nil, IdOf[job]}

=============================================================================
