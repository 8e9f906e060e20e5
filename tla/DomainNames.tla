------------------------------ MODULE DomainNames ------------------------------
(***************************************************************************)
(* Identifiers and state store keys of crates/jobs-domain.  A text is a      *)
(* sequence of pieces: characters, and the words of the key formats and id   *)
(* prefixes as one piece each, since no property looks inside them.  The     *)
(* limit on the length of an id (64 bytes) is left out.                      *)
(***************************************************************************)
EXTENDS Integers, Sequences

CONSTANTS
  Alphanumeric   \* the pieces of letters and digits, words included

\* The point that parts the keys is neither a letter nor a digit.
ASSUME AlphabetAssumption == "." \notin Alphanumeric

Marks == {"-", "_"}

starts_with(s, p) == Len(p) <= Len(s) /\ SubSeq(s, 1, Len(p)) = p

-----------------------------------------------------------------------------
(* ids.rs                                                                   *)

\* Without the test of the characters.
any_slug(s) == s # <<>>

is_valid_slug(s) ==
  /\ s # <<>>
  /\ \A i \in 1..Len(s) : s[i] \in Alphanumeric \cup Marks

\* The prefix, "job_", is a word and its underscore.
is_valid_prefixed_id(s, prefix) == starts_with(s, prefix) /\ is_valid_slug(s)

JobId(raw) == is_valid_prefixed_id(raw, <<"job", "_">>)

-----------------------------------------------------------------------------
(* keys.rs                                                                  *)

job_key(job_type, job_id) ==
  <<"gbe", ".", "state", ".", "jobs", ".">> \o job_type \o <<".">> \o job_id

task_key(task_type, task_id) ==
  <<"gbe", ".", "state", ".", "tasks", ".">> \o task_type \o <<".">> \o task_id

job_tasks_prefix(job_id) ==
  <<"gbe", ".", "idx", ".", "jobs", ".">> \o job_id \o <<".", "tasks", ".">>

job_task_index_key(job_id, task_name) ==
  <<"gbe", ".", "idx", ".", "jobs", ".">> \o job_id \o <<".", "tasks", ".">> \o task_name

=============================================================================
