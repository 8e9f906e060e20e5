---------------------------- MODULE MCTaskLifecycle ----------------------------
(* A job and a task, for TLC.                                                *)
EXTENDS TaskLifecycle, TLC

CONSTANTS k1, k2

MCJobKeys  == {job_key(<<"mail">>, <<"job", "_", "1">>)}
MCTaskKeys == {task_key(<<"mail">>, <<"task", "_", "1">>)}
MCKeys     == MCJobKeys \cup MCTaskKeys
MCFields   == {"state", "current_step"}
MCValues   == TaskStates \cup {"1"}
MCStored   == {[record |-> [key \in MCKeys |-> Absent], expiring |-> {}]}
Twins      == Permutations(Clients)
=============================================================================
