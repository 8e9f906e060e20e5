------------------------- MODULE TaskLifecycle_proofs -------------------------
(***************************************************************************)
(* Proofs about TaskLifecycle, for any number of clients, jobs and tasks:   *)
(* at most one client is told that a task is its own, and every step of the *)
(* clients, the store and its faults is a step of TaskMachine.              *)
(***************************************************************************)
EXTENDS TaskLifecycle, RedisStateStore_proofs, FiniteSetTheorems

\* What a driver may submit.
FirstStates(key) == IF key \in JobKeys THEN {"pending"} ELSE {"blocked", "pending"}

\* The calls of a lifecycle: a swap is a transition of state.rs, a put a submission, and
\* other writes leave the state alone.
CallOK(c) ==
  /\ c.op = "compare_and_swap" => c.field = "state" /\ c.new \in transition_to(c.key, c.expected)
  /\ c.op = "put" => \E s \in FirstStates(c.key) : c.fields = Only("state", s)
  /\ c.op = "set_field" => c.field = "current_step"
  /\ c.op # "set_fields"

\* What a client keeps of its last call is of such a call, and it keeps it until it calls.
AnswerOK(k) ==
  /\ call[k] # Idle => answer[k] = NoAnswer
  /\ answer[k].is \in {"ok", "err"} => answer[k].to \in AllCalls /\ CallOK(answer[k].to)
  /\ answer[k].is = "ok" /\ answer[k].to.op = "read" =>
       answer[k].value.results \in Seq(Keys \X Hashes)

ClientsOK == \A k \in Clients : CallOK(call[k]) /\ AnswerOK(k)

\* A put in progress is the first of its key, which has never had a state.
Submissions ==
  /\ appeared \subseteq submitted
  /\ \A key \in Keys : record[key]["state"] # Nil => key \in appeared
  /\ \A k \in Clients : call[k].op = "put" => call[k].key \in submitted \ appeared
  /\ \A j, k \in Clients : call[j].op = "put" /\ call[k].op = "put" /\ j # k =>
       call[j].key # call[k].key

Claims ==
  \A key \in TaskKeys :
    /\ holders[key] # {} => record[key]["state"] \in {"claimed", "running"}
    /\ \A j, k \in holders[key] : j = k

StoreOK == ServerTypes /\ ClientTypes /\ AnswerTypes

LInv == StoreOK /\ ClientsOK /\ Submissions /\ Claims

-----------------------------------------------------------------------------
(* The clients begin calls of the lifecycle.                                 *)

LEMMA SeenKey ==
  ASSUME StoreOK, ClientsOK, NEW k \in Clients, NEW seen \in Seen(k)
  PROVE  seen[1] \in Keys
<1> DEFINE a == answer[k]
<1>1. a.is = "ok"
  BY DEF Seen
<1>2. a.to \in AllCalls /\ (a.to.op = "read" => a.value.results \in Seq(Keys \X Hashes))
  BY <1>1 DEF ClientsOK, AnswerOK
<1>3. CASE a.to.op = "get_field"
  BY <1>1, <1>2, <1>3, CallOf DEF Seen
<1>4. CASE a.to.op = "compare_and_swap"
  BY <1>1, <1>2, <1>4, CallOf DEF Seen
<1>5. CASE a.to.op = "read"
  <2>1. PICK i \in 1..Len(a.value.results) :
          seen = <<a.value.results[i][1], a.value.results[i][2]["state"]>>
    BY <1>1, <1>5 DEF Seen
  <2>2. a.value.results[i] \in Keys \X Hashes
    BY <1>2, <1>5
  <2> QED BY <2>1, <2>2
<1> QED BY <1>1, <1>3, <1>4, <1>5 DEF Seen

\* A state from which, or to which, there is a transition is a value.
LEMMA StatesAreValues ==
  ASSUME NEW key, NEW s, NEW next \in transition_to(key, s)
  PROVE  s \in Values /\ next \in Values
BY LifecycleAssumption DEF transition_to, JobState_can_transition_to,
   TaskState_can_transition_to, JobStates, TaskStates

LEMMA MoveBegins ==
  ASSUME StoreOK, ClientsOK, NEW k \in Clients, Move(k)
  PROVE  \E c \in AllCalls : CallOK(c) /\ c.op # "put" /\ Begin(k, c)
<1>1. PICK seen \in Seen(k) : \E next \in transition_to(seen[1], seen[2]) :
        Begin(k, [op |-> "compare_and_swap", key |-> seen[1], field |-> "state",
                  expected |-> seen[2], new |-> next])
  BY DEF Move
<1>2. PICK next \in transition_to(seen[1], seen[2]) :
        Begin(k, [op |-> "compare_and_swap", key |-> seen[1], field |-> "state",
                  expected |-> seen[2], new |-> next])
  BY <1>1
<1> DEFINE c == [op |-> "compare_and_swap", key |-> seen[1], field |-> "state",
                 expected |-> seen[2], new |-> next]
<1>3. seen[1] \in Keys /\ seen[2] \in Values /\ next \in Values /\ "state" \in Fields
  BY SeenKey, StatesAreValues, LifecycleAssumption
<1>4. c \in AllCalls
  BY <1>3 DEF AllCalls
<1>5. CallOK(c) /\ c.op # "put"
  BY DEF CallOK
<1> QED BY <1>2, <1>4, <1>5

LEMMA LookForBegins ==
  ASSUME NEW k \in Clients, NEW s \in {"claimed", "running"}, LookFor(k, s)
  PROVE  \E c \in AllCalls : CallOK(c) /\ c.op # "put" /\ Begin(k, c)
<1> DEFINE filter == [op |-> "Eq", field |-> "state", value |-> s, max_results |-> NoMax]
           c == [op |-> "scan", prefix |-> AnyTask, filter |-> filter]
<1>1. AnyTask \in Seq(STRING)
  BY LifecycleAssumption
<1>2. filter \in Filters
  BY LifecycleAssumption DEF Filters
<1>3. Begin(k, c)
  BY DEF LookFor
<1> HIDE DEF filter
<1>4. c \in AllCalls
  BY <1>1, <1>2 DEF AllCalls
<1>5. CallOK(c) /\ c.op # "put"
  BY DEF CallOK
<1> QED BY <1>3, <1>4, <1>5

LEMMA ClientBegins ==
  ASSUME StoreOK, ClientsOK, NEW k \in Clients, Client(k)
  PROVE  \E c \in AllCalls : CallOK(c) /\ c.op # "put" /\ Begin(k, c)
<1>1. ASSUME NEW key \in Keys, Look(k, key)
      PROVE  \E c \in AllCalls : CallOK(c) /\ c.op # "put" /\ Begin(k, c)
  <2> DEFINE c == [op |-> "get_field", key |-> key, field |-> "state"]
  <2>1. c \in AllCalls
    BY LifecycleAssumption DEF AllCalls
  <2>2. CallOK(c) /\ c.op # "put"
    BY DEF CallOK
  <2> QED BY <1>1, <2>1, <2>2 DEF Look
<1>2. ASSUME Retry(k)
      PROVE  \E c \in AllCalls : CallOK(c) /\ c.op # "put" /\ Begin(k, c)
  BY <1>2 DEF Retry, ClientsOK, AnswerOK
<1>3. ASSUME Sweep(k)
      PROVE  \E c \in AllCalls : CallOK(c) /\ c.op # "put" /\ Begin(k, c)
  <2>1. PICK seen \in Seen(k) : Begin(k, [op |-> "delete", key |-> seen[1]])
    BY <1>3 DEF Sweep
  <2> DEFINE c == [op |-> "delete", key |-> seen[1]]
  <2>2. c \in AllCalls
    BY SeenKey DEF AllCalls
  <2>3. CallOK(c) /\ c.op # "put"
    BY DEF CallOK
  <2> QED BY <2>1, <2>2, <2>3
<1>4. ASSUME NEW step \in Steps, Progress(k, step)
      PROVE  \E c \in AllCalls : CallOK(c) /\ c.op # "put" /\ Begin(k, c)
  <2>1. PICK seen \in Seen(k) :
          Begin(k, [op |-> "set_field", key |-> seen[1], field |-> "current_step",
                    value |-> step])
    BY <1>4 DEF Progress
  <2> DEFINE c == [op |-> "set_field", key |-> seen[1], field |-> "current_step",
                   value |-> step]
  <2>2. c \in AllCalls
    BY SeenKey, LifecycleAssumption DEF AllCalls
  <2>3. CallOK(c) /\ c.op # "put"
    BY DEF CallOK
  <2> QED BY <2>1, <2>2, <2>3
<1> QED BY <1>1, <1>2, <1>3, <1>4, MoveBegins, LookForBegins DEF Client

LEMMA SubmitBegins ==
  ASSUME NEW k \in Clients, NEW key \in Keys, NEW s \in FirstStates(key),
         NEW ttl \in {"none", "seconds"}, Submit(k, key, s, ttl)
  PROVE  \E c \in AllCalls : CallOK(c) /\ c.key = key /\ Begin(k, c)
<1> DEFINE c == [op |-> "put", key |-> key, fields |-> Only("state", s), ttl |-> ttl]
<1>1. Only("state", s) \in Hashes
  BY OneField, LifecycleAssumption DEF FirstStates
<1>2. c \in AllCalls
  BY <1>1 DEF AllCalls, Ttls
<1>3. CallOK(c)
  BY DEF CallOK
<1>4. Begin(k, c) /\ c.key = key
  BY DEF Submit
<1> QED BY <1>2, <1>3, <1>4

-----------------------------------------------------------------------------
(* What a command does to its client, and what the steps do to the states.   *)

Others(k) ==
  \A j \in Clients \ {k} : call'[j] = call[j] /\ answer'[j] = answer[j]

\* The client of a command goes on, or it has an answer.
Advances(k) ==
  /\ call[k].op # "idle"
  /\ \/ /\ UNCHANGED answer
        /\ \/ UNCHANGED call
           \/ \E op \in {"expire", "scan", "read"} :
                call' = [call EXCEPT ![k] = [call[k] EXCEPT !.op = op]]
     \/ /\ call' = [call EXCEPT ![k] = Idle]
        /\ \/ answer' = [answer EXCEPT ![k] = Err(call[k])]
           \/ \E v : /\ answer' = [answer EXCEPT ![k] = Ok(call[k], v)]
                     /\ call[k].op = "read" => v.results \in Seq(Keys \X Hashes)

LEMMA ReturnAdvances ==
  ASSUME NEW k \in Clients, NEW o, NEW v, Return(k, o, v), call[k].op # "idle",
         o = "ok" /\ call[k].op = "read" => v.results \in Seq(Keys \X Hashes)
  PROVE  Advances(k)
<1>1. call' = [call EXCEPT ![k] = Idle]
  BY DEF Return
<1>2. CASE o = "ok"
  <2>1. answer' = [answer EXCEPT ![k] = Ok(call[k], v)]
    BY <1>2 DEF Return
  <2> QED BY <1>1, <1>2, <2>1 DEF Advances
<1>3. CASE o # "ok"
  <2>1. answer' = [answer EXCEPT ![k] = Err(call[k])]
    BY <1>3 DEF Return
  <2> QED BY <1>1, <2>1 DEF Advances
<1> QED BY <1>2, <1>3

LEMMA GoOnAdvances ==
  ASSUME NEW k \in Clients, NEW op \in {"expire", "scan", "read"}, GoOn(k, op), call[k].op # "idle"
  PROVE  Advances(k)
<1>1. call' = [call EXCEPT ![k] = [call[k] EXCEPT !.op = op]] /\ UNCHANGED answer
  BY DEF GoOn
<1> QED BY <1>1 DEF Advances

LEMMA ReadKeyAdvances ==
  ASSUME StoreOK, NEW k \in Clients, NEW key \in page[k], ReadKey(k, key)
  PROVE  Advances(k)
<1> DEFINE r       == record[key]
           takes   == Exists(key) /\ Matches(r, call[k].filter)
           results == IF takes THEN Append(found[k], <<key, r>>) ELSE found[k]
<1>1. results \in Seq(Keys \X Hashes)
  <2>1. key \in Keys /\ r \in Hashes /\ found[k] \in Seq(Keys \X Hashes)
    BY DEF StoreOK, ClientTypes, ServerTypes
  <2> HIDE DEF r
  <2> QED BY <2>1
<1>2. PICK o \in Outcomes("HGETALL") :
        IF o # "ok" THEN Reply(k, o, Done)
        ELSE IF takes /\ Full(call[k], results) THEN Return(k, o, [results |-> results])
             ELSE UNCHANGED <<call, answer>>
  BY DEF ReadKey
<1>6. call[k].op # "idle"
  BY DEF ReadKey, Calling
<1> HIDE DEF results, takes
<1>3. CASE o # "ok"
  BY <1>2, <1>3, <1>6, ReturnAdvances DEF Reply
<1>4. CASE o = "ok" /\ takes /\ Full(call[k], results)
  <2>1. [results |-> results].results \in Seq(Keys \X Hashes)
    BY <1>1
  <2> QED BY <1>2, <1>4, <1>6, <2>1, ReturnAdvances
<1>5. CASE o = "ok" /\ ~(takes /\ Full(call[k], results))
  BY <1>2, <1>5, <1>6 DEF Advances
<1> QED BY <1>3, <1>4, <1>5

LEMMA CommandAdvances ==
  ASSUME StoreOK, NEW k \in Clients, Command(k)
  PROVE  Advances(k)
<1>1. ASSUME call[k].op \notin {"read", "idle"}, NEW o, NEW v, Reply(k, o, v) PROVE Advances(k)
  BY <1>1, ReturnAdvances DEF Reply
<1>2. ASSUME Get(k) \/ GetField(k) \/ Delete(k) \/ SetField(k) \/ SetFields(k)
             \/ WriteNothing(k) \/ CompareAndSwap(k) \/ Expire(k)
      PROVE  Advances(k)
  <2>1. call[k].op \notin {"read", "idle"}
    BY <1>2 DEF Get, GetField, Delete, SetField, SetFields, WriteNothing,
                CompareAndSwap, Expire, Calling
  <2>2. \E o, v : Reply(k, o, v)
    BY <1>2 DEF Get, GetField, Delete, SetField, SetFields, Store, WriteNothing,
                CompareAndSwap, Expire
  <2> QED BY <1>1, <2>1, <2>2
<1>3. ASSUME Put(k) PROVE Advances(k)
  <2>1. call[k].op \notin {"read", "idle"}
    BY <1>3 DEF Put, Calling
  <2>2. (\E o, v : Reply(k, o, v)) \/ GoOn(k, "expire")
    BY <1>3 DEF Put
  <2> QED BY <1>1, <2>1, <2>2, GoOnAdvances
<1>4. ASSUME ScanPage(k) PROVE Advances(k)
  <2>1. call[k].op \notin {"read", "idle"}
    BY <1>4 DEF ScanPage, Calling
  <2>2. (\E o, v : Reply(k, o, v)) \/ GoOn(k, "read")
    BY <1>4 DEF ScanPage
  <2> QED BY <1>1, <2>1, <2>2, GoOnAdvances
<1>5. ASSUME EndPage(k) PROVE Advances(k)
  <2>3. call[k].op # "idle"
    BY <1>5 DEF EndPage, Calling
  <2>1. CASE Reply(k, "ok", [results |-> found[k]])
    <3>1. [results |-> found[k]].results \in Seq(Keys \X Hashes)
      BY DEF StoreOK, ClientTypes
    <3> QED BY <2>1, <2>3, <3>1, ReturnAdvances DEF Reply
  <2>2. CASE GoOn(k, "scan")
    BY <2>2, <2>3, GoOnAdvances
  <2> QED BY <1>5, <2>1, <2>2 DEF EndPage
<1> QED BY <1>2, <1>3, <1>4, <1>5, ReadKeyAdvances DEF Command

LEMMA AdvancesAside ==
  ASSUME StoreOK, NEW k \in Clients, Advances(k)
  PROVE  Others(k)
<1>1. DOMAIN call = Clients /\ DOMAIN answer = Clients
  BY DEF StoreOK, ClientTypes, AnswerTypes
<1> QED BY <1>1 DEF Advances, Others

\* A call that goes on is still one of the lifecycle, and what is left of put is no put.
LEMMA AdvancesCalls ==
  ASSUME StoreOK, ClientsOK, NEW k \in Clients, Advances(k)
  PROVE  /\ ClientsOK'
         /\ call'[k].op = "put" => call'[k] = call[k]
<1>0. DOMAIN call = Clients /\ DOMAIN answer = Clients /\ call[k] \in {Idle} \cup AllCalls
  BY DEF StoreOK, ClientTypes, AnswerTypes
<1>1. Others(k)
  BY AdvancesAside
<1>2. CallOK(call[k]) /\ AnswerOK(k)
  BY DEF ClientsOK
<1>3. ASSUME CallOK(call'[k]), AnswerOK(k)' PROVE ClientsOK'
  <2>1. ASSUME NEW j \in Clients \ {k} PROVE CallOK(call'[j]) /\ AnswerOK(j)'
    BY <1>1 DEF Others, ClientsOK, AnswerOK
  <2> QED BY <1>3, <2>1 DEF ClientsOK
<1>4. CASE UNCHANGED <<call, answer>>
  BY <1>4 DEF ClientsOK, AnswerOK
<1>5. ASSUME NEW op \in {"expire", "scan", "read"}, UNCHANGED answer,
             call' = [call EXCEPT ![k] = [call[k] EXCEPT !.op = op]]
      PROVE  ClientsOK' /\ call'[k].op # "put"
  <2>1. call'[k] = [call[k] EXCEPT !.op = op]
    BY <1>0, <1>5
  <2>2. answer[k] = NoAnswer
    BY <1>2 DEF Advances, AnswerOK, Idle
  <2>3. call'[k].op = op
    BY <1>0, <2>1 DEF AllCalls, Idle
  <2>4. CallOK(call'[k])
    BY <2>3 DEF CallOK
  <2>5. AnswerOK(k)'
    BY <1>2, <1>5, <2>2 DEF AnswerOK, NoAnswer
  <2> QED BY <1>3, <2>3, <2>4, <2>5
<1>6. CASE call' = [call EXCEPT ![k] = Idle]
  <2>1. call'[k] = Idle /\ CallOK(call'[k]) /\ call'[k].op # "put"
    BY <1>0, <1>6 DEF Idle, CallOK
  <2>2. call[k] \in AllCalls
    BY <1>0, NeverIdle DEF Advances
  <2>3. CASE answer' = [answer EXCEPT ![k] = Err(call[k])]
    <3>1. answer'[k] = Err(call[k])
      BY <1>0, <2>3
    <3> QED BY <1>2, <1>3, <2>1, <2>2, <3>1 DEF AnswerOK, Err
  <2>4. ASSUME NEW v, answer' = [answer EXCEPT ![k] = Ok(call[k], v)],
               call[k].op = "read" => v.results \in Seq(Keys \X Hashes)
        PROVE  ClientsOK'
    <3>1. answer'[k] = Ok(call[k], v)
      BY <1>0, <2>4
    <3> QED BY <1>2, <1>3, <2>1, <2>2, <2>4, <3>1 DEF AnswerOK, Ok
  <2>5. UNCHANGED answer => ClientsOK'
    BY <1>2, <1>3, <2>1 DEF AnswerOK
  <2> QED BY <1>6, <2>1, <2>3, <2>4, <2>5 DEF Advances
<1> QED BY <1>4, <1>5, <1>6 DEF Advances

-----------------------------------------------------------------------------
(* What the steps do to the states.                                          *)

Quiet == \A x \in Keys : record'[x]["state"] = record[x]["state"]

\* One item has another state.
Sets(key, s) ==
  /\ record'[key]["state"] = s
  /\ \A x \in Keys \ {key} : record'[x]["state"] = record[x]["state"]

Swaps(c) ==
  /\ c.op = "compare_and_swap" /\ c.key \in Keys /\ record[c.key]["state"] = c.expected
  /\ c.new \in transition_to(c.key, c.expected) /\ Sets(c.key, c.new)

Submits(c) ==
  /\ c.op = "put" /\ c.key \in Keys
  /\ \E s \in FirstStates(c.key) : Sets(c.key, s)

Removes == \E key \in Keys : Sets(key, Nil)

LEMMA RemoveStates ==
  ASSUME ServerTypes, NEW key \in Keys, Remove(key)
  PROVE  Removes
<1>1. record'[key]["state"] = Nil
  BY LifecycleAssumption DEF ServerTypes, Remove, Absent
<1>2. \A x \in Keys \ {key} : record'[x] = record[x]
  BY DEF ServerTypes, Remove
<1> QED BY <1>1, <1>2 DEF Removes, Sets

LEMMA HsetStates ==
  ASSUME ServerTypes, NEW key \in Keys, NEW f \in Fields, NEW v \in Values,
         Hset(key, Only(f, v))
  PROVE  IF f = "state" THEN Sets(key, v) ELSE Quiet
<1>1. "state" \in Fields /\ v # Nil
  BY LifecycleAssumption, ValuesAssumption
<1>2. record'[key] = Merge(record[key], Only(f, v)) /\ \A x \in Keys \ {key} : record'[x] = record[x]
  BY DEF ServerTypes, Hset
<1>3. record'[key]["state"] = IF f = "state" THEN v ELSE record[key]["state"]
  BY <1>1, <1>2 DEF Merge, Only, Absent
<1> QED BY <1>2, <1>3 DEF Sets, Quiet

LEMMA QuietServer ==
  ASSUME UNCHANGED record
  PROVE  Quiet
BY DEF Quiet

LEMMA CommandStates ==
  ASSUME StoreOK, ClientsOK, NEW k \in Clients, Command(k)
  PROVE  \/ Quiet \/ Swaps(call[k]) \/ Removes
         \/ Submits(call[k]) /\ call'[k].op # "put"
<1> USE DEF StoreOK
<1>0. call[k] \in {Idle} \cup AllCalls /\ CallOK(call[k]) /\ DOMAIN call = Clients
  BY DEF ClientTypes, ClientsOK
<1>1. ASSUME Get(k) \/ GetField(k) \/ WriteNothing(k) \/ ScanPage(k) \/ EndPage(k)
             \/ \E key \in page[k] : ReadKey(k, key)
      PROVE  Quiet
  BY <1>1, QuietServer DEF Get, GetField, WriteNothing, ScanPage, EndPage, ReadKey,
     NoWrite, serverVars
<1>2. ASSUME Delete(k) PROVE Quiet \/ Removes
  <2>1. call[k].key \in Keys
    BY <1>0, <1>2, CallOf DEF Delete, Calling
  <2> QED BY <1>2, <2>1, RemoveStates, QuietServer DEF Delete, NoWrite, serverVars
<1>3. ASSUME SetField(k) PROVE Quiet
  <2>1. /\ call[k].key \in Keys /\ call[k].field \in Fields /\ call[k].value \in Values
        /\ call[k].field # "state"
    BY <1>0, <1>3, CallOf DEF SetField, Calling, CallOK
  <2> QED BY <1>3, <2>1, HsetStates, QuietServer DEF SetField, Store, NoWrite, serverVars
<1>4. ~SetFields(k)
  BY <1>0 DEF SetFields, Calling, CallOK
<1>5. ASSUME CompareAndSwap(k) PROVE Quiet \/ Swaps(call[k])
  <2>1. /\ call[k].op = "compare_and_swap" /\ call[k].key \in Keys /\ call[k].new \in Values
        /\ call[k].field = "state" /\ call[k].field \in Fields
        /\ call[k].new \in transition_to(call[k].key, call[k].expected)
    BY <1>0, <1>5, CallOf DEF CompareAndSwap, Calling, CallOK
  <2>2. CASE UNCHANGED serverVars
    BY <2>2, QuietServer DEF serverVars
  <2>3. CASE Same(call[k]) /\ Hset(call[k].key, Only(call[k].field, call[k].new))
    <3>1. Sets(call[k].key, call[k].new)
      BY <2>1, <2>3, HsetStates
    <3> QED BY <2>1, <2>3, <3>1 DEF Swaps, Same
  <2> QED BY <1>5, <2>2, <2>3 DEF CompareAndSwap
<1>6. ASSUME Put(k) PROVE Quiet \/ (Submits(call[k]) /\ call'[k].op # "put")
  <2>1. call[k].op = "put" /\ call[k].key \in Keys
    BY <1>0, <1>6, CallOf DEF Put, Calling
  <2>2. PICK s \in FirstStates(call[k].key) : call[k].fields = Only("state", s)
    BY <1>0, <2>1 DEF CallOK
  <2>3. s \in Values /\ "state" \in Fields
    BY LifecycleAssumption DEF FirstStates
  <2>4. CASE UNCHANGED serverVars
    BY <2>4, QuietServer DEF serverVars
  <2>5. CASE Hset(call[k].key, call[k].fields)
    <3>1. Sets(call[k].key, s)
      BY <2>1, <2>2, <2>3, <2>5, HsetStates
    <3>2. call'[k].op # "put"
      <4>1. CASE GoOn(k, "expire")
        <5>1. call'[k] = [call[k] EXCEPT !.op = "expire"]
          BY <1>0, <4>1 DEF GoOn
        <5>2. call[k] \in [op : {"put", "expire"}, key : Keys, fields : Hashes, ttl : Ttls]
          BY <1>0, <2>1, PutCall
        <5> QED BY <5>1, <5>2
      <4>2. CASE \E o : Reply(k, o, Done)
        <5>1. call'[k] = Idle
          BY <1>0, <4>2 DEF Reply, Return
        <5> QED BY <5>1 DEF Idle
      <4> QED BY <1>6, <4>1, <4>2 DEF Put
    <3> QED BY <2>1, <3>1, <3>2 DEF Submits
  <2> QED BY <1>6, <2>4, <2>5 DEF Put, WriteAll
<1>7. ASSUME Expire(k) PROVE Quiet \/ Removes
  <2>1. call[k].key \in Keys
    BY <1>0, <1>7, CallOf DEF Expire, Calling
  <2>2. UNCHANGED record \/ Remove(call[k].key)
    BY <1>7 DEF Expire, SetTtl, TakesTtl, serverVars
  <2> QED BY <2>1, <2>2, RemoveStates, QuietServer
<1> QED BY <1>1, <1>2, <1>3, <1>4, <1>5, <1>6, <1>7 DEF Command

\* Only a swap of a free task tells a client that it has claimed it.
LEMMA ToldBySwap ==
  ASSUME StoreOK, ClientsOK, NEW k \in Clients, Command(k),
         NEW j \in Clients, NEW key \in TaskKeys, Told(j, key)
  PROVE  j = k /\ record[key]["state"] = "pending"
<1>1. answer'[j] = Ok(call[j], [swapped |-> TRUE]) /\ call[j] # Idle /\ call[j].key = key
      /\ call[j].op = "compare_and_swap" /\ call[j].new = "claimed"
  BY DEF Told
<1>2. answer[j] = NoAnswer /\ CallOK(call[j]) /\ DOMAIN answer = Clients
  BY <1>1 DEF ClientsOK, AnswerOK, StoreOK, AnswerTypes
<1>3. j = k
  <2>1. SUFFICES ASSUME j # k PROVE FALSE
    OBVIOUS
  <2>2. answer'[j] = NoAnswer
    BY <1>2, <2>1, CommandAdvances, AdvancesAside DEF Others
  <2> QED BY <1>1, <2>2 DEF NoAnswer, Ok
<1>4. CompareAndSwap(k)
  BY <1>1, <1>2, <1>3 DEF Command, Get, GetField, Delete, SetField, SetFields, WriteNothing,
     Put, Expire, ScanPage, EndPage, ReadKey, Calling
<1>5. Same(call[k])
  <2>1. PICK o \in Outcomes("EVALSHA") : Reply(k, o, [swapped |-> Same(call[k])])
    BY <1>4 DEF CompareAndSwap
  <2>2. answer'[k] = IF o = "ok" THEN Ok(call[k], [swapped |-> Same(call[k])]) ELSE Err(call[k])
    BY <1>2, <2>1 DEF Reply, Return
  <2>3. o = "ok"
    BY <1>1, <1>3, <2>2 DEF Ok, Err
  <2>4. Ok(call[k], [swapped |-> Same(call[k])]).value = Ok(call[k], [swapped |-> TRUE]).value
    BY <1>1, <1>3, <2>2, <2>3
  <2>5. [swapped |-> Same(call[k])].swapped = [swapped |-> TRUE].swapped
    BY <2>4 DEF Ok
  <2> QED BY <2>5
<1>6. call[k].field = "state" /\ "claimed" \in transition_to(key, call[k].expected)
  BY <1>1, <1>2, <1>3 DEF CallOK
<1>7. call[k].expected = "pending"
  BY <1>6, LifecycleAssumption DEF transition_to, TaskState_can_transition_to
<1> QED BY <1>1, <1>3, <1>5, <1>6, <1>7 DEF Same

-----------------------------------------------------------------------------
(* The invariant.                                                            *)

LEMMA InitInv == LifecycleInit => LInv
<1> SUFFICES ASSUME LifecycleInit PROVE LInv
  OBVIOUS
<1>1. StoreOK
  BY InitTypes DEF LifecycleInit, Types, StoreOK
<1>2. call = [k \in Clients |-> Idle] /\ answer = [k \in Clients |-> NoAnswer]
      /\ submitted = {} /\ appeared = {} /\ holders = [key \in TaskKeys |-> {}]
  BY DEF LifecycleInit, Init
<1>3. ClientsOK
  BY <1>2 DEF ClientsOK, CallOK, AnswerOK, Idle, NoAnswer
<1>4. \A key \in Keys : record[key]["state"] = Nil
  BY LifecycleAssumption DEF LifecycleInit, Init, Absent
<1>5. Submissions
  BY <1>2, <1>4 DEF Submissions, Idle
<1>6. Claims
  BY <1>2 DEF Claims
<1> QED BY <1>1, <1>3, <1>5, <1>6 DEF LInv

\* A step that begins no put: an item gets its first state from the put of its key.
LEMMA StepSubmissions ==
  ASSUME Submissions, Follow, UNCHANGED submitted,
         \A k \in Clients : call'[k].op = "put" => call'[k] = call[k],
         \/ Quiet \/ Removes
         \/ \E k \in Clients : Swaps(call[k])
         \/ \E k \in Clients : Submits(call[k]) /\ call'[k].op # "put"
  PROVE  Submissions'
<1>1. \A key \in Keys : record'[key]["state"] # Nil => key \in appeared'
  BY DEF Follow
<1>2. CASE Quiet \/ Removes \/ \E k \in Clients : Swaps(call[k])
  <2>1. \A key \in Keys : record'[key]["state"] # Nil => key \in appeared
    <3>1. CASE Quiet
      BY <3>1 DEF Quiet, Submissions
    <3>2. CASE Removes
      BY <3>2 DEF Removes, Sets, Submissions
    <3>3. ASSUME NEW k \in Clients, Swaps(call[k])
          PROVE  \A key \in Keys : record'[key]["state"] # Nil => key \in appeared
      <4>1. call[k].expected # Nil
        BY <3>3, StatesAreValues, ValuesAssumption DEF Swaps
      <4> QED BY <3>3, <4>1 DEF Swaps, Sets, Submissions
    <3> QED BY <1>2, <3>1, <3>2, <3>3
  <2>2. appeared' = appeared
    BY <2>1 DEF Follow
  <2> QED BY <1>1, <2>2 DEF Submissions
<1>3. ASSUME NEW k \in Clients, Submits(call[k]), call'[k].op # "put"
      PROVE  Submissions'
  <2>1. PICK key \in Keys : key = call[k].key
    BY <1>3 DEF Submits
  <2>2. appeared' \subseteq appeared \cup {key}
    BY <1>3, <2>1 DEF Follow, Submits, Sets, Submissions
  <2>3. key \in submitted /\ \A j \in Clients \ {k} : call[j].op = "put" => call[j].key # key
    BY <1>3, <2>1 DEF Submits, Submissions
  <2> QED BY <1>1, <1>3, <2>2, <2>3 DEF Submissions
<1> QED BY <1>2, <1>3

\* A step that tells of no claim but one of a free task keeps the claims apart.
LEMMA StepClaims ==
  ASSUME Claims, Follow,
         \A key \in TaskKeys : \A i, j \in Clients :
           Told(i, key) /\ Told(j, key) => i = j,
         \A key \in TaskKeys : \A j \in Clients :
           Told(j, key) => record[key]["state"] = "pending"
  PROVE  Claims'
<1> SUFFICES ASSUME NEW key \in TaskKeys
             PROVE  /\ holders'[key] # {} => record'[key]["state"] \in {"claimed", "running"}
                    /\ \A i, j \in holders'[key] : i = j
  BY DEF Claims
<1>1. holders'[key] = IF record'[key]["state"] \notin {"claimed", "running"} THEN {}
                      ELSE holders[key] \cup {k \in Clients : Told(k, key)}
  BY DEF Follow
<1>2. (\E j \in Clients : Told(j, key)) => holders[key] = {}
  BY DEF Claims
<1> QED BY <1>1, <1>2 DEF Claims

\* A client begins a call.
LEMMA BeginInv ==
  ASSUME LInv, NEW k \in Clients, NEW c \in AllCalls, CallOK(c), Begin(k, c)
  PROVE  /\ StoreOK' /\ ClientsOK' /\ Quiet
         /\ \A j \in Clients, key \in TaskKeys : ~Told(j, key)
         /\ call' = [call EXCEPT ![k] = c] /\ call[k] = Idle
<1> USE DEF LInv
<1>0. DOMAIN call = Clients /\ DOMAIN answer = Clients
  BY DEF StoreOK, ClientTypes, AnswerTypes
<1>1. StoreOK'
  BY BeginTypes DEF StoreOK
<1>2. call' = [call EXCEPT ![k] = c] /\ answer' = [answer EXCEPT ![k] = NoAnswer] /\ call[k] = Idle
  BY DEF Begin
<1>3. ClientsOK'
  <2>1. CallOK(call'[k]) /\ answer'[k] = NoAnswer
    BY <1>0, <1>2
  <2>2. ASSUME NEW j \in Clients \ {k} PROVE call'[j] = call[j] /\ answer'[j] = answer[j]
    BY <1>0, <1>2
  <2> QED BY <2>1, <2>2 DEF ClientsOK, AnswerOK, NoAnswer
<1>4. Quiet
  BY QuietServer DEF Begin, NoWrite, serverVars
<1>5. ASSUME NEW j \in Clients, NEW key \in TaskKeys, Told(j, key) PROVE FALSE
  <2>1. j # k /\ answer'[j] = answer[j]
    BY <1>0, <1>2, <1>5 DEF Told
  <2>2. answer[j] = NoAnswer
    BY <1>5 DEF Told, ClientsOK, AnswerOK
  <2> QED BY <1>5, <2>1, <2>2 DEF Told, NoAnswer, Ok
<1> QED BY <1>1, <1>2, <1>3, <1>4, <1>5

\* A client gives up, or a time to live runs out.
LEMMA QuietClients ==
  ASSUME LInv, UNCHANGED answer, \A j \in Clients : call'[j] = call[j] \/ call'[j] = Idle
  PROVE  /\ ClientsOK'
         /\ \A j \in Clients : call'[j].op = "put" => call'[j] = call[j]
         /\ \A j \in Clients, key \in TaskKeys : ~Told(j, key)
<1> USE DEF LInv
<1>2. ClientsOK'
  BY DEF ClientsOK, CallOK, AnswerOK, Idle
<1>3. \A j \in Clients : call'[j].op = "put" => call'[j] = call[j]
  BY DEF Idle
<1>4. ASSUME NEW j \in Clients, NEW key \in TaskKeys, Told(j, key) PROVE FALSE
  <2>1. answer[j] = NoAnswer
    BY <1>4 DEF Told, ClientsOK, AnswerOK
  <2> QED BY <1>4, <2>1 DEF Told, NoAnswer, Ok
<1> QED BY <1>2, <1>3, <1>4

\* What a step that submits nothing does to the states.
Classified ==
  \/ Quiet \/ Removes
  \/ \E k \in Clients : Swaps(call[k])
  \/ \E k \in Clients : Submits(call[k]) /\ call'[k].op # "put"

LEMMA StepInv ==
  ASSUME LInv, Follow, UNCHANGED submitted, StoreOK', ClientsOK', Classified,
         \A k \in Clients : call'[k].op = "put" => call'[k] = call[k],
         \A key \in TaskKeys : \A i, j \in Clients :
           Told(i, key) /\ Told(j, key) => i = j,
         \A key \in TaskKeys : \A j \in Clients :
           Told(j, key) => record[key]["state"] = "pending"
  PROVE  LInv'
<1>1. Submissions'
  BY StepSubmissions DEF LInv, Classified
<1>2. Claims'
  BY StepClaims DEF LInv
<1> QED BY <1>1, <1>2 DEF LInv

LEMMA CommandInv ==
  ASSUME LInv, Follow, UNCHANGED submitted, NEW k \in Clients, Command(k)
  PROVE  LInv' /\ Classified
<1> USE DEF LInv
<1>1. StoreOK'
  BY CommandServerTypes, CommandClientTypes DEF StoreOK
<1>2. Advances(k)
  BY CommandAdvances
<1>3. ClientsOK' /\ \A j \in Clients : call'[j].op = "put" => call'[j] = call[j]
  BY <1>2, AdvancesCalls, AdvancesAside DEF Others
<1>4. Classified
  BY CommandStates DEF Classified
<1>5. \A j \in Clients, key \in TaskKeys :
        Told(j, key) => j = k /\ record[key]["state"] = "pending"
  BY ToldBySwap
<1> QED BY <1>1, <1>3, <1>4, <1>5, StepInv

LEMMA ClientInv ==
  ASSUME LInv, Follow, UNCHANGED submitted, NEW k \in Clients, Client(k)
  PROVE  LInv' /\ Classified
<1>1. PICK c \in AllCalls : CallOK(c) /\ c.op # "put" /\ Begin(k, c)
  BY ClientBegins DEF LInv
<1>2. /\ StoreOK' /\ ClientsOK' /\ Quiet
      /\ \A j \in Clients, key \in TaskKeys : ~Told(j, key)
      /\ call' = [call EXCEPT ![k] = c]
  BY <1>1, BeginInv
<1>3. \A j \in Clients : call'[j].op = "put" => call'[j] = call[j]
  BY <1>1, <1>2 DEF LInv, StoreOK, ClientTypes
<1> QED BY <1>2, <1>3, StepInv DEF Classified

LEMMA SubmitInv ==
  ASSUME LInv, Follow, NEW k \in Clients, NEW key \in Keys, NEW s \in FirstStates(key),
         NEW ttl \in {"none", "seconds"}, Submit(k, key, s, ttl)
  PROVE  LInv' /\ Classified
<1>1. PICK c \in AllCalls : CallOK(c) /\ c.key = key /\ Begin(k, c)
  BY SubmitBegins
<1>2. /\ StoreOK' /\ ClientsOK' /\ Quiet
      /\ \A j \in Clients, x \in TaskKeys : ~Told(j, x)
      /\ call' = [call EXCEPT ![k] = c] /\ call[k] = Idle
  BY <1>1, BeginInv
<1>3. key \notin submitted /\ submitted' = submitted \cup {key}
  BY DEF Submit
<1>4. appeared' = appeared /\ \A x \in Keys : record'[x]["state"] # Nil => x \in appeared'
  BY <1>2 DEF Follow, Quiet, LInv, Submissions
<1>5. \A j \in Clients : call'[j] = IF j = k THEN c ELSE call[j]
  BY <1>2 DEF LInv, StoreOK, ClientTypes
<1>6. Submissions'
  BY <1>1, <1>3, <1>4, <1>5 DEF LInv, Submissions
<1>7. Claims'
  BY <1>2, StepClaims DEF LInv
<1> QED BY <1>2, <1>6, <1>7 DEF LInv, Classified

LEMMA DropInv ==
  ASSUME LInv, Follow, UNCHANGED submitted, NEW k \in Clients, Drop(k)
  PROVE  LInv' /\ Classified
<1>1. StoreOK'
  BY DropTypes DEF LInv, StoreOK
<1>2. /\ \A j \in Clients : call'[j] = call[j] \/ call'[j] = Idle
      /\ UNCHANGED answer /\ Quiet
  BY QuietServer DEF Drop, serverVars, LInv, StoreOK, ClientTypes
<1>3. /\ ClientsOK'
      /\ \A j \in Clients : call'[j].op = "put" => call'[j] = call[j]
      /\ \A j \in Clients, key \in TaskKeys : ~Told(j, key)
  BY <1>2, QuietClients
<1> QED BY <1>1, <1>2, <1>3, StepInv DEF Classified

LEMMA TimeToLiveInv ==
  ASSUME LInv, Follow, UNCHANGED submitted, NEW key \in expiring, TimeToLive(key)
  PROVE  LInv' /\ Classified
<1>1. StoreOK'
  BY TimeToLiveTypes DEF LInv, StoreOK
<1>2. call' = call /\ UNCHANGED answer /\ Removes
  BY RemoveStates DEF TimeToLive, LInv, StoreOK, ServerTypes
<1>3. /\ ClientsOK'
      /\ \A j \in Clients : call'[j].op = "put" => call'[j] = call[j]
      /\ \A j \in Clients, x \in TaskKeys : ~Told(j, x)
  BY <1>2, QuietClients
<1> QED BY <1>1, <1>2, <1>3, StepInv DEF Classified

LEMMA StutterInv ==
  ASSUME LInv, UNCHANGED lifecycleVars
  PROVE  LInv'
<1>1. UNCHANGED <<record, expiring, closed, call, answer, page, last, found, returned,
                  unlimited, submitted, appeared, holders>>
  BY DEF lifecycleVars, historyVars, vars, serverVars, scanVars
<1>2. ServerTypes' /\ ClientTypes' /\ AnswerTypes'
  BY <1>1 DEF LInv, StoreOK, ServerTypes, ClientTypes, AnswerTypes, Exists
<1>3. ClientsOK'
  BY <1>1 DEF LInv, ClientsOK, AnswerOK
<1>4. Submissions' /\ Claims'
  BY <1>1 DEF LInv, Submissions, Claims
<1> QED BY <1>2, <1>3, <1>4 DEF LInv, StoreOK

LEMMA NextInv ==
  ASSUME LInv, LifecycleNext
  PROVE  LInv' /\ Classified
<1>0. Follow
  BY DEF LifecycleNext
<1>1. CASE \E k \in Clients : Client(k) /\ UNCHANGED submitted
  BY <1>0, <1>1, ClientInv
<1>2. ASSUME NEW k \in Clients, NEW key \in Keys, NEW ttl \in {"none", "seconds"},
             NEW s \in FirstStates(key), Submit(k, key, s, ttl)
      PROVE  LInv' /\ Classified
  BY <1>0, <1>2, SubmitInv
<1>3. CASE UNCHANGED submitted /\ \E k \in Clients : Command(k)
  BY <1>0, <1>3, CommandInv
<1>4. CASE UNCHANGED submitted /\ \E k \in Clients : Drop(k)
  BY <1>0, <1>4, DropInv
<1>5. CASE UNCHANGED submitted /\ \E key \in expiring : TimeToLive(key)
  BY <1>0, <1>5, TimeToLiveInv
<1> QED BY <1>1, <1>2, <1>3, <1>4, <1>5 DEF LifecycleNext, FirstStates

LEMMA LInvariant == LifecycleSpec => []LInv
<1>1. LInv /\ [LifecycleNext]_lifecycleVars => LInv'
  BY NextInv, StutterInv
<1> QED BY <1>1, InitInv, PTL DEF LifecycleSpec

-----------------------------------------------------------------------------
(* One claimant, and the machine.                                            *)

\* Whatever replies are lost, calls repeated and tasks released, deleted and expired in
\* between: of the clients that swap a task to claimed, one at most is told that it did,
\* until the task is free again.
THEOREM ClaimedByOne == LifecycleSpec => []OneClaimant
<1>1. ASSUME LInv, NEW key \in TaskKeys PROVE Cardinality(holders[key]) <= 1
  <2>1. \A i, j \in holders[key] : i = j
    BY <1>1 DEF LInv, Claims
  <2>2. CASE holders[key] = {}
    BY <2>2, FS_EmptySet
  <2>3. CASE holders[key] # {}
    <3>1. PICK k : holders[key] = {k}
      BY <2>1, <2>3
    <3>2. Cardinality({k}) = 1
      BY FS_Singleton
    <3> QED BY <3>1, <3>2
  <2> QED BY <2>2, <2>3
<1>2. LInv => OneClaimant
  BY <1>1 DEF OneClaimant
<1> QED BY <1>2, LInvariant, PTL

States == [key \in Keys |-> record[key]["state"]]

\* A transition of state.rs is a step on the ladder, an outcome, a cancellation or, for a
\* task that was taken, the way back.
LEMMA TransitionsAreMoves ==
  ASSUME NEW key \in Keys, NEW s, NEW next \in transition_to(key, s)
  PROVE  \E i \in 1..Len(Machine!Ladder(key)) :
           s = Machine!Ladder(key)[i] /\ next \in Machine!Onward(key, i)
<1>1. CASE key \in JobKeys
  <2>1. Machine!Ladder(key) = <<"pending", "running">>
    BY <1>1 DEF Machine!Ladder
  <2>2. JobState_can_transition_to(s, next)
    BY <1>1 DEF transition_to
  <2>3. CASE s = "pending"
    <3>1. next \in Machine!Onward(key, 1)
      BY <2>1, <2>2, <2>3 DEF JobState_can_transition_to, Machine!Onward
    <3> QED BY <2>1, <2>3, <3>1
  <2>4. CASE s = "running"
    <3>1. next \in Machine!Onward(key, 2)
      BY <2>1, <2>2, <2>4 DEF JobState_can_transition_to, Machine!Onward, Machine!Outcomes
    <3> QED BY <2>1, <2>4, <3>1
  <2> QED BY <2>2, <2>3, <2>4 DEF JobState_can_transition_to
<1>2. CASE key \notin JobKeys
  <2>1. Machine!Ladder(key) = <<"blocked", "pending", "claimed", "running">>
    BY <1>2 DEF Machine!Ladder
  <2>2. TaskState_can_transition_to(s, next) /\ key \in TaskKeys
    BY <1>2, LifecycleAssumption DEF transition_to
  <2>3. CASE s = "blocked"
    <3>1. next \in Machine!Onward(key, 1)
      BY <2>1, <2>2, <2>3 DEF TaskState_can_transition_to, Machine!Onward
    <3> QED BY <2>1, <2>3, <3>1
  <2>4. CASE s = "pending"
    <3>1. next \in Machine!Onward(key, 2)
      BY <2>1, <2>2, <2>4 DEF TaskState_can_transition_to, Machine!Onward
    <3> QED BY <2>1, <2>4, <3>1
  <2>5. CASE s = "claimed"
    <3>1. next \in Machine!Onward(key, 3)
      BY <2>1, <2>2, <2>5 DEF TaskState_can_transition_to, Machine!Onward
    <3> QED BY <2>1, <2>5, <3>1
  <2>6. CASE s = "running"
    <3>1. next \in Machine!Onward(key, 4)
      BY <2>1, <2>2, <2>6 DEF TaskState_can_transition_to, Machine!Onward, Machine!Outcomes
    <3> QED BY <2>1, <2>6, <3>1
  <2> QED BY <2>2, <2>3, <2>4, <2>5, <2>6 DEF TaskState_can_transition_to
<1> QED BY <1>1, <1>2

LEMMA SetsState ==
  ASSUME NEW key \in Keys, NEW s, Sets(key, s)
  PROVE  States' = [States EXCEPT ![key] = s]
BY DEF States, Sets

\* The items that appear with a step.
LEMMA Appear ==
  ASSUME LInv, Follow
  PROVE  /\ Quiet \/ Removes => appeared' = appeared
         /\ \A key \in Keys : \A s : Sets(key, s) /\ s # Nil =>
              appeared' = appeared \cup {key}
<1>1. appeared' = appeared \cup {key \in Keys : record'[key]["state"] # Nil}
  BY DEF Follow
<1>2. \A key \in Keys : record[key]["state"] # Nil => key \in appeared
  BY DEF LInv, Submissions
<1>3. Quiet \/ Removes => \A key \in Keys : record'[key]["state"] # Nil => key \in appeared
  BY <1>2 DEF Quiet, Removes, Sets
<1>4. ASSUME NEW key \in Keys, NEW s, Sets(key, s), s # Nil
      PROVE  appeared' = appeared \cup {key}
  BY <1>1, <1>2, <1>4 DEF Sets
<1> QED BY <1>1, <1>3, <1>4

LEMMA MachineStep ==
  ASSUME LInv, Follow, Classified
  PROVE  [Machine!Next]_<<States, appeared>>
<1>0. Keys = Machine!Items
  BY LifecycleAssumption DEF Machine!Items
<1>1. CASE Quiet
  <2>1. States' = States
    BY <1>1 DEF Quiet, States
  <2> QED BY <1>1, <2>1, Appear
<1>2. CASE Removes
  <2>1. PICK key \in Keys : Sets(key, Nil)
    BY <1>2 DEF Removes
  <2>2. States' = [States EXCEPT ![key] = Nil] /\ appeared' = appeared
    BY <1>2, <2>1, SetsState, Appear
  <2>3. CASE States[key] = Nil
    BY <2>2, <2>3 DEF States
  <2>4. CASE States[key] # Nil
    <3>1. Machine!Vanish(key)
      BY <2>2, <2>4 DEF Machine!Vanish, States
    <3> QED BY <1>0, <3>1 DEF Machine!Next
  <2> QED BY <2>3, <2>4
<1>3. ASSUME NEW k \in Clients, Swaps(call[k]) PROVE Machine!Next
  <2>0. PICK key \in Keys : key = call[k].key
    BY <1>3 DEF Swaps
  <2>1. PICK next \in transition_to(key, record[key]["state"]) : Sets(key, next)
    BY <1>3, <2>0 DEF Swaps
  <2>2. record[key]["state"] # Nil /\ next # Nil
    BY StatesAreValues, ValuesAssumption
  <2>3. States' = [States EXCEPT ![key] = next]
    BY <2>1, SetsState
  <2>4. key \in appeared
    BY <2>2 DEF LInv, Submissions
  <2>5. appeared' = appeared
    <3>1. appeared' = appeared \cup {key}
      BY <2>1, <2>2, Appear
    <3> QED BY <2>4, <3>1
  <2>6. States[key] = record[key]["state"]
    BY DEF States
  <2>7. PICK i \in 1..Len(Machine!Ladder(key)) :
          States[key] = Machine!Ladder(key)[i] /\ next \in Machine!Onward(key, i)
    BY <2>6, TransitionsAreMoves
  <2>8. Machine!Move(key)
    BY <2>3, <2>5, <2>7 DEF Machine!Move, States
  <2> QED BY <1>0, <2>8 DEF Machine!Next
<1>4. ASSUME NEW k \in Clients, Submits(call[k]) PROVE Machine!Next
  <2>0. PICK key \in Keys : key = call[k].key
    BY <1>4 DEF Submits
  <2>1. PICK s \in FirstStates(key) : Sets(key, s)
    BY <1>4, <2>0 DEF Submits
  <2>2. key \notin appeared
    BY <1>4, <2>0 DEF LInv, Submissions, Submits
  <2>3. s # Nil
    BY LifecycleAssumption, ValuesAssumption DEF FirstStates
  <2>4. States' = [States EXCEPT ![key] = s] /\ appeared' = appeared \cup {key}
    BY <2>1, <2>3, SetsState, Appear
  <2>5. s \in {"pending", Machine!Ladder(key)[1]}
    BY DEF FirstStates, Machine!Ladder
  <2>6. Machine!Submit(key)
    BY <2>2, <2>4, <2>5 DEF Machine!Submit, States
  <2> QED BY <1>0, <2>6 DEF Machine!Next
<1> QED BY <1>1, <1>2, <1>3, <1>4 DEF Classified

\* Every step of the clients, the store, its faults and the clock is a step of the machine
\* or leaves the states alone.
THEOREM MachineImplemented == LifecycleSpec => ImplementsTaskMachine
<1>1. LifecycleInit => Machine!Init
  <2> SUFFICES ASSUME LifecycleInit PROVE Machine!Init
    OBVIOUS
  <2>1. \A key \in Keys : record[key]["state"] = Nil
    BY LifecycleAssumption DEF LifecycleInit, Init, Absent
  <2> QED BY <2>1, LifecycleAssumption DEF LifecycleInit, Machine!Init, Machine!Items
<1>2. LInv /\ [LifecycleNext]_lifecycleVars => [Machine!Next]_<<States, appeared>>
  <2>1. ASSUME LInv, LifecycleNext PROVE [Machine!Next]_<<States, appeared>>
    BY <2>1, NextInv, MachineStep DEF LifecycleNext
  <2>2. UNCHANGED lifecycleVars => UNCHANGED <<States, appeared>>
    BY DEF lifecycleVars, historyVars, vars, serverVars, States
  <2> QED BY <2>1, <2>2
<1> QED BY <1>1, <1>2, LInvariant, PTL DEF LifecycleSpec, ImplementsTaskMachine, Machine!Spec, States

===============================================================================
