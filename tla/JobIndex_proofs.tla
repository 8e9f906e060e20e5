---------------------------- MODULE JobIndex_proofs ----------------------------
(***************************************************************************)
(* Proofs about JobIndex, for any ids and task names, and any calls of any   *)
(* number of clients that write a task under the key of its job.             *)
(***************************************************************************)
EXTENDS JobIndex, RedisStateStore_proofs, SequenceTheorems

(* What keeps the jobs apart: whatever is under the prefix of a job is of it.  *)
Owned(key, fields) ==
  \A job \in JobIds :
    starts_with(key, job_tasks_prefix(job)) => fields["job_id"] \in {Nil, IdOf[job]}

RecordsOwned == \A key \in Keys : Owned(key, record[key])

WritesOwned(c) ==
  /\ c.op \in {"put", "expire", "set_fields"} => Owned(c.key, c.fields)
  /\ c.op = "set_field" => Owned(c.key, Only(c.field, c.value))
  /\ c.op = "compare_and_swap" => Owned(c.key, Only(c.field, c.new))

CallsOwned == \A k \in Clients : WritesOwned(call[k])

\* A scan under way has read and will read what was under its prefix.
ScanOwned(k) ==
  Scanning(k) =>
    /\ \A key \in page[k] : starts_with(key, call[k].prefix)
    /\ \A i \in 1..Len(found[k]) : /\ starts_with(found[k][i][1], call[k].prefix)
                                   /\ Owned(found[k][i][1], found[k][i][2])

FoundOwned == \A k \in Clients : ScanOwned(k)

IndexInv == RecordsOwned /\ CallsOwned /\ FoundOwned

-----------------------------------------------------------------------------
(* Keys.                                                                      *)

Joined(p, j, q) == p \o j \o q

\* Where the parts of a joined text are.
HasParts(t, S, p, j, q) ==
  /\ t \in Seq(S) /\ Len(t) = Len(p) + Len(j) + Len(q)
  /\ \A i \in 1..Len(j) : t[Len(p) + i] = j[i]
  /\ \A i \in 1..Len(q) : t[Len(p) + Len(j) + i] = q[i]

LEMMA JoinedParts ==
  ASSUME NEW S, NEW p \in Seq(S), NEW j \in Seq(S), NEW q \in Seq(S)
  PROVE  HasParts(Joined(p, j, q), S, p, j, q)
<1> DEFINE a == p \o j  b == a \o q
<1>1. /\ a \in Seq(S) /\ Len(a) = Len(p) + Len(j) /\ Len(p) \in Nat /\ Len(j) \in Nat
      /\ Len(q) \in Nat
  BY ConcatProperties
<1>2. ASSUME NEW i \in 1..Len(j)
      PROVE  a[Len(p) + i] = j[i]
  BY <1>1
<1> HIDE DEF a
<1>3. b \in Seq(S) /\ Len(b) = Len(a) + Len(q)
  BY <1>1, ConcatProperties
<1>4. ASSUME NEW i \in 1..Len(a)
      PROVE  b[i] = a[i]
  BY <1>1
<1>5. ASSUME NEW i \in 1..Len(q)
      PROVE  b[Len(a) + i] = q[i]
  BY <1>1
<1>6. b = Joined(p, j, q)
  BY DEF a, Joined
<1> HIDE DEF b
<1>7. \A i \in 1..Len(j) : Len(p) + i \in 1..Len(a)
  BY <1>1
<1>8. \A i \in 1..Len(j) : b[Len(p) + i] = j[i]
  BY <1>2, <1>4, <1>7
<1>9. \A i \in 1..Len(q) : b[Len(p) + Len(j) + i] = q[i]
  BY <1>1, <1>5
<1>10. Len(b) = Len(p) + Len(j) + Len(q)
  BY <1>1, <1>3
<1> QED BY <1>3, <1>6, <1>8, <1>9, <1>10 DEF HasParts

LEMMA Associative ==
  ASSUME NEW S, NEW a \in Seq(S), NEW b \in Seq(S), NEW c \in Seq(S)
  PROVE  (a \o b) \o c = a \o (b \o c)
BY ConcatAssociative

LEMMA JoinedKey ==
  ASSUME NEW S, NEW p \in Seq(S), NEW j \in Seq(S), NEW q \in Seq(S), NEW n \in Seq(S)
  PROVE  p \o j \o q \o n = Joined(p, j, q \o n)
<1>1. PICK a \in Seq(S) : a = p \o j
  BY ConcatProperties
<1>2. (a \o q) \o n = a \o (q \o n)
  BY SMTT(30)
<1> QED BY <1>1, <1>2 DEF Joined

\* A part that ends at its first delimiter is the only one that can be there.
LEMMA Delimited ==
  ASSUME NEW S, NEW p \in Seq(S), NEW j \in Seq(S), NEW k \in Seq(S), NEW q \in Seq(S),
         NEW n \in Seq(S), Len(q) > 0,
         \A i \in 1..Len(j) : j[i] # q[1], \A i \in 1..Len(k) : k[i] # q[1],
         starts_with(p \o j \o q \o n, p \o k \o q)
  PROVE  j = k
<1>0. PICK r \in Seq(S) : r = q \o n
  BY ConcatProperties
<1> DEFINE key == Joined(p, j, r)  pre == Joined(p, k, q)  P == Len(p)
<1>1. /\ P \in Nat /\ Len(j) \in Nat /\ Len(k) \in Nat /\ Len(q) \in Nat /\ Len(n) \in Nat
      /\ 1 \in 1..Len(r) /\ Len(r) = Len(q) + Len(n) /\ r[1] = q[1]
  BY <1>0, ConcatProperties
<1>2. /\ key \in Seq(S) /\ Len(key) = P + Len(j) + Len(q) + Len(n)
      /\ \A i \in 1..Len(j) : key[P + i] = j[i]
      /\ key[P + Len(j) + 1] = q[1]
  <2>1. HasParts(key, S, p, j, r)
    BY JoinedParts
  <2> HIDE DEF key
  <2>2. /\ key \in Seq(S) /\ Len(key) = P + Len(j) + Len(r)
        /\ \A i \in 1..Len(j) : key[P + i] = j[i]
    BY <2>1 DEF HasParts
  <2>3. key[P + Len(j) + 1] = r[1]
    BY <1>1, <2>1 DEF HasParts
  <2> QED BY <1>1, <2>2, <2>3
<1>3. /\ pre \in Seq(S) /\ Len(pre) = P + Len(k) + Len(q)
      /\ \A i \in 1..Len(k) : pre[P + i] = k[i]
      /\ pre[P + Len(k) + 1] = q[1]
  <2>1. 1 \in 1..Len(q)
    BY <1>1
  <2>2. HasParts(pre, S, p, k, q)
    BY JoinedParts
  <2> HIDE DEF pre
  <2> QED BY <2>1, <2>2 DEF HasParts
<1>4. Len(pre) <= Len(key) /\ SubSeq(key, 1, Len(pre)) = pre
  <2>1. p \o j \o q \o n = Joined(p, j, q \o n)
    <3>1. PICK a \in Seq(S) : a = p \o j
      BY ConcatProperties
    <3>2. (a \o q) \o n = a \o (q \o n)
      BY SMTT(30)
    <3> QED BY <3>1, <3>2 DEF Joined
  <2>2. p \o j \o q \o n = key /\ p \o k \o q = pre
    BY <1>0, <2>1 DEF Joined
  <2> QED BY <2>2 DEF starts_with
<1> HIDE DEF key, pre, P
<1>5. \A i \in 1..Len(pre) : key[i] = pre[i]
  <2>1. ASSUME NEW i \in 1..Len(pre)
        PROVE  SubSeq(key, 1, Len(pre))[i] = key[i]
    BY <1>2, <1>3, <1>4
  <2> QED BY <1>4, <2>1
<1>6. ~(Len(j) < Len(k))
  <2> SUFFICES ASSUME Len(j) < Len(k) PROVE FALSE
    OBVIOUS
  <2>1. Len(j) + 1 \in 1..Len(k) /\ P + Len(j) + 1 \in 1..Len(pre)
        /\ P + (Len(j) + 1) = P + Len(j) + 1
    BY <1>1, <1>3 DEF P
  <2> QED BY <1>2, <1>3, <1>5, <2>1
<1>7. ~(Len(k) < Len(j))
  <2> SUFFICES ASSUME Len(k) < Len(j) PROVE FALSE
    OBVIOUS
  <2>1. Len(k) + 1 \in 1..Len(j) /\ P + Len(k) + 1 \in 1..Len(pre)
        /\ P + (Len(k) + 1) = P + Len(k) + 1
    BY <1>1, <1>3 DEF P
  <2> QED BY <1>2, <1>3, <1>5, <2>1
<1>8. Len(j) = Len(k)
  BY <1>1, <1>6, <1>7
<1>9. ASSUME NEW i \in 1..Len(j)
      PROVE  j[i] = k[i]
  <2>1. P + i \in 1..Len(pre) /\ i \in 1..Len(k)
    BY <1>1, <1>3, <1>8 DEF P
  <2> QED BY <1>2, <1>3, <1>5, <2>1
<1> QED BY <1>8, <1>9, SeqEqual

\* An id that ids.rs accepts has no point.
LEMMA IdHasNoPoint ==
  ASSUME NEW job \in JobIds
  PROVE  \A i \in 1..Len(job) : job[i] # "."
<1>1. \A i \in 1..Len(job) : job[i] \in Alphanumeric \cup Marks
  BY DEF JobIds, JobId, is_valid_prefixed_id, is_valid_slug
<1>2. "." \notin Marks
  BY DEF Marks
<1> QED BY <1>1, <1>2, AlphabetAssumption

\* A key is under the prefix of no job but its own: the tasks of one job are never among
\* those of another, even when one id is the beginning of the other.
THEOREM PrefixOfOneJob ==
  ASSUME NEW job \in JobIds, NEW other \in JobIds, NEW name \in TaskNames,
         starts_with(job_task_index_key(job, name), job_tasks_prefix(other))
  PROVE  job = other
<1>0. PICK S : S = STRING \cup {"gbe", ".", "idx", "jobs", "tasks"}
  OBVIOUS
<1>1. PICK p \in Seq(S) : p = <<"gbe", ".", "idx", ".", "jobs", ".">>
  <2>1. "gbe" \in S /\ "." \in S /\ "idx" \in S /\ "jobs" \in S
    BY <1>0
  <2>2. <<"gbe", ".", "idx", ".", "jobs", ".">> \in Seq(S)
    BY <2>1
  <2> QED BY <2>2
<1>2. PICK q \in Seq(S) : q = <<".", "tasks", ".">>
  <2>1. "." \in S /\ "tasks" \in S
    BY <1>0
  <2>2. <<".", "tasks", ".">> \in Seq(S)
    BY <2>1
  <2> QED BY <2>2
<1>3. /\ job \in Seq(S) /\ other \in Seq(S) /\ name \in Seq(S)
  <2> DEFINE T == STRING
  <2>1. JobIds \subseteq Seq(T) /\ TaskNames \subseteq Seq(T) /\ T \subseteq S
    BY <1>0, TextsAssumption DEF JobIds
  <2> HIDE DEF T
  <2> QED BY <2>1
<1>4. PICK a \in Seq(S), b \in Seq(S), n \in Seq(S) : a = job /\ b = other /\ n = name
  BY <1>3
<1>5. Len(q) > 0 /\ q[1] = "."
  BY <1>2
<1>6. (\A i \in 1..Len(a) : a[i] # q[1]) /\ (\A i \in 1..Len(b) : b[i] # q[1])
  BY <1>4, <1>5, IdHasNoPoint
<1>7. starts_with(p \o a \o q \o n, p \o b \o q)
  BY <1>1, <1>2, <1>4 DEF job_task_index_key, job_tasks_prefix
<1>8. a = b
  BY <1>5, <1>6, <1>7, Delimited
<1> QED BY <1>4, <1>8

-----------------------------------------------------------------------------
(* Records.                                                                   *)

\* What is under the prefix of a job is a record of the index.
LEMMA UnderPrefix ==
  ASSUME NEW key \in Keys, NEW job \in JobIds, starts_with(key, job_tasks_prefix(job))
  PROVE  IndexKey(key)
<1>1. PICK S : S = STRING \cup {"gbe", ".", "idx", "jobs", "tasks"}
  OBVIOUS
<1>2. PICK p \in Seq(S) : p = <<"gbe", ".", "idx", ".", "jobs", ".">>
  <2>1. "gbe" \in S /\ "." \in S /\ "idx" \in S /\ "jobs" \in S
    BY <1>1
  <2>2. <<"gbe", ".", "idx", ".", "jobs", ".">> \in Seq(S)
    BY <2>1
  <2> QED BY <2>2
<1>3. PICK q \in Seq(S) : q = <<".", "tasks", ".">>
  <2>1. "." \in S /\ "tasks" \in S
    BY <1>1
  <2>2. <<".", "tasks", ".">> \in Seq(S)
    BY <2>1
  <2> QED BY <2>2
<1>4. PICK j \in Seq(S), k \in Seq(S) : j = job /\ k = key
  <2> DEFINE T == STRING
  <2>1. JobIds \subseteq Seq(T) /\ Keys \subseteq Seq(T) /\ T \subseteq S
    BY <1>1, TextsAssumption DEF JobIds
  <2> HIDE DEF T
  <2> QED BY <2>1
<1>5. p[3] = "idx" /\ Len(p) = 6
  BY <1>2
<1>6. PICK pre \in Seq(S) : pre = p \o j \o q /\ Len(pre) >= 6 /\ pre[3] = p[3]
  <2>1. PICK a \in Seq(S) : a = p \o j
    BY ConcatProperties
  <2>2. 3 \in 1..Len(p) /\ Len(a) = Len(p) + Len(j) /\ a[3] = p[3]
    <3>1. Len(a) = Len(p) + Len(j) /\ Len(j) \in Nat
      BY <2>1
    <3>2. 3 \in 1..Len(p)
      BY <1>5
    <3>3. ASSUME NEW i \in 1..Len(p)
          PROVE  a[i] = p[i]
      BY <2>1
    <3> QED BY <3>1, <3>2, <3>3
  <2>3. PICK pre \in Seq(S) : pre = a \o q
    BY ConcatProperties
  <2>4. Len(a) >= 6 /\ 3 \in 1..Len(a)
    BY <1>5, <2>2
  <2>5. Len(pre) = Len(a) + Len(q) /\ pre[3] = a[3]
    BY <2>3, <2>4
  <2>6. Len(pre) >= 6
    BY <2>4, <2>5
  <2> QED BY <2>1, <2>2, <2>3, <2>5, <2>6
<1>7. Len(pre) <= Len(k) /\ SubSeq(k, 1, Len(pre)) = pre
  BY <1>2, <1>3, <1>4, <1>6 DEF job_tasks_prefix, starts_with
<1>8. SubSeq(k, 1, Len(pre))[3] = k[3]
  BY <1>6, <1>7
<1>9. Len(k) >= 3 /\ k[3] = "idx"
  BY <1>5, <1>6, <1>7, <1>8
<1> QED BY <1>4, <1>9 DEF IndexKey

\* Who writes a task under the key of its job writes nothing under the prefix of another.
LEMMA OfItsJobOwned ==
  ASSUME NEW key \in Keys, NEW fields, OfItsJob(key, fields)
  PROVE  Owned(key, fields)
<1> SUFFICES ASSUME NEW other \in JobIds, starts_with(key, job_tasks_prefix(other))
             PROVE  fields["job_id"] \in {Nil, IdOf[other]}
  BY DEF Owned
<1>1. IndexKey(key)
  BY UnderPrefix
<1>2. PICK job \in JobIds, name \in TaskNames :
        key = job_task_index_key(job, name) /\ fields["job_id"] \in {Nil, IdOf[job]}
  BY <1>1 DEF OfItsJob
<1>3. job = other
  BY <1>2, PrefixOfOneJob
<1> QED BY <1>2, <1>3

LEMMA AbsentOwned ==
  ASSUME NEW key
  PROVE  Owned(key, Absent)
BY TextsAssumption DEF Owned, Absent

LEMMA MergeOwned ==
  ASSUME NEW key, NEW r, NEW w, Owned(key, r), Owned(key, w)
  PROVE  Owned(key, Merge(r, w))
<1>1. Merge(r, w)["job_id"] = IF w["job_id"] = Nil THEN r["job_id"] ELSE w["job_id"]
  BY TextsAssumption DEF Merge
<1> QED BY <1>1 DEF Owned

LEMMA HsetOwned ==
  ASSUME ServerTypes, RecordsOwned, NEW key \in Keys, NEW w, Owned(key, w), Hset(key, w)
  PROVE  RecordsOwned'
<1>1. /\ record'[key] = Merge(record[key], w)
      /\ \A x \in Keys \ {key} : record'[x] = record[x]
  BY DEF Hset, ServerTypes
<1>2. Owned(key, record'[key])
  BY <1>1, MergeOwned DEF RecordsOwned
<1> QED BY <1>1, <1>2 DEF RecordsOwned, Owned

LEMMA RemoveOwned ==
  ASSUME ServerTypes, RecordsOwned, NEW key \in Keys, Remove(key)
  PROVE  RecordsOwned'
<1>1. /\ record'[key] = Absent
      /\ \A x \in Keys \ {key} : record'[x] = record[x]
  BY DEF Remove, ServerTypes
<1>2. Owned(key, record'[key])
  BY <1>1, AbsentOwned
<1> QED BY <1>1, <1>2 DEF RecordsOwned, Owned

LEMMA SameRecords ==
  ASSUME RecordsOwned, record' = record
  PROVE  RecordsOwned'
BY DEF RecordsOwned, Owned

LEMMA CommandRecords ==
  ASSUME ServerTypes, ClientTypes, RecordsOwned, CallsOwned, NEW k \in Clients, Command(k)
  PROVE  RecordsOwned'
<1>0. call[k] \in {Idle} \cup AllCalls /\ WritesOwned(call[k])
  BY DEF ClientTypes, CallsOwned
<1>1. CASE record' = record
  BY <1>1, SameRecords
<1>2. ASSUME Delete(k) PROVE RecordsOwned'
  <2>1. call[k].key \in Keys
    BY <1>0, <1>2, CallOf DEF Delete, Calling
  <2> QED BY <1>1, <1>2, <2>1, RemoveOwned DEF Delete, NoWrite, serverVars
<1>3. ASSUME NEW w, call[k].key \in Keys, Owned(call[k].key, w), Store(k, w)
      PROVE  RecordsOwned'
  BY <1>1, <1>3, HsetOwned DEF Store, NoWrite, serverVars
<1>4. ASSUME SetField(k) PROVE RecordsOwned'
  <2>1. call[k].key \in Keys /\ Owned(call[k].key, Only(call[k].field, call[k].value))
    BY <1>0, <1>4, CallOf DEF SetField, Calling, WritesOwned
  <2> QED BY <1>3, <1>4, <2>1 DEF SetField
<1>5. ASSUME SetFields(k) PROVE RecordsOwned'
  <2>1. call[k].key \in Keys /\ Owned(call[k].key, call[k].fields)
    BY <1>0, <1>5, CallOf DEF SetFields, Calling, WritesOwned
  <2> QED BY <1>3, <1>5, <2>1 DEF SetFields
<1>6. ASSUME CompareAndSwap(k) PROVE RecordsOwned'
  <2>1. call[k].key \in Keys /\ Owned(call[k].key, Only(call[k].field, call[k].new))
    BY <1>0, <1>6, CallOf DEF CompareAndSwap, Calling, WritesOwned
  <2> QED BY <1>1, <1>6, <2>1, HsetOwned DEF CompareAndSwap, serverVars
<1>7. ASSUME Put(k) PROVE RecordsOwned'
  <2>1. call[k].key \in Keys /\ Owned(call[k].key, call[k].fields)
    BY <1>0, <1>7, CallOf DEF Put, Calling, WritesOwned
  <2> QED BY <1>1, <1>7, <2>1, HsetOwned DEF Put, WriteAll, serverVars
<1>8. ASSUME Expire(k) PROVE RecordsOwned'
  <2>1. call[k].key \in Keys
    BY <1>0, <1>8, CallOf DEF Expire, Calling
  <2>2. CASE SetTtl(call[k].key, call[k].ttl)
    BY <1>1, <2>1, <2>2, RemoveOwned DEF SetTtl, TakesTtl
  <2> QED BY <1>1, <1>8, <2>2 DEF Expire, serverVars
<1>9. Get(k) \/ GetField(k) \/ WriteNothing(k) \/ ScanPage(k) \/ EndPage(k)
      \/ (\E key \in page[k] : ReadKey(k, key)) => record' = record
  BY DEF Get, GetField, WriteNothing, ScanPage, EndPage, ReadKey, NoWrite, serverVars
<1> QED BY <1>1, <1>2, <1>4, <1>5, <1>6, <1>7, <1>8, <1>9 DEF Command

-----------------------------------------------------------------------------
(* Calls.                                                                     *)

\* The call of one client changes.
LEMMA OneCall ==
  ASSUME ClientTypes, CallsOwned, NEW k \in Clients, NEW c,
         call' = [call EXCEPT ![k] = c], WritesOwned(c)
  PROVE  CallsOwned'
<1>1. call'[k] = c /\ \A j \in Clients \ {k} : call'[j] = call[j]
  BY DEF ClientTypes
<1> QED BY <1>1 DEF CallsOwned, WritesOwned, Owned

LEMMA IdleOwned == WritesOwned(Idle)
BY DEF WritesOwned, Idle

\* A call that goes on writes what it wrote under, or nothing.
LEMMA PutOn ==
  ASSUME ClientTypes, CallsOwned, NEW k \in Clients, call[k].op = "put", GoOn(k, "expire")
  PROVE  CallsOwned' /\ call'[k].op = "expire"
<1>1. call[k] \in [op : {"put", "expire"}, key : Keys, fields : Hashes, ttl : Ttls]
  BY PutCall DEF ClientTypes
<1>2. PICK c : c = [call[k] EXCEPT !.op = "expire"]
  OBVIOUS
<1>3. c.op = "expire" /\ c.key = call[k].key /\ c.fields = call[k].fields
  BY <1>1, <1>2
<1>4. WritesOwned(c)
  BY <1>3 DEF CallsOwned, WritesOwned
<1>5. call' = [call EXCEPT ![k] = c]
  BY <1>2 DEF GoOn
<1> QED BY <1>3, <1>4, <1>5, OneCall DEF ClientTypes

LEMMA ScanOn ==
  ASSUME ClientTypes, CallsOwned, NEW k \in Clients, Scanning(k), NEW op \in {"scan", "read"},
         GoOn(k, op)
  PROVE  CallsOwned' /\ call'[k].prefix = call[k].prefix
<1>1. call[k] \in [op : {"scan", "read"}, prefix : Seq(STRING), filter : Filters]
  BY ScanCall DEF ClientTypes, Scanning
<1>2. PICK c : c = [call[k] EXCEPT !.op = op]
  OBVIOUS
<1>3. c.op = op /\ c.prefix = call[k].prefix
  BY <1>1, <1>2
<1>4. WritesOwned(c)
  BY <1>3 DEF WritesOwned
<1>5. call' = [call EXCEPT ![k] = c]
  BY <1>2 DEF GoOn
<1> QED BY <1>3, <1>4, <1>5, OneCall DEF ClientTypes

LEMMA ReturnCalls ==
  ASSUME ClientTypes, CallsOwned, NEW k \in Clients, NEW o, NEW v, Return(k, o, v)
  PROVE  CallsOwned' /\ call'[k] = Idle
BY OneCall, IdleOwned DEF Return, ClientTypes

\* A call begun is one of Calls.
LEMMA BegunOwned ==
  ASSUME NEW c \in Calls
  PROVE  WritesOwned(c)
<1>1. c \in AllCalls
  BY CallsAssumption
<1>2. c.op \in {"put", "expire", "set_fields", "set_field", "compare_and_swap"} => c.key \in Keys
  BY <1>1, CallOf
<1> QED BY <1>2, WritersAssumption, OfItsJobOwned DEF WritesOwned

LEMMA CommandCalls ==
  ASSUME ClientTypes, CallsOwned, NEW k \in Clients, Command(k)
  PROVE  CallsOwned'
<1>1. ASSUME \/ Get(k) \/ GetField(k) \/ Delete(k) \/ SetField(k) \/ SetFields(k)
             \/ WriteNothing(k) \/ CompareAndSwap(k) \/ Expire(k)
      PROVE  CallsOwned'
  <2>1. \E o, v : Return(k, o, v)
    BY <1>1 DEF Get, GetField, Delete, SetField, SetFields, Store, WriteNothing,
                CompareAndSwap, Expire, Reply
  <2> QED BY <2>1, ReturnCalls
<1>2. ASSUME Put(k) PROVE CallsOwned'
  <2>1. CASE \E o, v : Return(k, o, v)
    BY <2>1, ReturnCalls
  <2>2. CASE GoOn(k, "expire")
    BY <1>2, <2>2, PutOn DEF Put, Calling
  <2> QED BY <1>2, <2>1, <2>2 DEF Put, Reply
<1>3. ASSUME ScanPage(k) PROVE CallsOwned'
  <2>1. CASE \E o, v : Return(k, o, v)
    BY <2>1, ReturnCalls
  <2>2. CASE GoOn(k, "read")
    BY <1>3, <2>2, ScanOn DEF ScanPage, Calling, Scanning
  <2> QED BY <1>3, <2>1, <2>2 DEF ScanPage, Reply
<1>4. ASSUME EndPage(k) PROVE CallsOwned'
  <2>1. CASE \E o, v : Return(k, o, v)
    BY <2>1, ReturnCalls
  <2>2. CASE GoOn(k, "scan")
    BY <1>4, <2>2, ScanOn DEF EndPage, Calling, Scanning
  <2> QED BY <1>4, <2>1, <2>2 DEF EndPage, Reply
<1>5. ASSUME NEW key \in page[k], ReadKey(k, key) PROVE CallsOwned'
  <2>1. CASE \E o, v : Return(k, o, v)
    BY <2>1, ReturnCalls
  <2>2. CASE UNCHANGED call
    BY <2>2 DEF CallsOwned, WritesOwned, Owned
  <2> QED BY <1>5, <2>1, <2>2 DEF ReadKey, Reply
<1> QED BY <1>1, <1>2, <1>3, <1>4, <1>5 DEF Command

-----------------------------------------------------------------------------
(* Scans.                                                                     *)

LEMMA OthersFound ==
  ASSUME FoundOwned, NEW k \in Clients, Frame(k), ScanOwned(k)'
  PROVE  FoundOwned'
<1> SUFFICES ASSUME NEW j \in Clients \ {k} PROVE ScanOwned(j)'
  BY DEF FoundOwned
<1>1. call'[j] = call[j] /\ found'[j] = found[j] /\ page'[j] = page[j]
  BY DEF Frame
<1> QED BY <1>1 DEF FoundOwned, ScanOwned, Scanning, Owned

\* No scan of the client is under way.
LEMMA NoScanOwned ==
  ASSUME NEW k \in Clients, ~Scanning(k)'
  PROVE  ScanOwned(k)'
BY DEF ScanOwned

LEMMA ReturnOwned ==
  ASSUME ClientTypes, NEW k \in Clients, NEW o, NEW v, Return(k, o, v)
  PROVE  ScanOwned(k)'
<1>1. call'[k] = Idle
  BY DEF Return, ClientTypes
<1> QED BY <1>1, NoScanOwned DEF Scanning, Idle

LEMMA PageOwned ==
  ASSUME ClientTypes, CallsOwned, FoundOwned, NEW k \in Clients, ScanPage(k)
  PROVE  ScanOwned(k)'
<1>1. CASE \E o, v : Return(k, o, v)
  BY <1>1, ReturnOwned
<1>2. CASE ~ \E o, v : Return(k, o, v)
  <2>1. /\ GoOn(k, "read") /\ found' = found
        /\ \E P \in SUBSET {key \in Keys : Exists(key) /\ starts_with(key, call[k].prefix)} :
             page' = [page EXCEPT ![k] = P]
    BY <1>2 DEF ScanPage, Reply
  <2>2. Scanning(k)
    BY DEF ScanPage, Calling, Scanning
  <2>3. \A key \in page'[k] : starts_with(key, call[k].prefix)
    BY <2>1 DEF ClientTypes
  <2>4. call'[k].prefix = call[k].prefix
    BY <2>1, <2>2, ScanOn
  <2> QED BY <2>1, <2>2, <2>3, <2>4 DEF ScanOwned, FoundOwned, Owned
<1> QED BY <1>1, <1>2

LEMMA EndOwned ==
  ASSUME ClientTypes, CallsOwned, FoundOwned, NEW k \in Clients, EndPage(k)
  PROVE  ScanOwned(k)'
<1>1. CASE \E o, v : Return(k, o, v)
  BY <1>1, ReturnOwned
<1>2. CASE GoOn(k, "scan") /\ UNCHANGED scanVars
  <2>1. Scanning(k)
    BY DEF EndPage, Calling, Scanning
  <2>2. call'[k].prefix = call[k].prefix
    BY <1>2, <2>1, ScanOn
  <2> QED BY <1>2, <2>1, <2>2 DEF ScanOwned, FoundOwned, Owned, scanVars
<1> QED BY <1>1, <1>2 DEF EndPage, Reply

\* What is read has the key that was asked for, and is of the job of that key.
LEMMA ReadOwned ==
  ASSUME ServerTypes, ClientTypes, RecordsOwned, FoundOwned,
         NEW k \in Clients, NEW key \in page[k], ReadKey(k, key)
  PROVE  ScanOwned(k)'
<1>1. CASE \E o, v : Return(k, o, v)
  BY <1>1, ReturnOwned
<1>2. CASE ~ \E o, v : Return(k, o, v)
  <2>1. /\ \/ found' = [found EXCEPT ![k] = Append(found[k], <<key, record[key]>>)]
           \/ found' = [found EXCEPT ![k] = found[k]]
        /\ page' = [page EXCEPT ![k] = @ \ {key}] /\ call' = call
    BY <1>2 DEF ReadKey, Reply
  <2>2. /\ Scanning(k) /\ key \in Keys /\ starts_with(key, call[k].prefix)
        /\ Owned(key, record[key])
    BY DEF ReadKey, Calling, Scanning, FoundOwned, ScanOwned, RecordsOwned, ClientTypes
  <2>3. \A x \in page'[k] : starts_with(x, call[k].prefix)
    BY <2>1, <2>2 DEF ClientTypes, FoundOwned, ScanOwned
  <2>4. found[k] \in Seq(Keys \X Hashes) /\ record[key] \in Hashes
    BY <2>2 DEF ClientTypes, ServerTypes
  <2>5. PICK r : r = record[key]
    OBVIOUS
  <2>6. found'[k] = Append(found[k], <<key, r>>) \/ found'[k] = found[k]
    BY <2>1, <2>5 DEF ClientTypes
  <2>7. ASSUME NEW i \in 1..Len(found'[k])
        PROVE  \/ i \in 1..Len(found[k]) /\ found'[k][i] = found[k][i]
               \/ found'[k][i] = <<key, r>>
    BY <2>2, <2>4, <2>5, <2>6
  <2>8. ASSUME NEW i \in 1..Len(found'[k])
        PROVE  /\ starts_with(found'[k][i][1], call[k].prefix)
               /\ Owned(found'[k][i][1], found'[k][i][2])
    <3>1. CASE i \in 1..Len(found[k]) /\ found'[k][i] = found[k][i]
      BY <2>2, <3>1 DEF FoundOwned, ScanOwned
    <3>2. CASE found'[k][i] = <<key, r>>
      BY <2>2, <2>5, <3>2
    <3> QED BY <2>7, <3>1, <3>2
  <2> QED BY <2>1, <2>3, <2>8 DEF ScanOwned, Owned
<1> QED BY <1>1, <1>2

LEMMA CommandFound ==
  ASSUME Types, ScansOK, RecordsOwned, CallsOwned, FoundOwned, Observe, NEW k \in Clients,
         Command(k)
  PROVE  FoundOwned'
<1> USE DEF Types
<1>1. ASSUME \/ Get(k) \/ GetField(k) \/ Delete(k) \/ SetField(k) \/ SetFields(k)
             \/ WriteNothing(k) \/ CompareAndSwap(k) \/ Expire(k) \/ Put(k)
      PROVE  FoundOwned'
  <2>1. call[k].op \notin {"idle", "scan", "read"}
    BY <1>1 DEF Get, GetField, Delete, SetField, SetFields, WriteNothing, CompareAndSwap,
                Expire, Put, Calling
  <2>2. \/ \E o, v : Reply(k, o, v)
        \/ Put(k) /\ GoOn(k, "expire") /\ UNCHANGED scanVars
    BY <1>1 DEF Get, GetField, Delete, SetField, SetFields, Store, WriteNothing,
                CompareAndSwap, Expire, Put
  <2>3. Frame(k)
    BY <2>1, <2>2, NoScan
  <2>4. ScanOwned(k)'
    <3>1. CASE \E o, v : Reply(k, o, v)
      BY <3>1, ReturnOwned DEF Reply
    <3>2. CASE Put(k) /\ GoOn(k, "expire")
      <4>1. call'[k].op = "expire"
        BY <3>2, PutOn DEF Put, Calling
      <4> QED BY <4>1, NoScanOwned DEF Scanning
    <3> QED BY <2>2, <3>1, <3>2
  <2> QED BY <2>3, <2>4, OthersFound
<1>2. ASSUME ScanPage(k) PROVE FoundOwned'
  BY <1>2, ScanPageScans, PageOwned, OthersFound
<1>3. ASSUME EndPage(k) PROVE FoundOwned'
  BY <1>3, EndPageScans, EndOwned, OthersFound
<1>4. ASSUME NEW key \in page[k], ReadKey(k, key) PROVE FoundOwned'
  BY <1>4, ReadKeyScans, ReadOwned, OthersFound
<1> QED BY <1>1, <1>2, <1>3, <1>4 DEF Command

-----------------------------------------------------------------------------
(* Steps.                                                                     *)

LEMMA InitIndex == Init => IndexInv
<1> SUFFICES ASSUME Init PROVE IndexInv
  OBVIOUS
<1>1. RecordsOwned
  BY WritersAssumption, OfItsJobOwned DEF Init, RecordsOwned
<1>2. CallsOwned
  BY IdleOwned DEF Init, CallsOwned
<1>3. FoundOwned
  BY DEF Init, FoundOwned, ScanOwned, Scanning, Idle
<1> QED BY <1>1, <1>2, <1>3 DEF IndexInv

LEMMA BeginIndex ==
  ASSUME Types, ScansOK, IndexInv, NEW k \in Clients, NEW c \in Calls, Begin(k, c)
  PROVE  IndexInv'
<1> USE DEF Types, IndexInv
<1>1. RecordsOwned'
  BY SameRecords DEF Begin, NoWrite, serverVars
<1>2. CallsOwned'
  BY BegunOwned, OneCall DEF Begin
<1>3. Frame(k) /\ found'[k] = <<>> /\ page'[k] = page[k]
  BY DEF Begin, Frame, ClientTypes, AnswerTypes
<1>4. page[k] = {}
  BY DEF Begin, ScansOK, ScanOK, Scanning, Idle, AtRest
<1>5. ScanOwned(k)'
  BY <1>3, <1>4 DEF ScanOwned
<1> QED BY <1>1, <1>2, <1>3, <1>5, OthersFound

LEMMA DropIndex ==
  ASSUME Types, IndexInv, NEW k \in Clients, Drop(k)
  PROVE  IndexInv'
<1> USE DEF Types, IndexInv
<1>1. RecordsOwned'
  BY SameRecords DEF Drop, serverVars
<1>2. CallsOwned'
  BY IdleOwned, OneCall DEF Drop
<1>3. Frame(k) /\ call'[k] = Idle
  BY DEF Drop, Frame, ClientTypes, AnswerTypes
<1>4. ScanOwned(k)'
  BY <1>3, NoScanOwned DEF Scanning, Idle
<1> QED BY <1>1, <1>2, <1>3, <1>4, OthersFound

LEMMA QuietIndex ==
  ASSUME IndexInv, RecordsOwned', UNCHANGED <<call, page, found>>
  PROVE  IndexInv'
BY DEF IndexInv, CallsOwned, WritesOwned, FoundOwned, ScanOwned, Scanning, Owned

LEMMA NextIndex ==
  ASSUME Types, ScansOK, IndexInv, [Next]_vars
  PROVE  IndexInv'
<1>1. ASSUME NEW k \in Clients, NEW c \in Calls, Begin(k, c) PROVE IndexInv'
  BY <1>1, BeginIndex
<1>2. ASSUME NEW k \in Clients, Command(k), Observe PROVE IndexInv'
  BY <1>2, CommandRecords, CommandCalls, CommandFound DEF IndexInv, Types
<1>3. ASSUME NEW k \in Clients, Drop(k) PROVE IndexInv'
  BY <1>3, DropIndex
<1>4. ASSUME NEW key \in expiring, TimeToLive(key) PROVE IndexInv'
  <2>1. RecordsOwned'
    BY <1>4, RemoveOwned DEF TimeToLive, Types, ServerTypes, IndexInv
  <2> QED BY <1>4, <2>1, QuietIndex DEF TimeToLive, scanVars
<1>5. ASSUME Close \/ UNCHANGED vars PROVE IndexInv'
  <2>1. UNCHANGED <<record, call, page, found>>
    BY <1>5 DEF Close, NoWrite, vars, serverVars, scanVars
  <2> QED BY <2>1, SameRecords, QuietIndex DEF IndexInv
<1> QED BY <1>1, <1>2, <1>3, <1>4, <1>5 DEF Next

LEMMA IndexInvariant == Spec => []IndexInv
<1>1. Types /\ ScansOK /\ IndexInv /\ [Next]_vars => IndexInv'
  BY NextIndex
<1> QED BY <1>1, InitIndex, TypesInvariant, ScansInvariant, PTL DEF Spec

\* However puts, field writes, swaps, deletions and expiry interleave with the pages and
\* reads of a scan of a job's tasks, it finds no record that says it is of another job,
\* whatever the ids and names look like.
THEOREM JobScansFindTheirTasks == Spec => []JobScanFindsItsTasks
<1>1. FoundOwned => JobScanFindsItsTasks
  BY DEF FoundOwned, ScanOwned, Owned, Scanning, Calling, JobScanFindsItsTasks
<1> QED BY <1>1, IndexInvariant, PTL DEF IndexInv

================================================================================
