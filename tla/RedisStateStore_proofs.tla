------------------------ MODULE RedisStateStore_proofs ------------------------
(***************************************************************************)
(* Proofs about RedisStateStore, for any number of clients, any keys and    *)
(* calls, and any commands that may fail.                                   *)
(***************************************************************************)
EXTENDS RedisStateStore, TLAPS

(* The types of the variables, by who changes what.                          *)
ServerTypes ==
  /\ record \in [Keys -> Hashes] /\ expiring \subseteq Keys /\ unlimited \subseteq Keys
  /\ \A key \in expiring : Exists(key)

ClientTypes ==
  /\ closed \in BOOLEAN
  /\ call \in [Clients -> {Idle} \cup AllCalls]
  /\ page \in [Clients -> SUBSET Keys] /\ last \in [Clients -> BOOLEAN]
  /\ found \in [Clients -> Seq(Keys \X Hashes)]
  /\ returned \in [Clients -> SUBSET Keys]

AnswerTypes ==
  /\ DOMAIN answer = Clients
  /\ \A k \in Clients : answer[k] # NoAnswer => answer[k].is \in {"ok", "err"}

ObserverTypes ==
  /\ present \in [Clients -> SUBSET Keys] /\ steady \in [Clients -> SUBSET Keys]
  /\ made \in 0..MaxCalls

Types == ServerTypes /\ ClientTypes /\ AnswerTypes /\ ObserverTypes

-----------------------------------------------------------------------------
(* Hashes and calls.                                                         *)

LEMMA AbsentHash == Absent \in Hashes
  BY DEF Absent, Hashes

\* Writing fields gives a hash, and never an absent one from one that was there.
LEMMA MergedHash ==
  ASSUME NEW r \in Hashes, NEW w \in Hashes
  PROVE  Merge(r, w) \in Hashes /\ (r # Absent => Merge(r, w) # Absent)
<1>1. Merge(r, w) \in Hashes
  BY DEF Merge, Hashes
<1>2. ASSUME r # Absent PROVE Merge(r, w) # Absent
  <2>1. PICK f \in Fields : r[f] # Nil
    BY <1>2 DEF Absent, Hashes
  <2>2. Merge(r, w)[f] # Nil /\ Absent[f] = Nil
    BY <2>1 DEF Merge, Absent
  <2> QED BY <2>2
<1> QED BY <1>1, <1>2

LEMMA OneField ==
  ASSUME NEW f \in Fields, NEW v \in Values
  PROVE  Only(f, v) \in Hashes
BY DEF Only, Absent, Hashes

\* What a call carries.
LEMMA CallOf ==
  ASSUME NEW c \in {Idle} \cup AllCalls
  PROVE  /\ c.op \in {"get", "delete"} => c.key \in Keys
         /\ c.op \in {"put", "expire"} =>
              c.key \in Keys /\ c.fields \in Hashes /\ c.ttl \in Ttls
         /\ c.op = "get_field" => c.key \in Keys /\ c.field \in Fields
         /\ c.op = "set_field" => c.key \in Keys /\ c.field \in Fields /\ c.value \in Values
         /\ c.op = "set_fields" => c.key \in Keys /\ c.fields \in Hashes
         /\ c.op = "compare_and_swap" =>
              c.key \in Keys /\ c.field \in Fields /\ c.expected \in Values /\ c.new \in Values
BY DEF AllCalls, Idle

LEMMA PutCall ==
  ASSUME NEW c \in {Idle} \cup AllCalls, c.op = "put"
  PROVE  c \in [op : {"put", "expire"}, key : Keys, fields : Hashes, ttl : Ttls]
BY DEF AllCalls, Idle

\* Calls that go on.
LEMMA CallOn ==
  ASSUME NEW c \in {Idle} \cup AllCalls
  PROVE  /\ c.op = "put" => [c EXCEPT !.op = "expire"] \in AllCalls
         /\ c.op = "scan" => [c EXCEPT !.op = "read"] \in AllCalls
         /\ c.op = "read" => [c EXCEPT !.op = "scan"] \in AllCalls
BY DEF AllCalls, Idle

\* No call is the idle one.
LEMMA NeverIdle ==
  ASSUME NEW c \in {Idle} \cup AllCalls, c.op # "idle"
  PROVE  c \in AllCalls
BY DEF AllCalls, Idle

-----------------------------------------------------------------------------
(* What the commands do to the records.                                      *)

LEMMA RemoveTypes ==
  ASSUME ServerTypes, NEW key \in Keys, Remove(key)
  PROVE  ServerTypes' /\ record'[key] = Absent
BY AbsentHash DEF ServerTypes, Remove, Exists

LEMMA HsetTypes ==
  ASSUME ServerTypes, NEW key \in Keys, NEW w \in Hashes, Hset(key, w),
         unlimited' \subseteq Keys
  PROVE  ServerTypes'
<1>1. record' \in [Keys -> Hashes]
  BY MergedHash DEF ServerTypes, Hset
<1>2. ASSUME NEW x \in expiring' PROVE record'[x] # Absent
  BY <1>2, MergedHash DEF ServerTypes, Hset, Exists
<1> QED BY <1>1, <1>2 DEF ServerTypes, Hset, Exists

LEMMA SetTtlTypes ==
  ASSUME ServerTypes, NEW key \in Keys, NEW ttl, SetTtl(key, ttl)
  PROVE  ServerTypes'
<1>1. CASE ttl = "subsecond"
  BY <1>1, RemoveTypes DEF SetTtl
<1>2. CASE ttl # "subsecond"
  BY <1>2 DEF SetTtl, TakesTtl, ServerTypes, Exists
<1> QED BY <1>1, <1>2

LEMMA NoWriteTypes ==
  ASSUME ServerTypes, NoWrite
  PROVE  ServerTypes'
BY DEF ServerTypes, NoWrite, serverVars, Exists

\* Every command of a call keeps the types of the server.
LEMMA CommandServerTypes ==
  ASSUME ServerTypes, ClientTypes, NEW k \in Clients, Command(k)
  PROVE  ServerTypes'
<1>0. call[k] \in {Idle} \cup AllCalls
  BY DEF ClientTypes
<1>1. CASE NoWrite
  BY <1>1, NoWriteTypes
<1>2. ASSUME Delete(k) PROVE ServerTypes'
  <2>1. call[k].key \in Keys
    BY <1>0, <1>2, CallOf DEF Delete, Calling
  <2> QED BY <1>1, <1>2, <2>1, RemoveTypes DEF Delete
<1>3. ASSUME NEW w \in Hashes, call[k].key \in Keys, Store(k, w) PROVE ServerTypes'
  <2>1. CASE NoWrite
    BY <2>1, NoWriteTypes
  <2>2. CASE Hset(call[k].key, w) /\ unlimited' = unlimited \cup {call[k].key}
    <3>1. unlimited' \subseteq Keys
      BY <2>2, <1>3 DEF ServerTypes
    <3> QED BY <1>3, <2>2, <3>1, HsetTypes
  <2> QED BY <1>3, <2>1, <2>2 DEF Store
<1>4. ASSUME SetField(k) PROVE ServerTypes'
  BY <1>0, <1>3, <1>4, CallOf, OneField DEF SetField, Calling
<1>5. ASSUME SetFields(k) PROVE ServerTypes'
  BY <1>0, <1>3, <1>5, CallOf DEF SetFields, Calling
<1>6. ASSUME CompareAndSwap(k) PROVE ServerTypes'
  <2>1. /\ call[k].key \in Keys /\ call[k].field \in Fields /\ call[k].new \in Values
    BY <1>0, <1>6, CallOf DEF CompareAndSwap, Calling
  <2>2. unlimited' = unlimited /\ unlimited' \subseteq Keys
    BY <1>6 DEF CompareAndSwap, ServerTypes
  <2>3. CASE UNCHANGED serverVars
    BY <2>2, <2>3, NoWriteTypes DEF NoWrite
  <2>4. CASE Hset(call[k].key, Only(call[k].field, call[k].new))
    BY <2>1, <2>2, <2>4, HsetTypes, OneField
  <2> QED BY <1>6, <2>3, <2>4 DEF CompareAndSwap
<1>7. ASSUME Put(k) PROVE ServerTypes'
  <2>1. call[k].key \in Keys /\ call[k].fields \in Hashes
    BY <1>0, <1>7, CallOf DEF Put, Calling
  <2>2. unlimited' \subseteq Keys
    BY <1>7, <2>1 DEF Put, ServerTypes
  <2>3. CASE UNCHANGED serverVars
    BY <2>2, <2>3 DEF ServerTypes, serverVars, Exists
  <2>4. CASE Hset(call[k].key, call[k].fields)
    BY <2>1, <2>2, <2>4, HsetTypes
  <2> QED BY <1>7, <2>3, <2>4 DEF Put, WriteAll
<1>8. ASSUME Expire(k) PROVE ServerTypes'
  <2>1. call[k].key \in Keys
    BY <1>0, <1>8, CallOf DEF Expire, Calling
  <2>2. CASE SetTtl(call[k].key, call[k].ttl)
    BY <2>1, <2>2, SetTtlTypes
  <2>3. CASE Interrupted(call[k].key) /\ UNCHANGED serverVars
    BY <2>1, <2>3 DEF Interrupted, ServerTypes, serverVars, Exists
  <2> QED BY <1>8, <2>2, <2>3 DEF Expire
<1>9. Get(k) \/ GetField(k) \/ WriteNothing(k) \/ ScanPage(k) \/ EndPage(k)
      \/ (\E key \in page[k] : ReadKey(k, key)) => NoWrite
  BY DEF Get, GetField, WriteNothing, ScanPage, EndPage, ReadKey
<1> QED BY <1>1, <1>2, <1>4, <1>5, <1>6, <1>7, <1>8, <1>9 DEF Command

-----------------------------------------------------------------------------
(* What the steps do to the clients.                                         *)

LEMMA ReturnTypes ==
  ASSUME ClientTypes, AnswerTypes, NEW k \in Clients, NEW o, NEW v, Return(k, o, v),
         found' \in [Clients -> Seq(Keys \X Hashes)]
  PROVE  ClientTypes' /\ AnswerTypes'
<1>1. ClientTypes'
  BY DEF ClientTypes, Return
<1>2. AnswerTypes'
  BY DEF AnswerTypes, Return, Ok, Err
<1> QED BY <1>1, <1>2

LEMMA ReplyTypes ==
  ASSUME ClientTypes, AnswerTypes, NEW k \in Clients, NEW o, NEW v, Reply(k, o, v)
  PROVE  ClientTypes' /\ AnswerTypes'
BY ReturnTypes DEF Reply, ClientTypes

LEMMA GoOnTypes ==
  ASSUME ClientTypes, AnswerTypes, NEW k \in Clients, NEW op, GoOn(k, op),
         [call[k] EXCEPT !.op = op] \in AllCalls,
         page' \in [Clients -> SUBSET Keys], last' \in [Clients -> BOOLEAN],
         found' \in [Clients -> Seq(Keys \X Hashes)], returned' \in [Clients -> SUBSET Keys]
  PROVE  ClientTypes' /\ AnswerTypes'
BY DEF ClientTypes, AnswerTypes, GoOn

LEMMA ScanPageTypes ==
  ASSUME ServerTypes, ClientTypes, AnswerTypes, NEW k \in Clients, ScanPage(k)
  PROVE  ClientTypes' /\ AnswerTypes'
<1>1. PICK o \in Outcomes("SCAN") :
        IF o # "ok" THEN Reply(k, o, Done)
        ELSE /\ \E P \in SUBSET {key \in Keys : Exists(key) /\ starts_with(key, call[k].prefix)} :
                  /\ Len(found[k]) + Cardinality(P) <= MaxReads
                  /\ page' = [page EXCEPT ![k] = P]
                  /\ returned' = [returned EXCEPT ![k] = @ \cup P]
                  /\ \E over \in {FALSE, present[k] \subseteq returned[k] \cup P} :
                       last' = [last EXCEPT ![k] = over]
             /\ GoOn(k, "read") /\ UNCHANGED found
  BY DEF ScanPage
<1>2. CASE o # "ok"
  BY <1>1, <1>2, ReplyTypes
<1>3. CASE o = "ok"
  <2>1. PICK P \in SUBSET Keys :
          /\ page' = [page EXCEPT ![k] = P]
          /\ returned' = [returned EXCEPT ![k] = @ \cup P]
          /\ \E over \in BOOLEAN : last' = [last EXCEPT ![k] = over]
    BY <1>1, <1>3
  <2>2. /\ page' \in [Clients -> SUBSET Keys] /\ returned' \in [Clients -> SUBSET Keys]
        /\ last' \in [Clients -> BOOLEAN] /\ found' \in [Clients -> Seq(Keys \X Hashes)]
    BY <1>1, <1>3, <2>1 DEF ClientTypes
  <2>3. [call[k] EXCEPT !.op = "read"] \in AllCalls
    BY CallOn DEF ScanPage, Calling, ClientTypes
  <2> QED BY <1>1, <1>3, <2>2, <2>3, GoOnTypes
<1> QED BY <1>2, <1>3

LEMMA ReadKeyTypes ==
  ASSUME ServerTypes, ClientTypes, AnswerTypes, NEW k \in Clients,
         NEW key \in page[k], ReadKey(k, key)
  PROVE  ClientTypes' /\ AnswerTypes'
<1> DEFINE r       == record[key]
           takes   == Exists(key) /\ Matches(r, call[k].filter)
           results == IF takes THEN Append(found[k], <<key, r>>) ELSE found[k]
<1>1. PICK o \in Outcomes("HGETALL") :
        IF o # "ok" THEN Reply(k, o, Done)
        ELSE /\ found' = [found EXCEPT ![k] = results]
             /\ IF takes /\ Full(call[k], results) THEN Return(k, o, [results |-> results])
                ELSE /\ page' = [page EXCEPT ![k] = @ \ {key}]
                     /\ UNCHANGED <<last, returned, call, answer, closed>>
  BY DEF ReadKey
<1>2. results \in Seq(Keys \X Hashes)
  <2>1. key \in Keys /\ r \in Hashes /\ found[k] \in Seq(Keys \X Hashes)
    BY DEF ClientTypes, ServerTypes
  <2> HIDE DEF r
  <2> QED BY <2>1
<1> HIDE DEF results, takes
<1>3. CASE o # "ok"
  BY <1>1, <1>3, ReplyTypes
<1>4. CASE o = "ok"
  <2>1. found' \in [Clients -> Seq(Keys \X Hashes)]
    BY <1>1, <1>2, <1>4 DEF ClientTypes
  <2>2. CASE takes /\ Full(call[k], results)
    BY <1>1, <1>4, <2>1, <2>2, ReturnTypes
  <2>3. CASE ~(takes /\ Full(call[k], results))
    <3>1. /\ page' = [page EXCEPT ![k] = @ \ {key}]
          /\ UNCHANGED <<last, returned, call, answer, closed>>
      BY <1>1, <1>4, <2>3
    <3> QED BY <2>1, <3>1 DEF ClientTypes, AnswerTypes
  <2> QED BY <2>2, <2>3
<1> QED BY <1>3, <1>4

LEMMA EndPageTypes ==
  ASSUME ClientTypes, AnswerTypes, NEW k \in Clients, EndPage(k)
  PROVE  ClientTypes' /\ AnswerTypes'
<1>1. CASE Reply(k, "ok", [results |-> found[k]])
  BY <1>1, ReplyTypes
<1>2. CASE GoOn(k, "scan") /\ UNCHANGED scanVars
  <2>1. [call[k] EXCEPT !.op = "scan"] \in AllCalls
    BY CallOn DEF EndPage, Calling, ClientTypes
  <2>2. /\ page' \in [Clients -> SUBSET Keys] /\ returned' \in [Clients -> SUBSET Keys]
        /\ last' \in [Clients -> BOOLEAN] /\ found' \in [Clients -> Seq(Keys \X Hashes)]
    BY <1>2 DEF ClientTypes, scanVars
  <2> QED BY <1>2, <2>1, <2>2, GoOnTypes
<1> QED BY <1>1, <1>2 DEF EndPage

LEMMA PutTypes ==
  ASSUME ClientTypes, AnswerTypes, NEW k \in Clients, Put(k)
  PROVE  ClientTypes' /\ AnswerTypes'
<1>1. CASE \E o \in Outcomes("HSET") : Reply(k, o, Done)
  BY <1>1, ReplyTypes
<1>2. CASE GoOn(k, "expire") /\ UNCHANGED scanVars
  <2>1. [call[k] EXCEPT !.op = "expire"] \in AllCalls
    BY CallOn DEF Put, Calling, ClientTypes
  <2>2. /\ page' \in [Clients -> SUBSET Keys] /\ returned' \in [Clients -> SUBSET Keys]
        /\ last' \in [Clients -> BOOLEAN] /\ found' \in [Clients -> Seq(Keys \X Hashes)]
    BY <1>2 DEF ClientTypes, scanVars
  <2> QED BY <1>2, <2>1, <2>2, GoOnTypes
<1> QED BY <1>1, <1>2 DEF Put

LEMMA CommandClientTypes ==
  ASSUME ServerTypes, ClientTypes, AnswerTypes, NEW k \in Clients, Command(k)
  PROVE  ClientTypes' /\ AnswerTypes'
<1>1. ASSUME Get(k) \/ GetField(k) \/ Delete(k) \/ SetField(k) \/ SetFields(k)
             \/ WriteNothing(k) \/ CompareAndSwap(k) \/ Expire(k)
      PROVE  \E o, v : Reply(k, o, v)
  BY <1>1 DEF Get, GetField, Delete, SetField, SetFields, Store, WriteNothing,
              CompareAndSwap, Expire
<1> QED BY <1>1, ReplyTypes, ScanPageTypes, ReadKeyTypes, EndPageTypes, PutTypes
        DEF Command

-----------------------------------------------------------------------------
(* The type invariant.                                                       *)

LEMMA ObserveTypes ==
  ASSUME ClientTypes', ObserverTypes, Observe, made' \in 0..MaxCalls
  PROVE  ObserverTypes'
BY DEF ObserverTypes, Observe

LEMMA InitTypes == Init => Types
<1> SUFFICES ASSUME Init PROVE Types
  OBVIOUS
<1>1. ServerTypes
  BY StoredAssumption DEF Init, ServerTypes, Exists
<1>2. ClientTypes /\ AnswerTypes
  <2>1. found \in [Clients -> Seq(Keys \X Hashes)]
    BY DEF Init
  <2>2. call \in [Clients -> {Idle} \cup AllCalls] /\ closed \in BOOLEAN
    BY DEF Init
  <2>3. /\ page \in [Clients -> SUBSET Keys] /\ last \in [Clients -> BOOLEAN]
        /\ returned \in [Clients -> SUBSET Keys]
    BY DEF Init
  <2>4. AnswerTypes
    BY DEF Init, AnswerTypes
  <2> QED BY <2>1, <2>2, <2>3, <2>4 DEF ClientTypes
<1>3. ObserverTypes
  BY CallsAssumption DEF Init, ObserverTypes
<1> QED BY <1>1, <1>2, <1>3 DEF Types

LEMMA BeginTypes ==
  ASSUME ServerTypes, ClientTypes, AnswerTypes, NEW k \in Clients, NEW c \in AllCalls,
         Begin(k, c)
  PROVE  ServerTypes' /\ ClientTypes' /\ AnswerTypes'
<1>1. ServerTypes'
  BY NoWriteTypes DEF Begin
<1>2. ClientTypes' /\ AnswerTypes'
  BY DEF Begin, ClientTypes, AnswerTypes
<1> QED BY <1>1, <1>2

LEMMA DropTypes ==
  ASSUME ServerTypes, ClientTypes, AnswerTypes, NEW k \in Clients, Drop(k)
  PROVE  ServerTypes' /\ ClientTypes' /\ AnswerTypes'
<1>1. ServerTypes'
  <2>1. Calling(k, {"expire"}) => call[k].key \in Keys
    BY CallOf DEF Calling, ClientTypes
  <2> QED BY <2>1 DEF Drop, Interrupted, ServerTypes, serverVars, Exists
<1>2. ClientTypes' /\ AnswerTypes'
  BY DEF Drop, ClientTypes, AnswerTypes
<1> QED BY <1>1, <1>2

LEMMA TimeToLiveTypes ==
  ASSUME ServerTypes, ClientTypes, AnswerTypes, NEW key \in expiring, TimeToLive(key)
  PROVE  ServerTypes' /\ ClientTypes' /\ AnswerTypes'
<1>1. ServerTypes'
  BY RemoveTypes DEF TimeToLive, ServerTypes
<1>2. ClientTypes' /\ AnswerTypes'
  BY DEF TimeToLive, scanVars, ClientTypes, AnswerTypes
<1> QED BY <1>1, <1>2

LEMMA CloseTypes ==
  ASSUME ServerTypes, ClientTypes, AnswerTypes, Close
  PROVE  ServerTypes' /\ ClientTypes' /\ AnswerTypes'
<1>1. ServerTypes'
  BY NoWriteTypes DEF Close
<1>2. ClientTypes' /\ AnswerTypes'
  BY DEF Close, scanVars, ClientTypes, AnswerTypes
<1> QED BY <1>1, <1>2

LEMMA StutterTypes ==
  ASSUME Types, UNCHANGED vars
  PROVE  Types'
BY DEF Types, ServerTypes, ClientTypes, AnswerTypes, ObserverTypes, vars, serverVars,
       scanVars, observeVars, Exists

LEMMA NextTypes == Types /\ [Next]_vars => Types'
<1> SUFFICES ASSUME Types, [Next]_vars PROVE Types'
  OBVIOUS
<1> USE DEF Types
<1>1. CASE UNCHANGED vars
  BY <1>1, StutterTypes
<1>2. CASE Next
  <2>1. ServerTypes' /\ ClientTypes' /\ AnswerTypes'
    <3>1. CASE \E k \in Clients, c \in Calls : Begin(k, c)
      BY <3>1, BeginTypes, CallsAssumption
    <3>2. CASE \E k \in Clients : Command(k)
      BY <3>2, CommandServerTypes, CommandClientTypes
    <3>3. CASE \E k \in Clients : Drop(k)
      BY <3>3, DropTypes
    <3>4. CASE \E key \in expiring : TimeToLive(key)
      BY <3>4, TimeToLiveTypes
    <3>5. CASE Close
      BY <3>5, CloseTypes
    <3> QED BY <1>2, <3>1, <3>2, <3>3, <3>4, <3>5 DEF Next
  <2>2. made' \in 0..MaxCalls /\ Observe
    <3>1. CASE made < MaxCalls /\ made' = made + 1
      BY <1>2, <3>1, CallsAssumption DEF Next, ObserverTypes
    <3>2. CASE UNCHANGED made
      BY <1>2, <3>2 DEF Next, ObserverTypes
    <3> QED BY <1>2, <3>1, <3>2 DEF Next
  <2> QED BY <2>1, <2>2, ObserveTypes
<1> QED BY <1>1, <1>2

LEMMA TypesInvariant == Spec => []Types
BY InitTypes, NextTypes, PTL DEF Spec

-----------------------------------------------------------------------------
(* Records and their expiry.                                                 *)

\* One step of the server never takes a time to live from a record that stays.
Lasting == \A key \in expiring : key \in expiring' \/ record'[key] = Absent

LEMMA RemoveLasts ==
  ASSUME ServerTypes, NEW key \in Keys, Remove(key)
  PROVE  Lasting
BY DEF Lasting, Remove, ServerTypes

LEMMA SameExpiring ==
  ASSUME UNCHANGED expiring
  PROVE  Lasting
BY DEF Lasting

LEMMA CommandLasts ==
  ASSUME ServerTypes, ClientTypes, NEW k \in Clients, Command(k)
  PROVE  Lasting
<1>0. call[k] \in {Idle} \cup AllCalls
  BY DEF ClientTypes
<1>1. ASSUME Delete(k) PROVE Lasting
  <2>1. call[k].key \in Keys
    BY <1>0, <1>1, CallOf DEF Delete, Calling
  <2> QED BY <1>1, <2>1, RemoveLasts, SameExpiring DEF Delete, NoWrite, serverVars
<1>2. ASSUME Expire(k) PROVE Lasting
  <2>1. call[k].key \in Keys
    BY <1>0, <1>2, CallOf DEF Expire, Calling
  <2>2. CASE Remove(call[k].key)
    BY <2>1, <2>2, RemoveLasts
  <2>3. CASE TakesTtl(call[k].key)
    BY <2>3 DEF TakesTtl, Lasting
  <2>4. CASE UNCHANGED serverVars
    BY <2>4, SameExpiring DEF serverVars
  <2> QED BY <1>2, <2>2, <2>3, <2>4 DEF Expire, SetTtl
<1>3. ASSUME ~Delete(k), ~Expire(k) PROVE UNCHANGED expiring
  BY <1>3 DEF Command, Get, GetField, SetField, SetFields, Store, Hset, WriteNothing,
              CompareAndSwap, Put, WriteAll, ScanPage, EndPage, ReadKey, NoWrite, serverVars
<1> QED BY <1>1, <1>2, <1>3, SameExpiring

\* A record that expires keeps its time to live until it is gone, whatever is called.
THEOREM ExpiryStays == Spec => ExpiryIsForGood
<1>1. ASSUME Types, [Next]_vars PROVE Lasting
  <2>1. CASE \E k \in Clients : Command(k)
    BY <1>1, <2>1, CommandLasts DEF Types
  <2>2. CASE \E key \in expiring : TimeToLive(key)
    BY <1>1, <2>2, RemoveLasts DEF Types, ServerTypes, TimeToLive
  <2>3. CASE \/ \E k \in Clients, c \in Calls : Begin(k, c)
             \/ \E k \in Clients : Drop(k)
             \/ Close \/ UNCHANGED vars
    BY <2>3, SameExpiring DEF Begin, Drop, Close, NoWrite, serverVars, vars
  <2> QED BY <1>1, <2>1, <2>2, <2>3 DEF Next
<1>2. Lasting => \A key \in expiring : key \in expiring' \/ ~Exists(key)'
  BY DEF Lasting, Exists
<1>3. Types /\ [Next]_vars => [\A key \in expiring : key \in expiring' \/ ~Exists(key)']_vars
  BY <1>1, <1>2
<1> QED BY <1>3, TypesInvariant, PTL DEF Spec, ExpiryIsForGood

-----------------------------------------------------------------------------
(* Records without expiry.                                                   *)

\* Why a record will never expire.
Reason(key) == key \in unlimited \/ \E k \in Clients : Calling(k, {"expire"}) /\ call[k].key = key
Reasons == \A key \in Keys : Exists(key) /\ key \notin expiring => Reason(key)

\* Other clients and other keys are left alone.
Aside(k, key) ==
  /\ \A j \in Clients \ {k} : call'[j] = call[j]
  /\ \A x \in Keys \ {key} :
       /\ record'[x] = record[x] /\ (x \in expiring' <=> x \in expiring)
       /\ x \in unlimited => x \in unlimited'

\* The reasons of other keys stay, as long as the call that moves on is not one of them.
LEMMA OtherReasons ==
  ASSUME Reasons, NEW k \in Clients, NEW key \in Keys, Aside(k, key),
         Calling(k, {"expire"}) => call[k].key = key,
         NEW x \in Keys \ {key}, Exists(x)', x \notin expiring'
  PROVE  Reason(x)'
<1>1. Reason(x)
  BY DEF Aside, Reasons, Exists
<1>2. ASSUME NEW j \in Clients, Calling(j, {"expire"}), call[j].key = x
      PROVE  Calling(j, {"expire"})' /\ call'[j].key = x
  BY <1>2 DEF Aside, Calling
<1> QED BY <1>1, <1>2 DEF Reason, Aside

LEMMA MergeSame ==
  ASSUME ServerTypes, NEW key \in Keys, NEW f \in Fields, NEW v, record[key][f] = v, v # Nil
  PROVE  Exists(key)
BY DEF ServerTypes, Hashes, Exists, Absent

\* A step that changes no record but that of one key.
LEMMA ReasonsKept ==
  ASSUME Reasons, NEW k \in Clients, NEW key \in Keys, Aside(k, key),
         Calling(k, {"expire"}) => call[k].key = key,
         Exists(key)' /\ key \notin expiring' => Reason(key)'
  PROVE  Reasons'
BY OtherReasons DEF Reasons

\* A step that changes no record, by a client that was not about to send EXPIRE.
LEMMA ReasonsUntouched ==
  ASSUME Reasons, NEW k \in Clients, ~Calling(k, {"expire"}),
         \A j \in Clients \ {k} : call'[j] = call[j],
         UNCHANGED serverVars, unlimited \subseteq unlimited'
  PROVE  Reasons'
<1>1. ASSUME NEW key \in Keys, Reason(key) PROVE Reason(key)'
  BY <1>1 DEF Reason, Calling
<1> QED BY <1>1 DEF Reasons, serverVars, Exists

LEMMA ReturnAside ==
  ASSUME ClientTypes, NEW k \in Clients, NEW o, NEW v, Return(k, o, v)
  PROVE  /\ \A j \in Clients \ {k} : call'[j] = call[j]
         /\ call'[k] = Idle
BY DEF ClientTypes, Return

LEMMA GoOnAside ==
  ASSUME ClientTypes, NEW k \in Clients, NEW op, GoOn(k, op)
  PROVE  /\ \A j \in Clients \ {k} : call'[j] = call[j]
         /\ call'[k] = [call[k] EXCEPT !.op = op]
BY DEF ClientTypes, GoOn

LEMMA RemoveAside ==
  ASSUME ServerTypes, NEW k \in Clients, NEW key \in Keys, Remove(key),
         \A j \in Clients \ {k} : call'[j] = call[j]
  PROVE  Aside(k, key) /\ ~Exists(key)'
BY DEF Aside, ServerTypes, Remove, Exists

LEMMA HsetAside ==
  ASSUME ServerTypes, NEW k \in Clients, NEW key \in Keys, NEW w, Hset(key, w),
         \A j \in Clients \ {k} : call'[j] = call[j], unlimited \subseteq unlimited'
  PROVE  Aside(k, key)
BY DEF Aside, ServerTypes, Hset

LEMMA StoreReasons ==
  ASSUME ServerTypes, ClientTypes, Reasons, NEW k \in Clients, NEW w, Store(k, w),
         call[k].key \in Keys, ~Calling(k, {"expire"})
  PROVE  Reasons'
<1>1. PICK o \in Outcomes("HSET") :
        /\ Reply(k, o, Done)
        /\ IF Executed(o)
           THEN /\ Hset(call[k].key, w)
                /\ unlimited' = unlimited \cup {call[k].key}
           ELSE NoWrite
  BY DEF Store
<1>2. \A j \in Clients \ {k} : call'[j] = call[j]
  BY <1>1, ReturnAside DEF Reply
<1>3. CASE NoWrite
  BY <1>2, <1>3, ReasonsUntouched DEF NoWrite
<1>4. CASE Hset(call[k].key, w) /\ unlimited' = unlimited \cup {call[k].key}
  <2>1. Aside(k, call[k].key)
    BY <1>2, <1>4, HsetAside
  <2>2. PICK key \in Keys : key = call[k].key
    OBVIOUS
  <2>3. Reason(key)'
    BY <1>4, <2>2 DEF Reason
  <2> QED BY <2>1, <2>2, <2>3, ReasonsKept
<1> QED BY <1>1, <1>3, <1>4

LEMMA PutReasons ==
  ASSUME ServerTypes, ClientTypes, Reasons, NEW k \in Clients, Put(k)
  PROVE  Reasons'
<1>0. call[k].key \in Keys
  BY CallOf DEF Put, Calling, ClientTypes
<1>1. PICK key \in Keys : key = call[k].key
  BY <1>0
<1>2. PICK o \in Outcomes("HSET") :
        /\ IF o = "ok" /\ call[k].ttl # "none"
           THEN GoOn(k, "expire") /\ UNCHANGED scanVars
           ELSE Reply(k, o, Done)
        /\ IF Executed(o) THEN Hset(key, call[k].fields) ELSE UNCHANGED serverVars
        /\ unlimited' = IF Executed(o) /\ call'[k] = Idle
                        THEN unlimited \cup {key} ELSE unlimited
  BY <1>1 DEF Put, WriteAll
<1>3. ~Calling(k, {"expire"}) /\ unlimited \subseteq unlimited'
  BY <1>2 DEF Put, Calling
<1>4. \A j \in Clients \ {k} : call'[j] = call[j]
  BY <1>2, ReturnAside, GoOnAside DEF Reply
<1>5. CASE ~Executed(o)
  BY <1>2, <1>3, <1>4, <1>5, ReasonsUntouched
<1>6. CASE Executed(o)
  <2>1. Aside(k, key)
    BY <1>2, <1>3, <1>4, <1>6, HsetAside
  <2>2. Reason(key)'
    <3>1. CASE o = "ok" /\ call[k].ttl # "none"
      <4>1. call'[k] = [call[k] EXCEPT !.op = "expire"]
        BY <1>2, <3>1, GoOnAside
      <4>2. call[k] \in [op : {"put", "expire"}, key : Keys, fields : Hashes, ttl : Ttls]
        BY PutCall DEF Put, Calling, ClientTypes
      <4>3. call'[k].op = "expire" /\ call'[k].key = key
        BY <1>1, <4>1, <4>2
      <4> QED BY <4>3 DEF Reason, Calling
    <3>2. CASE ~(o = "ok" /\ call[k].ttl # "none")
      <4>1. call'[k] = Idle
        BY <1>2, <3>2, ReturnAside DEF Reply
      <4> QED BY <1>2, <1>6, <4>1 DEF Reason
    <3> QED BY <3>1, <3>2
  <2> QED BY <1>3, <2>1, <2>2, ReasonsKept
<1> QED BY <1>5, <1>6

\* put that ends before EXPIRE leaves the key its reason; after EXPIRE it needs none.
LEMMA EndOfPutReasons ==
  ASSUME ServerTypes, Reasons, NEW k \in Clients, NEW key \in Keys,
         Calling(k, {"expire"}), call[k].key = key,
         \A j \in Clients \ {k} : call'[j] = call[j],
         \/ Remove(key) \/ TakesTtl(key)
         \/ Interrupted(key) /\ UNCHANGED serverVars
  PROVE  Reasons'
<1>1. CASE Remove(key)
  BY <1>1, RemoveAside, ReasonsKept
<1>2. CASE TakesTtl(key)
  <2>1. Aside(k, key)
    BY <1>2 DEF TakesTtl, Aside
  <2>2. Exists(key)' => key \in expiring'
    BY <1>2 DEF TakesTtl, Exists
  <2> QED BY <2>1, <2>2, ReasonsKept
<1>3. CASE Interrupted(key) /\ UNCHANGED serverVars
  <2>1. Aside(k, key)
    BY <1>3 DEF Interrupted, serverVars, Aside
  <2>2. Exists(key)' => Reason(key)'
    BY <1>3 DEF Interrupted, serverVars, Exists, Reason
  <2> QED BY <2>1, <2>2, ReasonsKept
<1> QED BY <1>1, <1>2, <1>3

LEMMA ExpireReasons ==
  ASSUME ServerTypes, ClientTypes, Reasons, NEW k \in Clients, Expire(k)
  PROVE  Reasons'
<1>1. Calling(k, {"expire"}) /\ call[k].key \in Keys
  BY CallOf DEF Expire, Calling, ClientTypes
<1>2. \A j \in Clients \ {k} : call'[j] = call[j]
  BY ReturnAside DEF Expire, Reply
<1>3. PICK key \in Keys : key = call[k].key
  BY <1>1
<1>4. \/ Remove(key) \/ TakesTtl(key)
      \/ Interrupted(key) /\ UNCHANGED serverVars
  BY <1>3 DEF Expire, SetTtl
<1> QED BY <1>1, <1>2, <1>3, <1>4, EndOfPutReasons

\* The script writes to records that exist only.
LEMMA SwapReasons ==
  ASSUME ServerTypes, ClientTypes, Reasons, NEW k \in Clients, CompareAndSwap(k)
  PROVE  Reasons'
<1>1. /\ call[k].key \in Keys /\ call[k].field \in Fields /\ call[k].expected \in Values
      /\ ~Calling(k, {"expire"})
  BY CallOf DEF CompareAndSwap, Calling, ClientTypes
<1>2. \A j \in Clients \ {k} : call'[j] = call[j]
  BY ReturnAside DEF CompareAndSwap, Reply
<1>3. UNCHANGED unlimited
  BY DEF CompareAndSwap
<1>4. CASE UNCHANGED serverVars
  BY <1>1, <1>2, <1>3, <1>4, ReasonsUntouched
<1>5. CASE Same(call[k]) /\ Hset(call[k].key, Only(call[k].field, call[k].new))
  <2>1. PICK key \in Keys : key = call[k].key
    BY <1>1
  <2>2. Aside(k, key)
    BY <1>2, <1>3, <1>5, <2>1, HsetAside
  <2>3. Exists(key)
    BY <1>1, <1>5, <2>1, ValuesAssumption, MergeSame DEF Same
  <2>4. key \notin expiring' => Reason(key)
    BY <1>5, <2>3 DEF Hset, Reasons
  <2>5. Reason(key) => Reason(key)'
    BY <1>1, <1>2, <1>3 DEF Reason, Calling
  <2> QED BY <1>1, <2>2, <2>4, <2>5, ReasonsKept
<1> QED BY <1>4, <1>5 DEF CompareAndSwap

LEMMA DeleteReasons ==
  ASSUME ServerTypes, ClientTypes, Reasons, NEW k \in Clients, Delete(k)
  PROVE  Reasons'
<1>1. call[k].key \in Keys /\ ~Calling(k, {"expire"})
  BY CallOf DEF Delete, Calling, ClientTypes
<1>2. \A j \in Clients \ {k} : call'[j] = call[j]
  BY ReturnAside DEF Delete, Reply
<1>3. CASE Remove(call[k].key)
  BY <1>1, <1>2, <1>3, RemoveAside, ReasonsKept
<1>4. CASE NoWrite
  BY <1>1, <1>2, <1>4, ReasonsUntouched DEF NoWrite
<1> QED BY <1>3, <1>4 DEF Delete

\* Reads, and the calls that send nothing.
LEMMA ReadReasons ==
  ASSUME ClientTypes, Reasons, NEW k \in Clients,
         \/ Get(k) \/ GetField(k) \/ WriteNothing(k) \/ ScanPage(k) \/ EndPage(k)
         \/ \E key \in page[k] : ReadKey(k, key)
  PROVE  Reasons'
<1>1. NoWrite /\ ~Calling(k, {"expire"})
  BY DEF Get, GetField, WriteNothing, ScanPage, EndPage, ReadKey, Calling
<1>2. \A j \in Clients \ {k} : call'[j] = call[j]
  <2>1. CASE UNCHANGED call
    BY <2>1
  <2>2. CASE \E o, v : Return(k, o, v)
    BY <2>2, ReturnAside
  <2>3. CASE \E op : GoOn(k, op)
    BY <2>3, GoOnAside
  <2> QED BY <2>1, <2>2, <2>3
          DEF Get, GetField, WriteNothing, ScanPage, EndPage, ReadKey, Reply
<1> QED BY <1>1, <1>2, ReasonsUntouched DEF NoWrite

LEMMA CommandReasons ==
  ASSUME ServerTypes, ClientTypes, Reasons, NEW k \in Clients, Command(k)
  PROVE  Reasons'
<1>1. ASSUME SetField(k) \/ SetFields(k) PROVE Reasons'
  <2>1. call[k].key \in Keys /\ ~Calling(k, {"expire"})
    BY <1>1, CallOf DEF SetField, SetFields, Calling, ClientTypes
  <2> QED BY <1>1, <2>1, StoreReasons DEF SetField, SetFields
<1> QED BY <1>1, PutReasons, ExpireReasons, SwapReasons, DeleteReasons, ReadReasons
        DEF Command

LEMMA NextReasons ==
  ASSUME Types, Reasons, [Next]_vars
  PROVE  Reasons'
<1> USE DEF Types
<1>1. CASE \E k \in Clients : Command(k)
  BY <1>1, CommandReasons
<1>2. ASSUME NEW k \in Clients, NEW c \in Calls, Begin(k, c) PROVE Reasons'
  <2>1. ~Calling(k, {"expire"}) /\ \A j \in Clients \ {k} : call'[j] = call[j]
    BY <1>2 DEF Begin, Calling, Idle, ClientTypes
  <2> QED BY <1>2, <2>1, ReasonsUntouched DEF Begin, NoWrite
<1>3. ASSUME NEW k \in Clients, Drop(k) PROVE Reasons'
  <2>1. \A j \in Clients \ {k} : call'[j] = call[j]
    BY <1>3 DEF Drop, ClientTypes
  <2>2. CASE Calling(k, {"expire"})
    <3>1. call[k].key \in Keys
      BY <2>2, CallOf DEF Calling, ClientTypes
    <3> QED BY <1>3, <2>1, <2>2, <3>1, EndOfPutReasons DEF Drop
  <2>3. CASE ~Calling(k, {"expire"})
    BY <1>3, <2>1, <2>3, ReasonsUntouched DEF Drop
  <2> QED BY <2>2, <2>3
<1>4. ASSUME NEW key \in expiring, TimeToLive(key) PROVE Reasons'
  <2>1. \A x \in Keys : Exists(x)' => x # key /\ Exists(x)
    BY <1>4 DEF TimeToLive, Remove, Exists, ServerTypes
  <2>2. \A x \in Keys : x # key /\ Reason(x) => Reason(x)'
    BY <1>4 DEF TimeToLive, Remove, Reason, Calling
  <2> QED BY <1>4, <2>1, <2>2 DEF Reasons, TimeToLive, Remove
<1>5. CASE Close \/ UNCHANGED vars
  BY <1>5 DEF Close, NoWrite, vars, serverVars, Reasons, Reason, Exists, Calling
<1> QED BY <1>1, <1>2, <1>3, <1>4, <1>5 DEF Next

\* put with a ttl, however its two commands fail, end early and interleave with other
\* calls, leaves no record without expiry that no write meant to leave so or cut short.
THEOREM PermanentOnlyByWrite == Spec => []PermanentByWrite
<1>1. Init => Reasons
  <2> SUFFICES ASSUME Init, NEW key \in Keys, Exists(key), key \notin expiring
               PROVE  key \in unlimited
    BY DEF Reasons, Reason
  <2> QED BY DEF Init, Exists
<1>2. Types /\ Reasons /\ [Next]_vars => Reasons'
  BY NextReasons
<1>3. Reasons => PermanentByWrite
  BY DEF Reasons, Reason, PermanentByWrite
<1> QED BY <1>1, <1>2, <1>3, TypesInvariant, PTL DEF Spec

-----------------------------------------------------------------------------
(* Records that are gone.                                                    *)

\* The key's record is there again only by a write that is in progress, and as written.
Rewritten(key) ==
  ~Exists(key) /\ Exists(key)' =>
    \E k \in Clients :
      /\ Calling(k, {"put", "set_field", "set_fields"}) /\ call[k].key = key
      /\ record'[key] = WritesAnew(call[k])

\* Where nothing was, what is written is all there is.
LEMMA MergedAnew ==
  ASSUME NEW w \in Hashes
  PROVE  Merge(Absent, w) = w
BY DEF Merge, Absent, Hashes

LEMMA HsetRewrites ==
  ASSUME ServerTypes, NEW k \in Clients, NEW w \in Hashes, call[k].key \in Keys,
         Calling(k, {"put", "set_field", "set_fields"}), WritesAnew(call[k]) = w,
         Hset(call[k].key, w), NEW key \in Keys
  PROVE  Rewritten(key)
<1>1. CASE key # call[k].key
  BY <1>1 DEF Rewritten, Hset, ServerTypes, Exists
<1>2. CASE key = call[k].key
  <2>1. ~Exists(key) => record'[key] = w
    BY <1>2, MergedAnew DEF Hset, ServerTypes, Exists
  <2> QED BY <1>2, <2>1 DEF Rewritten
<1> QED BY <1>1, <1>2

\* A swap finds its field, hence its record.
LEMMA SwapRewrites ==
  ASSUME ServerTypes, ClientTypes, NEW k \in Clients, CompareAndSwap(k), NEW key \in Keys
  PROVE  Rewritten(key)
<1>1. /\ call[k].key \in Keys /\ call[k].field \in Fields /\ call[k].expected \in Values
  BY CallOf DEF CompareAndSwap, Calling, ClientTypes
<1>2. CASE UNCHANGED serverVars
  BY <1>2 DEF serverVars, Rewritten, Exists
<1>3. CASE Same(call[k]) /\ Hset(call[k].key, Only(call[k].field, call[k].new))
  <2>1. PICK x \in Keys : x = call[k].key
    BY <1>1
  <2>2. Exists(x)
    BY <1>1, <1>3, <2>1, ValuesAssumption, MergeSame DEF Same
  <2>3. key # x => record'[key] = record[key]
    BY <1>3, <2>1 DEF Hset, ServerTypes
  <2> QED BY <2>2, <2>3 DEF Rewritten, Exists
<1> QED BY <1>2, <1>3 DEF CompareAndSwap

LEMMA RemoveRewrites ==
  ASSUME ServerTypes, NEW gone \in Keys, Remove(gone), NEW key \in Keys
  PROVE  Rewritten(key)
BY DEF Remove, ServerTypes, Rewritten, Exists

LEMMA NothingRewritten ==
  ASSUME UNCHANGED record, NEW key \in Keys
  PROVE  Rewritten(key)
BY DEF Rewritten, Exists

LEMMA CommandRewrites ==
  ASSUME ServerTypes, ClientTypes, NEW k \in Clients, Command(k), NEW key \in Keys
  PROVE  Rewritten(key)
<1>0. call[k] \in {Idle} \cup AllCalls
  BY DEF ClientTypes
<1>1. CASE UNCHANGED record
  BY <1>1, NothingRewritten
<1>2. ASSUME Delete(k) PROVE Rewritten(key)
  <2>1. call[k].key \in Keys
    BY <1>0, <1>2, CallOf DEF Delete, Calling
  <2> QED BY <1>1, <1>2, <2>1, RemoveRewrites DEF Delete, NoWrite, serverVars
<1>3. ASSUME SetField(k) PROVE Rewritten(key)
  <2> DEFINE w == Only(call[k].field, call[k].value)
  <2>1. call[k].key \in Keys /\ w \in Hashes
    BY <1>0, <1>3, CallOf, OneField DEF SetField, Calling
  <2>2. /\ Calling(k, {"put", "set_field", "set_fields"}) /\ WritesAnew(call[k]) = w
    BY <1>3 DEF SetField, Calling, WritesAnew
  <2>3. NoWrite \/ Hset(call[k].key, w)
    BY <1>3 DEF SetField, Store
  <2> QED BY <1>1, <2>1, <2>2, <2>3, HsetRewrites DEF NoWrite, serverVars
<1>4. ASSUME SetFields(k) \/ Put(k) PROVE Rewritten(key)
  <2>1. call[k].key \in Keys /\ call[k].fields \in Hashes
    BY <1>0, <1>4, CallOf DEF SetFields, Put, Calling
  <2>2. /\ Calling(k, {"put", "set_field", "set_fields"})
        /\ WritesAnew(call[k]) = call[k].fields
    BY <1>4 DEF SetFields, Put, Calling, WritesAnew
  <2>3. UNCHANGED record \/ Hset(call[k].key, call[k].fields)
    BY <1>4 DEF SetFields, Store, Put, WriteAll, NoWrite, serverVars
  <2> QED BY <1>1, <2>1, <2>2, <2>3, HsetRewrites
<1>5. ASSUME Expire(k) PROVE Rewritten(key)
  <2>1. call[k].key \in Keys
    BY <1>0, <1>5, CallOf DEF Expire, Calling
  <2> QED BY <1>1, <1>5, <2>1, RemoveRewrites DEF Expire, SetTtl, TakesTtl, serverVars
<1>6. ASSUME CompareAndSwap(k) PROVE Rewritten(key)
  BY <1>6, SwapRewrites
<1>7. Get(k) \/ GetField(k) \/ WriteNothing(k) \/ ScanPage(k) \/ EndPage(k)
      \/ (\E x \in page[k] : ReadKey(k, x)) => UNCHANGED record
  BY DEF Get, GetField, WriteNothing, ScanPage, EndPage, ReadKey, NoWrite, serverVars
<1> QED BY <1>1, <1>2, <1>3, <1>4, <1>5, <1>6, <1>7 DEF Command

\* No swap and no EXPIRE brings a deleted or expired record back: only a put or a write of
\* fields does, with its own fields and nothing of the old record.
THEOREM GoneForGood == Spec => GoneUntilWritten
<1>1. ASSUME Types, [Next]_vars, NEW key \in Keys PROVE Rewritten(key)
  <2>1. CASE \E k \in Clients : Command(k)
    BY <1>1, <2>1, CommandRewrites DEF Types
  <2>2. CASE \E x \in expiring : TimeToLive(x)
    BY <1>1, <2>2, RemoveRewrites DEF Types, ServerTypes, TimeToLive
  <2>3. CASE \/ \E k \in Clients, c \in Calls : Begin(k, c)
             \/ \E k \in Clients : Drop(k)
             \/ Close \/ UNCHANGED vars
    BY <2>3, NothingRewritten DEF Begin, Drop, Close, NoWrite, serverVars, vars
  <2> QED BY <1>1, <2>1, <2>2, <2>3 DEF Next
<1>2. Types /\ [Next]_vars =>
        [\A key \in Keys :
           ~Exists(key) /\ Exists(key)' =>
             \E k \in Clients :
               /\ Calling(k, {"put", "set_field", "set_fields"}) /\ call[k].key = key
               /\ record'[key] = WritesAnew(call[k])]_vars
  BY <1>1 DEF Rewritten
<1> QED BY <1>2, TypesInvariant, PTL DEF Spec, GoneUntilWritten

-----------------------------------------------------------------------------
(* Scans.                                                                    *)

\* Only the client that acts moves its scan.
Frame(k) ==
  \A j \in Clients \ {k} :
    /\ call'[j] = call[j] /\ answer'[j] = answer[j] /\ found'[j] = found[j]
    /\ page'[j] = page[j] /\ last'[j] = last[j] /\ returned'[j] = returned[j]

Results(k) == {found[k][i][1] : i \in 1..Len(found[k])}

\* Results of a scan that goes on: none, or fewer than it may have.
Below(c, results) == Limited(c) => Len(results) = 0 \/ Len(results) < c.filter.max_results

\* No scan: nothing is left of one.
AtRest(k) == page[k] = {} /\ returned[k] = {} /\ ~last[k]

\* Between two commands of a scan, what lasts and was returned is in the page or found.
UnderWay(k) ==
  /\ steady[k] \subseteq present[k]
  /\ \A key \in steady[k] : Exists(key) /\ Matches(record[key], call[k].filter)
  /\ last[k] => present[k] \subseteq returned[k]
  /\ steady[k] \cap returned[k] \subseteq page[k] \cup Results(k)
  /\ Calling(k, {"scan"}) => page[k] = {}
  /\ Below(call[k], found[k])

WithinMax(a) ==
  a.is = "ok" /\ a.to.op = "read" /\ Limited(a.to) =>
    Len(a.value.results) <= 1 \/ Len(a.value.results) <= a.to.filter.max_results

ScanOK(k) ==
  /\ IF Scanning(k) THEN UnderWay(k) ELSE AtRest(k)
  /\ call[k] # Idle => answer[k] = NoAnswer
  /\ WithinMax(answer[k])

ScansOK == \A k \in Clients : ScanOK(k)

\* What Observe keeps of a scan shrinks, and lasts.
LEMMA Observed ==
  ASSUME Observe, NEW k \in Clients, Scanning(k)'
  PROVE  /\ Scanning(k) => present'[k] \subseteq present[k] /\ steady'[k] \subseteq steady[k]
         /\ (Scanning(k) => steady[k] \subseteq present[k]) => steady'[k] \subseteq present'[k]
         /\ \A key \in steady'[k] : Exists(key)' /\ Matches(record'[key], call'[k].filter)
BY DEF Observe, Exists

\* Clients that do not act.
LEMMA OthersScans ==
  ASSUME ScansOK, Observe, NEW k \in Clients, Frame(k), ScanOK(k)'
  PROVE  ScansOK'
<1> SUFFICES ASSUME NEW j \in Clients \ {k} PROVE ScanOK(j)'
  BY DEF ScansOK
<1>1. /\ call'[j] = call[j] /\ answer'[j] = answer[j] /\ found'[j] = found[j]
      /\ page'[j] = page[j] /\ last'[j] = last[j] /\ returned'[j] = returned[j]
  BY DEF Frame
<1>2. ScanOK(j) /\ (Scanning(j)' <=> Scanning(j)) /\ Results(j)' = Results(j)
  BY <1>1 DEF ScansOK, Scanning, Results
<1>3. CASE ~Scanning(j)
  BY <1>1, <1>2, <1>3 DEF ScanOK, AtRest
<1>4. CASE Scanning(j)
  <2>1. /\ present'[j] \subseteq present[j] /\ steady'[j] \subseteq steady[j]
        /\ steady'[j] \subseteq present'[j]
        /\ \A key \in steady'[j] : Exists(key)' /\ Matches(record'[key], call'[j].filter)
    BY <1>2, <1>4, Observed DEF ScanOK, UnderWay
  <2>2. UnderWay(j)'
    BY <1>1, <1>2, <1>4, <2>1 DEF ScanOK, UnderWay, Calling
  <2> QED BY <1>1, <1>2, <1>4, <2>2 DEF ScanOK
<1> QED BY <1>3, <1>4

\* A call that returns leaves nothing of its scan.
LEMMA ReturnScan ==
  ASSUME ClientTypes, AnswerTypes, NEW k \in Clients, NEW o, NEW v, Return(k, o, v),
         \A j \in Clients \ {k} : found'[j] = found[j],
         o = "ok" => WithinMax(Ok(call[k], v))
  PROVE  Frame(k) /\ ScanOK(k)'
<1>1. Frame(k)
  BY DEF Return, Frame, ClientTypes, AnswerTypes
<1>2. call'[k] = Idle /\ AtRest(k)'
  BY DEF Return, AtRest, ClientTypes
<1>3. answer'[k] = IF o = "ok" THEN Ok(call[k], v) ELSE Err(call[k])
  BY DEF Return, AnswerTypes
<1>4. WithinMax(answer'[k])
  BY <1>3 DEF WithinMax, Err
<1> QED BY <1>1, <1>2, <1>4 DEF ScanOK, Scanning, Idle

\* Calls that are no scan.
LEMMA NoScan ==
  ASSUME ClientTypes, AnswerTypes, ScansOK, NEW k \in Clients,
         call[k].op \notin {"idle", "scan", "read"},
         \/ \E o, v : Reply(k, o, v)
         \/ GoOn(k, "expire") /\ UNCHANGED scanVars
  PROVE  Frame(k) /\ ScanOK(k)'
<1>1. ASSUME NEW o, NEW v, Reply(k, o, v) PROVE Frame(k) /\ ScanOK(k)'
  <2>1. WithinMax(Ok(call[k], v))
    BY DEF WithinMax, Ok
  <2> QED BY <1>1, <2>1, ReturnScan DEF Reply
<1>2. CASE GoOn(k, "expire") /\ UNCHANGED scanVars
  <2>1. call'[k] = [call[k] EXCEPT !.op = "expire"] /\ Frame(k)
    BY <1>2 DEF GoOn, Frame, scanVars, ClientTypes
  <2>2. ~Scanning(k)'
    BY <2>1 DEF Scanning, ClientTypes, AllCalls, Idle
  <2>3. AtRest(k)'
    BY <1>2 DEF ScansOK, ScanOK, Scanning, AtRest, scanVars
  <2>4. answer'[k] = NoAnswer
    BY <1>2 DEF GoOn, ScansOK, ScanOK, Idle
  <2> QED BY <2>1, <2>2, <2>3, <2>4 DEF ScanOK, WithinMax, NoAnswer
<1> QED BY <1>1, <1>2

LEMMA ScanCall ==
  ASSUME NEW c \in {Idle} \cup AllCalls, c.op \in {"scan", "read"}
  PROVE  c \in [op : {"scan", "read"}, prefix : Seq(STRING), filter : Filters]
BY DEF AllCalls, Idle

\* A scan goes on with the same filter.
LEMMA ScanGoesOn ==
  ASSUME ClientTypes, NEW k \in Clients, Scanning(k), NEW op \in {"scan", "read"}, GoOn(k, op)
  PROVE  /\ call'[k].op = op /\ call'[k].filter = call[k].filter /\ Scanning(k)'
         /\ answer' = answer /\ \A j \in Clients \ {k} : call'[j] = call[j]
<1>1. call[k] \in [op : {"scan", "read"}, prefix : Seq(STRING), filter : Filters]
  BY ScanCall DEF Scanning, ClientTypes
<1>2. call'[k] = [call[k] EXCEPT !.op = op]
      /\ answer' = answer /\ \A j \in Clients \ {k} : call'[j] = call[j]
  BY DEF GoOn, ClientTypes
<1> QED BY <1>1, <1>2 DEF Scanning

\* A page: its keys are returned, and it is the last if all that lasts has been returned.
LEMMA ScanPageScans ==
  ASSUME ClientTypes, AnswerTypes, ScansOK, Observe, NEW k \in Clients, ScanPage(k)
  PROVE  Frame(k) /\ ScanOK(k)'
<1>1. PICK o \in Outcomes("SCAN") :
        IF o # "ok" THEN Reply(k, o, Done)
        ELSE /\ \E P \in SUBSET {key \in Keys : Exists(key) /\ starts_with(key, call[k].prefix)} :
                  /\ Len(found[k]) + Cardinality(P) <= MaxReads
                  /\ page' = [page EXCEPT ![k] = P]
                  /\ returned' = [returned EXCEPT ![k] = @ \cup P]
                  /\ \E over \in {FALSE, present[k] \subseteq returned[k] \cup P} :
                       last' = [last EXCEPT ![k] = over]
             /\ GoOn(k, "read") /\ UNCHANGED found
  BY DEF ScanPage
<1>0. Scanning(k) /\ call[k].op = "scan" /\ UnderWay(k) /\ answer[k] = NoAnswer /\ page[k] = {}
  BY DEF ScanPage, Calling, Scanning, ScansOK, ScanOK, UnderWay, Idle
<1>2. CASE o # "ok"
  BY <1>1, <1>2, ReturnScan DEF Reply
<1>3. CASE o = "ok"
  <2>1. PICK P :
          /\ page' = [page EXCEPT ![k] = P]
          /\ returned' = [returned EXCEPT ![k] = returned[k] \cup P]
          /\ \E over \in {FALSE, present[k] \subseteq returned[k] \cup P} :
               last' = [last EXCEPT ![k] = over]
    BY <1>1, <1>3
  <2>2. /\ page'[k] = P /\ returned'[k] = returned[k] \cup P
        /\ last'[k] => present[k] \subseteq returned[k] \cup P
        /\ \A j \in Clients \ {k} :
             page'[j] = page[j] /\ returned'[j] = returned[j] /\ last'[j] = last[j]
    BY <2>1 DEF ClientTypes
  <2>3. /\ call'[k].op = "read" /\ call'[k].filter = call[k].filter /\ Scanning(k)'
        /\ answer' = answer /\ \A j \in Clients \ {k} : call'[j] = call[j]
        /\ found' = found
    BY <1>0, <1>1, <1>3, ScanGoesOn
  <2>4. Frame(k)
    BY <2>2, <2>3 DEF Frame
  <2>5. /\ present'[k] \subseteq present[k] /\ steady'[k] \subseteq steady[k]
        /\ steady'[k] \subseteq present'[k]
        /\ \A key \in steady'[k] : Exists(key)' /\ Matches(record'[key], call'[k].filter)
    BY <1>0, <2>3, Observed DEF UnderWay
  <2>6. steady'[k] \cap returned'[k] \subseteq page'[k] \cup Results(k)'
    BY <1>0, <2>2, <2>3, <2>5 DEF UnderWay, Results
  <2>7. Below(call'[k], found'[k])
    BY <1>0, <2>3 DEF UnderWay, Below, Limited
  <2>8. UnderWay(k)'
    BY <2>2, <2>3, <2>5, <2>6, <2>7 DEF UnderWay, Calling
  <2> QED BY <1>0, <2>3, <2>4, <2>8 DEF ScanOK, WithinMax, NoAnswer
<1> QED BY <1>2, <1>3

\* The end of a page.
LEMMA EndPageScans ==
  ASSUME ClientTypes, AnswerTypes, ScansOK, Observe, NEW k \in Clients, EndPage(k)
  PROVE  /\ Frame(k) /\ ScanOK(k)'
         /\ call'[k] = Idle => steady[k] \subseteq Results(k)'
<1>0. /\ Scanning(k) /\ call[k].op = "read" /\ UnderWay(k) /\ answer[k] = NoAnswer /\ page[k] = {}
      /\ call[k] \in [op : {"scan", "read"}, prefix : Seq(STRING), filter : Filters]
  BY ScanCall DEF EndPage, Calling, Scanning, ScansOK, ScanOK, Idle, ClientTypes
<1>1. CASE last[k] /\ Reply(k, "ok", [results |-> found[k]])
  <2>1. WithinMax(Ok(call[k], [results |-> found[k]]))
    <3>1. Below(call[k], found[k])
      BY <1>0 DEF UnderWay
    <3>2. Limited(call[k]) => call[k].filter.max_results \in Nat
      BY <1>0 DEF Limited, Filters, NoMax
    <3>3. Len(found[k]) \in Nat
      BY DEF ClientTypes
    <3> QED BY <3>1, <3>2, <3>3 DEF WithinMax, Ok, Below
  <2>2. steady[k] \subseteq Results(k)'
    BY <1>0, <1>1 DEF UnderWay, Reply, Results
  <2> QED BY <1>1, <2>1, <2>2, ReturnScan DEF Reply
<1>2. CASE ~last[k] /\ GoOn(k, "scan") /\ UNCHANGED scanVars
  <2>1. /\ call'[k].op = "scan" /\ call'[k].filter = call[k].filter /\ Scanning(k)'
        /\ answer' = answer /\ \A j \in Clients \ {k} : call'[j] = call[j]
        /\ page' = page /\ last' = last /\ found' = found /\ returned' = returned
    BY <1>0, <1>2, ScanGoesOn DEF scanVars
  <2>2. Frame(k)
    BY <2>1 DEF Frame
  <2>3. /\ present'[k] \subseteq present[k] /\ steady'[k] \subseteq steady[k]
        /\ steady'[k] \subseteq present'[k]
        /\ \A key \in steady'[k] : Exists(key)' /\ Matches(record'[key], call'[k].filter)
    BY <1>0, <2>1, Observed DEF UnderWay
  <2>4. Below(call'[k], found'[k]) /\ Results(k)' = Results(k)
    BY <1>0, <2>1 DEF UnderWay, Below, Limited, Results
  <2>5. UnderWay(k)'
    BY <1>0, <1>2, <2>1, <2>3, <2>4 DEF UnderWay, Calling
  <2>6. call'[k] # Idle
    BY <2>1 DEF Idle
  <2> QED BY <1>0, <2>1, <2>2, <2>5, <2>6 DEF ScanOK, WithinMax, NoAnswer
<1> QED BY <1>1, <1>2 DEF EndPage, LastPage

\* A read: what matches all the time is found.
LEMMA ReadKeyScans ==
  ASSUME ServerTypes, ClientTypes, AnswerTypes, ScansOK, Observe,
         NEW k \in Clients, NEW key \in page[k], ReadKey(k, key)
  PROVE  /\ Frame(k) /\ ScanOK(k)'
         /\ call'[k] = Idle /\ answer'[k].is = "ok" => Full(call[k], found'[k])
<1> DEFINE r       == record[key]
           takes   == Exists(key) /\ Matches(r, call[k].filter)
           results == IF takes THEN Append(found[k], <<key, r>>) ELSE found[k]
<1>1. PICK o \in Outcomes("HGETALL") :
        IF o # "ok" THEN Reply(k, o, Done)
        ELSE /\ found' = [found EXCEPT ![k] = results]
             /\ IF takes /\ Full(call[k], results) THEN Return(k, o, [results |-> results])
                ELSE /\ page' = [page EXCEPT ![k] = @ \ {key}]
                     /\ UNCHANGED <<last, returned, call, answer, closed>>
  BY DEF ReadKey
<1>0. /\ Scanning(k) /\ call[k].op = "read" /\ UnderWay(k) /\ answer[k] = NoAnswer
      /\ call[k] \in [op : {"scan", "read"}, prefix : Seq(STRING), filter : Filters]
  BY ScanCall DEF ReadKey, Calling, Scanning, ScansOK, ScanOK, Idle, ClientTypes
<1>2. /\ results \in Seq(Keys \X Hashes) /\ found[k] \in Seq(Keys \X Hashes)
      /\ IF takes THEN Len(results) = Len(found[k]) + 1 ELSE results = found[k]
      /\ takes => results[Len(found[k]) + 1][1] = key
      /\ \A i \in 1..Len(found[k]) : results[i] = found[k][i]
  <2>1. key \in Keys /\ r \in Hashes /\ found[k] \in Seq(Keys \X Hashes)
    BY DEF ClientTypes, ServerTypes
  <2> HIDE DEF r
  <2> QED BY <2>1
<1>3. key \in steady[k] => takes
  BY <1>0 DEF UnderWay
<1> HIDE DEF results, takes
<1>4. CASE o # "ok"
  <2>1. answer'[k].is = "err"
    BY <1>1, <1>4 DEF Reply, Return, Err, AnswerTypes
  <2> QED BY <1>1, <1>4, <2>1, ReturnScan DEF Reply
<1>5. CASE o = "ok" /\ takes /\ Full(call[k], results)
  <2>1. /\ found' = [found EXCEPT ![k] = results] /\ found'[k] = results
        /\ \A j \in Clients \ {k} : found'[j] = found[j]
    BY <1>1, <1>5 DEF ClientTypes
  <2>2. WithinMax(Ok(call[k], [results |-> results]))
    <3>1. Below(call[k], found[k])
      BY <1>0 DEF UnderWay
    <3>2. Limited(call[k]) => call[k].filter.max_results \in Nat
      BY <1>0 DEF Limited, Filters, NoMax
    <3>3. Len(found[k]) \in Nat /\ Len(results) = Len(found[k]) + 1
      BY <1>2, <1>5
    <3>4. Limited(call[k]) => Len(results) <= 1 \/ Len(results) <= call[k].filter.max_results
      BY <3>1, <3>2, <3>3 DEF Below
    <3> QED BY <3>4 DEF WithinMax, Ok
  <2> QED BY <1>1, <1>5, <2>1, <2>2, ReturnScan
<1>6. CASE o = "ok" /\ ~(takes /\ Full(call[k], results))
  <2>1. /\ page' = [page EXCEPT ![k] = @ \ {key}] /\ found' = [found EXCEPT ![k] = results]
        /\ last' = last /\ returned' = returned /\ call' = call /\ answer' = answer
    BY <1>1, <1>6
  <2>2. Frame(k) /\ page'[k] = page[k] \ {key} /\ found'[k] = results
    BY <2>1 DEF Frame, ClientTypes
  <2>3. Scanning(k)' /\ call'[k] # Idle
    BY <1>0, <2>1 DEF Scanning, Idle
  <2>4. /\ present'[k] \subseteq present[k] /\ steady'[k] \subseteq steady[k]
        /\ steady'[k] \subseteq present'[k]
        /\ \A x \in steady'[k] : Exists(x)' /\ Matches(record'[x], call'[k].filter)
    BY <1>0, <2>3, Observed DEF UnderWay
  <2>5. Results(k) \subseteq Results(k)' /\ (takes => key \in Results(k)')
    <3>1. 1..Len(found[k]) \subseteq 1..Len(results)
      BY <1>2
    <3>2. Results(k) \subseteq Results(k)'
      BY <1>2, <2>2, <3>1 DEF Results
    <3>3. takes => Len(found[k]) + 1 \in 1..Len(results)
      BY <1>2
    <3> QED BY <1>2, <2>2, <3>2, <3>3 DEF Results
  <2>6. steady'[k] \cap returned'[k] \subseteq page'[k] \cup Results(k)'
    BY <1>0, <1>3, <2>1, <2>2, <2>4, <2>5 DEF UnderWay
  <2>7. Below(call'[k], found'[k])
    <3>1. CASE ~takes
      BY <1>0, <1>2, <2>1, <2>2, <3>1 DEF UnderWay
    <3>2. CASE ~Full(call[k], results)
      <4>1. Limited(call[k]) => call[k].filter.max_results \in Nat
        BY <1>0 DEF Limited, Filters, NoMax
      <4>2. Len(results) \in Nat
        BY <1>2
      <4> QED BY <2>1, <2>2, <3>2, <4>1, <4>2 DEF Below, Full
    <3> QED BY <1>6, <3>1, <3>2
  <2>8. UnderWay(k)'
    BY <1>0, <2>1, <2>2, <2>4, <2>6, <2>7 DEF UnderWay, Calling
  <2> QED BY <1>0, <2>1, <2>2, <2>3, <2>8 DEF ScanOK, WithinMax, NoAnswer
<1> QED BY <1>4, <1>5, <1>6

\* What a step keeps of the scans, and what it finds if it ends one.
Complete ==
  \A k \in Clients :
    Scanning(k) /\ call'[k] = Idle /\ answer'[k].is = "ok" /\ ~Full(call[k], found'[k])
    => steady[k] \subseteq Results(k)'

\* The step of a client that ends no scan of another.
LEMMA StepScans ==
  ASSUME ScansOK, Observe, NEW k \in Clients, Frame(k), ScanOK(k)',
         Scanning(k) /\ call'[k] = Idle /\ answer'[k].is = "ok" /\ ~Full(call[k], found'[k])
         => steady[k] \subseteq Results(k)'
  PROVE  ScansOK' /\ Complete
<1>1. \A j \in Clients \ {k} : Scanning(j) => call'[j] # Idle
  BY DEF Frame, Scanning, Idle
<1> QED BY <1>1, OthersScans DEF Complete

LEMMA CommandScans ==
  ASSUME ServerTypes, ClientTypes, AnswerTypes, ScansOK, Observe, NEW k \in Clients, Command(k)
  PROVE  ScansOK' /\ Complete
<1>1. ASSUME \/ Get(k) \/ GetField(k) \/ Delete(k) \/ SetField(k) \/ SetFields(k)
             \/ WriteNothing(k) \/ CompareAndSwap(k) \/ Expire(k) \/ Put(k)
      PROVE  ScansOK' /\ Complete
  <2>1. call[k].op \notin {"idle", "scan", "read"}
    BY <1>1 DEF Get, GetField, Delete, SetField, SetFields, WriteNothing, CompareAndSwap,
                Expire, Put, Calling
  <2>2. \/ \E o, v : Reply(k, o, v)
        \/ GoOn(k, "expire") /\ UNCHANGED scanVars
    BY <1>1 DEF Get, GetField, Delete, SetField, SetFields, Store, WriteNothing,
                CompareAndSwap, Expire, Put
  <2>3. Frame(k) /\ ScanOK(k)'
    BY <2>1, <2>2, NoScan
  <2> QED BY <2>1, <2>3, StepScans DEF Scanning
<1>2. ASSUME ScanPage(k) PROVE ScansOK' /\ Complete
  <2>1. Frame(k) /\ ScanOK(k)'
    BY <1>2, ScanPageScans
  <2>2. call'[k] = Idle => answer'[k].is # "ok"
    <3>1. CASE GoOn(k, "read")
      <4>1. Scanning(k)
        BY <1>2 DEF ScanPage, Calling, Scanning
      <4> QED BY <3>1, <4>1, ScanGoesOn DEF Idle
    <3>2. CASE \E o : o # "ok" /\ Reply(k, o, Done)
      BY <3>2 DEF Reply, Return, AnswerTypes, Err
    <3> QED BY <1>2, <3>1, <3>2 DEF ScanPage
  <2> QED BY <2>1, <2>2, StepScans
<1>3. ASSUME EndPage(k) PROVE ScansOK' /\ Complete
  BY <1>3, EndPageScans, StepScans
<1>4. ASSUME NEW key \in page[k], ReadKey(k, key) PROVE ScansOK' /\ Complete
  <2>1. /\ Frame(k) /\ ScanOK(k)'
        /\ call'[k] = Idle /\ answer'[k].is = "ok" => Full(call[k], found'[k])
    BY <1>4, ReadKeyScans
  <2> QED BY <2>1, StepScans
<1> QED BY <1>1, <1>2, <1>3, <1>4 DEF Command

LEMMA BeginScans ==
  ASSUME ClientTypes, AnswerTypes, ScansOK, Observe, NEW k \in Clients, NEW c \in AllCalls,
         Begin(k, c)
  PROVE  ScansOK' /\ Complete
<1>1. /\ Frame(k) /\ call[k] = Idle /\ call'[k] = c /\ answer'[k] = NoAnswer /\ found'[k] = <<>>
      /\ page' = page /\ last' = last /\ returned' = returned
  BY DEF Begin, Frame, ClientTypes, AnswerTypes
<1>2. ~Scanning(k) /\ AtRest(k)
  BY <1>1 DEF Scanning, Idle, ScansOK, ScanOK
<1>3. CASE ~Scanning(k)'
  <2>1. ScanOK(k)'
    BY <1>1, <1>2, <1>3 DEF ScanOK, AtRest, WithinMax, NoAnswer
  <2> QED BY <1>1, <1>2, <2>1, StepScans
<1>4. CASE Scanning(k)'
  <2>1. /\ steady'[k] \subseteq present'[k]
        /\ \A key \in steady'[k] : Exists(key)' /\ Matches(record'[key], call'[k].filter)
    BY <1>2, <1>4, Observed
  <2>2. Below(call'[k], found'[k])
    BY <1>1 DEF Below
  <2>3. UnderWay(k)'
    BY <1>1, <1>2, <2>1, <2>2 DEF UnderWay, AtRest, Calling
  <2>4. ScanOK(k)'
    BY <1>1, <1>4, <2>3 DEF ScanOK, WithinMax, NoAnswer
  <2> QED BY <1>1, <1>2, <2>4, StepScans
<1> QED BY <1>3, <1>4

LEMMA DropScans ==
  ASSUME ClientTypes, AnswerTypes, ScansOK, Observe, NEW k \in Clients, Drop(k)
  PROVE  ScansOK' /\ Complete
<1>1. /\ Frame(k) /\ call'[k] = Idle /\ answer' = answer /\ AtRest(k)' /\ call[k] # Idle
  BY DEF Drop, Frame, ClientTypes, AtRest
<1>2. answer[k] = NoAnswer
  BY <1>1 DEF ScansOK, ScanOK
<1>3. ScanOK(k)'
  BY <1>1, <1>2 DEF ScanOK, Scanning, Idle, WithinMax, NoAnswer
<1> QED BY <1>1, <1>2, <1>3, StepScans DEF NoAnswer

\* Steps of no client.
LEMMA QuietScans ==
  ASSUME ScansOK, Observe, UNCHANGED <<call, answer, scanVars>>
  PROVE  ScansOK' /\ Complete
<1>1. ASSUME NEW k \in Clients PROVE ScanOK(k)'
  <2>1. Frame(k)
    BY DEF Frame, scanVars
  <2>2. CASE ~Scanning(k)
    BY <2>2 DEF ScansOK, ScanOK, Scanning, AtRest, scanVars
  <2>3. CASE Scanning(k)
    <3>1. /\ present'[k] \subseteq present[k] /\ steady'[k] \subseteq steady[k]
          /\ steady'[k] \subseteq present'[k]
          /\ \A x \in steady'[k] : Exists(x)' /\ Matches(record'[x], call'[k].filter)
      BY <2>3, Observed DEF ScansOK, ScanOK, UnderWay, Scanning
    <3>2. UnderWay(k)'
      BY <2>3, <3>1 DEF ScansOK, ScanOK, UnderWay, Calling, Results, Below, Limited, scanVars
    <3> QED BY <2>3, <3>2 DEF ScansOK, ScanOK, Scanning, scanVars
  <2> QED BY <2>2, <2>3
<1>2. Complete
  BY DEF Complete, Scanning, Idle
<1> QED BY <1>1, <1>2 DEF ScansOK

LEMMA NextScans ==
  ASSUME Types, ScansOK, Next
  PROVE  ScansOK' /\ Complete
<1> USE DEF Types
<1>0. Observe
  BY DEF Next
<1>1. CASE \E k \in Clients, c \in Calls : Begin(k, c)
  BY <1>0, <1>1, BeginScans, CallsAssumption
<1>2. CASE \E k \in Clients : Command(k)
  BY <1>0, <1>2, CommandScans
<1>3. CASE \E k \in Clients : Drop(k)
  BY <1>0, <1>3, DropScans
<1>4. CASE Close \/ \E key \in expiring : TimeToLive(key)
  BY <1>0, <1>4, QuietScans DEF Close, TimeToLive
<1> QED BY <1>1, <1>2, <1>3, <1>4 DEF Next

LEMMA StutterScans ==
  ASSUME ScansOK, UNCHANGED vars
  PROVE  ScansOK'
<1>1. UNCHANGED <<record, call, answer, page, last, found, returned, present, steady>>
  BY DEF vars, serverVars, scanVars, observeVars
<1> QED BY <1>1 DEF ScansOK, ScanOK, Scanning, UnderWay, AtRest, Calling, Exists, Results,
        Below, Limited, WithinMax

LEMMA ScansInvariant == Spec => []ScansOK
<1>1. Init => ScansOK
  BY DEF Init, ScansOK, ScanOK, Scanning, Idle, AtRest, WithinMax, NoAnswer
<1>2. Types /\ ScansOK /\ [Next]_vars => ScansOK'
  BY NextScans, StutterScans
<1> QED BY <1>1, <1>2, TypesInvariant, PTL DEF Spec

\* A scan returns one result when max_results is 0, and else no more than it says.
THEOREM ScanLimited == Spec => []ScanWithinMax
<1>1. ScansOK => ScanWithinMax
  BY DEF ScansOK, ScanOK, WithinMax, ScanWithinMax
<1> QED BY <1>1, ScansInvariant, PTL

\* However writers, expiry, deletions and other scans interleave with the pages and reads
\* of a scan, the records that matched all the time are found, unless it is cut short.
THEOREM ScanComplete == Spec => ScanMissesNone
<1>1. Types /\ ScansOK /\ [Next]_vars =>
        [\A k \in Clients :
           Scanning(k) /\ call'[k] = Idle /\ answer'[k].is = "ok" /\ ~Full(call[k], found'[k])
           => steady[k] \subseteq {found'[k][i][1] : i \in 1..Len(found'[k])}]_vars
  BY NextScans DEF Complete, Results
<1> QED BY <1>1, TypesInvariant, ScansInvariant, PTL DEF Spec, ScanMissesNone

===============================================================================
