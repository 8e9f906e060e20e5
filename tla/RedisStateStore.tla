---------------------------- MODULE RedisStateStore ----------------------------
(***************************************************************************)
(* The key-value store of crates/state-store-redis.  Records are hashes in a *)
(* Redis server, which is external: each command is one atomic step of it,   *)
(* and between two commands of a call anything may happen.  A command may    *)
(* fail: the server never saw it, or it was executed and the reply was lost, *)
(* and the caller cannot tell.                                              *)
(*                                                                         *)
(* A hash is a function from the fields to their values, Nil for a field it  *)
(* has not; a key without a field does not exist.  What SCAN returns is left *)
(* open as far as Redis leaves it open: a key that exists from the start of  *)
(* the iteration to its end is returned, others may be, any may be again.    *)
(***************************************************************************)
EXTENDS DomainNames, FiniteSets

CONSTANTS
  Clients,     \* tasks that call the store, each with at most one call in progress
  Keys,        \* keys, sequences of characters
  Fields,
  Values,
  Nil,         \* no value
  Smaller,     \* the byte order of the values: pairs of a value and a greater one
  Calls,       \* the calls clients make in an instance
  Faults,      \* the commands that may fail in an instance
  Stored,      \* what earlier runs may have left: records, and the keys that expire
  MaxCalls,    \* bound: calls ever begun
  MaxReads     \* bound: keys the pages of one scan return, repetitions included

Commands == {"HGETALL", "HSET", "EXPIRE", "DEL", "HGET", "EVALSHA", "SCAN"}

\* A record and its absence; also the fields of a write, Nil for those it leaves alone.
Hashes == [Fields -> Values \cup {Nil}]
Absent == [f \in Fields |-> Nil]

\* Option<Duration>: EXPIRE takes whole seconds, so less than one becomes 0.
Ttls     == {"none", "subsecond", "seconds"}
NoFilter == [op |-> "none"]
NoMax    == -1
Filters  == {NoFilter} \cup [op : {"Eq", "Lt", "Gt"}, field : Fields, value : Values,
                             max_results : Nat \cup {NoMax}]

Idle == [op |-> "idle"]

\* Results carry the call they are for.
NoAnswer  == [is |-> "none"]
Ok(c, v)  == [is |-> "ok", to |-> c, value |-> v]
Err(c)    == [is |-> "err", to |-> c]
Done      == [done |-> TRUE]

\* A call, or what is left of it: "expire" is the second half of put, "read" the inner
\* loop of scan.
AllCalls ==
       [op : {"get", "delete"}, key : Keys]
  \cup [op : {"put", "expire"}, key : Keys, fields : Hashes, ttl : Ttls]
  \cup [op : {"get_field"}, key : Keys, field : Fields]
  \cup [op : {"set_field"}, key : Keys, field : Fields, value : Values]
  \cup [op : {"set_fields"}, key : Keys, fields : Hashes]
  \cup [op : {"compare_and_swap"}, key : Keys, field : Fields,
        expected : Values, new : Values]
  \cup [op : {"scan", "read"}, prefix : Seq(STRING), filter : Filters]

ASSUME ValuesAssumption ==
  Nil \notin Values /\ Smaller \subseteq Values \X Values

ASSUME StoredAssumption ==
  \A left \in Stored :
    /\ left.record \in [Keys -> Hashes]
    /\ left.expiring \subseteq {key \in Keys : left.record[key] # Absent}

ASSUME CallsAssumption ==
  /\ Calls \subseteq AllCalls
  /\ Faults \subseteq Commands /\ MaxCalls \in Nat /\ MaxReads \in Nat

VARIABLES
  record,    \* server: key -> its hash
  expiring,  \* server: the keys with a time to live
  closed,    \* RedisStateStore.closed
  call,      \* per client: its call past check_closed, or Idle
  answer,    \* per client: what its last call returned
  page,      \* per client: keys its scan has yet to read of the last page
  last,      \* per client: that page was the last, next_cursor is 0
  found,     \* per client: results of its scan, <<key, fields>> each
  returned,  \* server: the keys the pages of a scan have returned
  present,   \* server: the keys a scan must return, in existence since it began
  made,      \* bound: how many calls were begun
  steady,    \* history: the keys whose records a scan should find, whenever it looks
  unlimited  \* history: the keys some write of which set no expiry, on purpose or not

serverVars  == <<record, expiring>>
scanVars    == <<page, last, found, returned>>
observeVars == <<present, steady>>

vars == <<serverVars, closed, call, answer, scanVars, observeVars, made, unlimited>>

-----------------------------------------------------------------------------
(* The server.                                                              *)

Outcomes(command) ==
  {"ok"} \cup (IF command \in Faults THEN {"unsent", "reply_lost"} ELSE {})
Executed(o) == o # "unsent"

Exists(key) == record[key] # Absent

Merge(r, w) == [f \in Fields |-> IF w[f] = Nil THEN r[f] ELSE w[f]]

\* The fields of set_field.
Only(f, v) == [Absent EXCEPT ![f] = v]

\* DEL of the fields first: a put that writes the record anew.
SetAnew(key, w) == record' = [record EXCEPT ![key] = w] /\ expiring' = expiring \ {key}

\* HSET keeps the other fields and the time to live of the key.
Hset(key, w) == record' = [record EXCEPT ![key] = Merge(@, w)] /\ UNCHANGED expiring

\* DEL, or a time to live that has run out.
Remove(key) ==
  /\ record' = [record EXCEPT ![key] = Absent]
  /\ expiring' = expiring \ {key}
  /\ unlimited' = unlimited \ {key}

NoWrite == UNCHANGED <<serverVars, unlimited>>

\* EXPIRE, which does nothing if there is no such key.
TakesTtl(key) ==
  /\ expiring' = IF Exists(key) THEN expiring \cup {key} ELSE expiring
  /\ UNCHANGED <<record, unlimited>>

\* No EXPIRE at all for less than a second.
SetTtlOfSeconds(key, ttl) == IF ttl = "subsecond" THEN NoWrite ELSE TakesTtl(key)

\* EXPIRE with the whole seconds of the ttl; with 0 it removes the key.
SetTtl(key, ttl) == IF ttl = "subsecond" THEN Remove(key) ELSE TakesTtl(key)

\* A put that ends before its EXPIRE.
Interrupted(key) ==
  unlimited' = IF Exists(key) THEN unlimited \cup {key} ELSE unlimited

-----------------------------------------------------------------------------
Init ==
  /\ \E left \in Stored :
       /\ record = left.record /\ expiring = left.expiring
       /\ unlimited = {key \in Keys \ left.expiring : left.record[key] # Absent}
  /\ closed = FALSE
  /\ call = [k \in Clients |-> Idle] /\ answer = [k \in Clients |-> NoAnswer]
  /\ page = [k \in Clients |-> {}] /\ last = [k \in Clients |-> FALSE]
  /\ found = [k \in Clients |-> <<>>] /\ returned = [k \in Clients |-> {}]
  /\ present = [k \in Clients |-> {}] /\ steady = [k \in Clients |-> {}]
  /\ made = 0

\* A client calls: check_closed, and the locals of a scan.
Begin(k, c) ==
  /\ call[k] = Idle /\ ~closed
  /\ call' = [call EXCEPT ![k] = c]
  /\ answer' = [answer EXCEPT ![k] = NoAnswer]
  /\ found' = [found EXCEPT ![k] = <<>>]
  /\ UNCHANGED <<closed, page, last, returned>> /\ NoWrite

\* A call returns; the page of a scan is dropped.
Return(k, o, v) ==
  /\ call' = [call EXCEPT ![k] = Idle]
  /\ answer' = [answer EXCEPT ![k] = IF o = "ok" THEN Ok(call[k], v) ELSE Err(call[k])]
  /\ page' = [page EXCEPT ![k] = {}] /\ last' = [last EXCEPT ![k] = FALSE]
  /\ returned' = [returned EXCEPT ![k] = {}]
  /\ UNCHANGED closed

\* A call of one command, or the last command of a call.
Reply(k, o, v) == Return(k, o, v) /\ UNCHANGED found

\* A call goes on with another command.
GoOn(k, op) ==
  /\ call' = [call EXCEPT ![k].op = op]
  /\ UNCHANGED <<closed, answer>>

Calling(k, ops) == call[k].op \in ops

-----------------------------------------------------------------------------
(* Calls of one command.                                                    *)

\* None when the hash is empty.
Get(k) ==
  /\ Calling(k, {"get"})
  /\ \E o \in Outcomes("HGETALL") : Reply(k, o, [record |-> record[call[k].key]])
  /\ NoWrite

GetField(k) ==
  /\ Calling(k, {"get_field"})
  /\ \E o \in Outcomes("HGET") : Reply(k, o, [field |-> record[call[k].key][call[k].field]])
  /\ NoWrite

Delete(k) ==
  /\ Calling(k, {"delete"})
  /\ \E o \in Outcomes("DEL") :
       /\ Reply(k, o, Done)
       /\ IF Executed(o) THEN Remove(call[k].key) ELSE NoWrite

\* A write that sets no expiry.
Store(k, w) ==
  \E o \in Outcomes("HSET") :
    /\ Reply(k, o, Done)
    /\ IF Executed(o)
       THEN /\ Hset(call[k].key, w)
            /\ unlimited' = unlimited \cup {call[k].key}
       ELSE NoWrite

SetField(k) ==
  /\ Calling(k, {"set_field"})
  /\ Store(k, Only(call[k].field, call[k].value))

SetFields(k) ==
  /\ Calling(k, {"set_fields"}) /\ call[k].fields # Absent
  /\ Store(k, call[k].fields)

\* put and set_fields with no fields send no command.
WriteNothing(k) ==
  /\ Calling(k, {"put", "set_fields"}) /\ call[k].fields = Absent
  /\ Reply(k, "ok", Done) /\ NoWrite

\* What the script compares; a field that is not there equals nothing.
SameOrMissing(c) == record[c.key][c.field] \in {c.expected, Nil}
SameOrNew(c) == record[c.key][c.field] \in {c.expected, c.new}
Same(c) == record[c.key][c.field] = c.expected

\* The script runs in the server, in one step.
CompareAndSwap(k) ==
  /\ Calling(k, {"compare_and_swap"})
  /\ LET c == call[k]
         same == Same(c) IN
     \E o \in Outcomes("EVALSHA") :
       /\ Reply(k, o, [swapped |-> same])
       /\ IF Executed(o) /\ same THEN Hset(c.key, Only(c.field, c.new))
          ELSE UNCHANGED serverVars
  /\ UNCHANGED unlimited

-----------------------------------------------------------------------------
(* put: HSET and, if the record is to expire, EXPIRE.                       *)

\* All fields in one HSET, with no DEL before it.
WriteAll(key, w) == Hset(key, w)

Put(k) ==
  /\ Calling(k, {"put"}) /\ call[k].fields # Absent
  /\ LET c == call[k] IN
     \E o \in Outcomes("HSET") :
       /\ IF o = "ok" /\ c.ttl # "none"
          THEN GoOn(k, "expire") /\ UNCHANGED scanVars
          ELSE Reply(k, o, Done)
       /\ IF Executed(o) THEN WriteAll(c.key, c.fields) ELSE UNCHANGED serverVars
       /\ unlimited' = IF Executed(o) /\ call'[k] = Idle
                       THEN unlimited \cup {c.key} ELSE unlimited

Expire(k) ==
  /\ Calling(k, {"expire"})
  /\ LET c == call[k] IN
     \E o \in Outcomes("EXPIRE") :
       /\ Reply(k, o, Done)
       /\ IF Executed(o) THEN SetTtl(c.key, c.ttl)
          ELSE Interrupted(c.key) /\ UNCHANGED serverVars

-----------------------------------------------------------------------------
(* scan: pages of keys, and a read of each.                                 *)

Scanning(k) == call[k].op \in {"scan", "read"}

\* One SCAN: it may return any keys of the prefix, and it is the last one only when all
\* that are present have been returned.
ScanPage(k) ==
  /\ Calling(k, {"scan"})
  /\ \E o \in Outcomes("SCAN") :
       IF o # "ok" THEN Reply(k, o, Done)
       ELSE /\ \E P \in SUBSET {key \in Keys : Exists(key) /\ starts_with(key, call[k].prefix)} :
                 /\ Len(found[k]) + Cardinality(P) <= MaxReads
                 /\ page' = [page EXCEPT ![k] = P]
                 /\ returned' = [returned EXCEPT ![k] = @ \cup P]
                 /\ \E over \in {FALSE, present[k] \subseteq returned[k] \cup P} :
                      last' = [last EXCEPT ![k] = over]
            /\ GoOn(k, "read") /\ UNCHANGED found
  /\ NoWrite

\* A record without the field of the filter does not match.
Matches(r, filter) ==
  \/ filter = NoFilter
  \/ /\ filter # NoFilter /\ r[filter.field] # Nil
     /\ LET v == r[filter.field] IN
        CASE filter.op = "Eq" -> v = filter.value
          [] filter.op = "Lt" -> <<v, filter.value>> \in Smaller
          [] filter.op = "Gt" -> <<filter.value, v>> \in Smaller

Limited(c) == c.filter # NoFilter /\ c.filter.max_results # NoMax

\* max_results is looked at after a result was added.
FullLate(c, results) == Limited(c) /\ Len(results) > c.filter.max_results
Full(c, results) == Limited(c) /\ Len(results) >= c.filter.max_results

\* HGETALL of a key of the page, which may have changed or gone since.
ReadKey(k, key) ==
  /\ Calling(k, {"read"}) /\ key \in page[k]
  /\ LET r       == record[key]
         takes   == Exists(key) /\ Matches(r, call[k].filter)
         results == IF takes THEN Append(found[k], <<key, r>>) ELSE found[k] IN
     \E o \in Outcomes("HGETALL") :
       IF o # "ok" THEN Reply(k, o, Done)
       ELSE /\ found' = [found EXCEPT ![k] = results]
            /\ IF takes /\ Full(call[k], results) THEN Return(k, o, [results |-> results])
               ELSE /\ page' = [page EXCEPT ![k] = @ \ {key}]
                    /\ UNCHANGED <<last, returned, call, answer, closed>>
  /\ NoWrite

\* The cursor of the page is 0.
FirstPage(k) == TRUE
LastPage(k) == last[k]

\* The keys of the page are read: the next page, unless there is none.
EndPage(k) ==
  /\ Calling(k, {"read"}) /\ page[k] = {}
  /\ IF LastPage(k) THEN Reply(k, "ok", [results |-> found[k]]) ELSE GoOn(k, "scan") /\ UNCHANGED scanVars
  /\ NoWrite

-----------------------------------------------------------------------------
Close ==
  /\ closed' = TRUE
  /\ UNCHANGED <<call, answer, scanVars>> /\ NoWrite

\* The client dies, or drops the future of its call, between two commands.
Drop(k) ==
  /\ call[k] # Idle
  /\ call' = [call EXCEPT ![k] = Idle]
  /\ page' = [page EXCEPT ![k] = {}] /\ last' = [last EXCEPT ![k] = FALSE]
  /\ returned' = [returned EXCEPT ![k] = {}]
  /\ IF Calling(k, {"expire"}) THEN Interrupted(call[k].key) ELSE UNCHANGED unlimited
  /\ UNCHANGED <<serverVars, answer, found, closed>>

\* A time to live runs out.
TimeToLive(key) ==
  /\ key \in expiring
  /\ Remove(key)
  /\ UNCHANGED <<call, answer, scanVars, closed>>

\* What has lasted since a scan began, whatever the step.
Observe ==
  LET since(held, k) == {key \in (IF Scanning(k) THEN held[k] ELSE Keys) :
                           starts_with(key, call'[k].prefix) /\ record'[key] # Absent} IN
  /\ present' = [k \in Clients |-> IF ~Scanning(k)' THEN {} ELSE since(present, k)]
  /\ steady' = [k \in Clients |-> IF ~Scanning(k)' THEN {} ELSE
                  {key \in since(steady, k) : Matches(record'[key], call'[k].filter)}]

\* The commands of the calls in progress.
Command(k) ==
  \/ Get(k) \/ GetField(k) \/ Delete(k) \/ SetField(k) \/ SetFields(k) \/ WriteNothing(k)
  \/ CompareAndSwap(k) \/ Put(k) \/ Expire(k)
  \/ ScanPage(k) \/ EndPage(k) \/ \E key \in page[k] : ReadKey(k, key)

Next ==
  /\ \/ /\ made < MaxCalls /\ made' = made + 1
        /\ \E k \in Clients, c \in Calls : Begin(k, c)
     \/ /\ UNCHANGED made
        /\ \/ \E k \in Clients : Command(k) \/ Drop(k)
           \/ \E key \in expiring : TimeToLive(key)
           \/ Close
  /\ Observe

Spec == Init /\ [][Next]_vars

-----------------------------------------------------------------------------
(* Properties.                                                              *)

\* scan, however writers, expiry and other scans interleave with its pages and reads:
\* when it returns with less than max_results, the records that matched the filter all
\* the time are among its results.
ScanMissesNone ==
  [][\A k \in Clients :
       Scanning(k) /\ call'[k] = Idle /\ answer'[k].is = "ok" /\ ~Full(call[k], found'[k])
       => steady[k] \subseteq {found'[k][i][1] : i \in 1..Len(found'[k])}]_vars

\* scan returns no more than max_results, and one when that is 0: it looks after it added.
ScanWithinMax ==
  \A k \in Clients :
    LET a == answer[k] IN
    a.is = "ok" /\ a.to.op = "read" /\ Limited(a.to) =>
      Len(a.value.results) <= 1 \/ Len(a.value.results) <= a.to.filter.max_results

\* put with a ttl is two commands: a record that will never expire is one that some write
\* gave no expiry (set_field, set_fields, put without ttl, or a put that ended between
\* its commands), or a put is about to send EXPIRE for it.
PermanentByWrite ==
  \A key \in Keys :
    Exists(key) /\ key \notin expiring =>
      key \in unlimited \/ \E k \in Clients : Calling(k, {"expire"}) /\ call[k].key = key

\* No call takes the expiry of a record away: not put without ttl, not a field write.
ExpiryIsForGood ==
  [][\A key \in expiring : key \in expiring' \/ ~Exists(key)']_vars

\* What a write of fields creates where there is no record.
WritesAnew(c) == IF c.op = "set_field" THEN Only(c.field, c.value) ELSE c.fields

\* A record that was deleted or has expired comes back only by a put, set_field or
\* set_fields that reaches the server after that, and then with the fields of that call
\* alone: never by a compare_and_swap prepared on what was there before, nor by the EXPIRE
\* of a put whose record went between its two commands.
GoneUntilWritten ==
  [][\A key \in Keys :
       ~Exists(key) /\ Exists(key)' =>
         \E k \in Clients :
           /\ Calling(k, {"put", "set_field", "set_fields"}) /\ call[k].key = key
           /\ record'[key] = WritesAnew(call[k])]_vars

=============================================================================
