---------------------------- MODULE MemoryTransport ----------------------------
(***************************************************************************)
(* The in-process transport of crates/nexus-memory: streams of envelopes,  *)
(* consumer groups with a cursor, a pending set and a redelivery queue, and *)
(* one consumer loop per subscription.  All of it is shared behind one      *)
(* tokio Mutex; what a call reads BEFORE it takes that lock (the closed     *)
(* flag, the clock, the fresh ULID, the acked flag of a message) is a step  *)
(* of its own here, so that calls interleave as tasks do.                   *)
(*                                                                         *)
(* Positions in a stream are 1-based: cursor[g] is the position of the last *)
(* message delivered to the group, 0 standing for None.  A group of this    *)
(* module is a (subject, group name) pair of the code.                      *)
(***************************************************************************)
EXTENDS Integers, Sequences, FiniteSets, Functions

CONSTANTS
  Subjects,       \* the subjects streams may exist for
  DeadLetterOf,   \* subject -> the "gbe._deadletter.{domain}" subject of its domain
  Groups,         \* consumer groups
  SubjectOf,      \* group -> the subject whose stream holds it
  Consumers,      \* subscriptions, one consumer loop each
  GroupOf,        \* consumer -> the group it subscribes with
  BatchSize,      \* consumer -> SubscribeOpts.batch_size
  MaxInflight,    \* consumer -> SubscribeOpts.max_inflight
  Starts,         \* the StartPositions subscribers pass, [at, arg] records
  Callers,        \* client tasks, each with at most one call in progress
  Moves,          \* what clients, handlers and the clock do in an instance
  MaxMsgs,        \* bound: envelopes ever created
  MaxTime,        \* bound: last value of the clock
  NoConsumer      \* holder of the free store lock

Ids == 1..MaxMsgs

StartKinds == {"latest", "earliest", "timestamp", "id"}

ASSUME TopologyAssumption ==
  /\ DeadLetterOf \in [Subjects -> Subjects]
  /\ SubjectOf \in [Groups -> Subjects]
  /\ GroupOf \in [Consumers -> Groups]
  /\ NoConsumer \notin Consumers

ASSUME OptionsAssumption ==
  /\ BatchSize \in [Consumers -> Nat]
  /\ MaxInflight \in [Consumers -> Nat]
  /\ Starts \subseteq [at : StartKinds, arg : Nat]

ASSUME BoundsAssumption == MaxMsgs \in Nat /\ MaxTime \in Nat

VARIABLES
  closed,     \* MemoryTransport.closed
  now,        \* the system clock, in milliseconds
  nextId,     \* the next ULID: Ulid::new() never repeats one
  streams,    \* subjects whose StreamData exists
  messages,   \* StreamData.messages
  idIndex,    \* StreamData.id_index: id -> position, 0 when absent
  groups,     \* groups whose ConsumerGroup exists
  cursor,     \* ConsumerGroup.cursor
  pending,    \* ConsumerGroup.pending
  redeliver,  \* ConsumerGroup.redeliver
  call,       \* per caller: the call between its checks and the store lock
  lock,       \* the consumer whose collect_batch holds the store, or NoConsumer
  scan,       \* the index range collect_batch still has to visit: [next, last]
  pc,         \* per consumer: where its loop is
  take,       \* per consumer: `take` of its last collect_batch
  batch,      \* per consumer: envelopes of the batch not yet handled
  msg,        \* per consumer: the envelope its handler has
  acked,      \* per consumer: MemoryMessage.acked of that message
  draft,      \* per consumer: the dead-letter envelope it built
  cancelled,  \* per consumer: its CancellationToken
  active,     \* per consumer: what is_active returns
  woken,      \* per consumer: its Notified future has been woken
  settled,    \* history, per group: ids acked or dead-lettered
  skipped,    \* history, per group: ids its start position passed over
  stranded    \* history, per group: ids a consumer let go of without a verdict

storeVars    == <<streams, messages, idIndex, groups, cursor, pending, redeliver>>
clockVars    == <<closed, now>>
loopVars     == <<pc, take, batch, msg, acked, draft, cancelled, active, woken>>
collectVars  == <<lock, scan>>
historyVars  == <<settled, skipped, stranded>>

vars == <<clockVars, nextId, storeVars, call, collectVars, loopVars, historyVars>>

-----------------------------------------------------------------------------
(* Envelopes. origin is the (group, id) a dead-letter envelope was made from. *)

Origins   == {<<>>} \cup (Groups \X Ids)
Envelopes == [id : Ids, timestamp : Nat, origin : Origins]
Blank     == [id |-> 0, timestamp |-> 0, origin |-> <<>>]

Envelope(origin) == [id |-> nextId, timestamp |-> now, origin |-> origin]

IdsOf(s) == {e.id : e \in Range(s)}

Idle == [op |-> "none"]

Calls == {Idle}
  \cup [op : {"publish"}, subject : Subjects, envelope : Envelopes]
  \cup [op : {"trim_stream"}, subject : Subjects, cutoff : Nat]
  \cup [op : {"ensure_stream"}, subject : Subjects]

Settling == {"ack", "nak", "auto_nak", "dead_letter"}   \* after the swap, before the lock
Locked   == {"redeliver", "scan"}                       \* inside collect_batch
PCs      == {"idle", "subscribe", "top", "collect", "collected", "wait", "next", "handle",
             "stopped", "panicked"} \cup Locked \cup Settling

Minimum(a, b) == IF a <= b THEN a ELSE b

-----------------------------------------------------------------------------
(* Helpers of the store.                                                    *)

SubjectFor(c) == SubjectOf[GroupOf[c]]

(* What c answers for: the batch it has not handled yet, and the message in  *)
(* its handler until a verdict on it has taken effect.                       *)
InHand(c) ==
  IF pc[c] \in Settling \/ (pc[c] = "handle" /\ ~acked[c]) THEN {msg[c].id} ELSE {}

Held(c) == InHand(c) \cup IdsOf(batch[c])

(* notify_waiters wakes the Notified futures that exist, polled or not: those *)
(* of loops that have registered and not yet left their select.              *)
NotifyPolledOnly(s) ==
  [c \in Consumers |-> woken[c] \/ (SubjectFor(c) = s /\ pc[c] = "wait")]

NotifyWaiters(s) ==
  [c \in Consumers |-> woken[c] \/ (SubjectFor(c) = s /\ pc[c] \in {"collect", "collected", "wait"})]

(* get_or_create_stream, then the append that publish and dead_letter share.  *)
AppendTo(s, envelope) ==
  /\ streams' = streams \cup {s}
  /\ idIndex' = [idIndex EXCEPT ![s][envelope.id] = Len(messages[s]) + 1]
  /\ messages' = [messages EXCEPT ![s] = Append(@, envelope)]
  /\ woken' = NotifyWaiters(s)

(* The same, without those as old as the cutoff.                              *)
YoungerCount(s, cutoff) ==
  Cardinality({i \in 1..Len(messages[s]) :
                 \A j \in 1..i : messages[s][j].timestamp < cutoff})

(* take_while(..).count(): the length of the longest prefix that has expired. *)
ExpiredCount(s, cutoff) ==
  Cardinality({i \in 1..Len(messages[s]) :
                 \A j \in 1..i : messages[s][j].timestamp <= cutoff})

(* id_index once the first n messages of s are gone: cleared and refilled.    *)
StaleIndex(s, n) ==
  [id \in Ids |-> IF \E i \in 1..n : messages[s][i].id = id THEN 0 ELSE idIndex[s][id]]

RebuiltIndex(s, n) ==
  [id \in Ids |->
     IF \E i \in n+1..Len(messages[s]) : messages[s][i].id = id
     THEN (CHOOSE i \in n+1..Len(messages[s]) : messages[s][i].id = id) - n
     ELSE 0]

(* A group's cursor once n messages are gone from the front of its stream.    *)
TrimmedCursorOffByOne(k, n)  == IF k <= n + 1 THEN 0 ELSE k - n
TrimmedCursorReset(k, n)     == 0
TrimmedCursorKept(k, n)      == k
TrimmedCursorUnderflow(k, n) == k - n

TrimmedCursor(k, n) == IF k <= n THEN 0 ELSE k - n

(* A group's pending set once the expired ids are gone.                       *)
PendingKept(g, expired)         == pending[g]
PendingAfterTrim(g, expired)    == pending[g] \ expired

(* Length of the run at the end of s that rev().find(timestamp < ts) passes over. *)
NotBefore(s, ts) ==
  Cardinality({i \in 1..Len(messages[s]) :
                 \A j \in i..Len(messages[s]) : messages[s][j].timestamp >= ts})

(* The cursor a new group of subject s gets from a StartPosition.             *)
StartCursor(s, start) ==
  [latest    |-> Len(messages[s]),
   earliest  |-> 0,
   timestamp |-> Len(messages[s]) - NotBefore(s, start.arg),
   id        |-> IF start.arg \in Ids THEN idIndex[s][start.arg] ELSE 0][start.at]

LockFree == lock = NoConsumer

-----------------------------------------------------------------------------
Init ==
  /\ closed = FALSE /\ now = 1 /\ nextId = 1
  /\ streams = {} /\ groups = {}
  /\ messages = [s \in Subjects |-> <<>>]
  /\ idIndex = [s \in Subjects |-> [id \in Ids |-> 0]]
  /\ cursor = [g \in Groups |-> 0]
  /\ pending = [g \in Groups |-> {}]
  /\ redeliver = [g \in Groups |-> <<>>]
  /\ call = [k \in Callers |-> Idle]
  /\ lock = NoConsumer /\ scan = [next |-> 0, last |-> 0]
  /\ pc = [c \in Consumers |-> "idle"]
  /\ take = [c \in Consumers |-> 0]
  /\ batch = [c \in Consumers |-> <<>>]
  /\ msg = [c \in Consumers |-> Blank]
  /\ draft = [c \in Consumers |-> Blank]
  /\ acked = [c \in Consumers |-> FALSE]
  /\ cancelled = [c \in Consumers |-> FALSE]
  /\ active = [c \in Consumers |-> FALSE]
  /\ woken = [c \in Consumers |-> FALSE]
  /\ settled = [g \in Groups |-> {}]
  /\ skipped = [g \in Groups |-> {}]
  /\ stranded = [g \in Groups |-> {}]

Goto(c, label) == pc' = [pc EXCEPT ![c] = label]

-----------------------------------------------------------------------------
(* Client calls.  Each begins outside the lock and commits under it; a call   *)
(* that check_closed or the size check refuses changes nothing.               *)

PublishBegin(k, s) ==
  /\ "publish" \in Moves /\ ~closed
  /\ call[k] = Idle /\ nextId <= MaxMsgs
  /\ call' = [call EXCEPT ![k] =
               [op |-> "publish", subject |-> s, envelope |-> Envelope(<<>>)]]
  /\ nextId' = nextId + 1
  /\ UNCHANGED <<clockVars, storeVars, collectVars, loopVars, historyVars>>

PublishCommit(k) ==
  /\ call[k].op = "publish" /\ LockFree
  /\ AppendTo(call[k].subject, call[k].envelope)
  /\ call' = [call EXCEPT ![k] = Idle]
  /\ UNCHANGED <<clockVars, nextId, groups, cursor, pending, redeliver, collectVars,
                 pc, take, batch, msg, acked, draft, cancelled, active, historyVars>>

EnsureStreamBegin(k, s) ==
  /\ "ensure_stream" \in Moves /\ ~closed
  /\ call[k] = Idle
  /\ call' = [call EXCEPT ![k] = [op |-> "ensure_stream", subject |-> s]]
  /\ UNCHANGED <<clockVars, nextId, storeVars, collectVars, loopVars, historyVars>>

EnsureStreamCommit(k) ==
  /\ call[k].op = "ensure_stream" /\ LockFree
  /\ streams' = streams \cup {call[k].subject}
  /\ call' = [call EXCEPT ![k] = Idle]
  /\ UNCHANGED <<clockVars, nextId, messages, idIndex, groups, cursor, pending,
                 redeliver, collectVars, loopVars, historyVars>>

TrimStreamBegin(k, s, maxAge) ==
  /\ "trim_stream" \in Moves /\ ~closed
  /\ call[k] = Idle
  /\ call' = [call EXCEPT ![k] =
               [op |-> "trim_stream", subject |-> s,
                cutoff |-> IF now >= maxAge THEN now - maxAge ELSE 0]]
  /\ UNCHANGED <<clockVars, nextId, storeVars, collectVars, loopVars, historyVars>>

TrimStreamCommit(k) ==
  /\ call[k].op = "trim_stream" /\ LockFree
  /\ call' = [call EXCEPT ![k] = Idle]
  /\ LET s == call[k].subject
         n == ExpiredCount(s, call[k].cutoff)
         expired == IdsOf(SubSeq(messages[s], 1, n))
         Mine(g) == SubjectOf[g] = s
     IN IF n = 0
        THEN UNCHANGED storeVars
        ELSE /\ messages' = [messages EXCEPT ![s] = SubSeq(@, n + 1, Len(@))]
             /\ idIndex' = [idIndex EXCEPT ![s] = RebuiltIndex(s, n)]
             /\ pending' = [g \in Groups |->
                              IF Mine(g) THEN PendingAfterTrim(g, expired) ELSE pending[g]]
             /\ cursor' = [g \in Groups |->
                             IF Mine(g) THEN TrimmedCursor(cursor[g], n) ELSE cursor[g]]
             /\ UNCHANGED <<streams, groups, redeliver>>
  /\ UNCHANGED <<clockVars, nextId, collectVars, loopVars, historyVars>>

(* The client drops the future of a call that waits for the lock.             *)
DropCall(k) ==
  /\ "drop_call" \in Moves
  /\ call[k] # Idle
  /\ call' = [call EXCEPT ![k] = Idle]
  /\ UNCHANGED <<clockVars, nextId, storeVars, collectVars, loopVars, historyVars>>

Close ==
  /\ "close" \in Moves
  /\ closed' = TRUE
  /\ UNCHANGED <<now, nextId, storeVars, call, collectVars, loopVars, historyVars>>

Tick ==
  /\ now < MaxTime
  /\ now' = now + 1
  /\ UNCHANGED <<closed, nextId, storeVars, call, collectVars, loopVars, historyVars>>

-----------------------------------------------------------------------------
(* Subscriptions.                                                             *)

SubscribeBegin(c) ==
  /\ ~closed
  /\ pc[c] = "idle"
  /\ Goto(c, "subscribe")
  /\ UNCHANGED <<clockVars, nextId, storeVars, call, collectVars, take, batch, msg, acked,
                 draft, cancelled, active, woken, historyVars>>

(* or_insert_with: the start position counts only for a group that is new.    *)
CreateGroup(g, start) ==
  IF g \in groups
  THEN UNCHANGED <<groups, cursor, skipped>>
  ELSE LET k == StartCursor(SubjectOf[g], start)
       IN /\ groups' = groups \cup {g}
          /\ cursor' = [cursor EXCEPT ![g] = k]
          /\ skipped' = [skipped EXCEPT ![g] = IdsOf(SubSeq(messages[SubjectOf[g]], 1, k))]

SubscribeCommit(c, start) ==
  /\ pc[c] = "subscribe" /\ LockFree
  /\ streams' = streams \cup {SubjectFor(c)}
  /\ CreateGroup(GroupOf[c], start)
  /\ active' = [active EXCEPT ![c] = TRUE]
  /\ Goto(c, "top")
  /\ UNCHANGED <<clockVars, nextId, messages, idIndex, pending, redeliver, call, collectVars,
                 take, batch, msg, acked, draft, cancelled, woken, settled, stranded>>

Unsubscribe(c) ==
  /\ "unsubscribe" \in Moves
  /\ pc[c] \notin {"idle", "subscribe"}
  /\ cancelled' = [cancelled EXCEPT ![c] = TRUE]
  /\ active' = [active EXCEPT ![c] = FALSE]
  /\ UNCHANGED <<clockVars, nextId, storeVars, call, collectVars, pc, take, batch, msg,
                 acked, draft, woken, historyVars>>

-----------------------------------------------------------------------------
(* run_consumer_loop.                                                         *)

(* Where cancellation ends the loop: is_cancelled at its top, or cancelled()   *)
(* in the select.                                                             *)
StopAtTopOnly == {"top"}
StopPoints    == {"top", "wait"}

Stop(c) ==
  /\ pc[c] \in StopPoints
  /\ cancelled[c]
  /\ Goto(c, "stopped")
  /\ active' = [active EXCEPT ![c] = FALSE]
  /\ UNCHANGED <<clockVars, nextId, storeVars, call, collectVars, take, batch, msg, acked,
                 draft, cancelled, woken, historyVars>>

Register(c) ==
  /\ pc[c] = "top"
  /\ ~cancelled[c]
  /\ Goto(c, "collect")
  /\ woken' = [woken EXCEPT ![c] = FALSE]
  /\ UNCHANGED <<clockVars, nextId, storeVars, call, collectVars, take, batch, msg, acked,
                 draft, cancelled, active, historyVars>>

(* The other ways out of the select: notified, or 100 ms have passed.         *)
Notified(c) ==
  /\ pc[c] = "wait"
  /\ woken[c]
  /\ Goto(c, "top")
  /\ UNCHANGED <<clockVars, nextId, storeVars, call, collectVars, take, batch, msg, acked,
                 draft, cancelled, active, woken, historyVars>>

Timeout(c) ==
  /\ "timeout" \in Moves
  /\ pc[c] = "wait"
  /\ Goto(c, "top")
  /\ UNCHANGED <<clockVars, nextId, storeVars, call, collectVars, take, batch, msg, acked,
                 draft, cancelled, active, woken, historyVars>>

(* The next envelope of the batch goes to the handler.                        *)
NextMessage(c) ==
  /\ pc[c] = "next"
  /\ batch[c] # <<>> /\ ~cancelled[c]
  /\ msg' = [msg EXCEPT ![c] = Head(batch[c])]
  /\ batch' = [batch EXCEPT ![c] = Tail(@)]
  /\ acked' = [acked EXCEPT ![c] = FALSE]
  /\ Goto(c, "handle")
  /\ UNCHANGED <<clockVars, nextId, storeVars, call, collectVars, take, draft, cancelled,
                 active, woken, historyVars>>

(* The batch is done, or cancellation abandons what is left of it.            *)
EndBatch(c) ==
  /\ pc[c] = "next"
  /\ batch[c] = <<>> \/ cancelled[c]
  /\ stranded' = [stranded EXCEPT ![GroupOf[c]] = @ \cup IdsOf(batch[c])]
  /\ batch' = [batch EXCEPT ![c] = <<>>]
  /\ msg' = [msg EXCEPT ![c] = Blank]
  /\ acked' = [acked EXCEPT ![c] = FALSE]
  /\ Goto(c, "top")
  /\ UNCHANGED <<clockVars, nextId, storeVars, call, collectVars, take, draft, cancelled,
                 active, woken, settled, skipped>>

-----------------------------------------------------------------------------
(* collect_batch, under the lock from CollectBegin to CollectEnd: nobody else *)
(* touches the store in between.                                              *)

(* The backpressure test: how much a collection may take.                     *)
CapacityIgnoringPending(c) == MaxInflight[c]

CapacityForWholeBatch(c) ==
  IF Cardinality(pending[GroupOf[c]]) + BatchSize[c] > MaxInflight[c]
  THEN 0
  ELSE MaxInflight[c] - Cardinality(pending[GroupOf[c]])

Capacity(c) ==
  IF Cardinality(pending[GroupOf[c]]) >= MaxInflight[c]
  THEN 0
  ELSE MaxInflight[c] - Cardinality(pending[GroupOf[c]])

CollectBegin(c) ==
  /\ pc[c] = "collect" /\ LockFree
  /\ take' = [take EXCEPT ![c] = Minimum(BatchSize[c], Capacity(c))]
  /\ IF Capacity(c) = 0
     THEN /\ Goto(c, "collected")
          /\ UNCHANGED lock
     ELSE /\ Goto(c, "redeliver")
          /\ lock' = c
  /\ UNCHANGED <<clockVars, nextId, storeVars, call, scan, batch, msg, acked, draft,
                 cancelled, active, woken, historyVars>>

(* Phase 1: one nak'd id; an id whose message is gone is dropped.             *)
CollectRedelivery(c) ==
  LET g == GroupOf[c]
      id == Head(redeliver[g])
      i == idIndex[SubjectFor(c)][id]
  IN /\ pc[c] = "redeliver"
     /\ Len(batch[c]) < take[c] /\ redeliver[g] # <<>>
     /\ redeliver' = [redeliver EXCEPT ![g] = Tail(@)]
     /\ batch' = [batch EXCEPT ![c] =
                   IF i = 0 THEN @ ELSE Append(@, messages[SubjectFor(c)][i])]
     /\ UNCHANGED <<clockVars, nextId, streams, messages, idIndex, groups, cursor, pending,
                    call, collectVars, pc, take, msg, acked, draft, cancelled, active,
                    woken, historyVars>>

(* Phase 2 starts: the index range after the cursor that still fits.          *)
LastToScan(c) ==
  Minimum(cursor[GroupOf[c]] + take[c] - Len(batch[c]), Len(messages[SubjectFor(c)]))

CollectFresh(c) ==
  /\ pc[c] = "redeliver"
  /\ Len(batch[c]) >= take[c] \/ redeliver[GroupOf[c]] = <<>>
  /\ scan' = [next |-> cursor[GroupOf[c]] + 1,
              last |-> IF Len(batch[c]) < take[c] THEN LastToScan(c) ELSE 0]
  /\ Goto(c, "scan")
  /\ UNCHANGED <<clockVars, nextId, storeVars, call, lock, take, batch, msg, acked, draft,
                 cancelled, active, woken, historyVars>>

CollectNext(c) ==
  LET g == GroupOf[c]
      e == messages[SubjectFor(c)][scan.next]
  IN /\ pc[c] = "scan" /\ scan.next <= scan.last
     /\ scan' = [scan EXCEPT !.next = @ + 1]
     /\ IF e.id \in pending[g]
        THEN UNCHANGED <<pending, cursor, batch>>
        ELSE /\ pending' = [pending EXCEPT ![g] = @ \cup {e.id}]
             /\ cursor' = [cursor EXCEPT ![g] = scan.next]
             /\ batch' = [batch EXCEPT ![c] = Append(@, e)]
     /\ UNCHANGED <<clockVars, nextId, streams, messages, idIndex, groups, redeliver, call,
                    lock, pc, take, msg, acked, draft, cancelled, active, woken,
                    historyVars>>

CollectEnd(c) ==
  /\ pc[c] = "scan" /\ scan.next > scan.last
  /\ Goto(c, "collected")
  /\ lock' = NoConsumer
  /\ scan' = [next |-> 0, last |-> 0]
  /\ UNCHANGED <<clockVars, nextId, storeVars, call, take, batch, msg, acked, draft,
                 cancelled, active, woken, historyVars>>

(* Between the release of the lock and the select (or the batch), others run. *)
Collected(c) ==
  /\ pc[c] = "collected"
  /\ Goto(c, IF batch[c] = <<>> THEN "wait" ELSE "next")
  /\ UNCHANGED <<clockVars, nextId, storeVars, call, collectVars, take, batch, msg, acked,
                 draft, cancelled, active, woken, historyVars>>

-----------------------------------------------------------------------------
(* Handlers and the verdicts of a message: ack, nak and dead_letter set acked *)
(* first, then wait for the lock.  On an acked message they do nothing.       *)

AnyMessage(c) == TRUE
Unsettled(c)  == ~acked[c]

SettleBegin(c, verdict) ==
  /\ verdict \in Moves \cap {"ack", "nak", "dead_letter"}
  /\ pc[c] = "handle" /\ Unsettled(c)
  /\ acked' = [acked EXCEPT ![c] = TRUE]
  /\ IF verdict = "dead_letter"
     THEN /\ nextId <= MaxMsgs
          /\ nextId' = nextId + 1
          /\ draft' = [draft EXCEPT ![c] = Envelope(<<GroupOf[c], msg[c].id>>)]
     ELSE UNCHANGED <<nextId, draft>>
  /\ Goto(c, verdict)
  /\ UNCHANGED <<clockVars, storeVars, call, collectVars, take, batch, msg, cancelled, active,
                 woken, historyVars>>

(* pending.remove of the message in c's hand.                                 *)
Release(c) ==
  /\ pending' = [pending EXCEPT ![GroupOf[c]] = @ \ {msg[c].id}]
  /\ settled' = [settled EXCEPT ![GroupOf[c]] = @ \cup {msg[c].id}]

AckCommit(c) ==
  /\ pc[c] = "ack" /\ LockFree
  /\ Release(c)
  /\ Goto(c, "handle")
  /\ UNCHANGED <<clockVars, nextId, streams, messages, idIndex, groups, cursor, redeliver,
                 call, collectVars, take, batch, msg, acked, draft, cancelled, active,
                 woken, skipped, stranded>>

(* push_back on redeliver; the id stays in pending.                           *)
RequeueFirst(queue, id) == <<id>> \o queue
Requeue(queue, id)      == Append(queue, id)

NakCommit(c) ==
  /\ pc[c] \in {"nak", "auto_nak"} /\ LockFree
  /\ redeliver' = [redeliver EXCEPT ![GroupOf[c]] = Requeue(@, msg[c].id)]
  /\ Goto(c, IF pc[c] = "nak" THEN "handle" ELSE "next")
  /\ UNCHANGED <<clockVars, nextId, streams, messages, idIndex, groups, cursor, pending,
                 call, collectVars, take, batch, msg, acked, draft, cancelled, active,
                 woken, historyVars>>

DeadLetterCommit(c) ==
  /\ pc[c] = "dead_letter" /\ LockFree
  /\ AppendTo(DeadLetterOf[SubjectFor(c)], draft[c])
  /\ Release(c)
  /\ draft' = [draft EXCEPT ![c] = Blank]
  /\ Goto(c, "handle")
  /\ UNCHANGED <<clockVars, nextId, groups, cursor, redeliver, call, collectVars, take,
                 batch, msg, acked, cancelled, active, skipped, stranded>>

(* handle returns Ok: whatever the handler did not settle is never settled.   *)
ReturnOk(c) ==
  /\ pc[c] = "handle"
  /\ acked[c] \/ "ok" \in Moves
  /\ stranded' = [stranded EXCEPT ![GroupOf[c]] = @ \cup InHand(c)]
  /\ Goto(c, "next")
  /\ UNCHANGED <<clockVars, nextId, storeVars, call, collectVars, take, batch, msg, acked,
                 draft, cancelled, active, woken, settled, skipped>>

(* handle returns Err: auto-nak, which an acked message ignores.              *)
NakAnyway(c) == "auto_nak"
AfterErr(c)  == IF acked[c] THEN "next" ELSE "auto_nak"

ReturnErr(c) ==
  /\ "err" \in Moves
  /\ pc[c] = "handle"
  /\ acked' = [acked EXCEPT ![c] = TRUE]
  /\ Goto(c, AfterErr(c))
  /\ UNCHANGED <<clockVars, nextId, storeVars, call, collectVars, take, batch, msg, draft,
                 cancelled, active, woken, historyVars>>

(* The handler drops the future of a verdict that waits for the lock (a       *)
(* timeout around it, a select): acked stays set.                             *)
DropSettle(c) ==
  /\ "drop_settle" \in Moves
  /\ pc[c] \in {"ack", "nak", "dead_letter"}
  /\ stranded' = [stranded EXCEPT ![GroupOf[c]] = @ \cup InHand(c)]
  /\ draft' = [draft EXCEPT ![c] = Blank]
  /\ Goto(c, "handle")
  /\ UNCHANGED <<clockVars, nextId, storeVars, call, collectVars, take, batch, msg, acked,
                 cancelled, active, woken, settled, skipped>>

(* The handler panics and takes the loop's task with it; active is left as it was. *)
Panic(c) ==
  /\ "panic" \in Moves
  /\ pc[c] = "handle"
  /\ stranded' = [stranded EXCEPT ![GroupOf[c]] = @ \cup Held(c)]
  /\ batch' = [batch EXCEPT ![c] = <<>>]
  /\ Goto(c, "panicked")
  /\ UNCHANGED <<clockVars, nextId, storeVars, call, collectVars, take, msg, acked, draft,
                 cancelled, active, woken, settled, skipped>>

-----------------------------------------------------------------------------
CallStep(k) == PublishCommit(k) \/ EnsureStreamCommit(k) \/ TrimStreamCommit(k)

ClientStep(k) ==
  \/ \E s \in Subjects : PublishBegin(k, s) \/ EnsureStreamBegin(k, s)
  \/ \E s \in Subjects, maxAge \in 0..MaxTime : TrimStreamBegin(k, s, maxAge)
  \/ CallStep(k)
  \/ DropCall(k)

SubscriptionStep(c) ==
  \/ SubscribeBegin(c)
  \/ \E start \in Starts : SubscribeCommit(c, start)
  \/ Unsubscribe(c)

LoopStep(c) ==
  \/ Stop(c) \/ Register(c) \/ Notified(c) \/ Timeout(c) \/ NextMessage(c) \/ EndBatch(c)
  \/ CollectRedelivery(c) \/ CollectFresh(c) \/ CollectNext(c) \/ CollectEnd(c)
  \/ Collected(c)

LockStep(c) == CollectBegin(c) \/ AckCommit(c) \/ NakCommit(c) \/ DeadLetterCommit(c)

HandlerStep(c) ==
  \/ \E verdict \in {"ack", "nak", "dead_letter"} : SettleBegin(c, verdict)
  \/ ReturnOk(c) \/ ReturnErr(c)

FaultStep(c) == DropSettle(c) \/ Panic(c)

ConsumerStep(c) == SubscriptionStep(c) \/ LoopStep(c) \/ LockStep(c) \/ HandlerStep(c)
                   \/ FaultStep(c)

Next ==
  \/ \E k \in Callers : ClientStep(k)
  \/ \E c \in Consumers : ConsumerStep(c)
  \/ Close
  \/ Tick

Spec == Init /\ [][Next]_vars

(* The runtime polls every task that can run, tokio's Mutex is FIFO, so a task *)
(* that waits for the store gets it although others keep taking it, and a      *)
(* handler returns.  Clients owe nothing: they need not call, nor subscribe.   *)
Fairness ==
  /\ \A k \in Callers : SF_vars(CallStep(k))
  /\ \A c \in Consumers :
       /\ WF_vars(LoopStep(c))
       /\ SF_vars(LockStep(c))
       /\ WF_vars(HandlerStep(c))
       /\ SF_vars(\E start \in Starts : SubscribeCommit(c, start))

FairSpec == Spec /\ Fairness

-----------------------------------------------------------------------------
(* Properties. *)

\* Every variable has its type.
TypeOK ==
  /\ closed \in BOOLEAN /\ now \in Nat /\ nextId \in 1..MaxMsgs+1
  /\ streams \subseteq Subjects /\ groups \subseteq Groups
  /\ messages \in [Subjects -> Seq(Envelopes)]
  /\ idIndex \in [Subjects -> [Ids -> Nat]]
  /\ cursor \in [Groups -> Nat]
  /\ pending \in [Groups -> SUBSET Ids]
  /\ redeliver \in [Groups -> Seq(Ids)]
  /\ call \in [Callers -> Calls]
  /\ lock \in Consumers \cup {NoConsumer}
  /\ scan \in [next : Nat, last : Nat]
  /\ pc \in [Consumers -> PCs]
  /\ take \in [Consumers -> Nat]
  /\ batch \in [Consumers -> Seq(Envelopes)]
  /\ msg \in [Consumers -> Envelopes \cup {Blank}]
  /\ draft \in [Consumers -> Envelopes \cup {Blank}]
  /\ acked \in [Consumers -> BOOLEAN]
  /\ cancelled \in [Consumers -> BOOLEAN]
  /\ active \in [Consumers -> BOOLEAN]
  /\ woken \in [Consumers -> BOOLEAN]
  /\ settled \in [Groups -> SUBSET Ids]
  /\ skipped \in [Groups -> SUBSET Ids]
  /\ stranded \in [Groups -> SUBSET Ids]

\* id_index finds every message of a stream at its place and nothing else, however
\* publishes, dead letters and trims interleave: a stale entry would make the
\* redelivery of collect_batch hand out another message, or index out of bounds.
IndexAgrees ==
  \A s \in Subjects :
    /\ \A i \in 1..Len(messages[s]) : idIndex[s][messages[s][i].id] = i
    /\ \A id \in Ids : idIndex[s][id] # 0 =>
         /\ idIndex[s][id] <= Len(messages[s])
         /\ messages[s][idIndex[s][id]].id = id

\* A group's cursor splits its stream: what is at or before it was handed out (and
\* is pending, or was settled) or skipped when the group began; what is after it
\* never was.  So no message is lost and none is delivered afresh twice, through
\* trims that move every position.
CursorSplitsStream ==
  \A g \in groups : \A i \in 1..Len(messages[SubjectOf[g]]) :
    messages[SubjectOf[g]][i].id \in pending[g] \cup settled[g] \cup skipped[g]
      <=> i <= cursor[g]

\* max_inflight bounds what a group has pending: with several subscriptions in one
\* group, one of their limits does.
Backpressure ==
  \A g \in Groups :
    \/ pending[g] = {}
    \/ \E c \in Consumers : GroupOf[c] = g /\ Cardinality(pending[g]) <= MaxInflight[c]

\* Competing consumers: an id of a group is with one consumer, once, or in the
\* redelivery queue, once.
OneHolder ==
  \A c \in Consumers :
    /\ \A d \in Consumers \ {c} : GroupOf[c] = GroupOf[d] => Held(c) \cap Held(d) = {}
    /\ Held(c) \cap Range(redeliver[GroupOf[c]]) = {}
    /\ InHand(c) \cap IdsOf(batch[c]) = {}
    /\ \A i, j \in 1..Len(batch[c]) : i # j => batch[c][i].id # batch[c][j].id
    /\ \A i, j \in 1..Len(redeliver[GroupOf[c]]) :
         i # j => redeliver[GroupOf[c]][i] # redeliver[GroupOf[c]][j]

\* Once ack or dead_letter has taken effect, the group never sees the message
\* again: not pending, not queued for redelivery, in no batch and no handler.
SettledIsFinal ==
  \A g \in Groups :
    /\ settled[g] \cap (pending[g] \cup Range(redeliver[g])) = {}
    /\ \A c \in Consumers : GroupOf[c] = g => settled[g] \cap Held(c) = {}

Claimed(g) ==
  (UNION {Held(c) : c \in {d \in Consumers : GroupOf[d] = g}}) \cup Range(redeliver[g])

\* pending is exact: an id in it is with a consumer, queued for redelivery, or was let
\* go without a verdict (a batch cut short by unsubscribe, a handler that returned Ok
\* without one, a dropped verdict, a panic), and what is claimed counts as pending
\* until its message is trimmed.
PendingIsExact ==
  \A g \in Groups :
    /\ pending[g] \subseteq Claimed(g) \cup stranded[g]
    /\ Claimed(g) \cap IdsOf(messages[SubjectOf[g]]) \subseteq pending[g]

\* The race the comment in run_consumer_loop is about: a loop that found nothing and
\* was not notified since has nothing new to find (unless backpressure held it).
NoLostWakeup ==
  \A c \in Consumers :
    pc[c] = "wait" /\ ~woken[c] /\ take[c] > 0
      => cursor[GroupOf[c]] = Len(messages[SubjectFor(c)])

\* A group dead-letters a message once, and a dead letter on a stream is no longer
\* pending in the group it comes from: dead_letter does both under one lock.
DeadLetteredOnce ==
  \A s \in Subjects : \A i \in 1..Len(messages[s]) :
    LET o == messages[s][i].origin IN
    o # <<>> =>
      /\ o[2] \in settled[o[1]] /\ o[2] \notin pending[o[1]]
      /\ \A j \in 1..Len(messages[s]) : messages[s][j].origin = o => j = i

\* "Trim entries older than max_age from the stream": a trim that has run on a stream in
\* the order of its timestamps leaves nothing of its cutoff or before.  Publishers take
\* the timestamp before the lock and may break that order; then what is behind a younger
\* entry stays.  (Without drop_call in Moves, a trim that leaves call has run.)
TrimRemovesExpired ==
  [][\A k \in Callers :
       LET s == call[k].subject IN
       (/\ call[k].op = "trim_stream" /\ call'[k] = Idle
        /\ \A i, j \in 1..Len(messages[s]) :
             i < j => messages[s][i].timestamp <= messages[s][j].timestamp)
       => \A i \in 1..Len(messages'[s]) : messages'[s][i].timestamp > call[k].cutoff]_vars

(* The consumer-group queue this transport implements.                        *)
Queue == INSTANCE WorkQueue WITH
  Workers  <- Consumers,
  log      <- [s \in Subjects |-> [i \in 1..Len(messages[s]) |-> messages[s][i].id]],
  joined   <- groups,
  taken    <- [g \in Groups |->
                 {messages[SubjectOf[g]][i].id :
                    i \in 1..Minimum(cursor[g], Len(messages[SubjectOf[g]]))}],
  returned <- redeliver,
  held     <- [c \in Consumers |-> Held(c)],
  done     <- settled,
  lost     <- stranded

\* Loops, lock, cursors, index and trims implement the work queue: every step is a
\* step of it or changes nothing it sees.
ImplementsWorkQueue == Queue!QSpec

\* Everything a group has not passed is settled in the end, or nak'd by its handler, by
\* the notifications alone (the 100 ms timer is only a second line), unless the group
\* has no subscription left or one that was cancelled kept the message.
EventuallySettled ==
  \A g \in Groups, id \in Ids :
    (/\ g \in groups
     /\ \E i \in cursor[g]+1..Len(messages[SubjectOf[g]]) : messages[SubjectOf[g]][i].id = id)
      ~> (\/ id \in settled[g] \cup stranded[g] \cup Range(redeliver[g])
          \/ \A c \in Consumers : GroupOf[c] = g => cancelled[c] \/ pc[c] = "idle")

\* A nak'd message is taken off the redelivery queue in the end, as the comment
\* "redeliver nak'd messages first" in collect_batch says.  It is the loop that ran the
\* handler that finds it, for nak notifies nobody: a subscription that is cancelled
\* right after leaves the message to the timer of the others.
NakRedelivered ==
  \A g \in Groups, id \in Ids :
    (id \in Range(redeliver[g]))
      ~> (\/ id \notin Range(redeliver[g])
          \/ \E c \in Consumers : GroupOf[c] = g /\ cancelled[c])

\* unsubscribe ends the loop, wherever cancellation finds it, and is_active says so.
CancelStops ==
  \A c \in Consumers : cancelled[c] ~> (pc[c] = "stopped" /\ ~active[c])
=============================================================================
