---------------------------- MODULE RedisTransport ----------------------------
(***************************************************************************)
(* The transport of crates/nexus-redis: consumer loops on one consumer      *)
(* group of one Redis stream.  The server (the stream, the group's last     *)
(* delivered id, its pending entries list) is external: each command is one *)
(* atomic step of it.  A command may also fail: the server never saw it, or *)
(* it was executed and the reply was lost, and the caller cannot tell.      *)
(* What happens between commands is up to the other loops and the clients.  *)
(*                                                                         *)
(* Entries are numbered in the order of their XADDs, which is the order of  *)
(* their ids.  Who owns a pending entry is written by the server and read   *)
(* by nobody here, so the pending entries list is a set.                    *)
(***************************************************************************)
EXTENDS Integers, FiniteSets

CONSTANTS
  Consumers,      \* subscriptions, one consumer loop each
  Clients,        \* client tasks, each with at most one call in progress
  BatchSize,      \* consumer -> SubscribeOpts.batch_size
  MaxInflight,    \* consumer -> SubscribeOpts.max_inflight
  Start,          \* consumer -> the entry its start_from is the id of, or Latest
  Latest,         \* StartPosition::Latest
  LargestBatch,   \* no batch_size exceeds it
  MostInflight,   \* no max_inflight exceeds it
  Moves,          \* what clients, handlers and faults do in an instance
  Faults,         \* the commands that may fail in an instance
  MaxEntries,     \* bound: entries ever added to the stream
  MaxDeliveries   \* bound: times an entry is handed out

Entries  == 1..MaxEntries
Commands == {"XADD", "XGROUP", "XPENDING", "XAUTOCLAIM", "XREADGROUP", "XACK"}

ASSUME OptionsAssumption ==
  /\ BatchSize \in [Consumers -> Nat] /\ MaxInflight \in [Consumers -> Nat \ {0}]
  /\ Start \in [Consumers -> Nat \cup {Latest}] /\ Latest \notin Nat
  /\ LargestBatch \in Nat /\ MostInflight \in Nat \ {0}
  /\ \A c \in Consumers : BatchSize[c] <= LargestBatch /\ MaxInflight[c] <= MostInflight

ASSUME BoundsAssumption ==
  /\ IsFiniteSet(Consumers)
  /\ MaxEntries \in Nat /\ MaxDeliveries \in Nat \ {0}
  /\ Faults \subseteq Commands

VARIABLES
  closed,      \* RedisTransport.closed
  call,        \* per client: the call past its check of closed, or "none"
  log,         \* server: how many entries were added
  trimmed,     \* server: how many of the oldest entries were trimmed
  groups,      \* server: the consumer groups of the stream
  delivered,   \* server: last-delivered-id of the group
  pel,         \* server: the pending entries list of the group
  overdue,     \* server: the pending entries idle for ack_timeout or longer
  deliveries,  \* server: delivery count of each entry
  copies,      \* server: how often each entry is in the dead-letter stream
  pc,          \* per consumer: where its loop is
  back,        \* per consumer: where it goes on after the batch
  batch,       \* per consumer: the entries it was sent and has not handled yet
  entry,       \* per consumer: entry_id of the message its handler has, or 0
  acked,       \* per consumer: RedisMessage.acked of that message
  cancelled,   \* per consumer: its CancellationToken
  active,      \* per consumer: what is_active returns
  origin,      \* history: where the group was created to start
  asked,       \* history: the entries some handler's ack set out to acknowledge
  told         \* history: the entries some handler's ack has returned Ok for

serverVars  == <<log, trimmed, groups, delivered, pel, overdue, deliveries, copies>>
loopVars    == <<pc, back, batch, entry, acked, cancelled, active>>
historyVars == <<origin, asked, told>>

vars == <<closed, call, serverVars, loopVars, historyVars>>

Calls    == {"publish", "trim_stream", "ensure_stream"}
Finished == {"stopped", "dead"}
Verdicts == {"xack", "copy", "bury"}    \* inside ack, and the two halves of dead_letter
PCs      == {"new", "create", "top", "reclaim", "read", "next", "handle"} \cup Verdicts \cup Finished

-----------------------------------------------------------------------------
(* The server.                                                              *)

\* The n smallest of a set of entries.
First(n, S) == {e \in S : Cardinality({f \in S : f < e}) < n}
Least(S)    == CHOOSE e \in S : \A f \in S : e <= f
Greatest(S) == CHOOSE e \in S : \A f \in S : f <= e

Unread == {e \in Entries : e <= log /\ e > delivered /\ e > trimmed}

\* What XAUTOCLAIM finds: it drops the entries the stream no longer has.
Gone == {e \in pel : e <= trimmed}

AllPending == pel
Claimable  == overdue \cup Gone

\* How a command can end: whether it was executed, and whether the caller knows.
Outcomes(command) ==
  {"ok"} \cup (IF command \in Faults THEN {"unsent", "reply_lost"} ELSE {})
Executed(o) == o # "unsent"

StartId(c) == IF Start[c] = Latest THEN log ELSE Start[c]

\* A second XGROUP CREATE is refused with BUSYGROUP, which counts as success.
GroupCreated == "group" \in groups

\* Entries handed out.
Counted(S) == [e \in Entries |-> IF e \in S THEN deliveries[e] + 1 ELSE deliveries[e]]

-----------------------------------------------------------------------------
Init ==
  /\ closed = FALSE /\ call = [k \in Clients |-> "none"]
  /\ log = 0 /\ trimmed = 0 /\ groups = {} /\ delivered = 0
  /\ pel = {} /\ overdue = {}
  /\ deliveries = [e \in Entries |-> 0] /\ copies = [e \in Entries |-> 0]
  /\ pc = [c \in Consumers |-> "new"] /\ back = [c \in Consumers |-> "top"]
  /\ batch = [c \in Consumers |-> {}] /\ entry = [c \in Consumers |-> 0]
  /\ acked = [c \in Consumers |-> FALSE]
  /\ cancelled = [c \in Consumers |-> FALSE] /\ active = [c \in Consumers |-> FALSE]
  /\ origin = 0 /\ asked = {} /\ told = {}

Goto(c, at) == pc' = [pc EXCEPT ![c] = at]

\* Parts of the loop's state a step leaves alone.
SameBatch        == UNCHANGED <<back, batch, entry, acked>>
SameSubscription == UNCHANGED <<cancelled, active>>
SameClients      == UNCHANGED <<closed, call>>

-----------------------------------------------------------------------------
(* Clients of the transport.                                                *)

CallBegin(k, op) ==
  /\ op \in Moves /\ call[k] = "none" /\ ~closed
  /\ call' = [call EXCEPT ![k] = op]
  /\ UNCHANGED <<closed, serverVars, loopVars, historyVars>>

CallEnd(k, op) ==
  /\ call[k] = op
  /\ call' = [call EXCEPT ![k] = "none"]
  /\ UNCHANGED <<closed, delivered, pel, overdue, deliveries, copies, loopVars, historyVars>>

Publish(k) ==
  /\ CallEnd(k, "publish") /\ log < MaxEntries
  /\ \E o \in Outcomes("XADD") : log' = IF Executed(o) THEN log + 1 ELSE log
  /\ UNCHANGED <<trimmed, groups>>

\* MINID ~ removes any number of the entries older than the cutoff, oldest first;
\* which entries are that old is left open.
TrimStream(k) ==
  /\ CallEnd(k, "trim_stream")
  /\ trimmed' \in trimmed..log
  /\ UNCHANGED <<log, groups>>

EnsureStream(k) ==
  /\ CallEnd(k, "ensure_stream")
  /\ \E o \in Outcomes("XGROUP") :
       groups' = IF Executed(o) THEN groups \cup {"_init"} ELSE groups
  /\ UNCHANGED <<log, trimmed>>

Close ==
  /\ "close" \in Moves /\ ~closed
  /\ closed' = TRUE
  /\ UNCHANGED <<call, serverVars, loopVars, historyVars>>

\* subscribe spawns the loop and returns.
Subscribe(c) ==
  /\ pc[c] = "new" /\ ~closed
  /\ Goto(c, "create")
  /\ active' = [active EXCEPT ![c] = TRUE]
  /\ SameBatch /\ SameClients /\ UNCHANGED <<cancelled, serverVars, historyVars>>

Unsubscribe(c) ==
  /\ "unsubscribe" \in Moves /\ pc[c] # "new"
  /\ cancelled' = [cancelled EXCEPT ![c] = TRUE]
  /\ active' = [active EXCEPT ![c] = FALSE]
  /\ SameBatch /\ SameClients /\ UNCHANGED <<pc, serverVars, historyVars>>

-----------------------------------------------------------------------------
(* run_consumer_loop.                                                       *)

\* What the loop does on its way out.
Exit(c) ==
  /\ Goto(c, "stopped")
  /\ active' = [active EXCEPT ![c] = FALSE]
  /\ UNCHANGED cancelled

\* The group could not be created: the loop ends before it began.
LeaveActive(c) == Goto(c, "stopped") /\ SameSubscription
GiveUp(c)      == Exit(c)

CreateGroup(c) ==
  /\ pc[c] = "create"
  /\ \E o \in Outcomes("XGROUP") :
       /\ IF Executed(o) /\ ~GroupCreated
          THEN /\ groups' = groups \cup {"group"}
               /\ delivered' = StartId(c) /\ origin' = StartId(c)
          ELSE UNCHANGED <<groups, delivered, origin>>
       /\ IF o = "ok" THEN Goto(c, "top") /\ SameSubscription ELSE GiveUp(c)
  /\ SameBatch /\ SameClients
  /\ UNCHANGED <<log, trimmed, pel, overdue, deliveries, copies, asked, told>>

\* The loop looks at its token between batches and nowhere else.
LooksOnce(c) == pc[c] = "create"
Looks(c)     == pc[c] = "top"

Stop(c) ==
  /\ Looks(c) /\ cancelled[c]
  /\ Exit(c)
  /\ SameBatch /\ SameClients /\ UNCHANGED <<serverVars, historyVars>>

\* Backpressure: sleep 100 ms and look again.
OverLimit(c) == Cardinality(pel) > MaxInflight[c]
NoRoom(c)    == Cardinality(pel) + BatchSize[c] > MaxInflight[c]
Congested(c) == Cardinality(pel) >= MaxInflight[c]

\* A count that cannot be had is no reason to wait.
CheckPending(c) ==
  /\ pc[c] = "top" /\ ~(Looks(c) /\ cancelled[c])
  /\ \E o \in Outcomes("XPENDING") : o = "ok" => ~Congested(c)
  /\ Goto(c, "reclaim")
  /\ SameBatch /\ SameSubscription /\ SameClients /\ UNCHANGED <<serverVars, historyVars>>

\* Less than half of ack_timeout has passed since the last reclaim.
SkipReclaim(c) ==
  /\ pc[c] = "reclaim"
  /\ Goto(c, "read")
  /\ SameBatch /\ SameSubscription /\ SameClients /\ UNCHANGED <<serverVars, historyVars>>

\* The entries a command sent, and where the loop goes on after them.
Handed(c, S, then) ==
  /\ batch' = [batch EXCEPT ![c] = S]
  /\ back' = [back EXCEPT ![c] = then]
  /\ Goto(c, "next")
  /\ SameSubscription /\ SameClients
  /\ UNCHANGED <<entry, acked, log, trimmed, groups, copies, historyVars>>

\* process_reclaimed: XAUTOCLAIM from the start of the pending entries list.
Reclaim(c) ==
  /\ pc[c] = "reclaim"
  /\ \E o \in Outcomes("XAUTOCLAIM") :
       LET found   == IF Executed(o) THEN First(BatchSize[c], Claimable) ELSE {}
           claimed == found \ Gone
       IN /\ pel' = pel \ (found \cap Gone)
          /\ overdue' = overdue \ found
          /\ deliveries' = Counted(claimed)
          /\ Handed(c, IF o = "ok" THEN claimed ELSE {}, "read")
  /\ UNCHANGED delivered

\* XREADGROUP with ">"; when nothing comes within BLOCK, or on an error, the batch is
\* empty.
ReadGroup(c) ==
  /\ pc[c] = "read"
  /\ \E o \in Outcomes("XREADGROUP") :
       LET found == IF Executed(o) THEN First(BatchSize[c], Unread) ELSE {}
       IN /\ delivered' = IF found = {} THEN delivered ELSE Greatest(found)
          /\ pel' = pel \cup found
          /\ deliveries' = Counted(found)
          /\ Handed(c, IF o = "ok" THEN found ELSE {}, "top")
  /\ UNCHANGED overdue

NextEntry(c) ==
  /\ pc[c] = "next" /\ batch[c] # {}
  /\ entry' = [entry EXCEPT ![c] = Least(batch[c])]
  /\ batch' = [batch EXCEPT ![c] = @ \ {Least(batch[c])}]
  /\ Goto(c, "handle")
  /\ SameSubscription /\ SameClients /\ UNCHANGED <<back, acked, serverVars, historyVars>>

EndBatch(c) ==
  /\ pc[c] = "next" /\ batch[c] = {}
  /\ Goto(c, back[c])
  /\ back' = [back EXCEPT ![c] = "top"]
  /\ UNCHANGED <<batch, entry, acked>>
  /\ SameSubscription /\ SameClients /\ UNCHANGED <<serverVars, historyVars>>

-----------------------------------------------------------------------------
(* A handler and its RedisMessage.  A verdict whose future is dropped ends    *)
(* like one whose command fails.                                             *)

Settle(c, verb, at) ==
  /\ verb \in Moves /\ pc[c] = "handle"
  /\ Goto(c, at)
  /\ UNCHANGED <<back, batch, entry>>
  /\ SameSubscription /\ SameClients /\ UNCHANGED <<serverVars, origin>>

\* The swap of acked lets the first verdict through.
AnyVerdict(c)   == TRUE
FirstVerdict(c) == ~acked[c]

SetAcked(c) == acked' = [acked EXCEPT ![c] = TRUE]

Ack(c) ==
  /\ Settle(c, "ack", "xack")
  /\ FirstVerdict(c) /\ SetAcked(c)
  /\ asked' = asked \cup {entry[c]}
  /\ UNCHANGED told

\* "already acked"
AckAgain(c) ==
  /\ Settle(c, "ack", "handle")
  /\ ~FirstVerdict(c)
  /\ told' = told \cup {entry[c]}
  /\ UNCHANGED <<acked, asked>>

Nak(c) ==
  /\ Settle(c, "nak", "handle")
  /\ SetAcked(c)
  /\ UNCHANGED <<asked, told>>

DeadLetter(c) ==
  /\ Settle(c, "dead_letter", "copy")
  /\ FirstVerdict(c) /\ SetAcked(c)
  /\ UNCHANGED <<asked, told>>

\* The XADD of dead_letter; an error is returned before the XACK.
BuryAnyway(o) == "bury"
AfterCopy(o)  == IF o = "ok" THEN "bury" ELSE "handle"

CopyEntry(c) ==
  /\ pc[c] = "copy"
  /\ \E o \in Outcomes("XADD") :
       /\ copies' = IF Executed(o) THEN [copies EXCEPT ![entry[c]] = @ + 1] ELSE copies
       /\ Goto(c, AfterCopy(o))
  /\ SameBatch /\ SameSubscription /\ SameClients
  /\ UNCHANGED <<log, trimmed, groups, delivered, pel, overdue, deliveries, historyVars>>

\* The XACK of ack and of dead_letter.  It succeeds whoever owns the entry, and on an
\* entry that is no longer pending.
Acknowledge(c) ==
  /\ pc[c] \in {"xack", "bury"}
  /\ \E o \in Outcomes("XACK") :
       /\ IF Executed(o)
          THEN pel' = pel \ {entry[c]} /\ overdue' = overdue \ {entry[c]}
          ELSE UNCHANGED <<pel, overdue>>
       /\ told' = IF o = "ok" /\ pc[c] = "xack" THEN told \cup {entry[c]} ELSE told
  /\ Goto(c, "handle")
  /\ SameBatch /\ SameSubscription /\ SameClients
  /\ UNCHANGED <<log, trimmed, groups, delivered, deliveries, copies, origin, asked>>

\* A message is dropped with its acked flag; the next one starts with FALSE.
DropMessage(c) == entry' = [entry EXCEPT ![c] = 0] /\ acked' = [acked EXCEPT ![c] = FALSE]

\* What the handler returns makes no difference.
HandlerReturns(c) ==
  /\ pc[c] = "handle"
  /\ DropMessage(c)
  /\ Goto(c, "next")
  /\ UNCHANGED <<back, batch>>
  /\ SameSubscription /\ SameClients /\ UNCHANGED <<serverVars, historyVars>>

-----------------------------------------------------------------------------
(* Time and faults.                                                          *)

\* ack_timeout runs from the last delivery of an entry, also while it waits in a batch
\* or in a handler.
AckTimeout(e) ==
  /\ "timeout" \in Moves
  /\ e \in pel \ overdue /\ deliveries[e] < MaxDeliveries
  /\ overdue' = overdue \cup {e}
  /\ SameClients
  /\ UNCHANGED <<log, trimmed, groups, delivered, pel, deliveries, copies, loopVars, historyVars>>

\* The process crashes or the handler panics: nothing is cleaned up.
Die(c) ==
  /\ "die" \in Moves /\ pc[c] \notin Finished \cup {"new"}
  /\ Goto(c, "dead")
  /\ DropMessage(c) /\ batch' = [batch EXCEPT ![c] = {}]
  /\ back' = [back EXCEPT ![c] = "top"]
  /\ SameSubscription /\ SameClients /\ UNCHANGED <<serverVars, historyVars>>

Work(c) ==
  \/ CreateGroup(c) \/ Stop(c) \/ CheckPending(c) \/ SkipReclaim(c) \/ Reclaim(c)
  \/ ReadGroup(c) \/ NextEntry(c) \/ EndBatch(c)
  \/ CopyEntry(c) \/ Acknowledge(c) \/ HandlerReturns(c)

Next ==
  \/ \E k \in Clients :
       \/ \E op \in Calls : CallBegin(k, op)
       \/ Publish(k) \/ TrimStream(k) \/ EnsureStream(k)
  \/ Close
  \/ \E c \in Consumers :
       \/ Subscribe(c) \/ Unsubscribe(c) \/ Work(c) \/ Die(c)
       \/ Ack(c) \/ AckAgain(c) \/ Nak(c) \/ DeadLetter(c)
  \/ \E e \in Entries : AckTimeout(e)

Spec == Init /\ [][Next]_vars

\* The runtime polls every loop, commands are answered and handlers return; the
\* interval of the reclaim passes again and again, also for a loop that is often at
\* this point without it having passed.
FairSpec == Spec /\ \A c \in Consumers : WF_vars(Work(c)) /\ SF_vars(Reclaim(c))

-----------------------------------------------------------------------------
(* Properties.                                                               *)

InHand(c)  == batch[c] \cup ({entry[c]} \ {0})
Running(c) == pc[c] \notin Finished \cup {"new"} /\ ~cancelled[c]

\* Every variable has its type, a handler has an entry the group has been sent, and a
\* loop that ended in order says so.
TypeOK ==
  /\ closed \in BOOLEAN /\ call \in [Clients -> Calls \cup {"none"}]
  /\ log \in 0..MaxEntries /\ trimmed \in 0..log
  /\ groups \subseteq {"group", "_init"} /\ delivered \in Nat /\ origin \in Nat
  /\ pel \subseteq 1..log /\ overdue \subseteq pel
  /\ deliveries \in [Entries -> 0..MaxDeliveries] /\ copies \in [Entries -> Nat]
  /\ pc \in [Consumers -> PCs] /\ back \in [Consumers -> {"read", "top"}]
  /\ batch \in [Consumers -> SUBSET Entries] /\ entry \in [Consumers -> Entries \cup {0}]
  /\ acked \in [Consumers -> BOOLEAN]
  /\ cancelled \in [Consumers -> BOOLEAN] /\ active \in [Consumers -> BOOLEAN]
  /\ asked \subseteq 1..log /\ told \subseteq 1..log
  /\ \A c \in Consumers :
       /\ InHand(c) \subseteq {e \in 1..log : e <= delivered}
       /\ entry[c] # 0 <=> pc[c] \in Verdicts \cup {"handle"}
       /\ batch[c] # {} => pc[c] \in Verdicts \cup {"next", "handle"}
       /\ pc[c] = "stopped" => ~active[c]

\* An entry the group has passed is pending, unless a handler set out to acknowledge
\* it, it is in the dead-letter stream, or a trim took it: no failed command, crash or
\* reclaim makes the group lose one.
NothingLost ==
  \A e \in 1..log :
    origin < e /\ e <= delivered => e \in pel \cup asked \/ copies[e] > 0 \/ e <= trimmed

\* The backpressure test is passed before a batch is read, so every loop may read one
\* batch more than the limit leaves; max_inflight is exceeded by that and no more.
InflightBound ==
  Cardinality(pel) <= MostInflight - 1 + LargestBatch * Cardinality(Consumers)

\* A message handed out is dead-lettered once at most, whatever its handler calls: a
\* second copy takes a second delivery.
CopiesPerDelivery == \A e \in Entries : copies[e] <= deliveries[e]

\* message.rs on an ack that finds acked set: "already acked".
AckIsAcked == told \cap pel = {}

\* "Message stays in PEL and will be reclaimed after ack_timeout via XAUTOCLAIM in the
\* consumer loop": an entry whose ack_timeout has passed is claimed or settled, while a
\* loop is running.
OverdueReclaimed ==
  \A c \in Consumers, e \in Entries :
    e \in overdue /\ Running(c) ~> e \notin overdue \/ ~Running(c)

\* unsubscribe ends the loop, after the batch it is in.
CancelStops == \A c \in Consumers : cancelled[c] ~> pc[c] \in Finished

\* The transport implements a queue with leases.
Queue == INSTANCE LeasedQueue WITH
  Workers <- Consumers, Ids <- Entries,
  published <- log, expired <- trimmed, joined <- GroupCreated, passed <- delivered,
  open <- pel, overdue <- overdue, held <- [c \in Consumers |-> InHand(c)]

\* Every step, failed commands and crashes included, is a step of the leased queue.
ImplementsLeasedQueue == Queue!QSpec

=============================================================================
