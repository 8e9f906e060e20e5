# A verification development for gbe-nexus

gbe-nexus is a Rust workspace: a message transport with consumer groups (a trait, an
in-process implementation and one on Redis Streams), a key-value state store (a trait and
an implementation on Redis), and the domain types of a job system. This directory models
it in TLA+, checks the models with TLC and proves theorems about them with TLAPS.

## The system

| Component | State | Operations | Hard behaviour |
| --- | --- | --- | --- |
| `crates/nexus` traits | none | `publish`, `subscribe`, `ensure_stream`, `trim_stream`, `close`; `ack`, `nak`, `dead_letter`; `unsubscribe` | what a consumer group promises |
| `crates/nexus-memory` | per stream: messages, `id_index`, `notify`; per group: `cursor`, `pending`, `redeliver`; per subscription: token, `active`; per message: `acked`; `closed` | the same, and one `run_consumer_loop` task per subscription | calls check before they lock; loops compete; trims move every position; naks and backpressure; cancellation, dropped futures, panics |
| `crates/nexus-redis` | in the Redis server: streams, groups, pending entries; here: `acked`, `closed`, tokens | the same, each one or two Redis commands | lost replies, reclaim of slow work, two-command verdicts |
| `crates/state-store`, `crates/state-store-redis` | in the Redis server: hashes with expiry | `get`, `put`, `delete`, field operations, `compare_and_swap`, `scan` | `put` is two commands; a lost CAS reply; `scan` against writers |
| `crates/jobs-domain` definitions | none | `validate`, `topological_order`, `roots` | a sort that starts from HashMap order, unsigned counts |
| `crates/jobs-domain` states | none | `transition_to` of `JobState`, `TaskState` | races between worker, watcher and driver |
| `crates/nexus` emitter, envelopes; `crates/jobs-domain` ids, subjects, keys, payloads | none | constructors and formatting | dedup ids of one millisecond collide |
| sweeper, archiver, watcher, driver | outside this repository | | |

Components talk by calls. In the memory transport everything a publisher and a consumer
share is behind one tokio `Mutex`; a `Notify` per stream wakes loops that found nothing; a
cancellation token and an `AtomicBool` join a subscription to its loop. Handlers are
callbacks of the loop and settle a message through the `Message` they are handed.

What makes each correct:

- memory transport: the index agrees with the messages; a cursor splits the stream into
  what was handed out and what was not, through trims; one holder per message; a settled
  message stays settled; pending is exact; `max_inflight` bounds it; no wakeup is lost; a
  dead letter is written once and with the removal from pending; everything is settled in
  the end; nak'd messages come back; `unsubscribe` ends the loop.
- job definitions: `validate` accepts exactly the good definitions; the order puts every
  task after its dependencies; no count underflows.
- Redis transport: whatever command fails and whoever dies, an entry the group has passed
  is pending until a handler acknowledged or dead-lettered it; an entry goes to a second
  loop only when its `ack_timeout` has passed; `max_inflight` is exceeded by a batch per
  loop at most; one dead-letter copy per delivery; overdue entries are claimed.
- state store: a record that never expires is one that some write gave no expiry; a record
  with an expiry keeps it; one that is gone comes back only by a write of its own fields, never
  by a swap prepared before or by a late `EXPIRE`; a scan finds every record that matches all the time it runs, and
  of a job's index only that job's tasks; `max_results` is kept.
- task and job states: over all clients, retries and crashes, a record follows its state
  machine; at most one client is told that it claimed a task.
- event emitter: an event that was retried is handled once; one is skipped only for another
  of the same name, which takes the same millisecond.

## Modules

| Module | What it is |
| --- | --- |
| `MemoryTransport` | `crates/nexus-memory`: calls, consumer loops, `collect_batch`, verdicts |
| `WorkQueue` | a queue with consumer groups; `MemoryTransport` implements it |
| `RedisTransport` | `crates/nexus-redis`: calls, consumer loops, reclaim, verdicts, failing commands |
| `LeasedQueue` | a queue with consumer groups and ack timeouts; `RedisTransport` implements it |
| `JobDefinition` | `JobDefinition::validate` and `topological_order` |
| `DomainNames` | job ids and state store keys (`ids.rs`, `keys.rs`) |
| `RedisStateStore` | `crates/state-store-redis`: calls, failing commands, expiry, scans |
| `JobIndex` | the index of a job's tasks in the store: `RedisStateStore` with keys of `DomainNames` |
| `TaskLifecycle` | `TaskState` and `JobState` moved through the store by clients |
| `TaskMachine` | the state machine of an item; `TaskLifecycle` implements it |
| `EventEmitter` | `EventEmitter`, `dedup_id`, `DomainPayload` |
| `MC...` modules | subscriptions, options, definitions, keys and emitters, for TLC |
| `MemoryTransport_proofs`, `RedisTransport_proofs`, `JobDefinition_proofs`, `RedisStateStore_proofs`, `JobIndex_proofs`, `TaskLifecycle_proofs`, `EventEmitter_proofs` | theorems about the module each is named for, and their proofs |
| `MemoryQueue_proofs` | theorems about the consumer groups of `MemoryTransport`, and that it implements `WorkQueue` |

### MemoryTransport

One action per call, loop step or verdict. tokio's mutex makes what runs under the lock
atomic, so a call is two actions: what it does before it has the lock (`...Begin`: check
`closed`, take the clock and a fresh ULID, set `acked`) and what it does under the lock
(`...Commit`). Between them anything may happen, which is where the races of this code are.
`collect_batch` is finer: `CollectBegin` takes the lock, `CollectRedelivery` and
`CollectNext` visit one id each, `CollectEnd` gives the lock back, and `Collected` is the
moment between that and the `select!`, where a publish must still wake the loop.

| Model | Code |
| --- | --- |
| `messages`, `idIndex`, `streams` | `StreamData.messages`, `.id_index`, keys of `StreamStore.streams` |
| `cursor` (0 is `None`, else index + 1), `pending`, `redeliver` | `ConsumerGroup` |
| `call[k]` | locals of a client's call that waits for the lock |
| `lock`, `scan` | who is inside `collect_batch`, and its `for i in start_idx..end_idx` |
| `pc[c]`, `take`, `batch`, `msg` | where the loop of subscription `c` is, and its locals |
| `acked`, `draft` | `MemoryMessage.acked`; the dead-letter envelope made before the lock |
| `woken`, `cancelled`, `active` | the `Notified` future, the token, the flag |
| `settled`, `skipped`, `stranded` | history only: what was settled, what a start position passed over, what was let go of without a verdict |

A group of the model is a (subject, name) pair of the code. Times are small integers:
`Tick` is the clock. `Moves` says what clients, handlers and faults may do in an instance,
so that each run spends its states on one question. `DropCall`, `DropSettle` and `Panic`
are environment: a client or handler future dropped at an await, a handler that panics.

Not modelled: payloads and their size limit (a refused call changes nothing), `ping`,
`StreamConfig` (stored, never read), `PublishOpts`, the delay of `nak` (ignored by the
code). A panic leaves `active` true: `Panic` leaves it alone, and no property says that
`is_active` implies a live loop, because the code does not keep it.

### WorkQueue

Logs of ids; a group passes over a log (`taken`), workers hold ids, settle them, return
them or lose them. No lock, cursor, index or pending set. `MemoryTransport!Queue` is the
refinement mapping: `taken` is what the cursor has passed, `held` is the batch and the
message in the handler, until its verdict has taken effect, and `returned` is `redeliver`.

### RedisTransport

Consumer loops on one consumer group of one stream. The server is external: `log`,
`trimmed`, `delivered`, `pel`, `overdue` and `deliveries` are its state, and each command
is one atomic step of it. Everything may happen between two commands of a loop, which is
where the races are: the pending count is read in `CheckPending` and the batch in
`ReadGroup`, `dead_letter` is `CopyEntry` and then `Acknowledge`.

A command named in `Faults` ends in one of three ways (`Outcomes`): `ok`, `unsent` (the
server never saw it) or `reply_lost` (it was executed, the caller gets an error). The code
cannot tell the last two apart, and the actions follow its error paths: a loop that cannot
create the group ends, one that cannot count goes on, one that cannot read has an empty
batch, `dead_letter` stops after a failed `XADD`.

| Model | Code |
| --- | --- |
| `call[k]` | a client's call after `check_closed`, before its command |
| `pc[c]`, `batch`, `entry`, `back` | where `run_consumer_loop` is, and which of its two `process_...` calls it is in |
| `acked` | `RedisMessage.acked` |
| `cancelled`, `active`, `closed` | the token, the flag, `RedisTransport.closed` |
| `groups` | the group of the loops, and `_init`, which `ensure_stream` creates |
| `origin`, `asked`, `told` | history only: where the group began, what `ack` set out to acknowledge, what it returned `Ok` for |

Entries are numbered in the order of their `XADD`, which is the order of Redis ids. `pel`
is a set: the server keeps an owner per entry, and no command of this code depends on it
(`XACK` does not, `XAUTOCLAIM` only on the idle time, `XREADGROUP >` on nothing pending).
`AckTimeout` makes an entry overdue at any time after its delivery, so every ratio of
`ack_timeout` to handler time is covered; all loops share that timeout. `SkipReclaim`
stands for `ack_timeout / 2` not having passed. `TrimStream` removes any prefix, since
`MINID ~` is approximate. `XAUTOCLAIM` clears trimmed entries, as Redis 7 does; its limit
of ten times `COUNT` entries looked at is not modelled. `Die` is a crash or a panic.

Not modelled: connecting, `ping`, key formatting, envelopes that do not parse (both loops
skip them), which request on the shared connection waits for which (any command may be
slow), the delay of `nak` (ignored by the code). `OptionsAssumption` leaves out a `max_inflight`
of 0, with which a loop reads only when `XPENDING` fails.

### LeasedQueue

Ids taken in order, none left out; an id is open until somebody who was given it finishes
it or it expires; an open id goes to another worker only when it is overdue, and a worker
may be given ids it never learns of. It says nothing of commands, replies, loops or flags.
In contrast to `WorkQueue`, several workers may hold one id.

### JobDefinition

Small steps of Kahn's algorithm: `Check` (all the checks, in the code's order of errors),
`Seed` (the queue of the roots in any order, since a HashMap gives it), `TakeNode`, one
`VisitTask` per turn of the inner loop, `EndValidate`, and for `topological_order` the
same sort again (`StartSort`, `EndSort`). `Definitions` is any set of definitions.

### RedisStateStore, DomainNames and JobIndex

A record is a function from fields to values; the server is external and each command is one
step of it, with the outcomes of `RedisTransport` (`ok`, `unsent`, `reply_lost`) for those in
`Faults`. `call[k]` is the call of client `k` past `check_closed`; a call on a closed store
is refused and changes nothing. `Drop` ends a call anywhere, as a crash or a dropped future.

- `put` is `Put` (`HSET`, which merges and keeps the time to live) and then `Expire`. The
  ttl is `none`, `seconds` or `subsecond`: `as_secs` of the last is 0 and `EXPIRE 0` deletes.
- `scan` is `ScanPage` (one `SCAN`), a `ReadKey` per key of the page, and `EndPage`. What
  `SCAN` returns is open as far as Redis leaves it open: any keys, any of them again, and the
  last page only when everything that was there from the start has been returned. A page is a
  set: a key `SCAN` gives again comes in a later page, never twice in one.
- The CAS script is one step; a field that is not there equals nothing.
- History: `steady` (what a scan must find), `present` (what its pages must have returned),
  `unlimited` (the keys some write gave no expiry).

Texts are sequences of pieces, so that prefixes and dots mean what they mean in the code.
`Stored` is what earlier runs may have left in the server. Prefixes are compared as they are:
`SCAN MATCH` would read `*`, `?`, `[` or a backslash in one as a pattern, and no id that `ids.rs`
accepts has them. Not modelled: `connect`, `ping`, the types of values, the length of ids,
what subjects and payloads look like.

### TaskLifecycle and TaskMachine

The transition tables of `state.rs` are the code; who uses them is not in this repository.
Drivers, workers, watchers and sweepers are clients that put an item once (`Submit`), read a
state (`Look`) or scan for one (`LookFor`), ask `transition_to` whether what they have seen
may become something else and `compare_and_swap` it (`Move`), repeat a swap that failed
(`Retry`), write `current_step` (`Progress`) and delete what they saw ended (`Sweep`). What
they have seen is in `answer[k]` and may be as old as they like. `TaskMachine` says it
without clients or store: a ladder per kind of item, one rung at a time, two outcomes,
cancelling on the way, tasks back to pending, and nothing after an end or a deletion.

### EventEmitter

`Occur` names an event with `dedup_id`, `Emit` makes the payload, `Answer` publishes it or
not; a caller that got an error emits again under the same name, or gives up. The transport
is any that may deliver what was published at any time, in any order, any number of times,
which is weaker than both transports of this repository. Handlers skip a name they have seen:
the field is documented as a dedup key, and whoever uses it is outside the repository.
Not modelled: trace ids, schema versions, serialization.

## Runs

| Run | Shows | Bounds |
| --- | --- | --- |
| `competing` | `OneHolder`, `Backpressure`, `NoLostWakeup`, `ImplementsWorkQueue` | two subscriptions of one group, limits 1 and 2, three messages |
| `trimming` | `TypeOK`, `IndexAgrees`, `CursorSplitsStream`, `SettledIsFinal`, `PendingIsExact`, `DeadLetteredOnce`, `ImplementsWorkQueue`, `TrimRemovesExpired` | one subscription with any start position, three envelopes on a work and a dead-letter subject, two clock values |
| `wakeups` | `PendingIsExact`, `ImplementsWorkQueue`, `EventuallySettled`, `NakRedelivered`, `CancelStops` | two subscriptions, two messages, under fairness and without the timer |
| `redis_faults` | `TypeOK`, `NothingLost`, `ImplementsLeasedQueue` | two loops, two entries, two deliveries each, batches of two, every command may fail |
| `redis_inflight` | `InflightBound`, `CopiesPerDelivery` | two loops, three entries, two deliveries each, limit and batch 1 |
| `redis_reclaim` | `OverdueReclaimed`, `CancelStops` | two loops, two entries, a limit above them, under fairness |
| `redis_starvation` | `OverdueReclaimed` is violated | `max_inflight` 1 |
| `redis_lost_ack` | `AckIsAcked` is violated | one entry, failing `XACK` |
| `definitions` | `TypeOK`, `ValidateIsExact`, `DependenciesFirst`, `OrderIsComplete` | up to three tasks with two dependencies each, and all graphs on four tasks |
| `records` | `ScanMissesNone`, `ScanWithinMax`, `PermanentByWrite`, `ExpiryIsForGood`, `GoneUntilWritten`, `JobScanFindsItsTasks` | two clients, three calls in all on four index keys of two jobs, three keys read per scan, three initial contents of the store; `HSET`, `EXPIRE` and the script may fail |
| `task_states` | `OneClaimant`, `ImplementsTaskMachine` | two clients, one item (a job or a task), no bound on their calls; `HSET` and the script may fail |
| `emitting` | `HandledOnce`, `SkippedForTwin`, `AcceptedIsLogged` | three emitters, two events, three payloads, two clock values |

Why the bounds are enough: three messages give a trim that leaves something before and
after a cursor; two subscriptions give every race for a message and for the lock; two
clock values tell old from young; a batch of two has a message in the handler and one
behind it. In Redis, two deliveries give a late verdict on an entry somebody else has by
now, and three entries are the least with which two loops can exceed the bound of
`InflightBound`. Three calls give a scan and two writers that come between its pages and
reads, or a `put` cut in two by a delete and another `put`, or a swap or a field write that comes after
a delete; one key is enough for the state
machines, since no command touches two. Two emitters whose identities read the same once
joined, and one whose does not, give every way two names can be equal. Four tasks are the least for a diamond, and every small definition, good
or bad, is tried. The loops of `redis_faults` and `redis_inflight` have equal options, so
they are interchangeable (symmetry), and so are the clients of the store; no liveness is checked there. Deadlock is not
checked: every system here may stop (closed, cancelled, bounds reached, a call that
returned).

## Fairness

`FairSpec` of `MemoryTransport`: weak fairness of a loop's own steps and of handlers
(tokio polls every runnable task, and a handler returns), strong fairness of the steps that
need the store lock (tokio's `Mutex` is FIFO: a waiter gets it although others keep taking
it). Clients and clocks owe nothing, faults have no fairness, and the 100 ms timer has none
in `wakeups`, where it is left out to show that notifications suffice.

`FairSpec` of `RedisTransport`: weak fairness of a loop's own steps (tokio polls it, the
server answers, handlers return), which do not include the verdicts a handler may or may
not give, and strong fairness of `Reclaim`: a loop that is at this point again and again
reclaims now and then, because time passes and `ack_timeout / 2` with it. Clients, faults
and timeouts owe nothing.

## Disagreements with the docs

Two of these are runs that expect a violation; the others are stated exactly by a property
that holds, or are visible in a definition.

- A nak'd message stays in `pending`, and the backpressure test comes before redelivery. Once
  `max_inflight` messages are nak'd the group stands still (`consumer.rs:96` against the
  comment at `consumer.rs:105`). `NakRedelivered` is checked with room in `max_inflight`.
- Timestamps are taken before the lock, so the stream need not be in timestamp order, and a
  trim of its expired prefix leaves expired entries behind younger ones (`transport.rs:176`
  against the trait's "Trim entries older than `max_age`"). `TrimRemovesExpired` holds of
  streams in order.
- A dependency listed twice is counted twice and met once, and the definition is refused as
  cyclic (`definition.rs:108` against its doc at line 54). `ValidateIsExact` says so.
- `Record` has a `ttl` of its own ("with optional TTL", `state-store/src/store.rs:52`), which
  `put` ignores in favour of its argument and reads always leave `None`.
- `DomainPayload.ts` is "when the business event occurred" (`payload.rs:13`) but is the time
  of each emit, so the copies of a retried event differ in it; and its `id` is "unique per
  logical event" (`payload.rs:16`), which `dedup_id` does not give two events of one
  millisecond (`SkippedForTwin` says which).
- `redis_starvation`: the Redis loop tests backpressure before it reclaims, so overdue
  entries that fill `max_inflight` are never reclaimed (`consumer.rs:49` against
  `message.rs:45`, which says they will be).
- `redis_lost_ack`: after an `XACK` that failed, a second `ack` returns `Ok` for an entry
  that is still pending (`message.rs:30` against its comment "already acked").

## Proofs

`MemoryTransport_proofs`, from `TopologyAssumption`, `OptionsAssumption` and
`BoundsAssumption` (any subscriptions, groups, limits and bounds):

- `TypeCorrect`: `Spec => []TypeOK`, and `IndexCorrect`: `Spec => []IndexAgrees`.
- Neither is inductive. A handler or a verdict is typed only if a message is in hand
  (`Equipped`); the loop of `collect_batch` reads a message that a trim must not have moved,
  so it needs the lock to itself (`Mutex`) and its index within the stream
  (`ScanInRange`); and a publish keeps the index a function of the stream only if the ULID
  it drew before the lock is not in a stream yet (`Freshness`). `Inv` is the conjunction of
  these with the two properties; `InvInit` and one lemma per action show it inductive.

`MemoryQueue_proofs`, from the same assumptions:

- `OneHolderAlways`, `CursorAlwaysSplits`, `SettledForGood`, `PendingAlwaysExact`: these four
  hold together or not at all, and are the core of `GroupInv`. A loop takes a message because
  the cursor says it is new, so nobody may hold it; it may settle it because it is pending; and
  a redelivery is safe because what is in the queue is in nobody's hands.
- What `GroupInv` adds: an id drawn before the lock is known to no group (`DrawnIsNew`), or a
  publish could bring one that is settled already; a dead letter on its way to the lock says
  what it is made from (`Origin`), and only a handler that has set `acked` is on that way
  (`Handling`), so that no other verdict comes between; cursors and pending ids are of the
  stream (`OnStream`); the loop of `collect_batch` stands right behind the cursor
  (`ScanFollows`); and a handler's message is not in its batch a second time (`InHandOnce`).
- Three properties rest on `GroupInv` and one strengthening each. `BackpressureHolds`
  (`Backpressure`): `Room` carries the test of `max_inflight` over the steps between it and the
  inserts that rely on it. `WakeupsAreNotLost` (`NoLostWakeup`): `AtEnd` says it already of
  a loop that gave the lock back and does not wait yet, the gap in which a publish must reach
  it. `DeadLettersAreUnique` (`DeadLetteredOnce`) needs `Origin`, and that what is settled
  stays settled.
- The proofs do not repeat themselves action by action. Seen from outside the loops a step does
  one of a few things to a stream, a group and a pair of hands (`Effect`, `StepEffect`): an
  envelope is appended or a prefix removed, a group begins, a message is taken, taken again,
  acknowledged, dead-lettered, returned or let go of, or nothing of the kind. Each is shown
  once to keep `GroupInv`, and once to be a step of `WorkQueue` or none (`QueueStep`), which
  gives `WorkQueueImplemented`: `Spec => ImplementsWorkQueue`, the whole refinement. It needs
  `GroupInv` because the abstract queue hands out only what is next in the log or was
  returned, and takes only ids nobody knows.
- `TrimRemoves` (`TrimRemovesExpired`), for instances whose `Moves` have no `drop_call`, as in
  the run: a future dropped before it has the lock also leaves `call`, and has trimmed nothing.
  The loop that looks for the cutoff removes the longest prefix of expired entries; the first
  entry behind it is younger, and so is everything after that on a stream in order.

`RedisTransport_proofs`, from `OptionsAssumption` and `BoundsAssumption` (any loops, options,
faulty commands and bounds):

- `TypeCorrect` (`TypeOK`), `NoneLost` (`NothingLost`), `InflightBounded` (`InflightBound`),
  `OneCopyPerDelivery` (`CopiesPerDelivery`), and `LeasedQueueImplemented`:
  `Spec => ImplementsLeasedQueue`, the whole refinement.
- `Inv` says of the server that cursor, stream and group fit together and no entry the
  cursor passed is lost, and of each loop (`LoopOK`) that what it has in hand fits where it stands: a
  batch while it handles one, an entry of the log while a verdict is pending. Most steps move one
  loop and leave the server alone, and are settled by one lemma each of three frames
  (`LoopFrame`, `LoopStep`, `QuietStep`).
- `InflightBounded` assumes that `XPENDING` does not fail: when it does, the loop reads without
  having looked, and nothing bounds the pending entries. The bound is not inductive, because
  between the look and the read other loops read too. `Room` keeps a batch in reserve for each
  loop that has passed the look and not read yet: the pending entries are below the limit plus
  a batch for each of the other loops (`Unarmed`).
- `OneCopyPerDelivery` needs `CopyInv`: copies written and messages in hand that may still write
  one are together no more than the deliveries (`Spending`), and no loop has an entry twice
  in its batch (`Once`); otherwise one delivery counter would pay for two copies.
- `LeasedQueueImplemented` gives each action its abstract step (`Seen...` lemmas) and needs
  `Inv` and `Once`: a batch read or reclaimed is a step that takes all its entries at once.

`JobDefinition_proofs`, from `DefinitionsAssumption` (any definitions of any size):

- `TypeCorrect`, `DependenciesComeFirst`, `ValidateExact`, `SortComplete`: all properties
  of `JobDefinition` that TLC checks, and the termination test of Kahn's algorithm with them.
- The invariant speaks of the *line*, the visited names followed by the queue, and of the
  dependencies of a task that have been *met*, those whose visit the inner loop has already
  brought to the task. `Counts`: in_degree is the length of depends_on less what was met.
  `ZeroesInLine`: a count is zero exactly for the tasks in line, so no count goes below
  zero and nobody is queued twice (`LineDistinct`). `RootsLead`: the roots head the line.
  When the queue runs dry (`ExactAtEnd`), a least visited element shows that a complete
  order has no cycle, and in an acyclic definition a least unvisited task would have all
  its dependencies met, hence be in line.

`RedisStateStore_proofs`, from `CallsAssumption` (any keys, fields, values, clients, calls,
contents left by earlier runs, faulty commands and bounds):

- `Types`, the types of the variables, is inductive and under all that follows. `ExpiryStays`
  (`ExpiryIsForGood`) comes from the commands alone: no `HSET`, `EXPIRE` or script takes a key out of `expiring` and
  leaves it there.
- `PermanentOnlyByWrite` (`PermanentByWrite`). `Reasons` is inductive: a record that never
  expires was written without expiry, or its `put` is between `HSET` and `EXPIRE`.
  A `put` that ends there moves its key from the second reason to the first.
- `GoneForGood` (`GoneUntilWritten`): each command by itself brings a record back only if it is
  the `HSET` of a write in progress, and onto nothing it writes just its own fields
  (`MergedAnew`). The script is the case that matters: it writes too, but the field it compares
  is there, hence the record is (`SwapRewrites`, from `ValuesAssumption`).
- `ScanLimited` (`ScanWithinMax`) and `ScanComplete` (`ScanMissesNone`), both from `ScansOK`:
  while a scan goes on, its results are fewer than its limit, what has lasted is still there
  and matches (`Observed`), and of that what `SCAN` has returned is found or still
  in the page. When the last page is empty, all that lasted has been returned.

`JobIndex_proofs`, from the assumptions of the store and three more: no letter or digit is a
point (`AlphabetAssumption`); ids, names and keys are texts (`TextsAssumption`); and who writes
the index writes a task under the key of its job (`WritersAssumption`; the writers are not in
this repository, and what they write of other records is free):

- `PrefixOfOneJob`: the index key of a task is under the scan prefix of its own job only. An id
  has no point and one follows it in the key, so two ids in one key end at the same place
  (`Delimited`), whatever name follows and even if one id begins the other.
- `JobScansFindTheirTasks` (`JobScanFindsItsTasks`). `IndexInv` is inductive: every record, every
  write on its way and every result so far, as far as it names a job, names the one under whose
  prefix its key is (`RecordsOwned`, `CallsOwned`, `FoundOwned`). It uses the `ScansOK` of the
  store: nothing is left of an earlier scan when one begins.

`TaskLifecycle_proofs`, from `LifecycleAssumption` and `CallsAssumption` (any items, clients,
steps, contents and bounds):

- `ClaimedByOne` (`OneClaimant`) and `MachineImplemented`: `LifecycleSpec =>
  ImplementsTaskMachine`, the whole refinement.
- `LInv` is inductive: the store and its calls are typed, a swap in a client's hands is one the
  tables allow (`ClientsOK`), a `put` is the first of its item (`Submissions`), and an item
  with a holder is claimed or running, with one holder (`Claims`). The last is what makes a
  second claim fail: its swap expects a pending task. Each command is then one of a few effects on
  states (`Classified`), and each effect a step of the machine or none.

`EventEmitter_proofs`, from `BoundsAssumption` (any emitters, kinds and bounds):

- `NeverHandledTwice` (`HandledOnce`) and `AcceptedLogged` (`AcceptedIsLogged`). What is sent
  for an event bears one name (`OneName`), whatever was retried, and the name of an event that
  was handled has been seen (`Known`), so no copy of it is handled again.
- `SkippedOnlyForTwin` (`SkippedForTwin`), from `NamesAssumption` (identities and kinds are texts)
  and `TimesAssumption` (two times print differently) too. A name has been seen because an
  event that bears it was handled (`NamedInv`). If that is another event, the two names are
  one text; its last piece is the time of both, and what precedes it the joined identities and
  kinds of both (`OneNameTwins`).

Every invariant, action property and refinement the passing runs check is thus a theorem.
Only model-checked is liveness, since fairness and `ENABLED` are out of the prover's reach:
`EventuallySettled`, `NakRedelivered`, `OverdueReclaimed`, and `CancelStops` of both transports.

## Plan

1. Done: all components of this repository that have behaviour.
2. Done: a theorem for every invariant, action property and refinement of the passing runs.
3. Left: what `WorkQueue`, `LeasedQueue` and `TaskMachine` promise their users as theorems about
   these modules, so that it follows for the programs that implement them.

## Not modelled

The sweeper, archiver, watcher and job driver are described elsewhere and are not in this
repository; where the models need them they are clients that may do what the library lets
them. Subjects, payload structs and lifecycle events are constructors without state. The
Redis server is modelled by what the code relies on.
