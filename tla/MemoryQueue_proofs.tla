--------------------------- MODULE MemoryQueue_proofs ---------------------------
(***************************************************************************)
(* Proofs about the consumer groups of MemoryTransport, for any             *)
(* subscriptions, limits and bounds: what a group has passed, has pending,  *)
(* has settled and has in its consumers' hands fits together, no wakeup is  *)
(* lost, and the transport implements WorkQueue.                            *)
(***************************************************************************)
EXTENDS MemoryTransport_proofs

(* Sequences of envelopes and of ids. *)

Distinct(b) == \A i, j \in 1..Len(b) : i # j => b[i].id # b[j].id
NoRepeat(q) == \A i, j \in 1..Len(q) : i # j => q[i] # q[j]

LEMMA IdsOfSeq ==
  ASSUME NEW b \in Seq(Envelopes)
  PROVE  IdsOf(b) = {b[i].id : i \in 1..Len(b)}
<1>1. Range(b) = {b[i] : i \in 1..Len(b)}
  BY RangeEquality
<1> QED BY <1>1 DEF IdsOf

LEMMA IdsOfEmpty == IdsOf(<<>>) = {} /\ Distinct(<<>>)
<1>1. ASSUME NEW b \in Seq(Envelopes), Len(b) = 0
      PROVE  IdsOf(b) = {} /\ Distinct(b)
  <2>1. 1..Len(b) = {}
    BY <1>1
  <2> QED BY <2>1, IdsOfSeq DEF Distinct
<1>2. <<>> \in Seq(Envelopes) /\ Len(<<>>) = 0
  BY EmptySeq
<1> QED BY <1>1, <1>2

\* A batch grows by an envelope it does not have.
LEMMA IdsOfAppend ==
  ASSUME NEW b \in Seq(Envelopes), NEW e \in Envelopes
  PROVE  /\ IdsOf(Append(b, e)) = IdsOf(b) \cup {e.id}
         /\ Distinct(b) /\ e.id \notin IdsOf(b) => Distinct(Append(b, e))
<1> DEFINE n == Len(b)  a == Append(b, e)
<1>1. /\ a \in Seq(Envelopes) /\ n \in Nat /\ Len(a) = n + 1
      /\ \A i \in 1..n : a[i] = b[i]
      /\ a[n + 1] = e
  BY AppendProperties, LenProperties
<1>2. IdsOf(b) = {b[i].id : i \in 1..n} /\ IdsOf(a) = {a[i].id : i \in 1..n+1}
  BY <1>1, IdsOfSeq
<1> HIDE DEF n, a
<1>3. \A i \in 1..n+1 : i \in 1..n \/ i = n + 1
  BY <1>1
<1>4. IdsOf(a) = IdsOf(b) \cup {e.id}
  BY <1>1, <1>2, <1>3
<1>5. ASSUME Distinct(b), e.id \notin IdsOf(b)
      PROVE  \A i, j \in 1..n+1 : i # j => a[i].id # a[j].id
  <2>1. \A i, j \in 1..n : i # j => b[i].id # b[j].id
    BY <1>5 DEF Distinct, n
  <2>2. \A i \in 1..n : b[i].id # e.id
    BY <1>2, <1>5
  <2> QED BY <1>1, <1>3, <2>1, <2>2
<1> QED BY <1>1, <1>4, <1>5 DEF Distinct, a

\* The first envelope of a batch and the rest.
LEMMA IdsOfTail ==
  ASSUME NEW b \in Seq(Envelopes), b # <<>>
  PROVE  /\ Head(b) \in Envelopes /\ Tail(b) \in Seq(Envelopes)
         /\ IdsOf(b) = {Head(b).id} \cup IdsOf(Tail(b))
         /\ Distinct(b) => Head(b).id \notin IdsOf(Tail(b)) /\ Distinct(Tail(b))
<1> DEFINE n == Len(b)  t == Tail(b)
<1>1. /\ t \in Seq(Envelopes) /\ n \in Nat \ {0} /\ Len(t) = n - 1
      /\ \A i \in 1..n-1 : t[i] = b[i + 1]
      /\ Head(b) \in Envelopes
  BY HeadTailProperties, LenProperties, EmptySeq
<1>2. Head(b) = b[1]
  OBVIOUS
<1>3. IdsOf(b) = {b[i].id : i \in 1..n} /\ IdsOf(t) = {t[i].id : i \in 1..n-1}
  BY <1>1, IdsOfSeq
<1> HIDE DEF n, t
<1>4. /\ \A i \in 1..n : i = 1 \/ (i - 1 \in 1..n-1 /\ (i - 1) + 1 = i)
      /\ \A i \in 1..n-1 : i + 1 \in 1..n /\ i + 1 # 1
      /\ 1 \in 1..n
  BY <1>1
<1>5. IdsOf(b) = {Head(b).id} \cup IdsOf(t)
  <2>1. ASSUME NEW x \in IdsOf(b)  PROVE x = Head(b).id \/ x \in IdsOf(t)
    <3>1. PICK i \in 1..n : x = b[i].id
      BY <1>3
    <3>2. CASE i = 1
      BY <3>1, <3>2, <1>2
    <3>3. CASE i # 1
      <4>1. i - 1 \in 1..n-1 /\ t[i - 1] = b[i]
        BY <1>1, <1>4, <3>3
      <4> QED BY <4>1, <3>1, <1>3
    <3> QED BY <3>2, <3>3
  <2>2. ASSUME NEW x \in IdsOf(t)  PROVE x \in IdsOf(b)
    <3>1. PICK i \in 1..n-1 : x = t[i].id
      BY <1>3
    <3> QED BY <3>1, <1>1, <1>3, <1>4
  <2> QED BY <2>1, <2>2, <1>2, <1>3, <1>4
<1>6. ASSUME Distinct(b)
      PROVE  Head(b).id \notin IdsOf(t) /\ Distinct(t)
  <2>1. \A i, j \in 1..n : i # j => b[i].id # b[j].id
    BY <1>6 DEF Distinct, n
  <2>2. \A i \in 1..n-1 : b[i + 1].id # b[1].id
    BY <2>1, <1>4
  <2>3. \A i, j \in 1..n-1 : i # j => b[i + 1].id # b[j + 1].id
    BY <2>1, <1>4
  <2> QED BY <2>2, <2>3, <1>1, <1>2, <1>3 DEF Distinct, t
<1> QED BY <1>1, <1>5, <1>6 DEF t

\* A queue of ids grows at its end.
LEMMA RangeAppend ==
  ASSUME NEW q \in Seq(Ids), NEW x \in Ids
  PROVE  /\ Range(Append(q, x)) = Range(q) \cup {x}
         /\ NoRepeat(q) /\ x \notin Range(q) => NoRepeat(Append(q, x))
<1> DEFINE n == Len(q)  a == Append(q, x)
<1>1. /\ a \in Seq(Ids) /\ n \in Nat /\ Len(a) = n + 1
      /\ \A i \in 1..n : a[i] = q[i]
      /\ a[n + 1] = x
  BY AppendProperties, LenProperties
<1>2. Range(q) = {q[i] : i \in 1..n} /\ Range(a) = {a[i] : i \in 1..n+1}
  BY <1>1, RangeEquality
<1> HIDE DEF n, a
<1>3. \A i \in 1..n+1 : i \in 1..n \/ i = n + 1
  BY <1>1
<1>4. ASSUME NoRepeat(q), x \notin Range(q)
      PROVE  \A i, j \in 1..n+1 : i # j => a[i] # a[j]
  <2>1. \A i, j \in 1..n : i # j => q[i] # q[j]
    BY <1>4 DEF NoRepeat, n
  <2>2. \A i \in 1..n : q[i] # x
    BY <1>2, <1>4
  <2> QED BY <1>1, <1>3, <2>1, <2>2
<1>5. Range(a) = Range(q) \cup {x}
  BY <1>1, <1>2, <1>3
<1> QED BY <1>1, <1>4, <1>5 DEF NoRepeat, a

\* The head of a queue leaves it.
LEMMA RangeTail ==
  ASSUME NEW q \in Seq(Ids), q # <<>>
  PROVE  /\ Head(q) \in Ids /\ Tail(q) \in Seq(Ids)
         /\ Range(q) = {Head(q)} \cup Range(Tail(q))
         /\ NoRepeat(q) => Head(q) \notin Range(Tail(q)) /\ NoRepeat(Tail(q))
<1> DEFINE n == Len(q)  t == Tail(q)
<1>1. /\ t \in Seq(Ids) /\ n \in Nat \ {0} /\ Len(t) = n - 1
      /\ \A i \in 1..n-1 : t[i] = q[i + 1]
      /\ Head(q) \in Ids
  BY HeadTailProperties, LenProperties, EmptySeq
<1>2. Head(q) = q[1]
  OBVIOUS
<1>3. Range(q) = {q[i] : i \in 1..n} /\ Range(t) = {t[i] : i \in 1..n-1}
  BY <1>1, RangeEquality
<1> HIDE DEF n, t
<1>4. /\ \A i \in 1..n : i = 1 \/ (i - 1 \in 1..n-1 /\ (i - 1) + 1 = i)
      /\ \A i \in 1..n-1 : i + 1 \in 1..n /\ i + 1 # 1
      /\ 1 \in 1..n
  BY <1>1
<1>5. Range(q) = {Head(q)} \cup Range(t)
  <2>1. ASSUME NEW x \in Range(q)  PROVE x = Head(q) \/ x \in Range(t)
    <3>1. PICK i \in 1..n : x = q[i]
      BY <1>3
    <3>2. CASE i = 1
      BY <3>1, <3>2, <1>2
    <3>3. CASE i # 1
      <4>1. i - 1 \in 1..n-1 /\ t[i - 1] = q[i]
        BY <1>1, <1>4, <3>3
      <4> QED BY <4>1, <3>1, <1>3
    <3> QED BY <3>2, <3>3
  <2>2. ASSUME NEW x \in Range(t)  PROVE x \in Range(q)
    <3>1. PICK i \in 1..n-1 : x = t[i]
      BY <1>3
    <3> QED BY <3>1, <1>1, <1>3, <1>4
  <2> QED BY <2>1, <2>2, <1>2, <1>3, <1>4
<1>6. ASSUME NoRepeat(q)
      PROVE  Head(q) \notin Range(t) /\ NoRepeat(t)
  <2>1. \A i, j \in 1..n : i # j => q[i] # q[j]
    BY <1>6 DEF NoRepeat, n
  <2>2. \A i \in 1..n-1 : q[i + 1] # q[1]
    BY <2>1, <1>4
  <2>3. \A i, j \in 1..n-1 : i # j => q[i + 1] # q[j + 1]
    BY <2>1, <1>4
  <2> QED BY <2>2, <2>3, <1>1, <1>2, <1>3 DEF NoRepeat, t
<1> QED BY <1>1, <1>5, <1>6 DEF t

-----------------------------------------------------------------------------
(* The strengthening. *)

StreamOf(g) == messages[SubjectOf[g]]

\* Ids that envelopes not on a stream yet have, or will have.
Drawn(id) ==
  \/ id >= nextId
  \/ \E k \in Callers : Publishing(k) /\ call[k].envelope.id = id
  \/ \E c \in Consumers : Drafting(c) /\ draft[c].id = id

Known(g) == pending[g] \cup settled[g] \cup skipped[g] \cup stranded[g] \cup Range(redeliver[g])

Untouched(id) ==
  /\ \A g \in Groups : id \notin Known(g)
  /\ \A c \in Consumers : id \notin Held(c)

\* No group and no consumer knows an id before it is published.
DrawnIsNew == \A id \in Ids : Drawn(id) => Untouched(id)

\* A client publishes no dead letters, and a dead letter says what it is made from.
Origin ==
  /\ \A k \in Callers : Publishing(k) => call[k].envelope.origin = <<>>
  /\ \A c \in Consumers :
       pc[c] = "dead_letter" => draft[c].origin = <<GroupOf[c], msg[c].id>>

\* A verdict sets acked first, and loops run, with batches, in groups that exist.
Handling ==
  \A c \in Consumers :
    /\ pc[c] \in Settling => acked[c]
    /\ pc[c] \notin {"idle", "subscribe"} => GroupOf[c] \in groups
    /\ pc[c] \in {"idle", "subscribe"} => batch[c] = <<>>

\* Cursors and pending ids are of the stream; a group that is not there has nothing.
OnStream ==
  \A g \in Groups :
    /\ cursor[g] <= Len(StreamOf(g))
    /\ pending[g] \subseteq IdsOf(StreamOf(g))
    /\ g \notin groups => pending[g] = {} /\ settled[g] = {}

\* Phase 2 of collect_batch follows the cursor, and has all that fits before it.
ScanFollows ==
  \A c \in Consumers :
    LET g == GroupOf[c] IN
    /\ pc[c] = "scan" => scan.next = cursor[g] + 1
    /\ pc[c] = "scan" /\ take[c] > 0 /\ batch[c] = <<>> =>
         scan.last = Minimum(cursor[g] + take[c], Len(StreamOf(g)))

\* What collect_batch may still make pending is within the limit of its consumer.
Room ==
  \A c \in Consumers :
    LET p == Cardinality(pending[GroupOf[c]]) IN
    /\ pc[c] = "redeliver" => p + take[c] <= MaxInflight[c]
    /\ pc[c] = "scan" /\ scan.next <= scan.last =>
         p + (scan.last - scan.next) + 1 <= MaxInflight[c]

\* NoLostWakeup, from the moment collect_batch gave the lock back.
AtEnd ==
  \A c \in Consumers :
    /\ ~woken[c] /\ take[c] > 0
    /\ pc[c] = "wait" \/ (pc[c] = "collected" /\ batch[c] = <<>>)
    => cursor[GroupOf[c]] = Len(StreamOf(GroupOf[c]))

\* What is in the handler is not in the batch, which has nothing twice.
InHandOnce ==
  \A c \in Consumers : InHand(c) \cap IdsOf(batch[c]) = {} /\ Distinct(batch[c])

GroupInv ==
  /\ DrawnIsNew /\ Origin /\ Handling /\ OnStream /\ ScanFollows
  /\ InHandOnce /\ OneHolder /\ CursorSplitsStream /\ SettledIsFinal /\ PendingIsExact

-----------------------------------------------------------------------------
(* The streams. *)

\* The id index says what is on a stream; no id is on it twice.
LEMMA StreamIds ==
  ASSUME TypeOK, IndexAgrees, NEW s \in Subjects
  PROVE  /\ messages[s] \in Seq(Envelopes) /\ Len(messages[s]) \in Nat
         /\ \A i \in 1..Len(messages[s]) :
              messages[s][i] \in Envelopes /\ messages[s][i].id \in Ids
         /\ IdsOf(messages[s]) = {messages[s][i].id : i \in 1..Len(messages[s])}
         /\ IdsOf(messages[s]) \subseteq Ids
         /\ Distinct(messages[s])
         /\ \A id \in Ids : id \in IdsOf(messages[s]) <=> idIndex[s][id] # 0
         /\ \A id \in Ids : idIndex[s][id] # 0 =>
              /\ idIndex[s][id] \in 1..Len(messages[s])
              /\ messages[s][idIndex[s][id]].id = id
<1> DEFINE m == messages[s]
<1>1. m \in Seq(Envelopes) /\ Len(m) \in Nat
  BY LenProperties DEF TypeOK
<1>2. \A i \in 1..Len(m) : m[i] \in Envelopes /\ m[i].id \in Ids
  <2>1. \A i \in 1..Len(m) : m[i] \in Envelopes
    BY <1>1, ElementOfSeq
  <2> QED BY <2>1 DEF Envelopes
<1>3. IdsOf(m) = {m[i].id : i \in 1..Len(m)}
  BY <1>1, IdsOfSeq
<1>4. \A i \in 1..Len(m) : idIndex[s][m[i].id] = i
  BY DEF IndexAgrees
<1>5. ASSUME NEW id \in Ids, idIndex[s][id] # 0
      PROVE  idIndex[s][id] \in 1..Len(m) /\ m[idIndex[s][id]].id = id
  BY <1>1, <1>5 DEF TypeOK, IndexAgrees
<1> HIDE DEF m
<1>6. Distinct(m)
  BY <1>4 DEF Distinct
<1>7. \A id \in Ids : id \in IdsOf(m) <=> idIndex[s][id] # 0
  BY <1>1, <1>2, <1>3, <1>4, <1>5
<1> QED BY <1>1, <1>2, <1>3, <1>5, <1>6, <1>7 DEF m

\* The stream of a group, and the group of a consumer.
LEMMA Topology ==
  /\ \A g \in Groups : SubjectOf[g] \in Subjects
  /\ \A c \in Consumers : GroupOf[c] \in Groups /\ SubjectFor(c) \in Subjects
                          /\ SubjectFor(c) = SubjectOf[GroupOf[c]]
BY TopologyAssumption DEF SubjectFor

\* An appended envelope is on its stream; the others stay as they are.
LEMMA Appending ==
  ASSUME TypeOK, NEW s \in Subjects, NEW e \in Envelopes,
         messages' = [messages EXCEPT ![s] = Append(@, e)]
  PROVE  /\ \A t \in Subjects \ {s} : messages'[t] = messages[t]
         /\ IdsOf(messages'[s]) = IdsOf(messages[s]) \cup {e.id}
         /\ Len(messages[s]) \in Nat /\ Len(messages'[s]) = Len(messages[s]) + 1
         /\ \A i \in 1..Len(messages[s]) : messages'[s][i] = messages[s][i]
         /\ messages'[s][Len(messages[s]) + 1] = e
<1>1. messages[s] \in Seq(Envelopes) /\ messages'[s] = Append(messages[s], e)
  BY DEF TypeOK
<1>2. \A t \in Subjects \ {s} : messages'[t] = messages[t]
  BY DEF TypeOK
<1>3. IdsOf(messages'[s]) = IdsOf(messages[s]) \cup {e.id}
  BY <1>1, IdsOfAppend
<1> QED BY <1>1, <1>2, <1>3, AppendProperties, LenProperties

\* A drawn id is on no stream and in nobody's hands.
NewId(id) ==
  /\ id \in Ids /\ Untouched(id)
  /\ \A s \in Subjects : id \notin IdsOf(messages[s])

LEMMA UnpublishedIsNew ==
  ASSUME Inv, DrawnIsNew, NEW id \in Ids, Unpublished(id), Drawn(id)
  PROVE  NewId(id)
<1>1. \A s \in Subjects : idIndex[s][id] = 0
  BY DEF Unpublished
<1>2. \A s \in Subjects : id \notin IdsOf(messages[s])
  BY <1>1, StreamIds DEF Inv
<1> QED BY <1>2 DEF DrawnIsNew, NewId

\* What is on a stream is not drawn.
LEMMA PublishedIsNotDrawn ==
  ASSUME Inv, NEW s \in Subjects, NEW id \in IdsOf(messages[s])
  PROVE  id \in Ids /\ ~Drawn(id)
<1>1. id \in Ids /\ idIndex[s][id] # 0
  BY StreamIds DEF Inv
<1> QED BY <1>1 DEF Inv, Freshness, Drawn, Unpublished

\* OneHolder in other words.
LEMMA OneHolderIs ==
  OneHolder <=>
    \A c \in Consumers :
      /\ \A d \in Consumers \ {c} : GroupOf[c] = GroupOf[d] => Held(c) \cap Held(d) = {}
      /\ Held(c) \cap Range(redeliver[GroupOf[c]]) = {}
      /\ InHand(c) \cap IdsOf(batch[c]) = {} /\ Distinct(batch[c])
      /\ NoRepeat(redeliver[GroupOf[c]])
BY DEF OneHolder, Distinct, NoRepeat

\* Who claims an id.
LEMMA ClaimedIs ==
  ASSUME NEW g, NEW id
  PROVE  id \in Claimed(g) <=>
           \/ \E c \in Consumers : GroupOf[c] = g /\ id \in Held(c)
           \/ id \in Range(redeliver[g])
BY DEF Claimed

-----------------------------------------------------------------------------
(* Who a step leaves alone. *)

groupVars == <<groups, cursor, pending, redeliver, historyVars>>

\* A client's step leaves the loops and what they hold alone; it may wake them.
LEMMA ClientFrame ==
  ASSUME NEW k \in Callers, ClientStep(k)
  PROVE  /\ UNCHANGED <<pc, take, batch, msg, acked, draft, cancelled, active, lock, scan>>
         /\ UNCHANGED <<groups, redeliver, historyVars>>
         /\ \A c \in Consumers : InHand(c)' = InHand(c) /\ Held(c)' = Held(c)
<1>1. /\ UNCHANGED <<pc, take, batch, msg, acked, draft, cancelled, active, lock, scan>>
      /\ UNCHANGED <<groups, redeliver, historyVars>>
  BY DEF ClientStep, CallStep, PublishBegin, PublishCommit, EnsureStreamBegin,
         EnsureStreamCommit, TrimStreamBegin, TrimStreamCommit, DropCall, storeVars,
         clockVars, loopVars, collectVars, historyVars
<1> QED BY <1>1 DEF InHand, Held

\* A consumer's step leaves the other loops alone; it may wake them.
LEMMA ConsumerFrame ==
  ASSUME TypeOK, NEW c \in Consumers, ConsumerStep(c)
  PROVE  /\ call' = call
         /\ \A d \in Consumers \ {c} :
              /\ pc'[d] = pc[d] /\ take'[d] = take[d] /\ batch'[d] = batch[d]
              /\ msg'[d] = msg[d] /\ acked'[d] = acked[d] /\ draft'[d] = draft[d]
              /\ woken[d] => woken'[d]
              /\ InHand(d)' = InHand(d) /\ Held(d)' = Held(d)
<1>1. ASSUME NEW d \in Consumers \ {c}
      PROVE  /\ pc'[d] = pc[d] /\ take'[d] = take[d] /\ batch'[d] = batch[d]
             /\ msg'[d] = msg[d] /\ acked'[d] = acked[d] /\ draft'[d] = draft[d]
             /\ call' = call
  <2>1. CASE SubscriptionStep(c)
    BY <2>1 DEF SubscriptionStep, SubscribeBegin, SubscribeCommit, Unsubscribe, TypeOK, Goto
  <2>2. CASE LoopStep(c)
    BY <2>2 DEF LoopStep, Stop, Register, Notified, Timeout, NextMessage, EndBatch,
       CollectRedelivery, CollectFresh, CollectNext, CollectEnd, Collected, TypeOK, Goto
  <2>3. CASE LockStep(c)
    BY <2>3 DEF LockStep, CollectBegin, AckCommit, NakCommit, DeadLetterCommit, TypeOK, Goto
  <2>4. CASE HandlerStep(c)
    BY <2>4 DEF HandlerStep, SettleBegin, ReturnOk, ReturnErr, TypeOK, Goto
  <2>5. CASE FaultStep(c)
    BY <2>5 DEF FaultStep, DropSettle, Panic, TypeOK, Goto
  <2> QED BY <2>1, <2>2, <2>3, <2>4, <2>5 DEF ConsumerStep
<1>2. call' = call
  BY DEF ConsumerStep, SubscriptionStep, LoopStep, LockStep, HandlerStep, FaultStep,
    SubscribeBegin, SubscribeCommit, Unsubscribe, Stop, Register, Notified, Timeout,
    NextMessage, EndBatch, CollectRedelivery, CollectFresh, CollectNext, CollectEnd,
    Collected, CollectBegin, AckCommit, NakCommit, DeadLetterCommit, SettleBegin, ReturnOk,
    ReturnErr, DropSettle, Panic
<1>3. ASSUME NEW d \in Consumers \ {c}, woken[d]
      PROVE  woken'[d]
  <2>1. CASE DeadLetterCommit(c)
    BY <2>1, <1>3 DEF DeadLetterCommit, AppendTo, NotifyWaiters
  <2>2. CASE Register(c)
    BY <2>2, <1>3 DEF Register, TypeOK
  <2>3. CASE ~DeadLetterCommit(c) /\ ~Register(c)
    <3>1. woken' = woken
      BY <2>3 DEF ConsumerStep, SubscriptionStep, LoopStep, LockStep, HandlerStep, FaultStep,
        SubscribeBegin, SubscribeCommit, Unsubscribe, Stop, Notified, Timeout,
        NextMessage, EndBatch, CollectRedelivery, CollectFresh, CollectNext, CollectEnd,
        Collected, CollectBegin, AckCommit, NakCommit, SettleBegin, ReturnOk,
        ReturnErr, DropSettle, Panic, loopVars
    <3> QED BY <3>1, <1>3
  <2> QED BY <2>1, <2>2, <2>3
<1>4. ASSUME NEW d \in Consumers \ {c}
      PROVE  InHand(d)' = InHand(d) /\ Held(d)' = Held(d)
  BY <1>1, <1>4 DEF InHand, Held
<1> QED BY <1>1, <1>2, <1>3, <1>4

\* While a loop has the lock, only its own steps touch the store.
LEMMA LockFrame ==
  ASSUME Inv, NEW c \in Consumers, lock = c, Next, ~ConsumerStep(c)
  PROVE  /\ UNCHANGED <<storeVars, scan, lock>>
         /\ pc'[c] = pc[c] /\ take'[c] = take[c] /\ batch'[c] = batch[c]
<1>1. ~LockFree /\ \A d \in Consumers \ {c} : pc[d] \notin Locked
  BY TopologyAssumption DEF Inv, Mutex, LockFree
<1>2. ASSUME NEW k \in Callers, ClientStep(k)
      PROVE  UNCHANGED <<storeVars, scan, lock>>
  BY <1>1, <1>2 DEF ClientStep, CallStep, PublishBegin, PublishCommit, EnsureStreamBegin,
    EnsureStreamCommit, TrimStreamBegin, TrimStreamCommit, DropCall, collectVars
<1>3. ASSUME NEW d \in Consumers \ {c}, ConsumerStep(d)
      PROVE  UNCHANGED <<storeVars, scan, lock>>
  <2>1. pc[d] # "redeliver" /\ pc[d] # "scan"
    BY <1>1 DEF Locked
  <2> QED
    BY <1>1, <2>1, <1>3 DEF ConsumerStep, SubscriptionStep, LoopStep, LockStep, HandlerStep,
      FaultStep, SubscribeBegin, SubscribeCommit, Unsubscribe, Stop, Register, Notified,
      Timeout, NextMessage, EndBatch, CollectRedelivery, CollectFresh, CollectNext,
      CollectEnd, Collected, CollectBegin, AckCommit, NakCommit, DeadLetterCommit,
      SettleBegin, ReturnOk, ReturnErr, DropSettle, Panic, collectVars
<1>4. ASSUME Close \/ Tick
      PROVE  UNCHANGED <<storeVars, scan, lock>> /\ UNCHANGED <<pc, take, batch>>
  BY <1>4 DEF Close, Tick, collectVars, loopVars
<1> QED
  BY <1>2, <1>3, <1>4, ClientFrame, ConsumerFrame DEF Next, Inv

\* No step makes an id drawn that was not.
LEMMA DrawnBefore ==
  ASSUME Inv, [Next]_vars, NEW id \in Ids, Drawn(id)'
  PROVE  Drawn(id)
<1>1. ASSUME NEW k \in Callers, ClientStep(k)
      PROVE  /\ nextId' >= nextId /\ draft' = draft
             /\ \A l \in Callers :
                  Publishing(l)' => \/ Publishing(l) /\ call'[l] = call[l]
                                    \/ call'[l].envelope.id = nextId
  <2>1. draft' = draft
    BY <1>1, ClientFrame
  <2>2. CASE \E s \in Subjects : PublishBegin(k, s)
    BY <2>1, <2>2, <1>1 DEF PublishBegin, Publishing, Inv, TypeOK, Envelope
  <2>3. CASE ~\E s \in Subjects : PublishBegin(k, s)
    <3>1. /\ nextId' = nextId
          /\ \A l \in Callers \ {k} : call'[l] = call[l]
          /\ call'[k].op # "publish"
      BY <2>3, <1>1 DEF ClientStep, CallStep, PublishCommit, EnsureStreamBegin,
        EnsureStreamCommit, TrimStreamBegin, TrimStreamCommit, DropCall, Inv, TypeOK, Idle
    <3> QED BY <2>1, <3>1 DEF Publishing, Inv, TypeOK
  <2> QED BY <2>2, <2>3
<1>2. ASSUME NEW c \in Consumers, ConsumerStep(c)
      PROVE  /\ nextId' >= nextId /\ call' = call
             /\ \A d \in Consumers :
                  Drafting(d)' => \/ Drafting(d) /\ draft'[d] = draft[d]
                                  \/ draft'[d].id = nextId
  <2>1. call' = call /\ \A d \in Consumers \ {c} : draft'[d] = draft[d]
    BY <1>2, ConsumerFrame DEF Inv
  <2>2. CASE \E v \in {"ack", "nak", "dead_letter"} : SettleBegin(c, v)
    BY <2>1, <2>2 DEF SettleBegin, Drafting, Inv, TypeOK, Envelope
  <2>3. CASE ~\E v \in {"ack", "nak", "dead_letter"} : SettleBegin(c, v)
    <3>1. nextId' = nextId /\ (draft'[c] = draft[c] \/ draft'[c] = Blank)
      BY <2>3, <1>2 DEF ConsumerStep, SubscriptionStep, LoopStep, LockStep, HandlerStep,
        FaultStep, SubscribeBegin, SubscribeCommit, Unsubscribe, Stop, Register, Notified,
        Timeout, NextMessage, EndBatch, CollectRedelivery, CollectFresh, CollectNext,
        CollectEnd, Collected, CollectBegin, AckCommit, NakCommit, DeadLetterCommit,
        ReturnOk, ReturnErr, DropSettle, Panic, Inv, TypeOK
    <3> QED BY <2>1, <3>1, BlankIsNoEnvelope DEF Drafting, Inv, TypeOK
  <2> QED BY <2>2, <2>3
<1>3. ASSUME Close \/ Tick \/ UNCHANGED vars
      PROVE  UNCHANGED <<nextId, call, draft>>
  BY <1>3 DEF Close, Tick, vars, loopVars
<1>4. nextId \in Nat /\ nextId' \in Nat
  BY BoundsAssumption, TypeOKStep DEF Inv, TypeOK
<1>5. CASE UNCHANGED <<nextId, call, draft>>
  BY <1>5 DEF Drawn, Publishing, Drafting
<1>6. ASSUME NEW k \in Callers, ClientStep(k)
      PROVE  Drawn(id)
  BY <1>1, <1>6, <1>4, BoundsAssumption DEF Drawn, Drafting, Ids
<1>7. ASSUME NEW c \in Consumers, ConsumerStep(c)
      PROVE  Drawn(id)
  BY <1>2, <1>7, <1>4, BoundsAssumption DEF Drawn, Publishing, Ids
<1> QED BY <1>3, <1>5, <1>6, <1>7 DEF Next

-----------------------------------------------------------------------------
(* What a step does to the groups, seen from outside of the loops. *)

SameHeld      == \A c \in Consumers : Held(c)' = Held(c)
OthersHeld(c) == \A d \in Consumers \ {c} : Held(d)' = Held(d)

Aside == UNCHANGED <<messages, groupVars>> /\ SameHeld

Appended(s, e) ==
  /\ s \in Subjects /\ e \in Envelopes /\ NewId(e.id)
  /\ messages' = [messages EXCEPT ![s] = Append(@, e)]

Published(s, e) == Appended(s, e) /\ e.origin = <<>> /\ UNCHANGED groupVars /\ SameHeld

Expired(s, n) ==
  /\ s \in Subjects /\ n \in 1..Len(messages[s])
  /\ messages' = [messages EXCEPT ![s] = SubSeq(@, n + 1, Len(@))]
  /\ pending' = [g \in Groups |->
                   IF SubjectOf[g] = s THEN pending[g] \ IdsOf(SubSeq(messages[s], 1, n))
                                       ELSE pending[g]]
  /\ cursor' = [g \in Groups |->
                  IF SubjectOf[g] = s THEN TrimmedCursor(cursor[g], n) ELSE cursor[g]]
  /\ UNCHANGED <<groups, redeliver, historyVars>> /\ SameHeld

Joined(g, k) ==
  /\ g \in Groups \ groups /\ k \in 0..Len(StreamOf(g))
  /\ groups' = groups \cup {g}
  /\ cursor' = [cursor EXCEPT ![g] = k]
  /\ skipped' = [skipped EXCEPT ![g] = IdsOf(SubSeq(StreamOf(g), 1, k))]
  /\ UNCHANGED <<messages, pending, redeliver, settled, stranded>> /\ SameHeld

Took(c) ==
  LET g == GroupOf[c]
      i == cursor[g] + 1
      x == StreamOf(g)[i].id
  IN /\ g \in groups /\ i <= Len(StreamOf(g))
     /\ cursor' = [cursor EXCEPT ![g] = i]
     /\ pending' = [pending EXCEPT ![g] = @ \cup {x}]
     /\ Held(c)' = Held(c) \cup {x} /\ OthersHeld(c)
     /\ UNCHANGED <<messages, groups, redeliver, historyVars>>

Retook(c) ==
  LET g == GroupOf[c]
      x == Head(redeliver[g])
  IN /\ redeliver[g] # <<>>
     /\ redeliver' = [redeliver EXCEPT ![g] = Tail(@)]
     /\ Held(c)' = (IF x \in IdsOf(StreamOf(g)) THEN Held(c) \cup {x} ELSE Held(c))
     /\ OthersHeld(c)
     /\ UNCHANGED <<messages, groups, cursor, pending, historyVars>>

Freed(c, x) == x \in Held(c) /\ Held(c)' = Held(c) \ {x} /\ OthersHeld(c)

Released(c, x) ==
  /\ Freed(c, x)
  /\ pending' = [pending EXCEPT ![GroupOf[c]] = @ \ {x}]
  /\ settled' = [settled EXCEPT ![GroupOf[c]] = @ \cup {x}]
  /\ UNCHANGED <<groups, cursor, redeliver, skipped, stranded>>

Acknowledged(c, x) == Released(c, x) /\ UNCHANGED messages

DeadLettered(c, x, e) ==
  /\ Released(c, x)
  /\ Appended(DeadLetterOf[SubjectFor(c)], e) /\ e.origin = <<GroupOf[c], x>>

Returned(c, x) ==
  /\ Freed(c, x)
  /\ redeliver' = [redeliver EXCEPT ![GroupOf[c]] = Append(@, x)]
  /\ UNCHANGED <<messages, groups, cursor, pending, historyVars>>

Stranded(c, ids) ==
  /\ ids \subseteq Held(c) /\ Held(c)' = Held(c) \ ids /\ OthersHeld(c)
  /\ stranded' = [stranded EXCEPT ![GroupOf[c]] = @ \cup ids]
  /\ UNCHANGED <<messages, groups, cursor, pending, redeliver, settled, skipped>>

ConsumerEffect(c) ==
  \/ Aside \/ Took(c) \/ Retook(c)
  \/ \E k \in Nat : Joined(GroupOf[c], k)
  \/ \E x \in Ids : \/ Acknowledged(c, x) \/ Returned(c, x)
                    \/ \E e \in Envelopes : DeadLettered(c, x, e)
  \/ \E ids \in SUBSET Ids : Stranded(c, ids)

Effect ==
  \/ \E s \in Subjects, e \in Envelopes : Published(s, e)
  \/ \E s \in Subjects : \E n \in Nat : Expired(s, n)
  \/ \E c \in Consumers : ConsumerEffect(c)
  \/ Aside

\* Clients publish, and trim.
LEMMA ClientEffect ==
  ASSUME Inv, GroupInv, NEW k \in Callers, ClientStep(k)
  PROVE  Effect
<1>1. /\ UNCHANGED <<groups, redeliver, historyVars>> /\ SameHeld
  BY ClientFrame DEF SameHeld
<1>2. CASE PublishCommit(k)
  <2> DEFINE s == call[k].subject  e == call[k].envelope
  <2>1. /\ Publishing(k) /\ s \in Subjects /\ e \in Envelopes /\ Unpublished(e.id)
        /\ AppendTo(s, e)
    BY <1>2, PublishEffect DEF Inv
  <2>2. e.id \in Ids /\ Drawn(e.id)
    BY <2>1 DEF Envelopes, Drawn
  <2>3. Appended(s, e)
    BY <2>1, <2>2, UnpublishedIsNew DEF Appended, AppendTo, GroupInv
  <2>4. e.origin = <<>> /\ UNCHANGED groupVars
    BY <2>1, <1>2 DEF GroupInv, Origin, PublishCommit, groupVars
  <2> QED BY <1>1, <2>1, <2>3, <2>4 DEF Effect, Published
<1>3. CASE TrimStreamCommit(k)
  <2> DEFINE s == call[k].subject  n == ExpiredCount(s, call[k].cutoff)
  <2>1. CASE n = 0
    BY <1>1, <1>3, <2>1, TrimNoEffect DEF Effect, Aside, storeVars, groupVars
  <2>2. CASE n # 0
    <3>1. Expired(s, n) /\ s \in Subjects /\ n \in Nat
      <4>1. TypeOK /\ IndexAgrees
        BY DEF Inv
      <4> QED
        BY <1>1, <1>3, <2>2, <4>1, TrimEffect, LenProperties DEF Expired, TypeOK
    <3> QED BY <3>1 DEF Effect
  <2> QED BY <2>1, <2>2
<1>4. CASE ~PublishCommit(k) /\ ~TrimStreamCommit(k)
  <2>1. UNCHANGED <<messages, cursor, pending>>
    BY <1>4 DEF ClientStep, CallStep, PublishBegin, EnsureStreamBegin, EnsureStreamCommit,
      TrimStreamBegin, DropCall, storeVars
  <2> QED BY <1>1, <2>1 DEF Effect, Aside, groupVars
<1> QED BY <1>2, <1>3, <1>4

\* The first subscription makes the group.
LEMMA SubscribeEffect ==
  ASSUME Inv, GroupInv, NEW c \in Consumers, NEW start \in Starts, SubscribeCommit(c, start)
  PROVE  Aside \/ \E k \in Nat : Joined(GroupOf[c], k)
<1> DEFINE g == GroupOf[c]  k == StartCursor(SubjectOf[g], start)
<1>1. g \in Groups /\ SubjectOf[g] \in Subjects
  BY Topology
<1>2. SameHeld
  BY DEF SubscribeCommit, SameHeld, Held, InHand, Goto, Inv, TypeOK, Settling
<1>3. CASE g \in groups
  <2>1. UNCHANGED <<groups, cursor, skipped>>
    BY <1>3 DEF SubscribeCommit, CreateGroup
  <2> QED
    BY <1>2, <2>1 DEF SubscribeCommit, Aside, groupVars, historyVars
<1>4. CASE g \notin groups
  <2>1. k \in 0..Len(StreamOf(g)) /\ k \in Nat
    BY <1>1, StartCursorType, LenProperties DEF Inv, StreamOf, TypeOK
  <2>2. /\ groups' = groups \cup {g}
        /\ cursor' = [cursor EXCEPT ![g] = k]
        /\ skipped' = [skipped EXCEPT ![g] = IdsOf(SubSeq(StreamOf(g), 1, k))]
    BY <1>4 DEF SubscribeCommit, CreateGroup, StreamOf
  <2>3. Joined(g, k)
    BY <1>1, <1>2, <1>4, <2>1, <2>2 DEF SubscribeCommit, Joined
  <2> QED BY <2>1, <2>3
<1> QED BY <1>3, <1>4

\* The steps of a loop that only move it, or its verdict, leave the groups alone.
LEMMA LoopEffect ==
  ASSUME Inv, GroupInv, NEW c \in Consumers,
         \/ SubscribeBegin(c) \/ Unsubscribe(c) \/ Stop(c) \/ Register(c) \/ Notified(c)
         \/ Timeout(c) \/ CollectBegin(c) \/ CollectFresh(c) \/ CollectEnd(c) \/ Collected(c)
         \/ \E v \in {"ack", "nak", "dead_letter"} : SettleBegin(c, v)
         \/ ReturnErr(c)
  PROVE  Aside
<1>1. UNCHANGED <<messages, groupVars, batch, msg>>
  BY DEF SubscribeBegin, Unsubscribe, Stop, Register, Notified, Timeout, CollectBegin,
    CollectFresh, CollectEnd, Collected, SettleBegin, ReturnErr, storeVars, groupVars, loopVars
<1>2. ConsumerStep(c)
  BY DEF ConsumerStep, SubscriptionStep, LoopStep, LockStep, HandlerStep
<1>3. \A d \in Consumers \ {c} : Held(d)' = Held(d)
  BY <1>2, ConsumerFrame DEF Inv
<1>4. InHand(c)' = InHand(c)
  <2>1. CASE ReturnErr(c)
    BY <2>1, <1>1 DEF ReturnErr, AfterErr, InHand, Inv, TypeOK, Goto, Settling
  <2>2. CASE \E v \in {"ack", "nak", "dead_letter"} : SettleBegin(c, v)
    BY <2>2, <1>1 DEF SettleBegin, Unsettled, InHand, Inv, TypeOK, Goto, Settling
  <2>3. CASE ~ReturnErr(c) /\ ~\E v \in {"ack", "nak", "dead_letter"} : SettleBegin(c, v)
    <3>1. \/ pc[c] \notin Settling \cup {"handle"} /\ pc'[c] \notin Settling \cup {"handle"}
          \/ pc'[c] = pc[c] /\ acked' = acked
      BY <2>3 DEF SubscribeBegin, Unsubscribe, Stop, Register, Notified, Timeout, CollectBegin,
        CollectFresh, CollectEnd, Collected, Inv, TypeOK, Goto, Settling, StopPoints
    <3> QED BY <3>1, <1>1 DEF InHand
  <2> QED BY <2>1, <2>2, <2>3
<1>5. Held(c)' = Held(c)
  BY <1>1, <1>4 DEF Held
<1> QED BY <1>1, <1>3, <1>5 DEF Aside, SameHeld

\* The types a consumer's step works with.
LEMMA HandTypes ==
  ASSUME Inv, NEW c \in Consumers
  PROVE  /\ batch[c] \in Seq(Envelopes) /\ DOMAIN batch = Consumers
         /\ InHand(c) \subseteq Ids /\ IdsOf(batch[c]) \subseteq Ids /\ Held(c) \subseteq Ids
         /\ pc[c] \in Settling \cup {"handle"} => msg[c].id \in Ids
         /\ Held(c) = InHand(c) \cup IdsOf(batch[c])
         /\ redeliver[GroupOf[c]] \in Seq(Ids)
         /\ DOMAIN redeliver = Groups /\ DOMAIN pending = Groups /\ DOMAIN cursor = Groups
         /\ DOMAIN settled = Groups /\ DOMAIN stranded = Groups
<1>1. /\ InHand(c) \subseteq Ids /\ IdsOf(batch[c]) \subseteq Ids /\ Held(c) \subseteq Ids
  BY HeldType DEF Inv
<1>2. pc[c] \in Settling \cup {"handle"} => msg[c].id \in Ids
  BY DEF Inv, Equipped, Envelopes
<1> QED BY <1>1, <1>2, Topology DEF Inv, TypeOK, Held

\* The next message of the batch goes into the handler.
LEMMA NextMessageEffect ==
  ASSUME Inv, GroupInv, NEW c \in Consumers, NextMessage(c)
  PROVE  /\ Aside
         /\ InHand(c)' \cap IdsOf(batch'[c]) = {} /\ Distinct(batch'[c])
<1>1. /\ pc[c] = "next" /\ batch[c] # <<>>
      /\ pc'[c] = "handle" /\ ~acked'[c]
      /\ msg'[c] = Head(batch[c]) /\ batch'[c] = Tail(batch[c])
      /\ UNCHANGED <<messages, groupVars>>
  BY DEF NextMessage, Goto, Inv, TypeOK, storeVars, groupVars
<1>2. InHand(c) = {} /\ InHand(c)' = {Head(batch[c]).id}
  BY <1>1 DEF InHand, Settling
<1>3. /\ IdsOf(batch[c]) = {Head(batch[c]).id} \cup IdsOf(batch'[c])
      /\ Head(batch[c]).id \notin IdsOf(batch'[c]) /\ Distinct(batch'[c])
  BY <1>1, HandTypes, IdsOfTail DEF GroupInv, InHandOnce
<1>4. Held(c)' = Held(c)
  BY <1>2, <1>3 DEF Held
<1>5. \A d \in Consumers \ {c} : Held(d)' = Held(d)
  BY ConsumerFrame DEF Inv, ConsumerStep, LoopStep
<1> QED BY <1>1, <1>2, <1>3, <1>4, <1>5 DEF Aside, SameHeld

\* A batch that ends, or a handler that lets go of its message, a panic, strand ids.
LEMMA StrandedEffect ==
  ASSUME Inv, GroupInv, NEW c \in Consumers,
         EndBatch(c) \/ ReturnOk(c) \/ DropSettle(c) \/ Panic(c)
  PROVE  /\ \E ids \in SUBSET Ids : Stranded(c, ids)
         /\ InHand(c)' = {}
         /\ batch'[c] = batch[c] \/ batch'[c] = <<>>
<1>1. OthersHeld(c)
  BY ConsumerFrame DEF Inv, ConsumerStep, LoopStep, HandlerStep, FaultStep, OthersHeld
<1>2. InHand(c) \cap IdsOf(batch[c]) = {} /\ Held(c) = InHand(c) \cup IdsOf(batch[c])
      /\ Held(c)' = InHand(c)' \cup IdsOf(batch'[c])
      /\ InHand(c) \subseteq Ids /\ IdsOf(batch[c]) \subseteq Ids
  BY HandTypes DEF GroupInv, InHandOnce, Held
<1>3. UNCHANGED <<messages, groups, cursor, pending, redeliver, settled, skipped>>
  BY DEF EndBatch, ReturnOk, DropSettle, Panic, storeVars
<1>4. CASE ReturnOk(c) \/ DropSettle(c)
  <2>1. InHand(c)' = {} /\ batch'[c] = batch[c]
    BY <1>4 DEF ReturnOk, DropSettle, InHand, GroupInv, Handling, Settling, Goto, Inv, TypeOK
  <2>2. stranded' = [stranded EXCEPT ![GroupOf[c]] = @ \cup InHand(c)]
    BY <1>4 DEF ReturnOk, DropSettle
  <2>3. Held(c)' = Held(c) \ InHand(c)
    BY <1>2, <2>1
  <2> QED BY <1>1, <1>2, <1>3, <2>1, <2>2, <2>3 DEF Stranded
<1>5. CASE EndBatch(c)
  <2>1. InHand(c) = {} /\ InHand(c)' = {} /\ batch'[c] = <<>>
    BY <1>5 DEF EndBatch, InHand, Settling, Goto, Inv, TypeOK
  <2>2. stranded' = [stranded EXCEPT ![GroupOf[c]] = @ \cup IdsOf(batch[c])]
    BY <1>5 DEF EndBatch
  <2>3. Held(c)' = Held(c) \ IdsOf(batch[c])
    BY <1>2, <2>1, IdsOfEmpty
  <2> QED BY <1>1, <1>2, <1>3, <2>1, <2>2, <2>3 DEF Stranded
<1>6. CASE Panic(c)
  <2>1. InHand(c)' = {} /\ batch'[c] = <<>>
    BY <1>6 DEF Panic, InHand, Settling, Goto, Inv, TypeOK
  <2>2. stranded' = [stranded EXCEPT ![GroupOf[c]] = @ \cup Held(c)]
    BY <1>6 DEF Panic
  <2>3. Held(c)' = Held(c) \ Held(c)
    BY <1>2, <2>1, IdsOfEmpty
  <2> QED BY <1>1, <1>2, <1>3, <2>1, <2>2, <2>3 DEF Stranded
<1> QED BY <1>4, <1>5, <1>6

\* A verdict takes effect on the message in the handler.
LEMMA VerdictEffect ==
  ASSUME Inv, GroupInv, NEW c \in Consumers,
         AckCommit(c) \/ NakCommit(c) \/ DeadLetterCommit(c)
  PROVE  /\ \E x \in Ids : \/ Acknowledged(c, x) \/ Returned(c, x)
                           \/ \E e \in Envelopes : DeadLettered(c, x, e)
         /\ InHand(c)' = {} /\ batch'[c] = batch[c]
<1> DEFINE x == msg[c].id
<1>1. /\ pc[c] \in Settling /\ acked[c] /\ pc'[c] \in {"handle", "next"} /\ acked' = acked
      /\ batch' = batch /\ msg' = msg
  BY DEF AckCommit, NakCommit, DeadLetterCommit, Settling, GroupInv, Handling, Goto, Inv, TypeOK
<1>2. x \in Ids /\ InHand(c) = {x} /\ InHand(c)' = {}
  BY <1>1, HandTypes DEF InHand, Settling
<1>3. OthersHeld(c)
  BY ConsumerFrame DEF Inv, ConsumerStep, LockStep, OthersHeld
<1>4. Freed(c, x)
  <2>1. x \notin IdsOf(batch[c])
    BY <1>2 DEF GroupInv, InHandOnce
  <2> QED BY <1>1, <1>2, <1>3, <2>1 DEF Freed, Held
<1>5. CASE AckCommit(c)
  BY <1>1, <1>2, <1>4, <1>5 DEF AckCommit, Release, Released, Acknowledged
<1>6. CASE NakCommit(c)
  BY <1>1, <1>2, <1>4, <1>6 DEF NakCommit, Requeue, Returned
<1>7. CASE DeadLetterCommit(c)
  <2> DEFINE s == DeadLetterOf[SubjectFor(c)]  e == draft[c]
  <2>1. /\ Drafting(c) /\ s \in Subjects /\ e \in Envelopes /\ Unpublished(e.id)
        /\ AppendTo(s, e)
    BY <1>7, DeadLetterEffect DEF Inv
  <2>2. e.id \in Ids /\ Drawn(e.id)
    BY <2>1 DEF Envelopes, Drawn
  <2>3. Appended(s, e)
    BY <2>1, <2>2, UnpublishedIsNew DEF Appended, AppendTo, GroupInv
  <2>4. e.origin = <<GroupOf[c], x>>
    BY <1>7 DEF DeadLetterCommit, GroupInv, Origin
  <2>5. Released(c, x)
    BY <1>4, <1>7 DEF DeadLetterCommit, Release, Released
  <2> QED BY <1>1, <1>2, <2>1, <2>3, <2>4, <2>5 DEF DeadLettered
<1> QED BY <1>5, <1>6, <1>7

\* Phase 1 takes an id off the redelivery queue.
LEMMA RedeliveryEffect ==
  ASSUME Inv, GroupInv, NEW c \in Consumers, CollectRedelivery(c)
  PROVE  /\ Retook(c)
         /\ InHand(c)' = InHand(c)
         /\ InHand(c)' \cap IdsOf(batch'[c]) = {} /\ Distinct(batch'[c])
<1> DEFINE g == GroupOf[c]  s == SubjectFor(c)
           x == Head(redeliver[g])  i == idIndex[s][x]
<1>1. /\ pc[c] = "redeliver" /\ redeliver[g] # <<>>
      /\ redeliver' = [redeliver EXCEPT ![g] = Tail(@)]
      /\ batch'[c] = IF i = 0 THEN batch[c] ELSE Append(batch[c], messages[s][i])
      /\ UNCHANGED <<messages, groups, cursor, pending, historyVars, pc, msg, acked>>
  BY DEF CollectRedelivery, Inv, TypeOK
<1>2. g \in Groups /\ s \in Subjects /\ s = SubjectOf[g]
  BY Topology
<1>3. x \in Ids /\ x \in Range(redeliver[g])
  BY <1>1, HandTypes, RangeTail
<1>4. InHand(c)' = InHand(c)
  BY <1>1 DEF InHand
<1>5. x \notin Held(c)
  BY <1>3 DEF GroupInv, OneHolder
<1>6. OthersHeld(c)
  BY ConsumerFrame DEF Inv, ConsumerStep, LoopStep, OthersHeld
<1>7. InHand(c) \cap IdsOf(batch[c]) = {} /\ Distinct(batch[c])
  BY DEF GroupInv, InHandOnce
<1>8. CASE i = 0
  <2>1. x \notin IdsOf(StreamOf(g))
    BY <1>2, <1>3, <1>8, StreamIds DEF StreamOf, Inv
  <2>2. Held(c)' = Held(c)
    BY <1>1, <1>4, <1>8 DEF Held
  <2> QED BY <1>1, <1>4, <1>6, <1>7, <1>8, <2>1, <2>2 DEF Retook
<1>9. CASE i # 0
  <2>1. /\ x \in IdsOf(StreamOf(g)) /\ i \in 1..Len(messages[s])
        /\ messages[s][i] \in Envelopes /\ messages[s][i].id = x
    BY <1>2, <1>3, <1>9, StreamIds DEF StreamOf, Inv
  <2>2. x \notin InHand(c) /\ x \notin IdsOf(batch[c])
    BY <1>5 DEF Held
  <2>3. IdsOf(batch'[c]) = IdsOf(batch[c]) \cup {x} /\ Distinct(batch'[c])
    <3> DEFINE e == messages[s][i]  b == batch[c]
    <3>1. batch'[c] = Append(b, e)
      BY <1>1, <1>9
    <3>2. b \in Seq(Envelopes) /\ e \in Envelopes /\ e.id = x /\ x \notin IdsOf(b) /\ Distinct(b)
      BY <1>7, <2>1, <2>2, HandTypes
    <3> HIDE DEF e, b, x
    <3>3. IdsOf(Append(b, e)) = IdsOf(b) \cup {e.id} /\ Distinct(Append(b, e))
      BY <3>2, IdsOfAppend
    <3> QED BY <3>1, <3>2, <3>3 DEF b
  <2>4. Held(c)' = Held(c) \cup {x}
    BY <1>4, <2>3 DEF Held
  <2> QED BY <1>1, <1>4, <1>6, <1>7, <2>1, <2>2, <2>3, <2>4 DEF Retook
<1> QED BY <1>8, <1>9

\* Phase 2 meets only what the group never had, and takes it.
LEMMA ScanEffect ==
  ASSUME Inv, GroupInv, NEW c \in Consumers, CollectNext(c)
  PROVE  /\ Took(c)
         /\ cursor[GroupOf[c]] + 1 = scan.next /\ cursor'[GroupOf[c]] = scan.next
         /\ StreamOf(GroupOf[c])[scan.next].id \notin pending[GroupOf[c]]
         /\ batch'[c] = Append(batch[c], StreamOf(GroupOf[c])[scan.next])
         /\ InHand(c)' = InHand(c)
         /\ InHand(c)' \cap IdsOf(batch'[c]) = {} /\ Distinct(batch'[c])
<1> DEFINE g == GroupOf[c]  s == SubjectFor(c)  i == scan.next  e == messages[s][i]
<1>1. g \in Groups /\ s \in Subjects /\ StreamOf(g) = messages[s] /\ g \in groups
  BY Topology DEF StreamOf, CollectNext, GroupInv, Handling
<1>2. i = cursor[g] + 1 /\ cursor[g] \in Nat /\ i \in 1..Len(messages[s])
  BY <1>1 DEF CollectNext, GroupInv, ScanFollows, Inv, ScanInRange, TypeOK
<1>3. e \in Envelopes /\ e.id \in IdsOf(messages[s]) /\ e.id \in Ids
  <2>1. /\ \A j \in 1..Len(messages[s]) : messages[s][j] \in Envelopes /\ messages[s][j].id \in Ids
        /\ IdsOf(messages[s]) = {messages[s][j].id : j \in 1..Len(messages[s])}
    BY <1>1, StreamIds DEF Inv
  <2> QED BY <1>2, <2>1
<1>4. e.id \notin pending[g] \cup settled[g] \cup skipped[g]
  <2>1. ~(i <= cursor[g])
    BY <1>2
  <2> QED
    BY <1>1, <1>2, <2>1 DEF GroupInv, CursorSplitsStream, StreamOf
<1>5. e.id \notin Held(c)
  <2>1. Claimed(g) \cap IdsOf(messages[s]) \subseteq pending[g]
    BY <1>1 DEF GroupInv, PendingIsExact, StreamOf
  <2> QED BY <1>3, <1>4, <2>1, ClaimedIs
<1>6. /\ pending' = [pending EXCEPT ![g] = @ \cup {e.id}]
      /\ cursor' = [cursor EXCEPT ![g] = i]
      /\ batch'[c] = Append(batch[c], e)
      /\ UNCHANGED <<messages, groups, redeliver, historyVars, pc, msg, acked>>
  BY <1>4 DEF CollectNext, Inv, TypeOK
<1>7. InHand(c)' = InHand(c)
  BY <1>6 DEF InHand
<1>8. /\ e.id \notin InHand(c) /\ e.id \notin IdsOf(batch[c])
      /\ InHand(c) \cap IdsOf(batch[c]) = {} /\ Distinct(batch[c])
  BY <1>5 DEF Held, GroupInv, InHandOnce
<1>9. IdsOf(batch'[c]) = IdsOf(batch[c]) \cup {e.id} /\ Distinct(batch'[c])
  BY <1>3, <1>6, <1>8, HandTypes, IdsOfAppend
<1>10. Held(c)' = Held(c) \cup {e.id}
  BY <1>7, <1>9 DEF Held
<1>11. OthersHeld(c)
  BY ConsumerFrame DEF Inv, ConsumerStep, LoopStep, OthersHeld
<1>12. cursor'[g] = i
  BY <1>1, <1>6 DEF Inv, TypeOK
<1>13. Took(c)
  BY <1>1, <1>2, <1>6, <1>10, <1>11 DEF Took, StreamOf
<1> QED BY <1>1, <1>2, <1>4, <1>6, <1>7, <1>8, <1>9, <1>12, <1>13

\* Every step has one of these effects, and no consumer gets a message twice by it.
LEMMA StepEffect ==
  ASSUME Inv, GroupInv, [Next]_vars
  PROVE  Effect /\ InHandOnce'
<1>1. ASSUME NEW c \in Consumers, ConsumerStep(c)
      PROVE  /\ ConsumerEffect(c)
             /\ InHand(c)' \cap IdsOf(batch'[c]) = {} /\ Distinct(batch'[c])
  <2>0. /\ InHand(c) \cap IdsOf(batch[c]) = {} /\ Distinct(batch[c])
        /\ IdsOf(<<>>) = {} /\ Distinct(<<>>)
    BY IdsOfEmpty DEF GroupInv, InHandOnce
  <2>1. CASE \E start \in Starts : SubscribeCommit(c, start)
    <3>1. InHand(c)' = InHand(c) /\ batch'[c] = batch[c]
      BY <2>1 DEF SubscribeCommit, InHand, Goto, Inv, TypeOK, Settling
    <3> QED BY <2>0, <2>1, <3>1, SubscribeEffect DEF ConsumerEffect
  <2>2. CASE \/ SubscribeBegin(c) \/ Unsubscribe(c) \/ Stop(c) \/ Register(c) \/ Notified(c)
             \/ Timeout(c) \/ CollectBegin(c) \/ CollectFresh(c) \/ CollectEnd(c)
             \/ Collected(c)
             \/ \E v \in {"ack", "nak", "dead_letter"} : SettleBegin(c, v)
             \/ ReturnErr(c)
    <3>1. Aside
      BY <2>2, LoopEffect
    <3>2. batch' = batch
      BY <2>2 DEF SubscribeBegin, Unsubscribe, Stop, Register, Notified, Timeout,
        CollectBegin, CollectFresh, CollectEnd, Collected, SettleBegin, ReturnErr, loopVars
    <3>3. InHand(c)' \subseteq InHand(c)
      BY <2>2 DEF SubscribeBegin, Unsubscribe, Stop, Register, Notified, Timeout,
        CollectBegin, CollectFresh, CollectEnd, Collected, SettleBegin, ReturnErr, AfterErr,
        Unsettled, Inv, TypeOK, Goto, Settling, StopPoints, InHand
    <3> QED BY <2>0, <3>1, <3>2, <3>3 DEF ConsumerEffect
  <2>3. CASE NextMessage(c)
    BY <2>3, NextMessageEffect DEF ConsumerEffect
  <2>4. CASE EndBatch(c) \/ ReturnOk(c) \/ DropSettle(c) \/ Panic(c)
    BY <2>0, <2>4, StrandedEffect DEF ConsumerEffect
  <2>5. CASE AckCommit(c) \/ NakCommit(c) \/ DeadLetterCommit(c)
    BY <2>0, <2>5, VerdictEffect DEF ConsumerEffect
  <2>6. CASE CollectRedelivery(c)
    BY <2>6, RedeliveryEffect DEF ConsumerEffect
  <2>7. CASE CollectNext(c)
    BY <2>7, ScanEffect DEF ConsumerEffect
  <2> QED
    BY <1>1, <2>1, <2>2, <2>3, <2>4, <2>5, <2>6, <2>7
    DEF ConsumerStep, SubscriptionStep, LoopStep, LockStep, HandlerStep, FaultStep
<1>2. ASSUME NEW k \in Callers, ClientStep(k)
      PROVE  Effect /\ InHandOnce'
  BY <1>2, ClientEffect, ClientFrame DEF GroupInv, InHandOnce
<1>3. ASSUME Close \/ Tick \/ UNCHANGED vars
      PROVE  Effect /\ InHandOnce'
  <2>1. UNCHANGED <<messages, groupVars, pc, msg, acked, batch>>
    BY <1>3 DEF Close, Tick, vars, storeVars, groupVars, loopVars
  <2>2. \A c \in Consumers : InHand(c)' = InHand(c) /\ Held(c)' = Held(c)
    BY <2>1 DEF InHand, Held
  <2> QED BY <2>1, <2>2 DEF Effect, Aside, SameHeld, GroupInv, InHandOnce
<1>4. ASSUME NEW c \in Consumers, ConsumerStep(c)
      PROVE  Effect /\ InHandOnce'
  BY <1>1, <1>4, ConsumerFrame DEF Effect, GroupInv, InHandOnce, Inv
<1> QED BY <1>2, <1>3, <1>4 DEF Next

-----------------------------------------------------------------------------
(* The invariants of a group, effect by effect. *)

\* The domains and types the effects work with.
LEMMA GroupTypes ==
  ASSUME Inv
  PROVE  /\ DOMAIN messages = Subjects /\ DOMAIN cursor = Groups /\ DOMAIN pending = Groups
         /\ DOMAIN redeliver = Groups /\ DOMAIN settled = Groups /\ DOMAIN skipped = Groups
         /\ DOMAIN stranded = Groups
         /\ \A g \in Groups :
              /\ cursor[g] \in Nat /\ redeliver[g] \in Seq(Ids)
              /\ pending[g] \subseteq Ids /\ settled[g] \subseteq Ids
              /\ skipped[g] \subseteq Ids /\ stranded[g] \subseteq Ids
              /\ SubjectOf[g] \in Subjects
         /\ \A c \in Consumers : GroupOf[c] \in Groups /\ Held(c) \subseteq Ids
BY Topology, HeldType DEF Inv, TypeOK

\* What a group takes next is new to it.
LEMMA TookNew ==
  ASSUME Inv, GroupInv, NEW c \in Consumers, Took(c)
  PROVE  LET g == GroupOf[c]
             x == StreamOf(g)[cursor[g] + 1].id
         IN /\ g \in Groups /\ g \in groups
            /\ cursor[g] + 1 \in 1..Len(StreamOf(g))
            /\ x \in IdsOf(StreamOf(g)) /\ x \in Ids
            /\ x \notin pending[g] \cup settled[g] \cup skipped[g]
            /\ x \notin Range(redeliver[g])
            /\ \A d \in Consumers : GroupOf[d] = g => x \notin Held(d)
<1> DEFINE g == GroupOf[c]  i == cursor[g] + 1  x == StreamOf(g)[i].id
<1>1. g \in Groups /\ g \in groups /\ i \in 1..Len(StreamOf(g)) /\ ~(i <= cursor[g])
  BY GroupTypes, StreamIds DEF Took, StreamOf, Inv
<1>2. x \in IdsOf(StreamOf(g)) /\ x \in Ids
  <2>1. /\ \A j \in 1..Len(StreamOf(g)) : StreamOf(g)[j].id \in Ids
        /\ IdsOf(StreamOf(g)) = {StreamOf(g)[j].id : j \in 1..Len(StreamOf(g))}
    BY <1>1, StreamIds, GroupTypes DEF Inv, StreamOf
  <2> QED BY <1>1, <2>1
<1>3. x \notin pending[g] \cup settled[g] \cup skipped[g]
  BY <1>1 DEF GroupInv, CursorSplitsStream, StreamOf
<1>4. x \notin Claimed(g)
  BY <1>1, <1>2, <1>3 DEF GroupInv, PendingIsExact, StreamOf
<1> QED BY <1>1, <1>2, <1>3, <1>4, ClaimedIs

\* OneHolder but for what is within one consumer.
Apart ==
  \A c \in Consumers :
    /\ \A d \in Consumers \ {c} : GroupOf[c] = GroupOf[d] => Held(c) \cap Held(d) = {}
    /\ Held(c) \cap Range(redeliver[GroupOf[c]]) = {}
    /\ NoRepeat(redeliver[GroupOf[c]])

LEMMA ApartIs == OneHolder <=> Apart /\ InHandOnce
BY DEF OneHolder, Apart, InHandOnce, Distinct, NoRepeat

LEMMA ApartStep ==
  ASSUME Inv, GroupInv, Effect
  PROVE  Apart'
<1>0. Apart
  BY ApartIs DEF GroupInv
<1>1. ASSUME redeliver' = redeliver, \A c \in Consumers : Held(c)' \subseteq Held(c)
      PROVE  Apart'
  BY <1>0, <1>1 DEF Apart
<1>2. ASSUME Aside \/ (\E s \in Subjects, e \in Envelopes : Published(s, e))
             \/ (\E s \in Subjects : \E n \in Nat : Expired(s, n))
             \/ (\E c \in Consumers : \E k \in Nat : Joined(GroupOf[c], k))
      PROVE  Apart'
  <2>1. redeliver' = redeliver /\ SameHeld
    BY <1>2 DEF Aside, Published, Expired, Joined, groupVars
  <2> QED BY <2>1, <1>1 DEF SameHeld
<1>3. ASSUME NEW c \in Consumers, NEW x \in Ids, Released(c, x)
      PROVE  Apart'
  BY <1>1, <1>3 DEF Released, Freed, OthersHeld
<1>4. ASSUME NEW c \in Consumers, NEW ids \in SUBSET Ids, Stranded(c, ids)
      PROVE  Apart'
  BY <1>1, <1>4 DEF Stranded, OthersHeld
<1>5. ASSUME NEW c \in Consumers, Took(c)
      PROVE  Apart'
  <2> DEFINE g == GroupOf[c]  x == StreamOf(g)[cursor[g] + 1].id
  <2>1. /\ x \notin Range(redeliver[g])
        /\ \A d \in Consumers : GroupOf[d] = g => x \notin Held(d)
    BY <1>5, TookNew
  <2>2. redeliver' = redeliver /\ Held(c)' = Held(c) \cup {x} /\ OthersHeld(c)
    BY <1>5 DEF Took
  <2> HIDE DEF x
  <2> QED BY <1>0, <2>1, <2>2 DEF Apart, OthersHeld
<1>6. ASSUME NEW c \in Consumers, Retook(c)
      PROVE  Apart'
  <2> DEFINE g == GroupOf[c]  x == Head(redeliver[g])
  <2>1. /\ g \in Groups /\ redeliver[g] \in Seq(Ids) /\ redeliver[g] # <<>>
        /\ redeliver' = [redeliver EXCEPT ![g] = Tail(@)]
        /\ Held(c)' \subseteq Held(c) \cup {x} /\ OthersHeld(c)
    BY <1>6, GroupTypes DEF Retook
  <2>2. redeliver'[g] = Tail(redeliver[g]) /\ \A h \in Groups \ {g} : redeliver'[h] = redeliver[h]
    BY <2>1, GroupTypes
  <2>3. /\ Range(redeliver[g]) = {x} \cup Range(redeliver'[g])
        /\ NoRepeat(redeliver[g]) => x \notin Range(redeliver'[g]) /\ NoRepeat(redeliver'[g])
    BY <2>1, <2>2, RangeTail
  <2>4. NoRepeat(redeliver[g])
    BY <1>0 DEF Apart
  <2>5. \A d \in Consumers : GroupOf[d] = g => x \notin Held(d)
    BY <1>0, <2>3 DEF Apart
  <2> HIDE DEF g, x
  <2>6. \A d \in Consumers : Range(redeliver'[GroupOf[d]]) \subseteq Range(redeliver[GroupOf[d]])
                             /\ NoRepeat(redeliver'[GroupOf[d]])
    BY <1>0, <2>2, <2>3, <2>4, GroupTypes DEF Apart
  <2>7. Held(c)' \cap Range(redeliver'[GroupOf[c]]) = {}
    BY <1>0, <2>1, <2>3, <2>4, <2>6 DEF Apart, g
  <2>8. \A d \in Consumers \ {c} : Held(d)' = Held(d)
    BY <2>1 DEF OthersHeld
  <2> QED BY <1>0, <2>1, <2>5, <2>6, <2>7, <2>8 DEF Apart, g
<1>7. ASSUME NEW c \in Consumers, NEW x \in Ids, Returned(c, x)
      PROVE  Apart'
  <2> DEFINE g == GroupOf[c]
  <2>1. /\ g \in Groups /\ redeliver[g] \in Seq(Ids) /\ x \in Held(c)
        /\ redeliver' = [redeliver EXCEPT ![g] = Append(@, x)]
        /\ Held(c)' = Held(c) \ {x} /\ OthersHeld(c)
    BY <1>7, GroupTypes DEF Returned, Freed
  <2>2. /\ redeliver'[g] = Append(redeliver[g], x)
        /\ \A h \in Groups \ {g} : redeliver'[h] = redeliver[h]
    BY <2>1, GroupTypes
  <2>3. NoRepeat(redeliver[g]) /\ x \notin Range(redeliver[g])
    BY <1>0, <2>1 DEF Apart
  <2>4. Range(redeliver'[g]) = Range(redeliver[g]) \cup {x} /\ NoRepeat(redeliver'[g])
    BY <2>1, <2>2, <2>3, RangeAppend
  <2>5. \A d \in Consumers \ {c} : GroupOf[d] = g => x \notin Held(d)
    BY <1>0, <2>1 DEF Apart
  <2> HIDE DEF g
  <2>6. \A d \in Consumers : Held(d)' \subseteq Held(d) /\ (GroupOf[d] = g => x \notin Held(d)')
    BY <2>1, <2>5 DEF OthersHeld
  <2>7. \A d \in Consumers : GroupOf[d] = g \/ redeliver'[GroupOf[d]] = redeliver[GroupOf[d]]
    BY <2>2, GroupTypes
  <2> QED BY <1>0, <2>4, <2>6, <2>7 DEF Apart
<1>8. ASSUME NEW c \in Consumers, ConsumerEffect(c)
      PROVE  Apart'
  BY <1>2, <1>3, <1>4, <1>5, <1>6, <1>7, <1>8 DEF ConsumerEffect, Acknowledged, DeadLettered
<1> QED BY <1>2, <1>8 DEF Effect

\* A settled message is nowhere else.
LEMMA SettledStep ==
  ASSUME Inv, GroupInv, Effect
  PROVE  SettledIsFinal'
<1>0. /\ SettledIsFinal /\ Apart
  BY ApartIs DEF GroupInv
<1>1. ASSUME settled' = settled,
             \A g \in Groups : /\ pending'[g] \subseteq pending[g]
                               /\ Range(redeliver'[g]) \subseteq Range(redeliver[g]),
             \A c \in Consumers : Held(c)' \subseteq Held(c)
      PROVE  SettledIsFinal'
  BY <1>0, <1>1 DEF SettledIsFinal
<1>2. ASSUME Aside \/ (\E s \in Subjects, e \in Envelopes : Published(s, e))
             \/ (\E s \in Subjects : \E n \in Nat : Expired(s, n))
             \/ (\E c \in Consumers : \E k \in Nat : Joined(GroupOf[c], k))
      PROVE  SettledIsFinal'
  <2>1. /\ settled' = settled /\ redeliver' = redeliver /\ SameHeld
        /\ \A g \in Groups : pending'[g] \subseteq pending[g]
    BY <1>2 DEF Aside, Published, Expired, Joined, groupVars, historyVars
  <2> QED BY <1>1, <2>1 DEF SameHeld
<1>3. ASSUME NEW c \in Consumers, NEW x \in Ids, Released(c, x)
      PROVE  SettledIsFinal'
  <2> DEFINE g == GroupOf[c]
  <2>1. /\ g \in Groups /\ x \in Held(c)
        /\ pending'[g] = pending[g] \ {x} /\ settled'[g] = settled[g] \cup {x}
        /\ \A h \in Groups \ {g} : pending'[h] = pending[h] /\ settled'[h] = settled[h]
        /\ redeliver' = redeliver
        /\ Held(c)' = Held(c) \ {x} /\ OthersHeld(c)
    BY <1>3, GroupTypes DEF Released, Freed
  <2>2. x \notin Range(redeliver[g]) /\ \A d \in Consumers \ {c} : GroupOf[d] = g => x \notin Held(d)
    BY <1>0, <2>1 DEF Apart
  <2> HIDE DEF g
  <2> QED BY <1>0, <2>1, <2>2 DEF SettledIsFinal, OthersHeld
<1>4. ASSUME NEW c \in Consumers, NEW ids \in SUBSET Ids, Stranded(c, ids)
      PROVE  SettledIsFinal'
  BY <1>1, <1>4 DEF Stranded, OthersHeld
<1>5. ASSUME NEW c \in Consumers, Took(c)
      PROVE  SettledIsFinal'
  <2> DEFINE g == GroupOf[c]  x == StreamOf(g)[cursor[g] + 1].id
  <2>1. g \in Groups /\ x \notin settled[g]
    BY <1>5, TookNew
  <2>2. /\ redeliver' = redeliver /\ Held(c)' = Held(c) \cup {x} /\ OthersHeld(c)
        /\ pending'[g] = pending[g] \cup {x} /\ settled' = settled
        /\ \A h \in Groups \ {g} : pending'[h] = pending[h]
    BY <1>5, <2>1, GroupTypes DEF Took, historyVars
  <2>3. \A d \in Consumers \ {c} : Held(d)' = Held(d)
    BY <2>2 DEF OthersHeld
  <2> HIDE DEF x
  <2> QED BY <1>0, <2>1, <2>2, <2>3 DEF SettledIsFinal
<1>6. ASSUME NEW c \in Consumers, Retook(c)
      PROVE  SettledIsFinal'
  <2> DEFINE g == GroupOf[c]  x == Head(redeliver[g])
  <2>1. /\ g \in Groups /\ redeliver[g] \in Seq(Ids) /\ redeliver[g] # <<>>
        /\ redeliver' = [redeliver EXCEPT ![g] = Tail(@)]
        /\ Held(c)' \subseteq Held(c) \cup {x} /\ OthersHeld(c)
        /\ pending' = pending /\ settled' = settled
    BY <1>6, GroupTypes DEF Retook, historyVars
  <2>2. redeliver'[g] = Tail(redeliver[g]) /\ \A h \in Groups \ {g} : redeliver'[h] = redeliver[h]
    BY <2>1, GroupTypes
  <2>3. Range(redeliver[g]) = {x} \cup Range(redeliver'[g])
    BY <2>1, <2>2, RangeTail
  <2>4. \A d \in Consumers \ {c} : Held(d)' = Held(d)
    BY <2>1 DEF OthersHeld
  <2>5. x \notin settled[g]
    BY <1>0, <2>1, <2>3 DEF SettledIsFinal
  <2> HIDE DEF x
  <2>6. \A h \in Groups : Range(redeliver'[h]) \subseteq Range(redeliver[h])
    BY <2>2, <2>3
  <2> QED BY <1>0, <2>1, <2>4, <2>5, <2>6 DEF SettledIsFinal
<1>7. ASSUME NEW c \in Consumers, NEW x \in Ids, Returned(c, x)
      PROVE  SettledIsFinal'
  <2> DEFINE g == GroupOf[c]
  <2>1. /\ g \in Groups /\ redeliver[g] \in Seq(Ids) /\ x \in Held(c)
        /\ redeliver' = [redeliver EXCEPT ![g] = Append(@, x)]
        /\ Held(c)' = Held(c) \ {x} /\ OthersHeld(c)
        /\ pending' = pending /\ settled' = settled
    BY <1>7, GroupTypes DEF Returned, Freed, historyVars
  <2>2. /\ redeliver'[g] = Append(redeliver[g], x)
        /\ \A h \in Groups \ {g} : redeliver'[h] = redeliver[h]
    BY <2>1, GroupTypes
  <2>3. Range(redeliver'[g]) = Range(redeliver[g]) \cup {x}
    BY <2>1, <2>2, RangeAppend
  <2>4. x \notin settled[g]
    BY <1>0, <2>1 DEF SettledIsFinal
  <2>5. \A d \in Consumers : Held(d)' \subseteq Held(d)
    BY <2>1 DEF OthersHeld
  <2> HIDE DEF g
  <2> QED BY <1>0, <2>1, <2>2, <2>3, <2>4, <2>5 DEF SettledIsFinal
<1>8. ASSUME NEW c \in Consumers, ConsumerEffect(c)
      PROVE  SettledIsFinal'
  BY <1>2, <1>3, <1>4, <1>5, <1>6, <1>7, <1>8 DEF ConsumerEffect, Acknowledged, DeadLettered
<1> QED BY <1>2, <1>8 DEF Effect

\* A trimmed stream has lost its first n messages, and the group's ids with them.
LEMMA Trimming ==
  ASSUME Inv, NEW s \in Subjects, NEW n \in 1..Len(messages[s]),
         messages' = [messages EXCEPT ![s] = SubSeq(@, n + 1, Len(@))]
  PROVE  LET old == IdsOf(SubSeq(messages[s], 1, n)) IN
         /\ \A t \in Subjects \ {s} : messages'[t] = messages[t]
         /\ Len(messages[s]) \in Nat /\ Len(messages'[s]) = Len(messages[s]) - n
         /\ \A i \in 1..Len(messages[s])-n : messages'[s][i] = messages[s][i + n]
         /\ \A i \in 1..Len(messages[s]) : messages[s][i].id \in old <=> i <= n
         /\ IdsOf(messages'[s]) = IdsOf(messages[s]) \ old
<1> DEFINE m == messages[s]  L == Len(m)
           a == SubSeq(m, 1, n)  b == SubSeq(m, n + 1, L)
<1>1. /\ m \in Seq(Envelopes) /\ L \in Nat /\ n \in 1..L
      /\ \A i \in 1..L : m[i] \in Envelopes
      /\ IdsOf(m) = {m[i].id : i \in 1..L}
      /\ \A i, j \in 1..L : i # j => m[i].id # m[j].id
  BY StreamIds DEF Inv, Distinct
<1>2. messages'[s] = b /\ \A t \in Subjects \ {s} : messages'[t] = messages[t]
  BY DEF Inv, TypeOK
<1> HIDE DEF m, L
<1>3. /\ a \in Seq(Envelopes) /\ Len(a) = n /\ \A i \in 1..n : a[i] = m[i]
      /\ b \in Seq(Envelopes) /\ Len(b) = L - n /\ \A i \in 1..L-n : b[i] = m[i + n]
  <2>1. \A i \in 1..n : m[i] \in Envelopes
    BY <1>1
  <2>2. \A i \in n+1..L : m[i] \in Envelopes
    BY <1>1
  <2>3. a \in Seq(Envelopes) /\ Len(a) = n /\ \A i \in 1..n : a[i] = m[1 + i - 1]
    BY <1>1, <2>1, SubSeqProperties
  <2>4. b \in Seq(Envelopes) /\ Len(b) = L - (n + 1) + 1
        /\ \A i \in 1..L-(n+1)+1 : b[i] = m[(n + 1) + i - 1]
    BY <1>1, <2>2, SubSeqProperties
  <2> HIDE DEF a, b
  <2>5. n \in Nat /\ L \in Nat /\ L - (n + 1) + 1 = L - n
    BY <1>1
  <2>6. \A i \in 1..n : 1 + i - 1 = i
    OBVIOUS
  <2>7. \A i \in 1..L-n : (n + 1) + i - 1 = i + n
    BY <2>5
  <2>8. \A i \in 1..n : a[i] = m[i]
    BY <2>3, <2>6
  <2>9. \A i \in 1..L-n : b[i] = m[i + n]
    BY <2>4, <2>5, <2>7
  <2> QED BY <2>3, <2>4, <2>5, <2>8, <2>9
<1>4. IdsOf(a) = {a[i].id : i \in 1..n} /\ IdsOf(b) = {b[i].id : i \in 1..L-n}
  BY <1>3, IdsOfSeq
<1> HIDE DEF a, b
<1>5. \A i \in 1..L : m[i].id \in IdsOf(a) <=> i <= n
  <2>1. ASSUME NEW i \in 1..L, i <= n  PROVE m[i].id \in IdsOf(a)
    <3>1. i \in 1..n
      BY <2>1, <1>1
    <3> QED BY <3>1, <1>3, <1>4
  <2>2. ASSUME NEW i \in 1..L, m[i].id \in IdsOf(a)  PROVE i <= n
    <3>1. PICK j \in 1..n : m[i].id = a[j].id
      BY <2>2, <1>4
    <3> QED BY <3>1, <1>1, <1>3
  <2> QED BY <2>1, <2>2
<1>6. ASSUME NEW x \in IdsOf(b)  PROVE x \in IdsOf(m) /\ x \notin IdsOf(a)
  <2>1. PICK i \in 1..L-n : x = b[i].id
    BY <1>4
  <2>2. i + n \in 1..L /\ ~(i + n <= n) /\ x = m[i + n].id
    BY <2>1, <1>1, <1>3
  <2> QED BY <2>2, <1>1, <1>5
<1>7. ASSUME NEW x \in IdsOf(m), x \notin IdsOf(a)  PROVE x \in IdsOf(b)
  <2>1. PICK i \in 1..L : x = m[i].id
    BY <1>1
  <2>2. ~(i <= n)
    BY <2>1, <1>5, <1>7
  <2>3. i - n \in 1..L-n /\ (i - n) + n = i
    BY <2>2, <1>1
  <2>4. b[i - n] = m[i]
    BY <2>3, <1>3
  <2> QED BY <2>1, <2>3, <2>4, <1>4
<1>8. IdsOf(b) = IdsOf(m) \ IdsOf(a)
  BY <1>6, <1>7
<1> QED BY <1>1, <1>2, <1>3, <1>5, <1>8 DEF m, L, a, b

\* Who claims an id after a step.
LEMMA ClaimedNext ==
  ASSUME NEW g, NEW id
  PROVE  id \in Claimed(g)' <=>
           \/ \E c \in Consumers : GroupOf[c] = g /\ id \in Held(c)'
           \/ id \in Range(redeliver'[g])
BY DEF Claimed

\* What a group claims changes with what its consumers hold and its queue.
LEMMA ClaimedSame ==
  ASSUME SameHeld, redeliver' = redeliver, NEW g \in Groups
  PROVE  Claimed(g)' = Claimed(g)
BY DEF SameHeld, Claimed

\* Who claims what, effect by effect.
LEMMA ClaimedStep ==
  ASSUME Inv, GroupInv, NEW c \in Consumers
  PROVE  LET g == GroupOf[c] IN
         /\ (OthersHeld(c) /\ \A h \in Groups \ {g} : redeliver'[h] = redeliver[h])
              => \A h \in Groups \ {g} : Claimed(h)' = Claimed(h)
         /\ Took(c) => Claimed(g)' = Claimed(g) \cup {StreamOf(g)[cursor[g] + 1].id}
         /\ Retook(c) => /\ Claimed(g)' \subseteq Claimed(g)
                         /\ Claimed(g) \cap IdsOf(StreamOf(g)) \subseteq Claimed(g)'
         /\ \A x \in Ids : Released(c, x) => Claimed(g)' = Claimed(g) \ {x}
         /\ \A x \in Ids : Returned(c, x) => Claimed(g)' = Claimed(g)
         /\ \A ids \in SUBSET Ids : Stranded(c, ids) => /\ Claimed(g)' \subseteq Claimed(g)
                                                        /\ Claimed(g) \ ids \subseteq Claimed(g)'
<1> DEFINE g == GroupOf[c]
<1>0. g \in Groups /\ redeliver[g] \in Seq(Ids) /\ DOMAIN redeliver = Groups
  BY GroupTypes
<1>1. Apart
  BY ApartIs DEF GroupInv
<1>2. \A h, id : /\ id \in Claimed(h) <=>
                       \/ \E d \in Consumers : GroupOf[d] = h /\ id \in Held(d)
                       \/ id \in Range(redeliver[h])
                 /\ id \in Claimed(h)' <=>
                       \/ \E d \in Consumers : GroupOf[d] = h /\ id \in Held(d)'
                       \/ id \in Range(redeliver'[h])
  BY ClaimedIs, ClaimedNext
<1>3. ASSUME OthersHeld(c), NEW h \in Groups \ {g}, redeliver'[h] = redeliver[h]
      PROVE  Claimed(h)' = Claimed(h)
  <2>1. \A d \in Consumers : GroupOf[d] = h => Held(d)' = Held(d)
    BY <1>3 DEF OthersHeld
  <2>2. \A id : id \in Claimed(h)' <=> id \in Claimed(h)
    BY <1>2, <1>3, <2>1
  <2> QED BY <2>2 DEF Claimed
<1>4. ASSUME Took(c)
      PROVE  Claimed(g)' = Claimed(g) \cup {StreamOf(g)[cursor[g] + 1].id}
  <2> DEFINE x == StreamOf(g)[cursor[g] + 1].id
  <2>1. Held(c)' = Held(c) \cup {x} /\ redeliver' = redeliver
        /\ \A d \in Consumers \ {c} : Held(d)' = Held(d)
    BY <1>4 DEF Took, OthersHeld
  <2> HIDE DEF x
  <2>2. \A id : id \in Claimed(g)' <=> (id \in Claimed(g) \/ id = x)
    BY <1>2, <2>1
  <2> QED BY <2>2 DEF Claimed, x
<1>5. ASSUME Retook(c)
      PROVE  /\ Claimed(g)' \subseteq Claimed(g)
             /\ Claimed(g) \cap IdsOf(StreamOf(g)) \subseteq Claimed(g)'
  <2> DEFINE x == Head(redeliver[g])
  <2>1. /\ redeliver[g] # <<>> /\ redeliver' = [redeliver EXCEPT ![g] = Tail(@)]
        /\ Held(c)' = (IF x \in IdsOf(StreamOf(g)) THEN Held(c) \cup {x} ELSE Held(c))
        /\ \A d \in Consumers \ {c} : Held(d)' = Held(d)
    BY <1>5 DEF Retook, OthersHeld
  <2>2. redeliver'[g] = Tail(redeliver[g])
    BY <1>0, <2>1
  <2>3. Range(redeliver[g]) = {x} \cup Range(redeliver'[g])
    BY <1>0, <2>1, <2>2, RangeTail
  <2> HIDE DEF x
  <2>4. \A id : id \in Claimed(g)' => id \in Claimed(g)
    BY <1>2, <2>1, <2>3
  <2>5. \A id \in IdsOf(StreamOf(g)) : id \in Claimed(g) => id \in Claimed(g)'
    BY <1>2, <2>1, <2>3
  <2> QED BY <2>4, <2>5
<1>6. ASSUME NEW x \in Ids, Released(c, x)
      PROVE  Claimed(g)' = Claimed(g) \ {x}
  <2>1. x \in Held(c) /\ Held(c)' = Held(c) \ {x} /\ redeliver' = redeliver
        /\ \A d \in Consumers \ {c} : Held(d)' = Held(d)
    BY <1>6 DEF Released, Freed, OthersHeld
  <2>2. /\ x \notin Range(redeliver[g])
        /\ \A d \in Consumers \ {c} : GroupOf[d] = g => x \notin Held(d)
    BY <1>1, <2>1 DEF Apart
  <2>3. \A id : id \in Claimed(g)' <=> (id \in Claimed(g) /\ id # x)
    BY <1>2, <2>1, <2>2
  <2> QED BY <2>3
<1>7. ASSUME NEW x \in Ids, Returned(c, x)
      PROVE  Claimed(g)' = Claimed(g)
  <2>1. x \in Held(c) /\ Held(c)' = Held(c) \ {x}
        /\ redeliver' = [redeliver EXCEPT ![g] = Append(@, x)]
        /\ \A d \in Consumers \ {c} : Held(d)' = Held(d)
    BY <1>7 DEF Returned, Freed, OthersHeld
  <2>2. redeliver'[g] = Append(redeliver[g], x)
    BY <1>0, <2>1
  <2>3. Range(redeliver'[g]) = Range(redeliver[g]) \cup {x}
    BY <1>0, <2>2, RangeAppend
  <2>4. \A id : id \in Claimed(g)' <=> id \in Claimed(g)
    BY <1>2, <2>1, <2>3
  <2> QED BY <2>4
<1>8. ASSUME NEW ids \in SUBSET Ids, Stranded(c, ids)
      PROVE  Claimed(g)' \subseteq Claimed(g) /\ Claimed(g) \ ids \subseteq Claimed(g)'
  <2>1. Held(c)' = Held(c) \ ids /\ redeliver' = redeliver
        /\ \A d \in Consumers \ {c} : Held(d)' = Held(d)
    BY <1>8 DEF Stranded, OthersHeld
  <2>2. \A id : /\ id \in Claimed(g)' => id \in Claimed(g)
                /\ id \in Claimed(g) /\ id \notin ids => id \in Claimed(g)'
    BY <1>2, <2>1
  <2> QED BY <2>2
<1> QED BY <1>3, <1>4, <1>5, <1>6, <1>7, <1>8

\* An id that is new is claimed by no group.
LEMMA NewIsUnclaimed ==
  ASSUME NEW id, NewId(id), NEW g \in Groups
  PROVE  /\ id \notin Claimed(g)
         /\ id \notin pending[g] \cup settled[g] \cup skipped[g] \cup stranded[g]
         /\ id \notin Range(redeliver[g])
BY ClaimedIs DEF NewId, Untouched, Known

\* The pending sets stay exact.
LEMMA PendingStep ==
  ASSUME Inv, GroupInv, Effect
  PROVE  PendingIsExact'
<1> DEFINE Exact(g) == /\ pending[g] \subseteq Claimed(g) \cup stranded[g]
                       /\ Claimed(g) \cap IdsOf(StreamOf(g)) \subseteq pending[g]
<1>0. \A g \in Groups : Exact(g) /\ pending[g] \subseteq IdsOf(StreamOf(g))
  BY DEF GroupInv, PendingIsExact, OnStream, StreamOf
<1> SUFFICES ASSUME NEW g \in Groups  PROVE Exact(g)'
  BY DEF PendingIsExact, StreamOf
<1>1. ASSUME NEW s \in Subjects, NEW e \in Envelopes, Appended(s, e)
      PROVE  /\ IdsOf(StreamOf(g)') \subseteq IdsOf(StreamOf(g)) \cup {e.id}
             /\ e.id \notin Claimed(g)
  <2>1. /\ IdsOf(messages'[s]) = IdsOf(messages[s]) \cup {e.id}
        /\ \A t \in Subjects \ {s} : messages'[t] = messages[t]
    BY <1>1, Appending DEF Appended, Inv
  <2>2. e.id \notin Claimed(g)
    BY <1>1, NewIsUnclaimed DEF Appended
  <2> QED BY <2>1, <2>2, Topology DEF StreamOf
<1>2. ASSUME Aside
      PROVE  Exact(g)'
  <2>1. Claimed(g)' = Claimed(g) /\ UNCHANGED <<messages, pending, stranded>>
    BY <1>2, ClaimedSame DEF Aside, groupVars, historyVars
  <2> QED BY <1>0, <2>1 DEF StreamOf
<1>3. ASSUME NEW s \in Subjects, NEW e \in Envelopes, Published(s, e)
      PROVE  Exact(g)'
  <2>1. Claimed(g)' = Claimed(g) /\ UNCHANGED <<pending, stranded>>
    BY <1>3, ClaimedSame DEF Published, groupVars, historyVars
  <2> QED BY <1>0, <1>1, <1>3, <2>1 DEF Published, StreamOf
<1>4. ASSUME NEW s \in Subjects, NEW n \in Nat, Expired(s, n)
      PROVE  Exact(g)'
  <2> DEFINE old == IdsOf(SubSeq(messages[s], 1, n))
  <2>1. Claimed(g)' = Claimed(g) /\ UNCHANGED stranded
    BY <1>4, ClaimedSame DEF Expired, historyVars
  <2>2. /\ IdsOf(messages'[s]) = IdsOf(messages[s]) \ old
        /\ \A t \in Subjects \ {s} : messages'[t] = messages[t]
        /\ pending'[g] = IF SubjectOf[g] = s THEN pending[g] \ old ELSE pending[g]
    BY <1>4, Trimming DEF Expired
  <2> HIDE DEF old
  <2> QED BY <1>0, <2>1, <2>2, Topology DEF StreamOf
<1>5. ASSUME NEW h \in Groups, NEW k \in Nat, Joined(h, k)
      PROVE  Exact(g)'
  <2>1. Claimed(g)' = Claimed(g) /\ UNCHANGED <<messages, pending, stranded>>
    BY <1>5, ClaimedSame DEF Joined
  <2> QED BY <1>0, <2>1 DEF StreamOf
<1>6. ASSUME NEW c \in Consumers, NEW x \in Ids, Released(c, x),
             UNCHANGED messages \/ (\E s \in Subjects, e \in Envelopes : Appended(s, e))
      PROVE  Exact(g)'
  <2>1. /\ GroupOf[c] \in Groups /\ OthersHeld(c)
        /\ pending'[g] = (IF g = GroupOf[c] THEN pending[g] \ {x} ELSE pending[g])
        /\ UNCHANGED <<redeliver, stranded>>
    BY <1>6, GroupTypes DEF Released, Freed
  <2>2. Claimed(g)' = (IF g = GroupOf[c] THEN Claimed(g) \ {x} ELSE Claimed(g))
    BY <1>6, <2>1, ClaimedStep
  <2>3. IdsOf(StreamOf(g)') \cap Claimed(g) \subseteq IdsOf(StreamOf(g))
    BY <1>1, <1>6 DEF StreamOf
  <2> QED BY <1>0, <2>1, <2>2, <2>3 DEF StreamOf
<1>7. ASSUME NEW c \in Consumers, NEW x \in Ids, Returned(c, x)
      PROVE  Exact(g)'
  <2>1. /\ GroupOf[c] \in Groups /\ OthersHeld(c)
        /\ UNCHANGED <<messages, pending, stranded>>
        /\ \A h \in Groups \ {GroupOf[c]} : redeliver'[h] = redeliver[h]
    BY <1>7, GroupTypes DEF Returned, Freed, historyVars
  <2>2. Claimed(g)' = Claimed(g)
    BY <1>7, <2>1, ClaimedStep
  <2> QED BY <1>0, <2>1, <2>2 DEF StreamOf
<1>8. ASSUME NEW c \in Consumers, NEW ids \in SUBSET Ids, Stranded(c, ids)
      PROVE  Exact(g)'
  <2>1. /\ GroupOf[c] \in Groups /\ OthersHeld(c)
        /\ UNCHANGED <<messages, pending, redeliver>>
        /\ stranded'[g] = (IF g = GroupOf[c] THEN stranded[g] \cup ids ELSE stranded[g])
    BY <1>8, GroupTypes DEF Stranded
  <2>2. /\ Claimed(g)' \subseteq Claimed(g)
        /\ Claimed(g) \ ids \subseteq Claimed(g)'
        /\ g # GroupOf[c] => Claimed(g)' = Claimed(g)
    BY <1>8, <2>1, ClaimedStep
  <2> QED BY <1>0, <2>1, <2>2 DEF StreamOf
<1>9. ASSUME NEW c \in Consumers, Took(c)
      PROVE  Exact(g)'
  <2> DEFINE h == GroupOf[c]  x == StreamOf(h)[cursor[h] + 1].id
  <2>1. /\ h \in Groups /\ OthersHeld(c)
        /\ UNCHANGED <<messages, redeliver, stranded>>
        /\ pending'[g] = (IF g = h THEN pending[g] \cup {x} ELSE pending[g])
    BY <1>9, GroupTypes DEF Took, historyVars
  <2>2. Claimed(g)' = (IF g = h THEN Claimed(g) \cup {x} ELSE Claimed(g))
    BY <1>9, <2>1, ClaimedStep
  <2> HIDE DEF x
  <2> QED BY <1>0, <2>1, <2>2 DEF StreamOf
<1>10. ASSUME NEW c \in Consumers, Retook(c)
      PROVE  Exact(g)'
  <2>1. /\ GroupOf[c] \in Groups /\ OthersHeld(c)
        /\ UNCHANGED <<messages, pending, stranded>>
        /\ \A h \in Groups \ {GroupOf[c]} : redeliver'[h] = redeliver[h]
    BY <1>10, GroupTypes DEF Retook, historyVars
  <2>2. /\ Claimed(g)' \subseteq Claimed(g)
        /\ Claimed(g) \cap IdsOf(StreamOf(g)) \subseteq Claimed(g)'
    BY <1>10, <2>1, ClaimedStep
  <2> QED BY <1>0, <2>1, <2>2 DEF StreamOf
<1>11. ASSUME NEW c \in Consumers, ConsumerEffect(c)
       PROVE  Exact(g)'
  <2>1. ASSUME NEW x \in Ids, NEW e \in Envelopes, DeadLettered(c, x, e)
        PROVE  Released(c, x) /\ \E s \in Subjects, f \in Envelopes : Appended(s, f)
    BY <2>1 DEF DeadLettered, Appended
  <2> QED
    BY <1>2, <1>5, <1>6, <1>7, <1>8, <1>9, <1>10, <1>11, <2>1, GroupTypes
    DEF ConsumerEffect, Acknowledged
<1> QED BY <1>2, <1>3, <1>4, <1>11 DEF Effect

\* The ids of the first k messages of a stream are those at positions up to k.
LEMMA Prefix ==
  ASSUME Inv, NEW s \in Subjects, NEW k \in 0..Len(messages[s])
  PROVE  /\ \A i \in 1..Len(messages[s]) :
              messages[s][i].id \in IdsOf(SubSeq(messages[s], 1, k)) <=> i <= k
         /\ IdsOf(SubSeq(messages[s], 1, k)) \subseteq IdsOf(messages[s])
<1> DEFINE m == messages[s]  L == Len(m)  a == SubSeq(m, 1, k)
<1>1. /\ m \in Seq(Envelopes) /\ L \in Nat /\ k \in 0..L
      /\ \A i \in 1..L : m[i] \in Envelopes
      /\ \A i, j \in 1..L : i # j => m[i].id # m[j].id
  BY StreamIds DEF Inv, Distinct
<1>2. IdsOf(m) = {m[i].id : i \in 1..L}
  BY <1>1, IdsOfSeq
<1> HIDE DEF m, L
<1>3. a \in Seq(Envelopes) /\ Len(a) = k /\ \A i \in 1..k : a[i] = m[i]
  <2>1. \A i \in 1..k : m[i] \in Envelopes
    BY <1>1
  <2>2. a \in Seq(Envelopes) /\ Len(a) = (IF 1 <= k THEN k - 1 + 1 ELSE 0)
        /\ \A i \in 1..k-1+1 : a[i] = m[1 + i - 1]
    BY <1>1, <2>1, SubSeqProperties
  <2> QED BY <1>1, <2>2
<1>4. IdsOf(a) = {a[i].id : i \in 1..k}
  BY <1>3, IdsOfSeq
<1> HIDE DEF a
<1>5. ASSUME NEW i \in 1..L, i <= k  PROVE m[i].id \in IdsOf(a)
  <2>1. i \in 1..k
    BY <1>5, <1>1
  <2> QED BY <2>1, <1>3, <1>4
<1>6. ASSUME NEW i \in 1..L, m[i].id \in IdsOf(a)  PROVE i <= k
  <2>1. PICK j \in 1..k : m[i].id = a[j].id
    BY <1>6, <1>4
  <2> QED BY <2>1, <1>1, <1>3
<1>7. ASSUME NEW x \in IdsOf(a)  PROVE x \in IdsOf(m)
  <2>1. PICK j \in 1..k : x = a[j].id
    BY <1>4
  <2>2. j \in 1..L /\ x = m[j].id
    BY <2>1, <1>1, <1>3
  <2> QED BY <2>2, <1>2
<1> QED BY <1>5, <1>6, <1>7 DEF m, L, a

\* What a group has passed, and that its cursor says so.
Passed(g) == pending[g] \cup settled[g] \cup skipped[g]

Split(g) == \A i \in 1..Len(StreamOf(g)) : StreamOf(g)[i].id \in Passed(g) <=> i <= cursor[g]

Bounded(g) ==
  /\ cursor[g] <= Len(StreamOf(g)) /\ pending[g] \subseteq IdsOf(StreamOf(g))
  /\ g \notin groups => pending[g] = {} /\ settled[g] = {}

\* The cursor splits the stream, and stays within it.
LEMMA CursorStep ==
  ASSUME Inv, GroupInv, Effect
  PROVE  CursorSplitsStream' /\ OnStream'
<1> DEFINE Ok(g) == Bounded(g) /\ (g \in groups => Split(g))
<1>0. \A g \in Groups : Ok(g)
  BY DEF GroupInv, CursorSplitsStream, OnStream, StreamOf, Bounded, Split, Passed
<1> SUFFICES ASSUME NEW g \in Groups  PROVE Ok(g)'
  <2>1. groups' \subseteq Groups
    BY TypeOKStep DEF Effect, Aside, Published, Expired, ConsumerEffect, Joined, Took, Retook,
      Acknowledged, DeadLettered, Returned, Stranded, Released, groupVars, Inv, TypeOK
  <2> QED BY <2>1 DEF CursorSplitsStream, OnStream, StreamOf, Bounded, Split, Passed
<1> DEFINE m == StreamOf(g)  L == Len(m)
<1>1. /\ SubjectOf[g] \in Subjects /\ m = messages[SubjectOf[g]]
      /\ L \in Nat /\ cursor[g] \in Nat
      /\ \A i \in 1..L : m[i].id \in Ids
      /\ IdsOf(m) = {m[i].id : i \in 1..L}
      /\ \A i, j \in 1..L : i # j => m[i].id # m[j].id
  BY Topology, StreamIds DEF Inv, TypeOK, Distinct, StreamOf
<1> HIDE DEF m
<1>2. \A i \in 1..L : m[i].id \in IdsOf(m)
  BY <1>1
<1>3. Bounded(g) /\ (g \in groups => Split(g))
  BY <1>0
<1>4. ASSUME UNCHANGED <<messages, groups, cursor, pending, settled, skipped>>
      PROVE  Ok(g)'
  BY <1>3, <1>4 DEF Bounded, Split, Passed, StreamOf
<1>5. ASSUME NEW s \in Subjects, NEW e \in Envelopes, Appended(s, e), groups' = groups,
             cursor' = cursor, pending'[g] \subseteq pending[g],
             Passed(g)' \cap IdsOf(m) = Passed(g) \cap IdsOf(m), e.id \notin Passed(g)',
             g \notin groups => settled'[g] = {}
      PROVE  Ok(g)'
  <2>1. /\ IdsOf(messages'[s]) = IdsOf(messages[s]) \cup {e.id}
        /\ \A t \in Subjects \ {s} : messages'[t] = messages[t]
        /\ Len(messages'[s]) = Len(messages[s]) + 1
        /\ \A i \in 1..Len(messages[s]) : messages'[s][i] = messages[s][i]
        /\ messages'[s][Len(messages[s]) + 1] = e
    BY <1>5, Appending DEF Appended, Inv
  <2>2. CASE SubjectOf[g] # s
    <3>1. StreamOf(g)' = m
      BY <1>1, <2>1, <2>2 DEF StreamOf
    <3> QED BY <1>2, <1>3, <1>5, <3>1 DEF Bounded, Split, m
  <2>3. CASE SubjectOf[g] = s
    <3>1. /\ IdsOf(StreamOf(g)') = IdsOf(m) \cup {e.id} /\ Len(StreamOf(g)') = L + 1
          /\ \A i \in 1..L : StreamOf(g)'[i] = m[i]
          /\ StreamOf(g)'[L + 1] = e
      BY <1>1, <2>1, <2>3 DEF StreamOf
    <3>2. Bounded(g)'
      BY <1>1, <1>3, <1>5, <3>1 DEF Bounded, m
    <3>3. ASSUME g \in groups, NEW i \in 1..L+1
          PROVE  StreamOf(g)'[i].id \in Passed(g)' <=> i <= cursor[g]
      <4>1. CASE i \in 1..L
        <5>1. m[i].id \in Passed(g) <=> i <= cursor[g]
          BY <4>1, <1>3, <3>3 DEF Split, m
        <5> QED BY <5>1, <1>2, <1>5, <3>1, <4>1
      <4>2. CASE i = L + 1
        BY <4>2, <1>1, <1>3, <1>5, <3>1 DEF Bounded, m
      <4> QED BY <4>1, <4>2, <1>1
    <3> QED BY <1>5, <3>1, <3>2, <3>3 DEF Split
  <2> QED BY <2>2, <2>3
<1>6. ASSUME NEW s \in Subjects, NEW e \in Envelopes, Published(s, e)
      PROVE  Ok(g)'
  <2>1. Appended(s, e) /\ UNCHANGED <<groups, cursor, pending, settled, skipped>>
    BY <1>6 DEF Published, groupVars, historyVars
  <2>2. e.id \notin Passed(g)
    BY <2>1, NewIsUnclaimed DEF Appended, Passed
  <2> QED BY <1>3, <1>5, <2>1, <2>2 DEF Passed, Bounded
<1>7. ASSUME NEW s \in Subjects, NEW n \in Nat, Expired(s, n)
      PROVE  Ok(g)'
  <2> DEFINE old == IdsOf(SubSeq(messages[s], 1, n))
  <2>1. /\ n \in 1..Len(messages[s])
        /\ groups' = groups /\ settled' = settled /\ skipped' = skipped
        /\ pending'[g] = (IF SubjectOf[g] = s THEN pending[g] \ old ELSE pending[g])
        /\ cursor'[g] = (IF SubjectOf[g] = s THEN TrimmedCursor(cursor[g], n) ELSE cursor[g])
    BY <1>7 DEF Expired, historyVars
  <2>2. /\ IdsOf(messages'[s]) = IdsOf(messages[s]) \ old
        /\ \A t \in Subjects \ {s} : messages'[t] = messages[t]
        /\ Len(messages'[s]) = Len(messages[s]) - n
        /\ \A i \in 1..Len(messages[s])-n : messages'[s][i] = messages[s][i + n]
        /\ \A i \in 1..Len(messages[s]) : messages[s][i].id \in old <=> i <= n
    BY <1>7, Trimming DEF Expired
  <2> HIDE DEF old
  <2>3. CASE SubjectOf[g] # s
    <3>1. StreamOf(g)' = m /\ pending'[g] = pending[g] /\ cursor'[g] = cursor[g]
      BY <1>1, <2>1, <2>2, <2>3 DEF StreamOf
    <3> QED BY <1>3, <2>1, <3>1 DEF Bounded, Split, Passed, m
  <2>4. CASE SubjectOf[g] = s
    <3>1. /\ IdsOf(StreamOf(g)') = IdsOf(m) \ old /\ Len(StreamOf(g)') = L - n
          /\ \A i \in 1..L-n : StreamOf(g)'[i] = m[i + n]
          /\ \A i \in 1..L : m[i].id \in old <=> i <= n
          /\ n \in 1..L
          /\ pending'[g] = pending[g] \ old
          /\ cursor'[g] = TrimmedCursor(cursor[g], n)
      BY <1>1, <2>1, <2>2, <2>4 DEF StreamOf
    <3>2. Bounded(g)'
      BY <1>1, <1>3, <2>1, <3>1 DEF Bounded, m, TrimmedCursor
    <3>3. ASSUME g \in groups, NEW i \in 1..L-n
          PROVE  StreamOf(g)'[i].id \in Passed(g)' <=> i <= cursor'[g]
      <4>1. i + n \in 1..L /\ ~(i + n <= n)
        BY <1>1, <3>1
      <4>2. m[i + n].id \in Passed(g) <=> i + n <= cursor[g]
        BY <4>1, <1>3, <3>3 DEF Split, m
      <4>3. m[i + n].id \in Passed(g)' <=> m[i + n].id \in Passed(g)
        BY <4>1, <2>1, <3>1 DEF Passed
      <4>4. i + n <= cursor[g] <=> i <= TrimmedCursor(cursor[g], n)
        BY <1>1, <3>1 DEF TrimmedCursor
      <4> QED BY <3>1, <4>2, <4>3, <4>4
    <3> QED BY <2>1, <3>1, <3>2, <3>3 DEF Split
  <2> QED BY <2>3, <2>4
<1>8. ASSUME NEW h \in Groups, NEW k \in Nat, Joined(h, k)
      PROVE  Ok(g)'
  <2>1. /\ UNCHANGED <<messages, pending, settled>> /\ groups' = groups \cup {h}
        /\ h \notin groups /\ k \in 0..Len(StreamOf(h))
        /\ cursor'[g] = (IF g = h THEN k ELSE cursor[g])
        /\ skipped'[g] = (IF g = h THEN IdsOf(SubSeq(StreamOf(h), 1, k)) ELSE skipped[g])
    BY <1>8, GroupTypes DEF Joined
  <2>2. CASE g # h
    BY <1>3, <2>1, <2>2 DEF Bounded, Split, Passed, StreamOf
  <2>3. CASE g = h
    <3>1. /\ k \in 0..Len(m) /\ StreamOf(g)' = m /\ pending'[g] = {} /\ settled'[g] = {}
          /\ cursor'[g] = k /\ Passed(g)' = IdsOf(SubSeq(m, 1, k))
      BY <1>3, <2>1, <2>3 DEF Bounded, Passed, StreamOf, m
    <3>2. \A i \in 1..L : m[i].id \in IdsOf(SubSeq(m, 1, k)) <=> i <= k
      BY <1>1, <3>1, Prefix
    <3> QED BY <1>1, <3>1, <3>2 DEF Bounded, Split
  <2> QED BY <2>2, <2>3
<1>9. ASSUME NEW c \in Consumers, Took(c)
      PROVE  Ok(g)'
  <2> DEFINE h == GroupOf[c]  x == StreamOf(h)[cursor[h] + 1].id
  <2>1. /\ h \in Groups /\ h \in groups /\ cursor[h] + 1 \in 1..Len(StreamOf(h))
        /\ x \in IdsOf(StreamOf(h))
    BY <1>9, TookNew
  <2>2. /\ UNCHANGED <<messages, groups, settled, skipped>>
        /\ cursor'[g] = (IF g = h THEN cursor[g] + 1 ELSE cursor[g])
        /\ pending'[g] = (IF g = h THEN pending[g] \cup {x} ELSE pending[g])
    BY <1>9, <2>1, GroupTypes DEF Took, historyVars
  <2>3. CASE g # h
    BY <1>3, <2>2, <2>3 DEF Bounded, Split, Passed, StreamOf
  <2>4. CASE g = h
    <3>1. /\ cursor[g] + 1 \in 1..L /\ x = m[cursor[g] + 1].id /\ x \in IdsOf(m)
          /\ g \in groups /\ StreamOf(g)' = m
          /\ cursor'[g] = cursor[g] + 1 /\ pending'[g] = pending[g] \cup {x}
          /\ Passed(g)' = Passed(g) \cup {x}
      BY <2>1, <2>2, <2>4 DEF m, StreamOf, Passed
    <3> HIDE DEF x
    <3>2. Bounded(g)'
      BY <1>1, <1>3, <2>2, <3>1 DEF Bounded, m
    <3>3. ASSUME NEW i \in 1..L
          PROVE  m[i].id \in Passed(g)' <=> i <= cursor[g] + 1
      <4>1. m[i].id \in Passed(g) <=> i <= cursor[g]
        BY <1>3, <3>1 DEF Split, m
      <4>2. m[i].id = x <=> i = cursor[g] + 1
        BY <1>1, <3>1
      <4> QED BY <1>1, <3>1, <4>1, <4>2
    <3> QED BY <3>1, <3>2, <3>3 DEF Split
  <2> QED BY <2>3, <2>4
<1>10. ASSUME NEW c \in Consumers, NEW x \in Ids, Released(c, x)
       PROVE  /\ groups' = groups /\ cursor' = cursor /\ pending'[g] \subseteq pending[g]
              /\ Passed(g)' \subseteq Passed(g) \cup {x}
              /\ Passed(g)' \cap IdsOf(m) = Passed(g) \cap IdsOf(m)
              /\ g \notin groups => settled'[g] = {}
              /\ x \in Held(c)
  <2> DEFINE h == GroupOf[c]
  <2>1. /\ h \in Groups /\ x \in Held(c)
        /\ UNCHANGED <<groups, cursor, skipped>>
        /\ pending'[g] = (IF g = h THEN pending[g] \ {x} ELSE pending[g])
        /\ settled'[g] = (IF g = h THEN settled[g] \cup {x} ELSE settled[g])
    BY <1>10, GroupTypes DEF Released, Freed
  <2>2. Claimed(h) \cap IdsOf(StreamOf(h)) \subseteq pending[h] /\ x \in Claimed(h)
    BY <2>1, ClaimedIs DEF GroupInv, PendingIsExact, StreamOf
  <2>3. h \in groups
    <3>1. pc[c] \in {"idle", "subscribe"} => InHand(c) = {} /\ IdsOf(batch[c]) = {}
      BY IdsOfEmpty DEF GroupInv, Handling, InHand, Settling
    <3> QED BY <2>1, <3>1 DEF GroupInv, Handling, Held
  <2> HIDE DEF h
  <2> QED BY <1>3, <2>1, <2>2, <2>3 DEF Passed, Bounded, m
<1>11. ASSUME NEW c \in Consumers, NEW x \in Ids, Acknowledged(c, x)
       PROVE  Ok(g)'
  <2>1. messages' = messages
    BY <1>11 DEF Acknowledged
  <2>2. StreamOf(g)' = m
    BY <2>1 DEF StreamOf, m
  <2> QED BY <1>2, <1>3, <1>10, <1>11, <2>2 DEF Acknowledged, Bounded, Split, m
<1>12. ASSUME NEW c \in Consumers, NEW x \in Ids, NEW e \in Envelopes, DeadLettered(c, x, e)
       PROVE  Ok(g)'
  <2>1. Released(c, x) /\ Appended(DeadLetterOf[SubjectFor(c)], e)
        /\ DeadLetterOf[SubjectFor(c)] \in Subjects
    BY <1>12 DEF DeadLettered, Appended
  <2>2. e.id # x /\ e.id \notin Passed(g)
    BY <1>10, <2>1, NewIsUnclaimed DEF Appended, NewId, Untouched, Passed
  <2> QED BY <1>5, <1>10, <2>1, <2>2
<1>13. ASSUME NEW c \in Consumers, ConsumerEffect(c)
       PROVE  Ok(g)'
  <2>1. ASSUME \/ Aside \/ Retook(c) \/ (\E x \in Ids : Returned(c, x))
               \/ (\E ids \in SUBSET Ids : Stranded(c, ids))
        PROVE  Ok(g)'
    BY <1>4, <2>1 DEF Aside, Retook, Returned, Stranded, groupVars, historyVars
  <2> QED BY <1>8, <1>9, <1>11, <1>12, <1>13, <2>1, GroupTypes DEF ConsumerEffect
<1>14. CASE Aside
  BY <1>4, <1>14 DEF Aside, groupVars, historyVars
<1> QED BY <1>6, <1>7, <1>13, <1>14 DEF Effect

\* A step makes known, or puts into hands, only what was, or what is on a stream.
LEMMA UntouchedStep ==
  ASSUME Inv, GroupInv, Effect, NEW id \in Ids, Untouched(id),
         \A s \in Subjects : id \notin IdsOf(messages[s])
  PROVE  Untouched(id)'
<1>0. /\ \A g \in Groups : /\ id \notin pending[g] /\ id \notin settled[g] /\ id \notin skipped[g]
                           /\ id \notin stranded[g] /\ id \notin Range(redeliver[g])
                           /\ id \notin IdsOf(StreamOf(g))
      /\ \A c \in Consumers : id \notin Held(c)
  BY Topology DEF Untouched, Known, StreamOf
<1>1. ASSUME \A c \in Consumers : id \notin Held(c)',
             \A g \in Groups : /\ id \notin pending'[g] /\ id \notin settled'[g]
                               /\ id \notin skipped'[g] /\ id \notin stranded'[g]
                               /\ id \notin Range(redeliver'[g])
      PROVE  Untouched(id)'
  BY <1>1 DEF Untouched, Known
<1>2. ASSUME Aside \/ (\E s \in Subjects, e \in Envelopes : Published(s, e))
             \/ (\E s \in Subjects : \E n \in Nat : Expired(s, n))
      PROVE  Untouched(id)'
  <2>1. /\ SameHeld /\ UNCHANGED <<redeliver, settled, skipped, stranded>>
        /\ \A g \in Groups : pending'[g] \subseteq pending[g]
    BY <1>2 DEF Aside, Published, Expired, groupVars, historyVars
  <2> QED BY <1>0, <1>1, <2>1 DEF SameHeld
<1>3. ASSUME NEW h \in Groups, NEW k \in Nat, Joined(h, k)
      PROVE  Untouched(id)'
  <2>1. /\ SameHeld /\ UNCHANGED <<pending, redeliver, settled, stranded>>
        /\ \A g \in Groups : skipped'[g] = IF g = h THEN IdsOf(SubSeq(StreamOf(h), 1, k))
                                                    ELSE skipped[g]
    BY <1>3, GroupTypes DEF Joined
  <2>2. IdsOf(SubSeq(StreamOf(h), 1, k)) \subseteq IdsOf(StreamOf(h))
    BY <1>3, Topology, Prefix DEF Joined, StreamOf
  <2> QED BY <1>0, <1>1, <2>1, <2>2 DEF SameHeld
<1>4. ASSUME NEW c \in Consumers, Took(c)
      PROVE  Untouched(id)'
  <2> DEFINE h == GroupOf[c]  x == StreamOf(h)[cursor[h] + 1].id
  <2>1. x \in IdsOf(StreamOf(h)) /\ h \in Groups
    BY <1>4, TookNew
  <2>2. /\ Held(c)' = Held(c) \cup {x} /\ \A d \in Consumers \ {c} : Held(d)' = Held(d)
        /\ UNCHANGED <<redeliver, settled, skipped, stranded>>
        /\ \A g \in Groups : pending'[g] = IF g = h THEN pending[g] \cup {x} ELSE pending[g]
    BY <1>4, <2>1, GroupTypes DEF Took, OthersHeld, historyVars
  <2>3. id # x
    BY <1>0, <2>1
  <2> HIDE DEF x, h
  <2>4. \A d \in Consumers : id \notin Held(d)'
    BY <1>0, <2>2, <2>3
  <2> QED BY <1>0, <1>1, <2>2, <2>3, <2>4
<1>5. ASSUME NEW c \in Consumers, Retook(c)
      PROVE  Untouched(id)'
  <2> DEFINE h == GroupOf[c]  x == Head(redeliver[h])
  <2>1. /\ h \in Groups /\ redeliver[h] \in Seq(Ids) /\ redeliver[h] # <<>>
        /\ redeliver' = [redeliver EXCEPT ![h] = Tail(@)]
        /\ Held(c)' \subseteq Held(c) \cup {x} /\ \A d \in Consumers \ {c} : Held(d)' = Held(d)
        /\ UNCHANGED <<pending, settled, skipped, stranded>>
    BY <1>5, GroupTypes DEF Retook, OthersHeld, historyVars
  <2>2. \A g \in Groups : redeliver'[g] = IF g = h THEN Tail(redeliver[h]) ELSE redeliver[g]
    BY <2>1, GroupTypes
  <2>3. Range(redeliver[h]) = {x} \cup Range(redeliver'[h])
    BY <2>1, <2>2, RangeTail
  <2> HIDE DEF x, h
  <2>4. id # x
    BY <1>0, <2>1, <2>3
  <2>5. \A g \in Groups : id \notin Range(redeliver'[g])
    BY <1>0, <2>1, <2>2, <2>3
  <2>6. \A d \in Consumers : id \notin Held(d)'
    BY <1>0, <2>1, <2>4
  <2> QED BY <1>0, <1>1, <2>1, <2>5, <2>6
<1>6. ASSUME NEW c \in Consumers, NEW x \in Ids, Released(c, x)
      PROVE  Untouched(id)'
  <2>1. /\ x \in Held(c) /\ \A d \in Consumers : Held(d)' \subseteq Held(d)
        /\ UNCHANGED <<redeliver, skipped, stranded>>
        /\ \A g \in Groups : pending'[g] \subseteq pending[g]
                             /\ settled'[g] \subseteq settled[g] \cup {x}
    BY <1>6, GroupTypes DEF Released, Freed, OthersHeld
  <2> QED BY <1>0, <1>1, <2>1
<1>7. ASSUME NEW c \in Consumers, NEW x \in Ids, Returned(c, x)
      PROVE  Untouched(id)'
  <2> DEFINE h == GroupOf[c]
  <2>1. /\ x \in Held(c) /\ \A d \in Consumers : Held(d)' \subseteq Held(d)
        /\ UNCHANGED <<pending, settled, skipped, stranded>>
        /\ h \in Groups /\ redeliver[h] \in Seq(Ids)
        /\ \A g \in Groups : redeliver'[g] = IF g = h THEN Append(redeliver[h], x) ELSE redeliver[g]
    BY <1>7, GroupTypes DEF Returned, Freed, OthersHeld, historyVars
  <2>2. Range(redeliver'[h]) = Range(redeliver[h]) \cup {x}
    BY <2>1, RangeAppend
  <2>3. \A g \in Groups : id \notin Range(redeliver'[g])
    BY <1>0, <2>1, <2>2
  <2> QED BY <1>0, <1>1, <2>1, <2>3
<1>8. ASSUME NEW c \in Consumers, NEW ids \in SUBSET Ids, Stranded(c, ids)
      PROVE  Untouched(id)'
  <2>1. /\ ids \subseteq Held(c) /\ \A d \in Consumers : Held(d)' \subseteq Held(d)
        /\ UNCHANGED <<pending, redeliver, settled, skipped>>
        /\ \A g \in Groups : stranded'[g] \subseteq stranded[g] \cup ids
    BY <1>8, GroupTypes DEF Stranded, OthersHeld
  <2> QED BY <1>0, <1>1, <2>1
<1>9. ASSUME NEW c \in Consumers, ConsumerEffect(c)
      PROVE  Untouched(id)'
  BY <1>2, <1>3, <1>4, <1>5, <1>6, <1>7, <1>8, <1>9, GroupTypes
  DEF ConsumerEffect, Acknowledged, DeadLettered
<1> QED BY <1>2, <1>9 DEF Effect

LEMMA DrawnStep ==
  ASSUME Inv, GroupInv, Effect, [Next]_vars
  PROVE  DrawnIsNew'
<1> SUFFICES ASSUME NEW id \in Ids, Drawn(id)'
             PROVE  Untouched(id)'
  BY DEF DrawnIsNew
<1>1. Drawn(id) /\ Untouched(id)
  BY DrawnBefore DEF GroupInv, DrawnIsNew
<1>2. \A s \in Subjects : id \notin IdsOf(messages[s])
  BY <1>1, PublishedIsNotDrawn
<1> QED BY <1>1, <1>2, UntouchedStep

LEMMA OriginStep ==
  ASSUME Inv, GroupInv, [Next]_vars
  PROVE  Origin'
<1>0. Origin
  BY DEF GroupInv
<1>1. ASSUME NEW k \in Callers, ClientStep(k)
      PROVE  Origin'
  <2>1. UNCHANGED <<pc, msg, draft>>
    BY <1>1, ClientFrame
  <2>2. CASE \E s \in Subjects : PublishBegin(k, s)
    BY <1>0, <2>1, <2>2 DEF PublishBegin, Publishing, Inv, TypeOK, Envelope, Origin
  <2>3. CASE ~\E s \in Subjects : PublishBegin(k, s)
    <3>1. /\ \A l \in Callers \ {k} : call'[l] = call[l]
          /\ call'[k].op # "publish"
      BY <2>3, <1>1 DEF ClientStep, CallStep, PublishCommit, EnsureStreamBegin,
        EnsureStreamCommit, TrimStreamBegin, TrimStreamCommit, DropCall, Inv, TypeOK, Idle
    <3> QED BY <1>0, <2>1, <3>1 DEF Publishing, Origin
  <2> QED BY <2>2, <2>3
<1>2. ASSUME NEW c \in Consumers, ConsumerStep(c)
      PROVE  Origin'
  <2>1. /\ call' = call
        /\ \A d \in Consumers \ {c} : pc'[d] = pc[d] /\ msg'[d] = msg[d] /\ draft'[d] = draft[d]
    BY <1>2, ConsumerFrame DEF Inv
  <2>2. pc'[c] = "dead_letter" => draft'[c].origin = <<GroupOf[c], msg'[c].id>>
    <3>1. CASE \E v \in {"ack", "nak", "dead_letter"} : SettleBegin(c, v)
      BY <3>1 DEF SettleBegin, Inv, TypeOK, Envelope, Goto
    <3>2. CASE Unsubscribe(c)
      BY <1>0, <3>2 DEF Unsubscribe, Origin
    <3>3. CASE ~Unsubscribe(c) /\ ~\E v \in {"ack", "nak", "dead_letter"} : SettleBegin(c, v)
      <4>1. pc'[c] # "dead_letter" \/ UNCHANGED <<pc, msg, draft>>
        BY <3>3, <1>2 DEF ConsumerStep, SubscriptionStep, LoopStep, LockStep, HandlerStep,
          FaultStep, SubscribeBegin, SubscribeCommit, Stop, Register, Notified,
          Timeout, NextMessage, EndBatch, CollectRedelivery, CollectFresh, CollectNext,
          CollectEnd, Collected, CollectBegin, AckCommit, NakCommit, DeadLetterCommit,
          ReturnOk, ReturnErr, AfterErr, DropSettle, Panic, Inv, TypeOK, Goto
      <4> QED BY <1>0, <4>1 DEF Origin
    <3> QED BY <3>1, <3>2, <3>3
  <2> QED BY <1>0, <2>1, <2>2 DEF Origin, Publishing
<1>3. ASSUME Close \/ Tick \/ UNCHANGED vars
      PROVE  Origin'
  <2>1. UNCHANGED <<call, pc, msg, draft>>
    BY <1>3 DEF Close, Tick, vars, loopVars
  <2> QED BY <1>0, <2>1 DEF Origin, Publishing
<1> QED BY <1>1, <1>2, <1>3 DEF Next

LEMMA HandlingStep ==
  ASSUME Inv, GroupInv, [Next]_vars
  PROVE  Handling'
<1>0. Handling
  BY DEF GroupInv
<1>1. ASSUME NEW c \in Consumers, ConsumerStep(c)
      PROVE  Handling'
  <2>1. \A d \in Consumers \ {c} : pc'[d] = pc[d] /\ acked'[d] = acked[d] /\ batch'[d] = batch[d]
    BY <1>1, ConsumerFrame DEF Inv
  <2>2. groups \subseteq groups'
    BY <1>1 DEF ConsumerStep, SubscriptionStep, LoopStep, LockStep, HandlerStep,
      FaultStep, SubscribeBegin, SubscribeCommit, CreateGroup, Unsubscribe, Stop, Register,
      Notified, Timeout, NextMessage, EndBatch, CollectRedelivery, CollectFresh, CollectNext,
      CollectEnd, Collected, CollectBegin, AckCommit, NakCommit, DeadLetterCommit,
      SettleBegin, ReturnOk, ReturnErr, DropSettle, Panic, storeVars
  <2>3. pc'[c] \in Settling => acked'[c]
    <3>1. CASE \/ \E v \in {"ack", "nak", "dead_letter"} : SettleBegin(c, v)
               \/ ReturnErr(c) \/ Unsubscribe(c)
      BY <1>0, <3>1 DEF SettleBegin, ReturnErr, Unsubscribe, Inv, TypeOK, Handling
    <3>2. CASE ~Unsubscribe(c) /\ ~ReturnErr(c)
               /\ ~\E v \in {"ack", "nak", "dead_letter"} : SettleBegin(c, v)
      <4>1. pc'[c] \notin Settling \/ UNCHANGED <<pc, acked>>
        BY <3>2, <1>1 DEF ConsumerStep, SubscriptionStep, LoopStep, LockStep, HandlerStep,
          FaultStep, SubscribeBegin, SubscribeCommit, Stop, Register, Notified,
          Timeout, NextMessage, EndBatch, CollectRedelivery, CollectFresh, CollectNext,
          CollectEnd, Collected, CollectBegin, AckCommit, NakCommit, DeadLetterCommit,
          ReturnOk, DropSettle, Panic, Inv, TypeOK, Goto, Settling
      <4> QED BY <1>0, <4>1 DEF Handling
    <3> QED BY <3>1, <3>2
  <2>4. /\ pc'[c] \notin {"idle", "subscribe"} => GroupOf[c] \in groups'
        /\ pc'[c] \in {"idle", "subscribe"} => batch'[c] = <<>>
    <3>1. CASE SubscribeBegin(c)
      BY <1>0, <3>1 DEF SubscribeBegin, Inv, TypeOK, Handling, Goto, loopVars
    <3>2. CASE \E start \in Starts : SubscribeCommit(c, start)
      BY <1>0, <3>2 DEF SubscribeCommit, CreateGroup, Inv, TypeOK, Handling, Goto
    <3>3. CASE ~SubscribeBegin(c) /\ ~\E start \in Starts : SubscribeCommit(c, start)
      <4>1. pc[c] \notin {"idle", "subscribe"} /\ pc'[c] \notin {"idle", "subscribe"}
        BY <3>3, <1>1 DEF ConsumerStep, SubscriptionStep, LoopStep, LockStep, HandlerStep,
          FaultStep, Unsubscribe, Stop, StopPoints, Register, Notified,
          Timeout, NextMessage, EndBatch, CollectRedelivery, CollectFresh, CollectNext,
          CollectEnd, Collected, CollectBegin, AckCommit, NakCommit, DeadLetterCommit,
          SettleBegin, ReturnOk, ReturnErr, AfterErr, DropSettle, Panic, Inv, TypeOK, Goto
      <4> QED BY <1>0, <2>2, <4>1 DEF Handling
    <3> QED BY <3>1, <3>2, <3>3
  <2> QED BY <1>0, <2>1, <2>2, <2>3, <2>4 DEF Handling
<1>2. ASSUME NEW k \in Callers, ClientStep(k)
      PROVE  Handling'
  BY <1>0, <1>2, ClientFrame DEF Handling
<1>3. ASSUME Close \/ Tick \/ UNCHANGED vars
      PROVE  Handling'
  <2>1. UNCHANGED <<pc, acked, batch, groups>>
    BY <1>3 DEF Close, Tick, vars, loopVars, storeVars
  <2> QED BY <1>0, <2>1 DEF Handling
<1> QED BY <1>1, <1>2, <1>3 DEF Next

-----------------------------------------------------------------------------
(* The collections. *)

\* A loop stays where it is while others step.
LEMMA OtherFrame ==
  ASSUME Inv, NEW c \in Consumers, Next, ~ConsumerStep(c)
  PROVE  /\ pc'[c] = pc[c] /\ take'[c] = take[c] /\ batch'[c] = batch[c]
         /\ woken[c] => woken'[c]
<1>1. CASE \E k \in Callers : ClientStep(k)
  <2>1. woken[c] => woken'[c]
    BY <1>1 DEF ClientStep, CallStep, PublishBegin, PublishCommit, EnsureStreamBegin,
      EnsureStreamCommit, TrimStreamBegin, TrimStreamCommit, DropCall, AppendTo,
      NotifyWaiters, loopVars
  <2> QED BY <1>1, <2>1, ClientFrame
<1>2. CASE Close \/ Tick
  BY <1>2 DEF Close, Tick, loopVars
<1> QED BY <1>1, <1>2, ConsumerFrame DEF Next, Inv

\* How a loop gets into collect_batch, and on in it.
LEMMA LockedSteps ==
  ASSUME Inv, NEW c \in Consumers, ConsumerStep(c), pc'[c] \in Locked
  PROVE  \/ CollectBegin(c) \/ CollectRedelivery(c) \/ CollectFresh(c) \/ CollectNext(c)
         \/ UNCHANGED <<storeVars, scan, pc, take, batch>>
BY DEF ConsumerStep, SubscriptionStep, LoopStep, LockStep, HandlerStep, FaultStep,
  SubscribeBegin, SubscribeCommit, Unsubscribe, Stop, Register, Notified, Timeout,
  NextMessage, EndBatch, CollectEnd, Collected, AckCommit, NakCommit,
  DeadLetterCommit, SettleBegin, ReturnOk, ReturnErr, AfterErr, DropSettle, Panic,
  Inv, TypeOK, Goto, Locked, collectVars

LEMMA ScanFollowsStep ==
  ASSUME Inv, GroupInv, [Next]_vars
  PROVE  ScanFollows'
<1> SUFFICES ASSUME NEW c \in Consumers, pc'[c] = "scan"
             PROVE  LET g == GroupOf[c] IN
                    /\ scan'.next = cursor'[g] + 1
                    /\ take'[c] > 0 /\ batch'[c] = <<>> =>
                         scan'.last = Minimum(cursor'[g] + take'[c], Len(messages'[SubjectOf[g]]))
  BY DEF ScanFollows, StreamOf
<1>1. CASE UNCHANGED <<messages, cursor, scan, pc, take, batch>>
  BY <1>1 DEF GroupInv, ScanFollows, StreamOf
<1>2. CASE ConsumerStep(c)
  <2>1. CASE CollectFresh(c)
    <3>1. /\ cursor' = cursor /\ take' = take /\ batch' = batch /\ messages' = messages
          /\ scan' = [next |-> cursor[GroupOf[c]] + 1,
                      last |-> IF Len(batch[c]) < take[c] THEN LastToScan(c) ELSE 0]
      BY <2>1 DEF CollectFresh, storeVars
    <3>2. ASSUME take[c] > 0, batch[c] = <<>>
          PROVE  /\ Len(batch[c]) < take[c]
                 /\ LastToScan(c) = Minimum(cursor[GroupOf[c]] + take[c],
                                            Len(messages[SubjectOf[GroupOf[c]]]))
      <4>1. Len(batch[c]) = 0 /\ take[c] \in Nat /\ cursor[GroupOf[c]] \in Nat
        BY <3>2, GroupTypes DEF Inv, TypeOK
      <4> QED BY <3>2, <4>1 DEF LastToScan, SubjectFor
    <3> QED BY <3>1, <3>2
  <2>2. CASE CollectNext(c)
    <3>1. /\ cursor'[GroupOf[c]] = scan.next
          /\ batch'[c] = Append(batch[c], StreamOf(GroupOf[c])[scan.next])
          /\ scan'.next = scan.next + 1
      BY <2>2, ScanEffect DEF CollectNext, Inv, TypeOK
    <3>2. batch'[c] # <<>>
      <4>1. scan.next \in 1..Len(messages[SubjectFor(c)]) /\ batch[c] \in Seq(Envelopes)
        BY <2>2 DEF CollectNext, Inv, ScanInRange, TypeOK
      <4>2. StreamOf(GroupOf[c])[scan.next] \in Envelopes
        BY <4>1, Topology, StreamIds DEF StreamOf, Inv
      <4> QED BY <3>1, <4>1, <4>2, AppendProperties
    <3> QED BY <3>1, <3>2
  <2>3. CASE CollectBegin(c) \/ CollectRedelivery(c)
    BY <2>3 DEF CollectBegin, CollectRedelivery, Goto, Inv, TypeOK
  <2> QED BY <1>1, <1>2, <2>1, <2>2, <2>3, LockedSteps DEF Locked, storeVars
<1>3. CASE Next /\ ~ConsumerStep(c)
  <2>1. pc[c] = "scan"
    BY <1>3, OtherFrame
  <2>2. lock = c
    BY <2>1 DEF Inv, Mutex, Locked
  <2>3. UNCHANGED <<messages, cursor, scan>> /\ take'[c] = take[c] /\ batch'[c] = batch[c]
    BY <1>3, <2>2, LockFrame DEF storeVars
  <2> QED BY <2>1, <2>3 DEF GroupInv, ScanFollows, StreamOf
<1> QED BY <1>1, <1>2, <1>3 DEF vars, storeVars, collectVars, loopVars

\* The pending sets are finite, and one more id makes them one larger.
LEMMA PendingCount ==
  ASSUME Inv, NEW g \in Groups
  PROVE  /\ IsFiniteSet(pending[g]) /\ Cardinality(pending[g]) \in Nat
         /\ \A id \in Ids : id \notin pending[g] =>
              Cardinality(pending[g] \cup {id}) = Cardinality(pending[g]) + 1
         /\ \A p \in SUBSET pending[g] : /\ Cardinality(p) \in Nat
                                         /\ Cardinality(p) <= Cardinality(pending[g])
<1>1. pending[g] \subseteq Ids
  BY GroupTypes
<1>2. IsFiniteSet(Ids)
  BY BoundsAssumption, FS_Interval DEF Ids
<1>3. IsFiniteSet(pending[g])
  BY <1>1, <1>2, FS_Subset
<1> QED BY <1>3, FS_Subset, FS_AddElement, FS_CardinalityType

LEMMA RoomStep ==
  ASSUME Inv, GroupInv, Room, [Next]_vars
  PROVE  Room'
<1> SUFFICES ASSUME NEW c \in Consumers
             PROVE  LET p == Cardinality(pending'[GroupOf[c]]) IN
                    /\ pc'[c] = "redeliver" => p + take'[c] <= MaxInflight[c]
                    /\ pc'[c] = "scan" /\ scan'.next <= scan'.last =>
                         p + (scan'.last - scan'.next) + 1 <= MaxInflight[c]
  BY DEF Room
<1> DEFINE g == GroupOf[c]  q == Cardinality(pending[g])
<1>0. /\ g \in Groups /\ q \in Nat /\ take[c] \in Nat /\ cursor[g] \in Nat
      /\ MaxInflight[c] \in Nat /\ BatchSize[c] \in Nat
      /\ scan.next \in Nat /\ scan.last \in Nat /\ Len(batch[c]) \in Nat
  BY GroupTypes, PendingCount, OptionsAssumption, LenProperties DEF Inv, TypeOK
<1>1. CASE UNCHANGED <<storeVars, scan, pc, take, batch>>
  BY <1>1 DEF Room, storeVars
<1>2. CASE CollectBegin(c)
  <2>1. pc'[c] = "redeliver" => Capacity(c) # 0 /\ take'[c] = Minimum(BatchSize[c], Capacity(c))
    BY <1>2 DEF CollectBegin, Inv, TypeOK, Goto
  <2>2. pc'[c] # "scan" /\ pending' = pending
    BY <1>2 DEF CollectBegin, Inv, TypeOK, Goto, storeVars
  <2>3. pc'[c] = "redeliver" => q + take'[c] <= MaxInflight[c]
    BY <1>0, <2>1 DEF Capacity, Minimum
  <2> QED BY <2>2, <2>3
<1>3. CASE CollectRedelivery(c)
  <2>1. pc'[c] = pc[c] /\ pc[c] = "redeliver" /\ pending' = pending /\ take' = take
    BY <1>3 DEF CollectRedelivery
  <2> QED BY <2>1 DEF Room
<1>4. CASE CollectFresh(c)
  <2>1. /\ pc[c] = "redeliver" /\ pc'[c] = "scan" /\ pending' = pending
        /\ scan'.next = cursor[g] + 1
        /\ scan'.last = IF Len(batch[c]) < take[c] THEN LastToScan(c) ELSE 0
    BY <1>4 DEF CollectFresh, Inv, TypeOK, Goto, storeVars
  <2>2. q + take[c] <= MaxInflight[c]
    BY <2>1 DEF Room
  <2>3. Len(messages[SubjectFor(c)]) \in Nat
    BY Topology, LenProperties DEF Inv, TypeOK
  <2>4. LastToScan(c) \in Int /\ LastToScan(c) <= cursor[g] + take[c]
    <3>1. \A i, j, k, l \in Nat : Minimum(i + j - k, l) \in Int /\ Minimum(i + j - k, l) <= i + j
      BY DEF Minimum
    <3> QED BY <1>0, <2>3, <3>1 DEF LastToScan
  <2> HIDE DEF q
  <2> QED BY <1>0, <2>1, <2>2, <2>4 DEF q
<1>5. CASE CollectNext(c)
  <2> DEFINE x == StreamOf(g)[scan.next].id
  <2>1. /\ pc[c] = "scan" /\ pc' = pc /\ scan.next <= scan.last
        /\ scan'.next = scan.next + 1 /\ scan'.last = scan.last
    BY <1>5 DEF CollectNext, Inv, TypeOK
  <2>2. x \notin pending[g] /\ pending'[g] = pending[g] \cup {x} /\ x \in Ids
    <3>1. Took(c) /\ cursor[g] + 1 = scan.next /\ x \notin pending[g]
      BY <1>5, ScanEffect
    <3>2. pending'[g] = pending[g] \cup {x}
      BY <1>0, <3>1, GroupTypes DEF Took
    <3> QED BY <3>1, <3>2, TookNew
  <2> HIDE DEF x
  <2>3. Cardinality(pending'[g]) = q + 1
    BY <1>0, <2>2, PendingCount
  <2>4. q + (scan.last - scan.next) + 1 <= MaxInflight[c]
    BY <2>1 DEF Room
  <2> HIDE DEF q
  <2> QED BY <1>0, <2>1, <2>3, <2>4
<1>6. CASE ConsumerStep(c)
  BY <1>1, <1>2, <1>3, <1>4, <1>5, <1>6, LockedSteps DEF Locked
<1>7. CASE Next /\ ~ConsumerStep(c)
  <2>1. SUFFICES ASSUME pc'[c] \in Locked
                 PROVE  UNCHANGED <<storeVars, scan>> /\ pc'[c] = pc[c] /\ take'[c] = take[c]
    BY <1>0 DEF Room, Locked, storeVars
  <2>2. lock = c
    BY <1>7, <2>1, OtherFrame DEF Inv, Mutex
  <2> QED BY <1>7, <2>2, LockFrame
<1> QED BY <1>1, <1>6, <1>7 DEF vars, storeVars, collectVars, loopVars

\* Only phase 2 makes ids pending, and it has room for them.
LEMMA BackpressureStep ==
  ASSUME Inv, GroupInv, Room, Backpressure, [Next]_vars
  PROVE  Backpressure'
<1> SUFFICES ASSUME NEW g \in Groups, pending'[g] # {}
             PROVE  \E c \in Consumers :
                      GroupOf[c] = g /\ Cardinality(pending'[g]) <= MaxInflight[c]
  BY DEF Backpressure
<1>1. CASE pending'[g] \subseteq pending[g]
  <2>1. PICK c \in Consumers : GroupOf[c] = g /\ Cardinality(pending[g]) <= MaxInflight[c]
    BY <1>1 DEF Backpressure
  <2>2. /\ Cardinality(pending'[g]) \in Nat /\ Cardinality(pending[g]) \in Nat
        /\ Cardinality(pending'[g]) <= Cardinality(pending[g])
    BY <1>1, PendingCount
  <2>3. MaxInflight[c] \in Nat
    BY OptionsAssumption
  <2> QED BY <2>1, <2>2, <2>3
<1>2. ASSUME NEW c \in Consumers, CollectNext(c)
      PROVE  pending'[g] \subseteq pending[g] \/ (GroupOf[c] = g /\
               Cardinality(pending'[g]) <= MaxInflight[c])
  <2> DEFINE x == StreamOf(GroupOf[c])[scan.next].id
  <2>1. /\ GroupOf[c] \in Groups /\ x \notin pending[GroupOf[c]] /\ x \in Ids
        /\ pending' = [pending EXCEPT ![GroupOf[c]] = @ \cup {x}]
    BY <1>2, ScanEffect, TookNew DEF Took
  <2> HIDE DEF x
  <2>2. CASE GroupOf[c] # g
    BY <2>1, <2>2, GroupTypes
  <2>3. CASE GroupOf[c] = g
    <3>1. Cardinality(pending'[g]) = Cardinality(pending[g]) + 1
      BY <2>1, <2>3, GroupTypes, PendingCount
    <3>2. Cardinality(pending[g]) + (scan.last - scan.next) + 1 <= MaxInflight[c]
          /\ scan.next <= scan.last
      BY <1>2, <2>3 DEF Room, CollectNext
    <3>3. Cardinality(pending[g]) \in Nat /\ scan.next \in Nat /\ scan.last \in Nat
          /\ MaxInflight[c] \in Nat
      BY PendingCount, OptionsAssumption DEF Inv, TypeOK
    <3> QED BY <2>3, <3>1, <3>2, <3>3
  <2> QED BY <2>2, <2>3
<1>3. CASE ~\E c \in Consumers : CollectNext(c)
  <2>1. ASSUME NEW c \in Consumers, ConsumerStep(c)
        PROVE  pending'[g] \subseteq pending[g]
    <3>1. CASE AckCommit(c) \/ DeadLetterCommit(c)
      <4>1. pending' = [pending EXCEPT ![GroupOf[c]] = @ \ {msg[c].id}]
        BY <3>1 DEF AckCommit, DeadLetterCommit, Release
      <4> QED BY <4>1, GroupTypes
    <3>2. CASE ~AckCommit(c) /\ ~DeadLetterCommit(c)
      <4>1. pending' = pending
        BY <1>3, <2>1, <3>2 DEF ConsumerStep, SubscriptionStep, LoopStep, LockStep,
          HandlerStep, FaultStep, SubscribeBegin, SubscribeCommit, Unsubscribe, Stop, Register,
          Notified, Timeout, NextMessage, EndBatch, CollectRedelivery, CollectFresh,
          CollectEnd, Collected, CollectBegin, NakCommit, SettleBegin, ReturnOk, ReturnErr,
          DropSettle, Panic, storeVars
      <4> QED BY <4>1
    <3> QED BY <3>1, <3>2
  <2>2. ASSUME NEW k \in Callers, ClientStep(k)
        PROVE  pending'[g] \subseteq pending[g]
    BY <2>2 DEF ClientStep, CallStep, PublishBegin, PublishCommit, EnsureStreamBegin,
      EnsureStreamCommit, TrimStreamBegin, TrimStreamCommit, PendingAfterTrim, DropCall,
      storeVars
  <2>3. ASSUME Close \/ Tick \/ UNCHANGED vars
        PROVE  pending'[g] \subseteq pending[g]
    BY <2>3 DEF Close, Tick, vars, storeVars
  <2> QED BY <1>1, <2>1, <2>2, <2>3 DEF Next
<1> QED BY <1>1, <1>2, <1>3

\* A loop that is neither notified nor has anything in its batch has nothing to find.
LEMMA AtEndStep ==
  ASSUME Inv, GroupInv, AtEnd, [Next]_vars
  PROVE  AtEnd'
<1> SUFFICES ASSUME NEW c \in Consumers, ~woken'[c], take'[c] > 0,
                    pc'[c] = "wait" \/ (pc'[c] = "collected" /\ batch'[c] = <<>>)
             PROVE  cursor'[GroupOf[c]] = Len(messages'[SubjectOf[GroupOf[c]]])
  BY DEF AtEnd, StreamOf
<1> DEFINE g == GroupOf[c]  s == SubjectOf[g]
<1>0. /\ g \in Groups /\ s \in Subjects /\ s = SubjectFor(c)
      /\ cursor[g] \in Nat /\ Len(messages[s]) \in Nat /\ cursor[g] <= Len(messages[s])
      /\ messages[s] \in Seq(Envelopes)
  BY Topology, LenProperties DEF Inv, TypeOK, GroupInv, OnStream, StreamOf
<1>1. CASE UNCHANGED vars
  BY <1>1 DEF AtEnd, StreamOf, vars, storeVars, loopVars
<1>2. CASE ConsumerStep(c)
  <2>1. CASE CollectBegin(c)
    <3>1. Capacity(c) = 0 /\ take'[c] = Minimum(BatchSize[c], Capacity(c))
      BY <2>1 DEF CollectBegin, Inv, TypeOK, Goto
    <3>2. take'[c] <= 0 /\ take'[c] \in Nat
      BY <3>1, OptionsAssumption DEF Minimum
    <3> QED BY <3>2
  <2>2. CASE CollectEnd(c)
    <3>1. /\ pc[c] = "scan" /\ scan.next > scan.last /\ batch[c] = <<>> /\ take[c] > 0
          /\ cursor' = cursor /\ messages' = messages
      BY <2>2 DEF CollectEnd, Inv, TypeOK, Goto, storeVars
    <3>2. /\ scan.next = cursor[g] + 1
          /\ scan.last = Minimum(cursor[g] + take[c], Len(messages[s]))
      BY <3>1 DEF GroupInv, ScanFollows, StreamOf
    <3>3. take[c] \in Nat
      BY DEF Inv, TypeOK
    <3>4. cursor[g] = Len(messages[s])
      BY <1>0, <3>1, <3>2, <3>3 DEF Minimum
    <3> QED BY <3>1, <3>4
  <2>3. CASE Collected(c) \/ Unsubscribe(c)
    <3>1. /\ pc[c] = "wait" \/ (pc[c] = "collected" /\ batch[c] = <<>>)
          /\ UNCHANGED <<messages, cursor, take, woken>>
      BY <2>3 DEF Collected, Unsubscribe, Inv, TypeOK, Goto, storeVars
    <3> QED BY <3>1 DEF AtEnd, StreamOf
  <2>4. CASE ~CollectBegin(c) /\ ~CollectEnd(c) /\ ~Collected(c) /\ ~Unsubscribe(c)
    <3>1. pc'[c] \notin {"wait", "collected"}
      BY <1>2, <2>4 DEF ConsumerStep, SubscriptionStep, LoopStep, LockStep, HandlerStep,
        FaultStep, SubscribeBegin, SubscribeCommit, Stop, Register, Notified, Timeout,
        NextMessage, EndBatch, CollectRedelivery, CollectFresh, CollectNext, AckCommit,
        NakCommit, DeadLetterCommit, SettleBegin, ReturnOk, ReturnErr, AfterErr, DropSettle,
        Panic, Inv, TypeOK, Goto
    <3> QED BY <3>1
  <2> QED BY <2>1, <2>2, <2>3, <2>4
<1>3. CASE Next /\ ~ConsumerStep(c)
  <2>1. /\ ~woken[c] /\ take[c] > 0
        /\ pc[c] = "wait" \/ (pc[c] = "collected" /\ batch[c] = <<>>)
        /\ cursor[g] = Len(messages[s]) /\ g \in groups
    BY <1>3, OtherFrame DEF AtEnd, StreamOf, GroupInv, Handling
  <2>2. CASE UNCHANGED <<messages, cursor>>
    BY <2>1, <2>2
  <2>3. ASSUME NEW t \in Subjects, NEW e \in Envelopes, AppendTo(t, e), cursor' = cursor
        PROVE  cursor'[g] = Len(messages'[s])
    <3>1. woken'[c] = (woken[c] \/ (SubjectFor(c) = t /\ pc[c] \in {"collect", "collected", "wait"}))
      BY <2>3 DEF AppendTo, NotifyWaiters
    <3>2. SubjectFor(c) # t
      BY <2>1, <3>1
    <3>3. messages'[s] = messages[s]
      BY <1>0, <2>3, <3>2 DEF AppendTo, Inv, TypeOK
    <3> QED BY <2>1, <2>3, <3>3
  <2>4. ASSUME NEW k \in Callers, ClientStep(k)
        PROVE  cursor'[g] = Len(messages'[s])
    <3>1. CASE PublishCommit(k)
      BY <2>3, <3>1, PublishEffect DEF PublishCommit, Inv
    <3>2. CASE TrimStreamCommit(k)
      <4>1. Effect /\ ~PublishCommit(k)
        BY <2>4, <3>2, ClientEffect DEF TrimStreamCommit, PublishCommit
      <4>2. (\E t \in Subjects : \E n \in Nat : Expired(t, n)) \/ UNCHANGED <<messages, cursor>>
        <5> DEFINE t == call[k].subject  n == ExpiredCount(t, call[k].cutoff)
        <5>1. CASE n = 0
          BY <3>2, <5>1, TrimNoEffect DEF storeVars
        <5>2. CASE n # 0
          <6>1. SameHeld /\ UNCHANGED <<groups, redeliver, historyVars>>
            BY <2>4, ClientFrame DEF SameHeld
          <6>2. t \in Subjects /\ Expired(t, n) /\ n \in Nat
            BY <3>2, <5>2, <6>1, TrimEffect, LenProperties DEF Expired, Inv, TypeOK
          <6> QED BY <6>2
        <5> QED BY <5>1, <5>2
      <4>3. ASSUME NEW t \in Subjects, NEW n \in Nat, Expired(t, n)
            PROVE  cursor'[g] = Len(messages'[s])
        <5>1. /\ n \in 1..Len(messages[t])
              /\ cursor'[g] = IF s = t THEN TrimmedCursor(cursor[g], n) ELSE cursor[g]
          BY <1>0, <4>3 DEF Expired
        <5>2. /\ Len(messages'[t]) = Len(messages[t]) - n
              /\ \A u \in Subjects \ {t} : messages'[u] = messages[u]
          BY <4>3, Trimming DEF Expired
        <5> QED BY <1>0, <2>1, <5>1, <5>2 DEF TrimmedCursor
      <4> QED BY <2>2, <4>2, <4>3
    <3>3. CASE ~PublishCommit(k) /\ ~TrimStreamCommit(k)
      <4>1. UNCHANGED <<messages, cursor>>
        BY <2>4, <3>3 DEF ClientStep, CallStep, PublishBegin, EnsureStreamBegin,
          EnsureStreamCommit, TrimStreamBegin, DropCall, storeVars
      <4> QED BY <2>2, <4>1
    <3> QED BY <3>1, <3>2, <3>3
  <2>5. ASSUME NEW d \in Consumers, ConsumerStep(d)
        PROVE  cursor'[g] = Len(messages'[s])
    <3>1. CASE DeadLetterCommit(d)
      BY <2>3, <3>1, DeadLetterEffect DEF DeadLetterCommit, Inv
    <3>2. CASE \E start \in Starts : SubscribeCommit(d, start)
      <4>1. PICK start \in Starts : SubscribeCommit(d, start)
        BY <3>2
      <4>2. messages' = messages
        BY <4>1 DEF SubscribeCommit
      <4>3. Aside \/ (\E k \in Nat : Joined(GroupOf[d], k))
        BY <4>1, SubscribeEffect
      <4>4. cursor'[g] = cursor[g]
        BY <1>0, <2>1, <4>3, GroupTypes DEF Aside, Joined, groupVars
      <4> QED BY <2>1, <4>2, <4>4
    <3>3. CASE CollectNext(d)
      <4>1. /\ GroupOf[d] \in Groups
            /\ cursor[GroupOf[d]] + 1 <= Len(StreamOf(GroupOf[d]))
            /\ cursor' = [cursor EXCEPT ![GroupOf[d]] = cursor[GroupOf[d]] + 1]
            /\ messages' = messages
        BY <3>3, ScanEffect, GroupTypes DEF Took
      <4>2. GroupOf[d] # g
        BY <1>0, <2>1, <4>1 DEF StreamOf
      <4> QED BY <1>0, <2>1, <4>1, <4>2, GroupTypes
    <3>4. CASE ~DeadLetterCommit(d) /\ ~CollectNext(d)
               /\ ~\E start \in Starts : SubscribeCommit(d, start)
      <4>1. UNCHANGED <<messages, cursor>>
        BY <2>5, <3>4 DEF ConsumerStep, SubscriptionStep, LoopStep, LockStep, HandlerStep,
          FaultStep, SubscribeBegin, Unsubscribe, Stop, Register,
          Notified, Timeout, NextMessage, EndBatch, CollectRedelivery, CollectFresh,
          CollectEnd, Collected, CollectBegin, AckCommit, NakCommit,
          SettleBegin, ReturnOk, ReturnErr, DropSettle, Panic, storeVars
      <4> QED BY <2>2, <4>1
    <3> QED BY <3>1, <3>2, <3>3, <3>4
  <2>6. CASE Close \/ Tick
    BY <2>2, <2>6 DEF Close, Tick, storeVars
  <2> QED BY <1>3, <2>4, <2>5, <2>6 DEF Next
<1> QED BY <1>1, <1>2, <1>3

-----------------------------------------------------------------------------
(* Dead letters. *)

\* Nothing that is settled is ever unsettled.
LEMMA SettledGrows ==
  ASSUME Inv, Effect, NEW g \in Groups
  PROVE  settled[g] \subseteq settled'[g]
<1>1. ASSUME NEW c \in Consumers, NEW x \in Ids, Released(c, x)
      PROVE  settled[g] \subseteq settled'[g]
  BY <1>1, GroupTypes DEF Released
<1>2. ASSUME NEW c \in Consumers, ConsumerEffect(c)
      PROVE  settled[g] \subseteq settled'[g]
  BY <1>1, <1>2 DEF ConsumerEffect, Acknowledged, DeadLettered, Aside, Took, Retook, Joined,
    Returned, Stranded, groupVars, historyVars
<1> QED
  BY <1>2 DEF Effect, Aside, Published, Expired, groupVars, historyVars

LEMMA DeadLetterStep ==
  ASSUME Inv, Inv', GroupInv, DeadLetteredOnce, Effect, SettledIsFinal'
  PROVE  DeadLetteredOnce'
<1> DEFINE Once(s) ==
      /\ \A i \in 1..Len(messages[s]) :
           LET o == messages[s][i].origin IN o # <<>> => o[2] \in settled[o[1]]
      /\ \A i, j \in 1..Len(messages[s]) :
           messages[s][i].origin # <<>> /\ messages[s][j].origin = messages[s][i].origin => j = i
<1>1. \A s \in Subjects : Once(s)
  BY DEF DeadLetteredOnce
<1>2. \A s \in Subjects : Len(messages[s]) \in Nat /\ \A i \in 1..Len(messages[s]) :
        /\ messages[s][i] \in Envelopes
        /\ messages[s][i].origin # <<>> => messages[s][i].origin \in Groups \X Ids
  BY StreamIds DEF Inv, Envelopes, Origins
<1>3. \A g \in Groups : settled[g] \subseteq settled'[g]
  BY SettledGrows
<1>4. ASSUME NEW s \in Subjects, messages'[s] = messages[s]
      PROVE  Once(s)'
  BY <1>1, <1>2, <1>3, <1>4
<1>5. ASSUME NEW s \in Subjects, NEW e \in Envelopes, Appended(s, e),
             e.origin = <<>> \/ (e.origin[2] \in settled'[e.origin[1]]
                                 /\ e.origin[2] \notin settled[e.origin[1]])
      PROVE  \A t \in Subjects : Once(t)'
  <2> DEFINE m == messages[s]  n == Len(m)
  <2>1. /\ \A t \in Subjects \ {s} : messages'[t] = messages[t]
        /\ n \in Nat /\ Len(messages'[s]) = n + 1
        /\ \A i \in 1..n : messages'[s][i] = m[i]
        /\ messages'[s][n + 1] = e
    BY <1>5, Appending DEF Appended, Inv
  <2>2. \A i \in 1..n : m[i].origin # <<>> =>
          m[i].origin \in Groups \X Ids /\ m[i].origin[2] \in settled[m[i].origin[1]]
    BY <1>1, <1>2
  <2>3. \A i, j \in 1..n : m[i].origin # <<>> /\ m[j].origin = m[i].origin => j = i
    BY <1>1
  <2> HIDE DEF m, n
  <2>4. \A i \in 1..n+1 : i \in 1..n \/ i = n + 1
    BY <2>1
  <2>5. \A i \in 1..n : m[i].origin # <<>> => m[i].origin # e.origin
    BY <1>5, <2>2
  <2>6. Once(s)'
    BY <1>3, <1>5, <2>1, <2>2, <2>3, <2>4, <2>5
  <2> QED BY <1>4, <2>1, <2>6
<1>6. ASSUME NEW s \in Subjects, NEW n \in Nat, Expired(s, n)
      PROVE  \A t \in Subjects : Once(t)'
  <2> DEFINE m == messages[s]  L == Len(m)
  <2>1. /\ \A t \in Subjects \ {s} : messages'[t] = messages[t]
        /\ n \in 1..L /\ L \in Nat /\ Len(messages'[s]) = L - n
        /\ \A i \in 1..L-n : messages'[s][i] = m[i + n]
    BY <1>6, Trimming DEF Expired
  <2>2. /\ \A i \in 1..L : m[i].origin # <<>> =>
             m[i].origin \in Groups \X Ids /\ m[i].origin[2] \in settled[m[i].origin[1]]
        /\ \A i, j \in 1..L : m[i].origin # <<>> /\ m[j].origin = m[i].origin => j = i
    BY <1>1, <1>2
  <2> HIDE DEF m, L
  <2>3. \A i \in 1..L-n : i \in Int /\ i + n \in 1..L /\ messages'[s][i] = m[i + n]
    BY <2>1
  <2>4. ASSUME NEW i \in 1..L-n, messages'[s][i].origin # <<>>
        PROVE  /\ messages'[s][i].origin[2] \in settled'[messages'[s][i].origin[1]]
               /\ \A j \in 1..L-n : messages'[s][j].origin = messages'[s][i].origin => j = i
    <3>1. /\ m[i + n].origin \in Groups \X Ids
          /\ m[i + n].origin[2] \in settled[m[i + n].origin[1]]
      BY <2>2, <2>3, <2>4
    <3>2. ASSUME NEW j \in 1..L-n, messages'[s][j].origin = messages'[s][i].origin
          PROVE  j = i
      <4>1. j + n = i + n
        BY <2>2, <2>3, <2>4, <3>2
      <4> QED BY <2>1, <4>1
    <3> QED BY <1>3, <2>3, <3>1, <3>2
  <2>5. Once(s)'
    BY <2>1, <2>4
  <2> QED BY <1>4, <2>1, <2>5
<1>7. ASSUME NEW c \in Consumers, NEW x \in Ids, NEW e \in Envelopes, DeadLettered(c, x, e)
      PROVE  \A t \in Subjects : Once(t)'
  <2>1. /\ Released(c, x) /\ Appended(DeadLetterOf[SubjectFor(c)], e)
        /\ DeadLetterOf[SubjectFor(c)] \in Subjects /\ e.origin = <<GroupOf[c], x>>
    BY <1>7 DEF DeadLettered, Appended
  <2>2. x \in settled'[GroupOf[c]] /\ x \notin settled[GroupOf[c]]
    BY <2>1, GroupTypes DEF Released, Freed, GroupInv, SettledIsFinal
  <2> QED BY <1>5, <2>1, <2>2
<1>8. ASSUME messages' = messages
      PROVE  \A t \in Subjects : Once(t)'
  BY <1>4, <1>8
<1>9. ASSUME NEW c \in Consumers, ConsumerEffect(c)
      PROVE  \A t \in Subjects : Once(t)'
  BY <1>7, <1>8, <1>9 DEF ConsumerEffect, Aside, Took, Retook, Joined, Acknowledged, Returned,
    Stranded
<1>10. \A t \in Subjects : Once(t)'
  BY <1>5, <1>6, <1>8, <1>9 DEF Effect, Published, Aside
<1>11. \A s \in Subjects : \A i \in 1..Len(messages'[s]) :
         messages'[s][i].origin # <<>> => messages'[s][i].origin \in Groups \X Ids
  <2>1. \A s \in Subjects : messages'[s] \in Seq(Envelopes)
    BY DEF Inv, TypeOK
  <2>2. \A s \in Subjects : \A i \in 1..Len(messages'[s]) : messages'[s][i] \in Envelopes
    BY <2>1, ElementOfSeq
  <2> QED BY <2>2 DEF Envelopes, Origins
<1> QED BY <1>10, <1>11 DEF DeadLetteredOnce, SettledIsFinal

-----------------------------------------------------------------------------
(* The invariant of the queue. *)

QueueInv == GroupInv /\ Room /\ Backpressure /\ AtEnd /\ DeadLetteredOnce

LEMMA QueueInvInit ==
  ASSUME Init
  PROVE  QueueInv
<1>1. Inv /\ IdsOf(<<>>) = {} /\ Distinct(<<>>)
  BY InvInit, IdsOfEmpty
<1>2. /\ \A s \in Subjects : messages[s] = <<>> /\ Len(messages[s]) = 0
      /\ \A g \in Groups : /\ cursor[g] = 0 /\ pending[g] = {} /\ redeliver[g] = <<>>
                           /\ settled[g] = {} /\ skipped[g] = {} /\ stranded[g] = {}
                           /\ StreamOf(g) = <<>> /\ Range(redeliver[g]) = {}
                           /\ Len(redeliver[g]) = 0
      /\ \A c \in Consumers : /\ pc[c] = "idle" /\ batch[c] = <<>> /\ IdsOf(batch[c]) = {}
                              /\ InHand(c) = {} /\ Held(c) = {} /\ Len(batch[c]) = 0
      /\ groups = {}
  <2>1. \A s \in Subjects : messages[s] = <<>> /\ Len(messages[s]) = 0
    BY DEF Init
  <2>2. ASSUME NEW c \in Consumers
        PROVE  /\ pc[c] = "idle" /\ batch[c] = <<>> /\ IdsOf(batch[c]) = {}
               /\ InHand(c) = {} /\ Held(c) = {} /\ Len(batch[c]) = 0
    BY <1>1 DEF Init, InHand, Held, Settling
  <2>3. ASSUME NEW g \in Groups
        PROVE  /\ redeliver[g] = <<>> /\ Range(redeliver[g]) = {} /\ Len(redeliver[g]) = 0
    BY DEF Init, Range
  <2> QED BY <2>1, <2>2, <2>3, Topology DEF Init, StreamOf
<1>3. DrawnIsNew
  BY <1>2 DEF DrawnIsNew, Untouched, Known
<1>4. Origin /\ Handling
  BY <1>2 DEF Init, Origin, Handling, Publishing, Idle, Settling
<1>5. OnStream /\ ScanFollows /\ Room /\ AtEnd /\ Backpressure
  BY <1>2 DEF OnStream, ScanFollows, Room, AtEnd, Backpressure
<1>6. InHandOnce /\ OneHolder
  BY <1>1, <1>2, Topology DEF InHandOnce, OneHolder
<1>7. CursorSplitsStream /\ DeadLetteredOnce
  BY <1>2 DEF CursorSplitsStream, DeadLetteredOnce
<1>8. SettledIsFinal /\ PendingIsExact
  <2>1. SettledIsFinal
    BY <1>2 DEF SettledIsFinal
  <2>2. \A g \in Groups : pending[g] = {} /\ Claimed(g) = {}
    BY <1>2 DEF Claimed
  <2> QED BY <2>1, <2>2 DEF PendingIsExact
<1> QED BY <1>3, <1>4, <1>5, <1>6, <1>7, <1>8 DEF QueueInv, GroupInv

LEMMA QueueInvStep ==
  ASSUME Inv, QueueInv, [Next]_vars
  PROVE  QueueInv'
<1>1. GroupInv /\ Inv'
  BY InvStep DEF QueueInv
<1>2. Effect /\ InHandOnce'
  BY <1>1, StepEffect
<1>3. OneHolder'
  BY <1>1, <1>2, ApartStep DEF OneHolder, Apart, InHandOnce, Distinct, NoRepeat
<1>4. DrawnIsNew' /\ Origin' /\ Handling' /\ ScanFollows'
  BY <1>1, <1>2, DrawnStep, OriginStep, HandlingStep, ScanFollowsStep
<1>5. OnStream' /\ CursorSplitsStream' /\ SettledIsFinal' /\ PendingIsExact'
  BY <1>1, <1>2, CursorStep, SettledStep, PendingStep
<1>6. Room' /\ Backpressure' /\ AtEnd' /\ DeadLetteredOnce'
  BY <1>1, <1>2, <1>5, RoomStep, BackpressureStep, AtEndStep, DeadLetterStep DEF QueueInv
<1> QED BY <1>2, <1>3, <1>4, <1>5, <1>6 DEF QueueInv, GroupInv

LEMMA QueueInvariance == Spec => [](Inv /\ QueueInv)
<1>1. Init => Inv /\ QueueInv
  BY InvInit, QueueInvInit
<1>2. Inv /\ QueueInv /\ [Next]_vars => (Inv /\ QueueInv)'
  BY InvStep, QueueInvStep
<1> QED BY <1>1, <1>2, PTL DEF Spec

\* Competing consumers never share a message: in every reachable state an id of a
\* group is with one subscription, once, or in the redelivery queue, once, whatever
\* the interleaving of loops, verdicts, trims and panics.
THEOREM OneHolderAlways == Spec => []OneHolder
<1>1. QueueInv => OneHolder
  BY DEF QueueInv, GroupInv
<1> QED BY <1>1, QueueInvariance, PTL

\* Nothing is lost between publish and settlement: at or before a group's cursor all
\* is pending, settled or skipped from the start, behind it nothing is, and a trim
\* that moves all positions keeps it so.
THEOREM CursorAlwaysSplits == Spec => []CursorSplitsStream
<1>1. QueueInv => CursorSplitsStream
  BY DEF QueueInv, GroupInv
<1> QED BY <1>1, QueueInvariance, PTL

\* An acked or dead-lettered message never comes back to its group.
THEOREM SettledForGood == Spec => []SettledIsFinal
<1>1. QueueInv => SettledIsFinal
  BY DEF QueueInv, GroupInv
<1> QED BY <1>1, QueueInvariance, PTL

\* A pending set holds what its group's consumers and redelivery queue answer for,
\* and what they let go of without a verdict; nothing claimed is missing from it.
THEOREM PendingAlwaysExact == Spec => []PendingIsExact
<1>1. QueueInv => PendingIsExact
  BY DEF QueueInv, GroupInv
<1> QED BY <1>1, QueueInvariance, PTL

\* No group has more pending than the limit of one of its subscriptions, although the
\* test for it and the inserts that rely on it are many steps apart.
THEOREM BackpressureHolds == Spec => []Backpressure
<1>1. QueueInv => Backpressure
  BY DEF QueueInv
<1> QED BY <1>1, QueueInvariance, PTL

\* A loop that waits, and was not woken, has nothing to find: registering before
\* collecting leaves no window for a publish, a dead letter or a trim.
THEOREM WakeupsAreNotLost == Spec => []NoLostWakeup
<1>1. QueueInv => NoLostWakeup
  BY DEF QueueInv, AtEnd, NoLostWakeup, StreamOf, SubjectFor
<1> QED BY <1>1, QueueInvariance, PTL

\* dead_letter moves a message exactly once, and settles it where it came from.
THEOREM DeadLettersAreUnique == Spec => []DeadLetteredOnce
<1>1. QueueInv => DeadLetteredOnce
  BY DEF QueueInv
<1> QED BY <1>1, QueueInvariance, PTL

-----------------------------------------------------------------------------
(* The transport implements the work queue. *)

\* What WorkQueue sees of a stream, of a group, and of the consumers.
LogOf(s)   == [i \in 1..Len(messages[s]) |-> messages[s][i].id]
TakenBy(g) == {StreamOf(g)[i].id : i \in 1..Minimum(cursor[g], Len(StreamOf(g)))}

Log   == [s \in Subjects |-> LogOf(s)]
Taken == [g \in Groups |-> TakenBy(g)]
InHands == [c \in Consumers |-> Held(c)]

LEMMA LogTypes ==
  ASSUME TypeOK, IndexAgrees, NEW s \in Subjects
  PROVE  /\ LogOf(s) \in Seq(Ids) /\ Len(LogOf(s)) = Len(messages[s])
         /\ Len(messages[s]) \in Nat
         /\ \A i \in 1..Len(messages[s]) : LogOf(s)[i] = messages[s][i].id
         /\ \A i, j \in 1..Len(messages[s]) : LogOf(s)[i] = LogOf(s)[j] => i = j
         /\ IdsOf(messages[s]) = {LogOf(s)[i] : i \in 1..Len(messages[s])}
<1> DEFINE n == Len(messages[s])
<1>1. /\ n \in Nat /\ \A i \in 1..n : messages[s][i].id \in Ids
      /\ \A i, j \in 1..n : i # j => messages[s][i].id # messages[s][j].id
      /\ IdsOf(messages[s]) = {messages[s][i].id : i \in 1..n}
  BY StreamIds DEF Distinct
<1>2. LogOf(s) \in [1..n -> Ids] /\ \A i \in 1..n : LogOf(s)[i] = messages[s][i].id
  BY <1>1 DEF LogOf
<1> HIDE DEF n
<1>3. LogOf(s) \in Seq(Ids) /\ Len(LogOf(s)) = n
  BY <1>1, <1>2, SeqDef
<1> QED BY <1>1, <1>2, <1>3 DEF n

\* A group has taken what its cursor has passed.
LEMMA TakenIs ==
  ASSUME TypeOK, IndexAgrees, OnStream, NEW g \in Groups
  PROVE  /\ TakenBy(g) = {StreamOf(g)[i].id : i \in 1..cursor[g]}
         /\ TakenBy(g) \subseteq IdsOf(StreamOf(g))
         /\ cursor[g] \in 0..Len(StreamOf(g)) /\ Len(StreamOf(g)) \in Nat
<1>1. cursor[g] \in Nat /\ Len(StreamOf(g)) \in Nat /\ cursor[g] <= Len(StreamOf(g))
      /\ IdsOf(StreamOf(g)) = {StreamOf(g)[i].id : i \in 1..Len(StreamOf(g))}
  BY Topology, StreamIds DEF TypeOK, OnStream, StreamOf
<1>2. Minimum(cursor[g], Len(StreamOf(g))) = cursor[g]
  BY <1>1 DEF Minimum
<1>3. 1..cursor[g] \subseteq 1..Len(StreamOf(g))
  BY <1>1
<1> QED BY <1>1, <1>2, <1>3 DEF TakenBy

\* The log after an append, and after a trim.
LEMMA LogAppend ==
  ASSUME Inv, Inv', NEW s \in Subjects, NEW e \in Envelopes, Appended(s, e)
  PROVE  Log' = [Log EXCEPT ![s] = Append(@, e.id)]
<1>1. /\ \A t \in Subjects \ {s} : messages'[t] = messages[t]
      /\ Len(messages'[s]) = Len(messages[s]) + 1
      /\ \A i \in 1..Len(messages[s]) : messages'[s][i] = messages[s][i]
      /\ messages'[s][Len(messages[s]) + 1] = e
  BY Appending DEF Appended, Inv
<1>2. /\ LogOf(s) \in Seq(Ids) /\ Len(LogOf(s)) = Len(messages[s]) /\ Len(messages[s]) \in Nat
      /\ \A i \in 1..Len(messages[s]) : LogOf(s)[i] = messages[s][i].id
  BY LogTypes DEF Inv
<1>3. e.id \in Ids
  BY DEF Envelopes
<1> DEFINE a == Append(LogOf(s), e.id)  n == Len(messages[s])
<1>4. /\ a \in Seq(Ids) /\ Len(a) = n + 1 /\ n \in Nat
      /\ \A i \in 1..n : a[i] = messages[s][i].id
      /\ a[n + 1] = e.id
  BY <1>2, <1>3, AppendProperties
<1>5. LogOf(s)' = [i \in 1..Len(messages'[s]) |-> messages'[s][i].id]
  BY DEF LogOf
<1> HIDE DEF a
<1>6. a \in [1..n+1 -> Ids]
  BY <1>4, LenProperties
<1>7. \A i \in 1..n+1 : i \in 1..n \/ i = n + 1
  BY <1>4
<1>8. \A i \in 1..n+1 : a[i] = messages'[s][i].id
  BY <1>1, <1>4, <1>7
<1>9. LogOf(s)' = a
  BY <1>1, <1>5, <1>6, <1>8
<1>10. \A t \in Subjects \ {s} : LogOf(t)' = LogOf(t)
  BY <1>1 DEF LogOf
<1> QED BY <1>9, <1>10 DEF Log, a

LEMMA LogTrim ==
  ASSUME Inv, Inv', NEW s \in Subjects, NEW n \in Nat, Expired(s, n)
  PROVE  Log' = [Log EXCEPT ![s] = SubSeq(@, n + 1, Len(@))]
<1> DEFINE L == Len(messages[s])  l == LogOf(s)  a == SubSeq(l, n + 1, Len(l))
<1>1. /\ \A t \in Subjects \ {s} : messages'[t] = messages[t]
      /\ n \in 1..L /\ L \in Nat /\ Len(messages'[s]) = L - n
      /\ \A i \in 1..L-n : messages'[s][i] = messages[s][i + n]
  BY Trimming DEF Expired
<1>2. l \in Seq(Ids) /\ Len(l) = L /\ \A i \in 1..L : l[i] = messages[s][i].id /\ l[i] \in Ids
  BY LogTypes, ElementOfSeq DEF Inv
<1> HIDE DEF l
<1>3. a \in Seq(Ids) /\ Len(a) = L - n /\ \A i \in 1..L-n : a[i] = messages[s][i + n].id
  <2>1. \A i \in n+1..L : l[i] \in Ids
    BY <1>1, <1>2
  <2>2. /\ a \in Seq(Ids) /\ Len(a) = (IF n + 1 <= L THEN L - (n + 1) + 1 ELSE 0)
        /\ \A i \in 1..L-(n+1)+1 : a[i] = l[(n + 1) + i - 1]
    BY <1>1, <1>2, <2>1, SubSeqProperties
  <2>3. \A i \in 1..L-n : i + n \in 1..L /\ a[i] = l[i + n]
    BY <1>1, <2>2
  <2> QED BY <1>1, <1>2, <2>2, <2>3
<1>4. LogOf(s)' = [i \in 1..Len(messages'[s]) |-> messages'[s][i].id]
  BY DEF LogOf
<1> HIDE DEF a
<1>5. a \in [1..L-n -> Ids]
  BY <1>3, LenProperties
<1>6. LogOf(s)' = a
  BY <1>1, <1>3, <1>4, <1>5
<1>7. \A t \in Subjects \ {s} : LogOf(t)' = LogOf(t)
  BY <1>1 DEF LogOf
<1> QED BY <1>6, <1>7 DEF Log, a, l

\* What the queue's own operators say of the transport.
LEMMA QueueSees ==
  /\ \A s \in Subjects : \A k : Queue!First(s, k) = {Log[s][i] : i \in 1..k}
  /\ \A s \in Subjects : Queue!Logged(s) = {Log[s][i] : i \in 1..Len(Log[s])}
  /\ \A id : Queue!Unused(id) <=>
       /\ \A s \in Subjects : id \notin Queue!Logged(s)
       /\ \A g \in Groups : id \notin Taken[g] \cup Range(redeliver[g]) \cup settled[g] \cup stranded[g]
       /\ \A c \in Consumers : id \notin InHands[c]
BY DEF Queue!First, Queue!Logged, Queue!Unused, Log, LogOf, Taken, TakenBy, StreamOf, InHands,
   Queue!Range, Range

\* What is on a stream is what the queue's log has.
LEMMA LoggedIds ==
  ASSUME Inv, NEW s \in Subjects
  PROVE  Queue!Logged(s) = IdsOf(messages[s])
<1>1. Queue!Logged(s) = {Log[s][i] : i \in 1..Len(Log[s])}
  BY QueueSees
<1>2. Log[s] = LogOf(s)
  BY DEF Log
<1>3. /\ Len(LogOf(s)) = Len(messages[s])
      /\ IdsOf(messages[s]) = {LogOf(s)[i] : i \in 1..Len(messages[s])}
  BY LogTypes DEF Inv
<1> QED BY <1>1, <1>2, <1>3

LEMMA UnusedId ==
  ASSUME Inv, OnStream, NEW id \in Ids, NewId(id)
  PROVE  Queue!Unused(id)
<1>1. \A s \in Subjects : id \notin Queue!Logged(s)
  BY LoggedIds DEF NewId
<1>2. \A g \in Groups : id \notin Taken[g]
  BY TakenIs, Topology DEF NewId, Inv, Taken, StreamOf
<1> QED BY <1>1, <1>2, QueueSees DEF NewId, Untouched, Known, InHands

\* What a group has taken, effect by effect.
LEMMA TakenStep ==
  ASSUME Inv, GroupInv, Inv', OnStream', NEW g \in Groups
  PROVE  /\ messages' = messages /\ cursor'[g] = cursor[g] => TakenBy(g)' = TakenBy(g)
         /\ \A s \in Subjects, e \in Envelopes :
              Appended(s, e) /\ cursor' = cursor => TakenBy(g)' = TakenBy(g)
         /\ \A s \in Subjects, n \in Nat :
              Expired(s, n) => TakenBy(g)' = IF SubjectOf[g] = s
                                             THEN TakenBy(g) \ Queue!First(s, n) ELSE TakenBy(g)
         /\ \A k \in Nat : Joined(g, k) => TakenBy(g)' = Queue!First(SubjectOf[g], k)
         /\ \A c \in Consumers : Took(c) /\ GroupOf[c] = g =>
              LET x == Log[SubjectOf[g]][cursor[g] + 1] IN
              /\ TakenBy(g)' = TakenBy(g) \cup {x} /\ x \notin TakenBy(g)
              /\ x = StreamOf(g)[cursor[g] + 1].id
              /\ Queue!First(SubjectOf[g], cursor[g]) = TakenBy(g)
<1> DEFINE m == StreamOf(g)  L == Len(m)  k0 == cursor[g]
<1>1. /\ TakenBy(g) = {m[i].id : i \in 1..k0} /\ k0 \in 0..L /\ L \in Nat
      /\ m = messages[SubjectOf[g]] /\ SubjectOf[g] \in Subjects
      /\ \A i, j \in 1..L : i # j => m[i].id # m[j].id
  BY TakenIs, Topology, StreamIds DEF Inv, GroupInv, StreamOf, Distinct
<1>2. TakenBy(g)' = {(StreamOf(g)')[i].id : i \in 1..cursor'[g]}
      /\ cursor'[g] \in 0..Len(StreamOf(g)') /\ Len(StreamOf(g)') \in Nat
  <2>1. /\ cursor'[g] \in Nat /\ cursor'[g] <= Len(StreamOf(g)')
        /\ messages'[SubjectOf[g]] \in Seq(Envelopes) /\ StreamOf(g)' = messages'[SubjectOf[g]]
    BY Topology DEF Inv, TypeOK, OnStream, StreamOf
  <2>2. Len(StreamOf(g)') \in Nat
    BY <2>1, LenProperties
  <2>3. Minimum(cursor'[g], Len(StreamOf(g)')) = cursor'[g]
    BY <2>1, <2>2 DEF Minimum
  <2> QED BY <2>1, <2>2, <2>3 DEF TakenBy
<1>3. \A k : Queue!First(SubjectOf[g], k) = {Log[SubjectOf[g]][i] : i \in 1..k}
  BY <1>1, QueueSees
<1>4. \A i \in 1..L : Log[SubjectOf[g]][i] = m[i].id
  BY <1>1, LogTypes DEF Log, Inv
<1>5. \A k \in 0..L : Queue!First(SubjectOf[g], k) = {m[i].id : i \in 1..k}
  <2> SUFFICES ASSUME NEW k \in 0..L
               PROVE  {Log[SubjectOf[g]][i] : i \in 1..k} = {m[i].id : i \in 1..k}
    BY <1>3
  <2>1. \A i \in 1..k : Log[SubjectOf[g]][i] = m[i].id
    BY <1>1, <1>4
  <2> QED BY <2>1
<1>6. ASSUME messages' = messages, cursor'[g] = cursor[g]
      PROVE  TakenBy(g)' = TakenBy(g)
  BY <1>6 DEF TakenBy, StreamOf
<1> HIDE DEF m
<1>7. ASSUME NEW s \in Subjects, NEW e \in Envelopes, Appended(s, e), cursor' = cursor
      PROVE  TakenBy(g)' = TakenBy(g)
  <2>1. \A i \in 1..L : (StreamOf(g)')[i] = m[i]
    BY <1>1, <1>7, Appending DEF Appended, Inv, StreamOf
  <2>2. \A i \in 1..k0 : i \in 1..L
    BY <1>1
  <2> QED BY <1>1, <1>2, <1>7, <2>1, <2>2
<1>8. ASSUME NEW s \in Subjects, NEW n \in Nat, Expired(s, n)
      PROVE  TakenBy(g)' = IF SubjectOf[g] = s THEN TakenBy(g) \ Queue!First(s, n) ELSE TakenBy(g)
  <2>1. /\ n \in 1..Len(messages[s])
        /\ cursor'[g] = IF SubjectOf[g] = s THEN TrimmedCursor(k0, n) ELSE k0
        /\ \A t \in Subjects \ {s} : messages'[t] = messages[t]
        /\ \A i \in 1..Len(messages[s])-n : messages'[s][i] = messages[s][i + n]
    BY <1>8, Trimming DEF Expired
  <2>2. CASE SubjectOf[g] # s
    BY <1>1, <1>2, <2>1, <2>2 DEF StreamOf
  <2>3. CASE SubjectOf[g] = s
    <3>1. n \in 1..L /\ cursor'[g] = TrimmedCursor(k0, n)
          /\ \A i \in 1..L-n : (StreamOf(g)')[i] = m[i + n]
      BY <1>1, <2>1, <2>3 DEF StreamOf
    <3>2. Queue!First(s, n) = {m[i].id : i \in 1..n}
      BY <1>1, <1>5, <2>3, <3>1
    <3>3. ASSUME NEW x \in TakenBy(g)'  PROVE x \in TakenBy(g) /\ x \notin Queue!First(s, n)
      <4>1. PICK i \in 1..TrimmedCursor(k0, n) : x = (StreamOf(g)')[i].id
        BY <1>2, <3>1
      <4>2. i \in 1..L-n /\ i + n \in 1..k0 /\ i + n \in 1..L /\ ~(i + n <= n)
        BY <1>1, <3>1, <4>1 DEF TrimmedCursor
      <4>3. x = m[i + n].id
        BY <3>1, <4>1, <4>2
      <4>4. \A j \in 1..n : j \in 1..L /\ j # i + n
        BY <1>1, <3>1, <4>2
      <4> QED BY <1>1, <3>2, <4>2, <4>3, <4>4
    <3>4. ASSUME NEW x \in TakenBy(g), x \notin Queue!First(s, n)  PROVE x \in TakenBy(g)'
      <4>1. PICK i \in 1..k0 : x = m[i].id
        BY <1>1
      <4>2. i \notin 1..n
        BY <3>2, <3>4, <4>1
      <4>3. i - n \in 1..TrimmedCursor(k0, n) /\ i - n \in 1..L-n /\ (i - n) + n = i
        BY <1>1, <3>1, <4>1, <4>2 DEF TrimmedCursor
      <4>4. (StreamOf(g)')[i - n] = m[i]
        BY <3>1, <4>3
      <4> QED BY <1>2, <3>1, <4>1, <4>3, <4>4
    <3> QED BY <2>3, <3>3, <3>4
  <2> QED BY <2>2, <2>3
<1>9. ASSUME NEW k \in Nat, Joined(g, k)
      PROVE  TakenBy(g)' = Queue!First(SubjectOf[g], k)
  <2>1. k \in 0..L /\ cursor'[g] = k /\ StreamOf(g)' = m
    BY <1>9, GroupTypes DEF Joined, StreamOf, m
  <2> QED BY <1>2, <1>5, <2>1
<1>10. ASSUME NEW c \in Consumers, Took(c), GroupOf[c] = g
       PROVE  LET x == Log[SubjectOf[g]][cursor[g] + 1] IN
              /\ TakenBy(g)' = TakenBy(g) \cup {x} /\ x \notin TakenBy(g)
              /\ x = StreamOf(g)[cursor[g] + 1].id
              /\ Queue!First(SubjectOf[g], cursor[g]) = TakenBy(g)
  <2>1. /\ k0 + 1 \in 1..L /\ cursor'[g] = k0 + 1 /\ StreamOf(g)' = m
    BY <1>1, <1>10, GroupTypes DEF Took, StreamOf, m
  <2>2. Log[SubjectOf[g]][k0 + 1] = m[k0 + 1].id
    BY <1>4, <2>1
  <2>3. TakenBy(g)' = {m[i].id : i \in 1..k0+1}
    BY <1>2, <2>1
  <2>4. \A i \in 1..k0+1 : i \in 1..k0 \/ i = k0 + 1
    BY <1>1
  <2>5. \A i \in 1..k0 : i \in 1..k0+1 /\ i \in 1..L /\ i # k0 + 1
    BY <1>1
  <2>6. m[k0 + 1].id \notin TakenBy(g)
    BY <1>1, <2>1, <2>5
  <2>7. k0 + 1 \in 1..k0+1
    BY <1>1
  <2>8. TakenBy(g)' = TakenBy(g) \cup {m[k0 + 1].id}
    BY <1>1, <2>3, <2>4, <2>5, <2>7
  <2> QED BY <1>1, <1>5, <2>2, <2>6, <2>8 DEF m
<1> QED BY <1>6, <1>7, <1>8, <1>9, <1>10

\* Every effect is a step of the work queue, or one it does not see.
LEMMA QueueStep ==
  ASSUME Inv, GroupInv, Inv', OnStream', Effect
  PROVE  [Queue!QNext]_Queue!qvars
<1> USE DEF Log, LogOf, Taken, TakenBy, InHands, StreamOf
<1>1. ASSUME SameHeld
      PROVE  InHands' = InHands
  BY <1>1 DEF SameHeld
<1>2. ASSUME messages' = messages
      PROVE  Log' = Log
  BY <1>2
<1>3. ASSUME messages' = messages, cursor' = cursor
      PROVE  Taken' = Taken
  BY <1>3
<1>4. ASSUME NEW s \in Subjects, NEW e \in Envelopes, Appended(s, e), cursor' = cursor
      PROVE  /\ Queue!Unused(e.id) /\ e.id \in Ids
             /\ Log' = [Log EXCEPT ![s] = Append(@, e.id)]
             /\ Taken' = Taken
  <2>1. Queue!Unused(e.id) /\ e.id \in Ids
    BY <1>4, UnusedId DEF Appended, NewId, GroupInv
  <2>2. Log' = [Log EXCEPT ![s] = Append(@, e.id)]
    BY <1>4, LogAppend
  <2>3. \A g \in Groups : TakenBy(g)' = TakenBy(g)
    BY <1>4, TakenStep
  <2>4. Taken' = Taken
    BY <2>3
  <2> QED BY <2>1, <2>2, <2>4
<1>5. CASE Aside
  <2>1. /\ Log' = Log /\ Taken' = Taken /\ InHands' = InHands
        /\ UNCHANGED <<groups, redeliver, settled, stranded>>
    BY <1>1, <1>2, <1>3, <1>5 DEF Aside, groupVars, historyVars
  <2> QED BY <2>1 DEF Queue!qvars
<1>6. ASSUME NEW s \in Subjects, NEW e \in Envelopes, Published(s, e)
      PROVE  Queue!QNext
  <2>1. /\ Appended(s, e) /\ cursor' = cursor /\ InHands' = InHands
        /\ UNCHANGED <<groups, redeliver, settled, stranded>>
    BY <1>1, <1>6 DEF Published, groupVars, historyVars
  <2>2. Queue!Publish(s, e.id) /\ e.id \in Ids
    BY <1>4, <2>1 DEF Queue!Publish, Queue!AppendLog
  <2> QED BY <2>2 DEF Queue!QNext
<1>7. ASSUME NEW s \in Subjects, NEW n \in Nat, Expired(s, n)
      PROVE  Queue!QNext
  <2>1. /\ n \in 1..Len(messages[s]) /\ InHands' = InHands
        /\ UNCHANGED <<groups, redeliver, settled, stranded>>
    BY <1>1, <1>7 DEF Expired, historyVars
  <2>2. Log' = [Log EXCEPT ![s] = SubSeq(@, n + 1, Len(@))]
    BY <1>7, LogTrim
  <2>3. Taken' = [g \in Groups |-> IF SubjectOf[g] = s THEN Taken[g] \ Queue!First(s, n)
                                                       ELSE Taken[g]]
    <3>1. \A g \in Groups : TakenBy(g)' = IF SubjectOf[g] = s THEN TakenBy(g) \ Queue!First(s, n)
                                                              ELSE TakenBy(g)
      BY <1>7, TakenStep
    <3>2. \A g \in Groups : Taken[g] = TakenBy(g)
      BY DEF Taken
    <3>3. Taken' = [g \in Groups |-> TakenBy(g)']
      BY DEF Taken
    <3> HIDE DEF Taken, TakenBy
    <3> QED BY <3>1, <3>2, <3>3
  <2>4. Len(Log[s]) = Len(messages[s])
    BY LogTypes DEF Inv
  <2>5. Queue!Expire(s, n) /\ n \in 1..Len(Log[s])
    BY <2>1, <2>2, <2>3, <2>4 DEF Queue!Expire
  <2> QED BY <2>5 DEF Queue!QNext
<1>8. ASSUME NEW g \in Groups, NEW k \in Nat, Joined(g, k)
      PROVE  Queue!QNext
  <2>1. /\ g \notin groups /\ groups' = groups \cup {g} /\ k \in 0..Len(messages[SubjectOf[g]])
        /\ Log' = Log /\ InHands' = InHands /\ UNCHANGED <<redeliver, settled, stranded>>
    BY <1>1, <1>2, <1>8 DEF Joined
  <2>2. Taken' = [Taken EXCEPT ![g] = Queue!First(SubjectOf[g], k)]
    <3>1. TakenBy(g)' = Queue!First(SubjectOf[g], k)
      BY <1>8, TakenStep
    <3>2. \A h \in Groups \ {g} : TakenBy(h)' = TakenBy(h)
      <4>1. messages' = messages /\ \A h \in Groups \ {g} : cursor'[h] = cursor[h]
        BY <1>8, GroupTypes DEF Joined
      <4> QED BY <4>1, TakenStep
    <3> QED BY <3>1, <3>2
  <2>3. Len(Log[SubjectOf[g]]) = Len(messages[SubjectOf[g]])
    BY Topology, LogTypes DEF Inv
  <2>4. Queue!Join(g, k) /\ k \in 0..Len(Log[SubjectOf[g]])
    BY <2>1, <2>2, <2>3 DEF Queue!Join
  <2> QED BY <2>4 DEF Queue!QNext
<1>9. ASSUME NEW c \in Consumers, Queue!WorkerStep(c)
      PROVE  Queue!QNext
  BY <1>9 DEF Queue!QNext
<1>10. ASSUME NEW c \in Consumers, NEW ids, OthersHeld(c), Held(c)' = ids
       PROVE  InHands' = [InHands EXCEPT ![c] = ids]
  BY <1>10 DEF OthersHeld
<1>11. ASSUME NEW c \in Consumers, Took(c)
       PROVE  Queue!QNext
  <2> DEFINE g == GroupOf[c]  s == SubjectOf[g]  next == cursor[g] + 1  x == Log[s][next]
  <2> HIDE DEF Log, LogOf, Taken, TakenBy, InHands, StreamOf
  <2>1. /\ g \in Groups /\ s \in Subjects /\ g \in groups /\ next \in 1..Len(messages[s])
        /\ cursor[g] \in Nat
    BY <1>11, TookNew, Topology, GroupTypes DEF StreamOf
  <2>2. /\ TakenBy(g)' = TakenBy(g) \cup {x} /\ x \notin TakenBy(g)
        /\ x = StreamOf(g)[next].id /\ Queue!First(s, cursor[g]) = TakenBy(g)
    BY <1>11, <2>1, TakenStep
  <2>3. /\ messages' = messages /\ UNCHANGED <<groups, redeliver, settled, stranded>>
        /\ cursor' = [cursor EXCEPT ![g] = next]
        /\ Held(c)' = Held(c) \cup {StreamOf(g)[next].id} /\ OthersHeld(c)
    BY <1>11 DEF Took, historyVars
  <2> HIDE DEF x
  <2>4. Taken' = [Taken EXCEPT ![g] = @ \cup {x}]
    <3>1. \A h \in Groups \ {g} : cursor'[h] = cursor[h]
      BY <2>1, <2>3, GroupTypes
    <3>2. \A h \in Groups \ {g} : TakenBy(h)' = TakenBy(h)
      BY <2>3, <3>1, TakenStep
    <3>3. Taken' = [h \in Groups |-> TakenBy(h)'] /\ Taken = [h \in Groups |-> TakenBy(h)]
      BY DEF Taken
    <3> QED BY <2>1, <2>2, <3>2, <3>3
  <2>5. InHands' = [InHands EXCEPT ![c] = @ \cup {x}]
    <3>1. Held(c)' = Held(c) \cup {x} /\ InHands[c] = Held(c)
      BY <2>2, <2>3 DEF InHands
    <3> QED BY <1>10, <2>3, <3>1
  <2>6. Log' = Log /\ Len(Log[s]) = Len(messages[s]) /\ next - 1 = cursor[g]
    <3>1. Log[s] = LogOf(s) /\ Len(LogOf(s)) = Len(messages[s])
      BY <2>1, LogTypes DEF Inv, Log
    <3> QED BY <1>2, <2>1, <2>3, <3>1
  <2>7. Taken[g] = TakenBy(g)
    BY <2>1 DEF Taken
  <2>8. /\ g \in groups /\ Queue!First(s, next - 1) \subseteq Taken[g] /\ Log[s][next] \notin Taken[g]
        /\ Taken' = [Taken EXCEPT ![g] = @ \cup {Log[s][next]}]
        /\ InHands' = [InHands EXCEPT ![c] = @ \cup {Log[s][next]}]
        /\ Log' = Log /\ UNCHANGED <<groups, redeliver, settled, stranded>>
    BY <2>1, <2>2, <2>3, <2>4, <2>5, <2>6, <2>7 DEF x
  <2>9. next \in 1..Len(Log[s])
    BY <2>1, <2>6
  <2> HIDE DEF next
  <2>10. PICK k \in 1..Len(Log[s]) : k = next
    BY <2>9
  <2>11. Queue!Take(c, k)
    <3>1. /\ g \in groups /\ Queue!First(s, k - 1) \subseteq Taken[g] /\ Log[s][k] \notin Taken[g]
          /\ Taken' = [Taken EXCEPT ![g] = @ \cup {Log[s][k]}]
          /\ InHands' = [InHands EXCEPT ![c] = @ \cup {Log[s][k]}]
          /\ Log' = Log /\ UNCHANGED <<groups, redeliver, settled, stranded>>
      BY <2>8, <2>10
    <3> QED BY <3>1 DEF Queue!Take, Log, LogOf, Taken, TakenBy, InHands, StreamOf
  <2>12. \E j \in 1..Len(Log[s]) : Queue!Take(c, j)
    BY <2>11, Zenon
  <2>13. Queue!WorkerStep(c)
    BY <2>12, Zenon DEF Queue!WorkerStep, Log, LogOf
  <2> QED BY <1>9, <2>13
<1>12. ASSUME NEW c \in Consumers, Retook(c)
       PROVE  Queue!QNext
  <2> DEFINE g == GroupOf[c]  s == SubjectOf[g]  x == Head(redeliver[g])
  <2>1. /\ redeliver[g] # <<>> /\ redeliver' = [redeliver EXCEPT ![g] = Tail(@)]
        /\ Held(c)' = (IF x \in IdsOf(messages[s]) THEN Held(c) \cup {x} ELSE Held(c))
        /\ OthersHeld(c) /\ messages' = messages /\ cursor' = cursor
        /\ UNCHANGED <<groups, settled, stranded>>
    BY <1>12 DEF Retook, historyVars
  <2>2. Queue!Logged(s) = IdsOf(messages[s])
    <3>1. s \in Subjects
      BY Topology
    <3> QED BY <3>1, LoggedIds
  <2>3. InHands' = [InHands EXCEPT ![c] = IF x \in Queue!Logged(s) THEN @ \cup {x} ELSE @]
    BY <1>10, <2>1, <2>2
  <2>4. Queue!Retake(c)
    BY <1>2, <1>3, <2>1, <2>3 DEF Queue!Retake
  <2> QED BY <1>9, <2>4 DEF Queue!WorkerStep
<1>13. ASSUME NEW c \in Consumers, NEW x \in Ids, Released(c, x)
       PROVE  /\ x \in InHands[c] /\ InHands' = [InHands EXCEPT ![c] = @ \ {x}]
              /\ Queue!Release(c, x)
              /\ settled' = [settled EXCEPT ![GroupOf[c]] = @ \cup {x}]
              /\ UNCHANGED <<groups, cursor, redeliver, stranded>>
  <2>1. /\ x \in Held(c) /\ Held(c)' = Held(c) \ {x} /\ OthersHeld(c)
        /\ settled' = [settled EXCEPT ![GroupOf[c]] = @ \cup {x}]
        /\ UNCHANGED <<groups, cursor, redeliver, stranded>>
    BY <1>13 DEF Released, Freed
  <2>2. x \in InHands[c] /\ InHands' = [InHands EXCEPT ![c] = @ \ {x}]
    BY <1>10, <2>1
  <2> QED BY <2>1, <2>2 DEF Queue!Release
<1>14. ASSUME NEW c \in Consumers, NEW x \in Ids, Acknowledged(c, x)
       PROVE  Queue!QNext
  <2>1. Queue!Settle(c, x) /\ x \in InHands[c]
    BY <1>2, <1>3, <1>13, <1>14 DEF Acknowledged, Queue!Settle
  <2> QED BY <1>9, <2>1 DEF Queue!WorkerStep
<1>15. ASSUME NEW c \in Consumers, NEW x \in Ids, NEW e \in Envelopes, DeadLettered(c, x, e)
       PROVE  Queue!QNext
  <2> DEFINE s == DeadLetterOf[SubjectFor(c)]
  <2>1. Released(c, x) /\ Appended(s, e) /\ s \in Subjects /\ cursor' = cursor
    BY <1>13, <1>15 DEF DeadLettered, Appended
  <2>2. Queue!Divert(c, x, s, e.id) /\ x \in InHands[c] /\ e.id \in Ids
    BY <1>4, <1>13, <2>1 DEF Queue!Divert, Queue!AppendLog
  <2> QED BY <1>9, <2>1, <2>2 DEF Queue!WorkerStep
<1>16. ASSUME NEW c \in Consumers, NEW x \in Ids, Returned(c, x)
       PROVE  Queue!QNext
  <2>1. /\ x \in Held(c) /\ Held(c)' = Held(c) \ {x} /\ OthersHeld(c)
        /\ redeliver' = [redeliver EXCEPT ![GroupOf[c]] = Append(@, x)]
        /\ UNCHANGED <<messages, groups, cursor, settled, stranded>>
    BY <1>16 DEF Returned, Freed, historyVars
  <2>2. x \in InHands[c] /\ InHands' = [InHands EXCEPT ![c] = @ \ {x}]
    BY <1>10, <2>1
  <2>3. Queue!Return(c, x)
    BY <1>2, <1>3, <2>1, <2>2 DEF Queue!Return, Queue!Release
  <2> QED BY <1>9, <2>2, <2>3 DEF Queue!WorkerStep
<1>17. ASSUME NEW c \in Consumers, NEW ids \in SUBSET Ids, Stranded(c, ids)
       PROVE  [Queue!QNext]_Queue!qvars
  <2>1. /\ ids \subseteq Held(c) /\ Held(c)' = Held(c) \ ids /\ OthersHeld(c)
        /\ stranded' = [stranded EXCEPT ![GroupOf[c]] = @ \cup ids]
        /\ UNCHANGED <<messages, groups, cursor, redeliver, settled>>
    BY <1>17 DEF Stranded
  <2>2. CASE ids = {}
    <3>1. SameHeld /\ stranded' = stranded
      BY <2>1, <2>2 DEF SameHeld, OthersHeld, Inv, TypeOK
    <3> QED BY <1>1, <1>2, <1>3, <2>1, <3>1 DEF Queue!qvars
  <2>3. CASE ids # {}
    <3>1. ids \in SUBSET InHands[c] /\ InHands' = [InHands EXCEPT ![c] = @ \ ids]
      BY <1>10, <2>1
    <3>2. Queue!Forget(c, ids)
      BY <1>2, <1>3, <2>1, <2>3, <3>1 DEF Queue!Forget
    <3> QED BY <1>9, <3>1, <3>2 DEF Queue!WorkerStep
  <2> QED BY <2>2, <2>3
<1>18. ASSUME NEW c \in Consumers, ConsumerEffect(c)
       PROVE  [Queue!QNext]_Queue!qvars
  BY <1>5, <1>8, <1>11, <1>12, <1>14, <1>15, <1>16, <1>17, <1>18, GroupTypes DEF ConsumerEffect
<1> QED BY <1>5, <1>6, <1>7, <1>18 DEF Effect

\* Nothing is published, taken or held at first.
LEMMA QueueInit ==
  ASSUME Init
  PROVE  Queue!QInit
<1>1. Log = [s \in Subjects |-> <<>>]
  <2>1. ASSUME NEW s \in Subjects
        PROVE  LogOf(s) = <<>>
    BY DEF Init, LogOf
  <2> QED BY <2>1 DEF Log
<1>2. Taken = [g \in Groups |-> {}]
  <2>1. ASSUME NEW g \in Groups
        PROVE  TakenBy(g) = {}
    <3>1. cursor[g] = 0 /\ messages[SubjectOf[g]] = <<>> /\ Len(messages[SubjectOf[g]]) = 0
      BY Topology DEF Init
    <3> QED BY <3>1 DEF TakenBy, StreamOf, Minimum
  <2> QED BY <2>1 DEF Taken
<1>3. InHands = [c \in Consumers |-> {}]
  <2>1. ASSUME NEW c \in Consumers
        PROVE  Held(c) = {}
    BY IdsOfEmpty DEF Init, Held, InHand, Settling
  <2> QED BY <2>1 DEF InHands
<1>4. /\ groups = {} /\ redeliver = [g \in Groups |-> <<>>]
      /\ settled = [g \in Groups |-> {}] /\ stranded = [g \in Groups |-> {}]
  BY DEF Init
<1> QED BY <1>1, <1>2, <1>3, <1>4 DEF Queue!QInit, Log, LogOf, Taken, TakenBy, InHands, StreamOf

\* The transport implements the work queue: whatever the interleaving of publishes,
\* trims, loops, verdicts, cancellations and panics, every step of it is a step of the
\* queue (one worker takes the next id, retakes one handed back, settles, diverts,
\* returns or forgets what it holds; a log grows or expires) or one the queue does not
\* see.  What a loop does under the lock in several steps is one step of the queue at
\* the step that moves the cursor or the head of redeliver.
THEOREM WorkQueueImplemented == Spec => ImplementsWorkQueue
<1>1. Init => Queue!QInit
  BY QueueInit
<1>2. Inv /\ QueueInv /\ (Inv /\ QueueInv)' /\ [Next]_vars => [Queue!QNext]_Queue!qvars
  <2> SUFFICES ASSUME Inv, QueueInv, Inv', QueueInv', [Next]_vars
               PROVE  [Queue!QNext]_Queue!qvars
    OBVIOUS
  <2>1. GroupInv /\ OnStream'
    BY DEF QueueInv, GroupInv
  <2>2. Effect
    BY <2>1, StepEffect
  <2> QED BY <2>1, <2>2, QueueStep
<1> QED BY <1>1, <1>2, QueueInvariance, PTL DEF Spec, ImplementsWorkQueue, Queue!QSpec

------------------------------------------------------------------------------
(* trim_stream. *)

\* take_while counts everything that is as old as the cutoff when the stream is in the
\* order of its timestamps.
LEMMA SortedExpired ==
  ASSUME TypeOK, NEW s \in Subjects, NEW cutoff \in Nat,
         \A i, j \in 1..Len(messages[s]) :
           i < j => messages[s][i].timestamp <= messages[s][j].timestamp
  PROVE  \A i \in 1..Len(messages[s]) :
           i > ExpiredCount(s, cutoff) => messages[s][i].timestamp > cutoff
<1> DEFINE m == messages[s]  L == Len(m)
           E == {i \in 1..L : \A j \in 1..i : m[j].timestamp <= cutoff}
<1>1. m \in Seq(Envelopes) /\ L \in Nat
  BY LenProperties DEF TypeOK
<1>2. \A i \in 1..L : m[i].timestamp \in Nat
  <2>1. \A i \in 1..L : m[i] \in Envelopes
    BY <1>1
  <2> QED BY <2>1 DEF Envelopes
<1>3. \A i, j \in 1..L : i < j => m[i].timestamp <= m[j].timestamp
  OBVIOUS
<1>4. IsFiniteSet(E) /\ Cardinality(E) \in Nat
  <2>1. IsFiniteSet(1..L)
    BY <1>1, FS_Interval
  <2>2. IsFiniteSet(E)
    BY <2>1, FS_Subset
  <2> QED BY <2>2, FS_CardinalityType
<1>5. ExpiredCount(s, cutoff) = Cardinality(E)
  BY DEF ExpiredCount
<1> SUFFICES ASSUME NEW i \in 1..L, i > Cardinality(E)
             PROVE  m[i].timestamp > cutoff
  BY <1>5
<1> HIDE DEF m, L, E
<1>6. CASE m[i].timestamp <= cutoff
  <2>1. \A j \in 1..i : j \in 1..L /\ m[j].timestamp <= cutoff
    <3>1. ASSUME NEW j \in 1..i
          PROVE  j \in 1..L /\ m[j].timestamp <= cutoff
      <4>1. j \in 1..L /\ i \in 1..L /\ (j = i \/ j < i)
        BY <1>1
      <4> QED BY <1>2, <1>3, <1>6, <4>1
    <3> QED BY <3>1
  <2>2. 1..i \subseteq E
    <3>1. ASSUME NEW j \in 1..i
          PROVE  j \in E
      <4>1. \A x \in 1..j : x \in 1..i
        BY <1>1
      <4> QED BY <2>1, <4>1 DEF E
    <3> QED BY <3>1
  <2>0. i \in Int /\ i >= 1
    BY <1>1
  <2>3. Cardinality(1..i) = i
    BY <2>0, FS_Interval
  <2>4. Cardinality(1..i) <= Cardinality(E)
    BY <1>4, <2>2, FS_Subset
  <2> QED BY <1>4, <2>0, <2>3, <2>4
<1> QED BY <1>1, <1>2, <1>6

\* Only its commit ends a trim_stream that nobody drops.
LEMMA TrimEnds ==
  ASSUME "drop_call" \notin Moves, Inv, [Next]_vars,
         NEW k \in Callers, call[k].op = "trim_stream", call'[k] = Idle
  PROVE  TrimStreamCommit(k)
<1>1. call[k] # Idle /\ call'[k] # call[k]
  BY DEF Idle
<1>2. call \in [Callers -> Calls]
  BY DEF Inv, TypeOK
<1>3. ASSUME NEW c \in Consumers, ConsumerStep(c)
      PROVE  FALSE
  BY <1>1, <1>3, ConsumerFrame DEF Inv
<1>4. ASSUME NEW x \in Callers, ClientStep(x)
      PROVE  TrimStreamCommit(k)
  <2>1. CASE x = k
    BY <1>1, <1>4, <2>1 DEF ClientStep, CallStep, PublishBegin, EnsureStreamBegin,
      TrimStreamBegin, PublishCommit, EnsureStreamCommit, DropCall
  <2>2. CASE x # k
    BY <1>1, <1>2, <1>4, <2>2 DEF ClientStep, CallStep, PublishBegin, EnsureStreamBegin,
      TrimStreamBegin, PublishCommit, EnsureStreamCommit, TrimStreamCommit, DropCall
  <2> QED BY <2>1, <2>2
<1>5. CASE Close \/ Tick \/ UNCHANGED vars
  BY <1>1, <1>5 DEF Close, Tick, vars
<1> QED BY <1>3, <1>4, <1>5 DEF Next

\* "Trim entries older than max_age from the stream": whatever ran between the call and
\* its turn at the lock, a trim_stream that has run on a stream in the order of its
\* timestamps leaves nothing of its cutoff or before.
THEOREM TrimRemoves ==
  ASSUME "drop_call" \notin Moves
  PROVE  Spec => TrimRemovesExpired
<1> DEFINE InOrder(s) == \A i, j \in 1..Len(messages[s]) :
                           i < j => messages[s][i].timestamp <= messages[s][j].timestamp
           Trimmed == \A k \in Callers :
             LET s == call[k].subject IN
             (/\ call[k].op = "trim_stream" /\ call'[k] = Idle
              /\ \A i, j \in 1..Len(messages[s]) :
                   i < j => messages[s][i].timestamp <= messages[s][j].timestamp)
             => \A i \in 1..Len(messages'[s]) : messages'[s][i].timestamp > call[k].cutoff
<1>1. Inv /\ [Next]_vars => [Trimmed]_vars
  <2> SUFFICES ASSUME Inv, [Next]_vars, NEW k \in Callers,
                      call[k].op = "trim_stream", call'[k] = Idle, InOrder(call[k].subject)
               PROVE  \A i \in 1..Len(messages'[call[k].subject]) :
                        messages'[call[k].subject][i].timestamp > call[k].cutoff
    OBVIOUS
  <2> DEFINE s == call[k].subject  cutoff == call[k].cutoff  n == ExpiredCount(s, cutoff)
  <2>1. TrimStreamCommit(k)
    BY TrimEnds
  <2>2. s \in Subjects /\ cutoff \in Nat
    BY DEF Inv, TypeOK, Calls, Idle
  <2>3. n \in 0..Len(messages[s]) /\ Len(messages[s]) \in Nat
    BY <2>2, ExpiredCountType, LenProperties DEF Inv, TypeOK
  <2>4. \A i \in 1..Len(messages[s]) : i > n => messages[s][i].timestamp > cutoff
    BY <2>2, SortedExpired DEF Inv
  <2>5. CASE n = 0
    <3>1. messages' = messages
      BY <2>1, <2>5, TrimNoEffect DEF storeVars
    <3>2. \A i \in 1..Len(messages[s]) : i > n
      BY <2>3, <2>5
    <3> QED BY <2>4, <3>1, <3>2
  <2>6. CASE n # 0
    <3>1. n \in 1..Len(messages[s])
      BY <2>3, <2>6
    <3>2. messages' = [messages EXCEPT ![s] = SubSeq(@, n + 1, Len(@))]
      BY <2>1, <2>6, TrimEffect DEF Inv
    <3> HIDE DEF s, n, cutoff
    <3>3. /\ Len(messages'[s]) = Len(messages[s]) - n
          /\ \A i \in 1..Len(messages[s])-n : messages'[s][i] = messages[s][i + n]
      BY <2>2, <3>1, <3>2, Trimming
    <3>4. ASSUME NEW i \in 1..Len(messages'[s])
          PROVE  messages'[s][i].timestamp > cutoff
      <4>1. i \in 1..Len(messages[s])-n /\ i + n \in 1..Len(messages[s]) /\ i + n > n
        BY <2>3, <3>3
      <4> QED BY <2>4, <3>3, <4>1
    <3> QED BY <3>4 DEF s, cutoff
  <2> QED BY <2>5, <2>6
<1> QED BY <1>1, Invariance, PTL DEF Spec, TrimRemovesExpired

=================================================================================
