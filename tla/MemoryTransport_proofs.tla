------------------------- MODULE MemoryTransport_proofs -------------------------
(***************************************************************************)
(* Proofs about MemoryTransport, for every set of subjects, groups,         *)
(* consumers and callers, every batch size and limit, and every bound.      *)
(***************************************************************************)
EXTENDS MemoryTransport, FiniteSetTheorems, SequenceTheorems, TLAPS

(* The strengthening.  Only one loop is inside collect_batch.                 *)
Mutex == \A c \in Consumers : pc[c] \in Locked <=> lock = c

(* What phase 2 still has to visit lies within the stream.                    *)
ScanInRange ==
  \A c \in Consumers : pc[c] = "scan" =>
    scan.next >= 1 /\ scan.last <= Len(messages[SubjectFor(c)])

(* A handler has a message, and a dead letter being written has an envelope.  *)
Equipped ==
  \A c \in Consumers :
    /\ pc[c] \in Settling \cup {"handle"} => msg[c] \in Envelopes
    /\ draft[c] \in Envelopes <=> pc[c] = "dead_letter"

(* An id that has been drawn but not committed is on no stream, and no two    *)
(* calls hold the same one.                                                   *)
Unpublished(id) == id < nextId /\ \A s \in Subjects : idIndex[s][id] = 0

Publishing(k) == call[k].op = "publish"
Drafting(c)   == draft[c] \in Envelopes

Freshness ==
  /\ \A s \in Subjects, id \in Ids : id >= nextId => idIndex[s][id] = 0
  /\ \A k \in Callers : Publishing(k) => Unpublished(call[k].envelope.id)
  /\ \A c \in Consumers : Drafting(c) => Unpublished(draft[c].id)
  /\ \A k, l \in Callers : Publishing(k) /\ Publishing(l) /\ k # l =>
       call[k].envelope.id # call[l].envelope.id
  /\ \A c, d \in Consumers : Drafting(c) /\ Drafting(d) /\ c # d => draft[c].id # draft[d].id
  /\ \A k \in Callers, c \in Consumers : Publishing(k) /\ Drafting(c) =>
       call[k].envelope.id # draft[c].id

Inv == TypeOK /\ IndexAgrees /\ Mutex /\ ScanInRange /\ Equipped /\ Freshness

-----------------------------------------------------------------------------
(* Helpers of the store. *)

\* The placeholder for "no envelope" is not an envelope: ids start at 1.
LEMMA BlankIsNoEnvelope == Blank \notin Envelopes
  BY BoundsAssumption DEF Blank, Envelopes, Ids

\* An envelope made now is an envelope while an id is left.
LEMMA EnvelopeType ==
  ASSUME TypeOK, nextId <= MaxMsgs, NEW o \in Origins
  PROVE  Envelope(o) \in Envelopes /\ Envelope(o).id = nextId /\ Envelope(o).origin = o
  BY BoundsAssumption DEF TypeOK, Envelope, Envelopes, Ids

\* take_while(..).count() is a number of messages of the stream.
LEMMA ExpiredCountType ==
  ASSUME TypeOK, NEW s \in Subjects, NEW cutoff \in Nat
  PROVE  ExpiredCount(s, cutoff) \in 0..Len(messages[s])
<1> DEFINE E == {i \in 1..Len(messages[s]) :
                  \A j \in 1..i : messages[s][j].timestamp <= cutoff}
<1>1. Len(messages[s]) \in Nat
  BY DEF TypeOK
<1>2. IsFiniteSet(1..Len(messages[s])) /\ Cardinality(1..Len(messages[s])) = Len(messages[s])
  BY <1>1, FS_Interval
<1>3. IsFiniteSet(E) /\ Cardinality(E) <= Len(messages[s])
  BY <1>2, FS_Subset
<1>4. Cardinality(E) \in Nat
  BY <1>3, FS_CardinalityType
<1> QED
  BY <1>1, <1>3, <1>4 DEF ExpiredCount

\* A new group starts somewhere in the stream.
LEMMA StartCursorType ==
  ASSUME TypeOK, IndexAgrees, NEW s \in Subjects, NEW start \in Starts
  PROVE  StartCursor(s, start) \in 0..Len(messages[s])
<1> DEFINE L == Len(messages[s])
           E == {i \in 1..L : \A j \in i..L : messages[s][j].timestamp >= start.arg}
<1>1. L \in Nat
  BY DEF TypeOK
<1>2. IsFiniteSet(1..L) /\ Cardinality(1..L) = L
  BY <1>1, FS_Interval
<1>3. IsFiniteSet(E) /\ Cardinality(E) <= L
  BY <1>2, FS_Subset
<1>4. Cardinality(E) \in Nat
  BY <1>3, FS_CardinalityType
<1>5. NotBefore(s, start.arg) \in 0..L
  <2>1. NotBefore(s, start.arg) = Cardinality(E)
    BY DEF NotBefore
  <2> HIDE DEF E
  <2> QED
    BY <1>1, <1>3, <1>4, <2>1
<1>6. start.at \in StartKinds
  BY OptionsAssumption
<1>7. \A id \in Ids : idIndex[s][id] \in 0..L
  BY <1>1 DEF TypeOK, IndexAgrees
<1>8. (IF start.arg \in Ids THEN idIndex[s][start.arg] ELSE 0) \in 0..L
  BY <1>1, <1>7
<1>9. CASE start.at = "latest"
  BY <1>1, <1>9 DEF StartCursor
<1>10. CASE start.at = "earliest"
  BY <1>1, <1>10 DEF StartCursor
<1>11. CASE start.at = "timestamp"
  BY <1>1, <1>5, <1>11 DEF StartCursor
<1>12. CASE start.at = "id"
  BY <1>8, <1>12 DEF StartCursor
<1> QED
  BY <1>6, <1>9, <1>10, <1>11, <1>12 DEF StartKinds

\* The index after a trim holds positions again.
LEMMA RebuiltIndexType ==
  ASSUME TypeOK, NEW s \in Subjects, NEW n \in 0..Len(messages[s])
  PROVE  RebuiltIndex(s, n) \in [Ids -> Nat]
<1>1. Len(messages[s]) \in Nat
  BY DEF TypeOK
<1>2. ASSUME NEW id \in Ids, \E i \in n+1..Len(messages[s]) : messages[s][i].id = id
      PROVE  (CHOOSE i \in n+1..Len(messages[s]) : messages[s][i].id = id) - n \in Nat
  BY <1>1, <1>2
<1> QED
  BY <1>2 DEF RebuiltIndex

\* The append of publish and dead_letter: one message longer, the index in step.
LEMMA AppendToStep ==
  ASSUME TypeOK, IndexAgrees, NEW s \in Subjects, NEW e \in Envelopes,
         Unpublished(e.id), AppendTo(s, e)
  PROVE  /\ streams' \subseteq Subjects
         /\ messages' \in [Subjects -> Seq(Envelopes)]
         /\ idIndex' \in [Subjects -> [Ids -> Nat]]
         /\ woken' \in [Consumers -> BOOLEAN]
         /\ Len(messages'[s]) = Len(messages[s]) + 1
         /\ \A i \in 1..Len(messages[s]) : messages'[s][i] = messages[s][i]
         /\ messages'[s][Len(messages[s]) + 1] = e
         /\ \A t \in Subjects \ {s} : messages'[t] = messages[t] /\ idIndex'[t] = idIndex[t]
         /\ IndexAgrees'
<1>1. messages[s] \in Seq(Envelopes) /\ e.id \in Ids
  BY DEF TypeOK, Envelopes
<1>2. /\ messages' = [messages EXCEPT ![s] = Append(@, e)]
      /\ idIndex' = [idIndex EXCEPT ![s][e.id] = Len(messages[s]) + 1]
  BY DEF AppendTo
<1>3. messages'[s] = Append(messages[s], e)
  BY <1>2 DEF TypeOK
<1>4. /\ Len(messages'[s]) = Len(messages[s]) + 1
      /\ messages'[s] \in Seq(Envelopes)
      /\ \A i \in 1..Len(messages[s]) : messages'[s][i] = messages[s][i]
      /\ messages'[s][Len(messages[s]) + 1] = e
  BY <1>1, <1>3, AppendProperties
<1>5. \A t \in Subjects \ {s} : messages'[t] = messages[t] /\ idIndex'[t] = idIndex[t]
  BY <1>2 DEF TypeOK
<1>6. messages' \in [Subjects -> Seq(Envelopes)] /\ idIndex' \in [Subjects -> [Ids -> Nat]]
  BY <1>1, <1>2, <1>4 DEF TypeOK
<1>7. \A id \in Ids : idIndex'[s][id] = IF id = e.id THEN Len(messages[s]) + 1
                                                    ELSE idIndex[s][id]
  BY <1>1, <1>2 DEF TypeOK
<1>8. Len(messages[s]) \in Nat /\ idIndex[s][e.id] = 0
  BY <1>1 DEF Unpublished
<1>9. IndexAgrees'
  <2> SUFFICES ASSUME NEW t \in Subjects
               PROVE  /\ \A i \in 1..Len(messages'[t]) : idIndex'[t][messages'[t][i].id] = i
                      /\ \A id \in Ids : idIndex'[t][id] # 0 =>
                           /\ idIndex'[t][id] <= Len(messages'[t])
                           /\ messages'[t][idIndex'[t][id]].id = id
    BY DEF IndexAgrees
  <2>1. CASE t # s
    BY <1>5, <2>1 DEF IndexAgrees
  <2>2. CASE t = s
    <3>1. ASSUME NEW i \in 1..Len(messages'[s])
          PROVE  idIndex'[s][messages'[s][i].id] = i
      <4>1. CASE i = Len(messages[s]) + 1
        BY <1>1, <1>4, <1>7, <4>1
      <4>2. CASE i \in 1..Len(messages[s])
        <5>. messages[s][i] \in Envelopes
          BY <1>1, <4>2, ElementOfSeq
        <5>1. messages[s][i].id \in Ids /\ idIndex[s][messages[s][i].id] = i
          BY <4>2 DEF IndexAgrees, Envelopes
        <5>2. messages[s][i].id # e.id
          BY <1>8, <5>1, <4>2
        <5> QED
          BY <1>4, <1>7, <4>2, <5>1, <5>2
      <4> QED
        BY <1>4, <1>8, <4>1, <4>2
    <3>2. ASSUME NEW id \in Ids, idIndex'[s][id] # 0
          PROVE  /\ idIndex'[s][id] <= Len(messages'[s])
                 /\ messages'[s][idIndex'[s][id]].id = id
      <4>1. CASE id = e.id
        BY <1>4, <1>7, <1>8, <4>1
      <4>2. CASE id # e.id
        <5>1. idIndex'[s][id] = idIndex[s][id] /\ idIndex[s][id] \in 1..Len(messages[s])
          BY <1>7, <1>8, <3>2, <4>2 DEF IndexAgrees, TypeOK
        <5> QED
          BY <1>4, <1>8, <5>1 DEF IndexAgrees
      <4> QED
        BY <4>1, <4>2
    <3> QED
      BY <2>2, <3>1, <3>2
  <2> QED
    BY <2>1, <2>2
<1>10. streams' \subseteq Subjects /\ woken' \in [Consumers -> BOOLEAN]
  BY DEF AppendTo, NotifyWaiters, TypeOK
<1> QED
  BY <1>4, <1>5, <1>6, <1>9, <1>10






-----------------------------------------------------------------------------
(* Type correctness. *)

\* The ids of a prefix of a stream are ids.
LEMMA PrefixIds ==
  ASSUME TypeOK, NEW s \in Subjects, NEW n \in 0..Len(messages[s])
  PROVE  IdsOf(SubSeq(messages[s], 1, n)) \subseteq Ids
<1>1. \A i \in 1..n : messages[s][i] \in Envelopes
  BY ElementOfSeq DEF TypeOK
<1>2. SubSeq(messages[s], 1, n) \in Seq(Envelopes)
  BY <1>1, SubSeqProperties
<1>3. Range(SubSeq(messages[s], 1, n)) \subseteq Envelopes
  BY <1>2, RangeOfSeq
<1> QED
  BY <1>3 DEF IdsOf, Envelopes

\* What a consumer answers for are ids.
LEMMA HeldType ==
  ASSUME TypeOK, Equipped, NEW c \in Consumers
  PROVE  InHand(c) \subseteq Ids /\ IdsOf(batch[c]) \subseteq Ids /\ Held(c) \subseteq Ids
<1>1. InHand(c) \subseteq Ids
  BY DEF InHand, Equipped, Envelopes
<1>2. Range(batch[c]) \subseteq Envelopes
  BY RangeOfSeq DEF TypeOK
<1>3. IdsOf(batch[c]) \subseteq Ids
  BY <1>2 DEF IdsOf, Envelopes
<1> QED
  BY <1>1, <1>3 DEF Held

\* Every step keeps every variable in its type.
LEMMA TypeOKStep ==
  ASSUME Inv, [Next]_vars
  PROVE  TypeOK'
<1> USE DEF Inv
<1>1. ASSUME NEW k \in Callers, NEW s \in Subjects, PublishBegin(k, s)
      PROVE  TypeOK'
  <2>1. Envelope(<<>>) \in Envelopes
    BY <1>1, EnvelopeType DEF PublishBegin, Origins
  <2>2. call'[k] \in Calls /\ call' \in [Callers -> Calls]
    BY <1>1, <2>1 DEF PublishBegin, TypeOK, Calls
  <2>3. nextId' \in 1..MaxMsgs+1
    BY <1>1, BoundsAssumption DEF PublishBegin, TypeOK
  <2> QED
    BY <1>1, <2>2, <2>3 DEF PublishBegin, TypeOK, clockVars, storeVars, collectVars,
      loopVars, historyVars
<1>2. ASSUME NEW k \in Callers, PublishCommit(k)
      PROVE  TypeOK'
  <2>1. call[k].subject \in Subjects /\ call[k].envelope \in Envelopes
        /\ Unpublished(call[k].envelope.id)
    BY <1>2 DEF PublishCommit, TypeOK, Calls, Idle, Freshness, Publishing
  <2>2. /\ streams' \subseteq Subjects
        /\ messages' \in [Subjects -> Seq(Envelopes)]
        /\ idIndex' \in [Subjects -> [Ids -> Nat]]
        /\ woken' \in [Consumers -> BOOLEAN]
    BY <1>2, <2>1, AppendToStep DEF PublishCommit
  <2>3. call' \in [Callers -> Calls]
    BY <1>2 DEF PublishCommit, TypeOK, Calls
  <2> QED
    BY <1>2, <2>2, <2>3
    DEF PublishCommit, TypeOK, clockVars, collectVars, historyVars
<1>3. ASSUME NEW k \in Callers, NEW s \in Subjects, EnsureStreamBegin(k, s)
      PROVE  TypeOK'
  BY <1>3 DEF EnsureStreamBegin, TypeOK, Calls, clockVars, storeVars, collectVars,
    loopVars, historyVars
<1>4. ASSUME NEW k \in Callers, EnsureStreamCommit(k)
      PROVE  TypeOK'
  BY <1>4 DEF EnsureStreamCommit, TypeOK, Calls, Idle, clockVars, storeVars, collectVars,
    loopVars, historyVars
<1>5. ASSUME NEW k \in Callers, NEW s \in Subjects, NEW maxAge \in 0..MaxTime,
             TrimStreamBegin(k, s, maxAge)
      PROVE  TypeOK'
  BY <1>5, BoundsAssumption DEF TrimStreamBegin, TypeOK, Calls, clockVars, storeVars,
    collectVars, loopVars, historyVars
<1>6. ASSUME NEW k \in Callers, TrimStreamCommit(k)
      PROVE  TypeOK'
  <2> DEFINE s == call[k].subject
             n == ExpiredCount(s, call[k].cutoff)
  <2>1. s \in Subjects /\ call[k].cutoff \in Nat
    <3>1. call[k].op = "trim_stream" /\ call[k] \in Calls
      BY <1>6 DEF TrimStreamCommit, TypeOK
    <3> QED
      BY <3>1 DEF Calls, Idle
  <2>2. n \in 0..Len(messages[s]) /\ Len(messages[s]) \in Nat
    <3>1. n \in 0..Len(messages[s])
      BY <2>1, ExpiredCountType
    <3>2. messages[s] \in Seq(Envelopes)
      BY <2>1 DEF TypeOK
    <3> QED
      BY <3>1, <3>2, LenProperties
  <2> HIDE DEF s, n
  <2>3. call' \in [Callers -> Calls]
    BY <1>6 DEF TrimStreamCommit, TypeOK, Calls
  <2>4. CASE n = 0
    BY <1>6, <2>3, <2>4 DEF TrimStreamCommit, TypeOK, s, n,
      clockVars, storeVars, collectVars, loopVars, historyVars
  <2>5. CASE n # 0
    <3>1. /\ messages' = [messages EXCEPT ![s] = SubSeq(@, n + 1, Len(@))]
          /\ idIndex' = [idIndex EXCEPT ![s] = RebuiltIndex(s, n)]
          /\ pending' = [g \in Groups |->
               IF SubjectOf[g] = s
               THEN PendingAfterTrim(g, IdsOf(SubSeq(messages[s], 1, n)))
               ELSE pending[g]]
          /\ cursor' = [g \in Groups |->
               IF SubjectOf[g] = s THEN TrimmedCursor(cursor[g], n) ELSE cursor[g]]
          /\ UNCHANGED <<streams, groups, redeliver>>
      BY <1>6, <2>5 DEF TrimStreamCommit, s, n
    <3>2. SubSeq(messages[s], n + 1, Len(messages[s])) \in Seq(Envelopes)
      <4>1. \A i \in n + 1 .. Len(messages[s]) : messages[s][i] \in Envelopes
        BY <2>1, <2>2, ElementOfSeq DEF TypeOK
      <4> QED
        BY <2>1, <2>2, <4>1, SubSeqProperties
    <3>3. messages' \in [Subjects -> Seq(Envelopes)]
      BY <3>1, <3>2 DEF TypeOK
    <3>4. idIndex' \in [Subjects -> [Ids -> Nat]]
      BY <2>1, <2>2, <3>1, RebuiltIndexType DEF TypeOK
    <3>5. cursor' \in [Groups -> Nat]
      BY <2>2, <3>1 DEF TypeOK, TrimmedCursor
    <3>6. pending' \in [Groups -> SUBSET Ids]
      BY <3>1 DEF TypeOK, PendingAfterTrim
    <3> QED
      BY <1>6, <2>3, <3>1, <3>3, <3>4, <3>5, <3>6 DEF TrimStreamCommit, TypeOK,
        clockVars, collectVars, loopVars, historyVars
  <2> QED
    BY <2>4, <2>5
<1>7. ASSUME NEW k \in Callers, DropCall(k)
      PROVE  TypeOK'
  BY <1>7 DEF DropCall, TypeOK, Calls, clockVars, storeVars, collectVars, loopVars,
    historyVars
<1>8. ASSUME NEW c \in Consumers, SubscribeBegin(c)
      PROVE  TypeOK'
  BY <1>8 DEF SubscribeBegin, TypeOK, Goto, PCs, clockVars, storeVars, collectVars,
    loopVars, historyVars
<1>9. ASSUME NEW c \in Consumers, NEW start \in Starts, SubscribeCommit(c, start)
      PROVE  TypeOK'
  <2>1. GroupOf[c] \in Groups /\ SubjectFor(c) \in Subjects
    BY TopologyAssumption DEF SubjectFor
  <2>2. streams' \subseteq Subjects
    BY <1>9, <2>1 DEF SubscribeCommit, TypeOK
  <2>3. groups' \subseteq Groups /\ cursor' \in [Groups -> Nat]
        /\ skipped' \in [Groups -> SUBSET Ids]
    <3> DEFINE n == StartCursor(SubjectFor(c), start)
    <3>1. n \in 0..Len(messages[SubjectFor(c)])
      BY <2>1, StartCursorType
    <3>2. IdsOf(SubSeq(messages[SubjectFor(c)], 1, n)) \subseteq Ids
      BY <2>1, <3>1, PrefixIds
    <3> HIDE DEF n
    <3>3. CASE GroupOf[c] \in groups
      BY <1>9, <3>3 DEF SubscribeCommit, CreateGroup, TypeOK
    <3>4. CASE GroupOf[c] \notin groups
      <4>1. /\ groups' = groups \cup {GroupOf[c]}
            /\ cursor' = [cursor EXCEPT ![GroupOf[c]] = n]
            /\ skipped' = [skipped EXCEPT ![GroupOf[c]] =
                 IdsOf(SubSeq(messages[SubjectFor(c)], 1, n))]
        BY <1>9, <3>4 DEF SubscribeCommit, CreateGroup, n, SubjectFor
      <4> QED
        BY <2>1, <3>1, <3>2, <4>1 DEF TypeOK
    <3> QED
      BY <3>3, <3>4
  <2>4. pc' \in [Consumers -> PCs] /\ active' \in [Consumers -> BOOLEAN]
    BY <1>9 DEF SubscribeCommit, TypeOK, Goto, PCs
  <2> QED
    BY <1>9, <2>2, <2>3, <2>4 DEF SubscribeCommit, TypeOK, clockVars, collectVars
<1>10. ASSUME NEW c \in Consumers, Unsubscribe(c)
      PROVE  TypeOK'
  BY <1>10 DEF Unsubscribe, TypeOK, clockVars, storeVars, collectVars, loopVars, historyVars
<1>11. ASSUME NEW c \in Consumers, Stop(c)
      PROVE  TypeOK'
  BY <1>11 DEF Stop, TypeOK, Goto, PCs, clockVars, storeVars, collectVars, loopVars,
    historyVars
<1>12. ASSUME NEW c \in Consumers, Register(c)
      PROVE  TypeOK'
  BY <1>12 DEF Register, TypeOK, Goto, PCs, clockVars, storeVars, collectVars, loopVars,
    historyVars
<1>13. ASSUME NEW c \in Consumers, Notified(c)
      PROVE  TypeOK'
  BY <1>13 DEF Notified, TypeOK, Goto, PCs, clockVars, storeVars, collectVars, loopVars,
    historyVars
<1>14. ASSUME NEW c \in Consumers, Timeout(c)
      PROVE  TypeOK'
  BY <1>14 DEF Timeout, TypeOK, Goto, PCs, clockVars, storeVars, collectVars, loopVars,
    historyVars
<1>15. ASSUME NEW c \in Consumers, NextMessage(c)
      PROVE  TypeOK'
  BY <1>15, HeadTailProperties DEF NextMessage, TypeOK, Goto, PCs, clockVars, storeVars,
    collectVars, loopVars, historyVars
<1>16. ASSUME NEW c \in Consumers, EndBatch(c)
      PROVE  TypeOK'
  <2>1. IdsOf(batch[c]) \subseteq Ids
    BY HeldType
  <2>2. stranded' \in [Groups -> SUBSET Ids]
    BY <1>16, <2>1, TopologyAssumption DEF EndBatch, TypeOK
  <2>3. /\ batch' \in [Consumers -> Seq(Envelopes)]
        /\ msg' \in [Consumers -> Envelopes \cup {Blank}]
        /\ pc' \in [Consumers -> PCs]
        /\ acked' \in [Consumers -> BOOLEAN]
    BY <1>16, EmptySeq DEF EndBatch, TypeOK, Goto, PCs
  <2> QED
    BY <1>16, <2>2, <2>3 DEF EndBatch, TypeOK, clockVars, storeVars, collectVars
<1>17. ASSUME NEW c \in Consumers, CollectBegin(c)
      PROVE  TypeOK'
  <2>1. pending[GroupOf[c]] \in SUBSET Ids /\ IsFiniteSet(Ids)
    BY TopologyAssumption, BoundsAssumption, FS_Interval DEF TypeOK, Ids
  <2>2. Cardinality(pending[GroupOf[c]]) \in Nat
    BY <2>1, FS_Subset, FS_CardinalityType
  <2>3. Capacity(c) \in Nat
    BY <2>2, OptionsAssumption DEF Capacity
  <2>4. take' \in [Consumers -> Nat]
    BY <1>17, <2>3, OptionsAssumption DEF CollectBegin, TypeOK, Minimum
  <2>5. pc' \in [Consumers -> PCs] /\ lock' \in Consumers \cup {NoConsumer}
    BY <1>17 DEF CollectBegin, TypeOK, Goto, PCs, Locked
  <2> QED
    BY <1>17, <2>4, <2>5 DEF CollectBegin, TypeOK, clockVars, storeVars, historyVars
<1>18. ASSUME NEW c \in Consumers, CollectRedelivery(c)
      PROVE  TypeOK'
  <2> DEFINE g == GroupOf[c]
             s == SubjectFor(c)
             i == idIndex[s][Head(redeliver[g])]
  <2>1. g \in Groups /\ s \in Subjects
    BY TopologyAssumption DEF SubjectFor
  <2>2. redeliver[g] \in Seq(Ids) /\ redeliver[g] # <<>>
    BY <1>18, <2>1 DEF CollectRedelivery, TypeOK
  <2>3. Head(redeliver[g]) \in Ids /\ Tail(redeliver[g]) \in Seq(Ids)
    BY <2>2, HeadTailProperties
  <2>4. ASSUME i # 0
        PROVE  messages[s][i] \in Envelopes
    <3>1. i \in 1..Len(messages[s])
      BY <2>1, <2>3, <2>4 DEF TypeOK, IndexAgrees
    <3> QED
      BY <2>1, <3>1, ElementOfSeq DEF TypeOK
  <2>5. /\ redeliver' = [redeliver EXCEPT ![g] = Tail(@)]
        /\ batch' = [batch EXCEPT ![c] = IF i = 0 THEN @ ELSE Append(@, messages[s][i])]
    BY <1>18 DEF CollectRedelivery
  <2> HIDE DEF g, s, i
  <2>6. redeliver' \in [Groups -> Seq(Ids)]
    BY <2>1, <2>3, <2>5 DEF TypeOK
  <2>7. batch' \in [Consumers -> Seq(Envelopes)]
    <3>1. batch[c] \in Seq(Envelopes)
      BY DEF TypeOK
    <3>2. i # 0 => Append(batch[c], messages[s][i]) \in Seq(Envelopes)
      BY <2>4, <3>1, AppendProperties
    <3> QED
      BY <2>5, <3>1, <3>2 DEF TypeOK
  <2> QED
    BY <1>18, <2>6, <2>7 DEF CollectRedelivery, TypeOK, clockVars, collectVars, historyVars
<1>19. ASSUME NEW c \in Consumers, CollectFresh(c)
      PROVE  TypeOK'
  <2>1. cursor[GroupOf[c]] \in Nat /\ take[c] \in Nat /\ Len(batch[c]) \in Nat
        /\ Len(messages[SubjectFor(c)]) \in Nat
    BY TopologyAssumption DEF TypeOK, SubjectFor
  <2>2. Len(batch[c]) < take[c] => LastToScan(c) \in Nat
    BY <2>1 DEF LastToScan, Minimum
  <2>3. scan' \in [next : Nat, last : Nat]
    BY <1>19, <2>1, <2>2 DEF CollectFresh
  <2>4. pc' \in [Consumers -> PCs]
    BY <1>19 DEF CollectFresh, TypeOK, Goto, PCs, Locked
  <2> QED
    BY <1>19, <2>3, <2>4 DEF CollectFresh, TypeOK, clockVars, storeVars, historyVars
<1>20. ASSUME NEW c \in Consumers, CollectNext(c)
      PROVE  TypeOK'
  <2> DEFINE g == GroupOf[c]
             e == messages[SubjectFor(c)][scan.next]
  <2>1. g \in Groups /\ messages[SubjectFor(c)] \in Seq(Envelopes)
    BY TopologyAssumption DEF SubjectFor, TypeOK
  <2>2. scan \in [next : Nat, last : Nat] /\ scan.next \in 1..Len(messages[SubjectFor(c)])
    BY <1>20, <2>1 DEF CollectNext, ScanInRange, TypeOK
  <2>3. e \in Envelopes /\ e.id \in Ids
    <3>1. e \in Envelopes
      BY <2>1, <2>2, ElementOfSeq
    <3> QED
      BY <3>1 DEF Envelopes
  <2>4. Append(batch[c], e) \in Seq(Envelopes) /\ batch[c] \in Seq(Envelopes)
    BY <2>3, AppendProperties DEF TypeOK
  <2>5. scan' \in [next : Nat, last : Nat]
    BY <1>20, <2>2 DEF CollectNext
  <2>6. IF e.id \in pending[g]
        THEN UNCHANGED <<pending, cursor, batch>>
        ELSE /\ pending' = [pending EXCEPT ![g] = @ \cup {e.id}]
             /\ cursor' = [cursor EXCEPT ![g] = scan.next]
             /\ batch' = [batch EXCEPT ![c] = Append(@, e)]
    BY <1>20 DEF CollectNext
  <2> HIDE DEF g, e
  <2>7. pending' \in [Groups -> SUBSET Ids]
    <3>1. pending' = pending \/ pending' = [pending EXCEPT ![g] = @ \cup {e.id}]
      BY <2>6
    <3>2. pending[g] \cup {e.id} \in SUBSET Ids
      BY <2>1, <2>3 DEF TypeOK
    <3> QED
      BY <3>1, <3>2 DEF TypeOK
  <2>8. cursor' \in [Groups -> Nat]
    BY <2>1, <2>2, <2>6 DEF TypeOK
  <2>9. batch' \in [Consumers -> Seq(Envelopes)]
    BY <2>4, <2>6 DEF TypeOK
  <2> QED
    BY <1>20, <2>5, <2>7, <2>8, <2>9 DEF CollectNext, TypeOK, clockVars, historyVars
<1>21. ASSUME NEW c \in Consumers, CollectEnd(c)
      PROVE  TypeOK'
  BY <1>21 DEF CollectEnd, TypeOK, Goto, PCs, clockVars, storeVars, collectVars, loopVars,
    historyVars
<1>22. ASSUME NEW c \in Consumers, Collected(c)
      PROVE  TypeOK'
  BY <1>22 DEF Collected, TypeOK, Goto, PCs, clockVars, storeVars, collectVars, loopVars,
    historyVars
<1>23. ASSUME NEW c \in Consumers, NEW verdict \in {"ack", "nak", "dead_letter"},
             SettleBegin(c, verdict)
      PROVE  TypeOK'
  <2>1. msg[c] \in Envelopes
    BY <1>23 DEF SettleBegin, Equipped
  <2>2. <<GroupOf[c], msg[c].id>> \in Origins
    BY <2>1, TopologyAssumption DEF Origins, Envelopes
  <2>3. nextId' \in 1..MaxMsgs+1 /\ draft' \in [Consumers -> Envelopes \cup {Blank}]
    <3>1. CASE verdict = "dead_letter"
      <4>1. nextId <= MaxMsgs /\ nextId' = nextId + 1
            /\ draft' = [draft EXCEPT ![c] = Envelope(<<GroupOf[c], msg[c].id>>)]
        BY <1>23, <3>1 DEF SettleBegin
      <4>2. Envelope(<<GroupOf[c], msg[c].id>>) \in Envelopes
        BY <2>2, <4>1, EnvelopeType
      <4> QED
        BY <4>1, <4>2, BoundsAssumption DEF TypeOK
    <3>2. CASE verdict # "dead_letter"
      BY <1>23, <3>2 DEF SettleBegin, TypeOK
    <3> QED
      BY <3>1, <3>2
  <2>4. pc' \in [Consumers -> PCs] /\ acked' \in [Consumers -> BOOLEAN]
    BY <1>23 DEF SettleBegin, TypeOK, Goto, PCs, Settling
  <2> QED
    BY <1>23, <2>3, <2>4 DEF SettleBegin, TypeOK, clockVars, storeVars, collectVars,
      historyVars
<1>24. ASSUME NEW c \in Consumers, AckCommit(c)
      PROVE  TypeOK'
  <2>1. msg[c] \in Envelopes
    BY <1>24 DEF AckCommit, Equipped, Settling
  <2>2. pending' \in [Groups -> SUBSET Ids] /\ settled' \in [Groups -> SUBSET Ids]
    BY <1>24, <2>1, TopologyAssumption DEF AckCommit, Release, TypeOK, Envelopes
  <2>3. pc' \in [Consumers -> PCs]
    BY <1>24 DEF AckCommit, TypeOK, Goto, PCs
  <2> QED
    BY <1>24, <2>2, <2>3 DEF AckCommit, TypeOK, clockVars, collectVars
<1>25. ASSUME NEW c \in Consumers, NakCommit(c)
      PROVE  TypeOK'
  <2>1. msg[c].id \in Ids
    BY <1>25 DEF NakCommit, Equipped, Settling, Envelopes
  <2>2. GroupOf[c] \in Groups /\ redeliver[GroupOf[c]] \in Seq(Ids)
    BY TopologyAssumption DEF TypeOK
  <2>3. Append(redeliver[GroupOf[c]], msg[c].id) \in Seq(Ids)
    BY <2>1, <2>2, AppendProperties
  <2>4. redeliver' \in [Groups -> Seq(Ids)]
    BY <1>25, <2>2, <2>3 DEF NakCommit, Requeue, TypeOK
  <2>5. pc' \in [Consumers -> PCs]
    BY <1>25 DEF NakCommit, TypeOK, Goto, PCs
  <2> QED
    BY <1>25, <2>4, <2>5 DEF NakCommit, TypeOK, clockVars, collectVars, historyVars
<1>26. ASSUME NEW c \in Consumers, DeadLetterCommit(c)
      PROVE  TypeOK'
  <2>1. msg[c] \in Envelopes /\ draft[c] \in Envelopes
    BY <1>26 DEF DeadLetterCommit, Equipped, Settling
  <2>2. DeadLetterOf[SubjectFor(c)] \in Subjects /\ Unpublished(draft[c].id)
    BY <2>1, TopologyAssumption DEF SubjectFor, Freshness, Drafting
  <2>3. /\ streams' \subseteq Subjects
        /\ messages' \in [Subjects -> Seq(Envelopes)]
        /\ idIndex' \in [Subjects -> [Ids -> Nat]]
        /\ woken' \in [Consumers -> BOOLEAN]
    BY <1>26, <2>1, <2>2, AppendToStep DEF DeadLetterCommit
  <2>4. pending' \in [Groups -> SUBSET Ids] /\ settled' \in [Groups -> SUBSET Ids]
    BY <1>26, <2>1, TopologyAssumption DEF DeadLetterCommit, Release, TypeOK, Envelopes
  <2>5. pc' \in [Consumers -> PCs] /\ draft' \in [Consumers -> Envelopes \cup {Blank}]
    BY <1>26 DEF DeadLetterCommit, TypeOK, Goto, PCs
  <2> QED
    BY <1>26, <2>3, <2>4, <2>5 DEF DeadLetterCommit, TypeOK, clockVars, collectVars
<1>27. ASSUME NEW c \in Consumers, ReturnOk(c)
      PROVE  TypeOK'
  <2>1. InHand(c) \subseteq Ids
    BY HeldType
  <2>2. stranded' \in [Groups -> SUBSET Ids]
    BY <1>27, <2>1, TopologyAssumption DEF ReturnOk, TypeOK
  <2>3. pc' \in [Consumers -> PCs]
    BY <1>27 DEF ReturnOk, TypeOK, Goto, PCs
  <2> QED
    BY <1>27, <2>2, <2>3 DEF ReturnOk, TypeOK, clockVars, storeVars, collectVars
<1>28. ASSUME NEW c \in Consumers, ReturnErr(c)
      PROVE  TypeOK'
  <2>1. pc' \in [Consumers -> PCs] /\ acked' \in [Consumers -> BOOLEAN]
    BY <1>28 DEF ReturnErr, AfterErr, TypeOK, Goto, PCs, Settling
  <2> QED
    BY <1>28, <2>1 DEF ReturnErr, TypeOK, clockVars, storeVars, collectVars, historyVars
<1>29. ASSUME NEW c \in Consumers, DropSettle(c)
      PROVE  TypeOK'
  <2>1. InHand(c) \subseteq Ids
    BY HeldType
  <2>2. stranded' \in [Groups -> SUBSET Ids]
    BY <1>29, <2>1, TopologyAssumption DEF DropSettle, TypeOK
  <2>3. pc' \in [Consumers -> PCs] /\ draft' \in [Consumers -> Envelopes \cup {Blank}]
    BY <1>29 DEF DropSettle, TypeOK, Goto, PCs
  <2> QED
    BY <1>29, <2>2, <2>3 DEF DropSettle, TypeOK, clockVars, storeVars, collectVars
<1>30. ASSUME NEW c \in Consumers, Panic(c)
      PROVE  TypeOK'
  <2>1. Held(c) \subseteq Ids
    BY HeldType
  <2>2. stranded' \in [Groups -> SUBSET Ids]
    BY <1>30, <2>1, TopologyAssumption DEF Panic, TypeOK
  <2>3. pc' \in [Consumers -> PCs] /\ batch' \in [Consumers -> Seq(Envelopes)]
    BY <1>30, EmptySeq DEF Panic, TypeOK, Goto, PCs
  <2> QED
    BY <1>30, <2>2, <2>3 DEF Panic, TypeOK, clockVars, storeVars, collectVars
<1>31. ASSUME Close
      PROVE  TypeOK'
  BY <1>31 DEF Close, TypeOK, clockVars, storeVars, collectVars, loopVars, historyVars
<1>32. ASSUME Tick
      PROVE  TypeOK'
  BY <1>32 DEF Tick, TypeOK, clockVars, storeVars, collectVars, loopVars, historyVars
<1>33. ASSUME UNCHANGED vars
      PROVE  TypeOK'
  BY <1>33 DEF vars, TypeOK, clockVars, storeVars, collectVars, loopVars, historyVars
<1> QED
  BY <1>1, <1>2, <1>3, <1>4, <1>5, <1>6, <1>7, <1>8, <1>9, <1>10, <1>11, <1>12, <1>13,
    <1>14, <1>15, <1>16, <1>17, <1>18, <1>19, <1>20, <1>21, <1>22, <1>23, <1>24, <1>25,
    <1>26, <1>27, <1>28, <1>29, <1>30, <1>31, <1>32, <1>33
  DEF Next, ClientStep, CallStep, ConsumerStep, SubscriptionStep, LoopStep, LockStep,
      HandlerStep, FaultStep

-----------------------------------------------------------------------------
(* The index, the lock and the ids. *)

\* The index a trim rebuilds agrees with what the trim keeps.
LEMMA TrimKeepsIndex ==
  ASSUME TypeOK, IndexAgrees, NEW s \in Subjects, NEW n \in 0..Len(messages[s]),
         messages' = [messages EXCEPT ![s] = SubSeq(@, n + 1, Len(@))],
         idIndex' = [idIndex EXCEPT ![s] = RebuiltIndex(s, n)]
  PROVE  /\ IndexAgrees'
         /\ Len(messages'[s]) = Len(messages[s]) - n
         /\ \A i \in 1..Len(messages[s]) - n : messages'[s][i] = messages[s][i + n]
         /\ \A t \in Subjects \ {s} : messages'[t] = messages[t] /\ idIndex'[t] = idIndex[t]
         /\ \A id \in Ids : idIndex[s][id] = 0 => idIndex'[s][id] = 0
<1> DEFINE L == Len(messages[s])
<1>1. messages[s] \in Seq(Envelopes) /\ L \in Nat /\ n \in Nat /\ n <= L
  BY DEF TypeOK
<1>2. \A i \in 1..L : messages[s][i] \in Envelopes
  BY <1>1, ElementOfSeq
<1>3. /\ messages'[s] = SubSeq(messages[s], n + 1, L)
      /\ \A id \in Ids : idIndex'[s][id] = RebuiltIndex(s, n)[id]
      /\ \A t \in Subjects \ {s} : messages'[t] = messages[t] /\ idIndex'[t] = idIndex[t]
  BY DEF TypeOK
<1>4. /\ Len(messages'[s]) = L - n
      /\ \A i \in 1..L - n : messages'[s][i] = messages[s][i + n]
  <2>1. \A i \in n + 1 .. L : messages[s][i] \in Envelopes
    BY <1>1, <1>2
  <2>2. /\ Len(SubSeq(messages[s], n + 1, L)) = IF n + 1 <= L THEN L - (n + 1) + 1 ELSE 0
        /\ \A i \in 1..L - (n + 1) + 1 :
             SubSeq(messages[s], n + 1, L)[i] = messages[s][n + 1 + i - 1]
    BY <1>1, <2>1, SubSeqProperties
  <2> QED
    BY <1>1, <1>3, <2>2
<1>5. ASSUME NEW i \in 1..L, NEW j \in 1..L, messages[s][i].id = messages[s][j].id
      PROVE  i = j
  BY <1>5 DEF IndexAgrees
<1>6. ASSUME NEW i \in n + 1 .. L
      PROVE  idIndex'[s][messages[s][i].id] = i - n
  <2>1. i \in 1..L /\ messages[s][i].id \in Ids
    <3>1. i \in 1..L
      BY <1>1
    <3>2. messages[s][i] \in Envelopes
      BY <1>2, <3>1
    <3> QED
      BY <3>1, <3>2 DEF Envelopes
  <2> DEFINE m == CHOOSE k \in n + 1 .. L : messages[s][k].id = messages[s][i].id
  <2>2. m \in n + 1 .. L /\ messages[s][m].id = messages[s][i].id
    OBVIOUS
  <2>3. m = i
    <3>1. m \in 1..L
      BY <1>1, <2>2
    <3> HIDE DEF m
    <3> QED
      BY <1>5, <2>1, <2>2, <3>1
  <2>4. RebuiltIndex(s, n)[messages[s][i].id] = m - n
    BY <2>1 DEF RebuiltIndex
  <2> QED
    BY <1>3, <2>1, <2>3, <2>4
<1>7. ASSUME NEW id \in Ids, idIndex'[s][id] # 0
      PROVE  \E i \in n + 1 .. L : messages[s][i].id = id
  BY <1>3, <1>7 DEF RebuiltIndex
<1>8. \A i \in 1..L - n : idIndex'[s][messages'[s][i].id] = i
  <2> SUFFICES ASSUME NEW i \in 1..L - n
               PROVE  idIndex'[s][messages'[s][i].id] = i
    OBVIOUS
  <2>1. i + n \in n + 1 .. L /\ (i + n) - n = i
    BY <1>1
  <2> QED
    BY <1>4, <1>6, <2>1
<1>9. ASSUME NEW id \in Ids, idIndex'[s][id] # 0
      PROVE  idIndex'[s][id] \in 1..L - n /\ messages'[s][idIndex'[s][id]].id = id
  <2>1. PICK i \in n + 1 .. L : messages[s][i].id = id
    BY <1>7, <1>9
  <2>2. idIndex'[s][id] = i - n /\ i - n \in 1..L - n /\ (i - n) + n = i
    BY <1>1, <1>6, <2>1
  <2> QED
    BY <1>4, <2>1, <2>2
<1>10. IndexAgrees'
  <2> SUFFICES ASSUME NEW t \in Subjects
               PROVE  /\ \A i \in 1..Len(messages'[t]) : idIndex'[t][messages'[t][i].id] = i
                      /\ \A id \in Ids : idIndex'[t][id] # 0 =>
                           /\ idIndex'[t][id] <= Len(messages'[t])
                           /\ messages'[t][idIndex'[t][id]].id = id
    BY DEF IndexAgrees
  <2>1. CASE t = s
    BY <1>1, <1>4, <1>8, <1>9, <2>1
  <2>2. CASE t # s
    BY <1>3, <2>2 DEF IndexAgrees
  <2> QED
    BY <2>1, <2>2
<1>11. ASSUME NEW id \in Ids, idIndex[s][id] = 0
       PROVE  idIndex'[s][id] = 0
  <2> SUFFICES ASSUME idIndex'[s][id] # 0 PROVE FALSE
    OBVIOUS
  <2>1. PICK i \in n + 1 .. L : messages[s][i].id = id
    BY <1>7
  <2>2. i \in 1..L
    BY <1>1
  <2> QED
    BY <1>1, <1>11, <2>1, <2>2 DEF IndexAgrees
<1> QED
  BY <1>3, <1>4, <1>10, <1>11

\* What a trim that removes something does to the store.
LEMMA TrimEffect ==
  ASSUME TypeOK, IndexAgrees, NEW k \in Callers, TrimStreamCommit(k),
         ExpiredCount(call[k].subject, call[k].cutoff) # 0
  PROVE  LET s == call[k].subject
             n == ExpiredCount(s, call[k].cutoff)
         IN /\ s \in Subjects /\ n \in 1..Len(messages[s])
            /\ messages' = [messages EXCEPT ![s] = SubSeq(@, n + 1, Len(@))]
            /\ idIndex' = [idIndex EXCEPT ![s] = RebuiltIndex(s, n)]
            /\ pending' = [g \in Groups |->
                 IF SubjectOf[g] = s THEN pending[g] \ IdsOf(SubSeq(messages[s], 1, n))
                                     ELSE pending[g]]
            /\ cursor' = [g \in Groups |->
                 IF SubjectOf[g] = s THEN TrimmedCursor(cursor[g], n) ELSE cursor[g]]
            /\ UNCHANGED <<streams, groups, redeliver>>
<1> DEFINE s == call[k].subject
           n == ExpiredCount(s, call[k].cutoff)
<1>1. call[k].op = "trim_stream" /\ call[k] \in Calls
  BY DEF TrimStreamCommit, TypeOK
<1>2. s \in Subjects /\ call[k].cutoff \in Nat
  BY <1>1 DEF Calls, Idle
<1>3. n \in 0..Len(messages[s])
  BY <1>2, ExpiredCountType
<1>4. n \in 1..Len(messages[s])
  BY <1>3
<1> QED
  BY <1>2, <1>4 DEF TrimStreamCommit, PendingAfterTrim

\* A trim that removes nothing leaves the store alone.
LEMMA TrimNoEffect ==
  ASSUME NEW k \in Callers, TrimStreamCommit(k),
         ExpiredCount(call[k].subject, call[k].cutoff) = 0
  PROVE  UNCHANGED storeVars
  BY DEF TrimStreamCommit

\* A publication appends an envelope with an id no stream has.
LEMMA PublishEffect ==
  ASSUME TypeOK, Freshness, NEW k \in Callers, PublishCommit(k)
  PROVE  /\ Publishing(k)
         /\ call[k].subject \in Subjects /\ call[k].envelope \in Envelopes
         /\ Unpublished(call[k].envelope.id)
         /\ AppendTo(call[k].subject, call[k].envelope)
<1>1. call[k].op = "publish" /\ call[k] \in Calls
  BY DEF PublishCommit, TypeOK
<1>2. call[k].subject \in Subjects /\ call[k].envelope \in Envelopes
  BY <1>1 DEF Calls, Idle
<1>3. Unpublished(call[k].envelope.id)
  BY <1>1 DEF Freshness, Publishing
<1> QED
  BY <1>1, <1>2, <1>3 DEF PublishCommit, Publishing

\* So does a dead letter.
LEMMA DeadLetterEffect ==
  ASSUME TypeOK, Freshness, Equipped, NEW c \in Consumers, DeadLetterCommit(c)
  PROVE  /\ Drafting(c)
         /\ DeadLetterOf[SubjectFor(c)] \in Subjects
         /\ msg[c] \in Envelopes /\ draft[c] \in Envelopes
         /\ Unpublished(draft[c].id)
         /\ AppendTo(DeadLetterOf[SubjectFor(c)], draft[c])
<1>1. msg[c] \in Envelopes /\ draft[c] \in Envelopes
  BY DEF DeadLetterCommit, Equipped, Settling
<1>2. DeadLetterOf[SubjectFor(c)] \in Subjects
  BY TopologyAssumption DEF SubjectFor
<1>3. Unpublished(draft[c].id)
  BY <1>1 DEF Freshness, Drafting
<1> QED
  BY <1>1, <1>2, <1>3 DEF DeadLetterCommit, Drafting

\* Every step keeps the index in agreement with its stream.
LEMMA IndexStep ==
  ASSUME Inv, [Next]_vars
  PROVE  IndexAgrees'
<1> USE DEF Inv
<1>1. ASSUME NEW k \in Callers, NEW s \in Subjects, PublishBegin(k, s)
      PROVE  IndexAgrees'
  BY <1>1 DEF PublishBegin, IndexAgrees, storeVars
<1>2. ASSUME NEW k \in Callers, PublishCommit(k)
      PROVE  IndexAgrees'
  BY <1>2, PublishEffect, AppendToStep
<1>3. ASSUME NEW k \in Callers, NEW s \in Subjects, EnsureStreamBegin(k, s)
      PROVE  IndexAgrees'
  BY <1>3 DEF EnsureStreamBegin, IndexAgrees, storeVars
<1>4. ASSUME NEW k \in Callers, EnsureStreamCommit(k)
      PROVE  IndexAgrees'
  BY <1>4 DEF EnsureStreamCommit, IndexAgrees, storeVars
<1>5. ASSUME NEW k \in Callers, NEW s \in Subjects, NEW maxAge \in 0..MaxTime,
             TrimStreamBegin(k, s, maxAge)
      PROVE  IndexAgrees'
  BY <1>5 DEF TrimStreamBegin, IndexAgrees, storeVars
<1>6. ASSUME NEW k \in Callers, TrimStreamCommit(k)
      PROVE  IndexAgrees'
  <2>1. CASE ExpiredCount(call[k].subject, call[k].cutoff) = 0
    BY <1>6, <2>1, TrimNoEffect DEF storeVars, IndexAgrees
  <2>2. CASE ExpiredCount(call[k].subject, call[k].cutoff) # 0
    <3> DEFINE s == call[k].subject
               n == ExpiredCount(s, call[k].cutoff)
    <3>1. /\ s \in Subjects /\ n \in 1..Len(messages[s])
          /\ messages' = [messages EXCEPT ![s] = SubSeq(@, n + 1, Len(@))]
          /\ idIndex' = [idIndex EXCEPT ![s] = RebuiltIndex(s, n)]
      BY <1>6, <2>2, TrimEffect
    <3>2. n \in 0..Len(messages[s])
      BY <3>1
    <3> HIDE DEF s, n
    <3> QED
      BY <3>1, <3>2, TrimKeepsIndex
  <2> QED
    BY <2>1, <2>2
<1>7. ASSUME NEW k \in Callers, DropCall(k)
      PROVE  IndexAgrees'
  BY <1>7 DEF DropCall, IndexAgrees, storeVars
<1>8. ASSUME NEW c \in Consumers, SubscribeBegin(c)
      PROVE  IndexAgrees'
  BY <1>8 DEF SubscribeBegin, IndexAgrees, storeVars
<1>9. ASSUME NEW c \in Consumers, NEW start \in Starts, SubscribeCommit(c, start)
      PROVE  IndexAgrees'
  BY <1>9 DEF SubscribeCommit, IndexAgrees, storeVars
<1>10. ASSUME NEW c \in Consumers, Unsubscribe(c)
      PROVE  IndexAgrees'
  BY <1>10 DEF Unsubscribe, IndexAgrees, storeVars
<1>11. ASSUME NEW c \in Consumers, Stop(c)
      PROVE  IndexAgrees'
  BY <1>11 DEF Stop, IndexAgrees, storeVars
<1>12. ASSUME NEW c \in Consumers, Register(c)
      PROVE  IndexAgrees'
  BY <1>12 DEF Register, IndexAgrees, storeVars
<1>13. ASSUME NEW c \in Consumers, Notified(c)
      PROVE  IndexAgrees'
  BY <1>13 DEF Notified, IndexAgrees, storeVars
<1>14. ASSUME NEW c \in Consumers, Timeout(c)
      PROVE  IndexAgrees'
  BY <1>14 DEF Timeout, IndexAgrees, storeVars
<1>15. ASSUME NEW c \in Consumers, NextMessage(c)
      PROVE  IndexAgrees'
  BY <1>15 DEF NextMessage, IndexAgrees, storeVars
<1>16. ASSUME NEW c \in Consumers, EndBatch(c)
      PROVE  IndexAgrees'
  BY <1>16 DEF EndBatch, IndexAgrees, storeVars
<1>17. ASSUME NEW c \in Consumers, CollectBegin(c)
      PROVE  IndexAgrees'
  BY <1>17 DEF CollectBegin, IndexAgrees, storeVars
<1>18. ASSUME NEW c \in Consumers, CollectRedelivery(c)
      PROVE  IndexAgrees'
  BY <1>18 DEF CollectRedelivery, IndexAgrees, storeVars
<1>19. ASSUME NEW c \in Consumers, CollectFresh(c)
      PROVE  IndexAgrees'
  BY <1>19 DEF CollectFresh, IndexAgrees, storeVars
<1>20. ASSUME NEW c \in Consumers, CollectNext(c)
      PROVE  IndexAgrees'
  BY <1>20 DEF CollectNext, IndexAgrees, storeVars
<1>21. ASSUME NEW c \in Consumers, CollectEnd(c)
      PROVE  IndexAgrees'
  BY <1>21 DEF CollectEnd, IndexAgrees, storeVars
<1>22. ASSUME NEW c \in Consumers, Collected(c)
      PROVE  IndexAgrees'
  BY <1>22 DEF Collected, IndexAgrees, storeVars
<1>23. ASSUME NEW c \in Consumers, NEW verdict \in {"ack", "nak", "dead_letter"},
             SettleBegin(c, verdict)
      PROVE  IndexAgrees'
  BY <1>23 DEF SettleBegin, IndexAgrees, storeVars
<1>24. ASSUME NEW c \in Consumers, AckCommit(c)
      PROVE  IndexAgrees'
  BY <1>24 DEF AckCommit, IndexAgrees, storeVars
<1>25. ASSUME NEW c \in Consumers, NakCommit(c)
      PROVE  IndexAgrees'
  BY <1>25 DEF NakCommit, IndexAgrees, storeVars
<1>26. ASSUME NEW c \in Consumers, DeadLetterCommit(c)
      PROVE  IndexAgrees'
  BY <1>26, DeadLetterEffect, AppendToStep
<1>27. ASSUME NEW c \in Consumers, ReturnOk(c)
      PROVE  IndexAgrees'
  BY <1>27 DEF ReturnOk, IndexAgrees, storeVars
<1>28. ASSUME NEW c \in Consumers, ReturnErr(c)
      PROVE  IndexAgrees'
  BY <1>28 DEF ReturnErr, IndexAgrees, storeVars
<1>29. ASSUME NEW c \in Consumers, DropSettle(c)
      PROVE  IndexAgrees'
  BY <1>29 DEF DropSettle, IndexAgrees, storeVars
<1>30. ASSUME NEW c \in Consumers, Panic(c)
      PROVE  IndexAgrees'
  BY <1>30 DEF Panic, IndexAgrees, storeVars
<1>31. ASSUME Close
      PROVE  IndexAgrees'
  BY <1>31 DEF Close, IndexAgrees, storeVars
<1>32. ASSUME Tick
      PROVE  IndexAgrees'
  BY <1>32 DEF Tick, IndexAgrees, storeVars
<1>33. ASSUME UNCHANGED vars
      PROVE  IndexAgrees'
  BY <1>33 DEF vars, IndexAgrees, storeVars
<1> QED
  BY <1>1, <1>2, <1>3, <1>4, <1>5, <1>6, <1>7, <1>8, <1>9, <1>10, <1>11, <1>12, <1>13,
    <1>14, <1>15, <1>16, <1>17, <1>18, <1>19, <1>20, <1>21, <1>22, <1>23, <1>24, <1>25,
    <1>26, <1>27, <1>28, <1>29, <1>30, <1>31, <1>32, <1>33
  DEF Next, ClientStep, CallStep, ConsumerStep, SubscriptionStep, LoopStep, LockStep,
      HandlerStep, FaultStep

\* Every step leaves at most one loop inside collect_batch, the one that holds the lock.
LEMMA MutexStep ==
  ASSUME Inv, [Next]_vars
  PROVE  Mutex'
<1> USE DEF Inv
<1>1. ASSUME NEW k \in Callers, NEW s \in Subjects, PublishBegin(k, s)
      PROVE  Mutex'
  BY <1>1, TopologyAssumption DEF PublishBegin, TypeOK, Mutex, Goto, Locked, Settling,
    LockFree, AfterErr, StopPoints, collectVars, loopVars
<1>2. ASSUME NEW k \in Callers, PublishCommit(k)
      PROVE  Mutex'
  BY <1>2, TopologyAssumption DEF PublishCommit, TypeOK, Mutex, Goto, Locked, Settling,
    LockFree, AfterErr, StopPoints, collectVars, loopVars
<1>3. ASSUME NEW k \in Callers, NEW s \in Subjects, EnsureStreamBegin(k, s)
      PROVE  Mutex'
  BY <1>3, TopologyAssumption DEF EnsureStreamBegin, TypeOK, Mutex, Goto, Locked,
    Settling, LockFree, AfterErr, StopPoints, collectVars, loopVars
<1>4. ASSUME NEW k \in Callers, EnsureStreamCommit(k)
      PROVE  Mutex'
  BY <1>4, TopologyAssumption DEF EnsureStreamCommit, TypeOK, Mutex, Goto, Locked,
    Settling, LockFree, AfterErr, StopPoints, collectVars, loopVars
<1>5. ASSUME NEW k \in Callers, NEW s \in Subjects, NEW maxAge \in 0..MaxTime,
             TrimStreamBegin(k, s, maxAge)
      PROVE  Mutex'
  BY <1>5, TopologyAssumption DEF TrimStreamBegin, TypeOK, Mutex, Goto, Locked, Settling,
    LockFree, AfterErr, StopPoints, collectVars, loopVars
<1>6. ASSUME NEW k \in Callers, TrimStreamCommit(k)
      PROVE  Mutex'
  BY <1>6, TopologyAssumption DEF TrimStreamCommit, TypeOK, Mutex, Goto, Locked, Settling,
    LockFree, AfterErr, StopPoints, collectVars, loopVars
<1>7. ASSUME NEW k \in Callers, DropCall(k)
      PROVE  Mutex'
  BY <1>7, TopologyAssumption DEF DropCall, TypeOK, Mutex, Goto, Locked, Settling,
    LockFree, AfterErr, StopPoints, collectVars, loopVars
<1>8. ASSUME NEW c \in Consumers, SubscribeBegin(c)
      PROVE  Mutex'
  BY <1>8, TopologyAssumption DEF SubscribeBegin, TypeOK, Mutex, Goto, Locked, Settling,
    LockFree, AfterErr, StopPoints, collectVars, loopVars
<1>9. ASSUME NEW c \in Consumers, NEW start \in Starts, SubscribeCommit(c, start)
      PROVE  Mutex'
  BY <1>9, TopologyAssumption DEF SubscribeCommit, TypeOK, Mutex, Goto, Locked, Settling,
    LockFree, AfterErr, StopPoints, collectVars, loopVars
<1>10. ASSUME NEW c \in Consumers, Unsubscribe(c)
      PROVE  Mutex'
  BY <1>10, TopologyAssumption DEF Unsubscribe, TypeOK, Mutex, Goto, Locked, Settling,
    LockFree, AfterErr, StopPoints, collectVars, loopVars
<1>11. ASSUME NEW c \in Consumers, Stop(c)
      PROVE  Mutex'
  BY <1>11, TopologyAssumption DEF Stop, TypeOK, Mutex, Goto, Locked, Settling, LockFree,
    AfterErr, StopPoints, collectVars, loopVars
<1>12. ASSUME NEW c \in Consumers, Register(c)
      PROVE  Mutex'
  BY <1>12, TopologyAssumption DEF Register, TypeOK, Mutex, Goto, Locked, Settling,
    LockFree, AfterErr, StopPoints, collectVars, loopVars
<1>13. ASSUME NEW c \in Consumers, Notified(c)
      PROVE  Mutex'
  BY <1>13, TopologyAssumption DEF Notified, TypeOK, Mutex, Goto, Locked, Settling,
    LockFree, AfterErr, StopPoints, collectVars, loopVars
<1>14. ASSUME NEW c \in Consumers, Timeout(c)
      PROVE  Mutex'
  BY <1>14, TopologyAssumption DEF Timeout, TypeOK, Mutex, Goto, Locked, Settling,
    LockFree, AfterErr, StopPoints, collectVars, loopVars
<1>15. ASSUME NEW c \in Consumers, NextMessage(c)
      PROVE  Mutex'
  BY <1>15, TopologyAssumption DEF NextMessage, TypeOK, Mutex, Goto, Locked, Settling,
    LockFree, AfterErr, StopPoints, collectVars, loopVars
<1>16. ASSUME NEW c \in Consumers, EndBatch(c)
      PROVE  Mutex'
  BY <1>16, TopologyAssumption DEF EndBatch, TypeOK, Mutex, Goto, Locked, Settling,
    LockFree, AfterErr, StopPoints, collectVars, loopVars
<1>17. ASSUME NEW c \in Consumers, CollectBegin(c)
      PROVE  Mutex'
  BY <1>17, TopologyAssumption DEF CollectBegin, TypeOK, Mutex, Goto, Locked, Settling,
    LockFree, AfterErr, StopPoints, collectVars, loopVars
<1>18. ASSUME NEW c \in Consumers, CollectRedelivery(c)
      PROVE  Mutex'
  BY <1>18, TopologyAssumption DEF CollectRedelivery, TypeOK, Mutex, Goto, Locked,
    Settling, LockFree, AfterErr, StopPoints, collectVars, loopVars
<1>19. ASSUME NEW c \in Consumers, CollectFresh(c)
      PROVE  Mutex'
  BY <1>19, TopologyAssumption DEF CollectFresh, TypeOK, Mutex, Goto, Locked, Settling,
    LockFree, AfterErr, StopPoints, collectVars, loopVars
<1>20. ASSUME NEW c \in Consumers, CollectNext(c)
      PROVE  Mutex'
  BY <1>20, TopologyAssumption DEF CollectNext, TypeOK, Mutex, Goto, Locked, Settling,
    LockFree, AfterErr, StopPoints, collectVars, loopVars
<1>21. ASSUME NEW c \in Consumers, CollectEnd(c)
      PROVE  Mutex'
  BY <1>21, TopologyAssumption DEF CollectEnd, TypeOK, Mutex, Goto, Locked, Settling,
    LockFree, AfterErr, StopPoints, collectVars, loopVars
<1>22. ASSUME NEW c \in Consumers, Collected(c)
      PROVE  Mutex'
  BY <1>22, TopologyAssumption DEF Collected, TypeOK, Mutex, Goto, Locked, Settling,
    LockFree, AfterErr, StopPoints, collectVars, loopVars
<1>23. ASSUME NEW c \in Consumers, NEW verdict \in {"ack", "nak", "dead_letter"},
             SettleBegin(c, verdict)
      PROVE  Mutex'
  BY <1>23, TopologyAssumption DEF SettleBegin, TypeOK, Mutex, Goto, Locked, Settling,
    LockFree, AfterErr, StopPoints, collectVars, loopVars
<1>24. ASSUME NEW c \in Consumers, AckCommit(c)
      PROVE  Mutex'
  BY <1>24, TopologyAssumption DEF AckCommit, TypeOK, Mutex, Goto, Locked, Settling,
    LockFree, AfterErr, StopPoints, collectVars, loopVars
<1>25. ASSUME NEW c \in Consumers, NakCommit(c)
      PROVE  Mutex'
  BY <1>25, TopologyAssumption DEF NakCommit, TypeOK, Mutex, Goto, Locked, Settling,
    LockFree, AfterErr, StopPoints, collectVars, loopVars
<1>26. ASSUME NEW c \in Consumers, DeadLetterCommit(c)
      PROVE  Mutex'
  BY <1>26, TopologyAssumption DEF DeadLetterCommit, TypeOK, Mutex, Goto, Locked,
    Settling, LockFree, AfterErr, StopPoints, collectVars, loopVars
<1>27. ASSUME NEW c \in Consumers, ReturnOk(c)
      PROVE  Mutex'
  BY <1>27, TopologyAssumption DEF ReturnOk, TypeOK, Mutex, Goto, Locked, Settling,
    LockFree, AfterErr, StopPoints, collectVars, loopVars
<1>28. ASSUME NEW c \in Consumers, ReturnErr(c)
      PROVE  Mutex'
  BY <1>28, TopologyAssumption DEF ReturnErr, TypeOK, Mutex, Goto, Locked, Settling,
    LockFree, AfterErr, StopPoints, collectVars, loopVars
<1>29. ASSUME NEW c \in Consumers, DropSettle(c)
      PROVE  Mutex'
  BY <1>29, TopologyAssumption DEF DropSettle, TypeOK, Mutex, Goto, Locked, Settling,
    LockFree, AfterErr, StopPoints, collectVars, loopVars
<1>30. ASSUME NEW c \in Consumers, Panic(c)
      PROVE  Mutex'
  BY <1>30, TopologyAssumption DEF Panic, TypeOK, Mutex, Goto, Locked, Settling, LockFree,
    AfterErr, StopPoints, collectVars, loopVars
<1>31. ASSUME Close
      PROVE  Mutex'
  BY <1>31, TopologyAssumption DEF Close, TypeOK, Mutex, Goto, Locked, Settling, LockFree,
    AfterErr, StopPoints, collectVars, loopVars
<1>32. ASSUME Tick
      PROVE  Mutex'
  BY <1>32, TopologyAssumption DEF Tick, TypeOK, Mutex, Goto, Locked, Settling, LockFree,
    AfterErr, StopPoints, collectVars, loopVars
<1>33. ASSUME UNCHANGED vars
      PROVE  Mutex'
  BY <1>33, TopologyAssumption DEF vars, TypeOK, Mutex, Goto, Locked, Settling, LockFree,
    AfterErr, StopPoints, collectVars, loopVars
<1> QED
  BY <1>1, <1>2, <1>3, <1>4, <1>5, <1>6, <1>7, <1>8, <1>9, <1>10, <1>11, <1>12, <1>13,
    <1>14, <1>15, <1>16, <1>17, <1>18, <1>19, <1>20, <1>21, <1>22, <1>23, <1>24, <1>25,
    <1>26, <1>27, <1>28, <1>29, <1>30, <1>31, <1>32, <1>33
  DEF Next, ClientStep, CallStep, ConsumerStep, SubscriptionStep, LoopStep, LockStep,
      HandlerStep, FaultStep

\* Every step keeps the range phase 2 visits within the stream.
LEMMA ScanStep ==
  ASSUME Inv, [Next]_vars
  PROVE  ScanInRange'
<1> USE DEF Inv
<1>1. ASSUME NEW k \in Callers, NEW s \in Subjects, PublishBegin(k, s)
      PROVE  ScanInRange'
  BY <1>1 DEF PublishBegin, TypeOK, Mutex, ScanInRange, Goto, Locked, Settling, LockFree,
    AfterErr, StopPoints, storeVars, collectVars, loopVars
<1>2. ASSUME NEW k \in Callers, PublishCommit(k)
      PROVE  ScanInRange'
  <2>1. \A d \in Consumers : pc[d] # "scan"
    BY <1>2, TopologyAssumption DEF PublishCommit, Mutex, Locked, LockFree
  <2> QED
    BY <1>2, <2>1 DEF PublishCommit, TypeOK, ScanInRange, Goto, Settling, loopVars
<1>3. ASSUME NEW k \in Callers, NEW s \in Subjects, EnsureStreamBegin(k, s)
      PROVE  ScanInRange'
  BY <1>3 DEF EnsureStreamBegin, TypeOK, Mutex, ScanInRange, Goto, Locked, Settling,
    LockFree, AfterErr, StopPoints, storeVars, collectVars, loopVars
<1>4. ASSUME NEW k \in Callers, EnsureStreamCommit(k)
      PROVE  ScanInRange'
  <2>1. \A d \in Consumers : pc[d] # "scan"
    BY <1>4, TopologyAssumption DEF EnsureStreamCommit, Mutex, Locked, LockFree
  <2> QED
    BY <1>4, <2>1 DEF EnsureStreamCommit, TypeOK, ScanInRange, Goto, Settling, loopVars
<1>5. ASSUME NEW k \in Callers, NEW s \in Subjects, NEW maxAge \in 0..MaxTime,
             TrimStreamBegin(k, s, maxAge)
      PROVE  ScanInRange'
  BY <1>5 DEF TrimStreamBegin, TypeOK, Mutex, ScanInRange, Goto, Locked, Settling,
    LockFree, AfterErr, StopPoints, storeVars, collectVars, loopVars
<1>6. ASSUME NEW k \in Callers, TrimStreamCommit(k)
      PROVE  ScanInRange'
  <2>1. \A d \in Consumers : pc[d] # "scan"
    BY <1>6, TopologyAssumption DEF TrimStreamCommit, Mutex, Locked, LockFree
  <2> QED
    BY <1>6, <2>1 DEF TrimStreamCommit, TypeOK, ScanInRange, Goto, Settling, loopVars
<1>7. ASSUME NEW k \in Callers, DropCall(k)
      PROVE  ScanInRange'
  BY <1>7 DEF DropCall, TypeOK, Mutex, ScanInRange, Goto, Locked, Settling, LockFree,
    AfterErr, StopPoints, storeVars, collectVars, loopVars
<1>8. ASSUME NEW c \in Consumers, SubscribeBegin(c)
      PROVE  ScanInRange'
  BY <1>8 DEF SubscribeBegin, TypeOK, Mutex, ScanInRange, Goto, Locked, Settling,
    LockFree, AfterErr, StopPoints, storeVars, collectVars, loopVars
<1>9. ASSUME NEW c \in Consumers, NEW start \in Starts, SubscribeCommit(c, start)
      PROVE  ScanInRange'
  <2>1. \A d \in Consumers : pc[d] # "scan"
    BY <1>9, TopologyAssumption DEF SubscribeCommit, Mutex, Locked, LockFree
  <2> QED
    BY <1>9, <2>1 DEF SubscribeCommit, TypeOK, ScanInRange, Goto, Settling, loopVars
<1>10. ASSUME NEW c \in Consumers, Unsubscribe(c)
      PROVE  ScanInRange'
  BY <1>10 DEF Unsubscribe, TypeOK, Mutex, ScanInRange, Goto, Locked, Settling, LockFree,
    AfterErr, StopPoints, storeVars, collectVars, loopVars
<1>11. ASSUME NEW c \in Consumers, Stop(c)
      PROVE  ScanInRange'
  BY <1>11 DEF Stop, TypeOK, Mutex, ScanInRange, Goto, Locked, Settling, LockFree,
    AfterErr, StopPoints, storeVars, collectVars, loopVars
<1>12. ASSUME NEW c \in Consumers, Register(c)
      PROVE  ScanInRange'
  BY <1>12 DEF Register, TypeOK, Mutex, ScanInRange, Goto, Locked, Settling, LockFree,
    AfterErr, StopPoints, storeVars, collectVars, loopVars
<1>13. ASSUME NEW c \in Consumers, Notified(c)
      PROVE  ScanInRange'
  BY <1>13 DEF Notified, TypeOK, Mutex, ScanInRange, Goto, Locked, Settling, LockFree,
    AfterErr, StopPoints, storeVars, collectVars, loopVars
<1>14. ASSUME NEW c \in Consumers, Timeout(c)
      PROVE  ScanInRange'
  BY <1>14 DEF Timeout, TypeOK, Mutex, ScanInRange, Goto, Locked, Settling, LockFree,
    AfterErr, StopPoints, storeVars, collectVars, loopVars
<1>15. ASSUME NEW c \in Consumers, NextMessage(c)
      PROVE  ScanInRange'
  BY <1>15 DEF NextMessage, TypeOK, Mutex, ScanInRange, Goto, Locked, Settling, LockFree,
    AfterErr, StopPoints, storeVars, collectVars, loopVars
<1>16. ASSUME NEW c \in Consumers, EndBatch(c)
      PROVE  ScanInRange'
  BY <1>16 DEF EndBatch, TypeOK, Mutex, ScanInRange, Goto, Locked, Settling, LockFree,
    AfterErr, StopPoints, storeVars, collectVars, loopVars
<1>17. ASSUME NEW c \in Consumers, CollectBegin(c)
      PROVE  ScanInRange'
  <2>1. \A d \in Consumers : pc[d] # "scan"
    BY <1>17, TopologyAssumption DEF CollectBegin, Mutex, Locked, LockFree
  <2> QED
    BY <1>17, <2>1 DEF CollectBegin, TypeOK, ScanInRange, Goto, Settling, loopVars
<1>18. ASSUME NEW c \in Consumers, CollectRedelivery(c)
      PROVE  ScanInRange'
  BY <1>18 DEF CollectRedelivery, TypeOK, Mutex, ScanInRange, Goto, Locked, Settling,
    LockFree, AfterErr, StopPoints, storeVars, collectVars, loopVars
<1>19. ASSUME NEW c \in Consumers, CollectFresh(c)
      PROVE  ScanInRange'
  <2>1. cursor[GroupOf[c]] \in Nat /\ take[c] \in Nat /\ Len(batch[c]) \in Nat
        /\ Len(messages[SubjectFor(c)]) \in Nat
    BY TopologyAssumption DEF TypeOK, SubjectFor
  <2>2. scan'.next >= 1 /\ scan'.last <= Len(messages[SubjectFor(c)])
    BY <1>19, <2>1 DEF CollectFresh, LastToScan, Minimum
  <2>3. \A d \in Consumers : pc'[d] = "scan" => d = c
    BY <1>19 DEF CollectFresh, Mutex, Locked, Goto, TypeOK
  <2> QED
    BY <1>19, <2>2, <2>3 DEF CollectFresh, ScanInRange, storeVars, SubjectFor
<1>20. ASSUME NEW c \in Consumers, CollectNext(c)
      PROVE  ScanInRange'
  <2>1. scan'.next >= 1 /\ scan'.last = scan.last
    BY <1>20 DEF CollectNext, TypeOK
  <2>2. messages' = messages /\ pc' = pc
    BY <1>20 DEF CollectNext
  <2> QED
    BY <2>1, <2>2 DEF ScanInRange, SubjectFor
<1>21. ASSUME NEW c \in Consumers, CollectEnd(c)
      PROVE  ScanInRange'
  <2>1. \A d \in Consumers : pc'[d] # "scan"
    BY <1>21 DEF CollectEnd, Mutex, Locked, Goto, TypeOK
  <2> QED
    BY <2>1 DEF ScanInRange
<1>22. ASSUME NEW c \in Consumers, Collected(c)
      PROVE  ScanInRange'
  BY <1>22 DEF Collected, TypeOK, Mutex, ScanInRange, Goto, Locked, Settling, LockFree,
    AfterErr, StopPoints, storeVars, collectVars, loopVars
<1>23. ASSUME NEW c \in Consumers, NEW verdict \in {"ack", "nak", "dead_letter"},
             SettleBegin(c, verdict)
      PROVE  ScanInRange'
  BY <1>23 DEF SettleBegin, TypeOK, Mutex, ScanInRange, Goto, Locked, Settling, LockFree,
    AfterErr, StopPoints, storeVars, collectVars, loopVars
<1>24. ASSUME NEW c \in Consumers, AckCommit(c)
      PROVE  ScanInRange'
  <2>1. \A d \in Consumers : pc[d] # "scan"
    BY <1>24, TopologyAssumption DEF AckCommit, Mutex, Locked, LockFree
  <2> QED
    BY <1>24, <2>1 DEF AckCommit, TypeOK, ScanInRange, Goto, Settling, loopVars
<1>25. ASSUME NEW c \in Consumers, NakCommit(c)
      PROVE  ScanInRange'
  <2>1. \A d \in Consumers : pc[d] # "scan"
    BY <1>25, TopologyAssumption DEF NakCommit, Mutex, Locked, LockFree
  <2> QED
    BY <1>25, <2>1 DEF NakCommit, TypeOK, ScanInRange, Goto, Settling, loopVars
<1>26. ASSUME NEW c \in Consumers, DeadLetterCommit(c)
      PROVE  ScanInRange'
  <2>1. \A d \in Consumers : pc[d] # "scan"
    BY <1>26, TopologyAssumption DEF DeadLetterCommit, Mutex, Locked, LockFree
  <2> QED
    BY <1>26, <2>1 DEF DeadLetterCommit, TypeOK, ScanInRange, Goto, Settling, loopVars
<1>27. ASSUME NEW c \in Consumers, ReturnOk(c)
      PROVE  ScanInRange'
  BY <1>27 DEF ReturnOk, TypeOK, Mutex, ScanInRange, Goto, Locked, Settling, LockFree,
    AfterErr, StopPoints, storeVars, collectVars, loopVars
<1>28. ASSUME NEW c \in Consumers, ReturnErr(c)
      PROVE  ScanInRange'
  BY <1>28 DEF ReturnErr, TypeOK, Mutex, ScanInRange, Goto, Locked, Settling, LockFree,
    AfterErr, StopPoints, storeVars, collectVars, loopVars
<1>29. ASSUME NEW c \in Consumers, DropSettle(c)
      PROVE  ScanInRange'
  BY <1>29 DEF DropSettle, TypeOK, Mutex, ScanInRange, Goto, Locked, Settling, LockFree,
    AfterErr, StopPoints, storeVars, collectVars, loopVars
<1>30. ASSUME NEW c \in Consumers, Panic(c)
      PROVE  ScanInRange'
  BY <1>30 DEF Panic, TypeOK, Mutex, ScanInRange, Goto, Locked, Settling, LockFree,
    AfterErr, StopPoints, storeVars, collectVars, loopVars
<1>31. ASSUME Close
      PROVE  ScanInRange'
  BY <1>31 DEF Close, TypeOK, Mutex, ScanInRange, Goto, Locked, Settling, LockFree,
    AfterErr, StopPoints, storeVars, collectVars, loopVars
<1>32. ASSUME Tick
      PROVE  ScanInRange'
  BY <1>32 DEF Tick, TypeOK, Mutex, ScanInRange, Goto, Locked, Settling, LockFree,
    AfterErr, StopPoints, storeVars, collectVars, loopVars
<1>33. ASSUME UNCHANGED vars
      PROVE  ScanInRange'
  BY <1>33 DEF vars, TypeOK, Mutex, ScanInRange, Goto, Locked, Settling, LockFree,
    AfterErr, StopPoints, storeVars, collectVars, loopVars
<1> QED
  BY <1>1, <1>2, <1>3, <1>4, <1>5, <1>6, <1>7, <1>8, <1>9, <1>10, <1>11, <1>12, <1>13,
    <1>14, <1>15, <1>16, <1>17, <1>18, <1>19, <1>20, <1>21, <1>22, <1>23, <1>24, <1>25,
    <1>26, <1>27, <1>28, <1>29, <1>30, <1>31, <1>32, <1>33
  DEF Next, ClientStep, CallStep, ConsumerStep, SubscriptionStep, LoopStep, LockStep,
      HandlerStep, FaultStep

\* Every step leaves handlers with a message and dead letters with an envelope.
LEMMA EquippedStep ==
  ASSUME Inv, [Next]_vars
  PROVE  Equipped'
<1> USE DEF Inv
<1>1. ASSUME NEW k \in Callers, NEW s \in Subjects, PublishBegin(k, s)
      PROVE  Equipped'
  BY <1>1, BlankIsNoEnvelope DEF PublishBegin, TypeOK, Equipped, Goto, Settling, Locked,
    AfterErr, StopPoints, loopVars
<1>2. ASSUME NEW k \in Callers, PublishCommit(k)
      PROVE  Equipped'
  BY <1>2, BlankIsNoEnvelope DEF PublishCommit, TypeOK, Equipped, Goto, Settling, Locked,
    AfterErr, StopPoints, loopVars
<1>3. ASSUME NEW k \in Callers, NEW s \in Subjects, EnsureStreamBegin(k, s)
      PROVE  Equipped'
  BY <1>3, BlankIsNoEnvelope DEF EnsureStreamBegin, TypeOK, Equipped, Goto, Settling,
    Locked, AfterErr, StopPoints, loopVars
<1>4. ASSUME NEW k \in Callers, EnsureStreamCommit(k)
      PROVE  Equipped'
  BY <1>4, BlankIsNoEnvelope DEF EnsureStreamCommit, TypeOK, Equipped, Goto, Settling,
    Locked, AfterErr, StopPoints, loopVars
<1>5. ASSUME NEW k \in Callers, NEW s \in Subjects, NEW maxAge \in 0..MaxTime,
             TrimStreamBegin(k, s, maxAge)
      PROVE  Equipped'
  BY <1>5, BlankIsNoEnvelope DEF TrimStreamBegin, TypeOK, Equipped, Goto, Settling,
    Locked, AfterErr, StopPoints, loopVars
<1>6. ASSUME NEW k \in Callers, TrimStreamCommit(k)
      PROVE  Equipped'
  BY <1>6, BlankIsNoEnvelope DEF TrimStreamCommit, TypeOK, Equipped, Goto, Settling,
    Locked, AfterErr, StopPoints, loopVars
<1>7. ASSUME NEW k \in Callers, DropCall(k)
      PROVE  Equipped'
  BY <1>7, BlankIsNoEnvelope DEF DropCall, TypeOK, Equipped, Goto, Settling, Locked,
    AfterErr, StopPoints, loopVars
<1>8. ASSUME NEW c \in Consumers, SubscribeBegin(c)
      PROVE  Equipped'
  BY <1>8, BlankIsNoEnvelope DEF SubscribeBegin, TypeOK, Equipped, Goto, Settling, Locked,
    AfterErr, StopPoints, loopVars
<1>9. ASSUME NEW c \in Consumers, NEW start \in Starts, SubscribeCommit(c, start)
      PROVE  Equipped'
  BY <1>9, BlankIsNoEnvelope DEF SubscribeCommit, TypeOK, Equipped, Goto, Settling,
    Locked, AfterErr, StopPoints, loopVars
<1>10. ASSUME NEW c \in Consumers, Unsubscribe(c)
      PROVE  Equipped'
  BY <1>10, BlankIsNoEnvelope DEF Unsubscribe, TypeOK, Equipped, Goto, Settling, Locked,
    AfterErr, StopPoints, loopVars
<1>11. ASSUME NEW c \in Consumers, Stop(c)
      PROVE  Equipped'
  BY <1>11, BlankIsNoEnvelope DEF Stop, TypeOK, Equipped, Goto, Settling, Locked,
    AfterErr, StopPoints, loopVars
<1>12. ASSUME NEW c \in Consumers, Register(c)
      PROVE  Equipped'
  BY <1>12, BlankIsNoEnvelope DEF Register, TypeOK, Equipped, Goto, Settling, Locked,
    AfterErr, StopPoints, loopVars
<1>13. ASSUME NEW c \in Consumers, Notified(c)
      PROVE  Equipped'
  BY <1>13, BlankIsNoEnvelope DEF Notified, TypeOK, Equipped, Goto, Settling, Locked,
    AfterErr, StopPoints, loopVars
<1>14. ASSUME NEW c \in Consumers, Timeout(c)
      PROVE  Equipped'
  BY <1>14, BlankIsNoEnvelope DEF Timeout, TypeOK, Equipped, Goto, Settling, Locked,
    AfterErr, StopPoints, loopVars
<1>15. ASSUME NEW c \in Consumers, NextMessage(c)
      PROVE  Equipped'
  <2>1. Head(batch[c]) \in Envelopes
    BY <1>15, HeadTailProperties DEF NextMessage, TypeOK
  <2> QED
    BY <1>15, <2>1 DEF NextMessage, TypeOK, Equipped, Goto, Settling
<1>16. ASSUME NEW c \in Consumers, EndBatch(c)
      PROVE  Equipped'
  BY <1>16, BlankIsNoEnvelope DEF EndBatch, TypeOK, Equipped, Goto, Settling, Locked,
    AfterErr, StopPoints, loopVars
<1>17. ASSUME NEW c \in Consumers, CollectBegin(c)
      PROVE  Equipped'
  BY <1>17, BlankIsNoEnvelope DEF CollectBegin, TypeOK, Equipped, Goto, Settling, Locked,
    AfterErr, StopPoints, loopVars
<1>18. ASSUME NEW c \in Consumers, CollectRedelivery(c)
      PROVE  Equipped'
  BY <1>18, BlankIsNoEnvelope DEF CollectRedelivery, TypeOK, Equipped, Goto, Settling,
    Locked, AfterErr, StopPoints, loopVars
<1>19. ASSUME NEW c \in Consumers, CollectFresh(c)
      PROVE  Equipped'
  BY <1>19, BlankIsNoEnvelope DEF CollectFresh, TypeOK, Equipped, Goto, Settling, Locked,
    AfterErr, StopPoints, loopVars
<1>20. ASSUME NEW c \in Consumers, CollectNext(c)
      PROVE  Equipped'
  BY <1>20, BlankIsNoEnvelope DEF CollectNext, TypeOK, Equipped, Goto, Settling, Locked,
    AfterErr, StopPoints, loopVars
<1>21. ASSUME NEW c \in Consumers, CollectEnd(c)
      PROVE  Equipped'
  BY <1>21, BlankIsNoEnvelope DEF CollectEnd, TypeOK, Equipped, Goto, Settling, Locked,
    AfterErr, StopPoints, loopVars
<1>22. ASSUME NEW c \in Consumers, Collected(c)
      PROVE  Equipped'
  BY <1>22, BlankIsNoEnvelope DEF Collected, TypeOK, Equipped, Goto, Settling, Locked,
    AfterErr, StopPoints, loopVars
<1>23. ASSUME NEW c \in Consumers, NEW verdict \in {"ack", "nak", "dead_letter"},
             SettleBegin(c, verdict)
      PROVE  Equipped'
  <2>1. msg[c] \in Envelopes
    BY <1>23 DEF SettleBegin, Equipped
  <2>2. CASE verdict = "dead_letter"
    <3>1. <<GroupOf[c], msg[c].id>> \in Origins
      BY <2>1, TopologyAssumption DEF Origins, Envelopes
    <3>2. draft'[c] \in Envelopes
      BY <1>23, <2>2, <3>1, EnvelopeType DEF SettleBegin, TypeOK
    <3>3. \A d \in Consumers \ {c} : draft'[d] = draft[d] /\ pc'[d] = pc[d]
      BY <1>23, <2>2 DEF SettleBegin, TypeOK, Goto
    <3>4. pc'[c] = "dead_letter" /\ msg' = msg
      BY <1>23, <2>2 DEF SettleBegin, TypeOK, Goto
    <3> QED
      BY <2>1, <3>2, <3>3, <3>4 DEF Equipped
  <2>3. CASE verdict # "dead_letter"
    <3>1. draft' = draft /\ msg' = msg /\ pc' = [pc EXCEPT ![c] = verdict]
      BY <1>23, <2>3 DEF SettleBegin, Goto
    <3> QED
      BY <1>23, <2>1, <2>3, <3>1 DEF SettleBegin, TypeOK, Equipped
  <2> QED
    BY <2>2, <2>3
<1>24. ASSUME NEW c \in Consumers, AckCommit(c)
      PROVE  Equipped'
  BY <1>24, BlankIsNoEnvelope DEF AckCommit, TypeOK, Equipped, Goto, Settling, Locked,
    AfterErr, StopPoints, loopVars
<1>25. ASSUME NEW c \in Consumers, NakCommit(c)
      PROVE  Equipped'
  BY <1>25, BlankIsNoEnvelope DEF NakCommit, TypeOK, Equipped, Goto, Settling, Locked,
    AfterErr, StopPoints, loopVars
<1>26. ASSUME NEW c \in Consumers, DeadLetterCommit(c)
      PROVE  Equipped'
  BY <1>26, BlankIsNoEnvelope DEF DeadLetterCommit, TypeOK, Equipped, Goto, Settling,
    Locked, AfterErr, StopPoints, loopVars
<1>27. ASSUME NEW c \in Consumers, ReturnOk(c)
      PROVE  Equipped'
  BY <1>27, BlankIsNoEnvelope DEF ReturnOk, TypeOK, Equipped, Goto, Settling, Locked,
    AfterErr, StopPoints, loopVars
<1>28. ASSUME NEW c \in Consumers, ReturnErr(c)
      PROVE  Equipped'
  BY <1>28, BlankIsNoEnvelope DEF ReturnErr, TypeOK, Equipped, Goto, Settling, Locked,
    AfterErr, StopPoints, loopVars
<1>29. ASSUME NEW c \in Consumers, DropSettle(c)
      PROVE  Equipped'
  BY <1>29, BlankIsNoEnvelope DEF DropSettle, TypeOK, Equipped, Goto, Settling, Locked,
    AfterErr, StopPoints, loopVars
<1>30. ASSUME NEW c \in Consumers, Panic(c)
      PROVE  Equipped'
  BY <1>30, BlankIsNoEnvelope DEF Panic, TypeOK, Equipped, Goto, Settling, Locked,
    AfterErr, StopPoints, loopVars
<1>31. ASSUME Close
      PROVE  Equipped'
  BY <1>31, BlankIsNoEnvelope DEF Close, TypeOK, Equipped, Goto, Settling, Locked,
    AfterErr, StopPoints, loopVars
<1>32. ASSUME Tick
      PROVE  Equipped'
  BY <1>32, BlankIsNoEnvelope DEF Tick, TypeOK, Equipped, Goto, Settling, Locked,
    AfterErr, StopPoints, loopVars
<1>33. ASSUME UNCHANGED vars
      PROVE  Equipped'
  BY <1>33, BlankIsNoEnvelope DEF vars, TypeOK, Equipped, Goto, Settling, Locked,
    AfterErr, StopPoints, loopVars
<1> QED
  BY <1>1, <1>2, <1>3, <1>4, <1>5, <1>6, <1>7, <1>8, <1>9, <1>10, <1>11, <1>12, <1>13,
    <1>14, <1>15, <1>16, <1>17, <1>18, <1>19, <1>20, <1>21, <1>22, <1>23, <1>24, <1>25,
    <1>26, <1>27, <1>28, <1>29, <1>30, <1>31, <1>32, <1>33
  DEF Next, ClientStep, CallStep, ConsumerStep, SubscriptionStep, LoopStep, LockStep,
      HandlerStep, FaultStep

\* Freshness survives a step that draws no id, fills no index entry but with an id
\* that was drawn, and whose calls and drafts after it were there before.
LEMMA FreshnessFrame ==
  ASSUME Freshness, nextId' = nextId, idIndex' = idIndex,
         \A k \in Callers : Publishing(k)' => Publishing(k) /\ call'[k] = call[k],
         \A c \in Consumers : Drafting(c)' => Drafting(c) /\ draft'[c] = draft[c]
  PROVE  Freshness'
  BY DEF Freshness, Unpublished

\* What a caller or a consumer has drawn is an envelope with an id.
LEMMA DrawnType ==
  ASSUME TypeOK
  PROVE  /\ \A k \in Callers : Publishing(k) => call[k].envelope.id \in Ids
         /\ \A c \in Consumers : Drafting(c) => draft[c].id \in Ids
<1>1. ASSUME NEW k \in Callers, Publishing(k)
      PROVE  call[k].envelope.id \in Ids
  <2>1. call[k].op = "publish" /\ call[k] \in Calls
    BY <1>1 DEF Publishing, TypeOK
  <2>2. call[k].envelope \in Envelopes
    BY <2>1 DEF Calls, Idle
  <2> QED
    BY <2>2 DEF Envelopes
<1>2. ASSUME NEW c \in Consumers, Drafting(c)
      PROVE  draft[c].id \in Ids
  BY <1>2, BlankIsNoEnvelope DEF Drafting, TypeOK, Envelopes, Blank
<1> QED
  BY <1>1, <1>2

\* So it does when index entries fill or empty only for an id that was drawn and
\* that no call holds any more (0 stands for no id).
LEMMA FreshnessCommit ==
  ASSUME TypeOK, Freshness, nextId' = nextId, NEW old \in 0..MaxMsgs, old < nextId,
         \A s \in Subjects, id \in Ids \ {old} : idIndex[s][id] = 0 => idIndex'[s][id] = 0,
         \A k \in Callers : Publishing(k)' =>
           Publishing(k) /\ call'[k] = call[k] /\ call[k].envelope.id # old,
         \A c \in Consumers : Drafting(c)' =>
           Drafting(c) /\ draft'[c] = draft[c] /\ draft[c].id # old
  PROVE  Freshness'
<1>1. /\ \A k \in Callers : Publishing(k) => call[k].envelope.id \in Ids
      /\ \A c \in Consumers : Drafting(c) => draft[c].id \in Ids
  BY DrawnType
<1>2. \A s \in Subjects, id \in Ids : id >= nextId' => idIndex'[s][id] = 0
  BY BoundsAssumption DEF Freshness, Ids, TypeOK
<1>3. \A k \in Callers : Publishing(k)' => Unpublished(call[k].envelope.id)'
  BY <1>1 DEF Freshness, Unpublished
<1>4. \A c \in Consumers : Drafting(c)' => Unpublished(draft[c].id)'
  BY <1>1 DEF Freshness, Unpublished
<1> QED
  BY <1>2, <1>3, <1>4 DEF Freshness

\* Drawing an id: whoever holds it is the only one.
LEMMA DrawnId ==
  ASSUME TypeOK, Freshness, nextId <= MaxMsgs
  PROVE  /\ nextId \in Ids /\ nextId \in Nat
         /\ \A s \in Subjects : idIndex[s][nextId] = 0
         /\ \A k \in Callers : Publishing(k) =>
              call[k].envelope.id \in Nat /\ call[k].envelope.id < nextId
         /\ \A c \in Consumers : Drafting(c) => draft[c].id \in Nat /\ draft[c].id < nextId
<1>1. nextId \in Ids /\ nextId \in Nat
  BY BoundsAssumption DEF TypeOK, Ids
<1>2. \A s \in Subjects : idIndex[s][nextId] = 0
  BY <1>1 DEF Freshness
<1>3. /\ \A k \in Callers : Publishing(k) => call[k].envelope.id \in Nat
      /\ \A c \in Consumers : Drafting(c) => draft[c].id \in Nat
  BY DrawnType DEF Ids
<1> QED
  BY <1>1, <1>2, <1>3 DEF Freshness, Unpublished

\* An append fills the index entry of the appended id only.
LEMMA AppendFills ==
  ASSUME TypeOK, NEW s \in Subjects, NEW e \in Envelopes, AppendTo(s, e)
  PROVE  \A t \in Subjects, id \in Ids \ {e.id} : idIndex'[t][id] = idIndex[t][id]
  BY DEF AppendTo, TypeOK, Envelopes

\* Every step keeps drawn ids apart from published ones and from each other.
LEMMA FreshnessStep ==
  ASSUME Inv, [Next]_vars
  PROVE  Freshness'
<1> USE DEF Inv
<1>1. ASSUME NEW k \in Callers, NEW s \in Subjects, PublishBegin(k, s)
      PROVE  Freshness'
  <2>1. /\ call'[k].op = "publish" /\ call'[k].envelope.id = nextId
        /\ \A l \in Callers \ {k} : call'[l] = call[l]
        /\ nextId' = nextId + 1 /\ nextId <= MaxMsgs
        /\ idIndex' = idIndex /\ draft' = draft
    BY <1>1 DEF PublishBegin, TypeOK, Envelope, storeVars, loopVars
  <2>2. /\ nextId \in Ids /\ nextId \in Nat
        /\ \A t \in Subjects : idIndex[t][nextId] = 0
        /\ \A l \in Callers : Publishing(l) =>
             call[l].envelope.id \in Nat /\ call[l].envelope.id < nextId
        /\ \A c \in Consumers : Drafting(c) => draft[c].id \in Nat /\ draft[c].id < nextId
    BY <2>1, DrawnId
  <2>3. \A l \in Callers \ {k} : Publishing(l)' <=> Publishing(l)
    BY <2>1 DEF Publishing
  <2>4. \A c \in Consumers : Drafting(c)' <=> Drafting(c)
    BY <2>1 DEF Drafting
  <2>5. \A t \in Subjects, id \in Ids : id >= nextId' => idIndex'[t][id] = 0
    BY <2>1, <2>2 DEF Freshness, Ids
  <2>6. \A l \in Callers : Publishing(l)' => Unpublished(call[l].envelope.id)'
    <3> SUFFICES ASSUME NEW l \in Callers, Publishing(l)'
                 PROVE  Unpublished(call[l].envelope.id)'
      OBVIOUS
    <3>1. CASE l = k
      BY <2>1, <2>2, <3>1 DEF Unpublished
    <3>2. CASE l # k
      BY <2>1, <2>2, <2>3, <3>2 DEF Freshness, Unpublished
    <3> QED
      BY <3>1, <3>2
  <2>7. \A c \in Consumers : Drafting(c)' => Unpublished(draft[c].id)'
    BY <2>1, <2>2, <2>4 DEF Freshness, Unpublished
  <2>8. \A l, m \in Callers :
          Publishing(l)' /\ Publishing(m)' /\ l # m => call'[l].envelope.id #
            call'[m].envelope.id
    BY <2>1, <2>2, <2>3 DEF Freshness
  <2>9. \A l \in Callers, c \in Consumers :
          Publishing(l)' /\ Drafting(c)' => call'[l].envelope.id # draft'[c].id
    BY <2>1, <2>2, <2>3, <2>4 DEF Freshness
  <2>10. \A c, d \in Consumers :
          Drafting(c)' /\ Drafting(d)' /\ c # d => draft'[c].id # draft'[d].id
    BY <2>1, <2>4 DEF Freshness
  <2> QED
    BY <2>5, <2>6, <2>7, <2>8, <2>9, <2>10 DEF Freshness
<1>2. ASSUME NEW k \in Callers, PublishCommit(k)
      PROVE  Freshness'
  <2> DEFINE e == call[k].envelope
  <2>1. /\ Publishing(k) /\ call[k].subject \in Subjects /\ e \in Envelopes
        /\ Unpublished(e.id) /\ AppendTo(call[k].subject, e)
    BY <1>2, PublishEffect
  <2>2. \A t \in Subjects, id \in Ids \ {e.id} : idIndex'[t][id] = idIndex[t][id]
    BY <2>1, AppendFills
  <2>3. e.id \in 0..MaxMsgs /\ e.id < nextId /\ nextId' = nextId
    BY <1>2, <2>1, BoundsAssumption DEF PublishCommit, Envelopes, Ids, Unpublished
  <2>4. \A l \in Callers : Publishing(l)' =>
          Publishing(l) /\ call'[l] = call[l] /\ call[l].envelope.id # e.id
    BY <1>2, <2>1 DEF PublishCommit, Publishing, TypeOK, Idle, Freshness
  <2>5. \A c \in Consumers : Drafting(c)' =>
          Drafting(c) /\ draft'[c] = draft[c] /\ draft[c].id # e.id
    BY <1>2, <2>1 DEF PublishCommit, Drafting, Freshness
  <2> HIDE DEF e
  <2> QED
    BY <2>2, <2>3, <2>4, <2>5, FreshnessCommit
<1>3. ASSUME NEW k \in Callers, NEW s \in Subjects, EnsureStreamBegin(k, s)
      PROVE  Freshness'
  BY <1>3, FreshnessFrame, BlankIsNoEnvelope
  DEF EnsureStreamBegin, Publishing, Drafting, TypeOK, storeVars, loopVars, Idle
<1>4. ASSUME NEW k \in Callers, EnsureStreamCommit(k)
      PROVE  Freshness'
  BY <1>4, FreshnessFrame, BlankIsNoEnvelope
  DEF EnsureStreamCommit, Publishing, Drafting, TypeOK, storeVars, loopVars, Idle
<1>5. ASSUME NEW k \in Callers, NEW s \in Subjects, NEW maxAge \in 0..MaxTime,
             TrimStreamBegin(k, s, maxAge)
      PROVE  Freshness'
  BY <1>5, FreshnessFrame, BlankIsNoEnvelope
  DEF TrimStreamBegin, Publishing, Drafting, TypeOK, storeVars, loopVars, Idle
<1>6. ASSUME NEW k \in Callers, TrimStreamCommit(k)
      PROVE  Freshness'
  <2>1. \A s \in Subjects, id \in Ids : idIndex[s][id] = 0 => idIndex'[s][id] = 0
    <3>1. CASE ExpiredCount(call[k].subject, call[k].cutoff) = 0
      BY <1>6, <3>1, TrimNoEffect DEF storeVars
    <3>2. CASE ExpiredCount(call[k].subject, call[k].cutoff) # 0
      <4> DEFINE s == call[k].subject
                 n == ExpiredCount(s, call[k].cutoff)
      <4>1. /\ s \in Subjects /\ n \in 1..Len(messages[s])
            /\ messages' = [messages EXCEPT ![s] = SubSeq(@, n + 1, Len(@))]
            /\ idIndex' = [idIndex EXCEPT ![s] = RebuiltIndex(s, n)]
        BY <1>6, <3>2, TrimEffect
      <4>2. n \in 0..Len(messages[s])
        BY <4>1
      <4> HIDE DEF s, n
      <4> QED
        BY <4>1, <4>2, TrimKeepsIndex
    <3> QED
      BY <3>1, <3>2
  <2>2. \A l \in Callers : Publishing(l)' =>
          Publishing(l) /\ call'[l] = call[l] /\ call[l].envelope.id # 0
    BY <1>6, DrawnType DEF TrimStreamCommit, Publishing, TypeOK, Idle, Ids
  <2>3. \A c \in Consumers : Drafting(c)' =>
          Drafting(c) /\ draft'[c] = draft[c] /\ draft[c].id # 0
    BY <1>6, DrawnType DEF TrimStreamCommit, Drafting, Ids, loopVars
  <2>4. nextId' = nextId /\ 0 \in 0..MaxMsgs /\ 0 < nextId
    BY <1>6, BoundsAssumption DEF TrimStreamCommit, TypeOK
  <2> QED
    BY <2>1, <2>2, <2>3, <2>4, FreshnessCommit
<1>7. ASSUME NEW k \in Callers, DropCall(k)
      PROVE  Freshness'
  BY <1>7, FreshnessFrame, BlankIsNoEnvelope
  DEF DropCall, Publishing, Drafting, TypeOK, storeVars, loopVars, Idle
<1>8. ASSUME NEW c \in Consumers, SubscribeBegin(c)
      PROVE  Freshness'
  BY <1>8, FreshnessFrame, BlankIsNoEnvelope
  DEF SubscribeBegin, Publishing, Drafting, TypeOK, storeVars, loopVars, Idle
<1>9. ASSUME NEW c \in Consumers, NEW start \in Starts, SubscribeCommit(c, start)
      PROVE  Freshness'
  BY <1>9, FreshnessFrame, BlankIsNoEnvelope
  DEF SubscribeCommit, Publishing, Drafting, TypeOK, storeVars, loopVars, Idle
<1>10. ASSUME NEW c \in Consumers, Unsubscribe(c)
      PROVE  Freshness'
  BY <1>10, FreshnessFrame, BlankIsNoEnvelope
  DEF Unsubscribe, Publishing, Drafting, TypeOK, storeVars, loopVars, Idle
<1>11. ASSUME NEW c \in Consumers, Stop(c)
      PROVE  Freshness'
  BY <1>11, FreshnessFrame, BlankIsNoEnvelope
  DEF Stop, Publishing, Drafting, TypeOK, storeVars, loopVars, Idle
<1>12. ASSUME NEW c \in Consumers, Register(c)
      PROVE  Freshness'
  BY <1>12, FreshnessFrame, BlankIsNoEnvelope
  DEF Register, Publishing, Drafting, TypeOK, storeVars, loopVars, Idle
<1>13. ASSUME NEW c \in Consumers, Notified(c)
      PROVE  Freshness'
  BY <1>13, FreshnessFrame, BlankIsNoEnvelope
  DEF Notified, Publishing, Drafting, TypeOK, storeVars, loopVars, Idle
<1>14. ASSUME NEW c \in Consumers, Timeout(c)
      PROVE  Freshness'
  BY <1>14, FreshnessFrame, BlankIsNoEnvelope
  DEF Timeout, Publishing, Drafting, TypeOK, storeVars, loopVars, Idle
<1>15. ASSUME NEW c \in Consumers, NextMessage(c)
      PROVE  Freshness'
  BY <1>15, FreshnessFrame, BlankIsNoEnvelope
  DEF NextMessage, Publishing, Drafting, TypeOK, storeVars, loopVars, Idle
<1>16. ASSUME NEW c \in Consumers, EndBatch(c)
      PROVE  Freshness'
  BY <1>16, FreshnessFrame, BlankIsNoEnvelope
  DEF EndBatch, Publishing, Drafting, TypeOK, storeVars, loopVars, Idle
<1>17. ASSUME NEW c \in Consumers, CollectBegin(c)
      PROVE  Freshness'
  BY <1>17, FreshnessFrame, BlankIsNoEnvelope
  DEF CollectBegin, Publishing, Drafting, TypeOK, storeVars, loopVars, Idle
<1>18. ASSUME NEW c \in Consumers, CollectRedelivery(c)
      PROVE  Freshness'
  BY <1>18, FreshnessFrame, BlankIsNoEnvelope
  DEF CollectRedelivery, Publishing, Drafting, TypeOK, storeVars, loopVars, Idle
<1>19. ASSUME NEW c \in Consumers, CollectFresh(c)
      PROVE  Freshness'
  BY <1>19, FreshnessFrame, BlankIsNoEnvelope
  DEF CollectFresh, Publishing, Drafting, TypeOK, storeVars, loopVars, Idle
<1>20. ASSUME NEW c \in Consumers, CollectNext(c)
      PROVE  Freshness'
  BY <1>20, FreshnessFrame, BlankIsNoEnvelope
  DEF CollectNext, Publishing, Drafting, TypeOK, storeVars, loopVars, Idle
<1>21. ASSUME NEW c \in Consumers, CollectEnd(c)
      PROVE  Freshness'
  BY <1>21, FreshnessFrame, BlankIsNoEnvelope
  DEF CollectEnd, Publishing, Drafting, TypeOK, storeVars, loopVars, Idle
<1>22. ASSUME NEW c \in Consumers, Collected(c)
      PROVE  Freshness'
  BY <1>22, FreshnessFrame, BlankIsNoEnvelope
  DEF Collected, Publishing, Drafting, TypeOK, storeVars, loopVars, Idle
<1>23. ASSUME NEW c \in Consumers, NEW verdict \in {"ack", "nak", "dead_letter"},
             SettleBegin(c, verdict)
      PROVE  Freshness'
  <2>1. CASE verdict # "dead_letter"
    BY <1>23, <2>1, FreshnessFrame DEF SettleBegin, Publishing, Drafting, storeVars
  <2>2. CASE verdict = "dead_letter"
    <3>1. /\ draft'[c].id = nextId
          /\ \A d \in Consumers \ {c} : draft'[d] = draft[d]
          /\ nextId' = nextId + 1 /\ nextId <= MaxMsgs
          /\ idIndex' = idIndex /\ call' = call
      BY <1>23, <2>2 DEF SettleBegin, TypeOK, Envelope, storeVars
    <3>2. /\ nextId \in Ids /\ nextId \in Nat
          /\ \A s \in Subjects : idIndex[s][nextId] = 0
          /\ \A k \in Callers : Publishing(k) =>
               call[k].envelope.id \in Nat /\ call[k].envelope.id < nextId
          /\ \A d \in Consumers : Drafting(d) => draft[d].id \in Nat /\ draft[d].id < nextId
      BY <3>1, DrawnId
    <3>3. \A d \in Consumers \ {c} : Drafting(d)' <=> Drafting(d)
      BY <3>1 DEF Drafting
    <3>4. \A k \in Callers : Publishing(k)' <=> Publishing(k)
      BY <3>1 DEF Publishing
    <3>5. \A s \in Subjects, id \in Ids : id >= nextId' => idIndex'[s][id] = 0
      BY <3>1, <3>2 DEF Freshness, Ids
    <3>6. \A k \in Callers : Publishing(k)' => Unpublished(call[k].envelope.id)'
      BY <3>1, <3>2, <3>4 DEF Freshness, Unpublished
    <3>7. \A d \in Consumers : Drafting(d)' => Unpublished(draft[d].id)'
      <4> SUFFICES ASSUME NEW d \in Consumers, Drafting(d)'
                   PROVE  Unpublished(draft[d].id)'
        OBVIOUS
      <4>1. CASE d = c
        BY <3>1, <3>2, <4>1 DEF Unpublished
      <4>2. CASE d # c
        BY <3>1, <3>2, <3>3, <4>2 DEF Freshness, Unpublished
      <4> QED
        BY <4>1, <4>2
    <3>8. \A k, l \in Callers :
            Publishing(k)' /\ Publishing(l)' /\ k # l => call'[k].envelope.id #
              call'[l].envelope.id
      BY <3>1, <3>4 DEF Freshness
    <3>9. \A k \in Callers, d \in Consumers :
            Publishing(k)' /\ Drafting(d)' => call'[k].envelope.id # draft'[d].id
      BY <3>1, <3>2, <3>3, <3>4 DEF Freshness
    <3>10. \A b, d \in Consumers :
            Drafting(b)' /\ Drafting(d)' /\ b # d => draft'[b].id # draft'[d].id
      BY <3>1, <3>2, <3>3 DEF Freshness
    <3> QED
      BY <3>5, <3>6, <3>7, <3>8, <3>9, <3>10 DEF Freshness
  <2> QED
    BY <2>1, <2>2
<1>24. ASSUME NEW c \in Consumers, AckCommit(c)
      PROVE  Freshness'
  BY <1>24, FreshnessFrame, BlankIsNoEnvelope
  DEF AckCommit, Publishing, Drafting, TypeOK, storeVars, loopVars, Idle
<1>25. ASSUME NEW c \in Consumers, NakCommit(c)
      PROVE  Freshness'
  BY <1>25, FreshnessFrame, BlankIsNoEnvelope
  DEF NakCommit, Publishing, Drafting, TypeOK, storeVars, loopVars, Idle
<1>26. ASSUME NEW c \in Consumers, DeadLetterCommit(c)
      PROVE  Freshness'
  <2> DEFINE e == draft[c]
  <2>1. /\ Drafting(c) /\ DeadLetterOf[SubjectFor(c)] \in Subjects /\ e \in Envelopes
        /\ Unpublished(e.id) /\ AppendTo(DeadLetterOf[SubjectFor(c)], e)
    BY <1>26, DeadLetterEffect
  <2>2. \A t \in Subjects, id \in Ids \ {e.id} : idIndex'[t][id] = idIndex[t][id]
    BY <2>1, AppendFills
  <2>3. e.id \in 0..MaxMsgs /\ e.id < nextId /\ nextId' = nextId
    BY <1>26, <2>1, BoundsAssumption DEF DeadLetterCommit, Envelopes, Ids, Unpublished
  <2>4. \A k \in Callers : Publishing(k)' =>
          Publishing(k) /\ call'[k] = call[k] /\ call[k].envelope.id # e.id
    BY <1>26, <2>1 DEF DeadLetterCommit, Publishing, Freshness
  <2>5. \A d \in Consumers : Drafting(d)' =>
          Drafting(d) /\ draft'[d] = draft[d] /\ draft[d].id # e.id
    BY <1>26, <2>1, BlankIsNoEnvelope DEF DeadLetterCommit, Drafting, TypeOK, Freshness
  <2> HIDE DEF e
  <2> QED
    BY <2>2, <2>3, <2>4, <2>5, FreshnessCommit
<1>27. ASSUME NEW c \in Consumers, ReturnOk(c)
      PROVE  Freshness'
  BY <1>27, FreshnessFrame, BlankIsNoEnvelope
  DEF ReturnOk, Publishing, Drafting, TypeOK, storeVars, loopVars, Idle
<1>28. ASSUME NEW c \in Consumers, ReturnErr(c)
      PROVE  Freshness'
  BY <1>28, FreshnessFrame, BlankIsNoEnvelope
  DEF ReturnErr, Publishing, Drafting, TypeOK, storeVars, loopVars, Idle
<1>29. ASSUME NEW c \in Consumers, DropSettle(c)
      PROVE  Freshness'
  BY <1>29, FreshnessFrame, BlankIsNoEnvelope
  DEF DropSettle, Publishing, Drafting, TypeOK, storeVars, loopVars, Idle
<1>30. ASSUME NEW c \in Consumers, Panic(c)
      PROVE  Freshness'
  BY <1>30, FreshnessFrame, BlankIsNoEnvelope
  DEF Panic, Publishing, Drafting, TypeOK, storeVars, loopVars, Idle
<1>31. ASSUME Close
      PROVE  Freshness'
  BY <1>31, FreshnessFrame, BlankIsNoEnvelope
  DEF Close, Publishing, Drafting, TypeOK, storeVars, loopVars, Idle
<1>32. ASSUME Tick
      PROVE  Freshness'
  BY <1>32, FreshnessFrame, BlankIsNoEnvelope
  DEF Tick, Publishing, Drafting, TypeOK, storeVars, loopVars, Idle
<1>33. ASSUME UNCHANGED vars
      PROVE  Freshness'
  BY <1>33, FreshnessFrame, BlankIsNoEnvelope
  DEF vars, Publishing, Drafting, TypeOK, storeVars, loopVars, Idle
<1> QED
  BY <1>1, <1>2, <1>3, <1>4, <1>5, <1>6, <1>7, <1>8, <1>9, <1>10, <1>11, <1>12, <1>13,
    <1>14, <1>15, <1>16, <1>17, <1>18, <1>19, <1>20, <1>21, <1>22, <1>23, <1>24, <1>25,
    <1>26, <1>27, <1>28, <1>29, <1>30, <1>31, <1>32, <1>33
  DEF Next, ClientStep, CallStep, ConsumerStep, SubscriptionStep, LoopStep, LockStep,
      HandlerStep, FaultStep

-----------------------------------------------------------------------------
(* The invariant and its theorems. *)

\* The invariant holds initially.
LEMMA InvInit ==
  ASSUME Init
  PROVE  Inv
<1>1. TypeOK
  <2>1. now \in Nat /\ nextId \in 1..MaxMsgs+1
    BY BoundsAssumption DEF Init
  <2>2. /\ messages \in [Subjects -> Seq(Envelopes)]
        /\ redeliver \in [Groups -> Seq(Ids)]
        /\ batch \in [Consumers -> Seq(Envelopes)]
    BY DEF Init
  <2>3. idIndex \in [Subjects -> [Ids -> Nat]]
    BY DEF Init
  <2>4. /\ cursor \in [Groups -> Nat] /\ pending \in [Groups -> SUBSET Ids]
        /\ settled \in [Groups -> SUBSET Ids] /\ skipped \in [Groups -> SUBSET Ids]
        /\ stranded \in [Groups -> SUBSET Ids]
    BY DEF Init
  <2>5. /\ call \in [Callers -> Calls]
        /\ lock \in Consumers \cup {NoConsumer} /\ scan \in [next : Nat, last : Nat]
    BY DEF Init, Calls
  <2>6. /\ pc \in [Consumers -> PCs] /\ take \in [Consumers -> Nat]
        /\ msg \in [Consumers -> Envelopes \cup {Blank}]
        /\ draft \in [Consumers -> Envelopes \cup {Blank}]
    BY DEF Init, PCs
  <2>7. /\ acked \in [Consumers -> BOOLEAN] /\ cancelled \in [Consumers -> BOOLEAN]
        /\ active \in [Consumers -> BOOLEAN] /\ woken \in [Consumers -> BOOLEAN]
    BY DEF Init
  <2>8. closed \in BOOLEAN /\ streams \subseteq Subjects /\ groups \subseteq Groups
    BY DEF Init
  <2> QED
    BY <2>1, <2>2, <2>3, <2>4, <2>5, <2>6, <2>7, <2>8 DEF TypeOK
<1>2. IndexAgrees /\ Freshness
  BY BlankIsNoEnvelope, EmptySeq
  DEF Init, IndexAgrees, Freshness, Publishing, Drafting, Idle
<1>3. Mutex /\ ScanInRange /\ Equipped
  BY BlankIsNoEnvelope, TopologyAssumption
  DEF Init, Mutex, ScanInRange, Equipped, Locked, Settling
<1> QED
  BY <1>1, <1>2, <1>3 DEF Inv

\* Every step keeps the invariant.
LEMMA InvStep ==
  ASSUME Inv, [Next]_vars
  PROVE  Inv'
  BY TypeOKStep, IndexStep, MutexStep, ScanStep, EquippedStep, FreshnessStep DEF Inv

\* The strengthened invariant holds in every reachable state.
LEMMA Invariance == Spec => []Inv
  BY InvInit, InvStep, PTL DEF Spec

\* Every variable keeps its type: no interleaving of calls, loops and trims makes a
\* cursor negative, hands a handler a message that does not exist, or reads a stream
\* outside its bounds.
THEOREM TypeCorrect == Spec => []TypeOK
  BY Invariance, PTL DEF Inv

\* The id index of every stream agrees with its messages in every reachable state.
THEOREM IndexCorrect == Spec => []IndexAgrees
  BY Invariance, PTL DEF Inv
=============================================================================
