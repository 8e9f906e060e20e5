------------------------- MODULE RedisTransport_proofs -------------------------
(***************************************************************************)
(* Proofs about RedisTransport, for any number of loops, any options and    *)
(* any commands that may fail.                                              *)
(***************************************************************************)
EXTENDS RedisTransport, FiniteSetTheorems, WellFoundedInduction, TLAPS

(* The inductive invariant.  What the server and the history variables keep.  *)
ServerTypes ==
  /\ closed \in BOOLEAN /\ call \in [Clients -> Calls \cup {"none"}]
  /\ log \in Nat /\ log <= MaxEntries /\ trimmed \in Nat /\ trimmed <= log
  /\ groups \subseteq {"group", "_init"} /\ delivered \in Nat /\ origin \in Nat
  /\ pel \subseteq 1..log /\ overdue \subseteq pel
  /\ deliveries \in [Entries -> 0..MaxDeliveries] /\ copies \in [Entries -> Nat]
  /\ asked \subseteq 1..log /\ told \subseteq 1..log

\* Pending entries were passed; the group is ahead of the log only where it began.
Behind ==
  /\ \A e \in pel : e <= delivered
  /\ delivered > log => delivered = origin
  /\ ~GroupCreated => delivered = 0 /\ origin = 0

\* An entry is counted when it is handed out, and is overdue only if it may be counted
\* once more.
Counting ==
  /\ \A e \in overdue : deliveries[e] < MaxDeliveries
  /\ \A e \in Entries : e > delivered => deliveries[e] = 0

ServerOK == ServerTypes /\ Behind /\ Counting /\ NothingLost

(* What a loop keeps.                                                         *)
LoopTypes ==
  /\ pc \in [Consumers -> PCs] /\ back \in [Consumers -> {"read", "top"}]
  /\ batch \in [Consumers -> SUBSET Entries] /\ entry \in [Consumers -> Entries \cup {0}]
  /\ acked \in [Consumers -> BOOLEAN]
  /\ cancelled \in [Consumers -> BOOLEAN] /\ active \in [Consumers -> BOOLEAN]

\* A loop has entries the group has passed, in the places where TypeOK says so; an XACK
\* about to be sent is for an entry asked for or copied; no loop reads before the group
\* exists.
LoopOK(c) ==
  /\ \A e \in InHand(c) : e \in 1..log /\ e <= delivered
  /\ entry[c] # 0 <=> pc[c] \in Verdicts \cup {"handle"}
  /\ batch[c] # {} => pc[c] \in Verdicts \cup {"next", "handle"}
  /\ pc[c] = "stopped" => ~active[c]
  /\ pc[c] = "xack" => entry[c] \in asked
  /\ pc[c] = "bury" => copies[entry[c]] > 0
  /\ ~GroupCreated => pc[c] \in {"new", "create"} \cup Finished

Inv == ServerOK /\ LoopTypes /\ \A c \in Consumers : LoopOK(c)

-----------------------------------------------------------------------------
(* Sets of entries. *)

\* A set of naturals has a least element.
LEMMA LeastNatural ==
  ASSUME NEW P, P \subseteq Nat, P # {}
  PROVE  \E p \in P : \A r \in P : p <= r
<1>1. PICK p \in P : \A r \in P : ~(<<r, p>> \in OpToRel(<, Nat))
  BY NatLessThanWellFounded, WFMin
<1>2. \A r \in P : ~(r < p)
  BY <1>1 DEF OpToRel
<1> QED
  BY <1>2

\* The least and the greatest of a set of entries.
LEMMA Extremes ==
  ASSUME NEW n \in Nat, NEW S, S \subseteq 1..n, S # {}
  PROVE  /\ Least(S) \in S /\ \A f \in S : Least(S) <= f
         /\ Greatest(S) \in S /\ \A f \in S : f <= Greatest(S)
<1>1. \E e \in S : \A f \in S : e <= f
  <2>1. S \subseteq Nat
    OBVIOUS
  <2> QED
    BY <2>1, LeastNatural
<1>2. \E e \in S : \A f \in S : f <= e
  <2> DEFINE P == {n - e : e \in S}
  <2>1. P \subseteq Nat /\ P # {}
    <3>1. \A e \in S : n - e \in Nat
      OBVIOUS
    <3> QED
      BY <3>1
  <2>2. PICK p \in P : \A r \in P : p <= r
    <3> HIDE DEF P
    <3> QED
      BY <2>1, LeastNatural
  <2>3. PICK e \in S : p = n - e
    BY <2>2
  <2>4. ASSUME NEW f \in S
        PROVE  f <= e
    <3>1. n - e <= n - f
      BY <2>2, <2>3
    <3> QED
      BY <3>1
  <2> QED
    BY <2>4
<1> QED
  BY <1>1, <1>2 DEF Least, Greatest

\* The first n of a set of entries are n at most, and nothing is left out among them.
LEMMA FirstFacts ==
  ASSUME NEW n \in Nat, NEW m \in Nat, NEW S, S \subseteq 1..m
  PROVE  /\ First(n, S) \subseteq S /\ IsFiniteSet(S)
         /\ Cardinality(First(n, S)) \in Nat /\ Cardinality(First(n, S)) <= n
         /\ \A e \in S, g \in First(n, S) : e < g => e \in First(n, S)
<1> DEFINE F    == First(n, S)
           Below(e) == {f \in S : f < e}
<1>1. IsFiniteSet(S)
  <2>1. IsFiniteSet(1..m)
    BY FS_Interval
  <2> QED
    BY <2>1, FS_Subset
<1>2. F \subseteq S /\ F = {e \in S : Cardinality(Below(e)) < n}
  BY DEF First
<1> HIDE DEF F
<1>a. \A e \in S : e \in Nat
  OBVIOUS
<1>3. IsFiniteSet(F) /\ Cardinality(F) \in Nat
  BY <1>1, <1>2, FS_Subset, FS_CardinalityType
<1>4. \A e \in S : IsFiniteSet(Below(e)) /\ Cardinality(Below(e)) \in Nat
  <2> SUFFICES ASSUME NEW e \in S
               PROVE  IsFiniteSet(Below(e)) /\ Cardinality(Below(e)) \in Nat
    OBVIOUS
  <2>1. Below(e) \subseteq S
    OBVIOUS
  <2> QED
    BY <1>1, <2>1, FS_Subset, FS_CardinalityType
<1>5. ASSUME NEW e \in S, NEW g \in F, e < g
      PROVE  e \in F
  <2>1. Below(e) \subseteq Below(g)
    <3>1. ASSUME NEW f \in S, f < e
          PROVE  f < g
      BY <1>2, <1>5, <1>a, <3>1
    <3> QED
      BY <3>1
  <2>2. Cardinality(Below(e)) <= Cardinality(Below(g))
    BY <2>1, <1>2, <1>4, FS_Subset
  <2>3. /\ Cardinality(Below(g)) < n
        /\ Cardinality(Below(e)) \in Nat /\ Cardinality(Below(g)) \in Nat
    BY <1>2, <1>4, <1>5
  <2>4. Cardinality(Below(e)) < n
    <3> HIDE DEF Below
    <3> QED
      BY <2>2, <2>3
  <2> QED
    BY <2>4, <1>2
<1>6. Cardinality(F) <= n
  <2>1. CASE F = {}
    BY <2>1, FS_EmptySet
  <2>2. CASE F # {}
    <3> DEFINE g == Greatest(F)
    <3>1. g \in F /\ \A f \in F : f <= g
      BY <2>2, <1>2, Extremes
    <3> HIDE DEF g
    <3>2. Cardinality(F \ {g}) = Cardinality(F) - 1
      BY <3>1, <1>3, FS_RemoveElement
    <3>3. F \ {g} \subseteq Below(g)
      <4>1. ASSUME NEW f \in F, f # g
            PROVE  f \in S /\ f < g
        BY <3>1, <1>2, <1>a, <4>1
      <4> QED
        BY <4>1
    <3>4. Cardinality(F \ {g}) <= Cardinality(Below(g))
      BY <3>1, <3>3, <1>2, <1>4, FS_Subset
    <3>5. Cardinality(Below(g)) < n /\ Cardinality(Below(g)) \in Nat
      BY <3>1, <1>2, <1>4
    <3> HIDE DEF Below
    <3> QED
      BY <3>2, <3>4, <3>5, <1>3
  <2> QED
    BY <2>1, <2>2
<1> QED
  BY <1>1, <1>2, <1>3, <1>5, <1>6 DEF F

-----------------------------------------------------------------------------
(* The invariant. *)

\* The invariant gives every variable its type.
LEMMA InvTypes == Inv => TypeOK
  BY BoundsAssumption
     DEF Inv, ServerOK, ServerTypes, LoopTypes, LoopOK, TypeOK, InHand

\* The system starts with the invariant.
LEMMA InvInit == Init => Inv
<1> SUFFICES ASSUME Init
             PROVE  Inv
  OBVIOUS
<1>1. /\ MaxEntries \in Nat /\ MaxDeliveries \in Nat
      /\ log = 0 /\ 1..log = {}
  BY BoundsAssumption DEF Init
<1>2. ServerTypes
  <2>1. /\ deliveries \in [Entries -> 0..MaxDeliveries] /\ copies \in [Entries -> Nat]
        /\ call \in [Clients -> Calls \cup {"none"}]
    BY <1>1 DEF Init
  <2>2. /\ pel \subseteq 1..log /\ overdue \subseteq pel
        /\ asked \subseteq 1..log /\ told \subseteq 1..log
    BY DEF Init
  <2>3. closed \in BOOLEAN /\ groups \subseteq {"group", "_init"}
    BY DEF Init
  <2>4. /\ log \in Nat /\ log <= MaxEntries /\ trimmed \in Nat /\ trimmed <= log
        /\ delivered \in Nat /\ origin \in Nat
    BY <1>1 DEF Init
  <2> QED
    BY <2>1, <2>2, <2>3, <2>4 DEF ServerTypes
<1>3. Behind /\ Counting /\ NothingLost
  BY <1>1 DEF Init, Behind, Counting, NothingLost, GroupCreated
<1>4. LoopTypes
  BY DEF Init, LoopTypes, PCs
<1>5. ASSUME NEW c \in Consumers
      PROVE  LoopOK(c)
  BY DEF Init, LoopOK, InHand, Verdicts, Finished
<1> QED
  BY <1>2, <1>3, <1>4, <1>5 DEF Inv, ServerOK

\* Nothing of the server's, no step of the server.
LEMMA ServerFrame ==
  ASSUME ServerOK, UNCHANGED <<closed, call, serverVars, historyVars>>
  PROVE  ServerOK'
  BY DEF ServerOK, ServerTypes, Behind, Counting, NothingLost, GroupCreated,
         serverVars, historyVars

\* What the server may do does not harm a loop that takes no step.
Grows ==
  /\ log <= log' /\ log' \in Nat
  /\ delivered <= delivered' /\ delivered' \in Nat
  /\ asked \subseteq asked'
  /\ \A e \in Entries : copies[e] <= copies'[e] /\ copies'[e] \in Nat
  /\ groups \subseteq groups'

Still(c) ==
  /\ pc'[c] = pc[c] /\ batch'[c] = batch[c] /\ entry'[c] = entry[c]
  /\ active'[c] = active[c]

\* What a step needs to keep the invariant of the loops it does not touch.
LEMMA LoopFrame ==
  ASSUME ServerOK, LoopTypes, NEW c \in Consumers, LoopOK(c), Grows, Still(c)
  PROVE  LoopOK(c)'
<1>1. /\ log \in Nat /\ delivered \in Nat
      /\ \A e \in Entries : copies[e] \in Nat
      /\ entry[c] \in Entries \cup {0}
  BY DEF ServerOK, ServerTypes, LoopTypes
<1>2. InHand(c)' = InHand(c)
  BY DEF InHand, Still
<1>3. ASSUME NEW e \in InHand(c)
      PROVE  e \in 1..log' /\ e <= delivered'
  BY <1>1, <1>3 DEF LoopOK, Grows
<1>4. pc[c] = "bury" => copies'[entry[c]] > 0
  BY <1>1 DEF LoopOK, Grows, Verdicts
<1> QED
  BY <1>2, <1>3, <1>4 DEF LoopOK, Grows, Still, GroupCreated

\* A step of the server alone.
LEMMA ServerStep ==
  ASSUME Inv, UNCHANGED loopVars, Grows, ServerOK'
  PROVE  Inv'
<1>1. LoopTypes'
  BY DEF Inv, LoopTypes, loopVars
<1>2. \A c \in Consumers : LoopOK(c)'
  BY LoopFrame DEF Inv, Still, loopVars
<1> QED
  BY <1>1, <1>2 DEF Inv

\* A step of one loop, and maybe of the server.
LEMMA LoopStep ==
  ASSUME Inv, NEW c \in Consumers, Grows, ServerOK', LoopTypes', LoopOK(c)',
         \A d \in Consumers \ {c} : Still(d)
  PROVE  Inv'
  BY LoopFrame DEF Inv

\* The server has grown if it did nothing.
LEMMA Unmoved ==
  ASSUME ServerOK, UNCHANGED <<log, delivered, asked, copies, groups>>
  PROVE  Grows
  BY DEF ServerOK, ServerTypes, Grows

-----------------------------------------------------------------------------
(* The clients. *)

\* CallBegin keeps the invariant.
LEMMA CallBeginStep ==
  ASSUME Inv, NEW k \in Clients, NEW op \in Calls, CallBegin(k, op)
  PROVE  Inv'
<1>1. ServerOK'
  BY DEF Inv, ServerOK, ServerTypes, Behind, Counting, NothingLost, GroupCreated,
         CallBegin, serverVars, historyVars
<1>2. Grows
  BY Unmoved DEF Inv, CallBegin, serverVars, historyVars
<1> QED
  BY <1>1, <1>2, ServerStep DEF CallBegin

\* What ends a call.
LEMMA CallEnds ==
  ASSUME ServerTypes, NEW k \in Clients, NEW op \in Calls, CallEnd(k, op)
  PROVE  call' \in [Clients -> Calls \cup {"none"}]
  BY DEF ServerTypes, CallEnd

\* Publish keeps the invariant.
LEMMA PublishStep ==
  ASSUME Inv, NEW k \in Clients, Publish(k)
  PROVE  Inv'
<1> USE DEF CallEnd, historyVars
<1>1. PICK o : log' = IF Executed(o) THEN log + 1 ELSE log
  BY DEF Publish
<1>2. /\ log \in Nat /\ log' \in Nat /\ log <= log' /\ log' <= MaxEntries /\ log' <= log + 1
      /\ MaxEntries \in Nat
  BY <1>1, BoundsAssumption DEF Publish, Inv, ServerOK, ServerTypes
<1>3. ServerTypes'
  <2>1. call' \in [Clients -> Calls \cup {"none"}]
    BY CallEnds DEF Publish, Inv, ServerOK, Calls
  <2>2. 1..log \subseteq 1..log'
    BY <1>2
  <2> QED
    BY <1>2, <2>1, <2>2 DEF Publish, Inv, ServerOK, ServerTypes
<1>4. Behind' /\ Counting'
  BY <1>2 DEF Publish, Inv, ServerOK, ServerTypes, Behind, Counting, GroupCreated
<1>5. NothingLost'
  <2> SUFFICES ASSUME NEW e \in 1..log', origin < e, e <= delivered
               PROVE  e \in pel \cup asked \/ copies[e] > 0 \/ e <= trimmed
    BY DEF Publish, NothingLost
  <2>1. e \in 1..log
    BY <1>2 DEF Inv, ServerOK, ServerTypes, Behind
  <2> QED
    BY <2>1 DEF Inv, ServerOK, NothingLost
<1>6. Grows
  BY <1>2 DEF Publish, Inv, ServerOK, ServerTypes, Grows
<1> QED
  BY <1>3, <1>4, <1>5, <1>6, ServerStep DEF Publish, ServerOK

\* TrimStream keeps the invariant.
LEMMA TrimStreamStep ==
  ASSUME Inv, NEW k \in Clients, TrimStream(k)
  PROVE  Inv'
<1> USE DEF CallEnd, historyVars
<1>1. log \in Nat /\ trimmed \in Nat /\ trimmed' \in Nat /\ trimmed <= trimmed' /\ trimmed' <= log
  BY DEF TrimStream, Inv, ServerOK, ServerTypes
<1>2. ServerTypes'
  <2>1. call' \in [Clients -> Calls \cup {"none"}]
    BY CallEnds DEF TrimStream, Inv, ServerOK, Calls
  <2> QED
    BY <1>1, <2>1 DEF TrimStream, Inv, ServerOK, ServerTypes
<1>3. Behind' /\ Counting'
  BY DEF TrimStream, Inv, ServerOK, Behind, Counting, GroupCreated
<1>4. NothingLost'
  BY <1>1 DEF TrimStream, Inv, ServerOK, NothingLost
<1>5. Grows
  BY Unmoved DEF TrimStream, Inv
<1> QED
  BY <1>2, <1>3, <1>4, <1>5, ServerStep DEF TrimStream, ServerOK

\* EnsureStream keeps the invariant.
LEMMA EnsureStreamStep ==
  ASSUME Inv, NEW k \in Clients, EnsureStream(k)
  PROVE  Inv'
<1> USE DEF CallEnd, historyVars
<1>1. groups' = groups \/ groups' = groups \cup {"_init"}
  BY DEF EnsureStream
<1>2. ServerTypes'
  <2>1. call' \in [Clients -> Calls \cup {"none"}]
    BY CallEnds DEF EnsureStream, Inv, ServerOK, Calls
  <2> QED
    BY <1>1, <2>1 DEF EnsureStream, Inv, ServerOK, ServerTypes
<1>3. Behind' /\ Counting' /\ NothingLost'
  BY <1>1 DEF EnsureStream, Inv, ServerOK, Behind, Counting, NothingLost, GroupCreated
<1>4. Grows
  BY <1>1 DEF EnsureStream, Inv, ServerOK, ServerTypes, Grows
<1> QED
  BY <1>2, <1>3, <1>4, ServerStep DEF EnsureStream, ServerOK

\* Close keeps the invariant.
LEMMA CloseStep == ASSUME Inv, Close PROVE Inv'
<1>1. ServerOK'
  BY DEF Inv, ServerOK, ServerTypes, Behind, Counting, NothingLost, GroupCreated,
         Close, serverVars, historyVars
<1>2. Grows
  BY Unmoved DEF Inv, Close, serverVars, historyVars
<1> QED
  BY <1>1, <1>2, ServerStep DEF Close

\* AckTimeout keeps the invariant.
LEMMA AckTimeoutStep ==
  ASSUME Inv, NEW e \in Entries, AckTimeout(e)
  PROVE  Inv'
<1> USE DEF SameClients, historyVars
<1>1. ServerTypes'
  BY DEF AckTimeout, Inv, ServerOK, ServerTypes
<1>2. Behind' /\ Counting' /\ NothingLost'
  BY DEF AckTimeout, Inv, ServerOK, Behind, Counting, NothingLost, GroupCreated
<1>3. Grows
  BY Unmoved DEF AckTimeout, Inv
<1> QED
  BY <1>1, <1>2, <1>3, ServerStep DEF AckTimeout, ServerOK

-----------------------------------------------------------------------------
(* Steps of a loop that leave the server alone. *)

\* Such a step keeps the invariant if the loop is still in order after it.
LEMMA QuietStep ==
  ASSUME Inv, NEW c \in Consumers, SameClients, UNCHANGED <<serverVars, historyVars>>,
         LoopTypes', LoopOK(c)', \A d \in Consumers \ {c} : Still(d)
  PROVE  Inv'
<1>1. ServerOK'
  BY ServerFrame DEF Inv, SameClients
<1>2. Grows
  BY Unmoved DEF Inv, serverVars, historyVars
<1> QED
  BY <1>1, <1>2, LoopStep

\* Subscribe keeps the invariant.
LEMMA SubscribeStep ==
  ASSUME Inv, NEW c \in Consumers, Subscribe(c)
  PROVE  Inv'
<1> USE DEF SameBatch, Goto
<1>1. LoopTypes'
  BY DEF Subscribe, Inv, LoopTypes, PCs
<1>2. LoopOK(c)'
  BY DEF Subscribe, Inv, LoopTypes, LoopOK, InHand, Verdicts, Finished, GroupCreated,
         serverVars, historyVars
<1>3. \A d \in Consumers \ {c} : Still(d)
  BY DEF Subscribe, Inv, LoopTypes, Still
<1> QED
  BY <1>1, <1>2, <1>3, QuietStep DEF Subscribe

\* Unsubscribe keeps the invariant.
LEMMA UnsubscribeStep ==
  ASSUME Inv, NEW c \in Consumers, Unsubscribe(c)
  PROVE  Inv'
<1> USE DEF SameBatch
<1>1. LoopTypes'
  BY DEF Unsubscribe, Inv, LoopTypes
<1>2. LoopOK(c)'
  BY DEF Unsubscribe, Inv, LoopTypes, LoopOK, InHand, GroupCreated, serverVars, historyVars
<1>3. \A d \in Consumers \ {c} : Still(d)
  BY DEF Unsubscribe, Inv, LoopTypes, Still
<1> QED
  BY <1>1, <1>2, <1>3, QuietStep DEF Unsubscribe

\* A loop that has nothing in hand and goes on to where it needs nothing.
LEMMA EmptyHanded ==
  ASSUME Inv, NEW c \in Consumers, NEW at \in {"top", "reclaim", "read", "stopped"},
         pc[c] \in {"top", "reclaim"}, Goto(c, at), SameBatch, SameClients,
         at = "stopped" => ~active'[c],
         active' \in [Consumers -> BOOLEAN], cancelled' \in [Consumers -> BOOLEAN],
         \A d \in Consumers \ {c} : active'[d] = active[d],
         UNCHANGED <<serverVars, historyVars>>
  PROVE  Inv'
<1> USE DEF SameBatch, Goto
<1>1. LoopTypes'
  BY DEF Inv, LoopTypes, PCs, Finished
<1>2. LoopOK(c)'
  BY DEF Inv, LoopTypes, LoopOK, InHand, Verdicts, Finished, GroupCreated, serverVars,
         historyVars
<1>3. \A d \in Consumers \ {c} : Still(d)
  BY DEF Inv, LoopTypes, Still
<1> QED
  BY <1>1, <1>2, <1>3, QuietStep

\* Stop keeps the invariant.
LEMMA StopStep == ASSUME Inv, NEW c \in Consumers, Stop(c) PROVE Inv'
  BY EmptyHanded DEF Stop, Exit, Looks, Inv, LoopTypes

\* CheckPending keeps the invariant.
LEMMA CheckPendingStep == ASSUME Inv, NEW c \in Consumers, CheckPending(c) PROVE Inv'
  BY EmptyHanded DEF CheckPending, SameSubscription, Inv, LoopTypes

\* SkipReclaim keeps the invariant.
LEMMA SkipReclaimStep == ASSUME Inv, NEW c \in Consumers, SkipReclaim(c) PROVE Inv'
  BY EmptyHanded DEF SkipReclaim, SameSubscription, Inv, LoopTypes

\* NextEntry keeps the invariant.
LEMMA NextEntryStep ==
  ASSUME Inv, NEW c \in Consumers, NextEntry(c)
  PROVE  Inv'
<1> DEFINE e == Least(batch[c])
<1>1. batch[c] \subseteq 1..log /\ log \in Nat /\ log <= MaxEntries /\ MaxEntries \in Nat
  BY BoundsAssumption DEF Inv, ServerOK, ServerTypes, LoopOK, InHand
<1>2. e \in batch[c]
  BY <1>1, Extremes DEF NextEntry
<1>3. e \in Entries /\ e # 0 /\ e \in InHand(c)
  BY <1>1, <1>2 DEF Entries, InHand
<1> HIDE DEF e
<1>4. /\ entry' = [entry EXCEPT ![c] = e] /\ batch' = [batch EXCEPT ![c] = @ \ {e}]
      /\ pc' = [pc EXCEPT ![c] = "handle"] /\ pc[c] = "next"
      /\ UNCHANGED <<back, acked, cancelled, active>>
  BY DEF NextEntry, e, Goto, SameSubscription
<1>5. LoopTypes'
  BY <1>3, <1>4 DEF Inv, LoopTypes, PCs
<1>6. LoopOK(c)'
  <2>1. InHand(c)' \subseteq InHand(c)
    BY <1>2, <1>3, <1>4 DEF InHand, Inv, LoopTypes
  <2>2. entry'[c] # 0 /\ pc'[c] = "handle"
    BY <1>3, <1>4 DEF Inv, LoopTypes
  <2> QED
    BY <1>4, <2>1, <2>2
       DEF NextEntry, Inv, LoopOK, Verdicts, Finished, GroupCreated, serverVars, historyVars
<1>7. \A d \in Consumers \ {c} : Still(d)
  BY <1>4 DEF Inv, LoopTypes, Still
<1> QED
  BY <1>5, <1>6, <1>7, QuietStep DEF NextEntry

\* EndBatch keeps the invariant.
LEMMA EndBatchStep ==
  ASSUME Inv, NEW c \in Consumers, EndBatch(c)
  PROVE  Inv'
<1> USE DEF SameSubscription, Goto
<1>1. back[c] \in {"read", "top"}
  BY DEF Inv, LoopTypes
<1>2. LoopTypes'
  BY <1>1 DEF EndBatch, Inv, LoopTypes, PCs
<1>3. LoopOK(c)'
  BY <1>1 DEF EndBatch, Inv, LoopTypes, LoopOK, InHand, Verdicts, Finished, GroupCreated,
              serverVars, historyVars
<1>4. \A d \in Consumers \ {c} : Still(d)
  BY DEF EndBatch, Inv, LoopTypes, Still
<1> QED
  BY <1>2, <1>3, <1>4, QuietStep DEF EndBatch

\* HandlerReturns keeps the invariant.
LEMMA HandlerReturnsStep ==
  ASSUME Inv, NEW c \in Consumers, HandlerReturns(c)
  PROVE  Inv'
<1> USE DEF SameSubscription, Goto, DropMessage
<1>1. LoopTypes'
  BY DEF HandlerReturns, Inv, LoopTypes, PCs
<1>2. LoopOK(c)'
  BY DEF HandlerReturns, Inv, LoopTypes, LoopOK, InHand, Verdicts, Finished, GroupCreated,
         serverVars, historyVars
<1>3. \A d \in Consumers \ {c} : Still(d)
  BY DEF HandlerReturns, Inv, LoopTypes, Still
<1> QED
  BY <1>1, <1>2, <1>3, QuietStep DEF HandlerReturns

\* Die keeps the invariant.
LEMMA DieStep ==
  ASSUME Inv, NEW c \in Consumers, Die(c)
  PROVE  Inv'
<1> USE DEF SameSubscription, Goto, DropMessage
<1>1. LoopTypes'
  BY DEF Die, Inv, LoopTypes, PCs, Finished
<1>2. LoopOK(c)'
  BY DEF Die, Inv, LoopTypes, LoopOK, InHand, Verdicts, Finished, GroupCreated,
         serverVars, historyVars
<1>3. \A d \in Consumers \ {c} : Still(d)
  BY DEF Die, Inv, LoopTypes, Still
<1> QED
  BY <1>1, <1>2, <1>3, QuietStep DEF Die

-----------------------------------------------------------------------------
(* Verdicts. *)

\* A handler's call that moves the loop to where an entry is in hand.
LEMMA Settles ==
  ASSUME Inv, NEW c \in Consumers, NEW verb, NEW at \in Verdicts \cup {"handle"},
         Settle(c, verb, at), acked' \in [Consumers -> BOOLEAN],
         asked \subseteq asked', asked' \subseteq asked \cup {entry[c]},
         told \subseteq told', told' \subseteq told \cup {entry[c]},
         at = "xack" => entry[c] \in asked', at # "bury"
  PROVE  Inv'
<1> USE DEF SameSubscription, SameClients, Goto
<1>1. entry[c] \in 1..log
  BY DEF Settle, Inv, LoopOK, InHand
<1>2. ServerTypes'
  BY <1>1 DEF Settle, serverVars, Inv, ServerOK, ServerTypes
<1>3. Behind' /\ Counting' /\ NothingLost'
  BY DEF Settle, serverVars, Inv, ServerOK, Behind, Counting, NothingLost, GroupCreated
<1>4. Grows
  BY DEF Settle, serverVars, Inv, ServerOK, ServerTypes, Grows
<1>5. LoopTypes'
  BY DEF Settle, Inv, LoopTypes, PCs
<1>6. LoopOK(c)'
  BY DEF Settle, serverVars, Inv, LoopTypes, LoopOK, InHand, Verdicts, Finished, GroupCreated
<1>7. \A d \in Consumers \ {c} : Still(d)
  BY DEF Settle, Inv, LoopTypes, Still
<1> QED
  BY <1>2, <1>3, <1>4, <1>5, <1>6, <1>7, LoopStep DEF ServerOK

\* Ack keeps the invariant.
LEMMA AckStep == ASSUME Inv, NEW c \in Consumers, Ack(c) PROVE Inv'
  BY Settles DEF Ack, SetAcked, Verdicts, Inv, LoopTypes

\* AckAgain keeps the invariant.
LEMMA AckAgainStep == ASSUME Inv, NEW c \in Consumers, AckAgain(c) PROVE Inv'
  BY Settles DEF AckAgain, Inv, LoopTypes

\* Nak keeps the invariant.
LEMMA NakStep == ASSUME Inv, NEW c \in Consumers, Nak(c) PROVE Inv'
  BY Settles DEF Nak, SetAcked, Inv, LoopTypes

\* DeadLetter keeps the invariant.
LEMMA DeadLetterStep == ASSUME Inv, NEW c \in Consumers, DeadLetter(c) PROVE Inv'
  BY Settles DEF DeadLetter, SetAcked, Verdicts, Inv, LoopTypes

\* CopyEntry keeps the invariant.
LEMMA CopyEntryStep ==
  ASSUME Inv, NEW c \in Consumers, CopyEntry(c)
  PROVE  Inv'
<1> USE DEF SameBatch, SameSubscription, SameClients, Goto, historyVars
<1>1. PICK o \in Outcomes("XADD") :
        /\ copies' = IF Executed(o) THEN [copies EXCEPT ![entry[c]] = @ + 1] ELSE copies
        /\ pc' = [pc EXCEPT ![c] = AfterCopy(o)]
  BY DEF CopyEntry
<1>2. /\ entry[c] \in Entries /\ entry[c] # 0
      /\ AfterCopy(o) \in {"bury", "handle"}
      /\ AfterCopy(o) = "bury" => Executed(o)
  BY DEF CopyEntry, Inv, LoopTypes, LoopOK, Verdicts, AfterCopy, Executed
<1>3. /\ copies' \in [Entries -> Nat] /\ \A e \in Entries : copies[e] <= copies'[e]
      /\ Executed(o) => copies'[entry[c]] > 0
  BY <1>1, <1>2 DEF Inv, ServerOK, ServerTypes
<1>4. ServerTypes' /\ Behind' /\ Counting'
  BY <1>3 DEF CopyEntry, Inv, ServerOK, ServerTypes, Behind, Counting, GroupCreated
<1>5. NothingLost'
  <2> SUFFICES ASSUME NEW e \in 1..log, origin < e, e <= delivered
               PROVE  e \in pel \cup asked \/ copies'[e] > 0 \/ e <= trimmed
    BY DEF CopyEntry, NothingLost
  <2>1. e \in Entries /\ copies[e] \in Nat /\ copies'[e] \in Nat /\ copies[e] <= copies'[e]
    BY <1>3, BoundsAssumption DEF Inv, ServerOK, ServerTypes, Entries
  <2> QED
    BY <2>1 DEF Inv, ServerOK, NothingLost
<1>6. Grows
  BY <1>3 DEF CopyEntry, Inv, ServerOK, ServerTypes, Grows
<1>7. LoopTypes'
  BY <1>1, <1>2 DEF CopyEntry, Inv, LoopTypes, PCs, Verdicts
<1>8. LoopOK(c)'
  <2>1. /\ pc'[c] = AfterCopy(o) /\ pc[c] = "copy"
        /\ pc'[c] = "bury" => copies'[entry[c]] > 0
    BY <1>1, <1>2, <1>3 DEF CopyEntry, Inv, LoopTypes
  <2> QED
    BY <1>2, <2>1 DEF CopyEntry, Inv, LoopOK, InHand, Verdicts, Finished, GroupCreated
<1>9. \A d \in Consumers \ {c} : Still(d)
  BY <1>1 DEF CopyEntry, Inv, LoopTypes, Still
<1> QED
  BY <1>4, <1>5, <1>6, <1>7, <1>8, <1>9, LoopStep DEF ServerOK

\* Acknowledge keeps the invariant.
LEMMA AcknowledgeStep ==
  ASSUME Inv, NEW c \in Consumers, Acknowledge(c)
  PROVE  Inv'
<1> USE DEF SameBatch, SameSubscription, SameClients, Goto
<1>1. /\ entry[c] \in 1..log
      /\ entry[c] \in asked \/ copies[entry[c]] > 0
  BY DEF Acknowledge, Inv, LoopOK, InHand, Verdicts
<1>2. /\ \/ pel' = pel \ {entry[c]} /\ overdue' = overdue \ {entry[c]}
         \/ pel' = pel /\ overdue' = overdue
      /\ told' = told \/ told' = told \cup {entry[c]}
      /\ UNCHANGED <<closed, call, log, trimmed, groups, delivered, deliveries, copies, origin,
                     asked>>
  BY DEF Acknowledge
<1>3. ServerTypes'
  BY <1>1, <1>2 DEF Inv, ServerOK, ServerTypes
<1>4. Behind' /\ Counting'
  BY <1>2 DEF Inv, ServerOK, Behind, Counting, GroupCreated
<1>5. NothingLost'
  BY <1>1, <1>2 DEF Inv, ServerOK, NothingLost
<1>6. Grows
  BY <1>2, Unmoved DEF Inv
<1>7. LoopTypes'
  BY DEF Acknowledge, Inv, LoopTypes, PCs
<1>8. LoopOK(c)'
  BY <1>2 DEF Acknowledge, Inv, LoopTypes, LoopOK, InHand, Verdicts, Finished, GroupCreated
<1>9. \A d \in Consumers \ {c} : Still(d)
  BY DEF Acknowledge, Inv, LoopTypes, Still
<1> QED
  BY <1>3, <1>4, <1>5, <1>6, <1>7, <1>8, <1>9, LoopStep DEF ServerOK

-----------------------------------------------------------------------------
(* The commands of the loop. *)

\* CreateGroup keeps the invariant.
LEMMA CreateGroupStep ==
  ASSUME Inv, NEW c \in Consumers, CreateGroup(c)
  PROVE  Inv'
<1> USE DEF SameBatch, SameClients
<1>1. PICK o \in Outcomes("XGROUP") :
        /\ IF Executed(o) /\ ~GroupCreated
           THEN /\ groups' = groups \cup {"group"}
                /\ delivered' = StartId(c) /\ origin' = StartId(c)
           ELSE UNCHANGED <<groups, delivered, origin>>
        /\ IF o = "ok" THEN Goto(c, "top") /\ SameSubscription ELSE GiveUp(c)
  BY DEF CreateGroup
<1>2. /\ log \in Nat /\ delivered \in Nat /\ StartId(c) \in Nat
      /\ ~GroupCreated => delivered = 0 /\ pel = {} /\ overdue = {}
  BY OptionsAssumption DEF Inv, ServerOK, ServerTypes, Behind, StartId
<1>3. /\ delivered' \in Nat /\ origin' \in Nat /\ delivered <= delivered'
      /\ groups \subseteq groups' /\ groups' \subseteq {"group", "_init"}
      /\ \/ UNCHANGED <<delivered, origin>>
         \/ ~GroupCreated /\ delivered' = origin'
  <2>1. origin \in Nat /\ groups \subseteq {"group", "_init"}
    BY DEF Inv, ServerOK, ServerTypes
  <2>2. CASE Executed(o) /\ ~GroupCreated
    <3>1. groups' = groups \cup {"group"} /\ delivered' = StartId(c) /\ origin' = StartId(c)
      BY <1>1, <2>2
    <3>2. delivered = 0
      BY <1>2, <2>2
    <3> QED
      BY <1>2, <2>1, <2>2, <3>1, <3>2
  <2>3. CASE ~(Executed(o) /\ ~GroupCreated)
    <3>1. UNCHANGED <<groups, delivered, origin>>
      BY <1>1, <2>3
    <3> QED
      BY <1>2, <2>1, <3>1
  <2> QED
    BY <2>2, <2>3
<1>4. ServerTypes'
  BY <1>3 DEF CreateGroup, Inv, ServerOK, ServerTypes
<1>5. GroupCreated' <=> GroupCreated \/ Executed(o)
  BY <1>1 DEF GroupCreated
<1>6. Behind'
  BY <1>1, <1>2, <1>3, <1>5 DEF CreateGroup, Inv, ServerOK, Behind
<1>7. Counting'
  BY <1>2, <1>3, BoundsAssumption DEF CreateGroup, Inv, ServerOK, Counting, Entries
<1>8. NothingLost'
  BY <1>2, <1>3 DEF CreateGroup, Inv, ServerOK, NothingLost
<1>9. Grows
  BY <1>2, <1>3 DEF CreateGroup, Inv, ServerOK, ServerTypes, Grows
<1>10. LoopTypes'
  BY <1>1 DEF CreateGroup, Inv, LoopTypes, PCs, Finished, Goto, GiveUp, Exit, SameSubscription
<1>11. LoopOK(c)'
  <2>1. batch[c] = {} /\ entry[c] = 0 /\ batch' = batch /\ entry' = entry /\ ~(0 # entry'[c])
    BY DEF CreateGroup, Inv, LoopOK, Verdicts
  <2>2. o = "ok" => Executed(o)
    BY DEF Executed
  <2>3. \/ pc'[c] = "top" /\ Executed(o)
        \/ pc'[c] = "stopped" /\ ~active'[c]
    <3>1. CASE o = "ok"
      BY <1>1, <2>2, <3>1 DEF Inv, LoopTypes, Goto
    <3>2. CASE o # "ok"
      BY <1>1, <3>2 DEF Inv, LoopTypes, Goto, GiveUp, Exit
    <3> QED
      BY <3>1, <3>2
  <2> QED
    BY <1>5, <2>1, <2>3 DEF LoopOK, InHand, Verdicts, Finished
<1>12. \A d \in Consumers \ {c} : Still(d)
  BY <1>1 DEF CreateGroup, Inv, LoopTypes, Still, Goto, GiveUp, Exit, SameSubscription
<1> QED
  BY <1>4, <1>6, <1>7, <1>8, <1>9, <1>10, <1>11, <1>12, LoopStep DEF ServerOK

\* A loop with a batch it was sent is in order if the group has passed it.
LEMMA HandedOver ==
  ASSUME Inv, NEW c \in Consumers, NEW S \in SUBSET Entries, NEW then \in {"read", "top"},
         Handed(c, S, then), pc[c] \in {"reclaim", "read"}, delivered' \in Nat,
         delivered <= delivered', ServerOK', \A e \in S : e <= log /\ e <= delivered'
  PROVE  Inv'
<1> USE DEF Handed, Goto, SameSubscription
<1>1. log \in Nat /\ MaxEntries \in Nat
  BY BoundsAssumption DEF Inv, ServerOK, ServerTypes
<1>2. Grows
  BY <1>1 DEF historyVars, Inv, ServerOK, ServerTypes, Grows
<1>3. LoopTypes'
  BY DEF Inv, LoopTypes, PCs
<1>4. LoopOK(c)'
  <2>1. entry[c] = 0 /\ entry' = entry /\ batch'[c] = S /\ pc'[c] = "next"
    BY DEF Inv, LoopTypes, LoopOK, Verdicts
  <2>2. InHand(c)' = S
    BY <2>1 DEF InHand
  <2>3. \A e \in S : e \in 1..log' /\ e <= delivered'
    BY <1>1 DEF Entries
  <2>4. GroupCreated'
    BY DEF Inv, LoopOK, Finished, GroupCreated
  <2> QED
    BY <2>1, <2>2, <2>3, <2>4 DEF LoopOK, Verdicts
<1>5. \A d \in Consumers \ {c} : Still(d)
  BY DEF Inv, LoopTypes, Still
<1> QED
  BY <1>2, <1>3, <1>4, <1>5, LoopStep

\* Reclaim keeps the invariant.
LEMMA ReclaimStep ==
  ASSUME Inv, NEW c \in Consumers, Reclaim(c)
  PROVE  Inv'
<1> DEFINE found(o) == IF Executed(o) THEN First(BatchSize[c], Claimable) ELSE {}
<1>1. PICK o \in Outcomes("XAUTOCLAIM") :
        /\ pel' = pel \ (found(o) \cap Gone)
        /\ overdue' = overdue \ found(o)
        /\ deliveries' = Counted(found(o) \ Gone)
        /\ Handed(c, IF o = "ok" THEN found(o) \ Gone ELSE {}, "read")
  BY DEF Reclaim
<1> DEFINE F == found(o)
           S == IF o = "ok" THEN F \ Gone ELSE {}
<1>2. /\ F \subseteq overdue \cup Gone /\ F \subseteq pel
      /\ Gone = {e \in pel : e <= trimmed}
  BY DEF Inv, ServerOK, ServerTypes, First, Claimable, Gone
<1> HIDE DEF found
<1>3. /\ delivered' = delivered /\ log' = log /\ pc[c] = "reclaim"
      /\ UNCHANGED <<closed, call, trimmed, groups, copies, origin, asked, told>>
  BY <1>1 DEF Reclaim, Handed, SameClients, historyVars
<1>4. \A e \in pel : e \in 1..log /\ e \in Entries /\ e <= delivered
  BY BoundsAssumption DEF Inv, ServerOK, ServerTypes, Behind, Entries
<1>5. /\ \A e \in F \ Gone : deliveries[e] + 1 \in 0..MaxDeliveries
      /\ \A e \in Entries : deliveries'[e] = IF e \in F \ Gone THEN deliveries[e] + 1
                                                              ELSE deliveries[e]
      /\ deliveries' \in [Entries -> 0..MaxDeliveries]
  <2>1. \A e \in F \ Gone : deliveries[e] + 1 \in 0..MaxDeliveries
    <3> SUFFICES ASSUME NEW e \in F \ Gone
                 PROVE  deliveries[e] + 1 \in 0..MaxDeliveries
      OBVIOUS
    <3>1. deliveries[e] \in 0..MaxDeliveries /\ deliveries[e] < MaxDeliveries
      BY <1>2, <1>4 DEF Inv, ServerOK, ServerTypes, Counting
    <3> QED
      BY <3>1, BoundsAssumption
  <2> QED
    BY <1>1, <2>1 DEF Counted, Inv, ServerOK, ServerTypes
<1>6. ServerTypes'
  BY <1>1, <1>2, <1>3, <1>5 DEF Inv, ServerOK, ServerTypes
<1>7. Behind'
  BY <1>1, <1>3 DEF Inv, ServerOK, Behind, GroupCreated
<1>8. Counting'
  <2>1. ASSUME NEW e \in overdue'
        PROVE  deliveries'[e] < MaxDeliveries
    BY <1>1, <1>4, <1>5, <2>1 DEF Inv, ServerOK, ServerTypes, Counting
  <2>2. ASSUME NEW e \in Entries, e > delivered
        PROVE  deliveries'[e] = 0
    <3>1. e \notin pel
      BY <1>4, <2>2 DEF Inv, ServerOK, ServerTypes, Entries
    <3> QED
      BY <1>2, <1>5, <2>2, <3>1 DEF Inv, ServerOK, Counting
  <2> QED
    BY <1>3, <2>1, <2>2 DEF Counting
<1>9. NothingLost'
  BY <1>1, <1>2, <1>3 DEF Inv, ServerOK, NothingLost
<1>10. S \in SUBSET Entries /\ \A e \in S : e <= log /\ e <= delivered'
  BY <1>2, <1>3, <1>4
<1> HIDE DEF S, F
<1>11. Handed(c, S, "read")
  BY <1>1 DEF S, F
<1>12. delivered \in Nat
  BY DEF Inv, ServerOK, ServerTypes
<1> QED
  BY <1>3, <1>6, <1>7, <1>8, <1>9, <1>10, <1>11, <1>12, HandedOver DEF ServerOK

\* ReadGroup keeps the invariant.
LEMMA ReadGroupStep ==
  ASSUME Inv, NEW c \in Consumers, ReadGroup(c)
  PROVE  Inv'
<1> DEFINE found(o) == IF Executed(o) THEN First(BatchSize[c], Unread) ELSE {}
<1>1. PICK o \in Outcomes("XREADGROUP") :
        /\ delivered' = IF found(o) = {} THEN delivered ELSE Greatest(found(o))
        /\ pel' = pel \cup found(o)
        /\ deliveries' = Counted(found(o))
        /\ Handed(c, IF o = "ok" THEN found(o) ELSE {}, "top")
  BY DEF ReadGroup
<1> DEFINE F == found(o)
           S == IF o = "ok" THEN F ELSE {}
<1>2. /\ UNCHANGED <<closed, call, log, trimmed, groups, copies, origin, asked, told, overdue>>
      /\ pc[c] = "read"
  BY <1>1 DEF ReadGroup, Handed, SameClients, historyVars
<1>3. /\ log \in Nat /\ delivered \in Nat /\ MaxEntries \in Nat /\ BatchSize[c] \in Nat
      /\ log <= MaxEntries /\ trimmed \in Nat /\ MaxDeliveries \in Nat \ {0}
  BY OptionsAssumption, BoundsAssumption DEF Inv, ServerOK, ServerTypes
<1>4. Unread \subseteq 1..log /\ \A e \in Unread : e > delivered /\ e \in Entries
  BY <1>3 DEF Unread, Entries
<1>5. /\ F \subseteq Unread
      /\ F # {} => \A e \in Unread, g \in F : e < g => e \in F
  BY <1>3, <1>4, FirstFacts
<1> HIDE DEF found
<1>6. F # {} => Greatest(F) \in F /\ \A f \in F : f <= Greatest(F)
  BY <1>3, <1>4, <1>5, Extremes
<1>7. /\ delivered' \in Nat /\ delivered <= delivered'
      /\ delivered' # delivered => delivered' <= log
      /\ \A e \in F : e <= delivered'
      /\ delivered' # delivered => delivered' \in F
  BY <1>1, <1>3, <1>4, <1>5, <1>6
<1> HIDE DEF F
<1>8. /\ pel' = pel \cup F
      /\ deliveries' = Counted(F)
  BY <1>1 DEF F
<1>9. /\ \A e \in F : deliveries[e] = 0
      /\ \A e \in Entries : deliveries'[e] = IF e \in F THEN deliveries[e] + 1 ELSE deliveries[e]
      /\ deliveries' \in [Entries -> 0..MaxDeliveries]
  <2>1. \A e \in F : deliveries[e] = 0
    BY <1>4, <1>5 DEF Inv, ServerOK, Counting
  <2> QED
    BY <1>3, <1>8, <2>1 DEF Counted, Inv, ServerOK, ServerTypes
<1>10. ServerTypes'
  <2>1. pel' \subseteq 1..log /\ overdue \subseteq pel'
    BY <1>4, <1>5, <1>8 DEF Inv, ServerOK, ServerTypes
  <2> QED
    BY <1>2, <1>7, <1>9, <2>1 DEF Inv, ServerOK, ServerTypes
<1>11. Behind'
  <2>1. GroupCreated
    BY <1>2 DEF Inv, LoopOK, Finished
  <2>2. \A e \in pel' : e <= delivered'
    <3>1. ASSUME NEW e \in pel
          PROVE  e <= delivered'
      BY <1>3, <1>7 DEF Inv, ServerOK, ServerTypes, Behind
    <3> QED
      BY <1>7, <1>8, <3>1
  <2>3. delivered' > log' => delivered' = origin'
    BY <1>2, <1>3, <1>7 DEF Inv, ServerOK, Behind
  <2> QED
    BY <1>2, <2>1, <2>2, <2>3 DEF Behind, GroupCreated
<1>12. Counting'
  <2>1. ASSUME NEW e \in overdue
        PROVE  deliveries'[e] < MaxDeliveries
    <3>1. e \in Entries /\ e <= delivered /\ e \in Nat /\ e \in pel
      BY <1>3 DEF Inv, ServerOK, ServerTypes, Behind, Entries
    <3>2. e \notin F
      BY <1>3, <1>4, <1>5, <3>1
    <3> QED
      BY <1>9, <3>1, <3>2 DEF Inv, ServerOK, Counting
  <2>2. ASSUME NEW e \in Entries, e > delivered'
        PROVE  deliveries'[e] = 0
    <3>1. e > delivered /\ e \notin F
      BY <1>3, <1>7, <2>2 DEF Entries
    <3> QED
      BY <1>9, <3>1 DEF Inv, ServerOK, Counting
  <2> QED
    BY <1>2, <2>1, <2>2 DEF Counting
<1>13. NothingLost'
  <2> SUFFICES ASSUME NEW e \in 1..log, origin < e, e <= delivered'
               PROVE  e \in pel' \cup asked \/ copies[e] > 0 \/ e <= trimmed
    BY <1>2 DEF NothingLost
  <2>1. CASE e <= delivered
    BY <1>8, <2>1 DEF Inv, ServerOK, NothingLost
  <2>2. CASE e > delivered /\ e > trimmed
    <3>1. e \in Unread
      BY <1>3, <2>2 DEF Unread, Entries
    <3>2. delivered' \in F
      BY <1>3, <1>7, <2>2
    <3>3. e \in F
      BY <1>3, <1>5, <1>7, <3>1, <3>2
    <3> QED
      BY <1>8, <3>3
  <2> QED
    BY <1>3, <2>1, <2>2
<1>14. S \in SUBSET Entries /\ \A e \in S : e <= log /\ e <= delivered'
  BY <1>3, <1>4, <1>5, <1>7
<1> HIDE DEF S
<1>15. Handed(c, S, "top")
  BY <1>1 DEF S, F
<1> QED
  BY <1>2, <1>7, <1>10, <1>11, <1>12, <1>13, <1>14, <1>15, HandedOver DEF ServerOK

-----------------------------------------------------------------------------
(* The theorems. *)

\* No step leads out of the invariant.
LEMMA InvNext == Inv /\ [Next]_vars => Inv'
<1> SUFFICES ASSUME Inv, [Next]_vars
             PROVE  Inv'
  OBVIOUS
<1>1. ASSUME NEW k \in Clients, NEW op \in Calls, CallBegin(k, op)
      PROVE  Inv'
  BY <1>1, CallBeginStep
<1>2. ASSUME NEW k \in Clients, Publish(k) \/ TrimStream(k) \/ EnsureStream(k)
      PROVE  Inv'
  BY <1>2, PublishStep, TrimStreamStep, EnsureStreamStep
<1>3. ASSUME NEW c \in Consumers, Subscribe(c) \/ Unsubscribe(c) \/ Die(c)
      PROVE  Inv'
  BY <1>3, SubscribeStep, UnsubscribeStep, DieStep
<1>4. ASSUME NEW c \in Consumers, Work(c)
      PROVE  Inv'
  BY <1>4, CreateGroupStep, StopStep, CheckPendingStep, SkipReclaimStep, ReclaimStep,
     ReadGroupStep, NextEntryStep, EndBatchStep, CopyEntryStep, AcknowledgeStep,
     HandlerReturnsStep
     DEF Work
<1>5. ASSUME NEW c \in Consumers, Ack(c) \/ AckAgain(c) \/ Nak(c) \/ DeadLetter(c)
      PROVE  Inv'
  BY <1>5, AckStep, AckAgainStep, NakStep, DeadLetterStep
<1>6. ASSUME NEW e \in Entries, AckTimeout(e)
      PROVE  Inv'
  BY <1>6, AckTimeoutStep
<1>7. CASE UNCHANGED vars
  <2>1. UNCHANGED loopVars /\ Grows /\ ServerOK'
    BY <1>7, ServerFrame, Unmoved DEF vars, Inv, serverVars, historyVars
  <2> QED
    BY <2>1, ServerStep
<1> QED
  BY <1>1, <1>2, <1>3, <1>4, <1>5, <1>6, <1>7, CloseStep DEF Next

\* The invariant holds in every reachable state.
LEMMA InvHolds == Spec => []Inv
  BY InvInit, InvNext, PTL DEF Spec

\* Type correctness: whatever fails, a handler has an entry the group has passed, a
\* pending entry is in the log, and a loop that ended in order is not active.
THEOREM TypeCorrect == Spec => []TypeOK
  BY InvHolds, InvTypes, PTL

\* At least once: no failed command, lost reply, crash, reclaim or trim makes the group
\* lose an entry it has passed, unless a handler set out to acknowledge it or it is in
\* the dead-letter stream.
THEOREM NoneLost == Spec => []NothingLost
<1>1. Inv => NothingLost
  BY DEF Inv, ServerOK
<1> QED
  BY <1>1, InvHolds, PTL

-----------------------------------------------------------------------------
(* Backpressure. *)

(* The loops that may not read on the strength of a count they made.          *)
Unarmed ==
  {c \in Consumers : pc[c] \notin {"reclaim", "read"} /\ back[c] # "read"}

(* A batch is kept in reserve for each loop that looked and has yet to read.   *)
Room == Cardinality(pel) <= MostInflight - 1 + LargestBatch * Cardinality(Unarmed)

\* More loops that may read, more entries they may read.
LEMMA MoreBatches ==
  ASSUME NEW l \in Nat, NEW a \in Nat, NEW b \in Nat, a <= b
  PROVE  l * a <= l * b /\ l * a \in Nat /\ l * b \in Nat
<1>1. PICK d \in Nat : b = a + d
  <2>1. b - a \in Nat /\ b = a + (b - a)
    OBVIOUS
  <2> QED
    BY <2>1
<1>2. l * d \in Nat /\ l * a \in Nat
  OBVIOUS
<1>3. l * b = l * a + l * d
  BY <1>1
<1> QED
  BY <1>2, <1>3

\* Sets of entries and sets of loops are finite.
LEMMA EntriesFinite ==
  ASSUME NEW n \in Nat, NEW P, P \subseteq 1..n
  PROVE  IsFiniteSet(P) /\ Cardinality(P) \in Nat
<1>1. IsFiniteSet(1..n)
  BY FS_Interval
<1> QED
  BY <1>1, FS_Subset, FS_CardinalityType

\* The sets of loops the bound counts are finite.
LEMMA LoopsFinite ==
  ASSUME NEW P, P \subseteq Consumers
  PROVE  IsFiniteSet(P) /\ Cardinality(P) \in Nat /\ Cardinality(P) <= Cardinality(Consumers)
  BY BoundsAssumption, FS_Subset, FS_CardinalityType

\* Before and after a step pending entries and loops can be counted.
LEMMA Countable ==
  ASSUME Inv, Inv'
  PROVE  /\ IsFiniteSet(pel) /\ Cardinality(pel) \in Nat
         /\ IsFiniteSet(pel') /\ Cardinality(pel') \in Nat
         /\ IsFiniteSet(Unarmed) /\ Cardinality(Unarmed) \in Nat
         /\ IsFiniteSet(Unarmed') /\ Cardinality(Unarmed') \in Nat
<1>1. log \in Nat /\ log' \in Nat /\ pel \subseteq 1..log /\ pel' \subseteq 1..log'
  BY DEF Inv, ServerOK, ServerTypes
<1>2. Unarmed \subseteq Consumers /\ Unarmed' \subseteq Consumers
  BY DEF Unarmed
<1> QED
  BY <1>1, <1>2, EntriesFinite, LoopsFinite

\* Fewer pending entries, or fewer loops that may read, leave room.
LEMMA RoomKept ==
  ASSUME Inv, Inv', Room, pel' \subseteq pel, Unarmed \subseteq Unarmed'
  PROVE  Room'
<1>1. Cardinality(pel') <= Cardinality(pel) /\ Cardinality(Unarmed) <= Cardinality(Unarmed')
  BY Countable, FS_Subset
<1> QED
  BY <1>1, Countable, MoreBatches, OptionsAssumption DEF Room

\* A count below the limit arms a loop.
LEMMA RoomChecked ==
  ASSUME Inv, Inv', Room, NEW c \in Consumers, CheckPending(c), "XPENDING" \notin Faults
  PROVE  Room'
<1>1. ~Congested(c) /\ pel' = pel
  BY DEF CheckPending, Outcomes, serverVars
<1>2. Cardinality(pel') <= MostInflight - 1
  BY <1>1, Countable, OptionsAssumption DEF Congested
<1> DEFINE read == LargestBatch * Cardinality(Unarmed')
<1>3. read \in Nat
  BY Countable, MoreBatches, OptionsAssumption
<1>4. MostInflight \in Nat /\ Cardinality(pel') \in Nat
  BY Countable, OptionsAssumption
<1>5. Room' <=> Cardinality(pel') <= MostInflight - 1 + read
  BY DEF Room
<1> HIDE DEF read
<1> QED
  BY <1>2, <1>3, <1>4, <1>5

\* A loop that read a batch is no longer armed.
LEMMA RoomRead ==
  ASSUME Inv, Inv', Room, NEW c \in Consumers, ReadGroup(c)
  PROVE  Room'
<1>1. PICK o \in Outcomes("XREADGROUP") :
        pel' = pel \cup (IF Executed(o) THEN First(BatchSize[c], Unread) ELSE {})
  BY DEF ReadGroup
<1> DEFINE F == IF Executed(o) THEN First(BatchSize[c], Unread) ELSE {}
<1>2. /\ IsFiniteSet(F) /\ Cardinality(F) \in Nat /\ Cardinality(F) <= BatchSize[c]
      /\ BatchSize[c] \in Nat /\ BatchSize[c] <= LargestBatch /\ LargestBatch \in Nat
  <2>1. log \in Nat /\ BatchSize[c] \in Nat /\ BatchSize[c] <= LargestBatch /\ LargestBatch \in Nat
    BY OptionsAssumption DEF Inv, ServerOK, ServerTypes
  <2>2. Unread \subseteq 1..log
    BY <2>1 DEF Unread, Entries
  <2>3. CASE Executed(o)
    <3>1. F = First(BatchSize[c], Unread) /\ F \subseteq 1..log
      BY <2>1, <2>2, <2>3, FirstFacts
    <3> QED
      BY <2>1, <2>2, <3>1, FirstFacts, EntriesFinite
  <2>4. CASE ~Executed(o)
    <3>1. F = {}
      BY <2>4
    <3> QED
      BY <2>1, <3>1, FS_EmptySet
  <2> QED
    BY <2>3, <2>4
<1> HIDE DEF F
<1>3. Cardinality(pel') <= Cardinality(pel) + LargestBatch
  <2>1. pel' = pel \cup F
    BY <1>1 DEF F
  <2>2. /\ Cardinality(pel') = Cardinality(pel) + Cardinality(F) - Cardinality(pel \cap F)
        /\ Cardinality(pel \cap F) \in Nat
    BY <1>2, <2>1, Countable, FS_Union, FS_Intersection, FS_CardinalityType
  <2> QED
    BY <1>2, <2>2, Countable
<1>4. Cardinality(Unarmed') = Cardinality(Unarmed) + 1
  <2>1. c \notin Unarmed /\ Unarmed' = Unarmed \cup {c}
    BY DEF ReadGroup, Handed, Goto, Unarmed, Inv, LoopTypes
  <2> QED
    BY <2>1, Countable, FS_AddElement
<1>5. LargestBatch * Cardinality(Unarmed') = LargestBatch * Cardinality(Unarmed) + LargestBatch
  BY <1>2, <1>4, Countable
<1>6. LargestBatch * Cardinality(Unarmed) \in Nat
  BY <1>2, Countable, MoreBatches
<1> QED
  BY <1>3, <1>5, <1>6, <1>2, Countable, OptionsAssumption DEF Room

\* No other step adds to what is pending or arms a loop.
LEMMA NoMorePending ==
  ASSUME Inv, NEW c \in Consumers,
         \/ Subscribe(c) \/ Unsubscribe(c) \/ Die(c)
         \/ Ack(c) \/ AckAgain(c) \/ Nak(c) \/ DeadLetter(c)
         \/ CreateGroup(c) \/ Stop(c) \/ SkipReclaim(c) \/ Reclaim(c)
         \/ NextEntry(c) \/ EndBatch(c)
         \/ CopyEntry(c) \/ Acknowledge(c) \/ HandlerReturns(c)
  PROVE  pel' \subseteq pel /\ Unarmed \subseteq Unarmed'
<1> USE DEF Inv, LoopTypes, Unarmed, Goto, SameBatch, serverVars
<1>1. CASE Subscribe(c) \/ Unsubscribe(c) \/ Stop(c) \/ SkipReclaim(c)
  BY <1>1 DEF Subscribe, Unsubscribe, Stop, Exit, SkipReclaim
<1>2. CASE Die(c) \/ HandlerReturns(c) \/ NextEntry(c) \/ EndBatch(c)
  BY <1>2 DEF Die, HandlerReturns, NextEntry, EndBatch
<1>3. CASE Ack(c) \/ AckAgain(c) \/ Nak(c) \/ DeadLetter(c)
  BY <1>3 DEF Ack, AckAgain, Nak, DeadLetter, Settle
<1>4. CASE CopyEntry(c)
  BY <1>4 DEF CopyEntry, AfterCopy
<1>5. CASE Acknowledge(c)
  BY <1>5 DEF Acknowledge
<1>6. CASE CreateGroup(c)
  BY <1>6 DEF CreateGroup, GiveUp, Exit
<1>7. CASE Reclaim(c)
  BY <1>7 DEF Reclaim, Handed
<1> QED
  BY <1>1, <1>2, <1>3, <1>4, <1>5, <1>6, <1>7

\* max_inflight is exceeded by a batch per loop and no more, as long as the pending
\* entries can be counted: for any number of loops, limits and batch sizes, whatever
\* else fails.
THEOREM InflightBounded ==
  ASSUME "XPENDING" \notin Faults
  PROVE  Spec => []InflightBound
<1>1. Init => Room
  <2> SUFFICES ASSUME Init
               PROVE  Room
    OBVIOUS
  <2>1. Cardinality(pel) = 0
    BY FS_EmptySet DEF Init
  <2>2. Unarmed \subseteq Consumers
    BY DEF Unarmed
  <2>3. LargestBatch * Cardinality(Unarmed) \in Nat
    BY <2>2, LoopsFinite, MoreBatches, OptionsAssumption
  <2> QED
    BY <2>1, <2>3, OptionsAssumption DEF Room
<1>2. Inv /\ Inv' /\ Room /\ [Next]_vars => Room'
  <2> SUFFICES ASSUME Inv, Inv', Room, [Next]_vars
               PROVE  Room'
    OBVIOUS
  <2>1. ASSUME UNCHANGED <<pel, loopVars>>
        PROVE  Room'
    BY <2>1, RoomKept DEF Unarmed, loopVars
  <2>2. ASSUME NEW k \in Clients,
               \/ \E op \in Calls : CallBegin(k, op)
               \/ Publish(k) \/ TrimStream(k) \/ EnsureStream(k)
        PROVE  Room'
    BY <2>1, <2>2 DEF CallBegin, CallEnd, Publish, TrimStream, EnsureStream, serverVars
  <2>3. ASSUME NEW c \in Consumers,
               \/ Subscribe(c) \/ Unsubscribe(c) \/ Work(c) \/ Die(c)
               \/ Ack(c) \/ AckAgain(c) \/ Nak(c) \/ DeadLetter(c)
        PROVE  Room'
    BY <2>3, NoMorePending, RoomKept, RoomChecked, RoomRead DEF Work
  <2>4. CASE Close \/ UNCHANGED vars \/ \E e \in Entries : AckTimeout(e)
    BY <2>1, <2>4 DEF Close, AckTimeout, vars, serverVars
  <2> QED
    BY <2>2, <2>3, <2>4 DEF Next
<1>3. Inv /\ Room => InflightBound
  <2> SUFFICES ASSUME Inv, Room
               PROVE  InflightBound
    OBVIOUS
  <2>1. /\ Cardinality(Unarmed) \in Nat /\ Cardinality(Unarmed) <= Cardinality(Consumers)
        /\ Cardinality(Consumers) \in Nat
    BY LoopsFinite DEF Unarmed
  <2>2. LargestBatch * Cardinality(Unarmed) <= LargestBatch * Cardinality(Consumers)
    BY <2>1, MoreBatches, OptionsAssumption
  <2>3. /\ Cardinality(pel) \in Nat /\ LargestBatch * Cardinality(Unarmed) \in Nat
        /\ LargestBatch * Cardinality(Consumers) \in Nat
    <3>1. log \in Nat /\ pel \subseteq 1..log
      BY DEF Inv, ServerOK, ServerTypes
    <3> QED
      BY <2>1, <3>1, EntriesFinite, MoreBatches, OptionsAssumption
  <2> QED
    BY <2>2, <2>3, OptionsAssumption DEF Room, InflightBound
<1> QED
  BY <1>1, <1>2, <1>3, InvHolds, PTL DEF Spec

-----------------------------------------------------------------------------
(* Dead letters. *)

(* A loop that may still write a copy of e for the delivery it has.           *)
Unspent(c, e) ==
  e \in batch[c] \/ (entry[c] = e /\ (~acked[c] \/ pc[c] = "copy"))

Holders(e) == {c \in Consumers : Unspent(c, e)}

(* The copies that exist and those that may still be written.                 *)
Spending == \A e \in Entries : copies[e] + Cardinality(Holders(e)) <= deliveries[e]

(* A verdict has set acked, and no entry is twice with one loop.              *)
Once(c) == (pc[c] \in Verdicts => acked[c]) /\ entry[c] \notin batch[c]

CopyInv == Spending /\ \A c \in Consumers : Once(c)

\* Entries are not 0, the entry of no message.
LEMMA EntriesArePositive == 0 \notin Entries /\ \A e \in Entries : e \in Nat
  BY BoundsAssumption DEF Entries

\* Fewer loops that hold an entry leave it its copies.
LEMMA SpendingKept ==
  ASSUME Inv, Inv', Spending, UNCHANGED <<copies, deliveries>>,
         \A e \in Entries : Holders(e)' \subseteq Holders(e)
  PROVE  Spending'
<1> SUFFICES ASSUME NEW e \in Entries
             PROVE  copies[e] + Cardinality(Holders(e)') <= deliveries[e]
  BY DEF Spending
<1>1. Holders(e) \subseteq Consumers /\ Holders(e)' \subseteq Consumers
  BY DEF Holders
<1>2. /\ IsFiniteSet(Holders(e)) /\ Cardinality(Holders(e)) \in Nat
      /\ IsFiniteSet(Holders(e)') /\ Cardinality(Holders(e)') \in Nat
  BY <1>1, LoopsFinite
<1>3. Cardinality(Holders(e)') <= Cardinality(Holders(e))
  BY <1>2, FS_Subset
<1>4. /\ copies[e] \in Nat /\ deliveries[e] \in Nat
      /\ copies[e] + Cardinality(Holders(e)) <= deliveries[e]
  BY BoundsAssumption DEF Spending, Inv, ServerOK, ServerTypes
<1> QED
  BY <1>2, <1>3, <1>4

\* A delivery adds one to what is counted and one holder at most.
LEMMA SpendingCounted ==
  ASSUME Inv, Inv', Spending, NEW c \in Consumers, NEW G, UNCHANGED copies,
         deliveries' = Counted(G),
         \A e \in Entries : Holders(e)' \subseteq Holders(e) \cup (IF e \in G THEN {c} ELSE {})
  PROVE  Spending'
<1> SUFFICES ASSUME NEW e \in Entries
             PROVE  copies[e] + Cardinality(Holders(e)') <= deliveries'[e]
  BY DEF Spending
<1>1. Holders(e) \subseteq Consumers /\ Holders(e)' \subseteq Consumers
  BY DEF Holders
<1>2. /\ IsFiniteSet(Holders(e)) /\ Cardinality(Holders(e)) \in Nat
      /\ IsFiniteSet(Holders(e)') /\ Cardinality(Holders(e)') \in Nat
  BY <1>1, LoopsFinite
<1>3. /\ copies[e] \in Nat /\ deliveries[e] \in Nat
      /\ copies[e] + Cardinality(Holders(e)) <= deliveries[e]
  BY BoundsAssumption DEF Spending, Inv, ServerOK, ServerTypes
<1>4. CASE e \in G
  <2>1. deliveries'[e] = deliveries[e] + 1
    BY <1>4 DEF Counted
  <2>2. /\ IsFiniteSet(Holders(e) \cup {c})
        /\ Cardinality(Holders(e) \cup {c}) \in Nat
        /\ Cardinality(Holders(e) \cup {c}) <= Cardinality(Holders(e)) + 1
    <3>1. /\ IsFiniteSet(Holders(e) \cup {c})
          /\ Cardinality(Holders(e) \cup {c}) = IF c \in Holders(e) THEN Cardinality(Holders(e))
                                                ELSE Cardinality(Holders(e)) + 1
      BY <1>2, FS_AddElement
    <3> QED
      BY <1>2, <3>1
  <2>3. Cardinality(Holders(e)') <= Cardinality(Holders(e) \cup {c})
    BY <1>4, <2>2, FS_Subset
  <2> QED
    BY <1>2, <1>3, <2>1, <2>2, <2>3
<1>5. CASE e \notin G
  <2>1. deliveries'[e] = deliveries[e]
    BY <1>5 DEF Counted
  <2>2. Cardinality(Holders(e)') <= Cardinality(Holders(e))
    BY <1>2, <1>5, FS_Subset
  <2> QED
    BY <1>2, <1>3, <2>1, <2>2
<1> QED
  BY <1>4, <1>5

\* What a batch changes.
LEMMA HandedHolders ==
  ASSUME Inv, \A d \in Consumers : Once(d), NEW c \in Consumers, NEW S \in SUBSET Entries,
         NEW then, Handed(c, S, then), pc[c] \in {"reclaim", "read"}
  PROVE  /\ \A e \in Entries : Holders(e)' \subseteq Holders(e) \cup (IF e \in S THEN {c} ELSE {})
         /\ \A d \in Consumers : Once(d)'
<1> USE DEF Handed, Goto
<1>1. entry[c] = 0 /\ entry' = entry /\ acked' = acked /\ batch'[c] = S /\ pc'[c] = "next"
  BY DEF Inv, LoopTypes, LoopOK, Verdicts
<1>2. \A d \in Consumers \ {c} : batch'[d] = batch[d] /\ pc'[d] = pc[d]
  BY DEF Inv, LoopTypes
<1>3. ASSUME NEW e \in Entries, NEW d \in Consumers, Unspent(d, e)'
      PROVE  d \in Holders(e) \cup (IF e \in S THEN {c} ELSE {})
  <2>1. CASE d = c
    BY <1>1, <1>3, <2>1, EntriesArePositive DEF Unspent
  <2>2. CASE d # c
    BY <1>1, <1>2, <1>3, <2>2 DEF Unspent, Holders
  <2> QED
    BY <2>1, <2>2
<1>4. ASSUME NEW d \in Consumers
      PROVE  Once(d)'
  BY <1>1, <1>2, EntriesArePositive DEF Once, Verdicts
<1> QED
  BY <1>3, <1>4 DEF Holders

\* Reclaim keeps the accounting of the copies.
LEMMA CopyReclaim ==
  ASSUME Inv, Inv', CopyInv, NEW c \in Consumers, Reclaim(c)
  PROVE  CopyInv'
<1>1. PICK F, S :
        /\ deliveries' = Counted(F) /\ copies' = copies
        /\ S \in {F, {}} /\ F \subseteq pel
        /\ Handed(c, S, "read")
  <2>1. PICK o \in Outcomes("XAUTOCLAIM") :
          LET found   == IF Executed(o) THEN First(BatchSize[c], Claimable) ELSE {}
              claimed == found \ Gone
          IN /\ deliveries' = Counted(claimed)
             /\ Handed(c, IF o = "ok" THEN claimed ELSE {}, "read")
    BY DEF Reclaim
  <2> DEFINE F == (IF Executed(o) THEN First(BatchSize[c], Claimable) ELSE {}) \ Gone
  <2>2. F \subseteq pel
    BY DEF First, Claimable, Gone, Inv, ServerOK, ServerTypes
  <2>3. copies' = copies
    BY <2>1 DEF Handed
  <2>4. deliveries' = Counted(F) /\ Handed(c, IF o = "ok" THEN F ELSE {}, "read")
    BY <2>1
  <2> HIDE DEF F
  <2> QED
    BY <2>2, <2>3, <2>4
<1>2. S \in SUBSET Entries
  BY <1>1, BoundsAssumption DEF Inv, ServerOK, ServerTypes, Entries
<1>3. /\ \A e \in Entries : Holders(e)' \subseteq Holders(e) \cup (IF e \in S THEN {c} ELSE {})
      /\ \A d \in Consumers : Once(d)'
  BY <1>1, <1>2, HandedHolders DEF CopyInv, Reclaim
<1>4. \A e \in Entries : Holders(e)' \subseteq Holders(e) \cup (IF e \in F THEN {c} ELSE {})
  BY <1>1, <1>3
<1> QED
  BY <1>1, <1>3, <1>4, SpendingCounted DEF CopyInv

\* ReadGroup keeps the accounting of the copies.
LEMMA CopyReadGroup ==
  ASSUME Inv, Inv', CopyInv, NEW c \in Consumers, ReadGroup(c)
  PROVE  CopyInv'
<1>1. PICK F, S :
        /\ deliveries' = Counted(F) /\ copies' = copies
        /\ S \in {F, {}} /\ F \subseteq Unread
        /\ Handed(c, S, "top")
  <2>1. PICK o \in Outcomes("XREADGROUP") :
          LET found == IF Executed(o) THEN First(BatchSize[c], Unread) ELSE {}
          IN /\ deliveries' = Counted(found)
             /\ Handed(c, IF o = "ok" THEN found ELSE {}, "top")
    BY DEF ReadGroup
  <2> DEFINE F == IF Executed(o) THEN First(BatchSize[c], Unread) ELSE {}
  <2>2. F \subseteq Unread
    BY DEF First
  <2>3. copies' = copies
    BY <2>1 DEF Handed
  <2>4. deliveries' = Counted(F) /\ Handed(c, IF o = "ok" THEN F ELSE {}, "top")
    BY <2>1
  <2> HIDE DEF F
  <2> QED
    BY <2>2, <2>3, <2>4
<1>2. S \in SUBSET Entries
  BY <1>1 DEF Unread
<1>3. /\ \A e \in Entries : Holders(e)' \subseteq Holders(e) \cup (IF e \in S THEN {c} ELSE {})
      /\ \A d \in Consumers : Once(d)'
  BY <1>1, <1>2, HandedHolders DEF CopyInv, ReadGroup
<1>4. \A e \in Entries : Holders(e)' \subseteq Holders(e) \cup (IF e \in F THEN {c} ELSE {})
  BY <1>1, <1>3
<1> QED
  BY <1>1, <1>3, <1>4, SpendingCounted DEF CopyInv

\* CopyEntry keeps the accounting of the copies.
LEMMA CopyCopyEntry ==
  ASSUME Inv, Inv', CopyInv, NEW c \in Consumers, CopyEntry(c)
  PROVE  CopyInv'
<1>1. /\ pc[c] = "copy" /\ pc'[c] # "copy"
      /\ \A d \in Consumers \ {c} : pc'[d] = pc[d]
      /\ batch' = batch /\ entry' = entry /\ acked' = acked /\ deliveries' = deliveries
  BY DEF CopyEntry, Goto, SameBatch, AfterCopy, Inv, LoopTypes
<1>2. PICK x \in Entries : x = entry[c] /\ acked[c] /\ x \notin batch[c]
  BY <1>1 DEF CopyInv, Once, Verdicts, Inv, LoopTypes, LoopOK
<1>3. /\ \A e \in Entries \ {x} : copies'[e] = copies[e]
      /\ copies'[x] \in Nat /\ copies'[x] <= copies[x] + 1
  BY <1>2 DEF CopyEntry, Inv, ServerOK, ServerTypes
<1>4. \A d \in Consumers : Once(d)'
  BY <1>1 DEF CopyInv, Once, CopyEntry, Goto, AfterCopy, Verdicts, Inv, LoopTypes
<1>5. \A e \in Entries : Holders(e)' \subseteq Holders(e)
  BY <1>1 DEF Holders, Unspent
<1>6. c \in Holders(x) /\ Holders(x)' \subseteq Holders(x) \ {c}
  <2>1. c \in Holders(x) /\ c \notin Holders(x)'
    BY <1>1, <1>2 DEF Holders, Unspent
  <2>2. Holders(x)' \subseteq Holders(x)
    BY <1>5
  <2> QED
    BY <2>1, <2>2
<1>7. ASSUME NEW e \in Entries
      PROVE  copies'[e] + Cardinality(Holders(e)') <= deliveries[e]
  <2>1. Holders(e) \subseteq Consumers /\ Holders(e)' \subseteq Consumers
    BY DEF Holders
  <2>2. /\ IsFiniteSet(Holders(e)) /\ Cardinality(Holders(e)) \in Nat
        /\ IsFiniteSet(Holders(e)') /\ Cardinality(Holders(e)') \in Nat
    BY <2>1, LoopsFinite
  <2>3. /\ copies[e] \in Nat /\ deliveries[e] \in Nat
        /\ copies[e] + Cardinality(Holders(e)) <= deliveries[e]
    BY BoundsAssumption DEF CopyInv, Spending, Inv, ServerOK, ServerTypes
  <2>4. CASE e = x
    <3>1. /\ Cardinality(Holders(e) \ {c}) = Cardinality(Holders(e)) - 1
          /\ IsFiniteSet(Holders(e) \ {c})
      BY <1>6, <2>2, <2>4, FS_RemoveElement
    <3>2. Cardinality(Holders(e)') <= Cardinality(Holders(e) \ {c})
      BY <1>6, <2>4, <3>1, FS_Subset
    <3>3. copies'[e] \in Nat /\ copies'[e] <= copies[e] + 1
      BY <1>3, <2>4
    <3> QED
      BY <2>2, <2>3, <3>1, <3>2, <3>3
  <2>5. CASE e # x
    <3>1. Cardinality(Holders(e)') <= Cardinality(Holders(e))
      BY <1>5, <2>2, FS_Subset
    <3>2. copies'[e] = copies[e]
      BY <1>3, <2>5
    <3> QED
      BY <2>2, <2>3, <3>1, <3>2
  <2> QED
    BY <2>4, <2>5
<1> QED
  BY <1>1, <1>4, <1>7 DEF CopyInv, Spending

\* Steps that write no copy and hand nothing out.
LEMMA CopyQuiet ==
  ASSUME Inv, Inv', CopyInv, NEW c \in Consumers,
         \/ Subscribe(c) \/ Unsubscribe(c) \/ Die(c)
         \/ Ack(c) \/ AckAgain(c) \/ Nak(c) \/ DeadLetter(c)
         \/ CreateGroup(c) \/ Stop(c) \/ CheckPending(c) \/ SkipReclaim(c)
         \/ NextEntry(c) \/ EndBatch(c) \/ Acknowledge(c) \/ HandlerReturns(c)
  PROVE  CopyInv'
<1> DEFINE Quiet ==
      /\ UNCHANGED <<copies, deliveries>>
      /\ \A e \in Entries : Holders(e)' \subseteq Holders(e)
      /\ \A d \in Consumers : Once(d)'
<1> USE DEF CopyInv, Once, Inv, LoopTypes, Goto, SameBatch, serverVars, Holders, Unspent
<1>1. CASE Subscribe(c) \/ Unsubscribe(c)
  <2>1. /\ UNCHANGED <<copies, deliveries, batch, entry, acked>>
        /\ \A d \in Consumers : pc'[d] \in {pc[d], "create"}
    BY <1>1 DEF Subscribe, Unsubscribe
  <2>2. Quiet
    BY <2>1 DEF Verdicts
  <2> QED
    BY <2>2, SpendingKept
<1>2. CASE Stop(c) \/ CheckPending(c) \/ SkipReclaim(c) \/ CreateGroup(c) \/ Acknowledge(c)
  <2>1. /\ UNCHANGED <<copies, deliveries, batch, entry, acked>>
        /\ \A d \in Consumers : pc'[d] \in {pc[d], "stopped", "top", "reclaim", "read", "handle"}
    BY <1>2 DEF Stop, Exit, CheckPending, SkipReclaim, CreateGroup, GiveUp, Acknowledge
  <2>2. Quiet
    BY <2>1 DEF Verdicts
  <2> QED
    BY <2>2, SpendingKept
<1>3. CASE EndBatch(c)
  <2>1. /\ UNCHANGED <<copies, deliveries, batch, entry, acked>>
        /\ \A d \in Consumers : pc'[d] \in {pc[d], "top", "read"}
    BY <1>3 DEF EndBatch
  <2>2. Quiet
    BY <2>1 DEF Verdicts
  <2> QED
    BY <2>2, SpendingKept
<1>4. CASE Die(c) \/ HandlerReturns(c)
  <2>1. /\ UNCHANGED <<copies, deliveries>>
        /\ entry'[c] = 0 /\ batch'[c] \subseteq batch[c] /\ pc'[c] \in {"next", "dead"}
        /\ \A d \in Consumers \ {c} : /\ pc'[d] = pc[d] /\ entry'[d] = entry[d]
                                     /\ batch'[d] = batch[d] /\ acked'[d] = acked[d]
    BY <1>4 DEF Die, HandlerReturns, DropMessage
  <2>2. \A d \in Consumers : Once(d)'
    BY <2>1, EntriesArePositive DEF Verdicts
  <2>3. ASSUME NEW e \in Entries, NEW d \in Consumers, Unspent(d, e)'
        PROVE  Unspent(d, e)
    BY <2>1, <2>3, EntriesArePositive
  <2>4. Quiet
    BY <2>1, <2>2, <2>3
  <2> QED
    BY <2>4, SpendingKept
<1>5. CASE NextEntry(c)
  <2>1. PICK x \in Entries :
          /\ x \in batch[c] /\ entry' = [entry EXCEPT ![c] = x]
          /\ batch' = [batch EXCEPT ![c] = @ \ {x}] /\ pc' = [pc EXCEPT ![c] = "handle"]
          /\ UNCHANGED <<copies, deliveries, acked>>
    <3>1. batch[c] \subseteq 1..log /\ log \in Nat /\ batch[c] # {} /\ batch[c] \subseteq Entries
      BY <1>5 DEF NextEntry, ServerOK, ServerTypes, LoopOK, InHand
    <3>2. Least(batch[c]) \in batch[c]
      BY <3>1, Extremes
    <3> QED
      BY <1>5, <3>1, <3>2 DEF NextEntry
  <2>2. \A d \in Consumers : Once(d)'
    BY <2>1 DEF Verdicts
  <2>3. ASSUME NEW e \in Entries, NEW d \in Consumers, Unspent(d, e)'
        PROVE  Unspent(d, e)
    BY <2>1, <2>3
  <2>4. Quiet
    BY <2>1, <2>2, <2>3
  <2> QED
    BY <2>4, SpendingKept
<1>6. CASE Ack(c) \/ AckAgain(c) \/ Nak(c) \/ DeadLetter(c)
  <2>1. /\ UNCHANGED <<copies, deliveries, batch, entry>> /\ acked'[c]
        /\ pc'[c] \in {"handle", "xack", "copy"} /\ pc'[c] = "copy" => ~acked[c]
        /\ \A d \in Consumers \ {c} : pc'[d] = pc[d] /\ acked'[d] = acked[d]
    BY <1>6 DEF Ack, AckAgain, Nak, DeadLetter, Settle, FirstVerdict, SetAcked
  <2>2. \A d \in Consumers : Once(d)'
    BY <2>1
  <2>3. ASSUME NEW e \in Entries, NEW d \in Consumers, Unspent(d, e)'
        PROVE  Unspent(d, e)
    BY <2>1, <2>3
  <2>4. Quiet
    BY <2>1, <2>2, <2>3
  <2> QED
    BY <2>4, SpendingKept
<1> QED
  BY <1>1, <1>2, <1>3, <1>4, <1>5, <1>6

\* The accounting of the copies holds in every reachable state.
LEMMA CopyInvHolds == Spec => []CopyInv
<1>1. Inv /\ Init => CopyInv
  <2> SUFFICES ASSUME Inv, Init
               PROVE  CopyInv
    OBVIOUS
  <2>1. \A e \in Entries : Holders(e) = {}
    BY EntriesArePositive DEF Init, Holders, Unspent
  <2>2. \A c \in Consumers : Once(c)
    BY DEF Init, Once, Verdicts
  <2>3. \A e \in Entries : copies[e] = 0 /\ deliveries[e] = 0
    BY DEF Init
  <2> QED
    BY <2>1, <2>2, <2>3, FS_EmptySet DEF CopyInv, Spending
<1>2. Inv /\ Inv' /\ CopyInv /\ [Next]_vars => CopyInv'
  <2> SUFFICES ASSUME Inv, Inv', CopyInv, [Next]_vars
               PROVE  CopyInv'
    OBVIOUS
  <2>1. ASSUME UNCHANGED <<copies, deliveries, loopVars>>
        PROVE  CopyInv'
    BY <2>1 DEF CopyInv, Spending, Once, Holders, Unspent, loopVars
  <2>2. ASSUME NEW k \in Clients,
               \/ \E op \in Calls : CallBegin(k, op)
               \/ Publish(k) \/ TrimStream(k) \/ EnsureStream(k)
        PROVE  CopyInv'
    BY <2>1, <2>2 DEF CallBegin, CallEnd, Publish, TrimStream, EnsureStream, serverVars
  <2>3. ASSUME NEW c \in Consumers,
               \/ Subscribe(c) \/ Unsubscribe(c) \/ Work(c) \/ Die(c)
               \/ Ack(c) \/ AckAgain(c) \/ Nak(c) \/ DeadLetter(c)
        PROVE  CopyInv'
    BY <2>3, CopyQuiet, CopyReclaim, CopyReadGroup, CopyCopyEntry DEF Work
  <2>4. CASE Close \/ UNCHANGED vars \/ \E e \in Entries : AckTimeout(e)
    BY <2>1, <2>4 DEF Close, AckTimeout, vars, serverVars
  <2> QED
    BY <2>2, <2>3, <2>4 DEF Next
<1>3. Init => Inv
  BY InvInit
<1> QED
  BY <1>1, <1>2, <1>3, InvHolds, PTL DEF Spec

\* No entry is in the dead-letter stream more often than it was handed out: acked
\* lets one verdict through, and a reclaimed entry that is copied again was delivered
\* again.
THEOREM OneCopyPerDelivery == Spec => []CopiesPerDelivery
<1>1. Inv /\ CopyInv => CopiesPerDelivery
  <2> SUFFICES ASSUME Inv, CopyInv, NEW e \in Entries
               PROVE  copies[e] <= deliveries[e]
    BY DEF CopiesPerDelivery
  <2>1. Cardinality(Holders(e)) \in Nat
    BY LoopsFinite DEF Holders
  <2>2. /\ copies[e] \in Nat /\ deliveries[e] \in Nat
        /\ copies[e] + Cardinality(Holders(e)) <= deliveries[e]
    BY BoundsAssumption DEF CopyInv, Spending, Inv, ServerOK, ServerTypes
  <2> QED
    BY <2>1, <2>2
<1> QED
  BY <1>1, InvHolds, CopyInvHolds, PTL

-----------------------------------------------------------------------------
(* The leased queue. *)

\* Nothing the queue sees.
LEMMA Unseen ==
  ASSUME UNCHANGED <<log, trimmed, groups, delivered, pel, overdue>>,
         \A d \in Consumers : InHand(d)' = InHand(d)
  PROVE  UNCHANGED Queue!qvars
  BY DEF Queue!qvars, GroupCreated

\* What the others have stays with them.
Others(c) == \A d \in Consumers \ {c} : InHand(d)' = InHand(d)

\* Publish is a step of LeasedQueue, or a stutter.
LEMMA SeenPublish ==
  ASSUME Inv, NEW k \in Clients, Publish(k)
  PROVE  [Queue!QNext]_Queue!qvars
<1>1. /\ UNCHANGED <<trimmed, groups, delivered, pel, overdue>>
      /\ log' = log + 1 \/ log' = log
      /\ \A d \in Consumers : InHand(d)' = InHand(d)
  BY DEF Publish, CallEnd, loopVars, InHand
<1>2. CASE log' = log
  BY <1>1, <1>2, Unseen
<1>3. CASE log' = log + 1
  BY <1>1, <1>3 DEF Queue!QNext, Queue!Publish, GroupCreated
<1> QED
  BY <1>1, <1>2, <1>3

\* Trim is a step of LeasedQueue, or a stutter.
LEMMA SeenTrim ==
  ASSUME Inv, NEW k \in Clients, TrimStream(k)
  PROVE  [Queue!QNext]_Queue!qvars
<1>1. /\ UNCHANGED <<log, groups, delivered, pel, overdue>>
      /\ trimmed' \in trimmed..log
      /\ \A d \in Consumers : InHand(d)' = InHand(d)
  BY DEF TrimStream, CallEnd, loopVars, InHand
<1> QED
  BY <1>1 DEF Queue!QNext, Queue!Expire, GroupCreated

\* AckTimeout is a step of LeasedQueue, or a stutter.
LEMMA SeenAckTimeout ==
  ASSUME Inv, NEW e \in Entries, AckTimeout(e)
  PROVE  [Queue!QNext]_Queue!qvars
<1>1. /\ UNCHANGED <<log, trimmed, groups, delivered, pel>>
      /\ e \in pel /\ overdue' = overdue \cup {e}
      /\ \A d \in Consumers : InHand(d)' = InHand(d)
  BY DEF AckTimeout, loopVars, InHand
<1> QED
  BY <1>1 DEF Queue!QNext, Queue!Lapse, GroupCreated

\* CreateGroup is a step of LeasedQueue, or a stutter.
LEMMA SeenCreateGroup ==
  ASSUME Inv, NEW c \in Consumers, CreateGroup(c)
  PROVE  [Queue!QNext]_Queue!qvars
<1>1. /\ UNCHANGED <<log, trimmed, pel, overdue>>
      /\ \/ UNCHANGED <<groups, delivered>>
         \/ ~GroupCreated /\ groups' = groups \cup {"group"}
      /\ \A d \in Consumers : InHand(d)' = InHand(d)
  BY DEF CreateGroup, SameBatch, InHand
<1>2. CASE UNCHANGED <<groups, delivered>>
  BY <1>1, <1>2, Unseen
<1>3. CASE ~GroupCreated /\ groups' = groups \cup {"group"}
  <2>1. GroupCreated'
    BY <1>3 DEF GroupCreated
  <2>2. Queue!Join(delivered')
    BY <1>1, <1>3, <2>1 DEF Queue!Join
  <2> QED
    BY <2>1, <2>2 DEF Queue!QNext
<1> QED
  BY <1>1, <1>2, <1>3

\* Acknowledge is a step of LeasedQueue, or a stutter.
LEMMA SeenAcknowledge ==
  ASSUME Inv, NEW c \in Consumers, Acknowledge(c)
  PROVE  [Queue!QNext]_Queue!qvars
<1>1. /\ UNCHANGED <<log, trimmed, groups, delivered>>
      /\ \/ UNCHANGED <<pel, overdue>>
         \/ pel' = pel \ {entry[c]} /\ overdue' = overdue \ {entry[c]}
      /\ \A d \in Consumers : InHand(d)' = InHand(d)
  BY DEF Acknowledge, SameBatch, InHand
<1>2. CASE UNCHANGED <<pel, overdue>>
  BY <1>1, <1>2, Unseen
<1>3. CASE pel' = pel \ {entry[c]} /\ overdue' = overdue \ {entry[c]}
  <2>1. entry[c] \in InHand(c)
    BY DEF Acknowledge, Inv, LoopOK, InHand, Verdicts
  <2>2. Queue!Finish(c, entry[c])
    BY <1>1, <1>3, <2>1 DEF Queue!Finish, GroupCreated
  <2> QED
    BY <2>1, <2>2 DEF Queue!QNext
<1> QED
  BY <1>1, <1>2, <1>3

\* A loop lets go of a part of what it has.
LEMMA SeenDrop ==
  ASSUME NEW c \in Consumers, NEW S \in SUBSET InHand(c), Others(c),
         InHand(c)' = InHand(c) \ S,
         UNCHANGED <<log, trimmed, groups, delivered, pel, overdue>>
  PROVE  [Queue!QNext]_Queue!qvars
<1>1. [d \in Consumers |-> InHand(d)]'
        = [[d \in Consumers |-> InHand(d)] EXCEPT ![c] = @ \ S]
  BY DEF Others
<1>2. Queue!Drop(c, S)
  BY <1>1 DEF Queue!Drop, GroupCreated
<1> QED
  BY <1>2 DEF Queue!QNext

\* HandlerReturns is a step of LeasedQueue, or a stutter.
LEMMA SeenHandlerReturns ==
  ASSUME Inv, CopyInv, NEW c \in Consumers, HandlerReturns(c)
  PROVE  [Queue!QNext]_Queue!qvars
<1>1. entry[c] \notin batch[c] /\ entry[c] # 0
  BY DEF CopyInv, Once, HandlerReturns, Inv, LoopOK
<1>2. /\ entry'[c] = 0 /\ batch' = batch /\ \A d \in Consumers \ {c} : entry'[d] = entry[d]
      /\ UNCHANGED <<log, trimmed, groups, delivered, pel, overdue>>
  BY DEF HandlerReturns, DropMessage, serverVars, Inv, LoopTypes
<1>3. Others(c) /\ InHand(c)' = InHand(c) \ {entry[c]} /\ {entry[c]} \in SUBSET InHand(c)
  BY <1>1, <1>2 DEF Others, InHand
<1> QED
  BY <1>2, <1>3, SeenDrop

\* Die is a step of LeasedQueue, or a stutter.
LEMMA SeenDie ==
  ASSUME Inv, NEW c \in Consumers, Die(c)
  PROVE  [Queue!QNext]_Queue!qvars
<1>1. /\ entry'[c] = 0 /\ batch'[c] = {}
      /\ \A d \in Consumers \ {c} : entry'[d] = entry[d] /\ batch'[d] = batch[d]
      /\ UNCHANGED <<log, trimmed, groups, delivered, pel, overdue>>
  BY DEF Die, DropMessage, serverVars, Inv, LoopTypes
<1>2. Others(c) /\ InHand(c)' = InHand(c) \ InHand(c)
  BY <1>1 DEF Others, InHand
<1> QED
  BY <1>1, <1>2, SeenDrop

\* NextEntry is a step of LeasedQueue, or a stutter.
LEMMA SeenNextEntry ==
  ASSUME Inv, NEW c \in Consumers, NextEntry(c)
  PROVE  [Queue!QNext]_Queue!qvars
<1>1. PICK x \in Entries :
        /\ x \in batch[c] /\ entry' = [entry EXCEPT ![c] = x]
        /\ batch' = [batch EXCEPT ![c] = @ \ {x}]
        /\ UNCHANGED <<log, trimmed, groups, delivered, pel, overdue>>
  <2>1. batch[c] \subseteq 1..log /\ log \in Nat /\ batch[c] # {} /\ batch[c] \subseteq Entries
    BY DEF NextEntry, Inv, ServerOK, ServerTypes, LoopOK, LoopTypes, InHand
  <2>2. Least(batch[c]) \in batch[c]
    BY <2>1, Extremes
  <2> QED
    BY <2>1, <2>2 DEF NextEntry, serverVars
<1>2. entry[c] = 0
  BY DEF NextEntry, Inv, LoopOK, Verdicts
<1>3. \A d \in Consumers : InHand(d)' = InHand(d)
  BY <1>1, <1>2, EntriesArePositive DEF InHand, Inv, LoopTypes
<1> QED
  BY <1>1, <1>3, Unseen

\* What a loop has once it is handed a batch.
LEMMA SeenHanded ==
  ASSUME Inv, NEW c \in Consumers, NEW S, NEW then, Handed(c, S, then),
         pc[c] \in {"reclaim", "read"}
  PROVE  /\ InHand(c) = {} /\ InHand(c)' = S /\ Others(c)
         /\ [d \in Consumers |-> InHand(d)]'
              = [[d \in Consumers |-> InHand(d)] EXCEPT ![c] = S]
<1>1. entry[c] = 0 /\ batch[c] = {}
  BY DEF Inv, LoopOK, Verdicts
<1>2. entry' = entry /\ batch' = [batch EXCEPT ![c] = S]
  BY DEF Handed
<1>3. InHand(c) = {} /\ InHand(c)' = S /\ Others(c)
  BY <1>1, <1>2 DEF InHand, Others, Inv, LoopTypes
<1> QED
  BY <1>3 DEF Others

\* Reclaim is a step of LeasedQueue, or a stutter.
LEMMA SeenReclaim ==
  ASSUME Inv, NEW c \in Consumers, Reclaim(c)
  PROVE  [Queue!QNext]_Queue!qvars
<1>1. PICK F, S :
        /\ F \subseteq overdue \cup Gone
        /\ pel' = pel \ (F \cap Gone) /\ overdue' = overdue \ F
        /\ S \in {F \ Gone, {}} /\ Handed(c, S, "read")
  <2>1. PICK o \in Outcomes("XAUTOCLAIM") :
          LET found   == IF Executed(o) THEN First(BatchSize[c], Claimable) ELSE {}
              claimed == found \ Gone
          IN /\ pel' = pel \ (found \cap Gone)
             /\ overdue' = overdue \ found
             /\ Handed(c, IF o = "ok" THEN claimed ELSE {}, "read")
    BY DEF Reclaim
  <2> DEFINE F == IF Executed(o) THEN First(BatchSize[c], Claimable) ELSE {}
  <2>2. F \subseteq overdue \cup Gone
    BY DEF First, Claimable
  <2>3. /\ pel' = pel \ (F \cap Gone) /\ overdue' = overdue \ F
        /\ Handed(c, IF o = "ok" THEN F \ Gone ELSE {}, "read")
    BY <2>1
  <2> HIDE DEF F
  <2> QED
    BY <2>2, <2>3
<1>2. /\ UNCHANGED <<log, trimmed, groups, delivered>> /\ pc[c] = "reclaim"
      /\ Gone = {e \in pel : e <= trimmed}
      /\ overdue \subseteq pel /\ trimmed \in Nat
      /\ \A e \in pel : e \in Nat
  BY <1>1 DEF Reclaim, Handed, Gone, Inv, ServerOK, ServerTypes
<1>3. /\ InHand(c) = {}
      /\ [d \in Consumers |-> InHand(d)]'
           = [[d \in Consumers |-> InHand(d)] EXCEPT ![c] = S]
  BY <1>1, <1>2, SeenHanded
<1> DEFINE claimed == F \ Gone
           gone    == F \cap Gone
<1>4. /\ claimed \in SUBSET overdue /\ gone \in SUBSET pel
      /\ \A i \in claimed : i > trimmed
      /\ \A i \in gone : i <= trimmed
      /\ overdue' = overdue \ (claimed \cup gone)
  BY <1>1, <1>2
<1>5. [d \in Consumers |-> InHand(d)]' \in
        {[d \in Consumers |-> InHand(d)],
         [[d \in Consumers |-> InHand(d)] EXCEPT ![c] = claimed]}
  <2>1. CASE S = {}
    BY <1>3, <2>1
  <2>2. CASE S # {}
    BY <1>1, <1>3, <2>2
  <2> QED
    BY <2>1, <2>2
<1>6. Queue!Retake(c, claimed, gone)
  <2>1. Queue!Give(c, claimed)
    BY <1>3, <1>5 DEF Queue!Give
  <2> QED
    BY <1>1, <1>2, <1>4, <2>1 DEF Queue!Retake, GroupCreated
<1> HIDE DEF claimed, gone
<1> QED
  BY <1>4, <1>6 DEF Queue!QNext

\* ReadGroup is a step of LeasedQueue, or a stutter.
LEMMA SeenReadGroup ==
  ASSUME Inv, NEW c \in Consumers, ReadGroup(c)
  PROVE  [Queue!QNext]_Queue!qvars
<1>1. PICK F, S :
        /\ F = {} \/ F = First(BatchSize[c], Unread)
        /\ delivered' = IF F = {} THEN delivered ELSE Greatest(F)
        /\ pel' = pel \cup F /\ overdue' = overdue
        /\ S \in {F, {}} /\ Handed(c, S, "top")
  <2>1. PICK o \in Outcomes("XREADGROUP") :
          LET found == IF Executed(o) THEN First(BatchSize[c], Unread) ELSE {}
          IN /\ delivered' = IF found = {} THEN delivered ELSE Greatest(found)
             /\ pel' = pel \cup found
             /\ Handed(c, IF o = "ok" THEN found ELSE {}, "top")
    BY DEF ReadGroup
  <2> DEFINE F == IF Executed(o) THEN First(BatchSize[c], Unread) ELSE {}
  <2>2. F = {} \/ F = First(BatchSize[c], Unread)
    OBVIOUS
  <2>3. /\ delivered' = IF F = {} THEN delivered ELSE Greatest(F)
        /\ pel' = pel \cup F
        /\ Handed(c, IF o = "ok" THEN F ELSE {}, "top")
    BY <2>1
  <2>4. overdue' = overdue
    BY DEF ReadGroup
  <2> HIDE DEF F
  <2> QED
    BY <2>2, <2>3, <2>4
<1>2. /\ UNCHANGED <<log, trimmed, groups>> /\ pc[c] = "read" /\ GroupCreated
      /\ log \in Nat /\ trimmed \in Nat /\ delivered \in Nat /\ BatchSize[c] \in Nat
      /\ MaxEntries \in Nat /\ log <= MaxEntries
  BY <1>1, OptionsAssumption, BoundsAssumption
     DEF ReadGroup, Handed, Inv, ServerOK, ServerTypes, LoopOK, Finished
<1>3. /\ InHand(c) = {} /\ Others(c) /\ InHand(c)' = S
      /\ [d \in Consumers |-> InHand(d)]'
           = [[d \in Consumers |-> InHand(d)] EXCEPT ![c] = S]
  BY <1>1, <1>2, SeenHanded
<1>4. CASE F = {}
  <2>1. UNCHANGED <<delivered, pel>> /\ S = {}
    BY <1>1, <1>4
  <2> QED
    BY <1>1, <1>2, <1>3, <2>1, Unseen DEF Others
<1>5. CASE F # {}
  <2>1. Unread \subseteq 1..log /\ \A e \in Unread : e > delivered /\ e > trimmed
    BY <1>2 DEF Unread, Entries
  <2>2. /\ F \subseteq Unread
        /\ \A e \in Unread, g \in F : e < g => e \in F
    BY <1>1, <1>2, <1>5, <2>1, FirstFacts
  <2>3. delivered' \in F /\ \A f \in F : f <= delivered'
    BY <1>1, <1>2, <1>5, <2>1, <2>2, Extremes
  <2>4. delivered' \in Nat /\ delivered < delivered' /\ delivered' <= log
    <3>1. delivered' \in Unread /\ delivered' \in 1..log
      BY <2>1, <2>2, <2>3
    <3> QED
      BY <1>2, <2>1, <3>1
  <2>5. F = {i \in Entries : delivered < i /\ trimmed < i /\ i <= delivered'}
    <3>1. ASSUME NEW i \in Entries, delivered < i, trimmed < i, i <= delivered'
          PROVE  i \in F
      <4>1. i \in Unread
        BY <1>2, <2>4, <3>1 DEF Unread, Entries
      <4>2. i = delivered' \/ i < delivered'
        BY <2>1, <2>4, <3>1, <4>1
      <4> QED
        BY <2>2, <2>3, <4>1, <4>2
    <3>2. ASSUME NEW i \in F
          PROVE  i \in Entries /\ delivered < i /\ trimmed < i /\ i <= delivered'
      <4>1. i \in Entries
        BY <2>2 DEF Unread
      <4>2. i \in Nat /\ i > delivered /\ i > trimmed /\ i <= delivered'
        BY <2>1, <2>2, <2>3
      <4> QED
        BY <1>2, <4>1, <4>2
    <3> QED
      BY <3>1, <3>2
  <2>6. [d \in Consumers |-> InHand(d)]' \in
          {[d \in Consumers |-> InHand(d)],
           [[d \in Consumers |-> InHand(d)] EXCEPT ![c] = F]}
    <3>1. CASE S = {}
      BY <1>3, <3>1
    <3>2. CASE S # {}
      BY <1>1, <1>3, <3>2
    <3> QED
      BY <3>1, <3>2
  <2>7. Queue!Give(c, F)
    BY <1>3, <2>6 DEF Queue!Give
  <2>8. Queue!Take(c, delivered')
    BY <1>1, <1>2, <2>4, <2>5, <2>7 DEF Queue!Take, GroupCreated
  <2> QED
    BY <2>8 DEF Queue!QNext
<1> QED
  BY <1>4, <1>5

\* The other steps are not the queue's business.
LEMMA SeenClients ==
  ASSUME Inv, NEW k \in Clients, \/ \E op \in Calls : CallBegin(k, op)
                                 \/ EnsureStream(k)
  PROVE  [Queue!QNext]_Queue!qvars
<1>1. /\ UNCHANGED <<log, trimmed, delivered, pel, overdue>> /\ GroupCreated' = GroupCreated
      /\ \A d \in Consumers : InHand(d)' = InHand(d)
  BY DEF CallBegin, EnsureStream, CallEnd, serverVars, loopVars, InHand, GroupCreated
<1> QED
  BY <1>1 DEF Queue!qvars

\* A step that leaves the stream, the group and the deliveries alone stutters.
LEMMA SeenQuiet ==
  ASSUME Inv, NEW c \in Consumers,
         \/ Subscribe(c) \/ Unsubscribe(c) \/ Stop(c) \/ CheckPending(c) \/ SkipReclaim(c)
         \/ EndBatch(c) \/ CopyEntry(c)
         \/ Ack(c) \/ AckAgain(c) \/ Nak(c) \/ DeadLetter(c)
  PROVE  [Queue!QNext]_Queue!qvars
<1>1. /\ UNCHANGED <<log, trimmed, groups, delivered, pel, overdue>>
      /\ \A d \in Consumers : InHand(d)' = InHand(d)
  BY DEF Subscribe, Unsubscribe, Stop, CheckPending, SkipReclaim, EndBatch, CopyEntry,
         Ack, AckAgain, Nak, DeadLetter, Settle, SameBatch, serverVars, InHand
<1> QED
  BY <1>1, Unseen

\* The transport implements the leased queue: whatever commands fail and whoever dies,
\* entries are taken in order and none left out, stay open until a loop that has them
\* acknowledges them or a trim takes them, and go to another loop only when overdue.
THEOREM LeasedQueueImplemented == Spec => ImplementsLeasedQueue
<1>1. Init => Queue!QInit
  <2> SUFFICES ASSUME Init
               PROVE  Queue!QInit
    OBVIOUS
  <2>1. \A d \in Consumers : InHand(d) = {}
    BY DEF Init, InHand
  <2> QED
    BY <2>1 DEF Init, Queue!QInit, GroupCreated
<1>2. Inv /\ CopyInv /\ [Next]_vars => [Queue!QNext]_Queue!qvars
  <2> SUFFICES ASSUME Inv, CopyInv, [Next]_vars
               PROVE  [Queue!QNext]_Queue!qvars
    OBVIOUS
  <2>1. ASSUME NEW k \in Clients,
               \/ \E op \in Calls : CallBegin(k, op)
               \/ Publish(k) \/ TrimStream(k) \/ EnsureStream(k)
        PROVE  [Queue!QNext]_Queue!qvars
    BY <2>1, SeenClients, SeenPublish, SeenTrim
  <2>2. ASSUME NEW c \in Consumers,
               \/ Subscribe(c) \/ Unsubscribe(c) \/ Work(c) \/ Die(c)
               \/ Ack(c) \/ AckAgain(c) \/ Nak(c) \/ DeadLetter(c)
        PROVE  [Queue!QNext]_Queue!qvars
    BY <2>2, SeenQuiet, SeenDie, SeenCreateGroup, SeenReclaim, SeenReadGroup, SeenNextEntry,
       SeenAcknowledge, SeenHandlerReturns
       DEF Work
  <2>3. ASSUME NEW e \in Entries, AckTimeout(e)
        PROVE  [Queue!QNext]_Queue!qvars
    BY <2>3, SeenAckTimeout
  <2>4. CASE Close \/ UNCHANGED vars
    <3>1. /\ UNCHANGED <<log, trimmed, groups, delivered, pel, overdue>>
          /\ \A d \in Consumers : InHand(d)' = InHand(d)
      BY <2>4 DEF Close, vars, serverVars, loopVars, InHand
    <3> QED
      BY <3>1, Unseen
  <2> QED
    BY <2>1, <2>2, <2>3, <2>4 DEF Next
<1>3. Spec => []CopyInv
  BY CopyInvHolds
<1> QED
  BY <1>1, <1>2, <1>3, InvHolds, PTL DEF Spec, ImplementsLeasedQueue, Queue!QSpec

=============================================================================
