------------------------- MODULE EventEmitter_proofs -------------------------
(***************************************************************************)
(* Proofs about EventEmitter, for any emitters, identities and kinds, and   *)
(* any bounds.  What the names are made of matters only to the last theorem. *)
(***************************************************************************)
EXTENDS EventEmitter, SequenceTheorems, TLAPS

Ids == {component[e] \o <<"-">> \o instance_id[e] \o <<"-">> \o kind
          \o <<"-", ToString(t)>> : e \in Emitters, kind \in Kinds, t \in 1..MaxClock}

Payloads == [id : Ids, ts : 1..MaxClock, event : 1..MaxEvents]

Emissions ==
       {Idle}
  \cup [at : {"emit"}, id : Ids, event : 1..MaxEvents]
  \cup [at : {"publish"}, id : Ids, event : 1..MaxEvents, payload : Payloads]

Types ==
  /\ clock \in 1..MaxClock
  /\ emission \in [Emitters -> Emissions]
  /\ events \in Seq([by : Emitters, kind : Kinds, time : 1..MaxClock])
  /\ sent \in Seq(Payloads)
  /\ handled \in [1..MaxEvents -> Nat]

\* What is emitted and what was sent for an event bears one name; emissions are of
\* events that occurred, each of its own.
OneName ==
  /\ \A e \in Emitters : emission[e] # Idle => emission[e].event <= Len(events)
  /\ \A i \in DOMAIN sent : sent[i].event <= Len(events)
  /\ \A i, j \in DOMAIN sent : sent[i].event = sent[j].event => sent[i].id = sent[j].id
  /\ \A e \in Emitters, i \in DOMAIN sent :
       emission[e] # Idle /\ emission[e].event = sent[i].event => emission[e].id = sent[i].id
  /\ \A e \in Emitters : emission[e].at = "publish" =>
       emission[e].payload.id = emission[e].id /\ emission[e].payload.event = emission[e].event
  /\ \A d, e \in Emitters : emission[d] # Idle /\ emission[e] # Idle
                              /\ emission[d].event = emission[e].event => d = e

\* A handled event was sent, and its name has been seen.
Known ==
  \A n \in 1..MaxEvents :
    /\ handled[n] <= 1
    /\ handled[n] # 0 => \E i \in DOMAIN sent : sent[i].event = n /\ sent[i].id \in seen

Inv == Types /\ OneName /\ Known /\ AcceptedIsLogged

-----------------------------------------------------------------------------

LEMMA Emission ==
  ASSUME NEW x \in Emissions
  PROVE  /\ x # Idle => x.event \in 1..MaxEvents /\ x.id \in Ids
         /\ x.at \in {"emit", "publish"} => x # Idle
         /\ x.at = "publish" => x.payload \in Payloads
BY DEF Emissions, Idle

LEMMA SentPayload ==
  ASSUME Types, NEW i \in DOMAIN sent
  PROVE  sent[i] \in Payloads /\ sent[i].event \in 1..MaxEvents
<1>1. sent[i] \in Payloads
  BY DEF Types
<1> QED BY <1>1 DEF Payloads

LEMMA NameIsId ==
  ASSUME NEW e \in Emitters, NEW kind \in Kinds, clock \in 1..MaxClock
  PROVE  dedup_id(e, kind) \in Ids
<1> DEFINE name(d, k, t) == component[d] \o <<"-">> \o instance_id[d] \o <<"-">> \o k
                               \o <<"-", ToString(t)>>
<1>1. dedup_id(e, kind) = name(e, kind, clock)
  BY DEF dedup_id
<1>2. Ids = {name(d, k, t) : d \in Emitters, k \in Kinds, t \in 1..MaxClock}
  BY DEF Ids
<1> HIDE DEF name
<1> QED BY <1>1, <1>2

LEMMA InitInv == Init => Inv
<1> SUFFICES ASSUME Init PROVE Inv
  OBVIOUS
<1>1. sent = <<>> /\ DOMAIN sent = {} /\ Len(events) = 0 /\ events = <<>>
  BY DEF Init
<1>2. Types
  BY <1>1, BoundsAssumption DEF Init, Types, Emissions
<1>3. OneName
  BY <1>1 DEF Init, OneName, Idle
<1>4. Known /\ AcceptedIsLogged
  BY DEF Init, Known, AcceptedIsLogged
<1> QED BY <1>2, <1>3, <1>4 DEF Inv

\* An event occurs: none of what is on its way is of it.
LEMMA OccurInv ==
  ASSUME Inv, NEW e \in Emitters, NEW kind \in Kinds, Occur(e, kind)
  PROVE  Inv'
<1> USE DEF Inv
<1> DEFINE n == Len(events) + 1
           new == [at |-> "emit", id |-> dedup_id(e, kind), event |-> n]
<1>1. n \in 1..MaxEvents /\ dedup_id(e, kind) \in Ids
  BY NameIsId, BoundsAssumption DEF Occur, Types
<1>2. Len(events') = n /\ events' \in Seq([by : Emitters, kind : Kinds, time : 1..MaxClock])
  BY DEF Occur, Types
<1>3. new \in Emissions /\ new # Idle
  BY <1>1 DEF Emissions, Idle
<1> HIDE DEF n
<1>4. Types'
  BY <1>2, <1>3 DEF Occur, Types, handlerVars, n
<1>5. \A d \in Emitters : emission'[d] = IF d = e THEN new ELSE emission[d]
  BY DEF Occur, Types, n
<1>6. \A d \in Emitters : emission[d] # Idle => emission[d].event \in Nat /\ emission[d].event < n
  BY Emission DEF OneName, Types, n
<1>7. \A i \in DOMAIN sent : sent[i].event \in Nat /\ sent[i].event < n
  BY SentPayload DEF OneName, Types, n
<1>8. UNCHANGED <<sent, seen, handled, accepted>>
  BY DEF Occur, handlerVars
<1>9. OneName'
  <2>1. new.event = n /\ new.at = "emit" /\ n \in Nat
    BY <1>1
  <2>2. \A i \in DOMAIN sent' : sent'[i].event <= Len(events')
    BY <1>1, <1>2, <1>7, <1>8
  <2>3. \A d \in Emitters : emission'[d] # Idle => emission'[d].event <= Len(events')
    BY <1>2, <1>5, <1>6, <2>1
  <2>4. \A d \in Emitters, i \in DOMAIN sent' :
          emission'[d] # Idle /\ emission'[d].event = sent'[i].event => emission'[d].id = sent'[i].id
    BY <1>5, <1>7, <1>8, <2>1 DEF OneName
  <2>5. \A d \in Emitters : emission'[d].at = "publish" =>
          emission'[d].payload.id = emission'[d].id /\ emission'[d].payload.event = emission'[d].event
    BY <1>5, <2>1 DEF OneName
  <2>6. \A c, d \in Emitters : emission'[c] # Idle /\ emission'[d] # Idle
                                 /\ emission'[c].event = emission'[d].event => c = d
    BY <1>5, <1>6, <2>1 DEF OneName
  <2> QED BY <1>8, <2>2, <2>3, <2>4, <2>5, <2>6 DEF OneName
<1>10. Known' /\ AcceptedIsLogged'
  BY <1>8 DEF Known, AcceptedIsLogged, Logged
<1> QED BY <1>4, <1>9, <1>10

\* An emission goes on under its name, or ends, and nothing is sent.
LEMMA EmissionInv ==
  ASSUME Inv, NEW e \in Emitters, NEW new \in Emissions,
         emission' = [emission EXCEPT ![e] = new],
         \/ new = Idle
         \/ /\ emission[e] # Idle /\ new.event = emission[e].event /\ new.id = emission[e].id
            /\ new.at = "publish" => new.payload.id = new.id /\ new.payload.event = new.event,
         UNCHANGED <<clock, events, sent, handlerVars>>, accepted' = accepted
  PROVE  Inv'
<1> USE DEF Inv, handlerVars
<1>1. \A d \in Emitters : emission'[d] = IF d = e THEN new ELSE emission[d]
  BY DEF Types
<1>2. Types'
  BY DEF Types
<1>3. OneName'
  BY <1>1 DEF OneName, Idle
<1>4. Known' /\ AcceptedIsLogged'
  BY DEF Known, AcceptedIsLogged, Logged
<1> QED BY <1>2, <1>3, <1>4

\* A payload is sent, and the emission ends or is to be repeated.
LEMMA SendInv ==
  ASSUME Inv, NEW e \in Emitters, emission[e].at = "publish", NEW new \in Emissions,
         emission' = [emission EXCEPT ![e] = new],
         \/ new = Idle
         \/ new.at = "emit" /\ new.event = emission[e].event /\ new.id = emission[e].id,
         sent' = Append(sent, emission[e].payload),
         UNCHANGED <<clock, events, handlerVars>>,
         accepted' \subseteq accepted \cup {emission[e].event}
  PROVE  Inv'
<1> USE DEF Inv, handlerVars
<1> DEFINE p == emission[e].payload
<1>0. emission[e] \in Emissions /\ emission[e] # Idle /\ p \in Payloads
  BY Emission DEF Types
<1>1. \A d \in Emitters : emission'[d] = IF d = e THEN new ELSE emission[d]
  BY DEF Types
<1>2. /\ sent' \in Seq(Payloads) /\ DOMAIN sent \subseteq DOMAIN sent'
      /\ \A i \in DOMAIN sent' : IF i \in DOMAIN sent THEN sent'[i] = sent[i] ELSE sent'[i] = p
      /\ \E i \in DOMAIN sent' : sent'[i] = p
  <2>1. sent \in Seq(Payloads) /\ sent' = Append(sent, p)
    BY DEF Types
  <2> HIDE DEF p
  <2>2. Len(sent') = Len(sent) + 1 /\ sent'[Len(sent) + 1] = p /\ sent' \in Seq(Payloads)
    BY <1>0, <2>1
  <2>3. \A i \in 1..Len(sent) : sent'[i] = sent[i]
    BY <1>0, <2>1
  <2> QED BY <2>1, <2>2, <2>3
<1>3. p.id = emission[e].id /\ p.event = emission[e].event
  BY DEF OneName
<1> HIDE DEF p
<1>4. Types'
  BY <1>2 DEF Types
<1>5. OneName'
  <2>1. \A i \in DOMAIN sent' : sent'[i].event <= Len(events')
    BY <1>0, <1>2, <1>3 DEF OneName
  <2>2. \A i, j \in DOMAIN sent' : sent'[i].event = sent'[j].event => sent'[i].id = sent'[j].id
    BY <1>0, <1>2, <1>3 DEF OneName
  <2>3. \A d \in Emitters : emission'[d] # Idle => emission'[d].event <= Len(events')
    BY <1>0, <1>1 DEF OneName
  <2>4. ASSUME NEW d \in Emitters, NEW i \in DOMAIN sent',
               emission'[d] # Idle, emission'[d].event = sent'[i].event
        PROVE  emission'[d].id = sent'[i].id
    <3>1. /\ emission[d] # Idle /\ emission[d].event = emission'[d].event
          /\ emission[d].id = emission'[d].id
      BY <1>0, <1>1, <2>4
    <3>2. CASE i \in DOMAIN sent
      BY <1>2, <2>4, <3>1, <3>2 DEF OneName
    <3>3. CASE i \notin DOMAIN sent
      BY <1>0, <1>2, <1>3, <2>4, <3>1, <3>3 DEF OneName
    <3> QED BY <3>2, <3>3
  <2>5. \A d \in Emitters : emission'[d].at = "publish" =>
          emission'[d].payload.id = emission'[d].id /\ emission'[d].payload.event = emission'[d].event
    BY <1>1 DEF OneName, Idle
  <2>6. \A c, d \in Emitters : emission'[c] # Idle /\ emission'[d] # Idle
                                 /\ emission'[c].event = emission'[d].event => c = d
    BY <1>0, <1>1 DEF OneName
  <2> QED BY <2>1, <2>2, <2>3, <2>4, <2>5, <2>6 DEF OneName
<1>6. Known'
  BY <1>2 DEF Known
<1>7. AcceptedIsLogged'
  BY <1>2, <1>3 DEF AcceptedIsLogged, Logged
<1> QED BY <1>4, <1>5, <1>6, <1>7

LEMMA EmitInv ==
  ASSUME Inv, NEW e \in Emitters, Emit(e)
  PROVE  Inv'
<1> DEFINE x == emission[e]
           new == [at |-> "publish", id |-> x.id, event |-> x.event,
                   payload |-> DomainPayload(x.id, x.event)]
<1>1. x \in Emissions /\ x # Idle /\ x.event \in 1..MaxEvents /\ x.id \in Ids
  BY Emission DEF Emit, Inv, Types
<1>2. DomainPayload(x.id, x.event) \in Payloads
      /\ DomainPayload(x.id, x.event).id = x.id /\ DomainPayload(x.id, x.event).event = x.event
  BY <1>1 DEF DomainPayload, Payloads, Inv, Types
<1>3. new \in Emissions
  BY <1>1, <1>2 DEF Emissions
<1>4. emission' = [emission EXCEPT ![e] = new]
      /\ UNCHANGED <<clock, events, sent, handlerVars>> /\ accepted' = accepted
  BY DEF Emit
<1>5. new.event = x.event /\ new.id = x.id /\ new.payload.id = new.id /\ new.payload.event = new.event
  BY <1>2
<1> HIDE DEF new
<1> QED BY <1>1, <1>3, <1>4, <1>5, EmissionInv

LEMMA AnswerInv ==
  ASSUME Inv, NEW e \in Emitters, NEW o \in {"ok", "unsent", "reply_lost"}, Answer(e, o)
  PROVE  Inv'
<1> DEFINE x == emission[e]
           again == [at |-> "emit", id |-> x.id, event |-> x.event]
<1>1. x \in Emissions /\ x # Idle /\ x.event \in 1..MaxEvents /\ x.id \in Ids /\ x.at = "publish"
  BY Emission DEF Answer, Inv, Types
<1>2. again \in Emissions /\ Idle \in Emissions
  BY <1>1 DEF Emissions
<1>3. again.at = "emit" /\ again.event = x.event /\ again.id = x.id
  OBVIOUS
<1>4. UNCHANGED <<clock, events, handlerVars>>
  BY DEF Answer
<1>5. \/ emission' = [emission EXCEPT ![e] = Idle] /\ o # "unsent"
      \/ emission' = [emission EXCEPT ![e] = again] /\ accepted' = accepted
  BY DEF Answer, Returned
<1>6. accepted' \subseteq accepted \cup {emission[e].event}
  BY DEF Answer
<1>7. IF o = "unsent" THEN sent' = sent ELSE sent' = Append(sent, emission[e].payload)
  BY DEF Answer
<1> HIDE DEF again
<1>8. CASE o = "unsent"
  BY <1>1, <1>2, <1>3, <1>4, <1>5, <1>7, <1>8, EmissionInv
<1>9. CASE o # "unsent"
  BY <1>1, <1>2, <1>3, <1>4, <1>5, <1>6, <1>7, <1>9, SendInv
<1> QED BY <1>8, <1>9

LEMMA GiveUpInv ==
  ASSUME Inv, NEW e \in Emitters, GiveUp(e)
  PROVE  Inv'
<1>1. Idle \in Emissions
  BY DEF Emissions
<1> QED BY <1>1, EmissionInv DEF GiveUp

\* A handler takes only what bears a name of no event it has handled.
LEMMA HandleInv ==
  ASSUME Inv, NEW i \in 1..Len(sent), Handle(i)
  PROVE  Inv'
<1> USE DEF Inv
<1> DEFINE n == sent[i].event
<1>1. i \in DOMAIN sent /\ n \in 1..MaxEvents
  <2>1. i \in DOMAIN sent
    BY DEF Types
  <2> QED BY <2>1, SentPayload
<1>2. UNCHANGED <<clock, emission, events, sent, accepted>>
  BY DEF Handle
<1>3. handled[n] = 0
  <2>1. \A j \in DOMAIN sent : sent[j].event = n => sent[j].id \notin seen
    BY <1>1 DEF Handle, OneName
  <2> QED BY <1>1, <2>1 DEF Known
<1>4. handled' = [handled EXCEPT ![n] = handled[n] + 1] /\ seen' = seen \cup {sent[i].id}
  BY DEF Handle
<1> HIDE DEF n
<1>5. \A m \in 1..MaxEvents : handled'[m] = IF m = n THEN 1 ELSE handled[m]
  BY <1>1, <1>3, <1>4 DEF Types
<1>6. Types'
  BY <1>1, <1>2, <1>3, <1>4 DEF Types
<1>7. OneName' /\ AcceptedIsLogged'
  BY <1>2 DEF OneName, AcceptedIsLogged, Logged
<1>8. Known'
  BY <1>1, <1>2, <1>4, <1>5 DEF Known, n
<1> QED BY <1>6, <1>7, <1>8

LEMMA NextInv == Inv /\ [Next]_vars => Inv'
<1> SUFFICES ASSUME Inv, [Next]_vars PROVE Inv'
  OBVIOUS
<1>1. CASE \/ Clock
           \/ UNCHANGED vars
  <2>1. UNCHANGED <<emission, events, sent, accepted, seen, handled>> /\ clock' \in 1..MaxClock
    BY <1>1 DEF Clock, vars, handlerVars, Inv, Types
  <2> QED BY <2>1 DEF Inv, Types, OneName, Known, AcceptedIsLogged, Logged
<1> QED BY <1>1, OccurInv, EmitInv, AnswerInv, GiveUpInv, HandleInv DEF Next

\* However often an emit is repeated and its payloads are delivered, and whatever the
\* clock does, no event is handled twice.
THEOREM NeverHandledTwice == Spec => []HandledOnce
<1>1. Inv => HandledOnce
  BY DEF Inv, Known, HandledOnce
<1> QED BY <1>1, InitInv, NextInv, PTL DEF Spec

\* No emit returns Ok for an event of which nothing was published.
THEOREM AcceptedLogged == Spec => []AcceptedIsLogged
<1>1. Inv => AcceptedIsLogged
  BY DEF Inv
<1> QED BY <1>1, InitInv, NextInv, PTL DEF Spec

-----------------------------------------------------------------------------
(* Who a name is of.                                                         *)

Part(x) == component[x.by] \o <<"-">> \o instance_id[x.by] \o <<"-">> \o x.kind
Ended(a, z, x) == a \o <<z, x>>
Name(x) == Ended(Part(x), "-", ToString(x.time))

Events == [by : Emitters, kind : Kinds, time : 1..MaxClock]

\* What is emitted and what was sent for an event bears the name it got as it occurred.
NamedForEvent ==
  /\ \A e \in Emitters : emission[e] # Idle => emission[e].id = Name(events[emission[e].event])
  /\ \A i \in DOMAIN sent : sent[i].id = Name(events[sent[i].event])

\* A name is seen because an event that bears it was handled.
SeenIsHandled ==
  \A id \in seen : \E i \in DOMAIN sent : sent[i].id = id /\ handled[sent[i].event] = 1

NamedInv == NamedForEvent /\ SeenIsHandled

LEMMA JoinedText ==
  ASSUME NEW S, NEW a \in Seq(S), NEW b \in Seq(S), NEW c \in Seq(S), NEW z \in S
  PROVE  a \o <<z>> \o b \o <<z>> \o c \in Seq(S)
<1>1. <<z>> \in Seq(S)
  OBVIOUS
<1>2. a \o <<z>> \in Seq(S)
  BY <1>1, ConcatProperties
<1>3. a \o <<z>> \o b \in Seq(S)
  BY <1>2, ConcatProperties
<1>4. a \o <<z>> \o b \o <<z>> \in Seq(S)
  BY <1>1, <1>3, ConcatProperties
<1> QED BY <1>4, ConcatProperties

\* What is joined of the same last part is the same.
LEMMA LastPart ==
  ASSUME NEW S, NEW a \in Seq(S), NEW b \in Seq(S), NEW x \in S, NEW y \in S, NEW z \in S,
         Ended(a, z, x) = Ended(b, z, y)
  PROVE  a = b /\ x = y
<1> USE DEF Ended
<1>1. /\ Len(a \o <<z, x>>) = Len(a) + 2 /\ Len(b \o <<z, y>>) = Len(b) + 2
      /\ (a \o <<z, x>>)[Len(a) + 2] = x /\ (b \o <<z, y>>)[Len(b) + 2] = y
  OBVIOUS
<1>2. Len(a) = Len(b) /\ x = y
  BY <1>1
<1>3. ASSUME NEW i \in 1..Len(a)
      PROVE  a[i] = b[i]
  <2>1. (a \o <<z, x>>)[i] = a[i] /\ (b \o <<z, y>>)[i] = b[i]
    BY <1>2
  <2> QED BY <2>1
<1> QED BY <1>2, <1>3, SeqEqual

\* Events with one name occurred in one millisecond, under names that read the same.
LEMMA OneNameTwins ==
  ASSUME NEW x \in Events, NEW y \in Events, Name(x) = Name(y)
  PROVE  x.time = y.time /\ Part(x) = Part(y)
<1> DEFINE S == STRING \cup {"-"} \cup {ToString(t) : t \in 1..MaxClock}
<1>1. x.time \in 1..MaxClock /\ y.time \in 1..MaxClock
  BY DEF Events
<1>2. "-" \in S /\ STRING \subseteq S /\ \A t \in 1..MaxClock : ToString(t) \in S
  OBVIOUS
<1> DEFINE T == STRING
<1>3. /\ component \in [Emitters -> Seq(T)] /\ instance_id \in [Emitters -> Seq(T)]
      /\ Kinds \subseteq Seq(T) /\ T \subseteq S
  BY <1>2, NamesAssumption
<1> HIDE DEF S, T
<1>4. \A q \in Seq(T) : q \in Seq(S)
  BY <1>3
<1>5. ASSUME NEW e \in Events
      PROVE  Part(e) \in Seq(S)
  <2>1. component[e.by] \in Seq(T) /\ instance_id[e.by] \in Seq(T) /\ e.kind \in Seq(T)
    BY <1>3 DEF Events
  <2>2. component[e.by] \in Seq(S) /\ instance_id[e.by] \in Seq(S) /\ e.kind \in Seq(S)
    BY <1>4, <2>1
  <2> QED BY <1>2, <2>2, JoinedText DEF Part
<1> DEFINE a == Part(x)  b == Part(y)  t == ToString(x.time)  u == ToString(y.time)  z == "-"
<1>6. /\ a \in Seq(S) /\ b \in Seq(S) /\ t \in S /\ u \in S /\ z \in S
      /\ Ended(a, z, t) = Ended(b, z, u)
  BY <1>1, <1>2, <1>5 DEF Name
<1>7. a = b /\ t = u
  <2> HIDE DEF a, b, t, u, z
  <2> QED BY <1>6, LastPart
<1> QED BY <1>1, <1>7, TimesAssumption

\* The event that occurs is added to those before it, and named as it is.
LEMMA NewEvent ==
  ASSUME Types, NEW e \in Emitters, NEW kind \in Kinds, Occur(e, kind)
  PROVE  /\ \A n \in 1..Len(events) : events'[n] = events[n]
         /\ dedup_id(e, kind) = Name(events'[Len(events) + 1])
<1> DEFINE new == [by |-> e, kind |-> kind, time |-> clock]
<1>1. new \in Events /\ events \in Seq(Events) /\ events' = Append(events, new)
  BY DEF Occur, Types, Events
<1>2. new.by = e /\ new.kind = kind /\ new.time = clock
  OBVIOUS
<1> HIDE DEF new
<1>3. /\ \A n \in 1..Len(events) : events'[n] = events[n]
      /\ events'[Len(events) + 1] = new
  BY <1>1, AppendProperties
<1>4. dedup_id(e, kind) = Name(new)
  BY <1>2 DEF Name, Ended, Part, dedup_id
<1> QED BY <1>3, <1>4

LEMMA NamedNext ==
  ASSUME Inv, NamedInv, [Next]_vars
  PROVE  NamedInv'
<1> USE DEF Inv, NamedInv
<1>1. CASE UNCHANGED <<events, sent, handlerVars>>
           /\ \A e \in Emitters : emission'[e] # Idle =>
                /\ emission[e] # Idle /\ emission'[e].id = emission[e].id
                /\ emission'[e].event = emission[e].event
  BY <1>1 DEF NamedForEvent, SeenIsHandled, handlerVars
<1>2. ASSUME NEW e \in Emitters, NEW kind \in Kinds, Occur(e, kind)
      PROVE  NamedInv'
  <2> DEFINE new == [at |-> "emit", id |-> dedup_id(e, kind), event |-> Len(events) + 1]
  <2>1. UNCHANGED <<sent, handled, seen>> /\ emission' = [emission EXCEPT ![e] = new]
    BY <1>2 DEF Occur, handlerVars
  <2>2. new.id = Name(events'[new.event]) /\ \A n \in 1..Len(events) : events'[n] = events[n]
    BY <1>2, NewEvent
  <2> HIDE DEF new
  <2>3. /\ \A d \in Emitters : emission[d] # Idle => emission[d].event \in 1..Len(events)
        /\ \A i \in DOMAIN sent : sent[i].event \in 1..Len(events)
    <3>1. \A d \in Emitters : emission[d] \in Emissions
      BY DEF Types
    <3>2. Len(events) \in Nat
      BY DEF Types
    <3> QED BY <3>1, <3>2, Emission, SentPayload DEF OneName
  <2>4. ASSUME NEW d \in Emitters, emission'[d] # Idle
        PROVE  emission'[d].id = Name(events'[emission'[d].event])
    <3>1. emission'[d] = IF d = e THEN new ELSE emission[d]
      BY <2>1 DEF Types
    <3>2. CASE d = e
      BY <2>2, <3>1, <3>2
    <3>3. CASE d # e
      BY <2>2, <2>3, <2>4, <3>1, <3>3 DEF NamedForEvent
    <3> QED BY <3>2, <3>3
  <2>5. \A i \in DOMAIN sent' : sent'[i].id = Name(events'[sent'[i].event])
    BY <2>1, <2>2, <2>3 DEF NamedForEvent
  <2>6. NamedForEvent'
    BY <2>4, <2>5 DEF NamedForEvent
  <2> QED BY <2>1, <2>6 DEF SeenIsHandled
<1>3. ASSUME NEW e \in Emitters, Emit(e) \/ GiveUp(e)
      PROVE  NamedInv'
  <2>1. UNCHANGED <<events, sent, handlerVars>> /\ emission[e] # Idle
    BY <1>3 DEF Emit, GiveUp, Idle
  <2>2. ASSUME NEW d \in Emitters, emission'[d] # Idle
        PROVE  /\ emission[d] # Idle /\ emission'[d].id = emission[d].id
               /\ emission'[d].event = emission[d].event
    <3>1. CASE GiveUp(e)
      BY <2>2, <3>1 DEF GiveUp, Types
    <3>2. CASE Emit(e)
      <4>1. /\ \A x \in Emitters \ {e} : emission'[x] = emission[x]
            /\ emission'[e].id = emission[e].id /\ emission'[e].event = emission[e].event
        BY <3>2 DEF Emit, Types
      <4> QED BY <2>1, <2>2, <4>1
    <3> QED BY <1>3, <3>1, <3>2
  <2> QED BY <1>1, <2>1, <2>2
<1>4. ASSUME NEW e \in Emitters, NEW o \in {"ok", "unsent", "reply_lost"}, Answer(e, o)
      PROVE  NamedInv'
  <2> DEFINE p == emission[e].payload
  <2>1. /\ emission[e] # Idle /\ UNCHANGED <<events, handlerVars>>
        /\ p.id = emission[e].id /\ p.event = emission[e].event
    BY <1>4 DEF Answer, Idle, OneName
  <2>2. ASSUME NEW d \in Emitters, emission'[d] # Idle
        PROVE  /\ emission[d] # Idle /\ emission'[d].id = emission[d].id
               /\ emission'[d].event = emission[d].event
    BY <1>4, <2>1, <2>2 DEF Answer, Types
  <2>3. CASE sent' = sent
    BY <1>1, <2>1, <2>2, <2>3
  <2>4. CASE sent' = Append(sent, p)
    <3>1. p \in Payloads /\ sent \in Seq(Payloads)
      BY <1>4, Emission DEF Answer, Types
    <3> HIDE DEF p
    <3>2. /\ \A i \in DOMAIN sent : i \in DOMAIN sent' /\ sent'[i] = sent[i]
          /\ \A i \in DOMAIN sent' : i \in DOMAIN sent \/ sent'[i] = p
      <4>1. /\ Len(sent') = Len(sent) + 1 /\ sent'[Len(sent) + 1] = p
            /\ \A i \in 1..Len(sent) : sent'[i] = sent[i]
            /\ sent' \in Seq(Payloads) /\ DOMAIN sent = 1..Len(sent) /\ Len(sent) \in Nat
        BY <2>4, <3>1, AppendProperties
      <4> QED BY <4>1
    <3>3. \A i \in DOMAIN sent' : sent'[i].id = Name(events[sent'[i].event])
      BY <2>1, <3>2 DEF NamedForEvent
    <3>5. NamedForEvent'
      BY <2>1, <2>2, <3>3 DEF NamedForEvent
    <3>6. SeenIsHandled'
      BY <2>1, <3>2 DEF SeenIsHandled, handlerVars
    <3> QED BY <3>5, <3>6
  <2> QED BY <1>4, <2>3, <2>4 DEF Answer
<1>5. ASSUME NEW i \in 1..Len(sent), Handle(i)
      PROVE  NamedInv'
  <2> DEFINE n == sent[i].event
  <2>1. i \in DOMAIN sent /\ UNCHANGED <<emission, events, sent>>
        /\ seen' = seen \cup {sent[i].id} /\ handled' = [handled EXCEPT ![n] = @ + 1]
    BY <1>5 DEF Handle, Types
  <2>2. n \in 1..MaxEvents
    BY <2>1, SentPayload
  <2>3. handled[n] = 0
    BY <1>5, <2>1, <2>2 DEF Handle, OneName, Known
  <2> HIDE DEF n
  <2>4. \A m \in 1..MaxEvents : handled'[m] = IF m = n THEN 1 ELSE handled[m]
    BY <2>1, <2>2, <2>3 DEF Types
  <2>5. \A j \in DOMAIN sent : sent[j].event \in 1..MaxEvents
    BY SentPayload
  <2>6. SeenIsHandled'
    BY <2>1, <2>2, <2>4, <2>5 DEF SeenIsHandled, n
  <2>7. NamedForEvent'
    BY <2>1 DEF NamedForEvent
  <2> QED BY <2>6, <2>7
<1>6. CASE Clock \/ UNCHANGED vars
  BY <1>1, <1>6 DEF Clock, vars, handlerVars
<1> QED BY <1>2, <1>3, <1>4, <1>5, <1>6 DEF Next

\* Deduplication drops an event only for a twin: one that was handled, occurred in the
\* same millisecond and is named the same once component, instance and kind are joined.
\* Nothing else loses an event to the names: not retries, clocks set back, or redeliveries.
THEOREM SkippedOnlyForTwin == Spec => []SkippedForTwin
<1>1. Init => NamedInv
  BY DEF Init, NamedInv, NamedForEvent, SeenIsHandled
<1>2. ASSUME Inv, NamedInv
      PROVE  SkippedForTwin
  <2> SUFFICES ASSUME NEW n \in 1..Len(events), handled[n] = 0,
                      NEW i \in Logged(n), sent[i].id \in seen
               PROVE  \E m \in 1..Len(events) : /\ m # n /\ handled[m] = 1
                                                /\ events[m].time = events[n].time
                                                /\ Named(m) = Named(n)
    BY DEF SkippedForTwin
  <2>1. i \in DOMAIN sent /\ sent[i].event = n
    BY DEF Logged
  <2>2. PICK j \in DOMAIN sent : sent[j].id = sent[i].id /\ handled[sent[j].event] = 1
    BY <1>2 DEF NamedInv, SeenIsHandled
  <2> DEFINE m == sent[j].event
  <2>3. m \in 1..Len(events)
    BY <1>2, SentPayload DEF Inv, OneName, Types
  <2>4. Name(events[n]) = Name(events[m])
    BY <1>2, <2>1, <2>2 DEF NamedInv, NamedForEvent
  <2> HIDE DEF m
  <2>5. events[m].time = events[n].time /\ Named(m) = Named(n)
    <3>1. events[n] \in Events /\ events[m] \in Events
      <4>1. events \in Seq(Events) /\ n \in 1..Len(events)
        BY <1>2 DEF Inv, Types, Events
      <4> QED BY <2>3, <4>1
    <3>2. Part(events[n]) = Named(n) /\ Part(events[m]) = Named(m)
      BY DEF Part, Named
    <3> QED BY <2>4, <3>1, <3>2, OneNameTwins
  <2>6. m # n /\ handled[m] = 1
    BY <2>2 DEF m
  <2> QED BY <2>3, <2>5, <2>6
<1>3. Spec => [](Inv /\ NamedInv)
  <2>1. Init => Inv /\ NamedInv
    BY <1>1, InitInv
  <2>2. Inv /\ NamedInv /\ [Next]_vars => (Inv /\ NamedInv)'
    BY NextInv, NamedNext
  <2> QED BY <2>1, <2>2, PTL DEF Spec
<1> QED BY <1>2, <1>3, PTL

===============================================================================
