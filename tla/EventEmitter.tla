----------------------------- MODULE EventEmitter -----------------------------
(***************************************************************************)
(* EventEmitter, dedup_id and DomainPayload of crates/nexus (emitter.rs,     *)
(* payload.rs).  The transport, the callers and the handlers are external.   *)
(* What is published may be delivered at any time, in any order and any      *)
(* number of times.  A caller names an event with dedup_id when it occurs    *)
(* and repeats an emit that failed under that name, or gives up.  Handlers   *)
(* share a set of the names they have seen and skip what bears one of them.  *)
(***************************************************************************)
EXTENDS Integers, Sequences, TLC

CONSTANTS
  Emitters,     \* EventEmitter values
  component, instance_id,  \* their identities: sequences of pieces, "-" is one
  Kinds,        \* kinds of events, sequences of pieces
  MaxEvents,    \* bound: events that ever occur
  MaxSent,      \* bound: payloads ever published
  MaxClock      \* bound: the clock shows 1..MaxClock

ASSUME BoundsAssumption == MaxEvents \in Nat /\ MaxSent \in Nat /\ MaxClock \in Nat \ {0}

ASSUME NamesAssumption ==
  /\ component \in [Emitters -> Seq(STRING)] /\ instance_id \in [Emitters -> Seq(STRING)]
  /\ Kinds \subseteq Seq(STRING)

\* The decimal text of a time says which time it is.
ASSUME TimesAssumption ==
  \A t, u \in 1..MaxClock : ToString(t) = ToString(u) => t = u

VARIABLES
  clock,     \* SystemTime in milliseconds
  emission,  \* emitter -> what its caller is emitting, or Idle
  events,    \* history: the events in the order they occurred
  sent,      \* the payloads published
  accepted,  \* history: the events whose emit returned Ok
  seen,      \* the names the handlers have seen
  handled    \* history: event -> how often it was handled

handlerVars == <<seen, handled>>
vars == <<clock, emission, events, sent, accepted, handlerVars>>

Idle == [at |-> "idle"]

-----------------------------------------------------------------------------
\* Without the timestamp.
id_without_time(e, kind) ==
  component[e] \o <<"-">> \o instance_id[e] \o <<"-">> \o kind

\* {component}-{instance_id}-{event}-{timestamp_millis}
dedup_id(e, kind) ==
  component[e] \o <<"-">> \o instance_id[e] \o <<"-">> \o kind
    \o <<"-", ToString(clock)>>

\* A name made anew by every emit.
PayloadNamedNow(id, n) ==
  [id |-> Append(id, ToString(clock)), ts |-> clock, event |-> n]

\* The timestamp is of the moment the payload is made, once per emit.
DomainPayload(id, n) == [id |-> id, ts |-> clock, event |-> n]

Init ==
  /\ clock = 1
  /\ emission = [e \in Emitters |-> Idle]
  /\ events = <<>> /\ sent = <<>> /\ accepted = {}
  /\ seen = {} /\ handled = [n \in 1..MaxEvents |-> 0]

\* An event occurs, and the caller names it.
Occur(e, kind) ==
  /\ emission[e] = Idle /\ Len(events) < MaxEvents
  /\ events' = Append(events, [by |-> e, kind |-> kind, time |-> clock])
  /\ emission' = [emission EXCEPT ![e] =
       [at |-> "emit", id |-> dedup_id(e, kind), event |-> Len(events) + 1]]
  /\ UNCHANGED <<clock, sent, accepted, handlerVars>>

\* emit and emit_traced up to their await.
Emit(e) ==
  /\ emission[e].at = "emit"
  /\ emission' = [emission EXCEPT ![e] =
       [at |-> "publish", id |-> @.id, event |-> @.event,
        payload |-> DomainPayload(@.id, @.event)]]
  /\ UNCHANGED <<clock, events, sent, accepted, handlerVars>>

\* emit returns what publish returned; or it does not wait for it.
OkAtOnce(o) == TRUE
Returned(o) == o = "ok"

\* The transport publishes or not; when its reply is lost, the caller sees an error.
Answer(e, o) ==
  /\ emission[e].at = "publish"
  /\ IF o = "unsent" THEN UNCHANGED sent
     ELSE /\ Len(sent) < MaxSent
          /\ sent' = Append(sent, emission[e].payload)
  /\ IF Returned(o)
     THEN /\ emission' = [emission EXCEPT ![e] = Idle]
          /\ accepted' = accepted \cup {emission[e].event}
     ELSE /\ emission' = [emission EXCEPT ![e] =
               [at |-> "emit", id |-> @.id, event |-> @.event]]
          /\ UNCHANGED accepted
  /\ UNCHANGED <<clock, events, handlerVars>>

GiveUp(e) ==
  /\ emission[e] # Idle
  /\ emission' = [emission EXCEPT ![e] = Idle]
  /\ UNCHANGED <<clock, events, sent, accepted, handlerVars>>

\* The system clock goes on, or is set back.
Clock ==
  /\ clock' \in {clock - 1, clock + 1} \cap 1..MaxClock
  /\ UNCHANGED <<emission, events, sent, accepted, handlerVars>>

\* A handler of a delivered payload, unless it has seen the name.
Handle(i) ==
  /\ sent[i].id \notin seen
  /\ seen' = seen \cup {sent[i].id}
  /\ handled' = [handled EXCEPT ![sent[i].event] = @ + 1]
  /\ UNCHANGED <<clock, emission, events, sent, accepted>>

Next ==
  \/ \E e \in Emitters : \/ \E kind \in Kinds : Occur(e, kind)
                         \/ Emit(e) \/ GiveUp(e)
                         \/ \E o \in {"ok", "unsent", "reply_lost"} : Answer(e, o)
  \/ \E i \in 1..Len(sent) : Handle(i)
  \/ Clock

Spec == Init /\ [][Next]_vars

-----------------------------------------------------------------------------
(* Properties.                                                              *)

Named(n) == component[events[n].by] \o <<"-">> \o instance_id[events[n].by]
              \o <<"-">> \o events[n].kind

Logged(n) == {i \in DOMAIN sent : sent[i].event = n}

\* Lost replies, retries and redeliveries put an event before handlers many times; they
\* handle it once.
HandledOnce == \A n \in 1..MaxEvents : handled[n] <= 1

\* An event that handlers take for one they have seen, and never handle, has a twin: one
\* that was named in the same millisecond, by names that read the same once joined.
SkippedForTwin ==
  \A n \in 1..Len(events) :
    handled[n] = 0 /\ (\E i \in Logged(n) : sent[i].id \in seen) =>
      \E m \in 1..Len(events) : /\ m # n /\ handled[m] = 1
                                /\ events[m].time = events[n].time
                                /\ Named(m) = Named(n)

\* What emit said Ok to was published, whatever failed before.
AcceptedIsLogged == \A n \in accepted : Logged(n) # {}

=============================================================================
