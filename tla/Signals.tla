------------------------------- MODULE Signals -------------------------------
(***************************************************************************)
(* The signals layer between the provider and the detection layer: the     *)
(* webhooks of one stretch of time, delivered late, twice or out of order, *)
(* the receiver, and the two registries its signals are folded into.  The  *)
(* downtime registry is also fed by the poller, whose answers may be old   *)
(* when they are folded.  One thread runs all of it, so that a stream and  *)
(* a replay are not interrupted.                                           *)
(***************************************************************************)
EXTENDS WebhookReceiver, MandateRegistry, DowntimeRegistry

CONSTANTS
  Lifecycle,    \* the subscription event that an envelope carries, if it does
  Notice,       \* the downtime notification that an envelope carries, if it does
  Outage,       \* external: begin and end of each downtime
  Redelivery,   \* external: how long after created_at an envelope may arrive
  PollDelay,    \* external: how old an answer may be when it is folded
  Streams,      \* bound: the streams that may be replayed
  MaxTime       \* bound

ASSUME SignalsConstants ==
  /\ CreatedAt \in [Envelopes -> Nat]
  /\ Parseable \subseteq Consumed /\ Consumed \subseteq Envelopes
  /\ DOMAIN Lifecycle \subseteq Parseable /\ DOMAIN Notice \subseteq Parseable
  /\ DOMAIN Lifecycle \cap DOMAIN Notice = {}
  /\ \A e \in DOMAIN Lifecycle :
       Lifecycle[e] \in Event /\ Lifecycle[e].at = CreatedAt[e]
  /\ \A e \in DOMAIN Notice :
       Notice[e] \in [downtime: Downtimes, window: Window]
  /\ Outage \in [Downtimes -> [begin: Nat, end: Nat]]
  /\ Tolerance \in Nat /\ Retention \in Nat /\ Redelivery \in Nat /\ PollDelay \in Nat
  /\ Streams \subseteq SUBSET Envelopes
  /\ MaxReplays \in Nat /\ MaxTime \in Nat

\* The provider tells no lies: a notification and a poll give the outage's own
\* begin, a resolved window its end, and a window that is not resolved is told
\* of before that end.
ASSUME NoticesAreTrue ==
  \A e \in DOMAIN Notice :
    LET w == Notice[e].window  o == Outage[Notice[e].downtime]
    IN  /\ w.begin = o.begin
        /\ IF Resolved(w) THEN w.end = o.end ELSE CreatedAt[e] <= o.end

\* prune_resolved forgets a window only when no delivery and no answer of the poller
\* can bring it back. A replay still can.
ASSUME RetentionOutlasts == Redelivery <= Retention /\ PollDelay <= Retention

VARIABLES
  now,          \* clock.now()
  inbox,        \* accepted subscription events, not yet handed to apply_stream
  answer,       \* the poller's answer in flight: the windows listed
  askedAt,      \* when it was given
  closed,       \* auxiliary: downtimes of whose end the registry was told
  revived       \* auxiliary: those that a replay has brought back without their end

vars == <<receiver, registry, windows, now, inbox, answer, askedAt, closed, revived>>

NoAnswer == [d \in {} |-> NoWindow]

Init ==
  /\ ReceiverInit /\ RegistryInit /\ DowntimeInit
  /\ now = 0 /\ inbox = {} /\ answer = NoAnswer /\ askedAt = 0
  /\ closed = {} /\ revived = {}

-----------------------------------------------------------------------------
(* What the caller of dispatch does with its result.                        *)

CarriesEnd(e) == e \in DOMAIN Notice /\ Resolved(Notice[e].window)

InTransit(e) == CreatedAt[e] \in now - Redelivery .. now

\* An old notification that an outage is on, which finds nothing in the registry.
Revives(e) ==
  /\ e \in DOMAIN Notice /\ ~CarriesEnd(e) /\ ~InTransit(e)
  /\ windows[Notice[e].downtime] = NoWindow

\* external: subscription events wait for the next apply_stream, downtime
\* windows go into the registry.
Handle(e) ==
  /\ inbox' = IF e \in DOMAIN Lifecycle THEN inbox \cup {Lifecycle[e]} ELSE inbox
  /\ IF e \in DOMAIN Notice THEN Upsert(Notice[e].downtime, Notice[e].window)
                            ELSE UNCHANGED windows
  /\ closed' = IF CarriesEnd(e) THEN closed \cup {Notice[e].downtime} ELSE closed
  /\ revived' = IF CarriesEnd(e) THEN revived \ {Notice[e].downtime}
                ELSE IF Revives(e) THEN revived \cup {Notice[e].downtime} ELSE revived

Returns(e, by) ==
  /\ \/ Accept(Id(e, by)) /\ Handle(e)
     \/ Duplicate(Id(e, by)) /\ UNCHANGED <<inbox, windows, closed, revived>>
     \/ Ignore(Id(e, by)) /\ UNCHANGED <<inbox, windows, closed, revived>>
  /\ UNCHANGED <<registry, now, answer, askedAt>>

Raises(e, by) ==
  /\ ParserRaises(Id(e, by))
  /\ UNCHANGED <<registry, windows, now, inbox, answer, askedAt, closed, revived>>

Free == stream = {} /\ replaying = {}

Deliver(e) ==
  /\ Free /\ InTransit(e)
  /\ Returns(e, "header") \/ Raises(e, "header")
  /\ UNCHANGED <<replaying, replays>>

\* Whatever has been created may be replayed, however long ago.
StartReplay(batch) ==
  /\ Free
  /\ \A e \in batch : CreatedAt[e] <= now
  /\ Replay(batch)
  /\ UNCHANGED <<registry, windows, now, inbox, answer, askedAt, closed, revived>>

\* An exception ends the whole replay.
ReplayNext(e) ==
  /\ NextInReplay(e)
  /\ \/ Returns(e, "content") /\ replaying' = replaying \ {e}
     \/ Raises(e, "content") /\ replaying' = {}

-----------------------------------------------------------------------------
(* The mandate registry.                                                    *)

StartStream ==
  /\ Free
  /\ ApplyStream(inbox)
  /\ inbox' = {}
  /\ UNCHANGED <<receiver, windows, now, answer, askedAt, closed, revived>>

StreamNext(e) ==
  /\ Fold(e)
  /\ UNCHANGED <<receiver, windows, now, inbox, answer, askedAt, closed, revived>>

-----------------------------------------------------------------------------
(* The poller and the pruning.                                              *)

\* external: the answer lists every outage that is on, and of those that are
\* over as many as it likes.
Truth(d) ==
  IF now <= Outage[d].end
  THEN [status |-> "started", begin |-> Outage[d].begin, end |-> NoEnd]
  ELSE [status |-> "resolved", begin |-> Outage[d].begin, end |-> Outage[d].end]

Ask(ds) ==
  /\ Free /\ answer = NoAnswer
  /\ {d \in Downtimes : now \in Outage[d].begin .. Outage[d].end} \subseteq ds
  /\ \A d \in ds : Outage[d].begin <= now
  /\ answer' = [d \in ds |-> Truth(d)] /\ askedAt' = now
  /\ UNCHANGED <<receiver, registry, windows, now, inbox, closed, revived>>

FoldAnswer ==
  /\ Free /\ answer # NoAnswer
  /\ Extend(answer)
  /\ closed' = closed \cup {d \in DOMAIN answer : Resolved(answer[d])}
  /\ revived' = revived \ {d \in DOMAIN answer : Resolved(answer[d])}
  /\ answer' = NoAnswer /\ askedAt' = 0
  /\ UNCHANGED <<receiver, registry, now, inbox>>

Prune ==
  /\ Free
  /\ PruneResolved(now)
  /\ UNCHANGED <<receiver, registry, now, inbox, answer, askedAt, closed, revived>>

\* An answer in flight arrives in time or is given up.
Tick ==
  /\ Free /\ now < MaxTime
  /\ now' = now + 1
  /\ IF answer # NoAnswer /\ now' > askedAt + PollDelay
     THEN answer' = NoAnswer /\ askedAt' = 0
     ELSE UNCHANGED <<answer, askedAt>>
  /\ UNCHANGED <<receiver, registry, windows, inbox, closed, revived>>

Next ==
  \/ \E e \in Envelopes : Deliver(e) \/ ReplayNext(e)
  \/ \E batch \in Streams : StartReplay(batch)
  \/ StartStream
  \/ \E e \in stream : StreamNext(e)
  \/ \E ds \in SUBSET Downtimes : Ask(ds)
  \/ FoldAnswer \/ Prune \/ Tick

Spec == Init /\ [][Next]_vars

-----------------------------------------------------------------------------
(* Properties.                                                              *)

\* The type invariant of the layer.
TypeOK ==
  /\ ReceiverTypeOK /\ RegistryTypeOK /\ DowntimeTypeOK
  /\ now \in 0 .. MaxTime /\ askedAt \in 0 .. now
  /\ inbox \subseteq Event /\ closed \subseteq Downtimes
  /\ DOMAIN answer \subseteq Downtimes /\ \A d \in DOMAIN answer : answer[d] \in Window

\* Once the registry has been told that an outage is over, no late or repeated
\* notification, no old answer of the poller and no pruning makes it appear to
\* go on: an attempt after the end is not excused by it.  One thing does: replay
\* looks at no ages, so that a notification of the start which is replayed after
\* the window was pruned opens the outage anew, until its end is heard of again.
NoPhantomOutage ==
  \A d \in closed \ revived : now > Outage[d].end + Tolerance => d \notin ActiveAt(now)

=============================================================================
