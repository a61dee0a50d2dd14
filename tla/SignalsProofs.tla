--------------------------- MODULE SignalsProofs ---------------------------
(***************************************************************************)
(* Machine-checked facts about Signals, for any envelopes, subscriptions,  *)
(* downtimes, delays and streams.  The receiver counts every delivery once *)
(* because it records before it acts.  A mandate is over as soon as one of *)
(* the events that end it is applied, because every state that is not      *)
(* terminal may legally end.  A downtime of whose end the registry knows   *)
(* is resolved, or was pruned at a time after which nothing that was sent  *)
(* before the end is delivered; what is replayed then is kept apart.       *)
(***************************************************************************)
EXTENDS Signals, SequenceTheorems, WellFoundedInduction, TLAPS

-----------------------------------------------------------------------------
(* The invariant.                                                           *)

ReceiverInv ==
  /\ recorded \in [DeliveryId -> Nat] /\ accepted \in [Envelopes -> Nat]
  /\ OneEventPerDelivery

Machine == [state : State, transitions : Seq(Transition), ignored : Seq(Transition)]

MachineType == machines \in [Subscriptions -> Machine]

MandateInv == MachineType /\ stream \subseteq Event /\ inbox \subseteq Event /\ EndedForGood

\* Only envelopes are replayed.
ReplayInv == now \in Nat /\ replaying \subseteq Envelopes

\* A resolved window tells the end of the outage, and an answer in flight either
\* tells it or was given before it.
WindowInv ==
  /\ windows \in [Downtimes -> Window \cup {NoWindow}]
  /\ \A d \in Downtimes : Resolved(windows[d]) => windows[d].end = Outage[d].end

AnswerOK(d) ==
  /\ d \in Downtimes /\ answer[d] \in Window
  /\ askedAt \in Nat /\ now <= askedAt + PollDelay
  /\ IF Resolved(answer[d]) THEN answer[d].end = Outage[d].end ELSE askedAt <= Outage[d].end

AnswerInv == \A d \in DOMAIN answer : AnswerOK(d)

\* Nothing that was sent before the end of the outage can still be delivered.
Forgotten(d) == windows[d] = NoWindow /\ now > Outage[d].end + Retention

ClosedInv ==
  /\ closed \subseteq Downtimes
  /\ \A d \in closed \ revived : Resolved(windows[d]) \/ Forgotten(d)

DowntimeInv == WindowInv /\ AnswerInv /\ ClosedInv

IInv == ReceiverInv /\ MandateInv /\ ReplayInv /\ DowntimeInv

\* In the beginning nothing has arrived.
LEMMA InitIInv == Init => IInv
<1> SUFFICES ASSUME Init PROVE IInv
  OBVIOUS
<1>1. ReceiverInv
  <2>1. \A e \in Envelopes, by \in {"header", "content"} : Id(e, by) \in DeliveryId
    BY DEF Id, DeliveryId
  <2>. QED  BY <2>1 DEF Init, ReceiverInit, ReceiverInv, OneEventPerDelivery
<1>2. MandateInv
  <2>1. Fresh \in Machine /\ Fresh.state = "ACTIVE" /\ "ACTIVE" \notin TERMINAL
    BY DEF Fresh, Machine, State, TERMINAL
  <2>. QED  BY <2>1 DEF Init, RegistryInit, MandateInv, MachineType, EndedForGood, StateOf
<1>3. ReplayInv
  BY DEF Init, ReceiverInit, ReplayInv
<1>4. DowntimeInv
  <2>1. ~Resolved(NoWindow)
    BY DEF Resolved, NoWindow
  <2>2. DOMAIN answer = {}
    BY DEF Init, NoAnswer
  <2>. QED  BY <2>1, <2>2 DEF Init, DowntimeInit, DowntimeInv, WindowInv, AnswerInv, ClosedInv
<1>. QED  BY <1>1, <1>2, <1>3, <1>4 DEF IInv

-----------------------------------------------------------------------------
(* The receiver.                                                            *)

Way == {"header", "content"}

\* An envelope has one delivery id for each way of delivery.
LEMMA Ids ==
  /\ \A e \in Envelopes, by \in Way : Id(e, by) \in DeliveryId /\ Id(e, by).envelope = e
  /\ \A did \in DeliveryId : \E e \in Envelopes, by \in Way : did = Id(e, by)
  /\ \A e, f \in Envelopes, by, how \in Way : Id(e, by) = Id(f, how) => e = f /\ by = how
<1>1. \A e, by : Id(e, by).envelope = e /\ Id(e, by).by = by
  BY DEF Id
<1>2. \A e \in Envelopes, by \in Way : Id(e, by) \in DeliveryId
  BY DEF Id, DeliveryId, Way
<1>3. \A did \in DeliveryId : did.envelope \in Envelopes /\ did.by \in Way
                              /\ did = Id(did.envelope, did.by)
  BY DEF Id, DeliveryId, Way
<1>. QED  BY <1>1, <1>2, <1>3

\* An envelope that is seen for the first time is recorded, and counted if it is acted on.
LEMMA RecordKeeps ==
  ASSUME ReceiverInv, NEW e \in Envelopes, NEW by \in Way, ~Seen(Id(e, by)), Record(Id(e, by)),
         \/ e \in Parseable /\ accepted' = [accepted EXCEPT ![e] = @ + 1]
         \/ e \notin Parseable /\ UNCHANGED accepted
  PROVE  ReceiverInv'
<1> DEFINE id == Id(e, by)
<1>1. id \in DeliveryId
  BY Ids
<1>2. recorded[id] = 0
  BY <1>1 DEF ReceiverInv, Seen
<1>3. recorded' = [recorded EXCEPT ![id] = 1]
  BY <1>1, <1>2 DEF Record, ReceiverInv
<1>4. recorded' \in [DeliveryId -> Nat] /\ accepted' \in [Envelopes -> Nat]
  <2>1. accepted[e] + 1 \in Nat /\ accepted \in [Envelopes -> Nat]
    BY DEF ReceiverInv
  <2>2. accepted' \in [Envelopes -> Nat]
    BY <2>1
  <2>3. recorded' \in [DeliveryId -> Nat]
    BY <1>3 DEF ReceiverInv
  <2>. QED  BY <2>2, <2>3
<1>5. \A did \in DeliveryId : recorded'[did] <= 1
  BY <1>1, <1>3 DEF ReceiverInv, OneEventPerDelivery
<1>6. ASSUME NEW f \in Envelopes
      PROVE  accepted'[f] = IF f \in Parseable
                            THEN recorded'[Id(f, "header")] + recorded'[Id(f, "content")] ELSE 0
  <2>1. accepted[f] = IF f \in Parseable
                      THEN recorded[Id(f, "header")] + recorded[Id(f, "content")] ELSE 0
    BY DEF ReceiverInv, OneEventPerDelivery
  <2>2. /\ Id(f, "header") \in DeliveryId /\ Id(f, "content") \in DeliveryId
        /\ recorded[Id(f, "header")] \in Nat /\ recorded[Id(f, "content")] \in Nat
    BY Ids DEF ReceiverInv, Way
  <2>3. CASE f # e
    <3>1. Id(f, "header") # id /\ Id(f, "content") # id
      BY <2>3, Ids DEF Way
    <3>2. accepted'[f] = accepted[f]
      BY <2>3 DEF ReceiverInv
    <3> HIDE DEF id
    <3>. QED  BY <1>3, <2>1, <2>2, <3>1, <3>2 DEF ReceiverInv
  <2>4. CASE f = e /\ f \in Parseable
    <3>1. accepted'[f] = accepted[f] + 1
      BY <2>4 DEF ReceiverInv
    <3>2. by \in {"header", "content"} /\ Id(f, "header") # Id(f, "content")
      BY Ids DEF Way
    <3>3. CASE by = "header"
      <4>1. id = Id(f, "header")
        BY <2>4, <3>3
      <4> HIDE DEF id
      <4>2. /\ recorded'[Id(f, "header")] = 1
            /\ recorded'[Id(f, "content")] = recorded[Id(f, "content")]
        BY <1>3, <2>2, <3>2, <4>1 DEF ReceiverInv
      <4>. QED  BY <1>2, <2>1, <2>2, <2>4, <3>1, <4>1, <4>2
    <3>4. CASE by = "content"
      <4>1. id = Id(f, "content")
        BY <2>4, <3>4
      <4> HIDE DEF id
      <4>2. /\ recorded'[Id(f, "content")] = 1
            /\ recorded'[Id(f, "header")] = recorded[Id(f, "header")]
        BY <1>3, <2>2, <3>2, <4>1 DEF ReceiverInv
      <4>. QED  BY <1>2, <2>1, <2>2, <2>4, <3>1, <4>1, <4>2
    <3>. QED  BY <3>2, <3>3, <3>4
  <2>5. CASE f = e /\ f \notin Parseable
    BY <2>1, <2>5
  <2>. QED  BY <2>3, <2>4, <2>5
<1>. QED  BY <1>4, <1>5, <1>6 DEF ReceiverInv, OneEventPerDelivery

\* Whatever dispatch returns or raises.
LEMMA DispatchKeepsReceiver ==
  ASSUME ReceiverInv, NEW e \in Envelopes, NEW by \in Way, Returns(e, by) \/ Raises(e, by)
  PROVE  ReceiverInv'
<1>1. Id(e, by).envelope = e
  BY Ids
<1>2. CASE Accept(Id(e, by))
  BY <1>1, <1>2, RecordKeeps DEF Accept
<1>3. CASE Duplicate(Id(e, by))
  BY <1>3 DEF Duplicate, ReceiverInv, OneEventPerDelivery
<1>4. CASE Ignore(Id(e, by)) \/ ParserRaises(Id(e, by))
  <2>1. e \notin Parseable
    BY <1>1, <1>4, SignalsConstants DEF Ignore, ParserRaises
  <2>. QED  BY <1>1, <1>4, <2>1, RecordKeeps DEF Ignore, ParserRaises
<1>. QED  BY <1>2, <1>3, <1>4 DEF Returns, Raises

-----------------------------------------------------------------------------
(* The mandates.                                                            *)

\* A mandate that is not over can end, whatever its state.
LEMMA EndsAreLegal ==
  ASSUME NEW s \in State, s \notin TERMINAL, NEW t \in TERMINAL
  PROVE  t \in LEGAL[s]
BY DEF State, TERMINAL, LEGAL

\* Every event leads to a state.
LEMMA TargetIsState == \A n \in Names : Target[n] \in State
BY DEF Names, Target, State

\* Folding in an event moves a machine along its transitions, or leaves it where it is.
LEMMA FoldKeepsMandates ==
  ASSUME MandateInv, NEW e \in stream, Fold(e), UNCHANGED inbox
  PROVE  MandateInv'
<1> DEFINE m == machines[e.sub]
           x == [at |-> e.at, to |-> Target[e.name]]
<1>1. e.sub \in Subscriptions /\ e.name \in Names /\ e.at \in Nat
  BY DEF MandateInv, Event
<1>2. Target[e.name] \in State
  BY <1>1, TargetIsState
<1>3. m \in Machine
  BY <1>1 DEF MandateInv, MachineType
<1>4. m.state \in State /\ m.transitions \in Seq(Transition) /\ m.ignored \in Seq(Transition)
  BY <1>3 DEF Machine
<1>5. x \in Transition
  BY <1>1, <1>2 DEF Transition
<1> HIDE DEF m, x
<1>6. Append(m.transitions, x) \in Seq(Transition) /\ Append(m.ignored, x) \in Seq(Transition)
  BY <1>4, <1>5
<1>7. stream' \subseteq Event /\ inbox' \subseteq Event /\ applied' = applied \cup {e}
  BY DEF MandateInv, Fold, Absorb, IllegalTransition, Move, Take
<1>8. \A s \in Subscriptions :
        StateOf(s) \in TERMINAL <=> \E f \in applied : f.sub = s /\ Target[f.name] \in TERMINAL
  BY DEF MandateInv, EndedForGood
<1>9. ASSUME MachineType', \A s \in Subscriptions : s # e.sub => StateOf(s)' = StateOf(s),
             StateOf(e.sub)' \in TERMINAL
               <=> StateOf(e.sub) \in TERMINAL \/ Target[e.name] \in TERMINAL
      PROVE  MandateInv'
  BY <1>7, <1>8, <1>9 DEF MandateInv, EndedForGood
<1>10. CASE Absorb(e)
  <2>1. machines' = [machines EXCEPT ![e.sub].ignored =
          IF Target[e.name] = m.state THEN m.ignored ELSE Append(m.ignored, x)]
    BY <1>10 DEF Absorb, StateOf, m, x
  <2>2. PICK i \in Seq(Transition) : machines' = [machines EXCEPT ![e.sub].ignored = i]
    BY <1>4, <1>6, <2>1
  <2>3. MachineType'
    BY <1>1, <2>2 DEF MandateInv, MachineType, Machine
  <2>4. \A s \in Subscriptions : machines'[s].state = machines[s].state
    BY <1>1, <2>2 DEF MandateInv, MachineType, Machine
  <2>5. StateOf(e.sub) \in TERMINAL
    BY <1>10 DEF Absorb
  <2>. QED  BY <1>1, <1>9, <2>3, <2>4, <2>5 DEF StateOf
<1>11. CASE IllegalTransition(e)
  <2>1. UNCHANGED machines
    BY <1>11 DEF IllegalTransition
  <2>2. Target[e.name] \notin TERMINAL
    BY <1>4, <1>11, EndsAreLegal DEF IllegalTransition, StateOf, m
  <2>3. MachineType' /\ \A s : StateOf(s)' = StateOf(s)
    BY <2>1 DEF MandateInv, MachineType, StateOf
  <2>. QED  BY <1>9, <2>2, <2>3
<1>12. CASE Move(e)
  <2>1. machines' = [machines EXCEPT ![e.sub].state = Target[e.name], ![e.sub].transitions =
          IF Target[e.name] = m.state THEN m.transitions ELSE Append(m.transitions, x)]
    BY <1>12 DEF Move, StateOf, m, x
  <2>2. PICK i \in Seq(Transition) :
          machines' = [machines EXCEPT ![e.sub].state = Target[e.name], ![e.sub].transitions = i]
    BY <1>4, <1>6, <2>1
  <2>3. MachineType'
    BY <1>1, <1>2, <2>2 DEF MandateInv, MachineType, Machine
  <2>4. \A s \in Subscriptions : s # e.sub => machines'[s] = machines[s]
    BY <1>1, <2>2 DEF MandateInv, MachineType
  <2>5. machines'[e.sub].state = Target[e.name]
    BY <1>1, <2>2 DEF MandateInv, MachineType, Machine
  <2>6. StateOf(e.sub) \notin TERMINAL
    BY <1>12 DEF Move
  <2>. QED  BY <1>9, <2>3, <2>4, <2>5, <2>6 DEF StateOf
<1>. QED  BY <1>10, <1>11, <1>12 DEF Fold

\* The events that wait are events, and the machines have nothing to do with them.
LEMMA OthersKeepMandates ==
  ASSUME MandateInv, UNCHANGED <<machines, applied>>, stream' \cup inbox' \subseteq Event
  PROVE  MandateInv'
BY DEF MandateInv, MachineType, EndedForGood, StateOf

-----------------------------------------------------------------------------
(* The downtimes.                                                           *)

\* A window that tells the end is not lost to one that does not.
LEMMA MergedTellsTheEnd ==
  ASSUME NEW old \in Window \cup {NoWindow}, NEW new \in Window, NEW x,
         Resolved(old) => old.end = x, Resolved(new) => new.end = x
  PROVE  /\ Merged(old, new) \in Window \cup {NoWindow}
         /\ Resolved(Merged(old, new)) => Merged(old, new).end = x
         /\ Resolved(Merged(old, new)) <=> Resolved(old) \/ Resolved(new)
BY DEF Merged

\* The outages are times, and the delays are too.
LEMMA Times ==
  /\ \A d \in Downtimes : Outage[d].begin \in Nat /\ Outage[d].end \in Nat
  /\ Tolerance \in Nat /\ Retention \in Nat /\ Redelivery \in Nat /\ PollDelay \in Nat
  /\ Redelivery <= Retention /\ PollDelay <= Retention
  /\ \A e \in Envelopes : CreatedAt[e] \in Nat
BY SignalsConstants, RetentionOutlasts

\* What an envelope says of a downtime, and until when it may be delivered.
LEMMA NoticeOfDowntime ==
  ASSUME ReplayInv, NEW e \in DOMAIN Notice, e \in Envelopes
  PROVE  LET d == Notice[e].downtime  w == Notice[e].window IN
           /\ d \in Downtimes /\ w \in Window
           /\ Resolved(w) => w.end = Outage[d].end
           /\ ~Resolved(w) /\ InTransit(e) => now <= Outage[d].end + Retention
<1> DEFINE d == Notice[e].downtime
           w == Notice[e].window
<1>1. Notice[e] \in [downtime : Downtimes, window : Window]
  BY SignalsConstants
<1>2. d \in Downtimes /\ w \in Window
  BY <1>1
<1>3. IF Resolved(w) THEN w.end = Outage[d].end ELSE CreatedAt[e] <= Outage[d].end
  BY NoticesAreTrue
<1>4. /\ now \in Nat /\ CreatedAt[e] \in Nat
      /\ InTransit(e) => now <= CreatedAt[e] + Redelivery
  BY Times DEF ReplayInv, InTransit
<1>5. Outage[d].end \in Nat
  BY <1>2, Times
<1> HIDE DEF d, w
<1>6. InTransit(e) /\ CreatedAt[e] <= Outage[d].end => now <= Outage[d].end + Retention
  BY <1>4, <1>5, Times
<1>. QED  BY <1>2, <1>3, <1>6 DEF d, w

\* A notification is merged, whenever it arrives.
LEMMA DispatchKeepsDowntimes ==
  ASSUME DowntimeInv, ReplayInv, NEW e \in Envelopes, NEW by,
         Returns(e, by) \/ Raises(e, by)
  PROVE  DowntimeInv'
<1>1. UNCHANGED <<now, answer, askedAt>>
  BY DEF Returns, Raises
<1>2. AnswerInv'
  BY <1>1 DEF DowntimeInv, AnswerInv, AnswerOK
<1>3. CASE UNCHANGED <<windows, closed, revived>>
  BY <1>1, <1>2, <1>3 DEF DowntimeInv, WindowInv, ClosedInv, Forgotten
<1>4. CASE e \in DOMAIN Notice /\ Handle(e)
  <2> DEFINE d == Notice[e].downtime
             w == Notice[e].window
  <2>1. /\ d \in Downtimes /\ w \in Window
        /\ Resolved(w) => w.end = Outage[d].end
        /\ ~Resolved(w) /\ InTransit(e) => now <= Outage[d].end + Retention
    BY <1>4, NoticeOfDowntime
  <2>2. /\ windows' = [windows EXCEPT ![d] = Merged(windows[d], w)]
        /\ closed' = IF Resolved(w) THEN closed \cup {d} ELSE closed
        /\ revived' = IF Resolved(w) THEN revived \ {d}
                      ELSE IF ~InTransit(e) /\ windows[d] = NoWindow THEN revived \cup {d}
                      ELSE revived
    BY <1>4 DEF Handle, Upsert, CarriesEnd, Revives
  <2> HIDE DEF d, w
  <2>3. /\ windows[d] \in Window \cup {NoWindow}
        /\ Resolved(windows[d]) => windows[d].end = Outage[d].end
    BY <2>1 DEF DowntimeInv, WindowInv
  <2> DEFINE new == Merged(windows[d], w)
  <2>4. /\ new \in Window \cup {NoWindow} /\ (Resolved(new) => new.end = Outage[d].end)
        /\ Resolved(new) <=> Resolved(windows[d]) \/ Resolved(w)
    <3> DEFINE x == Outage[d].end
    <3>1. (Resolved(windows[d]) => windows[d].end = x) /\ (Resolved(w) => w.end = x)
      BY <2>1, <2>3
    <3> HIDE DEF x
    <3>2. /\ new \in Window \cup {NoWindow} /\ (Resolved(new) => new.end = x)
          /\ Resolved(new) <=> Resolved(windows[d]) \/ Resolved(w)
      BY <2>1, <2>3, <3>1, MergedTellsTheEnd
    <3>. QED  BY <3>2 DEF x
  <2> HIDE DEF new
  <2>5. windows' = [windows EXCEPT ![d] = new]
    BY <2>2 DEF new
  <2>6. windows' \in [Downtimes -> Window \cup {NoWindow}]
        /\ windows'[d] = new /\ \A c \in Downtimes : c # d => windows'[c] = windows[c]
    BY <2>1, <2>4, <2>5 DEF DowntimeInv, WindowInv
  <2>7. WindowInv'
    BY <2>4, <2>6 DEF DowntimeInv, WindowInv
  <2>8. ASSUME NEW c \in closed' \ revived'
        PROVE  Resolved(windows'[c]) \/ Forgotten(c)'
    <3>1. c \in Downtimes
      BY <2>1, <2>2, <2>8 DEF DowntimeInv, ClosedInv
    <3>2. CASE c # d
      BY <1>1, <2>2, <2>6, <2>8, <3>1, <3>2 DEF DowntimeInv, ClosedInv, Forgotten
    <3>3. CASE c = d /\ Resolved(w)
      BY <2>4, <2>6, <3>1, <3>3
    <3>4. CASE c = d /\ ~Resolved(w)
      <4>1. /\ Resolved(windows[d]) \/ Forgotten(d)
            /\ InTransit(e) \/ windows[d] # NoWindow
        BY <2>2, <2>8, <3>4 DEF DowntimeInv, ClosedInv
      <4>2. ~Forgotten(d)
        BY <2>1, <3>4, <4>1, Times DEF Forgotten, ReplayInv
      <4>. QED  BY <2>4, <2>6, <3>1, <3>4, <4>1, <4>2
    <3>. QED  BY <3>2, <3>3, <3>4
  <2>9. ClosedInv'
    BY <2>1, <2>2, <2>8 DEF DowntimeInv, ClosedInv
  <2>. QED  BY <1>2, <2>7, <2>9 DEF DowntimeInv
<1>5. UNCHANGED <<windows, closed, revived>> \/ (e \in DOMAIN Notice /\ Handle(e))
  BY DEF Returns, Raises, Handle, CarriesEnd, Revives
<1>. QED  BY <1>3, <1>4, <1>5

\* The poller's answer is the truth of the time at which it was given.
LEMMA AskKeepsDowntimes ==
  ASSUME DowntimeInv, ReplayInv, NEW ds \in SUBSET Downtimes, Ask(ds)
  PROVE  DowntimeInv'
<1>1. /\ UNCHANGED <<windows, now, closed, revived>>
      /\ answer' = [d \in ds |-> Truth(d)] /\ askedAt' = now /\ now \in Nat
  BY DEF Ask, ReplayInv
<1>2. ASSUME NEW d \in ds PROVE AnswerOK(d)'
  <2>1. answer'[d] = Truth(d) /\ d \in Downtimes
    BY <1>1
  <2>2. Outage[d].begin \in Nat /\ Outage[d].end \in Nat
    BY <2>1, Times
  <2>3. Truth(d) \in Window
        /\ IF Resolved(Truth(d)) THEN Truth(d).end = Outage[d].end ELSE now <= Outage[d].end
    BY <2>2 DEF Truth, Window, Resolved
  <2>. QED  BY <1>1, <2>1, <2>3, Times DEF AnswerOK
<1>3. AnswerInv'
  BY <1>1, <1>2 DEF AnswerInv
<1>. QED  BY <1>1, <1>3 DEF DowntimeInv, WindowInv, ClosedInv, Forgotten

\* The windows of an answer are merged one by one.
LEMMA FoldAnswerKeepsDowntimes ==
  ASSUME DowntimeInv, ReplayInv, FoldAnswer
  PROVE  DowntimeInv'
<1>1. /\ UNCHANGED now /\ DOMAIN answer' = {}
      /\ closed' = closed \cup {d \in DOMAIN answer : Resolved(answer[d])}
      /\ revived' = revived \ {d \in DOMAIN answer : Resolved(answer[d])}
      /\ windows' = [d \in Downtimes |->
           IF d \in DOMAIN answer THEN Merged(windows[d], answer[d]) ELSE windows[d]]
  BY DEF FoldAnswer, Extend, NoAnswer
<1>2. AnswerInv'
  BY <1>1 DEF AnswerInv
<1>3. ASSUME NEW d \in DOMAIN answer
      PROVE  /\ windows'[d] = Merged(windows[d], answer[d])
             /\ windows'[d] \in Window \cup {NoWindow}
             /\ Resolved(windows'[d]) => windows'[d].end = Outage[d].end
             /\ Resolved(windows'[d]) <=> Resolved(windows[d]) \/ Resolved(answer[d])
  <2>1. AnswerOK(d) /\ d \in Downtimes
    BY DEF DowntimeInv, AnswerInv, AnswerOK
  <2>2. /\ windows[d] \in Window \cup {NoWindow}
        /\ Resolved(windows[d]) => windows[d].end = Outage[d].end
    BY <2>1 DEF DowntimeInv, WindowInv
  <2>3. answer[d] \in Window /\ (Resolved(answer[d]) => answer[d].end = Outage[d].end)
    BY <2>1 DEF AnswerOK
  <2>4. windows'[d] = Merged(windows[d], answer[d])
    BY <1>1, <2>1
  <2>. QED  BY <2>2, <2>3, <2>4, MergedTellsTheEnd
<1>4. \A d \in Downtimes \ DOMAIN answer : windows'[d] = windows[d]
  BY <1>1
<1>5. WindowInv'
  <2>1. \A d \in Downtimes : windows'[d] \in Window \cup {NoWindow}
    BY <1>3, <1>4 DEF DowntimeInv, WindowInv
  <2>2. windows' \in [Downtimes -> Window \cup {NoWindow}]
    BY <1>1, <2>1
  <2>3. \A d \in Downtimes : Resolved(windows'[d]) => windows'[d].end = Outage[d].end
    BY <1>3, <1>4 DEF DowntimeInv, WindowInv
  <2>. QED  BY <2>2, <2>3 DEF WindowInv
<1>6. closed' \subseteq Downtimes
  BY <1>1 DEF DowntimeInv, ClosedInv, AnswerInv, AnswerOK
<1>7. ASSUME NEW c \in closed' \ revived'
      PROVE  Resolved(windows'[c]) \/ Forgotten(c)'
  <2>1. c \in Downtimes
    BY <1>6, <1>7
  <2>2. CASE c \in DOMAIN answer /\ Resolved(answer[c])
    BY <1>3, <2>1, <2>2
  <2>3. CASE c \in DOMAIN answer /\ ~Resolved(answer[c])
    <3>1. Resolved(windows[c]) \/ Forgotten(c)
      BY <1>1, <1>7, <2>3 DEF DowntimeInv, ClosedInv
    <3>2. ~Forgotten(c)
      <4>1. askedAt <= Outage[c].end /\ now <= askedAt + PollDelay /\ askedAt \in Nat
        BY <2>3 DEF DowntimeInv, AnswerInv, AnswerOK
      <4>2. Outage[c].end \in Nat
        BY <2>1, Times
      <4>. QED  BY <4>1, <4>2, Times DEF Forgotten, ReplayInv
    <3>. QED  BY <1>3, <2>1, <2>3, <3>1, <3>2
  <2>4. CASE c \notin DOMAIN answer
    BY <1>1, <1>4, <1>7, <2>1, <2>4 DEF DowntimeInv, ClosedInv, Forgotten
  <2>. QED  BY <2>2, <2>3, <2>4
<1>8. ClosedInv'
  BY <1>6, <1>7 DEF ClosedInv
<1>. QED  BY <1>2, <1>5, <1>8 DEF DowntimeInv

\* What is pruned is forgotten for good.
LEMMA PruneKeepsDowntimes ==
  ASSUME DowntimeInv, ReplayInv, Prune
  PROVE  DowntimeInv'
<1>1. /\ UNCHANGED <<now, closed, revived, answer, askedAt>>
      /\ windows' = [d \in Downtimes |-> IF Stale(windows[d], now) THEN NoWindow ELSE windows[d]]
  BY DEF Prune, PruneResolved
<1>2. AnswerInv'
  BY <1>1 DEF DowntimeInv, AnswerInv, AnswerOK
<1>3. ~Resolved(NoWindow)
  BY DEF Resolved, NoWindow
<1>4. WindowInv'
  BY <1>1, <1>3 DEF DowntimeInv, WindowInv
<1>5. ASSUME NEW d \in closed \ revived
      PROVE  Resolved(windows'[d]) \/ Forgotten(d)'
  <2>1. d \in Downtimes /\ (Resolved(windows[d]) \/ Forgotten(d))
    BY DEF DowntimeInv, ClosedInv
  <2>2. CASE Stale(windows[d], now)
    <3>1. Resolved(windows[d]) /\ windows[d].end < now - Retention /\ windows'[d] = NoWindow
      BY <1>1, <2>1, <2>2 DEF Stale
    <3>2. windows[d].end = Outage[d].end /\ Outage[d].end \in Nat
      BY <2>1, <3>1, Times DEF DowntimeInv, WindowInv
    <3>3. now > Outage[d].end + Retention
      BY <3>1, <3>2, Times DEF ReplayInv
    <3>. QED  BY <1>1, <2>1, <3>1, <3>3 DEF Forgotten
  <2>3. CASE ~Stale(windows[d], now)
    <3>1. windows'[d] = windows[d]
      BY <1>1, <2>1, <2>3
    <3>. QED  BY <1>1, <2>1, <3>1 DEF Forgotten
  <2>. QED  BY <2>2, <2>3
<1>6. ClosedInv'
  BY <1>1, <1>5 DEF DowntimeInv, ClosedInv
<1>. QED  BY <1>2, <1>4, <1>6 DEF DowntimeInv

\* Time passes: what is forgotten stays so, and an answer that is too old is given up.
LEMMA TickKeepsDowntimes ==
  ASSUME DowntimeInv, ReplayInv, Tick
  PROVE  DowntimeInv'
<1>1. UNCHANGED <<windows, closed, revived>> /\ now' = now + 1 /\ now \in Nat
  BY DEF Tick, ReplayInv
<1>2. CASE DOMAIN answer' = {}
  <2>1. AnswerInv'
    BY <1>2 DEF AnswerInv
  <2>2. \A d \in closed : Forgotten(d) => Forgotten(d)'
    BY <1>1, Times DEF Forgotten, DowntimeInv, ClosedInv
  <2>. QED  BY <1>1, <2>1, <2>2 DEF DowntimeInv, WindowInv, ClosedInv
<1>3. CASE DOMAIN answer' # {}
  <2>1. UNCHANGED <<answer, askedAt>> /\ ~(now' > askedAt + PollDelay)
    BY <1>3 DEF Tick, NoAnswer
  <2>2. AnswerInv'
    <3> SUFFICES ASSUME NEW d \in DOMAIN answer PROVE AnswerOK(d)'
      BY <2>1 DEF AnswerInv
    <3>1. AnswerOK(d)
      BY DEF DowntimeInv, AnswerInv
    <3>2. now' <= askedAt + PollDelay
      BY <1>1, <2>1, <3>1, Times DEF AnswerOK
    <3>. QED  BY <2>1, <3>1, <3>2 DEF AnswerOK
  <2>3. \A d \in closed : Forgotten(d) => Forgotten(d)'
    BY <1>1, Times DEF Forgotten, DowntimeInv, ClosedInv
  <2>. QED  BY <1>1, <2>2, <2>3 DEF DowntimeInv, WindowInv, ClosedInv
<1>. QED  BY <1>2, <1>3

-----------------------------------------------------------------------------
(* Every step.                                                              *)

\* An envelope that is dispatched, on its own or in a replay.
LEMMA DispatchKeeps ==
  ASSUME IInv, NEW e \in Envelopes, NEW by \in Way, Returns(e, by) \/ Raises(e, by),
         replaying' \subseteq replaying
  PROVE  IInv'
<1>1. ReceiverInv'
  BY DispatchKeepsReceiver DEF IInv
<1>2. DowntimeInv'
  BY DispatchKeepsDowntimes DEF IInv
<1>3. UNCHANGED <<now, machines, stream, applied>>
  BY DEF Returns, Raises, registry
<1>4. inbox' \subseteq Event
  BY SignalsConstants DEF Returns, Raises, Handle, IInv, MandateInv
<1>5. MandateInv'
  BY <1>3, <1>4, OthersKeepMandates DEF IInv, MandateInv
<1>6. ReplayInv'
  BY <1>3 DEF IInv, ReplayInv
<1>. QED  BY <1>1, <1>2, <1>5, <1>6 DEF IInv

\* Each step keeps the invariant; in a replay or a stream no time passes.
LEMMA NextIInv == IInv /\ [Next]_vars => IInv'
<1> SUFFICES ASSUME IInv, [Next]_vars PROVE IInv'
  OBVIOUS
<1>1. ASSUME NEW e \in Envelopes, Deliver(e) PROVE IInv'
  BY <1>1, DispatchKeeps DEF Deliver, Way
<1>2. ASSUME NEW e \in Envelopes, ReplayNext(e) PROVE IInv'
  <2>1. replaying' \subseteq replaying
    BY <1>2 DEF ReplayNext
  <2>. QED  BY <1>2, <2>1, DispatchKeeps DEF ReplayNext, Way
<1>3. ASSUME UNCHANGED <<recorded, accepted>> PROVE ReceiverInv'
  BY <1>3 DEF IInv, ReceiverInv, OneEventPerDelivery
<1>4. ASSUME UNCHANGED registry, UNCHANGED inbox PROVE MandateInv'
  BY <1>4, OthersKeepMandates DEF IInv, MandateInv, registry
<1>5. ASSUME UNCHANGED <<now, replaying>> PROVE ReplayInv'
  BY <1>5 DEF IInv, ReplayInv
<1>6. ASSUME UNCHANGED <<windows, now, answer, askedAt, closed, revived>> PROVE DowntimeInv'
  BY <1>6 DEF IInv, DowntimeInv, WindowInv, AnswerInv, AnswerOK, ClosedInv, Forgotten
<1>7. ASSUME NEW batch \in Streams, StartReplay(batch) PROVE IInv'
  <2>1. /\ UNCHANGED <<recorded, accepted, registry, windows, now, inbox, answer, askedAt, closed, revived>>
        /\ replaying' = batch /\ batch \subseteq Envelopes
    BY <1>7, SignalsConstants DEF StartReplay, Replay
  <2>2. ReplayInv'
    BY <2>1 DEF IInv, ReplayInv
  <2>. QED  BY <1>3, <1>4, <1>6, <2>1, <2>2 DEF IInv
<1>8. ASSUME StartStream PROVE IInv'
  <2>1. /\ UNCHANGED <<receiver, windows, now, answer, askedAt, closed, revived, machines, applied>>
        /\ stream' = inbox /\ inbox' = {}
    BY <1>8 DEF StartStream, ApplyStream
  <2>2. MandateInv'
    BY <2>1, OthersKeepMandates DEF IInv, MandateInv
  <2>. QED  BY <1>3, <1>5, <1>6, <2>1, <2>2 DEF IInv, receiver
<1>9. ASSUME NEW e \in stream, StreamNext(e) PROVE IInv'
  <2>1. UNCHANGED <<receiver, windows, now, inbox, answer, askedAt, closed, revived>> /\ Fold(e)
    BY <1>9 DEF StreamNext
  <2>2. MandateInv'
    BY <2>1, FoldKeepsMandates DEF IInv
  <2>. QED  BY <1>3, <1>5, <1>6, <2>1, <2>2 DEF IInv, receiver
<1>10. ASSUME NEW ds \in SUBSET Downtimes, Ask(ds) PROVE IInv'
  <2>1. UNCHANGED <<receiver, registry, now, inbox>> /\ DowntimeInv'
    BY <1>10, AskKeepsDowntimes DEF Ask, IInv
  <2>. QED  BY <1>3, <1>4, <1>5, <2>1 DEF IInv, receiver
<1>11. ASSUME FoldAnswer PROVE IInv'
  <2>1. UNCHANGED <<receiver, registry, now, inbox>> /\ DowntimeInv'
    BY <1>11, FoldAnswerKeepsDowntimes DEF FoldAnswer, IInv
  <2>. QED  BY <1>3, <1>4, <1>5, <2>1 DEF IInv, receiver
<1>12. ASSUME Prune PROVE IInv'
  <2>1. UNCHANGED <<receiver, registry, now, inbox>> /\ DowntimeInv'
    BY <1>12, PruneKeepsDowntimes DEF Prune, IInv
  <2>. QED  BY <1>3, <1>4, <1>5, <2>1 DEF IInv, receiver
<1>13. ASSUME Tick PROVE IInv'
  <2>1. UNCHANGED <<receiver, registry, inbox>> /\ now' = now + 1 /\ replaying = {} /\ DowntimeInv'
    BY <1>13, TickKeepsDowntimes DEF Tick, IInv, Free
  <2>2. ReplayInv'
    BY <2>1 DEF IInv, ReplayInv, receiver
  <2>. QED  BY <1>3, <1>4, <2>1, <2>2 DEF IInv, receiver
<1>14. CASE UNCHANGED vars
  BY <1>3, <1>4, <1>5, <1>6, <1>14 DEF IInv, vars, receiver
<1>. QED  BY <1>1, <1>2, <1>7, <1>8, <1>9, <1>10, <1>11, <1>12, <1>13, <1>14 DEF Next

\* The invariant holds at every moment.
LEMMA SignalsInvariant == Spec => []IInv
BY InitIInv, NextIInv, PTL DEF Spec

\* However envelopes are redelivered, reordered and replayed, a delivery is recorded once
\* and acted on once (WebhookReceiver.dispatch).
THEOREM DeliveriesCountOnce == Spec => []OneEventPerDelivery
<1>1. IInv => OneEventPerDelivery
  BY DEF IInv, ReceiverInv
<1>. QED  BY <1>1, SignalsInvariant, PTL

\* A mandate is over exactly when an event that ends it was applied, in whatever state,
\* stream or order (MandateRegistry.apply_stream).
THEOREM EndsAreForGood == Spec => []EndedForGood
<1>1. IInv => EndedForGood
  BY DEF IInv, MandateInv
<1>. QED  BY <1>1, SignalsInvariant, PTL

\* No late notification, old answer or pruning makes an outage appear to go on of whose
\* end the registry was told, when the retention is as long as the delays, whatever is
\* replayed: only the replay of a start that the registry had pruned, and for as long as
\* its end is not heard of again (downtime.py, WebhookReceiver.replay).
THEOREM OutagesEnd == Spec => []NoPhantomOutage
<1>1. IInv => NoPhantomOutage
  <2> SUFFICES ASSUME IInv, NEW d \in closed \ revived, now > Outage[d].end + Tolerance,
                      Covers(windows[d], now)
               PROVE  FALSE
    BY DEF NoPhantomOutage, ActiveAt
  <2>1. d \in Downtimes /\ windows[d] # NoWindow /\ Resolved(windows[d])
    BY DEF IInv, DowntimeInv, ClosedInv, Forgotten, Covers
  <2>2. windows[d].end = Outage[d].end /\ Outage[d].end \in Nat
    BY <2>1, Times DEF IInv, DowntimeInv, WindowInv
  <2>. QED  BY <2>2, Times DEF Covers, NoEnd, IInv, ReplayInv
<1>. QED  BY <1>1, SignalsInvariant, PTL
-----------------------------------------------------------------------------
(* The past of a mandate.                                                   *)

LessThan == {p \in Nat \X Nat : p[1] < p[2]}

\* Among numbers there is a least one.
LEMMA LeastNumber ==
  ASSUME NEW S \in SUBSET Nat, S # {}
  PROVE  \E m \in S : \A n \in S : m <= n
<1>1. IsWellFoundedOn(LessThan, Nat)
  <2>1. OpToRel(<, Nat) = LessThan
    BY DEF OpToRel, LessThan
  <2>. QED  BY <2>1, NatLessThanWellFounded
<1>2. PICK m \in S : \A n \in S : ~(<<n, m>> \in LessThan)
  BY <1>1, WFMin
<1>3. ASSUME NEW n \in S PROVE m <= n
  <2>1. ~(<<n, m>> \in LessThan) /\ n \in Nat /\ m \in Nat
    BY <1>2
  <2>2. n < m => <<n, m>> \in LessThan
    BY <2>1 DEF LessThan
  <2>. QED  BY <2>1, <2>2
<1>. QED  BY <1>3

\* The loop of state_at passes the first n transitions.
Passed(ts, when, n) ==
  /\ n \in 0 .. Len(ts)
  /\ \A i \in 1 .. n : ts[i].at < when
  /\ n < Len(ts) => ts[n + 1].at >= when

\* The loop stops somewhere.
LEMMA PassedSome ==
  ASSUME NEW ts \in Seq(Transition), NEW when \in Nat
  PROVE  \E n : Passed(ts, when, n)
<1>1. Len(ts) \in Nat /\ \A i \in 1 .. Len(ts) : ts[i].at \in Nat
  <2>1. Len(ts) \in Nat /\ \A i \in 1 .. Len(ts) : ts[i] \in Transition
    OBVIOUS
  <2>. QED  BY <2>1 DEF Transition
<1> DEFINE Late == {i \in 1 .. Len(ts) : ts[i].at >= when}
<1>2. CASE Late = {}
  <2>1. Passed(ts, when, Len(ts))
    BY <1>1, <1>2 DEF Passed
  <2>. QED  BY <2>1
<1>3. CASE Late # {}
  <2>1. PICK m \in Late : \A i \in Late : m <= i
    <3>1. Late \in SUBSET Nat
      OBVIOUS
    <3> HIDE DEF Late
    <3>. QED  BY <1>3, <3>1, LeastNumber
  <2>2. m \in 1 .. Len(ts) /\ m - 1 \in 0 .. Len(ts) /\ (m - 1) + 1 = m /\ ts[m].at >= when
    BY <1>1
  <2>3. \A i \in 1 .. m - 1 : ts[i].at < when
    <3> SUFFICES ASSUME NEW i \in 1 .. m - 1, ~(ts[i].at < when) PROVE FALSE
      OBVIOUS
    <3>1. i \in 1 .. Len(ts) /\ ~(m <= i)
      BY <1>1, <2>2
    <3>2. i \in Late
      BY <1>1, <3>1
    <3>. QED  BY <2>1, <3>1, <3>2
  <2>4. Passed(ts, when, m - 1)
    BY <2>2, <2>3 DEF Passed
  <2>. QED  BY <2>4
<1>. QED  BY <1>2, <1>3

\* ... and nowhere else.
LEMMA PassedOnce ==
  ASSUME NEW ts \in Seq(Transition), NEW when \in Nat, NEW n, NEW m,
         Passed(ts, when, n), Passed(ts, when, m)
  PROVE  n = m
<1>1. Len(ts) \in Nat /\ \A i \in 1 .. Len(ts) : ts[i].at \in Nat
  <2>1. Len(ts) \in Nat /\ \A i \in 1 .. Len(ts) : ts[i] \in Transition
    OBVIOUS
  <2>. QED  BY <2>1 DEF Transition
<1>2. ASSUME NEW i, NEW j, Passed(ts, when, i), Passed(ts, when, j), i < j PROVE FALSE
  <2>1. i \in Nat /\ j \in Nat /\ i < Len(ts) /\ i + 1 \in 1 .. j /\ i + 1 \in 1 .. Len(ts)
    BY <1>1, <1>2 DEF Passed
  <2>2. ts[i + 1].at >= when /\ ts[i + 1].at < when
    BY <1>2, <2>1 DEF Passed
  <2>. QED  BY <1>1, <2>1, <2>2
<1>3. n \in Nat /\ m \in Nat
  BY <1>1 DEF Passed
<1>4. ~(n < m) /\ ~(m < n)
  BY <1>2
<1>. QED  BY <1>3, <1>4

\* What is appended at or after an instant is behind the transition at which the loop
\* for that instant stops.
LEMMA LaterIsNotPassed ==
  ASSUME NEW ts \in Seq(Transition), NEW x \in Transition, NEW when \in Nat, when <= x.at,
         NEW n, Passed(ts, when, n)
  PROVE  Passed(Append(ts, x), when, n) /\ (n # 0 => Append(ts, x)[n] = ts[n])
<1>1. /\ Len(Append(ts, x)) = Len(ts) + 1 /\ Append(ts, x)[Len(ts) + 1] = x /\ Len(ts) \in Nat
      /\ \A i \in 1 .. Len(ts) : Append(ts, x)[i] = ts[i]
  OBVIOUS
<1>2. x.at \in Nat /\ x.at >= when
  BY DEF Transition
<1> DEFINE g == Append(ts, x)
<1> HIDE DEF g
<1>3. n \in 0 .. Len(ts) /\ n \in 0 .. Len(g)
  BY <1>1 DEF Passed, g
<1>4. \A i \in 1 .. n : g[i] = ts[i] /\ ts[i].at < when
  BY <1>1, <1>3 DEF Passed, g
<1>5. g[n + 1].at >= when
  <2>1. n < Len(ts) => g[n + 1] = ts[n + 1] /\ ts[n + 1].at >= when
    BY <1>1, <1>3 DEF Passed, g
  <2>2. ~(n < Len(ts)) => g[n + 1] = x
    BY <1>1, <1>3 DEF g
  <2>. QED  BY <1>2, <2>1, <2>2
<1>6. Passed(g, when, n) /\ (n # 0 => g[n] = ts[n])
  BY <1>3, <1>4, <1>5 DEF Passed
<1>. QED  BY <1>6 DEF g

\* state_at looks at what the loop has passed.
LEMMA StateAtIsPassed ==
  ASSUME NEW s, NEW when \in Nat, NEW n, machines[s].transitions \in Seq(Transition),
         Passed(machines[s].transitions, when, n)
  PROVE  StateAt(s, when) = IF n = 0 THEN "ACTIVE" ELSE machines[s].transitions[n].to
<1>1. Reached(s, when) = CHOOSE m \in 0 .. Len(machines[s].transitions) :
                           Passed(machines[s].transitions, when, m)
  BY DEF Reached, Passed
<1>2. Reached(s, when) = n
  <2>1. n \in 0 .. Len(machines[s].transitions)
    BY DEF Passed
  <2>. QED  BY <1>1, <2>1, PassedOnce
<1>. QED  BY <1>2 DEF StateAt

\* Folding in an event appends one transition of its time, to one machine at most.
LEMMA FoldAppends ==
  ASSUME MandateInv, NEW e \in stream, Fold(e), NEW s \in Subscriptions
  PROVE  LET ts == machines[s].transitions IN
           /\ ts \in Seq(Transition)
           /\ \/ machines'[s].transitions = ts
              \/ \E x \in Transition : x.at = e.at /\ machines'[s].transitions = Append(ts, x)
<1> DEFINE ts == machines[s].transitions
           x == [at |-> e.at, to |-> Target[e.name]]
<1>1. e.sub \in Subscriptions /\ e.name \in Names /\ e.at \in Nat
  BY DEF MandateInv, Event
<1>2. x \in Transition /\ x.at = e.at
  BY <1>1, TargetIsState DEF Transition
<1>3. ts \in Seq(Transition)
  BY DEF MandateInv, MachineType, Machine
<1> HIDE DEF x
<1>5. CASE Absorb(e)
  <2>1. PICK y : machines' = [machines EXCEPT ![e.sub].ignored = y]
    BY <1>5 DEF Absorb
  <2>2. machines'[s].transitions = ts
    BY <1>1, <2>1 DEF MandateInv, MachineType, Machine
  <2>. QED  BY <1>3, <2>2
<1>6. CASE IllegalTransition(e)
  BY <1>3, <1>6 DEF IllegalTransition
<1>7. CASE Move(e)
  <2>1. machines' = [machines EXCEPT ![e.sub].state = Target[e.name], ![e.sub].transitions =
          IF Target[e.name] = StateOf(e.sub) THEN machines[e.sub].transitions
          ELSE Append(machines[e.sub].transitions, x)]
    BY <1>7 DEF Move, x
  <2>2. s # e.sub => machines'[s] = machines[s]
    BY <1>1, <2>1 DEF MandateInv, MachineType
  <2>3. s = e.sub => machines'[s].transitions = ts \/ machines'[s].transitions = Append(ts, x)
    BY <1>1, <2>1 DEF MandateInv, MachineType, Machine
  <2>. QED  BY <1>2, <1>3, <2>2, <2>3
<1>. QED  BY <1>5, <1>6, <1>7 DEF Fold

\* What happened at or after an instant never changes the state at it, whatever streams
\* came in whatever order (MandateMachine.state_at).
THEOREM HindsightIsBarred == Spec => NoHindsight
<1>1. IInv /\ [Next]_vars =>
        [\A e \in stream : Fold(e) =>
           \A s \in Subscriptions, when \in 0 .. e.at :
             StateAt(s, when)' = StateAt(s, when)]_registry
  <2> SUFFICES ASSUME IInv, NEW e \in stream, Fold(e), NEW s \in Subscriptions,
                      NEW when \in 0 .. e.at
               PROVE  StateAt(s, when)' = StateAt(s, when)
    OBVIOUS
  <2> DEFINE ts == machines[s].transitions
  <2>1. e.at \in Nat /\ when \in Nat /\ when <= e.at
    BY DEF IInv, MandateInv, Event
  <2>2. /\ ts \in Seq(Transition)
        /\ \/ machines'[s].transitions = ts
           \/ \E x \in Transition : x.at = e.at /\ machines'[s].transitions = Append(ts, x)
    BY FoldAppends DEF IInv
  <2>3. PICK n : Passed(ts, when, n)
    BY <2>1, <2>2, PassedSome
  <2>4. StateAt(s, when) = IF n = 0 THEN "ACTIVE" ELSE ts[n].to
    BY <2>1, <2>2, <2>3, StateAtIsPassed
  <2>5. CASE machines'[s].transitions = ts
    BY <2>5 DEF StateAt, Reached
  <2>6. ASSUME NEW x \in Transition, x.at = e.at, machines'[s].transitions = Append(ts, x)
        PROVE  StateAt(s, when)' = StateAt(s, when)
    <3>1. Passed(Append(ts, x), when, n) /\ (n # 0 => Append(ts, x)[n] = ts[n])
      BY <2>1, <2>2, <2>3, <2>6, LaterIsNotPassed
    <3>2. Append(ts, x) \in Seq(Transition)
      BY <2>2
    <3> DEFINE g == machines'[s].transitions
    <3>3. g \in Seq(Transition) /\ Passed(g, when, n)
      BY <2>6, <3>1, <3>2
    <3>4. Reached(s, when)' = CHOOSE m \in 0 .. Len(g) : Passed(g, when, m)
      BY DEF Reached, Passed
    <3> HIDE DEF g
    <3>5. Reached(s, when)' = n
      <4>1. n \in 0 .. Len(g)
        BY <3>3 DEF Passed
      <4>. QED  BY <2>1, <3>3, <3>4, <4>1, PassedOnce
    <3>6. StateAt(s, when)' = IF n = 0 THEN "ACTIVE" ELSE machines'[s].transitions[n].to
      BY <3>5 DEF StateAt
    <3>7. n # 0 => machines'[s].transitions[n] = ts[n]
      BY <2>6, <3>1
    <3> HIDE DEF ts
    <3>. QED  BY <2>4, <3>6, <3>7
  <2>. QED  BY <2>2, <2>5, <2>6
<1>. QED  BY <1>1, SignalsInvariant, PTL DEF Spec, NoHindsight
=============================================================================
