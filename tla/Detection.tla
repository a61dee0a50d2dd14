------------------------------- MODULE Detection -------------------------------
(***************************************************************************)
(* antar/detect/pipeline.py: the simulated world, the changepoint detector *)
(* fed with its attempts, the mandate registry fed with its webhooks, and  *)
(* the declared part of its outages, put together into diagnoses.          *)
(* build_detector folds in the whole batch before anything is diagnosed;   *)
(* here a diagnosis may be asked for at any moment, and PastDiagnosesStand *)
(* says that it makes no difference.  The detector and the registry only   *)
(* listen, so that one behaviour serves for every setting of the switches  *)
(* that connect them to the diagnoses, and the properties speak of each.   *)
(***************************************************************************)
EXTENDS RootCause, Simulator

CONSTANT OutageTimes \* the pairs <<begin, end>> that a downtime may have

ASSUME SegmentsAssumption ==
  /\ SegmentOf \in [Customers -> Segments] /\ CheckoutSegments \subseteq Segments
  /\ Customers \subseteq Subscriptions

VARIABLE
  outages           \* batch.all_downtime: the windows of both kinds; `windows' of
                    \* DowntimeRegistry is batch.downtime, what was declared

vars == <<detector, registry, windows, world, outages>>

\* _inject_downtime, on some of the downtimes; a window that reaches the end of
\* the horizon is still open.
Injected(t) ==
  [status |-> IF t[2] < Horizon THEN "resolved" ELSE "started", begin |-> t[1], end |-> t[2]]

Declared(ds) == [d \in Downtimes |-> IF d \in ds THEN outages[d] ELSE NoWindow]

Init ==
  /\ DetectorInit /\ RegistryInit /\ WorldInit
  /\ outages \in [Downtimes -> {NoWindow} \cup {Injected(t) : t \in OutageTimes}]
  /\ \E ds \in SUBSET {d \in Downtimes : outages[d] # NoWindow} : windows = Declared(ds)

\* The truth decides whether a debit meets an outage, declared or not.
Outage == \E d \in Downtimes : Covers(outages[d], now)

Attempt(c) ==
  /\ \/ Succeeds(c) /\ Observe(SegmentOf[c], TRUE, now)
     \/ Fails(c, Outage) /\ Observe(SegmentOf[c], FALSE, now)
     \/ FailsRevoked(c, Outage) /\ Observe(SegmentOf[c], FALSE, now)
  /\ UNCHANGED <<registry, windows, outages>>

Abandon(s) ==
  /\ Abandons(s, NoMandate)
  /\ UNCHANGED <<detector, registry, windows, outages>>

\* apply_stream of the webhooks that have come.
ReadWebhooks ==
  /\ ApplyStream(webhooks) /\ webhooks' = {}
  /\ UNCHANGED <<detector, windows, now, cycle, mandate, events, outages>>

FoldWebhook(e) ==
  /\ Fold(e)
  /\ UNCHANGED <<detector, windows, world, outages>>

NextInstant ==
  /\ stream = {} /\ PassTime
  /\ UNCHANGED <<detector, registry, windows, outages>>

Next ==
  \/ \E c \in Customers : Attempt(c)
  \/ \E s \in CheckoutSegments : Abandon(s)
  \/ ReadWebhooks
  \/ \E e \in stream : FoldWebhook(e)
  \/ NextInstant

Spec == Init /\ [][Next]_vars

-----------------------------------------------------------------------------
(* Properties.                                                              *)

\* The diagnoses that an event may get: for each reason that its true cause emits,
\* and each answer of the classifier to that reason.
Diagnoses(v, c) ==
  {Diagnose(v, q[1], q[2]) : q \in {x \in Emits(c) \X FailureClass : x[2] \in Predictions(x[1])}}

Certain == {"mandate_fsm", "table", "downtime", "afa_boundary"}

\* The views from which evidence leads to an action that costs something, each
\* with the cause that is there.
Misleading ==
  UNION {{<<v, c>> : d \in {x \in Diagnoses(v, c) : x.source \in Certain /\ Cost(x, c) > 0}} :
           v \in Views, c \in Causes}

\* What the layer concludes from evidence rather than from inference costs
\* nothing: when the table, a declared outage, the mandate's state or the amount
\* settles the cause of a failed debit, the recommended action is a right one for
\* the cause that the world drew.  In particular nobody is given up on such
\* evidence who has not revoked.  It is so in every setting: where the outage that
\* failed a debit is not heard of, nothing else that counts as evidence fills in
\* with another cause.
EvidenceNeverMisleads ==
  \A e \in events, s \in Setting : e.loss = "MANDATE_FAILURE" =>
    \A c \in e.causes : <<View(e, s), c>> \notin Misleading

\* The views from which something else than waiting may follow.
Restless ==
  UNION {{<<v, c>> : d \in {x \in Diagnoses(v, c) : x.action # "WAIT"}} :
           v \in Views, c \in Causes}

\* As long as the cross-check is switched on, which the shipped configuration does
\* not do, a debit that failed in an outage which was declared is waited out,
\* whatever error it surfaced as, whatever the changepoint detector says or whether
\* it is connected, and whatever the classifier thinks: nobody is contacted,
\* rescheduled or given up.
DeclaredOutagesAreWaitedOut ==
  \A e \in events, s \in Setting :
    e.loss = "MANDATE_FAILURE" /\ s.useDowntime /\ OverlapAt(e) # "none" =>
      \A c \in e.causes : <<View(e, s), c>> \notin Restless

\* Once an instant is over, later attempts and webhooks change no diagnosis of it:
\* folding in the whole batch first gives L2 no hindsight, in any setting.
PastDiagnosesStand ==
  [][\A e \in events, s \in Setting : e.at < now => View(e, s)' = View(e, s)]_vars
=============================================================================
