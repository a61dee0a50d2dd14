------------------------------- MODULE RootCause -------------------------------
(***************************************************************************)
(* antar/detect/root_cause.py: the evidence of the mandate registry, the   *)
(* taxonomy, the declared downtimes, the changepoint detector, the amount  *)
(* and the classifier, in the order in which they are allowed to speak.    *)
(* Confidences, evidence texts and ids are left out.                       *)
(***************************************************************************)
EXTENDS Changepoint, DowntimeRegistry, MandateRegistry, Taxonomy

CONSTANTS
  Severe,       \* the downtimes of medium or high severity, whose weight is 0.70 or more
  NoMandate     \* the subscription_id None of a checkout

\* state_at: a checkout abandonment has no mandate that could stand in the way.
MandateAt(e) == IF e.sub = NoMandate THEN "ACTIVE" ELSE StateAt(e.sub, e.at)

\* overlap_for: the most severe of the windows that cover the attempt.
OverlapAt(e) ==
  IF ActiveAt(e.at) = {} THEN "none"
  ELSE IF ActiveAt(e.at) \cap Severe # {} THEN "severe" ELSE "mild"

\* All that a diagnosis takes from outside the error reason and the classifier.
Views == [mandate: State, overlap: {"none", "mild", "severe"}, health: Health,
          aboveCeiling: BOOLEAN]

\* The switches of build_detector, enable_downtime_crosscheck and
\* enable_changepoint_detector: both are on unless the configuration says otherwise,
\* and the shipped one says so of both.
Setting == [useDowntime: BOOLEAN, useChangepoint: BOOLEAN]

\* A disconnected registry is an empty one, and a segment without a detector healthy.
View(e, s) ==
  [mandate |-> MandateAt(e),
   overlap |-> IF s.useDowntime THEN OverlapAt(e) ELSE "none",
   health |-> IF s.useChangepoint THEN HealthAt(e.segment, e.at) ELSE "HEALTHY",
   aboveCeiling |-> e.aboveCeiling]

\* Whether evidence of an outage is admitted for this reason.
MayBeOutage(reason) == Candidates[reason] = {} \/ "ISSUER_DOWN" \in Candidates[reason]

Verdict(holds, source, class) ==
  [holds |-> holds, source |-> source, class |-> class, action |-> RECOMMENDATION[class]]

\* The sources of evidence in the order in which diagnose asks them, given what
\* the classifier would answer.
Evidence(v, reason, predicted) ==
  << Verdict(v.mandate \in TERMINAL, "mandate_fsm", "MANDATE_REVOKED"),
     Verdict(v.mandate = "PAUSED", "mandate_fsm", "UNKNOWN"),
     Verdict(v.overlap = "severe" /\ Class[reason] \in {"TECHNICAL_DECLINE", "RISK_DECLINE"},
             "downtime", "ISSUER_DOWN"),
     Verdict(Class[reason] # "UNKNOWN", "table", Class[reason]),
     Verdict(v.overlap # "none" /\ MayBeOutage(reason), "downtime", "ISSUER_DOWN"),
     Verdict(v.health = "DEGRADED" /\ MayBeOutage(reason), "changepoint", "ISSUER_DOWN"),
     Verdict(v.aboveCeiling /\ "AFA_REQUIRED" \in Candidates[reason], "afa_boundary",
             "AFA_REQUIRED"),
     Verdict(predicted # "UNKNOWN", "classifier", predicted),
     Verdict(TRUE, "fallback", "UNKNOWN") >>

FirstHolding(evidence) ==
  evidence[CHOOSE i \in DOMAIN evidence :
             evidence[i].holds /\ \A j \in 1 .. i - 1 : ~evidence[j].holds]

\* Mutant of Diagnose: the classifier speaks before the declared downtimes.
DiagnoseByClassifier(v, reason, predicted) ==
  LET ev == Evidence(v, reason, predicted)
  IN  FirstHolding(<<ev[1], ev[2], ev[3], ev[4], ev[8], ev[5], ev[6], ev[7], ev[9]>>)

\* Mutant of Diagnose: the amount is looked at before the table.
DiagnoseByAmount(v, reason, predicted) ==
  LET ev == Evidence(v, reason, predicted)
  IN  FirstHolding(<<ev[1], ev[2], ev[3], ev[7], ev[4], ev[5], ev[6], ev[8], ev[9]>>)

\* diagnose: the first source that has something to say.
Diagnose(v, reason, predicted) == FirstHolding(Evidence(v, reason, predicted))

-----------------------------------------------------------------------------
(* What a wrong action costs, in hundredths of the amount of the cycle.     *)

ACTION_COST ==
  [WAIT |-> [ISSUER_DOWN |-> 0, RISK_DECLINE |-> 0, MANDATE_REVOKED |-> 0,
             INSUFFICIENT_FUNDS |-> 15, TECHNICAL_DECLINE |-> 60, AFA_REQUIRED |-> 50],
   RESCHEDULE |-> [INSUFFICIENT_FUNDS |-> 0, ISSUER_DOWN |-> 8, TECHNICAL_DECLINE |-> 40,
                   AFA_REQUIRED |-> 40, RISK_DECLINE |-> 20, MANDATE_REVOKED |-> 25],
   CONTACT |-> [TECHNICAL_DECLINE |-> 0, AFA_REQUIRED |-> 0, INSUFFICIENT_FUNDS |-> 10,
                ISSUER_DOWN |-> 30, RISK_DECLINE |-> 20, MANDATE_REVOKED |-> 35],
   TERMINATE |-> [MANDATE_REVOKED |-> 0, ISSUER_DOWN |-> 100, INSUFFICIENT_FUNDS |-> 100,
                  TECHNICAL_DECLINE |-> 80, AFA_REQUIRED |-> 80, RISK_DECLINE |-> 50]]

\* action_cost of what was recommended when this was the true cause.
Cost(diagnosis, actual) == ACTION_COST[diagnosis.action][actual]
=============================================================================
