---------------------------- MODULE ResponseModel ----------------------------
(***************************************************************************)
(* antar/simulator/response_model.py: the probabilities behind one event   *)
(* and one action, and the draw of an outcome from them; and value_of of   *)
(* antar/eval/policies.py, which puts a price on them.  Probabilities are  *)
(* in Unit-ths, rounded down where a factor is applied; the joint ones are *)
(* in the powers of Unit that they come to and are exact.  The validation  *)
(* mode, discounts and times of recovery are left out.                     *)
(***************************************************************************)
EXTENDS Integers

CONSTANT Unit       \* what a certain event weighs

ASSUME UnitAssumption == Unit \in Nat \ {0}

\* In percent.
SELF_HEAL_BY_CLASS ==
  [ISSUER_DOWN |-> 75, INSUFFICIENT_FUNDS |-> 100, TECHNICAL_DECLINE |-> 35,
   RISK_DECLINE |-> 55, AFA_REQUIRED |-> 20, MANDATE_REVOKED |-> 0, UNKNOWN |-> 60]

\* With BASELINE_INTRUSIVENESS for no action at all: the notification of the debit itself.
CHANNEL_INTRUSIVENESS ==
  [none |-> 40, SMS |-> 100, WHATSAPP |-> 110, VOICE |-> 145, EMAIL |-> 70, SILENT_RETRY |-> 85]

Percent(p, x) == (p * x) \div 100

AtMost(bound, x) == IF x < bound THEN x ELSE bound

-----------------------------------------------------------------------------
(* The components.  Of the latents of a customer: heal is p_self_heal_base   *)
(* with the balance at the next cycle, ceiling is persuadability, fit is how *)
(* well channel, time, attempt and tenure suit, in percent, and hazard is    *)
(* the risk that a notification of the reference kind brings.               *)

SelfHealProbability(l, class) ==
  AtMost(Percent(98, Unit), Percent(SELF_HEAL_BY_CLASS[class], l.heal))

PersuasionProbability(l, action) ==
  IF action = "none" THEN 0
  ELSE AtMost(Percent(92, Unit),
              Percent(IF action = "SILENT_RETRY" THEN 22 ELSE l.fit, l.ceiling))

\* Fatigue stands at one notification before.
OptoutProbability(l, action) ==
  AtMost(Percent(55, Unit),
         (l.hazard * CHANNEL_INTRUSIVENESS[action] * (IF l.churn THEN 26 ELSE 10) * 14)
           \div (100 * 10 * 10))

-----------------------------------------------------------------------------
(* evaluate.                                                                *)

\* The probability of recovery, given that the mandate survives, in Unit^2-ths.
Conditional(heal, persuaded) == heal * Unit + (Unit - heal) * persuaded

\* Mutant of Untreated: only the treated pay for not surviving.
UntreatedWithoutHazard(heal, baseline) == Unit * Unit * heal

\* In Unit^3-ths, as Treated.
Untreated(heal, baseline) == Unit * (Unit - baseline) * heal

Treated(heal, persuaded, optout) == (Unit - optout) * Conditional(heal, persuaded)

GroundTruth(l, class, action) ==
  LET heal == SelfHealProbability(l, class)
      persuaded == PersuasionProbability(l, action)
      optout == OptoutProbability(l, action)
      baseline == OptoutProbability(l, "none")
  IN  [optout |-> optout, baseline |-> baseline,
       conditional |-> Conditional(heal, persuaded),
       treated |-> Treated(heal, persuaded, optout), untreated |-> Untreated(heal, baseline)]

OptoutUplift(truth) == IF truth.optout > truth.baseline THEN truth.optout - truth.baseline ELSE 0

Uplift(truth) == truth.treated - truth.untreated

\* value_of: the price of a contact, in Unit^3-ths of a paisa.
NetValue(truth, amount, cost, lossMultiplier) ==
  Uplift(truth) * amount - Unit * Unit * Unit * cost
  - Unit * Unit * OptoutUplift(truth) * amount * lossMultiplier

-----------------------------------------------------------------------------
(* sample.                                                                  *)

\* One number from each of the two substreams.
Draws == [optout: 0 .. Unit - 1, recover: 0 .. Unit * Unit - 1]

Sample(truth, draw) ==
  IF draw.optout < truth.optout THEN "OPTOUT"
  ELSE IF draw.recover < truth.conditional THEN "RECOVERED"
  ELSE "LOST"
=============================================================================
