------------------------------- MODULE Stopping -------------------------------
(***************************************************************************)
(* antar/decide/stopping.py: the reasons to stop, in descending order of   *)
(* finality, on the customer of a context.  harmful says that the whole    *)
(* confidence interval of the uplift lies below the limit.                 *)
(***************************************************************************)
EXTENDS Regulations, Sequences

CONSTANT MaxAttempts    \* max_attempts_per_event

ASSUME AttemptsAssumption == MaxAttempts \in Nat \ {0}

Reason(holds, name) == [holds |-> holds, name |-> name]

Reasons(x, attempts, hasModel, harmful) ==
  << Reason(~hasModel, "NO_UPLIFT_MODEL"),
     Reason(x.optout, "OPTOUT_RECEIVED"),
     Reason(x.mandate \in {"REVOKED", "COMPLETED"}, "MANDATE_REVOKED"),
     Reason(x.mandate = "PAUSED", "MANDATE_PAUSED"),
     Reason(x.promised, "PROMISE_TO_PAY"),
     Reason(attempts >= MaxAttempts, "ATTEMPT_CAP"),
     Reason(x.contacts >= ContactsAllowed, "CONTACT_BUDGET_EXHAUSTED"),
     Reason(harmful, "NEGATIVE_UPLIFT_CI"),
     Reason(TRUE, "PROCEED") >>

\* StoppingPolicy.evaluate: the first that holds.
Stop(x, attempts, hasModel, harmful) ==
  LET rs == Reasons(x, attempts, hasModel, harmful)
  IN  rs[CHOOSE i \in DOMAIN rs : rs[i].holds /\ \A j \in 1 .. i - 1 : ~rs[j].holds].name
=============================================================================
