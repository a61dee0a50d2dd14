------------------------------- MODULE Taxonomy -------------------------------
(***************************************************************************)
(* antar/detect/taxonomy.py: what an error reason says about the cause of  *)
(* a failure; antar/detect/classifier.py: how the classifier answers within *)
(* the causes that the table leaves open; and the emission tables of        *)
(* antar/simulator/failure_emission.py, written independently of it.        *)
(* Confidences, rationales and shares are left out.                        *)
(***************************************************************************)

\* FailureClass without UNKNOWN, which is CLASS_ORDER of the classifier.
Causes == {"INSUFFICIENT_FUNDS", "ISSUER_DOWN", "MANDATE_REVOKED", "AFA_REQUIRED",
           "TECHNICAL_DECLINE", "RISK_DECLINE"}

FailureClass == Causes \cup {"UNKNOWN"}

InterventionClass == {"WAIT", "CONTACT", "RESCHEDULE", "TERMINATE"}

-----------------------------------------------------------------------------
(* The table, one row for the reasons that share a rule.                    *)

\* The reasons that the table resolves, by the cause it names.
Resolves ==
  [INSUFFICIENT_FUNDS |-> {"insufficient_funds", "payment_limit_exceeded",
                           "max_amount_exceeded"},
   ISSUER_DOWN |-> {"issuer_down"},
   TECHNICAL_DECLINE |-> {"card_expired", "card_blocked", "invalid_vpa",
                          "account_does_not_exist", "invalid_account", "account_frozen"},
   RISK_DECLINE |-> {"payment_risk_check_failed", "risk_threshold_exceeded"},
   MANDATE_REVOKED |-> {"mandate_revoked", "subscription_cancelled", "invalid_mandate"},
   AFA_REQUIRED |-> {"additional_authentication_required"}]

\* The candidates of an ambiguous rule, and the reasons it covers.
AmbiguousRules ==
  {[candidates |-> {"ISSUER_DOWN", "TECHNICAL_DECLINE"},
    reasons |-> {"gateway_technical_error", "server_error", "payment_timed_out",
                 "network_error"}],
   [candidates |-> {"INSUFFICIENT_FUNDS", "RISK_DECLINE"}, reasons |-> {"declined_by_issuer"}],
   [candidates |-> {"AFA_REQUIRED", "TECHNICAL_DECLINE"},
    reasons |-> {"incorrect_otp", "authentication_failed"}],
   [candidates |-> {"MANDATE_REVOKED", "TECHNICAL_DECLINE"}, reasons |-> {"payment_cancelled"}],
   [candidates |-> {}, reasons |-> {"payment_failed"}]}

\* The five codes outside the documented taxonomy that are emitted now and then.
UnmappedReasons == {"acquirer_declined", "mandate_amount_mismatch", "upi_psp_unavailable",
                    "unexpected_gateway_response", "npci_error_u69"}

Reasons == (UNION {Resolves[c] : c \in Causes})
           \cup (UNION {a.reasons : a \in AmbiguousRules}) \cup UnmappedReasons

\* classify: the cause the table names, UNKNOWN for an ambiguous reason and for
\* one it has never seen.
Class ==
  [r \in Reasons |-> IF \E c \in Causes : r \in Resolves[c]
                     THEN CHOOSE c \in Causes : r \in Resolves[c] ELSE "UNKNOWN"]

\* candidates_for: the causes a reason is consistent with; empty when there is no
\* constraint.
Candidates ==
  [r \in Reasons |->
     (UNION {a.candidates : a \in {b \in AmbiguousRules : r \in b.reasons}})
     \cup (IF Class[r] = "UNKNOWN" THEN {} ELSE {Class[r]})
     \cup (IF r = "max_amount_exceeded" THEN {"AFA_REQUIRED"} ELSE {})]

\* root_cause.py: what L2 recommends for each class.
RECOMMENDATION ==
  [ISSUER_DOWN |-> "WAIT", INSUFFICIENT_FUNDS |-> "RESCHEDULE",
   MANDATE_REVOKED |-> "TERMINATE", AFA_REQUIRED |-> "CONTACT",
   TECHNICAL_DECLINE |-> "CONTACT", RISK_DECLINE |-> "WAIT", UNKNOWN |-> "WAIT"]

-----------------------------------------------------------------------------
(* The classifier.                                                          *)

\* What predict_one can return: the model is masked to the candidates, and
\* abstains when its best is not confident enough or all the mass is elsewhere.
Predictions(reason) ==
  {"UNKNOWN"} \cup (IF Candidates[reason] = {} THEN Causes ELSE Candidates[reason])

-----------------------------------------------------------------------------
(* failure_emission.emit.                                                   *)

EMISSION ==
  [ISSUER_DOWN |-> {"issuer_down", "gateway_technical_error", "payment_timed_out",
                    "server_error", "network_error", "payment_failed"},
   INSUFFICIENT_FUNDS |-> {"insufficient_funds", "payment_limit_exceeded",
                           "max_amount_exceeded", "declined_by_issuer", "payment_failed"},
   TECHNICAL_DECLINE |-> {"card_expired", "card_blocked", "invalid_vpa",
                          "account_does_not_exist", "invalid_account", "account_frozen",
                          "incorrect_otp", "authentication_failed",
                          "gateway_technical_error", "payment_timed_out", "network_error",
                          "server_error", "payment_failed"},
   RISK_DECLINE |-> {"payment_risk_check_failed", "risk_threshold_exceeded",
                     "declined_by_issuer", "payment_failed"},
   AFA_REQUIRED |-> {"additional_authentication_required", "authentication_failed",
                     "incorrect_otp"},
   MANDATE_REVOKED |-> {"mandate_revoked", "subscription_cancelled", "invalid_mandate",
                        "payment_cancelled"}]

Emits(cause) == EMISSION[cause] \cup UnmappedReasons
=============================================================================
