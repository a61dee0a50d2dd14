----------------------------- MODULE MoneyOnce -----------------------------
(***************************************************************************)
(* What the gate promises about money, with nothing of how it keeps it:    *)
(* a decision that is eligible - its terms are acceptable and, when it is  *)
(* large, an approver has been named - may be debited, once.  A refused or *)
(* dry-run decision is never debited, and no debit is ever repeated or     *)
(* withdrawn.  PolicyGate is shown to implement this specification.        *)
(***************************************************************************)
CONSTANTS
  Decisions,      \* decisions whose executor moves money at the provider
  Acceptable,     \* those whose amount, discount and message pass the policy
  Large           \* those above the human-approval threshold

VARIABLES
  approvals,      \* decisions for which a caller has named an approver
  debits          \* how often the provider has taken the money of a decision

absVars == <<approvals, debits>>

Init == approvals = {} /\ debits = [d \in Decisions |-> 0]

Approve(d) ==
  /\ approvals' = approvals \cup {d}
  /\ UNCHANGED debits

Debit(d) ==
  /\ d \in Decisions \cap Acceptable
  /\ d \in Large => d \in approvals
  /\ debits[d] = 0
  /\ debits' = [debits EXCEPT ![d] = 1]
  /\ UNCHANGED approvals

Next == \E d \in Decisions : Approve(d) \/ Debit(d)

Spec == Init /\ [][Next]_absVars
=============================================================================
