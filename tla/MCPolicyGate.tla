---------------------------- MODULE MCPolicyGate ----------------------------
(***************************************************************************)
(* A small gate: a charge, a charge above the approval threshold, a        *)
(* message and a charge with a contaminated draft.  The caps are such that *)
(* the day cap, the total cap and neither can be the one that bites.       *)
(***************************************************************************)
EXTENDS PolicyGate

CONSTANTS small, large, message, tainted

MCDecisions == {small, large, message, tainted}
MCAmount == [d \in MCDecisions |-> CASE d = small -> 2 [] d = large -> 3
                                     [] d = message -> 1 [] OTHER -> 1]
MCDiscount == [d \in MCDecisions |-> IF d = message THEN 1 ELSE 0]
MCIntervened == MCDecisions
MCTainted == {tainted}
MCKeyed == {small, large, tainted}
=============================================================================
