----------------------------- MODULE MCExperiment -----------------------------
(***************************************************************************)
(* One customer whose debits and checkouts fail within the cooldown, after *)
(* it, and on either side of the end of the rolling window, and one whose  *)
(* mandate is revoked between two abandoned checkouts.                     *)
(***************************************************************************)
EXTENDS Experiment

CONSTANTS asha, ben

Day(d, h) == 24 * d + h
Debit(n, u, t, above, ends) ==
  [n |-> n, customer |-> u, at |-> t, loss |-> "MANDATE_FAILURE", aboveCeiling |-> above,
   terminal |-> ends]
Checkout(n, u, t) ==
  [n |-> n, customer |-> u, at |-> t, loss |-> "CHECKOUT_ABANDON", aboveCeiling |-> FALSE,
   terminal |-> FALSE]

MCSlots ==
  {Debit(1, asha, Day(0, 8), TRUE, FALSE), Checkout(2, asha, Day(0, 22)),
   Checkout(3, asha, Day(3, 10)), Checkout(4, ben, Day(3, 20)), Debit(5, ben, Day(4, 9), FALSE, TRUE),
   Checkout(6, asha, Day(6, 21)), Checkout(7, asha, Day(31, 9)), Checkout(8, asha, Day(31, 10))}

\* Whoever heals surely or half the time, cannot be persuaded or surely can, at two risks.
MCLatents ==
  [heal : {2, 4}, ceiling : {0, 4}, fit : {50}, hazard : {1, 4}, churn : BOOLEAN]
=============================================================================
