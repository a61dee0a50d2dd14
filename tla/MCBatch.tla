-------------------------------- MODULE MCBatch --------------------------------
(***************************************************************************)
(* Two events of one customer and one of another, whose debit fails either *)
(* for good or for now; values below, at and above zero; and room for half *)
(* of the candidates, which is one of two and two of three.                *)
(***************************************************************************)
EXTENDS Batch

CONSTANTS asha, ben

Slot(n, u, t, loss, above, ends) ==
  [n |-> n, customer |-> u, at |-> t, loss |-> loss, aboveCeiling |-> above, terminal |-> ends]

first == Slot(1, asha, 8, "MANDATE_FAILURE", TRUE, FALSE)

MCSlots ==
  {first, Slot(2, asha, 46, "CHECKOUT_ABANDON", FALSE, FALSE),
   Slot(3, ben, 50, "MANDATE_FAILURE", FALSE, TRUE),
   Slot(4, ben, 130, "MANDATE_FAILURE", FALSE, FALSE)}

MCLarge == {first}
MCRank == [c \in Channels |-> IF c = "SMS" THEN 1 ELSE 2]
MCValues == {-1, 0, 2}
=============================================================================
