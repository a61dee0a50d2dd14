------------------------------ MODULE MCDetection ------------------------------
(***************************************************************************)
(* Three mandates on one rail, charged in turn and three times each, a     *)
(* severe and a mild outage that may fall on some of the charges, and one  *)
(* abandoned checkout.                                                     *)
(***************************************************************************)
EXTENDS Detection, TLC

CONSTANTS rail, asha, ben, chitra, bank, network

MCSegmentOf == [c \in Customers |-> rail]
MCFirstCycleAt == asha :> 0 @@ ben :> 1 @@ chitra :> 2
MCOutageTimes == {<<4, 4>>}
=============================================================================
