------------------------------ MODULE MCEvaluation ------------------------------
(***************************************************************************)
(* Three of the eight stages: one that serves every scenario, the          *)
(* allocation, and one without a section.                                  *)
(***************************************************************************)
EXTENDS Evaluation

MCStages == <<"calibration", "allocation", "claims">>
=============================================================================
