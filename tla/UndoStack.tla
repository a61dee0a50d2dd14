----------------------------- MODULE UndoStack -----------------------------
(***************************************************************************)
(* What a saga promises its caller: steps take hold one after the other,   *)
(* until the workflow is given up; from then on nothing new takes hold,    *)
(* and what stands is settled - undone, or handed to an operator - in the  *)
(* reverse of the order in which it was built.                             *)
(***************************************************************************)
EXTENDS Integers

CONSTANT N          \* the number of steps

VARIABLES
  standing,         \* the steps that have taken hold and are not settled
  givenUp           \* the workflow has been abandoned

absVars == <<standing, givenUp>>

Init == standing = {} /\ givenUp = FALSE

TakeHold(i) ==
  /\ ~givenUp
  /\ standing = 1 .. (i - 1)
  /\ standing' = 1 .. i
  /\ UNCHANGED givenUp

GiveUp ==
  /\ givenUp' = TRUE
  /\ UNCHANGED standing

Settle(i) ==
  /\ givenUp
  /\ standing = 1 .. i
  /\ standing' = 1 .. (i - 1)
  /\ UNCHANGED givenUp

Next == GiveUp \/ \E i \in 1 .. N : TakeHold(i) \/ Settle(i)

Spec == Init /\ [][Next]_absVars
=============================================================================
