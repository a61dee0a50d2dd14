----------------------------- MODULE SagaProofs -----------------------------
(***************************************************************************)
(* Machine-checked facts about Saga, for any number of steps, any choice   *)
(* of reversible ones and any number of crashes and of compensate_all      *)
(* calls.  SagaInv says how the log, the loop position and the world hang  *)
(* together; the properties of Saga follow from it.                        *)
(***************************************************************************)
EXTENDS Saga, TLAPS

Done(i) == state[i] = "DONE"

\* Where the loops are: run has done exactly the steps before pos, _unwind has
\* settled every step after it.
LoopInv ==
  /\ phase = "fresh" => \A i \in Steps : state[i] = "PENDING" /\ made[i] = 0
  /\ phase = "run" => /\ \A i \in Steps : i < pos => Done(i)
                      /\ \A i \in Steps : i >= pos => state[i] = "PENDING"
                      /\ \A i \in Steps : i > pos => made[i] = 0
                      /\ made[pos] = IF call = "took" THEN 1 ELSE 0
  /\ phase = "unwind" => /\ \A i \in Steps : i > pos => ~Done(i)
                         /\ call # "none" => pos \in Reversible /\ Done(pos)
                         /\ call = "took" => undone[pos] = 1
  /\ phase = "unwound" => \A i \in Steps : ~Done(i)
  /\ call # "none" => phase \in {"run", "unwind"}

\* The steps that are done come first, and only the last step ever attempted
\* may have had an effect the log does not show.
PrefixInv ==
  \A i, j \in Steps : i < j =>
    /\ Done(j) => Done(i)
    /\ made[j] = 1 => state[i] \notin {"PENDING", "FAILED"}

\* What the log says of a step is true of the world.
WorldInv ==
  \A i \in Steps :
    /\ made[i] \in {0, 1} /\ undone[i] \in {0, 1}
    /\ undone[i] = 1 => /\ i \in Reversible
                        /\ state[i] \in {"DONE", "COMPENSATED", "COMPENSATION_FAILED"}
    /\ state[i] \notin {"PENDING", "FAILED"} => made[i] = 1
    /\ state[i] = "COMPENSATED" => undone[i] = 1
    /\ state[i] = "IRREVERSIBLE" => i \notin Reversible

SagaInv == LoopInv /\ PrefixInv /\ WorldInv

-----------------------------------------------------------------------------

\* Init establishes the type invariant.
LEMMA InitType == Init => TypeOK
BY SagaConstants DEF Init, TypeOK, Steps, StepState, NoResult

\* Every step preserves the type invariant.
LEMMA NextType == TypeOK /\ [Next]_vars => TypeOK'
<1> SUFFICES ASSUME TypeOK, [Next]_vars PROVE TypeOK'
  OBVIOUS
<1> USE SagaConstants DEF TypeOK, Steps, StepState, world
<1>1. CASE Run
  BY <1>1 DEF Run
<1>2. CASE CallForward
  <2>1. made[pos] + 1 \in Nat
    BY <1>2 DEF CallForward
  <2>2. made' \in [Steps -> Nat]
    BY <1>2, <2>1 DEF CallForward
  <2>. QED  BY <1>2, <2>2 DEF CallForward
<1>3. CASE ForwardReturns
  BY <1>3 DEF ForwardReturns
<1>4. CASE ForwardRaises
  BY <1>4 DEF ForwardRaises
<1>5. CASE CompensateAll
  BY <1>5 DEF CompensateAll, NoResult
<1>6. CASE Skip
  BY <1>6 DEF Skip, AtStep
<1>7. CASE DeclareIrreversible
  BY <1>7 DEF DeclareIrreversible, AtStep
<1>8. CASE CallCompensate
  <2>1. pos \in Steps /\ undone[pos] + 1 \in Nat
    BY <1>8 DEF CallCompensate, AtStep
  <2>2. undone' \in [Steps -> Nat]
    BY <1>8, <2>1 DEF CallCompensate
  <2>. QED  BY <1>8, <2>1, <2>2 DEF CallCompensate, AtStep
<1>9. CASE CompensateReturns
  BY <1>9 DEF CompensateReturns
<1>10. CASE CompensateRaises
  <2>1. pos \in 1 .. N /\ pos - 1 \in 0 .. N
    BY <1>10 DEF CompensateRaises
  <2>2. result' \in [irreversible: SUBSET Steps, errors: SUBSET Steps]
    BY <1>10, <2>1 DEF CompensateRaises
  <2>3. state' \in [Steps -> StepState]
    BY <1>10, <2>1 DEF CompensateRaises
  <2>. QED  BY <1>10, <2>1, <2>2, <2>3 DEF CompensateRaises
<1>11. CASE Return
  BY <1>11 DEF Return
<1>12. CASE Crash
  BY <1>12 DEF Crash, NoResult
<1>13. CASE UNCHANGED vars
  BY <1>13 DEF vars
<1>. QED
  BY <1>1, <1>2, <1>3, <1>4, <1>5, <1>6, <1>7, <1>8, <1>9, <1>10, <1>11, <1>12,
     <1>13 DEF Next, Progress

\* The saga's state keeps its type in every reachable state.
THEOREM SagaTypeCorrect == Spec => []TypeOK
BY InitType, NextType, PTL DEF Spec

-----------------------------------------------------------------------------

\* Init establishes the inductive invariant.
LEMMA InitSagaInv == Init => SagaInv
BY SagaConstants
   DEF Init, SagaInv, LoopInv, PrefixInv, WorldInv, Done, Steps

\* Steps that leave the log and the world as they are.
LEMMA QuietStep ==
  ASSUME SagaInv, UNCHANGED <<state, made, undone>>
  PROVE  PrefixInv' /\ WorldInv'
BY DEF SagaInv, PrefixInv, WorldInv, Done

\* Every step preserves the inductive invariant.
LEMMA NextSagaInv == TypeOK /\ SagaInv /\ [Next]_vars => SagaInv'
<1> SUFFICES ASSUME TypeOK, SagaInv, [Next]_vars PROVE SagaInv'
  OBVIOUS
<1> USE SagaConstants
<1>1. CASE Run
  <2>1. LoopInv'
    BY <1>1 DEF Run, SagaInv, LoopInv, Done, Steps, TypeOK, world
  <2>. QED  BY <1>1, <2>1, QuietStep DEF Run, SagaInv, world
<1>2. CASE CallForward
  <2>1. /\ pos \in Steps /\ state[pos] = "PENDING" /\ made[pos] = 0
        /\ made' = [made EXCEPT ![pos] = IF call' = "took" THEN 1 ELSE 0]
        /\ UNCHANGED <<state, phase, pos, undone>> /\ phase = "run"
    BY <1>2 DEF CallForward, SagaInv, LoopInv, TypeOK, Steps
  <2>2. LoopInv'
    BY <1>2, <2>1 DEF CallForward, SagaInv, LoopInv, Done, TypeOK
  <2>3. PrefixInv'
    <3> SUFFICES ASSUME NEW i \in Steps, NEW j \in Steps, i < j
                 PROVE  /\ Done(j)' => Done(i)'
                        /\ made'[j] = 1 => state'[i] \notin {"PENDING", "FAILED"}
      BY DEF PrefixInv
    <3>1. i < pos => state[i] = "DONE"
      BY <2>1 DEF SagaInv, LoopInv, Done
    <3>2. j # pos => made'[j] = made[j]
      BY <2>1 DEF TypeOK
    <3>. QED  BY <2>1, <3>1, <3>2 DEF SagaInv, PrefixInv, Done
  <2>4. WorldInv'
    BY <2>1 DEF SagaInv, WorldInv, TypeOK
  <2>. QED  BY <2>2, <2>3, <2>4 DEF SagaInv
<1>3. CASE ForwardReturns
  <2>1. /\ pos \in Steps /\ state[pos] = "PENDING" /\ made[pos] = 1
        /\ state' = [state EXCEPT ![pos] = "DONE"]
        /\ UNCHANGED <<made, undone>> /\ phase = "run"
    BY <1>3 DEF ForwardReturns, SagaInv, LoopInv, TypeOK, Steps, world
  <2>2. LoopInv'
    BY <1>3, <2>1 DEF ForwardReturns, SagaInv, LoopInv, Done, TypeOK, Steps
  <2>3. PrefixInv'
    BY <2>1 DEF SagaInv, LoopInv, PrefixInv, Done, TypeOK, Steps
  <2>4. WorldInv'
    BY <2>1 DEF SagaInv, WorldInv, TypeOK
  <2>. QED  BY <2>2, <2>3, <2>4 DEF SagaInv
<1>4. CASE ForwardRaises
  <2>1. /\ pos \in Steps /\ state[pos] = "PENDING"
        /\ state' = [state EXCEPT ![pos] = "FAILED"]
        /\ UNCHANGED <<made, undone>> /\ phase = "run"
        /\ \A i \in Steps : i > pos => state[i] = "PENDING" /\ made[i] = 0
    BY <1>4 DEF ForwardRaises, SagaInv, LoopInv, TypeOK, Steps, world
  <2>2. LoopInv'
    BY <1>4, <2>1 DEF ForwardRaises, SagaInv, LoopInv, Done, TypeOK, Steps
  <2>3. PrefixInv'
    BY <2>1 DEF SagaInv, LoopInv, PrefixInv, Done, TypeOK, Steps
  <2>4. WorldInv'
    BY <2>1 DEF SagaInv, WorldInv, TypeOK
  <2>. QED  BY <2>2, <2>3, <2>4 DEF SagaInv
<1>5. CASE CompensateAll
  <2>1. LoopInv'
    BY <1>5 DEF CompensateAll, SagaInv, LoopInv, Done, Steps, TypeOK, world
  <2>. QED  BY <1>5, <2>1, QuietStep DEF CompensateAll, SagaInv, world
<1>6. CASE Skip
  <2>1. LoopInv'
    BY <1>6 DEF Skip, AtStep, ToSettle, SagaInv, LoopInv, Done, Steps, TypeOK, world
  <2>. QED  BY <1>6, <2>1, QuietStep DEF Skip, SagaInv, world
<1>7. ASSUME NEW s \in StepState \ {"DONE", "PENDING", "FAILED"},
             phase = "unwind", pos \in Steps, Done(pos),
             s = "IRREVERSIBLE" => pos \notin Reversible /\ undone[pos] = 0,
             s = "COMPENSATED" => undone[pos] = 1,
             state' = [state EXCEPT ![pos] = s], UNCHANGED <<phase, made, undone>>,
             pos' = pos - 1, call' = "none"
      PROVE  SagaInv'
  <2>1. LoopInv'
    BY <1>7 DEF SagaInv, LoopInv, Done, TypeOK, Steps
  <2>2. PrefixInv'
    BY <1>7 DEF SagaInv, LoopInv, PrefixInv, Done, TypeOK, Steps
  <2>3. WorldInv'
    BY <1>7 DEF SagaInv, WorldInv, TypeOK, StepState, Done
  <2>. QED  BY <2>1, <2>2, <2>3 DEF SagaInv
<1>8. CASE DeclareIrreversible
  <2>1. pos \in Steps /\ Done(pos) /\ phase = "unwind" /\ pos \notin Reversible
    BY <1>8 DEF DeclareIrreversible, AtStep, ToSettle, Done, TypeOK, Steps
  <2>2. undone[pos] = 0
    BY <2>1 DEF SagaInv, WorldInv
  <2>. QED
    BY <1>7, <1>8, <2>1, <2>2
       DEF DeclareIrreversible, AtStep, StepState, world
<1>9. CASE CallCompensate
  <2>0. pos \in Steps /\ undone[pos] \in {0, 1} /\ undone \in [Steps -> Nat]
    BY <1>9 DEF CallCompensate, AtStep, TypeOK, Steps, SagaInv, WorldInv
  <2>5. (IF MayUndo THEN undone[pos] + 1 ELSE undone[pos]) = 1
    BY <2>0 DEF MayUndo
  <2>1. /\ pos \in Steps /\ Done(pos) /\ pos \in Reversible /\ phase = "unwind"
        /\ UNCHANGED <<state, phase, pos, made>>
        /\ undone' = IF call' = "took" THEN [undone EXCEPT ![pos] = 1] ELSE undone
        /\ call' \in {"took", "missed"}
    BY <1>9, <2>0, <2>5 DEF CallCompensate, AtStep, ToSettle, Done
  <2>2. LoopInv'
    BY <2>1 DEF SagaInv, LoopInv, Done, TypeOK
  <2>3. PrefixInv'
    BY <2>1 DEF SagaInv, PrefixInv, Done
  <2>4. WorldInv'
    BY <2>1 DEF SagaInv, WorldInv, Done, TypeOK
  <2>. QED  BY <2>2, <2>3, <2>4 DEF SagaInv
<1>10. ASSUME phase = "unwind", call # "none"
       PROVE  pos \in Steps /\ Done(pos) /\ (call = "took" => undone[pos] = 1)
  BY <1>10 DEF SagaInv, LoopInv, TypeOK, Steps
<1>11. CASE CompensateReturns
  BY <1>7, <1>10, <1>11 DEF CompensateReturns, StepState, world
<1>12. CASE CompensateRaises
  BY <1>7, <1>10, <1>12 DEF CompensateRaises, StepState, world
<1>13. CASE Return
  <2>1. LoopInv'
    BY <1>13 DEF Return, SagaInv, LoopInv, Done, Steps, TypeOK, world
  <2>. QED  BY <1>13, <2>1, QuietStep DEF Return, SagaInv, world
<1>14. CASE Crash
  <2>1. LoopInv'
    BY <1>14 DEF Crash, LoopInv
  <2>. QED  BY <1>14, <2>1, QuietStep DEF Crash, SagaInv, world
<1>15. CASE UNCHANGED vars
  BY <1>15 DEF vars, SagaInv, LoopInv, PrefixInv, WorldInv, Done, world
<1>. QED
  BY <1>1, <1>2, <1>3, <1>4, <1>5, <1>6, <1>8, <1>9, <1>11, <1>12, <1>13, <1>14,
     <1>15 DEF Next, Progress

\* The inductive invariant holds in every reachable state.
THEOREM SagaInvariant == Spec => []SagaInv
BY InitType, NextType, InitSagaInv, NextSagaInv, SagaTypeCorrect, PTL DEF Spec

-----------------------------------------------------------------------------

\* The log never lies about the world: nothing is undone twice or undone
\* without having been made (saga.py, _unwind; the compensation's key).
THEOREM LogTellsTheTruth == Spec => []LogIsTruthful
<1>1. SagaInv => LogIsTruthful
  <2> SUFFICES ASSUME SagaInv, NEW i \in Steps
               PROVE  /\ state[i] = "DONE" => made[i] = 1
                      /\ state[i] = "COMPENSATED" => made[i] = 1 /\ undone[i] = 1
                      /\ state[i] = "IRREVERSIBLE" => i \notin Reversible /\ made[i] = 1
                      /\ undone[i] <= made[i]
    BY DEF LogIsTruthful
  <2>. QED  BY DEF SagaInv, WorldInv
<1>. QED  BY <1>1, SagaInvariant, PTL

\* What an unwinding leaves behind is reported, but for one step in doubt
\* (saga.py, _unwind and the window between forward() and DONE).
THEOREM LeftoversReported == Spec => []LeftoversAreReported
<1>1. TypeOK /\ SagaInv => LeftoversAreReported
  <2> SUFFICES ASSUME TypeOK, SagaInv PROVE LeftoversAreReported
    OBVIOUS
  <2>1. ASSUME NEW i \in Steps, phase = "unwound", Outstanding(i)
        PROVE  InDoubt(i) \/ state[i] \in {"IRREVERSIBLE", "COMPENSATION_FAILED"}
    <3>1. state[i] \in StepState /\ state[i] # "DONE"
      BY <2>1 DEF TypeOK, SagaInv, LoopInv, Done
    <3>2. state[i] # "COMPENSATED"
      BY <2>1 DEF Outstanding, SagaInv, WorldInv
    <3>. QED  BY <2>1, <3>1, <3>2 DEF InDoubt, StepState
  <2>2. ASSUME NEW i \in Steps, NEW j \in Steps, InDoubt(i), InDoubt(j)
        PROVE  i = j
    <3>1. made[i] = 1 /\ made[j] = 1
      BY <2>2 DEF InDoubt, Outstanding, SagaInv, WorldInv
    <3>2. ~(i < j) /\ ~(j < i)
      BY <2>2, <3>1 DEF InDoubt, SagaInv, PrefixInv
    <3>. QED  BY <3>2, SagaConstants DEF Steps
  <2>. QED  BY <2>1, <2>2 DEF LeftoversAreReported
<1>. QED  BY <1>1, SagaInvariant, SagaTypeCorrect, PTL

\* A settled step is never touched again (saga.py, _unwind skips what is not DONE).
THEOREM SettledStepsAreFinal == Spec => SettledStepsRest
<1>1. TypeOK /\ SagaInv /\ [Next]_vars =>
        [\A i \in Steps : state[i] \in Settled =>
           state'[i] = state[i] /\ undone'[i] = undone[i] /\ made'[i] = made[i]]_vars
  <2> SUFFICES ASSUME TypeOK, SagaInv, [Next]_vars,
                      NEW i \in Steps, state[i] \in Settled
               PROVE  state'[i] = state[i] /\ undone'[i] = undone[i] /\ made'[i] = made[i]
    OBVIOUS
  <2> USE DEF Settled, TypeOK, SagaInv, LoopInv, Done, world
  <2>1. CASE CallForward \/ ForwardReturns \/ ForwardRaises
    BY <2>1 DEF CallForward, ForwardReturns, ForwardRaises
  <2>2. CASE DeclareIrreversible \/ CallCompensate
    BY <2>2 DEF DeclareIrreversible, CallCompensate, AtStep, ToSettle
  <2>3. CASE CompensateReturns \/ CompensateRaises
    BY <2>3 DEF CompensateReturns, CompensateRaises
  <2>. QED
    BY <2>1, <2>2, <2>3
       DEF Next, Progress, Run, CompensateAll, Skip, Return, Crash, vars
<1>. QED
  BY <1>1, SagaInvariant, SagaTypeCorrect, PTL DEF Spec, SettledStepsRest

-----------------------------------------------------------------------------
(* Refinement.                                                              *)

\* While run is at a step, exactly the steps before it are standing; when the
\* unwinding is at a step that is done, exactly the steps up to it are.
LEMMA StandingSteps ==
  ASSUME TypeOK, SagaInv
  PROVE  /\ phase = "run" => {i \in Steps : state[i] = "DONE"} = 1 .. (pos - 1)
         /\ phase = "unwind" /\ pos \in Steps /\ Done(pos) =>
              {i \in Steps : state[i] = "DONE"} = 1 .. pos
<1>1. CASE phase = "run"
  BY <1>1, SagaConstants DEF TypeOK, SagaInv, LoopInv, Done, Steps
<1>2. CASE phase = "unwind" /\ pos \in Steps /\ Done(pos)
  BY <1>2, SagaConstants DEF TypeOK, SagaInv, LoopInv, PrefixInv, Done, Steps
<1>. QED  BY <1>1, <1>2

\* The saga implements UndoStack: forward in order, backward in reverse order.
THEOREM SagaImplementsUndoStack == Spec => ImplementsUndoStack
<1> DEFINE S == {i \in Steps : state[i] = "DONE"}
<1>1. Init => Stack!Init
  BY DEF Init, Stack!Init
<1>2. TypeOK /\ SagaInv /\ [Next]_vars => [Stack!Next]_(Stack!absVars)
  <2> SUFFICES ASSUME TypeOK, SagaInv, [Next]_vars
               PROVE  [Stack!Next]_(Stack!absVars)
    OBVIOUS
  <2>1. CASE ForwardReturns
    <3>1. /\ pos \in Steps /\ S = 1 .. (pos - 1) /\ phase = "run"
          /\ phase' \in {"run", "ran"} /\ state' = [state EXCEPT ![pos] = "DONE"]
      BY <2>1, StandingSteps DEF ForwardReturns, TypeOK, Steps
    <3>2. S' = S \cup {pos}
      BY <3>1 DEF TypeOK
    <3>3. S' = 1 .. pos
      BY <3>1, <3>2 DEF Steps
    <3>4. PICK k \in 1 .. N : k = pos
      BY <3>1 DEF Steps
    <3>5. Stack!TakeHold(k)
      BY <3>1, <3>3, <3>4 DEF Stack!TakeHold
    <3>. QED  BY <3>5 DEF Stack!Next
  <2>2. ASSUME phase = "unwind", phase' = "unwind", pos \in Steps, Done(pos),
               NEW s, s # "DONE", state' = [state EXCEPT ![pos] = s]
        PROVE  [Stack!Next]_(Stack!absVars)
    <3>1. S = 1 .. pos
      BY <2>2, StandingSteps
    <3>2. S' = S \ {pos}
      BY <2>2 DEF TypeOK
    <3>3. S' = 1 .. (pos - 1)
      BY <2>2, <3>1, <3>2 DEF Steps
    <3>4. PICK k \in 1 .. N : k = pos
      BY <2>2 DEF Steps
    <3>5. Stack!Settle(k)
      BY <2>2, <3>1, <3>3, <3>4 DEF Stack!Settle
    <3>. QED  BY <3>5 DEF Stack!Next
  <2>3. CASE DeclareIrreversible
    <3>1. pos \in Steps /\ Done(pos)
      BY <2>3 DEF DeclareIrreversible, AtStep, ToSettle, Done, TypeOK, Steps
    <3>. QED  BY <2>2, <2>3, <3>1 DEF DeclareIrreversible, AtStep
  <2>4. CASE CompensateReturns \/ CompensateRaises
    <3>1. pos \in Steps /\ Done(pos) /\ phase = "unwind"
      BY <2>4 DEF CompensateReturns, CompensateRaises, SagaInv, LoopInv, TypeOK, Steps
    <3>. QED  BY <2>2, <2>4, <3>1 DEF CompensateReturns, CompensateRaises
  <2>5. CASE ForwardRaises
    <3>1. pos \in Steps /\ state[pos] = "PENDING" /\ phase' = "unwind"
          /\ state' = [state EXCEPT ![pos] = "FAILED"]
      BY <2>5 DEF ForwardRaises, SagaInv, LoopInv, TypeOK, Steps
    <3>2. S' = S
      BY <3>1 DEF TypeOK
    <3>3. Stack!GiveUp
      BY <3>1, <3>2 DEF Stack!GiveUp
    <3>. QED  BY <3>3 DEF Stack!Next
  <2>6. ASSUME UNCHANGED state,
               \/ phase' \in {"unwind", "unwound", "dead"}
               \/ phase' = phase
               \/ phase = "fresh" /\ phase' = "run"
        PROVE  [Stack!Next]_(Stack!absVars)
    <3>1. S' = S
      BY <2>6
    <3>2. CASE phase' \in {"unwind", "unwound", "dead"}
      BY <3>1, <3>2 DEF Stack!GiveUp, Stack!Next
    <3>3. CASE phase' = phase \/ (phase = "fresh" /\ phase' = "run")
      BY <3>1, <3>3 DEF Stack!absVars
    <3>. QED  BY <2>6, <3>2, <3>3
  <2>. QED
    BY <2>1, <2>3, <2>4, <2>5, <2>6
       DEF Next, Progress, Run, CallForward, CompensateAll, Skip, CallCompensate,
           Return, Crash, vars
<1>. QED
  BY <1>1, <1>2, SagaInvariant, SagaTypeCorrect, PTL
     DEF Spec, ImplementsUndoStack, Stack!Spec
=============================================================================
