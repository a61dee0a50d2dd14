-------------------------------- MODULE Saga --------------------------------
(***************************************************************************)
(* antar/act/saga.py: Saga.run, Saga.compensate_all and the unwinding they *)
(* share, with the durable step log, the worker that may be killed at any  *)
(* point, and the side effects of the steps at the provider.               *)
(*                                                                         *)
(* A step's forward or compensate function is a call: it takes effect or   *)
(* not, and then returns, raises, or is never heard of again because the   *)
(* worker died.  It returns only when it took effect; it may raise in      *)
(* either case (a timeout after the provider acted).                       *)
(***************************************************************************)
EXTENDS Integers, FiniteSets

CONSTANTS
  N,                    \* the number of steps added to the saga
  Reversible,           \* the steps added with a compensate function
  MaxCrashes, MaxCalls  \* bounds: kills of the worker, calls of compensate_all

Steps == 1 .. N

ASSUME SagaConstants ==
  /\ N \in Nat \ {0}
  /\ Reversible \subseteq Steps
  /\ MaxCrashes \in Nat /\ MaxCalls \in Nat

VARIABLES
  state,        \* the durable log: the StepState of each step
  phase,        \* fresh, run, ran, unwind, unwound, or dead (killed)
  pos,          \* the step the loop of run or _unwind is at
  call,         \* the forward or compensate call in progress: none, took, missed
  result,       \* SagaResult: the steps in irreversible and compensation_errors
  crashes, calls,
  made, undone  \* external: the effects of forward and of compensate, by step

world == <<made, undone>>
vars == <<state, phase, pos, call, result, crashes, calls, world>>

StepState == {"PENDING", "DONE", "FAILED", "COMPENSATED", "IRREVERSIBLE",
              "COMPENSATION_FAILED"}

NoResult == [irreversible |-> {}, errors |-> {}]

Init ==
  /\ state = [i \in Steps |-> "PENDING"]
  /\ phase = "fresh" /\ pos = 0 /\ call = "none" /\ result = NoResult
  /\ crashes = 0 /\ calls = 0
  /\ made = [i \in Steps |-> 0] /\ undone = [i \in Steps |-> 0]

-----------------------------------------------------------------------------
(* run.                                                                     *)

Run ==
  /\ phase = "fresh"
  /\ phase' = "run" /\ pos' = 1
  /\ UNCHANGED <<state, call, result, crashes, calls, world>>

CallForward ==
  /\ phase = "run" /\ call = "none"
  /\ \/ call' = "took" /\ made' = [made EXCEPT ![pos] = @ + 1]
     \/ call' = "missed" /\ UNCHANGED made
  /\ UNCHANGED <<state, phase, pos, result, crashes, calls, undone>>

ForwardReturns ==
  /\ phase = "run" /\ call = "took"
  /\ state' = [state EXCEPT ![pos] = "DONE"]
  /\ call' = "none"
  /\ phase' = (IF pos = N THEN "ran" ELSE "run")
  /\ pos' = (IF pos = N THEN pos ELSE pos + 1)
  /\ UNCHANGED <<result, crashes, calls, world>>

\* Mutant of ForwardRaises: the loop goes on with the next step.
ForwardRaisesGoesOn ==
  /\ phase = "run" /\ call # "none"
  /\ state' = [state EXCEPT ![pos] = "FAILED"]
  /\ call' = "none"
  /\ phase' = (IF pos = N THEN "unwind" ELSE "run")
  /\ pos' = (IF pos = N THEN N ELSE pos + 1)
  /\ UNCHANGED <<result, crashes, calls, world>>

ForwardRaises ==
  /\ phase = "run" /\ call # "none"
  /\ state' = [state EXCEPT ![pos] = "FAILED"]
  /\ call' = "none"
  /\ phase' = "unwind" /\ pos' = N
  /\ UNCHANGED <<result, crashes, calls, world>>

-----------------------------------------------------------------------------
(* compensate_all and _unwind.                                              *)

\* compensate_all after run or compensate_all returned, or on the log that a
\* killed worker left.
CompensateAll ==
  /\ phase \in {"ran", "unwound", "dead"} /\ calls < MaxCalls
  /\ calls' = calls + 1
  /\ phase' = "unwind" /\ pos' = N /\ result' = NoResult
  /\ UNCHANGED <<state, call, crashes, world>>

\* The loop has reached a step, and has not called anything for it yet.
AtStep == phase = "unwind" /\ call = "none" /\ pos > 0

\* Mutant of ToSettle: every step that was started is compensated.
ToSettleIfStarted == state[pos] # "PENDING"

ToSettle == state[pos] = "DONE"

Skip ==
  /\ AtStep /\ ~ToSettle
  /\ pos' = pos - 1
  /\ UNCHANGED <<state, phase, call, result, crashes, calls, world>>

DeclareIrreversible ==
  /\ AtStep /\ ToSettle /\ pos \notin Reversible
  /\ state' = [state EXCEPT ![pos] = "IRREVERSIBLE"]
  /\ result' = [result EXCEPT !.irreversible = @ \cup {pos}]
  /\ pos' = pos - 1
  /\ UNCHANGED <<phase, call, crashes, calls, world>>

\* Mutant of MayUndo: the compensation is sent without its idempotency key.
MayUndoAgain == TRUE

\* A compensation carries the action's key with a suffix (":refund",
\* ":cancel"): the provider acts on it once, and answers a repeat with what it
\* did then or with an error.
MayUndo == undone[pos] = 0

CallCompensate ==
  /\ AtStep /\ ToSettle /\ pos \in Reversible
  /\ \/ call' = "took" /\ undone' = [undone EXCEPT ![pos] = IF MayUndo THEN @ + 1 ELSE @]
     \/ call' = "missed" /\ UNCHANGED undone
  /\ UNCHANGED <<state, phase, pos, result, crashes, calls, made>>

CompensateReturns ==
  /\ phase = "unwind" /\ call = "took"
  /\ state' = [state EXCEPT ![pos] = "COMPENSATED"]
  /\ call' = "none" /\ pos' = pos - 1
  /\ UNCHANGED <<phase, result, crashes, calls, world>>

\* Mutant of CompensateRaises: the failure strands the steps before it.
CompensateRaisesOut ==
  /\ phase = "unwind" /\ call # "none"
  /\ state' = [state EXCEPT ![pos] = "COMPENSATION_FAILED"]
  /\ result' = [result EXCEPT !.errors = @ \cup {pos}]
  /\ call' = "none" /\ pos' = 0
  /\ UNCHANGED <<phase, crashes, calls, world>>

\* Mutant of CompensateRaises: the step stays done, to be tried again.
CompensateRaisesRetries ==
  /\ phase = "unwind" /\ call # "none"
  /\ result' = [result EXCEPT !.errors = @ \cup {pos}]
  /\ call' = "none"
  /\ UNCHANGED <<state, phase, pos, crashes, calls, world>>

CompensateRaises ==
  /\ phase = "unwind" /\ call # "none"
  /\ state' = [state EXCEPT ![pos] = "COMPENSATION_FAILED"]
  /\ result' = [result EXCEPT !.errors = @ \cup {pos}]
  /\ call' = "none" /\ pos' = pos - 1
  /\ UNCHANGED <<phase, crashes, calls, world>>

Return ==
  /\ phase = "unwind" /\ call = "none" /\ pos = 0
  /\ phase' = "unwound"
  /\ UNCHANGED <<state, pos, call, result, crashes, calls, world>>

\* The worker is killed: the log and the world stay as they are.
Crash ==
  /\ phase \in {"run", "ran", "unwind", "unwound"} /\ crashes < MaxCrashes
  /\ crashes' = crashes + 1
  /\ phase' = "dead" /\ call' = "none" /\ result' = NoResult
  /\ UNCHANGED <<state, pos, calls, world>>

\* The steps of a call of run or compensate_all that is in progress.
Progress ==
  \/ CallForward \/ ForwardReturns \/ ForwardRaises
  \/ Skip \/ DeclareIrreversible
  \/ CallCompensate \/ CompensateReturns \/ CompensateRaises
  \/ Return

Next == Run \/ CompensateAll \/ Progress \/ Crash

Spec == Init /\ [][Next]_vars

\* A call in progress runs on: the loops are straight-line code and every call
\* to the provider ends by its timeout at the latest.
FairSpec == Spec /\ WF_vars(Progress)

-----------------------------------------------------------------------------
(* Properties.                                                              *)

\* The type invariant of the saga.
TypeOK ==
  /\ state \in [Steps -> StepState]
  /\ phase \in {"fresh", "run", "ran", "unwind", "unwound", "dead"}
  /\ pos \in (IF phase = "run" \/ call # "none" THEN 1 .. N ELSE 0 .. N)
  /\ call \in {"none", "took", "missed"}
  /\ result \in [irreversible: SUBSET Steps, errors: SUBSET Steps]
  /\ crashes \in 0 .. MaxCrashes /\ calls \in 0 .. MaxCalls
  /\ made \in [Steps -> Nat] /\ undone \in [Steps -> Nat]

\* The effect of a step is in the world and has not been undone.
Outstanding(i) == made[i] > undone[i]

\* The saga did something whose outcome its log does not show.
InDoubt(i) == Outstanding(i) /\ state[i] \in {"PENDING", "FAILED"}

\* When an unwinding has run to its end, whatever is still in the world belongs
\* to a step the log reports as irreversible or failed to compensate, or to the
\* one step that was being attempted when the run ended.
LeftoversAreReported ==
  /\ phase = "unwound" =>
       \A i \in Steps : Outstanding(i) =>
         InDoubt(i) \/ state[i] \in {"IRREVERSIBLE", "COMPENSATION_FAILED"}
  /\ \A i, j \in Steps : InDoubt(i) /\ InDoubt(j) => i = j

\* The log tells the truth about the world: a compensated step has been undone,
\* nothing is undone that was not made, and nothing is undone twice - whatever
\* crashes and repeated calls of compensate_all come between.
LogIsTruthful ==
  \A i \in Steps :
    /\ state[i] = "DONE" => made[i] = 1
    /\ state[i] = "COMPENSATED" => made[i] = 1 /\ undone[i] = 1
    /\ state[i] = "IRREVERSIBLE" => i \notin Reversible /\ made[i] = 1
    /\ undone[i] <= made[i]

Settled == {"COMPENSATED", "IRREVERSIBLE", "COMPENSATION_FAILED", "FAILED"}

\* A settled step is never touched again, by any later call of compensate_all.
SettledStepsRest ==
  [][\A i \in Steps : state[i] \in Settled =>
       state'[i] = state[i] /\ undone'[i] = undone[i] /\ made'[i] = made[i]]_vars

\* The saga implements UndoStack: forward in order, and back in reverse order.
Stack == INSTANCE UndoStack WITH
  standing <- {i \in Steps : state[i] = "DONE"},
  givenUp <- phase \in {"unwind", "unwound", "dead"}

ImplementsUndoStack == Stack!Spec

\* A run that fails, and a compensate_all that starts, ends with no step left
\* in state DONE, or is cut short by a crash.
UnwindingFinishes ==
  phase = "unwind" ~>
    \/ phase = "dead"
    \/ phase = "unwound" /\ \A i \in Steps : state[i] # "DONE"

=============================================================================
