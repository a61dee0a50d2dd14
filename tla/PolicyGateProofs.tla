-------------------------- MODULE PolicyGateProofs --------------------------
(***************************************************************************)
(* Machine-checked facts about PolicyGate, for any set of decisions, any   *)
(* limits and any bounds.  The type invariant comes first; the inductive   *)
(* invariant GateInv adds what is true of the action between the check     *)
(* and the commit, and ties what the provider has taken to what happened.  *)
(***************************************************************************)
EXTENDS PolicyGate, FiniteSetTheorems, TLAPS

\* Init establishes the type invariant.
LEMMA InitType == Init => TypeOK
BY GateConstants DEF Init, TypeOK, Days, ActionRecord, Book, NoMoney

\* A record made by submit is an ActionRecord with the decision's key and amount.
LEMMA RecordType ==
  ASSUME TypeOK, NEW d \in Decisions, NEW by \in BOOLEAN
  PROVE  Record(d, by) \in ActionRecord
<1>1. NeedsApproval(d) \in BOOLEAN /\ (NeedsApproval(d) /\ by) \in BOOLEAN
  BY DEF NeedsApproval
<1>2. Amount[d] \in Int /\ day \in Days /\ DryRun \in BOOLEAN
  BY GateConstants DEF TypeOK
<1>. QED  BY <1>1, <1>2 DEF Record, ActionRecord

\* Booking an action leaves a book of money.
LEMMA BookType ==
  ASSUME NEW b \in Book, NEW r \in ActionRecord
  PROVE  Booked(b, r) \in Book
BY DEF Booked, Book, ActionRecord

\* Every step preserves the type invariant.
LEMMA NextType == TypeOK /\ [Next]_vars => TypeOK'
<1> SUFFICES ASSUME TypeOK, [Next]_vars PROVE TypeOK'
  OBVIOUS
<1> USE GateConstants
<1>1. ASSUME NEW d \in Decisions, NEW by \in BOOLEAN, NEW r, NEW s,
             Submit(d, by, r, s), r \in ActionRecord, s \in {"execute", "commit"}
      PROVE  TypeOK'
  BY <1>1 DEF Submit, TypeOK, memory, world
<1>2. ASSUME NEW d \in Decisions, SubmitReplay(d) PROVE TypeOK'
  BY <1>2 DEF SubmitReplay, TypeOK, memory, world
<1>3. ASSUME NEW d \in Decisions, NEW by \in BOOLEAN, SubmitRefused(d, by)
      PROVE  TypeOK'
  <2>1. [Record(d, by) EXCEPT !.blocked = TRUE, !.requires_human_approval = FALSE,
                              !.approved = FALSE] \in ActionRecord
    <3>1. Record(d, by) \in ActionRecord
      BY RecordType
    <3>. QED  BY <3>1 DEF ActionRecord
  <2>. QED  BY <1>1, <1>3, <2>1 DEF SubmitRefused
<1>4. ASSUME NEW d \in Decisions, SubmitAwaitingApproval(d) PROVE TypeOK'
  <2>1. [Record(d, FALSE) EXCEPT !.blocked = TRUE] \in ActionRecord
    <3>1. Record(d, FALSE) \in ActionRecord
      BY RecordType
    <3>. QED  BY <3>1 DEF ActionRecord
  <2>. QED  BY <1>1, <1>4, <2>1 DEF SubmitAwaitingApproval
<1>5. ASSUME NEW d \in Decisions, NEW by \in BOOLEAN, NEW live \in BOOLEAN,
             SubmitPermitted(d, by, live)
      PROVE  TypeOK'
  BY <1>1, <1>5, RecordType DEF SubmitPermitted
<1>6. ASSUME stage = "execute", TakeEffect
      PROVE  /\ taken' \subseteq {KeyOf(d) : d \in Decisions}
             /\ acts' \in [Decisions -> Nat]
             /\ moved' \in Book
  <2>1. action \in ActionRecord
    BY <1>6 DEF TypeOK
  <2>2. moved' \in Book
    BY <1>6, <2>1, BookType DEF TakeEffect, TypeOK
  <2>. QED  BY <1>6, <2>2 DEF TakeEffect, TypeOK, ActionRecord
<1>7. CASE ExecutorReturns
  <2>1. action \in ActionRecord /\ [action EXCEPT !.executed = TRUE] \in ActionRecord
    BY <1>7 DEF ExecutorReturns, RequiresGate, TypeOK, ActionRecord
  <2>2. /\ taken' \subseteq {KeyOf(d) : d \in Decisions}
        /\ acts' \in [Decisions -> Nat]
        /\ moved' \in Book
    BY <1>6, <1>7 DEF ExecutorReturns, RequiresGate, Replayed, TypeOK, world
  <2>. QED  BY <1>7, <2>1, <2>2 DEF ExecutorReturns, RequiresGate, TypeOK, memory
<1>8. CASE ExecutorRaises
  <2>1. CASE TakeEffect /\ unheard' = Booked(unheard, action)
    <3>1. action \in ActionRecord
      BY <1>8 DEF ExecutorRaises, RequiresGate, TypeOK
    <3>2. unheard' \in Book
      BY <2>1, <3>1, BookType DEF TypeOK
    <3>. QED  BY <1>6, <1>8, <2>1, <3>2 DEF ExecutorRaises, RequiresGate, TypeOK, memory
  <2>2. CASE UNCHANGED <<world, unheard>>
    BY <1>8, <2>2 DEF ExecutorRaises, RequiresGate, TypeOK, memory, world
  <2>. QED  BY <1>8, <2>1, <2>2 DEF ExecutorRaises
<1>9. ASSUME Remember
      PROVE  /\ cache' \subseteq ActionRecord
             /\ spentDay' \in [Days -> Int] /\ spentTotal' \in Int
             /\ stage' = "idle" /\ action' = NoAction
             /\ action \in ActionRecord
  <2>1. action \in ActionRecord
    BY <1>9 DEF Remember, TypeOK
  <2>2. Spend(action) \in Int /\ action.day \in Days
    BY <2>1 DEF Spend, ActionRecord
  <2>3. spentDay' \in [Days -> Int] /\ spentTotal' \in Int
    BY <1>9, <2>2 DEF Remember, TypeOK
  <2>4. cache' \subseteq ActionRecord
    BY <1>9, <2>1 DEF Remember, TypeOK
  <2>. QED  BY <1>9, <2>1, <2>3, <2>4 DEF Remember
<1>10. CASE Commit
  BY <1>9, <1>10 DEF Commit, Remember, TypeOK, world
<1>11. CASE LedgerFails
  BY <1>9, <1>11 DEF LedgerFails, Remember, TypeOK, world
<1>12. CASE Restart
  BY <1>12 DEF Restart, TypeOK, Book, NoMoney
<1>13. CASE NextDay
  BY <1>13 DEF NextDay, TypeOK, memory, world, Days
<1>14. CASE UNCHANGED vars
  BY <1>14 DEF vars, TypeOK, memory, world
<1>. QED
  BY <1>2, <1>3, <1>4, <1>5, <1>7, <1>8, <1>10, <1>11, <1>12, <1>13, <1>14 DEF Next

\* The gate's state keeps its type in every reachable state.
THEOREM TypeCorrect == Spec => []TypeOK
BY InitType, NextType, PTL DEF Spec

-----------------------------------------------------------------------------
(* The inductive invariant.                                                 *)

\* What has been established about the action in flight: its identity, that
\* only an eligible action reaches the executor, and that the caps still have
\* room for it.
ActionInv ==
  stage # "idle" =>
    /\ action.key = KeyOf(action.decision)
    /\ action.amount = Amount[action.decision]
    /\ stage = "execute" => ~action.blocked /\ ~action.executed
    /\ stage = "execute" => Eligible(action.decision)
    /\ action.blocked => ~action.executed
    /\ ~action.blocked => /\ spentDay[action.day] + action.amount <= PerDayCap
                          /\ spentTotal + action.amount <= TotalCap

\* The provider has acted on a decision's key exactly when it was debited.
DebitInv == \A d \in Keyed : acts[d] = IF KeyOf(d) \in taken THEN 1 ELSE 0

\* What the counters have counted is under the caps.
CountedInv ==
  /\ spentTotal <= TotalCap
  /\ \A t \in Days : spentDay[t] <= PerDayCap

\* The money that moved was counted, or no answer was heard, or it is that of the
\* action which the executor has answered and submit has not counted yet.
InFlight == IF stage = "commit" /\ action.executed THEN action.amount ELSE 0
InFlightOn(t) == IF stage = "commit" /\ action.day = t THEN InFlight ELSE 0

MovedInv ==
  /\ moved.total <= spentTotal + unheard.total + InFlight
  /\ \A t \in Days : moved.day[t] <= spentDay[t] + unheard.day[t] + InFlightOn(t)

GateInv ==
  ActionInv /\ DebitInv /\ CountedInv /\ MovedInv /\ EffectsWereAuthorised

\* Init establishes the inductive invariant.
LEMMA InitGateInv == Init => GateInv
BY GateConstants
   DEF Init, GateInv, ActionInv, DebitInv, CountedInv, MovedInv, InFlight, InFlightOn,
       NoMoney, EffectsWereAuthorised, Days

\* A new submission carries an action of which ActionInv holds, and the rest of
\* the invariant does not depend on it.
LEMMA SubmitGateInv ==
  ASSUME TypeOK, GateInv, NEW d \in Decisions, NEW by \in BOOLEAN,
         NEW r, NEW s, Submit(d, by, r, s), r.executed = FALSE, ActionInv'
  PROVE  GateInv'
<1> USE GateConstants DEF GateInv, Submit, memory, world
<1>1. DebitInv'
  BY DEF DebitInv
<1>2. CountedInv'
  BY DEF CountedInv
<1>3. EffectsWereAuthorised'
  BY DEF EffectsWereAuthorised, Eligible, NeedsApproval, BadTerms
<1>4. MovedInv'
  BY DEF MovedInv, InFlight, InFlightOn
<1>. QED  BY <1>1, <1>2, <1>3, <1>4

\* A record made by submit is not executed yet.
LEMMA RecordUnexecuted ==
  ASSUME NEW d \in Decisions, NEW by
  PROVE  /\ Record(d, by).executed = FALSE
         /\ [Record(d, by) EXCEPT !.blocked = TRUE].executed = FALSE
         /\ [Record(d, by) EXCEPT !.blocked = TRUE, !.requires_human_approval = FALSE,
                                  !.approved = FALSE].executed = FALSE
BY DEF Record

\* When the executor takes effect, the decision is eligible and its key fresh.
LEMMA EffectGateInv ==
  ASSUME TypeOK, GateInv, RequiresGate, TakeEffect, UNCHANGED approvals
  PROVE  DebitInv' /\ EffectsWereAuthorised'
<1> USE GateConstants DEF GateInv, RequiresGate
<1>1. action.decision \in Decisions /\ action.key = KeyOf(action.decision)
  BY DEF TypeOK, ActionRecord, ActionInv
<1>2. DebitInv'
  <2> SUFFICES ASSUME NEW d \in Keyed
               PROVE  acts'[d] = IF KeyOf(d) \in taken' THEN 1 ELSE 0
    BY DEF DebitInv
  <2>1. acts[d] = IF KeyOf(d) \in taken THEN 1 ELSE 0
    BY DEF DebitInv
  <2>2. CASE d = action.decision
    BY <1>1, <2>1, <2>2 DEF TakeEffect, Effective, TypeOK
  <2>3. CASE d # action.decision
    <3>1. KeyOf(d) # action.key
      BY <1>1, <2>3 DEF KeyOf
    <3>. QED  BY <1>1, <2>1, <2>3, <3>1 DEF TakeEffect, TypeOK
  <2>. QED  BY <2>2, <2>3
<1>3. EffectsWereAuthorised'
  <2> SUFFICES ASSUME NEW d \in Decisions, acts'[d] > 0
               PROVE  Eligible(d)'
    BY DEF EffectsWereAuthorised
  <2>1. Eligible(d)
    BY <1>1 DEF TakeEffect, TypeOK, ActionInv, EffectsWereAuthorised
  <2>. QED  BY <2>1 DEF Eligible, NeedsApproval, BadTerms
<1>. QED  BY <1>2, <1>3

\* A booked action is in the book, in total and on its day.
LEMMA BookAdds ==
  ASSUME NEW b \in Book, NEW r \in ActionRecord
  PROVE  /\ Booked(b, r).total = b.total + r.amount
         /\ \A t \in Days : Booked(b, r).day[t] =
              b.day[t] + IF t = r.day THEN r.amount ELSE 0
         /\ b.total \in Int /\ b.day \in [Days -> Int]
         /\ r.amount \in Int /\ r.day \in Days
BY DEF Booked, Book, ActionRecord

\* The executor's answer, of an effect or of a replayed key, leaves the money that
\* moved accounted for.
LEMMA AnswerMovedInv ==
  ASSUME TypeOK, GateInv, ExecutorReturns
  PROVE  MovedInv'
<1> USE DEF GateInv, ExecutorReturns, RequiresGate, memory
<1>1. action \in ActionRecord /\ moved \in Book /\ unheard \in Book
      /\ spentDay \in [Days -> Int] /\ spentTotal \in Int
  BY DEF TypeOK
<1>2. action.amount >= 0 /\ action.amount \in Int /\ action.day \in Days
  BY <1>1, GateConstants DEF ActionInv, Eligible, BadTerms, ActionRecord
<1>3. /\ InFlight = 0 /\ \A t \in Days : InFlightOn(t) = 0
      /\ InFlight' = action.amount
      /\ \A t \in Days : InFlightOn(t)' = IF t = action.day THEN action.amount ELSE 0
  BY <1>1 DEF InFlight, InFlightOn, ActionRecord
<1>4. unheard.total \in Int /\ unheard.day \in [Days -> Int]
      /\ moved.total \in Int /\ moved.day \in [Days -> Int]
  BY <1>1 DEF Book
<1>5. CASE TakeEffect
  <2>1. moved' = Booked(moved, action)
    BY <1>5 DEF TakeEffect
  <2>2. moved'.total = moved.total + action.amount
        /\ \A t \in Days : moved'.day[t] =
             moved.day[t] + IF t = action.day THEN action.amount ELSE 0
    BY <1>1, <2>1, BookAdds
  <2>. QED  BY <1>1, <1>2, <1>3, <1>4, <2>2 DEF MovedInv
<1>6. CASE Replayed
  <2>1. moved' = moved
    BY <1>6 DEF Replayed, world
  <2>. QED  BY <1>1, <1>2, <1>3, <1>4, <2>1 DEF MovedInv
<1>. QED  BY <1>5, <1>6

\* An effect whose answer is lost is booked as unheard.
LEMMA LostMovedInv ==
  ASSUME TypeOK, GateInv, ExecutorRaises
  PROVE  MovedInv'
<1> USE DEF GateInv, ExecutorRaises, RequiresGate, memory
<1>1. action \in ActionRecord /\ moved \in Book /\ unheard \in Book
      /\ spentDay \in [Days -> Int] /\ spentTotal \in Int
  BY DEF TypeOK
<1>2. /\ InFlight = 0 /\ \A t \in Days : InFlightOn(t) = 0
      /\ InFlight' = 0 /\ \A t \in Days : InFlightOn(t)' = 0
  BY <1>1 DEF InFlight, InFlightOn
<1>3. CASE TakeEffect /\ unheard' = Booked(unheard, action)
  <2>1. moved' = Booked(moved, action) /\ unheard' = Booked(unheard, action)
    BY <1>3 DEF TakeEffect
  <2>2. /\ moved'.total = moved.total + action.amount
        /\ unheard'.total = unheard.total + action.amount
        /\ \A t \in Days :
             /\ moved'.day[t] = moved.day[t] + IF t = action.day THEN action.amount ELSE 0
             /\ unheard'.day[t] = unheard.day[t] + IF t = action.day THEN action.amount ELSE 0
        /\ action.amount \in Int
        /\ moved.total \in Int /\ moved.day \in [Days -> Int]
        /\ unheard.total \in Int /\ unheard.day \in [Days -> Int]
    BY <1>1, <2>1, BookAdds
  <2>. QED  BY <1>1, <1>2, <2>2 DEF MovedInv
<1>4. CASE UNCHANGED <<world, unheard>>
  BY <1>2, <1>4 DEF MovedInv, world
<1>. QED  BY <1>3, <1>4

\* Committing an action keeps the caps: the room it was checked against is still
\* there, because nothing else was counted in between.
LEMMA RememberGateInv ==
  ASSUME TypeOK, GateInv, Remember
  PROVE  GateInv'
<1> USE GateConstants DEF GateInv, Remember, world
<1>1. ActionInv'
  BY DEF ActionInv
<1>2. DebitInv'
  BY DEF DebitInv
<1>3. EffectsWereAuthorised'
  BY DEF EffectsWereAuthorised, Eligible, NeedsApproval, BadTerms
<1>4. CountedInv' /\ MovedInv'
  <2>1. action \in ActionRecord
    BY DEF TypeOK
  <2>2. /\ action.day \in Days /\ action.amount \in Int
        /\ action.executed \in BOOLEAN /\ action.blocked \in BOOLEAN
    BY <2>1 DEF ActionRecord
  <2>3. /\ spentDay \in [Days -> Int] /\ spentTotal \in Int
        /\ PerDayCap \in Int /\ TotalCap \in Int
    BY DEF TypeOK
  <2>4. action.executed => /\ spentDay[action.day] + action.amount <= PerDayCap
                           /\ spentTotal + action.amount <= TotalCap
    BY <2>2 DEF ActionInv
  <2>5. Spend(action) = IF action.executed THEN action.amount ELSE 0
    BY DEF Spend
  <2>6. spentTotal' <= TotalCap
    BY <2>2, <2>3, <2>4, <2>5 DEF CountedInv
  <2>7. ASSUME NEW t \in Days PROVE spentDay'[t] <= PerDayCap
    <3>1. CASE t = action.day
      BY <2>2, <2>3, <2>4, <2>5, <3>1 DEF CountedInv
    <3>2. CASE t # action.day
      BY <2>2, <2>3, <3>2 DEF CountedInv
    <3>. QED  BY <3>1, <3>2
  <2>8. InFlight = Spend(action)
        /\ \A t \in Days : InFlightOn(t) = IF t = action.day THEN Spend(action) ELSE 0
    BY <2>2 DEF InFlight, InFlightOn, Spend
  <2>9. InFlight' = 0 /\ \A t \in Days : InFlightOn(t)' = 0
    BY DEF InFlight, InFlightOn
  <2>10. /\ spentTotal' = spentTotal + Spend(action)
         /\ \A t \in Days : spentDay'[t] =
              spentDay[t] + IF t = action.day THEN Spend(action) ELSE 0
         /\ Spend(action) \in Int
    BY <2>2, <2>3, <2>5
  <2>11. unheard.total \in Int /\ unheard.day \in [Days -> Int]
         /\ moved.total \in Int /\ moved.day \in [Days -> Int]
    BY DEF TypeOK, Book
  <2>12. MovedInv'
    BY <2>3, <2>8, <2>9, <2>10, <2>11 DEF MovedInv
  <2>. QED  BY <2>6, <2>7, <2>12 DEF CountedInv
<1>. QED  BY <1>1, <1>2, <1>3, <1>4

\* Every step preserves the inductive invariant.
LEMMA NextGateInv == TypeOK /\ GateInv /\ [Next]_vars => GateInv'
<1> SUFFICES ASSUME TypeOK, GateInv, [Next]_vars PROVE GateInv'
  OBVIOUS
<1> USE GateConstants
<1>1. ASSUME NEW d \in Decisions, SubmitReplay(d) PROVE GateInv'
  BY <1>1 DEF SubmitReplay, GateInv, ActionInv, DebitInv, CountedInv, MovedInv, InFlight,
              InFlightOn, EffectsWereAuthorised, Eligible, NeedsApproval, BadTerms, memory, world
<1>2. ASSUME NEW d \in Decisions, NEW by \in BOOLEAN, SubmitRefused(d, by)
      PROVE  GateInv'
  <2>1. ActionInv'
    BY <1>2 DEF SubmitRefused, Submit, ActionInv, Record
  <2>. QED  BY <1>2, <2>1, SubmitGateInv, RecordUnexecuted DEF SubmitRefused
<1>3. ASSUME NEW d \in Decisions, SubmitAwaitingApproval(d) PROVE GateInv'
  <2>1. ActionInv'
    BY <1>3 DEF SubmitAwaitingApproval, Submit, ActionInv, Record
  <2>. QED  BY <1>3, <2>1, SubmitGateInv, RecordUnexecuted DEF SubmitAwaitingApproval
<1>4. ASSUME NEW d \in Decisions, NEW by \in BOOLEAN, NEW live \in BOOLEAN,
             SubmitPermitted(d, by, live)
      PROVE  GateInv'
  <2>1. /\ Amount[d] \in Int /\ day \in Days
        /\ spentDay \in [Days -> Int] /\ spentTotal \in Int
    BY DEF TypeOK
  <2>2. /\ spentDay[day] + Amount[d] <= PerDayCap
        /\ spentTotal + Amount[d] <= TotalCap
    BY <1>4, <2>1 DEF SubmitPermitted, OverCap
  <2>3. stage' = "execute" => Eligible(d)'
    BY <1>4 DEF SubmitPermitted, Submit, Eligible, NeedsApproval, BadTerms
  <2>4. ActionInv'
    BY <1>4, <2>2, <2>3 DEF SubmitPermitted, Submit, ActionInv, Record, memory
  <2>. QED  BY <1>4, <2>4, SubmitGateInv, RecordUnexecuted DEF SubmitPermitted
<1>5. CASE ExecutorReturns
  <2>1. DebitInv' /\ EffectsWereAuthorised'
    <3>1. CASE TakeEffect
      BY <1>5, <3>1, EffectGateInv DEF ExecutorReturns
    <3>2. CASE Replayed
      BY <1>5, <3>2 DEF ExecutorReturns, Replayed, GateInv, DebitInv, Eligible,
                        EffectsWereAuthorised, NeedsApproval, BadTerms, world
    <3>. QED  BY <1>5, <3>1, <3>2 DEF ExecutorReturns
  <2>2. action \in ActionRecord /\ ~action.blocked
    BY <1>5 DEF ExecutorReturns, RequiresGate, TypeOK
  <2>3. ActionInv'
    BY <1>5, <2>2 DEF ExecutorReturns, RequiresGate, GateInv, ActionInv,
                      ActionRecord, memory
  <2>4. CountedInv' /\ MovedInv'
    BY <1>5, AnswerMovedInv DEF ExecutorReturns, GateInv, CountedInv, memory
  <2>. QED  BY <2>1, <2>3, <2>4 DEF GateInv
<1>6. CASE ExecutorRaises
  <2>1. DebitInv' /\ EffectsWereAuthorised'
    <3>1. CASE TakeEffect
      BY <1>6, <3>1, EffectGateInv DEF ExecutorRaises
    <3>2. CASE UNCHANGED <<world, unheard>>
      BY <1>6, <3>2 DEF ExecutorRaises, GateInv, DebitInv, EffectsWereAuthorised,
                        Eligible, NeedsApproval, BadTerms, world
    <3>. QED  BY <1>6, <3>1, <3>2 DEF ExecutorRaises
  <2>2. ActionInv' /\ CountedInv' /\ MovedInv'
    BY <1>6, LostMovedInv DEF ExecutorRaises, GateInv, ActionInv, CountedInv, memory
  <2>. QED  BY <2>1, <2>2 DEF GateInv
<1>7. CASE Commit
  BY <1>7, RememberGateInv DEF Commit
<1>8. CASE LedgerFails
  BY <1>8, RememberGateInv DEF LedgerFails
<1>9. CASE Restart
  BY <1>9 DEF Restart, GateInv, ActionInv, DebitInv, CountedInv, MovedInv, InFlight,
              InFlightOn, NoMoney, EffectsWereAuthorised, Eligible, NeedsApproval, BadTerms
<1>10. CASE NextDay
  BY <1>10 DEF NextDay, GateInv, ActionInv, DebitInv, CountedInv, memory, MovedInv,
              InFlight, InFlightOn, world, EffectsWereAuthorised, Eligible, NeedsApproval, BadTerms
<1>11. CASE UNCHANGED vars
  BY <1>11 DEF vars, GateInv, ActionInv, DebitInv, CountedInv, memory, MovedInv,
              InFlight, InFlightOn, world, EffectsWereAuthorised, Eligible, NeedsApproval, BadTerms
<1>. QED
  BY <1>1, <1>2, <1>3, <1>4, <1>5, <1>6, <1>7, <1>8, <1>9, <1>10, <1>11 DEF Next

\* The inductive invariant holds in every reachable state.
THEOREM GateInvariant == Spec => []GateInv
BY InitType, NextType, InitGateInv, NextGateInv, TypeCorrect, PTL DEF Spec

\* No decision is debited twice (retry_charge.py).
THEOREM NoDoubleDebit == Spec => []AtMostOneDebit
<1>1. GateInv => AtMostOneDebit
  <2> SUFFICES ASSUME GateInv, NEW d \in Keyed PROVE acts[d] <= 1
    BY DEF AtMostOneDebit
  <2>1. acts[d] = 0 \/ acts[d] = 1
    BY DEF GateInv, DebitInv
  <2>. QED  BY <2>1
<1>. QED  BY <1>1, GateInvariant, PTL

\* Within one life of the process no more money moves than the caps allow, but
\* for the effects whose answers were lost (gate.py, _check and submit).
THEOREM CapsBoundTheMoney == Spec => []CapsHoldInOneLife
<1>1. TypeOK /\ GateInv => CapsHoldInOneLife
  <2> SUFFICES ASSUME TypeOK, GateInv PROVE CapsHoldInOneLife
    OBVIOUS
  <2>1. /\ spentDay \in [Days -> Int] /\ spentTotal \in Int
        /\ unheard.total \in Int /\ unheard.day \in [Days -> Int]
        /\ moved.total \in Int /\ moved.day \in [Days -> Int]
        /\ PerDayCap \in Int /\ TotalCap \in Int
    BY GateConstants DEF TypeOK, Book
  <2>2. CASE stage = "commit" /\ action.executed
    <3>1. action \in ActionRecord
      BY <2>2 DEF TypeOK
    <3>2. /\ InFlight = action.amount
          /\ \A t \in Days : InFlightOn(t) = IF t = action.day THEN action.amount ELSE 0
          /\ action.amount \in Int /\ action.day \in Days
      BY <2>2, <3>1 DEF InFlight, InFlightOn, ActionRecord
    <3>3. /\ spentDay[action.day] + action.amount <= PerDayCap
          /\ spentTotal + action.amount <= TotalCap
      BY <2>2, <3>1 DEF GateInv, ActionInv, ActionRecord
    <3>4. ASSUME NEW t \in Days PROVE moved.day[t] <= PerDayCap + unheard.day[t]
      BY <2>1, <3>2, <3>3 DEF GateInv, CountedInv, MovedInv
    <3>. QED  BY <2>1, <3>2, <3>3, <3>4 DEF GateInv, MovedInv, CapsHoldInOneLife
  <2>3. CASE ~(stage = "commit" /\ action.executed)
    <3>1. InFlight = 0 /\ \A t \in Days : InFlightOn(t) = 0
      BY <2>3 DEF InFlight, InFlightOn
    <3>. QED  BY <2>1, <3>1 DEF GateInv, CountedInv, MovedInv, CapsHoldInOneLife
  <2>. QED  BY <2>2, <2>3
<1>. QED  BY <1>1, GateInvariant, TypeCorrect, PTL

\* Nothing has an effect that the policy did not allow (gate.py, submit).
THEOREM OnlyAuthorisedEffects == Spec => []EffectsWereAuthorised
<1>1. GateInv => EffectsWereAuthorised
  BY DEF GateInv
<1>. QED  BY <1>1, GateInvariant, PTL

-----------------------------------------------------------------------------
(* The ledger and what happened.                                            *)

\* The executed entries of a decision in a ledger L.
ExecutedIn(L, d) == {i \in DOMAIN L : L[i].decision = d /\ L[i].executed}

\* Appending an entry adds its index to the executed entries of its decision,
\* and to no other's.
LEMMA ExecutedEntriesOfAppend ==
  ASSUME NEW L \in Seq(ActionRecord), NEW r \in ActionRecord, NEW d \in Decisions
  PROVE  /\ IsFiniteSet(ExecutedIn(L, d))
         /\ Cardinality(ExecutedIn(L, d)) \in Nat
         /\ r.decision = d /\ r.executed =>
              Cardinality(ExecutedIn(Append(L, r), d)) = Cardinality(ExecutedIn(L, d)) + 1
         /\ ~(r.decision = d /\ r.executed) =>
              Cardinality(ExecutedIn(Append(L, r), d)) = Cardinality(ExecutedIn(L, d))
<1> DEFINE E(q) == ExecutedIn(q, d)
<1>1. IsFiniteSet(1 .. Len(L))
  BY FS_Interval
<1>2. E(L) \subseteq 1 .. Len(L)
  BY DEF ExecutedIn
<1>3. IsFiniteSet(E(L)) /\ Cardinality(E(L)) \in Nat
  BY <1>1, <1>2, FS_Subset, FS_CardinalityType
<1>4. /\ DOMAIN Append(L, r) = 1 .. Len(L) + 1
      /\ \A i \in 1 .. Len(L) : Append(L, r)[i] = L[i]
      /\ Append(L, r)[Len(L) + 1] = r
      /\ Len(L) \in Nat
  OBVIOUS
<1>5. CASE r.decision = d /\ r.executed
  <2>1. E(Append(L, r)) = E(L) \cup {Len(L) + 1}
    BY <1>4, <1>5 DEF ExecutedIn
  <2>2. Len(L) + 1 \notin E(L)
    BY <1>2, <1>4
  <2>3. Cardinality(E(Append(L, r))) = Cardinality(E(L)) + 1
    BY <1>3, <2>1, <2>2, FS_AddElement
  <2>. QED  BY <1>3, <1>5, <2>3
<1>6. CASE ~(r.decision = d /\ r.executed)
  <2>1. E(Append(L, r)) = E(L)
    BY <1>4, <1>6 DEF ExecutedIn
  <2>. QED  BY <1>3, <1>6, <2>1
<1>. QED  BY <1>5, <1>6

\* The executed entries of a decision can be counted.
LEMMA ExecutedEntriesCount ==
  ASSUME TypeOK, NEW d \in Decisions
  PROVE  Cardinality(ExecutedEntries(d)) \in Nat
<1>1. ExecutedEntries(d) \subseteq 1 .. Len(ledger) /\ Len(ledger) \in Nat
  BY DEF ExecutedEntries, TypeOK
<1>2. IsFiniteSet(1 .. Len(ledger))
  BY <1>1, FS_Interval
<1>3. IsFiniteSet(ExecutedEntries(d))
  BY <1>1, <1>2, FS_Subset
<1>. QED  BY <1>3, FS_CardinalityType

\* A record in memory is filed under its decision's key, and the action in
\* flight is not there yet.
CacheInv ==
  /\ \A r \in cache : r.key = KeyOf(r.decision)
  /\ stage # "idle" => ~Cached(action.decision)

\* What is claimed to be executed, in the ledger, in memory or on the way there.
Claimed(d) ==
  \/ ExecutedEntries(d) # {}
  \/ \E r \in cache : r.decision = d /\ r.executed
  \/ stage = "commit" /\ action.executed /\ action.decision = d

\* The executed entries a decision may have had before this life, and in it.
Entitled(d) ==
  restarts + IF \E r \in cache : r.decision = d /\ r.executed THEN 1 ELSE 0

LedgerInv ==
  /\ CacheInv
  /\ \A d \in Decisions : /\ Claimed(d) => acts[d] > 0
                          /\ Cardinality(ExecutedEntries(d)) <= Entitled(d)

\* Nothing in memory carries the decision of an action that is not cached.
LEMMA NotCached ==
  ASSUME CacheInv, NEW d, ~Cached(d)
  PROVE  \A r \in cache : r.decision # d
BY DEF CacheInv, Cached

\* Every step preserves what memory says of the action in flight.
LEMMA NextCacheInv == TypeOK /\ GateInv /\ CacheInv /\ [Next]_vars => CacheInv'
<1> SUFFICES ASSUME TypeOK, GateInv, CacheInv, [Next]_vars PROVE CacheInv'
  OBVIOUS
<1>1. ASSUME UNCHANGED cache, stage' # "idle" => ~Cached(action'.decision)
      PROVE  CacheInv'
  BY <1>1 DEF CacheInv, Cached
<1>2. ASSUME NEW d \in Decisions, NEW by, NEW r, NEW s, Submit(d, by, r, s), r.decision = d
      PROVE  CacheInv'
  BY <1>1, <1>2 DEF Submit, memory
<1>3. ASSUME NEW d \in Decisions, NEW by
      PROVE  /\ Record(d, by).decision = d
             /\ [Record(d, by) EXCEPT !.blocked = TRUE].decision = d
             /\ [Record(d, by) EXCEPT !.blocked = TRUE, !.requires_human_approval = FALSE,
                                      !.approved = FALSE].decision = d
  BY DEF Record
<1>4. ASSUME NEW d \in Decisions,
             \/ SubmitReplay(d)
             \/ \E by \in BOOLEAN : SubmitRefused(d, by)
             \/ SubmitAwaitingApproval(d)
             \/ \E by, live \in BOOLEAN : SubmitPermitted(d, by, live)
      PROVE  CacheInv'
  <2>1. ASSUME SubmitReplay(d) PROVE CacheInv'
    BY <1>1, <2>1 DEF SubmitReplay, memory
  <2>2. ASSUME NEW by \in BOOLEAN, SubmitRefused(d, by) PROVE CacheInv'
    BY <1>2, <1>3, <2>2 DEF SubmitRefused
  <2>3. ASSUME SubmitAwaitingApproval(d) PROVE CacheInv'
    BY <1>2, <1>3, <2>3 DEF SubmitAwaitingApproval
  <2>4. ASSUME NEW by \in BOOLEAN, NEW live \in BOOLEAN, SubmitPermitted(d, by, live)
        PROVE  CacheInv'
    BY <1>2, <1>3, <2>4 DEF SubmitPermitted
  <2>. QED  BY <1>4, <2>1, <2>2, <2>3, <2>4
<1>5. CASE ExecutorReturns
  <2>1. action'.decision = action.decision /\ stage # "idle"
    BY <1>5 DEF ExecutorReturns, RequiresGate, TypeOK, ActionRecord
  <2>. QED  BY <1>1, <1>5, <2>1 DEF ExecutorReturns, memory, CacheInv
<1>6. CASE ExecutorRaises
  BY <1>1, <1>6 DEF ExecutorRaises, memory
<1>7. CASE Remember
  <2>1. action.key = KeyOf(action.decision) /\ cache' = cache \cup {action}
        /\ stage' = "idle"
    BY <1>7 DEF Remember, GateInv, ActionInv
  <2>. QED  BY <2>1 DEF CacheInv
<1>8. CASE Restart
  BY <1>8 DEF Restart, CacheInv
<1>9. CASE NextDay \/ UNCHANGED vars
  BY <1>1, <1>9 DEF NextDay, vars, memory, CacheInv
<1>. QED
  BY <1>4, <1>5, <1>6, <1>7, <1>8, <1>9 DEF Next, Commit, LedgerFails

\* Every step preserves what the ledger may claim.
LEMMA NextLedgerInv == TypeOK /\ GateInv /\ LedgerInv /\ [Next]_vars => LedgerInv'
<1> SUFFICES ASSUME TypeOK, TypeOK', GateInv, LedgerInv, CacheInv', [Next]_vars,
                    NEW d \in Decisions
             PROVE  /\ Claimed(d)' => acts'[d] > 0
                    /\ Cardinality(ExecutedEntries(d))' <= Entitled(d)'
  BY NextType, NextCacheInv DEF LedgerInv
<1>0. /\ Cardinality(ExecutedEntries(d)) \in Nat /\ restarts \in Nat /\ acts[d] \in Nat
      /\ Claimed(d) => acts[d] > 0
      /\ Cardinality(ExecutedEntries(d)) <= Entitled(d)
  <2>1. restarts \in Nat /\ acts[d] \in Nat
    BY GateConstants DEF TypeOK
  <2>. QED  BY <2>1, ExecutedEntriesCount DEF LedgerInv
<1>1. ASSUME UNCHANGED <<ledger, cache, restarts>>, acts'[d] >= acts[d], acts'[d] \in Nat,
             stage' = "commit" /\ action'.executed /\ action'.decision = d => acts'[d] > 0
      PROVE  /\ Claimed(d)' => acts'[d] > 0
             /\ Cardinality(ExecutedEntries(d))' <= Entitled(d)'
  <2>1. ExecutedEntries(d)' = ExecutedEntries(d) /\ Entitled(d)' = Entitled(d)
    BY <1>1 DEF ExecutedEntries, Entitled
  <2>2. Claimed(d)' => acts'[d] > 0
    BY <1>0, <1>1, <2>1 DEF Claimed
  <2>. QED  BY <1>0, <2>1, <2>2
<1>2. ASSUME NEW c \in Decisions, NEW by, NEW r, NEW s, Submit(c, by, r, s),
             r.executed = FALSE
      PROVE  /\ Claimed(d)' => acts'[d] > 0
             /\ Cardinality(ExecutedEntries(d))' <= Entitled(d)'
  BY <1>0, <1>1, <1>2 DEF Submit, memory, world
<1>4. ASSUME NEW c \in Decisions,
             \/ SubmitReplay(c)
             \/ \E by \in BOOLEAN : SubmitRefused(c, by)
             \/ SubmitAwaitingApproval(c)
             \/ \E by, live \in BOOLEAN : SubmitPermitted(c, by, live)
      PROVE  /\ Claimed(d)' => acts'[d] > 0
             /\ Cardinality(ExecutedEntries(d))' <= Entitled(d)'
  <2> DEFINE Goal == /\ Claimed(d)' => acts'[d] > 0
                     /\ Cardinality(ExecutedEntries(d))' <= Entitled(d)'
  <2>1. ASSUME SubmitReplay(c) PROVE Goal
    BY <1>0, <1>1, <2>1 DEF SubmitReplay, memory, world
  <2>2. ASSUME NEW by \in BOOLEAN, SubmitRefused(c, by) PROVE Goal
    BY <1>2, RecordUnexecuted, <2>2 DEF SubmitRefused
  <2>3. ASSUME SubmitAwaitingApproval(c) PROVE Goal
    BY <1>2, RecordUnexecuted, <2>3 DEF SubmitAwaitingApproval
  <2>4. ASSUME NEW by \in BOOLEAN, NEW live \in BOOLEAN, SubmitPermitted(c, by, live)
        PROVE  Goal
    BY <1>2, RecordUnexecuted, <2>4 DEF SubmitPermitted
  <2>. QED  BY <1>4, <2>1, <2>2, <2>3, <2>4
<1>5. ASSUME RequiresGate, TakeEffect
      PROVE  acts'[d] \in Nat /\ acts'[d] >= acts[d]
             /\ (d = action.decision => acts'[d] > 0)
  <2>1. action.decision \in Decisions
    BY <1>5 DEF RequiresGate, TypeOK, ActionRecord
  <2>2. acts \in [Decisions -> Nat] /\ acts' = [acts EXCEPT ![action.decision] = @ + 1]
    BY <1>5 DEF TakeEffect, TypeOK
  <2>. QED  BY <2>1, <2>2
<1>6. CASE ExecutorReturns
  <2>1. action'.decision = action.decision /\ action.decision \in Decisions
    BY <1>6 DEF ExecutorReturns, RequiresGate, TypeOK, ActionRecord
  <2>2. CASE TakeEffect
    BY <1>1, <1>5, <1>6, <2>1, <2>2 DEF ExecutorReturns, memory
  <2>3. CASE Replayed
    <3>1. d = action.decision => d \in Keyed /\ KeyOf(d) \in taken
      BY <1>6, <2>3 DEF Replayed, Effective, ExecutorReturns, RequiresGate, GateInv,
                        ActionInv
    <3>2. d = action.decision => acts[d] = 1
      BY <3>1 DEF GateInv, DebitInv
    <3>. QED  BY <1>0, <1>1, <1>6, <2>1, <2>3, <3>2
              DEF ExecutorReturns, Replayed, memory, world
  <2>. QED  BY <1>6, <2>2, <2>3 DEF ExecutorReturns
<1>7. CASE ExecutorRaises
  <2>1. CASE TakeEffect
    BY <1>1, <1>5, <1>7, <2>1 DEF ExecutorRaises, memory
  <2>2. CASE UNCHANGED <<world, unheard>>
    BY <1>0, <1>1, <1>7, <2>2 DEF ExecutorRaises, memory, world
  <2>. QED  BY <1>7, <2>1, <2>2 DEF ExecutorRaises
<1>8. ASSUME Remember
      PROVE  /\ /\ \E r \in cache' : r.decision = d /\ r.executed
                /\ ~(action.executed /\ action.decision = d)
                => \E r \in cache : r.decision = d /\ r.executed
             /\ action.executed /\ action.decision = d =>
                  /\ Entitled(d)' = Entitled(d) + 1 /\ Entitled(d) = restarts
                  /\ acts'[d] > 0
             /\ Entitled(d)' >= Entitled(d) /\ restarts' = restarts
             /\ acts' = acts /\ stage' = "idle"
  <2>1. /\ cache' = cache \cup {action} /\ UNCHANGED <<restarts, acts>>
        /\ stage = "commit" /\ stage' = "idle"
    BY <1>8 DEF Remember, world
  <2>2. action.executed /\ action.decision = d =>
          ~ \E r \in cache : r.decision = d /\ r.executed
    BY <2>1, NotCached DEF LedgerInv, CacheInv
  <2>3. action.executed /\ action.decision = d =>
          Entitled(d)' = restarts + 1 /\ Entitled(d) = restarts
    BY <1>0, <2>1, <2>2 DEF Entitled
  <2>4. Entitled(d)' >= Entitled(d)
    BY <1>0, <2>1 DEF Entitled
  <2>5. action.executed /\ action.decision = d => acts[d] > 0
    BY <1>0, <2>1 DEF Claimed
  <2>. QED  BY <2>1, <2>3, <2>4, <2>5
<1>9. CASE Commit
  <2>1. action \in ActionRecord /\ ledger \in Seq(ActionRecord) /\ Remember
        /\ ledger' = Append(ledger, action)
    BY <1>9 DEF Commit, Remember, TypeOK
  <2>2. /\ ExecutedEntries(d) = ExecutedIn(ledger, d)
        /\ ExecutedEntries(d)' = ExecutedIn(Append(ledger, action), d)
    BY <2>1 DEF ExecutedEntries, ExecutedIn
  <2>3. Entitled(d) \in Nat /\ Entitled(d)' \in Nat
    BY <1>0, <1>8, <2>1 DEF Entitled
  <2>4. CASE action.decision = d /\ action.executed
    BY <1>0, <1>8, <2>1, <2>2, <2>3, <2>4, ExecutedEntriesOfAppend
  <2>5. CASE ~(action.decision = d /\ action.executed)
    <3>1. Cardinality(ExecutedEntries(d))' = Cardinality(ExecutedEntries(d))
      BY <2>1, <2>2, <2>5, ExecutedEntriesOfAppend
    <3>2. ExecutedEntries(d)' # {} => ExecutedEntries(d) # {}
      BY <2>1, <2>5 DEF ExecutedEntries
    <3>3. Claimed(d)' => acts'[d] > 0
      BY <1>0, <1>8, <2>1, <2>5, <3>2 DEF Claimed
    <3>. QED  BY <1>0, <1>8, <2>1, <2>3, <3>1, <3>3
  <2>. QED  BY <2>4, <2>5
<1>10. CASE LedgerFails
  <2>1. Remember /\ ledger' = ledger
    BY <1>10 DEF LedgerFails
  <2>2. ExecutedEntries(d)' = ExecutedEntries(d)
    BY <2>1 DEF ExecutedEntries
  <2>3. Entitled(d) \in Nat /\ Entitled(d)' \in Nat
    BY <1>0, <1>8, <2>1 DEF Entitled
  <2>4. Claimed(d)' => acts'[d] > 0
    BY <1>0, <1>8, <2>1, <2>2 DEF Claimed
  <2>. QED  BY <1>0, <1>8, <2>1, <2>2, <2>3, <2>4
<1>11. CASE Restart
  <2>1. ExecutedEntries(d)' = ExecutedEntries(d)
    BY <1>11 DEF Restart, ExecutedEntries
  <2>2. Entitled(d)' = restarts + 1 /\ Entitled(d) <= restarts + 1
    BY <1>0, <1>11 DEF Restart, Entitled
  <2>3. Claimed(d)' => acts'[d] > 0
    BY <1>0, <1>11, <2>1 DEF Restart, Claimed, world
  <2>4. Entitled(d) \in Nat
    BY <1>0 DEF Entitled
  <2>. QED  BY <1>0, <2>1, <2>2, <2>3, <2>4
<1>12. CASE NextDay \/ UNCHANGED vars
  BY <1>0, <1>1, <1>12 DEF NextDay, vars, memory, world, Claimed
<1>. QED
  BY <1>4, <1>6, <1>7, <1>9, <1>10, <1>11, <1>12 DEF Next

\* The audit trail claims no action that did not happen, and none twice in one
\* life of the process.
THEOREM LedgerIsHonest == Spec => []LedgerNeverOverstates
<1>1. Init => LedgerInv
  <2> SUFFICES ASSUME Init PROVE LedgerInv
    OBVIOUS
  <2>1. CacheInv
    BY DEF Init, CacheInv
  <2>2. ASSUME NEW d \in Decisions
        PROVE  ~Claimed(d) /\ Cardinality(ExecutedEntries(d)) <= Entitled(d)
    <3>1. ExecutedEntries(d) = {}
      BY DEF Init, ExecutedEntries
    <3>2. ~Claimed(d) /\ Entitled(d) = 0
      BY <3>1 DEF Init, Claimed, Entitled
    <3>. QED  BY <3>1, <3>2, FS_EmptySet
  <2>. QED  BY <2>1, <2>2 DEF LedgerInv
<1>2. TypeOK /\ LedgerInv => LedgerNeverOverstates
  <2> SUFFICES ASSUME TypeOK, LedgerInv, NEW d \in Decisions
               PROVE  /\ ExecutedEntries(d) # {} => acts[d] > 0
                      /\ Cardinality(ExecutedEntries(d)) <= restarts + 1
    BY DEF LedgerNeverOverstates
  <2>1. Cardinality(ExecutedEntries(d)) \in Nat /\ restarts \in Nat
    BY ExecutedEntriesCount, GateConstants DEF TypeOK
  <2>2. Entitled(d) <= restarts + 1 /\ Entitled(d) \in Nat
    BY <2>1 DEF Entitled
  <2>. QED  BY <2>1, <2>2 DEF LedgerInv, Claimed
<1>. QED
  BY <1>1, <1>2, NextLedgerInv, TypeCorrect, GateInvariant, PTL DEF Spec

-----------------------------------------------------------------------------
(* Refinement.                                                              *)

\* Steps that leave what MoneyOnce sees as it is, or only name approvers.
LEMMA ApprovalStep ==
  ASSUME UNCHANGED acts, NEW d \in Decisions,
         approvals' = approvals \/ approvals' = approvals \cup {d}
  PROVE  [Money!Next]_(Money!absVars)
<1>1. [c \in Keyed |-> acts'[c]] = [c \in Keyed |-> acts[c]]
  OBVIOUS
<1>2. CASE d \in Keyed /\ approvals' = approvals \cup {d}
  <2>1. Money!Approve(d)
    BY <1>1, <1>2 DEF Money!Approve
  <2>. QED  BY <1>2, <2>1 DEF Money!Next
<1>3. CASE ~(d \in Keyed /\ approvals' = approvals \cup {d})
  BY <1>1, <1>3 DEF Money!absVars
<1>. QED  BY <1>2, <1>3

\* An effect is a first debit of an eligible decision, or invisible to MoneyOnce.
LEMMA EffectStep ==
  ASSUME TypeOK, GateInv, RequiresGate, TakeEffect, UNCHANGED approvals
  PROVE  [Money!Next]_(Money!absVars)
<1>1. PICK e \in Decisions :
        e = action.decision /\ action.key = KeyOf(e) /\ Eligible(e)
  BY DEF RequiresGate, TypeOK, ActionRecord, GateInv, ActionInv
<1>2. \A c \in Decisions : acts'[c] = IF c = e THEN acts[c] + 1 ELSE acts[c]
  BY <1>1 DEF TakeEffect, TypeOK
<1>3. acts[e] \in Nat /\ Keyed \subseteq Decisions
  BY <1>1, GateConstants DEF TypeOK
<1>4. CASE e \in Keyed
  <2>1. acts[e] = 0
    BY <1>1, <1>4 DEF TakeEffect, Effective, GateInv, DebitInv
  <2>2. /\ [c \in Keyed |-> acts[c]][e] = 0
        /\ [c \in Keyed |-> acts'[c]] = [[c \in Keyed |-> acts[c]] EXCEPT ![e] = 1]
    <3>1. \A c \in Keyed : acts'[c] = IF c = e THEN 1 ELSE acts[c]
      BY <1>2, <1>3, <1>4, <2>1
    <3>. QED  BY <1>4, <2>1, <3>1
  <2>3. Money!Debit(e)
    BY <1>1, <1>3, <1>4, <2>1, <2>2 DEF Money!Debit, Eligible
  <2>. QED  BY <1>4, <2>3 DEF Money!Next
<1>5. CASE e \notin Keyed
  <2>1. [c \in Keyed |-> acts'[c]] = [c \in Keyed |-> acts[c]]
    BY <1>2, <1>3, <1>5
  <2>. QED  BY <2>1 DEF Money!absVars
<1>. QED  BY <1>4, <1>5

\* The gate implements MoneyOnce: every step is an approval, the one debit of an
\* eligible decision, or leaves approvals and debits as they are.
THEOREM GateImplementsMoneyOnce == Spec => ImplementsMoneyOnce
<1>1. Init => Money!Init
  BY GateConstants DEF Init, Money!Init
<1>2. TypeOK /\ GateInv /\ [Next]_vars => [Money!Next]_(Money!absVars)
  <2> SUFFICES ASSUME TypeOK, GateInv, [Next]_vars
               PROVE  [Money!Next]_(Money!absVars)
    OBVIOUS
  <2>1. CASE ExecutorReturns /\ TakeEffect
    BY <2>1, EffectStep DEF ExecutorReturns
  <2>2. CASE ExecutorRaises /\ TakeEffect
    BY <2>2, EffectStep DEF ExecutorRaises
  <2>3. ASSUME NEW d \in Decisions,
               \/ SubmitReplay(d)
               \/ \E by \in BOOLEAN : SubmitRefused(d, by)
               \/ SubmitAwaitingApproval(d)
               \/ \E by, live \in BOOLEAN : SubmitPermitted(d, by, live)
        PROVE  [Money!Next]_(Money!absVars)
    BY <2>3, ApprovalStep DEF SubmitReplay, SubmitRefused, SubmitAwaitingApproval,
                              SubmitPermitted, Submit, world
  <2>4. ASSUME UNCHANGED <<acts, approvals>> PROVE [Money!Next]_(Money!absVars)
    <3>1. [c \in Keyed |-> acts'[c]] = [c \in Keyed |-> acts[c]]
      BY <2>4
    <3>. QED  BY <2>4, <3>1 DEF Money!absVars
  <2>. QED
    BY <2>1, <2>2, <2>3, <2>4
       DEF Next, ExecutorReturns, Replayed, ExecutorRaises, Commit, LedgerFails, Remember, Restart, NextDay,
           vars, world
<1>. QED
  BY <1>1, <1>2, TypeCorrect, GateInvariant, PTL
     DEF Spec, ImplementsMoneyOnce, Money!Spec
=============================================================================
