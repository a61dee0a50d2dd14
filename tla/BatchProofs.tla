------------------------------ MODULE BatchProofs ------------------------------
(***************************************************************************)
(* Machine-checked facts about Batch, for any batch, holdout, diagnosis,   *)
(* values and capacity, and with runs that are killed and started again    *)
(* anywhere.  Numbers give the batch an order, so that there is a current  *)
(* event; the diagnosis and the arms stand as long as there is an entry    *)
(* that was written by them; and the entries of an event are those that    *)
(* its turn has written so far, of different kinds, in the order of a      *)
(* turn.  What the program selects is full: no candidate outside it is     *)
(* worth more than one inside, or than nothing while there is room; the    *)
(* reasons on record and the comparison of the policies come down to that. *)
(***************************************************************************)
EXTENDS Batch, FiniteSetTheorems, WellFoundedInduction, SequenceTheorems, TLAPS

\* A promise that goes with what is recommended for the class.
Promised(promise, class) ==
  /\ promise = "RETRY" => RECOMMENDATION[class] = "RESCHEDULE"
  /\ promise \in {"UPDATE_INSTRUMENT", "AUTHENTICATE"} => RECOMMENDATION[class] = "CONTACT"

\* What an entry about this event may say.
Truthful(x, e) ==
  /\ x.event = e.n
  /\ x.kind = "DECISION" => x.control = IsControl(e)
  /\ x.kind = "ACTION" =>
       /\ ~IsControl(e)
       /\ Promised(x.promise, diagnosis[e])

InputsInv == batch \subseteq Slots /\ holdout \in [Customers -> BOOLEAN]

PlanInv ==
  pc \notin {"detect", "no_model"} =>
    /\ diagnosis \in [batch -> Diagnosable] /\ Problem \subseteq batch
    /\ \A e \in Problem : ~Vetoed(diagnosis[e])

LedgerInv ==
  /\ \E S : ledger \in Seq(S)
  /\ pc \in {"detect", "no_model", "allocate"} => ledger = <<>>
  /\ \A i \in DOMAIN ledger : \E e \in batch : Truthful(ledger[i], e)

TurnInv ==
  /\ pc \in {"DIAGNOSIS", "DECISION", "ACTION", "OUTCOME"} => Waiting # {}
  /\ pc = "ACTION" => Chosen(Current)
  /\ pc # "aborted"

IInv == InputsInv /\ PlanInv /\ LedgerInv /\ TurnInv

-----------------------------------------------------------------------------
(* The current event.                                                       *)

LessThan == {p \in Nat \X Nat : p[1] < p[2]}

\* Among numbers there is a least one.
LEMMA LeastNumber ==
  ASSUME NEW S \in SUBSET Nat, S # {}
  PROVE  \E m \in S : \A n \in S : m <= n
<1>1. IsWellFoundedOn(LessThan, Nat)
  <2>1. OpToRel(<, Nat) = LessThan
    BY DEF OpToRel, LessThan
  <2>. QED  BY <2>1, NatLessThanWellFounded
<1>2. PICK m \in S : \A n \in S : ~(<<n, m>> \in LessThan)
  BY <1>1, WFMin
<1>3. ASSUME NEW n \in S PROVE m <= n
  <2>1. ~(<<n, m>> \in LessThan) /\ n \in Nat /\ m \in Nat
    BY <1>2
  <2>2. n < m => <<n, m>> \in LessThan
    BY <2>1 DEF LessThan
  <2>. QED  BY <2>1, <2>2
<1>. QED  BY <1>3

\* As long as an event waits there is a current one.
LEMMA CurrentWaits ==
  ASSUME InputsInv, Waiting # {}
  PROVE  Current \in Waiting /\ Current \in batch /\ Current.n \in Int
         /\ Current.customer \in Customers
<1>1. Waiting \subseteq batch /\ \A e \in batch : e.n \in Nat /\ e.customer \in Customers
  BY SlotsAssumption DEF InputsInv, Waiting
<1>2. \E m \in {e.n : e \in Waiting} : \A n \in {e.n : e \in Waiting} : m <= n
  BY <1>1, LeastNumber
<1>3. \E e \in Waiting : \A f \in Waiting : e.n <= f.n
  BY <1>2
<1>4. Current \in Waiting
  BY <1>3 DEF Current
<1>. QED  BY <1>1, <1>4

\* The number of an event names it.
LEMMA EventOfIsIt ==
  ASSUME InputsInv, NEW i \in DOMAIN ledger, NEW e \in batch, ledger[i].event = e.n
  PROVE  EventOf(i) = e
BY SlotsAssumption DEF InputsInv, EventOf

-----------------------------------------------------------------------------
(* Entries.                                                                 *)

\* What a ledger is after an entry has been appended to it.
LEMMA WrittenLast ==
  ASSUME LedgerInv, NEW x, ledger' = Append(ledger, x)
  PROVE  /\ Len(ledger) \in Nat /\ \E S : ledger' \in Seq(S)
         /\ DOMAIN ledger = 1 .. Len(ledger) /\ DOMAIN ledger' = 1 .. Len(ledger) + 1
         /\ \A i \in 1 .. Len(ledger) : ledger'[i] = ledger[i]
         /\ ledger'[Len(ledger) + 1] = x
<1>1. PICK S : ledger \in Seq(S)
  BY DEF LedgerInv
<1>2. ledger \in Seq(S \cup {x})
  BY <1>1
<1>. QED  BY <1>2, AppendProperties

\* Until its outcome is written the turn of an event goes on.
LEMMA TurnGoesOn ==
  ASSUME LedgerInv, NEW x, x.kind # "OUTCOME", ledger' = Append(ledger, x),
         batch' = batch
  PROVE  Waiting' = Waiting /\ Current' = Current
<1>1. Finished' = Finished
  <2>1. \A n : n \in Finished' <=> \E i \in DOMAIN ledger' : ledger'[i].kind = "OUTCOME" /\ n = ledger'[i].event
    BY DEF Finished
  <2>2. \A n : n \in Finished <=> \E i \in DOMAIN ledger : ledger[i].kind = "OUTCOME" /\ n = ledger[i].event
    BY DEF Finished
  <2>3. ASSUME NEW i \in DOMAIN ledger', ledger'[i].kind = "OUTCOME"
        PROVE  i \in DOMAIN ledger /\ ledger'[i] = ledger[i]
    BY <2>3, WrittenLast
  <2>4. ASSUME NEW i \in DOMAIN ledger
        PROVE  i \in DOMAIN ledger' /\ ledger'[i] = ledger[i]
    BY WrittenLast
  <2>5. \A n : n \in Finished' <=> n \in Finished
    BY <2>1, <2>2, <2>3, <2>4
  <2>. QED  BY <2>5 DEF Finished
<1>2. Waiting' = Waiting
  BY <1>1 DEF Waiting
<1>. QED  BY <1>2 DEF Current

\* A truthful entry leaves the ledger truthful.
LEMMA LedgerGrows ==
  ASSUME LedgerInv, NEW x, NEW e \in batch, Truthful(x, e),
         ledger' = Append(ledger, x), UNCHANGED <<batch, holdout, diagnosis>>,
         pc' \notin {"detect", "no_model", "allocate"}
  PROVE  LedgerInv'
<1>1. \A y, f : Truthful(y, f)' <=> Truthful(y, f)
  BY DEF Truthful, IsControl
<1>2. ASSUME NEW i \in DOMAIN ledger' PROVE (\E f \in batch : Truthful(ledger[i], f))'
  <2>1. CASE i \in DOMAIN ledger
    BY <2>1, <1>1, WrittenLast DEF LedgerInv
  <2>2. CASE i = Len(ledger) + 1
    BY <2>2, <1>1, WrittenLast
  <2>. QED  BY <2>1, <2>2, WrittenLast
<1>. QED  BY <1>2, WrittenLast DEF LedgerInv

-----------------------------------------------------------------------------
(* The steps.                                                               *)

\* The invariant holds before the run.
LEMMA InitIInv == Init => IInv
BY DEF Init, IInv, InputsInv, PlanInv, LedgerInv, TurnInv

\* Events and diagnoses say nothing that could be false.
LEMMA PlainEntry ==
  ASSUME NEW e \in batch, NEW kind \in {"EVENT", "DIAGNOSIS", "OUTCOME"}
  PROVE  LET x == Entry(kind, e) IN x.kind = kind /\ Truthful(x, e)
<1>1. Entry(kind, e).kind = kind /\ Entry(kind, e).event = e.n
  BY DEF Entry
<1>. QED  BY <1>1 DEF Truthful

\* The entry of a decision says the arm that the customer is in.
LEMMA DecisionTruthful ==
  ASSUME NEW e \in batch
  PROVE  LET x == DecisionEntry(e) IN x.kind = "DECISION" /\ Truthful(x, e)
<1>1. DecisionEntry(e).kind = "DECISION" /\ DecisionEntry(e).event = e.n
  BY DEF DecisionEntry, Entry
<1>2. DecisionEntry(e).control = IsControl(e)
  BY DEF DecisionEntry, Entry
<1>. QED  BY <1>1, <1>2 DEF Truthful

\* A draft keeps its template, whatever a model has answered.
LEMMA DraftKeepsTemplate ==
  ASSUME NEW t, NEW d \in Drafts(t, Client)
  PROVE  d.template = t
<1>1. \A answers : DraftWithModel(t, answers).template = t
  BY DEF DraftWithModel, Deterministic, Draft
<1>2. CASE d \in {DraftWithModel(t, answers) : answers \in [0 .. RepairAttempts -> Answer]}
  BY <1>1, <1>2
<1>3. CASE d = Deterministic(t, 0, FALSE)
  BY <1>3 DEF Deterministic, Draft
<1>. QED  BY <1>2, <1>3 DEF Drafts

\* What the veto leaves is rescheduled, for want of money, or is for the customer to mend;
\* and only the former has no template of its own.
LEMMA KeptPromise ==
  ASSUME NEW channel, NEW class \in FailureClass, ~Vetoed(class)
  PROVE  Promised(Template(channel, class).promise, class)
<1>1. class \in {"INSUFFICIENT_FUNDS", "TECHNICAL_DECLINE", "AFA_REQUIRED"}
  BY DEF Vetoed, RECOMMENDATION, FailureClass, Causes
<1>2. CASE class = "INSUFFICIENT_FUNDS"
  BY <1>2 DEF Promised, Template, RECOMMENDATION
<1>3. CASE class \in {"TECHNICAL_DECLINE", "AFA_REQUIRED"}
  <2>1. Template(channel, class).promise # "RETRY" /\ RECOMMENDATION[class] = "CONTACT"
    BY <1>3 DEF Template, RECOMMENDATION
  <2>. QED  BY <2>1 DEF Promised
<1>. QED  BY <1>1, <1>2, <1>3

\* The entry of an action is one of a chosen event, and its draft promises what is possible.
LEMMA ActionTruthful ==
  ASSUME NEW e \in batch, Chosen(e), NEW channel,
         diagnosis[e] \in FailureClass, ~Vetoed(diagnosis[e]), NEW d \in Drafts(Template(channel, diagnosis[e]), Client)
  PROVE  LET x == ActionEntry(e, d) IN x.kind = "ACTION" /\ Truthful(x, e)
<1> DEFINE t == Template(channel, diagnosis[e])
           x == ActionEntry(e, d)
<1>1. d.template = t
  BY DraftKeepsTemplate
<1>2. Promised(t.promise, diagnosis[e])
  BY KeptPromise
<1>3. x.kind = "ACTION" /\ x.event = e.n /\ x.promise = d.template.promise
  BY DEF ActionEntry, Entry
<1> HIDE DEF t, x
<1>. QED  BY <1>1, <1>2, <1>3 DEF Truthful, Chosen, x

-----------------------------------------------------------------------------
\* The veto takes the events of a mandate that has ended.
LEMMA RevokedIsVetoed == Vetoed("MANDATE_REVOKED")
BY DEF Vetoed, RECOMMENDATION

\* Each step keeps the invariant.
LEMMA NextIInv == IInv /\ [Next]_vars => IInv'
<1> SUFFICES ASSUME IInv, [Next]_vars PROVE IInv'
  OBVIOUS
<1>. USE DEF IInv
<1>1. InputsInv'
  BY DEF InputsInv, vars, inputs, Next, NoModel, Detect, Allocate, RecordEvent, RecordDiagnosis,
         RecordDecision, Act, RecordOutcome, Finish, Rerun
<1>2. CASE NoModel
  BY <1>1, <1>2 DEF NoModel, PlanInv, LedgerInv, TurnInv
<1>3. CASE Detect
  <2>1. PlanInv'
    BY <1>3 DEF Detect, PlanInv, Problem, Vetoed, inputs
  <2>. QED  BY <1>1, <1>3, <2>1 DEF Detect, LedgerInv, TurnInv
<1>4. CASE Allocate
  <2>1. PlanInv'
    BY <1>4 DEF Allocate, PlanInv, Problem, inputs
  <2>. QED  BY <1>1, <1>4, <2>1 DEF Allocate, LedgerInv, TurnInv
<1>5. CASE RecordEvent
  <2> DEFINE x == Entry("EVENT", Current)
  <2>1. Current \in batch
    BY <1>5, CurrentWaits DEF RecordEvent
  <2>2. x.kind = "EVENT" /\ Truthful(x, Current)
    BY <2>1, PlainEntry
  <2>3. ledger' = Append(ledger, x) /\ UNCHANGED <<batch, holdout, diagnosis, candidates>> /\ pc' = "DIAGNOSIS"
    BY <1>5 DEF RecordEvent, Write, inputs, plan
  <2> HIDE DEF x
  <2>4. LedgerInv'
    BY <2>1, <2>2, <2>3, LedgerGrows
  <2>5. PlanInv'
    BY <1>5, <2>3 DEF RecordEvent, PlanInv, Problem
  <2>6. Waiting' # {}
    BY <1>5, <2>2, <2>3, TurnGoesOn DEF RecordEvent
  <2>. QED  BY <1>1, <2>3, <2>4, <2>5, <2>6 DEF TurnInv
<1>6. CASE RecordDiagnosis
  <2> DEFINE x == Entry("DIAGNOSIS", Current)
  <2>1. Waiting # {} /\ Current \in batch
    BY <1>6, CurrentWaits DEF RecordDiagnosis, TurnInv
  <2>2. x.kind = "DIAGNOSIS" /\ Truthful(x, Current)
    BY <2>1, PlainEntry
  <2>3. ledger' = Append(ledger, x) /\ UNCHANGED <<batch, holdout, diagnosis, candidates>> /\ pc' = "DECISION"
    BY <1>6 DEF RecordDiagnosis, Write, inputs, plan
  <2> HIDE DEF x
  <2>4. LedgerInv'
    BY <2>1, <2>2, <2>3, LedgerGrows
  <2>5. PlanInv'
    BY <1>6, <2>3 DEF RecordDiagnosis, PlanInv, Problem
  <2>6. Waiting' # {}
    BY <2>1, <2>2, <2>3, TurnGoesOn
  <2>. QED  BY <1>1, <2>3, <2>4, <2>5, <2>6 DEF TurnInv
<1>7. CASE RecordDecision
  <2> DEFINE x == DecisionEntry(Current)
  <2>1. Waiting # {} /\ Current \in batch
    BY <1>7, CurrentWaits DEF RecordDecision, TurnInv
  <2>2. x.kind = "DECISION" /\ Truthful(x, Current)
    BY <2>1, DecisionTruthful
  <2>3. ledger' = Append(ledger, x) /\ UNCHANGED <<batch, holdout, diagnosis, candidates, allocation>>
        /\ pc' = IF Chosen(Current) THEN "ACTION" ELSE "OUTCOME"
    BY <1>7 DEF RecordDecision, Write, inputs, plan
  <2> HIDE DEF x
  <2>4. LedgerInv'
    BY <2>1, <2>2, <2>3, LedgerGrows
  <2>5. PlanInv'
    BY <1>7, <2>3 DEF RecordDecision, PlanInv, Problem
  <2>6. Waiting' # {} /\ Current' = Current
    BY <2>1, <2>2, <2>3, TurnGoesOn
  <2>7. Chosen(Current)' <=> Chosen(Current)
    BY <2>3, <2>6 DEF Chosen, Problem, IsControl
  <2>. QED  BY <1>1, <2>3, <2>4, <2>5, <2>6, <2>7 DEF TurnInv
<1>8. CASE Act
  <2>1. Waiting # {} /\ Current \in batch /\ Chosen(Current)
    BY <1>8, CurrentWaits DEF Act, TurnInv
  <2>2. diagnosis[Current] \in FailureClass /\ ~Vetoed(diagnosis[Current])
    BY <1>8, <2>1, BatchAssumption DEF Act, PlanInv, Chosen
  <2>3. HasTemplate(candidates[Current], diagnosis[Current])
    BY <2>2, RevokedIsVetoed DEF HasTemplate
  <2>4. PICK d \in Drafts(Template(candidates[Current], diagnosis[Current]), Client) :
          ledger' = Append(ledger, ActionEntry(Current, d))
    BY <1>8, <2>3 DEF Act, Write
  <2> DEFINE x == ActionEntry(Current, d)
  <2>5. x.kind = "ACTION" /\ Truthful(x, Current)
    BY <2>1, <2>2, ActionTruthful
  <2>6. ledger' = Append(ledger, x) /\ UNCHANGED <<batch, holdout, diagnosis, candidates>> /\ pc' = "OUTCOME"
    BY <1>8, <2>3, <2>4 DEF Act, inputs, plan
  <2> HIDE DEF x
  <2>7. LedgerInv'
    BY <2>1, <2>5, <2>6, LedgerGrows
  <2>8. PlanInv'
    BY <1>8, <2>6 DEF Act, PlanInv, Problem
  <2>9. Waiting' # {}
    BY <2>1, <2>5, <2>6, TurnGoesOn
  <2>. QED  BY <1>1, <2>6, <2>7, <2>8, <2>9 DEF TurnInv
<1>9. CASE RecordOutcome
  <2> DEFINE x == Entry("OUTCOME", Current)
  <2>1. Waiting # {} /\ Current \in batch
    BY <1>9, CurrentWaits DEF RecordOutcome, TurnInv
  <2>2. Truthful(x, Current)
    BY <2>1, PlainEntry
  <2>3. ledger' = Append(ledger, x) /\ UNCHANGED <<batch, holdout, diagnosis, candidates>> /\ pc' = "EVENT"
    BY <1>9 DEF RecordOutcome, Write, inputs, plan
  <2> HIDE DEF x
  <2>4. LedgerInv'
    BY <2>1, <2>2, <2>3, LedgerGrows
  <2>5. PlanInv'
    BY <1>9, <2>3 DEF RecordOutcome, PlanInv, Problem
  <2>. QED  BY <1>1, <2>3, <2>4, <2>5 DEF TurnInv
<1>10. CASE Finish
  <2>1. UNCHANGED <<batch, holdout, diagnosis, candidates, ledger>> /\ pc = "EVENT" /\ pc' \in {"done", "failed"}
    BY <1>10 DEF Finish, inputs, plan
  <2>2. PlanInv'
    BY <2>1 DEF PlanInv, Problem
  <2>3. LedgerInv'
    BY <2>1 DEF LedgerInv, Truthful, IsControl
  <2>. QED  BY <1>1, <2>1, <2>2, <2>3 DEF TurnInv
<1>11. CASE Rerun
  BY <1>1, <1>11 DEF Rerun, PlanInv, LedgerInv, TurnInv
<1>12. CASE UNCHANGED vars
  <2>1. UNCHANGED <<batch, holdout, diagnosis, candidates, allocation, ledger, pc>>
    BY <1>12 DEF vars, inputs, plan
  <2>2. PlanInv'
    BY <2>1 DEF PlanInv, Problem
  <2>3. LedgerInv'
    BY <2>1 DEF LedgerInv, Truthful, IsControl
  <2>4. TurnInv'
    BY <2>1 DEF TurnInv, Waiting, Finished, Chosen, Current, Problem, IsControl
  <2>. QED  BY <1>1, <2>2, <2>3, <2>4
<1>. QED  BY <1>2, <1>3, <1>4, <1>5, <1>6, <1>7, <1>8, <1>9, <1>10, <1>11, <1>12 DEF Next

\* Whoever is in the holdout is the object of no action, whatever the allocator chose:
\* the entries of a run are written by one draw of the arms (pipeline.run_pipeline).
THEOREM HoldoutUntouched == Spec => []HoldoutStaysUntouched
<1>1. IInv => HoldoutStaysUntouched
  <2> SUFFICES ASSUME IInv, NEW i \in OfKind("DECISION"), NEW j \in OfKind("ACTION"),
                      ledger[i].control, EventOf(i).customer = EventOf(j).customer
               PROVE  FALSE
    BY DEF HoldoutStaysUntouched
  <2>1. PICK e \in batch : Truthful(ledger[i], e)
    BY DEF IInv, LedgerInv, OfKind
  <2>2. PICK f \in batch : Truthful(ledger[j], f)
    BY DEF IInv, LedgerInv, OfKind
  <2>3. EventOf(i) = e /\ EventOf(j) = f
    BY <2>1, <2>2, EventOfIsIt DEF IInv, OfKind, Truthful
  <2>. QED  BY <2>1, <2>2, <2>3 DEF OfKind, Truthful, IsControl
<1>. QED  BY <1>1, InitIInv, NextIInv, PTL DEF Spec

\* No run ends for want of a template, a message announces a retry only where the diagnosis
\* recommends to reschedule, and asks the customer to act only where it recommends to
\* contact him (drafter.choose_template, after _build_candidates has listened to the
\* diagnosis).
THEOREM TruthfulMessages == Spec => []MessagesAreTruthful
<1>1. IInv => MessagesAreTruthful
  <2> SUFFICES ASSUME IInv, NEW i \in OfKind("ACTION")
               PROVE  Promised(ledger[i].promise, diagnosis[EventOf(i)])
    BY DEF MessagesAreTruthful, IInv, TurnInv, Promised
  <2>1. PICK e \in batch : Truthful(ledger[i], e)
    BY DEF IInv, LedgerInv, OfKind
  <2>2. EventOf(i) = e
    BY <2>1, EventOfIsIt DEF IInv, OfKind, Truthful
  <2>. QED  BY <2>1, <2>2 DEF OfKind, Truthful
<1>. QED  BY <1>1, InitIInv, NextIInv, PTL DEF Spec

-----------------------------------------------------------------------------
(* The totals.                                                              *)

InControl == {i \in OfKind("DECISION") : ledger[i].control}
Abstained == {i \in OfKind("DECISION") : ~ledger[i].acts}
Refused == {i \in OfKind("ACTION") : ledger[i].blocked}
Contacted == {i \in OfKind("ACTION") : ~ledger[i].blocked}

Tally == [events : Nat, decided : Nat, control : Nat, abstained : Nat, refused : Nat,
          contacted : Nat]

\* A turn that has been counted and whose outcome is still to be written.
Pending == IF pc = "OUTCOME" THEN 1 ELSE 0

\* What is true of the totals also in the middle of a turn: an event whose outcome is
\* still to be written has been counted.
TallyInv ==
  /\ tally \in Tally
  /\ tally.events = Cardinality(OfKind("EVENT"))
  /\ tally.decided = Cardinality(OfKind("DECISION"))
  /\ tally.control = Cardinality(InControl)
  /\ tally.abstained = Cardinality(Abstained)
  /\ tally.refused = Cardinality(Refused)
  /\ tally.contacted = Cardinality(Contacted)
  /\ Cardinality(OfKind("OUTCOME")) \in Nat
  /\ tally.contacted + tally.refused + tally.abstained =
       Cardinality(OfKind("OUTCOME")) + Pending

\* A set of positions, and with the next one.
LEMMA OneMore ==
  ASSUME NEW n \in Nat, NEW S \in SUBSET (1 .. n)
  PROVE  Cardinality(S) \in Nat /\ Cardinality(S \cup {n + 1}) = Cardinality(S) + 1
<1>1. IsFiniteSet(S) /\ Cardinality(S) \in Nat
  <2>1. IsFiniteSet(1 .. n)
    BY FS_Interval
  <2>2. IsFiniteSet(S)
    BY <2>1, FS_Subset
  <2>. QED  BY <2>2, FS_CardinalityType
<1>2. n + 1 \notin S
  OBVIOUS
<1>3. Cardinality(S \cup {n + 1}) = Cardinality(S) + 1
  BY <1>1, <1>2, FS_AddElement
<1>. QED  BY <1>1, <1>3

\* An entry adds to the sets that it belongs to and to no other.
Grown(x) ==
  /\ \A k : Cardinality(OfKind(k)) \in Nat
            /\ Cardinality(OfKind(k))' = Cardinality(OfKind(k)) + (IF x.kind = k THEN 1 ELSE 0)
  /\ Cardinality(InControl)' = Cardinality(InControl)
                                 + (IF x.kind = "DECISION" /\ x.control THEN 1 ELSE 0)
  /\ Cardinality(Abstained)' = Cardinality(Abstained)
                                 + (IF x.kind = "DECISION" /\ ~x.acts THEN 1 ELSE 0)
  /\ Cardinality(Refused)' = Cardinality(Refused)
                               + (IF x.kind = "ACTION" /\ x.blocked THEN 1 ELSE 0)
  /\ Cardinality(Contacted)' = Cardinality(Contacted)
                                 + (IF x.kind = "ACTION" /\ ~x.blocked THEN 1 ELSE 0)
  /\ Cardinality(InControl) \in Nat /\ Cardinality(Abstained) \in Nat
  /\ Cardinality(Refused) \in Nat /\ Cardinality(Contacted) \in Nat

\* What is appended to the ledger is counted once in each set.
LEMMA Counted ==
  ASSUME NEW x, LedgerInv, ledger' = Append(ledger, x)
  PROVE  Grown(x)
<1> DEFINE n == Len(ledger)
<1>1. n \in Nat /\ DOMAIN ledger = 1 .. n /\ DOMAIN ledger' = 1 .. n + 1
      /\ (\A i \in 1 .. n : ledger'[i] = ledger[i]) /\ ledger'[n + 1] = x
  BY WrittenLast
<1> HIDE DEF n
<1>2. (1 .. n + 1) = (1 .. n) \cup {n + 1}
  BY <1>1
<1>3. ASSUME NEW k
      PROVE  /\ OfKind(k) \subseteq 1 .. n
             /\ x.kind = k => OfKind(k)' = OfKind(k) \cup {n + 1}
             /\ x.kind # k => OfKind(k)' = OfKind(k)
  BY <1>1, <1>2 DEF OfKind
<1>4. ASSUME NEW k
      PROVE  /\ Cardinality(OfKind(k)) \in Nat
             /\ Cardinality(OfKind(k))' = Cardinality(OfKind(k)) + (IF x.kind = k THEN 1 ELSE 0)
  <2>1. Cardinality(OfKind(k)) \in Nat
        /\ Cardinality(OfKind(k) \cup {n + 1}) = Cardinality(OfKind(k)) + 1
    BY <1>1, <1>3, OneMore
  <2>2. CASE x.kind = k
    BY <1>3, <2>1, <2>2
  <2>3. CASE x.kind # k
    BY <1>3, <2>1, <2>3
  <2>. QED  BY <2>2, <2>3
<1>5. Cardinality(InControl) \in Nat
      /\ Cardinality(InControl)' = Cardinality(InControl) + (IF x.kind = "DECISION" /\ x.control THEN 1 ELSE 0)
  <2>1. InControl \subseteq 1 .. n
    BY <1>3 DEF InControl
  <2>2. Cardinality(InControl) \in Nat /\ Cardinality(InControl \cup {n + 1}) = Cardinality(InControl) + 1
    BY <1>1, <2>1, OneMore
  <2>3. CASE x.kind = "DECISION" /\ x.control
    <3>1. InControl' = InControl \cup {n + 1}
      BY <1>1, <1>3, <2>3 DEF InControl
    <3>. QED  BY <2>2, <2>3, <3>1
  <2>4. CASE ~(x.kind = "DECISION" /\ x.control)
    <3>1. InControl' = InControl
      BY <1>1, <1>3, <2>4 DEF InControl
    <3>. QED  BY <2>2, <2>4, <3>1
  <2>. QED  BY <2>3, <2>4
<1>6. Cardinality(Abstained) \in Nat
      /\ Cardinality(Abstained)' = Cardinality(Abstained) + (IF x.kind = "DECISION" /\ ~x.acts THEN 1 ELSE 0)
  <2>1. Abstained \subseteq 1 .. n
    BY <1>3 DEF Abstained
  <2>2. Cardinality(Abstained) \in Nat /\ Cardinality(Abstained \cup {n + 1}) = Cardinality(Abstained) + 1
    BY <1>1, <2>1, OneMore
  <2>3. CASE x.kind = "DECISION" /\ ~x.acts
    <3>1. Abstained' = Abstained \cup {n + 1}
      BY <1>1, <1>3, <2>3 DEF Abstained
    <3>. QED  BY <2>2, <2>3, <3>1
  <2>4. CASE ~(x.kind = "DECISION" /\ ~x.acts)
    <3>1. Abstained' = Abstained
      BY <1>1, <1>3, <2>4 DEF Abstained
    <3>. QED  BY <2>2, <2>4, <3>1
  <2>. QED  BY <2>3, <2>4
<1>7. Cardinality(Refused) \in Nat
      /\ Cardinality(Refused)' = Cardinality(Refused) + (IF x.kind = "ACTION" /\ x.blocked THEN 1 ELSE 0)
  <2>1. Refused \subseteq 1 .. n
    BY <1>3 DEF Refused
  <2>2. Cardinality(Refused) \in Nat /\ Cardinality(Refused \cup {n + 1}) = Cardinality(Refused) + 1
    BY <1>1, <2>1, OneMore
  <2>3. CASE x.kind = "ACTION" /\ x.blocked
    <3>1. Refused' = Refused \cup {n + 1}
      BY <1>1, <1>3, <2>3 DEF Refused
    <3>. QED  BY <2>2, <2>3, <3>1
  <2>4. CASE ~(x.kind = "ACTION" /\ x.blocked)
    <3>1. Refused' = Refused
      BY <1>1, <1>3, <2>4 DEF Refused
    <3>. QED  BY <2>2, <2>4, <3>1
  <2>. QED  BY <2>3, <2>4
<1>8. Cardinality(Contacted) \in Nat
      /\ Cardinality(Contacted)' = Cardinality(Contacted) + (IF x.kind = "ACTION" /\ ~x.blocked THEN 1 ELSE 0)
  <2>1. Contacted \subseteq 1 .. n
    BY <1>3 DEF Contacted
  <2>2. Cardinality(Contacted) \in Nat /\ Cardinality(Contacted \cup {n + 1}) = Cardinality(Contacted) + 1
    BY <1>1, <2>1, OneMore
  <2>3. CASE x.kind = "ACTION" /\ ~x.blocked
    <3>1. Contacted' = Contacted \cup {n + 1}
      BY <1>1, <1>3, <2>3 DEF Contacted
    <3>. QED  BY <2>2, <2>3, <3>1
  <2>4. CASE ~(x.kind = "ACTION" /\ ~x.blocked)
    <3>1. Contacted' = Contacted
      BY <1>1, <1>3, <2>4 DEF Contacted
    <3>. QED  BY <2>2, <2>4, <3>1
  <2>. QED  BY <2>3, <2>4
<1>. QED  BY <1>4, <1>5, <1>6, <1>7, <1>8 DEF Grown

\* Nothing is counted in an empty ledger.
LEMMA InitTally == Init => TallyInv
<1> SUFFICES ASSUME Init PROVE TallyInv
  OBVIOUS
<1>1. \A k : OfKind(k) = {}
  BY DEF Init, OfKind
<1>2. InControl = {} /\ Abstained = {} /\ Refused = {} /\ Contacted = {}
  BY <1>1 DEF InControl, Abstained, Refused, Contacted
<1>3. Cardinality({}) = 0
  BY FS_EmptySet
<1>4. tally = NoTally /\ pc = "detect"
  BY DEF Init
<1>5. tally \in Tally /\ tally.events = 0 /\ tally.decided = 0 /\ tally.control = 0
      /\ tally.abstained = 0 /\ tally.refused = 0 /\ tally.contacted = 0
  BY <1>4 DEF NoTally, Tally
<1>6. Cardinality(OfKind("EVENT")) = 0 /\ Cardinality(OfKind("DECISION")) = 0
      /\ Cardinality(OfKind("OUTCOME")) = 0
  BY <1>1, <1>3
<1>. QED  BY <1>2, <1>3, <1>4, <1>5, <1>6 DEF TallyInv, Pending

\* A step that adds the same to a total and to what it counts.
Moved(e, d, c, a, r, t, o) ==
  /\ tally' \in Tally
  /\ tally'.events = tally.events + e /\ tally'.decided = tally.decided + d
  /\ tally'.control = tally.control + c /\ tally'.abstained = tally.abstained + a
  /\ tally'.refused = tally.refused + r /\ tally'.contacted = tally.contacted + t
  /\ Cardinality(OfKind("EVENT"))' = Cardinality(OfKind("EVENT")) + e
  /\ Cardinality(OfKind("DECISION"))' = Cardinality(OfKind("DECISION")) + d
  /\ Cardinality(OfKind("OUTCOME"))' = Cardinality(OfKind("OUTCOME")) + o
  /\ Cardinality(InControl)' = Cardinality(InControl) + c
  /\ Cardinality(Abstained)' = Cardinality(Abstained) + a
  /\ Cardinality(Refused)' = Cardinality(Refused) + r
  /\ Cardinality(Contacted)' = Cardinality(Contacted) + t

\* Such a step keeps the totals right if it counts a turn when that is to be finished.
LEMMA Preserved ==
  ASSUME TallyInv, NEW e \in Nat, NEW d \in Nat, NEW c \in Nat, NEW a \in Nat,
         NEW r \in Nat, NEW t \in Nat, NEW o \in Nat, Moved(e, d, c, a, r, t, o),
         Pending + t + r + a = o + Pending'
  PROVE  TallyInv'
<1>1. tally.events \in Nat /\ tally.decided \in Nat /\ tally.control \in Nat
      /\ tally.abstained \in Nat /\ tally.refused \in Nat /\ tally.contacted \in Nat
  BY DEF TallyInv, Tally
<1>2. tally' \in Tally /\ (tally.events = Cardinality(OfKind("EVENT")))'
      /\ (tally.decided = Cardinality(OfKind("DECISION")))'
  BY DEF TallyInv, Moved
<1>3. (tally.control = Cardinality(InControl))' /\ (tally.abstained = Cardinality(Abstained))'
  BY DEF TallyInv, Moved
<1>4. (tally.refused = Cardinality(Refused))' /\ (tally.contacted = Cardinality(Contacted))'
  BY DEF TallyInv, Moved
<1>5. Cardinality(OfKind("OUTCOME")) \in Nat /\ Pending \in Nat /\ Pending' \in Nat
  BY DEF TallyInv, Pending
<1>6. tally.contacted + tally.refused + tally.abstained = Cardinality(OfKind("OUTCOME")) + Pending
  BY DEF TallyInv
<1>7. Cardinality(OfKind("OUTCOME"))' = Cardinality(OfKind("OUTCOME")) + o
      /\ tally'.abstained = tally.abstained + a
      /\ tally'.refused = tally.refused + r /\ tally'.contacted = tally.contacted + t
  BY DEF Moved
<1>8. tally'.contacted + tally'.refused + tally'.abstained
        = Cardinality(OfKind("OUTCOME"))' + Pending'
  <2>1. tally'.contacted + tally'.refused + tally'.abstained
          = (tally.contacted + tally.refused + tally.abstained) + (t + r + a)
    BY <1>1, <1>7
  <2>2. tally'.contacted + tally'.refused + tally'.abstained
          = (Cardinality(OfKind("OUTCOME")) + Pending) + (t + r + a)
    BY <1>6, <2>1
  <2>3. (Cardinality(OfKind("OUTCOME")) + Pending) + (t + r + a)
          = Cardinality(OfKind("OUTCOME")) + (Pending + t + r + a)
    BY <1>5
  <2>4. Cardinality(OfKind("OUTCOME")) + (o + Pending')
          = (Cardinality(OfKind("OUTCOME")) + o) + Pending'
    BY <1>5
  <2>. QED  BY <1>7, <2>2, <2>3, <2>4
<1>9. Cardinality(OfKind("OUTCOME"))' \in Nat
  BY <1>5, <1>7
<1>. QED  BY <1>2, <1>3, <1>4, <1>8, <1>9 DEF TallyInv

\* One step per action: the recording ones append one entry, Rerun clears both sides.
LEMMA NextTally == IInv /\ TallyInv /\ [Next]_vars => TallyInv'
<1> SUFFICES ASSUME IInv, TallyInv, [Next]_vars PROVE TallyInv'
  OBVIOUS
<1>. USE DEF IInv
<1>1. CASE RecordEvent
  <2> DEFINE x == Entry("EVENT", Current)
  <2>1. x.kind = "EVENT" /\ x.acts = FALSE /\ x.control = FALSE /\ x.blocked = FALSE
    BY DEF Entry
  <2>2. ledger' = Append(ledger, x) /\ tally' = [tally EXCEPT !.events = @ + 1] /\ pc = "EVENT" /\ pc' = "DIAGNOSIS"
    BY <1>1 DEF RecordEvent, Write
  <2> HIDE DEF x
  <2>3. Grown(x)
    BY <2>2, Counted
  <2>4. /\ tally' \in Tally
        /\ tally'.events = tally.events + 1 /\ tally'.decided = tally.decided + 0
        /\ tally'.control = tally.control + 0 /\ tally'.abstained = tally.abstained + 0
        /\ tally'.refused = tally.refused + 0 /\ tally'.contacted = tally.contacted + 0
    BY <2>2 DEF TallyInv, Tally
  <2>5. Moved(1, 0, 0, 0, 0, 0, 0)
    BY <2>1, <2>3, <2>4 DEF Grown, Moved
  <2>6. Pending + 0 + 0 + 0 = 0 + Pending'
    BY <2>2 DEF Pending
  <2>. QED  BY <2>5, <2>6, Preserved
<1>2. CASE RecordDiagnosis
  <2> DEFINE x == Entry("DIAGNOSIS", Current)
  <2>1. x.kind = "DIAGNOSIS" /\ x.acts = FALSE /\ x.control = FALSE /\ x.blocked = FALSE
    BY DEF Entry
  <2>2. ledger' = Append(ledger, x) /\ tally' = tally /\ pc = "DIAGNOSIS" /\ pc' = "DECISION"
    BY <1>2 DEF RecordDiagnosis, Write
  <2> HIDE DEF x
  <2>3. Grown(x)
    BY <2>2, Counted
  <2>4. /\ tally' \in Tally
        /\ tally'.events = tally.events + 0 /\ tally'.decided = tally.decided + 0
        /\ tally'.control = tally.control + 0 /\ tally'.abstained = tally.abstained + 0
        /\ tally'.refused = tally.refused + 0 /\ tally'.contacted = tally.contacted + 0
    BY <2>2 DEF TallyInv, Tally
  <2>5. Moved(0, 0, 0, 0, 0, 0, 0)
    BY <2>1, <2>3, <2>4 DEF Grown, Moved
  <2>6. Pending + 0 + 0 + 0 = 0 + Pending'
    BY <2>2 DEF Pending
  <2>. QED  BY <2>5, <2>6, Preserved
<1>3. CASE RecordDecision
  <2> DEFINE x == DecisionEntry(Current)
             acts == Chosen(Current)
             control == IsControl(Current)
  <2>1. x.kind = "DECISION" /\ x.blocked = FALSE
    BY DEF DecisionEntry, Entry
  <2>2. x.acts = acts
    BY DEF DecisionEntry, Entry
  <2>3. x.control = control
    BY DEF DecisionEntry, Entry
  <2>4. acts \in BOOLEAN
    BY DEF Chosen
  <2>5. control \in BOOLEAN
    <3>1. Current \in batch /\ Current.customer \in Customers
      BY <1>3, CurrentWaits DEF RecordDecision, TurnInv
    <3>. QED  BY <3>1 DEF InputsInv, IsControl
  <2>6. ledger' = Append(ledger, x)
        /\ tally' = [tally EXCEPT !.decided = @ + 1, !.control = IF control THEN @ + 1 ELSE @,
                                  !.abstained = IF acts THEN @ ELSE @ + 1]
        /\ pc = "DECISION" /\ pc' = IF acts THEN "ACTION" ELSE "OUTCOME"
    BY <1>3 DEF RecordDecision, Write
  <2> DEFINE c == IF control THEN 1 ELSE 0
             a == IF acts THEN 0 ELSE 1
  <2> HIDE DEF x, acts, control, c, a
  <2>7. Grown(x)
    BY <2>6, Counted
  <2>8. /\ tally' \in Tally
        /\ tally'.events = tally.events + 0 /\ tally'.decided = tally.decided + 1
        /\ tally'.control = tally.control + c /\ tally'.abstained = tally.abstained + a
        /\ tally'.refused = tally.refused + 0 /\ tally'.contacted = tally.contacted + 0
    <3>1. tally \in Tally /\ tally.events \in Nat /\ tally.decided \in Nat /\ tally.control \in Nat
          /\ tally.abstained \in Nat /\ tally.refused \in Nat /\ tally.contacted \in Nat
      BY DEF TallyInv, Tally
    <3>2. c \in Nat /\ tally.control + c = IF control THEN tally.control + 1 ELSE tally.control
      BY <3>1 DEF c
    <3>3. a \in Nat /\ tally.abstained + a = IF acts THEN tally.abstained ELSE tally.abstained + 1
      BY <3>1 DEF a
    <3>4. tally' = [tally EXCEPT !.decided = tally.decided + 1, !.control = tally.control + c,
                                 !.abstained = tally.abstained + a]
      BY <2>6, <3>2, <3>3
    <3>5. tally' \in Tally
      <4>1. tally.decided + 1 \in Nat /\ tally.control + c \in Nat /\ tally.abstained + a \in Nat
        BY <3>1, <3>2, <3>3
      <4>. QED  BY <3>1, <3>4, <4>1 DEF Tally
    <3>6. tally'.events = tally.events /\ tally'.decided = tally.decided + 1
      BY <3>1, <3>4 DEF Tally
    <3>7. tally'.control = tally.control + c /\ tally'.abstained = tally.abstained + a
      BY <3>1, <3>4 DEF Tally
    <3>8. tally'.refused = tally.refused /\ tally'.contacted = tally.contacted
      BY <3>1, <3>4 DEF Tally
    <3>. QED  BY <3>1, <3>5, <3>6, <3>7, <3>8
  <2>9. Cardinality(InControl)' = Cardinality(InControl) + c
        /\ Cardinality(Abstained)' = Cardinality(Abstained) + a
    BY <2>1, <2>2, <2>3, <2>4, <2>5, <2>7 DEF Grown, c, a
  <2>10. Moved(0, 1, c, a, 0, 0, 0)
    BY <2>1, <2>7, <2>8, <2>9 DEF Grown, Moved
  <2>11. c \in Nat /\ a \in Nat /\ Pending + 0 + 0 + a = 0 + Pending'
    BY <2>6 DEF Pending, c, a
  <2>. QED  BY <2>10, <2>11, Preserved
<1>4. CASE Act
  <2>1. Waiting # {} /\ Current \in batch /\ Chosen(Current)
    BY <1>4, CurrentWaits DEF Act, TurnInv
  <2>2. diagnosis[Current] # "MANDATE_REVOKED"
    BY <1>4, <2>1, RevokedIsVetoed DEF Act, PlanInv, Chosen
  <2>3. HasTemplate(candidates[Current], diagnosis[Current])
    BY <2>2, RevokedIsVetoed DEF HasTemplate
  <2>4. PICK d \in Drafts(Template(candidates[Current], diagnosis[Current]), Client) :
          LET entry == ActionEntry(Current, d) IN
            /\ Write(entry)
            /\ tally' = [tally EXCEPT !.refused = IF entry.blocked THEN @ + 1 ELSE @,
                                      !.contacted = IF entry.blocked THEN @ ELSE @ + 1]
    BY <1>4, <2>3 DEF Act
  <2> DEFINE x == ActionEntry(Current, d)
             big == Current \in Large \/ d.scoredHigh
  <2>5. x.kind = "ACTION" /\ x.acts = FALSE /\ x.control = FALSE
    BY DEF ActionEntry, Entry
  <2>6. x.blocked = big /\ big \in BOOLEAN
    BY DEF ActionEntry, Entry
  <2>7. ledger' = Append(ledger, x)
        /\ tally' = [tally EXCEPT !.refused = IF x.blocked THEN @ + 1 ELSE @,
                                  !.contacted = IF x.blocked THEN @ ELSE @ + 1]
        /\ pc = "ACTION" /\ pc' = "OUTCOME"
    BY <1>4, <2>3, <2>4 DEF Act, Write
  <2> DEFINE r == IF big THEN 1 ELSE 0
             t == IF big THEN 0 ELSE 1
  <2> HIDE DEF x, big, r, t
  <2>8. Grown(x)
    BY <2>7, Counted
  <2>9. /\ tally' \in Tally
        /\ tally'.events = tally.events + 0 /\ tally'.decided = tally.decided + 0
        /\ tally'.control = tally.control + 0 /\ tally'.abstained = tally.abstained + 0
        /\ tally'.refused = tally.refused + r /\ tally'.contacted = tally.contacted + t
    <3>1. tally \in Tally /\ tally.events \in Nat /\ tally.decided \in Nat /\ tally.control \in Nat
          /\ tally.abstained \in Nat /\ tally.refused \in Nat /\ tally.contacted \in Nat
      BY DEF TallyInv, Tally
    <3>2. r \in Nat /\ tally.refused + r = IF x.blocked THEN tally.refused + 1 ELSE tally.refused
      BY <2>6, <3>1 DEF r
    <3>3. t \in Nat /\ tally.contacted + t = IF x.blocked THEN tally.contacted ELSE tally.contacted + 1
      BY <2>6, <3>1 DEF t
    <3>4. tally' = [tally EXCEPT !.refused = tally.refused + r, !.contacted = tally.contacted + t]
      BY <2>7, <3>2, <3>3
    <3>5. tally' \in Tally
      <4>1. tally.refused + r \in Nat /\ tally.contacted + t \in Nat
        BY <3>1, <3>2, <3>3
      <4>. QED  BY <3>1, <3>4, <4>1 DEF Tally
    <3>6. tally'.events = tally.events /\ tally'.decided = tally.decided
      BY <3>1, <3>4 DEF Tally
    <3>7. tally'.control = tally.control /\ tally'.abstained = tally.abstained
      BY <3>1, <3>4 DEF Tally
    <3>8. tally'.refused = tally.refused + r /\ tally'.contacted = tally.contacted + t
      BY <3>1, <3>4 DEF Tally
    <3>. QED  BY <3>1, <3>5, <3>6, <3>7, <3>8
  <2>10. Cardinality(Refused)' = Cardinality(Refused) + r
         /\ Cardinality(Contacted)' = Cardinality(Contacted) + t
    BY <2>5, <2>6, <2>8 DEF Grown, r, t
  <2>11. Moved(0, 0, 0, 0, r, t, 0)
    BY <2>5, <2>8, <2>9, <2>10 DEF Grown, Moved
  <2>12. r \in Nat /\ t \in Nat /\ Pending + t + r + 0 = 0 + Pending'
    BY <2>7 DEF Pending, r, t
  <2>. QED  BY <2>11, <2>12, Preserved
<1>5. CASE RecordOutcome
  <2> DEFINE x == Entry("OUTCOME", Current)
  <2>1. x.kind = "OUTCOME" /\ x.acts = FALSE /\ x.control = FALSE /\ x.blocked = FALSE
    BY DEF Entry
  <2>2. ledger' = Append(ledger, x) /\ tally' = tally /\ pc = "OUTCOME" /\ pc' = "EVENT"
    BY <1>5 DEF RecordOutcome, Write
  <2> HIDE DEF x
  <2>3. Grown(x)
    BY <2>2, Counted
  <2>4. /\ tally' \in Tally
        /\ tally'.events = tally.events + 0 /\ tally'.decided = tally.decided + 0
        /\ tally'.control = tally.control + 0 /\ tally'.abstained = tally.abstained + 0
        /\ tally'.refused = tally.refused + 0 /\ tally'.contacted = tally.contacted + 0
    BY <2>2 DEF TallyInv, Tally
  <2>5. Moved(0, 0, 0, 0, 0, 0, 1)
    BY <2>1, <2>3, <2>4 DEF Grown, Moved
  <2>6. Pending + 0 + 0 + 0 = 1 + Pending'
    BY <2>2 DEF Pending
  <2>. QED  BY <2>5, <2>6, Preserved
<1>6. CASE Rerun
  <2>1. (\A k : OfKind(k)' = {}) /\ tally' = NoTally /\ pc' = "detect"
    BY <1>6 DEF Rerun, OfKind
  <2>2. InControl' = {} /\ Abstained' = {} /\ Refused' = {} /\ Contacted' = {}
    BY <2>1 DEF InControl, Abstained, Refused, Contacted
  <2>3. Cardinality({}) = 0
    BY FS_EmptySet
  <2>4. tally' \in Tally /\ tally'.events = 0 /\ tally'.decided = 0 /\ tally'.control = 0
        /\ tally'.abstained = 0 /\ tally'.refused = 0 /\ tally'.contacted = 0
    BY <2>1 DEF NoTally, Tally
  <2>5. Cardinality(OfKind("EVENT"))' = 0 /\ Cardinality(OfKind("DECISION"))' = 0
        /\ Cardinality(OfKind("OUTCOME"))' = 0
    BY <2>1, <2>3
  <2>. QED  BY <2>1, <2>2, <2>3, <2>4, <2>5 DEF TallyInv, Pending
<1>7. CASE NoModel \/ Detect \/ Allocate \/ Finish \/ UNCHANGED vars
  <2>1. UNCHANGED <<ledger, tally>> /\ (pc' = "OUTCOME" <=> pc = "OUTCOME")
    BY <1>7 DEF NoModel, Detect, Allocate, Finish, vars
  <2>2. (\A k : OfKind(k)' = OfKind(k))
        /\ UNCHANGED <<InControl, Abstained, Refused, Contacted>>
    BY <2>1 DEF OfKind, InControl, Abstained, Refused, Contacted
  <2>. QED  BY <2>1, <2>2 DEF TallyInv, Pending
<1>. QED  BY <1>1, <1>2, <1>3, <1>4, <1>5, <1>6, <1>7 DEF Next

\* The totals that a run reports are those of its ledger, and every event is accounted
\* for once, however often the run was killed and started again (run_pipeline and
\* run_batch.main, which unlinks the file).
THEOREM TotalsMatch == Spec => []TalliesMatchLedger
<1>1. ASSUME TallyInv PROVE TalliesMatchLedger
  <2>1. tally = [events |-> tally.events, decided |-> tally.decided, control |-> tally.control,
                 abstained |-> tally.abstained, refused |-> tally.refused,
                 contacted |-> tally.contacted]
    BY <1>1 DEF TallyInv, Tally
  <2>2. tally = [events |-> Cardinality(OfKind("EVENT")),
                 decided |-> Cardinality(OfKind("DECISION")),
                 control |-> Cardinality(InControl), abstained |-> Cardinality(Abstained),
                 refused |-> Cardinality(Refused), contacted |-> Cardinality(Contacted)]
    BY <1>1, <2>1 DEF TallyInv
  <2>3. ASSUME pc = "EVENT"
        PROVE  tally.contacted + tally.refused + tally.abstained = Cardinality(OfKind("OUTCOME"))
    <3>1. tally.contacted + tally.refused + tally.abstained = Cardinality(OfKind("OUTCOME")) + 0
      BY <1>1, <2>3 DEF TallyInv, Pending
    <3>2. Cardinality(OfKind("OUTCOME")) \in Nat
      BY <1>1 DEF TallyInv
    <3>. QED  BY <3>1, <3>2
  <2>. QED  BY <2>2, <2>3 DEF TalliesMatchLedger, InControl, Abstained, Refused, Contacted
<1>. QED  BY <1>1, InitIInv, NextIInv, InitTally, NextTally, PTL DEF Spec

-----------------------------------------------------------------------------
(* How the entries of a run are laid out: those of an event are of different *)
(* kinds, in the order of a turn, and carry its number and no other.         *)

Fields == {"kind", "event", "decision", "action", "acts", "control", "constraints", "rationale",
           "blocked", "promise", "scoredHigh"}

\* What the entries of one event say of it.
Shaped(x, e) ==
  /\ DOMAIN x = Fields
  /\ x.event = e.n
  /\ x.kind \in {"EVENT", "DIAGNOSIS", "DECISION", "ACTION", "OUTCOME"}
  /\ x.decision = IF x.kind \in {"DECISION", "ACTION"} THEN e.n ELSE Missing
  /\ x.action = IF x.kind = "ACTION" THEN e.n ELSE Missing
  /\ x.kind = "DECISION" =>
       /\ x.acts = Chosen(e) /\ x.control = IsControl(e)
       /\ x.constraints = Constraints(e) /\ x.rationale = Rationale(e)
  /\ x.blocked \in BOOLEAN

\* The kinds of the entries that name an event.
Kinds(n) == {ledger[i].kind : i \in Mentions(ledger, n)}

\* The kinds of entry that a turn has written when only the outcome is missing.
Whole(e) == {"EVENT", "DIAGNOSIS", "DECISION"} \cup (IF Chosen(e) THEN {"ACTION"} ELSE {})

\* Those that the turn at hand has written.
Turn(e) ==
  CASE pc = "DIAGNOSIS" -> {"EVENT"}
    [] pc = "DECISION" -> {"EVENT", "DIAGNOSIS"}
    [] pc = "ACTION" -> {"EVENT", "DIAGNOSIS", "DECISION"}
    [] pc = "OUTCOME" -> Whole(e)
    [] OTHER -> {}

Due(e) ==
  IF e.n \in Finished THEN Whole(e) \cup {"OUTCOME"}
  ELSE IF e = Current THEN Turn(e) ELSE {}

LayoutInv ==
  /\ \A i \in DOMAIN ledger : \E e \in batch : Shaped(ledger[i], e)
  /\ \A i, j \in DOMAIN ledger :
       ledger[i].kind = ledger[j].kind /\ ledger[i].event = ledger[j].event => i = j
  /\ \A j \in DOMAIN ledger : ledger[j].kind = "ACTION" =>
       \E i \in DOMAIN ledger :
         i < j /\ ledger[i].kind = "DECISION" /\ ledger[i].event = ledger[j].event
  /\ \A e \in batch : Kinds(e.n) = Due(e)

\* The entries that an event needs are told apart by their kinds.
LEMMA EntryShaped ==
  ASSUME NEW e \in batch, NEW kind \in {"EVENT", "DIAGNOSIS", "OUTCOME"}
  PROVE  Entry(kind, e).kind = kind /\ Shaped(Entry(kind, e), e)
<1> DEFINE x == Entry(kind, e)
<1>1. /\ x.kind = kind /\ x.event = e.n /\ x.decision = Missing /\ x.action = Missing
      /\ x.blocked = FALSE /\ DOMAIN x = Fields
  BY DEF Entry, Fields
<1> HIDE DEF x
<1>2. x.blocked \in BOOLEAN
  BY <1>1
<1>. QED  BY <1>1, <1>2 DEF Shaped, x

\* A decision carries its own id and no action's.
LEMMA DecisionShaped ==
  ASSUME NEW e \in batch
  PROVE  DecisionEntry(e).kind = "DECISION" /\ Shaped(DecisionEntry(e), e)
<1> DEFINE x == DecisionEntry(e)
<1>1. /\ x.kind = "DECISION" /\ x.event = e.n /\ x.decision = e.n /\ x.action = Missing
      /\ x.blocked = FALSE /\ DOMAIN x = Fields
  BY DEF DecisionEntry, Entry, Fields
<1>2. x.acts = Chosen(e)
  BY DEF DecisionEntry, Entry
<1>3. x.control = IsControl(e)
  BY DEF DecisionEntry, Entry
<1>4. x.constraints = Constraints(e) /\ x.rationale = Rationale(e)
  <2> DEFINE y == Rationale(e)
  <2> HIDE DEF y
  <2>1. x.rationale = y
    BY DEF DecisionEntry, Entry, y
  <2>2. x.constraints = Constraints(e)
    BY DEF DecisionEntry, Entry
  <2>. QED  BY <2>1, <2>2 DEF y
<1> HIDE DEF x
<1>5. x.blocked \in BOOLEAN
  BY <1>1
<1>. QED  BY <1>1, <1>2, <1>3, <1>4, <1>5 DEF Shaped, x

\* An action carries its own id and that of its decision.
LEMMA ActionShaped ==
  ASSUME NEW e \in batch, NEW d
  PROVE  ActionEntry(e, d).kind = "ACTION" /\ Shaped(ActionEntry(e, d), e)
<1> DEFINE x == ActionEntry(e, d)
           blocked == e \in Large \/ d.scoredHigh
<1>1. /\ x.kind = "ACTION" /\ x.event = e.n /\ x.decision = e.n /\ x.action = e.n
      /\ DOMAIN x = Fields
  BY DEF ActionEntry, Entry, Fields
<1>2. x.blocked = blocked
  BY DEF ActionEntry, Entry
<1>3. blocked \in BOOLEAN
  OBVIOUS
<1> HIDE DEF x, blocked
<1>4. x.blocked \in BOOLEAN
  BY <1>2, <1>3
<1>. QED  BY <1>1, <1>4 DEF Shaped, x

\* An entry keeps its shape while the plan stands.
LEMMA ShapesStay ==
  ASSUME UNCHANGED <<batch, holdout, diagnosis, candidates, allocation>>
  PROVE  \A x, e : Shaped(x, e)' <=> Shaped(x, e)
<1>1. \A e : /\ Chosen(e)' <=> Chosen(e)
             /\ IsControl(e)' = IsControl(e)
             /\ Constraints(e)' = Constraints(e)
  BY DEF Chosen, IsControl, Constraints, Problem
<1>2. Problem' = Problem
  BY DEF Problem
<1>3. \A e : Rationale(e)' = Rationale(e)
  BY <1>1, <1>2 DEF Rationale
<1>4. \A e : Chosen(e)' = Chosen(e)
  BY DEF Chosen, IsControl, Problem
<1>. QED  BY <1>1, <1>3, <1>4 DEF Shaped

\* The kinds of the entries of an event, with one more entry.
LEMMA KindsGrow ==
  ASSUME LedgerInv, NEW x, ledger' = Append(ledger, x), NEW n
  PROVE  Kinds(n)' = Kinds(n) \cup (IF x.event = n THEN {x.kind} ELSE {})
<1> DEFINE m == Len(ledger)
<1>1. m \in Nat /\ DOMAIN ledger = 1 .. m /\ DOMAIN ledger' = 1 .. m + 1
      /\ (\A i \in 1 .. m : ledger'[i] = ledger[i]) /\ ledger'[m + 1] = x
  BY WrittenLast
<1> HIDE DEF m
<1>2. \A k : k \in Kinds(n) <=> \E i \in 1 .. m : ledger[i].event = n /\ k = ledger[i].kind
  BY <1>1 DEF Kinds, Mentions
<1>3. \A k : k \in Kinds(n)' <=> \E i \in 1 .. m + 1 : ledger'[i].event = n /\ k = ledger'[i].kind
  BY <1>1 DEF Kinds, Mentions
<1>4. ASSUME NEW k PROVE k \in Kinds(n)' <=> k \in Kinds(n) \/ (x.event = n /\ k = x.kind)
  <2>1. ASSUME NEW i \in 1 .. m + 1 PROVE i \in 1 .. m \/ i = m + 1
    BY <1>1
  <2>2. 1 .. m \subseteq 1 .. m + 1 /\ m + 1 \in 1 .. m + 1
    BY <1>1
  <2>. QED  BY <1>1, <1>2, <1>3, <2>1, <2>2
<1>. QED  BY <1>4

\* An entry for an event that has none of its kind keeps the layout.
LEMMA LayoutGrows ==
  ASSUME InputsInv, LedgerInv, LayoutInv, NEW e \in batch, NEW x, Shaped(x, e),
         x.kind \notin Kinds(e.n), x.kind = "ACTION" => "DECISION" \in Kinds(e.n),
         ledger' = Append(ledger, x),
         UNCHANGED <<batch, holdout, diagnosis, candidates, allocation>>,
         \A f \in batch : Due(f)' = Due(f) \cup (IF f = e THEN {x.kind} ELSE {})
  PROVE  LayoutInv'
<1> DEFINE m == Len(ledger)
<1>1. m \in Nat /\ DOMAIN ledger = 1 .. m /\ DOMAIN ledger' = 1 .. m + 1
      /\ (\A i \in 1 .. m : ledger'[i] = ledger[i]) /\ ledger'[m + 1] = x
  BY WrittenLast
<1> HIDE DEF m
<1>2. \A i \in 1 .. m + 1 : i \in 1 .. m \/ i = m + 1
  BY <1>1
<1>3. \A i \in 1 .. m : i \in 1 .. m + 1 /\ i < m + 1 /\ i # m + 1
  BY <1>1
<1>4. \A y, f : Shaped(y, f)' <=> Shaped(y, f)
  BY ShapesStay
<1>5. x.event = e.n
  BY DEF Shaped
<1>6. \A i \in DOMAIN ledger' : (\E f \in batch : Shaped(ledger[i], f))'
  BY <1>1, <1>2, <1>4 DEF LayoutInv
<1>7. \A i \in 1 .. m : ~(ledger[i].kind = x.kind /\ ledger[i].event = x.event)
  BY <1>1, <1>5 DEF Kinds, Mentions
<1>8. ASSUME NEW i \in DOMAIN ledger', NEW j \in DOMAIN ledger',
             ledger'[i].kind = ledger'[j].kind, ledger'[i].event = ledger'[j].event
      PROVE  i = j
  <2>1. CASE i \in 1 .. m /\ j \in 1 .. m
    BY <1>1, <1>8, <2>1 DEF LayoutInv
  <2>2. CASE i = m + 1 /\ j \in 1 .. m
    BY <1>1, <1>7, <1>8, <2>2
  <2>3. CASE i \in 1 .. m /\ j = m + 1
    BY <1>1, <1>7, <1>8, <2>3
  <2>. QED  BY <1>1, <1>2, <2>1, <2>2, <2>3
<1>9. ASSUME NEW j \in DOMAIN ledger', ledger'[j].kind = "ACTION"
      PROVE  \E i \in DOMAIN ledger' :
               i < j /\ ledger'[i].kind = "DECISION" /\ ledger'[i].event = ledger'[j].event
  <2>1. CASE j \in 1 .. m
    <3>1. PICK i \in DOMAIN ledger :
                 i < j /\ ledger[i].kind = "DECISION" /\ ledger[i].event = ledger[j].event
      BY <1>1, <1>9, <2>1 DEF LayoutInv
    <3>. QED  BY <1>1, <1>3, <2>1, <3>1
  <2>2. CASE j = m + 1
    <3>1. "DECISION" \in Kinds(e.n)
      BY <1>1, <1>9, <2>2
    <3>2. PICK i \in 1 .. m : ledger[i].event = e.n /\ ledger[i].kind = "DECISION"
      BY <1>1, <3>1 DEF Kinds, Mentions
    <3>. QED  BY <1>1, <1>3, <1>5, <2>2, <3>2
  <2>. QED  BY <1>1, <1>2, <2>1, <2>2
<1>10. ASSUME NEW f \in batch PROVE Kinds(f.n)' = Due(f)'
  <2>1. Kinds(f.n)' = Kinds(f.n) \cup (IF e.n = f.n THEN {x.kind} ELSE {})
    BY <1>5, KindsGrow
  <2>2. e.n = f.n <=> e = f
    BY SlotsAssumption DEF InputsInv
  <2>. QED  BY <2>1, <2>2 DEF LayoutInv
<1>. QED  BY <1>6, <1>8, <1>9, <1>10 DEF LayoutInv

\* An entry that is not an outcome leaves it to others what is finished and current.
LEMMA DueGoesOn ==
  ASSUME LedgerInv, NEW x, x.kind # "OUTCOME", ledger' = Append(ledger, x),
         UNCHANGED <<batch, holdout, candidates, allocation>>, Waiting # {}, Current \in Waiting
  PROVE  /\ Current' = Current
         /\ \A f \in batch : IF f = Current THEN Due(f) = Turn(f) /\ Due(f)' = Turn(f)'
                             ELSE Due(f)' = Due(f)
<1>1. Waiting' = Waiting /\ Current' = Current
  BY TurnGoesOn
<1>2. \A f \in batch : f.n \in Finished <=> f \notin Waiting
  BY DEF Waiting
<1>3. \A f \in batch : (f.n \in Finished)' <=> f \notin Waiting
  BY <1>1 DEF Waiting
<1>4. \A f : Whole(f)' = Whole(f)
  BY DEF Whole, Chosen, Problem, IsControl
<1>5. Current \in batch
  BY DEF Waiting
<1>. QED  BY <1>1, <1>2, <1>3, <1>4, <1>5 DEF Due

\* In an empty ledger nothing has been written and nothing is due.
LEMMA EmptyLayout ==
  ledger = <<>> /\ pc \in {"detect", "no_model", "allocate", "EVENT"} => LayoutInv
<1> SUFFICES ASSUME ledger = <<>>, pc \in {"detect", "no_model", "allocate", "EVENT"}
             PROVE  LayoutInv
  OBVIOUS
<1>1. DOMAIN ledger = {}
  OBVIOUS
<1>2. Finished = {} /\ \A n : Kinds(n) = {}
  BY <1>1 DEF Finished, Kinds, Mentions
<1>3. \A e : Turn(e) = {}
  BY DEF Turn
<1>. QED  BY <1>1, <1>2, <1>3 DEF LayoutInv, Due

\* Each step keeps the layout.
LEMMA NextLayout == IInv /\ IInv' /\ LayoutInv /\ [Next]_vars => LayoutInv'
<1> SUFFICES ASSUME IInv, IInv', LayoutInv, [Next]_vars PROVE LayoutInv'
  OBVIOUS
<1>. USE DEF IInv
<1>0. InputsInv /\ LedgerInv
  OBVIOUS
<1>1. CASE NoModel \/ Detect \/ Allocate \/ Rerun
  <2>1. (ledger = <<>> /\ pc \in {"detect", "no_model", "allocate", "EVENT"})'
    BY <1>1 DEF NoModel, Detect, Allocate, Rerun, LedgerInv
  <2>. QED  BY <2>1, EmptyLayout, PTL
<1>2. CASE RecordEvent
  <2> DEFINE x == Entry("EVENT", Current)
  <2>1. Waiting # {} /\ Current \in Waiting /\ Current \in batch
    BY <1>2, CurrentWaits DEF RecordEvent
  <2>2. x.kind = "EVENT" /\ Shaped(x, Current)
    BY <2>1, EntryShaped
  <2>3. ledger' = Append(ledger, x) /\ pc = "EVENT" /\ pc' = "DIAGNOSIS"
        /\ UNCHANGED <<batch, holdout, diagnosis, candidates, allocation>>
    BY <1>2 DEF RecordEvent, Write, inputs, plan
  <2> HIDE DEF x
  <2>4. \A f \in batch : IF f = Current THEN Due(f) = {} /\ Due(f)' = {"EVENT"}
                         ELSE Due(f)' = Due(f)
    <3>1. \A f \in batch : Turn(f) = {} /\ Turn(f)' = {"EVENT"}
      BY <2>3 DEF Turn
    <3>. QED  BY <1>0, <2>1, <2>2, <2>3, <3>1, DueGoesOn
  <2>5. x.kind \notin Kinds(Current.n)
    BY <2>1, <2>4 DEF LayoutInv
  <2>6. \A f \in batch : Due(f)' = Due(f) \cup (IF f = Current THEN {x.kind} ELSE {})
    BY <2>2, <2>4
  <2>. QED  BY <1>0, <2>1, <2>2, <2>3, <2>5, <2>6, LayoutGrows
<1>3. CASE RecordDiagnosis
  <2> DEFINE x == Entry("DIAGNOSIS", Current)
  <2>1. Waiting # {} /\ Current \in Waiting /\ Current \in batch
    BY <1>3, CurrentWaits DEF RecordDiagnosis, TurnInv
  <2>2. x.kind = "DIAGNOSIS" /\ Shaped(x, Current)
    BY <2>1, EntryShaped
  <2>3. ledger' = Append(ledger, x) /\ pc = "DIAGNOSIS" /\ pc' = "DECISION"
        /\ UNCHANGED <<batch, holdout, diagnosis, candidates, allocation>>
    BY <1>3 DEF RecordDiagnosis, Write, inputs, plan
  <2> HIDE DEF x
  <2>4. \A f \in batch :
          IF f = Current THEN Due(f) = {"EVENT"} /\ Due(f)' = {"EVENT", "DIAGNOSIS"}
          ELSE Due(f)' = Due(f)
    <3>1. \A f \in batch : Turn(f) = {"EVENT"} /\ Turn(f)' = {"EVENT", "DIAGNOSIS"}
      BY <2>3 DEF Turn
    <3>. QED  BY <1>0, <2>1, <2>2, <2>3, <3>1, DueGoesOn
  <2>5. x.kind \notin Kinds(Current.n)
    BY <2>1, <2>2, <2>4 DEF LayoutInv
  <2>6. \A f \in batch : Due(f)' = Due(f) \cup (IF f = Current THEN {x.kind} ELSE {})
    BY <2>2, <2>4
  <2>. QED  BY <1>0, <2>1, <2>2, <2>3, <2>5, <2>6, LayoutGrows
<1>4. CASE RecordDecision
  <2> DEFINE x == DecisionEntry(Current)
  <2>1. Waiting # {} /\ Current \in Waiting /\ Current \in batch
    BY <1>4, CurrentWaits DEF RecordDecision, TurnInv
  <2>2. x.kind = "DECISION" /\ Shaped(x, Current)
    BY <2>1, DecisionShaped
  <2>3. ledger' = Append(ledger, x) /\ pc = "DECISION"
        /\ pc' = (IF Chosen(Current) THEN "ACTION" ELSE "OUTCOME")
        /\ UNCHANGED <<batch, holdout, diagnosis, candidates, allocation>>
    BY <1>4 DEF RecordDecision, Write, inputs, plan
  <2> HIDE DEF x
  <2>4. \A f \in batch :
          IF f = Current THEN Due(f) = {"EVENT", "DIAGNOSIS"}
                              /\ Due(f)' = {"EVENT", "DIAGNOSIS", "DECISION"}
          ELSE Due(f)' = Due(f)
    <3>1. \A f \in batch : IF f = Current THEN Due(f) = Turn(f) /\ Due(f)' = Turn(f)'
                           ELSE Due(f)' = Due(f)
      BY <1>0, <2>1, <2>2, <2>3, DueGoesOn
    <3>2. \A f \in batch : Chosen(f)' <=> Chosen(f)
      BY <2>3 DEF Chosen, Problem, IsControl
    <3>3. \A f \in batch : Turn(f) = {"EVENT", "DIAGNOSIS"}
      BY <2>3 DEF Turn
    <3>4. \A f \in batch : f = Current => Turn(f)' = {"EVENT", "DIAGNOSIS", "DECISION"}
      BY <2>3, <3>2 DEF Turn, Whole
    <3>. QED  BY <3>1, <3>3, <3>4
  <2>5. x.kind \notin Kinds(Current.n)
    BY <2>1, <2>2, <2>4 DEF LayoutInv
  <2>6. \A f \in batch : Due(f)' = Due(f) \cup (IF f = Current THEN {x.kind} ELSE {})
    BY <2>2, <2>4
  <2>. QED  BY <1>0, <2>1, <2>2, <2>3, <2>5, <2>6, LayoutGrows
<1>5. CASE Act
  <2>1. Waiting # {} /\ Current \in Waiting /\ Current \in batch /\ Chosen(Current)
    BY <1>5, CurrentWaits DEF Act, TurnInv
  <2>2. PICK d : ledger' = Append(ledger, ActionEntry(Current, d))
    <3>1. HasTemplate(candidates[Current], diagnosis[Current])
      <4>1. pc' # "aborted"
        BY DEF TurnInv
      <4>. QED  BY <1>5, <4>1 DEF Act
    <3>. QED  BY <1>5, <3>1 DEF Act, Write
  <2> DEFINE x == ActionEntry(Current, d)
  <2>3. x.kind = "ACTION" /\ Shaped(x, Current)
    BY <2>1, ActionShaped
  <2>4. ledger' = Append(ledger, x) /\ pc = "ACTION" /\ pc' = "OUTCOME"
        /\ UNCHANGED <<batch, holdout, diagnosis, candidates, allocation>>
    <3>1. pc' # "aborted"
      BY DEF TurnInv
    <3>. QED  BY <1>5, <2>2, <3>1 DEF Act, inputs, plan
  <2> HIDE DEF x
  <2>5. \A f \in batch :
          IF f = Current THEN Due(f) = {"EVENT", "DIAGNOSIS", "DECISION"}
                              /\ Due(f)' = {"EVENT", "DIAGNOSIS", "DECISION", "ACTION"}
          ELSE Due(f)' = Due(f)
    <3>1. \A f \in batch : IF f = Current THEN Due(f) = Turn(f) /\ Due(f)' = Turn(f)'
                           ELSE Due(f)' = Due(f)
      BY <1>0, <2>1, <2>3, <2>4, DueGoesOn
    <3>2. \A f \in batch : Chosen(f)' <=> Chosen(f)
      BY <2>4 DEF Chosen, Problem, IsControl
    <3>3. \A f \in batch : Turn(f) = {"EVENT", "DIAGNOSIS", "DECISION"}
      BY <2>4 DEF Turn
    <3>4. \A f \in batch : f = Current => Turn(f)' = {"EVENT", "DIAGNOSIS", "DECISION", "ACTION"}
      BY <2>1, <2>4, <3>2 DEF Turn, Whole
    <3>. QED  BY <3>1, <3>3, <3>4
  <2>6. x.kind \notin Kinds(Current.n) /\ "DECISION" \in Kinds(Current.n)
    BY <2>1, <2>3, <2>5 DEF LayoutInv
  <2>7. \A f \in batch : Due(f)' = Due(f) \cup (IF f = Current THEN {x.kind} ELSE {})
    BY <2>3, <2>5
  <2>. QED  BY <1>0, <2>1, <2>3, <2>4, <2>6, <2>7, LayoutGrows
<1>6. CASE RecordOutcome
  <2> DEFINE x == Entry("OUTCOME", Current)
  <2>1. Waiting # {} /\ Current \in Waiting /\ Current \in batch
    BY <1>6, CurrentWaits DEF RecordOutcome, TurnInv
  <2>2. x.kind = "OUTCOME" /\ Shaped(x, Current)
    BY <2>1, EntryShaped
  <2>3. ledger' = Append(ledger, x) /\ pc = "OUTCOME" /\ pc' = "EVENT"
        /\ UNCHANGED <<batch, holdout, diagnosis, candidates, allocation>>
    BY <1>6 DEF RecordOutcome, Write, inputs, plan
  <2> HIDE DEF x
  <2>4. x.event = Current.n
    BY <2>2 DEF Shaped
  <2>5. \A f \in batch : (f.n \in Finished)' <=> f.n \in Finished \/ f = Current
    <3> DEFINE m == Len(ledger)
    <3>1. m \in Nat /\ DOMAIN ledger = 1 .. m /\ DOMAIN ledger' = 1 .. m + 1
          /\ (\A i \in 1 .. m : ledger'[i] = ledger[i]) /\ ledger'[m + 1] = x
      BY <1>0, <2>3, WrittenLast
    <3> HIDE DEF m
    <3>2. \A n : n \in Finished <=> \E i \in 1 .. m : ledger[i].kind = "OUTCOME" /\ n = ledger[i].event
      BY <3>1 DEF Finished
    <3>3. \A n : n \in Finished' <=> \E i \in 1 .. m + 1 : ledger'[i].kind = "OUTCOME" /\ n = ledger'[i].event
      BY <3>1 DEF Finished
    <3>4. ASSUME NEW n PROVE n \in Finished' <=> n \in Finished \/ n = Current.n
      <4>1. ASSUME NEW i \in 1 .. m + 1 PROVE i \in 1 .. m \/ i = m + 1
        BY <3>1
      <4>2. 1 .. m \subseteq 1 .. m + 1 /\ m + 1 \in 1 .. m + 1
        BY <3>1
      <4>. QED  BY <2>2, <2>4, <3>1, <3>2, <3>3, <4>1, <4>2
    <3>5. \A f \in batch : f.n = Current.n <=> f = Current
      BY <2>1, SlotsAssumption DEF InputsInv
    <3>. QED  BY <2>3, <3>4, <3>5
  <2>6. \A f \in batch : Turn(f)' = {} /\ Whole(f)' = Whole(f)
    BY <2>3 DEF Turn, Whole, Chosen, Problem, IsControl
  <2>7. Current.n \notin Finished /\ Due(Current) = Whole(Current)
    BY <2>1, <2>3 DEF Waiting, Due, Turn
  <2>8. ASSUME NEW f \in batch
        PROVE  Due(f)' = Due(f) \cup (IF f = Current THEN {x.kind} ELSE {})
    <3>1. CASE f = Current
      <4>1. Due(f)' = Whole(f)' \cup {"OUTCOME"}
        BY <2>5, <3>1 DEF Due
      <4>. QED  BY <2>2, <2>6, <2>7, <3>1, <4>1
    <3>2. CASE f # Current /\ f.n \in Finished
      BY <2>5, <2>6, <3>2 DEF Due
    <3>3. CASE f # Current /\ f.n \notin Finished
      <4>1. Due(f) = {}
        BY <3>3 DEF Due
      <4>2. Due(f)' = {}
        BY <2>5, <2>6, <3>3 DEF Due
      <4>. QED  BY <3>3, <4>1, <4>2
    <3>. QED  BY <3>1, <3>2, <3>3
  <2>9. x.kind \notin Kinds(Current.n)
    BY <2>1, <2>2, <2>7 DEF LayoutInv, Whole
  <2>. QED  BY <1>0, <2>1, <2>2, <2>3, <2>8, <2>9, LayoutGrows
<1>7. CASE Finish \/ UNCHANGED vars
  <2>1. UNCHANGED <<ledger, batch, holdout, diagnosis, candidates, allocation>>
    BY <1>7 DEF Finish, vars, inputs, plan
  <2>2. UNCHANGED <<Finished, Current>> /\ (\A n : Kinds(n)' = Kinds(n)) /\ \A f : Whole(f)' = Whole(f)
    BY <2>1 DEF Finished, Current, Waiting, Kinds, Mentions, Whole, Chosen, Problem, IsControl
  <2>3. \A y, f : Shaped(y, f)' <=> Shaped(y, f)
    BY <2>1, ShapesStay
  <2>4. ASSUME NEW f \in batch PROVE Due(f)' = Due(f)
    <3>1. CASE UNCHANGED vars
      BY <2>1, <2>2, <3>1 DEF Due, Turn, vars
    <3>2. CASE Finish
      <4>1. Waiting = {}
        BY <3>2 DEF Finish
      <4>2. f.n \in Finished
        BY <4>1 DEF Waiting
      <4>. QED  BY <2>2, <4>2 DEF Due
    <3>. QED  BY <1>7, <3>1, <3>2
  <2>. QED  BY <2>1, <2>2, <2>3, <2>4 DEF LayoutInv
<1>. QED  BY <1>1, <1>2, <1>3, <1>4, <1>5, <1>6, <1>7 DEF Next

-----------------------------------------------------------------------------
(* Traces of a ledger from which a partial write has taken one event's id.  *)

\* A log that is the ledger, but that the entry at p does not name its event.
CutAt(log, p) ==
  /\ DOMAIN log = DOMAIN ledger
  /\ \A i \in DOMAIN ledger :
       /\ log[i].kind = ledger[i].kind /\ log[i].decision = ledger[i].decision
       /\ log[i].action = ledger[i].action /\ log[i].acts = ledger[i].acts
       /\ log[i].control = ledger[i].control /\ log[i].constraints = ledger[i].constraints
       /\ log[i].event = IF i = p THEN Missing ELSE ledger[i].event

\* The entries that can still be told to be of an event: an action is found by the id
\* of its decision.
Found(p, n) ==
  {i \in DOMAIN ledger : ledger[i].event = n /\ (i # p \/ ledger[i].kind = "ACTION")}

\* The logs that the properties are about.
LEMMA LogsAreCut ==
  ASSUME LayoutInv, LedgerInv, NEW log \in {ledger} \cup {PartialWrite(i) : i \in DOMAIN ledger}
  PROVE  \E p \in Nat : CutAt(log, p)
<1>0. DOMAIN ledger \subseteq Nat \ {0}
  BY DEF LedgerInv
<1>1. CASE log = ledger
  <2>1. CutAt(log, 0)
    BY <1>0, <1>1 DEF CutAt
  <2>. QED  BY <2>1
<1>2. ASSUME NEW p \in DOMAIN ledger, log = PartialWrite(p) PROVE CutAt(log, p)
  <2>1. log = [ledger EXCEPT ![p] = [ledger[p] EXCEPT !.event = Missing]]
    BY <1>2 DEF PartialWrite
  <2>2. DOMAIN ledger[p] = Fields
    BY DEF LayoutInv, Shaped
  <2>3. DOMAIN log = DOMAIN ledger /\ \A i \in DOMAIN ledger : i # p => log[i] = ledger[i]
    BY <2>1
  <2>4. log[p] = [ledger[p] EXCEPT !.event = Missing]
    BY <2>1
  <2>5. /\ log[p].kind = ledger[p].kind /\ log[p].decision = ledger[p].decision
        /\ log[p].action = ledger[p].action /\ log[p].acts = ledger[p].acts
        /\ log[p].control = ledger[p].control /\ log[p].constraints = ledger[p].constraints
        /\ log[p].event = Missing
    BY <2>2, <2>4 DEF Fields
  <2>. QED  BY <2>3, <2>5 DEF CutAt
<1>. QED  BY <1>0, <1>1, <1>2

\* What the layout says of one entry.
LEMMA OneEntry ==
  ASSUME InputsInv, LayoutInv, NEW i \in DOMAIN ledger
  PROVE  \E e \in batch :
           /\ Shaped(ledger[i], e) /\ e.n \in Nat /\ ledger[i].event = e.n /\ EventOf(i) = e
<1>1. PICK e \in batch : Shaped(ledger[i], e)
  BY DEF LayoutInv
<1>2. e.n \in Nat /\ ledger[i].event = e.n
  BY <1>1, SlotsAssumption DEF InputsInv, Shaped
<1>. QED  BY <1>1, <1>2, EventOfIsIt

\* The ids of an entry are its event's number, or missing.
LEMMA IdsAreNumbers ==
  ASSUME InputsInv, LayoutInv, NEW i \in DOMAIN ledger
  PROVE  /\ ledger[i].event \in Nat /\ ledger[i].event # Missing
         /\ ledger[i].kind \in {"EVENT", "DIAGNOSIS", "DECISION", "ACTION", "OUTCOME"}
         /\ ledger[i].decision =
              IF ledger[i].kind \in {"DECISION", "ACTION"} THEN ledger[i].event ELSE Missing
         /\ ledger[i].action = IF ledger[i].kind = "ACTION" THEN ledger[i].event ELSE Missing
<1>1. PICK e \in batch : Shaped(ledger[i], e) /\ e.n \in Nat /\ ledger[i].event = e.n
  BY OneEntry
<1>2. e.n # Missing
  BY <1>1 DEF Missing
<1>. QED  BY <1>1, <1>2 DEF Shaped

\* An entry that has its kind for itself.
Only(log, is, kind, i) ==
  i \in is /\ log[i].kind = kind /\ \A j \in is : log[j].kind = kind => j = i

\* Of a kind that one entry has for itself it is the first.
LEMMA FirstIsOnly ==
  ASSUME NEW log, NEW is, NEW kind, NEW i \in Nat, Only(log, is, kind, i)
  PROVE  HasKind(log, is, kind) /\ FirstOfKind(log, is, kind) = i
<1> DEFINE P(k) == log[k].kind = kind /\ \A j \in is : log[j].kind = kind => k <= j
<1>1. i \in is /\ P(i)
  BY DEF Only
<1>2. FirstOfKind(log, is, kind) = CHOOSE k \in is : P(k)
  BY DEF FirstOfKind
<1>3. \A k \in is : P(k) => k = i
  BY DEF Only
<1> HIDE DEF P
<1>4. FirstOfKind(log, is, kind) = i
  BY <1>1, <1>2, <1>3
<1>. QED  BY <1>4 DEF HasKind, Only

\* build_trace finds what can be found.
LEMMA SliceFinds ==
  ASSUME InputsInv, LedgerInv, LayoutInv, NEW p \in Nat, NEW log, CutAt(log, p), NEW n \in Nat
  PROVE  Slice(log, n) = Found(p, n)
<1> DEFINE own == Mentions(log, n)
           both == WithDecision(log, own)
<1>0. DOMAIN ledger \subseteq Nat /\ Missing \notin Nat
  BY DEF LedgerInv, Missing
<1>1. own = {i \in DOMAIN ledger : ledger[i].event = n /\ i # p}
  BY <1>0 DEF CutAt, Mentions
<1>2. both = Found(p, n)
  <2>1. CASE \E d \in own : log[d].kind = "DECISION"
    <3>1. PICK d \in own : log[d].kind = "DECISION"
      BY <2>1
    <3>2. d \in DOMAIN ledger /\ ledger[d].kind = "DECISION" /\ ledger[d].event = n /\ d # p
      BY <1>1, <3>1 DEF CutAt
    <3>3. Only(log, own, "DECISION", d)
      BY <1>1, <3>1, <3>2 DEF CutAt, LayoutInv, Only
    <3>4. FirstOfKind(log, own, "DECISION") = d
      BY <1>0, <3>2, <3>3, FirstIsOnly
    <3>5. log[d].decision = n
      BY <3>2, IdsAreNumbers DEF CutAt
    <3>6. both = own \cup {i \in DOMAIN ledger : log[i].decision = n}
      BY <1>0, <3>1, <3>4, <3>5 DEF WithDecision, HasKind, CutAt
    <3>7. ASSUME NEW i \in DOMAIN ledger
          PROVE  log[i].decision = n <=> ledger[i].event = n /\ ledger[i].kind \in {"DECISION", "ACTION"}
      BY <1>0, IdsAreNumbers DEF CutAt
    <3>8. ASSUME NEW i \in DOMAIN ledger, ledger[i].event = n, ledger[i].kind = "DECISION" PROVE i # p
      BY <3>2, <3>8 DEF LayoutInv
    <3>9. ASSUME NEW i PROVE i \in both <=> i \in Found(p, n)
      BY <1>1, <3>6, <3>7, <3>8 DEF Found
    <3>. QED  BY <3>9
  <2>2. CASE ~\E d \in own : log[d].kind = "DECISION"
    <3>1. both = own
      BY <2>2 DEF WithDecision, HasKind
    <3>2. ASSUME NEW a \in DOMAIN ledger, ledger[a].kind = "ACTION", ledger[a].event = n PROVE a # p
      <4>1. PICK d \in DOMAIN ledger : d < a /\ ledger[d].kind = "DECISION" /\ ledger[d].event = n
        BY <3>2 DEF LayoutInv
      <4>2. d = p
        BY <1>1, <2>2, <4>1 DEF CutAt
      <4>. QED  BY <1>0, <4>1, <4>2
    <3>. QED  BY <1>1, <3>1, <3>2 DEF Found
  <2>. QED  BY <2>1, <2>2
<1> DEFINE from == IF HasKind(log, own, "ACTION") THEN own ELSE both
<1>3. CASE HasKind(log, both, "ACTION")
  <2>1. PICK a \in both : log[a].kind = "ACTION"
    BY <1>3 DEF HasKind
  <2>2. a \in DOMAIN ledger /\ ledger[a].kind = "ACTION" /\ ledger[a].event = n
    BY <1>2, <2>1 DEF Found, CutAt
  <2>3. \A j \in both : log[j].kind = "ACTION" => a = j
    BY <1>2, <2>2 DEF Found, CutAt, LayoutInv
  <2>4. own \subseteq both
    BY <1>1, <1>2 DEF Found
  <2>5. Only(log, from, "ACTION", a)
    BY <2>1, <2>3, <2>4 DEF HasKind, Only
  <2>7. FirstOfKind(log, from, "ACTION") = a
    BY <1>0, <2>2, <2>5, FirstIsOnly
  <2>8. log[a].action = n
    BY <2>2, IdsAreNumbers DEF CutAt
  <2>9. WithAction(log, own, both) = both \cup {i \in DOMAIN ledger : log[i].action = n}
    BY <1>0, <1>3, <2>7, <2>8 DEF WithAction, CutAt
  <2>10. ASSUME NEW i \in DOMAIN ledger, log[i].action = n PROVE i = a
    <3>1. ledger[i].kind = "ACTION" /\ ledger[i].event = n
      BY <1>0, <2>10, IdsAreNumbers DEF CutAt
    <3>. QED  BY <2>2, <3>1 DEF LayoutInv
  <2>11. WithAction(log, own, both) = both
    BY <2>1, <2>9, <2>10
  <2>. QED  BY <1>2, <2>11 DEF Slice, both, own
<1>4. CASE ~HasKind(log, both, "ACTION")
  <2>1. WithAction(log, own, both) = both
    BY <1>4 DEF WithAction
  <2>. QED  BY <1>2, <2>1 DEF Slice
<1>. QED  BY <1>3, <1>4

\* Claims and Owner of Owners, for a given function of owners.
Claims(log, owner, i, field) ==
  {j \in 1 .. i - 1 : log[i][field] # Missing /\ log[j][field] = log[i][field]
                      /\ owner[j] # Missing}

Claimant(owner, js) == owner[CHOOSE j \in js : \A k \in js : j <= k]

OwnerOf(log, owner, i) ==
  IF log[i].event # Missing THEN log[i].event
  ELSE IF Claims(log, owner, i, "decision") # {} THEN Claimant(owner, Claims(log, owner, i, "decision"))
  ELSE IF Claims(log, owner, i, "action") # {} THEN Claimant(owner, Claims(log, owner, i, "action"))
  ELSE Missing

\* Owners is a function that TraceIndex._load could build.
LEMMA OwnersIsChosen ==
  ASSUME NEW log
  PROVE  Owners(log) = CHOOSE f : f = [i \in DOMAIN log |-> OwnerOf(log, f, i)]
BY DEF Owners, OwnerOf, Claims, Claimant

\* Who owns an entry, as the index finds it.
OwnerFound(p, i) ==
  IF i # p \/ ledger[i].kind = "ACTION" THEN ledger[i].event ELSE Missing

\* The one entry without its event's id is found by its decision's id if it is an action,
\* because the decision stands before it.
LEMMA OwnerIsFound ==
  ASSUME InputsInv, LedgerInv, LayoutInv, NEW p \in Nat, NEW log, CutAt(log, p),
         NEW owner, \A j \in DOMAIN ledger : j # p => owner[j] = ledger[j].event,
         NEW i \in DOMAIN ledger
  PROVE  OwnerOf(log, owner, i) = OwnerFound(p, i)
<1>0. DOMAIN ledger \subseteq Nat \ {0} /\ Missing \notin Nat
      /\ \A j \in DOMAIN ledger : 1 .. j - 1 \subseteq DOMAIN ledger
  BY DEF LedgerInv, Missing
<1>1. CASE i # p
  <2>1. log[i].event = ledger[i].event /\ ledger[i].event # Missing
    BY <1>1, IdsAreNumbers DEF CutAt
  <2>. QED  BY <1>1, <2>1 DEF OwnerOf, OwnerFound
<1>2. CASE i = p
  <2>1. log[i].event = Missing
    BY <1>2 DEF CutAt
  <2>2. \A j \in 1 .. i - 1 : j \in DOMAIN ledger /\ j # p /\ j < i /\ owner[j] = ledger[j].event
                             /\ owner[j] # Missing
    BY <1>0, <1>2, IdsAreNumbers
  <2>3. CASE ledger[i].kind = "ACTION"
    <3> DEFINE n == ledger[i].event
               js == Claims(log, owner, i, "decision")
    <3>1. log[i].decision = n /\ n # Missing
      BY <2>3, IdsAreNumbers DEF CutAt
    <3>2. js = {j \in 1 .. i - 1 : log[j].decision = n}
      BY <2>2, <3>1 DEF Claims
    <3>3. PICK d \in DOMAIN ledger : d < i /\ ledger[d].kind = "DECISION" /\ ledger[d].event = n
      BY <2>3 DEF LayoutInv
    <3>4. d \in js
      <4>1. log[d].decision = n
        BY <3>3, IdsAreNumbers DEF CutAt
      <4>2. d \in 1 .. i - 1
        BY <1>0, <3>3
      <4>. QED  BY <3>2, <4>1, <4>2
    <3>5. \A j \in js : owner[j] = n /\ j \in Nat
      <4> SUFFICES ASSUME NEW j \in js PROVE owner[j] = n /\ j \in Nat
        OBVIOUS
      <4>1. j \in 1 .. i - 1 /\ ledger[j].decision = n
        BY <2>2, <3>2 DEF CutAt
      <4>2. ledger[j].event = n
        BY <2>2, <3>1, <4>1, IdsAreNumbers
      <4>. QED  BY <2>2, <4>1, <4>2
    <3> HIDE DEF js
    <3>6. \E j \in js : \A k \in js : j <= k
      <4>1. js \in SUBSET Nat /\ js # {}
        BY <3>4, <3>5
      <4>. QED  BY <4>1, LeastNumber
    <3>7. Claimant(owner, js) = n
      BY <3>5, <3>6 DEF Claimant
    <3>. QED  BY <1>2, <2>1, <2>3, <3>4, <3>7 DEF OwnerOf, OwnerFound, js
  <2>4. CASE ledger[i].kind # "ACTION"
    <3>1. log[i].action = Missing
      BY <2>4, IdsAreNumbers DEF CutAt
    <3>2. Claims(log, owner, i, "action") = {}
      BY <3>1 DEF Claims
    <3>3. Claims(log, owner, i, "decision") = {}
      <4> SUFFICES ASSUME NEW j \in 1 .. i - 1, log[i].decision # Missing,
                          log[j].decision = log[i].decision
                   PROVE  FALSE
        BY DEF Claims
      <4>1. ledger[i].kind = "DECISION" /\ ledger[i].decision = ledger[i].event
        BY <2>4, IdsAreNumbers DEF CutAt
      <4>2. ledger[j].kind \in {"DECISION", "ACTION"} /\ ledger[j].event = ledger[i].event
        BY <2>2, <4>1, IdsAreNumbers DEF CutAt
      <4>3. CASE ledger[j].kind = "DECISION"
        BY <1>2, <2>2, <4>1, <4>2, <4>3 DEF LayoutInv
      <4>4. CASE ledger[j].kind = "ACTION"
        <5>1. PICK d \in DOMAIN ledger :
                     d < j /\ ledger[d].kind = "DECISION" /\ ledger[d].event = ledger[j].event
          BY <2>2, <4>4 DEF LayoutInv
        <5>2. d = i
          BY <4>1, <4>2, <5>1 DEF LayoutInv
        <5>. QED  BY <1>0, <5>1, <5>2
      <4>. QED  BY <4>2, <4>3, <4>4
    <3>. QED  BY <1>2, <2>1, <2>4, <3>2, <3>3 DEF OwnerOf, OwnerFound
  <2>. QED  BY <2>3, <2>4
<1>. QED  BY <1>1, <1>2

\* The index gives each entry the owner that can be told.
LEMMA OwnersFind ==
  ASSUME InputsInv, LedgerInv, LayoutInv, NEW p \in Nat, NEW log, CutAt(log, p)
  PROVE  Owners(log) = [i \in DOMAIN ledger |-> OwnerFound(p, i)]
<1> DEFINE f == [i \in DOMAIN ledger |-> OwnerFound(p, i)]
           IsOwner(g) == g = [i \in DOMAIN log |-> OwnerOf(log, g, i)]
<1>0. DOMAIN log = DOMAIN ledger
  BY DEF CutAt
<1>1. \A j \in DOMAIN ledger : j # p => f[j] = ledger[j].event
  BY DEF OwnerFound
<1>2. IsOwner(f)
  <2> HIDE DEF f
  <2>1. \A i \in DOMAIN ledger : OwnerOf(log, f, i) = OwnerFound(p, i)
    BY <1>1, OwnerIsFound
  <2>. QED  BY <1>0, <2>1 DEF f
<1>3. ASSUME NEW g, IsOwner(g) PROVE g = f
  <2>1. \A i \in DOMAIN ledger : g[i] = OwnerOf(log, g, i)
    BY <1>0, <1>3
  <2>2. ASSUME NEW j \in DOMAIN ledger, j # p PROVE g[j] = ledger[j].event
    <3>1. log[j].event = ledger[j].event /\ ledger[j].event # Missing
      BY <2>2, IdsAreNumbers DEF CutAt
    <3>. QED  BY <2>1, <3>1 DEF OwnerOf
  <2>3. \A i \in DOMAIN ledger : OwnerOf(log, g, i) = OwnerFound(p, i)
    BY <2>2, OwnerIsFound
  <2>. QED  BY <1>0, <1>3, <2>3
<1>4. Owners(log) = CHOOSE g : IsOwner(g)
  BY OwnersIsChosen
<1> HIDE DEF IsOwner, f
<1>5. Owners(log) = f
  BY <1>2, <1>3, <1>4
<1>. QED  BY <1>5 DEF f

\* What the index finds of an event is what build_trace finds.
LEMMA IndexFinds ==
  ASSUME InputsInv, LedgerInv, LayoutInv, NEW p \in Nat, NEW log, CutAt(log, p), NEW n \in Nat
  PROVE  Indexed(log, n) = Found(p, n)
<1> DEFINE owner == Owners(log)
<1>1. owner = [i \in DOMAIN ledger |-> OwnerFound(p, i)]
  BY OwnersFind
<1>2. \A i \in DOMAIN ledger : OwnerFound(p, i) = n <=> i \in Found(p, n)
  BY DEF OwnerFound, Found, Missing
<1>3. Found(p, n) \subseteq DOMAIN ledger
  BY DEF Found
<1> HIDE DEF owner
<1>4. Indexed(log, n) = {i \in DOMAIN ledger : owner[i] = n}
  BY DEF Indexed, CutAt, owner
<1>5. \A i : i \in Indexed(log, n) <=> i \in Found(p, n)
  BY <1>1, <1>2, <1>3, <1>4
<1>. QED  BY <1>5

\* The trace of an event in the ledger as it was written.
LEMMA OwnTrace ==
  ASSUME InputsInv, LedgerInv, LayoutInv, NEW e \in batch
  PROVE  /\ Slice(ledger, e.n) = Mentions(ledger, e.n)
         /\ \A k : HasKind(ledger, Mentions(ledger, e.n), k) <=> k \in Due(e)
         /\ "DECISION" \in Due(e) =>
              LET d == FirstOfKind(ledger, Mentions(ledger, e.n), "DECISION") IN
                /\ ledger[d].acts = Chosen(e) /\ ledger[d].control = IsControl(e)
                /\ ledger[d].constraints = Constraints(e) /\ ledger[d].rationale = Rationale(e)
<1> DEFINE own == Mentions(ledger, e.n)
<1>0. DOMAIN ledger \subseteq Nat \ {0} /\ e.n \in Nat
  BY SlotsAssumption DEF LedgerInv, InputsInv
<1>1. CutAt(ledger, 0)
  BY <1>0 DEF CutAt
<1>2. Slice(ledger, e.n) = Found(0, e.n)
  BY <1>0, <1>1, SliceFinds
<1>3. own = Found(0, e.n)
  BY <1>0 DEF Mentions, Found
<1>4. \A k : HasKind(ledger, own, k) <=> k \in Due(e)
  <2>1. Kinds(e.n) = Due(e)
    BY DEF LayoutInv
  <2>. QED  BY <2>1 DEF HasKind, Kinds
<1>5. ASSUME "DECISION" \in Due(e)
      PROVE  LET d == FirstOfKind(ledger, own, "DECISION") IN
               /\ ledger[d].acts = Chosen(e) /\ ledger[d].control = IsControl(e)
               /\ ledger[d].constraints = Constraints(e) /\ ledger[d].rationale = Rationale(e)
  <2>1. PICK d \in own : ledger[d].kind = "DECISION"
    BY <1>4, <1>5 DEF HasKind
  <2>2. d \in DOMAIN ledger /\ ledger[d].event = e.n
    BY DEF Mentions
  <2>3. Only(ledger, own, "DECISION", d)
    BY <2>1, <2>2 DEF Only, Mentions, LayoutInv
  <2>4. FirstOfKind(ledger, own, "DECISION") = d
    BY <1>0, <2>2, <2>3, FirstIsOnly
  <2>5. Shaped(ledger[d], e)
    <3>1. PICK f \in batch : Shaped(ledger[d], f)
      BY <2>2 DEF LayoutInv
    <3>2. f = e
      BY <2>2, <3>1, SlotsAssumption DEF InputsInv, Shaped
    <3>. QED  BY <3>1, <3>2
  <2>. QED  BY <2>1, <2>4, <2>5 DEF Shaped
<1>. QED  BY <1>2, <1>3, <1>4, <1>5

\* The traces of the index and of build_trace are the same at every moment of a run, with
\* the event's id lost from any payload; and a finished turn has no gap but that of the
\* action that was not chosen (trace._slice_for, TraceIndex._load and Trace.gaps).
THEOREM TracesAreOne == Spec => []TracesAgree
<1>1. ASSUME IInv, LayoutInv PROVE TracesAgree
  <2>0. InputsInv /\ LedgerInv
    BY <1>1 DEF IInv
  <2>1. ASSUME NEW log \in {ledger} \cup {PartialWrite(i) : i \in DOMAIN ledger}, NEW e \in batch
        PROVE  Slice(log, e.n) = Indexed(log, e.n)
    <3>1. e.n \in Nat
      BY <2>0, SlotsAssumption DEF InputsInv
    <3>2. PICK p \in Nat : CutAt(log, p)
      BY <1>1, <2>0, LogsAreCut
    <3>. QED  BY <1>1, <2>0, <3>1, <3>2, SliceFinds, IndexFinds
  <2>2. ASSUME NEW i \in OfKind("OUTCOME")
        PROVE  LET own == Slice(ledger, ledger[i].event) IN
                 /\ Gaps(ledger, own) \subseteq {"ACTION"}
                 /\ Gaps(ledger, own) = {} <=> ledger[FirstOfKind(ledger, own, "DECISION")].acts
    <3>1. PICK e \in batch : ledger[i].event = e.n
      BY <1>1, <2>0, OneEntry DEF OfKind
    <3>2. Due(e) = Whole(e) \cup {"OUTCOME"}
      BY <3>1 DEF OfKind, Finished, Due
    <3> DEFINE own == Mentions(ledger, e.n)
    <3>3. /\ Slice(ledger, e.n) = own
          /\ \A k : HasKind(ledger, own, k) <=> k \in Due(e)
          /\ ledger[FirstOfKind(ledger, own, "DECISION")].acts = Chosen(e)
      BY <1>1, <2>0, <3>2, OwnTrace DEF Whole
    <3> HIDE DEF own
    <3>4. \A k : k \in Gaps(ledger, own) <=>
                   k \in {"EVENT", "DIAGNOSIS", "DECISION", "ACTION", "OUTCOME"} /\ k \notin Due(e)
      <4>1. DOMAIN STAGES = 1 .. 5
            /\ STAGES[1] = "EVENT" /\ STAGES[2] = "DIAGNOSIS" /\ STAGES[3] = "DECISION"
            /\ STAGES[4] = "ACTION" /\ STAGES[5] = "OUTCOME"
        BY DEF STAGES
      <4>2. \A m \in 1 .. 5 : m = 1 \/ m = 2 \/ m = 3 \/ m = 4 \/ m = 5
        OBVIOUS
      <4>3. \A k : k \in Gaps(ledger, own) <=>
                     \E m \in 1 .. 5 : ~HasKind(ledger, own, STAGES[m]) /\ k = STAGES[m]
        BY <4>1 DEF Gaps
      <4>. QED  BY <3>3, <4>1, <4>2, <4>3
    <3>5. \A k : k \in Gaps(ledger, own) <=> k = "ACTION" /\ ~Chosen(e)
      BY <3>2, <3>4 DEF Whole
    <3>6. Gaps(ledger, own) \subseteq {"ACTION"} /\ (Gaps(ledger, own) = {} <=> Chosen(e))
      BY <3>5
    <3>. QED  BY <3>1, <3>3, <3>6
  <2>. QED  BY <2>1, <2>2 DEF TracesAgree
<1>2. Init => LayoutInv
  BY EmptyLayout DEF Init
<1>. QED  BY <1>1, <1>2, InitIInv, NextIInv, NextLayout, PTL DEF Spec

\* A narrative never contradicts itself, at no moment of a run: what it says of the gate,
\* of the holdout, of the constraints and of the reason goes with what it says was chosen
\* (Trace.narrate on the entries of run_pipeline's loop).
THEOREM NarrativesHold == Spec => []NarrativesAreConsistent
<1>1. ASSUME IInv, LayoutInv PROVE NarrativesAreConsistent
  <2> SUFFICES ASSUME NEW e \in batch
               PROVE  LET says == Narrative(ledger, Slice(ledger, e.n)) IN
                        /\ {"GATE_REFUSED", "GATE_APPROVED"} \cap says # {} => "CHOSE_A_CHANNEL" \in says
                        /\ "IN_THE_HOLDOUT" \in says => "CHOSE_NO_ACTION" \in says
                        /\ "BEST_MOMENT" \in says => "CHOSE_A_CHANNEL" \in says
                        /\ "SELECTED" \in says => {"CHOSE_A_CHANNEL", "BEST_MOMENT"} \subseteq says
                        /\ WhyLeftAlone \cap says # {} =>
                             {"CHOSE_NO_ACTION", "CONSTRAINED"} \subseteq says
                        /\ {"CHOSE_A_CHANNEL", "OUTCOME"} \subseteq says =>
                             Cardinality({"GATE_REFUSED", "GATE_APPROVED"} \cap says) = 1
    BY DEF NarrativesAreConsistent
  <2>0. InputsInv /\ LedgerInv
    BY <1>1 DEF IInv
  <2> DEFINE own == Mentions(ledger, e.n)
             d == FirstOfKind(ledger, own, "DECISION")
             says == Narrative(ledger, own)
  <2>1. /\ Slice(ledger, e.n) = own
        /\ \A k : HasKind(ledger, own, k) <=> k \in Due(e)
        /\ "DECISION" \in Due(e) => /\ ledger[d].acts = Chosen(e) /\ ledger[d].control = IsControl(e)
                                    /\ ledger[d].constraints = Constraints(e)
                                    /\ ledger[d].rationale = Rationale(e)
    BY <1>1, <2>0, OwnTrace
  <2>18. "DECISION" \in Due(e) /\ ~ledger[d].control => ledger[d].rationale \in {"SELECTED"} \cup WhyLeftAlone
    BY <2>1 DEF Rationale, WhyLeftAlone
  <2>2. /\ "CHOSE_A_CHANNEL" \in says <=> "DECISION" \in Due(e) /\ ledger[d].acts
        /\ "CHOSE_NO_ACTION" \in says <=> "DECISION" \in Due(e) /\ ~ledger[d].acts
        /\ "IN_THE_HOLDOUT" \in says <=> "DECISION" \in Due(e) /\ ledger[d].control
        /\ "BEST_MOMENT" \in says <=> /\ "DECISION" \in Due(e) /\ ~ledger[d].control
                                      /\ ledger[d].constraints \ {"RANDOMISED_HOLDOUT"} = {}
        /\ "CONSTRAINED" \in says <=> /\ "DECISION" \in Due(e)
                                      /\ ledger[d].constraints \ {"RANDOMISED_HOLDOUT"} # {}
        /\ \A why \in {"SELECTED"} \cup WhyLeftAlone :
             why \in says <=> "DECISION" \in Due(e) /\ ~ledger[d].control /\ ledger[d].rationale = why
        /\ "GATE_REFUSED" \in says <=> \E j \in own : ledger[j].kind = "ACTION" /\ ledger[j].blocked
        /\ "GATE_APPROVED" \in says <=> \E j \in own : ledger[j].kind = "ACTION" /\ ~ledger[j].blocked
        /\ "OUTCOME" \in says <=> "OUTCOME" \in Due(e)
    <3> HIDE DEF d, own
    <3> DEFINE given == IF HasKind(ledger, own, "DECISION") /\ ~ledger[d].control
                        THEN {ledger[d].rationale} \ {""} ELSE {}
    <3>1. given \subseteq {"SELECTED"} \cup WhyLeftAlone
          /\ \A why \in {"SELECTED"} \cup WhyLeftAlone :
               why \in given <=> "DECISION" \in Due(e) /\ ~ledger[d].control /\ ledger[d].rationale = why
      BY <2>1, <2>18 DEF WhyLeftAlone
    <3>2. \A w : w \in says <=>
            \/ w = "PAYMENT_FAILED" /\ "EVENT" \in Due(e)
            \/ w = "CLASSIFIED" /\ "DIAGNOSIS" \in Due(e)
            \/ w = "CHOSE_A_CHANNEL" /\ "DECISION" \in Due(e) /\ ledger[d].acts
            \/ w = "CHOSE_NO_ACTION" /\ "DECISION" \in Due(e) /\ ~ledger[d].acts
            \/ w = "IN_THE_HOLDOUT" /\ "DECISION" \in Due(e) /\ ledger[d].control
            \/ w = "CONSTRAINED" /\ "DECISION" \in Due(e)
               /\ ledger[d].constraints \ {"RANDOMISED_HOLDOUT"} # {}
            \/ w = "BEST_MOMENT" /\ "DECISION" \in Due(e) /\ ~ledger[d].control
               /\ ledger[d].constraints \ {"RANDOMISED_HOLDOUT"} = {}
            \/ w \in given
            \/ w = "GATE_REFUSED" /\ \E j \in own : ledger[j].kind = "ACTION" /\ ledger[j].blocked
            \/ w = "GATE_APPROVED" /\ \E j \in own : ledger[j].kind = "ACTION" /\ ~ledger[j].blocked
            \/ w = "OUTCOME" /\ "OUTCOME" \in Due(e)
      <4> DEFINE actions == {ledger[i] : i \in {j \in own : ledger[j].kind = "ACTION"}}
      <4>1. says =
              {x \in {"PAYMENT_FAILED"} : HasKind(ledger, own, "EVENT")}
              \cup {x \in {"CLASSIFIED"} : HasKind(ledger, own, "DIAGNOSIS")}
              \cup {x \in {"CHOSE_A_CHANNEL"} : HasKind(ledger, own, "DECISION") /\ ledger[d].acts}
              \cup {x \in {"CHOSE_NO_ACTION"} : HasKind(ledger, own, "DECISION") /\ ~ledger[d].acts}
              \cup {x \in {"IN_THE_HOLDOUT"} : HasKind(ledger, own, "DECISION") /\ ledger[d].control}
              \cup {x \in {"CONSTRAINED"} : HasKind(ledger, own, "DECISION")
                                           /\ ledger[d].constraints \ {"RANDOMISED_HOLDOUT"} # {}}
              \cup {x \in {"BEST_MOMENT"} : HasKind(ledger, own, "DECISION")
                                           /\ ledger[d].constraints \ {"RANDOMISED_HOLDOUT"} = {}
                                           /\ ~ledger[d].control}
              \cup given
              \cup {x \in {"GATE_REFUSED"} : \E a \in actions : a.blocked}
              \cup {x \in {"GATE_APPROVED"} : \E a \in actions : ~a.blocked}
              \cup {x \in {"OUTCOME"} : HasKind(ledger, own, "OUTCOME")}
        BY DEF Narrative, d
      <4>2. \A x : x \in actions <=> \E j \in own : ledger[j].kind = "ACTION" /\ x = ledger[j]
        OBVIOUS
      <4> HIDE DEF given, own, d, actions, says
      <4>. QED  BY <2>1, <4>1, <4>2
    <3> HIDE DEF given, says
    <3>. QED  BY <3>1, <3>2 DEF WhyLeftAlone
  <2>3. "ACTION" \in Due(e) <=> \E j \in own : ledger[j].kind = "ACTION"
    BY <2>1 DEF HasKind
  <2>4. "ACTION" \in Due(e) => "DECISION" \in Due(e) /\ Chosen(e)
    BY DEF Due, Whole, Turn
  <2>5. "OUTCOME" \in Due(e) /\ Chosen(e) => "ACTION" \in Due(e)
    BY DEF Due, Whole, Turn
  <2>6. \A j \in own : ledger[j].blocked \in BOOLEAN
    BY <1>1 DEF LayoutInv, Shaped, Mentions
  <2>7. \A j, k \in own : ledger[j].kind = "ACTION" /\ ledger[k].kind = "ACTION" => j = k
    BY <1>1 DEF LayoutInv, Mentions
  <2>8. IsControl(e) => ~Chosen(e)
    BY DEF Chosen
  <2>9. ~IsControl(e) /\ Constraints(e) \ {"RANDOMISED_HOLDOUT"} = {} => Chosen(e)
    BY DEF Chosen, Constraints
  <2> HIDE DEF says, own, d
  <2>10. ASSUME {"CHOSE_A_CHANNEL", "OUTCOME"} \subseteq says
         PROVE  Cardinality({"GATE_REFUSED", "GATE_APPROVED"} \cap says) = 1
    <3>1. PICK j \in own : ledger[j].kind = "ACTION"
      BY <2>1, <2>2, <2>3, <2>5, <2>10
    <3>2. CASE ledger[j].blocked
      <4>1. {"GATE_REFUSED", "GATE_APPROVED"} \cap says = {"GATE_REFUSED"}
        BY <2>2, <2>7, <3>1, <3>2
      <4>. QED  BY <4>1, FS_Singleton
    <3>3. CASE ~ledger[j].blocked
      <4>1. {"GATE_REFUSED", "GATE_APPROVED"} \cap says = {"GATE_APPROVED"}
        BY <2>2, <2>7, <3>1, <3>3
      <4>. QED  BY <4>1, FS_Singleton
    <3>. QED  BY <3>2, <3>3
  <2>11. {"GATE_REFUSED", "GATE_APPROVED"} \cap says # {} => "CHOSE_A_CHANNEL" \in says
    BY <2>1, <2>2, <2>3, <2>4
  <2>12. "IN_THE_HOLDOUT" \in says => "CHOSE_NO_ACTION" \in says
    BY <2>1, <2>2, <2>8
  <2>13. "BEST_MOMENT" \in says => "CHOSE_A_CHANNEL" \in says
    BY <2>1, <2>2, <2>9
  <2>14. Rationale(e) = "SELECTED" /\ ~IsControl(e) =>
           Chosen(e) /\ Constraints(e) \ {"RANDOMISED_HOLDOUT"} = {}
    BY DEF Rationale, Constraints, Chosen
  <2>15. Rationale(e) \in WhyLeftAlone /\ ~IsControl(e) =>
           ~Chosen(e) /\ Constraints(e) \ {"RANDOMISED_HOLDOUT"} # {}
    BY <2>9 DEF Rationale, WhyLeftAlone, Chosen
  <2>16. "SELECTED" \in says => {"CHOSE_A_CHANNEL", "BEST_MOMENT"} \subseteq says
    BY <2>1, <2>2, <2>14
  <2>17. WhyLeftAlone \cap says # {} => {"CHOSE_NO_ACTION", "CONSTRAINED"} \subseteq says
    BY <2>1, <2>2, <2>15
  <2>. QED  BY <2>1, <2>10, <2>11, <2>12, <2>13, <2>16, <2>17 DEF says
<1>2. Init => LayoutInv
  BY EmptyLayout DEF Init
<1>. QED  BY <1>1, <1>2, InitIInv, NextIInv, NextLayout, PTL DEF Spec

\* The decision that a replay is given for an event of a log: the recorded one.
Recorded(log, event) ==
  IF event \in DOMAIN Traces(log) THEN DecisionOf(log, Traces(log)[event]) ELSE Missing

\* The null replay, without the parameter.
LEMMA NullReplayIs ==
  ASSUME NEW log
  PROVE  LET traces == Traces(log)
             replayed == {e \in DOMAIN traces : Replayable(log, traces[e])}
         IN  /\ NullReplay(log).replayed = replayed
             /\ NullReplay(log).diverged =
                  {e \in replayed :
                     Comparable(log, DecisionOf(log, traces[e]))
                       # Comparable(log, Recorded(log, log[FirstOfKind(log, traces[e], "EVENT")].event))}
BY DEF NullReplay, Replay, Recorded

\* The traces of a log are what can be found in it, for each event of which there is
\* anything.
LEMMA TracesFind ==
  ASSUME InputsInv, LedgerInv, LayoutInv, NEW p \in Nat, NEW log, CutAt(log, p)
  PROVE  /\ \A n : n \in DOMAIN Traces(log) <=> n \in Nat /\ Found(p, n) # {}
         /\ \A n \in DOMAIN Traces(log) : Traces(log)[n] = Found(p, n)
<1> DEFINE owner == Owners(log)
           events == {owner[i] : i \in DOMAIN ledger} \ {Missing}
<1>1. owner = [i \in DOMAIN ledger |-> OwnerFound(p, i)]
  BY OwnersFind
<1> HIDE DEF owner
<1>2. \A i \in DOMAIN ledger, n \in Nat : owner[i] = n <=> i \in Found(p, n)
  BY <1>1 DEF OwnerFound, Found, Missing
<1>3. \A i \in DOMAIN ledger : owner[i] # Missing => owner[i] \in Nat
  BY <1>1, IdsAreNumbers DEF OwnerFound
<1>4. Missing \notin Nat /\ \A n : Found(p, n) \subseteq DOMAIN ledger
  BY DEF Missing, Found
<1>5. \A n : n \in events <=> n \in Nat /\ Found(p, n) # {}
  BY <1>2, <1>3, <1>4
<1>6. \A n \in events : {i \in DOMAIN ledger : owner[i] = n} = Found(p, n)
  BY <1>2, <1>4, <1>5
<1>7. Traces(log) = [n \in events |-> {i \in DOMAIN ledger : owner[i] = n}]
  BY DEF Traces, CutAt, owner
<1> HIDE DEF events
<1>. QED  BY <1>5, <1>6, <1>7

\* What is found of an event in a kind that is not an action names the event, and is the
\* only one.
LEMMA FoundNames ==
  ASSUME InputsInv, LedgerInv, LayoutInv, NEW p \in Nat, NEW log, CutAt(log, p), NEW n \in Nat,
         NEW kind \in {"EVENT", "DECISION"}, NEW i \in Found(p, n), log[i].kind = kind
  PROVE  /\ i \in DOMAIN ledger /\ i \in Nat /\ i # p
         /\ ledger[i].kind = kind /\ ledger[i].event = n /\ log[i].event = n
         /\ Only(log, Found(p, n), kind, i)
<1>1. i \in DOMAIN ledger /\ i \in Nat /\ ledger[i].kind = kind /\ ledger[i].event = n /\ i # p
  BY DEF Found, CutAt, LedgerInv
<1>2. log[i].event = n
  BY <1>1 DEF CutAt
<1>3. Only(log, Found(p, n), kind, i)
  BY <1>1 DEF Only, Found, CutAt, LayoutInv
<1>. QED  BY <1>1, <1>2, <1>3

\* A decision that a trace can reach is one of an event that is found, and the other way.
LEMMA ReachedDecisions ==
  ASSUME InputsInv, LedgerInv, LayoutInv, NEW p \in Nat, NEW log, CutAt(log, p)
  PROVE  Cardinality({n \in DOMAIN Traces(log) : Replayable(log, Traces(log)[n])}) =
           Cardinality({i \in DOMAIN log : log[i].kind = "DECISION"
                          /\ \E j \in DOMAIN log : log[j].kind = "EVENT" /\ log[j].event = log[i].event})
<1> DEFINE S == {i \in DOMAIN log : log[i].kind = "DECISION"
                   /\ \E j \in DOMAIN log : log[j].kind = "EVENT" /\ log[j].event = log[i].event}
           T == {n \in DOMAIN Traces(log) : Replayable(log, Traces(log)[n])}
           f == [i \in S |-> log[i].event]
<1>0. DOMAIN log = DOMAIN ledger /\ DOMAIN ledger \subseteq Nat \ {0} /\ Missing \notin Nat
  BY DEF CutAt, LedgerInv, Missing
<1>1. ASSUME NEW n
      PROVE  n \in T <=> /\ n \in Nat
                         /\ \E i \in Found(p, n) : log[i].kind = "EVENT"
                         /\ \E i \in Found(p, n) : log[i].kind = "DECISION"
  <2>1. n \in T <=> n \in Nat /\ Found(p, n) # {} /\ Replayable(log, Found(p, n))
    BY TracesFind
  <2>. QED  BY <2>1 DEF Replayable, HasKind
<1>2. ASSUME NEW i \in S
      PROVE  log[i].event \in T /\ i \in Found(p, log[i].event)
  <2>1. PICK j \in DOMAIN ledger : log[j].kind = "EVENT" /\ log[j].event = log[i].event
    BY <1>0
  <2>2. i \in DOMAIN ledger /\ ledger[i].kind = "DECISION" /\ ledger[j].kind = "EVENT"
    BY <1>0, <2>1 DEF CutAt
  <2>3. i # p /\ j # p
    <3>1. i # j
      BY <2>2
    <3>2. \A k \in DOMAIN ledger : log[k].event = Missing <=> k = p
      BY <1>0, IdsAreNumbers DEF CutAt
    <3>. QED  BY <2>1, <2>2, <3>1, <3>2
  <2>4. log[i].event = ledger[i].event /\ log[j].event = ledger[j].event /\ ledger[i].event \in Nat
    BY <2>2, <2>3, IdsAreNumbers DEF CutAt
  <2>5. i \in Found(p, log[i].event) /\ j \in Found(p, log[i].event)
    BY <2>1, <2>2, <2>3, <2>4 DEF Found
  <2> HIDE DEF S, T
  <2>6. log[i].kind = "DECISION" /\ log[i].event \in Nat
    BY <2>2, <2>4 DEF CutAt
  <2>. QED  BY <1>1, <2>1, <2>5, <2>6
<1>3. ASSUME NEW n \in T PROVE \E i \in S : log[i].event = n
  <2>1. PICK i \in Found(p, n), j \in Found(p, n) :
               n \in Nat /\ log[i].kind = "DECISION" /\ log[j].kind = "EVENT"
    BY <1>1
  <2>2. i \in DOMAIN ledger /\ log[i].event = n
    BY <2>1, FoundNames
  <2>3. j \in DOMAIN ledger /\ log[j].event = n
    BY <2>1, FoundNames
  <2>. QED  BY <1>0, <2>1, <2>2, <2>3
<1>4. ASSUME NEW i \in S, NEW j \in S, log[i].event = log[j].event PROVE i = j
  <2>1. i \in Found(p, log[i].event) /\ j \in Found(p, log[i].event) /\ log[i].event \in Nat
    BY <1>1, <1>2, <1>4
  <2>2. log[i].kind = "DECISION" /\ log[j].kind = "DECISION"
    OBVIOUS
  <2> HIDE DEF S, T
  <2>3. Only(log, Found(p, log[i].event), "DECISION", i)
    BY <2>1, <2>2, FoundNames
  <2>. QED  BY <2>1, <2>2, <2>3 DEF Only
<1> HIDE DEF S, T
<1>5. f \in Bijection(S, T)
  <2>1. f \in [S -> T]
    BY <1>2
  <2>2. f \in Injection(S, T)
    BY <1>4, <2>1 DEF Injection, IsInjective
  <2>3. f \in Surjection(S, T)
    BY <1>3, <2>1 DEF Surjection
  <2>. QED  BY <2>2, <2>3 DEF Bijection
<1>6. IsFiniteSet(S)
  <2>1. DOMAIN ledger = 1 .. Len(ledger) /\ Len(ledger) \in Nat
    BY DEF LedgerInv
  <2>2. IsFiniteSet(1 .. Len(ledger))
    BY <2>1, FS_Interval
  <2>3. S \subseteq 1 .. Len(ledger)
    BY <1>0, <2>1 DEF S
  <2>. QED  BY <2>2, <2>3, FS_Subset
<1>7. ExistsBijection(S, T)
  BY <1>5 DEF ExistsBijection
<1>8. Cardinality(T) = Cardinality(S)
  BY <1>6, <1>7, FS_Bijection
<1>. QED  BY <1>8 DEF S, T

\* Feeding every decision back as its own answer is perfect agreement, on the ledger of a
\* run at any moment of it and with the event's id lost from any payload; and what is
\* compared are the decisions that a trace can reach, each of them once
\* (replay.replay_is_self_consistent, which run_batch insists on).
THEOREM NullReplayIsPerfect == Spec => []NullReplayAgrees
<1>1. ASSUME IInv, LayoutInv PROVE NullReplayAgrees
  <2>0. InputsInv /\ LedgerInv
    BY <1>1 DEF IInv
  <2> SUFFICES ASSUME NEW log \in {ledger} \cup {PartialWrite(i) : i \in DOMAIN ledger}
               PROVE  /\ NullReplay(log).diverged = {}
                      /\ Cardinality(NullReplay(log).replayed) =
                           Cardinality({i \in DOMAIN log : log[i].kind = "DECISION"
                             /\ \E j \in DOMAIN log : log[j].kind = "EVENT" /\ log[j].event = log[i].event})
    BY DEF NullReplayAgrees
  <2>1. PICK p \in Nat : CutAt(log, p)
    BY <1>1, <2>0, LogsAreCut
  <2> DEFINE traces == Traces(log)
             replayed == {n \in DOMAIN traces : Replayable(log, traces[n])}
  <2>2. ASSUME NEW n \in replayed
        PROVE  Recorded(log, log[FirstOfKind(log, traces[n], "EVENT")].event)
                 = DecisionOf(log, traces[n])
    <3>1. n \in Nat /\ n \in DOMAIN traces /\ traces[n] = Found(p, n)
      BY <1>1, <2>0, <2>1, TracesFind
    <3>2. PICK i \in Found(p, n) : log[i].kind = "EVENT"
      BY <3>1 DEF Replayable, HasKind
    <3>3. i \in Nat /\ log[i].event = n /\ Only(log, Found(p, n), "EVENT", i)
      BY <1>1, <2>0, <2>1, <3>1, <3>2, FoundNames
    <3>4. FirstOfKind(log, traces[n], "EVENT") = i
      BY <3>1, <3>3, FirstIsOnly
    <3>. QED  BY <3>1, <3>3, <3>4 DEF Recorded
  <2>3. /\ NullReplay(log).replayed = replayed
        /\ NullReplay(log).diverged =
             {n \in replayed :
                Comparable(log, DecisionOf(log, traces[n]))
                  # Comparable(log, Recorded(log, log[FirstOfKind(log, traces[n], "EVENT")].event))}
    BY NullReplayIs
  <2>4. Cardinality(replayed) =
          Cardinality({i \in DOMAIN log : log[i].kind = "DECISION"
            /\ \E j \in DOMAIN log : log[j].kind = "EVENT" /\ log[j].event = log[i].event})
    BY <1>1, <2>0, <2>1, ReachedDecisions
  <2> HIDE DEF replayed, traces
  <2>. QED  BY <2>2, <2>3, <2>4
<1>2. Init => LayoutInv
  BY EmptyLayout DEF Init
<1>. QED  BY <1>1, <1>2, InitIInv, NextIInv, NextLayout, PTL DEF Spec

-----------------------------------------------------------------------------
(* Sums over sets, as Net takes them from the community modules: an element *)
(* is chosen, and the sum of the others is added to its value.              *)

Picked(s) == CHOOSE x \in s : TRUE

\* A function that gives each subset its sum.
IsNet(f, S, v) ==
  f = [s \in SUBSET S |-> IF s = {} THEN 0 ELSE v[Picked(s)] + f[s \ {Picked(s)}]]

NetOn(S, v) == CHOOSE f : IsNet(f, S, v)

\* Net, without the operators of the community modules.
LEMMA NetIs ==
  ASSUME NEW S, NEW v
  PROVE  Net(S, v) = NetOn(S, v)[S]
BY DEF Net, MapThenSumSet, MapThenFoldSet, NetOn, IsNet, Picked

\* A set with a member has the one that is picked.
LEMMA PickedIsMember ==
  ASSUME NEW s, s # {}
  PROVE  Picked(s) \in s
BY DEF Picked

\* Among subsets of a finite set one has no other below it.
LEMMA LeastSet ==
  ASSUME NEW S, IsFiniteSet(S), NEW C \in SUBSET (SUBSET S), C # {}
  PROVE  \E T \in C : \A U \in C : U \subseteq T => U = T
<1> DEFINE sizes == {Cardinality(T) : T \in C}
<1>1. \A T \in C : IsFiniteSet(T) /\ Cardinality(T) \in Nat
  <2> SUFFICES ASSUME NEW T \in C PROVE IsFiniteSet(T) /\ Cardinality(T) \in Nat
    OBVIOUS
  <2>1. IsFiniteSet(T)
    BY FS_Subset
  <2>. QED  BY <2>1, FS_CardinalityType
<1>2. sizes \in SUBSET Nat /\ sizes # {}
  BY <1>1
<1> HIDE DEF sizes
<1>3. PICK m \in sizes : \A n \in sizes : m <= n
  BY <1>2, LeastNumber
<1> USE DEF sizes
<1>4. PICK T \in C : Cardinality(T) = m
  BY <1>3
<1>5. ASSUME NEW U \in C, U \subseteq T PROVE U = T
  <2>1. Cardinality(U) <= Cardinality(T) /\ (Cardinality(T) = Cardinality(U) => T = U)
    BY <1>1, <1>5, FS_Subset
  <2>2. Cardinality(T) <= Cardinality(U)
    BY <1>3, <1>4
  <2>3. Cardinality(T) = Cardinality(U)
    BY <1>1, <2>1, <2>2
  <2>. QED  BY <2>1, <2>3
<1>. QED  BY <1>5

\* Two such functions agree on what both are for.
LEMMA NetsAgree ==
  ASSUME NEW S, NEW T, IsFiniteSet(T), T \subseteq S, NEW v,
         NEW f, IsNet(f, S, v), NEW g, IsNet(g, T, v)
  PROVE  f[T] = g[T]
<1> DEFINE Bad == {s \in SUBSET T : f[s] # g[s]}
<1>1. ASSUME Bad # {} PROVE FALSE
  <2>1. PICK s \in Bad : \A u \in Bad : u \subseteq s => u = s
    <3>1. Bad \in SUBSET (SUBSET T)
      OBVIOUS
    <3> HIDE DEF Bad
    <3>. QED  BY <1>1, <3>1, LeastSet
  <2>2. s \subseteq T /\ s \subseteq S
    OBVIOUS
  <2>3. f[s] = IF s = {} THEN 0 ELSE v[Picked(s)] + f[s \ {Picked(s)}]
    BY <2>2 DEF IsNet
  <2>4. g[s] = IF s = {} THEN 0 ELSE v[Picked(s)] + g[s \ {Picked(s)}]
    BY <2>2 DEF IsNet
  <2>5. s # {}
    BY <2>3, <2>4
  <2>6. s \ {Picked(s)} \notin Bad
    BY <2>1, <2>5, PickedIsMember
  <2>7. f[s \ {Picked(s)}] = g[s \ {Picked(s)}]
    BY <2>2, <2>6
  <2>. QED  BY <2>3, <2>4, <2>7
<1>. QED  BY <1>1

\* There is such a function, and it unfolds.
LEMMA NetOnIsNet ==
  ASSUME NEW S, IsFiniteSet(S), NEW v
  PROVE  IsNet(NetOn(S, v), S, v)
<1> DEFINE Bad == {T \in SUBSET S : ~IsNet(NetOn(T, v), T, v)}
<1>1. ASSUME Bad # {} PROVE FALSE
  <2>1. PICK T \in Bad : \A U \in Bad : U \subseteq T => U = T
    <3>1. Bad \in SUBSET (SUBSET S)
      OBVIOUS
    <3> HIDE DEF Bad
    <3>. QED  BY <1>1, <3>1, LeastSet
  <2>2. IsFiniteSet(T) /\ T \subseteq S
    BY FS_Subset
  <2>3. \A U \in SUBSET T : U # T => IsNet(NetOn(U, v), U, v) /\ IsFiniteSet(U)
    <3>1. \A U \in SUBSET T : IsFiniteSet(U)
      BY <2>2, FS_Subset
    <3>. QED  BY <2>1, <2>2, <3>1
  <2> DEFINE Of(s) == IF s = {} THEN 0 ELSE v[Picked(s)] + NetOn(s \ {Picked(s)}, v)[s \ {Picked(s)}]
             f == [s \in SUBSET T |-> Of(s)]
  <2>4. ASSUME NEW s \in SUBSET T, s # T PROVE NetOn(s, v)[s] = Of(s)
    <3>1. IsNet(NetOn(s, v), s, v)
      BY <2>3, <2>4
    <3>2. NetOn(s, v)[s] = IF s = {} THEN 0 ELSE v[Picked(s)] + NetOn(s, v)[s \ {Picked(s)}]
      BY <3>1 DEF IsNet
    <3>3. CASE s # {}
      <4> DEFINE u == s \ {Picked(s)}
      <4>1. u \subseteq s /\ u \in SUBSET T /\ u # T /\ IsFiniteSet(u) /\ IsNet(NetOn(u, v), u, v)
        BY <2>3, <2>4, <3>3, PickedIsMember
      <4> HIDE DEF u
      <4>2. NetOn(s, v)[u] = NetOn(u, v)[u]
        BY <3>1, <4>1, NetsAgree
      <4>. QED  BY <3>2, <3>3, <4>2 DEF u
    <3>. QED  BY <3>2, <3>3
  <2>5. IsNet(f, T, v)
    <3>1. ASSUME NEW s \in SUBSET T, s # {} PROVE f[s \ {Picked(s)}] = NetOn(s \ {Picked(s)}, v)[s \ {Picked(s)}]
      <4> DEFINE u == s \ {Picked(s)}
      <4>1. u \in SUBSET T /\ u # T
        BY <3>1, PickedIsMember
      <4> HIDE DEF u, Of
      <4>2. f[u] = NetOn(u, v)[u]
        BY <2>4, <4>1
      <4>. QED  BY <4>2 DEF u
    <3>2. \A s \in SUBSET T : Of(s) = IF s = {} THEN 0 ELSE v[Picked(s)] + f[s \ {Picked(s)}]
      BY <3>1
    <3> HIDE DEF Of
    <3>3. f = [s \in SUBSET T |-> IF s = {} THEN 0 ELSE v[Picked(s)] + f[s \ {Picked(s)}]]
      BY <3>2
    <3> HIDE DEF f
    <3>. QED  BY <3>3 DEF IsNet
  <2> HIDE DEF f
  <2>6. IsNet(NetOn(T, v), T, v)
    BY <2>5 DEF NetOn
  <2>. QED  BY <2>1, <2>6
<1>. QED  BY <1>1

\* A sum is the value of one element and the sum of the others.
LEMMA NetUnfolds ==
  ASSUME NEW S, IsFiniteSet(S), NEW v
  PROVE  Net(S, v) = IF S = {} THEN 0 ELSE v[Picked(S)] + Net(S \ {Picked(S)}, v)
<1> DEFINE u == S \ {Picked(S)}
<1>1. IsNet(NetOn(S, v), S, v)
  BY NetOnIsNet
<1>2. Net(S, v) = NetOn(S, v)[S] /\ Net(u, v) = NetOn(u, v)[u]
  BY NetIs
<1>3. NetOn(S, v)[S] = IF S = {} THEN 0 ELSE v[Picked(S)] + NetOn(S, v)[u]
  BY <1>1 DEF IsNet
<1>4. IsFiniteSet(u) /\ u \subseteq S
  BY FS_Subset
<1> HIDE DEF u
<1>5. IsNet(NetOn(u, v), u, v)
  BY <1>4, NetOnIsNet
<1>6. NetOn(S, v)[u] = NetOn(u, v)[u]
  BY <1>1, <1>4, <1>5, NetsAgree
<1>. QED  BY <1>2, <1>3, <1>6 DEF u

\* The element may be any.
LEMMA NetWithout ==
  ASSUME NEW S, IsFiniteSet(S), NEW v, \A c \in S : v[c] \in Int, NEW x \in S
  PROVE  Net(S \ {x}, v) \in Int /\ Net(S, v) = v[x] + Net(S \ {x}, v)
<1> DEFINE Good(T) == Net(T, v) \in Int /\ \A y \in T : Net(T, v) = v[y] + Net(T \ {y}, v)
           Bad == {T \in SUBSET S : ~Good(T)}
<1>1. ASSUME Bad # {} PROVE FALSE
  <2>1. PICK T \in Bad : \A U \in Bad : U \subseteq T => U = T
    <3>1. Bad \in SUBSET (SUBSET S)
      OBVIOUS
    <3> HIDE DEF Bad
    <3>. QED  BY <1>1, <3>1, LeastSet
  <2>2. T \subseteq S /\ IsFiniteSet(T)
    BY FS_Subset
  <2> DEFINE p == Picked(T)
  <2>3. Net(T, v) = IF T = {} THEN 0 ELSE v[p] + Net(T \ {p}, v)
    BY <2>2, NetUnfolds
  <2>4. ASSUME NEW U \in SUBSET T, U # T PROVE Good(U)
    <3> HIDE DEF Good
    <3>. QED  BY <2>1, <2>2, <2>4
  <2>5. CASE T = {}
    <3>1. Good(T)
      BY <2>3, <2>5
    <3>. QED  BY <2>1, <3>1
  <2>6. CASE T # {}
    <3>1. p \in T /\ v[p] \in Int
      BY <2>2, <2>6, PickedIsMember
    <3> HIDE DEF p
    <3>2. Good(T \ {p})
      BY <2>4, <3>1
    <3>3. Net(T, v) \in Int
      BY <2>3, <2>6, <3>1, <3>2
    <3>4. ASSUME NEW y \in T PROVE Net(T, v) = v[y] + Net(T \ {y}, v)
      <4>1. CASE y = p
        BY <2>3, <2>6, <4>1
      <4>2. CASE y # p
        <5>1. Good(T \ {y})
          BY <2>4
        <5>2. p \in T \ {y} /\ y \in T \ {p}
          BY <3>1, <4>2
        <5> DEFINE w == (T \ {y}) \ {p}
                   n == Net(w, v)
        <5>3. Net(T \ {y}, v) = v[p] + n
          BY <5>1, <5>2
        <5>4. Net(T \ {p}, v) = v[y] + n
          <6>1. Net(T \ {p}, v) = v[y] + Net((T \ {p}) \ {y}, v)
            BY <3>2, <5>2
          <6>2. (T \ {p}) \ {y} = w
            OBVIOUS
          <6> HIDE DEF w
          <6>. QED  BY <6>1, <6>2
        <5>5. n \in Int
          <6>1. w \in SUBSET T /\ w # T
            OBVIOUS
          <6> HIDE DEF w
          <6>2. Good(w)
            BY <2>4, <6>1
          <6>. QED  BY <6>2
        <5>6. v[y] \in Int
          BY <2>2
        <5> HIDE DEF n
        <5>7. Net(T, v) = v[p] + Net(T \ {p}, v)
          BY <2>3, <2>6
        <5>. QED  BY <3>1, <5>3, <5>4, <5>5, <5>6, <5>7
      <4>. QED  BY <4>1, <4>2
    <3>5. Good(T)
      BY <3>3, <3>4
    <3> HIDE DEF Good
    <3>. QED  BY <2>1, <3>5
  <2>. QED  BY <2>5, <2>6
<1>2. Good(S) /\ Good(S \ {x})
  BY <1>1
<1>. QED  BY <1>2

\* A sum of integers is an integer.
LEMMA NetIsInteger ==
  ASSUME NEW S, IsFiniteSet(S), NEW v, \A c \in S : v[c] \in Int
  PROVE  Net(S, v) \in Int
<1>1. CASE S = {}
  BY <1>1, NetUnfolds
<1>2. CASE S # {}
  <2>1. PICK x : x \in S
    BY <1>2
  <2>2. Net(S \ {x}, v) \in Int /\ Net(S, v) = v[x] + Net(S \ {x}, v)
    BY <2>1, NetWithout
  <2>. QED  BY <2>1, <2>2
<1>. QED  BY <1>1, <1>2

-----------------------------------------------------------------------------
(* The best selections under a capacity.                                    *)

\* Among finitely many selections one is worth most.
LEMMA Greatest ==
  ASSUME NEW W, IsFiniteSet(W), W # {}, NEW v, \A s \in W : Net(s, v) \in Int
  PROVE  \E s \in W : \A u \in W : Net(s, v) >= Net(u, v)
<1> DEFINE Above(s) == {u \in W : Net(u, v) >= Net(s, v)}
           C == {Above(s) : s \in W}
<1>1. C \in SUBSET (SUBSET W) /\ C # {}
  OBVIOUS
<1> HIDE DEF C
<1>2. PICK T \in C : \A U \in C : U \subseteq T => U = T
  BY <1>1, LeastSet
<1> USE DEF C
<1>3. PICK s \in W : T = Above(s)
  OBVIOUS
<1>4. ASSUME NEW u \in W, ~(Net(s, v) >= Net(u, v)) PROVE FALSE
  <2>1. Above(u) \subseteq Above(s)
    <3> SUFFICES ASSUME NEW w \in Above(u) PROVE Net(w, v) >= Net(s, v)
      OBVIOUS
    <3>1. Net(w, v) \in Int /\ Net(u, v) \in Int /\ Net(s, v) \in Int /\ Net(w, v) >= Net(u, v)
      OBVIOUS
    <3>. QED  BY <1>4, <3>1
  <2>2. Above(u) \in C
    OBVIOUS
  <2>3. Above(u) = Above(s)
    BY <1>2, <1>3, <2>1, <2>2
  <2>4. Net(s, v) \in Int
    OBVIOUS
  <2>5. s \in Above(s) /\ s \notin Above(u)
    BY <1>4, <2>4
  <2>. QED  BY <2>3, <2>5
<1>. QED  BY <1>4

\* What the program selects fits, and nothing that fits is worth more.
LEMMA BestIsBest ==
  ASSUME NEW cs, IsFiniteSet(cs), NEW rows, NEW v, \A c \in cs : v[c] \in Int,
         NEW s \in Optimal(cs, rows, v)
  PROVE  /\ s \in SUBSET cs /\ Fits(rows, s)
         /\ \A u \in SUBSET cs : Fits(rows, u) => Net(s, v) >= Net(u, v)
<1> DEFINE within == {u \in SUBSET cs : Fits(rows, u)}
           nets == {Net(u, v) : u \in within}
<1>1. s \in within /\ Net(s, v) = Max(nets)
  BY DEF Optimal
<1>2. IsFiniteSet(within)
  <2>1. IsFiniteSet(SUBSET cs)
    BY FS_SUBSET
  <2>. QED  BY <2>1, FS_Subset
<1>3. \A u \in within : Net(u, v) \in Int
  <2> SUFFICES ASSUME NEW u \in SUBSET cs PROVE Net(u, v) \in Int
    OBVIOUS
  <2>1. IsFiniteSet(u)
    BY FS_Subset
  <2>. QED  BY <2>1, NetIsInteger
<1> HIDE DEF within
<1>4. \E u \in within : \A w \in within : Net(u, v) >= Net(w, v)
  BY <1>1, <1>2, <1>3, Greatest
<1>5. \E m \in nets : \A n \in nets : m >= n
  BY <1>4
<1>6. \A n \in nets : Max(nets) >= n
  BY <1>5 DEF Max
<1>7. \A u \in within : Net(s, v) >= Net(u, v)
  BY <1>1, <1>6
<1>. QED  BY <1>1, <1>7 DEF within

\* A selection of the candidates fits the row of the capacity when it is no larger.
LEMMA FitsCapacity ==
  ASSUME NEW cs, NEW k, NEW s \in SUBSET cs
  PROVE  Fits({CapacityRow(cs, k)}, s) <=> Cardinality(s) <= k
<1>1. cs \cap s = s
  OBVIOUS
<1>. QED  BY <1>1 DEF Fits, SatisfiedBy, CapacityRow, Row

\* A best selection under a capacity k, as the next lemma finds it.
Full(cs, k, v, s) ==
  /\ s \in SUBSET cs /\ IsFiniteSet(s) /\ Cardinality(s) \in Nat /\ Cardinality(s) <= k
  /\ \A d \in cs \ s : v[d] > 0 => Cardinality(s) = k
  /\ \A c \in s : v[c] >= 0
  /\ \A c \in s, d \in cs \ s : v[c] >= v[d]

\* A best selection has no room left for a candidate of worth, none that is worth less
\* than nothing, and none that is worth less than one outside it.
LEMMA BestIsFull ==
  ASSUME NEW cs, IsFiniteSet(cs), NEW k \in Nat, NEW v, \A c \in cs : v[c] \in Int,
         NEW s \in Optimal(cs, {CapacityRow(cs, k)}, v)
  PROVE  Full(cs, k, v, s)
<1> DEFINE rows == {CapacityRow(cs, k)}
<1>1. s \in SUBSET cs /\ Fits(rows, s)
      /\ \A u \in SUBSET cs : Fits(rows, u) => Net(s, v) >= Net(u, v)
  BY BestIsBest
<1>2. IsFiniteSet(s)
  BY <1>1, FS_Subset
<1>3. Cardinality(s) \in Nat
  BY <1>2, FS_CardinalityType
<1>4. Cardinality(s) <= k
  BY <1>1, FitsCapacity
<1>5. \A u \in SUBSET cs : Cardinality(u) <= k => Net(s, v) >= Net(u, v)
  BY <1>1, FitsCapacity
<1>6. Net(s, v) \in Int
  BY <1>1, <1>2, NetIsInteger
<1>7. ASSUME NEW d \in cs \ s, v[d] > 0 PROVE Cardinality(s) = k
  <2> DEFINE u == s \cup {d}
  <2>1. IsFiniteSet(u) /\ Cardinality(u) = Cardinality(s) + 1
    BY <1>2, FS_AddElement
  <2>2. u \in SUBSET cs /\ d \in u /\ u \ {d} = s
    BY <1>1
  <2> HIDE DEF u
  <2>3. Net(u, v) = v[d] + Net(s, v)
    BY <2>1, <2>2, NetWithout
  <2>4. ~(Net(s, v) >= Net(u, v))
    BY <1>6, <1>7, <2>3
  <2>. QED  BY <1>3, <1>4, <1>5, <2>1, <2>2, <2>4
<1>8. ASSUME NEW c \in s PROVE v[c] >= 0
  <2> DEFINE u == s \ {c}
  <2>1. Net(u, v) \in Int /\ Net(s, v) = v[c] + Net(u, v)
    BY <1>1, <1>2, NetWithout
  <2>2. IsFiniteSet(u) /\ Cardinality(u) = Cardinality(s) - 1
    BY <1>2, FS_RemoveElement
  <2>3. u \in SUBSET cs /\ v[c] \in Int
    BY <1>1
  <2> HIDE DEF u
  <2>4. Net(s, v) >= Net(u, v)
    BY <1>3, <1>4, <1>5, <2>2, <2>3
  <2>. QED  BY <2>1, <2>3, <2>4
<1>9. ASSUME NEW c \in s, NEW d \in cs \ s PROVE v[c] >= v[d]
  <2> DEFINE w == s \ {c}
             u == w \cup {d}
  <2>1. Net(w, v) \in Int /\ Net(s, v) = v[c] + Net(w, v)
    BY <1>1, <1>2, NetWithout
  <2>2. IsFiniteSet(w) /\ Cardinality(w) = Cardinality(s) - 1
    BY <1>2, FS_RemoveElement
  <2>3. w \in SUBSET cs /\ d \notin w /\ v[c] \in Int /\ v[d] \in Int
    BY <1>1
  <2> HIDE DEF w
  <2>4. IsFiniteSet(u) /\ Cardinality(u) = Cardinality(w) + 1
    BY <2>2, <2>3, FS_AddElement
  <2>5. u \in SUBSET cs /\ d \in u /\ u \ {d} = w
    BY <2>3
  <2> HIDE DEF u
  <2>6. Net(u, v) = v[d] + Net(w, v)
    BY <2>4, <2>5, NetWithout
  <2>7. Net(s, v) >= Net(u, v)
    BY <1>3, <1>4, <1>5, <2>2, <2>4, <2>5
  <2>. QED  BY <2>1, <2>3, <2>6, <2>7
<1>. QED  BY <1>1, <1>2, <1>3, <1>4, <1>7, <1>8, <1>9 DEF Full

-----------------------------------------------------------------------------
(* The reasons on record.                                                    *)

\* From the loop on the allocation at hand is one that the solver may return for the
\* candidates at hand.
PricedInv ==
  /\ IsFiniteSet(batch)
  /\ pc \notin {"detect", "no_model", "allocate"} =>
       /\ value \in [Problem -> Values]
       /\ allocation \in
            Allocations(Problem, {CapacityRow(Problem, CapacityOfProblem)}, value, Order)

\* Each step keeps to the allocation or starts over.
LEMMA NextPriced == PricedInv /\ [Next]_vars => PricedInv'
<1> SUFFICES ASSUME PricedInv, [Next]_vars PROVE PricedInv'
  OBVIOUS
<1>1. CASE NoModel \/ Detect \/ Rerun
  <2>1. batch' = batch /\ pc' \in {"detect", "no_model", "allocate"}
    BY <1>1 DEF NoModel, Detect, Rerun, inputs
  <2>. QED  BY <2>1 DEF PricedInv
<1>2. CASE Allocate
  <2>1. /\ UNCHANGED <<batch, candidates>> /\ value' \in [Problem -> Values]
        /\ allocation' \in
             Allocations(Problem, {CapacityRow(Problem, CapacityOfProblem)}, value', Order)
    BY <1>2 DEF Allocate, inputs
  <2>2. Problem' = Problem /\ Order' = Order /\ CapacityOfProblem' = CapacityOfProblem
    BY <2>1 DEF Problem, Order, CapacityOfProblem
  <2>. QED  BY <2>1, <2>2 DEF PricedInv
<1>3. CASE RecordEvent \/ RecordDiagnosis \/ RecordDecision \/ Act \/ RecordOutcome \/ Finish
           \/ UNCHANGED vars
  <2>1. UNCHANGED <<batch, candidates, value, allocation>>
        /\ (pc \in {"detect", "no_model", "allocate"} => pc' = pc)
    BY <1>3 DEF RecordEvent, RecordDiagnosis, RecordDecision, Act, RecordOutcome, Finish, vars,
                inputs, plan
  <2>2. Problem' = Problem /\ Order' = Order /\ CapacityOfProblem' = CapacityOfProblem
    BY <2>1 DEF Problem, Order, CapacityOfProblem
  <2>. QED  BY <2>1, <2>2 DEF PricedInv
<1>. QED  BY <1>1, <1>2, <1>3 DEF Next

\* There is room for at least one.
LEMMA CapacityIsPositive ==
  ASSUME NEW n \in Nat
  PROVE  Capacity(n) \in Nat /\ Capacity(n) >= 1
<1> DEFINE m == CapacityPercent * n
<1>1. m \in Nat
  BY CapacityAssumption
<1> HIDE DEF m
<1>2. m \div 100 \in Int /\ m % 100 \in Int
  BY <1>1
<1>3. Rounded(n) \in Int
  BY <1>2 DEF Rounded, m
<1>. QED  BY <1>3 DEF Capacity

\* What is said of a candidate that an allocation left out, as the next lemma finds it.
Reasoned(cs, k, v, a, e) ==
  /\ a.binding = {} /\ a.solved => v[e] <= 0
  /\ a.binding # {} => v[e] = 0 \/ Cardinality({d \in cs \ {e} : v[d] >= v[e]}) >= k

\* The reasons are the reasons, if they are those that the allocation gives.
LEMMA ReasonsHold ==
  ASSUME NEW cs, IsFiniteSet(cs), NEW k \in Nat, NEW v, \A c \in cs : v[c] \in Int, NEW order,
         NEW a \in Allocations(cs, {CapacityRow(cs, k)}, v, order),
         NEW e \in cs, e \notin a.selected
  PROVE  Reasoned(cs, k, v, a, e)
<1> DEFINE rows == {CapacityRow(cs, k)}
           others == {d \in cs \ {e} : v[d] >= v[e]}
<1>0. \A u \in Optimal(cs, rows, v) : Full(cs, k, v, u)
  BY BestIsFull
<1>1. \/ a.binding = {} /\ a.solved = FALSE
      \/ \E s \in Optimal(cs, rows, v), t \in Optimal(cs, rows, v) :
           a.selected = s /\ a.binding = Tight(rows, t)
  BY DEF Allocations, Allocated
<1>2. CASE a.binding = {} /\ a.solved = FALSE
  BY <1>2 DEF Reasoned
<1>3. ASSUME NEW s \in Optimal(cs, rows, v), NEW t \in Optimal(cs, rows, v),
             a.selected = s, a.binding = Tight(rows, t)
      PROVE  Reasoned(cs, k, v, a, e)
  <2>1. a.selected = s /\ a.binding = Tight(rows, t) /\ e \in cs \ s
    BY <1>3
  <2>3. /\ s \in SUBSET cs /\ IsFiniteSet(s) /\ Cardinality(s) \in Nat /\ Cardinality(s) <= k
        /\ \A d \in cs \ s : v[d] > 0 => Cardinality(s) = k
        /\ \A c \in s, d \in cs \ s : v[c] >= v[d]
    BY <1>0 DEF Full
  <2>4. /\ t \in SUBSET cs /\ IsFiniteSet(t) /\ Cardinality(t) \in Nat /\ Cardinality(t) <= k
        /\ \A d \in cs \ t : v[d] > 0 => Cardinality(t) = k
        /\ \A c \in t : v[c] >= 0
    BY <1>0 DEF Full
  <2>5. Tight(rows, t) # {} <=> Cardinality(t) = k
    <3> DEFINE r == CapacityRow(cs, k)
    <3>1. r.members = cs /\ r.bound = k
      BY DEF CapacityRow, Row
    <3> HIDE DEF r
    <3>2. {q \in {r} : Cardinality(q.members \cap t) = q.bound} # {} <=> Cardinality(r.members \cap t) = r.bound
      OBVIOUS
    <3>3. Tight({r}, t) # {} <=> Cardinality(r.members \cap t) = r.bound
      BY <3>2 DEF Tight
    <3>4. cs \cap t = t
      BY <2>4
    <3>. QED  BY <3>1, <3>3, <3>4 DEF r
  <2>6. v[e] \in Int /\ \A c \in cs : v[c] \in Int
    OBVIOUS
  <2>7. IsFiniteSet(others) /\ Cardinality(others) \in Nat
    <3>1. others \in SUBSET cs
      OBVIOUS
    <3> HIDE DEF others
    <3>2. IsFiniteSet(others)
      BY <3>1, FS_Subset
    <3>. QED  BY <3>2, FS_CardinalityType
  <2>8. ASSUME Cardinality(t) # k, v[e] > 0 PROVE FALSE
    <3>1. \A c \in s : c \in t
      <4> SUFFICES ASSUME NEW c \in s PROVE c \in t
        OBVIOUS
      <4>1. v[c] \in Int /\ v[c] >= v[e]
        BY <2>1, <2>3
      <4>2. v[c] > 0
        BY <2>6, <2>8, <4>1
      <4>. QED  BY <2>3, <2>4, <2>8, <4>2
    <3>2. Cardinality(s) <= Cardinality(t)
      BY <2>4, <3>1, FS_Subset
    <3>. QED  BY <2>1, <2>3, <2>4, <2>8, <3>2
  <2>9. ASSUME v[e] > 0 PROVE Cardinality(others) >= k
    <3>1. s \in SUBSET others
      BY <2>1, <2>3
    <3>2. Cardinality(s) <= Cardinality(others)
      BY <2>7, <3>1, FS_Subset
    <3>. QED  BY <2>1, <2>3, <2>7, <2>9, <3>2
  <2>10. ASSUME Cardinality(t) = k, v[e] < 0 PROVE Cardinality(others) >= k
    <3>1. \A c \in t : c \in others
      <4> SUFFICES ASSUME NEW c \in t PROVE c \in others
        OBVIOUS
      <4>1. v[c] \in Int /\ v[c] >= 0 /\ c \in cs
        BY <2>4
      <4>2. v[c] >= v[e] /\ c # e
        BY <2>6, <2>10, <4>1
      <4>. QED  BY <4>1, <4>2
    <3>2. Cardinality(t) <= Cardinality(others)
      BY <2>7, <3>1, FS_Subset
    <3>. QED  BY <2>7, <2>10, <3>2
  <2> HIDE DEF others
  <2>11. a.binding = {} => ~(v[e] > 0)
    BY <2>1, <2>5, <2>8
  <2>12. a.binding # {} => v[e] = 0 \/ Cardinality(others) >= k
    BY <2>1, <2>5, <2>6, <2>9, <2>10
  <2>. QED  BY <2>6, <2>11, <2>12 DEF Reasoned, others
<1>. QED  BY <1>1, <1>2, <1>3

\* What is on record as the reason for leaving an event alone fits the values: of a solved
\* program VALUE_BELOW_ZERO is never said of an event that was worth a message, and
\* capacity is blamed only of one that was worth nothing or where enough others were worth
\* as much, which may be said of one worth less than nothing too (pipeline.run_pipeline).
THEOREM AbstentionsHaveReasons == Spec => []AbstentionsAreExplained
<1>1. ASSUME IInv, LayoutInv, PricedInv PROVE AbstentionsAreExplained
  <2> SUFFICES ASSUME NEW i \in OfKind("DECISION")
               PROVE  LET e == EventOf(i) IN
                        /\ "VALUE_BELOW_ZERO" \in ledger[i].constraints /\ allocation.solved =>
                             value[e] <= 0
                        /\ "contact_capacity" \in ledger[i].constraints =>
                             value[e] = 0 \/ Cardinality({d \in Problem \ {e} : value[d] >= value[e]})
                                               >= CapacityOfProblem
    BY DEF AbstentionsAreExplained
  <2>0. InputsInv /\ LedgerInv /\ PlanInv
    BY <1>1 DEF IInv
  <2>1. i \in DOMAIN ledger /\ ledger[i].kind = "DECISION"
    BY DEF OfKind
  <2>2. PICK e \in batch : Shaped(ledger[i], e)
    BY <1>1, <2>1 DEF LayoutInv
  <2>3. EventOf(i) = e /\ ledger[i].constraints = Constraints(e)
    <3>1. ledger[i].event = e.n
      BY <2>2 DEF Shaped
    <3>. QED  BY <2>0, <2>1, <2>2, <3>1, EventOfIsIt DEF Shaped
  <2>4. pc \notin {"detect", "no_model", "allocate"}
    BY <2>0, <2>1 DEF LedgerInv
  <2>5. IsFiniteSet(Problem)
    BY <1>1, <2>0, <2>4, FS_Subset DEF PricedInv, PlanInv
  <2>6. CapacityOfProblem \in Nat
    <3>1. Cardinality(Problem) \in Nat
      BY <2>5, FS_CardinalityType
    <3>. QED  BY <3>1, CapacityIsPositive DEF CapacityOfProblem
  <2>7. \A c \in Problem : value[c] \in Int
    BY <1>1, <2>4, BatchAssumption DEF PricedInv
  <2>8. allocation \in Allocations(Problem, {CapacityRow(Problem, CapacityOfProblem)}, value, Order)
    BY <1>1, <2>4 DEF PricedInv
  <2>9. /\ "VALUE_BELOW_ZERO" \in Constraints(e) =>
             e \in Problem /\ e \notin allocation.selected /\ allocation.binding = {}
        /\ "contact_capacity" \in Constraints(e) =>
             e \in Problem /\ e \notin allocation.selected /\ allocation.binding # {}
    BY DEF Constraints
  <2> HIDE DEF Problem, CapacityOfProblem, Order
  <2>10. e \in Problem /\ e \notin allocation.selected =>
           Reasoned(Problem, CapacityOfProblem, value, allocation, e)
    BY <2>5, <2>6, <2>7, <2>8, ReasonsHold
  <2>. QED  BY <2>3, <2>9, <2>10 DEF Reasoned
<1>2. Init => LayoutInv /\ PricedInv
  BY EmptyLayout DEF Init, IsBatch, PricedInv
<1>. QED  BY <1>1, <1>2, InitIInv, NextIInv, NextLayout, NextPriced, PTL DEF Spec

-----------------------------------------------------------------------------
(* Whatever is full is best.                                                 *)

\* The sum of two sets that have nothing in common.
LEMMA NetSplits ==
  ASSUME NEW S, IsFiniteSet(S), NEW v, \A c \in S : v[c] \in Int, NEW A \in SUBSET S
  PROVE  \A B \in SUBSET S : A \cap B = {} => Net(A \cup B, v) = Net(A, v) + Net(B, v)
<1> DEFINE Bad == {B \in SUBSET S : A \cap B = {} /\ Net(A \cup B, v) # Net(A, v) + Net(B, v)}
<1>1. ASSUME Bad # {} PROVE FALSE
  <2>1. PICK B \in Bad : \A C \in Bad : C \subseteq B => C = B
    <3>1. Bad \in SUBSET (SUBSET S)
      OBVIOUS
    <3> HIDE DEF Bad
    <3>. QED  BY <1>1, <3>1, LeastSet
  <2>2. B \in SUBSET S /\ A \cap B = {} /\ Net(A \cup B, v) # Net(A, v) + Net(B, v)
    OBVIOUS
  <2>3. IsFiniteSet(A) /\ IsFiniteSet(B)
    BY <2>2, FS_Subset
  <2>4. Net(A, v) \in Int
    BY <2>3, NetIsInteger
  <2>5. CASE B = {}
    <3>1. A \cup B = A /\ Net(B, v) = 0
      BY <2>3, <2>5, NetUnfolds
    <3>. QED  BY <2>2, <2>4, <3>1
  <2>6. CASE B # {}
    <3>1. PICK x : x \in B
      BY <2>6
    <3> DEFINE C == B \ {x}
               U == A \cup B
    <3>2. C \notin Bad /\ C \in SUBSET S /\ A \cap C = {}
      BY <2>1, <2>2, <3>1
    <3>3. Net(A \cup C, v) = Net(A, v) + Net(C, v)
      BY <3>2
    <3>4. U \ {x} = A \cup C /\ x \in U /\ U \in SUBSET S
      BY <2>2, <3>1
    <3> HIDE DEF C, U
    <3>5. IsFiniteSet(U)
      BY <3>4, FS_Subset
    <3>6. Net(U, v) = v[x] + Net(A \cup C, v)
      BY <3>4, <3>5, NetWithout
    <3>7. Net(C, v) \in Int /\ Net(B, v) = v[x] + Net(C, v)
      BY <2>2, <2>3, <3>1, NetWithout DEF C
    <3>8. v[x] \in Int
      BY <2>2, <3>1
    <3>. QED  BY <2>2, <2>4, <3>3, <3>6, <3>7, <3>8 DEF U
  <2>. QED  BY <2>5, <2>6
<1>. QED  BY <1>1

\* A sum is bounded by the bounds of what is summed.
LEMMA NetBounds ==
  ASSUME NEW S, IsFiniteSet(S), NEW v, \A c \in S : v[c] \in Int, NEW m \in Int
  PROVE  /\ (\A c \in S : v[c] <= m) => Net(S, v) <= m * Cardinality(S)
         /\ (\A c \in S : v[c] >= m) => Net(S, v) >= m * Cardinality(S)
<1> DEFINE Good(T) == /\ (\A c \in T : v[c] <= m) => Net(T, v) <= m * Cardinality(T)
                      /\ (\A c \in T : v[c] >= m) => Net(T, v) >= m * Cardinality(T)
           Bad == {T \in SUBSET S : ~Good(T)}
<1>1. ASSUME Bad # {} PROVE FALSE
  <2>1. PICK T \in Bad : \A U \in Bad : U \subseteq T => U = T
    <3>1. Bad \in SUBSET (SUBSET S)
      OBVIOUS
    <3> HIDE DEF Bad
    <3>. QED  BY <1>1, <3>1, LeastSet
  <2>2. T \in SUBSET S /\ ~Good(T) /\ IsFiniteSet(T)
    BY FS_Subset
  <2>3. CASE T = {}
    <3>1. Net(T, v) = 0 /\ Cardinality(T) = 0
      BY <2>2, <2>3, NetUnfolds, FS_EmptySet
    <3>. QED  BY <2>2, <3>1
  <2>4. CASE T # {}
    <3>1. PICK x : x \in T
      BY <2>4
    <3> DEFINE U == T \ {x}
    <3>2. U \in SUBSET T /\ U # T /\ IsFiniteSet(U) /\ Cardinality(U) = Cardinality(T) - 1
      BY <2>2, <3>1, FS_RemoveElement
    <3>3. Net(U, v) \in Int /\ Net(T, v) = v[x] + Net(U, v)
      BY <2>2, <3>1, NetWithout
    <3> HIDE DEF U
    <3>4. Good(U)
      <4> HIDE DEF Good
      <4>. QED  BY <2>1, <2>2, <3>2
    <3>5. v[x] \in Int
      BY <2>2, <3>1
    <3> DEFINE n == Cardinality(U)
    <3>6. n \in Nat
      BY <3>2, FS_CardinalityType
    <3>7. Cardinality(T) \in Nat
      BY <2>2, FS_CardinalityType
    <3>8. Cardinality(T) = n + 1
      BY <3>2, <3>6, <3>7
    <3> HIDE DEF n
    <3>9. m * Cardinality(T) = m * n + m /\ m * n \in Int
      BY <3>6, <3>8
    <3>10. (\A c \in T : v[c] <= m) => Net(T, v) <= m * Cardinality(T)
      BY <3>1, <3>2, <3>3, <3>4, <3>5, <3>9 DEF n
    <3>11. (\A c \in T : v[c] >= m) => Net(T, v) >= m * Cardinality(T)
      BY <3>1, <3>2, <3>3, <3>4, <3>5, <3>9 DEF n
    <3>. QED  BY <2>2, <3>10, <3>11
  <2>. QED  BY <2>3, <2>4
<1>2. Good(S)
  BY <1>1
<1>. QED  BY <1>2

\* Two sets that have nothing in common are counted one after the other.
LEMMA DisjointCount ==
  ASSUME NEW S, IsFiniteSet(S), NEW T, IsFiniteSet(T), S \cap T = {}
  PROVE  Cardinality(S \cup T) = Cardinality(S) + Cardinality(T)
<1>1. Cardinality(S) \in Nat
  BY FS_CardinalityType
<1>2. Cardinality(T) \in Nat
  BY FS_CardinalityType
<1>3. Cardinality(S \cup T) = Cardinality(S) + Cardinality(T) - Cardinality(S \cap T)
  BY FS_Union
<1>4. Cardinality(S \cap T) = 0
  BY FS_EmptySet
<1>. QED  BY <1>1, <1>2, <1>3, <1>4

\* Nothing that fits is worth more than a selection that has no room for a candidate of
\* worth and none that is worth less than nothing or than one outside it.
LEMMA FullIsBest ==
  ASSUME NEW cs, IsFiniteSet(cs), NEW k \in Nat, NEW v, \A c \in cs : v[c] \in Int,
         NEW s, Full(cs, k, v, s), NEW u \in SUBSET cs, Cardinality(u) <= k
  PROVE  Net(s, v) >= Net(u, v)
<1> DEFINE both == s \cap u
           mine == s \ u
           theirs == u \ s
<1>1. /\ s \in SUBSET cs /\ IsFiniteSet(s) /\ Cardinality(s) \in Nat /\ Cardinality(s) <= k
      /\ \A d \in cs \ s : v[d] > 0 => Cardinality(s) = k
      /\ \A c \in s : v[c] >= 0
      /\ \A c \in s, d \in cs \ s : v[c] >= v[d]
  BY DEF Full
<1>2. /\ both \in SUBSET cs /\ mine \in SUBSET cs /\ theirs \in SUBSET cs
      /\ both \cap mine = {} /\ both \cup mine = s /\ both \cap theirs = {} /\ both \cup theirs = u
      /\ mine \subseteq s /\ theirs \subseteq cs \ s
  BY <1>1
<1> HIDE DEF both, mine, theirs
<1>3. IsFiniteSet(both) /\ IsFiniteSet(mine) /\ IsFiniteSet(theirs) /\ IsFiniteSet(u)
  BY <1>2, FS_Subset
<1>4. Net(s, v) = Net(both, v) + Net(mine, v) /\ Net(u, v) = Net(both, v) + Net(theirs, v)
  BY <1>2, NetSplits
<1>5. Net(both, v) \in Int
  BY <1>2, <1>3, NetIsInteger
<1>6. Net(mine, v) \in Int
  BY <1>2, <1>3, NetIsInteger
<1>7. Net(theirs, v) \in Int
  BY <1>2, <1>3, NetIsInteger
<1>8. Cardinality(both) \in Nat /\ Cardinality(mine) \in Nat /\ Cardinality(theirs) \in Nat
      /\ Cardinality(u) \in Nat
  BY <1>3, FS_CardinalityType
<1>9. Cardinality(s) = Cardinality(both) + Cardinality(mine)
  BY <1>2, <1>3, DisjointCount
<1>10. Cardinality(u) = Cardinality(both) + Cardinality(theirs)
  BY <1>2, <1>3, DisjointCount
<1>11. \A c \in mine : v[c] \in Int /\ v[c] >= 0
  BY <1>1, <1>2
<1>12. \A d \in theirs : v[d] \in Int
  BY <1>2
<1>13. CASE \A d \in theirs : v[d] <= 0
  <2>1. Net(theirs, v) <= 0 * Cardinality(theirs)
    BY <1>3, <1>12, <1>13, NetBounds
  <2>2. Net(mine, v) >= 0 * Cardinality(mine)
    BY <1>3, <1>11, NetBounds
  <2>. QED  BY <1>4, <1>5, <1>6, <1>7, <1>8, <2>1, <2>2
<1>14. CASE \E d \in theirs : ~(v[d] <= 0)
  <2>1. PICK d \in theirs : v[d] > 0
    BY <1>12, <1>14
  <2>2. Cardinality(s) = k
    BY <1>1, <1>2, <2>1
  <2>3. Cardinality(theirs) <= Cardinality(mine)
    BY <1>8, <1>9, <1>10, <2>2
  <2>4. mine # {}
    <3>1. Cardinality(theirs) # 0
      BY <1>3, <2>1, FS_EmptySet
    <3>2. Cardinality({}) = 0
      BY FS_EmptySet
    <3>. QED  BY <1>8, <2>3, <3>1, <3>2
  <2>5. PICK m \in {v[c] : c \in mine} : \A n \in {v[c] : c \in mine} : m <= n
    <3>1. {v[c] : c \in mine} \in SUBSET Nat /\ {v[c] : c \in mine} # {}
      BY <1>11, <2>4
    <3>. QED  BY <3>1, LeastNumber
  <2>6. m \in Nat /\ \A c \in mine : v[c] >= m
    BY <1>11, <2>5
  <2>7. \A e \in theirs : v[e] <= m
    BY <1>1, <1>2, <1>12, <2>5, <2>6
  <2>8. Net(theirs, v) <= m * Cardinality(theirs)
    BY <1>3, <1>12, <2>6, <2>7, NetBounds
  <2>9. Net(mine, v) >= m * Cardinality(mine)
    BY <1>3, <1>11, <2>6, NetBounds
  <2>10. m * Cardinality(theirs) <= m * Cardinality(mine)
    <3> DEFINE more == Cardinality(mine) - Cardinality(theirs)
    <3>1. more \in Nat
      BY <1>8, <2>3
    <3>2. m * Cardinality(mine) = m * Cardinality(theirs) + m * more
      BY <1>8, <2>6
    <3>3. m * more \in Nat /\ m * Cardinality(theirs) \in Nat
      BY <1>8, <2>6, <3>1
    <3> HIDE DEF more
    <3>. QED  BY <3>2, <3>3
  <2>11. m * Cardinality(theirs) \in Int /\ m * Cardinality(mine) \in Int
    BY <1>8, <2>6
  <2>. QED  BY <1>4, <1>5, <1>6, <1>7, <2>8, <2>9, <2>10, <2>11
<1>. QED  BY <1>13, <1>14

-----------------------------------------------------------------------------
(* Rankings.                                                                 *)

\* What the rank of a candidate counts.
Ahead(cs, v, order, c) == {d \in cs : Before(d, c, v, order)}

Rankable(cs, v, order) ==
  /\ IsFiniteSet(cs)
  /\ \A c \in cs : v[c] \in Int /\ order[c] \in Int
  /\ \A c, d \in cs : order[c] = order[d] => c = d

\* Whoever is before another has the smaller rank, and of two one is before the other.
LEMMA RanksRespectOrder ==
  ASSUME NEW cs, NEW v, NEW order, Rankable(cs, v, order), NEW c \in cs, NEW d \in cs
  PROVE  /\ c = d \/ Before(c, d, v, order) \/ Before(d, c, v, order)
         /\ Cardinality(Ahead(cs, v, order, c)) \in 0 .. Cardinality(cs) - 1
         /\ Before(c, d, v, order) =>
              Cardinality(Ahead(cs, v, order, c)) < Cardinality(Ahead(cs, v, order, d))
<1>1. /\ IsFiniteSet(cs) /\ \A x \in cs : v[x] \in Int /\ order[x] \in Int
      /\ \A x, y \in cs : order[x] = order[y] => x = y
  BY DEF Rankable
<1>2. c = d \/ Before(c, d, v, order) \/ Before(d, c, v, order)
  BY <1>1 DEF Before
<1>3. \A x \in cs : ~Before(x, x, v, order)
  BY <1>1 DEF Before
<1> DEFINE A == Ahead(cs, v, order, c)
           B == Ahead(cs, v, order, d)
<1>4. A \in SUBSET cs /\ B \in SUBSET cs /\ c \notin A
  BY <1>3 DEF Ahead
<1>5. IsFiniteSet(A)
  BY <1>1, <1>4, FS_Subset
<1>6. IsFiniteSet(B)
  BY <1>1, <1>4, FS_Subset
<1>7. Cardinality(A) \in Nat
  BY <1>5, FS_CardinalityType
<1>8. Cardinality(B) \in Nat
  BY <1>6, FS_CardinalityType
<1>9. Cardinality(cs) \in Nat
  BY <1>1, FS_CardinalityType
<1>10. Cardinality(A) < Cardinality(cs)
  <2>1. Cardinality(A) <= Cardinality(cs) /\ (Cardinality(cs) = Cardinality(A) => cs = A)
    BY <1>1, <1>4, FS_Subset
  <2>. QED  BY <1>4, <1>7, <1>9, <2>1
<1>11. ASSUME Before(c, d, v, order) PROVE Cardinality(A) < Cardinality(B)
  <2>1. c \in B
    BY <1>11 DEF Ahead
  <2>2. A \in SUBSET B
    <3> SUFFICES ASSUME NEW x \in A PROVE Before(x, d, v, order)
      BY DEF Ahead
    <3>1. x \in cs /\ Before(x, c, v, order)
      BY DEF Ahead
    <3>2. v[x] \in Int /\ v[c] \in Int /\ v[d] \in Int /\ order[x] \in Int /\ order[c] \in Int
          /\ order[d] \in Int
      BY <1>1, <3>1
    <3>. QED  BY <1>11, <3>1, <3>2 DEF Before
  <2>3. Cardinality(A) <= Cardinality(B) /\ (Cardinality(B) = Cardinality(A) => B = A)
    BY <1>6, <2>2, FS_Subset
  <2>. QED  BY <1>4, <1>7, <1>8, <2>1, <2>3
<1> HIDE DEF A, B
<1>12. Cardinality(A) \in 0 .. Cardinality(cs) - 1
  BY <1>7, <1>9, <1>10
<1>. QED  BY <1>2, <1>11, <1>12 DEF A, B

\* No two have the same rank.
LEMMA RanksDiffer ==
  ASSUME NEW cs, NEW v, NEW order, Rankable(cs, v, order), NEW c \in cs, NEW d \in cs,
         Cardinality(Ahead(cs, v, order, c)) = Cardinality(Ahead(cs, v, order, d))
  PROVE  c = d
<1>1. Cardinality(Ahead(cs, v, order, c)) \in Int /\ Cardinality(Ahead(cs, v, order, d)) \in Int
  BY RanksRespectOrder
<1>2. ~Before(c, d, v, order)
  BY <1>1, RanksRespectOrder
<1>3. ~Before(d, c, v, order)
  BY <1>1, RanksRespectOrder
<1>. QED  BY <1>2, <1>3, RanksRespectOrder

\* Those of the first k ranks are at most k.
LEMMA FirstRanksAreFew ==
  ASSUME NEW cs, NEW v, NEW order, Rankable(cs, v, order), NEW k \in Nat,
         NEW s \in SUBSET cs, \A c \in s : Cardinality(Ahead(cs, v, order, c)) < k
  PROVE  Cardinality(s) <= k
<1> DEFINE f == [c \in s |-> Cardinality(Ahead(cs, v, order, c))]
           T == 0 .. k - 1
<1>1. \A c \in s : Cardinality(Ahead(cs, v, order, c)) \in T
  <2> SUFFICES ASSUME NEW c \in s PROVE Cardinality(Ahead(cs, v, order, c)) \in T
    OBVIOUS
  <2>1. Cardinality(Ahead(cs, v, order, c)) \in 0 .. Cardinality(cs) - 1
    BY RanksRespectOrder
  <2>2. IsFiniteSet(cs)
    BY DEF Rankable
  <2>3. Cardinality(cs) \in Nat
    BY <2>2, FS_CardinalityType
  <2>4. Cardinality(Ahead(cs, v, order, c)) < k
    OBVIOUS
  <2>. QED  BY <2>1, <2>3, <2>4
<1>2. f \in [s -> T]
  BY <1>1
<1>3. \A c, d \in s : f[c] = f[d] => c = d
  BY RanksDiffer
<1>4. IsFiniteSet(T)
  BY FS_Interval
<1>5. Cardinality(T) = k
  <2>1. 0 \in Int /\ k - 1 \in Int
    OBVIOUS
  <2>2. Cardinality(T) = IF 0 > k - 1 THEN 0 ELSE (k - 1) - 0 + 1
    BY <2>1, FS_Interval
  <2>. QED  BY <2>2
<1> HIDE DEF f, T
<1>6. f \in Injection(s, T)
  BY <1>2, <1>3 DEF Injection, IsInjective
<1>7. Cardinality(s) <= Cardinality(T)
  BY <1>4, <1>6, FS_Injection
<1>. QED  BY <1>5, <1>7

\* A sequence that names each candidate once, the more valuable first.
Sorted(by, cs, v) ==
  LET n == Cardinality(cs) IN
    /\ \A k \in 1 .. n : by[k] \in cs
    /\ \A j, k \in 1 .. n : by[j] = by[k] => j = k
    /\ \A c \in cs : \E k \in 1 .. n : by[k] = c
    /\ \A j, k \in 1 .. n : j < k => v[by[j]] >= v[by[k]]

\* The ranking is one.
LEMMA RankingIsSorted ==
  ASSUME NEW cs, NEW v, NEW order, Rankable(cs, v, order)
  PROVE  Sorted(Ranking(cs, v, order), cs, v)
<1> DEFINE n == Cardinality(cs)
           rank(c) == Cardinality(Ahead(cs, v, order, c))
           f == [c \in cs |-> rank(c)]
           T == 0 .. n - 1
           by == Ranking(cs, v, order)
<1>1. IsFiniteSet(cs) /\ \A c \in cs : v[c] \in Int
  BY DEF Rankable
<1>2. n \in Nat
  BY <1>1, FS_CardinalityType
<1>3. \A c \in cs : rank(c) \in T
  BY RanksRespectOrder
<1>4. \A c, d \in cs : rank(c) = rank(d) => c = d
  BY RanksDiffer
<1>5. \A c, d \in cs : ~Before(c, d, v, order) \/ rank(c) < rank(d)
  BY RanksRespectOrder
<1>6. IsFiniteSet(T)
  BY <1>2, FS_Interval
<1>7. Cardinality(T) = n
  <2>1. 0 \in Int /\ n - 1 \in Int
    BY <1>2
  <2>2. Cardinality(T) = IF 0 > n - 1 THEN 0 ELSE (n - 1) - 0 + 1
    BY <2>1, FS_Interval
  <2>. QED  BY <1>2, <2>2
<1>8. f \in Injection(cs, T)
  <2>1. f \in [cs -> T] /\ \A c, d \in cs : f[c] = f[d] => c = d
    BY <1>3, <1>4
  <2> HIDE DEF f, T
  <2>. QED  BY <2>1 DEF Injection, IsInjective
<1>9. \A t \in T : \E c \in cs : rank(c) = t
  <2>1. f \in Surjection(cs, T)
    <3> HIDE DEF f, T, n
    <3>1. Cardinality(cs) = Cardinality(T)
      BY <1>7 DEF n
    <3>. QED  BY <1>6, <1>8, <3>1, FS_Injection
  <2>. QED  BY <2>1 DEF Surjection
<1>10. \A k \in 1 .. n : by[k] = CHOOSE c \in cs : rank(c) = k - 1
  BY DEF Ranking, Ahead
<1> HIDE DEF rank, f, by
<1>11. \A k \in 1 .. n : by[k] \in cs /\ rank(by[k]) = k - 1
  <2> SUFFICES ASSUME NEW k \in 1 .. n PROVE by[k] \in cs /\ rank(by[k]) = k - 1
    OBVIOUS
  <2>1. k - 1 \in T
    BY <1>2
  <2>2. \E c \in cs : rank(c) = k - 1
    BY <1>9, <2>1
  <2>. QED  BY <1>10, <2>2
<1>12. \A j, k \in 1 .. n : by[j] = by[k] => j = k
  <2> SUFFICES ASSUME NEW j \in 1 .. n, NEW k \in 1 .. n, by[j] = by[k] PROVE j = k
    OBVIOUS
  <2>1. j - 1 = k - 1
    BY <1>11
  <2>. QED  BY <1>2, <2>1
<1>13. \A c \in cs : \E k \in 1 .. n : by[k] = c
  <2> SUFFICES ASSUME NEW c \in cs PROVE \E k \in 1 .. n : by[k] = c
    OBVIOUS
  <2>1. rank(c) + 1 \in 1 .. n /\ rank(c) \in Int
    BY <1>2, <1>3
  <2>2. rank(by[rank(c) + 1]) = rank(c) /\ by[rank(c) + 1] \in cs
    BY <1>11, <2>1
  <2>3. by[rank(c) + 1] = c
    BY <1>4, <2>2
  <2>. QED  BY <2>1, <2>3
<1>14. \A j, k \in 1 .. n : j < k => v[by[j]] >= v[by[k]]
  <2> SUFFICES ASSUME NEW j \in 1 .. n, NEW k \in 1 .. n, j < k PROVE v[by[j]] >= v[by[k]]
    OBVIOUS
  <2>1. by[j] \in cs /\ by[k] \in cs /\ rank(by[j]) = j - 1 /\ rank(by[k]) = k - 1
    BY <1>11
  <2>2. ~(rank(by[k]) < rank(by[j]))
    BY <1>2, <2>1
  <2>3. ~Before(by[k], by[j], v, order)
    BY <1>5, <2>1, <2>2
  <2>4. v[by[j]] \in Int /\ v[by[k]] \in Int
    BY <1>1, <2>1
  <2>. QED  BY <2>3, <2>4 DEF Before
<1>. QED  BY <1>11, <1>12, <1>13, <1>14 DEF Sorted, by

-----------------------------------------------------------------------------
(* The greedy fallback.                                                      *)

\* A function that gives each length of a prefix of the ranking what is chosen from it.
IsFilling(f, n, rows, v, by) ==
  f = [k \in 0 .. n |->
         IF k = 0 THEN {}
         ELSE IF v[by[k]] > 0 /\ Fits(rows, f[k - 1] \cup {by[k]}) THEN f[k - 1] \cup {by[k]}
              ELSE f[k - 1]]

Filling(n, rows, v, by) == CHOOSE f : IsFilling(f, n, rows, v, by)

\* The fallback takes what is chosen from the whole ranking.
LEMMA GreedyIs ==
  ASSUME NEW cs, NEW rows, NEW v, NEW order
  PROVE  Greedy(cs, rows, v, order) =
           Filling(Cardinality(cs), rows, v, Ranking(cs, v, order))[Cardinality(cs)]
BY DEF Greedy, Filling, IsFilling

\* There is such a function for every length.
LEMMA FillingIs ==
  ASSUME NEW rows, NEW v, NEW by
  PROVE  \A n \in Nat : IsFilling(Filling(n, rows, v, by), n, rows, v, by)
<1> DEFINE Bad == {n \in Nat : ~\E f : IsFilling(f, n, rows, v, by)}
<1>1. ASSUME Bad # {} PROVE FALSE
  <2>1. PICK n \in Bad : \A m \in Bad : n <= m
    <3>1. Bad \in SUBSET Nat
      OBVIOUS
    <3> HIDE DEF Bad
    <3>. QED  BY <1>1, <3>1, LeastNumber
  <2>2. n \in Nat /\ ~\E f : IsFilling(f, n, rows, v, by)
    OBVIOUS
  <2>3. CASE n = 0
    <3> DEFINE f == [k \in 0 .. 0 |-> {}]
    <3>1. IsFilling(f, 0, rows, v, by)
      BY DEF IsFilling
    <3>. QED  BY <2>2, <2>3, <3>1
  <2>4. CASE n # 0
    <3>1. n - 1 \in Nat /\ n - 1 \notin Bad
      BY <2>1, <2>2, <2>4
    <3>2. PICK g : IsFilling(g, n - 1, rows, v, by)
      BY <3>1
    <3> DEFINE Of(h, k) ==
                 IF k = 0 THEN {}
                 ELSE IF v[by[k]] > 0 /\ Fits(rows, h[k - 1] \cup {by[k]}) THEN h[k - 1] \cup {by[k]}
                      ELSE h[k - 1]
               f == [k \in 0 .. n |-> IF k = n THEN Of(g, n) ELSE g[k]]
    <3>3. \A k \in 0 .. n - 1 : g[k] = Of(g, k)
      BY <3>2 DEF IsFilling
    <3>4. \A k \in 0 .. n : k # 0 => k - 1 \in 0 .. n /\ k - 1 # n /\ f[k - 1] = g[k - 1]
      BY <2>2
    <3>5. \A k \in 0 .. n : Of(f, k) = Of(g, k)
      BY <3>4
    <3>6. \A k \in 0 .. n : f[k] = Of(f, k)
      <4> SUFFICES ASSUME NEW k \in 0 .. n PROVE f[k] = Of(f, k)
        OBVIOUS
      <4>1. CASE k = n
        <5>1. f[k] = Of(g, k)
          BY <4>1
        <5> HIDE DEF Of
        <5>. QED  BY <3>5, <5>1
      <4>2. CASE k # n
        <5>1. k \in 0 .. n - 1 /\ f[k] = g[k]
          BY <2>2, <4>2
        <5> HIDE DEF Of, f
        <5>. QED  BY <3>3, <3>5, <5>1
      <4>. QED  BY <4>1, <4>2
    <3>7. f = [k \in 0 .. n |-> Of(f, k)]
      <4>1. f = [k \in 0 .. n |-> f[k]]
        OBVIOUS
      <4> HIDE DEF f, Of
      <4>. QED  BY <3>6, <4>1
    <3> HIDE DEF f
    <3>8. IsFilling(f, n, rows, v, by)
      BY <3>7 DEF IsFilling
    <3>. QED  BY <2>2, <3>8
  <2>. QED  BY <2>3, <2>4
<1>2. \A n \in Nat : \E f : IsFilling(f, n, rows, v, by)
  BY <1>1
<1>3. ASSUME NEW n \in Nat PROVE IsFilling(Filling(n, rows, v, by), n, rows, v, by)
  <2>1. \E f : IsFilling(f, n, rows, v, by)
    BY <1>2
  <2>. QED  BY <2>1 DEF Filling
<1>. QED  BY <1>3

\* What has been chosen from the first m of a ranking.
Served(G, m, k, v, by) ==
  /\ IsFiniteSet(G) /\ Cardinality(G) \in Nat /\ Cardinality(G) <= k
  /\ \A c \in G : v[c] > 0 /\ \E j \in 1 .. m : c = by[j]
  /\ \A j \in 1 .. m : by[j] \notin G /\ v[by[j]] > 0 =>
       Cardinality(G) = k /\ \A c \in G : v[c] >= v[by[j]]

\* Each step of the filling serves one more.
LEMMA OneMoreServed ==
  ASSUME NEW cs, IsFiniteSet(cs), NEW k \in Nat, NEW v, \A c \in cs : v[c] \in Int,
         NEW by, Sorted(by, cs, v), NEW m \in 1 .. Cardinality(cs),
         NEW G, Served(G, m - 1, k, v, by),
         NEW H, H = IF v[by[m]] > 0 /\ Fits({CapacityRow(cs, k)}, G \cup {by[m]})
                    THEN G \cup {by[m]} ELSE G
  PROVE  Served(H, m, k, v, by)
<1> DEFINE n == Cardinality(cs)
           x == by[m]
<1>1. n \in Nat /\ m \in Nat
  BY FS_CardinalityType
<1>2. /\ \A j \in 1 .. n : by[j] \in cs
      /\ \A i, j \in 1 .. n : by[i] = by[j] => i = j
      /\ \A i, j \in 1 .. n : i < j => v[by[i]] >= v[by[j]]
  BY DEF Sorted
<1>3. /\ IsFiniteSet(G) /\ Cardinality(G) \in Nat /\ Cardinality(G) <= k
      /\ \A c \in G : v[c] > 0 /\ \E j \in 1 .. m - 1 : c = by[j]
      /\ \A j \in 1 .. m - 1 : by[j] \notin G /\ v[by[j]] > 0 =>
           Cardinality(G) = k /\ \A c \in G : v[c] >= v[by[j]]
  BY DEF Served
<1>4. \A j \in 1 .. m : j \in 1 .. n /\ (j \in 1 .. m - 1 \/ j = m)
  BY <1>1
<1>5. \A j \in 1 .. m - 1 : j \in 1 .. m /\ j < m /\ j \in 1 .. n
  BY <1>1
<1>6. x \in cs /\ v[x] \in Int /\ x \notin G
  <2>1. x \notin G
    <3> SUFFICES ASSUME x \in G PROVE FALSE
      OBVIOUS
    <3>1. PICK j \in 1 .. m - 1 : x = by[j]
      BY <1>3
    <3>. QED  BY <1>2, <1>5, <3>1
  <2>. QED  BY <1>2, <2>1
<1>7. G \subseteq cs
  BY <1>2, <1>3, <1>5
<1>8. IsFiniteSet(G \cup {x}) /\ Cardinality(G \cup {x}) = Cardinality(G) + 1
  BY <1>3, <1>6, FS_AddElement
<1>9. Fits({CapacityRow(cs, k)}, G \cup {x}) <=> Cardinality(G) + 1 <= k
  <2>1. G \cup {x} \in SUBSET cs
    BY <1>6, <1>7
  <2>. QED  BY <1>8, <2>1, FitsCapacity
<1>10. CASE v[x] > 0 /\ Cardinality(G) + 1 <= k
  <2>1. H = G \cup {x}
    BY <1>9, <1>10
  <2>2. IsFiniteSet(H) /\ Cardinality(H) \in Nat /\ Cardinality(H) <= k
    BY <1>3, <1>8, <1>10, <2>1
  <2>3. \A c \in H : v[c] > 0 /\ \E j \in 1 .. m : c = by[j]
    <3> SUFFICES ASSUME NEW c \in H PROVE v[c] > 0 /\ \E j \in 1 .. m : c = by[j]
      OBVIOUS
    <3>1. CASE c \in G
      BY <1>3, <1>5, <3>1
    <3>2. CASE c = x
      <4>1. m \in 1 .. m
        BY <1>1
      <4>. QED  BY <1>10, <3>2, <4>1
    <3>. QED  BY <2>1, <3>1, <3>2
  <2>4. \A j \in 1 .. m : ~(by[j] \notin H /\ v[by[j]] > 0)
    <3> SUFFICES ASSUME NEW j \in 1 .. m, by[j] \notin H, v[by[j]] > 0 PROVE FALSE
      OBVIOUS
    <3>1. j \in 1 .. m - 1 /\ by[j] \notin G
      BY <1>4, <2>1
    <3>2. Cardinality(G) = k
      BY <1>3, <3>1
    <3>. QED  BY <1>10, <3>2
  <2>. QED  BY <2>2, <2>3, <2>4 DEF Served
<1>11. CASE ~(v[x] > 0 /\ Cardinality(G) + 1 <= k)
  <2>1. H = G
    BY <1>9, <1>11
  <2>2. \A c \in G : v[c] > 0 /\ \E j \in 1 .. m : c = by[j]
    BY <1>3, <1>5
  <2>3. ASSUME NEW j \in 1 .. m, by[j] \notin G, v[by[j]] > 0
        PROVE  Cardinality(G) = k /\ \A c \in G : v[c] >= v[by[j]]
    <3>1. CASE j \in 1 .. m - 1
      BY <1>3, <2>3, <3>1
    <3>2. CASE j = m
      <4>1. Cardinality(G) = k
        BY <1>3, <1>11, <2>3, <3>2
      <4>2. ASSUME NEW c \in G PROVE v[c] >= v[x]
        <5>1. PICK i \in 1 .. m - 1 : c = by[i]
          BY <1>3
        <5>. QED  BY <1>2, <1>5, <5>1
      <4>. QED  BY <3>2, <4>1, <4>2
    <3>. QED  BY <1>4, <3>1, <3>2
  <2>. QED  BY <1>3, <2>1, <2>2, <2>3 DEF Served
<1>. QED  BY <1>10, <1>11

\* What the fallback selects is full, so that with one row it is best.
LEMMA GreedyIsFull ==
  ASSUME NEW cs, NEW v, NEW order, Rankable(cs, v, order), NEW k \in Nat
  PROVE  Full(cs, k, v, Greedy(cs, {CapacityRow(cs, k)}, v, order))
<1> DEFINE n == Cardinality(cs)
           rows == {CapacityRow(cs, k)}
           by == Ranking(cs, v, order)
           f == Filling(n, rows, v, by)
           G == f[n]
<1>1. IsFiniteSet(cs) /\ \A c \in cs : v[c] \in Int
  BY DEF Rankable
<1>2. n \in Nat
  BY <1>1, FS_CardinalityType
<1>3. Sorted(by, cs, v)
  BY RankingIsSorted
<1>4. Greedy(cs, rows, v, order) = G
  BY GreedyIs
<1> HIDE DEF by, rows
<1>5. IsFilling(f, n, rows, v, by)
  BY <1>2, FillingIs
<1> HIDE DEF f
<1>6. f[0] = {}
      /\ \A m \in 1 .. n : f[m] = IF v[by[m]] > 0 /\ Fits(rows, f[m - 1] \cup {by[m]})
                                  THEN f[m - 1] \cup {by[m]} ELSE f[m - 1]
  <2>1. 0 \in 0 .. n /\ \A m \in 1 .. n : m \in 0 .. n /\ m # 0
    BY <1>2
  <2>. QED  BY <1>5, <2>1 DEF IsFilling
<1> DEFINE Bad == {m \in 0 .. n : ~Served(f[m], m, k, v, by)}
<1>7. ASSUME Bad # {} PROVE FALSE
  <2>1. PICK m \in Bad : \A i \in Bad : m <= i
    <3>1. Bad \in SUBSET Nat
      BY <1>2
    <3> HIDE DEF Bad
    <3>. QED  BY <1>7, <3>1, LeastNumber
  <2>2. m \in 0 .. n /\ ~Served(f[m], m, k, v, by)
    OBVIOUS
  <2>3. CASE m = 0
    <3>1. IsFiniteSet({}) /\ Cardinality({}) = 0
      BY FS_EmptySet
    <3>2. 1 .. 0 = {}
      OBVIOUS
    <3>3. Served({}, 0, k, v, by)
      BY <3>1, <3>2 DEF Served
    <3>. QED  BY <1>6, <2>2, <2>3, <3>3
  <2>4. CASE m # 0
    <3>1. m \in 1 .. n /\ m - 1 \in 0 .. n /\ ~(m <= m - 1)
      BY <1>2, <2>2, <2>4
    <3>2. Served(f[m - 1], m - 1, k, v, by)
      BY <2>1, <3>1
    <3> DEFINE g == f[m - 1]
               H == f[m]
    <3>3. H = IF v[by[m]] > 0 /\ Fits({CapacityRow(cs, k)}, g \cup {by[m]})
              THEN g \cup {by[m]} ELSE g
      BY <1>6, <3>1 DEF rows
    <3>4. Served(g, m - 1, k, v, by)
      BY <3>2
    <3> HIDE DEF g, H
    <3>5. Served(H, m, k, v, by)
      BY <1>1, <1>3, <3>1, <3>3, <3>4, OneMoreServed
    <3>. QED  BY <2>2, <3>5 DEF H
  <2>. QED  BY <2>3, <2>4
<1>8. Served(G, n, k, v, by)
  <2>1. n \in 0 .. n
    BY <1>2
  <2>. QED  BY <1>7, <2>1
<1> HIDE DEF G
<1>9. /\ \A j \in 1 .. n : by[j] \in cs
      /\ \A c \in cs : \E j \in 1 .. n : by[j] = c
  BY <1>3 DEF Sorted
<1>10. G \in SUBSET cs /\ \A c \in G : v[c] > 0
  BY <1>8, <1>9 DEF Served
<1>11. ASSUME NEW d \in cs \ G, v[d] > 0
       PROVE  Cardinality(G) = k /\ \A c \in G : v[c] >= v[d]
  BY <1>8, <1>9, <1>11 DEF Served
<1>12. ASSUME NEW c \in G, NEW d \in cs \ G PROVE v[c] >= v[d]
  <2>1. v[c] \in Int /\ v[d] \in Int /\ v[c] > 0
    BY <1>1, <1>10
  <2>. QED  BY <1>11, <2>1
<1>13. \A c \in G : v[c] >= 0
  BY <1>1, <1>10
<1>14. IsFiniteSet(G) /\ Cardinality(G) \in Nat /\ Cardinality(G) <= k
  BY <1>8 DEF Served
<1>15. Full(cs, k, v, G)
  BY <1>10, <1>11, <1>12, <1>13, <1>14 DEF Full
<1>. QED  BY <1>4, <1>15 DEF rows

-----------------------------------------------------------------------------
(* The comparison of the policies.                                           *)

\* What antar selects from what the diagnosis has left is full.
LEMMA AntarIsFull ==
  ASSUME NEW asked, NEW vetoed, NEW k \in Nat, NEW v, NEW order,
         Rankable(asked \ vetoed, v, order), NEW s \in Antar(asked, vetoed, k, v, order)
  PROVE  Full(asked \ vetoed, k, v, s)
<1> DEFINE cs == asked \ vetoed
           rows == {CapacityRow(cs, k)}
<1>1. PICK a \in Allocations(cs, rows, v, order) : s = a.selected
  BY DEF Antar
<1>2. Rankable(cs, v, order)
  OBVIOUS
<1> HIDE DEF cs
<1>3. IsFiniteSet(cs) /\ \A c \in cs : v[c] \in Int
  BY <1>2 DEF Rankable
<1>4. \/ cs = {} /\ s = {}
      \/ s \in Optimal(cs, rows, v)
      \/ s = Greedy(cs, rows, v, order)
  BY <1>1 DEF Allocations, Allocated
<1>5. CASE cs = {} /\ s = {}
  <2>1. IsFiniteSet(s) /\ Cardinality(s) = 0
    BY <1>5, FS_EmptySet
  <2>. QED  BY <1>5, <2>1 DEF Full, cs
<1>6. CASE s \in Optimal(cs, rows, v)
  <2>1. Full(cs, k, v, s)
    BY <1>3, <1>6, BestIsFull
  <2>. QED  BY <2>1 DEF cs
<1>7. CASE s = Greedy(cs, rows, v, order)
  <2>1. Full(cs, k, v, Greedy(cs, rows, v, order))
    BY <1>2, GreedyIsFull
  <2>. QED  BY <1>7, <2>1 DEF cs
<1>. QED  BY <1>4, <1>5, <1>6, <1>7

\* The rivals fill the same capacity from the same candidates.
LEMMA RivalsFit ==
  ASSUME NEW asked, IsFiniteSet(asked), NEW k \in Nat, NEW order,
         \A c \in asked : order[c] \in Int,
         \A c, d \in asked : order[c] = order[d] => c = d,
         NEW r \in {Everyone(asked, k, order)} \cup Propensity(asked, k)
  PROVE  r \in SUBSET asked /\ Cardinality(r) <= k
<1>1. CASE r = Everyone(asked, k, order)
  <2> DEFINE v == [c \in asked |-> 0]
  <2>1. Rankable(asked, v, order)
    BY DEF Rankable
  <2>2. \A c \in asked : Ahead(asked, v, order, c) = {d \in asked : order[d] < order[c]}
    BY DEF Ahead, Before
  <2> HIDE DEF v
  <2>3. r \in SUBSET asked /\ \A c \in r : Cardinality(Ahead(asked, v, order, c)) < k
    BY <1>1, <2>2 DEF Everyone
  <2>. QED  BY <2>1, <2>3, FirstRanksAreFew
<1>2. CASE r \in Propensity(asked, k)
  <2>1. r \in SUBSET asked /\ Cardinality(r) = Min({k, Cardinality(asked)})
    BY <1>2 DEF Propensity
  <2>2. Cardinality(asked) \in Nat
    BY FS_CardinalityType
  <2> DEFINE n == Cardinality(asked)
  <2>3. Min({k, n}) <= k
    <3>1. \E x \in {k, n} : \A y \in {k, n} : x <= y
      BY <2>2
    <3> HIDE DEF n
    <3>2. \A y \in {k, n} : Min({k, n}) <= y
      BY <3>1 DEF Min
    <3>. QED  BY <3>2
  <2>. QED  BY <2>1, <2>3
<1>. QED  BY <1>1, <1>2

\* A batch is a list, and stays what it is.
FiniteInv == IsFiniteSet(batch)

\* Each step leaves the batch alone.
LEMMA NextFinite == FiniteInv /\ [Next]_vars => FiniteInv'
<1> SUFFICES ASSUME FiniteInv, [Next]_vars PROVE FiniteInv'
  OBVIOUS
<1>1. batch' = batch
  BY DEF Next, NoModel, Detect, Allocate, RecordEvent, RecordDiagnosis, RecordDecision, Act,
         RecordOutcome, Finish, Rerun, inputs, vars
<1>. QED  BY <1>1 DEF FiniteInv

\* What antar loses to a ranking that fills the same capacity is at most the events that
\* the diagnosis took from it, with a solver or without, and each policy accounts for
\* every candidate once (policies.PolicyRunner and allocator.solve).
THEOREM RankingsNeverWin == Spec => []RankingsWinOnlyByTheVeto
<1>1. ASSUME IInv, FiniteInv PROVE RankingsWinOnlyByTheVeto
  <2> DEFINE asked == {e \in batch : HasCandidate(e)}
             vetoed == {e \in asked : Vetoed(diagnosis[e])}
             capacity == Capacity(Cardinality(asked))
  <2>1. IsFiniteSet(asked)
    BY <1>1, FS_Subset DEF FiniteInv
  <2>2. \A c \in asked : Order[c] \in Int
    BY <1>1, SlotsAssumption DEF IInv, InputsInv, Order
  <2>3. \A c, d \in asked : Order[c] = Order[d] => c = d
    BY <1>1, SlotsAssumption DEF IInv, InputsInv, Order
  <2> HIDE DEF asked
  <2>4. Cardinality(asked) \in Nat
    BY <2>1, FS_CardinalityType
  <2>5. capacity \in Nat
    BY <2>4, CapacityIsPositive
  <2> HIDE DEF vetoed, capacity
  <2>6. ASSUME NEW v \in [asked -> Values], NEW s \in Antar(asked, vetoed, capacity, v, Order)
        PROVE  /\ s \subseteq asked \ vetoed /\ Cardinality(s) <= capacity
               /\ \A r \in {Everyone(asked, capacity, Order)} \cup Propensity(asked, capacity) :
                    /\ Cardinality(r) + Cardinality(asked \ r) = Cardinality(asked)
                    /\ Net(s, v) >= Net(r \ vetoed, v)
    <3> DEFINE cs == asked \ vetoed
    <3>1. IsFiniteSet(cs) /\ cs \subseteq asked
      BY <2>1, FS_Subset
    <3>2. \A c \in cs : v[c] \in Int
      BY BatchAssumption
    <3>3. Rankable(cs, v, Order)
      BY <2>2, <2>3, <3>1, <3>2 DEF Rankable
    <3>4. Full(cs, capacity, v, s)
      BY <2>5, <3>3, AntarIsFull
    <3>5. s \subseteq cs /\ Cardinality(s) <= capacity
      BY <3>4 DEF Full
    <3>6. ASSUME NEW r \in {Everyone(asked, capacity, Order)} \cup Propensity(asked, capacity)
          PROVE  /\ Cardinality(r) + Cardinality(asked \ r) = Cardinality(asked)
                 /\ Net(s, v) >= Net(r \ vetoed, v)
      <4>1. r \in SUBSET asked /\ Cardinality(r) <= capacity
        BY <2>1, <2>2, <2>3, <2>5, RivalsFit
      <4>2. IsFiniteSet(r)
        BY <2>1, <4>1, FS_Subset
      <4>3. IsFiniteSet(asked \ r)
        BY <2>1, FS_Subset
      <4>4. r \cup (asked \ r) = asked /\ r \cap (asked \ r) = {}
        BY <4>1
      <4>5. Cardinality(asked) = Cardinality(r) + Cardinality(asked \ r)
        BY <4>2, <4>3, <4>4, DisjointCount
      <4> DEFINE u == r \ vetoed
      <4>6. u \in SUBSET cs /\ u \in SUBSET r
        BY <4>1
      <4> HIDE DEF u, cs
      <4>7. Cardinality(u) <= Cardinality(r)
        BY <4>2, <4>6, FS_Subset
      <4>8. IsFiniteSet(u)
        BY <4>2, <4>6, FS_Subset
      <4>9. Cardinality(u) \in Nat
        BY <4>8, FS_CardinalityType
      <4>10. Cardinality(r) \in Nat
        BY <4>2, FS_CardinalityType
      <4>11. Cardinality(u) <= capacity
        BY <2>5, <4>1, <4>7, <4>9, <4>10
      <4>12. Net(s, v) >= Net(u, v)
        BY <2>5, <3>1, <3>2, <3>4, <4>6, <4>11, FullIsBest
      <4>. QED  BY <4>5, <4>12 DEF u
    <3>. QED  BY <3>5, <3>6
  <2>7. \A v \in [asked -> Values] :
          LET Score(chosen) == PolicyOutcome(asked, chosen, v, Cardinality(batch))
              rivals == {Everyone(asked, capacity, Order)} \cup Propensity(asked, capacity)
          IN  \A s \in Antar(asked, vetoed, capacity, v, Order) :
                /\ s \subseteq asked \ vetoed /\ Score(s).contacts <= capacity
                /\ \A r \in rivals :
                     /\ Score(r).contacts + Score(r).abstentions = Score(r).candidates
                     /\ Score(s).net >= Score(r \ vetoed).net
    <3> SUFFICES ASSUME NEW v \in [asked -> Values],
                        NEW s \in Antar(asked, vetoed, capacity, v, Order)
                 PROVE  LET Score(chosen) == PolicyOutcome(asked, chosen, v, Cardinality(batch)) IN
                          /\ s \subseteq asked \ vetoed /\ Score(s).contacts <= capacity
                          /\ \A r \in {Everyone(asked, capacity, Order)} \cup Propensity(asked, capacity) :
                               /\ Score(r).contacts + Score(r).abstentions = Score(r).candidates
                               /\ Score(s).net >= Score(r \ vetoed).net
      OBVIOUS
    <3> DEFINE Score(chosen) == PolicyOutcome(asked, chosen, v, Cardinality(batch))
    <3>1. \A chosen :
            /\ Score(chosen).contacts = Cardinality(chosen)
            /\ Score(chosen).abstentions = Cardinality(asked \ chosen)
            /\ Score(chosen).net = Net(chosen, v) /\ Score(chosen).candidates = Cardinality(asked)
      BY DEF PolicyOutcome
    <3> HIDE DEF Score
    <3>2. /\ s \subseteq asked \ vetoed /\ Score(s).contacts <= capacity
          /\ \A r \in {Everyone(asked, capacity, Order)} \cup Propensity(asked, capacity) :
               /\ Score(r).contacts + Score(r).abstentions = Score(r).candidates
               /\ Score(s).net >= Score(r \ vetoed).net
      BY <2>6, <3>1
    <3>. QED  BY <3>2 DEF Score
  <2>. QED  BY <2>7 DEF RankingsWinOnlyByTheVeto, asked, vetoed, capacity
<1>2. Init => FiniteInv
  BY DEF Init, IsBatch, FiniteInv
<1>. QED  BY <1>1, <1>2, InitIInv, NextIInv, NextFinite, PTL DEF Spec
=============================================================================
