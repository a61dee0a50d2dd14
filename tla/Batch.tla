--------------------------------- MODULE Batch ---------------------------------
(***************************************************************************)
(* antar/pipeline.py with scripts/run_batch.py: one batch through every    *)
(* layer and into the ledger.  Candidates are the cheapest feasible        *)
(* contacts, the diagnosis may veto them, the allocator selects some under *)
(* a capacity, and then each event in turn is recorded, diagnosed, decided *)
(* and, when an action was chosen, drafted and submitted to a gate that    *)
(* runs dry.  The diagnosis (see Detection) and what the models estimate   *)
(* are inputs here; outcomes are left out but for their entry.             *)
(***************************************************************************)
EXTENDS Candidates, Allocation, Drafting, DecisionTrace

CONSTANTS
  Rank,             \* the channels by cost and then by name
  Diagnosable,      \* the classes that a diagnosis may have
  Values,           \* the net values that an estimate may give a candidate
  Large,            \* the events whose amount the gate would not let through dry
  Client            \* whether the drafter has a model to ask

ASSUME BatchAssumption ==
  /\ Channels \subseteq ContactChannels /\ Channels # {}
  /\ Rank \in [Channels -> Nat] /\ \A c, d \in Channels : Rank[c] = Rank[d] => c = d
  /\ Diagnosable \subseteq FailureClass
  /\ Values \subseteq Int /\ Large \subseteq Slots /\ Client \in BOOLEAN

VARIABLES
  holdout,      \* of each customer, what the hash with the pipeline's salt says
  pc,           \* where the run is
  diagnosis,    \* detection.by_event
  candidates,   \* by_candidate: the channel of each event that the allocator may choose
  value,        \* of each candidate, its net value
  allocation,   \* what solve returned, as far as the loop reads it
  ledger,       \* the entries of batch_<scenario>.db
  tally         \* PipelineResult

inputs == <<history, batch, holdout>>

plan == <<diagnosis, candidates, value, allocation>>

vars == <<inputs, plan, pc, ledger, tally>>

NoAllocation == Allocated({}, {}, FALSE)

NoTally == [events |-> 0, decided |-> 0, control |-> 0, abstained |-> 0, refused |-> 0,
            contacted |-> 0]

Init ==
  /\ HistoryInit
  /\ batch \in {b \in SUBSET Slots : IsBatch(b)}
  /\ holdout \in [Customers -> BOOLEAN]
  /\ pc = "detect" /\ diagnosis = <<>> /\ candidates = <<>>
  /\ value = <<>> /\ allocation = NoAllocation
  /\ ledger = <<>> /\ tally = NoTally

-----------------------------------------------------------------------------
(* Candidates and allocation.                                               *)

\* _build_candidates: the channel of an event's candidate, by cost among the feasible.
Cheapest(feasible) == CHOOSE c \in feasible : \A d \in feasible : Rank[c] <= Rank[d]

HasCandidate(e) == FeasibleActions(e) # {}

\* What is left of the candidates, and their places in the batch.
Problem == DOMAIN candidates

Order == [e \in batch |-> e.n]

\* The candidates that the diagnosis has left are counted.
CapacityOfProblem == Capacity(Cardinality(Problem))

-----------------------------------------------------------------------------
(* Before the loop.                                                         *)

\* _fit_models refuses to go on without enough rows.
NoModel ==
  /\ pc = "detect" /\ pc' = "no_model"
  /\ UNCHANGED <<inputs, plan, ledger, tally>>

Detect ==
  /\ pc = "detect" /\ pc' = "allocate"
  /\ diagnosis' \in [batch -> Diagnosable]
  /\ candidates' = [e \in {f \in batch : HasCandidate(f) /\ ~Vetoed(diagnosis'[f])} |->
                     Cheapest(FeasibleActions(e))]
  /\ UNCHANGED <<inputs, value, allocation, ledger, tally>>

Allocate ==
  /\ pc = "allocate" /\ pc' = "EVENT"
  /\ value' \in [Problem -> Values]
  /\ allocation' \in Allocations(Problem, {CapacityRow(Problem, CapacityOfProblem)}, value', Order)
  /\ UNCHANGED <<inputs, diagnosis, candidates, ledger, tally>>

-----------------------------------------------------------------------------
(* The loop.                                                                *)

\* Every finished turn leaves an OUTCOME, and the batch is walked through in its order.
Finished == {ledger[i].event : i \in {j \in DOMAIN ledger : ledger[j].kind = "OUTCOME"}}

Waiting == {e \in batch : e.n \notin Finished}

Current == CHOOSE e \in Waiting : \A f \in Waiting : e.n <= f.n

\* Mutant of IsControl: the arm is drawn for each event.
IsControlByEvent(e) == holdout[e.customer] # (e.n % 2 = 0)

\* Holdout.is_control_event.
IsControl(e) == holdout[e.customer]

Chosen(e) == e \in Problem /\ e \in allocation.selected /\ ~IsControl(e)

\* Mutant of Constraints: without a binding row there is no reason to give.
ConstraintsOfBinding(e) ==
  {r \in {"NO_FEASIBLE_ACTION"} : e \notin Problem}
  \cup {r \in {"contact_capacity"} :
          e \in Problem \ allocation.selected /\ ~IsControl(e) /\ allocation.binding # {}}
  \cup {r \in {"RANDOMISED_HOLDOUT"} : IsControl(e)}

Constraints(e) ==
  {r \in {"NO_FEASIBLE_ACTION"} : e \notin Problem}
  \cup {r \in {"contact_capacity"} :
          e \in Problem \ allocation.selected /\ ~IsControl(e) /\ allocation.binding # {}}
  \cup {r \in {"VALUE_BELOW_ZERO"} :
          e \in Problem \ allocation.selected /\ ~IsControl(e) /\ allocation.binding = {}}
  \cup {r \in {"RANDOMISED_HOLDOUT"} : IsControl(e)}

\* _rationale, by what the sentence says.
Rationale(e) ==
  IF IsControl(e) THEN "IN_THE_HOLDOUT"
  ELSE IF e \notin Problem THEN "EVERY_CONTACT_WAS_REMOVED_BY_A_RULE"
  ELSE IF Chosen(e) THEN "SELECTED"
  ELSE IF "VALUE_BELOW_ZERO" \in Constraints(e) THEN "WORTH_LESS_THAN_NOTHING"
  ELSE "OTHERS_WERE_WORTH_MORE"

\* The sentences that explain why a feasible contact, or none, was left.
WhyLeftAlone ==
  {"EVERY_CONTACT_WAS_REMOVED_BY_A_RULE", "WORTH_LESS_THAN_NOTHING", "OTHERS_WERE_WORTH_MORE"}

\* An entry of the ledger: its ids and what the properties read of its payload.
Entry(kind, e) ==
  [kind |-> kind, event |-> e.n, decision |-> Missing, action |-> Missing, acts |-> FALSE,
   control |-> FALSE, constraints |-> {}, rationale |-> "", blocked |-> FALSE, promise |-> "NONE",
   scoredHigh |-> FALSE]

DecisionEntry(e) ==
  [Entry("DECISION", e) EXCEPT !.decision = e.n, !.acts = Chosen(e), !.control = IsControl(e),
                               !.constraints = Constraints(e), !.rationale = Rationale(e)]

\* gate.submit in dry_run: nothing is executed, so the counters of the gate stay empty,
\* and the amount and the draft decide.
ActionEntry(e, draft) ==
  [Entry("ACTION", e) EXCEPT !.decision = e.n, !.action = e.n,
                             !.blocked = e \in Large \/ draft.scoredHigh,
                             !.promise = draft.template.promise,
                             !.scoredHigh = draft.scoredHigh]

Write(entry) == ledger' = Append(ledger, entry)

RecordEvent ==
  /\ pc = "EVENT" /\ Waiting # {} /\ pc' = "DIAGNOSIS"
  /\ Write(Entry("EVENT", Current))
  /\ tally' = [tally EXCEPT !.events = @ + 1]
  /\ UNCHANGED <<inputs, plan>>

RecordDiagnosis ==
  /\ pc = "DIAGNOSIS" /\ pc' = "DECISION"
  /\ Write(Entry("DIAGNOSIS", Current))
  /\ UNCHANGED <<inputs, plan, tally>>

RecordDecision ==
  /\ pc = "DECISION" /\ pc' = IF Chosen(Current) THEN "ACTION" ELSE "OUTCOME"
  /\ Write(DecisionEntry(Current))
  /\ tally' = [tally EXCEPT !.decided = @ + 1,
                            !.control = IF IsControl(Current) THEN @ + 1 ELSE @,
                            !.abstained = IF Chosen(Current) THEN @ ELSE @ + 1]
  /\ UNCHANGED <<inputs, plan>>

\* choose_template raises where it has nothing true to say, and nothing catches it.
Act ==
  /\ pc = "ACTION"
  /\ IF HasTemplate(candidates[Current], diagnosis[Current])
     THEN /\ pc' = "OUTCOME"
          /\ \E draft \in Drafts(Template(candidates[Current], diagnosis[Current]), Client) :
               LET entry == ActionEntry(Current, draft) IN
                 /\ Write(entry)
                 /\ tally' = [tally EXCEPT !.refused = IF entry.blocked THEN @ + 1 ELSE @,
                                           !.contacted = IF entry.blocked THEN @ ELSE @ + 1]
     ELSE pc' = "aborted" /\ UNCHANGED <<ledger, tally>>
  /\ UNCHANGED <<inputs, plan>>

RecordOutcome ==
  /\ pc = "OUTCOME" /\ pc' = "EVENT"
  /\ Write(Entry("OUTCOME", Current))
  /\ UNCHANGED <<inputs, plan, tally>>

\* The rest of run_batch.main: the summary is written if the chain verifies (see
\* AuditLedger; somebody may have edited the file) and the null replay agrees.
Finish ==
  /\ pc = "EVENT" /\ Waiting = {}
  /\ \E verifies \in BOOLEAN :
       pc' = IF verifies /\ NullReplay(ledger).diverged = {} THEN "done" ELSE "failed"
  /\ UNCHANGED <<inputs, plan, ledger, tally>>

\* Mutant of Rerun: the second batch is appended to the first.
RerunAppending ==
  /\ pc' = "detect" /\ diagnosis' = <<>> /\ candidates' = <<>> /\ value' = <<>>
  /\ allocation' = NoAllocation /\ tally' = NoTally
  /\ UNCHANGED <<inputs, ledger>>

\* run_batch.main is called again, after the run or after the process was killed or an
\* append raised anywhere in it; it unlinks the ledger that is there.
Rerun ==
  /\ pc' = "detect" /\ diagnosis' = <<>> /\ candidates' = <<>> /\ value' = <<>>
  /\ allocation' = NoAllocation /\ tally' = NoTally /\ ledger' = <<>>
  /\ UNCHANGED inputs

Next ==
  \/ NoModel \/ Detect \/ Allocate \/ RecordEvent \/ RecordDiagnosis \/ RecordDecision \/ Act
  \/ RecordOutcome \/ Finish \/ Rerun

Spec == Init /\ [][Next]_vars

-----------------------------------------------------------------------------
(* Properties.                                                              *)

OfKind(kind) == {i \in DOMAIN ledger : ledger[i].kind = kind}

EventOf(i) == CHOOSE e \in batch : e.n = ledger[i].event

\* The comparison of the policies is about the value function and the diagnosis and not
\* about the solver: whatever a ranking fills the same capacity with, antar loses to it
\* at most the events that the diagnosis took from it, also when the solver gives up and
\* the greedy fallback answers; and each policy accounts for every candidate once.
RankingsWinOnlyByTheVeto ==
  pc = "allocate" =>
    LET asked == {e \in batch : HasCandidate(e)}
        vetoed == {e \in asked : Vetoed(diagnosis[e])}
        capacity == Capacity(Cardinality(asked))
    IN  \A v \in [asked -> Values] :
          LET Score(chosen) == PolicyOutcome(asked, chosen, v, Cardinality(batch))
              rivals == {Everyone(asked, capacity, Order)} \cup Propensity(asked, capacity)
          IN  \A s \in Antar(asked, vetoed, capacity, v, Order) :
                /\ s \subseteq asked \ vetoed /\ Score(s).contacts <= capacity
                /\ \A r \in rivals :
                     /\ Score(r).contacts + Score(r).abstentions = Score(r).candidates
                     /\ Score(s).net >= Score(r \ vetoed).net

\* What is on record as the reason for leaving an event alone fits the values: with a
\* solved program, VALUE_BELOW_ZERO is never said of an event that was worth a message,
\* and capacity is blamed only where enough others were worth as much.  (An event worth
\* less than nothing may be put down to capacity all the same.  The fallback has no duals
\* and says VALUE_BELOW_ZERO of everything.)
AbstentionsAreExplained ==
  \A i \in OfKind("DECISION") :
    LET e == EventOf(i) IN
      /\ "VALUE_BELOW_ZERO" \in ledger[i].constraints /\ allocation.solved => value[e] <= 0
      /\ "contact_capacity" \in ledger[i].constraints =>
           value[e] = 0 \/ Cardinality({d \in Problem \ {e} : value[d] >= value[e]}) >= CapacityOfProblem

\* pipeline.py, "The holdout never acts": a customer of whom any event was decided in
\* the control arm is the object of no action on any other event, in this run.
HoldoutStaysUntouched ==
  \A i \in OfKind("DECISION"), j \in OfKind("ACTION") :
    ledger[i].control => EventOf(i).customer # EventOf(j).customer

\* drafter.py, "promising 'we will try again' is a false statement" where a retry cannot
\* work: no run ends for want of a template, a message announces a retry only where the
\* diagnosis recommends that the debit be rescheduled, and asks the customer to act only
\* where it recommends to contact him.  That takes the veto, the table of recommendations
\* and the table of templates together.  (Of a checkout it says what its class allows,
\* and no more: nothing asks whether there is a debit to be retried.)
MessagesAreTruthful ==
  /\ pc # "aborted"
  /\ \A i \in OfKind("ACTION") :
       LET advice == RECOMMENDATION[diagnosis[EventOf(i)]] IN
         /\ ledger[i].promise = "RETRY" => advice = "RESCHEDULE"
         /\ ledger[i].promise \in {"UPDATE_INSTRUMENT", "AUTHENTICATE"} => advice = "CONTACT"

\* Between two turns the totals of the result are those of the ledger, and every event
\* is accounted for in it once: contacted, refused or left alone.
TalliesMatchLedger ==
  pc = "EVENT" =>
    /\ tally = [events |-> Cardinality(OfKind("EVENT")),
                decided |-> Cardinality(OfKind("DECISION")),
                control |-> Cardinality({i \in OfKind("DECISION") : ledger[i].control}),
                abstained |-> Cardinality({i \in OfKind("DECISION") : ~ledger[i].acts}),
                refused |-> Cardinality({i \in OfKind("ACTION") : ledger[i].blocked}),
                contacted |-> Cardinality({i \in OfKind("ACTION") : ~ledger[i].blocked})]
    /\ tally.contacted + tally.refused + tally.abstained = Cardinality(OfKind("OUTCOME"))

\* A payload that lost the id of its event in a partial write, at position i.
PartialWrite(i) == [ledger EXCEPT ![i].event = Missing]

\* trace.py: the traces of the index are identical to those of build_trace, "because a
\* partial write could carry one and not the other": this rests on the order in which
\* the pipeline writes, a decision before what names it.  And a finished turn leaves no
\* gap but that of an action that was not chosen.
TracesAgree ==
  /\ \A log \in {ledger} \cup {PartialWrite(i) : i \in DOMAIN ledger} : \A e \in batch :
       Slice(log, e.n) = Indexed(log, e.n)
  /\ \A i \in OfKind("OUTCOME") :
       LET own == Slice(ledger, ledger[i].event) IN
         /\ Gaps(ledger, own) \subseteq {"ACTION"}
         /\ Gaps(ledger, own) = {} <=> ledger[FirstOfKind(ledger, own, "DECISION")].acts

\* "Why did you contact this customer?" is never answered with two sentences that
\* contradict each other, at no moment of the run: nothing is said to have passed the
\* gate or been refused by it that was not chosen, no event of the holdout to have been
\* acted on, an event that was left alone is never said to have met no constraint, and
\* the recorded rationale goes with the choice and the constraints.
NarrativesAreConsistent ==
  \A e \in batch :
    LET says == Narrative(ledger, Slice(ledger, e.n)) IN
      /\ {"GATE_REFUSED", "GATE_APPROVED"} \cap says # {} => "CHOSE_A_CHANNEL" \in says
      /\ "IN_THE_HOLDOUT" \in says => "CHOSE_NO_ACTION" \in says
      /\ "BEST_MOMENT" \in says => "CHOSE_A_CHANNEL" \in says
      /\ "SELECTED" \in says => {"CHOSE_A_CHANNEL", "BEST_MOMENT"} \subseteq says
      /\ WhyLeftAlone \cap says # {} => {"CHOSE_NO_ACTION", "CONSTRAINED"} \subseteq says
      /\ {"CHOSE_A_CHANNEL", "OUTCOME"} \subseteq says =>
           Cardinality({"GATE_REFUSED", "GATE_APPROVED"} \cap says) = 1

\* replay.py: the null replay is perfect agreement, so that no batch is refused for it,
\* on a ledger cut off at any point and with the id lost from any payload; and what it
\* counts as agreement are decisions, all of those that a trace can reach.
NullReplayAgrees ==
  \A log \in {ledger} \cup {PartialWrite(i) : i \in DOMAIN ledger} :
    LET result == NullReplay(log) IN
      /\ result.diverged = {}
      /\ Cardinality(result.replayed) =
           Cardinality({i \in DOMAIN log : log[i].kind = "DECISION"
                          /\ \E j \in DOMAIN log : log[j].kind = "EVENT" /\ log[j].event = log[i].event})

-----------------------------------------------------------------------------
(* What the record claims and is not so.                                    *)

\* pipeline.py, of an event without a candidate: "No feasible action existed for this
\* event: every candidate contact was removed by a blocking regulation or fell outside
\* the permitted window."
RationaleIsTrue ==
  \A i \in OfKind("DECISION") :
    ledger[i].rationale = "EVERY_CONTACT_WAS_REMOVED_BY_A_RULE" => ~HasCandidate(EventOf(i))
=============================================================================
