------------------------------ MODULE Candidates ------------------------------
(***************************************************************************)
(* antar/eval/experiment.py, the half that run_experiment and run_pipeline *)
(* share: what an action on an event of a batch would be, and which of the *)
(* actions the register lets through.  Features, costs and amounts are     *)
(* left out.                                                               *)
(***************************************************************************)
EXTENDS Budgets, Validator

CONSTANTS
  Slots,        \* the events that a batch may have
  Channels      \* available_channels

\* A slot is a failed debit or an abandoned checkout; `terminal' says that the debit
\* fails because the mandate was revoked.  Numbers follow the order of the batch.
ASSUME SlotsAssumption ==
  /\ Slots \subseteq [n: Nat, customer: Customers, at: Nat,
                      loss: {"MANDATE_FAILURE", "CHECKOUT_ABANDON"}, aboveCeiling: BOOLEAN,
                      terminal: BOOLEAN]
  /\ \A e, f \in Slots : (e.n = f.n => e = f) /\ (e.at < f.at => e.n < f.n)
  /\ \A e \in Slots : e.terminal => e.loss = "MANDATE_FAILURE"
  /\ Channels \subseteq Channel

VARIABLE batch        \* batch.events

\* A batch is a list; and the generator stops charging a revoked mandate.
IsBatch(b) ==
  /\ IsFiniteSet(b)
  /\ \A e, f \in b : e.terminal /\ f.customer = e.customer /\ f.loss = "MANDATE_FAILURE" =>
                       f.at <= e.at

\* Mutant of MandateOf: the state before the first event.
MandateAtFirst(u) == "ACTIVE"

\* batch.customers: the record of a customer holds the state in which the simulation
\* left the mandate, also for the events before.
MandateOf(u) ==
  IF \E e \in batch : e.customer = u /\ e.terminal THEN "REVOKED" ELSE "ACTIVE"

\* _candidate: the notice and the hours are lawful by construction.
ScheduledFor(e) == NextContactWindowStart(e.at + LeadHours)

\* The decision to act on an event; of the customer only the mandate is ever other than
\* the generator's default.
Decision(e, channel) ==
  Hydrate([now |-> e.at, scheduledFor |-> ScheduledFor(e), channel |-> channel,
           class |-> "TRANSACTIONAL", requiresAfa |-> e.aboveCeiling,
           aboveCeiling |-> e.aboveCeiling, mandate |-> MandateOf(e.customer),
           optout |-> FALSE, consent |-> "INFERRED", grantedAt |-> None, dnd |-> FALSE,
           promised |-> FALSE, contacts |-> 0, lastContact |-> None], e.customer, e.at)

Candidate(e, channel) == [event |-> e.n, customer |-> e.customer, x |-> Decision(e, channel)]

\* _feasible_actions without the None that is always among them.
FeasibleActions(e) == {c.x.channel : c \in Feasible({Candidate(e, ch) : ch \in Channels})}
=============================================================================
