----------------------------- MODULE PolicyGate -----------------------------
(***************************************************************************)
(* antar/policy/gate.py: PolicyGate.submit with the executor it calls, the *)
(* memory it keeps (_by_key and GateCounters), the ledger it writes to and *)
(* the provider behind the executor.  One process submits one action at a  *)
(* time; the process may be killed between any two steps, and its memory   *)
(* is then lost while the ledger and the provider's state are not.         *)
(***************************************************************************)
EXTENDS Integers, Sequences, FiniteSets, FiniteSetsExt

CONSTANTS
  Decisions,          \* decisions handed to submit
  Amount, Discount,   \* amount_paise and discount_paise of each decision
  Intervened,         \* decisions whose chosen intervention is not None
  Tainted,            \* decisions carrying a promotional or contaminated draft
  Keyed,              \* decisions whose executor passes the idempotency key to
                      \* the provider (charges, links); the others deliver a
                      \* message through a transport that knows no keys
  DryRun,             \* gate.dry_run
  PerActionCap, PerDayCap, TotalCap, ApprovalThreshold,   \* GateLimits
  MaxDay, MaxSubmits, MaxRestarts                         \* bounds of the model

ASSUME GateConstants ==
  /\ Amount \in [Decisions -> Int]
  /\ Discount \in [Decisions -> Int]
  /\ Intervened \subseteq Decisions
  /\ Tainted \subseteq Decisions
  /\ Keyed \subseteq Decisions
  /\ DryRun \in BOOLEAN
  /\ PerActionCap \in Nat /\ PerDayCap \in Nat /\ TotalCap \in Nat
  /\ ApprovalThreshold \in Nat
  /\ MaxDay \in Nat /\ MaxSubmits \in Nat /\ MaxRestarts \in Nat

VARIABLES
  cache,        \* _by_key: the records this process has committed
  spentDay,     \* counters.per_day
  spentTotal,   \* counters.per_merchant: every event id has the prefix "evt",
                \* so one counter stands for all merchants
  stage,        \* where the submit in progress is: idle, execute, commit
  action,       \* its ActionRecord (NoAction when idle)
  ledger,       \* the ACTION entries of the audit ledger
  day,          \* clock.now().date()
  submits, restarts,
  taken,        \* external: idempotency keys the provider has acted on
  acts,         \* external: side effects each decision has had
  approvals,    \* auxiliary: decisions submitted with an approver
  moved,        \* auxiliary: what the effects of this life of the process were
                \* worth, by the day of submission and in total
  unheard       \* auxiliary: the part of it of which no answer was heard

memory == <<cache, spentDay, spentTotal>>
world == <<taken, acts, moved>>
vars == <<memory, stage, action, ledger, day, submits, restarts, world, approvals,
          unheard>>

Days == 0 .. MaxDay
NoAction == [decision |-> "none"]

\* A book of money: per day and in total.  Booked adds the amount of an action.
Book == [day: [Days -> Int], total: Int]
NoMoney == [day |-> [t \in Days |-> 0], total |-> 0]
Booked(b, r) == [day   |-> [b.day EXCEPT ![r.day] = @ + r.amount],
                 total |-> b.total + r.amount]

\* Mutant of KeyOf: a fresh key for every attempt.
KeyPerAttempt(d) == <<"idem", d, submits>>

\* pipeline.py submits idempotency_key(decision_id, channel): resubmitting a
\* decision recomputes the same key.
KeyOf(d) == <<"idem", d>>

ActionRecord ==
  [decision: Decisions, key: {KeyOf(d) : d \in Decisions}, amount: Int, day: Days,
   executed: BOOLEAN, dry_run: BOOLEAN, blocked: BOOLEAN,
   requires_human_approval: BOOLEAN, approved: BOOLEAN]

Init ==
  /\ cache = {} /\ spentDay = [t \in Days |-> 0] /\ spentTotal = 0
  /\ stage = "idle" /\ action = NoAction
  /\ ledger = <<>>
  /\ day = 0 /\ submits = 0 /\ restarts = 0
  /\ taken = {} /\ acts = [d \in Decisions |-> 0]
  /\ approvals = {} /\ moved = NoMoney /\ unheard = NoMoney

-----------------------------------------------------------------------------
(* The policy: _check and _needs_approval.                                  *)

BadTerms(d) ==
  \/ Amount[d] < 0 \/ Discount[d] < 0
  \/ Amount[d] > PerActionCap
  \/ Discount[d] > Amount[d]
  \/ d \in Tainted

\* Mutant of OverCap: what is about to be spent is not counted.
OverCapUnprojected(d) == spentDay[day] > PerDayCap \/ spentTotal > TotalCap

OverCap(d) ==
  \/ spentDay[day] + Amount[d] > PerDayCap
  \/ spentTotal + Amount[d] > TotalCap

NeedsApproval(d) == Amount[d] > ApprovalThreshold

-----------------------------------------------------------------------------
(* submit, up to the executor.                                              *)

Cached(d) == \E r \in cache : r.key = KeyOf(d)

\* Mutant of Record: the record is marked executed before the executor ran.
RecordExecutedEarly(d, by) ==
  [decision |-> d, key |-> KeyOf(d), amount |-> Amount[d], day |-> day,
   executed |-> TRUE, dry_run |-> DryRun, blocked |-> FALSE,
   requires_human_approval |-> NeedsApproval(d),
   approved |-> NeedsApproval(d) /\ by]

Record(d, by) ==
  [decision |-> d, key |-> KeyOf(d), amount |-> Amount[d], day |-> day,
   executed |-> FALSE, dry_run |-> DryRun, blocked |-> FALSE,
   requires_human_approval |-> NeedsApproval(d),
   approved |-> NeedsApproval(d) /\ by]

\* A call of submit(d) with or without approved_by; what it does next is the
\* caller's choice of r (the record so far) and s (the stage reached).
Submit(d, by, r, s) ==
  /\ stage = "idle" /\ submits < MaxSubmits
  /\ ~Cached(d) /\ d \in Intervened
  /\ action' = r /\ stage' = s
  /\ submits' = submits + 1
  /\ approvals' = IF by THEN approvals \cup {d} ELSE approvals
  /\ UNCHANGED <<memory, ledger, day, restarts, world, unheard>>

\* A replayed key: the original record is returned and nothing is done.
SubmitReplay(d) ==
  /\ stage = "idle" /\ submits < MaxSubmits
  /\ Cached(d)
  /\ submits' = submits + 1
  /\ UNCHANGED <<memory, stage, action, ledger, day, restarts, world, approvals,
                 unheard>>

SubmitRefused(d, by) ==
  /\ BadTerms(d) \/ OverCap(d)
  /\ Submit(d, by, [Record(d, by) EXCEPT !.blocked = TRUE,
                                         !.requires_human_approval = FALSE,
                                         !.approved = FALSE], "commit")

SubmitAwaitingApproval(d) ==
  /\ ~(BadTerms(d) \/ OverCap(d))
  /\ NeedsApproval(d)
  /\ Submit(d, FALSE, [Record(d, FALSE) EXCEPT !.blocked = TRUE], "commit")

\* Mutant of SubmitPermitted: no approver is asked for.
SubmitUnapproved(d, by, live) ==
  /\ ~(BadTerms(d) \/ OverCap(d))
  /\ Submit(d, by, Record(d, by), IF DryRun \/ ~live THEN "commit" ELSE "execute")

\* live: the caller passed an executor.
SubmitPermitted(d, by, live) ==
  /\ ~(BadTerms(d) \/ OverCap(d))
  /\ NeedsApproval(d) => by
  /\ Submit(d, by, Record(d, by), IF DryRun \/ ~live THEN "commit" ELSE "execute")

-----------------------------------------------------------------------------
(* The executor and the provider (or transport) behind it.                  *)

\* @requires_gate lets only an action the gate did not refuse through.
RequiresGate == stage = "execute" /\ ~action.blocked

\* external: the provider acts on a key it has not seen, and answers one it has
\* with what it did then or with an error; test mode and is_duplicate_charge
\* show both.  An unkeyed transport delivers whatever it is handed.
Effective == action.decision \in Keyed => action.key \notin taken

TakeEffect ==
  /\ Effective
  /\ taken' = IF action.decision \in Keyed THEN taken \cup {action.key} ELSE taken
  /\ acts' = [acts EXCEPT ![action.decision] = @ + 1]
  /\ moved' = Booked(moved, action)

Replayed == ~Effective /\ UNCHANGED world

ExecutorReturns ==
  /\ RequiresGate
  /\ TakeEffect \/ Replayed
  /\ action' = [action EXCEPT !.executed = TRUE]
  /\ stage' = "commit"
  /\ UNCHANGED <<memory, ledger, day, submits, restarts, approvals, unheard>>

\* The executor raises and submit lets the exception through: no counter, no
\* _by_key entry, no ledger entry.  Either nothing happened at the provider,
\* which may have refused or met a replayed key, or the answer was lost.
ExecutorRaises ==
  /\ RequiresGate
  /\ \/ TakeEffect /\ unheard' = Booked(unheard, action)
     \/ UNCHANGED <<world, unheard>>
  /\ action' = NoAction /\ stage' = "idle"
  /\ UNCHANGED <<memory, ledger, day, submits, restarts, approvals>>

-----------------------------------------------------------------------------
(* counters.add and _commit; the ledger may fail after _by_key was set.     *)

Spend(r) == IF r.executed THEN r.amount ELSE 0

Remember ==
  /\ stage = "commit"
  /\ spentDay' = [spentDay EXCEPT ![action.day] = @ + Spend(action)]
  /\ spentTotal' = spentTotal + Spend(action)
  /\ cache' = cache \cup {action}
  /\ action' = NoAction /\ stage' = "idle"
  /\ UNCHANGED <<day, submits, restarts, world, approvals, unheard>>

Commit == Remember /\ ledger' = Append(ledger, action)

LedgerFails == Remember /\ UNCHANGED ledger

\* The worker is killed and started again: what it remembered is gone.
Restart ==
  /\ restarts < MaxRestarts
  /\ cache' = {} /\ spentDay' = [t \in Days |-> 0] /\ spentTotal' = 0
  /\ stage' = "idle" /\ action' = NoAction
  /\ restarts' = restarts + 1
  /\ moved' = NoMoney /\ unheard' = NoMoney
  /\ UNCHANGED <<ledger, day, submits, taken, acts, approvals>>

NextDay ==
  /\ day < MaxDay
  /\ day' = day + 1
  /\ UNCHANGED <<memory, stage, action, ledger, submits, restarts, world, approvals,
                 unheard>>

Next ==
  \/ \E d \in Decisions :
       \/ SubmitReplay(d)
       \/ \E by \in BOOLEAN : SubmitRefused(d, by)
       \/ SubmitAwaitingApproval(d)
       \/ \E by, live \in BOOLEAN : SubmitPermitted(d, by, live)
  \/ ExecutorReturns \/ ExecutorRaises
  \/ Commit \/ LedgerFails
  \/ Restart \/ NextDay

Spec == Init /\ [][Next]_vars

-----------------------------------------------------------------------------
(* Properties.                                                              *)

\* The type invariant of the gate's state.
TypeOK ==
  /\ cache \subseteq ActionRecord
  /\ spentDay \in [Days -> Int] /\ spentTotal \in Int
  /\ stage \in {"idle", "execute", "commit"}
  /\ action \in (IF stage = "idle" THEN {NoAction} ELSE ActionRecord)
  /\ ledger \in Seq(ActionRecord)
  /\ day \in Days
  /\ submits \in 0 .. MaxSubmits /\ restarts \in 0 .. MaxRestarts
  /\ taken \subseteq {KeyOf(d) : d \in Decisions}
  /\ acts \in [Decisions -> Nat]
  /\ approvals \subseteq Decisions
  /\ moved \in Book /\ unheard \in Book

\* No decision is debited twice, whatever the interleaving of crashes, lost
\* answers, failed ledger writes and resubmissions: the key of a decision is
\* the same on every submission and the provider acts on it once
\* (retry_charge.py, ids.idempotency_key).
AtMostOneDebit == \A d \in Keyed : acts[d] <= 1

Eligible(d) ==
  /\ d \in Intervened /\ ~BadTerms(d) /\ ~DryRun
  /\ NeedsApproval(d) => d \in approvals

\* Whatever had an effect in the world had acceptable terms, a chosen
\* intervention, a live gate and, above the threshold, an approver on the call.
EffectsWereAuthorised == \A d \in Decisions : acts[d] > 0 => Eligible(d)

\* Within one life of the process no day and no merchant sees more money move
\* than the cap and the effects whose answers were lost: check and count are
\* separated by the executor's call, midnight may pass between them, and an
\* answer for a replayed key is counted although it moved nothing, yet the caps
\* of _check give way only by what submit was never told of.
CapsHoldInOneLife ==
  /\ moved.total <= TotalCap + unheard.total
  /\ \A t \in Days : moved.day[t] <= PerDayCap + unheard.day[t]

ExecutedEntries(d) ==
  {i \in DOMAIN ledger : ledger[i].decision = d /\ ledger[i].executed}

\* The ledger never claims what did not happen: a decision with an executed
\* ACTION entry had its effect, and each life of the process adds at most one
\* such entry, however often the decision is submitted in it.
LedgerNeverOverstates ==
  \A d \in Decisions :
    /\ ExecutedEntries(d) # {} => acts[d] > 0
    /\ Cardinality(ExecutedEntries(d)) <= restarts + 1

\* The gate and the provider together implement MoneyOnce, debit by debit.
Money == INSTANCE MoneyOnce WITH
  Decisions <- Keyed,
  Acceptable <- {d \in Intervened : ~BadTerms(d)},
  Large <- {d \in Decisions : NeedsApproval(d)},
  approvals <- approvals \cap Keyed,
  debits <- [d \in Keyed |-> acts[d]]

ImplementsMoneyOnce == Money!Spec

-----------------------------------------------------------------------------
(* What the documentation claims and the code does not do.                  *)

\* gate.py: "replaying a key returns the original record rather than acting
\* again. This is what makes a crashed worker safe to restart."  A decision the
\* ledger records as executed would then never act again.
RecordedActionsNeverRepeat ==
  [][\A i \in DOMAIN ledger :
       ledger[i].executed =>
         acts'[ledger[i].decision] = acts[ledger[i].decision]]_vars
=============================================================================
