# Antar: a verification of its protocols

Antar recovers failed recurring payments: it takes Razorpay's webhooks in, finds out why a payment failed, decides
whether a debit, a payment link or a message is worth it, acts through a policy gate, and writes every step to a
hash-chained ledger. What must not go wrong is a matter of order, of failure and of independent parts that have to
agree: a customer debited twice because a worker died, a cancelled mandate brought back to life by a late webhook, a
contact that was lawful when it was planned and not when it takes place, a holdout that is acted on, a reason on
record that is not the reason, a number in a report that is of another run.

Paths below are relative to `src/antar/`, or to `src/` for `scripts/`, `tests/` and `config/`.

## 1. Inventory

| Component | State it keeps | What is hard | What makes it correct |
|---|---|---|---|
| Policy gate (`policy/gate.py`) and executors (`act/executors/`) | `_by_key`, `GateCounters`, in memory | crash between effect and record; caps read before and counted after the executor; midnight; a failing ledger; a transport without keys | no decision debited twice; caps; the ledger claims nothing that did not happen |
| Sagas (`act/saga.py`) | the `StepState` of each step | crash at any point, repeated recovery, compensations that raise after they worked | the log is true; leftovers are reported; unwinding ends |
| Razorpay client (`signals/razorpay_client.py`) | the breaker | timeouts whose request still arrives; half-open probes | one effect per key; every request ends |
| Audit ledger (`audit/ledger.py`) | the table, the open transaction, `_lock` | threads, failing commits, crashes, edits of the file | the chain verifies when nobody tampered, and does not when somebody did |
| Webhook receiver (`signals/webhook_receiver.py`), mandate registry (`detect/mandate_fsm.py`), downtime registry (`signals/downtime.py`) | seen deliveries; machines; windows | duplicates, disorder, recording before parsing; old answers of a poll; forgetting | one event per delivery; the end is final; no outage survives its resolution; no hindsight |
| Changepoint detector (`detect/changepoint.py`) | per segment: CUSUM, state, history | warm-up, cap, hysteresis, a moving baseline | the state follows the statistic; past answers stand |
| Root cause, taxonomy, classifier (`detect/`) | a fitted model | nine sources in one order | evidence never recommends a costly action; a declared outage is waited out where the cross-check is on |
| Compiler, validator, budgets, regulations (`policy/`) | `ContactLedger` | one set of rules written three times; judged when an event occurs, acted on later | contact limits hold; the opinions agree |
| Decision layer (`decide/`) | fitted learners | duals of another optimum, a fallback, a veto before the solver | no ranking does better for a reason of the solver's; reasons are true |
| Batch pipeline (`pipeline.py`, `scripts/run_batch.py`) | the run under way | the same event is seen by seven layers; a rerun over a killed run | the holdout is left alone; totals are those of the ledger |
| Drafter (`act/drafter.py`, `contamination.py`, `templates/`) | failures | a class without a template; an answer that fails late | no untrue message; nothing passes with a high score |
| Trace and replay (`audit/trace.py`, `replay.py`) | `TraceIndex` | two ways to group the same entries, ids lost | both give one trace; the null replay agrees |
| Holdout (`eval/holdout.py`) | none | decided event by event | a customer is on one side |
| Evaluation (`eval/`) and its scripts | the contacts of an experiment; `artifacts/`, `RESULTS.md`, `retention.json` | stages that fail, artifacts that stay, a report that raises | a number is of this run or its stage is named; a verdict rests on a measurement |
| Simulator (`simulator/`) | the world of a batch | the counterfactual drawn beside the outcome | what is drawn is what the logged truth says |
| Console (`console/app.py`) | a cached connection | - | it only reads |

How they interact. The simulator makes a batch: events, webhooks, downtimes. `detect/pipeline.py` folds all of it into
the detector and the two registries and diagnoses every event. The experiment walks the batch in time and asks the
compiler, with the contacts so far, what is feasible; its log trains the learners. `run_pipeline` builds candidates
with the same compiler, lets the diagnosis veto some, lets the allocator select under a capacity, and then writes each
event, diagnosis, decision, action and outcome to the ledger, the action after drafter and gate. Trace, replay and
console read the ledger. Live webhooks enter through the receiver; nothing in `antar/` connects it with the registries
(the tests do). A gate with a client, executors and sagas is the path on which money moves; `run_pipeline` gives its
gate no client and runs dry.

## 2. Modules

| Module | Models | Built on |
|---|---|---|
| `PolicyGate` | gate, executor, provider, ledger, clock, restarts | implements `MoneyOnce` |
| `Saga` | a saga with crashes and recoveries | implements `UndoStack` |
| `RazorpayClient` | `request`, breaker, network, provider | implements `RemoteCall` |
| `AuditChain`, `AuditLedger`, `TamperedLedger` | hashes, rows and verification; `append` by threads; edits of the file between appends | the second implements `AppendOnlyLog` |
| `WebhookReceiver`, `MandateRegistry`, `DowntimeRegistry` | one component each | |
| `Signals` | the three with the network, the poller and the clock | extends the three |
| `Changepoint`, `Taxonomy`, `Simulator` | the detector; the tables of causes, reasons and recommendations; the world | |
| `RootCause` | the order of evidence, the cost of an action | the detector, the registries, the table |
| `Detection` | the stack over the simulated world | `RootCause`, `Simulator` |
| `Regulations`, `Compiler`, `Validator`, `Stopping` | rules over one decision; rejections and rows; the second opinion; the reasons to stop | |
| `Budgets`, `Candidates` | the contacts so far; what an action on an event would be | |
| `ResponseModel`, `Experiment` | the probabilities of outcomes; the walk through a batch | `Candidates`, `Stopping` |
| `Allocation`, `Drafting`, `DecisionTrace` | the solver's possible answers and the rival policies; drafts; traces, narratives and replays | |
| `Batch` | `run_pipeline` and `run_batch` | the three, `Candidates` |
| `Evaluation` | `run_evaluation` with the retention loop of `run_allocation` | |
| `MoneyOnce`, `UndoStack`, `RemoteCall`, `AppendOnlyLog` | what a component promises, with nothing of how | |
| `MC*` | small instances | |
| `*Proofs` | theorems; those on `Evaluation` are in `ExperimentProofs`, those on `TamperedLedger` in `AuditLedgerProofs` | |

Definitions that begin with "Mutant of" are the plausible errors that the runs are tried against.

**PolicyGate.** `submit` is two steps and a commit: `SubmitReplay`, `SubmitRefused`, `SubmitAwaitingApproval` and
`SubmitPermitted` are its ways through the cache, `_check` and `_needs_approval` (`gate.py:239-311`);
`ExecutorReturns` and `ExecutorRaises` are the executor with the provider, which acts on a key once (`taken`) and may
answer or not, while the message transport takes no key (`notify.py:119`); `Commit` and `LedgerFails` count, set
`_by_key` and write (`:313-317`, `:373-375`). `Restart` empties the memory at any point; `NextDay` may fall between
check and commit. Two books are kept beside the code's counters: the money that moved in this life of the process,
`moved`, and the part of it of which `submit` was never told because the executor raised, `unheard`.

**Saga.** One action per statement that changes something. A call has taken effect or not before its answer is known,
so that `Crash` comes between the effect and the assignment of the state. `state` is durable, as in the chaos tests.
An undo takes effect once per step: refunds and cancellations look the order up first.

**RazorpayClient.** `Request` to `End` is `request`: the breaker is asked before every attempt; a timed-out attempt
may act before or after it is given up (`late`).

**AuditLedger.** A hash is the tuple of what is hashed: collisions are left out. `pending` is the open transaction of
the one connection, which every read of it sees; `CommitFails` leaves the row in it or not, as SQLite may.
`TamperedLedger` adds operators on tables and no behaviour: its properties try the edits on every table that the
threads can write. A row may be changed in any of its columns, deleted, moved or inserted again, then `append` goes
on, and a second edit may cover the first up.

**Signals.** An envelope has one id by its header and one by its content, since `replay` passes none. A parser that
raises leaves the delivery recorded and ends the replay. A replay takes envelopes of any age. `Ask` and `FoldAnswer`
are the ends of a poll. `closed` and `revived` are auxiliary: the outages of whose end the registry was told, and
those that a replayed start has opened again after they were pruned.

**Detection.** The CUSUM is in hundredths and rounded down; what the code compares is compared. `Simulator` charges
each mandate once a cycle and keeps with an event every cause that may have been drawn for it. `Diagnose` is the first
of nine verdicts that holds; the classifier is any answer that its mask allows. The two switches of `build_detector`
decide what of the detector and the downtimes reaches a diagnosis (`View`); neither changes what they record, so the
properties speak of every `Setting` on one behaviour. The shipped configuration has both off. A diagnosis may be asked
for at any moment, which is more than `build_detector` allows: `PastDiagnosesStand` says that this makes no
difference.

**Experiment.** Instants are hours. `Decision` is the context that `_candidate` builds and `hydrate` fills in;
`Feasible` keeps what no blocking rule forbids. Draws are choices among the outcomes of positive probability, and
logged propensities are exact fractions. `Compiled` is what `compile_problem` would keep of all the events to come,
with the contacts of the walk so far: no program of the repository asks that of it, and its rows and the validator are
for it. `SamplingFollowsTheTruth` counts draws: `Sample` maps the unit square, cut into `Draws`, to outcomes in the
way `sample` compares its two uniform numbers.

**Batch.** An action for each entry that is written, because a batch may be killed or an append may raise between any
two (`Rerun` is enabled everywhere). The diagnosis and the estimated values are inputs. The integer program is the set
of selections that may be optimal; the duals are those of the relaxation, which for one capacity row may sit at
another optimum; the greedy fallback is among the answers. Whether the drafter has a model is a constant, `Client`;
`act.llm.enabled` is false in `config/default.yaml`, and what a drafter without a model does is among the answers of
one whose model fails every time. Nobody was contacted before the batch: `run_pipeline` keeps no history (see
`Experiment` for one that grows). A narrative is the set of the sentences said, the recorded rationale among them.

**Evaluation.** An artifact is the number of the run that wrote it, 0 when there is none, or corrupt. A stage may end
well, or badly before, in the middle of, or after writing. The allocation stage writes verdicts on the way, first to
`retention.json` and then into its own artifact (`listed`), from which `RESULTS.md` prints them.

## 3. Runs

| Run | Instance | Distinct states |
|---|---|---|
| `PolicyGate` | a charge, one above the approval threshold, a message, one with a bad draft; caps 3 / 4 / 5; 2 days, 3 submissions, 1 restart | 235 602 |
| `Saga` | 4 steps, the second irreversible; 2 crashes; 3 calls | 8 181 |
| `RazorpayClient` | 2 keys, 3 attempts, threshold 2, reset after 2, time to 4, 3 requests | 44 332 |
| `AuditLedger` | 2 threads, 3 appends, 1 crash, with edits | 30 296 |
| `Signals` | a mandate halted, paused and cancelled; an outage; a body that does not parse; an event not consumed; time to 3 | 183 866 |
| `Detection` | 3 mandates charged three times on one rail; a severe and a mild outage, each absent, hidden or declared; a checkout | 159 741 |
| `Experiment` | 8 possible events of 2 customers: inside and after the cooldown, on both sides of the 30 days, a mandate that ends between two checkouts | 85 936 |
| `Batch` | 1 to 3 of 4 events of 2 customers: a debit above the gate's cap, a checkout, a debit that fails for good or one that fails for now; 3 classes, 2 channels, values below, at and above zero, room for half | 184 120 |
| `Evaluation` | 3 stages (one per scenario or not, one without a section), 2 scenarios, 2 components, 2 evaluations | 3 005 074 |
| `GateReplayAfterRestart`, `KnownPropensity`, `RationaleAfterVeto` | the instances above; each refutes a sentence of the repository | - |

Every bound is a constant of the module it bounds, or a set in the MC module. Why they are enough. The gate needs two
submissions of one decision around a restart and a third decision to fill a cap; the caps are such that the day's, the
total and neither can be the one that bites. The saga needs a reversible step before and after the irreversible one,
and a second crash inside the recovery from the first. The breaker needs a threshold below the number of attempts, so
that it opens inside a request, and time for one half-open period. The ledger needs a failed append between two good
ones and a row with a successor. The signals need every order of the envelopes and one replay; the sets that are
replayed are chosen, because all sets multiply the states by ten and add no case. The detector warms up after 2
observations, so that nine attempts take a segment through alarm and recovery. The experiment has the thresholds of
`config/default.yaml` (window 10 to 21, notice 24 h, cooldown 72 h, 30 days), with a budget of 2 instead of 3, so that
eight events can exceed it. In the batch two events per customer are the least for a split arm, three candidates with
room for half are a capacity that binds, and three values are the least for a tie and a loss; of the classes one is
vetoed, one is retried and one is asked of the customer, and the rest of the table is the provers'. The evaluation
needs an earlier run to leave something behind and one to find it.

`CHECK_DEADLOCK FALSE` stands where the bounds or the end of a batch stop the system.

What the properties say:

* `AtMostOneDebit`, `CapsHoldInOneLife`, `LedgerNeverOverstates`, `ImplementsMoneyOnce`: money moves once per
  decision, debit counted by debit and with authority; within one life of the process no more of it moves than the
  caps and the effects whose answers were lost; and the ledger overstates nothing.
* `LogIsTruthful`, `LeftoversAreReported`, `SettledStepsRest`, `UnwindingFinishes`, `ImplementsUndoStack`: the log is
  true of the world; what is left is reported, but for the one step in doubt; what is settled stays; an unwinding
  ends.
* `EffectAtMostOnce`, `ImplementsRemoteCall`, `RequestsEnd`: one effect per key; no effect and no
  answer of what was not asked; every request ends.
* `ChainVerifies`, `HashSealsLedger`, `EditIsLocated`, `ImplementsAppendOnlyLog`, `LockIsReleased`: no failure looks
  like tampering; a table that verifies and whose last row hashes to the published head is the honest one (`head`
  itself notices only that the tail was cut off); a single edit is found where it was made.
* `OneEventPerDelivery`, `EndedForGood`, `NoPhantomOutage`, `NoHindsight`: see the inventory. An outage of whose end
  the registry was told goes on again only when a start is replayed that was pruned before, and only until its end is
  heard of.
* `AlarmsFollowTheStatistic`, `PastDiagnosesStand`, `EvidenceNeverMisleads`, `DeclaredOutagesAreWaitedOut`: the states
  of a segment are those of its statistic; what is concluded from evidence and not from inference costs nothing,
  whichever cause was drawn; when the cross-check is switched on, a debit that failed in a declared outage is waited
  out. All but the first are about every setting of the two switches.
* `ContactLimitsHold`: budget and cooldown hold at the instants at which contacts take place, though they are asked
  about when the event occurs. This is about the experiment's walk, which feeds its contacts back. `OpinionsAgree`:
  compiler, validator and stopping rules keep the same decisions. `CompiledSelectionsPass`: at any moment of the walk,
  what satisfies the compiler's rows passes the validator. What bites is the cooldown row: a customer has one contact
  of a problem, so that the budget row, whose right side is what the first event has left, follows from it and from
  the budget rule of each candidate. `TerminalCyclesStayLost`: only the register keeps the response model from
  recovering a revoked mandate's cycle. `SamplingFollowsTheTruth`: outcomes come as often as the logged probabilities
  say, and contact never looks as if it retained anybody.
* `RankingsWinOnlyByTheVeto`: no rival policy beats the allocator on the events that the diagnosis left.
  `AbstentionsAreExplained`: the reasons that a solved program records fit the values, as far as they do (see 5).
  `MessagesAreTruthful`: no class is without a template, a retry is announced only where the diagnosis recommends to
  reschedule, and the customer is asked to act only where it recommends to contact him. `NarrativesAreConsistent`: no
  two sentences about an event contradict each other, the recorded rationale among them. `HoldoutStaysUntouched`,
  `TalliesMatchLedger`, `TracesAgree`, `NullReplayAgrees`: about what is written and how it is read back, the last two
  also on a ledger that was cut off or has lost an id.
* `NumbersAreFreshOrNamed`: a number in `RESULTS.md` is of this evaluation or its stage is named by it as failed or
  skipped. `VerdictsRestOnEvidence`: across evaluations a verdict in `retention.json` is that of the last measurement
  which could see an effect, the file never loses all of them, and the verdicts that `RESULTS.md` prints of an
  allocation which neither failed nor was skipped are those on file.

### Fairness

Only where a liveness property needs it, and only for code that cannot wait for ever. `Saga`: weak fairness of
`Progress`, a call that is under way runs on, since the loops are straight-line and each provider call has a timeout;
none for starting a call or for the absence of crashes. `RazorpayClient`: weak fairness of the steps of a request;
every attempt ends by the HTTP timeout and every backoff is finite; nothing is assumed of late requests.
`AuditLedger`: weak fairness of a thread inside the lock, which waits only for SQLite and no longer than its busy
timeout; none for getting the lock. The other systems state no liveness: a batch, an experiment and an evaluation are
loops over a finite list which may be killed at any time.

## 4. What is proved

By TLAPS, for every value of the constants that the modules' assumptions allow: every invariant and every action
property that a passing run checks, and the four implementations. Most `ASSUME`s give constants their types.
`SlotsAssumption` also says that events are numbered in the order of time, as the generator sorts them, and
`LatentsAssumption` that nothing drawn for a customer is negative. `NoticesAreTrue` (the provider does not lie about
an outage) and `RetentionOutlasts` (a window is kept for as long as a redelivery or an answer takes) of `Signals` are
about the environment; they are what `OutagesEnd` rests on. A replay is not bounded by either. A batch is finite,
since it is a list (`IsBatch`).

* `PolicyGateProofs`: `TypeCorrect`, `NoDoubleDebit`, `CapsBoundTheMoney`, `OnlyAuthorisedEffects`, `LedgerIsHonest`,
  `GateImplementsMoneyOnce`. `GateInv` carries what the check established over the executor to the commit: there is
  room under both caps for the action in flight, on the day it was checked; and (`MovedInv`) all money that moved was
  counted, is about to be, or was not heard of. That a debit is not repeated is not in the mapping to `MoneyOnce`,
  whose `Debit` is enabled only once: it is proved from the provider's keys (`DebitInv`). `LedgerInv` adds that a
  claim, in the ledger, in memory or about to be committed, has its effect, and counts one claim of a decision for
  each life.
* `SagaProofs`: `SagaTypeCorrect`, `LogTellsTheTruth`, `LeftoversReported`, `SettledStepsAreFinal`,
  `SagaImplementsUndoStack`. `LoopInv` says how far the loops are, `PrefixInv` that the done steps are a prefix and
  only the last attempted step is in doubt, `WorldInv` what each state means in the world.
* `RazorpayClientProofs`: `ClientTypeCorrect`, `BreakerKeepsQuiet`, `RetriesNeverRepeat`,
  `ClientImplementsRemoteCall`. A key has acted exactly when the provider has taken its token, and nothing is under
  way for a key nobody asked for.
* `AuditLedgerProofs`: `LedgerTypeCorrect`, `UntouchedLedgerVerifies`, `ReturnedIsDurable`, `LedgerImplementsLog`,
  `LedgerIsSealed`, `EditsAreLocated`. The table with its open transaction is chained, and the row that the thread
  inside the lock will insert fits the table as it is now: this is what the lock is for. The last hash of a table that
  verifies lists the links of all its rows, and the head that `append` has published is the last hash of a chained
  table, so that equality of the two means equal contents. `LedgerIsSealed` says it of every sequence of rows, however
  made, and so of the edits of the run; a hash is modelled as the list of what was hashed, so this is for a hash
  without collisions.
* `SignalsProofs`: `DeliveriesCountOnce`, `EndsAreForGood`, `HindsightIsBarred`, `OutagesEnd`. An envelope is recorded
  before it is acted on (`ReceiverInv`). Every state that is not terminal may legally end, so that an event that ends
  a mandate cannot be dropped (`MandateInv`). A window that was pruned was resolved so long ago that nothing sent
  before the end can still be delivered: what is in transit is younger than the retention (`ClosedInv`, `Forgotten`).
* `DetectionProofs`: `AlarmsFollow`, `PastStands`, `OutagesAreWaitedOut`, `EvidenceIsSafe`. A rate stays a rate when
  the baseline is estimated anew, so that every deviation is an integer and the statistic stays under its cap; the
  state then follows it, case by case of `_transition`. The binary search of `health_at` finds the entries up to an
  instant in every record that is sorted by time, and the records are (`HistoryInv`), so that what is appended later
  is not seen. What the outages and the amount leave possible as the cause of a failed debit (`WorldInv`) meets,
  reason by reason, what the sources of evidence conclude.
* `ExperimentProofs`: `ContactLimits`, `LostCycles`, `OneOpinion`, `SelectionsPass`, `SamplingIsTrue`. In a history
  whose contacts are `Spaced` the last one is the latest, so that the one instant which the compiler looks at speaks
  for all; and every contact within thirty days of the new one was counted when the event occurred, because the
  contact is never before the event. A decision of this batch comes down to five rules (`Lawful`), and so does each
  opinion, by its own predicates and thresholds. `OneOpinion` is for batches whose channels are contacts: a silent
  retry is ended by the stopping rule on the budget and not counted by the register. `SelectionsPass` meets each test
  of the validator pair by pair and customer by customer: a later event sees the contacts of the walk through a later
  window, which is no more of them (`LaterSeesNoMore`), so that what the rows allow the first event the validator
  allows the group. `SamplingIsTrue` shows that the draws of an outcome are an interval as long as its probability,
  for any unit and any latents. Also the theorems about `Evaluation`, `NumbersAreFresh` and `VerdictsAreEarned`: every
  stage that has had its turn is skipped, named as failed, or has an artifact of this run, which no later stage
  touches; and from the moment at which the allocation has had its turn without failing, what it lists is what is on
  file, or nothing (`VerdictsInv`).
* `BatchProofs`: `HoldoutUntouched`, `TruthfulMessages`, `TotalsMatch`, `TracesAreOne`, `NarrativesHold`,
  `NullReplayIsPerfect`, `AbstentionsHaveReasons`, `RankingsNeverWin`. Numbers give the batch a least waiting event,
  so that there is a current one, and it stays current until its outcome is written. Every entry is `Truthful` of the
  arm and the diagnosis under which it was written; these stand while there is an entry, because a rerun unlinks the
  ledger. What the diagnosis left has a template, because the veto takes every event of a revoked mandate; a promise
  is that of the template for the diagnosis, which the table of recommendations then has to agree with, class by class
  (`Promised`). Each total is the number of the entries that it counts, and the three endings of a turn add up to the
  outcomes and the one still to be written (`TallyInv`). `LayoutInv` says which kinds of entries an event has so far,
  one of each, in the order of a turn, and what they say. The index, the scan, the narrative and the replay then find
  the same entries, also in a ledger that lost an id (`CutAt`): an entry which is found by a decision comes after it.
  `PricedInv` says that the allocation is an answer of the solver to the batch's values. What the program or the
  greedy fallback selects is `Full`: within the capacity, no candidate outside is worth more than one inside, or than
  nothing while there is room. By sums over sets (`NetSplits`, `NetBounds`) nothing that fits is worth more than a
  full selection, which carries both the comparison of the policies and the reasons on record.

The provers cannot use the library's induction theorems, which take an operator. An argument along a ledger, a record,
a chain or a ranking is therefore put as: there is a least place at which it fails (`LeastNumber`, from the
well-foundedness of the numbers), which is not the first, and the one before it does not fail. Recursive definitions
are recursive functions, unfolded once at that place.

Model-checked only: `UnwindingFinishes`, `RequestsEnd` and `LockIsReleased`, which are liveness under fairness, with
ENABLED, out of the prover's reach. The three refuted sentences have no theorem either.

## 5. Where code and documentation disagree

Three runs refute a sentence:

| Run | Text | Code |
|---|---|---|
| `GateReplayAfterRestart` | "replaying a key returns the original record rather than acting again. This is what makes a crashed worker safe to restart" (`policy/gate.py:16-18`) | `_by_key` is in memory; a message is sent again |
| `RationaleAfterVeto` | "every candidate contact was removed by a blocking regulation or fell outside the permitted window" (`pipeline.py:533-536`) | the diagnosis had vetoed it |
| `KnownPropensity` | "Known, not estimated ... (\|feasible\| - 1) / \|feasible\|" (`decide/uplift/bakeoff.py:171-173`) | rows were treated with one half (`eval/experiment.py:379-381`), and with none at all where nothing is feasible, though one half is logged |

Seen while modelling, without a run of their own:

* Gate and money. Caps are not "checked against the ledger rather than against an in-memory counter that a restart
  would reset" (`gate.py:14-15`): `GateCounters` is in memory and starts empty, so a restart gives the whole caps
  again, and an effect whose executor raised is in no counter. "Every money action ... appears in the audit ledger"
  (`act/executors/__init__.py:3`): not one whose executor raised, and not one whose ledger write failed after
  `_by_key` was set (`gate.py:374`). The idempotency key is said to be derived from the decision "and the attempt
  number" (`ids.py:72`, `retry_charge.py:7-8`); the one caller derives it from the decision and the channel
  (`pipeline.py:493`), and `KeyOf` does the same: with the attempt in it a resubmission would be a second debit
  (`KeyPerAttempt`). A step of a saga killed between its effect and `DONE` is `PENDING` and skipped, so that "no
  orphaned charge" (`saga.py:8-9`) is not so; `SagaResult.clean` (`:94`) is about one call. An executor's exception is
  let through and not recorded (`gate.py:313`, against `retry_charge.py:38-40`). Nothing calls `is_duplicate_charge`
  (`retry_charge.py:75`), so a repeated charge is a rejection. The breaker counts failures that are not retryable
  (`razorpay_client.py:250`, against `:97`).
* Ledger. `append` has no rollback: a row whose commit failed is committed with the next append (`ledger.py:345`),
  against `tests/chaos/test_chaos.py:62` and `:426`, which fail before the INSERT only. `head` reads without the lock
  and returns the stored hash (`:392`); `written_at` is taken before the lock (`:315`). "Publish this and the whole
  chain becomes checkable" (`:390`) is so if the reader recomputes the last row's hash. `verify_chain` ignores the
  column `entry_hash`, and `head` reads nothing else, so the two together accept an UPDATE of the last row's `kind` or
  `written_at`, one of its payload together with `payload_hash`, and an INSERT with a chosen `entry_hash`.
  `HashSealsLedger` compares the recomputed hash with the head that was published, and says of `head` itself only that
  it sees a truncation, which is what `test_ledger.py` tries. The console's cached connection (`console/app.py:70`)
  keeps showing the unlinked file after a rerun.
* Signals. A pause of a halted mandate is illegal and dropped, and `HALTED` is retryable (`mandate_fsm.py:44`, against
  `:137`). `apply_stream` sorts one call only (`:200`). Live delivery goes by the header's id and replay by the
  content's, so an event that was both is accepted twice (`webhook_receiver.py:306`). "A resolved window never reverts
  to started" (`downtime.py:64`) holds for as long as the window is kept: after `prune_resolved` a replay of the
  start, whose age nobody looks at (`webhook_receiver.py:299-306`), opens the outage again, and without an end.
* Detection. Both components are disconnected in the shipped configuration (`config/default.yaml:163-164`, after a
  measurement, `:130-162`): there a declared outage is not heard of and `DeclaredOutagesAreWaitedOut` says nothing,
  while `EvidenceNeverMisleads` and `PastDiagnosesStand` hold as they do with the switches on. A customer's record
  holds the mandate's final state, also for the events before it ended (`MandateOf`). The comment that
  `scripts/run_evaluation.py` writes the verdict into the config (`detect/pipeline.py:64`) is about no code: somebody
  edits the file, and a test compares. `retention.enabled` is called by tests only, and an unmeasured component is
  enabled there.
* Experiment and decisions. An opt-out is never fed back into the contexts that follow. `ContactLedger.ingest`,
  "Rebuilt from the audit ledger on restart" (`policy/budgets.py:54`), is called by nothing. "The holdout never
  trains" (`pipeline.py:20`) does not hold of the pipeline's models: the experiment draws its arms with
  `eval.experiment_salt` and the pipeline with the salt `antar`, since `eval.holdout_salt` is not in the config. The
  capacity is a share of the candidates before the veto in `PolicyRunner` (`policies.py:280`) and after it in the
  pipeline (`pipeline.py:376`), which says that it runs the same policy (`:366-372`). The pipeline's problem has no
  rows (`:375`), so the cooldown within a batch is not enforced there, and the validator is called by tests only. It
  and the stopping rules have defaults of their own (`validator.py:80-85`, `stopping.py:105`); `OpinionsAgree` gives
  all three the thresholds of the configuration and does not compare these. The bake-off "refuses to act" without an
  eligible learner (`bakeoff.py:241`); the pipeline fits `x_learner` whatever it says.
* Records. The greedy fallback has no duals and records `VALUE_BELOW_ZERO` of events that were worth a message; a
  solved program with a binding capacity blames it also for events worth less than nothing (`AbstentionsAreExplained`
  is stated for what does hold, and its theorem for no more). Holdout customers take up capacity. A checkout by SMS or
  voice gets the template that announces a retry when its class is one for which a debit would be retried
  (`MessagesAreTruthful` asks for what the class allows and not for what was lost). A contaminated draft falls back to
  a clean body "and is what gets sent" (`drafter.py:311-313`), but the score of the attempt goes with it and the gate
  refuses it. The narrative's "waiting for a person" (`audit/trace.py:260`) cannot be reached in a dry run.
* Evaluation. "RESULTS.md names the missing numbers" (`run_evaluation.py:200`): a failed stage whose artifact of an
  earlier run is there fills its section with it; it is named in the console output and in `artifacts/evaluation.json`
  (`:184`), not in `RESULTS.md`. When antar and propensity did the same, `_section_allocation` divides by zero
  (`:432`) and the old file stays. A run that adjudicates one component drops the standing verdict of the other
  (`run_allocation.py:225`), although that "remains in force" (`:191`) and "the standing one stands" (`:203-204`), and
  a run of another scenario than `DECISION_SCENARIO` (`retention.py:41`) replaces the verdicts as well. No property
  says otherwise.

## 6. Not modelled

* Numerics: the learners, features, off-policy estimators, metrics, the similarity score and the fitting of the
  classifier, the linear program itself, the phase diagram, the specification curve and the claims. They are
  floating-point computations over finished data; where another part reads them, their answer is any value.
* Formats: the fields that the parsers fill, signature checks, the text of messages and reports, the wrappers of the
  endpoints, reads without a key, titles and citations of the regulations.
* Tallies of simulated outcomes in `run_pipeline`, `max_events`, the validation mode of the response model, discounts
  and the times at which a recovery comes.
* The console, which only reads.

`PolicyGate` and `RazorpayClient` each have their own simple provider and are not composed: what the gate needs of the
client is `RemoteCall`.
