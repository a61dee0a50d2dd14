------------------------------ MODULE Experiment ------------------------------
(***************************************************************************)
(* antar/eval/experiment.py: a simulated batch is walked through in the    *)
(* order of time.  Each event gets its feasible set from the compiler and  *)
(* the contacts so far, an arm, an action, and an outcome from             *)
(* antar/simulator/response_model.py, whose draws are choices among the    *)
(* outcomes of positive probability.  The validation mode of the response  *)
(* model is left out.                                                      *)
(***************************************************************************)
EXTENDS Candidates, Stopping, ResponseModel

CONSTANT Latents     \* what the customers of a batch may be like

\* Nothing that is drawn for a customer is negative; the caps are the response model's.
ASSUME LatentsAssumption ==
  Latents \subseteq [heal: Nat, ceiling: Nat, fit: Nat, hazard: Nat, churn: BOOLEAN]

VARIABLES
  arms,         \* of each customer, what the hash of the holdout says
  done,         \* the events that have been processed
  row           \* the row of the log that was written last

vars == <<history, batch, arms, done, row>>

NoRow == [outcome |-> "NONE"]

Init ==
  /\ HistoryInit
  /\ batch \in {b \in SUBSET Slots : IsBatch(b)}
  /\ arms \in [Customers -> {"CONTROL", "TREATMENT"}]
  /\ done = {} /\ row = NoRow

-----------------------------------------------------------------------------
(* _assign: the action, the logged propensity as a fraction, and whether it  *)
(* was explored.                                                            *)

Assignment(action, propensity, explored) ==
  [action |-> action, propensity |-> propensity, explored |-> explored]

Control == {Assignment("none", <<1, 1>>, FALSE)}

\* Treatment is drawn first and then the channel.
Explore(feasible) ==
  {Assignment("none", <<1, 2>>, TRUE)}
  \cup {Assignment(a, <<1, 2 * Cardinality(feasible)>>, TRUE) : a \in feasible}

\* external: a policy may choose anything feasible, or there is none.
Exploit(feasible) == {Assignment(a, <<1, 1>>, FALSE) : a \in {"none"} \cup feasible}

Assignments(e) ==
  IF arms[e.customer] = "CONTROL" THEN Control
  ELSE Explore(FeasibleActions(e)) \cup Exploit(FeasibleActions(e))

\* external: the class that is behind an event, as the generator has drawn it.
ClassesOf(e) ==
  IF e.terminal THEN {"MANDATE_REVOKED"}
  ELSE {"ISSUER_DOWN", "INSUFFICIENT_FUNDS", "TECHNICAL_DECLINE", "AFA_REQUIRED"}

\* _realise: what may be drawn; an opt-out excludes recovery, and a revoked mandate does
\* not heal by itself.
Outcomes(e, action) ==
  {"OPTOUT", "LOST"} \cup {r \in {"RECOVERED"} : ~e.terminal \/ action # "none"}

\* bakeoff.run_bakeoff: the probability of being treated that the learners are fitted
\* with, as a fraction, from the logged feasible_set_size.
KnownPropensity(size) == IF size > 0 THEN <<size - 1, size>> ELSE <<1, 2>>

-----------------------------------------------------------------------------
(* The loop of run.                                                         *)

Process(e) ==
  /\ \A f \in batch \ done : e.n <= f.n
  /\ \E a \in Assignments(e) : \E o \in Outcomes(e, a.action) :
       /\ row' = [event |-> e, assignment |-> a, outcome |-> o, feasible |-> FeasibleActions(e),
                  feasibleSetSize |-> Cardinality(FeasibleActions(e)) + 1]
       /\ IF a.action \in ContactChannels THEN RecordContact(e.customer, ScheduledFor(e))
                                          ELSE UNCHANGED history
  /\ done' = done \cup {e}
  /\ UNCHANGED <<batch, arms>>

Next == \E e \in batch \ done : Process(e)

Spec == Init /\ [][Next]_vars

-----------------------------------------------------------------------------
(* Properties.                                                              *)

\* No customer is contacted more often than the budget allows in any thirty days, nor
\* twice within the cooldown, although both are asked about when an event occurs and the
\* contact takes place a day or more later, and although events come in any rhythm.
ContactLimitsHold ==
  \A u \in Customers : \A i \in DOMAIN history[u] :
    /\ Cardinality({j \in DOMAIN history[u] :
                      history[u][j] \in history[u][i] - RollingWindow + 1 .. history[u][i]})
         <= ContactsAllowed
    /\ \A j \in DOMAIN history[u] :
         i < j => history[u][j] - history[u][i] >= CooldownHours

\* The compiler, the validator and the stopping rules were written apart, with their
\* own thresholds, and are of one opinion on every decision that comes up: the
\* compiler keeps what the validator finds no fault with, and what the stopping rules
\* end for a reason of the customer's is kept by neither.
OpinionsAgree ==
  \A e \in batch \ done, ch \in Channels :
    LET c == Candidate(e, ch) IN
      /\ Rejections(c) = {} <=> Valid({c})
      /\ Stop(c.x, 0, TRUE, FALSE) # "PROCEED" => ~Valid({c})

\* What compile_problem keeps when it is asked about all the events to come at once.
Compiled == Feasible({Candidate(e, ch) : e \in batch \ done, ch \in Channels})

\* Every selection from what the compiler lets through that satisfies the compiler's
\* rows passes the validator, at every moment of the walk: also when several events of
\* one customer are compiled together, each was judged against the contacts that there
\* were before any of them, and the validator counts those contacts on the first event
\* of the selection where the row counted them on the first that is feasible.
CompiledSelectionsPass ==
  LET fs == Compiled
      rows == Rows(fs)
  IN  \A s \in SUBSET fs : (\A r \in rows : SatisfiedBy(r, s)) => Valid(s)

\* response_model.py says of a revoked mandate that no amount of anything recovers
\* this cycle, but its persuasion does not look at the cause: that a lost cycle stays
\* lost rests on the register, which lets nobody act on a mandate that has ended.
TerminalCyclesStayLost ==
  row # NoRow /\ row.event.terminal => row.outcome # "RECOVERED"

\* The outcomes that are drawn come as often as the truth that is logged beside them
\* says, for the action taken and for the counterfactual alike, so that the difference
\* of the arms estimates true_uplift; and whoever cancels when left alone would also
\* have cancelled when contacted, so that no contact is priced as if it retained anybody
\* and one that persuades nobody is worth nothing.
SamplingFollowsTheTruth ==
  done = {} /\ Cardinality(batch) = 1 =>
    \A e \in batch, l \in Latents, a \in {"none"} \cup Channels : \A class \in ClassesOf(e) :
      LET truth == GroundTruth(l, class, a)
          left == GroundTruth(l, class, "none")
          Drawn(t, outcome) == {d \in Draws : Sample(t, d) = outcome}
      IN  /\ Cardinality(Drawn(truth, "RECOVERED")) = truth.treated
          /\ Cardinality(Drawn(left, "RECOVERED")) = truth.untreated
          /\ Drawn(left, "OPTOUT") \subseteq Drawn(truth, "OPTOUT")
          /\ {Sample(truth, d) : d \in Draws} \subseteq Outcomes(e, a)
          /\ PersuasionProbability(l, a) = 0 => NetValue(truth, 100, 5, 6) <= 0

-----------------------------------------------------------------------------
(* What the bake-off claims and is not so.                                  *)

\* bakeoff.py: "Known, not estimated.  On the exploration split the probability of
\* *being treated* is (|feasible| - 1) / |feasible|."  The rows of that split were drawn
\* with the propensities of Explore, which the row has logged beside the size.
KnownPropensityIsExact ==
  row # NoRow /\ row.assignment.explored =>
    LET known == KnownPropensity(row.feasibleSetSize)
        acting == {a \in Explore(row.feasible) : a.action # "none"}
    IN  \A a \in acting :
          known[1] * a.propensity[2] = known[2] * Cardinality(acting) * a.propensity[1]
=============================================================================
