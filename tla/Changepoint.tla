------------------------------ MODULE Changepoint ------------------------------
(***************************************************************************)
(* antar/detect/changepoint.py: a one-sided CUSUM on the success rate of   *)
(* every segment, and the record of its states that answers questions      *)
(* about the past.                                                         *)
(*                                                                         *)
(* Rates are in thousandths and the CUSUM is in hundredths of the standard *)
(* deviation of the baseline rate, rounded down.  The EWMA is left out: it *)
(* is reported beside the state and decides nothing.  n stops at           *)
(* MinObservations and successes with it, because nothing reads them once  *)
(* the tracker is warm.                                                    *)
(***************************************************************************)
EXTENDS Integers, Sequences, FiniteSets

CONSTANTS
  Segments,
  MinObservations,        \* min_observations
  Allowance,              \* cusum_k
  Degrading,              \* degrading_threshold
  Degraded,               \* degraded_threshold
  RecoveryObservations,   \* recovery_observations
  BaselineWindow          \* baseline_window

ASSUME ThresholdsAssumption ==
  /\ MinObservations \in Nat \ {0}
  /\ Allowance \in Nat \ {0}
  /\ Degrading \in Nat \ {0} /\ Degraded \in Nat /\ Degrading <= Degraded
  /\ RecoveryObservations \in Nat /\ RecoveryObservations > 1
  /\ BaselineWindow \in Nat \ {0}

VARIABLES
  trackers,     \* of each segment, its SegmentTracker
  history,      \* of each segment, the states it was in: <<[at, state], ...>>
  goodRun       \* auxiliary: the successes of each segment since its last failure

detector == <<trackers, history, goodRun>>

Health == {"HEALTHY", "DEGRADING", "DEGRADED", "RECOVERING"}
Alarm == {"DEGRADING", "DEGRADED"}

One == 1000
SigmaFloor == 150
Cap == 3 * Degraded

NewTracker == [n |-> 0, successes |-> 0, baseline |-> One, cusum |-> 0,
               state |-> "HEALTHY", recovering |-> 0, recent |-> <<>>]

DetectorInit ==
  /\ trackers = [s \in Segments |-> NewTracker]
  /\ history = [s \in Segments |-> <<>>]
  /\ goodRun = [s \in Segments |-> 0]

-----------------------------------------------------------------------------
(* SegmentTracker.observe.                                                  *)

Warm(t) == t.n >= MinObservations

\* A success rate under a Beta(1, 1) prior.
Smoothed(successes, n) == (One * (successes + 1)) \div (n + 2)

Root(x) == CHOOSE r \in 0 .. One : r * r <= x /\ x < (r + 1) * (r + 1)

\* The Bernoulli standard deviation at every rate, with its floor.
Sigma ==
  [p \in 0 .. One |->
     LET root == Root(p * (One - p)) IN IF root < SigmaFloor THEN SigmaFloor ELSE root]

ASSUME SigmaAssumption == \A p \in 0 .. One : Sigma[p] \in Nat \ {0}

\* How far an attempt lies below the baseline, in hundredths of a deviation.
Deviation(baseline, success) ==
  (100 * (baseline - (IF success THEN One ELSE 0))) \div Sigma[baseline]

Clamp(x) == IF x < 0 THEN 0 ELSE IF x > Cap THEN Cap ELSE x

Accumulated(t, success) == Clamp(t.cusum + Deviation(t.baseline, success) - Allowance)

Remembered(t, success) ==
  LET r == Append(t.recent, IF success THEN 1 ELSE 0)
  IN  IF Len(r) > BaselineWindow THEN Tail(r) ELSE r

\* The successes in a window.
Ones(r) == Cardinality({i \in DOMAIN r : r[i] = 1})

RecentRate(t) == Smoothed(Ones(t.recent), Len(t.recent))

\* Mutant of Raised: the lower threshold is tested first.
RaisedLowerFirst(t) ==
  [t EXCEPT !.recovering = 0,
     !.state = IF t.state = "DEGRADED" THEN "DEGRADED" ELSE "DEGRADING"]

\* A degraded segment does not step back to degrading, which would read as an
\* improvement.
Raised(t) ==
  [t EXCEPT !.recovering = 0,
     !.state = IF t.cusum >= Degraded \/ t.state = "DEGRADED" THEN "DEGRADED"
                                                              ELSE "DEGRADING"]

Recovers(t) == [t EXCEPT !.state = "RECOVERING", !.recovering = 1]

\* Enough quiet observations re-estimate the baseline and start afresh.
Recovered(t) ==
  IF t.recovering + 1 >= RecoveryObservations
  THEN [t EXCEPT !.recovering = @ + 1, !.state = "HEALTHY", !.baseline = RecentRate(t),
                 !.cusum = 0]
  ELSE [t EXCEPT !.recovering = @ + 1]

\* _transition, on a tracker whose statistic is up to date.
Judgement(t) ==
  CASE t.cusum >= Degrading -> Raised(t)
    [] t.cusum < Degrading /\ t.state \in Alarm -> Recovers(t)
    [] t.cusum < Degrading /\ t.state = "RECOVERING" -> Recovered(t)
    [] t.cusum < Degrading /\ t.state = "HEALTHY" -> t

\* The baseline is learnt before anything is judged against it.
Learned(t, success) ==
  LET s == t.successes + (IF success THEN 1 ELSE 0)
  IN  [t EXCEPT !.n = @ + 1, !.successes = s, !.recent = Remembered(t, success),
                !.baseline = Smoothed(s, t.n + 1), !.state = "HEALTHY"]

Judged(t, success) ==
  Judgement([t EXCEPT !.n = IF Warm(t) THEN @ ELSE @ + 1, !.recent = Remembered(t, success),
                       !.cusum = Accumulated(t, success)])

Folded(t, success) ==
  IF t.n + 1 < MinObservations THEN Learned(t, success) ELSE Judged(t, success)

\* ChangepointDetector.observe.
Observe(s, success, at) ==
  /\ trackers' = [trackers EXCEPT ![s] = Folded(@, success)]
  /\ history' = [history EXCEPT ![s] = Append(@, [at |-> at, state |-> trackers'[s].state])]
  /\ goodRun' = [goodRun EXCEPT ![s] = IF success THEN @ + 1 ELSE 0]

-----------------------------------------------------------------------------
(* health_at.                                                               *)

\* The binary search for the number of entries at or before an instant.
UpTo(h, when) ==
  LET search[r \in (0 .. Len(h)) \X (0 .. Len(h))] ==   \* r = <<low, high>>
        LET mid == (r[1] + r[2]) \div 2
        IN  IF r[1] >= r[2] THEN r[1]
            ELSE IF h[mid + 1].at <= when THEN search[<<mid + 1, r[2]>>]
            ELSE search[<<r[1], mid>>]
  IN  search[<<0, Len(h)>>]

\* Mutant of HealthAt: the present state answers for the past.
HealthNow(s, when) == trackers[s].state

HealthAt(s, when) ==
  LET n == UpTo(history[s], when) IN IF n = 0 THEN "HEALTHY" ELSE history[s][n].state

DegradedSegments == {s \in Segments : trackers[s].state \in Alarm}

-----------------------------------------------------------------------------
(* Properties.                                                              *)

\* An alarm stands exactly as long as the statistic is at its threshold: it is
\* neither raised by less, nor during the warm-up, nor kept, nor lost, whatever
\* order of good and bad attempts led here; and a recovery is never overdue.
AlarmsFollowTheStatistic ==
  \A s \in Segments :
    LET t == trackers[s] IN
      /\ t.cusum \in 0 .. Cap
      /\ t.state \in Alarm <=> t.cusum >= Degrading
      /\ t.cusum >= Degraded => t.state = "DEGRADED"
      /\ t.state = "RECOVERING" => t.recovering \in 1 .. RecoveryObservations - 1
      /\ ~Warm(t) => t.cusum = 0
=============================================================================
