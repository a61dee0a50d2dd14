---------------------------- MODULE DetectionProofs ----------------------------
(***************************************************************************)
(* Machine-checked facts about Detection, for any segments, thresholds,    *)
(* windows and worlds.  The estimated rates stay rates, so that every      *)
(* deviation is an integer and the statistic stays within its cap; the     *)
(* state follows the statistic, case by case of _transition.  The binary   *)
(* search of health_at finds the entries up to an instant, so that what is *)
(* appended later is not seen; no transition of a mandate precedes a debit *)
(* of it; and what the outages and the amount leave possible for a debit   *)
(* meets, reason by reason, what the sources of evidence conclude.         *)
(***************************************************************************)
EXTENDS Detection, FiniteSetTheorems, SequenceTheorems, WellFoundedInduction, TLAPS

Tracker ==
  [n : Nat, successes : Nat, baseline : 0 .. One, cusum : 0 .. Cap, state : Health,
   recovering : Nat, recent : Seq({0, 1})]

\* What is true of every tracker.
Sound(t) ==
  /\ t \in Tracker
  /\ t.successes <= t.n
  /\ t.state \in Alarm <=> t.cusum >= Degrading
  /\ t.cusum >= Degraded => t.state = "DEGRADED"
  /\ t.state = "RECOVERING" => t.recovering \in 1 .. RecoveryObservations - 1
  /\ ~Warm(t) => t.cusum = 0

DetectorInv == trackers \in [Segments -> Tracker] /\ \A s \in Segments : Sound(trackers[s])

\* What the assumptions say of the constants, and what they make of the cap.
LEMMA Thresholds ==
  /\ One = 1000 /\ Cap = 3 * Degraded /\ Cap \in Nat
  /\ MinObservations \in Nat \ {0} /\ Allowance \in Nat \ {0}
  /\ Degrading \in Nat \ {0} /\ Degraded \in Nat /\ Degrading <= Degraded
  /\ RecoveryObservations \in Nat /\ RecoveryObservations > 1
  /\ BaselineWindow \in Nat \ {0}
BY ThresholdsAssumption DEF One, Cap

\* A quotient of a part by its whole, in thousandths.
LEMMA QuotientIsRate ==
  ASSUME NEW a \in Nat, NEW b \in Nat \ {0}, a <= b
  PROVE  (1000 * a) \div b \in 0 .. 1000
<1> DEFINE q == (1000 * a) \div b
<1>1. q \in Int /\ b * q <= 1000 * a /\ 1000 * a < b * q + b
  OBVIOUS
<1>2. b * q <= b * 1000
  BY <1>1
<1>3. q <= 1000
  <2> SUFFICES ASSUME q >= 1001 PROVE FALSE
    BY <1>1
  <2>1. b * q >= b * 1001
    BY <1>1
  <2>. QED  BY <1>2, <2>1
<1>4. q >= 0
  <2> SUFFICES ASSUME q <= -1 PROVE FALSE
    BY <1>1
  <2>1. b * q <= b * (-1)
    BY <1>1
  <2>. QED  BY <1>1, <2>1
<1>. QED  BY <1>1, <1>3, <1>4

\* Laplace's estimate of a rate is a rate.
LEMMA SmoothedIsRate ==
  ASSUME NEW s \in Nat, NEW n \in Nat, s <= n
  PROVE  Smoothed(s, n) \in 0 .. One
<1>1. (1000 * (s + 1)) \div (n + 2) \in 0 .. 1000
  <2>1. s + 1 \in Nat /\ n + 2 \in Nat \ {0} /\ s + 1 <= n + 2
    OBVIOUS
  <2>. QED  BY <2>1, QuotientIsRate
<1>. QED  BY <1>1 DEF Smoothed, One

\* The rate of the recent window is a rate.
LEMMA RecentIsRate ==
  ASSUME NEW t \in Tracker
  PROVE  RecentRate(t) \in 0 .. One
<1> DEFINE r == t.recent
<1>1. r \in Seq({0, 1})
  BY DEF Tracker
<1>2. Len(r) \in Nat /\ DOMAIN r = 1 .. Len(r)
  BY <1>1
<1>3. IsFiniteSet(1 .. Len(r)) /\ Cardinality(1 .. Len(r)) = Len(r)
  BY <1>2, FS_Interval
<1>4. {i \in DOMAIN r : r[i] = 1} \in SUBSET (1 .. Len(r))
  BY <1>2
<1>5. Ones(r) <= Len(r) /\ IsFiniteSet({i \in DOMAIN r : r[i] = 1})
  BY <1>3, <1>4, FS_Subset DEF Ones
<1>6. Ones(r) \in Nat
  BY <1>5, FS_CardinalityType DEF Ones
<1>. QED  BY <1>2, <1>5, <1>6, SmoothedIsRate DEF RecentRate

\* The window of recent attempts stays a window.
LEMMA RememberedIsWindow ==
  ASSUME NEW t \in Tracker, NEW success \in BOOLEAN
  PROVE  Remembered(t, success) \in Seq({0, 1})
<1> DEFINE r == Append(t.recent, IF success THEN 1 ELSE 0)
<1>1. r \in Seq({0, 1}) /\ r # <<>>
  BY DEF Tracker
<1>2. Tail(r) \in Seq({0, 1})
  BY <1>1
<1>. QED  BY <1>1, <1>2 DEF Remembered

\* The statistic stays within its cap.
LEMMA AccumulatedIsCapped ==
  ASSUME NEW t \in Tracker, NEW success \in BOOLEAN
  PROVE  Accumulated(t, success) \in 0 .. Cap
<1>0. t.baseline \in 0 .. One /\ t.cusum \in 0 .. Cap
  BY DEF Tracker
<1>1. t.baseline \in 0 .. One /\ t.cusum \in Int /\ t.baseline \in Int
  BY <1>0, Thresholds
<1>2. Sigma[t.baseline] \in Nat \ {0}
  BY <1>1, SigmaAssumption
<1> DEFINE deviation == 100 * (t.baseline - (IF success THEN One ELSE 0))
<1>3. deviation \in Int
  BY <1>1, Thresholds
<1>4. deviation \div Sigma[t.baseline] \in Int
  BY <1>2, <1>3
<1>5. Deviation(t.baseline, success) \in Int
  BY <1>4 DEF Deviation
<1> DEFINE x == t.cusum + Deviation(t.baseline, success) - Allowance
<1>6. x \in Int
  BY <1>1, <1>5, Thresholds
<1>7. Clamp(x) \in 0 .. Cap
  BY <1>6, Thresholds DEF Clamp
<1>. QED  BY <1>7 DEF Accumulated

\* Learning the baseline raises nothing.
LEMMA LearnedIsSound ==
  ASSUME NEW t, Sound(t), NEW success \in BOOLEAN, t.n + 1 < MinObservations
  PROVE  Sound(Learned(t, success))
<1> DEFINE s == t.successes + (IF success THEN 1 ELSE 0)
<1>1. t \in Tracker /\ t.n \in Nat /\ t.successes \in Nat /\ t.successes <= t.n
  BY DEF Sound, Tracker
<1>2. ~Warm(t) /\ t.cusum = 0
  BY <1>1, Thresholds DEF Sound, Warm
<1>3. s \in Nat /\ t.n + 1 \in Nat /\ s <= t.n + 1
  BY <1>1
<1>4. Smoothed(s, t.n + 1) \in 0 .. One
  BY <1>3, SmoothedIsRate
<1>5. Remembered(t, success) \in Seq({0, 1})
  BY <1>1, RememberedIsWindow
<1> DEFINE l == [t EXCEPT !.n = @ + 1, !.successes = s, !.recent = Remembered(t, success),
                          !.baseline = Smoothed(s, t.n + 1), !.state = "HEALTHY"]
<1>6. l \in Tracker
  BY <1>1, <1>3, <1>4, <1>5 DEF Tracker, Health
<1>7. /\ l.n = t.n + 1 /\ l.successes = s /\ l.cusum = t.cusum /\ l.state = "HEALTHY"
      /\ l.recovering = t.recovering
  BY <1>1 DEF Tracker
<1>8. l.cusum = 0 /\ ~(l.cusum >= Degrading) /\ ~(l.cusum >= Degraded)
  BY <1>2, <1>7, Thresholds
<1>9. Sound(l)
  BY <1>3, <1>6, <1>7, <1>8 DEF Sound, Alarm
<1>. QED  BY <1>9 DEF Learned

\* _transition puts the state where the statistic is.
LEMMA JudgementIsSound ==
  ASSUME NEW t \in Tracker, t.successes <= t.n, Warm(t),
         t.state = "RECOVERING" => t.recovering \in 1 .. RecoveryObservations - 1
  PROVE  Sound(Judgement(t))
<1>1. t.cusum \in Nat /\ t.recovering \in Nat /\ t.n \in Nat /\ t.successes \in Nat
  BY Thresholds DEF Tracker
<1>2. CASE t.cusum >= Degrading
  <2>1. Judgement(t) = Raised(t)
    BY <1>2, <1>1, Thresholds DEF Judgement
  <2> DEFINE state == IF t.cusum >= Degraded \/ t.state = "DEGRADED" THEN "DEGRADED"
                                                                      ELSE "DEGRADING"
             u == [t EXCEPT !.recovering = 0, !.state = state]
  <2>2. u \in Tracker
    BY DEF Tracker, Health
  <2>3. u.cusum = t.cusum /\ u.n = t.n /\ u.successes = t.successes /\ u.state = state
    BY DEF Tracker
  <2>4. Sound(u)
    BY <1>1, <1>2, <2>2, <2>3 DEF Sound, Alarm, Warm
  <2>. QED  BY <2>1, <2>4 DEF Raised
<1>3. CASE ~(t.cusum >= Degrading)
  <2>0. t.cusum < Degrading /\ ~(t.cusum >= Degraded)
    BY <1>1, <1>3, Thresholds
  <2>1. CASE t.state \in Alarm
    <3>1. Judgement(t) = Recovers(t)
      BY <2>0, <2>1, <1>3 DEF Judgement, Alarm
    <3> DEFINE u == [t EXCEPT !.state = "RECOVERING", !.recovering = 1]
    <3>2. u \in Tracker
      BY DEF Tracker, Health
    <3>3. /\ u.cusum = t.cusum /\ u.n = t.n /\ u.successes = t.successes
          /\ u.state = "RECOVERING" /\ u.recovering = 1
      BY DEF Tracker
    <3>4. 1 \in 1 .. RecoveryObservations - 1
      BY Thresholds
    <3>5. Sound(u)
      BY <1>3, <2>0, <3>2, <3>3, <3>4 DEF Sound, Alarm, Warm
    <3>. QED  BY <3>1, <3>5 DEF Recovers
  <2>2. CASE t.state = "RECOVERING"
    <3>1. Judgement(t) = Recovered(t)
      BY <2>0, <2>2, <1>3 DEF Judgement, Alarm
    <3>2. CASE t.recovering + 1 >= RecoveryObservations
      <4> DEFINE u == [t EXCEPT !.recovering = @ + 1, !.state = "HEALTHY",
                                !.baseline = RecentRate(t), !.cusum = 0]
      <4>0. RecentRate(t) \in 0 .. One /\ 0 \in 0 .. Cap /\ t.recovering + 1 \in Nat
        BY RecentIsRate, <1>1, Thresholds
      <4>1. u \in Tracker
        BY <4>0 DEF Tracker, Health
      <4>2. /\ u.cusum = 0 /\ u.n = t.n /\ u.successes = t.successes /\ u.state = "HEALTHY"
        BY DEF Tracker
      <4>3. ~(u.cusum >= Degrading) /\ ~(u.cusum >= Degraded)
        BY <4>2, Thresholds
      <4>4. Sound(u)
        BY <4>1, <4>2, <4>3 DEF Sound, Alarm, Warm
      <4>. QED  BY <3>1, <3>2, <4>4 DEF Recovered
    <3>3. CASE ~(t.recovering + 1 >= RecoveryObservations)
      <4> DEFINE u == [t EXCEPT !.recovering = @ + 1]
      <4>1. u \in Tracker
        BY <1>1 DEF Tracker
      <4>2. /\ u.cusum = t.cusum /\ u.n = t.n /\ u.successes = t.successes
            /\ u.state = t.state /\ u.recovering = t.recovering + 1
        BY DEF Tracker
      <4>3. u.recovering \in 1 .. RecoveryObservations - 1
        BY <1>1, <3>3, <4>2, Thresholds
      <4>4. Sound(u)
        BY <1>3, <2>0, <2>2, <4>1, <4>2, <4>3 DEF Sound, Alarm, Warm
      <4>. QED  BY <3>1, <3>3, <4>4 DEF Recovered
    <3>. QED  BY <3>2, <3>3
  <2>3. CASE t.state = "HEALTHY"
    <3>1. Judgement(t) = t
      BY <2>0, <2>3, <1>3 DEF Judgement, Alarm
    <3>2. Sound(t)
      BY <1>3, <2>0, <2>3 DEF Sound, Alarm, Warm
    <3>. QED  BY <3>1, <3>2
  <2>. QED  BY <2>1, <2>2, <2>3 DEF Tracker, Health, Alarm
<1>. QED  BY <1>2, <1>3

\* Every attempt leaves a sound tracker sound.
LEMMA FoldedIsSound ==
  ASSUME NEW t, Sound(t), NEW success \in BOOLEAN
  PROVE  Sound(Folded(t, success))
<1>1. t \in Tracker /\ t.n \in Nat /\ t.successes \in Nat /\ t.successes <= t.n
  BY DEF Sound, Tracker
<1>2. CASE t.n + 1 < MinObservations
  BY <1>2, LearnedIsSound DEF Folded
<1>3. CASE ~(t.n + 1 < MinObservations)
  <2> DEFINE n == IF Warm(t) THEN t.n ELSE t.n + 1
             u == [t EXCEPT !.n = n, !.recent = Remembered(t, success),
                            !.cusum = Accumulated(t, success)]
  <2>1. n \in Nat /\ n >= MinObservations /\ t.successes <= n
    BY <1>1, <1>3, Thresholds DEF Warm
  <2>2. u \in Tracker
    BY <1>1, <2>1, RememberedIsWindow, AccumulatedIsCapped DEF Tracker
  <2>3. u.n = n /\ u.successes = t.successes /\ u.state = t.state /\ u.recovering = t.recovering
    BY <1>1 DEF Tracker
  <2>4. Sound(Judgement(u))
    <3>1. Warm(u) /\ u.successes <= u.n
      BY <2>1, <2>3 DEF Warm
    <3>2. u.state = "RECOVERING" => u.recovering \in 1 .. RecoveryObservations - 1
      BY <2>3 DEF Sound
    <3>. QED  BY <2>2, <3>1, <3>2, JudgementIsSound
  <2>5. Judged(t, success) = Judgement(u)
    BY DEF Judged
  <2>. QED  BY <1>3, <2>4, <2>5 DEF Folded
<1>. QED  BY <1>2, <1>3

\* Fresh trackers are sound.
LEMMA InitDetector == Init => DetectorInv
<1> SUFFICES ASSUME Init PROVE DetectorInv
  OBVIOUS
<1>1. NewTracker \in Tracker
  BY Thresholds DEF NewTracker, Tracker, Health
<1>2. Sound(NewTracker)
  BY <1>1, Thresholds DEF NewTracker, Sound, Alarm
<1>. QED  BY <1>1, <1>2 DEF Init, DetectorInit, DetectorInv

\* One segment's tracker folds in the attempt; the others keep still.
LEMMA ObserveKeeps ==
  ASSUME DetectorInv, NEW s \in Segments, NEW success \in BOOLEAN, NEW at, Observe(s, success, at)
  PROVE  DetectorInv'
<1>1. trackers' = [trackers EXCEPT ![s] = Folded(trackers[s], success)]
  BY DEF Observe
<1>2. Sound(Folded(trackers[s], success))
  BY FoldedIsSound DEF DetectorInv
<1>3. trackers' \in [Segments -> Tracker]
  BY <1>1, <1>2 DEF DetectorInv, Sound
<1>4. \A u \in Segments : Sound(trackers'[u])
  BY <1>1, <1>2 DEF DetectorInv
<1>. QED  BY <1>3, <1>4 DEF DetectorInv

\* Only attempts touch the trackers.
LEMMA NextDetector == DetectorInv /\ [Next]_vars => DetectorInv'
<1> SUFFICES ASSUME DetectorInv, [Next]_vars PROVE DetectorInv'
  OBVIOUS
<1>1. ASSUME NEW c \in Customers, Attempt(c) PROVE DetectorInv'
  <2>1. SegmentOf[c] \in Segments
    BY SegmentsAssumption
  <2>2. Observe(SegmentOf[c], TRUE, now) \/ Observe(SegmentOf[c], FALSE, now)
    BY <1>1 DEF Attempt
  <2>. QED  BY <2>1, <2>2, ObserveKeeps
<1>2. CASE UNCHANGED trackers
  BY <1>2 DEF DetectorInv
<1>3. ASSUME NEW s \in CheckoutSegments, Abandon(s) PROVE UNCHANGED trackers
  BY <1>3 DEF Abandon, detector
<1>4. ASSUME NEW e \in stream, FoldWebhook(e) PROVE UNCHANGED trackers
  BY <1>4 DEF FoldWebhook, detector
<1>5. ASSUME ReadWebhooks \/ NextInstant \/ UNCHANGED vars PROVE UNCHANGED trackers
  BY <1>5 DEF ReadWebhooks, NextInstant, vars, detector
<1>. QED  BY <1>1, <1>2, <1>3, <1>4, <1>5 DEF Next

\* For every order of good and bad attempts and every choice of thresholds, an alarm
\* stands exactly as long as the statistic is at its threshold, and never during the
\* warm-up (SegmentTracker.observe and _transition).
THEOREM AlarmsFollow == Spec => []AlarmsFollowTheStatistic
<1>1. DetectorInv => AlarmsFollowTheStatistic
  BY DEF DetectorInv, Sound, Tracker, AlarmsFollowTheStatistic
<1>. QED  BY <1>1, InitDetector, NextDetector, PTL DEF Spec

-----------------------------------------------------------------------------
(* The binary search finds the entries up to an instant.                    *)

LessThan == {p \in Nat \X Nat : p[1] < p[2]}

\* Among numbers there is a least one.
LEMMA LeastNumber ==
  ASSUME NEW S \in SUBSET Nat, S # {}
  PROVE  \E m \in S : \A n \in S : m <= n
<1>1. IsWellFoundedOn(LessThan, Nat)
  <2>1. OpToRel(<, Nat) = LessThan
    BY DEF OpToRel, LessThan
  <2>. QED  BY <2>1, NatLessThanWellFounded
<1>2. PICK m \in S : \A n \in S : ~(<<n, m>> \in LessThan)
  BY <1>1, WFMin
<1>3. ASSUME NEW n \in S PROVE m <= n
  <2>1. ~(<<n, m>> \in LessThan) /\ n \in Nat /\ m \in Nat
    BY <1>2
  <2>2. n < m => <<n, m>> \in LessThan
    BY <2>1 DEF LessThan
  <2>. QED  BY <2>1, <2>2
<1>. QED  BY <1>3

\* Induction over an interval: the set S stands for the property.
LEMMA ByInduction ==
  ASSUME NEW a \in Nat, NEW b \in Nat, NEW S, a \in S,
         \A i \in a .. b - 1 : i \in S => i + 1 \in S
  PROVE  a .. b \subseteq S
<1> DEFINE Bad == {i \in a .. b : i \notin S}
<1> SUFFICES ASSUME Bad # {} PROVE FALSE
  OBVIOUS
<1>1. PICK m \in Bad : \A n \in Bad : m <= n
  <2>1. Bad \in SUBSET Nat
    OBVIOUS
  <2> HIDE DEF Bad
  <2>. QED  BY <2>1, LeastNumber
<1>2. m \in a .. b /\ m \notin S /\ m # a
  BY <1>1
<1>3. m - 1 \in a .. b - 1 /\ (m - 1) + 1 = m
  BY <1>2
<1>4. m - 1 \in S
  BY <1>1, <1>3
<1>. QED  BY <1>2, <1>3, <1>4


\* The first n entries of a history are those at or before an instant.
Boundary(h, when, n) ==
  /\ n \in 0 .. Len(h)
  /\ \A i \in 1 .. n : h[i].at <= when
  /\ \A i \in n + 1 .. Len(h) : ~(h[i].at <= when)

Ranges(h) == (0 .. Len(h)) \X (0 .. Len(h))

\* One step of the loop of health_at, given what the rest of it finds.
Halved(h, when, f, r) ==
  IF r[1] >= r[2] THEN r[1]
  ELSE IF h[(r[1] + r[2]) \div 2 + 1].at <= when THEN f[<<(r[1] + r[2]) \div 2 + 1, r[2]>>]
  ELSE f[<<r[1], (r[1] + r[2]) \div 2>>]

Searches(f, h, when) == f = [r \in Ranges(h) |-> Halved(h, when, f, r)]

\* What the search finds between two bounds when the answer is n.
Found(n, r) == IF r[1] >= r[2] \/ n < r[1] THEN r[1] ELSE IF n > r[2] THEN r[2] ELSE n

\* The middle splits a range into two shorter ones.
LEMMA Middle ==
  ASSUME NEW low \in Nat, NEW high \in Nat, low < high
  PROVE  (low + high) \div 2 \in low .. high - 1
OBVIOUS

\* Each step keeps the answer within the bounds.
LEMMA FoundByHalves ==
  ASSUME NEW h, Len(h) \in Nat, NEW when, NEW n, Boundary(h, when, n), NEW r \in Ranges(h), NEW f,
         r[1] < r[2] => LET mid == (r[1] + r[2]) \div 2 IN
           /\ f[<<mid + 1, r[2]>>] = Found(n, <<mid + 1, r[2]>>)
           /\ f[<<r[1], mid>>] = Found(n, <<r[1], mid>>)
  PROVE  Halved(h, when, f, r) = Found(n, r)
<1> DEFINE low == r[1]
           high == r[2]
           mid == (low + high) \div 2
<1>1. low \in 0 .. Len(h) /\ high \in 0 .. Len(h) /\ n \in 0 .. Len(h)
  BY DEF Ranges, Boundary
<1>2. CASE low >= high
  BY <1>1, <1>2 DEF Halved, Found
<1>3. CASE low < high
  <2>1. mid \in low .. high - 1 /\ mid + 1 \in 1 .. Len(h)
    <3>1. mid \in low .. high - 1
      BY <1>1, <1>3, Middle
    <3> HIDE DEF mid
    <3>. QED  BY <1>1, <3>1
  <2>2. h[mid + 1].at <= when <=> mid + 1 <= n
    <3>1. mid + 1 \in 1 .. n \/ mid + 1 \in n + 1 .. Len(h)
      <4> HIDE DEF mid
      <4>. QED  BY <1>1, <2>1
    <3>2. mid + 1 \in 1 .. n => h[mid + 1].at <= when /\ mid + 1 <= n
      <4> HIDE DEF mid
      <4>. QED  BY <1>1 DEF Boundary
    <3>3. mid + 1 \in n + 1 .. Len(h) => ~(h[mid + 1].at <= when) /\ ~(mid + 1 <= n)
      <4> HIDE DEF mid
      <4>. QED  BY <1>1 DEF Boundary
    <3>. QED  BY <3>1, <3>2, <3>3
  <2>3. Halved(h, when, f, r) = IF h[mid + 1].at <= when THEN Found(n, <<mid + 1, high>>)
                                ELSE Found(n, <<low, mid>>)
    BY <1>1, <1>3 DEF Halved
  <2>4. Found(n, <<mid + 1, high>>)
          = IF mid + 1 >= high \/ n < mid + 1 THEN mid + 1 ELSE IF n > high THEN high ELSE n
    BY DEF Found
  <2>5. Found(n, <<low, mid>>)
          = IF low >= mid \/ n < low THEN low ELSE IF n > mid THEN mid ELSE n
    BY DEF Found
  <2>6. Found(n, r) = IF n < low THEN low ELSE IF n > high THEN high ELSE n
    BY <1>1, <1>3 DEF Found
  <2> HIDE DEF mid, low, high
  <2>. QED  BY <1>1, <1>3, <2>1, <2>2, <2>3, <2>4, <2>5, <2>6
<1>. QED  BY <1>1, <1>2, <1>3

\* The search finds how many entries there are at or before the instant.
LEMMA BinarySearch ==
  ASSUME NEW h, Len(h) \in Nat, NEW when, NEW n, Boundary(h, when, n)
  PROVE  UpTo(h, when) = n
<1> DEFINE L == Len(h)
           g == [r \in Ranges(h) |-> Found(n, r)]
           f == CHOOSE x : Searches(x, h, when)
<1>0. n \in 0 .. L /\ L \in Nat
  BY DEF Boundary
<1>1. ASSUME NEW r \in Ranges(h), r[1] < r[2]
      PROVE  LET mid == (r[1] + r[2]) \div 2 IN
               /\ mid \in Nat /\ r[1] <= mid /\ mid < r[2] /\ r[1] \in 0 .. L /\ r[2] \in 0 .. L
               /\ <<mid + 1, r[2]>> \in Ranges(h) /\ <<r[1], mid>> \in Ranges(h)
  <2>1. r[1] \in 0 .. L /\ r[2] \in 0 .. L
    BY DEF Ranges
  <2> DEFINE mid == (r[1] + r[2]) \div 2
  <2>2. mid \in r[1] .. r[2] - 1
    BY <1>0, <1>1, <2>1, Middle
  <2> HIDE DEF mid
  <2>3. mid \in 0 .. L /\ mid + 1 \in 0 .. L /\ r[1] <= mid /\ mid < r[2] /\ mid \in Nat
    BY <1>0, <1>1, <2>1, <2>2
  <2>4. <<mid + 1, r[2]>> \in Ranges(h) /\ <<r[1], mid>> \in Ranges(h)
    BY <2>1, <2>3 DEF Ranges
  <2>. QED  BY <2>1, <2>3, <2>4 DEF mid
<1>2. \A r \in Ranges(h) : g[r] = Found(n, r)
  OBVIOUS
<1>3. Searches(g, h, when)
  <2>1. ASSUME NEW r \in Ranges(h) PROVE Halved(h, when, g, r) = Found(n, r)
    <3> HIDE DEF g
    <3>1. r[1] < r[2] => LET mid == (r[1] + r[2]) \div 2 IN
             /\ g[<<mid + 1, r[2]>>] = Found(n, <<mid + 1, r[2]>>)
             /\ g[<<r[1], mid>>] = Found(n, <<r[1], mid>>)
      BY <1>1, <1>2
    <3>. QED  BY <1>0, <3>1, FoundByHalves
  <2>2. g = [r \in Ranges(h) |-> Halved(h, when, g, r)]
    BY <2>1
  <2>. QED  BY <2>2 DEF Searches
<1>4. Searches(f, h, when)
  BY <1>3
<1>5. UpTo(h, when) = f[<<0, L>>]
  BY DEF UpTo, Searches, Halved, Ranges
<1> HIDE DEF f, g
<1>6. \A r \in Ranges(h) : f[r] = Halved(h, when, f, r)
  BY <1>4 DEF Searches
<1> DEFINE Good == {k \in Nat : \A r \in Ranges(h) : r[2] - r[1] <= k => f[r] = Found(n, r)}
<1>7. 0 \in Good
  <2> SUFFICES ASSUME NEW r \in Ranges(h), r[2] - r[1] <= 0 PROVE f[r] = Found(n, r)
    OBVIOUS
  <2>1. r[1] \in 0 .. L /\ r[2] \in 0 .. L
    BY DEF Ranges
  <2>2. r[1] >= r[2]
    BY <1>0, <2>1
  <2>. QED  BY <1>6, <2>2 DEF Halved, Found
<1>8. ASSUME NEW k \in 0 .. L - 1, k \in Good
      PROVE  k + 1 \in Good
  <2> SUFFICES ASSUME NEW r \in Ranges(h), r[2] - r[1] <= k + 1 PROVE f[r] = Found(n, r)
    BY <1>0
  <2>1. r[1] < r[2] => LET mid == (r[1] + r[2]) \div 2 IN
           /\ f[<<mid + 1, r[2]>>] = Found(n, <<mid + 1, r[2]>>)
           /\ f[<<r[1], mid>>] = Found(n, <<r[1], mid>>)
    <3> SUFFICES ASSUME r[1] < r[2]
                 PROVE  LET mid == (r[1] + r[2]) \div 2 IN
           /\ f[<<mid + 1, r[2]>>] = Found(n, <<mid + 1, r[2]>>)
           /\ f[<<r[1], mid>>] = Found(n, <<r[1], mid>>)
      OBVIOUS
    <3> DEFINE mid == (r[1] + r[2]) \div 2
               left == <<r[1], mid>>
               right == <<mid + 1, r[2]>>
    <3>1. /\ mid \in Nat /\ r[1] <= mid /\ mid < r[2] /\ r[1] \in 0 .. L /\ r[2] \in 0 .. L
          /\ right \in Ranges(h) /\ left \in Ranges(h)
      BY <1>1
    <3>2. left[1] = r[1] /\ left[2] = mid /\ right[1] = mid + 1 /\ right[2] = r[2]
      OBVIOUS
    <3> HIDE DEF mid, left, right
    <3>3. left[2] - left[1] <= k /\ right[2] - right[1] <= k
      BY <1>0, <3>1, <3>2
    <3>4. f[left] = Found(n, left) /\ f[right] = Found(n, right)
      BY <1>8, <3>1, <3>3
    <3>. QED  BY <3>4 DEF mid, left, right
  <2>. QED  BY <1>0, <1>6, <2>1, FoundByHalves
<1>9. 0 .. L \subseteq Good
  <2> HIDE DEF Good, L
  <2>. QED  BY <1>0, <1>7, <1>8, ByInduction
<1>10. <<0, L>> \in Ranges(h) /\ L \in Good
  BY <1>0, <1>9 DEF Ranges
<1>11. f[<<0, L>>] = Found(n, <<0, L>>)
  BY <1>0, <1>10
<1>12. Found(n, <<0, L>>) = n
  BY <1>0 DEF Found
<1>. QED  BY <1>5, <1>11, <1>12
\* A sequence of numbers that grows has a boundary at every instant.
LEMMA SomeBoundary ==
  ASSUME NEW h, Len(h) \in Nat, NEW when \in Nat, \A i \in 1 .. Len(h) : h[i].at \in Nat,
         \A i, j \in 1 .. Len(h) : i <= j => h[i].at <= h[j].at
  PROVE  \E n : Boundary(h, when, n)
<1> DEFINE Late == {i \in 1 .. Len(h) : ~(h[i].at <= when)}
<1>1. CASE Late = {}
  <2>1. Boundary(h, when, Len(h))
    BY <1>1 DEF Boundary
  <2>. QED  BY <2>1
<1>2. CASE Late # {}
  <2>1. PICK m \in Late : \A i \in Late : m <= i
    <3>1. Late \in SUBSET Nat
      OBVIOUS
    <3> HIDE DEF Late
    <3>. QED  BY <1>2, <3>1, LeastNumber
  <2>2. m \in 1 .. Len(h) /\ m - 1 \in 0 .. Len(h)
    OBVIOUS
  <2>3. \A i \in 1 .. m - 1 : h[i].at <= when
    <3> SUFFICES ASSUME NEW i \in 1 .. m - 1 PROVE h[i].at <= when
      OBVIOUS
    <3>1. i \in 1 .. Len(h) /\ ~(m <= i)
      BY <2>2
    <3>. QED  BY <2>1, <3>1
  <2>4. \A i \in (m - 1) + 1 .. Len(h) : ~(h[i].at <= when)
    <3> SUFFICES ASSUME NEW i \in (m - 1) + 1 .. Len(h) PROVE ~(h[i].at <= when)
      OBVIOUS
    <3>1. i \in 1 .. Len(h) /\ m <= i /\ h[m].at <= h[i].at /\ h[m].at \in Nat /\ h[i].at \in Nat
      BY <2>2
    <3>. QED  BY <2>1, <3>1
  <2>5. Boundary(h, when, m - 1)
    BY <2>2, <2>3, <2>4 DEF Boundary
  <2>. QED  BY <2>5
<1>. QED  BY <1>1, <1>2

-----------------------------------------------------------------------------
(* The world, the machines and the record of the health.                    *)

Debit(e) == e.loss = "MANDATE_FAILURE"

\* What may be the truth of a failed debit, given whether an outage is declared at its time.
Truthful(e) ==
  \/ e.causes = {"ISSUER_DOWN"}
  \/ /\ OverlapAt(e) = "none"
     /\ \/ e.causes = {"MANDATE_REVOKED"}
        \/ e.causes = BaseCauses
        \/ e.causes = BaseCauses \cup {"AFA_REQUIRED"}

EventOK(e) ==
  /\ e.at \in Nat /\ e.at <= now /\ e.segment \in Segments
  /\ Debit(e) => e.sub \in Customers /\ Truthful(e)
  /\ ~Debit(e) => e.sub = NoMandate

EventInv == \A e \in events : EventOK(e)

\* Nothing happens to a mandate after its cancellation: a debit of it is not later.
NotAfter(c, at) ==
  /\ mandate[c] = "REVOKED"
  /\ \A e \in events : Debit(e) /\ e.sub = c => e.at <= at

NoticeOK(w) ==
  /\ w.sub \in Customers /\ w.name = "cancelled" /\ w.at \in Nat
  /\ NotAfter(w.sub, w.at)

NoticeInv == \A w \in webhooks \cup stream : NoticeOK(w)

Machine == [state : State, transitions : Seq(Transition), ignored : Seq(Transition)]

MachineType == machines \in [Subscriptions -> Machine]

MachineInv ==
  /\ MachineType
  /\ \A c \in Customers : \A i \in 1 .. Len(machines[c].transitions) :
       NotAfter(c, machines[c].transitions[i].at)

HealthEntry == [at : Nat, state : Health]

Ordered(h) == \A i, j \in 1 .. Len(h) : i <= j => h[i].at <= h[j].at

HistoryOK(h) == Ordered(h) /\ \A i \in 1 .. Len(h) : h[i].at <= now

HistoryInv ==
  /\ history \in [Segments -> Seq(HealthEntry)]
  /\ \A s \in Segments : HistoryOK(history[s])

DeclaredInv == \A d \in Downtimes : windows[d] \in {NoWindow, outages[d]}

WorldOK == now \in Nat /\ mandate \in [Customers -> {"ACTIVE", "REVOKED"}]

WorldInv == WorldOK /\ EventInv /\ NoticeInv /\ MachineInv /\ HistoryInv /\ DeclaredInv
\* In the beginning nothing has happened.
LEMMA InitWorld == Init => WorldInv
<1> SUFFICES ASSUME Init PROVE WorldInv
  OBVIOUS
<1> USE DEF Init
<1>1. WorldOK /\ EventInv
  BY DEF WorldInit, WorldOK, EventInv
<1>2. NoticeInv
  BY DEF WorldInit, RegistryInit, NoticeInv
<1>3. MachineInv
  <2>1. Fresh \in Machine /\ Len(Fresh.transitions) = 0
    BY DEF Fresh, Machine, State
  <2>2. \A c \in Customers : machines[c] = Fresh
    BY SegmentsAssumption DEF RegistryInit
  <2>3. MachineType
    BY <2>1 DEF RegistryInit, MachineType
  <2>. QED  BY <2>1, <2>2, <2>3 DEF MachineInv
<1>4. HistoryInv
  BY DEF DetectorInit, HistoryInv, HistoryOK, Ordered
<1>5. DeclaredInv
  BY DEF Declared, DeclaredInv
<1>. QED  BY <1>1, <1>2, <1>3, <1>4, <1>5 DEF WorldInv

\* What the declared windows say of an instant is part of the truth about it.
LEMMA NothingDeclared ==
  ASSUME DeclaredInv, ~Outage, NEW e, e.at = now
  PROVE  OverlapAt(e) = "none"
<1>1. \A d \in Downtimes : ~Covers(windows[d], now)
  BY DEF DeclaredInv, Outage, Covers
<1>. QED  BY <1>1 DEF OverlapAt, ActiveAt

\* The causes of a new debit are truthful.
LEMMA DrawnIsTruthful ==
  ASSUME DeclaredInv, NEW c, NEW e, e.at = now,
         e.causes = Drawn(c, Outage) \/ (~Outage /\ e.causes = {"MANDATE_REVOKED"})
  PROVE  Truthful(e)
BY NothingDeclared DEF Drawn, Truthful

\* Time passes, and an event stays what it was.
LEMMA EventStays ==
  ASSUME NEW e, EventOK(e), now \in Nat, now' \in Nat, now <= now', windows' = windows
  PROVE  EventOK(e)'
<1>1. OverlapAt(e)' = OverlapAt(e)
  BY DEF OverlapAt, ActiveAt, Covers
<1>2. Truthful(e)' <=> Truthful(e)
  BY <1>1 DEF Truthful
<1>. QED  BY <1>2 DEF EventOK

\* A notice stays a notice while no debit of its mandate comes after it.
LEMMA NotAfterStays ==
  ASSUME NEW c, NEW at, NotAfter(c, at), mandate'[c] = "REVOKED",
         \A e \in events' : e \in events \/ ~(Debit(e) /\ e.sub = c)
  PROVE  NotAfter(c, at)'
BY DEF NotAfter

\* The three outcomes of a charge.
Silent(c) == UNCHANGED <<events, webhooks, mandate>>

Failed(c) ==
  /\ events' = events \cup {AtRiskEvent(c, Drawn(c, Outage))}
  /\ UNCHANGED <<webhooks, mandate>>

Ended(c) ==
  /\ ~Outage
  /\ events' = events \cup {AtRiskEvent(c, {"MANDATE_REVOKED"})}
  /\ webhooks' = webhooks \cup {[sub |-> c, name |-> "cancelled", at |-> now]}
  /\ mandate' = [mandate EXCEPT ![c] = "REVOKED"]

\* What an attempt does, of either outcome.
LEMMA Attempted ==
  ASSUME NEW c \in Customers, Attempt(c)
  PROVE  /\ UNCHANGED <<now, machines, stream, windows, outages>> /\ mandate[c] = "ACTIVE"
         /\ \E success \in BOOLEAN : Observe(SegmentOf[c], success, now)
         /\ Silent(c) \/ Failed(c) \/ Ended(c)
BY DEF Attempt, registry, Succeeds, Fails, FailsRevoked, Due, Silent, Failed, Ended

\* The fields of a failed debit.
LEMMA DebitFields ==
  ASSUME NEW c \in Customers, NEW causes
  PROVE  LET e == AtRiskEvent(c, causes) IN
           Debit(e) /\ e.sub = c /\ e.segment = SegmentOf[c] /\ e.at = now /\ e.causes = causes
BY DEF AtRiskEvent, Debit

\* A charge adds at most one debit, of this instant and with truthful causes.
LEMMA AttemptKeepsEvents ==
  ASSUME WorldInv, NEW c \in Customers, Attempt(c)
  PROVE  WorldOK' /\ EventInv' /\ DeclaredInv'
<1> USE Attempted
<1>1. WorldOK'
  BY DEF WorldInv, WorldOK, Silent, Failed, Ended
<1>2. DeclaredInv'
  BY DEF WorldInv, DeclaredInv
<1>3. ASSUME NEW causes, causes = Drawn(c, Outage) \/ (~Outage /\ causes = {"MANDATE_REVOKED"})
      PROVE  EventOK(AtRiskEvent(c, causes))
  <2> DEFINE e == AtRiskEvent(c, causes)
  <2>1. Debit(e) /\ e.sub = c /\ e.segment = SegmentOf[c] /\ e.at = now /\ e.causes = causes
    BY DebitFields
  <2> HIDE DEF e
  <2>2. Truthful(e)
    BY <1>3, <2>1, DrawnIsTruthful DEF WorldInv
  <2>3. EventOK(e)
    BY <2>1, <2>2, SegmentsAssumption DEF EventOK, WorldInv, WorldOK
  <2>. QED  BY <2>3 DEF e
<1>4. \A e \in events' : EventOK(e)
  BY <1>3 DEF WorldInv, EventInv, Silent, Failed, Ended
<1>5. EventInv'
  BY <1>4, EventStays DEF EventInv, WorldInv, WorldOK
<1>. QED  BY <1>1, <1>2, <1>5

\* A charge is of an active mandate, so that it comes before the notice of its end.
LEMMA AttemptKeepsNotices ==
  ASSUME WorldInv, NEW c \in Customers, Attempt(c)
  PROVE  NoticeInv' /\ MachineInv'
<1> USE Attempted
<1>1. ASSUME NEW s \in Customers, NEW at, NotAfter(s, at)
      PROVE  NotAfter(s, at)'
  <2>1. s # c
    BY <1>1 DEF NotAfter
  <2>2. mandate'[s] = "REVOKED"
    BY <1>1, <2>1 DEF NotAfter, Silent, Failed, Ended, WorldInv, WorldOK
  <2>3. \A e \in events' : e \in events \/ ~(Debit(e) /\ e.sub = s)
    BY <2>1, DebitFields DEF Silent, Failed, Ended
  <2>. QED  BY <1>1, <2>2, <2>3, NotAfterStays
<1>2. ASSUME NEW w, NoticeOK(w) PROVE NoticeOK(w)'
  BY <1>1, <1>2 DEF NoticeOK
<1>3. ASSUME Ended(c) PROVE NoticeOK([sub |-> c, name |-> "cancelled", at |-> now])'
  <2>1. mandate'[c] = "REVOKED" /\ now \in Nat
    BY <1>3 DEF Ended, WorldInv, WorldOK
  <2>2. \A e \in events' : Debit(e) /\ e.sub = c => e.at <= now
    BY <1>3, <2>1, DebitFields DEF Ended, WorldInv, EventInv, EventOK
  <2>. QED  BY <2>1, <2>2 DEF NoticeOK, NotAfter
<1>4. NoticeInv'
  <2>1. \A w \in webhooks \cup stream : NoticeOK(w)'
    BY <1>2 DEF WorldInv, NoticeInv
  <2>2. \A w \in webhooks' \cup stream' : NoticeOK(w)'
    BY <1>3, <2>1 DEF Silent, Failed, Ended
  <2>. QED  BY <2>2 DEF NoticeInv
<1>5. MachineInv'
  BY <1>1 DEF WorldInv, MachineInv, MachineType
<1>. QED  BY <1>4, <1>5

\* The record of a segment grows at its end, in the order of time.
LEMMA ObserveKeepsHistory ==
  ASSUME WorldOK, HistoryInv, DetectorInv, DetectorInv', NEW s \in Segments,
         NEW success \in BOOLEAN, Observe(s, success, now), now' = now
  PROVE  HistoryInv'
<1> DEFINE h == history[s]
           x == [at |-> now, state |-> trackers'[s].state]
<1>1. trackers'[s].state \in Health
  BY DEF DetectorInv, Tracker
<1>2. x \in HealthEntry /\ x.at = now
  BY <1>1 DEF WorldOK, HealthEntry
<1>3. h \in Seq(HealthEntry) /\ HistoryOK(h)
  BY DEF HistoryInv
<1>4. history' = [history EXCEPT ![s] = Append(h, x)]
  BY DEF Observe
<1> HIDE DEF h, x
<1>5. /\ Append(h, x) \in Seq(HealthEntry) /\ Len(Append(h, x)) = Len(h) + 1
      /\ \A i \in 1 .. Len(h) : Append(h, x)[i] = h[i]
      /\ Append(h, x)[Len(h) + 1] = x
  BY <1>2, <1>3
<1>6. Len(h) \in Nat /\ \A i \in 1 .. Len(h) : h[i].at \in Nat /\ h[i].at <= now
  <2>1. Len(h) \in Nat /\ \A i \in 1 .. Len(h) : h[i] \in HealthEntry
    BY <1>3
  <2>. QED  BY <1>3, <2>1 DEF HistoryOK, HealthEntry
<1>7. HistoryOK(Append(h, x))
  <2> DEFINE g == Append(h, x)
  <2>1. Len(g) = Len(h) + 1 /\ g[Len(h) + 1].at = now
        /\ \A i \in 1 .. Len(h) : g[i].at = h[i].at
    BY <1>2, <1>5
  <2> HIDE DEF g
  <2>2. \A i \in 1 .. Len(g) : i \in 1 .. Len(h) \/ i = Len(h) + 1
    BY <1>6, <2>1
  <2>3. \A i \in 1 .. Len(g) : g[i].at <= now
    BY <1>6, <2>1, <2>2 DEF WorldOK
  <2>4. ASSUME NEW i \in 1 .. Len(g), NEW j \in 1 .. Len(g), i <= j PROVE g[i].at <= g[j].at
    <3>1. CASE j = Len(h) + 1
      BY <2>1, <2>3, <3>1
    <3>2. CASE j \in 1 .. Len(h)
      <4>1. i \in 1 .. Len(h)
        BY <1>6, <2>4, <3>2
      <4>2. h[i].at <= h[j].at
        BY <1>3, <2>4, <3>2, <4>1 DEF HistoryOK, Ordered
      <4>. QED  BY <2>1, <3>2, <4>1, <4>2
    <3>. QED  BY <2>2, <3>1, <3>2
  <2>5. HistoryOK(g)
    BY <2>3, <2>4 DEF HistoryOK, Ordered
  <2>. QED  BY <2>5 DEF g
<1>8. history' \in [Segments -> Seq(HealthEntry)]
  BY <1>4, <1>5 DEF HistoryInv
<1>9. \A u \in Segments : HistoryOK(history'[u])
  BY <1>4, <1>7 DEF HistoryInv
<1>10. \A u \in Segments : HistoryOK(history[u])'
  BY <1>9 DEF HistoryOK
<1>. QED  BY <1>8, <1>10 DEF HistoryInv
\* An abandoned checkout has no mandate.
LEMMA AbandonKeepsWorld ==
  ASSUME WorldInv, NEW s \in CheckoutSegments, Abandon(s)
  PROVE  WorldInv'
<1> DEFINE e == [loss |-> "CHECKOUT_ABANDON", sub |-> NoMandate, cycle |-> 0, segment |-> s,
                 at |-> now, aboveCeiling |-> FALSE, causes |-> {"TECHNICAL_DECLINE"}]
<1>1. /\ UNCHANGED <<now, mandate, webhooks, machines, stream, history, windows, outages>>
      /\ events' = events \cup {e}
  BY DEF Abandon, Abandons, detector, registry
<1>2. ~Debit(e) /\ e.sub = NoMandate /\ e.segment = s /\ e.at = now
  BY DEF Debit
<1> HIDE DEF e
<1>3. EventOK(e)
  BY <1>2, SegmentsAssumption DEF EventOK, WorldInv, WorldOK
<1>4. EventInv'
  BY <1>1, <1>3, EventStays DEF EventInv, WorldInv, WorldOK
<1>5. ASSUME NEW c, NEW at, NotAfter(c, at) PROVE NotAfter(c, at)'
  BY <1>1, <1>2, <1>5 DEF NotAfter
<1>6. NoticeInv'
  <2>1. \A w \in webhooks \cup stream : NoticeOK(w)'
    BY <1>5 DEF WorldInv, NoticeInv, NoticeOK
  <2>. QED  BY <1>1, <2>1 DEF NoticeInv
<1>7. MachineInv'
  BY <1>1, <1>5 DEF WorldInv, MachineInv, MachineType
<1>8. HistoryInv' /\ WorldOK' /\ DeclaredInv'
  BY <1>1 DEF WorldInv, HistoryInv, HistoryOK, Ordered, WorldOK, DeclaredInv
<1>. QED  BY <1>4, <1>6, <1>7, <1>8 DEF WorldInv

\* A cancellation is the only notice there is: folding it in appends it or nothing.
LEMMA Folds ==
  ASSUME MachineType, NEW e \in stream, NoticeOK(e), Fold(e)
  PROVE  /\ stream' = stream \ {e}
         /\ MachineType'
         /\ \A c \in Customers :
              \/ machines'[c].transitions = machines[c].transitions
              \/ /\ c = e.sub
                 /\ machines'[c].transitions
                      = Append(machines[c].transitions, [at |-> e.at, to |-> "REVOKED"])
<1> DEFINE m == machines[e.sub]
           x == [at |-> e.at, to |-> "REVOKED"]
<1>1. e.sub \in Customers /\ e.sub \in Subscriptions /\ e.name = "cancelled" /\ e.at \in Nat
  BY SegmentsAssumption DEF NoticeOK
<1>2. Target[e.name] = "REVOKED" /\ "REVOKED" \in State
  BY <1>1 DEF Target, State
<1>3. m \in Machine
  BY <1>1 DEF MachineType
<1>4. x \in Transition
  BY <1>1, <1>2 DEF Transition
<1>5. m.state \in State /\ m.transitions \in Seq(Transition) /\ m.ignored \in Seq(Transition)
  BY <1>3 DEF Machine
<1> HIDE DEF m, x
<1>6. Append(m.transitions, x) \in Seq(Transition) /\ Append(m.ignored, x) \in Seq(Transition)
  BY <1>4, <1>5
<1>7. stream' = stream \ {e}
  BY DEF Fold, Absorb, IllegalTransition, Move, Take
<1>8. CASE UNCHANGED machines
  BY <1>7, <1>8 DEF MachineType
<1>9. CASE Absorb(e)
  <2>1. machines' = [machines EXCEPT ![e.sub].ignored =
          IF "REVOKED" = m.state THEN m.ignored ELSE Append(m.ignored, x)]
    BY <1>2, <1>9 DEF Absorb, StateOf, m, x
  <2>2. PICK i \in Seq(Transition) : machines' = [machines EXCEPT ![e.sub].ignored = i]
    BY <1>5, <1>6, <2>1
  <2>3. machines' \in [Subscriptions -> Machine]
    BY <1>1, <2>2 DEF MachineType, Machine
  <2>4. \A c \in Customers : machines'[c].transitions = machines[c].transitions
    BY <1>1, <2>2, SegmentsAssumption DEF MachineType, Machine
  <2>. QED  BY <1>7, <2>3, <2>4 DEF MachineType
<1>10. CASE Move(e)
  <2>1. machines' = [machines EXCEPT ![e.sub].state = "REVOKED", ![e.sub].transitions =
          IF "REVOKED" = m.state THEN m.transitions ELSE Append(m.transitions, x)]
    BY <1>2, <1>10 DEF Move, StateOf, m, x
  <2>2. PICK i \in Seq(Transition) :
          /\ i = m.transitions \/ i = Append(m.transitions, x)
          /\ machines' = [machines EXCEPT ![e.sub].state = "REVOKED", ![e.sub].transitions = i]
    BY <1>5, <1>6, <2>1
  <2>3. machines' \in [Subscriptions -> Machine]
    BY <1>1, <1>2, <2>2 DEF MachineType, Machine
  <2>4. \A c \in Customers : c # e.sub => machines'[c] = machines[c]
    BY <1>1, <2>2, SegmentsAssumption DEF MachineType
  <2>5. machines'[e.sub].transitions = i
    BY <1>1, <2>2 DEF MachineType, Machine
  <2>. QED  BY <1>7, <2>2, <2>3, <2>4, <2>5 DEF MachineType, m, x
<1>. QED  BY <1>8, <1>9, <1>10 DEF Fold, IllegalTransition

\* What has been folded in was a notice, and is not before any debit of its mandate.
LEMMA FoldKeepsWorld ==
  ASSUME WorldInv, NEW e \in stream, FoldWebhook(e)
  PROVE  WorldInv'
<1>1. UNCHANGED <<now, mandate, events, webhooks, history, windows, outages>> /\ Fold(e)
  BY DEF FoldWebhook, world, detector
<1>2. NoticeOK(e) /\ MachineType
  BY DEF WorldInv, NoticeInv, MachineInv
<1>3. stream' = stream \ {e} /\ MachineType'
  BY <1>1, <1>2, Folds
<1>4. ASSUME NEW c, NEW at, NotAfter(c, at) PROVE NotAfter(c, at)'
  BY <1>1, <1>4 DEF NotAfter
<1>5. NoticeInv'
  <2>1. \A w \in webhooks \cup stream : NoticeOK(w)'
    BY <1>4 DEF WorldInv, NoticeInv, NoticeOK
  <2>. QED  BY <1>1, <1>3, <2>1 DEF NoticeInv
<1>6. ASSUME NEW c \in Customers, NEW i \in 1 .. Len(machines'[c].transitions)
      PROVE  NotAfter(c, machines'[c].transitions[i].at)
  <2> DEFINE h == machines[c].transitions
             x == [at |-> e.at, to |-> "REVOKED"]
  <2>1. h \in Seq(Transition)
    BY <1>2, SegmentsAssumption DEF MachineType, Machine
  <2>2. \A j \in 1 .. Len(h) : NotAfter(c, h[j].at)
    BY DEF WorldInv, MachineInv
  <2>3. CASE machines'[c].transitions = h
    BY <1>6, <2>2, <2>3
  <2>4. CASE c = e.sub /\ machines'[c].transitions = Append(h, x)
    <3>1. x \in Transition /\ x.at = e.at /\ NotAfter(c, e.at)
      BY <1>2, <2>4 DEF NoticeOK, Transition, State
    <3> HIDE DEF h, x
    <3>2. /\ Len(Append(h, x)) = Len(h) + 1 /\ Len(h) \in Nat /\ Append(h, x)[Len(h) + 1] = x
          /\ \A j \in 1 .. Len(h) : Append(h, x)[j] = h[j]
      BY <2>1, <3>1
    <3>3. i \in 1 .. Len(h) \/ i = Len(h) + 1
      BY <1>6, <2>4, <3>2
    <3>. QED  BY <2>2, <2>4, <3>1, <3>2, <3>3
  <2>. QED  BY <1>1, <1>2, <2>3, <2>4, Folds
<1>7. ASSUME NEW c \in Customers, NEW i \in 1 .. Len(machines'[c].transitions)
      PROVE  NotAfter(c, machines[c].transitions[i].at)'
  BY <1>1, <1>6, <1>7 DEF NotAfter
<1>8. MachineInv'
  BY <1>3, <1>7 DEF MachineInv
<1>9. EventInv'
  BY <1>1, EventStays DEF EventInv, WorldInv, WorldOK
<1>10. HistoryInv' /\ WorldOK' /\ DeclaredInv'
  BY <1>1 DEF WorldInv, HistoryInv, HistoryOK, Ordered, WorldOK, DeclaredInv
<1>. QED  BY <1>5, <1>8, <1>9, <1>10 DEF WorldInv

\* Webhooks change hands and time passes; nothing else happens.
LEMMA OthersKeepWorld ==
  ASSUME WorldInv, ReadWebhooks \/ NextInstant \/ UNCHANGED vars
  PROVE  WorldInv'
<1>1. /\ UNCHANGED <<mandate, events, machines, history, windows, outages>>
      /\ now' = now \/ now' = now + 1
      /\ webhooks' \cup stream' \subseteq webhooks \cup stream
  BY DEF ReadWebhooks, NextInstant, vars, ApplyStream, PassTime, world, detector, registry
<1>2. WorldOK' /\ now \in Nat /\ now <= now'
  BY <1>1 DEF WorldInv, WorldOK
<1>3. ASSUME NEW c, NEW at, NotAfter(c, at) PROVE NotAfter(c, at)'
  BY <1>1, <1>3 DEF NotAfter
<1>4. NoticeInv'
  <2>1. \A w \in webhooks \cup stream : NoticeOK(w)'
    BY <1>3 DEF WorldInv, NoticeInv, NoticeOK
  <2>. QED  BY <1>1, <2>1 DEF NoticeInv
<1>5. MachineInv'
  BY <1>1, <1>3 DEF WorldInv, MachineInv, MachineType
<1>6. EventInv'
  BY <1>1, <1>2, EventStays DEF EventInv, WorldInv, WorldOK
<1>7. DeclaredInv'
  BY <1>1 DEF WorldInv, DeclaredInv
<1>8. HistoryInv'
  <2>1. \A s \in Segments : Ordered(history[s])'
    BY <1>1 DEF WorldInv, HistoryInv, HistoryOK, Ordered
  <2>2. ASSUME NEW s \in Segments, NEW i \in 1 .. Len(history[s])
        PROVE  history[s][i].at <= now'
    <3>1. history[s] \in Seq(HealthEntry) /\ history[s][i].at <= now
      BY DEF WorldInv, HistoryInv, HistoryOK
    <3>2. history[s][i] \in HealthEntry
      BY <3>1
    <3>. QED  BY <1>2, <3>1, <3>2 DEF HealthEntry, WorldOK
  <2>. QED  BY <1>1, <2>1, <2>2 DEF WorldInv, HistoryInv, HistoryOK
<1>. QED  BY <1>2, <1>4, <1>5, <1>6, <1>7, <1>8 DEF WorldInv

\* Each step keeps the world's invariant.
LEMMA NextWorld == DetectorInv /\ DetectorInv' /\ WorldInv /\ [Next]_vars => WorldInv'
<1> SUFFICES ASSUME DetectorInv, DetectorInv', WorldInv, [Next]_vars PROVE WorldInv'
  OBVIOUS
<1>1. ASSUME NEW c \in Customers, Attempt(c) PROVE WorldInv'
  <2>1. HistoryInv'
    BY <1>1, Attempted, ObserveKeepsHistory, SegmentsAssumption DEF WorldInv
  <2>. QED  BY <1>1, <2>1, AttemptKeepsEvents, AttemptKeepsNotices DEF WorldInv
<1>. QED  BY <1>1, AbandonKeepsWorld, FoldKeepsWorld, OthersKeepWorld DEF Next

\* Trackers are sound and the world is in order at every moment.
LEMMA WorldInvariant == Spec => [](DetectorInv /\ WorldInv)
BY InitDetector, InitWorld, NextDetector, NextWorld, PTL DEF Spec
-----------------------------------------------------------------------------
(* What a diagnosis sees of the past.                                       *)

\* No transition of a mandate precedes a debit of it, so that every debit was made
\* on an active mandate.
LEMMA DebitsAreOfActiveMandates ==
  ASSUME WorldInv, NEW e \in events
  PROVE  MandateAt(e) = "ACTIVE"
<1>1. CASE e.sub = NoMandate
  BY <1>1 DEF MandateAt
<1>2. CASE e.sub # NoMandate
  <2>1. Debit(e) /\ e.sub \in Customers /\ e.at \in Nat
    BY <1>2 DEF WorldInv, EventInv, EventOK
  <2> DEFINE ts == machines[e.sub].transitions
  <2>2. ts \in Seq(Transition)
    BY <2>1, SegmentsAssumption DEF WorldInv, MachineInv, MachineType, Machine
  <2>3. \A i \in 1 .. Len(ts) : ts[i].at \in Nat /\ ts[i].at >= e.at
    <3> SUFFICES ASSUME NEW i \in 1 .. Len(ts) PROVE ts[i].at \in Nat /\ ts[i].at >= e.at
      OBVIOUS
    <3>1. NotAfter(e.sub, ts[i].at)
      BY <2>1 DEF WorldInv, MachineInv
    <3>2. e.at <= ts[i].at
      BY <2>1, <3>1 DEF NotAfter
    <3>3. ts[i] \in Transition
      BY <2>2
    <3>. QED  BY <2>1, <3>2, <3>3 DEF Transition
  <2>4. Reached(e.sub, e.at)
          = CHOOSE n \in 0 .. Len(ts) : /\ \A i \in 1 .. n : ts[i].at < e.at
                                        /\ n < Len(ts) => ts[n + 1].at >= e.at
    BY DEF Reached
  <2>5. Len(ts) \in Nat
    BY <2>2
  <2> HIDE DEF ts
  <2>6. /\ 0 \in 0 .. Len(ts) /\ \A i \in 1 .. 0 : ts[i].at < e.at
        /\ 0 < Len(ts) => ts[0 + 1].at >= e.at
    BY <2>3, <2>5
  <2>7. ASSUME NEW n \in 0 .. Len(ts), \A i \in 1 .. n : ts[i].at < e.at
        PROVE  n = 0
    <3> SUFFICES ASSUME n # 0 PROVE FALSE
      OBVIOUS
    <3>1. 1 \in 1 .. n /\ 1 \in 1 .. Len(ts)
      BY <2>5
    <3>. QED  BY <2>1, <2>3, <2>7, <3>1
  <2>8. Reached(e.sub, e.at) = 0
    BY <2>4, <2>6, <2>7
  <2>. QED  BY <1>2, <2>8 DEF MandateAt, StateAt
<1>. QED  BY <1>1, <1>2

ActiveInv == \A e \in events : MandateAt(e) = "ACTIVE"

\* The same of all events.
LEMMA ActiveNow == WorldInv => ActiveInv
BY DebitsAreOfActiveMandates DEF ActiveInv

\* ... and so it is after the step.
LEMMA ActiveThen == WorldInv' => ActiveInv'
BY ActiveNow, PTL

\* The record of a segment has a boundary at every instant.
LEMMA HistoryHasBoundary ==
  ASSUME WorldInv, NEW s \in Segments, NEW when \in Nat
  PROVE  \E n : Boundary(history[s], when, n)
<1>1. history[s] \in Seq(HealthEntry) /\ Ordered(history[s])
  BY DEF WorldInv, HistoryInv, HistoryOK
<1>2. Len(history[s]) \in Nat /\ \A i \in 1 .. Len(history[s]) : history[s][i].at \in Nat
  <2>1. \A i \in 1 .. Len(history[s]) : history[s][i] \in HealthEntry
    BY <1>1
  <2>. QED  BY <1>1, <2>1 DEF HealthEntry
<1>. QED  BY <1>1, <1>2, SomeBoundary DEF Ordered

\* The health at an instant that is over is not changed by an attempt.
LEMMA PastHealthStands ==
  ASSUME WorldInv, NEW s \in Segments, NEW when \in Nat, when < now,
         NEW u \in Segments, NEW success, Observe(u, success, now)
  PROVE  HealthAt(s, when)' = HealthAt(s, when)
<1> DEFINE h == history[s]
<1>1. h \in Seq(HealthEntry) /\ now \in Nat
  BY DEF WorldInv, HistoryInv, WorldOK
<1>2. PICK n : Boundary(h, when, n)
  BY HistoryHasBoundary
<1>3. n \in 0 .. Len(h) /\ Len(h) \in Nat
  BY <1>1, <1>2 DEF Boundary
<1>4. UpTo(h, when) = n
  BY <1>2, <1>3, BinarySearch
<1>5. CASE history'[s] = h
  BY <1>5 DEF HealthAt, UpTo
<1>6. CASE history'[s] # h
  <2> DEFINE x == [at |-> now, state |-> trackers'[u].state]
             g == Append(h, x)
  <2>1. history'[s] = g
    BY <1>6 DEF Observe, WorldInv, HistoryInv
  <2>2. x.at = now
    OBVIOUS
  <2> HIDE DEF x
  <2>3. h \in Seq(HealthEntry \cup {x})
    BY <1>1
  <2>4. /\ Len(g) = Len(h) + 1 /\ g[Len(h) + 1] = x
        /\ \A i \in 1 .. Len(h) : g[i] = h[i]
    BY <2>3
  <2> HIDE DEF g, h
  <2>5. Boundary(g, when, n)
    <3>1. n \in 0 .. Len(g)
      BY <1>3, <2>4
    <3>2. \A i \in 1 .. n : g[i].at <= when
      BY <1>2, <1>3, <2>4 DEF Boundary
    <3>3. ASSUME NEW i \in n + 1 .. Len(g) PROVE ~(g[i].at <= when)
      <4>1. i \in n + 1 .. Len(h) \/ i = Len(h) + 1
        BY <1>3, <2>4
      <4>. QED  BY <1>1, <1>2, <1>3, <2>2, <2>4, <4>1 DEF Boundary
    <3>. QED  BY <3>1, <3>2, <3>3 DEF Boundary
  <2>6. UpTo(g, when) = n
    BY <1>3, <2>4, <2>5, BinarySearch
  <2>7. n # 0 => g[n] = h[n]
    BY <1>3, <2>4
  <2>. QED  BY <1>4, <2>1, <2>6, <2>7 DEF HealthAt, h
<1>. QED  BY <1>5, <1>6

\* Once an instant is over, no attempt and no webhook changes a diagnosis of it: the
\* binary search of health_at and the loop of state_at stop before whatever came later,
\* for any streams, records and thresholds.
THEOREM PastStands == Spec => PastDiagnosesStand
<1>1. DetectorInv /\ WorldInv /\ (DetectorInv /\ WorldInv)' /\ [Next]_vars
        => [\A e \in events, s \in Setting : e.at < now => View(e, s)' = View(e, s)]_vars
  <2> SUFFICES ASSUME WorldInv, WorldInv', Next, NEW e \in events, NEW s \in Setting, e.at < now
               PROVE  View(e, s)' = View(e, s)
    OBVIOUS
  <2>1. e \in events' /\ e.at \in Nat /\ e.segment \in Segments /\ UNCHANGED windows
    <3>1. events \subseteq events' /\ UNCHANGED windows
      BY DEF Next, Attempt, Succeeds, Fails, FailsRevoked, Abandon, Abandons, ReadWebhooks,
             FoldWebhook, NextInstant, PassTime, world
    <3>. QED  BY <3>1 DEF WorldInv, EventInv, EventOK
  <2>2. MandateAt(e) = "ACTIVE"
    BY DebitsAreOfActiveMandates
  <2>3. MandateAt(e)' = "ACTIVE"
    BY <2>1, ActiveThen DEF ActiveInv
  <2>4. OverlapAt(e)' = OverlapAt(e)
    BY <2>1 DEF OverlapAt, ActiveAt, Covers
  <2>5. HealthAt(e.segment, e.at)' = HealthAt(e.segment, e.at)
    <3>1. ASSUME NEW c \in Customers, Attempt(c)
          PROVE  HealthAt(e.segment, e.at)' = HealthAt(e.segment, e.at)
      BY <2>1, <3>1, Attempted, PastHealthStands, SegmentsAssumption
    <3>2. CASE UNCHANGED history
      BY <3>2 DEF HealthAt, UpTo
    <3>3. (\E c \in Customers : Attempt(c)) \/ UNCHANGED history
      BY DEF Next, Abandon, ReadWebhooks, FoldWebhook, NextInstant, detector
    <3>. QED  BY <3>1, <3>2, <3>3
  <2>. QED  BY <2>2, <2>3, <2>4, <2>5 DEF View
<1>. QED  BY <1>1, WorldInvariant, PTL DEF Spec, PastDiagnosesStand
-----------------------------------------------------------------------------
(* What the evidence leads to.                                              *)

Ambiguous == {"gateway_technical_error", "server_error", "payment_timed_out", "network_error"}

Otp == {"incorrect_otp", "authentication_failed"}

\* The reasons that the table leaves open.
Open == Ambiguous \cup Otp \cup {"declined_by_issuer", "payment_cancelled", "payment_failed"}
        \cup UnmappedReasons

\* No reason is resolved twice, and no open one is resolved.
LEMMA ResolvedOnce ==
  /\ \A c, d \in Causes : \A r \in Resolves[c] : r \in Resolves[d] => c = d
  /\ \A c \in Causes : \A r \in Resolves[c] : r \notin Open
BY DEF Causes, Resolves, Open, Ambiguous, Otp, UnmappedReasons

\* The open reasons are reasons.
LEMMA OpenReasons == Open \subseteq Reasons
<1> DEFINE A == UNION {a.reasons : a \in AmbiguousRules}
<1>1. \A a \in AmbiguousRules : a.reasons \subseteq A
  OBVIOUS
<1> HIDE DEF A
<1>2. Ambiguous \subseteq A /\ Otp \subseteq A /\ "declined_by_issuer" \in A
      /\ "payment_cancelled" \in A /\ "payment_failed" \in A
  BY <1>1 DEF AmbiguousRules, Ambiguous, Otp
<1> DEFINE B == UNION {Resolves[c] : c \in Causes}
<1>3. Reasons = B \cup A \cup UnmappedReasons
  BY DEF Reasons, A
<1> HIDE DEF B
<1>. QED  BY <1>2, <1>3 DEF Open

\* What the table answers.
LEMMA TableAnswers ==
  /\ \A c \in Causes : \A r \in Resolves[c] : r \in Reasons /\ Class[r] = c
  /\ \A r \in Open : Class[r] = "UNKNOWN"
<1>1. ASSUME NEW c \in Causes, NEW r \in Resolves[c]
      PROVE  r \in Reasons /\ Class[r] = c
  <2>1. r \in Reasons
    BY DEF Reasons
  <2>2. (CHOOSE d \in Causes : r \in Resolves[d]) = c
    BY ResolvedOnce
  <2>. QED  BY <2>1, <2>2 DEF Class
<1>2. ASSUME NEW r \in Open PROVE Class[r] = "UNKNOWN"
  <2>1. ~\E c \in Causes : r \in Resolves[c]
    BY ResolvedOnce
  <2>. QED  BY <2>1, OpenReasons DEF Class
<1>. QED  BY <1>1, <1>2

\* A cause surfaces as a reason that the table resolves to it, or as an open one.
LEMMA EmittedReasons ==
  ASSUME NEW c \in Causes, NEW r \in Emits(c)
  PROVE  /\ r \in Resolves[c] \/ r \in Open
         /\ r \in Reasons /\ Class[r] \in {c, "UNKNOWN"}
<1>1. EMISSION[c] \subseteq Resolves[c] \cup Open
  BY DEF Causes, EMISSION, Resolves, Open, Ambiguous, Otp
<1>2. r \in Resolves[c] \/ r \in Open
  BY <1>1 DEF Emits, Open
<1>. QED  BY <1>2, TableAnswers, OpenReasons

\* Only the reasons of a failed authentication leave AFA_REQUIRED open.
LEMMA OpenCandidates ==
  ASSUME NEW r \in Open
  PROVE  /\ r \notin Otp => "AFA_REQUIRED" \notin Candidates[r]
         /\ r \in Ambiguous => "ISSUER_DOWN" \in Candidates[r]
         /\ r \in UnmappedReasons \cup {"payment_failed"} => Candidates[r] = {}
<1> DEFINE C == UNION {a.candidates : a \in {b \in AmbiguousRules : r \in b.reasons}}
<1>1. Candidates[r] = C
  <2>1. Class[r] = "UNKNOWN" /\ r \in Reasons /\ r # "max_amount_exceeded"
    <3>1. r # "max_amount_exceeded"
      BY DEF Open, Ambiguous, Otp, UnmappedReasons
    <3>. QED  BY <3>1, TableAnswers, OpenReasons
  <2>. QED  BY <2>1 DEF Candidates
<1>2. r \notin Otp => "AFA_REQUIRED" \notin C
  BY DEF AmbiguousRules, Otp
<1>3. r \in Ambiguous => "ISSUER_DOWN" \in C
  <2> DEFINE a == [candidates |-> {"ISSUER_DOWN", "TECHNICAL_DECLINE"},
                   reasons |-> {"gateway_technical_error", "server_error", "payment_timed_out",
                                "network_error"}]
  <2>1. a \in AmbiguousRules /\ "ISSUER_DOWN" \in a.candidates
    BY DEF AmbiguousRules
  <2>2. r \in Ambiguous => r \in a.reasons
    BY DEF Ambiguous
  <2> HIDE DEF a
  <2>. QED  BY <2>1, <2>2
<1>4. r \in UnmappedReasons \cup {"payment_failed"} => C = {}
  BY DEF AmbiguousRules, UnmappedReasons
<1>. QED  BY <1>1, <1>2, <1>3, <1>4

\* What diagnose returns is what the first source says that has something to say.
LEMMA FirstToSpeak ==
  ASSUME NEW v, NEW r, NEW p
  PROVE  LET ev == Evidence(v, r, p) IN
           \E i \in 1 .. 9 : /\ Diagnose(v, r, p) = ev[i] /\ ev[i].holds
                             /\ \A j \in 1 .. i - 1 : ~ev[j].holds
<1> DEFINE ev == Evidence(v, r, p)
           Holding == {i \in 1 .. 9 : ev[i].holds}
<1>1. DOMAIN ev = 1 .. 9 /\ ev[9].holds
  BY DEF Evidence, Verdict
<1> HIDE DEF ev
<1>2. PICK i \in Holding : \A j \in Holding : i <= j
  <2>1. Holding \in SUBSET Nat /\ 9 \in Holding
    BY <1>1
  <2> HIDE DEF Holding
  <2>. QED  BY <2>1, LeastNumber
<1>3. \A j \in 1 .. i - 1 : ~ev[j].holds
  <2> SUFFICES ASSUME NEW j \in 1 .. i - 1, ev[j].holds PROVE FALSE
    OBVIOUS
  <2>1. j \in Holding /\ ~(i <= j)
    OBVIOUS
  <2>. QED  BY <1>2, <2>1
<1> DEFINE k == CHOOSE x \in DOMAIN ev : ev[x].holds /\ \A j \in 1 .. x - 1 : ~ev[j].holds
<1>4. k \in 1 .. 9 /\ ev[k].holds /\ \A j \in 1 .. k - 1 : ~ev[j].holds
  BY <1>1, <1>2, <1>3
<1>5. Diagnose(v, r, p) = ev[k]
  BY DEF Diagnose, FirstHolding, ev
<1> HIDE DEF k
<1>. QED  BY <1>4, <1>5 DEF ev

\* Nine sources and what each needs to speak; the order of the first six matters here.
Sources(v, r, d) ==
  \/ v.mandate \in TERMINAL \cup {"PAUSED"}
  \/ v.overlap = "severe" /\ d.action = "WAIT" /\ d.source = "downtime"
  \/ /\ Class[r] # "UNKNOWN" /\ d.source = "table" /\ d.action = RECOMMENDATION[Class[r]]
  \/ v.overlap # "none" /\ MayBeOutage(r) /\ d.action = "WAIT" /\ d.source = "downtime"
  \/ /\ Class[r] = "UNKNOWN" /\ ~(v.overlap # "none" /\ MayBeOutage(r))
     /\ \/ d.source \notin Certain
        \/ /\ d.source = "afa_boundary" /\ "AFA_REQUIRED" \in Candidates[r]
           /\ d.action = "CONTACT"

\* A verdict holds when its condition does.
LEMMA VerdictHolds ==
  ASSUME NEW h \in BOOLEAN, NEW s, NEW c
  PROVE  Verdict(h, s, c).holds <=> h
BY DEF Verdict

\* Which source spoke, and what the silence of those before it says.
LEMMA WhoSpoke ==
  ASSUME NEW v, NEW r, NEW p
  PROVE  Sources(v, r, Diagnose(v, r, p))
<1> DEFINE ev == Evidence(v, r, p)
           d == Diagnose(v, r, p)
<1>1. PICK i \in 1 .. 9 : d = ev[i] /\ ev[i].holds /\ \A j \in 1 .. i - 1 : ~ev[j].holds
  BY FirstToSpeak
<1> SUFFICES Sources(v, r, d)
  OBVIOUS
<1> HIDE DEF d
<1>2. /\ ev[1] = Verdict(v.mandate \in TERMINAL, "mandate_fsm", "MANDATE_REVOKED")
      /\ ev[2] = Verdict(v.mandate = "PAUSED", "mandate_fsm", "UNKNOWN")
      /\ ev[3] = Verdict(v.overlap = "severe" /\ Class[r] \in {"TECHNICAL_DECLINE", "RISK_DECLINE"},
                         "downtime", "ISSUER_DOWN")
      /\ ev[4] = Verdict(Class[r] # "UNKNOWN", "table", Class[r])
      /\ ev[5] = Verdict(v.overlap # "none" /\ MayBeOutage(r), "downtime", "ISSUER_DOWN")
      /\ ev[6] = Verdict(v.health = "DEGRADED" /\ MayBeOutage(r), "changepoint", "ISSUER_DOWN")
      /\ ev[7] = Verdict(v.aboveCeiling /\ "AFA_REQUIRED" \in Candidates[r], "afa_boundary",
                         "AFA_REQUIRED")
      /\ ev[8] = Verdict(p # "UNKNOWN", "classifier", p)
      /\ ev[9] = Verdict(TRUE, "fallback", "UNKNOWN")
  BY DEF Evidence
<1> HIDE DEF ev
<1>3. /\ RECOMMENDATION["ISSUER_DOWN"] = "WAIT" /\ RECOMMENDATION["AFA_REQUIRED"] = "CONTACT"
  BY DEF RECOMMENDATION
<1>4. ev[5].holds <=> v.overlap # "none" /\ MayBeOutage(r)
  <2> DEFINE h == v.overlap # "none" /\ MayBeOutage(r)
  <2>1. h \in BOOLEAN /\ ev[5] = Verdict(h, "downtime", "ISSUER_DOWN")
    BY <1>2
  <2> HIDE DEF h
  <2>2. ev[5].holds <=> h
    BY <2>1, VerdictHolds
  <2>. QED  BY <2>2 DEF h
<1>5. CASE i \in {1, 2}
  <2>1. ev[1].holds => v.mandate \in TERMINAL
    <3> DEFINE h == v.mandate \in TERMINAL
    <3>1. h \in BOOLEAN /\ ev[1] = Verdict(h, "mandate_fsm", "MANDATE_REVOKED")
      BY <1>2
    <3> HIDE DEF h
    <3>2. ev[1].holds <=> h
      BY <3>1, VerdictHolds
    <3>. QED  BY <3>2 DEF h
  <2>2. ev[2].holds => v.mandate = "PAUSED"
    BY <1>2, VerdictHolds
  <2>. QED  BY <1>1, <1>5, <2>1, <2>2 DEF Sources
<1>6. CASE i = 3
  <2>1. ev[3].holds => v.overlap = "severe"
    <3> DEFINE h == v.overlap = "severe" /\ Class[r] \in {"TECHNICAL_DECLINE", "RISK_DECLINE"}
    <3>1. h \in BOOLEAN /\ (h => v.overlap = "severe")
      OBVIOUS
    <3>2. ev[3] = Verdict(h, "downtime", "ISSUER_DOWN")
      BY <1>2
    <3> HIDE DEF h
    <3>. QED  BY <3>1, <3>2, VerdictHolds
  <2>2. ev[3].source = "downtime" /\ ev[3].action = "WAIT"
    BY <1>2, <1>3 DEF Verdict
  <2>. QED  BY <1>1, <1>6, <2>1, <2>2 DEF Sources
<1>7. CASE i = 4
  <2>1. ev[4].holds => Class[r] # "UNKNOWN"
    BY <1>2, VerdictHolds
  <2>2. ev[4].source = "table" /\ ev[4].action = RECOMMENDATION[Class[r]]
    BY <1>2 DEF Verdict
  <2>. QED  BY <1>1, <1>7, <2>1, <2>2 DEF Sources
<1>8. CASE i = 5
  <2>1. ev[5].holds => v.overlap # "none" /\ MayBeOutage(r)
    BY <1>4
  <2>2. ev[5].source = "downtime" /\ ev[5].action = "WAIT"
    BY <1>2, <1>3 DEF Verdict
  <2>. QED  BY <1>1, <1>8, <2>1, <2>2 DEF Sources
<1>9. CASE i \in 6 .. 9
  <2>1. ~ev[4].holds /\ ~ev[5].holds
    BY <1>1, <1>9
  <2>2. Class[r] = "UNKNOWN"
    <3>1. Class[r] # "UNKNOWN" => ev[4].holds
      BY <1>2, VerdictHolds
    <3>. QED  BY <2>1, <3>1
  <2>3. ~(v.overlap # "none" /\ MayBeOutage(r))
    BY <1>4, <2>1
  <2>4. CASE i = 7
    <3>1. ev[7].holds => "AFA_REQUIRED" \in Candidates[r]
      <4> DEFINE h == v.aboveCeiling /\ "AFA_REQUIRED" \in Candidates[r]
      <4>1. h \in BOOLEAN /\ (h => "AFA_REQUIRED" \in Candidates[r])
        OBVIOUS
      <4>2. ev[7] = Verdict(h, "afa_boundary", "AFA_REQUIRED")
        BY <1>2
      <4> HIDE DEF h
      <4>. QED  BY <4>1, <4>2, VerdictHolds
    <3>2. ev[7].source = "afa_boundary" /\ ev[7].action = "CONTACT"
      BY <1>2, <1>3 DEF Verdict
    <3>. QED  BY <1>1, <2>2, <2>3, <2>4, <3>1, <3>2 DEF Sources
  <2>5. CASE i \in {6, 8, 9}
    <3>1. d.source \in {"changepoint", "classifier", "fallback"}
      BY <1>1, <1>2, <2>5 DEF Verdict
    <3>2. d.source \notin Certain
      BY <3>1 DEF Certain
    <3>. QED  BY <2>2, <2>3, <3>2 DEF Sources
  <2>. QED  BY <1>9, <2>4, <2>5
<1>. QED  BY <1>1, <1>5, <1>6, <1>7, <1>8, <1>9

\* Every reason by which an outage surfaces admits the outage.
LEMMA OutageIsWaitedOut ==
  ASSUME NEW v, v.mandate = "ACTIVE", v.overlap # "none", NEW d \in Diagnoses(v, "ISSUER_DOWN")
  PROVE  d.action = "WAIT"
<1>1. PICK r \in Emits("ISSUER_DOWN"), p \in FailureClass : d = Diagnose(v, r, p)
  BY DEF Diagnoses
<1>2. Sources(v, r, d) /\ v.mandate \notin TERMINAL \cup {"PAUSED"}
  BY <1>1, WhoSpoke DEF TERMINAL
<1>3. Class[r] \in {"ISSUER_DOWN", "UNKNOWN"} /\ (r \in Open \/ Class[r] = "ISSUER_DOWN")
  BY EmittedReasons, TableAnswers DEF Causes
<1>4. r \in Open => MayBeOutage(r)
  <2>1. r \in Open => r \in Ambiguous \cup UnmappedReasons \cup {"payment_failed"}
    BY DEF Emits, EMISSION, Open, Ambiguous, Otp
  <2>. QED  BY <2>1, OpenCandidates DEF MayBeOutage
<1>5. RECOMMENDATION["ISSUER_DOWN"] = "WAIT"
  BY DEF RECOMMENDATION
<1>. QED  BY <1>2, <1>3, <1>4, <1>5 DEF Sources

\* No declared outage: what the table or the amount concludes is right for the cause.
LEMMA EvidenceIsRight ==
  ASSUME NEW v, v.mandate = "ACTIVE", v.overlap = "none", NEW c \in Causes,
         NEW d \in Diagnoses(v, c), d.source \in Certain
  PROVE  ACTION_COST[d.action][c] = 0
<1>1. PICK r \in Emits(c), p \in FailureClass : d = Diagnose(v, r, p)
  BY DEF Diagnoses
<1>2. Sources(v, r, d) /\ v.mandate \notin TERMINAL \cup {"PAUSED"}
  BY <1>1, WhoSpoke DEF TERMINAL
<1>3. Class[r] \in {c, "UNKNOWN"} /\ (Class[r] = "UNKNOWN" => r \in Open)
  <2>1. c # "UNKNOWN"
    BY DEF Causes
  <2>. QED  BY <2>1, EmittedReasons, TableAnswers
<1>4. ACTION_COST[RECOMMENDATION[c]][c] = 0
  BY DEF ACTION_COST, RECOMMENDATION, Causes
<1>5. CASE Class[r] = c /\ d.action = RECOMMENDATION[Class[r]]
  BY <1>4, <1>5
<1>6. CASE /\ Class[r] = "UNKNOWN" /\ "AFA_REQUIRED" \in Candidates[r] /\ d.action = "CONTACT"
  <2>1. r \in Otp
    BY <1>3, <1>6, OpenCandidates
  <2>2. c \in {"TECHNICAL_DECLINE", "AFA_REQUIRED"}
    BY <2>1 DEF Emits, EMISSION, Causes, Otp, UnmappedReasons
  <2>. QED  BY <1>6, <2>2 DEF ACTION_COST
<1>. QED  BY <1>2, <1>3, <1>5, <1>6 DEF Sources

\* What a debit can have for causes, and what a diagnosis sees of it in a setting.
LEMMA CausesOfDebits ==
  ASSUME WorldInv, NEW e \in events, Debit(e), NEW c \in e.causes, NEW s \in Setting
  PROVE  /\ c \in Causes /\ (OverlapAt(e) # "none" => c = "ISSUER_DOWN")
         /\ View(e, s).mandate = "ACTIVE"
         /\ View(e, s).overlap = IF s.useDowntime THEN OverlapAt(e) ELSE "none"
<1>1. Truthful(e)
  BY DEF WorldInv, EventInv, EventOK
<1>2. c \in Causes /\ (OverlapAt(e) # "none" => c = "ISSUER_DOWN")
  BY <1>1 DEF Truthful, BaseCauses, Causes
<1>. QED  BY <1>2, DebitsAreOfActiveMandates DEF View

\* With the cross-check switched on, a debit that failed in a declared outage is waited
\* out, whatever error it surfaced as and whatever the classifier thinks, in every world
\* with any downtimes (diagnose).
THEOREM OutagesAreWaitedOut == Spec => []DeclaredOutagesAreWaitedOut
<1>1. WorldInv => DeclaredOutagesAreWaitedOut
  <2> SUFFICES ASSUME WorldInv, NEW e \in events, Debit(e), OverlapAt(e) # "none",
                      NEW s \in Setting, s.useDowntime,
                      NEW c \in e.causes, <<View(e, s), c>> \in Restless
               PROVE  FALSE
    BY DEF DeclaredOutagesAreWaitedOut, Debit
  <2>1. PICK d \in Diagnoses(View(e, s), c) : d.action # "WAIT"
    BY DEF Restless
  <2>. QED  BY <2>1, CausesOfDebits, OutageIsWaitedOut
<1>. QED  BY <1>1, WorldInvariant, PTL

\* What is concluded from the table, a declared outage, the mandate's state or the amount
\* costs nothing, for the cause that the world drew and whatever reason it surfaced as,
\* in every setting of the switches of build_detector.
THEOREM EvidenceIsSafe == Spec => []EvidenceNeverMisleads
<1>1. WorldInv => EvidenceNeverMisleads
  <2> SUFFICES ASSUME WorldInv, NEW e \in events, Debit(e), NEW s \in Setting,
                      NEW c \in e.causes, <<View(e, s), c>> \in Misleading
               PROVE  FALSE
    BY DEF EvidenceNeverMisleads, Debit
  <2>1. PICK d \in Diagnoses(View(e, s), c) : d.source \in Certain /\ Cost(d, c) > 0
    BY DEF Misleading
  <2>2. ACTION_COST[d.action][c] = 0
    <3>1. CASE View(e, s).overlap = "none"
      BY <2>1, <3>1, CausesOfDebits, EvidenceIsRight
    <3>2. CASE View(e, s).overlap # "none"
      <4>1. d.action = "WAIT" /\ c = "ISSUER_DOWN"
        BY <3>2, CausesOfDebits, OutageIsWaitedOut
      <4>. QED  BY <4>1 DEF ACTION_COST
    <3>. QED  BY <3>1, <3>2
  <2>. QED  BY <2>1, <2>2 DEF Cost
<1>. QED  BY <1>1, WorldInvariant, PTL
=============================================================================
