------------------------------- MODULE Simulator -------------------------------
(***************************************************************************)
(* antar/simulator/generator.py: the world that the batch evaluation runs  *)
(* on.  Every mandate is charged once a cycle until it is revoked or the   *)
(* horizon ends; a failure has a true cause, which the outages and the     *)
(* amount restrict; customers abandon checkouts in between.  The generator *)
(* walks one mandate after the other and sorts what it made by time; here  *)
(* the attempts come in the order of time.  An event carries the set of    *)
(* causes that can have been drawn for it, because only a revocation        *)
(* changes what happens next.  Draws are nondeterministic choices among    *)
(* the outcomes of positive probability.                                   *)
(***************************************************************************)
EXTENDS Integers

CONSTANTS
  Customers,        \* each has one mandate, which goes by the customer's name
  SegmentOf,        \* segment_key of each customer
  FirstCycleAt,     \* first_cycle_at of each customer
  AboveCeiling,     \* the customers whose amount is above their AFA-free ceiling
  Cycles,           \* cycles_per_mandate
  CycleLength,      \* 30 days
  Horizon,          \* the end of the simulated time
  CheckoutSegments, \* the segments in which checkouts are abandoned
  CheckoutTimes     \* when

VARIABLES
  now,
  cycle,            \* the next cycle of each mandate
  mandate,          \* its state
  events,           \* batch.events, with the causes that may be their truth
  webhooks          \* batch.lifecycle_events that nobody has read

world == <<now, cycle, mandate, events, webhooks>>

\* BASE_CAUSE_SHARES, without the revocation.
BaseCauses == {"INSUFFICIENT_FUNDS", "TECHNICAL_DECLINE", "RISK_DECLINE"}

WorldInit ==
  /\ now = 0
  /\ cycle = [c \in Customers |-> 1]
  /\ mandate = [c \in Customers |-> "ACTIVE"]
  /\ events = {} /\ webhooks = {}

ChargeAt(c) == FirstCycleAt[c] + CycleLength * (cycle[c] - 1)

\* The loop of _run_mandate reaches this charge.
Due(c) ==
  /\ cycle[c] <= Cycles /\ mandate[c] = "ACTIVE"
  /\ ChargeAt(c) < Horizon
  /\ ChargeAt(c) = now

AtRiskEvent(c, causes) ==
  [loss |-> "MANDATE_FAILURE", sub |-> c, cycle |-> cycle[c], segment |-> SegmentOf[c],
   at |-> now, aboveCeiling |-> c \in AboveCeiling, causes |-> causes]

Advance(c) == cycle' = [cycle EXCEPT ![c] = @ + 1]

Succeeds(c) ==
  /\ Due(c) /\ Advance(c)
  /\ UNCHANGED <<now, mandate, events, webhooks>>

\* The causes that leave the mandate as it is.
Drawn(c, outage) ==
  IF outage THEN {"ISSUER_DOWN"}
  ELSE IF c \in AboveCeiling THEN BaseCauses \cup {"AFA_REQUIRED"} ELSE BaseCauses

Fails(c, outage) ==
  /\ Due(c) /\ Advance(c)
  /\ events' = events \cup {AtRiskEvent(c, Drawn(c, outage))}
  /\ UNCHANGED <<now, mandate, webhooks>>

\* The failure by which the merchant learns of a revocation: the webhook has the
\* same timestamp, and the mandate is charged no more.
FailsRevoked(c, outage) ==
  /\ Due(c) /\ ~outage /\ Advance(c)
  /\ events' = events \cup {AtRiskEvent(c, {"MANDATE_REVOKED"})}
  /\ webhooks' = webhooks \cup {[sub |-> c, name |-> "cancelled", at |-> now]}
  /\ mandate' = [mandate EXCEPT ![c] = "REVOKED"]
  /\ UNCHANGED now

\* _generate_checkout_abandonment: no mandate, and a broken instrument for cause,
\* whatever the rail is doing.
Abandons(s, noMandate) ==
  /\ now \in CheckoutTimes /\ s \in CheckoutSegments
  /\ events' = events \cup
       {[loss |-> "CHECKOUT_ABANDON", sub |-> noMandate, cycle |-> 0, segment |-> s, at |-> now,
         aboveCeiling |-> FALSE, causes |-> {"TECHNICAL_DECLINE"}]}
  /\ UNCHANGED <<now, cycle, mandate, webhooks>>

PassTime ==
  /\ now < Horizon
  /\ \A c \in Customers : ~Due(c)
  /\ now' = now + 1
  /\ UNCHANGED <<cycle, mandate, events, webhooks>>
=============================================================================
