----------------------------- MODULE Regulations -----------------------------
(***************************************************************************)
(* antar/policy/regulations.py: the register of rules, and the predicate   *)
(* of each on one decision.  Titles, sources, quotes and explanations are  *)
(* left out.  A context is DecisionContext with the fields of its event,   *)
(* customer and intervention that a rule reads; of the amount it keeps     *)
(* whether it is above the AFA-free ceiling, and of a promise to pay       *)
(* whether there is one.  The hours of the day in which a customer may be  *)
(* contacted are those of antar/clock.py.  Instants are hours since a      *)
(* midnight in IST, in which every clock of the program answers.           *)
(***************************************************************************)
EXTENDS Integers

CONSTANTS
  LeadHours,          \* pre_debit_notification_lead_hours
  ContactsAllowed,    \* contacts_per_30d
  CooldownHours,      \* cooldown_hours
  ConsentHours,       \* explicit_consent_validity_days
  WindowStart,        \* policy.contact_window
  WindowEnd

ASSUME PolicyAssumption ==
  /\ LeadHours \in Nat \ {0} /\ ContactsAllowed \in Nat
  /\ CooldownHours \in Nat /\ ConsentHours \in Nat
  /\ WindowStart \in 0 .. 23 /\ WindowEnd \in 0 .. 24 /\ WindowStart < WindowEnd

Hour(t) == t % 24

InContactWindow(t) == WindowStart <= Hour(t) /\ Hour(t) < WindowEnd

\* The earliest permitted instant at or after t.
NextContactWindowStart(t) ==
  IF InContactWindow(t) THEN t
  ELSE t - Hour(t) + WindowStart + (IF Hour(t) >= WindowEnd THEN 24 ELSE 0)

ContactChannels == {"SMS", "WHATSAPP", "VOICE", "EMAIL"}
Channel == ContactChannels \cup {"SILENT_RETRY"}
MessageClass == {"TRANSACTIONAL", "SERVICE", "PROMOTIONAL"}
MandateState == {"ACTIVE", "PAUSED", "HALTED", "REVOKED", "COMPLETED"}
ConsentBasis == {"EXPLICIT", "INFERRED", "NONE"}

None == -1      \* no such instant

Context ==
  [now: Nat, scheduledFor: Nat, channel: Channel, class: MessageClass,
   requiresAfa: BOOLEAN, aboveCeiling: BOOLEAN, mandate: MandateState, optout: BOOLEAN,
   consent: ConsentBasis, grantedAt: Nat \cup {None}, dnd: BOOLEAN, promised: BOOLEAN,
   contacts: Nat, lastContact: Nat \cup {None}]

-----------------------------------------------------------------------------
(* The predicates: TRUE when the decision complies.                         *)

LeadTimeOk(x) == x.scheduledFor - x.now >= LeadHours

OptoutRespected(x) == ~x.optout

AfaRouted(x) == x.aboveCeiling => x.requiresAfa

MandateIsLive(x) == x.mandate \in {"ACTIVE", "HALTED"}

InsideContactWindow(x) == InContactWindow(x.scheduledFor)

MessageClassDeclared(x) == x.class \in {"TRANSACTIONAL", "SERVICE"}

NotPromotional(x) == x.class # "PROMOTIONAL"

\* Inferred consent lives with the contract, explicit consent expires.
ConsentLive(x) ==
  \/ x.consent = "INFERRED" /\ x.mandate \notin {"REVOKED", "COMPLETED"}
  \/ /\ x.consent = "EXPLICIT" /\ x.grantedAt # None
     /\ x.now - x.grantedAt <= ConsentHours

DndRespected(x) ==
  IF x.class = "PROMOTIONAL" THEN ~x.dnd ELSE ~(x.channel = "VOICE" /\ x.dnd)

PromiseToPayRespected(x) == ~x.promised

\* Mutant of WithinContactBudget: one contact too many.
WithinContactBudgetInclusive(x) == x.contacts <= ContactsAllowed

WithinContactBudget(x) == x.contacts < ContactsAllowed

CooldownElapsed(x) ==
  x.lastContact # None => x.scheduledFor - x.lastContact >= CooldownHours

-----------------------------------------------------------------------------
(* The register.                                                            *)

Rule(id, severity, verification, contactsOnly) ==
  [id |-> id, severity |-> severity, verification |-> verification,
   contactsOnly |-> contactsOnly]

RBI_RULES ==
  {Rule("RBI-EM-01", "BLOCKING", "PRIMARY", FALSE), Rule("RBI-EM-02", "BLOCKING", "PRIMARY", FALSE),
   Rule("RBI-EM-03", "BLOCKING", "PRIMARY", FALSE), Rule("RBI-EM-04", "BLOCKING", "PRIMARY", FALSE),
   Rule("RBI-EM-05", "ADVISORY", "PRIMARY", FALSE), Rule("RBI-EM-06", "BLOCKING", "PRIMARY", FALSE),
   Rule("RBI-EM-07", "ADVISORY", "PRIMARY", FALSE)}

TRAI_RULES ==
  {Rule("TRAI-01", "BLOCKING", "REPRODUCTION", TRUE), Rule("TRAI-02", "ADVISORY", "SECONDARY", TRUE),
   Rule("TRAI-03", "BLOCKING", "REPRODUCTION", TRUE), Rule("TRAI-04", "BLOCKING", "REPRODUCTION", TRUE),
   Rule("TRAI-05", "ADVISORY", "SECONDARY", TRUE), Rule("TRAI-06", "ADVISORY", "SECONDARY", TRUE),
   Rule("TRAI-07", "ADVISORY", "REPRODUCTION", TRUE),
   Rule("TRAI-08", "ADVISORY", "REPRODUCTION", TRUE)}

POLICY_RULES ==
  {Rule("POL-BUDGET", "BLOCKING", "PRIMARY", TRUE), Rule("POL-COOLDOWN", "BLOCKING", "PRIMARY", TRUE),
   Rule("POL-PROMISE", "BLOCKING", "PRIMARY", TRUE)}

REGULATIONS == RBI_RULES \cup TRAI_RULES \cup POLICY_RULES

\* Whether a decision complies with a rule; with one that the code cannot judge on a
\* single decision every decision does.
Holds(id, x) ==
  /\ id = "RBI-EM-01" => LeadTimeOk(x)
  /\ id = "RBI-EM-02" => OptoutRespected(x)
  /\ id \in {"RBI-EM-03", "RBI-EM-04"} => AfaRouted(x)
  /\ id = "RBI-EM-06" => MandateIsLive(x)
  /\ id = "TRAI-01" => InsideContactWindow(x)
  /\ id = "TRAI-02" => MessageClassDeclared(x)
  /\ id = "TRAI-03" => NotPromotional(x)
  /\ id = "TRAI-04" => ConsentLive(x)
  /\ id = "TRAI-06" => DndRespected(x)
  /\ id = "POL-BUDGET" => WithinContactBudget(x)
  /\ id = "POL-COOLDOWN" => CooldownElapsed(x)
  /\ id = "POL-PROMISE" => PromiseToPayRespected(x)

BLOCKING_RULES == {r \in REGULATIONS : r.severity = "BLOCKING"}
ADVISORY_RULES == {r \in REGULATIONS : r.severity = "ADVISORY"}

\* Regulation.__post_init__: a rule that rests on a secondary source may not block
\* money.
ASSUME OnlyVerifiedRulesBlock ==
  \A r \in BLOCKING_RULES : r.verification \in {"PRIMARY", "REPRODUCTION"}

Applies(r, x) == r.contactsOnly => x.channel \in ContactChannels

ViolatedBy(r, x) == Applies(r, x) /\ ~Holds(r.id, x)

\* evaluate and evaluate_advisory.
Violated(rules, x) == {r.id : r \in {s \in rules : ViolatedBy(s, x)}}

IsCompliant(x) == Violated(BLOCKING_RULES, x) = {}
=============================================================================
