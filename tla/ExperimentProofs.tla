---------------------------- MODULE ExperimentProofs ----------------------------
(***************************************************************************)
(* Machine-checked facts about Experiment, for any batch, channels, limits *)
(* and hours.  The contacts of a customer are in the history in the order  *)
(* in which they take place, at least the cooldown apart, so that the last *)
(* of them is the latest; and a contact takes place no earlier than it is  *)
(* asked about, so that whatever lies in the window that ends with it was  *)
(* counted when it was asked about.  Of a selection that satisfies the     *)
(* compiler's rows no two contacts of a customer are within the cooldown,  *)
(* and so the validator's count adds nothing.  The draws that a            *)
(* probability covers are an interval as long as the probability.          *)
(*                                                                         *)
(* The last part is about Evaluation, the script that runs experiments as  *)
(* stages and reports them.                                                *)
(***************************************************************************)
EXTENDS Experiment, Evaluation, FiniteSetTheorems, WellFoundedInduction, SequenceTheorems,
        TLAPS

\* The constants of the register, as the proofs use them.
LEMMA Constants ==
  /\ LeadHours \in Nat /\ LeadHours > 0 /\ ContactsAllowed \in Nat /\ CooldownHours \in Nat
  /\ RollingWindow \in Nat
  /\ WindowStart \in 0 .. 23 /\ WindowEnd \in 0 .. 24 /\ WindowStart < WindowEnd
BY PolicyAssumption, RollingAssumption

\* The next permitted instant is not an earlier one.
LEMMA NextWindowIsLater ==
  ASSUME NEW t \in Nat
  PROVE  NextContactWindowStart(t) \in Nat /\ NextContactWindowStart(t) >= t
<1>1. Hour(t) \in 0 .. 23 /\ Hour(t) <= t
  BY DEF Hour
<1>2. CASE InContactWindow(t)
  BY <1>2 DEF NextContactWindowStart
<1>3. CASE ~InContactWindow(t)
  <2>1. Hour(t) < WindowStart \/ Hour(t) >= WindowEnd
    BY <1>1, <1>3, Constants DEF InContactWindow
  <2>. QED  BY <1>1, <1>3, <2>1, Constants DEF NextContactWindowStart
<1>. QED  BY <1>2, <1>3

\* A contact takes place at or after its event.
LEMMA ScheduledLater ==
  ASSUME NEW e \in Slots
  PROVE  /\ e.at \in Nat /\ e.customer \in Customers
         /\ ScheduledFor(e) \in Nat /\ ScheduledFor(e) >= e.at
<1>1. e.at \in Nat /\ e.customer \in Customers
  BY SlotsAssumption
<1>2. e.at + LeadHours \in Nat
  BY <1>1, Constants
<1>3. /\ NextContactWindowStart(e.at + LeadHours) \in Nat
      /\ NextContactWindowStart(e.at + LeadHours) >= e.at + LeadHours
  BY <1>2, NextWindowIsLater
<1>. QED  BY <1>1, <1>3, Constants DEF ScheduledFor

-----------------------------------------------------------------------------
(* What the register lets through.                                          *)

\* Nothing is done on a mandate that has ended.
LEMMA CompliantIsLive ==
  ASSUME NEW x, Violated(BLOCKING_RULES, x) = {}
  PROVE  MandateIsLive(x)
<1>1. Rule("RBI-EM-06", "BLOCKING", "PRIMARY", FALSE) \in BLOCKING_RULES
  BY DEF BLOCKING_RULES, REGULATIONS, RBI_RULES, Rule
<1>2. Holds("RBI-EM-06", x)
  BY <1>1 DEF Violated, ViolatedBy, Applies, Rule
<1>. QED  BY <1>2 DEF Holds

\* The rules on contacts are obeyed by whatever contact complies.
LEMMA CompliantContacts ==
  ASSUME NEW x, x.channel \in ContactChannels, Violated(BLOCKING_RULES, x) = {}
  PROVE  WithinContactBudget(x) /\ CooldownElapsed(x)
<1>1. ASSUME NEW r \in BLOCKING_RULES
      PROVE  Holds(r.id, x)
  BY <1>1 DEF Violated, ViolatedBy, Applies
<1>2. /\ Rule("POL-BUDGET", "BLOCKING", "PRIMARY", TRUE) \in BLOCKING_RULES
      /\ Rule("POL-COOLDOWN", "BLOCKING", "PRIMARY", TRUE) \in BLOCKING_RULES
  BY DEF BLOCKING_RULES, REGULATIONS, POLICY_RULES, Rule
<1>3. Holds("POL-BUDGET", x) /\ Holds("POL-COOLDOWN", x)
  BY <1>1, <1>2 DEF Rule
<1>. QED  BY <1>3 DEF Holds

\* Every action that is feasible complies.
LEMMA FeasibleComplies ==
  ASSUME NEW e, NEW ch \in FeasibleActions(e)
  PROVE  Violated(BLOCKING_RULES, Decision(e, ch)) = {} /\ Decision(e, ch).channel = ch
<1>1. PICK c \in Feasible({Candidate(e, d) : d \in Channels}) : ch = c.x.channel
  BY DEF FeasibleActions
<1>2. PICK d \in Channels : c = Candidate(e, d)
  BY <1>1 DEF Feasible
<1>3. c.x = Decision(e, d)
  BY <1>2 DEF Candidate
<1>4. Decision(e, d).channel = d
  BY DEF Decision, Hydrate
<1>5. Violated(BLOCKING_RULES, Decision(e, d)) = {}
  BY <1>1, <1>3 DEF Feasible, Rejections
<1>. QED  BY <1>1, <1>3, <1>4, <1>5

\* A channel that is feasible for an event, in terms of the contacts so far.
LEMMA FeasibleContacts ==
  ASSUME NEW e, NEW ch \in FeasibleActions(e), ch \in ContactChannels
  PROVE  /\ ContactsInWindow(e.customer, e.at) < ContactsAllowed
         /\ LastContact(e.customer) # None =>
              ScheduledFor(e) - LastContact(e.customer) >= CooldownHours
<1>1. /\ Decision(e, ch).contacts = ContactsInWindow(e.customer, e.at)
      /\ Decision(e, ch).lastContact = LastContact(e.customer)
      /\ Decision(e, ch).scheduledFor = ScheduledFor(e)
  BY DEF Decision, Hydrate
<1>2. WithinContactBudget(Decision(e, ch)) /\ CooldownElapsed(Decision(e, ch))
  BY FeasibleComplies, CompliantContacts
<1>. QED  BY <1>1, <1>2 DEF WithinContactBudget, CooldownElapsed

-----------------------------------------------------------------------------
(* The contacts.                                                            *)

\* The places of a history that lie in the window that ends at an instant.
InWindow(h, t) == {j \in DOMAIN h : h[j] \in t - RollingWindow + 1 .. t}

Spaced(h) ==
  \A i, j \in DOMAIN h : i < j => h[j] - h[i] >= CooldownHours

WithinBudget(h) == \A i \in DOMAIN h : Cardinality(InWindow(h, h[i])) <= ContactsAllowed

IInv ==
  /\ batch \subseteq Slots
  /\ history \in [Customers -> Seq(Nat)]
  /\ \A u \in Customers : Spaced(history[u]) /\ WithinBudget(history[u])

\* The contacts that a window counts are finitely many.
LEMMA WindowsAreFinite ==
  ASSUME NEW h \in Seq(Nat), NEW S \in SUBSET DOMAIN h
  PROVE  IsFiniteSet(S) /\ Cardinality(S) \in Nat
<1>1. DOMAIN h = 1 .. Len(h) /\ Len(h) \in Nat
  OBVIOUS
<1>2. IsFiniteSet(DOMAIN h)
  BY <1>1, FS_Interval
<1>. QED  BY <1>2, FS_Subset, FS_CardinalityType

\* In a spaced history the last contact is the latest.
LEMMA LastIsLatest ==
  ASSUME NEW u \in Customers, history[u] \in Seq(Nat), Spaced(history[u]), history[u] # <<>>
  PROVE  /\ LastContact(u) \in Nat
         /\ \A i \in DOMAIN history[u] : history[u][i] <= LastContact(u)
<1> DEFINE h == history[u]
<1>1. Len(h) \in DOMAIN h /\ DOMAIN h = 1 .. Len(h) /\ Len(h) \in Nat
  OBVIOUS
<1>2. \A i \in DOMAIN h : h[i] \in Nat
  OBVIOUS
<1>3. \A i \in DOMAIN h : h[i] <= h[Len(h)]
  BY <1>1, <1>2, Constants DEF Spaced
<1>4. \E t \in {h[i] : i \in DOMAIN h} : \A i \in DOMAIN h : h[i] <= t
  BY <1>1, <1>3
<1>5. /\ LastContact(u) \in {h[i] : i \in DOMAIN h}
      /\ \A i \in DOMAIN h : h[i] <= LastContact(u)
  BY <1>4 DEF LastContact
<1>. QED  BY <1>2, <1>5

\* A contact that the register let through keeps the limits.
LEMMA ContactKeepsLimits ==
  ASSUME IInv, NEW e \in Slots, NEW ch \in FeasibleActions(e), ch \in ContactChannels
  PROVE  LET h == Append(history[e.customer], ScheduledFor(e)) IN Spaced(h) /\ WithinBudget(h)
<1> DEFINE g == history[e.customer]
           t == ScheduledFor(e)
           h == Append(g, t)
<1>0. /\ e.at \in Nat /\ e.customer \in Customers /\ t \in Nat /\ t >= e.at
  BY ScheduledLater
<1>1. g \in Seq(Nat) /\ Spaced(g) /\ WithinBudget(g)
  BY <1>0 DEF IInv
<1>2. /\ h \in Seq(Nat) /\ Len(h) = Len(g) + 1 /\ Len(g) \in Nat
      /\ DOMAIN h = 1 .. Len(g) + 1 /\ DOMAIN g = 1 .. Len(g)
      /\ h[Len(g) + 1] = t /\ \A i \in DOMAIN g : h[i] = g[i]
  BY <1>0, <1>1
<1>3. \A i \in DOMAIN g : g[i] \in Nat /\ t - g[i] >= CooldownHours
  <2> SUFFICES ASSUME NEW i \in DOMAIN g
               PROVE  g[i] \in Nat /\ t - g[i] >= CooldownHours
    OBVIOUS
  <2>1. g[i] \in Nat /\ g # <<>>
    BY <1>1
  <2>2. LastContact(e.customer) \in Nat /\ g[i] <= LastContact(e.customer)
    BY <1>0, <1>1, <2>1, LastIsLatest
  <2>3. LastContact(e.customer) # None
    BY <2>2 DEF None
  <2>4. t - LastContact(e.customer) >= CooldownHours
    BY <2>3, FeasibleContacts
  <2>. QED  BY <1>0, <2>1, <2>2, <2>4, Constants
<1>4. Spaced(h)
  <2> SUFFICES ASSUME NEW i \in DOMAIN h, NEW j \in DOMAIN h, i < j
               PROVE  h[j] - h[i] >= CooldownHours
    BY DEF Spaced
  <2>1. i \in DOMAIN g
    BY <1>2
  <2>2. CASE j \in DOMAIN g
    BY <1>1, <1>2, <2>1, <2>2 DEF Spaced
  <2>3. CASE j = Len(g) + 1
    BY <1>2, <1>3, <2>1, <2>3
  <2>. QED  BY <1>2, <2>2, <2>3
\* The window that ends with the new contact.
<1>5. Cardinality(InWindow(h, t)) <= ContactsAllowed
  <2> DEFINE counted == {i \in DOMAIN g : g[i] > e.at - RollingWindow}
  <2>1. Cardinality(counted) < ContactsAllowed
    <3>1. ContactsInWindow(e.customer, e.at) = Cardinality(counted)
      BY DEF ContactsInWindow
    <3>. QED  BY <3>1, FeasibleContacts
  <2>2. IsFiniteSet(counted) /\ Cardinality(counted) \in Nat
    BY <1>1, WindowsAreFinite
  <2>3. Len(g) + 1 \notin counted
    BY <1>2
  <2>4. /\ IsFiniteSet(counted \cup {Len(g) + 1})
        /\ Cardinality(counted \cup {Len(g) + 1}) = Cardinality(counted) + 1
    BY <2>2, <2>3, FS_AddElement
  <2>5. InWindow(h, t) \in SUBSET (counted \cup {Len(g) + 1})
    <3> SUFFICES ASSUME NEW j \in InWindow(h, t), j # Len(g) + 1
                 PROVE  j \in counted
      OBVIOUS
    <3>1. j \in DOMAIN g /\ h[j] = g[j] /\ g[j] \in Nat
      BY <1>2, <1>3 DEF InWindow
    <3>2. g[j] >= t - RollingWindow + 1
      BY <3>1, <1>0, Constants DEF InWindow
    <3>. QED  BY <3>1, <3>2, <1>0, Constants
  <2>6. Cardinality(InWindow(h, t)) <= Cardinality(counted \cup {Len(g) + 1})
    BY <2>4, <2>5, FS_Subset
  <2>7. Cardinality(InWindow(h, t)) \in Nat
    BY <1>2, WindowsAreFinite DEF InWindow
  <2>. QED  BY <2>1, <2>2, <2>4, <2>6, <2>7, Constants
<1>6. WithinBudget(h)
  <2> SUFFICES ASSUME NEW i \in DOMAIN h
               PROVE  Cardinality(InWindow(h, h[i])) <= ContactsAllowed
    BY DEF WithinBudget
  <2>1. CASE i = Len(g) + 1 \/ h[i] = t
    BY <1>2, <1>5, <2>1
  <2>2. CASE i # Len(g) + 1 /\ h[i] # t
    <3>1. i \in DOMAIN g /\ h[i] = g[i] /\ g[i] \in Nat /\ g[i] < t
      BY <1>0, <1>2, <1>3, <2>2, Constants
    <3>2. InWindow(h, h[i]) = InWindow(g, g[i])
      <4>1. Len(g) + 1 \notin InWindow(h, h[i])
        BY <1>0, <1>2, <3>1, Constants DEF InWindow
      <4>2. /\ InWindow(h, h[i]) = {j \in DOMAIN h : h[j] \in g[i] - RollingWindow + 1 .. g[i]}
            /\ InWindow(g, g[i]) = {j \in DOMAIN g : g[j] \in g[i] - RollingWindow + 1 .. g[i]}
        BY <3>1 DEF InWindow
      <4>3. \A j \in DOMAIN g : j \in DOMAIN h /\ h[j] = g[j]
        BY <1>2
      <4>4. \A j \in DOMAIN h : j \in DOMAIN g \/ j = Len(g) + 1
        BY <1>2
      <4>. QED  BY <4>1, <4>2, <4>3, <4>4
    <3>. QED  BY <1>1, <3>1, <3>2 DEF WithinBudget
  <2>. QED  BY <2>1, <2>2
<1>. QED  BY <1>4, <1>6

\* The invariant holds before the loop.
LEMMA InitIInv == Init => IInv
<1> SUFFICES ASSUME Init PROVE IInv
  OBVIOUS
<1>1. history \in [Customers -> Seq(Nat)] /\ \A u \in Customers : history[u] = <<>>
  BY DEF Init, HistoryInit
<1>2. DOMAIN <<>> = {}
  OBVIOUS
<1>. QED  BY <1>1, <1>2 DEF Init, IInv, Spaced, WithinBudget

\* The actions of an assignment are feasible contacts, or none.
LEMMA AssignedIsFeasible ==
  ASSUME NEW e, NEW a \in Assignments(e)
  PROVE  a.action = "none" \/ a.action \in FeasibleActions(e)
BY DEF Assignments, Control, Explore, Exploit, Assignment

\* Each event that is processed keeps the invariant.
LEMMA NextIInv == IInv /\ [Next]_vars => IInv'
<1> SUFFICES ASSUME IInv, [Next]_vars PROVE IInv'
  OBVIOUS
<1>1. ASSUME NEW e \in batch \ done, Process(e)
      PROVE  IInv'
  <2>0. e \in Slots /\ batch' = batch
    BY <1>1 DEF IInv, Process
  <2>1. PICK a \in Assignments(e) :
          IF a.action \in ContactChannels THEN RecordContact(e.customer, ScheduledFor(e))
                                          ELSE UNCHANGED history
    BY <1>1 DEF Process
  <2>2. CASE a.action \in ContactChannels
    <3>1. a.action \in FeasibleActions(e)
      BY <2>2, AssignedIsFeasible DEF ContactChannels
    <3>2. e.customer \in Customers /\ ScheduledFor(e) \in Nat
      BY <2>0, ScheduledLater
    <3>3. history' = [history EXCEPT ![e.customer] = Append(@, ScheduledFor(e))]
      BY <2>1, <2>2 DEF RecordContact
    <3>4. /\ Spaced(Append(history[e.customer], ScheduledFor(e)))
          /\ WithinBudget(Append(history[e.customer], ScheduledFor(e)))
      BY <2>0, <2>2, <3>1, ContactKeepsLimits
    <3>5. history' \in [Customers -> Seq(Nat)]
      BY <3>2, <3>3 DEF IInv
    <3>6. \A u \in Customers : Spaced(history'[u]) /\ WithinBudget(history'[u])
      BY <3>2, <3>3, <3>4 DEF IInv
    <3>. QED  BY <2>0, <3>5, <3>6 DEF IInv, Spaced, WithinBudget, InWindow
  <2>3. CASE a.action \notin ContactChannels
    BY <2>0, <2>1, <2>3 DEF IInv, Spaced, WithinBudget, InWindow
  <2>. QED  BY <2>2, <2>3
<1>2. CASE UNCHANGED vars
  BY <1>2 DEF vars, IInv, Spaced, WithinBudget, InWindow
<1>. QED  BY <1>1, <1>2 DEF Next

\* For every rhythm of events, every arm and every choice of actions, no customer has
\* more contacts in any rolling window than the budget allows, nor two within the
\* cooldown, although both are judged when the event occurs and the contact takes place
\* later (experiment.run, budgets.ContactLedger and regulations._within_contact_budget).
THEOREM ContactLimits == Spec => []ContactLimitsHold
<1>1. IInv => ContactLimitsHold
  BY DEF IInv, Spaced, WithinBudget, InWindow, ContactLimitsHold
<1>. QED  BY <1>1, InitIInv, NextIInv, PTL DEF Spec

-----------------------------------------------------------------------------
(* Mandates that have ended.                                                *)

LostInv == batch \subseteq Slots /\ TerminalCyclesStayLost

\* Nothing is lost or recovered before the loop.
LEMMA InitLost == Init => LostInv
BY DEF Init, LostInv, TerminalCyclesStayLost

\* Each event that is processed keeps lost cycles lost.
LEMMA NextLost == LostInv /\ [Next]_vars => LostInv'
<1> SUFFICES ASSUME LostInv, [Next]_vars PROVE LostInv'
  OBVIOUS
<1>1. ASSUME NEW e \in batch \ done, Process(e)
      PROVE  LostInv'
  <2>0. PICK a \in Assignments(e) : \E o \in Outcomes(e, a.action) :
          row' = [event |-> e, assignment |-> a, outcome |-> o, feasible |-> FeasibleActions(e),
                  feasibleSetSize |-> Cardinality(FeasibleActions(e)) + 1]
    BY <1>1 DEF Process
  <2>1. PICK o \in Outcomes(e, a.action) :
          row' = [event |-> e, assignment |-> a, outcome |-> o, feasible |-> FeasibleActions(e),
                  feasibleSetSize |-> Cardinality(FeasibleActions(e)) + 1]
    BY <2>0
  <2>2. batch' = batch /\ row'.event = e /\ row'.outcome = o
    BY <1>1, <2>1 DEF Process
  <2>3. e.terminal => o # "RECOVERED"
    <3> SUFFICES ASSUME e.terminal PROVE o # "RECOVERED"
      OBVIOUS
    <3>1. MandateOf(e.customer) = "REVOKED"
      BY <1>1 DEF MandateOf
    <3>2. FeasibleActions(e) = {}
      <4> SUFFICES ASSUME NEW ch \in FeasibleActions(e) PROVE FALSE
        OBVIOUS
      <4>1. Decision(e, ch).mandate = "REVOKED"
        BY <3>1 DEF Decision, Hydrate
      <4>2. MandateIsLive(Decision(e, ch))
        BY FeasibleComplies, CompliantIsLive
      <4>. QED  BY <4>1, <4>2 DEF MandateIsLive
    <3>3. a.action = "none"
      BY <3>2, AssignedIsFeasible
    <3>. QED  BY <3>3 DEF Outcomes
  <2>. QED  BY <2>2, <2>3 DEF LostInv, TerminalCyclesStayLost
<1>2. CASE UNCHANGED vars
  BY <1>2 DEF vars, LostInv, TerminalCyclesStayLost
<1>. QED  BY <1>1, <1>2 DEF Next

\* A cycle whose mandate was revoked is never recovered by an action, because the
\* register lets nobody act on it, on any channel (experiment._feasible_actions and
\* regulations._mandate_is_live).
THEOREM LostCycles == Spec => []TerminalCyclesStayLost
<1>1. LostInv => TerminalCyclesStayLost
  BY DEF LostInv
<1>. QED  BY <1>1, InitLost, NextLost, PTL DEF Spec

-----------------------------------------------------------------------------
(* Three opinions.                                                          *)

\* What the compiler, and the validator, come down to for a contact of this batch.
Lawful(x) ==
  /\ LeadTimeOk(x) /\ MandateIsLive(x) /\ InsideContactWindow(x)
  /\ WithinContactBudget(x) /\ CooldownElapsed(x)

\* What a decision says, of a contact on an event of the batch.
Generated(x) ==
  /\ x.now \in Nat /\ x.scheduledFor \in Nat /\ x.channel \in ContactChannels
  /\ x.class = "TRANSACTIONAL" /\ x.requiresAfa = x.aboveCeiling
  /\ x.mandate \in {"ACTIVE", "REVOKED"} /\ x.optout = FALSE /\ x.consent = "INFERRED"
  /\ x.dnd = FALSE /\ x.promised = FALSE
  /\ x.contacts \in Nat /\ x.lastContact \in Int

\* A decision on a contact of the batch has those fields.
LEMMA DecisionFields ==
  ASSUME IInv, Channels \subseteq ContactChannels, NEW e \in batch, NEW ch \in Channels
  PROVE  Generated(Decision(e, ch))
<1> DEFINE u == e.customer
<1>1. e \in Slots /\ u \in Customers /\ e.at \in Nat /\ ScheduledFor(e) \in Nat
  BY ScheduledLater DEF IInv
<1>2. history[u] \in Seq(Nat) /\ Spaced(history[u])
  BY <1>1 DEF IInv
<1>3. ContactsInWindow(u, e.at) \in Nat
  BY <1>2, WindowsAreFinite DEF ContactsInWindow
<1>4. LastContact(u) \in Int
  <2>1. CASE history[u] = <<>>
    BY <2>1 DEF LastContact, None
  <2>2. CASE history[u] # <<>>
    BY <1>1, <1>2, <2>2, LastIsLatest
  <2>. QED  BY <2>1, <2>2
<1>5. MandateOf(u) \in {"ACTIVE", "REVOKED"}
  BY DEF MandateOf
<1>6. ch \in ContactChannels
  OBVIOUS
<1>. QED  BY <1>1, <1>3, <1>4, <1>5, <1>6 DEF Decision, Hydrate, Generated

\* The compiler keeps what is lawful.
LEMMA CompilerOpinion ==
  ASSUME NEW x, Generated(x)
  PROVE  Violated(BLOCKING_RULES, x) = {} <=> Lawful(x)
<1>1. ASSUME Violated(BLOCKING_RULES, x) = {} PROVE Lawful(x)
  <2>1. x.channel \in ContactChannels
    BY DEF Generated
  <2>2. LeadTimeOk(x)
    <3>1. Rule("RBI-EM-01", "BLOCKING", "PRIMARY", FALSE) \in BLOCKING_RULES
      BY DEF BLOCKING_RULES, REGULATIONS, RBI_RULES, Rule
    <3>2. Holds("RBI-EM-01", x)
      BY <1>1, <3>1 DEF Violated, ViolatedBy, Applies, Rule
    <3>. QED  BY <3>2 DEF Holds
  <2>3. InsideContactWindow(x)
    <3>1. Rule("TRAI-01", "BLOCKING", "REPRODUCTION", TRUE) \in BLOCKING_RULES
      BY DEF BLOCKING_RULES, REGULATIONS, TRAI_RULES, Rule
    <3>2. Holds("TRAI-01", x)
      BY <1>1, <2>1, <3>1 DEF Violated, ViolatedBy, Applies, Rule
    <3>. QED  BY <3>2 DEF Holds
  <2>. QED  BY <1>1, <2>1, <2>2, <2>3, CompliantIsLive, CompliantContacts DEF Lawful
<1>2. ASSUME Lawful(x) PROVE Violated(BLOCKING_RULES, x) = {}
  <2>1. /\ OptoutRespected(x) /\ AfaRouted(x) /\ MessageClassDeclared(x) /\ NotPromotional(x)
        /\ DndRespected(x) /\ PromiseToPayRespected(x)
    BY DEF Generated, OptoutRespected, AfaRouted, MessageClassDeclared, NotPromotional,
       DndRespected, PromiseToPayRespected
  <2>2. ConsentLive(x)
    BY <1>2 DEF Generated, Lawful, MandateIsLive, ConsentLive
  <2>3. \A id : Holds(id, x)
    BY <1>2, <2>1, <2>2 DEF Lawful, Holds
  <2>. QED  BY <2>3 DEF Violated, ViolatedBy
<1>. QED  BY <1>1, <1>2

\* The faults that the validator finds in any decision.
LEMMA FaultsOpinion ==
  ASSUME NEW x, Generated(x)
  PROVE  Faults(x) = {} <=> LeadTimeOk(x) /\ MandateIsLive(x)
<1>1. x.scheduledFor - x.now < LeadHours <=> ~LeadTimeOk(x)
  BY Constants DEF LeadTimeOk, Generated
<1>2. ~x.optout /\ ~(x.aboveCeiling /\ ~x.requiresAfa)
  BY DEF Generated
<1>. QED  BY <1>1, <1>2 DEF Faults, MandateIsLive

\* Those that it finds in a contact.
LEMMA ContactFaultsOpinion ==
  ASSUME NEW x, Generated(x)
  PROVE  ContactFaults(x) = {} <=>
           InsideContactWindow(x) /\ CooldownElapsed(x) /\ x.mandate \notin {"REVOKED", "COMPLETED"}
<1>1. Hour(x.scheduledFor) \in WindowStart .. WindowEnd - 1 <=> InsideContactWindow(x)
  <2>1. Hour(x.scheduledFor) \in Int
    BY DEF Hour, Generated
  <2>. QED  BY <2>1, Constants DEF InsideContactWindow, InContactWindow
<1>2. x.lastContact # None /\ x.scheduledFor - x.lastContact < CooldownHours <=> ~CooldownElapsed(x)
  <2>1. x.scheduledFor - x.lastContact \in Int
    BY DEF Generated
  <2>. QED  BY <2>1, Constants DEF CooldownElapsed
<1>3. x.class # "PROMOTIONAL" /\ x.consent = "INFERRED" /\ ~x.promised
  BY DEF Generated
<1>. QED  BY <1>1, <1>2, <1>3 DEF ContactFaults

\* The validator accepts, of a single candidate, what is lawful.
LEMMA ValidatorOpinion ==
  ASSUME NEW c, Generated(c.x), c.event \in Nat
  PROVE  Valid({c}) <=> Lawful(c.x)
<1>1. IsContact(c)
  BY DEF Generated, IsContact
<1>2. DoubledEvents({c}) = {}
  BY DEF DoubledEvents
<1>3. OverBudget({c}) = {} <=> WithinContactBudget(c.x)
  <2>1. SelectedOf({c}, c.customer) = {c}
    BY <1>1 DEF SelectedOf
  <2>2. First({c}) = c
    <3>1. \E d \in {c} : \A f \in {c} : d.event <= f.event
      OBVIOUS
    <3>. QED  BY <3>1 DEF First
  <2>3. Cardinality({c}) = 1
    BY FS_Singleton
  <2>4. c.x.contacts + 1 > ContactsAllowed <=> ~WithinContactBudget(c.x)
    <3>1. c.x.contacts \in Nat
      BY DEF Generated
    <3>. QED  BY <3>1, Constants DEF WithinContactBudget
  <2>. QED  BY <1>1, <2>1, <2>2, <2>3, <2>4 DEF OverBudget
<1>4. \A d, f \in {c} : ~TooClose(d, f)
  BY DEF TooClose
<1>5. MandateIsLive(c.x) => c.x.mandate \notin {"REVOKED", "COMPLETED"}
  BY DEF MandateIsLive
<1>. QED  BY <1>1, <1>2, <1>3, <1>4, <1>5, FaultsOpinion, ContactFaultsOpinion DEF Valid, Lawful

\* What the stopping rules end is unlawful.
LEMMA StoppingOpinion ==
  ASSUME NEW x, Generated(x), Lawful(x)
  PROVE  Stop(x, 0, TRUE, FALSE) = "PROCEED"
<1> DEFINE rs == Reasons(x, 0, TRUE, FALSE)
<1>1. \A i \in 1 .. 8 : ~rs[i].holds
  <2>1. x.mandate \notin {"REVOKED", "COMPLETED", "PAUSED"} /\ ~x.optout /\ ~x.promised
    BY DEF Generated, Lawful, MandateIsLive
  <2>2. ~(0 >= MaxAttempts)
    BY AttemptsAssumption
  <2>3. ~(x.contacts >= ContactsAllowed)
    <3>1. x.contacts \in Nat
      BY DEF Generated
    <3>. QED  BY <3>1, Constants DEF Lawful, WithinContactBudget
  <2>4. ~rs[1].holds /\ ~rs[2].holds /\ ~rs[3].holds /\ ~rs[4].holds
    BY <2>1 DEF Reasons, Reason
  <2>5. ~rs[5].holds /\ ~rs[6].holds /\ ~rs[7].holds /\ ~rs[8].holds
    BY <2>1, <2>2, <2>3 DEF Reasons, Reason
  <2> HIDE DEF rs
  <2>6. SUFFICES ASSUME NEW i \in 1 .. 8 PROVE ~rs[i].holds
    OBVIOUS
  <2>7. i = 1 \/ i = 2 \/ i = 3 \/ i = 4 \/ i = 5 \/ i = 6 \/ i = 7 \/ i = 8
    OBVIOUS
  <2>. QED  BY <2>4, <2>5, <2>7
<1>2. rs[9].holds /\ rs[9].name = "PROCEED" /\ DOMAIN rs = 1 .. 9
  BY DEF Reasons, Reason
<1> HIDE DEF rs
<1>3. ASSUME NEW i \in 1 .. 9
      PROVE  (rs[i].holds /\ \A j \in 1 .. i - 1 : ~rs[j].holds) <=> i = 9
  <2>1. CASE i = 9
    BY <1>1, <1>2, <2>1
  <2>2. CASE i # 9
    BY <1>1, <2>2
  <2>. QED  BY <2>1, <2>2
<1>4. (CHOOSE i \in DOMAIN rs : rs[i].holds /\ \A j \in 1 .. i - 1 : ~rs[j].holds) = 9
  BY <1>2, <1>3
<1>. QED  BY <1>2, <1>4 DEF Stop, rs

\* For any batch of contacts, thresholds and histories, the compiler keeps exactly what
\* the validator finds no fault with, and neither keeps what the stopping rules end
\* (compiler.compile_problem, validator.validate and StoppingPolicy.evaluate).
THEOREM OneOpinion ==
  ASSUME Channels \subseteq ContactChannels
  PROVE  Spec => []OpinionsAgree
<1>1. IInv => OpinionsAgree
  <2> SUFFICES ASSUME IInv, NEW e \in batch, NEW ch \in Channels
               PROVE  LET c == Candidate(e, ch) IN
                        /\ Rejections(c) = {} <=> Valid({c})
                        /\ Stop(c.x, 0, TRUE, FALSE) # "PROCEED" => ~Valid({c})
    BY DEF OpinionsAgree
  <2> DEFINE c == Candidate(e, ch)
  <2>1. c.x = Decision(e, ch) /\ c.event \in Nat
    BY SlotsAssumption DEF Candidate, IInv
  <2>2. Generated(c.x)
    BY <2>1, DecisionFields
  <2> HIDE DEF c
  <2>3. Valid({c}) <=> Lawful(c.x)
    BY <2>1, <2>2, ValidatorOpinion
  <2>4. Rejections(c) = {} <=> Lawful(c.x)
    BY <2>2, CompilerOpinion DEF Rejections
  <2>5. Lawful(c.x) => Stop(c.x, 0, TRUE, FALSE) = "PROCEED"
    BY <2>2, StoppingOpinion
  <2>. QED  BY <2>3, <2>4, <2>5 DEF c
<1>. QED  BY <1>1, InitIInv, NextIInv, PTL DEF Spec

-----------------------------------------------------------------------------
(* The selections that the compiler's rows allow.                           *)

\* A finite set with two members holds more than one.
LEMMA TwoAreMore ==
  ASSUME NEW S, IsFiniteSet(S), NEW c \in S, NEW d \in S, c # d
  PROVE  Cardinality(S) > 1
<1>1. {c, d} \in SUBSET S
  OBVIOUS
<1>2. IsFiniteSet({c}) /\ Cardinality({c}) = 1
  BY FS_Singleton
<1>3. Cardinality({c} \cup {d}) = 2
  BY <1>2, FS_AddElement
<1>4. {c} \cup {d} = {c, d}
  OBVIOUS
<1>5. Cardinality({c, d}) <= Cardinality(S)
  BY <1>1, FS_Subset
<1>6. Cardinality(S) \in Nat
  BY FS_CardinalityType
<1>. QED  BY <1>3, <1>4, <1>5, <1>6

\* A row that allows one of a group keeps a selection to one of it.
LEMMA OneOfGroup ==
  ASSUME NEW fs, IsFiniteSet(fs), NEW s \in SUBSET fs, NEW g \in SUBSET fs, NEW kind,
         SatisfiedBy(Row(kind, g, 1), s), NEW c \in s, NEW d \in s, c \in g, d \in g
  PROVE  c = d
<1>1. Cardinality(g \cap s) <= 1
  BY DEF SatisfiedBy, Row
<1>2. IsFiniteSet(g \cap s)
  BY FS_Subset
<1>3. c # d => Cardinality(g \cap s) > 1
  BY <1>2, TwoAreMore
<1>4. Cardinality(g \cap s) \in Nat
  BY <1>2, FS_CardinalityType
<1>. QED  BY <1>1, <1>3, <1>4

LessThan == {p \in Nat \X Nat : p[1] < p[2]}

\* Among numbers there is a least one.
LEMMA LeastNumber ==
  ASSUME NEW S \in SUBSET Nat, S # {}
  PROVE  \E m \in S : \A n \in S : m <= n
<1>1. IsWellFoundedOn(LessThan, Nat)
  <2>1. OpToRel(<, Nat) = LessThan
    BY DEF OpToRel, LessThan
  <2>. QED  BY <2>1, NatLessThanWellFounded
<1>2. PICK m \in S : \A n \in S : ~(<<n, m>> \in LessThan)
  BY <1>1, WFMin
<1>3. ASSUME NEW n \in S PROVE m <= n
  <2>1. ~(<<n, m>> \in LessThan) /\ n \in Nat /\ m \in Nat
    BY <1>2
  <2>2. n < m => <<n, m>> \in LessThan
    BY <2>1 DEF LessThan
  <2>. QED  BY <2>1, <2>2
<1>. QED  BY <1>3

\* The validator accepts whatever satisfies the compiler's rows, as long as later events
\* of a customer see no more contacts than earlier ones: the first of the selection then
\* sees no more than the first of the row.
LEMMA RowsAreEnough ==
  ASSUME NEW fs, IsFiniteSet(fs), NEW s \in SUBSET fs, \A r \in Rows(fs) : SatisfiedBy(r, s),
         \A c \in fs : Generated(c.x) /\ Lawful(c.x) /\ c.event \in Nat,
         \A c, d \in fs : c.customer = d.customer /\ c.event <= d.event
                           => d.x.contacts <= c.x.contacts
  PROVE  Valid(s)
<1>1. \A c \in s : Faults(c.x) = {} /\ ContactFaults(c.x) = {} /\ IsContact(c)
  <2> SUFFICES ASSUME NEW c \in s
               PROVE  Faults(c.x) = {} /\ ContactFaults(c.x) = {} /\ IsContact(c)
    OBVIOUS
  <2>1. Generated(c.x) /\ Lawful(c.x)
    OBVIOUS
  <2>2. c.x.mandate \notin {"REVOKED", "COMPLETED"} /\ IsContact(c)
    BY <2>1 DEF Lawful, MandateIsLive, Generated, IsContact
  <2>. QED  BY <2>1, <2>2, FaultsOpinion, ContactFaultsOpinion DEF Lawful
<1>2. ASSUME NEW c \in s, NEW d \in s, c # d, c.event = d.event PROVE FALSE
  <2> DEFINE g == {f \in fs : f.event = c.event}
  <2>1. g \in ByEvent(fs) /\ g \in SUBSET fs /\ c \in g /\ d \in g
    BY <1>2 DEF ByEvent
  <2> HIDE DEF g
  <2>2. Cardinality(g) > 1
    <3>1. IsFiniteSet(g)
      BY <2>1, FS_Subset
    <3>. QED  BY <1>2, <2>1, <3>1, TwoAreMore
  <2>3. Row("ONE_ACTION_PER_EVENT", g, 1) \in Rows(fs)
    BY <2>1, <2>2 DEF Rows, OneActionRows
  <2>4. SatisfiedBy(Row("ONE_ACTION_PER_EVENT", g, 1), s)
    BY <2>3
  <2>. QED  BY <1>2, <2>1, <2>4, OneOfGroup
<1>3. DoubledEvents(s) = {}
  BY <1>2 DEF DoubledEvents
<1>4. ASSUME NEW u, NEW b \in s, b.customer = u
      PROVE  LET g == {c \in fs : IsContact(c) /\ c.customer = u} IN
               g \in ByCustomer(fs) /\ g \in SUBSET fs /\ IsFiniteSet(g) /\ g # {}
  <2> DEFINE g == {c \in fs : IsContact(c) /\ c.customer = u}
  <2>1. b \in {d \in fs : IsContact(d)}
    BY <1>1
  <2>2. g \in ByCustomer(fs) /\ g \in SUBSET fs /\ b \in g
    BY <1>1, <1>4, <2>1 DEF ByCustomer
  <2> HIDE DEF g
  <2>3. IsFiniteSet(g)
    BY <2>2, FS_Subset
  <2>. QED  BY <2>2, <2>3 DEF g
<1>5. ASSUME NEW c \in s, NEW d \in s, TooClose(c, d) PROVE FALSE
  <2> DEFINE g == {f \in fs : IsContact(f) /\ f.customer = c.customer}
  <2>1. c # d /\ c \in g /\ d \in g
    BY <1>5 DEF TooClose
  <2>2. g \in ByCustomer(fs) /\ g \in SUBSET fs /\ IsFiniteSet(g)
    BY <1>4
  <2> HIDE DEF g
  <2>3. Cardinality(g) > 1
    BY <2>1, <2>2, TwoAreMore
  <2>4. Row("CUSTOMER_COOLDOWN", g, 1) \in Rows(fs)
    BY <2>2, <2>3 DEF Rows, CooldownRows
  <2>5. SatisfiedBy(Row("CUSTOMER_COOLDOWN", g, 1), s)
    BY <2>4
  <2>. QED  BY <2>1, <2>2, <2>5, OneOfGroup
<1>6. ASSUME NEW b \in s
      PROVE  ~(First(SelectedOf(s, b.customer)).x.contacts
                 + Cardinality(SelectedOf(s, b.customer)) > ContactsAllowed)
  <2> DEFINE group == SelectedOf(s, b.customer)
             g == {f \in fs : IsContact(f) /\ f.customer = b.customer}
  <2>1. g \in ByCustomer(fs) /\ g \in SUBSET fs /\ IsFiniteSet(g) /\ g # {}
    BY <1>4
  <2>2. group = g \cap s /\ b \in group
    BY <1>1 DEF SelectedOf
  <2>3. ASSUME NEW h \in SUBSET fs, h # {}
        PROVE  First(h) \in h /\ \A d \in h : First(h).event <= d.event
    <3>1. {c.event : c \in h} \in SUBSET Nat /\ {c.event : c \in h} # {}
      BY <2>3
    <3>2. \E m \in {c.event : c \in h} : \A n \in {c.event : c \in h} : m <= n
      BY <3>1, LeastNumber
    <3>3. \E c \in h : \A d \in h : c.event <= d.event
      BY <3>2
    <3>. QED  BY <3>3 DEF First
  <2> HIDE DEF g, group
  <2>4. First(g) \in g /\ First(group) \in group /\ First(g).event <= First(group).event
    <3>1. group \in SUBSET fs /\ group # {} /\ group \subseteq g
      BY <2>2
    <3>2. First(g) \in g /\ First(group) \in group
      BY <2>1, <2>3, <3>1
    <3>. QED  BY <2>1, <2>3, <3>1, <3>2
  <2> DEFINE k == First(g).x.contacts
             l == First(group).x.contacts
  <2>5. First(g) \in fs /\ First(group) \in fs /\ First(g).customer = First(group).customer
    BY <2>1, <2>2, <2>4 DEF g
  <2>6. k \in Nat /\ l \in Nat /\ k < ContactsAllowed /\ l <= k
    BY <2>4, <2>5 DEF Generated, Lawful, WithinContactBudget
  <2> HIDE DEF k, l
  <2>7. Row("CONTACT_BUDGET", g, Remaining(k)) \in Rows(fs)
    BY <2>1 DEF Rows, BudgetRows, k
  <2>8. Cardinality(g \cap s) <= Remaining(k)
    BY <2>7 DEF SatisfiedBy, Row
  <2>9. Remaining(k) = ContactsAllowed - k /\ ContactsAllowed \in Nat
    BY <2>6, PolicyAssumption DEF Remaining
  <2>10. Cardinality(group) \in Nat
    <3>1. IsFiniteSet(group)
      BY <2>1, <2>2, FS_Subset
    <3>. QED  BY <3>1, FS_CardinalityType
  <2>11. ~(l + Cardinality(group) > ContactsAllowed)
    BY <2>2, <2>6, <2>8, <2>9, <2>10
  <2>. QED  BY <2>11 DEF group, l
<1>7. OverBudget(s) = {}
  BY <1>6 DEF OverBudget
<1>. QED  BY <1>1, <1>3, <1>5, <1>7 DEF Valid

\* The candidates of finitely many events are finitely many.
LEMMA CandidatesAreFinite ==
  ASSUME Channels \subseteq ContactChannels, NEW es, IsFiniteSet(es)
  PROVE  IsFiniteSet({Candidate(e, ch) : e \in es, ch \in Channels})
<1> DEFINE T == {Candidate(e, ch) : e \in es, ch \in Channels}
           f == [p \in es \X Channels |-> Candidate(p[1], p[2])]
<1>1. IsFiniteSet(Channels)
  <2>1. IsFiniteSet({"SMS", "WHATSAPP", "VOICE"} \cup {"EMAIL"})
    <3>1. IsFiniteSet({"SMS"})
      BY FS_Singleton
    <3>2. IsFiniteSet({"SMS"} \cup {"WHATSAPP"})
      BY <3>1, FS_AddElement
    <3>3. IsFiniteSet(({"SMS"} \cup {"WHATSAPP"}) \cup {"VOICE"})
      BY <3>2, FS_AddElement
    <3>4. ({"SMS"} \cup {"WHATSAPP"}) \cup {"VOICE"} = {"SMS", "WHATSAPP", "VOICE"}
      OBVIOUS
    <3>5. IsFiniteSet({"SMS", "WHATSAPP", "VOICE"})
      BY <3>3, <3>4
    <3>. QED  BY <3>5, FS_AddElement
  <2>2. Channels \in SUBSET ({"SMS", "WHATSAPP", "VOICE"} \cup {"EMAIL"})
    BY DEF ContactChannels
  <2>. QED  BY <2>1, <2>2, FS_Subset
<1>2. IsFiniteSet(es \X Channels)
  BY <1>1, FS_Product
<1>3. \A p \in es \X Channels : f[p] \in T
  OBVIOUS
<1>4. ASSUME NEW t \in T PROVE \E p \in es \X Channels : f[p] = t
  <2>1. PICK e \in es, ch \in Channels : t = Candidate(e, ch)
    OBVIOUS
  <2>2. <<e, ch>> \in es \X Channels /\ f[<<e, ch>>] = t
    BY <2>1
  <2>. QED  BY <2>2
<1>5. f \in [es \X Channels -> T]
  BY <1>3
<1> HIDE DEF f, T
<1>6. f \in Surjection(es \X Channels, T)
  BY <1>4, <1>5 DEF Surjection
<1>7. IsFiniteSet(T)
  BY <1>2, <1>6, FS_Surjection
<1>. QED  BY <1>7 DEF T

\* A later event sees the same contacts through a later window: no more of them.
LEMMA LaterSeesNoMore ==
  ASSUME IInv, NEW e \in batch, NEW f \in batch, e.customer = f.customer, e.n <= f.n
  PROVE  ContactsInWindow(f.customer, f.at) <= ContactsInWindow(e.customer, e.at)
<1> DEFINE u == e.customer
           late == {i \in DOMAIN history[u] : history[u][i] > f.at - RollingWindow}
           early == {i \in DOMAIN history[u] : history[u][i] > e.at - RollingWindow}
<1>1. e \in Slots /\ f \in Slots
  BY DEF IInv
<1>2. u \in Customers /\ e.at \in Nat /\ f.at \in Nat /\ e.n \in Nat /\ f.n \in Nat
  BY <1>1, SlotsAssumption
<1>3. e.at <= f.at
  <2>1. f.at < e.at => f.n < e.n
    BY <1>1, SlotsAssumption
  <2>. QED  BY <1>2, <2>1
<1>4. history[u] \in Seq(Nat)
  BY <1>2 DEF IInv
<1>5. \A i \in DOMAIN history[u] : history[u][i] \in Nat
  BY <1>4
<1>6. late \in SUBSET early
  BY <1>2, <1>3, <1>5, Constants
<1>7. early \in SUBSET DOMAIN history[u]
  OBVIOUS
<1>8. Cardinality(late) <= Cardinality(early)
  <2> HIDE DEF late, early
  <2>1. IsFiniteSet(early)
    BY <1>4, <1>7, WindowsAreFinite
  <2>. QED  BY <1>6, <2>1, FS_Subset
<1>. QED  BY <1>8 DEF ContactsInWindow

\* At every moment of the walk, whatever selection of the lawful candidates of the events
\* to come satisfies the compiler's rows passes the validator, which was written without
\* them, for any contacts that the walk may have made (compiler.compile_problem and
\* validator.validate).
THEOREM SelectionsPass ==
  ASSUME Channels \subseteq ContactChannels
  PROVE  Spec => []CompiledSelectionsPass
<1>1. ASSUME IInv, IsFiniteSet(batch) PROVE CompiledSelectionsPass
  <2> DEFINE all == {Candidate(e, ch) : e \in batch \ done, ch \in Channels}
  <2>1. IsFiniteSet(all)
    <3>1. IsFiniteSet(batch \ done)
      BY <1>1, FS_Subset
    <3>. QED  BY <3>1, CandidatesAreFinite
  <2>2. \A c \in all : \E e \in batch : /\ Generated(c.x) /\ c.event \in Nat
                                         /\ c.event = e.n /\ c.customer = e.customer
                                         /\ c.x.contacts = ContactsInWindow(e.customer, e.at)
    <3> SUFFICES ASSUME NEW e \in batch, NEW ch \in Channels
                 PROVE  LET c == Candidate(e, ch) IN
                          /\ Generated(c.x) /\ c.event \in Nat
                          /\ c.event = e.n /\ c.customer = e.customer
                          /\ c.x.contacts = ContactsInWindow(e.customer, e.at)
      OBVIOUS
    <3>1. e.n \in Nat
      BY <1>1, SlotsAssumption DEF IInv
    <3>2. Generated(Decision(e, ch))
      BY <1>1, DecisionFields
    <3>3. Decision(e, ch).contacts = ContactsInWindow(e.customer, e.at)
      BY DEF Decision, Hydrate
    <3>. QED  BY <3>1, <3>2, <3>3 DEF Candidate
  <2>3. Compiled = Feasible(all)
    BY DEF Compiled
  <2> HIDE DEF all
  <2>4. Compiled \in SUBSET all /\ \A c \in Compiled : Rejections(c) = {}
    BY <2>3 DEF Feasible
  <2>5. IsFiniteSet(Compiled)
    BY <2>1, <2>4, FS_Subset
  <2>6. \A c \in Compiled : Generated(c.x) /\ Lawful(c.x) /\ c.event \in Nat
    BY <2>2, <2>4, CompilerOpinion DEF Rejections
  <2>7. ASSUME NEW c \in Compiled, NEW d \in Compiled, c.customer = d.customer, c.event <= d.event
        PROVE  d.x.contacts <= c.x.contacts
    <3>1. PICK e \in batch : /\ c.event = e.n /\ c.customer = e.customer
                             /\ c.x.contacts = ContactsInWindow(e.customer, e.at)
      BY <2>2, <2>4
    <3>2. PICK f \in batch : /\ d.event = f.n /\ d.customer = f.customer
                             /\ d.x.contacts = ContactsInWindow(f.customer, f.at)
      BY <2>2, <2>4
    <3>. QED  BY <1>1, <2>7, <3>1, <3>2, LaterSeesNoMore
  <2>8. ASSUME NEW s \in SUBSET Compiled, \A r \in Rows(Compiled) : SatisfiedBy(r, s)
        PROVE  Valid(s)
    BY <2>5, <2>6, <2>7, <2>8, RowsAreEnough
  <2>. QED  BY <2>8 DEF CompiledSelectionsPass
<1>2. Init => IsFiniteSet(batch)
  BY DEF Init, IsBatch
<1>3. IsFiniteSet(batch) /\ [Next]_vars => IsFiniteSet(batch)'
  BY DEF Next, Process, vars
<1>. QED  BY <1>1, <1>2, <1>3, InitIInv, NextIInv, PTL DEF Spec

-----------------------------------------------------------------------------
(* The response model, for any unit and any latents: what is drawn comes as *)
(* often as its probability says.                                           *)

\* A share of a whole is no more than the whole.
LEMMA PercentBounds ==
  ASSUME NEW p \in 0 .. 100, NEW x \in Nat
  PROVE  Percent(p, x) \in 0 .. x
<1> DEFINE y == p * x
<1>1. y \in Nat
  OBVIOUS
<1>2. y <= 100 * x
  <2>1. 100 * x = p * x + (100 - p) * x
    OBVIOUS
  <2>2. (100 - p) \in Nat /\ (100 - p) * x \in Nat
    OBVIOUS
  <2>. QED  BY <1>1, <2>1, <2>2
<1> HIDE DEF y
<1>3. y \div 100 \in 0 .. x
  BY <1>1, <1>2
<1>. QED  BY <1>3 DEF Percent, y

\* A capped probability is one.
LEMMA CapBounds ==
  ASSUME NEW p \in 0 .. 100, NEW x \in Nat
  PROVE  AtMost(Percent(p, Unit), x) \in 0 .. Unit
<1>1. Percent(p, Unit) \in 0 .. Unit
  BY PercentBounds, UnitAssumption
<1>. QED  BY <1>1, UnitAssumption DEF AtMost

\* The probability that a debit recovers by itself, which a revoked mandate does not.
LEMMA SelfHealBounds ==
  ASSUME NEW l \in Latents,
         NEW class \in {"MANDATE_REVOKED", "ISSUER_DOWN", "INSUFFICIENT_FUNDS",
                        "TECHNICAL_DECLINE", "AFA_REQUIRED"}
  PROVE  /\ SelfHealProbability(l, class) \in 0 .. Unit
         /\ class = "MANDATE_REVOKED" => SelfHealProbability(l, class) = 0
<1>1. SELF_HEAL_BY_CLASS[class] \in 0 .. 100
      /\ (class = "MANDATE_REVOKED" => SELF_HEAL_BY_CLASS[class] = 0)
  BY DEF SELF_HEAL_BY_CLASS
<1>2. l.heal \in Nat
  BY LatentsAssumption
<1> DEFINE x == Percent(SELF_HEAL_BY_CLASS[class], l.heal)
<1>3. x \in Nat
  <2>1. x \in 0 .. l.heal
    BY <1>1, <1>2, PercentBounds
  <2>. QED  BY <1>2, <2>1
<1>4. class = "MANDATE_REVOKED" => x = 0
  BY <1>1, <1>2 DEF Percent
<1> HIDE DEF x
<1>5. AtMost(Percent(98, Unit), x) \in 0 .. Unit
  BY <1>3, CapBounds
<1>6. x = 0 => AtMost(Percent(98, Unit), x) = 0
  <2>1. Percent(98, Unit) \in 0 .. Unit
    BY PercentBounds, UnitAssumption
  <2>. QED  BY <2>1, UnitAssumption DEF AtMost
<1>. QED  BY <1>4, <1>5, <1>6 DEF SelfHealProbability, x

\* The probability that a customer is persuaded.
LEMMA PersuasionBounds ==
  ASSUME NEW l \in Latents, NEW a
  PROVE  PersuasionProbability(l, a) \in 0 .. Unit /\ PersuasionProbability(l, "none") = 0
<1>1. l.fit \in Nat /\ l.ceiling \in Nat
  BY LatentsAssumption
<1> DEFINE f == IF a = "SILENT_RETRY" THEN 22 ELSE l.fit
           x == Percent(f, l.ceiling)
<1>2. f \in Nat
  BY <1>1
<1>3. x \in Nat
  <2> DEFINE y == f * l.ceiling
  <2>1. y \in Nat
    BY <1>1, <1>2
  <2> HIDE DEF y, f
  <2>2. y \div 100 \in Nat
    BY <2>1
  <2>. QED  BY <2>2 DEF Percent, y
<1> HIDE DEF x
<1>4. AtMost(Percent(92, Unit), x) \in 0 .. Unit
  BY <1>3, CapBounds
<1>5. PersuasionProbability(l, a) = IF a = "none" THEN 0 ELSE AtMost(Percent(92, Unit), x)
  BY DEF PersuasionProbability, x, f
<1>. QED  BY <1>4, <1>5, UnitAssumption DEF PersuasionProbability

\* The risk of a cancellation, which nothing makes smaller than leaving the customer
\* alone.
LEMMA OptoutBounds ==
  ASSUME NEW l \in Latents, NEW a \in {"none"} \cup Channel
  PROVE  /\ OptoutProbability(l, a) \in 0 .. Unit
         /\ OptoutProbability(l, "none") \in 0 .. Unit
         /\ OptoutProbability(l, "none") <= OptoutProbability(l, a)
<1> DEFINE h == l.hazard
           c == IF l.churn THEN 26 ELSE 10
           i == CHANNEL_INTRUSIVENESS[a]
           X(k) == (h * k * c * 14) \div (100 * 10 * 10)
<1>1. h \in Nat
  BY LatentsAssumption
<1>2. c \in {10, 26}
  OBVIOUS
<1>3. i \in {40, 70, 85, 100, 110, 145} /\ CHANNEL_INTRUSIVENESS["none"] = 40
  BY DEF CHANNEL_INTRUSIVENESS, Channel, ContactChannels
<1>4. OptoutProbability(l, a) = AtMost(Percent(55, Unit), X(i))
      /\ OptoutProbability(l, "none") = AtMost(Percent(55, Unit), X(40))
  BY <1>3 DEF OptoutProbability
<1> HIDE DEF h, c, i
<1>5. X(i) \in Nat /\ X(40) \in Nat /\ X(40) <= X(i)
  <2>1. CASE c = 10
    BY <1>1, <1>3, <2>1
  <2>2. CASE c = 26
    BY <1>1, <1>3, <2>2
  <2>. QED  BY <1>2, <2>1, <2>2
<1> HIDE DEF X
<1>6. Percent(55, Unit) \in 0 .. Unit
  BY PercentBounds, UnitAssumption
<1>. QED  BY <1>4, <1>5, <1>6, UnitAssumption DEF AtMost

\* The probability of recovery of whoever stays.
LEMMA ConditionalBounds ==
  ASSUME NEW h \in 0 .. Unit, NEW p \in 0 .. Unit
  PROVE  Conditional(h, p) \in 0 .. Unit * Unit /\ Conditional(h, 0) = h * Unit
<1> DEFINE g == Unit - h
           q == Unit - p
<1>1. Unit \in Nat /\ h \in Nat /\ p \in Nat /\ g \in Nat /\ q \in Nat
  BY UnitAssumption
<1>2. h * Unit \in Nat /\ g * p \in Nat /\ g * q \in Nat
  BY <1>1
<1>3. Unit * Unit = h * Unit + g * p + g * q
  BY <1>1
<1>4. Conditional(h, p) = h * Unit + g * p
  BY DEF Conditional
<1>5. Conditional(h, 0) = h * Unit
  BY <1>1 DEF Conditional
<1>. QED  BY <1>1, <1>2, <1>3, <1>4, <1>5

\* How many draws recover.
LEMMA RecoveriesCounted ==
  ASSUME NEW t, t.optout \in 0 .. Unit, t.conditional \in 0 .. Unit * Unit
  PROVE  Cardinality({d \in Draws : Sample(t, d) = "RECOVERED"}) = (Unit - t.optout) * t.conditional
<1> DEFINE R == {d \in Draws : Sample(t, d) = "RECOVERED"}
           A == t.optout .. Unit - 1
           B == 0 .. t.conditional - 1
           f == [p \in A \X B |-> [optout |-> p[1], recover |-> p[2]]]
<1>1. Unit \in Nat /\ Unit * Unit \in Nat /\ t.optout \in Nat /\ t.conditional \in Nat
  BY UnitAssumption
<1>2. IsFiniteSet(A) /\ Cardinality(A) = Unit - t.optout
  <2>1. t.optout \in Int /\ Unit - 1 \in Int
    BY <1>1
  <2>2. IsFiniteSet(A) /\ Cardinality(A) = IF t.optout > Unit - 1 THEN 0 ELSE (Unit - 1) - t.optout + 1
    BY <2>1, FS_Interval
  <2>. QED  BY <1>1, <2>2
<1>3. IsFiniteSet(B) /\ Cardinality(B) = t.conditional
  <2>1. 0 \in Int /\ t.conditional - 1 \in Int
    BY <1>1
  <2>2. IsFiniteSet(B) /\ Cardinality(B) = IF 0 > t.conditional - 1 THEN 0 ELSE (t.conditional - 1) - 0 + 1
    BY <2>1, FS_Interval
  <2>. QED  BY <1>1, <2>2
<1>4. ASSUME NEW d \in Draws
      PROVE  Sample(t, d) = "RECOVERED" <=> d.optout \in A /\ d.recover \in B
  <2>1. d.optout \in 0 .. Unit - 1 /\ d.recover \in 0 .. Unit * Unit - 1
    BY DEF Draws
  <2>. QED  BY <1>1, <2>1 DEF Sample
<1>5. ASSUME NEW p \in A \X B PROVE f[p] \in R
  <2>1. [optout |-> p[1], recover |-> p[2]] \in Draws
    <3>1. p[1] \in 0 .. Unit - 1 /\ p[2] \in 0 .. Unit * Unit - 1
      BY <1>1
    <3>. QED  BY <3>1 DEF Draws
  <2>2. [optout |-> p[1], recover |-> p[2]] \in R
    BY <1>4, <2>1
  <2>. QED  BY <2>2
<1>6. ASSUME NEW d \in R PROVE \E p \in A \X B : f[p] = d
  <2>1. d = [optout |-> d.optout, recover |-> d.recover] /\ d.optout \in A /\ d.recover \in B
    <3>1. d \in Draws
      OBVIOUS
    <3>. QED  BY <1>4, <3>1 DEF Draws
  <2>2. <<d.optout, d.recover>> \in A \X B /\ f[<<d.optout, d.recover>>] = d
    BY <2>1
  <2>. QED  BY <2>2
<1>7. ASSUME NEW p \in A \X B, NEW q \in A \X B, f[p] = f[q] PROVE p = q
  <2>1. f[p].optout = p[1] /\ f[p].recover = p[2] /\ f[q].optout = q[1] /\ f[q].recover = q[2]
    OBVIOUS
  <2>2. p[1] = q[1] /\ p[2] = q[2]
    BY <1>7, <2>1
  <2>3. p = <<p[1], p[2]>> /\ q = <<q[1], q[2]>>
    OBVIOUS
  <2>. QED  BY <2>2, <2>3
<1>8. f \in [A \X B -> R]
  BY <1>5
<1>9. IsFiniteSet(A \X B) /\ Cardinality(A \X B) = (Unit - t.optout) * t.conditional
  <2>1. IsFiniteSet(A \X B) /\ Cardinality(A \X B) = Cardinality(A) * Cardinality(B)
    <3> HIDE DEF A, B
    <3>. QED  BY <1>2, <1>3, FS_Product
  <2>. QED  BY <1>2, <1>3, <2>1
<1> HIDE DEF A, B, R, f
<1>10. f \in Bijection(A \X B, R)
  <2> DEFINE P == A \X B
  <2>1. /\ f \in [P -> R] /\ \A d \in R : \E p \in P : f[p] = d
        /\ \A p, q \in P : f[p] = f[q] => p = q
    BY <1>6, <1>7, <1>8
  <2> HIDE DEF P
  <2>2. f \in Injection(P, R)
    BY <2>1 DEF Injection, IsInjective
  <2>3. f \in Surjection(P, R)
    BY <2>1 DEF Surjection
  <2>. QED  BY <2>2, <2>3 DEF Bijection, P
<1>11. Cardinality(R) = Cardinality(A \X B)
  BY <1>9, <1>10, FS_Bijection DEF ExistsBijection
<1>. QED  BY <1>9, <1>11 DEF R

\* A contact that persuades nobody is worth nothing, whatever the amount.
LEMMA UselessIsWorthless ==
  ASSUME NEW t, NEW h \in 0 .. Unit, NEW o \in 0 .. Unit, NEW b \in 0 .. Unit, b <= o,
         t.optout = o, t.baseline = b, t.treated = (Unit - o) * (h * Unit),
         t.untreated = Unit * (Unit - b) * h
  PROVE  NetValue(t, 100, 5, 6) <= 0
<1>1. Unit \in Nat /\ h \in Nat /\ o \in Nat /\ b \in Nat /\ o - b \in Nat
  BY UnitAssumption
<1> DEFINE loss == (o - b) * (h * Unit)
           cube == Unit * Unit * Unit
           square == Unit * Unit
<1>2. loss \in Nat /\ cube \in Nat /\ square \in Nat
  BY <1>1
<1>3. Uplift(t) = 0 - loss
  <2>1. Unit * (Unit - b) * h = (Unit - b) * (h * Unit)
    BY <1>1
  <2>2. (Unit - b) * (h * Unit) = (Unit - o) * (h * Unit) + loss
    BY <1>1
  <2>3. (Unit - o) * (h * Unit) \in Int
    BY <1>1
  <2>4. Uplift(t) = (Unit - o) * (h * Unit) - (Unit - b) * (h * Unit)
    BY <2>1 DEF Uplift
  <2> HIDE DEF loss
  <2>. QED  BY <1>2, <2>2, <2>3, <2>4
<1>4. OptoutUplift(t) \in Nat
  BY <1>1 DEF OptoutUplift
<1> DEFINE harm == OptoutUplift(t)
           price == square * harm
<1>5. NetValue(t, 100, 5, 6) = Uplift(t) * 100 - cube * 5 - square * harm * 100 * 6
  BY DEF NetValue
<1> HIDE DEF loss, cube, square, harm
<1>6. price \in Nat /\ square * harm * 100 * 6 = price * 600
  <2>1. harm \in Nat
    BY <1>4 DEF harm
  <2>2. price \in Nat
    BY <1>2, <2>1
  <2> HIDE DEF price
  <2>3. price = square * harm
    BY DEF price
  <2>. QED  BY <1>2, <2>1, <2>2, <2>3
<1> HIDE DEF price
<1>. QED  BY <1>2, <1>3, <1>5, <1>6

\* The outcomes that are drawn come as often as the logged truth says, for the action
\* and the counterfactual, whoever cancels alone cancels when contacted, and what
\* persuades nobody is worth nothing (response_model.evaluate and sample,
\* policies.value_of).
THEOREM SamplingIsTrue == Spec => []SamplingFollowsTheTruth
<1>1. ASSUME batch \subseteq Slots PROVE SamplingFollowsTheTruth
  <2> SUFFICES ASSUME NEW e \in batch, NEW l \in Latents, NEW a \in {"none"} \cup Channels,
                      NEW class \in ClassesOf(e)
               PROVE  LET truth == GroundTruth(l, class, a)
                          left == GroundTruth(l, class, "none")
                          Drawn(t, outcome) == {d \in Draws : Sample(t, d) = outcome}
                      IN  /\ Cardinality(Drawn(truth, "RECOVERED")) = truth.treated
                          /\ Cardinality(Drawn(left, "RECOVERED")) = truth.untreated
                          /\ Drawn(left, "OPTOUT") \subseteq Drawn(truth, "OPTOUT")
                          /\ {Sample(truth, d) : d \in Draws} \subseteq Outcomes(e, a)
                          /\ PersuasionProbability(l, a) = 0 => NetValue(truth, 100, 5, 6) <= 0
    BY DEF SamplingFollowsTheTruth
  <2> DEFINE truth == GroundTruth(l, class, a)
             left == GroundTruth(l, class, "none")
             h == SelfHealProbability(l, class)
             p == PersuasionProbability(l, a)
             o == OptoutProbability(l, a)
             b == OptoutProbability(l, "none")
  <2>1. class \in {"MANDATE_REVOKED", "ISSUER_DOWN", "INSUFFICIENT_FUNDS", "TECHNICAL_DECLINE",
                   "AFA_REQUIRED"}
        /\ (e.terminal => class = "MANDATE_REVOKED")
    BY DEF ClassesOf
  <2>2. a \in {"none"} \cup Channel /\ "none" \in {"none"} \cup Channel
    BY SlotsAssumption
  <2>3. h \in 0 .. Unit /\ (class = "MANDATE_REVOKED" => h = 0)
    BY <2>1, SelfHealBounds
  <2>4. p \in 0 .. Unit /\ PersuasionProbability(l, "none") = 0 /\ (a = "none" => p = 0)
    BY PersuasionBounds
  <2>5. o \in 0 .. Unit /\ b \in 0 .. Unit /\ b <= o
    BY <2>2, OptoutBounds
  <2>6. /\ truth.optout = o /\ truth.baseline = b /\ truth.conditional = Conditional(h, p)
        /\ truth.treated = (Unit - o) * Conditional(h, p)
        /\ truth.untreated = Unit * (Unit - b) * h
    BY DEF GroundTruth, Treated, Untreated
  <2>7. left.optout = b /\ left.conditional = Conditional(h, 0)
    BY <2>4 DEF GroundTruth
  <2> HIDE DEF truth, left, h, p, o, b
  <2>8. Conditional(h, p) \in 0 .. Unit * Unit /\ Conditional(h, 0) = h * Unit
    BY <2>3, <2>4, ConditionalBounds
  <2>9. Conditional(h, 0) \in 0 .. Unit * Unit
    <3>1. 0 \in 0 .. Unit
      BY UnitAssumption
    <3>. QED  BY <2>3, <3>1, ConditionalBounds
  <2>10. Cardinality({d \in Draws : Sample(truth, d) = "RECOVERED"}) = truth.treated
    BY <2>5, <2>6, <2>8, RecoveriesCounted
  <2>11. Cardinality({d \in Draws : Sample(left, d) = "RECOVERED"}) = truth.untreated
    <3>1. Cardinality({d \in Draws : Sample(left, d) = "RECOVERED"}) = (Unit - b) * (h * Unit)
      BY <2>5, <2>7, <2>8, <2>9, RecoveriesCounted
    <3>2. (Unit - b) * (h * Unit) = Unit * (Unit - b) * h
      <4>1. Unit \in Int /\ b \in Int /\ h \in Int
        BY <2>3, <2>5, UnitAssumption
      <4>. QED  BY <4>1
    <3>. QED  BY <2>6, <3>1, <3>2
  <2>12. \A d \in Draws : Sample(left, d) = "OPTOUT" => Sample(truth, d) = "OPTOUT"
    <3> SUFFICES ASSUME NEW d \in Draws, Sample(left, d) = "OPTOUT" PROVE Sample(truth, d) = "OPTOUT"
      OBVIOUS
    <3>1. d.optout \in Int /\ b \in Int /\ o \in Int
      BY <2>5, UnitAssumption DEF Draws
    <3>2. d.optout < b
      BY <2>7 DEF Sample
    <3>. QED  BY <2>5, <2>6, <3>1, <3>2 DEF Sample
  <2>13. {Sample(truth, d) : d \in Draws} \subseteq Outcomes(e, a)
    <3> SUFFICES ASSUME NEW d \in Draws PROVE Sample(truth, d) \in Outcomes(e, a)
      OBVIOUS
    <3>1. CASE ~e.terminal \/ a # "none"
      BY <3>1 DEF Sample, Outcomes
    <3>2. CASE e.terminal /\ a = "none"
      <4>1. h = 0 /\ p = 0
        BY <2>1, <2>3, <2>4, <3>2
      <4>2. truth.conditional = 0
        BY <2>6, <2>8, <4>1, UnitAssumption
      <4>3. d.recover \in Nat
        BY UnitAssumption DEF Draws
      <4>4. Sample(truth, d) \in {"OPTOUT", "LOST"}
        BY <4>2, <4>3 DEF Sample
      <4>. QED  BY <4>4 DEF Outcomes
    <3>. QED  BY <3>1, <3>2
  <2>14. p = 0 => NetValue(truth, 100, 5, 6) <= 0
    <3> SUFFICES ASSUME p = 0 PROVE NetValue(truth, 100, 5, 6) <= 0
      OBVIOUS
    <3>1. truth.treated = (Unit - o) * (h * Unit)
      BY <2>6, <2>8
    <3>. QED  BY <2>3, <2>5, <2>6, <3>1, UselessIsWorthless
  <2>. QED  BY <2>10, <2>11, <2>12, <2>13, <2>14 DEF truth, left, p
<1>2. IInv => batch \subseteq Slots
  BY DEF IInv
<1>. QED  BY <1>1, <1>2, InitIInv, NextIInv, PTL DEF Spec

-----------------------------------------------------------------------------
(* Evaluation, for any stages, scenarios, components and number of runs.    *)
(* In the middle of an evaluation every stage that has had its turn was     *)
(* skipped, is named as failed, or has left an artifact of this evaluation: *)
(* no later stage touches that artifact, because the names of the stages    *)
(* differ, and RESULTS.md is still one of an earlier evaluation.  What the  *)
(* report then reads is of this evaluation or named.                        *)

Working == {"stage", "adjudicate"}

EvaluationTypeInv ==
  /\ run \in 0 .. MaxRuns
  /\ pc \in {"idle"} \cup Working
  /\ scenario \in Scenarios
  /\ at \in 1 .. Len(Stages) + 1
  /\ pc = "adjudicate" => at \in DOMAIN Stages /\ Stages[at] = "allocation"
  /\ pc \in Working => run > 0
  /\ artifacts \in [Artifacts -> File]
  /\ DOMAIN results.sections = Names \ Unreported
  /\ results.by \in 0 .. run
  /\ pc \in Working => results.by < run

\* The stages that have had their turn.
TurnsAreAccountedFor ==
  pc \in Working =>
    \A i \in DOMAIN Stages :
      i < at => \/ Stages[i] \in skip \cup failed
                \/ artifacts[Artifact(Stages[i], scenario)] = run

EvaluationInv == EvaluationTypeInv /\ TurnsAreAccountedFor /\ NumbersAreFreshOrNamed

\* In the beginning no stage has had its turn.
LEMMA InitEvaluation == EvaluationInit => EvaluationInv
<1> SUFFICES ASSUME EvaluationInit PROVE EvaluationInv
  OBVIOUS
<1>1. EvaluationTypeInv
  BY EvaluationAssumption DEF EvaluationInit, EvaluationTypeInv, Working, Absent, File
<1>. QED  BY <1>1 DEF EvaluationInit, EvaluationInv, TurnsAreAccountedFor, NumbersAreFreshOrNamed, Working

\* An artifact of a scenario is in artifacts.
LEMMA ArtifactsAreNamed ==
  ASSUME NEW i \in DOMAIN Stages, NEW s \in Scenarios
  PROVE  Artifact(Stages[i], s) \in Artifacts
BY DEF Artifacts, Names

\* Different stages have different artifacts.
LEMMA ArtifactsDiffer ==
  ASSUME NEW i \in DOMAIN Stages, NEW j \in DOMAIN Stages, i # j, NEW s, NEW u
  PROVE  Artifact(Stages[i], s) # Artifact(Stages[j], u)
<1>1. Stages[i] # Stages[j]
  BY EvaluationAssumption
<1>. QED  BY <1>1 DEF Artifact

\* The end of a stage, however it ends, is accounted for.
LEMMA EndingKeeps ==
  ASSUME EvaluationInv, pc \in Working, at \in DOMAIN Stages, NEW ok \in BOOLEAN, NEW file \in File,
         ok => file = run, Ending(ok, file)
  PROVE  EvaluationInv'
<1> USE DEF Working
<1> DEFINE a == Artifact(Stages[at], scenario)
<1>1. /\ artifacts' = [artifacts EXCEPT ![a] = file]
      /\ failed' = IF Failed(ok, file) THEN failed \cup {Stages[at]} ELSE failed
      /\ pc' = "stage" /\ at' = at + 1
      /\ run' = run /\ scenario' = scenario /\ skip' = skip /\ results' = results
  BY DEF Ending
<1>2. Stages \in Seq(STRING) /\ Len(Stages) \in Nat /\ DOMAIN Stages = 1 .. Len(Stages)
  BY EvaluationAssumption
<1>3. EvaluationTypeInv'
  <2>1. artifacts' \in [Artifacts -> File]
    BY <1>1 DEF EvaluationInv, EvaluationTypeInv
  <2>2. at' \in 1 .. Len(Stages) + 1
    BY <1>1, <1>2
  <2>3. pc' = "stage" /\ run > 0 /\ results.by < run
    BY <1>1 DEF EvaluationInv, EvaluationTypeInv
  <2>. QED  BY <1>1, <2>1, <2>2, <2>3 DEF EvaluationInv, EvaluationTypeInv
<1>4. a \in Artifacts
  BY ArtifactsAreNamed DEF EvaluationInv, EvaluationTypeInv
<1>5. TurnsAreAccountedFor'
  <2> SUFFICES ASSUME NEW i \in DOMAIN Stages, i < at + 1
               PROVE  \/ Stages[i] \in skip \cup failed'
                      \/ artifacts'[Artifact(Stages[i], scenario)] = run
    BY <1>1 DEF TurnsAreAccountedFor
  <2>1. CASE i = at
    <3>1. artifacts'[a] = file
      BY <1>1, <1>4 DEF EvaluationInv, EvaluationTypeInv
    <3>2. CASE ok
      BY <2>1, <3>1, <3>2
    <3>3. CASE ~ok
      BY <2>1, <3>3, <1>1 DEF Failed
    <3>. QED  BY <3>2, <3>3
  <2>2. CASE i # at
    <3>1. i < at
      BY <2>2, <1>2 DEF EvaluationInv, EvaluationTypeInv
    <3>2. artifacts'[Artifact(Stages[i], scenario)] = artifacts[Artifact(Stages[i], scenario)]
      BY <1>1, <2>2, ArtifactsDiffer, ArtifactsAreNamed DEF EvaluationInv, EvaluationTypeInv
    <3>3. failed \subseteq failed'
      BY <1>1
    <3>. QED  BY <3>1, <3>2, <3>3 DEF EvaluationInv, TurnsAreAccountedFor
  <2>. QED  BY <2>1, <2>2
<1>6. NumbersAreFreshOrNamed'
  BY <1>1 DEF NumbersAreFreshOrNamed
<1>. QED  BY <1>3, <1>5, <1>6 DEF EvaluationInv

\* Nor does an ending touch what earlier stages have left.
LEMMA EndingsKeep ==
  ASSUME EvaluationInv, pc \in Working, at \in DOMAIN Stages, Endings
  PROVE  EvaluationInv'
<1>1. run \in File /\ Corrupt \in File
  BY EvaluationAssumption DEF EvaluationInv, EvaluationTypeInv, File, Corrupt
<1>2. artifacts[Artifact(Stages[at], scenario)] \in File
  BY ArtifactsAreNamed DEF EvaluationInv, EvaluationTypeInv
<1>. QED  BY <1>1, <1>2, EndingKeeps DEF Endings

\* What the report reads is of this evaluation, or named.
LEMMA LoadedIsFreshOrNamed ==
  ASSUME EvaluationInv, pc = "stage", at \notin DOMAIN Stages, NEW n \in Names
  PROVE  Section(n) = run \/ n \in failed \cup skip
<1>1. Stages \in Seq(STRING) /\ Len(Stages) \in Nat /\ DOMAIN Stages = 1 .. Len(Stages)
  BY EvaluationAssumption
<1>2. PICK i \in DOMAIN Stages : n = Stages[i]
  BY DEF Names
<1>3. i < at
  BY <1>1 DEF EvaluationInv, EvaluationTypeInv
<1>4. n \in failed \cup skip \/ artifacts[Artifact(n, scenario)] = run
  BY <1>2, <1>3 DEF EvaluationInv, TurnsAreAccountedFor, Working
<1>5. run # Corrupt
  BY EvaluationAssumption DEF EvaluationInv, EvaluationTypeInv, Corrupt
<1>. QED  BY <1>4, <1>5 DEF Section, Load

\* Each step keeps the invariant.
LEMMA NextEvaluation == EvaluationInv /\ [EvaluationNext]_evaluationVars => EvaluationInv'
<1> SUFFICES ASSUME EvaluationInv, [EvaluationNext]_evaluationVars PROVE EvaluationInv'
  OBVIOUS
<1> USE DEF Working
<1>0. Stages \in Seq(STRING) /\ Len(Stages) \in Nat /\ DOMAIN Stages = 1 .. Len(Stages)
  BY EvaluationAssumption
<1>1. CASE Begin
  <2>1. EvaluationTypeInv'
    BY <1>0, <1>1, EvaluationAssumption DEF Begin, EvaluationInv, EvaluationTypeInv
  <2>2. TurnsAreAccountedFor'
    BY <1>0, <1>1 DEF Begin, TurnsAreAccountedFor
  <2>3. NumbersAreFreshOrNamed'
    BY <1>1 DEF Begin, NumbersAreFreshOrNamed
  <2>. QED  BY <2>1, <2>2, <2>3 DEF EvaluationInv
<1>2. CASE Skip
  <2>1. EvaluationTypeInv'
    BY <1>0, <1>2 DEF Skip, EvaluationInv, EvaluationTypeInv
  <2>2. TurnsAreAccountedFor'
    <3> SUFFICES ASSUME NEW i \in DOMAIN Stages, i < at + 1
                 PROVE  \/ Stages[i] \in skip \cup failed
                        \/ artifacts[Artifact(Stages[i], scenario)] = run
      BY <1>2 DEF Skip, TurnsAreAccountedFor
    <3>1. i < at \/ i = at
      BY <1>0 DEF EvaluationInv, EvaluationTypeInv
    <3>. QED  BY <1>2, <3>1 DEF Skip, EvaluationInv, TurnsAreAccountedFor
  <2>3. NumbersAreFreshOrNamed'
    BY <1>2 DEF Skip, NumbersAreFreshOrNamed
  <2>. QED  BY <2>1, <2>2, <2>3 DEF EvaluationInv
<1>3. CASE RunStage
  <2>1. CASE Stages[at] = "allocation"
    <3>1. /\ pc = "stage" /\ at \in DOMAIN Stages /\ pc' = "adjudicate"
          /\ UNCHANGED <<run, scenario, at, skip, artifacts, failed, results, exit>>
      BY <1>3, <2>1 DEF RunStage
    <3>2. EvaluationTypeInv'
      BY <2>1, <3>1 DEF EvaluationInv, EvaluationTypeInv
    <3>3. TurnsAreAccountedFor'
      BY <3>1 DEF EvaluationInv, TurnsAreAccountedFor, Artifact
    <3>4. NumbersAreFreshOrNamed'
      BY <3>1 DEF NumbersAreFreshOrNamed
    <3>. QED  BY <3>2, <3>3, <3>4 DEF EvaluationInv
  <2>2. CASE Stages[at] # "allocation"
    BY <1>3, <2>2, EndingsKeep DEF RunStage
  <2>. QED  BY <2>1, <2>2
<1>4. CASE Adjudicate
  <2>1. pc = "adjudicate" /\ Endings
    BY <1>4 DEF Adjudicate
  <2>. QED  BY <2>1, EndingsKeep DEF EvaluationInv, EvaluationTypeInv
<1>5. CASE FailBeforeVerdicts
  <2>1. /\ pc = "adjudicate"
        /\ Ending(FALSE, artifacts[Artifact(Stages[at], scenario)])
    BY <1>5 DEF FailBeforeVerdicts
  <2>2. at \in DOMAIN Stages
    BY <2>1 DEF EvaluationInv, EvaluationTypeInv
  <2>3. artifacts[Artifact(Stages[at], scenario)] \in File
    BY <2>2, ArtifactsAreNamed DEF EvaluationInv, EvaluationTypeInv
  <2>. QED  BY <2>1, <2>2, <2>3, EndingKeeps
<1>6. CASE Report
  <2>1. EvaluationTypeInv'
    BY <1>6 DEF Report, EvaluationInv, EvaluationTypeInv
  <2>2. NumbersAreFreshOrNamed'
    <3>1. /\ results' = [by |-> run, sections |-> [n \in Names \ Unreported |-> Section(n)],
                        verdicts |-> Printed]
          /\ exit' = IF failed = {} THEN 0 ELSE 1
          /\ skip' = skip /\ failed' = failed /\ run' = run
      BY <1>6 DEF Report
    <3>2. \A n \in Names \ Unreported : Section(n) = run \/ n \in failed \cup skip
      BY <1>6, LoadedIsFreshOrNamed DEF Report
    <3>3. /\ results'.by = run
          /\ DOMAIN results'.sections = Names \ Unreported
          /\ \A n \in Names \ Unreported : results'.sections[n] = Section(n)
      BY <3>1
    <3>4. exit' = 0 => failed = {}
      BY <3>1
    <3>. QED  BY <3>1, <3>2, <3>3, <3>4 DEF NumbersAreFreshOrNamed
  <2>3. TurnsAreAccountedFor'
    BY <1>6 DEF Report, TurnsAreAccountedFor
  <2>. QED  BY <2>1, <2>2, <2>3 DEF EvaluationInv
<1>7. CASE ReportRaises
  <2>1. /\ pc = "stage" /\ pc' = "idle" /\ exit' = 1
        /\ UNCHANGED <<run, scenario, at, skip, artifacts, failed, results>>
    BY <1>7 DEF ReportRaises
  <2>2. results.by < run /\ results.by \in Nat /\ run \in Nat
    BY <2>1, EvaluationAssumption DEF EvaluationInv, EvaluationTypeInv
  <2>3. NumbersAreFreshOrNamed'
    BY <2>1, <2>2 DEF NumbersAreFreshOrNamed
  <2>. QED  BY <2>1, <2>3 DEF EvaluationInv, EvaluationTypeInv, TurnsAreAccountedFor
<1>8. CASE UNCHANGED evaluationVars
  <2>1. EvaluationTypeInv'
    BY <1>8 DEF evaluationVars, EvaluationInv, EvaluationTypeInv
  <2>2. TurnsAreAccountedFor'
    BY <1>8 DEF evaluationVars, EvaluationInv, TurnsAreAccountedFor, Artifact
  <2>3. NumbersAreFreshOrNamed'
    BY <1>8 DEF evaluationVars, EvaluationInv, NumbersAreFreshOrNamed
  <2>. QED  BY <2>1, <2>2, <2>3 DEF EvaluationInv
<1>. QED  BY <1>1, <1>2, <1>3, <1>4, <1>5, <1>6, <1>7, <1>8 DEF EvaluationNext

\* However stages fail, die in the middle, are skipped or leave broken files, an
\* evaluation that ends well has only numbers of its own, and a number of an earlier one
\* is that of a stage which is named (run_evaluation.main and write_results_md).
THEOREM NumbersAreFresh == EvaluationSpec => []NumbersAreFreshOrNamed
<1>1. EvaluationInv => NumbersAreFreshOrNamed
  BY DEF EvaluationInv
<1>. QED  BY <1>1, InitEvaluation, NextEvaluation, PTL DEF EvaluationSpec

-----------------------------------------------------------------------------
(* The verdicts.                                                            *)

\* The allocation has had its turn in this evaluation, and neither failed nor was skipped.
Allocated ==
  /\ \E i \in DOMAIN Stages : i < at /\ Stages[i] = "allocation"
  /\ "allocation" \notin failed \cup skip

\* What is on file was measured; while an evaluation goes on, its allocation lists what is
\* on file or nothing; and so does its report.
OnFile ==
  /\ DOMAIN verdicts \subseteq Components
  /\ \A c \in DOMAIN verdicts : evidence[c] # "NONE" /\ (verdicts[c] <=> evidence[c] = "POSITIVE")
  /\ (\E c \in Components : evidence[c] # "NONE") => DOMAIN verdicts # {}

Listing ==
  pc = "stage" /\ Allocated => DOMAIN listed[scenario] = {} \/ listed[scenario] = verdicts

Publishing ==
  pc = "idle" /\ results.by = run /\ "allocation" \notin failed \cup skip
    /\ DOMAIN results.verdicts # {} => results.verdicts = verdicts

VerdictsInv == OnFile /\ Listing /\ Publishing /\ listed = [s \in Scenarios |-> listed[s]]

\* In the beginning there are no verdicts.
LEMMA InitVerdicts == EvaluationInit => VerdictsInv
<1> SUFFICES ASSUME EvaluationInit PROVE VerdictsInv
  OBVIOUS
<1>1. DOMAIN NoVerdicts = {}
  BY DEF NoVerdicts
<1>2. verdicts = NoVerdicts /\ results.verdicts = NoVerdicts /\ listed = [s \in Scenarios |-> NoVerdicts]
      /\ pc = "idle" /\ \A c \in Components : evidence[c] = "NONE"
  BY DEF EvaluationInit
<1>. QED  BY <1>1, <1>2 DEF VerdictsInv, OnFile, Listing, Publishing

\* What is on file is what was measured last.
LEMMA AdjudicationOnFile ==
  ASSUME OnFile, NEW m \in [Components -> Measurement],
         verdicts' = IF Adjudicated(m) = {} THEN verdicts ELSE Verdicts(m),
         evidence' = [c \in Components |-> IF m[c] = "UNDERPOWERED" THEN evidence[c] ELSE m[c]]
  PROVE  OnFile'
<1>1. \A c \in Components : c \in Adjudicated(m) <=> m[c] # "UNDERPOWERED"
  BY DEF Adjudicated
<1>2. Adjudicated(m) \subseteq Components
  BY DEF Adjudicated
<1>3. CASE Adjudicated(m) = {}
  <2>1. \A c \in Components : evidence'[c] = evidence[c]
    BY <1>1, <1>3
  <2>. QED  BY <1>3, <2>1 DEF OnFile
<1>4. CASE Adjudicated(m) # {}
  <2>1. DOMAIN verdicts' = Adjudicated(m) /\ \A c \in Adjudicated(m) : verdicts'[c] = Decide(m[c])
    BY <1>4 DEF Verdicts
  <2>2. \A c \in Adjudicated(m) : evidence'[c] = m[c] /\ m[c] \in Measurement
    BY <1>1, <1>2
  <2>3. \A c \in Adjudicated(m) : evidence'[c] # "NONE"
    BY <2>2 DEF Measurement
  <2>. QED  BY <1>2, <1>4, <2>1, <2>2, <2>3 DEF OnFile, Decide
<1>. QED  BY <1>3, <1>4

\* Each step keeps them: after the turn of the allocation nobody writes either file, and
\* an allocation that has not failed has written both, the verdicts first.
LEMMA NextVerdicts == EvaluationInv /\ VerdictsInv /\ [EvaluationNext]_evaluationVars => VerdictsInv'
<1> SUFFICES ASSUME EvaluationInv, VerdictsInv, [EvaluationNext]_evaluationVars PROVE VerdictsInv'
  OBVIOUS
<1>0. /\ DOMAIN Stages = 1 .. Len(Stages) /\ Len(Stages) \in Nat
      /\ at \in 1 .. Len(Stages) + 1 /\ scenario \in Scenarios
      /\ \E i \in DOMAIN Stages : Stages[i] = "allocation"
  BY EvaluationAssumption DEF EvaluationInv, EvaluationTypeInv, Names
<1>1. ASSUME UNCHANGED <<verdicts, evidence>> PROVE OnFile'
  BY <1>1 DEF VerdictsInv, OnFile
<1>2. CASE Begin
  <2>1. ~Allocated'
    BY <1>0, <1>2 DEF Begin, Allocated
  <2>2. UNCHANGED <<verdicts, evidence, listed>> /\ pc' = "stage"
    BY <1>2 DEF Begin
  <2>. QED  BY <1>1, <2>1, <2>2 DEF VerdictsInv, Listing, Publishing
<1>3. CASE Skip
  <2>1. UNCHANGED <<verdicts, evidence, listed, scenario, skip, failed>> /\ pc = "stage" /\ pc' = "stage"
        /\ at' = at + 1 /\ Stages[at] \in skip
    BY <1>3 DEF Skip
  <2>2. Allocated' => Allocated
    BY <1>0, <2>1 DEF Allocated
  <2>. QED  BY <1>1, <2>1, <2>2 DEF VerdictsInv, Listing, Publishing
<1>4. CASE RunStage
  <2>1. UNCHANGED <<verdicts, evidence, listed>> /\ pc = "stage"
    BY <1>4 DEF RunStage
  <2>2. CASE pc' = "adjudicate"
    BY <1>1, <2>1, <2>2 DEF VerdictsInv, Listing, Publishing
  <2>3. CASE pc' # "adjudicate"
    <3>1. Stages[at] # "allocation" /\ Endings
      BY <1>4, <2>3 DEF RunStage
    <3>2. failed \subseteq failed' /\ UNCHANGED <<scenario, skip>> /\ at' = at + 1 /\ pc' = "stage"
      BY <3>1 DEF Endings, Ending
    <3>3. Allocated' => Allocated
      BY <1>0, <3>1, <3>2 DEF Allocated
    <3>. QED  BY <1>1, <2>1, <3>2, <3>3 DEF VerdictsInv, Listing, Publishing
  <2>. QED  BY <2>2, <2>3
<1>5. CASE Adjudicate
  <2>1. pc = "adjudicate" /\ Endings /\ Stages[at] = "allocation" /\ at \in DOMAIN Stages
    BY <1>5 DEF Adjudicate, EvaluationInv, EvaluationTypeInv
  <2>2. PICK ok, file : ok \in BOOLEAN /\ Ending(ok, file) /\ (ok => file = run)
    BY <2>1 DEF Endings
  <2>3. pc' = "stage" /\ UNCHANGED <<run, scenario, skip>> /\ (~ok => "allocation" \in failed')
    BY <2>1, <2>2 DEF Ending, Failed
  <2>4. ok => artifacts'[Artifact("allocation", scenario)] = run
    BY <1>0, <2>1, <2>2, ArtifactsAreNamed DEF Ending, EvaluationInv, EvaluationTypeInv
  <2>5. PICK m \in [Components -> Measurement] :
          LET written == artifacts'[Artifact("allocation", scenario)] = run IN
            /\ verdicts' = IF Adjudicated(m) = {} THEN verdicts ELSE Verdicts(m)
            /\ evidence' = [c \in Components |-> IF m[c] = "UNDERPOWERED" THEN evidence[c] ELSE m[c]]
            /\ listed' = IF written THEN [listed EXCEPT ![scenario] = Verdicts(m)] ELSE listed
    BY <1>5 DEF Adjudicate
  <2>6. OnFile'
    BY <2>5, AdjudicationOnFile DEF VerdictsInv
  <2>7. listed' = [s \in Scenarios |-> listed'[s]]
    BY <2>5 DEF VerdictsInv
  <2>8. ASSUME ok PROVE DOMAIN listed'[scenario] = {} \/ listed'[scenario] = verdicts'
    <3>1. listed'[scenario] = Verdicts(m)
      BY <1>0, <2>4, <2>5, <2>8 DEF VerdictsInv
    <3>2. Adjudicated(m) = {} => DOMAIN Verdicts(m) = {}
      BY DEF Verdicts
    <3>. QED  BY <2>5, <3>1, <3>2
  <2>9. Listing'
    BY <2>3, <2>8 DEF Listing, Allocated
  <2>. QED  BY <2>3, <2>6, <2>7, <2>9 DEF VerdictsInv, Publishing
<1>6. CASE FailBeforeVerdicts
  <2>1. UNCHANGED <<verdicts, evidence, listed>> /\ pc' = "stage" /\ Stages[at] \in failed'
    BY <1>6 DEF FailBeforeVerdicts, Ending, Failed
  <2>2. Stages[at] = "allocation"
    BY <1>6 DEF FailBeforeVerdicts, EvaluationInv, EvaluationTypeInv
  <2>. QED  BY <1>1, <2>1, <2>2 DEF VerdictsInv, Listing, Allocated, Publishing
<1>7. CASE Report
  <2>1. /\ UNCHANGED <<verdicts, evidence, listed, skip, failed>> /\ pc = "stage" /\ pc' = "idle"
        /\ results'.verdicts = Printed
    BY <1>7 DEF Report
  <2>2. Allocated \/ "allocation" \in failed \cup skip
    BY <1>0, <1>7 DEF Report, Allocated
  <2>3. DOMAIN Printed = {} \/ Printed = listed[scenario]
    BY DEF Printed, NoVerdicts
  <2>. QED  BY <1>1, <2>1, <2>2, <2>3 DEF VerdictsInv, Listing, Publishing
<1>8. CASE ReportRaises
  <2>1. UNCHANGED <<verdicts, evidence, listed, results, run>> /\ pc' = "idle" /\ results.by # run
    BY <1>8, EvaluationAssumption DEF ReportRaises, EvaluationInv, EvaluationTypeInv, Working
  <2>. QED  BY <1>1, <2>1 DEF VerdictsInv, Listing, Publishing
<1>9. CASE UNCHANGED evaluationVars
  <2>1. UNCHANGED <<verdicts, evidence, listed, results, run, pc, at, skip, failed, scenario>>
    BY <1>9 DEF evaluationVars
  <2>. QED  BY <1>1, <2>1 DEF VerdictsInv, Listing, Allocated, Publishing
<1>. QED  BY <1>2, <1>3, <1>4, <1>5, <1>6, <1>7, <1>8, <1>9 DEF EvaluationNext

\* Over any number of evaluations, with components measured in some and not in others and
\* with stages that fail or die anywhere, the verdicts on file are those of the last
\* measurements and never all lost, and RESULTS.md prints no others of an allocation that
\* has not failed (run_allocation.main, retention.write_verdicts, write_results_md).
THEOREM VerdictsAreEarned == EvaluationSpec => []VerdictsRestOnEvidence
<1>1. VerdictsInv => VerdictsRestOnEvidence
  BY DEF VerdictsInv, OnFile, Publishing, VerdictsRestOnEvidence
<1>. QED  BY <1>1, InitEvaluation, NextEvaluation, InitVerdicts, NextVerdicts, PTL DEF EvaluationSpec
=============================================================================
