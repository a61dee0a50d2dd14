------------------------------- MODULE Validator -------------------------------
(***************************************************************************)
(* antar/policy/validator.py: the second opinion on a selection.  It       *)
(* shares the vocabulary of the compiler and none of its predicates.  The  *)
(* gap between two selected contacts is looked at for every pair instead   *)
(* of the neighbours in time, which have the least one.                    *)
(***************************************************************************)
EXTENDS Compiler

\* The rules that one selected candidate breaks by itself.
Faults(x) ==
  {r \in {"RBI-EM-01"} : x.scheduledFor - x.now < LeadHours}
  \cup {r \in {"RBI-EM-02"} : x.optout}
  \cup {r \in {"RBI-EM-03/04"} : x.aboveCeiling /\ ~x.requiresAfa}
  \cup {r \in {"RBI-EM-06"} : x.mandate \notin {"ACTIVE", "HALTED"}}

ContactFaults(x) ==
  {r \in {"TRAI-01"} : ~(Hour(x.scheduledFor) \in WindowStart .. WindowEnd - 1)}
  \cup {r \in {"TRAI-03"} : x.class = "PROMOTIONAL"}
  \cup {r \in {"TRAI-04"} :
          \/ x.consent = "NONE"
          \/ x.consent = "EXPLICIT"
             /\ (x.grantedAt = None \/ x.now - x.grantedAt > ConsentHours)
          \/ x.consent = "INFERRED" /\ x.mandate \in {"REVOKED", "COMPLETED"}}
  \cup {r \in {"POL-PROMISE"} : x.promised}
  \cup {r \in {"POL-COOLDOWN"} :
          x.lastContact # None /\ x.scheduledFor - x.lastContact < CooldownHours}

SelectedOf(selection, customer) ==
  {c \in selection : IsContact(c) /\ c.customer = customer}

\* The events with more than one selected action.
DoubledEvents(selection) ==
  {c.event : c \in {d \in selection : \E f \in selection \ {d} : f.event = d.event}}

OverBudget(selection) ==
  {c.customer : c \in {d \in selection : IsContact(d) /\
     LET group == SelectedOf(selection, d.customer)
     IN  First(group).x.contacts + Cardinality(group) > ContactsAllowed}}

TooClose(c, d) ==
  /\ c # d /\ IsContact(c) /\ IsContact(d) /\ c.customer = d.customer
  /\ c.x.scheduledFor - d.x.scheduledFor \in 1 - CooldownHours .. CooldownHours - 1

\* validate(selection).ok.
Valid(selection) ==
  /\ \A c \in selection : Faults(c.x) = {} /\ (IsContact(c) => ContactFaults(c.x) = {})
  /\ DoubledEvents(selection) = {}
  /\ OverBudget(selection) = {}
  /\ \A c, d \in selection : ~TooClose(c, d)
=============================================================================
