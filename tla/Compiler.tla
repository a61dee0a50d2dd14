------------------------------- MODULE Compiler -------------------------------
(***************************************************************************)
(* antar/policy/compiler.py: candidates that a blocking rule forbids are   *)
(* removed, and what is left is constrained by rows over the selection.    *)
(* Every coefficient is 1, because no caller gives a margin budget and no  *)
(* candidate carries a discount.  Events are numbered in the order of the  *)
(* batch, so that the first of a group is the one with the least number.   *)
(***************************************************************************)
EXTENDS Regulations, FiniteSets

IsContact(c) == c.x.channel \in ContactChannels

\* The rules for which an Infeasibility is recorded.
Rejections(c) == Violated(BLOCKING_RULES, c.x)

Feasible(cs) == {c \in cs : Rejections(c) = {}}

AdvisoryFlags(c) == Violated(ADVISORY_RULES, c.x)

First(group) == CHOOSE c \in group : \A d \in group : c.event <= d.event

ByEvent(cs) == {{c \in cs : c.event = e} : e \in {c.event : c \in cs}}

ByCustomer(cs) ==
  {{c \in cs : IsContact(c) /\ c.customer = u} : u \in {c.customer : c \in {d \in cs : IsContact(d)}}}

Row(kind, members, bound) == [kind |-> kind, members |-> members, bound |-> bound]

OneActionRows(fs) ==
  {Row("ONE_ACTION_PER_EVENT", g, 1) : g \in {h \in ByEvent(fs) : Cardinality(h) > 1}}

Remaining(used) == IF used < ContactsAllowed THEN ContactsAllowed - used ELSE 0

BudgetRows(fs) ==
  {Row("CONTACT_BUDGET", g, Remaining(First(g).x.contacts)) : g \in ByCustomer(fs)}

\* Mutant of CooldownRows: the row that keeps a customer to one contact is left out.
CooldownRowsLeftOut(fs) == {}

\* Within one batch the cooldown is "at most one contact per customer".
CooldownRows(fs) ==
  {Row("CUSTOMER_COOLDOWN", g, 1) : g \in {h \in ByCustomer(fs) : Cardinality(h) > 1}}

Rows(fs) == OneActionRows(fs) \cup BudgetRows(fs) \cup CooldownRows(fs)

SatisfiedBy(row, selection) == Cardinality(row.members \cap selection) <= row.bound
=============================================================================
