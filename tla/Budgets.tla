-------------------------------- MODULE Budgets --------------------------------
(***************************************************************************)
(* antar/policy/budgets.py: the contacts that each customer has had, and   *)
(* the two fields of the customer's context that are filled in from them.  *)
(***************************************************************************)
EXTENDS Regulations, Sequences, FiniteSets

CONSTANTS
  Customers,
  RollingWindow       \* ROLLING_WINDOW

ASSUME RollingAssumption == RollingWindow \in Nat

VARIABLE history      \* of each customer, the instants of the contacts

HistoryInit == history = [u \in Customers |-> <<>>]

RecordContact(u, at) == history' = [history EXCEPT ![u] = Append(@, at)]

\* Mutant of ContactsInWindow: a calendar month instead of a rolling window.
ContactsInMonth(u, asOf) ==
  Cardinality({i \in DOMAIN history[u] : history[u][i] \div RollingWindow = asOf \div RollingWindow})

\* Everything after the cutoff counts, also what is scheduled for later.
ContactsInWindow(u, asOf) ==
  Cardinality({i \in DOMAIN history[u] : history[u][i] > asOf - RollingWindow})

LastContact(u) ==
  IF history[u] = <<>> THEN None
  ELSE CHOOSE t \in {history[u][i] : i \in DOMAIN history[u]} :
         \A i \in DOMAIN history[u] : history[u][i] <= t

\* hydrate, on the context of a decision about this customer.
Hydrate(x, u, asOf) ==
  [x EXCEPT !.contacts = ContactsInWindow(u, asOf), !.lastContact = LastContact(u)]
=============================================================================
