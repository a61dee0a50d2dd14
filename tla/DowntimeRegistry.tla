--------------------------- MODULE DowntimeRegistry ---------------------------
(***************************************************************************)
(* antar/signals/downtime.py: the registry of downtime windows, the poller *)
(* that folds the provider's current list into it, and the pruning of what *)
(* is long over.                                                           *)
(***************************************************************************)
EXTENDS Integers

CONSTANTS
  Downtimes,      \* the downtime ids
  Tolerance,      \* detect.downtime_overlap_tolerance_minutes
  Retention       \* older_than of prune_resolved

VARIABLE windows  \* _by_id: the window of each id, or NoWindow

NoEnd == -1

Window == [status: {"scheduled", "started", "resolved"}, begin: Nat,
           end: Nat \cup {NoEnd}]

NoWindow == [status |-> "none"]

DowntimeInit == windows = [d \in Downtimes |-> NoWindow]

Resolved(w) == w.status = "resolved"

\* Mutant of Merged: the last arrival wins.
MergedLast(old, new) == new

\* upsert, on what is stored under the window's id: a resolved window never
\* reverts, otherwise the last arrival wins.
Merged(old, new) == IF Resolved(old) /\ ~Resolved(new) THEN old ELSE new

Upsert(d, w) == windows' = [windows EXCEPT ![d] = Merged(@, w)]

\* poll: the windows of one answer of the Downtime API, each under its id.
Extend(answer) ==
  windows' = [d \in Downtimes |->
    IF d \in DOMAIN answer THEN Merged(windows[d], answer[d]) ELSE windows[d]]

Stale(w, now) == Resolved(w) /\ w.end # NoEnd /\ w.end < now - Retention

PruneResolved(now) ==
  windows' = [d \in Downtimes |->
    IF Stale(windows[d], now) THEN NoWindow ELSE windows[d]]

-----------------------------------------------------------------------------
(* What the detection layer reads.                                          *)

\* DowntimeWindow.covers, which does not look at the status.
Covers(w, when) ==
  /\ w # NoWindow
  /\ when >= w.begin - Tolerance
  /\ w.end # NoEnd => when <= w.end + Tolerance

\* active_at, for an attempt that every window affects.
ActiveAt(when) == {d \in Downtimes : Covers(windows[d], when)}

\* The type invariant of the registry.
DowntimeTypeOK == windows \in [Downtimes -> Window \cup {NoWindow}]
=============================================================================
