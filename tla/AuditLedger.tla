----------------------------- MODULE AuditLedger -----------------------------
(***************************************************************************)
(* antar/audit/ledger.py: Ledger.append called by several threads of one   *)
(* process over one SQLite connection.  The connection has at most one     *)
(* open transaction, shared by all threads; what is in it is seen by every *)
(* read on the connection and lost when the process dies.                  *)
(***************************************************************************)
EXTENDS AuditChain, FiniteSets

CONSTANTS
  Threads,
  MaxAppends, MaxCrashes    \* bounds of the model

ASSUME LedgerConstants == MaxAppends \in Nat /\ MaxCrashes \in Nat

NoThread == "none"
ASSUME NoThreadIsNone == NoThread \notin Threads

VARIABLES
  rows,         \* the committed table
  pending,      \* the rows of the connection's open transaction
  lock,         \* the thread that holds _lock
  stage,        \* of each thread's append: idle, hashed, locked, inserted
  work,         \* the row each append is about to insert
  returned,     \* the entries append has returned
  appends, crashes

vars == <<rows, pending, lock, stage, work, returned, appends, crashes>>

\* The table as the connection sees it.
Table == rows \o pending

NoRow == <<>>

Init ==
  /\ rows = <<>> /\ pending = <<>> /\ lock = NoThread
  /\ stage = [t \in Threads |-> "idle"] /\ work = [t \in Threads |-> NoRow]
  /\ returned = {}
  /\ appends = 0 /\ crashes = 0

-----------------------------------------------------------------------------
(* append.                                                                  *)

\* The payload is hashed before the lock is taken; one that cannot be hashed
\* raises here and leaves nothing.
Call(t) ==
  /\ stage[t] = "idle" /\ appends < MaxAppends
  /\ stage' = [stage EXCEPT ![t] = "hashed"]
  /\ appends' = appends + 1
  /\ UNCHANGED <<rows, pending, lock, work, returned, crashes>>

\* Mutant of MayEnter: the lock does not exclude.
MayEnterAlways == TRUE

MayEnter == lock = NoThread

\* The lock is taken, the last row read and the new row built from it.
Enter(t, kind, payload, at) ==
  /\ stage[t] = "hashed" /\ MayEnter
  /\ lock' = t
  /\ work' = [work EXCEPT ![t] = NewRow(Table, kind, payload, at)]
  /\ stage' = [stage EXCEPT ![t] = "locked"]
  /\ UNCHANGED <<rows, pending, returned, appends, crashes>>

\* seq is the primary key.
Insert(t) ==
  /\ stage[t] = "locked"
  /\ \A i \in DOMAIN Table : Table[i].seq # work[t].seq
  /\ pending' = Append(pending, work[t])
  /\ stage' = [stage EXCEPT ![t] = "inserted"]
  /\ UNCHANGED <<rows, lock, work, returned, appends, crashes>>

\* Mutant of Leave: an exception leaves the lock taken.
LeaveLocked(t) ==
  /\ stage' = [stage EXCEPT ![t] = "idle"]
  /\ work' = [work EXCEPT ![t] = NoRow]
  /\ lock' = IF returned' = returned THEN lock ELSE NoThread
  /\ UNCHANGED <<appends, crashes>>

\* The append ends and the with statement releases the lock.
Leave(t) ==
  /\ stage' = [stage EXCEPT ![t] = "idle"]
  /\ work' = [work EXCEPT ![t] = NoRow]
  /\ lock' = NoThread
  /\ UNCHANGED <<appends, crashes>>

\* external: the INSERT fails and adds nothing.
InsertFails(t) ==
  /\ stage[t] = "locked"
  /\ UNCHANGED <<rows, pending, returned>>
  /\ Leave(t)

\* Mutant of Commit: append returns before the transaction is committed.
CommitLater(t) ==
  /\ stage[t] = "inserted"
  /\ returned' = returned \cup {work[t]}
  /\ Leave(t)
  /\ UNCHANGED <<rows, pending>>

\* Everything in the open transaction is committed.
Commit(t) ==
  /\ stage[t] = "inserted"
  /\ rows' = Table /\ pending' = <<>>
  /\ returned' = returned \cup {work[t]}
  /\ Leave(t)

\* external: the commit fails.  A full disk rolls the transaction back; a busy
\* file leaves it open, with its rows in it.
CommitFails(t) ==
  /\ stage[t] = "inserted"
  /\ pending' \in {pending, <<>>}
  /\ UNCHANGED <<rows, returned>>
  /\ Leave(t)

-----------------------------------------------------------------------------
(* The rest of the process.                                                 *)

\* The process dies and is started again: the open transaction is gone.
Crash ==
  /\ crashes < MaxCrashes
  /\ crashes' = crashes + 1
  /\ pending' = <<>> /\ lock' = NoThread
  /\ stage' = [t \in Threads |-> "idle"] /\ work' = [t \in Threads |-> NoRow]
  /\ UNCHANGED <<rows, returned, appends>>

InLock(t) == Insert(t) \/ InsertFails(t) \/ Commit(t) \/ CommitFails(t)

Next ==
  \/ \E t \in Threads :
       \/ Call(t)
       \/ \E kind \in Kinds, payload \in Payloads, at \in Times :
            Enter(t, kind, payload, at)
       \/ InLock(t)
  \/ Crash

Spec == Init /\ [][Next]_vars

\* The thread that holds the lock runs on: between the SELECT and the end of the
\* with statement it waits for nothing but the file, and for that no longer than
\* the connection's timeout.
FairSpec == Spec /\ \A t \in Threads : WF_vars(InLock(t))

-----------------------------------------------------------------------------
(* Properties.                                                              *)

\* The type invariant of the ledger.
TypeOK ==
  /\ rows \in Seq(Row) /\ pending \in Seq(Row)
  /\ lock \in Threads \cup {NoThread}
  /\ stage \in [Threads -> {"idle", "hashed", "locked", "inserted"}]
  /\ work \in [Threads -> Row \cup {NoRow}]
  /\ \A t \in Threads : stage[t] \in {"locked", "inserted"} => work[t] \in Row
  /\ returned \subseteq Row
  /\ appends \in 0 .. MaxAppends /\ crashes \in 0 .. MaxCrashes

\* No crash, failed commit or interleaving of threads makes the ledger look as
\* if it had been tampered with: the chain verifies at every moment, with and
\* without the rows that are not committed.
ChainVerifies == Verifies(Table) /\ Verifies(rows)

\* An entry append has returned is in the table under its number, for good.
ReturnedIsRecorded ==
  \A r \in returned : r.seq \in DOMAIN rows /\ rows[r.seq] = r

\* The ledger implements AppendOnlyLog.
Log == INSTANCE AppendOnlyLog WITH
  log <- rows,
  acked <- {r.seq : r \in returned}

ImplementsAppendOnlyLog == Log!Spec

\* Whoever takes the lock gives it back, also when the write fails.
LockIsReleased == lock # NoThread ~> lock = NoThread

=============================================================================
