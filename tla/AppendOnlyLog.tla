---------------------------- MODULE AppendOnlyLog ----------------------------
(***************************************************************************)
(* What the ledger promises those who write to it: entries are only ever   *)
(* added at the end, several at once perhaps, and a caller is told that    *)
(* its entry is recorded only when the entry is there.                     *)
(***************************************************************************)
EXTENDS Sequences, Integers

VARIABLES
  log,      \* the entries
  acked     \* the positions of which a caller has been told

absVars == <<log, acked>>

Init == log = <<>> /\ acked = {}

Record ==
  /\ Len(log') > Len(log)
  /\ \A i \in 1 .. Len(log) : log'[i] = log[i]
  /\ acked' = acked \cup {Len(log')}

Spec == Init /\ [][Record]_absVars
=============================================================================
