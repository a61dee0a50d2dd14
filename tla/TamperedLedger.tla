--------------------------- MODULE TamperedLedger ---------------------------
(***************************************************************************)
(* The file of the ledger edited behind its back, with the append-only     *)
(* triggers dropped as the tests drop them: what verify_chain says of the  *)
(* tables that edits can make of the one that the threads have written.    *)
(* Three rows are enough for an edit, the attempt to cover it up, and an   *)
(* append after it.                                                        *)
(***************************************************************************)
EXTENDS AuditLedger

-----------------------------------------------------------------------------
(* external: the edits.                                                     *)

\* An UPDATE of one row, with its payload_hash corrected or not.
UpdateRow(table, i) ==
  {[table EXCEPT ![i].kind = kind] : kind \in Kinds}
  \cup {[table EXCEPT ![i].written_at = at] : at \in Times}
  \cup {[table EXCEPT ![i].payload = payload] : payload \in Payloads}
  \cup {[table EXCEPT ![i].payload = payload, ![i].payload_hash = PayloadHash(payload)] :
          payload \in Payloads}

\* An UPDATE that makes the entry_hash column agree as well.
RehashRow(table, i) == [table EXCEPT ![i].entry_hash = RowHash(table[i])]

DeleteRow(table, i) == SubSeq(table, 1, i - 1) \o SubSeq(table, i + 1, Len(table))

Edited(table, i) ==
  UpdateRow(table, i) \cup {RehashRow(table, i), DeleteRow(table, i)}

\* An UPDATE of a column that links the rows: to a hash that occurs in the table, or
\* to the next free number, which makes the row the last one.
Hashes(table) == {GENESIS} \cup {RowHash(table[k]) : k \in DOMAIN table}

RelinkRow(table, i) ==
  {[table EXCEPT ![i].prev_hash = h] : h \in Hashes(table)}
  \cup {[table EXCEPT ![i].entry_hash = h] : h \in Hashes(table)}
  \cup {Append(DeleteRow(table, i), [table[i] EXCEPT !.seq = LastSeq(table) + 1])}

\* An INSERT: a copy of a row under the next number, linked to any hash.
InsertRow(table, i) ==
  {Append(table, [table[i] EXCEPT !.seq = LastSeq(table) + 1, !.prev_hash = h]) :
     h \in Hashes(table)}

EditedAnyhow(table, i) ==
  Edited(table, i) \cup RelinkRow(table, i) \cup InsertRow(table, i)

\* The table after append was asked for the entries of a table from the n-th on; it
\* works on what it finds.
Continued(table, honest, n) ==
  LET after[k \in n - 1 .. Len(honest)] ==
        IF k = n - 1 THEN table
        ELSE Append(after[k - 1],
                    NewRow(after[k - 1], honest[k].kind, honest[k].payload, honest[k].written_at))
  IN  after[Len(honest)]

-----------------------------------------------------------------------------
(* Properties.                                                              *)

Content(r) == [kind |-> r.kind, payload |-> r.payload, written_at |-> r.written_at]

Contents(table) == [i \in DOMAIN table |-> Content(table[i])]

\* Someone has noted what head() said of the honest table.  A table that verifies
\* and whose last row hashes to that is the honest one.
SealedBy(head, table, honest) ==
  table # <<>> /\ RowHash(table[Len(table)]) = head /\ Verifies(table)
    => Contents(table) = Contents(honest)

\* The published head makes the whole chain checkable, if the hash of the last row
\* is computed anew: then no edits, insertions, deletions and later appends get past
\* it and verify_chain.  Asking head() again reads the entry_hash column, which
\* verify_chain ignores: it sees that the tail was cut off (test_ledger.py), but not
\* that the last row was edited.  Here a row was edited at any moment, append went on,
\* and a second edit, anywhere in what had become of the table, may cover it up.
HashSealsLedger ==
  /\ \A n \in DOMAIN rows : \A i \in 1 .. n : \A first \in Edited(SubSeq(rows, 1, n), i) :
       LET grown == Continued(first, rows, n + 1)
       IN  \A k \in DOMAIN grown : \A table \in EditedAnyhow(grown, k) :
             SealedBy(HeadHash(rows), table, rows)
  /\ \A n \in 0 .. Len(rows) - 1 : HeadHash(SubSeq(rows, 1, n)) # HeadHash(rows)

\* A single edit of a row that has a successor is reported at the row or at its
\* successor; a deletion at the row that took its place.
EditIsLocated ==
  \A i \in 1 .. Len(rows) - 1 : \A table \in Edited(rows, i) :
    Contents(table) # Contents(rows) => \E b \in Breaks(table) : b[1] \in {i, i + 1}
=============================================================================
