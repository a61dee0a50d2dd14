----------------------------- MODULE AuditChain -----------------------------
(***************************************************************************)
(* antar/audit/ledger.py: the rows of the ledger, the hashes that link     *)
(* them, the row that append adds and the verdict of verify_entries.       *)
(*                                                                         *)
(* SHA-256 is taken to be free of collisions.  A payload's hash is the     *)
(* payload in a one-element tuple.  An entry's hash covers prev_hash,      *)
(* which is itself an entry's hash, so it stands for everything that was   *)
(* hashed up to it: a hash is the sequence of the links below it.          *)
(***************************************************************************)
EXTENDS Integers, Sequences

CONSTANTS Kinds, Payloads, Times

PayloadHash(p) == <<p>>

PayloadHashes == {PayloadHash(p) : p \in Payloads}

Link == [seq: Nat, payload_hash: PayloadHashes, kind: Kinds, written_at: Times]

Hash == Seq(Link)

GENESIS == <<>>

Row == [seq: Nat, prev_hash: Hash, payload_hash: PayloadHashes, entry_hash: Hash,
        kind: Kinds, payload: Payloads, written_at: Times]

\* Mutant of EntryHash: the entry's metadata is left out of the link.
EntryHashOfPayload(prev, seq, phash, kind, at) ==
  Append(prev, [payload_hash |-> phash])

\* entry_hash: over seq, prev_hash, payload_hash, kind and written_at.
EntryHash(prev, seq, phash, kind, at) ==
  Append(prev, [seq |-> seq, payload_hash |-> phash, kind |-> kind, written_at |-> at])

\* The hash of a row as verify_entries recomputes it: _row_to_entry drops the
\* entry_hash column.
RowHash(r) == EntryHash(r.prev_hash, r.seq, r.payload_hash, r.kind, r.written_at)

\* head: the entry_hash column of the last row.
HeadHash(rows) == IF rows = <<>> THEN GENESIS ELSE rows[Len(rows)].entry_hash

LastSeq(rows) == IF rows = <<>> THEN 0 ELSE rows[Len(rows)].seq

\* What append inserts after reading the last row.
NewRow(rows, kind, payload, at) ==
  LET seq == LastSeq(rows) + 1
  IN  [seq |-> seq, prev_hash |-> HeadHash(rows), payload_hash |-> PayloadHash(payload),
       entry_hash |-> EntryHash(HeadHash(rows), seq, PayloadHash(payload), kind, at),
       kind |-> kind, payload |-> payload, written_at |-> at]

-----------------------------------------------------------------------------
(* verify_entries, over the rows in the order of seq.                       *)

ExpectedSeq(rows, i) == IF i = 1 THEN 1 ELSE rows[i - 1].seq + 1

ExpectedPrev(rows, i) == IF i = 1 THEN GENESIS ELSE RowHash(rows[i - 1])

\* Mutant of Breaks: the payloads are compared, but not the links.
BreaksInPayloads(rows) ==
  {<<i, "SEQUENCE_GAP">> : i \in
      {j \in DOMAIN rows : rows[j].seq # ExpectedSeq(rows, j)}} \cup
  {<<i, "PAYLOAD_MODIFIED">> : i \in
      {j \in DOMAIN rows : PayloadHash(rows[j].payload) # rows[j].payload_hash}}

\* Every break, as the position of the row and its kind.
Breaks(rows) ==
  {<<i, "SEQUENCE_GAP">> : i \in
      {j \in DOMAIN rows : rows[j].seq # ExpectedSeq(rows, j)}} \cup
  {<<i, "PAYLOAD_MODIFIED">> : i \in
      {j \in DOMAIN rows : PayloadHash(rows[j].payload) # rows[j].payload_hash}} \cup
  {<<i, "CHAIN_BROKEN">> : i \in
      {j \in DOMAIN rows : rows[j].prev_hash # ExpectedPrev(rows, j)}}

Verifies(rows) == Breaks(rows) = {}
=============================================================================
