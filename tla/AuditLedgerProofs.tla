------------------------- MODULE AuditLedgerProofs -------------------------
(***************************************************************************)
(* Machine-checked facts about AuditLedger, for any threads, payloads and  *)
(* numbers of appends and crashes.  A table is chained when every row is   *)
(* numbered by its place and linked to the one before; what NewRow builds  *)
(* keeps a table chained, and the lock keeps NewRow's reading of the last  *)
(* row true until the row is in the table.  The hash of a row lists the    *)
(* links of all rows up to it, by induction along the chain, so that a     *)
(* table which verifies is sealed by the head that was published, however  *)
(* it was made; and a single edit breaks the chain next to itself.         *)
(***************************************************************************)
EXTENDS TamperedLedger, SequenceTheorems, WellFoundedInduction, TLAPS

Chained(T) ==
  \A i \in DOMAIN T :
    /\ T[i].seq = i
    /\ T[i].payload_hash = PayloadHash(T[i].payload)
    /\ T[i].entry_hash = RowHash(T[i])
    /\ T[i].prev_hash = ExpectedPrev(T, i)

\* A chained table verifies.
LEMMA ChainedVerifies ==
  ASSUME NEW T \in Seq(Row), Chained(T)
  PROVE  Verifies(T)
<1>1. ASSUME NEW i \in DOMAIN T
      PROVE  /\ T[i].seq = ExpectedSeq(T, i)
             /\ PayloadHash(T[i].payload) = T[i].payload_hash
             /\ T[i].prev_hash = ExpectedPrev(T, i)
  <2>1. i \in 1 .. Len(T) /\ (i # 1 => i - 1 \in DOMAIN T)
    OBVIOUS
  <2>2. i # 1 => T[i - 1].seq = i - 1
    BY <2>1 DEF Chained
  <2>. QED  BY <2>1, <2>2 DEF Chained, ExpectedSeq
<1>. QED  BY <1>1 DEF Verifies, Breaks

\* The row append builds is a row.
LEMMA NewRowType ==
  ASSUME NEW T \in Seq(Row), NEW k \in Kinds, NEW p \in Payloads, NEW at \in Times
  PROVE  /\ NewRow(T, k, p, at) \in Row
         /\ HeadHash(T) \in Hash /\ LastSeq(T) \in Nat
<1>0. T # <<>> => T[Len(T)] \in Row
  <2>1. T # <<>> => Len(T) \in DOMAIN T
    OBVIOUS
  <2>. QED  BY <2>1
<1>1. HeadHash(T) \in Hash
  <2>1. GENESIS \in Hash
    BY DEF GENESIS, Hash
  <2>2. T # <<>> => T[Len(T)].entry_hash \in Hash
    BY <1>0 DEF Row
  <2>. QED  BY <2>1, <2>2 DEF HeadHash
<1>2. LastSeq(T) \in Nat
  <2>1. T # <<>> => T[Len(T)].seq \in Nat
    BY <1>0 DEF Row
  <2>. QED  BY <2>1 DEF LastSeq
<1>3. PayloadHash(p) \in PayloadHashes
  BY DEF PayloadHashes
<1>4. EntryHash(HeadHash(T), LastSeq(T) + 1, PayloadHash(p), k, at) \in Hash
  <2>1. [seq |-> LastSeq(T) + 1, payload_hash |-> PayloadHash(p), kind |-> k,
         written_at |-> at] \in Link
    BY <1>2, <1>3 DEF Link
  <2>. QED  BY <1>1, <2>1, AppendProperties DEF EntryHash, Hash
<1>. QED  BY <1>1, <1>2, <1>3, <1>4 DEF NewRow, Row

\* Appending the row that was built from a table keeps the table chained.
LEMMA AppendKeepsChain ==
  ASSUME NEW T \in Seq(Row), Chained(T), NEW r \in Row,
         NEW k \in Kinds, NEW p \in Payloads, NEW at \in Times,
         r = NewRow(T, k, p, at)
  PROVE  Chained(Append(T, r)) /\ r.seq = Len(T) + 1
<1> DEFINE U == Append(T, r)
<1>1. /\ DOMAIN U = 1 .. Len(T) + 1 /\ Len(T) \in Nat
      /\ \A i \in 1 .. Len(T) : U[i] = T[i]
      /\ U[Len(T) + 1] = r
  OBVIOUS
<1>2. r.seq = Len(T) + 1
  <2>1. r.seq = LastSeq(T) + 1
    BY DEF NewRow
  <2>2. LastSeq(T) = Len(T)
    <3>1. CASE T = <<>>
      BY <3>1 DEF LastSeq
    <3>2. CASE T # <<>>
      <4>1. Len(T) \in DOMAIN T
        BY <3>2
      <4>. QED  BY <3>2, <4>1 DEF LastSeq, Chained
    <3>. QED  BY <3>1, <3>2
  <2>. QED  BY <2>1, <2>2
<1>3. r.payload_hash = PayloadHash(r.payload) /\ r.entry_hash = RowHash(r)
  BY DEF NewRow, RowHash
<1>4. r.prev_hash = ExpectedPrev(U, Len(T) + 1)
  <2>1. r.prev_hash = HeadHash(T)
    BY DEF NewRow
  <2>2. CASE T = <<>>
    BY <2>1, <2>2 DEF HeadHash, ExpectedPrev
  <2>3. CASE T # <<>>
    <3>1. Len(T) \in DOMAIN T /\ Len(T) + 1 # 1
      BY <2>3
    <3>2. HeadHash(T) = RowHash(T[Len(T)])
      BY <2>3, <3>1 DEF HeadHash, Chained
    <3>3. U[(Len(T) + 1) - 1] = T[Len(T)]
      BY <1>1, <3>1
    <3>. QED  BY <2>1, <3>1, <3>2, <3>3 DEF ExpectedPrev
  <2>. QED  BY <2>2, <2>3
<1>5. ASSUME NEW i \in 1 .. Len(T)
      PROVE  /\ U[i].seq = i
             /\ U[i].payload_hash = PayloadHash(U[i].payload)
             /\ U[i].entry_hash = RowHash(U[i])
             /\ U[i].prev_hash = ExpectedPrev(U, i)
  <2>1. i \in DOMAIN T /\ U[i] = T[i]
    BY <1>1, <1>5
  <2>2. ExpectedPrev(U, i) = ExpectedPrev(T, i)
    <3>1. i # 1 => i - 1 \in 1 .. Len(T)
      BY <1>1, <1>5
    <3>. QED  BY <1>1, <3>1 DEF ExpectedPrev
  <2>. QED  BY <2>1, <2>2 DEF Chained
<1>6. ASSUME NEW i \in DOMAIN U
      PROVE  /\ U[i].seq = i
             /\ U[i].payload_hash = PayloadHash(U[i].payload)
             /\ U[i].entry_hash = RowHash(U[i])
             /\ U[i].prev_hash = ExpectedPrev(U, i)
  <2>1. i \in 1 .. Len(T) \/ i = Len(T) + 1
    BY <1>1
  <2>. QED  BY <1>1, <1>2, <1>3, <1>4, <1>5, <2>1
<1>. QED  BY <1>2, <1>6 DEF Chained

\* The committed part of a chained table is chained.
LEMMA PrefixIsChained ==
  ASSUME NEW S \in Seq(Row), NEW T \in Seq(Row), Chained(S \o T)
  PROVE  Chained(S)
<1>1. /\ DOMAIN (S \o T) = 1 .. Len(S) + Len(T) /\ Len(S) \in Nat /\ Len(T) \in Nat
      /\ \A i \in 1 .. Len(S) : (S \o T)[i] = S[i]
  OBVIOUS
<1> SUFFICES ASSUME NEW i \in DOMAIN S
             PROVE  /\ S[i].seq = i
                    /\ S[i].payload_hash = PayloadHash(S[i].payload)
                    /\ S[i].entry_hash = RowHash(S[i])
                    /\ S[i].prev_hash = ExpectedPrev(S, i)
  BY DEF Chained
<1>2. i \in 1 .. Len(S) /\ i \in DOMAIN (S \o T) /\ (S \o T)[i] = S[i]
  BY <1>1
<1>3. ExpectedPrev(S \o T, i) = ExpectedPrev(S, i)
  <2>1. i # 1 => i - 1 \in 1 .. Len(S)
    BY <1>1, <1>2
  <2>. QED  BY <1>1, <2>1 DEF ExpectedPrev
<1>. QED  BY <1>2, <1>3 DEF Chained

-----------------------------------------------------------------------------
(* Types.                                                                   *)

\* What a reader finds in the table are rows.
LEMMA TableType == TypeOK => Table \in Seq(Row)
BY DEF TypeOK, Table

\* The ledger is typed before the first call.
LEMMA LedgerInitType == Init => TypeOK
BY LedgerConstants DEF Init, TypeOK, NoRow

\* Each step of a call keeps the types.
LEMMA LedgerNextType == TypeOK /\ [Next]_vars => TypeOK'
<1> SUFFICES ASSUME TypeOK, [Next]_vars PROVE TypeOK'
  OBVIOUS
<1>. USE LedgerConstants DEF TypeOK
<1>1. ASSUME NEW t \in Threads, Call(t) PROVE TypeOK'
  BY <1>1 DEF Call
<1>2. ASSUME NEW t \in Threads, NEW k \in Kinds, NEW p \in Payloads, NEW at \in Times,
             Enter(t, k, p, at)
      PROVE TypeOK'
  <2>1. NewRow(Table, k, p, at) \in Row
    BY NewRowType, TableType
  <2>. QED  BY <1>2, <2>1 DEF Enter
<1>3. ASSUME NEW t \in Threads, Insert(t) PROVE TypeOK'
  <2>1. Append(pending, work[t]) \in Seq(Row)
    BY <1>3, AppendProperties DEF Insert
  <2>. QED  BY <1>3, <2>1 DEF Insert
<1>4. ASSUME NEW t \in Threads, InsertFails(t) PROVE TypeOK'
  BY <1>4 DEF InsertFails, Leave, NoRow
<1>5. ASSUME NEW t \in Threads, Commit(t) PROVE TypeOK'
  <2>1. rows' \in Seq(Row) /\ pending' \in Seq(Row) /\ returned' \subseteq Row
    BY <1>5, TableType DEF Commit
  <2>2. stage' \in [Threads -> {"idle", "hashed", "locked", "inserted"}]
    BY <1>5 DEF Commit, Leave
  <2>3. work' \in [Threads -> Row \cup {NoRow}]
    BY <1>5 DEF Commit, Leave
  <2>4. \A u \in Threads : stage'[u] \in {"locked", "inserted"} => work'[u] \in Row
    BY <1>5 DEF Commit, Leave
  <2>. QED  BY <1>5, <2>1, <2>2, <2>3, <2>4 DEF Commit, Leave
<1>6. ASSUME NEW t \in Threads, CommitFails(t) PROVE TypeOK'
  <2>1. pending' \in Seq(Row)
    <3>1. <<>> \in Seq(Row)
      OBVIOUS
    <3>2. pending' = pending \/ pending' = <<>>
      BY <1>6 DEF CommitFails
    <3>. QED  BY <3>1, <3>2
  <2>2. stage' \in [Threads -> {"idle", "hashed", "locked", "inserted"}]
    BY <1>6 DEF CommitFails, Leave
  <2>3. work' \in [Threads -> Row \cup {NoRow}]
    BY <1>6 DEF CommitFails, Leave
  <2>4. \A u \in Threads : stage'[u] \in {"locked", "inserted"} => work'[u] \in Row
    BY <1>6 DEF CommitFails, Leave
  <2>. QED  BY <1>6, <2>1, <2>2, <2>3, <2>4 DEF CommitFails, Leave
<1>7. ASSUME Crash PROVE TypeOK'
  BY <1>7 DEF Crash, NoRow
<1>8. ASSUME UNCHANGED vars PROVE TypeOK'
  BY <1>8 DEF vars
<1>. QED  BY <1>1, <1>2, <1>3, <1>4, <1>5, <1>6, <1>7, <1>8 DEF Next, InLock

\* The type invariant of the ledger holds.
THEOREM LedgerTypeCorrect == Spec => []TypeOK
<1>. QED  BY LedgerInitType, LedgerNextType, PTL DEF Spec

-----------------------------------------------------------------------------
(* The inductive invariant.                                                 *)

\* A thread inside the with statement holds the lock.
InsideHoldsLock ==
  \A t \in Threads : stage[t] \in {"locked", "inserted"} => lock = t

\* Until it is inserted, the row of the lock's holder fits the table as it is.
WorkFits ==
  \A t \in Threads : stage[t] = "locked" =>
    \E k \in Kinds, p \in Payloads, at \in Times : work[t] = NewRow(Table, k, p, at)

\* Afterwards it is the last row of the open transaction.
WorkIsLast ==
  \A t \in Threads : stage[t] = "inserted" =>
    pending # <<>> /\ Table[Len(Table)] = work[t]

LedgerInv ==
  /\ TypeOK /\ Chained(Table)
  /\ InsideHoldsLock /\ WorkFits /\ WorkIsLast
  /\ ReturnedIsRecorded

\* An empty sequence after another one.
LEMMA NothingPending == ASSUME TypeOK PROVE rows \o <<>> = rows
BY DEF TypeOK

\* The committed rows are the first rows of the table.
LEMMA TableExtendsRows ==
  ASSUME TypeOK
  PROVE  /\ Len(Table) = Len(rows) + Len(pending)
         /\ Len(rows) \in Nat /\ Len(pending) \in Nat
         /\ DOMAIN rows = 1 .. Len(rows) /\ DOMAIN Table = 1 .. Len(Table)
         /\ \A i \in DOMAIN rows : i \in DOMAIN Table /\ Table[i] = rows[i]
BY DEF TypeOK, Table

\* An append that ends leaves the lock to nobody, and nobody inside.
LEMMA LeavePreserves ==
  ASSUME TypeOK, InsideHoldsLock, NEW t \in Threads, lock = t, Leave(t)
  PROVE  InsideHoldsLock' /\ \A u \in Threads : stage'[u] \notin {"locked", "inserted"}
<1>1. ASSUME NEW u \in Threads PROVE stage'[u] \notin {"locked", "inserted"}
  <2>1. CASE u = t
    BY <2>1 DEF Leave, TypeOK
  <2>2. CASE u # t
    BY <2>2 DEF Leave, TypeOK, InsideHoldsLock
  <2>. QED  BY <2>1, <2>2
<1>. QED  BY <1>1 DEF InsideHoldsLock

\* An empty table is chained, and nobody is in the lock.
LEMMA LedgerInitInv == Init => LedgerInv
<1> SUFFICES ASSUME Init PROVE LedgerInv
  OBVIOUS
<1>1. Table = <<>>
  BY DEF Init, Table
<1>2. Chained(Table)
  BY <1>1 DEF Chained
<1>3. InsideHoldsLock /\ WorkFits /\ WorkIsLast /\ ReturnedIsRecorded
  BY DEF Init, InsideHoldsLock, WorkFits, WorkIsLast, ReturnedIsRecorded
<1>. QED  BY <1>2, <1>3, LedgerInitType DEF LedgerInv

\* A row is inserted under the lock into the table it was built from.
LEMMA InsertKeepsInv ==
  ASSUME LedgerInv, TypeOK', NEW t \in Threads, Insert(t)
  PROVE  LedgerInv'
<1>. USE DEF LedgerInv
<1>0. TypeOK /\ Table \in Seq(Row) /\ work[t] \in Row /\ lock = t /\ stage[t] = "locked"
  BY TableType DEF Insert, TypeOK, InsideHoldsLock
<1>1. Table' = Append(Table, work[t])
  BY <1>0 DEF Insert, Table, TypeOK
<1>2. Chained(Table')
  <2>1. PICK k \in Kinds, p \in Payloads, at \in Times : work[t] = NewRow(Table, k, p, at)
    BY <1>0 DEF WorkFits
  <2>2. Chained(Append(Table, work[t]))
    BY <1>0, <2>1, AppendKeepsChain
  <2>. QED  BY <1>1, <2>2
<1>3. stage' = [stage EXCEPT ![t] = "inserted"] /\ lock' = lock /\ work' = work
      /\ rows' = rows /\ returned' = returned
  BY DEF Insert
<1>4. \A u \in Threads : u # t => stage'[u] \notin {"locked", "inserted"}
  BY <1>0, <1>3 DEF TypeOK, InsideHoldsLock
<1>5. InsideHoldsLock'
  BY <1>0, <1>3, <1>4 DEF InsideHoldsLock
<1>6. WorkFits'
  <2>1. \A u \in Threads : stage'[u] # "locked"
    BY <1>0, <1>3, <1>4 DEF TypeOK
  <2>. QED  BY <2>1 DEF WorkFits
<1>7. WorkIsLast'
  <2>1. pending' # <<>> /\ Table'[Len(Table')] = work[t]
    <3>1. pending' # <<>>
      BY DEF Insert, TypeOK
    <3>2. Append(Table, work[t])[Len(Append(Table, work[t]))] = work[t]
      BY <1>0
    <3>. QED  BY <1>1, <3>1, <3>2
  <2>2. \A u \in Threads : stage'[u] = "inserted" => u = t
    BY <1>4
  <2>. QED  BY <1>3, <2>1, <2>2 DEF WorkIsLast
<1>8. ReturnedIsRecorded'
  BY <1>3 DEF ReturnedIsRecorded
<1>. QED  BY <1>2, <1>5, <1>6, <1>7, <1>8

\* An append ends; the table is committed, kept open or cut back to its
\* committed part, and what is returned was just committed.
LEMMA EndKeepsInv ==
  ASSUME LedgerInv, TypeOK', NEW t \in Threads, Leave(t), lock = t,
         Chained(Table'), ReturnedIsRecorded'
  PROVE  LedgerInv'
<1>1. InsideHoldsLock' /\ \A u \in Threads : stage'[u] \notin {"locked", "inserted"}
  BY LeavePreserves DEF LedgerInv
<1>2. WorkFits' /\ WorkIsLast'
  BY <1>1 DEF WorkFits, WorkIsLast
<1>. QED  BY <1>1, <1>2 DEF LedgerInv

\* Each step of a call keeps the invariant.
LEMMA LedgerNextInv == LedgerInv /\ [Next]_vars => LedgerInv'
<1> SUFFICES ASSUME LedgerInv, [Next]_vars PROVE LedgerInv'
  OBVIOUS
<1>0. /\ TypeOK /\ TypeOK' /\ Table \in Seq(Row) /\ Chained(Table)
      /\ InsideHoldsLock /\ WorkFits /\ WorkIsLast /\ ReturnedIsRecorded
  BY LedgerNextType, TableType DEF LedgerInv
<1>1. ASSUME NEW t \in Threads, Call(t) PROVE LedgerInv'
  <2>1. Table' = Table /\ lock' = lock /\ work' = work /\ pending' = pending
        /\ rows' = rows /\ returned' = returned
    BY <1>1 DEF Call, Table
  <2>2. \A u \in Threads : stage'[u] \in {"locked", "inserted"} => stage'[u] = stage[u]
    BY <1>0, <1>1 DEF Call, TypeOK
  <2>3. InsideHoldsLock'
    BY <1>0, <2>1, <2>2 DEF InsideHoldsLock
  <2>4. WorkFits'
    BY <1>0, <2>1, <2>2 DEF WorkFits
  <2>5. WorkIsLast'
    BY <1>0, <2>1, <2>2 DEF WorkIsLast
  <2>6. ReturnedIsRecorded'
    BY <1>0, <2>1 DEF ReturnedIsRecorded
  <2>. QED  BY <1>0, <2>1, <2>3, <2>4, <2>5, <2>6 DEF LedgerInv
<1>2. ASSUME NEW t \in Threads, NEW k \in Kinds, NEW p \in Payloads, NEW at \in Times,
             Enter(t, k, p, at)
      PROVE LedgerInv'
  <2>1. Table' = Table /\ lock' = t /\ pending' = pending
        /\ rows' = rows /\ returned' = returned
    BY <1>2 DEF Enter, Table
  <2>2. \A u \in Threads : u # t => stage'[u] \notin {"locked", "inserted"}
    BY <1>0, <1>2, NoThreadIsNone DEF Enter, MayEnter, TypeOK, InsideHoldsLock
  <2>3. stage'[t] = "locked" /\ work'[t] = NewRow(Table, k, p, at)
    BY <1>0, <1>2 DEF Enter, TypeOK
  <2>4. InsideHoldsLock'
    BY <2>1, <2>2 DEF InsideHoldsLock
  <2>5. WorkFits'
    BY <2>1, <2>2, <2>3 DEF WorkFits
  <2>6. WorkIsLast'
    BY <2>2, <2>3 DEF WorkIsLast
  <2>7. ReturnedIsRecorded'
    BY <1>0, <2>1 DEF ReturnedIsRecorded
  <2>. QED  BY <1>0, <2>1, <2>4, <2>5, <2>6, <2>7 DEF LedgerInv
<1>3. ASSUME NEW t \in Threads, Insert(t) PROVE LedgerInv'
  BY <1>0, <1>3, InsertKeepsInv
<1>4. ASSUME NEW t \in Threads, InsertFails(t) PROVE LedgerInv'
  <2>1. Leave(t) /\ lock = t
    BY <1>0, <1>4 DEF InsertFails, InsideHoldsLock
  <2>2. Table' = Table /\ ReturnedIsRecorded'
    BY <1>0, <1>4 DEF InsertFails, Table, ReturnedIsRecorded
  <2>. QED  BY <1>0, <2>1, <2>2, EndKeepsInv
<1>5. ASSUME NEW t \in Threads, Commit(t) PROVE LedgerInv'
  <2>1. Leave(t) /\ lock = t
    BY <1>0, <1>5 DEF Commit, InsideHoldsLock
  <2>2. Table' = Table /\ rows' = Table /\ returned' = returned \cup {work[t]}
    BY <1>0, <1>5 DEF Commit, Table, TypeOK
  <2>3. work[t].seq \in DOMAIN Table /\ Table[work[t].seq] = work[t]
    <3>1. pending # <<>> /\ Table[Len(Table)] = work[t]
      BY <1>0, <1>5 DEF Commit, WorkIsLast
    <3>2. Len(Table) \in DOMAIN Table
      BY <1>0, <3>1, TableExtendsRows DEF TypeOK
    <3>. QED  BY <1>0, <3>1, <3>2 DEF Chained
  <2>4. ReturnedIsRecorded'
    <3>1. ASSUME NEW r \in returned PROVE r.seq \in DOMAIN Table /\ Table[r.seq] = r
      BY <1>0, TableExtendsRows DEF ReturnedIsRecorded
    <3>. QED  BY <2>2, <2>3, <3>1 DEF ReturnedIsRecorded
  <2>. QED  BY <1>0, <2>1, <2>2, <2>4, EndKeepsInv
<1>6. ASSUME NEW t \in Threads, CommitFails(t) PROVE LedgerInv'
  <2>1. Leave(t) /\ lock = t
    BY <1>0, <1>6 DEF CommitFails, InsideHoldsLock
  <2>2. rows' = rows /\ returned' = returned
    BY <1>6 DEF CommitFails
  <2>3. Chained(Table')
    <3>1. CASE pending' = pending
      BY <1>0, <2>2, <3>1 DEF Table
    <3>2. CASE pending' = <<>>
      BY <1>0, <2>2, <3>2, NothingPending, PrefixIsChained DEF Table, TypeOK
    <3>. QED  BY <1>6, <3>1, <3>2 DEF CommitFails
  <2>4. ReturnedIsRecorded'
    BY <1>0, <2>2 DEF ReturnedIsRecorded
  <2>. QED  BY <1>0, <2>1, <2>3, <2>4, EndKeepsInv
<1>7. ASSUME Crash PROVE LedgerInv'
  <2>1. Table' = rows /\ rows' = rows /\ returned' = returned
    BY <1>0, <1>7, NothingPending DEF Crash, Table
  <2>2. Chained(Table')
    BY <1>0, <2>1, PrefixIsChained DEF Table, TypeOK
  <2>3. \A u \in Threads : stage'[u] \notin {"locked", "inserted"}
    BY <1>7 DEF Crash
  <2>4. InsideHoldsLock' /\ WorkFits' /\ WorkIsLast'
    BY <2>3 DEF InsideHoldsLock, WorkFits, WorkIsLast
  <2>5. ReturnedIsRecorded'
    BY <1>0, <2>1 DEF ReturnedIsRecorded
  <2>. QED  BY <1>0, <2>2, <2>4, <2>5 DEF LedgerInv
<1>8. ASSUME UNCHANGED vars PROVE LedgerInv'
  <2>1. Table' = Table /\ lock' = lock /\ work' = work /\ pending' = pending
        /\ rows' = rows /\ returned' = returned /\ stage' = stage
    BY <1>8 DEF vars, Table
  <2>. QED  BY <1>0, <2>1 DEF LedgerInv, InsideHoldsLock, WorkFits, WorkIsLast,
                             ReturnedIsRecorded
<1>. QED
  BY <1>1, <1>2, <1>3, <1>4, <1>5, <1>6, <1>7, <1>8 DEF Next, InLock

\* The invariant that carries the ledger's theorems.
THEOREM LedgerInvariant == Spec => []LedgerInv
<1>. QED  BY LedgerInitInv, LedgerNextInv, PTL DEF Spec

-----------------------------------------------------------------------------
(* What follows from it.                                                    *)

\* Neither a crash nor a failed write nor another thread makes an untouched
\* ledger fail its verification, at any moment of an append.
THEOREM UntouchedLedgerVerifies == Spec => []ChainVerifies
<1>1. LedgerInv => ChainVerifies
  <2> SUFFICES ASSUME LedgerInv PROVE ChainVerifies
    OBVIOUS
  <2>1. Table \in Seq(Row) /\ Chained(Table) /\ rows \in Seq(Row) /\ pending \in Seq(Row)
    BY TableType DEF LedgerInv, TypeOK
  <2>2. Chained(rows)
    BY <2>1, PrefixIsChained DEF Table
  <2>. QED  BY <2>1, <2>2, ChainedVerifies DEF ChainVerifies
<1>. QED  BY <1>1, LedgerInvariant, PTL

\* What append has returned stays in the committed table, crashes included.
THEOREM ReturnedIsDurable == Spec => []ReturnedIsRecorded
<1>1. LedgerInv => ReturnedIsRecorded
  BY DEF LedgerInv
<1>. QED  BY <1>1, LedgerInvariant, PTL

\* A commit, and no other step, records in the abstract log.
LEMMA CommitRecords ==
  ASSUME LedgerInv, TypeOK', NEW t \in Threads, Commit(t)
  PROVE  Log!Record
<1>0. TypeOK /\ WorkIsLast /\ Chained(Table) /\ Table \in Seq(Row)
  BY TableType DEF LedgerInv
<1>1. rows' = Table /\ returned' = returned \cup {work[t]}
  BY DEF Commit
<1>2. pending # <<>> /\ Table[Len(Table)] = work[t]
  BY <1>0 DEF WorkIsLast, Commit
<1>3. Len(pending) > 0
  BY <1>0, <1>2 DEF TypeOK
<1>4. Len(Table) > Len(rows) /\ \A i \in 1 .. Len(rows) : Table[i] = rows[i]
  BY <1>0, <1>3, TableExtendsRows
<1>5. work[t].seq = Len(Table)
  <2>1. Len(Table) \in DOMAIN Table
    BY <1>0, <1>2, <1>3, TableExtendsRows
  <2>. QED  BY <1>0, <1>2, <2>1 DEF Chained
<1>6. {r.seq : r \in returned'} = {r.seq : r \in returned} \cup {Len(rows')}
  BY <1>1, <1>5
<1>. QED  BY <1>1, <1>4, <1>6 DEF Log!Record

\* The ledger implements the append-only log: entries are added at the end, and
\* a caller is told of its entry only when it is committed.
THEOREM LedgerImplementsLog == Spec => ImplementsAppendOnlyLog
<1>1. Init => Log!Init
  BY DEF Init, Log!Init
<1>2. LedgerInv /\ LedgerInv' /\ [Next]_vars => [Log!Record]_Log!absVars
  <2> SUFFICES ASSUME LedgerInv, LedgerInv', [Next]_vars
               PROVE  Log!Record \/ UNCHANGED Log!absVars
    OBVIOUS
  <2>1. ASSUME NEW t \in Threads, Commit(t) PROVE Log!Record
    BY <2>1, CommitRecords DEF LedgerInv
  <2>2. rows' = rows /\ returned' = returned => UNCHANGED Log!absVars
    BY DEF Log!absVars
  <2>3. ASSUME NEW t \in Threads,
               Call(t) \/ Insert(t) \/ InsertFails(t) \/ CommitFails(t)
        PROVE  UNCHANGED Log!absVars
    BY <2>2, <2>3 DEF Call, Insert, InsertFails, CommitFails
  <2>4. ASSUME NEW t \in Threads, NEW k \in Kinds, NEW p \in Payloads, NEW at \in Times,
               Enter(t, k, p, at)
        PROVE  UNCHANGED Log!absVars
    BY <2>2, <2>4 DEF Enter
  <2>5. Crash \/ UNCHANGED vars => UNCHANGED Log!absVars
    BY <2>2 DEF Crash, vars
  <2>. QED  BY <2>1, <2>3, <2>4, <2>5 DEF Next, InLock
<1>. QED
  BY <1>1, <1>2, LedgerInvariant, PTL DEF Spec, ImplementsAppendOnlyLog, Log!Spec

-----------------------------------------------------------------------------
(* The seal: what the last hash says of a table.                            *)

LessThan == {p \in Nat \X Nat : p[1] < p[2]}

\* Among numbers there is a least one.
LEMMA LeastNumber ==
  ASSUME NEW S \in SUBSET Nat, S # {}
  PROVE  \E m \in S : \A n \in S : m <= n
<1>1. IsWellFoundedOn(LessThan, Nat)
  <2>1. OpToRel(<, Nat) = LessThan
    BY DEF OpToRel, LessThan
  <2>. QED  BY <2>1, NatLessThanWellFounded
<1>2. PICK m \in S : \A n \in S : ~(<<n, m>> \in LessThan)
  BY <1>1, WFMin
<1>3. ASSUME NEW n \in S PROVE m <= n
  <2>1. ~(<<n, m>> \in LessThan) /\ n \in Nat /\ m \in Nat
    BY <1>2
  <2>2. n < m => <<n, m>> \in LessThan
    BY <2>1 DEF LessThan
  <2>. QED  BY <2>1, <2>2
<1>. QED  BY <1>3

\* Induction over an interval: the set S stands for the property.
LEMMA ByInduction ==
  ASSUME NEW a \in Nat, NEW b \in Nat, NEW S, a \in S,
         \A i \in a .. b - 1 : i \in S => i + 1 \in S
  PROVE  a .. b \subseteq S
<1> DEFINE Bad == {i \in a .. b : i \notin S}
<1> SUFFICES ASSUME Bad # {} PROVE FALSE
  OBVIOUS
<1>1. PICK m \in Bad : \A n \in Bad : m <= n
  <2>1. Bad \in SUBSET Nat
    OBVIOUS
  <2> HIDE DEF Bad
  <2>. QED  BY <2>1, LeastNumber
<1>2. m \in a .. b /\ m \notin S /\ m # a
  BY <1>1
<1>3. m - 1 \in a .. b - 1 /\ (m - 1) + 1 = m
  BY <1>2
<1>4. m - 1 \in S
  BY <1>1, <1>3
<1>. QED  BY <1>2, <1>3, <1>4

\* What the hash of a row adds to the hash before it.
LinkOf(r) == [seq |-> r.seq, payload_hash |-> r.payload_hash, kind |-> r.kind,
              written_at |-> r.written_at]

IsTable(T) == T = [i \in 1 .. Len(T) |-> T[i]] /\ Len(T) \in Nat

\* The hash of a row of a table that verifies lists the links of all rows up to it.
LEMMA HashListsLinks ==
  ASSUME NEW T, IsTable(T), Verifies(T)
  PROVE  \A i \in 1 .. Len(T) : RowHash(T[i]) = [j \in 1 .. i |-> LinkOf(T[j])]
<1> DEFINE n == Len(T)
           Good == {i \in Nat : i \in 1 .. n => RowHash(T[i]) = [j \in 1 .. i |-> LinkOf(T[j])]}
<1>1. n \in Nat /\ DOMAIN T = 1 .. n
  BY DEF IsTable
<1>2. \A i \in 1 .. n : T[i].prev_hash = ExpectedPrev(T, i)
  BY <1>1 DEF Verifies, Breaks
<1>3. \A i \in 1 .. n : RowHash(T[i]) = Append(ExpectedPrev(T, i), LinkOf(T[i]))
  BY <1>2 DEF RowHash, EntryHash, LinkOf
<1> HIDE DEF n
<1>4. 1 \in Good
  <2>1. ASSUME 1 \in 1 .. n
        PROVE  RowHash(T[1]) = [j \in 1 .. 1 |-> LinkOf(T[j])]
    <3>1. RowHash(T[1]) = Append(<<>>, LinkOf(T[1]))
      BY <1>3, <2>1 DEF ExpectedPrev, GENESIS
    <3>2. Append(<<>>, LinkOf(T[1])) = [j \in 1 .. 1 |-> LinkOf(T[1])]
      OBVIOUS
    <3>3. [j \in 1 .. 1 |-> LinkOf(T[1])] = [j \in 1 .. 1 |-> LinkOf(T[j])]
      OBVIOUS
    <3>. QED  BY <3>1, <3>2, <3>3
  <2>. QED  BY <2>1
<1>5. ASSUME NEW i \in 1 .. n - 1, i \in Good
      PROVE  i + 1 \in Good
  <2> DEFINE h == [j \in 1 .. i |-> LinkOf(T[j])]
             x == LinkOf(T[i + 1])
             S == {LinkOf(T[j]) : j \in 1 .. n}
  <2>1. i \in 1 .. n /\ i + 1 \in 1 .. n /\ i \in Nat /\ i + 1 # 1 /\ (i + 1) - 1 = i
    BY <1>1
  <2>2. RowHash(T[i]) = h
    BY <1>5, <2>1
  <2>3. ExpectedPrev(T, i + 1) = h
    BY <2>1, <2>2 DEF ExpectedPrev
  <2>4. RowHash(T[i + 1]) = Append(h, x)
    BY <1>3, <2>1, <2>3
  <2>5. h \in Seq(S) /\ Len(h) = i /\ x \in S
    <3>1. h \in [1 .. i -> S] /\ x \in S
      BY <1>1, <2>1
    <3>. QED  BY <2>1, <3>1, IsASeq, LenProperties
  <2>6. Append(h, x) = [j \in 1 .. i + 1 |-> LinkOf(T[j])]
    <3> DEFINE g == [j \in 1 .. i + 1 |-> LinkOf(T[j])]
    <3>1. Append(h, x) \in Seq(S) /\ Len(Append(h, x)) = i + 1 /\ Append(h, x)[i + 1] = x
          /\ \A j \in 1 .. i : Append(h, x)[j] = h[j]
      <4> HIDE DEF h, x, S
      <4>. QED  BY <2>5, AppendProperties
    <3>2. \A j \in 1 .. i : h[j] = LinkOf(T[j])
      OBVIOUS
    <3>3. \A j \in 1 .. i + 1 : Append(h, x)[j] = LinkOf(T[j])
      <4>1. ASSUME NEW j \in 1 .. i + 1 PROVE Append(h, x)[j] = LinkOf(T[j])
        <5>1. j \in 1 .. i \/ j = i + 1
          BY <2>1
        <5>. QED  BY <3>1, <3>2, <5>1
      <4>. QED  BY <4>1
    <3>4. Append(h, x) = [j \in 1 .. i + 1 |-> Append(h, x)[j]]
      <4> HIDE DEF h, x, S
      <4>. QED  BY <3>1, LenProperties
    <3>. QED  BY <3>3, <3>4
  <2>. QED  BY <2>1, <2>4, <2>6
<1>6. 1 .. n \subseteq Good
  <2> HIDE DEF Good
  <2>. QED  BY <1>1, <1>4, <1>5, ByInduction
<1>. QED  BY <1>1, <1>6 DEF n

\* Two tables that verify and whose last rows have the same hash have the same contents.
LEMMA SameSealSameContents ==
  ASSUME NEW T, IsTable(T), Verifies(T), Len(T) # 0,
         NEW U, IsTable(U), Verifies(U), Len(U) # 0,
         RowHash(T[Len(T)]) = RowHash(U[Len(U)])
  PROVE  Contents(T) = Contents(U)
<1> DEFINE n == Len(T)
           m == Len(U)
<1>1. n \in Nat /\ m \in Nat /\ n \in 1 .. n /\ m \in 1 .. m
      /\ DOMAIN T = 1 .. n /\ DOMAIN U = 1 .. m
  BY DEF IsTable
<1>2. RowHash(T[n]) = [j \in 1 .. n |-> LinkOf(T[j])]
      /\ RowHash(U[m]) = [j \in 1 .. m |-> LinkOf(U[j])]
  BY <1>1, HashListsLinks
<1>3. [j \in 1 .. n |-> LinkOf(T[j])] = [j \in 1 .. m |-> LinkOf(U[j])]
  BY <1>2
<1> HIDE DEF n, m
<1>4. 1 .. n = 1 .. m
  BY <1>3
<1>5. \A j \in 1 .. n : LinkOf(T[j]) = LinkOf(U[j])
  BY <1>3, <1>4
<1>6. /\ \A j \in 1 .. n : PayloadHash(T[j].payload) = T[j].payload_hash
      /\ \A j \in 1 .. m : PayloadHash(U[j].payload) = U[j].payload_hash
  BY <1>1 DEF Verifies, Breaks
<1>7. ASSUME NEW j \in 1 .. n PROVE Content(T[j]) = Content(U[j])
  <2>1. LinkOf(T[j]) = LinkOf(U[j])
    BY <1>5
  <2>2. T[j].payload_hash = U[j].payload_hash /\ T[j].kind = U[j].kind
        /\ T[j].written_at = U[j].written_at
    BY <2>1 DEF LinkOf
  <2>3. <<T[j].payload>> = <<U[j].payload>>
    BY <1>4, <1>6, <2>2 DEF PayloadHash
  <2>4. T[j].payload = U[j].payload
    BY <2>3
  <2>. QED  BY <2>2, <2>4 DEF Content
<1>. QED  BY <1>1, <1>4, <1>7 DEF Contents

-----------------------------------------------------------------------------
(* Edits and later appends make tables of tables.                           *)

\* A function on an interval from 1 is a table of that length.
LEMMA TableOfLength ==
  ASSUME NEW T, NEW n \in Nat, T = [i \in 1 .. n |-> T[i]]
  PROVE  IsTable(T) /\ Len(T) = n
<1> DEFINE S == {T[i] : i \in 1 .. n}
<1>1. T \in [1 .. n -> S]
  OBVIOUS
<1>2. T \in Seq(S)
  BY <1>1, IsASeq
<1>3. Len(T) \in Nat /\ DOMAIN T = 1 .. Len(T) /\ DOMAIN T = 1 .. n
  BY <1>1, <1>2, LenProperties
<1>4. Len(T) = n
  BY <1>3
<1>. QED  BY <1>4 DEF IsTable

\* Every sequence is a table.
LEMMA SeqIsTable ==
  ASSUME NEW S, NEW T \in Seq(S)
  PROVE  IsTable(T) /\ DOMAIN T = 1 .. Len(T)
<1>1. Len(T) \in Nat /\ T \in [1 .. Len(T) -> S]
  BY LenProperties
<1>. QED  BY <1>1 DEF IsTable

\* A table is a sequence of its own rows.
LEMMA TableIsSeq ==
  ASSUME NEW T, IsTable(T)
  PROVE  \E S : T \in Seq(S)
<1> DEFINE S == {T[i] : i \in 1 .. Len(T)}
<1>1. Len(T) \in Nat /\ T \in [1 .. Len(T) -> S]
  BY DEF IsTable
<1> HIDE DEF S
<1>2. T \in Seq(S)
  BY <1>1, IsASeq
<1>. QED  BY <1>2

\* A table with one more row is a table.
LEMMA AppendIsTable ==
  ASSUME NEW T, IsTable(T), NEW x
  PROVE  IsTable(Append(T, x))
<1>1. PICK S : T \in Seq(S)
  BY TableIsSeq
<1>2. T \in Seq(S \cup {x})
  BY <1>1
<1>3. Append(T, x) \in Seq(S \cup {x})
  BY <1>2, AppendProperties
<1>. QED  BY <1>3, SeqIsTable

\* What is left after a deletion is a table.
LEMMA DeletionIsTable ==
  ASSUME NEW T, IsTable(T), NEW i \in 1 .. Len(T)
  PROVE  IsTable(DeleteRow(T, i))
<1>1. PICK S : T \in Seq(S)
  BY TableIsSeq
<1>2. SubSeq(T, 1, i - 1) \in Seq(S)
  BY <1>1, SubSeqProperties DEF IsTable
<1>3. SubSeq(T, i + 1, Len(T)) \in Seq(S)
  BY <1>1, SubSeqProperties DEF IsTable
<1>4. DeleteRow(T, i) \in Seq(S)
  BY <1>2, <1>3, ConcatProperties DEF DeleteRow
<1>. QED  BY <1>4, SeqIsTable

\* An edit leaves the other rows where they are, or moves up those below.
LEMMA EditMakesTable ==
  ASSUME NEW T, IsTable(T), NEW i \in 1 .. Len(T), NEW U \in Edited(T, i)
  PROVE  IsTable(U)
<1>1. CASE U = DeleteRow(T, i)
  BY <1>1, DeletionIsTable
<1>2. CASE U # DeleteRow(T, i)
  <2>1. \E r : U = [T EXCEPT ![i] = r]
    BY <1>2 DEF Edited, UpdateRow, RehashRow
  <2>2. Len(T) \in Nat /\ T = [j \in 1 .. Len(T) |-> T[j]]
    BY DEF IsTable
  <2>3. U = [j \in 1 .. Len(T) |-> U[j]]
    BY <2>1, <2>2
  <2>. QED  BY <2>2, <2>3, TableOfLength
<1>. QED  BY <1>1, <1>2

\* So do the edits of the links and the insertions.
LEMMA AnyEditMakesTable ==
  ASSUME NEW T, IsTable(T), NEW i \in 1 .. Len(T), NEW U \in EditedAnyhow(T, i)
  PROVE  IsTable(U)
<1>1. CASE U \in Edited(T, i)
  BY <1>1, EditMakesTable
<1>2. CASE U \in InsertRow(T, i)
  BY <1>2, AppendIsTable DEF InsertRow
<1>3. CASE U \in RelinkRow(T, i)
  <2>1. CASE \E h : U = [T EXCEPT ![i].prev_hash = h] \/ U = [T EXCEPT ![i].entry_hash = h]
    <3>1. \E r : U = [T EXCEPT ![i] = r]
      BY <2>1
    <3>2. Len(T) \in Nat /\ T = [j \in 1 .. Len(T) |-> T[j]]
      BY DEF IsTable
    <3>3. U = [j \in 1 .. Len(T) |-> U[j]]
      BY <3>1, <3>2
    <3>. QED  BY <3>2, <3>3, TableOfLength
  <2>2. CASE U = Append(DeleteRow(T, i), [T[i] EXCEPT !.seq = LastSeq(T) + 1])
    BY <2>2, DeletionIsTable, AppendIsTable
  <2>. QED  BY <1>3, <2>1, <2>2 DEF RelinkRow
<1>. QED  BY <1>1, <1>2, <1>3 DEF EditedAnyhow

\* One more append after an edit, for the k-th entry of the honest table.
Grown(T, honest, k) ==
  Append(T, NewRow(T, honest[k].kind, honest[k].payload, honest[k].written_at))

Continues(g, T, honest, a, b) ==
  g = [k \in a .. b |-> IF k = a THEN T ELSE Grown(g[k - 1], honest, k)]

\* The tables after each append are well defined.
LEMMA SomeContinuation ==
  ASSUME NEW T, NEW honest, NEW a \in Nat, NEW b \in Nat, a <= b
  PROVE  \E g : Continues(g, T, honest, a, b)
<1> DEFINE Good == {m \in Nat : \E g : Continues(g, T, honest, a, m)}
<1>1. a \in Good
  <2> DEFINE g == [k \in a .. a |-> T]
  <2>1. Continues(g, T, honest, a, a)
    BY DEF Continues
  <2>. QED  BY <2>1
<1>2. ASSUME NEW m \in a .. b - 1, m \in Good
      PROVE  m + 1 \in Good
  <2>1. PICK g : Continues(g, T, honest, a, m)
    BY <1>2
  <2> DEFINE h == [k \in a .. m + 1 |-> IF k = a THEN T ELSE Grown(g[k - 1], honest, k)]
  <2>2. \A k \in a .. m : g[k] = IF k = a THEN T ELSE Grown(g[k - 1], honest, k)
    BY <2>1 DEF Continues
  <2>3. \A k \in a .. m : h[k] = g[k]
    BY <2>2
  <2>4. \A k \in a .. m + 1 : k # a => h[k - 1] = g[k - 1]
    <3>1. ASSUME NEW k \in a .. m + 1, k # a PROVE k - 1 \in a .. m
      BY <3>1
    <3> HIDE DEF h
    <3>. QED  BY <2>3, <3>1
  <2>5. \A k \in a .. m + 1 : h[k] = IF k = a THEN T ELSE Grown(h[k - 1], honest, k)
    <3>1. \A k \in a .. m + 1 : h[k] = IF k = a THEN T ELSE Grown(g[k - 1], honest, k)
      OBVIOUS
    <3> HIDE DEF h
    <3>. QED  BY <2>4, <3>1
  <2>6. Continues(h, T, honest, a, m + 1)
    <3>1. h = [k \in a .. m + 1 |-> h[k]]
      OBVIOUS
    <3> HIDE DEF h
    <3>. QED  BY <2>5, <3>1 DEF Continues
  <2>. QED  BY <2>6
<1>3. a .. b \subseteq Good
  <2> HIDE DEF Good
  <2>. QED  BY <1>1, <1>2, ByInduction
<1>. QED  BY <1>3

\* Appends to a table make a table, by induction over them.
LEMMA ContinuedMakesTable ==
  ASSUME NEW T, IsTable(T), NEW honest, NEW n \in Nat, Len(honest) \in Nat, n <= Len(honest)
  PROVE  IsTable(Continued(T, honest, n + 1))
<1> DEFINE b == Len(honest)
           g == CHOOSE f : Continues(f, T, honest, n, b)
<1>1. Continues(g, T, honest, n, b)
  BY SomeContinuation
<1>2. Continued(T, honest, n + 1) = g[b]
  <2>1. (n + 1) - 1 = n
    OBVIOUS
  <2>. QED  BY <2>1 DEF Continued, Continues, Grown
<1> HIDE DEF g
<1> DEFINE Good == {k \in Nat : IsTable(g[k])}
<1>3. \A k \in n .. b : g[k] = IF k = n THEN T ELSE Grown(g[k - 1], honest, k)
  BY <1>1 DEF Continues
<1>4. n \in Good
  BY <1>3
<1>5. ASSUME NEW k \in n .. b - 1, k \in Good
      PROVE  k + 1 \in Good
  <2>1. k + 1 \in n .. b /\ k + 1 # n /\ (k + 1) - 1 = k /\ k + 1 \in Nat
    OBVIOUS
  <2>2. g[k + 1] = Grown(g[k], honest, k + 1)
    BY <1>3, <2>1
  <2>3. IsTable(Grown(g[k], honest, k + 1))
    BY <1>5, AppendIsTable DEF Grown
  <2>. QED  BY <2>1, <2>2, <2>3
<1>6. n .. b \subseteq Good
  <2> HIDE DEF Good
  <2>. QED  BY <1>4, <1>5, ByInduction
<1>. QED  BY <1>2, <1>6

\* A chained table publishes the hash of its last row.
LEMMA HeadIsLastHash ==
  ASSUME NEW T \in Seq(Row), Chained(T), Len(T) # 0
  PROVE  HeadHash(T) = RowHash(T[Len(T)]) /\ T # <<>> /\ Len(T) \in DOMAIN T
<1>1. T # <<>> /\ Len(T) \in DOMAIN T
  OBVIOUS
<1>. QED  BY <1>1 DEF HeadHash, Chained

\* A table that verifies and whose last row hashes to the published head of a chained
\* table has its contents.
LEMMA HeadSeals ==
  ASSUME NEW T \in Seq(Row), Chained(T), NEW U, IsTable(U)
  PROVE  SealedBy(HeadHash(T), U, T)
<1> SUFFICES ASSUME Verifies(U), U # <<>>, RowHash(U[Len(U)]) = HeadHash(T)
             PROVE  Contents(U) = Contents(T)
  BY DEF SealedBy
<1>1. IsTable(T) /\ Verifies(T)
  BY SeqIsTable, ChainedVerifies
<1>2. Len(U) # 0 /\ Len(U) \in 1 .. Len(U)
  BY DEF IsTable
<1>3. CASE Len(T) = 0
  <2>1. HeadHash(T) = <<>>
    BY <1>3 DEF HeadHash, GENESIS
  <2>2. RowHash(U[Len(U)]) = [j \in 1 .. Len(U) |-> LinkOf(U[j])]
    BY <1>2, HashListsLinks
  <2>3. DOMAIN RowHash(U[Len(U)]) # {}
    BY <1>2, <2>2
  <2>. QED  BY <2>1, <2>3
<1>4. CASE Len(T) # 0
  <2>1. RowHash(U[Len(U)]) = RowHash(T[Len(T)])
    BY <1>4, HeadIsLastHash
  <2>. QED  BY <1>1, <1>2, <1>4, <2>1, SameSealSameContents
<1>. QED  BY <1>3, <1>4

\* A chained table that is cut off publishes another head.
LEMMA TruncationMovesHead ==
  ASSUME NEW T \in Seq(Row), Chained(T), NEW n \in 0 .. Len(T) - 1
  PROVE  HeadHash(SubSeq(T, 1, n)) # HeadHash(T)
<1>1. Len(T) \in Nat /\ Len(T) # 0 /\ DOMAIN T = 1 .. Len(T) /\ IsTable(T) /\ Verifies(T)
  BY SeqIsTable, ChainedVerifies
<1>2. HeadHash(T) = [j \in 1 .. Len(T) |-> LinkOf(T[j])]
  <2>1. HeadHash(T) = RowHash(T[Len(T)]) /\ Len(T) \in 1 .. Len(T)
    BY <1>1, HeadIsLastHash
  <2>. QED  BY <1>1, <2>1, HashListsLinks
<1> DEFINE U == SubSeq(T, 1, n)
<1>3. U \in Seq(Row) /\ Len(U) = n /\ \A j \in 1 .. n : U[j] = T[j]
  BY <1>1, SubSeqProperties
<1> HIDE DEF U
<1>4. CASE n = 0
  <2>1. HeadHash(U) = <<>>
    BY <1>3, <1>4 DEF HeadHash, GENESIS
  <2>2. DOMAIN HeadHash(T) # {}
    BY <1>1, <1>2
  <2>. QED  BY <2>1, <2>2 DEF U
<1>5. CASE n # 0
  <2>1. n \in 1 .. Len(T) /\ n \in 1 .. n /\ U # <<>>
    BY <1>1, <1>3, <1>5
  <2>2. HeadHash(U) = T[n].entry_hash
    BY <1>3, <2>1 DEF HeadHash
  <2>3. T[n].entry_hash = [j \in 1 .. n |-> LinkOf(T[j])]
    <3>1. T[n].entry_hash = RowHash(T[n])
      BY <1>1, <2>1 DEF Chained
    <3>. QED  BY <1>1, <2>1, <3>1, HashListsLinks
  <2>4. DOMAIN HeadHash(U) = 1 .. n /\ DOMAIN HeadHash(T) = 1 .. Len(T)
    BY <1>2, <2>2, <2>3
  <2>5. Len(T) \in 1 .. Len(T) /\ Len(T) \notin 1 .. n
    BY <1>1
  <2>. QED  BY <2>4, <2>5 DEF U
<1>. QED  BY <1>4, <1>5

\* The head that append has published seals the ledger against every table of rows,
\* however it came about, and so against the edits that the runs try (verify_chain,
\* head).
THEOREM LedgerIsSealed ==
  Spec => [](HashSealsLedger /\ \A table \in Seq(Row) : SealedBy(HeadHash(rows), table, rows))
<1>1. LedgerInv => HashSealsLedger /\ \A table \in Seq(Row) : SealedBy(HeadHash(rows), table, rows)
  <2> SUFFICES ASSUME LedgerInv
               PROVE  HashSealsLedger
                      /\ \A table \in Seq(Row) : SealedBy(HeadHash(rows), table, rows)
    OBVIOUS
  <2>1. rows \in Seq(Row) /\ Chained(rows) /\ DOMAIN rows = 1 .. Len(rows) /\ Len(rows) \in Nat
    BY TableType, PrefixIsChained DEF LedgerInv, TypeOK, Table
  <2>2. ASSUME NEW n \in DOMAIN rows, NEW i \in 1 .. n,
               NEW first \in Edited(SubSeq(rows, 1, n), i),
               NEW k \in DOMAIN Continued(first, rows, n + 1),
               NEW table \in EditedAnyhow(Continued(first, rows, n + 1), k)
        PROVE  SealedBy(HeadHash(rows), table, rows)
    <3>1. SubSeq(rows, 1, n) \in Seq(Row) /\ Len(SubSeq(rows, 1, n)) = n
      BY <2>1, SubSeqProperties
    <3>2. IsTable(first)
      BY <3>1, SeqIsTable, EditMakesTable
    <3>3. IsTable(Continued(first, rows, n + 1))
      BY <2>1, <3>2, ContinuedMakesTable
    <3>4. k \in 1 .. Len(Continued(first, rows, n + 1))
      BY <3>3 DEF IsTable
    <3>5. IsTable(table)
      BY <3>3, <3>4, AnyEditMakesTable
    <3>. QED  BY <2>1, <3>5, HeadSeals
  <2>3. \A table \in Seq(Row) : SealedBy(HeadHash(rows), table, rows)
    BY <2>1, SeqIsTable, HeadSeals
  <2>. QED  BY <2>1, <2>2, <2>3, TruncationMovesHead DEF HashSealsLedger
<1>. QED  BY <1>1, LedgerInvariant, PTL

-----------------------------------------------------------------------------
(* A single edit.                                                           *)

\* What an edit of one row in place may do to it.
SameButContent(r, s) ==
  r.seq = s.seq /\ r.prev_hash = s.prev_hash

\* An update changes one row, and not its number nor the hash it is linked to.
LEMMA UpdatedRow ==
  ASSUME NEW T \in Seq(Row), NEW i \in 1 .. Len(T), NEW U \in Edited(T, i),
         U # DeleteRow(T, i)
  PROVE  /\ DOMAIN U = 1 .. Len(T) /\ U = [j \in 1 .. Len(T) |-> U[j]]
         /\ \A j \in 1 .. Len(T) : j # i => U[j] = T[j]
         /\ SameButContent(U[i], T[i])
<1>1. Len(T) \in Nat /\ T \in [1 .. Len(T) -> Row] /\ T[i] \in Row
  BY LenProperties
<1>2. \/ \E k : U = [T EXCEPT ![i].kind = k]
      \/ \E at : U = [T EXCEPT ![i].written_at = at]
      \/ \E p : U = [T EXCEPT ![i].payload = p]
      \/ \E p : U = [T EXCEPT ![i].payload = p, ![i].payload_hash = PayloadHash(p)]
      \/ \E h : U = [T EXCEPT ![i].entry_hash = h]
  BY DEF Edited, UpdateRow, RehashRow
<1> DEFINE Same == \E r : U = [T EXCEPT ![i] = r] /\ SameButContent(r, T[i])
<1>3. Same
  <2>1. ASSUME NEW k, U = [T EXCEPT ![i].kind = k] PROVE Same
    <3>1. SameButContent([T[i] EXCEPT !.kind = k], T[i])
      BY <1>1 DEF SameButContent, Row
    <3>. QED  BY <2>1, <3>1
  <2>2. ASSUME NEW at, U = [T EXCEPT ![i].written_at = at] PROVE Same
    <3>1. SameButContent([T[i] EXCEPT !.written_at = at], T[i])
      BY <1>1 DEF SameButContent, Row
    <3>. QED  BY <2>2, <3>1
  <2>3. ASSUME NEW p, U = [T EXCEPT ![i].payload = p] PROVE Same
    <3>1. SameButContent([T[i] EXCEPT !.payload = p], T[i])
      BY <1>1 DEF SameButContent, Row
    <3>. QED  BY <2>3, <3>1
  <2>4. ASSUME NEW p, U = [T EXCEPT ![i].payload = p, ![i].payload_hash = PayloadHash(p)]
        PROVE  Same
    <3>1. SameButContent([T[i] EXCEPT !.payload = p, !.payload_hash = PayloadHash(p)], T[i])
      BY <1>1 DEF SameButContent, Row
    <3>. QED  BY <1>1, <2>4, <3>1
  <2>5. ASSUME NEW h, U = [T EXCEPT ![i].entry_hash = h] PROVE Same
    <3>1. SameButContent([T[i] EXCEPT !.entry_hash = h], T[i])
      BY <1>1 DEF SameButContent, Row
    <3>. QED  BY <2>5, <3>1
  <2>. QED  BY <1>2, <2>1, <2>2, <2>3, <2>4, <2>5
<1>. QED  BY <1>1, <1>3

\* Rows that hash alike from the same hash add the same link to it.
LEMMA SameHashSameLink ==
  ASSUME NEW r, NEW s \in Row, SameButContent(r, s), RowHash(r) = RowHash(s)
  PROVE  LinkOf(r) = LinkOf(s)
<1> DEFINE S == Link \cup {LinkOf(r), LinkOf(s)}
<1>1. s.prev_hash \in Seq(S)
  BY DEF Row, Hash
<1>2. Append(s.prev_hash, LinkOf(r)) = Append(s.prev_hash, LinkOf(s))
  BY DEF SameButContent, RowHash, EntryHash, LinkOf
<1>3. LinkOf(r) \in S /\ LinkOf(s) \in S
  OBVIOUS
<1> HIDE DEF S
<1>4. Append(s.prev_hash, LinkOf(r))[Len(s.prev_hash) + 1] = LinkOf(r)
      /\ Append(s.prev_hash, LinkOf(s))[Len(s.prev_hash) + 1] = LinkOf(s)
  BY <1>1, <1>3, AppendProperties
<1>. QED  BY <1>2, <1>4

\* A row that was taken out is missed at its place.
LEMMA DeletionIsLocated ==
  ASSUME NEW T \in Seq(Row), Chained(T), NEW i \in 1 .. Len(T) - 1
  PROVE  <<i, "SEQUENCE_GAP">> \in Breaks(DeleteRow(T, i))
<1> DEFINE A == SubSeq(T, 1, i - 1)
           B == SubSeq(T, i + 1, Len(T))
           U == A \o B
<1>1. Len(T) \in Nat /\ i \in 1 .. Len(T) /\ i + 1 \in 1 .. Len(T) /\ DOMAIN T = 1 .. Len(T)
  BY LenProperties
<1>2. A \in Seq(Row) /\ Len(A) = i - 1 /\ \A j \in 1 .. i - 1 : A[j] = T[j]
  BY <1>1, SubSeqProperties
<1>3. B \in Seq(Row) /\ Len(B) = Len(T) - i /\ \A j \in 1 .. Len(T) - i : B[j] = T[i + j]
  BY <1>1, SubSeqProperties
<1> HIDE DEF A, B
<1>4. U \in Seq(Row) /\ Len(U) = Len(T) - 1
      /\ \A j \in 1 .. Len(U) : U[j] = IF j <= Len(A) THEN A[j] ELSE B[j - Len(A)]
  <2>1. U \in Seq(Row) /\ Len(U) = Len(A) + Len(B)
        /\ \A j \in 1 .. Len(A) + Len(B) : U[j] = IF j <= Len(A) THEN A[j] ELSE B[j - Len(A)]
    BY <1>2, <1>3, ConcatProperties
  <2>2. Len(A) + Len(B) = Len(T) - 1
    BY <1>1, <1>2, <1>3
  <2>. QED  BY <2>1, <2>2
<1> HIDE DEF U
<1>5. i \in DOMAIN U
  BY <1>1, <1>4, LenProperties
<1>6. U[i] = T[i + 1]
  <2>1. i \in 1 .. Len(U) /\ ~(i <= Len(A)) /\ i - Len(A) = 1 /\ 1 \in 1 .. Len(T) - i
    BY <1>1, <1>2, <1>4
  <2>. QED  BY <1>3, <1>4, <2>1
<1>7. U[i].seq = i + 1
  BY <1>1, <1>6 DEF Chained
<1>8. ExpectedSeq(U, i) = i
  <2>1. CASE i = 1
    BY <2>1 DEF ExpectedSeq
  <2>2. CASE i # 1
    <3>1. i - 1 \in 1 .. Len(U) /\ i - 1 <= Len(A) /\ i - 1 \in 1 .. i - 1 /\ i - 1 \in DOMAIN T
      BY <1>1, <1>2, <1>4, <2>2
    <3>2. U[i - 1] = T[i - 1]
      BY <1>2, <1>4, <3>1
    <3>3. T[i - 1].seq = i - 1
      BY <3>1 DEF Chained
    <3>. QED  BY <1>1, <2>2, <3>2, <3>3 DEF ExpectedSeq
  <2>. QED  BY <2>1, <2>2
<1>9. U[i].seq # ExpectedSeq(U, i)
  BY <1>1, <1>7, <1>8
<1>10. <<i, "SEQUENCE_GAP">> \in Breaks(U)
  BY <1>5, <1>9 DEF Breaks
<1>. QED  BY <1>10 DEF U, A, B, DeleteRow

\* A row that was changed does not fit its payload, or the next row does not fit it.
LEMMA UpdateIsLocated ==
  ASSUME NEW T \in Seq(Row), Chained(T), NEW i \in 1 .. Len(T) - 1,
         NEW U \in Edited(T, i), U # DeleteRow(T, i), Contents(U) # Contents(T)
  PROVE  \E b \in Breaks(U) : b[1] \in {i, i + 1}
<1>1. Len(T) \in Nat /\ i \in 1 .. Len(T) /\ i + 1 \in 1 .. Len(T) /\ DOMAIN T = 1 .. Len(T)
      /\ T[i] \in Row
  BY LenProperties
<1>2. /\ DOMAIN U = 1 .. Len(T)
      /\ \A j \in 1 .. Len(T) : j # i => U[j] = T[j]
      /\ SameButContent(U[i], T[i])
  BY <1>1, UpdatedRow
<1>3. CASE RowHash(U[i]) # RowHash(T[i])
  <2>1. U[i + 1] = T[i + 1] /\ (i + 1) - 1 = i /\ i + 1 # 1
    BY <1>1, <1>2
  <2>2. T[i + 1].prev_hash = RowHash(T[i])
    BY <1>1, <2>1 DEF Chained, ExpectedPrev
  <2>3. ExpectedPrev(U, i + 1) = RowHash(U[i])
    BY <2>1 DEF ExpectedPrev
  <2>4. <<i + 1, "CHAIN_BROKEN">> \in Breaks(U)
    BY <1>1, <1>2, <1>3, <2>1, <2>2, <2>3 DEF Breaks
  <2>. QED  BY <2>4
<1>4. CASE RowHash(U[i]) = RowHash(T[i])
  <2>1. LinkOf(U[i]) = LinkOf(T[i])
    BY <1>1, <1>2, <1>4, SameHashSameLink
  <2>2. U[i].payload_hash = T[i].payload_hash /\ U[i].kind = T[i].kind
        /\ U[i].written_at = T[i].written_at
    BY <2>1 DEF LinkOf
  <2>3. Content(U[i]) # Content(T[i])
    <3>1. ASSUME Content(U[i]) = Content(T[i]) PROVE FALSE
      <4>1. \A j \in 1 .. Len(T) : Content(U[j]) = Content(T[j])
        BY <1>2, <3>1
      <4>2. Contents(U) = Contents(T)
        BY <1>1, <1>2, <4>1 DEF Contents
      <4>. QED  BY <4>2
    <3>. QED  BY <3>1
  <2>4. U[i].payload # T[i].payload
    BY <2>2, <2>3 DEF Content
  <2>5. T[i].payload_hash = <<T[i].payload>>
    BY <1>1 DEF Chained, PayloadHash
  <2>6. PayloadHash(U[i].payload) # U[i].payload_hash
    BY <2>2, <2>4, <2>5 DEF PayloadHash
  <2>7. <<i, "PAYLOAD_MODIFIED">> \in Breaks(U)
    BY <1>1, <1>2, <2>6 DEF Breaks
  <2>. QED  BY <2>7
<1>. QED  BY <1>3, <1>4

\* An edit of a row that has a successor is reported at the row or its successor, and a
\* deletion at the row that took its place (verify_entries).
THEOREM EditsAreLocated == Spec => []EditIsLocated
<1>1. LedgerInv => EditIsLocated
  <2> SUFFICES ASSUME LedgerInv, NEW i \in 1 .. Len(rows) - 1, NEW table \in Edited(rows, i),
                      Contents(table) # Contents(rows)
               PROVE  \E b \in Breaks(table) : b[1] \in {i, i + 1}
    BY DEF EditIsLocated
  <2>1. rows \in Seq(Row) /\ Chained(rows)
    BY TableType, PrefixIsChained DEF LedgerInv, TypeOK, Table
  <2>2. CASE table = DeleteRow(rows, i)
    <3>1. <<i, "SEQUENCE_GAP">> \in Breaks(table)
      BY <2>1, <2>2, DeletionIsLocated
    <3>. QED  BY <3>1
  <2>3. CASE table # DeleteRow(rows, i)
    BY <2>1, <2>3, UpdateIsLocated
  <2>. QED  BY <2>2, <2>3
<1>. QED  BY <1>1, LedgerInvariant, PTL

=============================================================================
