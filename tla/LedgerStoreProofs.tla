------------------------- MODULE LedgerStoreProofs -------------------------
(* Proofs about LedgerStore, for any number of threads, entries and power  *)
(* losses and any limit of the root query.                                 *)
EXTENDS LedgerStore, TLAPS

USE LimitAssumption

-----------------------------------------------------------------------------
(* The inductive invariant *)

Db == [rows : Seq(Row), roots : Seq(Checkpoint)]

\* Entries marked as synced were sent, and come before the others.
RowsOK(r, S) ==
    \A s \in 1..Len(r) : r[s].synced => r[s].id \in S /\ \A q \in 1..s : r[q].synced

\* The root h was computed from the first entries among n of the rows.
Covers(h, r, n) ==
    /\ Len(h) <= n /\ n <= Len(r)
    /\ \A i \in 1..Len(h) : h[i] = r[i].id

\* A root of as many entries as there were when it was computed, or the limit.
Exact(h, seen, n) == Len(h) = Limited(seen) /\ seen <= n

RootsOK(d) ==
    \A k \in 1..Len(d.roots) :
        /\ Covers(d.roots[k].root_hash, d.rows, d.roots[k].seq)
        /\ Exact(d.roots[k].root_hash, d.roots[k].seen, d.roots[k].seq)
        /\ d.roots[k].entry_count = d.roots[k].seq

\* The number of a checkpoint is its key.
KeyOK(d) ==
    \A k, m \in 1..Len(d.roots) : d.roots[k].seq = d.roots[m].seq => k = m

\* Checkpoints are only ever added, so an older state has a part of them.
Older(d, e) ==
    /\ Len(d.roots) <= Len(e.roots)
    /\ \A k \in 1..Len(d.roots) : d.roots[k] = e.roots[k]

DbOK(d, S) == RowsOK(d.rows, S) /\ RootsOK(d) /\ KeyOK(d)

\* Every state the machine could fall back to is in order, and so is what each
\* thread remembers of the current one.
StoreInv ==
    /\ wal \in Seq(Db) /\ wal # <<>>
    /\ \A i \in 1..Len(wal) : DbOK(wal[i], sent) /\ Older(wal[i], db)

ThreadOK(t) ==
    /\ pc[t] = "insert" => local[t] \in Nat
    /\ pc[t] = "sending" => /\ local[t] \in Nat /\ local[t] <= latest_seq
                            /\ \A q \in 1..local[t] : rows[q].id \in sent
    /\ pc[t] = "rooted" => /\ local[t].root \in Seq(Nat) /\ local[t].seen \in Nat
                           /\ Covers(local[t].root, rows, latest_seq)
                           /\ Exact(local[t].root, local[t].seen, latest_seq)

ThreadInv ==
    /\ pc \in [Thread -> PC] /\ DOMAIN local = Thread /\ nextId \in Nat
    /\ \A t \in Thread : ThreadOK(t)

LedgerInv == StoreInv /\ ThreadInv

-----------------------------------------------------------------------------
LEMMA CurrentDb ==
    ASSUME StoreInv
    PROVE  /\ Len(wal) \in Nat \ {0} /\ db = wal[Len(wal)]
           /\ db \in Db /\ DbOK(db, sent)
           /\ rows \in Seq(Row) /\ merkle_roots \in Seq(Checkpoint) /\ latest_seq \in Nat
<1>1. Len(wal) \in Nat \ {0} /\ db = wal[Len(wal)]
  BY DEF StoreInv, db, Last
<1>2. db \in Db /\ DbOK(db, sent)
  BY <1>1 DEF StoreInv
<1> QED BY <1>1, <1>2 DEF Db, rows, merkle_roots, latest_seq

LEMMA OlderTransitive ==
    ASSUME NEW c \in Db, NEW d \in Db, NEW e \in Db, Older(c, d), Older(d, e)
    PROVE  Older(c, e)
<1>1. c.roots \in Seq(Checkpoint) /\ d.roots \in Seq(Checkpoint) /\ e.roots \in Seq(Checkpoint)
  BY DEF Db
<1>2. Len(c.roots) \in Nat /\ Len(d.roots) \in Nat /\ Len(e.roots) \in Nat
  BY <1>1
<1>3. ASSUME NEW k \in 1..Len(c.roots) PROVE c.roots[k] = e.roots[k]
  <2>1. k \in 1..Len(d.roots)
    BY <1>2 DEF Older
  <2> QED BY <2>1 DEF Older
<1> QED BY <1>2, <1>3 DEF Older

\* Rows may be added or marked: what a root covers is told by their ids.
LEMMA CoversKept ==
    ASSUME NEW h \in Seq(Nat), NEW n \in Nat, NEW r \in Seq(Row), NEW q \in Seq(Row),
           Covers(h, r, n), Len(r) <= Len(q), \A s \in 1..Len(r) : q[s].id = r[s].id
    PROVE  Covers(h, q, n)
<1>1. Len(h) \in Nat /\ Len(r) \in Nat /\ Len(q) \in Nat
  OBVIOUS
<1>2. Len(h) <= n /\ n <= Len(q)
  BY <1>1 DEF Covers
<1>3. ASSUME NEW i \in 1..Len(h) PROVE h[i] = q[i].id
  <2>1. i \in 1..Len(r)
    BY <1>1 DEF Covers
  <2> QED BY <2>1 DEF Covers
<1> QED BY <1>2, <1>3 DEF Covers

\* A commit of a state that is in order and keeps the checkpoints.
LEMMA CommitStep ==
    ASSUME StoreInv, NEW d \in Db, DbOK(d, sent), Older(db, d),
           wal' = Append(wal, d), sent' = sent
    PROVE  StoreInv' /\ db' = d
<1>0. Len(wal) \in Nat \ {0} /\ wal \in Seq(Db)
  BY CurrentDb DEF StoreInv
<1>1. /\ wal' \in Seq(Db) /\ wal' # <<>> /\ Len(wal') = Len(wal) + 1
      /\ wal'[Len(wal) + 1] = d
      /\ \A i \in 1..Len(wal) : wal'[i] = wal[i]
  BY <1>0
<1>2. db' = d
  BY <1>0, <1>1 DEF db, Last
<1>3. ASSUME NEW i \in 1..Len(wal') PROVE DbOK(wal'[i], sent) /\ Older(wal'[i], d)
  <2>1. CASE i = Len(wal) + 1
    <3>2. d.roots \in Seq(Checkpoint)
      BY DEF Db
    <3>3. Older(d, d)
      BY <3>2 DEF Older
    <3> QED BY <1>1, <2>1, <3>3
  <2>2. CASE i \in 1..Len(wal)
    <3>1. DbOK(wal[i], sent) /\ Older(wal[i], db) /\ wal[i] \in Db
      BY <1>0, <2>2 DEF StoreInv
    <3>3. db \in Db
      BY CurrentDb
    <3>4. Older(wal[i], d)
      BY <3>1, <3>3, OlderTransitive
    <3> QED BY <1>1, <2>2, <3>1, <3>4
  <2>3. i = Len(wal) + 1 \/ i \in 1..Len(wal)
    BY <1>0, <1>1
  <2> QED BY <2>1, <2>2, <2>3
<1> QED BY <1>1, <1>2, <1>3 DEF StoreInv

\* A thread that goes back to idle remembers nothing; the others remember the
\* rows they saw, whose ids are still where they were.
LEMMA ThreadsKept ==
    ASSUME LedgerInv, NEW t \in Thread, Goto(t, "idle", 0), nextId' \in Nat, sent' = sent,
           StoreInv',
           latest_seq <= latest_seq',
           \A q \in 1..latest_seq : rows'[q].id = rows[q].id
    PROVE  ThreadInv'
<1>0. latest_seq \in Nat /\ latest_seq' \in Nat
  BY CurrentDb DEF LedgerInv, StoreInv, db, Last, rows, latest_seq
<1>1. pc' \in [Thread -> PC] /\ DOMAIN local' = Thread
  BY DEF LedgerInv, ThreadInv, Goto, PC
<1>2. ThreadOK(t)'
  BY DEF LedgerInv, ThreadInv, Goto, ThreadOK
<1>3. ASSUME NEW u \in Thread, u # t PROVE ThreadOK(u)'
  <2>1. pc'[u] = pc[u] /\ local'[u] = local[u] /\ ThreadOK(u)
    BY <1>3 DEF LedgerInv, ThreadInv, Goto
  <2>2. pc[u] = "sending" => /\ local[u] \in Nat /\ local[u] <= latest_seq'
                             /\ \A q \in 1..local[u] : rows'[q].id \in sent'
    BY <1>0, <2>1 DEF ThreadOK
  <2>3. pc[u] = "rooted" => /\ local[u].root \in Seq(Nat) /\ local[u].seen \in Nat
                            /\ Covers(local[u].root, rows, latest_seq)'
                            /\ Exact(local[u].root, local[u].seen, latest_seq)'
    <3>1. latest_seq = Len(rows) /\ latest_seq' = Len(rows')
      BY DEF latest_seq
    <3> QED BY <1>0, <2>1, <3>1 DEF ThreadOK, Covers, Exact
  <2> QED BY <2>1, <2>2, <2>3 DEF ThreadOK
<1> QED BY <1>1, <1>2, <1>3 DEF ThreadInv

-----------------------------------------------------------------------------
(* One lemma for each step *)

LEMMA InsertStep ==
    ASSUME LedgerInv, NEW t \in Thread, insert_entry(t)
    PROVE  LedgerInv' /\ Older(db, db')
<1> DEFINE row == [id |-> local[t], synced |-> FALSE]
           d == [rows |-> Append(rows, row), roots |-> merkle_roots]
<1>0. /\ rows \in Seq(Row) /\ merkle_roots \in Seq(Checkpoint) /\ latest_seq \in Nat
      /\ DbOK(db, sent) /\ latest_seq = Len(rows) /\ rows = db.rows /\ merkle_roots = db.roots
  BY CurrentDb DEF LedgerInv, rows, merkle_roots, latest_seq
<1>1. row \in Row
  BY DEF LedgerInv, ThreadInv, ThreadOK, insert_entry, Row
<1>2. /\ Append(rows, row) \in Seq(Row) /\ Len(Append(rows, row)) = latest_seq + 1
      /\ \A q \in 1..latest_seq : Append(rows, row)[q] = rows[q]
      /\ Append(rows, row)[latest_seq + 1] = row
  BY <1>0, <1>1
<1>3. d \in Db
  BY <1>0, <1>2 DEF Db
<1>4. RowsOK(d.rows, sent)
  <2>1. RowsOK(rows, sent)
    BY <1>0 DEF DbOK
  <2> QED BY <1>0, <1>2, <2>1 DEF RowsOK
<1>5. RootsOK(d)
  <2>1. ASSUME NEW k \in 1..Len(merkle_roots)
        PROVE  Covers(merkle_roots[k].root_hash, Append(rows, row), merkle_roots[k].seq)
    <3>0. merkle_roots[k] \in Checkpoint
      BY <1>0
    <3>1. /\ Covers(merkle_roots[k].root_hash, rows, merkle_roots[k].seq)
          /\ merkle_roots[k].seq \in Nat /\ merkle_roots[k].root_hash \in Seq(Nat)
      BY <1>0, <3>0 DEF DbOK, RootsOK, Checkpoint
    <3>2. /\ Len(rows) <= Len(Append(rows, row))
          /\ \A s \in 1..Len(rows) : Append(rows, row)[s].id = rows[s].id
      BY <1>0, <1>2
    <3> QED BY <1>0, <1>2, <3>1, <3>2, CoversKept
  <2>2. /\ RootsOK(db) /\ db.roots = d.roots /\ db.roots = merkle_roots
    BY <1>0 DEF DbOK
  <2> QED BY <2>1, <2>2 DEF RootsOK
<1>6. KeyOK(d)
  BY <1>0 DEF DbOK, KeyOK
<1>7. Older(db, d)
  BY <1>0 DEF Older
<1>8. StoreInv' /\ db' = d
  <2>1. wal' = Append(wal, d) /\ sent' = sent
    BY DEF insert_entry, Commit
  <2> HIDE DEF d
  <2> QED BY <1>3, <1>4, <1>5, <1>6, <1>7, <2>1, CommitStep DEF DbOK, LedgerInv
<1>9. rows' = Append(rows, row) /\ latest_seq' = Len(Append(rows, row))
  BY <1>8 DEF rows, latest_seq
<1>10. ThreadInv'
  <2>1. Goto(t, "idle", 0) /\ nextId' = nextId /\ sent' = sent
    BY DEF insert_entry
  <2>2. nextId' \in Nat
    BY <2>1 DEF LedgerInv, ThreadInv
  <2>3. latest_seq <= latest_seq' /\ \A q \in 1..latest_seq : rows'[q].id = rows[q].id
    BY <1>0, <1>2, <1>9
  <2> QED BY <1>8, <2>1, <2>2, <2>3, ThreadsKept
<1> QED BY <1>7, <1>8, <1>10 DEF LedgerInv

\* The synced rows come first, so the last unsynced row is the last row.
LEMMA GetStep ==
    ASSUME LedgerInv, NEW t \in Thread, get_unsynced(t)
    PROVE  LedgerInv'
<1>0. /\ rows \in Seq(Row) /\ latest_seq \in Nat /\ latest_seq = Len(rows)
      /\ RowsOK(rows, sent)
  BY CurrentDb DEF LedgerInv, DbOK, rows, latest_seq
<1>1. latest_seq \in Unsynced
  <2>1. PICK s \in 1..latest_seq : ~rows[s].synced
    BY DEF get_unsynced, Unsynced
  <2>2. latest_seq \in 1..latest_seq /\ s \in 1..latest_seq
    BY <1>0, <2>1
  <2> QED BY <1>0, <2>1, <2>2 DEF RowsOK, Unsynced
<1>2. \A s \in Unsynced : s \in 1..latest_seq /\ s <= latest_seq
  BY <1>0 DEF Unsynced
<1>3. (CHOOSE s \in Unsynced : \A r \in Unsynced : r <= s) = latest_seq
  <2> DEFINE m == CHOOSE s \in Unsynced : \A r \in Unsynced : r <= s
  <2>1. \E s \in Unsynced : \A r \in Unsynced : r <= s
    BY <1>1, <1>2
  <2>2. m \in Unsynced /\ \A r \in Unsynced : r <= m
    BY <2>1
  <2> HIDE DEF m
  <2>3. m = latest_seq
    BY <1>0, <1>1, <1>2, <2>2
  <2> QED BY <2>3 DEF m
<1>4. \A q \in 1..latest_seq : rows[q].id \in sent'
  BY <1>0 DEF get_unsynced, RowsOK, Unsynced
<1>5. sent \subseteq sent' /\ wal' = wal /\ nextId' = nextId
  BY DEF get_unsynced
<1>6. db' = db /\ rows' = rows /\ latest_seq' = latest_seq
  BY <1>5 DEF db, rows, latest_seq
<1>7. StoreInv'
  <2>1. ASSUME NEW i \in 1..Len(wal) PROVE DbOK(wal[i], sent')
    BY <1>5 DEF LedgerInv, StoreInv, DbOK, RowsOK
  <2> QED BY <1>5, <1>6, <2>1 DEF LedgerInv, StoreInv
<1>8. ThreadInv'
  <2>1. Goto(t, "sending", latest_seq)
    BY <1>3 DEF get_unsynced
  <2>2. pc' \in [Thread -> PC] /\ DOMAIN local' = Thread /\ nextId' \in Nat
    BY <1>5, <2>1 DEF LedgerInv, ThreadInv, Goto, PC
  <2>3. ThreadOK(t)'
    BY <1>0, <1>4, <1>6, <2>1 DEF LedgerInv, ThreadInv, Goto, ThreadOK
  <2>4. ASSUME NEW u \in Thread, u # t PROVE ThreadOK(u)'
    <3>1. pc'[u] = pc[u] /\ local'[u] = local[u] /\ ThreadOK(u)
      BY <2>1, <2>4 DEF LedgerInv, ThreadInv, Goto
    <3> QED BY <1>5, <1>6, <3>1 DEF ThreadOK, Covers, Exact
  <2> QED BY <2>2, <2>3, <2>4 DEF ThreadInv
<1> QED BY <1>7, <1>8 DEF LedgerInv

LEMMA MarkStep ==
    ASSUME LedgerInv, NEW t \in Thread, mark_synced(t)
    PROVE  LedgerInv' /\ Older(db, db')
<1> DEFINE new == [s \in 1..latest_seq |-> [rows[s] EXCEPT !.synced = @ \/ s <= local[t]]]
           d == [rows |-> new, roots |-> merkle_roots]
<1>0. /\ rows \in Seq(Row) /\ merkle_roots \in Seq(Checkpoint) /\ latest_seq \in Nat
      /\ DbOK(db, sent) /\ latest_seq = Len(rows) /\ rows = db.rows /\ merkle_roots = db.roots
  BY CurrentDb DEF LedgerInv, rows, merkle_roots, latest_seq
<1>1. /\ local[t] \in Nat /\ local[t] <= latest_seq
      /\ \A q \in 1..local[t] : rows[q].id \in sent
  BY DEF LedgerInv, ThreadInv, ThreadOK, mark_synced
<1>2. ASSUME NEW s \in 1..latest_seq
      PROVE  new[s] \in Row /\ new[s].id = rows[s].id
             /\ (new[s].synced <=> rows[s].synced \/ s <= local[t])
  <2>1. rows[s] \in Row
    BY <1>0
  <2> QED BY <1>0, <1>1, <2>1 DEF Row
<1>3. new \in Seq(Row) /\ Len(new) = latest_seq
  <2>1. DOMAIN new = 1..latest_seq /\ new = [s \in 1..latest_seq |-> new[s]]
    OBVIOUS
  <2> HIDE DEF new
  <2>2. new \in [1..latest_seq -> Row]
    BY <1>2, <2>1
  <2> QED BY <1>0, <2>1, <2>2
<1>4. d \in Db
  BY <1>0, <1>3 DEF Db
<1>5. RowsOK(new, sent)
  <2> HIDE DEF new
  <2>1. ASSUME NEW s \in 1..latest_seq, new[s].synced
        PROVE  new[s].id \in sent /\ \A q \in 1..s : new[q].synced
    <3>1. CASE rows[s].synced
      BY <1>0, <1>2, <3>1 DEF DbOK, RowsOK
    <3>2. CASE s <= local[t]
      BY <1>0, <1>1, <1>2, <3>2
    <3> QED BY <1>2, <2>1, <3>1, <3>2
  <2> QED BY <1>3, <2>1 DEF RowsOK
<1>6. RootsOK(d)
  <2> HIDE DEF new
  <2>1. ASSUME NEW k \in 1..Len(merkle_roots)
        PROVE  Covers(merkle_roots[k].root_hash, new, merkle_roots[k].seq)
    <3>0. merkle_roots[k] \in Checkpoint
      BY <1>0
    <3>1. /\ Covers(merkle_roots[k].root_hash, rows, merkle_roots[k].seq)
          /\ merkle_roots[k].seq \in Nat /\ merkle_roots[k].root_hash \in Seq(Nat)
      BY <1>0, <3>0 DEF DbOK, RootsOK, Checkpoint
    <3>2. Len(rows) <= Len(new) /\ \A s \in 1..Len(rows) : new[s].id = rows[s].id
      BY <1>0, <1>2, <1>3
    <3> QED BY <1>0, <1>3, <3>1, <3>2, CoversKept
  <2>2. /\ RootsOK(db) /\ db.roots = d.roots /\ db.roots = merkle_roots
    BY <1>0 DEF DbOK
  <2> QED BY <2>1, <2>2 DEF RootsOK
<1>7. KeyOK(d)
  BY <1>0 DEF DbOK, KeyOK
<1>8. Older(db, d)
  BY <1>0 DEF Older
<1>9. StoreInv' /\ db' = d
  <2>1. wal' = Append(wal, d) /\ sent' = sent
    BY DEF mark_synced, SyncedUpTo, Commit
  <2>2. DbOK(d, sent)
    BY <1>5, <1>6, <1>7 DEF DbOK
  <2> HIDE DEF d
  <2> QED BY <1>4, <1>8, <2>1, <2>2, CommitStep DEF LedgerInv
<1>10. rows' = new /\ latest_seq' = latest_seq
  BY <1>3, <1>9 DEF rows, latest_seq
<1>11. ThreadInv'
  <2>1. Goto(t, "idle", 0) /\ nextId' = nextId /\ sent' = sent
    BY DEF mark_synced
  <2>2. nextId' \in Nat
    BY <2>1 DEF LedgerInv, ThreadInv
  <2>3. latest_seq <= latest_seq' /\ \A q \in 1..latest_seq : rows'[q].id = rows[q].id
    BY <1>0, <1>2, <1>10
  <2> QED BY <1>9, <2>1, <2>2, <2>3, ThreadsKept
<1> QED BY <1>8, <1>9, <1>11 DEF LedgerInv

LEMMA RecordStep ==
    ASSUME LedgerInv, NEW t \in Thread, record_entry(t)
    PROVE  LedgerInv'
<1>1. wal' = wal /\ sent' = sent /\ db' = db /\ rows' = rows /\ latest_seq' = latest_seq
  BY DEF record_entry, db, rows, latest_seq
<1>2. StoreInv'
  BY <1>1 DEF LedgerInv, StoreInv
<1>3. Goto(t, "insert", nextId) /\ nextId \in Nat /\ nextId' \in Nat
  BY DEF record_entry, LedgerInv, ThreadInv
<1>4. pc' \in [Thread -> PC] /\ DOMAIN local' = Thread
  BY <1>3 DEF LedgerInv, ThreadInv, Goto, PC
<1>5. ThreadOK(t)'
  BY <1>3 DEF LedgerInv, ThreadInv, Goto, ThreadOK
<1>6. ASSUME NEW u \in Thread, u # t PROVE ThreadOK(u)'
  <2>1. pc'[u] = pc[u] /\ local'[u] = local[u] /\ ThreadOK(u)
    BY <1>3, <1>6 DEF LedgerInv, ThreadInv, Goto
  <2> QED BY <1>1, <2>1 DEF ThreadOK, Covers, Exact
<1> QED BY <1>2, <1>3, <1>4, <1>5, <1>6 DEF LedgerInv, ThreadInv

LEMMA ComputeStep ==
    ASSUME LedgerInv, NEW t \in Thread, compute_merkle_root(t)
    PROVE  LedgerInv'
<1> DEFINE n == Limited(latest_seq)
           h == Ids(n)
<1>1. wal' = wal /\ sent' = sent /\ db' = db /\ rows' = rows /\ latest_seq' = latest_seq
      /\ nextId' = nextId
  BY DEF compute_merkle_root, db, rows, latest_seq
<1>2. StoreInv'
  BY <1>1 DEF LedgerInv, StoreInv
<1>3. Goto(t, "rooted", [root |-> h, seen |-> latest_seq])
  BY DEF compute_merkle_root
<1>4. pc' \in [Thread -> PC] /\ DOMAIN local' = Thread /\ nextId' \in Nat
  BY <1>1, <1>3 DEF LedgerInv, ThreadInv, Goto, PC
<1>5. /\ h \in Seq(Nat) /\ latest_seq \in Nat
      /\ Covers(h, rows, latest_seq) /\ Exact(h, latest_seq, latest_seq)
  <2>1. rows \in Seq(Row) /\ latest_seq \in Nat /\ latest_seq = Len(rows)
    BY CurrentDb DEF LedgerInv, latest_seq
  <2>2. n \in Nat /\ n <= latest_seq
    BY <2>1 DEF Limited
  <2> HIDE DEF n
  <2>3. DOMAIN h = 1..n /\ h = [s \in 1..n |-> h[s]] /\ \A s \in 1..n : h[s] = rows[s].id
    BY DEF Ids
  <2> HIDE DEF h
  <2>4. \A s \in 1..n : h[s] \in Nat
    <3>1. ASSUME NEW s \in 1..n PROVE h[s] \in Nat
      <4>1. rows[s] \in Row
        BY <2>1, <2>2
      <4> QED BY <2>3, <4>1 DEF Row
    <3> QED BY <3>1
  <2>5. h \in [1..n -> Nat]
    BY <2>3, <2>4
  <2>6. h \in Seq(Nat) /\ Len(h) = n
    BY <2>2, <2>3, <2>5
  <2> QED BY <2>1, <2>2, <2>3, <2>6 DEF Covers, Exact, n
<1> HIDE DEF h
<1>6. ThreadOK(t)'
  BY <1>1, <1>3, <1>5 DEF LedgerInv, ThreadInv, Goto, ThreadOK, Covers, Exact
<1>7. ASSUME NEW u \in Thread, u # t PROVE ThreadOK(u)'
  <2>1. pc'[u] = pc[u] /\ local'[u] = local[u] /\ ThreadOK(u)
    BY <1>3, <1>7 DEF LedgerInv, ThreadInv, Goto
  <2> QED BY <1>1, <2>1 DEF ThreadOK, Covers, Exact
<1> QED BY <1>2, <1>4, <1>6, <1>7 DEF LedgerInv, ThreadInv

LEMMA StoreStep ==
    ASSUME LedgerInv, NEW t \in Thread, store_merkle_checkpoint(t)
    PROVE  LedgerInv' /\ Older(db, db')
<1> DEFINE c == Checkpointed(t, latest_seq)
           new == Append(merkle_roots, c)
           d == [rows |-> rows, roots |-> new]
           n == Len(merkle_roots)
<1>0. /\ rows \in Seq(Row) /\ merkle_roots \in Seq(Checkpoint) /\ latest_seq \in Nat
      /\ DbOK(db, sent) /\ latest_seq = Len(rows) /\ rows = db.rows /\ merkle_roots = db.roots
  BY CurrentDb DEF LedgerInv, rows, merkle_roots, latest_seq
<1>1. /\ local[t].root \in Seq(Nat) /\ local[t].seen \in Nat
      /\ Covers(local[t].root, rows, latest_seq)
      /\ Exact(local[t].root, local[t].seen, latest_seq)
  BY DEF LedgerInv, ThreadInv, ThreadOK, store_merkle_checkpoint
<1>2. Goto(t, "idle", 0) /\ nextId' = nextId /\ sent' = sent /\ nextId' \in Nat
  BY DEF store_merkle_checkpoint, LedgerInv, ThreadInv
<1>3. StoreInv' /\ rows' = rows /\ Older(db, db')
  <2>1. CASE latest_seq \in {r.seq : r \in Range(merkle_roots)}
    <3>1. wal' = wal
      BY <2>1 DEF store_merkle_checkpoint
    <3>2. db' = db /\ rows' = rows
      BY <3>1 DEF db, rows
    <3>3. StoreInv'
      BY <1>2, <3>1, <3>2 DEF LedgerInv, StoreInv
    <3> QED BY <1>0, <3>2, <3>3 DEF Older
  <2>2. CASE latest_seq \notin {r.seq : r \in Range(merkle_roots)}
    <3>1. wal' = Append(wal, d)
      BY <2>2 DEF store_merkle_checkpoint, Commit
    <3>2. c \in Checkpoint
      BY <1>0, <1>1 DEF Checkpoint, Checkpointed
    <3>3. /\ new \in Seq(Checkpoint) /\ n \in Nat /\ Len(new) = n + 1 /\ new[n + 1] = c
          /\ \A k \in 1..n : new[k] = merkle_roots[k]
      BY <1>0, <3>2
    <3>4. \A k \in 1..Len(new) : k = n + 1 \/ k \in 1..n
      BY <3>3
    <3>5. \A k \in 1..n : merkle_roots[k].seq # latest_seq
      BY <1>0, <2>2 DEF Range
    <3>6. RootsOK(d)
      <4> HIDE DEF new
      <4> DEFINE Good(x) == /\ Covers(x.root_hash, rows, x.seq)
                            /\ Exact(x.root_hash, x.seen, x.seq)
                            /\ x.entry_count = x.seq
      <4>1. \A k \in 1..n : Good(merkle_roots[k])
        BY <1>0 DEF DbOK, RootsOK
      <4>2. Good(c)
        BY <1>1 DEF Checkpointed
      <4>3. \A k \in 1..Len(new) : Good(new[k])
        BY <3>3, <3>4, <4>1, <4>2
      <4> QED BY <4>3 DEF RootsOK
    <3>7. KeyOK(d)
      <4>1. \A k, m \in 1..n : merkle_roots[k].seq = merkle_roots[m].seq => k = m
        BY <1>0 DEF DbOK, KeyOK
      <4>2. c.seq = latest_seq
        BY DEF Checkpointed
      <4> HIDE DEF new, c
      <4>3. \A k, m \in 1..Len(new) : new[k].seq = new[m].seq => k = m
        BY <3>3, <3>4, <3>5, <4>1, <4>2
      <4> QED BY <4>3 DEF KeyOK
    <3>8. Older(db, d)
      <4> HIDE DEF new
      <4> QED BY <1>0, <3>3 DEF Older
    <3>9. d \in Db
      BY <1>0, <3>3 DEF Db
    <3>10. DbOK(d, sent)
      BY <1>0, <3>6, <3>7 DEF DbOK
    <3>11. d.rows = rows
      OBVIOUS
    <3> HIDE DEF d
    <3>12. StoreInv' /\ db' = d
      BY <1>2, <3>1, <3>8, <3>9, <3>10, CommitStep DEF LedgerInv
    <3> QED BY <3>8, <3>11, <3>12 DEF rows
  <2> QED BY <2>1, <2>2
<1>4. latest_seq' = latest_seq
  BY <1>3 DEF latest_seq
<1>5. ThreadInv'
  BY <1>0, <1>2, <1>3, <1>4, ThreadsKept
<1> QED BY <1>3, <1>5 DEF LedgerInv

\* The log is cut down to one of the states it holds.
LEMMA CutStep ==
    ASSUME StoreInv, NEW n \in 1..Len(wal), wal' = <<wal[n]>>, sent' = sent
    PROVE  StoreInv' /\ db' = wal[n] /\ Older(db', db)
<1>1. wal[n] \in Db /\ DbOK(wal[n], sent) /\ Older(wal[n], db)
  BY DEF StoreInv
<1>2. wal' \in Seq(Db) /\ Len(wal') = 1 /\ wal'[1] = wal[n] /\ wal' # <<>>
  BY <1>1
<1>3. db' = wal[n]
  BY <1>2 DEF db, Last
<1>4. Older(wal[n], wal[n])
  BY <1>1 DEF Older, Db
<1> QED BY <1>1, <1>2, <1>3, <1>4 DEF StoreInv

LEMMA IdleThreads ==
    ASSUME pc' = [t \in Thread |-> "idle"], local' = [t \in Thread |-> 0], nextId' \in Nat
    PROVE  ThreadInv'
BY DEF ThreadInv, ThreadOK, PC

LEMMA MachineStep ==
    ASSUME LedgerInv, SyncWal \/ Restart \/ PowerLoss
    PROVE  LedgerInv' /\ Older(db', db)
<1>0. /\ Len(wal) \in Nat \ {0} /\ db = wal[Len(wal)] /\ db \in Db /\ StoreInv
      /\ nextId' = nextId /\ nextId' \in Nat /\ sent' = sent
  BY CurrentDb DEF LedgerInv, ThreadInv, SyncWal, Restart, PowerLoss
<1>1. CASE SyncWal
  <2>1. wal' = <<wal[Len(wal)]>> /\ Len(wal) \in 1..Len(wal)
    BY <1>0, <1>1 DEF SyncWal
  <2>2. StoreInv' /\ db' = db /\ Older(db', db)
    BY <1>0, <2>1, CutStep
  <2>3. rows' = rows /\ latest_seq' = latest_seq
    BY <2>2 DEF rows, latest_seq
  <2>4. ThreadInv'
    BY <1>0, <1>1, <2>3 DEF LedgerInv, ThreadInv, ThreadOK, Covers, Exact, SyncWal
  <2> QED BY <2>2, <2>4 DEF LedgerInv
<1>2. CASE Restart
  <2>1. wal' = wal /\ ThreadInv'
    BY <1>0, <1>2, IdleThreads DEF Restart
  <2>2. db' = db
    BY <2>1 DEF db
  <2>3. StoreInv'
    BY <1>0, <2>1, <2>2 DEF StoreInv
  <2> QED BY <1>0, <2>1, <2>2, <2>3 DEF LedgerInv, Older, Db
<1>3. CASE PowerLoss
  <2>1. PICK n \in 1..Len(wal) : wal' = <<wal[n]>>
    BY <1>3 DEF PowerLoss
  <2>2. StoreInv' /\ Older(db', db)
    BY <1>0, <2>1, CutStep
  <2>3. ThreadInv'
    BY <1>0, <1>3, IdleThreads DEF PowerLoss
  <2> QED BY <2>2, <2>3 DEF LedgerInv
<1> QED BY <1>1, <1>2, <1>3

-----------------------------------------------------------------------------
(* The theorems *)

LEMMA InitOK == ASSUME Init PROVE LedgerInv
<1> DEFINE d == [rows |-> <<>>, roots |-> <<>>]
<1>1. d \in Db /\ d.rows = <<>> /\ d.roots = <<>>
  BY DEF Db
<1>2. wal = <<d>>
  BY DEF Init
<1> HIDE DEF d
<1>3. wal \in Seq(Db) /\ wal # <<>> /\ Len(wal) = 1 /\ wal[1] = d /\ db = d
  BY <1>1, <1>2 DEF db, Last
<1>4. DbOK(d, sent) /\ Older(d, d)
  BY <1>1 DEF DbOK, RowsOK, RootsOK, KeyOK, Older
<1>5. StoreInv
  BY <1>3, <1>4 DEF StoreInv
<1>6. ThreadInv
  BY DEF Init, ThreadInv, ThreadOK, PC
<1> QED BY <1>5, <1>6 DEF LedgerInv

\* A step keeps the invariant, and only adds checkpoints or takes the last ones
\* back.
LEMMA NextOK ==
    ASSUME LedgerInv, [Next]_vars
    PROVE  LedgerInv' /\ (Older(db, db') \/ Older(db', db))
<1>0. db \in Db
  BY CurrentDb DEF LedgerInv
<1>1. ASSUME wal' = wal PROVE Older(db, db')
  BY <1>0, <1>1 DEF db, Older, Db
<1>2. ASSUME NEW t \in Thread,
             record_entry(t) \/ get_unsynced(t) \/ compute_merkle_root(t)
      PROVE  LedgerInv' /\ Older(db, db')
  <2>1. wal' = wal
    BY <1>2 DEF record_entry, get_unsynced, compute_merkle_root
  <2> QED BY <1>1, <1>2, <2>1, RecordStep, GetStep, ComputeStep
<1>3. ASSUME NEW t \in Thread,
             insert_entry(t) \/ mark_synced(t) \/ store_merkle_checkpoint(t)
      PROVE  LedgerInv' /\ Older(db, db')
  BY <1>3, InsertStep, MarkStep, StoreStep
<1>4. CASE UNCHANGED vars
  <2>1. wal' = wal /\ sent' = sent /\ pc' = pc /\ local' = local /\ nextId' = nextId
    BY <1>4 DEF vars
  <2>2. db' = db /\ rows' = rows /\ latest_seq' = latest_seq
    BY <2>1 DEF db, rows, latest_seq
  <2>3. StoreInv' /\ ThreadInv'
    BY <2>1, <2>2 DEF LedgerInv, StoreInv, ThreadInv, ThreadOK, Covers
  <2> QED BY <1>1, <2>1, <2>3 DEF LedgerInv
<1> QED BY <1>2, <1>3, <1>4, MachineStep DEF Next

\* Every state the log could be cut down to, and what each thread remembers, is in
\* order, whatever threads, restarts and power losses do.
THEOREM InductiveInvariant == Spec => []LedgerInv
<1>1. Init => LedgerInv
  BY InitOK
<1>2. LedgerInv /\ [Next]_vars => LedgerInv'
  BY NextOK
<1> QED BY <1>1, <1>2, PTL DEF Spec

\* mark_synced marks nothing that get_unsynced did not hand out.
THEOREM SyncSafe == Spec => []SyncedWereSent
<1>1. LedgerInv => SyncedWereSent
  <2> SUFFICES ASSUME LedgerInv PROVE SyncedWereSent
    OBVIOUS
  <2>1. RowsOK(rows, sent)
    BY CurrentDb DEF LedgerInv, DbOK, rows
  <2> QED BY <2>1 DEF SyncedWereSent, RowsOK, latest_seq
<1> QED BY <1>1, InductiveInvariant, PTL

\* The root of a checkpoint is that of the entries that were there when it was
\* computed, up to the limit, and it counts no fewer than these.
THEOREM CheckpointsSafe == Spec => []CheckpointsCoverPrefix
<1>1. LedgerInv => CheckpointsCoverPrefix
  <2> SUFFICES ASSUME LedgerInv, NEW c \in Range(merkle_roots)
               PROVE  /\ c.seen <= c.entry_count /\ c.entry_count <= latest_seq
                      /\ c.root_hash = Ids(Limited(c.seen))
    BY DEF CheckpointsCoverPrefix
  <2>1. /\ rows \in Seq(Row) /\ merkle_roots \in Seq(Checkpoint)
        /\ RootsOK(db) /\ rows = db.rows /\ merkle_roots = db.roots /\ latest_seq = Len(rows)
    BY CurrentDb DEF LedgerInv, DbOK, rows, merkle_roots, latest_seq
  <2>2. PICK k \in 1..Len(merkle_roots) : c = merkle_roots[k]
    BY <2>1 DEF Range
  <2>3. /\ c \in Checkpoint /\ Covers(c.root_hash, rows, c.seq)
        /\ Exact(c.root_hash, c.seen, c.seq) /\ c.entry_count = c.seq
    BY <2>1, <2>2 DEF RootsOK
  <2>4. c.root_hash \in Seq(Nat)
    BY <2>3 DEF Checkpoint
  <2>5. c.root_hash = [i \in 1..Len(c.root_hash) |-> c.root_hash[i]]
    BY <2>4
  <2>6. c.root_hash = Ids(Len(c.root_hash))
    BY <2>3, <2>5 DEF Covers, Ids
  <2> QED BY <2>1, <2>3, <2>6 DEF Covers, Exact
<1> QED BY <1>1, InductiveInvariant, PTL

\* store_merkle_checkpoint never replaces a checkpoint: seq is a primary key, and
\* a power loss only takes the last ones back.
THEOREM CheckpointsKept == Spec => CheckpointsImmutable
<1>1. LedgerInv /\ [Next]_vars =>
        [\A c \in Range(merkle_roots), d \in Range(merkle_roots)' :
            c.seq = d.seq => c = d]_vars
  <2> SUFFICES ASSUME LedgerInv, [Next]_vars,
                      NEW c \in Range(merkle_roots), NEW d \in Range(merkle_roots)',
                      c.seq = d.seq
               PROVE  c = d
    OBVIOUS
  <2>1. StoreInv /\ StoreInv' /\ (Older(db, db') \/ Older(db', db))
    BY NextOK DEF LedgerInv
  <2>2. /\ merkle_roots \in Seq(Checkpoint) /\ KeyOK(db) /\ merkle_roots = db.roots
    BY <2>1, CurrentDb DEF DbOK, merkle_roots
  <2>3. /\ merkle_roots' \in Seq(Checkpoint) /\ KeyOK(db') /\ merkle_roots' = db'.roots
    <3>1. Len(wal') \in Nat \ {0} /\ wal' \in Seq(Db) /\ db' = wal'[Len(wal')]
      BY <2>1 DEF StoreInv, db, Last
    <3>2. db' \in Db /\ KeyOK(db')
      BY <2>1, <3>1 DEF StoreInv, DbOK
    <3> QED BY <3>2 DEF Db, merkle_roots
  <2>4. PICK k \in 1..Len(merkle_roots) : c = merkle_roots[k]
    BY <2>2 DEF Range
  <2>5. PICK m \in 1..Len(merkle_roots') : d = merkle_roots'[m]
    BY <2>3 DEF Range
  <2>6. CASE Older(db, db')
    <3>1. k \in 1..Len(merkle_roots') /\ merkle_roots'[k] = c
      BY <2>2, <2>3, <2>4, <2>6 DEF Older
    <3> QED BY <2>3, <2>5, <3>1 DEF KeyOK
  <2>7. CASE Older(db', db)
    <3>1. m \in 1..Len(merkle_roots) /\ merkle_roots[m] = d
      BY <2>2, <2>3, <2>5, <2>7 DEF Older
    <3> QED BY <2>2, <2>4, <3>1 DEF KeyOK
  <2> QED BY <2>1, <2>6, <2>7
<1> QED BY <1>1, InductiveInvariant, PTL DEF Spec, CheckpointsImmutable
-----------------------------------------------------------------------------
(* Ids are unique *)

\* Ids were given out before, and no two rows share one.
IdsOK(r, n) ==
    /\ \A s \in 1..Len(r) : r[s].id < n
    /\ \A s, q \in 1..Len(r) : r[s].id = r[q].id => s = q

SameIds(r, q) == Len(r) = Len(q) /\ \A s \in 1..Len(r) : r[s].id = q[s].id

\* An id that a thread made and has not inserted yet is in no state of the log,
\* and no other thread has it.
IdInv ==
    /\ \A i \in 1..Len(wal) : IdsOK(wal[i].rows, nextId)
    /\ \A t \in Thread : pc[t] = "insert" =>
         /\ local[t] < nextId
         /\ \A i \in 1..Len(wal) : \A s \in 1..Len(wal[i].rows) :
              wal[i].rows[s].id # local[t]
    /\ \A t, u \in Thread :
         pc[t] = "insert" /\ pc[u] = "insert" /\ local[t] = local[u] => t = u
    /\ losses \in Nat

LEMMA RowsTyped ==
    ASSUME StoreInv, NEW i \in 1..Len(wal)
    PROVE  /\ wal[i] \in Db /\ wal[i].rows \in Seq(Row) /\ Len(wal[i].rows) \in Nat
           /\ \A s \in 1..Len(wal[i].rows) : wal[i].rows[s] \in Row /\ wal[i].rows[s].id \in Nat
<1>0. wal[i] \in Db
  BY DEF StoreInv
<1>1. wal[i] \in Db /\ wal[i].rows \in Seq(Row)
  BY <1>0 DEF Db
<1>2. \A s \in 1..Len(wal[i].rows) : wal[i].rows[s] \in Row
  BY <1>1
<1> QED BY <1>1, <1>2 DEF Row

\* A step that makes no id and inserts none: every state in the log has the ids
\* of one that was there.
LEMMA IdsKept ==
    ASSUME IdInv, nextId' = nextId, losses' \in Nat,
           \A i \in 1..Len(wal') : \E j \in 1..Len(wal) : SameIds(wal'[i].rows, wal[j].rows),
           \A t \in Thread : pc'[t] = "insert" => pc[t] = "insert" /\ local'[t] = local[t]
    PROVE  IdInv'
<1>1. ASSUME NEW i \in 1..Len(wal')
      PROVE  /\ IdsOK(wal'[i].rows, nextId)
             /\ \A t \in Thread : pc[t] = "insert" =>
                  \A s \in 1..Len(wal'[i].rows) : wal'[i].rows[s].id # local[t]
  <2>1. PICK j \in 1..Len(wal) : SameIds(wal'[i].rows, wal[j].rows)
    OBVIOUS
  <2>2. IdsOK(wal[j].rows, nextId)
    BY DEF IdInv
  <2>3. IdsOK(wal'[i].rows, nextId)
    BY <2>1, <2>2 DEF IdsOK, SameIds
  <2>4. ASSUME NEW t \in Thread, pc[t] = "insert", NEW s \in 1..Len(wal'[i].rows)
        PROVE  wal'[i].rows[s].id # local[t]
    BY <2>1, <2>4 DEF SameIds, IdInv
  <2> QED BY <2>3, <2>4
<1>2. \A i \in 1..Len(wal') : IdsOK(wal'[i].rows, nextId')
  BY <1>1
<1>3. ASSUME NEW t \in Thread, pc'[t] = "insert"
      PROVE  /\ local'[t] < nextId'
             /\ \A i \in 1..Len(wal') : \A s \in 1..Len(wal'[i].rows) :
                  wal'[i].rows[s].id # local'[t]
  <2>1. pc[t] = "insert" /\ local'[t] = local[t]
    BY <1>3
  <2> QED BY <1>1, <2>1 DEF IdInv
<1>4. \A t, u \in Thread :
        pc'[t] = "insert" /\ pc'[u] = "insert" /\ local'[t] = local'[u] => t = u
  BY DEF IdInv
<1> QED BY <1>2, <1>3, <1>4 DEF IdInv

\* The states of the log after a commit.
LEMMA CommitIds ==
    ASSUME StoreInv, NEW r, NEW k, Commit(r, k)
    PROVE  /\ \A i \in 1..Len(wal') : \/ i \in 1..Len(wal) /\ wal'[i] = wal[i]
                                     \/ wal'[i].rows = r
           /\ Len(wal) \in 1..Len(wal) /\ wal[Len(wal)].rows = rows
<1>1. wal \in Seq(Db) /\ Len(wal) \in Nat \ {0} /\ db = wal[Len(wal)]
  BY CurrentDb DEF StoreInv
<1> DEFINE d == [rows |-> r, roots |-> k]
<1>2. wal' = Append(wal, d) /\ d.rows = r
  BY DEF Commit
<1> HIDE DEF d
<1>3. Len(wal') = Len(wal) + 1 /\ wal'[Len(wal) + 1] = d
      /\ \A i \in 1..Len(wal) : wal'[i] = wal[i]
  BY <1>1, <1>2
<1> QED BY <1>1, <1>2, <1>3 DEF rows

LEMMA RecordIds ==
    ASSUME LedgerInv, IdInv, NEW t \in Thread, record_entry(t)
    PROVE  IdInv'
<1>1. /\ nextId' = nextId + 1 /\ wal' = wal /\ losses' = losses /\ nextId \in Nat
      /\ pc'[t] = "insert" /\ local'[t] = nextId
      /\ \A u \in Thread \ {t} : pc'[u] = pc[u] /\ local'[u] = local[u]
  BY DEF record_entry, Goto, LedgerInv, ThreadInv
<1>2. ASSUME NEW i \in 1..Len(wal)
      PROVE  IdsOK(wal[i].rows, nextId')
             /\ \A s \in 1..Len(wal[i].rows) : wal[i].rows[s].id # nextId
  <2>1. IdsOK(wal[i].rows, nextId)
    BY DEF IdInv
  <2>2. \A s \in 1..Len(wal[i].rows) : wal[i].rows[s].id \in Nat
    BY RowsTyped DEF LedgerInv
  <2>3. \A s \in 1..Len(wal[i].rows) : wal[i].rows[s].id < nextId
    BY <2>1 DEF IdsOK
  <2>4. \A s \in 1..Len(wal[i].rows) : wal[i].rows[s].id < nextId' /\ wal[i].rows[s].id # nextId
    BY <1>1, <2>2, <2>3
  <2> QED BY <2>1, <2>4 DEF IdsOK
<1>3. ASSUME NEW u \in Thread, pc'[u] = "insert"
      PROVE  /\ local'[u] < nextId'
             /\ \A i \in 1..Len(wal) : \A s \in 1..Len(wal[i].rows) :
                  wal[i].rows[s].id # local'[u]
             /\ u # t => local'[u] # local'[t]
  <2>1. CASE u = t
    BY <1>1, <1>2, <2>1
  <2>2. CASE u # t
    <3>1. pc[u] = "insert" /\ local'[u] = local[u] /\ local[u] \in Nat /\ local[u] < nextId
      BY <1>1, <1>3, <2>2 DEF LedgerInv, ThreadInv, ThreadOK, IdInv
    <3>2. local'[u] < nextId' /\ local'[u] # local'[t]
      BY <1>1, <3>1
    <3> QED BY <3>1, <3>2 DEF IdInv
  <2> QED BY <2>1, <2>2
<1>4. ASSUME NEW u \in Thread, NEW v \in Thread, pc'[u] = "insert", pc'[v] = "insert",
             local'[u] = local'[v]
      PROVE  u = v
  <2>1. CASE u = t \/ v = t
    BY <1>3, <1>4, <2>1
  <2>2. CASE u # t /\ v # t
    BY <1>1, <1>4, <2>2 DEF IdInv
  <2> QED BY <2>1, <2>2
<1> QED BY <1>1, <1>2, <1>3, <1>4 DEF IdInv

LEMMA InsertIds ==
    ASSUME LedgerInv, IdInv, NEW t \in Thread, insert_entry(t)
    PROVE  IdInv'
<1> DEFINE e == [id |-> local[t], synced |-> FALSE]
           r == Append(rows, e)
<1>0. StoreInv
  BY DEF LedgerInv
<1>1. /\ pc[t] = "insert" /\ nextId' = nextId /\ losses' = losses
      /\ pc'[t] = "idle" /\ Commit(r, merkle_roots)
      /\ \A u \in Thread \ {t} : pc'[u] = pc[u] /\ local'[u] = local[u]
  BY DEF insert_entry, Goto, LedgerInv, ThreadInv
<1>2. e \in Row /\ e.id = local[t]
  BY <1>1 DEF LedgerInv, ThreadInv, ThreadOK, Row
<1>3. rows \in Seq(Row) /\ Len(rows) \in Nat
  BY <1>0, CurrentDb
<1> HIDE DEF e
<1>4. /\ Len(r) = Len(rows) + 1 /\ r[Len(rows) + 1].id = local[t]
      /\ \A s \in 1..Len(rows) : r[s] = rows[s]
  BY <1>2, <1>3
<1> HIDE DEF r
<1>5. /\ \A i \in 1..Len(wal') : (i \in 1..Len(wal) /\ wal'[i] = wal[i]) \/ wal'[i].rows = r
      /\ Len(wal) \in 1..Len(wal) /\ wal[Len(wal)].rows = rows
  BY <1>0, <1>1, CommitIds
<1>6. /\ IdsOK(rows, nextId) /\ local[t] < nextId
      /\ \A s \in 1..Len(rows) : rows[s].id # local[t]
  BY <1>1, <1>5 DEF IdInv
<1>7. IdsOK(r, nextId)
  <2>1. \A s \in 1..Len(r) : s \in 1..Len(rows) \/ s = Len(rows) + 1
    BY <1>3, <1>4
  <2> QED BY <1>4, <1>6, <2>1 DEF IdsOK
<1>8. ASSUME NEW u \in Thread, pc'[u] = "insert"
      PROVE  /\ pc[u] = "insert" /\ local'[u] = local[u] /\ local[u] < nextId
             /\ \A s \in 1..Len(r) : r[s].id # local[u]
  <2>1. u # t /\ pc[u] = "insert" /\ local'[u] = local[u]
    BY <1>1, <1>8
  <2>2. /\ local[u] # local[t] /\ local[u] < nextId
        /\ \A s \in 1..Len(rows) : rows[s].id # local[u]
    BY <1>1, <1>5, <2>1 DEF IdInv
  <2>3. \A s \in 1..Len(r) : s \in 1..Len(rows) \/ s = Len(rows) + 1
    BY <1>3, <1>4
  <2> QED BY <1>4, <2>1, <2>2, <2>3
<1>9. \A i \in 1..Len(wal') : IdsOK(wal'[i].rows, nextId')
  BY <1>1, <1>5, <1>7 DEF IdInv
<1>10. ASSUME NEW u \in Thread, pc'[u] = "insert",
              NEW i \in 1..Len(wal'), NEW s \in 1..Len(wal'[i].rows)
       PROVE  wal'[i].rows[s].id # local'[u]
  <2>1. CASE i \in 1..Len(wal) /\ wal'[i] = wal[i]
    BY <1>8, <1>10, <2>1 DEF IdInv
  <2>2. CASE wal'[i].rows = r
    BY <1>8, <1>10, <2>2
  <2> QED BY <1>5, <2>1, <2>2
<1>11. \A u, v \in Thread :
         pc'[u] = "insert" /\ pc'[v] = "insert" /\ local'[u] = local'[v] => u = v
  BY <1>8 DEF IdInv
<1> QED BY <1>1, <1>8, <1>9, <1>10, <1>11 DEF IdInv

LEMMA NextIds ==
    ASSUME LedgerInv, IdInv, [Next]_vars
    PROVE  IdInv'
<1>0. /\ StoreInv /\ pc \in [Thread -> PC] /\ DOMAIN local = Thread
      /\ wal \in Seq(Db) /\ Len(wal) \in Nat \ {0} /\ db = wal[Len(wal)]
  BY CurrentDb DEF LedgerInv, StoreInv, ThreadInv
<1>s. \A r : SameIds(r, r)
  BY DEF SameIds
<1>l. losses \in Nat
  BY DEF IdInv
<1>1. ASSUME NEW t \in Thread, get_unsynced(t) \/ compute_merkle_root(t) PROVE IdInv'
  <2>1. /\ wal' = wal /\ nextId' = nextId /\ losses' = losses
        /\ pc'[t] # "insert"
        /\ \A u \in Thread \ {t} : pc'[u] = pc[u] /\ local'[u] = local[u]
    BY <1>0, <1>1 DEF get_unsynced, compute_merkle_root, Goto
  <2> QED BY <1>s, <1>l, <2>1, IdsKept
<1>2. ASSUME NEW t \in Thread, NEW r, NEW k, Commit(r, k), SameIds(r, rows),
             nextId' = nextId, losses' = losses, Goto(t, "idle", 0)
      PROVE  IdInv'
  <2>1. /\ pc'[t] # "insert"
        /\ \A u \in Thread \ {t} : pc'[u] = pc[u] /\ local'[u] = local[u]
    BY <1>0, <1>2 DEF Goto
  <2>2. ASSUME NEW i \in 1..Len(wal')
        PROVE  \E j \in 1..Len(wal) : SameIds(wal'[i].rows, wal[j].rows)
    <3>1. /\ (i \in 1..Len(wal) /\ wal'[i] = wal[i]) \/ wal'[i].rows = r
          /\ Len(wal) \in 1..Len(wal) /\ wal[Len(wal)].rows = rows
      BY <1>0, <1>2, CommitIds
    <3> QED BY <1>s, <1>2, <3>1
  <2> QED BY <1>2, <1>l, <2>1, <2>2, IdsKept
<1>3. ASSUME NEW t \in Thread, mark_synced(t) PROVE IdInv'
  <2>1. SameIds(SyncedUpTo(local[t]), rows)
    <3>1. rows \in Seq(Row) /\ latest_seq = Len(rows) /\ Len(rows) \in Nat
      BY <1>0, CurrentDb DEF latest_seq
    <3>2. DOMAIN SyncedUpTo(local[t]) = 1..Len(rows)
      BY <3>1 DEF SyncedUpTo
    <3>3. Len(SyncedUpTo(local[t])) = Len(rows)
      BY <3>1, <3>2 DEF SyncedUpTo
    <3>4. ASSUME NEW s \in 1..Len(rows) PROVE SyncedUpTo(local[t])[s].id = rows[s].id
      <4>1. rows[s] \in Row
        BY <3>1
      <4> QED BY <3>1, <4>1 DEF SyncedUpTo, Row
    <3> QED BY <3>3, <3>4 DEF SameIds
  <2> QED BY <1>2, <1>3, <2>1 DEF mark_synced
<1>4. ASSUME NEW t \in Thread, store_merkle_checkpoint(t) PROVE IdInv'
  <2>1. CASE UNCHANGED wal
    <3>1. /\ pc'[t] # "insert" /\ nextId' = nextId /\ losses' = losses
          /\ \A u \in Thread \ {t} : pc'[u] = pc[u] /\ local'[u] = local[u]
      BY <1>0, <1>4 DEF store_merkle_checkpoint, Goto
    <3> QED BY <1>s, <1>l, <2>1, <3>1, IdsKept
  <2>2. CASE \E k : Commit(rows, k)
    BY <1>s, <1>2, <1>4, <2>2 DEF store_merkle_checkpoint
  <2> QED BY <1>4, <2>1, <2>2 DEF store_merkle_checkpoint
<1>5. CASE SyncWal \/ Restart \/ PowerLoss \/ UNCHANGED vars
  <2>1. nextId' = nextId /\ losses' \in Nat
    BY <1>l, <1>5 DEF SyncWal, Restart, PowerLoss, vars
  <2>2. \A t \in Thread : pc'[t] = "insert" => pc[t] = "insert" /\ local'[t] = local[t]
    BY <1>5 DEF SyncWal, Restart, PowerLoss, vars
  <2>3. wal' = wal \/ \E n \in 1..Len(wal) : wal' = <<wal[n]>>
    BY <1>0, <1>5 DEF SyncWal, Restart, PowerLoss, vars
  <2>4. \A i \in 1..Len(wal') : \E j \in 1..Len(wal) : wal'[i] = wal[j]
    <3>1. CASE wal' = wal
      BY <3>1
    <3>2. ASSUME NEW n \in 1..Len(wal), wal' = <<wal[n]>>
          PROVE  \A i \in 1..Len(wal') : \E j \in 1..Len(wal) : wal'[i] = wal[j]
      BY <3>2
    <3> QED BY <2>3, <3>1, <3>2
  <2> QED BY <1>s, <2>1, <2>2, <2>4, IdsKept
<1> QED BY <1>1, <1>3, <1>4, <1>5, RecordIds, InsertIds DEF Next

\* record_entry, restarts and power losses never give two rows the same id, and
\* store_merkle_checkpoint no two checkpoints the same number, in any state that
\* the log could be cut down to.
THEOREM TypeCorrect == Spec => []TypeOK
<1>1. Init => IdInv
  BY DEF Init, IdInv, IdsOK
<1>2. LedgerInv /\ IdInv /\ [Next]_vars => IdInv'
  BY NextIds
<1>3. LedgerInv /\ IdInv => TypeOK
  <2> SUFFICES ASSUME LedgerInv, IdInv PROVE TypeOK
    OBVIOUS
  <2>1. ASSUME NEW i \in 1..Len(wal)
        PROVE  /\ \A s \in 1..Len(wal[i].rows) : wal[i].rows[s] \in Row
               /\ \A c \in Range(wal[i].roots) :
                    c.seq \in Nat /\ \A s \in 1..Len(c.root_hash) : c.root_hash[s] \in Nat
               /\ IsInjective([s \in 1..Len(wal[i].rows) |-> wal[i].rows[s].id])
               /\ IsInjective([c \in 1..Len(wal[i].roots) |-> wal[i].roots[c].seq])
    <3>1. wal[i].roots \in Seq(Checkpoint) /\ KeyOK(wal[i])
      BY RowsTyped DEF Db, LedgerInv, StoreInv, DbOK
    <3>2. ASSUME NEW c \in Range(wal[i].roots)
          PROVE  c.seq \in Nat /\ \A s \in 1..Len(c.root_hash) : c.root_hash[s] \in Nat
      <4>1. c \in Checkpoint
        BY <3>1 DEF Range
      <4>2. c.seq \in Nat /\ c.root_hash \in Seq(Nat)
        BY <4>1 DEF Checkpoint
      <4> QED BY <4>2
    <3>3. IsInjective([c \in 1..Len(wal[i].roots) |-> wal[i].roots[c].seq])
      BY <3>1 DEF IsInjective, KeyOK
    <3>4. IsInjective([s \in 1..Len(wal[i].rows) |-> wal[i].rows[s].id])
      BY DEF IsInjective, IdInv, IdsOK
    <3> QED BY <3>2, <3>3, <3>4, RowsTyped DEF LedgerInv
  <2>2. wal # <<>> /\ pc \in [Thread -> PC] /\ nextId \in Nat /\ losses \in Nat
    BY DEF LedgerInv, StoreInv, ThreadInv, IdInv
  <2> QED BY <2>1, <2>2 DEF TypeOK
<1> QED BY <1>1, <1>2, <1>3, InductiveInvariant, PTL DEF Spec
=============================================================================
