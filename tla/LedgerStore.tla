---------------------------- MODULE LedgerStore ----------------------------
(***************************************************************************)
(* The local ledger (ledger/src/store.rs, ledger/src/schema.rs): a SQLite  *)
(* database behind a mutex, used by several threads.                       *)
(*                                                                         *)
(* Each method holds the mutex for one statement or two, so a thread's     *)
(* operation is: what it computes before the lock, then one atomic step.   *)
(* Three of them only make sense together and are called one after the     *)
(* other, with the mutex free in between: get_unsynced then mark_synced    *)
(* of the last sequence number read, and compute_merkle_root then          *)
(* store_merkle_checkpoint of the root computed.                           *)
(*                                                                         *)
(* The database is in WAL mode with synchronous = NORMAL: a commit is safe *)
(* from a crash of the process, but a power loss may undo the commits made *)
(* since SQLite last synced the log.  wal is the list of the database      *)
(* states committed since then, the current one last.                      *)
(* A row's sequence number is its position (AUTOINCREMENT, no row is ever  *)
(* deleted); a Merkle root is the list of the ids it was computed from.    *)
(***************************************************************************)
EXTENDS Naturals, Sequences, SequencesExt

CONSTANTS
    Thread,
    RootLimit,          \* LIMIT of compute_merkle_root: 100 000
    MaxEntries,         \* bound: rows ever inserted
    MaxLog,             \* bound: states in the log before it is synced
    MaxLosses           \* bound: power losses

ASSUME LimitAssumption ==
    RootLimit \in Nat \ {0} /\ MaxEntries \in Nat /\ MaxLog \in Nat /\ MaxLosses \in Nat

VARIABLES
    wal,                \* database states since the last sync of the log
    pc, local,          \* where each thread is, and what it remembers
    nextId,             \* Uuid::new_v4: ids are never reused
    sent,               \* history: ids handed to synchronisation
    losses

vars == <<wal, pc, local, nextId, sent, losses>>

PC == {"idle", "insert", "sending", "rooted"}

db == Last(wal)
rows == db.rows
merkle_roots == db.roots
latest_seq == Len(rows)

\* The database holds no rows and no checkpoints at first (init_schema).
Init ==
    /\ wal = <<[rows |-> <<>>, roots |-> <<>>]>>
    /\ pc = [t \in Thread |-> "idle"]
    /\ local = [t \in Thread |-> 0]
    /\ nextId = 1
    /\ sent = {}
    /\ losses = 0

Commit(newRows, newRoots) ==
    /\ Len(wal) < MaxLog
    /\ wal' = Append(wal, [rows |-> newRows, roots |-> newRoots])

Goto(t, label, value) ==
    /\ pc' = [pc EXCEPT ![t] = label]
    /\ local' = [local EXCEPT ![t] = value]

-----------------------------------------------------------------------------
(* record_entry: the id (and the timestamp) are made before the lock *)

record_entry(t) ==
    /\ pc[t] = "idle"
    /\ nextId <= MaxEntries
    /\ nextId' = nextId + 1
    /\ Goto(t, "insert", nextId)
    /\ UNCHANGED <<wal, sent, losses>>

insert_entry(t) ==
    /\ pc[t] = "insert"
    /\ Commit(Append(rows, [id |-> local[t], synced |-> FALSE]), merkle_roots)
    /\ Goto(t, "idle", 0)
    /\ UNCHANGED <<nextId, sent, losses>>

-----------------------------------------------------------------------------
(* get_unsynced, then mark_synced of the last sequence number read *)

Unsynced == {s \in 1..latest_seq : ~rows[s].synced}

get_unsynced(t) ==
    /\ pc[t] = "idle"
    /\ Unsynced # {}
    /\ sent' = sent \cup {rows[s].id : s \in Unsynced}
    /\ Goto(t, "sending", CHOOSE s \in Unsynced : \A r \in Unsynced : r <= s)
    /\ UNCHANGED <<wal, nextId, losses>>

\* The UPDATE of schema.rs: the rows up to number n are marked.
SyncedUpTo(n) ==
    [s \in 1..latest_seq |-> [rows[s] EXCEPT !.synced = @ \/ s <= n]]

\* Mistake: the condition on the sequence number is dropped.
mark_synced_all(t) ==
    /\ pc[t] = "sending"
    /\ Commit(SyncedUpTo(latest_seq), merkle_roots)
    /\ Goto(t, "idle", 0)
    /\ UNCHANGED <<nextId, sent, losses>>

mark_synced(t) ==
    /\ pc[t] = "sending"
    /\ Commit(SyncedUpTo(local[t]), merkle_roots)
    /\ Goto(t, "idle", 0)
    /\ UNCHANGED <<nextId, sent, losses>>

-----------------------------------------------------------------------------
(* compute_merkle_root, then store_merkle_checkpoint of that root *)

Ids(n) == [s \in 1..n |-> rows[s].id]

\* Of n rows, those that the root query returns.
Limited(n) == IF n < RootLimit THEN n ELSE RootLimit

\* seen is not returned: it remembers how many rows there were.
compute_merkle_root(t) ==
    /\ pc[t] = "idle"
    /\ Goto(t, "rooted", [root |-> Ids(Limited(latest_seq)), seen |-> latest_seq])
    /\ UNCHANGED <<wal, nextId, sent, losses>>

\* seq and entry_count are both the number of the last row.
Checkpointed(t, seq) ==
    [seq |-> seq, root_hash |-> local[t].root, entry_count |-> seq, seen |-> local[t].seen]

\* Mistakes: the row before the latest is taken; an existing row is replaced.
store_merkle_checkpoint_previous(t) ==
    /\ pc[t] = "rooted"
    /\ latest_seq > 0
    /\ latest_seq - 1 \notin {r.seq : r \in Range(merkle_roots)}
    /\ Commit(rows, Append(merkle_roots, Checkpointed(t, latest_seq - 1)))
    /\ Goto(t, "idle", 0)
    /\ UNCHANGED <<nextId, sent, losses>>
store_merkle_checkpoint_replace(t) ==
    /\ pc[t] = "rooted"
    /\ Commit(rows, Append(SelectSeq(merkle_roots, LAMBDA r : r.seq # latest_seq),
                           Checkpointed(t, latest_seq)))
    /\ Goto(t, "idle", 0)
    /\ UNCHANGED <<nextId, sent, losses>>

\* The number is read when the root is stored, not when it was computed; seq is
\* the primary key, so a second checkpoint at the same number is an error.
store_merkle_checkpoint(t) ==
    /\ pc[t] = "rooted"
    /\ IF latest_seq \in {r.seq : r \in Range(merkle_roots)}
       THEN UNCHANGED wal
       ELSE Commit(rows, Append(merkle_roots, Checkpointed(t, latest_seq)))
    /\ Goto(t, "idle", 0)
    /\ UNCHANGED <<nextId, sent, losses>>

-----------------------------------------------------------------------------
(* SQLite, the process and the machine *)

\* SQLite syncs the log (a WAL checkpoint).
SyncWal ==
    /\ Len(wal) > 1
    /\ wal' = <<db>>
    /\ UNCHANGED <<pc, local, nextId, sent, losses>>

\* The process dies and is started again: every commit is kept (open).
Restart ==
    /\ pc' = [t \in Thread |-> "idle"]
    /\ local' = [t \in Thread |-> 0]
    /\ \E t \in Thread : pc[t] # "idle"
    /\ UNCHANGED <<wal, nextId, sent, losses>>

\* The power fails: some of the last commits are gone as well.
PowerLoss ==
    /\ losses < MaxLosses
    /\ losses' = losses + 1
    /\ \E n \in 1..Len(wal) : wal' = <<wal[n]>>
    /\ pc' = [t \in Thread |-> "idle"]
    /\ local' = [t \in Thread |-> 0]
    /\ UNCHANGED <<nextId, sent>>

Next ==
    \/ \E t \in Thread :
         \/ record_entry(t) \/ insert_entry(t)
         \/ get_unsynced(t) \/ mark_synced(t)
         \/ compute_merkle_root(t) \/ store_merkle_checkpoint(t)
    \/ SyncWal \/ Restart \/ PowerLoss

Spec == Init /\ [][Next]_vars

-----------------------------------------------------------------------------
(* Properties *)

Row == [id : Nat, synced : BOOLEAN]
Checkpoint == [seq : Nat, root_hash : Seq(Nat), entry_count : Nat, seen : Nat]

\* The type invariant: ids and checkpoint numbers are unique keys.
TypeOK ==
    /\ wal # <<>>
    /\ \A i \in 1..Len(wal) :
         /\ \A s \in 1..Len(wal[i].rows) : wal[i].rows[s] \in Row
         /\ \A c \in Range(wal[i].roots) :
              c.seq \in Nat /\ \A s \in 1..Len(c.root_hash) : c.root_hash[s] \in Nat
         /\ IsInjective([s \in 1..Len(wal[i].rows) |-> wal[i].rows[s].id])
         /\ IsInjective([c \in 1..Len(wal[i].roots) |-> wal[i].roots[c].seq])
    /\ pc \in [Thread -> PC]
    /\ nextId \in Nat /\ losses \in Nat

\* Nothing is forgotten by synchronisation: an entry is marked as synced only
\* if it was handed out for synchronisation, however recorders, two
\* synchronisers, restarts and power losses interleave; and the synced entries
\* come before the others.
SyncedWereSent ==
    \A s \in 1..latest_seq : rows[s].synced =>
        /\ rows[s].id \in sent
        /\ \A r \in 1..s : rows[r].synced

\* What a checkpoint is worth: its root is that of the entries that were there
\* when it was computed, up to the limit of the query, and they are all still
\* where they were and among those it counts, also when entries were recorded
\* between computing and storing it and when a power loss rolled some back.
CheckpointsCoverPrefix ==
    \A c \in Range(merkle_roots) :
        /\ c.seen <= c.entry_count /\ c.entry_count <= latest_seq
        /\ c.root_hash = Ids(Limited(c.seen))

\* What store.rs says of the root ("of all ledger entries") and schema.rs of the
\* count stored with it: the root of a checkpoint covers entry_count entries.
RootCoversCount ==
    \A c \in Range(merkle_roots) : Len(c.root_hash) = c.entry_count

\* A checkpoint, once stored, is not replaced by another one (other than by a
\* power loss that takes it back).
CheckpointsImmutable ==
    [][\A c \in Range(merkle_roots), d \in Range(merkle_roots)' :
          c.seq = d.seq => c = d]_vars
=============================================================================
