----------------------------- MODULE LedgerSync -----------------------------
(***************************************************************************)
(* Synchronisation of the ledgers of several nodes                         *)
(* (ledger/src/gossip_sync.rs) and the resolution of conflicts between     *)
(* them (ledger/src/conflict.rs).                                          *)
(*                                                                         *)
(* The manager keeps what it was last told about its own ledger and about  *)
(* those of its peers; the ledgers themselves are those of LedgerStore,    *)
(* here without their sync marks.  Messages travel over a network that     *)
(* delays, reorders, duplicates and loses them: whatever was sent stays in *)
(* wire and may arrive at any time, any number of times.                   *)
(*                                                                         *)
(* An entry has an id and a timestamp; its content is these two and its    *)
(* sequence number (the position), which is part of the JSON compared.     *)
(* RFC 3339 strings of UTC times compare like the times.  A Merkle root is *)
(* the list of the entries that were hashed; with every root the model     *)
(* remembers covers, the number of entries it was meant to cover.          *)
(***************************************************************************)
EXTENDS Integers, Sequences, FiniteSets, Functions

CONSTANTS
    Node,
    Timestamp,          \* readings of the nodes' clocks, not synchronised
    RecordTimes,        \* bound: those at which new entries are recorded
    RootCover,          \* LIMIT of compute_merkle_root: 100 000
    AnswerLimit,        \* LIMIT of get_entries_from: 10 000
    MaxRootLag,         \* bound: entries recorded since the root was computed ...
    MaxSeqLag,          \* ... and since the length was read, when both are told
    MaxRows,            \* bound: rows inserted, over all nodes
    MaxMessages         \* bound: different messages sent, over all nodes

ASSUME TimestampAssumption == RecordTimes \subseteq Timestamp /\ Timestamp \subseteq Nat
ASSUME SyncLimitAssumption == RootCover \in Nat /\ AnswerLimit \in Nat
ASSUME BoundsAssumption ==
    /\ MaxRootLag \in Nat /\ MaxSeqLag \in Nat
    /\ MaxRows \in Nat /\ MaxMessages \in Nat

VARIABLES
    ledger,             \* ledger_entries of each node, by sequence number
    local_state,        \* local_merkle_root, local_latest_seq of each manager
    peers,              \* LedgerSyncManager::peers: what each knows of each
    pending_requests,   \* request ids each manager waits for
    stats,              \* ConflictResolver (local_wins is the rest)
    wire,               \* external: every message sent so far
    requests,           \* Uuid::new_v4: request ids given out
    outcomes            \* history: conflicts resolved, by request

storeVars == <<ledger>>
managerVars == <<local_state, peers, pending_requests, stats, requests, outcomes>>
syncVars == <<ledger, local_state, peers, pending_requests, stats, wire, requests, outcomes>>

\* The root hash: "" before the first update, then that of a list of entries.
NoRoot == [known |-> FALSE, entries |-> <<>>]
Root(s) == [known |-> TRUE, entries |-> s]
NoAdvert == [root |-> NoRoot, covers |-> 0, seq |-> -1]

Smaller(a, b) == IF a < b THEN a ELSE b
Larger(a, b) == IF a > b THEN a ELSE b

\* Rows with a sequence number above from, at most limit of them.
get_entries_from(n, from, limit) ==
    LET last == Smaller(Len(ledger[n]), from + limit) IN
    [i \in 1..Larger(0, last - from) |->
        [seq |-> from + i, id |-> ledger[n][from + i].id,
         timestamp |-> ledger[n][from + i].timestamp]]

All(n) == get_entries_from(n, 0, Len(ledger[n]))

SyncInit ==
    /\ ledger = [n \in Node |-> <<>>]
    /\ local_state = [n \in Node |-> [root |-> NoRoot, covers |-> 0, seq |-> 0]]
    /\ peers = [n \in Node |-> [p \in Node |-> NoAdvert]]
    /\ pending_requests = [n \in Node |-> {}]
    /\ stats = [n \in Node |-> [resolved_count |-> 0, remote_wins |-> 0]]
    /\ wire = {}
    /\ requests = 0
    /\ outcomes = [n \in Node |-> {}]

-----------------------------------------------------------------------------
(* The ledgers *)

IdsOf(n) == {e.id : e \in Range(ledger[n])}
AllIds == UNION {IdsOf(n) : n \in Node}
Rows == UNION {{n} \X DOMAIN ledger[n] : n \in Node}

insert_row(n, id, t) ==
    /\ id \notin IdsOf(n)
    /\ Cardinality(Rows) < MaxRows
    /\ ledger' = [ledger EXCEPT ![n] = Append(@, [id |-> id, timestamp |-> t])]
    /\ UNCHANGED <<managerVars, wire>>

\* A new id, unlike all others.
record(n, t) == insert_row(n, Cardinality(AllIds) + 1, t)

\* The embedding program copies an entry of another node under its own id,
\* with its time or with one of its own.
Import(n, m, t) ==
    \E id \in IdsOf(m) : insert_row(n, id, t)

-----------------------------------------------------------------------------
(* LedgerSyncManager: state and adverts *)

\* Called after local writes with what compute_merkle_root and latest_seq
\* returned.  Each takes the lock for itself, so the root is of the ledger as
\* it was rootLag rows ago and the length that of seqLag rows ago, in either order.
Told(n, rootLag, seqLag) ==
    [root |-> Root(get_entries_from(n, 0, Smaller(Len(ledger[n]) - rootLag, RootCover))),
     covers |-> Smaller(Len(ledger[n]) - rootLag, RootCover),
     seq |-> Len(ledger[n]) - seqLag]

\* Mistake: the old root is kept.
update_local_state_no_root(n, rootLag, seqLag) ==
    /\ rootLag <= Len(ledger[n]) /\ seqLag <= Len(ledger[n])
    /\ local_state' = [local_state EXCEPT ![n] =
          [Told(n, rootLag, seqLag) EXCEPT !.root = local_state[n].root]]
    /\ UNCHANGED <<ledger, peers, pending_requests, stats, wire, requests, outcomes>>

update_local_state(n, rootLag, seqLag) ==
    /\ rootLag <= Len(ledger[n]) /\ seqLag <= Len(ledger[n])
    /\ local_state' = [local_state EXCEPT ![n] = Told(n, rootLag, seqLag)]
    /\ UNCHANGED <<ledger, peers, pending_requests, stats, wire, requests, outcomes>>

Send(m) ==
    /\ wire' = wire \cup {m}
    /\ Cardinality(wire') <= MaxMessages

StateAdvert(n) ==
    [type |-> "StateAdvert", from |-> n, root |-> local_state[n].root,
     covers |-> local_state[n].covers, seq |-> local_state[n].seq]

create_state_advert(n) ==
    /\ Send(StateAdvert(n))
    /\ UNCHANGED <<storeVars, managerVars>>

\* The last one to arrive counts, whenever it was sent.
register_peer_state(n, m) ==
    /\ m \in wire /\ m.type = "StateAdvert" /\ m.from # n
    /\ peers' = [peers EXCEPT ![n][m.from] = 
          [root |-> m.root, covers |-> m.covers, seq |-> m.seq]]
    /\ UNCHANGED <<ledger, local_state, pending_requests, stats, wire, requests, outcomes>>

needs_sync(n, p) ==
    /\ peers[n][p] # NoAdvert
    /\ \/ peers[n][p].root # local_state[n].root
       \/ peers[n][p].seq > local_state[n].seq

-----------------------------------------------------------------------------
(* LedgerSyncManager: requests and answers *)

\* Mistake: only what the peer has beyond the local length is asked for.
from_seq_of_local(n, p) ==
    IF peers[n][p] = NoAdvert THEN 0 ELSE local_state[n].seq

\* The difference of two lengths, taken for a sequence number.
from_seq(n, p) ==
    IF peers[n][p] = NoAdvert THEN 0
    ELSE Larger(0, local_state[n].seq - peers[n][p].seq + 1)

\* peer and wanted are not in the message: they record whom it was meant for,
\* and how many entries a node that knew itself to be behind was told of.
EntryRequest(n, p, id) ==
    [type |-> "EntryRequest", from |-> n, request_id |-> id, from_seq |-> from_seq(n, p),
     peer |-> p,
     wanted |-> IF peers[n][p].seq > local_state[n].seq THEN peers[n][p].seq ELSE 0]

EntryResponse(n, m) ==
    [type |-> "EntryResponse", from |-> n, to |-> m.from,
     request_id |-> m.request_id, peer |-> m.peer, wanted |-> m.wanted,
     entries |-> get_entries_from(n, m.from_seq, AnswerLimit)]

\* May be called whatever needs_sync says.
create_entry_request(n, p) ==
    /\ p # n
    /\ requests' = requests + 1
    /\ pending_requests' = [pending_requests EXCEPT ![n] = @ \cup {requests'}]
    /\ Send(EntryRequest(n, p, requests'))
    /\ UNCHANGED <<ledger, local_state, peers, stats, outcomes>>

\* Whoever receives a request answers it from its ledger, again if it arrives
\* again.
Answer(n, m) ==
    /\ m \in wire /\ m.type = "EntryRequest" /\ m.from # n
    /\ Send(EntryResponse(n, m))
    /\ UNCHANGED <<storeVars, managerVars>>

-----------------------------------------------------------------------------
(* ConflictResolver *)

LedgerConflict(ours, theirs) == [local : Range(ours), remote : Range(theirs)]

\* The same id with another content.
detect_conflicts(ours, theirs) ==
    {c \in LedgerConflict(ours, theirs) :
        c.local.id = c.remote.id /\ c.local # c.remote}

\* Mistake: the longer ledger is taken to be right.
resolve_by_seq(c) == c.remote.seq > c.local.seq

resolve_by_timestamp(c) == c.remote.timestamp > c.local.timestamp

\* Whether the remote entry replaces the local one.
resolve_by_majority(c, votes_for_local, votes_for_remote) ==
    \/ votes_for_remote > votes_for_local
    \/ votes_for_remote = votes_for_local /\ resolve_by_timestamp(c)

\* The answers to the caller; process_entries asks nobody for votes.
resolve(c) == [local |-> c.local, remote |-> c.remote,
               use_remote |-> resolve_by_majority(c, 0, 0)]

Results(n, m) == {resolve(c) : c \in detect_conflicts(All(n), m.entries)}

Count(n, m) ==
    /\ stats' = [stats EXCEPT ![n] =
         [resolved_count |-> @.resolved_count + Cardinality(Results(n, m)),
          remote_wins |-> @.remote_wins
                + Cardinality({r \in Results(n, m) : r.use_remote})]]
    /\ outcomes' = [outcomes EXCEPT ![n] =
         @ \cup {[request_id |-> m.request_id, result |-> r] : r \in Results(n, m)}]

\* Mistake: the request stays pending.
process_entries_kept(n, m) ==
    /\ m \in wire /\ m.type = "EntryResponse" /\ m.to = n
    /\ m.request_id \in pending_requests[n]
    /\ Count(n, m)
    /\ UNCHANGED <<ledger, local_state, peers, pending_requests, wire, requests>>

\* Ignored unless the request is pending.  The ledger stays as it is: winners
\* are returned to the caller, and entries with a new id are not.
process_entries(n, m) ==
    /\ m \in wire /\ m.type = "EntryResponse" /\ m.to = n
    /\ m.request_id \in pending_requests[n]
    /\ pending_requests' = [pending_requests EXCEPT ![n] = @ \ {m.request_id}]
    /\ Count(n, m)
    /\ UNCHANGED <<ledger, local_state, peers, wire, requests>>

-----------------------------------------------------------------------------
SyncNext ==
    \E n \in Node :
        \/ \E t \in RecordTimes : record(n, t)
        \/ \E m \in Node \ {n}, t \in Timestamp : Import(n, m, t)
        \/ \E rootLag \in 0..MaxRootLag, seqLag \in 0..MaxSeqLag :
             update_local_state(n, rootLag, seqLag)
        \/ create_state_advert(n)
        \/ \E p \in Node : create_entry_request(n, p)
        \/ \E m \in wire :
             register_peer_state(n, m) \/ Answer(n, m) \/ process_entries(n, m)

SyncSpec == SyncInit /\ [][SyncNext]_syncVars

-----------------------------------------------------------------------------
(* Properties *)

Entry == [id : 1..MaxRows, timestamp : Timestamp]

\* The type invariant; a request is pending at one node only, and ids are unique
\* within a ledger.
SyncTypeOK ==
    /\ \A n \in Node : /\ ledger[n] \in Seq(Entry)
                       /\ IsInjective([i \in DOMAIN ledger[n] |-> ledger[n][i].id])
    /\ \A n \in Node : local_state[n].seq \in 0..Len(ledger[n])
    /\ \A n, p \in Node : peers[n][p].seq \in -1..Len(ledger[p])
    /\ \A n \in Node : pending_requests[n] \subseteq 1..requests
    /\ \A n, p \in Node : n # p => pending_requests[n] \cap pending_requests[p] = {}
    /\ requests \in 0..MaxMessages

\* The first k entries of a ledger.
Prefix(n, k) == SubSeq(ledger[n], 1, k)

\* No false agreement: when needs_sync says that there is nothing to do, the
\* two ledgers begin alike, up to the last entry that the peer's root was meant
\* to cover, however old both views are and in whatever order adverts arrived.
\* The length advertised with the root may be that of another moment, and
\* promises nothing.
AgreementIsReal ==
    \A n, p \in Node : peers[n][p] # NoAdvert /\ ~needs_sync(n, p) =>
        LET k == peers[n][p].covers IN Prefix(n, k) = Prefix(p, k)

\* A node that is behind catches up: the answer of the peer it asked holds
\* every entry that peer had advertised, up to the limit of an answer, whatever
\* both recorded since.
AnswerCoversAdvert ==
    \A r \in wire : r.type = "EntryResponse" /\ r.from = r.peer =>
        \A i \in 1..Smaller(r.wanted, AnswerLimit) :
            /\ i <= Len(r.entries)
            /\ r.entries[i].seq = i /\ r.entries[i].id = ledger[r.peer][i].id

\* A duplicated or second answer counts for nothing: the statistics count the
\* conflicts of each request once.
CountedOnce ==
    \A n \in Node :
        /\ stats[n].resolved_count = Cardinality(outcomes[n])
        /\ stats[n].remote_wins
             = Cardinality({o \in outcomes[n] : o.result.use_remote})

\* The entry that a resolution keeps, and two that see one conflict from both
\* sides.
Kept(r) == IF r.use_remote THEN r.remote ELSE r.local
Mirrored(r, q) == r.local = q.remote /\ r.remote = q.local

\* Two nodes that resolve the same conflict, each from its own side and
\* whenever its answer arrives, keep the same entry when the timestamps differ:
\* the one with the later timestamp.
ResolutionsAgree ==
    \A n, p \in Node : \A a \in outcomes[n], b \in outcomes[p] :
        Mirrored(a.result, b.result)
        /\ a.result.local.timestamp # a.result.remote.timestamp
        => /\ Kept(a.result) = Kept(b.result)
           /\ Kept(a.result).timestamp >= a.result.local.timestamp
           /\ Kept(a.result).timestamp >= a.result.remote.timestamp

\* What the documents say (ARCHITECTURE.md: with equal timestamps the entry with
\* the smaller hash wins; conflict.rs: a majority vote decides): two nodes that
\* resolve the same conflict keep the same entry, always.
TiesAreBroken ==
    \A n, p \in Node : \A a \in outcomes[n], b \in outcomes[p] :
        Mirrored(a.result, b.result) => Kept(a.result) = Kept(b.result)
=============================================================================
