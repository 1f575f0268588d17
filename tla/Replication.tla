---------------------------- MODULE Replication ----------------------------
(***************************************************************************)
(* The replication tracker (storage/src/replication.rs): how many shards   *)
(* of each chunk its peers are recorded to hold, with a cached flag that   *)
(* says whether that is enough.  An entry of current_replicas with no      *)
(* shards counts like no entry, so the map is a function on all peers.     *)
(* Every method takes &mut self: one atomic step each.                     *)
(***************************************************************************)
EXTENDS Naturals, Functions

CONSTANTS
    Chunk,
    Holder,             \* peers that may hold shards
    ShardCounts,        \* shard counts a caller may record
    default_replicas    \* ReplicationManager::default_replicas

ASSUME CountsAssumption == ShardCounts \subseteq Nat /\ default_replicas \in Nat

VARIABLES
    states,             \* keys of ReplicationManager::states
    current_replicas,   \* ReplicationState::current_replicas
    is_complete,        \* ReplicationState::is_complete
    repair              \* what handle_peer_death returns; none otherwise

trackerVars == <<states, current_replicas, is_complete, repair>>

NoReplicas == [p \in Holder |-> 0]

Total(replicas) == FoldFunction(+, 0, replicas)

check_replication(replicas) == Total(replicas) >= default_replicas

TrackerInit ==
    /\ states = {}
    /\ current_replicas = [c \in Chunk |-> NoReplicas]
    /\ is_complete = [c \in Chunk |-> FALSE]
    /\ repair = {}

\* Starts over for a chunk that is tracked already.
register_chunk(c) ==
    /\ states' = states \cup {c}
    /\ current_replicas' = [current_replicas EXCEPT ![c] = NoReplicas]
    /\ is_complete' = [is_complete EXCEPT ![c] = FALSE]
    /\ repair' = {}

\* Mistake: a chunk once complete stays so.
add_replica_sticky(c, p, n) ==
    LET replicas == [current_replicas[c] EXCEPT ![p] = n] IN
    /\ current_replicas' = [current_replicas EXCEPT ![c] = replicas]
    /\ is_complete' = [is_complete EXCEPT ![c] = @ \/ check_replication(replicas)]

\* Replaces what was recorded for the peer before.
add_replica(c, p, n) ==
    LET replicas == [current_replicas[c] EXCEPT ![p] = n] IN
    /\ current_replicas' = [current_replicas EXCEPT ![c] = replicas]
    /\ is_complete' = [is_complete EXCEPT ![c] = check_replication(replicas)]

\* Ignored for a chunk that is not tracked.
record_peer_shards(c, p, n) ==
    /\ c \in states
    /\ add_replica(c, p, n)
    /\ repair' = {}
    /\ UNCHANGED states

remove_peer(c, p) == [current_replicas[c] EXCEPT ![p] = 0]

\* Mistake: the flag is read before it is brought up to date.
handle_peer_death_stale(p) ==
    /\ current_replicas' = [c \in Chunk |-> IF c \in states THEN remove_peer(c, p)
                                            ELSE current_replicas[c]]
    /\ is_complete' = [c \in Chunk |->
         IF c \in states THEN check_replication(remove_peer(c, p)) ELSE is_complete[c]]
    /\ repair' = {c \in states : current_replicas[c][p] > 0 /\ ~is_complete[c]}
    /\ UNCHANGED states

\* Mistake: a chunk that had enough shards without the peer is left alone.
handle_peer_death_skips(p) ==
    LET hit == {c \in states : ~check_replication(remove_peer(c, p))} IN
    /\ current_replicas' = [c \in Chunk |-> IF c \in hit THEN remove_peer(c, p)
                                            ELSE current_replicas[c]]
    /\ is_complete' = [c \in Chunk |-> is_complete[c] /\ c \notin hit]
    /\ repair' = {c \in hit : current_replicas[c][p] > 0}
    /\ UNCHANGED states

handle_peer_death(p) ==
    /\ current_replicas' = [c \in Chunk |-> IF c \in states THEN remove_peer(c, p)
                                            ELSE current_replicas[c]]
    /\ is_complete' = [c \in Chunk |->
         IF c \in states THEN check_replication(remove_peer(c, p)) ELSE is_complete[c]]
    /\ repair' = {c \in states : current_replicas[c][p] > 0 /\ ~is_complete'[c]}
    /\ UNCHANGED states

chunks_needing_replication == {c \in states : ~is_complete[c]}

is_replicated(c) == c \in states /\ is_complete[c]

unregister_chunk(c) ==
    /\ c \in states
    /\ states' = states \ {c}
    /\ current_replicas' = [current_replicas EXCEPT ![c] = NoReplicas]
    /\ is_complete' = [is_complete EXCEPT ![c] = FALSE]
    /\ repair' = {}

TrackerNext ==
    \/ \E c \in Chunk : register_chunk(c) \/ unregister_chunk(c)
    \/ \E c \in Chunk, p \in Holder, n \in ShardCounts : record_peer_shards(c, p, n)
    \/ \E p \in Holder : handle_peer_death(p)

TrackerSpec == TrackerInit /\ [][TrackerNext]_trackerVars

-----------------------------------------------------------------------------
(* Properties *)

\* The type invariant; a chunk that is not tracked has no state.
TrackerTypeOK ==
    /\ states \subseteq Chunk
    /\ current_replicas \in [Chunk -> [Holder -> Nat]]
    /\ is_complete \in [Chunk -> BOOLEAN]
    /\ repair \subseteq Chunk
    /\ \A c \in Chunk \ states : current_replicas[c] = NoReplicas /\ ~is_complete[c]

\* The cached flag is never stale: a chunk reported as replicated has enough
\* shards recorded right now, and one that somebody holds and that has enough
\* shards is reported so (a fresh chunk is incomplete whatever the target).
FlagNotStale ==
    \A c \in states :
        /\ is_replicated(c) => check_replication(current_replicas[c])
        /\ check_replication(current_replicas[c])
           /\ (\E p \in Holder : current_replicas[c][p] > 0)
              => c \notin chunks_needing_replication
=============================================================================
