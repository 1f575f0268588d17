------------------------------ MODULE Recovery ------------------------------
(***************************************************************************)
(* Failure detection and replication together: the deaths that tick        *)
(* announces (p2p/src/heartbeat.rs) reach handle_peer_death of the         *)
(* replication tracker (storage/src/replication.rs).                       *)
(*                                                                         *)
(* The caller that joins the two is not in the repository and is external: *)
(* it hands over every PeerDied event some time later, in any order, and   *)
(* it records shards only for peers that are not Dead when it does so,     *)
(* which the tracker itself does not look at.                              *)
(***************************************************************************)
EXTENDS Heartbeat, Replication

ASSUME HolderAssumption == Holder \subseteq Peer

VARIABLE
    died            \* PeerDied events not yet handed over

recoveryVars == <<vars, trackerVars, died>>

RecoveryInit == Init /\ TrackerInit /\ died = {}

Detect ==
    /\ tick
    /\ died' = died \cup {p \in Peer : PeerDied(p)}
    /\ UNCHANGED trackerVars

Observe ==
    /\ \/ Elapse
       \/ \E p \in Peer : \/ register_peer(p)
                          \/ create_heartbeat(p) \/ Deliver(p) \/ Duplicate(p) \/ Lose(p)
                          \/ Crash(p)
    /\ UNCHANGED <<trackerVars, died>>

HandOver(p) ==
    /\ p \in died
    /\ handle_peer_death(p)
    /\ died' = died \ {p}
    /\ UNCHANGED vars

Place(c, p, n) ==
    /\ p \in known /\ status[p] # "Dead"
    /\ record_peer_shards(c, p, n)
    /\ UNCHANGED <<vars, died>>

Track(c) ==
    /\ register_chunk(c) \/ unregister_chunk(c)
    /\ UNCHANGED <<vars, died>>

RecoveryNext ==
    \/ Detect
    \/ Observe
    \/ \E p \in Holder : HandOver(p)
    \/ \E c \in Chunk, p \in Holder, n \in ShardCounts : Place(c, p, n)
    \/ \E c \in Chunk : Track(c)

RecoverySafety == RecoveryInit /\ [][RecoveryNext]_recoveryVars

\* The fairness of Heartbeat, and no event waits for ever.
RecoverySpec ==
    /\ RecoverySafety
    /\ Fairness
    /\ \A p \in Holder : WF_recoveryVars(HandOver(p))

-----------------------------------------------------------------------------
(* Properties *)

\* A death is never silent: a chunk that had enough shards before the death of a
\* peer was handed over, and has too few afterwards, is in the list the handler
\* returns, and nothing is left recorded for that peer.
NoSilentLoss ==
    [][\A p \in died \ died' : \A c \in states :
          /\ current_replicas'[c][p] = 0
          /\ check_replication(current_replicas[c])
             /\ ~check_replication(current_replicas'[c]) => c \in repair']_recoveryVars

\* Replication never rests on the dead: once the death of a peer has been
\* handed over, no chunk counts shards of it until it is heard again, however
\* deaths, recoveries and records are interleaved.
DeadDontCount ==
    \A p \in Holder : status[p] = "Dead" /\ p \notin died =>
        \A c \in Chunk : current_replicas[c][p] = 0

\* Repair gets under way: the shards of a peer that has crashed and has an
\* entry stop counting for good, so every chunk that needs them is among those
\* that need replication.
CrashedHoldersForgotten ==
    \A p \in Holder : (~up[p] /\ p \in known) ~>
        [](\A c \in Chunk : current_replicas[c][p] = 0)
=============================================================================
