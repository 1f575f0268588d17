----------------------------- MODULE Heartbeat -----------------------------
(***************************************************************************)
(* The failure detector of a node (p2p/src/heartbeat.rs), the peers it     *)
(* watches and the network between them.                                   *)
(*                                                                         *)
(* last_seen is kept as the time since (age), which only ever matters      *)
(* compared with the interval: it stops growing one past it.  The peers    *)
(* and the network are external: a peer may crash for good, and a          *)
(* heartbeat may be delayed, duplicated or lost (message.rs carries a      *)
(* timestamp, which process_heartbeat ignores).  u32 counters wrap at      *)
(* CounterRange, as in a release build.                                    *)
(***************************************************************************)
EXTENDS Naturals

CONSTANTS
    Peer,
    Interval,           \* HeartbeatConfig::interval_secs
    max_missed, suspect_threshold,
    CounterRange,       \* 2^32
    MaxInFlight         \* bound: heartbeats of one peer on the wire

ASSUME ConfigAssumption ==
    /\ Interval \in Nat /\ max_missed \in Nat /\ suspect_threshold \in Nat
    /\ MaxInFlight \in Nat
ASSUME CounterAssumption ==
    CounterRange \in Nat /\ CounterRange > max_missed
                         /\ CounterRange > suspect_threshold
                         /\ CounterRange > 1

VARIABLES
    known,              \* keys of HeartbeatManager::peers
    status,             \* PeerState::status
    age,                \* Instant::now() - PeerState::last_seen
    missed,             \* PeerState::missed_heartbeats
    failures,           \* PeerState::consecutive_failures
    up,                 \* external: the peer is running
    wire,               \* external: heartbeats of the peer in flight
    late                \* history: ticks that found the peer late since it
                        \*          was last heard

peerVars == <<known, status, age, missed, failures>>
vars == <<known, status, age, missed, failures, up, wire, late>>

PeerStatus == {"Alive", "Suspect", "Dead"}

\* late need not be counted any further than this.
LateCap == max_missed + suspect_threshold + 2
Capped(n, cap) == IF n < cap THEN n ELSE cap

Init ==
    /\ known = {}
    /\ status = [p \in Peer |-> "Alive"]
    /\ age = [p \in Peer |-> 0]
    /\ missed = [p \in Peer |-> 0]
    /\ failures = [p \in Peer |-> 0]
    /\ up = [p \in Peer |-> TRUE]
    /\ wire = [p \in Peer |-> 0]
    /\ late = [p \in Peer |-> 0]

-----------------------------------------------------------------------------
(* HeartbeatManager *)

\* PeerState::new for a peer that has no entry yet.
register_peer(p) ==
    /\ p \notin known
    /\ known' = known \cup {p}
    /\ age' = [age EXCEPT ![p] = 0]
    /\ UNCHANGED <<status, missed, failures, up, wire, late>>

\* Mistakes: a dead peer stays dead; the misses are kept.
process_heartbeat_no_revival(p) ==
    /\ known' = known \cup {p}
    /\ age' = [age EXCEPT ![p] = 0]
    /\ failures' = [failures EXCEPT ![p] = 0]
    /\ late' = [late EXCEPT ![p] = 0]
    /\ status' = [status EXCEPT ![p] = IF @ = "Dead" THEN @ ELSE "Alive"]
    /\ missed' = [missed EXCEPT ![p] = IF status[p] = "Suspect" THEN 0 ELSE @]
process_heartbeat_keeps_misses(p) ==
    /\ known' = known \cup {p}
    /\ age' = [age EXCEPT ![p] = 0]
    /\ failures' = [failures EXCEPT ![p] = 0]
    /\ late' = [late EXCEPT ![p] = 0]
    /\ status' = [status EXCEPT ![p] = "Alive"]
    /\ UNCHANGED missed

\* Inserts an unknown peer.  The misses of a peer still Alive are kept.
process_heartbeat(p) ==
    /\ known' = known \cup {p}
    /\ age' = [age EXCEPT ![p] = 0]
    /\ failures' = [failures EXCEPT ![p] = 0]
    /\ late' = [late EXCEPT ![p] = 0]
    /\ \/ /\ status[p] \in {"Dead", "Suspect"}        \* PeerRecovered
          /\ status' = [status EXCEPT ![p] = "Alive"]
          /\ missed' = [missed EXCEPT ![p] = 0]
       \/ /\ status[p] = "Alive"                      \* PeerAlive
          /\ UNCHANGED <<status, missed>>

\* Mistake: only peers still Alive are looked at.
Late_alive(p) == p \in known /\ age[p] > Interval /\ status[p] = "Alive"

Late(p) == p \in known /\ age[p] > Interval

misses(p) == (missed[p] + 1) % CounterRange

\* The event that tick pushes for a late peer: one transition per tick, whatever
\* the count.
event(p) ==
    CASE status[p] = "Alive" /\ misses(p) >= suspect_threshold -> "PeerSuspect"
      [] status[p] = "Suspect" /\ misses(p) >= max_missed -> "PeerDied"
      [] OTHER -> "none"

\* Whether tick returns PeerDied for the peer.
PeerDied(p) == Late(p) /\ event(p) = "PeerDied"

next_status(p) ==
    CASE event(p) = "PeerSuspect" -> "Suspect"
      [] event(p) = "PeerDied" -> "Dead"
      [] OTHER -> status[p]

tick ==
    /\ missed' = [p \in Peer |-> IF Late(p) THEN misses(p) ELSE missed[p]]
    /\ status' = [p \in Peer |-> IF Late(p) THEN next_status(p) ELSE status[p]]
    /\ failures' = [p \in Peer |-> IF Late(p) /\ status[p] = "Dead"
                                   THEN (failures[p] + 1) % CounterRange
                                   ELSE failures[p]]
    /\ late' = [p \in Peer |-> IF Late(p) THEN Capped(late[p] + 1, LateCap)
                                          ELSE late[p]]
    /\ UNCHANGED <<known, age, up, wire>>

get_dead_peers == {p \in known : status[p] = "Dead"}

-----------------------------------------------------------------------------
(* The clock, the peers and the network *)

\* One unit of time passes (for every entry: last_seen stands still).
Elapse ==
    /\ age' = [p \in Peer |-> IF p \in known THEN Capped(age[p] + 1, Interval + 1)
                                             ELSE age[p]]
    /\ UNCHANGED <<known, status, missed, failures, up, wire, late>>

\* The peer broadcasts create_heartbeat.
create_heartbeat(p) ==
    /\ up[p]
    /\ wire[p] < MaxInFlight
    /\ wire' = [wire EXCEPT ![p] = @ + 1]
    /\ UNCHANGED <<peerVars, up, late>>

\* A heartbeat arrives, or a copy of it does and it stays in the network.
Deliver(p) ==
    /\ wire[p] > 0
    /\ process_heartbeat(p)
    /\ wire' = [wire EXCEPT ![p] = @ - 1]
    /\ UNCHANGED up
Duplicate(p) ==
    /\ wire[p] > 0
    /\ process_heartbeat(p)
    /\ UNCHANGED <<wire, up>>

Lose(p) ==
    /\ wire[p] > 0
    /\ wire' = [wire EXCEPT ![p] = @ - 1]
    /\ UNCHANGED <<peerVars, up, late>>

Crash(p) ==
    /\ up[p]
    /\ up' = [up EXCEPT ![p] = FALSE]
    /\ UNCHANGED <<peerVars, wire, late>>

Next ==
    \/ tick
    \/ Elapse
    \/ \E p \in Peer :
         \/ register_peer(p)
         \/ create_heartbeat(p) \/ Deliver(p) \/ Duplicate(p) \/ Lose(p)
         \/ Crash(p)

Spec == Init /\ [][Next]_vars

\* Time passes, the node keeps calling tick, running peers keep sending, every
\* message leaves the network at some point, and a peer that is heard from
\* again and again is not ignored for ever.
Drained(p) == Deliver(p) \/ Lose(p)
Fairness ==
    /\ WF_vars(tick) /\ WF_vars(Elapse)
    /\ \A p \in Peer : /\ WF_vars(create_heartbeat(p))
                       /\ WF_vars(Drained(p))
                       /\ SF_vars(Deliver(p))

-----------------------------------------------------------------------------
(* Properties *)

\* The type invariant: counters are u32, ages stay within the range that the
\* comparison with the interval can tell apart.
TypeOK ==
    /\ known \subseteq Peer
    /\ status \in [Peer -> PeerStatus]
    /\ age \in [Peer -> 0..(Interval + 1)]
    /\ missed \in [Peer -> 0..(CounterRange - 1)]
    /\ failures \in [Peer -> 0..(CounterRange - 1)]
    /\ up \in [Peer -> BOOLEAN]
    /\ wire \in [Peer -> 0..MaxInFlight]
    /\ late \in [Peer -> 0..LateCap]

\* suspect_threshold 0 acts like 1: a miss is counted before the comparison.
Threshold == IF suspect_threshold > 1 THEN suspect_threshold ELSE 1

\* No peer is accused on stale evidence: a peer that is Suspect or Dead has
\* been silent for longer than the interval right now, and one that is Alive
\* has fewer misses on record than make a suspect.
AccusedAreSilent ==
    \A p \in Peer :
        /\ status[p] # "Alive" => Late(p)
        /\ status[p] = "Alive" => missed[p] < Threshold

\* A death sentence takes time: since a dead peer was last heard, at least two
\* ticks found it late, and max_missed of them less those a peer that is still
\* Alive may carry over from before (none with the default threshold of 1).
DeadTookTheirTime ==
    \A p \in Peer : status[p] = "Dead" =>
        /\ late[p] >= 2
        /\ late[p] + (Threshold - 1) >= max_missed

\* Accuracy: a peer that never crashes is seen Alive again and again.
RunningPeersRevive ==
    \A p \in Peer : []up[p] => []<>(p \in known /\ status[p] = "Alive")
=============================================================================
