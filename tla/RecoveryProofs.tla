-------------------------- MODULE RecoveryProofs --------------------------
(* Proofs about Heartbeat and Recovery, for any peers, holders, chunks,    *)
(* thresholds and configuration of the failure detector.                   *)
EXTENDS Recovery, TLAPS

-----------------------------------------------------------------------------
(* The failure detector *)

USE ConfigAssumption, CounterAssumption

\* The facts about the two helpers that the proofs need.
LEMMA CappedBounds ==
    ASSUME NEW n \in Nat, NEW cap \in Nat
    PROVE  /\ Capped(n, cap) \in 0..cap
           /\ Capped(n, cap) <= n
           /\ n <= cap => Capped(n, cap) = n
           /\ n > cap => Capped(n, cap) = cap
BY DEF Capped

LEMMA WrapBounds ==
    ASSUME NEW n \in Nat
    PROVE  /\ (n + 1) % CounterRange \in 0..(CounterRange - 1)
           /\ (n + 1) % CounterRange <= n + 1
<1>1. (n + 1) % CounterRange \in 0..(CounterRange - 1)
  OBVIOUS
<1>2. (n + 1) % CounterRange <= n + 1
  OBVIOUS
<1> QED BY <1>1, <1>2

\* A tick moves a status at most one stage, to a status.
LEMMA NextStatusTyped ==
    ASSUME NEW p \in Peer, status \in [Peer -> PeerStatus]
    PROVE  next_status(p) \in PeerStatus
BY DEF next_status, event, PeerStatus

\* Every reachable state is well typed.
THEOREM TypeCorrect == Spec => []TypeOK
<1>1. Init => TypeOK
  BY DEF Init, TypeOK, PeerStatus, LateCap
<1>2. TypeOK /\ [Next]_vars => TypeOK'
  <2> SUFFICES ASSUME TypeOK, [Next]_vars PROVE TypeOK'
    OBVIOUS
  <2>0. LateCap \in Nat /\ 1 < CounterRange
    BY DEF LateCap
  <2>1. CASE tick
    <3>1. missed' \in [Peer -> 0..(CounterRange - 1)]
      BY <2>1, WrapBounds DEF tick, TypeOK, misses
    <3>2. status' \in [Peer -> PeerStatus]
      BY <2>1, NextStatusTyped DEF tick, TypeOK
    <3>3. failures' \in [Peer -> 0..(CounterRange - 1)]
      BY <2>1, WrapBounds DEF tick, TypeOK
    <3>4. late' \in [Peer -> 0..LateCap]
      <4>1. ASSUME NEW p \in Peer
            PROVE  late[p] \in 0..LateCap
                   /\ Capped(late[p] + 1, LateCap) \in 0..LateCap
        <5>1. late[p] \in 0..LateCap
          BY DEF TypeOK
        <5>2. late[p] + 1 \in Nat
          BY <2>0, <5>1
        <5> QED BY <2>0, <5>1, <5>2, CappedBounds
      <4> QED BY <2>1, <4>1 DEF tick
    <3> QED BY <2>1, <3>1, <3>2, <3>3, <3>4 DEF tick, TypeOK, LateCap
  <2>2. CASE Elapse
    <3>1. age' \in [Peer -> 0..(Interval + 1)]
      <4>1. ASSUME NEW p \in Peer
            PROVE  age[p] \in 0..(Interval + 1)
                   /\ Capped(age[p] + 1, Interval + 1) \in 0..(Interval + 1)
        <5>1. age[p] \in 0..(Interval + 1)
          BY DEF TypeOK
        <5>2. age[p] + 1 \in Nat /\ Interval + 1 \in Nat
          BY <5>1
        <5> QED BY <5>1, <5>2, CappedBounds
      <4> QED BY <2>2, <4>1 DEF Elapse
    <3> QED BY <2>2, <3>1 DEF Elapse, TypeOK, LateCap
  <2>3. ASSUME NEW p \in Peer, process_heartbeat(p), UNCHANGED up,
               wire' \in [Peer -> 0..MaxInFlight]
        PROVE  TypeOK'
    <3>1. /\ known' \subseteq Peer /\ status' \in [Peer -> PeerStatus]
          /\ missed' \in [Peer -> 0..(CounterRange - 1)]
      BY <2>3 DEF process_heartbeat, TypeOK, PeerStatus
    <3>2. /\ age' \in [Peer -> 0..(Interval + 1)]
          /\ failures' \in [Peer -> 0..(CounterRange - 1)]
          /\ late' \in [Peer -> 0..LateCap]
      BY <2>0, <2>3 DEF process_heartbeat, TypeOK
    <3> QED BY <2>3, <3>1, <3>2 DEF TypeOK, LateCap
  <2>4. ASSUME NEW p \in Peer, register_peer(p) PROVE TypeOK'
    BY <2>4 DEF register_peer, TypeOK, LateCap
  <2>5. ASSUME NEW p \in Peer, create_heartbeat(p) \/ Lose(p) \/ Crash(p)
        PROVE  TypeOK'
    <3>1. CASE create_heartbeat(p)
      BY <3>1 DEF create_heartbeat, peerVars, TypeOK, LateCap
    <3>2. CASE Lose(p)
      BY <3>2 DEF Lose, peerVars, TypeOK, LateCap
    <3>3. CASE Crash(p)
      BY <3>3 DEF Crash, peerVars, TypeOK, LateCap
    <3> QED BY <2>5, <3>1, <3>2, <3>3
  <2>6. ASSUME NEW p \in Peer, Deliver(p) \/ Duplicate(p) PROVE TypeOK'
    BY <2>3, <2>6 DEF Deliver, Duplicate, TypeOK
  <2>7. CASE UNCHANGED vars
    BY <2>7 DEF vars, TypeOK, LateCap
  <2> QED BY <2>1, <2>2, <2>4, <2>5, <2>6, <2>7 DEF Next
<1> QED BY <1>1, <1>2, PTL DEF Spec

-----------------------------------------------------------------------------
\* The inductive invariant, one peer at a time: the counter of misses never
\* exceeds the late ticks since the peer was heard by more than what an Alive
\* peer may carry over, and a suspect has not yet reached max_missed (unless
\* it became one with the very miss that reached it).
PeerInv(p) ==
    /\ status[p] = "Alive" => missed[p] < Threshold
    /\ status[p] # "Alive" => Late(p) /\ late[p] >= 1
    /\ status[p] = "Suspect" =>
         missed[p] <= Threshold \/ missed[p] < max_missed
    /\ status[p] # "Dead" => missed[p] <= late[p] + (Threshold - 1)
    /\ status[p] = "Dead" => /\ late[p] >= 2
                             /\ late[p] + (Threshold - 1) >= max_missed
    /\ failures[p] > 0 => status[p] = "Dead"

IInv == \A p \in Peer : PeerInv(p)

\* A peer whose own entry a step leaves alone keeps its part of the invariant.
LEMMA PeerUntouched ==
    ASSUME NEW p \in Peer, PeerInv(p),
           status'[p] = status[p], missed'[p] = missed[p],
           failures'[p] = failures[p],
           late'[p] = late[p], Late(p) => Late(p)'
    PROVE  PeerInv(p)'
BY DEF PeerInv, Threshold

\* The step of tick for one late peer.
LEMMA TickLate ==
    ASSUME TypeOK, NEW p \in Peer, PeerInv(p), tick, Late(p)
    PROVE  PeerInv(p)'
<1> DEFINE m == misses(p)
           T == Threshold
           l == late[p]
<1>0. /\ l \in Nat /\ missed[p] \in Nat /\ failures[p] \in Nat
      /\ T \in Nat /\ T >= 1 /\ T >= suspect_threshold
      /\ T <= suspect_threshold + 1
      /\ LateCap \in Nat /\ LateCap = max_missed + suspect_threshold + 2
      /\ status[p] \in PeerStatus
  BY DEF TypeOK, Threshold, LateCap
<1>1. m \in Nat /\ m <= missed[p] + 1
  BY <1>0, WrapBounds DEF misses
<1>2. /\ status'[p] = next_status(p)
      /\ missed'[p] = m
      /\ late'[p] = Capped(l + 1, LateCap)
      /\ failures'[p] > 0 => status[p] = "Dead" \/ failures[p] > 0
      /\ Late(p)'
  BY DEF tick, TypeOK, Late
<1>3. /\ late'[p] \in Nat
      /\ late'[p] >= 1
      /\ l >= 1 => late'[p] >= 2
      /\ late'[p] = l + 1 \/ late'[p] = LateCap
      /\ late'[p] >= l
  <2>1. l <= LateCap /\ LateCap >= 2
    BY <1>0 DEF TypeOK
  <2>2. l + 1 \in Nat
    BY <1>0
  <2>3. CASE l + 1 <= LateCap
    <3>1. late'[p] = l + 1
      BY <1>0, <1>2, <2>2, <2>3, CappedBounds
    <3> QED BY <1>0, <3>1
  <2>4. CASE l + 1 > LateCap
    <3>1. late'[p] = LateCap
      BY <1>0, <1>2, <2>2, <2>4, CappedBounds
    <3> QED BY <1>0, <2>1, <3>1
  <2> QED BY <1>0, <2>3, <2>4
<1>4. Threshold' = T
  BY DEF Threshold
<1>6. CASE status[p] = "Alive"
  <2>1. missed[p] < T /\ missed[p] <= l + (T - 1) /\ ~(failures[p] > 0)
    BY <1>6 DEF PeerInv
  <2>2. CASE m >= suspect_threshold
    <3>1. status'[p] = "Suspect"
      BY <1>2, <1>6, <2>2 DEF next_status, event
    <3>2. m <= T /\ m <= late'[p] + (T - 1)
      BY <1>0, <1>1, <1>3, <2>1
    <3> QED BY <1>2, <1>3, <1>4, <1>6, <2>1, <3>1, <3>2 DEF PeerInv
  <2>3. CASE ~(m >= suspect_threshold)
    <3>1. status'[p] = "Alive"
      BY <1>2, <1>6, <2>3 DEF next_status, event
    <3>2. m < T /\ m <= late'[p] + (T - 1)
      BY <1>0, <1>1, <1>3, <2>1, <2>3
    <3> QED BY <1>2, <1>3, <1>4, <1>6, <2>1, <3>1, <3>2 DEF PeerInv
  <2> QED BY <2>2, <2>3
<1>7. CASE status[p] = "Suspect"
  <2>1. /\ missed[p] <= T \/ missed[p] < max_missed
        /\ missed[p] <= l + (T - 1)
        /\ l >= 1
        /\ ~(failures[p] > 0)
    BY <1>7 DEF PeerInv
  <2>2. m <= late'[p] + (T - 1)
    BY <1>0, <1>1, <1>3, <2>1
  <2>3. CASE m >= max_missed
    <3>1. status'[p] = "Dead"
      BY <1>2, <1>7, <2>3 DEF next_status, event
    <3>2. late'[p] >= 2 /\ late'[p] + (T - 1) >= max_missed
      BY <1>0, <1>1, <1>3, <2>1, <2>2, <2>3
    <3> QED BY <1>2, <1>3, <1>4, <3>1, <3>2 DEF PeerInv
  <2>4. CASE ~(m >= max_missed)
    <3>1. status'[p] = "Suspect" /\ m < max_missed
      BY <1>0, <1>1, <1>2, <1>7, <2>4 DEF next_status, event
    <3> QED BY <1>2, <1>3, <1>4, <1>7, <2>1, <2>2, <3>1 DEF PeerInv
  <2> QED BY <2>3, <2>4
<1>8. CASE status[p] = "Dead"
  <2>1. status'[p] = "Dead"
    BY <1>2, <1>8 DEF next_status, event
  <2>2. l >= 2 /\ l + (T - 1) >= max_missed
    BY <1>8 DEF PeerInv
  <2>3. late'[p] >= 2 /\ late'[p] + (T - 1) >= max_missed
    BY <1>0, <1>3, <2>2
  <2> QED BY <1>2, <1>3, <1>4, <2>1, <2>3 DEF PeerInv
<1> QED BY <1>0, <1>6, <1>7, <1>8 DEF PeerStatus

\* The step of process_heartbeat for the peer that was heard.
LEMMA HeardPeer ==
    ASSUME TypeOK, NEW p \in Peer, PeerInv(p), process_heartbeat(p)
    PROVE  PeerInv(p)'
<1>1. Threshold \in Nat /\ Threshold >= 1 /\ Threshold' = Threshold
  BY DEF Threshold
<1>2. /\ status'[p] = "Alive" /\ failures'[p] = 0 /\ late'[p] = 0
      /\ missed'[p] \in Nat
      /\ missed'[p] < Threshold
  <2>1. CASE status[p] \in {"Dead", "Suspect"}
    BY <1>1, <2>1 DEF process_heartbeat, TypeOK
  <2>2. CASE status[p] = "Alive"
    BY <1>1, <2>2 DEF process_heartbeat, TypeOK, PeerInv
  <2> QED BY <2>1, <2>2 DEF TypeOK, PeerStatus
<1> QED BY <1>1, <1>2 DEF PeerInv

LEMMA IInvInductive == TypeOK /\ IInv /\ [Next]_vars => IInv'
<1> SUFFICES ASSUME TypeOK, IInv, [Next]_vars, NEW q \in Peer
             PROVE  PeerInv(q)'
  BY DEF IInv
<1>0. PeerInv(q)
  BY DEF IInv
<1>1. CASE tick
  <2>1. CASE Late(q)
    BY <1>0, <1>1, <2>1, TickLate
  <2>2. CASE ~Late(q)
    BY <1>0, <1>1, <2>2, PeerUntouched DEF tick, TypeOK
  <2> QED BY <2>1, <2>2
<1>2. CASE Elapse
  <2>1. Late(q) => Late(q)'
    BY <1>2, CappedBounds DEF Elapse, Late, TypeOK, Capped
  <2> QED BY <1>0, <1>2, <2>1, PeerUntouched DEF Elapse
<1>3. ASSUME NEW p \in Peer, process_heartbeat(p) PROVE PeerInv(q)'
  <2>1. CASE q = p
    BY <1>0, <1>3, <2>1, HeardPeer
  <2>2. CASE q # p
    BY <1>0, <1>3, <2>2, PeerUntouched DEF process_heartbeat, TypeOK, Late
  <2> QED BY <2>1, <2>2
<1>4. ASSUME NEW p \in Peer, register_peer(p) PROVE PeerInv(q)'
  <2>1. Late(q) => Late(q)'
    BY <1>4 DEF register_peer, Late, TypeOK
  <2> QED BY <1>0, <1>4, <2>1, PeerUntouched DEF register_peer
<1>5. ASSUME NEW p \in Peer, create_heartbeat(p) \/ Lose(p) \/ Crash(p)
      PROVE  PeerInv(q)'
  BY <1>0, <1>5, PeerUntouched DEF create_heartbeat, Lose, Crash, peerVars, Late
<1>6. ASSUME NEW p \in Peer, Deliver(p) \/ Duplicate(p) PROVE PeerInv(q)'
  BY <1>3, <1>6 DEF Deliver, Duplicate
<1>7. CASE UNCHANGED vars
  BY <1>0, <1>7, PeerUntouched DEF vars, Late
<1> QED BY <1>1, <1>2, <1>4, <1>5, <1>6, <1>7 DEF Next

\* The inductive invariant holds in every reachable state.
THEOREM InductiveInvariant == Spec => []IInv
<1>1. Init => IInv
  <2> SUFFICES ASSUME Init, NEW p \in Peer PROVE PeerInv(p)
    BY DEF IInv
  <2>1. Threshold \in Nat /\ Threshold >= 1
    BY DEF Threshold
  <2>2. /\ status[p] = "Alive" /\ missed[p] = 0 /\ late[p] = 0
        /\ failures[p] = 0
    BY DEF Init
  <2> QED BY <2>1, <2>2 DEF PeerInv
<1> QED BY <1>1, IInvInductive, TypeCorrect, PTL DEF Spec

\* No peer is accused on stale evidence, however ticks, late, duplicated and
\* lost heartbeats interleave.
THEOREM AccusationsSound == Spec => []AccusedAreSilent
<1>1. IInv => AccusedAreSilent
  BY DEF IInv, PeerInv, AccusedAreSilent
<1> QED BY <1>1, InductiveInvariant, PTL

\* A peer is declared dead only after at least two late ticks, and max_missed
\* of them with the default threshold, since it was last heard.
THEOREM DeathsEarned == Spec => []DeadTookTheirTime
<1>1. IInv => DeadTookTheirTime
  BY DEF IInv, PeerInv, DeadTookTheirTime
<1> QED BY <1>1, InductiveInvariant, PTL

-----------------------------------------------------------------------------
(* Detector and tracker together *)

USE CountsAssumption, HolderAssumption

\* The tracker does not disturb the failure detector: every step of the two
\* together is a step of Heartbeat or leaves it alone.
LEMMA DetectorStep == [RecoveryNext]_recoveryVars => [Next]_vars
<1> SUFFICES ASSUME [RecoveryNext]_recoveryVars PROVE [Next]_vars
  OBVIOUS
<1>1. CASE Detect
  BY <1>1 DEF Detect, Next
<1>2. CASE Observe
  BY <1>2 DEF Observe, Next
<1>3. ASSUME NEW p \in Holder, HandOver(p) PROVE [Next]_vars
  BY <1>3 DEF HandOver
<1>4. ASSUME NEW c \in Chunk, NEW p \in Holder, NEW n \in ShardCounts, Place(c, p, n)
      PROVE  [Next]_vars
  BY <1>4 DEF Place
<1>5. ASSUME NEW c \in Chunk, Track(c) PROVE [Next]_vars
  BY <1>5 DEF Track
<1>6. CASE UNCHANGED recoveryVars
  BY <1>6 DEF recoveryVars
<1> QED BY <1>1, <1>2, <1>3, <1>4, <1>5, <1>6 DEF RecoveryNext

\* The composition implements the failure detector, whose theorems therefore
\* hold of it.
THEOREM ImplementsDetector == RecoverySafety => Spec
<1>1. RecoveryInit => Init
  BY DEF RecoveryInit
<1> QED BY <1>1, DetectorStep, PTL DEF RecoverySafety, Spec

-----------------------------------------------------------------------------
(* The tracker *)

LEMMA TrackerUnchanged ==
    ASSUME TrackerTypeOK /\ FlagNotStale, UNCHANGED trackerVars
    PROVE  (TrackerTypeOK /\ FlagNotStale)'
BY DEF trackerVars, TrackerTypeOK, FlagNotStale, is_replicated, chunks_needing_replication

LEMMA NoReplicasTyped == NoReplicas \in [Holder -> Nat]
BY DEF NoReplicas

\* Each method of the tracker keeps its map typed and its flags current.
LEMMA TrackerStep ==
    ASSUME TrackerTypeOK /\ FlagNotStale, TrackerNext
    PROVE  (TrackerTypeOK /\ FlagNotStale)'
<1>0. /\ states \subseteq Chunk
      /\ current_replicas \in [Chunk -> [Holder -> Nat]]
      /\ is_complete \in [Chunk -> BOOLEAN]
  BY DEF TrackerTypeOK
<1>1. ASSUME NEW c \in Chunk, register_chunk(c)
      PROVE  (TrackerTypeOK /\ FlagNotStale)'
  <2>1. TrackerTypeOK'
    BY <1>0, <1>1, NoReplicasTyped DEF register_chunk, TrackerTypeOK
  <2>2. \A p \in Holder : NoReplicas[p] = 0
    BY DEF NoReplicas
  <2>3. FlagNotStale'
    BY <1>0, <1>1, <2>2
    DEF register_chunk, FlagNotStale, is_replicated, chunks_needing_replication
  <2> QED BY <2>1, <2>3
<1>2. ASSUME NEW c \in Chunk, unregister_chunk(c)
      PROVE  (TrackerTypeOK /\ FlagNotStale)'
  <2>1. TrackerTypeOK'
    BY <1>0, <1>2, NoReplicasTyped DEF unregister_chunk, TrackerTypeOK
  <2>2. FlagNotStale'
    BY <1>0, <1>2
    DEF unregister_chunk, FlagNotStale, is_replicated, chunks_needing_replication
  <2> QED BY <2>1, <2>2
<1>3. ASSUME NEW c \in Chunk, NEW p \in Holder, NEW n \in ShardCounts,
             record_peer_shards(c, p, n)
      PROVE  (TrackerTypeOK /\ FlagNotStale)'
  <2> DEFINE replicas == [current_replicas[c] EXCEPT ![p] = n]
  <2>1. replicas \in [Holder -> Nat]
    BY <1>0
  <2>2. check_replication(replicas) \in BOOLEAN
    BY DEF check_replication
  <2>3. /\ current_replicas' = [current_replicas EXCEPT ![c] = replicas]
        /\ is_complete' = [is_complete EXCEPT ![c] = check_replication(replicas)]
        /\ states' = states /\ c \in states /\ repair' = {}
    BY <1>3 DEF record_peer_shards, add_replica
  <2> HIDE DEF replicas
  <2>4. TrackerTypeOK'
    BY <1>0, <2>1, <2>2, <2>3 DEF TrackerTypeOK
  <2>5. FlagNotStale'
    BY <1>0, <2>3 DEF FlagNotStale, is_replicated, chunks_needing_replication
  <2> QED BY <2>4, <2>5
<1>4. ASSUME NEW p \in Holder, handle_peer_death(p)
      PROVE  (TrackerTypeOK /\ FlagNotStale)'
  <2>1. \A c \in Chunk : /\ remove_peer(c, p) \in [Holder -> Nat]
                         /\ check_replication(remove_peer(c, p)) \in BOOLEAN
    BY <1>0 DEF remove_peer, check_replication
  <2>2. TrackerTypeOK'
    BY <1>0, <1>4, <2>1 DEF handle_peer_death, TrackerTypeOK
  <2>3. FlagNotStale'
    BY <1>0, <1>4
    DEF handle_peer_death, FlagNotStale, is_replicated, chunks_needing_replication
  <2> QED BY <2>2, <2>3
<1> QED BY <1>1, <1>2, <1>3, <1>4 DEF TrackerNext

\* A step of the composition is a step of the tracker or leaves it alone.
LEMMA TrackerSimulated == [RecoveryNext]_recoveryVars => [TrackerNext]_trackerVars
<1> SUFFICES ASSUME [RecoveryNext]_recoveryVars PROVE [TrackerNext]_trackerVars
  OBVIOUS
<1>1. CASE Detect
  BY <1>1 DEF Detect
<1>2. CASE Observe
  BY <1>2 DEF Observe
<1>3. ASSUME NEW p \in Holder, HandOver(p) PROVE [TrackerNext]_trackerVars
  BY <1>3 DEF HandOver, TrackerNext
<1>4. ASSUME NEW c \in Chunk, NEW p \in Holder, NEW n \in ShardCounts, Place(c, p, n)
      PROVE  [TrackerNext]_trackerVars
  BY <1>4 DEF Place, TrackerNext
<1>5. ASSUME NEW c \in Chunk, Track(c) PROVE [TrackerNext]_trackerVars
  BY <1>5 DEF Track, TrackerNext
<1>6. CASE UNCHANGED recoveryVars
  BY <1>6 DEF recoveryVars
<1> QED BY <1>1, <1>2, <1>3, <1>4, <1>5, <1>6 DEF RecoveryNext

LEMMA TrackerCorrect == RecoverySafety => [](TrackerTypeOK /\ FlagNotStale)
<1>1. RecoveryInit => TrackerTypeOK /\ FlagNotStale
  BY NoReplicasTyped DEF RecoveryInit, TrackerInit, TrackerTypeOK, FlagNotStale
<1>2. TrackerTypeOK /\ FlagNotStale /\ [RecoveryNext]_recoveryVars
        => (TrackerTypeOK /\ FlagNotStale)'
  BY TrackerSimulated, TrackerStep, TrackerUnchanged
<1> QED BY <1>1, <1>2, PTL DEF RecoverySafety

\* The cached flag of a chunk is never stale, whatever the failure detector
\* and the callers of the tracker do.
THEOREM FlagsCurrent == RecoverySafety => []FlagNotStale
BY TrackerCorrect, PTL

-----------------------------------------------------------------------------
(* Deaths *)

LEMMA DeathStep ==
    ASSUME TypeOK, TrackerTypeOK, DeadDontCount, [RecoveryNext]_recoveryVars
    PROVE  DeadDontCount'
<1>0. /\ status \in [Peer -> PeerStatus] /\ Holder \subseteq Peer
      /\ current_replicas \in [Chunk -> [Holder -> Nat]]
      /\ \A c \in Chunk \ states : current_replicas[c] = NoReplicas
  BY DEF TypeOK, TrackerTypeOK
<1>1. \A p \in Holder : NoReplicas[p] = 0
  BY DEF NoReplicas
<1>2. CASE Detect
  <2>1. \A p \in Peer : status'[p] = "Dead" /\ p \notin died'
                          => status[p] = "Dead" /\ p \notin died
    BY <1>0, <1>2 DEF Detect, PeerDied, tick, next_status, event
  <2> QED BY <1>0, <1>2, <2>1 DEF Detect, trackerVars, DeadDontCount
<1>3. CASE Observe
  <2>1. \A p \in Peer : status'[p] = "Dead" => status[p] = "Dead"
    BY <1>0, <1>3 DEF Observe, Elapse, register_peer, create_heartbeat, Deliver,
                      Duplicate, Lose, Crash, process_heartbeat, peerVars
  <2> QED BY <1>0, <1>3, <2>1 DEF Observe, trackerVars, DeadDontCount
<1>4. ASSUME NEW p \in Holder, HandOver(p) PROVE DeadDontCount'
  <2>1. /\ status' = status
        /\ died' = died \ {p}
    BY <1>4 DEF HandOver, vars
  <2>2. \A c \in Chunk : current_replicas'[c] = IF c \in states THEN remove_peer(c, p)
                                                ELSE current_replicas[c]
    BY <1>4 DEF HandOver, handle_peer_death
  <2>3. \A c \in Chunk : current_replicas'[c][p] = 0
    BY <1>0, <1>1, <2>2 DEF remove_peer
  <2>4. \A c \in Chunk, q \in Holder \ {p} : current_replicas'[c][q] = current_replicas[c][q]
    BY <1>0, <2>2 DEF remove_peer
  <2> QED BY <2>1, <2>3, <2>4 DEF DeadDontCount
<1>5. ASSUME NEW c \in Chunk, NEW p \in Holder, NEW n \in ShardCounts, Place(c, p, n)
      PROVE  DeadDontCount'
  <2>1. status' = status /\ died' = died /\ status[p] # "Dead"
    BY <1>5 DEF Place, vars
  <2>2. current_replicas' =
          [current_replicas EXCEPT ![c] = [current_replicas[c] EXCEPT ![p] = n]]
    BY <1>5 DEF Place, record_peer_shards, add_replica
  <2>3. \A d \in Chunk, q \in Holder \ {p} : current_replicas'[d][q] = current_replicas[d][q]
    BY <1>0, <2>2
  <2> QED BY <2>1, <2>3 DEF DeadDontCount
<1>6. ASSUME NEW c \in Chunk, Track(c) PROVE DeadDontCount'
  <2>1. status' = status /\ died' = died
    BY <1>6 DEF Track, vars
  <2>2. current_replicas' = [current_replicas EXCEPT ![c] = NoReplicas]
    BY <1>6 DEF Track, register_chunk, unregister_chunk
  <2> QED BY <1>0, <1>1, <2>1, <2>2 DEF DeadDontCount
<1>7. CASE UNCHANGED recoveryVars
  BY <1>7 DEF recoveryVars, vars, trackerVars, DeadDontCount
<1> QED BY <1>2, <1>3, <1>4, <1>5, <1>6, <1>7 DEF RecoveryNext

\* Replication never rests on a peer whose death was handed over, for any
\* interleaving of deaths, recoveries, records and late events.
THEOREM DeadForgotten == RecoverySafety => []DeadDontCount
<1>1. RecoveryInit => DeadDontCount
  BY DEF RecoveryInit, TrackerInit, NoReplicas, DeadDontCount
<1>2. TypeOK /\ TrackerTypeOK /\ DeadDontCount /\ [RecoveryNext]_recoveryVars
        => DeadDontCount'
  BY DeathStep
<1>3. RecoverySafety => []TypeOK
  BY ImplementsDetector, TypeCorrect, PTL
<1> QED BY <1>1, <1>2, <1>3, TrackerCorrect, PTL DEF RecoverySafety

LEMMA LossStep ==
    ASSUME TrackerTypeOK, [RecoveryNext]_recoveryVars,
           NEW p \in died \ died', NEW c \in states
    PROVE  /\ current_replicas'[c][p] = 0
           /\ check_replication(current_replicas[c])
              /\ ~check_replication(current_replicas'[c]) => c \in repair'
<1>1. p \in Holder /\ HandOver(p)
  BY DEF RecoveryNext, Detect, Observe, HandOver, Place, Track, recoveryVars
<1>2. /\ c \in Chunk
      /\ current_replicas[c] \in [Holder -> Nat]
  BY DEF TrackerTypeOK
<1>3. current_replicas'[c] = [current_replicas[c] EXCEPT ![p] = 0]
  BY <1>1, <1>2 DEF HandOver, handle_peer_death, remove_peer
<1>4. is_complete'[c] = check_replication(current_replicas'[c])
  BY <1>1, <1>2 DEF HandOver, handle_peer_death
<1>5. current_replicas'[c][p] = 0
  BY <1>1, <1>2, <1>3
<1>6. current_replicas[c][p] = 0 => current_replicas'[c] = current_replicas[c]
  BY <1>1, <1>2, <1>3
<1>7. ASSUME check_replication(current_replicas[c]), ~check_replication(current_replicas'[c])
      PROVE  c \in repair'
  <2>1. current_replicas[c][p] # 0
    BY <1>6, <1>7
  <2>2. current_replicas[c][p] > 0
    BY <1>1, <1>2, <2>1
  <2> QED BY <1>1, <1>4, <1>7, <2>2 DEF HandOver, handle_peer_death
<1> QED BY <1>5, <1>7

\* No chunk loses its replication silently when a death is handed over.
THEOREM LossesReported == RecoverySafety => NoSilentLoss
<1>1. TrackerTypeOK /\ [RecoveryNext]_recoveryVars
        => [\A p \in died \ died' : \A c \in states :
              /\ current_replicas'[c][p] = 0
              /\ check_replication(current_replicas[c])
                 /\ ~check_replication(current_replicas'[c]) => c \in repair']_recoveryVars
  BY LossStep
<1> QED BY <1>1, TrackerCorrect, PTL DEF RecoverySafety, NoSilentLoss
=============================================================================
