SPECIFICATION NodeSpec
CONSTANTS
    Peer = {p1, p2}
    Interval = 1
    max_missed = 3
    suspect_threshold = 1
    CounterRange = 4
    MaxInFlight = 1
    Chunk = {k1}
    Holder = {p1, p2}
    ShardCounts = {0, 1}
    default_replicas = 1
    Proc = {daemon, sh1, sh2}
    Service = daemon
    Manual = {sh1}
    Client = {c1, c2}
    MaxInits = 2
    MaxKills = 1
    MaxFaults = 1
INVARIANTS AccusedAreSilent DeadTookTheirTime FlagNotStale DeadDontCount
           ConfigUsable
PROPERTIES NoSilentLoss PeersRevive CrashedHoldersForgotten
           WaitingEnds EndsOnlyByLeaver ComesBack
CHECK_DEADLOCK FALSE
