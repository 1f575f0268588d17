SPECIFICATION GossipSpec
CONSTANTS
    Sender = {s1, s2}
    Kinds = {"Heartbeat"}
    Tiers = {"archive"}
    max_queue_size = 1
    Limits = {2}
    MaxSequence = 1
INVARIANTS NewIsAccepted
CHECK_DEADLOCK FALSE
