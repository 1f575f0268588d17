SPECIFICATION DataSpec
CONSTANTS
    \* shards
    blockA = blockA
    blockB = blockB
    Proc = {p1, p2}
    Block <- ShardBlock
    Data <- ShardData
    Inode = {i1, i2}
    Hole = Hole
    Junk = Junk
    \* trees
    chunkA = chunkA
    Chunk <- TreeChunk
    MaxLeaves = 5
    MaxChallenges = 2
    MaxDamage = 2
    \* pipeline
    Byte = {0, 1}
    CHUNK_SIZE = 2
    TAG_LEN = 2
    HeaderLen = 1
    MaxFile = 5
    MaxVersions = 2
    MaxPairs = 4
    \* gossip
    Sender = {s1, s2}
    Kinds = {"HeartbeatAck", "Heartbeat", "LedgerSync", "ReplicationRequest"}
    Tiers = {"archive", "premium"}
    max_queue_size = 2
    Limits = {1, 2}
    MaxSequence = 3
INVARIANTS RetrieveSound QuietDisk QuietReadCorrect
           RootIsReference VerifiedIsInTree PathBelowRootVerifies
           ChunksReassemble ReadsOneVersion
           NothingLost FilterSound
PROPERTIES SchedulingSpec
VIEW View
\* Trees, reads and messages are bounded.
CHECK_DEADLOCK FALSE
