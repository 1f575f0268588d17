SPECIFICATION PipeSpec
CONSTANTS
    Byte = {0, 1}
    CHUNK_SIZE = 6
    TAG_LEN = 2
    HeaderLen = 4
    MaxFile = 7
    MaxVersions = 0
    MaxPairs = 0
INVARIANTS PaddingRoundTrip
CHECK_DEADLOCK FALSE
