SPECIFICATION SyncSpec
CONSTANTS
    Node = {n1, n2}
    Timestamp = {1, 2}
    RecordTimes = {2}
    RootCover = 2
    AnswerLimit = 2
    MaxRootLag = 0
    MaxSeqLag = 0
    MaxRows = 4
    MaxMessages = 4
INVARIANTS TiesAreBroken
