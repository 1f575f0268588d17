SPECIFICATION LedgerSpec
CONSTANTS
    Thread = {t1, t2}
    RootLimit = 2
    MaxEntries = 3
    MaxLog = 3
    MaxLosses = 1
    Node = {n1, n2}
    Timestamp = {1, 2}
    RecordTimes = {2}
    RootCover = 2
    AnswerLimit = 2
    MaxRootLag = 1
    MaxSeqLag = 0
    MaxRows = 3
    MaxMessages = 4
INVARIANTS SyncedWereSent CheckpointsCoverPrefix
           AgreementIsReal AnswerCoversAdvert CountedOnce ResolutionsAgree
PROPERTIES CheckpointsImmutable
CHECK_DEADLOCK FALSE
SYMMETRY Symmetry
