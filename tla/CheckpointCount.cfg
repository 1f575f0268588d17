SPECIFICATION Spec
CONSTANTS
    Thread = {t1, t2}
    RootLimit = 3
    MaxEntries = 2
    MaxLog = 3
    MaxLosses = 0
INVARIANTS RootCoversCount
CHECK_DEADLOCK FALSE
