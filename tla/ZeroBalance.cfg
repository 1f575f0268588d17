SPECIFICATION Spec
CONSTANTS
    Amounts <- MCAmounts
    InitialDeposits <- MCFunded
    MIN_WITHDRAWAL = 2
    ExportDuration = 2
    MaxNow = 3
    MaxTx = 4
PROPERTIES ZeroBalanceFreezes
CHECK_DEADLOCK FALSE
