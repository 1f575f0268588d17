SPECIFICATION BillingSpec
CONSTANTS
    Amounts <- MCAmounts
    InitialDeposits <- MCInitialDeposits
    MIN_WITHDRAWAL = 2
    ExportDuration = 2
    MaxNow = 4
    MaxTx = 4
    Period = 30
    DayTicks = 2
    MaxLag = 1
    MaxCalls = 3
    Units = 1000
    MaxMantissa = 7922
    Steps = {1, 10, 100, 1000}
    TB = 1024
    Volumes = {0, 1, 333, 1024, 1500, 2047, 20470}
    Replicas = {1, 2, 3, 5}
    MaxEntries = 2
INVARIANTS TypeOK HistoryReplays FreezeExplained
    SubscriptionTypeOK NeverUndercharged 
PROPERTIES LifecycleSpec
\* Clock, history, calls and entries are bounded, so a behaviour may stop.
CHECK_DEADLOCK FALSE
