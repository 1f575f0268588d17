SPECIFICATION ChargesSpec
CONSTANTS
    Units = 1000
    MaxMantissa = 7922
    Steps = {1, 10, 100, 1000}
    TB = 1024
    Volumes = {1, 333, 1024}
    Replicas = {1, 2, 3, 5}
    MaxEntries = 1
INVARIANTS SplitExact
CHECK_DEADLOCK FALSE
