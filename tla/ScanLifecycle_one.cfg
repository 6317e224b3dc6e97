SPECIFICATION FairSpec
CONSTANTS
    Workers = {w1}
    Scans = {s1, s2, s3}
    MaxConcurrentScans = 2
    MaxRestarts = 2
    MaxDbErrors = 1
    MaxLoadErrors = 1
INVARIANTS LiveScanStaysRunning GateAccounting
PROPERTIES JobPromise EveryScanEnds ShutdownDrains
CHECK_DEADLOCK FALSE
