SPECIFICATION Spec
CONSTANTS
    Workers = {w1, w2}
    Scans = {s1}
    MaxConcurrentScans = 1
    MaxRestarts = 0
    MaxDbErrors = 0
    MaxLoadErrors = 0
INVARIANT LiveScanStaysRunning
CHECK_DEADLOCK FALSE
