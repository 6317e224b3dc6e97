SPECIFICATION Spec
CONSTANTS
    Workers = {w1, w2}
    Scans = {s1, s2}
    MaxConcurrentScans = 1
    MaxRestarts = 2
    MaxDbErrors = 2
    MaxLoadErrors = 1
SYMMETRY FleetSymmetry
INVARIANTS OneRunner RecoveryIsWhole
CHECK_DEADLOCK FALSE
