SPECIFICATION FairSpec
CONSTANTS
    Files = {f1, f2}
    MaxAuditCalls = 3
    ContextRounds = 2
    MaxVerifierCalls = 2
    MaxSuggestions = 1
    Cands = {a, b, c, e}
    Confidences = {5, 8}
    MinConfidence = 7
    SuggestFloor = 4
    MinAuditConfidence = 5
    a = a
    b = b
    c = c
    d = d
    e = e
    KeyOf <- MCKeyOf
    Severity <- MCSeverity
    AuditConf <- MCAuditConf
    HardExcluded <- MCExcluded
INVARIANTS LaterChunksHaveCalls CoverageIsPartition CandidatesAddUp CompleteIsEarned
PROPERTY ReviewReturns
CHECK_DEADLOCK FALSE
