SPECIFICATION Spec
CONSTANTS
    Files = {f1}
    MaxAuditCalls = 2
    ContextRounds = 1
    MaxVerifierCalls = 1
    MaxSuggestions = 1
    Cands = {a}
    Confidences = {8}
    MinConfidence = 7
    SuggestFloor = 4
    MinAuditConfidence = 5
    a = a
    b = b
    c = c
    d = d
    e = e
    KeyOf <- MCKeyOf
    Severity <- MCSeverity
    AuditConf <- MCAuditConf
    HardExcluded <- MCExcluded
INVARIANT FailedCallIsReported
CHECK_DEADLOCK FALSE
