SPECIFICATION Spec
CONSTANTS
    FailOnPartial = TRUE
    GateOnDeterministic = FALSE
    PollDeadline = 3
    SlowestPoll = 2
    Results <- MCResults
    Thresholds = {0, 2, 3, 99}
    Prs = {p1, p2, p3}
    Silent = {p3}
    PrLimit = 2
    MaxUpdates = 3
    MaxIngests = 2
    Scanners = {s1, s2}
    Inputs <- MCInputs
    TextLength <- MCTextLength
    BatchSize = 2
    FlushEvery = 1
    Voters = {v1, v2}
    Findings = {"f", "g"}
    PointOf <- MCPointOf
    CandidateMatches <- MCCandidateMatches
    FunctionOf <- MCFunctionOf
    NoProb <- MCNoProb
    RerankThreshold = 5
    SuppressNet <- MCSuppressNet
    TopK = 2
    Downweight = 15
    Items <- MCItems
    Repeats = 2
    AuditCalls = 3
    ContextRounds = 1
    VerifierCap = 1
    RunLimits <- MCRunLimits
    MaxRateLimited = 2
    MaxUsage = 1
    MaxEvals = 2
    Runs = {r1, r2}
    Markers = {a, b, o, p}
    Texts = {t1, t2}
    a = a
    b = b
    o = o
    p = p
    t1 = t1
    t2 = t2
    Legacy <- MCLegacy
    Wants <- MCWants
    OldComments <- MCOldComments
    Ecosystems <- MCEcosystems
    Listed <- MCListed
    FixOf <- MCFixOf
    NoFix = "none"
    FilesOf <- MCFilesOf
    PairsOf <- MCPairsOf
    Gone <- MCGone
    MaxAdvisories = 2
    EvalPercent = 50
    MinChanged = 1
    MaxFunctions = 2
    DropOther = FALSE
    KeepSecure = TRUE
    MaxBuilds = 3
    MaxBuildFaults = 2
    Corpora <- MCCorpora
    CodeQueries = {"q"}
    Languages = {"py", "js"}
    DenseSim <- MCDenseSim
    SparseSim <- MCSparseSim
    DenseMin = 5
    SparseMin = 3
    TwinMin = 0
    AnnCandidates = 2
    UpsertBatch = 2
    NoText = "none"
    NoMargin <- MCNoMargin
    MaxFlips = 2
    MaxScripts = 2
SYMMETRY RunSymmetry
INVARIANTS
    CleanRunIsExact ThreadsSurvive SerialRunsPostOnce
    ExitIsEarned CrawlMissesNothing RetrievalSound VotesCount ResumeIsReplay BoundsHold CorpusAddsUp
CHECK_DEADLOCK FALSE
