SPECIFICATION Spec
CONSTANTS
    None = None
    QuoteWindow = 1
    LooseRadius = 1
    MaxRemovedLines = 2
    GuardWindow = 1
    CorroborationLines = 1
    ControlTexts = {"guard"}
    CommentTexts = {"comment"}
    LooseForm <- MCLooseForm
    Tokens <- MCTokens
    Names = {"x", "y"}
    MaxPrFiles = 2
    MaxChangedLines = 4
    OtherPerRepo = 1
    SideOf <- MCSideOf
    DisplayOf <- MCDisplayOf
    FixCommits <- MCFixCommits
    Fetched <- MCFetched
    MaxFixCommits = 3
    ExcludedRules = {"noisy"}
    RuledLanguages = {"py"}
    ScanUnitShapes <- MCScanUnits
    MaxScanUnits = 3
    Weaknesses <- MCWeaknesses
    Room = 12
    MaxPrompts = 2
    MaxExamples = 2
    MaxContextItems = 2
    MaxDefs = 2
    MaxLines <- MCMaxLines
    Words <- MCWords
    Constructs <- MCConstructs
    MaxConstructs = 3
    QuoteWords <- MCQuoteWords
    MaxQuoteLines = 4
    Confirmed <- MCConfirmed
    Alerts <- MCAlerts
    MaxFindings = 3
    Outcomes <- MCOutcomes
    Hits <- MCHits
    Pieces <- MCPieces
    MaxPieces = 4
    MaxUnclosed = 1
    UnitAnswers <- MCUnitAnswers
    Allowed = {"c"}
    SinkRows <- MCSinkRows
    MaxSinkRows = 5
    MaxPerKind = 2
    MaxPerFile = 3
    Claims <- MCClaims
    WindowMax = 3
    LastWindow = 1
    MarkerCost = 2
    FailOnPartial = TRUE
    GateOnDeterministic = FALSE
    Shapes <- MCShapes
    MaxFiles = 4
    Matches <- MCMatches
    Symbols <- MCSymbols
    Calls <- MCCalls
    Requests <- MCRequests
    DefCost <- MCDefCost
    ContextCap = 5
    MaxRounds = 2
    Unscored = Unscored
    SimThreshold = 5
    RerankThreshold = 5
    MarginMin = 1
    RetrievalTopK = 2
    MinConfidence = 7
    SuggestFloor = 4
    MaxSuggestions = 1
    MinAuditConfidence = 5
    MaxVerifierCalls = 2
    LocaliseTolerance = 1
    Retrieved <- MCRetrieved
    MaxRetrieved = 3
    EvalCandidates <- MCEvalCandidates
    Truths <- MCTruths
    Items <- MCItems
    Commits <- MCCommits
    MaxItems = 4
    ItemQuotas <- MCItemQuotas
    Mixes <- MCMixes
INVARIANTS
    DiffsAgree ChangedFunctionsPlanned GuardDiffSound EvidenceFound ReportAddsUp AnswersHold
    PromptsSound ReplaysAgree DataSetsSound
CHECK_DEADLOCK FALSE
