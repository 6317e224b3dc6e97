SPECIFICATION FairSpec
CONSTANTS
    Calls = {c1, c2}
    Clients = {g, o, f}
    Window = 2
    OutputEstimate = 1
    MinOutput = 2
    Retries = 1
    MaxWait = 1
    RetryAfters = {2}
    Backoffs = {1}
    FormatFallback = {o}
    RefusesFormat = {o, g}
    MaxNow = 2
    g = g
    o = o
    f = f
    openrouter = openrouter
    c1 = c1
    c2 = c2
    ProviderOf <- MCProviderOf
    Limits <- MCLimits
    Chain <- MCChain
    Prompt <- MCPrompt
    Deadline <- MCDeadline
INVARIANTS OutcomesTellWhatHappened ModelsKeepTheirLimit
PROPERTY CallsReturn
CHECK_DEADLOCK FALSE
