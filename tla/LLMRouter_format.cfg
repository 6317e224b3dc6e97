SPECIFICATION Spec
CONSTANTS
    Calls = {c1, c2}
    Clients = {f}
    Window = 3
    OutputEstimate = 1
    MinOutput = 2
    Retries = 1
    MaxWait = 2
    RetryAfters = {3}
    Backoffs = {1}
    FormatFallback = {f}
    RefusesFormat = {f}
    MaxNow = 4
    g = g
    o = o
    f = f
    openrouter = openrouter
    c1 = c1
    c2 = c2
    ProviderOf <- MCProviderOf
    Limits <- MCNoLimits
    Chain <- MCChainFree
    Prompt <- MCPrompt
    Deadline <- MCDeadline
INVARIANT RejectedFormatIsRetried
CHECK_DEADLOCK FALSE
