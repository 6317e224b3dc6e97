SPECIFICATION Spec
CONSTANTS
    Callers = {c1, c2}
    Keys = {a, u}
    Window = 3
    Tokens = {1, 2, 4}
    Waits = {3}
    Deadlines = {4}
    Blocks <- MCBlocks
    MaxNow = 2
    a = a
    b = b
    u = u
    p = p
    ProviderOf <- MCProviderOf
    Limits <- MCLimits
SYMMETRY CallerSymmetry
INVARIANTS WindowFits FirstComeFirstServed StartsAsSoonAsRoom
CHECK_DEADLOCK FALSE
