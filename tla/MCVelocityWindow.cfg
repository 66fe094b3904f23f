SPECIFICATION Spec
CONSTANTS
    Threads = {t1, t2}
    Tokens = {1, 2}
    MaxTokens = 2
    Caps = {2, NoCap}
    MaxCap = 2
    NoCap = NoCap
    Window = 2
    MaxTime = 4
    MaxCalls = 4
SYMMETRY Symmetry
INVARIANTS
    WindowComplete
    VelocityOvershootBounded
CHECK_DEADLOCK FALSE
