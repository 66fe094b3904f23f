SPECIFICATION Spec
CONSTANTS
    toolLoop = toolLoop
    thrash = thrash
    bloat = bloat
    Threads = {t1, t2}
    Sessions = {s1}
    NoSession = NoSession
    Kinds = {toolLoop, thrash, bloat}
    RuleOrder <- InOrder
    Firings <- SomeFire
    ToolLoops = {toolLoop}
    Thrashes = {thrash}
    Never = Never
    Window = 1
    Handlers = {h1}
    Sink = Sink
    MaxTime = 5
    MaxCalls = 3
    MaxHandlers = 1
    MaxStall = 3
SYMMETRY Symmetry
INVARIANTS
    ShippedOncePerWindow
    DroppedForAReason
    AllHearBeforeTheRaise
