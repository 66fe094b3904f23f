SPECIFICATION CaptureSpec
CONSTANTS
    Runs = {r1, r2, r3}
    Chains = {c1, c2}
    Kinds = {"chat_model", "tool"}
    Responses <- MCResponses
    Absent = Absent
    MaxSessions = 3
    Pollers = {t1, t2}
    Jobs = {j1, j2}
    Outcomes <- MCOutcomes
    NoEntry = NoEntry
    None = None
    Iterator = Iterator
    MaxAudioBytes = 1
    TTL = 2
    MaxClock = 4
SYMMETRY Symmetry
INVARIANTS
    RunsSound
    RunsForgotten
    EndsSound
PROPERTIES
    RegistryPruned
CHECK_DEADLOCK FALSE
