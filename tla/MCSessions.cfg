SPECIFICATION SSpec
CONSTANTS
    s1 = s1
    s2 = s2
    growth = growth
    search = search
    Threads = {t1, t2}
    Sessions = {s1, s2, Unknown}
    UnknownSession = Unknown
    NoSession = NoSession
    Absent = Absent
    BadTag = BadTag
    MaxRecords = 1
    MaxSessions = 2
    NoLimit = NoLimit
    MaxTagged = 1
    TagSets <- MCTagSets
    RefusedTags <- MCRefused
    GenAISpans <- MCSpans
    MaxOpens = 2
    MaxCalls = 4
SYMMETRY Symmetry
INVARIANTS
    TracerSound
    SeesOwnCall
    TagsSound
    SpansSound
CHECK_DEADLOCK FALSE
