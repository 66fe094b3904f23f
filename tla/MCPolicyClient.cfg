SPECIFICATION FairSpec
CONSTANTS
    Policies <- OnAndOff
    Patterns = {}
    RuleNames = {}
    Unlimited = Unlimited
    NoPolicy = NoPolicy
    Idle = Idle
    Live = Live
    FailureMode = "closed"
    Readers = {r1}
    Sessions = {s1}
    ActivePoll = 1
    IdlePoll = 2
    Backoffs <- OneThree
    Ttls = {0, 2}
    MaxLag = 4
INVARIANTS
    PollingBounded
    ClosedStaysClosed
PROPERTIES
    ImplementsFeed
    KillReachesCache
    StopEndsPolling
