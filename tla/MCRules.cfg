SPECIFICATION SessionSpec
CONSTANTS
    h1 = h1
    h2 = h2
    a = a
    b = b
    apology = apology
    v1 = v1
    v2 = v2
    v3 = v3
    list = list
    search = search
    poll = poll
    bare = bare
    key = key
    page = page
    query = query
    None = None
    Families <- AllFamilies
    Chats = {"talk"}
    Menu <- MenuOf
    Gaps <- GapsOf
    MaxSessionCalls <- CallLimits
    BufferSize <- BufferOf
    StormWindow = 4
    MinRetries = 3
    RerankWindow = 2
    MinReranks = 2
    VoiceWindow = 3
    MinVoices = 2
    Threshold = 4
    MinRecentCalls = 2
    Lookback = 3
    SlopeThreshold = 2
    MinTurns = 3
    LoopWindow = 3
    MinLoopCalls = 2
    LoopThreshold = 70
    ThrashWindow = 4
    MinThrashCalls = 3
    ThrashThreshold = 65
    LoopMetric = "tfidf_charngram"
    ThrashMetric = "jaccard"
    Arguments <- MCArguments
    ArgumentLikeness <- MCArgumentLikeness
    PollingTools = {poll}
    RetrievalPatterns = {"search"}
    Matches <- SomeMatches
    MaxCorpus = 70
    ToolCountThreshold = 2
    BytesThreshold = 5
    MaxTotalBytes = 8
    Unserialisable = Unserialisable
    MaxPrompt = 5
    MaxCompletion = 3
    Frontier = {"gpt-4o"}
    Excluded = {"gpt-4o-mini"}
    Vendors = {"openai"}
    VirtualKeys = {key}
    GatewayHosts = {"openrouter.ai"}
    ImageShare = 80
    WindowTurns = 4
    MinCorrections = 1
    SimilarityThreshold = 60
    Drafts <- MCDrafts
    DraftLikeness <- MCDraftLikeness
    LengthRatio = 8
    ImageWindow = 4
    MinImageCalls = 3
    MaxImageBytes = 2
    MaxDistance = 1
INVARIANTS
    CountsTrue
    LoopsTrue
    MatchesTrue
    VerdictsStable
CHECK_DEADLOCK FALSE
