SPECIFICATION Spec
CONSTANTS
    None = None
    NoRate = NoRate
    MaxAudioBytes = 4
    Iterator = Iterator
    Rates <- MCRates
    FallbackRate = 1
    VirtualKey = "key"
    PricedVendors <- MCVendors
    DottedVendors <- MCDotted
    Answers <- MCAnswers
    Wires <- MCWires
    Model <- MCModel
    Estimate = 2
    Plans <- MCPlans
    MaxCalls = 2
INVARIANT WithGuaranteesHalt
CHECK_DEADLOCK FALSE
