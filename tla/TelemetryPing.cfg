SPECIFICATION PingFairSpec
CONSTANTS
    langgraph = langgraph
    shouted = shouted
    litellm = litellm
    blank = blank
    version = version
    tier = tier
    RawName <- Names
    Normal <- NormalNames
    Field <- Fields
    Timeout = 4
    HealthCap = 2
    MinBudget = 1
    MaxStep = 3
    MaxFeatures = 1
INVARIANTS
    BudgetKept
    ProbeNeverCostsThePing
    DeliveredMeansTaken
    PingIsTruthful
PROPERTY PingEnds
