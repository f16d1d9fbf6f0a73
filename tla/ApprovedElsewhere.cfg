SPECIFICATION FairSpec
CONSTANTS
    toolA = toolA
    toolB = toolB
    deploy = deploy
    w1 = w1
    w2 = w2
    None = None
    Node <- Nodes
    SafeName <- SameName
    ExplicitId <- OneId
    Workflow <- BothWorkflows
    MaxGates = 2
    PollInterval = 1
    Timeout = 2
PROPERTY ApprovedMeansItsOwn
CHECK_DEADLOCK FALSE
