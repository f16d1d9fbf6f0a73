SPECIFICATION CallsSpec
CONSTANTS
    start = start
    moved = moved
    elsewhere = elsewhere
    Place <- Places
    Home <- HomePlaces
    MaxRedirects = 10
    FetchLimit = 20
    email = email
    ssn = ssn
    Item <- Items
    Answers <- AllAnswers
    ProviderErrors <- AllErrors
    Kinds <- AllKinds
    LineEnds <- BothLineEnds
    MaxLines = 3
    bedrock = bedrock
    gemini = gemini
    ollama = ollama
    openai = openai
    Provider <- FourProviders
    PageSizes <- Sizes
    ServerMax = 3
    MaxChanges = 2
INVARIANTS
    CredentialsStayHome
    IdentityAsChosen
    UsesWhatWasShown
    SandboxRunsWhenAllowed
    DuplicateOnlyAfterMisreadError
    InOrderWithoutGaps
    ReturnsComplete
    WalkAccountsForChanges
PROPERTIES
    DepartsOnlyByReturning
    ChecksGuardTheTool
    RedirectsEnd
    ReadsEnd
\* A stream whose call is over, or whose server is silent, stops.
CHECK_DEADLOCK FALSE
