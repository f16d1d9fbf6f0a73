SPECIFICATION DecisionsSpec
CONSTANTS
    email = email
    ssn = ssn
    Item <- Items
    Callers <- AllCallers
    MaxObligations = 3
    Written <- Lists
    ObligationTypes <- Types
    MaxCapabilities = 2
    Node <- Nodes
    KindOf <- Kinds
    Questions <- MCQuestions
    MAX_ATTRIBUTE_DEPTH = 5
INVARIANTS
    MaskedStaysMasked
    OneEnforcementPoint
    CanonicalDeclaration
    SendsWhatWasEstablished
    SecondPassChangesNothing
PROPERTY FailsClosed
