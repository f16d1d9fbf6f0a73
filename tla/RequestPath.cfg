SPECIFICATION RequestSpec
CONSTANTS
    root = root
    derived = derived
    s1 = s1
    s2 = s2
    k1 = k1
    k2 = k2
    i1 = i1
    i2 = i2
    None = None
    Original = root
    Client <- Clients
    Session <- TwoSessions
    Call <- TwoCalls
    Id <- TwoIds
SYMMETRY RequestSymmetry
INVARIANTS
    ActsForItsCaller
    LogoutHolds
    ReloginTakesEffect
    OutcomeTellsTheAnswer
    WarnedOncePerRoute
