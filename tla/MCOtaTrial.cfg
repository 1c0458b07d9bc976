SPECIFICATION OtaSpec
CONSTANTS
    factory = factory
    a = a
    b = b
    c = c
    Image = {factory, a, b, c}
    Factory = factory
    Version <- MCVersion
    Token = {t1, t2, t3}
    Partial = Partial
    Missing = Missing
    Damaged = Damaged
    HealthMs = 4
    LocalHealthMs = 2
    PollMaxMs = 2
    MaxDelay = 2
    MayRot = TRUE
    MayMislead = FALSE
INVARIANTS
    TrialIsJournaled
PROPERTIES
    TrialEnds
    ConfirmedAsPromised
