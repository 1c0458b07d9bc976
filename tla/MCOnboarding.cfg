SPECIFICATION OnboardingSpec
CONSTANTS
    Cred = {c1}
    InstallKey = {k1}
    MaxRevision = 2
    Missing = Missing
    Damaged = Damaged
    Marker = Marker
    On = On
    Off = Off
    MayRot = FALSE
    ClockSize = 7
    TrialMs = 4
    StableMs = 2
    RebootMs = 1
    RetryMs = 1
    RetryCap = 3
    JitterMs = 1
    RequestMs = 2
    MaxDelay = 2
INVARIANTS
    OnboardingTypeOK
    NetworkFollowsStore
PROPERTIES
    AdoptedOnlyIfStable
    TrialIsDecided
    OfflineStationRetries
