SPECIFICATION OnboardingSpec
CONSTANTS
    Cred = {c1}
    InstallKey = {k1}
    MaxRevision = 1
    Missing = Missing
    Damaged = Damaged
    Marker = Marker
    On = On
    Off = Off
    MayRot = FALSE
    ClockSize = 8
    TrialMs = 5
    StableMs = 2
    RebootMs = 1
    RetryMs = 1
    RetryCap = 3
    JitterMs = 1
    RequestMs = 2
    MaxDelay = 2
PROPERTIES
    WithdrawnOnlyUnconnected
