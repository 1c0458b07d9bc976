SPECIFICATION Spec
CONSTANTS
    Cred = {c1, c2}
    InstallKey = {k1, k2}
    MaxRevision = 3
    Missing = Missing
    Damaged = Damaged
    Marker = Marker
    On = On
    Off = Off
    MayRot = FALSE
INVARIANTS
    KeyWasHandedOff
