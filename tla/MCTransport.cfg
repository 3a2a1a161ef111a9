SPECIFICATION Spec
CONSTANTS
    c1 = c1
    c2 = c2
    k1 = k1
    k2 = k2
    Certs = {c1, c2}
    Keys = {k1, k2}
    KeyOf <- KeyOfEach
    OwnCert = c1
    OtherCert = OtherCert
    Unset = Unset
    NoUrl = NoUrl
    Chains <- VouchedFor
    MaxRenewals = 2
    MaxFaults = 1
INVARIANTS
    TypeOK
    StartFailsOnlyForCause
    TokenOnlyToTrusted
    PinBreaksOnlyByRestart
    RefusedOnlyForCause
