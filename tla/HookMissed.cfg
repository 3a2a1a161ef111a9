SPECIFICATION Spec
CONSTANTS
    c1 = c1
    c2 = c2
    k1 = k1
    k2 = k2
    Writers = {w1}
    Certs = {c1, c2}
    Keys = {k1, k2}
    KeyOf <- Renewed
    Absent = Absent
    Truncated = Truncated
    Faults = {}
    MaxRenewals = 1
    MaxMishaps = 1
INVARIANT ReloadedWheneverWritten
