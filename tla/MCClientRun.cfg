SPECIFICATION Spec
CONSTANTS
    c1 = c1
    c2 = c2
    k1 = k1
    k2 = k2
    Writers = {w1}
    Certs = {c1, c2}
    Keys = {k1, k2}
    KeyOf <- Renewed
    Absent = Absent
    Truncated = Truncated
    Faults = {"stage", "short", "rename_cert", "rename_key", "undo", "unlink", "crash"}
    MaxRenewals = 2
    MaxMishaps = 2
INVARIANTS
    TypeOK
    UnmatchedOnlyForCause
    StaleOnlyAfterMissedHook
PROPERTIES
    EventuallyCurrent
