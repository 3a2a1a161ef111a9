SPECIFICATION WriterSpec
CONSTANTS
    c1 = c1
    c2 = c2
    c3 = c3
    k1 = k1
    k2 = k2
    Writers = {w1}
    Certs = {c1, c2, c3}
    Keys = {k1, k2}
    KeyOf <- Issued
    Absent = Absent
    Truncated = Truncated
    Faults = {"rename_key"}
SYMMETRY Symmetry
INVARIANT FailureKeepsAPair
