SPECIFICATION Spec
CONSTANTS
    MaxSize = 2
    Nonces = {n1, n2, n3, n4}
    Never = Never
    MaxClock = 3
SYMMETRY Symmetry
INVARIANTS
    TypeOK
    RemembersRecent
PROPERTIES
    ForgetsOnlyForRoom
