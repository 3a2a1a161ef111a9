SPECIFICATION Spec
CONSTANTS
    MaxSize = 2
    Grain = 1
    Rate = 1
    Capacity = 3
    MaxIps = 1
    Ips = {ip1}
    Nonces = {n1, n2, n3, n4}
    Paths = {cert}
    ApiKeys = {k1}
    ClientKeys = {k1, k2}
    NoKey = NoKey
    NoRequest = NoRequest
    Unparsable = Unparsable
    TTL = 1
    ClockSkew = 1
    MaxWall = 4
    MaxUptime = 4
    MaxJumps = 0
    MaxRestarts = 1
SYMMETRY Symmetry
INVARIANTS
    IssuedWithinBudget
PROPERTIES
    EvictsOnlyExpired
CHECK_DEADLOCK FALSE
