SPECIFICATION Spec
CONSTANTS
    MaxSize = 3
    Grain = 1
    Rate = 2
    Capacity = 2
    MaxIps = 1
    Ips = {ip1}
    Nonces = {n1, n2, n3}
    Paths = {cert, privkey}
    ApiKeys = {k1}
    ClientKeys = {k1, k2}
    NoKey = NoKey
    NoRequest = NoRequest
    Unparsable = Unparsable
    TTL = 1
    ClockSkew = 1
    MaxWall = 2
    MaxUptime = 2
    MaxJumps = 0
    MaxRestarts = 1
SYMMETRY Symmetry
CHECK_DEADLOCK FALSE
INVARIANT OneTimeUse
