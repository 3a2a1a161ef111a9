SPECIFICATION Spec
CONSTANTS
    Grain = 2
    Rate = 1
    Capacity = 2
    MaxIps = 2
    Ips = {ip1, ip2, ip3}
    MaxClock = 4
INVARIANTS
    TypeOK
    GrantedBound
    TracksMostRecent
PROPERTIES
    ImplementsTokenBuckets
