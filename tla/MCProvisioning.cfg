SPECIFICATION Spec
CONSTANTS
    Clients = {c1, c2}
    Peers = {front, nat}
    TrustedProxies = {front}
    Capacity = 7
    Rate = 7
    Serials = {1, 2, 3, 4}
    NoNonce = NoNonce
    MaxMishaps = 2
INVARIANTS
    TypeOK
    FailsOnlyForMishap
    RefusedOnlyWhenCrowded
PROPERTIES
    EveryClientServed
