SPECIFICATION BusySpec
CONSTANTS
    Unit = 2
    Capacity = 2
    Rate = 1
    Gateways = {g1}
    Users = {u1}
    Requests = {r1}
    BucketTTL = 2
    BlockTTL = 1
    Skew <- MCSkew
    MaxTime = 1
PROPERTY GatewayRecovers
