SPECIFICATION RFairSpec
CONSTANTS
    Unit = 2
    Capacity = 2
    Rate = 1
    Gateways = {g1, g2}
    Users = {u1}
    Requests = {r1, r2}
    BucketTTL = 1
    BlockTTL = 1
    Skew <- MCSkew
    MaxTime = 2
PROPERTY BlockFreezesBucket
PROPERTY CallsEnd
PROPERTY ImplementsContract
