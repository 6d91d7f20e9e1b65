SPECIFICATION Spec
CONSTANTS
    Unit = 1
    Capacity = 1
    Rate = 1
    Users = {u1}
    Requests = {r1, r2}
    Skew <- MCSkewed
    TableSkew = 1
    MaxSkew = 1
    BucketTTL = 3
    BlockTTL = 2
    CallTime = 1
    MaxTime = 3
    MaxGrants = 3
    MaxRegress = 1
INVARIANT TypeOK
INVARIANT SerialCallsKeepPromise
INVARIANT SerialCallsKeepBlocks
