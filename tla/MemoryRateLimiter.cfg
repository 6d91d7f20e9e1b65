SPECIFICATION Spec
CONSTANTS
    Unit = 2
    Capacity = 3
    Rate = 1
    Users = {u1, u2}
    Requests = {r1, r2}
    BucketTTL = 2
    BlockTTL = 2
    MaxTime = 3
PROPERTY ImplementsContract
