SPECIFICATION LSpec
CONSTANTS
    Unit = 2
    Capacity = 2
    Rate = 1
    Gateways = {g1, g2}
    Users = {u1}
    Requests = {r1, r2}
    BucketTTL = 2
    BlockTTL = 1
    Skew <- MCSkewed
    MaxTime = 3
    MaxEvals = 3
INVARIANT LTypeOK
INVARIANT AdmissionBound
PROPERTY DeniedOnlyTooEarly
SYMMETRY MCSymmetry
