SPECIFICATION GFairSpec
CONSTANTS
    Users = {u1}
    Requests = {q1, q2}
    MaxRetries = 2
    Sends = 2
    BucketTicks = 1
    MaxTime = 1
    Unit = 2
    Capacity = 2
    Rate = 1
    BucketTTL = 2
    BlockTTL = 1
    MaxFresh = 1
INVARIANT GTypeOK
INVARIANT OneRowPerRequest
INVARIANT CountsWithinBounds
INVARIANT AnswersMatchUpstream
INVARIANT CountedIsAdmitted
PROPERTY RequestsEnd
