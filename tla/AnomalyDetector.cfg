SPECIFICATION Spec
CONSTANTS
    Users = {u1, u2}
    Events = {e1, e2}
    CurrentBuckets = 1
    BaselineBuckets = 1
    WindowsPerHour = 1
    Threshold = 1
    MinRequests = 1
    AutoBlock = TRUE
    BlockTTL = 2
    InvocationTime = 1
    Attempts = 2
    MaxRequests = 2
    MaxTime = 1
SYMMETRY MCSymmetry
INVARIANT TypeOK
INVARIANT FlaggedUsersWereBusy
INVARIANT BusyUsersAreFlagged
INVARIANT AlertedUsersAreBlocked
