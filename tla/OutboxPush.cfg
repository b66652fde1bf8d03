SPECIFICATION MCSpec
CONSTANTS
    Notification = {1, 2}
    Listing = {1}
    ListingOf <- OneListing
    User = {u1, u2}
    Search = {s1}
    Destination = {d1, d2}
    Worker = {w1}
    Channel = "push"
    ProviderEnabled = TRUE
    BatchSize = 2
    Lease = 0
    NoDestinationRetry = 1
    MaxAttempts = 1
    NoUser = NoUser
    NoSearch = NoSearch
    AttemptBound = 2
    CrashBound = 0
    CrashAgain = FALSE
    MayDelete = FALSE
    GivenUpBound = 1
INVARIANTS FailedMeansUndelivered OnlyOwnersReceive
CHECK_DEADLOCK FALSE
