SPECIFICATION MCSpec
CONSTANTS
    Notification = {1}
    Listing = {1}
    ListingOf <- OwnListing
    User = {u1}
    Search = {s1}
    Destination = {c1}
    Worker = {w1, w2}
    Channel = "telegram"
    ProviderEnabled = TRUE
    BatchSize = 1
    Lease = 1
    NoDestinationRetry = 1
    MaxAttempts = 2
    NoUser = NoUser
    NoSearch = NoSearch
    AttemptBound = 3
    CrashBound = 1
    CrashAgain = TRUE
    MayDelete = TRUE
    GivenUpBound = 2
SYMMETRY WorkerSymmetry
INVARIANTS ExclusiveClaim RepeatsAreExplained GivenUpForCause
PROPERTIES KeepsPromise
CHECK_DEADLOCK FALSE
