SPECIFICATION MCFairSpec
CONSTANTS
    Notification = {1, 2}
    Listing = {1, 2}
    ListingOf <- OwnListing
    User = {u1}
    Search = {}
    Destination = {c1}
    Worker = {w1}
    Channel = "telegram"
    ProviderEnabled = TRUE
    BatchSize = 1
    Lease = 1
    NoDestinationRetry = 1
    MaxAttempts = 1
    NoUser = NoUser
    NoSearch = NoSearch
    AttemptBound = 3
    CrashBound = 1
    CrashAgain = FALSE
    MayDelete = FALSE
    GivenUpBound = 2
PROPERTIES EveryAlertSettles FreshIsServed
CHECK_DEADLOCK FALSE
