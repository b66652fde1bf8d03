SPECIFICATION MCFairSpec
CONSTANTS
    s1 = s1
    s2 = s2
    s3 = s3
    u1 = u1
    m1 = m1
    r1 = r1
    r2 = r2
    a = a
    b = b
    web = web
    cron = cron
    Listing = {a, b}
    IdOf <- TwoIds
    Search = {s1, s2, s3}
    User = {u1}
    NoUser = NoUser
    NoSearch = NoSearch
    OwnerOf <- OneLegacy
    Marketplace = {m1}
    MarketplacesOf <- OneMarketplace
    Results <- AnyResult
    Runner = {r1, r2}
    ByHand = {r1}
    Process = {web, cron}
    ProcessOf <- TwoProcesses
    Theme = {"order", "twins", "delete"}
INVARIANTS EveryMatchIsAttributed AttributedMeansAlerted EnqueueNeverCollides
PROPERTIES AlertsAreEarned GuardIsReleased
CHECK_DEADLOCK FALSE
