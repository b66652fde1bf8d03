SPECIFICATION MCSpec
CONSTANTS
    s1 = s1
    s2 = s2
    job = job
    scanner = scanner
    hand = hand
    repair = repair
    cron = cron
    web = web
    script = script
    Thread = {job, scanner, hand, repair}
    Process = {cron, web, script}
    Home <- Homes
    Role <- Roles
    Market = {"bonanza", "ebay", "etsy", "mock", "reverb", "tradera"}
    Configured = {"bonanza", "ebay", "reverb", "tradera"}
    Timeout = 1
    Backoff <- Backoffs
    MaxRetries = 2
    Waits = {5}
    Lifetime = 10
    Margin = 8
    Limit = 2
    PerPage = 1
    MaxPages = 2
    Sizes = {0, 1}
    MaxTime = 13
    Search = {s1, s2}
    Query = {"q1", "q2"}
    Interval = {4, 8}
    Period = 4
    Jitter = 1
    Grace = 1
INVARIANTS NoTickSkipped AnswersAreOwn TokenOutlivesItsUse
CHECK_DEADLOCK FALSE
