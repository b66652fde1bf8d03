SPECIFICATION MCSpec
CONSTANTS
    r1 = r1
    r2 = r2
    r3 = r3
    Request = {r1, r2}
    MaxFailed = 2
    LockTime = 2
    TokenTime = 2
    CodeTime = 2
    MaxGuesses = 1
    Cooldown = 1
    Hour = 1
    MaxPerHour = 1
    MaxTime = 4
    MaxTokens = 3
    MaxCodes = 3
    MaxWrong = 3
SYMMETRY Symmetry
INVARIANTS OldPasswordOpensNothing TwinsAreExplained CodesAreSingle LimitsHold LockIsEarned
CHECK_DEADLOCK FALSE
