SPECIFICATION PhoneSpec
CONSTANTS
    Login = {l1, l2}
    Refresher = {r1, r2}
    Restorer = {s1, s2}
    Submitter = {b1, b2}
    Leaver = {v1, v2}
    Quitter = {q1}
    Nothing = Nothing
    RotationBound = 2
    QuietBound = 3
    DisturbedBound = 1
    Disturbances = {"lost", "killed", "disk", "unread"}
    MayRestart = TRUE
    MayExpire = TRUE
    People = {u1, u2}
    Channel = {ping, radar}
    PhoneOp = {o1, o2, o3}
    Unset = Unset
    Null = Null
    Disorders = {"lost", "killed", "overlap", "crossed", "expired", "replaced"}
    DisorderBound = 1
    LateBound = 1
INVARIANTS ReuseIsExplained OneSession LogoutSticks SessionStaysUsable LogoutForgets Agreement
SYMMETRY Symmetric
CHECK_DEADLOCK FALSE
