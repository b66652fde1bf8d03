SPECIFICATION MCSpec
CONSTANTS
    Login = {l1, l2}
    Refresher = {r1}
    Restorer = {s1}
    Submitter = {b1}
    Leaver = {v1}
    Quitter = {q1}
    Nothing = Nothing
    RotationBound = 2
    QuietBound = 2
    DisturbedBound = 0
    Disturbances = {}
    MayRestart = FALSE
    MayExpire = TRUE
PROPERTIES LogoutEndsItsSession
CHECK_DEADLOCK FALSE
