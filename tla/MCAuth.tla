------------------------------- MODULE MCAuth -------------------------------
(***************************************************************************)
(* Instances of module Auth for TLC.                                       *)
(***************************************************************************)
EXTENDS Auth, TLC

CONSTANTS r1, r2, r3

\* A behaviour is about one of these: wrong passwords and lockout, sessions and
\* the end a reset puts to them, or reset codes.
VARIABLE theme

MCInit == Init /\ theme \in {"lockout", "sessions", "codes"}

Lockout(r) == theme = "lockout" /\ SignIn(r)

\* Nobody mistypes, and one code is enough.
Sessions(r) ==
    /\ theme = "sessions"
    /\ \/ Signup(r) \/ Login(r, TRUE) \/ RightPassword(r)
       \/ Session(r)
       \/ Len(codes) < 1 /\ (Forgot(r) \/ Supersede(r) \/ Issue(r))
       \/ Deliver(r)
       \/ mailbox # {} /\ Redeem(r, 1)
       \/ Claim(r)

ResetCodes(r) == theme = "codes" /\ (Signup(r) \/ PasswordReset(r))

MCNext ==
    /\ \/ Tick
       \/ \E r \in Request : Lockout(r) \/ Sessions(r) \/ ResetCodes(r) \/ Abort(r)
    /\ UNCHANGED theme

MCSpec == MCInit /\ [][MCNext]_<<vars, theme>>

Symmetry == Permutations(Request)
=============================================================================
