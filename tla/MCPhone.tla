------------------------------- MODULE MCPhone -------------------------------
(***************************************************************************)
(* The two parts of the app that a login and a logout set going, for TLC:  *)
(* its session (MobileSession) and the registration of the phone for push  *)
(* alerts (DeviceRegistration).  The second takes of the first only who is *)
(* signed in, in any order of logins and logouts, so that a behaviour      *)
(* keeps to one of the two.                                                *)
(***************************************************************************)
EXTENDS MCMobileSession

CONSTANTS
    People, Channel, PhoneOp, Unset, Null,
    Disorders,       \* what may go wrong or cross
    DisorderBound,   \* how much of it at a time
    LateBound        \* at most this many requests arrive after they were given up

VARIABLES
    part,
    session, signingOut, phoneOp, newest, latestRun, registered, cache, row, arriving, disorder

phoneVars == <<session, signingOut, phoneOp, newest, latestRun, registered, cache, row,
               arriving, disorder>>

Phone == INSTANCE DeviceRegistration WITH
    User <- People, Op <- PhoneOp, op <- phoneOp, late <- arriving

PhoneInit ==
    /\ part \in {"session", "registration"}
    /\ Init /\ Phone!Init
    /\ part = "registration" => stored = Nothing

UseSession ==
    /\ part = "session"
    /\ MCNext
    /\ UNCHANGED <<part, phoneVars>>

Register ==
    /\ part = "registration"
    /\ Phone!Next
    /\ disorder' \subseteq Disorders
    /\ Cardinality(disorder') <= DisorderBound
    /\ Cardinality(arriving') <= LateBound
    /\ UNCHANGED <<part, vars>>

PhoneNext == UseSession \/ Register

PhoneSpec == PhoneInit /\ [][PhoneNext]_<<part, vars, phoneVars>>

\* What the app knows of its registration is not from before the last logout
\* (registrationWriteSequence of pushNotifications.ts).
LogoutForgets == Phone!LogoutForgets

\* App and backend agree about the registration, once nothing is under way
\* (pushNotifications.ts and api/v1/devices.py).
Agreement == Phone!Agreement
=============================================================================
