--------------------------- MODULE MCMobileSession ---------------------------
(***************************************************************************)
(* Bounds for TLC on module MobileSession.                                 *)
(***************************************************************************)
EXTENDS MobileSession, FiniteSets, TLC

CONSTANTS
    RotationBound,   \* no login gets more refresh tokens than this,
    QuietBound,      \* or than this as long as nothing went wrong
    DisturbedBound,  \* at most this many kinds of disturbance
    Disturbances,    \* which kinds happen
    MayRestart,      \* whether the app is closed and opened again
    MayExpire        \* whether refresh tokens expire, while nothing went wrong

\* A refresh request, or its reply, gets lost.
Loses ==
    \/ late' \ late # {}
    \/ \E o \in Op :
          op[o].pc = "answered" /\ ~op[o].stale /\ op'[o].pc \in {"idle", "delay"}

\* A request is lost once at most.
WithinBounds ==
    /\ \A l \in Login :
          issued'[l] <= IF disturbed' = {} THEN QuietBound ELSE RotationBound
    /\ disturbed' \subseteq Disturbances
    /\ Cardinality(disturbed') <= DisturbedBound
    /\ "lost" \in disturbed => ~Loses

\* Once SecureStore has failed, what was begun goes on, and nothing new begins.
MayBegin == disturbed \cap {"disk", "unread"} = {}

MCNext ==
    /\ \/ \E o \in Op : Proceed(o)
       \/ Render
       \/ ArriveLate
       \/ /\ MayBegin
          /\ \/ \E o \in Refresher : Unauthorized(o)
             \/ Tap
             \/ MayRestart /\ Restart
             \/ MayExpire /\ disturbed = {} /\ Expire
    /\ WithinBounds

MCSpec == Init /\ [][MCNext]_vars

\* Logins and slots are interchangeable.
Symmetric ==
    Permutations(Login) \cup Permutations(Refresher) \cup Permutations(Restorer)
        \cup Permutations(Submitter) \cup Permutations(Leaver)

MCFairSpec == MCSpec /\ Fairness
=============================================================================
