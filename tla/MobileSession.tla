---------------------------- MODULE MobileSession ----------------------------
(***************************************************************************)
(* The session of the mobile app (mobile/src/auth/AuthContext.tsx,         *)
(* mobile/src/api/client.ts) and what the backend makes of its refresh     *)
(* tokens.  Restoration at startup, the handler of a 401, login, logout    *)
(* and "sign in instead" are asynchronous operations: JavaScript runs one  *)
(* of them at a time, but every await lets the others in.  A step of the   *)
(* model is what an operation does between two awaits.                     *)
(*                                                                         *)
(* An operation captures the session generation when it begins; the model  *)
(* keeps, instead of the counter, which operations are stale because the   *)
(* generation has moved on since.                                          *)
(***************************************************************************)
EXTENDS Integers, Sequences

CONSTANTS
    Login,       \* successful logins and signups; each starts a session
    Refresher,   \* slots for runs of the 401 handler
    Restorer,    \* slots for runs of performRestore
    Submitter,   \* slots for logins and signups under way
    Leaver,      \* slots for logouts
    Quitter,     \* slots for taps on "Sign in instead"
    Nothing      \* null

ASSUME MobileSessionAssumption ==
    /\ Nothing \notin Login /\ Nothing \notin Login \X Nat
    /\ Refresher \cap Restorer = {} /\ Leaver \cap Quitter = {}
    /\ Submitter \cap (Leaver \cup Quitter) = {}
    /\ (Refresher \cup Restorer) \cap (Submitter \cup Leaver \cup Quitter) = {}

VARIABLES
    status,    \* AuthContext's status
    screen,    \* what is rendered of it: what the user can tap
    access,    \* the login whose access token is in memory
    user,      \* the login whose user is shown
    stored,    \* the refresh token in SecureStore
    disk,      \* operations that wait for SecureStore, in call order
    carried,   \* requests with an access token may be in flight
    op,        \* the state of each operation
    \* The backend:
    live,      \* refresh tokens it would rotate
    revoked,   \* those it has rotated or revoked
    issued,    \* how many tokens each login has got
    late,      \* presented by refresh requests nobody waits for any more
    \* Not known to the code:
    ended,     \* logins whose session the app has begun to end or replace
    reused,    \* tokens the backend has reported as reused
    disturbed  \* what went wrong outside: "lost", "killed", "disk", "unread"; or
               \* "crossed": a superseded refresh has deleted a later login's token

app     == <<status, screen, access, user, stored, disk, carried, op>>
backend == <<live, revoked, issued, late, reused>>
vars    == <<status, screen, access, user, stored, disk, carried, op,
             live, revoked, issued, late, ended, reused, disturbed>>

-----------------------------------------------------------------------------
Op == Refresher \cup Restorer \cup Submitter \cup Leaver \cup Quitter

Idle == [pc |-> "idle",
         token |-> Nothing,     \* read, or received
         matches |-> FALSE,     \* what a compare-and-clear has found
         stale |-> FALSE,       \* its generation is no longer current
         attempt |-> 1,
         for |-> Nothing]       \* the session logout was asked to end

LoginOf(t) == IF t = Nothing THEN Nothing ELSE t[1]

Expired(t) == t \notin live \cup revoked

-----------------------------------------------------------------------------
\* SecureStore serves calls in order: a call takes effect when it is made, and
\* its caller goes on some time later, but never before an earlier caller.

Resumable(o) == disk # <<>> /\ Head(disk) = o

Resumed(o) == IF Resumable(o) THEN Tail(disk) ELSE disk

-----------------------------------------------------------------------------
\* Session generations.

\* Mutant: the generation does not move on.
SameGeneration(ops) == ops

\* beginNewGeneration
BeginNewGeneration(ops) ==
    [p \in Op |-> IF \/ p \in Refresher \cup Restorer /\ ops[p].pc # "idle"
                     \/ p \in Submitter /\ ops[p].pc = "storing"
                  THEN [ops[p] EXCEPT !.stale = TRUE]
                  ELSE ops[p]]

\* Mutant: results are applied whatever has happened meanwhile.
NeverStale(o) == FALSE

\* generationRef.current !== generation
Stale(o) == op[o].stale

\* A run of the 401 handler that ends lets go the requests that wait for it.
Ended(o, renewed) ==
    [p \in Op |->
        IF p = o THEN Idle
        ELSE IF o \in Refresher /\ op[p].pc = "meWaits"
        THEN [op[p] EXCEPT !.pc = IF renewed THEN "meAgain" ELSE "meFailed"]
        ELSE op[p]]

Discard(o) ==
    /\ op' = Ended(o, FALSE)
    /\ UNCHANGED <<status, access, user, carried>>

\* clearSession up to its await.  A deletion that fails is ignored.
ClearSession(o) ==
    /\ op' = [BeginNewGeneration(op) EXCEPT
                 ![o] = [Idle EXCEPT !.pc = "clearing", !.for = op[o].for]]
    /\ disk' = Append(Resumed(o), o)
    /\ ended' = ended \cup ({access, LoginOf(stored)} \ {Nothing})
    /\ \/ stored' = Nothing /\ UNCHANGED disturbed
       \/ UNCHANGED stored /\ disturbed' = disturbed \cup {"disk"}
    /\ UNCHANGED <<status, access, user, carried>>

\* The rest of clearSession.
SessionCleared(o) ==
    /\ op[o].pc = "clearing" /\ Resumable(o)
    /\ op' = Ended(o, FALSE)
    /\ disk' = Resumed(o)
    /\ access' = Nothing /\ user' = Nothing /\ status' = "unauthenticated"
    /\ UNCHANGED <<screen, stored, carried, backend, ended, disturbed>>

-----------------------------------------------------------------------------
\* The backend: AuthService.refresh and logout.  The sessions are all of one
\* account; presenting a revoked token revokes every token of the account.

Issued == UNION {{l} \X (0..(issued[l] - 1)) : l \in Login}

RotationOf(t) == IF t \in live THEN <<t[1], issued[t[1]]>> ELSE Nothing

Rotate(t) ==
    \/ /\ t \in live
       /\ live' = (live \ {t}) \cup {RotationOf(t)}
       /\ revoked' = revoked \cup {t}
       /\ issued' = [issued EXCEPT ![t[1]] = @ + 1]
       /\ UNCHANGED reused
    \/ /\ t \in revoked
       /\ live' = {}
       /\ revoked' = Issued
       /\ reused' = reused \cup {t}
       /\ UNCHANGED issued
    \/ /\ Expired(t)
       /\ UNCHANGED <<live, revoked, issued, reused>>

\* A refresh request that was given up arrives after all.
ArriveLate ==
    /\ \E t \in late : Rotate(t) /\ late' = late \ {t}
    /\ UNCHANGED <<app, ended, disturbed>>

\* A token expires.
Expire ==
    /\ \E t \in live : live' = live \ {t}
    /\ UNCHANGED <<app, revoked, issued, late, reused, ended, disturbed>>

-----------------------------------------------------------------------------
\* performRefresh, the core of restoration and of the 401 handler.

Begun(attempt) ==
    [Idle EXCEPT !.pc = "reading", !.token = stored, !.attempt = attempt]

Begin(o, attempt) ==
    /\ op' = [op EXCEPT ![o] = Begun(attempt)]
    /\ disk' = Append(disk, o)

\* Mutant: when the retry fails as well, the loop just ends.
RetryOnly(o) ==
    /\ op' = IF op[o].attempt = 1
             THEN [op EXCEPT ![o].pc = "delay", ![o].token = Nothing]
             ELSE [op EXCEPT ![o] = Idle]
    /\ UNCHANGED <<status, access, user, carried>>

\* A restoration that failed transiently: one automatic retry.
RetryLater(o) ==
    /\ IF op[o].attempt = 1
       THEN /\ op' = [op EXCEPT ![o].pc = "delay", ![o].token = Nothing]
            /\ UNCHANGED status
       ELSE /\ op' = [op EXCEPT ![o] = Idle]
            /\ status' = "restoration-error"
    /\ UNCHANGED <<access, user, carried>>

\* The stored token has been read.
ReadToken(o) ==
    /\ op[o].pc = "reading" /\ Resumable(o)
    /\ \/ /\ op[o].token # Nothing
          /\ op' = [op EXCEPT ![o].pc = "sent"]
          /\ disk' = Resumed(o)
          /\ UNCHANGED <<status, access, user, carried, stored, ended, disturbed>>
       \/ /\ op[o].token = Nothing /\ Stale(o)
          /\ Discard(o)
          /\ disk' = Resumed(o)
          /\ UNCHANGED <<stored, ended, disturbed>>
       \/ /\ op[o].token = Nothing /\ ~Stale(o) /\ o \in Refresher
          /\ ClearSession(o)
       \/ /\ op[o].token = Nothing /\ ~Stale(o) /\ o \in Restorer
          /\ op' = [op EXCEPT ![o] = Idle]
          /\ status' = "unauthenticated"
          /\ disk' = Resumed(o)
          /\ UNCHANGED <<access, user, carried, stored, ended, disturbed>>
    /\ UNCHANGED <<screen, backend>>

\* The backend handles the request.
Present(o) ==
    /\ op[o].pc = "sent"
    /\ Rotate(op[o].token)
    /\ op' = [op EXCEPT ![o].pc = "answered", ![o].token = RotationOf(@)]
    /\ UNCHANGED <<status, screen, access, user, stored, disk, carried, late,
                   ended, disturbed>>

\* Timeout, network error or 5xx: the request was lost or is still under way,
\* or only its reply was lost.
FailTransiently(o) ==
    /\ \/ op[o].pc = "sent" /\ UNCHANGED <<late, disturbed>>
       \/ /\ op[o].pc = "sent"
          /\ late' = late \cup {op[o].token}
          /\ disturbed' = disturbed \cup {"lost"}
       \/ /\ op[o].pc = "answered"
          /\ disturbed' = disturbed \cup {"lost"}
          /\ UNCHANGED late
    /\ IF Stale(o) \/ o \in Refresher THEN Discard(o) /\ UNCHANGED status
                                       ELSE RetryLater(o)
    /\ UNCHANGED <<screen, stored, disk, live, revoked, issued, reused, ended>>

\* A 401 is definitive.
Rejected(o) == ClearSession(o)

\* Mutant: the old token is kept until the app is closed.
PersistLater(o) ==
    /\ op' = [op EXCEPT ![o].pc = "storing"]
    /\ disk' = Append(disk, o)
    /\ UNCHANGED <<status, access, user, carried, stored, ended, disturbed>>

\* The rotated token replaces the old one in SecureStore.
Persist(o) ==
    /\ disk' = Append(disk, o)
    /\ \/ /\ stored' = op[o].token
          /\ op' = [op EXCEPT ![o].pc = "storing"]
          /\ UNCHANGED disturbed
       \/ /\ op' = [op EXCEPT ![o].pc = "storeFailed"]
          /\ disturbed' = disturbed \cup {"disk"}
          /\ UNCHANGED stored
    /\ UNCHANGED <<status, access, user, carried, ended>>

Answered(o) ==
    /\ op[o].pc = "answered"
    /\ \/ /\ Stale(o)
          /\ Discard(o)
          /\ UNCHANGED <<disk, stored, ended, disturbed>>
       \/ ~Stale(o) /\ op[o].token = Nothing /\ Rejected(o)
       \/ ~Stale(o) /\ op[o].token # Nothing /\ Persist(o)
    /\ UNCHANGED <<screen, backend>>

\* Success: the new access token is put to use; a restoration asks /me next.
Refreshed(o) ==
    /\ access' = LoginOf(op[o].token)
    /\ op' = IF o \in Refresher THEN Ended(o, TRUE)
             ELSE [op EXCEPT ![o].pc = "me", ![o].token = Nothing]
    /\ disk' = Resumed(o)
    /\ UNCHANGED stored

\* Superseded during the write: clearRefreshTokenIfMatches reads ...
Undo(o) ==
    /\ op' = [op EXCEPT ![o].pc = "comparing",
                            ![o].matches = stored = op[o].token]
    /\ disk' = Append(Resumed(o), o)
    /\ UNCHANGED <<access, stored>>

Persisted(o) ==
    /\ op[o].pc = "storing" /\ Resumable(o)
    /\ IF Stale(o) THEN Undo(o) ELSE Refreshed(o)
    /\ UNCHANGED <<status, screen, user, carried, backend, ended, disturbed>>

\* The rotated token could not be stored: as bad as a 401.
PersistFailed(o) ==
    /\ op[o].pc = "storeFailed" /\ Resumable(o)
    /\ \/ /\ Stale(o)
          /\ Discard(o)
          /\ disk' = Resumed(o)
          /\ UNCHANGED <<stored, ended, disturbed>>
       \/ ~Stale(o) /\ ClearSession(o)
    /\ UNCHANGED <<screen, backend>>

\* ... and deletes if it matched, whatever is stored by now.
Compared(o) ==
    /\ op[o].pc = "comparing" /\ Resumable(o)
    /\ \/ /\ op[o].matches
          /\ op' = [op EXCEPT ![o].pc = "deleting"]
          /\ disk' = Append(Resumed(o), o)
          /\ \/ /\ stored' = Nothing
                /\ disturbed' = IF stored \in {Nothing, op[o].token} THEN disturbed
                                ELSE disturbed \cup {"crossed"}
             \/ UNCHANGED stored /\ disturbed' = disturbed \cup {"disk"}
       \/ /\ ~op[o].matches
          /\ op' = Ended(o, FALSE)
          /\ disk' = Resumed(o)
          /\ UNCHANGED <<stored, disturbed>>
    /\ UNCHANGED <<status, screen, access, user, carried, backend, ended>>

Undone(o) ==
    /\ op[o].pc = "deleting" /\ Resumable(o)
    /\ Discard(o)
    /\ disk' = Resumed(o)
    /\ UNCHANGED <<screen, stored, backend, ended, disturbed>>

\* SecureStore cannot be read.  Nothing catches this in a restoration or in
\* logout, which end there; the 401 handler's caller and Undo's do.
ReadFails(o) ==
    /\ op[o].pc \in {"reading", "comparing"} /\ Resumable(o)
    /\ Discard(o)
    /\ disk' = Resumed(o)
    /\ disturbed' = disturbed \cup {"unread"}
    /\ UNCHANGED <<screen, stored, backend, ended>>

Refresh(o) ==
    \/ ReadFails(o) \/ ReadToken(o) \/ Present(o) \/ FailTransiently(o) \/ Answered(o)
    \/ Persisted(o) \/ PersistFailed(o) \/ Compared(o) \/ Undone(o)

-----------------------------------------------------------------------------
\* The 401 handler: one run at a time, shared by all requests that wait.

\* Mutant: every 401 starts a refresh of its own.
NoneInFlightIgnored(slots) == TRUE

NoneInFlight(slots) == \A o \in slots : op[o].pc = "idle"

Unauthorized(o) ==
    /\ carried
    /\ op[o].pc = "idle" /\ NoneInFlight(Refresher)
    /\ Begin(o, 1)
    /\ UNCHANGED <<status, screen, access, user, stored, carried, backend,
                   ended, disturbed>>

-----------------------------------------------------------------------------
\* Restoration.

\* A tap may come before a status that was just set is rendered, but "restoring" is
\* rendered before the requests of the restoration that set it are answered.
OnErrorScreen == screen = "restoration-error" /\ status # "authenticated"

RetryRestoration(o) ==
    /\ OnErrorScreen
    /\ op[o].pc = "idle" /\ NoneInFlight(Restorer)
    /\ Begin(o, 1)
    /\ status' = "restoring"
    /\ UNCHANGED <<screen, access, user, stored, carried, backend, ended, disturbed>>

\* The one automatic retry, after a delay.
RetryAutomatically(o) ==
    /\ op[o].pc = "delay"
    /\ IF Stale(o) THEN op' = [op EXCEPT ![o] = Idle] /\ UNCHANGED disk
                    ELSE Begin(o, 2)
    /\ UNCHANGED <<status, screen, access, user, stored, carried, backend,
                   ended, disturbed>>

\* GET /auth/me succeeds, at once or after a refresh of its own.
Me(o) ==
    /\ op[o].pc \in {"me", "meAgain"}
    /\ op' = [op EXCEPT ![o] = Idle]
    /\ IF Stale(o) THEN UNCHANGED <<status, user, carried>>
       ELSE /\ user' = access /\ status' = "authenticated" /\ carried' = TRUE
    /\ UNCHANGED <<screen, access, stored, disk, backend, ended, disturbed>>

MeUnauthorized(o) ==
    /\ op[o].pc = "me"
    /\ \/ /\ ~NoneInFlight(Refresher)
          /\ op' = [op EXCEPT ![o].pc = "meWaits"]
          /\ UNCHANGED disk
       \/ \E r \in Refresher :
             /\ op[r].pc = "idle" /\ NoneInFlight(Refresher)
             /\ op' = [op EXCEPT ![o].pc = "meWaits", ![r] = Begun(1)]
             /\ disk' = Append(disk, r)
    /\ UNCHANGED <<status, screen, access, user, stored, carried, backend,
                   ended, disturbed>>

MeFails(o) ==
    /\ op[o].pc \in {"me", "meAgain", "meFailed"}
    /\ IF Stale(o) THEN Discard(o) /\ UNCHANGED status ELSE RetryLater(o)
    /\ UNCHANGED <<screen, stored, disk, backend, ended, disturbed>>

Restore(o) ==
    RetryAutomatically(o) \/ Me(o) \/ MeUnauthorized(o) \/ MeFails(o)

-----------------------------------------------------------------------------
\* Login and signup.

\* A login is submitted again from the keyboard, or a signup after it, while one is
\* under way: only the button waits for login() to end.
SubmitLogin(o) ==
    /\ screen = "unauthenticated" /\ op[o].pc = "idle"
    /\ op' = [op EXCEPT ![o].pc = "asking"]
    /\ UNCHANGED <<status, screen, access, user, stored, disk, carried, backend,
                   ended, disturbed>>

LoginFails(o) ==
    /\ op[o].pc = "asking"
    /\ op' = [op EXCEPT ![o] = Idle]
    /\ UNCHANGED <<status, screen, access, user, stored, disk, carried, backend,
                   ended, disturbed>>

LoginAnswered(o, l) ==
    /\ op[o].pc = "asking" /\ issued[l] = 0
    /\ issued' = [issued EXCEPT ![l] = 1]
    /\ live' = live \cup {<<l, 0>>}
    /\ ended' = ended \cup {k \in Login : issued[k] > 0}
    /\ disk' = Append(disk, o)
    /\ \/ /\ stored' = <<l, 0>>
          /\ op' = [BeginNewGeneration(op) EXCEPT ![o] =
                       [Idle EXCEPT !.pc = "storing", !.token = <<l, 0>>]]
          /\ UNCHANGED disturbed
       \/ /\ disturbed' = disturbed \cup {"disk"}
          /\ op' = [BeginNewGeneration(op) EXCEPT ![o] =
                       [Idle EXCEPT !.pc = "storeFailed"]]
          /\ UNCHANGED stored
    /\ UNCHANGED <<status, screen, access, user, carried, revoked, late, reused>>

\* The token is stored: the session begins, unless superseded meanwhile.
LoginStored(o) ==
    /\ op[o].pc \in {"storing", "storeFailed"} /\ Resumable(o)
    /\ disk' = Resumed(o)
    /\ op' = [op EXCEPT ![o] = Idle]
    /\ IF op[o].pc = "storeFailed" \/ Stale(o)
       THEN UNCHANGED <<access, user, status, carried>>
       ELSE /\ access' = LoginOf(op[o].token)
            /\ user' = LoginOf(op[o].token)
            /\ status' = "authenticated"
            /\ carried' = TRUE
    /\ UNCHANGED <<screen, stored, backend, ended, disturbed>>

-----------------------------------------------------------------------------
\* Logout, and "sign in instead".

\* The button of the Account screen stays disabled once it was tapped, until the
\* screen is left: after a later login there is a new one.
TapLogout(o) ==
    /\ screen = "authenticated" /\ screen' = "signingOut"
    /\ op[o].pc = "idle"
    /\ op' = [BeginNewGeneration(op) EXCEPT
                 ![o] = [Idle EXCEPT !.pc = "unregistering", !.for = access]]
    /\ ended' = ended \cup ({access, LoginOf(stored)} \ {Nothing})
    /\ UNCHANGED <<status, access, user, stored, disk, carried, backend, disturbed>>

\* unregisterCurrentDeviceToken has ended, one way or the other.
Unregistered(o) ==
    /\ op[o].pc = "unregistering"
    /\ op' = [op EXCEPT ![o].pc = "reading", ![o].token = stored]
    /\ disk' = Append(disk, o)
    /\ ended' = ended \cup ({LoginOf(stored)} \ {Nothing})
    /\ UNCHANGED <<status, screen, access, user, stored, carried, backend, disturbed>>

\* Mutant: with no token there is nothing to do.
NothingToRevokeReturns(o) ==
    /\ op' = [op EXCEPT ![o] = Idle]
    /\ disk' = Resumed(o)
    /\ UNCHANGED <<status, access, user, carried, stored, ended, disturbed>>

NothingToRevoke(o) == ClearSession(o)

LogoutRead(o) ==
    /\ op[o].pc = "reading" /\ Resumable(o)
    /\ \/ /\ op[o].token # Nothing
          /\ op' = [op EXCEPT ![o].pc = "sent"]
          /\ disk' = Resumed(o)
          /\ UNCHANGED <<status, access, user, carried, stored, ended, disturbed>>
       \/ op[o].token = Nothing /\ NothingToRevoke(o)
    /\ UNCHANGED <<screen, backend>>

LogoutHandled(o) ==
    /\ op[o].pc = "sent"
    /\ LET t == op[o].token IN
          /\ live' = live \ {t}
          /\ revoked' = revoked \cup {t}
    /\ op' = [op EXCEPT ![o].pc = "answered"]
    /\ UNCHANGED <<status, screen, access, user, stored, disk, carried, issued,
                   late, reused, ended, disturbed>>

\* Whatever the backend said, or did not say.
LogoutAnswered(o) ==
    /\ op[o].pc \in {"sent", "answered"}
    /\ ClearSession(o)
    /\ UNCHANGED <<screen, backend>>

SignInInstead(o) ==
    /\ OnErrorScreen /\ op[o].pc = "idle"
    /\ ClearSession(o)
    /\ UNCHANGED <<screen, backend>>

-----------------------------------------------------------------------------
\* React renders the status some time after it was set.
Shown == IF screen = "signingOut" THEN "authenticated" ELSE screen

Render ==
    /\ Shown # status /\ screen' = status
    /\ UNCHANGED <<status, access, user, stored, disk, carried, op, backend,
                   ended, disturbed>>

\* The app is closed or killed, and opened again: restoration begins.
Restart ==
    /\ status' = "restoring" /\ screen' = "restoring"
    /\ access' = Nothing /\ user' = Nothing /\ carried' = FALSE
    /\ \E o \in Restorer :
          /\ op' = [[p \in Op |-> Idle] EXCEPT ![o] = Begun(1)]
          /\ disk' = <<o>>
    /\ late' \in {late, late \cup {op[o].token : o \in {p \in Refresher \cup Restorer :
                                                       op[p].pc = "sent"}}}
    /\ disturbed' = IF \E o \in Op : op[o].pc # "idle"
                    THEN disturbed \cup {"killed"} ELSE disturbed
    /\ UNCHANGED <<stored, live, revoked, issued, reused, ended>>

\* The app is opened, with the token of an earlier session or without one.
Init ==
    /\ \/ /\ stored = Nothing
          /\ live = {}
          /\ issued = [l \in Login |-> 0]
       \/ \E l \in Login :
             /\ stored = <<l, 0>>
             /\ live = {<<l, 0>>}
             /\ issued = [k \in Login |-> IF k = l THEN 1 ELSE 0]
    /\ status = "restoring" /\ screen = "restoring"
    /\ access = Nothing /\ user = Nothing /\ carried = FALSE
    /\ \E o \in Restorer :
          /\ op = [[p \in Op |-> Idle] EXCEPT ![o] = Begun(1)]
          /\ disk = <<o>>
    /\ revoked = {} /\ late = {}
    /\ ended = {} /\ reused = {} /\ disturbed = {}

\* What goes on by itself once begun.
Proceed(o) ==
    \/ o \in Refresher \cup Restorer /\ Refresh(o)
    \/ o \in Restorer /\ Restore(o)
    \/ o \in Submitter /\ (\/ LoginFails(o) \/ LoginStored(o)
                           \/ \E l \in Login : LoginAnswered(o, l))
    \/ o \in Leaver /\ (\/ Unregistered(o) \/ ReadFails(o) \/ LogoutRead(o)
                        \/ LogoutHandled(o) \/ LogoutAnswered(o))
    \/ SessionCleared(o)

Tap ==
    \/ \E o \in Restorer : RetryRestoration(o)
    \/ \E o \in Submitter : SubmitLogin(o)
    \/ \E o \in Leaver : TapLogout(o)
    \/ \E o \in Quitter : SignInInstead(o)

Next ==
    \/ \E o \in Op : Proceed(o)
    \/ \E o \in Refresher : Unauthorized(o)
    \/ Tap
    \/ Render
    \/ Restart
    \/ ArriveLate
    \/ Expire

Spec == Init /\ [][Next]_vars

\* Every request is answered or times out, SecureStore answers, timers fire and
\* React renders.  Nothing makes the user tap, a request fail, or the app close.
Fairness == WF_vars(Render) /\ \A o \in Op : WF_vars(Proceed(o))

-----------------------------------------------------------------------------
\* Properties.

AtRest == \A o \in Op : op[o].pc = "idle"

\* The backend takes a token of this app for reused, and signs the account out
\* everywhere, only when something went wrong outside the app, or first with a
\* token of a session that the app had begun to end: never because requests or
\* restorations refresh side by side (client.ts, performRestore).
ReuseIsExplained ==
    disturbed = {} /\ reused # {} => \E t \in reused : LoginOf(t) \in ended

\* Logout is under way.
LeavingNow == \E o \in Leaver : op[o].pc # "idle"

\* The session is being replaced: a login was answered, and takes over as soon as
\* its token is stored.
TakingOver == \E o \in Submitter : op[o].pc = "storing" /\ ~op[o].stale

\* The session is being removed.
ClearingNow == \E o \in Op : op[o].pc = "clearing"

\* Whoever is shown as signed in is the one the access token is for, and the one the
\* stored refresh token belongs to, unless a later login is about to take over, the
\* session is being removed or a logout is under way: no operation that was superseded
\* mixes sessions or loses the token (AuthContext.tsx), but for a superseded refresh that
\* deletes the token of a login that came between its comparison and its deletion.
OneSession ==
    status = "authenticated" /\ disturbed \cap {"disk", "unread", "crossed"} = {} =>
        \/ LeavingNow
        \/ /\ access = user /\ user # Nothing
           /\ LoginOf(stored) = user \/ TakingOver \/ (stored = Nothing /\ ClearingNow)

\* Logout sticks: a session the app has begun to end is shown only until the
\* logout, or the login that ends it, is done, and leaves nothing behind in
\* SecureStore.
LogoutSticks ==
    disturbed \cap {"disk", "killed", "unread", "crossed"} = {} =>
        /\ status = "authenticated" /\ user \in ended =>
              LeavingNow \/ ClearingNow \/ TakingOver
        /\ AtRest => LoginOf(stored) \notin ended

\* After any number of refreshes, retries and failures that never reached the
\* backend, what is stored is a token the backend has not revoked.
SessionStaysUsable ==
    AtRest /\ status \in {"authenticated", "restoration-error"}
    /\ disturbed = {} /\ reused = {} =>
        stored # Nothing /\ stored \notin revoked

\* Restoration never hangs: it ends on a screen where the user can do something.
RestorationEnds ==
    status = "restoring" ~>
        status # "restoring" \/ disturbed \cap {"disk", "unread"} # {}

\* Logout ends on the Login screen, online or offline, whatever runs beside it.
LogoutSignsOut ==
    \A o \in Leaver :
        op[o].pc # "idle" ~> status = "unauthenticated" \/ "unread" \in disturbed

\* AuthContext: an operation begun under a session that has been replaced does
\* not "clobber the session a newer login just established".  Of logout: the
\* session it clears is the one that was shown when the user tapped it.
LogoutEndsItsSession ==
    [][\A o \in Leaver :
         op[o].pc = "clearing" /\ op'[o].pc = "idle" /\ user # Nothing
            => user = op[o].for]_vars
=============================================================================
