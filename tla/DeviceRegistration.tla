-------------------------- MODULE DeviceRegistration --------------------------
(***************************************************************************)
(* How one phone registers for push alerts                                 *)
(* (mobile/src/utils/pushNotifications.ts, NotificationSoundScreen.tsx)    *)
(* and what the backend stores of it (api/v1/devices.py): the automatic    *)
(* registration that every sign-in starts, the user's choice of a sound,   *)
(* and the unregistration that logout makes.  Each is a request of its     *)
(* own, none waits for another, and the app keeps two module-level         *)
(* variables about the phone's registration.                               *)
(*                                                                         *)
(* registrationWriteSequence and registrationRunIdRef are counters of      *)
(* which the code only asks whether they have moved on; the model keeps    *)
(* the operation whose number is the current one.                          *)
(***************************************************************************)
EXTENDS Integers

CONSTANTS
    User, Channel,
    Op,      \* slots for the operations under way
    Unset,   \* notification_channel_id is NULL, or is not sent
    Null

VARIABLES
    session,     \* whose access token is in memory
    signingOut,  \* the Account screen has been tapped: no second logout from it
    op,
    newest,      \* the operation with the current registrationWriteSequence
    latestRun,   \* the one with the current registrationRunIdRef
    registered,  \* registeredDeviceToken is set
    cache,       \* lastKnownRegistration
    row,         \* the backend's row of this phone's token
    late,        \* requests the app has given up that may yet arrive
    disorder     \* not known to the code: what has gone wrong, or crossed, since
                 \* a registration was last begun with nothing else under way

app  == <<session, signingOut, op, newest, latestRun, registered, cache>>
vars == <<session, signingOut, op, newest, latestRun, registered, cache, row, late, disorder>>

-----------------------------------------------------------------------------
Idle == [kind |-> "auto", pc |-> "idle", user |-> Null, channel |-> Unset,
         fresh |-> FALSE]   \* begun after the last logout

Busy(o) == op[o].pc # "idle"

Registering == {o \in Op : Busy(o) /\ op[o].kind # "unregister"}
Saving      == {o \in Op : Busy(o) /\ op[o].kind = "save"}
Leaving     == {o \in Op : Busy(o) /\ op[o].kind = "unregister"}

Sent(kind, channel) ==
    [kind |-> kind, pc |-> "sent", user |-> session, channel |-> channel, fresh |-> TRUE]

-----------------------------------------------------------------------------
\* The backend.

\* DeviceTokenRepository.upsert: the token changes hands, and keeps the sound
\* that was chosen on the phone unless another is sent.
Upserted(r) ==
    [owner |-> r.user,
     channel |-> IF r.channel # Unset \/ row = Null THEN r.channel ELSE row.channel]

\* delete_for_user: nobody can unregister another's token.
Deleted(r) == IF row # Null /\ row.owner = r.user THEN Null ELSE row

Stored(r) == IF r.kind = "unregister" THEN Deleted(r) ELSE Upserted(r)

\* The response carries the sound that is now stored.
Serve(o) ==
    /\ op[o].pc = "sent"
    /\ row' = Stored(op[o])
    /\ op' = [op EXCEPT ![o].pc = "served",
                        ![o].channel = IF @ = Unset /\ row' # Null THEN row'.channel ELSE @]
    /\ UNCHANGED <<session, signingOut, newest, latestRun, registered, cache, late, disorder>>

\* A request arrives that the app has given up.
ArriveLate(r) ==
    /\ r \in late
    /\ row' = Stored(r) /\ late' = late \ {r}
    /\ UNCHANGED <<app, disorder>>

-----------------------------------------------------------------------------
\* The automatic registration.

Begin(o, r) == op' = [op EXCEPT ![o] = r]

\* The effect of usePushNotificationSetup, when status becomes authenticated.
Run(o) ==
    /\ ~Busy(o)
    /\ Begin(o, [Idle EXCEPT !.pc = "asking"])
    /\ latestRun' = o

\* Login, signup, or the session is restored.
SignIn(u, o) ==
    /\ session = Null /\ session' = u
    /\ signingOut' = FALSE
    /\ Run(o)
    /\ UNCHANGED <<newest, registered, cache, row, late, disorder>>

\* A second login is answered after the first: the status stays, and no registration
\* is started for who is signed in now.
Replace(u) ==
    /\ session \notin {Null, u} /\ session' = u
    /\ disorder' = disorder \cup {"replaced"}
    /\ UNCHANGED <<signingOut, op, newest, latestRun, registered, cache, row, late>>

\* requestPermissionAndGetToken has asked; no means null.
Deny(o) ==
    /\ op[o].pc = "asking"
    /\ Begin(o, Idle)
    /\ UNCHANGED <<session, signingOut, newest, latestRun, registered, cache, row, late, disorder>>

\* Nothing is under way, or may yet arrive, but operation o.
Alone(o) == late = {} /\ \A p \in Op \ {o} : ~Busy(p)

\* A later run has taken over, or the app is signed out: the run sends nothing, or
\* gets a 401.
Grant(o) ==
    /\ op[o].pc = "asking"
    /\ newest' = IF latestRun = o THEN o ELSE newest
    /\ Begin(o, IF latestRun = o /\ session # Null THEN Sent("auto", Unset) ELSE Idle)
    /\ disorder' =
          IF latestRun = o /\ session # Null /\ Alone(o) THEN {}
          ELSE disorder \cup (IF Saving # {} THEN {"overlap"} ELSE {})
                        \cup (IF Leaving # {} THEN {"crossed"} ELSE {})
    /\ UNCHANGED <<session, signingOut, latestRun, registered, cache, row, late>>

\* writeTicket === registrationWriteSequence
Current(o) == newest = o

\* The answer to a registration, of either kind.
Registered(o) ==
    /\ op[o].pc = "served" /\ op[o].kind # "unregister"
    /\ registered' = (registered \/ op[o].kind = "auto")
    /\ cache' = IF Current(o)
                THEN [channel |-> op[o].channel, fresh |-> op[o].fresh] ELSE cache
    /\ Begin(o, Idle)
    /\ UNCHANGED <<session, signingOut, newest, latestRun, row, late, disorder>>

\* What follows the answer, or its loss: logout goes on.
Rest(r) == IF r.kind = "unregister" THEN [r EXCEPT !.pc = "leaving"] ELSE Idle

\* A request, or its answer, gets lost; the request may arrive later.
Fail(o) ==
    /\ op[o].pc \in {"sent", "served"}
    /\ Begin(o, Rest(op[o]))
    /\ late' \in {late, late \cup (IF op[o].pc = "sent" THEN {op[o]} ELSE {})}
    /\ disorder' = disorder \cup {"lost"}
    /\ UNCHANGED <<session, signingOut, newest, latestRun, registered, cache, row>>

-----------------------------------------------------------------------------
\* NotificationSoundScreen: updateNotificationChannelPreference.  The screen lets
\* one save be under way, but forgets about it when it is left.
Save(o, c) ==
    /\ session # Null /\ cache # Null /\ ~Busy(o)
    /\ Begin(o, Sent("save", c))
    /\ newest' = o
    /\ disorder' = disorder \cup (IF Registering # {} THEN {"overlap"} ELSE {})
    /\ UNCHANGED <<session, signingOut, latestRun, registered, cache, row, late>>

-----------------------------------------------------------------------------
\* Logout.

\* Mutant: logout does not move the sequence on.
NotInvalidated == newest

\* registrationWriteSequence += 1
Invalidated == Null

\* Mutant: the token is forgotten before it is read.
ForgottenToUnregister == FALSE

\* if (!token) return;
ToUnregister == registered

\* logout up to the answer to unregisterCurrentDeviceToken, if it asks anything.
Logout(o) ==
    /\ session # Null /\ ~signingOut /\ signingOut' = TRUE
    /\ newest' = Invalidated
    /\ cache' = Null /\ registered' = FALSE
    /\ ~Busy(o)
    /\ op' = [p \in Op |->
                 IF p = o
                 THEN [Sent("unregister", Unset) EXCEPT !.pc = IF ToUnregister THEN @ ELSE "leaving"]
                 ELSE [op[p] EXCEPT !.fresh = FALSE]]
    /\ disorder' = disorder \cup (IF \E p \in Op : Busy(p) THEN {"crossed"} ELSE {})
    /\ UNCHANGED <<session, latestRun, row, late>>

Unregistered(o) ==
    /\ op[o].pc = "served" /\ op[o].kind = "unregister"
    /\ Begin(o, Rest(op[o]))
    /\ UNCHANGED <<session, signingOut, newest, latestRun, registered, cache, row, late, disorder>>

\* The rest of logout: clearSession, whoever is signed in by now.
SignedOut(o) ==
    /\ op[o].pc = "leaving"
    /\ Begin(o, Idle)
    /\ session' = Null
    /\ UNCHANGED <<signingOut, newest, latestRun, registered, cache, row, late, disorder>>

\* The session is found to have ended: a 401 that no refresh mends clears it, and
\* unregisters nothing.
Expire ==
    /\ session # Null /\ session' = Null
    /\ disorder' = disorder \cup {"expired"}
    /\ UNCHANGED <<signingOut, op, newest, latestRun, registered, cache, row, late>>

\* The app is killed and opened again, a stored session is restored; what it had
\* sent may arrive.
Restart(o) ==
    /\ late' = late \cup {op[p] : p \in {q \in Op : op[q].pc = "sent"}}
    /\ op' = [p \in Op |-> IF p = o /\ session # Null
                           THEN [Idle EXCEPT !.pc = "asking"] ELSE Idle]
    /\ latestRun' = o /\ newest' = Null
    /\ registered' = FALSE /\ cache' = Null /\ signingOut' = FALSE
    /\ disorder' = disorder \cup {"killed"}
    /\ UNCHANGED <<session, row>>

-----------------------------------------------------------------------------
Init ==
    /\ session = Null /\ signingOut = FALSE
    /\ op = [o \in Op |-> Idle]
    /\ newest = Null /\ latestRun = Null
    /\ registered = FALSE /\ cache = Null
    /\ row = Null /\ late = {} /\ disorder = {}

Next ==
    \/ \E o \in Op :
          \/ \E u \in User : SignIn(u, o)
          \/ Deny(o) \/ Grant(o) \/ Serve(o) \/ Registered(o) \/ Fail(o)
          \/ \E c \in Channel : Save(o, c)
          \/ Logout(o) \/ Unregistered(o) \/ SignedOut(o) \/ Restart(o)
    \/ \E u \in User : Replace(u)
    \/ \E r \in late : ArriveLate(r)
    \/ Expire

Spec == Init /\ [][Next]_vars

-----------------------------------------------------------------------------
\* Properties.

Quiet == late = {} /\ \A o \in Op : ~Busy(o)

\* What the app knows of its registration was not asked for before the last logout
\* began, however slow the answer is (registrationWriteSequence).  A registration
\* that is sent while logout is under way is not one of those.
LogoutForgets == cache # Null => cache.fresh

\* Once nothing is under way, the app and the backend agree: a phone that is signed
\* out is not registered, and one that was registered is, for the user who is signed
\* in and with the sound the app shows.  This is so from the last registration
\* that had the line to itself, as long as nothing is lost, killed or overlapping,
\* nothing else is under way at a logout, and no login replaces another.
Agreement ==
    Quiet /\ disorder = {} =>
        /\ session = Null => row = Null
        /\ session # Null /\ registered =>
              /\ row # Null /\ row.owner = session
              /\ cache # Null /\ cache.channel = row.channel
=============================================================================
