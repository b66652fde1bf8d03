-------------------------------- MODULE Auth --------------------------------
(***************************************************************************)
(* The account of one user: AuthService (signup, login, refresh, logout,   *)
(* request_password_reset, reset_password) over the rows of users,         *)
(* refresh_tokens and password_reset_tokens, as the routes of api/v1/auth  *)
(* call it from concurrent requests.  Every query is scoped to one user,   *)
(* so one account is enough.  is_active is never written by the program;   *)
(* the model's account is active.                                          *)
(*                                                                         *)
(* PostgreSQL runs at READ COMMITTED.  A request first reads, and decides  *)
(* on what it has read; bcrypt takes its time; then it writes and commits. *)
(* A write and the commit after it are one step where nothing another      *)
(* request may do between them makes a difference.                         *)
(***************************************************************************)
EXTENDS Integers, Sequences, FiniteSets

CONSTANTS
    Request,         \* threads that serve a request
    MaxFailed,       \* max_failed_login_attempts
    LockTime,        \* account_lockout_minutes
    TokenTime,       \* refresh_token_expire_days
    CodeTime,        \* password_reset_token_expire_minutes
    MaxGuesses,      \* password_reset_max_attempts
    Cooldown,        \* password_reset_resend_cooldown_seconds
    Hour,            \* the window of password_reset_max_per_hour ...
    MaxPerHour,      \* ... and its limit
    \* Bounds on the counters of the model:
    MaxTime, MaxTokens, MaxCodes, MaxWrong

ASSUME AuthAssumption ==
    /\ IsFiniteSet(Request)
    /\ MaxFailed \in Nat \ {0} /\ LockTime \in Nat \ {0}
    /\ TokenTime \in Nat \ {0} /\ CodeTime \in Nat \ {0}
    /\ MaxGuesses \in Nat \ {0} /\ MaxPerHour \in Nat \ {0}
    /\ Cooldown \in Nat /\ Hour \in Nat
    /\ MaxTime \in Nat /\ MaxTokens \in Nat /\ MaxCodes \in Nat /\ MaxWrong \in Nat

VARIABLES
    now,
    account,   \* the row of users
    tokens,    \* the rows of refresh_tokens, in the order they were committed
    codes,     \* the rows of password_reset_tokens, likewise
    req,       \* what each thread is doing
    \* Not known to the code:
    mailbox,   \* codes that have reached the user
    wrong      \* wrong passwords counted since the last lock that had expired was lifted

vars == <<now, account, tokens, codes, req, mailbox, wrong>>

-----------------------------------------------------------------------------
None == 0    \* NULL in a column of times, and no row

\* password: how often it has been changed, 0 before the account exists.
Account == [password : Nat, failed : Nat, lockedUntil : Nat]

\* from:  the token it was exchanged for, None after a login.
\* vouch: the password that was current when the session began, or the one
\*        that was current at issue when the request overlapped a reset.
\* raced: another request used the presented token meanwhile.
RefreshToken == [expires : Nat, revoked : BOOLEAN, from : Nat, vouch : Nat, raced : BOOLEAN]

\* redeemed: how many resets it has been good for.
ResetCode == [created : Nat, expires : Nat, used : BOOLEAN, failed : Nat,
              redeemed : Nat, raced : BOOLEAN]

Stage == {"idle", "unlock", "verify", "rotate", "reuse", "supersede", "issue",
          "deliver", "miss", "claim"}

RequestState ==
    [pc : Stage, at : Nat,
     user : Account,           \* the users row as it was read
     right : BOOLEAN,          \* the password matches the hash that was read
     row : Nat,                \* the token or code row that was read
     seen : SUBSET Nat,        \* the codes supersede_unused_for_user has matched
     raced : BOOLEAN]          \* somebody else committed to these rows meanwhile

NoAccount == [password |-> 0, failed |-> 0, lockedUntil |-> None]

Idle == [pc |-> "idle", at |-> 0, user |-> NoAccount, right |-> FALSE,
         row |-> None, seen |-> {}, raced |-> FALSE]

TypeOK ==
    /\ now \in Nat
    /\ account \in Account
    /\ tokens \in Seq(RefreshToken)
    /\ codes \in Seq(ResetCode)
    /\ req \in [Request -> RequestState]
    /\ mailbox \subseteq DOMAIN codes
    /\ wrong \in Nat

Init ==
    /\ now = 1
    /\ account = NoAccount
    /\ tokens = <<>>
    /\ codes = <<>>
    /\ req = [r \in Request |-> Idle]
    /\ mailbox = {}
    /\ wrong = 0

-----------------------------------------------------------------------------
Exists == account.password > 0

\* A stale lock that has been lifted holds the users row until the commit.
AccountHeldByOther(r) ==
    \E q \in Request \ {r} : req[q].pc = "verify" /\ req[q].user.lockedUntil # None

Done(r) == [req EXCEPT ![r] = Idle]

\* Ghost: those who have read what this request changes.
DoneRacing(r, affected) ==
    [q \in Request |-> IF q = r THEN Idle
                       ELSE IF q \in affected THEN [req[q] EXCEPT !.raced = TRUE]
                       ELSE req[q]]

NewToken(from, vouch, raced) ==
    [expires |-> now + TokenTime, revoked |-> FALSE, from |-> from,
     vouch |-> vouch, raced |-> raced]

AllRevoked == [i \in DOMAIN tokens |-> [tokens[i] EXCEPT !.revoked = TRUE]]

-----------------------------------------------------------------------------
\* signup: the UNIQUE index on the e-mail lets one insert through; everybody
\* else is told that the address is taken.
Signup(r) ==
    /\ req[r].pc = "idle" /\ ~Exists /\ Len(tokens) < MaxTokens
    /\ account' = [NoAccount EXCEPT !.password = 1]
    /\ tokens' = Append(tokens, NewToken(None, 1, FALSE))
    /\ UNCHANGED <<now, codes, req, mailbox, wrong>>

-----------------------------------------------------------------------------
\* login, which first reads the row.  A locked account is turned away, with
\* nothing written; a lock that has expired is lifted first.
Login(r, right) ==
    /\ req[r].pc = "idle" /\ Exists
    /\ account.lockedUntil <= now
    /\ req' = [req EXCEPT ![r] =
                  [Idle EXCEPT !.pc = IF account.lockedUntil = None THEN "verify" ELSE "unlock",
                               !.at = now, !.user = account, !.right = right]]
    /\ UNCHANGED <<now, account, tokens, codes, mailbox, wrong>>

\* reset_failed_login_state, for the stale lock; not committed yet.
Unlock(r) ==
    /\ req[r].pc = "unlock"
    /\ ~AccountHeldByOther(r)
    /\ req' = [req EXCEPT ![r].pc = "verify"]
    /\ UNCHANGED <<now, account, tokens, codes, mailbox, wrong>>

\* The session has written 0 to the counter and NULL to the lock.
Unlocked(r) == req[r].user.lockedUntil # None

Lifts(r) == Unlocked(r) /\ account.lockedUntil \in 1..now

\* Mutant: lifting a stale lock keeps the count.
LoadedCount(r) == req[r].user.failed

Loaded(r) == IF Unlocked(r) THEN 0 ELSE req[r].user.failed

\* record_failed_login_attempt: the count that was read, plus one, is written
\* over whatever the row says by now.
Failed(r) ==
    [account EXCEPT !.failed = Loaded(r) + 1,
                    !.lockedUntil = IF Loaded(r) + 1 >= MaxFailed THEN now + LockTime
                                    ELSE IF Unlocked(r) THEN None ELSE @]

WrongPassword(r) ==
    /\ req[r].pc = "verify" /\ ~req[r].right
    /\ ~AccountHeldByOther(r)
    /\ wrong < MaxWrong
    /\ account' = Failed(r)
    /\ wrong' = IF Lifts(r) THEN 1 ELSE wrong + 1
    /\ req' = Done(r)
    /\ UNCHANGED <<now, tokens, codes, mailbox>>

\* reset_failed_login_state: the ORM writes only what differs from the row it
\* has read, so a lock that was set meanwhile stays.
Succeeded(r) ==
    [account EXCEPT !.failed = IF req[r].user.failed # 0 THEN 0 ELSE @,
                    !.lockedUntil = IF Unlocked(r) THEN None ELSE @]

RightPassword(r) ==
    /\ req[r].pc = "verify" /\ req[r].right
    /\ ~AccountHeldByOther(r)
    /\ Len(tokens) < MaxTokens
    /\ account' = Succeeded(r)
    /\ tokens' = Append(tokens, NewToken(None, IF req[r].raced THEN account.password
                                               ELSE req[r].user.password, req[r].raced))
    /\ wrong' = IF Lifts(r) THEN 0 ELSE wrong
    /\ req' = Done(r)
    /\ UNCHANGED <<now, codes, mailbox>>

-----------------------------------------------------------------------------
\* refresh, which first reads the row of the token it is given; an expired one
\* is rejected with nothing written.

\* Mutant: a token that has been revoked is as good as any other.
StageOfAny(i) == "rotate"

StageOf(i) == IF tokens[i].revoked THEN "reuse" ELSE "rotate"

Refresh(r, i) ==
    /\ req[r].pc = "idle"
    /\ tokens[i].revoked \/ tokens[i].expires > now
    /\ req' = [req EXCEPT ![r] = [Idle EXCEPT !.pc = StageOf(i), !.at = now, !.row = i]]
    /\ UNCHANGED <<now, account, tokens, codes, mailbox, wrong>>

Presents(q, i) == req[q].pc = "rotate" /\ req[q].row = i

\* revoke and _issue_token_pair.  The UPDATE names the row by its key: it does
\* not ask again whether the token has been revoked.
Rotate(r) ==
    /\ req[r].pc = "rotate"
    /\ Len(tokens) < MaxTokens
    /\ LET i == req[r].row IN
          /\ tokens' = Append([tokens EXCEPT ![i].revoked = TRUE],
                              NewToken(i, IF req[r].raced THEN account.password
                                          ELSE tokens[i].vouch, req[r].raced))
          /\ req' = DoneRacing(r, {q \in Request : Presents(q, i)})
    /\ UNCHANGED <<now, account, codes, mailbox, wrong>>

\* Reuse: revoke_all_for_user, for the tokens that are committed.
Reuse(r) ==
    /\ req[r].pc = "reuse"
    /\ tokens' = AllRevoked
    /\ req' = DoneRacing(r, {q \in Request : req[q].pc = "rotate"})
    /\ UNCHANGED <<now, account, codes, mailbox, wrong>>

\* logout.
Logout(r, i) ==
    /\ req[r].pc = "idle"
    /\ tokens' = [tokens EXCEPT ![i].revoked = TRUE]
    /\ req' = DoneRacing(r, {q \in Request : Presents(q, i)})
    /\ UNCHANGED <<now, account, codes, mailbox, wrong>>

-----------------------------------------------------------------------------
\* request_password_reset reads when a code was last issued, and how many in
\* the last hour.

\* Mutant: only codes that are still good count.
IssuedUnused(since) == {i \in DOMAIN codes : ~codes[i].used /\ codes[i].created >= since}

Issued(since) == {i \in DOMAIN codes : codes[i].created >= since}

MayIssue ==
    /\ Exists
    /\ \A i \in DOMAIN codes : now - codes[i].created >= Cooldown
    /\ Cardinality(Issued(now - Hour)) < MaxPerHour

\* forgot_password says the same whether it issues a code or not.
Forgot(r) ==
    /\ req[r].pc = "idle" /\ MayIssue
    /\ req' = [req EXCEPT ![r] = [Idle EXCEPT !.pc = "supersede", !.at = now]]
    /\ UNCHANGED <<now, account, tokens, codes, mailbox, wrong>>

Unused == {i \in DOMAIN codes : ~codes[i].used}

\* supersede_unused_for_user: the UPDATE sees the rows committed when it
\* starts; it may wait for others, but sees no row they insert.
Supersede(r) ==
    /\ req[r].pc = "supersede"
    /\ req' = [req EXCEPT ![r].pc = "issue", ![r].seen = Unused]
    /\ UNCHANGED <<now, account, tokens, codes, mailbox, wrong>>

Issue(r) ==
    /\ req[r].pc = "issue"
    /\ Len(codes) < MaxCodes
    /\ codes' = Append([i \in DOMAIN codes |->
                           [codes[i] EXCEPT !.used = @ \/ i \in req[r].seen]],
                       [created |-> now, expires |-> req[r].at + CodeTime, used |-> FALSE,
                        failed |-> 0, redeemed |-> 0, raced |-> req[r].raced])
    /\ req' = [q \in Request |->
                  IF q = r THEN [req[r] EXCEPT !.pc = "deliver", !.row = Len(codes) + 1]
                  ELSE IF req[q].pc = "issue" THEN [req[q] EXCEPT !.raced = TRUE]
                  ELSE req[q]]
    /\ UNCHANGED <<now, account, tokens, mailbox, wrong>>

\* _deliver_password_reset_code: the code is committed whether the e-mail
\* arrives, fails, or is not configured.
Deliver(r) ==
    /\ req[r].pc = "deliver"
    /\ mailbox' \in {mailbox, mailbox \cup {req[r].row}}
    /\ req' = Done(r)
    /\ UNCHANGED <<now, account, tokens, codes, wrong>>

-----------------------------------------------------------------------------
\* reset_password.

\* get_live_for_user: of the unused, unexpired codes one of the newest.
Live(i) ==
    /\ ~codes[i].used /\ codes[i].expires > now
    /\ \A k \in DOMAIN codes :
          ~codes[k].used /\ codes[k].expires > now => codes[k].created <= codes[i].created

Open(i) == codes[i].failed < MaxGuesses

\* The code that was typed is one from the mailbox, or None.
Redeem(r, typed) ==
    /\ req[r].pc = "idle"
    /\ \E i \in DOMAIN codes :
          /\ Live(i) /\ Open(i)
          /\ req' = [req EXCEPT ![r] = [Idle EXCEPT !.pc = IF typed = i THEN "claim" ELSE "miss",
                                                    !.at = now, !.row = i]]
    /\ UNCHANGED <<now, account, tokens, codes, mailbox, wrong>>

\* increment_failed_attempts, by the database.
Miss(r) ==
    /\ req[r].pc = "miss"
    /\ codes' = [codes EXCEPT ![req[r].row].failed = @ + 1]
    /\ req' = Done(r)
    /\ UNCHANGED <<now, account, tokens, mailbox, wrong>>

\* Mutant: the UPDATE trusts what the request has read.
ClaimableAnyway(r) == codes[req[r].row].expires > req[r].at

\* claim_for_reset asks again, in one conditional UPDATE.
Claimable(r) ==
    LET c == codes[req[r].row] IN
    ~c.used /\ c.expires > req[r].at /\ c.failed < MaxGuesses

\* Mutant: other sessions go on.
NoneRevoked == tokens

SessionsEnded == AllRevoked

\* A claim that is lost is rejected with nothing written.
Claim(r) ==
    /\ req[r].pc = "claim"
    /\ Claimable(r) => ~AccountHeldByOther(r)
    /\ IF Claimable(r)
       THEN /\ codes' = [codes EXCEPT ![req[r].row].used = TRUE,
                                      ![req[r].row].redeemed = @ + 1]
            /\ account' = [account EXCEPT !.password = @ + 1]
            /\ tokens' = SessionsEnded
            /\ req' = DoneRacing(r, {q \in Request : req[q].pc \in {"unlock", "verify", "rotate"}})
       ELSE /\ req' = Done(r)
            /\ UNCHANGED <<account, tokens, codes>>
    /\ UNCHANGED <<now, mailbox, wrong>>

-----------------------------------------------------------------------------
\* Any statement may raise: get_session closes the session, which rolls back.
Abort(r) ==
    /\ req[r].pc # "idle"
    /\ req' = Done(r)
    /\ UNCHANGED <<now, account, tokens, codes, mailbox, wrong>>

\* A request takes less than the lockout lasts.
Tick ==
    /\ now < MaxTime
    /\ \A r \in Request : req[r].pc # "idle" => now - req[r].at + 1 < LockTime
    /\ now' = now + 1
    /\ UNCHANGED <<account, tokens, codes, req, mailbox, wrong>>

SignIn(r) ==
    \/ Signup(r) \/ Unlock(r) \/ WrongPassword(r) \/ RightPassword(r)
    \/ \E right \in BOOLEAN : Login(r, right)

Session(r) ==
    \/ Rotate(r) \/ Reuse(r)
    \/ \E i \in DOMAIN tokens : Refresh(r, i) \/ Logout(r, i)

PasswordReset(r) ==
    \/ Forgot(r) \/ Supersede(r) \/ Issue(r) \/ Deliver(r) \/ Miss(r) \/ Claim(r)
    \/ \E typed \in mailbox \cup {None} : Redeem(r, typed)

Next == Tick \/ \E r \in Request : SignIn(r) \/ Session(r) \/ PasswordReset(r) \/ Abort(r)

Spec == Init /\ [][Next]_vars

-----------------------------------------------------------------------------
LiveToken(i) == ~tokens[i].revoked /\ tokens[i].expires > now

\* A new password ends every session the old one opened, through any number of
\* exchanges: a refresh token that still works was issued under the current
\* password, or by a request that was being served during the reset.
OldPasswordOpensNothing ==
    \A i \in DOMAIN tokens : LiveToken(i) => tokens[i].vouch = account.password

\* A token is exchanged twice only by requests that were served at the same
\* time; a later one ends every session.
TwinsAreExplained ==
    \A i, j \in DOMAIN tokens :
        i # j /\ tokens[i].from = tokens[j].from /\ tokens[i].from # None =>
            tokens[i].raced \/ tokens[j].raced \/ ~(LiveToken(i) /\ LiveToken(j))

\* No code sets a password twice, and of two that are good at once the older
\* was issued while the other was being issued.
CodesAreSingle ==
    /\ \A i \in DOMAIN codes : codes[i].redeemed <= 1
    /\ \A i, j \in DOMAIN codes :
          i < j /\ ~codes[i].used /\ ~codes[j].used => codes[j].raced

\* Requests served at once overshoot the limits of a code, by one each.
LimitsHold ==
    /\ \A i \in DOMAIN codes : codes[i].failed <= MaxGuesses + Cardinality(Request) - 1
    /\ Cardinality({i \in DOMAIN codes : codes[i].created >= now - Hour})
          <= MaxPerHour + Cardinality(Request) - 1

\* An account is locked only after MaxFailed wrong passwords since it was last
\* unlocked, although the counter is read and written back by each request.
LockIsEarned == account.lockedUntil > now => wrong >= MaxFailed
=============================================================================
