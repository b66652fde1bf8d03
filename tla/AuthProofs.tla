----------------------------- MODULE AuthProofs -----------------------------
(***************************************************************************)
(* Machine-checked proofs about module Auth, for any number of requests,   *)
(* tokens and codes, and any limits and times.                             *)
(***************************************************************************)
EXTENDS Auth, FiniteSetTheorems, TLAPS

-----------------------------------------------------------------------------
(* The inductive invariant.                                                *)

Signing == {"unlock", "verify"}

\* A request has read its row, and not long ago; before the account exists there
\* is nothing to be served.
Served(r) ==
    /\ req[r].pc = "rotate" => req[r].row \in DOMAIN tokens
    /\ req[r].pc \in {"deliver", "miss", "claim"} => req[r].row \in DOMAIN codes
    /\ req[r].pc # "idle" => req[r].at <= now /\ now < req[r].at + LockTime

Begun ==
    \/ Exists
    \/ tokens = <<>> /\ codes = <<>> /\ \A r \in Request : req[r].pc = "idle"

Typed == TypeOK /\ (\A r \in Request : Served(r)) /\ Begun

\* A request that has not been raced has read what is still so: an unused token,
\* the current password.
Vouched ==
    /\ \A i \in DOMAIN tokens : ~tokens[i].revoked => tokens[i].vouch = account.password
    /\ \A i \in DOMAIN tokens :
          tokens[i].from # None => tokens[i].from \in DOMAIN tokens /\ tokens[tokens[i].from].revoked
    /\ \A r \in Request : req[r].pc = "rotate" /\ ~req[r].raced => ~tokens[req[r].row].revoked
    /\ \A r \in Request :
          req[r].pc \in Signing /\ ~req[r].raced => req[r].user.password = account.password

Twins ==
    \A i, j \in DOMAIN tokens :
        i # j /\ tokens[i].from = tokens[j].from /\ tokens[i].from # None =>
            tokens[i].raced \/ tokens[j].raced

\* A code good for a reset is not used, and a request that has not been raced has
\* matched every code that is not used.
Single ==
    /\ \A i \in DOMAIN codes : codes[i].redeemed <= 1 /\ (codes[i].redeemed > 0 => codes[i].used)
    /\ \A i, j \in DOMAIN codes : i < j /\ ~codes[i].used /\ ~codes[j].used => codes[j].raced
    /\ \A r \in Request : req[r].pc = "issue" /\ ~req[r].raced => Unused \subseteq req[r].seen

\* What is recorded, and what requests under way are going to add to it.
Missing(i) == {q \in Request : req[q].pc = "miss" /\ req[q].row = i}

Issuing == {q \in Request : req[q].pc \in {"supersede", "issue"}}

Limited ==
    /\ \A i \in DOMAIN codes :
          codes[i].failed + Cardinality(Missing(i)) <= MaxGuesses + Cardinality(Request) - 1
    /\ Cardinality(Issued(now - Hour)) + Cardinality(Issuing) <= MaxPerHour + Cardinality(Request) - 1

\* A request that saw no lock has read no more failures than were counted, and
\* is done before a lock that was set meanwhile ends.  A request that saw a stale
\* lock finds that very row, or a lock that is lifted or new.
Unspent(r) ==
    /\ req[r].user.failed <= wrong
    /\ account.lockedUntil = None \/ req[r].at + LockTime <= account.lockedUntil

Untouched(r) ==
    /\ req[r].user.lockedUntil <= req[r].at
    /\ \/ account.lockedUntil = None
       \/ account.lockedUntil = req[r].user.lockedUntil /\ account.failed = req[r].user.failed
       \/ req[r].at + LockTime <= account.lockedUntil

Locking ==
    /\ account.failed <= wrong
    /\ LockIsEarned
    /\ \A r \in Request :
          req[r].pc \in Signing => IF Unlocked(r) THEN Untouched(r) ELSE Unspent(r)

IInv == Typed /\ Vouched /\ Twins /\ Single /\ Limited /\ Locking

-----------------------------------------------------------------------------
(* Sequences, requests and sets of them.                                   *)

LEMMA AuthConstants ==
  /\ IsFiniteSet(Request) /\ MaxFailed \in Nat \ {0} /\ LockTime \in Nat \ {0}
  /\ TokenTime \in Nat /\ CodeTime \in Nat /\ MaxGuesses \in Nat \ {0}
  /\ MaxPerHour \in Nat \ {0} /\ Cooldown \in Nat /\ Hour \in Nat
  BY AuthAssumption

LEMMA Appended ==
  ASSUME NEW S, NEW s \in Seq(S), NEW e \in S
  PROVE  /\ Append(s, e) \in Seq(S)
         /\ Len(s) \in Nat /\ DOMAIN s = 1 .. Len(s)
         /\ DOMAIN Append(s, e) = 1 .. Len(s) + 1
         /\ Append(s, e)[Len(s) + 1] = e
         /\ \A i \in DOMAIN s : Append(s, e)[i] = s[i]
  OBVIOUS

LEMMA Element ==
  ASSUME NEW S, NEW s \in Seq(S), NEW i \in DOMAIN s
  PROVE  s[i] \in S /\ i \in Nat /\ i > 0 /\ i <= Len(s) /\ Len(s) \in Nat
  OBVIOUS

LEMMA CodeAt ==
  ASSUME codes \in Seq(ResetCode), NEW i \in DOMAIN codes
  PROVE  /\ codes[i] \in ResetCode /\ i \in Nat /\ i > 0
         /\ codes[i].created \in Nat /\ codes[i].failed \in Nat /\ codes[i].redeemed \in Nat
         /\ codes[i].used \in BOOLEAN
  <1>1. codes[i] \in ResetCode /\ i \in Nat /\ i > 0
    BY Element
  <1>2. QED
    BY <1>1 DEF ResetCode

LEMMA TokenAt ==
  ASSUME tokens \in Seq(RefreshToken), NEW i \in DOMAIN tokens
  PROVE  /\ tokens[i] \in RefreshToken /\ i \in Nat /\ i > 0
         /\ tokens[i].revoked \in BOOLEAN /\ tokens[i].vouch \in Nat
  <1>1. tokens[i] \in RefreshToken /\ i \in Nat /\ i > 0
    BY Element
  <1>2. QED
    BY <1>1 DEF RefreshToken

LEMMA Mapped ==
  ASSUME NEW S, NEW s \in Seq(S), NEW f \in [DOMAIN s -> S]
  PROVE  /\ f \in Seq(S) /\ DOMAIN f = DOMAIN s
         /\ Len(f) = Len(s)
  <1>1. Len(s) \in Nat /\ DOMAIN s = 1 .. Len(s)
    OBVIOUS
  <1>2. f \in [1 .. Len(s) -> S]
    BY <1>1
  <1>3. f \in Seq(S)
    BY <1>1, <1>2
  <1>4. DOMAIN f = DOMAIN s /\ Len(f) = Len(s)
    BY <1>1, <1>2, <1>3
  <1>5. QED
    BY <1>3, <1>4

LEMMA IdleState == Idle \in RequestState /\ NoAccount \in Account
  BY DEF Idle, RequestState, Stage, Account, NoAccount, None

\* What Done and DoneRacing do to the requests.
LEMMA DoneIs ==
  ASSUME TypeOK, NEW r \in Request, req' = Done(r)
  PROVE  /\ req' \in [Request -> RequestState]
         /\ req'[r] = Idle /\ \A q \in Request : q # r => req'[q] = req[q]
  BY IdleState DEF TypeOK, Done

LEMMA DoneRacingIs ==
  ASSUME TypeOK, NEW r \in Request, NEW affected, req' = DoneRacing(r, affected)
  PROVE  /\ req' \in [Request -> RequestState]
         /\ req'[r] = Idle
         /\ \A q \in Request : q # r =>
               req'[q] = IF q \in affected THEN [req[q] EXCEPT !.raced = TRUE] ELSE req[q]
  BY IdleState DEF TypeOK, DoneRacing, RequestState

LEMMA SubsetCount ==
  ASSUME NEW S, NEW T, IsFiniteSet(T), S \subseteq T
  PROVE  IsFiniteSet(S) /\ Cardinality(S) \in Nat /\ Cardinality(T) \in Nat
         /\ Cardinality(S) <= Cardinality(T)
  BY FS_Subset, FS_CardinalityType

LEMMA RequestCount ==
  ASSUME NEW S, S \subseteq Request
  PROVE  /\ IsFiniteSet(S) /\ Cardinality(S) \in Nat /\ Cardinality(Request) \in Nat
         /\ Cardinality(S) <= Cardinality(Request)
  BY AuthConstants, SubsetCount

LEMMA IssuedCount ==
  ASSUME codes \in Seq(ResetCode), NEW since
  PROVE  IsFiniteSet(Issued(since)) /\ Cardinality(Issued(since)) \in Nat
  <1>1. Len(codes) \in Nat /\ DOMAIN codes = 1 .. Len(codes)
    OBVIOUS
  <1>2. IsFiniteSet(DOMAIN codes)
    BY <1>1, FS_Interval
  <1>3. Issued(since) \subseteq DOMAIN codes
    BY DEF Issued
  <1>4. QED
    BY <1>2, <1>3, SubsetCount

-----------------------------------------------------------------------------
(* What leaves a part of the invariant alone.                              *)

\* A request goes on as it was, perhaps raced, or is done.
GoesOn(q) ==
    \/ req'[q] = Idle
    \/ req'[q] \in {req[q], [req[q] EXCEPT !.raced = TRUE]}

SameServed(q) ==
    \/ req'[q].pc = "idle"
    \/ /\ req[q].pc # "idle" /\ req'[q].at = req[q].at
       /\ req'[q].pc = "rotate" => req[q].pc = "rotate" /\ req'[q].row = req[q].row
       /\ req'[q].pc \in {"deliver", "miss", "claim"} =>
            req[q].pc \in {"deliver", "miss", "claim"} /\ req'[q].row = req[q].row

SameSession(q) ==
    /\ req'[q].pc \in Signing =>
         /\ req[q].pc \in Signing /\ req'[q].user = req[q].user /\ req'[q].at = req[q].at
         /\ req[q].raced => req'[q].raced
    /\ req'[q].pc = "rotate" =>
         req[q].pc = "rotate" /\ req'[q].row = req[q].row /\ (req[q].raced => req'[q].raced)

SameIssue(q) ==
    req'[q].pc = "issue" =>
        req[q].pc = "issue" /\ req'[q].seen = req[q].seen /\ (req[q].raced => req'[q].raced)

SameLimits(q) ==
    /\ req'[q].pc = "miss" => req[q].pc = "miss" /\ req'[q].row = req[q].row
    /\ req'[q].pc \in {"supersede", "issue"} => req[q].pc \in {"supersede", "issue"}

LEMMA Ongoing ==
  ASSUME TypeOK, NEW q \in Request, GoesOn(q)
  PROVE  SameServed(q) /\ SameSession(q) /\ SameIssue(q) /\ SameLimits(q)
  <1>1. CASE req'[q] = Idle
    <2>1. req'[q].pc = "idle"
      BY <1>1 DEF Idle
    <2>2. QED
      BY <2>1 DEF SameServed, SameSession, SameIssue, SameLimits, Signing
  <1>2. CASE req'[q] \in {req[q], [req[q] EXCEPT !.raced = TRUE]}
    <2>1. /\ req'[q].pc = req[q].pc /\ req'[q].at = req[q].at /\ req'[q].user = req[q].user
          /\ req'[q].row = req[q].row /\ req'[q].seen = req[q].seen
          /\ req[q].raced => req'[q].raced
      BY <1>2 DEF TypeOK, RequestState
    <2>2. QED
      BY <2>1 DEF SameServed, SameSession, SameIssue, SameLimits
  <1>3. QED
    BY <1>1, <1>2 DEF GoesOn

LEMMA DoneGoesOn ==
  ASSUME TypeOK, NEW r \in Request,
         req' = Done(r) \/ \E affected \in SUBSET Request : req' = DoneRacing(r, affected)
  PROVE  /\ req' \in [Request -> RequestState]
         /\ req'[r] = Idle /\ \A q \in Request : GoesOn(q)
         /\ \A q \in Request :
               SameServed(q) /\ SameSession(q) /\ SameIssue(q) /\ SameLimits(q)
  <1>1. req' \in [Request -> RequestState] /\ req'[r] = Idle /\ \A q \in Request : GoesOn(q)
    BY DoneIs, DoneRacingIs DEF GoesOn
  <1>2. QED
    BY <1>1, Ongoing

LEMMA ServedLeft ==
  ASSUME Typed, TypeOK', Exists', now' = now,
         DOMAIN tokens \subseteq DOMAIN tokens', DOMAIN codes \subseteq DOMAIN codes',
         \A q \in Request : SameServed(q)
  PROVE  Typed'
  <1>1. ASSUME NEW q \in Request
        PROVE  Served(q)'
    BY DEF Typed, Served, SameServed
  <1>2. QED
    BY <1>1 DEF Typed, Begun

LEMMA SessionsLeft ==
  ASSUME Vouched, Twins, UNCHANGED tokens, account'.password = account.password,
         \A q \in Request : SameSession(q)
  PROVE  Vouched' /\ Twins'
  <1>1. ASSUME NEW q \in Request
        PROVE  /\ req'[q].pc = "rotate" /\ ~req'[q].raced => ~tokens'[req'[q].row].revoked
               /\ req'[q].pc \in Signing /\ ~req'[q].raced =>
                     req'[q].user.password = account'.password
    BY DEF Vouched, SameSession
  <1>2. QED
    BY <1>1 DEF Vouched, Twins

LEMMA CodesLeft ==
  ASSUME Single, UNCHANGED codes, \A q \in Request : SameIssue(q)
  PROVE  Single'
  <1>1. Unused' = Unused
    BY DEF Unused
  <1>2. ASSUME NEW q \in Request, req'[q].pc = "issue", ~req'[q].raced
        PROVE  Unused' \subseteq req'[q].seen
    BY <1>1, <1>2 DEF Single, SameIssue
  <1>3. QED
    BY <1>2 DEF Single

LEMMA LimitsKept ==
  ASSUME TypeOK, Limited, now' = now, DOMAIN codes' = DOMAIN codes,
         \A i \in DOMAIN codes :
            codes'[i].failed = codes[i].failed /\ codes'[i].created = codes[i].created,
         \A q \in Request : SameLimits(q)
  PROVE  Limited'
  <1>1. ASSUME NEW i \in DOMAIN codes
        PROVE  codes'[i].failed + Cardinality(Missing(i)') <= MaxGuesses + Cardinality(Request) - 1
    <2>1. Missing(i)' \subseteq Missing(i) /\ Missing(i) \subseteq Request
      BY DEF Missing, SameLimits
    <2>2. Cardinality(Missing(i)') <= Cardinality(Missing(i)) /\ Cardinality(Missing(i)) \in Nat
          /\ Cardinality(Missing(i)') \in Nat /\ Cardinality(Request) \in Nat
      BY <2>1, SubsetCount, RequestCount
    <2>3. codes[i].failed \in Nat /\ MaxGuesses \in Nat
      BY AuthConstants, CodeAt DEF TypeOK
    <2>4. codes[i].failed + Cardinality(Missing(i)) <= MaxGuesses + Cardinality(Request) - 1
      BY DEF Limited
    <2>5. QED
      BY <2>2, <2>3, <2>4
  <1>2. Cardinality(Issued(now - Hour)') + Cardinality(Issuing') <= MaxPerHour + Cardinality(Request) - 1
    <2>1. Issuing' \subseteq Issuing /\ Issuing \subseteq Request
      BY DEF Issuing, SameLimits
    <2>2. Cardinality(Issuing') <= Cardinality(Issuing) /\ Cardinality(Issuing) \in Nat
          /\ Cardinality(Issuing') \in Nat /\ Cardinality(Request) \in Nat
      BY <2>1, SubsetCount, RequestCount
    <2>3. Issued(now - Hour)' = Issued(now - Hour)
      BY DEF Issued
    <2>4. Cardinality(Issued(now - Hour)) \in Nat /\ MaxPerHour \in Nat
      BY IssuedCount, AuthConstants DEF TypeOK
    <2>5. Cardinality(Issued(now - Hour)) + Cardinality(Issuing) <= MaxPerHour + Cardinality(Request) - 1
      BY DEF Limited
    <2>6. QED
      BY <2>2, <2>3, <2>4, <2>5
  <1>3. QED
    BY <1>1, <1>2 DEF Limited

LEMMA LimitsLeft ==
  ASSUME TypeOK, Limited, UNCHANGED <<codes, now>>, \A q \in Request : SameLimits(q)
  PROVE  Limited'
  BY LimitsKept

LEMMA LocksLeft ==
  ASSUME Locking, UNCHANGED <<now, wrong>>,
         account'.failed = account.failed, account'.lockedUntil = account.lockedUntil,
         \A q \in Request : SameSession(q)
  PROVE  Locking'
  <1>1. ASSUME NEW q \in Request, req'[q].pc \in Signing
        PROVE  (IF Unlocked(q) THEN Untouched(q) ELSE Unspent(q))'
    <2>1. /\ req[q].pc \in Signing /\ req'[q].user = req[q].user /\ req'[q].at = req[q].at
      BY <1>1 DEF SameSession
    <2>2. IF Unlocked(q) THEN Untouched(q) ELSE Unspent(q)
      BY <2>1 DEF Locking
    <2>3. QED
      BY <2>1, <2>2 DEF Unlocked, Untouched, Unspent
  <1>2. QED
    BY <1>1 DEF Locking, LockIsEarned

\* A step that changes no table, and of a request only how far it is.
LEMMA Quiet ==
  ASSUME IInv, TypeOK', Exists, UNCHANGED <<now, account, tokens, codes, wrong>>,
         \A q \in Request : SameServed(q) /\ SameSession(q) /\ SameIssue(q) /\ SameLimits(q)
  PROVE  IInv'
  <1>1. Typed' /\ Vouched' /\ Twins'
    BY ServedLeft, SessionsLeft DEF IInv, Exists
  <1>2. Single' /\ Limited'
    BY CodesLeft, LimitsLeft DEF IInv, Typed
  <1>3. Locking'
    BY LocksLeft DEF IInv
  <1>4. QED
    BY <1>1, <1>2, <1>3 DEF IInv

-----------------------------------------------------------------------------
(* Signing up and signing in.                                              *)

\* Somebody who is being served has an account.
LEMMA Serving ==
  ASSUME Typed, NEW r \in Request, req[r].pc # "idle"
  PROVE  Exists
  BY DEF Typed, Begun

LEMMA NewTokenType ==
  ASSUME now \in Nat, NEW from \in Nat, NEW vouch \in Nat, NEW raced \in BOOLEAN
  PROVE  /\ NewToken(from, vouch, raced) \in RefreshToken
         /\ NewToken(from, vouch, raced).from = from
         /\ NewToken(from, vouch, raced).vouch = vouch
         /\ NewToken(from, vouch, raced).raced = raced
         /\ ~NewToken(from, vouch, raced).revoked
  BY AuthConstants DEF NewToken, RefreshToken

LEMMA AbortOK ==
  ASSUME IInv, NEW r \in Request, Abort(r)
  PROVE  IInv'
  <1>1. TypeOK /\ Exists
    BY Serving DEF IInv, Typed, Abort
  <1>2. /\ req' \in [Request -> RequestState]
        /\ \A q \in Request : SameServed(q) /\ SameSession(q) /\ SameIssue(q) /\ SameLimits(q)
    BY <1>1, DoneGoesOn DEF Abort
  <1>3. TypeOK'
    BY <1>1, <1>2 DEF Abort, TypeOK
  <1>4. QED
    BY <1>1, <1>2, <1>3, Quiet DEF Abort

LEMMA DeliverOK ==
  ASSUME IInv, NEW r \in Request, Deliver(r)
  PROVE  IInv'
  <1>1. TypeOK /\ Exists /\ req[r].row \in DOMAIN codes
    BY Serving DEF IInv, Typed, Deliver, Served
  <1>2. /\ req' \in [Request -> RequestState]
        /\ \A q \in Request : SameServed(q) /\ SameSession(q) /\ SameIssue(q) /\ SameLimits(q)
    BY <1>1, DoneGoesOn DEF Deliver
  <1>3. TypeOK'
    BY <1>1, <1>2 DEF Deliver, TypeOK
  <1>4. QED
    BY <1>1, <1>2, <1>3, Quiet DEF Deliver

LEMMA UnlockOK ==
  ASSUME IInv, NEW r \in Request, Unlock(r)
  PROVE  IInv'
  <1>1. TypeOK /\ Exists /\ req[r].pc = "unlock" /\ req' = [req EXCEPT ![r].pc = "verify"]
    BY Serving DEF IInv, Typed, Unlock
  <1>2. req' \in [Request -> RequestState]
    BY <1>1 DEF TypeOK, RequestState, Stage
  <1>3. ASSUME NEW q \in Request
        PROVE  SameServed(q) /\ SameSession(q) /\ SameIssue(q) /\ SameLimits(q)
    <2>1. CASE q # r
      <3>1. req'[q] = req[q]
        BY <1>1, <2>1 DEF TypeOK
      <3>2. QED
        BY <1>1, <3>1, Ongoing DEF GoesOn
    <2>2. CASE q = r
      <3>1. /\ req'[q].pc = "verify" /\ req'[q].user = req[q].user /\ req'[q].at = req[q].at
            /\ req'[q].raced = req[q].raced
        BY <1>1, <2>2 DEF TypeOK, RequestState
      <3>2. QED
        BY <1>1, <2>2, <3>1 DEF SameServed, SameSession, SameIssue, SameLimits, Signing
    <2>3. QED
      BY <2>1, <2>2
  <1>4. TypeOK'
    BY <1>1, <1>2 DEF Unlock, TypeOK
  <1>5. QED
    BY <1>1, <1>3, <1>4, Quiet DEF Unlock

\* The first token is the only one, and nobody is being served.
LEMMA SignupOK ==
  ASSUME IInv, NEW r \in Request, Signup(r)
  PROVE  IInv'
  <1>1. /\ TypeOK /\ tokens = <<>> /\ codes = <<>> /\ \A q \in Request : req[q].pc = "idle"
    BY DEF IInv, Typed, Begun, Signup
  <1> DEFINE k == NewToken(None, 1, FALSE)
  <1>2. /\ k \in RefreshToken /\ k.from = None /\ k.vouch = 1 /\ ~k.revoked
    <2>1. None \in Nat /\ 1 \in Nat /\ FALSE \in BOOLEAN /\ now \in Nat
      BY <1>1 DEF None, TypeOK
    <2>2. QED
      BY <2>1, NewTokenType
  <1>3. /\ account' = [NoAccount EXCEPT !.password = 1] /\ tokens' = Append(tokens, k)
        /\ UNCHANGED <<now, codes, req, mailbox, wrong>>
    BY DEF Signup
  <1> HIDE DEF k
  <1>4. tokens' \in Seq(RefreshToken) /\ DOMAIN tokens' = {1} /\ tokens'[1] = k
    BY <1>1, <1>2, <1>3
  <1>5. /\ account' \in Account /\ account'.password = 1 /\ account'.failed = 0
        /\ account'.lockedUntil = None
    BY <1>3 DEF Account, NoAccount, None
  <1>6. Typed'
    <2>1. TypeOK'
      BY <1>1, <1>3, <1>4, <1>5 DEF TypeOK
    <2>2. Begun' /\ \A q \in Request : Served(q)'
      BY <1>1, <1>3, <1>5 DEF Begun, Exists, Served
    <2>3. QED
      BY <2>1, <2>2 DEF Typed
  <1>7. Vouched' /\ Twins'
    BY <1>1, <1>2, <1>3, <1>4, <1>5 DEF Vouched, Twins, Signing
  <1>8. Single' /\ Limited'
    <2>1. \A q \in Request : SameIssue(q) /\ SameLimits(q)
      BY <1>3 DEF SameIssue, SameLimits
    <2>2. QED
      BY <1>1, <1>3, <2>1, CodesLeft, LimitsLeft DEF IInv
  <1>9. Locking'
    BY <1>1, <1>3, <1>5 DEF Locking, LockIsEarned, Signing, TypeOK, None
  <1>10. QED
    BY <1>6, <1>7, <1>8, <1>9 DEF IInv

LEMMA LoginOK ==
  ASSUME IInv, NEW r \in Request, NEW right \in BOOLEAN, Login(r, right)
  PROVE  IInv'
  <1> DEFINE d == [Idle EXCEPT !.pc = IF account.lockedUntil = None THEN "verify" ELSE "unlock",
                               !.at = now, !.user = account, !.right = right]
  <1>1. /\ TypeOK /\ Exists /\ account.lockedUntil <= now /\ req[r].pc = "idle"
        /\ req' = [req EXCEPT ![r] = d]
        /\ UNCHANGED <<now, account, tokens, codes, mailbox, wrong>>
    BY DEF IInv, Typed, Login
  <1>2. /\ d \in RequestState /\ d.pc \in Signing /\ d.at = now /\ d.user = account
    BY <1>1, IdleState DEF TypeOK, RequestState, Stage, Signing, Idle
  <1> HIDE DEF d
  <1>3. req'[r] = d /\ \A q \in Request : q # r => req'[q] = req[q]
    BY <1>1 DEF TypeOK
  <1>4. \A q \in Request : q # r =>
          SameServed(q) /\ SameSession(q) /\ SameIssue(q) /\ SameLimits(q)
    BY <1>1, <1>3, Ongoing DEF GoesOn
  <1>5. SameIssue(r) /\ SameLimits(r)
    BY <1>2, <1>3 DEF SameIssue, SameLimits, Signing
  <1>6. Typed'
    <2>1. TypeOK'
      BY <1>1, <1>2 DEF TypeOK
    <2>2. Served(r)'
      BY <1>1, <1>2, <1>3, AuthConstants DEF Served, Signing, TypeOK
    <2>3. ASSUME NEW q \in Request, q # r
          PROVE  Served(q)'
      BY <1>1, <1>3, <2>3 DEF Served, IInv, Typed
    <2>4. QED
      BY <1>1, <2>1, <2>2, <2>3 DEF Typed, Begun, Exists
  <1>7. Vouched' /\ Twins'
    <2>1. ASSUME NEW q \in Request
          PROVE  /\ req'[q].pc = "rotate" /\ ~req'[q].raced => ~tokens'[req'[q].row].revoked
                 /\ req'[q].pc \in Signing /\ ~req'[q].raced =>
                       req'[q].user.password = account'.password
      <3>1. CASE q = r
        BY <1>1, <1>2, <1>3, <3>1 DEF Signing
      <3>2. CASE q # r
        BY <1>1, <1>3, <3>2 DEF IInv, Vouched
      <3>3. QED
        BY <3>1, <3>2
    <2>2. QED
      BY <1>1, <2>1 DEF IInv, Vouched, Twins
  <1>8. Single' /\ Limited'
    BY <1>1, <1>4, <1>5, CodesLeft, LimitsLeft DEF IInv
  <1>9. Locking'
    <2>1. account \in Account /\ now \in Nat /\ account.lockedUntil \in Nat
      BY <1>1 DEF TypeOK, Account
    <2>2. (IF Unlocked(r) THEN Untouched(r) ELSE Unspent(r))'
      BY <1>1, <1>2, <1>3, <2>1 DEF Unlocked, Untouched, Unspent, IInv, Locking
    <2>3. ASSUME NEW q \in Request, req'[q].pc \in Signing, q # r
          PROVE  (IF Unlocked(q) THEN Untouched(q) ELSE Unspent(q))'
      BY <1>1, <1>3, <2>3 DEF Unlocked, Untouched, Unspent, IInv, Locking
    <2>4. QED
      BY <1>1, <2>2, <2>3 DEF IInv, Locking, LockIsEarned
  <1>10. QED
    BY <1>6, <1>7, <1>8, <1>9 DEF IInv

\* A request that lifts a stale lock finds the failures it has read, and no
\* request that saw no lock is left.
LEMMA LiftedAlone ==
  ASSUME IInv, NEW r \in Request, req[r].pc \in Signing, Lifts(r)
  PROVE  /\ account.failed = req[r].user.failed
         /\ \A q \in Request : req[q].pc \in Signing => Unlocked(q)
  <1>1. /\ now \in Nat /\ account.lockedUntil \in Nat
        /\ Unlocked(r) /\ account.lockedUntil # None /\ account.lockedUntil <= now
    BY DEF IInv, Typed, TypeOK, Account, Lifts, None
  <1>2. ASSUME NEW q \in Request, req[q].pc \in Signing
        PROVE  req[q].at \in Nat /\ account.lockedUntil < req[q].at + LockTime
    <2>1. now < req[q].at + LockTime /\ req[q].at \in Nat /\ LockTime \in Nat
      BY <1>2, AuthConstants DEF IInv, Typed, TypeOK, Served, Signing, RequestState
    <2>2. QED
      BY <1>1, <2>1
  <1>3. account.failed = req[r].user.failed
    <2>1. Untouched(r) /\ req[r].at \in Nat /\ LockTime \in Nat
          /\ account.lockedUntil < req[r].at + LockTime
      BY <1>1, <1>2, AuthConstants DEF IInv, Locking
    <2>2. QED
      BY <1>1, <2>1 DEF Untouched
  <1>4. ASSUME NEW q \in Request, req[q].pc \in Signing
        PROVE  Unlocked(q)
    <2>1. SUFFICES ASSUME ~Unlocked(q)
                   PROVE  FALSE
      OBVIOUS
    <2>2. Unspent(q) /\ account.lockedUntil < req[q].at + LockTime /\ req[q].at \in Nat
          /\ LockTime \in Nat
      BY <1>2, <1>4, <2>1, AuthConstants DEF IInv, Locking
    <2>3. QED
      BY <1>1, <2>2 DEF Unspent
  <1>5. QED
    BY <1>3, <1>4

LEMMA SignerType ==
  ASSUME TypeOK, NEW r \in Request
  PROVE  /\ account \in Account /\ account.failed \in Nat /\ account.lockedUntil \in Nat
         /\ account.password \in Nat /\ now \in Nat /\ wrong \in Nat
         /\ req[r].user \in Account /\ req[r].user.failed \in Nat
         /\ req[r].user.lockedUntil \in Nat /\ req[r].at \in Nat
         /\ req[r].user.password \in Nat /\ req[r].raced \in BOOLEAN
  BY DEF TypeOK, RequestState, Account

\* Counting a failure: the count that is written is one that was counted.
LEMMA WrongPasswordOK ==
  ASSUME IInv, NEW r \in Request, WrongPassword(r)
  PROVE  IInv'
  <1>1. /\ TypeOK /\ Exists /\ req[r].pc \in Signing
        /\ account' = Failed(r) /\ wrong' = (IF Lifts(r) THEN 1 ELSE wrong + 1)
        /\ req' = Done(r) /\ UNCHANGED <<now, tokens, codes, mailbox>>
    BY Serving DEF IInv, Typed, WrongPassword, Signing
  <1>2. /\ req' \in [Request -> RequestState] /\ req'[r] = Idle
        /\ \A q \in Request : SameServed(q) /\ SameSession(q) /\ SameIssue(q) /\ SameLimits(q)
    BY <1>1, DoneGoesOn
  <1>3. /\ account \in Account /\ account.failed \in Nat /\ account.lockedUntil \in Nat
        /\ now \in Nat /\ wrong \in Nat /\ req[r].user.failed \in Nat /\ Loaded(r) \in Nat
        /\ MaxFailed \in Nat \ {0} /\ LockTime \in Nat \ {0}
    BY <1>1, SignerType, AuthConstants DEF Loaded
  <1>4. /\ account' \in Account /\ account'.password = account.password
        /\ account'.failed = Loaded(r) + 1
        /\ account'.lockedUntil = IF Loaded(r) + 1 >= MaxFailed THEN now + LockTime
                                  ELSE IF Unlocked(r) THEN None ELSE account.lockedUntil
    <2> DEFINE l == IF Loaded(r) + 1 >= MaxFailed THEN now + LockTime
                    ELSE IF Unlocked(r) THEN None ELSE account.lockedUntil
    <2>1. l \in Nat /\ Loaded(r) + 1 \in Nat
      BY <1>3 DEF None
    <2>2. account' = [account EXCEPT !.failed = Loaded(r) + 1, !.lockedUntil = l]
      BY <1>1, <1>3 DEF Failed, Account
    <2> HIDE DEF l
    <2>3. /\ account' \in Account /\ account'.password = account.password
          /\ account'.failed = Loaded(r) + 1 /\ account'.lockedUntil = l
      BY <1>3, <2>1, <2>2 DEF Account
    <2>4. QED
      BY <2>3 DEF l
  <1>5. Loaded(r) + 1 <= wrong' /\ wrong' \in Nat
    <2>1. CASE Unlocked(r)
      BY <1>1, <1>3, <2>1 DEF Loaded
    <2>2. CASE ~Unlocked(r)
      <3>1. req[r].user.failed <= wrong
        BY <1>1, <2>2 DEF IInv, Locking, Unspent
      <3>2. QED
        BY <1>1, <1>3, <2>2, <3>1 DEF Loaded, Lifts
    <2>3. QED
      BY <2>1, <2>2
  <1>6. Typed'
    <2>1. TypeOK'
      BY <1>1, <1>2, <1>4, <1>5 DEF TypeOK
    <2>2. QED
      BY <1>1, <1>2, <1>4, <2>1, ServedLeft DEF IInv, Exists
  <1>7. Vouched' /\ Twins' /\ Single' /\ Limited'
    BY <1>1, <1>2, <1>4, SessionsLeft, CodesLeft, LimitsLeft DEF IInv
  <1>8. Locking'
    <2>1. LockIsEarned'
      <3>1. CASE Loaded(r) + 1 >= MaxFailed
        BY <1>1, <1>3, <1>4, <1>5, <3>1 DEF LockIsEarned
      <3>2. CASE ~(Loaded(r) + 1 >= MaxFailed) /\ Unlocked(r)
        BY <1>1, <1>3, <1>4, <3>2 DEF LockIsEarned, None
      <3>3. CASE ~(Loaded(r) + 1 >= MaxFailed) /\ ~Unlocked(r)
        BY <1>1, <1>3, <1>4, <3>3 DEF LockIsEarned, Lifts, IInv, Locking
      <3>4. QED
        BY <3>1, <3>2, <3>3
    <2>2. ASSUME NEW q \in Request, req'[q].pc \in Signing
          PROVE  (IF Unlocked(q) THEN Untouched(q) ELSE Unspent(q))'
      <3>1. /\ q # r /\ req[q].pc \in Signing /\ req'[q].user = req[q].user /\ req'[q].at = req[q].at
        BY <1>2, <2>2 DEF SameSession, Signing, Idle
      <3>2. /\ req[q].user.failed \in Nat /\ req[q].user.lockedUntil \in Nat /\ req[q].at \in Nat
            /\ req[q].at <= now
        BY <1>1, <3>1, SignerType DEF IInv, Typed, Served, Signing
      <3>3. IF Unlocked(q) THEN Untouched(q) ELSE Unspent(q)
        BY <3>1 DEF IInv, Locking
      <3>4. Unlocked(q) <=> Unlocked(q)'
        BY <3>1 DEF Unlocked
      <3>5. CASE account'.lockedUntil # account.lockedUntil
        <4>1. account'.lockedUntil = None \/ req[q].at + LockTime <= account'.lockedUntil
          BY <1>3, <1>4, <3>2, <3>5
        <4>2. CASE Unlocked(q)
          BY <3>1, <3>3, <3>4, <4>1, <4>2 DEF Untouched
        <4>3. CASE ~Unlocked(q)
          <5>1. ~Lifts(r)
            BY <1>1, <3>1, <4>3, LiftedAlone
          <5>2. req[q].user.failed <= wrong'
            BY <1>1, <1>3, <3>2, <3>3, <4>3, <5>1 DEF Unspent
          <5>3. QED
            BY <3>1, <3>4, <4>1, <4>3, <5>2 DEF Unspent
        <4>4. QED
          BY <4>2, <4>3
      <3>6. CASE account'.lockedUntil = account.lockedUntil
        <4>1. CASE ~Unlocked(q)
          <5>1. ~Lifts(r)
            BY <1>1, <3>1, <4>1, LiftedAlone
          <5>2. req[q].user.failed <= wrong'
            BY <1>1, <1>3, <3>2, <3>3, <4>1, <5>1 DEF Unspent
          <5>3. QED
            BY <3>1, <3>3, <3>4, <3>6, <4>1, <5>2 DEF Unspent
        <4>2. CASE Unlocked(q) /\ Unlocked(r)
          <5>1. account'.lockedUntil = None \/ account'.lockedUntil = now + LockTime
            BY <1>4, <4>2
          <5>2. account'.lockedUntil = None \/ req[q].at + LockTime <= account'.lockedUntil
            BY <1>3, <3>2, <5>1
          <5>3. QED
            BY <3>1, <3>3, <3>4, <4>2, <5>2 DEF Untouched
        <4>3. CASE Unlocked(q) /\ ~Unlocked(r)
          <5>1. account.lockedUntil = None \/ req[r].at + LockTime <= account.lockedUntil
            BY <1>1, <4>3 DEF IInv, Locking, Unspent
          <5>2. now < req[r].at + LockTime /\ req[r].at \in Nat
            BY <1>1, SignerType DEF IInv, Typed, Served, Signing
          <5>3. req[q].user.lockedUntil <= now
            BY <3>2, <3>3, <4>3, <1>3 DEF Untouched
          <5>4. CASE account.lockedUntil = None
            BY <3>1, <3>3, <3>4, <3>6, <4>3, <5>4 DEF Untouched
          <5>5. CASE account.lockedUntil # None
            <6>1. account.lockedUntil # req[q].user.lockedUntil
              BY <1>3, <3>2, <5>1, <5>2, <5>3, <5>5
            <6>2. QED
              BY <3>1, <3>3, <3>4, <3>6, <4>3, <5>5, <6>1 DEF Untouched
          <5>6. QED
            BY <5>4, <5>5
        <4>4. QED
          BY <4>1, <4>2, <4>3
      <3>7. QED
        BY <3>5, <3>6
    <2>3. QED
      BY <1>4, <1>5, <2>1, <2>2 DEF Locking
  <1>9. QED
    BY <1>6, <1>7, <1>8 DEF IInv

\* A login opens a session for the password that was current when it read the
\* row, or, if a reset raced it, for the new one.
LEMMA RightPasswordOK ==
  ASSUME IInv, NEW r \in Request, RightPassword(r)
  PROVE  IInv'
  <1> DEFINE v == IF req[r].raced THEN account.password ELSE req[r].user.password
             k == NewToken(None, v, req[r].raced)
             n == Len(tokens) + 1
  <1>1. /\ TypeOK /\ Exists /\ req[r].pc \in Signing
        /\ account' = Succeeded(r) /\ wrong' = (IF Lifts(r) THEN 0 ELSE wrong)
        /\ tokens' = Append(tokens, k)
        /\ req' = Done(r) /\ UNCHANGED <<now, codes, mailbox>>
    BY Serving DEF IInv, Typed, RightPassword, Signing
  <1>2. /\ req' \in [Request -> RequestState] /\ req'[r] = Idle
        /\ \A q \in Request : SameServed(q) /\ SameSession(q) /\ SameIssue(q) /\ SameLimits(q)
    BY <1>1, DoneGoesOn
  <1>3. v = account.password
    BY <1>1 DEF IInv, Vouched
  <1>4. /\ k \in RefreshToken /\ k.from = None /\ k.vouch = account.password
    <2>1. None \in Nat /\ v \in Nat /\ req[r].raced \in BOOLEAN /\ now \in Nat
      BY <1>1, <1>3, SignerType DEF None
    <2>2. QED
      BY <1>3, <2>1, NewTokenType
  <1> HIDE DEF v, k
  <1>5. /\ tokens' \in Seq(RefreshToken) /\ tokens'[n] = k
        /\ Len(tokens) \in Nat /\ DOMAIN tokens = 1 .. Len(tokens) /\ DOMAIN tokens' = 1 .. n
        /\ \A i \in DOMAIN tokens : tokens'[i] = tokens[i]
    BY <1>1, <1>4, Appended DEF TypeOK
  <1>6. /\ DOMAIN tokens' = DOMAIN tokens \cup {n} /\ n \notin DOMAIN tokens
    BY <1>5
  <1> HIDE DEF n
  <1>7. /\ account' \in Account /\ account'.password = account.password
        /\ account'.failed = (IF req[r].user.failed # 0 THEN 0 ELSE account.failed)
        /\ account'.lockedUntil = (IF Unlocked(r) THEN None ELSE account.lockedUntil)
    BY <1>1, SignerType DEF Succeeded, Account, None
  <1>8. Typed'
    <2>1. TypeOK'
      BY <1>1, <1>2, <1>5, <1>7 DEF TypeOK
    <2>2. QED
      BY <1>1, <1>2, <1>6, <1>7, <2>1, ServedLeft DEF IInv, Exists
  <1>9. Vouched'
    <2>1. \A q \in Request : req[q].pc = "rotate" => req[q].row \in DOMAIN tokens
      BY DEF IInv, Typed, Served
    <2>2. ASSUME NEW q \in Request
          PROVE  /\ req'[q].pc = "rotate" /\ ~req'[q].raced => ~tokens'[req'[q].row].revoked
                 /\ req'[q].pc \in Signing /\ ~req'[q].raced =>
                       req'[q].user.password = account'.password
      BY <1>2, <1>5, <1>7, <2>1 DEF IInv, Vouched, SameSession
    <2>3. ASSUME NEW i \in DOMAIN tokens'
          PROVE  /\ ~tokens'[i].revoked => tokens'[i].vouch = account'.password
                 /\ tokens'[i].from # None =>
                      tokens'[i].from \in DOMAIN tokens' /\ tokens'[tokens'[i].from].revoked
      <3>1. CASE i = n
        BY <1>4, <1>5, <1>7, <3>1
      <3>2. CASE i \in DOMAIN tokens
        BY <1>5, <1>6, <1>7, <3>2 DEF IInv, Vouched
      <3>3. QED
        BY <1>6, <3>1, <3>2
    <2>4. QED
      BY <2>2, <2>3 DEF Vouched
  <1>10. Twins'
    BY <1>4, <1>5, <1>6 DEF IInv, Twins
  <1>11. Single' /\ Limited'
    BY <1>1, <1>2, CodesLeft, LimitsLeft DEF IInv
  <1>12. Locking'
    <2>1. /\ account.failed \in Nat /\ account.lockedUntil \in Nat /\ now \in Nat /\ wrong \in Nat
          /\ req[r].user.failed \in Nat
      BY <1>1, SignerType
    <2>2. account'.failed <= wrong'
      <3>1. CASE Lifts(r)
        BY <1>1, <1>7, <2>1, <3>1, LiftedAlone
      <3>2. CASE ~Lifts(r)
        BY <1>1, <1>7, <2>1, <3>2 DEF IInv, Locking
      <3>3. QED
        BY <3>1, <3>2
    <2>3. LockIsEarned'
      <3>1. CASE Unlocked(r)
        BY <1>1, <1>7, <2>1, <3>1 DEF LockIsEarned, None
      <3>2. CASE ~Unlocked(r)
        BY <1>1, <1>7, <2>1, <3>2 DEF LockIsEarned, Lifts, IInv, Locking
      <3>3. QED
        BY <3>1, <3>2
    <2>4. ASSUME NEW q \in Request, req'[q].pc \in Signing
          PROVE  (IF Unlocked(q) THEN Untouched(q) ELSE Unspent(q))'
      <3>1. /\ req[q].pc \in Signing /\ req'[q].user = req[q].user /\ req'[q].at = req[q].at
        BY <1>2, <2>4 DEF SameSession
      <3>2. /\ req[q].user.failed \in Nat /\ req[q].user.lockedUntil \in Nat /\ req[q].at \in Nat
        BY <1>1, SignerType
      <3>3. IF Unlocked(q) THEN Untouched(q) ELSE Unspent(q)
        BY <3>1 DEF IInv, Locking
      <3>4. Unlocked(q) <=> Unlocked(q)'
        BY <3>1 DEF Unlocked
      <3>5. CASE ~Unlocked(q)
        <4>1. ~Lifts(r)
          BY <1>1, <3>1, <3>5, LiftedAlone
        <4>2. QED
          BY <1>1, <1>7, <3>1, <3>3, <3>4, <3>5, <4>1 DEF Unspent
      <3>6. CASE Unlocked(q) /\ Unlocked(r)
        BY <1>7, <3>1, <3>3, <3>4, <3>6 DEF Untouched
      <3>7. CASE Unlocked(q) /\ ~Unlocked(r)
        <4>1. account.lockedUntil = None \/ req[r].at + LockTime <= account.lockedUntil
          BY <1>1, <3>7 DEF IInv, Locking, Unspent
        <4>2. now < req[r].at + LockTime /\ req[r].at \in Nat /\ LockTime \in Nat /\ req[q].at <= now
          BY <1>1, <3>1, SignerType, AuthConstants DEF IInv, Typed, Served, Signing
        <4>3. req[q].user.lockedUntil <= now
          BY <2>1, <3>2, <3>3, <3>7, <4>2 DEF Untouched
        <4>4. CASE account.lockedUntil = None
          BY <1>7, <3>1, <3>3, <3>4, <3>7, <4>4 DEF Untouched
        <4>5. CASE account.lockedUntil # None
          <5>1. account.lockedUntil # req[q].user.lockedUntil
            BY <2>1, <3>2, <4>1, <4>2, <4>3, <4>5
          <5>2. QED
            BY <1>7, <3>1, <3>3, <3>4, <3>7, <4>5, <5>1 DEF Untouched
        <4>6. QED
          BY <4>4, <4>5
      <3>8. QED
        BY <3>5, <3>6, <3>7
    <2>5. QED
      BY <2>2, <2>3, <2>4 DEF Locking
  <1>13. QED
    BY <1>8, <1>9, <1>10, <1>11, <1>12 DEF IInv

-----------------------------------------------------------------------------
(* Refresh tokens.                                                         *)

LEMMA RefreshOK ==
  ASSUME IInv, NEW r \in Request, NEW i \in DOMAIN tokens, Refresh(r, i)
  PROVE  IInv'
  <1> DEFINE d == [Idle EXCEPT !.pc = StageOf(i), !.at = now, !.row = i]
  <1>1. /\ TypeOK /\ req[r].pc = "idle" /\ req' = [req EXCEPT ![r] = d]
        /\ UNCHANGED <<now, account, tokens, codes, mailbox, wrong>>
    BY DEF IInv, Typed, Refresh
  <1>2. Exists
    BY <1>1, TokenAt DEF IInv, Typed, Begun, TypeOK
  <1>3. /\ d \in RequestState /\ d.at = now /\ d.row = i /\ d.pc \in {"rotate", "reuse"}
        /\ d.pc = "rotate" => ~tokens[i].revoked
    <2>1. i \in Nat /\ StageOf(i) \in {"rotate", "reuse"} /\ now \in Nat
      BY <1>1, TokenAt DEF StageOf, TypeOK
    <2>2. d.pc = "rotate" => ~tokens[i].revoked
      BY DEF StageOf, Idle
    <2>3. QED
      BY <2>1, <2>2, IdleState DEF RequestState, Stage, Idle
  <1> HIDE DEF d
  <1>4. req'[r] = d /\ \A q \in Request : q # r => req'[q] = req[q]
    BY <1>1 DEF TypeOK
  <1>5. \A q \in Request : q # r =>
          SameServed(q) /\ SameSession(q) /\ SameIssue(q) /\ SameLimits(q)
    BY <1>1, <1>4, Ongoing DEF GoesOn
  <1>6. SameIssue(r) /\ SameLimits(r)
    BY <1>3, <1>4 DEF SameIssue, SameLimits
  <1>7. Typed'
    <2>1. TypeOK'
      BY <1>1, <1>3 DEF TypeOK
    <2>2. Served(r)'
      BY <1>1, <1>3, <1>4, AuthConstants DEF Served, TypeOK
    <2>3. ASSUME NEW q \in Request, q # r
          PROVE  Served(q)'
      BY <1>1, <1>4, <2>3 DEF Served, IInv, Typed
    <2>4. QED
      BY <1>1, <1>2, <2>1, <2>2, <2>3 DEF Typed, Begun, Exists
  <1>8. Vouched' /\ Twins'
    <2>1. ASSUME NEW q \in Request
          PROVE  /\ req'[q].pc = "rotate" /\ ~req'[q].raced => ~tokens'[req'[q].row].revoked
                 /\ req'[q].pc \in Signing /\ ~req'[q].raced =>
                       req'[q].user.password = account'.password
      <3>1. CASE q = r
        BY <1>1, <1>3, <1>4, <3>1 DEF Signing
      <3>2. CASE q # r
        BY <1>1, <1>4, <3>2 DEF IInv, Vouched
      <3>3. QED
        BY <3>1, <3>2
    <2>2. QED
      BY <1>1, <2>1 DEF IInv, Vouched, Twins
  <1>9. Single' /\ Limited'
    BY <1>1, <1>5, <1>6, CodesLeft, LimitsLeft DEF IInv
  <1>10. Locking'
    <2>1. ASSUME NEW q \in Request, req'[q].pc \in Signing
          PROVE  (IF Unlocked(q) THEN Untouched(q) ELSE Unspent(q))'
      <3>1. q # r /\ req'[q] = req[q]
        BY <1>3, <1>4, <2>1 DEF Signing
      <3>2. IF Unlocked(q) THEN Untouched(q) ELSE Unspent(q)
        BY <2>1, <3>1 DEF IInv, Locking
      <3>3. QED
        BY <1>1, <3>1, <3>2 DEF Unlocked, Untouched, Unspent
    <2>2. QED
      BY <1>1, <2>1 DEF IInv, Locking, LockIsEarned
  <1>11. QED
    BY <1>7, <1>8, <1>9, <1>10 DEF IInv

\* Revoking tokens, with those raced who have read one of them.
LEMMA RevokedOK ==
  ASSUME IInv, NEW r \in Request, Exists, NEW gone \in SUBSET (DOMAIN tokens),
         NEW affected \in SUBSET Request, req' = DoneRacing(r, affected),
         tokens' = [i \in DOMAIN tokens |->
                      IF i \in gone THEN [tokens[i] EXCEPT !.revoked = TRUE] ELSE tokens[i]],
         \A q \in Request : req[q].pc = "rotate" /\ req[q].row \in gone => q \in affected,
         UNCHANGED <<now, account, codes, mailbox, wrong>>
  PROVE  IInv'
  <1>1. TypeOK
    BY DEF IInv, Typed
  <1>2. /\ req' \in [Request -> RequestState] /\ req'[r] = Idle
        /\ \A q \in Request : SameServed(q) /\ SameSession(q) /\ SameIssue(q) /\ SameLimits(q)
    BY <1>1, DoneGoesOn
  <1>3. tokens' \in Seq(RefreshToken) /\ DOMAIN tokens' = DOMAIN tokens
    <2>1. \A i \in DOMAIN tokens : tokens[i] \in RefreshToken
      BY <1>1, TokenAt DEF TypeOK
    <2>2. tokens' \in [DOMAIN tokens -> RefreshToken]
      BY <2>1 DEF RefreshToken
    <2>3. tokens \in Seq(RefreshToken)
      BY <1>1 DEF TypeOK
    <2>4. QED
      BY <2>2, <2>3, Mapped
  <1>4. ASSUME NEW i \in DOMAIN tokens
        PROVE  /\ tokens'[i].from = tokens[i].from /\ tokens'[i].vouch = tokens[i].vouch
               /\ tokens'[i].raced = tokens[i].raced
               /\ tokens'[i].revoked <=> tokens[i].revoked \/ i \in gone
    <2>1. tokens[i] \in RefreshToken
      BY <1>1, TokenAt DEF TypeOK
    <2>2. QED
      BY <2>1 DEF RefreshToken
  <1>5. Typed'
    <2>1. TypeOK'
      BY <1>1, <1>2, <1>3 DEF TypeOK
    <2>2. QED
      BY <1>2, <1>3, <2>1, ServedLeft DEF IInv, Exists
  <1>6. Vouched'
    <2>1. ASSUME NEW q \in Request, req'[q].pc = "rotate", ~req'[q].raced
          PROVE  ~tokens'[req'[q].row].revoked
      <3>1. q # r /\ req'[q] = IF q \in affected THEN [req[q] EXCEPT !.raced = TRUE] ELSE req[q]
        BY <1>1, <2>1, DoneRacingIs DEF Idle
      <3>2. q \notin affected
        BY <1>1, <2>1, <3>1 DEF TypeOK, RequestState
      <3>3. req[q].pc = "rotate" /\ ~req[q].raced /\ req'[q].row = req[q].row /\ req[q].row \notin gone
        BY <2>1, <3>1, <3>2
      <3>4. req[q].row \in DOMAIN tokens /\ ~tokens[req[q].row].revoked
        BY <3>3 DEF IInv, Typed, Served, Vouched
      <3>5. QED
        BY <1>4, <3>3, <3>4
    <2>2. ASSUME NEW q \in Request, req'[q].pc \in Signing, ~req'[q].raced
          PROVE  req'[q].user.password = account'.password
      BY <1>2, <2>2 DEF SameSession, IInv, Vouched
    <2>3. \A i \in DOMAIN tokens' : ~tokens'[i].revoked => tokens'[i].vouch = account'.password
      BY <1>3, <1>4 DEF IInv, Vouched
    <2>4. ASSUME NEW i \in DOMAIN tokens', tokens'[i].from # None
          PROVE  tokens'[i].from \in DOMAIN tokens' /\ tokens'[tokens'[i].from].revoked
      <3>1. /\ tokens[i].from \in DOMAIN tokens /\ tokens[tokens[i].from].revoked
            /\ tokens'[i].from = tokens[i].from
        BY <1>3, <1>4, <2>4 DEF IInv, Vouched
      <3>2. QED
        BY <1>3, <1>4, <3>1
    <2>5. QED
      BY <2>1, <2>2, <2>3, <2>4 DEF Vouched
  <1>7. Twins'
    BY <1>3, <1>4 DEF IInv, Twins
  <1>8. Single' /\ Limited' /\ Locking'
    BY <1>1, <1>2, CodesLeft, LimitsLeft, LocksLeft DEF IInv
  <1>9. QED
    BY <1>5, <1>6, <1>7, <1>8 DEF IInv

LEMMA ReuseOK ==
  ASSUME IInv, NEW r \in Request, Reuse(r)
  PROVE  IInv'
  <1> DEFINE gone == DOMAIN tokens
             affected == {q \in Request : req[q].pc = "rotate"}
  <1>1. Exists
    BY Serving DEF IInv, Reuse
  <1>2. tokens' = [i \in DOMAIN tokens |->
                     IF i \in gone THEN [tokens[i] EXCEPT !.revoked = TRUE] ELSE tokens[i]]
    BY DEF Reuse, AllRevoked
  <1>3. /\ req' = DoneRacing(r, affected) /\ affected \in SUBSET Request
        /\ gone \in SUBSET (DOMAIN tokens)
        /\ UNCHANGED <<now, account, codes, mailbox, wrong>>
    BY DEF Reuse
  <1>4. \A q \in Request : req[q].pc = "rotate" /\ req[q].row \in gone => q \in affected
    OBVIOUS
  <1> HIDE DEF gone, affected
  <1>5. QED
    BY <1>1, <1>2, <1>3, <1>4, RevokedOK

LEMMA LogoutOK ==
  ASSUME IInv, NEW r \in Request, NEW k \in DOMAIN tokens, Logout(r, k)
  PROVE  IInv'
  <1> DEFINE gone == {k}
             affected == {q \in Request : Presents(q, k)}
  <1>1. Exists /\ tokens \in Seq(RefreshToken)
    BY TokenAt DEF IInv, Typed, Begun, TypeOK
  <1>2. tokens' = [i \in DOMAIN tokens |->
                     IF i \in gone THEN [tokens[i] EXCEPT !.revoked = TRUE] ELSE tokens[i]]
    BY <1>1 DEF Logout
  <1>3. \A q \in Request : req[q].pc = "rotate" /\ req[q].row \in gone => q \in affected
    BY DEF Presents
  <1>4. /\ req' = DoneRacing(r, affected) /\ affected \in SUBSET Request
        /\ gone \in SUBSET (DOMAIN tokens)
        /\ UNCHANGED <<now, account, codes, mailbox, wrong>>
    BY DEF Logout
  <1> HIDE DEF gone, affected
  <1>5. QED
    BY <1>1, <1>2, <1>3, <1>4, RevokedOK

\* The successor of a token: another one exists only if one of the two was
\* issued by a request that had been raced.
LEMMA RotateOK ==
  ASSUME IInv, NEW r \in Request, Rotate(r)
  PROVE  IInv'
  <1> DEFINE i == req[r].row
             v == IF req[r].raced THEN account.password ELSE tokens[i].vouch
             k == NewToken(i, v, req[r].raced)
             n == Len(tokens) + 1
             old == [tokens EXCEPT ![i].revoked = TRUE]
             affected == {q \in Request : Presents(q, i)}
  <1>1. /\ TypeOK /\ Exists /\ req[r].pc = "rotate" /\ i \in DOMAIN tokens
        /\ tokens' = Append(old, k) /\ req' = DoneRacing(r, affected)
        /\ UNCHANGED <<now, account, codes, mailbox, wrong>>
    BY Serving DEF IInv, Typed, Served, Rotate
  <1>2. /\ req' \in [Request -> RequestState] /\ req'[r] = Idle
        /\ \A q \in Request : SameServed(q) /\ SameSession(q) /\ SameIssue(q) /\ SameLimits(q)
    BY <1>1, DoneGoesOn
  <1>3. v = account.password /\ (~req[r].raced => ~tokens[i].revoked)
    BY <1>1 DEF IInv, Vouched
  <1>4. /\ k \in RefreshToken /\ k.from = i /\ k.vouch = account.password
        /\ k.raced = req[r].raced
    <2>1. i \in Nat /\ v \in Nat /\ req[r].raced \in BOOLEAN /\ now \in Nat
      BY <1>1, <1>3, SignerType, TokenAt DEF TypeOK
    <2>2. QED
      BY <1>3, <2>1, NewTokenType
  <1>5. old \in Seq(RefreshToken) /\ DOMAIN old = DOMAIN tokens /\ Len(old) = Len(tokens)
    <2>1. \A j \in DOMAIN tokens : tokens[j] \in RefreshToken
      BY <1>1, TokenAt DEF TypeOK
    <2>2. old \in [DOMAIN tokens -> RefreshToken]
      BY <2>1 DEF RefreshToken
    <2>3. tokens \in Seq(RefreshToken)
      BY <1>1 DEF TypeOK
    <2>4. QED
      BY <2>2, <2>3, Mapped
  <1>6. ASSUME NEW j \in DOMAIN tokens
        PROVE  /\ old[j].from = tokens[j].from /\ old[j].vouch = tokens[j].vouch
               /\ old[j].raced = tokens[j].raced
               /\ old[j].revoked <=> tokens[j].revoked \/ j = i
    <2>1. tokens[j] \in RefreshToken
      BY <1>1, TokenAt DEF TypeOK
    <2>2. QED
      BY <2>1 DEF RefreshToken
  <1> HIDE DEF v, k, old, i
  <1>7. /\ tokens' \in Seq(RefreshToken) /\ tokens'[n] = k
        /\ Len(tokens) \in Nat /\ DOMAIN tokens = 1 .. Len(tokens) /\ DOMAIN tokens' = 1 .. n
        /\ \A j \in DOMAIN tokens : tokens'[j] = old[j]
    BY <1>1, <1>4, <1>5, Appended DEF TypeOK
  <1>8. DOMAIN tokens' = DOMAIN tokens \cup {n} /\ n \notin DOMAIN tokens
    BY <1>7
  <1> HIDE DEF n
  <1>9. Typed'
    <2>1. TypeOK'
      BY <1>1, <1>2, <1>7 DEF TypeOK
    <2>2. QED
      BY <1>1, <1>2, <1>8, <2>1, ServedLeft DEF IInv, Exists
  <1>10. Vouched'
    <2>1. ASSUME NEW q \in Request, req'[q].pc = "rotate", ~req'[q].raced
          PROVE  ~tokens'[req'[q].row].revoked
      <3>1. q # r /\ req'[q] = IF q \in affected THEN [req[q] EXCEPT !.raced = TRUE] ELSE req[q]
        BY <1>1, <2>1, DoneRacingIs DEF Idle
      <3>2. q \notin affected
        BY <1>1, <2>1, <3>1 DEF TypeOK, RequestState
      <3>3. req[q].pc = "rotate" /\ ~req[q].raced /\ req'[q].row = req[q].row /\ req[q].row # i
        BY <2>1, <3>1, <3>2 DEF Presents
      <3>4. req[q].row \in DOMAIN tokens /\ ~tokens[req[q].row].revoked
        BY <3>3 DEF IInv, Typed, Served, Vouched
      <3>5. QED
        BY <1>6, <1>7, <3>3, <3>4
    <2>2. ASSUME NEW q \in Request, req'[q].pc \in Signing, ~req'[q].raced
          PROVE  req'[q].user.password = account'.password
      BY <1>1, <1>2, <2>2 DEF SameSession, IInv, Vouched
    <2>3. ASSUME NEW j \in DOMAIN tokens'
          PROVE  ~tokens'[j].revoked => tokens'[j].vouch = account'.password
      <3>1. CASE j = n
        BY <1>1, <1>4, <1>7, <3>1
      <3>2. CASE j \in DOMAIN tokens
        BY <1>1, <1>6, <1>7, <3>2 DEF IInv, Vouched
      <3>3. QED
        BY <1>8, <3>1, <3>2
    <2>4. ASSUME NEW j \in DOMAIN tokens', tokens'[j].from # None
          PROVE  tokens'[j].from \in DOMAIN tokens' /\ tokens'[tokens'[j].from].revoked
      <3>1. CASE j = n
        BY <1>1, <1>4, <1>6, <1>7, <1>8, <3>1
      <3>2. CASE j \in DOMAIN tokens
        <4>1. /\ tokens[j].from \in DOMAIN tokens /\ tokens[tokens[j].from].revoked
              /\ tokens'[j].from = tokens[j].from
          BY <1>6, <1>7, <2>4, <3>2 DEF IInv, Vouched
        <4>2. QED
          BY <1>6, <1>7, <1>8, <4>1
      <3>3. QED
        BY <1>8, <3>1, <3>2
    <2>5. QED
      BY <2>1, <2>2, <2>3, <2>4 DEF Vouched
  <1>11. Twins'
    <2>1. ASSUME NEW j \in DOMAIN tokens, tokens[j].from = i, i # None
          PROVE  k.raced
      <3>1. tokens[i].revoked
        BY <2>1 DEF IInv, Vouched
      <3>2. QED
        BY <1>3, <1>4, <3>1
    <2>2. SUFFICES ASSUME NEW a \in DOMAIN tokens', NEW b \in DOMAIN tokens', a # b,
                          tokens'[a].from = tokens'[b].from, tokens'[a].from # None
                   PROVE  tokens'[a].raced \/ tokens'[b].raced
      BY DEF Twins
    <2>3. CASE a \in DOMAIN tokens /\ b \in DOMAIN tokens
      BY <1>6, <1>7, <2>2, <2>3 DEF IInv, Twins
    <2>4. CASE a = n /\ b \in DOMAIN tokens
      BY <1>4, <1>6, <1>7, <2>1, <2>2, <2>4
    <2>5. CASE b = n /\ a \in DOMAIN tokens
      BY <1>4, <1>6, <1>7, <2>1, <2>2, <2>5
    <2>6. QED
      BY <1>8, <2>2, <2>3, <2>4, <2>5
  <1>12. Single' /\ Limited' /\ Locking'
    BY <1>1, <1>2, CodesLeft, LimitsLeft, LocksLeft DEF IInv
  <1>13. QED
    BY <1>9, <1>10, <1>11, <1>12 DEF IInv

-----------------------------------------------------------------------------
(* Reset codes.                                                            *)

\* A step of one request, which reads or writes neither tokens nor the account.
LEMMA ResetLeft ==
  ASSUME IInv, TypeOK', Exists, NEW r \in Request,
         UNCHANGED <<now, account, tokens, wrong>>, DOMAIN codes \subseteq DOMAIN codes',
         \A q \in Request : q # r => SameServed(q),
         Served(r)', req'[r].pc \notin Signing \cup {"rotate"},
         \A q \in Request : q # r => SameSession(q)
  PROVE  Typed' /\ Vouched' /\ Twins' /\ Locking'
  <1>1. \A q \in Request : SameSession(q)
    BY DEF SameSession
  <1>2. Vouched' /\ Twins' /\ Locking'
    BY <1>1, SessionsLeft, LocksLeft DEF IInv
  <1>3. ASSUME NEW q \in Request, q # r
        PROVE  Served(q)'
    BY <1>3 DEF IInv, Typed, Served, SameServed
  <1>4. QED
    BY <1>2, <1>3 DEF Typed, Begun, Exists

\* One more is on its way to issue a code, and the hour's limit is not reached.
LEMMA ForgotOK ==
  ASSUME IInv, NEW r \in Request, Forgot(r)
  PROVE  IInv'
  <1> DEFINE d == [Idle EXCEPT !.pc = "supersede", !.at = now]
  <1>1. /\ TypeOK /\ Exists /\ req[r].pc = "idle" /\ req' = [req EXCEPT ![r] = d]
        /\ Cardinality(Issued(now - Hour)) < MaxPerHour
        /\ UNCHANGED <<now, account, tokens, codes, mailbox, wrong>>
    BY DEF IInv, Typed, Forgot, MayIssue
  <1>2. d \in RequestState /\ d.at = now /\ d.pc = "supersede"
    BY <1>1, IdleState DEF TypeOK, RequestState, Stage, Idle
  <1> HIDE DEF d
  <1>3. req'[r] = d /\ \A q \in Request : q # r => req'[q] = req[q]
    BY <1>1 DEF TypeOK
  <1>4. \A q \in Request : q # r =>
          SameServed(q) /\ SameSession(q) /\ SameIssue(q) /\ SameLimits(q)
    BY <1>1, <1>3, Ongoing DEF GoesOn
  <1>5. SameIssue(r)
    BY <1>2, <1>3 DEF SameIssue
  <1>6. Typed' /\ Vouched' /\ Twins' /\ Locking'
    <2>1. TypeOK'
      BY <1>1, <1>2 DEF TypeOK
    <2>2. Served(r)'
      BY <1>1, <1>2, <1>3, AuthConstants DEF Served, TypeOK
    <2>3. req'[r].pc \notin Signing \cup {"rotate"}
      BY <1>2, <1>3 DEF Signing
    <2>4. QED
      BY <1>1, <1>4, <2>1, <2>2, <2>3, ResetLeft
  <1>7. Single'
    BY <1>1, <1>4, <1>5, CodesLeft DEF IInv
  <1>8. Limited'
    <2>1. ASSUME NEW i \in DOMAIN codes
          PROVE  codes'[i].failed + Cardinality(Missing(i)') <= MaxGuesses + Cardinality(Request) - 1
      <3>1. Missing(i)' = Missing(i)
        BY <1>1, <1>2, <1>3 DEF Missing
      <3>2. QED
        BY <1>1, <3>1 DEF IInv, Limited
    <2>2. Cardinality(Issued(now - Hour)') + Cardinality(Issuing') <= MaxPerHour + Cardinality(Request) - 1
      <3>1. Issued(now - Hour)' = Issued(now - Hour)
        BY <1>1 DEF Issued
      <3>2. Issuing' \subseteq Request
        BY DEF Issuing
      <3>3. /\ Cardinality(Issuing') \in Nat /\ Cardinality(Request) \in Nat
            /\ Cardinality(Issuing') <= Cardinality(Request)
        BY <3>2, RequestCount
      <3>4. Cardinality(Issued(now - Hour)) \in Nat /\ MaxPerHour \in Nat
        BY <1>1, IssuedCount, AuthConstants DEF TypeOK
      <3>5. QED
        BY <1>1, <3>1, <3>3, <3>4
    <2>3. QED
      BY <1>1, <2>1, <2>2 DEF Limited
  <1>9. QED
    BY <1>6, <1>7, <1>8 DEF IInv

LEMMA SupersedeOK ==
  ASSUME IInv, NEW r \in Request, Supersede(r)
  PROVE  IInv'
  <1>1. /\ TypeOK /\ Exists /\ req[r].pc = "supersede" /\ Served(r)
        /\ req' = [req EXCEPT ![r].pc = "issue", ![r].seen = Unused]
        /\ UNCHANGED <<now, account, tokens, codes, mailbox, wrong>>
    BY Serving DEF IInv, Typed, Supersede
  <1>2. Unused \in SUBSET Nat
    <2>1. DOMAIN codes \subseteq Nat
      BY <1>1, CodeAt DEF TypeOK
    <2>2. QED
      BY <2>1 DEF Unused
  <1>3. /\ req'[r].pc = "issue" /\ req'[r].seen = Unused /\ req'[r].at = req[r].at
        /\ req' \in [Request -> RequestState]
        /\ \A q \in Request : q # r => req'[q] = req[q]
    BY <1>1, <1>2 DEF TypeOK, RequestState, Stage
  <1>4. \A q \in Request : q # r =>
          SameServed(q) /\ SameSession(q) /\ SameIssue(q) /\ SameLimits(q)
    BY <1>1, <1>3, Ongoing DEF GoesOn
  <1>5. SameLimits(r)
    BY <1>1, <1>3 DEF SameLimits
  <1>6. Typed' /\ Vouched' /\ Twins' /\ Locking'
    <2>1. TypeOK'
      BY <1>1, <1>3 DEF TypeOK
    <2>2. Served(r)'
      BY <1>1, <1>3 DEF Served
    <2>3. req'[r].pc \notin Signing \cup {"rotate"}
      BY <1>3 DEF Signing
    <2>4. QED
      BY <1>1, <1>4, <2>1, <2>2, <2>3, ResetLeft
  <1>7. Single'
    <2>1. Unused' = Unused
      BY <1>1 DEF Unused
    <2>2. ASSUME NEW q \in Request, req'[q].pc = "issue", ~req'[q].raced
          PROVE  Unused' \subseteq req'[q].seen
      <3>1. CASE q = r
        BY <1>3, <2>1, <3>1
      <3>2. CASE q # r
        BY <1>3, <2>1, <2>2, <3>2 DEF IInv, Single
      <3>3. QED
        BY <3>1, <3>2
    <2>3. QED
      BY <1>1, <2>2 DEF IInv, Single
  <1>8. Limited'
    BY <1>1, <1>4, <1>5, LimitsLeft DEF IInv
  <1>9. QED
    BY <1>6, <1>7, <1>8 DEF IInv

\* The code that is recorded and the request that is done take each other's
\* place in the count; every other request that is issuing has been raced.
LEMMA IssueOK ==
  ASSUME IInv, NEW r \in Request, Issue(r)
  PROVE  IInv'
  <1> DEFINE n == Len(codes) + 1
             k == [created |-> now, expires |-> req[r].at + CodeTime, used |-> FALSE,
                   failed |-> 0, redeemed |-> 0, raced |-> req[r].raced]
             old == [i \in DOMAIN codes |->
                       [codes[i] EXCEPT !.used = @ \/ i \in req[r].seen]]
  <1>1. /\ TypeOK /\ Exists /\ req[r].pc = "issue" /\ Served(r)
        /\ codes' = Append(old, k)
        /\ UNCHANGED <<now, account, tokens, mailbox, wrong>>
    BY Serving DEF IInv, Typed, Issue
  <1>2. k \in ResetCode /\ k.raced = req[r].raced
    <2>1. now \in Nat /\ req[r].at \in Nat /\ req[r].raced \in BOOLEAN
      BY <1>1, SignerType
    <2>2. QED
      BY <2>1, AuthConstants DEF ResetCode
  <1>3. old \in Seq(ResetCode) /\ DOMAIN old = DOMAIN codes /\ Len(old) = Len(codes)
    <2>1. \A i \in DOMAIN codes : codes[i] \in ResetCode
      BY <1>1, CodeAt DEF TypeOK
    <2>2. old \in [DOMAIN codes -> ResetCode]
      BY <2>1 DEF ResetCode
    <2>3. codes \in Seq(ResetCode)
      BY <1>1 DEF TypeOK
    <2>4. QED
      BY <2>2, <2>3, Mapped
  <1>4. ASSUME NEW i \in DOMAIN codes
        PROVE  /\ old[i].failed = codes[i].failed /\ old[i].created = codes[i].created
               /\ old[i].redeemed = codes[i].redeemed /\ old[i].raced = codes[i].raced
               /\ old[i].used <=> codes[i].used \/ i \in req[r].seen
    <2>1. codes[i] \in ResetCode
      BY <1>1, CodeAt DEF TypeOK
    <2>2. QED
      BY <2>1 DEF ResetCode
  <1>5. k.created = now /\ k.failed = 0 /\ k.redeemed = 0 /\ ~k.used
    OBVIOUS
  <1> HIDE DEF k, old
  <1>6. /\ codes' \in Seq(ResetCode) /\ codes'[n] = k
        /\ Len(codes) \in Nat /\ DOMAIN codes = 1 .. Len(codes) /\ DOMAIN codes' = 1 .. n
        /\ \A i \in DOMAIN codes : codes'[i] = old[i]
    <2>1. codes \in Seq(ResetCode)
      BY <1>1 DEF TypeOK
    <2>2. Len(codes) \in Nat /\ DOMAIN codes = 1 .. Len(codes)
      BY <2>1
    <2>3. QED
      BY <1>1, <1>2, <1>3, <2>2, Appended
  <1>7. /\ DOMAIN codes' = DOMAIN codes \cup {n} /\ n \notin DOMAIN codes /\ n \in Nat
        /\ \A i \in DOMAIN codes : i \in Nat /\ i < n
    BY <1>6
  <1> HIDE DEF n
  <1>8. /\ req' \in [Request -> RequestState]
        /\ req'[r].pc = "deliver" /\ req'[r].row = n /\ req'[r].at = req[r].at
        /\ \A q \in Request : q # r =>
              req'[q] = IF req[q].pc = "issue" THEN [req[q] EXCEPT !.raced = TRUE] ELSE req[q]
    <2>1. req' = [q \in Request |->
                    IF q = r THEN [req[r] EXCEPT !.pc = "deliver", !.row = n]
                    ELSE IF req[q].pc = "issue" THEN [req[q] EXCEPT !.raced = TRUE]
                    ELSE req[q]]
      BY DEF Issue, n
    <2>2. QED
      BY <1>1, <1>7, <2>1 DEF TypeOK, RequestState, Stage
  <1>9. \A q \in Request : q # r =>
          SameServed(q) /\ SameSession(q) /\ SameIssue(q) /\ SameLimits(q)
    BY <1>1, <1>8, Ongoing DEF GoesOn
  <1>10. Typed' /\ Vouched' /\ Twins' /\ Locking'
    <2>1. TypeOK'
      BY <1>1, <1>6, <1>7, <1>8 DEF TypeOK
    <2>2. Served(r)'
      BY <1>1, <1>7, <1>8 DEF Served
    <2>3. req'[r].pc \notin Signing \cup {"rotate"}
      BY <1>8 DEF Signing
    <2>4. QED
      BY <1>1, <1>7, <1>9, <2>1, <2>2, <2>3, ResetLeft
  <1>11. Single'
    <2>1. ASSUME NEW i \in DOMAIN codes'
          PROVE  codes'[i].redeemed <= 1 /\ (codes'[i].redeemed > 0 => codes'[i].used)
      <3>1. CASE i = n
        BY <1>5, <1>6, <3>1
      <3>2. CASE i \in DOMAIN codes
        BY <1>4, <1>6, <3>2 DEF IInv, Single
      <3>3. QED
        BY <1>7, <3>1, <3>2
    <2>2. ASSUME NEW i \in DOMAIN codes', NEW j \in DOMAIN codes', i < j,
                 ~codes'[i].used, ~codes'[j].used
          PROVE  codes'[j].raced
      <3>1. CASE j = n
        <4>1. i \in DOMAIN codes
          BY <1>7, <2>2, <3>1
        <4>2. ~codes[i].used /\ i \notin req[r].seen
          BY <1>4, <1>6, <2>2, <4>1
        <4>3. req[r].raced
          BY <1>1, <4>1, <4>2 DEF IInv, Single, Unused
        <4>4. QED
          BY <1>2, <1>6, <3>1, <4>3
      <3>2. CASE j \in DOMAIN codes
        <4>1. i \in DOMAIN codes
          BY <1>7, <2>2, <3>2
        <4>2. QED
          BY <1>4, <1>6, <2>2, <3>2, <4>1 DEF IInv, Single
      <3>3. QED
        BY <1>7, <3>1, <3>2
    <2>3. ASSUME NEW q \in Request, req'[q].pc = "issue"
          PROVE  req'[q].raced
      BY <1>1, <1>8, <2>3 DEF TypeOK, RequestState
    <2>4. QED
      BY <2>1, <2>2, <2>3 DEF Single
  <1>12. Limited'
    <2>1. \A q \in Request : req'[q].pc = "miss" => q # r /\ req'[q] = req[q]
      BY <1>8 DEF TypeOK, RequestState
    <2>2. ASSUME NEW i \in DOMAIN codes'
          PROVE  codes'[i].failed + Cardinality(Missing(i)') <= MaxGuesses + Cardinality(Request) - 1
      <3>1. CASE i = n
        <4>1. Missing(i)' = {}
          BY <1>7, <2>1, <3>1 DEF Missing, IInv, Typed, Served
        <4>2. Cardinality(Missing(i)') = 0
          BY <4>1, FS_EmptySet
        <4>3. Cardinality(Request) \in Nat /\ MaxGuesses \in Nat \ {0}
          BY AuthConstants, RequestCount
        <4>4. QED
          BY <1>5, <1>6, <3>1, <4>2, <4>3
      <3>2. CASE i \in DOMAIN codes
        <4>1. Missing(i)' = Missing(i)
          BY <1>1, <1>8, <2>1 DEF Missing
        <4>2. QED
          BY <1>4, <1>6, <3>2, <4>1 DEF IInv, Limited
      <3>3. QED
        BY <1>7, <3>1, <3>2
    <2>3. Cardinality(Issued(now - Hour)') + Cardinality(Issuing') <= MaxPerHour + Cardinality(Request) - 1
      <3>1. Issued(now - Hour)' = Issued(now - Hour) \cup {n}
        <4>1. now >= now - Hour
          BY <1>1, SignerType, AuthConstants
        <4>2. QED
          BY <1>1, <1>4, <1>5, <1>6, <1>7, <4>1 DEF Issued
      <3>2. n \notin Issued(now - Hour)
        BY <1>7 DEF Issued
      <3>3. IsFiniteSet(Issued(now - Hour)) /\ Cardinality(Issued(now - Hour)) \in Nat
        BY <1>1, IssuedCount DEF TypeOK
      <3>4. Cardinality(Issued(now - Hour)') = Cardinality(Issued(now - Hour)) + 1
        BY <3>1, <3>2, <3>3, FS_AddElement
      <3>5. Issuing' = Issuing \ {r} /\ r \in Issuing
        BY <1>1, <1>8 DEF Issuing, TypeOK, RequestState
      <3>6. IsFiniteSet(Issuing) /\ Cardinality(Issuing) \in Nat
        BY RequestCount DEF Issuing
      <3>7. Cardinality(Issuing') = Cardinality(Issuing) - 1
        BY <3>5, <3>6, FS_RemoveElement
      <3>8. QED
        BY <3>3, <3>4, <3>6, <3>7 DEF IInv, Limited
    <2>4. QED
      BY <1>1, <2>2, <2>3 DEF Limited
  <1>13. QED
    BY <1>10, <1>11, <1>12 DEF IInv

\* A request that reads an open code may miss it: there is room for as many
\* more guesses as there are requests.
LEMMA RedeemOK ==
  ASSUME IInv, NEW r \in Request, NEW typed, Redeem(r, typed)
  PROVE  IInv'
  <1>1. PICK i \in DOMAIN codes :
          /\ Open(i)
          /\ req' = [req EXCEPT ![r] = [Idle EXCEPT !.pc = IF typed = i THEN "claim" ELSE "miss",
                                                    !.at = now, !.row = i]]
    BY DEF Redeem
  <1> DEFINE d == [Idle EXCEPT !.pc = IF typed = i THEN "claim" ELSE "miss", !.at = now, !.row = i]
  <1>2. /\ TypeOK /\ req[r].pc = "idle" /\ req' = [req EXCEPT ![r] = d]
        /\ codes \in Seq(ResetCode) /\ i \in Nat
        /\ UNCHANGED <<now, account, tokens, codes, mailbox, wrong>>
    BY <1>1, CodeAt DEF IInv, Typed, TypeOK, Redeem
  <1>3. Exists
    BY <1>2 DEF IInv, Typed, Begun
  <1>4. d \in RequestState /\ d.at = now /\ d.row = i /\ d.pc \in {"claim", "miss"}
    BY <1>2, IdleState DEF TypeOK, RequestState, Stage, Idle
  <1> HIDE DEF d
  <1>5. req'[r] = d /\ \A q \in Request : q # r => req'[q] = req[q]
    BY <1>2 DEF TypeOK
  <1>6. \A q \in Request : q # r =>
          SameServed(q) /\ SameSession(q) /\ SameIssue(q) /\ SameLimits(q)
    BY <1>2, <1>5, Ongoing DEF GoesOn
  <1>7. SameIssue(r)
    BY <1>4, <1>5 DEF SameIssue
  <1>8. Typed' /\ Vouched' /\ Twins' /\ Locking'
    <2>1. TypeOK'
      BY <1>2, <1>4 DEF TypeOK
    <2>2. Served(r)'
      BY <1>2, <1>4, <1>5, AuthConstants DEF Served, TypeOK
    <2>3. req'[r].pc \notin Signing \cup {"rotate"}
      BY <1>4, <1>5 DEF Signing
    <2>4. QED
      BY <1>2, <1>3, <1>6, <2>1, <2>2, <2>3, ResetLeft
  <1>9. Single'
    BY <1>2, <1>6, <1>7, CodesLeft DEF IInv
  <1>10. Limited'
    <2>1. ASSUME NEW j \in DOMAIN codes
          PROVE  codes'[j].failed + Cardinality(Missing(j)') <= MaxGuesses + Cardinality(Request) - 1
      <3>1. CASE j = i
        <4>1. Missing(j)' \subseteq Request
          BY DEF Missing
        <4>2. /\ Cardinality(Missing(j)') \in Nat /\ Cardinality(Request) \in Nat
              /\ Cardinality(Missing(j)') <= Cardinality(Request)
          BY <4>1, RequestCount
        <4>3. codes[j].failed \in Nat /\ codes[j].failed < MaxGuesses /\ MaxGuesses \in Nat
          BY <1>1, <1>2, <3>1, CodeAt, AuthConstants DEF Open
        <4>4. QED
          BY <1>2, <4>2, <4>3
      <3>2. CASE j # i
        <4>1. Missing(j)' = Missing(j)
          BY <1>2, <1>4, <1>5, <3>2 DEF Missing
        <4>2. QED
          BY <1>2, <4>1 DEF IInv, Limited
      <3>3. QED
        BY <3>1, <3>2
    <2>2. Issued(now - Hour)' = Issued(now - Hour) /\ Issuing' = Issuing
      BY <1>2, <1>4, <1>5 DEF Issued, Issuing
    <2>3. QED
      BY <1>2, <2>1, <2>2 DEF IInv, Limited
  <1>11. QED
    BY <1>8, <1>9, <1>10 DEF IInv

LEMMA MissOK ==
  ASSUME IInv, NEW r \in Request, Miss(r)
  PROVE  IInv'
  <1> DEFINE k == req[r].row
  <1>1. /\ TypeOK /\ Exists /\ req[r].pc = "miss" /\ k \in DOMAIN codes
        /\ codes \in Seq(ResetCode)
        /\ codes' = [codes EXCEPT ![k].failed = @ + 1] /\ req' = Done(r)
        /\ UNCHANGED <<now, account, tokens, mailbox, wrong>>
    BY Serving DEF IInv, Typed, Served, TypeOK, Miss
  <1>2. /\ req' \in [Request -> RequestState] /\ req'[r] = Idle
        /\ \A q \in Request : SameServed(q) /\ SameSession(q) /\ SameIssue(q) /\ SameLimits(q)
    BY <1>1, DoneGoesOn
  <1> HIDE DEF k
  <1>3. codes' \in Seq(ResetCode) /\ DOMAIN codes' = DOMAIN codes
    <2>1. \A i \in DOMAIN codes : codes[i] \in ResetCode
      BY <1>1, CodeAt
    <2> DEFINE e == [codes[k] EXCEPT !.failed = @ + 1]
    <2>2. e \in ResetCode
      <3>1. codes[k] \in ResetCode /\ codes[k].failed + 1 \in Nat
        BY <1>1, CodeAt
      <3>2. QED
        BY <3>1 DEF ResetCode
    <2>3. codes' = [codes EXCEPT ![k] = e]
      BY <1>1
    <2> HIDE DEF e
    <2>4. codes' \in [DOMAIN codes -> ResetCode]
      BY <1>1, <2>1, <2>2, <2>3
    <2>5. QED
      BY <1>1, <2>4, Mapped
  <1>4. ASSUME NEW i \in DOMAIN codes
        PROVE  /\ codes'[i].used = codes[i].used /\ codes'[i].created = codes[i].created
               /\ codes'[i].redeemed = codes[i].redeemed /\ codes'[i].raced = codes[i].raced
               /\ codes'[i].failed = (IF i = k THEN codes[i].failed + 1 ELSE codes[i].failed)
               /\ codes[i].failed \in Nat
    <2>1. codes[i] \in ResetCode
      BY <1>1, CodeAt
    <2>2. QED
      BY <1>1, <2>1 DEF ResetCode
  <1>5. Typed' /\ Vouched' /\ Twins' /\ Locking'
    <2>1. TypeOK'
      BY <1>1, <1>2, <1>3 DEF TypeOK
    <2>2. QED
      BY <1>1, <1>2, <1>3, <2>1, ServedLeft, SessionsLeft, LocksLeft DEF IInv, Exists
  <1>6. Single'
    <2>1. Unused' = Unused
      BY <1>3, <1>4 DEF Unused
    <2>2. ASSUME NEW q \in Request, req'[q].pc = "issue", ~req'[q].raced
          PROVE  Unused' \subseteq req'[q].seen
      BY <1>2, <2>1, <2>2 DEF IInv, Single, SameIssue
    <2>3. QED
      BY <1>3, <1>4, <2>2 DEF IInv, Single
  <1>7. Limited'
    <2>1. \A q \in Request : q # r => req'[q] = req[q]
      BY <1>1, DoneIs
    <2>2. ASSUME NEW i \in DOMAIN codes
          PROVE  codes'[i].failed + Cardinality(Missing(i)') <= MaxGuesses + Cardinality(Request) - 1
      <3>1. IsFiniteSet(Missing(i)) /\ Cardinality(Missing(i)) \in Nat
            /\ Cardinality(Request) \in Nat /\ MaxGuesses \in Nat
        BY RequestCount, AuthConstants DEF Missing
      <3>2. codes[i].failed + Cardinality(Missing(i)) <= MaxGuesses + Cardinality(Request) - 1
        BY DEF IInv, Limited
      <3>3. CASE i = k
        <4>1. Missing(i)' = Missing(i) \ {r} /\ r \in Missing(i)
          BY <1>1, <1>2, <2>1, <3>3 DEF Missing, Idle, k
        <4>2. Cardinality(Missing(i)') = Cardinality(Missing(i)) - 1
          BY <3>1, <4>1, FS_RemoveElement
        <4>3. QED
          BY <1>4, <3>1, <3>2, <3>3, <4>2
      <3>4. CASE i # k
        <4>1. Missing(i)' = Missing(i)
          BY <1>1, <1>2, <2>1, <3>4 DEF Missing, Idle, k
        <4>2. QED
          BY <1>4, <3>2, <3>4, <4>1
      <3>5. QED
        BY <3>3, <3>4
    <2>3. Issued(now - Hour)' = Issued(now - Hour)
      BY <1>1, <1>3, <1>4 DEF Issued
    <2>4. Issuing' = Issuing
      BY <1>1, <1>2, <2>1 DEF Issuing, Idle
    <2>5. QED
      BY <1>1, <1>3, <2>2, <2>3, <2>4 DEF IInv, Limited
  <1>8. QED
    BY <1>5, <1>6, <1>7 DEF IInv

\* A code that is claimed was not used before; every token is revoked, and every
\* request that has read one, or the password, has been raced.
LEMMA ClaimOK ==
  ASSUME IInv, NEW r \in Request, Claim(r)
  PROVE  IInv'
  <1> DEFINE k == req[r].row
  <1>1. /\ TypeOK /\ Exists /\ req[r].pc = "claim" /\ k \in DOMAIN codes
        /\ codes \in Seq(ResetCode) /\ UNCHANGED <<now, mailbox, wrong>>
    BY Serving DEF IInv, Typed, Served, TypeOK, Claim
  <1>2. CASE ~Claimable(r)
    <2>1. req' = Done(r) /\ UNCHANGED <<account, tokens, codes>>
      BY <1>2 DEF Claim
    <2>2. /\ req' \in [Request -> RequestState]
          /\ \A q \in Request : SameServed(q) /\ SameSession(q) /\ SameIssue(q) /\ SameLimits(q)
      BY <1>1, <2>1, DoneGoesOn
    <2>3. TypeOK'
      BY <1>1, <2>1, <2>2 DEF TypeOK
    <2>4. QED
      BY <1>1, <2>1, <2>2, <2>3, Quiet
  <1>3. CASE Claimable(r)
    <2> DEFINE affected == {q \in Request : req[q].pc \in {"unlock", "verify", "rotate"}}
    <2>1. /\ codes' = [codes EXCEPT ![k].used = TRUE, ![k].redeemed = @ + 1]
          /\ account' = [account EXCEPT !.password = @ + 1]
          /\ tokens' = AllRevoked /\ req' = DoneRacing(r, affected)
          /\ ~codes[k].used
      BY <1>3 DEF Claim, Claimable, SessionsEnded
    <2>2. \A q \in Request : req[q].pc \in Signing \cup {"rotate"} => q \in affected
      BY DEF Signing
    <2>3. affected \in SUBSET Request
      OBVIOUS
    <2> HIDE DEF k, affected
    <2>4. /\ req' \in [Request -> RequestState] /\ req'[r] = Idle
          /\ \A q \in Request : SameServed(q) /\ SameSession(q) /\ SameIssue(q) /\ SameLimits(q)
      BY <1>1, <2>1, <2>3, DoneGoesOn
    <2>5. ASSUME NEW q \in Request, req'[q].pc \in Signing \cup {"rotate"}
          PROVE  req'[q].raced
      <3>1. q # r
        BY <2>4, <2>5 DEF Idle, Signing
      <3>2. req'[q] = IF q \in affected THEN [req[q] EXCEPT !.raced = TRUE] ELSE req[q]
        BY <1>1, <2>1, <3>1, DoneRacingIs
      <3>3. q \in affected
        BY <2>2, <2>5, <3>2
      <3>4. QED
        BY <1>1, <3>2, <3>3 DEF TypeOK, RequestState
    <2>6. codes[k].redeemed = 0
      BY <1>1, <2>1, CodeAt DEF IInv, Single
    <2>7. codes' \in Seq(ResetCode) /\ DOMAIN codes' = DOMAIN codes
      <3>1. \A i \in DOMAIN codes : codes[i] \in ResetCode
        BY <1>1, CodeAt
      <3> DEFINE e == [codes[k] EXCEPT !.used = TRUE, !.redeemed = @ + 1]
      <3>2. e \in ResetCode
        <4>1. codes[k] \in ResetCode /\ codes[k].redeemed + 1 \in Nat
          BY <1>1, CodeAt
        <4>2. QED
          BY <4>1 DEF ResetCode
      <3>3. codes' = [codes EXCEPT ![k] = e]
        BY <1>1, <2>1, <3>1 DEF ResetCode
      <3> HIDE DEF e
      <3>4. codes' \in [DOMAIN codes -> ResetCode]
        BY <1>1, <3>1, <3>2, <3>3
      <3>5. QED
        BY <1>1, <3>4, Mapped
    <2>8. ASSUME NEW i \in DOMAIN codes
          PROVE  /\ codes'[i].failed = codes[i].failed /\ codes'[i].created = codes[i].created
                 /\ codes'[i].raced = codes[i].raced
                 /\ codes'[i].used <=> codes[i].used \/ i = k
                 /\ codes'[i].redeemed = (IF i = k THEN 1 ELSE codes[i].redeemed)
      <3>1. codes[i] \in ResetCode /\ codes[k] \in ResetCode
        BY <1>1, CodeAt
      <3>2. i # k => codes'[i] = codes[i]
        BY ONLY <2>1, <2>8
      <3>3. codes'[k] = [codes[k] EXCEPT !.used = TRUE, !.redeemed = @ + 1]
        BY <1>1, <2>1, <3>1 DEF ResetCode
      <3>4. /\ codes'[k].failed = codes[k].failed /\ codes'[k].created = codes[k].created
            /\ codes'[k].raced = codes[k].raced
            /\ codes'[k].used /\ codes'[k].redeemed = 1
        BY ONLY <2>6, <3>1, <3>3 DEF ResetCode
      <3>5. QED
        BY ONLY <3>2, <3>4
    <2>9. tokens' \in Seq(RefreshToken) /\ DOMAIN tokens' = DOMAIN tokens
      <3>1. \A i \in DOMAIN tokens : tokens[i] \in RefreshToken
        BY <1>1, TokenAt DEF TypeOK
      <3>2. tokens' \in [DOMAIN tokens -> RefreshToken]
        BY <2>1, <3>1 DEF RefreshToken, AllRevoked
      <3>3. tokens \in Seq(RefreshToken)
        BY <1>1 DEF TypeOK
      <3>4. QED
        BY <3>2, <3>3, Mapped
    <2>10. ASSUME NEW i \in DOMAIN tokens
           PROVE  /\ tokens'[i].from = tokens[i].from /\ tokens'[i].raced = tokens[i].raced
                  /\ tokens'[i].revoked
      <3>1. tokens[i] \in RefreshToken
        BY <1>1, TokenAt DEF TypeOK
      <3>2. QED
        BY <2>1, <3>1 DEF RefreshToken, AllRevoked
    <2>11. /\ account' \in Account /\ account'.password > 0
           /\ account'.failed = account.failed /\ account'.lockedUntil = account.lockedUntil
      <3>1. account \in Account
        BY <1>1, SignerType
      <3>2. QED
        BY <2>1, <3>1 DEF Account
    <2>12. Typed'
      <3>1. TypeOK'
        BY <1>1, <2>4, <2>7, <2>9, <2>11 DEF TypeOK
      <3>2. QED
        BY <1>1, <2>4, <2>7, <2>9, <2>11, <3>1, ServedLeft DEF IInv, Exists
    <2>13. Vouched'
      <3>1. ASSUME NEW i \in DOMAIN tokens', tokens'[i].from # None
            PROVE  tokens'[i].from \in DOMAIN tokens' /\ tokens'[tokens'[i].from].revoked
        BY <2>9, <2>10, <3>1 DEF IInv, Vouched
      <3>2. QED
        BY <2>5, <2>9, <2>10, <3>1 DEF Vouched
    <2>14. Twins'
      BY <2>9, <2>10 DEF IInv, Twins
    <2>15. Single'
      <3>1. Unused' \subseteq Unused
        BY <2>7, <2>8 DEF Unused
      <3>2. ASSUME NEW q \in Request, req'[q].pc = "issue", ~req'[q].raced
            PROVE  Unused' \subseteq req'[q].seen
        BY <2>4, <3>1, <3>2 DEF IInv, Single, SameIssue
      <3>3. ASSUME NEW i \in DOMAIN codes
            PROVE  codes'[i].redeemed <= 1 /\ (codes'[i].redeemed > 0 => codes'[i].used)
        BY <2>8 DEF IInv, Single
      <3>4. \A i, j \in DOMAIN codes :
              i < j /\ ~codes'[i].used /\ ~codes'[j].used => codes'[j].raced
        BY <2>8 DEF IInv, Single
      <3>5. QED
        BY <2>7, <3>2, <3>3, <3>4 DEF Single
    <2>16. Limited'
      BY <1>1, <2>4, <2>7, <2>8, LimitsKept DEF IInv
    <2>17. Locking'
      BY <1>1, <2>4, <2>11, LocksLeft DEF IInv
    <2>18. QED
      BY <2>12, <2>13, <2>14, <2>15, <2>16, <2>17 DEF IInv
  <1>4. QED
    BY <1>2, <1>3

-----------------------------------------------------------------------------
(* The invariant.                                                          *)

LEMMA TickOK ==
  ASSUME IInv, Tick
  PROVE  IInv'
  <1>1. /\ TypeOK /\ now \in Nat /\ now' = now + 1 /\ LockTime \in Nat /\ Hour \in Nat
        /\ \A q \in Request : req[q].pc # "idle" => now - req[q].at + 1 < LockTime
        /\ UNCHANGED <<account, tokens, codes, req, mailbox, wrong>>
    BY AuthConstants DEF IInv, Typed, TypeOK, Tick
  <1>2. Typed'
    <2>1. TypeOK'
      BY <1>1 DEF TypeOK
    <2>2. ASSUME NEW q \in Request
          PROVE  Served(q)'
      <3>1. req[q].at \in Nat
        BY <1>1, SignerType
      <3>2. QED
        BY <1>1, <3>1 DEF IInv, Typed, Served
    <2>3. Begun'
      BY <1>1 DEF IInv, Typed, Begun, Exists
    <2>4. QED
      BY <2>1, <2>2, <2>3 DEF Typed
  <1>3. Vouched' /\ Twins' /\ Single'
    BY <1>1 DEF IInv, Vouched, Twins, Single, Unused
  <1>4. Limited'
    <2>1. codes \in Seq(ResetCode)
      BY <1>1 DEF TypeOK
    <2>2. Issued(now - Hour)' \subseteq Issued(now - Hour)
      <3>1. ASSUME NEW i \in DOMAIN codes, codes[i].created >= now + 1 - Hour
            PROVE  codes[i].created >= now - Hour
        BY <1>1, <2>1, <3>1, CodeAt
      <3>2. QED
        BY <1>1, <3>1 DEF Issued
    <2>3. /\ Cardinality(Issued(now - Hour)') <= Cardinality(Issued(now - Hour))
          /\ Cardinality(Issued(now - Hour)') \in Nat /\ Cardinality(Issued(now - Hour)) \in Nat
      BY <2>1, <2>2, IssuedCount, SubsetCount
    <2>4. Issuing' = Issuing /\ Cardinality(Issuing) \in Nat /\ Cardinality(Request) \in Nat
          /\ MaxPerHour \in Nat
      BY <1>1, RequestCount, AuthConstants DEF Issuing
    <2>5. Cardinality(Issued(now - Hour)) + Cardinality(Issuing) <= MaxPerHour + Cardinality(Request) - 1
      BY DEF IInv, Limited
    <2>6. Cardinality(Issued(now - Hour)') + Cardinality(Issuing') <= MaxPerHour + Cardinality(Request) - 1
      BY <2>3, <2>4, <2>5
    <2>7. \A i \in DOMAIN codes : Missing(i)' = Missing(i)
      BY <1>1 DEF Missing
    <2>8. QED
      BY <1>1, <2>6, <2>7 DEF IInv, Limited
  <1>5. Locking'
    <2>1. account.lockedUntil \in Nat
      BY <1>1 DEF TypeOK, Account
    <2>2. LockIsEarned'
      BY <1>1, <2>1 DEF LockIsEarned, IInv, Locking
    <2>3. QED
      BY <1>1, <2>2 DEF IInv, Locking, Unlocked, Untouched, Unspent
  <1>6. QED
    BY <1>2, <1>3, <1>4, <1>5 DEF IInv

LEMMA InitOK ==
  ASSUME Init
  PROVE  IInv
  <1>1. /\ now = 1 /\ account = NoAccount /\ tokens = <<>> /\ codes = <<>>
        /\ req = [r \in Request |-> Idle] /\ mailbox = {} /\ wrong = 0
    BY DEF Init
  <1>2. \A r \in Request : req[r] = Idle /\ req[r].pc = "idle"
    BY <1>1 DEF Idle
  <1>3. TypeOK
    BY <1>1, IdleState DEF TypeOK
  <1>4. Typed
    BY <1>1, <1>2, <1>3 DEF Typed, Served, Begun
  <1>5. Vouched /\ Twins /\ Single
    BY <1>1, <1>2 DEF Vouched, Twins, Single, Signing
  <1>6. Limited
    <2>1. Issued(now - Hour) = {} /\ Issuing = {} /\ DOMAIN codes = {}
      BY <1>1, <1>2 DEF Issued, Issuing
    <2>2. Cardinality({}) = 0
      BY FS_EmptySet
    <2>3. Cardinality(Request) \in Nat /\ MaxPerHour \in Nat \ {0}
      BY RequestCount, AuthConstants
    <2>4. Cardinality(Issued(now - Hour)) + Cardinality(Issuing) = 0
      BY <2>1, <2>2
    <2>5. QED
      BY <2>1, <2>3, <2>4 DEF Limited
  <1>7. Locking
    BY <1>1, <1>2 DEF Locking, LockIsEarned, Signing, NoAccount, None
  <1>8. QED
    BY <1>4, <1>5, <1>6, <1>7 DEF IInv

LEMMA StepOK ==
  ASSUME IInv, [Next]_vars
  PROVE  IInv'
  <1>1. CASE Tick
    BY <1>1, TickOK
  <1>2. ASSUME NEW r \in Request, SignIn(r)
        PROVE  IInv'
    BY <1>2, SignupOK, UnlockOK, WrongPasswordOK, RightPasswordOK, LoginOK DEF SignIn
  <1>3. ASSUME NEW r \in Request, Session(r)
        PROVE  IInv'
    BY <1>3, RotateOK, ReuseOK, RefreshOK, LogoutOK DEF Session
  <1>4. ASSUME NEW r \in Request, PasswordReset(r)
        PROVE  IInv'
    BY <1>4, ForgotOK, SupersedeOK, IssueOK, DeliverOK, MissOK, ClaimOK, RedeemOK DEF PasswordReset
  <1>5. ASSUME NEW r \in Request, Abort(r)
        PROVE  IInv'
    BY <1>5, AbortOK
  <1>6. CASE UNCHANGED vars
    <2>1. UNCHANGED <<now, account, tokens, codes, req, mailbox, wrong>>
      BY <1>6 DEF vars
    <2>2. Typed' /\ Vouched' /\ Twins'
      BY <2>1 DEF IInv, Typed, TypeOK, Served, Begun, Exists, Vouched, Twins
    <2>3. Single' /\ Limited'
      BY <2>1 DEF IInv, Single, Unused, Limited, Missing, Issuing, Issued
    <2>4. Locking'
      BY <2>1 DEF IInv, Locking, LockIsEarned, Unlocked, Untouched, Unspent
    <2>5. QED
      BY <2>2, <2>3, <2>4 DEF IInv
  <1>7. QED
    BY <1>1, <1>2, <1>3, <1>4, <1>5, <1>6 DEF Next

\* The inductive invariant holds of every reachable state.
THEOREM Invariance == Spec => []IInv
  <1>1. Init => IInv
    BY InitOK
  <1>2. IInv /\ [Next]_vars => IInv'
    BY StepOK
  <1>3. QED
    BY <1>1, <1>2, PTL DEF Spec

-----------------------------------------------------------------------------
(* What the account promises.                                              *)

\* AuthService.reset_password revokes every refresh token: one that still works
\* was issued under the current password, or by a request served meanwhile.
THEOREM PasswordTheorem == Spec => []OldPasswordOpensNothing
  <1>1. IInv => OldPasswordOpensNothing
    BY DEF IInv, Vouched, OldPasswordOpensNothing, LiveToken
  <1>2. QED
    BY <1>1, Invariance, PTL

\* AuthService.refresh exchanges a token twice only for requests served at the
\* same time, however many they are.
THEOREM TwinsTheorem == Spec => []TwinsAreExplained
  <1>1. IInv => TwinsAreExplained
    BY DEF IInv, Twins, TwinsAreExplained
  <1>2. QED
    BY <1>1, Invariance, PTL

\* claim_for_reset accepts no code twice, and supersede_unused_for_user leaves
\* two unused codes only when they were issued at the same time.
THEOREM CodesTheorem == Spec => []CodesAreSingle
  <1>1. IInv => CodesAreSingle
    BY DEF IInv, Single, CodesAreSingle
  <1>2. QED
    BY <1>1, Invariance, PTL

\* The guesses counted for a code, and the codes issued within the hour, exceed
\* the configured limits by less than the number of requests served at once.
THEOREM LimitsTheorem == Spec => []LimitsHold
  <1>1. IInv => LimitsHold
    <2>1. SUFFICES ASSUME IInv
                   PROVE  LimitsHold
      OBVIOUS
    <2>2. codes \in Seq(ResetCode) /\ Cardinality(Request) \in Nat
          /\ MaxGuesses \in Nat /\ MaxPerHour \in Nat
      BY <2>1, RequestCount, AuthConstants DEF IInv, Typed, TypeOK
    <2>3. ASSUME NEW i \in DOMAIN codes
          PROVE  codes[i].failed <= MaxGuesses + Cardinality(Request) - 1
      <3>1. Cardinality(Missing(i)) \in Nat /\ codes[i].failed \in Nat
        BY <2>2, RequestCount, CodeAt DEF Missing
      <3>2. codes[i].failed + Cardinality(Missing(i)) <= MaxGuesses + Cardinality(Request) - 1
        BY <2>1 DEF IInv, Limited
      <3>3. QED
        BY <2>2, <3>1, <3>2
    <2>4. Cardinality(Issued(now - Hour)) <= MaxPerHour + Cardinality(Request) - 1
      <3>1. Cardinality(Issuing) \in Nat /\ Cardinality(Issued(now - Hour)) \in Nat
        BY <2>2, RequestCount, IssuedCount DEF Issuing
      <3>2. Cardinality(Issued(now - Hour)) + Cardinality(Issuing) <= MaxPerHour + Cardinality(Request) - 1
        BY <2>1 DEF IInv, Limited
      <3>3. QED
        BY <2>2, <3>1, <3>2
    <2>5. QED
      BY <2>3, <2>4 DEF LimitsHold, Issued
  <1>2. QED
    BY <1>1, Invariance, PTL

\* record_failed_login_attempt locks the account only after MaxFailed wrong
\* passwords, whatever logins it is interleaved with.
THEOREM LockTheorem == Spec => []LockIsEarned
  <1>1. IInv => LockIsEarned
    BY DEF IInv, Locking
  <1>2. QED
    BY <1>1, Invariance, PTL

=============================================================================
