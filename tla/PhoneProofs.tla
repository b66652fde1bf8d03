----------------------------- MODULE PhoneProofs -----------------------------
(***************************************************************************)
(* Theorems about the app on a phone.  First its session, for any number   *)
(* of logins, runs and rotations, and whatever is disturbed.  The argument *)
(* has four layers, each on top of the ones before:                        *)
(*                                                                         *)
(*   Basics     types, the queue of SecureStore, whose the tokens are      *)
(*              (always);                                                  *)
(*   SoundInv   what each step of an operation may rely on (as long as     *)
(*              SecureStore works);                                        *)
(*   EndingInv  a session that ends is only used by what removes it (as    *)
(*              long as the app is not killed either);                     *)
(*   QuietInv   which tokens are revoked (while nothing is disturbed).     *)
(*                                                                         *)
(* A step is of one of a few kinds (StepKinds); each layer is shown to     *)
(* survive each kind.  Beside the layers, nothing waits in vain.           *)
(* Then the registration of the phone for push alerts, for any users,      *)
(* sounds and number of operations under way.                              *)
(***************************************************************************)
EXTENDS MCPhone, TLAPS

-----------------------------------------------------------------------------
(* The session.                                                            *)

-----------------------------------------------------------------------------
\* Who waits for SecureStore, and in which order.

Waits(q, o) == \E i \in 1..Len(q) : q[i] = o

Ahead(q, o, p) == \E i, j \in 1..Len(q) : i < j /\ q[i] = o /\ q[j] = p

Once(q) == \A i, j \in 1..Len(q) : q[i] = q[j] => i = j

LEMMA CallMade ==
  ASSUME NEW S, NEW q \in Seq(S), NEW o \in S, Once(q), ~Waits(q, o)
  PROVE  /\ Append(q, o) \in Seq(S)
         /\ Once(Append(q, o))
         /\ \A p \in S : Waits(Append(q, o), p) <=> Waits(q, p) \/ p = o
         /\ \A a, b \in S : Ahead(Append(q, o), a, b) <=> Ahead(q, a, b) \/ (Waits(q, a) /\ b = o)
  <1> DEFINE n == Len(q)
             r == Append(q, o)
  <1>1. /\ r \in Seq(S) /\ Len(r) = n + 1 /\ n \in Nat
        /\ r[n + 1] = o
        /\ \A i \in 1..n : r[i] = q[i] /\ i \in 1..(n + 1)
        /\ \A i \in 1..(n + 1) : i \in 1..n \/ i = n + 1
    OBVIOUS
  <1> HIDE DEF r
  <1>2. Once(r)
    BY <1>1 DEF Once, Waits
  <1>3. \A p \in S : Waits(r, p) <=> Waits(q, p) \/ p = o
    BY <1>1 DEF Waits
  <1>4. ASSUME NEW a \in S, NEW b \in S
        PROVE  Ahead(r, a, b) <=> Ahead(q, a, b) \/ (Waits(q, a) /\ b = o)
    <2>1. ASSUME NEW i \in 1..(n + 1), NEW j \in 1..(n + 1), i < j, r[i] = a, r[j] = b
          PROVE  Ahead(q, a, b) \/ (Waits(q, a) /\ b = o)
      BY <2>1, <1>1 DEF Ahead, Waits
    <2>2. Ahead(q, a, b) => Ahead(r, a, b)
      BY <1>1 DEF Ahead
    <2>3. Waits(q, a) /\ b = o => Ahead(r, a, b)
      <3>1. ASSUME NEW i \in 1..n, q[i] = a, b = o PROVE Ahead(r, a, b)
        <4>1. i < n + 1 /\ n + 1 \in 1..(n + 1)
          BY <1>1
        <4>2. QED  BY <3>1, <4>1, <1>1 DEF Ahead
      <3>2. QED  BY <3>1 DEF Waits
    <2>4. QED  BY <2>1, <2>2, <2>3, <1>1 DEF Ahead
  <1>5. QED  BY <1>1, <1>2, <1>3, <1>4 DEF r

LEMMA CallReturns ==
  ASSUME NEW S, NEW q \in Seq(S), Once(q), q # <<>>, NEW o \in S, Head(q) = o
  PROVE  /\ Tail(q) \in Seq(S)
         /\ Once(Tail(q))
         /\ Waits(q, o)
         /\ \A p \in S : Waits(Tail(q), p) <=> Waits(q, p) /\ p # o
         /\ \A a, b \in S : Ahead(Tail(q), a, b) <=> Ahead(q, a, b) /\ a # o
         /\ \A a \in S : ~Ahead(q, a, o)
  <1> DEFINE n == Len(q)
             r == Tail(q)
  <1>1. /\ r \in Seq(S) /\ n \in Nat /\ n > 0 /\ Len(r) = n - 1
        /\ q[1] = o
        /\ \A i \in 1..(n - 1) : r[i] = q[i + 1] /\ i + 1 \in 1..n
        /\ \A i \in 1..n : i = 1 \/ (i - 1 \in 1..(n - 1) /\ r[i - 1] = q[i])
    OBVIOUS
  <1> HIDE DEF r
  <1>2. Once(r)
    BY <1>1 DEF Once
  <1>3. Waits(q, o)
    BY <1>1 DEF Waits
  <1>4. \A i \in 1..n : q[i] = o => i = 1
    BY <1>1 DEF Once
  <1>5. \A a \in S : ~Ahead(q, a, o)
    BY <1>4, <1>1 DEF Ahead
  <1>6. ASSUME NEW p \in S PROVE Waits(r, p) <=> Waits(q, p) /\ p # o
    <2>1. ASSUME NEW i \in 1..(n - 1), r[i] = p PROVE Waits(q, p) /\ p # o
      <3>1. i + 1 \in 1..n /\ q[i + 1] = p /\ i + 1 # 1
        BY <2>1, <1>1
      <3>2. QED  BY <3>1, <1>4 DEF Waits
    <2>2. ASSUME NEW i \in 1..n, q[i] = p, p # o PROVE Waits(r, p)
      BY <2>2, <1>1 DEF Waits
    <2>3. QED  BY <2>1, <2>2, <1>1 DEF Waits
  <1>7. ASSUME NEW a \in S, NEW b \in S PROVE Ahead(r, a, b) <=> Ahead(q, a, b) /\ a # o
    <2>1. ASSUME NEW i \in 1..(n - 1), NEW j \in 1..(n - 1), i < j, r[i] = a, r[j] = b
          PROVE  Ahead(q, a, b) /\ a # o
      <3>1. i + 1 \in 1..n /\ j + 1 \in 1..n /\ i + 1 < j + 1 /\ q[i + 1] = a /\ q[j + 1] = b /\ i + 1 # 1
        BY <2>1, <1>1
      <3>2. QED  BY <3>1, <1>4 DEF Ahead
    <2>2. ASSUME NEW i \in 1..n, NEW j \in 1..n, i < j, q[i] = a, q[j] = b, a # o
          PROVE  Ahead(r, a, b)
      <3>1. i # 1 /\ j # 1
        BY <2>2, <1>1
      <3>2. i - 1 \in 1..(n - 1) /\ j - 1 \in 1..(n - 1) /\ i - 1 < j - 1 /\ r[i - 1] = a /\ r[j - 1] = b
        BY <2>2, <3>1, <1>1
      <3>3. QED  BY <3>2, <1>1 DEF Ahead
    <2>3. QED  BY <2>1, <2>2, <1>1 DEF Ahead
  <1>8. QED  BY <1>1, <1>2, <1>3, <1>5, <1>6, <1>7 DEF r

-----------------------------------------------------------------------------
\* Refresh tokens.

Tokens == Login \X Nat

Held == Tokens \cup {Nothing}

LEMMA TokenFacts ==
  /\ Nothing \notin Tokens /\ Nothing \notin Login
  /\ LoginOf(Nothing) = Nothing
  /\ \A t \in Tokens : LoginOf(t) = t[1] /\ t[1] \in Login /\ t[2] \in Nat /\ t = <<t[1], t[2]>>
  /\ \A l \in Login, n \in Nat : <<l, n>> \in Tokens /\ LoginOf(<<l, n>>) = l
BY MobileSessionAssumption DEF LoginOf, Tokens

LEMMA IssuedMeans ==
  ASSUME issued \in [Login -> Nat]
  PROVE  \A t : t \in Issued <=> t \in Tokens /\ t[2] < issued[t[1]]
  <1>1. ASSUME NEW t, t \in Issued PROVE t \in Tokens /\ t[2] < issued[t[1]]
    <2>1. PICK l \in Login : t \in {l} \X (0..(issued[l] - 1))
      BY <1>1 DEF Issued
    <2>2. QED  BY <2>1 DEF Tokens
  <1>2. ASSUME NEW t, t \in Tokens, t[2] < issued[t[1]] PROVE t \in Issued
    <2>1. t[1] \in Login /\ t[2] \in 0..(issued[t[1]] - 1) /\ t = <<t[1], t[2]>>
      BY <1>2 DEF Tokens
    <2>2. t \in {t[1]} \X (0..(issued[t[1]] - 1))
      BY <2>1
    <2>3. QED  BY <2>1, <2>2 DEF Issued
  <1>3. QED  BY <1>1, <1>2

\* A login gets one more token.
LEMMA Minting ==
  ASSUME issued \in [Login -> Nat], NEW l \in Login,
         issued' = [issued EXCEPT ![l] = @ + 1]
  PROVE  /\ issued' \in [Login -> Nat] /\ issued'[l] > 0
         /\ \A k \in Login : issued[k] > 0 => issued'[k] > 0
         /\ <<l, issued[l]>> \notin Issued
         /\ Issued' = Issued \cup {<<l, issued[l]>>}
         /\ <<l, issued[l]>> \in Tokens /\ LoginOf(<<l, issued[l]>>) = l
  <1>1. /\ issued' \in [Login -> Nat] /\ issued'[l] = issued[l] + 1 /\ issued[l] \in Nat
        /\ \A k \in Login : k # l => issued'[k] = issued[k]
    OBVIOUS
  <1>2. \A t : t \in Issued' <=> t \in Tokens /\ t[2] < issued'[t[1]]
    <2>1. (issued \in [Login -> Nat] => \A t : t \in Issued <=> t \in Tokens /\ t[2] < issued[t[1]])'
      BY IssuedMeans, PTL
    <2>2. QED  BY <2>1, <1>1 DEF Tokens
  <1>3. \A t \in Tokens : t[2] < issued'[t[1]] <=> t[2] < issued[t[1]] \/ (t[1] = l /\ t[2] = issued[l])
    BY <1>1 DEF Tokens
  <1>4. \A t \in Tokens : t[1] = l /\ t[2] = issued[l] <=> t = <<l, issued[l]>>
    BY DEF Tokens
  <1>5. <<l, issued[l]>> \in Tokens /\ LoginOf(<<l, issued[l]>>) = l
    BY <1>1, TokenFacts
  <1>6. Issued' = Issued \cup {<<l, issued[l]>>}
    BY <1>2, <1>3, <1>4, <1>5, IssuedMeans
  <1>7. <<l, issued[l]>> \notin Issued
    <2>1. SUFFICES ASSUME <<l, issued[l]>> \in Issued PROVE FALSE
      OBVIOUS
    <2>2. issued[l] < issued[l]
      BY <2>1, IssuedMeans
    <2>3. QED  BY <2>2, <1>1
  <1>8. QED  BY <1>1, <1>5, <1>6, <1>7

-----------------------------------------------------------------------------
\* Types, and what holds whatever goes wrong.

Run == Refresher \cup Restorer

RefresherPc == {"idle", "reading", "sent", "answered", "storing", "storeFailed",
                "clearing", "comparing", "deleting"}
RestorerPc  == RefresherPc \cup {"delay", "me", "meWaits", "meAgain", "meFailed"}

Pc(o) == IF o \in Refresher THEN RefresherPc
         ELSE IF o \in Restorer THEN RestorerPc
         ELSE IF o \in Submitter THEN {"idle", "asking", "storing", "storeFailed"}
         ELSE IF o \in Leaver THEN {"idle", "unregistering", "reading", "sent", "answered", "clearing"}
         ELSE {"idle", "clearing"}

OpState == [pc      : RestorerPc \cup {"asking", "unregistering"},
            token   : Held,
            matches : BOOLEAN,
            stale   : BOOLEAN,
            attempt : {1, 2},
            for     : Login \cup {Nothing}]

SessionOps == op \in [Op -> OpState] /\ \A o \in Op : op[o].pc \in Pc(o)

SessionTypeOK ==
    /\ SessionOps
    /\ status \in {"restoring", "restoration-error", "unauthenticated", "authenticated"}
    /\ screen \in {"restoring", "restoration-error", "unauthenticated", "authenticated", "signingOut"}
    /\ access \in Login \cup {Nothing} /\ user \in Login \cup {Nothing}
    /\ stored \in Held
    /\ disk \in Seq(Op)
    /\ carried \in BOOLEAN
    /\ live \subseteq Tokens /\ revoked \subseteq Tokens /\ late \subseteq Tokens
    /\ issued \in [Login -> Nat]
    /\ ended \subseteq Login /\ reused \subseteq Tokens
    /\ disturbed \subseteq {"lost", "killed", "disk", "unread", "crossed"}

Busy(o)     == op[o].pc # "idle"
Clearing(o) == op[o].pc = "clearing"

OnDisk == {"reading", "storing", "storeFailed", "clearing", "comparing", "deleting"}

\* Who waits for SecureStore waits once, in its step.
Queue ==
    /\ Once(disk)
    /\ \A o \in Op : op[o].pc \in OnDisk <=> Waits(disk, o)

Before(o, p) == Ahead(disk, o, p)

\* One run of the 401 handler at a time, and one restoration.
OneEach ==
    /\ \A o, p \in Refresher : Busy(o) /\ Busy(p) => o = p
    /\ \A o, p \in Restorer : Busy(o) /\ Busy(p) => o = p

Carries(o) ==
    /\ op[o].pc \in {"comparing", "deleting"} => op[o].stale
    /\ op[o].pc \in {"sent", "storing", "comparing"} => op[o].token # Nothing

Genuine ==
    /\ \A o \in Op : op[o].token \in Issued \cup {Nothing}
    /\ stored \in Issued \cup {Nothing}
    /\ live \subseteq Issued /\ revoked \subseteq Issued /\ late \subseteq Issued
    /\ live \cap revoked = {}
    /\ ended \subseteq {l \in Login : issued[l] > 0}
    /\ access # Nothing => issued[access] > 0

\* A token that the app has received and not used yet is known to nobody else.
Unique ==
    \A p \in Run : op[p].pc = "answered" /\ op[p].token # Nothing =>
        /\ op[p].token # stored /\ op[p].token \notin late
        /\ \A q \in Op : q # p => op[q].token # op[p].token

Basics ==
    /\ SessionTypeOK
    /\ Queue
    /\ OneEach
    /\ \A o \in Op : Carries(o)
    /\ Genuine
    /\ Unique

-----------------------------------------------------------------------------
\* What a step does to the operations.

\* The requests that wait for a refresh, and new generations, leave an operation as it
\* is for the rest.
Similar(p) ==
    /\ \/ op'[p].pc = op[p].pc
       \/ op[p].pc = "me" /\ op'[p].pc = "meWaits"
       \/ op[p].pc = "meWaits" /\ op'[p].pc \in {"meAgain", "meFailed"}
    /\ op'[p].token = op[p].token
    /\ op'[p].matches = op[p].matches
    /\ op'[p].attempt = op[p].attempt
    /\ op'[p].for = op[p].for
    /\ op'[p].stale \in BOOLEAN
    /\ op[p].stale => op'[p].stale

DiskMove(o) ==
    \/ disk' = disk /\ (op'[o].pc \in OnDisk <=> op[o].pc \in OnDisk)
    \/ disk' = Append(disk, o) /\ op[o].pc \notin OnDisk /\ op'[o].pc \in OnDisk
    \/ Resumable(o) /\ disk' = Tail(disk) /\ op'[o].pc \notin OnDisk
    \/ Resumable(o) /\ disk' = Append(Tail(disk), o) /\ op'[o].pc \in OnDisk

\* Operation o has called SecureStore (again).
Called(o) ==
    /\ op'[o].pc \in OnDisk
    /\ \/ disk' = Append(disk, o) /\ op[o].pc \notin OnDisk
       \/ Resumable(o) /\ disk' = Append(Tail(disk), o)

LEMMA OpFacts ==
  /\ Submitter \cap Run = {} /\ Leaver \cap Run = {} /\ Quitter \cap Run = {}
  /\ Refresher \cap Restorer = {} /\ Submitter \cap (Leaver \cup Quitter) = {} /\ Leaver \cap Quitter = {}
  /\ Op = Run \cup Submitter \cup Leaver \cup Quitter
BY MobileSessionAssumption DEF Run, Op

LEMMA IdleFacts ==
  ASSUME SessionTypeOK
  PROVE  /\ Idle \in OpState /\ Idle.pc = "idle" /\ Idle.token = Nothing
         /\ Idle.matches = FALSE /\ Idle.stale = FALSE /\ Idle.attempt = 1 /\ Idle.for = Nothing
         /\ \A a \in {1, 2} :
               /\ Begun(a) \in OpState /\ Begun(a).pc = "reading" /\ Begun(a).token = stored
               /\ Begun(a).stale = FALSE /\ Begun(a).matches = FALSE
BY DEF Idle, Begun, OpState, Held, RestorerPc, RefresherPc, SessionTypeOK

LEMMA NewGeneration ==
  ASSUME SessionTypeOK
  PROVE  LET n == BeginNewGeneration(op)
         IN  /\ n \in [Op -> OpState]
             /\ \A p \in Op :
                   /\ n[p].pc = op[p].pc /\ n[p].token = op[p].token /\ n[p].matches = op[p].matches
                   /\ n[p].attempt = op[p].attempt /\ n[p].for = op[p].for
                   /\ n[p].stale <=> \/ op[p].stale
                                     \/ p \in Run /\ Busy(p)
                                     \/ p \in Submitter /\ op[p].pc = "storing"
<1> DEFINE n == BeginNewGeneration(op)
           S(p) == \/ p \in Run /\ Busy(p)
                   \/ p \in Submitter /\ op[p].pc = "storing"
<1>1. n = [p \in Op |-> IF S(p) THEN [op[p] EXCEPT !.stale = TRUE] ELSE op[p]]
  BY DEF BeginNewGeneration, Run, Busy
<1> HIDE DEF n, S
<1>2. ASSUME NEW p \in Op
      PROVE  LET r == IF S(p) THEN [op[p] EXCEPT !.stale = TRUE] ELSE op[p]
             IN  /\ r \in OpState
                 /\ r.pc = op[p].pc /\ r.token = op[p].token /\ r.matches = op[p].matches
                 /\ r.attempt = op[p].attempt /\ r.for = op[p].for
                 /\ r.stale <=> (op[p].stale \/ S(p))
  <2>1. op[p] \in OpState
    BY DEF SessionTypeOK, SessionOps
  <2>2. CASE S(p)
    BY <2>1, <2>2 DEF OpState
  <2>3. CASE ~S(p)
    BY <2>1, <2>3
  <2>4. QED  BY <2>2, <2>3
<1>3. QED  BY <1>1, <1>2 DEF n, S

LEMMA Ending ==
  ASSUME SessionTypeOK, NEW o \in Op, NEW b \in BOOLEAN
  PROVE  LET n == Ended(o, b)
         IN  /\ n \in [Op -> OpState]
             /\ n[o] = Idle
             /\ \A p \in Op : p # o =>
                   /\ n[p].token = op[p].token /\ n[p].matches = op[p].matches
                   /\ n[p].attempt = op[p].attempt /\ n[p].for = op[p].for
                   /\ n[p].stale = op[p].stale
                   /\ n[p].pc = IF o \in Refresher /\ op[p].pc = "meWaits"
                                THEN IF b THEN "meAgain" ELSE "meFailed"
                                ELSE op[p].pc
<1> DEFINE n == Ended(o, b)
           W(p) == o \in Refresher /\ op[p].pc = "meWaits"
           r(p) == IF W(p) THEN [op[p] EXCEPT !.pc = IF b THEN "meAgain" ELSE "meFailed"] ELSE op[p]
<1>1. n = [p \in Op |-> IF p = o THEN Idle ELSE r(p)]
  BY DEF Ended
<1>2. ASSUME NEW p \in Op
      PROVE  /\ r(p) \in OpState
             /\ r(p).token = op[p].token /\ r(p).matches = op[p].matches
             /\ r(p).attempt = op[p].attempt /\ r(p).for = op[p].for
             /\ r(p).stale = op[p].stale
             /\ r(p).pc = IF W(p) THEN IF b THEN "meAgain" ELSE "meFailed" ELSE op[p].pc
  <2>1. op[p] \in OpState
    BY DEF SessionTypeOK, SessionOps
  <2>2. CASE W(p)
    BY <2>1, <2>2 DEF OpState, RestorerPc
  <2>3. CASE ~W(p)
    BY <2>1, <2>3
  <2>4. QED  BY <2>2, <2>3
<1>3. Idle \in OpState
  BY IdleFacts
<1>4. QED  BY <1>1, <1>2, <1>3

LEMMA Typed ==
  ASSUME SessionTypeOK, NEW o \in Op, op' \in [Op -> OpState],
         op'[o].pc \in Pc(o),
         \A p \in Op : p # o => Similar(p)
  PROVE  SessionOps'
<1>1. ASSUME NEW p \in Op, p # o PROVE op'[p].pc \in Pc(p)
  <2>1. op[p].pc \in Pc(p)
    BY DEF SessionTypeOK, SessionOps
  <2>2. CASE op'[p].pc = op[p].pc
    BY <2>1, <2>2
  <2>3. CASE op'[p].pc # op[p].pc
    BY <1>1, <2>1, <2>3, OpFacts DEF Similar, Pc, RestorerPc, RefresherPc, Run
  <2>4. QED  BY <2>2, <2>3
<1>2. QED  BY <1>1 DEF SessionOps, Pc, Op

\* The queue of SecureStore after a step of operation o.
LEMMA Queueing ==
  ASSUME SessionTypeOK, Queue, NEW o \in Op, DiskMove(o),
         \A p \in Op : p # o => Similar(p)
  PROVE  /\ disk' \in Seq(Op) /\ Queue'
         /\ \A a, b \in Op : b # o => (Before(a, b)' <=> Before(a, b) /\ (a # o \/ disk' = disk))
         /\ Called(o) => \A a \in Op : a # o /\ op[a].pc \in OnDisk => Before(a, o)'
         /\ disk' = disk => \A a, b \in Op : Before(a, b)' <=> Before(a, b)
<1>0. disk \in Seq(Op) /\ Once(disk)
  BY DEF SessionTypeOK, Queue
<1>1. \A p \in Op : p # o => (op'[p].pc \in OnDisk <=> op[p].pc \in OnDisk)
  BY DEF Similar, OnDisk
<1>2. ASSUME disk' = disk, op'[o].pc \in OnDisk <=> op[o].pc \in OnDisk
      PROVE  /\ disk' \in Seq(Op) /\ Queue'
             /\ \A a, b \in Op : b # o => (Before(a, b)' <=> Before(a, b) /\ (a # o \/ disk' = disk))
             /\ disk' = disk => \A a, b \in Op : Before(a, b)' <=> Before(a, b)
  BY <1>0, <1>1, <1>2 DEF Queue, Before
<1>3. ASSUME disk' = Append(disk, o), op[o].pc \notin OnDisk, op'[o].pc \in OnDisk
      PROVE  /\ disk' \in Seq(Op) /\ Queue'
             /\ \A a, b \in Op : b # o => (Before(a, b)' <=> Before(a, b) /\ (a # o \/ disk' = disk))
             /\ disk' = disk => \A a, b \in Op : Before(a, b)' <=> Before(a, b)
             /\ \A a \in Op : a # o /\ op[a].pc \in OnDisk => Before(a, o)'
  <2>1. ~Waits(disk, o)
    BY <1>3 DEF Queue
  <2>2. /\ disk' \in Seq(Op)
        /\ Once(disk')
        /\ \A p \in Op : Waits(disk', p) <=> Waits(disk, p) \/ p = o
        /\ \A a, b \in Op : Ahead(disk', a, b) <=> Ahead(disk, a, b) \/ (Waits(disk, a) /\ b = o)
    BY <1>0, <2>1, CallMade, <1>3
  <2>3. \A a \in Op : ~Ahead(disk, o, a)
    BY <2>1 DEF Ahead, Waits
  <2>4. disk' # disk
    BY <2>1, <2>2
  <2>5. Queue'
    BY <2>2, <1>1, <1>3 DEF Queue
  <2>6. QED  BY <2>2, <2>3, <2>4, <2>5 DEF Before, Queue
<1>4. ASSUME Resumable(o)
      PROVE  /\ Tail(disk) \in Seq(Op)
             /\ Once(Tail(disk))
             /\ Waits(disk, o)
             /\ \A p \in Op : Waits(Tail(disk), p) <=> Waits(disk, p) /\ p # o
             /\ \A a, b \in Op : Ahead(Tail(disk), a, b) <=> Ahead(disk, a, b) /\ a # o
             /\ \A a \in Op : ~Ahead(disk, a, o)
             /\ ~Waits(Tail(disk), o)
  BY <1>0, <1>4, CallReturns DEF Resumable
<1>5. ASSUME Resumable(o), disk' = Tail(disk), op'[o].pc \notin OnDisk
      PROVE  /\ disk' \in Seq(Op) /\ Queue'
             /\ \A a, b \in Op : b # o => (Before(a, b)' <=> Before(a, b) /\ (a # o \/ disk' = disk))
             /\ disk' = disk => \A a, b \in Op : Before(a, b)' <=> Before(a, b)
  <2>1. disk' # disk
    BY <1>4, <1>5
  <2>2. Queue'
    BY <1>1, <1>4, <1>5 DEF Queue
  <2>3. QED  BY <1>4, <1>5, <2>1, <2>2 DEF Before
<1>6. ASSUME Resumable(o), disk' = Append(Tail(disk), o), op'[o].pc \in OnDisk
      PROVE  /\ disk' \in Seq(Op) /\ Queue'
             /\ \A a, b \in Op : b # o => (Before(a, b)' <=> Before(a, b) /\ (a # o \/ disk' = disk))
             /\ disk' = disk => \A a, b \in Op : Before(a, b)' <=> Before(a, b)
             /\ \A a \in Op : a # o /\ op[a].pc \in OnDisk => Before(a, o)'
  <2> DEFINE t == Tail(disk)
  <2>1. /\ t \in Seq(Op) /\ Once(t) /\ ~Waits(t, o)
    BY <1>4, <1>6
  <2>2. /\ disk' \in Seq(Op)
        /\ Once(disk')
        /\ \A p \in Op : Waits(disk', p) <=> Waits(t, p) \/ p = o
        /\ \A a, b \in Op : Ahead(disk', a, b) <=> Ahead(t, a, b) \/ (Waits(t, a) /\ b = o)
    <3> HIDE DEF t
    <3>1. disk' = Append(t, o)
      BY <1>6 DEF t
    <3>2. QED  BY <2>1, <3>1, CallMade
  <2>3. Queue'
    BY <2>2, <1>1, <1>4, <1>6 DEF Queue
  <2>4. \A a \in Op : a # o /\ op[a].pc \in OnDisk => Waits(t, a)
    BY <1>4, <1>6 DEF Queue
  <2>5. ASSUME NEW a \in Op, NEW b \in Op, b # o
        PROVE  Before(a, b)' <=> Before(a, b) /\ (a # o \/ disk' = disk)
    <3>1. Before(a, b)' <=> Before(a, b) /\ a # o
      BY <2>2, <2>5, <1>4, <1>6 DEF Before
    <3>2. a = o /\ disk' = disk => (Before(a, b)' <=> Before(a, b))
      BY DEF Before
    <3>3. QED  BY <3>1, <3>2
  <2>6. \A a \in Op : a # o /\ op[a].pc \in OnDisk => Before(a, o)'
    BY <2>2, <2>4 DEF Before
  <2>7. QED  BY <2>2, <2>3, <2>5, <2>6 DEF Before
<1>7. Called(o) => \A a \in Op : a # o /\ op[a].pc \in OnDisk => Before(a, o)'
  BY <1>3, <1>6 DEF Called
<1>8. QED  BY <1>2, <1>3, <1>5, <1>6, <1>7 DEF DiskMove

LEMMA FirstInLine ==
  ASSUME SessionTypeOK, Queue, NEW o \in Op, Resumable(o)
  PROVE  op[o].pc \in OnDisk /\ \A a \in Op : ~Before(a, o)
BY CallReturns DEF Resumable, Queue, Before, SessionTypeOK

LEMMA OneAtATime ==
  ASSUME SessionTypeOK, OneEach, NEW o \in Op,
         \A p \in Op : p # o => Similar(p),
         \/ Busy(o) \/ ~Busy(o)' \/ o \notin Run
         \/ o \in Refresher /\ NoneInFlight(Refresher)
         \/ o \in Restorer /\ NoneInFlight(Restorer)
  PROVE  OneEach'
<1>1. \A p \in Op : p # o => (Busy(p)' <=> Busy(p))
  BY DEF Similar, Busy
<1>2. Refresher \subseteq Op /\ Restorer \subseteq Op /\ Refresher \cap Restorer = {}
  BY OpFacts DEF Run
<1>3. CASE Busy(o) \/ ~Busy(o)' \/ o \notin Run
  BY <1>1, <1>2, <1>3 DEF OneEach, Run
<1>4. CASE o \in Refresher /\ NoneInFlight(Refresher)
  BY <1>1, <1>2, <1>4 DEF OneEach, NoneInFlight, Busy
<1>5. CASE o \in Restorer /\ NoneInFlight(Restorer)
  BY <1>1, <1>2, <1>5 DEF OneEach, NoneInFlight, Busy
<1>6. QED  BY <1>3, <1>4, <1>5

-----------------------------------------------------------------------------
\* A step of operation o without the backend.
AppStep(o) ==
    /\ op' \in [Op -> OpState] /\ op'[o].pc \in Pc(o)
    /\ \A p \in Op : p # o => Similar(p)
    /\ DiskMove(o)
    /\ \/ Busy(o) \/ ~Busy(o)' \/ o \notin Run
       \/ o \in Refresher /\ NoneInFlight(Refresher)
       \/ o \in Restorer /\ NoneInFlight(Restorer)
    /\ Carries(o)'
    /\ op'[o].token \in {Nothing, stored, op[o].token}
    /\ o \in Run => op'[o].pc # "answered"
    /\ UNCHANGED <<live, revoked, issued, reused>>
    /\ late' = late \/ (op[o].pc = "sent" /\ o \in Run /\ late' = late \cup {op[o].token})
    /\ stored' \in {stored, Nothing, op[o].token}
    /\ access' \in {access, Nothing, LoginOf(op[o].token)}
    /\ user' \in {user, Nothing, access, LoginOf(op[o].token)}
    /\ ended' \in {ended, ended \cup ({access, LoginOf(stored)} \ {Nothing}),
                   ended \cup ({LoginOf(stored)} \ {Nothing})}
    /\ status' \in {"restoring", "restoration-error", "unauthenticated", "authenticated"}
    /\ screen' \in {screen, "signingOut"}
    /\ carried' \in {carried, TRUE}
    /\ disturbed' \subseteq disturbed \cup {"lost", "disk", "unread", "crossed"}

LEMMA LoginOfHeld ==
  ASSUME issued \in [Login -> Nat], NEW t \in Issued \cup {Nothing}
  PROVE  /\ LoginOf(t) \in Login \cup {Nothing}
         /\ LoginOf(t) # Nothing => issued[LoginOf(t)] > 0
         /\ t \in Held
         /\ LoginOf(t) = Nothing <=> t = Nothing
<1>1. CASE t = Nothing
  BY <1>1, TokenFacts DEF Held
<1>2. CASE t # Nothing
  <2>1. t \in Tokens /\ t[2] < issued[t[1]]
    BY <1>2, IssuedMeans
  <2>2. t[1] \in Login /\ t[2] \in Nat /\ LoginOf(t) = t[1]
    BY <2>1, TokenFacts
  <2>3. issued[t[1]] \in Nat
    BY <2>2
  <2>4. issued[t[1]] > 0
    BY <2>1, <2>2, <2>3
  <2>5. QED  BY <2>1, <2>2, <2>4, TokenFacts DEF Held
<1>3. QED  BY <1>1, <1>2

LEMMA StepInApp ==
  ASSUME Basics, NEW o \in Op, AppStep(o)
  PROVE  Basics'
<1>0. SessionTypeOK /\ Queue /\ OneEach /\ Genuine /\ Unique /\ \A p \in Op : Carries(p)
  BY DEF Basics
<1>1. SessionOps'
  BY <1>0, Typed DEF AppStep
<1>2. Queue' /\ disk' \in Seq(Op)
  BY <1>0, Queueing DEF AppStep
<1>3. OneEach'
  BY <1>0, OneAtATime DEF AppStep
<1>4. \A p \in Op : Carries(p)'
  <2>1. ASSUME NEW p \in Op, p # o PROVE Carries(p)'
    BY <2>1, <1>0 DEF AppStep, Similar, Carries
  <2>2. QED  BY <2>1 DEF AppStep
<1>5. Issued' = Issued /\ issued' = issued
  BY DEF AppStep, Issued
<1>6. op[o].token \in Issued \cup {Nothing} /\ stored \in Issued \cup {Nothing}
  BY <1>0 DEF Genuine
<1>7. /\ LoginOf(op[o].token) \in Login \cup {Nothing}
      /\ LoginOf(op[o].token) # Nothing => issued[LoginOf(op[o].token)] > 0
      /\ LoginOf(stored) \in Login \cup {Nothing}
      /\ LoginOf(stored) # Nothing => issued[LoginOf(stored)] > 0
      /\ op[o].token \in Held
  BY <1>0, <1>6, LoginOfHeld DEF SessionTypeOK
<1>8. Genuine'
  <2>1. \A p \in Op : op'[p].token \in Issued \cup {Nothing}
    BY <1>0, <1>6 DEF AppStep, Similar, Genuine
  <2>2. stored' \in Issued \cup {Nothing}
    BY <1>6 DEF AppStep
  <2>3. late' \subseteq Issued
    <3>1. op[o].pc = "sent" /\ o \in Run => op[o].token \in Issued
      BY <1>0, <1>6 DEF Carries
    <3>2. QED  BY <3>1, <1>0 DEF AppStep, Genuine
  <2>4. ended' \subseteq {l \in Login : issued[l] > 0}
    BY <1>0, <1>7 DEF AppStep, Genuine, SessionTypeOK
  <2>5. access' # Nothing => issued[access'] > 0
    BY <1>0, <1>7 DEF AppStep, Genuine
  <2>6. QED  BY <2>1, <2>2, <2>3, <2>4, <2>5, <1>0, <1>5 DEF Genuine, AppStep
<1>9. Unique'
  <2> SUFFICES ASSUME NEW p \in Run, op'[p].pc = "answered", op'[p].token # Nothing
               PROVE  /\ op'[p].token # stored' /\ op'[p].token \notin late'
                      /\ \A q \in Op : q # p => op'[q].token # op'[p].token
    BY DEF Unique
  <2>1. p # o /\ p \in Op
    BY OpFacts DEF AppStep
  <2>2. op[p].pc = "answered" /\ op'[p].token = op[p].token
    BY <2>1 DEF AppStep, Similar
  <2>3. /\ op[p].token # stored /\ op[p].token \notin late
        /\ \A q \in Op : q # p => op[q].token # op[p].token
    BY <2>2, <1>0 DEF Unique
  <2>4. op[o].token # op[p].token
    BY <2>1, <2>3
  <2>5. op'[o].token # op[p].token
    BY <2>2, <2>3, <2>4 DEF AppStep
  <2>6. ASSUME NEW q \in Op, q # p PROVE op'[q].token # op'[p].token
    BY <2>2, <2>3, <2>5, <2>6 DEF AppStep, Similar
  <2>7. QED  BY <2>2, <2>3, <2>4, <2>6 DEF AppStep
<1>10. SessionTypeOK'
  <2>1. /\ status' \in {"restoring", "restoration-error", "unauthenticated", "authenticated"}
        /\ screen' \in {"restoring", "restoration-error", "unauthenticated", "authenticated", "signingOut"}
        /\ access' \in Login \cup {Nothing} /\ user' \in Login \cup {Nothing}
        /\ carried' \in BOOLEAN
        /\ disturbed' \subseteq {"lost", "killed", "disk", "unread", "crossed"}
    BY <1>0, <1>7 DEF AppStep, SessionTypeOK
  <2>2. stored' \in Held
    BY <1>0, <1>7 DEF AppStep, SessionTypeOK, Held
  <2>3. ended' \subseteq Login
    BY <1>8, <1>5 DEF Genuine, AppStep
  <2>4. late' \subseteq Tokens
    BY <1>8, <1>5, <1>0, IssuedMeans DEF Genuine, SessionTypeOK
  <2>5. QED  BY <1>0, <1>1, <1>2, <2>1, <2>2, <2>3, <2>4 DEF SessionTypeOK, AppStep
<1>11. QED  BY <1>1, <1>2, <1>3, <1>4, <1>8, <1>9, <1>10 DEF Basics

-----------------------------------------------------------------------------
\* The kinds of step.

\* Operation o takes effect on the app while its generation is current.
Active(o) == o \in Run /\ op[o].pc \notin {"idle", "clearing"} /\ ~op[o].stale

Pending(v) == op[v].pc \in {"unregistering", "reading", "sent", "answered"}

LogoutPending == \E v \in Leaver : Pending(v)

\* Operation o ends without a trace.
Drops(o) ==
    /\ o \in Run \cup Leaver /\ op[o].pc \notin {"idle", "clearing", "meWaits"}
    /\ op[o].pc \in OnDisk => Resumable(o)
    /\ o \in Refresher \/ (o \in Run /\ op[o].stale) \/ "unread" \in disturbed'
    /\ o \in Run /\ op[o].pc = "answered" => op[o].stale \/ disturbed' # {}
    /\ op' = Ended(o, FALSE)
    /\ disk' = Resumed(o)
    /\ \/ late' = late
       \/ op[o].pc = "sent" /\ o \in Run /\ late' = late \cup {op[o].token} /\ "lost" \in disturbed'
    /\ disturbed \subseteq disturbed' /\ disturbed' \subseteq disturbed \cup {"lost", "unread"}
    /\ UNCHANGED <<status, screen, access, user, stored, carried, live, revoked, issued, reused, ended>>

\* Operation o clears the session.
Clears(o) ==
    /\ op[o].pc # "clearing"
    /\ \/ Active(o)
       \/ o \in Leaver /\ Pending(o)
       \/ o \in Quitter /\ op[o].pc = "idle" /\ OnErrorScreen
    /\ op[o].pc \in OnDisk => Resumable(o)
    /\ ClearSession(o)
    /\ UNCHANGED <<screen, backend>>

\* Operation o has read a token and presents it.
Sends(o) ==
    /\ o \in Run \cup Leaver /\ op[o].pc = "reading" /\ op[o].token # Nothing /\ Resumable(o)
    /\ op' = [op EXCEPT ![o].pc = "sent"]
    /\ disk' = Resumed(o)
    /\ UNCHANGED <<status, screen, access, user, stored, carried, backend, ended, disturbed>>

\* A restoration finds no token.
FindsNothing(o) ==
    /\ o \in Restorer /\ op[o].pc = "reading" /\ op[o].token = Nothing /\ ~op[o].stale /\ Resumable(o)
    /\ op' = [op EXCEPT ![o] = Idle]
    /\ status' = "unauthenticated"
    /\ disk' = Resumed(o)
    /\ UNCHANGED <<screen, access, user, stored, carried, backend, ended, disturbed>>

\* A restoration fails, for now.
Fails(o) ==
    /\ o \in Restorer /\ op[o].pc \in {"sent", "answered", "me", "meAgain", "meFailed"} /\ ~op[o].stale
    /\ op[o].pc = "answered" => disturbed' # {}
    /\ RetryLater(o)
    /\ \/ late' = late
       \/ op[o].pc = "sent" /\ late' = late \cup {op[o].token} /\ "lost" \in disturbed'
    /\ disturbed \subseteq disturbed' /\ disturbed' \subseteq disturbed \cup {"lost"}
    /\ UNCHANGED <<screen, stored, disk, live, revoked, issued, reused, ended>>

\* The token received is stored.
Persists(o) ==
    /\ o \in Run /\ op[o].pc = "answered" /\ op[o].token # Nothing /\ ~op[o].stale
    /\ Persist(o)
    /\ UNCHANGED <<screen, backend>>

\* What was written too late is removed.
Deletes(o) ==
    /\ o \in Run /\ op[o].pc = "comparing" /\ op[o].matches /\ Resumable(o)
    /\ op' = [op EXCEPT ![o].pc = "deleting"]
    /\ disk' = Append(Resumed(o), o)
    /\ \/ /\ stored' = Nothing
          /\ disturbed' = IF stored \in {Nothing, op[o].token} THEN disturbed
                          ELSE disturbed \cup {"crossed"}
       \/ UNCHANGED stored /\ disturbed' = disturbed \cup {"disk"}
    /\ UNCHANGED <<status, screen, access, user, carried, backend, ended>>

\* The automatic retry.
Repeats(o) ==
    /\ o \in Restorer /\ op[o].pc = "delay" /\ ~op[o].stale
    /\ Begin(o, 2)
    /\ UNCHANGED <<status, screen, access, user, stored, carried, backend, ended, disturbed>>

\* A restoration succeeds.
Succeeds(o) ==
    /\ o \in Restorer /\ op[o].pc \in {"me", "meAgain"} /\ ~op[o].stale
    /\ op' = [op EXCEPT ![o] = Idle]
    /\ user' = access /\ status' = "authenticated" /\ carried' = TRUE
    /\ UNCHANGED <<screen, access, stored, disk, backend, ended, disturbed>>

LEMMA NotCalled ==
  ASSUME SessionTypeOK, Queue, NEW o \in Op, op[o].pc \notin OnDisk
  PROVE  ~Resumable(o) /\ Resumed(o) = disk
BY FirstInLine DEF Resumed

LEMMA EndedAlone ==
  ASSUME SessionTypeOK, NEW o \in Restorer
  PROVE  Ended(o, FALSE) = [op EXCEPT ![o] = Idle]
<1>1. o \notin Refresher /\ o \in Op
  BY OpFacts DEF Run
<1>2. op \in [Op -> OpState]
  BY DEF SessionTypeOK, SessionOps
<1>3. QED  BY <1>1, <1>2 DEF Ended

LEMMA RefreshKinds ==
  ASSUME Basics, NEW o \in Run, Refresh(o)
  PROVE  \/ Drops(o) \/ Clears(o) \/ Sends(o) \/ FindsNothing(o) \/ Present(o) \/ Fails(o)
         \/ Persists(o) \/ Persisted(o) \/ Deletes(o)
<1>0. SessionTypeOK /\ Queue /\ o \in Op /\ (op[o].stale \in BOOLEAN) /\ op[o].pc \in Pc(o) /\ Carries(o)
  BY OpFacts DEF Basics, SessionTypeOK, SessionOps, OpState
<1>1. CASE ReadFails(o)
  BY <1>0, <1>1 DEF ReadFails, Discard, Drops, backend, Stale
<1>2. CASE ReadToken(o)
  <2>1. ASSUME op[o].token = Nothing, Stale(o), Discard(o), disk' = Resumed(o),
               UNCHANGED <<stored, ended, disturbed>>
        PROVE  Drops(o)
    BY <1>0, <1>2, <2>1 DEF ReadToken, Discard, Drops, backend, Stale
  <2>2. ASSUME ~Stale(o), ClearSession(o) PROVE Clears(o)
    BY <1>0, <1>2, <2>2 DEF ReadToken, Clears, Active, Stale
  <2>3. QED  BY <1>2, <2>1, <2>2 DEF ReadToken, Sends, FindsNothing, Stale
<1>3. CASE Present(o)
  BY <1>3
<1>4. CASE FailTransiently(o)
  <2>1. op[o].pc \notin OnDisk /\ disk' = Resumed(o)
    BY <1>0, <1>4, NotCalled DEF FailTransiently, OnDisk
  <2>2. CASE Stale(o) \/ o \in Refresher
    BY <1>0, <1>4, <2>1, <2>2 DEF FailTransiently, Discard, Drops, Stale
  <2>3. CASE ~(Stale(o) \/ o \in Refresher)
    BY <1>0, <1>4, <2>3 DEF FailTransiently, Fails, Stale, Run
  <2>4. QED  BY <2>2, <2>3
<1>5. CASE Answered(o)
  <2>1. op[o].pc \notin OnDisk /\ disk = Resumed(o)
    BY <1>0, <1>5, NotCalled DEF Answered, OnDisk
  <2>2. ASSUME Stale(o), Discard(o), UNCHANGED <<disk, stored, ended, disturbed>> PROVE Drops(o)
    BY <1>0, <1>5, <2>1, <2>2 DEF Answered, Discard, Drops, Stale, backend
  <2>3. ASSUME ~Stale(o), Rejected(o) PROVE Clears(o)
    BY <1>0, <1>5, <2>1, <2>3 DEF Answered, Rejected, Clears, Active, Stale
  <2>4. QED  BY <1>5, <2>2, <2>3 DEF Answered, Persists, Stale
<1>6. CASE Persisted(o)
  BY <1>6
<1>7. CASE PersistFailed(o)
  <2>2. ASSUME Stale(o), Discard(o), disk' = Resumed(o), UNCHANGED <<stored, ended, disturbed>> PROVE Drops(o)
    BY <1>0, <1>7, <2>2 DEF PersistFailed, Discard, Drops, Stale, backend
  <2>3. ASSUME ~Stale(o), ClearSession(o) PROVE Clears(o)
    BY <1>0, <1>7, <2>3 DEF PersistFailed, Clears, Active, Stale
  <2>4. QED  BY <1>7, <2>2, <2>3 DEF PersistFailed
<1>8. CASE Compared(o)
  <2>1. op[o].stale
    BY <1>0, <1>8 DEF Compared, Carries
  <2>2. CASE op[o].matches
    BY <1>0, <1>8, <2>2 DEF Compared, Deletes
  <2>3. CASE ~op[o].matches
    BY <1>0, <1>8, <2>1, <2>3 DEF Compared, Drops, backend
  <2>4. QED  BY <2>2, <2>3
<1>9. CASE Undone(o)
  <2>1. op[o].stale
    BY <1>0, <1>9 DEF Undone, Carries
  <2>2. QED  BY <1>0, <1>9, <2>1 DEF Undone, Discard, Drops, backend
<1>10. QED  BY <1>1, <1>2, <1>3, <1>4, <1>5, <1>6, <1>7, <1>8, <1>9 DEF Refresh

LEMMA RestoreKinds ==
  ASSUME Basics, NEW o \in Restorer, Restore(o)
  PROVE  Drops(o) \/ Repeats(o) \/ Succeeds(o) \/ MeUnauthorized(o) \/ Fails(o)
<1>0. SessionTypeOK /\ Queue /\ o \in Op /\ o \in Run /\ (op[o].stale \in BOOLEAN)
  BY OpFacts DEF Basics, SessionTypeOK, SessionOps, OpState, Run
<1>1. Ended(o, FALSE) = [op EXCEPT ![o] = Idle]
  BY <1>0, EndedAlone
<1>2. op[o].pc \notin OnDisk => Resumed(o) = disk
  BY <1>0, NotCalled
<1>3. CASE RetryAutomatically(o)
  BY <1>0, <1>1, <1>2, <1>3 DEF RetryAutomatically, Drops, Repeats, Stale, backend, OnDisk
<1>4. CASE Me(o)
  BY <1>0, <1>1, <1>2, <1>4 DEF Me, Drops, Succeeds, Stale, backend, OnDisk
<1>5. CASE MeFails(o)
  BY <1>0, <1>1, <1>2, <1>5 DEF MeFails, Drops, Fails, Discard, Stale, backend, OnDisk
<1>6. QED  BY <1>3, <1>4, <1>5 DEF Restore

\* Every step is of one of these kinds.
Kinds ==
    \/ \E o \in Op : Drops(o) \/ Clears(o) \/ SessionCleared(o) \/ Sends(o)
    \/ \E o \in Run : Present(o) \/ Persists(o) \/ Persisted(o) \/ Deletes(o)
    \/ \E o \in Restorer : \/ FindsNothing(o) \/ Fails(o) \/ Repeats(o) \/ Succeeds(o)
                           \/ MeUnauthorized(o) \/ RetryRestoration(o)
    \/ \E o \in Refresher : Unauthorized(o)
    \/ \E b \in Submitter : \/ SubmitLogin(b) \/ LoginFails(b) \/ LoginStored(b)
                            \/ \E l \in Login : LoginAnswered(b, l)
    \/ \E v \in Leaver : TapLogout(v) \/ Unregistered(v) \/ LogoutHandled(v)
    \/ Render \/ Restart \/ ArriveLate \/ Expire

LEMMA StepKinds ==
  ASSUME Basics, Next
  PROVE  Kinds
<1>0. SessionTypeOK /\ Queue
  BY DEF Basics
<1>1. ASSUME NEW o \in Op, Proceed(o) PROVE Kinds
  <2>1. CASE o \in Run /\ Refresh(o)
    BY <2>1, RefreshKinds, OpFacts DEF Kinds, FindsNothing, Fails
  <2>2. CASE o \in Restorer /\ Restore(o)
    BY <2>2, RestoreKinds, OpFacts DEF Kinds
  <2>3. CASE o \in Leaver /\ ReadFails(o)
    <3>1. Drops(o)
      BY <1>0, <2>3, OpFacts DEF ReadFails, Discard, Drops, backend
    <3>2. QED  BY <3>1 DEF Kinds
  <2>4. CASE o \in Leaver /\ LogoutRead(o)
    <3>1. ASSUME op[o].token = Nothing, NothingToRevoke(o) PROVE Clears(o)
      BY <2>4, <3>1 DEF LogoutRead, NothingToRevoke, Clears, Pending
    <3>2. Sends(o) \/ Clears(o)
      BY <2>4, <3>1 DEF LogoutRead, Sends
    <3>3. QED  BY <3>2 DEF Kinds
  <2>5. CASE o \in Leaver /\ LogoutAnswered(o)
    <3>1. Clears(o)
      BY <1>0, <2>5, NotCalled DEF LogoutAnswered, Clears, Pending, OnDisk
    <3>2. QED  BY <3>1 DEF Kinds
  <2>6. CASE SessionCleared(o)
    BY <2>6 DEF Kinds
  <2>7. CASE \/ o \in Submitter /\ (\/ LoginFails(o) \/ LoginStored(o)
                                      \/ \E l \in Login : LoginAnswered(o, l))
             \/ o \in Leaver /\ (Unregistered(o) \/ LogoutHandled(o))
    BY <2>7 DEF Kinds
  <2>8. QED  BY <1>1, <2>1, <2>2, <2>3, <2>4, <2>5, <2>6, <2>7 DEF Proceed, Run
<1>2. ASSUME Tap PROVE Kinds
  <2>1. ASSUME NEW o \in Quitter, SignInInstead(o) PROVE Kinds
    <3>1. o \in Op /\ Clears(o)
      BY <1>0, <2>1, NotCalled, OpFacts DEF SignInInstead, Clears, OnDisk
    <3>2. QED  BY <3>1 DEF Kinds
  <2>2. CASE \/ \E o \in Restorer : RetryRestoration(o)
             \/ \E o \in Submitter : SubmitLogin(o)
             \/ \E o \in Leaver : TapLogout(o)
    BY <2>2 DEF Kinds
  <2>3. QED  BY <1>2, <2>1, <2>2 DEF Tap
<1>3. QED  BY <1>1, <1>2 DEF Next, Kinds

-----------------------------------------------------------------------------
\* The kinds of step that leave the backend alone.

LEMMA OpType ==
  ASSUME Basics, NEW o \in Op
  PROVE  /\ SessionTypeOK /\ Queue /\ OneEach /\ Carries(o)
         /\ op \in [Op -> OpState] /\ op[o] \in OpState /\ op[o].pc \in Pc(o)
         /\ op[o].stale \in BOOLEAN /\ op[o].token \in Held
         /\ \A p \in Op : op[p] \in OpState /\ op[p].stale \in BOOLEAN
BY DEF Basics, SessionTypeOK, SessionOps, OpState

LEMMA SimilarIfSame ==
  ASSUME NEW p \in Op, op[p] \in OpState, op'[p] = op[p]
  PROVE  Similar(p)
BY DEF Similar, OpState

LEMMA DropsFacts ==
  ASSUME Basics, NEW o \in Op, Drops(o)
  PROVE  /\ op' \in [Op -> OpState]
         /\ op'[o].pc = "idle" /\ op'[o].token = Nothing
         /\ \A p \in Op : p # o => /\ Similar(p) /\ op'[p].stale = op[p].stale
                                   /\ \/ op'[p].pc = op[p].pc
                                      \/ (o \in Refresher /\ op[p].pc = "meWaits" /\ op'[p].pc = "meFailed")
         /\ AppStep(o)
<1>0. /\ SessionTypeOK /\ Queue /\ op[o] \in OpState /\ op[o].pc \in Pc(o)
      /\ \A p \in Op : op[p] \in OpState
  BY OpType
<1>1. op' = Ended(o, FALSE)
  BY DEF Drops
<1>2. /\ op' \in [Op -> OpState] /\ op'[o] = Idle
      /\ \A p \in Op : p # o => /\ Similar(p) /\ op'[p].stale = op[p].stale
                                /\ \/ op'[p].pc = op[p].pc
                                   \/ (o \in Refresher /\ op[p].pc = "meWaits" /\ op'[p].pc = "meFailed")
  <2>1. /\ op' \in [Op -> OpState] /\ op'[o] = Idle
        /\ \A p \in Op : p # o =>
              /\ op'[p].token = op[p].token /\ op'[p].matches = op[p].matches
              /\ op'[p].attempt = op[p].attempt /\ op'[p].for = op[p].for
              /\ op'[p].stale = op[p].stale
              /\ op'[p].pc = IF o \in Refresher /\ op[p].pc = "meWaits"
                             THEN IF FALSE THEN "meAgain" ELSE "meFailed"
                             ELSE op[p].pc
    BY ONLY <1>0, <1>1, Ending
  <2>2. \A p \in Op : op[p].stale \in BOOLEAN
    BY <1>0 DEF OpState
  <2>3. QED  BY ONLY <2>1, <2>2 DEF Similar
<1>3. op'[o].pc = "idle" /\ op'[o].token = Nothing
  BY <1>2, <1>0, IdleFacts
<1>4. DiskMove(o)
  BY <1>0, <1>3, NotCalled DEF DiskMove, Drops, OnDisk, Resumed
<1>5. op'[o].pc \in Pc(o)
  BY <1>3 DEF Pc, RefresherPc, RestorerPc
<1>6. Carries(o)'
  BY <1>3 DEF Carries
<1>7. AppStep(o)
  BY <1>0, <1>2, <1>3, <1>4, <1>5, <1>6 DEF AppStep, Drops, Busy, SessionTypeOK
<1>8. QED  BY <1>2, <1>3, <1>7

LEMMA ClearFacts ==
  ASSUME Basics, NEW o \in Op, Clears(o)
  PROVE  /\ op' \in [Op -> OpState]
         /\ op'[o].pc = "clearing" /\ op'[o].token = Nothing /\ op'[o].stale = FALSE
         /\ op'[o].matches = FALSE
         /\ \A p \in Op : p # o => Similar(p) /\ op'[p].pc = op[p].pc
         /\ \A p \in Op : ~Active(p)'
         /\ \A b \in Submitter : ~(op'[b].pc = "storing" /\ ~op'[b].stale)
         /\ Called(o) /\ DiskMove(o)
         /\ o \notin Submitter /\ o \in Op
         /\ UNCHANGED <<screen, status, access, user, carried, backend>>
         /\ "disk" \notin disturbed' => stored' = Nothing
         /\ disturbed \subseteq disturbed' /\ disturbed' \subseteq disturbed \cup {"disk"}
         /\ ended' = ended \cup ({access, LoginOf(stored)} \ {Nothing})
         /\ stored' \in {stored, Nothing}
<1>0. /\ SessionTypeOK /\ Queue /\ op[o] \in OpState /\ op[o].pc \in Pc(o) /\ op[o].for \in Login \cup {Nothing}
      /\ \A p \in Op : op[p] \in OpState
  BY OpType DEF OpState
<1> DEFINE n == BeginNewGeneration(op)
           c == [Idle EXCEPT !.pc = "clearing", !.for = op[o].for]
<1>1. c \in OpState /\ c.pc = "clearing" /\ c.token = Nothing /\ c.stale = FALSE /\ c.matches = FALSE
  BY <1>0 DEF Idle, OpState, Held, RestorerPc, RefresherPc
<1>2. op' = [n EXCEPT ![o] = c] /\ disk' = Append(Resumed(o), o)
  BY DEF Clears, ClearSession
<1>3. /\ n \in [Op -> OpState]
      /\ \A p \in Op : /\ n[p].pc = op[p].pc /\ n[p].token = op[p].token /\ n[p].matches = op[p].matches
                       /\ n[p].attempt = op[p].attempt /\ n[p].for = op[p].for
                       /\ n[p].stale <=> \/ op[p].stale
                                         \/ p \in Run /\ Busy(p)
                                         \/ p \in Submitter /\ op[p].pc = "storing"
  BY <1>0, NewGeneration
<1> HIDE DEF n, c
<1>4. o \notin Submitter
  BY OpFacts DEF Clears, Active
<1>5. op' \in [Op -> OpState] /\ op'[o] = c /\ \A p \in Op : p # o => op'[p] = n[p]
  BY <1>1, <1>2, <1>3
<1>6. \A p \in Op : p # o => Similar(p) /\ op'[p].pc = op[p].pc
  BY <1>3, <1>5, <1>0 DEF Similar, OpState
<1>7. \A p \in Op : ~Active(p)'
  BY <1>1, <1>3, <1>5 DEF Active, Busy
<1>8. \A b \in Submitter : ~(op'[b].pc = "storing" /\ ~op'[b].stale)
  BY <1>3, <1>4, <1>5, OpFacts
<1>9. Called(o) /\ DiskMove(o)
  <2>1. op'[o].pc \in OnDisk
    BY <1>5, <1>1 DEF OnDisk
  <2>2. CASE op[o].pc \in OnDisk
    BY <2>1, <2>2, <1>2 DEF Clears, Called, DiskMove, Resumed
  <2>3. CASE op[o].pc \notin OnDisk
    BY <2>1, <2>3, <1>2, <1>0, NotCalled DEF Called, DiskMove
  <2>4. QED  BY <2>2, <2>3
<1>10. /\ UNCHANGED <<screen, status, access, user, carried, backend>>
       /\ "disk" \notin disturbed' => stored' = Nothing
       /\ disturbed \subseteq disturbed' /\ disturbed' \subseteq disturbed \cup {"disk"}
       /\ ended' = ended \cup ({access, LoginOf(stored)} \ {Nothing})
       /\ stored' \in {stored, Nothing}
  BY DEF Clears, ClearSession
<1>11. QED  BY <1>1, <1>4, <1>5, <1>6, <1>7, <1>8, <1>9, <1>10

LEMMA ClearsInApp == ASSUME Basics, NEW o \in Op, Clears(o) PROVE AppStep(o)
<1>0. /\ SessionTypeOK /\ Queue /\ op[o] \in OpState /\ op[o].pc \in Pc(o)
  BY OpType
<1>1. Busy(o) \/ o \notin Run
  BY OpFacts DEF Clears, Active, Busy
<1>2. "clearing" \in Pc(o)
  BY ClearFacts, OpFacts DEF Pc, RefresherPc, RestorerPc
<1>3. QED  BY <1>0, <1>1, <1>2, ClearFacts DEF AppStep, Carries, backend, SessionTypeOK

\* Operation o alone changes, to r.
Turns(o, r) == op' = [op EXCEPT ![o] = r]

LEMMA Turned ==
  ASSUME Basics, NEW o \in Op, NEW r \in OpState, r.pc \in Pc(o), Turns(o, r)
  PROVE  /\ op' \in [Op -> OpState] /\ op'[o] = r /\ op'[o].pc \in Pc(o)
         /\ \A p \in Op : p # o => op'[p] = op[p]
         /\ \A p \in Op : p # o => Similar(p)
BY OpType, SimilarIfSame DEF Turns

LEMMA SendsFacts ==
  ASSUME Basics, NEW o \in Op, Sends(o)
  PROVE  /\ op' \in [Op -> OpState]
         /\ op'[o].pc = "sent" /\ op'[o].token = op[o].token /\ op'[o].stale = op[o].stale
         /\ \A p \in Op : p # o => op'[p] = op[p]
         /\ Resumable(o) /\ disk' = Tail(disk) /\ AppStep(o)
<1>0. /\ SessionTypeOK /\ Queue /\ op[o] \in OpState /\ op[o].pc \in Pc(o) /\ op \in [Op -> OpState]
  BY OpType
<1> DEFINE r == [op[o] EXCEPT !.pc = "sent"]
<1>1. r \in OpState /\ r.pc = "sent" /\ r.token = op[o].token /\ r.stale = op[o].stale
  BY <1>0 DEF OpState, RestorerPc, RefresherPc
<1>2. r.pc \in Pc(o)
  BY <1>1, OpFacts DEF Sends, Pc, RefresherPc, RestorerPc, Run
<1>3. Turns(o, r)
  BY <1>0 DEF Turns, Sends
<1> HIDE DEF r
<1>4. /\ op' \in [Op -> OpState] /\ op'[o] = r /\ op'[o].pc \in Pc(o)
      /\ \A p \in Op : p # o => op'[p] = op[p]
      /\ \A p \in Op : p # o => Similar(p)
  BY <1>1, <1>2, <1>3, Turned
<1>5. Resumable(o) /\ disk' = Tail(disk)
  BY DEF Sends, Resumed
<1>6. AppStep(o)
  BY <1>0, <1>1, <1>4, <1>5 DEF AppStep, Sends, DiskMove, Carries, Busy, backend, SessionTypeOK, OnDisk
<1>7. QED  BY <1>1, <1>4, <1>5, <1>6

LEMMA FindsNothingFacts ==
  ASSUME Basics, NEW o \in Op, FindsNothing(o)
  PROVE  /\ op' \in [Op -> OpState]
         /\ op'[o].pc = "idle"
         /\ \A p \in Op : p # o => op'[p] = op[p]
         /\ Resumable(o) /\ disk' = Tail(disk) /\ AppStep(o)
<1>0. SessionTypeOK /\ Queue /\ op \in [Op -> OpState] /\ op[o].pc \in Pc(o)
  BY OpType
<1>1. Idle \in OpState /\ Idle.pc = "idle" /\ Idle.token = Nothing /\ Idle.pc \in Pc(o)
  BY <1>0, IdleFacts DEF Pc, RefresherPc, RestorerPc
<1>3. Turns(o, Idle)
  BY DEF Turns, FindsNothing
<1>4. /\ op' \in [Op -> OpState] /\ op'[o] = Idle /\ op'[o].pc \in Pc(o)
      /\ \A p \in Op : p # o => op'[p] = op[p]
      /\ \A p \in Op : p # o => Similar(p)
  BY <1>1, <1>3, Turned
<1>5. Resumable(o) /\ disk' = Tail(disk)
  BY DEF FindsNothing, Resumed
<1>6. AppStep(o)
  BY <1>0, <1>1, <1>4, <1>5 DEF AppStep, FindsNothing, DiskMove, Carries, Busy, backend, SessionTypeOK, OnDisk
<1>7. QED  BY <1>1, <1>4, <1>5, <1>6

LEMMA FailsFacts ==
  ASSUME Basics, NEW o \in Op, Fails(o)
  PROVE  /\ op' \in [Op -> OpState]
         /\ \/ op'[o].pc = "delay" /\ op'[o].token = Nothing /\ op'[o].stale = op[o].stale /\ status' = status
            \/ op'[o].pc = "idle" /\ op'[o].token = Nothing /\ status' = "restoration-error"
         /\ \A p \in Op : p # o => op'[p] = op[p]
         /\ AppStep(o)
<1>0. SessionTypeOK /\ Queue /\ op[o] \in OpState /\ op \in [Op -> OpState] /\ op[o].pc \in Pc(o)
  BY OpType
<1> DEFINE d == [op[o] EXCEPT !.pc = "delay", !.token = Nothing]
<1>1. /\ Idle \in OpState /\ Idle.pc = "idle" /\ Idle.token = Nothing /\ Idle.pc \in Pc(o)
      /\ d \in OpState /\ d.pc = "delay" /\ d.token = Nothing /\ d.stale = op[o].stale
  BY <1>0, IdleFacts DEF Pc, RefresherPc, RestorerPc, OpState, Held
<1>2. d.pc \in Pc(o)
  BY <1>1, OpFacts DEF Fails, Pc, RefresherPc, RestorerPc
<1>3. (Turns(o, d) /\ status' = status) \/ (Turns(o, Idle) /\ status' = "restoration-error")
  BY <1>0 DEF Turns, Fails, RetryLater
<1> HIDE DEF d
<1>4. PICK r \in {d, Idle} : /\ op' \in [Op -> OpState] /\ op'[o] = r /\ op'[o].pc \in Pc(o)
                             /\ \A p \in Op : p # o => op'[p] = op[p]
                             /\ \A p \in Op : p # o => Similar(p)
                             /\ r = d => status' = status
                             /\ r = Idle => status' = "restoration-error"
  BY <1>1, <1>2, <1>3, Turned
<1>5. o \in Run /\ disk' = disk /\ op[o].pc \notin OnDisk /\ op'[o].pc \notin OnDisk
  BY <1>1, <1>4 DEF Fails, OnDisk, Run
<1>6. AppStep(o)
  BY <1>0, <1>1, <1>4, <1>5 DEF AppStep, Fails, RetryLater, DiskMove, Carries, Busy, SessionTypeOK
<1>7. QED  BY <1>1, <1>4, <1>5, <1>6

LEMMA PersistsFacts ==
  ASSUME Basics, NEW o \in Op, Persists(o)
  PROVE  /\ op' \in [Op -> OpState]
         /\ \/ op'[o].pc = "storing" /\ stored' = op[o].token
            \/ op'[o].pc = "storeFailed" /\ stored' = stored /\ "disk" \in disturbed'
         /\ op'[o].token = op[o].token /\ op'[o].stale = op[o].stale
         /\ \A p \in Op : p # o => op'[p] = op[p]
         /\ disk' = Append(disk, o) /\ op[o].pc \notin OnDisk /\ Called(o) /\ AppStep(o)
<1>0. SessionTypeOK /\ Queue /\ op[o] \in OpState /\ op \in [Op -> OpState] /\ op[o].pc \in Pc(o)
  BY OpType
<1> DEFINE s == [op[o] EXCEPT !.pc = "storing"]
           f == [op[o] EXCEPT !.pc = "storeFailed"]
<1>1. /\ s \in OpState /\ s.pc = "storing" /\ s.token = op[o].token /\ s.stale = op[o].stale
      /\ f \in OpState /\ f.pc = "storeFailed" /\ f.token = op[o].token /\ f.stale = op[o].stale
  BY <1>0 DEF RefresherPc, RestorerPc, OpState
<1>2. s.pc \in Pc(o) /\ f.pc \in Pc(o)
  BY <1>1, OpFacts DEF Persists, Run, Pc, RefresherPc, RestorerPc
<1>3. \/ Turns(o, s) /\ stored' = op[o].token
      \/ Turns(o, f) /\ stored' = stored /\ "disk" \in disturbed'
  BY <1>0 DEF Turns, Persists, Persist
<1> HIDE DEF s, f
<1>4. PICK r \in {s, f} : /\ op' \in [Op -> OpState] /\ op'[o] = r /\ op'[o].pc \in Pc(o)
                          /\ \A p \in Op : p # o => op'[p] = op[p]
                          /\ \A p \in Op : p # o => Similar(p)
                          /\ \/ r = s /\ stored' = op[o].token
                             \/ r = f /\ stored' = stored /\ "disk" \in disturbed'
  BY <1>1, <1>2, <1>3, Turned
<1>5. disk' = Append(disk, o) /\ op[o].pc \notin OnDisk /\ op'[o].pc \in OnDisk
  BY <1>1, <1>4 DEF Persists, Persist, OnDisk
<1>6. AppStep(o)
  BY <1>0, <1>1, <1>4, <1>5 DEF AppStep, Persists, Persist, DiskMove, Carries, Busy, backend, SessionTypeOK
<1>7. QED  BY <1>1, <1>4, <1>5, <1>6 DEF Called

LEMMA UndoFacts ==
  ASSUME Basics, NEW o \in Run, Persisted(o), op[o].stale
  PROVE  /\ op' \in [Op -> OpState]
         /\ op'[o].pc = "comparing" /\ op'[o].stale /\ op'[o].token = op[o].token
         /\ op'[o].matches <=> stored = op[o].token
         /\ \A p \in Op : p # o => op'[p] = op[p]
         /\ op[o].pc = "storing" /\ Resumable(o) /\ Called(o)
         /\ disk' = Append(Tail(disk), o) /\ AppStep(o)
         /\ UNCHANGED <<status, screen, access, user, stored, carried, backend, ended, disturbed>>
<1>0. SessionTypeOK /\ Queue /\ op[o] \in OpState /\ op \in [Op -> OpState] /\ op[o].pc \in Pc(o) /\ o \in Op /\ Carries(o)
  BY OpType, OpFacts
<1> DEFINE c == [op[o] EXCEPT !.pc = "comparing", !.matches = stored = op[o].token]
<1>1. /\ c \in OpState /\ c.pc = "comparing" /\ c.token = op[o].token /\ c.stale = op[o].stale
      /\ c.matches <=> stored = op[o].token
  BY <1>0 DEF RefresherPc, RestorerPc, OpState
<1>2. c.pc \in Pc(o)
  BY <1>1, OpFacts DEF Run, Pc, RefresherPc, RestorerPc
<1>3. Turns(o, c) /\ Resumable(o) /\ disk' = Append(Tail(disk), o) /\ op[o].pc = "storing"
  BY <1>0 DEF Turns, Persisted, Undo, Stale, Resumed
<1>4. UNCHANGED <<status, screen, access, user, stored, carried, backend, ended, disturbed>>
  BY DEF Persisted, Undo, Stale
<1> HIDE DEF c
<1>5. /\ op' \in [Op -> OpState] /\ op'[o] = c /\ op'[o].pc \in Pc(o)
      /\ \A p \in Op : p # o => op'[p] = op[p]
      /\ \A p \in Op : p # o => Similar(p)
  BY <1>0, <1>1, <1>2, <1>3, Turned
<1>6. op'[o].pc \in OnDisk
  BY <1>1, <1>5 DEF OnDisk
<1>7. AppStep(o)
  BY <1>0, <1>1, <1>3, <1>4, <1>5, <1>6 DEF AppStep, DiskMove, Carries, Busy, backend, SessionTypeOK
<1>8. QED  BY <1>1, <1>3, <1>4, <1>5, <1>6, <1>7 DEF Called

LEMMA RefreshedFacts ==
  ASSUME Basics, NEW o \in Run, Persisted(o), ~op[o].stale
  PROVE  /\ op' \in [Op -> OpState]
         /\ IF o \in Refresher
            THEN /\ op'[o].pc = "idle"
                 /\ \A p \in Op : p # o => Similar(p) /\ op'[p].stale = op[p].stale
                                           /\ \/ op'[p].pc = op[p].pc
                                              \/ (op[p].pc = "meWaits" /\ op'[p].pc = "meAgain")
            ELSE /\ op'[o].pc = "me" /\ op'[o].token = Nothing /\ ~op'[o].stale
                 /\ \A p \in Op : p # o => op'[p] = op[p]
         /\ op[o].pc = "storing" /\ Resumable(o) /\ disk' = Tail(disk) /\ AppStep(o)
         /\ access' = LoginOf(op[o].token)
         /\ UNCHANGED <<status, screen, user, stored, carried, backend, ended, disturbed>>
<1>0. /\ SessionTypeOK /\ Queue /\ op[o] \in OpState /\ op \in [Op -> OpState] /\ op[o].pc \in Pc(o) /\ o \in Op
      /\ \A p \in Op : op[p] \in OpState
  BY OpType, OpFacts
<1>1. /\ Resumable(o) /\ disk' = Tail(disk) /\ op[o].pc = "storing"
      /\ access' = LoginOf(op[o].token)
      /\ UNCHANGED <<status, screen, user, stored, carried, backend, ended, disturbed>>
  BY DEF Persisted, Refreshed, Stale, Resumed
<1>2. CASE o \in Refresher
  <2>1. op' = Ended(o, TRUE)
    BY <1>2 DEF Persisted, Refreshed, Stale
  <2>2. /\ op' \in [Op -> OpState] /\ op'[o] = Idle
        /\ \A p \in Op : p # o =>
              /\ op'[p].token = op[p].token /\ op'[p].matches = op[p].matches
              /\ op'[p].attempt = op[p].attempt /\ op'[p].for = op[p].for
              /\ op'[p].stale = op[p].stale
              /\ op'[p].pc = IF o \in Refresher /\ op[p].pc = "meWaits"
                             THEN IF TRUE THEN "meAgain" ELSE "meFailed"
                             ELSE op[p].pc
    BY ONLY <1>0, <2>1, Ending
  <2>3. \A p \in Op : op[p].stale \in BOOLEAN
    BY <1>0 DEF OpState
  <2>4. \A p \in Op : p # o => /\ Similar(p) /\ op'[p].stale = op[p].stale
                               /\ \/ op'[p].pc = op[p].pc
                                  \/ (op[p].pc = "meWaits" /\ op'[p].pc = "meAgain")
    BY ONLY <2>2, <2>3 DEF Similar
  <2>5. op'[o].pc = "idle" /\ op'[o].token = Nothing /\ op'[o].pc \in Pc(o) /\ op'[o].pc \notin OnDisk
    BY <1>0, <2>2, IdleFacts DEF Pc, RefresherPc, RestorerPc, OnDisk
  <2>6. AppStep(o)
    BY <1>0, <1>1, <2>2, <2>4, <2>5 DEF AppStep, DiskMove, Carries, Busy, backend, SessionTypeOK
  <2>7. QED  BY <1>1, <1>2, <2>2, <2>4, <2>5, <2>6
<1>3. CASE o \notin Refresher
  <2> DEFINE m == [op[o] EXCEPT !.pc = "me", !.token = Nothing]
  <2>1. m \in OpState /\ m.pc = "me" /\ m.token = Nothing /\ m.stale = op[o].stale
    BY <1>0 DEF RefresherPc, RestorerPc, OpState, Held
  <2>2. m.pc \in Pc(o)
    BY <2>1, <1>3, OpFacts DEF Run, Pc, RefresherPc, RestorerPc
  <2>3. Turns(o, m)
    BY <1>3 DEF Turns, Persisted, Refreshed, Stale
  <2> HIDE DEF m
  <2>4. /\ op' \in [Op -> OpState] /\ op'[o] = m /\ op'[o].pc \in Pc(o)
        /\ \A p \in Op : p # o => op'[p] = op[p]
        /\ \A p \in Op : p # o => Similar(p)
    BY <1>0, <2>1, <2>2, <2>3, Turned
  <2>5. op'[o].pc \notin OnDisk
    BY <2>1, <2>4 DEF OnDisk
  <2>6. AppStep(o)
    BY <1>0, <1>1, <2>1, <2>4, <2>5 DEF AppStep, DiskMove, Carries, Busy, backend, SessionTypeOK
  <2>7. QED  BY <1>1, <1>3, <2>1, <2>4, <2>6
<1>4. QED  BY <1>2, <1>3

LEMMA DeletesFacts ==
  ASSUME Basics, NEW o \in Op, Deletes(o)
  PROVE  /\ op' \in [Op -> OpState]
         /\ op'[o].pc = "deleting" /\ op'[o].stale = op[o].stale /\ op'[o].token = op[o].token
         /\ \A p \in Op : p # o => op'[p] = op[p]
         /\ Resumable(o) /\ disk' = Append(Tail(disk), o) /\ Called(o) /\ AppStep(o)
<1>0. SessionTypeOK /\ Queue /\ op[o] \in OpState /\ op \in [Op -> OpState] /\ op[o].pc \in Pc(o) /\ Carries(o)
  BY OpType
<1> DEFINE d == [op[o] EXCEPT !.pc = "deleting"]
<1>1. d \in OpState /\ d.pc = "deleting" /\ d.token = op[o].token /\ d.stale = op[o].stale
  BY <1>0 DEF RefresherPc, RestorerPc, OpState
<1>2. d.pc \in Pc(o)
  BY <1>1, OpFacts DEF Deletes, Run, Pc, RefresherPc, RestorerPc
<1>3. Turns(o, d) /\ Resumable(o) /\ disk' = Append(Tail(disk), o)
  BY <1>0 DEF Turns, Deletes, Resumed
<1> HIDE DEF d
<1>5. /\ op' \in [Op -> OpState] /\ op'[o] = d /\ op'[o].pc \in Pc(o)
      /\ \A p \in Op : p # o => op'[p] = op[p]
      /\ \A p \in Op : p # o => Similar(p)
  BY <1>0, <1>1, <1>2, <1>3, Turned
<1>6. op'[o].pc \in OnDisk
  BY <1>1, <1>5 DEF OnDisk
<1>7. AppStep(o)
  BY <1>0, <1>1, <1>3, <1>5, <1>6 DEF AppStep, Deletes, DiskMove, Carries, Busy, backend, SessionTypeOK
<1>8. QED  BY <1>1, <1>3, <1>5, <1>6, <1>7 DEF Called

\* A run of the 401 handler, or of performRestore, begins to read the token.
LEMMA BeginsFacts ==
  ASSUME Basics, NEW o \in Run, NEW a \in {1, 2}, Begin(o, a),
         op[o].pc \notin OnDisk,
         \/ Busy(o)
         \/ o \in Refresher /\ NoneInFlight(Refresher)
         \/ o \in Restorer /\ NoneInFlight(Restorer),
         status' \in {status, "restoring"},
         UNCHANGED <<screen, access, user, stored, carried, backend, ended, disturbed>>
  PROVE  /\ op' \in [Op -> OpState]
         /\ op'[o].pc = "reading" /\ ~op'[o].stale /\ op'[o].token = stored
         /\ \A p \in Op : p # o => op'[p] = op[p]
         /\ disk' = Append(disk, o) /\ Called(o) /\ AppStep(o)
<1>0. SessionTypeOK /\ Queue /\ op[o] \in OpState /\ op \in [Op -> OpState] /\ op[o].pc \in Pc(o) /\ o \in Op
  BY OpType, OpFacts
<1>1. /\ Begun(a) \in OpState /\ Begun(a).pc = "reading" /\ Begun(a).token = stored
      /\ Begun(a).stale = FALSE
  BY <1>0, IdleFacts
<1>2. Begun(a).pc \in Pc(o)
  BY <1>1, OpFacts DEF Run, Pc, RefresherPc, RestorerPc
<1>3. Turns(o, Begun(a)) /\ disk' = Append(disk, o)
  BY DEF Turns, Begin
<1>5. /\ op' \in [Op -> OpState] /\ op'[o] = Begun(a) /\ op'[o].pc \in Pc(o)
      /\ \A p \in Op : p # o => op'[p] = op[p]
      /\ \A p \in Op : p # o => Similar(p)
  BY <1>0, <1>1, <1>2, <1>3, Turned
<1>6. op'[o].pc \in OnDisk
  BY <1>1, <1>5 DEF OnDisk
<1>7. AppStep(o)
  BY <1>0, <1>1, <1>3, <1>5, <1>6 DEF AppStep, DiskMove, Carries, backend, SessionTypeOK
<1>8. QED  BY <1>1, <1>3, <1>5, <1>6, <1>7 DEF Called

LEMMA SucceedsFacts ==
  ASSUME Basics, NEW o \in Op, Succeeds(o)
  PROVE  /\ op' \in [Op -> OpState]
         /\ op'[o].pc = "idle"
         /\ \A p \in Op : p # o => op'[p] = op[p]
         /\ disk' = disk /\ AppStep(o)
<1>0. SessionTypeOK /\ Queue /\ op \in [Op -> OpState]
  BY OpType
<1>1. Idle \in OpState /\ Idle.pc = "idle" /\ Idle.token = Nothing /\ Idle.pc \in Pc(o)
  BY <1>0, IdleFacts DEF Pc, RefresherPc, RestorerPc
<1>3. Turns(o, Idle)
  BY DEF Turns, Succeeds
<1>4. /\ op' \in [Op -> OpState] /\ op'[o] = Idle /\ op'[o].pc \in Pc(o)
      /\ \A p \in Op : p # o => op'[p] = op[p]
      /\ \A p \in Op : p # o => Similar(p)
  BY <1>1, <1>3, Turned
<1>5. op'[o].pc \notin OnDisk /\ op[o].pc \notin OnDisk
  BY <1>1, <1>4 DEF OnDisk, Succeeds
<1>6. AppStep(o)
  BY <1>0, <1>1, <1>4, <1>5 DEF AppStep, Succeeds, DiskMove, Carries, Busy, backend, SessionTypeOK
<1>7. QED  BY <1>1, <1>4, <1>6 DEF Succeeds

\* GET /auth/me is refused, and waits for a refresh that is under way ...
Waits401(o) ==
    /\ op' = [op EXCEPT ![o].pc = "meWaits"]
    /\ UNCHANGED disk

\* ... or starts.
Starts401(o, r) ==
    /\ r \in Refresher /\ NoneInFlight(Refresher)
    /\ op' = [op EXCEPT ![o].pc = "meWaits", ![r] = Begun(1)]
    /\ disk' = Append(disk, r)

LEMMA Waits401Facts ==
  ASSUME Basics, NEW o \in Restorer, MeUnauthorized(o), Waits401(o)
  PROVE  /\ op' \in [Op -> OpState]
         /\ op[o].pc = "me" /\ op'[o].pc = "meWaits" /\ op'[o].token = op[o].token /\ op'[o].stale = op[o].stale
         /\ \A p \in Op : p # o => op'[p] = op[p]
         /\ disk' = disk /\ AppStep(o)
         /\ UNCHANGED <<status, screen, access, user, stored, carried, backend, ended, disturbed>>
<1>0. SessionTypeOK /\ Queue /\ op[o] \in OpState /\ op \in [Op -> OpState] /\ o \in Op /\ op[o].pc = "me"
  BY OpType, OpFacts DEF Run, MeUnauthorized
<1> DEFINE w == [op[o] EXCEPT !.pc = "meWaits"]
<1>1. w \in OpState /\ w.pc = "meWaits" /\ w.token = op[o].token /\ w.stale = op[o].stale
  BY <1>0 DEF RefresherPc, RestorerPc, OpState
<1>2. w.pc \in Pc(o)
  BY <1>1, OpFacts DEF Run, Pc, RefresherPc, RestorerPc
<1>3. Turns(o, w)
  BY DEF Turns, Waits401
<1> HIDE DEF w
<1>4. /\ op' \in [Op -> OpState] /\ op'[o] = w /\ op'[o].pc \in Pc(o)
      /\ \A p \in Op : p # o => op'[p] = op[p]
      /\ \A p \in Op : p # o => Similar(p)
  BY <1>0, <1>1, <1>2, <1>3, Turned
<1>5. op'[o].pc \notin OnDisk /\ op[o].pc \notin OnDisk /\ disk' = disk
  BY <1>0, <1>1, <1>4 DEF OnDisk, Waits401
<1>6. UNCHANGED <<status, screen, access, user, stored, carried, backend, ended, disturbed>>
  BY DEF MeUnauthorized
<1>7. AppStep(o)
  BY <1>0, <1>1, <1>4, <1>5, <1>6 DEF AppStep, DiskMove, Carries, Busy, backend, SessionTypeOK
<1>8. QED  BY <1>0, <1>1, <1>4, <1>5, <1>6, <1>7

LEMMA Starts401Facts ==
  ASSUME Basics, NEW o \in Restorer, NEW r \in Refresher, MeUnauthorized(o), Starts401(o, r)
  PROVE  /\ op' \in [Op -> OpState] /\ r # o
         /\ op[o].pc = "me" /\ op'[o].pc = "meWaits" /\ op'[o].stale = op[o].stale
         /\ op'[o].token = op[o].token
         /\ op[r].pc = "idle" /\ NoneInFlight(Refresher)
         /\ op'[r].pc = "reading" /\ ~op'[r].stale /\ op'[r].token = stored
         /\ \A p \in Op : p # o /\ p # r => op'[p] = op[p]
         /\ \A p \in Op : p # r => Similar(p)
         /\ disk' = Append(disk, r) /\ Called(r) /\ AppStep(r)
         /\ UNCHANGED <<status, screen, access, user, stored, carried, backend, ended, disturbed>>
<1>0. /\ SessionTypeOK /\ Queue /\ op[o] \in OpState /\ op \in [Op -> OpState] /\ o \in Op /\ op[o].pc = "me"
      /\ r \in Op /\ r # o /\ op[r].pc = "idle" /\ NoneInFlight(Refresher) /\ r \in Run
      /\ \A p \in Op : op[p] \in OpState
  BY OpType, OpFacts DEF Run, MeUnauthorized, Starts401, NoneInFlight
<1> DEFINE w == [op[o] EXCEPT !.pc = "meWaits"]
<1>1. /\ w \in OpState /\ w.pc = "meWaits" /\ w.token = op[o].token /\ w.stale = op[o].stale
      /\ w.matches = op[o].matches /\ w.attempt = op[o].attempt /\ w.for = op[o].for
  BY <1>0 DEF RefresherPc, RestorerPc, OpState
<1>2. /\ Begun(1) \in OpState /\ Begun(1).pc = "reading" /\ Begun(1).token = stored
      /\ Begun(1).stale = FALSE
  BY <1>0, IdleFacts
<1>3. op' = [op EXCEPT ![o] = w, ![r] = Begun(1)] /\ disk' = Append(disk, r)
  BY DEF Starts401
<1> HIDE DEF w
<1>4. /\ op' \in [Op -> OpState] /\ op'[o] = w /\ op'[r] = Begun(1)
      /\ \A p \in Op : p # o /\ p # r => op'[p] = op[p]
  BY <1>0, <1>1, <1>2, <1>3
<1>5. \A p \in Op : p # r => Similar(p)
  BY <1>0, <1>1, <1>4, SimilarIfSame DEF Similar, OpState
<1>6. /\ op'[r].pc \in OnDisk /\ op[r].pc \notin OnDisk /\ op'[r].pc \in Pc(r)
  BY <1>0, <1>2, <1>4 DEF OnDisk, Pc, RefresherPc
<1>7. UNCHANGED <<status, screen, access, user, stored, carried, backend, ended, disturbed>>
  BY DEF MeUnauthorized
<1>8. AppStep(r)
  BY <1>0, <1>2, <1>3, <1>4, <1>5, <1>6, <1>7 DEF AppStep, DiskMove, Carries, backend, SessionTypeOK
<1>9. QED  BY <1>0, <1>1, <1>2, <1>3, <1>4, <1>5, <1>6, <1>7, <1>8 DEF Called

LEMMA ClearedFacts ==
  ASSUME Basics, NEW o \in Op, SessionCleared(o)
  PROVE  /\ op' \in [Op -> OpState]
         /\ op'[o].pc = "idle" /\ op'[o].token = Nothing /\ op[o].pc = "clearing"
         /\ \A p \in Op : p # o => /\ Similar(p) /\ op'[p].stale = op[p].stale
                                   /\ \/ op'[p].pc = op[p].pc
                                      \/ (o \in Refresher /\ op[p].pc = "meWaits" /\ op'[p].pc = "meFailed")
         /\ Resumable(o) /\ disk' = Tail(disk) /\ AppStep(o)
         /\ access' = Nothing /\ user' = Nothing /\ status' = "unauthenticated"
         /\ UNCHANGED <<screen, stored, carried, backend, ended, disturbed>>
<1>0. /\ SessionTypeOK /\ Queue /\ op[o] \in OpState /\ op \in [Op -> OpState]
      /\ \A p \in Op : op[p] \in OpState
  BY OpType
<1>1. /\ op' = Ended(o, FALSE) /\ Resumable(o) /\ disk' = Tail(disk) /\ op[o].pc = "clearing"
      /\ access' = Nothing /\ user' = Nothing /\ status' = "unauthenticated"
      /\ UNCHANGED <<screen, stored, carried, backend, ended, disturbed>>
  BY DEF SessionCleared, Resumed
<1>2. /\ op' \in [Op -> OpState] /\ op'[o] = Idle
      /\ \A p \in Op : p # o =>
            /\ op'[p].token = op[p].token /\ op'[p].matches = op[p].matches
            /\ op'[p].attempt = op[p].attempt /\ op'[p].for = op[p].for
            /\ op'[p].stale = op[p].stale
            /\ op'[p].pc = IF o \in Refresher /\ op[p].pc = "meWaits"
                           THEN IF FALSE THEN "meAgain" ELSE "meFailed"
                           ELSE op[p].pc
  BY ONLY <1>0, <1>1, Ending
<1>3. \A p \in Op : op[p].stale \in BOOLEAN
  BY <1>0 DEF OpState
<1>4. \A p \in Op : p # o => /\ Similar(p) /\ op'[p].stale = op[p].stale
                             /\ \/ op'[p].pc = op[p].pc
                                \/ (o \in Refresher /\ op[p].pc = "meWaits" /\ op'[p].pc = "meFailed")
  BY ONLY <1>2, <1>3 DEF Similar
<1>5. op'[o].pc = "idle" /\ op'[o].token = Nothing /\ op'[o].pc \in Pc(o) /\ op'[o].pc \notin OnDisk
  BY <1>0, <1>2, IdleFacts DEF Pc, RefresherPc, RestorerPc, OnDisk
<1>6. AppStep(o)
  BY <1>0, <1>1, <1>2, <1>4, <1>5 DEF AppStep, DiskMove, Carries, Busy, backend, SessionTypeOK
<1>7. QED  BY <1>1, <1>2, <1>4, <1>5, <1>6

LEMMA SubmitFacts ==
  ASSUME Basics, NEW b \in Submitter, SubmitLogin(b)
  PROVE  /\ op' \in [Op -> OpState]
         /\ op'[b].pc = "asking" /\ op[b].pc = "idle"
         /\ \A p \in Op : p # b => op'[p] = op[p]
         /\ disk' = disk /\ AppStep(b)
         /\ screen = "unauthenticated"
         /\ UNCHANGED <<status, screen, access, user, stored, carried, backend, ended, disturbed>>
<1>0. /\ b \in Op /\ SessionTypeOK /\ Queue /\ op[b] \in OpState /\ op \in [Op -> OpState]
      /\ b \notin Run /\ b \notin Refresher /\ b \notin Restorer
  BY OpType, OpFacts DEF Run
<1> DEFINE w == [op[b] EXCEPT !.pc = "asking"]
<1>1. w \in OpState /\ w.pc = "asking" /\ w.token = op[b].token
  BY <1>0 DEF RefresherPc, RestorerPc, OpState
<1>2. w.pc \in Pc(b)
  BY <1>0, <1>1 DEF Pc
<1>3. Turns(b, w)
  BY DEF Turns, SubmitLogin
<1> HIDE DEF w
<1>4. /\ op' \in [Op -> OpState] /\ op'[b] = w /\ op'[b].pc \in Pc(b)
      /\ \A p \in Op : p # b => op'[p] = op[p]
      /\ \A p \in Op : p # b => Similar(p)
  BY <1>0, <1>1, <1>2, <1>3, Turned
<1>5. op'[b].pc \notin OnDisk /\ op[b].pc \notin OnDisk /\ disk' = disk
  BY <1>0, <1>1, <1>4 DEF OnDisk, SubmitLogin
<1>6. /\ screen = "unauthenticated" /\ op[b].pc = "idle"
      /\ UNCHANGED <<status, screen, access, user, stored, carried, backend, ended, disturbed>>
  BY DEF SubmitLogin
<1>7. AppStep(b)
  BY <1>0, <1>1, <1>4, <1>5, <1>6 DEF AppStep, DiskMove, Carries, backend, SessionTypeOK
<1>8. QED  BY <1>1, <1>4, <1>5, <1>6, <1>7

LEMMA LoginEndsFacts ==
  ASSUME Basics, NEW b \in Submitter, LoginFails(b) \/ LoginStored(b)
  PROVE  /\ op' \in [Op -> OpState]
         /\ op'[b].pc = "idle"
         /\ \A p \in Op : p # b => op'[p] = op[p]
         /\ \/ LoginFails(b) /\ op[b].pc = "asking" /\ disk' = disk
               /\ UNCHANGED <<status, screen, access, user, stored, carried, backend, ended, disturbed>>
            \/ LoginStored(b) /\ Resumable(b) /\ disk' = Tail(disk)
               /\ UNCHANGED <<screen, stored, backend, ended, disturbed>>
         /\ AppStep(b)
<1>0. /\ b \in Op /\ SessionTypeOK /\ Queue /\ op[b] \in OpState /\ op \in [Op -> OpState]
      /\ b \notin Run /\ b \notin Refresher /\ b \notin Restorer
  BY OpType, OpFacts DEF Run
<1>1. Idle \in OpState /\ Idle.pc = "idle" /\ Idle.token = Nothing /\ Idle.pc \in Pc(b)
  BY <1>0, IdleFacts DEF Pc
<1>2. Turns(b, Idle)
  BY DEF Turns, LoginFails, LoginStored
<1>3. /\ op' \in [Op -> OpState] /\ op'[b] = Idle /\ op'[b].pc \in Pc(b)
      /\ \A p \in Op : p # b => op'[p] = op[p]
      /\ \A p \in Op : p # b => Similar(p)
  BY <1>0, <1>1, <1>2, Turned
<1>4. op'[b].pc \notin OnDisk
  BY <1>1, <1>3 DEF OnDisk
<1>5. CASE LoginFails(b)
  <2>1. /\ disk' = disk /\ op[b].pc = "asking"
        /\ UNCHANGED <<status, screen, access, user, stored, carried, backend, ended, disturbed>>
    BY <1>5 DEF LoginFails
  <2>2. op[b].pc \notin OnDisk
    BY <2>1 DEF OnDisk
  <2>3. AppStep(b)
    BY <1>0, <1>1, <1>3, <1>4, <2>1, <2>2 DEF AppStep, DiskMove, Carries, backend, SessionTypeOK
  <2>4. QED  BY <1>1, <1>3, <1>5, <2>1, <2>3
<1>6. CASE LoginStored(b)
  <2>1. /\ Resumable(b) /\ disk' = Tail(disk)
        /\ UNCHANGED <<screen, stored, backend, ended, disturbed>>
        /\ access' \in {access, LoginOf(op[b].token)}
        /\ user' \in {user, LoginOf(op[b].token)}
        /\ status' \in {status, "authenticated"} /\ carried' \in {carried, TRUE}
    BY <1>6 DEF LoginStored, Resumed
  <2>3. AppStep(b)
    BY <1>0, <1>1, <1>3, <1>4, <2>1 DEF AppStep, DiskMove, Carries, backend, SessionTypeOK
  <2>4. QED  BY <1>1, <1>3, <1>6, <2>1, <2>3
<1>7. QED  BY <1>5, <1>6

LEMMA UnregisteredFacts ==
  ASSUME Basics, NEW v \in Leaver, Unregistered(v)
  PROVE  /\ op' \in [Op -> OpState]
         /\ op[v].pc = "unregistering"
         /\ op'[v].pc = "reading" /\ op'[v].token = stored
         /\ \A p \in Op : p # v => op'[p] = op[p]
         /\ disk' = Append(disk, v) /\ Called(v) /\ AppStep(v)
<1>0. /\ v \in Op /\ SessionTypeOK /\ Queue /\ op[v] \in OpState /\ op \in [Op -> OpState]
      /\ v \notin Run /\ v \notin Refresher /\ v \notin Restorer /\ v \notin Submitter
  BY OpType, OpFacts DEF Run
<1> DEFINE w == [op[v] EXCEPT !.pc = "reading", !.token = stored]
<1>1. w \in OpState /\ w.pc = "reading" /\ w.token = stored
  BY <1>0 DEF RefresherPc, RestorerPc, OpState, SessionTypeOK
<1>2. w.pc \in Pc(v)
  BY <1>0, <1>1 DEF Pc
<1>3. Turns(v, w) /\ disk' = Append(disk, v) /\ op[v].pc = "unregistering"
  BY <1>0 DEF Turns, Unregistered
<1> HIDE DEF w
<1>4. /\ op' \in [Op -> OpState] /\ op'[v] = w /\ op'[v].pc \in Pc(v)
      /\ \A p \in Op : p # v => op'[p] = op[p]
      /\ \A p \in Op : p # v => Similar(p)
  BY <1>0, <1>1, <1>2, <1>3, Turned
<1>5. op'[v].pc \in OnDisk /\ op[v].pc \notin OnDisk
  BY <1>1, <1>3, <1>4 DEF OnDisk
<1>7. AppStep(v)
  BY <1>0, <1>1, <1>3, <1>4, <1>5 DEF AppStep, Unregistered, DiskMove, Carries, backend, SessionTypeOK
<1>8. QED  BY <1>1, <1>3, <1>4, <1>5, <1>7 DEF Called

LEMMA TapLogoutFacts ==
  ASSUME Basics, NEW v \in Leaver, TapLogout(v)
  PROVE  /\ op' \in [Op -> OpState]
         /\ op[v].pc = "idle"
         /\ op'[v].pc = "unregistering" /\ op'[v].token = Nothing
         /\ \A p \in Op : p # v =>
               /\ Similar(p) /\ op'[p].pc = op[p].pc
               /\ op'[p].stale <=> \/ op[p].stale
                                   \/ p \in Run /\ Busy(p)
                                   \/ p \in Submitter /\ op[p].pc = "storing"
         /\ \A p \in Op : ~Active(p)'
         /\ disk' = disk /\ AppStep(v)
<1>0. /\ v \in Op /\ SessionTypeOK /\ Queue /\ op[v] \in OpState /\ op \in [Op -> OpState]
      /\ v \notin Run /\ v \notin Refresher /\ v \notin Restorer /\ v \notin Submitter
      /\ \A p \in Op : op[p] \in OpState
      /\ access \in Login \cup {Nothing}
  BY OpType, OpFacts DEF Run, SessionTypeOK
<1> DEFINE n == BeginNewGeneration(op)
           w == [Idle EXCEPT !.pc = "unregistering", !.for = access]
<1>1. w \in OpState /\ w.pc = "unregistering" /\ w.token = Nothing
  BY <1>0 DEF Idle, RefresherPc, RestorerPc, OpState, Held
<1>2. w.pc \in Pc(v)
  BY <1>0, <1>1 DEF Pc
<1>3. op' = [n EXCEPT ![v] = w] /\ disk' = disk /\ op[v].pc = "idle"
  BY <1>0 DEF TapLogout
<1>4. /\ n \in [Op -> OpState]
      /\ \A p \in Op : /\ n[p].pc = op[p].pc /\ n[p].token = op[p].token /\ n[p].matches = op[p].matches
                       /\ n[p].attempt = op[p].attempt /\ n[p].for = op[p].for
                       /\ n[p].stale <=> \/ op[p].stale
                                         \/ p \in Run /\ Busy(p)
                                         \/ p \in Submitter /\ op[p].pc = "storing"
  BY <1>0, NewGeneration
<1> HIDE DEF w, n
<1>5. op' \in [Op -> OpState] /\ op'[v] = w /\ \A p \in Op : p # v => op'[p] = n[p]
  BY <1>0, <1>1, <1>3, <1>4
<1>6. \A p \in Op : p # v =>
               /\ Similar(p) /\ op'[p].pc = op[p].pc
               /\ op'[p].stale <=> \/ op[p].stale
                                   \/ p \in Run /\ Busy(p)
                                   \/ p \in Submitter /\ op[p].pc = "storing"
  BY <1>0, <1>4, <1>5 DEF Similar, OpState
<1>7. \A p \in Op : ~Active(p)'
  BY <1>0, <1>6 DEF Active, Busy
<1>8. op'[v].pc \notin OnDisk /\ op[v].pc \notin OnDisk
  BY <1>1, <1>3, <1>5 DEF OnDisk
<1>9. AppStep(v)
  <2>1. \A p \in Op : p # v => Similar(p)
    BY <1>6
  <2>2. Carries(v)'
    BY <1>1, <1>5 DEF Carries
  <2>3. QED  BY <1>0, <1>1, <1>2, <1>3, <1>5, <2>1, <2>2, <1>8 DEF AppStep, TapLogout, DiskMove, backend, SessionTypeOK
<1>10. QED  BY <1>1, <1>3, <1>5, <1>6, <1>7, <1>9

-----------------------------------------------------------------------------
\* The steps of the backend.

LEMMA Rotating ==
  ASSUME SessionTypeOK, Genuine, NEW t \in Issued, Rotate(t)
  PROVE  /\ issued' \in [Login -> Nat] /\ Issued \subseteq Issued' /\ Issued' \subseteq Tokens
         /\ \A k \in Login : issued[k] > 0 => issued'[k] > 0
         /\ live' \subseteq Issued' /\ revoked \subseteq revoked' /\ revoked' \subseteq Issued'
         /\ live' \cap revoked' = {}
         /\ reused' \in {reused, reused \cup {t}}
         /\ RotationOf(t) # Nothing => /\ RotationOf(t) \in Issued' /\ RotationOf(t) \notin Issued
                                       /\ LoginOf(RotationOf(t)) = LoginOf(t)
         /\ reused' = {} => revoked' \subseteq revoked \cup {t} /\ t \notin revoked
         /\ t \in revoked => reused' = reused \cup {t}
<1>0. /\ issued \in [Login -> Nat] /\ live \subseteq Issued /\ revoked \subseteq Issued
      /\ live \cap revoked = {} /\ Issued \subseteq Tokens
  BY IssuedMeans DEF SessionTypeOK, Genuine
<1>1. t \in Tokens /\ t[1] \in Login /\ LoginOf(t) = t[1]
  BY <1>0, TokenFacts
<1> DEFINE f == <<t[1], issued[t[1]]>>
<1>2. CASE t \in live
  <2>1. /\ live' = (live \ {t}) \cup {RotationOf(t)}
        /\ revoked' = revoked \cup {t}
        /\ issued' = [issued EXCEPT ![t[1]] = @ + 1]
        /\ reused' = reused
    BY <1>0, <1>2 DEF Rotate, Expired
  <2>2. /\ issued' \in [Login -> Nat]
        /\ \A k \in Login : issued[k] > 0 => issued'[k] > 0
        /\ f \notin Issued
        /\ Issued' = Issued \cup {f}
        /\ f \in Tokens /\ LoginOf(f) = t[1]
    BY <1>0, <1>1, <2>1, Minting
  <2>3. RotationOf(t) = f
    BY <1>2 DEF RotationOf
  <2>4. QED  BY <1>0, <1>1, <1>2, <2>1, <2>2, <2>3
<1>3. CASE t \in revoked
  <2>1. live' = {} /\ revoked' = Issued /\ reused' = reused \cup {t} /\ issued' = issued
    BY <1>0, <1>3 DEF Rotate, Expired
  <2>2. RotationOf(t) = Nothing /\ Issued' = Issued
    BY <1>0, <1>3, <2>1 DEF RotationOf, Issued
  <2>3. QED  BY <1>0, <2>1, <2>2
<1>4. CASE t \notin live /\ t \notin revoked
  <2>1. live' = live /\ revoked' = revoked /\ reused' = reused /\ issued' = issued
    BY <1>4 DEF Rotate, Expired
  <2>2. RotationOf(t) = Nothing /\ Issued' = Issued
    BY <1>4, <2>1 DEF RotationOf, Issued
  <2>3. QED  BY <1>0, <1>4, <2>1, <2>2
<1>5. QED  BY <1>2, <1>3, <1>4

LEMMA HeldGenuine ==
  ASSUME Basics, NEW o \in Op, op[o].token # Nothing
  PROVE  op[o].token \in Issued
BY DEF Basics, Genuine

LEMMA PresentFacts ==
  ASSUME Basics, NEW o \in Run, Present(o)
  PROVE  /\ op' \in [Op -> OpState]
         /\ op[o].pc = "sent" /\ op[o].token \in Issued /\ Rotate(op[o].token)
         /\ op'[o].pc = "answered" /\ op'[o].stale = op[o].stale
         /\ op'[o].token = RotationOf(op[o].token)
         /\ \A p \in Op : p # o => op'[p] = op[p]
         /\ UNCHANGED <<status, screen, access, user, stored, disk, carried, late, ended, disturbed>>
         /\ Basics'
<1>0. /\ SessionTypeOK /\ Queue /\ OneEach /\ Genuine /\ Unique /\ \A p \in Op : Carries(p) /\ op[p] \in OpState
      /\ op[o] \in OpState /\ op \in [Op -> OpState] /\ o \in Op
  BY OpType, OpFacts DEF Basics
<1> DEFINE t == op[o].token
           u == RotationOf(t)
<1>1. op[o].pc = "sent" /\ Rotate(t) /\ t \in Issued
  BY <1>0, HeldGenuine DEF Present, Carries
<1>2. /\ issued' \in [Login -> Nat] /\ Issued \subseteq Issued' /\ Issued' \subseteq Tokens
      /\ \A k \in Login : issued[k] > 0 => issued'[k] > 0
      /\ live' \subseteq Issued' /\ revoked \subseteq revoked' /\ revoked' \subseteq Issued'
      /\ live' \cap revoked' = {}
      /\ reused' \in {reused, reused \cup {t}}
      /\ u # Nothing => u \in Issued' /\ u \notin Issued
  BY <1>0, <1>1, Rotating
<1>3. u \in Held
  BY <1>2 DEF Held
<1> DEFINE a == [op[o] EXCEPT !.pc = "answered", !.token = u]
<1>4. a \in OpState /\ a.pc = "answered" /\ a.token = u /\ a.stale = op[o].stale
  BY <1>0, <1>3 DEF OpState, RestorerPc, RefresherPc
<1>5. a.pc \in Pc(o)
  BY <1>4, OpFacts DEF Run, Pc, RefresherPc, RestorerPc
<1>6. Turns(o, a)
  BY <1>0 DEF Turns, Present
<1>7. UNCHANGED <<status, screen, access, user, stored, disk, carried, late, ended, disturbed>>
  BY DEF Present
<1> HIDE DEF a, u, t
<1>8. /\ op' \in [Op -> OpState] /\ op'[o] = a /\ op'[o].pc \in Pc(o)
      /\ \A p \in Op : p # o => op'[p] = op[p]
      /\ \A p \in Op : p # o => Similar(p)
  BY <1>0, <1>4, <1>5, <1>6, Turned
<1>9. SessionOps'
  BY <1>0, <1>8, Typed
<1>10. DiskMove(o)
  BY <1>1, <1>4, <1>7, <1>8 DEF DiskMove, OnDisk
<1>11. Queue' /\ disk' \in Seq(Op)
  BY <1>0, <1>8, <1>10, Queueing
<1>12. OneEach'
  BY <1>0, <1>1, <1>8, OneAtATime DEF Busy
<1>13. \A p \in Op : Carries(p)'
  BY <1>0, <1>4, <1>8 DEF Carries
<1>14. Genuine'
  <2>1. \A p \in Op : op'[p].token \in Issued' \cup {Nothing}
    BY <1>0, <1>2, <1>4, <1>8 DEF Genuine
  <2>2. stored' \in Issued' \cup {Nothing} /\ late' \subseteq Issued'
    BY <1>0, <1>2, <1>7 DEF Genuine
  <2>3. ended' \subseteq {l \in Login : issued'[l] > 0}
    BY <1>0, <1>2, <1>7 DEF Genuine
  <2>4. access' # Nothing => issued'[access'] > 0
    BY <1>0, <1>2, <1>7 DEF Genuine, SessionTypeOK
  <2>5. QED  BY <2>1, <2>2, <2>3, <2>4, <1>2 DEF Genuine
<1>15. Unique'
  <2> SUFFICES ASSUME NEW p \in Run, op'[p].pc = "answered", op'[p].token # Nothing
               PROVE  /\ op'[p].token # stored' /\ op'[p].token \notin late'
                      /\ \A q \in Op : q # p => op'[q].token # op'[p].token
    BY DEF Unique
  <2>1. CASE p = o
    BY <2>1, <1>0, <1>2, <1>4, <1>7, <1>8 DEF Genuine
  <2>2. CASE p # o
    <3>1. p \in Op /\ op'[p] = op[p] /\ op[p].token \in Issued
      BY <2>2, <1>8, <1>0, OpFacts DEF Genuine
    <3>2. u # op[p].token
      BY <3>1, <1>2
    <3>3. QED  BY <3>1, <3>2, <1>0, <1>4, <1>7, <1>8 DEF Unique
  <2>3. QED  BY <2>1, <2>2
<1>16. SessionTypeOK'
  BY <1>0, <1>1, <1>2, <1>7, <1>9, <1>11 DEF SessionTypeOK
<1>17. QED  BY <1>1, <1>4, <1>7, <1>8, <1>9, <1>11, <1>12, <1>13, <1>14, <1>15, <1>16 DEF Basics, t, u

LEMMA LogoutHandledFacts ==
  ASSUME Basics, NEW v \in Leaver, LogoutHandled(v)
  PROVE  /\ op' \in [Op -> OpState]
         /\ op[v].pc = "sent" /\ op[v].token \in Issued
         /\ op'[v].pc = "answered" /\ op'[v].token = op[v].token
         /\ \A p \in Op : p # v => op'[p] = op[p]
         /\ revoked' = revoked \cup {op[v].token}
         /\ UNCHANGED <<status, screen, access, user, stored, disk, carried, issued, late, reused, ended, disturbed>>
         /\ Basics'
<1>0. /\ SessionTypeOK /\ Queue /\ OneEach /\ Genuine /\ Unique /\ \A p \in Op : Carries(p) /\ op[p] \in OpState
      /\ v \in Op /\ op[v] \in OpState /\ op \in [Op -> OpState]
      /\ v \notin Run /\ v \notin Refresher /\ v \notin Restorer /\ v \notin Submitter
  BY OpType, OpFacts DEF Basics, Run
<1> DEFINE t == op[v].token
           a == [op[v] EXCEPT !.pc = "answered"]
<1>1. op[v].pc = "sent" /\ t \in Issued
  BY <1>0, HeldGenuine DEF LogoutHandled, Carries
<1>2. a \in OpState /\ a.pc = "answered" /\ a.token = t
  BY <1>0 DEF OpState, RestorerPc, RefresherPc
<1>3. a.pc \in Pc(v)
  BY <1>0, <1>2 DEF Pc
<1>4. Turns(v, a)
  BY <1>0 DEF Turns, LogoutHandled
<1>5. /\ live' = live \ {t} /\ revoked' = revoked \cup {t}
      /\ UNCHANGED <<status, screen, access, user, stored, disk, carried, issued, late, reused, ended, disturbed>>
  BY DEF LogoutHandled
<1> HIDE DEF a, t
<1>6. /\ op' \in [Op -> OpState] /\ op'[v] = a /\ op'[v].pc \in Pc(v)
      /\ \A p \in Op : p # v => op'[p] = op[p]
      /\ \A p \in Op : p # v => Similar(p)
  BY <1>0, <1>2, <1>3, <1>4, Turned
<1>7. SessionOps'
  BY <1>0, <1>6, Typed
<1>8. DiskMove(v)
  BY <1>1, <1>2, <1>5, <1>6 DEF DiskMove, OnDisk
<1>9. Queue' /\ disk' \in Seq(Op)
  BY <1>0, <1>6, <1>8, Queueing
<1>10. OneEach'
  BY <1>0, <1>6, OneAtATime
<1>11. \A p \in Op : Carries(p)'
  BY <1>0, <1>2, <1>6 DEF Carries
<1>12. Issued' = Issued
  BY <1>5 DEF Issued
<1>13. \A p \in Op : op'[p].token = op[p].token
  BY <1>2, <1>6 DEF t
<1>14. Genuine'
  BY <1>0, <1>1, <1>5, <1>12, <1>13 DEF Genuine
<1>15. Unique'
  BY <1>0, <1>5, <1>6, <1>13, OpFacts DEF Unique
<1>16. SessionTypeOK'
  <2>1. revoked' \subseteq Tokens
    BY <1>0, <1>1, <1>5, IssuedMeans DEF SessionTypeOK
  <2>2. QED  BY <1>0, <1>5, <1>7, <1>9, <2>1 DEF SessionTypeOK
<1>17. QED  BY <1>1, <1>2, <1>5, <1>6, <1>7, <1>9, <1>10, <1>11, <1>14, <1>15, <1>16 DEF Basics, t

LEMMA LoginAnsweredFacts ==
  ASSUME Basics, NEW b \in Submitter, NEW l \in Login, LoginAnswered(b, l)
  PROVE  /\ op' \in [Op -> OpState]
         /\ op[b].pc = "asking"
         /\ ~op'[b].stale
         /\ \/ op'[b].pc = "storing" /\ op'[b].token = <<l, 0>> /\ stored' = <<l, 0>>
            \/ op'[b].pc = "storeFailed" /\ "disk" \in disturbed'
         /\ disturbed \subseteq disturbed'
         /\ \A p \in Op : p # b =>
               /\ Similar(p) /\ op'[p].pc = op[p].pc
               /\ op'[p].stale <=> \/ op[p].stale
                                   \/ p \in Run /\ Busy(p)
                                   \/ p \in Submitter /\ op[p].pc = "storing"
         /\ \A p \in Op : ~Active(p)'
         /\ disk' = Append(disk, b) /\ Called(b) /\ DiskMove(b)
         /\ <<l, 0>> \notin Issued /\ <<l, 0>> \in Tokens
         /\ LoginOf(<<l, 0>>) = l /\ l \notin ended'
         /\ ended' = ended \cup {k \in Login : issued[k] > 0}
         /\ UNCHANGED <<status, screen, access, user, carried, revoked, late, reused>>
         /\ Basics'
<1>0. /\ SessionTypeOK /\ Queue /\ OneEach /\ Genuine /\ Unique /\ \A p \in Op : Carries(p) /\ op[p] \in OpState
      /\ b \in Op /\ op[b] \in OpState /\ op \in [Op -> OpState]
      /\ b \notin Run /\ b \notin Refresher /\ b \notin Restorer
  BY OpType, OpFacts DEF Basics, Run
<1> DEFINE t == <<l, issued[l]>>
           n == BeginNewGeneration(op)
           w == [Idle EXCEPT !.pc = "storing", !.token = <<l, 0>>]
           f == [Idle EXCEPT !.pc = "storeFailed"]
<1>1. /\ op[b].pc = "asking" /\ issued[l] = 0
      /\ issued' = [issued EXCEPT ![l] = 1]
      /\ live' = live \cup {<<l, 0>>}
      /\ ended' = ended \cup {k \in Login : issued[k] > 0}
      /\ disk' = Append(disk, b)
      /\ \/ stored' = <<l, 0>> /\ op' = [n EXCEPT ![b] = w] /\ disturbed' = disturbed
         \/ disturbed' = disturbed \cup {"disk"} /\ op' = [n EXCEPT ![b] = f] /\ stored' = stored
      /\ UNCHANGED <<status, screen, access, user, carried, revoked, late, reused>>
  BY DEF LoginAnswered
<1>2. /\ issued' \in [Login -> Nat] /\ issued'[l] > 0
      /\ \A k \in Login : issued[k] > 0 => issued'[k] > 0
      /\ <<l, 0>> \notin Issued
      /\ Issued' = Issued \cup {<<l, 0>>}
      /\ <<l, 0>> \in Tokens /\ LoginOf(<<l, 0>>) = l
  <2>1. issued' = [issued EXCEPT ![l] = @ + 1] /\ issued \in [Login -> Nat]
    BY <1>0, <1>1 DEF SessionTypeOK
  <2>2. QED  BY <1>1, <2>1, Minting
<1>3. /\ w \in OpState /\ w.pc = "storing" /\ w.token = <<l, 0>> /\ w.stale = FALSE
      /\ f \in OpState /\ f.pc = "storeFailed" /\ f.token = Nothing /\ f.stale = FALSE
  BY <1>0, <1>2 DEF Idle, OpState, Held, RestorerPc, RefresherPc
<1>4. w.pc \in Pc(b) /\ f.pc \in Pc(b)
  BY <1>0, <1>3 DEF Pc
<1>5. /\ n \in [Op -> OpState]
      /\ \A p \in Op : /\ n[p].pc = op[p].pc /\ n[p].token = op[p].token /\ n[p].matches = op[p].matches
                       /\ n[p].attempt = op[p].attempt /\ n[p].for = op[p].for
                       /\ n[p].stale <=> \/ op[p].stale
                                         \/ p \in Run /\ Busy(p)
                                         \/ p \in Submitter /\ op[p].pc = "storing"
  BY <1>0, NewGeneration
<1> HIDE DEF n, w, f
<1>6. PICK r \in {w, f} : /\ op' = [n EXCEPT ![b] = r]
                          /\ \/ r = w /\ stored' = <<l, 0>> /\ disturbed' = disturbed
                             \/ r = f /\ disturbed' = disturbed \cup {"disk"} /\ stored' = stored
  BY <1>1
<1>7. op' \in [Op -> OpState] /\ op'[b] = r /\ \A p \in Op : p # b => op'[p] = n[p]
  BY <1>0, <1>3, <1>5, <1>6
<1>8. \A p \in Op : p # b =>
               /\ Similar(p) /\ op'[p].pc = op[p].pc
               /\ op'[p].stale <=> \/ op[p].stale
                                   \/ p \in Run /\ Busy(p)
                                   \/ p \in Submitter /\ op[p].pc = "storing"
  BY <1>0, <1>5, <1>7 DEF Similar, OpState
<1>9. \A p \in Op : ~Active(p)'
  BY <1>0, <1>8 DEF Active, Busy
<1>10. op'[b].pc \in OnDisk /\ op[b].pc \notin OnDisk
  BY <1>1, <1>3, <1>7 DEF OnDisk
<1>11. Called(b) /\ DiskMove(b)
  BY <1>1, <1>10 DEF Called, DiskMove
<1>12. SessionOps'
  <2>1. op'[b].pc \in Pc(b)
    BY <1>4, <1>7
  <2>2. QED  BY <1>0, <1>7, <1>8, <2>1, Typed
<1>13. Queue' /\ disk' \in Seq(Op)
  BY <1>0, <1>8, <1>11, Queueing
<1>14. OneEach'
  BY <1>0, <1>8, OneAtATime
<1>15. \A p \in Op : Carries(p)'
  <2>1. \A p \in Op : p # b => Carries(p)'
    BY <1>0, <1>8 DEF Carries, Similar
  <2>2. Carries(b)'
    BY <1>2, <1>3, <1>7, TokenFacts DEF Carries
  <2>3. QED  BY <2>1, <2>2
<1>16. \A p \in Op : p # b => op'[p].token = op[p].token
  BY <1>8 DEF Similar
<1>17. op'[b].token \in {<<l, 0>>, Nothing} /\ stored' \in {<<l, 0>>, stored}
  BY <1>3, <1>6, <1>7
<1>18. Genuine'
  <2>1. \A p \in Op : op'[p].token \in Issued' \cup {Nothing}
    BY <1>0, <1>2, <1>16, <1>17 DEF Genuine
  <2>2. stored' \in Issued' \cup {Nothing}
    BY <1>0, <1>2, <1>17 DEF Genuine
  <2>3. /\ live' \subseteq Issued' /\ revoked' \subseteq Issued' /\ late' \subseteq Issued'
        /\ live' \cap revoked' = {}
    BY <1>0, <1>1, <1>2 DEF Genuine
  <2>4. ended' \subseteq {k \in Login : issued'[k] > 0}
    BY <1>0, <1>1, <1>2 DEF Genuine
  <2>5. access' # Nothing => issued'[access'] > 0
    BY <1>0, <1>1, <1>2 DEF Genuine, SessionTypeOK
  <2>6. QED  BY <2>1, <2>2, <2>3, <2>4, <2>5 DEF Genuine
<1>19. Unique'
  <2> SUFFICES ASSUME NEW p \in Run, op'[p].pc = "answered", op'[p].token # Nothing
               PROVE  /\ op'[p].token # stored' /\ op'[p].token \notin late'
                      /\ \A q \in Op : q # p => op'[q].token # op'[p].token
    BY DEF Unique
  <2>1. p # b /\ p \in Op
    BY <1>0, OpFacts
  <2>2. op[p].pc = "answered" /\ op'[p].token = op[p].token
    BY <1>8, <1>16, <2>1
  <2>3. op[p].token \in Issued
    BY <2>1, <2>2, <1>0 DEF Genuine
  <2>4. QED  BY <1>0, <1>1, <1>2, <1>16, <1>17, <2>1, <2>2, <2>3 DEF Unique
<1>20. l \notin ended'
  BY <1>0, <1>1 DEF Genuine
<1>21. SessionTypeOK'
  <2>1. live' \subseteq Tokens /\ stored' \in Held
    BY <1>0, <1>1, <1>2, <1>17 DEF SessionTypeOK, Held
  <2>2. QED  BY <1>0, <1>1, <1>2, <1>12, <1>13, <2>1 DEF SessionTypeOK
<1>22. /\ ~op'[b].stale
       /\ \/ op'[b].pc = "storing" /\ op'[b].token = <<l, 0>> /\ stored' = <<l, 0>>
          \/ op'[b].pc = "storeFailed" /\ "disk" \in disturbed'
       /\ disturbed \subseteq disturbed'
  BY <1>3, <1>6, <1>7
<1>23. Basics'
  BY <1>12, <1>13, <1>14, <1>15, <1>18, <1>19, <1>21 DEF Basics
<1>24. QED  BY <1>1, <1>2, <1>7, <1>8, <1>9, <1>11, <1>20, <1>22, <1>23

LEMMA ArriveLateFacts ==
  ASSUME Basics, ArriveLate
  PROVE  /\ Basics' /\ late # {}
         /\ UNCHANGED <<app, ended, disturbed>>
<1>0. SessionTypeOK /\ Queue /\ OneEach /\ Genuine /\ Unique /\ \A p \in Op : Carries(p)
  BY DEF Basics
<1>1. PICK t \in late : Rotate(t) /\ late' = late \ {t}
  BY DEF ArriveLate
<1>2. /\ UNCHANGED <<app, ended, disturbed>>
      /\ UNCHANGED <<status, screen, access, user, stored, disk, carried, op>>
  BY DEF ArriveLate, app
<1>3. t \in Issued
  BY <1>0 DEF Genuine
<1>4. /\ issued' \in [Login -> Nat] /\ Issued \subseteq Issued' /\ Issued' \subseteq Tokens
      /\ \A k \in Login : issued[k] > 0 => issued'[k] > 0
      /\ live' \subseteq Issued' /\ revoked \subseteq revoked' /\ revoked' \subseteq Issued'
      /\ live' \cap revoked' = {}
      /\ reused' \in {reused, reused \cup {t}}
  BY <1>0, <1>1, <1>3, Rotating
<1>5. SessionTypeOK'
  <2>1. SessionOps'
    BY <1>0, <1>2 DEF SessionTypeOK, SessionOps
  <2>2. QED  BY <1>0, <1>1, <1>2, <1>4, <2>1 DEF SessionTypeOK
<1>6. Genuine'
  BY <1>0, <1>1, <1>2, <1>4 DEF Genuine, SessionTypeOK
<1>7. Queue' /\ OneEach' /\ \A p \in Op : Carries(p)'
  BY <1>0, <1>2 DEF Queue, OneEach, Carries, Busy
<1>8. Unique'
  BY <1>0, <1>1, <1>2 DEF Unique
<1>9. QED  BY <1>1, <1>2, <1>5, <1>6, <1>7, <1>8 DEF Basics

LEMMA SameApp ==
  ASSUME Basics, UNCHANGED <<access, user, stored, disk, carried, op>>,
         UNCHANGED <<status, revoked, issued, late, reused, ended, disturbed>>,
         live' \subseteq live, screen' \in {screen, status}
  PROVE  Basics'
<1>0. SessionTypeOK /\ Queue /\ OneEach /\ Genuine /\ Unique /\ \A p \in Op : Carries(p)
  BY DEF Basics
<1>1. SessionTypeOK'
  <2>1. SessionOps'
    BY <1>0 DEF SessionTypeOK, SessionOps
  <2>2. QED  BY <1>0, <2>1 DEF SessionTypeOK
<1>2. Issued' = Issued
  BY DEF Issued
<1>3. Genuine'
  BY <1>0, <1>2 DEF Genuine
<1>4. Queue' /\ OneEach' /\ \A p \in Op : Carries(p)'
  BY <1>0 DEF Queue, OneEach, Carries, Busy
<1>5. Unique'
  BY <1>0 DEF Unique
<1>6. QED  BY <1>1, <1>3, <1>4, <1>5 DEF Basics

\* Restoration o begins and nothing else goes on.
FreshStart(o) ==
    /\ op = [[p \in Op |-> Idle] EXCEPT ![o] = Begun(1)]
    /\ disk = <<o>>

LEMMA Fresh ==
  ASSUME NEW o \in Restorer, FreshStart(o), stored \in Held
  PROVE  /\ o \in Op
         /\ op[o].pc = "reading" /\ op[o].token = stored /\ ~op[o].stale
         /\ \A p \in Op : p # o => op[p].pc = "idle" /\ op[p].token = Nothing
         /\ SessionOps /\ disk \in Seq(Op) /\ Queue /\ OneEach /\ Unique
         /\ \A p \in Op : Carries(p)
<1>0. o \in Op /\ o \in Run /\ o \notin Refresher
  BY OpFacts DEF Run
<1>1. /\ Idle \in OpState /\ Idle.pc = "idle" /\ Idle.token = Nothing
      /\ Begun(1) \in OpState /\ Begun(1).pc = "reading" /\ Begun(1).token = stored
      /\ Begun(1).stale = FALSE
  BY DEF Idle, Begun, OpState, Held, RestorerPc, RefresherPc
<1>2. op \in [Op -> OpState] /\ op[o] = Begun(1) /\ \A p \in Op : p # o => op[p] = Idle
  BY <1>0, <1>1 DEF FreshStart
<1>3. SessionOps
  BY <1>0, <1>1, <1>2 DEF SessionOps, Pc, RefresherPc, RestorerPc
<1>4. /\ disk \in Seq(Op) /\ Once(disk)
      /\ \A p \in Op : Waits(disk, p) <=> p = o
  BY <1>0 DEF FreshStart, Once, Waits
<1>5. Queue
  BY <1>1, <1>2, <1>4 DEF Queue, OnDisk
<1>6. OneEach
  BY <1>0, <1>1, <1>2, OpFacts DEF OneEach, Busy, Run
<1>7. Unique /\ \A p \in Op : Carries(p)
  BY <1>1, <1>2, OpFacts DEF Unique, Carries
<1>8. QED  BY <1>0, <1>1, <1>2, <1>3, <1>4, <1>5, <1>6, <1>7

LEMMA RestartFacts ==
  ASSUME Basics, Restart
  PROVE  /\ Basics'
         /\ \E o \in Restorer :
               /\ o \in Op
               /\ op'[o].pc = "reading" /\ op'[o].token = stored' /\ ~op'[o].stale
               /\ \A p \in Op : p # o => op'[p].pc = "idle" /\ op'[p].token = Nothing
         /\ late' # late => "killed" \in disturbed'
         /\ "killed" \notin disturbed' => AtRest
         /\ disturbed \subseteq disturbed' /\ disturbed' \subseteq disturbed \cup {"killed"}
         /\ status' = "restoring" /\ screen' = "restoring"
         /\ access' = Nothing /\ user' = Nothing /\ carried' = FALSE
         /\ UNCHANGED <<stored, live, revoked, issued, reused, ended>>
<1>0. SessionTypeOK /\ Genuine /\ \A p \in Op : Carries(p)
  BY DEF Basics
<1>1. /\ status' = "restoring" /\ screen' = "restoring"
      /\ access' = Nothing /\ user' = Nothing /\ carried' = FALSE
      /\ UNCHANGED <<stored, live, revoked, issued, reused, ended>>
  BY DEF Restart
<1>2. PICK o \in Restorer : FreshStart(o)'
  <2>1. PICK o \in Restorer : /\ op' = [[p \in Op |-> Idle] EXCEPT ![o] = Begun(1)]
                              /\ disk' = <<o>>
    BY DEF Restart
  <2>2. Begun(1)' = Begun(1)
    BY <1>1 DEF Begun
  <2>3. FreshStart(o)'
    BY <2>1, <2>2 DEF FreshStart
  <2>4. QED  BY <2>3
<1>3. stored' \in Held
  BY <1>0, <1>1 DEF SessionTypeOK
<1>4. /\ o \in Op
      /\ op'[o].pc = "reading" /\ op'[o].token = stored' /\ ~op'[o].stale
      /\ \A p \in Op : p # o => op'[p].pc = "idle" /\ op'[p].token = Nothing
      /\ SessionOps' /\ disk' \in Seq(Op) /\ Queue' /\ OneEach' /\ Unique'
      /\ \A p \in Op : Carries(p)'
  <2>1. (stored \in Held /\ FreshStart(o) =>
         /\ o \in Op
         /\ op[o].pc = "reading" /\ op[o].token = stored /\ ~op[o].stale
         /\ \A p \in Op : p # o => op[p].pc = "idle" /\ op[p].token = Nothing
         /\ SessionOps /\ disk \in Seq(Op) /\ Queue /\ OneEach /\ Unique
         /\ \A p \in Op : Carries(p))'
    BY Fresh, PTL
  <2>2. QED  BY <1>2, <1>3, <2>1
<1>5. Issued' = Issued
  BY <1>1 DEF Issued
<1>6. late' \subseteq Issued
  <2>1. \A p \in Refresher \cup Restorer : op[p].pc = "sent" => op[p].token \in Issued
    BY <1>0, OpFacts DEF Genuine, Carries, Run
  <2>2. QED  BY <2>1, <1>0 DEF Restart, Genuine
<1>7. Genuine'
  BY <1>0, <1>1, <1>4, <1>5, <1>6 DEF Genuine
<1>8. /\ disturbed \subseteq disturbed' /\ disturbed' \subseteq disturbed \cup {"killed"}
      /\ "killed" \notin disturbed' => AtRest
      /\ late' # late => "killed" \in disturbed'
  <2>1. disturbed' = IF \E p \in Op : op[p].pc # "idle"
                     THEN disturbed \cup {"killed"} ELSE disturbed
    BY DEF Restart
  <2>2. late' # late => \E p \in Op : op[p].pc # "idle"
    <3>1. PICK T : /\ T = {op[p].token : p \in {q \in Refresher \cup Restorer : op[q].pc = "sent"}}
                   /\ late' \in {late, late \cup T}
      BY DEF Restart
    <3>2. (\A p \in Op : op[p].pc = "idle") => T = {}
      BY <3>1, OpFacts DEF Run
    <3>3. QED  BY <3>1, <3>2
  <2>3. QED  BY <2>1, <2>2 DEF AtRest
<1>9. SessionTypeOK'
  BY <1>0, <1>1, <1>4, <1>6, <1>8, IssuedMeans DEF SessionTypeOK
<1>10. QED  BY <1>1, <1>4, <1>7, <1>8, <1>9 DEF Basics

LEMMA BasicsInitially == ASSUME Init PROVE Basics
<1>1. /\ \/ stored = Nothing /\ live = {} /\ issued = [l \in Login |-> 0]
         \/ \E l \in Login : /\ stored = <<l, 0>>
                             /\ live = {<<l, 0>>}
                             /\ issued = [k \in Login |-> IF k = l THEN 1 ELSE 0]
      /\ status = "restoring" /\ screen = "restoring"
      /\ access = Nothing /\ user = Nothing /\ carried = FALSE
      /\ revoked = {} /\ late = {} /\ ended = {} /\ reused = {} /\ disturbed = {}
      /\ \E o \in Restorer : FreshStart(o)
  BY DEF Init, FreshStart
<1>2. issued \in [Login -> Nat]
  BY <1>1
<1>3. stored \in Issued \cup {Nothing} /\ live \subseteq Issued
  <2>1. CASE stored = Nothing /\ live = {}
    BY <2>1
  <2>2. ASSUME NEW l \in Login, stored = <<l, 0>>, live = {<<l, 0>>},
               issued = [k \in Login |-> IF k = l THEN 1 ELSE 0]
        PROVE  <<l, 0>> \in Issued
    <3>1. <<l, 0>> \in Tokens /\ issued[l] = 1
      BY <2>2 DEF Tokens
    <3>2. QED  BY <3>1, <1>2, IssuedMeans
  <2>3. QED  BY <1>1, <2>1, <2>2
<1>4. Issued \subseteq Tokens
  BY <1>2, IssuedMeans
<1>5. stored \in Held
  BY <1>3, <1>4 DEF Held
<1>6. PICK o \in Restorer : FreshStart(o)
  BY <1>1
<1>7. /\ o \in Op /\ op[o].token = stored
      /\ \A p \in Op : p # o => op[p].token = Nothing
      /\ SessionOps /\ disk \in Seq(Op) /\ Queue /\ OneEach /\ Unique
      /\ \A p \in Op : Carries(p)
  BY <1>5, <1>6, Fresh
<1>8. Genuine
  BY <1>1, <1>3, <1>7 DEF Genuine
<1>9. SessionTypeOK
  BY <1>1, <1>2, <1>3, <1>4, <1>5, <1>7 DEF SessionTypeOK
<1>10. QED  BY <1>7, <1>8, <1>9 DEF Basics

LEMMA BasicsSteps == ASSUME Basics, [Next]_vars PROVE Basics'
<1>1. ASSUME NEW o \in Op, Drops(o) \/ Clears(o) \/ SessionCleared(o) \/ Sends(o) PROVE Basics'
  BY <1>1, DropsFacts, ClearsInApp, ClearedFacts, SendsFacts, StepInApp
<1>2. ASSUME NEW o \in Run, Present(o) \/ Persists(o) \/ Persisted(o) \/ Deletes(o) PROVE Basics'
  <2>1. o \in Op
    BY OpFacts
  <2>2. CASE Present(o)
    BY <2>2, PresentFacts
  <2>3. CASE Persists(o) \/ Deletes(o)
    BY <2>1, <2>3, PersistsFacts, DeletesFacts, StepInApp
  <2>4. CASE Persisted(o)
    BY <2>1, <2>4, UndoFacts, RefreshedFacts, StepInApp
  <2>5. QED  BY <1>2, <2>2, <2>3, <2>4
<1>3. ASSUME NEW o \in Restorer,
             \/ FindsNothing(o) \/ Fails(o) \/ Repeats(o) \/ Succeeds(o)
             \/ MeUnauthorized(o) \/ RetryRestoration(o)
      PROVE  Basics'
  <2>1. o \in Op /\ o \in Run
    BY OpFacts DEF Run
  <2>2. CASE FindsNothing(o) \/ Fails(o) \/ Succeeds(o)
    BY <2>1, <2>2, FindsNothingFacts, FailsFacts, SucceedsFacts, StepInApp
  <2>3. CASE Repeats(o)
    <3>1. op[o].pc \notin OnDisk /\ Busy(o) /\ Begin(o, 2)
          /\ UNCHANGED <<status, screen, access, user, stored, carried, backend, ended, disturbed>>
      BY <2>3 DEF Repeats, OnDisk, Busy
    <3>2. AppStep(o)
      BY <2>1, <3>1, BeginsFacts
    <3>3. QED  BY <2>1, <3>2, StepInApp
  <2>4. CASE MeUnauthorized(o)
    <3>1. Waits401(o) \/ \E r \in Refresher : Starts401(o, r)
      BY <2>4 DEF MeUnauthorized, Waits401, Starts401
    <3>2. CASE Waits401(o)
      BY <2>1, <2>4, <3>2, Waits401Facts, StepInApp
    <3>3. ASSUME NEW r \in Refresher, Starts401(o, r) PROVE Basics'
      <4>1. r \in Op
        BY OpFacts DEF Run
      <4>2. QED  BY <2>4, <3>3, <4>1, Starts401Facts, StepInApp
    <3>4. QED  BY <3>1, <3>2, <3>3
  <2>5. CASE RetryRestoration(o)
    <3>1. op[o].pc \notin OnDisk /\ NoneInFlight(Restorer) /\ Begin(o, 1) /\ status' = "restoring"
          /\ UNCHANGED <<screen, access, user, stored, carried, backend, ended, disturbed>>
      BY <2>5 DEF RetryRestoration, OnDisk
    <3>2. AppStep(o)
      BY <2>1, <3>1, BeginsFacts
    <3>3. QED  BY <2>1, <3>2, StepInApp
  <2>6. QED  BY <1>3, <2>2, <2>3, <2>4, <2>5
<1>4. ASSUME NEW o \in Refresher, Unauthorized(o) PROVE Basics'
  <2>1. o \in Op /\ o \in Run
    BY OpFacts DEF Run
  <2>2. op[o].pc \notin OnDisk /\ NoneInFlight(Refresher) /\ Begin(o, 1)
        /\ UNCHANGED <<status, screen, access, user, stored, carried, backend, ended, disturbed>>
    BY <1>4 DEF Unauthorized, OnDisk
  <2>3. AppStep(o)
    BY <2>1, <2>2, BeginsFacts
  <2>4. QED  BY <2>1, <2>3, StepInApp
<1>5. ASSUME NEW b \in Submitter, SubmitLogin(b) \/ LoginFails(b) \/ LoginStored(b) PROVE Basics'
  BY <1>5, SubmitFacts, LoginEndsFacts, StepInApp, OpFacts
<1>6. ASSUME NEW b \in Submitter, NEW l \in Login, LoginAnswered(b, l) PROVE Basics'
  BY <1>6, LoginAnsweredFacts
<1>7. ASSUME NEW v \in Leaver, TapLogout(v) \/ Unregistered(v) PROVE Basics'
  BY <1>7, TapLogoutFacts, UnregisteredFacts, StepInApp, OpFacts
<1>8. ASSUME NEW v \in Leaver, LogoutHandled(v) PROVE Basics'
  BY <1>8, LogoutHandledFacts
<1>9. CASE Render \/ Expire \/ UNCHANGED vars
  BY <1>9, SameApp DEF Render, Expire, vars, backend, app
<1>10. CASE Restart \/ ArriveLate
  BY <1>10, RestartFacts, ArriveLateFacts
<1>11. QED
  BY StepKinds, <1>1, <1>2, <1>3, <1>4, <1>5, <1>6, <1>7, <1>8, <1>9, <1>10 DEF Kinds

-----------------------------------------------------------------------------
\* As long as SecureStore works.

Sound == disturbed \cap {"disk", "unread", "crossed"} = {}

\* A login has stored its token and will begin its session.
Writes(b) == op[b].pc = "storing" /\ ~op[b].stale

LoginWrites == \E b \in Submitter : Writes(b)

\* A logout is under way.
Leaves == \E v \in Leaver : Busy(v)

NoFailedWrite == \A o \in Op : op[o].pc # "storeFailed"

\* While a session is being cleared nothing is stored, unless a login has stored a new
\* token since, or one that a logout has superseded is still there; whatever has begun
\* since waits for SecureStore behind the deletion.
WhileClearing ==
    \A o \in Op : Clearing(o) =>
        /\ \/ \E b \in Submitter : Writes(b) /\ Before(o, b)
           \/ stored = Nothing /\ ~LoginWrites
           \/ LogoutPending /\ ~LoginWrites
        /\ \A p \in Run : Active(p) => op[p].pc = "reading" /\ Before(o, p)

\* The user gets to log in or out once restoration is over: it sets no status after that.
SeenIn == screen \in {"unauthenticated", "authenticated", "signingOut"}

BeyondRestoration ==
    /\ SeenIn => status \in {"unauthenticated", "authenticated"}
    /\ \A o \in Submitter \cup Leaver : Busy(o) => SeenIn
    /\ \A b \in Submitter : op[b].pc = "storing" => \A s \in Restorer : ~Active(s)
    /\ LogoutPending => \A s \in Restorer : ~Active(s)

\* Of several logins the last one answered is the one that writes; nobody else knows its
\* token yet.
WhileLoggingIn ==
    /\ \A b, c \in Submitter : Writes(b) /\ Writes(c) => b = c
    /\ \A b \in Submitter : Writes(b) =>
          /\ stored = op[b].token
          /\ \A r \in Refresher : Active(r) => op[r].pc = "reading" /\ Before(b, r)
    /\ \A b \in Submitter, p \in Run :
          op[b].pc = "storing" /\ op[p].pc \in {"storing", "comparing"} => op[p].token # op[b].token

\* Nobody is signed in: there is no token, and whatever is current is about to find out.
SignedOut ==
    status = "unauthenticated" /\ ~LoginWrites /\ ~LogoutPending =>
        stored = Nothing /\ \A p \in Run : Active(p) => op[p].pc = "reading"

\* A current restoration has a token, unless it is about to find that there is none,
\* and once it asks for the user it has the token's session.
WhileRestoring ==
    \A s \in Restorer : Active(s) =>
        /\ status \in {"restoring", "unauthenticated"}
        /\ op[s].pc # "reading" => stored # Nothing
        /\ op[s].pc \in {"me", "meWaits", "meAgain"} => access = LoginOf(stored)

\* What is current uses the token that is stored, or has just got its successor.
TokensCurrent ==
    \A p \in Run : Active(p) =>
        /\ op[p].pc \in {"reading", "sent", "storing"} => op[p].token = stored
        /\ op[p].pc = "answered" /\ op[p].token # Nothing => LoginOf(op[p].token) = LoginOf(stored)

\* A refresh beside a restoration is one the restoration waits for, or finds nothing.
RefreshWaitedFor ==
    status \in {"restoring", "restoration-error"} => \A r \in Refresher : Active(r) =>
        \/ \E s \in Restorer : op[s].pc = "meWaits"
        \/ stored = Nothing /\ op[r].pc = "reading"

\* Once there was a session, a later restoration finds nothing.
RestoredOnce ==
    carried =>
        /\ status # "restoration-error"
        /\ status = "restoring" => stored = Nothing /\ \A p \in Run : Active(p) => op[p].pc = "reading"

\* OneSession.
SignedIn ==
    status = "authenticated" =>
        \/ Leaves
        \/ /\ access # Nothing /\ user = access
           /\ \/ LoginOf(stored) = user
              \/ LoginWrites
              \/ stored = Nothing /\ \E o \in Op : Clearing(o)

RestorationFailed ==
    status = "restoration-error" => stored # Nothing \/ \E o \in Op : Clearing(o)

\* A token is only written too late, and still there, while a logout is under way.
WhileUndoing ==
    \A o \in Run :
        op[o].pc \in {"storing", "comparing"} /\ op[o].stale /\ stored = op[o].token =>
            o \in Refresher /\ LogoutPending

SoundInv ==
    /\ NoFailedWrite /\ WhileClearing /\ BeyondRestoration /\ WhileLoggingIn /\ SignedOut
    /\ WhileRestoring /\ TokensCurrent /\ RefreshWaitedFor /\ RestoredOnce /\ SignedIn
    /\ RestorationFailed /\ WhileUndoing

LEMMA Names ==
  /\ Refresher \subseteq Run /\ Restorer \subseteq Run /\ Run \subseteq Op
  /\ Submitter \subseteq Op /\ Leaver \subseteq Op /\ Submitter \cap Run = {} /\ Leaver \cap Run = {}
  /\ Submitter \cap Leaver = {}
  /\ Refresher \cap Restorer = {} /\ Run = Refresher \cup Restorer
BY OpFacts DEF Run

LEMMA SendsSound ==
  ASSUME Basics, SoundInv, NEW o \in Op, Sends(o)
  PROVE  SoundInv'
<1>0. SessionTypeOK /\ Queue /\ \A p \in Op : op[p] \in OpState
  BY OpType
<1>1. /\ op'[o].pc = "sent" /\ op'[o].token = op[o].token /\ op'[o].stale = op[o].stale
      /\ \A p \in Op : p # o => op'[p] = op[p]
      /\ op[o].pc = "reading" /\ op[o].token # Nothing /\ o \in Run \cup Leaver
      /\ UNCHANGED <<status, screen, access, user, stored, carried>>
  BY SendsFacts DEF Sends
<1>2. /\ \A a \in Op : ~Before(a, o)
      /\ \A a, b \in Op : b # o => (Before(a, b)' <=> Before(a, b) /\ (a # o \/ disk' = disk))
  <2>1. Resumable(o) /\ DiskMove(o) /\ \A p \in Op : p # o => Similar(p)
    BY SendsFacts DEF AppStep
  <2>2. QED  BY <1>0, <2>1, FirstInLine, Queueing
<1>3. Refresher \subseteq Run /\ Restorer \subseteq Run /\ Run \subseteq Op
      /\ Submitter \subseteq Op /\ Leaver \subseteq Op /\ Submitter \cap Run = {} /\ Leaver \cap Run = {}
      /\ Submitter \cap Leaver = {}
      /\ Refresher \cap Restorer = {} /\ Run = Refresher \cup Restorer
  BY Names
<1>4. NoFailedWrite'
  BY <1>0, <1>1, <1>2, <1>3 DEF NoFailedWrite, SoundInv
<1>5. WhileClearing'
  BY <1>0, <1>1, <1>2, <1>3 DEF WhileClearing, SoundInv, Active, Clearing, LoginWrites, Writes, LogoutPending, Pending, Before
<1>6. BeyondRestoration'
  BY <1>0, <1>1, <1>2, <1>3 DEF BeyondRestoration, SeenIn, SoundInv, Active, LogoutPending, Pending, Busy
<1>7. WhileLoggingIn'
  BY <1>0, <1>1, <1>2, <1>3 DEF WhileLoggingIn, SoundInv, Active, LoginWrites, Writes, Before, Busy
<1>8. SignedOut'
  BY <1>0, <1>1, <1>2, <1>3 DEF SignedOut, TokensCurrent, WhileLoggingIn, SoundInv, Active, LoginWrites, Writes, LogoutPending, Pending
<1>9. WhileRestoring'
  BY <1>0, <1>1, <1>2, <1>3 DEF WhileRestoring, TokensCurrent, SoundInv, Active
<1>10. TokensCurrent'
  BY <1>0, <1>1, <1>2, <1>3 DEF TokensCurrent, SoundInv, Active
<1>11. RefreshWaitedFor'
  BY <1>0, <1>1, <1>2, <1>3 DEF RefreshWaitedFor, TokensCurrent, SoundInv, Active
<1>12. RestoredOnce'
  BY <1>0, <1>1, <1>2, <1>3 DEF RestoredOnce, TokensCurrent, SoundInv, Active
<1>13. SignedIn'
  BY <1>0, <1>1, <1>2, <1>3 DEF SignedIn, SoundInv, Clearing, Busy, Leaves, LoginWrites, Writes
<1>14. RestorationFailed'
  BY <1>0, <1>1, <1>2, <1>3 DEF RestorationFailed, SoundInv, Clearing
<1>15. WhileUndoing'
  BY <1>0, <1>1, <1>2, <1>3 DEF WhileUndoing, SoundInv, LogoutPending, Pending
<1>16. QED
  BY <1>4, <1>5, <1>6, <1>7, <1>8, <1>9, <1>10, <1>11, <1>12, <1>13, <1>14, <1>15 DEF SoundInv

LEMMA FindsNothingSound ==
  ASSUME Basics, SoundInv, NEW o \in Restorer, FindsNothing(o)
  PROVE  SoundInv'
<1>0. SessionTypeOK /\ Queue /\ \A p \in Op : op[p] \in OpState
  BY OpType, Names
<1>1. /\ op'[o].pc = "idle"
      /\ \A p \in Op : p # o => op'[p] = op[p]
      /\ op[o].pc = "reading" /\ op[o].token = Nothing /\ ~op[o].stale /\ o \in Op
      /\ status' = "unauthenticated"
      /\ UNCHANGED <<screen, access, user, stored, carried>>
  BY Names, FindsNothingFacts DEF FindsNothing
<1>2. /\ \A a \in Op : ~Before(a, o)
      /\ \A a, b \in Op : b # o => (Before(a, b)' <=> Before(a, b) /\ (a # o \/ disk' = disk))
  <2>1. Resumable(o) /\ DiskMove(o) /\ \A p \in Op : p # o => Similar(p)
    BY <1>1, FindsNothingFacts DEF AppStep
  <2>2. QED  BY <1>0, <1>1, <2>1, FirstInLine, Queueing
<1>3. Refresher \subseteq Run /\ Restorer \subseteq Run /\ Run \subseteq Op
      /\ Submitter \subseteq Op /\ Leaver \subseteq Op /\ Submitter \cap Run = {} /\ Leaver \cap Run = {}
      /\ Submitter \cap Leaver = {}
      /\ Refresher \cap Restorer = {} /\ Run = Refresher \cup Restorer
  BY Names
<1>4. /\ \A s \in Restorer : Busy(s) => s = o
      /\ stored = Nothing
  BY <1>1, <1>3 DEF Basics, OneEach, Busy, SoundInv, TokensCurrent, Active
<1>5. status \in {"restoring", "unauthenticated"}
  BY <1>1 DEF SoundInv, WhileRestoring, Active, Run
<1>6. NoFailedWrite'
  BY <1>0, <1>1, <1>2, <1>3, <1>4, <1>5 DEF NoFailedWrite, SoundInv
<1>7. WhileClearing'
  BY <1>0, <1>1, <1>2, <1>3, <1>4, <1>5 DEF WhileClearing, SoundInv, Active, Clearing, LoginWrites, Writes, LogoutPending, Pending, Before
<1>8. BeyondRestoration'
  BY <1>0, <1>1, <1>2, <1>3, <1>4, <1>5 DEF BeyondRestoration, SeenIn, SoundInv, Active, LogoutPending, Pending, Busy
<1>9. WhileLoggingIn'
  BY <1>0, <1>1, <1>2, <1>3, <1>4, <1>5 DEF WhileLoggingIn, SoundInv, Active, LoginWrites, Writes, Before, Busy
<1>10. SignedOut'
  BY <1>0, <1>1, <1>2, <1>3, <1>4, <1>5 DEF SignedOut, RefreshWaitedFor, WhileLoggingIn, Busy, SoundInv, Active, LoginWrites, Writes, LogoutPending, Pending
<1>11. WhileRestoring'
  BY <1>0, <1>1, <1>2, <1>3, <1>4, <1>5 DEF WhileRestoring, SoundInv, Active
<1>12. TokensCurrent'
  BY <1>0, <1>1, <1>2, <1>3, <1>4, <1>5 DEF TokensCurrent, SoundInv, Active
<1>13. RefreshWaitedFor'
  BY <1>0, <1>1, <1>2, <1>3, <1>4, <1>5 DEF RefreshWaitedFor, SoundInv, Active
<1>14. RestoredOnce'
  BY <1>0, <1>1, <1>2, <1>3, <1>4, <1>5 DEF RestoredOnce, SoundInv, Active
<1>15. SignedIn'
  BY <1>0, <1>1, <1>2, <1>3, <1>4, <1>5 DEF SignedIn, SoundInv, Clearing, Busy, Leaves, LoginWrites, Writes
<1>16. RestorationFailed'
  BY <1>0, <1>1, <1>2, <1>3, <1>4, <1>5 DEF RestorationFailed, SoundInv, Clearing
<1>17. WhileUndoing'
  BY <1>0, <1>1, <1>2, <1>3, <1>4, <1>5 DEF WhileUndoing, SoundInv, LogoutPending, Pending
<1>18. QED
  BY <1>6, <1>7, <1>8, <1>9, <1>10, <1>11, <1>12, <1>13, <1>14, <1>15, <1>16, <1>17 DEF SoundInv

-----------------------------------------------------------------------------
\* Each kind of step keeps SoundInv.

LEMMA DropsSound ==
  ASSUME Basics, SoundInv, Sound', NEW o \in Op, Drops(o)
  PROVE  SoundInv'
<1>0. SessionTypeOK /\ Queue /\ \A p \in Op : op[p] \in OpState
  BY OpType, Names
<1>1. /\ op'[o].pc = "idle" /\ o \in Run
      /\ op[o].pc \notin {"idle", "clearing", "meWaits"}
      /\ op[o].stale \/ o \in Refresher
      /\ \A p \in Op : p # o => /\ op'[p].token = op[p].token /\ op'[p].matches = op[p].matches
                                   /\ op'[p].stale = op[p].stale
                                   /\ \/ op'[p].pc = op[p].pc
                                      \/ op[p].pc = "meWaits" /\ op'[p].pc \in {"meAgain", "meFailed"}
      /\ \A p \in Op : p # o /\ op[p].pc # op'[p].pc => o \in Refresher
      /\ UNCHANGED <<status, screen, access, user, stored, carried>>
  <2>1. o \in Run /\ (op[o].stale \/ o \in Refresher)
    BY Names DEF Drops, Sound
  <2>2. /\ op[o].pc \notin {"idle", "clearing", "meWaits"}
        /\ UNCHANGED <<status, screen, access, user, stored, carried>>
    BY DEF Drops
  <2>3. QED  BY <2>1, <2>2, DropsFacts DEF Similar
<1>2. /\ /\ \A a, b \in Op : b # o => (Before(a, b)' <=> Before(a, b) /\ (a # o \/ disk' = disk))
  <2>1. o \in Op /\ DiskMove(o) /\ \A p \in Op : p # o => Similar(p)
    BY <1>1, DropsFacts DEF AppStep
  <2>2. QED  BY <1>0, <2>1, Queueing
<1>3. /\ Refresher \subseteq Run /\ Restorer \subseteq Run /\ Run \subseteq Op
      /\ Submitter \subseteq Op /\ Leaver \subseteq Op /\ Submitter \cap Run = {} /\ Leaver \cap Run = {}
      /\ Submitter \cap Leaver = {}
      /\ Refresher \cap Restorer = {} /\ Run = Refresher \cup Restorer
  BY Names
<1>4. /\ \A p, q \in Refresher : Busy(p) /\ Busy(q) => p = q
      /\ \A p, q \in Restorer : Busy(p) /\ Busy(q) => p = q
  BY DEF Basics, OneEach
<1>5. NoFailedWrite'
  BY <1>0, <1>1, <1>2, <1>3, <1>4 DEF NoFailedWrite, SoundInv
<1>6. WhileClearing'
  BY <1>0, <1>1, <1>2, <1>3, <1>4 DEF WhileClearing, SoundInv, Active, Clearing, LoginWrites, Writes, LogoutPending, Pending, Before
<1>7. BeyondRestoration'
  BY <1>0, <1>1, <1>2, <1>3, <1>4 DEF BeyondRestoration, SeenIn, SoundInv, Active, LogoutPending, Pending, Busy
<1>8. WhileLoggingIn'
  BY <1>0, <1>1, <1>2, <1>3, <1>4 DEF WhileLoggingIn, SoundInv, Active, LoginWrites, Writes, Before, Busy
<1>9. SignedOut'
  BY <1>0, <1>1, <1>2, <1>3, <1>4 DEF SignedOut, SoundInv, Active, LoginWrites, Writes, LogoutPending, Pending
<1>10. WhileRestoring'
  BY <1>0, <1>1, <1>2, <1>3, <1>4 DEF WhileRestoring, SoundInv, Active
<1>11. TokensCurrent'
  BY <1>0, <1>1, <1>2, <1>3, <1>4 DEF TokensCurrent, SoundInv, Active
<1>12. RefreshWaitedFor'
  BY <1>0, <1>1, <1>2, <1>3, <1>4 DEF RefreshWaitedFor, Busy, SoundInv, Active
<1>13. RestoredOnce'
  BY <1>0, <1>1, <1>2, <1>3, <1>4 DEF RestoredOnce, SoundInv, Active
<1>14. SignedIn'
  BY <1>0, <1>1, <1>2, <1>3, <1>4 DEF SignedIn, SoundInv, Clearing, Busy, Leaves, LoginWrites, Writes
<1>15. RestorationFailed'
  BY <1>0, <1>1, <1>2, <1>3, <1>4 DEF RestorationFailed, SoundInv, Clearing
<1>16. WhileUndoing'
  BY <1>0, <1>1, <1>2, <1>3, <1>4 DEF WhileUndoing, SoundInv, LogoutPending, Pending
<1>17. QED
  BY <1>5, <1>6, <1>7, <1>8, <1>9, <1>10, <1>11, <1>12, <1>13, <1>14, <1>15, <1>16 DEF SoundInv

LEMMA ClearsSound ==
  ASSUME Basics, SoundInv, Sound', NEW o \in Op, Clears(o)
  PROVE  SoundInv'
<1>0. SessionTypeOK /\ Queue /\ \A p \in Op : op[p] \in OpState
  BY OpType, Names
<1>1. /\ op'[o].pc = "clearing" /\ o \notin Submitter /\ (o \in Leaver => Pending(o))
      /\ \A p \in Op : p # o => /\ op'[p].token = op[p].token /\ op'[p].matches = op[p].matches
                                   /\ op'[p].pc = op[p].pc /\ (op[p].stale => op'[p].stale)
      /\ \A p \in Op : ~Active(p)'
      /\ (\A b \in Submitter : ~Writes(b)') /\ ~LoginWrites' /\ stored' = Nothing /\ op[o].pc # "clearing"
      /\ UNCHANGED <<status, screen, access, user, carried>>
  <2>1. op[o].pc # "clearing" /\ "disk" \notin disturbed'
    BY DEF Clears, Sound
  <2>2. \A p \in Op : p # o => /\ op'[p].token = op[p].token /\ op'[p].matches = op[p].matches
                               /\ op'[p].pc = op[p].pc /\ (op[p].stale => op'[p].stale)
    <3>1. \A p \in Op : p # o => Similar(p) /\ op'[p].pc = op[p].pc
      BY ClearFacts
    <3>2. QED  BY ONLY <3>1 DEF Similar
  <2>3. o \in Leaver => Pending(o)
    BY MobileSessionAssumption DEF Clears, Active, Run
  <2>4. QED  BY <2>1, <2>2, <2>3, ClearFacts DEF LoginWrites, Writes
<1>2. /\ \A a, b \in Op : b # o => (Before(a, b)' <=> Before(a, b) /\ (a # o \/ disk' = disk))
      /\ \A a \in Op : a # o /\ op[a].pc \in OnDisk => Before(a, o)'
  BY <1>0, ClearFacts, Queueing
<1>3. /\ Refresher \subseteq Run /\ Restorer \subseteq Run /\ Run \subseteq Op
      /\ Submitter \subseteq Op /\ Leaver \subseteq Op /\ Submitter \cap Run = {} /\ Leaver \cap Run = {}
      /\ Submitter \cap Leaver = {}
      /\ Refresher \cap Restorer = {} /\ Run = Refresher \cup Restorer
  BY Names
<1>4. \A p \in Op : Carries(p)
  BY DEF Basics
<1>5. NoFailedWrite'
  BY <1>0, <1>1, <1>2, <1>3, <1>4 DEF NoFailedWrite, SoundInv
<1>6. WhileClearing'
  BY <1>0, <1>1, <1>2, <1>3, <1>4 DEF WhileClearing, SoundInv, Active, Clearing, LoginWrites, Writes, LogoutPending, Pending, Before
<1>7. BeyondRestoration'
  BY <1>0, <1>1, <1>2, <1>3, <1>4 DEF BeyondRestoration, SeenIn, SoundInv, Active, LogoutPending, Pending, Busy
<1>8. WhileLoggingIn'
  BY <1>0, <1>1, <1>2, <1>3, <1>4 DEF WhileLoggingIn, SoundInv, Active, LoginWrites, Writes, Before, Busy
<1>9. SignedOut'
  BY <1>0, <1>1, <1>2, <1>3, <1>4 DEF SignedOut, SoundInv, Active, LoginWrites, Writes, LogoutPending, Pending
<1>10. WhileRestoring'
  BY <1>0, <1>1, <1>2, <1>3, <1>4 DEF WhileRestoring, SoundInv, Active
<1>11. TokensCurrent'
  BY <1>0, <1>1, <1>2, <1>3, <1>4 DEF TokensCurrent, SoundInv, Active
<1>12. RefreshWaitedFor'
  BY <1>0, <1>1, <1>2, <1>3, <1>4 DEF RefreshWaitedFor, SoundInv, Active
<1>13. RestoredOnce'
  BY <1>0, <1>1, <1>2, <1>3, <1>4 DEF RestoredOnce, SoundInv, Active
<1>14. SignedIn'
  BY <1>0, <1>1, <1>2, <1>3, <1>4 DEF SignedIn, SoundInv, Clearing, Busy, Leaves, LoginWrites, Writes
<1>15. RestorationFailed'
  BY <1>0, <1>1, <1>2, <1>3, <1>4 DEF RestorationFailed, SoundInv, Clearing
<1>16. WhileUndoing'
  BY <1>0, <1>1, <1>2, <1>3, <1>4 DEF WhileUndoing, Carries, OnDisk, SoundInv, LogoutPending, Pending
<1>17. QED
  BY <1>5, <1>6, <1>7, <1>8, <1>9, <1>10, <1>11, <1>12, <1>13, <1>14, <1>15, <1>16 DEF SoundInv

LEMMA ClearedSound ==
  ASSUME Basics, SoundInv, NEW o \in Op, SessionCleared(o)
  PROVE  SoundInv'
<1>0. SessionTypeOK /\ Queue /\ \A p \in Op : op[p] \in OpState
  BY OpType, Names
<1>1. /\ op'[o].pc = "idle" /\ op[o].pc = "clearing"
      /\ \A p \in Op : p # o => /\ op'[p].token = op[p].token /\ op'[p].matches = op[p].matches
                                   /\ op'[p].stale = op[p].stale
                                   /\ \/ op'[p].pc = op[p].pc
                                      \/ op[p].pc = "meWaits" /\ op'[p].pc \in {"meAgain", "meFailed"}
      /\ access' = Nothing /\ user' = Nothing /\ status' = "unauthenticated"
      /\ UNCHANGED <<screen, stored, carried>>
  BY ClearedFacts DEF Similar
<1>2. /\ \A a \in Op : ~Before(a, o)
      /\ \A a, b \in Op : b # o => (Before(a, b)' <=> Before(a, b) /\ (a # o \/ disk' = disk))
  <2>1. Resumable(o) /\ o \in Op /\ DiskMove(o) /\ \A p \in Op : p # o => Similar(p)
    BY <1>1, ClearedFacts DEF AppStep
  <2>2. QED  BY <1>0, <2>1, FirstInLine, Queueing
<1>3. /\ Refresher \subseteq Run /\ Restorer \subseteq Run /\ Run \subseteq Op
      /\ Submitter \subseteq Op /\ Leaver \subseteq Op /\ Submitter \cap Run = {} /\ Leaver \cap Run = {}
      /\ Submitter \cap Leaver = {}
      /\ Refresher \cap Restorer = {} /\ Run = Refresher \cup Restorer
  BY Names
<1>4. /\ LoginWrites \/ LogoutPending \/ stored = Nothing
      /\ \A p \in Run : Active(p) => op[p].pc = "reading"
  BY <1>1, <1>2, <1>3 DEF SoundInv, WhileClearing, Clearing, LoginWrites
<1>5. NoFailedWrite'
  BY <1>0, <1>1, <1>2, <1>3, <1>4 DEF NoFailedWrite, SoundInv
<1>6. WhileClearing'
  BY <1>0, <1>1, <1>2, <1>3, <1>4 DEF WhileClearing, SoundInv, Active, Clearing, LoginWrites, Writes, LogoutPending, Pending, Before
<1>7. BeyondRestoration'
  BY <1>0, <1>1, <1>2, <1>3, <1>4 DEF BeyondRestoration, SeenIn, SoundInv, Active, LogoutPending, Pending, Busy
<1>8. WhileLoggingIn'
  BY <1>0, <1>1, <1>2, <1>3, <1>4 DEF WhileLoggingIn, SoundInv, Active, LoginWrites, Writes, Before, Busy
<1>9. SignedOut'
  BY <1>0, <1>1, <1>2, <1>3, <1>4 DEF SignedOut, SoundInv, Active, LoginWrites, Writes, LogoutPending, Pending
<1>10. WhileRestoring'
  BY <1>0, <1>1, <1>2, <1>3, <1>4 DEF WhileRestoring, SoundInv, Active
<1>11. TokensCurrent'
  BY <1>0, <1>1, <1>2, <1>3, <1>4 DEF TokensCurrent, SoundInv, Active
<1>12. RefreshWaitedFor'
  BY <1>0, <1>1, <1>2, <1>3, <1>4 DEF RefreshWaitedFor, SoundInv, Active
<1>13. RestoredOnce'
  BY <1>0, <1>1, <1>2, <1>3, <1>4 DEF RestoredOnce, SoundInv, Active
<1>14. SignedIn'
  BY <1>0, <1>1, <1>2, <1>3, <1>4 DEF SignedIn, SoundInv, Clearing, Busy, Leaves, LoginWrites, Writes
<1>15. RestorationFailed'
  BY <1>0, <1>1, <1>2, <1>3, <1>4 DEF RestorationFailed, SoundInv, Clearing
<1>16. WhileUndoing'
  BY <1>0, <1>1, <1>2, <1>3, <1>4 DEF WhileUndoing, SoundInv, LogoutPending, Pending
<1>17. QED
  BY <1>5, <1>6, <1>7, <1>8, <1>9, <1>10, <1>11, <1>12, <1>13, <1>14, <1>15, <1>16 DEF SoundInv

LEMMA PresentSound ==
  ASSUME Basics, SoundInv, NEW o \in Run, Present(o)
  PROVE  SoundInv'
<1>0. SessionTypeOK /\ Queue /\ \A p \in Op : op[p] \in OpState
  BY OpType, Names
<1>1. /\ op'[o].pc = "answered" /\ op[o].pc = "sent" /\ op'[o].stale = op[o].stale /\ o \in Op
      /\ \A p \in Op : p # o => op'[p] = op[p]
      /\ op'[o].token # Nothing => LoginOf(op'[o].token) = LoginOf(op[o].token)
      /\ UNCHANGED <<status, screen, access, user, stored, carried, disk>>
  BY PresentFacts, Rotating, Names DEF Basics
<1>2. \A a, b \in Op : Before(a, b)' <=> Before(a, b)
  BY <1>1 DEF Before
<1>3. /\ Refresher \subseteq Run /\ Restorer \subseteq Run /\ Run \subseteq Op
      /\ Submitter \subseteq Op /\ Leaver \subseteq Op /\ Submitter \cap Run = {} /\ Leaver \cap Run = {}
      /\ Submitter \cap Leaver = {}
      /\ Refresher \cap Restorer = {} /\ Run = Refresher \cup Restorer
  BY Names
<1>4. NoFailedWrite'
  BY <1>0, <1>1, <1>2, <1>3 DEF NoFailedWrite, SoundInv
<1>5. WhileClearing'
  BY <1>0, <1>1, <1>2, <1>3 DEF WhileClearing, SoundInv, Active, Clearing, LoginWrites, Writes, LogoutPending, Pending, Before
<1>6. BeyondRestoration'
  BY <1>0, <1>1, <1>2, <1>3 DEF BeyondRestoration, SeenIn, SoundInv, Active, LogoutPending, Pending, Busy
<1>7. WhileLoggingIn'
  BY <1>0, <1>1, <1>2, <1>3 DEF WhileLoggingIn, SoundInv, Active, LoginWrites, Writes, Before, Busy
<1>8. SignedOut'
  BY <1>0, <1>1, <1>2, <1>3 DEF SignedOut, TokensCurrent, WhileLoggingIn, SoundInv, Active, LoginWrites, Writes, LogoutPending, Pending
<1>9. WhileRestoring'
  BY <1>0, <1>1, <1>2, <1>3 DEF WhileRestoring, SoundInv, Active
<1>10. TokensCurrent'
  BY <1>0, <1>1, <1>2, <1>3 DEF TokensCurrent, SoundInv, Active
<1>11. RefreshWaitedFor'
  BY <1>0, <1>1, <1>2, <1>3 DEF RefreshWaitedFor, TokensCurrent, SoundInv, Active
<1>12. RestoredOnce'
  BY <1>0, <1>1, <1>2, <1>3 DEF RestoredOnce, SoundInv, Active
<1>13. SignedIn'
  BY <1>0, <1>1, <1>2, <1>3 DEF SignedIn, SoundInv, Clearing, Busy, Leaves, LoginWrites, Writes
<1>14. RestorationFailed'
  BY <1>0, <1>1, <1>2, <1>3 DEF RestorationFailed, SoundInv, Clearing
<1>15. WhileUndoing'
  BY <1>0, <1>1, <1>2, <1>3 DEF WhileUndoing, SoundInv, LogoutPending, Pending
<1>16. QED
  BY <1>4, <1>5, <1>6, <1>7, <1>8, <1>9, <1>10, <1>11, <1>12, <1>13, <1>14, <1>15 DEF SoundInv

LEMMA FailsSound ==
  ASSUME Basics, SoundInv, NEW o \in Restorer, Fails(o)
  PROVE  SoundInv'
<1>0. SessionTypeOK /\ Queue /\ \A p \in Op : op[p] \in OpState
  BY OpType, Names
<1>1. /\ op[o].pc \in {"sent", "answered", "me", "meAgain", "meFailed"} /\ ~op[o].stale /\ o \in Op
      /\ \/ op'[o].pc = "delay" /\ op'[o].stale = op[o].stale /\ status' = status
         \/ op'[o].pc = "idle" /\ status' = "restoration-error"
      /\ \A p \in Op : p # o => op'[p] = op[p]
      /\ UNCHANGED <<screen, access, user, stored, carried, disk>>
  BY FailsFacts, Names DEF Fails, RetryLater
<1>2. \A a, b \in Op : Before(a, b)' <=> Before(a, b)
  BY <1>1 DEF Before
<1>3. /\ Refresher \subseteq Run /\ Restorer \subseteq Run /\ Run \subseteq Op
      /\ Submitter \subseteq Op /\ Leaver \subseteq Op /\ Submitter \cap Run = {} /\ Leaver \cap Run = {}
      /\ Submitter \cap Leaver = {}
      /\ Refresher \cap Restorer = {} /\ Run = Refresher \cup Restorer
  BY Names
<1>4. /\ status = "restoring" /\ stored # Nothing /\ ~LoginWrites /\ ~LogoutPending /\ ~carried
      /\ ~SeenIn /\ \A p \in Submitter \cup Leaver : op[p].pc = "idle"
      /\ \A c \in Op : ~Clearing(c)
      /\ \A r \in Refresher : ~Active(r)
      /\ \A s \in Restorer : Busy(s) => s = o
  <2>1. Active(o) /\ op[o].pc \notin {"reading", "meWaits"} /\ op[o].pc # "idle"
    BY <1>1, <1>3 DEF Active
  <2>2. \A s \in Restorer : Busy(s) => s = o
    BY <1>3, <2>1 DEF Basics, OneEach, Busy
  <2>3. status \in {"restoring", "unauthenticated"} /\ stored # Nothing
    BY <1>1, <2>1 DEF SoundInv, WhileRestoring
  <2>4. ~LoginWrites /\ ~LogoutPending
    BY <1>1, <2>1 DEF SoundInv, BeyondRestoration, LoginWrites, Writes
  <2>5. status = "restoring"
    BY <1>1, <1>3, <2>1, <2>3, <2>4 DEF SoundInv, SignedOut
  <2>6. ~SeenIn /\ \A p \in Submitter \cup Leaver : op[p].pc = "idle"
    BY <2>5 DEF SoundInv, BeyondRestoration, Busy
  <2>7. ~carried
    BY <1>1, <1>3, <2>1, <2>5 DEF SoundInv, RestoredOnce
  <2>8. \A c \in Op : ~Clearing(c)
    BY <1>1, <1>3, <2>1 DEF SoundInv, WhileClearing
  <2>9. \A r \in Refresher : ~Active(r)
    BY <1>1, <1>3, <2>1, <2>2, <2>3, <2>5 DEF SoundInv, RefreshWaitedFor, Busy
  <2>10. QED  BY <2>2, <2>3, <2>4, <2>5, <2>6, <2>7, <2>8, <2>9
<1>5. NoFailedWrite'
  BY <1>0, <1>1, <1>2, <1>3, <1>4 DEF NoFailedWrite, SoundInv
<1>6. WhileClearing'
  BY <1>0, <1>1, <1>2, <1>3, <1>4 DEF WhileClearing, SoundInv, Active, Clearing, LoginWrites, Writes, LogoutPending, Pending, Before
<1>7. BeyondRestoration'
  BY <1>0, <1>1, <1>2, <1>3, <1>4 DEF BeyondRestoration, SeenIn, SoundInv, Active, LogoutPending, Pending, Busy
<1>8. WhileLoggingIn'
  BY <1>0, <1>1, <1>2, <1>3, <1>4 DEF WhileLoggingIn, SoundInv, Active, LoginWrites, Writes, Before, Busy
<1>9. SignedOut'
  BY <1>0, <1>1, <1>2, <1>3, <1>4 DEF SignedOut, SoundInv, Active, LoginWrites, Writes, LogoutPending, Pending
<1>10. WhileRestoring'
  BY <1>0, <1>1, <1>2, <1>3, <1>4 DEF WhileRestoring, Busy, SoundInv, Active
<1>11. TokensCurrent'
  BY <1>0, <1>1, <1>2, <1>3, <1>4 DEF TokensCurrent, SoundInv, Active
<1>12. RefreshWaitedFor'
  BY <1>0, <1>1, <1>2, <1>3, <1>4 DEF RefreshWaitedFor, SoundInv, Active
<1>13. RestoredOnce'
  BY <1>0, <1>1, <1>2, <1>3, <1>4 DEF RestoredOnce, SoundInv, Active
<1>14. SignedIn'
  BY <1>0, <1>1, <1>2, <1>3, <1>4 DEF SignedIn, SoundInv, Clearing, Busy, Leaves, LoginWrites, Writes
<1>15. RestorationFailed'
  BY <1>0, <1>1, <1>2, <1>3, <1>4 DEF RestorationFailed, SoundInv, Clearing
<1>16. WhileUndoing'
  BY <1>0, <1>1, <1>2, <1>3, <1>4 DEF WhileUndoing, SoundInv, LogoutPending, Pending
<1>17. QED
  BY <1>5, <1>6, <1>7, <1>8, <1>9, <1>10, <1>11, <1>12, <1>13, <1>14, <1>15, <1>16 DEF SoundInv

LEMMA PersistsSound ==
  ASSUME Basics, SoundInv, Sound', NEW o \in Run, Persists(o)
  PROVE  SoundInv'
<1>0. SessionTypeOK /\ Queue /\ \A p \in Op : op[p] \in OpState
  BY OpType, Names
<1>1. /\ op[o].pc = "answered" /\ ~op[o].stale /\ o \in Op
      /\ op'[o].pc = "storing" /\ stored' = op[o].token /\ op'[o].token = op[o].token /\ ~op'[o].stale
      /\ op[o].token # Nothing
      /\ \A p \in Op : p # o => op'[p] = op[p]
      /\ UNCHANGED <<status, screen, access, user, carried>>
  BY PersistsFacts, Names DEF Persists, Persist, Sound
<1>2. /\ \A a, b \in Op : b # o => (Before(a, b)' <=> Before(a, b) /\ (a # o \/ disk' = disk))
      /\ \A a \in Op : a # o /\ op[a].pc \in OnDisk => Before(a, o)'
  <2>1. Called(o) /\ o \in Op /\ DiskMove(o) /\ \A p \in Op : p # o => Similar(p)
    BY <1>1, PersistsFacts DEF AppStep
  <2>2. QED  BY <1>0, <2>1, Queueing
<1>3. /\ Refresher \subseteq Run /\ Restorer \subseteq Run /\ Run \subseteq Op
      /\ Submitter \subseteq Op /\ Leaver \subseteq Op /\ Submitter \cap Run = {} /\ Leaver \cap Run = {}
      /\ Submitter \cap Leaver = {}
      /\ Refresher \cap Restorer = {} /\ Run = Refresher \cup Restorer
  BY Names
<1>4. /\ Active(o) /\ LoginOf(op[o].token) = LoginOf(stored) /\ stored # Nothing
      /\ \A c \in Op : ~Clearing(c)
      /\ ~LoginWrites /\ (LogoutPending \/ status # "unauthenticated")
      /\ \A b \in Submitter : op[b].pc = "storing" => o \in Refresher
      /\ LogoutPending => o \in Refresher
      /\ ~(carried /\ status \in {"restoring", "restoration-error"})
  <2>1. Active(o)
    BY <1>1 DEF Active
  <2>2. LoginOf(op[o].token) = LoginOf(stored)
    BY <1>1, <2>1 DEF SoundInv, TokensCurrent
  <2>3. stored # Nothing
    BY <1>1, <2>2, HeldGenuine, LoginOfHeld, TokenFacts DEF Basics, SessionTypeOK
  <2>4. \A c \in Op : ~Clearing(c)
    BY <1>1, <2>1 DEF SoundInv, WhileClearing
  <2>5. /\ \A b \in Submitter : op[b].pc = "storing" => o \in Refresher
        /\ LogoutPending => o \in Refresher
        /\ ~LoginWrites
    BY <1>1, <1>3, <2>1 DEF SoundInv, BeyondRestoration, WhileLoggingIn, LoginWrites, Writes
  <2>6. LogoutPending \/ status # "unauthenticated"
    BY <1>1, <2>1, <2>5 DEF SoundInv, SignedOut
  <2>7. ~(carried /\ status \in {"restoring", "restoration-error"})
    BY <1>1, <2>1 DEF SoundInv, RestoredOnce
  <2>8. QED  BY <2>1, <2>2, <2>3, <2>4, <2>5, <2>6, <2>7
<1>5. \A p \in Run : p # o /\ Active(p) => p \in Restorer /\ op[p].pc = "meWaits" /\ status = "restoring"
  <2> SUFFICES ASSUME NEW p \in Run, p # o, Active(p)
               PROVE  p \in Restorer /\ op[p].pc = "meWaits" /\ status = "restoring"
    OBVIOUS
  <2>1. Busy(p) /\ Busy(o)
    BY <1>4 DEF Active, Busy
  <2>2. \/ p \in Restorer /\ o \in Refresher
        \/ p \in Refresher /\ o \in Restorer
    BY <1>3, <2>1 DEF Basics, OneEach
  <2>3. status = "restoring"
    BY <1>3, <1>4, <2>2 DEF SoundInv, WhileRestoring, BeyondRestoration
  <2>4. CASE p \in Restorer /\ o \in Refresher
    <3>1. PICK s \in Restorer : op[s].pc = "meWaits"
      BY <1>4, <2>3, <2>4 DEF SoundInv, RefreshWaitedFor
    <3>2. s = p
      BY <2>1, <2>4, <3>1 DEF Basics, OneEach, Busy
    <3>3. QED  BY <2>3, <2>4, <3>1, <3>2
  <2>5. CASE p \in Refresher /\ o \in Restorer
    <3>1. PICK s \in Restorer : op[s].pc = "meWaits"
      BY <1>4, <2>3, <2>5 DEF SoundInv, RefreshWaitedFor
    <3>2. s = o
      BY <2>1, <2>5, <3>1 DEF Basics, OneEach, Busy
    <3>3. QED  BY <1>1, <3>1, <3>2
  <2>6. QED  BY <2>2, <2>4, <2>5
<1>6. \A q \in Op : q # o => op[q].token # op[o].token
  BY <1>1 DEF Basics, Unique
<1>7. NoFailedWrite'
  BY <1>0, <1>1, <1>2, <1>3, <1>4, <1>5, <1>6 DEF NoFailedWrite, SoundInv
<1>8. WhileClearing'
  BY <1>0, <1>1, <1>2, <1>3, <1>4, <1>5, <1>6 DEF WhileClearing, SoundInv, Active, Clearing, LoginWrites, Writes, LogoutPending, Pending, Before
<1>9. BeyondRestoration'
  BY <1>0, <1>1, <1>2, <1>3, <1>4, <1>5, <1>6 DEF BeyondRestoration, SeenIn, SoundInv, Active, LogoutPending, Pending, Busy
<1>10. WhileLoggingIn'
  <2>1. \A b \in Submitter : b # o /\ op'[b] = op[b] /\ ~Writes(b)'
    BY <1>1, <1>3, <1>4 DEF LoginWrites, Writes
  <2>2. \A b \in Submitter, p \in Run :
          op'[b].pc = "storing" /\ op'[p].pc \in {"storing", "comparing"} => op'[p].token # op'[b].token
    BY <1>1, <1>3, <1>6, <2>1 DEF SoundInv, WhileLoggingIn
  <2>3. QED  BY <2>1, <2>2 DEF WhileLoggingIn
<1>11. SignedOut'
  BY <1>0, <1>1, <1>2, <1>3, <1>4, <1>5, <1>6 DEF SignedOut, SoundInv, Active, LoginWrites, Writes, LogoutPending, Pending
<1>12. WhileRestoring'
  BY <1>0, <1>1, <1>2, <1>3, <1>4, <1>5, <1>6 DEF WhileRestoring, SoundInv, Active
<1>13. TokensCurrent'
  BY <1>0, <1>1, <1>2, <1>3, <1>4, <1>5, <1>6 DEF TokensCurrent, SoundInv, Active
<1>14. RefreshWaitedFor'
  BY <1>0, <1>1, <1>2, <1>3, <1>4, <1>5, <1>6 DEF RefreshWaitedFor, SoundInv, Active
<1>15. RestoredOnce'
  BY <1>0, <1>1, <1>2, <1>3, <1>4, <1>5, <1>6 DEF RestoredOnce, SoundInv, Active
<1>16. SignedIn'
  BY <1>0, <1>1, <1>2, <1>3, <1>4, <1>5, <1>6 DEF SignedIn, SoundInv, Clearing, Busy, Leaves, LoginWrites, Writes
<1>17. RestorationFailed'
  BY <1>0, <1>1, <1>2, <1>3, <1>4, <1>5, <1>6 DEF RestorationFailed, SoundInv, Clearing
<1>18. WhileUndoing'
  BY <1>1, <1>3, <1>6 DEF WhileUndoing
<1>19. QED
  BY <1>7, <1>8, <1>9, <1>10, <1>11, <1>12, <1>13, <1>14, <1>15, <1>16, <1>17, <1>18 DEF SoundInv

LEMMA UndoSound ==
  ASSUME Basics, SoundInv, NEW o \in Run, Persisted(o), op[o].stale
  PROVE  SoundInv'
<1>0. SessionTypeOK /\ Queue /\ \A p \in Op : op[p] \in OpState
  BY OpType, Names
<1>1. /\ op'[o].pc = "comparing" /\ op'[o].token = op[o].token /\ op'[o].stale /\ op[o].pc = "storing" /\ op[o].stale /\ o \in Op
      /\ op'[o].matches <=> stored = op[o].token
      /\ \A p \in Op : p # o => op'[p] = op[p]
      /\ UNCHANGED <<status, screen, access, user, stored, carried>>
  BY UndoFacts, Names
<1>2. /\ \A a \in Op : ~Before(a, o)
      /\ \A a, b \in Op : b # o => (Before(a, b)' <=> Before(a, b) /\ (a # o \/ disk' = disk))
      /\ \A a \in Op : a # o /\ op[a].pc \in OnDisk => Before(a, o)'
  <2>1. Resumable(o) /\ Called(o) /\ o \in Op /\ DiskMove(o) /\ \A p \in Op : p # o => Similar(p)
    BY <1>1, UndoFacts DEF AppStep
  <2>2. QED  BY <1>0, <2>1, FirstInLine, Queueing
<1>3. /\ Refresher \subseteq Run /\ Restorer \subseteq Run /\ Run \subseteq Op
      /\ Submitter \subseteq Op /\ Leaver \subseteq Op /\ Submitter \cap Run = {} /\ Leaver \cap Run = {}
      /\ Submitter \cap Leaver = {}
      /\ Refresher \cap Restorer = {} /\ Run = Refresher \cup Restorer
  BY Names
<1>4. NoFailedWrite'
  BY <1>0, <1>1, <1>2, <1>3 DEF NoFailedWrite, SoundInv
<1>5. WhileClearing'
  BY <1>0, <1>1, <1>2, <1>3 DEF WhileClearing, SoundInv, Active, Clearing, LoginWrites, Writes, LogoutPending, Pending, Before
<1>6. BeyondRestoration'
  BY <1>0, <1>1, <1>2, <1>3 DEF BeyondRestoration, SeenIn, SoundInv, Active, LogoutPending, Pending, Busy
<1>7. WhileLoggingIn'
  BY <1>0, <1>1, <1>2, <1>3 DEF WhileLoggingIn, SoundInv, Active, LoginWrites, Writes, Before, Busy
<1>8. SignedOut'
  BY <1>0, <1>1, <1>2, <1>3 DEF SignedOut, SoundInv, Active, LoginWrites, Writes, LogoutPending, Pending
<1>9. WhileRestoring'
  BY <1>0, <1>1, <1>2, <1>3 DEF WhileRestoring, SoundInv, Active
<1>10. TokensCurrent'
  BY <1>0, <1>1, <1>2, <1>3 DEF TokensCurrent, SoundInv, Active
<1>11. RefreshWaitedFor'
  BY <1>0, <1>1, <1>2, <1>3 DEF RefreshWaitedFor, SoundInv, Active
<1>12. RestoredOnce'
  BY <1>0, <1>1, <1>2, <1>3 DEF RestoredOnce, SoundInv, Active
<1>13. SignedIn'
  BY <1>0, <1>1, <1>2, <1>3 DEF SignedIn, SoundInv, Clearing, Busy, Leaves, LoginWrites, Writes
<1>14. RestorationFailed'
  BY <1>0, <1>1, <1>2, <1>3 DEF RestorationFailed, SoundInv, Clearing
<1>15. WhileUndoing'
  BY <1>0, <1>1, <1>2, <1>3 DEF WhileUndoing, SoundInv, LogoutPending, Pending
<1>16. QED
  BY <1>4, <1>5, <1>6, <1>7, <1>8, <1>9, <1>10, <1>11, <1>12, <1>13, <1>14, <1>15 DEF SoundInv

LEMMA RefreshedSound ==
  ASSUME Basics, SoundInv, NEW o \in Run, Persisted(o), ~op[o].stale
  PROVE  SoundInv'
<1>0. SessionTypeOK /\ Queue /\ \A p \in Op : op[p] \in OpState
  BY OpType, Names
<1>1. /\ op[o].pc = "storing" /\ ~op[o].stale /\ o \in Op /\ access' = LoginOf(op[o].token)
      /\ o \in Refresher => op'[o].pc = "idle"
      /\ o \in Restorer => op'[o].pc = "me" /\ ~op'[o].stale
      /\ \A p \in Op : p # o => /\ op'[p].token = op[p].token /\ op'[p].matches = op[p].matches
                                   /\ op'[p].stale = op[p].stale
                                   /\ \/ op'[p].pc = op[p].pc
                                      \/ op[p].pc = "meWaits" /\ op'[p].pc = "meAgain"
      /\ UNCHANGED <<status, screen, user, stored, carried>>
  BY RefreshedFacts, Names DEF Similar
<1>2. /\ \A a \in Op : ~Before(a, o)
      /\ \A a, b \in Op : b # o => (Before(a, b)' <=> Before(a, b) /\ (a # o \/ disk' = disk))
  <2>1. Resumable(o) /\ o \in Op /\ DiskMove(o) /\ \A p \in Op : p # o => Similar(p)
    BY <1>1, RefreshedFacts DEF AppStep
  <2>2. QED  BY <1>0, <2>1, FirstInLine, Queueing
<1>3. /\ Refresher \subseteq Run /\ Restorer \subseteq Run /\ Run \subseteq Op
      /\ Submitter \subseteq Op /\ Leaver \subseteq Op /\ Submitter \cap Run = {} /\ Leaver \cap Run = {}
      /\ Submitter \cap Leaver = {}
      /\ Refresher \cap Restorer = {} /\ Run = Refresher \cup Restorer
  BY Names
<1>4. /\ Active(o) /\ op[o].token = stored /\ stored # Nothing
      /\ \A c \in Op : ~Clearing(c)
      /\ ~LoginWrites /\ (LogoutPending \/ status # "unauthenticated")
      /\ \A b \in Submitter : op[b].pc = "storing" => o \in Refresher
      /\ LogoutPending => o \in Refresher
      /\ ~(carried /\ status \in {"restoring", "restoration-error"})
  <2>1. Active(o)
    BY <1>1 DEF Active
  <2>2. op[o].token = stored /\ stored # Nothing
    BY <1>1, <2>1 DEF SoundInv, TokensCurrent, Basics, Carries
  <2>4. \A c \in Op : ~Clearing(c)
    BY <1>1, <2>1 DEF SoundInv, WhileClearing
  <2>5. /\ \A b \in Submitter : op[b].pc = "storing" => o \in Refresher
        /\ LogoutPending => o \in Refresher
        /\ ~LoginWrites
    BY <1>1, <1>3, <2>1 DEF SoundInv, BeyondRestoration, WhileLoggingIn, LoginWrites, Writes
  <2>6. LogoutPending \/ status # "unauthenticated"
    BY <1>1, <2>1, <2>5 DEF SoundInv, SignedOut
  <2>7. ~(carried /\ status \in {"restoring", "restoration-error"})
    BY <1>1, <2>1 DEF SoundInv, RestoredOnce
  <2>8. QED  BY <2>1, <2>2, <2>4, <2>5, <2>6, <2>7
<1>5. /\ \A p, q \in Refresher : Busy(p) /\ Busy(q) => p = q
      /\ \A p, q \in Restorer : Busy(p) /\ Busy(q) => p = q
      /\ Busy(o)
  BY <1>1 DEF Basics, OneEach, Busy
<1>6. NoFailedWrite'
  BY <1>0, <1>1, <1>2, <1>3, <1>4, <1>5 DEF NoFailedWrite, SoundInv
<1>7. WhileClearing'
  BY <1>0, <1>1, <1>2, <1>3, <1>4, <1>5 DEF WhileClearing, SoundInv, Active, Clearing, LoginWrites, Writes, LogoutPending, Pending, Before
<1>8. BeyondRestoration'
  BY <1>0, <1>1, <1>2, <1>3, <1>4, <1>5 DEF BeyondRestoration, SeenIn, SoundInv, Active, LogoutPending, Pending, Busy
<1>9. WhileLoggingIn'
  BY <1>0, <1>1, <1>2, <1>3, <1>4, <1>5 DEF WhileLoggingIn, SoundInv, Active, LoginWrites, Writes, Before, Busy
<1>10. SignedOut'
  BY <1>0, <1>1, <1>2, <1>3, <1>4, <1>5 DEF SignedOut, SoundInv, Active, LoginWrites, Writes, LogoutPending, Pending
<1>11. WhileRestoring'
  BY <1>0, <1>1, <1>2, <1>3, <1>4, <1>5 DEF WhileRestoring, Busy, SoundInv, Active
<1>12. TokensCurrent'
  BY <1>0, <1>1, <1>2, <1>3, <1>4, <1>5 DEF TokensCurrent, SoundInv, Active
<1>13. RefreshWaitedFor'
  BY <1>0, <1>1, <1>2, <1>3, <1>4, <1>5 DEF RefreshWaitedFor, Busy, SoundInv, Active
<1>14. RestoredOnce'
  BY <1>0, <1>1, <1>2, <1>3, <1>4, <1>5 DEF RestoredOnce, SoundInv, Active
<1>15. SignedIn'
  BY <1>0, <1>1, <1>2, <1>3, <1>4, <1>5 DEF SignedIn, SoundInv, Clearing, Busy, Leaves, LoginWrites, Writes
<1>16. RestorationFailed'
  BY <1>0, <1>1, <1>2, <1>3, <1>4, <1>5 DEF RestorationFailed, SoundInv, Clearing
<1>17. WhileUndoing'
  BY <1>0, <1>1, <1>2, <1>3, <1>4, <1>5 DEF WhileUndoing, SoundInv, LogoutPending, Pending
<1>18. QED
  BY <1>6, <1>7, <1>8, <1>9, <1>10, <1>11, <1>12, <1>13, <1>14, <1>15, <1>16, <1>17 DEF SoundInv

LEMMA DeletesSound ==
  ASSUME Basics, SoundInv, Sound', NEW o \in Run, Deletes(o)
  PROVE  SoundInv'
<1>0. SessionTypeOK /\ Queue /\ \A p \in Op : op[p] \in OpState
  BY OpType, Names
<1>1. /\ op'[o].pc = "deleting" /\ op[o].pc = "comparing" /\ op[o].matches /\ op[o].stale /\ op'[o].stale
      /\ o \in Op /\ stored' = Nothing /\ stored \in {Nothing, op[o].token} /\ op[o].token # Nothing
      /\ \A p \in Op : p # o => op'[p] = op[p]
      /\ UNCHANGED <<status, screen, access, user, carried>>
  BY DeletesFacts, Names DEF Deletes, Sound, Basics, Carries
<1>2. /\ \A a \in Op : ~Before(a, o)
      /\ \A a, b \in Op : b # o => (Before(a, b)' <=> Before(a, b) /\ (a # o \/ disk' = disk))
      /\ \A a \in Op : a # o /\ op[a].pc \in OnDisk => Before(a, o)'
  <2>1. Resumable(o) /\ Called(o) /\ o \in Op /\ DiskMove(o) /\ \A p \in Op : p # o => Similar(p)
    BY <1>1, DeletesFacts DEF AppStep
  <2>2. QED  BY <1>0, <2>1, FirstInLine, Queueing
<1>3. /\ Refresher \subseteq Run /\ Restorer \subseteq Run /\ Run \subseteq Op
      /\ Submitter \subseteq Op /\ Leaver \subseteq Op /\ Submitter \cap Run = {} /\ Leaver \cap Run = {}
      /\ Submitter \cap Leaver = {}
      /\ Refresher \cap Restorer = {} /\ Run = Refresher \cup Restorer
  BY Names
<1>4. stored # Nothing =>
        o \in Refresher /\ LogoutPending /\ Leaves /\ ~LoginWrites /\ status \in {"unauthenticated", "authenticated"}
  <2>1. stored # Nothing => o \in Refresher /\ LogoutPending
    BY <1>1 DEF SoundInv, WhileUndoing
  <2>2. LogoutPending => Leaves /\ SeenIn
    BY DEF LogoutPending, Pending, Leaves, Busy, SoundInv, BeyondRestoration
  <2>3. stored # Nothing => ~LoginWrites
    BY <1>1 DEF SoundInv, WhileLoggingIn, LoginWrites, Writes
  <2>4. QED  BY <2>1, <2>2, <2>3 DEF SoundInv, BeyondRestoration
<1>5. stored # Nothing => \A p \in Run : ~Active(p)
  BY <1>1, <1>3, <1>4 DEF Basics, OneEach, SoundInv, BeyondRestoration, Active, Busy
<1>6. \A p \in Op : Carries(p)
  BY DEF Basics
<1>7. NoFailedWrite'
  BY <1>0, <1>1, <1>2, <1>3, <1>4, <1>5, <1>6 DEF NoFailedWrite, SoundInv
<1>8. WhileClearing'
  BY <1>0, <1>1, <1>2, <1>3, <1>4, <1>5, <1>6 DEF WhileClearing, SoundInv, Active, Clearing, LoginWrites, Writes, LogoutPending, Pending, Before
<1>9. BeyondRestoration'
  BY <1>0, <1>1, <1>2, <1>3, <1>4, <1>5, <1>6 DEF BeyondRestoration, SeenIn, SoundInv, Active, LogoutPending, Pending, Busy
<1>10. WhileLoggingIn'
  BY <1>0, <1>1, <1>2, <1>3, <1>4, <1>5, <1>6 DEF WhileLoggingIn, SoundInv, Active, LoginWrites, Writes, Before, Busy
<1>11. SignedOut'
  BY <1>0, <1>1, <1>2, <1>3, <1>4, <1>5, <1>6 DEF SignedOut, SoundInv, Active, LoginWrites, Writes, LogoutPending, Pending
<1>12. WhileRestoring'
  BY <1>0, <1>1, <1>2, <1>3, <1>4, <1>5, <1>6 DEF WhileRestoring, SoundInv, Active
<1>13. TokensCurrent'
  BY <1>0, <1>1, <1>2, <1>3, <1>4, <1>5, <1>6 DEF TokensCurrent, SoundInv, Active
<1>14. RefreshWaitedFor'
  BY <1>0, <1>1, <1>2, <1>3, <1>4, <1>5, <1>6 DEF RefreshWaitedFor, SoundInv, Active
<1>15. RestoredOnce'
  BY <1>0, <1>1, <1>2, <1>3, <1>4, <1>5, <1>6 DEF RestoredOnce, SoundInv, Active
<1>16. SignedIn'
  BY <1>0, <1>1, <1>2, <1>3, <1>4, <1>5, <1>6 DEF SignedIn, SoundInv, Clearing, Busy, Leaves, LoginWrites, Writes
<1>17. RestorationFailed'
  BY <1>0, <1>1, <1>2, <1>3, <1>4, <1>5, <1>6 DEF RestorationFailed, SoundInv, Clearing
<1>18. WhileUndoing'
  BY <1>0, <1>1, <1>2, <1>3, <1>4, <1>5, <1>6 DEF WhileUndoing, Carries, SoundInv, LogoutPending, Pending
<1>19. QED
  BY <1>7, <1>8, <1>9, <1>10, <1>11, <1>12, <1>13, <1>14, <1>15, <1>16, <1>17, <1>18 DEF SoundInv

LEMMA RepeatsSound ==
  ASSUME Basics, SoundInv, NEW o \in Restorer, Repeats(o)
  PROVE  SoundInv'
<1>0. SessionTypeOK /\ Queue /\ \A p \in Op : op[p] \in OpState
  BY OpType, Names
<1>1. /\ op[o].pc = "delay" /\ ~op[o].stale /\ o \in Op /\ o \in Run
      /\ op'[o].pc = "reading" /\ ~op'[o].stale /\ op'[o].token = stored
      /\ \A p \in Op : p # o => op'[p] = op[p]
      /\ Called(o) /\ AppStep(o)
      /\ UNCHANGED <<status, screen, access, user, stored, carried>>
  <2>1. /\ o \in Op /\ o \in Run /\ Begin(o, 2) /\ op[o].pc \notin OnDisk /\ Busy(o)
        /\ op[o].pc = "delay" /\ ~op[o].stale
        /\ UNCHANGED <<status, screen, access, user, stored, carried, backend, ended, disturbed>>
    BY Names DEF Repeats, OnDisk, Busy
  <2>2. QED  BY <2>1, BeginsFacts
<1>2. /\ \A a, b \in Op : b # o => (Before(a, b)' <=> Before(a, b) /\ (a # o \/ disk' = disk))
      /\ \A a \in Op : a # o /\ op[a].pc \in OnDisk => Before(a, o)'
  <2>1. Called(o) /\ o \in Op /\ DiskMove(o) /\ \A p \in Op : p # o => Similar(p)
    BY <1>1 DEF AppStep
  <2>2. QED  BY <1>0, <2>1, Queueing
<1>3. /\ Refresher \subseteq Run /\ Restorer \subseteq Run /\ Run \subseteq Op
      /\ Submitter \subseteq Op /\ Leaver \subseteq Op /\ Submitter \cap Run = {} /\ Leaver \cap Run = {}
      /\ Submitter \cap Leaver = {}
      /\ Refresher \cap Restorer = {} /\ Run = Refresher \cup Restorer
  BY Names
<1>4. /\ status = "restoring" /\ stored # Nothing /\ ~LoginWrites /\ ~LogoutPending /\ ~carried
      /\ ~SeenIn /\ \A p \in Submitter \cup Leaver : op[p].pc = "idle"
      /\ \A c \in Op : ~Clearing(c)
      /\ \A r \in Refresher : ~Active(r)
      /\ \A s \in Restorer : Busy(s) => s = o
  <2>1. Active(o) /\ op[o].pc \notin {"reading", "meWaits"} /\ op[o].pc # "idle"
    BY <1>1, <1>3 DEF Active
  <2>2. \A s \in Restorer : Busy(s) => s = o
    BY <1>3, <2>1 DEF Basics, OneEach, Busy
  <2>3. status \in {"restoring", "unauthenticated"} /\ stored # Nothing
    BY <1>1, <2>1 DEF SoundInv, WhileRestoring
  <2>4. ~LoginWrites /\ ~LogoutPending
    BY <1>1, <2>1 DEF SoundInv, BeyondRestoration, LoginWrites, Writes
  <2>5. status = "restoring"
    BY <1>1, <1>3, <2>1, <2>3, <2>4 DEF SoundInv, SignedOut
  <2>6. ~SeenIn /\ \A p \in Submitter \cup Leaver : op[p].pc = "idle"
    BY <2>5 DEF SoundInv, BeyondRestoration, Busy
  <2>7. ~carried
    BY <1>1, <1>3, <2>1, <2>5 DEF SoundInv, RestoredOnce
  <2>8. \A c \in Op : ~Clearing(c)
    BY <1>1, <1>3, <2>1 DEF SoundInv, WhileClearing
  <2>9. \A r \in Refresher : ~Active(r)
    BY <1>1, <1>3, <2>1, <2>2, <2>3, <2>5 DEF SoundInv, RefreshWaitedFor, Busy
  <2>10. QED  BY <2>2, <2>3, <2>4, <2>5, <2>6, <2>7, <2>8, <2>9
<1>5. NoFailedWrite'
  BY <1>0, <1>1, <1>2, <1>3, <1>4 DEF NoFailedWrite, SoundInv
<1>6. WhileClearing'
  BY <1>0, <1>1, <1>2, <1>3, <1>4 DEF WhileClearing, SoundInv, Active, Clearing, LoginWrites, Writes, LogoutPending, Pending, Before
<1>7. BeyondRestoration'
  BY <1>0, <1>1, <1>2, <1>3, <1>4 DEF BeyondRestoration, SeenIn, SoundInv, Active, LogoutPending, Pending, Busy
<1>8. WhileLoggingIn'
  BY <1>0, <1>1, <1>2, <1>3, <1>4 DEF WhileLoggingIn, SoundInv, Active, LoginWrites, Writes, Before, Busy
<1>9. SignedOut'
  BY <1>0, <1>1, <1>2, <1>3, <1>4 DEF SignedOut, SoundInv, Active, LoginWrites, Writes, LogoutPending, Pending
<1>10. WhileRestoring'
  BY <1>0, <1>1, <1>2, <1>3, <1>4 DEF WhileRestoring, SoundInv, Active
<1>11. TokensCurrent'
  BY <1>0, <1>1, <1>2, <1>3, <1>4 DEF TokensCurrent, SoundInv, Active
<1>12. RefreshWaitedFor'
  BY <1>0, <1>1, <1>2, <1>3, <1>4 DEF RefreshWaitedFor, SoundInv, Active
<1>13. RestoredOnce'
  BY <1>0, <1>1, <1>2, <1>3, <1>4 DEF RestoredOnce, SoundInv, Active
<1>14. SignedIn'
  BY <1>0, <1>1, <1>2, <1>3, <1>4 DEF SignedIn, SoundInv, Clearing, Busy, Leaves, LoginWrites, Writes
<1>15. RestorationFailed'
  BY <1>0, <1>1, <1>2, <1>3, <1>4 DEF RestorationFailed, SoundInv, Clearing
<1>16. WhileUndoing'
  BY <1>0, <1>1, <1>2, <1>3, <1>4 DEF WhileUndoing, SoundInv, LogoutPending, Pending
<1>17. QED
  BY <1>5, <1>6, <1>7, <1>8, <1>9, <1>10, <1>11, <1>12, <1>13, <1>14, <1>15, <1>16 DEF SoundInv

LEMMA SucceedsSound ==
  ASSUME Basics, SoundInv, NEW o \in Restorer, Succeeds(o)
  PROVE  SoundInv'
<1>0. SessionTypeOK /\ Queue /\ \A p \in Op : op[p] \in OpState
  BY OpType, Names
<1>1. /\ op[o].pc \in {"me", "meAgain"} /\ ~op[o].stale /\ o \in Op /\ op'[o].pc = "idle"
      /\ user' = access /\ status' = "authenticated" /\ carried' = TRUE
      /\ \A p \in Op : p # o => op'[p] = op[p]
      /\ UNCHANGED <<screen, access, stored, disk>>
  BY SucceedsFacts, Names DEF Succeeds
<1>2. \A a, b \in Op : Before(a, b)' <=> Before(a, b)
  BY <1>1 DEF Before
<1>3. /\ Refresher \subseteq Run /\ Restorer \subseteq Run /\ Run \subseteq Op
      /\ Submitter \subseteq Op /\ Leaver \subseteq Op /\ Submitter \cap Run = {} /\ Leaver \cap Run = {}
      /\ Submitter \cap Leaver = {}
      /\ Refresher \cap Restorer = {} /\ Run = Refresher \cup Restorer
  BY Names
<1>4. /\ status = "restoring" /\ stored # Nothing /\ ~LoginWrites /\ ~LogoutPending /\ ~carried
      /\ ~SeenIn /\ \A p \in Submitter \cup Leaver : op[p].pc = "idle"
      /\ \A c \in Op : ~Clearing(c)
      /\ \A r \in Refresher : ~Active(r)
      /\ \A s \in Restorer : Busy(s) => s = o
  <2>1. Active(o) /\ op[o].pc \notin {"reading", "meWaits"} /\ op[o].pc # "idle"
    BY <1>1, <1>3 DEF Active
  <2>2. \A s \in Restorer : Busy(s) => s = o
    BY <1>3, <2>1 DEF Basics, OneEach, Busy
  <2>3. status \in {"restoring", "unauthenticated"} /\ stored # Nothing
    BY <1>1, <2>1 DEF SoundInv, WhileRestoring
  <2>4. ~LoginWrites /\ ~LogoutPending
    BY <1>1, <2>1 DEF SoundInv, BeyondRestoration, LoginWrites, Writes
  <2>5. status = "restoring"
    BY <1>1, <1>3, <2>1, <2>3, <2>4 DEF SoundInv, SignedOut
  <2>6. ~SeenIn /\ \A p \in Submitter \cup Leaver : op[p].pc = "idle"
    BY <2>5 DEF SoundInv, BeyondRestoration, Busy
  <2>7. ~carried
    BY <1>1, <1>3, <2>1, <2>5 DEF SoundInv, RestoredOnce
  <2>8. \A c \in Op : ~Clearing(c)
    BY <1>1, <1>3, <2>1 DEF SoundInv, WhileClearing
  <2>9. \A r \in Refresher : ~Active(r)
    BY <1>1, <1>3, <2>1, <2>2, <2>3, <2>5 DEF SoundInv, RefreshWaitedFor, Busy
  <2>10. QED  BY <2>2, <2>3, <2>4, <2>5, <2>6, <2>7, <2>8, <2>9
<1>5. access = LoginOf(stored) /\ access # Nothing
  BY <1>1, <1>3, <1>4, LoginOfHeld, TokenFacts DEF SoundInv, WhileRestoring, Active, Basics, Genuine, SessionTypeOK
<1>6. NoFailedWrite'
  BY <1>0, <1>1, <1>2, <1>3, <1>4, <1>5 DEF NoFailedWrite, SoundInv
<1>7. WhileClearing'
  BY <1>0, <1>1, <1>2, <1>3, <1>4, <1>5 DEF WhileClearing, SoundInv, Active, Clearing, LoginWrites, Writes, LogoutPending, Pending, Before
<1>8. BeyondRestoration'
  BY <1>0, <1>1, <1>2, <1>3, <1>4, <1>5 DEF BeyondRestoration, SeenIn, SoundInv, Active, LogoutPending, Pending, Busy
<1>9. WhileLoggingIn'
  BY <1>0, <1>1, <1>2, <1>3, <1>4, <1>5 DEF WhileLoggingIn, SoundInv, Active, LoginWrites, Writes, Before, Busy
<1>10. SignedOut'
  BY <1>0, <1>1, <1>2, <1>3, <1>4, <1>5 DEF SignedOut, SoundInv, Active, LoginWrites, Writes, LogoutPending, Pending
<1>11. WhileRestoring'
  BY <1>0, <1>1, <1>2, <1>3, <1>4, <1>5 DEF WhileRestoring, Busy, SoundInv, Active
<1>12. TokensCurrent'
  BY <1>0, <1>1, <1>2, <1>3, <1>4, <1>5 DEF TokensCurrent, SoundInv, Active
<1>13. RefreshWaitedFor'
  BY <1>0, <1>1, <1>2, <1>3, <1>4, <1>5 DEF RefreshWaitedFor, SoundInv, Active
<1>14. RestoredOnce'
  BY <1>0, <1>1, <1>2, <1>3, <1>4, <1>5 DEF RestoredOnce, SoundInv, Active
<1>15. SignedIn'
  BY <1>0, <1>1, <1>2, <1>3, <1>4, <1>5 DEF SignedIn, SoundInv, Clearing, Busy, Leaves, LoginWrites, Writes
<1>16. RestorationFailed'
  BY <1>0, <1>1, <1>2, <1>3, <1>4, <1>5 DEF RestorationFailed, SoundInv, Clearing
<1>17. WhileUndoing'
  BY <1>0, <1>1, <1>2, <1>3, <1>4, <1>5 DEF WhileUndoing, SoundInv, LogoutPending, Pending
<1>18. QED
  BY <1>6, <1>7, <1>8, <1>9, <1>10, <1>11, <1>12, <1>13, <1>14, <1>15, <1>16, <1>17 DEF SoundInv

LEMMA WaitsSound ==
  ASSUME Basics, SoundInv, NEW o \in Restorer, MeUnauthorized(o), Waits401(o)
  PROVE  SoundInv'
<1>0. SessionTypeOK /\ Queue /\ \A p \in Op : op[p] \in OpState
  BY OpType, Names
<1>1. /\ op[o].pc = "me" /\ op'[o].pc = "meWaits" /\ op'[o].stale = op[o].stale /\ op'[o].token = op[o].token /\ o \in Op
      /\ \A p \in Op : p # o => op'[p] = op[p]
      /\ UNCHANGED <<status, screen, access, user, stored, carried, disk>>
  BY Waits401Facts, Names DEF Waits401
<1>2. \A a, b \in Op : Before(a, b)' <=> Before(a, b)
  BY <1>1 DEF Before
<1>3. /\ Refresher \subseteq Run /\ Restorer \subseteq Run /\ Run \subseteq Op
      /\ Submitter \subseteq Op /\ Leaver \subseteq Op /\ Submitter \cap Run = {} /\ Leaver \cap Run = {}
      /\ Submitter \cap Leaver = {}
      /\ Refresher \cap Restorer = {} /\ Run = Refresher \cup Restorer
  BY Names
<1>4. NoFailedWrite'
  BY <1>0, <1>1, <1>2, <1>3 DEF NoFailedWrite, SoundInv
<1>5. WhileClearing'
  BY <1>0, <1>1, <1>2, <1>3 DEF WhileClearing, SoundInv, Active, Clearing, LoginWrites, Writes, LogoutPending, Pending, Before
<1>6. BeyondRestoration'
  BY <1>0, <1>1, <1>2, <1>3 DEF BeyondRestoration, SeenIn, SoundInv, Active, LogoutPending, Pending, Busy
<1>7. WhileLoggingIn'
  BY <1>0, <1>1, <1>2, <1>3 DEF WhileLoggingIn, SoundInv, Active, LoginWrites, Writes, Before, Busy
<1>8. SignedOut'
  BY <1>0, <1>1, <1>2, <1>3 DEF SignedOut, SoundInv, Active, LoginWrites, Writes, LogoutPending, Pending
<1>9. WhileRestoring'
  BY <1>0, <1>1, <1>2, <1>3 DEF WhileRestoring, SoundInv, Active
<1>10. TokensCurrent'
  BY <1>0, <1>1, <1>2, <1>3 DEF TokensCurrent, SoundInv, Active
<1>11. RefreshWaitedFor'
  BY <1>0, <1>1, <1>2, <1>3 DEF RefreshWaitedFor, SoundInv, Active
<1>12. RestoredOnce'
  BY <1>0, <1>1, <1>2, <1>3 DEF RestoredOnce, SoundInv, Active
<1>13. SignedIn'
  BY <1>0, <1>1, <1>2, <1>3 DEF SignedIn, SoundInv, Clearing, Busy, Leaves, LoginWrites, Writes
<1>14. RestorationFailed'
  BY <1>0, <1>1, <1>2, <1>3 DEF RestorationFailed, SoundInv, Clearing
<1>15. WhileUndoing'
  BY <1>0, <1>1, <1>2, <1>3 DEF WhileUndoing, SoundInv, LogoutPending, Pending
<1>16. QED
  BY <1>4, <1>5, <1>6, <1>7, <1>8, <1>9, <1>10, <1>11, <1>12, <1>13, <1>14, <1>15 DEF SoundInv

LEMMA StartsSound ==
  ASSUME Basics, SoundInv, NEW o \in Restorer, NEW r \in Refresher, MeUnauthorized(o), Starts401(o, r)
  PROVE  SoundInv'
<1>0. SessionTypeOK /\ Queue /\ \A p \in Op : op[p] \in OpState
  BY OpType, Names
<1>1. /\ op[o].pc = "me" /\ op'[o].pc = "meWaits" /\ op'[o].stale = op[o].stale /\ op'[o].token = op[o].token
      /\ o \in Op /\ r \in Op /\ r # o
      /\ op[r].pc = "idle" /\ op'[r].pc = "reading" /\ ~op'[r].stale /\ op'[r].token = stored
      /\ \A p \in Op : p # o /\ p # r => op'[p] = op[p]
      /\ UNCHANGED <<status, screen, access, user, stored, carried>>
  BY Starts401Facts, Names
<1>2. /\ \A a, b \in Op : b # r => (Before(a, b)' <=> Before(a, b) /\ (a # r \/ disk' = disk))
      /\ \A a \in Op : a # r /\ op[a].pc \in OnDisk => Before(a, r)'
  <2>1. Called(r) /\ r \in Op /\ DiskMove(r) /\ \A p \in Op : p # r => Similar(p)
    BY <1>1, Starts401Facts DEF AppStep
  <2>2. QED  BY <1>0, <2>1, Queueing
<1>3. /\ Refresher \subseteq Run /\ Restorer \subseteq Run /\ Run \subseteq Op
      /\ Submitter \subseteq Op /\ Leaver \subseteq Op /\ Submitter \cap Run = {} /\ Leaver \cap Run = {}
      /\ Submitter \cap Leaver = {}
      /\ Refresher \cap Restorer = {} /\ Run = Refresher \cup Restorer
  BY Names
<1>4. NoFailedWrite'
  BY <1>0, <1>1, <1>2, <1>3 DEF NoFailedWrite, SoundInv
<1>5. WhileClearing'
  BY <1>0, <1>1, <1>2, <1>3 DEF WhileClearing, OnDisk, SoundInv, Active, Clearing, LoginWrites, Writes, LogoutPending, Pending, Before
<1>6. BeyondRestoration'
  BY <1>0, <1>1, <1>2, <1>3 DEF BeyondRestoration, SeenIn, SoundInv, Active, LogoutPending, Pending, Busy
<1>7. WhileLoggingIn'
  BY <1>0, <1>1, <1>2, <1>3 DEF WhileLoggingIn, OnDisk, SoundInv, Active, LoginWrites, Writes, Before, Busy
<1>8. SignedOut'
  BY <1>0, <1>1, <1>2, <1>3 DEF SignedOut, SoundInv, Active, LoginWrites, Writes, LogoutPending, Pending
<1>9. WhileRestoring'
  BY <1>0, <1>1, <1>2, <1>3 DEF WhileRestoring, SoundInv, Active
<1>10. TokensCurrent'
  BY <1>0, <1>1, <1>2, <1>3 DEF TokensCurrent, SoundInv, Active
<1>11. RefreshWaitedFor'
  BY <1>0, <1>1, <1>2, <1>3 DEF RefreshWaitedFor, SoundInv, Active
<1>12. RestoredOnce'
  BY <1>0, <1>1, <1>2, <1>3 DEF RestoredOnce, SoundInv, Active
<1>13. SignedIn'
  BY <1>0, <1>1, <1>2, <1>3 DEF SignedIn, SoundInv, Clearing, Busy, Leaves, LoginWrites, Writes
<1>14. RestorationFailed'
  BY <1>0, <1>1, <1>2, <1>3 DEF RestorationFailed, SoundInv, Clearing
<1>15. WhileUndoing'
  BY <1>0, <1>1, <1>2, <1>3 DEF WhileUndoing, SoundInv, LogoutPending, Pending
<1>16. QED
  BY <1>4, <1>5, <1>6, <1>7, <1>8, <1>9, <1>10, <1>11, <1>12, <1>13, <1>14, <1>15 DEF SoundInv

LEMMA RetrySound ==
  ASSUME Basics, SoundInv, NEW o \in Restorer, RetryRestoration(o)
  PROVE  SoundInv'
<1>0. SessionTypeOK /\ Queue /\ \A p \in Op : op[p] \in OpState
  BY OpType, Names
<1>1. /\ op[o].pc = "idle" /\ NoneInFlight(Restorer) /\ o \in Op /\ o \in Run
      /\ op'[o].pc = "reading" /\ ~op'[o].stale /\ op'[o].token = stored
      /\ \A p \in Op : p # o => op'[p] = op[p]
      /\ Called(o) /\ AppStep(o)
      /\ status' = "restoring" /\ OnErrorScreen
      /\ UNCHANGED <<screen, access, user, stored, carried>>
  <2>1. /\ o \in Op /\ o \in Run /\ Begin(o, 1) /\ op[o].pc \notin OnDisk
        /\ op[o].pc = "idle" /\ NoneInFlight(Restorer)
        /\ status' = "restoring" /\ OnErrorScreen
        /\ UNCHANGED <<screen, access, user, stored, carried, backend, ended, disturbed>>
    BY Names DEF RetryRestoration, OnDisk
  <2>2. QED  BY <2>1, BeginsFacts
<1>2. /\ \A a, b \in Op : b # o => (Before(a, b)' <=> Before(a, b) /\ (a # o \/ disk' = disk))
      /\ \A a \in Op : a # o /\ op[a].pc \in OnDisk => Before(a, o)'
  <2>1. Called(o) /\ o \in Op /\ DiskMove(o) /\ \A p \in Op : p # o => Similar(p)
    BY <1>1 DEF AppStep
  <2>2. QED  BY <1>0, <2>1, Queueing
<1>3. /\ Refresher \subseteq Run /\ Restorer \subseteq Run /\ Run \subseteq Op
      /\ Submitter \subseteq Op /\ Leaver \subseteq Op /\ Submitter \cap Run = {} /\ Leaver \cap Run = {}
      /\ Submitter \cap Leaver = {}
      /\ Refresher \cap Restorer = {} /\ Run = Refresher \cup Restorer
  BY Names
<1>4. /\ \A p \in Submitter \cup Leaver : op[p].pc = "idle"
      /\ ~LoginWrites /\ ~LogoutPending /\ ~SeenIn
      /\ \A s \in Restorer : op[s].pc = "idle"
      /\ \A p \in Run : Active(p) => stored = Nothing /\ op[p].pc = "reading"
      /\ carried => stored = Nothing
      /\ status \in {"restoring", "restoration-error", "unauthenticated"}
  <2>1. /\ \A p \in Submitter \cup Leaver : op[p].pc = "idle"
        /\ ~LoginWrites /\ ~LogoutPending /\ ~SeenIn
    BY <1>1 DEF SoundInv, BeyondRestoration, SeenIn, OnErrorScreen, LoginWrites, Writes, LogoutPending, Pending, Busy
  <2>2. \A s \in Restorer : op[s].pc = "idle"
    BY <1>1 DEF NoneInFlight
  <2>3. status \in {"restoring", "restoration-error", "unauthenticated"}
    BY <1>0, <1>1 DEF OnErrorScreen, SessionTypeOK
  <2>4. \A p \in Run : Active(p) => stored = Nothing /\ op[p].pc = "reading"
    BY <1>3, <2>1, <2>2, <2>3 DEF SoundInv, RefreshWaitedFor, SignedOut, Active
  <2>5. carried => stored = Nothing
    BY <2>1, <2>3 DEF SoundInv, RestoredOnce, SignedOut
  <2>6. QED  BY <2>1, <2>2, <2>3, <2>4, <2>5
<1>5. NoFailedWrite'
  BY <1>0, <1>1, <1>2, <1>3, <1>4 DEF NoFailedWrite, SoundInv
<1>6. WhileClearing'
  BY <1>0, <1>1, <1>2, <1>3, <1>4 DEF WhileClearing, OnDisk, SoundInv, Active, Clearing, LoginWrites, Writes, LogoutPending, Pending, Before
<1>7. BeyondRestoration'
  BY <1>0, <1>1, <1>2, <1>3, <1>4 DEF BeyondRestoration, SeenIn, SoundInv, Active, LogoutPending, Pending, Busy
<1>8. WhileLoggingIn'
  BY <1>0, <1>1, <1>2, <1>3, <1>4 DEF WhileLoggingIn, SoundInv, Active, LoginWrites, Writes, Before, Busy
<1>9. SignedOut'
  BY <1>0, <1>1, <1>2, <1>3, <1>4 DEF SignedOut, SoundInv, Active, LoginWrites, Writes, LogoutPending, Pending
<1>10. WhileRestoring'
  BY <1>0, <1>1, <1>2, <1>3, <1>4 DEF WhileRestoring, SoundInv, Active
<1>11. TokensCurrent'
  BY <1>0, <1>1, <1>2, <1>3, <1>4 DEF TokensCurrent, SoundInv, Active
<1>12. RefreshWaitedFor'
  BY <1>0, <1>1, <1>2, <1>3, <1>4 DEF RefreshWaitedFor, SoundInv, Active
<1>13. RestoredOnce'
  BY <1>0, <1>1, <1>2, <1>3, <1>4 DEF RestoredOnce, SoundInv, Active
<1>14. SignedIn'
  BY <1>0, <1>1, <1>2, <1>3, <1>4 DEF SignedIn, SoundInv, Clearing, Busy, Leaves, LoginWrites, Writes
<1>15. RestorationFailed'
  BY <1>0, <1>1, <1>2, <1>3, <1>4 DEF RestorationFailed, SoundInv, Clearing
<1>16. WhileUndoing'
  BY <1>0, <1>1, <1>2, <1>3, <1>4 DEF WhileUndoing, SoundInv, LogoutPending, Pending
<1>17. QED
  BY <1>5, <1>6, <1>7, <1>8, <1>9, <1>10, <1>11, <1>12, <1>13, <1>14, <1>15, <1>16 DEF SoundInv

LEMMA UnauthorizedSound ==
  ASSUME Basics, SoundInv, NEW o \in Refresher, Unauthorized(o)
  PROVE  SoundInv'
<1>0. SessionTypeOK /\ Queue /\ \A p \in Op : op[p] \in OpState
  BY OpType, Names
<1>1. /\ op[o].pc = "idle" /\ carried /\ o \in Op /\ o \in Run
      /\ op'[o].pc = "reading" /\ ~op'[o].stale /\ op'[o].token = stored
      /\ \A p \in Op : p # o => op'[p] = op[p]
      /\ Called(o) /\ AppStep(o)
      /\ UNCHANGED <<status, screen, access, user, stored, carried>>
  <2>1. /\ o \in Op /\ o \in Run /\ Begin(o, 1) /\ op[o].pc \notin OnDisk
        /\ op[o].pc = "idle" /\ NoneInFlight(Refresher) /\ carried
        /\ UNCHANGED <<status, screen, access, user, stored, carried, backend, ended, disturbed>>
    BY Names DEF Unauthorized, OnDisk
  <2>2. QED  BY <2>1, BeginsFacts
<1>2. /\ \A a, b \in Op : b # o => (Before(a, b)' <=> Before(a, b) /\ (a # o \/ disk' = disk))
      /\ \A a \in Op : a # o /\ op[a].pc \in OnDisk => Before(a, o)'
  <2>1. Called(o) /\ o \in Op /\ DiskMove(o) /\ \A p \in Op : p # o => Similar(p)
    BY <1>1 DEF AppStep
  <2>2. QED  BY <1>0, <2>1, Queueing
<1>3. /\ Refresher \subseteq Run /\ Restorer \subseteq Run /\ Run \subseteq Op
      /\ Submitter \subseteq Op /\ Leaver \subseteq Op /\ Submitter \cap Run = {} /\ Leaver \cap Run = {}
      /\ Submitter \cap Leaver = {}
      /\ Refresher \cap Restorer = {} /\ Run = Refresher \cup Restorer
  BY Names
<1>4. NoFailedWrite'
  BY <1>0, <1>1, <1>2, <1>3 DEF NoFailedWrite, SoundInv
<1>5. WhileClearing'
  BY <1>0, <1>1, <1>2, <1>3 DEF WhileClearing, OnDisk, SoundInv, Active, Clearing, LoginWrites, Writes, LogoutPending, Pending, Before
<1>6. BeyondRestoration'
  BY <1>0, <1>1, <1>2, <1>3 DEF BeyondRestoration, SeenIn, SoundInv, Active, LogoutPending, Pending, Busy
<1>7. WhileLoggingIn'
  BY <1>0, <1>1, <1>2, <1>3 DEF WhileLoggingIn, OnDisk, SoundInv, Active, LoginWrites, Writes, Before, Busy
<1>8. SignedOut'
  BY <1>0, <1>1, <1>2, <1>3 DEF SignedOut, SoundInv, Active, LoginWrites, Writes, LogoutPending, Pending
<1>9. WhileRestoring'
  BY <1>0, <1>1, <1>2, <1>3 DEF WhileRestoring, SoundInv, Active
<1>10. TokensCurrent'
  BY <1>0, <1>1, <1>2, <1>3 DEF TokensCurrent, SoundInv, Active
<1>11. RefreshWaitedFor'
  BY <1>0, <1>1, <1>2, <1>3 DEF RefreshWaitedFor, RestoredOnce, SoundInv, Active
<1>12. RestoredOnce'
  BY <1>0, <1>1, <1>2, <1>3 DEF RestoredOnce, SoundInv, Active
<1>13. SignedIn'
  BY <1>0, <1>1, <1>2, <1>3 DEF SignedIn, SoundInv, Clearing, Busy, Leaves, LoginWrites, Writes
<1>14. RestorationFailed'
  BY <1>0, <1>1, <1>2, <1>3 DEF RestorationFailed, SoundInv, Clearing
<1>15. WhileUndoing'
  BY <1>0, <1>1, <1>2, <1>3 DEF WhileUndoing, SoundInv, LogoutPending, Pending
<1>16. QED
  BY <1>4, <1>5, <1>6, <1>7, <1>8, <1>9, <1>10, <1>11, <1>12, <1>13, <1>14, <1>15 DEF SoundInv

LEMMA SubmitSound ==
  ASSUME Basics, SoundInv, NEW b \in Submitter, SubmitLogin(b)
  PROVE  SoundInv'
<1>0. SessionTypeOK /\ Queue /\ \A p \in Op : op[p] \in OpState
  BY OpType, Names
<1>1. /\ op[b].pc = "idle" /\ op'[b].pc = "asking" /\ b \in Op /\ screen = "unauthenticated"
      /\ \A p \in Op : p # b => op'[p] = op[p]
      /\ UNCHANGED <<status, screen, access, user, stored, carried, disk>>
  BY SubmitFacts, Names
<1>2. \A a, c \in Op : Before(a, c)' <=> Before(a, c)
  BY <1>1 DEF Before
<1>3. /\ Refresher \subseteq Run /\ Restorer \subseteq Run /\ Run \subseteq Op
      /\ Submitter \subseteq Op /\ Leaver \subseteq Op /\ Submitter \cap Run = {} /\ Leaver \cap Run = {}
      /\ Submitter \cap Leaver = {}
      /\ Refresher \cap Restorer = {} /\ Run = Refresher \cup Restorer
  BY Names
<1>4. NoFailedWrite'
  BY <1>0, <1>1, <1>2, <1>3 DEF NoFailedWrite, SoundInv
<1>5. WhileClearing'
  BY <1>0, <1>1, <1>2, <1>3 DEF WhileClearing, SoundInv, Active, Clearing, LoginWrites, Writes, LogoutPending, Pending, Before
<1>6. BeyondRestoration'
  BY <1>0, <1>1, <1>2, <1>3 DEF BeyondRestoration, SeenIn, SoundInv, Active, LogoutPending, Pending, Busy
<1>7. WhileLoggingIn'
  BY <1>0, <1>1, <1>2, <1>3 DEF WhileLoggingIn, SoundInv, Active, LoginWrites, Writes, Before, Busy
<1>8. SignedOut'
  BY <1>0, <1>1, <1>2, <1>3 DEF SignedOut, WhileLoggingIn, SoundInv, Active, LoginWrites, Writes, LogoutPending, Pending
<1>9. WhileRestoring'
  BY <1>0, <1>1, <1>2, <1>3 DEF WhileRestoring, SoundInv, Active
<1>10. TokensCurrent'
  BY <1>0, <1>1, <1>2, <1>3 DEF TokensCurrent, SoundInv, Active
<1>11. RefreshWaitedFor'
  BY <1>0, <1>1, <1>2, <1>3 DEF RefreshWaitedFor, SoundInv, Active
<1>12. RestoredOnce'
  BY <1>0, <1>1, <1>2, <1>3 DEF RestoredOnce, SoundInv, Active
<1>13. SignedIn'
  BY <1>0, <1>1, <1>2, <1>3 DEF SignedIn, SoundInv, Clearing, Busy, Leaves, LoginWrites, Writes
<1>14. RestorationFailed'
  BY <1>0, <1>1, <1>2, <1>3 DEF RestorationFailed, SoundInv, Clearing
<1>15. WhileUndoing'
  BY <1>0, <1>1, <1>2, <1>3 DEF WhileUndoing, SoundInv, LogoutPending, Pending
<1>16. QED
  BY <1>4, <1>5, <1>6, <1>7, <1>8, <1>9, <1>10, <1>11, <1>12, <1>13, <1>14, <1>15 DEF SoundInv

LEMMA LoginFailsSound ==
  ASSUME Basics, SoundInv, NEW b \in Submitter, LoginFails(b)
  PROVE  SoundInv'
<1>0. SessionTypeOK /\ Queue /\ \A p \in Op : op[p] \in OpState
  BY OpType, Names
<1>1. /\ op[b].pc = "asking" /\ op'[b].pc = "idle" /\ b \in Op
      /\ \A p \in Op : p # b => op'[p] = op[p]
      /\ UNCHANGED <<status, screen, access, user, stored, carried, disk>>
  BY LoginEndsFacts, Names DEF LoginFails
<1>2. \A a, c \in Op : Before(a, c)' <=> Before(a, c)
  BY <1>1 DEF Before
<1>3. /\ Refresher \subseteq Run /\ Restorer \subseteq Run /\ Run \subseteq Op
      /\ Submitter \subseteq Op /\ Leaver \subseteq Op /\ Submitter \cap Run = {} /\ Leaver \cap Run = {}
      /\ Submitter \cap Leaver = {}
      /\ Refresher \cap Restorer = {} /\ Run = Refresher \cup Restorer
  BY Names
<1>4. NoFailedWrite'
  BY <1>0, <1>1, <1>2, <1>3 DEF NoFailedWrite, SoundInv
<1>5. WhileClearing'
  BY <1>0, <1>1, <1>2, <1>3 DEF WhileClearing, SoundInv, Active, Clearing, LoginWrites, Writes, LogoutPending, Pending, Before
<1>6. BeyondRestoration'
  BY <1>0, <1>1, <1>2, <1>3 DEF BeyondRestoration, SeenIn, SoundInv, Active, LogoutPending, Pending, Busy
<1>7. WhileLoggingIn'
  BY <1>0, <1>1, <1>2, <1>3 DEF WhileLoggingIn, SoundInv, Active, LoginWrites, Writes, Before, Busy
<1>8. SignedOut'
  BY <1>0, <1>1, <1>2, <1>3 DEF SignedOut, WhileLoggingIn, SoundInv, Active, LoginWrites, Writes, LogoutPending, Pending
<1>9. WhileRestoring'
  BY <1>0, <1>1, <1>2, <1>3 DEF WhileRestoring, SoundInv, Active
<1>10. TokensCurrent'
  BY <1>0, <1>1, <1>2, <1>3 DEF TokensCurrent, SoundInv, Active
<1>11. RefreshWaitedFor'
  BY <1>0, <1>1, <1>2, <1>3 DEF RefreshWaitedFor, SoundInv, Active
<1>12. RestoredOnce'
  BY <1>0, <1>1, <1>2, <1>3 DEF RestoredOnce, SoundInv, Active
<1>13. SignedIn'
  BY <1>0, <1>1, <1>2, <1>3 DEF SignedIn, SoundInv, Clearing, Busy, Leaves, LoginWrites, Writes
<1>14. RestorationFailed'
  BY <1>0, <1>1, <1>2, <1>3 DEF RestorationFailed, SoundInv, Clearing
<1>15. WhileUndoing'
  BY <1>0, <1>1, <1>2, <1>3 DEF WhileUndoing, SoundInv, LogoutPending, Pending
<1>16. QED
  BY <1>4, <1>5, <1>6, <1>7, <1>8, <1>9, <1>10, <1>11, <1>12, <1>13, <1>14, <1>15 DEF SoundInv

LEMMA LoginAnsweredSound ==
  ASSUME Basics, SoundInv, Sound', NEW b \in Submitter, NEW l \in Login, LoginAnswered(b, l)
  PROVE  SoundInv'
<1>0. SessionTypeOK /\ Queue /\ \A p \in Op : op[p] \in OpState
  BY OpType, Names
<1>1. /\ op[b].pc = "asking" /\ op'[b].pc = "storing" /\ op'[b].token = <<l, 0>> /\ stored' = <<l, 0>>
      /\ ~op'[b].stale /\ Writes(b)' /\ b \in Op
      /\ \A p \in Op : p # b => /\ op'[p].token = op[p].token /\ op'[p].matches = op[p].matches
                                         /\ op'[p].pc = op[p].pc /\ (op[p].stale => op'[p].stale)
      /\ \A c \in Submitter : Writes(c)' => c = b
      /\ \A p \in Op : ~Active(p)'
      /\ \A p \in Op : op[p].token # <<l, 0>>
      /\ UNCHANGED <<status, screen, access, user, carried>>
  <2>1. /\ op'[b].pc = "storing" /\ op'[b].token = <<l, 0>> /\ stored' = <<l, 0>>
        /\ ~op'[b].stale
    BY LoginAnsweredFacts DEF Sound
  <2>2. \A p \in Op : op[p].token # <<l, 0>>
    <3>1. /\ <<l, 0>> \notin Issued /\ <<l, 0>> \in Tokens /\ Nothing \notin Tokens
          /\ \A p \in Op : op[p].token \in Issued \cup {Nothing}
      BY LoginAnsweredFacts, TokenFacts DEF Basics, Genuine
    <3>2. QED  BY ONLY <3>1
  <2>3. QED  BY <2>1, <2>2, LoginAnsweredFacts, Names DEF Similar, Writes
<1>2. /\ \A a, c \in Op : c # b => (Before(a, c)' <=> Before(a, c) /\ (a # b \/ disk' = disk))
      /\ \A a \in Op : a # b /\ op[a].pc \in OnDisk => Before(a, b)'
  <2>1. b \in Op /\ Called(b) /\ DiskMove(b) /\ \A p \in Op : p # b => Similar(p)
    BY LoginAnsweredFacts, Names
  <2>2. QED  BY <1>0, <2>1, Queueing
<1>3. /\ Refresher \subseteq Run /\ Restorer \subseteq Run /\ Run \subseteq Op
      /\ Submitter \subseteq Op /\ Leaver \subseteq Op /\ Submitter \cap Run = {} /\ Leaver \cap Run = {}
      /\ Submitter \cap Leaver = {}
      /\ Refresher \cap Restorer = {} /\ Run = Refresher \cup Restorer
  BY Names
<1>4. SeenIn /\ status \in {"unauthenticated", "authenticated"} /\ stored' # Nothing
  BY <1>1, LoginAnsweredFacts, TokenFacts DEF SoundInv, BeyondRestoration, Busy
<1>5. \A p \in Op : Carries(p)
  BY DEF Basics
<1>6. NoFailedWrite'
  BY <1>0, <1>1, <1>2, <1>3, <1>4, <1>5 DEF NoFailedWrite, SoundInv
<1>7. WhileClearing'
  BY <1>0, <1>1, <1>2, <1>3, <1>4, <1>5 DEF WhileClearing, OnDisk, SoundInv, Active, Clearing, LoginWrites, Writes, LogoutPending, Pending, Before
<1>8. BeyondRestoration'
  BY <1>0, <1>1, <1>2, <1>3, <1>4, <1>5 DEF BeyondRestoration, SeenIn, SoundInv, Active, LogoutPending, Pending, Busy
<1>9. WhileLoggingIn'
  BY <1>0, <1>1, <1>2, <1>3, <1>4, <1>5 DEF WhileLoggingIn, SoundInv, Active, LoginWrites, Writes, Before, Busy
<1>10. SignedOut'
  BY <1>0, <1>1, <1>2, <1>3, <1>4, <1>5 DEF SignedOut, SoundInv, Active, LoginWrites, Writes, LogoutPending, Pending
<1>11. WhileRestoring'
  BY <1>0, <1>1, <1>2, <1>3, <1>4, <1>5 DEF WhileRestoring, SoundInv, Active
<1>12. TokensCurrent'
  BY <1>0, <1>1, <1>2, <1>3, <1>4, <1>5 DEF TokensCurrent, SoundInv, Active
<1>13. RefreshWaitedFor'
  BY <1>0, <1>1, <1>2, <1>3, <1>4, <1>5 DEF RefreshWaitedFor, SoundInv, Active
<1>14. RestoredOnce'
  BY <1>0, <1>1, <1>2, <1>3, <1>4, <1>5 DEF RestoredOnce, SoundInv, Active
<1>15. SignedIn'
  BY <1>0, <1>1, <1>2, <1>3, <1>4, <1>5 DEF SignedIn, SoundInv, Clearing, Busy, Leaves, LoginWrites, Writes
<1>16. RestorationFailed'
  BY <1>0, <1>1, <1>2, <1>3, <1>4, <1>5 DEF RestorationFailed, SoundInv, Clearing
<1>17. WhileUndoing'
  BY <1>0, <1>1, <1>2, <1>3, <1>4, <1>5 DEF WhileUndoing, SoundInv, LogoutPending, Pending
<1>18. QED
  BY <1>6, <1>7, <1>8, <1>9, <1>10, <1>11, <1>12, <1>13, <1>14, <1>15, <1>16, <1>17 DEF SoundInv

LEMMA LoginStoredSound ==
  ASSUME Basics, SoundInv, NEW b \in Submitter, LoginStored(b)
  PROVE  SoundInv'
<1>0. SessionTypeOK /\ Queue /\ \A p \in Op : op[p] \in OpState
  BY OpType, Names
<1>1. /\ op[b].pc = "storing" /\ op'[b].pc = "idle"
      /\ op[b].token \in Issued
      /\ \A p \in Op : p # b => op'[p] = op[p]
      /\ b \in Op
      /\ \/ op[b].stale /\ UNCHANGED <<status, access, user, carried>>
         \/ /\ Writes(b)
            /\ access' = LoginOf(op[b].token) /\ user' = LoginOf(op[b].token)
            /\ status' = "authenticated" /\ carried' = TRUE
      /\ UNCHANGED <<screen, stored>>
  <2>1. op[b].pc = "storing" /\ b \in Op /\ op[b].stale \in BOOLEAN
    BY Names, OpType DEF LoginStored, SoundInv, NoFailedWrite
  <2>2. op[b].token \in Issued
    BY <2>1, HeldGenuine DEF Basics, Carries
  <2>3. QED  BY <2>1, <2>2, LoginEndsFacts DEF LoginStored, Writes, Stale
<1>2. /\ \A a \in Op : ~Before(a, b)
      /\ \A a, c \in Op : c # b => (Before(a, c)' <=> Before(a, c) /\ (a # b \/ disk' = disk))
  <2>1. Resumable(b) /\ b \in Op /\ DiskMove(b) /\ \A p \in Op : p # b => Similar(p)
    BY LoginEndsFacts, Names DEF LoginStored, AppStep
  <2>2. QED  BY <1>0, <2>1, FirstInLine, Queueing
<1>3. /\ Refresher \subseteq Run /\ Restorer \subseteq Run /\ Run \subseteq Op
      /\ Submitter \subseteq Op /\ Leaver \subseteq Op /\ Submitter \cap Run = {} /\ Leaver \cap Run = {}
      /\ Submitter \cap Leaver = {}
      /\ Refresher \cap Restorer = {} /\ Run = Refresher \cup Restorer
  BY Names
<1>4. /\ SeenIn /\ status \in {"unauthenticated", "authenticated"}
      /\ \A s \in Restorer : ~Active(s)
      /\ \A c \in Submitter : Writes(b) /\ Writes(c) => c = b
      /\ Writes(b) => /\ stored = op[b].token
                        /\ \A c \in Op : ~Clearing(c)
                        /\ \A p \in Run : Active(p) => op[p].pc = "reading"
  <2>1. /\ SeenIn /\ status \in {"unauthenticated", "authenticated"}
        /\ \A s \in Restorer : ~Active(s)
        /\ \A c \in Submitter : Writes(b) /\ Writes(c) => c = b
        /\ Writes(b) => /\ stored = op[b].token
                          /\ \A p \in Run : Active(p) => op[p].pc = "reading"
    BY <1>1, <1>3 DEF SoundInv, BeyondRestoration, WhileLoggingIn, Busy
  <2>2. Writes(b) => \A c \in Op : ~Clearing(c)
    BY <1>2, <2>1 DEF SoundInv, WhileClearing, LoginWrites
  <2>3. QED  BY <2>1, <2>2
<1>5. LoginOf(op[b].token) # Nothing
  BY <1>1, IssuedMeans, TokenFacts DEF Basics, SessionTypeOK
<1>6. NoFailedWrite'
  BY <1>0, <1>1, <1>2, <1>3, <1>4, <1>5 DEF NoFailedWrite, SoundInv
<1>7. WhileClearing'
  BY <1>0, <1>1, <1>2, <1>3, <1>4, <1>5 DEF WhileClearing, SoundInv, Active, Clearing, LoginWrites, Writes, LogoutPending, Pending, Before
<1>8. BeyondRestoration'
  BY <1>0, <1>1, <1>2, <1>3, <1>4, <1>5 DEF BeyondRestoration, SeenIn, SoundInv, Active, LogoutPending, Pending, Busy
<1>9. WhileLoggingIn'
  BY <1>0, <1>1, <1>2, <1>3, <1>4, <1>5 DEF WhileLoggingIn, SoundInv, Active, LoginWrites, Writes, Before, Busy
<1>10. SignedOut'
  BY <1>0, <1>1, <1>2, <1>3, <1>4, <1>5 DEF SignedOut, SoundInv, Active, LoginWrites, Writes, LogoutPending, Pending
<1>11. WhileRestoring'
  BY <1>0, <1>1, <1>2, <1>3, <1>4, <1>5 DEF WhileRestoring, SoundInv, Active
<1>12. TokensCurrent'
  BY <1>0, <1>1, <1>2, <1>3, <1>4, <1>5 DEF TokensCurrent, SoundInv, Active
<1>13. RefreshWaitedFor'
  BY <1>0, <1>1, <1>2, <1>3, <1>4, <1>5 DEF RefreshWaitedFor, SoundInv, Active
<1>14. RestoredOnce'
  BY <1>0, <1>1, <1>2, <1>3, <1>4, <1>5 DEF RestoredOnce, SoundInv, Active
<1>15. SignedIn'
  BY <1>0, <1>1, <1>2, <1>3, <1>4, <1>5 DEF SignedIn, SoundInv, Clearing, Busy, Leaves, LoginWrites, Writes
<1>16. RestorationFailed'
  BY <1>0, <1>1, <1>2, <1>3, <1>4, <1>5 DEF RestorationFailed, SoundInv, Clearing
<1>17. WhileUndoing'
  BY <1>0, <1>1, <1>2, <1>3, <1>4, <1>5 DEF WhileUndoing, SoundInv, LogoutPending, Pending
<1>18. QED
  BY <1>6, <1>7, <1>8, <1>9, <1>10, <1>11, <1>12, <1>13, <1>14, <1>15, <1>16, <1>17 DEF SoundInv

LEMMA TapLogoutSound ==
  ASSUME Basics, SoundInv, NEW v \in Leaver, TapLogout(v)
  PROVE  SoundInv'
<1>0. SessionTypeOK /\ Queue /\ \A p \in Op : op[p] \in OpState
  BY OpType, Names
<1>1. /\ op[v].pc = "idle" /\ op'[v].pc = "unregistering"
      /\ screen = "authenticated" /\ screen' = "signingOut" /\ v \in Op /\ Pending(v)'
      /\ \A p \in Op : p # v =>
            /\ op'[p].token = op[p].token /\ op'[p].matches = op[p].matches /\ op'[p].pc = op[p].pc
            /\ op'[p].stale <=> \/ op[p].stale
                                \/ p \in Run /\ Busy(p)
                                \/ p \in Submitter /\ op[p].pc = "storing"
      /\ \A p \in Op : ~Active(p)'
      /\ UNCHANGED <<status, access, user, stored, carried, disk>>
  BY TapLogoutFacts, Names DEF TapLogout, Similar, Pending
<1>2. \A a, b \in Op : Before(a, b)' <=> Before(a, b)
  BY <1>1 DEF Before
<1>3. /\ Refresher \subseteq Run /\ Restorer \subseteq Run /\ Run \subseteq Op
      /\ Submitter \subseteq Op /\ Leaver \subseteq Op /\ Submitter \cap Run = {} /\ Leaver \cap Run = {}
      /\ Submitter \cap Leaver = {}
      /\ Refresher \cap Restorer = {} /\ Run = Refresher \cup Restorer
  BY Names
<1>4. /\ SeenIn /\ status \in {"unauthenticated", "authenticated"}
      /\ (\A b \in Submitter : ~Writes(b)') /\ ~LoginWrites' /\ LogoutPending' /\ Leaves'
      /\ \A s \in Restorer : Active(s) => op[s].pc = "reading"
  <2>1. SeenIn /\ status \in {"unauthenticated", "authenticated"}
    BY <1>1 DEF SoundInv, BeyondRestoration, SeenIn
  <2>2. (\A b \in Submitter : ~Writes(b)') /\ ~LoginWrites'
    BY <1>1, <1>3 DEF LoginWrites, Writes
  <2>3. LogoutPending' /\ Leaves'
    BY <1>1 DEF LogoutPending, Leaves, Busy
  <2>4. \A s \in Restorer : Active(s) => op[s].pc = "reading"
    <3> SUFFICES ASSUME NEW s \in Restorer, Active(s) PROVE op[s].pc = "reading"
      OBVIOUS
    <3>1. ~LoginWrites /\ ~LogoutPending /\ status = "unauthenticated"
      BY <2>1 DEF SoundInv, BeyondRestoration, WhileRestoring, LoginWrites, Writes
    <3>2. QED  BY <1>3, <3>1 DEF SoundInv, SignedOut
  <2>5. QED  BY <2>1, <2>2, <2>3, <2>4
<1>5. NoFailedWrite'
  BY <1>0, <1>1, <1>2, <1>3, <1>4 DEF NoFailedWrite, SoundInv
<1>6. WhileClearing'
  BY <1>0, <1>1, <1>2, <1>3, <1>4 DEF WhileClearing, SoundInv, Active, Clearing, LoginWrites, Writes, LogoutPending, Pending, Before
<1>7. BeyondRestoration'
  BY <1>0, <1>1, <1>2, <1>3, <1>4 DEF BeyondRestoration, SeenIn, SoundInv, Active, LogoutPending, Pending, Busy
<1>8. WhileLoggingIn'
  BY <1>0, <1>1, <1>2, <1>3, <1>4 DEF WhileLoggingIn, SoundInv, Active, LoginWrites, Writes, Before, Busy
<1>9. SignedOut'
  BY <1>0, <1>1, <1>2, <1>3, <1>4 DEF SignedOut, SoundInv, Active, LoginWrites, Writes, LogoutPending, Pending
<1>10. WhileRestoring'
  BY <1>0, <1>1, <1>2, <1>3, <1>4 DEF WhileRestoring, SoundInv, Active
<1>11. TokensCurrent'
  BY <1>0, <1>1, <1>2, <1>3, <1>4 DEF TokensCurrent, SoundInv, Active
<1>12. RefreshWaitedFor'
  BY <1>0, <1>1, <1>2, <1>3, <1>4 DEF RefreshWaitedFor, SoundInv, Active
<1>13. RestoredOnce'
  BY <1>0, <1>1, <1>2, <1>3, <1>4 DEF RestoredOnce, SoundInv, Active
<1>14. SignedIn'
  BY <1>0, <1>1, <1>2, <1>3, <1>4 DEF SignedIn, SoundInv, Clearing, Busy, Leaves, LoginWrites, Writes
<1>15. RestorationFailed'
  BY <1>0, <1>1, <1>2, <1>3, <1>4 DEF RestorationFailed, SoundInv, Clearing
<1>16. WhileUndoing'
  BY <1>0, <1>1, <1>2, <1>3, <1>4 DEF WhileUndoing, WhileRestoring, WhileClearing, Active, SoundInv, LogoutPending, Pending
<1>17. QED
  BY <1>5, <1>6, <1>7, <1>8, <1>9, <1>10, <1>11, <1>12, <1>13, <1>14, <1>15, <1>16 DEF SoundInv

LEMMA UnregisteredSound ==
  ASSUME Basics, SoundInv, NEW v \in Leaver, Unregistered(v)
  PROVE  SoundInv'
<1>0. SessionTypeOK /\ Queue /\ \A p \in Op : op[p] \in OpState
  BY OpType, Names
<1>1. /\ op[v].pc = "unregistering" /\ op'[v].pc = "reading" /\ v \in Op
      /\ \A p \in Op : p # v => op'[p] = op[p]
      /\ UNCHANGED <<status, screen, access, user, stored, carried>>
  BY UnregisteredFacts, Names DEF Unregistered
<1>2. \A a, b \in Op : b # v => (Before(a, b)' <=> Before(a, b) /\ (a # v \/ disk' = disk))
  <2>1. v \in Op /\ DiskMove(v) /\ \A p \in Op : p # v => Similar(p)
    BY UnregisteredFacts, Names DEF AppStep
  <2>2. QED  BY <1>0, <2>1, Queueing
<1>3. /\ Refresher \subseteq Run /\ Restorer \subseteq Run /\ Run \subseteq Op
      /\ Submitter \subseteq Op /\ Leaver \subseteq Op /\ Submitter \cap Run = {} /\ Leaver \cap Run = {}
      /\ Submitter \cap Leaver = {}
      /\ Refresher \cap Restorer = {} /\ Run = Refresher \cup Restorer
  BY Names
<1>4. NoFailedWrite'
  BY <1>0, <1>1, <1>2, <1>3 DEF NoFailedWrite, SoundInv
<1>5. WhileClearing'
  BY <1>0, <1>1, <1>2, <1>3 DEF WhileClearing, SoundInv, Active, Clearing, LoginWrites, Writes, LogoutPending, Pending, Before
<1>6. BeyondRestoration'
  BY <1>0, <1>1, <1>2, <1>3 DEF BeyondRestoration, SeenIn, SoundInv, Active, LogoutPending, Pending, Busy
<1>7. WhileLoggingIn'
  BY <1>0, <1>1, <1>2, <1>3 DEF WhileLoggingIn, SoundInv, Active, LoginWrites, Writes, Before, Busy
<1>8. SignedOut'
  BY <1>0, <1>1, <1>2, <1>3 DEF SignedOut, SoundInv, Active, LoginWrites, Writes, LogoutPending, Pending
<1>9. WhileRestoring'
  BY <1>0, <1>1, <1>2, <1>3 DEF WhileRestoring, SoundInv, Active
<1>10. TokensCurrent'
  BY <1>0, <1>1, <1>2, <1>3 DEF TokensCurrent, SoundInv, Active
<1>11. RefreshWaitedFor'
  BY <1>0, <1>1, <1>2, <1>3 DEF RefreshWaitedFor, SoundInv, Active
<1>12. RestoredOnce'
  BY <1>0, <1>1, <1>2, <1>3 DEF RestoredOnce, SoundInv, Active
<1>13. SignedIn'
  BY <1>0, <1>1, <1>2, <1>3 DEF SignedIn, SoundInv, Clearing, Busy, Leaves, LoginWrites, Writes
<1>14. RestorationFailed'
  BY <1>0, <1>1, <1>2, <1>3 DEF RestorationFailed, SoundInv, Clearing
<1>15. WhileUndoing'
  BY <1>0, <1>1, <1>2, <1>3 DEF WhileUndoing, SoundInv, LogoutPending, Pending
<1>16. QED
  BY <1>4, <1>5, <1>6, <1>7, <1>8, <1>9, <1>10, <1>11, <1>12, <1>13, <1>14, <1>15 DEF SoundInv

LEMMA LogoutHandledSound ==
  ASSUME Basics, SoundInv, NEW v \in Leaver, LogoutHandled(v)
  PROVE  SoundInv'
<1>0. SessionTypeOK /\ Queue /\ \A p \in Op : op[p] \in OpState
  BY OpType, Names
<1>1. /\ op[v].pc = "sent" /\ op'[v].pc = "answered" /\ v \in Op
      /\ \A p \in Op : p # v => op'[p] = op[p]
      /\ UNCHANGED <<status, screen, access, user, stored, carried, disk>>
  BY LogoutHandledFacts, Names
<1>2. \A a, b \in Op : Before(a, b)' <=> Before(a, b)
  BY <1>1 DEF Before
<1>3. /\ Refresher \subseteq Run /\ Restorer \subseteq Run /\ Run \subseteq Op
      /\ Submitter \subseteq Op /\ Leaver \subseteq Op /\ Submitter \cap Run = {} /\ Leaver \cap Run = {}
      /\ Submitter \cap Leaver = {}
      /\ Refresher \cap Restorer = {} /\ Run = Refresher \cup Restorer
  BY Names
<1>4. NoFailedWrite'
  BY <1>0, <1>1, <1>2, <1>3 DEF NoFailedWrite, SoundInv
<1>5. WhileClearing'
  BY <1>0, <1>1, <1>2, <1>3 DEF WhileClearing, SoundInv, Active, Clearing, LoginWrites, Writes, LogoutPending, Pending, Before
<1>6. BeyondRestoration'
  BY <1>0, <1>1, <1>2, <1>3 DEF BeyondRestoration, SeenIn, SoundInv, Active, LogoutPending, Pending, Busy
<1>7. WhileLoggingIn'
  BY <1>0, <1>1, <1>2, <1>3 DEF WhileLoggingIn, SoundInv, Active, LoginWrites, Writes, Before, Busy
<1>8. SignedOut'
  BY <1>0, <1>1, <1>2, <1>3 DEF SignedOut, SoundInv, Active, LoginWrites, Writes, LogoutPending, Pending
<1>9. WhileRestoring'
  BY <1>0, <1>1, <1>2, <1>3 DEF WhileRestoring, SoundInv, Active
<1>10. TokensCurrent'
  BY <1>0, <1>1, <1>2, <1>3 DEF TokensCurrent, SoundInv, Active
<1>11. RefreshWaitedFor'
  BY <1>0, <1>1, <1>2, <1>3 DEF RefreshWaitedFor, SoundInv, Active
<1>12. RestoredOnce'
  BY <1>0, <1>1, <1>2, <1>3 DEF RestoredOnce, SoundInv, Active
<1>13. SignedIn'
  BY <1>0, <1>1, <1>2, <1>3 DEF SignedIn, SoundInv, Clearing, Busy, Leaves, LoginWrites, Writes
<1>14. RestorationFailed'
  BY <1>0, <1>1, <1>2, <1>3 DEF RestorationFailed, SoundInv, Clearing
<1>15. WhileUndoing'
  BY <1>0, <1>1, <1>2, <1>3 DEF WhileUndoing, SoundInv, LogoutPending, Pending
<1>16. QED
  BY <1>4, <1>5, <1>6, <1>7, <1>8, <1>9, <1>10, <1>11, <1>12, <1>13, <1>14, <1>15 DEF SoundInv

\* A step beside the app, or a rendering.
LEMMA ScreenSound ==
  ASSUME Basics, SoundInv, UNCHANGED <<status, access, user, stored, disk, carried, op>>, screen' \in {screen, status}
  PROVE  SoundInv'
<1>1. \A p \in Op : (Active(p)' <=> Active(p)) /\ (Clearing(p)' <=> Clearing(p)) /\ (Busy(p)' <=> Busy(p))
  BY DEF Active, Clearing, Busy
<1>2. /\ (LoginWrites' <=> LoginWrites) /\ (LogoutPending' <=> LogoutPending) /\ (Leaves' <=> Leaves)
      /\ \A b \in Submitter : Writes(b)' <=> Writes(b)
  BY DEF LoginWrites, Writes, LogoutPending, Pending, Leaves, Busy
<1>3. \A a, b \in Op : Before(a, b)' <=> Before(a, b)
  BY DEF Before
<1>4. (NoFailedWrite /\ WhileClearing /\ WhileLoggingIn /\ SignedOut /\ WhileRestoring)'
  BY <1>1, <1>2, <1>3, Names DEF SoundInv, NoFailedWrite, WhileClearing, WhileLoggingIn, SignedOut, WhileRestoring
<1>5. (TokensCurrent /\ RefreshWaitedFor /\ RestoredOnce /\ SignedIn /\ RestorationFailed)'
  BY <1>1, <1>2, <1>3, Names DEF SoundInv, TokensCurrent, RefreshWaitedFor, RestoredOnce, SignedIn, RestorationFailed
<1>6. WhileUndoing'
  BY <1>1, <1>2, <1>3, Names DEF SoundInv, WhileUndoing
<1>7. BeyondRestoration'
  <2>1. SeenIn => SeenIn'
    BY DEF SoundInv, BeyondRestoration, SeenIn
  <2>2. SeenIn' => status' \in {"unauthenticated", "authenticated"}
    BY DEF SoundInv, BeyondRestoration, SeenIn, Basics, SessionTypeOK
  <2>3. QED  BY <1>1, <1>2, <2>1, <2>2, Names DEF SoundInv, BeyondRestoration
<1>8. QED  BY <1>4, <1>5, <1>6, <1>7 DEF SoundInv

\* The app has just been opened.
Opened(o) ==
    /\ op[o].pc = "reading" /\ op[o].token = stored /\ ~op[o].stale
    /\ \A p \in Op : p # o => op[p].pc = "idle" /\ op[p].token = Nothing
    /\ status = "restoring" /\ screen = "restoring"
    /\ access = Nothing /\ user = Nothing /\ carried = FALSE

LEMMA OpenedSound == \A o \in Restorer : Opened(o) => SoundInv
<1> SUFFICES ASSUME NEW o \in Restorer, Opened(o) PROVE SoundInv
  OBVIOUS
<1>1. /\ \A p \in Op : Active(p) => p = o
      /\ \A p \in Op : ~Clearing(p)
      /\ ~LoginWrites /\ ~LogoutPending /\ o \in Op
      /\ \A p \in Submitter \cup Leaver : ~Busy(p) /\ op[p].pc = "idle" /\ ~Writes(p)
  BY Names DEF Opened, Active, Clearing, LoginWrites, Writes, LogoutPending, Pending, Busy
<1>2. NoFailedWrite /\ WhileClearing /\ WhileLoggingIn /\ SignedOut /\ WhileRestoring
  BY <1>1, Names DEF Opened, NoFailedWrite, WhileClearing, WhileLoggingIn, SignedOut, WhileRestoring, Busy
<1>3. TokensCurrent /\ RefreshWaitedFor /\ RestoredOnce /\ SignedIn /\ RestorationFailed
  BY <1>1, Names DEF Opened, TokensCurrent, RefreshWaitedFor, RestoredOnce, SignedIn, RestorationFailed
<1>4. WhileUndoing
  BY <1>1, Names DEF Opened, WhileUndoing
<1>5. BeyondRestoration
  BY <1>1 DEF Opened, BeyondRestoration, SeenIn
<1>6. QED  BY <1>2, <1>3, <1>4, <1>5 DEF SoundInv

LEMMA SoundInitially == ASSUME Init PROVE SoundInv
<1>1. Basics
  BY BasicsInitially
<1>2. PICK o \in Restorer : FreshStart(o)
  BY DEF Init, FreshStart
<1>3. Opened(o)
  BY <1>1, <1>2, Fresh DEF Init, Opened, Basics, SessionTypeOK
<1>4. QED  BY <1>3, OpenedSound

\* What has gone wrong is not forgotten.
LEMMA DisturbedStays == ASSUME Basics, [Next]_vars PROVE disturbed \subseteq disturbed'
<1>1. CASE UNCHANGED vars
  BY <1>1 DEF vars
<1>2. CASE Kinds
  <2>1. ASSUME NEW o \in Op, Drops(o) \/ Clears(o) \/ SessionCleared(o) \/ Sends(o) PROVE disturbed \subseteq disturbed'
    BY <2>1 DEF Drops, Clears, ClearSession, SessionCleared, Sends
  <2>2. ASSUME NEW o \in Run, Present(o) \/ Persists(o) \/ Persisted(o) \/ Deletes(o) PROVE disturbed \subseteq disturbed'
    BY <2>2 DEF Present, Persists, Persist, Persisted, Deletes
  <2>3. ASSUME NEW o \in Restorer,
               \/ FindsNothing(o) \/ Fails(o) \/ Repeats(o) \/ Succeeds(o)
               \/ MeUnauthorized(o) \/ RetryRestoration(o)
        PROVE  disturbed \subseteq disturbed'
    BY <2>3 DEF FindsNothing, Fails, Repeats, Succeeds, MeUnauthorized, RetryRestoration
  <2>4. ASSUME NEW b \in Submitter,
               SubmitLogin(b) \/ LoginFails(b) \/ LoginStored(b) \/ \E l \in Login : LoginAnswered(b, l)
        PROVE  disturbed \subseteq disturbed'
    BY <2>4 DEF SubmitLogin, LoginFails, LoginAnswered, LoginStored
  <2>5. ASSUME NEW v \in Leaver, TapLogout(v) \/ Unregistered(v) \/ LogoutHandled(v)
        PROVE  disturbed \subseteq disturbed'
    BY <2>5 DEF TapLogout, Unregistered, LogoutHandled
  <2>6. ASSUME NEW o \in Refresher, Unauthorized(o) PROVE disturbed \subseteq disturbed'
    BY <2>6 DEF Unauthorized
  <2>7. CASE Render \/ Restart \/ ArriveLate \/ Expire
    BY <2>7, RestartFacts DEF Render, ArriveLate, Expire
  <2>8. QED  BY <1>2, <2>1, <2>2, <2>3, <2>4, <2>5, <2>6, <2>7 DEF Kinds
<1>3. QED  BY <1>1, <1>2, StepKinds

LEMMA SoundSteps ==
  ASSUME Basics, Sound => SoundInv, [Next]_vars, Sound'
  PROVE  SoundInv'
<1>0. SoundInv
  BY DisturbedStays DEF Sound
<1>1. ASSUME NEW o \in Op, Drops(o) \/ Clears(o) \/ SessionCleared(o) \/ Sends(o) PROVE SoundInv'
  BY <1>0, <1>1, DropsSound, ClearsSound, ClearedSound, SendsSound
<1>2. ASSUME NEW o \in Run, Present(o) \/ Persists(o) \/ Persisted(o) \/ Deletes(o) PROVE SoundInv'
  BY <1>0, <1>2, PresentSound, PersistsSound, UndoSound, RefreshedSound, DeletesSound
<1>3. ASSUME NEW o \in Restorer,
             \/ FindsNothing(o) \/ Fails(o) \/ Repeats(o) \/ Succeeds(o)
             \/ MeUnauthorized(o) \/ RetryRestoration(o)
      PROVE  SoundInv'
  <2>1. CASE FindsNothing(o) \/ Fails(o) \/ Repeats(o) \/ Succeeds(o) \/ RetryRestoration(o)
    BY <1>0, <2>1, FindsNothingSound, FailsSound, RepeatsSound, SucceedsSound, RetrySound
  <2>2. CASE MeUnauthorized(o)
    <3>1. Waits401(o) \/ \E r \in Refresher : Starts401(o, r)
      BY <2>2 DEF MeUnauthorized, Waits401, Starts401
    <3>2. QED  BY <1>0, <2>2, <3>1, WaitsSound, StartsSound
  <2>3. QED  BY <1>3, <2>1, <2>2
<1>4. ASSUME NEW o \in Refresher, Unauthorized(o) PROVE SoundInv'
  BY <1>0, <1>4, UnauthorizedSound
<1>5. ASSUME NEW b \in Submitter,
             SubmitLogin(b) \/ LoginFails(b) \/ LoginStored(b) \/ \E l \in Login : LoginAnswered(b, l)
      PROVE  SoundInv'
  BY <1>0, <1>5, SubmitSound, LoginFailsSound, LoginAnsweredSound, LoginStoredSound
<1>6. ASSUME NEW v \in Leaver, TapLogout(v) \/ Unregistered(v) \/ LogoutHandled(v) PROVE SoundInv'
  BY <1>0, <1>6, TapLogoutSound, UnregisteredSound, LogoutHandledSound
<1>7. CASE Render \/ ArriveLate \/ Expire \/ UNCHANGED vars
  BY <1>0, <1>7, ScreenSound DEF Render, ArriveLate, Expire, vars, app
<1>8. CASE Restart
  <2>1. \E o \in Restorer : Opened(o)'
    BY <1>8, RestartFacts DEF Opened
  <2>2. (\A o \in Restorer : Opened(o) => SoundInv)'
    BY OpenedSound, PTL
  <2>3. QED  BY <2>1, <2>2
<1>9. QED
  BY StepKinds, <1>1, <1>2, <1>3, <1>4, <1>5, <1>6, <1>7, <1>8 DEF Kinds

-----------------------------------------------------------------------------
\* Sessions that end.

Calm == disturbed \cap {"disk", "killed", "unread", "crossed"} = {}

\* A session the app has begun to end is still stored, or used by what is current, only
\* while a logout is on its way to remove it.
EndingInv ==
    /\ LoginOf(stored) \in ended => LogoutPending
    /\ \A p \in Run : Active(p) /\ LoginOf(op[p].token) \in ended => LogoutPending

\* While nothing goes wrong outside the app: only a run that was superseded, or a logout,
\* presents a token of a session that ends; tokens just received are not revoked; and the
\* stored token is not, unless its session ends or its successor is about to be stored.
QuietInv ==
    /\ late = {}
    /\ \A p \in Run : op[p].stale /\ op[p].pc \in {"reading", "sent"} /\ op[p].token # Nothing =>
          LoginOf(op[p].token) \in ended
    /\ \A v \in Leaver : op[v].token # Nothing => LoginOf(op[v].token) \in ended
    /\ reused # {} => \E t \in reused : LoginOf(t) \in ended
    /\ reused = {} =>
          /\ \A p \in Run : op[p].pc = "answered" /\ op[p].token # Nothing => op[p].token \notin revoked
          /\ \/ stored \notin revoked
             \/ LoginOf(stored) \in ended
             \/ \E p \in Run : Active(p) /\ op[p].pc = "answered"

\* A step that neither ends a session nor reaches the backend.
Plain ==
    /\ UNCHANGED <<revoked, reused, ended>>
    /\ late' = late \/ disturbed' # {}
    /\ \A p \in Run : Active(p)' =>
          op'[p].token \in {Nothing, stored} \/ (Active(p) /\ op'[p].token = op[p].token)
    /\ \A p \in Run : op'[p].stale /\ op'[p].pc \in {"reading", "sent"} /\ op'[p].token # Nothing =>
          op[p].stale /\ op[p].pc \in {"reading", "sent"} /\ op'[p].token = op[p].token
    /\ \A p \in Run : op'[p].pc = "answered" => op[p].pc = "answered" /\ op'[p].token = op[p].token
    /\ \A p \in Run : Active(p) /\ op[p].pc = "answered" /\ stored' = stored =>
          (Active(p)' /\ op'[p].pc = "answered") \/ disturbed' # {}
    /\ \A v \in Leaver : op'[v].token \in {Nothing, op[v].token}
    /\ LogoutPending => LogoutPending' \/ "unread" \in disturbed'
    /\ \/ stored' \in {stored, Nothing}
       \/ \E p \in Run : Active(p) /\ op[p].pc = "answered" /\ op[p].token # Nothing /\ stored' = op[p].token

LEMMA NothingEnds == ASSUME Basics PROVE Nothing \notin ended /\ Nothing \notin revoked /\ LoginOf(Nothing) = Nothing
BY TokenFacts DEF Basics, SessionTypeOK

LEMMA PlainEnding ==
  ASSUME Basics, EndingInv, Plain, Calm'
  PROVE  EndingInv'
<1>1. Nothing \notin ended /\ LoginOf(Nothing) = Nothing /\ ended' = ended
  BY NothingEnds DEF Plain
<1>2. LogoutPending => LogoutPending'
  BY DEF Plain, Calm
<1>3. LoginOf(stored') \in ended => LogoutPending
  BY <1>1 DEF Plain, EndingInv
<1>4. \A p \in Run : Active(p)' /\ LoginOf(op'[p].token) \in ended => LogoutPending
  BY <1>1 DEF Plain, EndingInv
<1>5. QED  BY <1>1, <1>2, <1>3, <1>4 DEF EndingInv

LEMMA PlainQuiet ==
  ASSUME Basics, QuietInv, Plain, disturbed' = {}
  PROVE  QuietInv'
<1>1. /\ Nothing \notin revoked
      /\ UNCHANGED <<revoked, reused, ended, late>>
  BY NothingEnds DEF Plain
<1>2. \A p \in Run : op'[p].stale /\ op'[p].pc \in {"reading", "sent"} /\ op'[p].token # Nothing =>
          LoginOf(op'[p].token) \in ended
  BY DEF Plain, QuietInv
<1>3. \A v \in Leaver : op'[v].token # Nothing => LoginOf(op'[v].token) \in ended
  BY DEF Plain, QuietInv
<1>4. ASSUME reused = {}
      PROVE  /\ \A p \in Run : op'[p].pc = "answered" /\ op'[p].token # Nothing => op'[p].token \notin revoked
             /\ \/ stored' \notin revoked
                \/ LoginOf(stored') \in ended
                \/ \E p \in Run : Active(p)' /\ op'[p].pc = "answered"
  <2>1. \A p \in Run : op'[p].pc = "answered" /\ op'[p].token # Nothing => op'[p].token \notin revoked
    BY <1>4 DEF Plain, QuietInv
  <2>2. CASE stored' = stored
    BY <1>4, <2>1, <2>2 DEF Plain, QuietInv
  <2>3. CASE stored' = Nothing
    BY <1>1, <2>1, <2>3
  <2>4. CASE \E p \in Run : Active(p) /\ op[p].pc = "answered" /\ op[p].token # Nothing /\ stored' = op[p].token
    BY <1>4, <2>1, <2>4 DEF QuietInv
  <2>5. QED  BY <2>1, <2>2, <2>3, <2>4 DEF Plain
<1>5. QED  BY <1>1, <1>2, <1>3, <1>4 DEF QuietInv

\* One operation changes, the others only stop waiting for it.
Lets(o) ==
    \A p \in Op : p # o => /\ op'[p].token = op[p].token /\ op'[p].stale = op[p].stale
                           /\ op'[p].pc = op[p].pc \/ (op[p].pc = "meWaits" /\ op'[p].pc \in {"meAgain", "meFailed"})

LEMMA PlainIfOne ==
  ASSUME Basics, NEW o \in Op, Lets(o),
         UNCHANGED <<revoked, reused, ended>>,
         late' = late \/ disturbed' # {},
         o \in Run =>
            /\ Active(o)' => op'[o].token \in {Nothing, stored} \/ (Active(o) /\ op'[o].token = op[o].token)
            /\ op'[o].stale /\ op'[o].pc \in {"reading", "sent"} =>
                  op[o].stale /\ op[o].pc \in {"reading", "sent"} /\ op'[o].token = op[o].token
            /\ op'[o].pc # "answered"
            /\ Active(o) /\ op[o].pc = "answered" => stored' # stored \/ disturbed' # {},
         o \in Leaver => /\ op'[o].token \in {Nothing, op[o].token}
                         /\ Pending(o) => Pending(o)' \/ "unread" \in disturbed',
         \/ stored' \in {stored, Nothing}
         \/ Active(o) /\ op[o].pc = "answered" /\ op[o].token # Nothing /\ stored' = op[o].token
  PROVE  Plain
<1>1. \A p \in Run : p # o =>
         /\ Active(p)' => Active(p) /\ op'[p].token = op[p].token
         /\ op'[p].pc \in {"reading", "sent", "answered"} <=> op[p].pc \in {"reading", "sent", "answered"}
         /\ op'[p].pc \in {"reading", "sent", "answered"} => op'[p].pc = op[p].pc
         /\ op'[p].token = op[p].token /\ op'[p].stale = op[p].stale
         /\ Active(p) => Active(p)'
  BY Names DEF Lets, Active
<1>2. \A v \in Leaver : v # o => op'[v].token = op[v].token /\ (Pending(v) => Pending(v)')
  BY Names DEF Lets, Pending
<1>3. \A v \in Leaver : op'[v].token \in {Nothing, op[v].token}
  BY <1>2
<1>4. LogoutPending => LogoutPending' \/ "unread" \in disturbed'
  BY <1>2 DEF LogoutPending
<1>5. QED  BY <1>1, <1>3, <1>4, Names DEF Plain, Active

LEMMA LetsIfSame == ASSUME NEW o \in Op, \A p \in Op : p # o => op'[p] = op[p] PROVE Lets(o)
BY DEF Lets

LEMMA PlainKinds ==
  /\ \A o \in Op : Basics /\ (Drops(o) \/ SessionCleared(o) \/ Sends(o)) => Plain
  /\ \A o \in Run : Basics /\ (Persists(o) \/ Persisted(o) \/ Deletes(o)) => Plain
  /\ \A o \in Restorer :
        Basics /\ (FindsNothing(o) \/ Fails(o) \/ Repeats(o) \/ Succeeds(o) \/ MeUnauthorized(o) \/ RetryRestoration(o))
           => Plain
  /\ \A o \in Refresher : Basics /\ Unauthorized(o) => Plain
  /\ \A b \in Submitter : Basics /\ (SubmitLogin(b) \/ LoginFails(b) \/ LoginStored(b)) => Plain
<1>1. ASSUME NEW o \in Op, Basics, Drops(o) PROVE Plain
  <2>1. Lets(o) /\ op'[o].pc = "idle" /\ op'[o].token = Nothing
    BY <1>1, DropsFacts DEF Lets, Similar
  <2>2. UNCHANGED <<revoked, reused, ended, stored>> /\ (late' = late \/ disturbed' # {})
    BY <1>1 DEF Drops
  <2>3. o \in Run /\ Active(o) /\ op[o].pc = "answered" => disturbed' # {}
    BY <1>1 DEF Drops, Active
  <2>4. o \in Leaver => "unread" \in disturbed'
    BY <1>1, Names DEF Drops
  <2>5. ~Active(o)'
    BY <2>1 DEF Active
  <2>6. QED  BY <1>1, <2>1, <2>2, <2>3, <2>4, <2>5, PlainIfOne
<1>2. ASSUME NEW o \in Op, Basics, SessionCleared(o) PROVE Plain
  <2>1. Lets(o) /\ op'[o].pc = "idle" /\ op[o].pc = "clearing" /\ op'[o].token = Nothing
    BY <1>2, ClearedFacts DEF Lets, Similar
  <2>2. UNCHANGED <<revoked, reused, ended, stored, late>>
    BY <1>2, ClearedFacts DEF backend
  <2>3. ~Active(o)' /\ ~Pending(o)
    BY <2>1 DEF Active, Pending
  <2>4. QED  BY <1>2, <2>1, <2>2, <2>3, PlainIfOne
<1>3. ASSUME NEW o \in Op, Basics, Sends(o) PROVE Plain
  <2>1. /\ Lets(o) /\ op'[o].pc = "sent" /\ op[o].pc = "reading" /\ op'[o].token = op[o].token
        /\ op'[o].stale = op[o].stale
    BY <1>3, SendsFacts, LetsIfSame DEF Sends
  <2>2. UNCHANGED <<revoked, reused, ended, stored, late>>
    BY <1>3 DEF Sends, backend
  <2>3. (Active(o)' => Active(o)) /\ Pending(o)'
    BY <2>1 DEF Active, Pending
  <2>4. QED  BY <1>3, <2>1, <2>2, <2>3, PlainIfOne
<1>4. ASSUME NEW o \in Run, Basics, Persists(o) PROVE Plain
  <2>1. /\ Lets(o) /\ op'[o].pc \in {"storing", "storeFailed"} /\ op'[o].token = op[o].token
        /\ op'[o].stale = op[o].stale /\ o \in Op /\ o \notin Leaver
        /\ op[o].pc = "answered" /\ op[o].token # Nothing /\ ~op[o].stale
    BY <1>4, PersistsFacts, LetsIfSame, Names DEF Persists
  <2>2. UNCHANGED <<revoked, reused, ended, late>>
    BY <1>4 DEF Persists, Persist, backend
  <2>3. Active(o) /\ (stored' = op[o].token \/ (stored' = stored /\ disturbed' # {}))
    BY <1>4, <2>1, PersistsFacts DEF Active
  <2>4. op[o].token # stored
    BY <1>4, <2>1 DEF Basics, Unique
  <2>5. QED  BY <1>4, <2>1, <2>2, <2>3, <2>4, PlainIfOne
<1>5. ASSUME NEW o \in Run, Basics, Persisted(o) PROVE Plain
  <2>1. /\ Lets(o) /\ op'[o].pc \in {"comparing", "idle", "me"} /\ o \in Op /\ o \notin Leaver
        /\ op[o].pc = "storing"
        /\ Active(o)' => op'[o].token = Nothing
        /\ UNCHANGED <<revoked, reused, ended, stored, late>>
    <3>1. CASE op[o].stale
      BY <1>5, <3>1, UndoFacts, LetsIfSame, Names DEF Active, backend
    <3>2. CASE ~op[o].stale
      BY <1>5, <3>2, RefreshedFacts, LetsIfSame, Names DEF Active, Lets, Similar, backend
    <3>3. QED  BY <3>1, <3>2
  <2>2. QED  BY <1>5, <2>1, PlainIfOne
<1>6. ASSUME NEW o \in Run, Basics, Deletes(o) PROVE Plain
  <2>1. /\ Lets(o) /\ op'[o].pc = "deleting" /\ op[o].pc = "comparing" /\ o \in Op /\ o \notin Leaver
        /\ op'[o].stale = op[o].stale /\ op'[o].token = op[o].token
        /\ UNCHANGED <<revoked, reused, ended, late>> /\ stored' \in {stored, Nothing}
    BY <1>6, DeletesFacts, LetsIfSame, Names DEF Deletes, backend
  <2>2. Active(o)' => Active(o)
    BY <2>1 DEF Active
  <2>3. QED  BY <1>6, <2>1, <2>2, PlainIfOne
<1>7. ASSUME NEW o \in Restorer, Basics, FindsNothing(o) \/ Fails(o) \/ Succeeds(o) PROVE Plain
  <2>1. /\ Lets(o) /\ op'[o].pc \in {"idle", "delay"} /\ o \in Op /\ o \notin Leaver /\ o \in Run
        /\ op'[o].pc = "delay" => op'[o].token = Nothing
        /\ op[o].pc = "answered" => disturbed' # {}
        /\ UNCHANGED <<revoked, reused, ended, stored>> /\ (late' = late \/ disturbed' # {})
    BY <1>7, FindsNothingFacts, FailsFacts, SucceedsFacts, LetsIfSame, Names
       DEF FindsNothing, Fails, Succeeds, backend
  <2>2. Active(o)' => op'[o].token = Nothing
    BY <2>1 DEF Active
  <2>3. QED  BY <1>7, <2>1, <2>2, PlainIfOne
<1>8. ASSUME NEW o \in Run, NEW a \in {1, 2}, Basics, Begin(o, a), op[o].pc \in {"idle", "delay"},
             Busy(o) \/ (o \in Refresher /\ NoneInFlight(Refresher)) \/ (o \in Restorer /\ NoneInFlight(Restorer)),
             status' \in {status, "restoring"},
             UNCHANGED <<screen, access, user, stored, carried, backend, ended, disturbed>>
      PROVE  Plain
  <2>1. /\ Lets(o) /\ op'[o].pc = "reading" /\ ~op'[o].stale /\ op'[o].token = stored
        /\ o \in Op /\ o \notin Leaver
    BY <1>8, BeginsFacts, LetsIfSame, Names DEF OnDisk
  <2>2. QED  BY <1>8, <2>1, PlainIfOne DEF backend
<1>9. ASSUME NEW o \in Restorer, Basics, Repeats(o) \/ RetryRestoration(o) PROVE Plain
  BY <1>8, <1>9, Names DEF Repeats, RetryRestoration, Busy
<1>10. ASSUME NEW o \in Refresher, Basics, Unauthorized(o) PROVE Plain
  BY <1>8, <1>10, Names DEF Unauthorized
<1>11. ASSUME NEW o \in Restorer, Basics, MeUnauthorized(o) PROVE Plain
  <2>1. CASE Waits401(o)
    <3>1. /\ Lets(o) /\ op'[o].pc = "meWaits" /\ op[o].pc = "me" /\ op'[o].token = op[o].token
          /\ op'[o].stale = op[o].stale /\ o \in Op /\ o \notin Leaver
          /\ UNCHANGED <<revoked, reused, ended, stored, late>>
      BY <1>11, <2>1, Waits401Facts, LetsIfSame, Names DEF backend
    <3>2. Active(o)' => Active(o)
      BY <3>1, Names DEF Active
    <3>3. QED  BY <1>11, <3>1, <3>2, PlainIfOne
  <2>2. ASSUME NEW r \in Refresher, Starts401(o, r) PROVE Plain
    <3>1. /\ op'[o].pc = "meWaits" /\ op[o].pc = "me" /\ op'[o].token = op[o].token
          /\ op'[o].stale = op[o].stale
          /\ op[r].pc = "idle" /\ op'[r].pc = "reading" /\ ~op'[r].stale /\ op'[r].token = stored
          /\ \A p \in Op : p # o /\ p # r => op'[p] = op[p]
          /\ o \notin Leaver /\ r \notin Leaver /\ Leaver \subseteq Op /\ Run \subseteq Op
          /\ UNCHANGED <<revoked, reused, ended, stored, late>>
      BY <1>11, <2>2, Starts401Facts, Names DEF backend
    <3>2. (\A v \in Leaver : op'[v] = op[v]) /\ (LogoutPending => LogoutPending')
      BY <3>1 DEF LogoutPending, Pending
    <3>3. \A p \in Run : p # r => (Active(p)' <=> Active(p)) /\ op'[p].token = op[p].token /\ op'[p].stale = op[p].stale
      BY <3>1 DEF Active
    <3>4. QED  BY <3>1, <3>2, <3>3 DEF Plain
  <2>3. QED  BY <1>11, <2>1, <2>2 DEF MeUnauthorized, Waits401, Starts401
<1>12. ASSUME NEW b \in Submitter, Basics, SubmitLogin(b) \/ LoginFails(b) \/ LoginStored(b) PROVE Plain
  <2>1. Lets(b) /\ b \in Op /\ b \notin Run /\ b \notin Leaver /\ UNCHANGED <<revoked, reused, ended, stored, late>>
    BY <1>12, SubmitFacts, LoginEndsFacts, LetsIfSame, Names DEF backend
  <2>2. QED  BY <1>12, <2>1, PlainIfOne, Names
<1>13. QED
  BY <1>1, <1>2, <1>3, <1>4, <1>5, <1>6, <1>7, <1>9, <1>10, <1>11, <1>12, Names

-----------------------------------------------------------------------------
\* The steps that end a session or reach the backend.

\* What is current and has a token uses the stored one.
LEMMA CurrentToken ==
  ASSUME Basics, SoundInv, NEW p \in Run, Active(p), op[p].pc \in {"reading", "sent"}
  PROVE  op[p].token = stored
BY DEF SoundInv, TokensCurrent

LEMMA ClearsEnding ==
  ASSUME Basics, EndingInv, NEW o \in Op, Clears(o), Calm'
  PROVE  EndingInv'
<1>1. stored' = Nothing /\ \A p \in Run : ~Active(p)'
  BY ClearFacts, Names DEF Calm
<1>2. Nothing \notin ended' /\ LoginOf(Nothing) = Nothing
  <2>1. Basics'
    BY ClearsInApp, StepInApp
  <2>2. QED  BY <2>1, TokenFacts DEF Basics, SessionTypeOK
<1>3. QED  BY <1>1, <1>2 DEF EndingInv

\* A step that makes everything current stale, and ends what it uses.
LEMMA SupersedesQuiet ==
  ASSUME Basics, SoundInv, QuietInv,
         UNCHANGED <<revoked, reused, late>>, ended \subseteq ended',
         \A p \in Run : op'[p].pc \in {"reading", "sent", "answered"} =>
            op'[p].pc = op[p].pc /\ op'[p].token = op[p].token,
         \A p \in Run : op[p].pc \in {"reading", "sent"} /\ op[p].token = stored /\ stored # Nothing =>
            LoginOf(stored) \in ended',
         \A v \in Leaver : op'[v].token \in {Nothing, op[v].token},
         stored' \notin revoked \/ (stored' = stored /\ stored # Nothing /\ LoginOf(stored) \in ended')
  PROVE  QuietInv'
<1>1. ASSUME NEW p \in Run, op'[p].stale, op'[p].pc \in {"reading", "sent"}, op'[p].token # Nothing
      PROVE  LoginOf(op'[p].token) \in ended'
  <2>1. op[p].pc \in {"reading", "sent"} /\ op'[p].token = op[p].token
    BY <1>1
  <2>2. CASE op[p].stale
    BY <1>1, <2>1, <2>2 DEF QuietInv
  <2>3. CASE ~op[p].stale
    BY <1>1, <2>1, <2>3, CurrentToken DEF Active
  <2>4. QED  BY <2>2, <2>3
<1>2. \A v \in Leaver : op'[v].token # Nothing => LoginOf(op'[v].token) \in ended'
  BY DEF QuietInv
<1>3. reused = {} => \A p \in Run : op'[p].pc = "answered" /\ op'[p].token # Nothing => op'[p].token \notin revoked
  BY DEF QuietInv
<1>4. late = {} /\ (reused # {} => \E t \in reused : LoginOf(t) \in ended')
  BY DEF QuietInv
<1>5. QED  BY <1>1, <1>2, <1>3, <1>4 DEF QuietInv

LEMMA ClearsQuiet ==
  ASSUME Basics, SoundInv, QuietInv, NEW o \in Op, Clears(o), disturbed' = {}
  PROVE  QuietInv'
<1>1. /\ stored' = Nothing /\ UNCHANGED <<revoked, reused, late>>
      /\ ended' = ended \cup ({access, LoginOf(stored)} \ {Nothing})
      /\ op'[o].pc = "clearing" /\ op'[o].token = Nothing
      /\ \A p \in Op : p # o => op'[p].token = op[p].token /\ op'[p].pc = op[p].pc
  <2>1. "disk" \notin disturbed'
    OBVIOUS
  <2>2. stored' = Nothing /\ UNCHANGED <<revoked, reused, late>>
    BY <2>1, ClearFacts DEF backend
  <2>3. \A p \in Op : p # o => Similar(p) /\ op'[p].pc = op[p].pc
    BY ClearFacts
  <2>4. \A p \in Op : p # o => op'[p].token = op[p].token /\ op'[p].pc = op[p].pc
    BY ONLY <2>3 DEF Similar
  <2>5. /\ ended' = ended \cup ({access, LoginOf(stored)} \ {Nothing})
        /\ op'[o].pc = "clearing" /\ op'[o].token = Nothing
    BY ClearFacts
  <2>6. QED  BY <2>2, <2>4, <2>5
<1>2. Nothing \notin revoked
  BY NothingEnds
<1>3. stored # Nothing => LoginOf(stored) \in ended'
  BY <1>1, LoginOfHeld DEF Basics, SessionTypeOK, Genuine
<1>4. \A p \in Run : op'[p].pc \in {"reading", "sent", "answered"} =>
            op'[p].pc = op[p].pc /\ op'[p].token = op[p].token
  BY <1>1, Names
<1>5. \A v \in Leaver : op'[v].token \in {Nothing, op[v].token}
  BY <1>1, Names
<1>6. QED  BY <1>1, <1>2, <1>3, <1>4, <1>5, SupersedesQuiet

LEMMA TapLogoutEnds ==
  ASSUME Basics, NEW v \in Leaver, TapLogout(v)
  PROVE  /\ EndingInv'
         /\ SoundInv /\ QuietInv => QuietInv'
<1>1. /\ UNCHANGED <<stored, revoked, reused, late>>
      /\ ended' = ended \cup ({access, LoginOf(stored)} \ {Nothing})
      /\ op'[v].pc = "unregistering" /\ op'[v].token = Nothing
      /\ \A p \in Op : p # v => op'[p].token = op[p].token /\ op'[p].pc = op[p].pc
  BY TapLogoutFacts DEF TapLogout, backend, Similar
<1>2. EndingInv'
  BY <1>1 DEF EndingInv, LogoutPending, Pending
<1>3. stored # Nothing => LoginOf(stored) \in ended'
  BY <1>1, LoginOfHeld DEF Basics, SessionTypeOK, Genuine
<1>4. /\ \A p \in Run : op'[p].pc = op[p].pc /\ op'[p].token = op[p].token
      /\ \A u \in Leaver : op'[u].token \in {Nothing, op[u].token}
  BY <1>1, Names
<1>5. stored' \notin revoked \/ (stored' = stored /\ stored # Nothing /\ LoginOf(stored) \in ended')
  BY <1>1, <1>3, NothingEnds
<1>6. QED  BY <1>1, <1>2, <1>3, <1>4, <1>5, SupersedesQuiet

LEMMA LoginAnsweredEnds ==
  ASSUME Basics, NEW b \in Submitter, NEW l \in Login, LoginAnswered(b, l)
  PROVE  /\ Calm' => EndingInv'
         /\ disturbed' = {} /\ SoundInv /\ QuietInv => QuietInv'
<1>1. /\ UNCHANGED <<revoked, reused, late>>
      /\ ended' = ended \cup {k \in Login : issued[k] > 0}
      /\ \A p \in Run : ~Active(p)'
      /\ \A p \in Run : op'[p].token = op[p].token /\ op'[p].pc = op[p].pc
      /\ "disk" \notin disturbed' => stored' = <<l, 0>>
      /\ LoginOf(<<l, 0>>) = l /\ l \notin ended'
      /\ \A v \in Leaver : op'[v].token = op[v].token
      /\ <<l, 0>> \notin revoked
  BY LoginAnsweredFacts, Names DEF Similar, Basics, Genuine
<1>2. Calm' => EndingInv'
  BY <1>1 DEF EndingInv, Calm
<1>3. stored # Nothing => LoginOf(stored) \in ended'
  BY <1>1, LoginOfHeld, TokenFacts DEF Basics, SessionTypeOK, Genuine
<1>4. ASSUME disturbed' = {}, SoundInv, QuietInv PROVE QuietInv'
  <2>1. stored' \notin revoked
    BY <1>1, <1>4
  <2>2. QED  BY <1>1, <1>3, <1>4, <2>1, SupersedesQuiet
<1>5. QED  BY <1>2, <1>4

LEMMA UnregisteredEnds ==
  ASSUME Basics, NEW v \in Leaver, Unregistered(v)
  PROVE  /\ EndingInv'
         /\ QuietInv => QuietInv'
<1>1. /\ UNCHANGED <<stored, revoked, reused, late>>
      /\ ended' = ended \cup ({LoginOf(stored)} \ {Nothing})
      /\ op'[v].pc = "reading" /\ op'[v].token = stored
      /\ \A p \in Run : op'[p] = op[p]
      /\ \A u \in Leaver : u # v => op'[u] = op[u]
  BY UnregisteredFacts, Names DEF Unregistered, backend
<1>2. EndingInv'
  BY <1>1 DEF EndingInv, LogoutPending, Pending
<1>3. stored # Nothing => LoginOf(stored) \in ended'
  BY <1>1, LoginOfHeld DEF Basics, SessionTypeOK, Genuine
<1>4. \A p \in Run : Active(p)' <=> Active(p)
  BY <1>1 DEF Active
<1>5. QED  BY <1>1, <1>2, <1>3, <1>4 DEF QuietInv

LEMMA LogoutHandledEnds ==
  ASSUME Basics, NEW v \in Leaver, LogoutHandled(v)
  PROVE  /\ EndingInv => EndingInv'
         /\ QuietInv => QuietInv'
<1>1. /\ UNCHANGED <<stored, reused, late, ended>>
      /\ op'[v].pc = "answered" /\ op'[v].token = op[v].token
      /\ op[v].token # Nothing /\ op[v].pc = "sent"
      /\ revoked' = revoked \cup {op[v].token}
      /\ \A p \in Run : op'[p] = op[p]
      /\ \A u \in Leaver : u # v => op'[u] = op[u]
  BY LogoutHandledFacts, Names, IssuedMeans, TokenFacts DEF Basics, SessionTypeOK
<1>2. (\A p \in Run : Active(p)' <=> Active(p)) /\ (LogoutPending => LogoutPending')
  BY <1>1 DEF Active, LogoutPending, Pending
<1>3. EndingInv => EndingInv'
  BY <1>1, <1>2 DEF EndingInv
<1>4. ASSUME QuietInv PROVE QuietInv'
  <2>1. LoginOf(op[v].token) \in ended
    BY <1>1, <1>4 DEF QuietInv
  <2>2. \A p \in Run : op[p].pc = "answered" /\ op[p].token # Nothing => op[p].token # op[v].token
    BY Names DEF Basics, Unique
  <2>3. QED  BY <1>1, <1>2, <1>4, <2>1, <2>2 DEF QuietInv
<1>5. QED  BY <1>3, <1>4

\* Of two current runs, one is a restoration that waits for the other, unless both are
\* about to find out that there is no token.
LEMMA OneCurrent ==
  ASSUME Basics, SoundInv, NEW p \in Run, NEW q \in Run, p # q, Active(p), Active(q),
         op[p].pc \notin {"reading", "meWaits"}
  PROVE  op[q].pc = "meWaits"
<1>1. Busy(p) /\ Busy(q)
  BY DEF Active, Busy
<1>2. \/ p \in Restorer /\ q \in Refresher
      \/ p \in Refresher /\ q \in Restorer
  BY <1>1, Names DEF Basics, OneEach
<1>3. ~LoginWrites /\ ~LogoutPending
  BY <1>2 DEF SoundInv, BeyondRestoration, LoginWrites, Writes
<1>4. status = "restoring"
  BY <1>2, <1>3 DEF SoundInv, WhileRestoring, SignedOut
<1>5. p \in Restorer => stored # Nothing
  BY DEF SoundInv, WhileRestoring
<1>6. \E s \in Restorer : op[s].pc = "meWaits"
  BY <1>2, <1>4, <1>5 DEF SoundInv, RefreshWaitedFor
<1>7. QED  BY <1>1, <1>2, <1>6 DEF Basics, OneEach, Busy

LEMMA PresentEnds ==
  ASSUME Basics, NEW o \in Run, Present(o)
  PROVE  /\ EndingInv => EndingInv'
         /\ SoundInv /\ QuietInv => QuietInv'
<1> DEFINE t == op[o].token
<1>1. /\ UNCHANGED <<stored, late, ended>>
      /\ op[o].pc = "sent" /\ op'[o].pc = "answered" /\ op'[o].stale = op[o].stale
      /\ op'[o].token = RotationOf(t)
      /\ \A p \in Op : p # o => op'[p] = op[p]
      /\ t \in Issued /\ Rotate(t) /\ o \in Op /\ o \notin Leaver
  BY PresentFacts, Names
<1>2. /\ revoked \subseteq revoked'
      /\ reused' \in {reused, reused \cup {t}}
      /\ RotationOf(t) # Nothing => /\ RotationOf(t) \notin Issued
                                    /\ LoginOf(RotationOf(t)) = LoginOf(t)
      /\ reused' = {} => revoked' \subseteq revoked \cup {t} /\ t \notin revoked
      /\ t \in revoked => reused' = reused \cup {t}
      /\ revoked \subseteq Issued
  BY <1>1, Rotating DEF Basics, Genuine
<1>3. \A p \in Run : Active(p)' <=> Active(p)
  BY <1>1, Names DEF Active
<1>4. ASSUME EndingInv PROVE EndingInv'
  <2>1. LogoutPending' <=> LogoutPending
    BY <1>1, Names DEF LogoutPending, Pending
  <2>2. Nothing \notin ended /\ LoginOf(Nothing) = Nothing
    BY NothingEnds
  <2>3. \A p \in Run : LoginOf(op'[p].token) \in ended => LoginOf(op[p].token) \in ended
    BY <1>1, <1>2, <2>2, Names
  <2>4. QED  BY <1>1, <1>3, <1>4, <2>1, <2>3 DEF EndingInv
<1>5. ASSUME SoundInv, QuietInv PROVE QuietInv'
  <2>1. Active(o) \/ LoginOf(t) \in ended
    <3>1. t # Nothing
      BY <1>1 DEF Basics, Carries
    <3>2. QED  BY <1>1, <1>5, <3>1, OpType DEF QuietInv, Active
  <2>2. Active(o) => t = stored
    BY <1>1, <1>5, CurrentToken
  <2>3. /\ \A p \in Run : op'[p].stale /\ op'[p].pc \in {"reading", "sent"} /\ op'[p].token # Nothing =>
              LoginOf(op'[p].token) \in ended
        /\ \A v \in Leaver : op'[v].token # Nothing => LoginOf(op'[v].token) \in ended
        /\ late = {}
    BY <1>1, <1>5, Names DEF QuietInv
  <2>4. ASSUME reused' # {} PROVE \E x \in reused' : LoginOf(x) \in ended
    <3>1. CASE reused # {}
      BY <1>2, <1>5, <3>1 DEF QuietInv
    <3>2. CASE reused = {}
      <4>1. reused' = {t} /\ t \in revoked
        BY <1>2, <2>4, <3>2, <1>1 DEF Rotate
      <4>2. CASE Active(o)
        <5>1. stored \in revoked /\ stored = t
          BY <2>2, <4>1, <4>2
        <5>2. \A q \in Run : Active(q) => op[q].pc # "answered"
          BY <1>1, <1>5, <4>2, OneCurrent
        <5>3. LoginOf(stored) \in ended
          BY <1>5, <3>2, <5>1, <5>2 DEF QuietInv
        <5>4. QED  BY <4>1, <5>1, <5>3
      <4>3. CASE ~Active(o)
        BY <2>1, <4>1, <4>3
      <4>4. QED  BY <4>2, <4>3
    <3>3. QED  BY <3>1, <3>2
  <2>5. ASSUME reused' = {}
        PROVE  /\ \A p \in Run : op'[p].pc = "answered" /\ op'[p].token # Nothing => op'[p].token \notin revoked'
               /\ \/ stored \notin revoked'
                  \/ LoginOf(stored) \in ended
                  \/ \E p \in Run : Active(p)' /\ op'[p].pc = "answered"
    <3>1. reused = {} /\ revoked' \subseteq revoked \cup {t} /\ t \notin revoked
      BY <1>2, <2>5
    <3>2. ASSUME NEW p \in Run, op'[p].pc = "answered", op'[p].token # Nothing PROVE op'[p].token \notin revoked'
      <4>1. CASE p = o
        BY <1>1, <1>2, <3>1, <3>2, <4>1
      <4>2. CASE p # o
        <5>1. op[p].token # t /\ op[p].token \notin revoked /\ op'[p] = op[p]
          BY <1>1, <1>5, <3>1, <3>2, <4>2, Names DEF Basics, Unique, QuietInv
        <5>2. QED  BY <3>1, <5>1
      <4>3. QED  BY <4>1, <4>2
    <3>3. \/ stored \notin revoked
          \/ LoginOf(stored) \in ended
          \/ \E p \in Run : Active(p)' /\ op'[p].pc = "answered"
      <4>1. \A p \in Run : Active(p) /\ op[p].pc = "answered" => Active(p)' /\ op'[p].pc = "answered"
        BY <1>1, <1>3, Names
      <4>2. QED  BY <1>5, <3>1, <4>1 DEF QuietInv
    <3>4. stored = t => LoginOf(stored) \in ended \/ (Active(o)' /\ op'[o].pc = "answered")
      BY <1>1, <1>3, <2>1
    <3>5. QED  BY <3>1, <3>2, <3>3, <3>4
  <2>6. QED  BY <1>1, <2>3, <2>4, <2>5 DEF QuietInv
<1>6. QED  BY <1>4, <1>5

LEMMA BesideEnds ==
  ASSUME EndingInv, UNCHANGED <<stored, op, ended>>
  PROVE  /\ EndingInv'
         /\ QuietInv /\ UNCHANGED <<revoked, reused, late>> => QuietInv'
<1>1. (\A p \in Run : Active(p)' <=> Active(p)) /\ (LogoutPending' <=> LogoutPending)
  BY DEF Active, LogoutPending, Pending
<1>2. EndingInv'
  BY <1>1 DEF EndingInv
<1>3. QuietInv /\ UNCHANGED <<revoked, reused, late>> => QuietInv'
  BY <1>1 DEF QuietInv
<1>4. QED  BY <1>2, <1>3

LEMMA RestartEnds ==
  ASSUME Basics, EndingInv, Restart, Calm'
  PROVE  /\ EndingInv'
         /\ disturbed' = {} /\ QuietInv => QuietInv'
<1>1. PICK o \in Restorer :
         /\ o \in Op
         /\ op'[o].pc = "reading" /\ op'[o].token = stored' /\ ~op'[o].stale
         /\ \A p \in Op : p # o => op'[p].pc = "idle" /\ op'[p].token = Nothing
  BY RestartFacts
<1>2. /\ late' = late /\ AtRest
      /\ UNCHANGED <<stored, revoked, reused, ended>>
  BY RestartFacts DEF Calm
<1>3. ~LogoutPending /\ \A p \in Run : ~Active(p)
  BY <1>2, Names DEF AtRest, LogoutPending, Pending, Active
<1>4. LoginOf(stored) \notin ended
  BY <1>3 DEF EndingInv
<1>5. EndingInv'
  <2>1. \A p \in Run : Active(p)' => op'[p].token = stored
    BY <1>1, <1>2, Names DEF Active
  <2>2. QED  BY <1>2, <1>4, <2>1 DEF EndingInv
<1>6. ASSUME disturbed' = {}, QuietInv PROVE QuietInv'
  <2>1. \A p \in Run : ~(op'[p].stale /\ op'[p].pc \in {"reading", "sent"}) /\ op'[p].pc # "answered"
    BY <1>1, Names
  <2>2. \A v \in Leaver : op'[v].token = Nothing
    BY <1>1, Names
  <2>3. reused = {} => stored \notin revoked
    BY <1>3, <1>4, <1>6 DEF QuietInv
  <2>4. QED  BY <1>2, <1>6, <2>1, <2>2, <2>3 DEF QuietInv
<1>7. QED  BY <1>5, <1>6

LEMMA EndsInitially == ASSUME Init PROVE EndingInv /\ QuietInv
<1>1. Basics /\ ended = {} /\ reused = {} /\ revoked = {} /\ late = {}
  BY BasicsInitially DEF Init
<1>2. PICK o \in Restorer : FreshStart(o)
  BY DEF Init, FreshStart
<1>3. /\ o \in Op
      /\ op[o].pc = "reading" /\ ~op[o].stale
      /\ \A p \in Op : p # o => op[p].pc = "idle" /\ op[p].token = Nothing
  BY <1>1, <1>2, Fresh DEF Basics, SessionTypeOK
<1>4. EndingInv
  BY <1>1 DEF EndingInv
<1>5. \A p \in Run : ~(op[p].stale /\ op[p].pc \in {"reading", "sent"}) /\ op[p].pc # "answered"
  BY <1>3, Names
<1>6. \A v \in Leaver : op[v].token = Nothing
  BY <1>3, Names
<1>7. QED  BY <1>1, <1>4, <1>5, <1>6 DEF QuietInv

\* The invariant of the whole.
SessionIInv ==
    /\ Basics
    /\ Sound => SoundInv
    /\ Calm => EndingInv
    /\ disturbed = {} => QuietInv

LEMMA EndingSteps ==
  ASSUME SessionIInv, [Next]_vars, Calm'
  PROVE  EndingInv'
<1>0. Basics /\ EndingInv
  BY DisturbedStays DEF SessionIInv, Calm
<1>1. CASE Plain
  BY <1>0, <1>1, PlainEnding
<1>2. ASSUME NEW o \in Op, Clears(o) PROVE EndingInv'
  BY <1>0, <1>2, ClearsEnding
<1>3. CASE (\E o \in Run : Present(o)) \/ \E v \in Leaver : LogoutHandled(v)
  BY <1>0, <1>3, PresentEnds, LogoutHandledEnds
<1>4. CASE \/ \E v \in Leaver : TapLogout(v) \/ Unregistered(v)
           \/ \E b \in Submitter, l \in Login : LoginAnswered(b, l)
  BY <1>0, <1>4, TapLogoutEnds, UnregisteredEnds, LoginAnsweredEnds
<1>5. CASE Restart
  BY <1>0, <1>5, RestartEnds
<1>6. CASE Render \/ ArriveLate \/ Expire \/ UNCHANGED vars
  BY <1>0, <1>6, BesideEnds DEF Render, ArriveLate, Expire, vars, app
<1>7. CASE UNCHANGED vars
  BY <1>6, <1>7
<1>8. QED
  BY StepKinds, PlainKinds, <1>0, <1>1, <1>2, <1>3, <1>4, <1>5, <1>6, <1>7 DEF Kinds

LEMMA QuietSteps ==
  ASSUME SessionIInv, [Next]_vars, disturbed' = {}
  PROVE  QuietInv'
<1>0. Basics /\ SoundInv /\ EndingInv /\ QuietInv /\ Calm'
  BY DisturbedStays DEF SessionIInv, Calm, Sound
<1>1. CASE Plain
  BY <1>0, <1>1, PlainQuiet
<1>2. ASSUME NEW o \in Op, Clears(o) PROVE QuietInv'
  BY <1>0, <1>2, ClearsQuiet
<1>3. CASE (\E o \in Run : Present(o)) \/ \E v \in Leaver : LogoutHandled(v)
  BY <1>0, <1>3, PresentEnds, LogoutHandledEnds
<1>4. CASE \/ \E v \in Leaver : TapLogout(v) \/ Unregistered(v)
           \/ \E b \in Submitter, l \in Login : LoginAnswered(b, l)
  BY <1>0, <1>4, TapLogoutEnds, UnregisteredEnds, LoginAnsweredEnds
<1>5. CASE Restart
  BY <1>0, <1>5, RestartEnds
<1>6. CASE Render \/ Expire \/ UNCHANGED vars
  BY <1>0, <1>6, BesideEnds DEF Render, Expire, vars, app, backend
<1>7. ASSUME ArriveLate PROVE FALSE
  BY <1>0, <1>7 DEF ArriveLate, QuietInv
<1>8. QED
  BY StepKinds, PlainKinds, <1>0, <1>1, <1>2, <1>3, <1>4, <1>5, <1>6, <1>7 DEF Kinds

LEMMA SessionSteps ==
  /\ Init => SessionIInv
  /\ SessionIInv /\ [Next]_vars => SessionIInv'
<1>1. Init => SessionIInv
  BY BasicsInitially, SoundInitially, EndsInitially DEF SessionIInv
<1>2. SessionIInv /\ [Next]_vars => SessionIInv'
  BY BasicsSteps, SoundSteps, EndingSteps, QuietSteps DEF SessionIInv
<1>3. QED  BY <1>1, <1>2

LEMMA SessionInvariant == Spec => []SessionIInv
BY SessionSteps, PTL DEF Spec

-----------------------------------------------------------------------------
\* What follows from it.

LEMMA NowMeans == (LeavingNow <=> Leaves) /\ (TakingOver <=> LoginWrites) /\ (ClearingNow <=> \E o \in Op : Clearing(o))
BY DEF LeavingNow, Leaves, Busy, TakingOver, LoginWrites, Writes, ClearingNow, Clearing

LEMMA OneSessionFollows == SessionIInv => OneSession
<1> SUFFICES ASSUME SoundInv, status = "authenticated"
             PROVE  \/ LeavingNow
                    \/ /\ access = user /\ user # Nothing
                       /\ LoginOf(stored) = user \/ TakingOver \/ (stored = Nothing /\ ClearingNow)
  BY DEF OneSession, Sound, SessionIInv
<1>1. QED  BY NowMeans DEF SoundInv, SignedIn

LEMMA LogoutSticksFollows == SessionIInv => LogoutSticks
<1> SUFFICES ASSUME SoundInv, EndingInv PROVE LogoutSticks
  BY DEF LogoutSticks, Sound, Calm, SessionIInv
<1>1. LogoutPending => Leaves
  BY DEF LogoutPending, Pending, Leaves, Busy
<1>2. ASSUME status = "authenticated", user \in ended
      PROVE  LeavingNow \/ ClearingNow \/ TakingOver
  BY <1>1, <1>2, NowMeans DEF SoundInv, SignedIn, EndingInv
<1>3. AtRest => LoginOf(stored) \notin ended
  BY Names DEF AtRest, EndingInv, LogoutPending, Pending
<1>4. QED  BY <1>2, <1>3 DEF LogoutSticks

LEMMA SessionStaysUsableFollows == SessionIInv => SessionStaysUsable
<1> SUFFICES ASSUME Basics, SoundInv, EndingInv, QuietInv, AtRest, reused = {},
                    status \in {"authenticated", "restoration-error"}
             PROVE  stored # Nothing /\ stored \notin revoked
  BY DEF SessionStaysUsable, Sound, Calm, SessionIInv
<1>1. /\ ~LogoutPending /\ ~Leaves /\ ~LoginWrites
      /\ (\A p \in Run : ~Active(p)) /\ \A o \in Op : ~Clearing(o)
  BY Names DEF AtRest, LogoutPending, Pending, Leaves, LoginWrites, Writes, Active, Clearing, Busy
<1>2. stored # Nothing
  BY <1>1, TokenFacts DEF SoundInv, SignedIn, RestorationFailed
<1>3. stored \notin revoked
  BY <1>1 DEF EndingInv, QuietInv
<1>4. QED  BY <1>2, <1>3

LEMMA ReuseIsExplainedFollows == SessionIInv => ReuseIsExplained
BY DEF SessionIInv, QuietInv, ReuseIsExplained

\* As long as SecureStore works and no superseded refresh has deleted the token of a later
\* login, whoever is shown as signed in is the one the access token is for, and the one the
\* stored refresh token belongs to, unless the last login answered is about to take over, the
\* session is being removed or a logout is under way: with any number of logins, logouts,
\* refreshes and restorations beside each other no late answer mixes two sessions (the
\* session generations of AuthContext.tsx and client.ts).
THEOREM OneSessionHolds == Spec => []OneSession
BY SessionInvariant, OneSessionFollows, PTL

\* A session the app has begun to end, by a logout, a failed refresh or a later login, does
\* not come back: it is shown only while a logout or the removal is under way, or the later
\* login is about to take over, and its token is not stored once nothing is under way, unless
\* SecureStore failed, the app was killed or a superseded refresh has deleted the token of a
\* later login (login, logout and clearSession of AuthContext.tsx).
THEOREM LogoutSticksHolds == Spec => []LogoutSticks
BY SessionInvariant, LogoutSticksFollows, PTL

\* While nothing goes wrong outside the app and no reuse was found, a session that is shown
\* has, once nothing is under way, a stored token that the backend has not revoked: every
\* rotation that was answered was also stored (performRestore and the refresh of client.ts).
THEOREM SessionStaysUsableHolds == Spec => []SessionStaysUsable
BY SessionInvariant, SessionStaysUsableFollows, PTL

\* While nothing goes wrong outside the app, the backend takes a token for reused only if
\* one of a session that the app had begun to end was: runs of the 401 handler, restorations
\* and automatic retries never present the same token twice (client.ts, AuthContext.tsx).
THEOREM ReuseIsExplainedHolds == Spec => []ReuseIsExplained
BY SessionInvariant, ReuseIsExplainedFollows, PTL

-----------------------------------------------------------------------------
\* Nothing waits in vain.

\* What waits for a refresh waits for one that is under way.
WaitersAreServed ==
    \A s \in Restorer : op[s].pc = "meWaits" => \E r \in Refresher : Busy(r)

\* Operation o is under way and waits neither for another operation nor for SecureStore to
\* serve an earlier one.
CanProceed(o) ==
    /\ op[o].pc \notin {"idle", "meWaits"}
    /\ op[o].pc \in OnDisk => Resumable(o)

\* Whatever is under way, something of it can go on.
SomebodyProceeds == AtRest \/ \E o \in Op : CanProceed(o)

\* As long as the app shows that it restores the session, and SecureStore works, a
\* restoration that nothing has superseded is under way, or the session is being cleared,
\* which ends on the Login screen; and something can go on.
RestorationGoesOn ==
    status = "restoring" /\ Sound =>
        /\ (\E s \in Restorer : Active(s)) \/ (\E o \in Op : Clearing(o))
        /\ \E o \in Op : CanProceed(o)

\* The inductive half of it.
UnderWay == (\E s \in Restorer : Active(s)) \/ (\E o \in Op : Clearing(o))

GoingOn == status = "restoring" /\ Sound => UnderWay

LEMMA Released ==
  ASSUME SessionTypeOK, NEW o \in Op, NEW b \in BOOLEAN, op' = Ended(o, b)
  PROVE  /\ op'[o].pc = "idle"
         /\ \A p \in Op : p # o => op'[p].pc = op[p].pc \/ op'[p].pc \in {"meAgain", "meFailed"}
         /\ o \in Refresher => \A s \in Restorer : op'[s].pc # "meWaits"
<1>1. /\ op'[o].pc = "idle"
      /\ \A p \in Op : p # o => op'[p].pc = IF o \in Refresher /\ op[p].pc = "meWaits"
                                            THEN IF b THEN "meAgain" ELSE "meFailed"
                                            ELSE op[p].pc
  BY Ending, IdleFacts
<1>2. QED  BY <1>1, Names

\* An operation changes and the others only stop waiting for it.
LEMMA KeepsServing ==
  ASSUME WaitersAreServed, NEW o \in Op, op'[o].pc # "meWaits",
         \A p \in Op : p # o => op'[p].pc = op[p].pc \/ op'[p].pc \in {"meAgain", "meFailed"},
         o \in Refresher => op'[o].pc # "idle" \/ \A s \in Restorer : op'[s].pc # "meWaits"
  PROVE  WaitersAreServed'
<1> SUFFICES ASSUME NEW s \in Restorer, op'[s].pc = "meWaits" PROVE \E r \in Refresher : op'[r].pc # "idle"
  BY DEF WaitersAreServed, Busy
<1>1. s # o /\ op[s].pc = "meWaits"
  BY Names
<1>2. PICK r \in Refresher : op[r].pc # "idle"
  BY <1>1 DEF WaitersAreServed, Busy
<1>3. op'[r].pc # "idle"
  BY <1>2, Names
<1>4. QED  BY <1>3

LEMMA ServingSteps ==
  ASSUME Basics, WaitersAreServed, [Next]_vars
  PROVE  WaitersAreServed'
<1>0. SessionTypeOK /\ Queue
  BY DEF Basics
<1>1. ASSUME NEW o \in Op, Drops(o) \/ Clears(o) \/ SessionCleared(o) \/ Sends(o) PROVE WaitersAreServed'
  <2>1. CASE Drops(o) \/ SessionCleared(o)
    <3>1. op' = Ended(o, FALSE)
      BY <2>1 DEF Drops, SessionCleared
    <3>2. QED  BY <1>0, <3>1, Released, KeepsServing
  <2>2. CASE Clears(o)
    BY <2>2, ClearFacts, KeepsServing
  <2>3. CASE Sends(o)
    BY <2>3, SendsFacts, KeepsServing
  <2>4. QED  BY <1>1, <2>1, <2>2, <2>3
<1>2. ASSUME NEW o \in Run, Present(o) \/ Persists(o) \/ Persisted(o) \/ Deletes(o) PROVE WaitersAreServed'
  <2>0. o \in Op
    BY Names
  <2>1. CASE Present(o)
    BY <2>0, <2>1, PresentFacts, KeepsServing
  <2>2. CASE Persists(o)
    BY <2>0, <2>2, PersistsFacts, KeepsServing
  <2>3. CASE Deletes(o)
    BY <2>0, <2>3, DeletesFacts, KeepsServing
  <2>4. CASE Persisted(o) /\ op[o].stale
    BY <2>0, <2>4, UndoFacts, KeepsServing
  <2>5. CASE Persisted(o) /\ ~op[o].stale /\ o \in Refresher
    <3>1. op' = Ended(o, TRUE)
      BY <2>5 DEF Persisted, Refreshed, Stale
    <3>2. QED  BY <1>0, <2>0, <3>1, Released, KeepsServing
  <2>6. CASE Persisted(o) /\ ~op[o].stale /\ o \notin Refresher
    BY <2>0, <2>6, RefreshedFacts, KeepsServing
  <2>7. QED  BY <1>2, <2>1, <2>2, <2>3, <2>4, <2>5, <2>6
<1>3. ASSUME NEW o \in Restorer,
             \/ FindsNothing(o) \/ Fails(o) \/ Repeats(o) \/ Succeeds(o)
             \/ MeUnauthorized(o) \/ RetryRestoration(o)
      PROVE  WaitersAreServed'
  <2>0. o \in Op /\ o \in Run /\ o \notin Refresher
    BY Names
  <2>1. CASE FindsNothing(o) \/ Fails(o) \/ Succeeds(o)
    BY <2>0, <2>1, FindsNothingFacts, FailsFacts, SucceedsFacts, KeepsServing
  <2>2. CASE Repeats(o) \/ RetryRestoration(o)
    <3>1. op'[o].pc = "reading" /\ \A p \in Op : p # o => op'[p] = op[p]
      BY <2>0, <2>2, BeginsFacts DEF Repeats, RetryRestoration, OnDisk, Busy
    <3>2. QED  BY <2>0, <3>1, KeepsServing
  <2>3. CASE MeUnauthorized(o) /\ Waits401(o) /\ ~NoneInFlight(Refresher)
    <3>1. PICK r \in Refresher : op[r].pc # "idle"
      BY <2>3 DEF NoneInFlight
    <3>2. op'[r].pc # "idle"
      BY <2>0, <2>3, <3>1, Waits401Facts, Names
    <3>3. QED  BY <3>2 DEF WaitersAreServed, Busy
  <2>4. ASSUME NEW r \in Refresher, MeUnauthorized(o), Starts401(o, r) PROVE WaitersAreServed'
    BY <2>4, Starts401Facts DEF WaitersAreServed, Busy
  <2>5. QED  BY <1>3, <2>1, <2>2, <2>3, <2>4 DEF MeUnauthorized, Waits401, Starts401
<1>4. ASSUME NEW o \in Refresher, Unauthorized(o) PROVE WaitersAreServed'
  <2>1. o \in Op /\ op'[o].pc = "reading" /\ \A p \in Op : p # o => op'[p] = op[p]
    BY <1>4, BeginsFacts, Names DEF Unauthorized, OnDisk
  <2>2. QED  BY <2>1, KeepsServing
<1>5. ASSUME NEW b \in Submitter,
             SubmitLogin(b) \/ LoginFails(b) \/ LoginStored(b) \/ \E l \in Login : LoginAnswered(b, l)
      PROVE  WaitersAreServed'
  <2>1. /\ op'[b].pc # "meWaits" /\ b \in Op /\ b \notin Refresher
        /\ \A p \in Op : p # b => op'[p].pc = op[p].pc
    BY <1>5, SubmitFacts, LoginEndsFacts, LoginAnsweredFacts, Names
  <2>2. QED  BY <2>1, KeepsServing
<1>6. ASSUME NEW v \in Leaver, TapLogout(v) \/ Unregistered(v) \/ LogoutHandled(v) PROVE WaitersAreServed'
  <2>1. /\ op'[v].pc # "meWaits" /\ v \in Op /\ v \notin Refresher
        /\ \A p \in Op : p # v => op'[p].pc = op[p].pc
    BY <1>6, TapLogoutFacts, UnregisteredFacts, LogoutHandledFacts, Names
  <2>2. QED  BY <2>1, KeepsServing
<1>7. CASE Render \/ ArriveLate \/ Expire \/ UNCHANGED vars
  BY <1>7 DEF Render, ArriveLate, Expire, vars, app, WaitersAreServed, Busy
<1>8. CASE Restart
  BY <1>8, RestartFacts, Names DEF WaitersAreServed
<1>9. QED
  BY StepKinds, <1>1, <1>2, <1>3, <1>4, <1>5, <1>6, <1>7, <1>8 DEF Kinds

\* What goes on beside the change of one operation goes on after it.
LEMMA KeepsGoing ==
  ASSUME UnderWay, NEW o \in Op,
         \A p \in Op : p # o => Similar(p) /\ (op[p].stale \/ ~op'[p].stale),
         o \in Restorer /\ Active(o) => Active(o)',
         ~Clearing(o)
  PROVE  UnderWay'
<1>1. CASE \E p \in Op : Clearing(p)
  <2>1. PICK p \in Op : Clearing(p)
    BY <1>1
  <2>2. Clearing(p)'
    BY <2>1 DEF Clearing, Similar
  <2>3. QED  BY <2>2 DEF UnderWay
<1>2. CASE \E s \in Restorer : Active(s)
  <2>1. PICK s \in Restorer : Active(s)
    BY <1>2
  <2>2. Active(s)'
    BY <2>1, Names DEF Active, Similar
  <2>3. QED  BY <2>2 DEF UnderWay
<1>3. QED  BY <1>1, <1>2 DEF UnderWay

LEMMA GoingSteps ==
  ASSUME Basics, Sound => SoundInv, GoingOn, [Next]_vars
  PROVE  GoingOn'
<1> SUFFICES ASSUME status' = "restoring", Sound' PROVE UnderWay'
  BY DEF GoingOn
<1>0. SoundInv /\ (status = "restoring" => UnderWay) /\ \A p \in Op : op[p] \in OpState
  BY DisturbedStays, OpType DEF Sound, GoingOn
<1>1. ASSUME NEW o \in Op, Drops(o) \/ Clears(o) \/ SessionCleared(o) \/ Sends(o) PROVE UnderWay'
  <2>1. CASE Drops(o)
    <3>1. /\ status = "restoring" /\ ~Clearing(o) /\ ~(o \in Restorer /\ Active(o))
      BY <2>1, Names DEF Drops, Clearing, Active, Sound
    <3>2. QED  BY <1>0, <2>1, <3>1, DropsFacts, KeepsGoing DEF OpState
  <2>2. CASE Clears(o)
    BY <2>2, ClearFacts DEF UnderWay, Clearing
  <2>3. CASE SessionCleared(o)
    BY <2>3, ClearedFacts
  <2>4. CASE Sends(o)
    <3>1. /\ status = "restoring" /\ ~Clearing(o) /\ (Active(o) => Active(o)')
          /\ \A p \in Op : p # o => op'[p] = op[p]
      BY <2>4, SendsFacts DEF Sends, Clearing, Active
    <3>2. QED  BY <1>0, <3>1, KeepsGoing, SimilarIfSame DEF OpState
  <2>5. QED  BY <1>1, <2>1, <2>2, <2>3, <2>4
<1>2. ASSUME NEW o \in Run, Present(o) \/ Persists(o) \/ Persisted(o) \/ Deletes(o) PROVE UnderWay'
  <2>0. o \in Op
    BY Names
  <2>1. CASE Present(o) \/ Persists(o) \/ Deletes(o)
    <3>1. /\ status = "restoring" /\ ~Clearing(o) /\ (Active(o) => Active(o)')
          /\ \A p \in Op : p # o => op'[p] = op[p]
      BY <2>0, <2>1, PresentFacts, PersistsFacts, DeletesFacts DEF Persists, Persist, Deletes, Clearing, Active
    <3>2. QED  BY <1>0, <2>0, <3>1, KeepsGoing, SimilarIfSame DEF OpState
  <2>2. CASE Persisted(o) /\ op[o].stale
    <3>1. /\ status = "restoring" /\ ~Clearing(o) /\ ~Active(o)
          /\ \A p \in Op : p # o => op'[p] = op[p]
      BY <2>2, UndoFacts DEF Clearing, Active
    <3>2. QED  BY <1>0, <2>0, <3>1, KeepsGoing, SimilarIfSame DEF OpState
  <2>3. CASE Persisted(o) /\ ~op[o].stale
    <3>1. /\ status = "restoring" /\ ~Clearing(o) /\ (o \in Restorer => Active(o)')
          /\ \A p \in Op : p # o => Similar(p) /\ op'[p].stale = op[p].stale
      BY <1>0, <2>3, RefreshedFacts, SimilarIfSame, Names DEF Clearing, Active
    <3>2. QED  BY <1>0, <2>0, <3>1, KeepsGoing DEF OpState
  <2>4. QED  BY <1>2, <2>1, <2>2, <2>3
<1>3. ASSUME NEW o \in Restorer,
             \/ FindsNothing(o) \/ Fails(o) \/ Repeats(o) \/ Succeeds(o)
             \/ MeUnauthorized(o) \/ RetryRestoration(o)
      PROVE  UnderWay'
  <2>0. o \in Op /\ o \in Run /\ o \notin Refresher
    BY Names
  <2>1. CASE FindsNothing(o) \/ Succeeds(o)
    BY <2>1 DEF FindsNothing, Succeeds
  <2>2. CASE Fails(o)
    <3>1. op'[o].pc = "delay" /\ ~op'[o].stale
      BY <2>0, <2>2, FailsFacts DEF Fails
    <3>2. QED  BY <2>0, <3>1 DEF UnderWay, Active
  <2>3. CASE Repeats(o) \/ RetryRestoration(o)
    <3>1. op'[o].pc = "reading" /\ ~op'[o].stale
      BY <2>0, <2>3, BeginsFacts DEF Repeats, RetryRestoration, OnDisk, Busy
    <3>2. QED  BY <2>0, <3>1 DEF UnderWay, Active
  <2>4. CASE MeUnauthorized(o) /\ Waits401(o)
    <3>1. /\ status = "restoring" /\ ~Clearing(o) /\ (Active(o) => Active(o)')
          /\ \A p \in Op : p # o => op'[p] = op[p]
      BY <2>0, <2>4, Waits401Facts DEF Clearing, Active
    <3>2. QED  BY <1>0, <2>0, <3>1, KeepsGoing, SimilarIfSame DEF OpState
  <2>5. ASSUME NEW r \in Refresher, MeUnauthorized(o), Starts401(o, r) PROVE UnderWay'
    <3>1. /\ status = "restoring" /\ r \in Op /\ r \notin Restorer /\ ~Clearing(r)
          /\ \A p \in Op : p # r => Similar(p) /\ op'[p].stale = op[p].stale
      BY <2>0, <2>5, Starts401Facts, Names DEF Clearing
    <3>2. QED  BY <1>0, <3>1, KeepsGoing DEF OpState
  <2>6. QED  BY <1>3, <2>1, <2>2, <2>3, <2>4, <2>5 DEF MeUnauthorized, Waits401, Starts401
<1>4. ASSUME NEW o \in Refresher, Unauthorized(o) PROVE UnderWay'
  <2>1. /\ o \in Op /\ o \notin Restorer /\ ~Clearing(o) /\ status = "restoring"
        /\ \A p \in Op : p # o => op'[p] = op[p]
    BY <1>4, BeginsFacts, Names DEF Unauthorized, OnDisk, Clearing
  <2>2. QED  BY <1>0, <2>1, KeepsGoing, SimilarIfSame DEF OpState
<1>5. ASSUME NEW b \in Submitter,
             SubmitLogin(b) \/ LoginFails(b) \/ LoginStored(b) \/ \E l \in Login : LoginAnswered(b, l)
      PROVE  FALSE
  <2>1. SubmitLogin(b) \/ op[b].pc \in {"asking", "storing", "storeFailed"}
    BY <1>5, LoginAnsweredFacts DEF LoginFails, LoginStored
  <2>2. status # "restoring"
    BY <1>0, <2>1 DEF SoundInv, BeyondRestoration, SeenIn, SubmitLogin, Busy
  <2>3. QED  BY <1>5, <2>2 DEF SubmitLogin, LoginFails, LoginAnswered, LoginStored
<1>6. ASSUME NEW v \in Leaver, TapLogout(v) PROVE FALSE
  BY <1>0, <1>6 DEF SoundInv, BeyondRestoration, SeenIn, TapLogout
<1>7. ASSUME NEW v \in Leaver, Unregistered(v) \/ LogoutHandled(v) PROVE UnderWay'
  <2>1. /\ status = "restoring" /\ v \in Op /\ v \notin Restorer /\ ~Clearing(v)
        /\ \A p \in Op : p # v => op'[p] = op[p]
    BY <1>7, UnregisteredFacts, LogoutHandledFacts, Names DEF Unregistered, Clearing
  <2>2. QED  BY <1>0, <2>1, KeepsGoing, SimilarIfSame DEF OpState
<1>8. CASE Render \/ ArriveLate \/ Expire \/ UNCHANGED vars
  BY <1>0, <1>8 DEF Render, ArriveLate, Expire, vars, app, UnderWay, Active, Clearing
<1>9. CASE Restart
  BY <1>9, RestartFacts, Names DEF UnderWay, Active
<1>10. QED
  BY StepKinds, <1>1, <1>2, <1>3, <1>4, <1>5, <1>6, <1>7, <1>8, <1>9 DEF Kinds

LEMMA GoingInitially == ASSUME Init PROVE WaitersAreServed /\ GoingOn
<1>1. PICK o \in Restorer : FreshStart(o)
  BY DEF Init, FreshStart
<1>2. /\ o \in Op
      /\ op[o].pc = "reading" /\ ~op[o].stale
      /\ \A p \in Op : p # o => op[p].pc = "idle"
  BY <1>1, BasicsInitially, Fresh DEF Basics, SessionTypeOK
<1>3. QED  BY <1>2, Names DEF WaitersAreServed, GoingOn, UnderWay, Active

LEMMA GoingInvariant == Spec => [](Basics /\ WaitersAreServed /\ GoingOn)
<1>1. Init => WaitersAreServed /\ GoingOn
  BY GoingInitially
<1>2. SessionIInv /\ WaitersAreServed /\ GoingOn /\ [Next]_vars => WaitersAreServed' /\ GoingOn'
  BY ServingSteps, GoingSteps DEF SessionIInv
<1>3. SessionIInv => Basics
  BY DEF SessionIInv
<1>4. QED  BY SessionInvariant, <1>1, <1>2, <1>3, PTL DEF Spec

\* SecureStore serves calls in order, and the runs of the 401 handler wait for nobody.
LEMMA Proceeding == Basics /\ WaitersAreServed => SomebodyProceeds
<1> SUFFICES ASSUME Basics, WaitersAreServed, NEW o \in Op, op[o].pc # "idle"
             PROVE  \E q \in Op : CanProceed(q)
  BY DEF SomebodyProceeds, AtRest
<1>0. SessionTypeOK /\ Queue /\ disk \in Seq(Op)
  BY DEF Basics, SessionTypeOK
<1>1. CASE disk # <<>>
  <2>1. Head(disk) \in Op /\ Resumable(Head(disk))
    BY <1>0, <1>1 DEF Resumable
  <2>2. op[Head(disk)].pc \in OnDisk
    BY <1>0, <2>1, FirstInLine
  <2>3. QED  BY <2>1, <2>2 DEF CanProceed, OnDisk
<1>2. CASE disk = <<>>
  <2>1. \A p \in Op : op[p].pc \notin OnDisk
    BY <1>0, <1>2 DEF Queue, Waits
  <2>2. CASE op[o].pc # "meWaits"
    BY <2>1, <2>2 DEF CanProceed
  <2>3. CASE op[o].pc = "meWaits"
    <3>1. o \in Restorer
      BY <1>0, <2>3, Names, OpType, OpFacts DEF Pc, RefresherPc, Run
    <3>2. PICK r \in Refresher : op[r].pc # "idle"
      BY <2>3, <3>1 DEF WaitersAreServed, Busy
    <3>3. r \in Op /\ op[r].pc # "meWaits"
      BY <3>2, Names, OpType DEF Pc, RefresherPc
    <3>4. QED  BY <2>1, <3>2, <3>3 DEF CanProceed
  <2>4. QED  BY <2>2, <2>3
<1>3. QED  BY <1>1, <1>2

\* The operations of the session never wait for each other in a circle: whenever one is
\* under way, some operation has its answer, its timer or its turn at SecureStore to wait
\* for and nothing else (the refresh that client.ts shares between the requests that got a
\* 401, and SecureStore, which serves one call after the other).
THEOREM NobodyIsStuck == Spec => []SomebodyProceeds
BY GoingInvariant, Proceeding, PTL

\* The safety half of RestorationEnds: as long as SecureStore works, the app never shows
\* that it restores the session when no restoration is left to end that, whatever logins,
\* logouts and refreshes have superseded (performRestore and the generations of
\* AuthContext.tsx), nor while all that is under way waits.
THEOREM RestorationIsNeverAbandoned == Spec => []RestorationGoesOn
<1>1. Basics /\ WaitersAreServed /\ GoingOn => RestorationGoesOn
  <2> SUFFICES ASSUME Basics, WaitersAreServed, UnderWay PROVE \E o \in Op : CanProceed(o)
    BY DEF GoingOn, RestorationGoesOn, UnderWay
  <2>1. ~AtRest
    BY Names DEF AtRest, UnderWay, Active, Clearing
  <2>2. QED  BY <2>1, Proceeding DEF SomebodyProceeds
<1>2. QED  BY GoingInvariant, <1>1, PTL

-----------------------------------------------------------------------------
(* The registration of the phone for push alerts.                          *)

Owners   == People \cup {Null}
Channels == Channel \cup {Unset}

PhoneOpState ==
    [kind    : {"auto", "save", "unregister"},
     pc      : {"idle", "asking", "sent", "served", "leaving"},
     user    : Owners,
     channel : Channels,
     fresh   : BOOLEAN]

PhoneRow == [owner : Owners, channel : Channels]
Known    == [channel : Channels, fresh : BOOLEAN]

\* Null is not a user, an operation, a row or an entry of the cache, and no sound is
\* called Unset.
Distinct ==
    /\ Null \notin People \cup PhoneOp \cup PhoneRow \cup Known
    /\ Unset \notin Channel

PhoneTypeOK ==
    /\ session \in Owners /\ signingOut \in BOOLEAN
    /\ phoneOp \in [PhoneOp -> PhoneOpState]
    /\ newest \in PhoneOp \cup {Null}
    /\ registered \in BOOLEAN
    /\ cache \in Known \cup {Null}
    /\ row \in PhoneRow \cup {Null}
    /\ arriving \in SUBSET PhoneOpState

-----------------------------------------------------------------------------
Requested(o) == phoneOp[o].pc \in {"sent", "served"}

\* A registration that was begun after the last logout is the only kind whose answer
\* is kept.
PhoneFresh ==
    /\ cache # Null => cache.fresh
    /\ \A o \in PhoneOp :
          newest = o /\ Requested(o) /\ phoneOp[o].kind # "unregister" => phoneOp[o].fresh

\* What the app knows, it knows of a registered phone; only such a phone is saved for.
PhoneFounded ==
    /\ cache # Null => registered
    /\ \A o \in PhoneOp : newest = o /\ Requested(o) /\ phoneOp[o].kind = "save" => registered
    /\ \A o \in PhoneOp : phoneOp[o].pc = "asking" => phoneOp[o].kind = "auto"
    /\ \A o \in PhoneOp : phoneOp[o].pc = "leaving" => phoneOp[o].kind = "unregister"

\* Nobody is signed in.
SignedOutInOrder ==
    session = Null => row = Null /\ ~registered /\ \A o \in PhoneOp : ~Phone!Busy(o)

\* A logout is under way: what is registered is being unregistered.
LeavingInOrder ==
    Phone!Leaving # {} =>
        /\ Phone!Registering = {} /\ cache = Null /\ ~registered
        /\ row # Null => \E o \in Phone!Leaving : phoneOp[o].pc = "sent" /\ phoneOp[o].user = row.owner

\* The registration under way, if there is one, is the newest, and what it will tell
\* the app is so; if there is none, the app and the backend agree already.
SignedInInOrder ==
    session # Null /\ Phone!Leaving = {} =>
        /\ \A o \in PhoneOp : Requested(o) =>
              /\ newest = o
              /\ phoneOp[o].pc = "sent" => phoneOp[o].user = session
              /\ phoneOp[o].pc = "served" =>
                    row # Null /\ row.owner = session /\ row.channel = phoneOp[o].channel
        /\ (\A o \in PhoneOp : ~Requested(o)) =>
              IF registered
              THEN /\ row # Null /\ row.owner = session
                   /\ cache # Null /\ cache.channel = row.channel
              ELSE row = Null

PhoneInOrder ==
    /\ arriving = {}
    /\ \A o, p \in PhoneOp : Phone!Busy(o) /\ Phone!Busy(p) => o = p
    /\ SignedOutInOrder
    /\ LeavingInOrder
    /\ SignedInInOrder

PhoneIInv ==
    /\ PhoneTypeOK
    /\ PhoneFresh
    /\ PhoneFounded
    /\ disorder = {} => PhoneInOrder

-----------------------------------------------------------------------------
\* What happens to an operation is one of a few things.

\* Operation o goes on as r; the others stay.
Becomes(o, r) == phoneOp' = [phoneOp EXCEPT ![o] = r]

LEMMA Became ==
  ASSUME PhoneTypeOK, NEW o \in PhoneOp, NEW r \in PhoneOpState, Becomes(o, r)
  PROVE  /\ phoneOp' \in [PhoneOp -> PhoneOpState]
         /\ phoneOp'[o] = r
         /\ \A p \in PhoneOp : p # o => phoneOp'[p] = phoneOp[p]
         /\ \A p \in PhoneOp : p # o => (Phone!Busy(p)' <=> Phone!Busy(p)) /\ (Requested(p)' <=> Requested(p))
         /\ Phone!Busy(o)' <=> r.pc # "idle"
         /\ Requested(o)' <=> r.pc \in {"sent", "served"}
  BY DEF Becomes, PhoneTypeOK, Phone!Busy, Requested

LEMMA IdleType ==
  ASSUME PhoneTypeOK
  PROVE  /\ Phone!Idle \in PhoneOpState /\ Phone!Idle.pc = "idle" /\ Phone!Idle.kind = "auto"
         /\ [Phone!Idle EXCEPT !.pc = "asking"] \in PhoneOpState
         /\ [Phone!Idle EXCEPT !.pc = "asking"].pc = "asking"
         /\ [Phone!Idle EXCEPT !.pc = "asking"].kind = "auto"
         /\ \A k \in {"auto", "save", "unregister"}, c \in Channels :
               LET r == Phone!Sent(k, c)
               IN  /\ r \in PhoneOpState /\ r.kind = k /\ r.pc = "sent"
                   /\ r.user = session /\ r.channel = c /\ r.fresh
  BY DEF Phone!Idle, Phone!Sent, PhoneOpState, Owners, Channels, PhoneTypeOK

\* An operation that ends, or begins to ask.
LEMMA Subsides ==
  ASSUME PhoneTypeOK, PhoneFresh, PhoneFounded, NEW o \in PhoneOp, NEW r \in PhoneOpState, Becomes(o, r),
         r.pc \in {"idle", "asking"}, r.kind = "auto",
         UNCHANGED <<newest, registered, cache>>
  PROVE  PhoneFresh' /\ PhoneFounded'
  <1>1. /\ phoneOp'[o] = r
        /\ \A p \in PhoneOp : p # o => phoneOp'[p] = phoneOp[p]
    BY Became
  <1>2. PhoneFresh'
    BY <1>1 DEF PhoneFresh, Requested
  <1>3. PhoneFounded'
    BY <1>1 DEF PhoneFounded, Requested
  <1> QED BY <1>2, <1>3

-----------------------------------------------------------------------------
\* The automatic registration.

LEMMA SigningIn ==
  ASSUME Distinct, PhoneIInv, NEW u \in People, NEW o \in PhoneOp, Phone!SignIn(u, o)
  PROVE  PhoneIInv'
  <1> DEFINE r == [Phone!Idle EXCEPT !.pc = "asking"]
  <1>1. /\ PhoneTypeOK /\ PhoneFresh /\ PhoneFounded
        /\ session = Null /\ session' = u /\ u # Null /\ signingOut' = FALSE /\ Becomes(o, r)
        /\ UNCHANGED <<newest, registered, cache, row, arriving, disorder>>
    BY DEF Phone!SignIn, Phone!Run, Phone!Begin, Becomes, PhoneIInv, Distinct
  <1>2. r \in PhoneOpState /\ r.pc = "asking" /\ r.kind = "auto"
    BY <1>1, IdleType
  <1> HIDE DEF r
  <1>3. PhoneTypeOK'
    BY <1>1, <1>2, Became DEF PhoneTypeOK, Owners
  <1>4. PhoneFresh' /\ PhoneFounded'
    BY <1>1, <1>2, Subsides
  <1>5. ASSUME disorder' = {} PROVE PhoneInOrder'
    <2>1. PhoneInOrder /\ disorder = {}
      BY <1>1, <1>5 DEF PhoneIInv
    <2>2. row = Null /\ ~registered /\ \A p \in PhoneOp : ~Phone!Busy(p)
      BY <1>1, <2>1 DEF PhoneInOrder, SignedOutInOrder
    <2>3. \A p \in PhoneOp : ~Requested(p)' /\ (Phone!Busy(p)' => p = o)
      BY <1>1, <1>2, <2>2, Became DEF Requested, Phone!Busy
    <2>4. Phone!Leaving' = {}
      BY <1>1, <1>2, <2>3, Became DEF Phone!Leaving
    <2>5. SignedOutInOrder' /\ LeavingInOrder' /\ SignedInInOrder'
      BY <1>1, <2>2, <2>3, <2>4 DEF SignedOutInOrder, LeavingInOrder, SignedInInOrder
    <2> QED BY <1>1, <2>1, <2>3, <2>5 DEF PhoneInOrder
  <1> QED BY <1>3, <1>4, <1>5 DEF PhoneIInv

\* A login that replaces another puts the registration out of order.
LEMMA Replacing ==
  ASSUME PhoneIInv, NEW u \in People, Phone!Replace(u)
  PROVE  PhoneIInv'
  <1>1. /\ PhoneTypeOK /\ PhoneFresh /\ PhoneFounded /\ session' = u /\ disorder' # {}
        /\ UNCHANGED <<signingOut, phoneOp, newest, latestRun, registered, cache, row, arriving>>
    BY DEF Phone!Replace, PhoneIInv
  <1>2. PhoneTypeOK'
    BY <1>1 DEF PhoneTypeOK, Owners
  <1>3. PhoneFresh' /\ PhoneFounded'
    BY <1>1 DEF PhoneFresh, PhoneFounded, Requested
  <1> QED BY <1>1, <1>2, <1>3 DEF PhoneIInv

\* An operation that has no request under way may end without a trace.
LEMMA Calming ==
  ASSUME PhoneTypeOK, PhoneInOrder, PhoneFounded, NEW o \in PhoneOp, Becomes(o, Phone!Idle), phoneOp[o].pc = "asking",
         UNCHANGED <<session, newest, registered, cache, row, arriving>>
  PROVE  PhoneInOrder'
  <1>1. Phone!Idle \in PhoneOpState /\ Phone!Idle.pc = "idle" /\ Phone!Idle.kind = "auto"
    BY IdleType
  <1>2. \A p \in PhoneOp : (Requested(p)' <=> Requested(p)) /\ (Phone!Busy(p)' => Phone!Busy(p))
    BY <1>1, Became DEF Requested, Phone!Busy
  <1>3. \A p \in PhoneOp : Requested(p) => phoneOp'[p] = phoneOp[p]
    BY <1>1, Became DEF Requested
  <1>4. phoneOp[o].kind = "auto" /\ Phone!Busy(o)
    BY DEF Phone!Busy, PhoneFounded
  <1>5. SignedOutInOrder'
    BY <1>2 DEF PhoneInOrder, SignedOutInOrder
  <1>6. Phone!Leaving = {} /\ Phone!Leaving' = {}
    <2>1. Phone!Leaving = {}
      BY <1>4 DEF PhoneInOrder, Phone!Leaving
    <2>2. \A p \in PhoneOp : p # o => phoneOp'[p] = phoneOp[p]
      BY <1>1, Became
    <2>3. ~Phone!Busy(o)'
      BY <1>1, Became
    <2> QED BY <2>1, <2>2, <2>3 DEF Phone!Leaving, Phone!Busy
  <1>7. LeavingInOrder' /\ SignedInInOrder'
    BY <1>2, <1>3, <1>6 DEF PhoneInOrder, LeavingInOrder, SignedInInOrder
  <1> QED BY <1>2, <1>5, <1>7 DEF PhoneInOrder

LEMMA Denying ==
  ASSUME PhoneIInv, NEW o \in PhoneOp, Phone!Deny(o)
  PROVE  PhoneIInv'
  <1>1. /\ PhoneTypeOK /\ PhoneFresh /\ PhoneFounded
        /\ phoneOp[o].pc = "asking" /\ Becomes(o, Phone!Idle)
        /\ UNCHANGED <<session, signingOut, newest, registered, cache, row, arriving, disorder>>
    BY DEF Phone!Deny, Phone!Begin, Becomes, PhoneIInv
  <1>2. Phone!Idle \in PhoneOpState /\ Phone!Idle.pc = "idle" /\ Phone!Idle.kind = "auto"
    BY <1>1, IdleType
  <1>3. PhoneTypeOK'
    BY <1>1, <1>2, Became DEF PhoneTypeOK
  <1>4. PhoneFresh' /\ PhoneFounded'
    BY <1>1, <1>2, Subsides
  <1>5. ASSUME disorder' = {} PROVE PhoneInOrder'
    BY <1>1, <1>2, <1>5, Calming DEF PhoneIInv
  <1> QED BY <1>3, <1>4, <1>5 DEF PhoneIInv

\* A request is made while nothing else is under way: of either kind of registration.
LEMMA Sending ==
  ASSUME Distinct, PhoneTypeOK, NEW o \in PhoneOp, NEW k \in {"auto", "save"}, NEW c \in Channels,
         Becomes(o, Phone!Sent(k, c)), newest' = o,
         session # Null, arriving = {}, \A p \in PhoneOp \ {o} : ~Phone!Busy(p),
         UNCHANGED <<session, arriving>>
  PROVE  PhoneInOrder'
  <1> DEFINE r == Phone!Sent(k, c)
  <1>1. /\ r \in PhoneOpState /\ r.kind = k /\ r.pc = "sent" /\ r.user = session
    BY IdleType
  <1> HIDE DEF r
  <1>2. /\ phoneOp'[o] = r /\ Requested(o)'
        /\ \A p \in PhoneOp : p # o => ~Phone!Busy(p)' /\ ~Requested(p)'
    <2>1. \A p \in PhoneOp : p # o => ~Phone!Busy(p) /\ ~Requested(p)
      BY DEF Phone!Busy, Requested
    <2>2. Becomes(o, r)
      BY DEF r
    <2> QED BY <1>1, <2>1, <2>2, Became
  <1>3. Phone!Leaving' = {}
    BY <1>1, <1>2 DEF Phone!Leaving
  <1>4. SignedOutInOrder' /\ LeavingInOrder' /\ SignedInInOrder'
    BY <1>1, <1>2, <1>3 DEF SignedOutInOrder, LeavingInOrder, SignedInInOrder
  <1> QED BY <1>2, <1>4 DEF PhoneInOrder

LEMMA Granting ==
  ASSUME Distinct, PhoneIInv, NEW o \in PhoneOp, Phone!Grant(o)
  PROVE  PhoneIInv'
  <1>1. /\ PhoneTypeOK /\ PhoneFresh /\ PhoneFounded /\ phoneOp[o].pc = "asking"
        /\ UNCHANGED <<session, signingOut, registered, cache, row, arriving>>
    BY DEF Phone!Grant, PhoneIInv
  <1>2. CASE latestRun = o /\ session # Null
    <2> DEFINE r == Phone!Sent("auto", Unset)
    <2>1. Becomes(o, r) /\ newest' = o
      BY <1>2 DEF Phone!Grant, Phone!Begin, Becomes
    <2>2. /\ r \in PhoneOpState /\ r.kind = "auto" /\ r.pc = "sent" /\ r.fresh
      BY <1>1, IdleType DEF Channels
    <2> HIDE DEF r
    <2>3. /\ phoneOp'[o] = r
          /\ \A p \in PhoneOp : p # o => phoneOp'[p] = phoneOp[p]
      BY <1>1, <2>1, <2>2, Became
    <2>4. PhoneTypeOK'
      BY <1>1, <2>1, <2>2, Became DEF PhoneTypeOK
    <2>5. PhoneFresh'
      BY <1>1, <2>1, <2>2, <2>3 DEF PhoneFresh
    <2>6. PhoneFounded'
      BY <1>1, <2>1, <2>2, <2>3 DEF PhoneFounded, Requested
    <2>7. ASSUME disorder' = {} PROVE PhoneInOrder'
      <3>1. arriving = {} /\ \A p \in PhoneOp \ {o} : ~Phone!Busy(p)
        <4>1. CASE Phone!Alone(o)
          BY <4>1 DEF Phone!Alone
        <4>2. CASE ~Phone!Alone(o)
          <5>1. disorder = {} /\ PhoneInOrder
            BY <1>2, <2>7, <4>2 DEF Phone!Grant, PhoneIInv
          <5>2. Phone!Busy(o)
            BY <1>1 DEF Phone!Busy
          <5> QED BY <5>1, <5>2 DEF PhoneInOrder
        <4> QED BY <4>1, <4>2
      <3>2. Unset \in Channels /\ "auto" \in {"auto", "save"}
        BY DEF Channels
      <3>3. Becomes(o, Phone!Sent("auto", Unset))
        BY <2>1 DEF r
      <3> QED BY <1>1, <1>2, <2>1, <3>1, <3>2, <3>3, Sending
    <2> QED BY <2>4, <2>5, <2>6, <2>7 DEF PhoneIInv
  <1>3. CASE ~ (latestRun = o /\ session # Null)
    <2>1. Becomes(o, Phone!Idle) /\ newest' \in {newest, o}
      BY <1>3 DEF Phone!Grant, Phone!Begin, Becomes
    <2>2. Phone!Idle \in PhoneOpState /\ Phone!Idle.pc = "idle" /\ Phone!Idle.kind = "auto"
      BY <1>1, IdleType
    <2>3. /\ phoneOp'[o] = Phone!Idle
          /\ \A p \in PhoneOp : p # o => phoneOp'[p] = phoneOp[p]
          /\ phoneOp' \in [PhoneOp -> PhoneOpState]
      BY <1>1, <2>1, <2>2, Became
    <2>4. PhoneTypeOK'
      BY <1>1, <2>1, <2>3 DEF PhoneTypeOK
    <2>5. PhoneFresh'
      BY <1>1, <2>1, <2>2, <2>3 DEF PhoneFresh, Requested
    <2>6. PhoneFounded'
      BY <1>1, <2>1, <2>2, <2>3 DEF PhoneFounded, Requested
    <2>7. ASSUME disorder' = {} PROVE PhoneInOrder'
      <3>1. disorder = {} /\ PhoneInOrder
        BY <1>3, <2>7 DEF Phone!Grant, PhoneIInv
      <3>2. Phone!Busy(o) /\ ~Requested(o)
        BY <1>1 DEF Phone!Busy, Requested
      <3>3. session # Null /\ \A p \in PhoneOp : ~Requested(p)
        BY <3>1, <3>2 DEF PhoneInOrder, SignedOutInOrder, Phone!Busy, Requested
      <3>4. latestRun # o /\ newest' = newest
        BY <1>3, <3>3 DEF Phone!Grant
      <3> QED BY <1>1, <2>1, <3>1, <3>2, <3>4, Calming
    <2> QED BY <2>4, <2>5, <2>6, <2>7 DEF PhoneIInv
  <1> QED BY <1>2, <1>3

-----------------------------------------------------------------------------
\* The backend.

LEMMA StoredType ==
  ASSUME Distinct, PhoneTypeOK, NEW r \in PhoneOpState
  PROVE  /\ Phone!Stored(r) \in PhoneRow \cup {Null}
         /\ r.kind # "unregister" =>
               /\ Phone!Stored(r) # Null /\ Phone!Stored(r).owner = r.user
               /\ r.channel # Unset => Phone!Stored(r).channel = r.channel
         /\ r.kind = "unregister" /\ row # Null /\ row.owner = r.user => Phone!Stored(r) = Null
         /\ r.kind = "unregister" /\ row = Null => Phone!Stored(r) = Null
  <1>1. Phone!Upserted(r) \in PhoneRow /\ Phone!Upserted(r).owner = r.user
    BY DEF Phone!Upserted, PhoneOpState, PhoneRow, PhoneTypeOK
  <1>2. r.channel # Unset => Phone!Upserted(r).channel = r.channel
    BY DEF Phone!Upserted
  <1>3. Phone!Deleted(r) \in PhoneRow \cup {Null}
    BY DEF Phone!Deleted, PhoneTypeOK
  <1> QED BY <1>1, <1>2, <1>3 DEF Phone!Stored, Phone!Deleted, Distinct

LEMMA Serving ==
  ASSUME Distinct, PhoneIInv, NEW o \in PhoneOp, Phone!Serve(o)
  PROVE  PhoneIInv'
  <1> DEFINE r == [phoneOp[o] EXCEPT !.pc = "served",
                                !.channel = IF @ = Unset /\ row' # Null THEN row'.channel ELSE @]
  <1>1. /\ PhoneTypeOK /\ PhoneFresh /\ PhoneFounded
        /\ phoneOp[o].pc = "sent" /\ row' = Phone!Stored(phoneOp[o]) /\ phoneOp[o] \in PhoneOpState
        /\ UNCHANGED <<session, signingOut, newest, registered, cache, arriving, disorder>>
    BY DEF Phone!Serve, PhoneIInv, PhoneTypeOK
  <1>2. Becomes(o, r)
    BY DEF Phone!Serve, Becomes, PhoneIInv, PhoneTypeOK
  <1>3. row' \in PhoneRow \cup {Null}
    BY <1>1, StoredType
  <1>4. /\ r \in PhoneOpState /\ r.pc = "served" /\ r.kind = phoneOp[o].kind /\ r.fresh = phoneOp[o].fresh
        /\ r.user = phoneOp[o].user
        /\ r.channel = IF phoneOp[o].channel = Unset /\ row' # Null
                       THEN row'.channel ELSE phoneOp[o].channel
    BY <1>1, <1>3 DEF PhoneOpState, PhoneRow
  <1> HIDE DEF r
  <1>5. /\ phoneOp'[o] = r
        /\ \A p \in PhoneOp : p # o => phoneOp'[p] = phoneOp[p]
        /\ phoneOp' \in [PhoneOp -> PhoneOpState]
        /\ \A p \in PhoneOp : (Requested(p)' <=> Requested(p)) /\ (Phone!Busy(p)' <=> Phone!Busy(p))
    BY <1>1, <1>2, <1>4, Became DEF Requested, Phone!Busy
  <1>6. PhoneTypeOK'
    BY <1>1, <1>3, <1>5 DEF PhoneTypeOK
  <1>7. \A p \in PhoneOp : phoneOp'[p].kind = phoneOp[p].kind /\ phoneOp'[p].fresh = phoneOp[p].fresh
    BY <1>4, <1>5
  <1>8. PhoneFresh'
    BY <1>1, <1>5, <1>7 DEF PhoneFresh
  <1>9. Phone!Leaving' = Phone!Leaving
    BY <1>5, <1>7 DEF Phone!Leaving
  <1>10. PhoneFounded'
    <2>1. \A p \in PhoneOp : phoneOp'[p].pc \in {"asking", "leaving"} => phoneOp[p].pc = phoneOp'[p].pc
      BY <1>4, <1>5
    <2> QED BY <1>1, <1>5, <1>7, <2>1 DEF PhoneFounded
  <1>11. ASSUME disorder' = {} PROVE PhoneInOrder'
    <2>1. PhoneInOrder
      BY <1>1, <1>11 DEF PhoneIInv
    <2>2. Phone!Busy(o) /\ Requested(o)
      BY <1>1 DEF Phone!Busy, Requested
    <2>3. session # Null /\ \A p \in PhoneOp : Phone!Busy(p) => p = o
      BY <2>1, <2>2 DEF PhoneInOrder, SignedOutInOrder
    <2>4. SignedOutInOrder'
      BY <1>1, <2>3 DEF SignedOutInOrder
    <2>5. LeavingInOrder'
      <3> SUFFICES ASSUME Phone!Leaving # {} PROVE LeavingInOrder'
        BY <1>9 DEF LeavingInOrder
      <3>1. /\ Phone!Registering = {} /\ cache = Null /\ ~registered
            /\ row # Null => \E p \in Phone!Leaving : phoneOp[p].pc = "sent" /\ phoneOp[p].user = row.owner
        BY <2>1 DEF PhoneInOrder, LeavingInOrder
      <3>2. Phone!Registering' = {}
        BY <1>5, <1>7, <3>1 DEF Phone!Registering
      <3>3. phoneOp[o].kind = "unregister"
        BY <2>2, <3>1 DEF Phone!Registering
      <3>4. row # Null => row.owner = phoneOp[o].user
        BY <2>3, <3>1 DEF Phone!Leaving
      <3>5. row' = Null
        BY <1>1, <3>3, <3>4, StoredType
      <3> QED BY <1>1, <3>1, <3>2, <3>5 DEF LeavingInOrder
    <2>6. SignedInInOrder'
      <3> SUFFICES ASSUME Phone!Leaving = {} PROVE SignedInInOrder'
        BY <1>9 DEF SignedInInOrder
      <3>1. newest = o /\ phoneOp[o].user = session
        BY <1>1, <2>1, <2>2, <2>3 DEF PhoneInOrder, SignedInInOrder
      <3>2. phoneOp[o].kind # "unregister"
        BY <2>2 DEF Phone!Leaving
      <3>3. row' # Null /\ row'.owner = session
        BY <1>1, <3>1, <3>2, StoredType
      <3>4. row'.channel = r.channel
        BY <1>1, <1>4, <3>2, <3>3, StoredType
      <3>5. \A p \in PhoneOp : Requested(p)' => p = o
        BY <1>5, <2>3 DEF Requested, Phone!Busy
      <3>6. Requested(o)'
        BY <1>5, <2>2
      <3> QED BY <1>1, <1>4, <1>5, <3>1, <3>3, <3>4, <3>5, <3>6 DEF SignedInInOrder
    <2> QED BY <1>1, <1>5, <2>1, <2>4, <2>5, <2>6 DEF PhoneInOrder
  <1> QED BY <1>6, <1>8, <1>10, <1>11 DEF PhoneIInv

LEMMA ArrivingLate ==
  ASSUME Distinct, PhoneIInv, NEW r \in arriving, Phone!ArriveLate(r)
  PROVE  PhoneIInv'
  <1>1. /\ PhoneTypeOK /\ PhoneFresh /\ PhoneFounded /\ r \in PhoneOpState
        /\ row' = Phone!Stored(r) /\ arriving' = arriving \ {r}
        /\ UNCHANGED <<session, signingOut, phoneOp, newest, latestRun, registered, cache, disorder>>
    BY DEF Phone!ArriveLate, Phone!app, PhoneIInv, PhoneTypeOK
  <1>2. PhoneTypeOK'
    <2>1. row' \in PhoneRow \cup {Null}
      BY <1>1, StoredType
    <2> QED BY <1>1, <2>1 DEF PhoneTypeOK
  <1>3. PhoneFresh' /\ PhoneFounded'
    BY <1>1 DEF PhoneFresh, PhoneFounded, Requested, Phone!Leaving, Phone!Busy
  <1>4. disorder' # {}
    BY <1>1 DEF PhoneIInv, PhoneInOrder
  <1> QED BY <1>2, <1>3, <1>4 DEF PhoneIInv

-----------------------------------------------------------------------------
\* Answers, and the lack of one.

LEMMA AnswerTaken ==
  ASSUME Distinct, PhoneIInv, NEW o \in PhoneOp, Phone!Registered(o)
  PROVE  PhoneIInv'
  <1>1. /\ PhoneTypeOK /\ PhoneFresh /\ PhoneFounded /\ phoneOp[o] \in PhoneOpState
        /\ phoneOp[o].pc = "served" /\ phoneOp[o].kind # "unregister" /\ Becomes(o, Phone!Idle)
        /\ registered' = (registered \/ phoneOp[o].kind = "auto")
        /\ UNCHANGED <<session, signingOut, newest, row, arriving, disorder>>
    BY DEF Phone!Registered, Phone!Begin, Becomes, PhoneIInv, PhoneTypeOK
  <1>2. Phone!Idle \in PhoneOpState /\ Phone!Idle.pc = "idle" /\ Phone!Idle.kind = "auto"
    BY <1>1, IdleType
  <1>3. /\ phoneOp'[o] = Phone!Idle
        /\ \A p \in PhoneOp : p # o => phoneOp'[p] = phoneOp[p]
        /\ phoneOp' \in [PhoneOp -> PhoneOpState]
        /\ ~Requested(o)' /\ ~Phone!Busy(o)'
        /\ \A p \in PhoneOp : p # o => (Requested(p)' <=> Requested(p)) /\ (Phone!Busy(p)' <=> Phone!Busy(p))
    BY <1>1, <1>2, Became
  <1>4. /\ registered' \in BOOLEAN
        /\ registered => registered'
        /\ phoneOp[o].kind = "auto" => registered'
    BY <1>1 DEF PhoneTypeOK
  <1>5. Requested(o) /\ phoneOp[o].kind \in {"auto", "save"}
    BY <1>1 DEF Requested, PhoneOpState
  <1> DEFINE k == [channel |-> phoneOp[o].channel, fresh |-> phoneOp[o].fresh]
  <1>6. k \in Known /\ k.channel = phoneOp[o].channel /\ k.fresh = phoneOp[o].fresh
    BY <1>1 DEF Known, PhoneOpState
  <1>7. cache' = IF newest = o THEN k ELSE cache
    BY DEF Phone!Registered, Phone!Current
  <1> HIDE DEF k
  <1>8. PhoneTypeOK'
    BY <1>1, <1>3, <1>4, <1>6, <1>7 DEF PhoneTypeOK
  <1>9. PhoneFresh'
    <2>1. newest = o => k.fresh
      BY <1>1, <1>5, <1>6 DEF PhoneFresh
    <2>2. cache' # Null => cache'.fresh
      BY <1>1, <1>7, <2>1 DEF PhoneFresh
    <2> QED BY <1>1, <1>3, <2>2 DEF PhoneFresh
  <1>10. PhoneFounded'
    <2>1. newest = o => registered'
      BY <1>1, <1>4, <1>5 DEF PhoneFounded
    <2>2. cache' # Null => registered'
      BY <1>1, <1>4, <1>7, <2>1 DEF PhoneFounded
    <2>3. \A p \in PhoneOp :
             /\ phoneOp'[p].pc = "asking" => phoneOp'[p].kind = "auto"
             /\ phoneOp'[p].pc = "leaving" => phoneOp'[p].kind = "unregister"
      BY <1>1, <1>2, <1>3 DEF PhoneFounded
    <2>4. \A p \in PhoneOp : newest' = p /\ Requested(p)' /\ phoneOp'[p].kind = "save" => registered'
      BY <1>1, <1>3, <1>4 DEF PhoneFounded
    <2> QED BY <1>1, <2>2, <2>3, <2>4 DEF PhoneFounded
  <1>11. ASSUME disorder' = {} PROVE PhoneInOrder'
    <2>1. PhoneInOrder
      BY <1>1, <1>11 DEF PhoneIInv
    <2>2. Phone!Busy(o) /\ o \in Phone!Registering
      BY <1>1 DEF Phone!Busy, Phone!Registering
    <2>3. session # Null /\ Phone!Leaving = {} /\ \A p \in PhoneOp : Phone!Busy(p) => p = o
      BY <2>1, <2>2 DEF PhoneInOrder, SignedOutInOrder, LeavingInOrder
    <2>4. /\ newest = o
          /\ row # Null /\ row.owner = session /\ row.channel = phoneOp[o].channel
      BY <1>1, <1>5, <2>1, <2>3 DEF PhoneInOrder, SignedInInOrder
    <2>5. cache' = k /\ cache' # Null
      BY <1>6, <1>7, <2>4 DEF Distinct
    <2>6. registered'
      BY <1>1, <1>4, <1>5, <2>4 DEF PhoneFounded
    <2>7. \A p \in PhoneOp : ~Phone!Busy(p)' /\ ~Requested(p)'
      BY <1>3, <2>3 DEF Phone!Busy, Requested
    <2>8. SignedOutInOrder' /\ LeavingInOrder' /\ SignedInInOrder'
      BY <1>1, <1>6, <2>3, <2>4, <2>5, <2>6, <2>7
      DEF SignedOutInOrder, LeavingInOrder, SignedInInOrder, Phone!Leaving
    <2> QED BY <1>1, <2>1, <2>7, <2>8 DEF PhoneInOrder
  <1> QED BY <1>8, <1>9, <1>10, <1>11 DEF PhoneIInv

\* What remains of an operation when its request is over.
LEMMA RestType ==
  ASSUME PhoneTypeOK, NEW r \in PhoneOpState
  PROVE  /\ Phone!Rest(r) \in PhoneOpState
         /\ Phone!Rest(r).pc \in {"idle", "leaving"}
         /\ Phone!Rest(r).kind = "unregister" <=> Phone!Rest(r).pc = "leaving"
         /\ r.kind = "unregister" => Phone!Rest(r).pc = "leaving"
  <1>1. /\ Phone!Idle \in PhoneOpState /\ Phone!Idle.pc = "idle" /\ Phone!Idle.kind = "auto"
    BY IdleType
  <1>2. /\ [r EXCEPT !.pc = "leaving"] \in PhoneOpState
        /\ [r EXCEPT !.pc = "leaving"].pc = "leaving"
        /\ [r EXCEPT !.pc = "leaving"].kind = r.kind
    BY DEF PhoneOpState
  <1> QED BY <1>1, <1>2 DEF Phone!Rest

\* An operation whose request is over.
LEMMA Lapses ==
  ASSUME PhoneTypeOK, PhoneFresh, PhoneFounded, NEW o \in PhoneOp, NEW r \in PhoneOpState, Becomes(o, r),
         r.pc \in {"idle", "leaving"}, r.kind = "unregister" <=> r.pc = "leaving",
         UNCHANGED <<newest, registered, cache>>
  PROVE  PhoneFresh' /\ PhoneFounded'
  <1>1. /\ phoneOp'[o] = r
        /\ \A p \in PhoneOp : p # o => phoneOp'[p] = phoneOp[p]
    BY Became
  <1>2. PhoneFresh'
    BY <1>1 DEF PhoneFresh, Requested
  <1>3. PhoneFounded'
    BY <1>1 DEF PhoneFounded, Requested
  <1> QED BY <1>2, <1>3

LEMMA Failing ==
  ASSUME PhoneIInv, NEW o \in PhoneOp, Phone!Fail(o)
  PROVE  PhoneIInv'
  <1>1. /\ PhoneTypeOK /\ PhoneFresh /\ PhoneFounded /\ phoneOp[o] \in PhoneOpState
        /\ Becomes(o, Phone!Rest(phoneOp[o])) /\ disorder' # {}
        /\ arriving' \in SUBSET (arriving \cup {phoneOp[o]})
        /\ UNCHANGED <<session, signingOut, newest, registered, cache, row>>
    BY DEF Phone!Fail, Phone!Begin, Becomes, PhoneIInv, PhoneTypeOK
  <1>2. /\ Phone!Rest(phoneOp[o]) \in PhoneOpState
        /\ Phone!Rest(phoneOp[o]).pc \in {"idle", "leaving"}
        /\ Phone!Rest(phoneOp[o]).kind = "unregister" <=> Phone!Rest(phoneOp[o]).pc = "leaving"
    BY <1>1, RestType
  <1>3. PhoneTypeOK'
    BY <1>1, <1>2, Became DEF PhoneTypeOK
  <1>4. PhoneFresh' /\ PhoneFounded'
    BY <1>1, <1>2, Lapses
  <1> QED BY <1>1, <1>3, <1>4 DEF PhoneIInv

LEMMA Saves ==
  ASSUME Distinct, PhoneIInv, NEW o \in PhoneOp, NEW c \in Channel, Phone!Save(o, c)
  PROVE  PhoneIInv'
  <1> DEFINE r == Phone!Sent("save", c)
  <1>1. /\ PhoneTypeOK /\ PhoneFresh /\ PhoneFounded /\ session # Null /\ cache # Null /\ ~Phone!Busy(o)
        /\ Becomes(o, r) /\ newest' = o
        /\ disorder' = disorder \cup (IF Phone!Registering # {} THEN {"overlap"} ELSE {})
        /\ UNCHANGED <<session, signingOut, registered, cache, row, arriving>>
    BY DEF Phone!Save, Phone!Begin, Becomes, PhoneIInv
  <1>2. c \in Channels
    BY DEF Channels
  <1>3. /\ r \in PhoneOpState /\ r.kind = "save" /\ r.pc = "sent" /\ r.fresh
    BY <1>1, <1>2, IdleType
  <1> HIDE DEF r
  <1>4. /\ phoneOp'[o] = r
        /\ \A p \in PhoneOp : p # o => phoneOp'[p] = phoneOp[p]
        /\ phoneOp' \in [PhoneOp -> PhoneOpState]
    BY <1>1, <1>3, Became
  <1>5. PhoneTypeOK'
    BY <1>1, <1>4 DEF PhoneTypeOK
  <1>6. PhoneFresh'
    BY <1>1, <1>3, <1>4 DEF PhoneFresh
  <1>7. PhoneFounded'
    BY <1>1, <1>3, <1>4 DEF PhoneFounded, Requested
  <1>8. ASSUME disorder' = {} PROVE PhoneInOrder'
    <2>1. PhoneInOrder /\ Phone!Registering = {}
      BY <1>1, <1>8 DEF PhoneIInv
    <2>2. Phone!Leaving = {} /\ arriving = {}
      BY <1>1, <2>1 DEF PhoneInOrder, LeavingInOrder
    <2>3. \A p \in PhoneOp \ {o} : ~Phone!Busy(p)
      BY <2>1, <2>2 DEF Phone!Leaving, Phone!Registering
    <2>4. Becomes(o, Phone!Sent("save", c)) /\ "save" \in {"auto", "save"}
      BY <1>1 DEF r
    <2> QED BY <1>1, <1>2, <2>2, <2>3, <2>4, Sending
  <1> QED BY <1>5, <1>6, <1>7, <1>8 DEF PhoneIInv

-----------------------------------------------------------------------------
\* The end of a session.

LEMMA LoggingOut ==
  ASSUME Distinct, PhoneIInv, NEW o \in PhoneOp, Phone!Logout(o)
  PROVE  PhoneIInv'
  <1> DEFINE sent == Phone!Sent("unregister", Unset)
             r == [sent EXCEPT !.pc = IF registered THEN @ ELSE "leaving"]
             after(p) == IF p = o THEN r ELSE [phoneOp[p] EXCEPT !.fresh = FALSE]
  <1>1. /\ PhoneTypeOK /\ PhoneFresh /\ PhoneFounded /\ session # Null /\ ~Phone!Busy(o)
        /\ signingOut' = TRUE /\ newest' = Null /\ cache' = Null /\ registered' = FALSE
        /\ phoneOp' = [p \in PhoneOp |-> after(p)]
        /\ disorder' = disorder \cup (IF \E p \in PhoneOp : Phone!Busy(p) THEN {"crossed"} ELSE {})
        /\ UNCHANGED <<session, row, arriving>>
    BY DEF Phone!Logout, Phone!Invalidated, Phone!ToUnregister, PhoneIInv
  <1>2. /\ r \in PhoneOpState /\ r.kind = "unregister" /\ r.user = session
        /\ r.pc = IF registered THEN "sent" ELSE "leaving"
    <2>1. /\ sent \in PhoneOpState /\ sent.kind = "unregister" /\ sent.pc = "sent"
          /\ sent.user = session
      BY <1>1, IdleType DEF Channels
    <2> HIDE DEF sent
    <2> QED BY <2>1 DEF PhoneOpState
  <1> HIDE DEF r
  <1>3. \A p \in PhoneOp : /\ phoneOp[p] \in PhoneOpState
                           /\ [phoneOp[p] EXCEPT !.fresh = FALSE] \in PhoneOpState
                           /\ [phoneOp[p] EXCEPT !.fresh = FALSE].pc = phoneOp[p].pc
                           /\ [phoneOp[p] EXCEPT !.fresh = FALSE].kind = phoneOp[p].kind
    <2>1. \A x \in PhoneOpState : /\ [x EXCEPT !.fresh = FALSE] \in PhoneOpState
                                  /\ [x EXCEPT !.fresh = FALSE].pc = x.pc
                                  /\ [x EXCEPT !.fresh = FALSE].kind = x.kind
      BY DEF PhoneOpState
    <2>2. \A p \in PhoneOp : phoneOp[p] \in PhoneOpState
      BY <1>1 DEF PhoneTypeOK
    <2> QED BY <2>1, <2>2
  <1>4. \A p \in PhoneOp : /\ phoneOp'[p] \in PhoneOpState
                           /\ \/ p = o
                              \/ phoneOp'[p].pc = phoneOp[p].pc /\ phoneOp'[p].kind = phoneOp[p].kind
    BY <1>1, <1>2, <1>3
  <1>5. phoneOp'[o] = r
    BY <1>1
  <1>6. phoneOp' \in [PhoneOp -> PhoneOpState]
    BY <1>1, <1>4
  <1> HIDE DEF after
  <1>7. PhoneTypeOK'
    BY <1>1, <1>6 DEF PhoneTypeOK
  <1>8. PhoneFresh' /\ PhoneFounded'
    <2>1. newest' \notin PhoneOp
      BY <1>1 DEF Distinct
    <2>2. \A p \in PhoneOp : /\ phoneOp'[p].pc = "asking" => phoneOp'[p].kind = "auto"
                             /\ phoneOp'[p].pc = "leaving" => phoneOp'[p].kind = "unregister"
      BY <1>1, <1>2, <1>4, <1>5 DEF PhoneFounded
    <2>3. PhoneFresh'
      BY <1>1, <2>1 DEF PhoneFresh
    <2>4. PhoneFounded'
      BY <1>1, <2>1, <2>2 DEF PhoneFounded
    <2> QED BY <2>3, <2>4
  <1>9. ASSUME disorder' = {} PROVE PhoneInOrder'
    <2>1. PhoneInOrder /\ \A p \in PhoneOp : ~Phone!Busy(p)
      BY <1>1, <1>9 DEF PhoneIInv
    <2>2. Phone!Leaving = {} /\ \A p \in PhoneOp : ~Requested(p)
      BY <2>1 DEF Phone!Leaving, Phone!Busy, Requested
    <2>3. IF registered THEN row # Null /\ row.owner = session ELSE row = Null
      BY <1>1, <2>1, <2>2 DEF PhoneInOrder, SignedInInOrder
    <2>4. \A p \in PhoneOp : Phone!Busy(p)' => p = o
      BY <1>4, <2>1 DEF Phone!Busy
    <2>5. o \in Phone!Leaving' /\ Phone!Registering' = {}
      BY <1>2, <1>5, <2>4 DEF Phone!Registering, Phone!Leaving, Phone!Busy
    <2>6. row' # Null => phoneOp'[o].pc = "sent" /\ phoneOp'[o].user = row'.owner
      BY <1>1, <1>2, <1>5, <2>3
    <2>7. LeavingInOrder'
      BY <1>1, <2>5, <2>6 DEF LeavingInOrder
    <2>8. SignedOutInOrder' /\ SignedInInOrder'
      BY <1>1, <2>5 DEF SignedOutInOrder, SignedInInOrder
    <2> QED BY <1>1, <2>1, <2>4, <2>7, <2>8 DEF PhoneInOrder
  <1> QED BY <1>7, <1>8, <1>9 DEF PhoneIInv

\* In order, a logout has nothing beside it.
LEMMA LeavingAlone ==
  ASSUME PhoneTypeOK, PhoneInOrder, NEW o \in PhoneOp, Phone!Busy(o), phoneOp[o].kind = "unregister",
         phoneOp[o].pc # "sent"
  PROVE  /\ session # Null /\ row = Null /\ cache = Null /\ ~registered /\ arriving = {}
         /\ \A p \in PhoneOp : p # o => ~Phone!Busy(p)
  <1>1. o \in Phone!Leaving /\ \A p \in PhoneOp : Phone!Busy(p) => p = o
    BY DEF Phone!Leaving, PhoneInOrder
  <1>2. ~ \E p \in Phone!Leaving : phoneOp[p].pc = "sent"
    BY <1>1 DEF Phone!Leaving
  <1> QED BY <1>1, <1>2 DEF PhoneInOrder, LeavingInOrder, SignedOutInOrder

LEMMA Unregistering ==
  ASSUME PhoneIInv, NEW o \in PhoneOp, Phone!Unregistered(o)
  PROVE  PhoneIInv'
  <1> DEFINE r == Phone!Rest(phoneOp[o])
  <1>1. /\ PhoneTypeOK /\ PhoneFresh /\ PhoneFounded /\ phoneOp[o] \in PhoneOpState
        /\ phoneOp[o].pc = "served" /\ phoneOp[o].kind = "unregister" /\ Becomes(o, r)
        /\ UNCHANGED <<session, signingOut, newest, registered, cache, row, arriving, disorder>>
    BY DEF Phone!Unregistered, Phone!Begin, Becomes, PhoneIInv, PhoneTypeOK
  <1>2. r \in PhoneOpState /\ r.pc = "leaving" /\ r.kind = "unregister"
    BY <1>1, RestType
  <1> HIDE DEF r
  <1>3. PhoneTypeOK'
    BY <1>1, <1>2, Became DEF PhoneTypeOK
  <1>4. PhoneFresh' /\ PhoneFounded'
    BY <1>1, <1>2, Lapses
  <1>5. ASSUME disorder' = {} PROVE PhoneInOrder'
    <2>1. PhoneInOrder /\ Phone!Busy(o)
      BY <1>1, <1>5 DEF PhoneIInv, Phone!Busy
    <2>2. /\ session # Null /\ row = Null /\ cache = Null /\ ~registered /\ arriving = {}
          /\ \A p \in PhoneOp : p # o => ~Phone!Busy(p)
      BY <1>1, <2>1, LeavingAlone
    <2>3. phoneOp'[o] = r /\ Phone!Busy(o)' /\ \A p \in PhoneOp : p # o => ~Phone!Busy(p)'
      BY <1>1, <1>2, <2>2, Became
    <2>4. o \in Phone!Leaving' /\ Phone!Registering' = {}
      BY <1>2, <2>3 DEF Phone!Leaving, Phone!Registering
    <2>5. SignedOutInOrder' /\ LeavingInOrder' /\ SignedInInOrder'
      BY <1>1, <2>2, <2>4 DEF SignedOutInOrder, LeavingInOrder, SignedInInOrder
    <2> QED BY <1>1, <2>2, <2>3, <2>5 DEF PhoneInOrder
  <1> QED BY <1>3, <1>4, <1>5 DEF PhoneIInv

LEMMA SigningOut ==
  ASSUME PhoneIInv, NEW o \in PhoneOp, Phone!SignedOut(o)
  PROVE  PhoneIInv'
  <1>1. /\ PhoneTypeOK /\ PhoneFresh /\ PhoneFounded
        /\ phoneOp[o].pc = "leaving" /\ session' = Null /\ Becomes(o, Phone!Idle)
        /\ UNCHANGED <<signingOut, newest, latestRun, registered, cache, row, arriving, disorder>>
    BY DEF Phone!SignedOut, Phone!Begin, Becomes, PhoneIInv
  <1>2. Phone!Idle \in PhoneOpState /\ Phone!Idle.pc = "idle" /\ Phone!Idle.kind = "auto"
    BY <1>1, IdleType
  <1>3. PhoneTypeOK'
    BY <1>1, <1>2, Became DEF PhoneTypeOK, Owners
  <1>4. PhoneFresh' /\ PhoneFounded'
    BY <1>1, <1>2, Subsides
  <1>5. ASSUME disorder' = {} PROVE PhoneInOrder'
    <2>1. PhoneInOrder /\ Phone!Busy(o) /\ phoneOp[o].kind = "unregister"
      BY <1>1, <1>5 DEF PhoneIInv, Phone!Busy, PhoneFounded
    <2>2. /\ row = Null /\ ~registered /\ arriving = {}
          /\ \A p \in PhoneOp : p # o => ~Phone!Busy(p)
      BY <1>1, <2>1, LeavingAlone
    <2>3. \A p \in PhoneOp : ~Phone!Busy(p)'
      BY <1>1, <1>2, <2>2, Became
    <2>4. SignedOutInOrder' /\ LeavingInOrder' /\ SignedInInOrder'
      BY <1>1, <2>2, <2>3 DEF SignedOutInOrder, LeavingInOrder, SignedInInOrder, Phone!Leaving
    <2> QED BY <1>1, <2>2, <2>3, <2>4 DEF PhoneInOrder
  <1> QED BY <1>3, <1>4, <1>5 DEF PhoneIInv

LEMMA Expiring ==
  ASSUME PhoneIInv, Phone!Expire
  PROVE  PhoneIInv'
  <1>1. /\ PhoneTypeOK /\ PhoneFresh /\ PhoneFounded
        /\ session' = Null /\ disorder' # {}
        /\ UNCHANGED <<signingOut, phoneOp, newest, latestRun, registered, cache, row, arriving>>
    BY DEF Phone!Expire, PhoneIInv
  <1>2. PhoneTypeOK'
    BY <1>1 DEF PhoneTypeOK, Owners
  <1>3. PhoneFresh' /\ PhoneFounded'
    BY <1>1 DEF PhoneFresh, PhoneFounded, Requested, Phone!Leaving, Phone!Busy
  <1> QED BY <1>1, <1>2, <1>3 DEF PhoneIInv

LEMMA Restarting ==
  ASSUME PhoneIInv, NEW o \in PhoneOp, Phone!Restart(o)
  PROVE  PhoneIInv'
  <1> DEFINE ask == [Phone!Idle EXCEPT !.pc = "asking"]
  <1>1. /\ PhoneTypeOK /\ newest' = Null /\ registered' = FALSE /\ cache' = Null
        /\ signingOut' = FALSE /\ disorder' # {}
        /\ phoneOp' = [p \in PhoneOp |-> IF p = o /\ session # Null THEN ask ELSE Phone!Idle]
        /\ arriving' = arriving \cup {phoneOp[p] : p \in {q \in PhoneOp : phoneOp[q].pc = "sent"}}
        /\ UNCHANGED <<session, row>>
    BY DEF Phone!Restart, PhoneIInv
  <1>2. /\ Phone!Idle \in PhoneOpState /\ Phone!Idle.pc = "idle" /\ Phone!Idle.kind = "auto"
        /\ ask \in PhoneOpState /\ ask.pc = "asking" /\ ask.kind = "auto"
    BY <1>1, IdleType
  <1> HIDE DEF ask
  <1>3. phoneOp' \in [PhoneOp -> PhoneOpState] /\ \A p \in PhoneOp : phoneOp'[p] \in {ask, Phone!Idle}
    BY <1>1, <1>2
  <1>4. PhoneTypeOK'
    BY <1>1, <1>3 DEF PhoneTypeOK
  <1>5. \A p \in PhoneOp : ~Requested(p)' /\ phoneOp'[p].kind = "auto"
    BY <1>2, <1>3 DEF Requested
  <1>6. PhoneFresh' /\ PhoneFounded'
    BY <1>1, <1>2, <1>3, <1>5 DEF PhoneFresh, PhoneFounded
  <1> QED BY <1>1, <1>4, <1>6 DEF PhoneIInv

-----------------------------------------------------------------------------
LEMMA PhoneInitially ==
  ASSUME Phone!Init
  PROVE  PhoneIInv
  <1>1. Phone!Idle \in PhoneOpState /\ Phone!Idle.pc = "idle" /\ Phone!Idle.kind = "auto"
    BY DEF Phone!Idle, PhoneOpState, Owners, Channels
  <1>2. /\ session = Null /\ signingOut = FALSE /\ phoneOp = [o \in PhoneOp |-> Phone!Idle]
        /\ newest = Null /\ registered = FALSE /\ cache = Null
        /\ row = Null /\ arriving = {} /\ disorder = {}
    BY DEF Phone!Init
  <1>3. PhoneTypeOK
    BY <1>1, <1>2 DEF PhoneTypeOK, Owners
  <1>4. \A o \in PhoneOp : ~Phone!Busy(o) /\ ~Requested(o) /\ phoneOp[o].pc = "idle"
    BY <1>1, <1>2 DEF Phone!Busy, Requested
  <1>5. PhoneFresh /\ PhoneFounded
    BY <1>2, <1>4 DEF PhoneFresh, PhoneFounded
  <1>6. PhoneInOrder
    BY <1>2, <1>4 DEF PhoneInOrder, SignedOutInOrder, LeavingInOrder, SignedInInOrder, Phone!Leaving
  <1> QED BY <1>3, <1>5, <1>6 DEF PhoneIInv

LEMMA PhoneSteps ==
  ASSUME Distinct, PhoneIInv, [Phone!Next]_(Phone!vars)
  PROVE  PhoneIInv'
  <1>1. ASSUME NEW o \in PhoneOp, NEW u \in People, Phone!SignIn(u, o) PROVE PhoneIInv'
    BY <1>1, SigningIn
  <1>2. ASSUME NEW o \in PhoneOp,
               \/ Phone!Deny(o) \/ Phone!Grant(o) \/ Phone!Serve(o) \/ Phone!Registered(o) \/ Phone!Fail(o)
               \/ \E c \in Channel : Phone!Save(o, c)
               \/ Phone!Logout(o) \/ Phone!Unregistered(o) \/ Phone!SignedOut(o) \/ Phone!Restart(o)
        PROVE  PhoneIInv'
    BY <1>2, Denying, Granting, Serving, AnswerTaken, Failing, Saves, LoggingOut,
       Unregistering, SigningOut, Restarting
  <1>3. ASSUME NEW r \in arriving, Phone!ArriveLate(r) PROVE PhoneIInv'
    BY <1>3, ArrivingLate
  <1>4. ASSUME NEW u \in People, Phone!Replace(u) PROVE PhoneIInv'
    BY <1>4, Replacing
  <1>5. CASE Phone!Expire
    BY <1>5, Expiring
  <1>6. CASE UNCHANGED Phone!vars
    <2>1. UNCHANGED <<session, signingOut, phoneOp, newest, registered, cache, row, arriving, disorder>>
      BY <1>6 DEF Phone!vars
    <2> QED
      BY <2>1 DEF PhoneIInv, PhoneTypeOK, PhoneFresh, PhoneFounded, PhoneInOrder,
                  SignedOutInOrder, LeavingInOrder, SignedInInOrder, Requested,
                  Phone!Busy, Phone!Leaving, Phone!Registering
  <1> QED
    BY <1>1, <1>2, <1>3, <1>4, <1>5, <1>6 DEF Phone!Next

-----------------------------------------------------------------------------
\* PhoneIInv is an invariant, for any users, sounds and number of operations.
THEOREM PhoneInvariance == ASSUME Distinct PROVE Phone!Spec => []PhoneIInv
  <1>1. Phone!Init => PhoneIInv
    BY PhoneInitially
  <1>2. PhoneIInv /\ [Phone!Next]_(Phone!vars) => PhoneIInv'
    BY PhoneSteps
  <1> QED
    BY <1>1, <1>2, PTL DEF Phone!Spec

\* However slow an answer is, the app never takes for its registration what was asked
\* for before the last logout (registrationWriteSequence of pushNotifications.ts).
THEOREM NothingOldIsKept == ASSUME Distinct PROVE Phone!Spec => []LogoutForgets
  <1>1. PhoneIInv => LogoutForgets
    BY DEF PhoneIInv, PhoneFresh, LogoutForgets, Phone!LogoutForgets
  <1> QED
    BY <1>1, PhoneInvariance, PTL

\* Once nothing is under way, the phone is registered for nobody when signed out, and
\* for its user and with the sound that is shown when signed in, unless something was
\* lost, killed or crossed since (pushNotifications.ts and api/v1/devices.py).
THEOREM BothAgree == ASSUME Distinct PROVE Phone!Spec => []Agreement
  <1>1. PhoneIInv => Agreement
    BY DEF PhoneIInv, Agreement, Phone!Agreement, Phone!Quiet, PhoneInOrder,
           SignedOutInOrder, SignedInInOrder, Requested, Phone!Busy, Phone!Leaving
  <1> QED
    BY <1>1, PhoneInvariance, PTL
=============================================================================
