-------------------------- MODULE MaintenanceProofs --------------------------
(***************************************************************************)
(* Theorems about module Maintenance.  A script writes what it decided on  *)
(* tables it has read earlier; what makes this safe is what the scans, the *)
(* users and the other scripts cannot have done in between.  Each session  *)
(* therefore has an invariant that relates what it holds to the tables as  *)
(* they are now, and the steps of others must keep it.                     *)
(***************************************************************************)
EXTENDS Maintenance, FiniteSetTheorems, TLAPS

-----------------------------------------------------------------------------
(* Types. *)

Row == [good : Good, live : BOOLEAN, finder : Search \cup {None}, by : Search \cup {None},
        status : Terminal \cup {"pending", "failed"}, field : [Field -> Nat]]

Alert == [listing : Nat, user : User \cup {None}, live : BOOLEAN, unowned : BOOLEAN]

Copy == [status : Terminal \cup {"pending", "failed"}, field : [Field -> Nat]]

SearchRecord == [state : {"new", "live", "gone"}, owner : User \cup {None}, ask : Ask \cup {None}]

Scan    == [script : {"scan"}, search : Search, owner : User \cup {None}, ask : Ask \cup {None}]
Cleanup == [script : {"cleanup"}, judged : BOOLEAN, rows : SUBSET Nat]
Pass    == [script : {"pass"}, rows : SUBSET Nat, unset : SUBSET Marketplace,
            refused : SUBSET Marketplace, copy : UNION {[R -> Copy] : R \in SUBSET Nat}]
Cutover == [script : {"cutover"}, user : User, searches : SUBSET Search, found : {{}}]
Prefers == [script : {"prefer"}, user : User]
Linking == [script : {"link"}, pairs : SUBSET (Search \X Nat)]
Stamps  == [script : {"stamp"}, user : UNION {[A -> User] : A \in SUBSET Nat}]

Session == {Idle} \cup Scan \cup Cleanup \cup Pass \cup Cutover \cup Prefers \cup Linking \cup Stamps

TypeOK ==
    /\ search \in [Search -> SearchRecord]
    /\ listing \in Seq(Row)
    /\ link \in SUBSET (Search \X Nat)
    /\ alert \in Seq(Alert)
    /\ account \in [User -> [exists : BOOLEAN, admin : BOOLEAN, chat : {"none", "own", "legacy"}]]
    /\ job \in [Job -> Session]
    /\ changed \in SUBSET (Job \X Search)
    /\ owned \in SUBSET (User \X Search)

\* What session j holds exists, or has existed.
Holds(j) ==
    /\ job[j].script \in {"cleanup", "pass"} => job[j].rows \subseteq DOMAIN listing
    /\ job[j].script = "pass" => job[j].rows \subseteq DOMAIN job[j].copy
    /\ job[j].script = "stamp" => DOMAIN job[j].user \subseteq DOMAIN alert

\* So does what an alert refers to.
References ==
    /\ \A a \in DOMAIN alert : alert[a].listing \in DOMAIN listing
    /\ \A j \in Job : Holds(j)

-----------------------------------------------------------------------------
(* The cleanup. *)

\* No search that is there wants the row, but those created or edited since j
\* has judged.
Unwanted(j, r) ==
    \A s \in LiveSearches :
        MarketOf[listing[r].good] \in Target[search[s].ask] =>
            <<search[s].ask, listing[r].good>> \notin ByTitle \/ <<j, s>> \in changed

CleanupInv == \A j \in Judged : \A r \in job[j].rows : Unwanted(j, r)

-----------------------------------------------------------------------------
(* The owners of alerts. *)

\* User u has owned the search that found the listing of alert a.
Entitled(u, a) == <<u, listing[alert[a].listing].by>> \in owned

StampInv ==
    /\ \A r \in DOMAIN listing : listing[r].finder \in {listing[r].by, None}
    /\ \A s \in Search : search[s].owner # None => <<search[s].owner, s>> \in owned
    /\ \A j \in Job : job[j].script = "stamp" =>
          \A a \in DOMAIN job[j].user : alert[a].unowned /\ Entitled(job[j].user[a], a)
    /\ \A a \in DOMAIN alert :
          IF alert[a].user = None THEN alert[a].unowned
          ELSE alert[a].unowned => Entitled(alert[a].user, a)

\* An alert that was enqueued for somebody is the only such one he has of its
\* listing.
OneEach ==
    \A a, b \in Alerts :
        a # b /\ alert[a].listing = alert[b].listing /\ alert[a].user = alert[b].user
        => alert[a].unowned \/ alert[b].unowned

-----------------------------------------------------------------------------
(* The metadata passes. *)

\* Unless another pass has read the row too, it is still as the pass has read
\* it, and nothing has settled it.
PassInv ==
    \A j \in Job : job[j].script = "pass" =>
        \A r \in job[j].rows : <<"row", r>> \notin contended =>
            /\ listing[r].field = job[j].copy[r].field
            /\ listing[r].status \notin Terminal
            /\ \A k \in Job \ {j} : job[k].script = "pass" => r \notin job[k].rows

-----------------------------------------------------------------------------
(* The cutover and the preferences. *)

CutoverInv ==
    \A j \in Job : job[j].script = "cutover" =>
        \A s \in job[j].searches : <<"search", s>> \notin contended =>
            /\ search[s].state # "new" /\ search[s].owner = None
            /\ \A k \in Job \ {j} : job[k].script = "cutover" => s \notin job[k].searches

PreferInv ==
    \A j \in Job : job[j].script = "prefer" /\ <<"user", job[j].user>> \notin contended =>
        account[job[j].user].chat # "own"

IInv ==
    /\ TypeOK
    /\ References
    /\ CleanupInv
    /\ StampInv
    /\ OneEach
    /\ PassInv
    /\ CutoverInv
    /\ PreferInv
-----------------------------------------------------------------------------
(* Sequences and sessions. *)

\* A function on the domain of a sequence is a sequence of its length.
LEMMA MappedSeq ==
    ASSUME NEW S, NEW T, NEW q \in Seq(S), NEW f \in [DOMAIN q -> T]
    PROVE  f \in Seq(T) /\ DOMAIN f = DOMAIN q /\ Len(f) = Len(q)
  <1>1. PICK n \in Nat : q \in [1..n -> S]
    OBVIOUS
  <1>2. DOMAIN q = 1..n /\ Len(q) = n
    BY <1>1
  <1>3. f \in [1..n -> T]
    BY <1>2
  <1>4. f \in Seq(T)
    BY <1>3
  <1>5. Len(f) = n
    BY <1>3, <1>4
  <1> QED
    BY <1>2, <1>3, <1>4, <1>5

\* What the script says of the session, when there is one.
LEMMA Kinds ==
    ASSUME TypeOK, NEW j \in Job
    PROVE  /\ job[j].script = "scan" => job[j] \in Scan
           /\ job[j].script = "cleanup" => job[j] \in Cleanup
           /\ job[j].script = "pass" => job[j] \in Pass
           /\ job[j].script = "cutover" => job[j] \in Cutover
           /\ job[j].script = "prefer" => job[j] \in Prefers
           /\ job[j].script = "link" => job[j] \in Linking
           /\ job[j].script = "stamp" => job[j] \in Stamps
  <1>1. job[j] \in Session
    BY DEF TypeOK
  <1> QED
    BY <1>1 DEF Session, Idle, Scan, Cleanup, Pass, Cutover, Prefers, Linking, Stamps

\* Nothing found earlier names the finder of a listing.
LEMMA NoEvidence ==
    ASSUME NEW C
    PROVE  Attributions(C) = {}
  BY DEF Attributions, Evidence

LEMMA NoneIsNobody == None \notin Search /\ None \notin User
  BY MaintenanceAssumption

\* The new row of a good, and an alert about one.
LEMMA NewRowType ==
    ASSUME NEW good \in Good, NEW finder \in Search \cup {None}, NEW given \in SUBSET Field
    PROVE  NewRow(good, finder, given) \in Row
  BY DEF NewRow, Row

LEMMA NewAlertType ==
    ASSUME NEW row \in Nat, NEW user \in User \cup {None}
    PROVE  NewAlert(row, user) \in Alert
  BY DEF NewAlert, Alert

LEMMA InitTypeOK == Init => TypeOK /\ References
  <1> SUFFICES ASSUME Init PROVE TypeOK /\ References
    OBVIOUS
  <1> DEFINE wanted == {w[2] : w \in Wanted}
  <1>1. PICK goods \in SUBSET wanted, given \in SUBSET Field :
           /\ listing = [r \in 1..Cardinality(goods) |-> NewRow(SetToSeq(goods)[r], None, given)]
           /\ alert = [r \in DOMAIN listing |-> NewAlert(r, None)]
    BY DEF Init
  <1>2. wanted \subseteq Good
    BY MaintenanceAssumption
  <1>3. IsFiniteSet(goods) /\ goods \subseteq Good
    BY <1>2, MaintenanceAssumption, FS_Subset
  <1> DEFINE n == Cardinality(goods)
  <1>4. n \in Nat
    BY <1>3, FS_CardinalityType
  <1>5. SetToSeq(goods) \in [1..n -> goods]
    <2>1. PICK f : f \in Bijection(1..n, goods)
      BY <1>3, FS_CardinalityType DEF ExistsBijection
    <2>2. f \in [1..n -> goods] /\ IsInjective(f)
      BY <2>1 DEF Bijection, Injection
    <2> QED
      BY <2>2 DEF SetToSeq
  <1>6. \A r \in 1..n : NewRow(SetToSeq(goods)[r], None, given) \in Row
    BY <1>3, <1>5, NewRowType
  <1>7. listing \in [1..n -> Row] /\ DOMAIN listing = 1..n
    BY <1>1, <1>6
  <1>8. alert \in [1..n -> Alert] /\ \A r \in DOMAIN alert : alert[r].listing = r
    BY <1>1, <1>7, NewAlertType, <1>4 DEF NewAlert
  <1>9. listing \in Seq(Row) /\ alert \in Seq(Alert)
    BY <1>4, <1>7, <1>8
  <1>10. job = [j \in Job |-> Idle]
    BY DEF Init
  <1>11. TypeOK
    <2>1. PICK asked \in [Legacy -> Ask] :
             search = [s \in Search |-> IF s \in Legacy
                                        THEN [state |-> "live", owner |-> None, ask |-> asked[s]]
                                        ELSE [state |-> "new", owner |-> None, ask |-> None]]
      BY DEF Init
    <2>2. search \in [Search -> SearchRecord]
      BY <2>1 DEF SearchRecord
    <2> QED
      BY <1>9, <1>10, <2>2 DEF Init, TypeOK, Session
  <1>12. References
    BY <1>7, <1>8, <1>10 DEF Init, References, Holds, Idle
  <1> QED
    BY <1>11, <1>12

-----------------------------------------------------------------------------
(* The types, one lemma for each group of actions. *)

LEMMA Started ==
    ASSUME TypeOK, NEW j \in Job, NEW record \in Session, Start(j, record)
    PROVE  /\ job' \in [Job -> Session] /\ job'[j] = record
           /\ \A k \in Job \ {j} : job'[k] = job[k]
  BY DEF TypeOK, Start

LEMMA Ended ==
    ASSUME TypeOK, NEW j \in Job, End(j)
    PROVE  /\ job' \in [Job -> Session] /\ job'[j] = Idle
           /\ \A k \in Job \ {j} : job'[k] = job[k]
  BY DEF TypeOK, End, Session

\* The tables only grow, and so do the sessions' references stand.
LEMMA ReferencesStay ==
    ASSUME References, TypeOK,
           DOMAIN listing \subseteq DOMAIN listing', DOMAIN alert \subseteq DOMAIN alert',
           \A a \in DOMAIN alert' : alert'[a].listing \in DOMAIN listing',
           \A k \in Job : job'[k] = job[k] \/ Holds(k)'
    PROVE  References'
  <1>1. \A k \in Job : Holds(k)'
    BY DEF References, Holds
  <1> QED
    BY <1>1 DEF References

LEMMA UserTypes ==
    ASSUME TypeOK, References,
           \/ \E u \in User : Signup(u) \/ SetChat(u) \/ Promote(u)
           \/ \E s \in Search, ask \in Ask : Edit(s, ask) \/ \E u \in User : CreateSearch(u, s, ask)
    PROVE  TypeOK' /\ References'
  <1>1. UNCHANGED <<listing, link, alert, job>>
    BY DEF Signup, SetChat, Promote, CreateSearch, Edit, history
  <1>2. account' \in [User -> [exists : BOOLEAN, admin : BOOLEAN, chat : {"none", "own", "legacy"}]]
    <2>0. account \in [User -> [exists : BOOLEAN, admin : BOOLEAN, chat : {"none", "own", "legacy"}]]
      BY DEF TypeOK
    <2>1. CASE \E u \in User : Signup(u)
      BY <2>0, <2>1 DEF Signup
    <2>2. CASE \E u \in User : SetChat(u)
      BY <2>0, <2>2 DEF SetChat
    <2>3. CASE \E u \in User : Promote(u)
      BY <2>0, <2>3 DEF Promote
    <2>4. CASE \E s \in Search, ask \in Ask : Edit(s, ask) \/ \E u \in User : CreateSearch(u, s, ask)
      BY <2>0, <2>4 DEF CreateSearch, Edit
    <2> QED
      BY <2>1, <2>2, <2>3, <2>4
  <1>3. /\ search' \in [Search -> SearchRecord]
        /\ changed' \in SUBSET (Job \X Search) /\ owned' \in SUBSET (User \X Search)
    <2>0. /\ search \in [Search -> SearchRecord] /\ Judged \subseteq Job
          /\ changed \in SUBSET (Job \X Search) /\ owned \in SUBSET (User \X Search)
      BY DEF TypeOK, Judged, Running
    <2>1. CASE \E u \in User : Signup(u) \/ SetChat(u) \/ Promote(u)
      BY <2>0, <2>1 DEF Signup, SetChat, Promote, history
    <2>2. ASSUME NEW s \in Search, NEW ask \in Ask, Edit(s, ask)
          PROVE  /\ search' \in [Search -> SearchRecord]
                 /\ changed' \in SUBSET (Job \X Search) /\ owned' \in SUBSET (User \X Search)
      <3>1. search[s] \in SearchRecord
        BY <2>0
      <3>2. [search[s] EXCEPT !.ask = ask] \in SearchRecord
        BY <3>1 DEF SearchRecord
      <3> QED
        BY <2>0, <2>2, <3>2 DEF Edit
    <2>3. ASSUME NEW s \in Search, NEW ask \in Ask, NEW u \in User, CreateSearch(u, s, ask)
          PROVE  /\ search' \in [Search -> SearchRecord]
                 /\ changed' \in SUBSET (Job \X Search) /\ owned' \in SUBSET (User \X Search)
      <3>1. [state |-> "live", owner |-> u, ask |-> ask] \in SearchRecord
        BY DEF SearchRecord
      <3> QED
        BY <2>0, <2>3, <3>1 DEF CreateSearch
    <2> QED
      BY <2>1, <2>2, <2>3
  <1>4. TypeOK'
    BY <1>1, <1>2, <1>3 DEF TypeOK
  <1> QED
    BY <1>1, <1>4 DEF References, Holds

LEMMA RowTypes ==
    ASSUME TypeOK, References,
           (\E s \in Search : DeleteSearch(s)) \/ \E status \in Terminal : Reset(status)
    PROVE  TypeOK' /\ References'
  <1>1. listing' \in [DOMAIN listing -> Row]
    <2>1. \A r \in DOMAIN listing : listing[r] \in Row
      BY DEF TypeOK
    <2>2. \A r \in DOMAIN listing : [listing[r] EXCEPT !.finder = None] \in Row
      BY <2>1 DEF Row
    <2>3. \A r \in DOMAIN listing : [listing[r] EXCEPT !.status = "pending"] \in Row
      BY <2>1 DEF Row
    <2>4. CASE \E s \in Search : DeleteSearch(s)
      BY <2>1, <2>2, <2>4 DEF DeleteSearch
    <2>5. CASE \E status \in Terminal : Reset(status)
      BY <2>1, <2>3, <2>5 DEF Reset
    <2> QED
      BY <2>4, <2>5
  <1>2. listing' \in Seq(Row) /\ DOMAIN listing' = DOMAIN listing
    BY <1>1, MappedSeq DEF TypeOK
  <1>3. search' \in [Search -> SearchRecord]
    <2>1. CASE \E s \in Search : DeleteSearch(s)
      BY <2>1 DEF TypeOK, SearchRecord, DeleteSearch
    <2>2. CASE \E status \in Terminal : Reset(status)
      BY <2>2 DEF TypeOK, Reset
    <2> QED
      BY <2>1, <2>2
  <1>4. link' \in SUBSET (Search \X Nat)
    BY DEF TypeOK, DeleteSearch, Reset
  <1>5. UNCHANGED <<alert, account, job, changed, owned>>
    BY DEF DeleteSearch, Reset, history
  <1>6. TypeOK'
    BY <1>2, <1>3, <1>4, <1>5 DEF TypeOK
  <1> QED
    BY <1>2, <1>5, <1>6 DEF References, Holds

LEMMA ScanTypes ==
    ASSUME TypeOK, References, NEW j \in Job,
           StartScan(j) \/ \E good \in Good, given \in SUBSET Field : FinishScan(j, good, given)
    PROVE  TypeOK' /\ References'
  <1>1. CASE StartScan(j)
    <2>1. PICK s \in LiveSearches : Start(j, [script |-> "scan", search |-> s, owner |-> search[s].owner,
                                           ask |-> search[s].ask])
      BY <1>1 DEF StartScan
    <2> DEFINE record == [script |-> "scan", search |-> s, owner |-> search[s].owner,
                                           ask |-> search[s].ask]
    <2>2. record \in Session /\ record.script = "scan"
      BY <2>1 DEF TypeOK, SearchRecord, LiveSearches, Session, Scan
    <2>3. job' \in [Job -> Session] /\ job'[j].script = "scan" /\ \A k \in Job \ {j} : job'[k] = job[k]
      BY <2>1, <2>2, Started
    <2>4. UNCHANGED <<tables, history>>
      BY <1>1 DEF StartScan
    <2>5. TypeOK'
      BY <2>3, <2>4 DEF TypeOK, tables, history
    <2> QED
      BY <2>3, <2>4, <2>5 DEF References, Holds, tables, history
  <1>2. CASE \E good \in Good, given \in SUBSET Field : FinishScan(j, good, given)
    <2>1. PICK good \in Good, given \in SUBSET Field : FinishScan(j, good, given)
      BY <1>2
    <2> DEFINE s == job[j].search
               known == {r \in Rows : listing[r].good = good}
               row == IF known = {} THEN Len(listing) + 1 ELSE CHOOSE r \in known : TRUE
    <2>2. s \in Search /\ job[j].owner \in User \cup {None}
      BY <2>1, Kinds DEF FinishScan, Scan
    <2>3. listing' = IF known = {} THEN Append(listing, NewRow(good, s, given)) ELSE listing
      BY <2>1 DEF FinishScan
    <2>4. listing' \in Seq(Row) /\ DOMAIN listing \subseteq DOMAIN listing'
      BY <2>2, <2>3, NewRowType DEF TypeOK
    <2>5. row \in DOMAIN listing' /\ row \in Nat
      <3>1. CASE known = {}
        BY <3>1, <2>3 DEF TypeOK
      <3>2. CASE known # {}
        BY <3>2, <2>3 DEF TypeOK, Rows
      <3> QED
        BY <3>1, <3>2
    <2>6. alert' \in {alert, Append(alert, NewAlert(row, job[j].owner))}
      BY <2>1 DEF FinishScan
    <2> HIDE DEF known, row, s
    <2>7. /\ alert' \in Seq(Alert) /\ DOMAIN alert \subseteq DOMAIN alert'
          /\ \A a \in DOMAIN alert' : alert'[a].listing \in DOMAIN listing'
      <3>1. CASE alert' = alert
        BY <3>1, <2>4 DEF TypeOK, References
      <3>2. CASE alert' = Append(alert, NewAlert(row, job[j].owner))
        <4>1. NewAlert(row, job[j].owner) \in Alert /\ NewAlert(row, job[j].owner).listing = row
          BY <2>2, <2>5, NewAlertType DEF NewAlert
        <4> QED
          BY <3>2, <4>1, <2>4, <2>5 DEF TypeOK, References
      <3> QED
        BY <2>6, <3>1, <3>2
    <2>8. End(j) /\ UNCHANGED <<search, account, changed, owned>>
      BY <2>1 DEF FinishScan, history
    <2>9. link' = link \cup {<<s, row>>}
      BY <2>1 DEF FinishScan, row, known, s
    <2>10. TypeOK'
      BY <2>2, <2>4, <2>5, <2>7, <2>8, <2>9, Ended DEF TypeOK
    <2>11. \A k \in Job : job'[k] = job[k] \/ Holds(k)'
      BY <2>8, Ended DEF Holds, Idle
    <2> QED
      BY <2>2, <2>4, <2>5, <2>7, <2>9, <2>10, <2>11, ReferencesStay
  <1> QED
    BY <1>1, <1>2

\* The actions that only start a session, of those that read the listings.
LEMMA ReadTypes ==
    ASSUME TypeOK, References, NEW j \in Job,
           \/ StartCleanup(j) \/ Judge(j) \/ StartLink(j) \/ StartStamp(j)
           \/ \E unset \in SUBSET Marketplace : StartPass(j, unset)
    PROVE  TypeOK' /\ References'
  <1>1. Rows \subseteq DOMAIN listing /\ Rows \subseteq Nat
    BY DEF Rows, TypeOK
  <1>r. \A r \in DOMAIN listing :
           /\ listing[r].finder \in Search \cup {None} /\ listing[r].field \in [Field -> Nat]
           /\ listing[r].status \in Terminal \cup {"pending", "failed"}
    <2>1. \A r \in DOMAIN listing : listing[r] \in Row
      BY DEF TypeOK
    <2> QED
      BY <2>1 DEF Row
  <1>2. UNCHANGED <<tables, owned>> /\ changed' \subseteq changed
    BY DEF StartCleanup, Judge, StartLink, StartStamp, StartPass, history
  <1> SUFFICES \E record \in Session : /\ job' = [job EXCEPT ![j] = record]
                                       /\ record.script \in {"cleanup", "pass"} => record.rows \subseteq DOMAIN listing
                                       /\ record.script = "pass" => record.rows \subseteq DOMAIN record.copy
                                       /\ record.script = "stamp" => DOMAIN record.user \subseteq DOMAIN alert
    BY <1>2 DEF TypeOK, References, Holds, tables
  <1>3. CASE StartCleanup(j)
    <2> DEFINE record == [script |-> "cleanup", judged |-> FALSE, rows |-> Rows]
    <2>1. record \in Cleanup /\ record.script = "cleanup" /\ record.rows = Rows
      BY <1>1 DEF Cleanup
    <2>2. job' = [job EXCEPT ![j] = record]
      BY <1>3 DEF StartCleanup, Start
    <2>3. record \in Session
      BY <2>1 DEF Session
    <2> HIDE DEF record
    <2> QED
      BY <2>1, <2>2, <2>3, <1>1
  <1>4. CASE Judge(j)
    <2>1. job[j] \in Cleanup
      BY <1>4, Kinds DEF Judge
    <2>2. PICK rows \in SUBSET job[j].rows :
             job' = [job EXCEPT ![j] = [job[j] EXCEPT !.judged = TRUE, !.rows = rows]]
      BY <1>4, <2>1 DEF Judge, Cleanup, TypeOK
    <2> DEFINE record == [job[j] EXCEPT !.judged = TRUE, !.rows = rows]
    <2>3. record \in Cleanup /\ record.rows = rows /\ record.script = "cleanup"
      BY <2>1 DEF Cleanup
    <2>4. rows \subseteq DOMAIN listing
      BY <2>1 DEF References, Holds, Cleanup
    <2>5. record \in Session
      BY <2>3 DEF Session
    <2> HIDE DEF record
    <2> QED
      BY <2>2, <2>3, <2>4, <2>5 DEF record
  <1>5. CASE StartLink(j)
    <2> DEFINE pairs == {<<listing[r].finder, r>> : r \in {k \in Rows : listing[k].finder # None}}
               record == [script |-> "link", pairs |-> pairs]
    <2>1. pairs \subseteq Search \X Nat
      BY <1>1, <1>r
    <2>2. record \in Linking /\ record.script = "link"
      BY <2>1 DEF Linking
    <2>3. job' = [job EXCEPT ![j] = record]
      BY <1>5 DEF StartLink, Start
    <2>4. record \in Session
      BY <2>2 DEF Session
    <2> HIDE DEF record
    <2> QED
      BY <2>2, <2>3, <2>4
  <1>6. CASE StartStamp(j)
    <2> DEFINE resolved == {a \in Alerts : alert[a].user = None /\ Resolve(alert[a].listing) # None}
               users == [a \in resolved |-> Resolve(alert[a].listing)]
               record == [script |-> "stamp", user |-> users]
    <2>1. \A a \in resolved : Resolve(alert[a].listing) \in User
      <3> SUFFICES ASSUME NEW a \in resolved PROVE Resolve(alert[a].listing) \in User
        OBVIOUS
      <3>1. alert[a].listing \in DOMAIN listing /\ Resolve(alert[a].listing) # None
        BY DEF References, Alerts
      <3>2. listing[alert[a].listing].finder \in Search
        BY <1>r, <3>1 DEF Resolve
      <3> QED
        BY <3>1, <3>2 DEF Resolve, TypeOK, SearchRecord
    <2>2. users \in [resolved -> User] /\ resolved \in SUBSET Nat /\ resolved \subseteq DOMAIN alert
      BY <2>1 DEF Alerts, TypeOK
    <2>3. Start(j, record)
      BY <1>6 DEF StartStamp
    <2> HIDE DEF users, resolved
    <2>4. record \in Stamps /\ record.script = "stamp" /\ record.user = users
      BY <2>2 DEF Stamps
    <2>5. record \in Session
      BY <2>4 DEF Session
    <2> HIDE DEF record
    <2> QED
      BY <2>2, <2>3, <2>4, <2>5 DEF Start
  <1>7. CASE \E unset \in SUBSET Marketplace : StartPass(j, unset)
    <2>1. PICK unset \in SUBSET Marketplace : StartPass(j, unset)
      BY <1>7
    <2> DEFINE copy == [r \in Candidates |-> [status |-> listing[r].status, field |-> listing[r].field]]
               record == [script |-> "pass", rows |-> Candidates, unset |-> unset, refused |-> {}, copy |-> copy]
    <2>2. Candidates \subseteq Rows
      BY DEF Candidates
    <2>3. copy \in [Candidates -> Copy]
      BY <2>2, <1>1, <1>r DEF Copy
    <2>4. Start(j, record)
      BY <2>1 DEF StartPass
    <2> HIDE DEF copy
    <2>5. record \in Pass /\ record.script = "pass" /\ record.rows = Candidates /\ record.copy = copy
      <3>1. copy \in UNION {[R -> Copy] : R \in SUBSET Nat}
        BY <2>2, <2>3, <1>1
      <3> QED
        BY <2>2, <3>1, <1>1 DEF Pass
    <2>6. record \in Session
      BY <2>5 DEF Session
    <2> HIDE DEF record
    <2> QED
      BY <2>2, <2>3, <2>4, <2>5, <2>6, <1>1 DEF Start
  <1> QED
    BY <1>3, <1>4, <1>5, <1>6, <1>7

\* The actions that start a session of a user's, or end one unfinished.
LEMMA UserSessionTypes ==
    ASSUME TypeOK, References, NEW j \in Job,
           Abort(j) \/ \E u \in User : StartCutover(j, u) \/ StartPrefer(j, u)
    PROVE  TypeOK' /\ References'
  <1>1. account' \in [User -> [exists : BOOLEAN, admin : BOOLEAN, chat : {"none", "own", "legacy"}]]
    <2>1. account \in [User -> [exists : BOOLEAN, admin : BOOLEAN, chat : {"none", "own", "legacy"}]]
      BY DEF TypeOK
    <2> QED
      BY <2>1 DEF Abort, StartCutover, StartPrefer, tables
  <1>2. UNCHANGED <<search, listing, link, alert, changed, owned>>
    BY DEF Abort, StartCutover, StartPrefer, tables, history
  <1>3. /\ job' \in [Job -> Session] /\ \A k \in Job \ {j} : job'[k] = job[k]
        /\ job'[j].script \notin {"cleanup", "pass", "stamp"}
    <2>1. CASE Abort(j)
      BY <2>1, Ended DEF Abort, Idle
    <2>2. CASE \E u \in User : StartCutover(j, u)
      <3>1. PICK u \in User : StartCutover(j, u)
        BY <2>2
      <3> DEFINE record == [script |-> "cutover", user |-> u, searches |-> Unowned, found |-> {}]
      <3>2. Start(j, record)
        BY <3>1, NoEvidence DEF StartCutover
      <3>3. record \in Cutover
        BY DEF Cutover, Unowned, LiveSearches
      <3> QED
        BY <3>2, <3>3, Started DEF Session
    <2>3. CASE \E u \in User : StartPrefer(j, u)
      <3>1. PICK u \in User : StartPrefer(j, u)
        BY <2>3
      <3>2. Start(j, [script |-> "prefer", user |-> u])
        BY <3>1 DEF StartPrefer
      <3>3. [script |-> "prefer", user |-> u] \in Prefers
        BY DEF Prefers
      <3> QED
        BY <3>2, <3>3, Started DEF Session
    <2> QED
      BY <2>1, <2>2, <2>3
  <1>4. TypeOK'
    BY <1>1, <1>2, <1>3 DEF TypeOK
  <1> QED
    BY <1>2, <1>3, <1>4 DEF References, Holds

\* What a pass does to the row it is at, and to itself.
LEMMA OneRow ==
    ASSUME TypeOK, References, NEW j \in Job, Enrich(j)
    PROVE  \E r \in job[j].rows, refused \in SUBSET Marketplace :
              /\ NextRow(j, r, refused)
              /\ \/ listing' = listing
                 \/ \E status \in Terminal \cup {"failed"},
                       filled \in SUBSET {f \in Field : job[j].copy[r].field[f] = 0} :
                       Write(j, r, status, filled)
  <1>1. job[j] \in Pass /\ job[j].rows \subseteq DOMAIN listing
    BY Kinds DEF Enrich, References, Holds
  <1>2. \A r \in job[j].rows : MarketOf[listing[r].good] \in Marketplace
    <2>1. \A r \in DOMAIN listing : listing[r] \in Row
      BY DEF TypeOK
    <2> QED
      BY <1>1, <2>1, MaintenanceAssumption DEF Row
  <1> DEFINE Writes(r, refused) ==
               /\ NextRow(j, r, refused)
               /\ \/ listing' = listing
                  \/ \E status \in Terminal \cup {"failed"},
                        filled \in SUBSET {f \in Field : job[j].copy[r].field[f] = 0} :
                        Write(j, r, status, filled)
             Gives(r, given) == IF Filled(job[j].copy[r], given) = {} THEN "no_data" ELSE "enriched"
  <1>3. ASSUME NEW r \in job[j].rows, NEW given \in SUBSET Field, Enriched(j, r, given), NextRow(j, r, {})
        PROVE  Writes(r, {})
    <2>1. Write(j, r, Gives(r, given), Filled(job[j].copy[r], given))
      BY <1>3 DEF Enriched
    <2>2. Filled(job[j].copy[r], given) \in SUBSET {f \in Field : job[j].copy[r].field[f] = 0}
      BY DEF Filled
    <2>3. Gives(r, given) \in Terminal \cup {"failed"}
      BY DEF Terminal
    <2> HIDE DEF Gives
    <2> QED
      BY <1>3, <2>1, <2>2, <2>3
  <1>4. PICK r \in job[j].rows :
          \/ NextRow(j, r, {}) /\ listing' = listing
          \/ Write(j, r, "unsupported", {}) /\ NextRow(j, r, {})
          \/ Write(j, r, "failed", {}) /\ NextRow(j, r, {MarketOf[listing[r].good]})
          \/ Write(j, r, "failed", {}) /\ NextRow(j, r, {})
          \/ Write(j, r, "not_found", {}) /\ NextRow(j, r, {})
          \/ \E given \in SUBSET Field : Enriched(j, r, given) /\ NextRow(j, r, {})
    BY DEF Enrich
  <1>5. Writes(r, {}) \/ Writes(r, {MarketOf[listing[r].good]})
    <2>1. "unsupported" \in Terminal /\ "not_found" \in Terminal
      BY DEF Terminal
    <2> QED
      BY <1>3, <1>4, <2>1
  <1>6. {MarketOf[listing[r].good]} \in SUBSET Marketplace /\ {} \in SUBSET Marketplace
    BY <1>2
  <1> HIDE DEF Writes
  <1>7. \E refused \in SUBSET Marketplace : Writes(r, refused)
    BY <1>5, <1>6
  <1> QED
    BY <1>7 DEF Writes

\* A written row changes its status and its fields, and no other row changes.
LEMMA WrittenRow ==
    ASSUME TypeOK, NEW j \in Job, NEW r \in DOMAIN listing,
           NEW status \in Terminal \cup {"failed"}, NEW filled \in SUBSET Field, Write(j, r, status, filled)
    PROVE  /\ listing' \in Seq(Row) /\ DOMAIN listing' = DOMAIN listing
           /\ \A k \in DOMAIN listing \ {r} : listing'[k] = listing[k]
           /\ listing'[r].good = listing[r].good /\ listing'[r].by = listing[r].by
           /\ listing'[r].finder = listing[r].finder /\ listing'[r].live = listing[r].live
           /\ listing'[r].status \in {listing[r].status, status}
           /\ \A f \in Field \ filled : listing'[r].field[f] = listing[r].field[f]
  <1> DEFINE row == Written(listing[r], job[j].copy[r], status, filled)
  <1>1. listing[r] \in Row
    BY DEF TypeOK
  <1> DEFINE st == IF status = job[j].copy[r].status THEN listing[r].status ELSE status
             fields == [f \in Field |-> IF f \in filled THEN listing[r].field[f] + 1 ELSE listing[r].field[f]]
  <1>a. row = [listing[r] EXCEPT !.status = st, !.field = fields]
    BY DEF Written
  <1>b. st \in Terminal \cup {"pending", "failed"} /\ st \in {listing[r].status, status}
    BY <1>1 DEF Row
  <1>c. fields \in [Field -> Nat] /\ \A f \in Field \ filled : fields[f] = listing[r].field[f]
    BY <1>1 DEF Row
  <1> HIDE DEF st, fields, row
  <1>2. /\ row \in Row
        /\ row.good = listing[r].good /\ row.by = listing[r].by
        /\ row.finder = listing[r].finder /\ row.live = listing[r].live
        /\ row.status \in {listing[r].status, status}
        /\ \A f \in Field \ filled : row.field[f] = listing[r].field[f]
    BY <1>1, <1>a, <1>b, <1>c DEF Row
  <1>3. listing' = [listing EXCEPT ![r] = row]
    BY DEF Write, row
  <1>4. listing' \in [DOMAIN listing -> Row] /\ listing'[r] = row
    BY <1>2, <1>3 DEF TypeOK
  <1>5. listing' \in Seq(Row) /\ DOMAIN listing' = DOMAIN listing
    BY <1>4, MappedSeq DEF TypeOK
  <1> QED
    BY <1>2, <1>3, <1>4, <1>5

LEMMA RowLeaves ==
    ASSUME TypeOK, NEW j \in Job, job[j].script = "pass", NEW r, NEW refused \in SUBSET Marketplace,
           NextRow(j, r, refused)
    PROVE  /\ job' \in [Job -> Session] /\ \A k \in Job \ {j} : job'[k] = job[k]
           /\ \/ job'[j] = Idle
              \/ /\ job'[j].script = "pass" /\ job'[j].copy = job[j].copy
                 /\ job'[j].rows = job[j].rows \ {r}
  <1> DEFINE record == [job[j] EXCEPT !.rows = job[j].rows \ {r}, !.refused = job[j].refused \cup refused]
  <1>1. job[j] \in Pass
    BY Kinds
  <1>2. /\ record \in Pass /\ record.script = "pass" /\ record.copy = job[j].copy
        /\ record.rows = job[j].rows \ {r}
    BY <1>1 DEF Pass
  <1>3. record \in Session /\ Idle \in Session
    BY <1>2 DEF Session
  <1>4. job' = [job EXCEPT ![j] = Idle] \/ job' = [job EXCEPT ![j] = record]
    <2>1. CASE job[j].rows = {r}
      BY <2>1 DEF NextRow
    <2>2. CASE job[j].rows # {r}
      BY <2>2 DEF NextRow
    <2> QED
      BY <2>1, <2>2
  <1> HIDE DEF record
  <1> QED
    BY <1>2, <1>3, <1>4 DEF TypeOK

LEMMA PassTypes ==
    ASSUME TypeOK, References, NEW j \in Job, Enrich(j)
    PROVE  TypeOK' /\ References'
  <1>1. PICK r \in job[j].rows, refused \in SUBSET Marketplace :
           /\ NextRow(j, r, refused)
           /\ \/ listing' = listing
              \/ \E status \in Terminal \cup {"failed"},
                    filled \in SUBSET {f \in Field : job[j].copy[r].field[f] = 0} :
                    Write(j, r, status, filled)
    BY OneRow
  <1>2. job[j].script = "pass" /\ UNCHANGED <<search, link, alert, account, history>>
    BY DEF Enrich
  <1>3. r \in DOMAIN listing
    BY <1>2 DEF References, Holds
  <1>4. listing' \in Seq(Row) /\ DOMAIN listing' = DOMAIN listing
    BY <1>1, <1>3, WrittenRow DEF TypeOK
  <1>5. /\ job' \in [Job -> Session] /\ \A k \in Job \ {j} : job'[k] = job[k]
        /\ \/ job'[j] = Idle
           \/ /\ job'[j].script = "pass" /\ job'[j].copy = job[j].copy
              /\ job'[j].rows = job[j].rows \ {r}
    BY <1>1, <1>2, RowLeaves
  <1>6. TypeOK'
    BY <1>2, <1>4, <1>5 DEF TypeOK, history
  <1> QED
    BY <1>2, <1>4, <1>5, <1>6 DEF References, Holds, Idle, history

LEMMA WriteTypes ==
    ASSUME TypeOK, References, NEW j \in Job,
           RemoveRows(j) \/ Assign(j) \/ Prefer(j) \/ Link(j) \/ Stamp(j)
    PROVE  TypeOK' /\ References'
  <1>1. End(j) /\ UNCHANGED changed
    BY DEF RemoveRows, Assign, Prefer, Link, Stamp, history
  <1>2. /\ job' \in [Job -> Session] /\ job'[j] = Idle
        /\ \A k \in Job \ {j} : job'[k] = job[k]
    BY <1>1, Ended
  <1>3. listing' \in Seq(Row) /\ DOMAIN listing' = DOMAIN listing
    <2>0. \A r \in DOMAIN listing : listing[r] \in Row
      BY DEF TypeOK
    <2>1. CASE RemoveRows(j)
      <3>1. \A r \in DOMAIN listing : [listing[r] EXCEPT !.live = FALSE] \in Row
        BY <2>0 DEF Row
      <3>2. listing' \in [DOMAIN listing -> Row]
        BY <2>0, <2>1, <3>1 DEF RemoveRows
      <3> QED
        BY <3>2, MappedSeq DEF TypeOK
    <2>2. CASE Assign(j)
      <3>1. job[j].found = {}
        BY <2>2, Kinds DEF Assign, Cutover
      <3>2. \A r \in DOMAIN listing : Attributed(r, job[j].found) = listing[r]
        BY <3>1 DEF Attributed
      <3>3. listing' \in [DOMAIN listing -> Row]
        BY <2>0, <2>2, <3>2 DEF Assign
      <3> QED
        BY <3>3, MappedSeq DEF TypeOK
    <2>3. CASE Prefer(j) \/ Link(j) \/ Stamp(j)
      BY <2>3 DEF Prefer, Link, Stamp, TypeOK
    <2> QED
      BY <2>1, <2>2, <2>3
  <1>4. /\ alert' \in Seq(Alert) /\ DOMAIN alert' = DOMAIN alert
        /\ \A a \in DOMAIN alert : alert'[a].listing = alert[a].listing
    <2>0. \A a \in DOMAIN alert : alert[a] \in Alert
      BY DEF TypeOK
    <2>1. CASE RemoveRows(j)
      <3>1. \A a \in DOMAIN alert : /\ [alert[a] EXCEPT !.live = FALSE] \in Alert
                                    /\ [alert[a] EXCEPT !.live = FALSE].listing = alert[a].listing
        BY <2>0 DEF Alert
      <3>2. /\ alert' \in [DOMAIN alert -> Alert]
            /\ \A a \in DOMAIN alert : alert'[a].listing = alert[a].listing
        BY <2>0, <2>1, <3>1 DEF RemoveRows
      <3> QED
        BY <3>2, MappedSeq DEF TypeOK
    <2>2. CASE Stamp(j)
      <3>0. job[j].user \in UNION {[A -> User] : A \in SUBSET Nat}
        BY <2>2, Kinds DEF Stamp, Stamps
      <3>1. \A a \in DOMAIN job[j].user : job[j].user[a] \in User
        <4>1. PICK A \in SUBSET Nat : job[j].user \in [A -> User]
          BY <3>0
        <4> QED
          BY <4>1
      <3>2. \A a \in DOMAIN alert : \A u \in User :
               /\ [alert[a] EXCEPT !.user = u] \in Alert
               /\ [alert[a] EXCEPT !.user = u].listing = alert[a].listing
        BY <2>0 DEF Alert
      <3>3. /\ alert' \in [DOMAIN alert -> Alert]
            /\ \A a \in DOMAIN alert : alert'[a].listing = alert[a].listing
        BY <2>0, <2>2, <3>1, <3>2 DEF Stamp
      <3> QED
        BY <3>3, MappedSeq DEF TypeOK
    <2>3. CASE Assign(j) \/ Prefer(j) \/ Link(j)
      BY <2>3 DEF Assign, Prefer, Link, TypeOK
    <2> QED
      BY <2>1, <2>2, <2>3
  <1>5. search' \in [Search -> SearchRecord]
        /\ owned' \in SUBSET (User \X Search)
    <2>1. CASE Assign(j)
      <3>1. job[j].user \in User /\ job[j].searches \subseteq Search
        BY <2>1, Kinds DEF Assign, Cutover
      <3> QED
        BY <2>1, <3>1 DEF Assign, TypeOK, SearchRecord
    <2>2. CASE ~Assign(j)
      BY <2>2 DEF RemoveRows, Prefer, Link, Stamp, TypeOK, history
    <2> QED
      BY <2>1, <2>2
  <1>6. account' \in [User -> [exists : BOOLEAN, admin : BOOLEAN, chat : {"none", "own", "legacy"}]]
    <2>1. account \in [User -> [exists : BOOLEAN, admin : BOOLEAN, chat : {"none", "own", "legacy"}]]
      BY DEF TypeOK
    <2>2. CASE Prefer(j)
      <3>1. job[j].user \in User
        BY <2>2, Kinds DEF Prefer, Prefers
      <3> QED
        BY <2>1, <2>2, <3>1 DEF Prefer
    <2>3. CASE ~Prefer(j)
      BY <2>1, <2>3 DEF RemoveRows, Assign, Link, Stamp
    <2> QED
      BY <2>2, <2>3
  <1>7. link' \in SUBSET (Search \X Nat)
    <2>1. CASE Link(j)
      <3>1. job[j].pairs \subseteq Search \X Nat
        BY <2>1, Kinds DEF Link, Linking
      <3> QED
        BY <2>1, <3>1 DEF Link, TypeOK
    <2>2. CASE ~Link(j)
      BY <2>2 DEF RemoveRows, Assign, Prefer, Stamp, TypeOK
    <2> QED
      BY <2>1, <2>2
  <1>8. TypeOK'
    BY <1>1, <1>2, <1>3, <1>4, <1>5, <1>6, <1>7 DEF TypeOK
  <1> QED
    BY <1>1, <1>2, <1>3, <1>4, <1>8 DEF References, Holds, Idle

LEMMA TypeStep == TypeOK /\ References /\ [Next]_vars => TypeOK' /\ References'
  <1> SUFFICES ASSUME TypeOK, References, [Next]_vars PROVE TypeOK' /\ References'
    OBVIOUS
  <1>1. CASE \/ \E u \in User : Signup(u) \/ SetChat(u) \/ Promote(u)
         \/ \E s \in Search, ask \in Ask : Edit(s, ask) \/ \E u \in User : CreateSearch(u, s, ask)
    BY <1>1, UserTypes
  <1>2. CASE (\E s \in Search : DeleteSearch(s)) \/ \E status \in Terminal : Reset(status)
    BY <1>2, RowTypes
  <1>3. ASSUME NEW j \in Job,
               StartScan(j) \/ \E good \in Good, given \in SUBSET Field : FinishScan(j, good, given)
        PROVE  TypeOK' /\ References'
    BY <1>3, ScanTypes
  <1>4. ASSUME NEW j \in Job,
               \/ StartCleanup(j) \/ Judge(j) \/ StartLink(j) \/ StartStamp(j)
               \/ \E unset \in SUBSET Marketplace : StartPass(j, unset)
        PROVE  TypeOK' /\ References'
    BY <1>4, ReadTypes
  <1>5. ASSUME NEW j \in Job, Abort(j) \/ \E u \in User : StartCutover(j, u) \/ StartPrefer(j, u)
        PROVE  TypeOK' /\ References'
    BY <1>5, UserSessionTypes
  <1>6. ASSUME NEW j \in Job, Enrich(j) PROVE TypeOK' /\ References'
    BY <1>6, PassTypes
  <1>7. ASSUME NEW j \in Job, RemoveRows(j) \/ Assign(j) \/ Prefer(j) \/ Link(j) \/ Stamp(j)
        PROVE  TypeOK' /\ References'
    BY <1>7, WriteTypes
  <1>8. CASE UNCHANGED vars
    BY <1>8 DEF vars, tables, history, TypeOK, References, Holds
  <1> QED
    BY <1>1, <1>2, <1>3, <1>4, <1>5, <1>6, <1>7, <1>8 DEF Next

-----------------------------------------------------------------------------
(* What a step may do to each table, whoever takes it. *)

\* The actions that write the listings.
ListingWriters ==
    \/ \E s \in Search : DeleteSearch(s)
    \/ \E status \in Terminal : Reset(status)
    \/ \E j \in Job : \/ \E good \in Good, given \in SUBSET Field : FinishScan(j, good, given)
                      \/ RemoveRows(j) \/ Enrich(j) \/ Assign(j)

\* Those that write the alerts.
AlertWriters ==
    \E j \in Job : \/ \E good \in Good, given \in SUBSET Field : FinishScan(j, good, given)
                   \/ RemoveRows(j) \/ Stamp(j)

\* Those that write the searches, and what is remembered of them.
SearchWriters ==
    \/ \E s \in Search : DeleteSearch(s)
    \/ \E s \in Search, ask \in Ask : Edit(s, ask) \/ \E u \in User : CreateSearch(u, s, ask)
    \/ \E j \in Job : Assign(j)

\* Those that write the users.
AccountWriters ==
    \/ \E u \in User : Signup(u) \/ SetChat(u) \/ Promote(u)
    \/ \E j \in Job : Prefer(j) \/ \E u \in User : StartCutover(j, u)

\* Session j goes on to something else than its end.
GoesOn(j) ==
    \/ StartScan(j) \/ StartCleanup(j) \/ Judge(j) \/ StartLink(j) \/ StartStamp(j) \/ Enrich(j)
    \/ \E unset \in SUBSET Marketplace : StartPass(j, unset)
    \/ \E u \in User : StartCutover(j, u) \/ StartPrefer(j, u)

\* Whoever writes a table is one of its writers.
Accounted ==
    /\ listing' = listing \/ ListingWriters
    /\ alert' = alert \/ AlertWriters
    /\ UNCHANGED <<search, owned>> \/ SearchWriters
    /\ changed' = changed \/ SearchWriters \/ \E j \in Job : Judge(j)
    /\ account' = account \/ AccountWriters

LEMMA Writers == [Next]_vars => Accounted
  <1> SUFFICES ASSUME [Next]_vars PROVE Accounted
    OBVIOUS
  <1>1. ASSUME NEW u \in User, Signup(u) \/ SetChat(u) \/ Promote(u) PROVE Accounted
    BY <1>1 DEF Accounted, Signup, SetChat, Promote, AccountWriters, history
  <1>2. ASSUME NEW s \in Search, NEW ask \in Ask, Edit(s, ask) \/ \E u \in User : CreateSearch(u, s, ask)
        PROVE  Accounted
    BY <1>2 DEF Accounted, CreateSearch, Edit, SearchWriters
  <1>3. ASSUME NEW s \in Search, DeleteSearch(s) PROVE Accounted
    BY <1>3 DEF Accounted, DeleteSearch, SearchWriters, ListingWriters, history
  <1>4. ASSUME NEW status \in Terminal, Reset(status) PROVE Accounted
    BY <1>4 DEF Accounted, Reset, ListingWriters, history
  <1>5. ASSUME NEW j \in Job, NEW good \in Good, NEW given \in SUBSET Field, FinishScan(j, good, given)
        PROVE  Accounted
    BY <1>5 DEF Accounted, FinishScan, ListingWriters, AlertWriters, history
  <1>6. ASSUME NEW j \in Job, RemoveRows(j) PROVE Accounted
    BY <1>6 DEF Accounted, RemoveRows, ListingWriters, AlertWriters, history
  <1>7. ASSUME NEW j \in Job, Enrich(j) PROVE Accounted
    BY <1>7 DEF Accounted, Enrich, ListingWriters, history
  <1>8. ASSUME NEW j \in Job, Assign(j) PROVE Accounted
    BY <1>8 DEF Accounted, Assign, ListingWriters, SearchWriters
  <1>9. ASSUME NEW j \in Job, Stamp(j) PROVE Accounted
    BY <1>9 DEF Accounted, Stamp, AlertWriters, history
  <1>10. ASSUME NEW j \in Job, Prefer(j) PROVE Accounted
    BY <1>10 DEF Accounted, Prefer, AccountWriters, history
  <1>11. ASSUME NEW j \in Job, Link(j) \/ Abort(j) PROVE Accounted
    BY <1>11 DEF Accounted, Link, Abort, tables, history
  <1>12. ASSUME NEW j \in Job, NEW u \in User, StartCutover(j, u) \/ StartPrefer(j, u) PROVE Accounted
    BY <1>12 DEF Accounted, StartCutover, StartPrefer, AccountWriters, tables, history
  <1>13. ASSUME NEW j \in Job, StartScan(j) \/ StartCleanup(j) \/ Judge(j) \/ StartLink(j) \/ StartStamp(j)
         PROVE  Accounted
    <2>1. UNCHANGED <<tables, owned>> /\ (changed' = changed \/ Judge(j))
      BY <1>13 DEF Accounted, StartScan, StartCleanup, Judge, StartLink, StartStamp, history
    <2> QED
      BY <2>1 DEF Accounted, tables
  <1>14. ASSUME NEW j \in Job, NEW unset \in SUBSET Marketplace, StartPass(j, unset) PROVE Accounted
    BY <1>14 DEF Accounted, StartPass, tables
  <1>15. CASE UNCHANGED vars
    BY <1>15 DEF Accounted, vars, tables, history
  <1> QED
    <2>1. ASSUME NEW j \in Job,
                 \/ StartScan(j) \/ \E good \in Good, given \in SUBSET Field : FinishScan(j, good, given)
                 \/ StartCleanup(j) \/ Judge(j) \/ RemoveRows(j)
                 \/ (\E unset \in SUBSET Marketplace : StartPass(j, unset)) \/ Enrich(j)
          PROVE  Accounted
      BY <1>5, <1>6, <1>7, <1>13, <1>14, <2>1
    <2>2. ASSUME NEW j \in Job,
                 \/ (\E u \in User : StartCutover(j, u) \/ StartPrefer(j, u)) \/ Assign(j) \/ Prefer(j)
                 \/ StartLink(j) \/ Link(j) \/ StartStamp(j) \/ Stamp(j)
                 \/ Abort(j)
          PROVE  Accounted
      BY <1>8, <1>9, <1>10, <1>11, <1>12, <1>13, <2>2
    <2>3. CASE \/ \E u \in User : Signup(u) \/ SetChat(u) \/ Promote(u)
             \/ \E s \in Search, ask \in Ask : Edit(s, ask) \/ \E u \in User : CreateSearch(u, s, ask)
      BY <1>1, <1>2, <2>3
    <2>4. CASE (\E s \in Search : DeleteSearch(s)) \/ \E status \in Terminal : Reset(status)
      BY <1>3, <1>4, <2>4
    <2> QED
      BY <1>15, <2>1, <2>2, <2>3, <2>4 DEF Next

\* The history is not taken back, but for what a cleanup that judges only now
\* would have missed.
LEMMA HistoryGrows ==
    ASSUME [Next]_vars
    PROVE  /\ owned \subseteq owned' /\ contended \subseteq contended'
           /\ \A p \in changed : p \in changed' \/ p[1] \notin Judged
  <1>1. owned \subseteq owned'
    BY Writers DEF Accounted, SearchWriters, DeleteSearch, CreateSearch, Edit, Assign, history
  <1>2. \A p \in changed : p \in changed' \/ p[1] \notin Judged
    BY Writers DEF Accounted, SearchWriters, DeleteSearch, CreateSearch, Edit, Assign, Judge, Judged, history
  <1>3. contended \subseteq contended'
    <2>1. CASE \/ \E u \in User : Signup(u) \/ SetChat(u) \/ Promote(u)
             \/ \E s \in Search, ask \in Ask : Edit(s, ask) \/ \E u \in User : CreateSearch(u, s, ask)
      BY <2>1 DEF Signup, SetChat, Promote, CreateSearch, Edit, history
    <2>2. CASE (\E s \in Search : DeleteSearch(s)) \/ \E status \in Terminal : Reset(status)
      BY <2>2 DEF DeleteSearch, Reset, history
    <2>3. ASSUME NEW j \in Job, StartScan(j) \/ StartCleanup(j) \/ Judge(j) \/ StartLink(j) \/ StartStamp(j)
          PROVE  contended \subseteq contended'
      BY <2>3 DEF StartScan, StartCleanup, Judge, StartLink, StartStamp, history
    <2>4. ASSUME NEW j \in Job,
                 \/ \E good \in Good, given \in SUBSET Field : FinishScan(j, good, given)
                 \/ RemoveRows(j) \/ Enrich(j) \/ Assign(j) \/ Prefer(j)
          PROVE  contended \subseteq contended'
      BY <2>4 DEF FinishScan, RemoveRows, Enrich, Assign, Prefer, history
    <2>5. ASSUME NEW j \in Job,
                 \/ Link(j) \/ Stamp(j) \/ Abort(j) \/ (\E u \in User : StartCutover(j, u) \/ StartPrefer(j, u))
                 \/ \E unset \in SUBSET Marketplace : StartPass(j, unset)
          PROVE  contended \subseteq contended'
      BY <2>5 DEF Link, Stamp, Abort, StartCutover, StartPrefer, StartPass, history
    <2>6. CASE UNCHANGED vars
      BY <2>6 DEF vars, history
    <2> QED
      BY <2>1, <2>2, <2>3, <2>4, <2>5, <2>6 DEF Next
  <1> QED
    BY <1>1, <1>2, <1>3

\* A session stays what it is, ends, or goes on.
LEMMA SessionSteps ==
    ASSUME TypeOK, [Next]_vars, NEW j \in Job
    PROVE  job'[j] = job[j] \/ job'[j] = Idle \/ GoesOn(j)
  <1>1. CASE UNCHANGED job
    BY <1>1
  <1>2. CASE \E k \in Job : End(k)
    BY <1>2 DEF End, TypeOK
  <1>3. CASE \E k \in Job : GoesOn(k)
    <2>1. PICK k \in Job : GoesOn(k)
      BY <1>3
    <2>2. CASE k # j
      <3>1. CASE Enrich(k)
        <4>1. PICK r, refused : NextRow(k, r, refused)
          BY <3>1 DEF Enrich
        <4> QED
          BY <4>1, <2>2 DEF NextRow, TypeOK
      <3>2. CASE ~Enrich(k)
        BY <3>2, <2>1, <2>2 DEF GoesOn, StartScan, StartCleanup, Judge, StartLink, StartStamp, StartPass,
                                StartCutover, StartPrefer, Start, TypeOK
      <3> QED
        BY <3>1, <3>2
    <2> QED
      BY <2>1, <2>2
  <1>4. UNCHANGED job \/ (\E k \in Job : End(k)) \/ \E k \in Job : GoesOn(k)
    <2>1. CASE \/ \E u \in User : Signup(u) \/ SetChat(u) \/ Promote(u)
             \/ \E s \in Search, ask \in Ask : Edit(s, ask) \/ \E u \in User : CreateSearch(u, s, ask)
      BY <2>1 DEF Signup, SetChat, Promote, CreateSearch, Edit
    <2>2. CASE (\E s \in Search : DeleteSearch(s)) \/ \E status \in Terminal : Reset(status)
      BY <2>2 DEF DeleteSearch, Reset
    <2>3. ASSUME NEW k \in Job,
                 \/ \E good \in Good, given \in SUBSET Field : FinishScan(k, good, given)
                 \/ RemoveRows(k) \/ Assign(k) \/ Prefer(k) \/ Link(k) \/ Stamp(k) \/ Abort(k)
          PROVE  End(k)
      BY <2>3 DEF FinishScan, RemoveRows, Assign, Prefer, Link, Stamp, Abort
    <2>4. CASE UNCHANGED vars
      BY <2>4 DEF vars
    <2> QED
      BY <2>1, <2>2, <2>3, <2>4 DEF Next, GoesOn
  <1> QED
    BY <1>1, <1>2, <1>3, <1>4

\* A listing stays what it is, may lose its finder, and does not come back; a
\* new one is of the search that found it.
RowsGrow ==
    /\ DOMAIN listing \subseteq DOMAIN listing'
    /\ \A r \in DOMAIN listing :
          /\ listing'[r].good = listing[r].good /\ listing'[r].by = listing[r].by
          /\ listing'[r].live => listing[r].live
          /\ listing'[r].finder \in {listing[r].finder, None}
    /\ \A r \in DOMAIN listing' \ DOMAIN listing : listing'[r].finder = listing'[r].by

\* Session j is a pass that is done with row r, and has filled what was empty.
FilledBy(j, r) ==
    /\ job[j].script = "pass" /\ r \in job[j].rows
    /\ job'[j] = Idle \/ (job'[j].script = "pass" /\ r \notin job'[j].rows)
    /\ \A f \in Field : job[j].copy[r].field[f] # 0 => listing'[r].field[f] = listing[r].field[f]

\* Only a pass fills fields or settles a status.
FieldsStay ==
    \A r \in DOMAIN listing :
        \/ listing'[r].field = listing[r].field /\ listing'[r].status \in {listing[r].status, "pending"}
        \/ \E j \in Job : FilledBy(j, r)

\* Only the cleanup removes listings, those it has judged.
RowsGo ==
    \A r \in DOMAIN listing : listing[r].live /\ ~listing'[r].live =>
        \E j \in Judged : r \in job[j].rows /\ job'[j] = Idle

LEMMA RowsStep ==
    ASSUME TypeOK, References, [Next]_vars
    PROVE  RowsGrow /\ FieldsStay /\ RowsGo
  <1>0. \A r \in DOMAIN listing : listing[r] \in Row
    BY DEF TypeOK
  <1>1. CASE listing' = listing
    BY <1>1 DEF RowsGrow, FieldsStay, RowsGo
  <1>2. CASE \E s \in Search : DeleteSearch(s)
    <2>1. PICK s \in Search : DeleteSearch(s)
      BY <1>2
    <2>2. DOMAIN listing' = DOMAIN listing
      BY <2>1 DEF DeleteSearch
    <2>3. \A r \in DOMAIN listing : listing'[r] \in {listing[r], [listing[r] EXCEPT !.finder = None]}
      BY <2>1 DEF DeleteSearch
    <2>4. \A r \in DOMAIN listing :
             /\ listing'[r].good = listing[r].good /\ listing'[r].by = listing[r].by
             /\ listing'[r].live = listing[r].live /\ listing'[r].finder \in {listing[r].finder, None}
             /\ listing'[r].field = listing[r].field /\ listing'[r].status = listing[r].status
      BY <1>0, <2>3 DEF Row
    <2> QED
      BY <2>2, <2>4 DEF RowsGrow, FieldsStay, RowsGo
  <1>3. CASE \E status \in Terminal : Reset(status)
    <2>1. PICK status \in Terminal : Reset(status)
      BY <1>3
    <2>2. DOMAIN listing' = DOMAIN listing
      BY <2>1 DEF Reset
    <2>3. \A r \in DOMAIN listing : listing'[r] \in {listing[r], [listing[r] EXCEPT !.status = "pending"]}
      BY <2>1 DEF Reset
    <2>4. \A r \in DOMAIN listing :
             /\ listing'[r].good = listing[r].good /\ listing'[r].by = listing[r].by
             /\ listing'[r].live = listing[r].live /\ listing'[r].finder = listing[r].finder
             /\ listing'[r].field = listing[r].field /\ listing'[r].status \in {listing[r].status, "pending"}
      BY <1>0, <2>3 DEF Row
    <2> QED
      BY <2>2, <2>4 DEF RowsGrow, FieldsStay, RowsGo
  <1>4. ASSUME NEW j \in Job, NEW good \in Good, NEW given \in SUBSET Field, FinishScan(j, good, given)
        PROVE  RowsGrow /\ FieldsStay /\ RowsGo
    <2> DEFINE row == NewRow(good, job[j].search, given)
    <2>1. listing' \in {listing, Append(listing, row)}
      BY <1>4 DEF FinishScan
    <2>2. row.finder = row.by
      BY DEF NewRow
    <2> HIDE DEF row
    <2>3. CASE listing' = Append(listing, row)
      <3>1. /\ DOMAIN listing' = DOMAIN listing \cup {Len(listing) + 1}
            /\ \A r \in DOMAIN listing : listing'[r] = listing[r]
            /\ listing'[Len(listing) + 1] = row
        BY <2>3 DEF TypeOK
      <3> QED
        BY <2>2, <3>1 DEF RowsGrow, FieldsStay, RowsGo
    <2> QED
      BY <1>1, <2>1, <2>3
  <1>5. ASSUME NEW j \in Job, RemoveRows(j)
        PROVE  RowsGrow /\ FieldsStay /\ RowsGo
    <2>1. DOMAIN listing' = DOMAIN listing
      BY <1>5 DEF RemoveRows
    <2>2. \A r \in DOMAIN listing :
             IF r \in job[j].rows THEN listing'[r] = [listing[r] EXCEPT !.live = FALSE]
                                  ELSE listing'[r] = listing[r]
      BY <1>5 DEF RemoveRows
    <2>3. \A r \in DOMAIN listing :
             /\ listing'[r].good = listing[r].good /\ listing'[r].by = listing[r].by
             /\ listing'[r].finder = listing[r].finder
             /\ listing'[r].field = listing[r].field /\ listing'[r].status = listing[r].status
             /\ IF r \in job[j].rows THEN ~listing'[r].live ELSE listing'[r].live = listing[r].live
      BY <1>0, <2>2 DEF Row
    <2>4. j \in Judged /\ job'[j] = Idle
      BY <1>5 DEF RemoveRows, Judged, Running, End, TypeOK
    <2>5. RowsGo
      BY <2>3, <2>4 DEF RowsGo
    <2>6. \A r \in DOMAIN listing : listing'[r].live => listing[r].live
      BY <2>3
    <2> QED
      BY <2>1, <2>3, <2>5, <2>6 DEF RowsGrow, FieldsStay
  <1>6. ASSUME NEW j \in Job, Enrich(j)
        PROVE  RowsGrow /\ FieldsStay /\ RowsGo
    <2>1. PICK r \in job[j].rows, refused \in SUBSET Marketplace :
             /\ NextRow(j, r, refused)
             /\ \/ listing' = listing
                \/ \E status \in Terminal \cup {"failed"},
                      filled \in SUBSET {f \in Field : job[j].copy[r].field[f] = 0} :
                      Write(j, r, status, filled)
      BY <1>6, OneRow
    <2>2. job[j].script = "pass"
      BY <1>6 DEF Enrich
    <2>3. CASE \E status \in Terminal \cup {"failed"},
                  filled \in SUBSET {f \in Field : job[j].copy[r].field[f] = 0} :
                  Write(j, r, status, filled)
      <3>1. PICK status \in Terminal \cup {"failed"},
                 filled \in SUBSET {f \in Field : job[j].copy[r].field[f] = 0} :
                 Write(j, r, status, filled)
        BY <2>3
      <3>2. r \in DOMAIN listing /\ filled \subseteq Field
        BY <2>2 DEF References, Holds
      <3>3. /\ DOMAIN listing' = DOMAIN listing
            /\ \A k \in DOMAIN listing \ {r} : listing'[k] = listing[k]
            /\ listing'[r].good = listing[r].good /\ listing'[r].by = listing[r].by
            /\ listing'[r].finder = listing[r].finder /\ listing'[r].live = listing[r].live
            /\ \A f \in Field \ filled : listing'[r].field[f] = listing[r].field[f]
        BY <3>1, <3>2, WrittenRow
      <3>4. job'[j] = Idle \/ (job'[j].script = "pass" /\ job'[j].rows = job[j].rows \ {r})
        BY <2>1, <2>2, RowLeaves
      <3>5. FilledBy(j, r)
        BY <2>2, <3>1, <3>3, <3>4 DEF FilledBy
      <3>6. RowsGrow /\ RowsGo
        BY <3>2, <3>3 DEF RowsGrow, RowsGo
      <3>7. FieldsStay
        BY <3>3, <3>5 DEF FieldsStay
      <3> QED
        BY <3>6, <3>7
    <2> QED
      BY <1>1, <2>1, <2>3
  <1>7. ASSUME NEW j \in Job, Assign(j)
        PROVE  RowsGrow /\ FieldsStay /\ RowsGo
    <2>1. job[j].found = {}
      BY <1>7, Kinds DEF Assign, Cutover
    <2>2. \A r \in DOMAIN listing : Attributed(r, job[j].found) = listing[r]
      BY <2>1 DEF Attributed
    <2>3. DOMAIN listing' = DOMAIN listing /\ \A r \in DOMAIN listing : listing'[r] = listing[r]
      BY <1>7, <2>2 DEF Assign
    <2> QED
      BY <2>3 DEF RowsGrow, FieldsStay, RowsGo
  <1>8. listing' = listing \/ ListingWriters
    BY Writers DEF Accounted
  <1> QED
    BY <1>1, <1>2, <1>3, <1>4, <1>5, <1>6, <1>7, <1>8 DEF ListingWriters

\* The user that session j has resolved for alert a.
StampedBy(j, a) ==
    job[j].script = "stamp" /\ a \in DOMAIN job[j].user /\ alert'[a].user = job[j].user[a]

\* An alert stays what it is and does not come back; its user is changed by a
\* stamping only.  A new one is the only one of its user and listing, if it has
\* a user.
AlertsGrow ==
    /\ DOMAIN alert \subseteq DOMAIN alert'
    /\ \A a \in DOMAIN alert :
          /\ alert'[a].listing = alert[a].listing /\ alert'[a].unowned = alert[a].unowned
          /\ alert'[a].live => alert[a].live
          /\ alert'[a].user = alert[a].user \/ \E j \in Job : StampedBy(j, a)
    /\ \A a \in DOMAIN alert' \ DOMAIN alert :
          /\ a = Len(alert) + 1
          /\ alert'[a].unowned = (alert'[a].user = None)
          /\ alert'[a].user # None =>
                \A b \in Alerts : <<alert[b].user, alert[b].listing>> # <<alert'[a].user, alert'[a].listing>>

LEMMA AlertsStep ==
    ASSUME TypeOK, [Next]_vars
    PROVE  AlertsGrow
  <1>0. \A a \in DOMAIN alert : alert[a] \in Alert
    BY DEF TypeOK
  <1>1. CASE alert' = alert
    BY <1>1 DEF AlertsGrow
  <1>2. ASSUME NEW j \in Job, NEW good \in Good, NEW given \in SUBSET Field, FinishScan(j, good, given)
        PROVE  AlertsGrow
    <2>1. PICK row : alert' = alert
                     \/ (alert' = Append(alert, NewAlert(row, job[j].owner)) /\ Enqueues(job[j].owner, row))
      BY <1>2 DEF FinishScan
    <2>2. CASE alert' = Append(alert, NewAlert(row, job[j].owner)) /\ Enqueues(job[j].owner, row)
      <3> DEFINE new == NewAlert(row, job[j].owner)
      <3>1. new.unowned = (new.user = None) /\ new.user = job[j].owner /\ new.listing = row
        BY DEF NewAlert
      <3>2. /\ DOMAIN alert' = DOMAIN alert \cup {Len(alert) + 1}
            /\ \A a \in DOMAIN alert : alert'[a] = alert[a]
            /\ alert'[Len(alert) + 1] = new
        BY <2>2 DEF TypeOK
      <3>3. job[j].owner # None =>
               \A b \in Alerts : <<alert[b].user, alert[b].listing>> # <<job[j].owner, row>>
        BY <2>2 DEF Enqueues, AlertsOf
      <3> HIDE DEF new
      <3> QED
        BY <3>1, <3>2, <3>3 DEF AlertsGrow
    <2> QED
      BY <1>1, <2>1, <2>2
  <1>3. ASSUME NEW j \in Job, RemoveRows(j) PROVE AlertsGrow
    <2>1. DOMAIN alert' = DOMAIN alert
      BY <1>3 DEF RemoveRows
    <2>2. \A a \in DOMAIN alert : alert'[a] \in {alert[a], [alert[a] EXCEPT !.live = FALSE]}
      BY <1>3 DEF RemoveRows
    <2>3. \A a \in DOMAIN alert :
             /\ alert'[a].listing = alert[a].listing /\ alert'[a].unowned = alert[a].unowned
             /\ alert'[a].live => alert[a].live
             /\ alert'[a].user = alert[a].user
      BY <1>0, <2>2 DEF Alert
    <2> QED
      BY <2>1, <2>3 DEF AlertsGrow
  <1>4. ASSUME NEW j \in Job, Stamp(j) PROVE AlertsGrow
    <2>0. job[j].script = "stamp"
      BY <1>4 DEF Stamp
    <2>1. DOMAIN alert' = DOMAIN alert
      BY <1>4 DEF Stamp
    <2>2. \A a \in DOMAIN alert :
             IF a \in DOMAIN job[j].user THEN alert'[a] = [alert[a] EXCEPT !.user = job[j].user[a]]
                                         ELSE alert'[a] = alert[a]
      BY <1>4, <2>0 DEF Stamp
    <2>3. \A a \in DOMAIN alert :
             /\ alert'[a].listing = alert[a].listing /\ alert'[a].unowned = alert[a].unowned
             /\ alert'[a].live = alert[a].live
             /\ IF a \in DOMAIN job[j].user THEN alert'[a].user = job[j].user[a]
                                            ELSE alert'[a].user = alert[a].user
      BY <1>0, <2>2 DEF Alert
    <2>4. \A a \in DOMAIN alert : alert'[a].user = alert[a].user \/ StampedBy(j, a)
      BY <2>0, <2>3 DEF StampedBy
    <2> QED
      BY <2>1, <2>3, <2>4 DEF AlertsGrow
  <1>5. alert' = alert \/ AlertWriters
    BY Writers DEF Accounted
  <1> QED
    BY <1>1, <1>2, <1>3, <1>4, <1>5 DEF AlertWriters

\* A cutover that ends had read search s ownerless.
GivenBy(j, s) == job[j].script = "cutover" /\ s \in job[j].searches /\ job'[j] = Idle

\* A search goes from new to live to gone; only its creation and the cutover
\* give it an owner.
SearchesGrow ==
    \A s \in Search :
        /\ search[s].state # "new" =>
              search'[s].state # "new" /\ (search'[s].state = "live" => search[s].state = "live")
        /\ search'[s].state = "live" =>
              \/ search[s].state = "live" /\ search'[s].ask = search[s].ask
              \/ \A j \in Judged : <<j, s>> \in changed'
        /\ \/ search'[s].owner = search[s].owner
           \/ search'[s].owner = None /\ search'[s].state = "gone"
           \/ /\ <<search'[s].owner, s>> \in owned'
              /\ search[s].state = "new" \/ \E j \in Job : GivenBy(j, s)

LEMMA SearchesStep ==
    ASSUME TypeOK, [Next]_vars
    PROVE  SearchesGrow
  <1>0. \A s \in Search : search[s].state \in {"new", "live", "gone"}
    BY DEF TypeOK, SearchRecord
  <1>1. CASE search' = search
    BY <1>1 DEF SearchesGrow
  <1>2. ASSUME NEW s \in Search, DeleteSearch(s) PROVE SearchesGrow
    <2>1. search[s].state = "live" /\ search'[s].state = "gone" /\ search'[s].owner = None
      BY <1>2 DEF DeleteSearch, LiveSearches, TypeOK
    <2>2. \A t \in Search \ {s} : search'[t] = search[t]
      BY <1>2 DEF DeleteSearch, TypeOK
    <2> QED
      BY <2>1, <2>2 DEF SearchesGrow
  <1>3. ASSUME NEW s \in Search, NEW ask \in Ask, Edit(s, ask) \/ \E u \in User : CreateSearch(u, s, ask)
        PROVE  SearchesGrow
    <2>1. /\ search'[s].state = "live" /\ \A j \in Judged : <<j, s>> \in changed'
          /\ \/ search[s].state = "live" /\ search'[s].owner = search[s].owner
             \/ search[s].state = "new" /\ <<search'[s].owner, s>> \in owned'
      BY <1>3 DEF CreateSearch, Edit, LiveSearches, TypeOK, SearchRecord
    <2>2. \A t \in Search \ {s} : search'[t] = search[t]
      BY <1>3 DEF CreateSearch, Edit, TypeOK
    <2> QED
      BY <1>0, <2>1, <2>2 DEF SearchesGrow
  <1>4. ASSUME NEW j \in Job, Assign(j) PROVE SearchesGrow
    <2>1. job[j].script = "cutover" /\ job'[j] = Idle
      BY <1>4, Ended DEF Assign
    <2>2. \A s \in Search \ job[j].searches : search'[s] = search[s]
      BY <1>4 DEF Assign
    <2>3. \A s \in job[j].searches : s \in Search =>
             /\ search'[s].state = search[s].state /\ search'[s].ask = search[s].ask
             /\ <<search'[s].owner, s>> \in owned' /\ GivenBy(j, s)
      BY <1>4, <2>1 DEF Assign, TypeOK, SearchRecord, GivenBy
    <2> QED
      BY <2>2, <2>3 DEF SearchesGrow
  <1>5. search' = search \/ SearchWriters
    BY Writers DEF Accounted
  <1> QED
    BY <1>1, <1>2, <1>3, <1>4, <1>5 DEF SearchWriters

\* A chat set by hand is replaced by the backfill of its user only; one that
\* is set is told to the backfills of its user.
AccountsKeep ==
    \A u \in User :
        /\ account[u].chat = "own" =>
              account'[u].chat = "own" \/ \E j \in Job : job[j].script = "prefer" /\ job[j].user = u
        /\ account'[u].chat = "own" /\ account[u].chat # "own" =>
              \A j \in Running("prefer") : job[j].user = u => <<"user", u>> \in contended'

LEMMA AccountsStep ==
    ASSUME TypeOK, [Next]_vars
    PROVE  AccountsKeep
  <1>0. account \in [User -> [exists : BOOLEAN, admin : BOOLEAN, chat : {"none", "own", "legacy"}]]
    BY DEF TypeOK
  <1>1. CASE account' = account
    BY <1>1 DEF AccountsKeep
  <1>2. ASSUME NEW u \in User, Signup(u) \/ Promote(u) \/ \E j \in Job : StartCutover(j, u)
        PROVE  AccountsKeep
    <2>1. \A v \in User : account'[v].chat = account[v].chat
      <3>1. CASE Signup(u)
        BY <1>0, <3>1 DEF Signup
      <3>2. CASE Promote(u)
        BY <1>0, <3>2 DEF Promote
      <3>3. CASE \E j \in Job : StartCutover(j, u)
        BY <1>0, <3>3 DEF StartCutover
      <3> QED
        BY <1>2, <3>1, <3>2, <3>3
    <2> QED
      BY <2>1 DEF AccountsKeep
  <1>3. ASSUME NEW u \in User, SetChat(u) PROVE AccountsKeep
    <2>1. \A v \in User \ {u} : account'[v] = account[v]
      BY <1>0, <1>3 DEF SetChat
    <2>2. account'[u].chat = "own"
      BY <1>0, <1>3 DEF SetChat
    <2>3. \A j \in Running("prefer") : job[j].user = u => <<"user", u>> \in contended'
      BY <1>3 DEF SetChat
    <2> QED
      BY <2>1, <2>2, <2>3 DEF AccountsKeep
  <1>4. ASSUME NEW j \in Job, Prefer(j) PROVE AccountsKeep
    <2>1. job[j].user \in User /\ job[j].script = "prefer"
      BY <1>4, Kinds DEF Prefer, Prefers
    <2>2. \A v \in User \ {job[j].user} : account'[v] = account[v]
      BY <1>0, <1>4, <2>1 DEF Prefer
    <2>3. account'[job[j].user].chat = "legacy"
      BY <1>0, <1>4, <2>1 DEF Prefer
    <2> QED
      BY <2>1, <2>2, <2>3 DEF AccountsKeep
  <1>5. account' = account \/ AccountWriters
    BY Writers DEF Accounted
  <1> QED
    BY <1>1, <1>2, <1>3, <1>4, <1>5 DEF AccountWriters

\* What a session that goes on has become tells the action.
LEMMA WentOn ==
    ASSUME TypeOK, References, NEW j \in Job, GoesOn(j)
    PROVE  /\ job'[j].script = "cleanup" /\ job'[j].judged => Judge(j)
           /\ job'[j].script = "pass" => Enrich(j) \/ \E unset \in SUBSET Marketplace : StartPass(j, unset)
           /\ job'[j].script = "cutover" => \E u \in User : StartCutover(j, u)
           /\ job'[j].script = "prefer" => \E u \in User : StartPrefer(j, u)
           /\ job'[j].script = "stamp" => StartStamp(j)
  <1>1. CASE StartScan(j)
    <2>1. job'[j].script = "scan"
      BY <1>1 DEF StartScan, Start, TypeOK
    <2> QED
      BY <2>1
  <1>2. CASE StartCleanup(j)
    <2>1. job'[j].script = "cleanup" /\ job'[j].judged = FALSE
      BY <1>2 DEF StartCleanup, Start, TypeOK
    <2> QED
      BY <2>1
  <1>3. CASE Judge(j)
    <2>1. job[j] \in Cleanup
      BY <1>3, Kinds DEF Judge
    <2>2. job'[j].script = "cleanup"
      BY <1>3, <2>1 DEF Judge, Cleanup, TypeOK
    <2> QED
      BY <1>3, <2>2
  <1>4. CASE StartLink(j)
    <2>1. job'[j].script = "link"
      BY <1>4 DEF StartLink, Start, TypeOK
    <2> QED
      BY <2>1
  <1>5. CASE StartStamp(j)
    <2>1. job'[j].script = "stamp"
      BY <1>5 DEF StartStamp, Start, TypeOK
    <2> QED
      BY <1>5, <2>1
  <1>6. CASE Enrich(j)
    <2>1. PICK r \in job[j].rows, refused \in SUBSET Marketplace : NextRow(j, r, refused)
      BY <1>6, OneRow
    <2>2. job[j].script = "pass"
      BY <1>6 DEF Enrich
    <2>3. job'[j] = Idle \/ job'[j].script = "pass"
      BY <2>1, <2>2, RowLeaves
    <2> QED
      BY <1>6, <2>3 DEF Idle
  <1>7. ASSUME NEW unset \in SUBSET Marketplace, StartPass(j, unset)
        PROVE  job'[j].script = "pass"
    BY <1>7 DEF StartPass, Start, TypeOK
  <1>8. ASSUME NEW u \in User, StartCutover(j, u)
        PROVE  job'[j].script = "cutover"
    BY <1>8 DEF StartCutover, Start, TypeOK
  <1>9. ASSUME NEW u \in User, StartPrefer(j, u)
        PROVE  job'[j].script = "prefer"
    BY <1>9 DEF StartPrefer, Start, TypeOK
  <1> QED
    BY <1>1, <1>2, <1>3, <1>4, <1>5, <1>6, <1>7, <1>8, <1>9 DEF GoesOn

-----------------------------------------------------------------------------
(* The invariants, one by one. *)

LEMMA CleanupStep ==
    ASSUME TypeOK, References, CleanupInv, [Next]_vars
    PROVE  CleanupInv'
  <1>1. RowsGrow /\ SearchesGrow
    BY RowsStep, SearchesStep
  <1> SUFFICES ASSUME NEW k \in Job, job'[k].script = "cleanup", job'[k].judged, NEW r \in job'[k].rows
               PROVE  Unwanted(k, r)'
    BY DEF CleanupInv, Judged, Running
  <1>2. CASE job'[k] = job[k]
    <2>1. k \in Judged
      BY <1>2 DEF Judged, Running
    <2>2. Unwanted(k, r) /\ r \in DOMAIN listing
      BY <1>2, <2>1 DEF CleanupInv, References, Holds
    <2>3. listing'[r].good = listing[r].good
      BY <1>1, <2>2 DEF RowsGrow
    <2>4. \A s \in LiveSearches' : (s \in LiveSearches /\ search'[s].ask = search[s].ask) \/ <<k, s>> \in changed'
      BY <1>1, <2>1 DEF SearchesGrow, LiveSearches
    <2>5. \A s : <<k, s>> \in changed => <<k, s>> \in changed'
      BY <2>1, HistoryGrows
    <2> QED
      BY <2>2, <2>3, <2>4, <2>5 DEF Unwanted
  <1>3. CASE GoesOn(k)
    <2>1. Judge(k)
      BY <1>3, WentOn
    <2>2. job[k] \in Cleanup
      BY <2>1, Kinds DEF Judge
    <2>3. /\ Queries(MarketOf[listing[r].good]) # {}
          /\ ~Kept(listing[r].good, Queries(MarketOf[listing[r].good]))
      BY <2>1, <2>2 DEF Judge, Cleanup, TypeOK
    <2>4. UNCHANGED <<listing, search>>
      BY <2>1 DEF Judge, tables
    <2> QED
      BY <2>3, <2>4 DEF Unwanted, Kept, Queries, LiveSearches
  <1> QED
    BY <1>2, <1>3, SessionSteps DEF Idle

LEMMA StampStep ==
    ASSUME TypeOK, References, StampInv, [Next]_vars
    PROVE  StampInv'
  <1>1. RowsGrow /\ AlertsGrow /\ SearchesGrow
    BY RowsStep, AlertsStep, SearchesStep
  <1>2. owned \subseteq owned'
    BY HistoryGrows
  <1>3. \A a \in DOMAIN alert : alert[a].listing \in DOMAIN listing /\ a \in DOMAIN alert'
    BY <1>1 DEF References, AlertsGrow
  <1>4. ASSUME NEW u, NEW a \in DOMAIN alert, Entitled(u, a)
        PROVE  Entitled(u, a)'
    BY <1>1, <1>2, <1>3, <1>4 DEF Entitled, RowsGrow, AlertsGrow
  <1>5. ASSUME NEW r \in DOMAIN listing'
        PROVE  listing'[r].finder \in {listing'[r].by, None}
    BY <1>1 DEF StampInv, RowsGrow
  <1>6. ASSUME NEW s \in Search, search'[s].owner # None
        PROVE  <<search'[s].owner, s>> \in owned'
    BY <1>1, <1>2, <1>6 DEF StampInv, SearchesGrow
  <1>7. ASSUME NEW j \in Job, job'[j].script = "stamp", NEW a \in DOMAIN job'[j].user
        PROVE  (alert[a].unowned /\ Entitled(job[j].user[a], a))'
    <2>1. CASE job'[j] = job[j]
      <3>1. a \in DOMAIN alert /\ alert[a].unowned /\ Entitled(job[j].user[a], a)
        BY <1>7, <2>1 DEF StampInv, References, Holds
      <3>2. Entitled(job[j].user[a], a)'
        BY <3>1, <1>1, <1>2, <1>3, <2>1 DEF Entitled, RowsGrow, AlertsGrow
      <3> QED
        BY <3>1, <3>2, <2>1, <1>1 DEF AlertsGrow
    <2>2. CASE GoesOn(j)
      <3>1. StartStamp(j)
        BY <1>7, <2>2, WentOn
      <3> DEFINE resolved == {b \in Alerts : alert[b].user = None /\ Resolve(alert[b].listing) # None}
      <3>2. job'[j].user = [b \in resolved |-> Resolve(alert[b].listing)]
        BY <3>1 DEF StartStamp, Start, TypeOK
      <3>3. a \in resolved /\ job'[j].user[a] = Resolve(alert[a].listing)
        BY <3>2
      <3>4. a \in DOMAIN alert /\ alert[a].user = None /\ alert[a].listing \in DOMAIN listing
        BY <3>3, <1>3 DEF Alerts
      <3>5. alert[a].unowned
        BY <3>4 DEF StampInv
      <3> DEFINE s == listing[alert[a].listing].finder
      <3>6. /\ s # None /\ search[s].owner # None /\ Resolve(alert[a].listing) = search[s].owner
            /\ s = listing[alert[a].listing].by
        BY <3>3, <3>4 DEF Resolve, StampInv
      <3>7. s \in Search
        <4>1. listing[alert[a].listing] \in Row
          BY <3>4 DEF TypeOK
        <4> QED
          BY <3>6, <4>1 DEF Row
      <3>8. Entitled(search[s].owner, a)
        BY <3>6, <3>7 DEF StampInv, Entitled
      <3>9. UNCHANGED <<listing, alert, owned>>
        BY <3>1 DEF StartStamp, tables, history
      <3> QED
        BY <3>3, <3>5, <3>6, <3>8, <3>9 DEF Entitled
    <2> QED
      BY <1>7, <2>1, <2>2, SessionSteps DEF Idle
  <1>8. ASSUME NEW a \in DOMAIN alert'
        PROVE  (IF alert[a].user = None THEN alert[a].unowned
                ELSE alert[a].unowned => Entitled(alert[a].user, a))'
    <2>1. CASE a \notin DOMAIN alert
      BY <1>1, <2>1 DEF AlertsGrow
    <2>2. CASE a \in DOMAIN alert /\ alert'[a].user = alert[a].user
      BY <1>1, <1>2, <1>3, <2>2 DEF AlertsGrow, StampInv, Entitled, RowsGrow
    <2>3. CASE a \in DOMAIN alert /\ \E j \in Job : StampedBy(j, a)
      <3>1. PICK j \in Job : StampedBy(j, a)
        BY <2>3
      <3>2. alert[a].unowned /\ Entitled(alert'[a].user, a)
        BY <3>1 DEF StampInv, StampedBy
      <3> QED
        BY <1>1, <1>2, <1>3, <2>3, <3>2 DEF AlertsGrow, Entitled, RowsGrow
    <2> QED
      BY <1>1, <2>1, <2>2, <2>3 DEF AlertsGrow
  <1> QED
    BY <1>5, <1>6, <1>7, <1>8 DEF StampInv

LEMMA OneEachStep ==
    ASSUME TypeOK, References, StampInv, OneEach, [Next]_vars
    PROVE  OneEach'
  <1>1. AlertsGrow
    BY AlertsStep
  <1> SUFFICES ASSUME NEW a \in Alerts', NEW b \in Alerts', a # b,
                      alert'[a].listing = alert'[b].listing, alert'[a].user = alert'[b].user,
                      ~alert'[a].unowned, ~alert'[b].unowned
               PROVE  FALSE
    BY DEF OneEach
  <1>2. ASSUME NEW c \in DOMAIN alert, ~alert'[c].unowned
        PROVE  /\ alert[c].user = alert'[c].user /\ alert[c].listing = alert'[c].listing
               /\ ~alert[c].unowned /\ alert[c].user # None
               /\ alert'[c].live => c \in Alerts
    <2>1. /\ alert[c].listing = alert'[c].listing /\ ~alert[c].unowned /\ (alert'[c].live => c \in Alerts)
          /\ alert'[c].user = alert[c].user \/ \E j \in Job : StampedBy(j, c)
      BY <1>1, <1>2 DEF AlertsGrow, Alerts
    <2>2. ~\E j \in Job : StampedBy(j, c)
      BY <2>1 DEF StampedBy, StampInv
    <2>3. alert[c].user # None
      BY <2>1 DEF StampInv
    <2> QED
      BY <2>1, <2>2, <2>3
  <1>3. a \in DOMAIN alert' /\ b \in DOMAIN alert' /\ alert'[a].live /\ alert'[b].live
    BY DEF Alerts
  <1>4. CASE a \in DOMAIN alert /\ b \in DOMAIN alert
    BY <1>2, <1>3, <1>4 DEF OneEach
  <1>5. CASE a \notin DOMAIN alert /\ b \in DOMAIN alert
    <2>1. alert'[a].user # None => \A d \in Alerts :
             <<alert[d].user, alert[d].listing>> # <<alert'[a].user, alert'[a].listing>>
      BY <1>1, <1>3, <1>5 DEF AlertsGrow
    <2> QED
      BY <1>2, <1>3, <1>5, <2>1
  <1>6. CASE a \in DOMAIN alert /\ b \notin DOMAIN alert
    <2>1. alert'[b].user # None => \A d \in Alerts :
             <<alert[d].user, alert[d].listing>> # <<alert'[b].user, alert'[b].listing>>
      BY <1>1, <1>3, <1>6 DEF AlertsGrow
    <2> QED
      BY <1>2, <1>3, <1>6, <2>1
  <1>7. CASE a \notin DOMAIN alert /\ b \notin DOMAIN alert
    BY <1>1, <1>3, <1>7 DEF AlertsGrow
  <1> QED
    BY <1>4, <1>5, <1>6, <1>7

\* A pass that is at work was so before, on that row and with that copy, or it
\* has just read the row.
LEMMA PassSessions ==
    ASSUME TypeOK, References, [Next]_vars, NEW j \in Job, job'[j].script = "pass", NEW r \in job'[j].rows
    PROVE  \/ job[j].script = "pass" /\ r \in job[j].rows /\ job'[j].copy = job[j].copy
           \/ \E unset \in SUBSET Marketplace : StartPass(j, unset)
  <1>1. CASE Enrich(j)
    <2>1. PICK k \in job[j].rows, refused \in SUBSET Marketplace : NextRow(j, k, refused)
      BY <1>1, OneRow
    <2>2. job[j].script = "pass"
      BY <1>1 DEF Enrich
    <2>3. job'[j].copy = job[j].copy /\ job'[j].rows = job[j].rows \ {k}
      BY <2>1, <2>2, RowLeaves DEF Idle
    <2> QED
      BY <2>2, <2>3
  <1>2. CASE job'[j] = job[j]
    BY <1>2
  <1> QED
    BY <1>1, <1>2, SessionSteps, WentOn DEF Idle

LEMMA PassStep ==
    ASSUME TypeOK, References, PassInv, [Next]_vars
    PROVE  PassInv'
  <1> SUFFICES ASSUME NEW j \in Job, job'[j].script = "pass", NEW r \in job'[j].rows,
                      <<"row", r>> \notin contended'
               PROVE  /\ listing'[r].field = job'[j].copy[r].field
                      /\ listing'[r].status \notin Terminal
                      /\ \A k \in Job \ {j} : job'[k].script = "pass" => r \notin job'[k].rows
    BY DEF PassInv
  <1>1. <<"row", r>> \notin contended
    BY HistoryGrows
  <1>2. CASE \E unset \in SUBSET Marketplace : StartPass(j, unset)
    <2> DEFINE copy == [c \in Candidates |-> [status |-> listing[c].status, field |-> listing[c].field]]
    <2>1. /\ job'[j].copy = copy /\ job'[j].rows = Candidates /\ listing' = listing
          /\ \A k \in Job \ {j} : job'[k] = job[k]
          /\ <<"row", r>> \in contended' \/ ~\E k \in Running("pass") : r \in job[k].rows
      BY <1>2 DEF StartPass, Start, TypeOK, tables
    <2>2. r \in Candidates /\ Candidate(r)
      BY <2>1 DEF Candidates
    <2>3. listing'[r].field = job'[j].copy[r].field
      BY <2>1, <2>2
    <2>4. listing'[r].status \notin Terminal
      BY <2>1, <2>2 DEF Candidate, Terminal
    <2> HIDE DEF copy
    <2>5. \A k \in Job \ {j} : job'[k].script = "pass" => r \notin job'[k].rows
      BY <2>1 DEF Running
    <2> QED
      BY <2>3, <2>4, <2>5
  <1>3. CASE job[j].script = "pass" /\ r \in job[j].rows /\ job'[j].copy = job[j].copy
    <2>1. /\ listing[r].field = job[j].copy[r].field /\ listing[r].status \notin Terminal
          /\ \A k \in Job \ {j} : job[k].script = "pass" => r \notin job[k].rows
          /\ r \in DOMAIN listing
      BY <1>1, <1>3 DEF PassInv, References, Holds
    <2>2. ~\E k \in Job : FilledBy(k, r)
      BY <2>1 DEF FilledBy, Idle
    <2>3. listing'[r].field = listing[r].field /\ listing'[r].status \in {listing[r].status, "pending"}
      BY <2>1, <2>2, RowsStep DEF FieldsStay
    <2>4. ASSUME NEW k \in Job \ {j}, job'[k].script = "pass", r \in job'[k].rows
          PROVE  FALSE
      <3>1. PICK unset \in SUBSET Marketplace : StartPass(k, unset)
        BY <2>1, <2>4, PassSessions
      <3>2. r \in Candidates
        BY <2>4, <3>1 DEF StartPass, Start, TypeOK
      <3>3. <<"row", r>> \in contended'
        BY <1>3, <3>1, <3>2 DEF StartPass, Running
      <3> QED
        BY <3>3
    <2> QED
      BY <1>3, <2>1, <2>3, <2>4 DEF Terminal
  <1> QED
    BY <1>2, <1>3, PassSessions

LEMMA CutoverStep ==
    ASSUME TypeOK, References, CutoverInv, [Next]_vars
    PROVE  CutoverInv'
  <1> SUFFICES ASSUME NEW j \in Job, job'[j].script = "cutover", NEW s \in job'[j].searches,
                      <<"search", s>> \notin contended'
               PROVE  /\ search'[s].state # "new" /\ search'[s].owner = None
                      /\ \A k \in Job \ {j} : job'[k].script = "cutover" => s \notin job'[k].searches
    BY DEF CutoverInv
  <1>1. <<"search", s>> \notin contended
    BY HistoryGrows
  <1>2. ASSUME NEW k \in Job, NEW u \in User, StartCutover(k, u)
        PROVE  /\ job'[k].searches = Unowned /\ search' = search
               /\ \A i \in Job \ {k} : job'[i] = job[i]
               /\ \A t \in Unowned : <<"search", t>> \in contended' \/ ~\E i \in Running("cutover") : t \in job[i].searches
    BY <1>2 DEF StartCutover, Start, TypeOK
  <1>3. CASE \E u \in User : StartCutover(j, u)
    <2>1. s \in Unowned /\ search' = search
      BY <1>2, <1>3
    <2>2. search'[s].state # "new" /\ search'[s].owner = None
      BY <2>1 DEF Unowned, LiveSearches
    <2>3. \A k \in Job \ {j} : job'[k].script = "cutover" => s \notin job'[k].searches
      BY <1>2, <1>3, <2>1 DEF Running
    <2> QED
      BY <2>2, <2>3
  <1>4. CASE job'[j] = job[j]
    <2>1. /\ search[s].state # "new" /\ search[s].owner = None
          /\ \A k \in Job \ {j} : job[k].script = "cutover" => s \notin job[k].searches
      BY <1>1, <1>4 DEF CutoverInv
    <2>2. s \in Search
      BY <1>4, Kinds DEF Cutover
    <2>3. ~\E k \in Job : GivenBy(k, s)
      BY <1>4, <2>1 DEF GivenBy, Idle
    <2>4. search'[s].state # "new" /\ search'[s].owner = None
      BY <2>1, <2>2, <2>3, SearchesStep DEF SearchesGrow
    <2>5. ASSUME NEW k \in Job \ {j}, job'[k].script = "cutover", s \in job'[k].searches
          PROVE  FALSE
      <3>1. job'[k] # job[k]
        BY <2>1, <2>5
      <3>2. PICK u \in User : StartCutover(k, u)
        BY <2>5, <3>1, SessionSteps, WentOn DEF Idle
      <3>3. s \in Unowned /\ j \in Running("cutover") /\ s \in job[j].searches
        BY <1>2, <1>4, <2>5, <3>2 DEF Running
      <3> QED
        BY <1>2, <3>2, <3>3
    <2> QED
      BY <2>4, <2>5
  <1> QED
    BY <1>3, <1>4, SessionSteps, WentOn DEF Idle

LEMMA PreferStep ==
    ASSUME TypeOK, References, PreferInv, [Next]_vars
    PROVE  PreferInv'
  <1> SUFFICES ASSUME NEW j \in Job, job'[j].script = "prefer", <<"user", job'[j].user>> \notin contended'
               PROVE  account'[job'[j].user].chat # "own"
    BY DEF PreferInv
  <1>1. CASE job'[j] = job[j]
    <2>1. job[j].user \in User /\ account[job[j].user].chat # "own"
      BY <1>1, Kinds, HistoryGrows DEF PreferInv, Prefers
    <2> QED
      BY <1>1, <2>1, AccountsStep DEF AccountsKeep, Running
  <1>2. CASE \E u \in User : StartPrefer(j, u)
    <2>1. PICK u \in User : StartPrefer(j, u)
      BY <1>2
    <2>2. job'[j].user = u /\ account' = account /\ account[u].chat = "none"
      BY <2>1 DEF StartPrefer, Start, HasPreference, TypeOK, tables
    <2> QED
      BY <2>2
  <1> QED
    BY <1>1, <1>2, SessionSteps, WentOn DEF Idle

-----------------------------------------------------------------------------
(* The invariant. *)

LEMMA InitIInv == Init => IInv
  <1> SUFFICES ASSUME Init PROVE IInv
    OBVIOUS
  <1>1. TypeOK /\ References
    BY InitTypeOK
  <1>2. job = [j \in Job |-> Idle]
    BY DEF Init
  <1>3. PICK goods \in SUBSET {w[2] : w \in Wanted}, given \in SUBSET Field :
           /\ listing = [r \in 1..Cardinality(goods) |-> NewRow(SetToSeq(goods)[r], None, given)]
           /\ alert = [r \in DOMAIN listing |-> NewAlert(r, None)]
    BY DEF Init
  <1>4. /\ \A r \in DOMAIN listing : listing[r].finder = listing[r].by
        /\ \A a \in DOMAIN alert : alert[a].user = None /\ alert[a].unowned
    BY <1>3 DEF NewRow, NewAlert
  <1>5. \A s \in Search : search[s].owner = None
    BY DEF Init
  <1>6. \A j \in Job : job[j].script = "none"
    BY <1>2 DEF Idle
  <1>7. CleanupInv /\ PassInv /\ CutoverInv /\ PreferInv
    BY <1>2, <1>6 DEF CleanupInv, Judged, Running, PassInv, CutoverInv, PreferInv
  <1>8. StampInv /\ OneEach
    BY <1>4, <1>5, <1>6 DEF StampInv, OneEach, Alerts
  <1> QED
    BY <1>1, <1>7, <1>8 DEF IInv

LEMMA IInvStep == IInv /\ [Next]_vars => IInv'
  BY TypeStep, CleanupStep, StampStep, OneEachStep, PassStep, CutoverStep, PreferStep DEF IInv

\* Every reachable state satisfies the invariant.
THEOREM Invariance == Spec => []IInv
  BY InitIInv, IInvStep, PTL DEF Spec

-----------------------------------------------------------------------------
(* The properties. *)

\* A listing only ever goes by a cleanup that had judged it, and none of the
\* searches that are there when it goes wants it by its title, but for those
\* that were created or edited after that cleanup had judged
\* (cleanup.py, run_historical_cleanup).
THEOREM NothingWantedGoes == Spec => WantedStays
  <1> DEFINE Stays ==
               \A r \in Rows : ~listing'[r].live =>
                  LET good == listing[r].good IN
                  \E j \in Judged :
                      /\ r \in job[j].rows /\ job'[j] = Idle
                      /\ \A s \in LiveSearches :
                            LET ask == search[s].ask IN
                            MarketOf[good] \in Target[ask] /\ <<ask, good>> \in ByTitle => <<j, s>> \in changed
  <1>1. IInv /\ [Next]_vars => [Stays]_vars
    <2> SUFFICES ASSUME IInv, [Next]_vars, NEW r \in Rows, ~listing'[r].live
                 PROVE  \E j \in Judged :
                           /\ r \in job[j].rows /\ job'[j] = Idle
                           /\ \A s \in LiveSearches :
                                 MarketOf[listing[r].good] \in Target[search[s].ask]
                                 /\ <<search[s].ask, listing[r].good>> \in ByTitle => <<j, s>> \in changed
      OBVIOUS
    <2>1. PICK j \in Judged : r \in job[j].rows /\ job'[j] = Idle
      BY RowsStep DEF RowsGo, Rows, IInv
    <2>2. Unwanted(j, r)
      BY <2>1 DEF IInv, CleanupInv
    <2> QED
      BY <2>1, <2>2 DEF Unwanted
  <1> QED
    BY <1>1, Invariance, PTL DEF Spec, WantedStays

\* An alert that was enqueued for nobody is only ever stamped with an owner of
\* the search that found its listing (notification_user_backfill.py,
\* _resolve_legacy_owner).
THEOREM StampsAreEntitled == Spec => []StampsAddNobody
  <1>1. IInv => StampsAddNobody
    BY DEF IInv, StampInv, StampsAddNobody, Entitled, Alerts
  <1> QED
    BY <1>1, Invariance, PTL

\* Two alerts about one listing reach one user only if one of them was
\* enqueued for a search without an owner (notification_outbox.py, enqueue).
THEOREM OneAlertEach == Spec => []TwiceOnlyForLegacy
  <1>1. IInv => TwiceOnlyForLegacy
    <2> SUFFICES ASSUME IInv, NEW a \in Alerts, NEW b \in Alerts, a # b,
                        alert[a].listing = alert[b].listing, Reaches(a) = Reaches(b),
                        ~alert[a].unowned, ~alert[b].unowned
                 PROVE  FALSE
      BY DEF TwiceOnlyForLegacy
    <2>1. alert[a].user # None /\ alert[b].user # None
      BY DEF IInv, StampInv, Alerts
    <2>2. alert[a].user = alert[b].user
      BY <2>1 DEF Reaches
    <2> QED
      BY <2>2 DEF IInv, OneEach
  <1> QED
    BY <1>1, Invariance, PTL

\* A metadata pass fills what is empty and nothing else, and what it settled
\* stays settled until it is reset, but for two passes at once on one row
\* (backfill.py, _apply_enrichment and list_missing_metadata).
THEOREM PassesAddOnly == Spec => PassesOnlyAdd
  <1> DEFINE Adds ==
               \A r \in DOMAIN listing : <<"row", r>> \notin contended =>
                  /\ \A f \in Field : listing[r].field[f] > 0 => listing'[r].field[f] = listing[r].field[f]
                  /\ listing[r].status \in Terminal => listing'[r].status \in {listing[r].status, "pending"}
  <1>1. IInv /\ [Next]_vars => [Adds]_vars
    <2> SUFFICES ASSUME IInv, [Next]_vars, NEW r \in DOMAIN listing, <<"row", r>> \notin contended
                 PROVE  /\ \A f \in Field : listing[r].field[f] > 0 => listing'[r].field[f] = listing[r].field[f]
                        /\ listing[r].status \in Terminal => listing'[r].status \in {listing[r].status, "pending"}
      OBVIOUS
    <2>1. FieldsStay
      BY RowsStep DEF IInv
    <2>2. CASE \E j \in Job : FilledBy(j, r)
      <3>1. PICK j \in Job : FilledBy(j, r)
        BY <2>2
      <3>2. listing[r].field = job[j].copy[r].field /\ listing[r].status \notin Terminal
        BY <3>1 DEF FilledBy, IInv, PassInv
      <3> QED
        BY <3>1, <3>2 DEF FilledBy
    <2>3. CASE listing'[r].field = listing[r].field /\ listing'[r].status \in {listing[r].status, "pending"}
      BY <2>3
    <2> QED
      BY <2>1, <2>2, <2>3 DEF FieldsStay
  <1> QED
    BY <1>1, Invariance, PTL DEF Spec, PassesOnlyAdd

\* A search that has an owner keeps that owner as long as it lives, but for
\* two cutovers that had both read it ownerless, and a user keeps the chat set
\* by hand, unless it was set while the backfill was running (bootstrap.py,
\* assign_saved_searches_to_user; preference_backfill.py).
THEOREM ChoicesStay == Spec => NothingChosenIsReplaced
  <1> DEFINE Stays ==
               /\ \A s \in LiveSearches : search[s].owner # None /\ <<"search", s>> \notin contended =>
                     search'[s].state = "gone" \/ search'[s].owner = search[s].owner
               /\ \A u \in User : account[u].chat = "own" /\ <<"user", u>> \notin contended =>
                     account'[u].chat = "own"
  <1>1. IInv /\ [Next]_vars => [Stays]_vars
    <2> SUFFICES ASSUME IInv, [Next]_vars PROVE Stays
      OBVIOUS
    <2>1. ASSUME NEW s \in LiveSearches, search[s].owner # None, <<"search", s>> \notin contended
          PROVE  search'[s].state = "gone" \/ search'[s].owner = search[s].owner
      <3>1. s \in Search /\ search[s].state = "live"
        BY DEF LiveSearches
      <3>2. ~\E j \in Job : GivenBy(j, s)
        BY <2>1 DEF GivenBy, IInv, CutoverInv
      <3> QED
        BY <3>1, <3>2, SearchesStep DEF SearchesGrow, IInv
    <2>2. ASSUME NEW u \in User, account[u].chat = "own", <<"user", u>> \notin contended
          PROVE  account'[u].chat = "own"
      BY <2>2, AccountsStep DEF AccountsKeep, IInv, PreferInv
    <2> QED
      BY <2>1, <2>2
  <1> QED
    BY <1>1, Invariance, PTL DEF Spec, NothingChosenIsReplaced
=============================================================================
