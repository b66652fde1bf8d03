---------------------------- MODULE Maintenance -----------------------------
(***************************************************************************)
(* The scripts an operator runs by hand against the live database, among   *)
(* the scans and the users' own changes they were written not to disturb:  *)
(* the relevance cleanup, the metadata backfill, the cutover to accounts,  *)
(* the backfills of attributions, of alert owners and of preferences.      *)
(*                                                                         *)
(* A script reads, then writes what it decided; its session does not look  *)
(* again (autoflush and expire_on_commit are off).  An UPDATE by key of a  *)
(* row that is gone ends the whole script; a DELETE of one does not.       *)
(***************************************************************************)
EXTENDS Integers, Sequences, FiniteSets, SequencesExt

CONSTANTS
    Search, User, None,
    Ask,             \* what a search can ask for: a query and its marketplaces
    Good, Marketplace,
    MarketOf,        \* the marketplace a good is offered on
    Target,          \* the marketplaces of each ask
    Wanted,          \* the <<ask, good>> that a scan finds relevant
    ByTitle,         \* those evaluate_relevance accepts on the title alone
    Legacy,          \* the searches older than the accounts
    Lookup,          \* the marketplaces with a lookup by id
    Field,           \* the fields of a listing that the backfill may fill
    Limit,           \* rows of one metadata pass
    Job,             \* sessions of scripts and scans
    MaxRows, MaxAlerts

ASSUME MaintenanceAssumption ==
    /\ IsFiniteSet(Good)
    /\ None \notin Search \cup User \cup Ask
    /\ MarketOf \in [Good -> Marketplace]
    /\ Target \in [Ask -> SUBSET Marketplace]
    /\ Wanted \cup ByTitle \subseteq Ask \X Good
    /\ Legacy \subseteq Search
    /\ Limit \in Nat /\ MaxRows \in Nat /\ MaxAlerts \in Nat

VARIABLES
    search,      \* per search, whether it is "new", "live" or "gone", its owner and its ask
    listing,     \* discovered_listings, by id
    link,        \* listing_attributions
    alert,       \* pending_notifications, by id
    account,     \* users and their notification_preferences
    job,         \* what each session is at
    changed,     \* history: <<j, s>> if s was created or edited after the cleanup j had judged
    owned,       \* history: who ever owned what
    contended    \* history: what two sessions had read before either wrote

tables == <<search, listing, link, alert, account>>
history == <<changed, owned, contended>>
vars == <<tables, job, history>>

Idle == [script |-> "none"]
Running(script) == {j \in Job : job[j].script = script}
Start(j, record) == job[j] = Idle /\ job' = [job EXCEPT ![j] = record]
End(j) == job' = [job EXCEPT ![j] = Idle]

LiveSearches == {s \in Search : search[s].state = "live"}
Rows == {r \in DOMAIN listing : listing[r].live}
Alerts == {a \in DOMAIN alert : alert[a].live}

Terminal == {"enriched", "no_data", "not_found", "unsupported"}

NewRow(good, finder, given) ==
    [good |-> good, live |-> TRUE, finder |-> finder, by |-> finder, status |-> "pending",
     field |-> [f \in Field |-> IF f \in given THEN 1 ELSE 0]]

NewAlert(row, user) == [listing |-> row, user |-> user, live |-> TRUE, unowned |-> user = None]

\* Before accounts, scans of ownerless searches stored listings and alerts
\* without recording the search.  What those asked for may have been edited
\* since.
Init ==
    /\ \E asked \in [Legacy -> Ask] :
          search = [s \in Search |-> IF s \in Legacy
                                     THEN [state |-> "live", owner |-> None, ask |-> asked[s]]
                                     ELSE [state |-> "new", owner |-> None, ask |-> None]]
    /\ \E goods \in SUBSET {w[2] : w \in Wanted}, given \in SUBSET Field :
          /\ listing = [r \in 1..Cardinality(goods) |-> NewRow(SetToSeq(goods)[r], None, given)]
          /\ alert = [r \in DOMAIN listing |-> NewAlert(r, None)]
    /\ link = {} /\ changed = {} /\ owned = {} /\ contended = {}
    /\ account = [u \in User |-> [exists |-> FALSE, admin |-> FALSE, chat |-> "none"]]
    /\ job = [j \in Job |-> Idle]

-----------------------------------------------------------------------------
(* Users and scans. *)

Signup(u) ==
    /\ ~account[u].exists
    /\ account' = [account EXCEPT ![u].exists = TRUE]
    /\ UNCHANGED <<search, listing, link, alert, job, history>>

Judged == {j \in Running("cleanup") : job[j].judged}

CreateSearch(u, s, ask) ==
    /\ account[u].exists /\ search[s].state = "new"
    /\ search' = [search EXCEPT ![s] = [state |-> "live", owner |-> u, ask |-> ask]]
    /\ owned' = owned \cup {<<u, s>>}
    /\ changed' = changed \cup (Judged \X {s})
    /\ UNCHANGED <<listing, link, alert, account, job, contended>>

\* SavedSearchRepository.update: another query, or other marketplaces.
Edit(s, ask) ==
    /\ s \in LiveSearches /\ search[s].ask # ask
    /\ search' = [search EXCEPT ![s].ask = ask]
    /\ changed' = changed \cup (Judged \X {s})
    /\ UNCHANGED <<listing, link, alert, account, job, owned, contended>>

\* Its attributions go, its listings stay without their finder.
DeleteSearch(s) ==
    /\ s \in LiveSearches
    /\ search' = [search EXCEPT ![s] = [state |-> "gone", owner |-> None, ask |-> None]]
    /\ link' = {p \in link : p[1] # s}
    /\ listing' = [r \in DOMAIN listing |->
                     IF listing[r].finder = s THEN [listing[r] EXCEPT !.finder = None] ELSE listing[r]]
    /\ UNCHANGED <<alert, account, job, history>>

\* PUT /notification-preferences/me
SetChat(u) ==
    /\ account[u].exists /\ account[u].chat # "own"
    /\ account' = [account EXCEPT ![u].chat = "own"]
    /\ contended' = IF \E j \in Running("prefer") : job[j].user = u
                    THEN contended \cup {<<"user", u>>} ELSE contended
    /\ UNCHANGED <<search, listing, link, alert, job, changed, owned>>

\* The run works from the search as it has read it.
StartScan(j) ==
    /\ \E s \in LiveSearches : Start(j, [script |-> "scan", search |-> s, owner |-> search[s].owner,
                                         ask |-> search[s].ask])
    /\ UNCHANGED <<tables, history>>

AlertsOf(u, r) == {a \in Alerts : alert[a].user = u /\ alert[a].listing = r}

\* Mutant: a second match inserts a second row.
EnqueueAlways(owner, r) == TRUE

\* Without an owner there is nothing to be found again.
Enqueues(owner, r) == owner = None \/ AlertsOf(owner, r) = {}

\* get_or_create, record_if_missing and enqueue, for one result of the search.
FinishScan(j, good, given) ==
    LET s == job[j].search
        ask == job[j].ask
        known == {r \in Rows : listing[r].good = good}
        row == IF known = {} THEN Len(listing) + 1 ELSE CHOOSE r \in known : TRUE
    IN  /\ job[j].script = "scan" /\ s \in LiveSearches
        /\ <<ask, good>> \in Wanted /\ MarketOf[good] \in Target[ask]
        /\ row <= MaxRows /\ Len(alert) < MaxAlerts
        /\ listing' = IF known = {} THEN Append(listing, NewRow(good, s, given)) ELSE listing
        /\ link' = link \cup {<<s, row>>}
        /\ alert' = IF <<s, row>> \notin link /\ Enqueues(job[j].owner, row)
                    THEN Append(alert, NewAlert(row, job[j].owner)) ELSE alert
        /\ End(j)
        /\ UNCHANGED <<search, account, history>>

\* A script dies, or its transaction fails: a search or a row it is about to
\* write is gone, or a constraint stands against it.
Abort(j) ==
    /\ job[j] # Idle
    /\ End(j)
    /\ UNCHANGED <<tables, history>>

-----------------------------------------------------------------------------
(* cleanup.py *)

StartCleanup(j) ==
    /\ Start(j, [script |-> "cleanup", judged |-> FALSE, rows |-> Rows])
    /\ UNCHANGED <<tables, history>>

\* _queries_by_marketplace
Queries(market) == {ask \in {search[s].ask : s \in LiveSearches} : market \in Target[ask]}

\* Mutant: a listing stays only if every search wants it.
WantedByAll(good, queries) == \A ask \in queries : <<ask, good>> \in ByTitle

Kept(good, queries) == \E ask \in queries : <<ask, good>> \in ByTitle

\* _evaluate: what no search of the marketplace wants goes, unless there is none.
Judge(j) ==
    /\ job[j].script = "cleanup" /\ ~job[j].judged
    /\ job' = [job EXCEPT ![j].judged = TRUE,
                          ![j].rows = {r \in @ : LET good == listing[r].good
                                                     queries == Queries(MarketOf[good])
                                                 IN  queries # {} /\ ~Kept(good, queries)}]
    /\ changed' = {p \in changed : p[1] # j}
    /\ UNCHANGED <<tables, owned, contended>>

\* run_historical_cleanup: attributions and alerts go with their listing.
RemoveRows(j) ==
    /\ job[j].script = "cleanup" /\ job[j].judged
    /\ listing' = [r \in DOMAIN listing |->
                     IF r \in job[j].rows THEN [listing[r] EXCEPT !.live = FALSE] ELSE listing[r]]
    /\ link' = {p \in link : p[2] \notin job[j].rows}
    /\ alert' = [a \in DOMAIN alert |->
                   IF alert[a].listing \in job[j].rows THEN [alert[a] EXCEPT !.live = FALSE] ELSE alert[a]]
    /\ End(j)
    /\ UNCHANGED <<search, account, history>>

-----------------------------------------------------------------------------
(* backfill.py *)

Incomplete(r) == \E f \in Field : listing[r].field[f] = 0

\* Mutant: the bug list_missing_metadata was cured of.
CandidatesByField(r) == Incomplete(r)

Candidate(r) == Incomplete(r) /\ listing[r].status \in {"pending", "failed"}

\* list_missing_metadata: the newest, up to the limit.
Candidates ==
    LET all == {r \in Rows : Candidate(r)} IN
    {r \in all : Cardinality({k \in all : k > r}) < Limit}

\* unset are the marketplaces without credentials.
StartPass(j, unset) ==
    /\ Candidates # {}
    /\ Start(j, [script |-> "pass", rows |-> Candidates, unset |-> unset, refused |-> {},
                 copy |-> [r \in Candidates |->
                            [status |-> listing[r].status, field |-> listing[r].field]]])
    /\ contended' = contended \cup
          {<<"row", r>> : r \in {c \in Candidates : \E k \in Running("pass") : c \in job[k].rows}}
    /\ UNCHANGED <<tables, changed, owned>>

\* _apply_enrichment
Filled(copy, given) == {f \in given : copy.field[f] = 0}

\* _persist_status: the column is sent only if it differs from the copy.
Written(row, copy, status, filled) ==
    [row EXCEPT !.status = IF status = copy.status THEN @ ELSE status,
                !.field = [f \in Field |-> IF f \in filled THEN @[f] + 1 ELSE @[f]]]

\* An UPDATE by key, of the row as the pass has read it.
Write(j, r, status, filled) ==
    /\ listing[r].live
    /\ listing' = [listing EXCEPT ![r] = Written(@, job[j].copy[r], status, filled)]

\* The row leaves the pass, its marketplace refused if refused says so.
NextRow(j, r, refused) ==
    LET pass == job[j] IN
    job' = [job EXCEPT ![j] = IF pass.rows = {r} THEN Idle
                              ELSE [pass EXCEPT !.rows = pass.rows \ {r},
                                                !.refused = pass.refused \cup refused]]

\* The marketplace finds the listing and gives some of its fields.
Enriched(j, r, given) ==
    LET filled == Filled(job[j].copy[r], given) IN
    Write(j, r, IF filled = {} THEN "no_data" ELSE "enriched", filled)

\* The newest row comes first.
Enrich(j) ==
    /\ job[j].script = "pass"
    /\ \E r \in job[j].rows :
          LET market == MarketOf[listing[r].good]
              reachable == market \notin job[j].refused \cup job[j].unset
          IN  /\ \A k \in job[j].rows : k <= r
              /\ \/ /\ market \in job[j].refused \/ (market \in Lookup /\ ~reachable)
                    /\ NextRow(j, r, {}) /\ UNCHANGED listing
                 \/ /\ market \notin Lookup
                    /\ Write(j, r, "unsupported", {}) /\ NextRow(j, r, {})
                 \/ /\ market \in Lookup /\ reachable
                    /\ \/ Write(j, r, "failed", {}) /\ NextRow(j, r, {market})   \* not authorised
                       \/ Write(j, r, "failed", {}) /\ NextRow(j, r, {})         \* any other error
                       \/ Write(j, r, "not_found", {}) /\ NextRow(j, r, {})
                       \/ \E given \in SUBSET Field : Enriched(j, r, given) /\ NextRow(j, r, {})
    /\ UNCHANGED <<search, link, alert, account, history>>

\* --reset-status
Reset(status) ==
    /\ status \in Terminal
    /\ \E r \in Rows : listing[r].status = status
    /\ listing' = [r \in DOMAIN listing |->
                     IF listing[r].live /\ listing[r].status = status
                     THEN [listing[r] EXCEPT !.status = "pending"] ELSE listing[r]]
    /\ UNCHANGED <<search, link, alert, account, job, history>>

-----------------------------------------------------------------------------
(* bootstrap.py, admin_promotion.py, preference_backfill.py *)

\* Mutant: every search is the administrator's.
AllSearches == LiveSearches

Unowned == {s \in LiveSearches : search[s].owner = None}

\* Mutant: the rule the code rejects, the one candidate of the marketplace.
OnlyCandidate(r, candidates) ==
    LET on == {s \in candidates : MarketOf[listing[r].good] \in Target[search[s].ask]} IN
    IF Cardinality(on) = 1 THEN CHOOSE s \in on : TRUE ELSE None

\* _find_provenance_backed_saved_search_id: nothing stored tells who found an
\* old listing.
Evidence(r, candidates) == None

\* compute_listing_attribution
Attributions(candidates) ==
    {p \in {<<r, Evidence(r, candidates)>> : r \in {k \in Rows : listing[k].finder = None}} : p[2] # None}

\* run_cutover up to its first commit, and what it then reads.
StartCutover(j, u) ==
    /\ Start(j, [script |-> "cutover", user |-> u, searches |-> Unowned,
                 found |-> Attributions(Unowned \cup {s \in LiveSearches : search[s].owner = u})])
    /\ account' = [account EXCEPT ![u].exists = TRUE]
    /\ contended' = contended \cup
          {<<"search", s>> : s \in {c \in Unowned : \E k \in Running("cutover") : c \in job[k].searches}}
    /\ UNCHANGED <<search, listing, link, alert, changed, owned>>

\* apply_listing_attribution
Attributed(r, found) ==
    LET finders == {p[2] : p \in {f \in found : f[1] = r}} IN
    IF finders # {} /\ listing[r].finder = None
    THEN [listing[r] EXCEPT !.finder = CHOOSE s \in finders : TRUE] ELSE listing[r]

Assign(j) ==
    LET u == job[j].user
        given == job[j].searches
    IN  /\ job[j].script = "cutover" /\ given \subseteq LiveSearches
        /\ search' = [s \in Search |-> IF s \in given THEN [search[s] EXCEPT !.owner = u] ELSE search[s]]
        /\ listing' = [r \in DOMAIN listing |-> Attributed(r, job[j].found)]
        /\ owned' = owned \cup ({u} \X given)
        /\ End(j)
        /\ UNCHANGED <<link, alert, account, changed, contended>>

Promote(u) ==
    /\ account[u].exists /\ ~account[u].admin
    /\ account' = [account EXCEPT ![u].admin = TRUE]
    /\ UNCHANGED <<search, listing, link, alert, job, history>>

HasPreference(u) == account[u].chat # "none"

StartPrefer(j, u) ==
    /\ account[u].exists /\ ~HasPreference(u)
    /\ Start(j, [script |-> "prefer", user |-> u])
    /\ UNCHANGED <<tables, history>>

\* upsert_telegram_chat_id reads again, and overwrites what it finds.
Prefer(j) ==
    /\ job[j].script = "prefer"
    /\ account' = [account EXCEPT ![job[j].user].chat = "legacy"]
    /\ End(j)
    /\ UNCHANGED <<search, listing, link, alert, history>>

-----------------------------------------------------------------------------
(* listing_attribution_backfill.py, notification_user_backfill.py *)

StartLink(j) ==
    /\ Start(j, [script |-> "link",
                 pairs |-> {<<listing[r].finder, r>> : r \in {k \in Rows : listing[k].finder # None}}])
    /\ UNCHANGED <<tables, history>>

Link(j) ==
    /\ job[j].script = "link"
    /\ \A p \in job[j].pairs : p[1] \in LiveSearches /\ p[2] \in Rows
    /\ link' = link \cup job[j].pairs
    /\ End(j)
    /\ UNCHANGED <<search, listing, alert, account, history>>

\* _resolve_legacy_owner
Resolve(r) == IF listing[r].finder = None THEN None ELSE search[listing[r].finder].owner

StartStamp(j) ==
    LET resolved == {a \in Alerts : alert[a].user = None /\ Resolve(alert[a].listing) # None} IN
    /\ resolved # {}
    /\ Start(j, [script |-> "stamp", user |-> [a \in resolved |-> Resolve(alert[a].listing)]])
    /\ UNCHANGED <<tables, history>>

\* All rows or none: UNIQUE (user_id, discovered_listing_id).
Stamp(j) ==
    LET stamped == [a \in DOMAIN alert |->
                      IF job[j].script = "stamp" /\ a \in DOMAIN job[j].user
                      THEN [alert[a] EXCEPT !.user = job[j].user[a]] ELSE alert[a]]
    IN  /\ job[j].script = "stamp"
        /\ DOMAIN job[j].user \subseteq Alerts
        /\ \A a, b \in Alerts : stamped[a].user # None /\ a # b =>
              <<stamped[a].user, stamped[a].listing>> # <<stamped[b].user, stamped[b].listing>>
        /\ alert' = stamped
        /\ End(j)
        /\ UNCHANGED <<search, listing, link, account, history>>

-----------------------------------------------------------------------------
Next ==
    \/ \E u \in User : Signup(u) \/ SetChat(u) \/ Promote(u)
    \/ \E s \in Search, ask \in Ask : Edit(s, ask) \/ \E u \in User : CreateSearch(u, s, ask)
    \/ \E s \in Search : DeleteSearch(s)
    \/ \E status \in Terminal : Reset(status)
    \/ \E j \in Job :
          \/ StartScan(j) \/ \E good \in Good, given \in SUBSET Field : FinishScan(j, good, given)
          \/ StartCleanup(j) \/ Judge(j) \/ RemoveRows(j)
          \/ (\E unset \in SUBSET Marketplace : StartPass(j, unset)) \/ Enrich(j)
          \/ (\E u \in User : StartCutover(j, u) \/ StartPrefer(j, u)) \/ Assign(j) \/ Prefer(j)
          \/ StartLink(j) \/ Link(j) \/ StartStamp(j) \/ Stamp(j)
          \/ Abort(j)

Spec == Init /\ [][Next]_vars

-----------------------------------------------------------------------------
(* Properties. *)

\* A listing only ever goes by a cleanup that had judged it, and none of the
\* searches that are there when it goes wants it by its title, but for those
\* that were created or edited after that cleanup had judged
\* (cleanup.py, run_historical_cleanup).
WantedStays ==
    [][\A r \in Rows : ~listing'[r].live =>
          LET good == listing[r].good IN
          \E j \in Judged :
              /\ r \in job[j].rows /\ job'[j] = Idle
              /\ \A s \in LiveSearches :
                    LET ask == search[s].ask IN
                    MarketOf[good] \in Target[ask] /\ <<ask, good>> \in ByTitle => <<j, s>> \in changed]_vars

\* A metadata pass fills what is NULL and nothing else, and what it settled
\* stays settled until --reset-status says otherwise; two passes at once may
\* undo each other (backfill.py, _apply_enrichment and list_missing_metadata).
PassesOnlyAdd ==
    [][\A r \in DOMAIN listing : <<"row", r>> \notin contended =>
          /\ \A f \in Field : listing[r].field[f] > 0 => listing'[r].field[f] = listing[r].field[f]
          /\ listing[r].status \in Terminal => listing'[r].status \in {listing[r].status, "pending"}]_vars

\* An alert that was enqueued for nobody is only ever stamped with someone
\* whom the delivery would have reached anyway: an owner of the search that
\* found the listing (notification_user_backfill.py, _resolve_legacy_owner).
StampsAddNobody ==
    \A a \in Alerts : alert[a].unowned /\ alert[a].user # None =>
        <<alert[a].user, listing[alert[a].listing].by>> \in owned

\* Who an alert is delivered to.
Reaches(a) == IF alert[a].user # None THEN alert[a].user ELSE Resolve(alert[a].listing)

\* Two alerts about one listing reach one user only if one of them was
\* enqueued for a search that had no owner (notification_outbox.py, enqueue).
TwiceOnlyForLegacy ==
    \A a, b \in Alerts :
        a # b /\ alert[a].listing = alert[b].listing /\ Reaches(a) # None /\ Reaches(a) = Reaches(b)
        => alert[a].unowned \/ alert[b].unowned

\* No script replaces what somebody has chosen: a search that has an owner
\* keeps that owner as long as it lives, unless two cutovers had both read it
\* ownerless (bootstrap.py, assign_saved_searches_to_user), and a user keeps
\* the chat set by hand, unless it was set while the backfill was running
\* (preference_backfill.py).
NothingChosenIsReplaced ==
    [][/\ \A s \in LiveSearches : search[s].owner # None /\ <<"search", s>> \notin contended =>
             search'[s].state = "gone" \/ search'[s].owner = search[s].owner
       /\ \A u \in User : account[u].chat = "own" /\ <<"user", u>> \notin contended =>
             account'[u].chat = "own"]_vars
=============================================================================
