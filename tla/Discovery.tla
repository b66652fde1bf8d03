------------------------------ MODULE Discovery ------------------------------
(***************************************************************************)
(* A run of a saved search (SavedSearchRunner.run) finds listings, records *)
(* which of them the search matched, and enqueues an alert for each match  *)
(* that is new to the search: discovered_listings, listing_attributions    *)
(* and pending_notifications are written in one transaction per run.       *)
(* Runs are started by the background scanner of the web process, by the   *)
(* scan cron job (another process) and by "run now" requests, and each     *)
(* process has a SavedSearchRunGuard of its own.                           *)
(*                                                                         *)
(* The database is PostgreSQL at READ COMMITTED: a statement sees what is  *)
(* committed and its own transaction's writes; an insert of a key another  *)
(* transaction has inserted, or an update of a row it has updated, waits   *)
(* until that transaction ends.  Sessions have autoflush=False, so the     *)
(* updates of last_seen_at are sent only by the next SAVEPOINT or flush.   *)
(***************************************************************************)
EXTENDS Integers, Sequences, FiniteSets

CONSTANTS
    Listing,         \* (marketplace, external_listing_id) pairs
    IdOf,            \* the order in which the database numbers them
    Search,          \* saved searches
    User,
    NoUser,          \* user_id IS NULL
    NoSearch,        \* discovered_by_saved_search_id IS NULL
    OwnerOf,         \* the user_id of each search
    Marketplace,
    MarketplacesOf,  \* the marketplaces of each search, in order
    Results,         \* what a search of a marketplace may leave after the
                     \* relevance filter; empty also when the connector fails
    Runner,          \* threads that run saved searches
    ByHand,          \* those that serve "run now" requests, not the scanner
    Process,
    ProcessOf        \* the process of each thread

ASSUME DiscoveryAssumption ==
    /\ IdOf \in [Listing -> Nat]
    /\ \A l, k \in Listing : IdOf[l] = IdOf[k] => l = k
    /\ NoUser \notin User
    /\ NoSearch \notin Search
    /\ OwnerOf \in [Search -> User \cup {NoUser}]
    /\ MarketplacesOf \in [Search -> Seq(Marketplace)]
    /\ Results \in [Marketplace -> SUBSET Seq(Listing)]
    /\ ByHand \subseteq Runner
    /\ ProcessOf \in [Runner -> Process]

VARIABLES
    searches,    \* saved searches that exist
    stored,      \* rows of discovered_listings
    finder,      \* their discovered_by_saved_search_id
    attributed,  \* rows of listing_attributions, as <<search, listing>>
    outbox,      \* number of pending_notifications rows per <<user, listing>>
    guard,       \* the searches each process's guard marks as running
    run,         \* the state of each thread's run
    tx,          \* what its open transaction has locked and written
    \* Not known to the code:
    matched      \* <<search, listing>> that a committed run has matched

database == <<searches, stored, finder, attributed, outbox, matched>>
vars     == <<searches, stored, finder, attributed, outbox, guard, run, tx, matched>>

-----------------------------------------------------------------------------
Owner == User \cup {NoUser}

\* pc is "between" before the first marketplace, between two and after the last.
Idle == [pc |-> "idle", search |-> NoSearch,
         left |-> <<>>,      \* marketplaces still to search
         queue |-> <<>>,     \* listings of this one still to process
         dirty |-> {},       \* touched, the UPDATE not sent yet
         doomed |-> FALSE,   \* a row in dirty is gone
         fresh |-> <<>>,     \* newly attributed, not enqueued yet
         seen |-> {}]        \* all listings of this run so far

NoWrites == [locked |-> {}, listings |-> {}, attributions |-> {}, rows |-> {}]

\* The legacy /scan route may have stored listings that no search has found.
Init ==
    /\ searches = Search
    /\ stored \in SUBSET Listing
    /\ finder = [l \in Listing |-> NoSearch]
    /\ attributed = {}
    /\ outbox = [p \in Owner \X Listing |-> 0]
    /\ guard = [p \in Process |-> {}]
    /\ run = [r \in Runner |-> Idle]
    /\ tx = [r \in Runner |-> NoWrites]
    /\ matched = {}

-----------------------------------------------------------------------------
Active(r) == run[r].pc \notin {"idle", "committed"}

LockedByOther(r, l) == \E q \in Runner \ {r} : l \in tx[q].locked

\* mark_scanned updates the row of the search.
StampedByOther(r) ==
    \E q \in Runner \ {r} : /\ run[q].search = run[r].search
                            /\ run[q].pc \in {"stamped", "responding"}

\* The run of r has processed the last of its marketplaces.
Searched(r) ==
    run[r].pc = "between" /\ run[r].fresh = <<>> /\ run[r].left = <<>>

HasRow(r, l) ==
    outbox[OwnerOf[run[r].search], l] > 0 \/ l \in tx[r].rows

\* enqueue inserts a row: always without an owner, else unless one exists.
Inserts(r) ==
    /\ run[r].pc = "between"
    /\ run[r].fresh # <<>>
    /\ OwnerOf[run[r].search] # NoUser => ~HasRow(r, Head(run[r].fresh))

\* The session is about to flush: begin_nested() and mark_scanned do.
Flushing(r) ==
    run[r].pc \in {"insert", "attribute", "stamped"} \/ Inserts(r) \/ Searched(r)

-----------------------------------------------------------------------------
\* Starting a run: guard.try_acquire, then load the search.

MayStart(r, s) == s \in searches /\ s \notin guard[ProcessOf[r]]

Start(r, s) ==
    /\ run[r].pc = "idle"
    /\ MayStart(r, s)
    /\ guard' = [guard EXCEPT ![ProcessOf[r]] = @ \cup {s}]
    /\ run' = [run EXCEPT ![r] = [Idle EXCEPT !.pc = "between",
                                              !.search = s,
                                              !.left = MarketplacesOf[s]]]
    /\ UNCHANGED <<database, tx>>

\* connector.search and the relevance filter of the next marketplace.  The
\* transaction stays open meanwhile.
Fetch(r) ==
    /\ run[r].pc = "between" /\ run[r].fresh = <<>> /\ run[r].left # <<>>
    /\ \E found \in Results[Head(run[r].left)] :
          run' = [run EXCEPT ![r].left = Tail(@),
                             ![r].queue = found,
                             ![r].seen = @ \cup {found[i] : i \in DOMAIN found},
                             ![r].pc = IF found = <<>> THEN "between" ELSE "look"]
    /\ UNCHANGED <<database, guard, tx>>

-----------------------------------------------------------------------------
\* process_listings, one listing after the other.

\* The session sends the pending updates of last_seen_at one row at a time, in
\* the order of their primary keys.
NextDirty(r, l) ==
    l \in run[r].dirty /\ \A k \in run[r].dirty : IdOf[l] <= IdOf[k]

Flush(r) ==
    /\ Flushing(r)
    /\ ~run[r].doomed
    /\ \E l \in run[r].dirty :
          /\ NextDirty(r, l)
          /\ ~LockedByOther(r, l)
          /\ run' = [run EXCEPT ![r].dirty = @ \ {l}]
          /\ tx' = [tx EXCEPT ![r].locked = @ \cup {l}]
    /\ UNCHANGED <<database, guard>>

\* Mutant: a SAVEPOINT flushes nothing, the updates are left for the commit.
FlushedNever(r) == Flushing(r)

Flushed(r) == Flushing(r) /\ run[r].dirty = {}

NextListing(r, news) ==
    run' = [run EXCEPT ![r].queue = Tail(@),
                       ![r].fresh = @ \o news,
                       ![r].pc = IF Len(run[r].queue) = 1 THEN "between" ELSE "look"]

\* Mutant: a listing somebody knew already is not the search's business.
SeenSkipsAttribution(r, l) == NextListing(r, <<>>)

\* touch_last_seen
Seen(r, l) ==
    run' = [run EXCEPT ![r].dirty = @ \cup {l}, ![r].pc = "check"]

\* get_or_create looks the listing up ...
Look(r) ==
    /\ run[r].pc = "look"
    /\ LET l == Head(run[r].queue) IN
          \/ /\ l \in stored \cup tx[r].listings
             /\ Seen(r, l)
          \/ /\ l \notin stored \cup tx[r].listings
             /\ run' = [run EXCEPT ![r].pc = "insert"]
    /\ UNCHANGED <<database, guard, tx>>

Created(r, l) == run' = [run EXCEPT ![r].pc = "check"]

\* ... and inserts it inside a SAVEPOINT; the loser of a race reads it again.
Insert(r) ==
    /\ run[r].pc = "insert" /\ Flushed(r)
    /\ LET l == Head(run[r].queue) IN
          /\ ~LockedByOther(r, l)
          /\ \/ /\ l \in stored
                /\ Seen(r, l)
                /\ UNCHANGED tx
             \/ /\ l \notin stored
                /\ run[r].search \in searches
                /\ Created(r, l)
                /\ tx' = [tx EXCEPT ![r].listings = @ \cup {l},
                                    ![r].locked = @ \cup {l}]
    /\ UNCHANGED <<database, guard>>

\* record_if_missing looks the attribution up ...
Check(r) ==
    /\ run[r].pc = "check"
    /\ LET s == run[r].search
           l == Head(run[r].queue)
       IN  \/ /\ <<s, l>> \in attributed \/ l \in tx[r].attributions
              /\ NextListing(r, <<>>)
           \/ /\ <<s, l>> \notin attributed /\ l \notin tx[r].attributions
              /\ run' = [run EXCEPT ![r].pc = "attribute"]
    /\ UNCHANGED <<database, guard, tx>>

\* Mutant: an alert only for a listing nobody knew.
NewsIfNew(r, l) == IF l \in tx[r].listings THEN <<l>> ELSE <<>>

\* newly_attributed_listing_ids
News(r, l) == <<l>>

\* Mutant: the loser of the race also counts as the creator.
ExistingIsNews(r, l) == <<l>>

ExistingIsNoNews(r, l) == <<>>

\* ... and inserts it inside a SAVEPOINT, unless a run of the same search has
\* committed it since.
Attribute(r) ==
    /\ run[r].pc = "attribute" /\ Flushed(r)
    /\ LET s == run[r].search
           l == Head(run[r].queue)
       IN  \/ /\ <<s, l>> \in attributed
              /\ NextListing(r, ExistingIsNoNews(r, l))
              /\ UNCHANGED tx
           \/ /\ <<s, l>> \notin attributed
              /\ s \in searches
              /\ NextListing(r, News(r, l))
              /\ tx' = [tx EXCEPT ![r].attributions = @ \cup {l}]
    /\ UNCHANGED <<database, guard>>

\* NotificationOutboxRepository.enqueue, for the next newly attributed listing.
\* Its row is locked by now, so nobody else can enqueue it for the same user.
Enqueue(r) ==
    /\ run[r].pc = "between" /\ run[r].fresh # <<>>
    /\ \/ /\ Inserts(r) /\ Flushed(r)
          /\ tx' = [tx EXCEPT ![r].rows = @ \cup {Head(run[r].fresh)}]
       \/ /\ ~Inserts(r)
          /\ UNCHANGED tx
    /\ run' = [run EXCEPT ![r].fresh = Tail(@)]
    /\ UNCHANGED <<database, guard>>

-----------------------------------------------------------------------------
\* The end of a run.

\* mark_scanned
Stamp(r) ==
    /\ Searched(r)
    /\ run[r].search \in searches
    /\ ~StampedByOther(r)
    /\ run' = [run EXCEPT ![r].pc = "stamped"]
    /\ UNCHANGED <<database, guard, tx>>

Released(r) ==
    guard' = [guard EXCEPT ![ProcessOf[r]] = @ \ {run[r].search}]

\* The "run now" route gives the guard back; its session commits only after.
ReleaseEarly(r) ==
    /\ r \in ByHand /\ run[r].pc = "stamped" /\ Flushed(r)
    /\ Released(r)
    /\ run' = [run EXCEPT ![r].pc = "responding"]
    /\ UNCHANGED <<database, tx>>

Commit(r) ==
    /\ IF r \in ByHand THEN run[r].pc = "responding"
                        ELSE run[r].pc = "stamped" /\ Flushed(r)
    /\ LET s == run[r].search
           w == tx[r]
       IN  /\ stored' = stored \cup w.listings
           /\ finder' = [l \in Listing |-> IF l \in w.listings THEN s ELSE finder[l]]
           /\ attributed' = attributed \cup {<<s, l>> : l \in w.attributions}
           /\ outbox' = [p \in Owner \X Listing |->
                            IF p[1] = OwnerOf[s] /\ p[2] \in w.rows
                            THEN outbox[p] + 1 ELSE outbox[p]]
           /\ matched' = matched \cup {<<s, l>> : l \in run[r].seen}
    /\ run' = [run EXCEPT ![r] =
                  IF r \in ByHand THEN Idle
                  ELSE [Idle EXCEPT !.pc = "committed", !.search = run[r].search]]
    /\ tx' = [tx EXCEPT ![r] = NoWrites]
    /\ UNCHANGED <<searches, guard>>

\* The scanner gives the guard back after the commit.
Release(r) ==
    /\ run[r].pc = "committed"
    /\ Released(r)
    /\ run' = [run EXCEPT ![r] = Idle]
    /\ UNCHANGED <<database, tx>>

\* Mutant: an exception leaves the guard taken.
RolledBackGuarded(r) ==
    /\ run' = [run EXCEPT ![r] = Idle]
    /\ tx' = [tx EXCEPT ![r] = NoWrites]
    /\ UNCHANGED guard

RolledBack(r) ==
    /\ run' = [run EXCEPT ![r] = Idle]
    /\ tx' = [tx EXCEPT ![r] = NoWrites]
    /\ IF run[r].pc = "responding" THEN UNCHANGED guard ELSE Released(r)

\* Any statement may raise, the database being another machine.  Nothing in
\* the runner catches that: the whole run is rolled back.
Abort(r) ==
    /\ Active(r)
    /\ RolledBack(r)
    /\ UNCHANGED database

\* A process dies, and its guard with it; the database rolls back.
Crash(p) ==
    LET dead == {r \in Runner : ProcessOf[r] = p} IN
    /\ \E r \in dead : run[r].pc # "idle"
    /\ run' = [r \in Runner |-> IF r \in dead THEN Idle ELSE run[r]]
    /\ tx' = [r \in Runner |-> IF r \in dead THEN NoWrites ELSE tx[r]]
    /\ guard' = [guard EXCEPT ![p] = {}]
    /\ UNCHANGED database

-----------------------------------------------------------------------------
\* The rest of the system, as far as discovery sees it.

FinderWithout(s) ==
    [l \in Listing |-> IF finder[l] = s THEN NoSearch ELSE finder[l]]

\* A user deletes a search: it waits for runs that refer to its row or have
\* locked a listing it found; the attributions go with it, the alerts stay.
DeleteSearch(s) ==
    /\ s \in searches
    /\ \A r \in Runner : run[r].search = s =>
          /\ tx[r].listings \cup tx[r].attributions = {}
          /\ run[r].pc \notin {"stamped", "responding"}
    /\ \A r \in Runner : \A l \in tx[r].locked : finder[l] # s
    /\ searches' = searches \ {s}
    /\ finder' = FinderWithout(s)
    /\ attributed' = {a \in attributed : a[1] # s}
    /\ matched' = {a \in matched : a[1] # s}
    /\ UNCHANGED <<stored, outbox, guard, run, tx>>

\* The historical cleanup deletes a listing, with its attributions and alerts.
\* An UPDATE of it that a run has still to send will match no row and raise.
DeleteListing(l) ==
    /\ l \in stored
    /\ \A r \in Runner : l \notin tx[r].locked
    /\ stored' = stored \ {l}
    /\ finder' = [finder EXCEPT ![l] = NoSearch]
    /\ attributed' = {a \in attributed : a[2] # l}
    /\ matched' = {a \in matched : a[2] # l}
    /\ outbox' = [p \in Owner \X Listing |-> IF p[2] = l THEN 0 ELSE outbox[p]]
    /\ run' = [r \in Runner |->
                  IF l \in run[r].dirty THEN [run[r] EXCEPT !.doomed = TRUE] ELSE run[r]]
    /\ UNCHANGED <<searches, guard, tx>>

-----------------------------------------------------------------------------
\* Whom a run waits for.
WaitsFor(r) ==
    IF Flushing(r) /\ run[r].dirty # {} THEN
        {q \in Runner \ {r} : \E l \in tx[q].locked : NextDirty(r, l)}
    ELSE IF run[r].pc = "insert" THEN
        {q \in Runner \ {r} : Head(run[r].queue) \in tx[q].locked}
    ELSE IF Searched(r) THEN
        {q \in Runner \ {r} : run[q].search = run[r].search
                              /\ run[q].pc \in {"stamped", "responding"}}
    ELSE {}

\* PostgreSQL aborts a transaction that waits in a cycle.
Deadlocked(r) ==
    \E S \in SUBSET Runner :
        r \in S /\ \A q \in S : WaitsFor(q) \cap S # {}

\* The next statement is bound to raise: an UPDATE that matches no row, or an
\* insert or update that refers to a search deleted meanwhile.
Bound(r) ==
    \/ run[r].doomed /\ Flushing(r)
    \/ run[r].search \notin searches /\ Flushed(r)

Step(r) ==
    \/ \E s \in Search : Start(r, s)
    \/ Fetch(r) \/ Flush(r) \/ Look(r) \/ Insert(r) \/ Check(r) \/ Attribute(r)
    \/ Enqueue(r) \/ Stamp(r) \/ ReleaseEarly(r) \/ Commit(r) \/ Release(r)

Next ==
    \/ \E r \in Runner : Step(r) \/ Abort(r)
    \/ \E p \in Process : Crash(p)
    \/ \E s \in Search : DeleteSearch(s)
    \/ \E l \in Listing : DeleteListing(l)

Spec == Init /\ [][Next]_vars

\* A run that was started goes on: PostgreSQL grants a row lock in the order of
\* the requests, so a run does not lose it to later ones for ever.  And the
\* database raises where it must.
Fairness ==
    \A r \in Runner :
        /\ SF_vars(run[r].pc # "idle" /\ Step(r))
        /\ WF_vars((Deadlocked(r) \/ Bound(r)) /\ Abort(r))

-----------------------------------------------------------------------------
\* Properties.

\* Every search's owner has an alert for every listing the search is on record
\* as having matched, whoever discovered the listing first and whatever runs
\* raced (the multi-user fix of process_listings).
AttributedMeansAlerted ==
    \A a \in attributed : outbox[<<OwnerOf[a[1]], a[2]>>] > 0

\* Who is named as the discoverer of which listing.
Discoveries == {<<finder[l], l>> : l \in {k \in Listing : finder[k] # NoSearch}}

\* A run that committed has attributed every listing it kept, also those that
\* other runs stored or attributed in between; and a listing's discoverer is
\* on record as having matched it, the fact the attribution backfill and the
\* outbox's owner fallback rely on (process_listings).
EveryMatchIsAttributed == matched \cup Discoveries \subseteq attributed

\* The check-then-insert of enqueue never races: no two open transactions
\* insert an alert for one user and listing, nor one that is committed already.
EnqueueNeverCollides ==
    \A r \in Runner : \A l \in tx[r].rows : OwnerOf[run[r].search] # NoUser =>
        /\ outbox[<<OwnerOf[run[r].search], l>>] = 0
        /\ \A q \in Runner \ {r} :
              l \in tx[q].rows => OwnerOf[run[q].search] # OwnerOf[run[r].search]

\* No retroactive alerts: whenever rows for a user and listing appear, so do
\* at least as many attributions, in the same transaction.
AlertsAreEarned ==
    [][\A u \in Owner, l \in Listing :
          outbox'[<<u, l>>] - outbox[<<u, l>>] <=
             Cardinality({s \in Search : /\ OwnerOf[s] = u
                                         /\ <<s, l>> \in attributed' \ attributed})]_vars

\* A search marked as running is given back, although runs deadlock, fail and
\* find their search or listings deleted: no search stops being scanned.
GuardIsReleased ==
    \A p \in Process, s \in Search : s \in guard[p] ~> s \notin guard[p]
=============================================================================
