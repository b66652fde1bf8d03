# Marketplace Alert: a verification project in TLA+

Marketplace Alert watches marketplaces (eBay, Reverb, Etsy, ...) on behalf of its
users.  A user stores *saved searches*; a scheduler runs each of them every so
often; what a search finds and the relevance filter lets through is stored once
as a *discovered listing*, attributed to every search that matched it, and put
into a transactional *outbox*, from which a separate job delivers it by Telegram
and by push.  A mobile client (React Native) and a small HTTP API sit on top.

This directory holds TLA+ modules translated from the code, TLC configurations
that check them on small instances, and TLAPS proofs about them for every
instance.  Paths below are relative to the repository.

| file | what it is |
| --- | --- |
| `Outbox.tla` | the outbox table and the drain passes, one channel |
| `AlertPromise.tla` | what the outbox promises, with nothing of how |
| `Discovery.tla` | one run of a saved search as a transaction among others |
| `Connector.tla` | one request to a marketplace: tokens, retries, statuses, pages |
| `Scan.tla` | which runs there are and what they are given: due times, passes, the fetch cache (extends `Connector`) |
| `Maintenance.tla` | the scripts an operator runs against the live database |
| `Relevance.tla` | the two relevance engines, as functions |
| `Auth.tla` | the account: logins and lockout, refresh tokens, reset codes |
| `MobileSession.tla` | the session of the mobile app, and the backend's refresh tokens |
| `DetailScreen.tla` | the screen of one saved search over the two data hooks |
| `ListingsScreen.tla` | the list of listings: filters, pages, quiet reload, and the page the API returns |
| `DeviceRegistration.tla` | how one phone registers for push alerts, and what the backend stores of it |
| `MC*.tla`, `*.cfg` | instances and bounds for TLC; one configuration per run. `MCScreens` holds both screens, `MCPhone` the session and the registration of one phone |
| `OutboxProofs.tla` | the inductive invariant of `Outbox`, proved, and what follows |
| `ScanProofs.tla` | the same for `Connector` and `Scan` |
| `AuthProofs.tla` | the same for `Auth` |
| `ScreensProofs.tla` | the same for `DetailScreen`, for `ListingsScreen` as `MCScreens` instantiates it, and for both together |
| `PhoneProofs.tla` | the same for `MobileSession`, and for `DeviceRegistration` as `MCPhone` instantiates it |
| `DiscoveryProofs.tla` | the same for `Discovery` |
| `MaintenanceProofs.tla` | the same for `Maintenance` |
| `RelevanceProofs.tla` | lemmas about the operators of `Relevance`, and the theorem that a query's own words are relevant to both engines |
| `PROJECT.json` | components, runs, map to source lines, hazards, findings, theorems |

Run `tlc -config OutboxTelegram.cfg MCOutbox.tla`, `tlapm OutboxProofs.tla`, and so on.

## 1. Inventory

For each component: the state it keeps, its operations, what it calls and is
called by, what makes it hard, and what makes it correct.

### Notification outbox and drain passes
`core/persistence/notification_outbox.py`, `core/notifications/outbox.py`,
`scripts/drain_notification_outbox.py`.

* State: the table `pending_notifications`.  Each row carries two independent
  sets of columns, one per channel (`status`, `attempt_count`, `claimed_at`,
  `last_attempted_at`, `last_error`, and the same with `push_`), plus the
  stamped owner (`user_id`) and the listing.
* Operations: `enqueue` (by a run, in the run's transaction), `claim_batch`,
  `complete`; around them a *pass* that claims a batch, commits, and then, row by
  row, resolves the owner's destination, calls the provider with no session open,
  and completes the row in a session of its own.
* Hard: several processes drain at once (`SKIP LOCKED` plus a lease); passes die
  between any two steps; a slow pass outlives its lease; a provider's answer gets
  lost; `complete` reads without a lock and writes only changed columns; users
  change chat ids and devices, delete searches, and listings are cleaned up, all
  while a row is claimed.
* Correct if: an alert is delivered or given up and never lost, is called sent
  only when a provider took it, is repeated only for a cause, reaches only its
  owner, is given up only after its attempts, and a recorded outcome stays.

### Saved-search runs and discovery
`core/saved_searches/runner.py`, `core/persistence/service.py`,
`core/persistence/repository.py`, `core/persistence/listing_attribution_repository.py`,
`core/scheduler/guard.py`, `core/scheduler/scanner.py`, the `run` route of
`api/v1/saved_searches.py`.

* State: `discovered_listings` (UNIQUE on marketplace and external id),
  `listing_attributions` (UNIQUE on search and listing), outbox rows (UNIQUE on
  user and listing), `saved_searches.last_scanned_at`, and one in-memory
  `SavedSearchRunGuard` per process.
* Operations: `run` (per marketplace: fetch, filter, `process_listings`, enqueue;
  then `mark_scanned`), started by the scanner thread, by the scan cron job and by
  "run now" requests; `get_or_create`, `touch_last_seen`, `record_if_missing`.
* Hard: overlapping runs of the same or different searches at READ COMMITTED,
  check-then-insert made safe by SAVEPOINTs and unique keys, row locks held across
  a whole run, deferred flushes, deadlocks, rollback of half a run, listings and
  searches deleted under a run, a guard that exists once per process.
* Correct if: every search's owner is alerted once for every listing the search
  matched, whoever discovered it and whatever raced; no match is lost; there are no
  retroactive alerts; guards are exclusive and given back.

### Saved searches
`core/saved_searches/repository.py`, `service.py`, `duplicates.py`.  State:
`saved_searches`.  Create (with a duplicate check that only advises), edit, pause,
delete.  Foreign keys cascade: attributions and outbox rows go with a listing,
attributions with a search, the discoverer of a listing becomes NULL.  Hard: edits and
deletions meet runs, passes and scripts.

### Devices and notification preferences
`core/notifications/device_repository.py`, `preferences_repository.py`.  State: a
user per device token, a chat id per user.  A token moves to the user that
registers it last.  Hard: it may move during a delivery.

### Scheduling of scans
`core/scheduler/scanner.py`, `core/saved_searches/repository.py` (`list_due_for_scan`,
`mark_scanned`), `core/saved_searches/coalescing.py`, `scripts/run_due_scans.py`.

* State: `last_scanned_at`, the time a pass began, the cache of fetches of a pass.
* Operations: a pass lists what is due (the cron job with a grace, the in-process
  scanner without), runs one search after the other and stamps each with the time the
  pass began; a "run now" request stamps the time it began.
* Hard: the platform starts the job late, a pass overruns its period, runs by hand move
  the stamp, searches are edited or deleted while a pass holds a list of them, a cached
  failure or result is shared by searches of different owners.
* Correct if: no due search is passed over for longer than its interval explains, and a
  run is given only what was asked for it, of its own words, after its pass began.

### Marketplace connectors
`connectors/*`, `core/connectors/retry.py`.  State: per process, eBay's token with the
time from which it is no longer handed out.  Operations: a search of up to several pages,
a lookup by id, each request with retries.  Hard: a marketplace reports a failure inside
a 200, leaves its list out, asks for a wait of any length; threads share the token and
drop it on a 401.  Correct if: a failure is never an empty result, and no request carries
a token past its end.

### Relevance engines
`core/relevance`.  Two pure functions of a query and a listing: the legacy engine, which
also judges in the cleanup, and the lexical one.  Hard: brands, identifiers, accessories,
product families, rounding and a quota of missing words meet in one verdict.  Correct
if: a title that is what was asked for is relevant to both.

### Cleanup and backfills
`core/persistence/cleanup.py`, `backfill.py`, `listing_attribution_backfill.py`,
`notification_user_backfill.py`, `core/notifications/preference_backfill.py`,
`core/auth/bootstrap.py`.  Scripts run by hand: each reads what it will change, decides
(with slow lookups in between) and writes later without looking again.  Hard: they
overlap with scans, users and each other.  Correct if: nothing wanted is removed, what is
filled or settled stays, owners and choices are not replaced, nobody new is alerted.

### Authentication
`core/auth/service.py`, `core/auth/repository.py`, `api/v1/auth.py`.  State: users
with failed-login counters and lock times, refresh tokens (stored as hashes, rotated
at each use), password-reset codes.  Hard: rotation raced by a second request with
the same token, reuse detection that revokes every session, counters kept by
read-modify-write, codes claimed, superseded and exhausted concurrently.  Correct if: a
new password ends every old session, a token is exchanged twice only by simultaneous
requests, codes and limits hold but for the requests that overlap, no lock is unearned.

### Mobile session
`mobile/src/auth/AuthContext.tsx`, `mobile/src/auth/tokenStorage.ts`,
`mobile/src/api/client.ts`.

* State: the status, user and access token in memory, the refresh token in SecureStore,
  a generation counter, one restoration and one 401 handler in flight.
* Operations: restoration at startup (with one automatic retry), the handler of 401s,
  login and signup, logout, "retry" and "sign in instead".
* Hard: all of them interleave at every `await` and share one single-use token;
  requests time out after the server has acted; the app is killed; storage fails.
* Correct if: sessions are never mixed, resurrected or lost; no token is presented
  twice by the app's own doing; restoration and logout end.

### Mobile screens and data hooks
`mobile/src/hooks/useAsyncData.ts`, `useAutoRefresh.ts`, `mobile/src/screens/*`,
`api/v1/listings.py`.

* State: per view the data shown, its spinners and error, and one `inFlightRef`; for the
  list also the filters in force and the items loaded so far.
* Operations: the first load, pull-to-refresh, "Try again", "Load more", new filters, the
  buttons of the detail screen with the reload that follows them, and a quiet reload every
  twenty seconds, on waking and on regaining focus.
* Hard: there is one request at a time and every other call is *dropped*; answers are slow,
  lost, or older than a change made meanwhile; a quiet failure is swallowed.
* Correct if: a spinner always ends, the screen is never blank and never goes back, pages fit
  together, filters in force are the ones shown, and what is shown catches up.

### Push registration of the phone
`mobile/src/utils/pushNotifications.ts`, `NotificationSoundScreen.tsx`, `api/v1/devices.py`.

* State: in the app `registeredDeviceToken`, `lastKnownRegistration`, a write sequence and a
  run id; in the backend one row per token, with its owner and its sound.
* Operations: the automatic registration that a sign-in starts, saving a sound,
  unregistering at logout.
* Hard: none of the three waits for another, all may be answered late or never, and the app
  may be killed, or its session end, meanwhile.
* Correct if: app and backend agree on owner and sound, and nothing of a session outlives it.

### Migration, HTTP, providers
Migration runs Alembic under one advisory lock.  The routes serialise; those that change state call the
components above.  Providers (Telegram, Expo, e-mail) are external services.

## 2. How the parts interact

    scanner / cron / "run now" --guard--> run ==one transaction==> discovered_listings
                                            |                      listing_attributions
                                     connector, relevance          pending_notifications
                                                                        |
    users: devices, chat ids --------------------resolve--------> drain passes --> providers
    cleanup, deletion of searches --cascades--> all three tables

`Scan` models the top line (who runs when, and what the run is given), with `Connector`
under it; `Discovery` models the run as a transaction, taking as a run's results an
arbitrary choice, and writes outbox rows as a number per user and listing; `Outbox`
models the delivery and takes an enqueued row as an event of its environment (`Enqueue`),
under the conditions that `Discovery` guarantees (at most one row per user and listing:
`EnqueueNeverCollides`).  `Maintenance` models the scripts over all the tables, with a scan
as one step that matches what `Relevance` finds relevant (its instance takes the sets
`Wanted` and `ByTitle` from the engines themselves).

    screens --requests--> client.ts --401--> AuthContext --refresh, logout--> AuthService
                                                 |
                                            SecureStore

`MobileSession` models the client as a whole, and of the backend what it makes of
refresh tokens, one request at a time.  `Auth` models that backend with requests that
overlap: `Rotate` of `MobileSession` is `Refresh` and `Rotate` of `Auth` with nothing
between them.

The screens come on top of that: `DetailScreen` and `ListingsScreen` take a request as one
that is served, lost, or timed out, with whatever `client.ts` does about a 401 in between.
`DeviceRegistration` writes the row of a token that `Outbox` reads as a destination: its
`Upserted` and `Deleted` are `RegisterDevice` and `UnregisterDevice` there, and it takes from
the session of `MobileSession` who is signed in, how logout begins and ends, and that a
session may end by itself.

## 3. The modules

### Outbox

One channel; `Channel` chooses between Telegram (at most one destination per user)
and push (a set of devices, tried in turn).  The columns of the two channels are
disjoint and their passes share no code path but the claim, which is one function
parameterised by column names.

| model | code |
| --- | --- |
| `row` | a row of `pending_notifications`: this channel's columns |
| `searchUser`, `dests` | `saved_searches.user_id`; `chat_id` or device tokens per user |
| `pc`, `batch`, `fresh`, `todo`, `outcome`, `snap` | local variables of a pass |
| `ClaimBatch` | `claim_batch` and the commit after it |
| `ResolveDestination` | `resolve_destination`, `resolve_push_destinations` |
| `Deliver` | one call of the provider in `_deliver`, `_deliver_push` |
| `CompleteRead`, `CompleteWrite` | `complete`: `session.get`, then the flush |
| `Abort` | the death of a pass, or an exception that leaves the loop |
| `Enqueue`, `DeleteListing`, `DeleteSearch`, `SetChat`, `RegisterDevice`, `UnregisterDevice` | the rest of the system |
| `accepted`, `repeated`, `known`, `disturbed` | what really happened; no guard of the code reads them |

Abstractions.  Times are kept as ages that stop growing once no comparison can tell
them apart (`Tick`, `Canonical`).  Rows are numbered in the order of `created_at`.
All provider errors are one (`"provider"`).  `claim_batch` is atomic: it selects with
`FOR UPDATE SKIP LOCKED` and commits at once; a row another claim has locked is the row
that claim is about to take.  A deleted row keeps its owner and discoverer in the
model because a pass that claimed it holds its own copy of them.

`complete` is two steps because it is two in the code: an ORM object is read without
a lock and the flush writes exactly the columns whose values changed (`Flushed`), so a
row that was taken over in between is overwritten column by column.

### AlertPromise

An alert is due, delivered, abandoned or withdrawn; it is delivered only if received;
it may be received several times; a settled alert is reopened only if two passes
contested it.  `Outbox` implements it (`KeepsPromise`) under the mapping
`PromiseState`, checked by TLC and proved.

### Discovery

| model | code |
| --- | --- |
| `stored`, `finder`, `attributed`, `outbox`, `searches` | the committed tables |
| `tx[r]` | what the open transaction of thread `r` has inserted and locked |
| `guard[p]` | the set in the `SavedSearchRunGuard` of process `p` |
| `run[r]` | the local state of `SavedSearchRunner.run` |
| `Start` ... `Release` | the steps of `_run_one` and of the "run now" route |
| `Look`/`Insert`, `Check`/`Attribute` | the read and the SAVEPOINT insert of `get_or_create` and `record_if_missing` |
| `Flush` | the UPDATEs of `last_seen_at` that the next flush sends, in primary-key order |
| `Abort`, `Crash` | an exception (rollback), the death of a process |
| `DeleteSearch`, `DeleteListing` | a user, the historical cleanup |

PostgreSQL at READ COMMITTED is the environment: an insert of a key that an open
transaction has inserted, or an update of a row it has updated, waits; a cycle of waits
is detected and one of its members aborted; locks end with the transaction.  The
sessions have `autoflush=False`, so a touched listing is locked only at the next
SAVEPOINT or flush.  What a connector returns and the filter keeps is an arbitrary
member of `Results`.  The value of `last_seen_at` is left out.

### MobileSession

JavaScript runs one operation at a time up to its next `await`: a step of the model is
what an operation does between two of them.

| model | code |
| --- | --- |
| `status`, `user`, `access` | the state of `AuthProvider` |
| `screen` | the status as rendered: what the user can tap may lag behind |
| `stored`, `disk` | the refresh token in SecureStore; who waits for SecureStore |
| `op[o]` | an operation: where it is, what it has read, whether its generation is stale |
| `BeginNewGeneration`, `Stale` | `generationRef`: a flag per operation instead of a counter |
| `ReadToken` ... `Undone` | `performRefresh`, with `clearSession` inlined where a caller ends there |
| `Unauthorized`, `NoneInFlight` | `apiRequest` and the single flight of `getOrStartRefresh` |
| `RetryRestoration` ... `MeFails` | `restoreSession`, `performRestore` |
| `OnErrorScreen` | `RootNavigatorContent` shows `RestorationErrorScreen` |
| `LoginAnswered`, `LoginStored` | `login`, `signup` |
| `TapLogout` ... `LogoutAnswered` | `logout` |
| `live`, `revoked`, `Rotate`, `LogoutHandled` | the table of refresh tokens, `AuthService.refresh` and `logout` |
| `late`, `ArriveLate` | refresh requests that were given up but arrive |
| `ended`, `reused`, `disturbed` | what has happened so far; no guard of the code reads them |

Assumptions and abstractions.  SecureStore serves its calls in the order in which they
are made, a call takes effect when it is made, and a write that rejects has written
nothing.  The order matters: if a later call could resolve before an earlier one, the
read and the deletion in `clearRefreshTokenIfMatches` could enclose a login, and
`OneSession` would fail.  All logins are of one account, the worst case for reuse
detection, which revokes every token of the account.  A step of the backend is atomic
here (two concurrent rotations of one token are in module `Auth`).  At
most one login and one logout are under way, since the buttons of both screens are
disabled meanwhile.  The unregister request of logout is one of the requests that may
get a 401 (`carried`).  A logout request that was given up does not arrive later, and
the provider is never unmounted.  Rendering may lag behind a status that was just set
(`Render`), but not by two: an error screen that has not been replaced by "restoring" yet is not
tapped any more when the restoration behind it has got its answers and signed the user in
(`OnErrorScreen`).  Between lie at least two requests; without this a tap on the old error
screen could start a second refresh from a session that works, and present its token twice.

### Connector and Scan

`Scan` extends `Connector`: a thread's request (`call[t]`) belongs to the marketplace its
run is asking.

| model | code |
| --- | --- |
| `token[p]` | `EbayTokenManager` of a process: from when its token is refused, and (for the property) when it dies |
| `call[t]` | the frame of one `search` or `get_listing_by_id`: page, attempt, deadline |
| `Begin` | `get_connector`, the credentials, the shared token |
| `TryLater`, `Wake`, `Delays` | `request_with_retry`, `_wait_seconds` |
| `Rejected`, `NotFound`, `Found`, `Page` | what a connector makes of a status or a body |
| `ReadEbay` ... `ReadBonanza` | each connector's reading of a page, one operator each |
| `search[s]` | a row of `saved_searches` |
| `thread[t]` | the cron job, the scanner, a "run now" request or the metadata backfill: the list of its pass, its `ScanFetchCache`, its run |
| `StartJob`, `StartScanner`, `NextSearch`, `EndPass` | `run_due_scans`, `SavedSearchScanner` |
| `RunNow`, `Ask`, `TakeAnswer`, `Finish`, `Fail` | the route, and `SavedSearchRunner.run` seen from outside its transaction |
| `Crash` | a process dies, with its guard, its token and its requests |
| `skipped` | history: passes of the job since a search's last run that did not list it |

Abstractions.  Time passes only in requests, waits and between passes.  A request ends
within `Timeout`: the client's timeout is per operation of the socket, and the model takes
the whole request to keep it.  A page is what decides: whether the body reports success,
whether there is a list, its length, how many entries can be read, whether there is a
next page.  The platform that starts the cron job is external: once per period, late by
at most `Jitter`, or as soon as a job that overran has ended.

### Maintenance and Relevance

Each script is a session (`job[j]`) that holds what it read, and each of its writes is a
step: `StartCleanup`, `Judge`, `RemoveRows`; `StartPass`, `Enrich`, `Reset`;
`StartCutover`, `Assign`; `StartPrefer`, `Prefer`; `StartLink`, `Link`; `StartStamp`,
`Stamp`; `Promote`.  `StartScan` and `FinishScan` are a scan among them, and `Abort` a
script that dies, or whose transaction fails because a row is gone or a constraint stands
against it.  A field of a listing is a count of the values it was given, so that a
replacement shows.

`Relevance` has the two engines, `EvaluateLegacy` and `EvaluateV2`, over tokens (what
`tokenize` and `stem_token` return); vocabularies, quantities and initialisms are
constants.  Scores, half-up rounding, quotas and the order of the rules are the code's.  A token is a
sequence of parts of words, a query a sequence of chunks and a chunk a sequence of tokens, so that putting
an identifier together is concatenation.  Loops are recursive functions (`Without`, `WeightOf`, `BrandSpans`).

`RelevanceAssumption` says of the vocabularies what `RelevanceProofs` needs and the catalogs have
(`core/relevance/brands.py` and the transliterations of `engine_v2.py`, `accessories.py`, `families.py`): no
phrase that names a brand begins inside another such phrase, and each family is among its own strong names
(`register_family` puts it there).

### Auth

One account (every query of the code is scoped to one user).  A request reads, decides
on what it has read, and writes and commits: `Login` / `Unlock` / `WrongPassword`,
`RightPassword`; `Refresh` / `Rotate`, `Reuse`; `Forgot` / `Supersede` / `Issue` / `Deliver`;
`Redeem` / `Miss`, `Claim`; `Signup`, `Logout`; `Abort` for an exception anywhere.  The ORM
writes only columns that differ from what was read (`Failed`, `Succeeded`), an UPDATE by
key asks nothing again (`Rotate`), a conditional UPDATE does (`Claimable`), and a lifted
stale lock holds the users row until the commit (`AccountHeldByOther`).  `vouch`, `raced`,
`redeemed` and `wrong` are history.

### DetailScreen

| model | code |
| --- | --- |
| `hook[v]` | an instance of `useAsyncData`: data, spinners, error, `inFlightRef`, and its request |
| `Load`, `Answered` | `load`, and the two callbacks of its `.then` |
| `Tick`, `Focus`, `Wake`, `Enabled` | `useAutoRefresh`: interval, focus and app-state listeners, `enabledRef` |
| `mutation[m]`, `Press`, `Succeed`, `GiveUp` | `handleRunNow`, `handleToggleActive`, `handleDelete` before and after their `await` |
| `Serve`, `Lose`, `Perform`, `Refuse` | the backend, and the network in between |
| `Scan`, `DeletedElsewhere` | the scheduler and another device |
| `owed`, `missed` | history: the change last confirmed to the user, and what was in the way of its reload |

What the backend would show of the search is a number that grows with every change, so
"older" can be said.  The session is committed before the response is sent, as a dependency
with `yield` does in releases of FastAPI in which it ends before the response; whether it does
depends on the installed release.  The screen renders the error of the search only while it has
no search to show.

### ListingsScreen

| model | code |
| --- | --- |
| `stock`, `Page` | what the user may see, and `list_listings`: filter, limit, offset, total |
| `applied`, `items`, `total`, indicators | the state of the component |
| `LoadPage`, `Indicate` | `loadPage`, with the effect that calls it when filters change (`Apply`) |
| `Tick`, `Look` | `refreshQuietly`, through `refreshRef` of `useAutoRefresh` |
| `PullToRefresh`, `LoadMore`, `Retry` | what the user does |
| `moved`, `from`, `unfetched` | history |

Filters are the sets of listings they let through, the sort is "newest"; the draft in the
filter modal and the saved-search selector are left out.

### DeviceRegistration

| model | code |
| --- | --- |
| `op[o]` | an automatic registration, a save, or an unregistration, up to its answer |
| `newest`, `latestRun` | `registrationWriteSequence`, `registrationRunIdRef`: whose number is current |
| `registered`, `cache` | `registeredDeviceToken`, `lastKnownRegistration` |
| `row`, `Upserted`, `Deleted` | `device_tokens`, `DeviceTokenRepository.upsert` and `delete_for_user` |
| `Grant`, `Registered`, `Save`, `Logout`, `Expire`, `Restart` | what the app does, and what happens to it |
| `late`, `ArriveLate` | requests that were given up but arrive |
| `disorder` | history: what was lost, killed, expired, or overlapped since all was in order |

One phone, so one token; the permission prompt is one step that grants or denies.

## 4. What the runs check

All runs finish; the bounds are those of the configurations in this directory.  An
instance with themes starts in one of several situations, and a behaviour keeps to the
actions of its theme: each race is explored in full, and unrelated ones are not multiplied.

| run | instance | shows |
| --- | --- | --- |
| `OutboxTelegram` | 1 row, 2 workers (symmetric), 1 user, 1 chat, 1 search, limit of 2 attempts | exclusive claims, repeats have a cause, failures have a cause, refinement of `AlertPromise` (hence sent means accepted, and settled is final) |
| `OutboxPush` | 2 rows of one listing, 2 users, 2 devices, 1 worker, 1 search | failed means undelivered although devices are tried in turn; only owners' devices receive although devices change hands |
| `OutboxLiveness` | 2 rows, batches of 1, a crash | every alert settles; fresh alerts do not starve |
| `Discovery` | a "run now" request and the cron job; 2 searches of a user and one without an owner; 2 listings. Themes: an owned and an ownerless search find both in either order; two searches of one user do; one listing at most, with deletions of listings and searches | discoverers and matches are attributed; attributed means alerted; `enqueue` never collides; alerts are earned; guards are given back |
| `Scan` | 4 threads in 3 processes, 6 marketplaces. Themes: three periods of the job with overruns, runs by hand, an edit and a crash; a sharing pass over every reply of three marketplaces while searches change; eBay's token shared by two threads through waits, retries and rejections; lookups | no due search is skipped; answers are a run's own; tokens outlive their use |
| `Maintenance` | 2 scripts (symmetric), 2 users, 2 searches, 3 goods on 2 marketplaces. Themes: the cleanup among scans; metadata passes; owners, attributions and alerts; preferences; and 25,000 queries and titles for the engines | wanted listings stay; passes only add; no owner and no choice is replaced; stamps alert nobody new; two alerts of a listing reach one user only from an ownerless search; asked for is found |
| `Auth` | 2 requests (symmetric). Themes: wrong passwords and lockout; sessions and their end by a reset; reset codes | an old password opens nothing; twins are explained; codes are single; limits hold but for overlaps; locks are earned |
| `Phone` | the session: 2 logins, 2 slots each for 401 handlers and restorations (symmetric), 2 tokens per login (3 while nothing is disturbed), one kind of disturbance per behaviour; or the registration: 3 operations, 2 users, 2 sounds, one late request, one kind of disorder at a time | reuse is explained; one session at a time; logout sticks; the session stays usable; nothing of the app's cache outlives a logout; app and backend agree when all was in order |
| `MobileSessionLiveness` | 2 logins, expiring tokens, failing requests, unreadable storage | restoration and logout end |
| `MobileSessionClobber` | 2 logins, no disturbance | *violated*: a logout clears the session of a later login |
| `Screens` | the screen of a search, both views, any one of its buttons per behaviour, one change; or the list, 3 listings, pages of 1, a limit of 2, 2 filters | spinners end; the effect of a button is shown unless its reload was dropped; nothing older is shown; pages fit together and are of the filters in force, and the quiet reload keeps its place, but for the named exceptions; a screen that is looked at catches up, the list while no more is loaded than the API returns at once |
| `ListingsLimit` | the list alone | *violated*: the list catches up whatever its length |

### Bounds, and why they are enough

* `AttemptBound` (3, with a limit of 2): one claim past the limit, which only
  crashes and overruns reach.  `CrashBound` and `CrashAgain` limit how many rows a pass
  dies on, and whether it may die on one twice.  `GivenUpBound` limits destinations that were
  once a user's and are not any more.  They are guards of `MCNext`, so that `Outbox` itself is
  unbounded and the proofs are about the unbounded system.
* `OutboxTelegram` has one row: what its properties say is said of each row by itself,
  and rows meet only in a batch.  The proofs cover any number of rows and workers;
  `OutboxPush` and `OutboxLiveness` have two.
* A lease of one tick and a retry interval of one tick distinguish "not yet", "just",
  and "past".
* Two runs are enough for every race of `Discovery` that the code guards against
  pairwise (two inserts, an insert and a deletion, one search twice).  Two listings
  are the least with which locks are taken in opposite orders.
* `Scan`: a period of 4 and a jitter of 1 have moments before, in and after the window in
  which the job may start; intervals of one and of two periods; 13 ticks (`MaxTime`) are
  three periods and the fourth's start.  `Backoff` is `<<1, 2>>`, so two retries with a doubled
  wait, and a `Retry-After` of 5 is longer than both.  `Margin` (8) is the least the
  assumption on it allows: one tick less, and a request with both retries may outlive its
  token.  A page of one listing, a limit of two and two pages reach the limit, the last page and
  one page fewer.  The proofs cover all the rest.
* `Maintenance`: `MaxRows` 2 and `MaxAlerts` 3 let a listing be deleted and come back, and have
  an alert with and without an owner.  Two scripts are enough for what one reads before the
  other writes.  The vocabulary has a brand, accessories of one and two words, a family with a
  related product, identifiers with and without digits, an initialism, stop words and markers; a
  query has up to four words, so that the quota of missing words takes two values.
* `Auth`: two requests overlap pairwise, as every race of the code does; `MaxTokens`, `MaxCodes`
  and `MaxWrong` are one more than what the limits of the code (2 failures, 1 guess, 1 code an
  hour) need to be overshot.  The proofs cover more requests and larger limits.
* `Phone`, the session: the code allows one 401 handler and one restoration at a time; second slots
  are there so that it could be otherwise.  Two logins make an old and a new session, two tokens
  per login a rotation (`RotationBound`), and three, as long as nothing went wrong, one rotation
  after another (`QuietBound`); the proofs cover any number of each.  A behaviour has at most one kind of disturbance
  (`DisturbedBound`), any number of times, and tokens expire only before it.  The liveness run
  has no lost replies, failed writes or restarts: requests that fail without a trace are in it,
  and nothing ends if the app is closed again and again.
* `Phone`, the registration: three operations are an automatic registration, a save or an
  unregistration, and one that a restart or a second sign-in starts beside them.
* `MCPhone` and `MCScreens` start with one of two modules in use and the other at rest (nobody
  signed in, a tab that has been left); the modules share no state but who is signed in, of which
  a registration sees any order.
* `Screens`: one change (`RowBound` 1) besides the initial state is what "older" and "newer"
  need, and the reload after a button does not ask which button it was; the proofs cover any
  number of changes and all three buttons together.  Each view has at most one request, so nothing else
  is bounded.  In the list three pages of one item are a first, a later and a last page, and three
  items pass the limit of two (in the code 20 and 100).  Every second listing passes the filter.
* Every run may stop in a state with nothing to do (every row settled, the clock at its
  bound), so deadlock checking is off; hanging is what the liveness properties exclude.

### Fairness, and why the code justifies it

* `Outbox`: `WF(Tick)`, time passes; `WF(Pass(w))`, the drain job is started again for
  ever (the script is a cron job) and a pass that does not die takes its next
  step.  No fairness of users, of scans, or of crashes.
* `Discovery`: `SF` on the steps of a run.  Weak fairness would let a run that waits for a
  row be overtaken for ever by later ones; PostgreSQL queues the waiters of a row.
  `WF` on the abort of a run that is in a deadlock or whose next statement must raise:
  the database detects both.  A `Start` is never forced on an idle thread.
* `MobileSession`: `WF` on each operation that was begun (requests have a timeout, SecureStore
  answers, timers fire) and on rendering.  Nothing makes the user tap or a request succeed.
  `RestorationEnds` and `LogoutSignsOut` exempt a SecureStore that cannot be read: nothing
  catches that in `performRestore` or `logout`, so the app stays on its loading screen, and
  logout, which `AccountScreen` (19-22) expects never to throw, ends without signing out.
  `RestorationEnds` also exempts failed deletions and writes: after a deletion that failed, a retry
  can run beside a login, and if the login's write fails too, nobody sets a status any more.
* `Screens`: `WF` on the interval and on each request being answered or
  timed out (`client.ts` gives every request a timeout); `SF` on the backend answering, that is,
  of the requests sent again and again not every one is lost.  Users owe nothing: the
  properties are about a screen that stays focused with no button pressed.
* `Scan` states what the scheduler owes as a safety property (`NoTickSkipped` counts passes),
  so it needs no fairness: its clock cannot pass a period whose job has not started.

## 5. What is proved

### Outbox

`OutboxProofs.tla`, from `OutboxAssumption` alone (numbers are numbers, sentinels are
not users; `MaxAttempts`, `BatchSize` > 0), for every number of rows, users,
destinations, searches and workers, every batch size, lease and limit, and both channels.

None of the safety properties is inductive.  `IInv` (at the end of `Outbox.tla`) adds
what they rest on:

* `PassShape`: local variables of a pass agree with its program counter.
* `Ownership`: as long as a row is undisputed (no pass kept it past its lease), the
  pass that holds it is the only one, and its status and age are those of the claim.
  This is the heart: `ExclusiveClaim` is its last conjunct.
* `FreshSnapshot`: hence what `complete` has read is still in the row when it writes.
* `NoOrphans`, `AttemptsLeft`: a calm row (no crash either) in processing has a holder; a
  calm pending row has attempts left.  Without `NoOrphans` a row could be claimed over
  and over without ever meeting the test in `complete`.
* `OutcomeIsTrue`, `ArrivalIsKnown`: what a pass is about to record is what happened.

`InvInit`, one lemma per action, and `InvNext` give `Invariance`; the theorems for
`ExclusiveClaim`, `RepeatsAreExplained`, `GivenUpForCause` and `FailedMeansUndelivered` follow, and
those for `TypeOK`, `SentMeansAccepted`, `AttemptsBounded` and the action property `SettledIsFinal`,
which no run checks by itself: conjuncts of the invariant, or implied by the refinement.
`KeepsItsPromise` proves the refinement: each action maps to a step of `AlertPromise`
or to a stutter.

`OnlyOwners` (`OnlyOwnersReceive`) needs a second invariant, `OwnerInv`, on top of `IInv`: what a pass
has still to try belongs to the owner of its row (`TargetsAreOwners`).  Destinations change hands and
searches are deleted while the pass goes from one to the next, so this is said of `known`, whose
destination it has ever been; and the owner is the *row's*, which is why the lemmas `OwnerStays...` go
through every action that writes a row, `complete`'s column-by-column flush included.

### Discovery

`DiscoveryProofs.tla`, from `DiscoveryAssumption` alone, for any number of runs, processes, searches,
listings and users, any results and any order of ids.  `IInv` relates every run `t` and its open
transaction `w` to the committed tables (`RunInv`):

* `LocksExclude` and `OnlyLocked`: what a transaction has written it has locked, and no row is locked
  twice.  This is what makes all that a run has read of a locked listing still true at its commit.
* `Held`: every listing that the run is past is locked, or touched and its UPDATE still to be sent
  (`dirty`); such a listing may be deleted meanwhile, and then the flush raises and the run never
  commits.  Without the exception the invariant is false.
* `OnRecord`, `FirstToAttribute`: what the run is past is attributed, by itself or before; what
  it attributes itself nobody has.
* `Alerted`, `FirstToAlert`: the owner has an alert for every listing the run is past, or it is in
  the queue of those it will enqueue (`fresh`); and what it has inserted nobody has.  Hence `NeverCollides`:
  the lock on the listing, not the read in `enqueue`, is what keeps two inserts apart.

`AllAttributed` and `AllAlerted` are conjuncts; `EarnedAlerts` is an action property of the commit, by counting
(each alert of a user is one of a search of his that the commit attributes); `GuardIsExact`, which no
run checks by itself, says that no guard is forgotten by any way a run can end.

### Maintenance

`MaintenanceProofs.tla`, from `MaintenanceAssumption` alone (finitely many goods, `None` is neither
a search nor a user), for any number of sessions, searches, users, goods, rows and alerts.  A
script acts on what it has read; each conjunct of `IInv` says what of that is still so when it writes:

* `CleanupInv`: what the cleanup has judged no search wants, but for searches created since
  (`Unwanted`).  It rests on a search going from new to live to gone and never back, and on the
  listing keeping its good under its id.
* `PassInv`: a row that one pass only has read is as it has read it, and no status has settled.
  That there is no second such pass is part of the invariant; without it the other's write
  would break the first two.
* `StampInv`: an alert about to be stamped was enqueued for nobody, and whoever it is stamped with has
  owned the search that found its listing (`Entitled`), also when the search has gone since.
* `OneEach`: an alert enqueued for somebody is the only such one he has of the listing.
* `CutoverInv`, `PreferInv`: a search only one cutover has read is still ownerless; a user whose backfill is
  under way has no chat of his own.

Four lemmas say what any step may do to each table (`RowsStep`, `AlertsStep`, `SearchesStep`, `AccountsStep`) and
one what a session may become (`SessionSteps`); each invariant is then one short proof.  All
five properties of the run that speak of the scripts follow.

The inductive invariants of both modules, and `OwnerInv`, were first checked by TLC on the instances of the runs.

### Connector and Scan

`ScanProofs.tla`, from `ConnectorAssumption` and `ScanAssumption`, for
any threads, processes, searches, marketplaces, times and settings.  The assumptions that
matter are about numbers: backoffs double, the margin covers every attempt and every backoff
(in the code 60 s, against 43 s for a token request, three attempts of 10 s and waits of 1 s and 2 s), the job's lateness is within its grace and half of
every interval.

* `ConnectorInv` types the requests and keeps the account of eBay's token: a request on its
  `k`-th attempt has spent at most `k` timeouts and the waits before the `k`-th of the margin it
  was handed out with (`InHand`; `Waited` sums the doubling waits), so `TokenOutlives`.  Without the
  account per attempt the bound is not inductive: a late attempt could have used the margin already.
* `ScanInv` relates a run, its request and the cache of its pass (`Own`): a request under way is for
  words and a marketplace of the run; every remembered answer is honest and younger than the
  pass; and every question of a sharing pass is answered and remembered, or is the request
  under way (`Asked`).  Hence `OwnAnswers`.
* `DueInv` is the account of periods.  After a run of a job that was on time (`AfterPrompt`), the
  passes that did not list the search were each of a period of its own, and all began before
  the interval was over, so they are fewer than the periods it begins.  After any other run
  (`AfterAny`) the first of them may have begun in the run's own period, and one more is
  lost because the run's stamp lies anywhere in it.  Hence `NoneSkipped`; the grace is
  needed where the job that should list the search is early and the stamping one was late.

### Auth

`AuthProofs.tla`, from `AuthAssumption` alone, for any number of requests, tokens and codes and
any limits and times.  `IInv` says what a request under way has read, and what of it is still so:

* `Served`, `Begun`: a request is shorter than the lockout, and there is none before the account.
* `Vouched`: a request that has not been raced holds a token that is unused, or has read the
  current password.  Hence the token it issues is vouched by the current password, and
  the token it uses has no successor yet (`Twins`).
* `Single`: a request about to issue a code that has not been raced has matched every code that
  is not used.
* `Limited`: guesses counted, and codes recorded, *plus those under way* stay within the limits
  and one less than the number of requests.  Without those under way the bound is not inductive.
* `Locking`: a login that saw no lock has read no more failures than were counted and ends before a
  lock set meanwhile does (`Unspent`); one that saw a stale lock finds that very row, or a lock
  that was lifted or is new (`Untouched`).  Hence `LiftedAlone`: whoever lifts a lock is the
  last to know the old count.

`Invariance` is followed by the five properties of the run.

### DetailScreen

`ScreensProofs.tla`, from `DetailScreenAssumption` alone, for any number of changes, reloads,
losses and presses.  `HookInv` speaks of one view:

* `OneRequest`: `inFlightRef` is set exactly while a request is in flight, and there is at most one.
  This is what all else rests on.
* `InOrder`: neither what is shown nor an answer to come is newer than the backend, and no answer
  to come is older than what is shown.  Hence `OrderTheorem`.
* `SpinnerOK`, `ShownOK`: with one request, its end is the spinner's end; hence `SpinnerTheorem` and
  `ShownTheorem` (a view without data is loading or shows an error).
* `EffectOK`: after a reload that was not dropped every answer to come is as new as the change it
  follows, and one of them, the data or the error is there.  Hence `EffectTheorem`.

One lemma says what each operator of `useAsyncData` makes of `HookInv` (`LoadKeeps`, `AnsweredKeeps`,
`ToldKeeps`, `ReloadOwes`); the steps only put them together.

### ListingsScreen

`ScreensProofs.tla`, about `List!Spec`, the specification that `MCScreens` bounds, assuming only that the page size
is a number, for any filters, limit and number of listings.  `ListInv` says, besides types:

* `OneAtATime`: `inFlightRef` is set exactly while there is a request, and there is one at most.  With
  it, a spinner's request is the only one, and its answer the next.
* `AsksForThis`: the request in flight is for the filters in force, and a next page begins where the
  list ends, unless filters were applied meanwhile.  Nothing else changes the list, so it still fits
  when the answer comes.
* `GotWhatIsThere`: an answer that is not marked as overtaken is the page the backend would return
  now, and no answer is marked while the list is not: the mark of the list covers a page added to it.
* `ItemsFit`: a list of one filter that is not marked is the beginning of that filter's result.

`BothInv` puts this invariant and that of `DetailScreen` together, for the specification of the runs, `MCSpec`, in
which a screen nobody looks at stays as it was left; `PagesFit` and `NoEndlessSpinner` follow, for any bounds.  The step that matters is that a page appended to the beginning of a
result is a longer beginning of it (`NextPage`).  `Result` is a recursive function; that it returns a
sequence is proved by the least length for which it would not (`LeastNat`, `Defined`, `ResultType`): an
induction through a set of numbers, as a theorem that takes a predicate cannot be used here.

### Relevance

`RelevanceProofs.tla`, from `RelevanceAssumption`: a listing whose title is the query, word by word, is
relevant to both engines (`FoundByItsWords`), whatever the vocabularies and however long the query, if it
is `PlainlyPut` and `relevance_min_score` (55 by default) is at most 85, what coverage and brand are worth
together; `EchoesAreFound` is the property of the run, which judges bounded queries.  No
step changes anything here: the proof is about what recursive functions compute, and the induction
theorems that take a predicate cannot be used.  `Along` and `AlongAll` therefore state induction through a *set* of
numbers, from the least number not in it, and `Recursion` that a recursive function exists and satisfies
its equation; every loop gets its lemmas from these (`WithoutKeeps`, `WeightOfAll`, `FlattenGrows`, `SpansStand`, ...).

* The legacy engine: no brand's name begins inside another (`Apart`), so a brand is found in the title exactly if
  the query names it; there is no conflict, and the core of the query is what the title holds but for the brands
  (`LegacyFinds`).  The family that is looked for is found among its own strong names; any other
  query has all of its words in the title.  Accessories are penalised only if the query names none.
* The lexical engine: each chunk stands in the text in one piece (`ChunkInText`), so a word is a token of the title and an
  identifier of at most four tokens one of its windows (`TermsHit`).  The spans that `_find_brands`
  walks over are found in the title too (`StandingIsSpan`, `BrandsAreSaid`), and stop words and brands
  are the only words left out (`AskedIsTerm`, `NotEmpty`).  Full coverage is exactly 70 points (`AllPoints`), the brand 15,
  neither penalty applies (`NoAccessory`, `NotOnlyCompatible`), and the bonus only adds (`TermsFound`).

`PlainlyPut` names the queries this is not true of, each found by a failed proof or by TLC; section 6 lists them.

### MobileSession

`PhoneProofs.tla`, from `MobileSessionAssumption` alone (`Nothing` is no login and no token, the
operations are distinct), for any number of logins, runs and rotations and with every disturbance of
the model.  `SessionIInv` has four layers, because the properties hold under different conditions, and
each layer is only true as long as its condition is:

* `Basics`, always: types; who waits for SecureStore waits there once, in a step that uses it (`Queue`);
  at most one run of the 401 handler and one restoration (`OneEach`); every token held anywhere was
  issued (`Genuine`), and one just received is known to nobody else (`Unique`).
* `SoundInv`, as long as SecureStore works: what the steps of an operation may rely on.  For every status
  it says what a run *that is not stale* has read and holds (`SignedIn`, `WhileRestoring`,
  `RestorationFailed`, `SignedOut`), and where the order of the calls waiting for SecureStore matters:
  what has begun while a session is being cleared waits behind the deletion (`WhileClearing`), what
  has begun while a login stores its token waits behind that (`WhileLoggingIn`), and a token written
  too late is found and removed before the logout's own deletion (`WhileUndoing`).  Hence `OneSessionHolds`.
* `EndingInv`, unless the app is killed either: a session the app has begun to end is stored, or used by
  what is current, only while a logout is on its way.  Hence `LogoutSticksHolds`.
* `QuietInv`, while nothing is disturbed: the stored token, and one just received, are not revoked, but for
  sessions that end or a successor about to be stored; and the token of a stale run that is still to be
  presented is of a session that ends.  Hence `SessionStaysUsableHolds` and `ReuseIsExplainedHolds`.
  It needs `OneCurrent`: of two current runs one is a restoration that waits for the other, or both
  are about to find no token.

Beside the layers stand two facts about waiting.  `WaitersAreServed`, always: a restoration that waits for
a refresh waits for one that is under way, since a run of the 401 handler that ends lets all of them
go.  With the queue of `Basics` it gives `NobodyIsStuck`: while anything is under way, some operation waits for
its answer, its timer or its turn at SecureStore, and for nothing else.  `GoingOn`, as long as SecureStore
works: while the status is "restoring", a restoration that is not stale is under way, or a `clearSession`.  It
needs `SoundInv`, which keeps a login away from a restoration, and gives `RestorationIsNeverAbandoned`, the
safety half of `RestorationEnds`: whoever makes a restoration stale (the hazard at
`AuthContext.tsx:298`) sees to the status itself.  No run lists the two; TLC was used to look for a
counterexample before the proof.

A proof action by action would repeat itself for each operation and each layer.  `StepKinds` shows instead
that every step is of one of some twenty kinds (an operation drops out, presents a token, stores what it got,
clears the session, ...), a `...Facts` lemma says once what a kind changes, and each layer is shown
to survive each kind.

Looking for `QuietInv` showed that the model had let a user tap an error screen that was two
statuses old; TLC finds `ReuseIsExplained` violated then, once a login may rotate twice.  `OnErrorScreen`
(section 3) is what rules it out, and `QuietBound` has the run rotate twice since.

### DeviceRegistration

`PhoneProofs.tla`, about `Phone!Spec`, the specification that `MCPhone` bounds, assuming only that `Null` and `Unset` are none of the other values
(`Distinct`), for any users, sounds and number of operations under way.

* `PhoneFresh`: the operation whose sequence number is current was begun after the last logout, and so was
  what is cached.  Hence `NothingOldIsKept`.
* `PhoneFounded`: what is cached is of a registered phone, so a sound is saved for such a phone only.
* `PhoneInOrder`, as long as nothing was lost, killed or crossed: there is one operation at most.  Signed
  out, nothing is registered; in a logout, what is registered is being unregistered; signed in, the
  request under way is the newest and its answer will be so, or app and backend agree already.
  Hence `BothAgree`.

Model-checked only: everything temporal under fairness (`EveryAlertSettles`,
`FreshIsServed`, `GuardIsReleased`, `RestorationEnds`, `LogoutSignsOut`, `ScreensCatchUp`), which the prover does
not reach.  Of `RestorationEnds` the safety half is proved (`RestorationIsNeverAbandoned`).

## 6. Where code and text differ

Shown by a run:

* **Logout clears a newer session** (`MobileSessionClobber`).  `AuthContext.tsx` says every
  operation re-checks its generation before it applies anything.  Logout does not: when the
  401 handler has cleared the session before it and the user has logged in again, logout
  revokes and wipes the new session.
* **A list of more than 100 items never reloads by itself** (`ListingsLimit`).  `ListingsScreen.tsx:105`
  says as many items are re-fetched as are loaded; the API refuses a limit above 100 with a 422,
  and the quiet reload swallows it.

What `ReuseIsExplained` allows, because it happens: a lost reply, a late arrival or a killed app
makes the next refresh present a rotated token (`AuthContext.tsx:25-31` takes such a token to be
"never evaluated"), and so does a 401 that follows a logout which has just discarded a refresh.
The backend then revokes every session of the account.  Likewise a token that could not be
deleted at logout is not as harmless as `clearSession` (159-163) says: presenting it is reuse.

Met while modelling, allowed for in the properties or left to a reader (paths under
`src/marketplace_alert/` unless given in full):

* `core/persistence/models.py:396-398` says that counting attempts at claim time keeps a message
  that crashes its sender from being retried for ever.  The count is compared with the limit only in
  `complete`, which such a pass never reaches: `claim_batch` never looks at it.
* `core/persistence/repository.py:94-97` says neither of two racing scans "sees an error" in
  `get_or_create`.  Two runs that insert the same two listings in opposite orders deadlock, and the one
  PostgreSQL aborts loses its run (`Discovery` has it: `Deadlocked`); the next tick finds the listings again.
* `src/mobile/README.md:167-169` says a background refetch "can never race" a button.  The pause keeps new
  ones from starting; one that is in flight makes `load` drop the reload after the button, and the old
  state stays until the next tick.  `EffectIsShown` exempts it.
* `src/mobile/README.md:179`: filters apply "immediately".  A page they ask for while another request is in
  flight is dropped, and the list of the old filters arrives under the new ones, until the next quiet reload.
* `src/mobile/README.md:215-218`: `ListingsScreen` reloads quietly like `useAsyncData`.  There a quiet success
  clears the error, here it stays above a list that is up to date (`ListingsScreen.tsx:121-122`).
* `pushNotifications.ts:314-315`: the cache reflects "exactly what the backend now has stored".  Two saves of a
  sound, the second made after leaving and reopening the screen, may be served in the other order.
* `pushNotifications.ts:301-306` calls a registration left behind harmless.  A logout while the registration
  is unanswered sends no unregister at all (293-296), and the app, still installed, goes on receiving
  the alerts of the user who left.  `Agreement` exempts both.
* `core/persistence/database.py:134`: the session of a request is committed when the dependency is left, which
  in recent releases of FastAPI is after the response was sent; the reload that follows a button may then
  be served before its change.  The models commit first.
* `core/scheduler/guard.py:3-6` says a search is never scanned by two paths at once.  The guard is
  of one process and the cron job is another; unique keys and row locks make that harmless
  (`Discovery` has both processes).
* `core/notifications/outbox.py:35-36` sends a refused row back "to retry next drain".  Batches take
  rows never attempted first and then the oldest (`notification_outbox.py:210`): a refused row
  can wait behind older ones that come due again and again without a destination.
* `src/scripts/drain_notification_outbox.py:18-19` says a failing channel "cannot block" the other;
  an exception of the Telegram pass returns at line 75, before the push pass.
* `outbox.py:104-107` rests "one row per listing" on a UNIQUE constraint that has since become one
  per user and listing.
* `api/v1/auth.py:137-142` and `core/auth/service.py:344-348` promise "no window in which both" tokens
  are valid.  Two requests that read the token before either commits both rotate it, as `revoke`
  (`repository.py:118-125`) does not ask the row again: two successors are valid.  `TwinsAreExplained`
  allows exactly that.
* Lifting a stale lock (`service.py`, `login`) writes NULL over whatever the lock says by
  now: of two logins at once, one may lift the lock the other has just set.  `LockIsEarned` says
  the converse only.
* `connectors/ebay/token_manager.py:43-44`, the margin that keeps a token from "going stale
  mid-call": a `Retry-After` is slept through with the same headers (`core/connectors/retry.py`).
  `TokenOutlivesItsUse` allows those seconds.  A rejection drops whichever token the process
  has by then, also one that another thread has just been given.
* `core/saved_searches/repository.py:153-154`: the grace "can never make a short-interval search due
  again right after it ran".  The stamp is the start of the pass: after a pass that overran, a search
  that ran at its end is due at once.  And a pass stamps after a "run now" with an earlier time,
  so `last_scanned_at` may go back.  `NoTickSkipped` bounds lateness, not frequency.
* A search paused after a pass has listed it still runs (`scanner.py` asks again only whether it exists).
* A page whose entries are all malformed counts as an empty result in every connector.
* `core/persistence/cleanup.py:1-2` and 46-53: the cleanup uses "the CURRENT relevance engine", and
  judging by title "can only ever make a historical evaluation more conservative".  It calls the legacy
  engine whatever the setting, and a listing that names the brand only in its description is
  relevant to a scan and removed by the cleanup.  `WantedStays` is about what the title shows.
* `core/auth/bootstrap.py`, `assign_saved_searches_to_user`: an owned search "is never at risk of being
  reassigned".  Two cutovers that overlap have both read it ownerless (`NothingChosenIsReplaced`
  exempts them).
* `core/relevance/engine_v2.py:37-39` penalises accessory words the title offers and "the query did not ask for".
  What was asked for is taken from the *terms* (line 380), without the brands: "cable" is an accessory word and
  part of the brand Porter Cable, so that the search "Porter Cable drill" scores a listing of exactly
  that title 70 + 10 + 15 - 50 = 45 of the 55 it needs.  `PlainlyPut` asks that an accessory word be a term.
* The other queries `PlainlyPut` leaves out: one of stop words only is empty to the lexical engine; a word said twice ("yo
  yo") counts once in the title and twice in the query of the legacy one; one whose family or accessory is only named when a brand is cut out
  of its middle; an identifier of more than four tokens fits into no window; a word of compatibility
  ("for", "fits") before everything that is asked for makes the title one of something compatible.
* `notification_user_backfill.py`: stamping a row whose owner already has one of that listing violates
  the unique constraint and ends the whole job, every time it is run.

## 7. What is left

Every safety property of a passing run is proved (section 5).  `LogoutEndsItsSession`
and `ListCatchesUp` are false, as their runs show.

Not modelled: the other mobile screens (the lists of saved searches and of marketplaces, the home
screen and the forms load with the same hooks and keep nothing else across requests), the migrations (generated DDL under one lock), HTTP routing, the dashboard, the admin
pages and the legacy `/scan` route (serialisation, or calls of what is modelled), the fields of
a listing and how requests to providers and marketplaces are put together, tokenising and
the vocabularies of the relevance engines, bcrypt and the stateless access token.
