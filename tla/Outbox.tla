------------------------------- MODULE Outbox -------------------------------
(***************************************************************************)
(* The notification outbox: one channel of the table pending_notifications *)
(* (core/persistence/notification_outbox.py) and the drain passes that     *)
(* claim, resolve, deliver and complete its rows                           *)
(* (core/notifications/outbox.py).  The Telegram columns and the push_*    *)
(* columns go through the same life cycle, so the channel is a parameter:  *)
(* Telegram has at most one destination per user, push has a set of        *)
(* devices and delivers to each of them in turn.                           *)
(*                                                                         *)
(* Every database session of the code is one step, except complete(),      *)
(* which reads the row without a lock and writes it later: those are two   *)
(* steps.  Nothing is locked between the steps, so the passes of several   *)
(* processes interleave freely.                                            *)
(***************************************************************************)
EXTENDS Integers, FiniteSets

CONSTANTS
    Notification,        \* ids of outbox rows, in the order of created_at
    Listing,             \* discovered listings
    ListingOf,           \* the listing each row is about
    User,                \* registered users
    Search,              \* saved searches
    Destination,         \* chat ids (Telegram) or device tokens (push)
    Worker,              \* processes that run drain passes
    Channel,             \* "telegram" or "push"
    ProviderEnabled,     \* provider.is_enabled
    BatchSize,           \* settings.notification_outbox_batch_size
    Lease,               \* settings.notification_lease_seconds
    NoDestinationRetry,  \* settings.notification_no_destination_retry_seconds
    MaxAttempts,         \* settings.notification_max_attempts
    NoUser,              \* user_id IS NULL
    NoSearch             \* discovered_by_saved_search_id IS NULL

ASSUME OutboxAssumption ==
    /\ Notification \subseteq Nat
    /\ ListingOf \in [Notification -> Listing]
    /\ Channel \in {"telegram", "push"}
    /\ ProviderEnabled \in BOOLEAN
    /\ BatchSize \in Nat \ {0}
    /\ Lease \in Nat
    /\ NoDestinationRetry \in Nat
    /\ MaxAttempts \in Nat \ {0}
    /\ NoUser \notin User
    /\ NoSearch \notin Search

VARIABLES
    row,         \* the table pending_notifications, columns of this channel
    searchUser,  \* the owner of each saved search; NoUser: unowned or deleted
    dests,       \* where each user can be reached now
    pc,          \* where each worker is in drain_pending_notifications
    batch,       \* the claimed rows a worker has not completed yet
    fresh,       \* those of them that had never been attempted when claimed
    todo,        \* destinations the current delivery has still to try
    outcome,     \* (success, error) of the current delivery so far
    snap,        \* the columns complete() read from the row it will write
    \* What really happened, not known to the code:
    accepted,    \* destinations at which a row's message arrived
    repeated,    \* those at which it arrived more than once
    known,       \* destinations that have ever been each user's
    disturbed    \* what interfered with the passes that held a row

table   == <<row, searchUser, dests>>
passes  == <<pc, batch, fresh, todo, outcome, snap>>
history == <<accepted, repeated, known, disturbed>>
vars    == <<row, searchUser, dests, pc, batch, fresh, todo, outcome, snap,
             accepted, repeated, known, disturbed>>

-----------------------------------------------------------------------------
Error  == {"awaiting", "unresolved", "provider"}
Status == {"absent", "pending", "processing", "sent", "failed", "deleted"}
Never  == -1   \* last_attempted_at IS NULL

\* claimed_at and last_attempted_at are kept as ages.  The code compares them
\* with the lease and with the retry interval only, so an age stops growing
\* once it is past them.  claimed_at is read only while the status is
\* processing and how long ago the last attempt was only while it is pending:
\* Canonical sets an age to 0 when it no longer counts.
Row == [status     : Status,
        user       : User \cup {NoUser},
        finder     : Search \cup {NoSearch},
        attempts   : Nat,
        claimAge   : 0..(Lease + 1),
        attemptAge : {Never} \cup 0..NoDestinationRetry,
        error      : Error \cup {"null"}]

Canonical(r) ==
    [r EXCEPT !.claimAge = IF r.status = "processing" THEN @ ELSE 0,
              !.attemptAge = IF r.status # "pending" /\ @ # Never THEN 0 ELSE @]

Snapshot == [status : Status, attempts : Nat, error : Error \cup {"null"}]

NoSnapshot == [status |-> "absent", attempts |-> 0, error |-> "null"]

Absent == [status |-> "absent", user |-> NoUser, finder |-> NoSearch,
           attempts |-> 0, claimAge |-> 0, attemptAge |-> Never,
           error |-> "null"]

TypeOK ==
    /\ row \in [Notification -> Row]
    /\ searchUser \in [Search -> User \cup {NoUser}]
    /\ dests \in [User -> SUBSET Destination]
    /\ pc \in [Worker -> {"idle", "resolve", "send", "read", "write"}]
    /\ batch \in [Worker -> SUBSET Notification]
    /\ fresh \in [Worker -> SUBSET Notification]
    /\ todo \in [Worker -> SUBSET Destination]
    /\ outcome \in [Worker -> {"none", "ok"} \cup Error]
    /\ snap \in [Worker -> Snapshot]
    /\ accepted \in [Notification -> SUBSET Destination]
    /\ repeated \in [Notification -> SUBSET Destination]
    /\ known \in [User -> SUBSET Destination]
    /\ disturbed \in [Notification -> SUBSET {"crash", "overrun", "lostReply"}]

Init ==
    /\ row = [n \in Notification |-> Absent]
    /\ searchUser \in [Search -> User \cup {NoUser}]
    /\ dests = [u \in User |-> {}]
    /\ pc = [w \in Worker |-> "idle"]
    /\ batch = [w \in Worker |-> {}]
    /\ fresh = [w \in Worker |-> {}]
    /\ todo = [w \in Worker |-> {}]
    /\ outcome = [w \in Worker |-> "none"]
    /\ snap = [w \in Worker |-> NoSnapshot]
    /\ accepted = [n \in Notification |-> {}]
    /\ repeated = [n \in Notification |-> {}]
    /\ known = [u \in User |-> {}]
    /\ disturbed = [n \in Notification |-> {}]

-----------------------------------------------------------------------------
\* The rest of the system, as far as the outbox sees it.

Exists(n) == row[n].status \notin {"absent", "deleted"}

SameListing(n) ==
    {m \in Notification : ListingOf[m] = ListingOf[n] /\ row[m].status # "absent"}

\* enqueue: a scan commits the row of listing ListingOf[n] for user u.  A row
\* without an owner is always inserted, a row with one only if that user has
\* none for the listing yet.  The discovering search is the listing's.
Enqueue(n, u, s) ==
    /\ row[n].status = "absent"
    /\ \A m \in SameListing(n) : /\ Exists(m)
                                 /\ row[m].finder = s
                                 /\ u # NoUser => row[m].user # u
    /\ row' = [row EXCEPT ![n] = [Absent EXCEPT !.status = "pending",
                                                !.user = u,
                                                !.finder = s]]
    /\ UNCHANGED <<searchUser, dests, passes, history>>

\* The historical cleanup deletes a listing; its rows go with it (CASCADE).  A
\* pass that claimed one has its own copy of the owner and the search, which
\* the model keeps in place of the row.
DeleteListing(l) ==
    LET gone == {n \in Notification : Exists(n) /\ ListingOf[n] = l} IN
    /\ gone # {}
    /\ row' = [n \in Notification |->
                  IF n \in gone
                  THEN [Absent EXCEPT !.status = "deleted",
                                      !.user = row[n].user,
                                      !.finder = row[n].finder]
                  ELSE row[n]]
    /\ UNCHANGED <<searchUser, dests, passes, history>>

\* A user deletes a saved search: rows found by it lose their fallback owner.
DeleteSearch(s) ==
    /\ searchUser[s] # NoUser
    /\ searchUser' = [searchUser EXCEPT ![s] = NoUser]
    /\ UNCHANGED <<row, dests, passes, history>>

Reach(u, D) ==
    /\ dests' = [v \in User |-> IF v = u THEN D
                                ELSE IF Channel = "push" THEN dests[v] \ D ELSE dests[v]]
    /\ known' = [known EXCEPT ![u] = @ \cup D]
    /\ UNCHANGED <<row, searchUser, passes, accepted, repeated, disturbed>>

\* upsert_telegram_chat_id: a user sets or clears the one chat id.
SetChat(u, D) ==
    /\ Channel = "telegram"
    /\ Cardinality(D) <= 1 /\ D # dests[u]
    /\ Reach(u, D)

\* DeviceTokenRepository.upsert: a token belongs to whoever registered it last.
RegisterDevice(u, d) ==
    /\ Channel = "push"
    /\ d \notin dests[u]
    /\ Reach(u, dests[u] \cup {d})

\* DeviceTokenRepository.delete_for_user
UnregisterDevice(u, d) ==
    /\ Channel = "push"
    /\ d \in dests[u]
    /\ dests' = [dests EXCEPT ![u] = @ \ {d}]
    /\ UNCHANGED <<row, searchUser, passes, history>>

\* Time passes.  A worker that still holds a row when its lease runs out has
\* overrun it: from then on another pass may claim the row under its feet.
Tick ==
    LET Older(r) ==
            CASE r.status = "processing" /\ r.claimAge <= Lease ->
                    [r EXCEPT !.claimAge = @ + 1]
              [] r.status = "pending" /\ r.attemptAge \in 0..(NoDestinationRetry - 1) ->
                    [r EXCEPT !.attemptAge = @ + 1]
              [] OTHER -> r
        Overrun(n) == /\ row[n].status = "processing" /\ row[n].claimAge = Lease
                      /\ \E w \in Worker : n \in batch[w]
    IN  /\ row' = [n \in Notification |-> Older(row[n])]
        /\ disturbed' = [n \in Notification |->
                            IF Overrun(n) THEN disturbed[n] \cup {"overrun"}
                                          ELSE disturbed[n]]
        /\ UNCHANGED <<searchUser, dests, passes, accepted, repeated, known>>

-----------------------------------------------------------------------------
\* Phase 1: claim_batch, committed before anything else happens.

\* Mutant: the lease is not tested.
ClaimableNoLease(n) ==
    row[n].status \in {"pending", "processing"}

\* Mutant: the lease ends a moment early.
ClaimableAtLease(n) ==
    \/ row[n].status = "pending"
    \/ row[n].status = "processing" /\ row[n].claimAge >= Lease

\* Mutant: an abandoned claim is never taken over.
ClaimableNoReclaim(n) ==
    row[n].status = "pending"

\* The WHERE clause.  With last_error NULL the comparison with the sentinel is
\* NULL, not true, so only the other two alternatives can admit the row.
Claimable(n) ==
    \/ /\ row[n].status = "pending"
       /\ \/ row[n].error \notin {"awaiting", "null"}
          \/ row[n].attemptAge = Never
          \/ row[n].attemptAge >= NoDestinationRetry
    \/ /\ row[n].status = "processing"
       /\ row[n].claimAge > Lease

\* Mutant: oldest first, whether attempted before or not.
BeforeByAge(m, n, first) ==
    m < n

\* ORDER BY last_attempted_at IS NULL DESC, created_at ASC
Before(m, n, first) ==
    IF (m \in first) = (n \in first) THEN m < n ELSE m \in first

NeverTried == {n \in Notification : row[n].attemptAge = Never}

ClaimBatch(w) ==
    LET due == {n \in Notification : Claimable(n)} IN
    /\ pc[w] = "idle"
    /\ ProviderEnabled
    /\ \E S \in SUBSET due :
          /\ S # {}
          /\ Cardinality(S) <= BatchSize
          /\ S # due => Cardinality(S) = BatchSize
          /\ \A m \in S, n \in due \ S : Before(m, n, NeverTried)
          /\ row' = [n \in Notification |->
                        IF n \in S
                        THEN Canonical([row[n] EXCEPT !.status = "processing",
                                                      !.claimAge = 0,
                                                      !.attempts = @ + 1])
                        ELSE row[n]]
          /\ batch' = [batch EXCEPT ![w] = S]
          /\ fresh' = [fresh EXCEPT ![w] = S \cap NeverTried]
    /\ pc' = [pc EXCEPT ![w] = "resolve"]
    /\ UNCHANGED <<searchUser, dests, todo, outcome, snap, history>>

\* The loop of drain_pending_notifications takes the claimed rows in the order
\* the query returned them; a row leaves batch[w] when it is completed.
Current(w, n) ==
    /\ n \in batch[w]
    /\ \A m \in batch[w] \ {n} : Before(n, m, fresh[w])

-----------------------------------------------------------------------------
\* Phase 2: resolve_destination and _deliver, with no session open.

\* Mutant: the discovering search decides, even about a stamped row.
OwnerOfFinder(n) ==
    IF row[n].finder # NoSearch THEN searchUser[row[n].finder] ELSE row[n].user

\* The stamped owner is preferred; a row without one falls back to the owner
\* of the search that discovered its listing.
OwnerOf(n) ==
    IF row[n].user # NoUser THEN row[n].user
    ELSE IF row[n].finder # NoSearch THEN searchUser[row[n].finder]
    ELSE NoUser

Undeliverable(w, e) ==
    /\ outcome' = [outcome EXCEPT ![w] = e]
    /\ pc' = [pc EXCEPT ![w] = "read"]
    /\ UNCHANGED todo

ResolveDestination(w) ==
    /\ pc[w] = "resolve"
    /\ \E n \in batch[w] :
          /\ Current(w, n)
          /\ \/ /\ OwnerOf(n) = NoUser
                /\ Undeliverable(w, "unresolved")
             \/ /\ OwnerOf(n) # NoUser
                /\ dests[OwnerOf(n)] = {}
                /\ Undeliverable(w, "awaiting")
             \/ /\ OwnerOf(n) # NoUser
                /\ dests[OwnerOf(n)] # {}
                /\ todo' = [todo EXCEPT ![w] = dests[OwnerOf(n)]]
                /\ pc' = [pc EXCEPT ![w] = "send"]
                /\ UNCHANGED outcome
    /\ UNCHANGED <<table, batch, fresh, snap, history>>

\* What a call of the provider can do to the message, and what it can report.
Arrives(n, d) ==
    /\ accepted' = [accepted EXCEPT ![n] = @ \cup {d}]
    /\ repeated' = [repeated EXCEPT ![n] = IF d \in accepted[n] THEN @ \cup {d} ELSE @]

Delivered(w) ==
    outcome' = [outcome EXCEPT ![w] = "ok"]

\* Mutant: the exception of the provider is swallowed.
RefusedSwallowed(w) ==
    outcome' = [outcome EXCEPT ![w] = "ok"]

\* Mutant: the last device decides.
RefusedLastWins(w) ==
    outcome' = [outcome EXCEPT ![w] = "provider"]

\* One device that fails does not undo another's success.
Refused(w) ==
    outcome' = [outcome EXCEPT ![w] = IF @ = "ok" THEN "ok" ELSE "provider"]

\* _deliver: one call of send_listing_alert; push makes one per device.
Deliver(w, d) ==
    /\ pc[w] = "send"
    /\ d \in todo[w]
    /\ \E n \in batch[w] :
          /\ Current(w, n)
          /\ \/ /\ Arrives(n, d)
                /\ Delivered(w)
                /\ UNCHANGED disturbed
             \/ /\ Refused(w)
                /\ UNCHANGED <<accepted, repeated, disturbed>>
             \/ /\ Arrives(n, d)     \* the reply is lost: an error after all
                /\ Refused(w)
                /\ disturbed' = [disturbed EXCEPT ![n] = @ \cup {"lostReply"}]
    /\ todo' = [todo EXCEPT ![w] = @ \ {d}]
    /\ pc' = [pc EXCEPT ![w] = IF todo[w] = {d} THEN "read" ELSE "send"]
    /\ UNCHANGED <<table, batch, fresh, snap, known>>

-----------------------------------------------------------------------------
\* Phase 3: complete, one transaction per row.

\* The pass goes on with the next claimed row, or returns.
NextRow(w, n) ==
    /\ batch' = [batch EXCEPT ![w] = @ \ {n}]
    /\ fresh' = [fresh EXCEPT ![w] = @ \ {n}]
    /\ pc' = [pc EXCEPT ![w] = IF batch[w] = {n} THEN "idle" ELSE "resolve"]
    /\ outcome' = [outcome EXCEPT ![w] = "none"]
    /\ snap' = [snap EXCEPT ![w] = NoSnapshot]
    /\ UNCHANGED todo

\* session.get(): a row that is gone has nothing to record.
CompleteRead(w) ==
    /\ pc[w] = "read"
    /\ \E n \in batch[w] :
          /\ Current(w, n)
          /\ \/ /\ ~Exists(n)
                /\ NextRow(w, n)
             \/ /\ Exists(n)
                /\ snap' = [snap EXCEPT ![w] = [status |-> row[n].status,
                                                attempts |-> row[n].attempts,
                                                error |-> row[n].error]]
                /\ pc' = [pc EXCEPT ![w] = "write"]
                /\ UNCHANGED <<batch, fresh, todo, outcome>>
    /\ UNCHANGED <<table, history>>

\* Mutant: Case A is a failure like any other.
CompletedNoCaseA(s, result) ==
    CASE result = "ok" -> [s EXCEPT !.status = "sent", !.error = "null"]
      [] OTHER -> [s EXCEPT !.status = IF s.attempts >= MaxAttempts THEN "failed" ELSE "pending",
                            !.error = result]

\* The columns complete() assigns, computed from the row it read.
Completed(s, result) ==
    CASE result = "ok" ->
            [s EXCEPT !.status = "sent", !.error = "null"]
      [] result = "awaiting" ->
            [s EXCEPT !.status = "pending",
                      !.attempts = IF @ > 0 THEN @ - 1 ELSE 0,
                      !.error = result]
      [] OTHER ->
            [s EXCEPT !.status = IF s.attempts >= MaxAttempts THEN "failed" ELSE "pending",
                      !.error = result]

\* The flush writes last_attempted_at and the columns that differ from what
\* was read, over whatever the row holds by now.
Flushed(r, old, new) ==
    Canonical(
        [r EXCEPT !.status     = IF new.status = old.status THEN @ ELSE new.status,
                  !.attempts   = IF new.attempts = old.attempts THEN @ ELSE new.attempts,
                  !.error      = IF new.error = old.error THEN @ ELSE new.error,
                  !.attemptAge = 0])

\* A pass ends before its time: its process died, or a session raised, which
\* nothing in the drain loop catches.  The rows it held stay as they are.
EndPass(w) ==
    /\ batch' = [batch EXCEPT ![w] = {}]
    /\ fresh' = [fresh EXCEPT ![w] = {}]
    /\ todo' = [todo EXCEPT ![w] = {}]
    /\ pc' = [pc EXCEPT ![w] = "idle"]
    /\ outcome' = [outcome EXCEPT ![w] = "none"]
    /\ snap' = [snap EXCEPT ![w] = NoSnapshot]
    /\ disturbed' = [n \in Notification |->
                        IF n \in batch[w] THEN disturbed[n] \cup {"crash"} ELSE disturbed[n]]
    /\ UNCHANGED <<accepted, repeated, known>>

CompleteWrite(w) ==
    /\ pc[w] = "write"
    /\ \E n \in batch[w] :
          /\ Current(w, n)
          /\ \/ /\ Exists(n)
                /\ row' = [row EXCEPT ![n] =
                              Flushed(@, snap[w], Completed(snap[w], outcome[w]))]
                /\ NextRow(w, n)
                /\ UNCHANGED history
             \/ /\ ~Exists(n)        \* the UPDATE matches no row and raises
                /\ EndPass(w)
                /\ UNCHANGED row
    /\ UNCHANGED <<searchUser, dests>>

Abort(w) ==
    /\ pc[w] # "idle"
    /\ EndPass(w)
    /\ UNCHANGED table

-----------------------------------------------------------------------------
Environment ==
    \/ \E n \in Notification, u \in User \cup {NoUser}, s \in Search \cup {NoSearch} :
          Enqueue(n, u, s)
    \/ \E l \in Listing : DeleteListing(l)
    \/ \E s \in Search : DeleteSearch(s)
    \/ \E u \in User, D \in SUBSET Destination : SetChat(u, D)
    \/ \E u \in User, d \in Destination : RegisterDevice(u, d)
    \/ \E u \in User, d \in Destination : UnregisterDevice(u, d)

Pass(w) ==
    \/ ClaimBatch(w)
    \/ ResolveDestination(w)
    \/ \E d \in Destination : Deliver(w, d)
    \/ CompleteRead(w)
    \/ CompleteWrite(w)

Next ==
    \/ Environment
    \/ Tick
    \/ \E w \in Worker : Pass(w)
    \/ \E w \in Worker : Abort(w)

Spec == Init /\ [][Next]_vars

\* The drain job is scheduled forever and a pass that does not die goes on;
\* time passes.  Nothing makes a user or a scan act.
Fairness == WF_vars(Tick) /\ \A w \in Worker : WF_vars(Pass(w))

-----------------------------------------------------------------------------
\* Properties.

Holders(n) == {w \in Worker : n \in batch[w]}

\* A row is marked sent only when the provider took its message: no outcome of
\* a crashed, overtaken or misrouted pass is ever recorded as a success.
SentMeansAccepted ==
    \A n \in Notification : row[n].status = "sent" => accepted[n] # {}

\* SKIP LOCKED and the lease make a claim exclusive: as long as no pass kept
\* the row past its lease, crashes of other passes included, at most one pass
\* works on it.
ExclusiveClaim ==
    \A n \in Notification : "overrun" \notin disturbed[n] =>
        \A v, w \in Holders(n) : v = w

\* A destination gets a message twice only if a pass that held the row died,
\* overran its lease, or lost the provider's reply; in no other interleaving
\* of passes, deletions and changes of destination.
RepeatsAreExplained ==
    \A n \in Notification : disturbed[n] = {} => repeated[n] = {}

\* The attempt limit holds for every row no pass died on or overran: claims
\* are counted before the attempt, the limit is tested after it, and waiting
\* for a destination gives its attempt back.
AttemptsBounded ==
    \A n \in Notification :
        disturbed[n] \cap {"crash", "overrun"} = {} => row[n].attempts <= MaxAttempts

\* A notification is given up only after MaxAttempts claims, and never for the
\* lack of a destination (Case A), whatever the user does meanwhile.
GivenUpForCause ==
    \A n \in Notification :
        row[n].status = "failed" /\ "overrun" \notin disturbed[n] =>
            /\ row[n].attempts >= MaxAttempts
            /\ row[n].error \in {"provider", "unresolved"}

\* A notification given up has reached nobody, unless a reply was lost or a
\* pass died or overran.
FailedMeansUndelivered ==
    \A n \in Notification :
        row[n].status = "failed" /\ disturbed[n] = {} => accepted[n] = {}

\* The security rule of outbox.py: a message arrives only at a destination
\* that has been the row's own owner's: the stamped user's, or that of the
\* owner of the discovering search when the row has none.
OnlyOwnersReceive ==
    \A n \in Notification : \A d \in accepted[n] :
        \E u \in User :
            /\ d \in known[u]
            /\ IF row[n].user # NoUser
               THEN u = row[n].user
               ELSE row[n].finder # NoSearch /\ searchUser[row[n].finder] \in {u, NoUser}

\* An outcome once recorded stays: without an overrun nothing reopens a row
\* that was sent or given up.
SettledIsFinal ==
    [][\A n \in Notification :
          row[n].status \in {"sent", "failed"} /\ "overrun" \notin disturbed[n] =>
              row'[n].status \in {row[n].status, "deleted"}]_vars

\* The promise the outbox keeps (AlertPromise).
PromiseState(n) ==
    CASE row[n].status = "absent"                    -> "none"
      [] row[n].status \in {"pending", "processing"} -> "due"
      [] row[n].status = "sent"                      -> "delivered"
      [] row[n].status = "failed"                    -> "abandoned"
      [] row[n].status = "deleted"                   -> "withdrawn"

Promise == INSTANCE AlertPromise WITH
    Alert     <- Notification,
    state     <- [n \in Notification |-> PromiseState(n)],
    received  <- {n \in Notification : accepted[n] # {}},
    contested <- {n \in Notification : "overrun" \in disturbed[n]}

\* The drain passes implement AlertPromise: at-least-once delivery, and no
\* settled alert reopened unless passes overlapped on it.
KeepsPromise == Promise!PromiseSpec

Open(n)    == row[n].status \in {"pending", "processing"}
Settled(n) == row[n].status \in {"sent", "failed", "deleted"}
Reachable(n) == OwnerOf(n) = NoUser \/ dests[OwnerOf(n)] # {}

\* No alert is lost silently: once no row waits for its owner to set up a
\* destination, each is eventually sent or, after its attempts, marked failed,
\* although passes die and leave rows in processing.
EveryAlertSettles ==
    <>[](\A n \in Notification : Reachable(n)) =>
        \A n \in Notification : Open(n) ~> Settled(n)

\* A notification never attempted is eventually attempted, however many rows
\* that wait for a destination come round again (the ORDER BY of claim_batch).
FreshIsServed ==
    \A n \in Notification :
        (row[n].status = "pending" /\ row[n].attemptAge = Never) ~>
            ~(row[n].status = "pending" /\ row[n].attemptAge = Never)

-----------------------------------------------------------------------------
(***************************************************************************)
(* The inductive invariant.  A row is undisputed while no pass has kept it *)
(* past its lease, and calm while no pass died on it either.               *)
(***************************************************************************)
Undisputed(n) == "overrun" \notin disturbed[n]
Calm(n)       == disturbed[n] \cap {"crash", "overrun"} = {}

\* The local state of a pass agrees with where it is.
PassShape ==
    \A w \in Worker :
        /\ pc[w] = "idle" <=> batch[w] = {}
        /\ fresh[w] \subseteq batch[w]
        /\ todo[w] # {} => pc[w] = "send"
        /\ pc[w] \in {"idle", "resolve"} => outcome[w] = "none"
        /\ pc[w] \in {"read", "write"} => outcome[w] # "none"

\* A pass owns every undisputed row it holds: nobody else holds it, and its
\* status and lease are those of the claim.
Ownership ==
    \A w \in Worker : \A n \in batch[w] :
        /\ row[n].status # "absent"
        /\ Undisputed(n) => /\ row[n].status \in {"processing", "deleted"}
                            /\ row[n].claimAge <= Lease
                            /\ \A v \in Worker : n \in batch[v] => v = w

\* What complete() read is still what the row holds.
FreshSnapshot ==
    \A w \in Worker : \A n \in batch[w] :
        pc[w] = "write" /\ Current(w, n) /\ Undisputed(n) /\ Exists(n) =>
            snap[w] = [status |-> row[n].status, attempts |-> row[n].attempts,
                       error |-> row[n].error]

\* Only a pass that died leaves a row in processing with nobody to complete it.
NoOrphans ==
    \A n \in Notification :
        Calm(n) /\ row[n].status = "processing" => \E w \in Worker : n \in batch[w]

\* A pending row has attempts left.
AttemptsLeft ==
    \A n \in Notification :
        Calm(n) => /\ row[n].attempts <= MaxAttempts
                   /\ row[n].status = "pending" => row[n].attempts < MaxAttempts

\* A success a pass is about to record is a message that arrived.
OutcomeIsTrue ==
    \A w \in Worker : \A n \in batch[w] :
        outcome[w] = "ok" /\ Current(w, n) => accepted[n] # {}

\* Where nothing interfered, a message that arrived is either recorded or about
\* to be, and the delivery that is running has not reached its other targets.
ArrivalIsKnown ==
    \A n \in Notification : disturbed[n] = {} =>
        /\ repeated[n] = {}
        /\ accepted[n] # {} => row[n].status \in {"processing", "sent", "deleted"}
        /\ \A w \in Worker : n \in batch[w] =>
              /\ accepted[n] # {} => Current(w, n) /\ outcome[w] = "ok"
              /\ Current(w, n) => todo[w] \cap accepted[n] = {}

IInv ==
    /\ TypeOK
    /\ PassShape
    /\ Ownership
    /\ FreshSnapshot
    /\ NoOrphans
    /\ AttemptsLeft
    /\ GivenUpForCause
    /\ SentMeansAccepted
    /\ OutcomeIsTrue
    /\ ArrivalIsKnown
=============================================================================
