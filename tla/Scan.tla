-------------------------------- MODULE Scan --------------------------------
(***************************************************************************)
(* When a saved search runs and what its runs are given: due times and the *)
(* grace of the cron job (core/saved_searches/repository.py), passes over  *)
(* the due searches (core/scheduler/scanner.py), the results a pass shares *)
(* (core/saved_searches/coalescing.py) and the manual run.  What a run     *)
(* does with the listings it is given is module Discovery; here it ends by *)
(* committing its stamp, or with nothing.                                  *)
(*                                                                         *)
(* External: the platform starts the cron job once in every period, late   *)
(* by at most Jitter, or as soon as a job that overran has ended.          *)
(***************************************************************************)
EXTENDS Connector, Sequences

CONSTANTS
    Search,        \* saved searches
    Query,         \* their words
    Interval,      \* the scan intervals a user may choose
    Role,          \* [Thread -> "cron", "scanner", "hand" or "backfill"]
    Period,        \* of the cron job
    Jitter,        \* how late the platform starts it
    Grace          \* scan_due_grace_seconds

VARIABLES
    search,        \* [Search -> a row of saved_searches, or Gone]
    thread,        \* [Thread -> what it is doing]
    slot,          \* the next period the cron job starts in
    skipped        \* history: the passes of the job that began since a search's
                   \* last run and did not list it; whether that run was of the job's

svars == <<search, thread, slot, skipped>>
vars == <<cvars, svars>>

\* The schema allows no interval below a minute; the grace exceeds the jitter.
ASSUME ScanAssumption ==
    /\ Period \in Nat \ {0} /\ Interval \subseteq Nat \ {0} /\ {Jitter, Grace} \subseteq Nat
    /\ Jitter < Period /\ Jitter <= Grace /\ \A i \in Interval : 2 * Jitter <= i
    /\ Role \in [Thread -> {"cron", "scanner", "hand", "backfill"}]

Never == -1     \* last_scanned_at of a search that never ran

Gone == [active |-> FALSE, last |-> Never, interval |-> 0, markets |-> {}, query |-> "gone"]

Selections == (SUBSET Market) \ {{}}

\* Validated, and not run yet.
Rows == [query : Query, markets : Selections, interval : Interval, active : BOOLEAN, last : {Never}]

Saved == {s \in Search : search[s] # Gone}

\* No request, or no search, has been made yet.
NoAnswer == [market |-> "none", query |-> "none", at |-> 0, answer |-> "none", n |-> 0, silent |-> FALSE]

NoThread ==
    [pc |-> "idle", start |-> 0, onTime |-> FALSE, shares |-> FALSE, due |-> {}, cache |-> {}, calls |-> <<>>,
     search |-> "none", query |-> "none", left |-> {}, from |-> "none", got |-> NoAnswer]

Init ==
    /\ now = 0 /\ slot \in {0, MaxTime + 1}      \* with the job, or without
    /\ token = [p \in Process |-> NoToken]
    /\ call = [t \in Thread |-> NoCall]
    /\ search \in [Search -> Rows \cup {Gone}]
    /\ thread = [t \in Thread |-> NoThread]
    /\ skipped = [s \in Search |-> [n |-> 0, onTime |-> FALSE]]

-----------------------------------------------------------------------------
(* The user's searches. *)

Create(s, row) ==
    /\ search[s] = Gone
    /\ \A t \in Thread : thread[t].search # s /\ s \notin thread[t].due    \* ids are not reused
    /\ search' = [search EXCEPT ![s] = row]
    /\ skipped' = [skipped EXCEPT ![s] = [n |-> 0, onTime |-> FALSE]]
    /\ UNCHANGED <<cvars, thread, slot>>

\* Any of the fields; the time of the last run stays.
Edited(s, row) == [row EXCEPT !.last = search[s].last]

Update(s, row) ==
    /\ s \in Saved /\ Edited(s, row) # search[s]
    /\ search' = [search EXCEPT ![s] = Edited(s, row)]
    /\ skipped' = IF row.interval = search[s].interval THEN skipped ELSE [skipped EXCEPT ![s].n = 0]
    /\ UNCHANGED <<cvars, thread, slot>>

Delete(s) ==
    /\ s \in Saved
    /\ search' = [search EXCEPT ![s] = Gone]
    /\ UNCHANGED <<cvars, thread, slot, skipped>>

-----------------------------------------------------------------------------
(* Passes. *)

\* The grace is at most half the interval; twice the times, for the half.
IsDue(s, grace) ==
    /\ search[s].active
    /\ \/ search[s].last = Never
       \/ 2 * (search[s].last + search[s].interval) - Least(2 * grace, search[s].interval) <= 2 * now

Due(grace) == {s \in Saved : IsDue(s, grace)}

\* One look at the clock, one list; coalescing is a setting, read for each pass.
StartPass(t, due, onTime) ==
    /\ thread[t].pc = "idle"
    /\ \E shares \in BOOLEAN :
         thread' = [thread EXCEPT ![t] =
             [NoThread EXCEPT !.pc = "pass", !.start = now, !.onTime = onTime, !.shares = shares, !.due = due]]
    /\ UNCHANGED <<cvars, search>>

\* scripts/run_due_scans.py.
StartJob(t) ==
    LET due == Due(Grace) IN
    /\ Role[t] = "cron" /\ now >= slot * Period
    /\ StartPass(t, due, now <= slot * Period + Jitter)
    /\ slot' = now \div Period + 1
    /\ skipped' = [s \in Search |->
                     IF s \in Saved \ due /\ search[s].active THEN [skipped[s] EXCEPT !.n = @ + 1] ELSE skipped[s]]

\* The scanner's own thread of the web process.
StartScanner(t) ==
    /\ Role[t] = "scanner"
    /\ StartPass(t, Due(0), FALSE)
    /\ UNCHANGED <<slot, skipped>>

\* The job's process ends with its pass.
EndPass(t) ==
    /\ thread[t].pc = "pass" /\ thread[t].due = {}
    /\ thread' = [thread EXCEPT ![t] = NoThread]
    /\ token' = IF Role[t] = "cron" THEN [token EXCEPT ![Home[t]] = NoToken] ELSE token
    /\ UNCHANGED <<now, call, search, slot, skipped>>

-----------------------------------------------------------------------------
(* Runs. *)

\* The guard is of one process.
Guarded(p, s) == \E t \in Thread : Home[t] = p /\ thread[t].pc = "run" /\ thread[t].search = s

\* r runs s, whose words and marketplaces are read once.
Running(r, s) ==
    [r EXCEPT !.pc = "run", !.search = s, !.query = search[s].query, !.left = search[s].markets,
               !.from = "none", !.got = NoAnswer]

\* The next of the pass, unless its guard is taken or it was deleted meanwhile.
\* Nobody asks again whether it is active, or due.
NextSearch(t) ==
    LET r == thread[t] IN
    /\ r.pc = "pass"
    /\ \E s \in r.due :
         LET rest == [r EXCEPT !.due = @ \ {s}] IN
         thread' = [thread EXCEPT ![t] =
                      IF s \in Saved /\ ~Guarded(Home[t], s) THEN Running(rest, s) ELSE rest]
    /\ UNCHANGED <<cvars, search, slot, skipped>>

\* POST /saved-searches/{id}/run: 404, or 409 if inactive or already running.
RunNow(t, s) ==
    /\ Role[t] = "hand" /\ thread[t].pc = "idle"
    /\ s \in Saved /\ search[s].active /\ ~Guarded(Home[t], s)
    /\ thread' = [thread EXCEPT ![t] = Running([NoThread EXCEPT !.start = now], s)]
    /\ UNCHANGED <<cvars, search, slot, skipped>>

\* An answer fits a question of this marketplace and these very words.
Fits(e, m, q) == e.market = m /\ e.query = q

\* A failure is remembered too.
Remembered(r, e) == IF r.shares THEN r.cache \cup {e} ELSE {}

\* e is what the run goes on with for m.
Given(r, m, e) == [r EXCEPT !.left = @ \ {m}, !.from = m, !.got = e]

\* One marketplace of the run: from the cache of the pass, or by asking.
Ask(t) ==
    LET r == thread[t] IN
    /\ r.pc = "run" /\ call[t].pc = "idle"
    /\ \E m \in r.left :
         LET known == {e \in r.cache : Fits(e, m, r.query)} IN
         \/ \E e \in known :
              /\ thread' = [thread EXCEPT ![t] = Given(r, m, e)]
              /\ UNCHANGED <<now, token, call>>
         \/ /\ known = {}
            /\ Begin(t, "search", m, r.query)
            /\ thread' = [thread EXCEPT ![t].calls = IF r.shares THEN Append(@, <<m, r.query>>) ELSE @]
    /\ UNCHANGED <<search, slot, skipped>>

\* The answer, or the failure, is processed; a failure costs the run only this
\* marketplace.
TakeAnswer(t) ==
    LET c == call[t]
        e == [market |-> c.market, query |-> c.query, at |-> now,
              answer |-> c.answer, n |-> c.n, silent |-> c.silent]
    IN  /\ c.pc = "done" /\ thread[t].pc = "run"
        /\ thread' = [thread EXCEPT ![t] = [Given(@, c.market, e) EXCEPT !.cache = Remembered(thread[t], e)]]
        /\ call' = [call EXCEPT ![t] = NoCall]
        /\ UNCHANGED <<now, token, search, slot, skipped>>

\* Back to the pass; the manual run has none.
Leave(r, role) ==
    IF role = "hand" THEN NoThread
    ELSE [r EXCEPT !.pc = "pass", !.search = "none", !.query = "none", !.left = {},
                   !.from = "none", !.got = NoAnswer]

\* Mutant: the time the run ended.
StampAtEnd(r) == now

\* The time the pass, or the manual run, began.
Stamp(r) == r.start

\* mark_scanned and the commit; a row deleted meanwhile makes the run fail.
Finish(t) ==
    LET r == thread[t] IN
    /\ r.pc = "run" /\ r.left = {}
    /\ thread' = [thread EXCEPT ![t] = Leave(r, Role[t])]
    /\ IF r.search \in Saved
       THEN /\ search' = [search EXCEPT ![r.search].last = Stamp(r)]
            /\ skipped' = [skipped EXCEPT ![r.search] = [n |-> 0, onTime |-> r.onTime]]
       ELSE UNCHANGED <<search, skipped>>
    /\ UNCHANGED <<cvars, slot>>

\* An exception, anywhere between two requests: everything of the run is rolled
\* back, and the pass goes on.
Fail(t) ==
    /\ thread[t].pc = "run" /\ call[t].pc = "idle"
    /\ thread' = [thread EXCEPT ![t] = Leave(@, Role[t])]
    /\ UNCHANGED <<cvars, search, slot, skipped>>

\* The metadata backfill looks one listing up.
LookUp(t) ==
    /\ Role[t] = "backfill"
    /\ \/ \E m \in Market : Begin(t, "lookup", m, "none")
       \/ /\ call[t].pc = "done"
          /\ call' = [call EXCEPT ![t] = NoCall]
          /\ UNCHANGED <<now, token>>
    /\ UNCHANGED svars

\* A process dies, with its guard, its token and its requests.
Crash(p) ==
    LET Dead == {t \in Thread : Home[t] = p} IN
    /\ \E t \in Dead : thread[t].pc # "idle"
    /\ thread' = [t \in Thread |-> IF t \in Dead THEN NoThread ELSE thread[t]]
    /\ call' = [t \in Thread |-> IF t \in Dead THEN NoCall ELSE call[t]]
    /\ token' = [token EXCEPT ![p] = NoToken]
    /\ UNCHANGED <<now, search, slot, skipped>>

Listen(t) == Hears(t) /\ UNCHANGED svars

\* No request outlasts its deadline, and the platform keeps its promise.
Tick ==
    /\ now < MaxTime /\ InTime
    /\ \A t \in Thread : Role[t] = "cron" /\ thread[t].pc = "idle" => now < slot * Period + Jitter
    /\ now' = now + 1
    /\ UNCHANGED <<token, call, svars>>

Work(t) ==
    \/ StartJob(t) \/ StartScanner(t) \/ NextSearch(t) \/ EndPass(t)
    \/ \E s \in Search : RunNow(t, s)
    \/ Ask(t) \/ Listen(t) \/ TakeAnswer(t) \/ Finish(t) \/ Fail(t) \/ LookUp(t)

Next ==
    \/ Tick
    \/ \E s \in Search : Delete(s) \/ \E row \in Rows : Create(s, row) \/ Update(s, row)
    \/ \E t \in Thread : Work(t)
    \/ \E p \in Process : Crash(p)

Spec == Init /\ [][Next]_vars

-----------------------------------------------------------------------------
(* Properties. *)

Periods(i) == (i + Period - 1) \div Period

\* A search last run by a job that started on time is listed by the job of the
\* first period its interval reaches, however late either starts within the
\* jitter and however long the passes take; another run, at any moment, delays
\* that by at most two passes: repository.list_due_for_scan and the pass's stamp.
NoTickSkipped ==
    \A s \in Saved :
        search[s].active =>
            skipped[s].n <= Periods(search[s].interval) + (IF skipped[s].onTime THEN -1 ELSE 1)

\* What a run is given for a marketplace was asked of that marketplace, for the
\* words the search had when the run began, after the pass began; a failure is
\* never taken for an empty result; and a pass that shares asks each question
\* once: coalescing.ScanFetchCache and the connectors' reading of a reply.
AnswersAreOwn ==
    \A t \in Thread :
        LET r == thread[t] IN
        /\ r.pc = "run" /\ r.got # NoAnswer =>
             /\ r.got.market = r.from /\ r.got.query = r.query /\ r.got.at >= r.start
             /\ r.got.answer = "listings" /\ r.got.n = 0 => r.got.silent
        /\ r.shares => \A i, j \in DOMAIN r.calls : r.calls[i] = r.calls[j] => i = j
=============================================================================
