----------------------------- MODULE DetailScreen -----------------------------
(***************************************************************************)
(* The screen of one saved search (mobile/src/screens/                     *)
(* SavedSearchDetailScreen.tsx) over the two hooks every screen loads its  *)
(* data with: useAsyncData, which has at most one request in flight and    *)
(* drops a call that comes meanwhile, and useAutoRefresh, which reloads    *)
(* quietly every twenty seconds, when the app wakes and when the screen    *)
(* regains focus.                                                          *)
(*                                                                         *)
(* The screen has two views, each an instance of useAsyncData: the search  *)
(* and its latest listings.  What the backend would show of either is a    *)
(* number that grows with every change.                                    *)
(***************************************************************************)
EXTENDS Integers

CONSTANTS Null, Failed

ASSUME DetailScreenAssumption == Null \notin Int /\ Failed \notin Int /\ Null # Failed

VARIABLES
    row,          \* how often the search, or its listings, have changed
    exists,       \* the search has not been deleted
    staged,       \* the button whose change is carried out but not committed, or Null
    hook,         \* the state of useAsyncData, for each view
    mutation,     \* how far each of the three buttons' requests is
    mounted, focused, hasFocusedOnce, awake,
    \* Not known to the code:
    owed,         \* the change the user was last told of, for each view
    missed        \* why the reload then may not show it: the hook has "dropped" it, as a
                  \* request was in flight, or it was served "early", before the commit

screen  == <<mounted, focused, hasFocusedOnce, awake>>
history == <<owed, missed>>
tables  == <<row, exists, staged>>
vars    == <<row, exists, staged, hook, mutation, mounted, focused, hasFocusedOnce, awake,
             owed, missed>>

-----------------------------------------------------------------------------
View     == {"detail", "latest"}
Mutation == {"run", "toggle", "delete"}
Mode     == {"initial", "refresh", "retry", "auto"}

Version == Nat
Request == [mode : Mode, answer : Version \cup {Null, Failed}]
Hook    == [data : Version \cup {Null}, loading : BOOLEAN, refreshing : BOOLEAN,
            error : BOOLEAN, inFlight : BOOLEAN, requests : SUBSET Request]

TypeOK ==
    /\ row \in Version /\ exists \in BOOLEAN /\ staged \in Mutation \cup {Null}
    /\ hook \in [View -> Hook]
    /\ mutation \in [Mutation -> {"idle", "asked", "served", "done", "failed"}]
    /\ <<mounted, focused, hasFocusedOnce, awake>> \in BOOLEAN \X BOOLEAN \X BOOLEAN \X BOOLEAN
    /\ owed \in [View -> Version] /\ missed \in [View -> SUBSET {"dropped", "early"}]

-----------------------------------------------------------------------------
\* useAsyncData's load.

\* A quiet reload is invisible.
Indicated(h, mode) ==
    IF mode = "auto" THEN h
    ELSE [h EXCEPT !.loading = mode # "refresh" /\ h.data = Null,
                   !.refreshing = mode = "refresh",
                   !.error = @ /\ mode = "refresh"]

Begun(h, mode) ==
    [Indicated(h, mode) EXCEPT !.inFlight = TRUE,
                               !.requests = @ \cup {[mode |-> mode, answer |-> Null]}]

\* Mutant: no overlap protection.
LoadAnyway(h, mode) == Begun(h, mode)

\* Mutant: the indicators are set before the call is dropped.
LoadIndicated(h, mode) ==
    IF h.inFlight THEN Indicated(h, mode) ELSE Begun(h, mode)

\* Only one request is ever in flight; a call that comes meanwhile is dropped.
Load(h, mode) == IF h.inFlight THEN h ELSE Begun(h, mode)

Released(h, r) == [h EXCEPT !.inFlight = FALSE, !.requests = @ \ {r}]

\* The two callbacks of fetcher().then.
Answered(h, r) ==
    IF r.answer # Failed
    THEN [Released(h, r) EXCEPT !.data = r.answer, !.loading = FALSE,
                                !.refreshing = FALSE, !.error = FALSE]
    ELSE IF r.mode = "auto" THEN Released(h, r)
    ELSE [Released(h, r) EXCEPT !.loading = FALSE, !.refreshing = FALSE,
                                !.error = TRUE]

\* refreshBothQuietly
BothQuietly == [v \in View |-> Load(hook[v], "auto")]

\* A reply reaches the screen.
Reply(v, r) ==
    /\ mounted /\ r \in hook[v].requests /\ r.answer # Null
    /\ hook' = [hook EXCEPT ![v] = Answered(hook[v], r)]
    /\ UNCHANGED <<tables, mutation, screen, history>>

-----------------------------------------------------------------------------
\* The backend.

\* It answers with what is committed.  A search that is gone is a 404; its
\* listings are then an empty page.
Serve(v, r) ==
    /\ mounted /\ r \in hook[v].requests /\ r.answer = Null
    /\ LET answer == IF exists \/ v = "latest" THEN row ELSE Failed IN
       /\ hook' = [hook EXCEPT ![v].requests = (@ \ {r}) \cup {[r EXCEPT !.answer = answer]}]
       /\ missed' = IF answer # Failed /\ row < owed[v]
                    THEN [missed EXCEPT ![v] = @ \cup {"early"}] ELSE missed
    /\ UNCHANGED <<tables, mutation, screen, owed>>

\* A request times out, gets lost or meets a cold start; to read nothing and to
\* lose what was read are the same to the screen.
Lose(v, r) ==
    /\ mounted /\ r \in hook[v].requests /\ r.answer = Null
    /\ hook' = [hook EXCEPT ![v].requests = (@ \ {r}) \cup {[r EXCEPT !.answer = Failed]}]
    /\ UNCHANGED <<tables, mutation, screen, history>>

\* A change that is not committed locks the search's row: other writers wait.
Unlocked == exists /\ staged = Null

\* A scheduled scan stamps the search and finds listings.
Scan ==
    /\ mounted /\ Unlocked
    /\ row' = row + 1
    /\ UNCHANGED <<exists, staged, hook, mutation, screen, history>>

\* The search is deleted on another device.
DeletedElsewhere ==
    /\ mounted /\ Unlocked
    /\ exists' = FALSE /\ row' = row + 1
    /\ UNCHANGED <<staged, hook, mutation, screen, history>>

\* The route of a button runs through.
Perform(m) ==
    /\ mounted /\ mutation[m] = "asked" /\ Unlocked
    /\ staged' = m
    /\ mutation' = [mutation EXCEPT ![m] = "served"]
    /\ UNCHANGED <<row, exists, hook, screen, history>>

\* get_db_session commits when the route's dependencies are left: before or after
\* the answer is sent, as the release of FastAPI has it.
Commit ==
    /\ mounted /\ staged # Null
    /\ staged' = Null /\ row' = row + 1 /\ exists' = (staged # "delete")
    /\ UNCHANGED <<hook, mutation, screen, history>>

\* It fails to: an answer that is not out yet becomes a 500, one that is stands.
Rollback ==
    /\ mounted /\ staged # Null
    /\ staged' = Null
    /\ mutation' = [m \in Mutation |-> IF mutation[m] = "served" /\ m = staged THEN "failed" ELSE mutation[m]]
    /\ owed' = [v \in View |-> IF owed[v] > row THEN row ELSE owed[v]]
    /\ UNCHANGED <<row, exists, hook, screen, missed>>

\* Its answer arrives, or gets lost.
Answer(m) ==
    /\ mounted /\ mutation[m] = "served"
    /\ \E answer \in {"done", "failed"} : mutation' = [mutation EXCEPT ![m] = answer]
    /\ UNCHANGED <<tables, hook, screen, history>>

\* It gets lost on the way, or is refused: the search is gone, or a run of one
\* that is paused or already running is a 409.
Refuse(m) ==
    /\ mounted /\ mutation[m] = "asked"
    /\ mutation' = [mutation EXCEPT ![m] = "failed"]
    /\ UNCHANGED <<tables, hook, screen, history>>

-----------------------------------------------------------------------------
\* The user.

\* The buttons are there while the search is shown; each is disabled while its
\* own request is in flight.
Press(m) ==
    /\ mounted /\ focused /\ awake
    /\ ~hook["detail"].loading /\ hook["detail"].data # Null
    /\ mutation[m] = "idle"
    /\ mutation' = [mutation EXCEPT ![m] = "asked"]
    /\ UNCHANGED <<tables, hook, screen, history>>

\* "Try again"
Retry(v) ==
    /\ mounted /\ focused /\ awake
    /\ ~hook["detail"].loading /\ ~hook[v].loading /\ hook[v].error
    /\ IF v = "detail" THEN hook[v].data = Null ELSE hook["detail"].data # Null
    /\ hook' = [hook EXCEPT ![v] = Load(@, "retry")]
    /\ UNCHANGED <<tables, mutation, screen, history>>

Leave ==
    /\ mounted /\ mounted' = FALSE
    /\ UNCHANGED <<tables, hook, mutation, focused, hasFocusedOnce, awake, history>>

-----------------------------------------------------------------------------
\* The answers to the buttons.

\* The views that a success reloads.
Touched(m) == CASE m = "run" -> View [] m = "toggle" -> {"detail"} [] m = "delete" -> {}

\* Mutant: they are reloaded quietly.
ReloadedQuietly(m) ==
    [v \in View |-> IF v \in Touched(m) THEN Load(hook[v], "auto") ELSE hook[v]]

Reloaded(m) ==
    [v \in View |-> IF v \in Touched(m) THEN Load(hook[v], "refresh") ELSE hook[v]]

InTheWay(h) == IF h.requests = {} THEN {} ELSE {"dropped"}

\* The change of a button that has succeeded, be it committed or still to be.
Effect(m) == IF staged = m THEN row + 1 ELSE row

\* handleRunNow, handleToggleActive and handleDelete after their await.
Succeed(m) ==
    /\ mounted /\ mutation[m] = "done"
    /\ hook' = Reloaded(m)
    /\ mounted' = (m # "delete")
    /\ mutation' = IF m = "delete" THEN mutation ELSE [mutation EXCEPT ![m] = "idle"]
    /\ owed' = [v \in View |-> IF v \in Touched(m) THEN Effect(m) ELSE owed[v]]
    /\ missed' = [v \in View |->
                     IF v \in Touched(m) THEN InTheWay(hook[v]) ELSE missed[v]]
    /\ UNCHANGED <<tables, focused, hasFocusedOnce, awake>>

\* Their catch: a message, and no reload.
GiveUp(m) ==
    /\ mounted /\ mutation[m] = "failed"
    /\ mutation' = [mutation EXCEPT ![m] = "idle"]
    /\ UNCHANGED <<tables, hook, screen, history>>

-----------------------------------------------------------------------------
\* useAutoRefresh.

\* enabledRef.current
Enabled == \A m \in Mutation : mutation[m] = "idle"

Tick ==
    /\ mounted /\ focused /\ awake /\ Enabled
    /\ hook' = BothQuietly
    /\ UNCHANGED <<tables, mutation, screen, history>>

Focus ==
    /\ mounted /\ ~focused /\ focused' = TRUE
    /\ hook' = IF hasFocusedOnce /\ Enabled THEN BothQuietly ELSE hook
    /\ hasFocusedOnce' = TRUE
    /\ UNCHANGED <<tables, mutation, mounted, awake, history>>

Blur ==
    /\ mounted /\ focused /\ focused' = FALSE
    /\ UNCHANGED <<tables, hook, mutation, mounted, hasFocusedOnce, awake, history>>

\* The app goes to the background, and comes back.
Doze ==
    /\ mounted /\ awake /\ awake' = FALSE
    /\ UNCHANGED <<tables, hook, mutation, mounted, focused, hasFocusedOnce, history>>

Wake ==
    /\ mounted /\ ~awake /\ awake' = TRUE
    /\ hook' = IF focused /\ Enabled THEN BothQuietly ELSE hook
    /\ UNCHANGED <<tables, mutation, mounted, focused, hasFocusedOnce, history>>

-----------------------------------------------------------------------------
\* The first render: both views load.
Initially ==
    Load([data |-> Null, loading |-> TRUE, refreshing |-> FALSE, error |-> FALSE,
          inFlight |-> FALSE, requests |-> {}], "initial")

Init ==
    /\ row = 0 /\ exists = TRUE /\ staged = Null
    /\ hook = [v \in View |-> Initially]
    /\ mutation = [m \in Mutation |-> "idle"]
    /\ mounted = TRUE /\ focused = FALSE /\ hasFocusedOnce = FALSE /\ awake = TRUE
    /\ owed = [v \in View |-> 0] /\ missed = [v \in View |-> {}]

Backend ==
    \/ Scan
    \/ DeletedElsewhere
    \/ \E m \in Mutation : Perform(m) \/ Answer(m) \/ Refuse(m)
    \/ Commit \/ Rollback
    \/ \E v \in View : \E r \in hook[v].requests : Serve(v, r) \/ Lose(v, r)

App ==
    \/ \E v \in View : \E r \in hook[v].requests : Reply(v, r)
    \/ \E m \in Mutation : Succeed(m) \/ GiveUp(m)
    \/ Tick

User ==
    \/ \E m \in Mutation : Press(m)
    \/ \E v \in View : Retry(v)
    \/ Focus \/ Blur \/ Doze \/ Wake \/ Leave

Next == Backend \/ App \/ User

Spec == Init /\ [][Next]_vars

\* The interval fires; a request is answered, or the client's timeout ends it;
\* and a backend that is asked over and over answers at last.
Fairness ==
    /\ WF_vars(Tick)
    /\ \A v \in View :
          /\ WF_vars(\E r \in hook[v].requests : Reply(v, r))
          /\ WF_vars(\E r \in hook[v].requests : Serve(v, r) \/ Lose(v, r))
          /\ SF_vars(\E r \in hook[v].requests : Serve(v, r))

-----------------------------------------------------------------------------
\* Properties.

\* A spinner ends: whenever a view shows one, a request that will end it, however
\* it is answered, is in flight (load of useAsyncData.ts, and the reloads of a
\* timer, a button and the user that overlap there).
SpinnerHasRequest ==
    \A v \in View :
        hook[v].loading \/ hook[v].refreshing
            => \E r \in hook[v].requests : r.mode # "auto"

\* The screen is never blank, and never says that nothing was found before
\* anything was loaded: without data a view is loading or has an error to show.
SomethingIsShown ==
    \A v \in View : hook[v].data = Null => hook[v].loading \/ hook[v].error

\* Reloads of a timer, a button and the user never show an older state after a
\* newer one, although their requests may be answered at any speed.
NeverOlder ==
    [][\A v \in View : hook[v].data # Null
          => hook'[v].data # Null /\ hook'[v].data >= hook[v].data]_vars

\* The view shows change n, has failed to load, or awaits an answer that will bring
\* one or the other.
ShowsOrWill(v, n) ==
    \/ hook[v].data # Null /\ hook[v].data >= n
    \/ hook[v].error
    \/ \E r \in hook[v].requests :
          \/ r.answer \in Version /\ r.answer >= n
          \/ r.mode # "auto" /\ r.answer \in {Null, Failed}

\* After Run Now, Pause or Resume has succeeded the view takes up its effect, or the
\* failure to load it, whatever happens meanwhile.  The exceptions are a reload that
\* was dropped because another request was in flight, and one that was served
\* before the effect was committed (SavedSearchDetailScreen.tsx, useAsyncData.ts).
EffectIsShown == \A v \in View : missed[v] # {} \/ ShowsOrWill(v, owed[v])

\* A screen that is looked at catches up with the backend, whatever was dropped
\* and whatever failed before.
CatchesUp ==
    <>[](mounted /\ focused /\ awake /\ Enabled /\ exists)
        => <>[](\A v \in View : hook[v].data = row)

=============================================================================
