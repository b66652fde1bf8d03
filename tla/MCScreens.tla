------------------------------ MODULE MCScreens ------------------------------
(***************************************************************************)
(* The two screens that share nothing but the backend, for TLC: that of a  *)
(* search (DetailScreen) and the list of listings (ListingsScreen).  Their *)
(* states are disjoint, so that a behaviour keeps to one of them and the   *)
(* other stays as it is while nobody looks at it.                          *)
(***************************************************************************)
EXTENDS DetailScreen

CONSTANTS
    Parts,           \* what is used: buttons of the detail screen, or "list"
    RowBound,        \* the search changes at most this often
    DiscoveredBound, \* at most this many listings are discovered
    PageSize, MaxLimit

\* Every second listing passes the user's filter.
Unfiltered == 1..DiscoveredBound
Filter     == {Unfiltered, {l \in Unfiltered : l % 2 = 1}}

VARIABLES
    part,
    stock, discovered, applied, items, total, loading, refreshing, loadingMore, error,
    inFlight, requests, listFocused, moved, from, unfetched

listVars == <<stock, discovered, applied, items, total, loading, refreshing, loadingMore,
              error, inFlight, requests, listFocused, moved, from, unfetched>>

List == INSTANCE ListingsScreen WITH focused <- listFocused

-----------------------------------------------------------------------------
\* A screen that has been left, with a search that was loaded.
DetailLeft ==
    /\ row = 0 /\ exists = TRUE /\ staged = Null
    /\ hook = [v \in View |-> [Initially EXCEPT !.data = 0, !.loading = FALSE,
                                                !.inFlight = FALSE, !.requests = {}]]
    /\ mutation = [m \in Mutation |-> "idle"]
    /\ mounted = FALSE /\ focused = FALSE /\ hasFocusedOnce = TRUE /\ awake = TRUE
    /\ owed = [v \in View |-> 0] /\ missed = [v \in View |-> {}]

\* A tab that has been left, with a list that was loaded.
ListLeft ==
    /\ stock = <<>> /\ discovered = 0 /\ applied = Unfiltered
    /\ items = <<>> /\ total = 0
    /\ loading = FALSE /\ refreshing = FALSE /\ loadingMore = FALSE /\ error = FALSE
    /\ inFlight = FALSE /\ requests = {} /\ listFocused = FALSE
    /\ moved = FALSE /\ from = {Unfiltered} /\ unfetched = FALSE

MCInit ==
    /\ part \in Parts
    /\ IF part \in Mutation THEN Init ELSE DetailLeft
    /\ IF part = "list" THEN List!Init ELSE ListLeft

\* The user presses one of the buttons, any number of times.  With Run Now, which
\* reloads both views, the screen stays in view; with Pause and Resume it is not
\* left.
UseDetail ==
    /\ part \in Mutation
    /\ Next
    /\ row' + (IF staged' = Null THEN 0 ELSE 1) <= RowBound
    /\ \A m \in Mutation \ {part} : mutation'[m] = "idle"
    /\ part # "delete" => mounted'
    /\ part = "run" => awake' /\ (focused => focused')
    /\ UNCHANGED <<part, listVars>>

UseList ==
    /\ part = "list"
    /\ List!Next
    /\ discovered' <= DiscoveredBound
    /\ UNCHANGED <<part, vars>>

MCNext == UseDetail \/ UseList

MCSpec == MCInit /\ [][MCNext]_<<part, vars, listVars>>

\* What is not in use has no request under way and no interval running.
MCFairSpec == MCSpec /\ Fairness /\ List!Fairness

-----------------------------------------------------------------------------
\* On every screen, whenever a spinner is shown a request that will end it is in
\* flight (load of useAsyncData.ts, and loadPage of ListingsScreen.tsx).
SpinnersEnd == SpinnerHasRequest /\ List!SpinnerHasRequest

\* The pages of the list fit together (ListingsScreen.tsx).
ListIsTrue == List!ListIsTrue

\* A screen that is looked at catches up with the backend, whatever was dropped and
\* whatever failed before; the list as long as no more items are loaded than the
\* API returns at once (useAutoRefresh.ts).
ScreensCatchUp == CatchesUp /\ List!CatchesUpWithinLimit

\* ... however many items are loaded (ListingsScreen.tsx:105-107).
ListCatchesUp == List!CatchesUp
=============================================================================
