---------------------------- MODULE ListingsScreen ----------------------------
(***************************************************************************)
(* The list of discovered listings (mobile/src/screens/ListingsScreen.tsx) *)
(* and the page of them the backend returns (api/v1/listings.py): filters, *)
(* pull-to-refresh, "Load more", and the quiet reload of as many items as  *)
(* are loaded.  All of them share one inFlightRef: a call that comes while *)
(* a request is in flight is dropped.                                      *)
(*                                                                         *)
(* Listings are numbered in the order of their discovery, and the list is  *)
(* sorted by "newest".  A filter is the set of the listings it lets        *)
(* through.                                                                *)
(***************************************************************************)
EXTENDS Integers, Sequences

CONSTANTS
    Filter,     \* what the user may apply: sets of listings
    Unfiltered, \* emptyListingFilters: lets everything through
    PageSize,   \* PAGE_SIZE
    MaxLimit,   \* _MAX_LIMIT: the API refuses to return more items than this
    Null, Failed

VARIABLES
    stock,      \* what the user may see, newest first
    discovered, \* how many listings have been discovered
    applied,    \* appliedFilters
    items, total,
    loading, refreshing, loadingMore, error,
    inFlight, requests,
    focused,
    \* Not known to the code:
    moved,      \* the stock has changed since the items were read
    from,       \* the filters the items were read with
    unfetched   \* filters were applied while a request was in flight, or their
                \* page could not be loaded

list       == <<items, total>>
indicators == <<loading, refreshing, loadingMore, error>>
history    == <<moved, from, unfetched>>
vars       == <<stock, discovered, applied, items, total, loading, refreshing,
                loadingMore, error, inFlight, requests, focused, moved, from, unfetched>>

-----------------------------------------------------------------------------
\* The backend: list_listings.

\* What is left of the stock: SelectSeq as a recursive function.
Result(f) ==
    LET result[n \in 0..Len(stock)] ==
            IF n = 0 THEN <<>>
            ELSE IF stock[n] \in f THEN Append(result[n - 1], stock[n])
                 ELSE result[n - 1]
    IN  result[Len(stock)]

Smaller(a, b) == IF a < b THEN a ELSE b
Larger(a, b) == IF a > b THEN a ELSE b

\* A limit above _MAX_LIMIT is a 422.  The rows and their count are two queries of
\* one request, taken as one.
Page(r) ==
    IF r.limit > MaxLimit THEN Failed
    ELSE [items |-> SubSeq(Result(r.filter), r.offset + 1,
                           Smaller(r.offset + r.limit, Len(Result(r.filter)))),
          total |-> Len(Result(r.filter))]

With(r, answer) == (requests \ {r}) \cup {[r EXCEPT !.answer = answer]}

Serve(r) ==
    /\ r \in requests /\ r.answer = Null
    /\ requests' = With(r, Page(r))
    /\ UNCHANGED <<stock, discovered, applied, list, indicators, inFlight, focused, history>>

Lose(r) ==
    /\ r \in requests /\ r.answer = Null
    /\ requests' = With(r, Failed)
    /\ UNCHANGED <<stock, discovered, applied, list, indicators, inFlight, focused, history>>

\* What has been read is no longer what is there.
Moved ==
    /\ moved' = TRUE
    /\ requests' = {IF r.answer = Null THEN r ELSE [r EXCEPT !.moved = TRUE] : r \in requests}

\* A scan discovers a listing.
Discover ==
    /\ discovered' = discovered + 1
    /\ stock' = <<discovered + 1>> \o stock
    /\ Moved
    /\ UNCHANGED <<applied, list, indicators, inFlight, focused, from, unfetched>>

\* A listing is deleted, or the search that attributed it to the user.
Withdraw(l) ==
    /\ stock' = Result((1..discovered) \ {l})
    /\ stock' # stock
    /\ Moved
    /\ UNCHANGED <<discovered, applied, list, indicators, inFlight, focused, from, unfetched>>

-----------------------------------------------------------------------------
\* loadPage and refreshQuietly.

Ask(mode, f, limit, offset) ==
    [mode |-> mode, filter |-> f, limit |-> limit, offset |-> offset,
     answer |-> Null, moved |-> FALSE]

\* if (inFlightRef.current) return;
Free == ~inFlight

\* What loadPage shows when it begins.
Indicate(mode) ==
    /\ loading' = (loading \/ mode = "initial")
    /\ refreshing' = (refreshing \/ mode = "refresh")
    /\ loadingMore' = (loadingMore \/ mode = "more")
    /\ error' = FALSE

LoadPage(mode, f, offset) ==
    IF Free
    THEN /\ Indicate(mode)
         /\ inFlight' = TRUE
         /\ requests' = requests \cup {Ask(mode, f, PageSize, offset)}
    ELSE UNCHANGED <<indicators, inFlight, requests>>

\* Math.max(itemsLengthRef.current, PAGE_SIZE)
Loaded == Larger(Len(items), PageSize)

\* Mutant: the timer keeps calling the refreshQuietly of the first render.
FirstFilters == Unfiltered

\* refreshRef.current is the refreshQuietly of the last render.
LastFilters == applied

\* useAutoRefresh calls refreshQuietly: on its interval, on focus and on wake-up.
Tick ==
    /\ focused /\ Free
    /\ inFlight' = TRUE
    /\ requests' = requests \cup {Ask("auto", LastFilters, Loaded, 0)}
    /\ UNCHANGED <<stock, discovered, applied, list, indicators, focused, history>>

Merged(r) == IF r.mode = "more" THEN items \o r.answer.items ELSE r.answer.items

\* Mutant: the catch of refreshQuietly forgets inFlightRef.
EndedLoudly(r) == inFlight' = (r.mode = "auto" /\ r.answer = Failed)

Ended(r) == inFlight' = FALSE

\* What either does after its await.
Reply(r) ==
    /\ r \in requests /\ r.answer # Null
    /\ requests' = requests \ {r}
    /\ Ended(r)
    /\ IF r.mode = "auto"
       THEN UNCHANGED indicators
       ELSE /\ loading' = FALSE /\ refreshing' = FALSE /\ loadingMore' = FALSE
            /\ error' = (error \/ r.answer = Failed)
    /\ IF r.answer = Failed
       THEN /\ unfetched' = (unfetched \/ r.mode = "initial")
            /\ UNCHANGED <<list, moved, from>>
       ELSE /\ items' = Merged(r) /\ total' = r.answer.total
            /\ IF r.mode = "more"
               THEN from' = from \cup {r.filter} /\ UNCHANGED <<moved, unfetched>>
               ELSE /\ from' = {r.filter} /\ moved' = r.moved
                    /\ unfetched' = (unfetched /\ r.filter # applied)
    /\ UNCHANGED <<stock, discovered, applied, focused>>

-----------------------------------------------------------------------------
\* The user.

ListShown == ~loading /\ (error => items # <<>>)

\* "Apply filters" and "Clear all": new filters make a new loadPage, which the
\* effect calls.
Apply(f) ==
    /\ focused
    /\ applied' = f
    /\ LoadPage("initial", f, 0)
    /\ unfetched' = (unfetched \/ ~Free)
    /\ UNCHANGED <<stock, discovered, list, focused, moved, from>>

PullToRefresh ==
    /\ focused /\ ListShown /\ ~refreshing
    /\ LoadPage("refresh", applied, 0)
    /\ UNCHANGED <<stock, discovered, applied, list, focused, history>>

\* The button is there while something is missing (canLoadMore).
LoadMore ==
    /\ focused /\ ListShown /\ ~loadingMore
    /\ total # Null /\ Len(items) < total
    /\ LoadPage("more", applied, Len(items))
    /\ UNCHANGED <<stock, discovered, applied, list, focused, history>>

\* "Try again"
Retry ==
    /\ focused /\ ~loading /\ ~ListShown
    /\ LoadPage("initial", applied, 0)
    /\ UNCHANGED <<stock, discovered, applied, list, focused, history>>

\* The tab, or the app, is left and returned to.
Look ==
    /\ focused' = ~focused
    /\ UNCHANGED <<stock, discovered, applied, list, indicators, inFlight, requests, history>>

-----------------------------------------------------------------------------
Init ==
    /\ stock = <<>> /\ discovered = 0
    /\ applied = Unfiltered
    /\ items = <<>> /\ total = Null
    /\ loading = TRUE /\ refreshing = FALSE /\ loadingMore = FALSE /\ error = FALSE
    /\ inFlight = TRUE /\ requests = {Ask("initial", Unfiltered, PageSize, 0)}
    /\ focused = TRUE
    /\ moved = FALSE /\ from = {} /\ unfetched = FALSE

Next ==
    \/ Discover
    \/ \E l \in 1..discovered : Withdraw(l)
    \/ \E r \in requests : Serve(r) \/ Lose(r) \/ Reply(r)
    \/ Tick
    \/ \E f \in Filter : Apply(f)
    \/ PullToRefresh \/ LoadMore \/ Retry \/ Look

Spec == Init /\ [][Next]_vars

\* The interval fires; a request is answered, or the client's timeout ends it;
\* and a backend that is asked over and over answers at last.
Fairness ==
    /\ WF_vars(Tick)
    /\ WF_vars(\E r \in requests : Reply(r))
    /\ WF_vars(\E r \in requests : Serve(r) \/ Lose(r))
    /\ SF_vars(\E r \in requests : Serve(r))

-----------------------------------------------------------------------------
\* Properties.

\* A spinner ends: whenever one is shown, a request that will end it is in flight
\* (loadPage's overlap protection, with the quiet reload in between).
SpinnerHasRequest ==
    loading \/ refreshing \/ loadingMore => \E r \in requests : r.mode # "auto"

Shows(f) ==
    /\ Len(items) <= Len(Result(f)) /\ items = SubSeq(Result(f), 1, Len(items))
    /\ total = IF total = Null THEN Null ELSE Len(Result(f))

\* With nothing in flight the list is of the filters in force, and its pages fit
\* together: nothing twice and nothing left out, whatever order the user, the timer
\* and the answers came in (loadPage and refreshQuietly over one inFlightRef).  The
\* exceptions are filters that were applied while a request was in flight, or whose
\* page failed to load, and listings that have come or gone since they were read.
ListIsTrue ==
    ~inFlight /\ ~unfetched => from = {applied} /\ (~moved => Shows(applied))

\* The list catches up with the backend while it is looked at, its filters stay,
\* and no "Load more" is under way: "re-fetches exactly as many items as are
\* currently loaded (so newly discovered listings above already-seen ones are
\* picked up, and pagination position isn't lost)" (ListingsScreen.tsx:105-107).
CatchesUp ==
    \A f \in Filter : <>[](focused /\ ~loadingMore /\ applied = f) => <>[]Shows(f)

\* The same as long as no more items are loaded than the API returns at once.
CatchesUpWithinLimit ==
    \A f \in Filter :
        <>[](focused /\ ~loadingMore /\ applied = f /\ Len(items) <= MaxLimit)
            => <>[]Shows(f)

=============================================================================
