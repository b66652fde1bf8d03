------------------------------ MODULE MCOutbox ------------------------------
(***************************************************************************)
(* Bounds for TLC on module Outbox.                                        *)
(***************************************************************************)
EXTENDS Outbox, TLC

CONSTANTS
    AttemptBound,   \* no row is claimed more often than this
    CrashBound,     \* at most this many rows lose a pass to a crash
    CrashAgain,     \* whether a second pass may die on the same row
    MayDelete,      \* whether listings are deleted
    GivenUpBound    \* at most this many destinations users had are no longer theirs

\* Two rows about one listing, for the instances with two rows.
OneListing == [n \in Notification |-> CHOOSE l \in Listing : TRUE]
\* A listing of its own for each row: listings are numbered like rows.
OwnListing == [n \in Notification |-> n]

\* Workers run the same script and are told apart by nothing.
WorkerSymmetry == Permutations(Worker)

WithinBounds ==
    /\ \A n \in Notification : row'[n].attempts <= AttemptBound
    /\ Cardinality({n \in Notification : "crash" \in disturbed'[n]}) <= CrashBound
    /\ ~MayDelete => \A n \in Notification : row'[n].status # "deleted"
    /\ Cardinality({<<u, d>> \in User \X Destination : d \in known'[u] \ dests'[u]})
          <= GivenUpBound

MayCrash(w) == CrashAgain \/ \A n \in batch[w] : "crash" \notin disturbed[n]

MCNext ==
    /\ \/ Environment
       \/ Tick
       \/ \E w \in Worker : Pass(w)
       \/ \E w \in Worker : MayCrash(w) /\ Abort(w)
    /\ WithinBounds
MCSpec == Init /\ [][MCNext]_vars
MCFairSpec == MCSpec /\ Fairness
=============================================================================
