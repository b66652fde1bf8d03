----------------------------- MODULE MCDiscovery -----------------------------
(***************************************************************************)
(* Instances of module Discovery for TLC.  Runs fail and processes die in  *)
(* every behaviour, and each has one theme: two listings that come in      *)
(* either order, found by an owned and an ownerless search; the same,      *)
(* found by two searches of one user; one listing or none, while listings  *)
(* and searches are deleted.                                               *)
(***************************************************************************)
EXTENDS Discovery, TLC

CONSTANTS s1, s2, s3, u1, m1, r1, r2, a, b, web, cron,
          Theme           \* the themes of the instance

VARIABLE theme

\* Two searches of a user, one that has no owner; a request and the cron job.
OneLegacy    == (s1 :> u1) @@ (s2 :> u1) @@ (s3 :> NoUser)
TwoIds       == (a :> 1) @@ (b :> 2)
OneMarketplace == [s \in Search |-> <<m1>>]
TwoProcesses == (r1 :> web) @@ (r2 :> cron)

Started(t)  == IF t = "twins" THEN {s1, s2} ELSE {s1, s3}
Returned(t) == IF t = "delete" THEN {<<>>, <<a>>} ELSE {<<a, b>>, <<b, a>>}
AnyResult   == [m \in Marketplace |-> UNION {Returned(t) : t \in Theme}]

MCInit == Init /\ theme \in Theme

MCNext ==
    /\ \/ \E r \in Runner : Step(r) \/ Abort(r)
       \/ \E p \in Process : Crash(p)
       \/ theme = "delete" /\ \E s \in Started(theme) : DeleteSearch(s)
       \/ theme = "delete" /\ \E l \in Listing : DeleteListing(l)
    /\ \A r \in Runner : run'[r].pc # "idle" /\ Len(run'[r].left) < Len(run[r].left) =>
          run'[r].queue \in Returned(theme)
    /\ \A r \in Runner : run'[r].pc # "idle" => run'[r].search \in Started(theme)
    /\ UNCHANGED theme
MCSpec == MCInit /\ [][MCNext]_<<vars, theme>>
MCFairSpec == MCSpec /\ Fairness
=============================================================================
