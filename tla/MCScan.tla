------------------------------- MODULE MCScan -------------------------------
(***************************************************************************)
(* Instances of Scan, and of Connector under it, for TLC.  A behaviour has *)
(* one theme: the cron job's periods, what the runs of a pass share, or    *)
(* the life of eBay's token.                                               *)
(***************************************************************************)
EXTENDS Scan, TLC

CONSTANTS s1, s2, job, scanner, hand, repair, cron, web, script

VARIABLE theme

Homes == (job :> cron) @@ (scanner :> web) @@ (hand :> web) @@ (repair :> script)
Roles == (job :> "cron") @@ (scanner :> "scanner") @@ (hand :> "hand") @@ (repair :> "backfill")

Backoffs == <<1, 2>>

Row(q, m, i) == [query |-> q, markets |-> m, interval |-> i, active |-> TRUE, last |-> Never]

MCInit ==
    /\ theme \in {"periods", "sharing", "token", "lookups"}
    /\ search \in CASE theme = "periods" -> {(s1 :> Row("q1", {"reverb"}, i)) @@ (s2 :> Row("q2", {"mock"}, 4)) : i \in Interval}
                    [] theme = "sharing" -> {(s1 :> Row("q1", {"bonanza", m}, 4)) @@ (s2 :> Row(q, {"bonanza"}, 4)) :
                                               m \in {"bonanza", "reverb", "tradera"}, q \in Query}
                    [] theme = "token" -> {(s1 :> Row("q1", {"ebay"}, 4)) @@ (s2 :> Gone)}
                    [] theme = "lookups" -> {[s \in Search |-> Gone]}
    /\ Init
    /\ (slot = 0) = (theme = "periods")

\* The job asks for s1 at length, so that it may overrun; s2 is at hand.
Periodic ==
    /\ theme = "periods" /\ now <= 9
    /\ \/ Tick
       \/ StartJob(job) \/ NextSearch(job) \/ EndPass(job) \/ Ask(job) \/ TakeAnswer(job) \/ Finish(job)
       \/ UNCHANGED svars /\ (Fails(job) \/ Wake(job) \/ (TryLater(job) /\ call[job].attempt = 1))
       \/ now \in {2, 6} /\ RunNow(hand, s2)
       \/ Ask(hand) \/ TakeAnswer(hand) \/ Finish(hand)
       \/ now <= 2 /\ Crash(cron)
       \/ now = 5 /\ Update(s2, Row("q2", {"mock"}, 8))
    /\ \A t \in {job, hand} : thread'[t].shares = FALSE

Sharing ==
    /\ theme = "sharing"
    /\ \/ Tick /\ now = 0
       \/ StartScanner(scanner) \/ NextSearch(scanner) \/ EndPass(scanner) \/ Ask(scanner)
       \/ TakeAnswer(scanner) \/ Finish(scanner) \/ Fail(scanner)
       \/ Page(scanner) /\ UNCHANGED svars
       \/ Fails(scanner) /\ UNCHANGED svars
       \/ \E q \in Query : Update(s1, Row(q, {"bonanza"}, 4))
       \/ Delete(s2)

Tokens ==
    /\ theme = "token"
    /\ \/ Tick
       \/ now = 0 /\ StartScanner(scanner)
       \/ call[scanner].pc # "idle" /\ Create(s2, Row("q2", {"ebay"}, 4))
       \/ now <= 3 /\ search[s2].last = Never /\ RunNow(hand, s2)
       \/ \E t \in {scanner, hand} :
            NextSearch(t) \/ EndPass(t) \/ Ask(t) \/ TakeAnswer(t) \/ Finish(t)
       \/ Listen(hand)
       \/ (TokenAnswered(scanner) \/ Rejected(scanner) \/ Fails(scanner)) /\ UNCHANGED svars

Lookups ==
    /\ theme = "lookups"
    /\ Tick \/ LookUp(repair) \/ Listen(repair)

MCNext == (Periodic \/ Sharing \/ Tokens \/ Lookups) /\ UNCHANGED theme

MCSpec == MCInit /\ [][MCNext]_<<vars, theme>>
=============================================================================
