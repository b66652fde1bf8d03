------------------------------ MODULE Connector ------------------------------
(***************************************************************************)
(* One request of a thread to a marketplace: a search by words or the      *)
(* lookup of one listing (src/marketplace_alert/connectors/).  Of a reply  *)
(* only what decides is kept: whether there is one, its status, whether    *)
(* the body reports a failure, whether it holds a list, how long the list  *)
(* is and how many of its entries can be read.                             *)
(*                                                                         *)
(* External: the marketplaces, and the network, which answers or gives up  *)
(* within Timeout.  The code between two requests takes no time.           *)
(***************************************************************************)
EXTENDS Integers, FiniteSets

CONSTANTS
    Thread,        \* threads that search or look up
    Process,       \* processes; each has its own shared eBay token
    Home,          \* [Thread -> Process]
    Market,        \* marketplaces this deployment supports
    Configured,    \* those whose credentials are set
    Timeout,       \* the longest a request takes
    MaxRetries,    \* retries of one request
    Backoff,       \* [1 .. MaxRetries -> the wait before each of them]
    Waits,         \* values a marketplace may give Retry-After
    Lifetime,      \* how long an eBay token is valid
    Margin,        \* how long before its end a token is no longer handed out
    Limit,         \* most listings a search returns
    PerPage,       \* listings on a full page
    MaxPages,      \* most pages a search reads
    Sizes,         \* lengths of the list in a reply
    MaxTime        \* bound of the clock

VARIABLES
    now,           \* the clock
    token,         \* [Process -> the eBay token its connectors share]
    call           \* [Thread -> its request]

cvars == <<now, token, call>>

Registry == {"bonanza", "ebay", "etsy", "mock", "reverb", "tradera"}

Least(x, y) == IF x <= y THEN x ELSE y

\* Waits of 2 ^ (attempt - 1) times the first, added up before an attempt.
Waited(attempt) == IF attempt = 1 THEN 0 ELSE 2 * Backoff[attempt - 1] - Backoff[1]

\* The margin covers the wait for the token, every attempt and every backoff.
ASSUME ConnectorAssumption ==
    /\ Home \in [Thread -> Process]
    /\ Configured \subseteq Registry /\ Market \subseteq Registry
    /\ {Timeout, Limit, PerPage, MaxPages, Lifetime, MaxTime} \subseteq Nat \ {0}
    /\ MaxRetries \in Nat /\ Waits \subseteq Nat /\ Sizes \subseteq 0 .. PerPage
    /\ Backoff \in [1 .. MaxRetries -> Nat]
    /\ \A k \in 2 .. MaxRetries : Backoff[k] = 2 * Backoff[k - 1]
    /\ Margin \in Nat /\ Margin <= Lifetime
    /\ \A k \in 1 .. MaxRetries + 1 : Timeout * (MaxRetries + 2) + Waited(k) < Margin

-----------------------------------------------------------------------------
(* The eBay token of a process. *)

NoToken == [until |-> 0, dies |-> 0]

Handed(p) == now < token[p].until

\* Mutant: the token is handed out until its last second.
UseToTheEnd == now + Lifetime

\* Refused early by its own clock, so that a request never outlives it.
UseBy == now + Lifetime - Margin

-----------------------------------------------------------------------------
(* Requests. *)

NoCall ==
    [pc |-> "idle", kind |-> "search", market |-> "mock", query |-> "none", page |-> 1, attempt |-> 1,
     by |-> 0, dies |-> 0, extra |-> 0, n |-> 0, silent |-> FALSE, answer |-> "none"]

\* c answered; extra, dies and silent are kept for the properties.
Answered(c, answer) == [c EXCEPT !.pc = "done", !.answer = answer, !.by = 0]

Sent(c) == [c EXCEPT !.pc = "reply", !.by = now + Timeout]

\* The token manager's lock is held for as long as a token is asked for.
TokenFree(p) == \A t \in Thread : Home[t] = p => call[t].pc # "token"

\* Bonanza and Tradera have no lookup by id.
Offers(m, kind) == kind = "search" \/ m \notin {"bonanza", "tradera"}

\* t asks m, with the words of query if it searches.
Begin(t, kind, m, query) ==
    LET c == [NoCall EXCEPT !.kind = kind, !.market = m, !.query = query] IN
    /\ call[t].pc = "idle"
    /\ \/ /\ ~Offers(m, kind)
          /\ call' = [call EXCEPT ![t] = Answered(c, "unsupported")]
       \/ /\ m \notin Market \/ m \notin Configured \cup {"mock"}
          /\ Offers(m, kind)
          /\ call' = [call EXCEPT ![t] = Answered(c, "error")]
       \/ /\ m = "mock" /\ m \in Market
          /\ \/ \E n \in Sizes :
                  /\ kind = "lookup" => n = 1
                  /\ call' = [call EXCEPT ![t] = Answered([c EXCEPT !.n = n, !.silent = TRUE], "listings")]
             \/ kind = "lookup" /\ call' = [call EXCEPT ![t] = Answered(c, "gone")]
       \/ /\ m \in (Market \cap Configured) \ {"mock", "ebay"}
          /\ Offers(m, kind)
          /\ call' = [call EXCEPT ![t] = Sent(c)]
       \/ /\ m = "ebay" /\ m \in Market \cap Configured
          /\ TokenFree(Home[t])
          /\ call' = [call EXCEPT ![t] =
                        IF Handed(Home[t]) THEN Sent([c EXCEPT !.dies = token[Home[t]].dies])
                                           ELSE [c EXCEPT !.pc = "token", !.by = now + Timeout]]
    /\ UNCHANGED <<now, token>>

\* eBay issues a token at some moment of the request for it, or does not.
TokenAnswered(t) ==
    /\ call[t].pc = "token"
    /\ \/ \E issued \in call[t].by - Timeout .. now :
            /\ token' = [token EXCEPT ![Home[t]] = [until |-> UseBy, dies |-> issued + Lifetime]]
            /\ call' = [call EXCEPT ![t] = Sent([@ EXCEPT !.dies = issued + Lifetime])]
       \/ /\ call' = [call EXCEPT ![t] = Answered(@, "error")]
          /\ UNCHANGED token
    /\ UNCHANGED now

\* No reply, or one whose status or body is beyond any handling.
Fails(t) ==
    /\ call[t].pc = "reply"
    /\ call' = [call EXCEPT ![t] = Answered(@, "error")]
    /\ UNCHANGED <<now, token>>

\* As long as the marketplace says, or twice the wait before.
Delays(attempt) == Waits \cup {Backoff[attempt]}

\* 429, 502, 503 or 504, perhaps with a Retry-After: another attempt, the same
\* token, or the end of this request's retries.
TryLater(t) ==
    LET c == call[t] IN
    /\ c.pc = "reply"
    /\ \/ /\ c.attempt <= MaxRetries
          /\ \E w \in Delays(c.attempt) :
               call' = [call EXCEPT ![t] =
                   [c EXCEPT !.pc = "sleep", !.by = now + w, !.attempt = @ + 1,
                             !.extra = @ + (w - Least(w, Backoff[c.attempt]))]]
       \/ /\ c.attempt > MaxRetries
          /\ call' = [call EXCEPT ![t] = Answered(@, "error")]
    /\ UNCHANGED <<now, token>>

Wake(t) ==
    /\ call[t].pc = "sleep" /\ now >= call[t].by
    /\ call' = [call EXCEPT ![t] = Sent(@)]
    /\ UNCHANGED <<now, token>>

\* 401 or 403: whichever token the process has by now is dropped.
Rejected(t) ==
    /\ call[t].pc = "reply"
    /\ call[t].market = "ebay" => TokenFree(Home[t])
    /\ call' = [call EXCEPT ![t] = Answered(@, IF @.kind = "lookup" THEN "auth" ELSE "error")]
    /\ token' = IF call[t].market = "ebay" THEN [token EXCEPT ![Home[t]] = NoToken] ELSE token
    /\ UNCHANGED now

\* 404: to a lookup, that the listing is no more.
NotFound(t) ==
    /\ call[t].pc = "reply"
    /\ call' = [call EXCEPT ![t] = Answered(@, IF @.kind = "lookup" THEN "gone" ELSE "error")]
    /\ UNCHANGED <<now, token>>

\* 200, to a lookup: a listing that can be read.
Found(t) ==
    /\ call[t].pc = "reply" /\ call[t].kind = "lookup"
    /\ call' = [call EXCEPT ![t] = Answered([@ EXCEPT !.n = 1], "listings")]
    /\ UNCHANGED <<now, token>>

-----------------------------------------------------------------------------
(* The pages of a search. *)

\* Only Bonanza says how it went (its ack may be missing), and Tradera (its
\* errors); only Reverb links to the next page.
Bodies(m) ==
    LET Acks == CASE m = "bonanza" -> {"Success", "Failure", "Missing"}
                  [] m = "tradera" -> {"Success", "Failure"}
                  [] OTHER -> {"Success"}
        Links == IF m = "reverb" THEN BOOLEAN ELSE {FALSE}
    IN  [ack : Acks, items : {"absent", "wrong"}, size : {0}, good : {0}, more : Links]
        \cup {b \in [ack : Acks, items : {"list"}, size : Sizes, good : Sizes, more : Links] : b.good <= b.size}

\* What a connector makes of a body, with n listings in hand: "take" its list,
\* "stop" and return what is in hand, or report an "error".
ReadEbay(b) == CASE b.items = "list" -> "take" [] b.items = "absent" -> "stop" [] OTHER -> "error"

ReadEtsy(b) == IF b.items = "list" THEN "take" ELSE "error"

ReadTradera(b) == IF b.ack = "Failure" THEN "error" ELSE ReadEbay(b)

\* A page that is no result ends the search, and spoils only an empty one.
Spoilt(n) == IF n = 0 THEN "error" ELSE "stop"

ReadReverb(b, n) == IF b.items = "list" THEN "take" ELSE Spoilt(n)

\* Mutant: a missing list means no results, whatever the ack.
ReadBonanzaAnyAck(b, n) ==
    CASE b.ack = "Failure" \/ b.items = "wrong" -> Spoilt(n)
      [] b.items = "absent" -> "stop"
      [] OTHER -> "take"

ReadBonanza(b, n) ==
    CASE b.ack = "Failure" \/ b.items = "wrong" -> Spoilt(n)
      [] b.items = "absent" -> IF b.ack = "Success" THEN "stop" ELSE Spoilt(n)
      [] OTHER -> "take"

Reading(m, b, n) ==
    CASE m = "ebay" -> ReadEbay(b)
      [] m = "etsy" -> ReadEtsy(b)
      [] m = "tradera" -> ReadTradera(b)
      [] m = "reverb" -> ReadReverb(b, n)
      [] m = "bonanza" -> ReadBonanza(b, n)

\* Reverb: while there is a link; Bonanza: after a full page.
ReadsOn(m, b, page, n) ==
    /\ page < MaxPages /\ n < Limit
    /\ \/ m = "reverb" /\ b.more
       \/ m = "bonanza" /\ b.size >= PerPage

\* In any words: this page says that there is nothing to be found on it.
SaysNothing(b) ==
    \/ b.items = "list" /\ b.ack # "Failure"
    \/ b.items = "absent" /\ b.ack = "Success"

\* 200, to a search.  What earlier pages gave is kept when a later one is not a
\* result; a later request that fails loses it.  (eBay and Etsy are asked for at
\* most Limit; the others are cut.)
Page(t) ==
    LET c == call[t] IN
    /\ c.pc = "reply" /\ c.kind = "search"
    /\ \E b \in Bodies(c.market) :
         LET n == Least(Limit, c.n + b.good)
             d == [c EXCEPT !.n = n, !.silent = SaysNothing(b)]
         IN  call' = [call EXCEPT ![t] =
               CASE Reading(c.market, b, c.n) = "error" -> Answered(c, "error")
                 [] Reading(c.market, b, c.n) = "stop" -> Answered([d EXCEPT !.n = c.n], "listings")
                 [] OTHER -> IF ReadsOn(c.market, b, c.page, n)
                             THEN Sent([d EXCEPT !.page = @ + 1, !.attempt = 1])
                             ELSE Answered(d, "listings")]
    /\ UNCHANGED <<now, token>>

\* Whatever a request under way comes to.
Hears(t) ==
    \/ TokenAnswered(t) \/ Fails(t) \/ TryLater(t) \/ Wake(t)
    \/ Rejected(t) \/ NotFound(t) \/ Found(t) \/ Page(t)

\* No request outlasts its deadline, and no sleep.
InTime == \A t \in Thread : call[t].pc \in {"token", "reply", "sleep"} => now < call[t].by

-----------------------------------------------------------------------------
(* No request carries an eBay token past its end, through retries and      *)
(* backoffs, but for the seconds the marketplace itself had the thread     *)
(* wait in a Retry-After: token_manager._EXPIRY_SAFETY_MARGIN_SECONDS      *)
(* against connectors/retry.py, which sends the same headers every time.   *)
TokenOutlivesItsUse ==
    \A t \in Thread :
        call[t].pc = "reply" /\ call[t].market = "ebay" => now < call[t].dies + call[t].extra
=============================================================================
