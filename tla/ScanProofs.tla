----------------------------- MODULE ScanProofs -----------------------------
(***************************************************************************)
(* Machine-checked proofs about modules Connector and Scan, for any        *)
(* threads, processes, searches, marketplaces, roles and settings.         *)
(***************************************************************************)
EXTENDS Scan, TLAPS

-----------------------------------------------------------------------------
(* Types.                                                                  *)

Words == Query \cup {"none", "gone"}

Outcome == {"none", "listings", "error", "auth", "gone", "unsupported"}

CallType ==
    [pc : {"idle", "token", "reply", "sleep", "done"}, kind : {"search", "lookup"},
     market : Registry, query : Words, page : Nat, attempt : Nat \ {0}, by : Nat, dies : Nat,
     extra : Nat, n : Nat, silent : BOOLEAN, answer : Outcome]

TokenType == [until : Nat, dies : Nat]

AnswerType ==
    [market : Registry \cup {"none"}, query : Words, at : Nat, answer : Outcome,
     n : Nat, silent : BOOLEAN]

ThreadType ==
    [pc : {"idle", "pass", "run"}, start : Nat, onTime : BOOLEAN, shares : BOOLEAN,
     due : SUBSET Search, cache : SUBSET AnswerType, calls : Seq(Registry \X Words),
     search : Search \cup {"none"}, query : Words, left : SUBSET Registry,
     from : Registry \cup {"none"}, got : AnswerType]

SearchType ==
    [active : BOOLEAN, last : Int, interval : Nat, markets : SUBSET Registry, query : Words]

-----------------------------------------------------------------------------
(* The inductive invariant: requests.                                      *)

\* Nothing found means that a reply said so; also of remembered answers.
Honest(a) == a.answer = "listings" /\ a.n = 0 => a.silent

\* The steps still under way end in time; those with eBay's token have spent
\* no more of its margin than their attempts and backoffs account for.
InHand(c, clock) ==
    /\ c.pc \in {"token", "reply", "sleep"} => clock <= c.by
    /\ c.market = "mock" => c.pc \in {"idle", "done"}
    /\ c.pc = "token" =>
         c.market = "ebay" /\ Timeout <= c.by /\ c.attempt = 1 /\ c.extra = 0
    /\ c.market = "ebay" /\ c.pc \in {"reply", "sleep"} =>
         /\ c.attempt \in 1 .. MaxRetries + 1
         /\ c.by + Margin <= c.dies + c.extra + Waited(c.attempt)
                               + Timeout * (c.attempt + (IF c.pc = "reply" THEN 1 ELSE 0))

CallOK(c, clock) == (c.pc = "done" => Honest(c)) /\ InHand(c, clock)

\* A token is refused early enough by the clock that handed it out.
TokenOK(k) == k.until > 0 => k.until + Margin <= k.dies + Timeout

ConnectorInv ==
    /\ now \in Nat
    /\ token \in [Process -> TokenType]
    /\ call \in [Thread -> CallType]
    /\ \A t \in Thread : CallOK(call[t], now)
    /\ \A p \in Process : TokenOK(token[p])

-----------------------------------------------------------------------------
(* The inductive invariant: passes and runs.                               *)

\* Every question of a sharing pass was asked once: it is answered and
\* remembered, or it is the request under way.
Asked(r, c) ==
    /\ \A i, j \in DOMAIN r.calls : r.calls[i] = r.calls[j] => i = j
    /\ \A i \in DOMAIN r.calls :
         \/ \E e \in r.cache : r.calls[i] = <<e.market, e.query>>
         \/ r.pc = "run" /\ c.pc # "idle" /\ r.calls[i] = <<c.market, c.query>>

Rightful(r) ==
    /\ r.got.market = r.from /\ r.got.query = r.query /\ r.got.at >= r.start
    /\ Honest(r.got)

\* r is what a thread of this role does, c its request.
Own(r, c, role) ==
    /\ role = "backfill" => r.pc = "idle"
    /\ role # "backfill" /\ r.pc # "run" => c.pc = "idle"
    /\ r.pc = "run" /\ c.pc # "idle" => c.query = r.query /\ c.market \in r.left
    /\ \A e \in r.cache : e.at >= r.start /\ Honest(e)
    /\ r.pc = "run" /\ r.got # NoAnswer => Rightful(r)
    /\ r.shares => Asked(r, c)

ScanInv ==
    /\ search \in [Search -> SearchType]
    /\ thread \in [Thread -> ThreadType]
    /\ \A t \in Thread : thread[t].start <= now /\ Own(thread[t], call[t], Role[t])

IInv == ConnectorInv /\ ScanInv

-----------------------------------------------------------------------------
(* Facts about the constants and the placeholders.                         *)

LEMMA Constants ==
  /\ Home \in [Thread -> Process] /\ Market \subseteq Registry
  /\ Timeout \in Nat /\ Limit \in Nat /\ MaxRetries \in Nat /\ Lifetime \in Nat
  /\ Margin \in Nat /\ Margin <= Lifetime
  /\ Waits \subseteq Nat /\ Sizes \subseteq Nat
  /\ Backoff \in [1 .. MaxRetries -> Nat]
  <1>1. /\ Home \in [Thread -> Process] /\ Market \subseteq Registry
        /\ Margin \in Nat /\ Margin <= Lifetime
        /\ MaxRetries \in Nat /\ Waits \subseteq Nat
        /\ Backoff \in [1 .. MaxRetries -> Nat]
    BY ConnectorAssumption, Zenon
  <1>2. {Timeout, Limit, PerPage, MaxPages, Lifetime, MaxTime} \subseteq Nat \ {0}
    BY ConnectorAssumption, Zenon
  <1>3. Sizes \subseteq 0 .. PerPage
    BY ConnectorAssumption, Zenon
  <1>4. Timeout \in Nat /\ Limit \in Nat /\ Lifetime \in Nat /\ PerPage \in Nat
    BY ONLY <1>2
  <1>5. Sizes \subseteq Nat
    BY ONLY <1>3, <1>4
  <1>6. QED
    BY ONLY <1>1, <1>4, <1>5

\* The waits before an attempt grow by the wait of the attempt before it.
LEMMA WaitedStep ==
  ASSUME NEW k \in 1 .. MaxRetries
  PROVE  /\ Waited(k) \in Int /\ Waited(k + 1) \in Int
         /\ Waited(k + 1) = Waited(k) + Backoff[k]
  <1>1. k \in Nat /\ MaxRetries \in Nat /\ Backoff[k] \in Nat /\ Backoff[1] \in Nat
    BY Constants
  <1>2. CASE k = 1
    BY <1>1, <1>2 DEF Waited
  <1>3. CASE k # 1
    <2>1. k - 1 \in 1 .. MaxRetries /\ Backoff[k - 1] \in Nat
      BY <1>1, <1>3, Constants
    <2>2. Backoff[k] = 2 * Backoff[k - 1]
      BY <1>1, <1>3, ConnectorAssumption
    <2>3. QED
      BY <1>1, <1>3, <2>1, <2>2 DEF Waited
  <1>4. QED
    BY <1>2, <1>3

\* The margin outlasts every attempt with all the waits before it.
LEMMA MarginOutlasts ==
  ASSUME NEW k \in 1 .. MaxRetries + 1
  PROVE  Waited(k) \in Int /\ Timeout * (k + 1) + Waited(k) < Margin
  <1>1. Waited(k) \in Int
    <2>1. CASE k = 1
      BY <2>1 DEF Waited
    <2>2. CASE k # 1
      <3>1. k - 1 \in 1 .. MaxRetries /\ (k - 1) + 1 = k
        BY <2>2, Constants
      <3>2. QED
        BY <3>1, WaitedStep
    <2>3. QED
      BY <2>1, <2>2
  <1>2. Timeout * (MaxRetries + 2) + Waited(k) < Margin
    BY ConnectorAssumption
  <1>3. Timeout * (k + 1) <= Timeout * (MaxRetries + 2)
    <2>1. PICK d \in Nat : MaxRetries + 2 = (k + 1) + d
      <3>1. MaxRetries + 1 - k \in Nat /\ MaxRetries + 2 = (k + 1) + (MaxRetries + 1 - k)
        BY Constants
      <3>2. QED
        BY <3>1
    <2>2. Timeout * ((k + 1) + d) = Timeout * (k + 1) + Timeout * d
      BY Constants
    <2>3. Timeout * d \in Nat /\ Timeout * (k + 1) \in Nat
      BY Constants
    <2>4. QED
      BY <2>1, <2>2, <2>3
  <1> DEFINE spent == Timeout * (k + 1)
             most == Timeout * (MaxRetries + 2)
             waited == Waited(k)
  <1>4. spent \in Int /\ most \in Int /\ waited \in Int /\ Margin \in Int
    BY <1>1, Constants
  <1>5. spent <= most /\ most + waited < Margin
    BY <1>2, <1>3
  <1> HIDE DEF spent, most, waited
  <1>6. waited \in Int /\ spent + waited < Margin
    BY <1>4, <1>5
  <1>7. QED
    BY <1>6 DEF spent, waited

LEMMA NoCallOK ==
  ASSUME NEW clock
  PROVE  NoCall \in CallType /\ NoCall.pc = "idle" /\ CallOK(NoCall, clock)
  BY DEF NoCall, CallType, CallOK, InHand, Words, Outcome, Registry

LEMMA NoThreadOK ==
  ASSUME NEW role, NEW c, role # "backfill" => c.pc = "idle"
  PROVE  NoThread \in ThreadType /\ NoThread.start = 0 /\ Own(NoThread, c, role)
  <1>1. NoAnswer \in AnswerType
    BY DEF NoAnswer, AnswerType, Words, Outcome
  <1>2. NoThread \in ThreadType
    BY <1>1 DEF NoThread, ThreadType, Words
  <1>3. QED
    BY <1>2 DEF NoThread, Own


-----------------------------------------------------------------------------
(* Requests keep the invariant.                                            *)

\* What the request of t becomes: the same question, still in hand.
Becomes(t, d) ==
    /\ d \in CallType /\ CallOK(d, now) /\ d.pc # "idle"
    /\ d.market = call[t].market /\ d.query = call[t].query
    /\ call' = [call EXCEPT ![t] = d]

TokensKept ==
    token' \in [Process -> TokenType] /\ \A p \in Process : TokenOK(token'[p])

LEMMA AnsweredOK ==
  ASSUME NEW c \in CallType, NEW answer \in Outcome, NEW clock,
         answer = "listings" => Honest(Answered(c, answer))
  PROVE  /\ Answered(c, answer) \in CallType
         /\ Answered(c, answer).pc = "done"
         /\ Answered(c, answer).market = c.market
         /\ Answered(c, answer).query = c.query
         /\ CallOK(Answered(c, answer), clock)
  <1> DEFINE d == Answered(c, answer)
  <1>1. /\ d \in CallType /\ d.pc = "done" /\ d.answer = answer
        /\ d.market = c.market /\ d.query = c.query
    BY DEF Answered, CallType
  <1>2. CallOK(d, clock)
    BY <1>1 DEF CallOK, InHand, Honest
  <1>3. QED
    BY <1>1, <1>2

\* A request is sent with the token in hand; eBay's has enough of its margin left.
LEMMA SentOK ==
  ASSUME now \in Nat, NEW c \in CallType, c.market # "mock",
         c.market = "ebay" =>
           /\ c.attempt \in 1 .. MaxRetries + 1
           /\ now + Timeout + Margin <= c.dies + c.extra + Waited(c.attempt)
                                          + Timeout * (c.attempt + 1)
  PROVE  /\ Sent(c) \in CallType /\ Sent(c).pc = "reply" /\ CallOK(Sent(c), now)
         /\ Sent(c).market = c.market /\ Sent(c).query = c.query
  <1> DEFINE d == Sent(c)
  <1>1. now + Timeout \in Nat /\ now <= now + Timeout
    BY Constants
  <1>2. /\ d \in CallType /\ d.pc = "reply" /\ d.by = now + Timeout
        /\ d.market = c.market /\ d.query = c.query
        /\ d.attempt = c.attempt /\ d.dies = c.dies /\ d.extra = c.extra
    BY <1>1 DEF Sent, CallType
  <1>3. CallOK(d, now)
    BY <1>1, <1>2 DEF CallOK, InHand
  <1>4. QED
    BY <1>2, <1>3

LEMMA TokenAnsweredOK ==
  ASSUME ConnectorInv, NEW t \in Thread, TokenAnswered(t)
  PROVE  (\E d : Becomes(t, d)) /\ TokensKept /\ now' = now
  <1> DEFINE c == call[t]
             p == Home[t]
  <1>1. /\ c \in CallType /\ CallOK(c, now) /\ c.pc = "token" /\ p \in Process
        /\ now \in Nat /\ now' = now
    BY Constants DEF ConnectorInv, TokenAnswered
  <1>2. /\ now <= c.by /\ Timeout <= c.by /\ c.attempt = 1 /\ c.extra = 0
        /\ c.market = "ebay" /\ c.by \in Nat
    BY <1>1 DEF CallOK, InHand, CallType
  <1>3. CASE /\ call' = [call EXCEPT ![t] = Answered(c, "error")]
             /\ token' = token
    <2>1. Becomes(t, Answered(c, "error"))
      BY <1>1, <1>3, AnsweredOK DEF Becomes, Outcome
    <2>2. TokensKept
      BY <1>3 DEF TokensKept, ConnectorInv
    <2>3. QED
      BY <1>1, <2>1, <2>2
  <1>4. ASSUME NEW issued \in c.by - Timeout .. now,
               token' = [token EXCEPT ![p] = [until |-> UseBy, dies |-> issued + Lifetime]],
               call' = [call EXCEPT ![t] = Sent([c EXCEPT !.dies = issued + Lifetime])]
        PROVE  (\E d : Becomes(t, d)) /\ TokensKept
    <2> DEFINE e == [c EXCEPT !.dies = issued + Lifetime]
               k == [until |-> UseBy, dies |-> issued + Lifetime]
    <2>1. issued \in Nat /\ issued + Lifetime \in Nat /\ now <= issued + Timeout
      BY <1>1, <1>2, Constants
    <2>2. /\ e \in CallType /\ e.dies = issued + Lifetime /\ e.attempt = 1 /\ e.extra = 0
          /\ e.market = c.market /\ e.query = c.query
      BY <1>1, <1>2, <2>1 DEF CallType
    <2>3. Waited(1) = 0 /\ 1 \in 1 .. MaxRetries + 1
      BY Constants DEF Waited
    <2>4. now + Timeout + Margin <= issued + Lifetime + 0 + Waited(1) + Timeout * (1 + 1)
      BY <1>1, <2>1, <2>3, Constants
    <2>5. Becomes(t, Sent(e))
      <3>1. /\ Sent(e) \in CallType /\ Sent(e).pc = "reply" /\ CallOK(Sent(e), now)
            /\ Sent(e).market = e.market /\ Sent(e).query = e.query
        <4> HIDE DEF e
        <4>1. QED
          BY <1>1, <1>2, <2>2, <2>3, <2>4, SentOK
      <3>2. QED
        BY <1>4, <2>2, <3>1 DEF Becomes
    <2>6. k \in TokenType /\ TokenOK(k)
      BY <1>1, <2>1, Constants DEF TokenType, TokenOK, UseBy
    <2>7. TokensKept
      <3> HIDE DEF k
      <3>1. QED
        BY <1>1, <1>4, <2>6 DEF TokensKept, ConnectorInv, k
    <2>8. QED
      BY <2>5, <2>7
  <1>5. QED
    BY <1>1, <1>3, <1>4 DEF TokenAnswered

LEMMA TryLaterOK ==
  ASSUME ConnectorInv, NEW t \in Thread, TryLater(t)
  PROVE  (\E d : Becomes(t, d)) /\ TokensKept /\ now' = now
  <1> DEFINE c == call[t]
  <1>1. /\ c \in CallType /\ CallOK(c, now) /\ c.pc = "reply" /\ c.market # "mock"
        /\ now \in Nat /\ now' = now /\ TokensKept
    BY DEF ConnectorInv, TryLater, TokensKept, CallOK, InHand
  <1>2. CASE call' = [call EXCEPT ![t] = Answered(c, "error")]
    <2>1. Becomes(t, Answered(c, "error"))
      BY <1>1, <1>2, AnsweredOK DEF Becomes, Outcome
    <2>2. QED
      BY <1>1, <2>1
  <1>3. ASSUME c.attempt <= MaxRetries, NEW w \in Delays(c.attempt),
               call' = [call EXCEPT ![t] =
                   [c EXCEPT !.pc = "sleep", !.by = now + w, !.attempt = @ + 1,
                             !.extra = @ + (w - Least(w, Backoff[c.attempt]))]]
        PROVE  \E d : Becomes(t, d)
    <2> DEFINE b == Backoff[c.attempt]
               x == c.extra + (w - Least(w, b))
               d == [c EXCEPT !.pc = "sleep", !.by = now + w, !.attempt = @ + 1,
                              !.extra = @ + (w - Least(w, b))]
    <2>1. /\ c.attempt \in 1 .. MaxRetries /\ b \in Nat /\ w \in Nat /\ now + w \in Nat
          /\ c.attempt + 1 \in 1 .. MaxRetries + 1
      <3>1. c.attempt \in Nat \ {0}
        BY <1>1 DEF CallType
      <3>2. c.attempt \in 1 .. MaxRetries /\ c.attempt + 1 \in 1 .. MaxRetries + 1
        BY <1>3, <3>1, Constants
      <3>3. b \in Nat
        BY <3>2, Constants
      <3>4. w \in Nat
        BY <1>3, <3>3, Constants DEF Delays
      <3>5. QED
        BY <1>1, <3>2, <3>3, <3>4
    <2>2. w - Least(w, b) \in Nat /\ w - Least(w, b) >= w - b
      BY <2>1 DEF Least
    <2>3. x \in Nat
      BY <1>1, <2>2 DEF CallType
    <2>4. /\ d \in CallType /\ d.pc = "sleep" /\ d.by = now + w /\ d.attempt = c.attempt + 1
          /\ d.extra = x /\ d.dies = c.dies /\ d.market = c.market /\ d.query = c.query
      <3> HIDE DEF x, b
      <3>1. d = [c EXCEPT !.pc = "sleep", !.by = now + w, !.attempt = c.attempt + 1, !.extra = x]
        BY DEF x, b
      <3>2. c.attempt + 1 \in Nat \ {0}
        BY <2>1, Constants
      <3>3. QED
        BY <1>1, <2>1, <2>3, <3>1, <3>2 DEF CallType
    <2>5. CallOK(d, now)
      <3> HIDE DEF d, x, b
      <3>1. now <= now + w
        BY <1>1, <2>1
      <3>2. ASSUME c.market = "ebay"
            PROVE  now + w + Margin <= c.dies + x + Waited(c.attempt + 1) + Timeout * (c.attempt + 1)
        <4> DEFINE T == Timeout * (c.attempt + 1)
        <4>1. now <= c.by /\ c.by + Margin <= c.dies + c.extra + Waited(c.attempt) + T
          BY <1>1, <3>2 DEF CallOK, InHand
        <4>2. Waited(c.attempt) \in Int /\ Waited(c.attempt + 1) = Waited(c.attempt) + b
          BY <2>1, WaitedStep DEF b
        <4>3. x = c.extra + (w - Least(w, b))
          BY DEF x
        <4>4. T \in Int /\ c.by \in Nat /\ c.dies \in Nat /\ c.extra \in Nat /\ Margin \in Nat
          <5>1. c.by \in Nat /\ c.dies \in Nat /\ c.extra \in Nat
            BY <1>1 DEF CallType
          <5>2. T \in Int
            BY <2>1, Constants
          <5>3. QED
            BY <5>1, <5>2, Constants
        <4> HIDE DEF T
        <4>5. QED
          BY <1>1, <2>1, <2>2, <4>1, <4>2, <4>3, <4>4 DEF T
      <3>3. c.attempt + 1 + 0 = c.attempt + 1 /\ c.market # "mock"
        BY <1>1, <2>1
      <3>4. ASSUME d.market = "ebay"
            PROVE  d.by + Margin <= d.dies + d.extra + Waited(d.attempt) + Timeout * (d.attempt + 0)
        BY <2>4, <3>2, <3>3, <3>4
      <3>5. QED
        BY <2>1, <2>4, <3>1, <3>3, <3>4 DEF CallOK, InHand
    <2>6. QED
      BY <1>1, <1>3, <2>4, <2>5 DEF Becomes
  <1>4. QED
    BY <1>1, <1>2, <1>3 DEF TryLater

LEMMA OneMoreTimeout ==
  ASSUME NEW clock \in Int, NEW by \in Int, NEW s \in Int, NEW margin \in Int,
         NEW dies \in Int, NEW extra \in Int, NEW w \in Int, NEW x \in Int, NEW y \in Int,
         clock <= by, by + margin <= dies + extra + w + x, y = x + s
  PROVE  clock + s + margin <= dies + extra + w + y
  OBVIOUS

LEMMA WakeOK ==
  ASSUME ConnectorInv, NEW t \in Thread, Wake(t)
  PROVE  (\E d : Becomes(t, d)) /\ TokensKept /\ now' = now
  <1> DEFINE c == call[t]
  <1>1. /\ c \in CallType /\ CallOK(c, now) /\ c.pc = "sleep" /\ now >= c.by
        /\ now \in Nat /\ now' = now /\ TokensKept
        /\ call' = [call EXCEPT ![t] = Sent(c)]
        /\ c.market # "mock"
    BY DEF ConnectorInv, Wake, TokensKept, CallOK, InHand
  <1>2. ASSUME c.market = "ebay"
        PROVE  /\ c.attempt \in 1 .. MaxRetries + 1
               /\ now + Timeout + Margin <= c.dies + c.extra + Waited(c.attempt)
                                              + Timeout * (c.attempt + 1)
    <2>1. /\ now <= c.by /\ c.attempt \in 1 .. MaxRetries + 1
          /\ c.by + Margin <= c.dies + c.extra + Waited(c.attempt) + Timeout * (c.attempt + 0)
      BY <1>1, <1>2 DEF CallOK, InHand
    <2>2. Waited(c.attempt) \in Int
      BY <2>1, MarginOutlasts
    <2>3. /\ Timeout * (c.attempt + 1) = Timeout * (c.attempt + 0) + Timeout
          /\ Timeout * (c.attempt + 0) \in Nat
      BY <2>1, Constants
    <2>4. c.by \in Nat /\ c.dies \in Nat /\ c.extra \in Nat
      BY <1>1 DEF CallType
    <2> DEFINE T == Timeout * (c.attempt + 0)
    <2> HIDE DEF T
    <2>5. T \in Nat /\ Timeout * (c.attempt + 1) = T + Timeout
      BY <2>3 DEF T
    <2>6. c.by + Margin <= c.dies + c.extra + Waited(c.attempt) + T
      BY <2>1 DEF T
    <2> DEFINE W == Waited(c.attempt)
               S == Timeout * (c.attempt + 1)
    <2>7. /\ W \in Int /\ S = T + Timeout /\ T \in Nat
          /\ now \in Nat /\ now <= c.by /\ c.by + Margin <= c.dies + c.extra + W + T
      BY <1>1, <2>1, <2>2, <2>5, <2>6
    <2> HIDE DEF W, S
    <2>8. now + Timeout + Margin <= c.dies + c.extra + W + S
      <3>1. /\ now \in Int /\ c.by \in Int /\ Timeout \in Int /\ Margin \in Int
            /\ c.dies \in Int /\ c.extra \in Int /\ W \in Int /\ T \in Int /\ S \in Int
        BY <2>4, <2>7, Constants
      <3>2. QED
        BY <2>7, <3>1, OneMoreTimeout, Zenon
    <2>9. QED
      BY <2>1, <2>8 DEF W, S
  <1>3. QED
    BY <1>1, <1>2, SentOK DEF Becomes

\* 401, 403, 404, no reply, or a listing: the request is over.
LEMMA EndedOK ==
  ASSUME ConnectorInv, NEW t \in Thread, Fails(t) \/ Rejected(t) \/ NotFound(t) \/ Found(t)
  PROVE  (\E d : Becomes(t, d)) /\ TokensKept /\ now' = now
  <1> DEFINE c == call[t]
  <1>1. /\ c \in CallType /\ now' = now
        /\ call \in [Thread -> CallType] /\ token \in [Process -> TokenType]
        /\ \A p \in Process : TokenOK(token[p])
    BY DEF ConnectorInv, Fails, Rejected, NotFound, Found
  <1>2. TokensKept
    <2>1. CASE token' = token
      BY <1>1, <2>1 DEF TokensKept
    <2>2. CASE token' = [token EXCEPT ![Home[t]] = NoToken]
      <3>1. NoToken \in TokenType /\ TokenOK(NoToken)
        BY DEF NoToken, TokenType, TokenOK
      <3>2. QED
        BY <1>1, <2>2, <3>1 DEF TokensKept
    <2>3. QED
      BY <2>1, <2>2 DEF Fails, Rejected, NotFound, Found
  <1>3. CASE \E a \in {"error", "auth", "gone"} : call' = [call EXCEPT ![t] = Answered(c, a)]
    <2>1. PICK a \in {"error", "auth", "gone"} : call' = [call EXCEPT ![t] = Answered(c, a)]
      BY <1>3
    <2>2. Becomes(t, Answered(c, a))
      BY <1>1, <2>1, AnsweredOK DEF Becomes, Outcome
    <2>3. QED
      BY <1>1, <1>2, <2>2
  <1>4. CASE call' = [call EXCEPT ![t] = Answered([c EXCEPT !.n = 1], "listings")]
    <2> DEFINE e == [c EXCEPT !.n = 1]
    <2>1. e \in CallType /\ e.n = 1 /\ e.market = c.market /\ e.query = c.query
      BY <1>1 DEF CallType
    <2> HIDE DEF e
    <2>2. Honest(Answered(e, "listings"))
      BY <2>1 DEF Honest, Answered, CallType
    <2>3. Becomes(t, Answered(e, "listings"))
      BY <1>1, <1>4, <2>1, <2>2, AnsweredOK DEF Becomes, Outcome, e
    <2>4. QED
      BY <1>1, <1>2, <2>3
  <1>5. QED
    BY <1>3, <1>4 DEF Fails, Rejected, NotFound, Found

LEMMA BodyType ==
  ASSUME NEW m, NEW b \in Bodies(m)
  PROVE  /\ b.items \in {"absent", "wrong", "list"} /\ b.good \in {0} \cup Sizes
         /\ m \notin {"bonanza", "tradera"} => b.ack = "Success"
         /\ m = "tradera" => b.ack \in {"Success", "Failure"}
  <1> DEFINE Acks == CASE m = "bonanza" -> {"Success", "Failure", "Missing"}
                       [] m = "tradera" -> {"Success", "Failure"}
                       [] OTHER -> {"Success"}
             Links == IF m = "reverb" THEN BOOLEAN ELSE {FALSE}
  <1>1. b \in [ack : Acks, items : {"absent", "wrong"}, size : {0}, good : {0}, more : Links]
             \cup {x \in [ack : Acks, items : {"list"}, size : Sizes, good : Sizes, more : Links] :
                    x.good <= x.size}
    BY DEF Bodies
  <1>2. /\ m \notin {"bonanza", "tradera"} => Acks = {"Success"}
        /\ m = "tradera" => Acks = {"Success", "Failure"}
    OBVIOUS
  <1> HIDE DEF Acks, Links
  <1>3. QED
    BY <1>1, <1>2

\* A page whose list is taken, or that ends a search with nothing in hand, says
\* that there is nothing on it.
LEMMA ReadingIsHonest ==
  ASSUME NEW m \in {"bonanza", "ebay", "etsy", "reverb", "tradera"}, NEW b \in Bodies(m), NEW n \in Nat,
         Reading(m, b, n) # "error",
         n = 0 \/ Reading(m, b, n) # "stop"
  PROVE  SaysNothing(b)
  <1>1. /\ b.items \in {"absent", "wrong", "list"}
        /\ m \notin {"bonanza", "tradera"} => b.ack = "Success"
        /\ m = "tradera" => b.ack \in {"Success", "Failure"}
    BY BodyType
  <1>2. CASE m = "bonanza"
    BY <1>1, <1>2 DEF Reading, ReadBonanza, Spoilt, SaysNothing
  <1>3. CASE m = "ebay"
    BY <1>1, <1>3 DEF Reading, ReadEbay, SaysNothing
  <1>4. CASE m = "etsy"
    BY <1>1, <1>4 DEF Reading, ReadEtsy, SaysNothing
  <1>5. CASE m = "reverb"
    BY <1>1, <1>5 DEF Reading, ReadReverb, Spoilt, SaysNothing
  <1>6. CASE m = "tradera"
    BY <1>1, <1>6 DEF Reading, ReadTradera, ReadEbay, SaysNothing
  <1>7. QED
    BY <1>2, <1>3, <1>4, <1>5, <1>6

LEMMA PageOK ==
  ASSUME ConnectorInv, NEW t \in Thread, Page(t)
  PROVE  (\E d : Becomes(t, d)) /\ TokensKept /\ now' = now
  <1> DEFINE c == call[t]
             m == c.market
  <1>1. /\ c \in CallType /\ now \in Nat /\ now' = now /\ TokensKept
        /\ m \in {"bonanza", "ebay", "etsy", "reverb", "tradera"}
    <2>1. c \in CallType /\ CallOK(c, now) /\ c.pc = "reply" /\ m # "mock"
      BY DEF ConnectorInv, Page, CallOK, InHand
    <2>2. m \in {"bonanza", "ebay", "etsy", "reverb", "tradera"}
      BY <2>1 DEF CallType, Registry
    <2>3. QED
      BY <2>1, <2>2 DEF ConnectorInv, Page, TokensKept
  <1>2. PICK b \in Bodies(m) :
          LET n == Least(Limit, c.n + b.good)
              d == [c EXCEPT !.n = n, !.silent = SaysNothing(b)]
          IN  call' = [call EXCEPT ![t] =
                CASE Reading(m, b, c.n) = "error" -> Answered(c, "error")
                  [] Reading(m, b, c.n) = "stop" -> Answered([d EXCEPT !.n = c.n], "listings")
                  [] OTHER -> IF ReadsOn(m, b, c.page, n)
                              THEN Sent([d EXCEPT !.page = @ + 1, !.attempt = 1])
                              ELSE Answered(d, "listings")]
    BY DEF Page
  <1> DEFINE n == Least(Limit, c.n + b.good)
             d == [c EXCEPT !.n = n, !.silent = SaysNothing(b)]
             R == Reading(m, b, c.n)
  <1>3. /\ call' = [call EXCEPT ![t] =
              CASE R = "error" -> Answered(c, "error")
                [] R = "stop" -> Answered([d EXCEPT !.n = c.n], "listings")
                [] OTHER -> IF ReadsOn(m, b, c.page, n)
                            THEN Sent([d EXCEPT !.page = @ + 1, !.attempt = 1])
                            ELSE Answered(d, "listings")]
    BY <1>2
  <1>4. n \in Nat /\ SaysNothing(b) \in BOOLEAN
    <2>1. b.good \in {0} \cup Sizes
      BY BodyType
    <2>2. b.good \in Nat
      <3>1. Sizes \subseteq Nat /\ 0 \in Nat
        BY Constants
      <3>2. QED
        BY <2>1, <3>1, Zenon
    <2>3. c.n \in Nat
      BY <1>1 DEF CallType
    <2>4. n \in Nat
      BY <2>2, <2>3, Constants DEF Least
    <2>5. SaysNothing(b) \in BOOLEAN
      BY DEF SaysNothing
    <2>6. QED
      BY <2>4, <2>5
  <1>5. /\ d \in CallType /\ d.n = n /\ d.silent = SaysNothing(b)
        /\ d.market = m /\ d.query = c.query
    <2> HIDE DEF n
    <2>1. QED
      BY <1>1, <1>4 DEF CallType
  <1>6. R # "error" /\ (c.n = 0 \/ R # "stop") => SaysNothing(b)
    BY <1>1, ReadingIsHonest DEF CallType
  <1> HIDE DEF R, d, n
  <1>7. CASE R = "error"
    <2>1. call' = [call EXCEPT ![t] = Answered(c, "error")]
      BY <1>3, <1>7
    <2>2. Becomes(t, Answered(c, "error"))
      BY <1>1, <2>1, AnsweredOK DEF Becomes, Outcome
    <2>3. QED
      BY <1>1, <2>2
  <1>8. CASE R = "stop"
    <2> DEFINE e == [d EXCEPT !.n = c.n]
    <2>1. call' = [call EXCEPT ![t] = Answered(e, "listings")]
      BY <1>3, <1>8
    <2>2. /\ e \in CallType /\ e.n = c.n /\ e.silent = SaysNothing(b)
          /\ e.market = m /\ e.query = c.query
      BY <1>1, <1>5 DEF CallType
    <2> HIDE DEF e
    <2>3. Honest(Answered(e, "listings"))
      BY <1>6, <1>8, <2>2 DEF Honest, Answered, CallType
    <2>4. Becomes(t, Answered(e, "listings"))
      BY <1>1, <2>1, <2>2, <2>3, AnsweredOK DEF Becomes, Outcome
    <2>5. QED
      BY <1>1, <2>4
  <1>9. CASE R \notin {"error", "stop"} /\ ~ReadsOn(m, b, c.page, n)
    <2>1. call' = [call EXCEPT ![t] = Answered(d, "listings")]
      BY <1>3, <1>9
    <2>2. Honest(Answered(d, "listings"))
      BY <1>5, <1>6, <1>9 DEF Honest, Answered, CallType
    <2>3. Becomes(t, Answered(d, "listings"))
      BY <1>1, <1>5, <2>1, <2>2, AnsweredOK DEF Becomes, Outcome
    <2>4. QED
      BY <1>1, <2>3
  <1>10. CASE R \notin {"error", "stop"} /\ ReadsOn(m, b, c.page, n)
    <2> DEFINE e == [d EXCEPT !.page = @ + 1, !.attempt = 1]
    <2>1. call' = [call EXCEPT ![t] = Sent(e)]
      BY <1>3, <1>10
    <2>2. m # "ebay"
      BY <1>10 DEF ReadsOn
    <2>3. e \in CallType /\ e.market = m /\ e.query = c.query
      <3>1. d.page + 1 \in Nat /\ 1 \in Nat \ {0}
        BY <1>5 DEF CallType
      <3>2. QED
        BY <1>5, <3>1 DEF CallType
    <2> HIDE DEF e
    <2>4. Becomes(t, Sent(e))
      BY <1>1, <2>1, <2>2, <2>3, SentOK DEF Becomes
    <2>5. QED
      BY <1>1, <2>4
  <1>11. QED
    BY <1>7, <1>8, <1>9, <1>10

LEMMA HearsOK ==
  ASSUME ConnectorInv, NEW t \in Thread, Hears(t)
  PROVE  (\E d : Becomes(t, d)) /\ TokensKept /\ now' = now
  BY TokenAnsweredOK, TryLaterOK, WakeOK, EndedOK, PageOK DEF Hears

\* A request begins, for this marketplace and these words.
LEMMA BeginOK ==
  ASSUME ConnectorInv, NEW t \in Thread, NEW kind \in {"search", "lookup"}, NEW m \in Registry,
         NEW q \in Words, Begin(t, kind, m, q)
  PROVE  /\ \E d \in CallType :
              /\ CallOK(d, now) /\ d.pc # "idle" /\ d.market = m /\ d.query = q
              /\ call' = [call EXCEPT ![t] = d]
         /\ call[t].pc = "idle" /\ now' = now /\ token' = token
  <1> DEFINE c == [NoCall EXCEPT !.kind = kind, !.market = m, !.query = q]
             p == Home[t]
  <1>1. /\ now \in Nat /\ call[t].pc = "idle" /\ now' = now /\ token' = token
        /\ token[p] \in TokenType /\ TokenOK(token[p])
    BY Constants DEF ConnectorInv, Begin
  <1>2. /\ c \in CallType /\ c.market = m /\ c.query = q /\ c.attempt = 1 /\ c.extra = 0
    <2>1. NoCall \in CallType
      BY NoCallOK
    <2>2. NoCall.attempt = 1 /\ NoCall.extra = 0
      BY DEF NoCall
    <2>3. QED
      BY <2>1, <2>2 DEF CallType
  <1> HIDE DEF c
  <1>3. CASE \E a \in {"unsupported", "error"} : call' = [call EXCEPT ![t] = Answered(c, a)]
    <2>1. PICK a \in {"unsupported", "error"} : call' = [call EXCEPT ![t] = Answered(c, a)]
      BY <1>3
    <2>2. a \in Outcome /\ a # "listings"
      BY DEF Outcome
    <2>3. /\ Answered(c, a) \in CallType /\ Answered(c, a).pc = "done"
          /\ Answered(c, a).market = m /\ Answered(c, a).query = q
          /\ CallOK(Answered(c, a), now)
      BY <1>2, <2>2, AnsweredOK
    <2>4. QED
      BY <1>1, <2>1, <2>3
  <1>4. ASSUME NEW n \in Sizes,
               call' = [call EXCEPT ![t] = Answered([c EXCEPT !.n = n, !.silent = TRUE], "listings")]
        PROVE  \E d \in CallType :
                 /\ CallOK(d, now) /\ d.pc # "idle" /\ d.market = m /\ d.query = q
                 /\ call' = [call EXCEPT ![t] = d]
    <2> DEFINE e == [c EXCEPT !.n = n, !.silent = TRUE]
    <2>1. n \in Nat
      BY Constants
    <2>2. e \in CallType /\ e.market = m /\ e.query = q /\ e.silent
      BY <1>2, <2>1 DEF CallType
    <2> HIDE DEF e
    <2>3. Honest(Answered(e, "listings"))
      BY <2>2 DEF Honest, Answered, CallType
    <2>4. /\ Answered(e, "listings") \in CallType /\ Answered(e, "listings").pc = "done"
          /\ Answered(e, "listings").market = m /\ Answered(e, "listings").query = q
          /\ CallOK(Answered(e, "listings"), now)
      BY <2>2, <2>3, AnsweredOK DEF Outcome
    <2>5. call' = [call EXCEPT ![t] = Answered(e, "listings")]
      BY <1>4 DEF e
    <2>6. QED
      BY <2>4, <2>5
  <1>5. CASE call' = [call EXCEPT ![t] = Answered(c, "gone")]
    <2>1. /\ Answered(c, "gone") \in CallType /\ Answered(c, "gone").pc = "done"
          /\ Answered(c, "gone").market = m /\ Answered(c, "gone").query = q
          /\ CallOK(Answered(c, "gone"), now)
      BY <1>2, AnsweredOK DEF Outcome
    <2>2. QED
      BY <1>1, <1>5, <2>1
  <1>6. CASE m \notin {"mock", "ebay"} /\ call' = [call EXCEPT ![t] = Sent(c)]
    <2>1. /\ Sent(c) \in CallType /\ Sent(c).pc = "reply" /\ CallOK(Sent(c), now)
          /\ Sent(c).market = m /\ Sent(c).query = q
      BY <1>1, <1>2, <1>6, SentOK
    <2>2. QED
      BY <1>1, <1>6, <2>1
  <1>7. CASE /\ m = "ebay" /\ Handed(p)
             /\ call' = [call EXCEPT ![t] = Sent([c EXCEPT !.dies = token[p].dies])]
    <2> DEFINE e == [c EXCEPT !.dies = token[p].dies]
               k == token[p]
    <2>1. /\ e \in CallType /\ e.market = m /\ e.query = q /\ e.attempt = 1 /\ e.extra = 0
          /\ e.dies = k.dies /\ k.dies \in Nat /\ k.until \in Nat
      BY <1>1, <1>2 DEF CallType, TokenType
    <2>2. now < k.until /\ k.until + Margin <= k.dies + Timeout
      BY <1>1, <1>7, <2>1 DEF Handed, TokenOK
    <2> HIDE DEF e
    <2>3. Waited(1) = 0 /\ 1 \in 1 .. MaxRetries + 1 /\ Timeout * (1 + 1) = Timeout + Timeout
      BY Constants DEF Waited
    <2>4. now + Timeout + Margin <= k.dies + 0 + 0 + (Timeout + Timeout)
      BY <1>1, <2>1, <2>2, Constants
    <2>5. /\ Sent(e) \in CallType /\ Sent(e).pc = "reply" /\ CallOK(Sent(e), now)
          /\ Sent(e).market = m /\ Sent(e).query = q
      BY <1>1, <1>7, <2>1, <2>3, <2>4, SentOK
    <2>6. call' = [call EXCEPT ![t] = Sent(e)]
      BY <1>7 DEF e
    <2>7. QED
      BY <1>1, <2>5, <2>6
  <1>8. CASE /\ m = "ebay"
             /\ call' = [call EXCEPT ![t] = [c EXCEPT !.pc = "token", !.by = now + Timeout]]
    <2> DEFINE e == [c EXCEPT !.pc = "token", !.by = now + Timeout]
    <2>1. now + Timeout \in Nat /\ now <= now + Timeout /\ Timeout <= now + Timeout
      BY <1>1, Constants
    <2>2. /\ e \in CallType /\ e.pc = "token" /\ e.by = now + Timeout /\ e.market = m
          /\ e.query = q /\ e.attempt = 1 /\ e.extra = 0
      BY <1>2, <2>1 DEF CallType
    <2> HIDE DEF e
    <2>3. CallOK(e, now)
      BY <1>8, <2>1, <2>2 DEF CallOK, InHand
    <2>4. call' = [call EXCEPT ![t] = e]
      BY <1>8 DEF e
    <2>5. QED
      BY <1>1, <2>2, <2>3, <2>4
  <1>9. CASE ~Offers(m, kind) /\ call' = [call EXCEPT ![t] = Answered(c, "unsupported")]
    BY <1>3, <1>9
  <1>10. CASE call' = [call EXCEPT ![t] = Answered(c, "error")]
    BY <1>3, <1>10
  <1>11. CASE /\ m = "ebay"
              /\ call' = [call EXCEPT ![t] =
                          IF Handed(p) THEN Sent([c EXCEPT !.dies = token[p].dies])
                                       ELSE [c EXCEPT !.pc = "token", !.by = now + Timeout]]
    <2>1. CASE Handed(p)
      BY <1>7, <1>11, <2>1
    <2>2. CASE ~Handed(p)
      BY <1>8, <1>11, <2>2
    <2>3. QED
      BY <2>1, <2>2
  <1>12. CASE \E n \in Sizes :
               call' = [call EXCEPT ![t] = Answered([c EXCEPT !.n = n, !.silent = TRUE], "listings")]
    BY <1>1, <1>4, <1>12
  <1>13. \/ ~Offers(m, kind) /\ call' = [call EXCEPT ![t] = Answered(c, "unsupported")]
         \/ call' = [call EXCEPT ![t] = Answered(c, "error")]
         \/ \E n \in Sizes :
               call' = [call EXCEPT ![t] = Answered([c EXCEPT !.n = n, !.silent = TRUE], "listings")]
         \/ call' = [call EXCEPT ![t] = Answered(c, "gone")]
         \/ m \notin {"mock", "ebay"} /\ call' = [call EXCEPT ![t] = Sent(c)]
         \/ /\ m = "ebay"
            /\ call' = [call EXCEPT ![t] =
                          IF Handed(p) THEN Sent([c EXCEPT !.dies = token[p].dies])
                                       ELSE [c EXCEPT !.pc = "token", !.by = now + Timeout]]
    BY Zenon DEF Begin, c
  <1>14. QED
    BY <1>1, <1>5, <1>6, <1>9, <1>10, <1>11, <1>12, <1>13

-----------------------------------------------------------------------------
(* Initially, and when only one thread and its request change.             *)

LEMMA RowsTyped == Rows \subseteq SearchType /\ Gone \in SearchType
  <1>1. Selections \subseteq SUBSET Registry
    BY Constants DEF Selections
  <1>2. Interval \subseteq Nat /\ Never \in Int
    BY ScanAssumption DEF Never
  <1>3. Rows \subseteq SearchType
    BY <1>1, <1>2 DEF Rows, SearchType, Words
  <1>4. Gone \in SearchType
    BY <1>2 DEF Gone, SearchType, Words
  <1>5. QED
    BY <1>3, <1>4

LEMMA InitOK == Init => IInv
  <1> SUFFICES ASSUME Init
               PROVE  IInv
    OBVIOUS
  <1>1. now \in Nat /\ now = 0
    BY DEF Init
  <1>2. NoToken \in TokenType /\ TokenOK(NoToken)
    BY DEF NoToken, TokenType, TokenOK
  <1>3. NoCall \in CallType /\ NoCall.pc = "idle" /\ CallOK(NoCall, now)
    BY NoCallOK
  <1>4. ConnectorInv
    BY <1>1, <1>2, <1>3 DEF Init, ConnectorInv
  <1>5. \A t \in Thread : NoThread \in ThreadType /\ NoThread.start = 0 /\ Own(NoThread, NoCall, Role[t])
    BY <1>3, NoThreadOK
  <1>6. ScanInv
    BY <1>1, <1>5, RowsTyped DEF Init, ScanInv
  <1>7. QED
    BY <1>4, <1>6 DEF IInv

LEMMA OneCall ==
  ASSUME ConnectorInv, NEW t \in Thread, NEW d \in CallType, CallOK(d, now),
         now' = now, TokensKept, call' = [call EXCEPT ![t] = d]
  PROVE  ConnectorInv' /\ call'[t] = d /\ \A u \in Thread \ {t} : call'[u] = call[u]
  BY DEF ConnectorInv, TokensKept

LEMMA NoCallChanges ==
  ASSUME ConnectorInv, UNCHANGED cvars
  PROVE  ConnectorInv'
  BY DEF ConnectorInv, cvars

LEMMA OneThread ==
  ASSUME ScanInv, NEW t \in Thread, NEW r \in ThreadType,
         r.start <= now, Own(r, call'[t], Role[t]),
         now' = now, thread' = [thread EXCEPT ![t] = r],
         \A u \in Thread \ {t} : call'[u] = call[u],
         search' \in [Search -> SearchType]
  PROVE  ScanInv'
  BY DEF ScanInv

-----------------------------------------------------------------------------
(* The user's searches, and time.                                          *)

LEMMA SearchChanges ==
  ASSUME IInv, NEW s \in Search, Delete(s) \/ \E row \in Rows : Create(s, row) \/ Update(s, row)
  PROVE  IInv'
  <1>1. UNCHANGED <<cvars, thread>>
    BY DEF Delete, Create, Update
  <1>2. search' \in [Search -> SearchType]
    <2>1. search \in [Search -> SearchType]
      BY DEF IInv, ScanInv
    <2>2. CASE Delete(s)
      BY <2>1, <2>2, RowsTyped DEF Delete
    <2>3. ASSUME NEW row \in Rows, Create(s, row)
          PROVE  search' \in [Search -> SearchType]
      BY <2>1, <2>3, RowsTyped DEF Create
    <2>4. ASSUME NEW row \in Rows, Update(s, row)
          PROVE  search' \in [Search -> SearchType]
      <3>1. Edited(s, row) \in SearchType
        BY <2>1, RowsTyped DEF Edited, SearchType
      <3>2. QED
        BY <2>1, <2>4, <3>1 DEF Update
    <2>5. QED
      BY <2>2, <2>3, <2>4
  <1>3. ScanInv'
    BY <1>1, <1>2 DEF IInv, ScanInv, cvars
  <1>4. QED
    BY <1>1, <1>3, NoCallChanges DEF IInv

LEMMA TickOK ==
  ASSUME IInv, Tick
  PROVE  IInv'
  <1>1. now \in Nat /\ now' = now + 1 /\ UNCHANGED <<token, call, search, thread>> /\ InTime
    BY DEF IInv, ConnectorInv, Tick, svars
  <1>2. \A t \in Thread : CallOK(call[t], now')
    <2>1. TAKE t \in Thread
    <2>2. /\ CallOK(call[t], now) /\ call[t] \in CallType
          /\ call[t].pc \in {"token", "reply", "sleep"} => now < call[t].by
      BY <1>1 DEF IInv, ConnectorInv, InTime
    <2>3. call[t].pc \in {"token", "reply", "sleep"} => now' <= call[t].by
      <3>1. call[t].by \in Nat
        BY <2>2 DEF CallType
      <3>2. QED
        BY <1>1, <2>2, <3>1
    <2>4. QED
      BY <2>2, <2>3 DEF CallOK, InHand
  <1>3. ConnectorInv'
    BY <1>1, <1>2 DEF IInv, ConnectorInv
  <1>4. \A t \in Thread : thread[t].start <= now'
    <2>1. TAKE t \in Thread
    <2>2. thread[t].start \in Nat /\ thread[t].start <= now
      BY DEF IInv, ScanInv, ThreadType
    <2>3. QED
      BY <1>1, <2>2
  <1>5. ScanInv'
    BY <1>1, <1>4 DEF IInv, ScanInv
  <1>6. QED
    BY <1>3, <1>5 DEF IInv

-----------------------------------------------------------------------------
(* Passes.                                                                 *)

LEMMA StartPassOK ==
  ASSUME IInv, NEW t \in Thread, NEW due \in SUBSET Search, NEW onTime \in BOOLEAN,
         Role[t] \in {"cron", "scanner"}, StartPass(t, due, onTime)
  PROVE  IInv'
  <1>1. /\ ConnectorInv /\ ScanInv /\ UNCHANGED <<cvars, search>> /\ now \in Nat
        /\ thread[t].pc = "idle" /\ Own(thread[t], call[t], Role[t])
    BY DEF IInv, ConnectorInv, ScanInv, StartPass
  <1>2. PICK shares \in BOOLEAN :
          thread' = [thread EXCEPT ![t] =
             [NoThread EXCEPT !.pc = "pass", !.start = now, !.onTime = onTime, !.shares = shares, !.due = due]]
    BY DEF StartPass
  <1> DEFINE r == [NoThread EXCEPT !.pc = "pass", !.start = now, !.onTime = onTime,
                                   !.shares = shares, !.due = due]
  <1>3. call[t].pc = "idle"
    BY <1>1 DEF Own
  <1>4. /\ r \in ThreadType /\ r.pc = "pass" /\ r.start = now /\ r.cache = {} /\ r.calls = <<>>
    <2>1. NoThread \in ThreadType
      BY NoThreadOK, <1>3
    <2>2. NoThread.cache = {} /\ NoThread.calls = <<>>
      BY DEF NoThread
    <2>3. QED
      BY <1>1, <2>1, <2>2 DEF ThreadType
  <1> HIDE DEF r
  <1>5. Own(r, call[t], Role[t])
    BY <1>3, <1>4 DEF Own, Asked
  <1>6. ScanInv'
    <2>1. thread' = [thread EXCEPT ![t] = r]
      BY <1>2 DEF r
    <2>2. call' = call /\ now' = now /\ search' \in [Search -> SearchType] /\ now <= now
      BY <1>1 DEF ScanInv, cvars
    <2>3. QED
      BY <1>1, <1>4, <1>5, <2>1, <2>2, OneThread
  <1>7. QED
    BY <1>1, <1>6, NoCallChanges DEF IInv

LEMMA EndPassOK ==
  ASSUME IInv, NEW t \in Thread, EndPass(t)
  PROVE  IInv'
  <1>1. /\ ConnectorInv /\ ScanInv /\ UNCHANGED <<now, call, search>> /\ now \in Nat
        /\ thread[t].pc = "pass" /\ Own(thread[t], call[t], Role[t])
        /\ thread' = [thread EXCEPT ![t] = NoThread]
    BY DEF IInv, ConnectorInv, ScanInv, EndPass
  <1>2. call[t].pc = "idle"
    BY <1>1 DEF Own
  <1>3. NoThread \in ThreadType /\ NoThread.start = 0 /\ Own(NoThread, call[t], Role[t])
    BY <1>2, NoThreadOK
  <1>4. ScanInv'
    <2>1. NoThread.start <= now /\ search' \in [Search -> SearchType]
      BY <1>1, <1>3 DEF ScanInv
    <2>2. QED
      BY <1>1, <1>3, <2>1, OneThread
  <1>5. ConnectorInv'
    <2>1. NoToken \in TokenType /\ TokenOK(NoToken)
      BY DEF NoToken, TokenType, TokenOK
    <2>2. CASE token' = token
      BY <1>1, <2>2 DEF ConnectorInv
    <2>3. CASE token' = [token EXCEPT ![Home[t]] = NoToken]
      BY <1>1, <2>1, <2>3 DEF ConnectorInv
    <2>4. QED
      BY <2>2, <2>3 DEF EndPass
  <1>6. QED
    BY <1>4, <1>5 DEF IInv

-----------------------------------------------------------------------------
(* Runs.                                                                   *)

\* A run begins with nothing asked.
LEMMA RunningOK ==
  ASSUME ScanInv, NEW r \in ThreadType, NEW c, NEW role, NEW s \in Search,
         role # "backfill", c.pc = "idle",
         \A e \in r.cache : e.at >= r.start /\ Honest(e),
         r.shares => Asked(r, c)
  PROVE  /\ Running(r, s) \in ThreadType /\ Running(r, s).start = r.start
         /\ Own(Running(r, s), c, role)
  <1> DEFINE x == Running(r, s)
  <1>1. /\ NoAnswer \in AnswerType /\ search[s].query \in Words
        /\ search[s].markets \in SUBSET Registry
    BY DEF NoAnswer, AnswerType, Words, Outcome, ScanInv, SearchType
  <1>2. /\ x \in ThreadType /\ x.pc = "run" /\ x.start = r.start /\ x.cache = r.cache
        /\ x.shares = r.shares /\ x.calls = r.calls /\ x.got = NoAnswer
    BY <1>1 DEF Running, ThreadType
  <1> HIDE DEF x
  <1>3. Own(x, c, role)
    BY <1>2 DEF Own, Asked
  <1>4. QED
    BY <1>2, <1>3 DEF x

LEMMA NextSearchOK ==
  ASSUME IInv, NEW t \in Thread, NextSearch(t)
  PROVE  IInv'
  <1> DEFINE r == thread[t]
  <1>1. /\ ConnectorInv /\ ScanInv /\ UNCHANGED <<cvars, search>>
        /\ r \in ThreadType /\ r.pc = "pass" /\ r.start <= now /\ Own(r, call[t], Role[t])
    BY DEF IInv, ScanInv, NextSearch
  <1>2. /\ Role[t] # "backfill" /\ call[t].pc = "idle"
    BY <1>1 DEF Own
  <1>3. PICK s \in r.due :
          thread' = [thread EXCEPT ![t] =
                      IF s \in Saved /\ ~Guarded(Home[t], s) THEN Running([r EXCEPT !.due = @ \ {s}], s)
                                                             ELSE [r EXCEPT !.due = @ \ {s}]]
    BY DEF NextSearch
  <1> DEFINE rest == [r EXCEPT !.due = @ \ {s}]
  <1>4. /\ s \in Search /\ rest \in ThreadType /\ rest.pc = "pass" /\ rest.start = r.start
        /\ rest.cache = r.cache /\ rest.shares = r.shares /\ rest.calls = r.calls
    BY <1>1 DEF ThreadType
  <1> HIDE DEF rest
  <1>5. /\ \A e \in rest.cache : e.at >= rest.start /\ Honest(e)
        /\ rest.shares => Asked(rest, call[t])
    BY <1>1, <1>2, <1>4 DEF Own, Asked
  <1>6. Own(rest, call[t], Role[t])
    BY <1>2, <1>4, <1>5 DEF Own
  <1>7. /\ Running(rest, s) \in ThreadType /\ Running(rest, s).start = r.start
        /\ Own(Running(rest, s), call[t], Role[t])
    BY <1>1, <1>2, <1>4, <1>5, RunningOK
  <1>8. ScanInv'
    <2>1. call' = call /\ now' = now /\ search' \in [Search -> SearchType]
      BY <1>1 DEF ScanInv, cvars
    <2>2. CASE thread' = [thread EXCEPT ![t] = Running(rest, s)]
      BY <1>1, <1>7, <2>1, <2>2, OneThread
    <2>3. CASE thread' = [thread EXCEPT ![t] = rest]
      BY <1>1, <1>4, <1>6, <2>1, <2>3, OneThread
    <2>4. QED
      BY <1>3, <2>2, <2>3 DEF rest
  <1>9. QED
    BY <1>1, <1>8, NoCallChanges DEF IInv

LEMMA RunNowOK ==
  ASSUME IInv, NEW t \in Thread, NEW s \in Search, RunNow(t, s)
  PROVE  IInv'
  <1> DEFINE r == [NoThread EXCEPT !.start = now]
  <1>1. /\ ConnectorInv /\ ScanInv /\ UNCHANGED <<cvars, search>> /\ now \in Nat
        /\ Role[t] = "hand" /\ thread[t].pc = "idle" /\ Own(thread[t], call[t], Role[t])
        /\ thread' = [thread EXCEPT ![t] = Running(r, s)]
    BY DEF IInv, ConnectorInv, ScanInv, RunNow
  <1>2. call[t].pc = "idle" /\ Role[t] # "backfill"
    BY <1>1 DEF Own
  <1>3. /\ r \in ThreadType /\ r.start = now /\ r.cache = {} /\ ~r.shares
    <2>1. NoThread \in ThreadType
      BY NoThreadOK, <1>2
    <2>2. NoThread.cache = {} /\ ~NoThread.shares
      BY DEF NoThread
    <2>3. QED
      BY <1>1, <2>1, <2>2 DEF ThreadType
  <1> HIDE DEF r
  <1>4. /\ Running(r, s) \in ThreadType /\ Running(r, s).start = now
        /\ Own(Running(r, s), call[t], Role[t])
    BY <1>1, <1>2, <1>3, RunningOK
  <1>5. ScanInv'
    <2>1. call' = call /\ now' = now /\ search' \in [Search -> SearchType] /\ now <= now
      BY <1>1 DEF ScanInv, cvars
    <2>2. QED
      BY <1>1, <1>4, <2>1, OneThread
  <1>6. QED
    BY <1>1, <1>5, NoCallChanges DEF IInv

\* Nothing the pass has asked yet is asked again.
LEMMA AskedMore ==
  ASSUME NEW r \in ThreadType, NEW c, NEW d, NEW x \in ThreadType, NEW m, NEW q,
         <<m, q>> \in Registry \X Words,
         Asked(r, c), c.pc = "idle",
         \A e \in r.cache : <<e.market, e.query>> # <<m, q>>,
         x.pc = "run", x.cache = r.cache, x.calls = Append(r.calls, <<m, q>>),
         d.pc # "idle", d.market = m, d.query = q
  PROVE  Asked(x, d)
  <1>1. r.calls \in Seq(Registry \X Words)
    BY DEF ThreadType
  <1>2. /\ DOMAIN r.calls = 1 .. Len(r.calls) /\ Len(r.calls) \in Nat
        /\ DOMAIN x.calls = 1 .. Len(r.calls) + 1
        /\ \A i \in 1 .. Len(r.calls) : x.calls[i] = r.calls[i]
        /\ x.calls[Len(r.calls) + 1] = <<m, q>>
    BY <1>1
  <1>3. \A i \in 1 .. Len(r.calls) : \E e \in r.cache : r.calls[i] = <<e.market, e.query>>
    BY <1>2 DEF Asked
  <1>4. \A i \in 1 .. Len(r.calls) : r.calls[i] # <<m, q>>
    BY <1>3
  <1>5. \A i, j \in DOMAIN x.calls : x.calls[i] = x.calls[j] => i = j
    <2>1. TAKE i, j \in DOMAIN x.calls
    <2>2. \A k \in DOMAIN x.calls : k \in 1 .. Len(r.calls) \/ k = Len(r.calls) + 1
      BY <1>2
    <2>3. CASE i \in 1 .. Len(r.calls) /\ j \in 1 .. Len(r.calls)
      BY <1>2, <2>3 DEF Asked
    <2>4. CASE i = Len(r.calls) + 1 \/ j = Len(r.calls) + 1
      BY <1>2, <1>4, <2>2, <2>4
    <2>5. QED
      BY <2>2, <2>3, <2>4
  <1>6. \A i \in DOMAIN x.calls :
          \/ \E e \in x.cache : x.calls[i] = <<e.market, e.query>>
          \/ x.pc = "run" /\ d.pc # "idle" /\ x.calls[i] = <<d.market, d.query>>
    <2>1. TAKE i \in DOMAIN x.calls
    <2>2. CASE i \in 1 .. Len(r.calls)
      BY <1>2, <1>3, <2>2
    <2>3. CASE i = Len(r.calls) + 1
      BY <1>2, <2>3
    <2>4. QED
      BY <1>2, <2>2, <2>3
  <1>7. QED
    BY <1>5, <1>6 DEF Asked

LEMMA AskOK ==
  ASSUME IInv, NEW t \in Thread, Ask(t)
  PROVE  IInv'
  <1> DEFINE r == thread[t]
  <1>1. /\ ConnectorInv /\ ScanInv /\ search' = search /\ search \in [Search -> SearchType]
        /\ r \in ThreadType /\ r.pc = "run" /\ r.start <= now /\ Own(r, call[t], Role[t])
        /\ call[t].pc = "idle"
    BY DEF IInv, ScanInv, Ask
  <1>2. Role[t] # "backfill"
    BY <1>1 DEF Own
  <1>3. PICK m \in r.left :
          \/ \E e \in {e \in r.cache : Fits(e, m, r.query)} :
               /\ thread' = [thread EXCEPT ![t] = Given(r, m, e)]
               /\ UNCHANGED <<now, token, call>>
          \/ /\ {e \in r.cache : Fits(e, m, r.query)} = {}
             /\ Begin(t, "search", m, r.query)
             /\ thread' = [thread EXCEPT ![t].calls = IF r.shares THEN Append(@, <<m, r.query>>) ELSE @]
    BY DEF Ask
  <1>4. m \in Registry /\ r.query \in Words /\ r.cache \in SUBSET AnswerType
    BY <1>1 DEF ThreadType
  <1>5. ASSUME NEW e \in r.cache, Fits(e, m, r.query),
               thread' = [thread EXCEPT ![t] = Given(r, m, e)],
               UNCHANGED <<now, token, call>>
        PROVE  IInv'
    <2> DEFINE x == Given(r, m, e)
    <2>1. /\ e.market = m /\ e.query = r.query /\ e.at >= r.start /\ Honest(e) /\ e \in AnswerType
      BY <1>1, <1>4, <1>5 DEF Fits, Own
    <2>2. /\ x \in ThreadType /\ x.pc = "run" /\ x.start = r.start /\ x.query = r.query
          /\ x.from = m /\ x.got = e /\ x.cache = r.cache /\ x.shares = r.shares /\ x.calls = r.calls
      BY <1>1, <1>4, <2>1 DEF Given, ThreadType
    <2> HIDE DEF x
    <2>3. Own(x, call[t], Role[t])
      BY <1>1, <1>2, <2>1, <2>2 DEF Own, Asked, Rightful
    <2>4. ScanInv'
      <3>1. call' = call /\ now' = now /\ x.start <= now /\ thread' = [thread EXCEPT ![t] = x]
        BY <1>1, <1>5, <2>2 DEF x
      <3>2. QED
        BY <1>1, <2>2, <2>3, <3>1, OneThread
    <2>5. QED
      BY <1>1, <1>5, <2>4, NoCallChanges DEF IInv, cvars
  <1>6. ASSUME {e \in r.cache : Fits(e, m, r.query)} = {},
               Begin(t, "search", m, r.query),
               thread' = [thread EXCEPT ![t].calls = IF r.shares THEN Append(@, <<m, r.query>>) ELSE @]
        PROVE  IInv'
    <2>1. PICK d \in CallType :
            /\ CallOK(d, now) /\ d.pc # "idle" /\ d.market = m /\ d.query = r.query
            /\ call' = [call EXCEPT ![t] = d]
      BY <1>1, <1>4, <1>6, BeginOK
    <2>2. now' = now /\ token' = token
      BY <1>1, <1>4, <1>6, BeginOK
    <2>3. TokensKept
      BY <1>1, <2>2 DEF TokensKept, ConnectorInv
    <2>4. ConnectorInv' /\ call'[t] = d /\ \A u \in Thread \ {t} : call'[u] = call[u]
      BY <1>1, <2>1, <2>2, <2>3, OneCall
    <2> DEFINE asked == IF r.shares THEN Append(r.calls, <<m, r.query>>) ELSE r.calls
               x == [r EXCEPT !.calls = asked]
    <2>5. <<m, r.query>> \in Registry \X Words /\ asked \in Seq(Registry \X Words)
      <3>1. <<m, r.query>> \in Registry \X Words
        BY <1>4
      <3>2. r.calls \in Seq(Registry \X Words)
        BY <1>1 DEF ThreadType
      <3>3. QED
        BY <3>1, <3>2
    <2>6. thread' = [thread EXCEPT ![t] = x]
      BY <1>1, <1>6 DEF ScanInv
    <2> HIDE DEF asked
    <2>7. /\ x \in ThreadType /\ x.pc = "run" /\ x.start = r.start /\ x.query = r.query
          /\ x.from = r.from /\ x.got = r.got /\ x.cache = r.cache /\ x.shares = r.shares
          /\ x.calls = asked /\ x.left = r.left
      BY <1>1, <2>5 DEF ThreadType
    <2> HIDE DEF x
    <2>8. x.shares => Asked(x, d)
      <3>1. SUFFICES ASSUME r.shares
                     PROVE  Asked(x, d)
        BY <2>7
      <3>2. \A e \in r.cache : <<e.market, e.query>> # <<m, r.query>>
        BY <1>6 DEF Fits
      <3>3. Asked(r, call[t]) /\ asked = Append(r.calls, <<m, r.query>>)
        BY <1>1, <3>1 DEF Own, asked
      <3>4. QED
        <4> DEFINE c == call[t]
                   q == r.query
        <4>1. d.market = m /\ d.query = q /\ d.pc # "idle" /\ c.pc = "idle"
          BY <1>1, <2>1
        <4>2. x.calls = Append(r.calls, <<m, q>>) /\ x.pc = "run" /\ x.cache = r.cache
          BY <2>7, <3>3
        <4>3. r \in ThreadType /\ x \in ThreadType /\ Asked(r, c)
          BY <1>1, <2>7, <3>3
        <4>4. <<m, q>> \in Registry \X Words /\ \A e \in r.cache : <<e.market, e.query>> # <<m, q>>
          BY <2>5, <3>2
        <4> HIDE DEF r, c, q
        <4>5. QED
          BY <4>1, <4>2, <4>3, <4>4, AskedMore
    <2>9. Own(x, d, Role[t])
      <3>1. \A e \in x.cache : e.at >= x.start /\ Honest(e)
        BY <1>1, <2>7 DEF Own
      <3>2. x.got # NoAnswer => Rightful(x)
        BY <1>1, <2>7 DEF Own, Rightful
      <3>3. QED
        BY <1>2, <1>3, <2>1, <2>7, <2>8, <3>1, <3>2 DEF Own
    <2>10. ScanInv'
      BY <1>1, <2>2, <2>4, <2>6, <2>7, <2>9, OneThread
    <2>11. QED
      BY <2>4, <2>10 DEF IInv
  <1>7. QED
    BY <1>3, <1>5, <1>6

LEMMA TakeAnswerOK ==
  ASSUME IInv, NEW t \in Thread, TakeAnswer(t)
  PROVE  IInv'
  <1> DEFINE r == thread[t]
             c == call[t]
             e == [market |-> c.market, query |-> c.query, at |-> now,
                   answer |-> c.answer, n |-> c.n, silent |-> c.silent]
             kept == Remembered(r, e)
             x == [Given(r, c.market, e) EXCEPT !.cache = kept]
  <1>1. /\ ConnectorInv /\ ScanInv /\ search' = search /\ search \in [Search -> SearchType]
        /\ now' = now /\ token' = token /\ now \in Nat
        /\ r \in ThreadType /\ r.pc = "run" /\ r.start <= now /\ Own(r, c, Role[t])
        /\ c \in CallType /\ c.pc = "done" /\ CallOK(c, now)
        /\ thread' = [thread EXCEPT ![t] = x] /\ call' = [call EXCEPT ![t] = NoCall]
    BY DEF IInv, ScanInv, ConnectorInv, TakeAnswer
  <1>2. Role[t] # "backfill" /\ c.query = r.query /\ c.market \in Registry
    BY <1>1 DEF Own, CallType
  <1>3. /\ e \in AnswerType /\ e.market = c.market /\ e.query = r.query /\ e.at = now /\ Honest(e)
    <2>1. e \in AnswerType
      BY <1>1 DEF AnswerType, CallType
    <2>2. Honest(e)
      BY <1>1 DEF CallOK, Honest
    <2>3. QED
      BY <1>2, <2>1, <2>2
  <1> HIDE DEF e
  <1>4. /\ kept \in SUBSET AnswerType
        /\ kept \in {{}, r.cache \cup {e}} /\ (r.shares => kept = r.cache \cup {e})
    BY <1>1, <1>3 DEF Remembered, ThreadType
  <1> HIDE DEF kept
  <1>5. /\ x \in ThreadType /\ x.pc = "run" /\ x.start = r.start /\ x.query = r.query
        /\ x.from = c.market /\ x.got = e /\ x.cache = kept /\ x.shares = r.shares
        /\ x.calls = r.calls
    BY <1>1, <1>2, <1>3, <1>4 DEF Given, ThreadType
  <1> HIDE DEF x
  <1>6. NoCall \in CallType /\ NoCall.pc = "idle" /\ CallOK(NoCall, now) /\ TokensKept
    BY <1>1, NoCallOK DEF TokensKept, ConnectorInv
  <1>7. ConnectorInv' /\ call'[t] = NoCall /\ \A u \in Thread \ {t} : call'[u] = call[u]
    BY <1>1, <1>6, OneCall
  <1>8. x.shares => Asked(x, NoCall)
    <2>1. SUFFICES ASSUME r.shares
                   PROVE  Asked(x, NoCall)
      BY <1>5
    <2>2. Asked(r, c) /\ x.cache = r.cache \cup {e} /\ x.calls = r.calls
      BY <1>1, <1>4, <1>5, <2>1 DEF Own
    <2>3. <<e.market, e.query>> = <<c.market, c.query>>
      BY <1>2, <1>3
    <2>4. QED
      BY <2>2, <2>3 DEF Asked
  <1>9. Own(x, NoCall, Role[t])
    <2>1. e.at >= r.start
      BY <1>1, <1>3
    <2>2. \A a \in x.cache : a.at >= x.start /\ Honest(a)
      BY <1>1, <1>3, <1>4, <1>5, <2>1 DEF Own
    <2>3. Rightful(x)
      BY <1>3, <1>5, <2>1 DEF Rightful
    <2>4. QED
      BY <1>2, <1>5, <1>6, <1>8, <2>2, <2>3 DEF Own
  <1>10. ScanInv'
    BY <1>1, <1>5, <1>7, <1>9, OneThread
  <1>11. QED
    BY <1>7, <1>10 DEF IInv

\* A run ends: back to the pass, or, by hand, to nothing.
LEMMA LeaveOK ==
  ASSUME NEW r \in ThreadType, NEW c, NEW role, r.start <= now, now \in Nat,
         r.pc = "run", c.pc = "idle", Own(r, c, role)
  PROVE  /\ Leave(r, role) \in ThreadType /\ Leave(r, role).start <= now
         /\ Own(Leave(r, role), c, role)
  <1>1. CASE role = "hand"
    <2>1. Leave(r, role) = NoThread
      BY <1>1 DEF Leave
    <2>2. NoThread \in ThreadType /\ NoThread.start = 0 /\ Own(NoThread, c, role)
      BY NoThreadOK
    <2>3. QED
      BY <2>1, <2>2
  <1>2. CASE role # "hand"
    <2> DEFINE x == [r EXCEPT !.pc = "pass", !.search = "none", !.query = "none", !.left = {},
                              !.from = "none", !.got = NoAnswer]
    <2>1. Leave(r, role) = x
      BY <1>2 DEF Leave
    <2>2. NoAnswer \in AnswerType /\ "none" \in Words
      BY DEF NoAnswer, AnswerType, Words, Outcome
    <2>3. /\ x \in ThreadType /\ x.pc = "pass" /\ x.start = r.start /\ x.cache = r.cache
          /\ x.shares = r.shares /\ x.calls = r.calls
      BY <2>2 DEF ThreadType
    <2> HIDE DEF x
    <2>4. Own(x, c, role)
      BY <2>3 DEF Own, Asked
    <2>5. QED
      BY <2>1, <2>3, <2>4
  <1>3. QED
    BY <1>1, <1>2

LEMMA FinishOK ==
  ASSUME IInv, NEW t \in Thread, Finish(t) \/ Fail(t)
  PROVE  IInv'
  <1> DEFINE r == thread[t]
  <1>1. /\ ConnectorInv /\ ScanInv /\ UNCHANGED cvars /\ now \in Nat
        /\ search \in [Search -> SearchType]
        /\ r \in ThreadType /\ r.pc = "run" /\ r.start <= now /\ Own(r, call[t], Role[t])
        /\ thread' = [thread EXCEPT ![t] = Leave(r, Role[t])]
    BY DEF IInv, ScanInv, ConnectorInv, Finish, Fail
  <1>2. call[t].pc = "idle"
    <2>1. CASE Fail(t)
      BY <2>1 DEF Fail
    <2>2. CASE Finish(t)
      <3>1. r.left = {}
        BY <2>2 DEF Finish
      <3>2. QED
        BY <1>1, <3>1 DEF Own
    <2>3. QED
      BY <2>1, <2>2
  <1>3. search' \in [Search -> SearchType]
    <2>1. r.start \in Int
      BY <1>1 DEF ThreadType
    <2>2. CASE search' = search
      BY <1>1, <2>2
    <2>3. CASE r.search \in Saved /\ search' = [search EXCEPT ![r.search].last = Stamp(r)]
      BY <1>1, <2>1, <2>3 DEF Stamp, SearchType
    <2>4. QED
      BY <2>2, <2>3 DEF Finish, Fail
  <1>4. /\ Leave(r, Role[t]) \in ThreadType /\ Leave(r, Role[t]).start <= now
        /\ Own(Leave(r, Role[t]), call[t], Role[t])
    BY <1>1, <1>2, LeaveOK
  <1>5. call' = call /\ now' = now
    BY <1>1 DEF cvars
  <1>6. ScanInv'
    BY <1>1, <1>3, <1>4, <1>5, OneThread
  <1>7. QED
    BY <1>1, <1>6, NoCallChanges DEF IInv

\* The backfill's thread has no run, so that its requests touch none.
LEMMA LookUpOK ==
  ASSUME IInv, NEW t \in Thread, LookUp(t)
  PROVE  IInv'
  <1> DEFINE r == thread[t]
  <1>1. /\ ConnectorInv /\ ScanInv /\ search' = search /\ thread' = thread
        /\ now \in Nat /\ Role[t] = "backfill"
        /\ r \in ThreadType /\ r.start <= now /\ Own(r, call[t], Role[t])
        /\ search \in [Search -> SearchType] /\ thread \in [Thread -> ThreadType]
    BY DEF IInv, ScanInv, ConnectorInv, LookUp, svars
  <1>2. r.pc = "idle"
    BY <1>1 DEF Own
  <1>3. ASSUME NEW d \in CallType, CallOK(d, now), call' = [call EXCEPT ![t] = d],
               now' = now, token' = token
        PROVE  IInv'
    <2>1. TokensKept
      BY <1>1, <1>3 DEF TokensKept, ConnectorInv
    <2>2. ConnectorInv' /\ call'[t] = d /\ \A u \in Thread \ {t} : call'[u] = call[u]
      BY <1>1, <1>3, <2>1, OneCall
    <2>3. Own(r, d, Role[t])
      BY <1>1, <1>2 DEF Own, Asked
    <2>4. thread' = [thread EXCEPT ![t] = r]
      BY <1>1
    <2>5. ScanInv'
      BY <1>1, <1>3, <2>2, <2>3, <2>4, OneThread
    <2>6. QED
      BY <2>2, <2>5 DEF IInv
  <1>4. CASE \E m \in Market : Begin(t, "lookup", m, "none")
    <2>1. PICK m \in Market : Begin(t, "lookup", m, "none")
      BY <1>4
    <2>2. m \in Registry /\ "none" \in Words
      BY Constants DEF Words
    <2>3. /\ \E d \in CallType : CallOK(d, now) /\ call' = [call EXCEPT ![t] = d]
          /\ now' = now /\ token' = token
      BY <1>1, <2>1, <2>2, BeginOK
    <2>4. QED
      BY <1>3, <2>3
  <1>5. CASE call' = [call EXCEPT ![t] = NoCall] /\ UNCHANGED <<now, token>>
    BY <1>3, <1>5, NoCallOK
  <1>6. QED
    BY <1>4, <1>5 DEF LookUp

LEMMA CrashOK ==
  ASSUME IInv, NEW p \in Process, Crash(p)
  PROVE  IInv'
  <1> DEFINE Dead == {t \in Thread : Home[t] = p}
  <1>1. /\ ConnectorInv /\ ScanInv /\ UNCHANGED <<now, search>> /\ now \in Nat
        /\ thread' = [t \in Thread |-> IF t \in Dead THEN NoThread ELSE thread[t]]
        /\ call' = [t \in Thread |-> IF t \in Dead THEN NoCall ELSE call[t]]
        /\ token' = [token EXCEPT ![p] = NoToken]
    BY DEF IInv, ConnectorInv, Crash
  <1>2. NoCall \in CallType /\ NoCall.pc = "idle" /\ CallOK(NoCall, now)
    BY NoCallOK
  <1>3. ConnectorInv'
    <2>1. NoToken \in TokenType /\ TokenOK(NoToken)
      BY DEF NoToken, TokenType, TokenOK
    <2>2. QED
      BY <1>1, <1>2, <2>1 DEF ConnectorInv
  <1>4. \A t \in Thread :
          thread'[t] \in ThreadType /\ thread'[t].start <= now /\ Own(thread'[t], call'[t], Role[t])
    <2>1. TAKE t \in Thread
    <2>2. CASE t \in Dead
      <3>1. NoThread \in ThreadType /\ NoThread.start = 0 /\ Own(NoThread, NoCall, Role[t])
        BY <1>2, NoThreadOK
      <3>2. thread'[t] = NoThread /\ call'[t] = NoCall
        BY <1>1, <2>2
      <3>3. QED
        BY <1>1, <3>1, <3>2
    <2>3. CASE t \notin Dead
      <3>1. thread'[t] = thread[t] /\ call'[t] = call[t]
        BY <1>1, <2>3
      <3>2. QED
        BY <1>1, <3>1 DEF ScanInv
    <2>4. QED
      BY <2>2, <2>3
  <1>5. thread' \in [Thread -> ThreadType]
    BY <1>1, <1>4
  <1>6. ScanInv'
    BY <1>1, <1>4, <1>5 DEF ScanInv
  <1>7. QED
    BY <1>3, <1>6 DEF IInv

LEMMA ListenOK ==
  ASSUME IInv, NEW t \in Thread, Listen(t)
  PROVE  IInv'
  <1> DEFINE r == thread[t]
             c == call[t]
  <1>1. /\ ConnectorInv /\ ScanInv /\ search' = search /\ thread' = thread
        /\ r \in ThreadType /\ r.start <= now /\ Own(r, c, Role[t])
        /\ search \in [Search -> SearchType] /\ thread \in [Thread -> ThreadType]
    BY DEF IInv, ScanInv, Listen, svars
  <1>2. PICK d : Becomes(t, d)
    BY <1>1, HearsOK DEF Listen
  <1>3. TokensKept /\ now' = now
    BY <1>1, HearsOK DEF Listen
  <1>4. ConnectorInv' /\ call'[t] = d /\ \A u \in Thread \ {t} : call'[u] = call[u]
    BY <1>1, <1>2, <1>3, OneCall DEF Becomes
  <1>5. c.pc # "idle"
    BY DEF Listen, Hears, TokenAnswered, Fails, TryLater, Wake, Rejected, NotFound, Found, Page
  <1>6. Own(r, d, Role[t])
    BY <1>1, <1>2, <1>5 DEF Own, Asked, Becomes
  <1>7. thread' = [thread EXCEPT ![t] = r]
    BY <1>1
  <1>8. ScanInv'
    BY <1>1, <1>3, <1>4, <1>6, <1>7, OneThread
  <1>9. QED
    BY <1>4, <1>8 DEF IInv

-----------------------------------------------------------------------------
(* Every step.                                                             *)

LEMMA WorkOK ==
  ASSUME IInv, NEW t \in Thread, Work(t)
  PROVE  IInv'
  <1>1. CASE StartJob(t)
    <2> DEFINE onTime == now <= slot * Period + Jitter
    <2>1. onTime \in BOOLEAN /\ StartPass(t, Due(Grace), onTime)
      BY <1>1 DEF StartJob
    <2> HIDE DEF onTime
    <2>2. Due(Grace) \in SUBSET Search /\ Role[t] = "cron"
      BY <1>1 DEF StartJob, Due, Saved
    <2>3. QED
      BY <2>1, <2>2, StartPassOK
  <1>2. CASE StartScanner(t)
    <2>1. Due(0) \in SUBSET Search /\ Role[t] = "scanner" /\ StartPass(t, Due(0), FALSE)
      BY <1>2 DEF StartScanner, Due, Saved
    <2>2. QED
      BY <2>1, StartPassOK
  <1>3. CASE NextSearch(t)
    BY <1>3, NextSearchOK
  <1>4. CASE EndPass(t)
    BY <1>4, EndPassOK
  <1>5. CASE \E s \in Search : RunNow(t, s)
    BY <1>5, RunNowOK
  <1>6. CASE Ask(t)
    BY <1>6, AskOK
  <1>7. CASE Listen(t)
    BY <1>7, ListenOK
  <1>8. CASE TakeAnswer(t)
    BY <1>8, TakeAnswerOK
  <1>9. CASE Finish(t) \/ Fail(t)
    BY <1>9, FinishOK
  <1>10. CASE LookUp(t)
    BY <1>10, LookUpOK
  <1>11. QED
    BY <1>1, <1>2, <1>3, <1>4, <1>5, <1>6, <1>7, <1>8, <1>9, <1>10 DEF Work

LEMMA StepOK == IInv /\ [Next]_vars => IInv'
  <1> SUFFICES ASSUME IInv, [Next]_vars
               PROVE  IInv'
    OBVIOUS
  <1>1. CASE Tick
    BY <1>1, TickOK
  <1>2. CASE \E s \in Search : Delete(s) \/ \E row \in Rows : Create(s, row) \/ Update(s, row)
    BY <1>2, SearchChanges
  <1>3. CASE \E t \in Thread : Work(t)
    BY <1>3, WorkOK
  <1>4. CASE \E p \in Process : Crash(p)
    BY <1>4, CrashOK
  <1>5. CASE UNCHANGED vars
    BY <1>5 DEF vars, cvars, svars, IInv, ConnectorInv, ScanInv
  <1>6. QED
    BY <1>1, <1>2, <1>3, <1>4, <1>5 DEF Next

-----------------------------------------------------------------------------
(* The theorems.                                                           *)

\* Requests, tokens, passes and runs keep their types and the accounts above.
THEOREM Invariance == Spec => []IInv
  <1>1. Init => IInv
    BY InitOK
  <1>2. IInv /\ [Next]_vars => IInv'
    BY StepOK
  <1>3. QED
    BY <1>1, <1>2, PTL DEF Spec

\* What a run is given was asked of that marketplace, for the run's words, after
\* its pass began; a failure is no empty result; a sharing pass asks once.
THEOREM OwnAnswers == Spec => []AnswersAreOwn
  <1>1. IInv => AnswersAreOwn
    BY DEF IInv, ScanInv, Own, Rightful, Asked, Honest, AnswersAreOwn
  <1>2. QED
    BY <1>1, Invariance, PTL

\* No request carries an eBay token past its end, but for the seconds a
\* marketplace asked the thread to wait.
THEOREM TokenOutlives == Spec => []TokenOutlivesItsUse
  <1>1. IInv => TokenOutlivesItsUse
    <2> SUFFICES ASSUME IInv, NEW t \in Thread, call[t].pc = "reply", call[t].market = "ebay"
                 PROVE  now < call[t].dies + call[t].extra
      BY DEF TokenOutlivesItsUse
    <2> DEFINE c == call[t]
               T == Timeout * (c.attempt + 1)
               W == Waited(c.attempt)
    <2>1. c \in CallType /\ CallOK(c, now) /\ now \in Nat
      BY DEF IInv, ConnectorInv
    <2>2. /\ now <= c.by /\ c.attempt \in 1 .. MaxRetries + 1
          /\ c.by + Margin <= c.dies + c.extra + W + T
      BY <2>1 DEF CallOK, InHand
    <2>3. W \in Int /\ T + W < Margin
      BY <2>2, MarginOutlasts
    <2>4. T \in Int /\ Margin \in Int
      BY <2>2, Constants
    <2>5. c.by \in Int /\ c.dies \in Int /\ c.extra \in Int
      BY <2>1 DEF CallType
    <2>6. now <= c.by /\ c.by + Margin <= c.dies + c.extra + W + T /\ now \in Int
      BY <2>1, <2>2
    <2> HIDE DEF T, W
    <2>7. QED
      BY <2>3, <2>4, <2>5, <2>6
  <1>2. QED
    BY <1>1, Invariance, PTL

-----------------------------------------------------------------------------
(* No due search is passed over for longer than its interval explains, for *)
(* any periods, intervals, jitter and grace that module Scan assumes.      *)

LEMMA DueConstants ==
  /\ Period \in Nat \ {0} /\ Jitter \in Nat /\ Grace \in Nat /\ MaxTime \in Nat
  /\ Jitter < Period /\ Jitter <= Grace
  /\ \A i \in Interval : i \in Nat \ {0} /\ 2 * Jitter <= i
  BY ScanAssumption, ConnectorAssumption

LEMMA Slots ==
  ASSUME NEW a \in Nat, NEW P \in Nat \ {0}
  PROVE  a \div P \in Nat /\ (a \div P) * P <= a /\ a < (a \div P) * P + P
  OBVIOUS

LEMMA Cancelled ==
  ASSUME NEW x \in Int, NEW y \in Int, NEW P \in Nat \ {0}, x * P < y * P
  PROVE  x < y
  OBVIOUS

LEMMA Scaled ==
  ASSUME NEW x \in Int, NEW y \in Int, NEW P \in Nat \ {0}, x <= y
  PROVE  x * P <= y * P
  OBVIOUS

LEMMA Distributed ==
  ASSUME NEW x \in Int, NEW y \in Int, NEW P \in Nat \ {0}
  PROVE  (x + y) * P = x * P + y * P /\ x * P \in Int /\ y * P \in Int
  OBVIOUS

\* Fewer whole periods than an interval are fewer than it begins.
LEMMA PeriodsRoundUp ==
  ASSUME NEW i \in Nat \ {0}, NEW n \in Int, n * Period < i
  PROVE  Periods(i) \in Nat /\ n <= Periods(i) - 1
  <1> DEFINE q == Periods(i)
  <1>1. i + Period - 1 \in Nat
    BY DueConstants
  <1>2. q \in Nat /\ i + Period - 1 < q * Period + Period
    BY <1>1, Slots, DueConstants DEF Periods
  <1>3. n * Period \in Int /\ q * Period \in Int /\ Period \in Int
    BY <1>2, DueConstants
  <1> HIDE DEF q
  <1>4. n * Period < q * Period
    BY <1>2, <1>3
  <1>5. n < q
    BY <1>2, <1>4, Cancelled, DueConstants
  <1>6. QED
    BY <1>2, <1>5 DEF q

-----------------------------------------------------------------------------
(* The inductive invariant.                                                *)

\* A moment within the jitter of a period whose job has been started.
Prompt(x, next) == \E k \in Nat : x <= k * Period + Jitter /\ k + 1 <= next

\* n passes of the job after a prompt run: each in a period of its own, all of
\* them before the search is due.
AfterPrompt(last, i, n, next) ==
    /\ n * Period < i
    /\ \E k \in Nat : last <= k * Period + Jitter /\ k + 1 + n <= next

\* After any other run, the first of them may have begun in the run's period.
AfterAny(last, i, n, next) ==
    n > 0 => (n - 2) * Period < i /\ last < (next - (n - 1)) * Period

Timely(row, k, next) ==
    /\ row.interval \in Interval /\ row.last \in Nat \cup {Never} /\ row.last <= now
    /\ row.last = Never => k.n = 0 /\ ~k.onTime
    /\ k.onTime => AfterPrompt(row.last, row.interval, k.n, next)
    /\ ~k.onTime => AfterAny(row.last, row.interval, k.n, next)

SkippedType == [n : Nat, onTime : BOOLEAN]

DueInv ==
    /\ slot \in Nat
    /\ skipped \in [Search -> SkippedType]
    /\ \A t \in Thread : thread[t].onTime => Prompt(thread[t].start, slot)
    /\ \A s \in Saved : Timely(search[s], skipped[s], slot)

-----------------------------------------------------------------------------
(* Later periods change nothing of an account.                             *)

LEMMA LaterSlot ==
  ASSUME NEW a \in Nat, NEW b \in Nat, a <= b, NEW x,
         NEW last \in Int, NEW i, NEW n \in Nat
  PROVE  /\ Prompt(x, a) => Prompt(x, b)
         /\ AfterPrompt(last, i, n, a) => AfterPrompt(last, i, n, b)
         /\ AfterAny(last, i, n, a) => AfterAny(last, i, n, b)
  <1>1. Prompt(x, a) => Prompt(x, b)
    BY DEF Prompt
  <1>2. AfterPrompt(last, i, n, a) => AfterPrompt(last, i, n, b)
    BY DEF AfterPrompt
  <1>3. AfterAny(last, i, n, a) => AfterAny(last, i, n, b)
    <2> DEFINE u == (a - (n - 1)) * Period
               v == (b - (n - 1)) * Period
    <2>1. u <= v /\ u \in Int /\ v \in Int
      <3>1. a - (n - 1) \in Int /\ b - (n - 1) \in Int /\ a - (n - 1) <= b - (n - 1)
        OBVIOUS
      <3>2. u <= v
        BY <3>1, Scaled, DueConstants
      <3>3. u \in Int /\ v \in Int
        BY <3>1, DueConstants
      <3>4. QED
        BY <3>2, <3>3
    <2> HIDE DEF u, v
    <2>2. last < u => last < v
      BY <2>1
    <2>3. QED
      BY <2>2 DEF AfterAny, u, v
  <1>4. QED
    BY <1>1, <1>2, <1>3

LEMMA DueInitOK == Init => DueInv
  <1> SUFFICES ASSUME Init
               PROVE  DueInv
    OBVIOUS
  <1>1. slot \in Nat /\ now = 0 /\ skipped = [s \in Search |-> [n |-> 0, onTime |-> FALSE]]
    BY DueConstants DEF Init
  <1>2. \A t \in Thread : ~thread[t].onTime
    BY DEF Init, NoThread
  <1>3. ASSUME NEW s \in Saved
        PROVE  Timely(search[s], skipped[s], slot)
    <2>1. search[s] \in Rows /\ s \in Search
      BY DEF Saved, Init
    <2>2. skipped[s].n = 0 /\ ~skipped[s].onTime
      BY <1>1, <2>1
    <2>3. search[s].interval \in Interval /\ search[s].last = Never
      BY <2>1 DEF Rows
    <2>4. QED
      BY <1>1, <2>2, <2>3 DEF Timely, AfterAny, Never
  <1>4. skipped \in [Search -> SkippedType]
    BY <1>1 DEF SkippedType
  <1>5. QED
    BY <1>1, <1>2, <1>3, <1>4 DEF DueInv

\* Most steps neither stamp a search nor start a job.
LEMMA Unaffected ==
  ASSUME DueInv, now \in Nat, now' \in Nat, now <= now',
         UNCHANGED <<slot, skipped, search>>,
         \A t \in Thread : thread'[t].onTime =>
                             thread[t].onTime /\ thread'[t].start = thread[t].start
  PROVE  DueInv'
  <1>1. \A t \in Thread : thread'[t].onTime => Prompt(thread'[t].start, slot')
    BY DEF DueInv
  <1>2. Saved' = Saved
    BY DEF Saved
  <1>3. ASSUME NEW s \in Saved
        PROVE  Timely(search[s], skipped[s], slot)'
    <2>1. Timely(search[s], skipped[s], slot)
      BY DEF DueInv
    <2>2. search[s].last <= now'
      <3>1. search[s].last \in Int /\ search[s].last <= now
        BY <2>1 DEF Timely, Never
      <3>2. QED
        BY <3>1
    <2>3. QED
      BY <2>1, <2>2 DEF Timely
  <1>4. QED
    BY <1>1, <1>2, <1>3 DEF DueInv

-----------------------------------------------------------------------------
(* The steps that the account is about.                                    *)

LEMMA FinishDue ==
  ASSUME IInv, DueInv, NEW t \in Thread, Finish(t), thread[t].search \in Saved
  PROVE  DueInv'
  <1> DEFINE r == thread[t]
             s == r.search
             row == [search[s] EXCEPT !.last = r.start]
             k == [n |-> 0, onTime |-> r.onTime]
  <1>1. /\ now \in Nat /\ r \in ThreadType /\ r.start <= now
        /\ thread \in [Thread -> ThreadType]
        /\ search \in [Search -> SearchType] /\ skipped \in [Search -> SkippedType]
        /\ s \in Search /\ Timely(search[s], skipped[s], slot)
        /\ r.onTime => Prompt(r.start, slot)
    BY DEF IInv, ConnectorInv, ScanInv, DueInv, Saved
  <1>2. /\ UNCHANGED <<now, slot>>
        /\ thread' = [thread EXCEPT ![t] = Leave(r, Role[t])]
        /\ search' = [search EXCEPT ![s] = row]
        /\ skipped' = [skipped EXCEPT ![s] = k]
    BY <1>1 DEF Finish, Stamp, cvars
  <1>3. /\ r.start \in Nat /\ r.onTime \in BOOLEAN
        /\ row.last = r.start /\ row.interval = search[s].interval
    BY <1>1 DEF ThreadType, SearchType
  <1>4. k \in SkippedType /\ k.n = 0 /\ k.onTime = r.onTime
    BY <1>3 DEF SkippedType
  <1> HIDE DEF row, k
  <1>5. row.interval \in Interval /\ row.interval \in Nat \ {0} /\ row.last # Never
    BY <1>1, <1>3, DueConstants DEF Timely, Never
  <1>6. r.onTime => AfterPrompt(row.last, row.interval, 0, slot)
    <2> SUFFICES ASSUME r.onTime
                 PROVE  AfterPrompt(row.last, row.interval, 0, slot)
      OBVIOUS
    <2>1. PICK j \in Nat : r.start <= j * Period + Jitter /\ j + 1 <= slot
      BY <1>1 DEF Prompt
    <2>2. 0 * Period = 0 /\ j + 1 + 0 <= slot
      BY <2>1, DueConstants DEF DueInv
    <2>3. 0 * Period < row.interval
      BY <1>5, <2>2
    <2>4. QED
      BY <1>3, <2>1, <2>2, <2>3 DEF AfterPrompt
  <1>7. Timely(row, k, slot)
    BY <1>1, <1>3, <1>4, <1>5, <1>6 DEF Timely, AfterAny
  <1>8. \A u \in Saved' : Timely(search[u], skipped[u], slot)'
    <2>1. TAKE u \in Saved'
    <2>2. CASE u = s
      <3>1. search'[s] = row /\ skipped'[s] = k
        BY <1>1, <1>2
      <3>2. QED
        BY <1>2, <1>7, <2>2, <3>1 DEF Timely
    <2>3. CASE u # s
      <3>1. u \in Saved /\ search'[u] = search[u] /\ skipped'[u] = skipped[u]
        BY <1>1, <1>2, <2>3 DEF Saved
      <3>2. QED
        BY <1>2, <3>1 DEF DueInv, Timely
    <2>4. QED
      BY <2>2, <2>3
  <1>9. \A u \in Thread : thread'[u].onTime => Prompt(thread'[u].start, slot')
    <2>1. Leave(r, Role[t]).onTime => r.onTime /\ Leave(r, Role[t]).start = r.start
      BY <1>1 DEF Leave, NoThread, ThreadType
    <2>2. QED
      BY <1>1, <1>2, <2>1 DEF DueInv
  <1>10. skipped' \in [Search -> SkippedType] /\ slot' \in Nat
    BY <1>1, <1>2, <1>4 DEF DueInv
  <1>11. QED
    BY <1>8, <1>9, <1>10 DEF DueInv

LEMMA SearchChangesDue ==
  ASSUME IInv, DueInv, NEW s \in Search,
         Delete(s) \/ \E row \in Rows : Create(s, row) \/ Update(s, row)
  PROVE  DueInv'
  <1>1. /\ UNCHANGED <<now, slot, thread>> /\ now \in Nat
        /\ search \in [Search -> SearchType] /\ skipped \in [Search -> SkippedType]
    BY DEF Delete, Create, Update, cvars, IInv, ConnectorInv, ScanInv, DueInv
  <1>2. ASSUME NEW row, NEW k \in SkippedType,
               search' = [search EXCEPT ![s] = row], skipped' = [skipped EXCEPT ![s] = k],
               row # Gone => Timely(row, k, slot)
        PROVE  DueInv'
    <2>1. \A u \in Saved' : Timely(search[u], skipped[u], slot)'
      <3>1. TAKE u \in Saved'
      <3>2. CASE u = s
        <4>1. search'[u] = row /\ skipped'[u] = k /\ row # Gone
          BY <1>1, <1>2, <3>2 DEF Saved
        <4>2. QED
          BY <1>1, <1>2, <4>1 DEF Timely
      <3>3. CASE u # s
        <4>1. u \in Saved /\ search'[u] = search[u] /\ skipped'[u] = skipped[u]
          BY <1>1, <1>2, <3>3 DEF Saved
        <4>2. QED
          BY <1>1, <4>1 DEF DueInv, Timely
      <3>4. QED
        BY <3>2, <3>3
    <2>2. QED
      BY <1>1, <1>2, <2>1 DEF DueInv
  <1>3. CASE Delete(s)
    <2>1. search' = [search EXCEPT ![s] = Gone] /\ skipped' = skipped
      BY <1>3 DEF Delete
    <2>2. skipped' = [skipped EXCEPT ![s] = skipped[s]] /\ skipped[s] \in SkippedType
      BY <1>1, <2>1
    <2>3. QED
      BY <1>2, <2>1, <2>2
  <1>4. ASSUME NEW row \in Rows, Create(s, row)
        PROVE  DueInv'
    <2> DEFINE k == [n |-> 0, onTime |-> FALSE]
    <2>1. search' = [search EXCEPT ![s] = row] /\ skipped' = [skipped EXCEPT ![s] = k]
      BY <1>4 DEF Create
    <2>2. k \in SkippedType /\ k.n = 0 /\ ~k.onTime /\ row.interval \in Interval /\ row.last = Never
      BY <1>4 DEF SkippedType, Rows
    <2> HIDE DEF k
    <2>3. Timely(row, k, slot)
      BY <1>1, <2>2 DEF Timely, AfterAny, Never
    <2>4. QED
      BY <1>2, <2>1, <2>2, <2>3
  <1>5. ASSUME NEW row \in Rows, Update(s, row)
        PROVE  DueInv'
    <2> DEFINE old == skipped[s]
               new == Edited(s, row)
               k == IF row.interval = search[s].interval THEN old ELSE [old EXCEPT !.n = 0]
    <2>1. /\ s \in Saved /\ Timely(search[s], old, slot) /\ old \in SkippedType
          /\ search' = [search EXCEPT ![s] = new] /\ skipped' = [skipped EXCEPT ![s] = k]
      BY <1>1, <1>5 DEF Update, DueInv
    <2>2. new.interval = row.interval /\ new.interval \in Interval /\ new.last = search[s].last
      BY <1>5 DEF Edited, Rows
    <2> HIDE DEF new
    <2>3. CASE row.interval = search[s].interval
      BY <1>2, <2>1, <2>2, <2>3 DEF Timely
    <2>4. CASE row.interval # search[s].interval
      <3>1. k \in SkippedType /\ k.n = 0 /\ k.onTime = old.onTime
        BY <2>1, <2>4 DEF SkippedType
      <3> HIDE DEF k
      <3>2. k.onTime => AfterPrompt(new.last, new.interval, 0, slot)
        <4> SUFFICES ASSUME old.onTime
                     PROVE  AfterPrompt(new.last, new.interval, 0, slot)
          BY <3>1
        <4>1. PICK j \in Nat : new.last <= j * Period + Jitter /\ j + 1 + old.n <= slot
          BY <2>1, <2>2 DEF Timely, AfterPrompt
        <4>2. 0 * Period = 0 /\ j + 1 + 0 <= slot
          BY <2>1, <4>1, DueConstants DEF DueInv, SkippedType
        <4>3. 0 * Period < new.interval
          BY <2>2, <4>2, DueConstants
        <4>4. QED
          BY <4>1, <4>2, <4>3 DEF AfterPrompt
      <3>3. Timely(new, k, slot)
        BY <2>1, <2>2, <3>1, <3>2 DEF Timely, AfterAny
      <3>4. QED
        BY <1>2, <2>1, <3>1, <3>3
    <2>5. QED
      BY <2>3, <2>4
  <1>6. QED
    BY <1>3, <1>4, <1>5

\* A job passes a search over, once more.
LEMMA SkippedOnce ==
  ASSUME NEW row, NEW k \in SkippedType, NEW next \in Nat, NEW after \in Nat,
         now \in Nat, slot \in Nat, slot * Period <= now, now < after * Period, slot < after,
         Timely(row, k, slot), row.last # Never,
         ~(2 * (row.last + row.interval) - Least(2 * Grace, row.interval) <= 2 * now)
  PROVE  Timely(row, [k EXCEPT !.n = @ + 1], after)
  <1> DEFINE n == k.n
             i == row.interval
             last == row.last
             x == [k EXCEPT !.n = @ + 1]
  <1>1. /\ n \in Nat /\ x.n = n + 1 /\ x.onTime = k.onTime /\ k.onTime \in BOOLEAN
        /\ i \in Interval /\ i \in Nat \ {0} /\ 2 * Jitter <= i
        /\ last \in Nat /\ last <= now
    BY DueConstants DEF SkippedType, Timely
  <1> HIDE DEF x
  <1>2. now < last + i /\ now < last + i - Jitter
    <2> DEFINE g == Least(2 * Grace, i)
    <2>1. g \in Nat /\ 2 * Jitter <= g
      BY <1>1, DueConstants DEF Least
    <2>2. 2 * now < 2 * (last + i) - g
      BY <1>1, <2>1
    <2> HIDE DEF g
    <2>3. QED
      BY <1>1, <2>1, <2>2, DueConstants
  <1>3. CASE k.onTime
    <2>1. PICK j \in Nat : last <= j * Period + Jitter /\ j + 1 + n <= slot
      BY <1>1, <1>3 DEF Timely, AfterPrompt
    <2>2. (n + 1) * Period < i
      <3> DEFINE J == j * Period
                 N == (n + 1) * Period
                 S == slot * Period
      <3>1. J \in Int /\ N \in Int /\ S \in Int /\ (j + (n + 1)) * Period = J + N
        BY <1>1, Distributed, DueConstants
      <3>2. (j + (n + 1)) * Period <= S
        BY <1>1, <2>1, Scaled, DueConstants
      <3>3. S <= now /\ last <= J + Jitter
        BY <2>1
      <3> HIDE DEF J, N, S
      <3>4. J + N <= now
        BY <3>1, <3>2, <3>3
      <3>5. N < i
        BY <1>1, <1>2, <3>1, <3>3, <3>4, DueConstants
      <3>6. QED
        BY <3>5 DEF N
    <2>3. j + 1 + (n + 1) <= after
      BY <1>1, <2>1
    <2>4. AfterPrompt(last, i, n + 1, after)
      BY <2>1, <2>2, <2>3 DEF AfterPrompt
    <2>5. QED
      BY <1>1, <1>3, <2>4 DEF Timely
  <1>4. CASE ~k.onTime
    <2>1. CASE n = 0
      <3>1. ((n + 1) - 2) * Period = 0 - Period /\ after - ((n + 1) - 1) = after
        BY <2>1, DueConstants
      <3>2. 0 - Period < i /\ last < after * Period
        <4>1. after * Period \in Int
          BY DueConstants
        <4>2. QED
          BY <1>1, <4>1, DueConstants
      <3>3. AfterAny(last, i, n + 1, after)
        BY <3>1, <3>2 DEF AfterAny
      <3>4. QED
        BY <1>1, <1>4, <3>3 DEF Timely
    <2>2. CASE n > 0
      <3> DEFINE S == slot * Period
                 N == (n - 1) * Period
                 U == (slot - (n - 1)) * Period
                 A == (after - n) * Period
      <3>1. last < U
        BY <1>1, <1>4, <2>2 DEF Timely, AfterAny
      <3>2. /\ slot - (n - 1) \in Int /\ n - 1 \in Int /\ (slot - (n - 1)) + (n - 1) = slot
            /\ after - n \in Int /\ slot - (n - 1) <= after - n
        BY <1>1
      <3>3. S = U + N /\ U \in Int /\ N \in Int /\ S \in Int
        BY <3>2, Distributed, DueConstants
      <3>4. U <= A /\ A \in Int
        BY <3>2, Scaled, DueConstants
      <3> HIDE DEF S, N, U, A
      <3>5. S <= now
        BY DEF S
      <3>6. N < i /\ last < A
        BY <1>1, <1>2, <3>1, <3>3, <3>4, <3>5
      <3>7. (n + 1) - 2 = n - 1 /\ after - ((n + 1) - 1) = after - n
        BY <1>1
      <3>8. AfterAny(last, i, n + 1, after)
        BY <3>6, <3>7 DEF AfterAny, N, A
      <3>9. QED
        BY <1>1, <1>4, <3>8 DEF Timely
    <2>3. QED
      BY <1>1, <2>1, <2>2
  <1>5. QED
    BY <1>1, <1>3, <1>4 DEF x

LEMMA StartJobDue ==
  ASSUME IInv, DueInv, NEW t \in Thread, StartJob(t)
  PROVE  DueInv'
  <1> DEFINE due == Due(Grace)
             passed == {s \in Saved \ due : search[s].active}
             onTime == now <= slot * Period + Jitter
  <1>1. /\ now \in Nat /\ slot \in Nat /\ search \in [Search -> SearchType]
        /\ thread \in [Thread -> ThreadType] /\ skipped \in [Search -> SkippedType]
        /\ now >= slot * Period /\ now' = now /\ search' = search /\ slot' = now \div Period + 1
    BY DEF IInv, ConnectorInv, ScanInv, DueInv, StartJob, StartPass, cvars
  <1>2. slot' \in Nat /\ slot < slot' /\ now < slot' * Period
    <2> DEFINE q == now \div Period
    <2>1. q \in Nat /\ now < q * Period + Period
      BY <1>1, Slots, DueConstants
    <2>2. (q + 1) * Period = q * Period + Period /\ slot * Period \in Int /\ q * Period \in Int
      BY <1>1, <2>1, DueConstants
    <2> HIDE DEF q
    <2>3. now < (q + 1) * Period /\ (q + 1) * Period \in Int
      BY <1>1, <2>1, <2>2, DueConstants
    <2>4. slot * Period < (q + 1) * Period
      BY <1>1, <2>2, <2>3
    <2>5. slot < q + 1
      BY <1>1, <2>1, <2>4, Cancelled, DueConstants
    <2>6. slot' = q + 1
      BY <1>1 DEF q
    <2>7. QED
      BY <2>1, <2>3, <2>5, <2>6
  <1>3. skipped' = [s \in Search |-> IF s \in passed THEN [skipped[s] EXCEPT !.n = @ + 1] ELSE skipped[s]]
    BY DEF StartJob
  <1>4. ASSUME NEW s \in Saved
        PROVE  Timely(search[s], skipped'[s], slot') /\ s \in Search
    <2>1. /\ s \in Search /\ Timely(search[s], skipped[s], slot) /\ skipped[s] \in SkippedType
      BY <1>1 DEF Saved, DueInv
    <2>2. CASE s \notin passed
      <3>1. skipped'[s] = skipped[s] /\ skipped[s].n \in Nat /\ search[s].last \in Int
        BY <1>1, <1>3, <2>1, <2>2 DEF SkippedType, SearchType
      <3>2. Timely(search[s], skipped[s], slot')
        BY <1>1, <1>2, <2>1, <3>1, LaterSlot DEF Timely
      <3>3. QED
        BY <2>1, <3>1, <3>2
    <2>3. CASE s \in passed
      <3>1. /\ search[s].last # Never
            /\ ~(2 * (search[s].last + search[s].interval)
                   - Least(2 * Grace, search[s].interval) <= 2 * now)
        BY <2>3 DEF Due, IsDue
      <3>2. Timely(search[s], [skipped[s] EXCEPT !.n = @ + 1], slot')
        BY <1>1, <1>2, <2>1, <3>1, SkippedOnce
      <3>3. QED
        BY <1>3, <2>1, <2>3, <3>2
    <2>4. QED
      BY <2>2, <2>3
  <1>5. skipped' \in [Search -> SkippedType]
    BY <1>1, <1>3 DEF SkippedType
  <1>6. \A s \in Saved' : Timely(search[s], skipped[s], slot)'
    BY <1>1, <1>4 DEF Saved, Timely
  <1>7. \A u \in Thread : thread'[u].onTime => Prompt(thread'[u].start, slot')
    <2>1. PICK shares \in BOOLEAN :
            thread' = [thread EXCEPT ![t] =
              [NoThread EXCEPT !.pc = "pass", !.start = now, !.onTime = onTime, !.shares = shares, !.due = due]]
      BY DEF StartJob, StartPass
    <2>2. TAKE u \in Thread
    <2>3. CASE u = t
      <3>1. thread'[u].start = now /\ thread'[u].onTime = onTime
        BY <1>1, <2>1, <2>3 DEF NoThread
      <3>2. slot + 1 <= slot'
        BY <1>1, <1>2
      <3>3. QED
        BY <1>1, <3>1, <3>2 DEF Prompt
    <2>4. CASE u # t
      <3>1. thread'[u] = thread[u]
        BY <1>1, <2>1, <2>4
      <3>2. QED
        BY <1>1, <1>2, <3>1 DEF DueInv, Prompt
    <2>5. QED
      BY <2>3, <2>4
  <1>8. QED
    BY <1>2, <1>5, <1>6, <1>7 DEF DueInv

-----------------------------------------------------------------------------
(* Every step.                                                             *)

\* Steps of one thread that neither stamp a search nor start a job.
LEMMA WorkDue ==
  ASSUME IInv, DueInv, NEW t \in Thread, Work(t)
  PROVE  DueInv'
  <1> DEFINE r == thread[t]
  <1>1. /\ now \in Nat /\ r \in ThreadType /\ thread \in [Thread -> ThreadType]
    BY DEF IInv, ConnectorInv, ScanInv
  <1>2. ~NoThread.onTime
    BY DEF NoThread
  <1>3. ASSUME NEW x, thread' = [thread EXCEPT ![t] = x] \/ thread' = thread,
               x.onTime => r.onTime /\ x.start = r.start,
               UNCHANGED <<now, slot, skipped, search>>
        PROVE  DueInv'
    <2>1. \A u \in Thread : thread'[u].onTime => thread[u].onTime /\ thread'[u].start = thread[u].start
      BY <1>1, <1>3
    <2>2. QED
      BY <1>1, <1>3, <2>1, Unaffected
  <1>4. CASE StartJob(t)
    BY <1>4, StartJobDue
  <1>5. CASE StartScanner(t)
    <2>1. PICK shares \in BOOLEAN :
            thread' = [thread EXCEPT ![t] =
              [NoThread EXCEPT !.pc = "pass", !.start = now, !.onTime = FALSE, !.shares = shares, !.due = Due(0)]]
      BY <1>5 DEF StartScanner, StartPass
    <2> DEFINE x == [NoThread EXCEPT !.pc = "pass", !.start = now, !.onTime = FALSE,
                                     !.shares = shares, !.due = Due(0)]
    <2>2. ~x.onTime
      BY DEF NoThread
    <2> HIDE DEF x
    <2>3. UNCHANGED <<now, slot, skipped, search>> /\ thread' = [thread EXCEPT ![t] = x]
      BY <1>5, <2>1 DEF StartScanner, StartPass, cvars, x
    <2>4. QED
      BY <1>3, <2>2, <2>3
  <1>6. CASE NextSearch(t)
    <2>1. PICK s \in r.due :
            thread' = [thread EXCEPT ![t] =
                      IF s \in Saved /\ ~Guarded(Home[t], s) THEN Running([r EXCEPT !.due = @ \ {s}], s)
                                                             ELSE [r EXCEPT !.due = @ \ {s}]]
      BY <1>6 DEF NextSearch
    <2> DEFINE rest == [r EXCEPT !.due = @ \ {s}]
    <2>2. /\ rest.onTime = r.onTime /\ rest.start = r.start
          /\ Running(rest, s).onTime = r.onTime /\ Running(rest, s).start = r.start
      BY <1>1 DEF Running, ThreadType
    <2> HIDE DEF rest
    <2>3. UNCHANGED <<now, slot, skipped, search>>
      BY <1>6 DEF NextSearch, cvars
    <2>4. CASE thread' = [thread EXCEPT ![t] = Running(rest, s)]
      BY <1>3, <2>2, <2>3, <2>4
    <2>5. CASE thread' = [thread EXCEPT ![t] = rest]
      BY <1>3, <2>2, <2>3, <2>5
    <2>6. QED
      BY <2>1, <2>4, <2>5 DEF rest
  <1>7. CASE EndPass(t)
    BY <1>2, <1>3, <1>7 DEF EndPass
  <1>8. CASE \E s \in Search : RunNow(t, s)
    <2>1. PICK s \in Search : RunNow(t, s)
      BY <1>8
    <2> DEFINE x == Running([NoThread EXCEPT !.start = now], s)
    <2>2. ~x.onTime
      BY DEF Running, NoThread
    <2> HIDE DEF x
    <2>3. UNCHANGED <<now, slot, skipped, search>> /\ thread' = [thread EXCEPT ![t] = x]
      BY <2>1 DEF RunNow, cvars, x
    <2>4. QED
      BY <1>3, <2>2, <2>3
  <1>9. CASE Ask(t)
    <2>1. UNCHANGED <<slot, skipped, search>>
      BY <1>9 DEF Ask
    <2>2. PICK m \in r.left :
            \/ /\ \E e \in {e \in r.cache : Fits(e, m, r.query)} :
                    thread' = [thread EXCEPT ![t] = Given(r, m, e)]
               /\ now' = now
            \/ /\ Begin(t, "search", m, r.query)
               /\ thread' = [thread EXCEPT ![t].calls = IF r.shares THEN Append(@, <<m, r.query>>) ELSE @]
      BY <1>9 DEF Ask
    <2>3. now' = now
      BY <2>2 DEF Begin
    <2>4. ASSUME NEW e, thread' = [thread EXCEPT ![t] = Given(r, m, e)]
          PROVE  DueInv'
      <3>1. Given(r, m, e).onTime = r.onTime /\ Given(r, m, e).start = r.start
        BY <1>1 DEF Given, ThreadType
      <3>2. QED
        BY <1>3, <2>1, <2>3, <2>4, <3>1
    <2>5. CASE thread' = [thread EXCEPT ![t].calls = IF r.shares THEN Append(@, <<m, r.query>>) ELSE @]
      <3> DEFINE calls == IF r.shares THEN Append(r.calls, <<m, r.query>>) ELSE r.calls
                 x == [r EXCEPT !.calls = calls]
      <3>1. thread' = [thread EXCEPT ![t] = x]
        BY <1>1, <2>5
      <3> HIDE DEF calls
      <3>2. x.onTime = r.onTime /\ x.start = r.start
        BY <1>1 DEF ThreadType
      <3> HIDE DEF x
      <3>3. QED
        BY <1>3, <2>1, <2>3, <3>1, <3>2
    <2>6. QED
      BY <2>2, <2>4, <2>5
  <1>10. CASE Listen(t)
    <2>1. now' = now /\ UNCHANGED <<slot, skipped, search, thread>>
      BY <1>10, HearsOK DEF Listen, svars, IInv
    <2>2. QED
      BY <1>3, <2>1
  <1>11. CASE TakeAnswer(t)
    <2> DEFINE c == call[t]
               e == [market |-> c.market, query |-> c.query, at |-> now,
                     answer |-> c.answer, n |-> c.n, silent |-> c.silent]
               x == [Given(r, c.market, e) EXCEPT !.cache = Remembered(r, e)]
    <2>1. thread' = [thread EXCEPT ![t] = x] /\ UNCHANGED <<now, slot, skipped, search>>
      BY <1>11 DEF TakeAnswer
    <2>2. x.onTime = r.onTime /\ x.start = r.start
      BY <1>1 DEF Given, ThreadType
    <2> HIDE DEF x
    <2>3. QED
      BY <1>3, <2>1, <2>2
  <1>12. Leave(r, Role[t]).onTime => r.onTime /\ Leave(r, Role[t]).start = r.start
    BY <1>1 DEF Leave, NoThread, ThreadType
  <1>13. CASE Fail(t)
    <2>1. /\ thread' = [thread EXCEPT ![t] = Leave(r, Role[t])]
          /\ UNCHANGED <<now, slot, skipped, search>>
      BY <1>13 DEF Fail, cvars
    <2>2. QED
      BY <1>3, <1>12, <2>1
  <1>14. CASE Finish(t)
    <2>1. CASE r.search \in Saved
      BY <1>14, <2>1, FinishDue
    <2>2. CASE r.search \notin Saved
      <3>1. /\ thread' = [thread EXCEPT ![t] = Leave(r, Role[t])]
            /\ UNCHANGED <<now, slot, skipped, search>>
        BY <1>14, <2>2 DEF Finish, cvars
      <3>2. QED
        BY <1>3, <1>12, <3>1
    <2>3. QED
      BY <2>1, <2>2
  <1>15. CASE LookUp(t)
    <2>1. now' = now /\ UNCHANGED <<slot, skipped, search, thread>>
      BY <1>15 DEF LookUp, Begin, svars
    <2>2. QED
      BY <1>3, <2>1
  <1>16. QED
    BY <1>4, <1>5, <1>6, <1>7, <1>8, <1>9, <1>10, <1>11, <1>13, <1>14, <1>15 DEF Work

LEMMA DueStep == IInv /\ DueInv /\ [Next]_vars => DueInv'
  <1> SUFFICES ASSUME IInv, DueInv, [Next]_vars
               PROVE  DueInv'
    OBVIOUS
  <1>1. now \in Nat /\ now + 1 \in Nat /\ now <= now + 1
    BY DEF IInv, ConnectorInv
  <1>2. CASE Tick
    <2>1. now' = now + 1 /\ UNCHANGED <<slot, skipped, search, thread>>
      BY <1>2 DEF Tick, svars
    <2>2. QED
      BY <1>1, <2>1, Unaffected
  <1>3. CASE \E s \in Search : Delete(s) \/ \E row \in Rows : Create(s, row) \/ Update(s, row)
    BY <1>3, SearchChangesDue
  <1>4. CASE \E t \in Thread : Work(t)
    BY <1>4, WorkDue
  <1>5. CASE \E p \in Process : Crash(p)
    <2>1. /\ UNCHANGED <<now, slot, skipped, search>>
          /\ \A t \in Thread : thread'[t] = NoThread \/ thread'[t] = thread[t]
      BY <1>5 DEF Crash
    <2>2. ~NoThread.onTime
      BY DEF NoThread
    <2>3. QED
      BY <1>1, <2>1, <2>2, Unaffected
  <1>6. CASE UNCHANGED vars
    <2>1. UNCHANGED <<now, slot, skipped, search, thread>>
      BY <1>6 DEF vars, cvars, svars
    <2>2. QED
      BY <1>1, <2>1, Unaffected
  <1>7. QED
    BY <1>2, <1>3, <1>4, <1>5, <1>6 DEF Next

-----------------------------------------------------------------------------
(* The theorem.                                                            *)

\* A saved search that is active is listed again as soon as its interval says,
\* for any interval, period, jitter and grace that module Scan assumes.
THEOREM NoneSkipped == Spec => []NoTickSkipped
  <1>1. IInv /\ DueInv => NoTickSkipped
    <2> SUFFICES ASSUME DueInv, NEW s \in Saved
                 PROVE  skipped[s].n <= Periods(search[s].interval)
                                          + (IF skipped[s].onTime THEN -1 ELSE 1)
      BY DEF NoTickSkipped
    <2> DEFINE i == search[s].interval
               n == skipped[s].n
    <2>1. /\ i \in Nat \ {0} /\ n \in Nat /\ skipped[s].onTime \in BOOLEAN
          /\ Timely(search[s], skipped[s], slot)
      BY DueConstants DEF DueInv, Timely, SkippedType, Saved
    <2>2. CASE skipped[s].onTime
      <3>1. n * Period < i
        BY <2>1, <2>2 DEF Timely, AfterPrompt
      <3>2. Periods(i) \in Nat /\ n <= Periods(i) - 1
        BY <2>1, <3>1, PeriodsRoundUp
      <3>3. QED
        BY <2>1, <2>2, <3>2
    <2>3. CASE ~skipped[s].onTime /\ n > 0
      <3>1. (n - 2) * Period < i /\ n - 2 \in Int
        BY <2>1, <2>3 DEF Timely, AfterAny
      <3>2. Periods(i) \in Nat /\ n - 2 <= Periods(i) - 1
        BY <2>1, <3>1, PeriodsRoundUp
      <3>3. QED
        BY <2>1, <2>3, <3>2
    <2>4. CASE ~skipped[s].onTime /\ n = 0
      <3>1. 0 * Period = 0 /\ 0 * Period < i
        BY <2>1, DueConstants
      <3>2. Periods(i) \in Nat
        BY <2>1, <3>1, PeriodsRoundUp
      <3>3. QED
        BY <2>4, <3>2
    <2>5. QED
      BY <2>1, <2>2, <2>3, <2>4
  <1>2. Init => DueInv
    BY DueInitOK
  <1>3. IInv /\ DueInv /\ [Next]_vars => DueInv'
    BY DueStep
  <1>4. QED
    BY <1>1, <1>2, <1>3, Invariance, PTL DEF Spec

=============================================================================
