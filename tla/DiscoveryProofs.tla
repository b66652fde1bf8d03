--------------------------- MODULE DiscoveryProofs ---------------------------
(***************************************************************************)
(* Theorems about module Discovery.  A run writes only what its            *)
(* transaction has locked, and no row is locked twice: what a run has read *)
(* about a listing it holds stays true until it ends.  A listing that it   *)
(* has touched, but whose UPDATE it has not sent, may be deleted meanwhile; *)
(* the run is then doomed and never commits.  RunInv(t, w) says what this  *)
(* makes of one run t and its writes w; the steps of the run re-establish  *)
(* it, and the steps of others cannot disturb it.                          *)
(***************************************************************************)
EXTENDS Discovery, FiniteSetTheorems, SequenceTheorems, TLAPS

Run == [pc     : {"idle", "between", "look", "insert", "check", "attribute",
                  "stamped", "responding", "committed"},
        search : Search \cup {NoSearch},
        left   : Seq(Marketplace),
        queue  : Seq(Listing),
        dirty  : SUBSET Listing,
        doomed : BOOLEAN,
        fresh  : Seq(Listing),
        seen   : SUBSET Listing]

Writes == [locked       : SUBSET Listing,
           listings     : SUBSET Listing,
           attributions : SUBSET Listing,
           rows         : SUBSET Listing]

TypeOK ==
    /\ searches \in SUBSET Search
    /\ stored \in SUBSET Listing
    /\ finder \in [Listing -> Search \cup {NoSearch}]
    /\ attributed \in SUBSET (Search \X Listing)
    /\ outbox \in [Owner \X Listing -> Nat]
    /\ guard \in [Process -> SUBSET Search]
    /\ run \in [Runner -> Run]
    /\ tx \in [Runner -> Writes]
    /\ matched \in SUBSET (Search \X Listing)

\* What a run is working on agrees with where it is.
Shape(t, w) ==
    /\ t.pc \in {"look", "insert", "check", "attribute"} <=> t.queue # <<>>
    /\ t.pc \in {"stamped", "responding"} => t.fresh = <<>> /\ t.search \in searches
    /\ t.pc = "responding" => t.dirty = {}
    /\ t.pc = "idle" => t = Idle
    /\ t.pc = "committed" => t.dirty = {} /\ t.seen = {}
    /\ t.pc \in {"idle", "committed"} => w = NoWrites
    /\ t.pc # "idle" => t.search \in Search
    /\ t.doomed => t.dirty # {}

\* A run writes only about listings it has seen and locked, and what it has to
\* enqueue it has attributed.
OnlyLocked(t, w) ==
    /\ w.listings \subseteq t.seen
    /\ Range(t.queue) \subseteq t.seen
    /\ w.listings \cup w.attributions \subseteq w.locked
    /\ w.rows \cup Range(t.fresh) \subseteq w.attributions

Processed(t) == t.seen \ Range(t.queue)

\* A listing that was processed, or is being processed and exists, is locked or
\* about to be.
Held(t, w) ==
    /\ Processed(t) \subseteq t.dirty \cup w.locked
    /\ t.pc \in {"check", "attribute"} => Head(t.queue) \in t.dirty \cup w.locked

OnRecord(t, w) ==
    ~t.doomed /\ t.search \in searches =>
        \A l \in Processed(t) : <<t.search, l>> \in attributed \/ l \in w.attributions

\* What a run is about to attribute is attributed by nobody else.
FirstToAttribute(t, w) == \A l \in w.attributions : <<t.search, l>> \notin attributed

\* ... and is alerted: the alert is enqueued, still to be, or was there before.
Alerted(t, w) ==
    \A l \in w.attributions :
        \/ l \in Range(t.fresh) \cup w.rows
        \/ OwnerOf[t.search] # NoUser /\ outbox[<<OwnerOf[t.search], l>>] > 0

\* The alerts it is about to add are not there yet.
FirstToAlert(t, w) ==
    \A l \in w.rows :
        OwnerOf[t.search] # NoUser => outbox[<<OwnerOf[t.search], l>>] = 0

RunInv(t, w) ==
    /\ Shape(t, w) /\ OnlyLocked(t, w) /\ Held(t, w) /\ OnRecord(t, w)
    /\ FirstToAttribute(t, w) /\ Alerted(t, w) /\ FirstToAlert(t, w)

\* No row is locked by two transactions.
LocksExclude ==
    \A r, q \in Runner : r # q => tx[r].locked \cap tx[q].locked = {}

\* Thread r has marked search s in its process as running.
Guards(r, s) == run[r].search = s /\ run[r].pc \notin {"idle", "responding"}

\* The guard is the runs that are under way in a process, one at most of each
\* search (SavedSearchRunGuard): none is forgotten, and none runs unguarded but a
\* "run now" request that only has to commit.
GuardIsTrue ==
    /\ \A p \in Process, s \in Search :
          s \in guard[p] <=> \E r \in Runner : ProcessOf[r] = p /\ Guards(r, s)
    /\ \A r, q \in Runner, s \in Search :
          Guards(r, s) /\ Guards(q, s) /\ ProcessOf[r] = ProcessOf[q] => r = q

IInv ==
    /\ TypeOK
    /\ \A r \in Runner : RunInv(run[r], tx[r])
    /\ LocksExclude
    /\ EveryMatchIsAttributed
    /\ AttributedMeansAlerted
    /\ GuardIsTrue

-----------------------------------------------------------------------------
\* Sequences.

LEMMA HeadAndTail ==
    ASSUME NEW S, NEW q \in Seq(S), q # <<>>
    PROVE  /\ Head(q) \in S /\ Tail(q) \in Seq(S)
           /\ Range(q) = {Head(q)} \cup Range(Tail(q))
           /\ Len(q) = 1 <=> Tail(q) = <<>>
<1>1. /\ Head(q) \in S /\ Tail(q) \in Seq(S) /\ Len(Tail(q)) = Len(q) - 1
      /\ \A i \in 1..Len(Tail(q)) : Tail(q)[i] = q[i + 1]
  BY HeadTailProperties
<1>2. Len(q) \in Nat \ {0} /\ Head(q) = q[1]
  BY EmptySeq
<1>3. /\ Range(q) = {q[i] : i \in 1..Len(q)}
      /\ Range(Tail(q)) = {Tail(q)[i] : i \in 1..Len(Tail(q))}
  BY <1>1, RangeEquality
<1>4. ASSUME NEW i \in 1..Len(q), i # 1
      PROVE  i - 1 \in 1..Len(Tail(q)) /\ q[i] = Tail(q)[i - 1]
  BY <1>1, <1>2, <1>4
<1>5. Range(q) \subseteq {Head(q)} \cup Range(Tail(q))
  <2> SUFFICES ASSUME NEW i \in 1..Len(q)
               PROVE  q[i] \in {Head(q)} \cup Range(Tail(q))
    BY <1>3
  <2>1. CASE i = 1
    BY <1>2, <2>1
  <2>2. CASE i # 1
    BY <1>3, <1>4, <2>2
  <2> QED BY <2>1, <2>2
<1>6. {Head(q)} \cup Range(Tail(q)) \subseteq Range(q)
  <2>1. 1 \in 1..Len(q)
    BY <1>2
  <2>2. \A i \in 1..Len(Tail(q)) : i + 1 \in 1..Len(q)
    BY <1>1, <1>2
  <2> QED BY <1>1, <1>2, <1>3, <2>1, <2>2
<1>7. Len(q) = 1 <=> Tail(q) = <<>>
  <2>1. Tail(q) = <<>> <=> Len(Tail(q)) = 0
    BY <1>1, EmptySeq
  <2>2. Len(Tail(q)) = Len(q) - 1 /\ Len(q) \in Nat
    BY ONLY <1>1, <1>2
  <2> QED BY ONLY <2>1, <2>2
<1> QED BY <1>1, <1>5, <1>6, <1>7

LEMMA EmptyRange == Range(<<>>) = {}
BY DEF Range

LEMMA Appended ==
    ASSUME NEW S, NEW q \in Seq(S), NEW l \in S
    PROVE  /\ q \o <<l>> \in Seq(S) /\ Range(q \o <<l>>) = Range(q) \cup {l}
           /\ q \o <<>> = q
<1> DEFINE p == <<l>>
<1>1. p \in Seq(S) /\ Len(p) = 1 /\ p[1] = l
  OBVIOUS
<1> HIDE DEF p
<1>2. Range(p) = {p[i] : i \in 1..Len(p)}
  BY <1>1, RangeEquality
<1>3. Range(p) = {l}
  BY <1>1, <1>2
<1>4. q \o p \in Seq(S) /\ Range(q \o p) = Range(q) \cup {l}
  BY <1>1, <1>3, ConcatProperties, RangeConcatenation
<1>5. q \o <<>> = q
  BY ConcatEmptySeq
<1> QED BY <1>4, <1>5 DEF p

-----------------------------------------------------------------------------
\* What a step of one run leaves to show.

LEMMA InvInit == Init => IInv
<1> SUFFICES ASSUME Init PROVE IInv
  OBVIOUS
<1> USE DEF Init
<1>1. Idle \in Run /\ NoWrites \in Writes
  BY DEF Idle, Run, NoWrites, Writes
<1>2. TypeOK
  BY <1>1 DEF TypeOK
<1>3. RunInv(Idle, NoWrites)
  BY EmptyRange DEF RunInv, Shape, OnlyLocked, Processed, Held, OnRecord, FirstToAttribute,
     Alerted, FirstToAlert, Idle, NoWrites
<1>4. LocksExclude
  BY DEF LocksExclude, NoWrites
<1>5. EveryMatchIsAttributed /\ AttributedMeansAlerted
  BY DEF EveryMatchIsAttributed, AttributedMeansAlerted, Discoveries
<1>6. GuardIsTrue
  BY DEF GuardIsTrue, Guards, Idle
<1> QED BY <1>2, <1>3, <1>4, <1>5, <1>6 DEF IInv

\* A run that takes no step keeps its invariant while the tables it relies on stay.
LEMMA Undisturbed ==
    ASSUME NEW r \in Runner, RunInv(run[r], tx[r]),
           run'[r] = run[r], tx'[r] = tx[r],
           UNCHANGED <<searches, attributed, outbox>>
    PROVE  RunInv(run[r], tx[r])'
BY DEF RunInv, Shape, OnlyLocked, Processed, Held, OnRecord, FirstToAttribute, Alerted,
       FirstToAlert

LEMMA RunStep ==
    ASSUME IInv, UNCHANGED database, NEW r \in Runner,
           NEW t \in Run, NEW w \in Writes,
           run' = [run EXCEPT ![r] = t], tx' = [tx EXCEPT ![r] = w],
           RunInv(t, w),
           \A q \in Runner \ {r} : w.locked \cap tx[q].locked = {},
           guard' \in [Process -> SUBSET Search], GuardIsTrue'
    PROVE  IInv'
<1> USE DEF database
<1>1. TypeOK'
  BY DEF IInv, TypeOK
<1>2. /\ run'[r] = t /\ tx'[r] = w
      /\ \A q \in Runner \ {r} : run'[q] = run[q] /\ tx'[q] = tx[q]
  BY DEF IInv, TypeOK
<1>3. RunInv(run[r], tx[r])'
  BY <1>2 DEF RunInv, Shape, OnlyLocked, Processed, Held, OnRecord, FirstToAttribute, Alerted,
     FirstToAlert
<1>4. \A q \in Runner \ {r} : RunInv(run[q], tx[q])'
  BY <1>2, Undisturbed DEF IInv
<1>5. LocksExclude'
  BY <1>2 DEF IInv, LocksExclude
<1>6. EveryMatchIsAttributed' /\ AttributedMeansAlerted'
  BY DEF IInv, EveryMatchIsAttributed, AttributedMeansAlerted, Discoveries
<1> QED BY <1>1, <1>3, <1>4, <1>5, <1>6 DEF IInv

\* A step within a run leaves its guard alone.
LEMMA GuardKept ==
    ASSUME IInv, UNCHANGED guard, NEW r \in Runner, NEW t \in Run,
           run' = [run EXCEPT ![r] = t],
           t.search = run[r].search,
           t.pc \in {"idle", "responding"} <=> run[r].pc \in {"idle", "responding"}
    PROVE  guard' \in [Process -> SUBSET Search] /\ GuardIsTrue'
<1>1. \A q \in Runner, s \in Search : Guards(q, s)' <=> Guards(q, s)
  BY DEF Guards, IInv, TypeOK
<1> QED BY <1>1 DEF IInv, TypeOK, GuardIsTrue

\* A run gives its guard back.
LEMMA GuardReleased ==
    ASSUME IInv, NEW r \in Runner, NEW t \in Run, Released(r),
           run' = [run EXCEPT ![r] = t], t.pc \in {"idle", "responding"},
           run[r].pc \notin {"idle", "responding"}
    PROVE  guard' \in [Process -> SUBSET Search] /\ GuardIsTrue'
<1> DEFINE p == ProcessOf[r]
           s == run[r].search
<1>1. p \in Process /\ s \in Search /\ run[r] \in Run
  BY DiscoveryAssumption DEF IInv, TypeOK, RunInv, Shape
<1>2. guard' = [guard EXCEPT ![p] = @ \ {s}]
  BY DEF Released
<1>3. guard' \in [Process -> SUBSET Search]
  BY <1>1, <1>2 DEF IInv, TypeOK
<1>4. \A q \in Runner, a \in Search : Guards(q, a)' <=> q # r /\ Guards(q, a)
  BY DEF Guards, IInv, TypeOK
<1>5. Guards(r, s) /\ \A a \in Search : Guards(r, a) => a = s
  BY DEF Guards
<1>6. \A q \in Runner : Guards(q, s) /\ ProcessOf[q] = p => q = r
  BY <1>1, <1>5 DEF IInv, GuardIsTrue
<1>7. ASSUME NEW c \in Process, NEW a \in Search
      PROVE  a \in guard'[c] <=> \E q \in Runner : ProcessOf[q] = c /\ Guards(q, a)'
  <2>1. a \in guard[c] <=> \E q \in Runner : ProcessOf[q] = c /\ Guards(q, a)
    BY DEF IInv, GuardIsTrue
  <2>2. CASE c = p /\ a = s
    BY <1>1, <1>2, <1>4, <1>6, <2>2 DEF IInv, TypeOK
  <2>3. CASE ~(c = p /\ a = s)
    <3>1. a \in guard'[c] <=> a \in guard[c]
      BY <1>1, <1>2, <2>3 DEF IInv, TypeOK
    <3> QED BY <1>4, <1>5, <2>1, <2>3, <3>1
  <2> QED BY <2>2, <2>3
<1> QED BY <1>3, <1>4, <1>7 DEF IInv, GuardIsTrue

-----------------------------------------------------------------------------
\* The steps of a run.

\* What is known of a run that takes a step.
LEMMA OfRun ==
    ASSUME IInv, NEW r \in Runner
    PROVE  /\ run[r] \in Run /\ tx[r] \in Writes /\ RunInv(run[r], tx[r])
           /\ \A q \in Runner \ {r} : tx[r].locked \cap tx[q].locked = {}
           /\ tx = [tx EXCEPT ![r] = tx[r]]
BY DEF IInv, TypeOK, LocksExclude

LEMMA StartKeeps ==
    ASSUME IInv, NEW r \in Runner, NEW s \in Search, Start(r, s)
    PROVE  IInv'
<1> DEFINE t == [Idle EXCEPT !.pc = "between", !.search = s, !.left = MarketplacesOf[s]]
           p == ProcessOf[r]
<1>1. /\ t \in Run /\ t.pc = "between" /\ t.search = s /\ t.queue = <<>> /\ t.fresh = <<>>
      /\ t.dirty = {} /\ t.seen = {} /\ ~t.doomed
  <2>1. /\ Idle \in Run /\ Idle.queue = <<>> /\ Idle.fresh = <<>> /\ Idle.dirty = {}
        /\ Idle.seen = {} /\ Idle.doomed = FALSE
    BY DEF Idle, Run
  <2>2. MarketplacesOf[s] \in Seq(Marketplace)
    BY DiscoveryAssumption
  <2> QED BY <2>1, <2>2 DEF Run
<1>2. tx[r] = NoWrites /\ run[r].pc = "idle"
  BY OfRun DEF Start, RunInv, Shape
<1>3. run' = [run EXCEPT ![r] = t]
  BY DEF Start
<1> HIDE DEF t
<1>4. RunInv(t, tx[r])
  BY <1>1, <1>2, EmptyRange DEF RunInv, Shape, OnlyLocked, Processed, Held, OnRecord,
     FirstToAttribute, Alerted, FirstToAlert, NoWrites
<1>5. guard' = [guard EXCEPT ![p] = @ \cup {s}] /\ p \in Process /\ s \notin guard[p]
  BY DiscoveryAssumption DEF Start, MayStart
<1>6. guard' \in [Process -> SUBSET Search]
  BY <1>5 DEF IInv, TypeOK
<1>7. GuardIsTrue'
  <2>1. \A q \in Runner, a \in Search :
           Guards(q, a)' <=> Guards(q, a) \/ (q = r /\ a = s)
    BY <1>1, <1>2, <1>3 DEF Guards, IInv, TypeOK
  <2>2. \A q \in Runner : ~(Guards(q, s) /\ ProcessOf[q] = p)
    BY <1>5 DEF IInv, GuardIsTrue
  <2>3. ASSUME NEW c \in Process, NEW a \in Search
        PROVE  a \in guard'[c] <=> \E q \in Runner : ProcessOf[q] = c /\ Guards(q, a)'
    <3>1. a \in guard'[c] <=> a \in guard[c] \/ (c = p /\ a = s)
      BY <1>5 DEF IInv, TypeOK
    <3> QED BY <2>1, <3>1 DEF IInv, GuardIsTrue
  <2> QED BY <2>1, <2>2, <2>3, <1>2 DEF IInv, GuardIsTrue, Guards
<1>8. UNCHANGED database /\ tx' = [tx EXCEPT ![r] = tx[r]]
  BY OfRun DEF Start
<1> QED BY <1>1, <1>3, <1>4, <1>6, <1>7, <1>8, OfRun, RunStep

LEMMA FetchKeeps ==
    ASSUME IInv, NEW r \in Runner, Fetch(r)
    PROVE  IInv'
<1> PICK found \in Results[Head(run[r].left)] :
          run' = [run EXCEPT ![r].left = Tail(@),
                             ![r].queue = found,
                             ![r].seen = @ \cup {found[i] : i \in DOMAIN found},
                             ![r].pc = IF found = <<>> THEN "between" ELSE "look"]
  BY DEF Fetch
<1> DEFINE t == [run[r] EXCEPT !.left = Tail(@), !.queue = found, !.seen = @ \cup Range(found),
                               !.pc = IF found = <<>> THEN "between" ELSE "look"]
<1>1. /\ run[r] \in Run /\ run[r].pc = "between" /\ run[r].fresh = <<>> /\ run[r].left # <<>>
      /\ UNCHANGED <<database, guard, tx>>
  BY OfRun DEF Fetch
<1>2. found \in Seq(Listing) /\ Tail(run[r].left) \in Seq(Marketplace)
  BY <1>1, HeadAndTail, DiscoveryAssumption DEF Run
<1>3. Range(found) \in SUBSET Listing
  BY <1>2, RangeOfSeq
<1>4. /\ t \in Run /\ t.pc = IF found = <<>> THEN "between" ELSE "look"
      /\ t.queue = found /\ t.seen = run[r].seen \cup Range(found)
      /\ t.search = run[r].search /\ t.dirty = run[r].dirty /\ t.doomed = run[r].doomed
      /\ t.fresh = run[r].fresh
  BY <1>1, <1>2, <1>3 DEF Run
<1>5. run' = [run EXCEPT ![r] = t]
  BY <1>1 DEF Run, IInv, TypeOK, Range
<1> HIDE DEF t
<1>6. run[r].queue = <<>> /\ Range(run[r].queue) = {}
  BY <1>1, OfRun, EmptyRange DEF RunInv, Shape
<1>7. RunInv(t, tx[r])
  <2>1. RunInv(run[r], tx[r])
    BY OfRun
  <2>2. Processed(t) \subseteq Processed(run[r])
    BY <1>4, <1>6 DEF Processed
  <2>3. Shape(t, tx[r]) /\ OnlyLocked(t, tx[r])
    BY <1>1, <1>4, <1>6, <2>1 DEF RunInv, Shape, OnlyLocked
  <2>4. Held(t, tx[r]) /\ OnRecord(t, tx[r])
    BY <1>1, <1>4, <2>1, <2>2 DEF RunInv, Held, OnRecord
  <2>5. FirstToAttribute(t, tx[r]) /\ Alerted(t, tx[r]) /\ FirstToAlert(t, tx[r])
    BY <1>4, <2>1 DEF RunInv, FirstToAttribute, Alerted, FirstToAlert
  <2> QED BY <2>3, <2>4, <2>5 DEF RunInv
<1>8. guard' \in [Process -> SUBSET Search] /\ GuardIsTrue'
  BY <1>1, <1>4, <1>5, GuardKept
<1> QED BY <1>1, <1>4, <1>5, <1>7, <1>8, OfRun, RunStep

LEMMA FlushKeeps ==
    ASSUME IInv, NEW r \in Runner, Flush(r)
    PROVE  IInv'
<1> PICK l \in run[r].dirty :
          /\ ~LockedByOther(r, l)
          /\ run' = [run EXCEPT ![r].dirty = @ \ {l}]
          /\ tx' = [tx EXCEPT ![r].locked = @ \cup {l}]
  BY DEF Flush
<1> DEFINE t == [run[r] EXCEPT !.dirty = @ \ {l}]
           w == [tx[r] EXCEPT !.locked = @ \cup {l}]
<1>1. /\ run[r] \in Run /\ tx[r] \in Writes /\ ~run[r].doomed
      /\ UNCHANGED <<database, guard>> /\ Flushing(r)
  BY OfRun DEF Flush
<1>2. /\ t \in Run /\ t.dirty = run[r].dirty \ {l}
      /\ t.pc = run[r].pc /\ t.search = run[r].search /\ t.queue = run[r].queue
      /\ t.fresh = run[r].fresh /\ t.seen = run[r].seen /\ t.doomed = run[r].doomed
      /\ w \in Writes /\ w.locked = tx[r].locked \cup {l} /\ w.listings = tx[r].listings
      /\ w.attributions = tx[r].attributions /\ w.rows = tx[r].rows
  BY <1>1 DEF Run, Writes
<1>3. run' = [run EXCEPT ![r] = t] /\ tx' = [tx EXCEPT ![r] = w]
  BY <1>1 DEF Run, Writes, IInv, TypeOK
<1>4. run[r].pc \notin {"idle", "committed", "responding"}
  BY DEF Flushing, Inserts, Searched, Flush
<1> HIDE DEF t, w
<1>5. RunInv(t, w)
  <2>1. RunInv(run[r], tx[r])
    BY OfRun
  <2>2. Shape(t, w) /\ OnlyLocked(t, w)
    BY <1>1, <1>2, <1>4, <2>1 DEF RunInv, Shape, OnlyLocked
  <2>3. Held(t, w) /\ OnRecord(t, w)
    BY <1>2, <2>1 DEF RunInv, Held, OnRecord, Processed
  <2>4. FirstToAttribute(t, w) /\ Alerted(t, w) /\ FirstToAlert(t, w)
    BY <1>2, <2>1 DEF RunInv, FirstToAttribute, Alerted, FirstToAlert
  <2> QED BY <2>2, <2>3, <2>4 DEF RunInv
<1>6. \A q \in Runner \ {r} : w.locked \cap tx[q].locked = {}
  BY <1>2, OfRun DEF LockedByOther
<1>7. guard' \in [Process -> SUBSET Search] /\ GuardIsTrue'
  BY <1>1, <1>2, <1>3, GuardKept
<1> QED BY <1>1, <1>2, <1>3, <1>5, <1>6, <1>7, RunStep

\* touch_last_seen, in get_or_create of either kind.
LEMMA SeenKeeps ==
    ASSUME IInv, NEW r \in Runner, run[r].pc \in {"look", "insert"},
           Seen(r, Head(run[r].queue)), UNCHANGED <<database, guard, tx>>
    PROVE  IInv'
<1> DEFINE l == Head(run[r].queue)
           t == [run[r] EXCEPT !.dirty = @ \cup {l}, !.pc = "check"]
<1>1. run[r] \in Run /\ run[r].queue # <<>> /\ RunInv(run[r], tx[r])
  BY OfRun DEF RunInv, Shape
<1>2. l \in Listing
  BY <1>1, HeadAndTail DEF Run
<1>3. /\ t \in Run /\ t.dirty = run[r].dirty \cup {l} /\ t.pc = "check"
      /\ t.search = run[r].search /\ t.queue = run[r].queue
      /\ t.fresh = run[r].fresh /\ t.seen = run[r].seen /\ t.doomed = run[r].doomed
  BY <1>1, <1>2 DEF Run
<1>4. run' = [run EXCEPT ![r] = t]
  BY <1>1 DEF Seen, Run, IInv, TypeOK
<1> HIDE DEF t
<1>5. RunInv(t, tx[r])
  <2>1. Shape(t, tx[r]) /\ OnlyLocked(t, tx[r])
    BY <1>1, <1>3 DEF RunInv, Shape, OnlyLocked
  <2>2. Held(t, tx[r]) /\ OnRecord(t, tx[r])
    BY <1>1, <1>3 DEF RunInv, Held, OnRecord, Processed
  <2>3. FirstToAttribute(t, tx[r]) /\ Alerted(t, tx[r]) /\ FirstToAlert(t, tx[r])
    BY <1>1, <1>3 DEF RunInv, FirstToAttribute, Alerted, FirstToAlert
  <2> QED BY <2>1, <2>2, <2>3 DEF RunInv
<1>6. guard' \in [Process -> SUBSET Search] /\ GuardIsTrue'
  BY <1>3, <1>4, GuardKept
<1> QED BY <1>3, <1>4, <1>5, <1>6, OfRun, RunStep

\* A step that only moves to another statement about the listing at hand.
MovesTo(r, pc) == run' = [run EXCEPT ![r].pc = pc]

LEMMA MoveKeeps ==
    ASSUME IInv, NEW r \in Runner, NEW pc,
           <<run[r].pc, pc>> \in {<<"look", "insert">>, <<"check", "attribute">>},
           MovesTo(r, pc), UNCHANGED <<database, guard, tx>>
    PROVE  IInv'
<1> DEFINE t == [run[r] EXCEPT !.pc = pc]
<1>1. run[r] \in Run /\ RunInv(run[r], tx[r])
  BY OfRun
<1>2. /\ t \in Run /\ t.dirty = run[r].dirty /\ t.pc = pc
      /\ t.search = run[r].search /\ t.queue = run[r].queue
      /\ t.fresh = run[r].fresh /\ t.seen = run[r].seen /\ t.doomed = run[r].doomed
  BY <1>1 DEF Run
<1>3. run' = [run EXCEPT ![r] = t]
  BY <1>1 DEF MovesTo, Run, IInv, TypeOK
<1> HIDE DEF t
<1>4. RunInv(t, tx[r])
  <2>1. Shape(t, tx[r]) /\ OnlyLocked(t, tx[r])
    BY <1>1, <1>2 DEF RunInv, Shape, OnlyLocked
  <2>2. Held(t, tx[r]) /\ OnRecord(t, tx[r])
    BY <1>1, <1>2 DEF RunInv, Held, OnRecord, Processed
  <2>3. FirstToAttribute(t, tx[r]) /\ Alerted(t, tx[r]) /\ FirstToAlert(t, tx[r])
    BY <1>1, <1>2 DEF RunInv, FirstToAttribute, Alerted, FirstToAlert
  <2> QED BY <2>1, <2>2, <2>3 DEF RunInv
<1>5. guard' \in [Process -> SUBSET Search] /\ GuardIsTrue'
  BY <1>2, <1>3, GuardKept
<1> QED BY <1>2, <1>3, <1>4, <1>5, OfRun, RunStep

LEMMA LookKeeps ==
    ASSUME IInv, NEW r \in Runner, Look(r)
    PROVE  IInv'
<1>1. run[r].pc = "look" /\ UNCHANGED <<database, guard, tx>>
  BY DEF Look
<1>2. CASE Seen(r, Head(run[r].queue))
  BY <1>1, <1>2, SeenKeeps
<1>3. CASE run' = [run EXCEPT ![r].pc = "insert"]
  <2>1. <<run[r].pc, "insert">> \in {<<"look", "insert">>, <<"check", "attribute">>}
    BY <1>1
  <2>2. MovesTo(r, "insert")
    BY <1>3 DEF MovesTo
  <2> QED BY <1>1, <2>1, <2>2, MoveKeeps
<1> QED BY <1>2, <1>3 DEF Look

\* The INSERT of a listing nobody has.
LEMMA InsertKeeps ==
    ASSUME IInv, NEW r \in Runner, Insert(r)
    PROVE  IInv'
<1> DEFINE l == Head(run[r].queue)
           t == [run[r] EXCEPT !.pc = "check"]
           w == [tx[r] EXCEPT !.listings = @ \cup {l}, !.locked = @ \cup {l}]
<1>1. /\ run[r].pc = "insert" /\ ~LockedByOther(r, l) /\ UNCHANGED <<database, guard>>
      /\ run[r] \in Run /\ tx[r] \in Writes /\ RunInv(run[r], tx[r])
  BY OfRun DEF Insert
<1>2. CASE l \in stored
  BY <1>1, <1>2, SeenKeeps DEF Insert
<1>3. CASE l \notin stored
  <2>1. l \in Listing /\ l \in Range(run[r].queue)
    BY <1>1, HeadAndTail DEF Run, RunInv, Shape
  <2>2. /\ t \in Run /\ t.dirty = run[r].dirty /\ t.pc = "check"
        /\ t.search = run[r].search /\ t.queue = run[r].queue
        /\ t.fresh = run[r].fresh /\ t.seen = run[r].seen /\ t.doomed = run[r].doomed
        /\ w \in Writes /\ w.locked = tx[r].locked \cup {l}
        /\ w.listings = tx[r].listings \cup {l}
        /\ w.attributions = tx[r].attributions /\ w.rows = tx[r].rows
    BY <1>1, <2>1 DEF Run, Writes
  <2>3. run' = [run EXCEPT ![r] = t] /\ tx' = [tx EXCEPT ![r] = w]
    BY <1>1, <1>3 DEF Insert, Created, Run, Writes, IInv, TypeOK
  <2> HIDE DEF t, w
  <2>4. RunInv(t, w)
    <3>1. Shape(t, w) /\ OnlyLocked(t, w)
      BY <1>1, <2>1, <2>2 DEF RunInv, Shape, OnlyLocked
    <3>2. Held(t, w) /\ OnRecord(t, w)
      BY <1>1, <2>2 DEF RunInv, Held, OnRecord, Processed
    <3>3. FirstToAttribute(t, w) /\ Alerted(t, w) /\ FirstToAlert(t, w)
      BY <1>1, <2>2 DEF RunInv, FirstToAttribute, Alerted, FirstToAlert
    <3> QED BY <3>1, <3>2, <3>3 DEF RunInv
  <2>5. \A q \in Runner \ {r} : w.locked \cap tx[q].locked = {}
    BY <1>1, <2>2, OfRun DEF LockedByOther
  <2>6. guard' \in [Process -> SUBSET Search] /\ GuardIsTrue'
    BY <1>1, <2>2, <2>3, GuardKept
  <2> QED BY <1>1, <2>2, <2>3, <2>4, <2>5, <2>6, RunStep
<1> QED BY <1>2, <1>3

\* The listing at hand is done, and is news or not.
LEMMA NextListingKeeps ==
    ASSUME IInv, NEW r \in Runner, run[r].pc \in {"check", "attribute"},
           NEW w \in Writes,
           NEW news \in {<<>>, <<Head(run[r].queue)>>},
           NextListing(r, news), UNCHANGED <<database, guard>>,
           tx' = [tx EXCEPT ![r] = w],
           w = [tx[r] EXCEPT !.attributions =
                   IF news = <<>> THEN @ ELSE @ \cup {Head(run[r].queue)}],
           IF news = <<>>
           THEN \/ <<run[r].search, Head(run[r].queue)>> \in attributed
                \/ Head(run[r].queue) \in tx[r].attributions
           ELSE /\ <<run[r].search, Head(run[r].queue)>> \notin attributed
                /\ Head(run[r].queue) \in tx[r].locked
    PROVE  IInv'
<1> DEFINE l == Head(run[r].queue)
           t == [run[r] EXCEPT !.queue = Tail(@), !.fresh = @ \o news,
                               !.pc = IF Tail(run[r].queue) = <<>> THEN "between" ELSE "look"]
<1>1. run[r] \in Run /\ tx[r] \in Writes /\ RunInv(run[r], tx[r]) /\ run[r].queue # <<>>
  BY OfRun DEF RunInv, Shape
<1>2. /\ l \in Listing /\ Tail(run[r].queue) \in Seq(Listing)
      /\ Range(run[r].queue) = {l} \cup Range(Tail(run[r].queue))
      /\ Len(run[r].queue) = 1 <=> Tail(run[r].queue) = <<>>
  BY <1>1, HeadAndTail DEF Run
<1>3. /\ run[r].fresh \o news \in Seq(Listing)
      /\ Range(run[r].fresh \o news) =
            Range(run[r].fresh) \cup (IF news = <<>> THEN {} ELSE {l})
  <2>1. run[r].fresh \in Seq(Listing)
    BY <1>1 DEF Run
  <2>2. CASE news = <<>>
    BY <1>2, <2>1, <2>2, Appended
  <2>3. CASE news = <<l>>
    <3>1. news # <<>>
      BY <2>3
    <3> QED BY <1>2, <2>1, <2>3, <3>1, Appended
  <2> QED BY <2>2, <2>3
<1>4. /\ t \in Run /\ t.queue = Tail(run[r].queue) /\ t.fresh = run[r].fresh \o news
      /\ t.pc = IF Tail(run[r].queue) = <<>> THEN "between" ELSE "look"
      /\ t.search = run[r].search /\ t.dirty = run[r].dirty
      /\ t.seen = run[r].seen /\ t.doomed = run[r].doomed
  BY <1>1, <1>2, <1>3 DEF Run
<1>5. /\ w.locked = tx[r].locked /\ w.listings = tx[r].listings /\ w.rows = tx[r].rows
      /\ w.attributions = tx[r].attributions \cup (IF news = <<>> THEN {} ELSE {l})
  BY <1>1 DEF Writes
<1>6. run' = [run EXCEPT ![r] = t]
  BY <1>1, <1>2 DEF NextListing, Run, IInv, TypeOK
<1> HIDE DEF t, l
<1>7. RunInv(t, w)
  <2>1. Shape(t, w)
    BY <1>1, <1>4 DEF RunInv, Shape
  <2>2. OnlyLocked(t, w)
    BY <1>1, <1>2, <1>3, <1>4, <1>5 DEF RunInv, OnlyLocked, l
  <2>3. Held(t, w)
    BY <1>1, <1>2, <1>4, <1>5 DEF RunInv, Held, Processed, l
  <2>4. OnRecord(t, w)
    BY <1>1, <1>2, <1>4, <1>5 DEF RunInv, OnRecord, Processed, l
  <2>5. FirstToAttribute(t, w)
    BY <1>1, <1>4, <1>5 DEF RunInv, FirstToAttribute, l
  <2>6. Alerted(t, w)
    BY <1>1, <1>3, <1>4, <1>5 DEF RunInv, Alerted
  <2>7. FirstToAlert(t, w)
    BY <1>1, <1>4, <1>5 DEF RunInv, FirstToAlert
  <2> QED BY <2>1, <2>2, <2>3, <2>4, <2>5, <2>6, <2>7 DEF RunInv
<1>8. \A q \in Runner \ {r} : w.locked \cap tx[q].locked = {}
  BY <1>5, OfRun
<1>9. guard' \in [Process -> SUBSET Search] /\ GuardIsTrue'
  BY <1>4, <1>6, GuardKept
<1> QED BY <1>4, <1>6, <1>7, <1>8, <1>9, RunStep

LEMMA CheckKeeps ==
    ASSUME IInv, NEW r \in Runner, Check(r)
    PROVE  IInv'
<1>1. run[r].pc = "check" /\ UNCHANGED <<database, guard, tx>>
  BY DEF Check
<1>2. /\ tx' = [tx EXCEPT ![r] = tx[r]] /\ tx[r] \in Writes
      /\ tx[r] = [tx[r] EXCEPT !.attributions = @]
  BY <1>1, OfRun DEF Writes
<1>3. CASE /\ \/ <<run[r].search, Head(run[r].queue)>> \in attributed
              \/ Head(run[r].queue) \in tx[r].attributions
           /\ NextListing(r, <<>>)
  <2>1. tx[r] = [tx[r] EXCEPT !.attributions =
                    IF <<>> = <<>> THEN @ ELSE @ \cup {Head(run[r].queue)}]
    BY <1>2
  <2> QED BY <1>1, <1>2, <1>3, <2>1, NextListingKeeps
<1>4. CASE run' = [run EXCEPT ![r].pc = "attribute"]
  <2>1. <<run[r].pc, "attribute">> \in {<<"look", "insert">>, <<"check", "attribute">>}
    BY <1>1
  <2>2. MovesTo(r, "attribute")
    BY <1>4 DEF MovesTo
  <2> QED BY <1>1, <2>1, <2>2, MoveKeeps
<1> QED BY <1>3, <1>4 DEF Check

LEMMA AttributeKeeps ==
    ASSUME IInv, NEW r \in Runner, Attribute(r)
    PROVE  IInv'
<1> DEFINE l == Head(run[r].queue)
<1>1. /\ run[r].pc = "attribute" /\ run[r].dirty = {} /\ UNCHANGED <<database, guard>>
      /\ tx[r] \in Writes
  BY OfRun DEF Attribute, Flushed
<1>2. CASE /\ <<run[r].search, l>> \in attributed
           /\ NextListing(r, ExistingIsNoNews(r, l)) /\ UNCHANGED tx
  <2>1. /\ tx' = [tx EXCEPT ![r] = tx[r]]
        /\ tx[r] = [tx[r] EXCEPT !.attributions = IF <<>> = <<>> THEN @ ELSE @ \cup {l}]
    BY <1>1, <1>2, OfRun DEF Writes
  <2>2. NextListing(r, <<>>)
    BY <1>2 DEF ExistingIsNoNews
  <2> QED BY <1>1, <1>2, <2>1, <2>2, NextListingKeeps
<1>3. CASE /\ <<run[r].search, l>> \notin attributed
           /\ NextListing(r, News(r, l))
           /\ tx' = [tx EXCEPT ![r].attributions = @ \cup {l}]
  <2> DEFINE w == [tx[r] EXCEPT !.attributions = IF <<l>> = <<>> THEN @ ELSE @ \cup {l}]
  <2>1. <<l>> # <<>>
    OBVIOUS
  <2>2. l \in Listing
    BY <1>1, OfRun, HeadAndTail DEF Run, RunInv, Shape
  <2>3. w \in Writes /\ tx' = [tx EXCEPT ![r] = w]
    BY <1>1, <1>3, <2>1, <2>2 DEF Writes, IInv, TypeOK
  <2>4. l \in tx[r].locked
    BY <1>1, OfRun DEF RunInv, Held
  <2>5. NextListing(r, <<l>>)
    BY <1>3 DEF News
  <2> QED BY <1>1, <1>3, <2>1, <2>3, <2>4, <2>5, NextListingKeeps
<1> QED BY <1>2, <1>3 DEF Attribute

LEMMA EnqueueKeeps ==
    ASSUME IInv, NEW r \in Runner, Enqueue(r)
    PROVE  IInv'
<1> DEFINE l == Head(run[r].fresh)
           o == OwnerOf[run[r].search]
           t == [run[r] EXCEPT !.fresh = Tail(@)]
           w == [tx[r] EXCEPT !.rows = IF Inserts(r) THEN @ \cup {l} ELSE @]
<1>1. /\ run[r].pc = "between" /\ run[r].fresh # <<>> /\ UNCHANGED <<database, guard>>
      /\ run[r] \in Run /\ tx[r] \in Writes /\ RunInv(run[r], tx[r])
  BY OfRun DEF Enqueue
<1>2. /\ l \in Listing /\ Tail(run[r].fresh) \in Seq(Listing)
      /\ Range(run[r].fresh) = {l} \cup Range(Tail(run[r].fresh))
  BY <1>1, HeadAndTail DEF Run
<1>3. /\ t \in Run /\ t.queue = run[r].queue /\ t.fresh = Tail(run[r].fresh)
      /\ t.pc = run[r].pc /\ t.search = run[r].search /\ t.dirty = run[r].dirty
      /\ t.seen = run[r].seen /\ t.doomed = run[r].doomed
  BY <1>1, <1>2 DEF Run
<1>4. /\ w \in Writes /\ w.locked = tx[r].locked /\ w.listings = tx[r].listings
      /\ w.attributions = tx[r].attributions
      /\ w.rows = IF Inserts(r) THEN tx[r].rows \cup {l} ELSE tx[r].rows
  BY <1>1, <1>2 DEF Writes
<1>5. run' = [run EXCEPT ![r] = t]
  BY <1>1 DEF Enqueue, Run, IInv, TypeOK
<1>6. tx' = [tx EXCEPT ![r] = w]
  <2>1. CASE Inserts(r)
    BY <1>1, <2>1 DEF Enqueue, Writes, IInv, TypeOK
  <2>2. CASE ~Inserts(r)
    BY <1>1, <2>2 DEF Enqueue, Writes, IInv, TypeOK
  <2> QED BY <2>1, <2>2
<1>7. /\ o \in Owner /\ <<o, l>> \in Owner \X Listing /\ outbox[<<o, l>>] \in Nat
      /\ l \in tx[r].attributions
  <2>1. run[r].search \in Search
    BY <1>1 DEF RunInv, Shape
  <2> QED BY <1>1, <1>2, <2>1, DiscoveryAssumption DEF Owner, IInv, TypeOK, RunInv, OnlyLocked
<1>8. /\ ~Inserts(r) => o # NoUser /\ (outbox[<<o, l>>] > 0 \/ l \in tx[r].rows)
      /\ Inserts(r) /\ o # NoUser => outbox[<<o, l>>] = 0
  <2>1. HasRow(r, l) <=> outbox[<<o, l>>] > 0 \/ l \in tx[r].rows
    BY DEF HasRow
  <2>2. Inserts(r) <=> (o # NoUser => ~HasRow(r, l))
    BY <1>1 DEF Inserts
  <2>3. ~(outbox[<<o, l>>] > 0) => outbox[<<o, l>>] = 0
    BY <1>7
  <2> HIDE DEF o, l
  <2> QED BY <2>1, <2>2, <2>3
<1> HIDE DEF t, w
<1>9. RunInv(t, w)
  <2>1. Shape(t, w) /\ OnlyLocked(t, w)
    BY <1>1, <1>2, <1>3, <1>4, <1>7 DEF RunInv, Shape, OnlyLocked
  <2>2. Held(t, w) /\ OnRecord(t, w)
    BY <1>1, <1>3, <1>4 DEF RunInv, Held, OnRecord, Processed
  <2>3. FirstToAttribute(t, w)
    BY <1>1, <1>3, <1>4 DEF RunInv, FirstToAttribute
  <2>4. Alerted(t, w)
    BY <1>1, <1>2, <1>3, <1>4, <1>8 DEF RunInv, Alerted
  <2>5. FirstToAlert(t, w)
    BY <1>1, <1>3, <1>4, <1>8 DEF RunInv, FirstToAlert
  <2> QED BY <2>1, <2>2, <2>3, <2>4, <2>5 DEF RunInv
<1>10. \A q \in Runner \ {r} : w.locked \cap tx[q].locked = {}
  BY <1>4, OfRun
<1>11. guard' \in [Process -> SUBSET Search] /\ GuardIsTrue'
  BY <1>1, <1>3, <1>5, GuardKept
<1> QED BY <1>1, <1>3, <1>4, <1>5, <1>6, <1>9, <1>10, <1>11, RunStep

LEMMA StampKeeps ==
    ASSUME IInv, NEW r \in Runner, Stamp(r)
    PROVE  IInv'
<1> DEFINE t == [run[r] EXCEPT !.pc = "stamped"]
<1>1. /\ run[r] \in Run /\ RunInv(run[r], tx[r]) /\ UNCHANGED <<database, guard, tx>>
      /\ run[r].pc = "between" /\ run[r].fresh = <<>> /\ run[r].search \in searches
  BY OfRun DEF Stamp, Searched
<1>2. /\ t \in Run /\ t.dirty = run[r].dirty /\ t.pc = "stamped"
      /\ t.search = run[r].search /\ t.queue = run[r].queue
      /\ t.fresh = run[r].fresh /\ t.seen = run[r].seen /\ t.doomed = run[r].doomed
  BY <1>1 DEF Run
<1>3. run' = [run EXCEPT ![r] = t]
  BY <1>1 DEF Stamp, Run, IInv, TypeOK
<1> HIDE DEF t
<1>4. RunInv(t, tx[r])
  <2>1. Shape(t, tx[r]) /\ OnlyLocked(t, tx[r])
    BY <1>1, <1>2 DEF RunInv, Shape, OnlyLocked
  <2>2. Held(t, tx[r]) /\ OnRecord(t, tx[r])
    BY <1>1, <1>2 DEF RunInv, Held, OnRecord, Processed
  <2>3. FirstToAttribute(t, tx[r]) /\ Alerted(t, tx[r]) /\ FirstToAlert(t, tx[r])
    BY <1>1, <1>2 DEF RunInv, FirstToAttribute, Alerted, FirstToAlert
  <2> QED BY <2>1, <2>2, <2>3 DEF RunInv
<1>5. guard' \in [Process -> SUBSET Search] /\ GuardIsTrue'
  BY <1>1, <1>2, <1>3, GuardKept
<1> QED BY <1>1, <1>2, <1>3, <1>4, <1>5, OfRun, RunStep

LEMMA ReleaseEarlyKeeps ==
    ASSUME IInv, NEW r \in Runner, ReleaseEarly(r)
    PROVE  IInv'
<1> DEFINE t == [run[r] EXCEPT !.pc = "responding"]
<1>1. /\ run[r] \in Run /\ RunInv(run[r], tx[r]) /\ UNCHANGED <<database, tx>>
      /\ run[r].pc = "stamped" /\ run[r].dirty = {} /\ Released(r)
  BY OfRun DEF ReleaseEarly, Flushed
<1>2. /\ t \in Run /\ t.dirty = run[r].dirty /\ t.pc = "responding"
      /\ t.search = run[r].search /\ t.queue = run[r].queue
      /\ t.fresh = run[r].fresh /\ t.seen = run[r].seen /\ t.doomed = run[r].doomed
  BY <1>1 DEF Run
<1>3. run' = [run EXCEPT ![r] = t]
  BY <1>1 DEF ReleaseEarly, Run, IInv, TypeOK
<1> HIDE DEF t
<1>4. RunInv(t, tx[r])
  <2>1. Shape(t, tx[r]) /\ OnlyLocked(t, tx[r])
    BY <1>1, <1>2 DEF RunInv, Shape, OnlyLocked
  <2>2. Held(t, tx[r]) /\ OnRecord(t, tx[r])
    BY <1>1, <1>2 DEF RunInv, Held, OnRecord, Processed
  <2>3. FirstToAttribute(t, tx[r]) /\ Alerted(t, tx[r]) /\ FirstToAlert(t, tx[r])
    BY <1>1, <1>2 DEF RunInv, FirstToAttribute, Alerted, FirstToAlert
  <2> QED BY <2>1, <2>2, <2>3 DEF RunInv
<1>5. guard' \in [Process -> SUBSET Search] /\ GuardIsTrue'
  BY <1>1, <1>2, <1>3, GuardReleased
<1> QED BY <1>1, <1>2, <1>3, <1>4, <1>5, OfRun, RunStep

LEMMA IdleInv == RunInv(Idle, NoWrites) /\ Idle \in Run /\ NoWrites \in Writes
<1>1. Idle \in Run /\ NoWrites \in Writes
  BY DEF Idle, Run, NoWrites, Writes
<1>2. RunInv(Idle, NoWrites)
  BY EmptyRange DEF RunInv, Shape, OnlyLocked, Processed, Held, OnRecord, FirstToAttribute,
     Alerted, FirstToAlert, Idle, NoWrites
<1> QED BY <1>1, <1>2

\* A run that had no guard any more ends.
LEMMA GuardStays ==
    ASSUME IInv, UNCHANGED guard, NEW r \in Runner, NEW t \in Run,
           run' = [run EXCEPT ![r] = t],
           t.pc \in {"idle", "responding"}, run[r].pc \in {"idle", "responding"}
    PROVE  guard' \in [Process -> SUBSET Search] /\ GuardIsTrue'
<1>1. \A q \in Runner, s \in Search : Guards(q, s)' <=> Guards(q, s)
  BY DEF Guards, IInv, TypeOK
<1> QED BY <1>1 DEF IInv, TypeOK, GuardIsTrue

LEMMA ReleaseKeeps ==
    ASSUME IInv, NEW r \in Runner, Release(r)
    PROVE  IInv'
<1>1. /\ run[r].pc = "committed" /\ Released(r) /\ UNCHANGED database
      /\ run' = [run EXCEPT ![r] = Idle] /\ tx[r] = NoWrites
      /\ tx' = [tx EXCEPT ![r] = NoWrites]
  BY OfRun DEF Release, RunInv, Shape
<1>2. Idle.pc = "idle"
  BY DEF Idle
<1>3. guard' \in [Process -> SUBSET Search] /\ GuardIsTrue'
  BY <1>1, <1>2, IdleInv, GuardReleased
<1>4. \A q \in Runner \ {r} : NoWrites.locked \cap tx[q].locked = {}
  BY DEF NoWrites
<1> QED BY <1>1, <1>3, <1>4, IdleInv, RunStep

LEMMA AbortKeeps ==
    ASSUME IInv, NEW r \in Runner, Abort(r)
    PROVE  IInv'
<1>1. /\ run[r].pc \notin {"idle", "committed"} /\ UNCHANGED database
      /\ run' = [run EXCEPT ![r] = Idle] /\ tx' = [tx EXCEPT ![r] = NoWrites]
      /\ IF run[r].pc = "responding" THEN UNCHANGED guard ELSE Released(r)
  BY DEF Abort, Active, RolledBack
<1>2. Idle.pc = "idle"
  BY DEF Idle
<1>3. guard' \in [Process -> SUBSET Search] /\ GuardIsTrue'
  <2>1. CASE run[r].pc = "responding"
    BY <1>1, <1>2, <2>1, IdleInv, GuardStays
  <2>2. CASE run[r].pc # "responding"
    BY <1>1, <1>2, <2>2, IdleInv, GuardReleased
  <2> QED BY <2>1, <2>2
<1>4. \A q \in Runner \ {r} : NoWrites.locked \cap tx[q].locked = {}
  BY DEF NoWrites
<1> QED BY <1>1, <1>3, <1>4, IdleInv, RunStep

-----------------------------------------------------------------------------
\* The commit: what the run has written becomes everybody's.

LEMMA CommitWrites ==
    ASSUME IInv, NEW r \in Runner, Commit(r)
    PROVE  /\ run[r].search \in searches \cap Search /\ run[r].dirty = {} /\ run[r].fresh = <<>>
           /\ run[r].pc = IF r \in ByHand THEN "responding" ELSE "stamped"
           /\ Processed(run[r]) = run[r].seen /\ ~run[r].doomed
           /\ tx[r].listings \subseteq run[r].seen
           /\ tx[r].listings \cup tx[r].attributions \cup tx[r].rows \subseteq tx[r].locked
           /\ tx[r].rows \subseteq tx[r].attributions
           /\ run[r].seen \subseteq Listing /\ tx[r].locked \subseteq Listing
<1>1. run[r] \in Run /\ tx[r] \in Writes /\ RunInv(run[r], tx[r])
  BY OfRun
<1>2. run[r].pc = IF r \in ByHand THEN "responding" ELSE "stamped"
  BY DEF Commit
<1>3. run[r].dirty = {} /\ run[r].search \in searches \cap Search /\ run[r].fresh = <<>>
      /\ ~run[r].doomed
  BY <1>1, <1>2 DEF Commit, Flushed, RunInv, Shape
<1>4. run[r].queue = <<>>
  BY <1>1, <1>2 DEF RunInv, Shape
<1>5. Processed(run[r]) = run[r].seen
  BY <1>4, EmptyRange DEF Processed
<1> QED BY <1>1, <1>2, <1>3, <1>5 DEF RunInv, OnlyLocked, Run, Writes

LEMMA CommitTables ==
    ASSUME IInv, NEW r \in Runner, Commit(r)
    PROVE  /\ attributed' \in SUBSET (Search \X Listing) /\ attributed \subseteq attributed'
           /\ \A s \in Search, l \in Listing :
                 <<s, l>> \in attributed' <=>
                    \/ <<s, l>> \in attributed
                    \/ s = run[r].search /\ l \in tx[r].attributions
           /\ outbox' \in [Owner \X Listing -> Nat]
           /\ \A o \in Owner, l \in Listing :
                 outbox'[<<o, l>>] =
                    IF o = OwnerOf[run[r].search] /\ l \in tx[r].rows
                    THEN outbox[<<o, l>>] + 1 ELSE outbox[<<o, l>>]
<1>1. run[r].search \in Search /\ tx[r] \in Writes
  BY OfRun, CommitWrites
<1>2. attributed' = attributed \cup {<<run[r].search, l>> : l \in tx[r].attributions}
  BY DEF Commit
<1>3. outbox' = [p \in Owner \X Listing |->
                    IF p[1] = OwnerOf[run[r].search] /\ p[2] \in tx[r].rows
                    THEN outbox[p] + 1 ELSE outbox[p]]
  BY DEF Commit
<1>4. /\ outbox \in [Owner \X Listing -> Nat] /\ attributed \in SUBSET (Search \X Listing)
      /\ tx[r].attributions \in SUBSET Listing
  BY <1>1 DEF IInv, TypeOK, Writes
<1>5. outbox' \in [Owner \X Listing -> Nat]
  BY <1>3, <1>4
<1>6. attributed' \in SUBSET (Search \X Listing)
  BY <1>1, <1>2, <1>4
<1>7. ASSUME NEW s \in Search, NEW l \in Listing
      PROVE  <<s, l>> \in attributed' <=>
                \/ <<s, l>> \in attributed
                \/ s = run[r].search /\ l \in tx[r].attributions
  BY <1>2, <1>4
<1>8. ASSUME NEW o \in Owner, NEW l \in Listing
      PROVE  outbox'[<<o, l>>] =
                IF o = OwnerOf[run[r].search] /\ l \in tx[r].rows
                THEN outbox[<<o, l>>] + 1 ELSE outbox[<<o, l>>]
  BY <1>3
<1> QED BY <1>2, <1>5, <1>6, <1>7, <1>8

\* The other runs have locked nothing of it.
LEMMA CommitElsewhere ==
    ASSUME IInv, NEW r \in Runner, Commit(r), NEW q \in Runner, q # r
    PROVE  RunInv(run[q], tx[q])'
<1> DEFINE t == run[q]
           w == tx[q]
<1>1. RunInv(t, w) /\ t \in Run /\ w \in Writes /\ w.locked \cap tx[r].locked = {}
  BY OfRun
<1>2. run'[q] = t /\ tx'[q] = w /\ UNCHANGED searches
  BY DEF Commit, IInv, TypeOK
<1>3. \A l \in w.attributions \cup w.rows :
         l \in Listing /\ l \notin tx[r].attributions /\ l \notin tx[r].rows
  BY <1>1, CommitWrites DEF RunInv, OnlyLocked, Writes
<1>4. w = NoWrites \/ (t.search \in Search /\ OwnerOf[t.search] \in Owner)
  <2>1. t.search \in Search => OwnerOf[t.search] \in Owner
    BY DiscoveryAssumption DEF Owner
  <2> QED BY <1>1, <2>1 DEF RunInv, Shape
<1>5. NoWrites.attributions = {} /\ NoWrites.rows = {}
  BY DEF NoWrites
<1> HIDE DEF t, w
<1>6. Shape(t, w)' /\ OnlyLocked(t, w)' /\ Held(t, w)'
  BY <1>1, <1>2 DEF RunInv, Shape, OnlyLocked, Held, Processed, t, w
<1>7. OnRecord(t, w)'
  BY <1>1, <1>2, CommitTables DEF RunInv, OnRecord, Processed, t, w
<1>8. FirstToAttribute(t, w)'
  BY <1>1, <1>2, <1>3, <1>4, <1>5, CommitTables DEF RunInv, FirstToAttribute, t, w
<1>9. Alerted(t, w)' /\ FirstToAlert(t, w)'
  BY <1>1, <1>2, <1>3, <1>4, <1>5, CommitTables DEF RunInv, Alerted, FirstToAlert, t, w
<1> QED BY <1>6, <1>7, <1>8, <1>9 DEF RunInv, t, w

LEMMA CommitKeeps ==
    ASSUME IInv, NEW r \in Runner, Commit(r)
    PROVE  IInv'
<1> DEFINE s == run[r].search
           t == IF r \in ByHand THEN Idle ELSE [Idle EXCEPT !.pc = "committed", !.search = s]
<1>1. /\ s \in Search /\ s \in searches /\ OwnerOf[s] \in Owner
      /\ run[r].pc = IF r \in ByHand THEN "responding" ELSE "stamped"
  BY CommitWrites, DiscoveryAssumption DEF Owner
<1>2. run' = [run EXCEPT ![r] = t] /\ tx' = [tx EXCEPT ![r] = NoWrites]
      /\ UNCHANGED <<searches, guard>>
  BY DEF Commit
<1>3. /\ t \in Run /\ t.pc = IF r \in ByHand THEN "idle" ELSE "committed"
      /\ t.queue = <<>> /\ t.fresh = <<>> /\ t.dirty = {} /\ t.seen = {} /\ ~t.doomed
      /\ r \in ByHand => t = Idle
      /\ r \notin ByHand => t.search = s
  BY <1>1, IdleInv DEF Idle, Run
<1> HIDE DEF t
<1>4. RunInv(run[r], tx[r])'
  <2>1. run'[r] = t /\ tx'[r] = NoWrites
    BY <1>2 DEF IInv, TypeOK
  <2> QED BY <1>1, <1>3, <2>1, EmptyRange DEF RunInv, Shape, OnlyLocked, Processed, Held,
       OnRecord, FirstToAttribute, Alerted, FirstToAlert, NoWrites
<1>5. \A q \in Runner : RunInv(run[q], tx[q])'
  BY <1>4, CommitElsewhere
<1>6. /\ stored' \in SUBSET Listing /\ finder' \in [Listing -> Search \cup {NoSearch}]
      /\ matched' \in SUBSET (Search \X Listing)
  <2>1. /\ stored \in SUBSET Listing /\ finder \in [Listing -> Search \cup {NoSearch}]
        /\ matched \in SUBSET (Search \X Listing)
        /\ tx[r].listings \in SUBSET Listing /\ run[r].seen \in SUBSET Listing
    BY OfRun, CommitWrites DEF IInv, TypeOK, Writes
  <2>2. stored' = stored \cup tx[r].listings
    BY DEF Commit
  <2>3. finder' = [l \in Listing |-> IF l \in tx[r].listings THEN s ELSE finder[l]]
    BY DEF Commit
  <2>4. matched' = matched \cup {<<s, l>> : l \in run[r].seen}
    BY DEF Commit
  <2>5. finder' \in [Listing -> Search \cup {NoSearch}]
    BY <1>1, <2>1, <2>3
  <2>6. matched' \in SUBSET (Search \X Listing)
    BY <1>1, <2>1, <2>4
  <2> QED BY <2>1, <2>2, <2>5, <2>6
<1>7. guard' \in [Process -> SUBSET Search] /\ GuardIsTrue'
  <2>1. CASE r \in ByHand
    BY <1>1, <1>2, <1>3, <2>1, GuardStays
  <2>2. CASE r \notin ByHand
    BY <1>1, <1>2, <1>3, <2>2, GuardKept
  <2> QED BY <2>1, <2>2
<1>8. TypeOK'
  BY <1>2, <1>3, <1>6, <1>7, IdleInv, CommitTables DEF IInv, TypeOK
<1>9. LocksExclude'
  BY <1>2 DEF LocksExclude, IInv, TypeOK, NoWrites
<1>10. \A l \in run[r].seen : <<s, l>> \in attributed'
  BY <1>1, OfRun, CommitWrites, CommitTables DEF RunInv, OnRecord
<1>11. EveryMatchIsAttributed'
  <2>1. matched' \subseteq attributed'
    <3>1. matched' = matched \cup {<<s, l>> : l \in run[r].seen}
      BY DEF Commit
    <3>2. matched \subseteq attributed /\ attributed \subseteq attributed'
      BY CommitTables DEF IInv, EveryMatchIsAttributed
    <3> QED BY <1>10, <3>1, <3>2
  <2>2. ASSUME NEW l \in Listing, finder'[l] # NoSearch
        PROVE  <<finder'[l], l>> \in attributed'
    <3>1. CASE l \in tx[r].listings
      <4>1. finder'[l] = s
        BY <3>1 DEF Commit
      <4> QED BY <1>10, <3>1, <4>1, CommitWrites
    <3>2. CASE l \notin tx[r].listings
      <4>1. finder'[l] = finder[l]
        BY <3>2 DEF Commit
      <4>2. <<finder[l], l>> \in attributed
        BY <2>2, <4>1 DEF IInv, EveryMatchIsAttributed, Discoveries
      <4> QED BY <4>1, <4>2, CommitTables
    <3> QED BY <3>1, <3>2
  <2> QED BY <2>1, <2>2 DEF EveryMatchIsAttributed, Discoveries
<1>12. AttributedMeansAlerted'
  <2> SUFFICES ASSUME NEW a \in Search, NEW l \in Listing, <<a, l>> \in attributed'
               PROVE  outbox'[<<OwnerOf[a], l>>] > 0
    BY CommitTables DEF AttributedMeansAlerted
  <2>1. OwnerOf[a] \in Owner /\ outbox[<<OwnerOf[a], l>>] \in Nat
    BY DiscoveryAssumption DEF Owner, IInv, TypeOK
  <2>2. CASE outbox[<<OwnerOf[a], l>>] > 0
    BY <2>1, <2>2, CommitTables
  <2>3. CASE a = s /\ l \in tx[r].attributions /\ l \in tx[r].rows
    BY <2>1, <2>3, CommitTables
  <2>4. <<a, l>> \in attributed => outbox[<<OwnerOf[a], l>>] > 0
    <3>1. \A b \in attributed : outbox[<<OwnerOf[b[1]], b[2]>>] > 0
      BY DEF IInv, AttributedMeansAlerted
    <3> QED BY <3>1
  <2>5. a = s /\ l \in tx[r].attributions =>
           l \in tx[r].rows \/ outbox[<<OwnerOf[a], l>>] > 0
    BY OfRun, CommitWrites, EmptyRange DEF RunInv, Alerted
  <2> QED BY <2>2, <2>3, <2>4, <2>5, CommitTables
<1> QED BY <1>5, <1>7, <1>8, <1>9, <1>11, <1>12 DEF IInv

-----------------------------------------------------------------------------
\* What happens to a run from outside.

LEMMA CrashKeeps ==
    ASSUME IInv, NEW p \in Process, Crash(p)
    PROVE  IInv'
<1> DEFINE dead == {r \in Runner : ProcessOf[r] = p}
<1>1. /\ run' = [r \in Runner |-> IF r \in dead THEN Idle ELSE run[r]]
      /\ tx' = [r \in Runner |-> IF r \in dead THEN NoWrites ELSE tx[r]]
      /\ guard' = [guard EXCEPT ![p] = {}]
      /\ UNCHANGED database
  BY DEF Crash
<1>2. TypeOK'
  BY <1>1, IdleInv DEF IInv, TypeOK, database
<1>3. ASSUME NEW q \in Runner PROVE RunInv(run[q], tx[q])'
  <2>1. UNCHANGED <<searches, attributed, outbox>>
    BY <1>1 DEF database
  <2>2. CASE ProcessOf[q] = p
    <3>1. run'[q] = Idle /\ tx'[q] = NoWrites
      BY <1>1, <2>2
    <3> QED BY <2>1, <3>1, IdleInv DEF RunInv, Shape, OnlyLocked, Processed, Held, OnRecord,
         FirstToAttribute, Alerted, FirstToAlert
  <2>3. CASE ProcessOf[q] # p
    <3>1. run'[q] = run[q] /\ tx'[q] = tx[q]
      BY <1>1, <2>3
    <3> QED BY <2>1, <3>1, OfRun, Undisturbed
  <2> QED BY <2>2, <2>3
<1>4. LocksExclude'
  BY <1>1 DEF IInv, LocksExclude, NoWrites
<1>5. EveryMatchIsAttributed' /\ AttributedMeansAlerted'
  BY <1>1 DEF database, IInv, EveryMatchIsAttributed, AttributedMeansAlerted, Discoveries
<1>6. GuardIsTrue'
  <2>1. \A q \in Runner, s \in Search : Guards(q, s)' <=> Guards(q, s) /\ ProcessOf[q] # p
    BY <1>1 DEF Guards, Idle
  <2>2. \A c \in Process, s \in Search : s \in guard'[c] <=> s \in guard[c] /\ c # p
    BY <1>1 DEF IInv, TypeOK
  <2> QED BY <2>1, <2>2 DEF IInv, GuardIsTrue
<1> QED BY <1>2, <1>3, <1>4, <1>5, <1>6 DEF IInv

LEMMA DeleteSearchKeeps ==
    ASSUME IInv, NEW s \in Search, DeleteSearch(s)
    PROVE  IInv'
<1>1. /\ searches' = searches \ {s}
      /\ attributed' = {a \in attributed : a[1] # s}
      /\ matched' = {a \in matched : a[1] # s}
      /\ finder' = [l \in Listing |-> IF finder[l] = s THEN NoSearch ELSE finder[l]]
      /\ UNCHANGED <<stored, outbox, guard, run, tx>>
  BY DEF DeleteSearch, FinderWithout
<1>2. TypeOK'
  <2>1. finder' \in [Listing -> Search \cup {NoSearch}]
    BY <1>1 DEF IInv, TypeOK
  <2>2. attributed' \in SUBSET (Search \X Listing) /\ matched' \in SUBSET (Search \X Listing)
    BY <1>1 DEF IInv, TypeOK
  <2> QED BY <1>1, <2>1, <2>2 DEF IInv, TypeOK
<1>3. ASSUME NEW q \in Runner PROVE RunInv(run[q], tx[q])'
  <2> DEFINE t == run[q]
             w == tx[q]
  <2>1. RunInv(t, w) /\ run'[q] = t /\ tx'[q] = w
    BY <1>1, OfRun
  <2>2. t.search = s => /\ w.listings = {} /\ w.attributions = {} /\ w.rows = {}
                        /\ t.pc \notin {"stamped", "responding"}
    BY <2>1 DEF DeleteSearch, RunInv, OnlyLocked
  <2>3. \A a, l : <<a, l>> \in attributed' <=> <<a, l>> \in attributed /\ a # s
    BY <1>1
  <2>4. Shape(t, w)'
    BY <1>1, <2>1, <2>2 DEF RunInv, Shape
  <2>5. OnlyLocked(t, w)' /\ Held(t, w)'
    BY <2>1 DEF RunInv, OnlyLocked, Held, Processed
  <2>6. OnRecord(t, w)'
    BY <1>1, <2>1, <2>3 DEF RunInv, OnRecord, Processed
  <2>7. FirstToAttribute(t, w)' /\ Alerted(t, w)' /\ FirstToAlert(t, w)'
    BY <1>1, <2>1, <2>3 DEF RunInv, FirstToAttribute, Alerted, FirstToAlert
  <2> QED BY <2>4, <2>5, <2>6, <2>7 DEF RunInv
<1>4. LocksExclude' /\ GuardIsTrue'
  BY <1>1 DEF IInv, LocksExclude, GuardIsTrue, Guards
<1>5. AttributedMeansAlerted'
  BY <1>1 DEF IInv, AttributedMeansAlerted
<1>6. EveryMatchIsAttributed'
  <2>1. matched' \subseteq attributed'
    BY <1>1 DEF IInv, EveryMatchIsAttributed
  <2>2. ASSUME NEW l \in Listing, finder'[l] # NoSearch
        PROVE  <<finder'[l], l>> \in attributed'
    <3>1. finder'[l] = finder[l] /\ finder[l] # s
      BY <1>1, <2>2
    <3>2. <<finder[l], l>> \in attributed
      BY <2>2, <3>1 DEF IInv, EveryMatchIsAttributed, Discoveries
    <3> QED BY <1>1, <3>1, <3>2
  <2> QED BY <2>1, <2>2 DEF EveryMatchIsAttributed, Discoveries
<1> QED BY <1>2, <1>3, <1>4, <1>5, <1>6 DEF IInv

\* A run that has locked the listing would have kept it; one that has only
\* touched it is doomed.
LEMMA DeleteListingKeeps ==
    ASSUME IInv, NEW l \in Listing, DeleteListing(l)
    PROVE  IInv'
<1>1. /\ stored' = stored \ {l}
      /\ attributed' = {a \in attributed : a[2] # l}
      /\ matched' = {a \in matched : a[2] # l}
      /\ finder' = [finder EXCEPT ![l] = NoSearch]
      /\ outbox' = [p \in Owner \X Listing |-> IF p[2] = l THEN 0 ELSE outbox[p]]
      /\ run' = [r \in Runner |->
                    IF l \in run[r].dirty THEN [run[r] EXCEPT !.doomed = TRUE] ELSE run[r]]
      /\ UNCHANGED <<searches, guard, tx>>
      /\ \A r \in Runner : l \notin tx[r].locked
  BY DEF DeleteListing
<1>2. \A a, k : <<a, k>> \in attributed' <=> <<a, k>> \in attributed /\ k # l
  BY <1>1
<1>3. \A o \in Owner, k \in Listing : k # l => outbox'[<<o, k>>] = outbox[<<o, k>>]
  BY <1>1
<1>4. \A q \in Runner : /\ run'[q] \in Run
                        /\ run'[q].doomed <=> run[q].doomed \/ l \in run[q].dirty
                        /\ run'[q].pc = run[q].pc /\ run'[q].search = run[q].search
                        /\ run'[q].queue = run[q].queue /\ run'[q].fresh = run[q].fresh
                        /\ run'[q].dirty = run[q].dirty /\ run'[q].seen = run[q].seen
                        /\ l \notin run[q].dirty => run'[q] = run[q]
  <2> TAKE q \in Runner
  <2>1. run[q] \in Run
    BY OfRun
  <2>2. CASE l \in run[q].dirty
    BY <1>1, <2>1, <2>2 DEF Run
  <2>3. CASE l \notin run[q].dirty
    BY <1>1, <2>1, <2>3
  <2> QED BY <2>2, <2>3
<1>5. TypeOK'
  <2>1. outbox' \in [Owner \X Listing -> Nat]
    BY <1>1 DEF IInv, TypeOK
  <2>2. run' \in [Runner -> Run]
    BY <1>1, <1>4
  <2>3. attributed' \in SUBSET (Search \X Listing) /\ matched' \in SUBSET (Search \X Listing)
    BY <1>1 DEF IInv, TypeOK
  <2> QED BY <1>1, <2>1, <2>2, <2>3 DEF IInv, TypeOK
<1>6. ASSUME NEW q \in Runner PROVE RunInv(run[q], tx[q])'
  <2> DEFINE t == run[q]
             w == tx[q]
  <2>1. RunInv(t, w) /\ tx'[q] = w /\ l \notin w.locked /\ w \in Writes
    BY <1>1, OfRun
  <2>2. \A k \in w.attributions \cup w.rows : k \in Listing /\ k # l
    BY <2>1 DEF RunInv, OnlyLocked, Writes
  <2>3. Shape(t, w)'
    <3>1. Idle.dirty = {}
      BY DEF Idle
    <3>2. t.pc = "idle" => run'[q] = Idle
      BY <1>4, <2>1, <3>1 DEF RunInv, Shape
    <3>3. t.doomed => t.dirty # {}
      BY <2>1 DEF RunInv, Shape
    <3> QED BY <1>1, <1>4, <2>1, <3>2, <3>3 DEF RunInv, Shape
  <2>4. OnlyLocked(t, w)' /\ Held(t, w)'
    BY <1>1, <1>4, <2>1 DEF RunInv, OnlyLocked, Held, Processed
  <2>5. OnRecord(t, w)'
    <3> SUFFICES ASSUME ~run'[q].doomed, t.search \in searches, NEW k \in Processed(t)
                 PROVE  <<t.search, k>> \in attributed' \/ k \in w.attributions
      BY <1>1, <1>4 DEF OnRecord, Processed
    <3>1. ~t.doomed /\ l \notin t.dirty
      BY <1>4
    <3>2. k # l
      BY <2>1, <3>1 DEF RunInv, Held
    <3> QED BY <1>2, <2>1, <3>1, <3>2 DEF RunInv, OnRecord
  <2>6. FirstToAttribute(t, w)'
    BY <1>1, <1>2, <1>4, <2>1 DEF RunInv, FirstToAttribute
  <2>7. Alerted(t, w)' /\ FirstToAlert(t, w)'
    <3>1. w = NoWrites \/ t.search \in Search
      BY <2>1 DEF RunInv, Shape
    <3>2. t.search \in Search => OwnerOf[t.search] \in Owner
      BY DiscoveryAssumption DEF Owner
    <3>3. NoWrites.attributions = {} /\ NoWrites.rows = {}
      BY DEF NoWrites
    <3>4. \A k \in w.attributions \cup w.rows :
             outbox'[<<OwnerOf[t.search], k>>] = outbox[<<OwnerOf[t.search], k>>]
      BY <1>3, <2>2, <3>1, <3>2, <3>3
    <3>5. tx' = tx
      BY <1>1
    <3> HIDE DEF t, w
    <3>6. Alerted(t, w)'
      BY <1>4, <2>1, <3>4, <3>5 DEF RunInv, Alerted, t, w
    <3>7. FirstToAlert(t, w)'
      BY <1>4, <2>1, <3>4, <3>5 DEF RunInv, FirstToAlert, t, w
    <3> QED BY <3>6, <3>7
  <2> QED BY <2>3, <2>4, <2>5, <2>6, <2>7 DEF RunInv
<1>7. LocksExclude'
  BY <1>1 DEF IInv, LocksExclude
<1>8. GuardIsTrue'
  <2>1. \A q \in Runner, s \in Search : Guards(q, s)' <=> Guards(q, s)
    BY <1>4 DEF Guards
  <2> QED BY <1>1, <2>1 DEF IInv, GuardIsTrue
<1>9. AttributedMeansAlerted'
  <2> SUFFICES ASSUME NEW a \in Search, NEW k \in Listing, <<a, k>> \in attributed'
               PROVE  outbox'[<<OwnerOf[a], k>>] > 0
    BY <1>5 DEF TypeOK, AttributedMeansAlerted
  <2>1. <<a, k>> \in attributed /\ k # l
    BY <1>2
  <2>2. \A b \in attributed : outbox[<<OwnerOf[b[1]], b[2]>>] > 0
    BY DEF IInv, AttributedMeansAlerted
  <2>3. outbox[<<OwnerOf[a], k>>] > 0
    BY <2>1, <2>2
  <2>4. OwnerOf[a] \in Owner
    BY DiscoveryAssumption DEF Owner
  <2> QED BY <1>3, <2>1, <2>3, <2>4
<1>10. EveryMatchIsAttributed'
  <2>1. matched' \subseteq attributed'
    BY <1>1 DEF IInv, EveryMatchIsAttributed
  <2>2. ASSUME NEW k \in Listing, finder'[k] # NoSearch
        PROVE  <<finder'[k], k>> \in attributed'
    <3>1. finder'[k] = finder[k] /\ k # l
      BY <1>1, <2>2 DEF IInv, TypeOK
    <3>2. <<finder[k], k>> \in attributed
      BY <2>2, <3>1 DEF IInv, EveryMatchIsAttributed, Discoveries
    <3> QED BY <1>2, <3>1, <3>2
  <2> QED BY <2>1, <2>2 DEF EveryMatchIsAttributed, Discoveries
<1> QED BY <1>5, <1>6, <1>7, <1>8, <1>9, <1>10 DEF IInv

-----------------------------------------------------------------------------
\* The invariant of the specification.

LEMMA InvNext == IInv /\ [Next]_vars => IInv'
<1> SUFFICES ASSUME IInv, [Next]_vars PROVE IInv'
  OBVIOUS
<1>1. ASSUME NEW r \in Runner, Step(r) PROVE IInv'
  BY <1>1, StartKeeps, FetchKeeps, FlushKeeps, LookKeeps, InsertKeeps, CheckKeeps,
     AttributeKeeps, EnqueueKeeps, StampKeeps, ReleaseEarlyKeeps, CommitKeeps, ReleaseKeeps
     DEF Step
<1>2. ASSUME NEW r \in Runner, Abort(r) PROVE IInv'
  BY <1>2, AbortKeeps
<1>3. ASSUME NEW p \in Process, Crash(p) PROVE IInv'
  BY <1>3, CrashKeeps
<1>4. ASSUME NEW s \in Search, DeleteSearch(s) PROVE IInv'
  BY <1>4, DeleteSearchKeeps
<1>5. ASSUME NEW l \in Listing, DeleteListing(l) PROVE IInv'
  BY <1>5, DeleteListingKeeps
<1>6. CASE UNCHANGED vars
  BY <1>6 DEF vars, IInv, TypeOK, RunInv, Shape, OnlyLocked, Held, OnRecord, Processed,
     FirstToAttribute, Alerted, FirstToAlert, LocksExclude, EveryMatchIsAttributed,
     Discoveries, AttributedMeansAlerted, GuardIsTrue, Guards
<1> QED BY <1>1, <1>2, <1>3, <1>4, <1>5, <1>6 DEF Next

\* The state of every run agrees with its transaction and with the committed
\* tables, whatever runs, deletions, failures and crashes came in between
\* (SavedSearchRunner.run and process_listings).
THEOREM Invariance == Spec => []IInv
<1>1. IInv /\ [Next]_vars => IInv'
  BY InvNext
<1> QED BY InvInit, <1>1, PTL DEF Spec

\* A committed run has attributed all that it kept, and the discoverer of a
\* listing is on record as having matched it (process_listings).
THEOREM AllAttributed == Spec => []EveryMatchIsAttributed
<1>1. IInv => EveryMatchIsAttributed
  BY DEF IInv
<1> QED BY Invariance, <1>1, PTL

\* The owner of a search has an alert for each listing the search matched,
\* also when other runs found or attributed it first (process_listings).
THEOREM AllAlerted == Spec => []AttributedMeansAlerted
<1>1. IInv => AttributedMeansAlerted
  BY DEF IInv
<1> QED BY Invariance, <1>1, PTL

\* The guard of a process is exactly the runs under way in it, one of each
\* search at most (SavedSearchRunGuard).
THEOREM GuardIsExact == Spec => []GuardIsTrue
<1>1. IInv => GuardIsTrue
  BY DEF IInv
<1> QED BY Invariance, <1>1, PTL

LEMMA NoCollision == IInv => EnqueueNeverCollides
<1> SUFFICES ASSUME IInv, NEW r \in Runner, NEW l \in tx[r].rows,
                    OwnerOf[run[r].search] # NoUser
             PROVE  /\ outbox[<<OwnerOf[run[r].search], l>>] = 0
                    /\ \A q \in Runner \ {r} : l \notin tx[q].rows
  BY DEF EnqueueNeverCollides
<1>1. \A q \in Runner : tx[q].rows \subseteq tx[q].locked
  BY OfRun DEF RunInv, OnlyLocked
<1>2. outbox[<<OwnerOf[run[r].search], l>>] = 0
  BY OfRun DEF RunInv, FirstToAlert
<1> QED BY <1>1, <1>2, OfRun

\* No two transactions ever insert an alert for one user and listing, although
\* nothing but a read guards the insert (NotificationOutboxRepository.enqueue).
THEOREM NeverCollides == Spec => []EnqueueNeverCollides
BY Invariance, NoCollision, PTL

\* The attributions that a step adds for the searches of one user and a listing.
NewlyMatched(u, l) ==
    {s \in Search : OwnerOf[s] = u /\ <<s, l>> \in attributed' \ attributed}

\* Only a commit adds alerts, and only for what it attributes.
LEMMA OnlyCommitsAlert ==
    ASSUME IInv, [Next]_vars, \A r \in Runner : ~Commit(r)
    PROVE  /\ attributed' \subseteq attributed
           /\ \A u \in Owner, l \in Listing : outbox'[<<u, l>>] <= outbox[<<u, l>>]
<1>1. outbox \in [Owner \X Listing -> Nat]
  BY DEF IInv, TypeOK
<1>2. CASE UNCHANGED <<attributed, outbox>>
  BY <1>1, <1>2
<1>3. ASSUME NEW s \in Search, DeleteSearch(s)
      PROVE  attributed' \subseteq attributed /\ UNCHANGED outbox
  BY <1>3 DEF DeleteSearch
<1>4. ASSUME NEW l \in Listing, DeleteListing(l)
      PROVE  /\ attributed' \subseteq attributed
             /\ \A u \in Owner, k \in Listing : outbox'[<<u, k>>] <= outbox[<<u, k>>]
  <2>1. outbox' = [p \in Owner \X Listing |-> IF p[2] = l THEN 0 ELSE outbox[p]]
    BY <1>4 DEF DeleteListing
  <2>2. attributed' \subseteq attributed
    BY <1>4 DEF DeleteListing
  <2> QED BY <1>1, <2>1, <2>2
<1>5. ASSUME NEW r \in Runner, Step(r) PROVE UNCHANGED <<attributed, outbox>>
  BY <1>5 DEF Step, Start, Fetch, Flush, Look, Insert, Check, Attribute, Enqueue, Stamp,
     ReleaseEarly, Release, database
<1>6. ASSUME NEW r \in Runner, Abort(r) PROVE UNCHANGED <<attributed, outbox>>
  BY <1>6 DEF Abort, database
<1>7. ASSUME NEW p \in Process, Crash(p) PROVE UNCHANGED <<attributed, outbox>>
  BY <1>7 DEF Crash, database
<1> QED BY <1>1, <1>2, <1>3, <1>4, <1>5, <1>6, <1>7 DEF Next, vars

\* A commit adds at most one alert per user and listing, and then it attributes
\* the listing to its search.
LEMMA CommitEarns ==
    ASSUME IInv, NEW r \in Runner, Commit(r), NEW u \in Owner, NEW l \in Listing
    PROVE  outbox'[<<u, l>>] - outbox[<<u, l>>] <= Cardinality(NewlyMatched(u, l))
<1> DEFINE s == run[r].search
<1>1. outbox[<<u, l>>] \in Nat
  BY DEF IInv, TypeOK
<1>2. s \in Search
  BY CommitWrites
<1>3. NewlyMatched(u, l) =
         IF u = OwnerOf[s] /\ l \in tx[r].attributions THEN {s} ELSE {}
  <2>1. \A a \in Search : <<a, l>> \in attributed' \ attributed <=>
                             a = s /\ l \in tx[r].attributions
    BY OfRun, CommitTables DEF RunInv, FirstToAttribute
  <2> QED BY <1>2, <2>1 DEF NewlyMatched
<1>4. Cardinality({s}) = 1 /\ Cardinality({}) = 0
  BY FS_Singleton, FS_EmptySet
<1>5. outbox'[<<u, l>>] = IF u = OwnerOf[s] /\ l \in tx[r].rows
                          THEN outbox[<<u, l>>] + 1 ELSE outbox[<<u, l>>]
  BY CommitTables
<1>6. l \in tx[r].rows => l \in tx[r].attributions
  BY CommitWrites
<1> HIDE DEF s
<1> QED BY <1>1, <1>3, <1>4, <1>5, <1>6

\* No alert appears without an attribution that the same step adds for a search
\* of the user (process_listings, enqueue).
THEOREM EarnedAlerts == Spec => AlertsAreEarned
<1> DEFINE Earned ==
        \A u \in Owner, l \in Listing :
           outbox'[<<u, l>>] - outbox[<<u, l>>] <=
              Cardinality({s \in Search : /\ OwnerOf[s] = u
                                          /\ <<s, l>> \in attributed' \ attributed})
<1>1. IInv /\ [Next]_vars => Earned
  <2> SUFFICES ASSUME IInv, [Next]_vars, NEW u \in Owner, NEW l \in Listing
               PROVE  outbox'[<<u, l>>] - outbox[<<u, l>>] <= Cardinality(NewlyMatched(u, l))
    BY DEF NewlyMatched
  <2>1. CASE \E r \in Runner : Commit(r)
    BY <2>1, CommitEarns
  <2>2. CASE \A r \in Runner : ~Commit(r)
    <3>1. attributed' \subseteq attributed /\ outbox'[<<u, l>>] <= outbox[<<u, l>>]
      BY <2>2, OnlyCommitsAlert
    <3>2. NewlyMatched(u, l) = {}
      BY <3>1 DEF NewlyMatched
    <3>3. Cardinality({}) = 0
      BY FS_EmptySet
    <3>4. outbox[<<u, l>>] \in Nat /\ outbox'[<<u, l>>] \in Nat
      BY InvNext DEF IInv, TypeOK
    <3> QED BY <3>1, <3>2, <3>3, <3>4
  <2> QED BY <2>1, <2>2
<1> QED BY Invariance, <1>1, PTL DEF Spec, AlertsAreEarned
=============================================================================
