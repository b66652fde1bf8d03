---------------------------- MODULE ScreensProofs ----------------------------
(***************************************************************************)
(* Theorems about the two screens: first the screen of a search, then the  *)
(* list of listings, as MCScreens holds it, and last what they have in     *)
(* common.                                                                 *)
(*                                                                         *)
(* The inductive invariant of DetailScreen speaks of one view at a time:   *)
(* HookInv(h, n, o, ms) relates its hook h to the number n of changes in   *)
(* the backend, the change o the user was last told of, and what ms the    *)
(* reload then may have missed it by.  The lemmas say what each operator   *)
(* of useAsyncData makes of it; the steps of the specification only put    *)
(* them together.                                                          *)
(*                                                                         *)
(* Of the list: a spinner ends, and the pages fit together, for any        *)
(* filters and any page size, however many listings come and go.           *)
(***************************************************************************)
EXTENDS MCScreens, SequenceTheorems, WellFoundedInduction, TLAPS

\* At most one request is in flight, and inFlightRef knows.
OneRequest(h) ==
    /\ h.inFlight <=> h.requests # {}
    /\ \A r, q \in h.requests : r = q

\* What is shown is not newer than the backend, nor than any answer to come.
InOrder(h, n) ==
    /\ h.data # Null => h.data <= n
    /\ \A r \in h.requests : r.answer \in Version =>
          r.answer <= n /\ (h.data # Null => h.data <= r.answer)

SpinnerOK(h) == h.loading \/ h.refreshing => \E r \in h.requests : r.mode # "auto"

ShownOK(h) == h.data = Null => h.loading \/ h.error

\* ShowsOrWill, of a hook.
WillShow(h, o) ==
    \/ h.data # Null /\ h.data >= o
    \/ h.error
    \/ \E r \in h.requests :
          \/ r.answer \in Version /\ r.answer >= o
          \/ r.mode # "auto" /\ r.answer \in {Null, Failed}

\* A reload that missed nothing shows the change it follows, or fails to; and so
\* does every request after it.
EffectOK(h, o, ms) ==
    ms = {} => /\ WillShow(h, o)
               /\ \A r \in h.requests : r.answer \in Version => r.answer >= o

HookInv(h, n, o, ms) ==
    /\ OneRequest(h) /\ InOrder(h, n)
    /\ SpinnerOK(h) /\ ShownOK(h)
    /\ EffectOK(h, o, ms)

IInv ==
    /\ TypeOK
    /\ \A v \in View : HookInv(hook[v], row, owed[v], missed[v])

-----------------------------------------------------------------------------
\* The operators of useAsyncData.

\* A call of load keeps the invariant of its hook, whatever its mode.
LEMMA LoadKeeps ==
    ASSUME NEW h \in Hook, NEW mode \in Mode, NEW n \in Nat, NEW o \in Nat, NEW ms,
           HookInv(h, n, o, ms)
    PROVE  Load(h, mode) \in Hook /\ HookInv(Load(h, mode), n, o, ms)
<1>1. CASE h.inFlight
  BY <1>1 DEF Load
<1>2. CASE ~h.inFlight
  <2> DEFINE g == Begun(h, mode)
             q == [mode |-> mode, answer |-> Null]
  <2>1. Load(h, mode) = g
    BY <1>2 DEF Load
  <2>2. h.requests = {}
    BY <1>2 DEF HookInv, OneRequest
  <2>3. /\ ~h.loading /\ ~h.refreshing
        /\ h.data = Null => h.error
    BY <2>2 DEF HookInv, SpinnerOK, ShownOK, Hook
  <2> DEFINE i == Indicated(h, mode)
  <2>i. /\ i \in Hook /\ i.data = h.data /\ i.requests = {}
        /\ mode = "auto" => /\ i.loading = h.loading /\ i.refreshing = h.refreshing
                            /\ i.error = h.error
        /\ mode # "auto" => /\ i.loading = (mode # "refresh" /\ h.data = Null)
                            /\ i.error = (h.error /\ mode = "refresh")
    <3>1. CASE mode = "auto"
      BY <2>2, <3>1 DEF Indicated
    <3>2. CASE mode # "auto"
      BY <2>2, <3>2 DEF Indicated, Hook
    <3> QED BY <3>1, <3>2
  <2>q. q \in Request
    BY DEF Request
  <2>g. g = [i EXCEPT !.inFlight = TRUE, !.requests = {q}]
    BY <2>i DEF Begun, Hook
  <2> HIDE DEF i, g
  <2>4. g.data = h.data /\ g.inFlight = TRUE /\ g.requests = {q}
    BY <2>i, <2>g DEF Hook
  <2>5. /\ g \in Hook
        /\ mode = "auto" => /\ g.loading = h.loading /\ g.refreshing = h.refreshing
                            /\ g.error = h.error
        /\ mode # "auto" => /\ g.loading = (mode # "refresh" /\ h.data = Null)
                            /\ g.error = (h.error /\ mode = "refresh")
    BY <2>i, <2>g, <2>q DEF Hook
  <2>6. q.answer \notin Version /\ q.mode = mode /\ q.answer = Null
    BY DetailScreenAssumption DEF Version
  <2>7. OneRequest(g) /\ InOrder(g, n)
    BY <2>4, <2>6 DEF OneRequest, InOrder, HookInv
  <2>8. SpinnerOK(g)
    BY <2>3, <2>4, <2>5, <2>6 DEF SpinnerOK
  <2>9. ShownOK(g)
    BY <2>3, <2>4, <2>5 DEF ShownOK, Mode
  <2>10. EffectOK(g, o, ms)
    <3>1. SUFFICES ASSUME ms = {} PROVE WillShow(g, o)
      BY <2>4, <2>6 DEF EffectOK, HookInv
    <3>2. WillShow(h, o)
      BY <3>1 DEF HookInv, EffectOK
    <3>3. (h.data # Null /\ h.data >= o) \/ h.error
      BY <2>2, <3>2 DEF WillShow
    <3>4. CASE h.data # Null /\ h.data >= o
      BY <2>4, <3>4 DEF WillShow
    <3>5. CASE h.error /\ mode = "auto"
      BY <2>5, <3>5 DEF WillShow
    <3>6. CASE h.error /\ mode # "auto"
      BY <2>4, <2>6, <3>6 DEF WillShow
    <3> QED BY <3>3, <3>4, <3>5, <3>6
  <2> QED BY <2>1, <2>5, <2>7, <2>8, <2>9, <2>10 DEF HookInv
<1> QED BY <1>1, <1>2

\* An answer that reaches the hook keeps its invariant and shows nothing older.
LEMMA AnsweredKeeps ==
    ASSUME NEW h \in Hook, NEW n \in Nat, NEW o \in Nat, NEW ms,
           HookInv(h, n, o, ms), NEW r \in h.requests, r.answer # Null
    PROVE  /\ Answered(h, r) \in Hook /\ HookInv(Answered(h, r), n, o, ms)
           /\ h.data # Null => /\ Answered(h, r).data # Null
                               /\ Answered(h, r).data >= h.data
<1> DEFINE g == Answered(h, r)
<1>1. r \in Request /\ r.answer \in Version \cup {Failed}
  BY DEF Hook, Request
<1>2. h.requests = {r}
  BY DEF HookInv, OneRequest
<1>3. CASE r.answer # Failed
  <2>1. r.answer \in Version /\ r.answer # Null /\ r.answer <= n
    BY <1>1, <1>3, DetailScreenAssumption DEF Version, HookInv, InOrder
  <2>2. /\ g \in Hook
        /\ g.data = r.answer /\ ~g.loading /\ ~g.refreshing /\ ~g.error
        /\ ~g.inFlight /\ g.requests = {}
    BY <1>2, <1>3, <2>1 DEF Answered, Released, Hook
  <2>3. h.data # Null => h.data <= r.answer
    BY <2>1 DEF HookInv, InOrder
  <2>4. ms = {} => r.answer >= o
    BY <2>1 DEF HookInv, EffectOK
  <2>5. HookInv(g, n, o, ms)
    BY <2>1, <2>2, <2>4
    DEF HookInv, OneRequest, InOrder, SpinnerOK, ShownOK, EffectOK, WillShow, Version
  <2>6. h.data # Null => h.data \in Nat
    BY DEF Hook, Version
  <2> QED BY <2>1, <2>2, <2>3, <2>5, <2>6 DEF Version
<1>4. CASE r.answer = Failed /\ r.mode = "auto"
  <2>1. /\ g \in Hook
        /\ g.data = h.data /\ g.loading = h.loading /\ g.refreshing = h.refreshing
        /\ g.error = h.error /\ ~g.inFlight /\ g.requests = {}
    BY <1>2, <1>4 DEF Answered, Released, Hook
  <2>2. ~h.loading /\ ~h.refreshing
    BY <1>2, <1>4 DEF HookInv, SpinnerOK, Hook
  <2>3. r.answer \notin Version /\ r.answer # Null
    BY <1>4, DetailScreenAssumption DEF Version
  <2>4. ms = {} => WillShow(g, o)
    BY <1>2, <1>4, <2>1, <2>3 DEF HookInv, EffectOK, WillShow
  <2>5. HookInv(g, n, o, ms)
    BY <2>1, <2>2, <2>4
    DEF HookInv, OneRequest, InOrder, SpinnerOK, ShownOK, EffectOK
  <2>6. h.data # Null => h.data \in Nat
    BY DEF Hook, Version
  <2> QED BY <2>1, <2>5, <2>6
<1>5. CASE r.answer = Failed /\ r.mode # "auto"
  <2>1. /\ g \in Hook
        /\ g.data = h.data /\ ~g.loading /\ ~g.refreshing
        /\ g.error /\ ~g.inFlight /\ g.requests = {}
    BY <1>2, <1>5 DEF Answered, Released, Hook
  <2>2. HookInv(g, n, o, ms)
    BY <2>1
    DEF HookInv, OneRequest, InOrder, SpinnerOK, ShownOK, EffectOK, WillShow
  <2>3. h.data # Null => h.data \in Nat
    BY DEF Hook, Version
  <2> QED BY <2>1, <2>2, <2>3
<1> QED BY <1>3, <1>4, <1>5

\* The hook h with the answer a to request r.
Told(h, r, a) ==
    [h EXCEPT !.requests = (@ \ {r}) \cup {[r EXCEPT !.answer = a]}]

\* The backend's answer, or the end of the wait for it, keeps the invariant, when
\* an answer from before the commit is on record.
LEMMA ToldKeeps ==
    ASSUME NEW h \in Hook, NEW n \in Nat, NEW o \in Nat, NEW ms, NEW ns,
           HookInv(h, n, o, ms), NEW r \in h.requests, r.answer = Null,
           NEW a \in {n, Failed},
           ns = {} => ms = {} /\ (a # Failed => o <= n)
    PROVE  Told(h, r, a) \in Hook /\ HookInv(Told(h, r, a), n, o, ns)
<1> DEFINE g == Told(h, r, a)
           q == [r EXCEPT !.answer = a]
<1>1. r \in Request /\ h.requests = {r}
  BY DEF Hook, HookInv, OneRequest
<1>2. q \in Request /\ q.mode = r.mode /\ q.answer = a
  BY <1>1 DEF Request, Version
<1>3. /\ g \in Hook
      /\ g.data = h.data /\ g.loading = h.loading /\ g.refreshing = h.refreshing
      /\ g.error = h.error /\ g.inFlight = h.inFlight /\ g.requests = {q}
  BY <1>1, <1>2 DEF Told, Hook
<1>4. a \in Version => a = n /\ a # Failed
  BY DetailScreenAssumption DEF Version
<1>5. n \in Version /\ Null \notin Version
  BY DetailScreenAssumption DEF Version
<1>6. OneRequest(g)
  BY <1>1, <1>3 DEF HookInv, OneRequest
<1>7. InOrder(g, n)
  BY <1>2, <1>3, <1>4 DEF HookInv, InOrder
<1>8. SpinnerOK(g) /\ ShownOK(g)
  BY <1>1, <1>2, <1>3 DEF HookInv, SpinnerOK, ShownOK
<1>9. EffectOK(g, o, ns)
  <2>1. SUFFICES ASSUME ns = {} PROVE WillShow(g, o)
    BY <1>2, <1>3, <1>4 DEF EffectOK
  <2>2. WillShow(h, o) /\ (a # Failed => o <= n)
    BY <2>1 DEF HookInv, EffectOK
  <2>3. \/ h.data # Null /\ h.data >= o
        \/ h.error
        \/ r.mode # "auto"
    BY <1>1, <1>5, <2>2 DEF WillShow
  <2>4. CASE (h.data # Null /\ h.data >= o) \/ h.error
    BY <1>3, <2>4 DEF WillShow
  <2>5. CASE r.mode # "auto"
    BY <1>2, <1>3, <1>5, <2>2, <2>5 DEF WillShow
  <2> QED BY <2>3, <2>4, <2>5
<1> QED BY <1>3, <1>6, <1>7, <1>8, <1>9 DEF HookInv

\* Changes in the backend are later than everything that is shown.
LEMMA RowGrows ==
    ASSUME NEW h \in Hook, NEW n \in Nat, NEW m \in Nat, n <= m, NEW o \in Nat, NEW ms,
           HookInv(h, n, o, ms)
    PROVE  HookInv(h, m, o, ms)
<1>1. h.data # Null => h.data \in Nat
  BY DEF Hook, Version
<1>2. InOrder(h, m)
  BY <1>1 DEF HookInv, InOrder, Version
<1> QED BY <1>2 DEF HookInv

\* Less is owed when the change that was told of is rolled back.
LEMMA OwesLess ==
    ASSUME NEW h \in Hook, NEW n \in Nat, NEW o \in Nat, NEW p \in Nat, p <= o, NEW ms,
           HookInv(h, n, o, ms)
    PROVE  HookInv(h, n, p, ms)
<1>1. h.data # Null => h.data \in Nat
  BY DEF Hook, Version
<1>2. EffectOK(h, p, ms)
  <2>1. ASSUME ms = {}
        PROVE  \A r \in h.requests : r.answer \in Version => r.answer >= p
    BY <2>1 DEF HookInv, EffectOK, Version
  <2>2. ASSUME ms = {} PROVE WillShow(h, p)
    <3>1. WillShow(h, o)
      BY <2>2 DEF HookInv, EffectOK
    <3>2. CASE h.data # Null /\ h.data >= o
      BY <1>1, <3>2 DEF WillShow
    <3>3. CASE h.error
      BY <3>3 DEF WillShow
    <3>4. ASSUME NEW r \in h.requests, r.answer \in Version, r.answer >= o
          PROVE  WillShow(h, p)
      BY <3>4 DEF WillShow, Version
    <3>5. ASSUME NEW r \in h.requests, r.mode # "auto", r.answer \in {Null, Failed}
          PROVE  WillShow(h, p)
      BY <3>5 DEF WillShow
    <3> QED BY <3>1, <3>2, <3>3, <3>4, <3>5 DEF WillShow
  <2> QED BY <2>1, <2>2 DEF EffectOK
<1> QED BY <1>2 DEF HookInv

\* The reload after a success: it is not dropped, and awaits its answer, or what is
\* in its way is on record.
LEMMA ReloadOwes ==
    ASSUME NEW h \in Hook, NEW n \in Nat, NEW o \in Nat, NEW ms, HookInv(h, n, o, ms),
           NEW p \in Nat
    PROVE  /\ Load(h, "refresh") \in Hook
           /\ HookInv(Load(h, "refresh"), n, p, InTheWay(h))
<1> DEFINE g == Load(h, "refresh")
<1>1. g \in Hook /\ HookInv(g, n, o, ms)
  BY LoadKeeps DEF Mode
<1>2. EffectOK(g, p, InTheWay(h))
  <2>1. SUFFICES ASSUME InTheWay(h) = {}
                 PROVE  /\ WillShow(g, p)
                        /\ \A r \in g.requests : r.answer \in Version => r.answer >= p
    BY DEF EffectOK
  <2>2. h.requests = {} /\ ~h.inFlight
    BY <2>1 DEF InTheWay, HookInv, OneRequest
  <2> DEFINE q == [mode |-> "refresh", answer |-> Null]
  <2>3. g.requests = {q}
    BY <2>2 DEF Load, Begun, Indicated, Hook
  <2>4. q.mode # "auto" /\ q.answer = Null /\ q.answer \notin Version
    BY DetailScreenAssumption DEF Version
  <2> HIDE DEF g, q
  <2> QED BY <2>3, <2>4 DEF WillShow
<1> QED BY <1>1, <1>2 DEF HookInv

-----------------------------------------------------------------------------
\* The steps.

\* A screen begins with the load that its effect makes.
LEMMA InitiallyIs ==
    /\ Initially \in Hook
    /\ Initially.data = Null /\ Initially.loading = TRUE /\ Initially.refreshing = FALSE
    /\ Initially.error = FALSE /\ Initially.inFlight = TRUE
    /\ Initially.requests = {[mode |-> "initial", answer |-> Null]}
<1> DEFINE q == [mode |-> "initial", answer |-> Null]
<1>1. Initially = [data |-> Null, loading |-> TRUE, refreshing |-> FALSE,
                   error |-> FALSE, inFlight |-> TRUE, requests |-> {q}]
  BY DEF Initially, Load, Begun, Indicated
<1>2. q \in Request
  BY DEF Request, Mode
<1> QED BY <1>1, <1>2 DEF Hook

LEMMA InitInv == Init => IInv
<1> SUFFICES ASSUME Init PROVE IInv
  OBVIOUS
<1> DEFINE q == [mode |-> "initial", answer |-> Null]
<1>1. /\ Initially.data = Null /\ Initially.loading = TRUE /\ Initially.refreshing = FALSE
      /\ Initially.error = FALSE /\ Initially.inFlight = TRUE /\ Initially.requests = {q}
      /\ Initially \in Hook
  BY InitiallyIs
<1>2. q.answer \notin Version /\ q.mode # "auto" /\ q.answer = Null
  BY DetailScreenAssumption DEF Version
<1>3. HookInv(Initially, 0, 0, {})
  BY <1>1, <1>2
  DEF HookInv, OneRequest, InOrder, SpinnerOK, ShownOK, EffectOK, WillShow
<1>4. TypeOK
  BY <1>1 DEF Init, TypeOK, Version
<1> QED BY <1>3, <1>4 DEF Init, IInv

\* A step that leaves the hooks alone, and only adds to the changes in the backend.
LEMMA HooksUnchanged ==
    ASSUME IInv, TypeOK', UNCHANGED <<hook, owed, missed>>, row <= row'
    PROVE  IInv'
<1> SUFFICES ASSUME NEW v \in View
             PROVE  HookInv(hook[v], row', owed[v], missed[v])
  BY DEF IInv
<1>1. /\ hook[v] \in Hook /\ owed[v] \in Nat /\ row \in Nat /\ row' \in Nat
      /\ HookInv(hook[v], row, owed[v], missed[v])
  BY DEF IInv, TypeOK, Version
<1> QED BY <1>1, RowGrows

\* A step that changes hooks only in ways the lemmas above allow.
LEMMA HooksChange ==
    ASSUME IInv, UNCHANGED <<tables, mutation, owed>>,
           missed' \in [View -> SUBSET {"dropped", "early"}],
           <<mounted, focused, hasFocusedOnce, awake>>'
               \in BOOLEAN \X BOOLEAN \X BOOLEAN \X BOOLEAN,
           hook' = [v \in View |-> hook'[v]],
           \A v \in View : hook'[v] \in Hook /\ HookInv(hook'[v], row, owed[v], missed'[v])
    PROVE  IInv'
<1>1. hook' \in [View -> Hook]
  OBVIOUS
<1>2. TypeOK'
  BY <1>1 DEF IInv, TypeOK, tables
<1> QED BY <1>2 DEF IInv, tables

\* What refreshBothQuietly makes of the hooks.
LEMMA BothKeep ==
    ASSUME IInv
    PROVE  /\ BothQuietly \in [View -> Hook]
           /\ \A v \in View : HookInv(BothQuietly[v], row, owed[v], missed[v])
<1> SUFFICES ASSUME NEW v \in View
             PROVE  /\ Load(hook[v], "auto") \in Hook
                    /\ HookInv(Load(hook[v], "auto"), row, owed[v], missed[v])
  BY DEF BothQuietly
<1>1. /\ hook[v] \in Hook /\ owed[v] \in Nat /\ row \in Nat
      /\ HookInv(hook[v], row, owed[v], missed[v])
  BY DEF IInv, TypeOK, Version
<1> QED BY <1>1, LoadKeeps DEF Mode

LEMMA NextInv == IInv /\ [Next]_vars => IInv'
<1> SUFFICES ASSUME IInv, [Next]_vars PROVE IInv'
  OBVIOUS
<1>0. /\ TypeOK
      /\ row \in Nat
      /\ \A v \in View : /\ hook[v] \in Hook /\ owed[v] \in Nat
                         /\ HookInv(hook[v], row, owed[v], missed[v])
  BY DEF IInv, TypeOK, Version
<1>1. ASSUME NEW v \in View, NEW r \in hook[v].requests, Reply(v, r) PROVE IInv'
  <2>1. Answered(hook[v], r) \in Hook
        /\ HookInv(Answered(hook[v], r), row, owed[v], missed[v])
    BY <1>0, <1>1, AnsweredKeeps DEF Reply
  <2>2. hook' = [hook EXCEPT ![v] = Answered(hook[v], r)]
        /\ UNCHANGED <<tables, mutation, screen, owed, missed>>
    BY <1>1 DEF Reply, history
  <2> QED BY <1>0, <2>1, <2>2, HooksChange DEF TypeOK, screen
<1>2. ASSUME NEW v \in View, NEW r \in hook[v].requests, Serve(v, r) PROVE IInv'
  <2> DEFINE a  == IF exists \/ v = "latest" THEN row ELSE Failed
             ns == IF a # Failed /\ row < owed[v] THEN missed[v] \cup {"early"}
                                                  ELSE missed[v]
  <2>0. /\ r.answer = Null /\ a \in {row, Failed}
        /\ missed' = [missed EXCEPT ![v] = ns]
        /\ hook' = [hook EXCEPT ![v] = Told(hook[v], r, a)]
        /\ UNCHANGED <<tables, mutation, screen, owed>>
    BY <1>0, <1>2 DEF Serve, Told, TypeOK
  <2>1. Told(hook[v], r, a) \in Hook /\ HookInv(Told(hook[v], r, a), row, owed[v], ns)
    <3>1. ns = {} => missed[v] = {} /\ (a # Failed => owed[v] <= row)
      BY <1>0
    <3> HIDE DEF a, ns
    <3> QED BY <1>0, <2>0, <3>1, ToldKeeps
  <2>2. ns \in SUBSET {"dropped", "early"}
    BY <1>0 DEF TypeOK
  <2> HIDE DEF a, ns
  <2>3. missed' \in [View -> SUBSET {"dropped", "early"}]
    BY <1>0, <2>0, <2>2 DEF TypeOK
  <2>4. ASSUME NEW w \in View
        PROVE  hook'[w] \in Hook /\ HookInv(hook'[w], row, owed[w], missed'[w])
    BY <1>0, <2>0, <2>1 DEF TypeOK
  <2> QED BY <1>0, <2>0, <2>3, <2>4, HooksChange DEF TypeOK, screen
<1>3. ASSUME NEW v \in View, NEW r \in hook[v].requests, Lose(v, r) PROVE IInv'
  <2>1. Told(hook[v], r, Failed) \in Hook
        /\ HookInv(Told(hook[v], r, Failed), row, owed[v], missed[v])
    BY <1>0, <1>3, ToldKeeps DEF Lose
  <2>2. hook' = [hook EXCEPT ![v] = Told(hook[v], r, Failed)]
        /\ UNCHANGED <<tables, mutation, screen, owed, missed>>
    BY <1>0, <1>3 DEF Lose, Told, TypeOK, history
  <2> QED BY <1>0, <2>1, <2>2, HooksChange DEF TypeOK, screen
<1>4. ASSUME Scan \/ DeletedElsewhere PROVE IInv'
  <2>1. CASE Scan
    BY <1>0, <2>1, HooksUnchanged DEF Scan, TypeOK, Version, screen, history
  <2>2. CASE DeletedElsewhere
    <3>1. UNCHANGED <<hook, owed, missed>> /\ row' = row + 1
      BY <2>2 DEF DeletedElsewhere, history
    <3>2. TypeOK'
      <4>1. row' \in Version
        BY <1>0, <3>1 DEF Version
      <4>2. exists' \in BOOLEAN
        BY <2>2 DEF DeletedElsewhere
      <4> QED BY <1>0, <2>2, <4>1, <4>2 DEF DeletedElsewhere, TypeOK, screen, history
    <3> QED BY <1>0, <3>1, <3>2, HooksUnchanged
  <2> QED BY <1>4, <2>1, <2>2
<1>5. ASSUME NEW m \in Mutation, Perform(m) \/ Answer(m) \/ Refuse(m) PROVE IInv'
  <2>1. CASE Perform(m)
    BY <1>0, <2>1, HooksUnchanged DEF Perform, TypeOK, Version, screen, history
  <2>2. CASE Answer(m)
    <3>1. TypeOK' /\ UNCHANGED <<hook, owed, missed, row>>
      BY <1>0, <2>2 DEF Answer, TypeOK, screen, history, tables
    <3> QED BY <1>0, <3>1, HooksUnchanged
  <2>3. CASE Refuse(m)
    BY <1>0, <2>3, HooksUnchanged DEF Refuse, TypeOK, Version, screen, history, tables
  <2> QED BY <1>5, <2>1, <2>2, <2>3
<1>14. ASSUME Commit PROVE IInv'
  BY <1>0, <1>14, HooksUnchanged DEF Commit, TypeOK, Version, screen, history
<1>15. ASSUME Rollback PROVE IInv'
  <2>1. /\ owed' = [v \in View |-> IF owed[v] > row THEN row ELSE owed[v]]
        /\ UNCHANGED <<row, exists, hook, screen, missed>>
        /\ staged' = Null
        /\ mutation' \in [Mutation -> {"idle", "asked", "served", "done", "failed"}]
    BY <1>0, <1>15 DEF Rollback, TypeOK
  <2>2. \A v \in View : owed'[v] \in Nat /\ owed'[v] <= owed[v]
    BY <1>0, <2>1
  <2>3. \A v \in View : HookInv(hook[v], row, owed'[v], missed[v])
    BY <1>0, <2>2, OwesLess
  <2>4. owed' \in [View -> Version]
    BY <2>1, <2>2 DEF Version
  <2>5. TypeOK'
    BY <1>0, <2>1, <2>4 DEF TypeOK, screen
  <2> QED BY <2>1, <2>3, <2>5 DEF IInv
<1>6. ASSUME NEW m \in Mutation, Press(m) \/ GiveUp(m) PROVE IInv'
  <2>1. CASE Press(m)
    BY <1>0, <2>1, HooksUnchanged DEF Press, TypeOK, Version, screen, history, tables
  <2>2. CASE GiveUp(m)
    BY <1>0, <2>2, HooksUnchanged DEF GiveUp, TypeOK, Version, screen, history, tables
  <2> QED BY <1>6, <2>1, <2>2
<1>7. ASSUME NEW m \in Mutation, Succeed(m) PROVE IInv'
  <2>1. ASSUME NEW v \in View
        PROVE  /\ Reloaded(m)[v] \in Hook
               /\ owed'[v] \in Nat /\ missed'[v] \in SUBSET {"dropped", "early"}
               /\ HookInv(Reloaded(m)[v], row, owed'[v], missed'[v])
    <3>1. CASE v \in Touched(m)
      <4>1. /\ Reloaded(m)[v] = Load(hook[v], "refresh")
            /\ owed'[v] = Effect(m) /\ missed'[v] = InTheWay(hook[v])
        BY <1>7, <3>1 DEF Succeed, Reloaded
      <4>2. InTheWay(hook[v]) \in SUBSET {"dropped", "early"}
        BY DEF InTheWay
      <4>3. Effect(m) \in Nat
        BY <1>0 DEF Effect
      <4> QED BY <1>0, <4>1, <4>2, <4>3, ReloadOwes
    <3>2. CASE v \notin Touched(m)
      <4>1. Reloaded(m)[v] = hook[v] /\ owed'[v] = owed[v] /\ missed'[v] = missed[v]
        BY <1>7, <3>2 DEF Succeed, Reloaded
      <4> QED BY <1>0, <4>1 DEF TypeOK
    <3> QED BY <3>1, <3>2
  <2>2. hook' = Reloaded(m) /\ UNCHANGED <<row, exists, staged>>
    BY <1>7 DEF Succeed, tables
  <2>3. hook' \in [View -> Hook]
    BY <2>1, <2>2 DEF Reloaded
  <2>4. owed' \in [View -> Version] /\ missed' \in [View -> SUBSET {"dropped", "early"}]
    BY <1>7, <2>1 DEF Succeed, Version
  <2>5. TypeOK'
    BY <1>0, <1>7, <2>2, <2>3, <2>4 DEF Succeed, TypeOK
  <2> QED BY <2>1, <2>2, <2>5 DEF IInv
<1>8. ASSUME NEW v \in View, Retry(v) PROVE IInv'
  <2>1. Load(hook[v], "retry") \in Hook
        /\ HookInv(Load(hook[v], "retry"), row, owed[v], missed[v])
    BY <1>0, LoadKeeps DEF Mode
  <2>2. hook' = [hook EXCEPT ![v] = Load(hook[v], "retry")]
        /\ UNCHANGED <<tables, mutation, screen, owed, missed>>
    BY <1>0, <1>8 DEF Retry, TypeOK, history
  <2> QED BY <1>0, <2>1, <2>2, HooksChange DEF TypeOK, screen
<1>9. ASSUME Tick PROVE IInv'
  BY <1>0, <1>9, BothKeep, HooksChange DEF Tick, TypeOK, screen, history
<1>10. ASSUME Focus PROVE IInv'
  BY <1>0, <1>10, BothKeep, HooksChange DEF Focus, TypeOK, screen, history
<1>11. ASSUME Wake PROVE IInv'
  BY <1>0, <1>11, BothKeep, HooksChange DEF Wake, TypeOK, screen, history
<1>12. ASSUME Blur \/ Doze \/ Leave PROVE IInv'
  <2>1. CASE Blur
    <3>1. UNCHANGED <<hook, owed, missed>> /\ row' = row
      BY <2>1 DEF Blur, history, tables
    <3>2. TypeOK'
      BY <1>0, <2>1 DEF Blur, TypeOK, history, tables
    <3>3. row <= row'
      BY <1>0, <3>1
    <3> QED BY <3>1, <3>2, <3>3, HooksUnchanged
  <2>2. CASE Doze
    <3>1. UNCHANGED <<hook, owed, missed>> /\ row' = row
      BY <2>2 DEF Doze, history, tables
    <3>2. TypeOK'
      BY <1>0, <2>2 DEF Doze, TypeOK, history, tables
    <3>3. row <= row'
      BY <1>0, <3>1
    <3> QED BY <3>1, <3>2, <3>3, HooksUnchanged
  <2>3. CASE Leave
    <3>1. UNCHANGED <<hook, owed, missed>> /\ row' = row
      BY <2>3 DEF Leave, history, tables
    <3>2. TypeOK'
      BY <1>0, <2>3 DEF Leave, TypeOK, history, tables
    <3>3. row <= row'
      BY <1>0, <3>1
    <3> QED BY <3>1, <3>2, <3>3, HooksUnchanged
  <2> QED BY <1>12, <2>1, <2>2, <2>3
<1>13. ASSUME UNCHANGED vars PROVE IInv'
  BY <1>0, <1>13, HooksUnchanged DEF vars, TypeOK
<1> QED
  BY <1>1, <1>2, <1>3, <1>4, <1>5, <1>6, <1>7, <1>8, <1>9, <1>10, <1>11, <1>12, <1>13,
     <1>14, <1>15
  DEF Next, Backend, App, User

\* The inductive invariant of both views holds in every reachable state, for any
\* number of changes, requests and presses.
THEOREM Invariance == Spec => []IInv
<1> QED BY InitInv, NextInv, PTL DEF Spec

\* A view that shows a spinner has a request in flight that will end it.
THEOREM SpinnerTheorem == Spec => []SpinnerHasRequest
<1>1. IInv => SpinnerHasRequest
  BY DEF IInv, HookInv, SpinnerOK, SpinnerHasRequest
<1> QED BY <1>1, Invariance, PTL

\* A view without data is loading or shows an error.
THEOREM ShownTheorem == Spec => []SomethingIsShown
<1>1. IInv => SomethingIsShown
  BY DEF IInv, HookInv, ShownOK, SomethingIsShown
<1> QED BY <1>1, Invariance, PTL

\* After a button has succeeded its effect will be shown, or a failure to load it,
\* unless the reload was dropped or a request was answered before the effect was
\* committed; whether the commit comes before the answer to the button or after it,
\* or fails.
THEOREM EffectTheorem == Spec => []EffectIsShown
<1>1. IInv => EffectIsShown
  BY DEF IInv, HookInv, EffectOK, WillShow, EffectIsShown, ShowsOrWill
<1> QED BY <1>1, Invariance, PTL

\* No view ever goes back to an older state, or to none.
THEOREM OrderTheorem == Spec => NeverOlder
<1> DEFINE Kept(v) == hook[v].data # Null
                        => hook'[v].data # Null /\ hook'[v].data >= hook[v].data
<1>1. ASSUME IInv, [Next]_vars, NEW v \in View PROVE Kept(v)
  <2>0. /\ hook[v] \in Hook /\ owed[v] \in Nat /\ row \in Nat
        /\ HookInv(hook[v], row, owed[v], missed[v])
        /\ hook \in [View -> Hook]
        /\ hook[v].data # Null => hook[v].data \in Nat
    BY <1>1 DEF IInv, TypeOK, Hook, Version
  <2>1. ASSUME hook'[v].data = hook[v].data PROVE Kept(v)
    BY <2>0, <2>1
  <2>2. \A h \in Hook : \A mode : Load(h, mode).data = h.data
    BY DEF Load, Begun, Indicated, Hook
  <2>3. ASSUME NEW w \in View, NEW r \in hook[w].requests, Reply(w, r) PROVE Kept(v)
    <3>1. CASE w = v
      <4>1. hook'[v] = Answered(hook[v], r) /\ r.answer # Null
        BY <2>0, <2>3, <3>1 DEF Reply
      <4> QED BY <2>0, <2>3, <3>1, <4>1, AnsweredKeeps
    <3>2. CASE w # v
      BY <2>0, <2>1, <2>3, <3>2 DEF Reply
    <3> QED BY <3>1, <3>2
  <2>4. ASSUME NEW w \in View, NEW r \in hook[w].requests, Serve(w, r) \/ Lose(w, r)
        PROVE  Kept(v)
    BY <2>0, <2>1, <2>4 DEF Serve, Lose, Hook
  <2>5. ASSUME NEW m \in Mutation, Succeed(m) PROVE Kept(v)
    BY <2>0, <2>1, <2>2, <2>5 DEF Succeed, Reloaded
  <2>6. ASSUME NEW w \in View, Retry(w) PROVE Kept(v)
    BY <2>0, <2>1, <2>2, <2>6 DEF Retry
  <2>7. ASSUME Tick \/ Focus \/ Wake PROVE Kept(v)
    <3>1. hook' = BothQuietly \/ hook' = hook
      BY <2>7 DEF Tick, Focus, Wake
    <3> QED BY <2>0, <2>1, <2>2, <3>1 DEF BothQuietly
  <2>8. ASSUME UNCHANGED hook PROVE Kept(v)
    BY <2>1, <2>8
  <2> QED
    BY <1>1, <2>3, <2>4, <2>5, <2>6, <2>7, <2>8
    DEF Next, Backend, App, User, Scan, DeletedElsewhere, Perform, Answer, Refuse, Commit,
        Rollback, Press, GiveUp, Blur, Doze, Leave, vars
<1>2. IInv /\ [Next]_vars => [\A v \in View : Kept(v)]_vars
  BY <1>1
<1> QED BY <1>2, Invariance, PTL DEF Spec, NeverOlder

-----------------------------------------------------------------------------
(* The list. *)

Filters == Filter \cup {Unfiltered}

PageAnswer == [items : Seq(Nat), total : Nat]

PageRequest ==
    [mode   : {"initial", "refresh", "more", "auto"},
     filter : Filters,
     limit  : Nat,
     offset : Nat,
     answer : PageAnswer \cup {Null, Failed},
     moved  : BOOLEAN]

Got(r) == r.answer \notin {Null, Failed}

ListTypeOK ==
    /\ stock \in Seq(Nat) /\ discovered \in Nat
    /\ applied \in Filters
    /\ items \in Seq(Nat)
    /\ requests \in SUBSET PageRequest
    /\ unfetched \in BOOLEAN

\* inFlightRef lets one request through, and knows when there is none.
OneAtATime ==
    /\ inFlight \in BOOLEAN
    /\ inFlight => \E r \in requests : requests = {r}
    /\ ~inFlight => requests = {}

\* What a request asks for goes with the list it was made for.
AsksForThis ==
    \A r \in requests :
        /\ r.offset = IF r.mode = "more" THEN Len(items) ELSE 0
        /\ ~unfetched => r.filter = applied
        /\ ~unfetched /\ r.mode # "initial" => from = {applied}

\* What it got is still so, unless marked; the mark is never newer than the list's.
GotWhatIsThere ==
    \A r \in requests :
        /\ Got(r) /\ ~r.moved => r.answer = List!Page(r)
        /\ r.moved => moved

ItemsFit ==
    /\ ~inFlight /\ ~unfetched => from = {applied}
    /\ \A f \in Filters : from = {f} /\ ~moved => List!Shows(f)
    /\ from = {} => items = <<>>

ListInv ==
    /\ ListTypeOK
    /\ OneAtATime
    /\ List!SpinnerHasRequest
    /\ AsksForThis
    /\ GotWhatIsThere
    /\ ItemsFit
-----------------------------------------------------------------------------
\* Every set of numbers that is not empty has a least element.
LEMMA LeastNat ==
  ASSUME NEW T, T \subseteq Nat, T # {}
  PROVE  \E n \in T : \A m \in T : n <= m
  <1> DEFINE R == OpToRel(<, Nat)
  <1>1. IsWellFoundedOn(R, Nat)
    BY NatLessThanWellFounded
  <1>2. \A m, n \in Nat : m < n => <<m, n>> \in R
    BY DEF OpToRel
  <1> HIDE DEF R
  <1>3. PICK n \in T : \A m \in T : ~ (<<m, n>> \in R)
    BY <1>1, WFMin
  <1>4. ASSUME NEW m \in T PROVE n <= m
    <2>1. m \in Nat /\ n \in Nat
      OBVIOUS
    <2>2. ~ (m < n)
      BY <1>2, <1>3, <2>1
    <2> QED BY <2>1, <2>2
  <1> QED
    BY <1>4

\* One step of the recursion.
Step(s, f, g, n) ==
    IF n = 0 THEN <<>>
    ELSE IF s[n] \in f THEN Append(g[n - 1], s[n]) ELSE g[n - 1]

Computes(s, f, g, k) == g = [n \in 0..k |-> Step(s, f, g, n)]

\* There is a function that the recursion of Result describes: were there a length
\* for which there is none, the least such length would do with one step more.
LEMMA Defined ==
  ASSUME NEW S, NEW s \in Seq(S), NEW f, NEW k \in Nat
  PROVE  \E g : Computes(s, f, g, k)
  <1> DEFINE Bad == {n \in Nat : ~ \E g : Computes(s, f, g, n)}
  <1>1. 0 \notin Bad
    <2>1. Computes(s, f, [n \in 0..0 |-> <<>>], 0)
      BY DEF Computes, Step
    <2> QED BY <2>1
  <1>2. ASSUME NEW n \in Nat, n \notin Bad
        PROVE  (n + 1) \notin Bad
    <2>1. PICK g : Computes(s, f, g, n)
      BY <1>2
    <2> DEFINE h == [i \in 0..(n + 1) |-> IF i = n + 1 THEN Step(s, f, g, n + 1) ELSE g[i]]
    <2>2. \A i \in 0..n : h[i] = g[i]
      OBVIOUS
    <2>3. ASSUME NEW i \in 0..(n + 1)
          PROVE  h[i] = Step(s, f, h, i)
      <3>1. CASE i = n + 1
        <4>1. h[i] = Step(s, f, g, i) /\ h[i - 1] = g[i - 1]
          BY <3>1, <2>2
        <4> QED BY <4>1 DEF Step
      <3>2. CASE i = 0
        BY <3>2, <2>1 DEF Computes, Step
      <3>3. CASE i \in 1..n
        <4>1. h[i] = g[i] /\ h[i - 1] = g[i - 1]
          BY <3>3, <2>2
        <4>2. g[i] = Step(s, f, g, i)
          BY <3>3, <2>1 DEF Computes
        <4> QED BY <4>1, <4>2 DEF Step
      <3> QED BY <3>1, <3>2, <3>3
    <2>4. h = [i \in 0..(n + 1) |-> Step(s, f, h, i)]
      BY <2>3
    <2> HIDE DEF h
    <2> QED BY <2>4 DEF Computes
  <1>3. Bad = {}
    <2> SUFFICES ASSUME Bad # {} PROVE FALSE
      OBVIOUS
    <2>1. PICK n \in Bad : \A m \in Bad : n <= m
      <3> HIDE DEF Bad
      <3>1. Bad \subseteq Nat
        BY DEF Bad
      <3> QED BY <3>1, LeastNat
    <2>2. n \in Nat /\ n # 0
      BY <1>1
    <2>3. n - 1 \in Nat /\ n - 1 \notin Bad
      BY <2>1, <2>2
    <2> HIDE DEF Bad
    <2>4. ((n - 1) + 1) \notin Bad
      BY <1>2, <2>3
    <2> QED BY <2>2, <2>4
  <1> QED BY <1>3

\* Result is a sequence, whatever the filter.
LEMMA ResultType ==
  ASSUME stock \in Seq(Nat), NEW f
  PROVE  List!Result(f) \in Seq(Nat)
  <1> DEFINE g == CHOOSE g : Computes(stock, f, g, Len(stock))
  <1>1. Computes(stock, f, g, Len(stock))
    BY Defined
  <1>2. List!Result(f) = g[Len(stock)]
    BY DEF List!Result, Computes, Step
  <1> HIDE DEF g
  <1> DEFINE Bad == {n \in 0..Len(stock) : g[n] \notin Seq(Nat)}
  <1>3. Bad = {}
    <2> SUFFICES ASSUME Bad # {} PROVE FALSE
      OBVIOUS
    <2>1. PICK n \in Bad : \A m \in Bad : n <= m
      <3> HIDE DEF Bad
      <3>1. Bad \subseteq Nat
        BY DEF Bad
      <3> QED BY <3>1, LeastNat
    <2>2. g[n] = Step(stock, f, g, n)
      BY <1>1 DEF Computes
    <2>5. g[n] \notin Seq(Nat)
      OBVIOUS
    <2>3. CASE n = 0
      <3>1. g[n] = <<>>
        BY <2>2, <2>3 DEF Step
      <3> QED BY <3>1, <2>5
    <2>4. CASE n # 0
      <3>1. n - 1 \in 0..Len(stock) /\ g[n - 1] \in Seq(Nat) /\ stock[n] \in Nat
        BY <2>1, <2>4
      <3>2. g[n] = IF stock[n] \in f THEN Append(g[n - 1], stock[n]) ELSE g[n - 1]
        BY <2>2, <2>4 DEF Step
      <3>3. g[n] \in Seq(Nat)
        BY <3>1, <3>2
      <3> QED BY <3>3, <2>5
    <2> QED BY <2>3, <2>4
  <1> QED BY <1>2, <1>3

-----------------------------------------------------------------------------
\* What the backend returns.

LEMMA PageType ==
  ASSUME ListTypeOK, NEW r \in PageRequest
  PROVE  List!Page(r) \in PageAnswer \cup {Null, Failed}
  <1>1. CASE r.limit > MaxLimit
    BY <1>1 DEF List!Page
  <1>2. CASE ~ (r.limit > MaxLimit)
    <2> DEFINE res == List!Result(r.filter)
    <2>1. res \in Seq(Nat)
      BY ResultType DEF ListTypeOK
    <2> HIDE DEF res
    <2> DEFINE m == r.offset + 1
               n == List!Smaller(r.offset + r.limit, Len(res))
    <2>2. m \in Int /\ n \in Int /\ m >= 1 /\ n <= Len(res) /\ Len(res) \in Nat
      BY <2>1 DEF List!Smaller, PageRequest
    <2> HIDE DEF m, n
    <2>3. \A i \in m..n : res[i] \in Nat
      BY <2>1, <2>2
    <2>4. SubSeq(res, m, n) \in Seq(Nat)
      BY <2>2, <2>3, SubSeqProperties
    <2>5. List!Page(r) = [items |-> SubSeq(res, m, n), total |-> Len(res)]
      BY <1>2 DEF List!Page, m, n, res
    <2> QED BY <2>2, <2>4, <2>5 DEF PageAnswer
  <1> QED BY <1>1, <1>2

\* It depends on nothing but the stock and what is asked for.
LEMMA PageStays ==
  ASSUME UNCHANGED stock
  PROVE  /\ \A f : List!Result(f)' = List!Result(f)
         /\ \A r : List!Page(r)' = List!Page(r)
         /\ items' = items /\ total' = total => \A f : List!Shows(f)' = List!Shows(f)
  <1>1. \A f : List!Result(f)' = List!Result(f)
    BY DEF List!Result
  <1>2. \A r : List!Page(r)' = List!Page(r)
    BY <1>1 DEF List!Page, List!Smaller
  <1>3. items' = items /\ total' = total => \A f : List!Shows(f)' = List!Shows(f)
    BY <1>1 DEF List!Shows
  <1> QED BY <1>1, <1>2, <1>3

\* A page from the start is the beginning of the result.
LEMMA FirstPage ==
  ASSUME ListTypeOK, NEW r \in PageRequest, r.offset = 0, ~ (r.limit > MaxLimit)
  PROVE  LET p == List!Page(r)
             res == List!Result(r.filter)
         IN  /\ Len(p.items) <= Len(res)
             /\ p.items = SubSeq(res, 1, Len(p.items))
             /\ p.total = Len(res)
  <1> DEFINE res == List!Result(r.filter)
  <1>1. res \in Seq(Nat)
    BY ResultType DEF ListTypeOK
  <1> HIDE DEF res
  <1> DEFINE n == List!Smaller(r.limit, Len(res))
  <1>2. n \in Nat /\ n <= Len(res) /\ Len(res) \in Nat
    BY <1>1 DEF List!Smaller, PageRequest
  <1>3. List!Page(r) = [items |-> SubSeq(res, 1, n), total |-> Len(res)]
    <2>1. r.offset + 1 = 1 /\ r.offset + r.limit = r.limit
      BY DEF PageRequest
    <2> QED BY <2>1 DEF List!Page, res
  <1> HIDE DEF n
  <1>4. \A i \in 1..n : res[i] \in Nat
    BY <1>1, <1>2
  <1>5. Len(SubSeq(res, 1, n)) = n
    BY <1>2, <1>4, SubSeqProperties
  <1> QED BY <1>2, <1>3, <1>5 DEF res

\* The next page continues what is shown.
LEMMA NextPage ==
  ASSUME ListTypeOK, NEW r \in PageRequest, r.offset = Len(items), ~ (r.limit > MaxLimit),
         Len(items) <= Len(List!Result(r.filter)),
         items = SubSeq(List!Result(r.filter), 1, Len(items))
  PROVE  LET p == List!Page(r)
             res == List!Result(r.filter)
         IN  /\ Len(items \o p.items) <= Len(res)
             /\ items \o p.items = SubSeq(res, 1, Len(items \o p.items))
             /\ p.total = Len(res)
  <1> DEFINE res == List!Result(r.filter)
             k   == Len(items)
  <1>1. res \in Seq(Nat) /\ k \in Nat
    BY ResultType DEF ListTypeOK
  <1>2. k <= Len(res) /\ items = SubSeq(res, 1, k)
    OBVIOUS
  <1> HIDE DEF res
  <1> DEFINE n == List!Smaller(k + r.limit, Len(res))
  <1>3. n \in Nat /\ k <= n /\ n <= Len(res) /\ Len(res) \in Nat
    BY <1>1, <1>2 DEF List!Smaller, PageRequest
  <1>4. List!Page(r) = [items |-> SubSeq(res, k + 1, n), total |-> Len(res)]
    BY DEF List!Page, res
  <1> HIDE DEF n, k
  <1>5. SubSeq(res, 1, k) \o SubSeq(res, k + 1, n) = SubSeq(res, 1, n)
    <2>1. 1 \in 1..(Len(res) + 1) /\ k \in (1 - 1)..Len(res) /\ n \in k..Len(res)
      BY <1>1, <1>3
    <2> QED BY <1>1, <2>1, ConcatAdjacentSubSeq
  <1>6. \A i \in 1..n : res[i] \in Nat
    BY <1>1, <1>3
  <1>7. Len(SubSeq(res, 1, n)) = n
    BY <1>3, <1>6, SubSeqProperties
  <1>8. items \o List!Page(r).items = SubSeq(res, 1, n)
    <2> DEFINE next == SubSeq(res, k + 1, n)
               all  == Len(res)
    <2>0. List!Page(r) = [items |-> next, total |-> all]
      BY <1>4
    <2> HIDE DEF next, all
    <2>3. List!Page(r).items = next
      BY ONLY <2>0
    <2>1. List!Page(r).items = SubSeq(res, k + 1, n)
      BY <2>3 DEF next
    <2> QED BY <1>2, <1>5, <2>1, Zenon
  <1>9. Len(items \o List!Page(r).items) = n
    BY <1>7, <1>8, Zenon
  <1>10. List!Page(r).total = Len(res)
    BY ONLY <1>4
  <1>11. /\ Len(items \o List!Page(r).items) <= Len(res)
         /\ items \o List!Page(r).items = SubSeq(res, 1, Len(items \o List!Page(r).items))
    BY <1>3, <1>8, <1>9, Zenon
  <1> QED BY <1>10, <1>11, Zenon DEF res

-----------------------------------------------------------------------------
\* The backend answers, or the request is lost.
LEMMA Answering ==
  ASSUME ListInv, NEW r \in requests, r.answer = Null,
         NEW a \in PageAnswer \cup {Null, Failed}, a = List!Page(r) \/ a = Failed,
         requests' = List!With(r, a),
         UNCHANGED <<stock, discovered, applied, List!list, List!indicators, inFlight, listFocused, List!history>>
  PROVE  ListInv'
  <1> DEFINE q == [r EXCEPT !.answer = a]
  <1>1. r \in PageRequest /\ requests = {r}
    BY DEF ListInv, ListTypeOK, OneAtATime
  <1>2. requests' = {q}
    BY <1>1 DEF List!With
  <1>3. /\ q \in PageRequest /\ q.answer = a
        /\ q.mode = r.mode /\ q.filter = r.filter /\ q.limit = r.limit
        /\ q.offset = r.offset /\ q.moved = r.moved
    BY <1>1 DEF PageRequest
  <1> HIDE DEF q
  <1>4. UNCHANGED <<stock, discovered, applied, items, total, loading, refreshing,
                    loadingMore, inFlight, moved, from, unfetched>>
    BY DEF List!list, List!indicators, List!history
  <1>5. ListTypeOK'
    BY <1>2, <1>3, <1>4 DEF ListInv, ListTypeOK
  <1>6. OneAtATime' /\ List!SpinnerHasRequest'
    BY <1>1, <1>2, <1>3, <1>4 DEF ListInv, OneAtATime, List!SpinnerHasRequest
  <1>7. AsksForThis'
    BY <1>2, <1>3, <1>4 DEF ListInv, AsksForThis
  <1>8. GotWhatIsThere'
    <2>1. List!Page(q)' = List!Page(r)
      <3>1. List!Page(q)' = List!Page(q)
        BY <1>4, PageStays
      <3>2. List!Page(q) = List!Page(r)
        BY <1>3 DEF List!Page
      <3> QED BY <3>1, <3>2
    <2>2. Got(q) => q.answer = List!Page(r)
      BY <1>3 DEF Got
    <2>3. q.moved => moved'
      BY <1>3, <1>4 DEF ListInv, GotWhatIsThere
    <2> QED BY <1>2, <2>1, <2>2, <2>3 DEF GotWhatIsThere, Got
  <1>9. ItemsFit'
    BY <1>4, PageStays DEF ListInv, ItemsFit
  <1> QED BY <1>5, <1>6, <1>7, <1>8, <1>9 DEF ListInv

\* Listings come and go.
LEMMA Moving ==
  ASSUME ListInv, stock' \in Seq(Nat), discovered' \in Nat, List!Moved,
         UNCHANGED <<applied, List!list, List!indicators, inFlight, listFocused, from, unfetched>>
  PROVE  ListInv'
  <1> DEFINE After(r) == IF r.answer = Null THEN r ELSE [r EXCEPT !.moved = TRUE]
  <1>1. requests' = {After(r) : r \in requests} /\ moved' = TRUE
    BY DEF List!Moved
  <1>2. UNCHANGED <<applied, items, total, loading, refreshing,
                    loadingMore, inFlight, from, unfetched>>
    BY DEF List!list, List!indicators
  <1>3. \A r \in requests :
           /\ After(r) \in PageRequest
           /\ After(r).mode = r.mode /\ After(r).filter = r.filter
           /\ After(r).offset = r.offset
           /\ After(r).answer = Null \/ After(r).moved
    BY DEF ListInv, ListTypeOK, PageRequest
  <1> HIDE DEF After
  <1>4. ListTypeOK'
    BY <1>1, <1>2, <1>3 DEF ListInv, ListTypeOK
  <1>5. OneAtATime'
    <2>1. CASE inFlight
      <3>1. PICK r \in requests : requests = {r}
        BY <2>1 DEF ListInv, OneAtATime
      <3>2. requests' = {After(r)}
        BY <1>1, <3>1
      <3> QED BY <1>2, <2>1, <3>2 DEF ListInv, OneAtATime
    <2>2. CASE ~inFlight
      BY <1>1, <1>2, <2>2 DEF ListInv, OneAtATime
    <2> QED BY <2>1, <2>2
  <1>6. List!SpinnerHasRequest'
    BY <1>1, <1>2, <1>3 DEF ListInv, List!SpinnerHasRequest
  <1>7. AsksForThis'
    BY <1>1, <1>2, <1>3 DEF ListInv, AsksForThis
  <1>8. GotWhatIsThere'
    BY <1>1, <1>3 DEF GotWhatIsThere, Got
  <1>9. ItemsFit'
    BY <1>1, <1>2 DEF ListInv, ItemsFit
  <1> QED BY <1>4, <1>5, <1>6, <1>7, <1>8, <1>9 DEF ListInv

\* A request is made, when none is in flight.
LEMMA Asking ==
  ASSUME ListInv, List!Free, NEW q \in PageRequest, q.answer = Null, ~ q.moved,
         requests' = requests \cup {q}, inFlight' = TRUE,
         q.mode = "auto" => UNCHANGED <<loading, refreshing, loadingMore>>,
         q.offset = IF q.mode = "more" THEN Len(items) ELSE 0,
         applied' = q.filter, q.mode # "initial" => UNCHANGED applied,
         UNCHANGED <<stock, discovered, List!list, List!history>>
  PROVE  ListInv'
  <1>1. requests' = {q} /\ q \in requests'
    BY DEF ListInv, OneAtATime, List!Free
  <1>2. UNCHANGED <<stock, discovered, items, total, moved, from, unfetched>>
    BY DEF List!list, List!history
  <1>3. ListTypeOK'
    BY <1>1, <1>2 DEF ListInv, ListTypeOK, PageRequest
  <1>4. OneAtATime'
    BY <1>1 DEF OneAtATime
  <1>5. List!SpinnerHasRequest'
    <2>1. ~ (loading \/ refreshing \/ loadingMore)
      BY DEF ListInv, List!SpinnerHasRequest, OneAtATime, List!Free
    <2> QED BY <1>1, <2>1 DEF List!SpinnerHasRequest
  <1>6. AsksForThis'
    <2>1. ~unfetched => from = {applied}
      BY DEF ListInv, ItemsFit, List!Free
    <2> QED BY <1>1, <1>2, <2>1 DEF AsksForThis
  <1>7. GotWhatIsThere'
    BY <1>1 DEF GotWhatIsThere, Got
  <1>8. ItemsFit'
    BY <1>2, PageStays DEF ListInv, ItemsFit
  <1> QED BY <1>3, <1>4, <1>5, <1>6, <1>7, <1>8 DEF ListInv

\* What loadPage and refreshQuietly do with the answer.
LEMMA Replying ==
  ASSUME ListInv, NEW r \in requests, List!Reply(r)
  PROVE  ListInv'
  <1>1. /\ r \in PageRequest /\ requests = {r} /\ r.answer # Null
        /\ requests' = {} /\ inFlight' = FALSE
    BY DEF List!Reply, List!Ended, ListInv, ListTypeOK, OneAtATime
  <1>2. UNCHANGED <<stock, discovered, applied>>
    BY DEF List!Reply
  <1>3. \A f : List!Result(f)' = List!Result(f)
    BY <1>2, PageStays
  <1>4. /\ r.offset = IF r.mode = "more" THEN Len(items) ELSE 0
        /\ ~unfetched => r.filter = applied
        /\ ~unfetched /\ r.mode # "initial" => from = {applied}
        /\ Got(r) /\ ~r.moved => r.answer = List!Page(r)
        /\ r.moved => moved
    BY DEF ListInv, AsksForThis, GotWhatIsThere
  <1>5. OneAtATime' /\ AsksForThis' /\ GotWhatIsThere'
    BY <1>1 DEF OneAtATime, AsksForThis, GotWhatIsThere
  <1>6. List!SpinnerHasRequest'
    <2>1. CASE r.mode = "auto"
      BY <1>1, <2>1 DEF List!Reply, List!indicators, ListInv, List!SpinnerHasRequest
    <2>2. CASE r.mode # "auto"
      BY <2>2 DEF List!Reply, List!SpinnerHasRequest
    <2> QED BY <2>1, <2>2
  <1>7. CASE r.answer = Failed
    <2>1. /\ UNCHANGED <<items, total, moved, from>>
          /\ unfetched' = (unfetched \/ r.mode = "initial")
      BY <1>7 DEF List!Reply, List!list
    <2>2. ListTypeOK'
      BY <1>1, <1>2, <2>1 DEF ListInv, ListTypeOK
    <2>3. ItemsFit'
      <3>1. \A f : List!Shows(f)' = List!Shows(f)
        BY <1>2, <2>1, PageStays
      <3> QED BY <1>1, <1>2, <1>4, <2>1, <3>1 DEF ListInv, ItemsFit
    <2> QED BY <1>5, <1>6, <2>2, <2>3 DEF ListInv
  <1>8. CASE r.answer # Failed
    <2>1. Got(r) /\ r.answer \in PageAnswer /\ r.filter \in Filters
      BY <1>1, <1>8 DEF Got, PageRequest
    <2>2. items' = List!Merged(r) /\ total' = r.answer.total
      BY <1>8 DEF List!Reply
    <2>3. /\ r.answer.items \in Seq(Nat) /\ items \in Seq(Nat)
          /\ items' \in Seq(Nat)
      BY <2>1, <2>2 DEF List!Merged, PageAnswer, ListInv, ListTypeOK
    <2>4. ListTypeOK'
      <3>1. unfetched' \in BOOLEAN
        <4>1. unfetched' \in {unfetched, unfetched /\ r.filter # applied}
          BY <1>8 DEF List!Reply
        <4> QED BY <4>1, Zenon DEF ListInv, ListTypeOK
      <3> QED BY <1>1, <1>2, <2>3, <3>1 DEF ListInv, ListTypeOK
    <2>5. ~r.moved => r.answer = List!Page(r) /\ ~ (r.limit > MaxLimit)
      BY <1>4, <1>8, <2>1 DEF List!Page
    <2>6. CASE r.mode = "more"
      <3>1. /\ from' = from \cup {r.filter} /\ UNCHANGED <<moved, unfetched>>
            /\ items' = items \o r.answer.items /\ r.offset = Len(items)
        BY <1>4, <1>8, <2>2, <2>6 DEF List!Reply, List!Merged
      <3>2. ~unfetched' => from' = {applied'}
        BY <1>2, <1>4, <2>6, <3>1
      <3>3. ASSUME NEW f \in Filters, from' = {f}, ~moved'
            PROVE  List!Shows(f)'
        <4>1. r.filter = f /\ ~r.moved /\ (from = {} \/ from = {f})
          BY <1>4, <3>1, <3>3
        <4>2. /\ Len(items) <= Len(List!Result(r.filter))
              /\ items = SubSeq(List!Result(r.filter), 1, Len(items))
          <5>1. CASE from = {f}
            BY <3>1, <3>3, <4>1, <5>1 DEF ListInv, ItemsFit, List!Shows
          <5>2. CASE from = {}
            <6>1. items = <<>> /\ Len(items) = 0
              BY <5>2 DEF ListInv, ItemsFit
            <6>2. List!Result(r.filter) \in Seq(Nat)
              BY ResultType DEF ListInv, ListTypeOK
            <6>3. SubSeq(List!Result(r.filter), 1, 0) = <<>>
              BY SubSeqEmpty
            <6> QED BY <6>1, <6>2, <6>3
          <5> QED BY <4>1, <5>1, <5>2
        <4>3. /\ Len(items') <= Len(List!Result(r.filter))
              /\ items' = SubSeq(List!Result(r.filter), 1, Len(items'))
              /\ total' = Len(List!Result(r.filter))
          <5>1. ListTypeOK
            BY DEF ListInv
          <5>2. r.answer = List!Page(r) /\ ~ (r.limit > MaxLimit)
            BY <2>5, <4>1
          <5> QED BY <1>1, <2>2, <3>1, <4>2, <5>1, <5>2, NextPage
        <4> QED BY <1>3, <4>1, <4>3 DEF List!Shows
      <3> QED BY <1>1, <1>5, <1>6, <2>4, <3>1, <3>2, <3>3 DEF ListInv, ItemsFit
    <2>7. CASE r.mode # "more"
      <3>1. /\ from' = {r.filter} /\ moved' = r.moved
            /\ unfetched' = (unfetched /\ r.filter # applied)
            /\ items' = r.answer.items /\ r.offset = 0
        BY <1>4, <1>8, <2>2, <2>7 DEF List!Reply, List!Merged
      <3>2. ~unfetched' => from' = {applied'}
        BY <1>2, <1>4, <3>1
      <3>3. ASSUME NEW f \in Filters, from' = {f}, ~moved'
            PROVE  List!Shows(f)'
        <4>1. r.filter = f /\ ~r.moved
          BY <3>1, <3>3
        <4>2. /\ Len(items') <= Len(List!Result(r.filter))
              /\ items' = SubSeq(List!Result(r.filter), 1, Len(items'))
              /\ total' = Len(List!Result(r.filter))
          <5>1. ListTypeOK
            BY DEF ListInv
          <5>2. r.answer = List!Page(r) /\ ~ (r.limit > MaxLimit)
            BY <2>5, <4>1
          <5> QED BY <1>1, <2>2, <3>1, <5>1, <5>2, FirstPage
        <4> QED BY <1>3, <4>1, <4>2 DEF List!Shows
      <3>4. from' # {}
        BY <3>1
      <3> QED BY <1>1, <1>5, <1>6, <2>4, <3>2, <3>3, <3>4 DEF ListInv, ItemsFit
    <2> QED BY <2>6, <2>7
  <1> QED BY <1>7, <1>8

-----------------------------------------------------------------------------
LEMMA AskType ==
  ASSUME NEW mode \in {"initial", "refresh", "more", "auto"}, NEW f \in Filters,
         NEW limit \in Nat, NEW offset \in Nat
  PROVE  LET q == List!Ask(mode, f, limit, offset)
         IN  /\ q \in PageRequest /\ q.answer = Null /\ ~ q.moved
             /\ q.mode = mode /\ q.filter = f /\ q.offset = offset
  BY DEF List!Ask, PageRequest

\* loadPage, called by a button or by the effect on the filters.
LEMMA Loading ==
  ASSUME PageSize \in Nat, ListInv, List!Free, NEW mode \in {"initial", "refresh", "more"},
         applied' \in Filters, mode # "initial" => UNCHANGED applied,
         List!LoadPage(mode, applied', IF mode = "more" THEN Len(items) ELSE 0),
         UNCHANGED <<stock, discovered, List!list, List!history>>
  PROVE  ListInv'
  <1> DEFINE offset == IF mode = "more" THEN Len(items) ELSE 0
             q      == List!Ask(mode, applied', PageSize, offset)
  <1>1. offset \in Nat
    BY DEF ListInv, ListTypeOK
  <1>2. /\ q \in PageRequest /\ q.answer = Null /\ ~ q.moved
        /\ q.mode = mode /\ q.filter = applied' /\ q.offset = offset
    <2> HIDE DEF offset
    <2>1. mode \in {"initial", "refresh", "more", "auto"}
      OBVIOUS
    <2> QED BY <1>1, <2>1, AskType
  <1>3. requests' = requests \cup {q} /\ inFlight' = TRUE
    BY DEF List!LoadPage
  <1> HIDE DEF q
  <1>4. q.mode # "auto"
    BY <1>2
  <1> QED BY <1>2, <1>3, <1>4, Asking

LEMMA ListInitially ==
  ASSUME PageSize \in Nat, List!Init
  PROVE  ListInv
  <1> DEFINE q == List!Ask("initial", Unfiltered, PageSize, 0)
  <1>1. /\ q \in PageRequest /\ q.answer = Null /\ ~ q.moved
        /\ q.mode = "initial" /\ q.filter = Unfiltered /\ q.offset = 0
    BY AskType DEF Filters
  <1>2. /\ stock = <<>> /\ discovered = 0 /\ applied = Unfiltered /\ items = <<>>
        /\ inFlight = TRUE /\ requests = {q} /\ from = {} /\ unfetched = FALSE
    BY DEF List!Init
  <1> HIDE DEF q
  <1>3. ListTypeOK
    <2>1. <<>> \in Seq(Nat) /\ 0 \in Nat /\ {q} \in SUBSET PageRequest
      BY <1>1
    <2> QED BY <1>2, <2>1 DEF ListTypeOK, Filters
  <1>5. OneAtATime
    BY <1>1, <1>2 DEF OneAtATime
  <1>6. List!SpinnerHasRequest
    BY <1>1, <1>2 DEF List!SpinnerHasRequest
  <1>4. AsksForThis /\ GotWhatIsThere /\ ItemsFit
    BY <1>1, <1>2 DEF AsksForThis, GotWhatIsThere, Got, ItemsFit
  <1> QED BY <1>3, <1>4, <1>5, <1>6 DEF ListInv

LEMMA ListStuttering ==
  ASSUME ListInv,
         UNCHANGED <<stock, discovered, applied, items, total, loading, refreshing,
                     loadingMore, inFlight, requests, moved, from, unfetched>>
  PROVE  ListInv'
  <1>1. ListTypeOK' /\ OneAtATime' /\ List!SpinnerHasRequest' /\ AsksForThis'
    BY DEF ListInv, ListTypeOK, OneAtATime, List!SpinnerHasRequest, AsksForThis
  <1>2. GotWhatIsThere' /\ ItemsFit'
    BY PageStays DEF ListInv, GotWhatIsThere, Got, ItemsFit
  <1> QED BY <1>1, <1>2 DEF ListInv

LEMMA ListSteps ==
  ASSUME PageSize \in Nat, ListInv, [List!Next]_(List!vars)
  PROVE  ListInv'
  <1>1. CASE List!Discover
    <2>1. <<discovered + 1>> \in Seq(Nat) /\ stock \in Seq(Nat) /\ discovered + 1 \in Nat
      BY DEF ListInv, ListTypeOK
    <2>2. stock' \in Seq(Nat) /\ discovered' \in Nat
      BY <1>1, <2>1 DEF List!Discover
    <2> QED BY <1>1, <2>2, Moving DEF List!Discover
  <1>2. ASSUME NEW l \in 1..discovered, List!Withdraw(l)
        PROVE  ListInv'
    <2>1. stock' \in Seq(Nat) /\ discovered' \in Nat
      BY <1>2, ResultType DEF List!Withdraw, ListInv, ListTypeOK
    <2> QED BY <1>2, <2>1, Moving DEF List!Withdraw
  <1>3. ASSUME NEW r \in requests, List!Serve(r)
        PROVE  ListInv'
    <2>1. List!Page(r) \in PageAnswer \cup {Null, Failed}
      BY PageType DEF ListInv, ListTypeOK
    <2> QED BY <1>3, <2>1, Answering DEF List!Serve
  <1>4. ASSUME NEW r \in requests, List!Lose(r)
        PROVE  ListInv'
    BY <1>4, Answering DEF List!Lose
  <1>5. ASSUME NEW r \in requests, List!Reply(r)
        PROVE  ListInv'
    BY <1>5, Replying
  <1>6. CASE List!Tick
    <2> DEFINE q == List!Ask("auto", applied, List!Loaded, 0)
    <2>1. List!Loaded \in Nat /\ applied \in Filters
      BY DEF List!Loaded, List!Larger, ListInv, ListTypeOK
    <2>2. /\ q \in PageRequest /\ q.answer = Null /\ ~ q.moved
          /\ q.mode = "auto" /\ q.filter = applied /\ q.offset = 0
      <3> HIDE DEF List!Loaded
      <3> QED BY <2>1, AskType
    <2>3. requests' = requests \cup {q} /\ inFlight' = TRUE /\ List!Free
      BY <1>6 DEF List!Tick, List!LastFilters
    <2>4. UNCHANGED <<stock, discovered, applied, List!list, loading, refreshing,
                      loadingMore, List!history>>
      BY <1>6 DEF List!Tick, List!indicators
    <2> HIDE DEF q
    <2> QED BY <2>2, <2>3, <2>4, Asking
  <1>7. ASSUME NEW f \in Filter, List!Apply(f)
        PROVE  ListInv'
    <2>1. /\ applied' = f /\ f \in Filters
          /\ UNCHANGED <<stock, discovered, List!list, moved, from>>
          /\ unfetched' = (unfetched \/ ~List!Free)
      BY <1>7 DEF List!Apply, Filters
    <2>2. CASE List!Free
      <3>1. UNCHANGED List!history
        BY <2>1, <2>2 DEF List!history, ListInv, ListTypeOK
      <3>2. List!LoadPage("initial", applied', IF "initial" = "more" THEN Len(items) ELSE 0)
        BY <1>7, <2>1 DEF List!Apply
      <3> QED BY <2>1, <2>2, <3>1, <3>2, Loading
    <2>3. CASE ~List!Free
      <3>1. /\ UNCHANGED <<loading, refreshing, loadingMore, inFlight, requests>>
            /\ unfetched' = TRUE /\ inFlight
        BY <1>7, <2>1, <2>3 DEF List!Apply, List!LoadPage, List!indicators, List!Free
      <3>2. UNCHANGED <<stock, discovered, items, total, moved, from>>
        BY <2>1 DEF List!list
      <3>3. ListTypeOK' /\ OneAtATime' /\ List!SpinnerHasRequest'
        BY <2>1, <3>1, <3>2 DEF ListInv, ListTypeOK, OneAtATime, List!SpinnerHasRequest
      <3>4. AsksForThis'
        BY <3>1, <3>2 DEF ListInv, AsksForThis
      <3>5. GotWhatIsThere' /\ ItemsFit'
        BY <3>1, <3>2, PageStays DEF ListInv, GotWhatIsThere, Got, ItemsFit
      <3> QED BY <3>3, <3>4, <3>5 DEF ListInv
    <2> QED BY <2>2, <2>3
  <1>8. ASSUME NEW mode \in {"refresh", "more", "initial"},
               UNCHANGED <<stock, discovered, applied, List!list, listFocused, List!history>>,
               List!LoadPage(mode, applied, IF mode = "more" THEN Len(items) ELSE 0)
        PROVE  ListInv'
    <2>1. CASE List!Free
      <3>1. applied' = applied /\ applied' \in Filters
        BY <1>8 DEF ListInv, ListTypeOK
      <3>2. List!LoadPage(mode, applied', IF mode = "more" THEN Len(items) ELSE 0)
        BY <1>8, <3>1
      <3>3. UNCHANGED <<stock, discovered, List!list, List!history>>
        BY <1>8
      <3>4. mode \in {"initial", "refresh", "more"}
        OBVIOUS
      <3> QED BY <2>1, <3>1, <3>2, <3>3, <3>4, Loading
    <2>2. CASE ~List!Free
      <3>1. UNCHANGED <<stock, discovered, applied, items, total, loading, refreshing,
                        loadingMore, inFlight, requests, moved, from, unfetched>>
        BY <1>8, <2>2 DEF List!LoadPage, List!list, List!indicators, List!history
      <3> QED BY <3>1, ListStuttering
    <2> QED BY <2>1, <2>2
  <1>9. CASE List!PullToRefresh
    <2>1. List!LoadPage("refresh", applied, IF "refresh" = "more" THEN Len(items) ELSE 0)
      BY <1>9 DEF List!PullToRefresh
    <2> QED BY <1>8, <1>9, <2>1 DEF List!PullToRefresh
  <1>10. CASE List!LoadMore
    <2>1. List!LoadPage("more", applied, IF "more" = "more" THEN Len(items) ELSE 0)
      BY <1>10 DEF List!LoadMore
    <2> QED BY <1>8, <1>10, <2>1 DEF List!LoadMore
  <1>11. CASE List!Retry
    <2>1. List!LoadPage("initial", applied, IF "initial" = "more" THEN Len(items) ELSE 0)
      BY <1>11 DEF List!Retry
    <2> QED BY <1>8, <1>11, <2>1 DEF List!Retry
  <1>12. CASE List!Look
    BY <1>12, ListStuttering DEF List!Look, List!list, List!indicators, List!history
  <1>13. CASE UNCHANGED List!vars
    BY <1>13, ListStuttering DEF List!vars
  <1> QED
    BY <1>1, <1>2, <1>3, <1>4, <1>5, <1>6, <1>7, <1>9, <1>10, <1>11, <1>12, <1>13 DEF List!Next

-----------------------------------------------------------------------------
\* IInv is an invariant, whatever the size of a page.
THEOREM ListInvariance == ASSUME PageSize \in Nat PROVE List!Spec => []ListInv
  <1>1. List!Init => ListInv
    BY ListInitially
  <1>2. ListInv /\ [List!Next]_(List!vars) => ListInv'
    BY ListSteps
  <1> QED
    BY <1>1, <1>2, PTL DEF List!Spec

-----------------------------------------------------------------------------
(* Both screens, as the runs use them: one at a time. *)

\* A screen that was left, with everything loaded, satisfies the invariant too.
LEMMA DetailLeftInv == DetailLeft => IInv
<1> SUFFICES ASSUME DetailLeft PROVE IInv
  OBVIOUS
<1> DEFINE h == [Initially EXCEPT !.data = 0, !.loading = FALSE,
                                  !.inFlight = FALSE, !.requests = {}]
<1>1. /\ h \in Hook /\ h.data = 0 /\ h.data # Null /\ ~h.loading /\ ~h.refreshing
      /\ h.inFlight = FALSE /\ h.requests = {}
  <2>1. Initially \in Hook /\ Initially.refreshing = FALSE /\ 0 \in Version
    BY InitiallyIs DEF Version
  <2>2. h \in Hook
    BY <2>1 DEF Hook
  <2>3. /\ h.data = 0 /\ ~h.loading /\ h.inFlight = FALSE /\ h.requests = {}
        /\ h.refreshing = FALSE
    BY <2>1 DEF Hook
  <2> HIDE DEF h
  <2> QED BY <2>2, <2>3, DetailScreenAssumption
<1> HIDE DEF h
<1>2. HookInv(h, 0, 0, {})
  BY <1>1 DEF HookInv, OneRequest, InOrder, SpinnerOK, ShownOK, EffectOK, WillShow
<1>3. hook = [v \in View |-> h]
  BY DEF DetailLeft, h
<1>4. TypeOK
  BY <1>1, <1>3 DEF TypeOK, DetailLeft, Version
<1> QED BY <1>2, <1>3, <1>4 DEF IInv, DetailLeft

LEMMA ListLeftInv == ListLeft => ListInv
<1> SUFFICES ASSUME ListLeft PROVE ListInv
  OBVIOUS
<1>1. /\ stock = <<>> /\ discovered = 0 /\ applied = Unfiltered /\ items = <<>> /\ total = 0
      /\ ~ (loading \/ refreshing \/ loadingMore)
      /\ inFlight = FALSE /\ requests = {} /\ moved = FALSE
      /\ from = {Unfiltered} /\ unfetched = FALSE
  BY DEF ListLeft
<1>2. ListTypeOK /\ OneAtATime /\ List!SpinnerHasRequest /\ AsksForThis /\ GotWhatIsThere
  <2>1. ListTypeOK
    <3>1. <<>> \in Seq(Nat) /\ 0 \in Nat /\ {} \in SUBSET PageRequest /\ FALSE \in BOOLEAN
      OBVIOUS
    <3>2. Unfiltered \in Filters
      BY DEF Filters
    <3> QED BY <1>1, <3>1, <3>2 DEF ListTypeOK
  <2>2. OneAtATime /\ List!SpinnerHasRequest
    BY <1>1 DEF OneAtATime, List!SpinnerHasRequest
  <2>3. AsksForThis /\ GotWhatIsThere
    BY <1>1 DEF AsksForThis, GotWhatIsThere
  <2> QED BY <2>1, <2>2, <2>3
<1>3. from # {}
  BY <1>1
<1>4. \A f \in Filters : from = {f} => List!Shows(f)
  <2> SUFFICES ASSUME NEW f \in Filters PROVE List!Shows(f)
    OBVIOUS
  <2>1. List!Result(f) \in Seq(Nat)
    BY <1>2, ResultType DEF ListTypeOK
  <2>2. List!Result(f) = <<>>
    <3>1. stock \in Seq(Nat) /\ Len(stock) = 0
      BY <1>1
    <3> DEFINE g == CHOOSE g : Computes(stock, f, g, Len(stock))
    <3>2. Computes(stock, f, g, Len(stock))
      <4>1. \E x : Computes(stock, f, x, Len(stock))
        <5>1. Len(stock) \in Nat
          BY <3>1
        <5> QED BY <3>1, <5>1, Defined
      <4> QED BY <4>1
    <3>3. List!Result(f) = g[Len(stock)]
      BY DEF List!Result, Computes, Step
    <3> HIDE DEF g
    <3> QED BY <3>1, <3>2, <3>3 DEF Computes, Step
  <2>3. SubSeq(List!Result(f), 1, 0) = <<>>
    BY SubSeqEmpty
  <2> QED BY <1>1, <2>2, <2>3 DEF List!Shows
<1> QED BY <1>1, <1>2, <1>3, <1>4 DEF ListInv, ItemsFit

\* The two invariants are one of the runs' specification.
LEMMA BothInv == ASSUME PageSize \in Nat PROVE MCSpec => [](IInv /\ ListInv)
<1>1. MCInit => IInv /\ ListInv
  BY InitInv, DetailLeftInv, ListInitially, ListLeftInv DEF MCInit
<1>2. IInv /\ ListInv /\ [MCNext]_<<part, vars, listVars>> => (IInv /\ ListInv)'
  <2> SUFFICES ASSUME IInv, ListInv, [MCNext]_<<part, vars, listVars>>
               PROVE  IInv' /\ ListInv'
    OBVIOUS
  <2>1. ASSUME UNCHANGED listVars PROVE ListInv'
    BY <2>1, ListStuttering DEF listVars
  <2>2. CASE UseDetail
    BY <2>1, <2>2, NextInv DEF UseDetail
  <2>3. CASE UseList
    BY <2>3, NextInv, ListSteps DEF UseList
  <2>4. CASE UNCHANGED <<part, vars, listVars>>
    BY <2>1, <2>4, NextInv
  <2> QED BY <2>2, <2>3, <2>4 DEF MCNext
<1> QED BY <1>1, <1>2, PTL DEF MCSpec

\* On every screen, whenever a spinner is shown a request that will end it is in
\* flight: the request that runs is one whose answer takes the spinner away, for the
\* quiet reload is never made beside it (useAsyncData.ts, ListingsScreen.tsx).
THEOREM NoEndlessSpinner == ASSUME PageSize \in Nat PROVE MCSpec => []SpinnersEnd
<1>1. IInv /\ ListInv => SpinnersEnd
  BY DEF SpinnersEnd, IInv, HookInv, SpinnerOK, SpinnerHasRequest, ListInv
<1> QED BY <1>1, BothInv, PTL

\* With nothing in flight the list is of the filters in force, and its pages fit
\* together, in whatever order the user, the timer and the answers came in, and
\* whether or not a quiet reload is ever refused for its limit (ListingsScreen.tsx).
THEOREM PagesFit == ASSUME PageSize \in Nat PROVE MCSpec => []ListIsTrue
<1>1. ListInv => ListIsTrue
  BY DEF ListInv, ListTypeOK, ItemsFit, ListIsTrue, List!ListIsTrue
<1> QED BY <1>1, BothInv, PTL
=============================================================================
