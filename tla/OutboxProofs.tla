---------------------------- MODULE OutboxProofs ----------------------------
(***************************************************************************)
(* Machine-checked proofs about module Outbox, for every number of rows,   *)
(* users, destinations and workers and all settings.                       *)
(***************************************************************************)
EXTENDS Outbox, TLAPS

-----------------------------------------------------------------------------
(* The helpers return rows.                                                *)

\* The placeholder of a row that was never enqueued has the type of a row.
LEMMA AbsentType == Absent \in Row
  BY OutboxAssumption DEF Absent, Row, Status, Never, Error

\* Forgetting the ages that do not count changes no other column.
LEMMA CanonicalType ==
  ASSUME NEW r \in Row
  PROVE  /\ Canonical(r) \in Row
         /\ Canonical(r).status = r.status
         /\ Canonical(r).user = r.user
         /\ Canonical(r).finder = r.finder
         /\ Canonical(r).attempts = r.attempts
         /\ Canonical(r).error = r.error
  <1> DEFINE c == IF r.status = "processing" THEN r.claimAge ELSE 0
             a == IF r.status # "pending" /\ r.attemptAge # Never THEN 0 ELSE r.attemptAge
  <1>1. c \in 0..(Lease + 1)
    BY OutboxAssumption DEF Row
  <1>2. a \in {Never} \cup 0..NoDestinationRetry
    BY OutboxAssumption DEF Row
  <1>3. Canonical(r) = [r EXCEPT !.claimAge = c, !.attemptAge = a]
    BY DEF Canonical
  <1> HIDE DEF c, a
  <1>4. QED
    BY <1>1, <1>2, <1>3 DEF Row

\* complete() computes legal column values from whatever it read.
LEMMA CompletedType ==
  ASSUME NEW s \in Snapshot, NEW result \in Error \cup {"ok"}
  PROVE  Completed(s, result) \in Snapshot
  <1> DEFINE a == IF s.attempts > 0 THEN s.attempts - 1 ELSE 0
             t == IF s.attempts >= MaxAttempts THEN "failed" ELSE "pending"
  <1>1. a \in Nat /\ t \in Status
    BY DEF Snapshot, Status
  <1>2. CASE result = "ok"
    BY <1>2 DEF Completed, Snapshot, Status
  <1>3. CASE result = "awaiting"
    <2>1. Completed(s, result) =
             [s EXCEPT !.status = "pending", !.attempts = a, !.error = result]
      BY <1>3 DEF Completed
    <2> HIDE DEF a, t
    <2>2. QED
      BY <1>1, <1>3, <2>1 DEF Snapshot, Status, Error
  <1>4. CASE result \notin {"ok", "awaiting"}
    <2>1. Completed(s, result) = [s EXCEPT !.status = t, !.error = result]
      BY <1>4 DEF Completed
    <2> HIDE DEF a, t
    <2>2. QED
      BY <1>1, <1>4, <2>1 DEF Snapshot
  <1>5. QED
    BY <1>2, <1>3, <1>4

\* The partial UPDATE of complete() keeps the columns it does not assign.
LEMMA FlushedType ==
  ASSUME NEW r \in Row, NEW old \in Snapshot, NEW new \in Snapshot
  PROVE  /\ Flushed(r, old, new) \in Row
         /\ Flushed(r, old, new).user = r.user
         /\ Flushed(r, old, new).finder = r.finder
         /\ Flushed(r, old, new).status =
               IF new.status = old.status THEN r.status ELSE new.status
         /\ Flushed(r, old, new).attempts =
               IF new.attempts = old.attempts THEN r.attempts ELSE new.attempts
         /\ Flushed(r, old, new).error =
               IF new.error = old.error THEN r.error ELSE new.error
  <1> DEFINE s == IF new.status = old.status THEN r.status ELSE new.status
             a == IF new.attempts = old.attempts THEN r.attempts ELSE new.attempts
             e == IF new.error = old.error THEN r.error ELSE new.error
             written == [r EXCEPT !.status = s, !.attempts = a, !.error = e,
                                  !.attemptAge = 0]
  <1>1. /\ s \in Status
        /\ a \in Nat
        /\ e \in Error \cup {"null"}
        /\ 0 \in 0..NoDestinationRetry
    BY OutboxAssumption DEF Row, Snapshot
  <1>2. Flushed(r, old, new) = Canonical(written)
    BY DEF Flushed
  <1>3. /\ Flushed(r, old, new).user = Canonical(written).user
        /\ Flushed(r, old, new).finder = Canonical(written).finder
        /\ Flushed(r, old, new).status = Canonical(written).status
        /\ Flushed(r, old, new).attempts = Canonical(written).attempts
        /\ Flushed(r, old, new).error = Canonical(written).error
    BY <1>2
  <1> HIDE DEF s, a, e
  <1>4. /\ written \in Row
        /\ written.user = r.user
        /\ written.finder = r.finder
        /\ written.status = s
        /\ written.attempts = a
        /\ written.error = e
    BY <1>1 DEF Row
  <1> HIDE DEF written
  <1>5. QED
    BY <1>2, <1>3, <1>4, CanonicalType DEF s, a, e

\* A pass works on one row at a time: the query's order is total.
LEMMA CurrentUnique ==
  ASSUME TypeOK, NEW w \in Worker, NEW m, NEW n, Current(w, m), Current(w, n)
  PROVE  m = n
  <1>1. m \in Notification /\ n \in Notification
    BY DEF TypeOK, Current
  <1>2. m \in Nat /\ n \in Nat
    BY <1>1, OutboxAssumption
  <1>3. QED
    BY <1>1, <1>2 DEF Current, Before

-----------------------------------------------------------------------------
(* Type correctness.                                                       *)

\* The empty table is well typed.
LEMMA TypeInit == Init => TypeOK
  BY AbsentType, OutboxAssumption DEF Init, TypeOK, NoSnapshot, Snapshot, Status

\* A pass that ends before its time leaves well-typed local state.
LEMMA EndPassType ==
  ASSUME TypeOK, NEW w \in Worker, EndPass(w), UNCHANGED table
  PROVE  TypeOK'
  BY DEF TypeOK, EndPass, table, NoSnapshot, Snapshot, Status

\* Going on with the next row leaves well-typed local state.
LEMMA NextRowType ==
  ASSUME TypeOK, NEW w \in Worker, NEW n, NextRow(w, n)
  PROVE  /\ batch' \in [Worker -> SUBSET Notification]
         /\ fresh' \in [Worker -> SUBSET Notification]
         /\ todo' \in [Worker -> SUBSET Destination]
         /\ pc' \in [Worker -> {"idle", "resolve", "send", "read", "write"}]
         /\ outcome' \in [Worker -> {"none", "ok"} \cup Error]
         /\ snap' \in [Worker -> Snapshot]
  BY DEF TypeOK, NextRow, NoSnapshot, Snapshot, Status

\* No action of a pass or of a user breaks a type.
LEMMA TypeNext == TypeOK /\ PassShape /\ [Next]_vars => TypeOK'
  <1> SUFFICES ASSUME TypeOK, PassShape, [Next]_vars PROVE TypeOK'
    OBVIOUS
  <1> USE OutboxAssumption
  <1>1. ASSUME NEW n \in Notification, NEW u \in User \cup {NoUser},
               NEW s \in Search \cup {NoSearch}, Enqueue(n, u, s)
        PROVE  TypeOK'
    <2>1. [Absent EXCEPT !.status = "pending", !.user = u, !.finder = s] \in Row
      BY AbsentType DEF Row, Status
    <2>2. QED
      BY <1>1, <2>1 DEF Enqueue, TypeOK, passes, history
  <1>2. ASSUME NEW l \in Listing, DeleteListing(l) PROVE TypeOK'
    <2>1. \A n \in Notification :
             [Absent EXCEPT !.status = "deleted", !.user = row[n].user,
                            !.finder = row[n].finder] \in Row
      BY AbsentType DEF Row, Status, TypeOK
    <2>2. QED
      BY <1>2, <2>1 DEF DeleteListing, TypeOK, passes, history
  <1>3. ASSUME NEW s \in Search, DeleteSearch(s) PROVE TypeOK'
    BY <1>3 DEF DeleteSearch, TypeOK, passes, history
  <1>4. ASSUME NEW u \in User, NEW D \in SUBSET Destination, Reach(u, D) PROVE TypeOK'
    BY <1>4 DEF Reach, TypeOK, passes
  <1>5. ASSUME NEW u \in User, NEW d \in Destination, UnregisterDevice(u, d) PROVE TypeOK'
    BY <1>5 DEF UnregisterDevice, TypeOK, passes, history
  <1>6. ASSUME Tick PROVE TypeOK'
    <2>1. \A r \in Row : r.claimAge <= Lease => [r EXCEPT !.claimAge = @ + 1] \in Row
      BY DEF Row
    <2>2. \A r \in Row : r.attemptAge \in 0..(NoDestinationRetry - 1) =>
              [r EXCEPT !.attemptAge = @ + 1] \in Row
      BY DEF Row, Never
    <2>3. row' \in [Notification -> Row]
      BY <1>6, <2>1, <2>2 DEF Tick, TypeOK
    <2>4. disturbed' \in [Notification -> SUBSET {"crash", "overrun", "lostReply"}]
      BY <1>6 DEF Tick, TypeOK
    <2>5. QED
      BY <1>6, <2>3, <2>4 DEF Tick, TypeOK, passes
  <1>7. ASSUME NEW w \in Worker, ClaimBatch(w) PROVE TypeOK'
    <2> DEFINE taken(r) == [r EXCEPT !.status = "processing", !.claimAge = 0,
                                     !.attempts = @ + 1]
    <2>1. ASSUME NEW r \in Row PROVE Canonical(taken(r)) \in Row
      <3>1. taken(r) \in Row
        <4> DEFINE k == r.attempts + 1
        <4>1. k \in Nat /\ 0 \in 0..(Lease + 1) /\ "processing" \in Status
          BY DEF Row, Status
        <4>2. taken(r) = [r EXCEPT !.status = "processing", !.claimAge = 0, !.attempts = k]
          OBVIOUS
        <4> HIDE DEF k, taken
        <4>3. QED
          BY <4>1, <4>2 DEF Row
      <3> HIDE DEF taken
      <3>2. QED
        BY <3>1, CanonicalType
    <2>2. PICK S \in SUBSET Notification :
            /\ row' = [n \in Notification |->
                         IF n \in S THEN Canonical(taken(row[n])) ELSE row[n]]
            /\ batch' = [batch EXCEPT ![w] = S]
            /\ fresh' = [fresh EXCEPT ![w] = S \cap NeverTried]
      BY <1>7 DEF ClaimBatch
    <2> HIDE DEF taken
    <2>3. row' \in [Notification -> Row]
      BY <2>1, <2>2 DEF TypeOK
    <2>4. QED
      BY <1>7, <2>2, <2>3 DEF ClaimBatch, TypeOK, history
  <1>8. ASSUME NEW w \in Worker, ResolveDestination(w) PROVE TypeOK'
    <2>1. \A n \in Notification : OwnerOf(n) \in User \cup {NoUser}
      BY DEF OwnerOf, TypeOK, Row
    <2>2. QED
      BY <1>8, <2>1 DEF ResolveDestination, Undeliverable, TypeOK, table, history, Error
  <1>9. ASSUME NEW w \in Worker, NEW d \in Destination, Deliver(w, d) PROVE TypeOK'
    BY <1>9 DEF Deliver, Arrives, Delivered, Refused, TypeOK, table, Error
  <1>10. ASSUME NEW w \in Worker, CompleteRead(w) PROVE TypeOK'
    <2>1. PICK n \in batch[w] :
            /\ Current(w, n)
            /\ \/ /\ ~Exists(n)
                  /\ NextRow(w, n)
               \/ /\ Exists(n)
                  /\ snap' = [snap EXCEPT ![w] = [status |-> row[n].status,
                                                  attempts |-> row[n].attempts,
                                                  error |-> row[n].error]]
                  /\ pc' = [pc EXCEPT ![w] = "write"]
                  /\ UNCHANGED <<batch, fresh, todo, outcome>>
      BY <1>10 DEF CompleteRead
    <2>2. CASE NextRow(w, n)
      BY <1>10, <2>2, NextRowType DEF CompleteRead, TypeOK, table, history
    <2>3. CASE ~NextRow(w, n)
      <3>1. [status |-> row[n].status, attempts |-> row[n].attempts,
             error |-> row[n].error] \in Snapshot
        BY DEF TypeOK, Row, Snapshot
      <3>2. QED
        BY <1>10, <2>1, <2>3, <3>1 DEF CompleteRead, TypeOK, table, history
    <2>4. QED
      BY <2>2, <2>3
  <1>11. ASSUME NEW w \in Worker, CompleteWrite(w) PROVE TypeOK'
    <2>1. PICK n \in batch[w] :
            \/ /\ row' = [row EXCEPT ![n] =
                            Flushed(@, snap[w], Completed(snap[w], outcome[w]))]
               /\ NextRow(w, n)
               /\ UNCHANGED history
            \/ /\ EndPass(w)
               /\ UNCHANGED row
      BY <1>11 DEF CompleteWrite
    <2>2. CASE EndPass(w) /\ UNCHANGED row
      BY <1>11, <2>2, EndPassType DEF CompleteWrite, table
    <2>3. CASE ~(EndPass(w) /\ UNCHANGED row)
      <3>1. Flushed(row[n], snap[w], Completed(snap[w], outcome[w])) \in Row
        BY <1>11, CompletedType, FlushedType DEF CompleteWrite, TypeOK, PassShape
      <3>2. row' \in [Notification -> Row]
        BY <2>1, <2>3, <3>1 DEF TypeOK
      <3>3. QED
        BY <1>11, <2>1, <2>3, <3>2, NextRowType DEF CompleteWrite, TypeOK, history
    <2>4. QED
      BY <2>2, <2>3
  <1>12. ASSUME NEW w \in Worker, Abort(w) PROVE TypeOK'
    BY <1>12, EndPassType DEF Abort
  <1>13. CASE UNCHANGED vars
    BY <1>13 DEF vars, TypeOK
  <1>14. QED
    BY <1>1, <1>2, <1>3, <1>4, <1>5, <1>6, <1>7, <1>8, <1>9, <1>10, <1>11, <1>12, <1>13
    DEF Next, Environment, Pass, SetChat, RegisterDevice, TypeOK

-----------------------------------------------------------------------------
(* The inductive invariant, one lemma per action.                          *)

\* The inductive invariant holds before anything is enqueued.
LEMMA InvInit == Init => IInv
  BY TypeInit, OutboxAssumption
  DEF Init, IInv, PassShape, Ownership, FreshSnapshot, NoOrphans, AttemptsLeft,
      GivenUpForCause, SentMeansAccepted, OutcomeIsTrue, ArrivalIsKnown, Absent, Calm

\* Steps that only change who owns what disturb none of it.
LEMMA InvUnchanged ==
  ASSUME IInv, TypeOK', UNCHANGED <<row, passes, accepted, repeated, disturbed>>
  PROVE  IInv'
  <1>1. \A w \in Worker : \A m : Current(w, m)' <=> Current(w, m)
    BY DEF Current, Before, passes
  <1>2. PassShape' /\ Ownership'
    BY DEF IInv, PassShape, Ownership, Undisputed, passes
  <1>3. FreshSnapshot'
    BY <1>1 DEF IInv, FreshSnapshot, Undisputed, Exists, passes
  <1>4. NoOrphans' /\ AttemptsLeft' /\ GivenUpForCause' /\ SentMeansAccepted'
    BY DEF IInv, NoOrphans, AttemptsLeft, GivenUpForCause, SentMeansAccepted, Calm,
           Undisputed, passes
  <1>5. OutcomeIsTrue'
    BY <1>1 DEF IInv, OutcomeIsTrue, passes
  <1>6. ArrivalIsKnown'
    BY <1>1 DEF IInv, ArrivalIsKnown, passes
  <1>7. QED
    BY <1>2, <1>3, <1>4, <1>5, <1>6 DEF IInv

\* A new row is nobody's yet and undisturbed.
LEMMA InvEnqueue ==
  ASSUME IInv, TypeOK', NEW n \in Notification, NEW u, NEW s, Enqueue(n, u, s)
  PROVE  IInv'
  <1> USE OutboxAssumption
  <1>1. /\ row[n].status = "absent"
        /\ \A m \in Notification \ {n} : row'[m] = row[m]
        /\ row'[n].status = "pending" /\ row'[n].attempts = 0
        /\ UNCHANGED <<pc, batch, fresh, todo, outcome, snap, accepted, repeated, disturbed>>
    BY DEF Enqueue, IInv, TypeOK, Absent, passes, history
  <1>2. \A w \in Worker : n \notin batch[w]
    BY <1>1 DEF IInv, Ownership
  <1>3. \A w \in Worker : \A m : Current(w, m)' <=> Current(w, m)
    BY <1>1 DEF Current, Before
  <1>4. PassShape' /\ Ownership'
    BY <1>1, <1>2 DEF IInv, TypeOK, PassShape, Ownership, Undisputed
  <1>5. FreshSnapshot'
    BY <1>1, <1>2, <1>3 DEF IInv, TypeOK, FreshSnapshot, Undisputed, Exists
  <1>6. NoOrphans' /\ AttemptsLeft' /\ GivenUpForCause' /\ SentMeansAccepted'
    BY <1>1 DEF IInv, NoOrphans, AttemptsLeft, GivenUpForCause, SentMeansAccepted, Calm
  <1>7. OutcomeIsTrue'
    BY <1>1, <1>3 DEF IInv, OutcomeIsTrue
  <1>8. ArrivalIsKnown'
    BY <1>1, <1>2, <1>3 DEF IInv, ArrivalIsKnown
  <1>9. QED
    BY <1>4, <1>5, <1>6, <1>7, <1>8 DEF IInv

\* A row deleted under a pass counts as held by it until it notices.
LEMMA InvDeleteListing ==
  ASSUME IInv, TypeOK', NEW l \in Listing, DeleteListing(l)
  PROVE  IInv'
  <1> USE OutboxAssumption
  <1>1. /\ \A m \in Notification :
              \/ row'[m] = row[m]
              \/ /\ row[m].status # "absent"
                 /\ row'[m].status = "deleted"
                 /\ row'[m].attempts = 0 /\ row'[m].claimAge = 0
        /\ UNCHANGED <<pc, batch, fresh, todo, outcome, snap, accepted, repeated, disturbed>>
    BY DEF DeleteListing, Exists, IInv, TypeOK, Absent, passes, history
  <1>2. \A w \in Worker : \A m : Current(w, m)' <=> Current(w, m)
    BY <1>1 DEF Current, Before
  <1>3. PassShape'
    BY <1>1 DEF IInv, PassShape
  <1>4. Ownership'
    BY <1>1 DEF IInv, TypeOK, Ownership, Undisputed
  <1>5. FreshSnapshot'
    <2> SUFFICES ASSUME NEW w \in Worker, NEW n \in batch[w],
                        pc[w] = "write", Current(w, n), Undisputed(n)', Exists(n)'
                 PROVE  snap[w] = [status |-> row'[n].status, attempts |-> row'[n].attempts,
                                   error |-> row'[n].error]
      BY <1>1, <1>2 DEF FreshSnapshot
    <2>1. n \in Notification
      BY DEF IInv, TypeOK
    <2>2. /\ row'[n].status = row[n].status
          /\ row'[n].attempts = row[n].attempts
          /\ row'[n].error = row[n].error
          /\ Exists(n) /\ Undisputed(n)
      BY <1>1, <2>1 DEF Exists, Undisputed
    <2>3. QED
      BY <2>2 DEF IInv, FreshSnapshot
  <1>6. NoOrphans' /\ AttemptsLeft' /\ GivenUpForCause' /\ SentMeansAccepted'
    BY <1>1 DEF TypeOK, Row, IInv, NoOrphans, AttemptsLeft, GivenUpForCause, SentMeansAccepted, Calm
  <1>7. OutcomeIsTrue'
    BY <1>1, <1>2 DEF IInv, OutcomeIsTrue
  <1>8. ArrivalIsKnown'
    BY <1>1, <1>2 DEF IInv, ArrivalIsKnown
  <1>9. QED
    BY <1>3, <1>4, <1>5, <1>6, <1>7, <1>8 DEF IInv

\* The step at which a lease runs out is the one that marks the overrun.
LEMMA InvTick ==
  ASSUME IInv, TypeOK', Tick
  PROVE  IInv'
  <1> USE OutboxAssumption
  <1>1. /\ \A m \in Notification :
              /\ row'[m].status = row[m].status
              /\ row'[m].attempts = row[m].attempts
              /\ row'[m].error = row[m].error
              /\ row'[m].claimAge # row[m].claimAge =>
                    /\ row'[m].claimAge = row[m].claimAge + 1
                    /\ row[m].claimAge = Lease =>
                          \A w \in Worker : m \in batch[w] => "overrun" \in disturbed'[m]
              /\ disturbed[m] \subseteq disturbed'[m]
        /\ UNCHANGED <<pc, batch, fresh, todo, outcome, snap, accepted, repeated>>
    BY DEF Tick, IInv, TypeOK, Row, passes
  <1>2. \A w \in Worker : \A m : Current(w, m)' <=> Current(w, m)
    BY <1>1 DEF Current, Before
  <1>3. PassShape'
    BY <1>1 DEF IInv, PassShape
  <1>4. Ownership'
    BY <1>1 DEF IInv, TypeOK, Row, Ownership, Undisputed
  <1>5. FreshSnapshot'
    <2> SUFFICES ASSUME NEW w \in Worker, NEW n \in batch[w],
                        pc[w] = "write", Current(w, n), Undisputed(n)', Exists(n)'
                 PROVE  snap[w] = [status |-> row'[n].status, attempts |-> row'[n].attempts,
                                   error |-> row'[n].error]
      BY <1>1, <1>2 DEF FreshSnapshot
    <2>1. n \in Notification
      BY DEF IInv, TypeOK
    <2>2. /\ row'[n].status = row[n].status
          /\ row'[n].attempts = row[n].attempts
          /\ row'[n].error = row[n].error
          /\ Exists(n) /\ Undisputed(n)
      BY <1>1, <2>1 DEF Exists, Undisputed
    <2>3. QED
      BY <2>2 DEF IInv, FreshSnapshot
  <1>6. NoOrphans' /\ AttemptsLeft' /\ GivenUpForCause' /\ SentMeansAccepted'
    BY <1>1 DEF TypeOK, Row, IInv, NoOrphans, AttemptsLeft, GivenUpForCause, SentMeansAccepted, Calm
  <1>7. OutcomeIsTrue'
    BY <1>1, <1>2 DEF IInv, OutcomeIsTrue
  <1>8. ArrivalIsKnown'
    BY <1>1, <1>2 DEF IInv, ArrivalIsKnown
  <1>9. QED
    BY <1>3, <1>4, <1>5, <1>6, <1>7, <1>8 DEF IInv

\* A claim takes only rows that nobody holds, unless a lease was overrun.
LEMMA InvClaimBatch ==
  ASSUME IInv, TypeOK', NEW w \in Worker, ClaimBatch(w)
  PROVE  IInv'
  <1> USE OutboxAssumption
  <1> DEFINE taken(r) == [r EXCEPT !.status = "processing", !.claimAge = 0,
                                   !.attempts = @ + 1]
  <1>1. PICK S \in SUBSET Notification :
          /\ S # {}
          /\ \A n \in S : Claimable(n)
          /\ row' = [n \in Notification |->
                       IF n \in S THEN Canonical(taken(row[n])) ELSE row[n]]
          /\ batch' = [batch EXCEPT ![w] = S]
          /\ fresh' = [fresh EXCEPT ![w] = S \cap NeverTried]
    BY DEF ClaimBatch
  <1>2. /\ pc[w] = "idle" /\ batch[w] = {} /\ todo[w] = {} /\ outcome[w] = "none"
        /\ pc' = [pc EXCEPT ![w] = "resolve"]
        /\ UNCHANGED <<todo, outcome, snap, accepted, repeated, disturbed>>
    BY DEF ClaimBatch, IInv, TypeOK, PassShape, history
  <1>3. ASSUME NEW n \in S
        PROVE  /\ row'[n].status = "processing"
               /\ row'[n].attempts = row[n].attempts + 1
               /\ row'[n].claimAge = 0
               /\ row[n].status \in {"pending", "processing"}
               /\ row[n].status = "processing" => row[n].claimAge > Lease
    <2>1. row[n] \in Row /\ row[n].attempts \in Nat
      BY DEF IInv, TypeOK, Row
    <2>2. PICK k \in Nat : k = row[n].attempts + 1
      BY <2>1
    <2>3. taken(row[n]) = [row[n] EXCEPT !.status = "processing", !.claimAge = 0,
                                         !.attempts = k]
      BY <2>2
    <2>4. /\ taken(row[n]) \in Row
          /\ taken(row[n]).status = "processing"
          /\ taken(row[n]).attempts = k
          /\ taken(row[n]).claimAge = 0
      <3> HIDE DEF taken
      <3>1. 0 \in 0..(Lease + 1) /\ "processing" \in Status
        BY DEF Status
      <3>2. QED
        BY <2>1, <2>2, <2>3, <3>1 DEF Row
    <2>5. Canonical(taken(row[n])).claimAge = taken(row[n]).claimAge
      <3> HIDE DEF taken
      <3>1. QED
        BY <2>4 DEF Canonical, Row
    <2>6. row'[n] = Canonical(taken(row[n]))
      BY <1>1
    <2> HIDE DEF taken
    <2>7. QED
      BY <1>1, <2>1, <2>2, <2>4, <2>5, <2>6, CanonicalType DEF Claimable
  <1> HIDE DEF taken
  <1>4. \A n \in Notification \ S : row'[n] = row[n]
    BY <1>1
  <1>5. \A n \in S : Undisputed(n) => \A v \in Worker : n \notin batch[v]
    <2>1. ASSUME NEW n \in S, Undisputed(n), NEW v \in Worker, n \in batch[v]
          PROVE  FALSE
      <3>1. Ownership /\ row[n].claimAge \in 0..(Lease + 1) /\ Lease \in Nat
        BY DEF IInv, TypeOK, Row
      <3>2. row[n].status \in {"processing", "deleted"} /\ row[n].claimAge <= Lease
        BY ONLY <2>1, <3>1 DEF Ownership
      <3>3. row[n].status \in {"pending", "processing"}
            /\ (row[n].status = "processing" => row[n].claimAge > Lease)
        BY <1>3
      <3>4. QED
        BY ONLY <3>1, <3>2, <3>3
    <2>2. QED
      BY <2>1
  <1>6. \A v \in Worker \ {w} : \A m : Current(v, m)' <=> Current(v, m)
    BY <1>1 DEF IInv, TypeOK, Current, Before
  <1>7. \A v \in Worker \ {w} : batch'[v] = batch[v] /\ pc'[v] = pc[v] /\ fresh'[v] = fresh[v]
    BY <1>1, <1>2 DEF IInv, TypeOK
  <1>8. batch'[w] = S /\ pc'[w] = "resolve" /\ fresh'[w] \subseteq S
    BY <1>1, <1>2 DEF IInv, TypeOK
  <1>9. PassShape'
    BY <1>1, <1>2, <1>7, <1>8 DEF IInv, PassShape
  <1>10. Ownership'
    <2> SUFFICES ASSUME NEW v \in Worker, NEW n \in batch'[v]
                 PROVE  /\ row'[n].status # "absent"
                        /\ Undisputed(n) =>
                              /\ row'[n].status \in {"processing", "deleted"}
                              /\ row'[n].claimAge <= Lease
                              /\ \A x \in Worker : n \in batch'[x] => x = v
      BY <1>2 DEF Ownership, Undisputed
    <2>1. n \in Notification
      BY <1>7, <1>8 DEF IInv, TypeOK
    <2>2. CASE n \in S
      BY <1>3, <1>5, <1>7, <1>8, <2>2
    <2>3. CASE n \notin S
      <3>1. v # w /\ n \in batch[v] /\ row'[n] = row[n]
        BY <1>4, <1>7, <1>8, <2>1, <2>3
      <3>2. QED
        BY <1>7, <1>8, <2>3, <3>1 DEF IInv, Ownership
    <2>4. QED
      BY <2>2, <2>3
  <1>11. FreshSnapshot'
    <2> SUFFICES ASSUME NEW v \in Worker, NEW n \in batch'[v], pc'[v] = "write",
                        Current(v, n)', Undisputed(n)', Exists(n)'
                 PROVE  snap'[v] = [status |-> row'[n].status, attempts |-> row'[n].attempts,
                                    error |-> row'[n].error]
      BY DEF FreshSnapshot
    <2>1. v # w /\ n \in batch[v] /\ pc[v] = "write" /\ Current(v, n) /\ Undisputed(n)
      BY <1>2, <1>6, <1>7, <1>8 DEF Undisputed
    <2>2. n \in Notification \ S
      BY <1>5, <2>1 DEF IInv, TypeOK
    <2>3. row'[n] = row[n] /\ Exists(n)
      BY <1>4, <2>2 DEF Exists
    <2>4. QED
      BY <1>2, <2>1, <2>3 DEF IInv, FreshSnapshot
  <1>12. NoOrphans'
    <2> SUFFICES ASSUME NEW n \in Notification, Calm(n), row'[n].status = "processing"
                 PROVE  \E v \in Worker : n \in batch'[v]
      BY <1>2 DEF NoOrphans, Calm
    <2>1. CASE n \in S
      BY <1>8, <2>1
    <2>2. CASE n \notin S
      <3>1. PICK v \in Worker : n \in batch[v]
        BY <1>4, <2>2 DEF IInv, NoOrphans
      <3>2. v # w
        BY <1>2, <3>1
      <3>3. QED
        BY <1>7, <3>1, <3>2
    <2>3. QED
      BY <2>1, <2>2
  <1>13. AttemptsLeft'
    <2> SUFFICES ASSUME NEW n \in Notification, Calm(n)
                 PROVE  /\ row'[n].attempts <= MaxAttempts
                        /\ row'[n].status = "pending" => row'[n].attempts < MaxAttempts
      BY <1>2 DEF AttemptsLeft, Calm
    <2>1. CASE n \in S
      <3>1. \A v \in Worker : n \notin batch[v]
        BY <1>5, <2>1 DEF Calm, Undisputed
      <3>2. row[n].status = "pending"
        BY <1>3, <2>1, <3>1 DEF IInv, NoOrphans
      <3>3. row[n].attempts < MaxAttempts /\ row[n].attempts \in Nat
        BY <3>2 DEF IInv, AttemptsLeft, TypeOK, Row
      <3>4. QED
        BY <1>3, <2>1, <3>3
    <2>2. CASE n \notin S
      BY <1>4, <2>2 DEF IInv, AttemptsLeft
    <2>3. QED
      BY <2>1, <2>2
  <1>14. GivenUpForCause' /\ SentMeansAccepted'
    BY <1>2, <1>3, <1>4 DEF IInv, GivenUpForCause, SentMeansAccepted
  <1>15. OutcomeIsTrue'
    BY <1>2, <1>6, <1>7, <1>8 DEF IInv, OutcomeIsTrue
  <1>16. ArrivalIsKnown'
    <2> SUFFICES ASSUME NEW n \in Notification, disturbed[n] = {}
                 PROVE  /\ repeated[n] = {}
                        /\ accepted[n] # {} => row'[n].status \in {"processing", "sent", "deleted"}
                        /\ \A v \in Worker : n \in batch'[v] =>
                              /\ accepted[n] # {} => Current(v, n)' /\ outcome[v] = "ok"
                              /\ Current(v, n)' => todo[v] \cap accepted[n] = {}
      BY <1>2 DEF ArrivalIsKnown
    <2>1. CASE n \in S
      <3>1. \A v \in Worker : n \notin batch[v]
        BY <1>5, <2>1 DEF Undisputed
      <3>2. row[n].status = "pending"
        BY <1>3, <2>1, <3>1 DEF IInv, NoOrphans, Calm
      <3>3. accepted[n] = {} /\ repeated[n] = {}
        BY <3>2 DEF IInv, ArrivalIsKnown
      <3>4. QED
        BY <3>3
    <2>2. CASE n \notin S
      BY <1>4, <1>6, <1>7, <1>8, <2>2 DEF IInv, ArrivalIsKnown
    <2>3. QED
      BY <2>1, <2>2
  <1>17. QED
    BY <1>9, <1>10, <1>11, <1>12, <1>13, <1>14, <1>15, <1>16 DEF IInv

\* Resolving a destination touches the pass alone.
LEMMA InvResolve ==
  ASSUME IInv, TypeOK', NEW w \in Worker, ResolveDestination(w)
  PROVE  IInv'
  <1>1. /\ pc[w] = "resolve" /\ outcome[w] = "none" /\ batch[w] # {}
        /\ pc' = [pc EXCEPT ![w] = pc'[w]]
        /\ \/ outcome' = [outcome EXCEPT ![w] = "unresolved"] /\ pc'[w] = "read" /\ todo' = todo
           \/ outcome' = [outcome EXCEPT ![w] = "awaiting"] /\ pc'[w] = "read" /\ todo' = todo
           \/ outcome' = outcome /\ pc'[w] = "send" /\ \E D : todo' = [todo EXCEPT ![w] = D]
        /\ UNCHANGED <<row, batch, fresh, snap, accepted, repeated, disturbed>>
    BY DEF ResolveDestination, Undeliverable, IInv, TypeOK, PassShape, table, history
  <1>2. \A v \in Worker : \A m : Current(v, m)' <=> Current(v, m)
    BY <1>1 DEF Current, Before
  <1>3. \A v \in Worker \ {w} :
           pc'[v] = pc[v] /\ outcome'[v] = outcome[v] /\ todo'[v] = todo[v]
    BY <1>1 DEF IInv, TypeOK
  <1>4. pc'[w] \in {"read", "send"} /\ outcome'[w] # "ok" /\ todo[w] = {}
        /\ (pc'[w] = "read" => outcome'[w] # "none" /\ todo'[w] = {})
    BY <1>1 DEF IInv, TypeOK, PassShape
  <1>5. PassShape'
    BY <1>1, <1>3, <1>4 DEF IInv, PassShape
  <1>6. Ownership' /\ NoOrphans' /\ AttemptsLeft' /\ GivenUpForCause' /\ SentMeansAccepted'
    BY <1>1 DEF IInv, Ownership, NoOrphans, AttemptsLeft, GivenUpForCause,
                SentMeansAccepted, Calm, Undisputed
  <1>7. FreshSnapshot'
    BY <1>1, <1>2, <1>3, <1>4 DEF IInv, FreshSnapshot, Undisputed, Exists
  <1>8. OutcomeIsTrue'
    BY <1>1, <1>2, <1>3, <1>4 DEF IInv, OutcomeIsTrue
  <1>9. ArrivalIsKnown'
    <2>1. \A n \in Notification : disturbed[n] = {} /\ n \in batch[w] => accepted[n] = {}
      BY <1>1 DEF IInv, ArrivalIsKnown
    <2>2. QED
      BY <1>1, <1>2, <1>3, <2>1 DEF IInv, ArrivalIsKnown
  <1>10. QED
    BY <1>5, <1>6, <1>7, <1>8, <1>9 DEF IInv

\* A delivery reaches only targets it has not reached before, and remembers
\* every success.
LEMMA InvDeliver ==
  ASSUME IInv, TypeOK', NEW w \in Worker, NEW d \in Destination, Deliver(w, d)
  PROVE  IInv'
  <1>1. PICK n \in batch[w] :
          /\ Current(w, n)
          /\ \/ /\ Arrives(n, d)
                /\ Delivered(w)
                /\ UNCHANGED disturbed
             \/ /\ Refused(w)
                /\ UNCHANGED <<accepted, repeated, disturbed>>
             \/ /\ Arrives(n, d)
                /\ Refused(w)
                /\ disturbed' = [disturbed EXCEPT ![n] = @ \cup {"lostReply"}]
    BY DEF Deliver
  <1>2. n \in Notification
    BY DEF IInv, TypeOK
  <1>3. /\ pc[w] = "send" /\ d \in todo[w]
        /\ pc' = [pc EXCEPT ![w] = IF todo[w] = {d} THEN "read" ELSE "send"]
        /\ todo' = [todo EXCEPT ![w] = @ \ {d}]
        /\ outcome' = [outcome EXCEPT ![w] = outcome'[w]]
        /\ UNCHANGED <<row, batch, fresh, snap>>
    BY <1>1 DEF Deliver, Delivered, Refused, table, IInv, TypeOK
  <1>4. /\ \A m \in Notification \ {n} : /\ accepted'[m] = accepted[m]
                                         /\ repeated'[m] = repeated[m]
                                         /\ disturbed'[m] = disturbed[m]
        /\ accepted[n] \subseteq accepted'[n]
        /\ accepted'[n] \subseteq accepted[n] \cup {d}
        /\ disturbed[n] \subseteq disturbed'[n]
        /\ disturbed'[n] \subseteq disturbed[n] \cup {"lostReply"}
        /\ repeated'[n] # repeated[n] => d \in accepted[n]
        /\ outcome'[w] \in {"ok", "provider"}
        /\ outcome'[w] = "ok" => accepted'[n] # {} \/ outcome[w] = "ok"
        /\ disturbed'[n] = {} /\ accepted'[n] # accepted[n] => outcome'[w] = "ok"
        /\ disturbed'[n] = {} /\ outcome[w] = "ok" => outcome'[w] = "ok"
    <2>1. CASE Arrives(n, d) /\ Delivered(w) /\ UNCHANGED disturbed
      BY <1>2, <2>1 DEF Arrives, Delivered, IInv, TypeOK
    <2>2. CASE Refused(w) /\ UNCHANGED <<accepted, repeated, disturbed>>
      BY <1>2, <2>2 DEF Refused, IInv, TypeOK
    <2>3. CASE /\ Arrives(n, d)
               /\ Refused(w)
               /\ disturbed' = [disturbed EXCEPT ![n] = @ \cup {"lostReply"}]
      BY <1>2, <2>3 DEF Arrives, Refused, IInv, TypeOK
    <2>4. QED
      BY <1>1, <2>1, <2>2, <2>3
  <1>5. \A v \in Worker : \A m : Current(v, m)' <=> Current(v, m)
    BY <1>3 DEF Current, Before
  <1>6. \A v \in Worker \ {w} :
           pc'[v] = pc[v] /\ outcome'[v] = outcome[v] /\ todo'[v] = todo[v]
    BY <1>3 DEF IInv, TypeOK
  <1>7. /\ pc'[w] \in {"send", "read"}
        /\ todo'[w] = todo[w] \ {d}
        /\ todo'[w] # {} => pc'[w] = "send"
    BY <1>3 DEF IInv, TypeOK
  <1>8. \A m \in Notification : /\ Undisputed(m)' <=> Undisputed(m)
                                /\ Calm(m)' <=> Calm(m)
    BY <1>4 DEF Undisputed, Calm
  <1>9. PassShape'
    BY <1>1, <1>3, <1>4, <1>6, <1>7 DEF IInv, PassShape
  <1>10. Ownership'
    BY <1>3, <1>8 DEF IInv, TypeOK, Ownership
  <1>11. FreshSnapshot'
    BY <1>3, <1>5, <1>6, <1>7, <1>8 DEF IInv, TypeOK, FreshSnapshot, Exists
  <1>12. NoOrphans' /\ AttemptsLeft'
    BY <1>3, <1>8 DEF IInv, NoOrphans, AttemptsLeft
  <1>13. GivenUpForCause'
    BY <1>3, <1>8 DEF IInv, GivenUpForCause, Undisputed
  <1>14. SentMeansAccepted'
    BY <1>3, <1>4 DEF IInv, SentMeansAccepted
  <1>15. OutcomeIsTrue'
    <2> SUFFICES ASSUME NEW v \in Worker, NEW m \in batch[v], outcome'[v] = "ok", Current(v, m)
                 PROVE  accepted'[m] # {}
      BY <1>3, <1>5 DEF OutcomeIsTrue
    <2>0. m \in Notification
      BY DEF IInv, TypeOK
    <2>1. CASE v # w
      BY <1>4, <1>6, <2>0, <2>1 DEF IInv, OutcomeIsTrue
    <2>2. CASE v = w
      <3>1. m = n
        BY <1>1, <2>2, CurrentUnique DEF IInv
      <3>2. QED
        BY <1>4, <2>2, <3>1 DEF IInv, OutcomeIsTrue
    <2>3. QED
      BY <2>1, <2>2
  <1>16. ArrivalIsKnown'
    <2> SUFFICES ASSUME NEW m \in Notification, disturbed'[m] = {}
                 PROVE  /\ repeated'[m] = {}
                        /\ accepted'[m] # {} => row[m].status \in {"processing", "sent", "deleted"}
                        /\ \A v \in Worker : m \in batch[v] =>
                              /\ accepted'[m] # {} => Current(v, m) /\ outcome'[v] = "ok"
                              /\ Current(v, m) => todo'[v] \cap accepted'[m] = {}
      BY <1>3, <1>5 DEF ArrivalIsKnown
    <2>1. CASE m = n
      <3>1. disturbed[n] = {}
        BY <1>4, <2>1
      <3>2. d \notin accepted[n] /\ repeated[n] = {} /\ todo[w] \cap accepted[n] = {}
        BY <1>1, <1>2, <1>3, <3>1 DEF IInv, ArrivalIsKnown
      <3>3. \A v \in Worker : n \in batch[v] => v = w
        BY <1>1, <3>1 DEF IInv, Ownership, Undisputed
      <3>4. row[n].status \in {"processing", "deleted"}
        BY <1>1, <3>1 DEF IInv, Ownership, Undisputed
      <3>5. accepted'[n] # {} => outcome'[w] = "ok"
        BY <1>1, <1>2, <1>4, <2>1, <3>1 DEF IInv, ArrivalIsKnown
      <3>6. todo'[w] \cap accepted'[n] = {}
        BY <1>4, <1>7, <3>2
      <3>7. repeated'[n] = {}
        BY <1>4, <3>2
      <3>8. QED
        BY <1>1, <2>1, <3>3, <3>4, <3>5, <3>6, <3>7
    <2>2. CASE m # n
      <3>1. /\ disturbed[m] = {}
            /\ accepted'[m] = accepted[m] /\ repeated'[m] = repeated[m]
        BY <1>4, <2>2
      <3>2. ~Current(w, m)
        BY <1>1, <2>2, CurrentUnique DEF IInv
      <3>3. QED
        BY <1>6, <3>1, <3>2 DEF IInv, ArrivalIsKnown
    <2>3. QED
      BY <2>1, <2>2
  <1>17. QED
    BY <1>9, <1>10, <1>11, <1>12, <1>13, <1>14, <1>15, <1>16 DEF IInv

\* A pass that ends before its time hands nothing on but orphans.
LEMMA InvEndPass ==
  ASSUME IInv, TypeOK', NEW w \in Worker, EndPass(w), UNCHANGED row
  PROVE  IInv'
  <1>1. /\ pc'[w] = "idle" /\ batch'[w] = {} /\ fresh'[w] = {} /\ todo'[w] = {}
        /\ outcome'[w] = "none"
        /\ UNCHANGED <<row, accepted, repeated>>
    BY DEF EndPass, IInv, TypeOK
  <1>2. \A v \in Worker \ {w} :
           /\ pc'[v] = pc[v] /\ batch'[v] = batch[v] /\ fresh'[v] = fresh[v]
           /\ todo'[v] = todo[v] /\ outcome'[v] = outcome[v] /\ snap'[v] = snap[v]
    BY DEF EndPass, IInv, TypeOK
  <1>3. \A n \in Notification :
           /\ Undisputed(n)' <=> Undisputed(n)
           /\ Calm(n)' => Calm(n) /\ n \notin batch[w]
           /\ disturbed'[n] = {} => disturbed[n] = {}
    BY DEF EndPass, Undisputed, Calm, IInv, TypeOK
  <1>4. \A v \in Worker \ {w} : \A m : Current(v, m)' <=> Current(v, m)
    BY <1>2 DEF Current, Before
  <1>5. PassShape'
    BY <1>1, <1>2 DEF IInv, PassShape
  <1>6. Ownership'
    BY <1>1, <1>2, <1>3 DEF IInv, TypeOK, Ownership
  <1>7. FreshSnapshot'
    BY <1>1, <1>2, <1>3, <1>4 DEF IInv, TypeOK, FreshSnapshot, Exists
  <1>8. NoOrphans'
    <2> SUFFICES ASSUME NEW n \in Notification, Calm(n)', row[n].status = "processing"
                 PROVE  \E v \in Worker : n \in batch'[v]
      BY <1>1 DEF NoOrphans
    <2>1. PICK v \in Worker : n \in batch[v]
      BY <1>3 DEF IInv, NoOrphans
    <2>2. v # w
      BY <1>3, <2>1
    <2>3. QED
      BY <1>2, <2>1, <2>2
  <1>9. AttemptsLeft' /\ GivenUpForCause' /\ SentMeansAccepted'
    BY <1>1, <1>3 DEF IInv, AttemptsLeft, GivenUpForCause, SentMeansAccepted, Undisputed
  <1>10. OutcomeIsTrue'
    BY <1>1, <1>2, <1>4 DEF IInv, OutcomeIsTrue
  <1>11. ArrivalIsKnown'
    BY <1>1, <1>2, <1>3, <1>4 DEF IInv, ArrivalIsKnown
  <1>12. QED
    BY <1>5, <1>6, <1>7, <1>8, <1>9, <1>10, <1>11 DEF IInv

\* A pass goes on to the next row after leaving its current row n in a state
\* that needs nobody.
LEMMA InvNextRow ==
  ASSUME IInv, TypeOK', NEW w \in Worker, NEW n \in batch[w], Current(w, n),
         pc[w] # "send", NextRow(w, n), UNCHANGED <<accepted, repeated, disturbed>>,
         \A m \in Notification \ {n} : row'[m] = row[m],
         row'[n].status # "absent",
         row'[n].status = "sent" => accepted[n] # {},
         Undisputed(n) /\ row'[n].status = "failed" =>
            row'[n].attempts >= MaxAttempts /\ row'[n].error \in {"provider", "unresolved"},
         Calm(n) => /\ row'[n].status # "processing"
                    /\ row'[n].attempts <= MaxAttempts
                    /\ row'[n].status = "pending" => row'[n].attempts < MaxAttempts,
         disturbed[n] = {} /\ accepted[n] # {} => row'[n].status \in {"sent", "deleted"}
  PROVE  IInv'
  <1>1. /\ n \in Notification
        /\ pc'[w] \in {"idle", "resolve"}
        /\ pc'[w] = "idle" <=> batch'[w] = {}
        /\ batch'[w] = batch[w] \ {n} /\ fresh'[w] = fresh[w] \ {n}
        /\ todo' = todo /\ todo[w] = {} /\ outcome'[w] = "none"
    BY DEF NextRow, IInv, TypeOK, PassShape
  <1>2. \A v \in Worker \ {w} :
           /\ pc'[v] = pc[v] /\ batch'[v] = batch[v] /\ fresh'[v] = fresh[v]
           /\ outcome'[v] = outcome[v] /\ snap'[v] = snap[v]
    BY DEF NextRow, IInv, TypeOK
  <1>3. \A v \in Worker \ {w} : \A m : Current(v, m)' <=> Current(v, m)
    BY <1>2 DEF Current, Before
  <1>4. Undisputed(n) => \A v \in Worker \ {w} : n \notin batch[v]
    BY DEF IInv, Ownership
  <1>5. \A m \in batch'[w] : disturbed[m] = {} => accepted[m] = {}
    <2> SUFFICES ASSUME NEW m \in batch'[w], disturbed[m] = {}, accepted[m] # {} PROVE FALSE
      OBVIOUS
    <2>1. m \in batch[w] /\ m # n /\ m \in Notification
      BY <1>1 DEF IInv, TypeOK
    <2>2. Current(w, m)
      BY <2>1 DEF IInv, ArrivalIsKnown
    <2>3. QED
      BY <2>1, <2>2, CurrentUnique DEF IInv
  <1>6. PassShape'
    BY <1>1, <1>2 DEF IInv, PassShape
  <1>7. Ownership'
    <2> SUFFICES ASSUME NEW v \in Worker, NEW m \in batch'[v]
                 PROVE  /\ row'[m].status # "absent"
                        /\ Undisputed(m) =>
                              /\ row'[m].status \in {"processing", "deleted"}
                              /\ row'[m].claimAge <= Lease
                              /\ \A x \in Worker : m \in batch'[x] => x = v
      BY DEF Ownership, Undisputed
    <2>1. m \in batch[v] /\ m \in Notification
      BY <1>1, <1>2 DEF IInv, TypeOK
    <2>2. CASE m = n
      <3>1. v # w
        BY <1>1, <2>2
      <3>2. ~Undisputed(m)
        BY <1>4, <2>1, <2>2, <3>1
      <3>3. QED
        BY <2>2, <3>2
    <2>3. CASE m # n
      <3>1. row'[m] = row[m]
        BY <2>1, <2>3
      <3>2. \A x \in Worker : m \in batch'[x] => m \in batch[x]
        BY <1>1, <1>2
      <3>3. QED
        BY <2>1, <3>1, <3>2 DEF IInv, Ownership
    <2>4. QED
      BY <2>2, <2>3
  <1>8. FreshSnapshot'
    <2> SUFFICES ASSUME NEW v \in Worker, NEW m \in batch'[v], pc'[v] = "write",
                        Current(v, m)', Undisputed(m)', Exists(m)'
                 PROVE  snap'[v] = [status |-> row'[m].status, attempts |-> row'[m].attempts,
                                    error |-> row'[m].error]
      BY DEF FreshSnapshot
    <2>1. v # w
      BY <1>1
    <2>2. /\ m \in batch[v] /\ m \in Notification /\ pc[v] = "write" /\ Current(v, m)
          /\ Undisputed(m) /\ snap'[v] = snap[v]
      BY <1>2, <1>3, <2>1 DEF IInv, TypeOK, Undisputed
    <2>3. m # n
      BY <1>4, <2>1, <2>2
    <2>4. row'[m] = row[m] /\ Exists(m)
      BY <2>2, <2>3 DEF Exists
    <2>5. QED
      BY <2>2, <2>4 DEF IInv, FreshSnapshot
  <1>9. NoOrphans'
    <2> SUFFICES ASSUME NEW m \in Notification, Calm(m), row'[m].status = "processing"
                 PROVE  \E v \in Worker : m \in batch'[v]
      BY DEF NoOrphans, Calm
    <2>1. m # n /\ row'[m] = row[m]
      OBVIOUS
    <2>2. PICK v \in Worker : m \in batch[v]
      BY <2>1 DEF IInv, NoOrphans
    <2>3. QED
      BY <1>1, <1>2, <2>1, <2>2
  <1>10. AttemptsLeft' /\ GivenUpForCause' /\ SentMeansAccepted'
    BY DEF IInv, AttemptsLeft, GivenUpForCause, SentMeansAccepted, Calm, Undisputed
  <1>11. OutcomeIsTrue'
    BY <1>1, <1>2, <1>3 DEF IInv, OutcomeIsTrue
  <1>12. ArrivalIsKnown'
    <2> SUFFICES ASSUME NEW m \in Notification, disturbed[m] = {}
                 PROVE  /\ repeated[m] = {}
                        /\ accepted[m] # {} => row'[m].status \in {"processing", "sent", "deleted"}
                        /\ \A v \in Worker : m \in batch'[v] =>
                              /\ accepted[m] # {} => Current(v, m)' /\ outcome'[v] = "ok"
                              /\ Current(v, m)' => todo[v] \cap accepted[m] = {}
      BY <1>1 DEF ArrivalIsKnown
    <2>1. repeated[m] = {}
      BY DEF IInv, ArrivalIsKnown
    <2>2. accepted[m] # {} => row'[m].status \in {"processing", "sent", "deleted"}
      BY DEF IInv, ArrivalIsKnown
    <2>3. ASSUME NEW v \in Worker, m \in batch'[v]
          PROVE  /\ accepted[m] # {} => Current(v, m)' /\ outcome'[v] = "ok"
                 /\ Current(v, m)' => todo[v] \cap accepted[m] = {}
      <3>1. CASE v = w
        BY <1>1, <1>5, <2>3, <3>1
      <3>2. CASE v # w
        BY <1>2, <1>3, <2>3, <3>2 DEF IInv, ArrivalIsKnown
      <3>3. QED
        BY <3>1, <3>2
    <2>4. QED
      BY <2>1, <2>2, <2>3
  <1>13. QED
    BY <1>6, <1>7, <1>8, <1>9, <1>10, <1>11, <1>12 DEF IInv

\* complete() reads the row, and goes on at once where the row is gone.
LEMMA InvCompleteRead ==
  ASSUME IInv, TypeOK', NEW w \in Worker, CompleteRead(w)
  PROVE  IInv'
  <1>1. PICK n \in batch[w] :
          /\ Current(w, n)
          /\ \/ /\ ~Exists(n)
                /\ NextRow(w, n)
             \/ /\ snap' = [snap EXCEPT ![w] = [status |-> row[n].status,
                                                attempts |-> row[n].attempts,
                                                error |-> row[n].error]]
                /\ pc' = [pc EXCEPT ![w] = "write"]
                /\ UNCHANGED <<batch, fresh, todo, outcome>>
    BY DEF CompleteRead
  <1>2. pc[w] = "read" /\ UNCHANGED <<row, accepted, repeated, disturbed>>
    BY DEF CompleteRead, table, history
  <1>3. n \in Notification
    BY DEF IInv, TypeOK
  <1>4. CASE ~Exists(n) /\ NextRow(w, n)
    <2>1. row[n].status = "deleted"
      BY <1>4 DEF Exists, IInv, Ownership
    <2>2. row[n].attempts \in Nat
      BY <1>3 DEF IInv, TypeOK, Row
    <2>3. Calm(n) => row[n].attempts <= MaxAttempts
      BY <1>3 DEF IInv, AttemptsLeft
    <2>4. QED
      BY <1>1, <1>2, <1>4, <2>1, <2>3, InvNextRow
  <1>5. CASE ~(~Exists(n) /\ NextRow(w, n))
    <2>1. /\ snap'[w] = [status |-> row[n].status, attempts |-> row[n].attempts,
                         error |-> row[n].error]
          /\ pc'[w] = "write"
          /\ UNCHANGED <<batch, fresh, todo, outcome>>
          /\ \A v \in Worker \ {w} : pc'[v] = pc[v] /\ snap'[v] = snap[v]
      BY <1>1, <1>5 DEF IInv, TypeOK
    <2>2. \A v \in Worker : \A m : Current(v, m)' <=> Current(v, m)
      BY <2>1 DEF Current, Before
    <2>3. PassShape'
      BY <1>2, <2>1 DEF IInv, PassShape
    <2>4. /\ Ownership' /\ NoOrphans' /\ AttemptsLeft' /\ GivenUpForCause'
          /\ SentMeansAccepted'
      BY <1>2, <2>1 DEF IInv, Ownership, NoOrphans, AttemptsLeft, GivenUpForCause,
                        SentMeansAccepted, Calm, Undisputed
    <2>5. FreshSnapshot'
      <3> SUFFICES ASSUME NEW v \in Worker, NEW m \in batch[v], pc'[v] = "write",
                          Current(v, m), Undisputed(m), Exists(m)
                   PROVE  snap'[v] = [status |-> row[m].status, attempts |-> row[m].attempts,
                                      error |-> row[m].error]
        BY <1>2, <2>1, <2>2 DEF FreshSnapshot, Undisputed, Exists
      <3>1. CASE v = w
        BY <1>1, <2>1, <3>1, CurrentUnique DEF IInv
      <3>2. CASE v # w
        BY <2>1, <3>2 DEF IInv, FreshSnapshot
      <3>3. QED
        BY <3>1, <3>2
    <2>6. OutcomeIsTrue' /\ ArrivalIsKnown'
      BY <1>2, <2>1, <2>2 DEF IInv, OutcomeIsTrue, ArrivalIsKnown
    <2>7. QED
      BY <2>3, <2>4, <2>5, <2>6 DEF IInv
  <1>6. QED
    BY <1>4, <1>5

\* What complete() writes, for the row it read and the outcome of the pass.
LEMMA CompletedColumns ==
  ASSUME NEW s \in Snapshot, NEW result \in Error \cup {"ok"}
  PROVE  /\ Completed(s, result).status \in {"sent", "pending", "failed"}
         /\ Completed(s, result).status = "sent" <=> result = "ok"
         /\ Completed(s, result).status = "failed" =>
               /\ result \in {"provider", "unresolved"}
               /\ s.attempts >= MaxAttempts
               /\ Completed(s, result).attempts = s.attempts
         /\ result # "ok" => Completed(s, result).error = result
         /\ Completed(s, result).attempts <= s.attempts
         /\ Completed(s, result).status = "pending" /\ s.attempts <= MaxAttempts =>
               Completed(s, result).attempts < MaxAttempts
  <1>0. s.attempts \in Nat
    BY DEF Snapshot
  <1> USE OutboxAssumption
  <1>1. CASE result = "ok"
    <2>1. Completed(s, result) = [s EXCEPT !.status = "sent", !.error = "null"]
      BY <1>1 DEF Completed
    <2>2. /\ Completed(s, result).status = "sent"
          /\ Completed(s, result).attempts = s.attempts
      BY <2>1 DEF Snapshot
    <2>3. QED
      BY <1>0, <1>1, <2>2
  <1>2. CASE result = "awaiting"
    <2>1. PICK a \in Nat : a = IF s.attempts > 0 THEN s.attempts - 1 ELSE 0
      BY <1>0
    <2>2. Completed(s, result) =
             [s EXCEPT !.status = "pending", !.attempts = a, !.error = result]
      BY <1>2, <2>1 DEF Completed
    <2>3. /\ Completed(s, result).status = "pending"
          /\ Completed(s, result).attempts = a
          /\ Completed(s, result).error = result
      BY <2>2 DEF Snapshot
    <2>4. a <= s.attempts /\ (s.attempts <= MaxAttempts => a < MaxAttempts)
      BY <1>0, <2>1
    <2>5. QED
      BY <1>2, <2>3, <2>4
  <1>3. CASE result \in {"provider", "unresolved"}
    <2>1. PICK t \in Status : t = IF s.attempts >= MaxAttempts THEN "failed" ELSE "pending"
      BY DEF Status
    <2>2. Completed(s, result) = [s EXCEPT !.status = t, !.error = result]
      BY <1>3, <2>1 DEF Completed
    <2>3. /\ Completed(s, result).status = t
          /\ Completed(s, result).attempts = s.attempts
          /\ Completed(s, result).error = result
      BY <2>2 DEF Snapshot
    <2>4. QED
      BY <1>0, <1>3, <2>1, <2>3
  <1>4. QED
    BY <1>1, <1>2, <1>3 DEF Error

\* What the write leaves in the row that the pass works on.
LEMMA WrittenRow ==
  ASSUME IInv, TypeOK', NEW w \in Worker, NEW n \in batch[w], Current(w, n),
         pc[w] = "write", Exists(n),
         row' = [row EXCEPT ![n] = Flushed(@, snap[w], Completed(snap[w], outcome[w]))]
  PROVE  /\ row'[n].status \in {"pending", "processing", "sent", "failed"}
         /\ row'[n].status = "sent" => accepted[n] # {}
         /\ Undisputed(n) =>
              /\ row[n].status = "processing"
              /\ row'[n].status = Completed(snap[w], outcome[w]).status
              /\ row'[n].attempts = Completed(snap[w], outcome[w]).attempts
              /\ row'[n].error = Completed(snap[w], outcome[w]).error
              /\ snap[w].attempts = row[n].attempts
  <1> DEFINE new == Completed(snap[w], outcome[w])
  <1>1. n \in Notification /\ row[n] \in Row /\ snap[w] \in Snapshot
    BY DEF IInv, TypeOK
  <1>2. outcome[w] \in Error \cup {"ok"}
    BY DEF IInv, TypeOK, PassShape
  <1>3. new \in Snapshot
    BY <1>1, <1>2, CompletedType
  <1>4. row'[n] = Flushed(row[n], snap[w], new)
    BY <1>1 DEF IInv, TypeOK
  <1>5. /\ new.status \in {"sent", "pending", "failed"}
        /\ new.status = "sent" <=> outcome[w] = "ok"
    BY <1>1, <1>2, CompletedColumns
  <1> HIDE DEF new
  <1>6. /\ row'[n].status = IF new.status = snap[w].status THEN row[n].status ELSE new.status
        /\ row'[n].attempts =
              IF new.attempts = snap[w].attempts THEN row[n].attempts ELSE new.attempts
        /\ row'[n].error = IF new.error = snap[w].error THEN row[n].error ELSE new.error
    BY <1>1, <1>3, <1>4, FlushedType
  <1>7. outcome[w] = "ok" => accepted[n] # {}
    BY DEF IInv, OutcomeIsTrue
  <1>8. row[n].status = "sent" => accepted[n] # {}
    BY <1>1 DEF IInv, SentMeansAccepted
  <1>9. row[n].status \in {"pending", "processing", "sent", "failed"}
    BY <1>1 DEF Exists, Row, Status
  <1>10. ASSUME Undisputed(n)
         PROVE  /\ row[n].status = "processing"
                /\ snap[w].status = row[n].status
                /\ snap[w].attempts = row[n].attempts
                /\ snap[w].error = row[n].error
    <2>1. snap[w] = [status |-> row[n].status, attempts |-> row[n].attempts,
                     error |-> row[n].error]
      BY <1>10 DEF IInv, FreshSnapshot
    <2>2. row[n].status = "processing"
      BY <1>10 DEF IInv, Ownership, Exists
    <2>3. QED
      BY <2>1, <2>2
  <1>11. QED
    BY <1>5, <1>6, <1>7, <1>8, <1>9, <1>10 DEF new

\* The write settles or reopens the row of the pass and no other.
LEMMA InvCompleteWrite ==
  ASSUME IInv, TypeOK', NEW w \in Worker, CompleteWrite(w)
  PROVE  IInv'
  <1>1. PICK n \in batch[w] :
          /\ Current(w, n)
          /\ \/ /\ Exists(n)
                /\ row' = [row EXCEPT ![n] =
                              Flushed(@, snap[w], Completed(snap[w], outcome[w]))]
                /\ NextRow(w, n)
                /\ UNCHANGED history
             \/ /\ EndPass(w)
                /\ UNCHANGED row
    BY DEF CompleteWrite
  <1>2. CASE EndPass(w) /\ UNCHANGED row
    BY <1>2, InvEndPass
  <1>3. CASE ~(EndPass(w) /\ UNCHANGED row)
    <2>1. /\ pc[w] = "write"
          /\ row' = [row EXCEPT ![n] =
                        Flushed(@, snap[w], Completed(snap[w], outcome[w]))]
          /\ Exists(n) /\ Current(w, n) /\ NextRow(w, n)
          /\ UNCHANGED <<accepted, repeated, disturbed>>
      BY <1>1, <1>3 DEF CompleteWrite, history
    <2>2. n \in Notification /\ snap[w] \in Snapshot /\ row[n].attempts \in Nat
      BY DEF IInv, TypeOK, Row
    <2>3. outcome[w] \in Error \cup {"ok"}
      BY <2>1 DEF IInv, TypeOK, PassShape
    <2>4. \A m \in Notification \ {n} : row'[m] = row[m]
      BY <2>1 DEF IInv, TypeOK
    <2>5. /\ row'[n].status \in {"pending", "processing", "sent", "failed"}
          /\ row'[n].status = "sent" => accepted[n] # {}
          /\ Undisputed(n) =>
               /\ row[n].status = "processing"
               /\ row'[n].status = Completed(snap[w], outcome[w]).status
               /\ row'[n].attempts = Completed(snap[w], outcome[w]).attempts
               /\ row'[n].error = Completed(snap[w], outcome[w]).error
               /\ snap[w].attempts = row[n].attempts
      BY <2>1, WrittenRow
    <2>6. Undisputed(n) /\ row'[n].status = "failed" =>
             row'[n].attempts >= MaxAttempts /\ row'[n].error \in {"provider", "unresolved"}
      BY <2>2, <2>3, <2>5, CompletedColumns
    <2>7. Calm(n) => Undisputed(n) /\ row[n].attempts <= MaxAttempts
      BY <2>2 DEF Calm, Undisputed, IInv, AttemptsLeft
    <2>8. Calm(n) => /\ row'[n].status # "processing"
                     /\ row'[n].attempts <= MaxAttempts
                     /\ row'[n].status = "pending" => row'[n].attempts < MaxAttempts
      <3>1. ASSUME Calm(n) PROVE row'[n].attempts \in Nat
        BY <2>2 DEF TypeOK, Row
      <3>2. QED
        BY <2>2, <2>3, <2>5, <2>7, <3>1, CompletedColumns, OutboxAssumption
    <2>9. disturbed[n] = {} /\ accepted[n] # {} => row'[n].status \in {"sent", "deleted"}
      <3>1. ASSUME disturbed[n] = {}, accepted[n] # {} PROVE outcome[w] = "ok" /\ Undisputed(n)
        BY <2>2, <3>1 DEF IInv, ArrivalIsKnown, Undisputed
      <3>2. QED
        BY <2>2, <2>3, <2>5, <3>1, CompletedColumns
    <2>10. row'[n].status # "absent" /\ pc[w] # "send"
      BY <2>1, <2>5
    <2>11. QED
      BY <2>1, <2>4, <2>5, <2>6, <2>8, <2>9, <2>10, InvNextRow
  <1>4. QED
    BY <1>2, <1>3

\* Every step preserves the inductive invariant.
LEMMA InvNext == IInv /\ [Next]_vars => IInv'
  <1> SUFFICES ASSUME IInv, [Next]_vars PROVE IInv'
    OBVIOUS
  <1>1. TypeOK'
    BY TypeNext DEF IInv
  <1>2. ASSUME NEW n \in Notification, NEW u \in User \cup {NoUser},
               NEW s \in Search \cup {NoSearch}, Enqueue(n, u, s)
        PROVE  IInv'
    BY <1>1, <1>2, InvEnqueue
  <1>3. ASSUME NEW l \in Listing, DeleteListing(l) PROVE IInv'
    BY <1>1, <1>3, InvDeleteListing
  <1>4. ASSUME NEW s \in Search, DeleteSearch(s) PROVE IInv'
    BY <1>1, <1>4, InvUnchanged DEF DeleteSearch, history
  <1>5. ASSUME NEW u \in User, NEW D \in SUBSET Destination, Reach(u, D) PROVE IInv'
    BY <1>1, <1>5, InvUnchanged DEF Reach
  <1>6. ASSUME NEW u \in User, NEW d \in Destination, UnregisterDevice(u, d) PROVE IInv'
    BY <1>1, <1>6, InvUnchanged DEF UnregisterDevice, history
  <1>7. ASSUME Tick PROVE IInv'
    BY <1>1, <1>7, InvTick
  <1>8. ASSUME NEW w \in Worker, Pass(w) PROVE IInv'
    BY <1>1, <1>8, InvClaimBatch, InvResolve, InvDeliver, InvCompleteRead, InvCompleteWrite
    DEF Pass
  <1>9. ASSUME NEW w \in Worker, Abort(w) PROVE IInv'
    BY <1>1, <1>9, InvEndPass DEF Abort, table
  <1>10. CASE UNCHANGED vars
    BY <1>1, <1>10, InvUnchanged DEF vars, passes
  <1>11. QED
    <2>1. ASSUME NEW u \in User, NEW D \in SUBSET Destination, SetChat(u, D) PROVE IInv'
      BY <1>5, <2>1 DEF SetChat
    <2>2. ASSUME NEW u \in User, NEW d \in Destination, RegisterDevice(u, d) PROVE IInv'
      <3>1. dests[u] \cup {d} \in SUBSET Destination
        BY DEF IInv, TypeOK
      <3>2. QED
        BY <1>5, <2>2, <3>1 DEF RegisterDevice
    <2>3. QED
      BY <1>2, <1>3, <1>4, <1>6, <1>7, <1>8, <1>9, <1>10, <2>1, <2>2 DEF Next, Environment

\* IInv holds in every reachable state.
THEOREM Invariance == Spec => []IInv
  BY InvInit, InvNext, PTL DEF Spec

-----------------------------------------------------------------------------
(* What follows from the invariant.                                        *)

\* Every variable keeps its type, whatever the passes and the users do.
THEOREM TypeCorrect == Spec => []TypeOK
  <1>1. IInv => TypeOK
    BY DEF IInv
  <1>2. QED
    BY <1>1, Invariance, PTL

\* complete() marks a row sent only if the provider took its message.
THEOREM SentIsTrue == Spec => []SentMeansAccepted
  <1>1. IInv => SentMeansAccepted
    BY DEF IInv
  <1>2. QED
    BY <1>1, Invariance, PTL

\* Two passes never work on one row, crashes included, while leases are kept.
THEOREM ClaimsExclude == Spec => []ExclusiveClaim
  <1>1. IInv => ExclusiveClaim
    BY DEF IInv, Ownership, ExclusiveClaim, Undisputed, Holders
  <1>2. QED
    BY <1>1, Invariance, PTL

\* Without a crash, an overrun or a lost reply nobody is alerted twice.
THEOREM OnceUnlessDisturbed == Spec => []RepeatsAreExplained
  <1>1. IInv => RepeatsAreExplained
    BY DEF IInv, ArrivalIsKnown, RepeatsAreExplained
  <1>2. QED
    BY <1>1, Invariance, PTL

\* The attempt limit holds for every row no pass died on or overran.
THEOREM AttemptLimit == Spec => []AttemptsBounded
  <1>1. IInv => AttemptsBounded
    BY DEF IInv, AttemptsLeft, AttemptsBounded, Calm
  <1>2. QED
    BY <1>1, Invariance, PTL

\* A row is given up only after all its attempts, and never for the lack of a
\* destination.
THEOREM FailuresHaveCause == Spec => []GivenUpForCause
  <1>1. IInv => GivenUpForCause
    BY DEF IInv
  <1>2. QED
    BY <1>1, Invariance, PTL

\* Where nothing interfered, a row given up has reached no destination.
THEOREM FailuresAreTrue == Spec => []FailedMeansUndelivered
  <1>1. IInv => FailedMeansUndelivered
    BY DEF IInv, ArrivalIsKnown, FailedMeansUndelivered
  <1>2. QED
    BY <1>1, Invariance, PTL

\* No step reopens a settled row whose leases were kept.
LEMMA SettledStep ==
  ASSUME IInv, IInv', Next, NEW n \in Notification,
         row[n].status \in {"sent", "failed"}, "overrun" \notin disturbed[n]
  PROVE  row'[n].status \in {row[n].status, "deleted"}
  <1>1. CASE \E m \in Notification, u \in User \cup {NoUser}, s \in Search \cup {NoSearch} :
                Enqueue(m, u, s)
    BY <1>1 DEF Enqueue, IInv, TypeOK
  <1>2. CASE \E l \in Listing : DeleteListing(l)
    <2>1. row'[n] = row[n] \/
             row'[n] = [Absent EXCEPT !.status = "deleted", !.user = row[n].user,
                                      !.finder = row[n].finder]
      BY <1>2 DEF DeleteListing
    <2>2. QED
      BY <2>1 DEF Absent
  <1>3. CASE Tick
    <2>1. row'[n] = row[n]
      BY <1>3 DEF Tick
    <2>2. QED
      BY <2>1
  <1>4. ASSUME NEW w \in Worker, ClaimBatch(w) PROVE row'[n].status = row[n].status
    <2>1. ~Claimable(n)
      BY DEF Claimable
    <2>2. PICK S \in SUBSET {m \in Notification : Claimable(m)} :
            row' = [m \in Notification |->
                      IF m \in S
                      THEN Canonical([row[m] EXCEPT !.status = "processing",
                                                    !.claimAge = 0,
                                                    !.attempts = @ + 1])
                      ELSE row[m]]
      BY <1>4 DEF ClaimBatch
    <2>3. n \notin S
      BY <2>1
    <2>4. row'[n] = row[n]
      BY <2>2, <2>3, Zenon
    <2>5. QED
      BY <2>4
  <1>5. ASSUME NEW w \in Worker, CompleteWrite(w) PROVE row'[n].status = row[n].status
    <2>1. n \notin batch[w]
      BY DEF IInv, Ownership, Undisputed
    <2>2. QED
      BY <1>5, <2>1 DEF CompleteWrite, IInv, TypeOK
  <1>6. CASE UNCHANGED row
    BY <1>6
  <1>7. QED
    BY <1>1, <1>2, <1>3, <1>4, <1>5, <1>6
    DEF Next, Environment, Pass, DeleteSearch, SetChat, RegisterDevice, Reach,
        UnregisterDevice, ResolveDestination, Deliver, CompleteRead, Abort, table

\* Without an overrun nothing reopens a row that was sent or given up.
THEOREM SettledForGood == Spec => SettledIsFinal
  <1>1. IInv /\ IInv' /\ [Next]_vars =>
           [\A n \in Notification :
               row[n].status \in {"sent", "failed"} /\ "overrun" \notin disturbed[n] =>
                  row'[n].status \in {row[n].status, "deleted"}]_vars
    BY SettledStep
  <1>2. QED
    BY <1>1, Invariance, PTL DEF Spec, SettledIsFinal

-----------------------------------------------------------------------------
(* The drain passes implement AlertPromise.                                *)

\* An empty table promises nothing.
LEMMA PromiseInitial == Init => Promise!PromiseInit
  BY DEF Init, Promise!PromiseInit, PromiseState, Absent

\* A step that changes no status, no arrival and no overrun is a stutter.
LEMMA PromiseStutter ==
  ASSUME TypeOK,
         \A n \in Notification : PromiseState(n)' = PromiseState(n),
         \A n \in Notification : accepted'[n] = accepted[n],
         \A n \in Notification : "overrun" \in disturbed'[n] <=> "overrun" \in disturbed[n]
  PROVE  UNCHANGED Promise!pvars
  BY DEF Promise!pvars

\* Enqueue makes a promise, the cascade withdraws some.
LEMMA PromiseEnqueue ==
  ASSUME IInv, NEW n \in Notification, NEW u \in User \cup {NoUser},
         NEW s \in Search \cup {NoSearch}, Enqueue(n, u, s)
  PROVE  Promise!Promise(n)
  <1>1. /\ row[n].status = "absent"
        /\ row'[n].status = "pending"
        /\ \A m \in Notification \ {n} : row'[m] = row[m]
        /\ UNCHANGED <<accepted, disturbed>>
    BY DEF Enqueue, IInv, TypeOK, Absent, history
  <1>2. PromiseState(n) = "none" /\ PromiseState(n)' = "due"
    BY <1>1 DEF PromiseState
  <1>3. \A m \in Notification \ {n} : PromiseState(m)' = PromiseState(m)
    BY <1>1 DEF PromiseState
  <1>4. QED
    BY <1>1, <1>2, <1>3 DEF Promise!Promise

\* The cascade of a deleted listing withdraws its alerts.
LEMMA PromiseDelete ==
  ASSUME IInv, NEW l \in Listing, DeleteListing(l)
  PROVE  \E A \in SUBSET Notification : Promise!Withdraw(A)
  <1> DEFINE gone == {n \in Notification : Exists(n) /\ ListingOf[n] = l}
  <1>1. /\ \A n \in gone : row'[n].status = "deleted"
        /\ \A n \in Notification \ gone : row'[n] = row[n]
        /\ UNCHANGED <<accepted, disturbed>>
    BY DEF DeleteListing, Absent, history
  <1>2. \A n \in gone : /\ PromiseState(n) \in {"due", "delivered", "abandoned"}
                        /\ PromiseState(n)' = "withdrawn"
    BY <1>1 DEF PromiseState, Exists, IInv, TypeOK, Row, Status
  <1>3. \A n \in Notification \ gone : PromiseState(n)' = PromiseState(n)
    BY <1>1 DEF PromiseState
  <1>4. gone \in SUBSET Notification
    OBVIOUS
  <1> HIDE DEF gone
  <1>5. Promise!Withdraw(gone)
    BY <1>1, <1>2, <1>3, <1>4 DEF Promise!Withdraw
  <1>6. QED
    BY <1>4, <1>5

\* A lease that runs out under a pass contests the alert.
LEMMA PromiseTick ==
  ASSUME IInv, Tick
  PROVE  \E A \in SUBSET Notification : Promise!Contest(A)
  <1>1. PICK A \in SUBSET Notification :
          \A n \in Notification :
             n \in A <=> /\ row[n].status = "processing"
                         /\ row[n].claimAge = Lease
                         /\ \E w \in Worker : n \in batch[w]
    <2> DEFINE over == {n \in Notification : /\ row[n].status = "processing"
                                             /\ row[n].claimAge = Lease
                                             /\ \E w \in Worker : n \in batch[w]}
    <2>1. over \in SUBSET Notification
      OBVIOUS
    <2>2. QED
      BY <2>1, Zenon
  <1>2. /\ \A n \in Notification : row'[n].status = row[n].status
        /\ \A n \in Notification :
              "overrun" \in disturbed'[n] <=> "overrun" \in disturbed[n] \/ n \in A
        /\ UNCHANGED accepted
    BY <1>1 DEF Tick, IInv, TypeOK, Row
  <1>3. \A n \in Notification : PromiseState(n)' = PromiseState(n)
    BY <1>2 DEF PromiseState
  <1>4. \A n \in A : PromiseState(n) = "due"
    BY <1>1 DEF PromiseState
  <1>5. [n \in Notification |-> PromiseState(n)]' = [n \in Notification |-> PromiseState(n)]
    BY <1>3
  <1>6. {n \in Notification : "overrun" \in disturbed'[n]} =
           {n \in Notification : "overrun" \in disturbed[n]} \cup A
    BY <1>1, <1>2
  <1>7. Promise!Contest(A)
    BY <1>2, <1>4, <1>5, <1>6 DEF Promise!Contest
  <1>8. QED
    BY <1>7

\* Claiming a row leaves its alert due.
LEMMA PromiseClaim ==
  ASSUME IInv, NEW w \in Worker, ClaimBatch(w)
  PROVE  UNCHANGED Promise!pvars
  <1>1. PICK S \in SUBSET {m \in Notification : Claimable(m)} :
          row' = [m \in Notification |->
                    IF m \in S
                    THEN Canonical([row[m] EXCEPT !.status = "processing",
                                                  !.claimAge = 0,
                                                  !.attempts = @ + 1])
                    ELSE row[m]]
    BY DEF ClaimBatch
  <1>2. ASSUME NEW n \in Notification PROVE PromiseState(n)' = PromiseState(n)
    <2>1. CASE n \notin S
      <3>1. row'[n] = row[n]
        BY <1>1, <2>1, Zenon
      <3>2. QED
        BY <3>1 DEF PromiseState
    <2>2. CASE n \in S
      <3> DEFINE taken == [row[n] EXCEPT !.status = "processing", !.claimAge = 0,
                                         !.attempts = @ + 1]
      <3>1. row'[n] = Canonical(taken)
        BY <1>1, <2>2, Zenon
      <3>2. PICK k : k = row[n].attempts + 1
        OBVIOUS
      <3>3. taken = [row[n] EXCEPT !.status = "processing", !.claimAge = 0, !.attempts = k]
        BY <3>2
      <3>4. taken.status = "processing"
        BY <3>3 DEF IInv, TypeOK, Row
      <3> HIDE DEF taken
      <3>5. Canonical(taken).status = taken.status
        <4>1. PICK c, a : Canonical(taken) = [taken EXCEPT !.claimAge = c, !.attemptAge = a]
          BY DEF Canonical
        <4>2. QED
          BY <4>1
      <3>6. Claimable(n)
        BY <2>2
      <3>7. PromiseState(n) = "due"
        BY <3>6 DEF Claimable, PromiseState
      <3>8. QED
        BY <3>1, <3>4, <3>5, <3>7 DEF PromiseState
    <2>3. QED
      BY <2>1, <2>2
  <1>3. UNCHANGED <<accepted, disturbed>>
    BY DEF ClaimBatch, history
  <1>4. QED
    BY <1>2, <1>3, PromiseStutter DEF IInv

\* A call of the provider may deliver the alert.
LEMMA PromiseDeliver ==
  ASSUME IInv, NEW w \in Worker, NEW d \in Destination, Deliver(w, d)
  PROVE  \/ \E n \in Notification : Promise!Receive(n)
         \/ UNCHANGED Promise!pvars
  <1>1. PICK n \in batch[w] :
          \/ Arrives(n, d) /\ UNCHANGED disturbed
          \/ UNCHANGED <<accepted, repeated, disturbed>>
          \/ /\ Arrives(n, d)
             /\ disturbed' = [disturbed EXCEPT ![n] = @ \cup {"lostReply"}]
    BY DEF Deliver
  <1>2. /\ n \in Notification
        /\ row[n].status # "absent"
        /\ UNCHANGED row
    BY DEF Deliver, IInv, TypeOK, Ownership, table
  <1>3. \A m \in Notification : PromiseState(m)' = PromiseState(m)
    BY <1>2 DEF PromiseState
  <1>4. \A m \in Notification :
           "overrun" \in disturbed'[m] <=> "overrun" \in disturbed[m]
    BY <1>1 DEF IInv, TypeOK
  <1>5. CASE UNCHANGED accepted
    BY <1>3, <1>4, <1>5, PromiseStutter DEF IInv
  <1>6. CASE Arrives(n, d)
    <2>1. {m \in Notification : accepted'[m] # {}} =
             {m \in Notification : accepted[m] # {}} \cup {n}
      BY <1>2, <1>6 DEF Arrives, IInv, TypeOK
    <2>2. PromiseState(n) # "none"
      BY <1>2 DEF PromiseState, IInv, TypeOK, Row, Status
    <2>3. Promise!Receive(n)
      BY <1>2, <1>3, <1>4, <2>1, <2>2 DEF Promise!Receive
    <2>4. QED
      BY <1>2, <2>3
  <1>7. QED
    BY <1>1, <1>5, <1>6

\* The write settles the alert, or rewrites the outcome of a contested one.
LEMMA PromiseWrite ==
  ASSUME IInv, TypeOK', NEW w \in Worker, CompleteWrite(w)
  PROVE  \/ \E n \in Notification : Promise!Settle(n) \/ Promise!Unsettle(n)
         \/ UNCHANGED Promise!pvars
  <1>1. PICK n \in batch[w] :
          /\ Current(w, n)
          /\ \/ /\ Exists(n)
                /\ row' = [row EXCEPT ![n] =
                              Flushed(@, snap[w], Completed(snap[w], outcome[w]))]
                /\ UNCHANGED history
             \/ /\ EndPass(w)
                /\ UNCHANGED row
    BY DEF CompleteWrite
  <1>2. n \in Notification /\ pc[w] = "write"
    BY DEF CompleteWrite, IInv, TypeOK
  <1>3. CASE EndPass(w) /\ UNCHANGED row
    <2>1. \A m \in Notification :
             "overrun" \in disturbed'[m] <=> "overrun" \in disturbed[m]
      BY <1>3 DEF EndPass
    <2>2. \A m \in Notification : PromiseState(m)' = PromiseState(m)
      BY <1>3 DEF PromiseState
    <2>3. QED
      BY <1>3, <2>1, <2>2, PromiseStutter DEF EndPass, IInv
  <1>4. CASE ~(EndPass(w) /\ UNCHANGED row)
    <2>1. /\ Exists(n)
          /\ row' = [row EXCEPT ![n] =
                        Flushed(@, snap[w], Completed(snap[w], outcome[w]))]
          /\ UNCHANGED <<accepted, disturbed>>
      BY <1>1, <1>4 DEF history
    <2>2. /\ row'[n].status \in {"pending", "processing", "sent", "failed"}
          /\ row'[n].status = "sent" => accepted[n] # {}
          /\ Undisputed(n) => row[n].status = "processing"
      BY <1>1, <1>2, <2>1, WrittenRow
    <2>3. \A m \in Notification \ {n} : row'[m] = row[m]
      BY <2>1 DEF IInv, TypeOK
    <2>4. \A m \in Notification \ {n} : PromiseState(m)' = PromiseState(m)
      BY <2>3 DEF PromiseState
    <2>5. /\ PromiseState(n)' \in {"due", "delivered", "abandoned"}
          /\ PromiseState(n)' = "delivered" => accepted[n] # {}
          /\ PromiseState(n) \in {"due", "delivered", "abandoned"}
          /\ PromiseState(n) # "due" => ~Undisputed(n)
      BY <1>2, <2>1, <2>2 DEF PromiseState, Exists, IInv, TypeOK, Row, Status
    <2>6. CASE PromiseState(n)' = PromiseState(n)
      BY <2>1, <2>4, <2>6, PromiseStutter DEF IInv
    <2>7. CASE PromiseState(n) = "due" /\ PromiseState(n)' # "due"
      <3>1. Promise!Settle(n)
        BY <1>2, <2>1, <2>4, <2>5, <2>7 DEF Promise!Settle
      <3>2. QED
        BY <1>2, <3>1
    <2>8. CASE PromiseState(n) # "due"
      <3>1. Promise!Unsettle(n)
        BY <1>2, <2>1, <2>4, <2>5, <2>8 DEF Promise!Unsettle, Undisputed
      <3>2. QED
        BY <1>2, <3>1
    <2>9. QED
      BY <2>6, <2>7, <2>8
  <1>5. QED
    BY <1>3, <1>4

\* Every step of the passes is a step or a stutter of AlertPromise.
LEMMA PromiseStep == IInv /\ [Next]_vars => [Promise!PromiseNext]_(Promise!pvars)
  <1> SUFFICES ASSUME IInv, [Next]_vars PROVE [Promise!PromiseNext]_(Promise!pvars)
    OBVIOUS
  <1>1. TypeOK /\ TypeOK'
    BY TypeNext DEF IInv
  <1>2. ASSUME UNCHANGED <<row, accepted, disturbed>> PROVE UNCHANGED Promise!pvars
    BY <1>1, <1>2, PromiseStutter DEF PromiseState
  <1>3. CASE Environment
    BY <1>2, <1>3, PromiseEnqueue, PromiseDelete
    DEF Environment, DeleteSearch, SetChat, RegisterDevice, Reach, UnregisterDevice,
        history, Promise!PromiseNext
  <1>4. CASE Tick
    BY <1>4, PromiseTick DEF Promise!PromiseNext
  <1>5. ASSUME NEW w \in Worker, Pass(w) PROVE [Promise!PromiseNext]_(Promise!pvars)
    BY <1>1, <1>2, <1>5, PromiseClaim, PromiseDeliver, PromiseWrite
    DEF Pass, ResolveDestination, CompleteRead, table, history, Promise!PromiseNext
  <1>6. ASSUME NEW w \in Worker, Abort(w) PROVE UNCHANGED Promise!pvars
    <2>1. \A m \in Notification :
             "overrun" \in disturbed'[m] <=> "overrun" \in disturbed[m]
      BY <1>6 DEF Abort, EndPass
    <2>2. \A m \in Notification : PromiseState(m)' = PromiseState(m)
      BY <1>6 DEF Abort, table, PromiseState
    <2>3. QED
      BY <1>1, <1>6, <2>1, <2>2, PromiseStutter DEF Abort, EndPass
  <1>7. CASE UNCHANGED vars
    BY <1>2, <1>7 DEF vars
  <1>8. QED
    BY <1>3, <1>4, <1>5, <1>6, <1>7 DEF Next

\* The drain passes of any number of processes implement the at-least-once
\* promise of core/notifications/outbox.py.
THEOREM KeepsItsPromise == Spec => KeepsPromise
  BY PromiseInitial, PromiseStep, Invariance, PTL DEF Spec, KeepsPromise, Promise!PromiseSpec

-----------------------------------------------------------------------------
(* Whom a message may reach.                                               *)

\* Destination d has been that of the owner of row n.
Rightful(n, d) ==
    \E u \in User :
        /\ d \in known[u]
        /\ IF row[n].user # NoUser
           THEN u = row[n].user
           ELSE row[n].finder # NoSearch /\ searchUser[row[n].finder] \in {u, NoUser}

\* What a pass has still to try belongs to the owner of its row, also when the
\* owner has changed his destinations, or deleted the search, since.
TargetsAreOwners ==
    \A w \in Worker : \A n \in batch[w] :
        Current(w, n) => \A d \in todo[w] : Rightful(n, d)

OwnerInv ==
    /\ \A u \in User : dests[u] \subseteq known[u]
    /\ \A n \in Notification : row[n].status = "absent" => accepted[n] = {}
    /\ \A n \in Notification : \A d \in accepted[n] : Rightful(n, d)
    /\ TargetsAreOwners

\* A row keeps its owner and the search that found it for good, and stays.
OwnerStays(n) ==
    row[n].status # "absent" => /\ row'[n].status # "absent"
                                /\ row'[n].user = row[n].user
                                /\ row'[n].finder = row[n].finder

LEMMA OwnerStaysClaimed ==
  ASSUME IInv, NEW w \in Worker, ClaimBatch(w), NEW n \in Notification
  PROVE  OwnerStays(n)
  <1> DEFINE taken(r) == [r EXCEPT !.status = "processing", !.claimAge = 0,
                                   !.attempts = @ + 1]
  <1>1. row[n] \in Row /\ row[n].attempts \in Nat
    BY DEF IInv, TypeOK, Row
  <1>2. PICK k \in Nat : k = row[n].attempts + 1
    BY <1>1
  <1>3. taken(row[n]) = [row[n] EXCEPT !.status = "processing", !.claimAge = 0, !.attempts = k]
    BY <1>2
  <1>4. PICK S \in SUBSET Notification :
          row' = [m \in Notification |-> IF m \in S THEN Canonical(taken(row[m])) ELSE row[m]]
    BY DEF ClaimBatch
  <1> HIDE DEF taken
  <1>5. /\ taken(row[n]) \in Row
        /\ taken(row[n]).status = "processing"
        /\ taken(row[n]).user = row[n].user
        /\ taken(row[n]).finder = row[n].finder
    <2>1. 0 \in 0..(Lease + 1) /\ "processing" \in Status
      BY OutboxAssumption DEF Status
    <2>2. QED
      BY <1>1, <1>2, <1>3, <2>1 DEF Row
  <1>6. row'[n] = row[n] \/ row'[n] = Canonical(taken(row[n]))
    BY <1>4
  <1>7. QED
    BY <1>5, <1>6, CanonicalType DEF OwnerStays

LEMMA OwnerStaysWritten ==
  ASSUME IInv, TypeOK', NEW w \in Worker, CompleteWrite(w), NEW n \in Notification
  PROVE  OwnerStays(n)
  <1>1. PICK m \in batch[w] :
          \/ /\ Current(w, m) /\ Exists(m)
             /\ row' = [row EXCEPT ![m] =
                           Flushed(@, snap[w], Completed(snap[w], outcome[w]))]
          \/ UNCHANGED row
    BY DEF CompleteWrite
  <1>2. pc[w] = "write" /\ m \in Notification
    BY DEF CompleteWrite, IInv, TypeOK
  <1>3. CASE UNCHANGED row \/ n # m
    BY <1>1, <1>3 DEF OwnerStays, IInv, TypeOK
  <1>4. CASE ~UNCHANGED row /\ n = m
    <2>1. row[n] \in Row /\ snap[w] \in Snapshot
      BY DEF IInv, TypeOK
    <2>2. outcome[w] \in Error \cup {"ok"}
      BY <1>2 DEF IInv, TypeOK, PassShape
    <2>3. Completed(snap[w], outcome[w]) \in Snapshot
      BY <2>1, <2>2, CompletedType
    <2>4. row'[n] = Flushed(row[n], snap[w], Completed(snap[w], outcome[w]))
      BY <1>1, <1>4 DEF IInv, TypeOK
    <2>5. row'[n].user = row[n].user /\ row'[n].finder = row[n].finder
      BY <2>1, <2>3, <2>4, FlushedType
    <2>6. row'[n].status # "absent"
      BY <1>1, <1>2, <1>4, WrittenRow
    <2>7. QED
      BY <2>5, <2>6 DEF OwnerStays
  <1>5. QED
    BY <1>3, <1>4

LEMMA OwnerStaysStep ==
  ASSUME IInv, TypeOK', [Next]_vars, NEW n \in Notification
  PROVE  OwnerStays(n)
  <1>1. CASE UNCHANGED row
    BY <1>1 DEF OwnerStays
  <1>2. ASSUME NEW m \in Notification, NEW u \in User \cup {NoUser},
               NEW s \in Search \cup {NoSearch}, Enqueue(m, u, s)
        PROVE  OwnerStays(n)
    BY <1>2 DEF Enqueue, OwnerStays, IInv, TypeOK
  <1>3. ASSUME NEW l \in Listing, DeleteListing(l) PROVE OwnerStays(n)
    <2>1. row'[n] = row[n] \/
             row'[n] = [Absent EXCEPT !.status = "deleted", !.user = row[n].user,
                                      !.finder = row[n].finder]
      BY <1>3 DEF DeleteListing
    <2>2. QED
      BY <2>1 DEF Absent, OwnerStays
  <1>4. CASE Tick
    <2>1. row[n] \in Row
      BY DEF IInv, TypeOK
    <2>2. QED
      BY <1>4, <2>1 DEF Tick, OwnerStays, Row
  <1>5. ASSUME NEW w \in Worker, ClaimBatch(w) \/ CompleteWrite(w) PROVE OwnerStays(n)
    BY <1>5, OwnerStaysClaimed, OwnerStaysWritten
  <1>6. QED
    BY <1>1, <1>2, <1>3, <1>4, <1>5
    DEF Next, Environment, Pass, DeleteSearch, SetChat, RegisterDevice, Reach,
        UnregisterDevice, ResolveDestination, Deliver, CompleteRead, Abort, table, vars

\* Nobody forgets whose a destination was, and a search only loses its owner.
LEMMA OwnersOnRecord ==
  ASSUME IInv, [Next]_vars
  PROVE  /\ \A s \in Search : searchUser'[s] \in {searchUser[s], NoUser}
         /\ \A u \in User : known[u] \subseteq known'[u]
         /\ (\A u \in User : dests[u] \subseteq known[u]) =>
               \A u \in User : dests'[u] \subseteq known'[u]
  <1>1. CASE UNCHANGED <<searchUser, dests, known>>
    BY <1>1
  <1>2. ASSUME NEW s \in Search, DeleteSearch(s)
        PROVE  /\ \A a \in Search : searchUser'[a] \in {searchUser[a], NoUser}
               /\ UNCHANGED <<dests, known>>
    BY <1>2 DEF DeleteSearch, history, IInv, TypeOK
  <1>3. ASSUME NEW u \in User, NEW D, Reach(u, D)
        PROVE  /\ UNCHANGED searchUser
               /\ known' = [known EXCEPT ![u] = @ \cup D]
               /\ \A v \in User : dests'[v] \subseteq dests[v] \/ (v = u /\ dests'[v] = D)
    BY <1>3 DEF Reach, IInv, TypeOK
  <1>4. ASSUME NEW u \in User, NEW D, Reach(u, D)
        PROVE  /\ UNCHANGED searchUser
               /\ \A v \in User : known[v] \subseteq known'[v]
               /\ (\A v \in User : dests[v] \subseteq known[v]) =>
                     \A v \in User : dests'[v] \subseteq known'[v]
    <2>1. known'[u] = known[u] \cup D /\ \A v \in User \ {u} : known'[v] = known[v]
      BY <1>3, <1>4 DEF IInv, TypeOK
    <2>2. QED
      BY <1>3, <1>4, <2>1
  <1>5. ASSUME NEW u \in User, NEW d \in Destination, UnregisterDevice(u, d)
        PROVE  /\ UNCHANGED <<searchUser, known>>
               /\ \A v \in User : dests'[v] \subseteq dests[v]
    BY <1>5 DEF UnregisterDevice, history, IInv, TypeOK
  <1>6. QED
    BY <1>1, <1>2, <1>4, <1>5
    DEF Next, Environment, Pass, Enqueue, DeleteListing, SetChat, RegisterDevice, Tick,
        ClaimBatch, ResolveDestination, Deliver, CompleteRead, CompleteWrite, NextRow, EndPass,
        Abort, table, history, vars

\* Once a destination was the owner's, it stays one he has had.
LEMMA RightfulStays ==
  ASSUME IInv, TypeOK', [Next]_vars, NEW n \in Notification, NEW d,
         row[n].status # "absent", Rightful(n, d)
  PROVE  Rightful(n, d)'
  <1>1. PICK u \in User :
          /\ d \in known[u]
          /\ IF row[n].user # NoUser
             THEN u = row[n].user
             ELSE row[n].finder # NoSearch /\ searchUser[row[n].finder] \in {u, NoUser}
    BY DEF Rightful
  <1>2. row'[n].user = row[n].user /\ row'[n].finder = row[n].finder
    BY OwnerStaysStep DEF OwnerStays
  <1>3. row[n].finder \in Search \cup {NoSearch}
    BY DEF IInv, TypeOK, Row
  <1>4. d \in known'[u]
    BY <1>1, OwnersOnRecord
  <1>5. row[n].finder # NoSearch =>
           searchUser'[row[n].finder] \in {searchUser[row[n].finder], NoUser}
    BY <1>3, OwnersOnRecord
  <1>6. QED
    BY <1>1, <1>2, <1>4, <1>5 DEF Rightful

\* A pass that does not start a delivery keeps to the targets it had.
LEMMA TargetsKept ==
  ASSUME IInv, TypeOK', [Next]_vars, OwnerInv, NEW w \in Worker,
         \/ todo'[w] = {}
         \/ todo'[w] \subseteq todo[w] /\ batch'[w] = batch[w] /\ fresh'[w] = fresh[w],
         NEW n \in batch'[w], Current(w, n)', NEW d \in todo'[w]
  PROVE  Rightful(n, d)'
  <1>1. d \in todo[w] /\ n \in batch[w] /\ n \in Notification /\ Current(w, n)
    BY DEF IInv, TypeOK, Current, Before
  <1>2. Rightful(n, d) /\ row[n].status # "absent"
    BY <1>1 DEF OwnerInv, TargetsAreOwners, IInv, Ownership
  <1>3. QED
    BY <1>1, <1>2, RightfulStays

\* A delivery starts with the destinations of the owner.
LEMMA TargetsResolved ==
  ASSUME IInv, TypeOK', OwnerInv, NEW w \in Worker, ResolveDestination(w)
  PROVE  TargetsAreOwners'
  <1>1. PICK n \in batch[w] :
          /\ Current(w, n)
          /\ \/ UNCHANGED todo
             \/ /\ OwnerOf(n) # NoUser
                /\ todo' = [todo EXCEPT ![w] = dests[OwnerOf(n)]]
    BY DEF ResolveDestination, Undeliverable
  <1>2. /\ UNCHANGED <<row, searchUser, known, batch, fresh>> /\ pc[w] = "resolve"
        /\ todo[w] = {} /\ n \in Notification
    BY DEF ResolveDestination, table, history, IInv, TypeOK, PassShape
  <1>3. \A v \in Worker : \A m : Current(v, m)' <=> Current(v, m)
    BY <1>2 DEF Current, Before
  <1>4. \A m, d : Rightful(m, d)' <=> Rightful(m, d)
    BY <1>2 DEF Rightful
  <1>5. OwnerOf(n) # NoUser => \A d \in dests[OwnerOf(n)] : Rightful(n, d)
    <2>1. row[n].user \in User \cup {NoUser}
      BY <1>2 DEF IInv, TypeOK, Row
    <2>2. row[n].finder # NoSearch => searchUser[row[n].finder] \in User \cup {NoUser}
      BY <1>2 DEF IInv, TypeOK, Row
    <2>3. \A u \in User : dests[u] \subseteq known[u]
      BY DEF OwnerInv
    <2>4. CASE row[n].user # NoUser
      BY <2>1, <2>3, <2>4 DEF OwnerOf, Rightful
    <2>5. CASE row[n].user = NoUser
      BY <2>2, <2>3, <2>5 DEF OwnerOf, Rightful
    <2>6. QED
      BY <2>4, <2>5
  <1> SUFFICES ASSUME NEW v \in Worker, NEW m \in batch[v], Current(v, m),
                      NEW d \in todo'[v]
               PROVE  Rightful(m, d)
    BY <1>2, <1>3, <1>4 DEF TargetsAreOwners
  <1>6. CASE todo'[v] = todo[v]
    BY <1>6 DEF OwnerInv, TargetsAreOwners
  <1>7. CASE todo'[v] # todo[v]
    <2>1. v = w /\ OwnerOf(n) # NoUser /\ d \in dests[OwnerOf(n)]
      BY <1>1, <1>7 DEF IInv, TypeOK
    <2>2. m = n
      BY <1>1, <2>1, CurrentUnique DEF IInv
    <2>3. QED
      BY <1>5, <2>1, <2>2
  <1>8. QED
    BY <1>6, <1>7

LEMMA TargetsStep ==
  ASSUME IInv, TypeOK', [Next]_vars, OwnerInv
  PROVE  TargetsAreOwners'
  <1> DEFINE Kept(w) ==
        \/ todo'[w] = {}
        \/ todo'[w] \subseteq todo[w] /\ batch'[w] = batch[w] /\ fresh'[w] = fresh[w]
  <1>1. CASE \A w \in Worker : Kept(w)
    BY <1>1, TargetsKept DEF TargetsAreOwners
  <1>2. ASSUME NEW w \in Worker, ResolveDestination(w) PROVE TargetsAreOwners'
    BY <1>2, TargetsResolved
  <1>3. CASE UNCHANGED <<batch, fresh, todo>>
    BY <1>1, <1>3
  <1>4. ASSUME NEW w \in Worker,
               /\ batch' = [batch EXCEPT ![w] = batch'[w]]
               /\ fresh' = [fresh EXCEPT ![w] = fresh'[w]]
               /\ UNCHANGED todo /\ todo[w] = {}
        PROVE  TargetsAreOwners'
    BY <1>1, <1>4 DEF IInv, TypeOK
  <1>5. ASSUME NEW w \in Worker, ClaimBatch(w) PROVE TargetsAreOwners'
    <2>1. /\ batch' = [batch EXCEPT ![w] = batch'[w]]
          /\ fresh' = [fresh EXCEPT ![w] = fresh'[w]]
      BY <1>5 DEF ClaimBatch, IInv, TypeOK
    <2>2. UNCHANGED todo /\ todo[w] = {}
      BY <1>5 DEF ClaimBatch, IInv, PassShape
    <2>3. QED
      BY <1>4, <2>1, <2>2
  <1>6. ASSUME NEW w \in Worker, NEW d \in Destination, Deliver(w, d) PROVE TargetsAreOwners'
    <2>1. todo' = [todo EXCEPT ![w] = @ \ {d}] /\ UNCHANGED <<batch, fresh>>
      BY <1>6 DEF Deliver
    <2>2. \A v \in Worker : todo'[v] \subseteq todo[v]
      BY <2>1 DEF IInv, TypeOK
    <2>3. QED
      BY <1>1, <2>1, <2>2
  <1>7. ASSUME NEW w \in Worker, NEW n, NextRow(w, n), pc[w] # "send"
        PROVE  TargetsAreOwners'
    <2>1. /\ batch' = [batch EXCEPT ![w] = batch'[w]]
          /\ fresh' = [fresh EXCEPT ![w] = fresh'[w]]
      BY <1>7 DEF NextRow, IInv, TypeOK
    <2>2. UNCHANGED todo /\ todo[w] = {}
      BY <1>7 DEF NextRow, IInv, PassShape
    <2>3. QED
      BY <1>4, <2>1, <2>2
  <1>8. ASSUME NEW w \in Worker, EndPass(w) PROVE TargetsAreOwners'
    <2>1. todo'[w] = {} /\ \A v \in Worker \ {w} :
             todo'[v] = todo[v] /\ batch'[v] = batch[v] /\ fresh'[v] = fresh[v]
      BY <1>8 DEF EndPass, IInv, TypeOK
    <2>2. QED
      BY <1>1, <2>1
  <1>9. QED
    BY <1>2, <1>3, <1>5, <1>6, <1>7, <1>8
    DEF Next, Environment, Pass, Enqueue, DeleteListing, DeleteSearch, SetChat,
        RegisterDevice, Reach, UnregisterDevice, Tick, CompleteRead, CompleteWrite, Abort,
        passes, vars

LEMMA OwnerInvStep == OwnerInv /\ IInv /\ IInv' /\ [Next]_vars => OwnerInv'
  <1> SUFFICES ASSUME OwnerInv, IInv, TypeOK', [Next]_vars PROVE OwnerInv'
    BY DEF IInv
  <1>1. \A u \in User : dests'[u] \subseteq known'[u]
    BY OwnersOnRecord DEF OwnerInv
  <1>2. TargetsAreOwners'
    BY TargetsStep
  <1>3. ASSUME NEW n \in Notification
        PROVE  \/ accepted'[n] = accepted[n]
               \/ /\ row[n].status # "absent"
                  /\ \E d \in Destination : /\ accepted'[n] = accepted[n] \cup {d}
                                            /\ Rightful(n, d)
    <2>1. CASE UNCHANGED accepted
      BY <2>1
    <2>2. ASSUME NEW w \in Worker, NEW d \in Destination, Deliver(w, d), accepted' # accepted
          PROVE  \/ accepted'[n] = accepted[n]
                 \/ /\ row[n].status # "absent"
                    /\ \E c \in Destination : /\ accepted'[n] = accepted[n] \cup {c}
                                              /\ Rightful(n, c)
      <3>1. PICK m \in batch[w] :
              /\ Current(w, m) /\ d \in todo[w]
              /\ accepted' = [accepted EXCEPT ![m] = @ \cup {d}]
        BY <2>2 DEF Deliver, Arrives
      <3>2. m \in Notification /\ row[m].status # "absent" /\ Rightful(m, d)
        BY <3>1 DEF IInv, TypeOK, Ownership, OwnerInv, TargetsAreOwners
      <3>3. CASE n = m
        BY <3>1, <3>2, <3>3 DEF IInv, TypeOK
      <3>4. CASE n # m
        BY <3>1, <3>4 DEF IInv, TypeOK
      <3>5. QED
        BY <3>3, <3>4
    <2>3. QED
      BY <2>1, <2>2
      DEF Next, Environment, Pass, Enqueue, DeleteListing, DeleteSearch, SetChat,
          RegisterDevice, Reach, UnregisterDevice, Tick, ClaimBatch, ResolveDestination,
          CompleteRead, CompleteWrite, EndPass, Abort, history, vars
  <1>4. ASSUME NEW n \in Notification, row'[n].status = "absent" PROVE accepted'[n] = {}
    <2>1. row[n].status = "absent"
      BY <1>4, OwnerStaysStep DEF OwnerStays
    <2>2. QED
      BY <1>3, <2>1 DEF OwnerInv
  <1>5. ASSUME NEW n \in Notification, NEW d \in accepted'[n] PROVE Rightful(n, d)'
    <2>1. row[n].status # "absent" /\ Rightful(n, d)
      BY <1>3, <1>5 DEF OwnerInv
    <2>2. QED
      BY <2>1, RightfulStays
  <1>6. QED
    BY <1>1, <1>2, <1>4, <1>5 DEF OwnerInv

\* A message arrives only where its owner is, or was when the pass looked it up:
\* the security rule of outbox.py.
THEOREM OnlyOwners == Spec => []OnlyOwnersReceive
  <1>1. Init => OwnerInv
    BY DEF Init, OwnerInv, TargetsAreOwners
  <1>2. OwnerInv => OnlyOwnersReceive
    BY DEF OwnerInv, Rightful, OnlyOwnersReceive
  <1>3. QED
    BY <1>1, <1>2, OwnerInvStep, Invariance, PTL DEF Spec
=============================================================================
