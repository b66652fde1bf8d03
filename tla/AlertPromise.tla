---------------------------- MODULE AlertPromise ----------------------------
(***************************************************************************)
(* What the notification outbox promises of one channel, with nothing of   *)
(* how: an alert that was enqueued is due until it is delivered or given   *)
(* up; it is called delivered only when it has been received; it may be    *)
(* received more than once (at least once, not exactly once); a settled    *)
(* alert stays settled unless two passes fought over it; an alert can be   *)
(* withdrawn with its listing.                                             *)
(* This is the delivery-semantics section of core/notifications/outbox.py. *)
(***************************************************************************)
CONSTANT Alert

VARIABLES
    state,      \* "none", "due", "delivered", "abandoned", "withdrawn"
    received,   \* alerts that reached a destination at least once
    contested   \* alerts a second pass may have claimed from under a first

pvars == <<state, received, contested>>

PromiseInit ==
    /\ state = [a \in Alert |-> "none"]
    /\ received = {}
    /\ contested = {}

Promise(a) ==
    /\ state[a] = "none"
    /\ state' = [state EXCEPT ![a] = "due"]
    /\ UNCHANGED <<received, contested>>

\* A message that is under way arrives, whatever became of its alert since.
Receive(a) ==
    /\ state[a] # "none"
    /\ received' = received \cup {a}
    /\ UNCHANGED <<state, contested>>

Settle(a) ==
    /\ state[a] = "due"
    /\ \E s \in {"delivered", "abandoned"} :
          /\ s = "delivered" => a \in received
          /\ state' = [state EXCEPT ![a] = s]
    /\ UNCHANGED <<received, contested>>

\* Late outcomes of a contested alert overwrite each other.
Unsettle(a) ==
    /\ a \in contested
    /\ state[a] \in {"delivered", "abandoned"}
    /\ \E s \in {"due", "delivered", "abandoned"} :
          /\ s = "delivered" => a \in received
          /\ state' = [state EXCEPT ![a] = s]
    /\ UNCHANGED <<received, contested>>

Withdraw(A) ==
    /\ \A a \in A : state[a] \in {"due", "delivered", "abandoned"}
    /\ state' = [a \in Alert |-> IF a \in A THEN "withdrawn" ELSE state[a]]
    /\ UNCHANGED <<received, contested>>

Contest(A) ==
    /\ \A a \in A : state[a] = "due"
    /\ contested' = contested \cup A
    /\ UNCHANGED <<state, received>>

PromiseNext ==
    \/ \E a \in Alert : Promise(a) \/ Receive(a) \/ Settle(a) \/ Unsettle(a)
    \/ \E A \in SUBSET Alert : Withdraw(A) \/ Contest(A)

PromiseSpec == PromiseInit /\ [][PromiseNext]_pvars
=============================================================================
