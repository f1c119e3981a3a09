--------------------------- MODULE MessageDelivery ---------------------------
(***************************************************************************)
(* What the outbound queue promises of a message, with no worker, lock or  *)
(* retry in sight.  A submitted message stays open until it is concluded   *)
(* once and for all: SENT, FAILED or CANCELLED.  SENT is concluded only    *)
(* after the provider accepted the message at least once, and the terminal *)
(* history entry (MessageLog) appears in the very step that concludes the  *)
(* message as SENT or FAILED.  A cancelled message leaves no entry, and an *)
(* entry disappears only when history is purged.                           *)
(*                                                                         *)
(* The provider may still accept an open or a concluded message: delivery  *)
(* is at least once, never exactly once.                                   *)
(***************************************************************************)
CONSTANT Messages

VARIABLES
    outcome,   \* outcome[m]: NONE, OPEN, SENT, FAILED or CANCELLED
    accepted,  \* accepted[m]: has the provider accepted m at least once?
    history    \* history[m]: the terminal log entry of m, NONE without one

vars == <<outcome, accepted, history>>

Concluded == {"SENT", "FAILED", "CANCELLED"}

Init ==
    /\ outcome = [m \in Messages |-> "NONE"]
    /\ accepted = [m \in Messages |-> FALSE]
    /\ history = [m \in Messages |-> "NONE"]

\* A producer submits a message.
Submit(m) ==
    /\ outcome[m] = "NONE"
    /\ outcome' = [outcome EXCEPT ![m] = "OPEN"]
    /\ UNCHANGED <<accepted, history>>

\* The provider accepts the message for delivery.
Accept(m) ==
    /\ outcome[m] # "NONE"
    /\ accepted' = [accepted EXCEPT ![m] = TRUE]
    /\ UNCHANGED <<outcome, history>>

\* An open message gets its final result and its history entry at once.
Conclude(m, result) ==
    /\ outcome[m] = "OPEN"
    /\ history[m] = "NONE"
    /\ result = "SENT" => accepted[m]
    /\ outcome' = [outcome EXCEPT ![m] = result]
    /\ history' = [history EXCEPT ![m] = result]
    /\ UNCHANGED accepted

\* An open message is withdrawn; no history entry says so.
Withdraw(m) ==
    /\ outcome[m] = "OPEN"
    /\ outcome' = [outcome EXCEPT ![m] = "CANCELLED"]
    /\ UNCHANGED <<accepted, history>>

\* The history of some messages is deleted; what became of them stays.
Purge(M) ==
    /\ history' = [m \in Messages |-> IF m \in M THEN "NONE" ELSE history[m]]
    /\ UNCHANGED <<outcome, accepted>>

Next ==
    \/ \E m \in Messages : Submit(m) \/ Accept(m) \/ Withdraw(m)
    \/ \E m \in Messages, result \in {"SENT", "FAILED"} : Conclude(m, result)
    \/ \E M \in SUBSET Messages : Purge(M)

Spec == Init /\ [][Next]_vars
==============================================================================
