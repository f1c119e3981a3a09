-------------------------- MODULE ChannelReservation --------------------------
(***************************************************************************)
(* The reservation of a WhatsApp channel: reserveChannel of                *)
(* src/backend/src/messaging-channel/                                      *)
(* messaging-channel-provisioning.service.ts, and the entitlement that     *)
(* limits it (src/backend/src/entitlement/entitlement.service.ts).         *)
(*                                                                         *)
(* Channels of different companies are counted apart: the module is about  *)
(* one company.  A channel is known by the provisioning key of the client, *)
(* under a unique index, and is never deleted.  Requests read and insert   *)
(* in serializable transactions, which Postgres may abort; the limit is    *)
(* changed outside of them.                                                *)
(***************************************************************************)
EXTENDS Naturals, FiniteSets

CONSTANTS
    Clients,      \* requests handled at the same time
    Keys,         \* provisioning keys
    MaxLimit,     \* bound on the limits that are granted
    MaxAborts,    \* bound on failed calls and on aborts without a cause
    NoKey

ASSUME LimitAssumption == MaxLimit \in Nat /\ MaxAborts \in Nat
ASSUME KeysAssumption == IsFiniteSet(Keys) /\ NoKey \notin Keys

MAX_TRANSACTION_ATTEMPTS == 3

VARIABLES
    reserved,   \* keys that have a channel
    limit,      \* the entitlement, 0 when there is none
    granted,    \* the largest limit there was
    stage,      \* the await a request stands at
    key,        \* the provisioningKey of a request
    attempt,    \* the transaction it is in
    snapshot,   \* the channels that transaction sees
    began,      \* the channels there were when the request, or the last one, began
    outcome,    \* what the request was answered last
    aborts      \* failed calls and aborts without a cause so far

entitlementVars == <<limit, granted>>
requestVars == <<stage, key, attempt, snapshot, began>>
reservationVars == <<reserved, entitlementVars, requestVars, outcome, aborts>>

Outcomes == {"none", "channel", "limit", "unavailable"}

ReservationTypeOK ==
    /\ reserved \in SUBSET Keys
    /\ limit \in 0..MaxLimit /\ granted \in limit..MaxLimit
    /\ stage \in [Clients -> {"idle", "begin", "commit", "refind"}]
    /\ key \in [Clients -> Keys \union {NoKey}]
    /\ attempt \in [Clients -> 0..MAX_TRANSACTION_ATTEMPTS]
    /\ snapshot \in [Clients -> SUBSET Keys]
    /\ began \in [Clients -> SUBSET Keys]
    /\ outcome \in [Clients -> Outcomes]
    /\ aborts \in 0..MaxAborts
    /\ \A c \in Clients : stage[c] # "idle" => attempt[c] > 0 /\ key[c] \in Keys

ReservationInit ==
    /\ reserved = {}
    /\ limit \in 0..MaxLimit /\ granted = limit
    /\ stage = [c \in Clients |-> "idle"]
    /\ key = [c \in Clients |-> NoKey]
    /\ attempt = [c \in Clients |-> 0]
    /\ snapshot = [c \in Clients |-> {}]
    /\ began = [c \in Clients |-> {}]
    /\ outcome = [c \in Clients |-> "none"]
    /\ aborts = 0

------------------------------------------------------------------------------
(* Helpers *)

Failure == aborts < MaxAborts /\ aborts' = aborts + 1

Answer(c, o) ==
    /\ stage' = [stage EXCEPT ![c] = "idle"]
    /\ attempt' = [attempt EXCEPT ![c] = 0]
    /\ snapshot' = [snapshot EXCEPT ![c] = {}]
    /\ outcome' = [outcome EXCEPT ![c] = o]
    /\ UNCHANGED <<key, began>>

Wait(c, s) ==
    /\ stage' = [stage EXCEPT ![c] = s]
    /\ UNCHANGED <<key, attempt, began, outcome>>

\* Mutant of TryAgain: off by one.
TryAgainOnce(c) ==
    IF attempt[c] + 1 < MAX_TRANSACTION_ATTEMPTS
      THEN /\ stage' = [stage EXCEPT ![c] = "begin"]
           /\ attempt' = [attempt EXCEPT ![c] = @ + 1]
           /\ snapshot' = [snapshot EXCEPT ![c] = {}]
           /\ UNCHANGED <<key, began, outcome>>
      ELSE Answer(c, "unavailable")

\* P2002 or P2034: the next transaction, unless this was the last.
TryAgain(c) ==
    IF attempt[c] < MAX_TRANSACTION_ATTEMPTS
      THEN /\ stage' = [stage EXCEPT ![c] = "begin"]
           /\ attempt' = [attempt EXCEPT ![c] = @ + 1]
           /\ snapshot' = [snapshot EXCEPT ![c] = {}]
           /\ UNCHANGED <<key, began, outcome>>
      ELSE Answer(c, "unavailable")

------------------------------------------------------------------------------
(* The entitlement *)

\* setLimit: a valid limit, written at the default isolation level.
SetLimit(l) ==
    /\ l # limit
    /\ limit' = l
    /\ granted' = IF l > granted THEN l ELSE granted
    /\ UNCHANGED <<reserved, requestVars, outcome, aborts>>

------------------------------------------------------------------------------
(* The request *)

StartReservation(c, k) ==
    /\ stage[c] = "idle"
    /\ stage' = [stage EXCEPT ![c] = "begin"]
    /\ key' = [key EXCEPT ![c] = k]
    /\ attempt' = [attempt EXCEPT ![c] = 1]
    /\ began' = [began EXCEPT ![c] = reserved]
    /\ outcome' = [outcome EXCEPT ![c] = "none"]
    /\ UNCHANGED <<reserved, entitlementVars, snapshot, aborts>>

LimitReached == Cardinality(reserved) >= limit

\* The reads of the transaction, all of one snapshot: findUnique by key, the
\* entitlement, the count.
Begin(c) ==
    /\ stage[c] = "begin"
    /\ \/ /\ key[c] \in reserved
          /\ Answer(c, "channel")
          /\ UNCHANGED aborts
       \/ /\ key[c] \notin reserved /\ LimitReached
          /\ Answer(c, "limit")
          /\ UNCHANGED aborts
       \/ /\ key[c] \notin reserved /\ ~LimitReached
          /\ Wait(c, "commit")
          /\ snapshot' = [snapshot EXCEPT ![c] = reserved]
          /\ UNCHANGED aborts
       \/ Failure /\ Answer(c, "unavailable")
    /\ UNCHANGED <<reserved, entitlementVars>>

\* Mutant of Overtaken: the transaction is not serializable.
OvertakenByKey(c) == key[c] \in reserved

\* Another transaction inserted what this one has not seen.  Both counted and
\* both insert: not serializable.
Overtaken(c) == reserved # snapshot[c]

\* create and commit.  A lost reply is neither P2002 nor P2034; P2002 without a
\* channel of the key is a collision of instanceName.
Commit(c) ==
    /\ stage[c] = "commit"
    /\ \/ /\ ~Overtaken(c)
          /\ reserved' = reserved \union {key[c]}
          /\ \/ Answer(c, "channel") /\ UNCHANGED aborts
             \/ Answer(c, "unavailable") /\ Failure
       \/ UNCHANGED <<reserved, aborts>> /\ Overtaken(c) /\ TryAgain(c)
       \/ UNCHANGED reserved /\ Failure /\ TryAgain(c)
       \/ UNCHANGED reserved /\ Failure /\ Answer(c, "unavailable")
       \/ /\ \/ key[c] \in reserved /\ UNCHANGED aborts
             \/ key[c] \notin reserved /\ Failure
          /\ Wait(c, "refind") /\ UNCHANGED <<reserved, snapshot>>
    /\ UNCHANGED entitlementVars

\* After P2002: findUnique by key outside the transaction.
Refind(c) ==
    /\ stage[c] = "refind"
    /\ \/ key[c] \in reserved /\ Answer(c, "channel") /\ UNCHANGED aborts
       \/ key[c] \notin reserved /\ TryAgain(c) /\ UNCHANGED aborts
       \/ Failure /\ Answer(c, "unavailable")
    /\ UNCHANGED <<reserved, entitlementVars>>

ReservationNext ==
    \/ \E l \in 0..MaxLimit : SetLimit(l)
    \/ \E c \in Clients :
          \/ \E k \in Keys : StartReservation(c, k)
          \/ Begin(c) \/ Commit(c) \/ Refind(c)

ReservationSpec == ReservationInit /\ [][ReservationNext]_reservationVars

------------------------------------------------------------------------------
(* Properties *)

\* The channels of a company never outnumber the largest limit it was granted,
\* however many reservations overlap.  A limit that is lowered takes no channel
\* away, and a reservation that has read the old one still commits.
WithinGrantedLimit == Cardinality(reserved) <= granted

\* The channels that were reserved since the request of c began.
Since(c) == Cardinality(reserved \ began[c])

\* Three attempts are enough unless three others got in between: as long as the
\* database neither fails nor aborts without a cause, a request is only refused as
\* unavailable after three channels were reserved while it ran, however many there
\* were before; and every attempt but its first is owed to one of them.
UnavailableIsContention ==
    aborts = 0 =>
        \A c \in Clients :
            /\ attempt[c] <= Since(c) + 1
            /\ outcome[c] = "unavailable" => Since(c) >= MAX_TRANSACTION_ATTEMPTS

\* How far a request is from its answer: the transactions it may still begin, and
\* the awaits of the one it is in.
AttemptsLeft(c) ==
    IF stage[c] = "idle" THEN 0
    ELSE 3 * (MAX_TRANSACTION_ATTEMPTS - attempt[c])
         + (CASE stage[c] = "begin" -> 3 [] stage[c] = "commit" -> 2 [] stage[c] = "refind" -> 1)

\* Every await of a reservation that returns brings it closer to its answer, whatever
\* is answered: collisions and aborts do not make it try for ever.
ReservationProgress ==
    \A c \in Clients :
        stage[c] # "idle" =>
            \/ stage'[c] = stage[c]
            \/ AttemptsLeft(c)' \in 0..(AttemptsLeft(c) - 1)

ReservationAdvances == [][ReservationProgress]_reservationVars
==============================================================================
