---------------------------- MODULE DeliveryStatus ----------------------------
(***************************************************************************)
(* The webhook by which Meta reports what became of an accepted message:   *)
(* src/backend/src/meta-webhook/.  A request carries several events; the   *)
(* handler looks up the row of each by the provider's id and updates it    *)
(* under the condition that its deliveryStatus is still the one it read.   *)
(* Requests are handled concurrently, and beside markAsSent of the queue's *)
(* worker, which stores the id after Meta accepted the message.            *)
(*                                                                         *)
(* Meta posts a request again until it is answered 200, may do so even     *)
(* afterwards, and reports events in any order.                            *)
(***************************************************************************)
EXTENDS Naturals, Sequences

CONSTANTS
    Messages,      \* OutboundMessage rows of provider META_CLOUD
    Ids,           \* providerMessageIds
    ProviderId,    \* ProviderId[m]: the id Meta gave to m; no index makes it unique
    Handlers,      \* requests handled at the same time
    Payloads,      \* requests Meta may post: sequences of events, in any order
    MaxFaults,     \* bound on failed database calls and interrupted handlers
    EarlyReports   \* may Meta report on a message before its row has the id?

ASSUME ProviderIdAssumption == ProviderId \in [Messages -> Ids]
ASSUME BoundsAssumption == MaxFaults \in Nat /\ EarlyReports \in BOOLEAN

Reports == {"SENT", "DELIVERED", "READ", "FAILED"}
Events == [id : Ids, status : Reports]

ASSUME PayloadsAssumption == Payloads \subseteq Seq(Events)

VARIABLES
    stored,          \* rows whose provider and providerMessageId are stored
    deliveryStatus,  \* deliveryStatus, NONE for null
    stamps,          \* which of deliveredAt, readAt and failedAt are set
    posted,          \* requests Meta posted
    acked,           \* of those, the ones answered 200
    pc,              \* the await a handler stands at
    request,         \* the request it handles
    todo,            \* the events of it still to process
    found,           \* the row it looked up and the deliveryStatus it read
    faults           \* faults so far

rowVars == <<stored, deliveryStatus, stamps>>
metaVars == <<posted, acked>>
handlerVars == <<pc, request, todo, found>>
vars == <<rowVars, metaVars, handlerVars, faults>>

------------------------------------------------------------------------------
(* Types *)

DeliveryStatuses == Reports \union {"NONE"}
Stamps == {"DELIVERED", "READ", "FAILED"}
Found == [row : Messages, seen : DeliveryStatuses]
NotFound == [row |-> "none", seen |-> "NONE"]

TypeOK ==
    /\ stored \in SUBSET Messages
    /\ deliveryStatus \in [Messages -> DeliveryStatuses]
    /\ stamps \in [Messages -> SUBSET Stamps]
    /\ posted \in SUBSET Payloads
    /\ acked \in SUBSET posted
    /\ pc \in [Handlers -> {"idle", "event", "update"}]
    /\ request \in [Handlers -> Payloads \union {<<>>}]
    /\ todo \in [Handlers -> Seq(Events)]
    /\ found \in [Handlers -> Found \union {NotFound}]
    /\ \A h \in Handlers :
          pc[h] = "update" => found[h] \in Found /\ todo[h] # <<>>
    /\ faults \in Nat

Init ==
    /\ stored = {}
    /\ deliveryStatus = [m \in Messages |-> "NONE"]
    /\ stamps = [m \in Messages |-> {}]
    /\ posted = {}
    /\ acked = {}
    /\ pc = [h \in Handlers |-> "idle"]
    /\ request = [h \in Handlers |-> <<>>]
    /\ todo = [h \in Handlers |-> <<>>]
    /\ found = [h \in Handlers |-> NotFound]
    /\ faults = 0

------------------------------------------------------------------------------
(* Outside the webhook *)

\* markAsSent commits: the row can be found by its id from now on.
StoreId(m) ==
    /\ m \notin stored
    /\ stored' = stored \union {m}
    /\ UNCHANGED <<deliveryStatus, stamps, metaVars, handlerVars, faults>>

EventsOf(q) == {q[i] : i \in DOMAIN q}
Reported == UNION {EventsOf(q) : q \in posted}

\* Mutually exclusive outcomes of one message.
Consistent(E) ==
    \A d, e \in E :
        d.id = e.id /\ d.status = "FAILED" => e.status \in {"SENT", "FAILED"}

\* Meta posts a request with events it has not reported yet.
Post(q) ==
    /\ EventsOf(q) \intersect Reported = {}
    /\ \A i, j \in DOMAIN q : q[i] = q[j] => i = j
    /\ Consistent(Reported \union EventsOf(q))
    /\ \A e \in EventsOf(q), m \in Messages :
          ProviderId[m] = e.id => EarlyReports \/ m \in stored
    /\ posted' = posted \union {q}
    /\ UNCHANGED <<rowVars, acked, handlerVars, faults>>

------------------------------------------------------------------------------
(* MetaWebhookService.handle *)

\* Meta delivers a request, for the first time or once more.
Receive(h, q) ==
    /\ pc[h] = "idle"
    /\ q \in posted
    /\ pc' = [pc EXCEPT ![h] = "event"]
    /\ request' = [request EXCEPT ![h] = q]
    /\ todo' = [todo EXCEPT ![h] = q]
    /\ UNCHANGED <<rowVars, metaVars, found, faults>>

\* Mutant of canAdvanceDelivery: any news replaces what is recorded.
CanAdvanceToNews(current, next) == next # current

canAdvanceDelivery(current, next) ==
    \/ current = "NONE"
    \/ current = "SENT" /\ next # "SENT"
    \/ current = "DELIVERED" /\ next = "READ"

\* Mutant of Matches: the lookup takes the first row.
MatchesFirst(id) ==
    LET all == {m \in stored : ProviderId[m] = id}
    IN  IF all = {} THEN {} ELSE {CHOOSE m \in all : TRUE}

\* findMany with provider and providerMessageId.
Matches(id) == {m \in stored : ProviderId[m] = id}

\* matches.length > 1
Ambiguous(S) == \E m, n \in S : m # n

\* The handler is done with the request and forgets it.
Leave(h) ==
    /\ pc' = [pc EXCEPT ![h] = "idle"]
    /\ request' = [request EXCEPT ![h] = <<>>]
    /\ todo' = [todo EXCEPT ![h] = <<>>]
    /\ found' = [found EXCEPT ![h] = NotFound]

\* ServiceUnavailableException: 503, Meta will post the request again.
Unavailable(h) == Leave(h) /\ UNCHANGED metaVars

\* On to the next event of the request.
NextEvent(h) ==
    /\ pc' = [pc EXCEPT ![h] = "event"]
    /\ todo' = [todo EXCEPT ![h] = Tail(@)]
    /\ found' = [found EXCEPT ![h] = NotFound]
    /\ UNCHANGED <<request, metaVars>>

\* The lookup of the next event's row.
FindMessage(h) ==
    /\ pc[h] = "event" /\ todo[h] # <<>>
    /\ LET event == Head(todo[h])
           matches == Matches(event.id)
       IN  \/ Ambiguous(matches) /\ Unavailable(h)
           \/ /\ ~Ambiguous(matches)
              /\ \A m \in matches : ~canAdvanceDelivery(deliveryStatus[m], event.status)
              /\ NextEvent(h)
           \/ /\ ~Ambiguous(matches)
              /\ \E m \in matches :
                    /\ canAdvanceDelivery(deliveryStatus[m], event.status)
                    /\ found' = [found EXCEPT ![h] =
                                   [row |-> m, seen |-> deliveryStatus[m]]]
              /\ pc' = [pc EXCEPT ![h] = "update"]
              /\ UNCHANGED <<request, todo, metaVars>>
    /\ UNCHANGED <<rowVars, faults>>

\* The condition of the update.
Unchanged(f) == deliveryStatus[f.row] = f.seen

Write(m, s) ==
    /\ deliveryStatus' = [deliveryStatus EXCEPT ![m] = s]
    /\ stamps' = [stamps EXCEPT ![m] = @ \union ({s} \intersect Stamps)]
    /\ UNCHANGED stored

\* Mutant of UpdateStatus: a lost race is acknowledged like a success.
UpdateStatusIgnoresCount(h) ==
    /\ pc[h] = "update"
    /\ IF Unchanged(found[h])
         THEN Write(found[h].row, Head(todo[h]).status) /\ NextEvent(h)
         ELSE UNCHANGED rowVars /\ NextEvent(h)
    /\ UNCHANGED faults

\* The conditional update; a concurrent transition is left to a redelivery.
UpdateStatus(h) ==
    /\ pc[h] = "update"
    /\ IF Unchanged(found[h])
         THEN Write(found[h].row, Head(todo[h]).status) /\ NextEvent(h)
         ELSE UNCHANGED rowVars /\ Unavailable(h)
    /\ UNCHANGED faults

\* A database call fails, the update's perhaps after it was applied, or the
\* process dies: no 200 is sent.
HandlerFails(h) ==
    /\ pc[h] # "idle"
    /\ faults < MaxFaults
    /\ faults' = faults + 1
    /\ \/ UNCHANGED rowVars
       \/ pc[h] = "update" /\ Unchanged(found[h])
          /\ Write(found[h].row, Head(todo[h]).status)
    /\ Unavailable(h)

\* Every event is processed: 200.
Acknowledge(h) ==
    /\ pc[h] = "event" /\ todo[h] = <<>>
    /\ acked' = acked \union {request[h]}
    /\ Leave(h)
    /\ UNCHANGED <<rowVars, posted, faults>>

------------------------------------------------------------------------------
(* The specification *)

Handle(h) == FindMessage(h) \/ UpdateStatus(h) \/ Acknowledge(h)

Next ==
    \/ \E m \in Messages : StoreId(m)
    \/ \E q \in Payloads : Post(q)
    \/ \E h \in Handlers :
          \/ \E q \in posted : Receive(h, q)
          \/ Handle(h)
          \/ HandlerFails(h)

Spec == Init /\ [][Next]_vars

\* Awaits return, and Meta posts what was not answered 200 again and again.
Redelivery(q) == q \notin acked /\ \E h \in Handlers : Receive(h, q)
Fairness ==
    /\ \A h \in Handlers : WF_vars(Handle(h))
    /\ \A q \in Payloads : SF_vars(Redelivery(q))
FairSpec == Spec /\ Fairness

------------------------------------------------------------------------------
(* Properties *)

Rank == [s \in DeliveryStatuses |->
           CASE s = "NONE" -> 0 [] s = "SENT" -> 1 [] s = "DELIVERED" -> 2
             [] s \in {"READ", "FAILED"} -> 3]

\* Whatever the order and number of deliveries, a row only moves forward, and a
\* delivered message never becomes FAILED (canAdvanceDelivery under the
\* conditional update).
OnlyForward ==
    [][\A m \in Messages : deliveryStatus'[m] # deliveryStatus[m] =>
          /\ Rank[deliveryStatus'[m]] > Rank[deliveryStatus[m]]
          /\ deliveryStatus'[m] = "FAILED" => deliveryStatus[m] \in {"NONE", "SENT"}]_vars

\* The timestamps tell the same story as deliveryStatus: a failed message has
\* no time of delivery or reading, and a time is set by the event itself.
StampsMatch ==
    \A m \in Messages :
        /\ deliveryStatus[m] \in {"NONE", "SENT"} => stamps[m] = {}
        /\ deliveryStatus[m] = "DELIVERED" => stamps[m] = {"DELIVERED"}
        /\ deliveryStatus[m] = "READ" => stamps[m] \in {{"READ"}, {"DELIVERED", "READ"}}
        /\ deliveryStatus[m] = "FAILED" => stamps[m] = {"FAILED"}

\* The row has caught up with a reported status.
Recorded(m, s) ==
    CASE s = "SENT" -> deliveryStatus[m] # "NONE"
      [] s = "DELIVERED" -> deliveryStatus[m] \in {"DELIVERED", "READ"}
      [] s \in {"READ", "FAILED"} -> deliveryStatus[m] = s

\* A request is answered 200 only when each of its events is recorded, even
\* when another handler updated the row between lookup and update. The code
\* says that an event must not be "acknowledged silently (which could lose a
\* READ event)". It holds for messages whose id was stored before Meta reported:
\* an event with an id that no row has is ignored, by design (backend/README.md:958).
AcknowledgedIsRecorded ==
    \A q \in acked : \A e \in EventsOf(q), m \in stored :
        ProviderId[m] = e.id => Recorded(m, e.status)

\* Rows that share a provider id are left alone (matches.length > 1).
AmbiguousUntouched ==
    \A m, n \in Messages :
        m # n /\ ProviderId[m] = ProviderId[n] => deliveryStatus[m] = "NONE"

\* No row shares the id with another.
Unshared(id) == \A m, n \in Messages : ProviderId[m] = id /\ ProviderId[n] = id => m = n

\* What Meta reported is recorded in the end, whatever handlers do to each other;
\* unless an event before it in the request concerns rows that share an id, for
\* which the request is answered 503 again and again.
EventuallyRecorded ==
    \A m \in Messages, s \in Reports :
        (\E q \in posted : \E i \in DOMAIN q :
            /\ q[i] = [id |-> ProviderId[m], status |-> s]
            /\ \A j \in 1..i : Unshared(q[j].id))
        ~> Recorded(m, s)

------------------------------------------------------------------------------
(* The inductive invariant behind the safety properties *)

\* A recorded status was reported; what the run assumes of Meta.
ReportsInv ==
    /\ Consistent(Reported)
    /\ \A m \in Messages : deliveryStatus[m] # "NONE" =>
          /\ m \in stored
          /\ [id |-> ProviderId[m], status |-> deliveryStatus[m]] \in Reported
    /\ ~EarlyReports =>
          \A e \in Reported, m \in Messages : ProviderId[m] = e.id => m \in stored

\* What a handler about to update knows of the row it found.
FoundInv ==
    \A h \in Handlers : pc[h] = "update" =>
        /\ found[h].row \in stored
        /\ ProviderId[found[h].row] = Head(todo[h]).id
        /\ canAdvanceDelivery(found[h].seen, Head(todo[h]).status)
        /\ ~EarlyReports =>
              \A m \in Messages : ProviderId[m] = Head(todo[h]).id => m = found[h].row

\* The events a handler is done with are recorded.
HandledInv ==
    \A h \in Handlers : pc[h] # "idle" =>
        /\ request[h] \in posted
        /\ EventsOf(todo[h]) \subseteq EventsOf(request[h])
        /\ ~EarlyReports =>
              \A e \in EventsOf(request[h]) \ EventsOf(todo[h]), m \in stored :
                  ProviderId[m] = e.id => Recorded(m, e.status)

IInv ==
    /\ TypeOK /\ StampsMatch /\ ReportsInv /\ FoundInv /\ HandledInv
    /\ ~EarlyReports => AcknowledgedIsRecorded /\ AmbiguousUntouched
==============================================================================
