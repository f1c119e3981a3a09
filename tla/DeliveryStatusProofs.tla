------------------------ MODULE DeliveryStatusProofs ------------------------
(***************************************************************************)
(* Proofs about DeliveryStatus, for any rows, ids, requests and handlers.  *)
(*                                                                         *)
(* A write happens only while the row is as the handler read it, so it     *)
(* moves the row forward (WriteAdvances); what was recorded before stays   *)
(* recorded because Meta's reports on a message are consistent.            *)
(***************************************************************************)
EXTENDS DeliveryStatus, TLAPS

\* What a handler leaves behind when it goes on to the next event.
LEMMA TailEvents ==
    ASSUME NEW s \in Seq(Events), s # <<>>
    PROVE  /\ Head(s) \in Events /\ Head(s) \in EventsOf(s)
           /\ Tail(s) \in Seq(Events)
           /\ EventsOf(Tail(s)) \subseteq EventsOf(s)
           /\ EventsOf(s) \ EventsOf(Tail(s)) \subseteq {Head(s)}
  <1>1. Len(s) \in Nat /\ Len(s) >= 1 /\ DOMAIN s = 1..Len(s) /\ Head(s) = s[1]
    OBVIOUS
  <1>2. Tail(s) \in Seq(Events) /\ Len(Tail(s)) = Len(s) - 1
        /\ \A i \in 1..(Len(s) - 1) : Tail(s)[i] = s[i + 1]
    OBVIOUS
  <1>3. DOMAIN Tail(s) = 1..(Len(s) - 1)
    BY <1>2
  <1>4. Head(s) \in EventsOf(s) /\ Head(s) \in Events
    BY <1>1 DEF EventsOf
  <1>5. EventsOf(Tail(s)) \subseteq EventsOf(s)
    <2> SUFFICES ASSUME NEW i \in 1..(Len(s) - 1) PROVE Tail(s)[i] \in EventsOf(s)
      BY <1>3 DEF EventsOf
    <2>1. i + 1 \in DOMAIN s
      BY <1>1
    <2>q. QED
      BY <2>1, <1>2 DEF EventsOf
  <1>6. EventsOf(s) \ EventsOf(Tail(s)) \subseteq {Head(s)}
    <2> SUFFICES ASSUME NEW i \in 1..Len(s), s[i] # s[1]
                 PROVE  s[i] \in EventsOf(Tail(s))
      BY <1>1 DEF EventsOf
    <2>1. i - 1 \in 1..(Len(s) - 1) /\ Tail(s)[i - 1] = s[i]
      BY <1>1, <1>2
    <2>q. QED
      BY <2>1, <1>3 DEF EventsOf
  <1>q. QED
    BY <1>2, <1>4, <1>5, <1>6

\* The events of a posted request are well formed and reported.
LEMMA PostedEvents ==
    ASSUME posted \subseteq Payloads, NEW q \in posted
    PROVE  q \in Seq(Events) /\ EventsOf(q) \subseteq Reported /\ EventsOf(q) \subseteq Events
  <1>1. q \in Seq(Events)
    BY PayloadsAssumption
  <1>q. QED
    BY <1>1 DEF EventsOf, Reported

------------------------------------------------------------------------------
(* Types *)

LEMMA InitIInv == Init => IInv
  BY ProviderIdAssumption
  DEF Init, IInv, TypeOK, StampsMatch, ReportsInv, FoundInv, HandledInv, Consistent,
      Reported, EventsOf, AcknowledgedIsRecorded, AmbiguousUntouched, DeliveryStatuses,
      Reports, NotFound

\* Every step keeps the types.
LEMMA TypeStep ==
    ASSUME TypeOK, HandledInv, [Next]_vars
    PROVE  TypeOK'
  <1> USE BoundsAssumption DEF TypeOK
  <1>1. ASSUME NEW m \in Messages, StoreId(m) PROVE TypeOK'
    BY <1>1 DEF StoreId, metaVars, handlerVars
  <1>2. ASSUME NEW q \in Payloads, Post(q) PROVE TypeOK'
    BY <1>2 DEF Post, rowVars, handlerVars
  <1>3. ASSUME NEW h \in Handlers, NEW q \in posted, Receive(h, q) PROVE TypeOK'
    <2>1. q \in Payloads /\ q \in Seq(Events)
      BY PayloadsAssumption
    <2>q. QED
      BY <1>3, <2>1 DEF Receive, rowVars, metaVars
  <1> DEFINE HandlerTypes ==
        /\ pc \in [Handlers -> {"idle", "event", "update"}]
        /\ request \in [Handlers -> Payloads \union {<<>>}]
        /\ todo \in [Handlers -> Seq(Events)]
        /\ found \in [Handlers -> Found \union {NotFound}]
        /\ \A g \in Handlers : pc[g] = "update" => found[g] \in Found /\ todo[g] # <<>>
  <1>l. ASSUME NEW h \in Handlers, Leave(h) PROVE HandlerTypes'
    <2>1. <<>> \in Seq(Events)
      OBVIOUS
    <2>q. QED
      BY <1>l, <2>1 DEF Leave
  <1>n. ASSUME NEW h \in Handlers, todo[h] # <<>>, NextEvent(h) PROVE HandlerTypes'
    <2>1. Tail(todo[h]) \in Seq(Events)
      BY <1>n, TailEvents
    <2>q. QED
      BY <1>n, <2>1 DEF NextEvent
  <1>w. ASSUME NEW h \in Handlers, pc[h] = "update", Write(found[h].row, Head(todo[h]).status)
        PROVE  /\ stored' \in SUBSET Messages
               /\ deliveryStatus' \in [Messages -> DeliveryStatuses]
               /\ stamps' \in [Messages -> SUBSET Stamps]
    <2>1. found[h].row \in Messages
      BY <1>w DEF Found
    <2>2. Head(todo[h]).status \in Reports
      BY <1>w, TailEvents DEF Events
    <2>q. QED
      BY <1>w, <2>1, <2>2 DEF Write, DeliveryStatuses
  <1>4. ASSUME NEW h \in Handlers, FindMessage(h) PROVE TypeOK'
    <2>1. CASE Unavailable(h)
      BY <1>4, <2>1, <1>l DEF Unavailable, FindMessage, rowVars, metaVars
    <2>2. CASE NextEvent(h)
      BY <1>4, <2>2, <1>n DEF NextEvent, FindMessage, rowVars, metaVars
    <2>3. CASE /\ \E m \in Matches(Head(todo[h]).id) :
                     found' = [found EXCEPT ![h] = [row |-> m, seen |-> deliveryStatus[m]]]
               /\ pc' = [pc EXCEPT ![h] = "update"]
               /\ UNCHANGED <<request, todo, metaVars>>
      <3>1. PICK m \in Matches(Head(todo[h]).id) :
              found' = [found EXCEPT ![h] = [row |-> m, seen |-> deliveryStatus[m]]]
        BY <2>3
      <3>2. [row |-> m, seen |-> deliveryStatus[m]] \in Found
        BY DEF Matches, Found
      <3>q. QED
        BY <1>4, <2>3, <3>1, <3>2 DEF FindMessage, rowVars, metaVars
    <2>q. QED
      BY <1>4, <2>1, <2>2, <2>3 DEF FindMessage
  <1>5. ASSUME NEW h \in Handlers, UpdateStatus(h) PROVE TypeOK'
    <2>1. CASE Write(found[h].row, Head(todo[h]).status) /\ NextEvent(h)
      BY <1>5, <2>1, <1>w, <1>n DEF UpdateStatus, NextEvent, metaVars
    <2>2. CASE UNCHANGED rowVars /\ Unavailable(h)
      BY <1>5, <2>2, <1>l DEF UpdateStatus, Unavailable, rowVars, metaVars
    <2>q. QED
      BY <1>5, <2>1, <2>2 DEF UpdateStatus
  <1>6. ASSUME NEW h \in Handlers, HandlerFails(h) PROVE TypeOK'
    <2>1. HandlerTypes' /\ UNCHANGED metaVars /\ faults' \in Nat
      BY <1>6, <1>l DEF HandlerFails, Unavailable
    <2>2. CASE UNCHANGED rowVars
      BY <2>1, <2>2 DEF rowVars, metaVars
    <2>3. CASE pc[h] = "update" /\ Write(found[h].row, Head(todo[h]).status)
      BY <2>1, <2>3, <1>w DEF metaVars
    <2>q. QED
      BY <1>6, <2>2, <2>3 DEF HandlerFails
  <1>7. ASSUME NEW h \in Handlers, Acknowledge(h) PROVE TypeOK'
    <2>1. request[h] \in posted
      BY <1>7 DEF Acknowledge, HandledInv
    <2>q. QED
      BY <1>7, <2>1, <1>l DEF Acknowledge, rowVars
  <1>8. CASE UNCHANGED vars
    BY <1>8 DEF vars, rowVars, metaVars, handlerVars
  <1>q. QED
    BY <1>1, <1>2, <1>3, <1>4, <1>5, <1>6, <1>7, <1>8 DEF Next, Handle

------------------------------------------------------------------------------
(* Steps that do not write a row *)

\* What the invariant says of the database and of Meta.
DatabaseInv ==
    /\ StampsMatch /\ ReportsInv
    /\ ~EarlyReports => AcknowledgedIsRecorded /\ AmbiguousUntouched

\* What it says of one handler.
HandlerInv(h) ==
    /\ pc[h] = "update" =>
        /\ found[h].row \in stored
        /\ ProviderId[found[h].row] = Head(todo[h]).id
        /\ canAdvanceDelivery(found[h].seen, Head(todo[h]).status)
        /\ ~EarlyReports =>
              \A m \in Messages : ProviderId[m] = Head(todo[h]).id => m = found[h].row
    /\ pc[h] # "idle" =>
        /\ request[h] \in posted
        /\ EventsOf(todo[h]) \subseteq EventsOf(request[h])
        /\ ~EarlyReports =>
              \A e \in EventsOf(request[h]) \ EventsOf(todo[h]), m \in stored :
                  ProviderId[m] = e.id => Recorded(m, e.status)

\* The invariant, handler by handler.
LEMMA Parts == IInv <=> TypeOK /\ DatabaseInv /\ \A h \in Handlers : HandlerInv(h)
  BY DEF IInv, DatabaseInv, HandlerInv, FoundInv, HandledInv

\* A handler whose locals are untouched while the database is.
LEMMA OtherHandler ==
    ASSUME NEW g \in Handlers, HandlerInv(g),
           UNCHANGED <<pc[g], request[g], todo[g], found[g], stored, deliveryStatus>>,
           posted \subseteq posted'
    PROVE  HandlerInv(g)'
  BY DEF HandlerInv, Recorded, canAdvanceDelivery

\* Nothing but handlers' locals and acknowledgements changes.
LEMMA DatabaseFrame ==
    ASSUME DatabaseInv, UNCHANGED <<rowVars, metaVars>>
    PROVE  DatabaseInv'
  BY DEF DatabaseInv, StampsMatch, ReportsInv, AcknowledgedIsRecorded,
     AmbiguousUntouched, Recorded, Reported, Consistent, rowVars, metaVars

\* A handler that forgets its request keeps nothing to be invariant.
LEMMA LeaveStep ==
    ASSUME TypeOK, NEW h \in Handlers, Leave(h)
    PROVE  /\ HandlerInv(h)'
           /\ \A g \in Handlers \ {h} : UNCHANGED <<pc[g], request[g], todo[g], found[g]>>
  BY DEF TypeOK, Leave, HandlerInv

\* The id of a row is stored; only when Meta may report early was it missing
\* from the reports before.
LEMMA StoreIdStep ==
    ASSUME IInv, NEW m \in Messages, StoreId(m)
    PROVE  IInv'
  <1> USE Parts
  <1>t. TypeOK'
    BY TypeStep DEF IInv, Next
  <1>1. deliveryStatus' = deliveryStatus /\ stored' = stored \union {m}
        /\ stamps' = stamps /\ UNCHANGED <<posted, acked, pc, request, todo, found>>
    BY DEF StoreId, metaVars, handlerVars
  <1>2. posted \subseteq Payloads /\ acked \subseteq posted
    BY DEF TypeOK
  <1>3. ASSUME ~EarlyReports, NEW q \in posted, NEW e \in EventsOf(q), ProviderId[m] = e.id
        PROVE  FALSE
    <2>1. e \in Reported
      BY <1>3 DEF Reported
    <2>q. QED
      BY <2>1, <1>3 DEF DatabaseInv, ReportsInv, StoreId
  <1>4. DatabaseInv'
    BY <1>1, <1>2, <1>3 DEF DatabaseInv, StampsMatch, ReportsInv, AcknowledgedIsRecorded,
       AmbiguousUntouched, Recorded, Reported, Consistent
  <1>5. ASSUME NEW h \in Handlers PROVE HandlerInv(h)'
    <2>1. \A n \in Messages, s \in Reports : Recorded(n, s)' <=> Recorded(n, s)
      BY <1>1 DEF Recorded
    <2>2. HandlerInv(h) /\ stored \subseteq Messages
      BY DEF TypeOK
    <2>3. pc[h] # "idle" => EventsOf(request[h]) \subseteq Events
      BY <2>2, <1>2, PostedEvents DEF HandlerInv
    <2>4. \A e \in Events : e.status \in Reports
      BY DEF Events
    <2>5. ASSUME pc[h] # "idle", ~EarlyReports,
                 NEW e \in EventsOf(request[h]) \ EventsOf(todo[h]), NEW n \in stored',
                 ProviderId[n] = e.id
          PROVE  Recorded(n, e.status)'
      <3>1. n \in stored
        BY <1>1, <1>3, <2>2, <2>5 DEF HandlerInv
      <3>q. QED
        BY <2>1, <2>2, <2>3, <2>4, <2>5, <3>1 DEF HandlerInv
    <2>q. QED
      BY <1>1, <2>2, <2>5 DEF HandlerInv
  <1>q. QED
    BY <1>t, <1>4, <1>5 DEF IInv, DatabaseInv, HandlerInv, FoundInv, HandledInv

\* Meta posts a request: consistent with what it reported before.
LEMMA PostStep ==
    ASSUME IInv, NEW q \in Payloads, Post(q)
    PROVE  IInv'
  <1> USE Parts
  <1>t. TypeOK'
    BY TypeStep DEF IInv, Next
  <1>1. posted' = posted \union {q} /\ UNCHANGED <<stored, deliveryStatus, stamps, acked>>
        /\ UNCHANGED <<pc, request, todo, found>>
    BY DEF Post, rowVars, handlerVars
  <1>2. Reported' = Reported \union EventsOf(q)
    BY <1>1 DEF Reported
  <1>3. ReportsInv'
    BY <1>1, <1>2 DEF Post, DatabaseInv, ReportsInv, Consistent
  <1>4. DatabaseInv'
    BY <1>1, <1>3 DEF DatabaseInv, StampsMatch, AcknowledgedIsRecorded, AmbiguousUntouched,
       Recorded
  <1>5. ASSUME NEW h \in Handlers PROVE HandlerInv(h)'
    BY <1>1, OtherHandler
  <1>q. QED
    BY <1>t, <1>4, <1>5 DEF IInv, DatabaseInv, HandlerInv, FoundInv, HandledInv

\* A handler starts with all events of the request to process.
LEMMA ReceiveStep ==
    ASSUME IInv, NEW h \in Handlers, NEW q \in posted, Receive(h, q)
    PROVE  IInv'
  <1> USE Parts
  <1>t. TypeOK'
    BY TypeStep DEF IInv, Next
  <1>1. DatabaseInv'
    BY DatabaseFrame DEF Receive
  <1>2. HandlerInv(h)'
    BY DEF Receive, HandlerInv, TypeOK, metaVars
  <1>3. ASSUME NEW g \in Handlers \ {h} PROVE HandlerInv(g)'
    <2>1. UNCHANGED <<pc[g], request[g], todo[g], found[g], stored, deliveryStatus, posted>>
      BY DEF Receive, TypeOK, rowVars, metaVars
    <2>q. QED
      BY <2>1, OtherHandler
  <1>q. QED
    BY <1>t, <1>1, <1>2, <1>3 DEF IInv, DatabaseInv, HandlerInv, FoundInv, HandledInv

------------------------------------------------------------------------------
(* The lookup *)

\* An event that cannot advance its row is recorded already: reports on one
\* message do not contradict each other.
LEMMA StaleIsRecorded ==
    ASSUME TypeOK, DatabaseInv, NEW e \in Reported, e \in Events,
           NEW m \in stored, ProviderId[m] = e.id,
           ~canAdvanceDelivery(deliveryStatus[m], e.status)
    PROVE  Recorded(m, e.status)
  <1>1. deliveryStatus[m] # "NONE" /\ deliveryStatus[m] \in DeliveryStatuses /\ m \in Messages
    BY DEF TypeOK, canAdvanceDelivery
  <1>2. PICK d \in Reported : d.id = e.id /\ d.status = deliveryStatus[m]
    BY <1>1 DEF DatabaseInv, ReportsInv
  <1>3. /\ d.status = "FAILED" => e.status \in {"SENT", "FAILED"}
        /\ e.status = "FAILED" => d.status \in {"SENT", "FAILED"}
    BY <1>2 DEF DatabaseInv, ReportsInv, Consistent
  <1>4. e.status \in Reports
    BY DEF Events
  <1>q. QED
    BY <1>1, <1>2, <1>3, <1>4 DEF canAdvanceDelivery, Recorded, DeliveryStatuses, Reports

\* A handler goes on from an event that is recorded.
LEMMA NextEventStep ==
    ASSUME TypeOK, NEW h \in Handlers, HandlerInv(h), pc[h] # "idle", todo[h] # <<>>,
           NextEvent(h), NEW event, event = Head(todo[h]),
           ~EarlyReports => \A m \in stored :
               ProviderId[m] = event.id => Recorded(m, event.status)',
           stored' = stored,
           \A e \in Reported, m \in stored :
               ProviderId[m] = e.id /\ Recorded(m, e.status) => Recorded(m, e.status)'
    PROVE  HandlerInv(h)'
  <1>1. /\ pc'[h] = "event" /\ todo'[h] = Tail(todo[h]) /\ request' = request
        /\ posted' = posted
    BY DEF TypeOK, NextEvent, metaVars
  <1>2. /\ EventsOf(todo'[h]) \subseteq EventsOf(todo[h])
        /\ EventsOf(todo[h]) \ EventsOf(todo'[h]) \subseteq {Head(todo[h])}
    BY <1>1, TailEvents DEF TypeOK
  <1>3. request[h] \in posted /\ EventsOf(request[h]) \subseteq Reported
        /\ EventsOf(todo[h]) \subseteq EventsOf(request[h])
    BY DEF HandlerInv, Reported
  <1>4. ASSUME ~EarlyReports, NEW e \in EventsOf(request[h]) \ EventsOf(todo'[h]),
               NEW m \in stored, ProviderId[m] = e.id
        PROVE  Recorded(m, e.status)'
    <2>1. CASE e = event
      BY <1>4, <2>1
    <2>2. CASE e # event
      <3>1. e \in EventsOf(request[h]) \ EventsOf(todo[h])
        BY <1>2, <1>4, <2>2
      <3>2. Recorded(m, e.status)
        BY <3>1, <1>4 DEF HandlerInv
      <3>3. e \in Reported
        BY <1>3, <1>4
      <3>q. QED
        BY <1>4, <3>2, <3>3
    <2>q. QED
      BY <2>1, <2>2
  <1>q. QED
    BY <1>1, <1>2, <1>3, <1>4 DEF HandlerInv

LEMMA FindMessageStep ==
    ASSUME IInv, NEW h \in Handlers, FindMessage(h)
    PROVE  IInv'
  <1> USE Parts
  <1>t. TypeOK'
    BY TypeStep DEF IInv, Next, Handle
  <1> DEFINE event == Head(todo[h])
  <1>0. UNCHANGED <<rowVars, metaVars>>
    BY DEF FindMessage, Unavailable, NextEvent
  <1>1. DatabaseInv'
    BY <1>0, DatabaseFrame
  <1>2. ASSUME NEW g \in Handlers \ {h} PROVE HandlerInv(g)'
    <2>1. UNCHANGED <<pc[g], request[g], todo[g], found[g], stored, deliveryStatus, posted>>
      BY <1>0 DEF FindMessage, Unavailable, Leave, NextEvent, TypeOK, rowVars, metaVars
    <2>q. QED
      BY <2>1, OtherHandler
  <1>3. pc[h] = "event" /\ todo[h] # <<>> /\ todo[h] \in Seq(Events)
    BY DEF FindMessage, TypeOK
  <1>4. event \in Events /\ event \in Reported
    <2>1. event \in Events /\ event \in EventsOf(todo[h])
      BY <1>3, TailEvents
    <2>2. request[h] \in posted /\ EventsOf(todo[h]) \subseteq EventsOf(request[h])
      BY <1>3 DEF HandlerInv
    <2>q. QED
      BY <2>1, <2>2 DEF Reported
  <1>5. CASE Unavailable(h)
    BY <1>t, <1>1, <1>2, <1>5, LeaveStep
    DEF Unavailable, IInv, DatabaseInv, HandlerInv, FoundInv, HandledInv
  <1>6. CASE /\ ~Ambiguous(Matches(event.id))
             /\ \A m \in Matches(event.id) : ~canAdvanceDelivery(deliveryStatus[m], event.status)
             /\ NextEvent(h)
    <2>1. stored' = stored /\ deliveryStatus' = deliveryStatus
      BY <1>0 DEF rowVars
    <2>2. \A m \in stored : ProviderId[m] = event.id => Recorded(m, event.status)
      BY <1>4, <1>6, StaleIsRecorded DEF Matches
    <2>3. \A m, s : Recorded(m, s)' <=> Recorded(m, s)
      BY <2>1 DEF Recorded
    <2>0. PICK e : e = event
      OBVIOUS
    <2>5. ~EarlyReports => \A m \in stored :
            ProviderId[m] = e.id => Recorded(m, e.status)'
      BY <2>0, <2>2, <2>3
    <2>6. \A d \in Reported, m \in stored :
            ProviderId[m] = d.id /\ Recorded(m, d.status) => Recorded(m, d.status)'
      BY <2>3
    <2>7. HandlerInv(h) /\ TypeOK /\ pc[h] # "idle" /\ NextEvent(h)
      BY <1>3, <1>6
    <2>4. HandlerInv(h)'
      BY <1>3, <2>0, <2>1, <2>5, <2>6, <2>7, NextEventStep
    <2>q. QED
      BY <1>t, <1>1, <1>2, <2>4 DEF IInv, DatabaseInv, HandlerInv, FoundInv, HandledInv
  <1>7. ASSUME ~Ambiguous(Matches(event.id)), NEW m \in Matches(event.id),
               canAdvanceDelivery(deliveryStatus[m], event.status),
               found' = [found EXCEPT ![h] = [row |-> m, seen |-> deliveryStatus[m]]],
               pc' = [pc EXCEPT ![h] = "update"],
               UNCHANGED <<request, todo, metaVars>>
        PROVE  IInv'
    <2>1. found'[h] = [row |-> m, seen |-> deliveryStatus[m]] /\ pc'[h] = "update"
      BY <1>7 DEF TypeOK
    <2>2. m \in stored /\ ProviderId[m] = event.id
      BY DEF Matches
    <2>3. ~EarlyReports => \A n \in Messages : ProviderId[n] = event.id => n \in stored
      BY <1>4 DEF DatabaseInv, ReportsInv
    <2>4. ~EarlyReports => \A n \in Messages : ProviderId[n] = event.id => n = m
      BY <1>7, <2>2, <2>3 DEF Ambiguous, Matches
    <2>5. UNCHANGED <<stored, deliveryStatus, posted, request, todo>>
      BY <1>0, <1>7 DEF rowVars, metaVars
    <2>7. canAdvanceDelivery(found'[h].seen, event.status) /\ found'[h].row = m
      BY <1>7, <2>1
    <2>8. \A n, s : Recorded(n, s)' <=> Recorded(n, s)
      BY <2>5 DEF Recorded
    <2>9. HandlerInv(h)
      BY <1>3
    <2>10. (canAdvanceDelivery(found[h].seen, event.status))'
      BY <2>5, <2>7 DEF canAdvanceDelivery
    <2>6. HandlerInv(h)'
      BY <1>3, <2>1, <2>2, <2>4, <2>5, <2>7, <2>8, <2>9, <2>10 DEF HandlerInv
    <2>q. QED
      BY <1>t, <1>1, <1>2, <2>6 DEF IInv, DatabaseInv, HandlerInv, FoundInv, HandledInv
  <1>q. QED
    BY <1>5, <1>6, <1>7 DEF FindMessage

------------------------------------------------------------------------------
(* The conditional update *)

\* The change of one row that OnlyForward allows.
Forward(m) ==
    deliveryStatus'[m] # deliveryStatus[m] =>
        /\ Rank[deliveryStatus'[m]] > Rank[deliveryStatus[m]]
        /\ deliveryStatus'[m] = "FAILED" => deliveryStatus[m] \in {"NONE", "SENT"}

\* An applied update moves its row forward, keeps what is recorded and records
\* the event in hand.
LEMMA WriteAdvances ==
    ASSUME IInv, NEW h \in Handlers, pc[h] = "update", Unchanged(found[h]),
           NEW event, event = Head(todo[h]),
           Write(found[h].row, event.status), UNCHANGED <<posted, acked>>
    PROVE  /\ DatabaseInv' /\ stored' = stored
           /\ \A m \in Messages : Forward(m)
           /\ \A e \in Reported, m \in stored :
                 ProviderId[m] = e.id /\ Recorded(m, e.status) => Recorded(m, e.status)'
           /\ ~EarlyReports =>
                 \A m \in stored : ProviderId[m] = event.id => Recorded(m, event.status)'
  <1> USE Parts
  <1> DEFINE r == found[h].row
  <1>1. TypeOK /\ DatabaseInv /\ HandlerInv(h)
    OBVIOUS
  <1>2. todo[h] \in Seq(Events) /\ todo[h] # <<>>
    BY <1>1 DEF TypeOK
  <1>3. event \in Events /\ event \in EventsOf(todo[h]) /\ event.status \in Reports
    BY <1>2, TailEvents DEF Events
  <1>4. event \in Reported
    BY <1>1, <1>3 DEF HandlerInv, Reported
  <1>5. /\ r \in Messages /\ r \in stored /\ ProviderId[r] = event.id
        /\ canAdvanceDelivery(deliveryStatus[r], event.status)
        /\ ~EarlyReports => \A m \in Messages : ProviderId[m] = event.id => m = r
    BY <1>1 DEF HandlerInv, TypeOK, Unchanged
  <1>6. /\ stored' = stored /\ deliveryStatus' = [deliveryStatus EXCEPT ![r] = event.status]
        /\ stamps' = [stamps EXCEPT ![r] = @ \union ({event.status} \intersect Stamps)]
    BY DEF Write
  <1>7. /\ deliveryStatus'[r] = event.status
        /\ stamps'[r] = stamps[r] \union ({event.status} \intersect Stamps)
        /\ \A m \in Messages \ {r} : deliveryStatus'[m] = deliveryStatus[m]
                                     /\ stamps'[m] = stamps[m]
    BY <1>1, <1>5, <1>6 DEF TypeOK
  <1>8. deliveryStatus[r] \in DeliveryStatuses
    BY <1>1, <1>5 DEF TypeOK
  <1> HIDE DEF r
  <1>9. ASSUME NEW m \in Messages PROVE Forward(m)
    BY <1>3, <1>5, <1>7, <1>8 DEF Forward, Rank, canAdvanceDelivery, DeliveryStatuses, Reports
  <1>10. ASSUME NEW e \in Reported, NEW m \in stored, Recorded(m, e.status), e.status \in Reports
         PROVE  Recorded(m, e.status)'
    <2>1. m \in Messages
      BY <1>1 DEF TypeOK
    <2>2. CASE m # r
      BY <1>7, <1>10, <2>1, <2>2 DEF Recorded
    <2>3. CASE m = r
      BY <1>3, <1>5, <1>7, <1>8, <1>10, <2>3
      DEF Recorded, canAdvanceDelivery, DeliveryStatuses, Reports
    <2>q. QED
      BY <2>2, <2>3
  <1>11. \A e \in Reported : e.status \in Reports
    BY <1>1, PostedEvents DEF TypeOK, Reported, Events
  <1>12. ASSUME ~EarlyReports, NEW m \in stored, ProviderId[m] = event.id
         PROVE  Recorded(m, event.status)'
    <2>1. m = r
      BY <1>1, <1>5, <1>12 DEF TypeOK
    <2>q. QED
      BY <1>3, <1>7, <2>1 DEF Recorded, Reports
  <1>13. StampsMatch'
    <2>1. ASSUME NEW m \in Messages, m # r
          PROVE  UNCHANGED <<deliveryStatus[m], stamps[m]>>
      BY <1>7, <2>1
    <2>2. /\ deliveryStatus[r] \in {"NONE", "SENT"} => stamps[r] = {}
          /\ deliveryStatus[r] = "DELIVERED" => stamps[r] = {"DELIVERED"}
      BY <1>1, <1>5 DEF DatabaseInv, StampsMatch
    <2>3. /\ event.status = "SENT" => deliveryStatus[r] = "NONE"
          /\ event.status \in {"DELIVERED", "FAILED"} => deliveryStatus[r] \in {"NONE", "SENT"}
          /\ event.status = "READ" => deliveryStatus[r] \in {"NONE", "SENT", "DELIVERED"}
      BY <1>3, <1>5, <1>8 DEF canAdvanceDelivery, DeliveryStatuses, Reports
    <2>4. /\ event.status = "SENT" => stamps'[r] = {}
          /\ event.status \in {"DELIVERED", "FAILED"} => stamps'[r] = {event.status}
          /\ event.status = "READ" => stamps'[r] \in {{"READ"}, {"DELIVERED", "READ"}}
      BY <1>7, <2>2, <2>3 DEF Stamps
    <2>q. QED
      BY <1>1, <1>3, <1>7, <2>1, <2>4 DEF DatabaseInv, StampsMatch, Reports
  <1>14. ReportsInv'
    <2>1. Reported' = Reported
      BY DEF Reported
    <2>2. ASSUME NEW m \in Messages, deliveryStatus'[m] # "NONE"
          PROVE  /\ m \in stored'
                 /\ [id |-> ProviderId[m], status |-> deliveryStatus'[m]] \in Reported
      <3>1. CASE m # r
        BY <1>1, <1>6, <1>7, <2>2, <3>1 DEF DatabaseInv, ReportsInv
      <3>2. CASE m = r
        <4>1. [id |-> ProviderId[m], status |-> deliveryStatus'[m]] = event
          BY <1>3, <1>5, <1>7, <3>2 DEF Events
        <4>q. QED
          BY <1>4, <1>5, <1>6, <3>2, <4>1
      <3>q. QED
        BY <3>1, <3>2
    <2>q. QED
      BY <1>1, <1>6, <2>1, <2>2 DEF DatabaseInv, ReportsInv, Consistent
  <1>15. ASSUME ~EarlyReports PROVE AcknowledgedIsRecorded' /\ AmbiguousUntouched'
    <2>1. AmbiguousUntouched'
      BY <1>1, <1>5, <1>7, <1>15 DEF DatabaseInv, AmbiguousUntouched
    <2>2. ASSUME NEW q \in acked, NEW e \in EventsOf(q), NEW m \in stored, ProviderId[m] = e.id
          PROVE  Recorded(m, e.status)'
      <3>1. e \in Reported
        BY <1>1 DEF TypeOK, Reported
      <3>2. Recorded(m, e.status)
        BY <1>1, <1>15, <2>2 DEF DatabaseInv, AcknowledgedIsRecorded
      <3>q. QED
        BY <1>10, <1>11, <3>1, <3>2
    <2>q. QED
      BY <1>6, <2>1, <2>2 DEF AcknowledgedIsRecorded
  <1>q. QED
    BY <1>6, <1>9, <1>10, <1>11, <1>12, <1>13, <1>14, <1>15 DEF DatabaseInv

\* A handler that looked up a row before another one updated it keeps what it
\* knows: the row and what is recorded, not that the row is unchanged.
LEMMA BystanderStep ==
    ASSUME TypeOK, NEW g \in Handlers, HandlerInv(g),
           UNCHANGED <<pc[g], request[g], todo[g], found[g], stored, posted>>,
           \A e \in Reported, m \in stored :
               ProviderId[m] = e.id /\ Recorded(m, e.status) => Recorded(m, e.status)'
    PROVE  HandlerInv(g)'
  <1>1. pc[g] # "idle" => EventsOf(request[g]) \subseteq Reported
    BY DEF HandlerInv, Reported
  <1>2. ASSUME pc[g] # "idle", ~EarlyReports, NEW m \in stored,
               NEW e \in EventsOf(request[g]) \ EventsOf(todo[g]), ProviderId[m] = e.id
        PROVE  Recorded(m, e.status)'
    <2>1. e \in Reported /\ Recorded(m, e.status)
      BY <1>1, <1>2 DEF HandlerInv
    <2>q. QED
      BY <1>2, <2>1
  <1>q. QED
    BY <1>2 DEF HandlerInv, canAdvanceDelivery

\* The locals of the other handlers are their own.
LEMMA OnlyOwnLocals ==
    ASSUME TypeOK, NEW h \in Handlers, NextEvent(h) \/ Leave(h), NEW g \in Handlers \ {h}
    PROVE  UNCHANGED <<pc[g], request[g], todo[g], found[g]>>
  BY DEF TypeOK, NextEvent, Leave

LEMMA UpdateStatusStep ==
    ASSUME IInv, NEW h \in Handlers, UpdateStatus(h)
    PROVE  IInv' /\ \A m \in Messages : Forward(m)
  <1> USE Parts
  <1>t. TypeOK'
    BY TypeStep DEF IInv, Next, Handle
  <1>0. PICK event : event = Head(todo[h])
    OBVIOUS
  <1>1. pc[h] = "update" /\ todo[h] # <<>>
    BY DEF UpdateStatus, TypeOK
  <1>2. CASE Unchanged(found[h])
    <2>1. Write(found[h].row, event.status) /\ NextEvent(h) /\ UNCHANGED <<posted, acked>>
      BY <1>0, <1>2 DEF UpdateStatus, NextEvent, metaVars
    <2>2. /\ DatabaseInv' /\ stored' = stored
          /\ \A m \in Messages : Forward(m)
          /\ \A e \in Reported, m \in stored :
                ProviderId[m] = e.id /\ Recorded(m, e.status) => Recorded(m, e.status)'
          /\ ~EarlyReports =>
                \A m \in stored : ProviderId[m] = event.id => Recorded(m, event.status)'
      BY <1>0, <1>1, <1>2, <2>1, WriteAdvances
    <2>3. HandlerInv(h)'
      BY <1>0, <1>1, <2>1, <2>2, NextEventStep
    <2>4. ASSUME NEW g \in Handlers \ {h} PROVE HandlerInv(g)'
      <3>1. UNCHANGED <<pc[g], request[g], todo[g], found[g]>>
        BY <2>1, OnlyOwnLocals
      <3>q. QED
        BY <2>1, <2>2, <3>1, BystanderStep
    <2>q. QED
      BY <1>t, <2>2, <2>3, <2>4 DEF IInv, DatabaseInv, HandlerInv, FoundInv, HandledInv
  <1>3. CASE ~Unchanged(found[h])
    <2>1. Leave(h) /\ UNCHANGED <<rowVars, metaVars>>
      BY <1>3 DEF UpdateStatus, Unavailable
    <2>2. DatabaseInv' /\ HandlerInv(h)'
      BY <2>1, DatabaseFrame, LeaveStep
    <2>3. ASSUME NEW g \in Handlers \ {h} PROVE HandlerInv(g)'
      <3>1. UNCHANGED <<pc[g], request[g], todo[g], found[g]>>
        BY <2>1, OnlyOwnLocals
      <3>q. QED
        BY <2>1, <3>1, OtherHandler DEF rowVars, metaVars
    <2>4. \A m \in Messages : Forward(m)
      BY <2>1 DEF Forward, rowVars
    <2>q. QED
      BY <1>t, <2>2, <2>3, <2>4 DEF IInv, DatabaseInv, HandlerInv, FoundInv, HandledInv
  <1>q. QED
    BY <1>2, <1>3

LEMMA HandlerFailsStep ==
    ASSUME IInv, NEW h \in Handlers, HandlerFails(h)
    PROVE  IInv' /\ \A m \in Messages : Forward(m)
  <1> USE Parts
  <1>t. TypeOK'
    BY TypeStep DEF IInv, Next
  <1>0. PICK event : event = Head(todo[h])
    OBVIOUS
  <1>1. Leave(h) /\ UNCHANGED metaVars
    BY DEF HandlerFails, Unavailable
  <1>2. /\ DatabaseInv' /\ stored' = stored
        /\ \A m \in Messages : Forward(m)
        /\ \A e \in Reported, m \in stored :
              ProviderId[m] = e.id /\ Recorded(m, e.status) => Recorded(m, e.status)'
    <2>1. CASE UNCHANGED rowVars
      <3>1. \A m, s : Recorded(m, s) => Recorded(m, s)'
        BY <2>1 DEF Recorded, rowVars
      <3>2. DatabaseInv'
        BY <1>1, <2>1, DatabaseFrame
      <3>q. QED
        BY <2>1, <3>1, <3>2 DEF Forward, rowVars
    <2>2. CASE pc[h] = "update" /\ Unchanged(found[h]) /\ Write(found[h].row, event.status)
      BY <1>0, <1>1, <2>2, WriteAdvances DEF metaVars
    <2>q. QED
      BY <1>0, <2>1, <2>2 DEF HandlerFails
  <1>3. HandlerInv(h)'
    BY <1>1, LeaveStep
  <1>4. ASSUME NEW g \in Handlers \ {h} PROVE HandlerInv(g)'
    <2>1. UNCHANGED <<pc[g], request[g], todo[g], found[g]>>
      BY <1>1, OnlyOwnLocals
    <2>q. QED
      BY <1>1, <1>2, <2>1, BystanderStep DEF metaVars
  <1>q. QED
    BY <1>t, <1>2, <1>3, <1>4 DEF IInv, DatabaseInv, HandlerInv, FoundInv, HandledInv

\* All events of the request are behind the handler, so all are recorded.
LEMMA AcknowledgeStep ==
    ASSUME IInv, NEW h \in Handlers, Acknowledge(h)
    PROVE  IInv'
  <1> USE Parts
  <1>t. TypeOK'
    BY TypeStep DEF IInv, Next, Handle
  <1>1. Leave(h) /\ UNCHANGED <<rowVars, posted>> /\ acked' = acked \union {request[h]}
    BY DEF Acknowledge
  <1>2. EventsOf(todo[h]) = {}
    BY DEF Acknowledge, EventsOf
  <1>3. \A m, s : Recorded(m, s)' <=> Recorded(m, s)
    BY <1>1 DEF Recorded, rowVars
  <1>4. ASSUME ~EarlyReports PROVE AcknowledgedIsRecorded'
    <2>1. pc[h] # "idle"
      BY DEF Acknowledge
    <2>2. \A e \in EventsOf(request[h]), m \in stored :
             ProviderId[m] = e.id => Recorded(m, e.status)
      BY <1>2, <1>4, <2>1 DEF HandlerInv
    <2>3. AcknowledgedIsRecorded
      BY <1>4 DEF DatabaseInv
    <2>q. QED
      BY <1>1, <1>3, <2>2, <2>3 DEF AcknowledgedIsRecorded, rowVars
  <1>5. DatabaseInv'
    BY <1>1, <1>4 DEF DatabaseInv, StampsMatch, ReportsInv, AmbiguousUntouched, Reported,
       Consistent, rowVars
  <1>6. HandlerInv(h)'
    BY <1>1, LeaveStep
  <1>7. ASSUME NEW g \in Handlers \ {h} PROVE HandlerInv(g)'
    <2>1. UNCHANGED <<pc[g], request[g], todo[g], found[g]>>
      BY <1>1, OnlyOwnLocals
    <2>q. QED
      BY <1>1, <2>1, OtherHandler DEF rowVars
  <1>q. QED
    BY <1>t, <1>5, <1>6, <1>7 DEF IInv, DatabaseInv, HandlerInv, FoundInv, HandledInv

------------------------------------------------------------------------------
(* Theorems *)

\* The invariant is inductive, and every step moves rows forward.
LEMMA InductiveStep ==
    ASSUME IInv, [Next]_vars
    PROVE  IInv' /\ \A m \in Messages : Forward(m)
  <1>1. ASSUME NEW m \in Messages, StoreId(m) PROVE IInv' /\ deliveryStatus' = deliveryStatus
    BY <1>1, StoreIdStep DEF StoreId
  <1>2. ASSUME NEW q \in Payloads, Post(q) PROVE IInv' /\ deliveryStatus' = deliveryStatus
    BY <1>2, PostStep DEF Post, rowVars
  <1>3. ASSUME NEW h \in Handlers, NEW q \in posted, Receive(h, q)
        PROVE IInv' /\ deliveryStatus' = deliveryStatus
    BY <1>3, ReceiveStep DEF Receive, rowVars
  <1>4. ASSUME NEW h \in Handlers, FindMessage(h)
        PROVE IInv' /\ deliveryStatus' = deliveryStatus
    BY <1>4, FindMessageStep DEF FindMessage, rowVars
  <1>5. ASSUME NEW h \in Handlers, Acknowledge(h)
        PROVE IInv' /\ deliveryStatus' = deliveryStatus
    BY <1>5, AcknowledgeStep DEF Acknowledge, rowVars
  <1>6. ASSUME NEW h \in Handlers, UpdateStatus(h) \/ HandlerFails(h)
        PROVE  IInv' /\ \A m \in Messages : Forward(m)
    BY <1>6, UpdateStatusStep, HandlerFailsStep
  <1>7. CASE UNCHANGED vars
    <2>1. UNCHANGED <<stored, deliveryStatus, stamps, posted, acked, pc, request, todo,
                      found, faults>>
      BY <1>7 DEF vars, rowVars, metaVars, handlerVars
    <2>2. TypeOK' /\ StampsMatch'
      BY <2>1 DEF IInv, TypeOK, StampsMatch
    <2>3. ReportsInv' /\ (~EarlyReports => AmbiguousUntouched')
      BY <2>1 DEF IInv, ReportsInv, AmbiguousUntouched, Reported, Consistent
    <2>4. \A m, s : Recorded(m, s)' <=> Recorded(m, s)
      BY <2>1 DEF Recorded
    <2>5. FoundInv' /\ HandledInv' /\ (~EarlyReports => AcknowledgedIsRecorded')
      BY <2>1, <2>4 DEF IInv, FoundInv, HandledInv, AcknowledgedIsRecorded
    <2>q. QED
      BY <2>1, <2>2, <2>3, <2>5 DEF IInv, Forward
  <1>q. QED
    BY <1>1, <1>2, <1>3, <1>4, <1>5, <1>6, <1>7 DEF Next, Handle, Forward

\* The inductive invariant holds for any rows, requests and handlers.
THEOREM Invariance == Spec => []IInv
  BY InitIInv, InductiveStep, PTL DEF Spec

\* Every variable keeps its type.
THEOREM TypeCorrect == Spec => []TypeOK
  <1>1. IInv => TypeOK
    BY DEF IInv
  <1>q. QED
    BY Invariance, <1>1, PTL

\* A row only moves forward, however many handlers race and however often and
\* in whatever order Meta delivers.
THEOREM MovesForward == Spec => OnlyForward
  <1> DEFINE Step == \A m \in Messages : Forward(m)
  <1>1. IInv /\ [Next]_vars => Step
    BY InductiveStep
  <1> HIDE DEF Step
  <1>2. Spec => [][Step]_vars
    BY Invariance, <1>1, PTL DEF Spec
  <1>q. QED
    BY <1>2 DEF OnlyForward, Step, Forward

\* The timestamps agree with deliveryStatus.
THEOREM StampsAgree == Spec => []StampsMatch
  <1>1. IInv => StampsMatch
    BY DEF IInv
  <1>q. QED
    BY Invariance, <1>1, PTL

\* An event answered 200 is recorded, if Meta reports on stored messages only.
THEOREM AcknowledgedStays ==
    ASSUME ~EarlyReports
    PROVE  Spec => []AcknowledgedIsRecorded
  <1>1. IInv => AcknowledgedIsRecorded
    BY DEF IInv
  <1>q. QED
    BY Invariance, <1>1, PTL

\* Rows that share an id are never updated, under the same assumption.
THEOREM AmbiguousStays ==
    ASSUME ~EarlyReports
    PROVE  Spec => []AmbiguousUntouched
  <1>1. IInv => AmbiguousUntouched
    BY DEF IInv
  <1>q. QED
    BY Invariance, <1>1, PTL
==============================================================================
