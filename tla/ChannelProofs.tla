----------------------------- MODULE ChannelProofs -----------------------------
(***************************************************************************)
(* Proofs about the life of a channel: ChannelConnection, for any          *)
(* requests; MessageRouting, for any messages, channels and attempts;      *)
(* ChannelReservation, for any clients, keys and limits; each for any      *)
(* number of failures; and that each is what MCChannels puts together.     *)
(***************************************************************************)
EXTENDS MCChannels, FiniteSetTheorems, TLAPS

------------------------------------------------------------------------------
(* ChannelConnection: the invariant *)

\* An open instance has its phone, or tells of the device that was removed.
SessionKnown ==
    session.state = "open" => session.paired \/ (session.removed /\ ~session.number)

Sought == {"connection", "qr"}

\* What a request holds while it deals with a device that may be stale: unless
\* another request has interfered, the session is open or closed, and remains what the
\* record has said of it.
StaleInv(r) ==
    /\ step[r] \in {"confirmStale", "logout"} /\ ~meddled[r] =>
          session.state \in {"open", "close"}
    /\ step[r] = "logout" /\ ~meddled[r] => ~session.number /\ session.removed
    /\ step[r] \in {"logout", "reconnect"} => "stale" \in troubles

\* provision goes step by step from the instance to its webhook and its connection.
ProvisionInv(r) ==
    op[r] = "provision" =>
        /\ step[r] \in {"findWebhook", "setWebhook"} => session.state # "absent"
        /\ step[r] \in {"confirmWebhook", "connect", "confirmStale", "logout", "reconnect",
                        "synchronize"} =>
              session.state # "absent" /\ webhook
        /\ reply[r] \in {"CONNECTED", "WAITING_QR"} => session.state # "absent" /\ webhook

\* "CONNECTED" was seen of an open session, then of a live one.
SeenInv(r) ==
    op[r] \in Sought /\ ~moved[r] =>
        /\ step[r] \in {"metadata", "confirmStale"} /\ observed[r].status = "CONNECTED" =>
              session.state = "open"
        /\ step[r] = "confirmStale" /\ observed[r].status = "CONNECTED" /\ observed[r].number =>
              session.number
        /\ \/ step[r] = "synchronize" /\ observed[r].status = "CONNECTED"
           \/ reply[r] = "CONNECTED"
           => Live \/ "metadata" \in troubles

\* A call other than createInstance has failed, or a device was found stale.
OtherTrouble == troubles \ {"create"} # {}

\* Why a provision fails.
FailureInv(r) ==
    /\ step[r] # "idle" => reply[r] = "none"
    /\ step[r] = "reinspect" => session.state # "absent" \/ OtherTrouble
    /\ op[r] = "provision" /\ (step[r] = "markError" \/ reply[r] = "unavailable") =>
          OtherTrouble

CallInv(r) == StaleInv(r) /\ ProvisionInv(r) /\ SeenInv(r) /\ FailureInv(r)

ConnectionInv ==
    /\ ConnectionTypeOK
    /\ SessionKnown
    /\ \A r \in Requests : CallInv(r)

------------------------------------------------------------------------------
(* ChannelConnection: what a step does to the requests that do not take it *)

\* What never comes back: an instance that is there, a webhook, a failed call.
WorldGrows ==
    /\ session.state # "absent" => session'.state # "absent"
    /\ webhook => webhook'
    /\ troubles \subseteq troubles'

\* What q sees of a step it does not take: it knows whether the session has changed,
\* and whether by another request; if not, it was the phone, which cannot bring a
\* closed session back, and only takes a number out of the record.
Watches(q) ==
    /\ TellsConnected(q) /\ ~moved'[q] => ~moved[q] /\ session' = session
    /\ step[q] \in {"confirmStale", "logout"} /\ ~meddled'[q] =>
          /\ ~meddled[q]
          /\ session.state \in {"open", "close"} =>
                /\ session'.state \in {"open", "close"}
                /\ session'.number => session.number
                /\ session.removed => session'.removed

Stays(q) ==
    /\ step'[q] = step[q] /\ op'[q] = op[q]
    /\ observed'[q] = observed[q] /\ reply'[q] = reply[q]

LEMMA BystanderKept ==
    ASSUME NEW q \in Requests, CallInv(q), Watches(q), Stays(q), WorldGrows
    PROVE  CallInv(q)'
  <1>1. OtherTrouble => OtherTrouble'
    BY DEF WorldGrows, OtherTrouble
  <1>2. StaleInv(q)'
    BY DEF CallInv, StaleInv, Watches, Stays, WorldGrows
  <1>3. ProvisionInv(q)'
    BY DEF CallInv, ProvisionInv, Stays, WorldGrows
  <1>4. SeenInv(q)'
    BY DEF CallInv, SeenInv, Watches, Stays, WorldGrows, Live, TellsConnected, Sought
  <1>5. FailureInv(q)'
    BY <1>1 DEF CallInv, FailureInv, Stays, WorldGrows
  <1>q. QED
    BY <1>2, <1>3, <1>4, <1>5 DEF CallInv

------------------------------------------------------------------------------
(* ChannelConnection: what a step does to the request that takes it *)

Replies == ConnectionStatuses \union {"none", "unavailable"}

\* The steps of each operation.
StepOf(s, o) ==
    /\ s \in Steps /\ o \in Operations
    /\ s \in {"inspect", "create", "reinspect", "findWebhook", "setWebhook",
              "confirmWebhook"} => o = "provision"
    /\ s \in {"state", "metadata"} => o = "connection"
    /\ s = "markError" => o \in {"provision", "qr"}

\* r stands at s of operation o, holds snapshot w and was answered a; the others stay.
Becomes(r, s, o, w, a) ==
    /\ StepOf(s, o) /\ w \in Snapshots /\ a \in Replies
    /\ step' = [step EXCEPT ![r] = s] /\ op' = [op EXCEPT ![r] = o]
    /\ observed' = [observed EXCEPT ![r] = w] /\ reply' = [reply EXCEPT ![r] = a]

LEMMA CallKnown ==
    ASSUME ConnectionTypeOK, NEW r \in Requests
    PROVE  /\ StepOf(step[r], op[r]) /\ observed[r] \in Snapshots /\ reply[r] \in Replies
           /\ moved[r] \in BOOLEAN /\ meddled[r] \in BOOLEAN
           /\ session \in Sessions /\ webhook \in BOOLEAN
           /\ (session.paired => session.state = "open")
           /\ troubles \in SUBSET Troubles
  BY DEF ConnectionTypeOK, StepOf, Replies

LEMMA Became ==
    ASSUME ConnectionTypeOK, NEW r \in Requests, NEW s, NEW o, NEW w, NEW a,
           Becomes(r, s, o, w, a)
    PROVE  /\ step'[r] = s /\ op'[r] = o /\ observed'[r] = w /\ reply'[r] = a
           /\ \A q \in Requests \ {r} : Stays(q)
           /\ step' \in [Requests -> Steps] /\ op' \in [Requests -> Operations]
           /\ observed' \in [Requests -> Snapshots] /\ reply' \in [Requests -> Replies]
           /\ \A q \in Requests : StepOf(step'[q], op'[q])
  <1>1. /\ step' \in [Requests -> Steps] /\ op' \in [Requests -> Operations]
        /\ observed' \in [Requests -> Snapshots] /\ reply' \in [Requests -> Replies]
    BY DEF ConnectionTypeOK, Becomes, StepOf, Replies
  <1>2. step'[r] = s /\ op'[r] = o /\ observed'[r] = w /\ reply'[r] = a
    BY DEF ConnectionTypeOK, Becomes
  <1>3. \A q \in Requests \ {r} : Stays(q)
    BY DEF ConnectionTypeOK, Becomes, Stays
  <1>4. ASSUME NEW q \in Requests PROVE StepOf(step'[q], op'[q])
    BY <1>2, <1>3, CallKnown DEF Stays, Becomes
  <1>q. QED
    BY <1>1, <1>2, <1>3, <1>4

LEMMA Proceeds ==
    ASSUME ConnectionTypeOK, NEW r \in Requests, NEW s, StepOf(s, op[r]), Proceed(r, s)
    PROVE  Becomes(r, s, op[r], observed[r], reply[r])
  BY CallKnown DEF Proceed, Becomes, ConnectionTypeOK

LEMMA ProceedsWith ==
    ASSUME ConnectionTypeOK, NEW r \in Requests, NEW s, StepOf(s, op[r]),
           NEW w \in Snapshots, ProceedWith(r, s, w)
    PROVE  Becomes(r, s, op[r], w, reply[r])
  BY CallKnown DEF ProceedWith, Becomes, ConnectionTypeOK

LEMMA SnapshotKnown ==
    /\ NoSnapshot \in Snapshots
    /\ \A s \in ConnectionStatuses, c, n \in BOOLEAN :
          [status |-> s, code |-> c, number |-> n] \in Snapshots
    /\ \A s \in ConnectionStatuses, c \in BOOLEAN :
          /\ Snapshot(s, c) \in Snapshots
          /\ Snapshot(s, c).status = s /\ ~Snapshot(s, c).number
  BY DEF Snapshots, Snapshot, NoSnapshot, ConnectionStatuses

LEMMA Replied ==
    ASSUME ConnectionTypeOK, NEW r \in Requests, NEW a \in Replies, Reply(r, a)
    PROVE  Becomes(r, "idle", op[r], NoSnapshot, a)
  BY CallKnown, SnapshotKnown DEF Reply, Becomes, ConnectionTypeOK, StepOf, Steps

\* An exception.
LEMMA Fails ==
    ASSUME ConnectionTypeOK, NEW r \in Requests, Fail(r)
    PROVE  \/ /\ op[r] \in {"provision", "qr"}
              /\ Becomes(r, "markError", op[r], observed[r], reply[r])
           \/ /\ op[r] \notin {"provision", "qr"}
              /\ Becomes(r, "idle", op[r], NoSnapshot, "unavailable")
  <1>1. CASE op[r] \in {"provision", "qr"}
    <2>1. StepOf("markError", op[r])
      BY <1>1 DEF StepOf, Steps, Operations
    <2>q. QED
      BY <1>1, <2>1, Proceeds DEF Fail
  <1>2. CASE op[r] \notin {"provision", "qr"}
    BY <1>2, Replied DEF Fail, Replies
  <1>q. QED
    BY <1>1, <1>2

LEMMA Called ==
    ASSUME ConnectionTypeOK, NEW answer \in CallAnswers, NEW kind \in Troubles,
           Call(answer, kind)
    PROVE  /\ callFaults' \in 0..MaxCallFaults /\ troubles' \in SUBSET Troubles
           /\ troubles \subseteq troubles'
           /\ answer # "ok" => kind \in troubles'
  BY CallFaultsAssumption DEF ConnectionTypeOK, Call, troubleVars

\* The types of what requests share, after a step.
WorldTyped ==
    /\ session' \in Sessions /\ (session'.paired => session'.state = "open")
    /\ webhook' \in BOOLEAN /\ recorded' \in ConnectionStatuses
    /\ moved' \in [Requests -> BOOLEAN] /\ meddled' \in [Requests -> BOOLEAN]
    /\ callFaults' \in 0..MaxCallFaults /\ troubles' \in SUBSET Troubles

\* A step of r as the others and the invariant see it.
Shared(r) ==
    WorldTyped /\ WorldGrows /\ SessionKnown' /\ \A q \in Requests \ {r} : Watches(q)

LEMMA OneRequestMoves ==
    ASSUME ConnectionInv, NEW r \in Requests, NEW s, NEW o, NEW w, NEW a,
           Becomes(r, s, o, w, a), Shared(r), CallInv(r)'
    PROVE  ConnectionInv'
  <1>0. ConnectionTypeOK
    BY DEF ConnectionInv
  <1>1. ConnectionTypeOK'
    BY <1>0, Became DEF ConnectionTypeOK, Shared, WorldTyped, StepOf, Replies
  <1>2. ASSUME NEW q \in Requests PROVE CallInv(q)'
    <2>1. CASE q = r
      BY <2>1
    <2>2. CASE q # r
      BY <2>2, <1>0, Became, BystanderKept DEF ConnectionInv, Shared
    <2>q. QED
      BY <2>1, <2>2
  <1>q. QED
    BY <1>1, <1>2 DEF ConnectionInv, Shared

\* A call that leaves the session as it is, at which r may look.
SessionSeen(r) == UNCHANGED session /\ (Look(r) \/ UNCHANGED ghostVars)

LEMMA NotedIsShared ==
    ASSUME ConnectionInv, NEW r \in Requests, SessionSeen(r),
           callFaults' \in 0..MaxCallFaults, troubles' \in SUBSET Troubles,
           troubles \subseteq troubles',
           webhook' \in BOOLEAN, webhook => webhook', recorded' \in ConnectionStatuses
    PROVE  Shared(r)
  <1>0. ConnectionTypeOK /\ SessionKnown
    BY DEF ConnectionInv
  <1>1. SessionKnown'
    BY <1>0 DEF SessionKnown, SessionSeen
  <1>2. moved' \in [Requests -> BOOLEAN] /\ meddled' \in [Requests -> BOOLEAN]
    BY <1>0 DEF ConnectionTypeOK, SessionSeen, Look, ghostVars
  <1>3. WorldTyped /\ WorldGrows
    BY <1>0, <1>2 DEF ConnectionTypeOK, SessionSeen, WorldTyped, WorldGrows
  <1>4. \A q \in Requests \ {r} : Watches(q)
    BY <1>0 DEF ConnectionTypeOK, SessionSeen, Look, ghostVars, Watches
  <1>q. QED
    BY <1>1, <1>3, <1>4 DEF Shared

LEMMA SeenIsShared ==
    ASSUME ConnectionInv, NEW r \in Requests, SessionSeen(r),
           NEW answer \in CallAnswers, NEW kind \in Troubles, Call(answer, kind),
           webhook' \in BOOLEAN, webhook => webhook', recorded' \in ConnectionStatuses
    PROVE  Shared(r)
  BY Called, NotedIsShared DEF ConnectionInv

\* A call by which r connects the instance or logs it out.
SessionDriven(r, t) ==
    /\ \/ t = "connecting" /\ session.state # "open"
          /\ SessionBecomesBy(r, [session EXCEPT !.state = "connecting"])
       \/ t = "close" /\ \E known \in {FALSE, session.number} : SessionBecomesBy(r, Closed(known))

LEMMA DrivenIsShared ==
    ASSUME ConnectionInv, NEW r \in Requests, NEW t, SessionDriven(r, t),
           NEW answer \in CallAnswers, NEW kind \in Troubles, Call(answer, kind),
           UNCHANGED <<webhook, recorded>>
    PROVE  Shared(r) /\ session'.state = t
  <1>0. ConnectionTypeOK
    BY DEF ConnectionInv
  <1>1. PICK s : SessionBecomesBy(r, s) /\ s \in Sessions /\ ~s.paired /\ s.state = t
                 /\ t \in {"close", "connecting"}
    <2>1. session \in Sessions /\ (session.paired => session.state = "open")
      BY <1>0 DEF ConnectionTypeOK
    <2>2. CASE t = "connecting" /\ session.state # "open"
               /\ SessionBecomesBy(r, [session EXCEPT !.state = "connecting"])
      <3> DEFINE s == [session EXCEPT !.state = "connecting"]
      <3>1. s \in Sessions /\ ~s.paired /\ s.state = t
        BY <2>1, <2>2 DEF Sessions
      <3>q. QED
        BY <2>2, <3>1
    <2>3. CASE t = "close" /\ \E known \in {FALSE, session.number} : SessionBecomesBy(r, Closed(known))
      <3>1. PICK known \in {FALSE, session.number} : SessionBecomesBy(r, Closed(known))
        BY <2>3
      <3>2. Closed(known) \in Sessions /\ ~Closed(known).paired /\ Closed(known).state = t
        BY <2>1, <2>3 DEF Sessions, Closed
      <3>q. QED
        BY <2>3, <3>1, <3>2
    <2>q. QED
      BY <2>2, <2>3 DEF SessionDriven
  <1>2. /\ session' = s
        /\ moved' \in [Requests -> BOOLEAN] /\ meddled' \in [Requests -> BOOLEAN]
    BY <1>0, <1>1 DEF ConnectionTypeOK, SessionBecomesBy
  <1>3. WorldTyped /\ WorldGrows
    BY <1>0, <1>1, <1>2, Called DEF ConnectionTypeOK, WorldTyped, WorldGrows
  <1>4. \A q \in Requests \ {r} : Watches(q)
    BY <1>0, <1>1 DEF ConnectionTypeOK, SessionBecomesBy, Watches
  <1>5. SessionKnown'
    BY <1>1, <1>2 DEF SessionKnown
  <1>q. QED
    BY <1>1, <1>2, <1>3, <1>4, <1>5 DEF Shared

------------------------------------------------------------------------------
(* ChannelConnection: the steps *)

LEMMA ConnectionInitHolds == ConnectionInit => ConnectionInv
  <1> SUFFICES ASSUME ConnectionInit PROVE ConnectionInv
    OBVIOUS
  <1>1. ConnectionTypeOK
    <2>1. session \in Sessions /\ NoSnapshot \in Snapshots /\ 0 \in 0..MaxCallFaults
      BY CallFaultsAssumption, SnapshotKnown DEF ConnectionInit, Sessions
    <2>q. QED
      BY <2>1 DEF ConnectionInit, ConnectionTypeOK, ConnectionStatuses, Operations, Steps
  <1>2. ASSUME NEW r \in Requests PROVE CallInv(r)
    BY DEF ConnectionInit, CallInv, StaleInv, ProvisionInv, SeenInv, FailureInv
  <1>q. QED
    BY <1>1, <1>2 DEF ConnectionInit, ConnectionInv, SessionKnown

\* Facts of one request of the invariant.
LEMMA CallInvKnown ==
    ASSUME ConnectionInv, NEW r \in Requests
    PROVE  ConnectionTypeOK /\ SessionKnown /\ CallInv(r)
           /\ StaleInv(r) /\ ProvisionInv(r) /\ SeenInv(r) /\ FailureInv(r)
  BY DEF ConnectionInv, CallInv

\* A request that fails, for a reason that CreateIsReconciled admits.
LEMMA FailStep ==
    ASSUME ConnectionInv, NEW r \in Requests, step[r] # "idle", Fail(r), Shared(r),
           op[r] = "provision" => OtherTrouble'
    PROVE  ConnectionInv'
  <1>0. ConnectionTypeOK /\ reply[r] = "none"
    BY CallInvKnown DEF FailureInv
  <1>1. PICK s, w, a :
           /\ Becomes(r, s, op[r], w, a)
           /\ <<s, a>> \in {<<"markError", "none">>, <<"idle", "unavailable">>}
    BY <1>0, Fails
  <1>2. step'[r] = s /\ op'[r] = op[r] /\ reply'[r] = a
    BY <1>0, <1>1, Became
  <1>3. CallInv(r)'
    BY <1>1, <1>2 DEF CallInv, StaleInv, ProvisionInv, SeenInv, FailureInv
  <1>q. QED
    BY <1>1, <1>3, OneRequestMoves

LEMMA InspectStep ==
    ASSUME ConnectionInv, NEW r \in Requests, NEW answer \in CallAnswers, Inspect(r, answer)
    PROVE  ConnectionInv'
  <1>0. /\ ConnectionTypeOK /\ reply[r] = "none" /\ op[r] = "provision"
        /\ step[r] \in {"inspect", "reinspect"} /\ Call(answer, "other")
        /\ UNCHANGED <<session, webhook, recorded>>
        /\ step[r] = "reinspect" => session.state # "absent" \/ OtherTrouble
    BY CallInvKnown, CallKnown DEF Inspect, FailureInv, StepOf
  <1>1. Shared(r)
    BY <1>0, SeenIsShared DEF Inspect, SessionSeen, ConnectionTypeOK, Troubles
  <1>2. CASE answer = "error" /\ Fail(r)
    <2>1. OtherTrouble'
      BY <1>0, <1>2, Called DEF OtherTrouble, Troubles
    <2>q. QED
      BY <1>0, <1>1, <1>2, <2>1, FailStep
  <1>3. CASE session.state # "absent" /\ InstanceFound(r)
    <2> DEFINE w == Snapshot(Normalize(session.state), FALSE)
    <2>1. w \in Snapshots /\ StepOf("findWebhook", op[r])
      BY <1>0, <1>3, SnapshotKnown DEF ConnectionTypeOK, Sessions, Normalize,
                        ConnectionStatuses, StepOf, Steps, Operations
    <2> HIDE DEF w
    <2>2. Becomes(r, "findWebhook", op[r], w, "none")
      BY <1>0, <1>3, <2>1, ProceedsWith DEF InstanceFound, w
    <2>3. CallInv(r)'
      BY <1>0, <1>3, <2>2, Became DEF CallInv, StaleInv, ProvisionInv, SeenInv, FailureInv, Sought
    <2>q. QED
      BY <1>1, <2>2, <2>3, OneRequestMoves
  <1>4. CASE session.state = "absent" /\ step[r] = "inspect" /\ Proceed(r, "create")
    <2>1. Becomes(r, "create", op[r], observed[r], "none")
      BY <1>0, <1>4, Proceeds DEF StepOf, Steps, Operations
    <2>2. CallInv(r)'
      BY <1>0, <2>1, Became DEF CallInv, StaleInv, ProvisionInv, SeenInv, FailureInv, Sought
    <2>q. QED
      BY <1>1, <2>1, <2>2, OneRequestMoves
  <1>5. CASE session.state = "absent" /\ step[r] = "reinspect" /\ Fail(r)
    <2>1. OtherTrouble'
      BY <1>0, <1>5, Called DEF OtherTrouble, Troubles
    <2>q. QED
      BY <1>0, <1>1, <1>5, <2>1, FailStep
  <1>q. QED
    BY <1>0, <1>2, <1>3, <1>4, <1>5 DEF Inspect

\* A step to s with the snapshot w, once its part of the invariant is known.
LEMMA GoStep ==
    ASSUME ConnectionInv, NEW r \in Requests, NEW s, NEW w \in Snapshots,
           \/ Proceed(r, s) /\ w = observed[r]
           \/ ProceedWith(r, s, w),
           StepOf(s, op[r]), step[r] # "idle", Shared(r),
           s \notin {"markError", "reinspect"},
           s \in {"confirmStale", "logout"} /\ ~meddled'[r] =>
               session'.state \in {"open", "close"},
           s = "logout" /\ ~meddled'[r] => ~session'.number /\ session'.removed,
           s \in {"logout", "reconnect"} => "stale" \in troubles',
           op[r] = "provision" =>
               /\ s \in {"findWebhook", "setWebhook"} => session'.state # "absent"
               /\ s \in {"confirmWebhook", "connect", "confirmStale", "logout", "reconnect",
                         "synchronize"} => session'.state # "absent" /\ webhook',
           op[r] \in Sought /\ ~moved'[r] /\ w.status = "CONNECTED" =>
               /\ s \in {"metadata", "confirmStale"} => session'.state = "open"
               /\ s = "synchronize" => Live' \/ "metadata" \in troubles',
           op[r] \in Sought /\ ~moved'[r] /\ s = "confirmStale" /\ w.number => session'.number
    PROVE  ConnectionInv'
  <1>0. ConnectionTypeOK /\ reply[r] = "none"
    BY CallInvKnown DEF FailureInv
  <1>1. Becomes(r, s, op[r], w, "none")
    BY <1>0, Proceeds, ProceedsWith
  <1>2. step'[r] = s /\ op'[r] = op[r] /\ observed'[r] = w /\ reply'[r] = "none"
    BY <1>0, <1>1, Became
  <1>3. StaleInv(r)' /\ ProvisionInv(r)' /\ FailureInv(r)'
    BY <1>2 DEF StaleInv, ProvisionInv, FailureInv
  <1>4. SeenInv(r)'
    BY <1>2 DEF SeenInv
  <1>q. QED
    BY <1>1, <1>3, <1>4, OneRequestMoves DEF CallInv

LEMMA CreateStep ==
    ASSUME ConnectionInv, NEW r \in Requests, NEW answer \in CallAnswers, Create(r, answer)
    PROVE  ConnectionInv'
  <1>0. /\ ConnectionTypeOK /\ reply[r] = "none" /\ op[r] = "provision"
        /\ step[r] = "create" /\ Call(answer, IF answer = "lost" THEN "create" ELSE "other")
        /\ UNCHANGED <<webhook, recorded>>
        /\ session \in Sessions
    BY CallInvKnown, CallKnown DEF Create, FailureInv, StepOf
  <1>1. /\ Shared(r)
        /\ answer # "error" => session'.state # "absent"
    <2>1. CASE session.state = "absent" /\ answer # "error"
      <3>1. SessionDriven(r, "connecting")
        BY <2>1 DEF Create, SessionDriven
      <3>q. QED
        BY <3>1, <1>0, DrivenIsShared DEF Troubles
    <2>2. CASE ~(session.state = "absent" /\ answer # "error")
      <3>1. SessionSeen(r)
        BY <2>2 DEF Create, SessionSeen
      <3>2. Shared(r)
        BY <3>1, <1>0, SeenIsShared DEF ConnectionTypeOK, Troubles
      <3>q. QED
        BY <3>2, <2>2 DEF Create
    <2>q. QED
      BY <2>1, <2>2
  <1>2. StepOf("findWebhook", op[r]) /\ StepOf("reinspect", op[r])
    BY <1>0 DEF StepOf, Steps, Operations
  <1>3. ASSUME NEW w \in Snapshots, answer = "ok", ProceedWith(r, "findWebhook", w)
        PROVE  ConnectionInv'
    BY <1>0, <1>1, <1>2, <1>3, GoStep DEF Sought
  <1>4. CASE CreateFailed(r)
    <2>1. Becomes(r, "reinspect", op[r], observed[r], "none")
      BY <1>0, <1>2, <1>4, Proceeds DEF CreateFailed
    <2>2. session'.state # "absent" \/ OtherTrouble'
      BY <1>0, <1>1, Called DEF OtherTrouble, Troubles
    <2>3. CallInv(r)'
      BY <1>0, <2>1, <2>2, Became
         DEF CallInv, StaleInv, ProvisionInv, SeenInv, FailureInv, Sought
    <2>q. QED
      BY <1>1, <2>1, <2>3, OneRequestMoves
  <1>5. Snapshot("WAITING_QR", TRUE) \in Snapshots /\ Snapshot("PROVISIONING", FALSE) \in Snapshots
    BY SnapshotKnown DEF ConnectionStatuses
  <1>q. QED
    BY <1>3, <1>4, <1>5 DEF Create

\* With its webhook, provision goes on to the connection.
LEMMA ConfiguredStep ==
    ASSUME ConnectionInv, NEW r \in Requests, WebhookConfigured(r), Shared(r),
           step[r] \in {"findWebhook", "setWebhook", "confirmWebhook"}, webhook'
    PROVE  ConnectionInv'
  <1>0. /\ ConnectionTypeOK /\ op[r] = "provision" /\ observed[r] \in Snapshots
        /\ session.state # "absent" /\ session'.state # "absent"
    BY CallInvKnown, CallKnown DEF StepOf, ProvisionInv, Shared, WorldGrows
  <1>1. PICK s \in {"synchronize", "connect"} : Proceed(r, s)
    BY DEF WebhookConfigured
  <1>2. StepOf(s, op[r])
    BY <1>0 DEF StepOf, Steps, Operations
  <1>q. QED
    BY <1>0, <1>1, <1>2, GoStep DEF Sought

LEMMA FindWebhookStep ==
    ASSUME ConnectionInv, NEW r \in Requests, NEW answer \in CallAnswers,
           FindWebhook(r, answer)
    PROVE  ConnectionInv'
  <1>0. /\ ConnectionTypeOK /\ op[r] = "provision" /\ observed[r] \in Snapshots
        /\ step[r] \in {"findWebhook", "confirmWebhook"} /\ Call(answer, "other")
        /\ UNCHANGED <<session, webhook, recorded, ghostVars>>
        /\ session.state # "absent"
        /\ step[r] = "confirmWebhook" => webhook
    BY CallInvKnown, CallKnown DEF FindWebhook, StepOf, ProvisionInv
  <1>1. Shared(r)
    BY <1>0, SeenIsShared DEF SessionSeen, ConnectionTypeOK, Troubles
  <1>2. CASE answer = "error" /\ Fail(r)
    <2>1. OtherTrouble'
      BY <1>0, <1>2, Called DEF OtherTrouble, Troubles
    <2>q. QED
      BY <1>0, <1>1, <1>2, <2>1, FailStep
  <1>3. CASE webhook /\ WebhookConfigured(r)
    BY <1>0, <1>1, <1>3, ConfiguredStep
  <1>4. CASE step[r] = "findWebhook" /\ Proceed(r, "setWebhook")
    <2>1. StepOf("setWebhook", op[r])
      BY <1>0 DEF StepOf, Steps, Operations
    <2>q. QED
      BY <1>0, <1>1, <1>4, <2>1, GoStep DEF Sought
  <1>q. QED
    BY <1>0, <1>2, <1>3, <1>4 DEF FindWebhook

LEMMA SetWebhookStep ==
    ASSUME ConnectionInv, NEW r \in Requests, NEW answer \in CallAnswers,
           SetWebhook(r, answer)
    PROVE  ConnectionInv'
  <1>0. /\ ConnectionTypeOK /\ op[r] = "provision" /\ observed[r] \in Snapshots
        /\ step[r] = "setWebhook" /\ Call(answer, "other")
        /\ UNCHANGED <<session, recorded, ghostVars>>
        /\ session.state # "absent"
        /\ webhook' = (webhook \/ answer # "error")
    BY CallInvKnown, CallKnown DEF SetWebhook, StepOf, ProvisionInv
  <1>1. Shared(r)
    BY <1>0, SeenIsShared DEF SessionSeen, ConnectionTypeOK, Troubles
  <1>2. CASE answer # "ok" /\ SetWebhookFailed(r)
    <2>1. OtherTrouble'
      BY <1>0, <1>2, Called DEF OtherTrouble, Troubles
    <2>q. QED
      BY <1>0, <1>1, <1>2, <2>1, FailStep DEF SetWebhookFailed
  <1>3. CASE answer = "ok" /\ Proceed(r, "confirmWebhook")
    <2>1. StepOf("confirmWebhook", op[r])
      BY <1>0 DEF StepOf, Steps, Operations
    <2>q. QED
      BY <1>0, <1>1, <1>3, <2>1, GoStep DEF Sought
  <1>q. QED
    BY <1>2, <1>3 DEF SetWebhook

\* requestConnect of an instance that is not open, or that gives nothing.
LEMMA CodeStep ==
    ASSUME ConnectionInv, NEW r \in Requests, NEW answer \in CallAnswers,
           step[r] \in {"connect", "reconnect"}, Call(answer, "other"),
           UNCHANGED <<webhook, recorded>>,
           GiveCode(r, answer) \/ NoCode(r, answer)
    PROVE  ConnectionInv'
  <1>0. /\ ConnectionTypeOK /\ session \in Sessions
        /\ op[r] = "provision" => session.state # "absent" /\ webhook
    BY CallInvKnown, CallKnown DEF ProvisionInv
  <1>1. answer # "ok" => OtherTrouble'
    BY <1>0, Called DEF OtherTrouble, Troubles
  <1>2. CASE GiveCode(r, answer)
    <2>1. SessionDriven(r, "connecting")
      BY <1>2 DEF GiveCode, SessionDriven
    <2>2. Shared(r) /\ session'.state = "connecting"
      BY <2>1, DrivenIsShared DEF Troubles
    <2>3. CASE answer = "ok"
      <3>1. /\ StepOf("synchronize", op[r])
            /\ Snapshot("WAITING_QR", TRUE) \in Snapshots
            /\ Snapshot("WAITING_QR", TRUE).status = "WAITING_QR"
        BY <1>0, CallKnown, SnapshotKnown DEF StepOf, Steps, ConnectionStatuses
      <3>q. QED
        BY <1>0, <1>2, <2>2, <2>3, <3>1, GoStep DEF GiveCode
    <2>4. CASE answer # "ok"
      BY <1>1, <1>2, <2>2, <2>4, FailStep DEF GiveCode
    <2>q. QED
      BY <2>3, <2>4
  <1>3. CASE NoCode(r, answer)
    <2>1. Shared(r)
      BY <1>0, <1>3, SeenIsShared DEF NoCode, SessionSeen, ConnectionTypeOK, Troubles
    <2>2. op[r] = "provision" => OtherTrouble'
      BY <1>0, <1>1, <1>3 DEF NoCode
    <2>q. QED
      BY <1>3, <2>1, <2>2, FailStep DEF NoCode
  <1>q. QED
    BY <1>2, <1>3

LEMMA ConnectStep ==
    ASSUME ConnectionInv, NEW r \in Requests, NEW answer \in CallAnswers, Connect(r, answer)
    PROVE  ConnectionInv'
  <1>0. /\ ConnectionTypeOK /\ step[r] = "connect" /\ Call(answer, "other")
        /\ UNCHANGED <<webhook, recorded>>
        /\ op[r] = "provision" => session.state # "absent" /\ webhook
    BY CallInvKnown DEF Connect, ProvisionInv
  <1>1. CASE GiveCode(r, answer) \/ NoCode(r, answer)
    BY <1>0, <1>1, CodeStep
  <1>2. CASE /\ session.state = "open" /\ answer = "ok"
             /\ \E told \in {FALSE, session.number} :
                   ProceedWith(r, "confirmStale",
                               [status |-> "CONNECTED", code |-> FALSE, number |-> told])
             /\ Look(r) /\ UNCHANGED session
    <2>0. PICK told \in {FALSE, session.number} :
              ProceedWith(r, "confirmStale",
                          [status |-> "CONNECTED", code |-> FALSE, number |-> told])
      BY <1>2
    <2> DEFINE w == [status |-> "CONNECTED", code |-> FALSE, number |-> told]
    <2>1. Shared(r)
      BY <1>0, <1>2, SeenIsShared DEF SessionSeen, ConnectionTypeOK, Troubles
    <2>2. StepOf("confirmStale", op[r]) /\ told \in BOOLEAN
      BY <1>0, CallKnown DEF StepOf, Steps, Sessions
    <2>3. w \in Snapshots /\ (w.number => session.number)
      BY <2>2, SnapshotKnown DEF ConnectionStatuses
    <2>4. ProceedWith(r, "confirmStale", w)
      BY <2>0
    <2> HIDE DEF w
    <2>q. QED
      BY <1>0, <1>2, <2>1, <2>2, <2>3, <2>4, GoStep
  <1>3. CASE answer = "lost" /\ Fail(r) /\ UNCHANGED <<session, ghostVars>>
    <2>1. Shared(r)
      BY <1>0, <1>3, SeenIsShared DEF SessionSeen, ConnectionTypeOK, Troubles
    <2>2. OtherTrouble'
      BY <1>0, <1>3, Called DEF OtherTrouble, Troubles
    <2>q. QED
      BY <1>0, <1>3, <2>1, <2>2, FailStep
  <1>q. QED
    BY <1>1, <1>2, <1>3 DEF Connect

LEMMA ConfirmStaleStep ==
    ASSUME ConnectionInv, NEW r \in Requests, NEW answer \in CallAnswers,
           ConfirmStale(r, answer)
    PROVE  ConnectionInv'
  <1>0. /\ ConnectionTypeOK /\ step[r] = "confirmStale"
        /\ UNCHANGED <<session, webhook, recorded, ghostVars>>
        /\ op[r] = "provision" => session.state # "absent" /\ webhook
        /\ ~meddled[r] => session.state \in {"open", "close"}
        /\ op[r] \in Sought /\ ~moved[r] =>
              /\ observed[r].status = "CONNECTED" => session.state = "open"
              /\ observed[r].status = "CONNECTED" /\ observed[r].number => session.number
        /\ SessionKnown /\ observed[r] \in Snapshots
    BY CallInvKnown, CallKnown DEF ConfirmStale, ProvisionInv, StaleInv, SeenInv
  <1>u. UNCHANGED <<session, moved, meddled>> /\ (Live' <=> Live) /\ SessionSeen(r)
    BY <1>0 DEF ghostVars, Live, SessionSeen
  <1>2. CASE /\ StaleDevice(session) /\ Proceed(r, "logout")
             /\ troubles' = troubles \union {"stale"} /\ UNCHANGED callFaults
    <2>1. StepOf("logout", op[r])
      BY <1>0, CallKnown DEF StepOf, Steps
    <2>2. session.removed /\ ~session.number
      BY <1>2 DEF StaleDevice
    <2>3. Shared(r)
      BY <1>0, <1>u, <1>2, NotedIsShared DEF ConnectionTypeOK, Troubles
    <2>4. "stale" \in troubles'
      BY <1>2
    <2>q. QED
      BY <1>0, <1>u, <1>2, <2>1, <2>2, <2>3, <2>4, GoStep
  <1>3. CASE /\ answer \in {"ok", "error"} /\ Call(answer, "metadata")
             /\ answer = "ok" => observed[r].number \/ ~StaleDevice(session)
             /\ StaysConnected(r)
    <2>0. Shared(r)
      BY <1>0, <1>u, <1>3, SeenIsShared DEF ConnectionTypeOK, Troubles
    <2>1. CASE op[r] = "pairing" /\ Fail(r)
      BY <1>0, <2>0, <2>1, FailStep
    <2>2. CASE Proceed(r, "synchronize")
      <3>1. StepOf("synchronize", op[r])
        BY <1>0, CallKnown DEF StepOf, Steps
      <3>2. op[r] \in Sought /\ ~moved[r] /\ observed[r].status = "CONNECTED" =>
                Live \/ "metadata" \in troubles'
        <4>1. CASE answer = "error"
          BY <4>1, <1>0, <1>3, Called DEF Troubles
        <4>2. CASE observed[r].number
          BY <4>2, <1>0 DEF SessionKnown, Live
        <4>3. CASE ~StaleDevice(session)
          BY <4>3, <1>0 DEF StaleDevice, SessionKnown, Live
        <4>q. QED
          BY <4>1, <4>2, <4>3, <1>3
      <3>3. /\ op[r] = "provision" => session'.state # "absent" /\ webhook'
            /\ op[r] \in Sought /\ ~moved'[r] /\ observed[r].status = "CONNECTED" =>
                  Live' \/ "metadata" \in troubles'
        BY <1>0, <1>u, <3>2
      <3>4. Proceed(r, "synchronize") /\ observed[r] = observed[r]
        BY <2>2
      <3>q. QED
        BY <1>0, <2>0, <3>1, <3>3, <3>4, GoStep
    <2>q. QED
      BY <1>3, <2>1, <2>2 DEF StaysConnected
  <1>q. QED
    BY <1>2, <1>3 DEF ConfirmStale, CallAnswers

LEMMA LogoutStep ==
    ASSUME ConnectionInv, NEW r \in Requests, NEW answer \in CallAnswers, Logout(r, answer)
    PROVE  ConnectionInv'
  <1>0. /\ ConnectionTypeOK /\ step[r] = "logout" /\ Call(answer, "other")
        /\ UNCHANGED <<webhook, recorded>> /\ "stale" \in troubles
        /\ op[r] = "provision" => session.state # "absent" /\ webhook
        /\ observed[r] \in Snapshots
    BY CallInvKnown, CallKnown DEF Logout, ProvisionInv, StaleInv
  <1>1. Shared(r) /\ (session.state # "absent" => session'.state # "absent")
    <2>1. CASE session.state # "close" /\ answer # "error"
      <3>1. SessionDriven(r, "close")
        BY <2>1 DEF Logout, SessionDriven
      <3>2. Shared(r) /\ session'.state = "close"
        BY <3>1, <1>0, DrivenIsShared DEF Troubles
      <3>q. QED
        BY <3>2
    <2>2. CASE ~(session.state # "close" /\ answer # "error")
      <3>1. UNCHANGED <<session, ghostVars>>
        BY <2>2 DEF Logout
      <3>2. Shared(r)
        BY <3>1, <1>0, SeenIsShared DEF SessionSeen, ConnectionTypeOK, Troubles
      <3>q. QED
        BY <3>1, <3>2
    <2>q. QED
      BY <2>1, <2>2
  <1>s. "stale" \in troubles' /\ OtherTrouble'
    BY <1>0, Called DEF Troubles, OtherTrouble
  <1>2. CASE Proceed(r, "reconnect")
    <2>1. StepOf("reconnect", op[r])
      BY <1>0, CallKnown DEF StepOf, Steps
    <2>q. QED
      BY <1>0, <1>1, <1>s, <1>2, <2>1, GoStep
  <1>3. CASE Fail(r)
    BY <1>0, <1>1, <1>s, <1>3, FailStep
  <1>q. QED
    BY <1>2, <1>3 DEF Logout

LEMMA ReconnectStep ==
    ASSUME ConnectionInv, NEW r \in Requests, NEW answer \in CallAnswers, Reconnect(r, answer)
    PROVE  ConnectionInv'
  <1>0. /\ ConnectionTypeOK /\ step[r] = "reconnect" /\ Call(answer, "other")
        /\ UNCHANGED <<webhook, recorded>> /\ "stale" \in troubles
    BY CallInvKnown DEF Reconnect, StaleInv
  <1>1. CASE GiveCode(r, answer) \/ NoCode(r, answer)
    BY <1>0, <1>1, CodeStep
  <1>2. CASE Fail(r) /\ UNCHANGED <<session, ghostVars>>
    <2>1. Shared(r)
      BY <1>0, <1>2, SeenIsShared DEF SessionSeen, ConnectionTypeOK, Troubles
    <2>2. OtherTrouble'
      BY <1>0, Called DEF Troubles, OtherTrouble
    <2>q. QED
      BY <1>0, <1>2, <2>1, <2>2, FailStep
  <1>q. QED
    BY <1>1, <1>2 DEF Reconnect

LEMMA GetStateStep ==
    ASSUME ConnectionInv, NEW r \in Requests, NEW answer \in CallAnswers, GetState(r, answer)
    PROVE  ConnectionInv'
  <1>0. /\ ConnectionTypeOK /\ step[r] = "state" /\ Call(answer, "other")
        /\ UNCHANGED <<session, webhook, recorded>> /\ op[r] = "connection"
        /\ session \in Sessions
    BY CallInvKnown, CallKnown DEF GetState, StepOf
  <1>1. Shared(r)
    BY <1>0, SeenIsShared DEF GetState, SessionSeen, ConnectionTypeOK, Troubles
  <1>2. CASE Fail(r)
    BY <1>0, <1>1, <1>2, FailStep
  <1>3. CASE /\ session.state # "absent"
             /\ ProceedWith(r, "metadata", Snapshot(Normalize(session.state), FALSE))
    <2> DEFINE w == Snapshot(Normalize(session.state), FALSE)
    <2>1. /\ w \in Snapshots /\ StepOf("metadata", op[r])
          /\ w.status = "CONNECTED" => session.state = "open"
      BY <1>0, <1>3, SnapshotKnown DEF Sessions, Normalize, ConnectionStatuses, StepOf, Steps,
                        Operations
    <2>2. op[r] # "provision"
      BY <1>0
    <2> HIDE DEF w
    <2>q. QED
      BY <1>0, <1>1, <1>3, <2>1, <2>2, GoStep DEF w
  <1>q. QED
    BY <1>2, <1>3 DEF GetState

LEMMA ReadMetadataStep ==
    ASSUME ConnectionInv, NEW r \in Requests, NEW answer \in CallAnswers,
           ReadMetadata(r, answer)
    PROVE  ConnectionInv'
  <1>0. /\ ConnectionTypeOK /\ step[r] = "metadata" /\ Call(answer, "metadata")
        /\ UNCHANGED <<session, webhook, recorded, ghostVars>> /\ op[r] = "connection"
        /\ answer \in {"ok", "error"}
        /\ ~moved[r] /\ observed[r].status = "CONNECTED" => session.state = "open"
        /\ SessionKnown /\ observed[r] \in Snapshots /\ StepOf("synchronize", op[r])
    BY CallInvKnown, CallKnown
       DEF ReadMetadata, SeenInv, Sought, CallAnswers, StepOf, Steps
  <1>1. Shared(r)
    BY <1>0, SeenIsShared DEF SessionSeen, ConnectionTypeOK, Troubles
  <1>u. UNCHANGED <<session, moved, meddled>> /\ (Live' <=> Live)
    BY <1>0 DEF ghostVars, Live
  <1>2. CASE ProceedWith(r, "synchronize", Snapshot("DISCONNECTED", FALSE))
    <2>1. /\ Snapshot("DISCONNECTED", FALSE) \in Snapshots
          /\ Snapshot("DISCONNECTED", FALSE).status = "DISCONNECTED"
      BY SnapshotKnown DEF ConnectionStatuses
    <2>q. QED
      BY <1>0, <1>1, <1>2, <2>1, GoStep
  <1>3. CASE ~(answer = "ok" /\ SeenStale(r)) /\ Proceed(r, "synchronize")
    <2>1. ~moved[r] /\ observed[r].status = "CONNECTED" => Live \/ "metadata" \in troubles'
      <3>1. CASE answer = "error"
        BY <3>1, <1>0, Called DEF Troubles
      <3>2. CASE ~SeenStale(r)
        BY <3>2, <1>0 DEF SeenStale, StaleDevice, SessionKnown, Live
      <3>q. QED
        BY <3>1, <3>2, <1>0, <1>3
    <2>q. QED
      BY <1>0, <1>u, <1>1, <1>3, <2>1, GoStep
  <1>q. QED
    BY <1>2, <1>3 DEF ReadMetadata

LEMMA SynchronizeStep ==
    ASSUME ConnectionInv, NEW r \in Requests, NEW answer \in CallAnswers,
           Synchronize(r, answer)
    PROVE  ConnectionInv'
  <1>0. /\ ConnectionTypeOK /\ step[r] = "synchronize" /\ Call(answer, "other")
        /\ UNCHANGED <<session, webhook, ghostVars>>
        /\ observed[r] \in Snapshots /\ observed[r].status \in ConnectionStatuses
        /\ recorded' \in ConnectionStatuses /\ StepOf("idle", op[r])
        /\ ProvisionInv(r) /\ SeenInv(r)
    BY CallInvKnown, CallKnown
       DEF Synchronize, Snapshots, StepOf, Steps, ConnectionTypeOK
  <1>1. Shared(r)
    BY <1>0, SeenIsShared DEF SessionSeen, ConnectionTypeOK, Troubles
  <1>2. CASE answer # "ok" /\ Fail(r)
    <2>1. OtherTrouble'
      BY <1>0, <1>2, Called DEF OtherTrouble, Troubles
    <2>q. QED
      BY <1>0, <1>1, <1>2, <2>1, FailStep
  <1>3. CASE Reply(r, observed[r].status)
    <2>1. Becomes(r, "idle", op[r], NoSnapshot, observed[r].status)
      BY <1>0, <1>3, Replied DEF Replies
    <2>2. /\ step'[r] = "idle" /\ op'[r] = op[r] /\ reply'[r] = observed[r].status
          /\ troubles \subseteq troubles'
      BY <1>0, <2>1, Became, Called DEF Troubles
    <2>3. StaleInv(r)' /\ ProvisionInv(r)' /\ FailureInv(r)'
      BY <1>0, <2>2 DEF StaleInv, ProvisionInv, FailureInv, ConnectionStatuses
    <2>4. SeenInv(r)'
      BY <1>0, <2>2 DEF SeenInv, Live, ghostVars
    <2>q. QED
      BY <1>1, <2>1, <2>3, <2>4, OneRequestMoves DEF CallInv
  <1>q. QED
    BY <1>2, <1>3 DEF Synchronize

LEMMA MarkErrorStep ==
    ASSUME ConnectionInv, NEW r \in Requests, NEW answer \in CallAnswers, MarkError(r, answer)
    PROVE  ConnectionInv'
  <1>0. /\ ConnectionTypeOK /\ step[r] = "markError" /\ Call(answer, "other")
        /\ UNCHANGED <<session, webhook, ghostVars>> /\ FailureInv(r)
        /\ recorded' \in ConnectionStatuses
    BY CallInvKnown DEF MarkError, ConnectionTypeOK, ConnectionStatuses
  <1>1. Shared(r)
    BY <1>0, SeenIsShared DEF SessionSeen, ConnectionTypeOK, Troubles
  <1>2. Becomes(r, "idle", op[r], NoSnapshot, "unavailable")
    BY <1>0, Replied DEF MarkError, Replies
  <1>3. step'[r] = "idle" /\ op'[r] = op[r] /\ reply'[r] = "unavailable"
    BY <1>0, <1>2, Became
  <1>4. op[r] = "provision" => OtherTrouble'
    BY <1>0, Called DEF FailureInv, OtherTrouble, Troubles
  <1>5. CallInv(r)'
    BY <1>3, <1>4 DEF CallInv, StaleInv, ProvisionInv, SeenInv, FailureInv
  <1>q. QED
    BY <1>1, <1>2, <1>5, OneRequestMoves

LEMMA DieStep ==
    ASSUME ConnectionInv, NEW r \in Requests, Die(r)
    PROVE  ConnectionInv'
  <1>0. /\ ConnectionTypeOK /\ Call("error", "other")
        /\ UNCHANGED <<session, webhook, recorded, ghostVars>>
    BY CallInvKnown DEF Die
  <1>1. Shared(r)
    BY <1>0, SeenIsShared DEF SessionSeen, ConnectionTypeOK, Troubles, CallAnswers
  <1>2. Becomes(r, "idle", op[r], NoSnapshot, "none")
    BY <1>0, Replied DEF Die, Replies
  <1>3. step'[r] = "idle" /\ op'[r] = op[r] /\ reply'[r] = "none"
    BY <1>0, <1>2, Became
  <1>4. CallInv(r)'
    BY <1>3 DEF CallInv, StaleInv, ProvisionInv, SeenInv, FailureInv
  <1>q. QED
    BY <1>1, <1>2, <1>4, OneRequestMoves

LEMMA StartCallStep ==
    ASSUME ConnectionInv, NEW r \in Requests, NEW o \in Operations, StartCall(r, o)
    PROVE  ConnectionInv'
  <1>0. /\ ConnectionTypeOK /\ step[r] = "idle" /\ observed[r] \in Snapshots
        /\ UNCHANGED <<session, webhook, recorded, troubleVars>> /\ Call("ok", "other")
        /\ recorded \in Replies
    BY CallInvKnown, CallKnown
       DEF StartCall, Call, ConnectionTypeOK, Replies, troubleVars
  <1>1. Shared(r)
    BY <1>0, SeenIsShared
       DEF StartCall, SessionSeen, ConnectionTypeOK, Troubles, CallAnswers
  <1>2. CASE o = "pairing" /\ recorded = "CONNECTED"
    <2>1. Becomes(r, "idle", o, observed[r], recorded)
      BY <1>0, <1>2 DEF StartCall, Becomes, ConnectionTypeOK, StepOf, Steps, Operations
    <2>2. step'[r] = "idle" /\ op'[r] = "pairing" /\ reply'[r] = "CONNECTED"
      BY <1>0, <1>2, <2>1, Became
    <2>3. CallInv(r)'
      BY <2>2 DEF CallInv, StaleInv, ProvisionInv, SeenInv, FailureInv, Sought
    <2>q. QED
      BY <1>1, <2>1, <2>3, OneRequestMoves
  <1>3. CASE ~(o = "pairing" /\ recorded = "CONNECTED")
    <2> DEFINE s == CASE o = "provision" -> "inspect"
                      [] o = "connection" -> "state"
                      [] OTHER -> "connect"
    <2>1. /\ StepOf(s, o) /\ s \in {"inspect", "state", "connect"}
          /\ s = "connect" => o # "provision"
      BY DEF StepOf, Steps, Operations
    <2>2. /\ op' = [op EXCEPT ![r] = o] /\ step' = [step EXCEPT ![r] = s]
          /\ reply' = [reply EXCEPT ![r] = "none"] /\ observed' = observed
      BY <1>3 DEF StartCall
    <2> HIDE DEF s
    <2>3. Becomes(r, s, o, observed[r], "none")
      BY <1>0, <2>1, <2>2 DEF Becomes, ConnectionTypeOK, Replies
    <2>4. step'[r] = s /\ op'[r] = o /\ reply'[r] = "none"
      BY <1>0, <2>3, Became
    <2>5. CallInv(r)'
      BY <2>1, <2>4 DEF CallInv, StaleInv, ProvisionInv, SeenInv, FailureInv
    <2>q. QED
      BY <1>1, <2>3, <2>5, OneRequestMoves
  <1>q. QED
    BY <1>2, <1>3

\* The phone moves no request.
LEMMA PhoneStep ==
    ASSUME ConnectionInv, Phone
    PROVE  ConnectionInv'
  <1>0. /\ ConnectionTypeOK /\ SessionKnown /\ session \in Sessions
        /\ UNCHANGED <<webhook, recorded, step, op, observed, reply, meddled, callFaults, troubles>>
    BY DEF ConnectionInv, ConnectionTypeOK, Phone, callVars, troubleVars
  <1>1. /\ session' \in Sessions /\ (session'.paired => session'.state = "open")
        /\ SessionKnown' /\ WorldGrows
        /\ session.state \in {"open", "close"} =>
              /\ session'.state \in {"open", "close"}
              /\ session'.number => session.number
              /\ session.removed => session'.removed
        /\ moved' = [q \in Requests |-> TellsConnected(q) /\ (moved[q] \/ session' # session)]
    <2>1. PICK s : /\ SessionBecomes(s)
                   /\ \/ /\ session.state = "connecting"
                         /\ \E known \in BOOLEAN, told \in {FALSE, session.removed} :
                               s = [state |-> "open", paired |-> TRUE, number |-> known,
                                    removed |-> told]
                      \/ /\ session.state \in {"connecting", "open"}
                         /\ \E known \in {FALSE, session.number} : s = Closed(known)
                      \/ /\ Live
                         /\ s = [session EXCEPT !.paired = FALSE, !.number = FALSE,
                                               !.removed = TRUE]
      BY DEF Phone, Pair, Close, RemoveDevice
    <2>2. session' = s /\ moved' = [q \in Requests |-> TellsConnected(q) /\ (moved[q] \/ session' # session)]
      BY <2>1 DEF SessionBecomes
    <2>3. /\ s \in Sessions /\ s.state \in {"open", "close"}
          /\ s.paired => s.state = "open"
          /\ s.state = "open" => s.paired \/ (s.removed /\ ~s.number)
          /\ session.state \in {"open", "close"} =>
                (s.number => session.number) /\ (session.removed => s.removed)
      <3>1. CASE Live /\ s = [session EXCEPT !.paired = FALSE, !.number = FALSE, !.removed = TRUE]
        BY <1>0, <3>1 DEF Sessions, Live, ConnectionTypeOK
      <3>2. ASSUME session.state = "connecting", NEW known \in BOOLEAN,
                   NEW told \in {FALSE, session.removed},
                   s = [state |-> "open", paired |-> TRUE, number |-> known, removed |-> told]
            PROVE  s \in Sessions /\ s.state = "open" /\ s.paired
        BY <1>0, <3>2 DEF Sessions
      <3>3. ASSUME NEW known \in {FALSE, session.number}, s = Closed(known)
            PROVE  /\ s \in Sessions /\ s.state = "close" /\ ~s.paired
                   /\ (s.number => session.number) /\ s.removed = session.removed
        BY <1>0, <3>3 DEF Sessions, Closed
      <3>q. QED
        BY <2>1, <3>1, <3>2, <3>3
    <2>q. QED
      BY <1>0, <2>2, <2>3 DEF SessionKnown, WorldGrows
  <1>2. ConnectionTypeOK'
    BY <1>0, <1>1 DEF ConnectionTypeOK
  <1>3. ASSUME NEW q \in Requests PROVE CallInv(q)'
    <2>1. Stays(q) /\ Watches(q)
      BY <1>0, <1>1 DEF Stays, Watches
    <2>q. QED
      BY <1>1, <2>1, BystanderKept DEF ConnectionInv
  <1>q. QED
    BY <1>1, <1>2, <1>3 DEF ConnectionInv

LEMMA ConnectionStutterStep ==
    ASSUME ConnectionInv, UNCHANGED connectionVars
    PROVE  ConnectionInv'
  <1>1. UNCHANGED <<session, webhook, recorded, step, op, observed, reply, moved, meddled,
                    callFaults, troubles>>
    BY DEF connectionVars, callVars, ghostVars, troubleVars
  <1>q. QED
    BY <1>1 DEF ConnectionInv, ConnectionTypeOK, SessionKnown, CallInv, StaleInv, ProvisionInv,
                SeenInv, FailureInv, OtherTrouble, Live

\* ConnectionInv is inductive.
LEMMA ConnectionStepHolds ==
    ConnectionInv /\ [ConnectionNext]_connectionVars => ConnectionInv'
  BY InspectStep, CreateStep, FindWebhookStep, SetWebhookStep, ConnectStep, ConfirmStaleStep,
     LogoutStep, ReconnectStep, GetStateStep, ReadMetadataStep, SynchronizeStep, MarkErrorStep,
     DieStep, StartCallStep, PhoneStep, ConnectionStutterStep
     DEF ConnectionNext, Advance

------------------------------------------------------------------------------
(* ChannelConnection: theorems *)

\* The inductive invariant holds in every reachable state.
THEOREM ConnectionInvariance == ConnectionSpec => []ConnectionInv
  BY ConnectionInitHolds, ConnectionStepHolds, PTL DEF ConnectionSpec

\* Every variable keeps its type, and every request an await of its operation.
THEOREM ConnectionTypes == ConnectionSpec => []ConnectionTypeOK
  BY ConnectionInvariance, PTL DEF ConnectionInv

\* The recovery of a stale device logs out no live phone, unless another request has
\* connected the instance or logged it out meanwhile, or the record of the phone has no
\* number and still tells of the device that was removed before.
THEOREM NoLivePhoneIsLoggedOut == ConnectionSpec => []LogoutIsForStale
  <1>1. ConnectionInv => LogoutIsForStale
    BY CallInvKnown DEF StaleInv, LogoutIsForStale
  <1>q. QED
    BY <1>1, ConnectionInvariance, PTL

\* Who was given a QR code or a connection by provision has an instance with a webhook.
THEOREM HandedOverWithWebhook == ConnectionSpec => []ProvisionedIsConfigured
  <1>1. ConnectionInv => ProvisionedIsConfigured
    BY CallInvKnown DEF ProvisionInv, ProvisionedIsConfigured
  <1>q. QED
    BY <1>1, ConnectionInvariance, PTL

\* getConnection and getQrCode say CONNECTED of a live phone, with a number in its record
\* or without, unless the session has changed since they looked or the record of the
\* instance could not be read.
THEOREM ConnectedIsTold == ConnectionSpec => []ConnectedIsLive
  <1>1. ASSUME ConnectionInv, NEW r \in Requests,
               op[r] \in Sought, reply[r] = "CONNECTED", ~moved[r], "metadata" \notin troubles
        PROVE  Live
    BY <1>1, CallInvKnown DEF SeenInv
  <1>2. ConnectionInv => ConnectedIsLive
    BY <1>1 DEF ConnectedIsLive, Sought
  <1>q. QED
    BY <1>2, ConnectionInvariance, PTL

\* A refused or lost createInstance alone fails no provision, unless a stale device is found.
THEOREM CreateIsLookedAtAgain == ConnectionSpec => []CreateIsReconciled
  <1>1. ConnectionInv => CreateIsReconciled
    BY CallInvKnown DEF FailureInv, OtherTrouble, CreateIsReconciled
  <1>q. QED
    BY <1>1, ConnectionInvariance, PTL

------------------------------------------------------------------------------
(* ChannelConnection: every request ends *)

\* The request q goes on to a step that is nearer to its answer.
GoesOn(q) ==
    \E s \in Steps :
        /\ step' = [step EXCEPT ![q] = s]
        /\ CallsLeft[s] < CallsLeft[step[q]]

LEMMA CallsCounted ==
    /\ CallsLeft["inspect"] = 12 /\ CallsLeft["create"] = 11 /\ CallsLeft["reinspect"] = 10
    /\ CallsLeft["findWebhook"] = 9 /\ CallsLeft["setWebhook"] = 8
    /\ CallsLeft["confirmWebhook"] = 7 /\ CallsLeft["connect"] = 6
    /\ CallsLeft["confirmStale"] = 5 /\ CallsLeft["logout"] = 4 /\ CallsLeft["reconnect"] = 3
    /\ CallsLeft["state"] = 4 /\ CallsLeft["metadata"] = 3 /\ CallsLeft["synchronize"] = 2
    /\ CallsLeft["markError"] = 1 /\ CallsLeft["idle"] = 0
  BY DEF CallsLeft

LEMMA FailGoesOn ==
    ASSUME NEW q \in Requests, step[q] \in Steps \ {"idle", "markError"}, Fail(q)
    PROVE  GoesOn(q)
  <1>1. \E s \in {"idle", "markError"} : step' = [step EXCEPT ![q] = s]
    BY DEF Fail, Proceed, Reply
  <1>2. CallsLeft[step[q]] \in 2..12
    BY CallsCounted DEF Steps
  <1>3. \A s \in {"idle", "markError"} : s \in Steps /\ CallsLeft[s] \in 0..1
    BY CallsCounted DEF Steps
  <1>4. \A s \in {"idle", "markError"} : CallsLeft[s] < CallsLeft[step[q]]
    BY <1>2, <1>3
  <1>q. QED
    BY <1>1, <1>3, <1>4 DEF GoesOn

LEMMA AdvanceGoesOn ==
    ASSUME ConnectionTypeOK, NEW q \in Requests, NEW answer \in CallAnswers, Advance(q, answer)
    PROVE  GoesOn(q)
  <1>1. step[q] \in Steps
    BY DEF ConnectionTypeOK
  <1>2. ASSUME NEW s \in Steps, Proceed(q, s), CallsLeft[s] < CallsLeft[step[q]]
        PROVE  GoesOn(q)
    BY <1>2 DEF Proceed, GoesOn
  <1>w. ASSUME NEW s \in Steps, NEW w, ProceedWith(q, s, w), CallsLeft[s] < CallsLeft[step[q]]
        PROVE  GoesOn(q)
    BY <1>w DEF ProceedWith, GoesOn
  <1>3. ASSUME NEW a, Reply(q, a), step[q] # "idle" PROVE GoesOn(q)
    BY <1>1, <1>3, CallsCounted DEF Reply, GoesOn, Steps
  <1>4. CASE Inspect(q, answer)
    <2>1. \/ Fail(q) \/ ProceedWith(q, "findWebhook", Snapshot(Normalize(session.state), FALSE))
          \/ step[q] = "inspect" /\ Proceed(q, "create")
      BY <1>4 DEF Inspect, InstanceFound
    <2>2. step[q] \in {"inspect", "reinspect"}
      BY <1>4 DEF Inspect
    <2>q. QED
      BY <1>2, <1>w, <2>1, <2>2, FailGoesOn, CallsCounted DEF Steps, Snapshot
  <1>5. CASE Create(q, answer)
    <2>1. \/ ProceedWith(q, "findWebhook", Snapshot("WAITING_QR", TRUE))
          \/ ProceedWith(q, "findWebhook", Snapshot("PROVISIONING", FALSE))
          \/ Proceed(q, "reinspect")
      BY <1>5 DEF Create, CreateFailed
    <2>2. step[q] = "create"
      BY <1>5 DEF Create
    <2>q. QED
      BY <1>2, <1>w, <2>1, <2>2, CallsCounted DEF Steps, Snapshot
  <1>6. WebhookConfigured(q) => \E s \in {"connect", "synchronize"} : Proceed(q, s)
    BY DEF WebhookConfigured
  <1>7. CASE FindWebhook(q, answer)
    BY <1>1, <1>2, <1>6, <1>7, FailGoesOn, CallsCounted DEF FindWebhook, Steps
  <1>8. CASE SetWebhook(q, answer)
    BY <1>1, <1>2, <1>8, FailGoesOn, CallsCounted DEF SetWebhook, SetWebhookFailed, Steps
  <1>9. CASE Connect(q, answer) \/ Reconnect(q, answer)
    <2>1. \/ Fail(q) \/ ProceedWith(q, "synchronize", Snapshot("WAITING_QR", TRUE))
          \/ /\ step[q] = "connect"
             /\ \E told \in {FALSE, session.number} :
                   ProceedWith(q, "confirmStale",
                               [status |-> "CONNECTED", code |-> FALSE, number |-> told])
      BY <1>9 DEF Connect, Reconnect, GiveCode, NoCode
    <2>2. step[q] \in {"connect", "reconnect"}
      BY <1>9 DEF Connect, Reconnect
    <2>q. QED
      BY <1>2, <1>w, <2>1, <2>2, FailGoesOn, CallsCounted DEF Steps, Snapshot
  <1>10. CASE ConfirmStale(q, answer)
    <2>1. Fail(q) \/ Proceed(q, "logout") \/ Proceed(q, "synchronize")
      BY <1>10 DEF ConfirmStale, StaysConnected
    <2>q. QED
      BY <1>1, <1>2, <1>10, <2>1, FailGoesOn, CallsCounted DEF ConfirmStale, Steps
  <1>11. CASE Logout(q, answer)
    BY <1>1, <1>2, <1>11, FailGoesOn, CallsCounted DEF Logout, Steps
  <1>12. CASE GetState(q, answer)
    BY <1>1, <1>w, <1>12, FailGoesOn, CallsCounted DEF GetState, Steps, Snapshot
  <1>13. CASE ReadMetadata(q, answer)
    BY <1>1, <1>2, <1>w, <1>13, CallsCounted DEF ReadMetadata, Steps, Snapshot
  <1>14. CASE Synchronize(q, answer)
    BY <1>1, <1>3, <1>14, FailGoesOn DEF Synchronize, Steps
  <1>15. CASE MarkError(q, answer)
    BY <1>3, <1>15 DEF MarkError
  <1>q. QED
    BY <1>4, <1>5, <1>7, <1>8, <1>9, <1>10, <1>11, <1>12, <1>13, <1>14, <1>15 DEF Advance

LEMMA DeathGoesOn ==
    ASSUME ConnectionTypeOK, NEW q \in Requests, Die(q)
    PROVE  GoesOn(q)
  BY CallsCounted DEF ConnectionTypeOK, Die, Reply, GoesOn, Steps

\* Every await that returns brings its request closer to its answer.
THEOREM ConnectionEnds == ConnectionSpec => ConnectionAdvances
  <1>1. ASSUME ConnectionTypeOK, [ConnectionNext]_connectionVars, NEW r \in Requests,
               step[r] # "idle"
        PROVE  step'[r] = step[r] \/ CallsLeft[step'[r]] < CallsLeft[step[r]]
    <2>1. CASE UNCHANGED step
      BY <2>1
    <2>2. ASSUME NEW q \in Requests, GoesOn(q)
          PROVE  step'[r] = step[r] \/ CallsLeft[step'[r]] < CallsLeft[step[r]]
      BY <1>1, <2>2 DEF GoesOn, ConnectionTypeOK
    <2>3. ASSUME NEW q \in Requests, NEW o \in Operations, StartCall(q, o)
          PROVE  step'[r] = step[r]
      <3>1. q # r
        BY <1>1, <2>3 DEF StartCall
      <3>q. QED
        BY <1>1, <2>3, <3>1 DEF StartCall, ConnectionTypeOK
    <2>q. QED
      BY <1>1, <2>1, <2>2, <2>3, AdvanceGoesOn, DeathGoesOn
         DEF ConnectionNext, Phone, connectionVars, callVars
  <1>2. ConnectionTypeOK /\ [ConnectionNext]_connectionVars => [ConnectionProgress]_connectionVars
    BY <1>1 DEF ConnectionProgress
  <1>q. QED
    BY <1>2, ConnectionTypes, PTL DEF ConnectionSpec, ConnectionAdvances

------------------------------------------------------------------------------
(* MessageRouting: the invariant *)

\* A message that is on its way was accepted by enqueue, for its provider.
DraftInv(m) ==
    phase[m] \notin {"new", "refused"} =>
        /\ ValidInput(draft[m])
        /\ pinned[m] \in ProviderFor(draft[m].type)

\* The witnesses tell of a channel or an asset that fails the message.
WitnessInv(m) ==
    /\ pinned[m] # NoChannel => pinned[m] \in active \/ m \in lapsed
    /\ phase[m] \notin {"new", "insert", "refused"} /\ UsesAsset(draft[m]) =>
          asset[m] \/ m \in spoilt

UnderWay == {"router", "config", "fetch"}

\* The provider has taken a message at most once in each attempt that has ended; as
\* long as the message is not concluded, the outcome of one of those was unknown.
TakenInv(m) ==
    /\ phase[m] \in {"new", "insert"} => sends[m] = 0
    /\ accepted[m] <= (IF phase[m] \in UnderWay THEN sends[m] - 1 ELSE sends[m])
    /\ accepted[m] > 0 /\ phase[m] \notin {"sent", "failed"} => m \in uncertain
    /\ accepted[m] > 1 => m \in uncertain

\* Why a message fails.
FailedInv(m) ==
    phase[m] = "failed" =>
        /\ code[m] \notin {"INVALID_PAYLOAD", "UNSUPPORTED_MESSAGE_TYPE", "MEDIA_URL_NOT_ALLOWED"}
        /\ code[m] = "PROVIDER_CONFIGURATION_ERROR" =>
              m \in lapsed \/ pinned[m] \notin Configured
        /\ code[m] = "MEDIA_ASSET_UNUSABLE" => m \in spoilt
        /\ code[m] = "INVALID_MESSAGE_INPUT" => draft[m].defect = "digits"
        /\ accepted[m] > 0 =>
              \/ code[m] = "INVALID_PROVIDER_RESPONSE"
              \/ m \in uncertain /\ (sends[m] = 1 => code[m] \in RetryableCodes)

MessageInv(m) == DraftInv(m) /\ WitnessInv(m) /\ TakenInv(m) /\ FailedInv(m)

RoutingInv == RoutingTypeOK /\ \A m \in Messages : MessageInv(m)

------------------------------------------------------------------------------
(* MessageRouting: inputs and answers *)

Codes == RetryableCodes \union FinalCodes \union {"NONE"}

\* What enqueue accepts the worker can parse.
LEMMA ValidParses ==
    ASSUME NEW d, ValidInput(d)
    PROVE  Parses(d)
  BY DEF ValidInput, ValidPayload, Parses

\* What enqueue accepts its provider refuses only for the digits of the phone.
LEMMA ValidIsRefusedForDigits ==
    ASSUME NEW m \in Messages, ValidInput(draft[m]),
           pinned[m] \in ProviderFor(draft[m].type), NEW c \in ProviderRefuses(m)
    PROVE  c = "INVALID_MESSAGE_INPUT" /\ draft[m].defect = "digits"
  BY DEF ValidInput, ValidPayload, ProviderRefuses

\* The error of an answer without an id: an answer that leaves the outcome open may be
\* retried; one that says that the message was taken may not.
LEMMA AnswerKnown ==
    ASSUME NEW answer \in Answers, NEW c, answer.kind # "id"
    PROVE  /\ AnswerCode(c, answer) \in Codes \ {"NONE", "INVALID_PAYLOAD",
                 "UNSUPPORTED_MESSAGE_TYPE", "MEDIA_URL_NOT_ALLOWED", "MEDIA_ASSET_UNUSABLE",
                 "PROVIDER_CONFIGURATION_ERROR", "INVALID_MESSAGE_INPUT"}
           /\ ~Conclusive(answer) => AnswerCode(c, answer) \in RetryableCodes
           /\ Conclusive(answer) /\ TRUE \in Taken(answer) =>
                 AnswerCode(c, answer) = "INVALID_PROVIDER_RESPONSE"
  <1>1. CASE answer.kind = "error"
    <2>1. answer.status \in ErrorStatuses
      BY <1>1 DEF Answers
    <2>2. answer.status \in {500, 504} <=> ~(answer.status < 500)
      BY <2>1 DEF ErrorStatuses
    <2>3. AnswerCode(c, answer) = (IF c \in Meta THEN MetaHttpCode(answer.status)
                                                 ELSE HttpCode(answer.status))
      BY <1>1 DEF AnswerCode
    <2>4. ASSUME NEW s \in ErrorStatuses
          PROVE  /\ HttpCode(s) \in {"PROVIDER_TIMEOUT", "PROVIDER_RATE_LIMITED",
                       "PROVIDER_UNAVAILABLE", "INVALID_MESSAGE_REQUEST",
                       "PROVIDER_AUTHENTICATION_FAILED", "PROVIDER_INSTANCE_NOT_FOUND",
                       "PROVIDER_REQUEST_FAILED"}
                 /\ s \in {408, 500, 504} =>
                       HttpCode(s) \in {"PROVIDER_TIMEOUT", "PROVIDER_UNAVAILABLE"}
      BY <2>4 DEF ErrorStatuses, HttpCode
    <2>5. ASSUME NEW s \in ErrorStatuses
          PROVE  /\ MetaHttpCode(s) \in {"PROVIDER_TIMEOUT", "PROVIDER_RATE_LIMITED",
                       "PROVIDER_UNAVAILABLE", "INVALID_MESSAGE_REQUEST",
                       "PROVIDER_AUTHENTICATION_FAILED", "PROVIDER_INSTANCE_NOT_FOUND",
                       "PROVIDER_REQUEST_FAILED"}
                 /\ s \in {408, 500, 504} =>
                       MetaHttpCode(s) \in {"PROVIDER_TIMEOUT", "PROVIDER_UNAVAILABLE"}
      BY <2>4, <2>5 DEF MetaHttpCode
    <2>6. Conclusive(answer) <=> answer.status \notin {408, 500, 504}
      BY <1>1, <2>1, <2>2 DEF Conclusive, ErrorStatuses
    <2>7. Conclusive(answer) => TRUE \notin Taken(answer)
      <3>1. answer.status # 200
        BY <2>1 DEF ErrorStatuses
      <3>2. Conclusive(answer) => Taken(answer) = {FALSE}
        BY <3>1 DEF Taken
      <3>q. QED
        BY <3>2
    <2> DEFINE e == AnswerCode(c, answer)
    <2>8. /\ e \in {"PROVIDER_TIMEOUT", "PROVIDER_RATE_LIMITED",
                   "PROVIDER_UNAVAILABLE", "INVALID_MESSAGE_REQUEST",
                   "PROVIDER_AUTHENTICATION_FAILED", "PROVIDER_INSTANCE_NOT_FOUND",
                   "PROVIDER_REQUEST_FAILED"}
          /\ ~Conclusive(answer) => e \in {"PROVIDER_TIMEOUT", "PROVIDER_UNAVAILABLE"}
      BY <2>1, <2>3, <2>4, <2>5, <2>6
    <2> HIDE DEF e
    <2>9. /\ e \in Codes \ {"NONE", "INVALID_PAYLOAD",
                 "UNSUPPORTED_MESSAGE_TYPE", "MEDIA_URL_NOT_ALLOWED", "MEDIA_ASSET_UNUSABLE",
                 "PROVIDER_CONFIGURATION_ERROR", "INVALID_MESSAGE_INPUT"}
          /\ ~Conclusive(answer) => e \in RetryableCodes
      BY <2>8 DEF Codes, RetryableCodes, FinalCodes
    <2>q. QED
      BY <2>7, <2>9 DEF e
  <1>2. CASE answer.kind \in {"noId", "unreadable"}
    BY <1>2 DEF AnswerCode, Conclusive, Codes, FinalCodes
  <1>3. CASE answer.kind \in {"timeout", "bodyTimeout", "network"}
    BY <1>3 DEF AnswerCode, Conclusive, Codes, RetryableCodes
  <1>q. QED
    BY <1>1, <1>2, <1>3 DEF Answers

------------------------------------------------------------------------------
(* MessageRouting: what a step does to a message *)

\* q is not moved; its witnesses only grow.
Undisturbed(q) ==
    /\ draft'[q] = draft[q] /\ pinned'[q] = pinned[q] /\ phase'[q] = phase[q]
    /\ code'[q] = code[q] /\ sends'[q] = sends[q] /\ accepted'[q] = accepted[q]
    /\ q \in lapsed => q \in lapsed'
    /\ q \in spoilt => q \in spoilt'
    /\ q \in uncertain => q \in uncertain'

LEMMA UndisturbedKept ==
    ASSUME NEW q \in Messages, MessageInv(q), Undisturbed(q),
           pinned[q] # NoChannel => pinned[q] \in active' \/ q \in lapsed',
           asset[q] /\ UsesAsset(draft[q]) => asset'[q] \/ q \in spoilt'
    PROVE  MessageInv(q)'
  <1>1. DraftInv(q)'
    BY DEF MessageInv, Undisturbed, DraftInv, ValidInput, ValidPayload, ProviderFor
  <1>2. WitnessInv(q)'
    BY DEF MessageInv, Undisturbed, WitnessInv, UsesAsset
  <1>3. TakenInv(q)' /\ FailedInv(q)'
    BY DEF MessageInv, Undisturbed, TakenInv, FailedInv
  <1>q. QED
    BY <1>1, <1>2, <1>3 DEF MessageInv

\* m goes on to phase p with error c after s attempts, taken a times.
GoesTo(m, p, c, s, a) ==
    /\ phase' = [phase EXCEPT ![m] = p] /\ code' = [code EXCEPT ![m] = c]
    /\ sends' = [sends EXCEPT ![m] = s] /\ accepted' = [accepted EXCEPT ![m] = a]
    /\ UNCHANGED <<active, connected, changing, asset, draft, pinned, lapsed>>

LEMMA MessageMoves ==
    ASSUME RoutingInv, NEW m \in Messages, phase[m] \notin {"new", "refused"},
           NEW p \in Phases, NEW c \in Codes, NEW s \in 0..MaxSends, NEW a \in 0..MaxSends,
           GoesTo(m, p, c, s, a), p # "new", p = "queued" => s < MaxSends,
           spoilt \subseteq spoilt' \union {m}, spoilt' \subseteq spoilt,
           uncertain \subseteq uncertain', uncertain' \subseteq uncertain \union {m},
           p \notin {"insert", "refused"} /\ UsesAsset(draft[m]) => asset[m] \/ m \in spoilt',
           TakenInv(m)', FailedInv(m)'
    PROVE  RoutingInv'
  <1>0. RoutingTypeOK /\ MessageInv(m)
    BY DEF RoutingInv
  <1>1. /\ phase'[m] = p /\ code'[m] = c /\ sends'[m] = s /\ accepted'[m] = a
        /\ draft'[m] = draft[m] /\ pinned'[m] = pinned[m] /\ asset'[m] = asset[m]
        /\ \A q \in Messages \ {m} : Undisturbed(q)
    BY <1>0 DEF RoutingTypeOK, GoesTo, Undisturbed
  <1>2. RoutingTypeOK'
    BY <1>0, <1>1 DEF RoutingTypeOK, GoesTo, Codes, Undisturbed
  <1>3. MessageInv(m)'
    <2>1. DraftInv(m)'
      BY <1>0, <1>1 DEF MessageInv, DraftInv, ValidInput, ValidPayload, ProviderFor
    <2>2. WitnessInv(m)'
      BY <1>0, <1>1 DEF MessageInv, WitnessInv, GoesTo, UsesAsset
    <2>q. QED
      BY <2>1, <2>2 DEF MessageInv
  <1>4. ASSUME NEW q \in Messages \ {m} PROVE MessageInv(q)'
    <2>1. MessageInv(q) /\ Undisturbed(q) /\ active' = active /\ lapsed' = lapsed
          /\ asset' = asset
      BY <1>1 DEF RoutingInv, GoesTo
    <2>q. QED
      BY <2>1, UndisturbedKept DEF MessageInv, WitnessInv
  <1>q. QED
    BY <1>2, <1>3, <1>4 DEF RoutingInv

\* Facts of one message of the invariant.
LEMMA MessageKnown ==
    ASSUME RoutingInv, NEW m \in Messages
    PROVE  /\ RoutingTypeOK /\ MessageInv(m)
           /\ DraftInv(m) /\ WitnessInv(m) /\ TakenInv(m) /\ FailedInv(m)
           /\ phase[m] \in Phases /\ code[m] \in Codes
           /\ sends[m] \in 0..MaxSends /\ accepted[m] \in 0..MaxSends
           /\ MaxSends \in Nat \ {0}
           /\ spoilt \in SUBSET Messages /\ uncertain \in SUBSET Messages
  BY SendsAssumption DEF RoutingInv, MessageInv, RoutingTypeOK, Codes

\* handleProviderError.
LEMMA OutcomeKnown ==
    ASSUME RoutingInv, NEW m \in Messages, NEW c \in Codes, NEW nth \in 1..MaxSends,
           Outcome(m, c, nth)
    PROVE  \E p \in {"queued", "failed"} :
              /\ phase' = [phase EXCEPT ![m] = p] /\ code' = [code EXCEPT ![m] = c]
              /\ p = "queued" => nth < MaxSends
  BY SendsAssumption DEF Outcome

\* An attempt that ends in an error before the message is sent.
LEMMA RefusedAttempt ==
    ASSUME RoutingInv, NEW m \in Messages,
           NEW c \in Codes, NEW nth \in 1..MaxSends, Outcome(m, c, nth),
           phase[m] \in {"queued"} \union UnderWay,
           nth = IF phase[m] = "queued" THEN sends[m] + 1 ELSE sends[m],
           sends' = [sends EXCEPT ![m] = nth],
           UNCHANGED <<active, connected, changing, asset, draft, pinned, accepted, lapsed,
                       spoilt, uncertain>>,
           c \notin {"INVALID_PAYLOAD", "UNSUPPORTED_MESSAGE_TYPE", "MEDIA_URL_NOT_ALLOWED"},
           c = "PROVIDER_CONFIGURATION_ERROR" => m \in lapsed \/ pinned[m] \notin Configured,
           c = "MEDIA_ASSET_UNUSABLE" => m \in spoilt,
           c = "INVALID_MESSAGE_INPUT" => draft[m].defect = "digits"
    PROVE  RoutingInv'
  <1>1. PICK p \in {"queued", "failed"} :
           /\ phase' = [phase EXCEPT ![m] = p] /\ code' = [code EXCEPT ![m] = c]
           /\ p = "queued" => nth < MaxSends
    BY OutcomeKnown
  <1>2. GoesTo(m, p, c, nth, accepted[m])
    BY <1>1, MessageKnown DEF GoesTo, RoutingTypeOK
  <1>3. /\ phase'[m] = p /\ code'[m] = c /\ sends'[m] = nth /\ accepted'[m] = accepted[m]
        /\ draft'[m] = draft[m] /\ pinned'[m] = pinned[m]
    BY <1>2, MessageKnown DEF GoesTo, RoutingTypeOK
  <1>4. /\ accepted[m] < nth
        /\ accepted[m] > 0 => m \in uncertain
    BY MessageKnown DEF TakenInv, UnderWay
  <1>5. TakenInv(m)'
    BY <1>3, <1>4, MessageKnown DEF TakenInv, UnderWay
  <1>6. FailedInv(m)'
    BY <1>3, <1>4, MessageKnown DEF FailedInv
  <1>7. UsesAsset(draft[m]) => asset[m] \/ m \in spoilt
    BY MessageKnown DEF WitnessInv, UnderWay
  <1>q. QED
    BY <1>1, <1>2, <1>5, <1>6, <1>7, MessageMoves, MessageKnown DEF Phases, UnderWay

\* An attempt that goes on.
LEMMA AttemptGoesOn ==
    ASSUME RoutingInv, NEW m \in Messages, NEW p \in UnderWay, NEW c \in Codes,
           NEW nth \in 1..MaxSends,
           phase[m] \in {"queued"} \union UnderWay,
           nth = IF phase[m] = "queued" THEN sends[m] + 1 ELSE sends[m],
           GoesTo(m, p, c, nth, accepted[m]), UNCHANGED <<spoilt, uncertain>>
    PROVE  RoutingInv'
  <1>1. /\ phase'[m] = p /\ sends'[m] = nth /\ accepted'[m] = accepted[m]
    BY MessageKnown DEF GoesTo, RoutingTypeOK
  <1>2. /\ accepted[m] < nth
        /\ accepted[m] > 0 => m \in uncertain
    BY MessageKnown DEF TakenInv, UnderWay
  <1>3. TakenInv(m)' /\ FailedInv(m)'
    BY <1>1, <1>2, MessageKnown DEF TakenInv, FailedInv, UnderWay
  <1>4. UsesAsset(draft[m]) => asset[m] \/ m \in spoilt
    BY MessageKnown DEF WitnessInv, UnderWay
  <1>q. QED
    BY <1>3, <1>4, MessageMoves, MessageKnown DEF Phases, UnderWay

------------------------------------------------------------------------------
(* MessageRouting: the steps *)

LEMMA RoutingInitHolds == RoutingInit => RoutingInv
  <1> SUFFICES ASSUME RoutingInit PROVE RoutingInv
    OBVIOUS
  <1>1. NoDraft \in Drafts
    BY DEF NoDraft, Drafts, Defects, AllDefects
  <1>2. RoutingTypeOK
    BY <1>1, SendsAssumption DEF RoutingInit, RoutingTypeOK, Phases
  <1>3. ASSUME NEW m \in Messages PROVE MessageInv(m)
    BY DEF RoutingInit, MessageInv, DraftInv, WitnessInv, TakenInv, FailedInv, UnderWay
  <1>q. QED
    BY <1>2, <1>3 DEF RoutingInv

LEMMA ChannelStep ==
    ASSUME RoutingInv,
           active' \in SUBSET Channels, connected' \in SUBSET Evolution,
           changing' \in [Admins -> [channel : Evolution, activate : BOOLEAN] \union {Idle}],
           lapsed' \in SUBSET Messages, lapsed \subseteq lapsed',
           \A m \in Messages :
               pinned[m] # NoChannel => pinned[m] \in active' \/ m \in lapsed',
           UNCHANGED <<asset, draft, pinned, phase, code, sends, accepted, spoilt, uncertain>>
    PROVE  RoutingInv'
  <1>1. RoutingTypeOK'
    BY DEF RoutingInv, RoutingTypeOK
  <1>2. ASSUME NEW q \in Messages PROVE MessageInv(q)'
    <2>1. Undisturbed(q) /\ MessageInv(q)
      BY DEF Undisturbed, RoutingInv
    <2>q. QED
      BY <2>1, UndisturbedKept
  <1>q. QED
    BY <1>1, <1>2 DEF RoutingInv

LEMMA ObserveStep ==
    ASSUME RoutingInv, NEW c \in Evolution, Observe(c)
    PROVE  RoutingInv'
  <1>1. \A m \in Messages : pinned[m] # NoChannel => pinned[m] \in active \/ m \in lapsed
    BY MessageKnown DEF WitnessInv
  <1>2. /\ UNCHANGED <<active, changing, asset, draft, pinned, phase, code, sends, accepted,
                       lapsed, spoilt, uncertain>>
        /\ connected' \in {connected \union {c}, connected \ {c}} \ {connected}
    BY DEF Observe, messageVars, witnessVars
  <1>q. QED
    BY <1>1, <1>2, ChannelStep DEF RoutingInv, RoutingTypeOK

LEMMA ReadStatusStep ==
    ASSUME RoutingInv, NEW u \in Admins, NEW c \in Evolution, NEW activate \in BOOLEAN,
           ReadStatus(u, c, activate)
    PROVE  RoutingInv'
  <1>1. \A m \in Messages : pinned[m] # NoChannel => pinned[m] \in active \/ m \in lapsed
    BY MessageKnown DEF WitnessInv
  <1>2. /\ UNCHANGED <<active, connected, asset, draft, pinned, phase, code, sends, accepted,
                       lapsed, spoilt, uncertain>>
        /\ changing' = [changing EXCEPT ![u] = [channel |-> c, activate |-> activate]]
    BY DEF ReadStatus, messageVars, witnessVars
  <1>q. QED
    BY <1>1, <1>2, ChannelStep DEF RoutingInv, RoutingTypeOK

LEMMA WriteStatusStep ==
    ASSUME RoutingInv, NEW u \in Admins, WriteStatus(u)
    PROVE  RoutingInv'
  <1>0. RoutingTypeOK
    BY DEF RoutingInv
  <1>1. changing[u] \in [channel : Evolution, activate : BOOLEAN]
    BY <1>0 DEF RoutingTypeOK, WriteStatus
  <1>2. active' \in SUBSET Channels
    BY <1>0, <1>1 DEF RoutingTypeOK, WriteStatus, Channels
  <1>3. changing' \in [Admins -> [channel : Evolution, activate : BOOLEAN] \union {Idle}]
    BY <1>0 DEF RoutingTypeOK, WriteStatus
  <1>4. /\ lapsed' = lapsed \union
               {m \in Messages : pinned[m] # NoChannel /\ pinned[m] \notin active'}
        /\ UNCHANGED <<connected, asset, draft, pinned, phase, code, sends, accepted, spoilt,
                       uncertain>>
    BY DEF WriteStatus, messageVars
  <1>q. QED
    BY <1>0, <1>2, <1>3, <1>4, ChannelStep DEF RoutingTypeOK

LEMMA AssetStep ==
    ASSUME RoutingInv, NEW m \in Messages, AssetChanges(m)
    PROVE  RoutingInv'
  <1>0. RoutingTypeOK
    BY DEF RoutingInv
  <1>1. /\ UNCHANGED <<active, connected, changing, draft, pinned, phase, code, sends, accepted,
                       lapsed, uncertain>>
        /\ asset' = [asset EXCEPT ![m] = ~asset[m]]
        /\ spoilt' = IF asset[m] THEN spoilt \union {m} ELSE spoilt
    BY DEF AssetChanges, channelVars, messageVars
  <1>2. asset' \in [Messages -> BOOLEAN] /\ spoilt' \in SUBSET Messages
    BY <1>0, <1>1 DEF RoutingTypeOK
  <1>3. RoutingTypeOK'
    BY <1>0, <1>1, <1>2 DEF RoutingTypeOK
  <1>4. ASSUME NEW q \in Messages PROVE MessageInv(q)'
    <2>1. Undisturbed(q) /\ MessageInv(q)
      BY <1>1 DEF Undisturbed, RoutingInv
    <2>2. asset[q] => asset'[q] \/ q \in spoilt'
      BY <1>0, <1>1 DEF RoutingTypeOK
    <2>q. QED
      BY <1>1, <2>1, <2>2, UndisturbedKept DEF MessageInv, WitnessInv
  <1>q. QED
    BY <1>3, <1>4 DEF RoutingInv

LEMMA EnqueueStep ==
    ASSUME RoutingInv, NEW m \in Messages, NEW d \in Drafts, Enqueue(m, d)
    PROVE  RoutingInv'
  <1>0. /\ RoutingTypeOK /\ phase[m] = "new" /\ sends[m] = 0 /\ accepted[m] = 0
        /\ UNCHANGED <<active, connected, changing, asset, code, sends, accepted, lapsed,
                       spoilt, uncertain>>
        /\ pinned[m] # NoChannel => pinned[m] \in active \/ m \in lapsed
    BY MessageKnown DEF Enqueue, TakenInv, WitnessInv, UnderWay, channelVars, witnessVars
  <1>1. ASSUME NEW q \in Messages \ {m},
               phase'[q] = phase[q], draft'[q] = draft[q], pinned'[q] = pinned[q]
        PROVE  MessageInv(q)'
    BY <1>0, <1>1, UndisturbedKept, MessageKnown DEF Undisturbed, WitnessInv
  <1>2. CASE phase' = [phase EXCEPT ![m] = "refused"] /\ UNCHANGED <<draft, pinned>>
    <2>1. RoutingTypeOK'
      BY <1>0, <1>2 DEF RoutingTypeOK, Phases
    <2>2. phase'[m] = "refused" /\ \A q \in Messages \ {m} : phase'[q] = phase[q]
      BY <1>0, <1>2 DEF RoutingTypeOK
    <2>3. MessageInv(m)'
      BY <1>0, <1>2, <2>2 DEF MessageInv, DraftInv, WitnessInv, TakenInv, FailedInv, UnderWay
    <2>q. QED
      BY <1>1, <1>2, <2>1, <2>2, <2>3 DEF RoutingInv
  <1>3. CASE /\ ValidInput(d)
             /\ draft' = [draft EXCEPT ![m] = d]
             /\ \E c \in Choices(d) : pinned' = [pinned EXCEPT ![m] = c]
             /\ phase' = [phase EXCEPT ![m] = "insert"]
    <2>1. PICK c \in active \intersect ProviderFor(d.type) : pinned' = [pinned EXCEPT ![m] = c]
      BY <1>3 DEF Choices
    <2>2. c \in Channels /\ c # NoChannel
      BY <1>0, <2>1, ChannelsAssumption DEF RoutingTypeOK, Channels
    <2>3. /\ phase'[m] = "insert" /\ draft'[m] = d /\ pinned'[m] = c
          /\ \A q \in Messages \ {m} :
                phase'[q] = phase[q] /\ draft'[q] = draft[q] /\ pinned'[q] = pinned[q]
      BY <1>0, <1>3, <2>1 DEF RoutingTypeOK
    <2>4. RoutingTypeOK'
      BY <1>0, <1>3, <2>1, <2>2, <2>3 DEF RoutingTypeOK, Phases
    <2>5. DraftInv(m)'
      BY <1>3, <2>1, <2>3 DEF DraftInv, ValidInput, ValidPayload, ProviderFor
    <2>6. WitnessInv(m)' /\ TakenInv(m)' /\ FailedInv(m)'
      BY <1>0, <2>1, <2>3 DEF WitnessInv, TakenInv, FailedInv, UnderWay
    <2>q. QED
      BY <1>1, <2>3, <2>4, <2>5, <2>6 DEF RoutingInv, MessageInv
  <1>q. QED
    BY <1>2, <1>3 DEF Enqueue

LEMMA InsertStep ==
    ASSUME RoutingInv, NEW m \in Messages, Insert(m)
    PROVE  RoutingInv'
  <1>0. phase[m] = "insert" /\ sends[m] = 0 /\ accepted[m] = 0
    BY MessageKnown DEF Insert, TakenInv, UnderWay
  <1>1. PICK p \in {"refused", "queued"} :
           /\ phase' = [phase EXCEPT ![m] = p]
           /\ p = "queued" => (UsesAsset(draft[m]) => asset[m])
    BY DEF Insert
  <1>2. GoesTo(m, p, code[m], 0, 0)
    BY <1>0, <1>1, MessageKnown DEF Insert, GoesTo, channelVars, RoutingTypeOK
  <1>3. phase'[m] = p /\ sends'[m] = 0 /\ accepted'[m] = 0
    BY <1>2, MessageKnown DEF GoesTo, RoutingTypeOK
  <1>4. TakenInv(m)' /\ FailedInv(m)'
    BY <1>3 DEF TakenInv, FailedInv, UnderWay
  <1>5. spoilt' = spoilt \ {m} /\ uncertain' = uncertain
    BY DEF Insert
  <1>q. QED
    BY <1>0, <1>1, <1>2, <1>4, <1>5, MessageMoves, MessageKnown DEF Phases

LEMMA ProcessStep ==
    ASSUME RoutingInv, NEW m \in Messages, Process(m)
    PROVE  RoutingInv'
  <1>0. /\ phase[m] = "queued" /\ sends[m] + 1 \in 1..MaxSends
        /\ sends' = [sends EXCEPT ![m] = sends[m] + 1]
        /\ UNCHANGED <<active, connected, changing, asset, draft, pinned, accepted, lapsed,
                       spoilt, uncertain>>
        /\ Parses(draft[m])
        /\ UsesAsset(draft[m]) => asset[m] \/ m \in spoilt
    BY MessageKnown, ValidParses
       DEF Process, RoutingTypeOK, DraftInv, WitnessInv, channelVars, witnessVars
  <1>1. ASSUME NEW c \in {"MEDIA_LOOKUP_FAILED", "MEDIA_ASSET_UNUSABLE"},
               Outcome(m, c, sends[m] + 1), c = "MEDIA_ASSET_UNUSABLE" => m \in spoilt
        PROVE  RoutingInv'
    <2>1. c \in Codes
      BY DEF Codes, RetryableCodes, FinalCodes
    <2>q. QED
      BY <1>0, <1>1, <2>1, RefusedAttempt
  <1>2. CASE /\ phase' = [phase EXCEPT ![m] = "router"]
             /\ code' = [code EXCEPT ![m] = "NONE"]
    <2>1. GoesTo(m, "router", "NONE", sends[m] + 1, accepted[m])
      BY <1>0, <1>2, MessageKnown DEF GoesTo, RoutingTypeOK
    <2>q. QED
      BY <1>0, <2>1, AttemptGoesOn DEF UnderWay, Codes
  <1>q. QED
    BY <1>0, <1>1, <1>2 DEF Process

\* The attempt of a message that is under way.
LEMMA UnderWayKnown ==
    ASSUME RoutingInv, NEW m \in Messages, phase[m] \in UnderWay
    PROVE  /\ sends[m] \in 1..MaxSends
           /\ ValidInput(draft[m]) /\ pinned[m] \in ProviderFor(draft[m].type)
           /\ pinned[m] \in active \/ m \in lapsed
           /\ UsesAsset(draft[m]) => asset[m] \/ m \in spoilt
  BY MessageKnown DEF UnderWay, TakenInv, DraftInv, WitnessInv, RoutingTypeOK

LEMMA RouteStep ==
    ASSUME RoutingInv, NEW m \in Messages, Route(m)
    PROVE  RoutingInv'
  <1>0. /\ phase[m] = "router" /\ phase[m] \in UnderWay
        /\ UNCHANGED <<active, connected, changing, asset, draft, pinned, sends, accepted, lapsed,
                       spoilt, uncertain>>
        /\ sends' = [sends EXCEPT ![m] = sends[m]]
    BY MessageKnown DEF Route, UnderWay, RoutingTypeOK, channelVars, witnessVars
  <1>1. ASSUME NEW c \in {Unreadable, "PROVIDER_CONFIGURATION_ERROR", "INVALID_MESSAGE_INPUT"},
               Outcome(m, c, sends[m]),
               c = "PROVIDER_CONFIGURATION_ERROR" => m \in lapsed,
               c = "INVALID_MESSAGE_INPUT" => draft[m].defect = "digits"
        PROVE  RoutingInv'
    <2>1. c \in Codes
      BY DEF Codes, RetryableCodes, FinalCodes, Unreadable
    <2>q. QED
      BY <1>0, <1>1, <2>1, RefusedAttempt, UnderWayKnown DEF Unreadable
  <1>2. CASE phase' = [phase EXCEPT ![m] = "config"] /\ UNCHANGED code
    <2>1. GoesTo(m, "config", code[m], sends[m], accepted[m])
      BY <1>0, <1>2, MessageKnown DEF GoesTo, RoutingTypeOK
    <2>q. QED
      BY <1>0, <2>1, AttemptGoesOn, UnderWayKnown, MessageKnown DEF UnderWay
  <1>3. CASE \E c \in ProviderRefuses(m) : Outcome(m, c, sends[m])
    BY <1>0, <1>1, <1>3, ValidIsRefusedForDigits, UnderWayKnown
  <1>q. QED
    BY <1>0, <1>1, <1>2, <1>3, UnderWayKnown DEF Route, Unreadable

LEMMA ResolveConfigStep ==
    ASSUME RoutingInv, NEW m \in Messages, ResolveConfig(m)
    PROVE  RoutingInv'
  <1>0. /\ phase[m] = "config" /\ phase[m] \in UnderWay
        /\ UNCHANGED <<active, connected, changing, asset, draft, pinned, sends, accepted, lapsed,
                       spoilt, uncertain>>
        /\ sends' = [sends EXCEPT ![m] = sends[m]]
    BY MessageKnown DEF ResolveConfig, UnderWay, RoutingTypeOK, channelVars, witnessVars
  <1>1. ASSUME NEW c \in {Unreadable, "PROVIDER_CONFIGURATION_ERROR"},
               Outcome(m, c, sends[m]),
               c = "PROVIDER_CONFIGURATION_ERROR" => m \in lapsed \/ pinned[m] \notin Configured
        PROVE  RoutingInv'
    <2>1. c \in Codes
      BY DEF Codes, RetryableCodes, FinalCodes, Unreadable
    <2>q. QED
      BY <1>0, <1>1, <2>1, RefusedAttempt, UnderWayKnown DEF Unreadable
  <1>2. CASE phase' = [phase EXCEPT ![m] = "fetch"] /\ UNCHANGED code
    <2>1. GoesTo(m, "fetch", code[m], sends[m], accepted[m])
      BY <1>0, <1>2, MessageKnown DEF GoesTo, RoutingTypeOK
    <2>q. QED
      BY <1>0, <2>1, AttemptGoesOn, UnderWayKnown, MessageKnown DEF UnderWay
  <1>q. QED
    BY <1>0, <1>1, <1>2, UnderWayKnown DEF ResolveConfig, Unreadable

LEMMA FetchStep ==
    ASSUME RoutingInv, NEW m \in Messages, NEW answer \in Answers, Fetch(m, answer)
    PROVE  RoutingInv'
  <1>0. /\ phase[m] = "fetch" /\ phase[m] \in UnderWay /\ sends[m] \in 1..MaxSends
        /\ UNCHANGED <<active, connected, changing, asset, draft, pinned, sends, lapsed, spoilt>>
        /\ sends' = [sends EXCEPT ![m] = sends[m]]
        /\ UsesAsset(draft[m]) => asset[m] \/ m \in spoilt
        /\ accepted[m] \in 0..(sends[m] - 1) /\ (accepted[m] > 0 => m \in uncertain)
    BY MessageKnown, UnderWayKnown DEF Fetch, UnderWay, RoutingTypeOK, channelVars, TakenInv
  <1>1. PICK taken \in Taken(answer) :
           accepted' = [accepted EXCEPT ![m] = IF taken THEN accepted[m] + 1 ELSE accepted[m]]
    BY DEF Fetch
  <1> DEFINE a == IF taken THEN accepted[m] + 1 ELSE accepted[m]
  <1>2. /\ accepted' = [accepted EXCEPT ![m] = a]
        /\ a \in 0..sends[m] /\ a \in 0..MaxSends
        /\ a > 1 => m \in uncertain
        /\ a > 0 => m \in uncertain \/ (taken = TRUE)
    BY <1>0, <1>1, MessageKnown
  <1> HIDE DEF a
  <1>3. /\ m \in uncertain => m \in uncertain'
        /\ ~Conclusive(answer) => m \in uncertain'
        /\ uncertain \subseteq uncertain' /\ uncertain' \subseteq uncertain \union {m}
    BY DEF Fetch
  <1>4. CASE /\ answer.kind = "id"
             /\ phase' = [phase EXCEPT ![m] = "sent"] /\ UNCHANGED code
    <2>1. GoesTo(m, "sent", code[m], sends[m], a)
      BY <1>0, <1>2, <1>4, MessageKnown DEF GoesTo, RoutingTypeOK
    <2>2. phase'[m] = "sent" /\ sends'[m] = sends[m] /\ accepted'[m] = a
      BY <2>1, MessageKnown DEF GoesTo, RoutingTypeOK
    <2>3. TakenInv(m)' /\ FailedInv(m)'
      BY <1>0, <1>2, <1>3, <2>2 DEF TakenInv, FailedInv, UnderWay
    <2>q. QED
      BY <1>0, <1>2, <1>3, <2>1, <2>3, MessageMoves, MessageKnown DEF Phases
  <1>5. CASE answer.kind # "id" /\ Outcome(m, AnswerCode(pinned[m], answer), sends[m])
    <2> DEFINE c == AnswerCode(pinned[m], answer)
    <2>1. /\ c \in Codes \ {"NONE", "INVALID_PAYLOAD",
                 "UNSUPPORTED_MESSAGE_TYPE", "MEDIA_URL_NOT_ALLOWED", "MEDIA_ASSET_UNUSABLE",
                 "PROVIDER_CONFIGURATION_ERROR", "INVALID_MESSAGE_INPUT"}
          /\ ~Conclusive(answer) => c \in RetryableCodes
          /\ Conclusive(answer) /\ TRUE \in Taken(answer) => c = "INVALID_PROVIDER_RESPONSE"
      BY <1>5, AnswerKnown
    <2>2. Outcome(m, c, sends[m])
      BY <1>5
    <2> HIDE DEF c
    <2>3. PICK p \in {"queued", "failed"} :
             /\ phase' = [phase EXCEPT ![m] = p] /\ code' = [code EXCEPT ![m] = c]
             /\ p = "queued" => sends[m] < MaxSends /\ c \in RetryableCodes
      BY <2>2 DEF Outcome
    <2>4. GoesTo(m, p, c, sends[m], a)
      BY <1>0, <1>2, <2>3 DEF GoesTo
    <2>5. phase'[m] = p /\ code'[m] = c /\ sends'[m] = sends[m] /\ accepted'[m] = a
      BY <2>4, MessageKnown DEF GoesTo, RoutingTypeOK
    <2>6. a > 0 => \/ m \in uncertain'
                   \/ c = "INVALID_PROVIDER_RESPONSE"
      BY <1>2, <1>3, <2>1
    <2>7. "INVALID_PROVIDER_RESPONSE" \notin RetryableCodes
      BY DEF RetryableCodes
    <2>8. TakenInv(m)'
      BY <1>0, <1>2, <1>3, <2>3, <2>5, <2>6, <2>7 DEF TakenInv, UnderWay
    <2>9. a > 0 => \/ c = "INVALID_PROVIDER_RESPONSE"
                   \/ m \in uncertain' /\ (sends[m] = 1 => c \in RetryableCodes)
      <3>1. CASE accepted[m] > 0
        BY <3>1, <1>0, <1>3
      <3>2. CASE accepted[m] = 0
        <4>1. a > 0 => taken = TRUE
          BY <3>2, <1>0 DEF a
        <4>q. QED
          BY <4>1, <2>1, <1>1, <1>3
      <3>q. QED
        BY <3>1, <3>2, <1>0
    <2>10. FailedInv(m)'
      BY <2>1, <2>5, <2>9 DEF FailedInv
    <2>q. QED
      BY <1>0, <1>2, <1>3, <2>1, <2>3, <2>4, <2>8, <2>10, MessageMoves, MessageKnown DEF Phases
  <1>q. QED
    BY <1>4, <1>5 DEF Fetch

LEMMA RoutingStutterStep ==
    ASSUME RoutingInv, UNCHANGED routingVars
    PROVE  RoutingInv'
  <1>1. UNCHANGED <<active, connected, changing, asset, draft, pinned, phase, code, sends,
                    accepted, lapsed, spoilt, uncertain>>
    BY DEF routingVars, channelVars, messageVars, witnessVars
  <1>2. \A m \in Messages : pinned[m] # NoChannel => pinned[m] \in active \/ m \in lapsed
    BY MessageKnown DEF WitnessInv
  <1>q. QED
    BY <1>1, <1>2, ChannelStep DEF RoutingInv, RoutingTypeOK

\* RoutingInv is inductive.
LEMMA RoutingStepHolds == RoutingInv /\ [RoutingNext]_routingVars => RoutingInv'
  BY ObserveStep, ReadStatusStep, WriteStatusStep, AssetStep, EnqueueStep, InsertStep,
     ProcessStep, RouteStep, ResolveConfigStep, FetchStep, RoutingStutterStep
     DEF RoutingNext

------------------------------------------------------------------------------
(* MessageRouting: theorems *)

\* The inductive invariant holds in every reachable state.
THEOREM RoutingInvariance == RoutingSpec => []RoutingInv
  BY RoutingInitHolds, RoutingStepHolds, PTL DEF RoutingSpec

\* Every variable keeps its type: no attempt is beyond the last one.
THEOREM RoutingTypes == RoutingSpec => []RoutingTypeOK
  BY RoutingInvariance, PTL DEF RoutingInv

\* What enqueue accepts fails before it is sent only for its channel, its asset, the
\* credentials, or the digits of the phone.
THEOREM AcceptedIsSendable == RoutingSpec => []EnqueuedIsSendable
  <1>1. RoutingInv => EnqueuedIsSendable
    BY MessageKnown DEF FailedInv, EnqueuedIsSendable
  <1>q. QED
    BY <1>1, RoutingInvariance, PTL

\* No message that the provider has taken is failed for good by an error of the attempt
\* that was taken, unless that attempt's answer had no id.
THEOREM TakenIsTriedOrSent == RoutingSpec => []TakenIsNotRefused
  <1>1. RoutingInv => TakenIsNotRefused
    BY MessageKnown DEF FailedInv, TakenIsNotRefused
  <1>q. QED
    BY <1>1, RoutingInvariance, PTL

\* The provider takes a message twice only after an attempt of unknown outcome.
THEOREM DuplicatesAreUncertain == RoutingSpec => []TakenTwiceIsUncertain
  <1>1. RoutingInv => TakenTwiceIsUncertain
    BY MessageKnown DEF TakenInv, TakenTwiceIsUncertain
  <1>q. QED
    BY <1>1, RoutingInvariance, PTL

------------------------------------------------------------------------------
(* MessageRouting: every message ends *)

\* Message q goes on to a phase that is nearer to its conclusion.
ComesCloser(q) ==
    /\ StepsLeft(q)' \in 0..(StepsLeft(q) - 1)
    /\ \A m \in Messages \ {q} : phase'[m] = phase[m] /\ sends'[m] = sends[m]

\* The phases that may follow, and the attempts.
LEMMA StepCounted ==
    ASSUME RoutingTypeOK, NEW q \in Messages, NEW p \in Phases, NEW n \in 0..MaxSends,
           phase' = [phase EXCEPT ![q] = p], sends' = [sends EXCEPT ![q] = n],
           \/ phase[q] = "new" /\ p \in {"insert", "refused"} /\ n = sends[q]
           \/ phase[q] = "insert" /\ p \in {"queued", "refused"} /\ n = sends[q]
           \/ phase[q] = "queued" /\ p \in {"router", "queued", "failed"} /\ n = sends[q] + 1
           \/ phase[q] = "router" /\ p \in {"config", "queued", "failed"} /\ n = sends[q]
           \/ phase[q] = "config" /\ p \in {"fetch", "queued", "failed"} /\ n = sends[q]
           \/ phase[q] = "fetch" /\ p \in {"sent", "queued", "failed"} /\ n = sends[q]
    PROVE  ComesCloser(q)
  <1>1. /\ sends[q] \in 0..MaxSends /\ MaxSends \in Nat \ {0}
        /\ phase[q] = "queued" => sends[q] < MaxSends
        /\ phase'[q] = p /\ sends'[q] = n
    BY SendsAssumption DEF RoutingTypeOK
  <1>2. \A m \in Messages \ {q} : phase'[m] = phase[m] /\ sends'[m] = sends[m]
    BY DEF RoutingTypeOK
  <1>3. StepsLeft(q)' \in 0..(StepsLeft(q) - 1)
    BY <1>1 DEF StepsLeft
  <1>q. QED
    BY <1>2, <1>3 DEF ComesCloser

LEMMA MessageComesCloser ==
    ASSUME RoutingTypeOK, NEW q \in Messages,
           \/ \E d \in Drafts : Enqueue(q, d)
           \/ Insert(q) \/ Process(q) \/ Route(q) \/ ResolveConfig(q)
           \/ \E answer \in Answers : Fetch(q, answer)
    PROVE  ComesCloser(q)
  <1>0. /\ sends[q] \in 0..MaxSends /\ MaxSends \in Nat \ {0}
        /\ phase[q] = "queued" => sends[q] + 1 \in 1..MaxSends
        /\ sends' = sends => sends' = [sends EXCEPT ![q] = sends[q]]
    BY SendsAssumption DEF RoutingTypeOK
  <1>1. ASSUME NEW c, NEW nth, Outcome(q, c, nth)
        PROVE  \E p \in {"queued", "failed"} : phase' = [phase EXCEPT ![q] = p]
    BY <1>1 DEF Outcome
  <1>2. CASE \E d \in Drafts : Enqueue(q, d)
    BY <1>0, <1>2, StepCounted DEF Enqueue, Phases
  <1>3. CASE Insert(q)
    BY <1>0, <1>3, StepCounted DEF Insert, Phases
  <1>4. CASE Process(q)
    <2>1. /\ phase[q] = "queued" /\ sends' = [sends EXCEPT ![q] = sends[q] + 1]
          /\ \E p \in {"queued", "failed", "router"} : phase' = [phase EXCEPT ![q] = p]
      BY <1>1, <1>4 DEF Process
    <2>2. sends[q] + 1 \in 0..MaxSends
      BY <1>0, <2>1
    <2>q. QED
      BY <1>0, <2>1, <2>2, StepCounted DEF Phases
  <1>5. CASE Route(q)
    <2>1. /\ phase[q] = "router" /\ sends' = sends
          /\ \E p \in {"queued", "failed", "config"} : phase' = [phase EXCEPT ![q] = p]
      BY <1>1, <1>5 DEF Route
    <2>q. QED
      BY <1>0, <2>1, StepCounted DEF Phases
  <1>6. CASE ResolveConfig(q)
    <2>1. /\ phase[q] = "config" /\ sends' = sends
          /\ \E p \in {"queued", "failed", "fetch"} : phase' = [phase EXCEPT ![q] = p]
      BY <1>1, <1>6 DEF ResolveConfig
    <2>q. QED
      BY <1>0, <2>1, StepCounted DEF Phases
  <1>7. CASE \E answer \in Answers : Fetch(q, answer)
    <2>1. /\ phase[q] = "fetch" /\ sends' = sends
          /\ \E p \in {"queued", "failed", "sent"} : phase' = [phase EXCEPT ![q] = p]
      BY <1>1, <1>7 DEF Fetch
    <2>q. QED
      BY <1>0, <2>1, StepCounted DEF Phases
  <1>q. QED
    BY <1>2, <1>3, <1>4, <1>5, <1>6, <1>7

\* Every step of a message brings it closer to its conclusion.
THEOREM RoutingEnds == RoutingSpec => RoutingAdvances
  <1>1. ASSUME RoutingTypeOK, [RoutingNext]_routingVars, NEW m \in Messages
        PROVE  \/ phase'[m] = phase[m] /\ sends'[m] = sends[m]
               \/ StepsLeft(m)' \in 0..(StepsLeft(m) - 1)
    <2>1. CASE UNCHANGED <<phase, sends>>
      BY <2>1
    <2>2. ASSUME NEW q \in Messages, ComesCloser(q)
          PROVE  \/ phase'[m] = phase[m] /\ sends'[m] = sends[m]
                 \/ StepsLeft(m)' \in 0..(StepsLeft(m) - 1)
      BY <2>2 DEF ComesCloser
    <2>3. \/ UNCHANGED <<phase, sends>>
          \/ \E q \in Messages : ComesCloser(q)
      BY <1>1, MessageComesCloser
         DEF RoutingNext, Observe, ReadStatus, WriteStatus, AssetChanges, routingVars, messageVars
    <2>q. QED
      BY <2>1, <2>2, <2>3
  <1>2. RoutingTypeOK /\ [RoutingNext]_routingVars => [RoutingProgress]_routingVars
    BY <1>1 DEF RoutingProgress
  <1>q. QED
    BY <1>2, RoutingTypes, PTL DEF RoutingSpec, RoutingAdvances

------------------------------------------------------------------------------
(* ChannelReservation: the invariant *)

USE LimitAssumption, KeysAssumption DEF MAX_TRANSACTION_ATTEMPTS

\* A transaction that is about to insert has seen too few channels and not its own,
\* but all that were there when its request began: channels are never deleted.
SeenRoom ==
    \A c \in Clients :
        /\ began[c] \subseteq reserved
        /\ stage[c] = "commit" =>
              /\ began[c] \subseteq snapshot[c]
              /\ snapshot[c] \subseteq reserved
              /\ key[c] \notin snapshot[c]
              /\ Cardinality(snapshot[c]) < granted

\* Without failures every attempt but the first is due to a channel that was reserved
\* since the request began, one that the transaction in progress has seen; there is one
\* more once that is known to collide.
AttemptsAreCollisions ==
    aborts = 0 =>
        \A c \in Clients :
            /\ attempt[c] <= Since(c) + 1
            /\ stage[c] = "commit" => attempt[c] <= Cardinality(snapshot[c] \ began[c]) + 1
            /\ stage[c] = "refind" => attempt[c] <= Since(c)
            /\ outcome[c] = "unavailable" => Since(c) >= MAX_TRANSACTION_ATTEMPTS

ReservationInv ==
    ReservationTypeOK /\ SeenRoom /\ WithinGrantedLimit /\ AttemptsAreCollisions

------------------------------------------------------------------------------
(* ChannelReservation: sets of channels *)

LEMMA Counted ==
    ASSUME NEW S \in SUBSET Keys
    PROVE  IsFiniteSet(S) /\ Cardinality(S) \in Nat
  BY FS_Subset, FS_CardinalityType

LEMMA CountGrows ==
    ASSUME NEW S \in SUBSET Keys, NEW T \in SUBSET S
    PROVE  /\ Cardinality(T) <= Cardinality(S)
           /\ T # S => Cardinality(T) + 1 <= Cardinality(S)
  <1>1. IsFiniteSet(S) /\ Cardinality(S) \in Nat /\ Cardinality(T) \in Nat
    BY Counted
  <1>2. Cardinality(T) <= Cardinality(S) /\ (Cardinality(S) = Cardinality(T) => S = T)
    BY <1>1, FS_Subset
  <1>q. QED
    BY <1>1, <1>2

LEMMA CountAdded ==
    ASSUME NEW S \in SUBSET Keys, NEW k \in Keys
    PROVE  /\ S \union {k} \in SUBSET Keys
           /\ Cardinality(S) <= Cardinality(S \union {k})
           /\ k \notin S => Cardinality(S \union {k}) = Cardinality(S) + 1
  <1>1. IsFiniteSet(S) /\ Cardinality(S) \in Nat
    BY Counted
  <1>2. Cardinality(S \union {k}) = IF k \in S THEN Cardinality(S) ELSE Cardinality(S) + 1
    BY <1>1, FS_AddElement
  <1>q. QED
    BY <1>1, <1>2

------------------------------------------------------------------------------
(* ChannelReservation: what a step does to its request *)

\* The request of c has moved on, the others have not.
Moved(c) ==
    /\ stage' \in [Clients -> {"idle", "begin", "commit", "refind"}]
    /\ key' \in [Clients -> Keys \union {NoKey}]
    /\ attempt' \in [Clients -> 0..MAX_TRANSACTION_ATTEMPTS]
    /\ snapshot' \in [Clients -> SUBSET Keys] /\ began' \in [Clients -> SUBSET Keys]
    /\ outcome' \in [Clients -> Outcomes]
    /\ stage'[c] # "idle" => attempt'[c] > 0 /\ key'[c] \in Keys
    /\ \A d \in Clients \ {c} :
          /\ stage'[d] = stage[d] /\ key'[d] = key[d] /\ attempt'[d] = attempt[d]
          /\ snapshot'[d] = snapshot[d] /\ began'[d] = began[d] /\ outcome'[d] = outcome[d]

LEMMA Answered ==
    ASSUME ReservationTypeOK, NEW c \in Clients, NEW o \in Outcomes, Answer(c, o)
    PROVE  /\ Moved(c) /\ stage'[c] = "idle" /\ attempt'[c] = 0 /\ outcome'[c] = o
           /\ began'[c] = began[c]
  BY DEF ReservationTypeOK, Answer, Moved

LEMMA Waited ==
    ASSUME ReservationTypeOK, NEW c \in Clients, NEW s \in {"commit", "refind"},
           Wait(c, s), NEW seen \in SUBSET Keys,
           stage[c] # "idle", snapshot' = [snapshot EXCEPT ![c] = seen]
    PROVE  /\ Moved(c) /\ stage'[c] = s /\ key'[c] = key[c] /\ attempt'[c] = attempt[c]
           /\ outcome'[c] = outcome[c] /\ snapshot'[c] = seen /\ began'[c] = began[c]
  BY DEF ReservationTypeOK, Wait, Moved

LEMMA TriedAgain ==
    ASSUME ReservationTypeOK, NEW c \in Clients, stage[c] # "idle", TryAgain(c)
    PROVE  /\ Moved(c) /\ began'[c] = began[c]
           /\ \/ /\ stage'[c] = "begin" /\ attempt'[c] = attempt[c] + 1
                 /\ outcome'[c] = outcome[c]
              \/ /\ stage'[c] = "idle" /\ attempt'[c] = 0 /\ outcome'[c] = "unavailable"
                 /\ attempt[c] = MAX_TRANSACTION_ATTEMPTS
  <1>1. CASE attempt[c] < MAX_TRANSACTION_ATTEMPTS
    BY <1>1 DEF TryAgain, ReservationTypeOK, Moved
  <1>2. CASE ~(attempt[c] < MAX_TRANSACTION_ATTEMPTS)
    BY <1>2, Answered DEF TryAgain, ReservationTypeOK, Outcomes
  <1>q. QED
    BY <1>1, <1>2

LEMMA Failed ==
    ASSUME ReservationTypeOK, Failure
    PROVE  aborts' \in 1..MaxAborts
  BY DEF ReservationTypeOK, Failure

\* The obligations of the request that has moved.
Kept(c) ==
    /\ began'[c] \subseteq reserved'
    /\ stage'[c] = "commit" =>
          /\ began'[c] \subseteq snapshot'[c]
          /\ snapshot'[c] \subseteq reserved'
          /\ key'[c] \notin snapshot'[c]
          /\ Cardinality(snapshot'[c]) < granted
    /\ aborts' = 0 =>
          /\ attempt'[c] <= Since(c)' + 1
          /\ stage'[c] = "commit" => attempt'[c] <= Cardinality(snapshot'[c] \ began'[c]) + 1
          /\ stage'[c] = "refind" => attempt'[c] <= Since(c)'
          /\ outcome'[c] = "unavailable" => Since(c)' >= MAX_TRANSACTION_ATTEMPTS

\* What was reserved since a request began only grows.
LEMMA SinceGrows ==
    ASSUME ReservationTypeOK, NEW d \in Clients,
           reserved' \in SUBSET Keys, reserved \subseteq reserved', began'[d] = began[d]
    PROVE  /\ Since(d) \in Nat /\ Since(d)' \in Nat /\ Since(d) <= Since(d)'
           /\ \A S \in SUBSET Keys : Cardinality(S \ began[d]) \in Nat
  <1>1. /\ reserved \ began[d] \in SUBSET Keys /\ (reserved \ began[d])' \in SUBSET Keys
        /\ reserved \ began[d] \subseteq (reserved \ began[d])'
    BY DEF ReservationTypeOK
  <1>2. \A S \in SUBSET Keys : S \ began[d] \in SUBSET Keys
    OBVIOUS
  <1>q. QED
    BY <1>1, <1>2, CountGrows, Counted DEF Since

LEMMA OneMoves ==
    ASSUME ReservationInv, NEW c \in Clients, Moved(c), Kept(c),
           UNCHANGED entitlementVars,
           reserved' \in SUBSET Keys, reserved \subseteq reserved',
           Cardinality(reserved') <= granted,
           aborts' \in 0..MaxAborts, aborts' = 0 => aborts = 0
    PROVE  ReservationInv'
  <1>1. ReservationTypeOK'
    BY DEF ReservationInv, ReservationTypeOK, Moved, entitlementVars
  <1>2. SeenRoom'
    BY DEF ReservationInv, ReservationTypeOK, SeenRoom, Moved, Kept, entitlementVars
  <1>3. WithinGrantedLimit'
    BY DEF WithinGrantedLimit, entitlementVars
  <1>5. AttemptsAreCollisions'
    <2> SUFFICES ASSUME aborts' = 0, NEW d \in Clients
                 PROVE  /\ attempt'[d] <= Since(d)' + 1
                        /\ stage'[d] = "commit" =>
                              attempt'[d] <= Cardinality(snapshot'[d] \ began'[d]) + 1
                        /\ stage'[d] = "refind" => attempt'[d] <= Since(d)'
                        /\ outcome'[d] = "unavailable" => Since(d)' >= MAX_TRANSACTION_ATTEMPTS
      BY DEF AttemptsAreCollisions
    <2>1. CASE d = c
      BY <2>1 DEF Kept
    <2>2. CASE d # c
      <3>1. /\ attempt[d] <= Since(d) + 1
            /\ stage[d] = "commit" => attempt[d] <= Cardinality(snapshot[d] \ began[d]) + 1
            /\ stage[d] = "refind" => attempt[d] <= Since(d)
            /\ outcome[d] = "unavailable" => Since(d) >= MAX_TRANSACTION_ATTEMPTS
        BY DEF ReservationInv, AttemptsAreCollisions
      <3>2. /\ stage'[d] = stage[d] /\ attempt'[d] = attempt[d]
            /\ snapshot'[d] = snapshot[d] /\ outcome'[d] = outcome[d]
            /\ attempt[d] \in Nat /\ began'[d] = began[d]
        BY <2>2 DEF Moved, ReservationInv, ReservationTypeOK
      <3>3. Since(d) \in Nat /\ Since(d)' \in Nat /\ Since(d) <= Since(d)'
        BY <3>2, SinceGrows DEF ReservationInv
      <3>q. QED
        BY <3>1, <3>2, <3>3
    <2>q. QED
      BY <2>1, <2>2
  <1>q. QED
    BY <1>1, <1>2, <1>3, <1>5 DEF ReservationInv

------------------------------------------------------------------------------
(* ChannelReservation: the steps *)

LEMMA ReservationInitHolds == ReservationInit => ReservationInv
  <1> SUFFICES ASSUME ReservationInit PROVE ReservationInv
    OBVIOUS
  <1>1. Cardinality(reserved) = 0 /\ \A c \in Clients : Since(c) = 0
    BY FS_EmptySet DEF ReservationInit, Since
  <1>2. ReservationTypeOK
    BY DEF ReservationInit, ReservationTypeOK, Outcomes
  <1>q. QED
    BY <1>1, <1>2 DEF ReservationInit, ReservationInv, ReservationTypeOK, SeenRoom,
                      WithinGrantedLimit, AttemptsAreCollisions

LEMMA LimitStep ==
    ASSUME ReservationInv, NEW l \in 0..MaxLimit, SetLimit(l)
    PROVE  ReservationInv'
  <1>0. Cardinality(reserved) \in Nat
        /\ \A c \in Clients : Cardinality(snapshot[c]) \in Nat
    BY Counted DEF ReservationInv, ReservationTypeOK
  <1>1. ReservationTypeOK' /\ granted <= granted' /\ granted \in Nat /\ granted' \in Nat
    BY DEF ReservationInv, ReservationTypeOK, SetLimit, requestVars
  <1>2. SeenRoom'
    BY <1>0, <1>1 DEF ReservationInv, SeenRoom, SetLimit, requestVars
  <1>3. WithinGrantedLimit'
    BY <1>0, <1>1 DEF ReservationInv, WithinGrantedLimit, SetLimit
  <1>4. AttemptsAreCollisions'
    BY DEF ReservationInv, AttemptsAreCollisions, Since, SetLimit, requestVars
  <1>q. QED
    BY <1>1, <1>2, <1>3, <1>4 DEF ReservationInv

LEMMA StartStep ==
    ASSUME ReservationInv, NEW c \in Clients, NEW k \in Keys, StartReservation(c, k)
    PROVE  ReservationInv'
  <1>0. Cardinality(reserved) \in Nat /\ Cardinality({}) = 0
    BY Counted, FS_EmptySet DEF ReservationInv, ReservationTypeOK
  <1>1. /\ Moved(c) /\ stage'[c] = "begin" /\ attempt'[c] = 1 /\ outcome'[c] = "none"
        /\ began'[c] = reserved
    BY DEF ReservationInv, ReservationTypeOK, StartReservation, Moved, Outcomes
  <1>2. UNCHANGED <<reserved, entitlementVars, aborts>>
    BY DEF StartReservation
  <1>3. Kept(c)
    BY <1>0, <1>1, <1>2 DEF Kept, Since
  <1>q. QED
    BY <1>1, <1>2, <1>3, OneMoves DEF ReservationInv, ReservationTypeOK, WithinGrantedLimit

LEMMA BeginStep ==
    ASSUME ReservationInv, NEW c \in Clients, Begin(c)
    PROVE  ReservationInv'
  <1>0. /\ Cardinality(reserved) \in Nat /\ stage[c] = "begin"
        /\ limit \in Nat /\ granted \in Nat /\ limit <= granted /\ reserved \in SUBSET Keys
        /\ attempt[c] \in Nat /\ aborts \in 0..MaxAborts /\ began[c] \subseteq reserved
    BY Counted DEF ReservationInv, ReservationTypeOK, SeenRoom, Begin
  <1>1. UNCHANGED <<reserved, entitlementVars>>
    BY DEF Begin
  <1>s. began'[c] = began[c] => Since(c) \in Nat /\ Since(c)' = Since(c)
    BY <1>0, <1>1, SinceGrows DEF ReservationInv, Since
  <1> SUFFICES Moved(c) /\ Kept(c) /\ aborts' \in 0..MaxAborts /\ (aborts' = 0 => aborts = 0)
    BY <1>1, OneMoves DEF ReservationInv, ReservationTypeOK, WithinGrantedLimit
  <1>2. ASSUME NEW o \in {"channel", "limit"}, Answer(c, o), UNCHANGED aborts
        PROVE  Moved(c) /\ Kept(c)
    <2>1. /\ Moved(c) /\ stage'[c] = "idle" /\ attempt'[c] = 0 /\ outcome'[c] = o
          /\ began'[c] = began[c]
      BY <1>2, Answered DEF ReservationInv, Outcomes
    <2>q. QED
      BY <2>1, <1>0, <1>1, <1>s DEF Kept
  <1>3. CASE key[c] \notin reserved /\ ~LimitReached /\ Wait(c, "commit")
             /\ snapshot' = [snapshot EXCEPT ![c] = reserved] /\ UNCHANGED aborts
    <2>1. /\ Moved(c) /\ stage'[c] = "commit" /\ key'[c] = key[c] /\ attempt'[c] = attempt[c]
          /\ outcome'[c] = outcome[c] /\ snapshot'[c] = reserved /\ began'[c] = began[c]
      BY <1>0, <1>3, Waited DEF ReservationInv
    <2>2. Cardinality(reserved) < granted
      BY <1>0, <1>3 DEF LimitReached
    <2>3. aborts = 0 => /\ attempt[c] <= Since(c) + 1
                        /\ outcome[c] = "unavailable" => Since(c) >= MAX_TRANSACTION_ATTEMPTS
      BY DEF ReservationInv, AttemptsAreCollisions
    <2>4. Since(c) = Cardinality(snapshot'[c] \ began'[c])
      BY <2>1 DEF Since
    <2>q. QED
      BY <2>1, <2>2, <2>3, <2>4, <1>0, <1>1, <1>s, <1>3 DEF Kept
  <1>4. CASE Failure /\ Answer(c, "unavailable")
    <2>1. Moved(c) /\ stage'[c] = "idle" /\ began'[c] = began[c]
      BY <1>4, Answered DEF ReservationInv, Outcomes
    <2>2. aborts' \in 1..MaxAborts
      BY <1>4, Failed DEF ReservationInv
    <2>q. QED
      BY <2>1, <2>2, <1>0, <1>1 DEF Kept
  <1>q. QED
    BY <1>0, <1>2, <1>3, <1>4 DEF Begin

\* A request that tries again because of a channel that it had not counted.
LEMMA CollisionKept ==
    ASSUME ReservationInv, NEW c \in Clients, stage[c] # "idle", TryAgain(c),
           UNCHANGED reserved,
           aborts' = 0 => aborts = 0 /\ attempt[c] <= Since(c)
    PROVE  Moved(c) /\ Kept(c)
  <1>1. /\ Moved(c) /\ began'[c] = began[c]
        /\ \/ /\ stage'[c] = "begin" /\ attempt'[c] = attempt[c] + 1
              /\ outcome'[c] = outcome[c]
           \/ /\ stage'[c] = "idle" /\ attempt'[c] = 0 /\ outcome'[c] = "unavailable"
              /\ attempt[c] = MAX_TRANSACTION_ATTEMPTS
    BY TriedAgain DEF ReservationInv
  <1>2. /\ Since(c) \in Nat /\ Since(c)' = Since(c) /\ attempt[c] \in Nat
        /\ began[c] \subseteq reserved
    BY <1>1, SinceGrows DEF ReservationInv, ReservationTypeOK, SeenRoom, Since
  <1>3. aborts = 0 => (outcome[c] = "unavailable" => Since(c) >= MAX_TRANSACTION_ATTEMPTS)
    BY DEF ReservationInv, AttemptsAreCollisions
  <1>q. QED
    BY <1>1, <1>2, <1>3 DEF Kept

LEMMA CommitStep ==
    ASSUME ReservationInv, NEW c \in Clients, Commit(c)
    PROVE  ReservationInv'
  <1>0. /\ Cardinality(reserved) \in Nat /\ Cardinality(snapshot[c]) \in Nat
        /\ stage[c] = "commit" /\ reserved \in SUBSET Keys /\ key[c] \in Keys
        /\ granted \in Nat /\ attempt[c] \in Nat /\ aborts \in 0..MaxAborts
        /\ snapshot[c] \in SUBSET Keys /\ Since(c) \in Nat
        /\ Cardinality(snapshot[c] \ began[c]) \in Nat
    <2>1. reserved \ began[c] \in SUBSET Keys /\ snapshot[c] \ began[c] \in SUBSET Keys
      BY DEF ReservationInv, ReservationTypeOK
    <2>q. QED
      BY <2>1, Counted DEF ReservationInv, ReservationTypeOK, Commit, Since
  <1>1. UNCHANGED entitlementVars
    BY DEF Commit
  <1>2. /\ snapshot[c] \subseteq reserved
        /\ key[c] \notin snapshot[c]
        /\ Cardinality(snapshot[c]) < granted
        /\ began[c] \subseteq snapshot[c]
    BY <1>0 DEF ReservationInv, SeenRoom
  <1>3. aborts = 0 => /\ attempt[c] <= Cardinality(snapshot[c] \ began[c]) + 1
                      /\ attempt[c] <= Since(c) + 1
                      /\ outcome[c] = "unavailable" => Since(c) >= MAX_TRANSACTION_ATTEMPTS
    BY <1>0 DEF ReservationInv, AttemptsAreCollisions
  <1>4. Overtaken(c) => Cardinality(snapshot[c] \ began[c]) + 1 <= Since(c)
    <2>1. /\ reserved \ began[c] \in SUBSET Keys
          /\ snapshot[c] \ began[c] \in SUBSET (reserved \ began[c])
          /\ snapshot[c] # reserved => snapshot[c] \ began[c] # reserved \ began[c]
      BY <1>0, <1>2
    <2>q. QED
      BY <2>1, CountGrows DEF Overtaken, Since
  <1>5. CASE ~Overtaken(c) /\ reserved' = reserved \union {key[c]}
             /\ (\/ Answer(c, "channel") /\ UNCHANGED aborts
                 \/ Answer(c, "unavailable") /\ Failure)
    <2>1. /\ reserved' \in SUBSET Keys
          /\ Cardinality(reserved') = Cardinality(snapshot[c]) + 1
      BY <1>0, <1>2, <1>5, CountAdded DEF Overtaken
    <2>2. Moved(c) /\ Kept(c) /\ aborts' \in 0..MaxAborts /\ (aborts' = 0 => aborts = 0)
      <3>1. CASE Answer(c, "channel") /\ UNCHANGED aborts
        <4>1. /\ Moved(c) /\ stage'[c] = "idle" /\ attempt'[c] = 0 /\ outcome'[c] = "channel"
              /\ began'[c] = began[c]
          BY <3>1, Answered DEF ReservationInv, Outcomes
        <4>2. Since(c)' \in Nat
          BY <4>1, <2>1, <1>5, SinceGrows DEF ReservationInv
        <4>q. QED
          BY <4>1, <4>2, <3>1, <2>1, <1>0, <1>2, <1>5 DEF Kept
      <3>2. CASE Answer(c, "unavailable") /\ Failure
        <4>1. Moved(c) /\ stage'[c] = "idle" /\ began'[c] = began[c]
          BY <3>2, Answered DEF ReservationInv, Outcomes
        <4>2. aborts' \in 1..MaxAborts
          BY <3>2, Failed DEF ReservationInv
        <4>q. QED
          BY <4>1, <4>2, <1>2, <1>5 DEF Kept
      <3>q. QED
        BY <1>5, <3>1, <3>2
    <2>q. QED
      BY <2>1, <2>2, <1>0, <1>1, <1>2, <1>5, OneMoves
  <1>6. ASSUME UNCHANGED reserved, Moved(c), Kept(c), aborts' \in 0..MaxAborts,
               aborts' = 0 => aborts = 0
        PROVE  ReservationInv'
    BY <1>0, <1>1, <1>6, OneMoves DEF ReservationInv, WithinGrantedLimit
  <1>7. CASE UNCHANGED <<reserved, aborts>> /\ Overtaken(c) /\ TryAgain(c)
    <2>1. Moved(c) /\ Kept(c)
      BY <1>0, <1>3, <1>4, <1>7, CollisionKept
    <2>q. QED
      BY <2>1, <1>0, <1>6, <1>7
  <1>8. CASE UNCHANGED reserved /\ Failure /\ TryAgain(c)
    <2>1. aborts' \in 1..MaxAborts
      BY <1>8, Failed DEF ReservationInv
    <2>2. Moved(c) /\ Kept(c)
      BY <2>1, <1>0, <1>8, CollisionKept
    <2>q. QED
      BY <2>1, <2>2, <1>6, <1>8
  <1>9. CASE UNCHANGED reserved /\ Failure /\ Answer(c, "unavailable")
    <2>1. Moved(c) /\ stage'[c] = "idle" /\ began'[c] = began[c]
      BY <1>9, Answered DEF ReservationInv, Outcomes
    <2>2. aborts' \in 1..MaxAborts
      BY <1>9, Failed DEF ReservationInv
    <2>q. QED
      BY <2>1, <2>2, <1>2, <1>6, <1>9 DEF Kept
  <1>10. CASE /\ \/ key[c] \in reserved /\ UNCHANGED aborts
                 \/ key[c] \notin reserved /\ Failure
              /\ Wait(c, "refind") /\ UNCHANGED <<reserved, snapshot>>
    <2>1. snapshot' = [snapshot EXCEPT ![c] = snapshot[c]]
      BY <1>10 DEF ReservationInv, ReservationTypeOK
    <2>2. /\ Moved(c) /\ stage'[c] = "refind" /\ attempt'[c] = attempt[c]
          /\ outcome'[c] = outcome[c] /\ began'[c] = began[c]
      BY <2>1, <1>0, <1>10, Waited DEF ReservationInv
    <2>s. Since(c)' = Since(c)
      BY <2>2, <1>10 DEF Since
    <2>3. CASE key[c] \in reserved /\ UNCHANGED aborts
      <3>1. Overtaken(c)
        BY <2>3, <1>2 DEF Overtaken
      <3>2. Kept(c)
        BY <3>1, <2>2, <2>s, <2>3, <1>0, <1>2, <1>3, <1>4, <1>10 DEF Kept
      <3>q. QED
        BY <3>2, <2>2, <2>3, <1>0, <1>6, <1>10
    <2>4. CASE Failure
      <3>1. aborts' \in 1..MaxAborts
        BY <2>4, Failed DEF ReservationInv
      <3>q. QED
        BY <3>1, <2>2, <1>2, <1>6, <1>10 DEF Kept
    <2>q. QED
      BY <1>10, <2>3, <2>4
  <1>q. QED
    BY <1>5, <1>7, <1>8, <1>9, <1>10 DEF Commit

LEMMA RefindStep ==
    ASSUME ReservationInv, NEW c \in Clients, Refind(c)
    PROVE  ReservationInv'
  <1>0. /\ stage[c] = "refind" /\ reserved \in SUBSET Keys
        /\ attempt[c] \in Nat /\ aborts \in 0..MaxAborts
        /\ aborts = 0 => attempt[c] <= Since(c)
        /\ began[c] \subseteq reserved
    <2>1. stage[c] = "refind"
      BY DEF Refind
    <2>2. aborts = 0 => attempt[c] <= Since(c)
      BY <2>1 DEF ReservationInv, AttemptsAreCollisions
    <2>q. QED
      BY <2>1, <2>2 DEF ReservationInv, ReservationTypeOK, SeenRoom
  <1>1. UNCHANGED <<reserved, entitlementVars>>
    BY DEF Refind
  <1>s. began'[c] = began[c] => Since(c) \in Nat /\ Since(c)' = Since(c)
    BY <1>0, <1>1, SinceGrows DEF ReservationInv, Since
  <1> SUFFICES Moved(c) /\ Kept(c) /\ aborts' \in 0..MaxAborts /\ (aborts' = 0 => aborts = 0)
    BY <1>1, OneMoves DEF ReservationInv, ReservationTypeOK, WithinGrantedLimit
  <1>2. CASE Answer(c, "channel") /\ UNCHANGED aborts
    <2>1. /\ Moved(c) /\ stage'[c] = "idle" /\ attempt'[c] = 0 /\ outcome'[c] = "channel"
          /\ began'[c] = began[c]
      BY <1>2, Answered DEF ReservationInv, Outcomes
    <2>q. QED
      BY <2>1, <1>0, <1>1, <1>s, <1>2 DEF Kept
  <1>3. CASE TryAgain(c) /\ UNCHANGED aborts
    <2>1. Moved(c) /\ Kept(c)
      BY <1>0, <1>1, <1>3, CollisionKept
    <2>q. QED
      BY <2>1, <1>0, <1>3
  <1>4. CASE Failure /\ Answer(c, "unavailable")
    <2>1. Moved(c) /\ stage'[c] = "idle" /\ began'[c] = began[c]
      BY <1>4, Answered DEF ReservationInv, Outcomes
    <2>2. aborts' \in 1..MaxAborts
      BY <1>4, Failed DEF ReservationInv
    <2>q. QED
      BY <2>1, <2>2, <1>0, <1>1 DEF Kept
  <1>q. QED
    BY <1>2, <1>3, <1>4 DEF Refind

LEMMA ReservationStutterStep ==
    ASSUME ReservationInv, UNCHANGED reservationVars
    PROVE  ReservationInv'
  <1>1. UNCHANGED <<reserved, limit, granted, stage, key, attempt, snapshot, began, outcome,
                    aborts>>
    BY DEF reservationVars, entitlementVars, requestVars
  <1>q. QED
    BY <1>1 DEF ReservationInv, ReservationTypeOK, SeenRoom, WithinGrantedLimit,
                AttemptsAreCollisions, Since

\* ReservationInv is inductive.
LEMMA ReservationStepHolds == ReservationInv /\ [ReservationNext]_reservationVars => ReservationInv'
  BY LimitStep, StartStep, BeginStep, CommitStep, RefindStep, ReservationStutterStep
     DEF ReservationNext

------------------------------------------------------------------------------
(* ChannelReservation: theorems *)

\* The inductive invariant holds in every reachable state.
THEOREM ReservationInvariance == ReservationSpec => []ReservationInv
  BY ReservationInitHolds, ReservationStepHolds, PTL DEF ReservationSpec

\* Every variable keeps its type.
THEOREM ReservationTypes == ReservationSpec => []ReservationTypeOK
  BY ReservationInvariance, PTL DEF ReservationInv

\* The channels of a company never outnumber the largest limit it was granted.
THEOREM LimitIsKept == ReservationSpec => []WithinGrantedLimit
  BY ReservationInvariance, PTL DEF ReservationInv

\* Without failures, only three channels that were reserved while it ran make a request
\* unavailable, however many there were before.
THEOREM UnavailableIsExplained == ReservationSpec => []UnavailableIsContention
  <1>1. ReservationInv => UnavailableIsContention
    BY DEF ReservationInv, AttemptsAreCollisions, UnavailableIsContention
  <1>q. QED
    BY <1>1, ReservationInvariance, PTL

------------------------------------------------------------------------------
(* ChannelReservation: every reservation ends *)

\* The request of d has moved, and is nearer to its answer.
Nearer(d) ==
    /\ AttemptsLeft(d)' \in 0..(AttemptsLeft(d) - 1)
    /\ \A c \in Clients \ {d} : stage'[c] = stage[c]

\* An attempt ends with an answer, or goes on to an await that follows, or to the next.
LEMMA AttemptCounted ==
    ASSUME ReservationTypeOK, NEW d \in Clients, stage[d] # "idle", Moved(d),
           \/ stage'[d] = "idle"
           \/ stage[d] = "begin" /\ stage'[d] = "commit" /\ attempt'[d] = attempt[d]
           \/ stage[d] = "commit" /\ stage'[d] = "refind" /\ attempt'[d] = attempt[d]
           \/ stage[d] # "begin" /\ stage'[d] = "begin" /\ attempt'[d] = attempt[d] + 1
    PROVE  Nearer(d)
  <1>1. /\ attempt[d] \in 0..3 /\ attempt'[d] \in 0..3
        /\ stage[d] \in {"begin", "commit", "refind"}
    BY DEF ReservationTypeOK, Moved
  <1>2. AttemptsLeft(d)' \in 0..(AttemptsLeft(d) - 1)
    BY <1>1 DEF AttemptsLeft
  <1>q. QED
    BY <1>2 DEF Nearer, Moved

LEMMA RequestComesCloser ==
    ASSUME ReservationTypeOK, NEW d \in Clients, Begin(d) \/ Commit(d) \/ Refind(d)
    PROVE  Nearer(d)
  <1>1. stage[d] \in {"begin", "commit", "refind"} /\ reserved \in SUBSET Keys
        /\ snapshot[d] \in SUBSET Keys /\ snapshot = [snapshot EXCEPT ![d] = snapshot[d]]
    BY DEF ReservationTypeOK, Begin, Commit, Refind
  <1>2. ASSUME NEW o \in Outcomes, Answer(d, o) PROVE Nearer(d)
    BY <1>1, <1>2, Answered, AttemptCounted
  <1>3. CASE stage[d] # "begin" /\ TryAgain(d)
    BY <1>1, <1>3, TriedAgain, AttemptCounted
  <1>4. CASE Begin(d)
    <2>1. CASE Wait(d, "commit") /\ snapshot' = [snapshot EXCEPT ![d] = reserved]
      <3>1. /\ Moved(d) /\ stage'[d] = "commit" /\ attempt'[d] = attempt[d]
            /\ stage[d] = "begin"
        BY <1>1, <1>4, <2>1, Waited DEF Begin
      <3>q. QED
        BY <3>1, AttemptCounted
    <2>q. QED
      BY <1>2, <1>4, <2>1 DEF Begin, Outcomes
  <1>5. CASE Commit(d)
    <2>1. CASE Wait(d, "refind") /\ UNCHANGED <<reserved, snapshot>>
      <3>1. /\ Moved(d) /\ stage'[d] = "refind" /\ attempt'[d] = attempt[d]
            /\ stage[d] = "commit"
        BY <1>1, <1>5, <2>1, Waited DEF Commit
      <3>q. QED
        BY <3>1, AttemptCounted
    <2>q. QED
      BY <1>2, <1>3, <1>5, <2>1 DEF Commit, Outcomes
  <1>6. CASE Refind(d)
    BY <1>2, <1>3, <1>6 DEF Refind, Outcomes
  <1>q. QED
    BY <1>4, <1>5, <1>6

\* Every await of a reservation that returns brings it closer to its answer.
THEOREM ReservationEnds == ReservationSpec => ReservationAdvances
  <1>1. ASSUME ReservationTypeOK, [ReservationNext]_reservationVars, NEW c \in Clients,
               stage[c] # "idle"
        PROVE  stage'[c] = stage[c] \/ AttemptsLeft(c)' \in 0..(AttemptsLeft(c) - 1)
    <2>1. CASE UNCHANGED stage
      BY <2>1
    <2>2. ASSUME NEW d \in Clients, Nearer(d)
          PROVE  stage'[c] = stage[c] \/ AttemptsLeft(c)' \in 0..(AttemptsLeft(c) - 1)
      BY <2>2 DEF Nearer
    <2>3. ASSUME NEW d \in Clients, NEW k \in Keys, StartReservation(d, k)
          PROVE  stage'[c] = stage[c]
      <3>1. d # c
        BY <1>1, <2>3 DEF StartReservation
      <3>q. QED
        BY <1>1, <2>3, <3>1 DEF StartReservation, ReservationTypeOK
    <2>q. QED
      BY <1>1, <2>1, <2>2, <2>3, RequestComesCloser
         DEF ReservationNext, SetLimit, reservationVars, requestVars
  <1>2. ReservationTypeOK /\ [ReservationNext]_reservationVars => [ReservationProgress]_reservationVars
    BY <1>1 DEF ReservationProgress
  <1>q. QED
    BY <1>2, ReservationTypes, PTL DEF ReservationSpec, ReservationAdvances

------------------------------------------------------------------------------
(* MCChannels *)

allVars == <<part, reservationVars, connectionVars, routingVars>>

\* Each part of a behaviour of MCChannels is a behaviour of its module.
LEMMA PartsAreTheirModules == Spec => ReservationSpec /\ ConnectionSpec /\ RoutingSpec
  <1>1. Init => ReservationInit /\ ConnectionInit /\ RoutingInit
    BY DEF Init
  <1>2. [Next]_allVars => /\ [ReservationNext]_reservationVars
                          /\ [ConnectionNext]_connectionVars
                          /\ [RoutingNext]_routingVars
    BY DEF Next, allVars
  <1>3. Spec => Init /\ [][Next]_allVars
    BY DEF Spec, allVars
  <1>q. QED
    BY <1>1, <1>2, <1>3, PTL DEF ReservationSpec, ConnectionSpec, RoutingSpec

\* No loop of a reservation, of a connection or of a message goes on for ever.
THEOREM RequestsEnd == Spec => EveryRequestEnds
  <1>1. [ReservationProgress]_reservationVars => ReservationProgress
    BY DEF ReservationProgress, reservationVars, requestVars
  <1>2. [ConnectionProgress]_connectionVars => ConnectionProgress
    BY DEF ConnectionProgress, connectionVars, callVars
  <1>3. [RoutingProgress]_routingVars => RoutingProgress
    BY DEF RoutingProgress, routingVars, messageVars
  <1>4. /\ [ReservationProgress]_reservationVars
        /\ [ConnectionProgress]_connectionVars
        /\ [RoutingProgress]_routingVars
        => [ReservationProgress /\ ConnectionProgress /\ RoutingProgress]_allVars
    BY <1>1, <1>2, <1>3
  <1>5. Spec => /\ [][ReservationProgress]_reservationVars
                /\ [][ConnectionProgress]_connectionVars
                /\ [][RoutingProgress]_routingVars
    BY PartsAreTheirModules, ReservationEnds, ConnectionEnds, RoutingEnds
       DEF ReservationAdvances, ConnectionAdvances, RoutingAdvances
  <1>6. (Spec => [][ReservationProgress /\ ConnectionProgress /\ RoutingProgress]_allVars)
        => (Spec => EveryRequestEnds)
    BY DEF EveryRequestEnds, allVars
  <1>q. QED
    BY <1>4, <1>5, <1>6, PTL
================================================================================
