-------------------------- MODULE ChannelConnection ---------------------------
(***************************************************************************)
(* The connection of a reserved channel to WhatsApp: provision, getQrCode, *)
(* getConnection and getPairingCode of src/backend/src/messaging-channel/  *)
(* messaging-channel-provisioning.service.ts, with the calls of            *)
(* env-evolution-instance-provisioning.client.ts to the instance of the    *)
(* channel at the Evolution API, and the configuration of its webhook by   *)
(* evolution-webhook-provisioning.service.ts.                              *)
(*                                                                         *)
(* A channel has an instance of its own: the module is about one channel.  *)
(* Every await is a step; requests overlap, the phone of the user comes    *)
(* and goes, and a call may fail before or after its effect.  The API is   *)
(* external: what it does is taken from how the client reads its answers.  *)
(***************************************************************************)
EXTENDS Naturals

CONSTANTS
    Requests,         \* requests handled at the same time
    MaxCallFaults     \* bound on failed calls

ASSUME CallFaultsAssumption == MaxCallFaults \in Nat

VARIABLES
    session,      \* the instance at Evolution
    webhook,      \* the instance reports its messages to this backend
    recorded,     \* connectionStatus of the channel
    step,         \* the await a request stands at
    op,           \* what it was asked for
    observed,     \* the snapshot it has got from Evolution
    reply,        \* what it was answered last
    moved,        \* the session has changed since a request saw it connected
    meddled,      \* between that and its logout another request has connected or logged out
    callFaults,   \* failed calls so far
    troubles      \* their kinds, and "stale" once a device was found stale

callVars == <<step, op, observed, reply>>
ghostVars == <<moved, meddled>>
troubleVars == <<callFaults, troubles>>
connectionVars == <<session, webhook, recorded, callVars, ghostVars, troubleVars>>

ConnectionStatuses == {"CONNECTED", "WAITING_QR", "DISCONNECTED", "PROVISIONING", "ERROR"}
Operations == {"provision", "qr", "connection", "pairing"}
Steps == {"idle", "inspect", "create", "reinspect", "findWebhook", "setWebhook",
          "confirmWebhook", "connect", "confirmStale", "logout", "reconnect",
          "state", "metadata", "synchronize", "markError"}
Troubles == {"create", "metadata", "other", "stale"}

\* state: what Evolution says of the connection, "open" also when the phone has
\* removed the device; paired: the phone is there, which no answer tells as such.
\* Of the record, number: it has the number of a phone; removed: disconnectionObject
\* tells of a device that was removed, now or before.  A record may lack the number of
\* a phone that is there, and keep that of one that is not; its ownerJid decides nothing.
Sessions == [state : {"absent", "close", "connecting", "open"},
             paired : BOOLEAN, number : BOOLEAN, removed : BOOLEAN]

\* A connection status, whether there is a QR code or pairing code, and whether
\* instance/connect gave the number of a phone.
Snapshots == [status : ConnectionStatuses, code : BOOLEAN, number : BOOLEAN]
Snapshot(s, c) == [status |-> s, code |-> c, number |-> FALSE]
NoSnapshot == Snapshot("PROVISIONING", FALSE)

ConnectionTypeOK ==
    /\ session \in Sessions
    /\ session.paired => session.state = "open"
    /\ webhook \in BOOLEAN
    /\ recorded \in ConnectionStatuses
    /\ step \in [Requests -> Steps]
    /\ op \in [Requests -> Operations]
    /\ observed \in [Requests -> Snapshots]
    /\ reply \in [Requests -> ConnectionStatuses \union {"none", "unavailable"}]
    /\ moved \in [Requests -> BOOLEAN]
    /\ meddled \in [Requests -> BOOLEAN]
    /\ callFaults \in 0..MaxCallFaults
    /\ troubles \in SUBSET Troubles
    /\ \A r \in Requests :
          /\ step[r] \in {"inspect", "create", "reinspect", "findWebhook", "setWebhook",
                        "confirmWebhook"} => op[r] = "provision"
          /\ step[r] \in {"state", "metadata"} => op[r] = "connection"
          /\ step[r] = "markError" => op[r] \in {"provision", "qr"}

ConnectionInit ==
    /\ session = [state |-> "absent", paired |-> FALSE, number |-> FALSE, removed |-> FALSE]
    /\ webhook = FALSE
    /\ recorded = "PROVISIONING"
    /\ step = [r \in Requests |-> "idle"]
    /\ op = [r \in Requests |-> "provision"]
    /\ observed = [r \in Requests |-> NoSnapshot]
    /\ reply = [r \in Requests |-> "none"]
    /\ moved = [r \in Requests |-> FALSE]
    /\ meddled = [r \in Requests |-> FALSE]
    /\ callFaults = 0
    /\ troubles = {}

Live == session.paired

------------------------------------------------------------------------------
(* Helpers *)

\* A call answers; fails without effect; fails after its effect.
CallAnswers == {"ok", "error", "lost"}

Call(answer, kind) ==
    IF answer = "ok"
      THEN UNCHANGED troubleVars
      ELSE /\ callFaults < MaxCallFaults
           /\ callFaults' = callFaults + 1
           /\ troubles' = troubles \union {kind}

\* What r has seen or was answered is a connection, if it was asked whether there is one.
TellsConnected(r) ==
    /\ op[r] \in {"connection", "qr"}
    /\ observed[r].status = "CONNECTED" \/ reply[r] = "CONNECTED"

\* The session after a call or an event, and whose connection it was.
SessionBecomes(s) ==
    /\ session' = s
    /\ moved' = [q \in Requests |-> TellsConnected(q) /\ (moved[q] \/ s # session)]

\* The session after r connected it or logged it out, which is news to the others; those
\* that deal with a device that may be stale are told apart.
SessionBecomesBy(r, s) ==
    /\ session' = s
    /\ moved' = [q \in Requests |-> q # r /\ TellsConnected(q) /\ (moved[q] \/ s # session)]
    /\ meddled' = [q \in Requests |-> q # r /\ step[q] \in {"confirmStale", "logout"}]

\* r has looked: nothing has changed since.
Look(r) ==
    /\ moved' = [moved EXCEPT ![r] = FALSE]
    /\ meddled' = [meddled EXCEPT ![r] = FALSE]

Proceed(r, s) ==
    /\ step' = [step EXCEPT ![r] = s]
    /\ UNCHANGED <<op, observed, reply>>

ProceedWith(r, s, snapshot) ==
    /\ step' = [step EXCEPT ![r] = s]
    /\ observed' = [observed EXCEPT ![r] = snapshot]
    /\ UNCHANGED <<op, reply>>

Reply(r, answer) ==
    /\ step' = [step EXCEPT ![r] = "idle"]
    /\ observed' = [observed EXCEPT ![r] = NoSnapshot]
    /\ reply' = [reply EXCEPT ![r] = answer]
    /\ UNCHANGED op

\* An exception: provision and getQrCode mark the channel, the others only answer.
Fail(r) ==
    IF op[r] \in {"provision", "qr"} THEN Proceed(r, "markError") ELSE Reply(r, "unavailable")

\* normalizeState, of an answer without a QR code.
Normalize(state) ==
    CASE state = "open" -> "CONNECTED"
      [] state = "connecting" -> "WAITING_QR"
      [] state = "close" -> "DISCONNECTED"

\* Mutant of StaleDevice: what the phone did once counts for ever.
StaleDeviceByEvidence(s) == s.state # "absent" /\ s.removed

\* isStaleDeviceRemoved, of a record without a number: also that of a phone that is
\* there again, if its number is missing and the record still tells of the removal.
StaleDevice(s) == s.state # "absent" /\ s.removed /\ ~s.number

------------------------------------------------------------------------------
(* The phone of the user *)

\* The code is scanned or typed in.  The record may learn the number, and may or may
\* not forget a device that was removed before.
Pair ==
    /\ session.state = "connecting"
    /\ \E known \in BOOLEAN, told \in {FALSE, session.removed} :
          SessionBecomes([state |-> "open", paired |-> TRUE, number |-> known, removed |-> told])

\* What is left of a session that ends; the number may stay in the record.
Closed(known) == [session EXCEPT !.state = "close", !.paired = FALSE, !.number = known]

\* The code runs out, or the connection is lost.
Close ==
    /\ session.state \in {"connecting", "open"}
    /\ \E known \in {FALSE, session.number} : SessionBecomes(Closed(known))

\* The device is removed on the phone; Evolution goes on reporting "open".
RemoveDevice ==
    /\ Live
    /\ SessionBecomes([session EXCEPT !.paired = FALSE, !.number = FALSE, !.removed = TRUE])

Phone ==
    /\ Pair \/ Close \/ RemoveDevice
    /\ UNCHANGED <<webhook, recorded, callVars, meddled, troubleVars>>

------------------------------------------------------------------------------
(* Requests *)

\* getPairingCode trusts the row when it says CONNECTED.
StartCall(r, o) ==
    /\ step[r] = "idle"
    /\ op' = [op EXCEPT ![r] = o]
    /\ IF o = "pairing" /\ recorded = "CONNECTED"
         THEN reply' = [reply EXCEPT ![r] = recorded] /\ UNCHANGED step
         ELSE /\ reply' = [reply EXCEPT ![r] = "none"]
              /\ step' = [step EXCEPT ![r] =
                     CASE o = "provision" -> "inspect"
                       [] o = "connection" -> "state"
                       [] OTHER -> "connect"]
    /\ Look(r)
    /\ UNCHANGED <<session, webhook, recorded, observed, troubleVars>>

\* The process dies.
Die(r) ==
    /\ step[r] # "idle"
    /\ Call("error", "other")
    /\ Reply(r, "none")
    /\ UNCHANGED <<session, webhook, recorded, ghostVars>>

------------------------------------------------------------------------------
(* The instance and its webhook: only provision *)

InstanceFound(r) ==
    ProceedWith(r, "findWebhook", Snapshot(Normalize(session.state), FALSE))

\* ensureInstance: inspectInstance, before and after createInstance.
Inspect(r, answer) ==
    /\ step[r] \in {"inspect", "reinspect"}
    /\ answer # "lost" /\ Call(answer, "other")
    /\ \/ answer = "error" /\ Fail(r)
       \/ answer = "ok" /\ session.state # "absent" /\ InstanceFound(r)
       \/ /\ answer = "ok" /\ session.state = "absent"
          /\ IF step[r] = "inspect" THEN Proceed(r, "create") ELSE Fail(r)
    /\ Look(r)
    /\ UNCHANGED <<session, webhook, recorded>>

\* Mutant of CreateFailed: no second look.
CreateFailedForGood(r) == Fail(r)

CreateFailed(r) == Proceed(r, "reinspect")

\* createInstance; a new instance is waiting for its phone.  The API refuses a
\* name that exists.
Create(r, answer) ==
    /\ step[r] = "create"
    /\ Call(answer, IF answer = "lost" THEN "create" ELSE "other")
    /\ IF session.state = "absent" /\ answer # "error"
         THEN SessionBecomesBy(r, [session EXCEPT !.state = "connecting"])
         ELSE UNCHANGED <<session, ghostVars>>
    /\ IF session.state = "absent" /\ answer = "ok"
         THEN \/ ProceedWith(r, "findWebhook", Snapshot("WAITING_QR", TRUE))
              \/ ProceedWith(r, "findWebhook", Snapshot("PROVISIONING", FALSE))
         ELSE CreateFailed(r)
    /\ UNCHANGED <<webhook, recorded>>

\* provision, once the webhook is there: a QR code is asked for if one is missing.
WebhookConfigured(r) ==
    Proceed(r, IF observed[r].code \/ observed[r].status = "CONNECTED"
                 THEN "synchronize" ELSE "connect")

\* findCurrentWebhook, before and after setWebhook.
FindWebhook(r, answer) ==
    /\ step[r] \in {"findWebhook", "confirmWebhook"}
    /\ answer # "lost" /\ Call(answer, "other")
    /\ \/ answer = "error" /\ Fail(r)
       \/ answer = "ok" /\ webhook /\ WebhookConfigured(r)
       \/ /\ answer = "ok" /\ ~webhook
          /\ IF step[r] = "findWebhook" THEN Proceed(r, "setWebhook") ELSE Fail(r)
    /\ UNCHANGED <<session, webhook, recorded, ghostVars>>

\* Mutant of SetWebhookFailed: the channel goes into service without it.
SetWebhookFailedSilently(r) == WebhookConfigured(r)

SetWebhookFailed(r) == Fail(r)

SetWebhook(r, answer) ==
    /\ step[r] = "setWebhook"
    /\ Call(answer, "other")
    /\ webhook' = (webhook \/ answer # "error")
    /\ IF answer = "ok" THEN Proceed(r, "confirmWebhook") ELSE SetWebhookFailed(r)
    /\ UNCHANGED <<session, recorded, ghostVars>>

------------------------------------------------------------------------------
(* connectWithStaleRecovery *)

\* An instance that is not open starts to connect and answers a code; a "lost"
\* answer is also one that has neither a state nor a code.
GiveCode(r, answer) ==
    /\ session.state \in {"close", "connecting"}
    /\ answer # "error"
    /\ SessionBecomesBy(r, [session EXCEPT !.state = "connecting"])
    /\ IF answer = "ok"
         THEN ProceedWith(r, "synchronize", Snapshot("WAITING_QR", TRUE))
         ELSE Fail(r)

NoCode(r, answer) ==
    /\ answer = "error" \/ session.state = "absent"
    /\ Fail(r)
    /\ UNCHANGED <<session, ghostVars>>

\* The first requestConnect: an open instance may be a stale one; its answer may
\* give the number that the record has.
Connect(r, answer) ==
    /\ step[r] = "connect"
    /\ Call(answer, "other")
    /\ \/ GiveCode(r, answer)
       \/ NoCode(r, answer)
       \/ /\ session.state = "open" /\ answer = "ok"
          /\ \E told \in {FALSE, session.number} :
                ProceedWith(r, "confirmStale",
                            [status |-> "CONNECTED", code |-> FALSE, number |-> told])
          /\ Look(r) /\ UNCHANGED session
       \/ /\ session.state = "open" /\ answer = "lost"
          /\ Fail(r) /\ UNCHANGED <<session, ghostVars>>
    /\ UNCHANGED <<webhook, recorded>>

\* A connected instance has no pairing code.
StaysConnected(r) == IF op[r] = "pairing" THEN Fail(r) ELSE Proceed(r, "synchronize")

\* isConfirmedStaleDeviceRemoved: neither the answer nor the record has a number; a
\* record that cannot be read confirms nothing.
ConfirmStale(r, answer) ==
    /\ step[r] = "confirmStale"
    /\ \/ /\ answer = "ok" /\ ~observed[r].number /\ StaleDevice(session)
          /\ Proceed(r, "logout")
          /\ troubles' = troubles \union {"stale"} /\ UNCHANGED callFaults
       \/ /\ answer # "lost" /\ Call(answer, "metadata")
          /\ answer = "ok" => observed[r].number \/ ~StaleDevice(session)
          /\ StaysConnected(r)
    /\ UNCHANGED <<session, webhook, recorded, ghostVars>>

\* The API refuses to log out an instance that is closed.
Logout(r, answer) ==
    /\ step[r] = "logout"
    /\ Call(answer, "other")
    /\ IF session.state # "close" /\ answer # "error"
         THEN \E known \in {FALSE, session.number} : SessionBecomesBy(r, Closed(known))
         ELSE UNCHANGED <<session, ghostVars>>
    /\ IF session.state # "close" /\ answer = "ok" THEN Proceed(r, "reconnect") ELSE Fail(r)
    /\ UNCHANGED <<webhook, recorded>>

\* The second requestConnect: without a code the recovery has failed.
Reconnect(r, answer) ==
    /\ step[r] = "reconnect"
    /\ Call(answer, "other")
    /\ \/ GiveCode(r, answer)
       \/ NoCode(r, answer)
       \/ /\ session.state = "open" /\ answer # "error"
          /\ Fail(r) /\ UNCHANGED <<session, ghostVars>>
    /\ UNCHANGED <<webhook, recorded>>

------------------------------------------------------------------------------
(* getConnectionState *)

GetState(r, answer) ==
    /\ step[r] = "state"
    /\ answer # "lost" /\ Call(answer, "other")
    /\ IF answer = "error" \/ session.state = "absent"
         THEN Fail(r)
         ELSE ProceedWith(r, "metadata", Snapshot(Normalize(session.state), FALSE))
    /\ Look(r)
    /\ UNCHANGED <<session, webhook, recorded>>

\* Mutant of SeenStale: the record is not asked.
SeenStaleNever(r) == FALSE

SeenStale(r) == observed[r].status = "CONNECTED" /\ StaleDevice(session)

\* fetchInstanceRecord: what it tells is optional.
ReadMetadata(r, answer) ==
    /\ step[r] = "metadata"
    /\ answer # "lost" /\ Call(answer, "metadata")
    /\ IF answer = "ok" /\ SeenStale(r)
         THEN ProceedWith(r, "synchronize", Snapshot("DISCONNECTED", FALSE))
         ELSE Proceed(r, "synchronize")
    /\ UNCHANGED <<session, webhook, recorded, ghostVars>>

------------------------------------------------------------------------------
(* The row *)

\* synchronizeChannel, and the update of getPairingCode: unconditional.
Synchronize(r, answer) ==
    /\ step[r] = "synchronize"
    /\ Call(answer, "other")
    /\ recorded' = IF answer = "error" THEN recorded ELSE observed[r].status
    /\ IF answer = "ok" THEN Reply(r, observed[r].status) ELSE Fail(r)
    /\ UNCHANGED <<session, webhook, ghostVars>>

\* markProvisioningError: its own failure is swallowed.
MarkError(r, answer) ==
    /\ step[r] = "markError"
    /\ Call(answer, "other")
    /\ recorded' = IF answer = "error" THEN recorded ELSE "ERROR"
    /\ Reply(r, "unavailable")
    /\ UNCHANGED <<session, webhook, ghostVars>>

Advance(r, answer) ==
    \/ Inspect(r, answer) \/ Create(r, answer)
    \/ FindWebhook(r, answer) \/ SetWebhook(r, answer)
    \/ Connect(r, answer) \/ ConfirmStale(r, answer) \/ Logout(r, answer) \/ Reconnect(r, answer)
    \/ GetState(r, answer) \/ ReadMetadata(r, answer)
    \/ Synchronize(r, answer) \/ MarkError(r, answer)

ConnectionNext ==
    \/ Phone
    \/ \E r \in Requests :
          \/ \E o \in Operations : StartCall(r, o)
          \/ Die(r)
          \/ \E answer \in CallAnswers : Advance(r, answer)

ConnectionSpec == ConnectionInit /\ [][ConnectionNext]_connectionVars

------------------------------------------------------------------------------
(* Properties *)

\* The recovery logs out no live phone on its own but one: a phone that was connected
\* again, of which the record has no number and still tells the removal of its device
\* before.  Whatever else the session is when the logout is sent, another request has
\* connected the instance or logged it out since the first saw it open.  (The record is
\* read after that, and by then it may tell of a new session that has no number yet.)
LogoutIsForStale ==
    \A r \in Requests :
        step[r] = "logout" /\ ~meddled[r] /\ Live => ~session.number /\ session.removed

\* A channel is not handed over before its messages are reported: a client that
\* was given a QR code or a connection by provision has an instance with a webhook.
ProvisionedIsConfigured ==
    \A r \in Requests :
        op[r] = "provision" /\ reply[r] \in {"CONNECTED", "WAITING_QR"} =>
            webhook /\ session.state # "absent"

\* "Connected" is true: getConnection and getQrCode say CONNECTED only of a session
\* whose phone is there, known by its number or not, unless the session has changed since
\* they looked, or the record of the instance could not be read.  provision takes the
\* state of an instance that exists as it is, and getPairingCode that of the row.
ConnectedIsLive ==
    \A r \in Requests :
        /\ op[r] \in {"connection", "qr"} /\ reply[r] = "CONNECTED"
        /\ ~moved[r] /\ "metadata" \notin troubles
        => Live

\* createInstance may be refused because the instance exists, or time out after it
\* was created: as long as nothing else fails and no device is found stale (its recovery
\* may fail), no provision does.
CreateIsReconciled ==
    \A r \in Requests :
        op[r] = "provision" /\ reply[r] = "unavailable" => troubles \ {"create"} # {}

\* The calls a request may still make, from each of its awaits.
CallsLeft ==
    [inspect |-> 12, create |-> 11, reinspect |-> 10, findWebhook |-> 9, setWebhook |-> 8,
     confirmWebhook |-> 7, connect |-> 6, confirmStale |-> 5, logout |-> 4, reconnect |-> 3,
     state |-> 4, metadata |-> 3, synchronize |-> 2, markError |-> 1, idle |-> 0]

\* Every await of a request that returns brings it closer to its answer: neither the
\* recovery of a stale device, which connects again, nor the second look at an
\* instance or a webhook leads back to where the request has been.
ConnectionProgress ==
    \A r \in Requests :
        step[r] # "idle" =>
            \/ step'[r] = step[r]
            \/ CallsLeft[step'[r]] < CallsLeft[step[r]]

ConnectionAdvances == [][ConnectionProgress]_connectionVars
==============================================================================
