---------------------------- MODULE MessageRouting ----------------------------
(***************************************************************************)
(* The way of a message through a channel: it is checked and pinned to a   *)
(* channel when it is enqueued (src/backend/src/queue/queue.service.ts,    *)
(* messaging-channel/messaging-channel-routing.service.ts), and sent       *)
(* through that channel by the provider the router picks                   *)
(* (message-provider/), which says whether a failure may be retried.       *)
(*                                                                         *)
(* The queue itself, its locks and its attempts, is OutboundQueue; here it *)
(* takes a queued message again as long as the failure was retryable.      *)
(* Messages share nothing but the channels of one company, whose rows are  *)
(* written meanwhile: connectionStatus by ChannelConnection, which is any  *)
(* value here, and status by updateRoutingStatus.                          *)
(***************************************************************************)
EXTENDS Naturals, FiniteSets

CONSTANTS
    Messages,
    Evolution,    \* channels of provider EVOLUTION
    Meta,         \* channels of provider META_CLOUD
    Configured,   \* channels for which the environment has credentials
    Admins,       \* requests that change the status of a channel
    MaxSends,     \* bound on the attempts of a message
    NoChannel

ASSUME ChannelsAssumption ==
    /\ Evolution \intersect Meta = {}
    /\ Configured \subseteq Evolution \union Meta
    /\ NoChannel \notin Evolution \union Meta
ASSUME SendsAssumption == MaxSends \in Nat \ {0}

Channels == Evolution \union Meta

VARIABLES
    active,      \* channels whose status is ACTIVE
    connected,   \* channels whose connectionStatus is CONNECTED
    changing,    \* the update of a status that waits for its second query
    draft,       \* the input of enqueue
    pinned,      \* messagingChannelId
    asset,       \* the media asset of a message can be used
    phase,       \* where a message is
    code,        \* the error of the last attempt
    sends,       \* attempts so far
    accepted,    \* how often the provider has taken the message
    lapsed,      \* messages whose channel was inactive at some time since it was chosen
    spoilt,      \* messages whose asset could not be used at some time since it was read
    uncertain    \* messages with an attempt of which the outcome is unknown

channelVars == <<active, connected, changing>>
messageVars == <<draft, pinned, phase, code, sends>>
witnessVars == <<accepted, lapsed, spoilt, uncertain>>
routingVars == <<channelVars, asset, messageVars, witnessVars>>

\* What is wrong with an input: one thing is enough.
AllDefects == {"none", "required", "digits", "relation", "content", "fields", "template",
               "caption", "url", "file"}
Defects(type, media) ==
    {"none", "required", "digits", "relation"} \union
        CASE type = "TEXT" -> {"content"}
          [] type = "TEMPLATE" -> {"fields", "template"}
          [] media -> {"fields", "caption"}
          [] OTHER -> {"fields", "url", "file", "caption"}

Drafts ==
    {d \in [type : {"TEXT", "IMAGE", "TEMPLATE"}, channel : Channels \union {NoChannel},
            media : BOOLEAN, defect : AllDefects] : d.defect \in Defects(d.type, d.media)}

RetryableCodes == {"PROVIDER_TIMEOUT", "PROVIDER_RATE_LIMITED", "PROVIDER_UNAVAILABLE",
                   "PROVIDER_NETWORK_ERROR", "MEDIA_LOOKUP_FAILED"}
FinalCodes == {"INVALID_MESSAGE_INPUT", "INVALID_PAYLOAD", "UNSUPPORTED_MESSAGE_TYPE",
               "MEDIA_URL_NOT_ALLOWED", "MEDIA_ASSET_UNUSABLE",
               "PROVIDER_CONFIGURATION_ERROR", "INVALID_MESSAGE_REQUEST",
               "PROVIDER_AUTHENTICATION_FAILED", "PROVIDER_INSTANCE_NOT_FOUND",
               "PROVIDER_REQUEST_FAILED", "INVALID_PROVIDER_RESPONSE"}

Phases == {"new", "insert", "refused", "queued", "router", "config", "fetch", "sent", "failed"}
NoDraft == [type |-> "TEXT", channel |-> NoChannel, media |-> FALSE, defect |-> "none"]
Idle == [channel |-> NoChannel, activate |-> FALSE]

RoutingTypeOK ==
    /\ active \in SUBSET Channels
    /\ connected \in SUBSET Evolution
    /\ changing \in [Admins -> [channel : Evolution, activate : BOOLEAN] \union {Idle}]
    /\ draft \in [Messages -> Drafts]
    /\ pinned \in [Messages -> Channels \union {NoChannel}]
    /\ asset \in [Messages -> BOOLEAN]
    /\ phase \in [Messages -> Phases]
    /\ code \in [Messages -> RetryableCodes \union FinalCodes \union {"NONE"}]
    /\ sends \in [Messages -> 0..MaxSends]
    /\ accepted \in [Messages -> 0..MaxSends]
    /\ lapsed \in SUBSET Messages
    /\ spoilt \in SUBSET Messages
    /\ uncertain \in SUBSET Messages
    /\ \A m \in Messages :
          /\ phase[m] \notin {"new", "refused"} => pinned[m] # NoChannel
          /\ phase[m] = "queued" => sends[m] < MaxSends

RoutingInit ==
    /\ active \in SUBSET Channels
    /\ connected \in SUBSET Evolution
    /\ changing = [a \in Admins |-> Idle]
    /\ draft = [m \in Messages |-> NoDraft]
    /\ pinned = [m \in Messages |-> NoChannel]
    /\ asset = [m \in Messages |-> TRUE]
    /\ phase = [m \in Messages |-> "new"]
    /\ code = [m \in Messages |-> "NONE"]
    /\ sends = [m \in Messages |-> 0]
    /\ accepted = [m \in Messages |-> 0]
    /\ lapsed = {} /\ spoilt = {} /\ uncertain = {}

------------------------------------------------------------------------------
(* The channels *)

\* synchronizeChannel and its like write what they have observed.
Observe(c) ==
    /\ connected' \in {connected \union {c}, connected \ {c}} \ {connected}
    /\ UNCHANGED <<active, changing, asset, messageVars, witnessVars>>

\* updateRoutingStatus: findFirst.
ReadStatus(a, c, activate) ==
    /\ changing[a] = Idle
    /\ activate => c \in connected
    /\ changing' = [changing EXCEPT ![a] = [channel |-> c, activate |-> activate]]
    /\ UNCHANGED <<active, connected, asset, messageVars, witnessVars>>

\* The where of the update.
StillMatches(u) == u.activate => u.channel \in connected

\* updateRoutingStatus: updateMany; 409 when no row matches.
WriteStatus(a) ==
    LET u == changing[a] IN
    /\ u # Idle
    /\ active' = IF ~StillMatches(u) THEN active
                 ELSE IF u.activate THEN active \union {u.channel}
                 ELSE active \ {u.channel}
    /\ lapsed' = lapsed \union
           {m \in Messages : pinned[m] # NoChannel /\ pinned[m] \notin active'}
    /\ changing' = [changing EXCEPT ![a] = Idle]
    /\ UNCHANGED <<connected, asset, messageVars, accepted, spoilt, uncertain>>

UsesAsset(d) == d.type = "IMAGE" /\ d.media

\* The asset of an image expires or is deleted, or another is made of its file.
AssetChanges(m) ==
    /\ draft[m].type = "IMAGE" /\ draft[m].media
    /\ asset' = [asset EXCEPT ![m] = ~@]
    /\ spoilt' = IF asset[m] THEN spoilt \union {m} ELSE spoilt
    /\ UNCHANGED <<channelVars, messageVars, accepted, lapsed, uncertain>>

------------------------------------------------------------------------------
(* Enqueueing *)

\* Mutant of ValidPayload: the payload of a template is not parsed.
ValidPayloadUnlessTemplate(d) ==
    \/ d.type = "TEMPLATE"
    \/ d.type = "TEXT" /\ d.defect # "content"
    \/ d.type = "IMAGE" /\ d.media /\ d.defect \notin {"fields", "caption"}
    \/ d.type = "IMAGE" /\ ~d.media /\ d.defect \notin {"fields", "url", "file", "caption"}

\* validateInput by type; the file of a media asset is described by its row.
ValidPayload(d) ==
    \/ d.type = "TEMPLATE" /\ ~d.media /\ d.defect \notin {"fields", "template"}
    \/ d.type = "TEXT" /\ d.defect # "content"
    \/ d.type = "IMAGE" /\ d.media /\ d.defect \notin {"fields", "caption"}
    \/ d.type = "IMAGE" /\ ~d.media /\ d.defect \notin {"fields", "url", "file", "caption"}

\* validateInput and validateTenantRelations.
ValidInput(d) ==
    /\ d.defect \notin {"required", "relation"}
    /\ d.type = "TEMPLATE" => d.channel # NoChannel
    /\ ValidPayload(d)

\* Templates go through META_CLOUD, all else through EVOLUTION.
ProviderFor(type) == IF type = "TEMPLATE" THEN Meta ELSE Evolution

\* resolveForEnqueue: the ACTIVE channel that is asked for, or the only one.
Choices(d) ==
    LET candidates == active \intersect ProviderFor(d.type) IN
    IF d.channel # NoChannel THEN candidates \intersect {d.channel}
    ELSE IF Cardinality(candidates) = 1 THEN candidates ELSE {}

Enqueue(m, d) ==
    /\ phase[m] = "new"
    /\ \/ /\ ~ValidInput(d) \/ Choices(d) = {}
          /\ phase' = [phase EXCEPT ![m] = "refused"]
          /\ UNCHANGED <<draft, pinned>>
       \/ /\ ValidInput(d)
          /\ draft' = [draft EXCEPT ![m] = d]
          /\ \E c \in Choices(d) : pinned' = [pinned EXCEPT ![m] = c]
          /\ phase' = [phase EXCEPT ![m] = "insert"]
    /\ UNCHANGED <<channelVars, asset, code, sends, witnessVars>>

\* prepareMediaAssetContent, then upsert.
Insert(m) ==
    /\ phase[m] = "insert"
    /\ phase' = [phase EXCEPT ![m] =
           IF UsesAsset(draft[m]) /\ ~asset[m] THEN "refused" ELSE "queued"]
    /\ spoilt' = spoilt \ {m}
    /\ UNCHANGED <<channelVars, asset, draft, pinned, code, sends, accepted, lapsed, uncertain>>

------------------------------------------------------------------------------
(* Sending *)

\* Mutant of Outcome: one attempt too many.
OutcomeOffByOne(m, c, attempt) ==
    /\ code' = [code EXCEPT ![m] = c]
    /\ phase' = [phase EXCEPT ![m] =
           IF c \in RetryableCodes /\ attempt <= MaxSends THEN "queued" ELSE "failed"]

\* handleProviderError: try again, or fail.
Outcome(m, c, attempt) ==
    /\ code' = [code EXCEPT ![m] = c]
    /\ phase' = [phase EXCEPT ![m] =
           IF c \in RetryableCodes /\ attempt < MaxSends THEN "queued" ELSE "failed"]

\* parseImagePayload and parseTemplateMessagePayload of the worker.
Parses(d) ==
    \/ d.type = "TEXT"
    \/ d.type = "TEMPLATE" /\ ~d.media /\ d.defect \notin {"fields", "template"}
    \/ d.type = "IMAGE" /\ d.media /\ d.defect # "caption"
    \/ d.type = "IMAGE" /\ ~d.media /\ d.defect \notin {"fields", "url", "file", "caption"}

\* processMessage up to the router: the payload is parsed, the asset resolved.
Process(m) ==
    /\ phase[m] = "queued"
    /\ sends' = [sends EXCEPT ![m] = @ + 1]
    /\ \/ ~Parses(draft[m]) /\ Outcome(m, "INVALID_PAYLOAD", sends[m] + 1)
       \/ /\ Parses(draft[m]) /\ UsesAsset(draft[m])
          /\ \/ Outcome(m, "MEDIA_LOOKUP_FAILED", sends[m] + 1)
             \/ ~asset[m] /\ Outcome(m, "MEDIA_ASSET_UNUSABLE", sends[m] + 1)
       \/ /\ Parses(draft[m]) /\ (UsesAsset(draft[m]) => asset[m])
          /\ phase' = [phase EXCEPT ![m] = "router"]
          /\ code' = [code EXCEPT ![m] = "NONE"]
    /\ UNCHANGED <<channelVars, asset, draft, pinned, witnessVars>>

\* The provider's own checks, before it resolves its configuration.
ProviderRefuses(m) ==
    LET d == draft[m] IN
    IF pinned[m] \notin ProviderFor(d.type) THEN {"UNSUPPORTED_MESSAGE_TYPE"}
    ELSE IF d.defect \in {"required", "digits"} \/ (d.type = "TEXT" /\ d.defect = "content")
           THEN {"INVALID_MESSAGE_INPUT"}
    ELSE IF d.type = "IMAGE" /\ ~d.media /\ d.defect = "url" THEN {"MEDIA_URL_NOT_ALLOWED"}
    ELSE {}

\* A channel that cannot be read may be there the next time.
Unreadable == "PROVIDER_UNAVAILABLE"

\* MessageProviderRouter.resolve, then the provider's sendText, sendImage or
\* sendTemplate up to its configuration.
Route(m) ==
    /\ phase[m] = "router"
    /\ \/ Outcome(m, Unreadable, sends[m])
       \/ pinned[m] \notin active /\ Outcome(m, "PROVIDER_CONFIGURATION_ERROR", sends[m])
       \/ pinned[m] \in active /\ \E c \in ProviderRefuses(m) : Outcome(m, c, sends[m])
       \/ /\ pinned[m] \in active /\ ProviderRefuses(m) = {}
          /\ phase' = [phase EXCEPT ![m] = "config"]
          /\ UNCHANGED code
    /\ UNCHANGED <<channelVars, asset, draft, pinned, sends, witnessVars>>

\* The configuration resolvers look the channel up again.
ResolveConfig(m) ==
    /\ phase[m] = "config"
    /\ \/ pinned[m] \in Configured /\ Outcome(m, Unreadable, sends[m])
       \/ /\ pinned[m] \notin active \intersect Configured
          /\ Outcome(m, "PROVIDER_CONFIGURATION_ERROR", sends[m])
       \/ /\ pinned[m] \in active \intersect Configured
          /\ phase' = [phase EXCEPT ![m] = "fetch"]
          /\ UNCHANGED code
    /\ UNCHANGED <<channelVars, asset, draft, pinned, sends, witnessVars>>

\* What comes back: an id; a success without one, or with a body that cannot be
\* read or does not arrive in time; a status; nothing in time; no connection.
ErrorStatuses == {400, 401, 403, 404, 408, 418, 429, 500, 504}
Answers ==
    [kind : {"error"}, status : ErrorStatuses]
        \union [kind : {"id", "noId", "unreadable", "bodyTimeout"}, status : {200}]
        \union [kind : {"timeout", "network"}, status : {0}]

\* What an answer tells of the message: a success means that it was taken, an
\* error of the request that it was not; after anything else it may have been.
Conclusive(answer) ==
    \/ answer.kind \in {"id", "noId", "unreadable"}
    \/ answer.kind = "error" /\ answer.status < 500 /\ answer.status # 408

Taken(answer) ==
    IF answer.status = 200 THEN {TRUE}
    ELSE IF Conclusive(answer) THEN {FALSE} ELSE BOOLEAN

\* Mutant of HttpCode: a server error is final.
HttpCodeServerFinal(s) ==
    CASE s = 408 -> "PROVIDER_TIMEOUT"
      [] s = 429 -> "PROVIDER_RATE_LIMITED"
      [] s = 400 -> "INVALID_MESSAGE_REQUEST"
      [] s \in {401, 403} -> "PROVIDER_AUTHENTICATION_FAILED"
      [] s = 404 -> "PROVIDER_INSTANCE_NOT_FOUND"
      [] OTHER -> "PROVIDER_REQUEST_FAILED"

\* mapHttpError of EVOLUTION.
HttpCode(s) ==
    CASE s = 408 -> "PROVIDER_TIMEOUT"
      [] s = 429 -> "PROVIDER_RATE_LIMITED"
      [] s \in 500..599 -> "PROVIDER_UNAVAILABLE"
      [] s = 400 -> "INVALID_MESSAGE_REQUEST"
      [] s \in {401, 403} -> "PROVIDER_AUTHENTICATION_FAILED"
      [] s = 404 -> "PROVIDER_INSTANCE_NOT_FOUND"
      [] OTHER -> "PROVIDER_REQUEST_FAILED"

\* httpError of META_CLOUD.
MetaHttpCode(s) ==
    CASE s \in {408, 504} -> "PROVIDER_TIMEOUT"
      [] s = 404 -> "PROVIDER_REQUEST_FAILED"
      [] OTHER -> HttpCode(s)

\* Mutant of AnswerCode: an unusable success is tried again.
AnswerCodeRetries(c, answer) ==
    CASE answer.kind = "error" -> IF c \in Meta THEN MetaHttpCode(answer.status)
                                                ELSE HttpCode(answer.status)
      [] answer.kind \in {"timeout", "bodyTimeout"} -> "PROVIDER_TIMEOUT"
      [] OTHER -> "PROVIDER_NETWORK_ERROR"

\* The catch of sendMessage and sendTemplate.
AnswerCode(c, answer) ==
    CASE answer.kind = "error" -> IF c \in Meta THEN MetaHttpCode(answer.status)
                                                ELSE HttpCode(answer.status)
      [] answer.kind \in {"timeout", "bodyTimeout"} -> "PROVIDER_TIMEOUT"
      [] answer.kind \in {"noId", "unreadable"} -> "INVALID_PROVIDER_RESPONSE"
      [] answer.kind = "network" -> "PROVIDER_NETWORK_ERROR"

Fetch(m, answer) ==
    /\ phase[m] = "fetch"
    /\ \E taken \in Taken(answer) :
          accepted' = [accepted EXCEPT ![m] = IF taken THEN @ + 1 ELSE @]
    /\ uncertain' = IF Conclusive(answer) THEN uncertain ELSE uncertain \union {m}
    /\ IF answer.kind = "id"
         THEN /\ phase' = [phase EXCEPT ![m] = "sent"]
              /\ UNCHANGED code
         ELSE Outcome(m, AnswerCode(pinned[m], answer), sends[m])
    /\ UNCHANGED <<channelVars, asset, draft, pinned, sends, lapsed, spoilt>>

RoutingNext ==
    \/ \E c \in Evolution : Observe(c)
    \/ \E a \in Admins :
          \/ \E c \in Evolution, activate \in BOOLEAN : ReadStatus(a, c, activate)
          \/ WriteStatus(a)
    \/ \E m \in Messages :
          \/ AssetChanges(m)
          \/ \E d \in Drafts : Enqueue(m, d)
          \/ Insert(m) \/ Process(m) \/ Route(m) \/ ResolveConfig(m)
          \/ \E answer \in Answers : Fetch(m, answer)

RoutingSpec == RoutingInit /\ [][RoutingNext]_routingVars

------------------------------------------------------------------------------
(* Properties *)

\* What enqueue accepts can be sent: a message fails for good before it is sent
\* only because its channel was inactive or its asset spoilt at some time after it
\* was enqueued, the channel has no credentials, or the phone has not 10 to 15
\* digits, which enqueue does not check.
EnqueuedIsSendable ==
    \A m \in Messages :
        phase[m] = "failed" =>
            /\ code[m] \notin {"INVALID_PAYLOAD", "UNSUPPORTED_MESSAGE_TYPE", "MEDIA_URL_NOT_ALLOWED"}
            /\ code[m] = "PROVIDER_CONFIGURATION_ERROR" =>
                  m \in lapsed \/ pinned[m] \notin Configured
            /\ code[m] = "MEDIA_ASSET_UNUSABLE" => m \in spoilt
            /\ code[m] = "INVALID_MESSAGE_INPUT" => draft[m].defect = "digits"

\* No message that the provider has taken is failed for good by an error of the
\* attempt that was taken, unless that attempt's answer had no id; an attempt whose
\* outcome is unknown is tried again as long as attempts are left.
TakenIsNotRefused ==
    \A m \in Messages :
        phase[m] = "failed" /\ accepted[m] > 0 =>
            \/ code[m] = "INVALID_PROVIDER_RESPONSE"
            \/ m \in uncertain /\ (sends[m] = 1 => code[m] \in RetryableCodes)

\* The provider takes a message twice only if the outcome of an attempt was unknown:
\* a timeout, also of the body of a success, a server error, a lost connection.
TakenTwiceIsUncertain ==
    \A m \in Messages : accepted[m] > 1 => m \in uncertain

\* How far a message is from its conclusion: the attempts it has left, and the steps
\* of the one it is in.
StepsLeft(m) ==
    CASE phase[m] = "new" -> 4 * MaxSends + 2
      [] phase[m] = "insert" -> 4 * MaxSends + 1
      [] phase[m] = "queued" -> 4 * (MaxSends - sends[m])
      [] phase[m] = "router" -> 4 * (MaxSends - sends[m]) + 3
      [] phase[m] = "config" -> 4 * (MaxSends - sends[m]) + 2
      [] phase[m] = "fetch" -> 4 * (MaxSends - sends[m]) + 1
      [] phase[m] \in {"refused", "sent", "failed"} -> 0

\* Every step of a message brings it closer to its conclusion, whatever its channel,
\* its asset and the provider do meanwhile: none is queued again without an attempt
\* that is left.
RoutingProgress ==
    \A m \in Messages :
        \/ phase'[m] = phase[m] /\ sends'[m] = sends[m]
        \/ StepsLeft(m)' \in 0..(StepsLeft(m) - 1)

RoutingAdvances == [][RoutingProgress]_routingVars
==============================================================================
