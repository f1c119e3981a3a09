# A formal model of client-reactivation

The backend (NestJS, Prisma, PostgreSQL; `src/backend`) lets a company send
WhatsApp messages to its customers: birthday greetings and reactivations chosen
by a cron, and campaigns started by hand, through WhatsApp channels that the company
connects itself. This directory holds TLA+
specifications of the parts in which order, concurrency and failure matter, the
TLC configurations that check them on small instances, and proofs that hold for
every size.

Paths below are relative to `src/backend/src` unless they start with `src/`.

## 1. The system

### Components, their state and operations

| Component | State it owns | Operations | Modelled by |
|---|---|---|---|
| Outbound queue and worker `queue/message-worker.service.ts` | `OutboundMessage` rows (`status`, `lockedAt/lockedBy`, `availableAt`, `attempts`), `MessageLog`; per process: `isRunning`, the batch, the row in hand | the cron tick: recover expired locks, select, acquire, load, revalidate, send, record / retry / fail / cancel / release | `OutboundQueue` |
| Producer side `queue/queue.service.ts` | inserts `OutboundMessage` by `(companyId, idempotencyKey)` | `enqueue`: validate, choose the channel, check the asset, upsert | the checks in `MessageRouting`, the upsert in `OutboundQueue`, the promise in `MessageDelivery` |
| Delivery status `meta-webhook/` | `deliveryStatus` and its timestamps | `handle` one webhook request | `DeliveryStatus` |
| Automation engine `automation/engine/engine.service.ts` | none (reads `MessageLog`, `OutboundMessage`); per run: the automation, customers and key in hand | the tick of every minute, the dispatch of a campaign; cooldown, open messages, keys | `AutomationEngine`; whom a dispatch reaches in `CampaignAudience` |
| Automations `automation/automation.service.ts` | `Automation`, `CampaignInterestFilter` | create (limit), update, preview, dispatch, remove | `AutomationCatalog`, `CampaignAudience`; removal with its history in `OutboundQueue` |
| Customers `customer/` | `Customer` (phone, CPF, consent, `isActiveForAutomation`) | create, update, remove, toggle, consent, import | `CustomerRegistry`; consent, toggle and removal under a queued message in `OutboundQueue` |
| Inbound opt-out `webhook/` | none | consent change by message | `CustomerRegistry` |
| Interests `customer-interest/` | `CustomerInterestOption`, `CustomerInterest` | create and withdraw an option, replace the interests of a customer | `CustomerInterests` |
| Public registration `customer-registration/` | `CustomerRegistrationLink` | create, rotate, switch the link; submit | `CustomerInterests` (link, options), `CustomerRegistry` (phone, CPF) |
| Messaging policy `company/company-messaging-policy.service.ts` | `includeOptOutInstructions`, `unknownContactPolicy`, `MessagingPolicyAcceptance` | allow, block, opt-out instructions | `CompanyPolicy`; effect in `OutboundQueue!SetPolicy` |
| Media `media-storage/` | `MediaAsset` rows, objects in the bucket | upload, finalize, compensate, resolve | `MediaAsset`; outcomes of `resolve` in `OutboundQueue`, `MessageRouting` |
| Channels and entitlements `messaging-channel/`, `entitlement/`, `evolution-webhook-provisioning/` | `MessagingChannel`, `CompanyEntitlement`; at Evolution: the instance and its webhook | reserve, provision, QR and pairing code, connection, routing, limit | `ChannelReservation`, `ChannelConnection`, `MessageRouting` |
| Providers `message-provider/` | none | router, configuration, HTTP call and its answer | `MessageRouting`; the outcome of a call in `OutboundQueue` |
| Admin `admin/` | status of a company | activate, suspend, cancel | its effect on the limit and on the link |
| Auth, users, dashboard, legacy `message/`, bootstrap | single rows | stateless requests, read-only queries | not modelled |

### How they interact

Components share the database and nothing else: no events, no in-memory calls
across requests, except the worker's call of the provider. Every read and every
conditional `updateMany` is a statement of its own under READ COMMITTED;
`$transaction` makes a few of them atomic (result plus history), and a few requests are
`Serializable` transactions that are tried again when Postgres aborts them. So the unit of
interleaving is the statement, or such a transaction, and any operation of another
component may run between two statements of a worker. Outside of the database there are
the providers of messages, the storage of media and the Evolution API, which keeps the
session of a channel with the phone and answers, fails, or fails after it has acted.

### What is hard

* A worker's view of a row is stale as soon as it is read: the only protection is
  the fence `status = PROCESSING AND lockedBy = workerId` in each later write.
* A lock is never renewed. After `LOCK_TIMEOUT_MS` another worker takes a row
  whose first worker may still be inside the provider call.
* The provider's acceptance and the record of it are two steps: a failure
  between them delivers twice.
* Foreign keys act behind the code's back: a deleted customer or automation sets
  the row's reference to null, and makes the history insert fail.
* Nothing keeps ticks of the engine from overlapping; a decision to send rests on two
  reads and a later write, and only the idempotency key, which holds the civil day,
  orders them.
* Meta repeats and reorders its reports, and may report before the worker has stored
  the id by which the row is found.
* A media row and its object are written by two systems, neither of which knows of the
  other; every failure between the two writes must be compensated by a call that may fail
  as well.
* Limits and unique phones rest on a count or a lookup and a later insert. Some writers do
  both in a serializable transaction, others query by query, and the two kinds meet.
* A phone has two forms, with and without the ninth digit of a mobile line, and each
  lookup must find both.
* A change is checked against rows that were read before; what it leaves out is taken from
  them, and another change may have been written since.
* What Evolution says of a session is not all true ("open" for a device that was removed),
  and the call that repairs it may hit a session that another request has just connected.
* A message is checked by the producer, the worker and the provider, at different times,
  against a channel and an asset that change.
* Retries are counted at acquisition, but not every way back to `PENDING`
  compares the count.

The complete list, at its lines, is `hazards` in `PROJECT.json`.

### What makes each component correct

* Queue: a conclusion is final, recorded once with its history, true (`SENT` only
  if the provider confirmed the last attempt, `CANCELLED` only if that attempt did
  not call); repeated attempts and duplicate deliveries have a named cause; every
  message is concluded.
* Consent: an opt-out that stands when the attempt starts is respected.
* Delivery status: moves only forward; an acknowledged event is not lost.
* Engine: one open message per customer and automation, the cooldown between two
  sent ones, birthdays on their day, and no due customer left out by a tick; all that
  as far as midnight, which may overtake a tick, allows.
* Media: one upload of a file at a time; a usable asset has its object and stays usable;
  a key is not blocked and an object not left behind, as far as the failures allow.
* Channels: not more reserved than the limit allowed; a channel that is handed over has
  its webhook; a live phone is not logged out; "connected" is true.
* Routing: what `enqueue` accepts can be sent; a message the provider may have taken is not
  refused for it, and is sent twice only if the first outcome was unknown.
* Customers: duplicates come only from writers that race, or were stored before; an opt-out reaches all who have
  the phone, and lasts until somebody grants consent.
* Interests and registration: the interests are those one request asked for; nothing is
  used that was withdrawn before the transaction began.
* Automations: custom automations within the limit, but for creations that overlap; a
  segmented campaign has a filter, and a dispatch stays within it.
* Policy: the audit tells every change of it.

## 2. Modules

### `OutboundQueue`

State. One function per column of `OutboundMessage` that the code tests
(`status`, `lockedBy`, `attempts`, `customerId`, `automationId`); `due` stands
for `availableAt <= now` and `lockExpired` for `lockedAt <= now - 5 min`, the two
comparisons of time in the code. `recipient` is the customer whose phone was copied
into the row. `log` is the terminal `MessageLog`. `consent`, `enabled`,
`customers`, `automations`, `policy` are what the worker reads besides. Each
worker has a program counter `pc` naming the `await` it stands at, and the
local variables `candidates` (expired locks found), `batch`, `msg`, `copy` (the
loaded row) and `seenPolicy`. `calls`, `accepted`, `heard`, `interrupted`,
`barred` are history: no action of the code reads them.

| `pc` | Action | Code |
|---|---|---|
| `idle` | `StartPass` | tick, find expired locks |
| `recover` | `RecoverLock`, `FindPending` | one conditional update per lock, then select a batch |
| `batch` | `Acquire`, `EndPass` | conditional update taking the lock, end of the loop |
| `load` | `LoadMessage` | re-read the row under the lock |
| `policy`, `customer` | `ReadPolicy`, `ReadCustomer` | `revalidateCustomerEligibility` |
| `cancel` | `CancelMessage` | `cancelMessage` |
| `send` | `RejectMessage`, `MediaUnresolved`, `CallProvider` | `processMessage` |
| `calling` | `ProviderAccepts`, `ProviderFails` | the awaited call |
| `sent`, `fail`, `retry` | `MarkAsSent`, `MarkAsFailed`, `ReleaseForRetry` | the writes of a result |
| `release` | `ReleaseAfterProcessingError` | the `catch` of `acquireAndProcess` |

Each database call takes an answer `r`: `"ok"`, `"error"` (not applied) or
`"lost"` (applied, the caller sees an exception). `Crash` resets a worker's
local state and leaves the database. `Accept` is the provider accepting a call,
which it may do and still answer with an error. The tenant's operations
(`UpdateConsent`, `ToggleAutomation`, `SetPolicy`, `RemoveCustomer`,
`RemoveAutomation`) and `Enqueue` may happen between any two steps.

A candidate for recovery carries its attempt number. The code compares
`lockedAt <= expiredAt` again in the update; `expiredAt` belongs to the pass, so
the comparison holds for the lock that was found expired and for no later one.

### `MessageDelivery`

What the queue promises those who enqueue: a message has one open phase and one
conclusion; `SENT` needs an acceptance; history is written with the conclusion and
disappears only with its automation. `OutboundQueue` implements it
(`ImplementsDelivery`), with `PENDING` and `PROCESSING` both mapped to `OPEN`.

### `DeliveryStatus`

State. `deliveryStatus` and the set of timestamps that are set (`stamps`), per row;
`stored`, the rows whose `providerMessageId` is committed; `posted` and `acked`, the
requests Meta has posted and those answered 200. A handler keeps the `request`, the
events `todo`, the row `found` with the status it read, and stands at `event` (the
`findMany`) or `update` (the conditional `updateMany`).

`Receive`, `FindMessage`, `UpdateStatus`, `Acknowledge` are the statements of
`MetaWebhookService.handle`; `HandlerFails` is its `catch`, with an update that may
have been applied, and the death of the process. `StoreId` is the commit of
`markAsSent`. `Post` is Meta: it reports any status of a row in any order, in one
request or several, but never a failure beside a delivery, and each event in one
request only, which it may repeat. `EarlyReports` says whether Meta may report on a
row before its id is stored. An event of an id that no row has is ignored by design
(`src/backend/README.md:958`) and the request answered 200, so a report that comes before the
worker's commit is not recorded. The runs therefore take `FALSE`, and what depends on
it says so; the order of statuses is proved for both. Signatures and parsing are left out: a request is the
sequence of events that `parseMetaStatuses` returns.

### `AutomationEngine`

State. The queue as `MessageDelivery` promises it (`outcome`, `accepted`, `history`
per key, so per automation, customer and day), with `sentAt` and `sentOn`, the time
and the civil day of the `SENT` log; the clock `now` and the civil `day`. A run, which
is a tick of `handleCron` or a dispatch, keeps what its loops hold: the `automations`
still to process and the one in hand, the loaded `customers` and the one in hand,
`today` as `handleBirthday` reads it, and the `key` it built. History, which no action
reads: `loaded`, the day a run loaded its customers, and per key `decidedOn`, the day
its run had loaded its customers, and `storedOn`, the day the row was stored.

| `pc` | Action | Code |
|---|---|---|
| `idle` | `StartTick`, `StartDispatch` | `handleCron`, `enqueueCampaign` up to their loops |
| `automation` | `LoadCustomers`, `EndTick` | `handleReactivation`, `handleBirthday`: `findMany` |
| `customer` | `CheckCooldown`, `EndCustomers` | due today, `canSendMessage` |
| `active` | `CheckActive` | `activeMessage`, `buildIdempotencyKey` |
| `enqueue` | `Enqueue`, `EnqueueThrows` | `QueueService.enqueue` |

`RunFails` is any exception: nothing in `handleCron` catches, so `Abort` ends the run.
Which automations are active and whom they may contact may differ at every read, except
for the constants `Steady` and `Willing`.

`Midnight` may fall between any two steps. A run that it overtakes has compared a birthday, or read the
history, with one day and builds its key with the next, and a row may be stored on a later day than
its key names. What then remains true is what the properties say. `OneOpenPerPair`: two messages of a
pair are open at once only if the older was stored after the midnight that its key
precedes. `BirthdayOnItsDay`: whatever its key says, a birthday message was decided on by a tick that
loaded its customers on the birthday. `CooldownRespected` is about messages whose run had
loaded its customers on the day of the key.

### `MediaAsset`

State. The rows of one company and file: `status`, `keyed` (those whose
`deduplicationKey` is set), `expiring` (those with an `expiresAt`) and `expired`;
`objects`, the bucket. Ids are the object keys too. Rows of another company or file have
other keys and ids, so that nothing is shared with them. A request keeps its id `mine`,
the row in its way, `seen`, with the status it read, the unique constraint errors it
met (`tries`) and the status it read of its own row after finalizing (`confirmed`).
`returned` and `happened`, the kinds of failures so far, are history.

| `pc` | Action | Code |
|---|---|---|
| `idle` | `Start` | `create`: validation, checksum |
| `find` | `FindExisting` | `findByDeduplicationKeyForCompany`, `prepareExistingAssetForUpload` |
| `release` | `Release` | its `updateMany`, and the retry in `createPendingAsset` |
| `create`, `recheck` | `CreatePending`, `Recheck` | the insert; the row in its way |
| `upload` | `UploadObject` | `storageAdapter.uploadObject` |
| `finalize`, `reload` | `Finalize`, `Reload` | `uploadAndFinalize` |
| `reconcile` | `Reconcile` | `reconcileFinalizationFailure` |
| `compensate` | `Compensate` | `tryCompensateUpload` |
| `markFailed` | `MarkFailed` | `tryMarkFailed` |

A call of the database or the storage is answered, or fails without effect, or fails
after its effect; `QueryFails` is a read whose exception nothing catches, and `Crash`
ends a request anywhere. A crash of a process with two requests is two `Crash` steps. The
columns that `isMatchingReadyAsset` compares besides the status are those the same
request wrote, and so always match.

`KeyIsLock`, `OneUploadAtATime` and `ReturnedStaysReady` hold whatever fails. The other
three are conditional, each on the failures that would make it impossible:
`ReadyHasObject` on no reply of a commit being lost, `NoOrphans` on the storage and the
process not failing, `PendingIsInProgress` on nothing but the storage failing.

### `ChannelReservation`

State. `reserved`, the provisioning keys that have a channel (a channel is never deleted, and
a key is unique in a company); `limit`, the entitlement, 0 where there is none, and
`granted`, the largest there was. A request keeps its `key`, the transaction it is in
(`attempt`) and what that transaction sees (`snapshot`); `outcome` is its last answer. `began`,
the keys that were reserved when the request began, is history: what was reserved `Since` is what
others have done meanwhile, and "unavailable" is explained by that alone, however many
channels there were before.

| `stage` | Action | Code |
|---|---|---|
| any | `SetLimit` | `EntitlementService.setLimit`; the limit of one that `activateCompany` grants |
| `idle` | `StartReservation` | `provision` |
| `begin` | `Begin` | `reserveChannel`: the reads of the serializable transaction |
| `commit` | `Commit` | its insert and commit: done, P2002, P2034, or a lost reply |
| `refind` | `Refind` | the lookup by key after P2002 |

`Overtaken` is what Postgres promises of serializable transactions here: the channels were
counted, so the transaction cannot commit when a channel has been inserted since. Beyond that
it may abort without a cause, which `Failure` counts.

### `ChannelConnection`

State, of one channel. `session`, the instance at Evolution: its `state`; `paired`, whether the
phone is really there (`Live`), which no answer tells as such; and what its record says, whether it
has the `number` of a phone and tells of a device that was `removed`; `webhook`;
`recorded`, the column `connectionStatus`. A request has an `op` (provision, qr, connection,
pairing), the await it stands at and the snapshot it has `observed`.
`moved` and `meddled` are history: whether the session has changed since a request saw
it connected, and whether another request has connected it or logged it out since one
found its device stale.

The record and the phone need not agree. A phone that has connected may have a record without
its number, known by its `ownerJid` or not at all, and with the removal of an earlier device still in it
(`env-evolution-instance-provisioning.client.ts:111-114`, `343-371`); an open session without number
and without removal counts as connected, and one with an old removal as stale. The
answer of `instance/connect` may tell a number that the record does not have, and both are asked before
a session is taken for stale.

| `step` | Action | Code |
|---|---|---|
| `inspect`, `create`, `reinspect` | `Inspect`, `Create` | `ensureInstance`, `createInstance` |
| `findWebhook`, `setWebhook`, `confirmWebhook` | `FindWebhook`, `SetWebhook` | `ensureConfiguration` |
| `connect`, `confirmStale`, `logout`, `reconnect` | `Connect`, `ConfirmStale`, `Logout`, `Reconnect` | `connectWithStaleRecovery` |
| `state`, `metadata` | `GetState`, `ReadMetadata` | `getConnectionState` |
| `synchronize`, `markError` | `Synchronize`, `MarkError` | the update of the row |

`Pair`, `Close` and `RemoveDevice` are the phone. The API is external: an instance that is not
open starts to connect and gives a code, a device removed on the phone leaves it "open", and
a call fails without or after its effect.

### `MessageRouting`

State. `active` and `connected` channels, of two providers; per message the `draft` that
`enqueue` was given (its type, channel, whether it names an asset, and at most one `defect`),
the channel it was `pinned` to, whether its `asset` is usable, its `phase`, the `code` of the last
error and the attempts. `accepted` counts how often the provider has taken it; `lapsed`,
`spoilt`, `uncertain` remember that the channel was inactive, the asset unusable, an outcome
unknown.

| `phase` | Action | Code |
|---|---|---|
| `new`, `insert` | `Enqueue`, `Insert` | `validateInput`, `validateTenantRelations`, `resolveForEnqueue`; then the asset and the upsert |
| `queued` | `Process` | `processMessage`: payload, `MediaMessageResolver` |
| `router`, `config` | `Route`, `ResolveConfig` | `MessageProviderRouter`, the provider's checks, the resolvers of its configuration |
| `fetch` | `Fetch` | the HTTP call, its answer, `mapHttpError`, `httpError`, the `catch` |

`ReadStatus` and `WriteStatus` are the two queries of `updateRoutingStatus`; `Observe` stands for
`ChannelConnection`, which may write any status. After an error `Outcome` decides as
`handleProviderError` does. Locks and workers are in `OutboundQueue` only.

### `CustomerRegistry`

State. `customer`, per id a row (`phone`, `cpf`, `consent`), `Unused` or `Removed`. A phone is a
line and a form: mobile lines have a legacy form without the ninth digit. A request stands at
a `stage` of its `job`; import and registration hold the rows they are about to insert in
`fresh`, an opt-out the customers it has `left` and the one it is at (`target`).

| Job | Actions | Code |
|---|---|---|
| create, update | `FindExisting`, `FindPhone`, `FindCpf`, `Insert`, `Write` | `createWithClient`, `update`: query by query |
| import, register | `Begin`, `Commit`, `Abort` | the serializable transactions of `CustomerImportService.execute` and `submit`; only the latter tries again |
| consent, optOut | `FindByPhone`, `ReadConsent`, `WriteConsent`, `IgnoreMessage` | `updateConsent`; `process` of the inbound opt-out |
| remove | `Remove` | the transaction of `remove` |

`FailRequest` ends a request anywhere. History: `plainSince` and `serialSince`, the lines
written by either kind of writer since a request looked its own up; `raced`, the lines
stored twice from the start, or written by two at once of which not both were serializable; `owed`, the customers an opt-out must have
reached. Serializable transactions conflict with each other only: `Overtaken` refuses a
commit after another serializable insert of the line, but not after a `create` or `update`.

### `CustomerInterests`

State. `option` (missing, active, inactive), `contact`, `interests`; the `link`, whether it and the
company are active (`open`), the ids `issued`. Assignments and registrations are serializable
transactions of two steps, `BeginInterests` and `CommitAssignment` or `CommitRegistration`,
with `AbortInterests` for P2034 up to three times; `FindLink` and `WriteLink` create and
rotate the link, `DeleteInterests` and `DeleteContact` remove a customer. An assignment
writes the difference between what was asked and what its snapshot held (`seen`), so a
mixture of two requests is possible in the model if `Serializable` fails.

### `CampaignAudience`

State. The row of one `campaign` (audience, one attribute for all seven) and its interest
`filters`. `updateCampaign` and a dispatch or preview read the row and the filters (`ReadCampaign`,
`ReadFilters`); an update checks the merged result (`CheckChange`) and writes in a READ
COMMITTED transaction: `ReplaceCategories`, `ReplaceBrands`, `UpdateRow`, which commits. Rows
an open transaction has deleted or inserted make others wait (`Waits`); a filter inserted
meanwhile fails the insert on its index. `Dispatch` is the decision whom to reach, from what was
read. `stale` are the requests that have read what was changed since, `crossed` says that the
last change was made by one of them, `generic` that the campaign was not SEGMENTED
at some time during a request.

### `AutomationCatalog`, `CompanyPolicy`

`AutomationCatalog`: `automation` says of each name what it is (custom, campaign,
of the system, or none); `CountAutomations` and `InsertAutomation` are the two queries of `create`, `Rename`
and `RemoveAutomation` those of `update` and `remove`.

`CompanyPolicy`: `include` and the `audits` of its changes, `unknown` and its declaration.
`ReadPolicy` and `WritePolicy` are the two halves of the transaction of
`updateOptOutInstructions`, the latter conditional on what was read.

### The instances and the proof modules

`MCOutboundQueue`, `MCDeliveryStatus`, `MCAutomationEngine` and `MCMediaAsset` are the instances of
one module each. `MCChannels` instantiates the three modules on channels and
`MCCompany` the five on what a company keeps, without the product of their interleavings: a
variable `part` says whose behaviour this is, and the other parts wait in an initial state. That is
no loss, as no part writes what another reads; where one depends on another, it takes any
answer for possible (`Observe` in `MessageRouting`, the refusal of a registration in
`CustomerInterests` for a phone that is taken, an inactive option in `CampaignAudience`).

The proofs of section 5 are in `OutboundQueueProofs`, `OutboundQueueDelivery`,
`DeliveryStatusProofs`, `AutomationEngineProofs`, `MediaAssetProofs`,
`ChannelProofs`, `CustomerRegistryProofs` and `CompanyProofs`.

## 3. Runs

| Run | Instance | Question |
|---|---|---|
| `takeover` | 2 workers, 1 message with media, 2 attempts, 3 faults | Does a stalled or crashed worker, or a lost answer, ever leave a false record, or a second call without a cause? |
| `tenant` | 2 workers, 1 message, 1 fault, all tenant operations | Do consent changes, deletions and policy changes break an opt-out, a cancellation, status or history? |
| `live` | 2 workers, 2 messages of different priority, batches of 1, 1 fault | Is every message concluded? |
| `attempts` (violated) | 1 worker, 2 faults | Does `maxAttempts` bound the attempts? No. |
| `optout` (violated) | 1 worker, no fault | Is a standing opt-out absolute? No, not for a deleted customer. |
| `webhook` | 2 handlers, 3 rows of which two share an id, 4 requests, 1 fault | Do rows only move forward, is what was answered 200 recorded, is everything reported recorded in the end, and are ambiguous rows left alone? |
| `engine` | 2 runs, a reactivation, a birthday and a campaign without channel, 1 customer, 2 days, midnight between any two steps, 1 fault | One open message, cooldown, birthdays, reach of a tick |
| `engine_cooldown` (violated) | 2 runs, 1 reactivation, 2 days, no fault | Are any two sent messages apart by the cooldown? No. |
| `media` | 2 requests at a time, 3 ids, 3 faults | Does the key exclude uploads of a file, do rows and objects agree, does an asset that was given stay? |
| `channels` | 2 clients, 4 keys, limits to 3; 2 requests on one instance; 1 message, 3 channels, 2 attempts; 1 fault each | Limit and retries of a reservation; is the connection what it is said to be, and what is handed over usable; can what is accepted be sent, and is it taken twice; does every request end? |
| `company` | 2 requests on 2 customers who may share a phone from the start, 1 contact, 1 campaign, 3 names, 4 audits | Duplicates, opt-outs, interests, segments, limit and audit when requests overlap |
| `company_duplicates` (violated) | the same | Does an opt-out of a phone that two customers have change neither? No, it changes both. |

Bounds. `MaxFaults` counts crashes, stalls and failed calls; three suffice for an
expired lock under a stalled worker, a second one under its successor and a
lost reply. With `MaxAttempts = 2` the last attempt and one before it are told
apart. One message is enough for what concerns a single row, since rows interact only through
batches and priority, which `live` covers. Workers are interchangeable, so
safety runs use symmetry; `live` does not.

The webhook's requests include one out of order, one whose first event is ambiguous
and one that reports a failure and so excludes the others; two handlers are the least that race between lookup
and update. In the engine, two days give one key before and one after midnight, a
clock of three values and a cooldown of one give times inside and outside of it,
and two runs are the least that overlap. Customers of one automation do not
affect each other but through the order of the loop and its abort, for which a second
automation serves as well. `OneAutomationInQueue`, the constraint of `engine`, keeps to states
in which all rows are of one recurring automation: no automation reads or writes the rows of another, so that
what it can do is seen without the rows of the others. The runs still process all of them.

In `media`, two requests race for the key, and three ids let one row be released, one be
ready and one be created. Three faults suffice for a failed call, a failed compensation
of it and a crash. Clients may stop, and each attempt uses up an id, so that the run has
final states (`CHECK_DEADLOCK FALSE`).

In `channels`, four keys are one more than a request has attempts, so that the other client
can reserve three channels while one fails three times; limits go from none to three, and change
at any time. Two requests on an instance are the least that cross; the phone may pair,
close and be removed any number of times. Two Evolution channels make the choice
of a channel ambiguous or not, a Meta channel makes it wrong; the message takes every
draft with at most one defect, and two attempts tell the last from the one before.

In `company`, a mobile and a fixed line give phones with and without a second form; every
assignment of rows to the two customers is an initial state, the same phone or the two forms of
one line included, but for a CPF, which is unique. The entry,
one of the edits and the file all name the same mobile line, so that they collide. Two options with
the wishes {o1} and {o1, o2} let two assignments differ in what they
add and delete; two public ids let the link rotate once after it was used. The seven changes
of a campaign include each audience and each way to give or leave out a part; a category and
a brand are one filter of each group. Three names allow two custom automations beside a
limit of one, and renaming. Four audits are two overlapping changes, twice.

Customers, phones and options are finite and ids are not used again, so the
requests come to find nothing to do only in parts that can still fail or restart: neither run
needs `CHECK_DEADLOCK FALSE`.

Fairness. In `live`, each worker is weakly fair as a whole: the cron ticks
and every await returns, for the HTTP clients have timeouts. The clock is weakly fair
per message. The producer, the tenant and faults have none. In `webhook`, handlers are weakly
fair (their awaits return), and the delivery of a request that was not answered 200 is
strongly fair: Meta repeats it until it is, and one of the handlers is free again and
again.

## 4. What the runs found

* `attempts`: `recoverExpiredLocks` and `releaseAfterProcessingError` return a
  message to `PENDING` whatever its count. `src/backend/README.md:88` says that at
  `maxAttempts` it becomes `FAILED`. What does hold is `OvertimeIsInterrupted`:
  each attempt past the limit follows one whose lock was taken back.
* `optout`: a customer who is `OPTED_OUT` and then deleted still gets a queued message:
  the row's `customerId` is null, for which revalidation answers yes.
  `src/backend/README.md:343` calls the opt-out absolute. What does hold is
  `OptOutRespected`: customers not deleted are not sent to.
* `engine_cooldown`: `canSendMessage` reads the `SENT` logs and a later statement the open
  messages. A message of the day before, still queued, that is sent between the two
  is seen by neither; the key of the new day lets a second one be stored and sent
  at once. No midnight within the run of the new day is needed. What does hold is `CooldownRespected`:
  the cooldown after each message that was sent on its own day, before those whose run had
  loaded its customers on the day of their key.
* `company_duplicates`: an opt-out finds every customer that has the phone and writes them one by
  one (`webhook/inbound-opt-out.service.ts:68`, as its test at
  `inbound-opt-out.service.spec.ts:177` wants it); `src/backend/README.md:377` says that duplicated phones fail
  closed "sem alterar clientes". What does hold is `OptOutReachesAll`: all who have the phone are
  opted out, and stay so until somebody grants consent.

What the models of channels and companies make plain, of which no run refutes a
document:

* Two customers may come to share a phone by two overlapping creations or edits, or by one beside
  an import or registration (`DuplicateIsRaced` says that there is no other way but to be stored so).
* No step of the code promotes a channel to `ACTIVE` when it is first connected, as
  `src/backend/README.md:480` says; it is reserved `INACTIVE`, and only `updateRoutingStatus` changes that.
* `provision` takes the state of an existing instance as it is. If the device was
  removed on the phone it answers and records `CONNECTED`, where `getConnection` would
  say `DISCONNECTED`; hence `ConnectedIsLive` speaks of `getConnection` and `getQrCode`.
* The recovery of a stale device takes an open session for stale if its record has no number and
  tells of a removed device. A phone that was connected again may have just such a record, and is then
  logged out. And the recovery reads the record after it has asked to connect, and does not look at the
  state: if another request has reconnected the phone meanwhile, that connection may be
  logged out. `LogoutIsForStale` says that there is no third way.
* When midnight overtakes a tick, its birthday messages get the key of the day after, and a
  message of the old day may be stored beside one of the new (`BirthdayOnItsDay`, `OneOpenPerPair`).
* A timeout while the body of a success is read is retried like any timeout: the message is
  taken twice, though the status has told that it was taken (`TakenTwiceIsUncertain`).
* `enqueue` checks that a phone is not blank, the provider that it has 10 to 15 digits: a message
  with a wrong phone is accepted and fails (`EnqueuedIsSendable` names this exception).
* Two changes of a campaign that cross may leave it SEGMENTED without a filter, or filters behind on a campaign for
  all; the dispatch checks again and refuses the first, and the next change that meets no other
  makes either right (`SegmentedHasFilter`, `DispatchStaysInSegment`).
* Custom automations exceed their limit by as many creations as overlap, less one
  (`LimitPlusOverlap`).
* An opt-out is lost when its channel is not `ACTIVE` or the query for its tenant fails:
  the webhook answers 200 and ignores it.

One more thing the model of the webhook makes plain: an event of an ambiguous id is
answered 503 for ever, and the events behind it in the same request wait with it.
`EventuallyRecorded` therefore excludes them.

And the conditions of the media properties are necessary. A crash, or a failed
`tryMarkFailed`, leaves a `PENDING` row whose key is never released: each later upload of
the file is told "Media asset upload is already in progress" (`media-asset.service.ts:240`).
If the reply to the update to `READY` is lost and the confirmation fails,
`compensateUnconfirmedFinalization` deletes the object of a row that is `READY`, and that
row is given to later uploads of the file.

## 5. Proofs

Every statement holds for all values of the constants that satisfy the ASSUMEs of the
module, which are on the shape of the constants; TLC evaluates them in each run. Two
theorems assume of the deployment that Meta reports on stored rows only; this is named here and stated
in the theorem.

| Module | For any | Theorems |
|---|---|---|
| `OutboundQueueProofs` | messages, customers, automations, workers, limits of attempts, batch sizes, faults | `TypeCorrect`, `Invariance` (the inductive invariant `IInv`), `HistoryIsTrue`, `SentIsTrue`, `CancelledIsUncalled`, `OvertimeIsExplained`, `ResendIsExplained`, `OptOutIsRespected`, `CallsAreDistinct`; `RowsAdvance`, `PassesComeToAnEnd` |
| `OutboundQueueDelivery` | the same | `DeliveryImplemented`: the queue implements `MessageDelivery` |
| `DeliveryStatusProofs` | rows, ids, requests, handlers | `TypeCorrect`, `Invariance`, `MovesForward`, `StampsAgree`; if Meta reports on stored rows only (`~EarlyReports`), `AcknowledgedStays` and `AmbiguousStays` |
| `AutomationEngineProofs` | automations, customers, runs | `TypeCorrect`, `TicksContact`, `RunsComeToAnEnd`, `QueueIsAsPromised`, `OneOpen`, `Birthdays`, `Cooldowns`, wherever midnight falls |
| `MediaAssetProofs` | ids, requests, faults | `TypeCorrect`, `KeyLocks`, `UploadsExclude`, `ReadyHas`, `ReturnedStays`, `PendingProgresses`, `ObjectsBelong`, `UploadsComeToAnEnd` |
| `ChannelProofs`, reservation | clients, keys, limits | `ReservationInvariance`, `ReservationTypes`, `LimitIsKept`, `UnavailableIsExplained`, `ReservationEnds` |
| `ChannelProofs`, connection | requests, faults | `ConnectionInvariance`, `ConnectionTypes`, `NoLivePhoneIsLoggedOut`, `HandedOverWithWebhook`, `ConnectedIsTold`, `CreateIsLookedAtAgain`, `ConnectionEnds` |
| `ChannelProofs`, routing | messages, channels, limits of attempts | `RoutingInvariance`, `RoutingTypes`, `AcceptedIsSendable`, `TakenIsTriedOrSent`, `DuplicatesAreUncertain`, `RoutingEnds` |
| `ChannelProofs`, the three together | all of these | `RequestsEnd`, by way of `PartsAreTheirModules`: the composition is the specification of each part |
| `CustomerRegistryProofs` | customers, lines, entries, files, requests | `RegistryTypes`, `DuplicatesAreRaced`, `OptOutsReachAll`, `RegistryRequestsComeToAnEnd` |
| `CompanyProofs` | requests, names, limits, options, links, changes, managers | `CatalogTypes`, `LimitIsExceededByOverlap`; `PolicyTypes`, `AuditIsComplete`; `InterestsTypes`, `InterestsAreWhole`, `InterestsAreOffered`; `AudienceTypes`, `SegmentsHaveFilters`, `DispatchIsConfined` |

### The arguments

Why the queue's `IInv` is needed. `SentIsBacked` says nothing of a worker about to write
`SENT`. The write is fenced by `Owns`, so it must be known that the attempt the worker loaded is
the current one whenever it owns the row (`HandsInv`), that a worker in `sent`
was told so for that attempt (`ProgressInv`), and that nobody else holds the same
attempt (`DistinctAttempts`), for a worker that lost its lock may still be
anywhere in `processMessage`. A row that is not owned any more has the loaded
attempt in `interrupted`, which is what turns the late steps of an old worker into
harmless ones. `PendingInv` carries what a waiting row knows of its past
attempts into the next acquisition, and `RecipientInv` and `BarredInv` follow a deleted
customer's reference.

The proof has one lemma per action, each stating how the action preserves the
parts of `IInv` it can disturb; frames (`QueueKept`, `RowKept`, `WorkerKept`,
`LetGo`) treat the others at once. The refinement cites the invariant for the
steps that conclude a message.

In the webhook, a handler's claim to 200 rests on the events behind it (`HandledInv`): each
is recorded, and stays so because rows only move forward; `FoundInv` says that what a
handler found is what it may advance from. In the engine, `DayInv` places the day of each key between the day its
run loaded its customers and the day its row was stored, so that a new row is the only open one of its
pair but for those stored after their day; `CooldownInv` carries the cooldown from the read of the history
(`DecidedAfterCooldown`) over the enqueue (`EnqueuedAfterCooldown`) to the send;
`ReachInv` says of each run whom it is through with.

In `MediaAsset`, `StageInv` says what a request knows of its own row and object at each
await: only the request that created a row moves it while it is `PENDING`, and others
release only what is not. `OwnInv` keeps the rows of two requests apart. The proof
summarises each step of a request by what it may do to rows and objects (`Effect`), and
derives every part of the invariant from that summary once.

In `ChannelReservation`, a request about to commit has counted its snapshot against a limit that
was granted, and commits only if the snapshot is still what is reserved: so the insert stays within
`granted`. `UnavailableIsContention` counts attempts by the channels of others
reserved `Since` the request began: each overtaken attempt leaves one that the next has seen, and `began`
never changes under way.

In `ChannelConnection`, a request acts on what it saw several awaits ago, so the invariant
(`ConnectionInv`) says of each await what is still true of it, as long as the history
(`moved`, `meddled`) does not tell that it may have become false. `StaleInv`: the session that a
request is about to log out as stale still has no number and a removal in its record, unless another
request has `meddled`; the phone alone does not put a number there. `ProvisionInv`: the instance comes before its webhook,
the webhook before the connection. `SeenInv`: "CONNECTED" was first seen of an
open session, and then of a live one, unless the record could not be read; `SessionKnown` says that an open
session whose phone is gone tells so, by a removal and the lack of a number. `FailureInv`: a provision
fails for a call other than `createInstance`, or for a removed device. What other
requests and the phone do is treated once, by what never comes back (`WorldGrows`: an instance that
is there, the webhook) and by what the history notices.

In `MessageRouting`, `DraftInv` keeps what `enqueue` has checked, `WitnessInv` says that a
channel or asset that fails a message has left its trace in `lapsed` or `spoilt`, `TakenInv`
counts the acceptances by the attempts that have ended, so that a second one presupposes an
unknown outcome, and `FailedInv` gives the reason of each final failure.

In `CustomerRegistry`, `Secured` says of a request that relies on a lookup that its line is
free but for what was written since, by a plain or a serializable writer, which is what
`raced` is computed from (`Free`, `FreshFree`); and of an opt-out that each customer it owes is opted
out or still to be done (`Owes`), however consents, edits and removals come in between.

In `AutomationCatalog`, `RoomForPassed` weighs the creations that have passed the count: custom
automations and passed creations together stay below limit plus requests. In `CompanyPolicy`,
`RevisionsChange` says that a pending revision would change what it read. In `CustomerInterests`,
`Reads` ties what a transaction has seen to the interests unless it was overtaken, and `Offered`
to what has been withdrawn. In `CampaignAudience`, a request that is not `stale` has read the
campaign that is there (`ReadCurrent`), has checked its result (`Checked`), and its open
transaction holds exactly the difference to it (`Replaced`, `Untouched`), so that its commit
yields what was checked; `ReadGeneric` ties a campaign read as not SEGMENTED to `generic`.

Endings. That every request ends is a liveness property, and liveness is beyond the prover.
What can be proved is the half of it that the code is responsible for: every await that
returns brings the request closer to its end in an order without infinite descent, whatever
is answered and whatever others do meanwhile. With fair awaits, each request then ends. The orders are `AwaitsLeft` and the like: in the queue, the
locks found and the batch, each met once, and then the awaits of the message in hand
(`PassesEnd`, so that `isRunning` does not stay set in a loop); in the engine, the automations and customers loaded
(`RunsEnd`); in media, the unique constraint errors a request has left (`UploadsEnd`), whoever takes the
key from it; in the registry, the attempts of a registration and the customers an opt-out has still
to do (`RegistryRequestsEnd`). The last needs the invariant `Targeted`: the customer an opt-out writes is one of
those it has left, or the loop could meet it again. On channels the
measures are `AttemptsLeft`, `CallsLeft` and `StepsLeft`, and `EveryRequestEnds` is the three.

`RowsMoveForward` says of a row of the queue that it never returns to a status with the
number of attempts it had then, and that a conclusion is final. So the expired lock that
recovery has found cannot be mistaken for a later one of the same row, though other workers may have
released and taken it in between; and each attempt has one period under lock.

`QueueIsAsPromised` joins the engine to the queue. The engine is modelled over a queue of which
only the promise is known; the theorem says that each step of the model is one that
`MessageDelivery` allows, and `DeliveryImplemented` that the queue with its workers takes only such
steps. So the cooldown and the single open message rest on nothing of the queue that was
not shown of it.

### What the runs check and what is proved

Each safety and action property that a passing run checks is proved for every size, and each is
broken in its run by a change of the code. Type invariants, the inductive invariants,
`HistoryMatchesStatus` (which the refinement implies as well), `StampsMatch` (a part of the
webhook's), `RowsMoveForward`, `Queue!Spec` of the engine, and the endings of the queue, the engine, media and the registry are proved,
and no run repeats them; they were checked on the instances of the runs before they were
proved. `channels` checks `EveryRequestEnds`.

Only model-checked: liveness under fairness (`EventuallyConcluded`, `EventuallyRecorded`),
which is beyond the prover. The four violated claims are refuted by TLC.

## 6. Not modelled

* Formats: how a phone, a CPF, a name or a text is parsed and normalised, beyond the two
  forms of a mobile line. A text is a command of opt-out or not, an input has a defect or not.
* Times other than those the code compares: `availableAt`, `lockedAt`, the expiry of an asset, the
  cooldown and the civil day are modelled; the dates of consents and audits, and the length of the
  backoff, are not, since nothing reads them to decide.
* The attributes of a segment and of a customer, and the queries that select customers by
  them: pure data, one attribute stands for all. Listings, filters and the dashboard only read.
* The bodies of the calls to the providers, the storage, the Evolution API and their
  authentication: only what an answer lets the code conclude.
* Authentication, users, guards, throttling, bootstrap and the legacy `message/`: stateless
  requests on single rows, or one call; they have no behaviour over time worth checking. Of the
  administration only the effects on a limit and on the link matter to other components.

## 7. Plan

Done: the queue, the webhook, the engine, media assets, channels from the reservation to the
message, and what a company keeps; the safety and action properties of the runs proved for every size.

What would add most next: that the requests of `CustomerInterests`, `CampaignAudience`,
`AutomationCatalog`, `CompanyPolicy` and the handlers of `DeliveryStatus` come to an end, in the way of section 5;
and the pure algorithms (forms of a phone, segmentation by interests, backoff) against
reference definitions over bounded inputs.
