---------------------------- MODULE OutboundQueue ----------------------------
(***************************************************************************)
(* The durable outbound queue and its worker processes:                    *)
(* src/backend/src/queue/message-worker.service.ts, with the customer,     *)
(* policy and automation operations that change what a worker reads.       *)
(*                                                                         *)
(* PostgreSQL is READ COMMITTED, so every statement (or transaction) of    *)
(* the worker is one step and anything may happen between two of them.     *)
(* Every database call may fail: a write that fails either was not applied *)
(* or was applied and its reply lost.  The provider is called outside any  *)
(* transaction; it may accept a message and still answer with an error.    *)
(*                                                                         *)
(* Time is what the code compares: a row is due or not (availableAt <=     *)
(* now) and its lock expired or not (lockedAt <= now - 5 min).             *)
(***************************************************************************)
EXTENDS Integers, FiniteSets

CONSTANTS
    Messages,          \* outbound messages (idempotency keys)
    Customers,         \* customers of the tenant
    Automations,       \* automations of the tenant
    Workers,           \* worker ids (hostname:pid) of the enabled processes
    MediaMessages,     \* messages whose payload is a managed MediaAsset
    UnroutedMessages,  \* rows stored with no channel, or an unusable payload
    Priority,          \* Priority[m]: the row's priority column
    MaxAttempts,       \* MaxAttempts[m]: the row's maxAttempts column
    BatchSize,         \* BATCH_SIZE, 10 in the code
    RecoveryBatch,     \* EXPIRED_LOCK_BATCH_SIZE, 50 in the code
    MaxFaults,         \* bound on crashes, failed database calls and stalls
    TenantOps,         \* which tenant operations happen (all, in the system)
    None               \* a null column

ASSUME SetsAssumption ==
    /\ MediaMessages \subseteq Messages /\ UnroutedMessages \subseteq Messages
    /\ None \notin Messages \union Customers \union Automations \union Workers

\* enqueue refuses maxAttempts below one and a negative priority.
ASSUME ColumnsAssumption ==
    /\ MaxAttempts \in [Messages -> Nat \ {0}]
    /\ Priority \in [Messages -> Nat]

AllTenantOps ==
    {"consent", "toggle", "policy", "removeCustomer", "removeAutomation"}

ASSUME BoundsAssumption ==
    /\ BatchSize \in Nat \ {0} /\ RecoveryBatch \in Nat \ {0}
    /\ MaxFaults \in Nat /\ TenantOps \subseteq AllTenantOps

VARIABLES
    \* OutboundMessage rows and their terminal MessageLog
    status,        \* NONE until enqueued, then OutboundMessageStatus
    lockedBy,      \* lockedBy, None when lockedAt is null
    lockExpired,   \* lockedAt is at least LOCK_TIMEOUT_MS old
    due,           \* availableAt <= now
    attempts,      \* attempts
    recipient,     \* whose phone recipientPhone is
    customerId,    \* customerId, set to null when the customer is deleted
    automationId,  \* automationId, set to null when the automation is deleted
    log,           \* status of the row's MessageLog, NONE without one
    \* what the worker reads besides
    consent,       \* Customer.contactConsentStatus
    enabled,       \* the customers with isActiveForAutomation
    customers,     \* the customers not deleted
    automations,   \* the automations not deleted
    policy,        \* Company.unknownContactPolicy
    \* each worker process: local variables of handleCron and its callees
    pc,            \* the await it stands at
    candidates,    \* expired locks still to recover, each with its attempt
    batch,         \* selected messages still to process
    msg,           \* message in hand, None without one
    copy,          \* the row as loaded: attempts, customerId, automationId
    seenPolicy,    \* the company policy as read, until it is used
    \* history, read by no action of the code
    calls,         \* calls[m]: attempts that reached the provider
    accepted,      \* accepted[m]: attempts the provider accepted
    heard,         \* heard[m]: of those, the ones whose worker was told so
    interrupted,   \* interrupted[m]: attempts whose lock was taken back
    barred,        \* workers whose recipient is OPTED_OUT since the acquisition
    faults         \* faults so far

rowVars == <<status, lockedBy, lockExpired, due, attempts>>
refVars == <<recipient, customerId, automationId>>
tenantVars == <<consent, enabled, customers, automations, policy>>
workerVars == <<pc, candidates, batch, msg, copy, seenPolicy>>
historyVars == <<calls, accepted, heard, interrupted, barred>>
vars == <<rowVars, refVars, log, tenantVars, workerVars, historyVars, faults>>

------------------------------------------------------------------------------
(* Types *)

Statuses == {"NONE", "PENDING", "PROCESSING", "SENT", "FAILED", "CANCELLED"}
Terminal == {"SENT", "FAILED", "CANCELLED"}
Consents == {"UNKNOWN", "GRANTED", "OPTED_OUT"}
Policies == {"BLOCK_UNKNOWN", "ALLOW_UNKNOWN"}
Steps == {"idle", "recover", "batch", "load", "policy", "customer", "cancel",
          "send", "calling", "sent", "retry", "fail", "release"}
\* The awaits inside acquireAndProcess.
InHandSteps == {"load", "policy", "customer", "cancel", "send", "calling",
                "sent", "retry", "fail", "release"}
Copy == [attempts : Nat, customerId : Customers \union {None},
         automationId : Automations \union {None}]
NoCopy == [attempts |-> 0, customerId |-> None, automationId |-> None]

RowTypes ==
    /\ status \in [Messages -> Statuses]
    /\ lockedBy \in [Messages -> Workers \union {None}]
    /\ lockExpired \in [Messages -> BOOLEAN]
    /\ due \in [Messages -> BOOLEAN]
    /\ attempts \in [Messages -> Nat]
    /\ log \in [Messages -> {"NONE", "SENT", "FAILED"}]

RefTypes ==
    /\ recipient \in [Messages -> Customers \union {None}]
    /\ customerId \in [Messages -> Customers \union {None}]
    /\ automationId \in [Messages -> Automations \union {None}]

TenantTypes ==
    /\ consent \in [Customers -> Consents]
    /\ enabled \in SUBSET Customers
    /\ customers \in SUBSET Customers
    /\ automations \in SUBSET Automations
    /\ policy \in Policies

WorkerTypes ==
    /\ pc \in [Workers -> Steps]
    /\ candidates \in [Workers -> SUBSET (Messages \X Nat)]
    /\ batch \in [Workers -> SUBSET Messages]
    /\ msg \in [Workers -> Messages \union {None}]
    /\ \A w \in Workers : msg[w] # None <=> pc[w] \in InHandSteps
    /\ copy \in [Workers -> Copy]
    /\ seenPolicy \in [Workers -> Policies]

HistoryTypes ==
    /\ calls \in [Messages -> SUBSET Nat]
    /\ accepted \in [Messages -> SUBSET Nat]
    /\ heard \in [Messages -> SUBSET Nat]
    /\ interrupted \in [Messages -> SUBSET Nat]
    /\ barred \in SUBSET Workers
    /\ faults \in Nat

TypeOK == RowTypes /\ RefTypes /\ TenantTypes /\ WorkerTypes /\ HistoryTypes

------------------------------------------------------------------------------
(* Initial states: an empty queue, idle workers, any customers and policy *)

Init ==
    /\ status = [m \in Messages |-> "NONE"]
    /\ lockedBy = [m \in Messages |-> None]
    /\ lockExpired = [m \in Messages |-> FALSE]
    /\ due = [m \in Messages |-> FALSE]
    /\ attempts = [m \in Messages |-> 0]
    /\ recipient = [m \in Messages |-> None]
    /\ customerId = [m \in Messages |-> None]
    /\ automationId = [m \in Messages |-> None]
    /\ log = [m \in Messages |-> "NONE"]
    /\ consent \in [Customers -> {"UNKNOWN", "GRANTED"}]
    /\ enabled = Customers
    /\ customers = Customers
    /\ automations = Automations
    /\ policy = "BLOCK_UNKNOWN"
    /\ pc = [w \in Workers |-> "idle"]
    /\ candidates = [w \in Workers |-> {}]
    /\ batch = [w \in Workers |-> {}]
    /\ msg = [w \in Workers |-> None]
    /\ copy = [w \in Workers |-> NoCopy]
    /\ seenPolicy = [w \in Workers |-> "BLOCK_UNKNOWN"]
    /\ calls = [m \in Messages |-> {}]
    /\ accepted = [m \in Messages |-> {}]
    /\ heard = [m \in Messages |-> {}]
    /\ interrupted = [m \in Messages |-> {}]
    /\ barred = {}
    /\ faults = 0

------------------------------------------------------------------------------
(* Helpers *)

\* Take(S, n): the sets findMany may return with take: n and no useful order.
Take(S, n) ==
    {B \in SUBSET S : Cardinality(B) = n \/ (B = S /\ Cardinality(S) < n)}

\* How a database call ends: applied and answered; failed; or (writes only)
\* applied with the answer lost. The last two throw at the caller.
Answers == {"ok", "error", "lost"}
Reply(r) ==
    /\ r # "ok" => faults < MaxFaults
    /\ faults' = IF r = "ok" THEN faults ELSE faults + 1

\* Mutant of Owns: the fence forgets who holds the lock.
OwnsByAnyone(w, m) == status[m] = "PROCESSING"

\* The condition of every write of a worker on the row it processes.
Owns(w, m) == status[m] = "PROCESSING" /\ lockedBy[m] = w

\* Mutant of Unlock: lockedAt and lockedBy are not reset.
UnlockKeepsLock(m, s) ==
    /\ status' = [status EXCEPT ![m] = s]
    /\ lockExpired' = [lockExpired EXCEPT ![m] = FALSE]
    /\ UNCHANGED lockedBy

\* The row leaves PROCESSING and its lock is cleared.
Unlock(m, s) ==
    /\ status' = [status EXCEPT ![m] = s]
    /\ lockedBy' = [lockedBy EXCEPT ![m] = None]
    /\ lockExpired' = [lockExpired EXCEPT ![m] = FALSE]

Goto(w, step) == pc' = [pc EXCEPT ![w] = step]

\* acquireAndProcess returns: on to the next message of the batch.
NextMessage(w) ==
    /\ Goto(w, "batch")
    /\ msg' = [msg EXCEPT ![w] = None]
    /\ copy' = [copy EXCEPT ![w] = NoCopy]
    /\ barred' = barred \ {w}

\* Foreign keys of MessageLog: the rows the worker loaded must still exist.
ReferencesExist(w) ==
    /\ copy[w].customerId \in customers \union {None}
    /\ copy[w].automationId \in automations \union {None}

\* Mutant of Eligible: only UNKNOWN contacts are held back.
EligibleUnlessUnknown(c, p) ==
    c \in enabled /\ (consent[c] # "UNKNOWN" \/ p = "ALLOW_UNKNOWN")

\* isEligibleForAutomation(customer, policy)
Eligible(c, p) ==
    /\ c \in enabled
    /\ consent[c] = "GRANTED" \/ (consent[c] = "UNKNOWN" /\ p = "ALLOW_UNKNOWN")

------------------------------------------------------------------------------
(* The queue's producer *)

\* QueueService.enqueue of a message that is not stored yet (the upsert of a
\* stored one changes nothing): tenant relations hold, the row is PENDING.
Enqueue(m, c, a) ==
    /\ status[m] = "NONE"
    /\ c \in customers /\ a \in automations
    /\ status' = [status EXCEPT ![m] = "PENDING"]
    /\ recipient' = [recipient EXCEPT ![m] = c]
    /\ customerId' = [customerId EXCEPT ![m] = c]
    /\ automationId' = [automationId EXCEPT ![m] = a]
    /\ UNCHANGED <<lockedBy, lockExpired, due, attempts, log,
                   tenantVars, workerVars, historyVars, faults>>

\* availableAt is reached.
BecomesDue(m) ==
    /\ status[m] = "PENDING" /\ ~due[m]
    /\ due' = [due EXCEPT ![m] = TRUE]
    /\ UNCHANGED <<status, lockedBy, lockExpired, attempts, refVars, log,
                   tenantVars, workerVars, historyVars, faults>>

\* Is m in the hands of the worker that holds its lock?
InHand(m) == \E w \in Workers : msg[w] = m /\ lockedBy[m] = w

\* LOCK_TIMEOUT_MS passes on a lock nobody is working under ...
OrphanLockExpires(m) ==
    /\ status[m] = "PROCESSING" /\ ~lockExpired[m] /\ ~InHand(m)
    /\ lockExpired' = [lockExpired EXCEPT ![m] = TRUE]
    /\ UNCHANGED <<status, lockedBy, due, attempts, refVars, log,
                   tenantVars, workerVars, historyVars, faults>>

\* ... or while its worker is stalled: nothing renews a lock.
LockExpiresInUse(m) ==
    /\ status[m] = "PROCESSING" /\ ~lockExpired[m] /\ InHand(m)
    /\ faults < MaxFaults
    /\ faults' = faults + 1
    /\ lockExpired' = [lockExpired EXCEPT ![m] = TRUE]
    /\ UNCHANGED <<status, lockedBy, due, attempts, refVars, log,
                   tenantVars, workerVars, historyVars>>

------------------------------------------------------------------------------
(* handleCron: recover expired locks, select a batch, process it in order *)

\* A tick of the cron finds the worker enabled and not running, and reads the
\* expired locks. A failed read is swallowed and recovers nothing. A candidate
\* carries its attempt number: lockedAt <= expiredAt, with expiredAt of this
\* pass, holds for the lock of that attempt and for no later one.
StartPass(w, r) ==
    /\ pc[w] = "idle"
    /\ Reply(r)
    /\ r # "lost"
    /\ \E C \in Take({m \in Messages : status[m] = "PROCESSING" /\ lockExpired[m]},
                     RecoveryBatch) :
          candidates' = [candidates EXCEPT ![w] =
                           IF r = "ok" THEN {<<m, attempts[m]>> : m \in C} ELSE {}]
    /\ Goto(w, "recover")
    /\ UNCHANGED <<rowVars, refVars, log, tenantVars, batch, msg, copy,
                   seenPolicy, historyVars>>

\* The lock is still the one the pass found expired.
StillExpired(c) == status[c[1]] = "PROCESSING" /\ attempts[c[1]] = c[2]

\* One conditional update of recoverExpiredLocks; a failure skips the row.
RecoverLock(w, c, r) ==
    /\ pc[w] = "recover"
    /\ c \in candidates[w]
    /\ Reply(r)
    /\ candidates' = [candidates EXCEPT ![w] = @ \ {c}]
    /\ IF StillExpired(c) /\ r # "error"
         THEN /\ Unlock(c[1], "PENDING")
              /\ due' = [due EXCEPT ![c[1]] = TRUE]
              /\ interrupted' = [interrupted EXCEPT ![c[1]] = @ \union {c[2]}]
         ELSE UNCHANGED <<status, lockedBy, lockExpired, due, interrupted>>
    /\ UNCHANGED <<attempts, refVars, log, tenantVars, pc, batch, msg, copy,
                   seenPolicy, calls, accepted, heard, barred>>

\* Mutant of Selectable: the status is not a condition.
SelectableWhateverStatus == {m \in Messages :
                               status[m] # "NONE" /\ lockedBy[m] = None /\ due[m]}

\* What findMany selects: PENDING, unlocked, due; highest priority first.
Selectable == {m \in Messages :
                 status[m] = "PENDING" /\ lockedBy[m] = None /\ due[m]}
FirstByPriority(B) ==
    \A m \in B, n \in Selectable \ B : Priority[m] >= Priority[n]

FindPending(w, r) ==
    /\ pc[w] = "recover" /\ candidates[w] = {}
    /\ Reply(r)
    /\ \/ /\ r = "ok"
          /\ \E B \in Take(Selectable, BatchSize) :
                FirstByPriority(B) /\ batch' = [batch EXCEPT ![w] = B]
          /\ Goto(w, "batch")
       \/ /\ r = "error"
          /\ Goto(w, "idle")
          /\ UNCHANGED batch
    /\ UNCHANGED <<rowVars, refVars, log, tenantVars, candidates, msg, copy,
                   seenPolicy, historyVars>>

\* The conditional update that takes the lock. It takes nothing when another
\* worker was faster; when the call fails the message is skipped, even if the
\* lock was in fact taken.
Acquire(w, m, r) ==
    /\ pc[w] = "batch"
    /\ m \in batch[w] /\ \A n \in batch[w] : Priority[m] >= Priority[n]
    /\ Reply(r)
    /\ batch' = [batch EXCEPT ![w] = @ \ {m}]
    /\ IF m \in Selectable /\ r # "error"
         THEN /\ status' = [status EXCEPT ![m] = "PROCESSING"]
              /\ lockedBy' = [lockedBy EXCEPT ![m] = w]
              /\ attempts' = [attempts EXCEPT ![m] = @ + 1]
         ELSE UNCHANGED <<status, lockedBy, attempts>>
    /\ IF m \in Selectable /\ r = "ok"
         THEN /\ Goto(w, "load")
              /\ msg' = [msg EXCEPT ![w] = m]
              /\ barred' = IF consent[recipient[m]] = "OPTED_OUT"
                             THEN barred \union {w} ELSE barred
         ELSE UNCHANGED <<pc, msg, barred>>
    /\ UNCHANGED <<lockExpired, due, refVars, log, tenantVars, candidates,
                   copy, seenPolicy, calls, accepted, heard, interrupted>>

\* The batch is done; isRunning becomes false.
EndPass(w) ==
    /\ pc[w] = "batch" /\ batch[w] = {}
    /\ Goto(w, "idle")
    /\ UNCHANGED <<rowVars, refVars, log, tenantVars, candidates, batch, msg,
                   copy, seenPolicy, historyVars, faults>>

------------------------------------------------------------------------------
(* acquireAndProcess after the lock is taken: load, revalidate, cancel *)

\* Mutant of LoadMessage: the row is reloaded by id, whoever holds its lock.
LoadMessageUnfenced(w, r) ==
    LET m == msg[w] IN
    /\ pc[w] = "load"
    /\ Reply(r)
    /\ r = "ok"
    /\ copy' = [copy EXCEPT ![w] =
                  [attempts |-> attempts[m], customerId |-> customerId[m],
                   automationId |-> automationId[m]]]
    /\ Goto(w, IF customerId[m] = None THEN "send" ELSE "policy")
    /\ UNCHANGED <<rowVars, refVars, log, tenantVars, candidates, batch, msg,
                   seenPolicy, historyVars>>

\* Reload the row under the lock; a row no longer owned is not found.
LoadMessage(w, r) ==
    LET m == msg[w] IN
    /\ pc[w] = "load"
    /\ Reply(r)
    /\ r # "lost"
    /\ IF r = "ok" /\ Owns(w, m)
         THEN /\ copy' = [copy EXCEPT ![w] =
                            [attempts |-> attempts[m], customerId |-> customerId[m],
                             automationId |-> automationId[m]]]
              /\ Goto(w, IF customerId[m] = None THEN "send" ELSE "policy")
         ELSE Goto(w, "release") /\ UNCHANGED copy
    /\ UNCHANGED <<rowVars, refVars, log, tenantVars, candidates, batch, msg,
                   seenPolicy, historyVars>>

\* revalidateCustomerEligibility reads the company's policy first (a message whose
\* company is missing is cancelled, but there is none: nothing deletes a company, and
\* its messages would go with it) ...
ReadPolicy(w, r) ==
    /\ pc[w] = "policy"
    /\ Reply(r)
    /\ \/ /\ r = "ok"
          /\ seenPolicy' = [seenPolicy EXCEPT ![w] = policy]
          /\ Goto(w, "customer")
       \/ /\ r = "error"
          /\ Goto(w, "release")
          /\ UNCHANGED seenPolicy
    /\ UNCHANGED <<rowVars, refVars, log, tenantVars, candidates, batch, msg,
                   copy, historyVars>>

\* ... then the customer, and decides with both.
ReadCustomer(w, r) ==
    LET c == copy[w].customerId
        eligible == c \in customers /\ Eligible(c, seenPolicy[w])
    IN
    /\ pc[w] = "customer"
    /\ Reply(r)
    /\ \/ r = "ok" /\ Goto(w, IF eligible THEN "send" ELSE "cancel")
       \/ r = "error" /\ Goto(w, "release")
    /\ seenPolicy' = [seenPolicy EXCEPT ![w] = "BLOCK_UNKNOWN"]
    /\ UNCHANGED <<rowVars, refVars, log, tenantVars, candidates, batch, msg,
                   copy, historyVars>>

\* After a write of the worker on its message: a call that threw is caught in
\* acquireAndProcess, which releases the row.
AfterWrite(w, answered) ==
    IF answered
      THEN NextMessage(w)
      ELSE Goto(w, "release") /\ UNCHANGED <<msg, copy, barred>>

CancelMessage(w, r) ==
    LET m == msg[w] IN
    /\ pc[w] = "cancel"
    /\ Reply(r)
    /\ IF Owns(w, m) /\ r # "error"
         THEN Unlock(m, "CANCELLED")
         ELSE UNCHANGED <<status, lockedBy, lockExpired>>
    /\ AfterWrite(w, r = "ok")
    /\ UNCHANGED <<due, attempts, refVars, log, tenantVars, candidates, batch,
                   seenPolicy, calls, accepted, heard, interrupted>>

\* releaseAfterProcessingError: back to PENDING a minute from now, whatever the
\* number of attempts; its own failure is swallowed.
ReleaseAfterProcessingError(w, r) ==
    LET m == msg[w] IN
    /\ pc[w] = "release"
    /\ Reply(r)
    /\ IF Owns(w, m) /\ r # "error"
         THEN /\ Unlock(m, "PENDING")
              /\ due' = [due EXCEPT ![m] = FALSE]
              /\ interrupted' = [interrupted EXCEPT ![m] = @ \union {attempts[m]}]
         ELSE UNCHANGED <<status, lockedBy, lockExpired, due, interrupted>>
    /\ NextMessage(w)
    /\ UNCHANGED <<attempts, refVars, log, tenantVars, candidates, batch,
                   seenPolicy, calls, accepted, heard>>

------------------------------------------------------------------------------
(* processMessage: prepare, call the provider, record the result *)

\* Mutant of HandleProviderError: one attempt too many.
HandleProviderErrorOffByOne(w, retryable) ==
    Goto(w, IF retryable /\ copy[w].attempts <= MaxAttempts[msg[w]]
              THEN "retry" ELSE "fail")

\* handleProviderError: retry while attempts remain, with the number loaded.
HandleProviderError(w, retryable) ==
    Goto(w, IF retryable /\ copy[w].attempts < MaxAttempts[msg[w]]
              THEN "retry" ELSE "fail")

\* No channel, or a payload that cannot be sent: not retryable, no call made.
RejectMessage(w) ==
    /\ pc[w] = "send" /\ msg[w] \in UnroutedMessages
    /\ HandleProviderError(w, FALSE)
    /\ UNCHANGED <<rowVars, refVars, log, tenantVars, candidates, batch, msg,
                   copy, seenPolicy, historyVars, faults>>

\* The media asset does not resolve to a URL: retryable or not, no call made.
MediaUnresolved(w, retryable) ==
    /\ pc[w] = "send" /\ msg[w] \in MediaMessages \ UnroutedMessages
    /\ HandleProviderError(w, retryable)
    /\ UNCHANGED <<rowVars, refVars, log, tenantVars, candidates, batch, msg,
                   copy, seenPolicy, historyVars, faults>>

CallProvider(w) ==
    /\ pc[w] = "send" /\ msg[w] \notin UnroutedMessages
    /\ Goto(w, "calling")
    /\ calls' = [calls EXCEPT ![msg[w]] = @ \union {copy[w].attempts}]
    /\ UNCHANGED <<rowVars, refVars, log, tenantVars, candidates, batch, msg,
                   copy, seenPolicy, accepted, heard, interrupted, barred, faults>>

Accept(w) ==
    accepted' = [accepted EXCEPT ![msg[w]] = @ \union {copy[w].attempts}]

\* The provider accepts and the worker learns it.
ProviderAccepts(w) ==
    /\ pc[w] = "calling"
    /\ Accept(w)
    /\ heard' = [heard EXCEPT ![msg[w]] = @ \union {copy[w].attempts}]
    /\ Goto(w, "sent")
    /\ UNCHANGED <<rowVars, refVars, log, tenantVars, candidates, batch, msg,
                   copy, seenPolicy, calls, interrupted, barred, faults>>

\* The call ends in an error: a refusal, or a timeout or an unreadable answer
\* to a message that was accepted.
ProviderFails(w, retryable) ==
    /\ pc[w] = "calling"
    /\ Accept(w) \/ UNCHANGED accepted
    /\ HandleProviderError(w, retryable)
    /\ UNCHANGED <<rowVars, refVars, log, tenantVars, candidates, batch, msg,
                   copy, seenPolicy, calls, heard, interrupted, barred, faults>>

\* Mutant of RecordResult: the update and the log in two transactions.
RecordResultSplit(w, s, r) ==
    LET m == msg[w]
        insertable == ReferencesExist(w) /\ log[m] = "NONE"
    IN
    /\ Reply(r)
    /\ IF Owns(w, m) /\ r # "error"
         THEN /\ Unlock(m, s)
              /\ log' = IF insertable THEN [log EXCEPT ![m] = s] ELSE log
         ELSE UNCHANGED <<status, lockedBy, lockExpired, log>>
    /\ AfterWrite(w, r = "ok" /\ (Owns(w, m) => insertable))
    /\ UNCHANGED <<due, attempts, refVars, tenantVars, candidates, batch,
                   seenPolicy, calls, accepted, heard, interrupted>>

\* One transaction: the fenced update to s and the MessageLog that says so.
\* Nothing is written when the lock is lost, or the transaction fails.
RecordResult(w, s, r) ==
    LET m == msg[w]
        insertable == ReferencesExist(w) /\ log[m] = "NONE"
    IN
    /\ Reply(r)
    /\ IF Owns(w, m) /\ insertable /\ r # "error"
         THEN Unlock(m, s) /\ log' = [log EXCEPT ![m] = s]
         ELSE UNCHANGED <<status, lockedBy, lockExpired, log>>
    /\ AfterWrite(w, r = "ok" /\ (Owns(w, m) => insertable))
    /\ UNCHANGED <<due, attempts, refVars, tenantVars, candidates, batch,
                   seenPolicy, calls, accepted, heard, interrupted>>

MarkAsSent(w, r) == pc[w] = "sent" /\ RecordResult(w, "SENT", r)
MarkAsFailed(w, r) == pc[w] = "fail" /\ RecordResult(w, "FAILED", r)

\* Back to PENDING, available after the backoff.
ReleaseForRetry(w, r) ==
    LET m == msg[w] IN
    /\ pc[w] = "retry"
    /\ Reply(r)
    /\ IF Owns(w, m) /\ r # "error"
         THEN Unlock(m, "PENDING") /\ due' = [due EXCEPT ![m] = FALSE]
         ELSE UNCHANGED <<status, lockedBy, lockExpired, due>>
    /\ AfterWrite(w, r = "ok")
    /\ UNCHANGED <<attempts, refVars, log, tenantVars, candidates, batch,
                   seenPolicy, calls, accepted, heard, interrupted>>

\* The process dies and starts again: its memory is gone, the rows are not.
Crash(w) ==
    /\ pc[w] # "idle"
    /\ faults < MaxFaults
    /\ faults' = faults + 1
    /\ Goto(w, "idle")
    /\ candidates' = [candidates EXCEPT ![w] = {}]
    /\ batch' = [batch EXCEPT ![w] = {}]
    /\ msg' = [msg EXCEPT ![w] = None]
    /\ copy' = [copy EXCEPT ![w] = NoCopy]
    /\ barred' = barred \ {w}
    /\ seenPolicy' = [seenPolicy EXCEPT ![w] = "BLOCK_UNKNOWN"]
    /\ UNCHANGED <<rowVars, refVars, log, tenantVars, calls, accepted, heard,
                   interrupted>>

------------------------------------------------------------------------------
(* What the tenant does meanwhile *)

\* CustomerConsentService.updateConsent and the inbound opt-out commands.
UpdateConsent(c, s) ==
    /\ "consent" \in TenantOps
    /\ c \in customers
    /\ consent[c] # s
    /\ consent' = [consent EXCEPT ![c] = s]
    /\ barred' = IF s = "GRANTED" THEN {w \in barred : recipient[msg[w]] # c}
                                  ELSE barred
    /\ UNCHANGED <<rowVars, refVars, log, enabled, customers, automations,
                   policy, workerVars, calls, accepted, heard, interrupted, faults>>

ToggleAutomation(c) ==
    /\ "toggle" \in TenantOps
    /\ c \in customers
    /\ enabled' = IF c \in enabled THEN enabled \ {c} ELSE enabled \union {c}
    /\ UNCHANGED <<rowVars, refVars, log, consent, customers, automations,
                   policy, workerVars, historyVars, faults>>

SetPolicy(p) ==
    /\ "policy" \in TenantOps
    /\ policy' = p
    /\ UNCHANGED <<rowVars, refVars, log, consent, enabled, customers,
                   automations, workerVars, historyVars, faults>>

\* A customer with history cannot be deleted (RESTRICT); the queue's rows lose
\* their reference (SET NULL).
RemoveCustomer(c) ==
    /\ "removeCustomer" \in TenantOps
    /\ c \in customers
    /\ \A m \in Messages : customerId[m] = c => log[m] = "NONE"
    /\ customers' = customers \ {c}
    /\ customerId' = [m \in Messages |->
                        IF customerId[m] = c THEN None ELSE customerId[m]]
    /\ UNCHANGED <<rowVars, recipient, automationId, log, consent, enabled,
                   automations, policy, workerVars, historyVars, faults>>

\* An automation is deleted with its history.
RemoveAutomation(a) ==
    /\ "removeAutomation" \in TenantOps
    /\ a \in automations
    /\ automations' = automations \ {a}
    /\ log' = [m \in Messages |->
                 IF automationId[m] = a THEN "NONE" ELSE log[m]]
    /\ automationId' = [m \in Messages |->
                          IF automationId[m] = a THEN None ELSE automationId[m]]
    /\ UNCHANGED <<rowVars, recipient, customerId, consent, enabled, customers,
                   policy, workerVars, historyVars, faults>>

------------------------------------------------------------------------------
(* The specification *)

Pass(w) ==
    \E r \in Answers :
        \/ StartPass(w, r)
        \/ \E c \in candidates[w] : RecoverLock(w, c, r)
        \/ FindPending(w, r)
        \/ \E m \in batch[w] : Acquire(w, m, r)

Revalidate(w) ==
    \E r \in Answers :
        LoadMessage(w, r) \/ ReadPolicy(w, r) \/ ReadCustomer(w, r)

Deliver(w) ==
    \/ RejectMessage(w)
    \/ \E retryable \in BOOLEAN :
          MediaUnresolved(w, retryable) \/ ProviderFails(w, retryable)
    \/ CallProvider(w)
    \/ ProviderAccepts(w)

Write(w) ==
    \E r \in Answers :
        \/ CancelMessage(w, r)
        \/ MarkAsSent(w, r)
        \/ MarkAsFailed(w, r)
        \/ ReleaseForRetry(w, r)
        \/ ReleaseAfterProcessingError(w, r)

Worker(w) == Pass(w) \/ EndPass(w) \/ Revalidate(w) \/ Deliver(w) \/ Write(w)

Clock(m) == BecomesDue(m) \/ OrphanLockExpires(m)

Tenant ==
    \/ \E c \in Customers :
          \/ \E s \in {"GRANTED", "OPTED_OUT"} : UpdateConsent(c, s)
          \/ ToggleAutomation(c)
          \/ RemoveCustomer(c)
    \/ \E p \in Policies : SetPolicy(p)
    \/ \E a \in Automations : RemoveAutomation(a)

Next ==
    \/ \E m \in Messages, c \in Customers, a \in Automations : Enqueue(m, c, a)
    \/ \E m \in Messages : Clock(m) \/ LockExpiresInUse(m)
    \/ \E w \in Workers : Worker(w) \/ Crash(w)
    \/ Tenant

Spec == Init /\ [][Next]_vars

\* The cron ticks and every await returns (the HTTP clients have timeouts);
\* time passes. Nobody has to enqueue, and faults need not happen.
Fairness ==
    /\ \A w \in Workers : WF_vars(Worker(w))
    /\ \A m \in Messages : WF_vars(Clock(m))

FairSpec == Spec /\ Fairness

------------------------------------------------------------------------------
(* Properties *)

\* The history entry and the row tell the same result: an entry never exists
\* before its message is concluded nor contradicts it, and a message concluded
\* by a worker lacks its entry only when its automation was deleted
\* (markAsSent, markAsFailed, AutomationService.remove).
HistoryMatchesStatus ==
    \A m \in Messages :
        /\ log[m] # "NONE" => status[m] = log[m]
        /\ status[m] \in {"SENT", "FAILED"} /\ log[m] = "NONE"
             => automationId[m] = None

\* A message is SENT only when the provider accepted its latest attempt: a
\* worker whose lock was taken back never records its own late result.
SentIsBacked ==
    \A m \in Messages : status[m] = "SENT" => attempts[m] \in heard[m]

\* A message is CANCELLED only by an attempt that did not call the provider.
CancelledUncalled ==
    \A m \in Messages : status[m] = "CANCELLED" => attempts[m] \notin calls[m]

\* Attempts beyond maxAttempts exist, but each attempt from the last allowed one
\* on that is followed by another lost its lock, by expiry or by a processing
\* error: recoverExpiredLocks and releaseAfterProcessingError do not count.
OvertimeIsInterrupted ==
    \A m \in Messages : \A k \in MaxAttempts[m] .. attempts[m] - 1 :
        k \in interrupted[m]

\* The duplicate delivery of an at-least-once queue is explained: an attempt
\* known to have succeeded is followed by another one only when its lock was
\* taken back before the result was stored.
ResendIsInterrupted ==
    \A m \in Messages : \A k \in heard[m] :
        k < attempts[m] => k \in interrupted[m]

\* Customers that stay OPTED_OUT from the acquisition on are not sent to, unless
\* they were deleted: the row then has no customerId and nothing is revalidated.
OptOutRespected ==
    \A w \in Workers :
        pc[w] = "calling" /\ w \in barred => recipient[msg[w]] \notin customers

\* No attempt number reaches the provider twice, even when workers overlap on a
\* message: attempts is incremented with the lock and loaded under it.
OneCallPerAttempt ==
    [][\A w \in Workers :
          pc[w] = "send" /\ pc'[w] = "calling"
            => /\ copy[w].attempts \in 1 .. attempts[msg[w]]
               /\ copy[w].attempts \notin calls[msg[w]]]_vars

\* How often a row has changed its status, at least.
Age(m) ==
    CASE status[m] = "NONE" -> 0
      [] status[m] = "PENDING" -> 2 * attempts[m] + 1
      [] status[m] = "PROCESSING" -> 2 * attempts[m]
      [] status[m] \in Terminal -> 2 * attempts[m] + 2

\* A row never returns to a status with the attempts it had then: a worker that
\* was overtaken cannot take the row for the one it knows, and a conclusion is final.
RowProgress(m) ==
    \/ status'[m] = status[m] /\ attempts'[m] = attempts[m]
    \/ status[m] \notin Terminal /\ Age(m) < Age(m)'

RowsMoveForward == [][\A m \in Messages : RowProgress(m)]_vars

\* The awaits that are left of the message in hand, at most.
AwaitsLeft ==
    [load |-> 8, policy |-> 7, customer |-> 6, send |-> 5, calling |-> 4, cancel |-> 3,
     sent |-> 3, retry |-> 3, fail |-> 3, release |-> 2, batch |-> 1, recover |-> 0,
     idle |-> 0]

\* Every await of a pass that returns brings it closer to its end, whatever is
\* answered and whatever other workers do: isRunning does not stay set in a loop.
PassProgress(w) ==
    pc[w] # "idle" =>
        \/ pc'[w] = pc[w] /\ candidates'[w] = candidates[w] /\ batch'[w] = batch[w]
        \/ pc'[w] = "idle"
        \/ pc[w] = "recover" /\ pc'[w] = "batch"
        \/ /\ pc[w] = "recover" /\ pc'[w] = "recover"
           /\ candidates'[w] \subseteq candidates[w] /\ candidates'[w] # candidates[w]
        \/ /\ pc[w] # "recover" /\ pc'[w] # "recover"
           /\ \/ batch'[w] \subseteq batch[w] /\ batch'[w] # batch[w]
              \/ batch'[w] = batch[w] /\ AwaitsLeft[pc'[w]] < AwaitsLeft[pc[w]]

PassesEnd == [][\A w \in Workers : PassProgress(w)]_vars

\* The queue implements the promise made to its producers.
Delivery == INSTANCE MessageDelivery WITH
    outcome <- [m \in Messages |->
                  IF status[m] \in {"PENDING", "PROCESSING"} THEN "OPEN"
                                                          ELSE status[m]],
    accepted <- [m \in Messages |-> accepted[m] # {}],
    history <- log

ImplementsDelivery == Delivery!Spec

\* Every enqueued message is concluded, once faults stop, however the workers
\* interleave and the provider answers.
EventuallyConcluded ==
    \A m \in Messages : status[m] = "PENDING" ~> status[m] \in Terminal

------------------------------------------------------------------------------
(* The inductive invariant behind the safety properties *)

LoadedSteps == InHandSteps \ {"load", "release"}
UncalledSteps == {"policy", "customer", "cancel", "send"}

\* Rows: locked exactly while PROCESSING; the recorded attempts happened, and
\* an attempt that holds the lock or concluded the message was not interrupted.
RowsInv ==
    \A m \in Messages :
        /\ status[m] = "PROCESSING" <=> lockedBy[m] # None
        /\ status[m] = "NONE" => attempts[m] = 0
        /\ interrupted[m] \subseteq 1 .. attempts[m]
        /\ calls[m] \subseteq 1 .. attempts[m]
        /\ heard[m] \subseteq accepted[m] /\ accepted[m] \subseteq calls[m]
        /\ status[m] = "PROCESSING" => attempts[m] > 0
        /\ status[m] \in {"PROCESSING"} \union Terminal
             => attempts[m] \notin interrupted[m]

\* Workers: what a worker loaded is the current attempt while it owns the row
\* and an interrupted one afterwards.
HandsInv ==
    \A w \in Workers :
        /\ msg[w] # None => status[msg[w]] # "NONE"
        /\ pc[w] \in LoadedSteps =>
             /\ copy[w].attempts \in 1 .. attempts[msg[w]]
             /\ IF Owns(w, msg[w]) THEN copy[w].attempts = attempts[msg[w]]
                                   ELSE copy[w].attempts \in interrupted[msg[w]]

\* Two workers that loaded the same message did so under different attempts.
DistinctAttempts ==
    \A w, v \in Workers :
        w # v /\ pc[w] \in LoadedSteps /\ pc[v] \in LoadedSteps /\ msg[w] = msg[v]
          => copy[w].attempts # copy[v].attempts

\* How far the attempt in hand has come.
Progress(w) ==
    /\ pc[w] = "load" /\ Owns(w, msg[w]) => attempts[msg[w]] \notin calls[msg[w]]
    /\ pc[w] \in UncalledSteps => copy[w].attempts \notin calls[msg[w]]
    /\ pc[w] = "calling" => copy[w].attempts \in calls[msg[w]]
    /\ pc[w] = "sent" => copy[w].attempts \in heard[msg[w]]
    /\ pc[w] \in LoadedSteps \ {"sent"} => copy[w].attempts \notin heard[msg[w]]
    /\ pc[w] = "retry" => copy[w].attempts < MaxAttempts[msg[w]]

ProgressInv == \A w \in Workers : Progress(w)

\* A message waits for a further attempt only if attempts remain or the last
\* one was interrupted, and never after a success that was not.
PendingInv ==
    \A m \in Messages : status[m] = "PENDING" =>
        /\ \A k \in MaxAttempts[m] .. attempts[m] : k \in interrupted[m]
        /\ heard[m] \subseteq interrupted[m]

\* A row refers to its recipient until that customer is deleted.
RecipientInv ==
    \A m \in Messages : status[m] # "NONE" =>
        /\ recipient[m] \in Customers
        /\ customerId[m] \in {recipient[m], None}
        /\ customerId[m] = None => recipient[m] \notin customers

\* What a worker may still believe of a recipient that stays OPTED_OUT.
BarredInv ==
    \A w \in Workers :
        /\ w \in barred => msg[w] # None /\ consent[recipient[msg[w]]] = "OPTED_OUT"
        /\ pc[w] \in LoadedSteps => copy[w].customerId \in {recipient[msg[w]], None}
        /\ pc[w] \in {"policy", "customer"} => copy[w].customerId # None
        /\ pc[w] \in {"send", "calling"} /\ w \in barred
             => recipient[msg[w]] \notin customers

QueueInv ==
    /\ RowsInv /\ PendingInv /\ HistoryMatchesStatus /\ SentIsBacked
    /\ CancelledUncalled /\ OvertimeIsInterrupted /\ ResendIsInterrupted

IInv ==
    /\ TypeOK /\ QueueInv /\ RecipientInv
    /\ HandsInv /\ DistinctAttempts /\ ProgressInv /\ BarredInv

------------------------------------------------------------------------------
(* What the documentation promises and the code does not keep *)

\* README: "Ao atingir maxAttempts, a mensagem passa para FAILED": no message
\* is attempted more often than that.
AttemptsWithinLimit ==
    \A m \in Messages : attempts[m] <= MaxAttempts[m]

\* README: the worker revalidates consent immediately before the delivery and
\* OPTED_OUT is an absolute block.
OptOutAbsolute == \A w \in Workers : pc[w] = "calling" => w \notin barred
==============================================================================
