------------------------- MODULE OutboundQueueProofs -------------------------
(***************************************************************************)
(* Proofs about OutboundQueue, for any messages, customers, automations,   *)
(* workers, priorities, attempt limits, batch sizes and numbers of faults. *)
(*                                                                         *)
(* TypeStep keeps the types.  LetGo is the argument shared by all steps    *)
(* that end an attempt; one lemma per action shows that it preserves IInv, *)
(* and the safety properties are conjuncts or consequences of IInv.        *)
(***************************************************************************)
EXTENDS OutboundQueue, TLAPS

------------------------------------------------------------------------------
(* Types *)

\* The initial state has the types.
LEMMA TypeInit == Init => TypeOK
  BY DEF Init, TypeOK, RowTypes, RefTypes, TenantTypes, WorkerTypes, HistoryTypes,
     Steps, InHandSteps, Statuses, Consents, Policies, Copy, NoCopy

\* A worker that ends a write keeps its types: on to the next message, or to
\* releaseAfterProcessingError with the message still in hand.
LEMMA AfterWriteTypes ==
    ASSUME WorkerTypes, NEW w \in Workers, pc[w] \in InHandSteps,
           \/ NextMessage(w)
           \/ Goto(w, "release") /\ UNCHANGED <<msg, copy, barred>>,
           UNCHANGED <<candidates, batch, seenPolicy>>
    PROVE  WorkerTypes'
  <1>1. NoCopy \in Copy
    BY DEF NoCopy, Copy
  <1>2. copy' \in [Workers -> Copy]
    BY <1>1 DEF NextMessage, WorkerTypes
  <1>3. pc' \in [Workers -> Steps] /\ msg' \in [Workers -> Messages \union {None}]
    BY DEF NextMessage, Goto, WorkerTypes, Steps
  <1>4. \A v \in Workers : msg'[v] # None <=> pc'[v] \in InHandSteps
    BY SetsAssumption DEF NextMessage, Goto, WorkerTypes, InHandSteps
  <1>q. QED
    BY <1>2, <1>3, <1>4 DEF WorkerTypes

\* Every step keeps the types.
LEMMA TypeStep ==
    ASSUME TypeOK, [Next]_vars
    PROVE  TypeOK'
  <1> USE SetsAssumption DEF TypeOK
  <1>e. ASSUME NEW m \in Messages, NEW c \in Customers, NEW a \in Automations,
               Enqueue(m, c, a)
        PROVE  TypeOK'
    <2> USE <1>e DEF Enqueue
    <2>1. RowTypes'
      BY DEF RowTypes, Statuses
    <2>2. RefTypes'
      BY DEF RefTypes
    <2>3. TenantTypes' /\ WorkerTypes' /\ HistoryTypes'
      BY DEF tenantVars, workerVars, historyVars, TenantTypes, WorkerTypes, HistoryTypes
    <2>q. QED BY <2>1, <2>2, <2>3
  <1>t. ASSUME NEW m \in Messages, Clock(m) \/ LockExpiresInUse(m)
        PROVE  TypeOK'
    <2> USE <1>t DEF Clock, BecomesDue, OrphanLockExpires, LockExpiresInUse
    <2>1. RowTypes'
      BY DEF RowTypes
    <2>2. HistoryTypes'
      BY DEF HistoryTypes, historyVars
    <2>3. RefTypes' /\ TenantTypes' /\ WorkerTypes'
      BY DEF refVars, tenantVars, workerVars, RefTypes, TenantTypes, WorkerTypes
    <2>q. QED BY <2>1, <2>2, <2>3
  <1>s. ASSUME NEW w \in Workers, NEW r \in Answers, StartPass(w, r)
        PROVE  TypeOK'
    <2> USE <1>s DEF StartPass
    <2>0. HistoryTypes'
      BY DEF HistoryTypes, historyVars, Reply
    <2>1. WorkerTypes'
      <3>1. PICK C \in Take({m \in Messages : status[m] = "PROCESSING" /\ lockExpired[m]}, RecoveryBatch) :
          candidates' = [candidates EXCEPT ![w] =
                           IF r = "ok" THEN {<<m, attempts[m]>> : m \in C} ELSE {}]
         OBVIOUS
      <3>2. C \subseteq Messages
         BY DEF Take
      <3>3. {<<m, attempts[m]>> : m \in C} \subseteq Messages \X Nat
         BY <3>2 DEF RowTypes
      <3>4. candidates' \in [Workers -> SUBSET (Messages \X Nat)]
         BY <3>1, <3>3 DEF WorkerTypes
      <3>q. QED BY <3>4 DEF WorkerTypes, Goto, Steps, InHandSteps
    <2>2. RowTypes' /\ RefTypes' /\ TenantTypes'
      BY DEF rowVars, refVars, tenantVars, RowTypes, RefTypes, TenantTypes
    <2>q. QED BY <2>0, <2>1, <2>2
  <1>r. ASSUME NEW w \in Workers, NEW r \in Answers, NEW c \in candidates[w],
               RecoverLock(w, c, r)
        PROVE  TypeOK'
    <2> USE <1>r DEF RecoverLock, Unlock
    <2>0. c[1] \in Messages /\ c[2] \in Nat
      BY DEF WorkerTypes
    <2>1. RowTypes'
      BY <2>0 DEF RowTypes, Statuses, rowVars
    <2>2. WorkerTypes'
      BY <2>0 DEF WorkerTypes, Steps, InHandSteps, workerVars
    <2>3. HistoryTypes'
      BY <2>0 DEF HistoryTypes, historyVars, Reply
    <2>4. RefTypes' /\ TenantTypes'
      BY DEF RefTypes, refVars, TenantTypes, tenantVars
    <2>q. QED
      BY <2>1, <2>2, <2>3, <2>4
  <1>f. ASSUME NEW w \in Workers, NEW r \in Answers, FindPending(w, r)
        PROVE  TypeOK'
    <2> USE <1>f DEF FindPending, Goto
    <2>0. \A B \in Take(Selectable, BatchSize) : B \subseteq Messages
      BY DEF Take, Selectable
    <2>1. RowTypes'
      BY <2>0 DEF RowTypes, Statuses, rowVars
    <2>2. WorkerTypes'
      BY <2>0 DEF WorkerTypes, Steps, InHandSteps, workerVars
    <2>3. HistoryTypes'
      BY <2>0 DEF HistoryTypes, historyVars, Reply
    <2>4. RefTypes' /\ TenantTypes'
      BY DEF RefTypes, refVars, TenantTypes, tenantVars
    <2>q. QED
      BY <2>1, <2>2, <2>3, <2>4
  <1>a. ASSUME NEW w \in Workers, NEW r \in Answers, NEW m \in batch[w],
               Acquire(w, m, r)
        PROVE  TypeOK'
    <2> USE <1>a DEF Acquire, Goto, Selectable
    <2>0. m \in Messages
      BY DEF WorkerTypes
    <2>1. RowTypes'
      BY <2>0 DEF RowTypes, Statuses, rowVars
    <2>2. WorkerTypes'
      BY <2>0 DEF WorkerTypes, Steps, InHandSteps, workerVars
    <2>3. HistoryTypes'
      BY <2>0 DEF HistoryTypes, historyVars, Reply
    <2>4. RefTypes' /\ TenantTypes'
      BY DEF RefTypes, refVars, TenantTypes, tenantVars
    <2>q. QED
      BY <2>1, <2>2, <2>3, <2>4
  <1>p. ASSUME NEW w \in Workers, EndPass(w)
        PROVE  TypeOK'
    <2> USE <1>p DEF EndPass, Goto
    <2>1. RowTypes'
      BY DEF RowTypes, Statuses, rowVars
    <2>2. WorkerTypes'
      BY DEF WorkerTypes, Steps, InHandSteps, workerVars
    <2>3. HistoryTypes'
      BY DEF HistoryTypes, historyVars, Reply
    <2>4. RefTypes' /\ TenantTypes'
      BY DEF RefTypes, refVars, TenantTypes, tenantVars
    <2>q. QED
      BY <2>1, <2>2, <2>3, <2>4
  <1>l. ASSUME NEW w \in Workers, NEW r \in Answers, LoadMessage(w, r)
        PROVE  TypeOK'
    <2> USE <1>l DEF LoadMessage, Goto
    <2> DEFINE m == msg[w]
               row == [attempts |-> attempts[m], customerId |-> customerId[m],
                       automationId |-> automationId[m]]
    <2>1. row \in Copy
      BY DEF WorkerTypes, InHandSteps, RowTypes, RefTypes, Copy
    <2>2. copy' \in [Workers -> Copy]
      BY <2>1 DEF WorkerTypes
    <2>3. WorkerTypes'
      BY <2>2 DEF WorkerTypes, Steps, InHandSteps
    <2>4. HistoryTypes'
      BY DEF HistoryTypes, historyVars, Reply
    <2>5. RowTypes' /\ RefTypes' /\ TenantTypes'
      BY DEF rowVars, refVars, tenantVars, RowTypes, RefTypes, TenantTypes
    <2>q. QED
      BY <2>3, <2>4, <2>5
  <1>v. ASSUME NEW w \in Workers, NEW r \in Answers, ReadPolicy(w, r) \/ ReadCustomer(w, r)
        PROVE  TypeOK'
    <2> USE <1>v DEF ReadPolicy, ReadCustomer, Goto
    <2>1. RowTypes'
      BY DEF RowTypes, Statuses, rowVars
    <2>2. WorkerTypes'
      BY DEF WorkerTypes, TenantTypes, Policies, Steps, InHandSteps, workerVars
    <2>3. HistoryTypes'
      BY DEF HistoryTypes, historyVars, Reply
    <2>4. RefTypes' /\ TenantTypes'
      BY DEF RefTypes, refVars, TenantTypes, tenantVars
    <2>q. QED
      BY <2>1, <2>2, <2>3, <2>4
  <1>c. ASSUME NEW w \in Workers, NEW r \in Answers, CancelMessage(w, r)
        PROVE  TypeOK'
    <2> USE <1>c DEF CancelMessage, AfterWrite, Unlock
    <2>0. msg[w] \in Messages /\ copy[w].attempts \in Nat
      BY DEF WorkerTypes, InHandSteps, Copy
    <2>1. RowTypes'
      BY <2>0 DEF RowTypes, Statuses, rowVars
    <2>2. WorkerTypes'
      BY AfterWriteTypes DEF InHandSteps, workerVars
    <2>3. HistoryTypes'
      BY <2>0 DEF HistoryTypes, NextMessage, Reply
    <2>4. RefTypes' /\ TenantTypes'
      BY DEF RefTypes, refVars, TenantTypes, tenantVars
    <2>q. QED
      BY <2>1, <2>2, <2>3, <2>4
  <1>x. ASSUME NEW w \in Workers, NEW r \in Answers, ReleaseAfterProcessingError(w, r)
        PROVE  TypeOK'
    <2> USE <1>x DEF ReleaseAfterProcessingError, Unlock
    <2>0. msg[w] \in Messages /\ copy[w].attempts \in Nat
      BY DEF WorkerTypes, InHandSteps, Copy
    <2>1. RowTypes'
      BY <2>0 DEF RowTypes, Statuses, rowVars
    <2>2. WorkerTypes'
      BY AfterWriteTypes DEF InHandSteps, workerVars
    <2>3. HistoryTypes'
      BY <2>0 DEF RowTypes, HistoryTypes, NextMessage, Reply
    <2>4. RefTypes' /\ TenantTypes'
      BY DEF RefTypes, refVars, TenantTypes, tenantVars
    <2>q. QED
      BY <2>1, <2>2, <2>3, <2>4
  <1>j. ASSUME NEW w \in Workers, NEW retryable \in BOOLEAN,
               RejectMessage(w) \/ MediaUnresolved(w, retryable)
        PROVE  TypeOK'
    <2> USE <1>j DEF RejectMessage, MediaUnresolved, HandleProviderError, Goto
    <2>1. RowTypes'
      BY DEF RowTypes, Statuses, rowVars
    <2>2. WorkerTypes'
      BY DEF WorkerTypes, Steps, InHandSteps, workerVars
    <2>3. HistoryTypes'
      BY DEF HistoryTypes, historyVars, Reply
    <2>4. RefTypes' /\ TenantTypes'
      BY DEF RefTypes, refVars, TenantTypes, tenantVars
    <2>q. QED
      BY <2>1, <2>2, <2>3, <2>4
  <1>k. ASSUME NEW w \in Workers, CallProvider(w)
        PROVE  TypeOK'
    <2> USE <1>k DEF CallProvider, Goto
    <2>0. msg[w] \in Messages /\ copy[w].attempts \in Nat
      BY DEF WorkerTypes, InHandSteps, Copy
    <2>1. RowTypes'
      BY <2>0 DEF RowTypes, Statuses, rowVars
    <2>2. WorkerTypes'
      BY <2>0 DEF WorkerTypes, Steps, InHandSteps, workerVars
    <2>3. HistoryTypes'
      BY <2>0 DEF HistoryTypes, historyVars, Reply
    <2>4. RefTypes' /\ TenantTypes'
      BY DEF RefTypes, refVars, TenantTypes, tenantVars
    <2>q. QED
      BY <2>1, <2>2, <2>3, <2>4
  <1>h. ASSUME NEW w \in Workers, ProviderAccepts(w)
        PROVE  TypeOK'
    <2> USE <1>h DEF ProviderAccepts, Accept, Goto
    <2>0. msg[w] \in Messages /\ copy[w].attempts \in Nat
      BY DEF WorkerTypes, InHandSteps, Copy
    <2>1. RowTypes'
      BY <2>0 DEF RowTypes, Statuses, rowVars
    <2>2. WorkerTypes'
      BY <2>0 DEF WorkerTypes, Steps, InHandSteps, workerVars
    <2>3. HistoryTypes'
      BY <2>0 DEF HistoryTypes, historyVars, Reply
    <2>4. RefTypes' /\ TenantTypes'
      BY DEF RefTypes, refVars, TenantTypes, tenantVars
    <2>q. QED
      BY <2>1, <2>2, <2>3, <2>4
  <1>i. ASSUME NEW w \in Workers, NEW retryable \in BOOLEAN, ProviderFails(w, retryable)
        PROVE  TypeOK'
    <2> USE <1>i DEF ProviderFails, Accept, HandleProviderError, Goto
    <2>0. msg[w] \in Messages /\ copy[w].attempts \in Nat
      BY DEF WorkerTypes, InHandSteps, Copy
    <2>1. RowTypes'
      BY <2>0 DEF RowTypes, Statuses, rowVars
    <2>2. WorkerTypes'
      BY <2>0 DEF WorkerTypes, Steps, InHandSteps, workerVars
    <2>3. HistoryTypes'
      BY <2>0 DEF HistoryTypes, historyVars, Reply
    <2>4. RefTypes' /\ TenantTypes'
      BY DEF RefTypes, refVars, TenantTypes, tenantVars
    <2>q. QED
      BY <2>1, <2>2, <2>3, <2>4
  <1>m. ASSUME NEW w \in Workers, NEW r \in Answers, NEW s \in {"SENT", "FAILED"},
               pc[w] \in {"sent", "fail"}, RecordResult(w, s, r)
        PROVE  TypeOK'
    <2>0. msg[w] \in Messages /\ copy[w].attempts \in Nat
      BY <1>m DEF WorkerTypes, InHandSteps, Copy
    <2>a. /\ UNCHANGED <<due, attempts>>
          /\ \/ Unlock(msg[w], s) /\ log' = [log EXCEPT ![msg[w]] = s]
             \/ UNCHANGED <<status, lockedBy, lockExpired, log>>
      BY <1>m DEF RecordResult
    <2>1. RowTypes'
      <3>1. CASE /\ Unlock(msg[w], s)
                 /\ log' = [log EXCEPT ![msg[w]] = s]
        BY <1>m, <2>0, <2>a, <3>1 DEF RowTypes, Statuses, Unlock
      <3>2. CASE UNCHANGED <<status, lockedBy, lockExpired, log>>
        BY <2>a, <3>2 DEF RowTypes
      <3>q. QED
        BY <2>a, <3>1, <3>2
    <2>2. WorkerTypes'
      BY <1>m, AfterWriteTypes DEF RecordResult, AfterWrite, InHandSteps
    <2>3. HistoryTypes'
      BY <1>m DEF RecordResult, AfterWrite, HistoryTypes, NextMessage, Reply
    <2>4. RefTypes' /\ TenantTypes'
      BY <1>m DEF RecordResult, RefTypes, refVars, TenantTypes, tenantVars
    <2>q. QED
      BY <2>1, <2>2, <2>3, <2>4
  <1>b. ASSUME NEW w \in Workers, NEW r \in Answers, ReleaseForRetry(w, r)
        PROVE  TypeOK'
    <2> USE <1>b DEF ReleaseForRetry, AfterWrite, Unlock
    <2>0. msg[w] \in Messages /\ copy[w].attempts \in Nat
      BY DEF WorkerTypes, InHandSteps, Copy
    <2>1. RowTypes'
      BY <2>0 DEF RowTypes, Statuses, rowVars
    <2>2. WorkerTypes'
      BY AfterWriteTypes DEF InHandSteps, workerVars
    <2>3. HistoryTypes'
      BY <2>0 DEF HistoryTypes, NextMessage, Reply
    <2>4. RefTypes' /\ TenantTypes'
      BY DEF RefTypes, refVars, TenantTypes, tenantVars
    <2>q. QED
      BY <2>1, <2>2, <2>3, <2>4
  <1>d. ASSUME NEW w \in Workers, Crash(w)
        PROVE  TypeOK'
    <2> USE <1>d DEF Crash, Goto
    <2>1. RowTypes'
      BY DEF RowTypes, Statuses, rowVars
    <2>2. WorkerTypes'
      BY DEF WorkerTypes, Copy, NoCopy, Steps, Policies, InHandSteps, workerVars
    <2>3. HistoryTypes'
      BY DEF HistoryTypes, historyVars, Reply
    <2>4. RefTypes' /\ TenantTypes'
      BY DEF RefTypes, refVars, TenantTypes, tenantVars
    <2>q. QED
      BY <2>1, <2>2, <2>3, <2>4
  <1>u. CASE Tenant
    <2> USE <1>u DEF Tenant, UpdateConsent, ToggleAutomation, SetPolicy,
            RemoveCustomer, RemoveAutomation
    <2>1. RowTypes'
      BY DEF RowTypes, rowVars
    <2>2. WorkerTypes'
      BY DEF WorkerTypes, workerVars
    <2>3. HistoryTypes'
      BY DEF HistoryTypes, historyVars
    <2>4. RefTypes'
      BY DEF RefTypes, refVars
    <2>5. TenantTypes'
      BY DEF TenantTypes, Consents
    <2>q. QED
      BY <2>1, <2>2, <2>3, <2>4, <2>5
  <1>n. CASE UNCHANGED vars
    BY <1>n DEF vars, rowVars, refVars, tenantVars, workerVars, historyVars,
       RowTypes, RefTypes, TenantTypes, WorkerTypes, HistoryTypes
  <1>q. QED
    BY <1>e, <1>t, <1>s, <1>r, <1>f, <1>a, <1>p, <1>l, <1>v, <1>c, <1>x, <1>j,
       <1>k, <1>h, <1>i, <1>m, <1>b, <1>d, <1>u, <1>n
       DEF Next, Worker, Pass, Revalidate, Deliver, Write, MarkAsSent, MarkAsFailed

------------------------------------------------------------------------------
(* What the steps that move a lock do to the rows *)

\* An attempt that succeeded, or that was the last allowed one or later, was
\* interrupted unless it is the latest attempt.
LEMMA UpToLast ==
    ASSUME IInv, NEW m \in Messages
    PROVE  /\ \A k \in heard[m] : k = attempts[m] \/ k \in interrupted[m]
           /\ \A k \in MaxAttempts[m] .. attempts[m] :
                k = attempts[m] \/ k \in interrupted[m]
  <1>1. attempts[m] \in Nat /\ MaxAttempts[m] \in Nat
    BY ColumnsAssumption DEF IInv, TypeOK, RowTypes
  <1>2. heard[m] \subseteq 1 .. attempts[m]
    BY DEF IInv, QueueInv, RowsInv
  <1>3. \A k \in heard[m] : k < attempts[m] => k \in interrupted[m]
    BY DEF IInv, QueueInv, ResendIsInterrupted
  <1>4. \A k \in MaxAttempts[m] .. attempts[m] - 1 : k \in interrupted[m]
    BY DEF IInv, QueueInv, OvertimeIsInterrupted
  <1>q. QED
    BY <1>1, <1>2, <1>3, <1>4

\* One attempt more for m and a worker that holds its lock, or nothing happens.
LEMMA AcquireEffect ==
    ASSUME IInv, NEW w \in Workers, NEW r \in Answers, NEW m \in batch[w],
           Acquire(w, m, r)
    PROVE  /\ m \in Messages
           /\ \A n \in Messages :
                \/ status'[n] = status[n] /\ lockedBy'[n] = lockedBy[n]
                   /\ attempts'[n] = attempts[n]
                \/ /\ n = m /\ status[m] = "PENDING" /\ status'[m] = "PROCESSING"
                   /\ lockedBy'[m] = w /\ attempts'[m] = attempts[m] + 1
           /\ \A v \in Workers \ {w} : pc'[v] = pc[v] /\ msg'[v] = msg[v]
           /\ \/ pc'[w] = "batch"
              \/ pc'[w] = "load" /\ msg'[w] = m /\ attempts'[m] = attempts[m] + 1
           /\ UNCHANGED <<copy, calls, accepted, heard, interrupted>>
  <1>1. m \in Messages /\ attempts[m] \in Nat
    BY DEF IInv, TypeOK, WorkerTypes, RowTypes
  <1>2. \A n \in Messages :
                \/ status'[n] = status[n] /\ lockedBy'[n] = lockedBy[n]
                   /\ attempts'[n] = attempts[n]
                \/ /\ n = m /\ status[m] = "PENDING" /\ status'[m] = "PROCESSING"
                   /\ lockedBy'[m] = w /\ attempts'[m] = attempts[m] + 1
    BY <1>1 DEF Acquire, Selectable, IInv, TypeOK, RowTypes
  <1>3. /\ \A v \in Workers \ {w} : pc'[v] = pc[v] /\ msg'[v] = msg[v]
        /\ \/ pc'[w] = "batch"
           \/ pc'[w] = "load" /\ msg'[w] = m /\ attempts'[m] = attempts[m] + 1
    BY <1>1 DEF Acquire, Goto, Selectable, IInv, TypeOK, RowTypes, WorkerTypes
  <1>q. QED
    BY <1>1, <1>2, <1>3 DEF Acquire

\* The lock of m is taken back from its attempt, or nothing happens to m.
LEMMA RecoverEffect ==
    ASSUME IInv, NEW w \in Workers, NEW r \in Answers, NEW c \in candidates[w],
           RecoverLock(w, c, r)
    PROVE  /\ c[1] \in Messages
           /\ \A n \in Messages :
                \/ status'[n] = status[n] /\ lockedBy'[n] = lockedBy[n]
                   /\ interrupted'[n] = interrupted[n]
                \/ /\ n = c[1] /\ status[n] = "PROCESSING" /\ status'[n] = "PENDING"
                   /\ lockedBy'[n] = None
                   /\ interrupted'[n] = interrupted[n] \union {attempts[n]}
           /\ UNCHANGED <<attempts, pc, msg, copy, calls, accepted, heard>>
  <1>1. c[1] \in Messages
    BY DEF IInv, TypeOK, WorkerTypes
  <1>2. \A n \in Messages :
                \/ status'[n] = status[n] /\ lockedBy'[n] = lockedBy[n]
                   /\ interrupted'[n] = interrupted[n]
                \/ /\ n = c[1] /\ status[n] = "PROCESSING" /\ status'[n] = "PENDING"
                   /\ lockedBy'[n] = None
                   /\ interrupted'[n] = interrupted[n] \union {attempts[n]}
    BY <1>1 DEF RecoverLock, StillExpired, Unlock, IInv, TypeOK, RowTypes, HistoryTypes
  <1>q. QED
    BY <1>1, <1>2 DEF RecoverLock

------------------------------------------------------------------------------
(* Two frames: the queue is untouched; a worker lets go of its message *)

\* Rows, references and history that a step leaves alone stay consistent.
LEMMA QueueKept ==
    ASSUME IInv, UNCHANGED <<status, lockedBy, attempts, recipient, customerId,
                             automationId, log, customers, calls, accepted, heard,
                             interrupted>>
    PROVE  (QueueInv /\ RecipientInv)'
  BY DEF IInv, QueueInv, RowsInv, PendingInv, HistoryMatchesStatus, SentIsBacked,
     CancelledUncalled, OvertimeIsInterrupted, ResendIsInterrupted, RecipientInv

\* Facts about the row m and the worker v that most steps leave alone.
RowKept(m) ==
    /\ status'[m] = status[m] /\ lockedBy'[m] = lockedBy[m]
    /\ interrupted'[m] = interrupted[m]
WorkerKept(v) == pc'[v] = pc[v] /\ msg'[v] = msg[v] /\ copy'[v] = copy[v]

\* The end of a write or of a pass: w no longer relies on the copy it loaded. It
\* may have settled the row in hand under its own lock, with no attempt of
\* another worker forgotten. All that depends on copies is preserved.
LEMMA LetGo ==
    ASSUME IInv, TypeOK', NEW w \in Workers,
           UNCHANGED <<attempts, recipient, customerId, consent, customers, calls,
                       accepted, heard>>,
           \A n \in Messages :
             \/ RowKept(n)
             \/ /\ n = msg[w] /\ Owns(w, n) /\ lockedBy'[n] = None
                /\ \/ status'[n] = "PENDING"
                      /\ interrupted'[n] \in {interrupted[n],
                                              interrupted[n] \union {attempts[n]}}
                   \/ status'[n] \in Terminal /\ interrupted'[n] = interrupted[n],
           \A v \in Workers \ {w} : WorkerKept(v),
           \/ pc'[w] \notin InHandSteps /\ w \notin barred'
           \/ pc'[w] = "release" /\ msg[w] # None /\ msg'[w] = msg[w],
           barred' \subseteq barred
    PROVE  (/\ RowsInv /\ OvertimeIsInterrupted /\ ResendIsInterrupted /\ RecipientInv
            /\ HandsInv /\ DistinctAttempts /\ ProgressInv /\ BarredInv)'
  <1> USE SetsAssumption, ColumnsAssumption DEF QueueInv, RowKept, WorkerKept
  <1>0. /\ \A n \in Messages : attempts[n] \in Nat /\ MaxAttempts[n] \in Nat \ {0}
        /\ \A n \in Messages : interrupted[n] \subseteq interrupted'[n]
        /\ \A n \in Messages : status[n] = "NONE" <=> status'[n] = "NONE"
        /\ \A v \in Workers : msg[v] # None => msg[v] \in Messages
        /\ \A v \in Workers : pc[v] \in InHandSteps => msg[v] # None
        /\ \A v \in Workers : msg'[v] # None <=> pc'[v] \in InHandSteps
    BY DEF IInv, TypeOK, RowTypes, WorkerTypes, Owns, Terminal
  <1>1. RowsInv'
    BY <1>0 DEF IInv, RowsInv, Owns, Terminal
  <1>2. OvertimeIsInterrupted' /\ ResendIsInterrupted'
    BY <1>0 DEF IInv, OvertimeIsInterrupted, ResendIsInterrupted
  <1>3. RecipientInv'
    BY <1>0 DEF IInv, RecipientInv
  <1>4. HandsInv'
    <2>1. ASSUME NEW v \in Workers, pc'[v] \in LoadedSteps
          PROVE  /\ copy'[v].attempts \in 1 .. attempts[msg'[v]]
                 /\ IF Owns(v, msg[v])' THEN copy'[v].attempts = attempts[msg'[v]]
                                ELSE copy'[v].attempts \in interrupted'[msg'[v]]
      <3>1. v # w /\ pc[v] \in LoadedSteps /\ msg[v] \in Messages
        BY <1>0, <2>1 DEF LoadedSteps, InHandSteps
      <3>2. Owns(v, msg[v])' => Owns(v, msg[v])
        BY <3>1 DEF Owns, Terminal
      <3>3. ~Owns(v, msg[v])' /\ Owns(v, msg[v]) => FALSE
        BY <2>1, <3>1 DEF Owns
      <3>q. QED
        BY <1>0, <2>1, <3>1, <3>2, <3>3 DEF IInv, HandsInv, Owns
    <2>2. \A v \in Workers : msg'[v] # None => msg'[v] = msg[v] /\ msg[v] \in Messages
      BY <1>0 DEF InHandSteps
    <2>q. QED
      BY <1>0, <2>1, <2>2 DEF IInv, HandsInv
  <1>5. \A v \in Workers : pc'[v] \in LoadedSteps =>
          v # w /\ pc[v] \in LoadedSteps /\ msg'[v] = msg[v] /\ copy'[v] = copy[v]
    BY DEF LoadedSteps, InHandSteps
  <1>6. DistinctAttempts'
    BY <1>5 DEF IInv, DistinctAttempts
  <1>7. ASSUME NEW v \in Workers
        PROVE  Progress(v)'
    <2>1. Progress(v)
      BY <1>7 DEF IInv, ProgressInv
    <2>2. CASE v = w
      BY <2>2 DEF Progress, LoadedSteps, UncalledSteps, InHandSteps
    <2>3. CASE v # w
      <3>1. pc[v] = "load" /\ Owns(v, msg[v])' => Owns(v, msg[v])
        BY <1>0, <1>7, <2>3 DEF Owns, Terminal, InHandSteps
      <3>q. QED
        BY <1>7, <2>1, <2>3, <3>1 DEF Progress
    <2>q. QED
      BY <2>2, <2>3
  <1>8. BarredInv'
    BY <1>0 DEF IInv, BarredInv, LoadedSteps, InHandSteps
  <1>q. QED
    BY <1>1, <1>2, <1>3, <1>4, <1>6, <1>7, <1>8 DEF ProgressInv

------------------------------------------------------------------------------
(* One lemma per action, or per group of actions with the same argument *)

\* A new row is PENDING, unlocked, with no attempt.
LEMMA EnqueueStep ==
    ASSUME IInv, TypeOK', NEW m \in Messages, NEW c \in Customers,
           NEW a \in Automations, Enqueue(m, c, a)
    PROVE  IInv'
  <1> USE SetsAssumption, ColumnsAssumption DEF QueueInv
  <1>1. RowsInv' /\ HistoryMatchesStatus' /\ SentIsBacked' /\ CancelledUncalled'
    BY DEF Enqueue, historyVars, IInv, TypeOK, RowTypes, HistoryTypes, RowsInv,
       HistoryMatchesStatus, SentIsBacked, CancelledUncalled, Terminal
  <1>2. OvertimeIsInterrupted' /\ ResendIsInterrupted'
    BY DEF Enqueue, historyVars, IInv, OvertimeIsInterrupted, ResendIsInterrupted
  <1>3. PendingInv'
    <2>1. \A n \in Messages : status'[n] = "PENDING" =>
             status[n] = "PENDING" \/ (n = m /\ status[m] = "NONE")
      BY DEF Enqueue, IInv, TypeOK, RowTypes
    <2>2. status[m] = "NONE" =>
             heard[m] = {} /\ MaxAttempts[m] .. attempts[m] = {}
      BY DEF IInv, RowsInv
    <2>q. QED
      BY <2>1, <2>2 DEF Enqueue, historyVars, IInv, PendingInv
  <1>4. RecipientInv'
    BY DEF Enqueue, tenantVars, IInv, TypeOK, RowTypes, RefTypes, RecipientInv
  <1>5. HandsInv' /\ DistinctAttempts'
    BY DEF Enqueue, workerVars, historyVars, IInv, TypeOK, RowTypes, WorkerTypes,
       HandsInv, DistinctAttempts, LoadedSteps, InHandSteps, Owns
  <1>6. ProgressInv'
    BY DEF Enqueue, workerVars, historyVars, IInv, TypeOK, RowTypes, WorkerTypes,
       ProgressInv, Progress, LoadedSteps, UncalledSteps, InHandSteps, Owns
  <1>7. BarredInv'
    BY DEF Enqueue, tenantVars, workerVars, historyVars, IInv, TypeOK, RefTypes,
       WorkerTypes, HandsInv, BarredInv, LoadedSteps, InHandSteps
  <1>q. QED
    BY <1>1, <1>2, <1>3, <1>4, <1>5, <1>6, <1>7 DEF IInv

\* Only due and lockExpired change, which no part of the invariant reads.
LEMMA ClockStep ==
    ASSUME IInv, TypeOK', NEW m \in Messages, Clock(m) \/ LockExpiresInUse(m)
    PROVE  IInv'
  <1> USE DEF Clock, BecomesDue, OrphanLockExpires, LockExpiresInUse
  <1>1. (QueueInv /\ RecipientInv)'
    BY QueueKept DEF refVars, tenantVars, historyVars
  <1>2. (HandsInv /\ DistinctAttempts /\ ProgressInv /\ BarredInv)'
    BY DEF refVars, tenantVars, workerVars, historyVars, IInv, HandsInv,
       DistinctAttempts, ProgressInv, Progress, BarredInv, Owns
  <1>q. QED
    BY <1>1, <1>2 DEF IInv

\* Steps of a worker that has no message in hand afterwards and wrote nothing.
LEMMA IdleStep ==
    ASSUME IInv, TypeOK', NEW w \in Workers,
           \/ \E r \in Answers : StartPass(w, r) \/ FindPending(w, r)
           \/ EndPass(w) \/ Crash(w)
    PROVE  IInv'
  <1> USE DEF StartPass, FindPending, EndPass, Crash
  <1>1. UNCHANGED <<status, lockedBy, attempts, recipient, customerId, automationId,
                    log, consent, customers, calls, accepted, heard, interrupted>>
    BY DEF rowVars, refVars, tenantVars, historyVars
  <1>2. pc'[w] \notin InHandSteps /\ w \notin barred' /\ barred' \subseteq barred
    BY DEF Goto, historyVars, IInv, TypeOK, WorkerTypes, BarredInv, InHandSteps
  <1>3. \A v \in Workers \ {w} : WorkerKept(v)
    BY DEF Goto, IInv, TypeOK, WorkerTypes, WorkerKept
  <1>4. (QueueInv /\ RecipientInv)'
    BY <1>1, QueueKept
  <1>5. (HandsInv /\ DistinctAttempts /\ ProgressInv /\ BarredInv)'
    BY <1>1, <1>2, <1>3, LetGo DEF RowKept
  <1>q. QED
    BY <1>4, <1>5 DEF IInv

\* An expired lock is taken back: its attempt becomes an interrupted one.
LEMMA RecoverLockStep ==
    ASSUME IInv, TypeOK', NEW w \in Workers, NEW r \in Answers,
           NEW c \in candidates[w], RecoverLock(w, c, r)
    PROVE  IInv'
  <1> USE DEF QueueInv
  <1>1. RowsInv'
    BY RecoverEffect, SetsAssumption DEF IInv, TypeOK, RowTypes, RowsInv, Terminal
  <1>2. PendingInv'
    BY RecoverEffect, UpToLast DEF IInv, PendingInv
  <1>3. SentIsBacked' /\ CancelledUncalled'
    BY RecoverEffect DEF IInv, SentIsBacked, CancelledUncalled
  <1>4. OvertimeIsInterrupted' /\ ResendIsInterrupted'
    BY RecoverEffect DEF IInv, OvertimeIsInterrupted, ResendIsInterrupted
  <1>5. HistoryMatchesStatus' /\ RecipientInv'
    BY RecoverEffect
       DEF RecoverLock, refVars, tenantVars, IInv, TypeOK, RowTypes,
           HistoryMatchesStatus, RecipientInv
  <1>6. HandsInv'
    <2>1. ASSUME NEW v \in Workers, pc[v] \in LoadedSteps
          PROVE  IF Owns(v, msg[v])' THEN copy[v].attempts = attempts[msg[v]]
                                     ELSE copy[v].attempts \in interrupted'[msg[v]]
      <3>1. msg[v] \in Messages
        BY <2>1 DEF IInv, TypeOK, WorkerTypes, LoadedSteps
      <3>q. QED
        BY <2>1, <3>1, RecoverEffect DEF Owns, IInv, HandsInv
    <2>2. \A v \in Workers : msg[v] # None => msg[v] \in Messages
      BY DEF IInv, TypeOK, WorkerTypes
    <2>q. QED
      BY <2>1, <2>2, RecoverEffect DEF IInv, HandsInv, Owns
  <1>7. DistinctAttempts'
    BY RecoverEffect DEF IInv, DistinctAttempts
  <1>8. ProgressInv'
    <2>1. ASSUME NEW v \in Workers
          PROVE  Progress(v)'
      <3>1. pc[v] = "load" /\ Owns(v, msg[v])' => Owns(v, msg[v])
        BY <2>1, RecoverEffect DEF IInv, TypeOK, WorkerTypes, InHandSteps, Owns
      <3>q. QED
        BY <2>1, <3>1, RecoverEffect DEF IInv, ProgressInv, Progress
    <2>q. QED
      BY <2>1 DEF ProgressInv
  <1>9. BarredInv'
    BY RecoverEffect DEF RecoverLock, refVars, tenantVars, IInv, BarredInv
  <1>q. QED
    BY <1>1, <1>2, <1>3, <1>4, <1>5, <1>6, <1>7, <1>8, <1>9 DEF IInv

\* A further attempt starts, under the lock of this worker.
LEMMA AcquireStep ==
    ASSUME IInv, TypeOK', NEW w \in Workers, NEW r \in Answers, NEW m \in batch[w],
           Acquire(w, m, r)
    PROVE  IInv'
  <1> USE SetsAssumption, ColumnsAssumption DEF QueueInv
  <1>0. \A n \in Messages : attempts[n] \in Nat /\ MaxAttempts[n] \in Nat
    BY DEF IInv, TypeOK, RowTypes
  <1>1. RowsInv'
    BY <1>0, AcquireEffect DEF IInv, RowsInv, Terminal
  <1>2. PendingInv' /\ CancelledUncalled' /\ SentIsBacked'
    BY AcquireEffect DEF IInv, PendingInv, CancelledUncalled, SentIsBacked
  <1>3. OvertimeIsInterrupted'
    BY <1>0, AcquireEffect DEF IInv, PendingInv, OvertimeIsInterrupted
  <1>4. ResendIsInterrupted'
    BY <1>0, AcquireEffect DEF IInv, PendingInv, ResendIsInterrupted, RowsInv
  <1>5. HistoryMatchesStatus' /\ RecipientInv'
    <2>1. UNCHANGED <<log, recipient, customerId, automationId, customers>>
      BY DEF Acquire, refVars, tenantVars
    <2>2. log[m] \in {"NONE", "SENT", "FAILED"}
      BY AcquireEffect DEF IInv, TypeOK, RowTypes
    <2>3. HistoryMatchesStatus'
      BY <2>1, <2>2, AcquireEffect DEF IInv, HistoryMatchesStatus
    <2>q. QED
      BY <2>1, <2>3, AcquireEffect DEF IInv, RecipientInv
  <1>6. HandsInv'
    <2>1. \A v \in Workers : msg[v] # None => msg[v] \in Messages
      BY DEF IInv, TypeOK, WorkerTypes
    <2>2. \A v \in Workers : pc[v] \in LoadedSteps => msg[v] # None
      BY DEF IInv, TypeOK, WorkerTypes, LoadedSteps
    <2>3. pc'[w] = "load" \/ msg'[w] = None
      BY AcquireEffect DEF IInv, TypeOK, WorkerTypes, InHandSteps
    <2>q. QED
      BY <1>0, <2>1, <2>2, <2>3, AcquireEffect
         DEF IInv, HandsInv, LoadedSteps, InHandSteps, Owns
  <1>7. DistinctAttempts'
    BY AcquireEffect DEF IInv, DistinctAttempts, LoadedSteps, InHandSteps
  <1>8. ProgressInv'
    <2>1. attempts[m] + 1 \notin calls[m]
      BY AcquireEffect DEF IInv, TypeOK, RowTypes, RowsInv
    <2>2. ASSUME NEW v \in Workers
          PROVE  Progress(v)'
      <3>1. Progress(v)
        BY DEF IInv, ProgressInv
      <3>2. CASE v = w
        BY <2>1, <3>2, AcquireEffect
           DEF Progress, UncalledSteps, LoadedSteps, InHandSteps
      <3>3. CASE v # w
        <4>1. pc[v] = "load" => msg[v] \in Messages
          BY DEF IInv, TypeOK, WorkerTypes, InHandSteps
        <4>2. Owns(v, msg[v])' /\ msg[v] \in Messages
                => Owns(v, msg[v]) /\ attempts'[msg[v]] = attempts[msg[v]]
          BY <3>3, AcquireEffect DEF Owns
        <4>q. QED
          BY <3>1, <3>3, <4>1, <4>2, AcquireEffect DEF Progress
      <3>q. QED
        BY <3>2, <3>3
    <2>q. QED
      BY <2>2 DEF ProgressInv
  <1>9. BarredInv'
    BY DEF Acquire, Selectable, Goto, refVars, tenantVars, IInv, TypeOK, WorkerTypes,
       BarredInv, LoadedSteps, InHandSteps
  <1>q. QED
    BY <1>1, <1>2, <1>3, <1>4, <1>5, <1>6, <1>7, <1>8, <1>9 DEF IInv

\* The row is loaded under the lock: every other worker that loaded the same
\* message holds an interrupted attempt, and the one loaded is not.
LEMMA LoadMessageStep ==
    ASSUME IInv, TypeOK', NEW w \in Workers, NEW r \in Answers, LoadMessage(w, r)
    PROVE  IInv'
  <1> USE SetsAssumption, ColumnsAssumption DEF QueueInv
  <1>0. msg[w] \in Messages
    BY DEF LoadMessage, IInv, TypeOK, WorkerTypes, InHandSteps
  <1>1. (QueueInv /\ RecipientInv)'
    BY QueueKept DEF LoadMessage, rowVars, refVars, tenantVars, historyVars
  <1>2. HandsInv'
    BY <1>0 DEF LoadMessage, Goto, rowVars, historyVars, IInv, TypeOK, RowTypes,
       WorkerTypes, RowsInv, HandsInv, LoadedSteps, InHandSteps, Owns
  <1>3. DistinctAttempts'
    <2>1. ASSUME NEW v \in Workers, v # w, pc[v] \in LoadedSteps, msg[v] = msg[w],
                 pc'[w] \in LoadedSteps
          PROVE  copy'[w].attempts # copy[v].attempts
      <3>1. Owns(w, msg[w]) /\ copy'[w].attempts = attempts[msg[w]]
        BY <1>0, <2>1 DEF LoadMessage, Goto, LoadedSteps, InHandSteps, IInv, TypeOK,
           WorkerTypes
      <3>2. ~Owns(v, msg[v])
        BY <2>1, <3>1 DEF Owns
      <3>3. copy[v].attempts \in interrupted[msg[v]]
        BY <2>1, <3>2 DEF IInv, HandsInv
      <3>4. attempts[msg[w]] \notin interrupted[msg[w]]
        BY <1>0, <3>1 DEF Owns, IInv, RowsInv
      <3>q. QED
        BY <2>1, <3>1, <3>3, <3>4
    <2>2. \A v \in Workers : v # w =>
             pc'[v] = pc[v] /\ msg'[v] = msg[v] /\ copy'[v] = copy[v]
      BY DEF LoadMessage, Goto, IInv, TypeOK, WorkerTypes
    <2>3. msg'[w] = msg[w]
      BY DEF LoadMessage
    <2>q. QED
      BY <2>1, <2>2, <2>3 DEF IInv, DistinctAttempts
  <1>4. ProgressInv'
    BY <1>0 DEF LoadMessage, Goto, rowVars, historyVars, IInv, TypeOK, RowTypes,
       HistoryTypes, WorkerTypes, RowsInv, Terminal, ProgressInv, Progress,
       UncalledSteps, LoadedSteps, InHandSteps, Owns
  <1>5. BarredInv'
    BY <1>0 DEF LoadMessage, Goto, refVars, tenantVars, historyVars, IInv, TypeOK,
       WorkerTypes, RefTypes, RecipientInv, HandsInv, BarredInv, LoadedSteps,
       InHandSteps, Owns
  <1>q. QED
    BY <1>1, <1>2, <1>3, <1>4, <1>5 DEF IInv

\* The policy and the customer are read: an OPTED_OUT customer leads to cancel.
LEMMA ReadStep ==
    ASSUME IInv, TypeOK', NEW w \in Workers, NEW r \in Answers,
           ReadPolicy(w, r) \/ ReadCustomer(w, r)
    PROVE  IInv'
  <1> USE DEF ReadPolicy, ReadCustomer
  <1>1. (QueueInv /\ RecipientInv)'
    BY QueueKept DEF rowVars, refVars, tenantVars, historyVars
  <1>2. HandsInv' /\ DistinctAttempts'
    BY DEF Goto, rowVars, historyVars, IInv, TypeOK, WorkerTypes, HandsInv,
       DistinctAttempts, LoadedSteps, InHandSteps, Owns
  <1>3. ProgressInv'
    BY DEF Goto, rowVars, historyVars, IInv, TypeOK, WorkerTypes, ProgressInv,
       Progress, UncalledSteps, LoadedSteps, InHandSteps, Owns
  <1>4. BarredInv'
    BY DEF Goto, Eligible, refVars, tenantVars, historyVars, IInv, TypeOK,
       WorkerTypes, BarredInv, LoadedSteps, InHandSteps
  <1>q. QED
    BY <1>1, <1>2, <1>3, <1>4 DEF IInv

\* The payload cannot be sent, and nobody is called.
LEMMA RejectStep ==
    ASSUME IInv, TypeOK', NEW w \in Workers, NEW retryable \in BOOLEAN,
           RejectMessage(w) \/ MediaUnresolved(w, retryable)
    PROVE  IInv'
  <1> USE DEF RejectMessage, MediaUnresolved, HandleProviderError
  <1>1. (QueueInv /\ RecipientInv)'
    BY QueueKept DEF rowVars, refVars, tenantVars, historyVars
  <1>2. HandsInv' /\ DistinctAttempts'
    BY DEF Goto, rowVars, historyVars, IInv, TypeOK, WorkerTypes, HandsInv,
       DistinctAttempts, LoadedSteps, InHandSteps, Owns
  <1>3. ProgressInv'
    <2>1. copy[w].attempts \notin heard[msg[w]]
      BY DEF IInv, ProgressInv, Progress, LoadedSteps, InHandSteps
    <2>q. QED
      BY <2>1 DEF Goto, rowVars, historyVars, IInv, TypeOK, WorkerTypes, ProgressInv,
         Progress, UncalledSteps, LoadedSteps, InHandSteps, Owns
  <1>4. BarredInv'
    BY DEF Goto, refVars, tenantVars, historyVars, IInv, TypeOK, WorkerTypes,
       BarredInv, LoadedSteps, InHandSteps
  <1>q. QED
    BY <1>1, <1>2, <1>3, <1>4 DEF IInv

\* The provider is called: the workers with other attempts are not affected.
LEMMA CallStep ==
    ASSUME IInv, TypeOK', NEW w \in Workers, CallProvider(w)
    PROVE  IInv'
  <1> USE SetsAssumption, ColumnsAssumption DEF QueueInv
  <1>0. msg[w] \in Messages
    BY DEF CallProvider, IInv, TypeOK, WorkerTypes, InHandSteps
  <1>0a. copy[w].attempts \in 1 .. attempts[msg[w]]
    BY DEF CallProvider, IInv, HandsInv, LoadedSteps, InHandSteps
  <1>0b. Owns(w, msg[w]) \/ copy[w].attempts \in interrupted[msg[w]]
    BY DEF CallProvider, IInv, HandsInv, LoadedSteps, InHandSteps
  <1>1. RowsInv'
    BY <1>0, <1>0a DEF CallProvider, rowVars, IInv, TypeOK, HistoryTypes, RowsInv
  <1>6. CancelledUncalled'
    BY <1>0, <1>0b DEF CallProvider, rowVars, IInv, TypeOK, HistoryTypes, RowsInv,
       CancelledUncalled, Terminal, Owns
  <1>2. (PendingInv /\ HistoryMatchesStatus /\ SentIsBacked /\ OvertimeIsInterrupted
         /\ ResendIsInterrupted /\ RecipientInv)'
    BY DEF CallProvider, rowVars, refVars, tenantVars, IInv, PendingInv,
       HistoryMatchesStatus, SentIsBacked, OvertimeIsInterrupted,
       ResendIsInterrupted, RecipientInv
  <1>3. HandsInv' /\ DistinctAttempts'
    BY DEF CallProvider, Goto, rowVars, IInv, TypeOK, WorkerTypes, HandsInv,
       DistinctAttempts, LoadedSteps, InHandSteps, Owns
  <1>4. ProgressInv'
    <2>1. /\ pc[w] = "send" /\ pc'[w] = "calling"
          /\ \A v \in Workers \ {w} : pc'[v] = pc[v]
          /\ UNCHANGED <<status, lockedBy, attempts, msg, copy, heard>>
      BY DEF CallProvider, Goto, rowVars, IInv, TypeOK, WorkerTypes
    <2>2. \A v \in Workers : pc[v] \in LoadedSteps \union {"load"} => msg[v] \in Messages
      BY DEF IInv, TypeOK, WorkerTypes, LoadedSteps, InHandSteps
    <2>3. \A v \in Workers \ {w} : pc[v] \in LoadedSteps /\ msg[v] = msg[w]
             => copy[v].attempts # copy[w].attempts
      BY <2>1 DEF IInv, DistinctAttempts, LoadedSteps, InHandSteps
    <2>4. \A n \in Messages : calls'[n] =
             IF n = msg[w] THEN calls[n] \union {copy[w].attempts} ELSE calls[n]
      BY <1>0 DEF CallProvider, IInv, TypeOK, HistoryTypes
    <2>5. ASSUME NEW v \in Workers \ {w}, pc[v] = "load", Owns(v, msg[v]), msg[v] = msg[w]
          PROVE  copy[w].attempts # attempts[msg[w]]
      <3>1. ~Owns(w, msg[w])
        BY <2>5 DEF Owns
      <3>2. copy[w].attempts \in interrupted[msg[w]]
        BY <2>1, <3>1 DEF IInv, HandsInv, LoadedSteps, InHandSteps
      <3>q. QED
        BY <1>0, <2>5, <3>2 DEF Owns, IInv, RowsInv
    <2>6. ASSUME NEW v \in Workers
          PROVE  Progress(v)'
      <3>1. Progress(v)
        BY DEF IInv, ProgressInv
      <3>2. CASE v = w
        BY <1>0, <2>1, <2>4, <3>1, <3>2
           DEF Progress, UncalledSteps, LoadedSteps, InHandSteps
      <3>3. CASE v # w
        <4>0. pc[v] \in LoadedSteps \union {"load"} => calls'[msg[v]] =
                IF msg[v] = msg[w] THEN calls[msg[w]] \union {copy[w].attempts}
                                   ELSE calls[msg[v]]
          BY <2>2, <2>4, <2>6
        <4>n. /\ v \in Workers \ {w}
              /\ pc[v] \in LoadedSteps /\ msg[v] = msg[w]
                   => copy[v].attempts # copy[w].attempts
          BY <2>3, <2>6, <3>3
        <4>1. pc[v] = "load" /\ Owns(v, msg[v]) => attempts[msg[v]] \notin calls'[msg[v]]
          BY <2>5, <3>1, <4>0, <4>n DEF Progress
        <4>2. pc[v] \in UncalledSteps => copy[v].attempts \notin calls'[msg[v]]
          BY <3>1, <4>0, <4>n DEF Progress, UncalledSteps, LoadedSteps, InHandSteps
        <4>3. pc[v] = "calling" => copy[v].attempts \in calls'[msg[v]]
          BY <2>2, <2>4, <3>1 DEF Progress, LoadedSteps, InHandSteps
        <4>q. QED
          BY <2>1, <3>1, <3>3, <4>1, <4>2, <4>3 DEF Progress, Owns
      <3>q. QED
        BY <3>2, <3>3
    <2>q. QED
      BY <2>6 DEF ProgressInv
  <1>5. BarredInv'
    BY DEF CallProvider, Goto, refVars, tenantVars, IInv, TypeOK, WorkerTypes,
       BarredInv, LoadedSteps, InHandSteps
  <1>q. QED
    BY <1>1, <1>2, <1>3, <1>4, <1>5, <1>6 DEF IInv

\* The provider accepts and the worker hears it.
LEMMA AcceptsStep ==
    ASSUME IInv, TypeOK', NEW w \in Workers, ProviderAccepts(w)
    PROVE  IInv'
  <1> USE SetsAssumption, ColumnsAssumption DEF QueueInv
  <1>0. msg[w] \in Messages
    BY DEF ProviderAccepts, IInv, TypeOK, WorkerTypes, InHandSteps
  <1>1. RowsInv'
    BY <1>0 DEF ProviderAccepts, Accept, rowVars, IInv, TypeOK, RowTypes,
       HistoryTypes, RowsInv, ProgressInv, Progress
  <1>2. PendingInv'
    BY <1>0 DEF ProviderAccepts, rowVars, IInv, TypeOK, RowTypes, HistoryTypes,
       PendingInv, HandsInv, LoadedSteps, InHandSteps, Owns
  <1>3. SentIsBacked' /\ CancelledUncalled'
    BY <1>0 DEF ProviderAccepts, rowVars, IInv, TypeOK, HistoryTypes, SentIsBacked,
       CancelledUncalled
  <1>4. ResendIsInterrupted'
    BY <1>0 DEF ProviderAccepts, rowVars, IInv, TypeOK, RowTypes, HistoryTypes,
       ResendIsInterrupted, HandsInv, LoadedSteps, InHandSteps, Owns
  <1>5. (HistoryMatchesStatus /\ OvertimeIsInterrupted /\ RecipientInv)'
    BY DEF ProviderAccepts, rowVars, refVars, tenantVars, IInv, HistoryMatchesStatus,
       OvertimeIsInterrupted, RecipientInv
  <1>6. HandsInv' /\ DistinctAttempts'
    BY DEF ProviderAccepts, Goto, rowVars, IInv, TypeOK, WorkerTypes, HandsInv,
       DistinctAttempts, LoadedSteps, InHandSteps, Owns
  <1>7. ProgressInv'
    <2>1. /\ pc[w] = "calling" /\ pc'[w] = "sent"
          /\ \A v \in Workers \ {w} : pc'[v] = pc[v]
          /\ UNCHANGED <<status, lockedBy, attempts, msg, copy, calls>>
      BY DEF ProviderAccepts, Goto, rowVars, IInv, TypeOK, WorkerTypes
    <2>2. \A v \in Workers : pc[v] \in LoadedSteps \union {"load"} => msg[v] \in Messages
      BY DEF IInv, TypeOK, WorkerTypes, LoadedSteps, InHandSteps
    <2>3. \A v \in Workers \ {w} : pc[v] \in LoadedSteps /\ msg[v] = msg[w]
             => copy[v].attempts # copy[w].attempts
      BY <2>1 DEF IInv, DistinctAttempts, LoadedSteps, InHandSteps
    <2>4. \A n \in Messages : heard'[n] =
             IF n = msg[w] THEN heard[n] \union {copy[w].attempts} ELSE heard[n]
      BY <1>0 DEF ProviderAccepts, IInv, TypeOK, HistoryTypes
    <2>5. ASSUME NEW v \in Workers
          PROVE  Progress(v)'
      <3>1. Progress(v)
        BY DEF IInv, ProgressInv
      <3>2. CASE v = w
        BY <1>0, <2>1, <2>4, <3>1, <3>2
           DEF Progress, UncalledSteps, LoadedSteps, InHandSteps
      <3>3. CASE v # w
        <4>0. pc[v] \in LoadedSteps => heard'[msg[v]] =
                IF msg[v] = msg[w] THEN heard[msg[w]] \union {copy[w].attempts}
                                   ELSE heard[msg[v]]
          BY <2>2, <2>4, <2>5
        <4>n. pc[v] \in LoadedSteps /\ msg[v] = msg[w]
                => copy[v].attempts # copy[w].attempts
          BY <2>3, <2>5, <3>3
        <4>1. pc[v] = "sent" => copy[v].attempts \in heard'[msg[v]]
          BY <2>2, <2>4, <3>1 DEF Progress, LoadedSteps, InHandSteps
        <4>2. pc[v] \in LoadedSteps \ {"sent"} => copy[v].attempts \notin heard'[msg[v]]
          BY <3>1, <4>0, <4>n DEF Progress
        <4>q. QED
          BY <2>1, <3>1, <3>3, <4>1, <4>2 DEF Progress, Owns
      <3>q. QED
        BY <3>2, <3>3
    <2>q. QED
      BY <2>5 DEF ProgressInv
  <1>8. BarredInv'
    BY DEF ProviderAccepts, Goto, refVars, tenantVars, IInv, TypeOK, WorkerTypes,
       BarredInv, LoadedSteps, InHandSteps
  <1>q. QED
    BY <1>1, <1>2, <1>3, <1>4, <1>5, <1>6, <1>7, <1>8 DEF IInv

\* The provider call ends in an error, accepted or not.
LEMMA FailsStep ==
    ASSUME IInv, TypeOK', NEW w \in Workers, NEW retryable \in BOOLEAN,
           ProviderFails(w, retryable)
    PROVE  IInv'
  <1> USE SetsAssumption, ColumnsAssumption DEF QueueInv
  <1>0. msg[w] \in Messages
    BY DEF ProviderFails, IInv, TypeOK, WorkerTypes, InHandSteps
  <1>1. RowsInv'
    <2>1. UNCHANGED <<status, lockedBy, attempts, calls, heard, interrupted>>
      BY DEF ProviderFails, rowVars
    <2>2. copy[w].attempts \in calls[msg[w]]
      BY DEF ProviderFails, IInv, ProgressInv, Progress
    <2>3. \A n \in Messages :
             accepted[n] \subseteq accepted'[n] /\ accepted'[n] \subseteq calls[n]
      BY <1>0, <2>2 DEF ProviderFails, Accept, IInv, TypeOK, HistoryTypes, RowsInv
    <2>q. QED
      BY <2>1, <2>3 DEF IInv, RowsInv
  <1>2. (PendingInv /\ HistoryMatchesStatus /\ SentIsBacked /\ CancelledUncalled
         /\ OvertimeIsInterrupted /\ ResendIsInterrupted /\ RecipientInv)'
    BY DEF ProviderFails, rowVars, refVars, tenantVars, IInv, PendingInv,
       HistoryMatchesStatus, SentIsBacked, CancelledUncalled,
       OvertimeIsInterrupted, ResendIsInterrupted, RecipientInv
  <1>3. HandsInv' /\ DistinctAttempts'
    BY DEF ProviderFails, HandleProviderError, Goto, rowVars, IInv, TypeOK,
       WorkerTypes, HandsInv, DistinctAttempts, LoadedSteps, InHandSteps, Owns
  <1>4. ProgressInv'
    <2>1. copy[w].attempts \notin heard[msg[w]]
      BY DEF ProviderFails, IInv, ProgressInv, Progress, LoadedSteps, InHandSteps
    <2>q. QED
      BY <2>1 DEF ProviderFails, HandleProviderError, Goto, rowVars, IInv, TypeOK,
         WorkerTypes, ProgressInv, Progress, UncalledSteps, LoadedSteps, InHandSteps,
         Owns
  <1>5. BarredInv'
    BY DEF ProviderFails, HandleProviderError, Goto, refVars, tenantVars, IInv,
       TypeOK, WorkerTypes, BarredInv, LoadedSteps, InHandSteps
  <1>q. QED
    BY <1>1, <1>2, <1>3, <1>4, <1>5 DEF IInv

\* A message is withdrawn by an attempt that called nobody.
LEMMA CancelStep ==
    ASSUME IInv, TypeOK', NEW w \in Workers, NEW r \in Answers,
           CancelMessage(w, r)
    PROVE  IInv'
  <1> USE DEF QueueInv
  <1>0. msg[w] \in Messages
    BY DEF CancelMessage, IInv, TypeOK, WorkerTypes, InHandSteps
  <1>1. UNCHANGED <<attempts, recipient, customerId, automationId, consent, customers,
                    calls, accepted, heard>>
    BY DEF CancelMessage, refVars, tenantVars
  <1>2. \A n \in Messages :
          \/ RowKept(n) /\ log'[n] = log[n]
          \/ /\ n = msg[w] /\ Owns(w, n) /\ lockedBy'[n] = None
             /\ status'[n] = "CANCELLED" /\ log'[n] = log[n]
             /\ interrupted'[n] = interrupted[n]
    BY <1>0 DEF CancelMessage, Unlock, Owns, IInv, TypeOK, RowTypes,
       HistoryTypes, RowKept
  <1>3. /\ \A v \in Workers \ {w} : WorkerKept(v)
        /\ \/ pc'[w] \notin InHandSteps /\ w \notin barred'
           \/ pc'[w] = "release" /\ msg[w] # None /\ msg'[w] = msg[w]
        /\ barred' \subseteq barred
    BY <1>0, SetsAssumption
       DEF CancelMessage, AfterWrite, NextMessage, Goto, IInv, TypeOK,
           WorkerTypes, WorkerKept, InHandSteps
  <1>4. (/\ RowsInv /\ OvertimeIsInterrupted /\ ResendIsInterrupted /\ RecipientInv
         /\ HandsInv /\ DistinctAttempts /\ ProgressInv /\ BarredInv)'
    BY <1>1, <1>2, <1>3, LetGo DEF Terminal
  <1>5. PendingInv' /\ SentIsBacked'
    BY <1>1, <1>2 DEF IInv, PendingInv, SentIsBacked, RowKept
  <1>6. CancelledUncalled'
    <2>1. Owns(w, msg[w]) => attempts[msg[w]] \notin calls[msg[w]]
      BY DEF CancelMessage, IInv, HandsInv, ProgressInv, Progress, UncalledSteps,
         LoadedSteps, InHandSteps
    <2>q. QED
      BY <1>1, <1>2, <2>1 DEF IInv, CancelledUncalled, RowKept
  <1>7. HistoryMatchesStatus'
    BY <1>1, <1>2 DEF IInv, TypeOK, RowTypes, HistoryMatchesStatus, RowKept, Owns
  <1>q. QED
    BY <1>4, <1>5, <1>6, <1>7 DEF IInv

\* The worker gives its own attempt up: it is interrupted.
LEMMA ReleaseStep ==
    ASSUME IInv, TypeOK', NEW w \in Workers, NEW r \in Answers,
           ReleaseAfterProcessingError(w, r)
    PROVE  IInv'
  <1> USE DEF QueueInv
  <1>0. msg[w] \in Messages
    BY DEF ReleaseAfterProcessingError, IInv, TypeOK, WorkerTypes, InHandSteps
  <1>1. UNCHANGED <<attempts, recipient, customerId, automationId, consent, customers,
                    calls, accepted, heard>>
    BY DEF ReleaseAfterProcessingError, refVars, tenantVars
  <1>2. \A n \in Messages :
          \/ RowKept(n) /\ log'[n] = log[n]
          \/ /\ n = msg[w] /\ Owns(w, n) /\ lockedBy'[n] = None
             /\ status'[n] = "PENDING" /\ log'[n] = log[n]
             /\ interrupted'[n] = interrupted[n] \union {attempts[n]}
    BY <1>0 DEF ReleaseAfterProcessingError, Unlock, Owns, IInv, TypeOK, RowTypes,
       HistoryTypes, RowKept
  <1>3. /\ \A v \in Workers \ {w} : WorkerKept(v)
        /\ \/ pc'[w] \notin InHandSteps /\ w \notin barred'
           \/ pc'[w] = "release" /\ msg[w] # None /\ msg'[w] = msg[w]
        /\ barred' \subseteq barred
    BY <1>0, SetsAssumption
       DEF ReleaseAfterProcessingError, NextMessage, Goto, IInv, TypeOK,
           WorkerTypes, WorkerKept, InHandSteps
  <1>4. (/\ RowsInv /\ OvertimeIsInterrupted /\ ResendIsInterrupted /\ RecipientInv
         /\ HandsInv /\ DistinctAttempts /\ ProgressInv /\ BarredInv)'
    BY <1>1, <1>2, <1>3, LetGo DEF Terminal
  <1>5. PendingInv'
    BY <1>1, <1>2, UpToLast DEF IInv, PendingInv, RowKept
  <1>6. SentIsBacked' /\ CancelledUncalled'
    BY <1>1, <1>2 DEF IInv, SentIsBacked, CancelledUncalled, RowKept
  <1>7. HistoryMatchesStatus'
    BY <1>1, <1>2 DEF IInv, TypeOK, RowTypes, HistoryMatchesStatus, RowKept, Owns
  <1>q. QED
    BY <1>4, <1>5, <1>6, <1>7 DEF IInv

\* The result of the attempt in hand is recorded, under the fence.
LEMMA RecordStep ==
    ASSUME IInv, TypeOK', NEW w \in Workers, NEW r \in Answers,
           MarkAsSent(w, r) \/ MarkAsFailed(w, r)
    PROVE  IInv'
  <1> USE DEF QueueInv
  <1>0. msg[w] \in Messages
    BY DEF MarkAsSent, MarkAsFailed, IInv, TypeOK, WorkerTypes, InHandSteps
  <1>1. UNCHANGED <<attempts, recipient, customerId, automationId, consent, customers,
                    calls, accepted, heard>>
    BY DEF MarkAsSent, MarkAsFailed, RecordResult, refVars, tenantVars
  <1>2. \A n \in Messages :
          \/ RowKept(n) /\ log'[n] = log[n]
          \/ /\ n = msg[w] /\ Owns(w, n) /\ lockedBy'[n] = None
             /\ \/ pc[w] = "sent" /\ status'[n] = "SENT"
                \/ pc[w] = "fail" /\ status'[n] = "FAILED"
             /\ log'[n] = status'[n] /\ interrupted'[n] = interrupted[n]
    BY <1>0 DEF MarkAsSent, MarkAsFailed, RecordResult, Unlock, Owns, IInv, TypeOK, RowTypes,
       HistoryTypes, RowKept
  <1>3. /\ \A v \in Workers \ {w} : WorkerKept(v)
        /\ \/ pc'[w] \notin InHandSteps /\ w \notin barred'
           \/ pc'[w] = "release" /\ msg[w] # None /\ msg'[w] = msg[w]
        /\ barred' \subseteq barred
    BY <1>0, SetsAssumption
       DEF MarkAsSent, MarkAsFailed, RecordResult, AfterWrite, NextMessage, Goto, IInv, TypeOK,
           WorkerTypes, WorkerKept, InHandSteps
  <1>4. (/\ RowsInv /\ OvertimeIsInterrupted /\ ResendIsInterrupted /\ RecipientInv
         /\ HandsInv /\ DistinctAttempts /\ ProgressInv /\ BarredInv)'
    BY <1>1, <1>2, <1>3, LetGo DEF Terminal
  <1>5. PendingInv' /\ CancelledUncalled'
    BY <1>1, <1>2 DEF IInv, PendingInv, CancelledUncalled, RowKept
  <1>6. SentIsBacked'
    <2>1. pc[w] = "sent" /\ Owns(w, msg[w]) => attempts[msg[w]] \in heard[msg[w]]
      BY DEF IInv, HandsInv, ProgressInv, Progress, LoadedSteps, InHandSteps
    <2>q. QED
      BY <1>1, <1>2, <2>1 DEF IInv, SentIsBacked, RowKept
  <1>7. HistoryMatchesStatus'
    BY <1>1, <1>2 DEF IInv, TypeOK, RowTypes, HistoryMatchesStatus, RowKept, Owns
  <1>q. QED
    BY <1>4, <1>5, <1>6, <1>7 DEF IInv

\* Attempts remain, and the attempt in hand is not known to have succeeded.
LEMMA RetryStep ==
    ASSUME IInv, TypeOK', NEW w \in Workers, NEW r \in Answers,
           ReleaseForRetry(w, r)
    PROVE  IInv'
  <1> USE DEF QueueInv
  <1>0. msg[w] \in Messages
    BY DEF ReleaseForRetry, IInv, TypeOK, WorkerTypes, InHandSteps
  <1>1. UNCHANGED <<attempts, recipient, customerId, automationId, consent, customers,
                    calls, accepted, heard>>
    BY DEF ReleaseForRetry, refVars, tenantVars
  <1>2. \A n \in Messages :
          \/ RowKept(n) /\ log'[n] = log[n]
          \/ /\ n = msg[w] /\ Owns(w, n) /\ lockedBy'[n] = None
             /\ status'[n] = "PENDING" /\ log'[n] = log[n]
             /\ interrupted'[n] = interrupted[n]
    BY <1>0 DEF ReleaseForRetry, Unlock, Owns, IInv, TypeOK, RowTypes,
       HistoryTypes, RowKept
  <1>3. /\ \A v \in Workers \ {w} : WorkerKept(v)
        /\ \/ pc'[w] \notin InHandSteps /\ w \notin barred'
           \/ pc'[w] = "release" /\ msg[w] # None /\ msg'[w] = msg[w]
        /\ barred' \subseteq barred
    BY <1>0, SetsAssumption
       DEF ReleaseForRetry, AfterWrite, NextMessage, Goto, IInv, TypeOK,
           WorkerTypes, WorkerKept, InHandSteps
  <1>4. (/\ RowsInv /\ OvertimeIsInterrupted /\ ResendIsInterrupted /\ RecipientInv
         /\ HandsInv /\ DistinctAttempts /\ ProgressInv /\ BarredInv)'
    BY <1>1, <1>2, <1>3, LetGo DEF Terminal
  <1>5. PendingInv'
    <2>1. ASSUME Owns(w, msg[w])
          PROVE  /\ attempts[msg[w]] < MaxAttempts[msg[w]]
                 /\ attempts[msg[w]] \notin heard[msg[w]]
      BY <2>1 DEF ReleaseForRetry, IInv, HandsInv, ProgressInv, Progress,
         LoadedSteps, InHandSteps
    <2>2. Owns(w, msg[w]) => /\ MaxAttempts[msg[w]] .. attempts[msg[w]] = {}
                             /\ heard[msg[w]] \subseteq interrupted[msg[w]]
      BY <1>0, <2>1, UpToLast, ColumnsAssumption DEF IInv, TypeOK, RowTypes
    <2>q. QED
      BY <1>1, <1>2, <2>2 DEF IInv, PendingInv, RowKept
  <1>6. SentIsBacked' /\ CancelledUncalled'
    BY <1>1, <1>2 DEF IInv, SentIsBacked, CancelledUncalled, RowKept
  <1>7. HistoryMatchesStatus'
    BY <1>1, <1>2 DEF IInv, TypeOK, RowTypes, HistoryMatchesStatus, RowKept, Owns
  <1>q. QED
    BY <1>4, <1>5, <1>6, <1>7 DEF IInv

\* A customer who grants again is no longer barred.
LEMMA UpdateConsentStep ==
    ASSUME IInv, TypeOK', NEW c \in Customers, NEW s \in {"GRANTED", "OPTED_OUT"},
           UpdateConsent(c, s)
    PROVE  IInv'
  <1>1. (QueueInv /\ RecipientInv)'
    BY QueueKept DEF UpdateConsent, rowVars, refVars
  <1>2. (HandsInv /\ DistinctAttempts /\ ProgressInv)'
    BY DEF UpdateConsent, rowVars, workerVars, IInv, HandsInv, DistinctAttempts,
       ProgressInv, Progress, Owns
  <1>3. BarredInv'
    <2>1. UNCHANGED <<customers, recipient, pc, msg, copy>>
      BY DEF UpdateConsent, refVars, workerVars
    <2>2. barred' \subseteq barred
      BY DEF UpdateConsent
    <2>3. ASSUME NEW v \in barred'
          PROVE  consent'[recipient[msg[v]]] = "OPTED_OUT"
      <3>0. v \in Workers
        BY <2>2, <2>3 DEF IInv, TypeOK, HistoryTypes
      <3>1. msg[v] \in Messages /\ consent[recipient[msg[v]]] = "OPTED_OUT"
        BY <2>2, <2>3, <3>0 DEF IInv, TypeOK, WorkerTypes, BarredInv
      <3>2. s = "GRANTED" => recipient[msg[v]] # c
        BY <2>3 DEF UpdateConsent
      <3>3. recipient[msg[v]] \in Customers
        BY <3>0, <3>1, SetsAssumption DEF IInv, HandsInv, RecipientInv
      <3>q. QED
        BY <3>1, <3>2, <3>3 DEF UpdateConsent, IInv, TypeOK, TenantTypes
    <2>q. QED
      BY <2>1, <2>2, <2>3 DEF IInv, BarredInv
  <1>q. QED
    BY <1>1, <1>2, <1>3 DEF IInv

\* No part of the invariant reads the switch of a customer or the policy.
LEMMA SettingsStep ==
    ASSUME IInv, TypeOK',
           \/ \E c \in Customers : ToggleAutomation(c)
           \/ \E p \in Policies : SetPolicy(p)
    PROVE  IInv'
  <1> USE DEF ToggleAutomation, SetPolicy
  <1>1. (QueueInv /\ RecipientInv)'
    BY QueueKept DEF rowVars, refVars, historyVars
  <1>2. (HandsInv /\ DistinctAttempts /\ ProgressInv /\ BarredInv)'
    BY DEF rowVars, refVars, workerVars, historyVars, IInv, HandsInv,
       DistinctAttempts, ProgressInv, Progress, BarredInv, Owns
  <1>q. QED
    BY <1>1, <1>2 DEF IInv

\* The rows of a deleted customer lose their reference.
LEMMA RemoveCustomerStep ==
    ASSUME IInv, TypeOK', NEW c \in Customers, RemoveCustomer(c)
    PROVE  IInv'
  <1> USE DEF QueueInv, RemoveCustomer, rowVars, historyVars
  <1>1. (/\ RowsInv /\ PendingInv /\ HistoryMatchesStatus /\ SentIsBacked
         /\ CancelledUncalled /\ OvertimeIsInterrupted /\ ResendIsInterrupted)'
    BY DEF IInv, RowsInv, PendingInv, HistoryMatchesStatus, SentIsBacked,
       CancelledUncalled, OvertimeIsInterrupted, ResendIsInterrupted
  <1>2. RecipientInv'
    BY DEF IInv, TypeOK, RefTypes, TenantTypes, RecipientInv
  <1>3. (HandsInv /\ DistinctAttempts /\ ProgressInv)'
    BY DEF workerVars, IInv, HandsInv, DistinctAttempts, ProgressInv, Progress, Owns
  <1>4. BarredInv'
    BY DEF workerVars, IInv, TypeOK, WorkerTypes, BarredInv
  <1>q. QED
    BY <1>1, <1>2, <1>3, <1>4 DEF IInv

\* The history of an automation is deleted with it.
LEMMA RemoveAutomationStep ==
    ASSUME IInv, TypeOK', NEW a \in Automations, RemoveAutomation(a)
    PROVE  IInv'
  <1> USE DEF QueueInv, RemoveAutomation, rowVars, historyVars
  <1>1. (/\ RowsInv /\ PendingInv /\ SentIsBacked /\ CancelledUncalled
         /\ OvertimeIsInterrupted /\ ResendIsInterrupted /\ RecipientInv)'
    BY DEF IInv, RowsInv, PendingInv, SentIsBacked, CancelledUncalled,
       OvertimeIsInterrupted, ResendIsInterrupted, RecipientInv
  <1>2. HistoryMatchesStatus'
    BY DEF IInv, TypeOK, RowTypes, RefTypes, HistoryMatchesStatus
  <1>3. (HandsInv /\ DistinctAttempts /\ ProgressInv /\ BarredInv)'
    BY DEF workerVars, IInv, HandsInv, DistinctAttempts, ProgressInv, Progress,
       BarredInv, Owns
  <1>q. QED
    BY <1>1, <1>2, <1>3 DEF IInv

------------------------------------------------------------------------------
(* The invariant holds initially and every step preserves it *)

\* An empty queue satisfies the invariant.
LEMMA InitIInv == Init => IInv
  <1> SUFFICES ASSUME Init
               PROVE  IInv
    OBVIOUS
  <1> USE SetsAssumption DEF Init
  <1>1. TypeOK
    BY TypeInit
  <1>2. RowsInv /\ PendingInv /\ HistoryMatchesStatus /\ SentIsBacked
    BY DEF RowsInv, PendingInv, HistoryMatchesStatus, SentIsBacked, Terminal
  <1>3. CancelledUncalled /\ OvertimeIsInterrupted /\ ResendIsInterrupted
    BY ColumnsAssumption
       DEF CancelledUncalled, OvertimeIsInterrupted, ResendIsInterrupted
  <1>4. RecipientInv /\ HandsInv /\ DistinctAttempts
    BY DEF RecipientInv, HandsInv, DistinctAttempts, LoadedSteps, InHandSteps
  <1>5. ProgressInv /\ BarredInv
    BY DEF ProgressInv, Progress, BarredInv, LoadedSteps, UncalledSteps, InHandSteps
  <1>q. QED
    BY <1>1, <1>2, <1>3, <1>4, <1>5 DEF IInv, QueueInv

\* Every step of the system preserves the invariant.
LEMMA InductiveStep == IInv /\ [Next]_vars => IInv'
  <1> SUFFICES ASSUME IInv, [Next]_vars
               PROVE  IInv'
    OBVIOUS
  <1>0. TypeOK'
    BY TypeStep DEF IInv
  <1>1. ASSUME NEW m \in Messages, NEW c \in Customers, NEW a \in Automations,
               Enqueue(m, c, a)
        PROVE  IInv'
    BY <1>0, <1>1, EnqueueStep
  <1>2. ASSUME NEW m \in Messages, Clock(m) \/ LockExpiresInUse(m)
        PROVE  IInv'
    BY <1>0, <1>2, ClockStep
  <1>3. ASSUME NEW w \in Workers, Pass(w) \/ EndPass(w)
        PROVE  IInv'
    BY <1>0, <1>3, IdleStep, RecoverLockStep, AcquireStep DEF Pass
  <1>4. ASSUME NEW w \in Workers, Revalidate(w)
        PROVE  IInv'
    BY <1>0, <1>4, LoadMessageStep, ReadStep DEF Revalidate
  <1>5. ASSUME NEW w \in Workers, Deliver(w)
        PROVE  IInv'
    BY <1>0, <1>5, RejectStep, CallStep, AcceptsStep, FailsStep DEF Deliver
  <1>6. ASSUME NEW w \in Workers, Write(w)
        PROVE  IInv'
    BY <1>0, <1>6, CancelStep, RecordStep, RetryStep, ReleaseStep DEF Write
  <1>7. ASSUME NEW w \in Workers, Crash(w)
        PROVE  IInv'
    BY <1>0, <1>7, IdleStep
  <1>8. CASE Tenant
    BY <1>0, <1>8, UpdateConsentStep, SettingsStep, RemoveCustomerStep,
       RemoveAutomationStep
       DEF Tenant
  <1>9. CASE UNCHANGED vars
    BY <1>0, <1>9
       DEF vars, rowVars, refVars, tenantVars, workerVars, historyVars, IInv,
           QueueInv, RowsInv, PendingInv, HistoryMatchesStatus, SentIsBacked,
           CancelledUncalled, OvertimeIsInterrupted, ResendIsInterrupted,
           RecipientInv, HandsInv, DistinctAttempts, ProgressInv, Progress,
           BarredInv, Owns
  <1>q. QED
    BY <1>1, <1>2, <1>3, <1>4, <1>5, <1>6, <1>7, <1>8, <1>9 DEF Next, Worker

------------------------------------------------------------------------------
(* Theorems *)

\* Every variable keeps its type, for any number of messages, workers,
\* customers and faults; a worker has a message in hand exactly at the awaits
\* of acquireAndProcess.
THEOREM TypeCorrect == Spec => []TypeOK
  <1>1. TypeOK /\ [Next]_vars => TypeOK'
    BY TypeStep
  <1>q. QED
    BY TypeInit, <1>1, PTL DEF Spec

\* The inductive invariant of the queue holds in every reachable state.
THEOREM Invariance == Spec => []IInv
  BY InitIInv, InductiveStep, PTL DEF Spec

\* The MessageLog of a message never exists before its result nor contradicts
\* it, and is missing from a concluded one only after its automation was deleted.
THEOREM HistoryIsTrue == Spec => []HistoryMatchesStatus
  <1>1. IInv => HistoryMatchesStatus
    BY DEF IInv, QueueInv
  <1>q. QED
    BY Invariance, <1>1, PTL

\* SENT is recorded only by the latest attempt and only after the provider
\* told that worker it accepted: the fence on markAsSent is enough.
THEOREM SentIsTrue == Spec => []SentIsBacked
  <1>1. IInv => SentIsBacked
    BY DEF IInv, QueueInv
  <1>q. QED
    BY Invariance, <1>1, PTL

\* An attempt that cancels its message has not called the provider.
THEOREM CancelledIsUncalled == Spec => []CancelledUncalled
  <1>1. IInv => CancelledUncalled
    BY DEF IInv, QueueInv
  <1>q. QED
    BY Invariance, <1>1, PTL

\* Attempts past maxAttempts are all due to locks taken back.
THEOREM OvertimeIsExplained == Spec => []OvertimeIsInterrupted
  <1>1. IInv => OvertimeIsInterrupted
    BY DEF IInv, QueueInv
  <1>q. QED
    BY Invariance, <1>1, PTL

\* A success is followed by another attempt only if its lock was taken back.
THEOREM ResendIsExplained == Spec => []ResendIsInterrupted
  <1>1. IInv => ResendIsInterrupted
    BY DEF IInv, QueueInv
  <1>q. QED
    BY Invariance, <1>1, PTL

\* An opt-out that stands when the message is acquired is respected, unless the
\* customer is deleted first.
THEOREM OptOutIsRespected == Spec => []OptOutRespected
  <1>1. IInv => OptOutRespected
    BY DEF IInv, BarredInv, OptOutRespected
  <1>q. QED
    BY Invariance, <1>1, PTL

\* No two calls to the provider carry the same message and attempt number.
THEOREM CallsAreDistinct == Spec => OneCallPerAttempt
  <1> DEFINE Step ==
        \A w \in Workers : pc[w] = "send" /\ pc'[w] = "calling"
          => /\ copy[w].attempts \in 1 .. attempts[msg[w]]
             /\ copy[w].attempts \notin calls[msg[w]]
  <1>1. IInv => Step
    BY DEF IInv, HandsInv, ProgressInv, Progress, LoadedSteps, UncalledSteps,
       InHandSteps
  <1> HIDE DEF Step
  <1>2. Spec => [][Step]_vars
    BY Invariance, <1>1, PTL DEF Spec
  <1>q. QED
    BY <1>2 DEF OneCallPerAttempt, Step
------------------------------------------------------------------------------
(* Rows and passes move forward *)

\* A write of the worker that owns the row.
LEMMA UnlockProgress ==
    ASSUME TypeOK, NEW m \in Messages, status[m] = "PROCESSING",
           NEW s \in Terminal \union {"PENDING"}, Unlock(m, s), UNCHANGED attempts,
           NEW n \in Messages
    PROVE  RowProgress(n)
  BY DEF Unlock, RowProgress, Age, TypeOK, RowTypes, Terminal

\* Each step of a worker.
LEMMA WorkerRowProgress ==
    ASSUME IInv, NEW w \in Workers, Worker(w), NEW n \in Messages
    PROVE  RowProgress(n)
  <1>0. /\ TypeOK
        /\ \A m \in Messages : status[m] = "PROCESSING" <=> lockedBy[m] # None
        /\ w # None
        /\ pc[w] \in InHandSteps => msg[w] \in Messages
    BY SetsAssumption DEF IInv, QueueInv, RowsInv, TypeOK, WorkerTypes
  <1>1. CASE UNCHANGED <<status, attempts>>
    BY <1>1 DEF RowProgress
  <1>2. ASSUME NEW c \in candidates[w], NEW r \in Answers, RecoverLock(w, c, r)
        PROVE  RowProgress(n)
    <2>1. c[1] \in Messages
      BY <1>0 DEF TypeOK, WorkerTypes
    <2>q. QED
      BY <1>0, <1>1, <1>2, <2>1, UnlockProgress DEF RecoverLock, StillExpired
  <1>3. ASSUME NEW m \in batch[w], NEW r \in Answers, Acquire(w, m, r)
        PROVE  RowProgress(n)
    <2>1. CASE m \in Selectable /\ r # "error"
      <3>1. /\ status[m] = "PENDING" /\ m \in Messages
            /\ status' = [status EXCEPT ![m] = "PROCESSING"]
            /\ attempts' = [attempts EXCEPT ![m] = @ + 1]
        BY <1>3, <2>1 DEF Acquire, Selectable
      <3>q. QED
        BY <1>0, <3>1 DEF RowProgress, Age, TypeOK, RowTypes, Terminal
    <2>2. CASE ~(m \in Selectable /\ r # "error")
      BY <1>1, <1>3, <2>2 DEF Acquire
    <2>q. QED
      BY <2>1, <2>2
  <1>4. ASSUME NEW s \in Terminal \union {"PENDING"}, Owns(w, msg[w]), pc[w] \in InHandSteps,
               Unlock(msg[w], s), UNCHANGED attempts
        PROVE  RowProgress(n)
    BY <1>0, <1>4, UnlockProgress DEF Owns
  <1>5. CASE Write(w)
    BY <1>1, <1>4, <1>5
       DEF Write, CancelMessage, MarkAsSent, MarkAsFailed, RecordResult, ReleaseForRetry,
           ReleaseAfterProcessingError, InHandSteps, Terminal
  <1>6. CASE EndPass(w) \/ Revalidate(w) \/ Deliver(w)
    BY <1>1, <1>6
       DEF EndPass, Revalidate, LoadMessage, ReadPolicy, ReadCustomer, Deliver, RejectMessage,
           MediaUnresolved, ProviderFails, CallProvider, ProviderAccepts, rowVars
  <1>7. CASE Pass(w)
    BY <1>1, <1>2, <1>3, <1>7 DEF Pass, StartPass, FindPending, rowVars
  <1>q. QED
    BY <1>5, <1>6, <1>7 DEF Worker

\* A row never comes back to where it was: whatever was overtaken can tell.
THEOREM RowsAdvance == Spec => RowsMoveForward
  <1>1. ASSUME IInv, [Next]_vars, NEW n \in Messages
        PROVE  RowProgress(n)
    <2>1. CASE UNCHANGED <<status, attempts>>
      BY <2>1 DEF RowProgress
    <2>2. ASSUME NEW m \in Messages, NEW c \in Customers, NEW a \in Automations,
                 Enqueue(m, c, a)
          PROVE  RowProgress(n)
      <3>1. attempts[m] = 0
        BY <1>1, <2>2 DEF IInv, QueueInv, RowsInv, Enqueue
      <3>q. QED
        BY <1>1, <2>2, <3>1 DEF Enqueue, RowProgress, Age, IInv, TypeOK, RowTypes, Terminal
    <2>3. CASE \/ \E m \in Messages : Clock(m) \/ LockExpiresInUse(m)
               \/ \E w \in Workers : Crash(w)
               \/ Tenant
      BY <2>1, <2>3
         DEF Clock, BecomesDue, OrphanLockExpires, LockExpiresInUse, Crash, Tenant,
             UpdateConsent, ToggleAutomation, RemoveCustomer, SetPolicy, RemoveAutomation, rowVars
    <2>q. QED
      BY <1>1, <2>1, <2>2, <2>3, WorkerRowProgress DEF Next, vars, rowVars
  <1> DEFINE Forward == \A m \in Messages : RowProgress(m)
  <1>2. IInv /\ [Next]_vars => Forward
    BY <1>1
  <1> HIDE DEF Forward
  <1>3. Spec => [][Forward]_vars
    BY <1>2, Invariance, PTL DEF Spec
  <1>q. QED
    BY <1>3 DEF RowsMoveForward, Forward

\* A step within acquireAndProcess, to an await of fewer left.
LEMMA GotoProgress ==
    ASSUME TypeOK, NEW w \in Workers, NEW step \in Steps, Goto(w, step),
           UNCHANGED <<candidates, batch>>,
           \/ step = "idle"
           \/ pc[w] \notin {"idle", "recover"} /\ step # "recover"
                /\ AwaitsLeft[step] < AwaitsLeft[pc[w]],
           NEW v \in Workers
    PROVE  PassProgress(v)
  BY DEF Goto, PassProgress, TypeOK, WorkerTypes

\* The end of a write, answered or not.
LEMMA AfterWriteProgress ==
    ASSUME TypeOK, NEW w \in Workers, pc[w] \in {"cancel", "sent", "retry", "fail"},
           NEW answered \in BOOLEAN, AfterWrite(w, answered),
           UNCHANGED <<candidates, batch>>, NEW v \in Workers
    PROVE  PassProgress(v)
  <1>1. Goto(w, "batch") \/ Goto(w, "release")
    BY DEF AfterWrite, NextMessage
  <1>q. QED
    BY <1>1, GotoProgress DEF AwaitsLeft, Steps

\* Each step of a worker.
LEMMA WorkerPassProgress ==
    ASSUME TypeOK, NEW w \in Workers, Worker(w), NEW v \in Workers
    PROVE  PassProgress(v)
  <1>1. ASSUME NEW r \in Answers, StartPass(w, r)
        PROVE  PassProgress(v)
    BY <1>1 DEF StartPass, Goto, PassProgress, TypeOK, WorkerTypes
  <1>2. ASSUME NEW c \in candidates[w], NEW r \in Answers, RecoverLock(w, c, r)
        PROVE  PassProgress(v)
    BY <1>2 DEF RecoverLock, PassProgress, TypeOK, WorkerTypes
  <1>3. ASSUME NEW r \in Answers, FindPending(w, r)
        PROVE  PassProgress(v)
    BY <1>3 DEF FindPending, Goto, PassProgress, TypeOK, WorkerTypes
  <1>4. ASSUME NEW m \in batch[w], NEW r \in Answers, Acquire(w, m, r)
        PROVE  PassProgress(v)
    <2>1. /\ pc[w] = "batch" /\ UNCHANGED candidates
          /\ batch' = [batch EXCEPT ![w] = @ \ {m}]
          /\ pc' = pc \/ pc' = [pc EXCEPT ![w] = "load"]
      BY <1>4 DEF Acquire, Goto
    <2>q. QED
      BY <2>1 DEF PassProgress, TypeOK, WorkerTypes
  <1>5. CASE EndPass(w)
    BY <1>5, GotoProgress DEF EndPass, Steps
  <1>6. CASE Revalidate(w)
    BY <1>6, GotoProgress
       DEF Revalidate, LoadMessage, ReadPolicy, ReadCustomer, AwaitsLeft, Steps
  <1>7. ASSUME NEW retryable, HandleProviderError(w, retryable), pc[w] \in {"send", "calling"},
               UNCHANGED <<candidates, batch>>
        PROVE  PassProgress(v)
    <2>1. Goto(w, "retry") \/ Goto(w, "fail")
      BY <1>7 DEF HandleProviderError
    <2>q. QED
      BY <1>7, <2>1, GotoProgress DEF AwaitsLeft, Steps
  <1>8. CASE Deliver(w)
    <2>1. CASE CallProvider(w) \/ ProviderAccepts(w)
      BY <2>1, GotoProgress DEF CallProvider, ProviderAccepts, AwaitsLeft, Steps
    <2>q. QED
      BY <1>7, <1>8, <2>1 DEF Deliver, RejectMessage, MediaUnresolved, ProviderFails
  <1>9. CASE Write(w)
    <2>1. ASSUME NEW r \in Answers, ReleaseAfterProcessingError(w, r)
          PROVE  PassProgress(v)
      BY <2>1, GotoProgress DEF ReleaseAfterProcessingError, NextMessage, AwaitsLeft, Steps
    <2>2. ASSUME NEW r \in Answers, CancelMessage(w, r) \/ ReleaseForRetry(w, r)
          PROVE  PassProgress(v)
      BY <2>2, AfterWriteProgress DEF CancelMessage, ReleaseForRetry
    <2>3. ASSUME NEW r \in Answers, MarkAsSent(w, r) \/ MarkAsFailed(w, r)
          PROVE  PassProgress(v)
      BY <2>3, AfterWriteProgress DEF MarkAsSent, MarkAsFailed, RecordResult
    <2>q. QED
      BY <1>9, <2>1, <2>2, <2>3 DEF Write
  <1>q. QED
    BY <1>1, <1>2, <1>3, <1>4, <1>5, <1>6, <1>8, <1>9 DEF Worker, Pass

\* No loop of a pass goes on for ever: the locks it recovers and the messages of its
\* batch are those it has read once, and each is met once.
THEOREM PassesComeToAnEnd == Spec => PassesEnd
  <1>1. ASSUME TypeOK, [Next]_vars, NEW v \in Workers
        PROVE  PassProgress(v)
    <2>1. CASE UNCHANGED <<pc, candidates, batch>>
      BY <2>1 DEF PassProgress
    <2>2. ASSUME NEW w \in Workers, Crash(w)
          PROVE  PassProgress(v)
      BY <1>1, <2>2 DEF Crash, Goto, PassProgress, TypeOK, WorkerTypes
    <2>3. CASE \/ \E m \in Messages, c \in Customers, a \in Automations : Enqueue(m, c, a)
               \/ \E m \in Messages : Clock(m) \/ LockExpiresInUse(m)
               \/ Tenant
      BY <2>1, <2>3
         DEF Enqueue, Clock, BecomesDue, OrphanLockExpires, LockExpiresInUse, Tenant,
             UpdateConsent, ToggleAutomation, RemoveCustomer, SetPolicy, RemoveAutomation,
             workerVars
    <2>q. QED
      BY <1>1, <2>1, <2>2, <2>3, WorkerPassProgress DEF Next, vars, workerVars
  <1> DEFINE Forward == \A w \in Workers : PassProgress(w)
  <1>2. TypeOK /\ [Next]_vars => Forward
    BY <1>1
  <1> HIDE DEF Forward
  <1>3. Spec => [][Forward]_vars
    BY <1>2, TypeCorrect, PTL DEF Spec
  <1>q. QED
    BY <1>3 DEF PassesEnd, Forward
==============================================================================
