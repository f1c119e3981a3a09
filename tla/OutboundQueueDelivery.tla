------------------------ MODULE OutboundQueueDelivery ------------------------
(***************************************************************************)
(* OutboundQueue implements MessageDelivery: the proof.  Locks, attempts,  *)
(* retries and the steps of the workers all stutter; enqueue submits, the  *)
(* fenced writes conclude or withdraw, the provider accepts, and deleting  *)
(* an automation purges.                                                   *)
(***************************************************************************)
EXTENDS OutboundQueueProofs

\* The abstract outcome of a row.
OutcomeOf(s) == IF s \in {"PENDING", "PROCESSING"} THEN "OPEN" ELSE s

\* An empty queue is an empty delivery service.
LEMMA DeliveryInit == Init => Delivery!Init
  BY DEF Init, Delivery!Init

\* A step that changes no outcome, no history and no acceptance stutters.
LEMMA DeliveryStutter ==
    ASSUME \A m \in Messages : OutcomeOf(status'[m]) = OutcomeOf(status[m]),
           UNCHANGED <<accepted, log>>
    PROVE  UNCHANGED Delivery!vars
  BY DEF OutcomeOf, Delivery!vars

\* Worker w submits nothing and concludes nothing, but the provider may accept
\* the message in its hands.
LEMMA DeliveryAccept ==
    ASSUME IInv, NEW w \in Workers, msg[w] \in Messages, UNCHANGED <<status, log>>,
           Accept(w) \/ UNCHANGED accepted
    PROVE  [Delivery!Next]_Delivery!vars
  <1>1. CASE UNCHANGED accepted
    BY <1>1, DeliveryStutter DEF OutcomeOf
  <1>2. CASE Accept(w)
    <2>1. status[msg[w]] \in Statuses /\ status[msg[w]] # "NONE"
      BY SetsAssumption DEF IInv, TypeOK, RowTypes, HandsInv
    <2>2. [m \in Messages |-> accepted'[m] # {}] =
            [[m \in Messages |-> accepted[m] # {}] EXCEPT ![msg[w]] = TRUE]
      BY <1>2 DEF Accept, IInv, TypeOK, HistoryTypes
    <2>3. PICK m \in Messages : m = msg[w]
      OBVIOUS
    <2>4. Delivery!Accept(m)
      BY <2>1, <2>2, <2>3 DEF Delivery!Accept, Statuses
    <2>q. QED
      BY <2>4 DEF Delivery!Next
  <1>q. QED
    BY <1>1, <1>2

\* The fenced write of worker w on the row in its hands.
LEMMA DeliveryWrite ==
    ASSUME IInv, NEW w \in Workers, Write(w)
    PROVE  [Delivery!Next]_Delivery!vars
  <1>0. PICK r \in Answers : \/ CancelMessage(w, r)
                             \/ MarkAsSent(w, r)
                             \/ MarkAsFailed(w, r)
                             \/ ReleaseForRetry(w, r)
                             \/ ReleaseAfterProcessingError(w, r)
    BY DEF Write
  <1>a. msg[w] \in Messages /\ UNCHANGED accepted
    BY <1>0 DEF CancelMessage, MarkAsSent, MarkAsFailed, RecordResult, ReleaseForRetry,
       ReleaseAfterProcessingError, IInv, TypeOK, WorkerTypes, InHandSteps
  <1>1. PICK m \in Messages : m = msg[w] /\ UNCHANGED accepted
    BY <1>a
  <1>2. CASE CancelMessage(w, r)
    <2>1. CASE Owns(w, m) /\ r # "error"
      <3>1. Delivery!Withdraw(m)
        BY <1>1, <1>2, <2>1
           DEF CancelMessage, Unlock, Owns, IInv, TypeOK, RowTypes, Delivery!Withdraw
      <3>q. QED
        BY <1>1, <3>1 DEF Delivery!Next
    <2>2. CASE ~(Owns(w, m) /\ r # "error")
      BY <1>1, <1>2, <2>2, DeliveryStutter DEF CancelMessage
    <2>q. QED
      BY <2>1, <2>2
  <1>3. ASSUME NEW s \in {"SENT", "FAILED"}, RecordResult(w, s, r),
               s = "SENT" => pc[w] = "sent"
        PROVE  [Delivery!Next]_Delivery!vars
    <2> DEFINE inserts == Owns(w, m) /\ ReferencesExist(w) /\ log[m] = "NONE"
                          /\ r # "error"
    <2>1. CASE inserts
      <3>1. Unlock(m, s) /\ log' = [log EXCEPT ![m] = s]
        BY <1>1, <1>3, <2>1 DEF RecordResult
      <3>2. s = "SENT" => accepted[m] # {}
        BY <1>1, <1>3 DEF IInv, QueueInv, RowsInv, ProgressInv, Progress
      <3>3. Delivery!Conclude(m, s)
        BY <1>1, <1>3, <2>1, <3>1, <3>2
           DEF Unlock, Owns, IInv, TypeOK, RowTypes, Delivery!Conclude
      <3>q. QED
        BY <1>1, <1>3, <3>3 DEF Delivery!Next
    <2>2. CASE ~inserts
      BY <1>1, <1>3, <2>2, DeliveryStutter DEF RecordResult
    <2>q. QED
      BY <2>1, <2>2
  <1>4. CASE ReleaseForRetry(w, r) \/ ReleaseAfterProcessingError(w, r)
    <2>1. \A n \in Messages : OutcomeOf(status'[n]) = OutcomeOf(status[n])
      BY <1>1, <1>4 DEF ReleaseForRetry, ReleaseAfterProcessingError, Unlock, Owns,
         OutcomeOf, IInv, TypeOK, RowTypes
    <2>q. QED
      BY <1>1, <1>4, <2>1, DeliveryStutter
         DEF ReleaseForRetry, ReleaseAfterProcessingError
  <1>q. QED
    BY <1>0, <1>2, <1>3, <1>4 DEF MarkAsSent, MarkAsFailed

\* Every step of the queue is a step of the abstract service, or a stutter.
LEMMA DeliveryStep == IInv /\ [Next]_vars => [Delivery!Next]_Delivery!vars
  <1> SUFFICES ASSUME IInv, [Next]_vars
               PROVE  [Delivery!Next]_Delivery!vars
    OBVIOUS
  <1>1. ASSUME NEW m \in Messages, NEW c \in Customers, NEW a \in Automations,
               Enqueue(m, c, a)
        PROVE  [Delivery!Next]_Delivery!vars
    <2>1. Delivery!Submit(m)
      BY <1>1 DEF Enqueue, historyVars, IInv, TypeOK, RowTypes, Delivery!Submit
    <2>q. QED
      BY <1>1, <2>1 DEF Delivery!Next
  <1>2. ASSUME NEW m \in Messages, Clock(m) \/ LockExpiresInUse(m)
        PROVE  [Delivery!Next]_Delivery!vars
    BY <1>2, DeliveryStutter DEF Clock, BecomesDue, OrphanLockExpires,
       LockExpiresInUse, historyVars, OutcomeOf
  <1>3. ASSUME NEW w \in Workers, NEW r \in Answers, NEW c \in candidates[w],
               RecoverLock(w, c, r)
        PROVE  [Delivery!Next]_Delivery!vars
    BY <1>3, RecoverEffect, DeliveryStutter DEF RecoverLock, OutcomeOf
  <1>4. ASSUME NEW w \in Workers, NEW r \in Answers, NEW m \in batch[w],
               Acquire(w, m, r)
        PROVE  [Delivery!Next]_Delivery!vars
    <2>1. \A n \in Messages : OutcomeOf(status'[n]) = OutcomeOf(status[n])
      BY <1>4, AcquireEffect DEF OutcomeOf
    <2>2. UNCHANGED <<accepted, log>>
      BY <1>4 DEF Acquire
    <2>q. QED
      BY <2>1, <2>2, DeliveryStutter
  <1>5. ASSUME NEW w \in Workers,
               \/ EndPass(w) \/ Crash(w) \/ RejectMessage(w) \/ CallProvider(w)
               \/ \E r \in Answers :
                    \/ StartPass(w, r) \/ FindPending(w, r)
                    \/ LoadMessage(w, r) \/ ReadPolicy(w, r) \/ ReadCustomer(w, r)
               \/ \E retryable \in BOOLEAN : MediaUnresolved(w, retryable)
        PROVE  [Delivery!Next]_Delivery!vars
    <2>1. UNCHANGED <<status, log, accepted>>
      BY <1>5 DEF StartPass, FindPending, EndPass, Crash, LoadMessage, ReadPolicy,
         ReadCustomer, RejectMessage, CallProvider, MediaUnresolved, rowVars,
         historyVars
    <2>q. QED
      BY <2>1, DeliveryStutter DEF OutcomeOf
  <1>6. ASSUME NEW w \in Workers,
               \/ ProviderAccepts(w)
               \/ \E retryable \in BOOLEAN : ProviderFails(w, retryable)
        PROVE  [Delivery!Next]_Delivery!vars
    <2>1. msg[w] \in Messages
      BY <1>6 DEF ProviderAccepts, ProviderFails, IInv, TypeOK, WorkerTypes,
         InHandSteps
    <2>q. QED
      BY <1>6, <2>1, DeliveryAccept DEF ProviderAccepts, ProviderFails, rowVars
  <1>7. ASSUME NEW w \in Workers, Write(w)
        PROVE  [Delivery!Next]_Delivery!vars
    BY <1>7, DeliveryWrite
  <1>8. CASE Tenant
    <2>1. ASSUME NEW a \in Automations, RemoveAutomation(a)
          PROVE  Delivery!Next
      <3>1. Delivery!Purge({m \in Messages : automationId[m] = a})
        BY <2>1 DEF RemoveAutomation, rowVars, historyVars, Delivery!Purge
      <3>q. QED
        BY <3>1 DEF Delivery!Next
    <2>2. ASSUME NEW c \in Customers,
                 \/ \E s \in {"GRANTED", "OPTED_OUT"} : UpdateConsent(c, s)
                 \/ ToggleAutomation(c)
                 \/ RemoveCustomer(c)
          PROVE  UNCHANGED <<status, log, accepted>>
      BY <2>2 DEF UpdateConsent, ToggleAutomation, RemoveCustomer, rowVars, historyVars
    <2>3. ASSUME NEW p \in Policies, SetPolicy(p)
          PROVE  UNCHANGED <<status, log, accepted>>
      BY <2>3 DEF SetPolicy, rowVars, historyVars
    <2>4. CASE UNCHANGED <<status, log, accepted>>
      BY <2>4, DeliveryStutter DEF OutcomeOf
    <2>q. QED
      BY <1>8, <2>1, <2>2, <2>3, <2>4 DEF Tenant
  <1>9. CASE UNCHANGED vars
    BY <1>9, DeliveryStutter DEF vars, rowVars, historyVars, OutcomeOf
  <1>q. QED
    BY <1>1, <1>2, <1>3, <1>4, <1>5, <1>6, <1>7, <1>8, <1>9
       DEF Next, Worker, Pass, Revalidate, Deliver

\* The queue implements the promise made to its producers: a message is concluded
\* once, SENT only if it was accepted, and the history entry comes with it.
THEOREM DeliveryImplemented == Spec => ImplementsDelivery
  <1>1. Spec => Delivery!Init /\ [][Delivery!Next]_Delivery!vars
    BY Invariance, DeliveryInit, DeliveryStep, PTL DEF Spec
  <1>q. QED
    BY <1>1 DEF ImplementsDelivery, Delivery!Spec
==============================================================================
