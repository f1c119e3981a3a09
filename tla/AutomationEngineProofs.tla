------------------------ MODULE AutomationEngineProofs ------------------------
(***************************************************************************)
(* Proofs about AutomationEngine: type correctness, the reach of a tick,   *)
(* one open message per pair, birthdays and the cooldown, wherever         *)
(* midnight finds the runs.                                                *)
(***************************************************************************)
EXTENDS AutomationEngine, TLAPS

USE KindAssumption, ColumnsAssumption, BoundsAssumption, NoneAssumption

\* What an idle run holds.
LEMMA AbortTypes ==
    ASSUME TypeOK, NEW r \in Runs, Abort(r), UNCHANGED <<queueVars, timeVars>>,
           faults' \in Nat
    PROVE  TypeOK'
  BY DEF TypeOK, Abort, Goto, Steps, queueVars, timeVars, Days

\* The types are right at the start.
LEMMA TypeInit == Init => TypeOK
  BY DEF Init, TypeOK, Queue!Init, Days, Steps

\* A run holds an automation, a customer and a key where it needs them.
LEMMA TypeStep == TypeOK /\ [Next]_vars => TypeOK'
  <1> SUFFICES ASSUME TypeOK, [Next]_vars
               PROVE  TypeOK'
    OBVIOUS
  <1>1. CASE Hour \/ Midnight
    <2>1. now' \in Nat /\ day' \in Days
      BY <1>1 DEF Hour, Midnight, TypeOK, Days
    <2>2. UNCHANGED <<queueVars, runVars, faults>>
      BY <1>1 DEF Hour, Midnight
    <2>q. QED
      BY <2>1, <2>2 DEF TypeOK, queueVars, runVars
  <1>4. ASSUME NEW k \in Keys, QueueWorks(k)
        PROVE  TypeOK'
    <2>1. /\ outcome' \in [Keys -> {"NONE", "OPEN", "SENT", "FAILED", "CANCELLED"}]
          /\ history' \in [Keys -> {"NONE", "SENT", "FAILED"}]
          /\ sentAt' \in [Keys -> Nat] /\ sentOn' \in [Keys -> Days]
          /\ UNCHANGED <<storedOn, decidedOn>>
      BY <1>4 DEF QueueWorks, Queue!Accept, Queue!Conclude, Queue!Withdraw, TypeOK
    <2>2. accepted' \in [Keys -> BOOLEAN]
      <3>1. CASE accepted' = [accepted EXCEPT ![k] = TRUE]
        BY <3>1 DEF TypeOK
      <3>2. CASE UNCHANGED accepted
        BY <3>2 DEF TypeOK
      <3>q. QED
        BY <1>4, <3>1, <3>2 DEF QueueWorks, Queue!Accept, Queue!Conclude, Queue!Withdraw
    <2>q. QED
      BY <1>4, <2>1, <2>2 DEF QueueWorks, TypeOK, timeVars, runVars
  <1>5. ASSUME NEW r \in Runs, NEW A \in SUBSET Recurring, StartTick(r, A)
        PROVE  TypeOK'
    BY <1>5 DEF StartTick, Goto, TypeOK, Steps, Recurring, queueVars, timeVars
  <1>6. ASSUME NEW r \in Runs, NEW a \in Campaigns, NEW C \in SUBSET Customers,
               StartDispatch(r, a, C)
        PROVE  TypeOK'
    BY <1>6 DEF StartDispatch, Goto, TypeOK, Steps, Campaigns, queueVars, timeVars
  <1>7. ASSUME NEW r \in Runs, NEW a \in automations[r], NEW C \in SUBSET Customers,
               LoadCustomers(r, a, C)
        PROVE  TypeOK'
    <2>1. a \in Automations /\ a # None
      BY <1>7 DEF TypeOK, Recurring
    <2>q. QED
      BY <1>7, <2>1 DEF LoadCustomers, Goto, TypeOK, Steps, queueVars, timeVars
  <1>8. ASSUME NEW r \in Runs,
               EndTick(r) \/ EnqueueThrows(r) \/ RunFails(r)
        PROVE  TypeOK'
    <2>1. Abort(r) /\ UNCHANGED <<queueVars, timeVars>> /\ faults' \in Nat
      BY <1>8 DEF EndTick, EnqueueThrows, RunFails, TypeOK
    <2>q. QED
      BY <2>1, AbortTypes
  <1>9. ASSUME NEW r \in Runs, EndCustomers(r)
        PROVE  TypeOK'
    <2>1. CASE automation[r] \in Campaigns
      BY <1>9, <2>1, AbortTypes DEF EndCustomers, TypeOK
    <2>2. CASE automation[r] \notin Campaigns
      BY <1>9, <2>2 DEF EndCustomers, Goto, TypeOK, Steps, Days, queueVars, timeVars
    <2>q. QED
      BY <2>1, <2>2
  <1>10. ASSUME NEW r \in Runs, NEW c \in customers[r], CheckCooldown(r, c)
         PROVE  TypeOK'
    <2>1. c \in Customers /\ c # None
      BY <1>10 DEF TypeOK
    <2>q. QED
      BY <1>10, <2>1 DEF CheckCooldown, Goto, TypeOK, Steps, queueVars, timeVars
  <1>11. ASSUME NEW r \in Runs, CheckActive(r)
         PROVE  TypeOK'
    <2>1. KeyOf(automation[r], customer[r]) \in Keys
      BY <1>11 DEF CheckActive, TypeOK, KeyOf, Keys, Days
    <2>2. KeyOf(automation[r], customer[r]) # None
      BY <2>1
    <2>q. QED
      BY <1>11, <2>1, <2>2 DEF CheckActive, Goto, TypeOK, Steps, queueVars, timeVars
  <1>12. ASSUME NEW r \in Runs, Enqueue(r)
         PROVE  TypeOK'
    <2>1. /\ outcome' \in [Keys -> {"NONE", "OPEN", "SENT", "FAILED", "CANCELLED"}]
          /\ storedOn' \in [Keys -> Days] /\ decidedOn' \in [Keys -> Days]
          /\ UNCHANGED <<accepted, history>>
      BY <1>12 DEF Enqueue, Queue!Submit, TypeOK
    <2>q. QED
      BY <1>12, <2>1 DEF Enqueue, Goto, TypeOK, Steps, timeVars
  <1>13. CASE UNCHANGED vars
    BY <1>13 DEF vars, queueVars, timeVars, runVars, TypeOK
  <1>q. QED
    BY <1>1, <1>4, <1>5, <1>6, <1>7, <1>8, <1>9, <1>10, <1>11, <1>12, <1>13
       DEF Next, Proceed
------------------------------------------------------------------------------
(* Rows, keys and days *)

\* The key in the hands of a run.
LEMMA HeldKey ==
    ASSUME TypeOK, ReachInv, NEW r \in Runs, pc[r] = "enqueue"
    PROVE  /\ key[r] \in Keys /\ key[r][3] \in Days
           /\ key[r] = <<automation[r], customer[r], key[r][3]>>
           /\ automation[r] \in Automations /\ customer[r] \in Customers
  BY DEF TypeOK, ReachInv, HeldKeysInv, Keys

\* What the worker does to any row: open rows are concluded, and a new history
\* entry carries the time.
LEMMA QueueWorksEffect ==
    ASSUME TypeOK, NEW k \in Keys, QueueWorks(k), NEW j \in Keys
    PROVE  /\ UNCHANGED <<storedOn, decidedOn>>
           /\ outcome'[j] = "NONE" <=> outcome[j] = "NONE"
           /\ outcome'[j] = "OPEN" => outcome[j] = "OPEN"
           /\ \/ /\ history'[j] = history[j]
                 /\ sentAt'[j] = sentAt[j] /\ sentOn'[j] = sentOn[j]
                 /\ outcome'[j] = outcome[j] \/ outcome'[j] = "CANCELLED"
              \/ /\ outcome[j] = "OPEN" /\ outcome'[j] \in {"SENT", "FAILED"}
                 /\ history'[j] = "SENT" => sentAt'[j] = now /\ sentOn'[j] = day
                 /\ sentAt'[j] \in {sentAt[j], now}
  BY DEF QueueWorks, Queue!Accept, Queue!Conclude, Queue!Withdraw, TypeOK

\* A step that leaves the queue and the clock alone keeps what is said of them.
LEMMA KeysUnchanged ==
    ASSUME KeysInv, OneOpenPerPair, BirthdayOnItsDay, UNCHANGED <<queueVars, now, day>>
    PROVE  KeysInv' /\ OneOpenPerPair' /\ BirthdayOnItsDay'
  BY DEF KeysInv, KeyInv, OneOpenPerPair, BirthdayOnItsDay, queueVars

\* An idle run holds nothing of the day.
LEMMA AbortDay ==
    ASSUME TypeOK, DayInv, NEW r \in Runs, Abort(r), UNCHANGED <<queueVars, timeVars>>
    PROVE  DayInv'
  <1>1. RunsInv'
    <2> SUFFICES ASSUME NEW q \in Runs
                 PROVE  RunInv(q)'
      BY DEF RunsInv
    <2>q. QED
      BY DEF DayInv, RunsInv, RunInv, Abort, Goto, TypeOK, Working, queueVars,
         timeVars
  <1>q. QED
    BY <1>1, KeysUnchanged DEF DayInv, timeVars

\* Nothing is enqueued at the start.
LEMMA DayInit == Init => DayInv
  BY DEF Init, Queue!Init, DayInv, RunsInv, RunInv, KeysInv, KeyInv, OneOpenPerPair,
     BirthdayOnItsDay, Keys, Days, Working

\* Beside the new row no other is open but those stored late: for those of the days
\* before, the run made sure; one of a day after makes the new one late.
LEMMA EnqueueDay ==
    ASSUME TypeOK, ReachInv, DayInv, NEW r \in Runs, Enqueue(r)
    PROVE  DayInv'
  <1>1. PICK k \in Keys :
          /\ key[r] = k
          /\ \/ /\ outcome[k] # "NONE"
                /\ UNCHANGED <<outcome, accepted, history, storedOn, decidedOn>>
             \/ /\ Queue!Submit(k)
                /\ storedOn' = [storedOn EXCEPT ![k] = day]
                /\ decidedOn' = [decidedOn EXCEPT ![k] = loaded[r]]
    BY DEF Enqueue
  <1>2. /\ UNCHANGED <<sentAt, sentOn, timeVars, history>>
        /\ pc[r] = "enqueue" /\ pc' = [pc EXCEPT ![r] = "customer"]
        /\ UNCHANGED <<automation, today, loaded>>
        /\ \A q \in Runs : q # r => customer'[q] = customer[q] /\ key'[q] = key[q]
    BY <1>1 DEF Enqueue, Goto, Queue!Submit, TypeOK
  <1>3. \A j \in Keys : j # k => /\ outcome'[j] = outcome[j]
                                 /\ storedOn'[j] = storedOn[j]
                                 /\ decidedOn'[j] = decidedOn[j]
    BY <1>1 DEF Queue!Submit, TypeOK
  <1>4. PICK a \in Automations, c \in Customers, e \in Days :
          k = <<a, c, e>> /\ a = automation[r] /\ c = customer[r] /\ e = key[r][3]
    <2>1. /\ key[r] = <<automation[r], customer[r], key[r][3]>> /\ key[r][3] \in Days
          /\ automation[r] \in Automations /\ customer[r] \in Customers
      BY <1>2, HeldKey
    <2>q. QED
      BY <1>1, <2>1
  <1>5. /\ a \in Campaigns => e = 0
        /\ a \in Recurring =>
              /\ loaded[r] <= e /\ e <= day
              /\ \A d \in Days :
                    d < e /\ outcome[<<a, c, d>>] = "OPEN" => storedOn[<<a, c, d>>] > d
        /\ Kind[a] = "BIRTHDAY" => Birthday[c] = loaded[r]
    BY <1>1, <1>2, <1>4 DEF DayInv, RunsInv, RunInv
  <1>6. a \in Recurring <=> a \notin Campaigns
    BY DEF Recurring, Campaigns
  <1>7. CASE UNCHANGED <<outcome, storedOn, decidedOn>>
    <2>1. KeysInv' /\ OneOpenPerPair' /\ BirthdayOnItsDay'
      BY <1>2, <1>7 DEF DayInv, KeysInv, KeyInv, OneOpenPerPair, BirthdayOnItsDay, timeVars
    <2>2. ASSUME NEW q \in Runs
          PROVE  RunInv(q)'
      BY <1>2, <1>7 DEF DayInv, RunsInv, RunInv, Working, TypeOK, timeVars
    <2>q. QED
      BY <2>1, <2>2 DEF DayInv, RunsInv
  <1>8. CASE Queue!Submit(k) /\ storedOn' = [storedOn EXCEPT ![k] = day]
             /\ decidedOn' = [decidedOn EXCEPT ![k] = loaded[r]]
    <2>0. /\ outcome[k] = "NONE" /\ outcome'[k] = "OPEN"
          /\ storedOn'[k] = day /\ decidedOn'[k] = loaded[r]
      BY <1>8 DEF Queue!Submit, TypeOK
    <2>1. ASSUME NEW q \in Runs
          PROVE  RunInv(q)'
      <3>1. RunInv(q)
        BY DEF DayInv, RunsInv
      <3>2. CASE q = r
        BY <1>2, <3>1, <3>2 DEF RunInv, Working, TypeOK, timeVars
      <3>3. ASSUME q # r, NEW d \in Days, pc[q] = "enqueue", automation[q] \in Recurring,
                   d < key[q][3], outcome'[<<automation[q], customer[q], d>>] = "OPEN"
            PROVE  storedOn'[<<automation[q], customer[q], d>>] > d
        <4>1. <<automation[q], customer[q], d>> \in Keys
          BY <3>3, HeldKey DEF Keys
        <4>2. CASE <<automation[q], customer[q], d>> # k
          BY <1>3, <3>1, <3>3, <4>1, <4>2 DEF RunInv
        <4>3. CASE <<automation[q], customer[q], d>> = k
          <5>1. key[q][3] <= day /\ key[q][3] \in Days
            BY <3>1, <3>3, HeldKey DEF RunInv
          <5>q. QED
            BY <2>0, <3>3, <4>3, <5>1 DEF Days, TypeOK
        <4>q. QED
          BY <4>2, <4>3
      <3>4. CASE q # r
        <4>1. /\ pc'[q] = pc[q] /\ automation'[q] = automation[q]
              /\ today'[q] = today[q] /\ loaded'[q] = loaded[q]
              /\ customer'[q] = customer[q] /\ key'[q] = key[q] /\ day' = day
          BY <1>2, <3>4 DEF TypeOK, timeVars
        <4>q. QED
          BY <3>1, <3>3, <3>4, <4>1 DEF RunInv
      <3>q. QED
        BY <3>2, <3>4
    <2>2. ASSUME NEW b \in Automations, NEW x \in Customers, NEW d \in Days
          PROVE  KeyInv(b, x, d)'
      <3>1. KeyInv(b, x, d)
        BY DEF DayInv, KeysInv
      <3>2. CASE <<b, x, d>> # k
        BY <1>2, <1>3, <3>1, <3>2 DEF KeyInv, Keys, timeVars
      <3>3. CASE <<b, x, d>> = k
        <4>1. b = a /\ x = c /\ d = e
          BY <1>4, <3>3
        <4>2. day <= day
          BY DEF TypeOK, Days
        <4>q. QED
          BY <1>2, <1>5, <1>6, <2>0, <3>1, <3>3, <4>1, <4>2 DEF KeyInv, timeVars
      <3>q. QED
        BY <3>2, <3>3
    <2>3. OneOpenPerPair'
      <3> SUFFICES ASSUME NEW b \in Automations, NEW x \in Customers, NEW d \in Days,
                          NEW f \in Days, d < f,
                          outcome'[<<b, x, d>>] = "OPEN", outcome'[<<b, x, f>>] = "OPEN"
                   PROVE  storedOn'[<<b, x, d>>] > d
        BY DEF OneOpenPerPair
      <3>1. <<b, x, d>> \in Keys /\ <<b, x, f>> \in Keys
        BY DEF Keys
      <3>2. CASE <<b, x, d>> # k /\ <<b, x, f>> # k
        BY <1>3, <3>1, <3>2 DEF DayInv, OneOpenPerPair
      <3>3. CASE <<b, x, d>> = k
        <4>1. b = a /\ x = c /\ d = e /\ <<b, x, f>> # k
          BY <1>4, <3>3 DEF Days
        <4>2. outcome[<<b, x, f>>] = "OPEN"
          BY <1>3, <3>1, <4>1
        <4>3. KeyInv(b, x, f)
          BY DEF DayInv, KeysInv
        <4>4. b \notin Campaigns /\ f <= storedOn[<<b, x, f>>] /\ storedOn[<<b, x, f>>] <= day
          BY <4>2, <4>3 DEF KeyInv, Days
        <4>5. storedOn[<<b, x, f>>] \in Days
          BY <3>1 DEF TypeOK
        <4>q. QED
          BY <2>0, <3>3, <4>4, <4>5 DEF Days, TypeOK
      <3>4. CASE <<b, x, f>> = k
        <4>1. b = a /\ x = c /\ f = e /\ <<b, x, d>> # k
          BY <1>4, <3>4 DEF Days
        <4>2. a \in Recurring
          BY <1>5, <1>6, <4>1 DEF Days
        <4>q. QED
          BY <1>3, <1>5, <3>1, <4>1, <4>2
      <3>q. QED
        BY <3>2, <3>3, <3>4
    <2>4. BirthdayOnItsDay'
      <3> SUFFICES ASSUME NEW b \in Automations, NEW x \in Customers, NEW d \in Days,
                          Kind[b] = "BIRTHDAY", outcome'[<<b, x, d>>] # "NONE"
                   PROVE  /\ decidedOn'[<<b, x, d>>] = Birthday[x]
                          /\ Birthday[x] <= d /\ d <= storedOn'[<<b, x, d>>]
        BY DEF BirthdayOnItsDay
      <3>1. CASE <<b, x, d>> # k
        BY <1>3, <3>1 DEF DayInv, BirthdayOnItsDay, Keys
      <3>2. CASE <<b, x, d>> = k
        <4>1. b = a /\ x = c /\ d = e
          BY <1>4, <3>2
        <4>2. a \in Recurring
          BY <4>1 DEF Recurring
        <4>q. QED
          BY <1>5, <2>0, <3>2, <4>1, <4>2
      <3>q. QED
        BY <3>1, <3>2
    <2>q. QED
      BY <2>1, <2>2, <2>3, <2>4 DEF DayInv, RunsInv, KeysInv
  <1>q. QED
    BY <1>1, <1>7, <1>8

\* Midnight leaves runs and rows as they are: all that is said of their days has bounds
\* that the new day keeps.
LEMMA DayStep ==
    ASSUME TypeOK, TypeOK', ReachInv, DayInv, [Next]_vars
    PROVE  DayInv'
  <1>1. CASE Hour \/ Midnight
    <2>1. /\ UNCHANGED <<queueVars, runVars>>
          /\ now' \in Nat /\ now' >= now /\ day' >= day
      BY <1>1 DEF Hour, Midnight, TypeOK, Days
    <2>2. RunsInv'
      <3> SUFFICES ASSUME NEW q \in Runs
                   PROVE  RunInv(q)'
        BY DEF RunsInv
      <3>1. RunInv(q) /\ loaded[q] \in Nat /\ day \in Nat /\ day' \in Nat
        BY DEF DayInv, RunsInv, TypeOK, Days
      <3>2. ASSUME pc[q] = "enqueue"
            PROVE  key[q][3] \in Nat
        BY <3>2, HeldKey DEF Days
      <3>q. QED
        BY <2>1, <3>1, <3>2 DEF RunInv, Working, queueVars, runVars
    <2>3. KeysInv'
      <3> SUFFICES ASSUME NEW a \in Automations, NEW c \in Customers, NEW d \in Days
                   PROVE  KeyInv(a, c, d)'
        BY DEF KeysInv
      <3>1. KeyInv(a, c, d)
        BY DEF DayInv, KeysInv
      <3>2. /\ storedOn[<<a, c, d>>] \in Nat /\ sentAt[<<a, c, d>>] \in Nat
            /\ day \in Nat /\ day' \in Nat /\ now \in Nat
        BY DEF TypeOK, Keys, Days
      <3>q. QED
        BY <2>1, <3>1, <3>2 DEF KeyInv, queueVars
    <2>4. OneOpenPerPair' /\ BirthdayOnItsDay'
      BY <2>1 DEF DayInv, OneOpenPerPair, BirthdayOnItsDay, queueVars
    <2>q. QED
      BY <2>2, <2>3, <2>4 DEF DayInv
  <1>2. CASE UNCHANGED vars
    <2>1. UNCHANGED <<queueVars, now, day, runVars>>
      BY <1>2 DEF vars, timeVars
    <2>2. RunsInv'
      BY <2>1 DEF DayInv, RunsInv, RunInv, Working, queueVars, runVars
    <2>q. QED
      BY <2>1, <2>2, KeysUnchanged DEF DayInv
  <1>3. ASSUME NEW k \in Keys, QueueWorks(k)
        PROVE  DayInv'
    <2>1. UNCHANGED <<timeVars, runVars>>
      BY <1>3 DEF QueueWorks
    <2>2. RunsInv'
      <3> SUFFICES ASSUME NEW q \in Runs
                   PROVE  RunInv(q)'
        BY DEF RunsInv
      <3>1. RunInv(q)
        BY DEF DayInv, RunsInv
      <3>2. ASSUME NEW d \in Days, pc[q] = "enqueue", automation[q] \in Recurring,
                   d < key[q][3], outcome'[<<automation[q], customer[q], d>>] = "OPEN"
            PROVE  storedOn'[<<automation[q], customer[q], d>>] > d
        <4>1. <<automation[q], customer[q], d>> \in Keys
          BY <3>2, HeldKey DEF Keys
        <4>q. QED
          BY <1>3, <3>1, <3>2, <4>1, QueueWorksEffect DEF RunInv
      <3>q. QED
        BY <2>1, <3>1, <3>2 DEF RunInv, Working, timeVars, runVars
    <2>3. KeysInv' /\ OneOpenPerPair' /\ BirthdayOnItsDay'
      <3>1. \A a \in Automations, c \in Customers, d \in Days : <<a, c, d>> \in Keys
        BY DEF Keys
      <3>2. KeysInv'
        <4> SUFFICES ASSUME NEW a \in Automations, NEW c \in Customers, NEW d \in Days
                     PROVE  KeyInv(a, c, d)'
          BY DEF KeysInv
        <4>1. KeyInv(a, c, d)
          BY DEF DayInv, KeysInv
        <4>2. <<a, c, d>> \in Keys
          BY DEF Keys
        <4>3. now \in Nat /\ sentAt[<<a, c, d>>] \in Nat /\ UNCHANGED <<now, day>>
          BY <2>1, <4>2 DEF TypeOK, timeVars
        <4>q. QED
          BY <1>3, <4>1, <4>2, <4>3, QueueWorksEffect DEF KeyInv
      <3>3. OneOpenPerPair' /\ BirthdayOnItsDay'
        BY <1>3, <3>1, QueueWorksEffect DEF DayInv, OneOpenPerPair, BirthdayOnItsDay
      <3>q. QED
        BY <3>2, <3>3
    <2>q. QED
      BY <2>2, <2>3 DEF DayInv
  <1>4. ASSUME NEW r \in Runs,
               \/ \E A \in SUBSET Recurring : StartTick(r, A)
               \/ \E a \in Campaigns, C \in SUBSET Customers : StartDispatch(r, a, C)
               \/ \E a \in automations[r], C \in SUBSET Customers : LoadCustomers(r, a, C)
               \/ EndCustomers(r) /\ automation[r] \notin Campaigns
               \/ \E c \in customers[r] : CheckCooldown(r, c)
               \/ CheckActive(r)
        PROVE  DayInv'
    <2>1. UNCHANGED <<queueVars, timeVars>>
      BY <1>4 DEF StartTick, StartDispatch, LoadCustomers, EndCustomers, CheckCooldown,
         CheckActive
    <2> SUFFICES ASSUME NEW q \in Runs
                 PROVE  RunInv(q)'
      BY <2>1, KeysUnchanged DEF DayInv, RunsInv, timeVars
    <2>2. RunInv(q)
      BY DEF DayInv, RunsInv
    <2>3. CASE q # r
      BY <1>4, <2>1, <2>2, <2>3 DEF StartTick, StartDispatch, LoadCustomers, EndCustomers,
         CheckCooldown, CheckActive, Goto, RunInv, Working, TypeOK, queueVars,
         timeVars
    <2>4. CASE q = r
      <3>1. ASSUME NEW A \in SUBSET Recurring, StartTick(r, A)
            PROVE  RunInv(q)'
        BY <2>4, <3>1 DEF StartTick, Goto, RunInv, Working, TypeOK
      <3>2. ASSUME NEW a \in Campaigns, NEW C \in SUBSET Customers, StartDispatch(r, a, C)
            PROVE  RunInv(q)'
        BY <2>4, <3>2 DEF StartDispatch, Goto, RunInv, Working, TypeOK, Campaigns,
           Recurring
      <3>3. ASSUME NEW a \in automations[r], NEW C \in SUBSET Customers,
                   LoadCustomers(r, a, C)
            PROVE  RunInv(q)'
        BY <2>4, <3>3 DEF LoadCustomers, Goto, RunInv, Working, TypeOK, timeVars, Days
      <3>4. CASE EndCustomers(r) /\ automation[r] \notin Campaigns
        BY <2>4, <3>4 DEF EndCustomers, Goto, RunInv, Working, TypeOK
      <3>5. ASSUME NEW c \in customers[r], CheckCooldown(r, c)
            PROVE  RunInv(q)'
        BY <2>2, <2>4, <3>5 DEF CheckCooldown, Goto, RunInv, Working, TypeOK, IsDue,
           Campaigns, Recurring, timeVars
      <3>6. CASE CheckActive(r)
        <4>1. /\ UNCHANGED <<outcome, storedOn, day, automation, today, loaded>>
              /\ pc[r] = "active" /\ automation[r] \in Automations
          BY <2>1, <3>6 DEF CheckActive, queueVars, timeVars, TypeOK
        <4>2. CASE HasOpen(automation[r], customer[r])
          BY <2>2, <2>4, <3>6, <4>1, <4>2 DEF CheckActive, Goto, RunInv, Working, TypeOK
        <4>3. CASE ~HasOpen(automation[r], customer[r])
          <5>1. /\ pc'[r] = "enqueue" /\ UNCHANGED customer
                /\ key'[r] = KeyOf(automation[r], customer[r])
            BY <3>6, <4>3 DEF CheckActive, Goto, TypeOK
          <5>2. /\ automation[r] \in Campaigns => key'[r][3] = 0
                /\ automation[r] \in Recurring =>
                      key'[r][3] = day /\ day <= day /\ loaded[r] <= day
            <6>1. KeyOf(automation[r], customer[r])[3]
                    = IF automation[r] \in Campaigns THEN 0 ELSE day
              BY DEF KeyOf
            <6>2. automation[r] \in Recurring => automation[r] \notin Campaigns
              BY DEF Recurring, Campaigns
            <6>3. day <= day /\ (automation[r] \in Recurring => loaded[r] <= day)
              BY <2>2, <2>4, <4>1 DEF RunInv, Working, TypeOK, Days
            <6>q. QED
              BY <5>1, <6>1, <6>2, <6>3
          <5>q. QED
            BY <2>2, <2>4, <4>1, <4>3, <5>1, <5>2 DEF HasOpen, RunInv, Working
        <4>q. QED
          BY <4>2, <4>3
      <3>q. QED
        BY <1>4, <3>1, <3>2, <3>3, <3>4, <3>5, <3>6
    <2>q. QED
      BY <2>3, <2>4
  <1>5. ASSUME NEW r \in Runs,
               \/ EndTick(r) \/ EnqueueThrows(r) \/ RunFails(r)
               \/ EndCustomers(r) /\ automation[r] \in Campaigns
        PROVE  DayInv'
    BY <1>5, AbortDay DEF EndTick, EnqueueThrows, RunFails,
       EndCustomers
  <1>6. ASSUME NEW r \in Runs, Enqueue(r)
        PROVE  DayInv'
    BY <1>6, EnqueueDay
  <1>q. QED
    BY <1>1, <1>2, <1>3, <1>4, <1>5, <1>6 DEF Next, Proceed

------------------------------------------------------------------------------
(* The cooldown *)

\* A step that leaves the queue, the clock and the runs that decided alone.
LEMMA CooldownUnchanged ==
    ASSUME CooldownInv, UNCHANGED <<queueVars, now, day>>,
           \A r \in Runs :
               pc'[r] \in {"active", "enqueue"} =>
                   /\ pc[r] \in {"active", "enqueue"}
                   /\ automation'[r] = automation[r] /\ customer'[r] = customer[r]
                   /\ loaded'[r] = loaded[r]
    PROVE  CooldownInv'
  BY DEF CooldownInv, DecidedAfterCooldown, EnqueuedAfterCooldown, SentEarlier,
     CooledDown, CooldownRespected, queueVars

\* Nothing is sent at the start.
LEMMA CooldownInit == Init => CooldownInv
  BY DEF Init, Queue!Init, CooldownInv, DecidedAfterCooldown, EnqueuedAfterCooldown,
     SentEarlier, CooldownRespected, Recurring, Keys, Days

\* Keys of recurring automations and of the pair in the hands of a run.
LEMMA PairKeys ==
    ASSUME TypeOK
    PROVE  /\ \A a \in Recurring, c \in Customers, d \in Days : <<a, c, d>> \in Keys
           /\ \A r \in Runs, d \in Days :
                 pc[r] \in {"active", "enqueue"} =>
                     <<automation[r], customer[r], d>> \in Keys
  BY DEF TypeOK, Keys, Recurring

\* Time only adds to what has passed.
LEMMA ClockCooldown ==
    ASSUME TypeOK, CooldownInv, Hour \/ Midnight
    PROVE  CooldownInv'
  <1>1. /\ UNCHANGED <<queueVars, runVars>>
        /\ now' \in Nat /\ now' >= now
    BY DEF Hour, Midnight, TypeOK
  <1>2. ASSUME NEW a \in Recurring, NEW c \in Customers, NEW d \in Days,
               CooledDown(a, c, d)
        PROVE  CooledDown(a, c, d)'
    <2>1. sentAt[<<a, c, d>>] \in Nat /\ Cooldown[a] \in Nat /\ now \in Nat
      BY PairKeys DEF TypeOK, Recurring
    <2>q. QED
      BY <1>1, <1>2, <2>1 DEF CooledDown, queueVars
  <1>3. DecidedAfterCooldown'
    <2> SUFFICES ASSUME NEW r \in Runs, NEW d \in Days,
                        pc[r] \in {"active", "enqueue"}, automation[r] \in Recurring,
                        d < loaded[r], SentEarlier(automation[r], customer[r], d)
                 PROVE  CooledDown(automation[r], customer[r], d)'
      BY <1>1 DEF DecidedAfterCooldown, SentEarlier, CooledDown, queueVars, runVars
    <2>1. PICK a \in Recurring, c \in Customers : a = automation[r] /\ c = customer[r]
      BY DEF TypeOK
    <2>2. CooledDown(a, c, d)'
      BY <1>2, <2>1 DEF CooldownInv, DecidedAfterCooldown
    <2>q. QED
      BY <1>1, <2>1, <2>2 DEF CooledDown, queueVars, runVars
  <1>4. EnqueuedAfterCooldown'
    BY <1>1, <1>2 DEF CooldownInv, EnqueuedAfterCooldown, SentEarlier, queueVars
  <1>5. CooldownRespected'
    BY <1>1 DEF CooldownInv, CooldownRespected, queueVars
  <1>q. QED
    BY <1>3, <1>4, <1>5 DEF CooldownInv

\* A message of an earlier day that is sent now is not sent on its day; one of today
\* carries the time.
LEMMA QueueWorksCooldown ==
    ASSUME TypeOK, DayInv, CooldownInv, NEW k \in Keys, QueueWorks(k)
    PROVE  CooldownInv'
  <1>0. UNCHANGED decidedOn
    BY DEF QueueWorks
  <1>1. UNCHANGED <<timeVars, runVars>>
    BY DEF QueueWorks
  <1>2. ASSUME NEW a \in Recurring, NEW c \in Customers, NEW d \in Days, d < day,
               SentEarlier(a, c, d)'
        PROVE  SentEarlier(a, c, d) /\ sentAt'[<<a, c, d>>] = sentAt[<<a, c, d>>]
    BY <1>2, PairKeys, QueueWorksEffect DEF SentEarlier, TypeOK, Days
  <1>3. ASSUME NEW a \in Recurring, NEW c \in Customers, NEW d \in Days, NEW e \in Days,
               d < e, outcome'[<<a, c, e>>] # "NONE"
        PROVE  d < day /\ outcome[<<a, c, e>>] # "NONE"
    <2>1. outcome[<<a, c, e>>] # "NONE"
      BY <1>3, PairKeys, QueueWorksEffect
    <2>2. KeyInv(a, c, e)
      BY DEF DayInv, KeysInv, Recurring
    <2>3. storedOn[<<a, c, e>>] \in Days
      BY PairKeys DEF TypeOK
    <2>q. QED
      BY <1>3, <2>1, <2>2, <2>3 DEF KeyInv, Recurring, Campaigns, TypeOK, Days
  <1>4. DecidedAfterCooldown'
    <2> SUFFICES ASSUME NEW r \in Runs, NEW d \in Days,
                        pc[r] \in {"active", "enqueue"}, automation[r] \in Recurring,
                        d < loaded[r], SentEarlier(automation[r], customer[r], d)'
                 PROVE  CooledDown(automation[r], customer[r], d)'
      BY <1>1 DEF DecidedAfterCooldown, runVars, timeVars
    <2>1. PICK a \in Recurring, c \in Customers :
              a = automation[r] /\ c = customer[r] /\ UNCHANGED <<automation, customer>>
      BY <1>1 DEF TypeOK, runVars
    <2>2. d < day
      <3>1. RunInv(r)
        BY DEF DayInv, RunsInv
      <3>q. QED
        BY <3>1 DEF RunInv, Working, TypeOK, Days
    <2>3. SentEarlier(a, c, d) /\ sentAt'[<<a, c, d>>] = sentAt[<<a, c, d>>]
      BY <1>2, <2>1, <2>2 DEF SentEarlier
    <2>q. QED
      BY <1>1, <2>1, <2>3 DEF CooldownInv, DecidedAfterCooldown, CooledDown, timeVars
  <1>5. EnqueuedAfterCooldown'
    <2> SUFFICES ASSUME NEW a \in Recurring, NEW c \in Customers, NEW d \in Days,
                        NEW e \in Days, d < e, SentEarlier(a, c, d)',
                        outcome'[<<a, c, e>>] # "NONE", decidedOn[<<a, c, e>>] = e
                 PROVE  CooledDown(a, c, d)'
      BY <1>0 DEF EnqueuedAfterCooldown
    <2>1. d < day /\ outcome[<<a, c, e>>] # "NONE"
      BY <1>3
    <2>2. SentEarlier(a, c, d) /\ sentAt'[<<a, c, d>>] = sentAt[<<a, c, d>>]
      BY <1>2, <2>1
    <2>q. QED
      BY <1>1, <2>1, <2>2 DEF CooldownInv, EnqueuedAfterCooldown, CooledDown, timeVars
  <1>6. CooldownRespected'
    <2> SUFFICES ASSUME NEW a \in Recurring, NEW c \in Customers, NEW d \in Days,
                        NEW e \in Days, d < e, SentEarlier(a, c, d)',
                        history'[<<a, c, e>>] = "SENT", decidedOn[<<a, c, e>>] = e
                 PROVE  sentAt'[<<a, c, d>>] + Cooldown[a] < sentAt'[<<a, c, e>>]
      BY <1>0 DEF CooldownRespected, SentEarlier
    <2>1. outcome[<<a, c, e>>] # "NONE"
      <3>1. KeyInv(a, c, e)
        BY DEF DayInv, KeysInv, Recurring
      <3>q. QED
        BY <3>1, PairKeys, QueueWorksEffect DEF KeyInv
    <2>2. d < day
      BY <1>3, <2>1, PairKeys, QueueWorksEffect
    <2>3. SentEarlier(a, c, d) /\ sentAt'[<<a, c, d>>] = sentAt[<<a, c, d>>]
      BY <1>2, <2>2
    <2>4. sentAt[<<a, c, d>>] + Cooldown[a] < now
      BY <2>1, <2>3 DEF CooldownInv, EnqueuedAfterCooldown, CooledDown
    <2>5. \/ history[<<a, c, e>>] = "SENT" /\ sentAt'[<<a, c, e>>] = sentAt[<<a, c, e>>]
          \/ sentAt'[<<a, c, e>>] = now
      BY PairKeys, QueueWorksEffect
    <2>q. QED
      BY <2>3, <2>4, <2>5 DEF CooldownInv, CooldownRespected, SentEarlier
  <1>q. QED
    BY <1>4, <1>5, <1>6 DEF CooldownInv

\* A run decides on a message after it saw no entry within the cooldown.
LEMMA CheckCooldownCooldown ==
    ASSUME TypeOK, CooldownInv, NEW r \in Runs, NEW c \in customers[r], CheckCooldown(r, c)
    PROVE  CooldownInv'
  <1>1. UNCHANGED <<queueVars, timeVars, automation, loaded>> /\ pc[r] = "customer"
    BY DEF CheckCooldown
  <1>2. c \in Customers /\ automation[r] \in Automations
    BY <1>1 DEF TypeOK
  <1>3. DecidedAfterCooldown'
    <2> SUFFICES ASSUME NEW q \in Runs, NEW d \in Days,
                        pc'[q] \in {"active", "enqueue"}, automation[q] \in Recurring,
                        d < loaded[q], SentEarlier(automation[q], customer'[q], d)
                 PROVE  CooledDown(automation[q], customer'[q], d)
      BY <1>1 DEF DecidedAfterCooldown, SentEarlier, CooledDown, queueVars, timeVars
    <2>1. CASE q # r
      BY <2>1 DEF CheckCooldown, Goto, CooldownInv, DecidedAfterCooldown, TypeOK
    <2>2. CASE q = r
      <3>1. customer'[q] = c /\ ~RecentlySent(automation[r], c)
        BY <1>1, <2>2 DEF CheckCooldown, Goto, TypeOK, Campaigns, Recurring
      <3>2. /\ sentAt[<<automation[r], c, d>>] \in Nat
            /\ Cooldown[automation[r]] \in Nat /\ now \in Nat
        BY <1>2 DEF TypeOK, Keys
      <3>q. QED
        BY <2>2, <3>1, <3>2 DEF RecentlySent, SentEarlier, CooledDown
    <2>q. QED
      BY <2>1, <2>2
  <1>q. QED
    BY <1>1, <1>3 DEF CooldownInv, EnqueuedAfterCooldown, SentEarlier, CooledDown,
       CooldownRespected, queueVars, timeVars

\* Those before a new row of the run's own day were sent before the cooldown.
LEMMA EnqueueCooldown ==
    ASSUME TypeOK, ReachInv, CooldownInv, NEW r \in Runs, Enqueue(r)
    PROVE  CooldownInv'
  <1>1. PICK k \in Keys :
          /\ key[r] = k
          /\ \/ /\ outcome[k] # "NONE"
                /\ UNCHANGED <<outcome, accepted, history, storedOn, decidedOn>>
             \/ Queue!Submit(k) /\ decidedOn' = [decidedOn EXCEPT ![k] = loaded[r]]
    BY DEF Enqueue
  <1>2. /\ UNCHANGED <<sentAt, sentOn, timeVars, history, automation, loaded>>
        /\ pc[r] = "enqueue" /\ pc' = [pc EXCEPT ![r] = "customer"]
        /\ \A q \in Runs : q # r => customer'[q] = customer[q]
    BY <1>1 DEF Enqueue, Goto, Queue!Submit, TypeOK
  <1>3. \A j \in Keys : j # k => outcome'[j] = outcome[j] /\ decidedOn'[j] = decidedOn[j]
    BY <1>1 DEF Queue!Submit, TypeOK
  <1>4. k = <<automation[r], customer[r], key[r][3]>>
    BY <1>1, <1>2, HeldKey
  <1>5. history[k] # "SENT" \/ UNCHANGED <<outcome, decidedOn>>
    BY <1>1 DEF ReachInv, LogsInv, Queue!Submit
  <1>6. DecidedAfterCooldown'
    BY <1>2 DEF CooldownInv, DecidedAfterCooldown, SentEarlier, CooledDown, TypeOK,
       timeVars
  <1>7. EnqueuedAfterCooldown'
    <2> SUFFICES ASSUME NEW a \in Recurring, NEW c \in Customers, NEW d \in Days,
                        NEW e \in Days, d < e, SentEarlier(a, c, d),
                        outcome'[<<a, c, e>>] # "NONE", decidedOn'[<<a, c, e>>] = e
                 PROVE  CooledDown(a, c, d)
      BY <1>2 DEF EnqueuedAfterCooldown, SentEarlier, CooledDown, timeVars
    <2>1. CASE <<a, c, e>> # k \/ UNCHANGED <<outcome, decidedOn>>
      BY <1>3, <2>1, PairKeys DEF CooldownInv, EnqueuedAfterCooldown
    <2>2. CASE <<a, c, e>> = k /\ decidedOn' = [decidedOn EXCEPT ![k] = loaded[r]]
      <3>1. loaded[r] = e /\ a = automation[r] /\ c = customer[r]
        BY <1>4, <2>2 DEF TypeOK
      <3>q. QED
        BY <1>2, <3>1 DEF CooldownInv, DecidedAfterCooldown
    <2>q. QED
      BY <1>1, <2>1, <2>2
  <1>8. CooldownRespected'
    <2> SUFFICES ASSUME NEW a \in Recurring, NEW c \in Customers, NEW d \in Days,
                        NEW e \in Days, d < e, history[<<a, c, d>>] = "SENT",
                        history[<<a, c, e>>] = "SENT", sentOn[<<a, c, d>>] = d,
                        decidedOn'[<<a, c, e>>] = e
                 PROVE  sentAt[<<a, c, d>>] + Cooldown[a] < sentAt[<<a, c, e>>]
      BY <1>2 DEF CooldownRespected
    <2>1. decidedOn[<<a, c, e>>] = e
      BY <1>3, <1>5, PairKeys
    <2>q. QED
      BY <2>1 DEF CooldownInv, CooldownRespected
  <1>q. QED
    BY <1>6, <1>7, <1>8 DEF CooldownInv

\* A later message is decided on after the cooldown of the ones before it.
LEMMA CooldownStep ==
    ASSUME TypeOK, ReachInv, DayInv, CooldownInv, [Next]_vars
    PROVE  CooldownInv'
  <1>1. CASE Hour \/ Midnight
    BY <1>1, ClockCooldown
  <1>2. CASE UNCHANGED vars
    BY <1>2, CooldownUnchanged DEF vars, runVars, timeVars
  <1>3. ASSUME NEW k \in Keys, QueueWorks(k)
        PROVE  CooldownInv'
    BY <1>3, QueueWorksCooldown
  <1>4. ASSUME NEW r \in Runs, NEW c \in customers[r], CheckCooldown(r, c)
        PROVE  CooldownInv'
    BY <1>4, CheckCooldownCooldown
  <1>5. ASSUME NEW r \in Runs, Enqueue(r)
        PROVE  CooldownInv'
    BY <1>5, EnqueueCooldown
  <1>6. ASSUME NEW r \in Runs,
               \/ \E A \in SUBSET Recurring : StartTick(r, A)
               \/ \E a \in Campaigns, C \in SUBSET Customers : StartDispatch(r, a, C)
               \/ \E a \in automations[r], C \in SUBSET Customers : LoadCustomers(r, a, C)
               \/ EndCustomers(r) \/ CheckActive(r)
               \/ EndTick(r) \/ EnqueueThrows(r) \/ RunFails(r)
        PROVE  CooldownInv'
    <2>1. UNCHANGED <<queueVars, now, day>>
      BY <1>6 DEF StartTick, StartDispatch, LoadCustomers, EndCustomers, CheckActive,
         EndTick, EnqueueThrows, RunFails, timeVars
    <2>2. \A q \in Runs :
             q # r => /\ pc'[q] = pc[q] /\ automation'[q] = automation[q]
                      /\ customer'[q] = customer[q] /\ loaded'[q] = loaded[q]
      BY <1>6 DEF StartTick, StartDispatch, LoadCustomers, EndCustomers, CheckActive,
         EndTick, EnqueueThrows, RunFails, Abort, Goto, TypeOK
    <2>3. pc'[r] \in {"active", "enqueue"} =>
             /\ pc[r] \in {"active", "enqueue"}
             /\ automation'[r] = automation[r] /\ customer'[r] = customer[r]
             /\ loaded'[r] = loaded[r]
      BY <1>6 DEF StartTick, StartDispatch, LoadCustomers, EndCustomers, CheckActive,
         EndTick, EnqueueThrows, RunFails, Abort, Goto, TypeOK
    <2>q. QED
      BY <2>1, <2>2, <2>3, CooldownUnchanged
  <1>q. QED
    BY <1>1, <1>2, <1>3, <1>4, <1>5, <1>6 DEF Next, Proceed

------------------------------------------------------------------------------
(* The reach of a tick *)

\* No row is ever taken back.
LEMMA RowsStay ==
    ASSUME TypeOK, [Next]_vars, NEW j \in Keys, outcome[j] # "NONE"
    PROVE  outcome'[j] # "NONE"
  <1>1. ASSUME NEW k \in Keys, QueueWorks(k)
        PROVE  outcome'[j] # "NONE"
    BY <1>1, QueueWorksEffect
  <1>2. ASSUME NEW r \in Runs, Enqueue(r)
        PROVE  outcome'[j] # "NONE"
    BY <1>2 DEF Enqueue, Queue!Submit, TypeOK
  <1>3. CASE UNCHANGED outcome
    BY <1>3
  <1>q. QED
    BY <1>1, <1>2, <1>3 DEF Next, Proceed, Hour, Midnight, StartTick, StartDispatch,
       LoadCustomers, EndTick, EndCustomers, CheckCooldown, CheckActive, EnqueueThrows,
       RunFails, vars, queueVars

\* Run r gets through with customer c of automation a only by contacting it, or by
\* finding that it has been contacted.
LEMMA ThroughStep ==
    ASSUME TypeOK, TypeOK', ReachInv, [Next]_vars,
           NEW r \in Runs, NEW a \in Steady, NEW c \in Willing,
           Kind[a] = "REACTIVATION", DueFrom[c] = 0, ThroughWith(r, a, c)'
    PROVE  Contacted(a, c)'
  <1>1. a \in Recurring /\ a \in Automations /\ c \in Customers /\ a \notin Campaigns
    BY DEF Recurring, Campaigns
  <1>2. CASE Contacted(a, c)
    BY <1>1, <1>2, RowsStay DEF Contacted, Keys
  <1> SUFFICES ASSUME ~Contacted(a, c)
               PROVE  Contacted(a, c)'
    BY <1>2
  <1>3. ~ThroughWith(r, a, c)
    BY DEF ReachInv, ContactInv
  <1>4. ASSUME UNCHANGED <<pc, automations, automation, customers, customer>>
        PROVE  FALSE
    BY <1>3, <1>4 DEF ThroughWith
  <1>5. ASSUME NEW q \in Runs, q # r,
               \/ \E A \in SUBSET Recurring : StartTick(q, A)
               \/ \E b \in Campaigns, C \in SUBSET Customers : StartDispatch(q, b, C)
               \/ Proceed(q) \/ RunFails(q)
        PROVE  FALSE
    <2>1. /\ pc'[r] = pc[r] /\ automations'[r] = automations[r]
          /\ automation'[r] = automation[r] /\ customers'[r] = customers[r]
          /\ customer'[r] = customer[r]
      BY <1>5 DEF StartTick, StartDispatch, Proceed, LoadCustomers, EndTick, EndCustomers,
         CheckCooldown, CheckActive, Enqueue, EnqueueThrows, RunFails, Abort, Goto, TypeOK
    <2>q. QED
      BY <1>3, <2>1 DEF ThroughWith
  <1>6. ASSUME Abort(r)
        PROVE  FALSE
    BY <1>6 DEF Abort, Goto, ThroughWith, Working, TypeOK
  <1>7. ASSUME NEW A \in SUBSET Recurring, StartTick(r, A)
        PROVE  FALSE
    BY <1>7 DEF StartTick, Goto, ThroughWith, Working, TypeOK
  <1>8. ASSUME NEW b \in Campaigns, NEW C \in SUBSET Customers, StartDispatch(r, b, C)
        PROVE  FALSE
    BY <1>1, <1>8 DEF StartDispatch, Goto, ThroughWith, Working, TypeOK, Recurring,
       Campaigns
  <1>9. ASSUME NEW b \in automations[r], NEW C \in SUBSET Customers, LoadCustomers(r, b, C)
        PROVE  FALSE
    BY <1>1, <1>3, <1>9 DEF LoadCustomers, Goto, ThroughWith, Working, TypeOK
  <1>10. ASSUME EndCustomers(r), automation[r] \notin Campaigns
         PROVE  FALSE
    <2>1. automation[r] \in Recurring
      BY <1>10 DEF EndCustomers, TypeOK, Recurring, Campaigns
    <2>q. QED
      BY <1>3, <1>10, <2>1 DEF EndCustomers, Goto, ThroughWith, Working, TypeOK
  <1>11. ASSUME NEW x \in customers[r], CheckCooldown(r, x)
         PROVE  FALSE
    <2>1. /\ pc[r] = "customer" /\ UNCHANGED <<automations, automation, queueVars>>
          /\ customers'[r] = customers[r] \ {x}
      BY <1>11 DEF CheckCooldown, TypeOK
    <2>2. automation[r] = a /\ x = c /\ pc'[r] \notin {"active", "enqueue"}
      BY <1>3, <1>11, <2>1 DEF CheckCooldown, Goto, ThroughWith, Working, TypeOK
    <2>3. ~(IsDue(r, c) /\ ~RecentlySent(a, c))
      BY <1>11, <2>2 DEF CheckCooldown, Goto, TypeOK
    <2>4. IsDue(r, c)
      BY <2>2 DEF IsDue, TypeOK
    <2>5. RecentlySent(a, c)
      BY <2>3, <2>4
    <2>q. QED
      BY <1>1, <2>5 DEF RecentlySent, Contacted, ReachInv, LogsInv, Keys
  <1>12. ASSUME CheckActive(r)
         PROVE  FALSE
    <2>1. pc[r] = "active" /\ UNCHANGED <<automations, automation, customers>>
      BY <1>12 DEF CheckActive
    <2>2. CASE HasOpen(automation[r], customer[r])
      <3>1. ~(automation[r] = a /\ customer[r] = c)
        BY <2>2 DEF HasOpen, Contacted
      <3>q. QED
        BY <1>3, <1>12, <2>1, <2>2, <3>1 DEF CheckActive, Goto, ThroughWith, Working, TypeOK
    <2>3. CASE ~HasOpen(automation[r], customer[r])
      BY <1>3, <1>12, <2>1, <2>3 DEF CheckActive, Goto, ThroughWith, Working, TypeOK
    <2>q. QED
      BY <2>2, <2>3
  <1>13. ASSUME Enqueue(r)
         PROVE  Contacted(a, c)'
    <2>1. PICK k \in Keys :
            /\ key[r] = k
            /\ \/ outcome[k] # "NONE" /\ UNCHANGED <<outcome, accepted, history>>
               \/ Queue!Submit(k)
      BY <1>13 DEF Enqueue
    <2>2. outcome'[k] # "NONE"
      BY <2>1 DEF Queue!Submit, TypeOK
    <2>3. /\ pc[r] = "enqueue" /\ pc'[r] = "customer"
          /\ UNCHANGED <<automations, automation, customers>>
      BY <1>13 DEF Enqueue, Goto, TypeOK
    <2>4. automation[r] = a /\ customer[r] = c
      BY <1>3, <2>3 DEF ThroughWith, Working
    <2>5. PICK d \in Days : k = <<a, c, d>>
      BY <2>1, <2>3, <2>4 DEF ReachInv, HeldKeysInv, Keys
    <2>q. QED
      BY <2>2, <2>5 DEF Contacted
  <1>14. ASSUME Proceed(r)
         PROVE  Contacted(a, c)'
    BY <1>6, <1>9, <1>10, <1>11, <1>12, <1>13, <1>14
       DEF Proceed, EndTick, EndCustomers, EnqueueThrows
  <1>15. ASSUME Hour \/ Midnight \/ (\E k \in Keys : QueueWorks(k)) \/ UNCHANGED vars
         PROVE  FALSE
    BY <1>4, <1>15 DEF Hour, Midnight, QueueWorks, vars, runVars
  <1>q. QED
    BY <1>5, <1>6, <1>7, <1>8, <1>14, <1>15 DEF Next, RunFails

\* No run has come anywhere at the start.
LEMMA ReachInit == Init => ReachInv
  BY DEF Init, Queue!Init, ReachInv, LogsInv, HeldKeysInv, ContactInv, ThroughWith,
     Working, Keys

\* History entries have rows, for the worker concludes rows that are open.
LEMMA LogsStep ==
    ASSUME TypeOK, LogsInv, [Next]_vars
    PROVE  LogsInv'
  <1>1. ASSUME NEW k \in Keys, QueueWorks(k)
        PROVE  LogsInv'
    BY <1>1, QueueWorksEffect DEF LogsInv
  <1>2. ASSUME NEW r \in Runs, Enqueue(r)
        PROVE  LogsInv'
    BY <1>2 DEF Enqueue, Queue!Submit, LogsInv, TypeOK
  <1>3. CASE UNCHANGED <<outcome, history>>
    BY <1>3 DEF LogsInv
  <1>q. QED
    BY <1>1, <1>2, <1>3 DEF Next, Proceed, Hour, Midnight, StartTick, StartDispatch,
       LoadCustomers, EndTick, EndCustomers, CheckCooldown, CheckActive, EnqueueThrows,
       RunFails, vars, queueVars

\* The key a run holds is one of the automation and the customer it has in hand.
LEMMA HeldKeysStep ==
    ASSUME TypeOK, HeldKeysInv, [Next]_vars
    PROVE  HeldKeysInv'
  <1> SUFFICES ASSUME NEW q \in Runs, pc'[q] = "enqueue"
               PROVE  \E d \in Days : key'[q] = <<automation'[q], customer'[q], d>>
    BY DEF HeldKeysInv
  <1>1. CASE CheckActive(q)
    <2>1. /\ key'[q] = KeyOf(automation[q], customer[q])
          /\ automation' = automation /\ customer' = customer
      BY <1>1 DEF CheckActive, Goto, TypeOK
    <2>q. QED
      BY <2>1 DEF KeyOf, TypeOK, Days
  <1>2. ASSUME ~CheckActive(q)
        PROVE  /\ pc[q] = "enqueue" /\ key'[q] = key[q]
               /\ automation'[q] = automation[q] /\ customer'[q] = customer[q]
    <2>1. CASE UNCHANGED runVars
      BY <2>1 DEF runVars
    <2>2. ASSUME NEW r \in Runs,
                 \/ \E A \in SUBSET Recurring : StartTick(r, A)
                 \/ \E a \in Campaigns, C \in SUBSET Customers : StartDispatch(r, a, C)
                 \/ \E a \in automations[r], C \in SUBSET Customers :
                       LoadCustomers(r, a, C)
                 \/ EndTick(r) \/ EndCustomers(r) \/ EnqueueThrows(r) \/ RunFails(r)
                 \/ (\E c \in customers[r] : CheckCooldown(r, c)) \/ Enqueue(r)
                 \/ CheckActive(r) /\ r # q
          PROVE  /\ q # r
                 /\ pc'[q] = pc[q] /\ key'[q] = key[q]
                 /\ automation'[q] = automation[q] /\ customer'[q] = customer[q]
      BY <2>2 DEF StartTick, StartDispatch, LoadCustomers, EndTick, EndCustomers,
         EnqueueThrows, RunFails, CheckCooldown, Enqueue, CheckActive, Abort, Goto, TypeOK
    <2>q. QED
      BY <1>2, <2>1, <2>2 DEF Next, Proceed, Hour, Midnight, QueueWorks, vars
  <1>q. QED
    BY <1>1, <1>2 DEF HeldKeysInv

\* Whoever a tick is through with has been contacted.
LEMMA ReachStep ==
    ASSUME TypeOK, TypeOK', ReachInv, [Next]_vars
    PROVE  ReachInv'
  <1>1. LogsInv' /\ HeldKeysInv'
    BY LogsStep, HeldKeysStep DEF ReachInv
  <1>2. ContactInv'
    BY ThroughStep DEF ContactInv
  <1>q. QED
    BY <1>1, <1>2 DEF ReachInv

------------------------------------------------------------------------------
(* The theorems *)

\* The inductive invariant holds throughout, wherever midnight finds the runs.
THEOREM Invariance == Spec => []IInv
  <1>1. Init => IInv
    BY TypeInit, ReachInit, DayInit, CooldownInit DEF IInv
  <1>2. IInv /\ [Next]_vars => IInv'
    <2> SUFFICES ASSUME IInv, [Next]_vars
                 PROVE  IInv'
      OBVIOUS
    <2>1. TypeOK'
      BY TypeStep DEF IInv
    <2>2. ReachInv'
      BY <2>1, ReachStep DEF IInv
    <2>3. DayInv' /\ CooldownInv'
      BY <2>1, DayStep, CooldownStep DEF IInv
    <2>q. QED
      BY <2>1, <2>2, <2>3 DEF IInv
  <1>q. QED
    BY <1>1, <1>2, PTL DEF Spec

\* Every variable has its type.
THEOREM TypeCorrect == Spec => []TypeOK
  <1>1. IInv => TypeOK
    BY DEF IInv
  <1>q. QED
    BY <1>1, Invariance, PTL

\* The idempotency key keeps overlapping runs from opening two messages for a pair, but
\* for one that midnight overtook between its key and its row.
THEOREM OneOpen == Spec => []OneOpenPerPair
  <1>1. IInv => OneOpenPerPair
    BY DEF IInv, DayInv
  <1>q. QED
    BY <1>1, Invariance, PTL

\* The birthday that a run compared is the day it loaded its customers, and the day in
\* the key lies between that day and the one the row is stored.
THEOREM Birthdays == Spec => []BirthdayOnItsDay
  <1>1. IInv => BirthdayOnItsDay
    BY DEF IInv, DayInv
  <1>q. QED
    BY <1>1, Invariance, PTL

\* Of a message sent on its own day, the cooldown is kept by every later one whose run
\* midnight did not overtake, for that run saw the history entry.
THEOREM Cooldowns == Spec => []CooldownRespected
  <1>1. IInv => CooldownRespected
    BY DEF IInv, CooldownInv
  <1>q. QED
    BY <1>1, Invariance, PTL

\* A tick that comes to its end has reached everyone it should, however it
\* overlapped with other runs.
THEOREM TicksContact == Spec => []CompletedTickContacts
  <1>1. IInv => CompletedTickContacts
    <2> SUFFICES ASSUME IInv, NEW r \in Runs, NEW a \in Steady, NEW c \in Willing,
                        pc[r] = "automation", automations[r] = {},
                        Kind[a] = "REACTIVATION", DueFrom[c] = 0
                 PROVE  Contacted(a, c)
      BY DEF CompletedTickContacts, Contacted
    <2>1. ThroughWith(r, a, c)
      BY DEF ThroughWith
    <2>q. QED
      BY <2>1 DEF IInv, ReachInv, ContactInv
  <1>q. QED
    BY <1>1, Invariance, PTL
\* An exception, or the end of a tick or a dispatch.
LEMMA AbortProgress ==
    ASSUME TypeOK, NEW q \in Runs, Abort(q), NEW r \in Runs
    PROVE  RunProgress(r)
  BY DEF RunProgress, TypeOK, Abort, Goto

\* Each await of a run.
LEMMA ProceedProgress ==
    ASSUME TypeOK, NEW q \in Runs, Proceed(q), NEW r \in Runs
    PROVE  RunProgress(r)
  <1>1. CASE EndTick(q) \/ EnqueueThrows(q)
    BY <1>1, AbortProgress DEF EndTick, EnqueueThrows
  <1>2. ASSUME NEW a \in automations[q], NEW C \in SUBSET Customers, LoadCustomers(q, a, C)
        PROVE  RunProgress(r)
    BY <1>2 DEF LoadCustomers, Goto, RunProgress, TypeOK
  <1>3. CASE EndCustomers(q)
    <2>1. CASE automation[q] \in Campaigns
      BY <1>3, <2>1, AbortProgress DEF EndCustomers
    <2>2. CASE automation[q] \notin Campaigns
      BY <1>3, <2>2 DEF EndCustomers, Goto, RunProgress, TypeOK, AwaitsLeft
    <2>q. QED
      BY <2>1, <2>2
  <1>4. ASSUME NEW c \in customers[q], CheckCooldown(q, c)
        PROVE  RunProgress(r)
    <2>1. /\ automations' = automations
          /\ customers' = [customers EXCEPT ![q] = @ \ {c}]
          /\ r # q => pc'[r] = pc[r]
      BY <1>4 DEF CheckCooldown, Goto, TypeOK
    <2>q. QED
      BY <1>4, <2>1 DEF RunProgress, TypeOK
  <1>5. CASE CheckActive(q)
    BY <1>5 DEF CheckActive, Goto, RunProgress, TypeOK, AwaitsLeft
  <1>6. CASE Enqueue(q)
    <2>1. /\ pc[q] = "enqueue" /\ pc' = [pc EXCEPT ![q] = "customer"]
          /\ UNCHANGED <<automations, customers>>
      BY <1>6 DEF Enqueue, Goto
    <2>q. QED
      BY <2>1 DEF RunProgress, TypeOK, AwaitsLeft
  <1>q. QED
    BY <1>1, <1>2, <1>3, <1>4, <1>5, <1>6 DEF Proceed

\* No loop of a tick or a dispatch goes on for ever: the automations and customers it
\* has loaded are finitely many and it meets each of them once.
THEOREM RunsComeToAnEnd == Spec => RunsEnd
  <1>1. ASSUME TypeOK, [Next]_vars, NEW r \in Runs
        PROVE  RunProgress(r)
    <2>1. CASE UNCHANGED runVars
      BY <2>1 DEF runVars, RunProgress
    <2>2. ASSUME NEW q \in Runs, NEW A \in SUBSET Recurring, StartTick(q, A)
          PROVE  RunProgress(r)
      BY <2>2 DEF StartTick, Goto, RunProgress, TypeOK
    <2>3. ASSUME NEW q \in Runs, NEW a \in Campaigns, NEW C \in SUBSET Customers,
                 StartDispatch(q, a, C)
          PROVE  RunProgress(r)
      BY <2>3 DEF StartDispatch, Goto, RunProgress, TypeOK
    <2>4. ASSUME NEW q \in Runs, RunFails(q)
          PROVE  RunProgress(r)
      BY <1>1, <2>4, AbortProgress DEF RunFails
    <2>5. CASE Hour \/ Midnight \/ (\E k \in Keys : QueueWorks(k))
      BY <2>1, <2>5 DEF Hour, Midnight, QueueWorks
    <2>q. QED
      BY <1>1, <2>1, <2>2, <2>3, <2>4, <2>5, ProceedProgress DEF Next, vars
  <1>2. TypeOK /\ [Next]_vars => [\A r \in Runs : RunProgress(r)]_vars
    BY <1>1
  <1>q. QED
    BY <1>2, TypeCorrect, PTL DEF Spec, RunsEnd

\* What a step of the engine or of its surroundings does to the queue.
LEMMA QueueStep ==
    ASSUME TypeOK, [Next]_vars
    PROVE  [Queue!Next]_(Queue!vars)
  <1>1. ASSUME NEW k \in Keys, QueueWorks(k)
        PROVE  Queue!Next
    BY <1>1 DEF QueueWorks, Queue!Next
  <1>2. ASSUME NEW r \in Runs, Enqueue(r)
        PROVE  [Queue!Next]_(Queue!vars)
    BY <1>2 DEF Enqueue, Queue!Next, Queue!vars
  <1>3. CASE UNCHANGED queueVars
    BY <1>3 DEF queueVars, Queue!vars
  <1>4. ASSUME NEW r \in Runs, Proceed(r), ~Enqueue(r)
        PROVE  UNCHANGED queueVars
    BY <1>4
       DEF Proceed, LoadCustomers, EndTick, EndCustomers, CheckCooldown, CheckActive, EnqueueThrows
  <1>q. QED
    BY <1>1, <1>2, <1>3, <1>4 DEF Next, Hour, Midnight, StartTick, StartDispatch, RunFails, vars

\* The engine uses the queue as MessageDelivery allows: what OutboundQueue implements
\* is all that the theorems above rest on, and a run enqueues only as a producer may.
THEOREM QueueIsAsPromised == Spec => Queue!Spec
  <1>1. Init => Queue!Init
    BY DEF Init
  <1>2. TypeOK /\ [Next]_vars => [Queue!Next]_(Queue!vars)
    BY QueueStep
  <1>q. QED
    BY <1>1, <1>2, TypeCorrect, PTL DEF Spec, Queue!Spec
==============================================================================
