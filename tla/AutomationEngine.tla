--------------------------- MODULE AutomationEngine ---------------------------
(***************************************************************************)
(* The producer of the queue: the cron that evaluates recurring            *)
(* automations every minute and the dispatch of campaigns                  *)
(* (src/backend/src/automation/engine/engine.service.ts).                  *)
(*                                                                         *)
(* Nothing keeps two ticks from overlapping, in one process or in several. *)
(* A tick decides to send by two reads, the history and the open messages, *)
(* and writes in a third step; the idempotency key, which holds the civil  *)
(* day, is what a second decision of the same day runs into.               *)
(*                                                                         *)
(* The queue is the one MessageDelivery promises, OutboundQueue implements *)
(* it.  Time is a clock and a civil day; a day may have any length.  Which *)
(* automations are active and whom they may contact changes between any    *)
(* two reads, but for those that the constants declare steady.             *)
(***************************************************************************)
EXTENDS Integers

CONSTANTS
    Automations,    \* automations of any companies
    Customers,      \* customers; each pair below is one company's
    Runs,           \* overlapping runs: ticks of the cron or dispatches
    Kind,           \* Kind[a]: BIRTHDAY, REACTIVATION (MAINTENANCE is one) or CAMPAIGN
    Cooldown,       \* Cooldown[a]: cooldownHours
    DueFrom,        \* DueFrom[c]: when lastPurchaseDate is daysAfter days ago
    Birthday,       \* Birthday[c]: the civil day of the birthday
    Steady,         \* automations that stay active
    Willing,        \* customers that stay eligible: policy, consent, isActiveForAutomation
    Unsendable,     \* <<a, c>> whose enqueue throws: no single active channel, text too long
    MaxDay,         \* bound on the civil days
    MaxTime,        \* bound on the clock
    MaxFaults,      \* bound on failed database calls, crashes, misconfigured automations
    None

Recurring == {a \in Automations : Kind[a] \in {"REACTIVATION", "BIRTHDAY"}}
Campaigns == {a \in Automations : Kind[a] = "CAMPAIGN"}

ASSUME KindAssumption ==
    Kind \in [Automations -> {"REACTIVATION", "BIRTHDAY", "CAMPAIGN"}]

ASSUME ColumnsAssumption ==
    /\ Cooldown \in [Automations -> Nat]
    /\ DueFrom \in [Customers -> Nat] /\ Birthday \in [Customers -> Nat]
    /\ Steady \subseteq Recurring /\ Willing \subseteq Customers
    /\ Unsendable \subseteq Automations \X Customers

ASSUME BoundsAssumption ==
    /\ MaxDay \in Nat /\ MaxTime \in Nat /\ MaxFaults \in Nat

\* automation:A:customer:C:cycle:D, or campaign:A:customer:C with D = 0.
Days == 0..MaxDay
Keys == Automations \X Customers \X Days

ASSUME NoneAssumption == None \notin Automations \union Customers \union Keys

VARIABLES
    outcome, accepted, history,  \* the queue
    sentAt,      \* sentAt of the SENT log
    sentOn,      \* the civil day of sentAt
    storedOn,    \* the civil day of createdAt
    decidedOn,   \* the civil day the run that stored it had loaded its customers
    now, day,    \* the clock and the civil day in APP_TIMEZONE
    pc,          \* the await a run stands at
    automations, \* automations the tick has still to process
    automation,  \* the one in hand
    customers,   \* customers loaded for it and not processed yet
    today,       \* todayDay of handleBirthday
    loaded,      \* the civil day the customers were loaded
    customer,    \* the customer in hand
    key,         \* the idempotency key built for the enqueue
    faults

queueVars == <<outcome, accepted, history, sentAt, sentOn, storedOn, decidedOn>>
timeVars == <<now, day>>
runVars == <<pc, automations, automation, customers, today, loaded, customer, key>>
vars == <<queueVars, timeVars, runVars, faults>>

Queue == INSTANCE MessageDelivery WITH Messages <- Keys

Steps == {"idle", "automation", "customer", "active", "enqueue"}

TypeOK ==
    /\ outcome \in [Keys -> {"NONE", "OPEN", "SENT", "FAILED", "CANCELLED"}]
    /\ accepted \in [Keys -> BOOLEAN]
    /\ history \in [Keys -> {"NONE", "SENT", "FAILED"}]
    /\ sentAt \in [Keys -> Nat] /\ sentOn \in [Keys -> Days]
    /\ storedOn \in [Keys -> Days] /\ decidedOn \in [Keys -> Days]
    /\ now \in Nat /\ day \in Days
    /\ pc \in [Runs -> Steps]
    /\ automations \in [Runs -> SUBSET Recurring]
    /\ automation \in [Runs -> Automations \union {None}]
    /\ customers \in [Runs -> SUBSET Customers]
    /\ today \in [Runs -> Days] /\ loaded \in [Runs -> Days]
    /\ customer \in [Runs -> Customers \union {None}]
    /\ key \in [Runs -> Keys \union {None}]
    /\ \A r \in Runs :
          /\ pc[r] \in {"customer", "active", "enqueue"} => automation[r] # None
          /\ pc[r] \in {"active", "enqueue"} => customer[r] # None
          /\ pc[r] = "enqueue" => key[r] # None
    /\ faults \in Nat

Init ==
    /\ Queue!Init
    /\ sentAt = [k \in Keys |-> 0] /\ sentOn = [k \in Keys |-> 0]
    /\ storedOn = [k \in Keys |-> 0] /\ decidedOn = [k \in Keys |-> 0]
    /\ now = 0 /\ day = 0
    /\ pc = [r \in Runs |-> "idle"]
    /\ automations = [r \in Runs |-> {}]
    /\ automation = [r \in Runs |-> None]
    /\ customers = [r \in Runs |-> {}]
    /\ today = [r \in Runs |-> 0] /\ loaded = [r \in Runs |-> 0]
    /\ customer = [r \in Runs |-> None]
    /\ key = [r \in Runs |-> None]
    /\ faults = 0

------------------------------------------------------------------------------
(* Around the engine *)

\* Time passes, perhaps midnight, whatever the runs are at.
Hour ==
    /\ now < MaxTime
    /\ now' = now + 1
    /\ UNCHANGED <<queueVars, day, runVars, faults>>

Midnight ==
    /\ now < MaxTime /\ day < MaxDay
    /\ now' = now + 1 /\ day' = day + 1
    /\ UNCHANGED <<queueVars, runVars, faults>>

\* The worker works on the queue.
QueueWorks(k) ==
    /\ \/ ~accepted[k] /\ Queue!Accept(k) /\ UNCHANGED <<sentAt, sentOn>>
       \/ /\ Queue!Conclude(k, "SENT")
          /\ sentAt' = [sentAt EXCEPT ![k] = now]
          /\ sentOn' = [sentOn EXCEPT ![k] = day]
       \/ Queue!Conclude(k, "FAILED") /\ UNCHANGED <<sentAt, sentOn>>
       \/ Queue!Withdraw(k) /\ UNCHANGED <<sentAt, sentOn>>
    /\ UNCHANGED <<storedOn, decidedOn, timeVars, runVars, faults>>

------------------------------------------------------------------------------
(* One run *)

Goto(r, step) == pc' = [pc EXCEPT ![r] = step]

\* An exception ends the run: the rest of its customers and automations are
\* not processed.
Abort(r) ==
    /\ Goto(r, "idle")
    /\ automations' = [automations EXCEPT ![r] = {}]
    /\ automation' = [automation EXCEPT ![r] = None]
    /\ customers' = [customers EXCEPT ![r] = {}]
    /\ customer' = [customer EXCEPT ![r] = None]
    /\ key' = [key EXCEPT ![r] = None]
    /\ today' = [today EXCEPT ![r] = 0]
    /\ loaded' = [loaded EXCEPT ![r] = 0]

\* A database call fails, the process dies, or an automation without message or
\* daysAfter makes the assertion on its configuration throw.
RunFails(r) ==
    /\ pc[r] # "idle"
    /\ faults < MaxFaults
    /\ faults' = faults + 1
    /\ Abort(r)
    /\ UNCHANGED <<queueVars, timeVars>>

\* handleCron: A is active, campaigns are skipped.
StartTick(r, A) ==
    /\ pc[r] = "idle"
    /\ Steady \subseteq A
    /\ Goto(r, "automation")
    /\ automations' = [automations EXCEPT ![r] = A]
    /\ UNCHANGED <<queueVars, timeVars, automation, customers, today, loaded,
                   customer, key, faults>>

\* enqueueCampaign: some of the eligible customers are chosen.  Content that is
\* missing or too long is refused before the first of them, with no effect.
StartDispatch(r, a, C) ==
    /\ pc[r] = "idle"
    /\ a \in Campaigns
    /\ Goto(r, "customer")
    /\ automation' = [automation EXCEPT ![r] = a]
    /\ customers' = [customers EXCEPT ![r] = C]
    /\ UNCHANGED <<queueVars, timeVars, automations, today, loaded, customer, key,
                   faults>>

\* Mutant of LoadCustomers: the tick returns after its first automation.
LoadCustomersOnce(r, a, C) ==
    /\ pc[r] = "automation"
    /\ a \in automations[r]
    /\ Willing \subseteq C
    /\ automations' = [automations EXCEPT ![r] = {}]
    /\ automation' = [automation EXCEPT ![r] = a]
    /\ customers' = [customers EXCEPT ![r] = C]
    /\ today' = [today EXCEPT ![r] = day]
    /\ loaded' = [loaded EXCEPT ![r] = day]
    /\ Goto(r, "customer")
    /\ UNCHANGED <<queueVars, timeVars, customer, key, faults>>

\* Mutant of LoadCustomers: the day is formatted once, when the process starts.
LoadCustomersOldDay(r, a, C) ==
    /\ pc[r] = "automation"
    /\ a \in automations[r]
    /\ Willing \subseteq C
    /\ automations' = [automations EXCEPT ![r] = @ \ {a}]
    /\ automation' = [automation EXCEPT ![r] = a]
    /\ customers' = [customers EXCEPT ![r] = C]
    /\ loaded' = [loaded EXCEPT ![r] = day]
    /\ Goto(r, "customer")
    /\ UNCHANGED <<queueVars, timeVars, today, customer, key, faults>>

\* handleReactivation and handleBirthday load their customers; C is eligible.
LoadCustomers(r, a, C) ==
    /\ pc[r] = "automation"
    /\ a \in automations[r]
    /\ Willing \subseteq C
    /\ automations' = [automations EXCEPT ![r] = @ \ {a}]
    /\ automation' = [automation EXCEPT ![r] = a]
    /\ customers' = [customers EXCEPT ![r] = C]
    /\ today' = [today EXCEPT ![r] = day]
    /\ loaded' = [loaded EXCEPT ![r] = day]
    /\ Goto(r, "customer")
    /\ UNCHANGED <<queueVars, timeVars, customer, key, faults>>

EndTick(r) ==
    /\ pc[r] = "automation" /\ automations[r] = {}
    /\ Abort(r)
    /\ UNCHANGED <<queueVars, timeVars, faults>>

\* All customers are processed: the tick's next automation, or the end of the
\* dispatch.
EndCustomers(r) ==
    /\ pc[r] = "customer" /\ customers[r] = {}
    /\ IF automation[r] \in Campaigns
         THEN Abort(r)
         ELSE /\ Goto(r, "automation")
              /\ automation' = [automation EXCEPT ![r] = None]
              /\ today' = [today EXCEPT ![r] = 0]
              /\ loaded' = [loaded EXCEPT ![r] = 0]
              /\ UNCHANGED <<automations, customers, customer, key>>
    /\ UNCHANGED <<queueVars, timeVars, faults>>

IsDue(r, c) ==
    \/ Kind[automation[r]] = "REACTIVATION" /\ now >= DueFrom[c]
    \/ Kind[automation[r]] = "BIRTHDAY" /\ Birthday[c] = today[r]

\* Mutant of RecentlySent: the bound is compared the wrong way round.
SentLongAgo(a, c) ==
    \E d \in Days :
        history[<<a, c, d>>] = "SENT" /\ sentAt[<<a, c, d>>] + Cooldown[a] < now

\* canSendMessage: a SENT log within the cooldown.
RecentlySent(a, c) ==
    \E d \in Days :
        history[<<a, c, d>>] = "SENT" /\ sentAt[<<a, c, d>>] + Cooldown[a] >= now

\* The next customer: skipped, or on to the check for open messages.
CheckCooldown(r, c) ==
    /\ pc[r] = "customer"
    /\ c \in customers[r]
    /\ customers' = [customers EXCEPT ![r] = @ \ {c}]
    /\ IF automation[r] \in Campaigns \/ (IsDue(r, c) /\ ~RecentlySent(automation[r], c))
         THEN Goto(r, "active") /\ customer' = [customer EXCEPT ![r] = c]
         ELSE UNCHANGED <<pc, customer>>
    /\ UNCHANGED <<queueVars, timeVars, automations, automation, today, loaded, key,
                   faults>>

\* Mutant of HasOpen: only the day's own message counts.
HasOpenToday(a, c) == outcome[<<a, c, day>>] = "OPEN"

\* The customer already has a PENDING or PROCESSING message of the automation.
HasOpen(a, c) == \E d \in Days : outcome[<<a, c, d>>] = "OPEN"

\* buildIdempotencyKey, and the key of a campaign.
KeyOf(a, c) == <<a, c, IF a \in Campaigns THEN 0 ELSE day>>

\* sendMessage, enqueueCampaignMessage: skip, or build the key for the enqueue.
CheckActive(r) ==
    /\ pc[r] = "active"
    /\ IF HasOpen(automation[r], customer[r])
         THEN /\ Goto(r, "customer")
              /\ customer' = [customer EXCEPT ![r] = None]
              /\ UNCHANGED key
         ELSE /\ Goto(r, "enqueue")
              /\ key' = [key EXCEPT ![r] = KeyOf(automation[r], customer[r])]
              /\ UNCHANGED customer
    /\ UNCHANGED <<queueVars, timeVars, automations, automation, customers, today,
                   loaded, faults>>

\* QueueService.enqueue: a stored key is left as it is; a new message needs a
\* channel, and content.
Enqueue(r) ==
    /\ pc[r] = "enqueue"
    /\ \E k \in Keys :
          /\ key[r] = k
          /\ \/ /\ outcome[k] # "NONE"
                /\ UNCHANGED <<outcome, accepted, history, storedOn, decidedOn>>
             \/ /\ <<k[1], k[2]>> \notin Unsendable
                /\ Queue!Submit(k)
                /\ storedOn' = [storedOn EXCEPT ![k] = day]
                /\ decidedOn' = [decidedOn EXCEPT ![k] = loaded[r]]
    /\ Goto(r, "customer")
    /\ key' = [key EXCEPT ![r] = None]
    /\ customer' = [customer EXCEPT ![r] = None]
    /\ UNCHANGED <<sentAt, sentOn, timeVars, automations, automation, customers, today,
                   loaded, faults>>

EnqueueThrows(r) ==
    /\ pc[r] = "enqueue"
    /\ <<automation[r], customer[r]>> \in Unsendable
    /\ outcome[key[r]] = "NONE"
    /\ Abort(r)
    /\ UNCHANGED <<queueVars, timeVars, faults>>

------------------------------------------------------------------------------
(* The specification *)

Proceed(r) ==
    \/ \E a \in automations[r], C \in SUBSET Customers : LoadCustomers(r, a, C)
    \/ EndTick(r)
    \/ EndCustomers(r)
    \/ \E c \in customers[r] : CheckCooldown(r, c)
    \/ CheckActive(r)
    \/ Enqueue(r)
    \/ EnqueueThrows(r)

Next ==
    \/ Hour \/ Midnight
    \/ \E k \in Keys : QueueWorks(k)
    \/ \E r \in Runs :
          \/ \E A \in SUBSET Recurring : StartTick(r, A)
          \/ \E a \in Campaigns, C \in SUBSET Customers : StartDispatch(r, a, C)
          \/ Proceed(r)
          \/ RunFails(r)

Spec == Init /\ [][Next]_vars

------------------------------------------------------------------------------
(* Properties *)

\* An automation never has two open messages for one customer, however ticks overlap:
\* the key, with the day, is what the second of two runs that found no open message runs
\* into.  The one exception is a message whose key was built before midnight and that
\* was stored after it, beside one of the new day.
OneOpenPerPair ==
    \A a \in Automations, c \in Customers, d, e \in Days :
        d < e /\ outcome[<<a, c, d>>] = "OPEN" /\ outcome[<<a, c, e>>] = "OPEN"
            => storedOn[<<a, c, d>>] > d

\* A message of a recurring automation that is sent on its own day is followed by
\* the next one the customer is sent only after the cooldown, if the run that decided on
\* that one had loaded its customers on its day.
CooldownRespected ==
    \A a \in Recurring, c \in Customers, d, e \in Days :
        /\ d < e /\ history[<<a, c, d>>] = "SENT" /\ history[<<a, c, e>>] = "SENT"
        /\ sentOn[<<a, c, d>>] = d /\ decidedOn[<<a, c, e>>] = e
        => sentAt[<<a, c, d>>] + Cooldown[a] < sentAt[<<a, c, e>>]

\* Two messages of a recurring automation that a customer is sent are always apart
\* by the cooldown, as canSendMessage is tested to see to.  The code does not, not even
\* if no run spans midnight: a message that stays in the queue past midnight may be sent
\* between its two reads.
CooldownAlways ==
    \A a \in Recurring, c \in Customers, d, e \in Days :
        /\ d < e /\ history[<<a, c, d>>] = "SENT" /\ history[<<a, c, e>>] = "SENT"
        /\ decidedOn[<<a, c, e>>] = e
        => sentAt[<<a, c, d>>] + Cooldown[a] < sentAt[<<a, c, e>>]

\* A birthday message is never decided on but by a tick that loaded its customers on the
\* customer's birthday, and its key is of no day before that: midnight may overtake the
\* tick, and the key is then of the day after although the day compared is the birthday.
\* A message that is stored on the birthday has the birthday in its key.
BirthdayOnItsDay ==
    \A a \in Automations, c \in Customers, d \in Days :
        Kind[a] = "BIRTHDAY" /\ outcome[<<a, c, d>>] # "NONE" =>
            /\ decidedOn[<<a, c, d>>] = Birthday[c]
            /\ Birthday[c] <= d /\ d <= storedOn[<<a, c, d>>]

\* A tick that comes to its end has left no customer without a message whom a
\* reactivation that stays active found due: whatever else it skipped, and however
\* it overlapped with other runs.
CompletedTickContacts ==
    \A r \in Runs, a \in Steady, c \in Willing :
        /\ pc[r] = "automation" /\ automations[r] = {}
        /\ Kind[a] = "REACTIVATION" /\ DueFrom[c] = 0
        => \E d \in Days : outcome[<<a, c, d>>] # "NONE"

\* The awaits that are left of the customer in hand, at most.
AwaitsLeft == [active |-> 3, enqueue |-> 2, customer |-> 1, automation |-> 0, idle |-> 0]

\* Every await of a tick or a dispatch that returns brings it closer to its end, however
\* runs overlap: it goes through the automations and customers it has loaded once.
RunProgress(r) ==
    pc[r] # "idle" =>
        \/ /\ pc'[r] = pc[r] /\ automations'[r] = automations[r]
           /\ customers'[r] = customers[r]
        \/ pc'[r] = "idle"
        \/ automations'[r] \subseteq automations[r] /\ automations'[r] # automations[r]
        \/ /\ automations'[r] = automations[r]
           /\ \/ customers'[r] \subseteq customers[r] /\ customers'[r] # customers[r]
              \/ customers'[r] = customers[r] /\ AwaitsLeft[pc'[r]] < AwaitsLeft[pc[r]]

RunsEnd == [][\A r \in Runs : RunProgress(r)]_vars

------------------------------------------------------------------------------
(* The inductive invariant *)

Working == {"customer", "active", "enqueue"}

\* What a run read of the day, which midnight may have ended since: the key in hand is
\* of no day before it, and no message of a day before the key's is open unless it was
\* stored late.
RunInv(r) ==
    /\ pc[r] \in Working /\ automation[r] \in Recurring =>
          today[r] = loaded[r] /\ loaded[r] <= day
    /\ pc[r] \in {"active", "enqueue"} /\ Kind[automation[r]] = "BIRTHDAY" =>
          Birthday[customer[r]] = loaded[r]
    /\ pc[r] = "enqueue" /\ automation[r] \in Campaigns => key[r][3] = 0
    /\ pc[r] = "enqueue" /\ automation[r] \in Recurring =>
          /\ loaded[r] <= key[r][3] /\ key[r][3] <= day
          /\ \A d \in Days :
                d < key[r][3] /\ outcome[<<automation[r], customer[r], d>>] = "OPEN"
                    => storedOn[<<automation[r], customer[r], d>>] > d

RunsInv == \A r \in Runs : RunInv(r)

\* Keys hold a day between the run's and the row's, and a history entry has a message.
KeyInv(a, c, d) ==
    /\ outcome[<<a, c, d>>] # "NONE" =>
          IF a \in Campaigns
            THEN d = 0
            ELSE /\ decidedOn[<<a, c, d>>] <= d /\ d <= storedOn[<<a, c, d>>]
                 /\ storedOn[<<a, c, d>>] <= day
    /\ outcome[<<a, c, d>>] \in {"NONE", "OPEN"} => history[<<a, c, d>>] = "NONE"
    /\ sentAt[<<a, c, d>>] <= now

KeysInv ==
    \A a \in Automations, c \in Customers, d \in Days : KeyInv(a, c, d)

DayInv == RunsInv /\ KeysInv /\ OneOpenPerPair /\ BirthdayOnItsDay

\* Messages sent on their day were sent before the cooldown, where a run decided on
\* a later one and where a later one is enqueued.
SentEarlier(a, c, d) == history[<<a, c, d>>] = "SENT" /\ sentOn[<<a, c, d>>] = d

CooledDown(a, c, d) == sentAt[<<a, c, d>>] + Cooldown[a] < now

DecidedAfterCooldown ==
    \A r \in Runs, d \in Days :
        /\ pc[r] \in {"active", "enqueue"} /\ automation[r] \in Recurring
        /\ d < loaded[r] /\ SentEarlier(automation[r], customer[r], d)
        => CooledDown(automation[r], customer[r], d)

EnqueuedAfterCooldown ==
    \A a \in Recurring, c \in Customers, d, e \in Days :
        /\ d < e /\ SentEarlier(a, c, d)
        /\ outcome[<<a, c, e>>] # "NONE" /\ decidedOn[<<a, c, e>>] = e
        => CooledDown(a, c, d)

CooldownInv == DecidedAfterCooldown /\ EnqueuedAfterCooldown /\ CooldownRespected

\* A tick has contacted whom it is through with.
Contacted(a, c) == \E d \in Days : outcome[<<a, c, d>>] # "NONE"

ThroughWith(r, a, c) ==
    /\ automations[r] \subseteq Recurring \ {a}
    /\ \/ pc[r] = "automation"
       \/ pc[r] \in Working /\ automation[r] \in Recurring \ {a}
       \/ pc[r] = "customer" /\ automation[r] = a /\ c \notin customers[r]
       \/ pc[r] \in {"active", "enqueue"} /\ automation[r] = a
            /\ c \notin customers[r] \union {customer[r]}

LogsInv == \A k \in Keys : history[k] # "NONE" => outcome[k] # "NONE"

HeldKeysInv ==
    \A r \in Runs :
        pc[r] = "enqueue" => \E d \in Days : key[r] = <<automation[r], customer[r], d>>

ContactInv ==
    \A r \in Runs, a \in Steady, c \in Willing :
        /\ Kind[a] = "REACTIVATION" /\ DueFrom[c] = 0 /\ ThroughWith(r, a, c)
        => Contacted(a, c)

ReachInv == LogsInv /\ HeldKeysInv /\ ContactInv

IInv == TypeOK /\ ReachInv /\ DayInv /\ CooldownInv
==============================================================================
