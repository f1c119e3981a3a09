-------------------------- MODULE CustomerInterests ---------------------------
(***************************************************************************)
(* The interests of the customers of a company: the options, which are     *)
(* offered or withdrawn, the customers they are assigned to, and the link  *)
(* through which customers register themselves (src/backend/src/           *)
(* customer-interest/ and customer-registration/, and remove of            *)
(* customer/customer.service.ts).                                          *)
(*                                                                         *)
(* Assignments and registrations are serializable transactions that try    *)
(* again; options and links are written outside of transactions, at any    *)
(* time.  What the phone of a new customer collides with is in             *)
(* CustomerRegistry: here it may refuse any registration.                  *)
(***************************************************************************)
EXTENDS Naturals

CONSTANTS
    Contacts,     \* ids of customers, never used again
    Options,      \* ids of interest options
    Wishes,       \* sets of options that requests ask for
    PublicIds,    \* public ids that are generated for the link
    Sessions,     \* requests handled at the same time
    NoLink

ASSUME InterestsAssumption ==
    /\ Wishes \subseteq SUBSET Options
    /\ NoLink \notin PublicIds /\ Options \intersect PublicIds = {}

MAX_INTEREST_ATTEMPTS == 3

VARIABLES
    option,       \* an option is missing, active or inactive
    contact,      \* a customer is missing, registered or removed
    interests,    \* the rows of customerInterest
    link,         \* the public id of the company's link
    open,         \* the link and the company are active
    issued,       \* public ids generated so far
    step,         \* the await a request stands at
    task,         \* what it was asked to do
    tries,        \* its transaction, or its public id
    seen,         \* the interests its transaction has read
    chosen,       \* what the last request that wrote a customer's interests asked for
    overtaken,    \* requests whose customer was written since by another transaction
    withdrawn     \* options and links withdrawn since the transaction began

linkVars == <<link, open, issued>>
sessionVars == <<step, task, tries, seen>>
ghostVars == <<chosen, overtaken, withdrawn>>
interestVars == <<option, contact, interests, linkVars, sessionVars, ghostVars>>

Rest == [op |-> "none"]
Tasks ==
    {Rest}
        \union [op : {"assign"}, id : Contacts, wanted : Wishes]
        \union [op : {"register"}, link : PublicIds, wanted : Wishes]
        \union [op : {"remove"}, id : Contacts]
        \union [op : {"createLink", "rotateLink"}]

InterestsTypeOK ==
    /\ option \in [Options -> {"missing", "active", "inactive"}]
    /\ contact \in [Contacts -> {"missing", "registered", "removed"}]
    /\ interests \in [Contacts -> SUBSET Options]
    /\ link \in PublicIds \union {NoLink} /\ open \in BOOLEAN
    /\ issued \in SUBSET PublicIds
    /\ step \in [Sessions -> {"rest", "begin", "commit", "generate", "delete"}]
    /\ task \in [Sessions -> Tasks]
    /\ tries \in [Sessions -> 0..MAX_INTEREST_ATTEMPTS]
    /\ seen \in [Sessions -> SUBSET Options]
    /\ chosen \in [Contacts -> SUBSET Options]
    /\ overtaken \in SUBSET Sessions
    /\ withdrawn \in [Sessions -> SUBSET (Options \union PublicIds)]

InterestsInit ==
    /\ option \in [Options -> {"missing", "active", "inactive"}]
    /\ contact \in [Contacts -> {"missing", "registered"}]
    /\ interests = [c \in Contacts |-> {}]
    /\ link = NoLink /\ open = FALSE /\ issued = {}
    /\ step = [s \in Sessions |-> "rest"]
    /\ task = [s \in Sessions |-> Rest]
    /\ tries = [s \in Sessions |-> 0]
    /\ seen = [s \in Sessions |-> {}]
    /\ chosen = [c \in Contacts |-> {}]
    /\ overtaken = {}
    /\ withdrawn = [s \in Sessions |-> {}]

------------------------------------------------------------------------------
(* Helpers *)

Finish(s) ==
    /\ step' = [step EXCEPT ![s] = "rest"]
    /\ task' = [task EXCEPT ![s] = Rest]
    /\ tries' = [tries EXCEPT ![s] = 0]
    /\ seen' = [seen EXCEPT ![s] = {}]

GoTo(s, next) ==
    /\ step' = [step EXCEPT ![s] = next]
    /\ UNCHANGED <<task, tries, seen>>

\* A transaction begins, or is over, and nothing has happened since.
Anew(s) ==
    /\ overtaken' = overtaken \ {s}
    /\ withdrawn' = [withdrawn EXCEPT ![s] = {}]

\* What has to be on offer for the transaction to be right.
Needed(s) ==
    CASE step[s] # "commit" -> {}
      [] task[s].op = "register" -> task[s].wanted \union {task[s].link}
      [] task[s].op = "assign" -> task[s].wanted \ seen[s]

Withdraw(what) ==
    withdrawn' = [s \in Sessions |-> withdrawn[s] \union (what \intersect Needed(s))]

\* Whoever registers has been given the link.
StartTask(s, t) ==
    /\ step[s] = "rest"
    /\ t.op = "register" => t.link \in issued
    /\ step' = [step EXCEPT ![s] = "begin"]
    /\ task' = [task EXCEPT ![s] = t]
    /\ tries' = [tries EXCEPT ![s] = 1]
    /\ UNCHANGED <<option, contact, interests, linkVars, seen, ghostVars>>

\* A query fails or the process dies; an open transaction is rolled back.
FailTask(s) ==
    /\ step[s] # "rest"
    /\ Finish(s) /\ Anew(s)
    /\ UNCHANGED <<option, contact, interests, linkVars, chosen>>

------------------------------------------------------------------------------
(* Options *)

\* create: names are kept apart by an index.
CreateOption(o) ==
    /\ option[o] = "missing"
    /\ option' = [option EXCEPT ![o] = "active"]
    /\ UNCHANGED <<contact, interests, linkVars, sessionVars, ghostVars>>

\* updateStatus.
SetOptionStatus(o, s) ==
    /\ option[o] \notin {"missing", s}
    /\ option' = [option EXCEPT ![o] = s]
    /\ Withdraw(IF s = "inactive" THEN {o} ELSE {})
    /\ UNCHANGED <<contact, interests, linkVars, sessionVars, chosen, overtaken>>

------------------------------------------------------------------------------
(* The link *)

\* create and rotate: a company has one link, or none.
FindLink(s) ==
    /\ step[s] = "begin"
    /\ task[s].op \in {"createLink", "rotateLink"}
    /\ IF (link = NoLink) = (task[s].op = "createLink") THEN GoTo(s, "generate") ELSE Finish(s)
    /\ UNCHANGED <<option, contact, interests, linkVars, ghostVars>>

\* A public id is generated and written.  It may be in use, up to three times; and
\* another request may have created the link meanwhile.
WriteLink(s) ==
    /\ step[s] = "generate"
    /\ \/ /\ task[s].op = "rotateLink" \/ link = NoLink
          /\ link' \in PublicIds \ issued
          /\ issued' = issued \union {link'}
          /\ open' = (open \/ link = NoLink)
          /\ Withdraw({link} \ {NoLink})
          /\ Finish(s)
       \/ /\ task[s].op = "createLink" /\ link # NoLink
          /\ Finish(s)
          /\ UNCHANGED <<linkVars, withdrawn>>
       \/ /\ IF tries[s] < MAX_INTEREST_ATTEMPTS
               THEN tries' = [tries EXCEPT ![s] = @ + 1] /\ UNCHANGED <<step, task, seen>>
               ELSE Finish(s)
          /\ UNCHANGED <<linkVars, withdrawn>>
    /\ UNCHANGED <<option, contact, interests, chosen, overtaken>>

\* updateStatus, and the status of the company.
SetLinkStatus ==
    /\ link # NoLink
    /\ open' = ~open
    /\ Withdraw(IF open THEN {link} ELSE {})
    /\ UNCHANGED <<option, contact, interests, link, issued, sessionVars, chosen, overtaken>>

------------------------------------------------------------------------------
(* Assignment and registration *)

\* Mutant of LinkAvailable: the link is resolved once for all transactions.
LinkAvailableAtFirst(s) == tries[s] > 1 \/ (link = task[s].link /\ open)

\* resolveAvailableLink.
LinkAvailable(s) == link = task[s].link /\ open

\* update: the options exist, and those that are new to the customer are active.
MayAssign(t) ==
    /\ contact[t.id] = "registered"
    /\ \A o \in t.wanted :
          option[o] = "active" \/ (option[o] = "inactive" /\ o \in interests[t.id])

\* submit: the options exist and are active.
MayRegister(s) ==
    /\ LinkAvailable(s)
    /\ \A o \in task[s].wanted : option[o] = "active"

\* The reads of the transaction, all of one snapshot.
BeginInterests(s) ==
    LET t == task[s] IN
    /\ step[s] = "begin"
    /\ t.op \in {"assign", "register"}
    /\ \/ /\ IF t.op = "assign" THEN MayAssign(t) ELSE MayRegister(s)
          /\ step' = [step EXCEPT ![s] = "commit"]
          /\ seen' = [seen EXCEPT ![s] = IF t.op = "assign" THEN interests[t.id] ELSE {}]
          /\ UNCHANGED <<task, tries>>
       \/ /\ t.op = "assign" => ~MayAssign(t)
          /\ Finish(s)
    /\ Anew(s)
    /\ UNCHANGED <<option, contact, interests, linkVars, chosen>>

\* Mutant of Serializable: two transactions may both write what both have read.
SerializableNever(s) == TRUE

Serializable(s) == s \notin overtaken

\* The rows that the transaction deletes and inserts are those its snapshot calls
\* for, which may be none; a customer that was removed since is missed by the
\* foreign key.
CommitAssignment(s) ==
    LET t == task[s] IN
    /\ step[s] = "commit" /\ t.op = "assign"
    /\ \/ /\ t.wanted = seen[s]
          /\ UNCHANGED <<interests, chosen>>
          /\ overtaken' = overtaken \ {s}
       \/ /\ t.wanted # seen[s]
          /\ Serializable(s) /\ contact[t.id] = "registered"
          /\ interests' = [interests EXCEPT
                 ![t.id] = (@ \ (seen[s] \ t.wanted)) \union (t.wanted \ seen[s])]
          /\ chosen' = [chosen EXCEPT ![t.id] = t.wanted]
          /\ overtaken' = (overtaken \ {s}) \union
                 {q \in Sessions \ {s} :
                     step[q] = "commit" /\ task[q].op = "assign" /\ task[q].id = t.id}
    /\ withdrawn' = [withdrawn EXCEPT ![s] = {}]
    /\ Finish(s)
    /\ UNCHANGED <<option, contact, linkVars>>

\* The customer and the interests are inserted together.
CommitRegistration(s) ==
    LET t == task[s] IN
    /\ step[s] = "commit" /\ t.op = "register"
    /\ \E c \in Contacts :
          /\ contact[c] = "missing"
          /\ contact' = [contact EXCEPT ![c] = "registered"]
          /\ interests' = [interests EXCEPT ![c] = t.wanted]
          /\ chosen' = [chosen EXCEPT ![c] = t.wanted]
    /\ Finish(s) /\ Anew(s)
    /\ UNCHANGED <<option, linkVars>>

\* P2034: three transactions at most.
AnotherTry(s) == tries[s] < MAX_INTEREST_ATTEMPTS

AbortInterests(s) ==
    /\ step[s] = "commit"
    /\ IF AnotherTry(s)
         THEN /\ step' = [step EXCEPT ![s] = "begin"]
              /\ tries' = [tries EXCEPT ![s] = @ + 1]
              /\ seen' = [seen EXCEPT ![s] = {}]
              /\ UNCHANGED task
         ELSE Finish(s)
    /\ Anew(s)
    /\ UNCHANGED <<option, contact, interests, linkVars, chosen>>

------------------------------------------------------------------------------
(* Removal of a customer *)

\* deleteMany of the interests there are.
DeleteInterests(s) ==
    /\ step[s] = "begin" /\ task[s].op = "remove"
    /\ IF contact[task[s].id] # "registered" THEN Finish(s)
       ELSE /\ step' = [step EXCEPT ![s] = "delete"]
            /\ seen' = [seen EXCEPT ![s] = interests[task[s].id]]
            /\ UNCHANGED <<task, tries>>
    /\ UNCHANGED <<option, contact, interests, linkVars, ghostVars>>

\* deleteMany of the customer and commit; the foreign key refuses it when interests
\* were added meanwhile.
DeleteContact(s) ==
    LET c == task[s].id IN
    /\ step[s] = "delete"
    /\ IF contact[c] = "registered" /\ interests[c] \subseteq seen[s]
         THEN /\ contact' = [contact EXCEPT ![c] = "removed"]
              /\ interests' = [interests EXCEPT ![c] = {}]
              /\ chosen' = [chosen EXCEPT ![c] = {}]
         ELSE UNCHANGED <<contact, interests, chosen>>
    /\ Finish(s)
    /\ UNCHANGED <<option, linkVars, overtaken, withdrawn>>

InterestsNext ==
    \/ \E o \in Options : CreateOption(o) \/ \E s \in {"active", "inactive"} : SetOptionStatus(o, s)
    \/ SetLinkStatus
    \/ \E s \in Sessions :
          \/ \E t \in Tasks \ {Rest} : StartTask(s, t)
          \/ FindLink(s) \/ WriteLink(s)
          \/ BeginInterests(s) \/ CommitAssignment(s) \/ CommitRegistration(s)
          \/ AbortInterests(s)
          \/ DeleteInterests(s) \/ DeleteContact(s)
          \/ FailTask(s)

InterestsSpec == InterestsInit /\ [][InterestsNext]_interestVars

------------------------------------------------------------------------------
(* Properties *)

\* However the requests overlap, the interests of a customer are those that one
\* request asked for, the last that was written, and never a mixture of two.
InterestsAreOneRequest == \A c \in Contacts : interests[c] = chosen[c]

\* What a transaction is about to write was on offer when it began, also if it is
\* the second or third: it uses a link or adds an option that has been withdrawn only
\* if that happened while it ran.
CommitsWhatWasOffered ==
    \A s \in Sessions :
        step[s] = "commit" =>
            /\ task[s].op = "register" =>
                  (link = task[s].link /\ open) \/ task[s].link \in withdrawn[s]
            /\ \A o \in task[s].wanted \ seen[s] :
                  option[o] = "active" \/ o \in withdrawn[s]
==============================================================================
