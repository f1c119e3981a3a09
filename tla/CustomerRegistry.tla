--------------------------- MODULE CustomerRegistry ---------------------------
(***************************************************************************)
(* The customers of a company and everything that writes their phone, CPF  *)
(* or consent: CustomerService, CustomerImportService and                  *)
(* CustomerConsentService (src/backend/src/customer/), the public          *)
(* registration (customer-registration/) and the opt-out by WhatsApp       *)
(* (webhook/).                                                             *)
(*                                                                         *)
(* A CPF is unique by an index; a phone is not: every writer looks it up   *)
(* first, under the forms in which it may be stored.  The import and the   *)
(* registration do so in a serializable transaction, the others query by   *)
(* query.  Customers and opt-outs meet here, where requests overlap.       *)
(***************************************************************************)
EXTENDS Naturals, Sequences

CONSTANTS
    Customers,    \* ids, never used again
    Mobile,       \* mobile lines: with or without the ninth digit
    Fixed,        \* fixed lines
    Cpfs,
    Entries,      \* what is entered to create or register a customer
    Edits,        \* what is entered to update one
    Files,        \* files to import, as sequences of rows
    Requests,     \* requests handled at the same time
    Unused, Removed,      \* an id that has no row yet, or no longer
    NoCustomer, NoCpf, Keep

Lines == Mobile \union Fixed
Phones == [line : Lines, legacy : {FALSE}] \union [line : Mobile, legacy : {TRUE}]
Consents == {"UNKNOWN", "GRANTED", "OPTED_OUT"}
Rows == [phone : Phones, cpf : Cpfs \union {NoCpf}, consent : Consents]

ASSUME RegistryAssumption ==
    /\ Mobile \intersect Fixed = {}
    /\ NoCustomer \notin Customers
    /\ Unused # Removed /\ {Unused, Removed} \intersect Rows = {}
    /\ NoCpf \notin Cpfs /\ Keep \notin Cpfs \union {NoCpf} \union Phones
    /\ Entries \subseteq [phone : Phones, cpf : Cpfs \union {NoCpf}]
    /\ Edits \subseteq [phone : Phones \union {Keep}, cpf : Cpfs \union {NoCpf, Keep}]
    /\ Files \subseteq Seq([phone : Phones, consent : Consents])

MAX_REGISTRATION_ATTEMPTS == 3

VARIABLES
    customer,      \* the rows; an id without one is not used yet, or removed
    stage,         \* the await a request stands at
    job,           \* what it was asked to do
    attempt,       \* its transaction, when it tries again
    fresh,         \* the rows it is about to insert
    left,          \* the customers an opt-out has yet to write
    target,        \* the customer whose consent is being written
    processed,     \* requests that have ended with an opt-out processed to its end
    plainSince,    \* lines written query by query since a request looked its own up
    serialSince,   \* lines written by serializable transactions since then
    raced,         \* lines stored twice from the start, or written by two writers at
                   \* once that were not both serializable
    owed           \* customers an opt-out has found and nobody has granted since

workVars == <<job, attempt, fresh, left, target>>
requestVars == <<stage, workVars, processed>>
sinceVars == <<plainSince, serialSince>>
registryVars == <<customer, requestVars, sinceVars, raced, owed>>

Idle == [op |-> "none"]
Jobs ==
    {Idle}
        \union [op : {"create"}, phone : Phones, cpf : Cpfs \union {NoCpf}]
        \union [op : {"update"}, id : Customers, phone : Phones \union {Keep},
                cpf : Cpfs \union {NoCpf, Keep}]
        \union [op : {"import"}, file : Files]
        \union [op : {"register"}, phone : Phones, cpf : Cpfs \union {NoCpf},
                consent : {"GRANTED", "OPTED_OUT"}]
        \union [op : {"consent"}, id : Customers, consent : {"GRANTED", "OPTED_OUT"}]
        \union [op : {"optOut"}, phone : Phones]
        \union [op : {"remove"}, id : Customers]

Stages == {"idle", "existing", "phone", "cpf", "insert", "write", "begin", "commit",
           "lookup", "consent", "consentWrite", "remove"}

RegistryTypeOK ==
    /\ customer \in [Customers -> Rows \union {Unused, Removed}]
    /\ stage \in [Requests -> Stages]
    /\ job \in [Requests -> Jobs]
    /\ attempt \in [Requests -> 0..MAX_REGISTRATION_ATTEMPTS]
    /\ fresh \in [Requests -> SUBSET Rows]
    /\ left \in [Requests -> SUBSET Customers]
    /\ target \in [Requests -> Customers \union {NoCustomer}]
    /\ processed \in SUBSET Requests
    /\ plainSince \in [Requests -> SUBSET Lines]
    /\ serialSince \in [Requests -> SUBSET Lines]
    /\ raced \in SUBSET Lines
    /\ owed \in [Requests -> SUBSET Customers]
    /\ \A r \in Requests :
          /\ stage[r] = "idle" <=> job[r] = Idle
          /\ stage[r] = "consentWrite" => target[r] # NoCustomer

Present == {c \in Customers : customer[c] \notin {Unused, Removed}}

\* Whatever was stored before, from the time before phones were made canonical: mobile
\* lines also without the ninth digit, and lines of several customers.
RegistryInit ==
    /\ customer \in [Customers -> Rows \union {Unused}]
    /\ \A c, d \in Present :
          c # d /\ customer[c].cpf = customer[d].cpf => customer[c].cpf = NoCpf
    /\ stage = [r \in Requests |-> "idle"]
    /\ job = [r \in Requests |-> Idle]
    /\ attempt = [r \in Requests |-> 0]
    /\ fresh = [r \in Requests |-> {}]
    /\ left = [r \in Requests |-> {}]
    /\ target = [r \in Requests |-> NoCustomer]
    /\ processed = {}
    /\ plainSince = [r \in Requests |-> {}]
    /\ serialSince = [r \in Requests |-> {}]
    /\ raced = {l \in Lines : \E c, d \in Present :
                     c # d /\ customer[c].phone.line = l /\ customer[d].phone.line = l}
    /\ owed = [r \in Requests |-> {}]

------------------------------------------------------------------------------
(* Phones *)

\* canonicalizeBrazilianMobilePhone puts the ninth digit in.
Canonical(p) == [p EXCEPT !.legacy = FALSE]

\* Mutant of Variants: only the canonical form.
VariantsCanonical(p) == {Canonical(p)}

\* getCustomerPhoneIdentityVariants.
Variants(p) == {Canonical(p)} \union
    (IF p.line \in Mobile THEN {[Canonical(p) EXCEPT !.legacy = TRUE]} ELSE {})

PhoneTaken(p, self) == \E c \in Present \ self : customer[c].phone \in Variants(p)
CpfTaken(k, self) == \E c \in Present \ self : customer[c].cpf = k

------------------------------------------------------------------------------
(* Helpers *)

Answer(r, how) ==
    /\ stage' = [stage EXCEPT ![r] = "idle"]
    /\ job' = [job EXCEPT ![r] = Idle]
    /\ attempt' = [attempt EXCEPT ![r] = 0]
    /\ fresh' = [fresh EXCEPT ![r] = {}]
    /\ left' = [left EXCEPT ![r] = {}]
    /\ target' = [target EXCEPT ![r] = NoCustomer]
    /\ processed' = IF how = "processed" THEN processed \union {r} ELSE processed \ {r}

Proceed(r, s) ==
    /\ stage' = [stage EXCEPT ![r] = s]
    /\ UNCHANGED <<workVars, processed>>

\* From here on the request relies on what it has read of phones.
Watch(r) ==
    /\ plainSince' = [plainSince EXCEPT ![r] = {}]
    /\ serialSince' = [serialSince EXCEPT ![r] = {}]

\* Requests that rely on what they have read of phones.
Relying == {r \in Requests : stage[r] \in {"cpf", "insert", "write", "commit"}}

\* A request ends by writing phones of these lines.
WroteLines(r, lines, serializable) ==
    /\ plainSince' = [q \in Requests |->
           IF q = r THEN {}
           ELSE IF q \in Relying /\ ~serializable THEN plainSince[q] \union lines
           ELSE plainSince[q]]
    /\ serialSince' = [q \in Requests |->
           IF q = r THEN {}
           ELSE IF q \in Relying /\ serializable THEN serialSince[q] \union lines
           ELSE serialSince[q]]
    /\ raced' = raced \union
           (lines \intersect
               (IF serializable THEN plainSince[r] ELSE plainSince[r] \union serialSince[r]))

\* New rows get new ids.
InsertRows(rows) ==
    \E into \in [rows -> {c \in Customers : customer[c] = Unused}] :
        /\ \A x, y \in rows : x # y => into[x] # into[y]
        /\ customer' = [c \in Customers |->
               IF \E x \in rows : into[x] = c THEN CHOOSE x \in rows : into[x] = c
               ELSE customer[c]]

\* A query fails or the process dies: no step of a request undoes another.
FailRequest(r) ==
    /\ stage[r] # "idle"
    /\ Answer(r, "failed")
    /\ Watch(r)
    /\ UNCHANGED <<customer, raced, owed>>

Start(r, j, s) ==
    /\ stage[r] = "idle"
    /\ stage' = [stage EXCEPT ![r] = s]
    /\ job' = [job EXCEPT ![r] = j]
    /\ processed' = processed \ {r}
    /\ owed' = [owed EXCEPT ![r] = {}]
    /\ attempt' = [attempt EXCEPT ![r] = IF s = "begin" THEN 1 ELSE 0]
    /\ target' = [target EXCEPT ![r] = IF s = "consent" THEN j.id ELSE NoCustomer]
    /\ UNCHANGED <<customer, fresh, left, raced, sinceVars>>

------------------------------------------------------------------------------
(* create and update *)

StartCreate(r, e) ==
    Start(r, [op |-> "create", phone |-> Canonical(e.phone), cpf |-> e.cpf], "phone")

\* A CPF may be given, cleared or left alone; so may a phone, but not cleared.
StartUpdate(r, c, e) ==
    Start(r, [op |-> "update", id |-> c, cpf |-> e.cpf,
              phone |-> IF e.phone = Keep THEN Keep ELSE Canonical(e.phone)],
          IF e.cpf \in Cpfs THEN "existing" ELSE IF e.phone # Keep THEN "phone" ELSE "write")

\* update: a customer that is given a CPF must exist.
FindExisting(r) ==
    /\ stage[r] = "existing"
    /\ IF job[r].id \notin Present THEN Answer(r, "refused")
       ELSE Proceed(r, IF job[r].phone # Keep THEN "phone" ELSE "cpf")
    /\ UNCHANGED <<customer, sinceVars, raced, owed>>

\* An update does not collide with the customer it is for.
Self(j) == IF j.op = "update" THEN {j.id} ELSE {}
LastStage(j) == IF j.op = "update" THEN "write" ELSE "insert"

FindPhone(r) ==
    /\ stage[r] = "phone"
    /\ IF PhoneTaken(job[r].phone, Self(job[r])) THEN Answer(r, "refused")
       ELSE Proceed(r, IF job[r].cpf \in Cpfs THEN "cpf" ELSE LastStage(job[r]))
    /\ Watch(r)
    /\ UNCHANGED <<customer, raced, owed>>

FindCpf(r) ==
    /\ stage[r] = "cpf"
    /\ IF CpfTaken(job[r].cpf, Self(job[r])) THEN Answer(r, "refused") /\ Watch(r)
       ELSE Proceed(r, LastStage(job[r])) /\ UNCHANGED sinceVars
    /\ UNCHANGED <<customer, raced, owed>>

NewRow(j) == [phone |-> j.phone, cpf |-> j.cpf,
              consent |-> IF j.op = "register" THEN j.consent ELSE "UNKNOWN"]

\* create: the index refuses a CPF that came in since it was looked up.
Insert(r) ==
    /\ stage[r] = "insert"
    /\ IF job[r].cpf \in Cpfs /\ CpfTaken(job[r].cpf, {})
         THEN /\ Answer(r, "refused") /\ Watch(r)
              /\ UNCHANGED <<customer, raced>>
         ELSE /\ InsertRows({NewRow(job[r])})
              /\ WroteLines(r, {job[r].phone.line}, FALSE)
              /\ Answer(r, "done")
    /\ UNCHANGED owed

\* update: updateMany, which may match nothing any more.
Write(r) ==
    LET j == job[r] IN
    /\ stage[r] = "write"
    /\ IF j.id \notin Present \/ (j.cpf \in Cpfs /\ CpfTaken(j.cpf, {j.id}))
         THEN /\ Answer(r, "refused") /\ Watch(r)
              /\ UNCHANGED <<customer, raced>>
         ELSE /\ customer' = [customer EXCEPT
                     ![j.id].phone = IF j.phone = Keep THEN @ ELSE j.phone,
                     ![j.id].cpf = IF j.cpf = Keep THEN @ ELSE j.cpf]
              /\ WroteLines(r, IF j.phone = Keep THEN {} ELSE {j.phone.line}, FALSE)
              /\ Answer(r, "done")
    /\ UNCHANGED owed

------------------------------------------------------------------------------
(* Import and public registration: a serializable transaction *)

StartImport(r, f) == Start(r, [op |-> "import", file |-> f], "begin")

StartRegistration(r, e, s) ==
    Start(r, [op |-> "register", phone |-> Canonical(e.phone), cpf |-> e.cpf,
              consent |-> s], "begin")

\* classify: the first row of the file for a phone that no customer has.
NewRows(f) ==
    {[phone |-> Canonical(f[i].phone), cpf |-> NoCpf, consent |-> f[i].consent] :
        i \in {i \in 1..Len(f) :
                  /\ ~PhoneTaken(f[i].phone, {})
                  /\ \A h \in 1..(i - 1) : f[h].phone.line # f[i].phone.line}}

\* The reads of the transaction, all of one snapshot.  The link and the options of
\* a registration, which may refuse it, are in CustomerInterests.
Begin(r) ==
    LET j == job[r] IN
    /\ stage[r] = "begin"
    /\ \/ /\ j.op = "import"
          /\ fresh' = [fresh EXCEPT ![r] = NewRows(j.file)]
          /\ stage' = [stage EXCEPT ![r] = "commit"]
          /\ UNCHANGED <<job, attempt, left, target, processed>>
       \/ /\ j.op = "register"
          /\ ~PhoneTaken(j.phone, {}) /\ (j.cpf \in Cpfs => ~CpfTaken(j.cpf, {}))
          /\ fresh' = [fresh EXCEPT ![r] = {NewRow(j)}]
          /\ stage' = [stage EXCEPT ![r] = "commit"]
          /\ UNCHANGED <<job, attempt, left, target, processed>>
       \/ j.op = "register" /\ Answer(r, "refused")
    /\ Watch(r)
    /\ UNCHANGED <<customer, raced, owed>>

\* Mutant of Overtaken: the transaction is not serializable.
OvertakenNever(r) == FALSE

\* Another serializable transaction has inserted a phone that this one looked up
\* in vain, and is about to insert: both cannot commit.
Overtaken(r) == \E x \in fresh[r] : x.phone.line \in serialSince[r]

MayTryAgain(r) == job[r].op = "register" /\ attempt[r] < MAX_REGISTRATION_ATTEMPTS

\* P2034: Postgres may also abort a transaction that collides with nothing.  Only
\* the registration tries again.
Abort(r) ==
    /\ stage[r] = "commit"
    /\ IF MayTryAgain(r)
         THEN /\ stage' = [stage EXCEPT ![r] = "begin"]
              /\ attempt' = [attempt EXCEPT ![r] = @ + 1]
              /\ fresh' = [fresh EXCEPT ![r] = {}]
              /\ UNCHANGED <<job, left, target, processed>>
         ELSE Answer(r, "failed")
    /\ Watch(r)
    /\ UNCHANGED <<customer, raced, owed>>

Commit(r) ==
    /\ stage[r] = "commit"
    /\ ~Overtaken(r)
    /\ IF \E x \in fresh[r] : x.cpf \in Cpfs /\ CpfTaken(x.cpf, {})
         THEN /\ Answer(r, "refused") /\ Watch(r)
              /\ UNCHANGED <<customer, raced>>
         ELSE /\ InsertRows(fresh[r])
              /\ WroteLines(r, {x.phone.line : x \in fresh[r]}, TRUE)
              /\ Answer(r, "done")
    /\ UNCHANGED owed

------------------------------------------------------------------------------
(* Consent *)

StartConsent(r, c, s) == Start(r, [op |-> "consent", id |-> c, consent |-> s], "consent")

\* An opt-out goes on with the next customer.
NextOptOut(r, rest) ==
    IF rest = {} THEN Answer(r, "processed")
    ELSE /\ stage' = [stage EXCEPT ![r] = "consent"]
         /\ left' = [left EXCEPT ![r] = rest]
         /\ target' = [target EXCEPT ![r] = NoCustomer]
         /\ UNCHANGED <<job, attempt, fresh, processed>>

\* Mutant of NotFound: a customer that is gone ends the opt-out.
NotFoundEnds(r, c) ==
    IF job[r].op = "consent" THEN Answer(r, "refused") ELSE Answer(r, "processed")

\* NotFoundException: the answer of updateConsent, skipped by an opt-out.
NotFound(r, c) ==
    IF job[r].op = "consent" THEN Answer(r, "refused") ELSE NextOptOut(r, left[r] \ {c})

\* updateConsent: findFirst.
ReadConsent(r, c) ==
    /\ stage[r] = "consent"
    /\ IF job[r].op = "consent" THEN c = target[r] ELSE c \in left[r]
    /\ IF c \notin Present THEN NotFound(r, c)
       ELSE /\ stage' = [stage EXCEPT ![r] = "consentWrite"]
            /\ target' = [target EXCEPT ![r] = c]
            /\ UNCHANGED <<job, attempt, fresh, left, processed>>
    /\ UNCHANGED <<customer, sinceVars, raced, owed>>

\* updateConsent: updateMany.
WriteConsent(r) ==
    LET c == target[r]
        s == IF job[r].op = "consent" THEN job[r].consent ELSE "OPTED_OUT" IN
    /\ stage[r] = "consentWrite"
    /\ IF c \notin Present
         THEN /\ NotFound(r, c)
              /\ UNCHANGED <<customer, owed>>
         ELSE /\ customer' = [customer EXCEPT ![c].consent = s]
              /\ owed' = [q \in Requests |-> IF s = "GRANTED" THEN owed[q] \ {c} ELSE owed[q]]
              /\ IF job[r].op = "consent" THEN Answer(r, "done")
                 ELSE NextOptOut(r, left[r] \ {c})
    /\ UNCHANGED <<sinceVars, raced>>

------------------------------------------------------------------------------
(* The opt-out by WhatsApp *)

\* handle: what is not a command of a customer of a known instance is ignored.  The
\* instance is known while its channel is ACTIVE, and unknown when the query fails.
\* The phone is looked up in all its forms, whichever it comes in.
StartOptOut(r, p) == Start(r, [op |-> "optOut", phone |-> Canonical(p)], "lookup")

IgnoreMessage(r) ==
    /\ stage[r] = "lookup"
    /\ Answer(r, "refused")
    /\ UNCHANGED <<customer, sinceVars, raced, owed>>

\* process: all customers with the phone that have not opted out yet.
FindByPhone(r) ==
    /\ stage[r] = "lookup"
    /\ NextOptOut(r, {c \in Present : /\ customer[c].phone \in Variants(job[r].phone)
                                      /\ customer[c].consent # "OPTED_OUT"})
    /\ owed' = [owed EXCEPT ![r] =
           {c \in Present : customer[c].phone.line = job[r].phone.line}]
    /\ UNCHANGED <<customer, sinceVars, raced>>

------------------------------------------------------------------------------
(* remove *)

StartRemove(r, c) == Start(r, [op |-> "remove", id |-> c], "remove")

\* The transaction deletes the interests, then the customer.
Remove(r) ==
    /\ stage[r] = "remove"
    /\ IF job[r].id \notin Present
         THEN Answer(r, "refused") /\ UNCHANGED <<customer, owed>>
         ELSE /\ customer' = [customer EXCEPT ![job[r].id] = Removed]
              /\ owed' = [q \in Requests |-> owed[q] \ {job[r].id}]
              /\ Answer(r, "done")
    /\ UNCHANGED <<sinceVars, raced>>

RegistryNext ==
    \E r \in Requests :
        \/ \E e \in Entries :
              \/ StartCreate(r, e)
              \/ \E s \in {"GRANTED", "OPTED_OUT"} : StartRegistration(r, e, s)
        \/ \E p \in Phones : StartOptOut(r, p)
        \/ \E f \in Files : StartImport(r, f)
        \/ \E c \in Customers :
              \/ \E e \in Edits : StartUpdate(r, c, e)
              \/ \E s \in {"GRANTED", "OPTED_OUT"} : StartConsent(r, c, s)
              \/ StartRemove(r, c)
              \/ ReadConsent(r, c)
        \/ FindExisting(r) \/ FindPhone(r) \/ FindCpf(r) \/ Insert(r) \/ Write(r)
        \/ Begin(r) \/ Abort(r) \/ Commit(r)
        \/ WriteConsent(r)
        \/ IgnoreMessage(r) \/ FindByPhone(r)
        \/ Remove(r)
        \/ FailRequest(r)

RegistrySpec == RegistryInit /\ [][RegistryNext]_registryVars

------------------------------------------------------------------------------
(* Properties *)

\* Two customers have one phone, in whatever form it is stored, only when they always
\* had, or after two writers that were not both serializable wrote it at once: imports
\* and registrations never duplicate a customer among themselves, nor a phone that was
\* stored before they began.
DuplicateIsRaced ==
    \A c, d \in Present :
        c # d /\ customer[c].phone.line = customer[d].phone.line =>
            customer[c].phone.line \in raced

\* An opt-out that was processed to its end has reached every customer that had the
\* phone when it was looked up, in whatever form, and they stay opted out until
\* somebody grants consent: no import, registration or edit takes it back.  Customers
\* that share a phone are all reached.
OptOutReachesAll ==
    \A r \in Requests :
        r \in processed => \A c \in owed[r] : customer[c].consent = "OPTED_OUT"

\* What backend/README.md:377 says: phones that are duplicated in a tenant fail closed
\* without changing customers.  An opt-out that has found several customers with its
\* phone, those not counted that were granted or removed since, would write none.
DuplicatesFailClosed ==
    [][\A r \in Requests :
          /\ job[r].op = "optOut" /\ stage[r] = "consentWrite"
          /\ stage'[r] # "consentWrite" /\ customer' # customer
          => owed[r] \subseteq {target[r]}]_registryVars

\* The awaits that are left of a request, without those of other transactions and
\* other customers.
RequestAwaits ==
    [existing |-> 4, phone |-> 3, cpf |-> 2, insert |-> 1, write |-> 1, begin |-> 2,
     commit |-> 1, lookup |-> 3, consent |-> 2, consentWrite |-> 1, remove |-> 1, idle |-> 0]

\* Every await of a request that returns brings it closer to its answer: a registration
\* that is aborted has one attempt less, and an opt-out has done with a customer that
\* is written, or gone, whoever comes to have the phone meanwhile.
RegistryProgress(r) ==
    stage[r] # "idle" =>
        \/ stage'[r] = stage[r] /\ attempt'[r] = attempt[r] /\ left'[r] = left[r]
        \/ stage'[r] = "idle"
        \/ stage[r] = "lookup" /\ stage'[r] = "consent"
        \/ /\ stage[r] = "commit" /\ stage'[r] = "begin"
           /\ attempt'[r] \in attempt[r] + 1 .. MAX_REGISTRATION_ATTEMPTS
        \/ /\ stage[r] \in {"consent", "consentWrite"} /\ stage'[r] = "consent"
           /\ left'[r] \subseteq left[r] /\ left'[r] # left[r]
        \/ /\ RequestAwaits[stage'[r]] < RequestAwaits[stage[r]]
           /\ attempt'[r] = attempt[r] /\ left'[r] = left[r]

RegistryRequestsEnd == [][\A r \in Requests : RegistryProgress(r)]_registryVars
==============================================================================
