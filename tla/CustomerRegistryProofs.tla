------------------------ MODULE CustomerRegistryProofs ------------------------
(***************************************************************************)
(* Proofs about CustomerRegistry, for any number of customers, lines and   *)
(* requests.  What requests are doing comes first, then the phones they    *)
(* write, then the customers that an opt-out has found.                    *)
(***************************************************************************)
EXTENDS CustomerRegistry, TLAPS

------------------------------------------------------------------------------
(* Phones and jobs *)

LEMMA CanonicalPhone ==
    ASSUME NEW p \in Phones
    PROVE  Canonical(p) \in Phones /\ Canonical(p).line = p.line /\ p.line \in Lines
  BY DEF Canonical, Phones, Lines

\* A phone is found under whichever of its forms it is stored.
LEMMA VariantsCover ==
    ASSUME NEW p \in Phones, NEW q \in Phones, p.line = q.line
    PROVE  q \in Variants(p)
  <1>1. CASE q.legacy = FALSE
    <2>1. q = Canonical(p)
      BY <1>1 DEF Canonical, Phones
    <2>q. QED
      BY <2>1 DEF Variants
  <1>2. CASE q.legacy = TRUE
    <2>1. q.line \in Mobile
      BY <1>2 DEF Phones
    <2>2. q = [Canonical(p) EXCEPT !.legacy = TRUE]
      BY <1>2 DEF Canonical, Phones
    <2>q. QED
      BY <2>1, <2>2 DEF Variants
  <1>q. QED
    BY <1>1, <1>2 DEF Phones

LEMMA JobParts ==
    ASSUME NEW j \in Jobs
    PROVE  /\ j.op \in {"none", "create", "update", "import", "register", "consent", "optOut",
                        "remove"}
           /\ j.op = "none" <=> j = Idle
           /\ j.op \in {"create", "register"} => j.phone \in Phones /\ j.cpf \in Cpfs \union {NoCpf}
           /\ j.op = "update" => /\ j.id \in Customers /\ j.phone \in Phones \union {Keep}
                                 /\ j.cpf \in Cpfs \union {NoCpf, Keep}
           /\ j.op = "import" => j.file \in Files
           /\ j.op = "optOut" => j.phone \in Phones
           /\ j.op \in {"register", "consent"} => j.consent \in {"GRANTED", "OPTED_OUT"}
           /\ j.op \in {"consent", "remove"} => j.id \in Customers
  BY DEF Jobs, Idle

\* What a request stands at goes with what it was asked to do.
Fits(j, s) ==
    /\ s \in {"existing", "write"} => j.op = "update"
    /\ s = "insert" => j.op = "create"
    /\ s \in {"phone", "cpf"} => j.op \in {"create", "update"}
    /\ s = "phone" => j.phone # Keep
    /\ s \in {"begin", "commit"} => j.op \in {"import", "register"}
    /\ s = "lookup" => j.op = "optOut"
    /\ s \in {"consent", "consentWrite"} => j.op \in {"consent", "optOut"}
    /\ s = "remove" => j.op = "remove"

Shape(r) == Fits(job[r], stage[r])

RequestTypes ==
    /\ stage \in [Requests -> Stages]
    /\ job \in [Requests -> Jobs]
    /\ attempt \in [Requests -> 0..MAX_REGISTRATION_ATTEMPTS]
    /\ fresh \in [Requests -> SUBSET Rows]
    /\ left \in [Requests -> SUBSET Customers]
    /\ target \in [Requests -> Customers \union {NoCustomer}]
    /\ processed \in SUBSET Requests
    /\ \A r \in Requests :
          /\ stage[r] = "idle" <=> job[r] = Idle
          /\ stage[r] = "consentWrite" => target[r] # NoCustomer

DataTypes ==
    /\ customer \in [Customers -> Rows \union {Unused, Removed}]
    /\ plainSince \in [Requests -> SUBSET Lines]
    /\ serialSince \in [Requests -> SUBSET Lines]
    /\ raced \in SUBSET Lines
    /\ owed \in [Requests -> SUBSET Customers]

Base == RequestTypes /\ DataTypes /\ \A r \in Requests : Shape(r)

LEMMA BaseTypes == Base => RegistryTypeOK
  BY DEF Base, RequestTypes, DataTypes, RegistryTypeOK

LEMMA BaseInitHolds == RegistryInit => Base
  <1> SUFFICES ASSUME RegistryInit PROVE Base
    OBVIOUS
  <1>1. Idle \in Jobs /\ 0 \in 0..MAX_REGISTRATION_ATTEMPTS /\ "idle" \in Stages
    BY DEF Jobs, MAX_REGISTRATION_ATTEMPTS, Stages
  <1>2. RequestTypes
    BY <1>1 DEF RegistryInit, RequestTypes
  <1>3. DataTypes
    BY DEF RegistryInit, DataTypes
  <1>4. \A r \in Requests : Shape(r)
    BY DEF RegistryInit, Shape, Fits
  <1>q. QED
    BY <1>2, <1>3, <1>4 DEF Base

------------------------------------------------------------------------------
(* Steps of a request *)

\* The other requests stay as they are.
Others(r) ==
    \A q \in Requests \ {r} :
        /\ stage'[q] = stage[q] /\ job'[q] = job[q] /\ fresh'[q] = fresh[q]
        /\ left'[q] = left[q] /\ target'[q] = target[q]
        /\ q \in processed' <=> q \in processed

Moves(r) == RequestTypes' /\ Others(r) /\ Shape(r)'

LEMMA MovesHolds ==
    ASSUME Base, NEW r \in Requests, Moves(r)
    PROVE  RequestTypes' /\ \A q \in Requests : Shape(q)'
  BY DEF Base, Moves, Others, Shape

Ended(r, how) ==
    /\ Moves(r) /\ stage'[r] = "idle"
    /\ r \in processed' <=> how = "processed"

LEMMA AnswerEnds ==
    ASSUME Base, NEW r \in Requests, NEW how, Answer(r, how)
    PROVE  Ended(r, how)
  <1>1. Idle \in Jobs /\ 0 \in 0..MAX_REGISTRATION_ATTEMPTS /\ "idle" \in Stages
    BY DEF Jobs, MAX_REGISTRATION_ATTEMPTS, Stages
  <1>2. stage'[r] = "idle" /\ (r \in processed' <=> how = "processed")
    BY DEF Base, RequestTypes, Answer
  <1>3. RequestTypes'
    BY <1>1 DEF Base, RequestTypes, Answer
  <1>4. Others(r)
    BY DEF Base, RequestTypes, Answer, Others
  <1>q. QED
    BY <1>2, <1>3, <1>4 DEF Ended, Moves, Shape, Fits

\* A request goes on to stage s with the same job.
Goes(r, s) ==
    /\ Moves(r) /\ stage'[r] = s /\ job' = job /\ fresh' = fresh
    /\ left' = left /\ target' = target /\ processed' = processed

LEMMA ProceedGoes ==
    ASSUME Base, NEW r \in Requests, stage[r] \in {"existing", "phone", "cpf"},
           NEW s \in {"phone", "cpf", "write", "insert"}, Proceed(r, s),
           s = "insert" => job[r].op = "create",
           s = "write" => job[r].op = "update",
           s = "phone" => job[r].phone # Keep
    PROVE  Goes(r, s)
  <1>1. stage'[r] = s /\ \A q \in Requests \ {r} : stage'[q] = stage[q]
    BY DEF Base, RequestTypes, Proceed
  <1>2. job' = job /\ UNCHANGED <<attempt, fresh, left, target, processed>>
    BY DEF Proceed, workVars
  <1>3. RequestTypes'
    <2>1. stage' \in [Requests -> Stages]
      BY DEF Base, RequestTypes, Proceed, Stages
    <2>2. job[r] # Idle
      BY DEF Base, RequestTypes
    <2>q. QED
      BY <1>1, <1>2, <2>1, <2>2 DEF Base, RequestTypes
  <1>4. Others(r)
    BY <1>1, <1>2 DEF Others
  <1>5. Shape(r)'
    BY <1>1, <1>2 DEF Base, Shape, Fits
  <1>q. QED
    BY <1>1, <1>2, <1>3, <1>4, <1>5 DEF Goes, Moves

\* A request begins.
Begun(r, j, s) ==
    /\ Moves(r) /\ stage'[r] = s /\ job'[r] = j /\ r \notin processed'
    /\ UNCHANGED <<customer, raced, sinceVars>>
    /\ owed' = [owed EXCEPT ![r] = {}]

LEMMA StartBegins ==
    ASSUME Base, NEW r \in Requests, NEW j \in Jobs, j.op # "none",
           NEW s \in Stages \ {"idle", "consentWrite"}, s = "consent" => j.op = "consent",
           Fits(j, s), Start(r, j, s)
    PROVE  Begun(r, j, s)
  <1>1. /\ stage'[r] = s /\ job'[r] = j /\ r \notin processed'
        /\ UNCHANGED <<customer, raced, sinceVars>>
        /\ owed' = [owed EXCEPT ![r] = {}]
    BY DEF Base, RequestTypes, Start
  <1>2. Others(r)
    BY DEF Base, RequestTypes, Start, Others
  <1>3. RequestTypes'
    <2>1. j # Idle /\ (s = "consent" => j.id \in Customers)
      BY JobParts
    <2>2. /\ stage' \in [Requests -> Stages] /\ job' \in [Requests -> Jobs]
          /\ processed' \in SUBSET Requests /\ fresh' = fresh /\ left' = left
      BY DEF Base, RequestTypes, Start
    <2>3. attempt' \in [Requests -> 0..MAX_REGISTRATION_ATTEMPTS]
      BY DEF Base, RequestTypes, Start, MAX_REGISTRATION_ATTEMPTS
    <2>4. target' \in [Requests -> Customers \union {NoCustomer}]
      BY <2>1 DEF Base, RequestTypes, Start
    <2>q. QED
      BY <1>1, <1>2, <2>1, <2>2, <2>3, <2>4 DEF Base, RequestTypes, Others
  <1>4. Shape(r)'
    BY <1>1 DEF Shape
  <1>q. QED
    BY <1>1, <1>2, <1>3, <1>4 DEF Begun, Moves

LEMMA WatchTypes ==
    ASSUME Base, NEW r \in Requests, Watch(r)
    PROVE  /\ plainSince' \in [Requests -> SUBSET Lines] /\ serialSince' \in [Requests -> SUBSET Lines]
           /\ \A q \in Requests \ {r} :
                 plainSince'[q] = plainSince[q] /\ serialSince'[q] = serialSince[q]
  BY DEF Base, DataTypes, Watch

------------------------------------------------------------------------------
(* The invariant *)

Since(q) == plainSince[q] \union serialSince[q]

\* A phone that a request has looked up in vain is in use only if it was written since.
Free(q) ==
    stage[q] \in {"cpf", "insert", "write"} /\ job[q].phone # Keep =>
        \A c \in Present \ Self(job[q]) :
            customer[c].phone.line = job[q].phone.line => job[q].phone.line \in Since(q)

FreshFree(q) ==
    stage[q] = "commit" =>
        \A x \in fresh[q] :
            /\ \A c \in Present :
                  customer[c].phone.line = x.phone.line => x.phone.line \in Since(q)
            /\ \A y \in fresh[q] : x.phone.line = y.phone.line => x = y

OptsOut(q) == stage[q] \in {"consent", "consentWrite"} /\ job[q].op = "optOut"

\* The customers that an opt-out has found are there, and opted out or next.
Owes(q) ==
    /\ q \in processed =>
          /\ stage[q] = "idle"
          /\ \A c \in owed[q] : c \in Present /\ customer[c].consent = "OPTED_OUT"
    /\ OptsOut(q) =>
          \A c \in owed[q] : c \in Present /\ (customer[c].consent = "OPTED_OUT" \/ c \in left[q])

Secured(q) == Free(q) /\ FreshFree(q) /\ Owes(q)

RegistryInv == Base /\ DuplicateIsRaced /\ \A q \in Requests : Secured(q)

LEMMA RegistryInitHolds == RegistryInit => RegistryInv
  <1> SUFFICES ASSUME RegistryInit PROVE RegistryInv
    OBVIOUS
  <1>1. Base
    BY BaseInitHolds
  <1>2. DuplicateIsRaced
    <2>1. \A c \in Present : customer[c].phone.line \in Lines
      BY <1>1 DEF Base, DataTypes, Present, Rows, Phones, Lines
    <2>q. QED
      BY <2>1 DEF RegistryInit, DuplicateIsRaced
  <1>3. \A q \in Requests : Secured(q)
    BY DEF RegistryInit, Secured, Free, FreshFree, Owes, OptsOut
  <1>q. QED
    BY <1>1, <1>2, <1>3 DEF RegistryInv

\* A request that has ended relies on nothing.
LEMMA EndedIsSecured ==
    ASSUME NEW r \in Requests, NEW how, Ended(r, how), how # "processed"
    PROVE  Secured(r)'
  BY DEF Ended, Secured, Free, FreshFree, Owes, OptsOut

\* A step that writes no customer.
LEMMA QuietHolds ==
    ASSUME RegistryInv, NEW r \in Requests, Moves(r), DataTypes', UNCHANGED <<customer, raced>>,
           \A q \in Requests \ {r} :
               plainSince'[q] = plainSince[q] /\ serialSince'[q] = serialSince[q]
                   /\ owed'[q] = owed[q],
           Secured(r)'
    PROVE  RegistryInv'
  <1>1. Base'
    BY MovesHolds DEF RegistryInv, Base
  <1>2. Present' = Present
    BY DEF Present
  <1>3. DuplicateIsRaced'
    BY <1>2 DEF RegistryInv, DuplicateIsRaced
  <1>4. ASSUME NEW q \in Requests, q # r
        PROVE  Secured(q)'
    <2>1. Secured(q) /\ Since(q)' = Since(q)
      BY <1>4 DEF RegistryInv, Since
    <2>2. /\ stage'[q] = stage[q] /\ job'[q] = job[q] /\ fresh'[q] = fresh[q]
          /\ left'[q] = left[q] /\ (q \in processed' <=> q \in processed)
          /\ owed'[q] = owed[q]
      BY <1>4 DEF Moves, Others
    <2>3. Free(q)'
      BY <1>2, <2>1, <2>2 DEF Secured, Free
    <2>4. FreshFree(q)'
      BY <1>2, <2>1, <2>2 DEF Secured, FreshFree
    <2>5. Owes(q)'
      BY <1>2, <2>1, <2>2 DEF Secured, Owes, OptsOut
    <2>q. QED
      BY <2>3, <2>4, <2>5 DEF Secured
  <1>q. QED
    BY <1>1, <1>3, <1>4 DEF RegistryInv

\* Customers that have, since this step, a phone of a line that they did not have.
Gained == {c \in Present' : ~(c \in Present /\ customer'[c].phone.line = customer[c].phone.line)}

\* A step that ends a request by writing phones of lines.
LEMMA WritersHold ==
    ASSUME RegistryInv, NEW r \in Requests, Moves(r), stage'[r] = "idle", r \notin processed',
           DataTypes', NEW lines \in SUBSET Lines,
           \A c \in Gained : customer'[c].phone.line \in lines,
           \A q \in Requests \ {r} :
               /\ plainSince[q] \subseteq plainSince'[q] /\ serialSince[q] \subseteq serialSince'[q]
               /\ q \in Relying => lines \subseteq plainSince'[q] \union serialSince'[q],
           raced \subseteq raced',
           \A c \in Gained : \A d \in Present' :
               c # d /\ customer'[c].phone.line = customer'[d].phone.line =>
                   customer'[c].phone.line \in raced',
           owed' = owed,
           \A c \in Present : c \in Present' /\ customer'[c].consent = customer[c].consent
    PROVE  RegistryInv'
  <1>1. Base'
    BY MovesHolds DEF RegistryInv, Base
  <1>2. DuplicateIsRaced'
    <2> SUFFICES ASSUME NEW c \in Present', NEW d \in Present', c # d,
                        customer'[c].phone.line = customer'[d].phone.line
                 PROVE  customer'[c].phone.line \in raced'
      BY DEF DuplicateIsRaced
    <2>1. CASE c \in Gained \/ d \in Gained
      BY <2>1
    <2>2. CASE c \notin Gained /\ d \notin Gained
      <3>1. /\ c \in Present /\ customer'[c].phone.line = customer[c].phone.line
            /\ d \in Present /\ customer'[d].phone.line = customer[d].phone.line
        BY <2>2 DEF Gained
      <3>q. QED
        BY <3>1 DEF RegistryInv, DuplicateIsRaced
    <2>q. QED
      BY <2>1, <2>2
  <1>3. Secured(r)'
    BY DEF Secured, Free, FreshFree, Owes, OptsOut
  <1>4. ASSUME NEW q \in Requests, q # r
        PROVE  Secured(q)'
    <2>1. Secured(q) /\ Since(q) \subseteq Since(q)'
      BY <1>4 DEF RegistryInv, Since
    <2>2. /\ stage'[q] = stage[q] /\ job'[q] = job[q] /\ fresh'[q] = fresh[q]
          /\ left'[q] = left[q] /\ (q \in processed' <=> q \in processed)
      BY <1>4 DEF Moves, Others
    <2>3. ASSUME NEW c \in Present', q \in Relying
          PROVE  \/ customer'[c].phone.line \in Since(q)'
                 \/ c \in Present /\ customer'[c].phone.line = customer[c].phone.line
      BY <1>4, <2>3 DEF Gained, Since
    <2>4. Free(q)'
      BY <2>1, <2>2, <2>3 DEF Secured, Free, Relying
    <2>5. FreshFree(q)'
      BY <2>1, <2>2, <2>3 DEF Secured, FreshFree, Relying
    <2>6. Owes(q)'
      BY <2>1, <2>2 DEF Secured, Owes, OptsOut
    <2>q. QED
      BY <2>4, <2>5, <2>6 DEF Secured
  <1>q. QED
    BY <1>1, <1>2, <1>3, <1>4 DEF RegistryInv

\* A step that writes no phone.
LEMMA ConsentHolds ==
    ASSUME RegistryInv, NEW r \in Requests, Moves(r), DataTypes', UNCHANGED <<raced, sinceVars>>,
           \A c \in Present' : c \in Present /\ customer'[c].phone = customer[c].phone,
           \A q \in Requests \ {r} :
               /\ owed'[q] \subseteq owed[q]
               /\ \A c \in owed'[q] :
                     c \in Present =>
                         /\ c \in Present'
                         /\ customer[c].consent = "OPTED_OUT" => customer'[c].consent = "OPTED_OUT",
           Secured(r)'
    PROVE  RegistryInv'
  <1>1. Base'
    BY MovesHolds DEF RegistryInv, Base
  <1>2. DuplicateIsRaced'
    BY DEF RegistryInv, DuplicateIsRaced
  <1>3. ASSUME NEW q \in Requests, q # r
        PROVE  Secured(q)'
    <2>1. Secured(q) /\ Since(q) = Since(q)'
      BY DEF RegistryInv, Since, sinceVars
    <2>2. /\ stage'[q] = stage[q] /\ job'[q] = job[q] /\ fresh'[q] = fresh[q]
          /\ left'[q] = left[q] /\ (q \in processed' <=> q \in processed)
      BY <1>3 DEF Moves, Others
    <2>3. Free(q)'
      BY <2>1, <2>2 DEF Secured, Free
    <2>4. FreshFree(q)'
      BY <2>1, <2>2 DEF Secured, FreshFree
    <2>5. Owes(q)'
      BY <1>3, <2>1, <2>2 DEF Secured, Owes, OptsOut
    <2>q. QED
      BY <2>3, <2>4, <2>5 DEF Secured
  <1>q. QED
    BY <1>1, <1>2, <1>3 DEF RegistryInv

------------------------------------------------------------------------------
(* Requests begin and fail *)

LEMMA BegunHolds ==
    ASSUME RegistryInv, NEW r \in Requests, NEW j, NEW s, Begun(r, j, s),
           s \notin {"cpf", "insert", "commit"}, s = "write" => j.phone = Keep,
           s \in {"consent", "consentWrite"} => j.op # "optOut"
    PROVE  RegistryInv'
  <1>1. DataTypes'
    BY DEF RegistryInv, Base, DataTypes, Begun, sinceVars
  <1>2. Secured(r)'
    BY DEF Begun, Secured, Free, FreshFree, Owes, OptsOut
  <1>3. \A q \in Requests \ {r} :
            plainSince'[q] = plainSince[q] /\ serialSince'[q] = serialSince[q] /\ owed'[q] = owed[q]
    BY DEF RegistryInv, Base, DataTypes, Begun, sinceVars
  <1>q. QED
    BY <1>1, <1>2, <1>3, QuietHolds DEF Begun

LEMMA StartCreateStep ==
    ASSUME RegistryInv, NEW r \in Requests, NEW e \in Entries, StartCreate(r, e)
    PROVE  RegistryInv'
  <1> DEFINE j == [op |-> "create", phone |-> Canonical(e.phone), cpf |-> e.cpf]
  <1>1. e.phone \in Phones /\ e.cpf \in Cpfs \union {NoCpf}
    BY RegistryAssumption
  <1>2. Canonical(e.phone) \in Phones /\ Canonical(e.phone) # Keep
    BY <1>1, CanonicalPhone, RegistryAssumption
  <1>3. j \in Jobs
    BY <1>1, <1>2 DEF Jobs
  <1>4. j.op = "create" /\ j.phone # Keep
    BY <1>2
  <1>5. Fits(j, "phone") /\ "phone" \in Stages \ {"idle", "consentWrite"}
    BY <1>4 DEF Fits, Stages
  <1>6. Start(r, j, "phone")
    BY DEF StartCreate
  <1> HIDE DEF j
  <1>7. Begun(r, j, "phone")
    BY <1>3, <1>4, <1>5, <1>6, StartBegins DEF RegistryInv
  <1>q. QED
    BY <1>7, BegunHolds

LEMMA StartUpdateStep ==
    ASSUME RegistryInv, NEW r \in Requests, NEW c \in Customers, NEW e \in Edits,
           StartUpdate(r, c, e)
    PROVE  RegistryInv'
  <1> DEFINE j == [op |-> "update", id |-> c, cpf |-> e.cpf,
                   phone |-> IF e.phone = Keep THEN Keep ELSE Canonical(e.phone)]
             s == IF e.cpf \in Cpfs THEN "existing" ELSE IF e.phone # Keep THEN "phone" ELSE "write"
  <1>1. e.phone \in Phones \union {Keep} /\ e.cpf \in Cpfs \union {NoCpf, Keep}
    BY RegistryAssumption
  <1>2. e.phone # Keep => Canonical(e.phone) \in Phones /\ Canonical(e.phone) # Keep
    BY <1>1, CanonicalPhone, RegistryAssumption
  <1>3. j \in Jobs
    BY <1>1, <1>2 DEF Jobs
  <1>4. j.op = "update" /\ (s = "phone" => j.phone # Keep) /\ (s = "write" => j.phone = Keep)
        /\ s \in {"existing", "phone", "write"}
    BY <1>2
  <1>5. Fits(j, s) /\ s \in Stages \ {"idle", "consentWrite"}
    BY <1>4 DEF Fits, Stages
  <1>6. Start(r, j, s)
    BY DEF StartUpdate
  <1> HIDE DEF j, s
  <1>7. Begun(r, j, s)
    BY <1>3, <1>4, <1>5, <1>6, StartBegins DEF RegistryInv
  <1>q. QED
    BY <1>4, <1>7, BegunHolds

LEMMA StartImportStep ==
    ASSUME RegistryInv, NEW r \in Requests, NEW f \in Files, StartImport(r, f)
    PROVE  RegistryInv'
  <1> DEFINE j == [op |-> "import", file |-> f]
  <1>1. j \in Jobs /\ j.op = "import"
    BY DEF Jobs
  <1>2. Fits(j, "begin") /\ "begin" \in Stages \ {"idle", "consentWrite"}
    BY <1>1 DEF Fits, Stages
  <1>3. Start(r, j, "begin")
    BY DEF StartImport
  <1> HIDE DEF j
  <1>4. Begun(r, j, "begin")
    BY <1>1, <1>2, <1>3, StartBegins DEF RegistryInv
  <1>q. QED
    BY <1>4, BegunHolds

LEMMA StartRegistrationStep ==
    ASSUME RegistryInv, NEW r \in Requests, NEW e \in Entries, NEW k \in {"GRANTED", "OPTED_OUT"},
           StartRegistration(r, e, k)
    PROVE  RegistryInv'
  <1> DEFINE j == [op |-> "register", phone |-> Canonical(e.phone), cpf |-> e.cpf, consent |-> k]
  <1>1. e.phone \in Phones /\ e.cpf \in Cpfs \union {NoCpf}
    BY RegistryAssumption
  <1>2. Canonical(e.phone) \in Phones
    BY <1>1, CanonicalPhone
  <1>3. j \in Jobs /\ j.op = "register"
    BY <1>1, <1>2 DEF Jobs
  <1>4. Fits(j, "begin") /\ "begin" \in Stages \ {"idle", "consentWrite"}
    BY <1>3 DEF Fits, Stages
  <1>5. Start(r, j, "begin")
    BY DEF StartRegistration
  <1> HIDE DEF j
  <1>6. Begun(r, j, "begin")
    BY <1>3, <1>4, <1>5, StartBegins DEF RegistryInv
  <1>q. QED
    BY <1>6, BegunHolds

LEMMA StartConsentStep ==
    ASSUME RegistryInv, NEW r \in Requests, NEW c \in Customers, NEW k \in {"GRANTED", "OPTED_OUT"},
           StartConsent(r, c, k)
    PROVE  RegistryInv'
  <1> DEFINE j == [op |-> "consent", id |-> c, consent |-> k]
  <1>1. j \in Jobs /\ j.op = "consent"
    BY DEF Jobs
  <1>2. Fits(j, "consent") /\ "consent" \in Stages \ {"idle", "consentWrite"}
    BY <1>1 DEF Fits, Stages
  <1>3. Start(r, j, "consent")
    BY DEF StartConsent
  <1> HIDE DEF j
  <1>4. Begun(r, j, "consent")
    BY <1>1, <1>2, <1>3, StartBegins DEF RegistryInv
  <1>q. QED
    BY <1>1, <1>4, BegunHolds

LEMMA StartOptOutStep ==
    ASSUME RegistryInv, NEW r \in Requests, NEW p \in Phones, StartOptOut(r, p)
    PROVE  RegistryInv'
  <1> DEFINE j == [op |-> "optOut", phone |-> Canonical(p)]
  <1>1. j \in Jobs /\ j.op = "optOut"
    BY CanonicalPhone DEF Jobs
  <1>2. Fits(j, "lookup") /\ "lookup" \in Stages \ {"idle", "consentWrite"}
    BY <1>1 DEF Fits, Stages
  <1>3. Start(r, j, "lookup")
    BY DEF StartOptOut
  <1> HIDE DEF j
  <1>4. Begun(r, j, "lookup")
    BY <1>1, <1>2, <1>3, StartBegins DEF RegistryInv
  <1>q. QED
    BY <1>4, BegunHolds

LEMMA StartRemoveStep ==
    ASSUME RegistryInv, NEW r \in Requests, NEW c \in Customers, StartRemove(r, c)
    PROVE  RegistryInv'
  <1> DEFINE j == [op |-> "remove", id |-> c]
  <1>1. j \in Jobs /\ j.op = "remove"
    BY DEF Jobs
  <1>2. Fits(j, "remove") /\ "remove" \in Stages \ {"idle", "consentWrite"}
    BY <1>1 DEF Fits, Stages
  <1>3. Start(r, j, "remove")
    BY DEF StartRemove
  <1> HIDE DEF j
  <1>4. Begun(r, j, "remove")
    BY <1>1, <1>2, <1>3, StartBegins DEF RegistryInv
  <1>q. QED
    BY <1>4, BegunHolds

\* A request that ends without having written.
LEMMA RefusedHolds ==
    ASSUME RegistryInv, NEW r \in Requests, NEW how, Answer(r, how), how # "processed",
           UNCHANGED <<customer, raced, owed>>, Watch(r) \/ UNCHANGED sinceVars
    PROVE  RegistryInv'
  <1>1. Ended(r, how)
    BY AnswerEnds DEF RegistryInv
  <1>2. /\ plainSince' \in [Requests -> SUBSET Lines] /\ serialSince' \in [Requests -> SUBSET Lines]
        /\ \A q \in Requests \ {r} :
              plainSince'[q] = plainSince[q] /\ serialSince'[q] = serialSince[q]
    BY WatchTypes DEF RegistryInv, Base, DataTypes, sinceVars
  <1>3. DataTypes'
    BY <1>2 DEF RegistryInv, Base, DataTypes
  <1>4. Secured(r)'
    BY <1>1, EndedIsSecured
  <1>q. QED
    BY <1>1, <1>2, <1>3, <1>4, QuietHolds DEF Ended

LEMMA FailRequestStep ==
    ASSUME RegistryInv, NEW r \in Requests, FailRequest(r)
    PROVE  RegistryInv'
  BY RefusedHolds DEF FailRequest

LEMMA IgnoreMessageStep ==
    ASSUME RegistryInv, NEW r \in Requests, IgnoreMessage(r)
    PROVE  RegistryInv'
  BY RefusedHolds DEF IgnoreMessage

------------------------------------------------------------------------------
(* create and update *)

LEMMA FindExistingStep ==
    ASSUME RegistryInv, NEW r \in Requests, FindExisting(r)
    PROVE  RegistryInv'
  <1>1. CASE Answer(r, "refused")
    BY <1>1, RefusedHolds DEF FindExisting
  <1>2. CASE Proceed(r, IF job[r].phone # Keep THEN "phone" ELSE "cpf")
    <2> DEFINE s == IF job[r].phone # Keep THEN "phone" ELSE "cpf"
    <2>1. s \in {"phone", "cpf"} /\ (s = "phone" => job[r].phone # Keep)
          /\ (s = "cpf" => job[r].phone = Keep)
      OBVIOUS
    <2>2. Proceed(r, s) /\ stage[r] = "existing"
      BY <1>2 DEF FindExisting
    <2> HIDE DEF s
    <2>3. Goes(r, s)
      BY <2>1, <2>2, ProceedGoes DEF RegistryInv
    <2>4. Secured(r) /\ UNCHANGED <<customer, sinceVars, raced, owed>>
      BY DEF RegistryInv, FindExisting
    <2>5. Secured(r)'
      <3>1. /\ stage'[r] = s /\ job' = job /\ processed' = processed /\ UNCHANGED <<customer, owed>>
            /\ Present' = Present
        BY <2>3, <2>4 DEF Goes, Present
      <3>2. Free(r)'
        BY <2>1, <3>1 DEF Free
      <3>3. FreshFree(r)' /\ Owes(r)'
        BY <2>1, <2>2, <2>4, <3>1 DEF Secured, FreshFree, Owes, OptsOut
      <3>q. QED
        BY <3>2, <3>3 DEF Secured
    <2>6. DataTypes'
      BY <2>4 DEF RegistryInv, Base, DataTypes, sinceVars
    <2>q. QED
      BY <2>3, <2>4, <2>5, <2>6, QuietHolds DEF Goes, sinceVars
  <1>q. QED
    BY <1>1, <1>2 DEF FindExisting

LEMMA FindPhoneStep ==
    ASSUME RegistryInv, NEW r \in Requests, FindPhone(r)
    PROVE  RegistryInv'
  <1> DEFINE j == job[r]
             s == IF job[r].cpf \in Cpfs THEN "cpf" ELSE LastStage(job[r])
  <1>1. CASE Answer(r, "refused")
    BY <1>1, RefusedHolds DEF FindPhone
  <1>2. CASE ~PhoneTaken(job[r].phone, Self(job[r])) /\ Proceed(r, s)
    <2>1. /\ stage[r] = "phone" /\ j.op \in {"create", "update"} /\ j.phone # Keep /\ j \in Jobs
          /\ UNCHANGED <<customer, raced, owed>> /\ Watch(r) /\ Secured(r)
      BY DEF FindPhone, RegistryInv, Base, RequestTypes, Shape, Fits
    <2>2. /\ s \in {"cpf", "write", "insert"} /\ (s = "insert" => j.op = "create")
          /\ (s = "write" => j.op = "update")
      BY <2>1 DEF LastStage
    <2>3. Goes(r, s)
      <3> HIDE DEF s
      <3>q. QED
        BY <1>2, <2>1, <2>2, ProceedGoes DEF RegistryInv
    <2>4. j.phone \in Phones
      BY <2>1, JobParts
    <2>5. \A c \in Present \ Self(j) : customer[c].phone.line # j.phone.line
      <3> SUFFICES ASSUME NEW c \in Present \ Self(j), customer[c].phone.line = j.phone.line
                   PROVE  FALSE
        OBVIOUS
      <3>1. customer[c].phone \in Phones
        BY DEF Present, RegistryInv, Base, DataTypes, Rows
      <3>2. customer[c].phone \in Variants(j.phone)
        BY <2>4, <3>1, VariantsCover
      <3>q. QED
        BY <1>2, <3>2 DEF PhoneTaken
    <2>6. Free(r)'
      BY <2>1, <2>3, <2>5 DEF Goes, Free, Present
    <2>7. Secured(r)'
      <3>1. stage'[r] \in {"cpf", "write", "insert"}
        BY <2>2, <2>3 DEF Goes
      <3>2. processed' = processed /\ Present' = Present /\ UNCHANGED <<customer, owed>>
        BY <2>1, <2>3 DEF Goes, Present
      <3>3. FreshFree(r)' /\ Owes(r)'
        BY <2>1, <3>1, <3>2 DEF Secured, FreshFree, Owes, OptsOut
      <3>q. QED
        BY <2>6, <3>3 DEF Secured
    <2>8. DataTypes'
      BY <2>1, WatchTypes DEF RegistryInv, Base, DataTypes
    <2>q. QED
      BY <2>1, <2>3, <2>7, <2>8, WatchTypes, QuietHolds DEF Goes, RegistryInv
  <1>q. QED
    BY <1>1, <1>2 DEF FindPhone

LEMMA FindCpfStep ==
    ASSUME RegistryInv, NEW r \in Requests, FindCpf(r)
    PROVE  RegistryInv'
  <1> DEFINE j == job[r]
             s == LastStage(job[r])
  <1>1. CASE Answer(r, "refused") /\ Watch(r)
    BY <1>1, RefusedHolds DEF FindCpf
  <1>2. CASE Proceed(r, s) /\ UNCHANGED sinceVars
    <2>1. /\ stage[r] = "cpf" /\ j.op \in {"create", "update"}
          /\ UNCHANGED <<customer, raced, owed>> /\ Secured(r)
      BY DEF FindCpf, RegistryInv, Base, Shape, Fits
    <2>2. /\ s \in {"write", "insert"} /\ (s = "insert" => j.op = "create")
          /\ (s = "write" => j.op = "update")
      BY <2>1 DEF LastStage
    <2>3. Goes(r, s)
      <3> HIDE DEF s
      <3>q. QED
        BY <1>2, <2>1, <2>2, ProceedGoes DEF RegistryInv
    <2>4. Since(r)' = Since(r) /\ Present' = Present
      BY <1>2, <2>1 DEF Since, sinceVars, Present
    <2>5. Free(r)'
      BY <2>1, <2>3, <2>4 DEF Goes, Secured, Free
    <2>6. Secured(r)'
      BY <2>1, <2>2, <2>3, <2>4, <2>5 DEF Goes, Secured, FreshFree, Owes, OptsOut
    <2>7. DataTypes'
      BY <1>2, <2>1 DEF RegistryInv, Base, DataTypes, sinceVars
    <2>q. QED
      BY <1>2, <2>1, <2>3, <2>6, <2>7, QuietHolds DEF Goes, sinceVars
  <1>q. QED
    BY <1>1, <1>2 DEF FindCpf

------------------------------------------------------------------------------
(* Rows and phones are written *)

\* Rows are inserted under ids that were unused, each of them once.
LEMMA InsertRowsHolds ==
    ASSUME Base, NEW rows \in SUBSET Rows, InsertRows(rows)
    PROVE  /\ customer' \in [Customers -> Rows \union {Unused, Removed}]
           /\ \A c \in Customers : customer'[c] = customer[c] \/
                                   (customer[c] = Unused /\ customer'[c] \in rows)
           /\ \A c, d \in Customers :
                 c # d /\ customer'[c] # customer[c] /\ customer'[d] # customer[d] =>
                     customer'[c] # customer'[d]
  <1>1. PICK into \in [rows -> {c \in Customers : customer[c] = Unused}] :
            /\ \A x, y \in rows : x # y => into[x] # into[y]
            /\ customer' = [c \in Customers |->
                   IF \E x \in rows : into[x] = c THEN CHOOSE x \in rows : into[x] = c
                   ELSE customer[c]]
    BY DEF InsertRows
  <1>2. ASSUME NEW c \in Customers, \E x \in rows : into[x] = c
        PROVE  customer'[c] \in rows /\ into[customer'[c]] = c
    BY <1>1, <1>2
  <1>3. ASSUME NEW c \in Customers, ~ \E x \in rows : into[x] = c
        PROVE  customer'[c] = customer[c]
    BY <1>1, <1>3
  <1>4. ASSUME NEW c \in Customers
        PROVE  customer'[c] = customer[c] \/
                   (customer[c] = Unused /\ customer'[c] \in rows /\ into[customer'[c]] = c)
    <2>1. CASE \E x \in rows : into[x] = c
      BY <1>2, <2>1
    <2>q. QED
      BY <1>3, <2>1
  <1>5. customer' \in [Customers -> Rows \union {Unused, Removed}]
    BY <1>1, <1>4 DEF Base, DataTypes
  <1>q. QED
    BY <1>4, <1>5

\* The lines that a request writes are recorded: those of since are raced.
Recorded(r, lines, since) ==
    /\ plainSince' \in [Requests -> SUBSET Lines] /\ serialSince' \in [Requests -> SUBSET Lines]
    /\ raced' \in SUBSET Lines /\ raced \subseteq raced'
    /\ \A q \in Requests \ {r} :
          /\ plainSince[q] \subseteq plainSince'[q] /\ serialSince[q] \subseteq serialSince'[q]
          /\ q \in Relying => lines \subseteq plainSince'[q] \union serialSince'[q]
    /\ lines \intersect since \subseteq raced'

LEMMA SerialIsRecorded ==
    ASSUME Base, NEW r \in Requests, NEW lines \in SUBSET Lines, WroteLines(r, lines, TRUE)
    PROVE  Recorded(r, lines, plainSince[r])
  BY DEF Base, DataTypes, WroteLines, Recorded

LEMMA PlainIsRecorded ==
    ASSUME Base, NEW r \in Requests, NEW lines \in SUBSET Lines, WroteLines(r, lines, FALSE)
    PROVE  Recorded(r, lines, Since(r))
  BY DEF Base, DataTypes, WroteLines, Recorded, Since

\* Rows whose phones were looked up in vain, and may have been written since, are
\* inserted.
LEMMA InsertsHold ==
    ASSUME RegistryInv, NEW r \in Requests, NEW rows \in SUBSET Rows, InsertRows(rows),
           NEW lines \in SUBSET Lines, \A x \in rows : x.phone.line \in lines,
           NEW since, Recorded(r, lines, since),
           Answer(r, "done"), owed' = owed,
           \A x \in rows :
               /\ \A c \in Present :
                     customer[c].phone.line = x.phone.line => x.phone.line \in since
               /\ \A y \in rows : x.phone.line = y.phone.line => x = y
    PROVE  RegistryInv'
  <1>1. Base
    BY DEF RegistryInv
  <1>2. Ended(r, "done")
    BY <1>1, AnswerEnds
  <1>3. \A x \in rows : x \notin {Unused, Removed}
    BY RegistryAssumption
  <1>6. /\ customer' \in [Customers -> Rows \union {Unused, Removed}]
        /\ \A c \in Customers : customer'[c] = customer[c] \/
                                (customer[c] = Unused /\ customer'[c] \in rows)
        /\ \A c, d \in Customers :
              c # d /\ customer'[c] # customer[c] /\ customer'[d] # customer[d] =>
                  customer'[c] # customer'[d]
    BY <1>1, InsertRowsHolds
  <1>7. DataTypes'
    BY <1>1, <1>6 DEF Base, DataTypes, Recorded
  <1>8. \A c \in Present : c \in Present' /\ customer'[c] = customer[c]
    BY <1>6 DEF Present
  <1>9. ASSUME NEW c \in Gained
        PROVE  c \in Customers /\ customer'[c] \in rows /\ customer'[c] # customer[c]
    BY <1>6, <1>9, RegistryAssumption DEF Gained, Present
  <1>10. \A c \in Gained : customer'[c].phone.line \in lines
    BY <1>9
  <1>11. ASSUME NEW c \in Gained, NEW d \in Present', c # d,
                customer'[c].phone.line = customer'[d].phone.line
         PROVE  customer'[c].phone.line \in raced'
    <2>1. CASE d \in Present
      <3>1. customer'[d] = customer[d]
        BY <1>8, <2>1
      <3>2. customer'[c].phone.line \in since
        BY <1>9, <1>11, <2>1, <3>1
      <3>q. QED
        BY <1>10, <3>2 DEF Recorded
    <2>2. CASE d \notin Present
      <3>1. d \in Gained
        BY <2>2 DEF Gained
      <3>2. customer'[c] = customer'[d]
        BY <1>9, <1>11, <3>1
      <3>q. QED
        BY <1>6, <1>9, <1>11, <3>1, <3>2
    <2>q. QED
      BY <2>1, <2>2
  <1>12. Moves(r) /\ stage'[r] = "idle" /\ r \notin processed'
    BY <1>2 DEF Ended
  <1>13. \A c \in Present : c \in Present' /\ customer'[c].consent = customer[c].consent
    BY <1>8
  <1>14. /\ raced \subseteq raced'
         /\ \A q \in Requests \ {r} :
               /\ plainSince[q] \subseteq plainSince'[q] /\ serialSince[q] \subseteq serialSince'[q]
               /\ q \in Relying => lines \subseteq plainSince'[q] \union serialSince'[q]
    BY DEF Recorded
  <1>q. QED
    BY <1>7, <1>10, <1>11, <1>12, <1>13, <1>14, WritersHold

LEMMA InsertStep ==
    ASSUME RegistryInv, NEW r \in Requests, Insert(r)
    PROVE  RegistryInv'
  <1> DEFINE row == NewRow(job[r])
  <1>1. CASE Answer(r, "refused") /\ Watch(r) /\ UNCHANGED <<customer, raced>>
    BY <1>1, RefusedHolds DEF Insert
  <1>2. CASE /\ InsertRows({NewRow(job[r])}) /\ WroteLines(r, {job[r].phone.line}, FALSE)
             /\ Answer(r, "done")
    <2>1. /\ stage[r] = "insert" /\ job[r] \in Jobs /\ job[r].op = "create" /\ Free(r)
          /\ owed' = owed
      BY DEF Insert, RegistryInv, Base, RequestTypes, Shape, Fits, Secured
    <2>2. job[r].phone \in Phones /\ job[r].cpf \in Cpfs \union {NoCpf} /\ job[r].phone # Keep
      BY <2>1, JobParts, RegistryAssumption
    <2>3. row \in Rows /\ row.phone = job[r].phone
      BY <2>1, <2>2 DEF NewRow, Rows, Consents
    <2>4. \A c \in Present : customer[c].phone.line = row.phone.line => row.phone.line \in Since(r)
      BY <2>1, <2>2, <2>3 DEF Free, Self
    <2>5. {job[r].phone.line} \in SUBSET Lines /\ row.phone.line \in {job[r].phone.line}
      BY <2>2, <2>3 DEF Phones, Lines
    <2>6. Recorded(r, {job[r].phone.line}, Since(r))
      BY <1>2, <2>5, PlainIsRecorded DEF RegistryInv
    <2>7. InsertRows({row})
      BY <1>2
    <2> HIDE DEF row
    <2>8. {row} \in SUBSET Rows
      BY <2>3
    <2>q. QED
      BY <1>2, <2>1, <2>4, <2>5, <2>6, <2>7, <2>8, InsertsHold
  <1>q. QED
    BY <1>1, <1>2 DEF Insert

LEMMA CommitStep ==
    ASSUME RegistryInv, NEW r \in Requests, Commit(r)
    PROVE  RegistryInv'
  <1>1. CASE Answer(r, "refused") /\ Watch(r) /\ UNCHANGED <<customer, raced>>
    BY <1>1, RefusedHolds DEF Commit
  <1>2. CASE /\ InsertRows(fresh[r]) /\ WroteLines(r, {x.phone.line : x \in fresh[r]}, TRUE)
             /\ Answer(r, "done")
    <2>1. /\ stage[r] = "commit" /\ fresh[r] \in SUBSET Rows /\ FreshFree(r) /\ owed' = owed
          /\ \A x \in fresh[r] : x.phone.line \notin serialSince[r]
      BY DEF Commit, Overtaken, RegistryInv, Base, RequestTypes, Secured
    <2>2. \A x \in fresh[r] :
              /\ \A c \in Present :
                    customer[c].phone.line = x.phone.line => x.phone.line \in plainSince[r]
              /\ \A y \in fresh[r] : x.phone.line = y.phone.line => x = y
      BY <2>1 DEF FreshFree, Since
    <2> DEFINE lines == {x.phone.line : x \in fresh[r]}
    <2>3. \A x \in fresh[r] : x.phone.line \in Lines /\ x.phone.line \in lines
      BY <2>1 DEF Rows, Phones, Lines
    <2>4. lines \in SUBSET Lines
      BY <2>3
    <2>5. Recorded(r, lines, plainSince[r])
      BY <1>2, <2>4, SerialIsRecorded DEF RegistryInv
    <2> HIDE DEF lines
    <2>q. QED
      BY <1>2, <2>1, <2>2, <2>3, <2>4, <2>5, InsertsHold
  <1>q. QED
    BY <1>1, <1>2 DEF Commit

LEMMA WriteStep ==
    ASSUME RegistryInv, NEW r \in Requests, Write(r)
    PROVE  RegistryInv'
  <1> DEFINE j == job[r]
             c == job[r].id
             lines == IF job[r].phone = Keep THEN {} ELSE {job[r].phone.line}
             new == [customer[c] EXCEPT !.phone = IF j.phone = Keep THEN @ ELSE j.phone,
                                        !.cpf = IF j.cpf = Keep THEN @ ELSE j.cpf]
  <1>1. CASE Answer(r, "refused") /\ Watch(r) /\ UNCHANGED <<customer, raced>>
    BY <1>1, RefusedHolds DEF Write
  <1>2. CASE /\ c \in Present
             /\ customer' = [customer EXCEPT
                    ![c].phone = IF j.phone = Keep THEN @ ELSE j.phone,
                    ![c].cpf = IF j.cpf = Keep THEN @ ELSE j.cpf]
             /\ WroteLines(r, lines, FALSE) /\ Answer(r, "done")
    <2>1. /\ j \in Jobs /\ j.op = "update" /\ Free(r) /\ stage[r] = "write" /\ owed' = owed
          /\ customer \in [Customers -> Rows \union {Unused, Removed}]
      BY DEF Write, RegistryInv, Base, RequestTypes, DataTypes, Shape, Fits, Secured
    <2>2. /\ c \in Customers /\ j.phone \in Phones \union {Keep}
          /\ j.cpf \in Cpfs \union {NoCpf, Keep}
      BY <2>1, JobParts
    <2>3. customer[c] \in Rows
      BY <1>2, <2>1 DEF Present
    <2>4. /\ new \in Rows /\ new.consent = customer[c].consent
          /\ j.phone = Keep => new.phone = customer[c].phone
          /\ j.phone # Keep => new.phone = j.phone
      BY <2>2, <2>3 DEF Rows
    <2>5. customer' = [customer EXCEPT ![c] = new]
      BY <1>2, <2>1, <2>2
    <2> HIDE DEF new
    <2>6. customer'[c] = new /\ \A d \in Customers \ {c} : customer'[d] = customer[d]
      BY <2>1, <2>2, <2>5
    <2>7. /\ customer' \in [Customers -> Rows \union {Unused, Removed}]
          /\ Present' = Present /\ new \notin {Unused, Removed}
      <3>1. new \notin {Unused, Removed}
        BY <2>4, RegistryAssumption
      <3>q. QED
        BY <1>2, <2>1, <2>2, <2>4, <2>5, <2>6, <3>1 DEF Present
    <2>8. lines \in SUBSET Lines
      BY <2>2 DEF Phones, Lines
    <2>9. Recorded(r, lines, Since(r))
      <3> HIDE DEF lines
      <3>q. QED
        BY <1>2, <2>8, PlainIsRecorded DEF RegistryInv
    <2>10. DataTypes'
      BY <2>1, <2>7, <2>9 DEF RegistryInv, Base, DataTypes, Recorded
    <2>11. ASSUME NEW d \in Gained
           PROVE  d = c /\ j.phone # Keep /\ customer'[d].phone.line = j.phone.line
      BY <2>4, <2>6, <2>7, <2>11 DEF Gained, Present
    <2>12. \A d \in Gained : customer'[d].phone.line \in lines
      BY <2>11
    <2>13. ASSUME NEW d \in Gained, NEW e \in Present', d # e,
                  customer'[d].phone.line = customer'[e].phone.line
           PROVE  customer'[d].phone.line \in raced'
      <3>1. e \in Present \ {c} /\ customer'[e] = customer[e]
        BY <2>6, <2>7, <2>11, <2>13 DEF Present
      <3>2. customer[e].phone.line = j.phone.line
        BY <2>11, <2>13, <3>1
      <3>3. j.phone.line \in Since(r)
        BY <2>1, <2>11, <3>1, <3>2 DEF Free, Self
      <3>4. j.phone.line \in lines
        BY <2>11
      <3>q. QED
        BY <2>9, <2>11, <3>3, <3>4 DEF Recorded
    <2>14. \A d \in Present : d \in Present' /\ customer'[d].consent = customer[d].consent
      BY <2>4, <2>6, <2>7 DEF Present
    <2>15. Moves(r) /\ stage'[r] = "idle" /\ r \notin processed'
      BY <1>2, AnswerEnds DEF RegistryInv, Ended
    <2> HIDE DEF lines
    <2>16. /\ raced \subseteq raced'
           /\ \A q \in Requests \ {r} :
                 /\ plainSince[q] \subseteq plainSince'[q] /\ serialSince[q] \subseteq serialSince'[q]
                 /\ q \in Relying => lines \subseteq plainSince'[q] \union serialSince'[q]
      BY <2>9 DEF Recorded
    <2>q. QED
      BY <2>1, <2>8, <2>10, <2>12, <2>13, <2>14, <2>15, <2>16, WritersHold
  <1>q. QED
    BY <1>1, <1>2 DEF Write

------------------------------------------------------------------------------
(* Import and public registration *)

\* A phone is not taken only if nobody has its line.
LEMMA NotTaken ==
    ASSUME Base, NEW p \in Phones, ~PhoneTaken(p, {})
    PROVE  \A c \in Present : customer[c].phone.line # p.line
  <1> SUFFICES ASSUME NEW c \in Present, customer[c].phone.line = p.line
               PROVE  FALSE
    OBVIOUS
  <1>1. customer[c].phone \in Phones
    BY DEF Present, Base, DataTypes, Rows
  <1>q. QED
    BY <1>1, VariantsCover DEF PhoneTaken

LEMMA NewRowsAreNew ==
    ASSUME Base, NEW f \in Files
    PROVE  /\ NewRows(f) \in SUBSET Rows
           /\ \A x \in NewRows(f) :
                 /\ \A c \in Present : customer[c].phone.line # x.phone.line
                 /\ \A y \in NewRows(f) : x.phone.line = y.phone.line => x = y
  <1> DEFINE chosen(i) == /\ ~PhoneTaken(f[i].phone, {})
                          /\ \A h \in 1..(i - 1) : f[h].phone.line # f[i].phone.line
             made(i) == [phone |-> Canonical(f[i].phone), cpf |-> NoCpf, consent |-> f[i].consent]
  <1>1. /\ Len(f) \in Nat
        /\ \A i \in 1..Len(f) : f[i].phone \in Phones /\ f[i].consent \in Consents
    <2> DEFINE FileRows == [phone : Phones, consent : Consents]
    <2>1. f \in Seq(FileRows)
      BY RegistryAssumption
    <2>2. \A x \in FileRows : x.phone \in Phones /\ x.consent \in Consents
      OBVIOUS
    <2> HIDE DEF FileRows
    <2>3. Len(f) \in Nat /\ \A i \in 1..Len(f) : f[i] \in FileRows
      BY <2>1
    <2>q. QED
      BY <2>2, <2>3
  <1>2. \A i \in 1..Len(f) : made(i) \in Rows /\ made(i).phone.line = f[i].phone.line
    BY <1>1, CanonicalPhone DEF Rows
  <1>3. \A x \in NewRows(f) : \E i \in 1..Len(f) : chosen(i) /\ x = made(i)
    BY DEF NewRows
  <1> HIDE DEF made
  <1>4. ASSUME NEW x \in NewRows(f)
        PROVE  /\ x \in Rows
               /\ \A c \in Present : customer[c].phone.line # x.phone.line
               /\ \A y \in NewRows(f) : x.phone.line = y.phone.line => x = y
    <2>1. PICK i \in 1..Len(f) : chosen(i) /\ x = made(i)
      BY <1>3
    <2>2. x \in Rows /\ x.phone.line = f[i].phone.line
      BY <1>2, <2>1
    <2>3. \A c \in Present : customer[c].phone.line # x.phone.line
      BY <1>1, <2>1, <2>2, NotTaken
    <2>4. ASSUME NEW y \in NewRows(f), x.phone.line = y.phone.line
          PROVE  x = y
      <3>1. PICK k \in 1..Len(f) : chosen(k) /\ y = made(k)
        BY <1>3
      <3>2. f[i].phone.line = f[k].phone.line
        BY <1>2, <2>2, <2>4, <3>1
      <3>3. ~(i \in 1..(k - 1)) /\ ~(k \in 1..(i - 1))
        BY <2>1, <3>1, <3>2
      <3>4. i = k
        BY <1>1, <3>3
      <3>q. QED
        BY <2>1, <3>1, <3>4
    <2>q. QED
      BY <2>2, <2>3, <2>4
  <1>q. QED
    BY <1>4

\* The rows of a transaction that has read what it needs.
LEMMA BegunTransactionHolds ==
    ASSUME RegistryInv, NEW r \in Requests, stage[r] = "begin", Watch(r),
           UNCHANGED <<customer, raced, owed>>,
           NEW rows \in SUBSET Rows, fresh' = [fresh EXCEPT ![r] = rows],
           stage' = [stage EXCEPT ![r] = "commit"],
           UNCHANGED <<job, attempt, left, target, processed>>,
           \A x \in rows :
               /\ \A c \in Present : customer[c].phone.line # x.phone.line
               /\ \A y \in rows : x.phone.line = y.phone.line => x = y
    PROVE  RegistryInv'
  <1>1. stage'[r] = "commit" /\ fresh'[r] = rows
    BY DEF RegistryInv, Base, RequestTypes
  <1>2. RequestTypes'
    BY DEF RegistryInv, Base, RequestTypes, Stages
  <1>3. Others(r)
    BY DEF RegistryInv, Base, RequestTypes, Others
  <1>4. Shape(r)'
    BY <1>1 DEF RegistryInv, Base, Shape, Fits
  <1>5. DataTypes' /\ Present' = Present
    BY WatchTypes DEF RegistryInv, Base, DataTypes, Present
  <1>6. Secured(r)'
    <2>1. Secured(r)
      BY DEF RegistryInv
    <2>2. FreshFree(r)'
      BY <1>1, <1>5 DEF FreshFree
    <2>3. Free(r)' /\ Owes(r)'
      BY <1>1, <1>5, <2>1 DEF Secured, Free, Owes, OptsOut
    <2>q. QED
      BY <2>2, <2>3 DEF Secured
  <1>q. QED
    BY <1>2, <1>3, <1>4, <1>5, <1>6, WatchTypes, QuietHolds DEF Moves, RegistryInv

LEMMA BeginStep ==
    ASSUME RegistryInv, NEW r \in Requests, Begin(r)
    PROVE  RegistryInv'
  <1>1. job[r] \in Jobs /\ stage[r] = "begin" /\ Watch(r) /\ UNCHANGED <<customer, raced, owed>>
        /\ Base
    BY DEF Begin, RegistryInv, Base, RequestTypes
  <1>2. CASE Answer(r, "refused")
    BY <1>1, <1>2, RefusedHolds
  <1>3. CASE /\ job[r].op = "import" /\ fresh' = [fresh EXCEPT ![r] = NewRows(job[r].file)]
             /\ stage' = [stage EXCEPT ![r] = "commit"]
             /\ UNCHANGED <<job, attempt, left, target, processed>>
    <2>1. job[r].file \in Files
      BY <1>1, <1>3, JobParts
    <2>q. QED
      BY <1>1, <1>3, <2>1, NewRowsAreNew, BegunTransactionHolds
  <1>4. CASE /\ job[r].op = "register" /\ ~PhoneTaken(job[r].phone, {})
             /\ fresh' = [fresh EXCEPT ![r] = {NewRow(job[r])}]
             /\ stage' = [stage EXCEPT ![r] = "commit"]
             /\ UNCHANGED <<job, attempt, left, target, processed>>
    <2> DEFINE row == NewRow(job[r])
    <2>1. /\ job[r].phone \in Phones /\ job[r].cpf \in Cpfs \union {NoCpf}
          /\ job[r].consent \in {"GRANTED", "OPTED_OUT"}
      BY <1>1, <1>4, JobParts
    <2>2. row \in Rows /\ row.phone = job[r].phone
      BY <1>4, <2>1 DEF NewRow, Rows, Consents
    <2>3. \A c \in Present : customer[c].phone.line # row.phone.line
      BY <1>1, <1>4, <2>1, <2>2, NotTaken
    <2>4. {row} \in SUBSET Rows
      BY <2>2
    <2>5. fresh' = [fresh EXCEPT ![r] = {row}]
      BY <1>4
    <2> HIDE DEF row
    <2>6. \A x \in {row} :
              /\ \A c \in Present : customer[c].phone.line # x.phone.line
              /\ \A y \in {row} : x.phone.line = y.phone.line => x = y
      BY <2>3
    <2>q. QED
      BY <1>1, <1>4, <2>3, <2>4, <2>5, <2>6, BegunTransactionHolds
  <1>q. QED
    BY <1>2, <1>3, <1>4 DEF Begin

LEMMA AbortStep ==
    ASSUME RegistryInv, NEW r \in Requests, Abort(r)
    PROVE  RegistryInv'
  <1>1. stage[r] = "commit" /\ Watch(r) /\ UNCHANGED <<customer, raced, owed>>
    BY DEF Abort
  <1>2. CASE Answer(r, "failed")
    BY <1>1, <1>2, RefusedHolds
  <1>3. CASE /\ MayTryAgain(r) /\ stage' = [stage EXCEPT ![r] = "begin"]
             /\ attempt' = [attempt EXCEPT ![r] = @ + 1] /\ fresh' = [fresh EXCEPT ![r] = {}]
             /\ UNCHANGED <<job, left, target, processed>>
    <2>1. attempt[r] + 1 \in 0..MAX_REGISTRATION_ATTEMPTS
      BY <1>3 DEF RegistryInv, Base, RequestTypes, MayTryAgain, MAX_REGISTRATION_ATTEMPTS
    <2>2. RequestTypes'
      BY <1>1, <1>3, <2>1 DEF RegistryInv, Base, RequestTypes, Stages
    <2>3. Others(r) /\ stage'[r] = "begin"
      BY <1>3 DEF RegistryInv, Base, RequestTypes, Others
    <2>4. Shape(r)'
      BY <1>1, <1>3, <2>3 DEF RegistryInv, Base, Shape, Fits
    <2>5. DataTypes' /\ Present' = Present
      BY <1>1, WatchTypes DEF RegistryInv, Base, DataTypes, Present
    <2>6. Secured(r)'
      BY <1>1, <1>3, <2>3, <2>5 DEF RegistryInv, Secured, Free, FreshFree, Owes, OptsOut
    <2>q. QED
      BY <1>1, <2>2, <2>3, <2>4, <2>5, <2>6, WatchTypes, QuietHolds DEF Moves, RegistryInv
  <1>q. QED
    BY <1>2, <1>3 DEF Abort

------------------------------------------------------------------------------
(* Consent, opt-outs and removals *)

\* An opt-out goes on with what is left, or is processed to its end.
LEMMA NextOptOutHolds ==
    ASSUME Base, NEW r \in Requests, NEW rest \in SUBSET Customers, NextOptOut(r, rest),
           stage[r] \in {"lookup", "consent", "consentWrite"}, job[r].op = "optOut"
    PROVE  /\ Moves(r)
           /\ \/ rest = {} /\ Ended(r, "processed")
              \/ /\ rest # {} /\ stage'[r] = "consent" /\ job'[r] = job[r] /\ left'[r] = rest
                 /\ processed' = processed
  <1>1. CASE rest = {}
    BY <1>1, AnswerEnds DEF NextOptOut, Ended
  <1>2. CASE rest # {}
    <2>1. /\ stage' = [stage EXCEPT ![r] = "consent"] /\ left' = [left EXCEPT ![r] = rest]
          /\ target' = [target EXCEPT ![r] = NoCustomer]
          /\ UNCHANGED <<job, attempt, fresh, processed>>
      BY <1>2 DEF NextOptOut
    <2>2. stage'[r] = "consent" /\ left'[r] = rest /\ job'[r] = job[r]
      BY <2>1 DEF Base, RequestTypes
    <2>3. RequestTypes'
      BY <2>1 DEF Base, RequestTypes, Stages
    <2>4. Others(r)
      BY <2>1 DEF Base, RequestTypes, Others
    <2>5. Shape(r)'
      BY <2>2 DEF Shape, Fits
    <2>q. QED
      BY <1>2, <2>1, <2>2, <2>3, <2>4, <2>5 DEF Moves
  <1>q. QED
    BY <1>1, <1>2

\* What the opt-out owes after it has gone on.
LEMMA NextOptOutOwes ==
    ASSUME Base, Base', NEW r \in Requests, NEW rest \in SUBSET Customers, NextOptOut(r, rest),
           stage[r] \in {"lookup", "consent", "consentWrite"}, job[r].op = "optOut",
           \A c \in owed'[r] : /\ c \in Present'
                               /\ customer'[c].consent = "OPTED_OUT" \/ c \in rest,
           r \notin processed
    PROVE  Secured(r)'
  <1>1. CASE rest = {}
    <2>1. Ended(r, "processed")
      BY <1>1, NextOptOutHolds
    <2>q. QED
      BY <1>1, <2>1 DEF Ended, Secured, Free, FreshFree, Owes, OptsOut
  <1>2. CASE rest # {}
    <2>1. stage'[r] = "consent" /\ left'[r] = rest /\ processed' = processed
      BY <1>2, NextOptOutHolds
    <2>q. QED
      BY <2>1 DEF Secured, Free, FreshFree, Owes, OptsOut
  <1>q. QED
    BY <1>1, <1>2

\* A customer that is gone is not owed.
LEMMA NotFoundHolds ==
    ASSUME RegistryInv, NEW r \in Requests, NEW c \in Customers, c \notin Present,
           stage[r] \in {"consent", "consentWrite"}, NotFound(r, c),
           UNCHANGED <<customer, sinceVars, raced, owed>>
    PROVE  RegistryInv'
  <1>1. Base /\ job[r].op \in {"consent", "optOut"} /\ Secured(r) /\ left[r] \in SUBSET Customers
    BY DEF RegistryInv, Base, RequestTypes, Shape, Fits
  <1>2. CASE Answer(r, "refused")
    BY <1>2, RefusedHolds
  <1>3. CASE job[r].op = "optOut" /\ NextOptOut(r, left[r] \ {c})
    <2>1. Moves(r)
      BY <1>1, <1>3, NextOptOutHolds
    <2>2. DataTypes' /\ Base'
      BY <1>1, <2>1, MovesHolds DEF Base, DataTypes, sinceVars
    <2>3. Present' = Present
      BY DEF Present
    <2>4. \A d \in owed'[r] : /\ d \in Present'
                              /\ customer'[d].consent = "OPTED_OUT" \/ d \in left[r] \ {c}
      BY <1>1, <1>3, <2>3 DEF Secured, Owes, OptsOut
    <2>5. r \notin processed
      BY <1>1 DEF Secured, Owes
    <2>6. Secured(r)'
      BY <1>1, <1>3, <2>2, <2>4, <2>5, NextOptOutOwes
    <2>q. QED
      BY <2>1, <2>2, <2>6, QuietHolds DEF sinceVars
  <1>q. QED
    BY <1>1, <1>2, <1>3 DEF NotFound

LEMMA ReadConsentStep ==
    ASSUME RegistryInv, NEW r \in Requests, NEW c \in Customers, ReadConsent(r, c)
    PROVE  RegistryInv'
  <1>1. stage[r] = "consent" /\ UNCHANGED <<customer, sinceVars, raced, owed>> /\ Base /\ Secured(r)
        /\ job[r].op \in {"consent", "optOut"}
    BY DEF ReadConsent, RegistryInv, Base, Shape, Fits
  <1>2. CASE c \notin Present
    BY <1>1, <1>2, NotFoundHolds DEF ReadConsent
  <1>3. CASE c \in Present
    <2>1. /\ stage' = [stage EXCEPT ![r] = "consentWrite"] /\ target' = [target EXCEPT ![r] = c]
          /\ UNCHANGED <<job, attempt, fresh, left, processed>>
      BY <1>3 DEF ReadConsent
    <2>2. stage'[r] = "consentWrite" /\ target'[r] = c
      BY <1>1, <2>1 DEF Base, RequestTypes
    <2>3. RequestTypes'
      <3>1. /\ stage' \in [Requests -> Stages]
            /\ target' \in [Requests -> Customers \union {NoCustomer}]
        BY <1>1, <2>1 DEF Base, RequestTypes, Stages
      <3>2. c # NoCustomer
        BY RegistryAssumption
      <3>q. QED
        BY <1>1, <2>1, <3>1, <3>2 DEF Base, RequestTypes
    <2>4. Others(r)
      BY <1>1, <2>1 DEF Base, RequestTypes, Others
    <2>5. Shape(r)'
      BY <1>1, <2>1, <2>2 DEF Shape, Fits
    <2>6. DataTypes' /\ Present' = Present
      BY <1>1 DEF Base, DataTypes, sinceVars, Present
    <2>7. Secured(r)'
      BY <1>1, <2>1, <2>2, <2>6 DEF Secured, Free, FreshFree, Owes, OptsOut
    <2>q. QED
      BY <1>1, <2>3, <2>4, <2>5, <2>6, <2>7, QuietHolds DEF Moves, sinceVars
  <1>q. QED
    BY <1>2, <1>3

LEMMA WriteConsentStep ==
    ASSUME RegistryInv, NEW r \in Requests, WriteConsent(r)
    PROVE  RegistryInv'
  <1> DEFINE c == target[r]
             s == IF job[r].op = "consent" THEN job[r].consent ELSE "OPTED_OUT"
  <1>1. /\ stage[r] = "consentWrite" /\ UNCHANGED <<sinceVars, raced>> /\ Base /\ Secured(r)
        /\ job[r].op \in {"consent", "optOut"} /\ c \in Customers /\ left[r] \in SUBSET Customers
        /\ job[r] \in Jobs
    BY DEF WriteConsent, RegistryInv, Base, RequestTypes, Shape, Fits
  <1>2. CASE c \notin Present
    BY <1>1, <1>2, NotFoundHolds DEF WriteConsent
  <1>3. CASE c \in Present
    <2>1. /\ customer' = [customer EXCEPT ![c].consent = s]
          /\ owed' = [q \in Requests |-> IF s = "GRANTED" THEN owed[q] \ {c} ELSE owed[q]]
          /\ IF job[r].op = "consent" THEN Answer(r, "done") ELSE NextOptOut(r, left[r] \ {c})
      BY <1>3 DEF WriteConsent
    <2>2. s \in {"GRANTED", "OPTED_OUT"} /\ (job[r].op = "optOut" => s = "OPTED_OUT")
      BY <1>1, JobParts
    <2> HIDE DEF s
    <2>3. customer[c] \in Rows /\ customer \in [Customers -> Rows \union {Unused, Removed}]
      BY <1>1, <1>3 DEF Present, Base, DataTypes
    <2>4. /\ customer'[c].consent = s /\ customer'[c].phone = customer[c].phone
          /\ customer'[c] \in Rows
          /\ \A d \in Customers \ {c} : customer'[d] = customer[d]
          /\ customer' \in [Customers -> Rows \union {Unused, Removed}]
      BY <1>1, <2>1, <2>2, <2>3 DEF Rows, Consents
    <2>5. Present' = Present
      BY <1>1, <1>3, <2>4, RegistryAssumption DEF Present
    <2>6. /\ \A q \in Requests : owed'[q] \subseteq owed[q] /\ (s = "GRANTED" => c \notin owed'[q])
          /\ owed' \in [Requests -> SUBSET Customers]
      BY <1>1, <2>1 DEF Base, DataTypes
    <2>7. DataTypes'
      BY <1>1, <2>4, <2>6 DEF Base, DataTypes, sinceVars
    <2>8. \A q \in Requests : \A d \in owed'[q] :
              d \in Present =>
                  /\ d \in Present'
                  /\ customer[d].consent = "OPTED_OUT" => customer'[d].consent = "OPTED_OUT"
      BY <2>2, <2>4, <2>5, <2>6 DEF Present
    <2>9. \A d \in Present' : d \in Present /\ customer'[d].phone = customer[d].phone
      BY <2>4, <2>5 DEF Present
    <2>10. CASE job[r].op = "consent"
      <3>1. Ended(r, "done")
        BY <1>1, <2>1, <2>10, AnswerEnds
      <3>2. Secured(r)'
        BY <3>1, EndedIsSecured
      <3>q. QED
        BY <1>1, <2>6, <2>7, <2>8, <2>9, <3>1, <3>2, ConsentHolds DEF Ended
    <2>11. CASE job[r].op = "optOut"
      <3>1. NextOptOut(r, left[r] \ {c})
        BY <2>1, <2>11
      <3>2. Moves(r)
        BY <1>1, <2>11, <3>1, NextOptOutHolds
      <3>3. Base'
        BY <1>1, <2>7, <3>2, MovesHolds DEF Base
      <3>4. \A d \in owed'[r] : /\ d \in Present'
                                /\ customer'[d].consent = "OPTED_OUT" \/ d \in left[r] \ {c}
        <4>1. ASSUME NEW d \in owed'[r]
              PROVE  d \in Present /\ (customer[d].consent = "OPTED_OUT" \/ d \in left[r])
          BY <1>1, <2>6, <2>11 DEF Secured, Owes, OptsOut
        <4>q. QED
          BY <2>2, <2>4, <2>8, <2>11, <4>1
      <3>5. r \notin processed
        BY <1>1 DEF Secured, Owes
      <3>6. Secured(r)'
        BY <1>1, <2>11, <3>1, <3>3, <3>4, <3>5, NextOptOutOwes
      <3>q. QED
        BY <1>1, <2>6, <2>7, <2>8, <2>9, <3>2, <3>6, ConsentHolds
    <2>q. QED
      BY <1>1, <2>10, <2>11
  <1>q. QED
    BY <1>2, <1>3

LEMMA FindByPhoneStep ==
    ASSUME RegistryInv, NEW r \in Requests, FindByPhone(r)
    PROVE  RegistryInv'
  <1> DEFINE found == {c \in Present : /\ customer[c].phone \in Variants(job[r].phone)
                                       /\ customer[c].consent # "OPTED_OUT"}
             due == {c \in Present : customer[c].phone.line = job[r].phone.line}
  <1>1. /\ stage[r] = "lookup" /\ NextOptOut(r, found) /\ owed' = [owed EXCEPT ![r] = due]
        /\ UNCHANGED <<customer, sinceVars, raced>>
    BY DEF FindByPhone
  <1>2. Base /\ job[r] \in Jobs /\ job[r].op = "optOut" /\ Secured(r) /\ Present' = Present
    BY <1>1 DEF RegistryInv, Base, RequestTypes, Shape, Fits, Present
  <1>3. job[r].phone \in Phones
    BY <1>2, JobParts
  <1>4. found \in SUBSET Customers /\ due \in SUBSET Customers /\ due \subseteq Present
    BY DEF Present
  <1>5. ASSUME NEW c \in due
        PROVE  customer[c].consent = "OPTED_OUT" \/ c \in found
    <2>1. customer[c].phone \in Phones
      BY <1>2, <1>5 DEF Present, Base, DataTypes, Rows
    <2>2. customer[c].phone \in Variants(job[r].phone)
      BY <1>3, <1>5, <2>1, VariantsCover
    <2>q. QED
      BY <1>5, <2>2
  <1> HIDE DEF found, due
  <1>6. Moves(r)
    BY <1>1, <1>2, <1>4, NextOptOutHolds
  <1>7. owed'[r] = due /\ DataTypes' /\ \A q \in Requests \ {r} : owed'[q] = owed[q]
    BY <1>1, <1>2, <1>4 DEF Base, DataTypes, sinceVars
  <1>8. Base'
    BY <1>2, <1>6, <1>7, MovesHolds DEF Base
  <1>9. \A c \in owed'[r] : c \in Present' /\ (customer'[c].consent = "OPTED_OUT" \/ c \in found)
    BY <1>1, <1>2, <1>4, <1>5, <1>7
  <1>10. r \notin processed
    BY <1>1, <1>2 DEF Secured, Owes
  <1>11. Secured(r)'
    BY <1>1, <1>2, <1>4, <1>8, <1>9, <1>10, NextOptOutOwes
  <1>q. QED
    BY <1>1, <1>6, <1>7, <1>11, QuietHolds DEF sinceVars

LEMMA RemoveStep ==
    ASSUME RegistryInv, NEW r \in Requests, Remove(r)
    PROVE  RegistryInv'
  <1> DEFINE c == job[r].id
  <1>1. /\ stage[r] = "remove" /\ UNCHANGED <<sinceVars, raced>> /\ Base
    BY DEF Remove, RegistryInv
  <1>2. CASE Answer(r, "refused") /\ UNCHANGED <<customer, owed>>
    BY <1>1, <1>2, RefusedHolds
  <1>3. CASE /\ c \in Present /\ customer' = [customer EXCEPT ![c] = Removed]
             /\ owed' = [q \in Requests |-> owed[q] \ {c}] /\ Answer(r, "done")
    <2>1. c \in Customers /\ customer \in [Customers -> Rows \union {Unused, Removed}]
      BY <1>1, <1>3 DEF Present, Base, DataTypes
    <2>2. /\ customer' \in [Customers -> Rows \union {Unused, Removed}]
          /\ \A d \in Customers \ {c} : customer'[d] = customer[d]
          /\ Present' = Present \ {c}
      BY <1>3, <2>1 DEF Present
    <2>3. \A q \in Requests : owed'[q] = owed[q] \ {c}
      BY <1>3
    <2>4. DataTypes'
      BY <1>1, <1>3, <2>2 DEF Base, DataTypes, sinceVars
    <2>5. Ended(r, "done")
      BY <1>1, <1>3, AnswerEnds
    <2>6. Secured(r)'
      BY <2>5, EndedIsSecured
    <2>7. \A d \in Present' : d \in Present /\ customer'[d].phone = customer[d].phone
      BY <2>2 DEF Present
    <2>8. \A q \in Requests \ {r} :
              /\ owed'[q] \subseteq owed[q]
              /\ \A d \in owed'[q] :
                    d \in Present =>
                        /\ d \in Present'
                        /\ customer[d].consent = "OPTED_OUT" => customer'[d].consent = "OPTED_OUT"
      BY <2>2, <2>3 DEF Present
    <2>q. QED
      BY <1>1, <2>4, <2>5, <2>6, <2>7, <2>8, ConsentHolds DEF Ended
  <1>q. QED
    BY <1>2, <1>3 DEF Remove

------------------------------------------------------------------------------
(* Theorems *)

\* RegistryInv is inductive.
LEMMA RegistryStepHolds == RegistryInv /\ [RegistryNext]_registryVars => RegistryInv'
  <1> SUFFICES ASSUME RegistryInv, [RegistryNext]_registryVars PROVE RegistryInv'
    OBVIOUS
  <1>1. CASE UNCHANGED registryVars
    <2>1. Base' /\ Present' = Present
      BY <1>1 DEF RegistryInv, Base, RequestTypes, DataTypes, Shape, Present, registryVars,
                  requestVars, workVars, sinceVars
    <2>2. DuplicateIsRaced'
      BY <1>1, <2>1 DEF RegistryInv, DuplicateIsRaced, registryVars
    <2>3. ASSUME NEW q \in Requests
          PROVE  Secured(q)'
      <3>1. Secured(q)
        BY DEF RegistryInv
      <3>q. QED
        BY <1>1, <2>1, <3>1 DEF Secured, Free, FreshFree, Owes, OptsOut, Since, registryVars,
                                requestVars, workVars, sinceVars
    <2>q. QED
      BY <2>1, <2>2, <2>3 DEF RegistryInv
  <1>2. ASSUME NEW r \in Requests,
               \/ \E e \in Entries :
                     \/ StartCreate(r, e)
                     \/ \E k \in {"GRANTED", "OPTED_OUT"} : StartRegistration(r, e, k)
               \/ \E p \in Phones : StartOptOut(r, p)
               \/ \E f \in Files : StartImport(r, f)
               \/ \E c \in Customers :
                     \/ \E e \in Edits : StartUpdate(r, c, e)
                     \/ \E k \in {"GRANTED", "OPTED_OUT"} : StartConsent(r, c, k)
                     \/ StartRemove(r, c)
                     \/ ReadConsent(r, c)
        PROVE  RegistryInv'
    BY <1>2, StartCreateStep, StartRegistrationStep, StartOptOutStep, StartImportStep,
       StartUpdateStep, StartConsentStep, StartRemoveStep, ReadConsentStep
  <1>3. ASSUME NEW r \in Requests,
               \/ FindExisting(r) \/ FindPhone(r) \/ FindCpf(r) \/ Insert(r) \/ Write(r)
               \/ Begin(r) \/ Abort(r) \/ Commit(r)
               \/ WriteConsent(r)
               \/ IgnoreMessage(r) \/ FindByPhone(r)
               \/ Remove(r)
               \/ FailRequest(r)
        PROVE  RegistryInv'
    BY <1>3, FindExistingStep, FindPhoneStep, FindCpfStep, InsertStep, WriteStep, BeginStep,
       AbortStep, CommitStep, WriteConsentStep, IgnoreMessageStep, FindByPhoneStep, RemoveStep,
       FailRequestStep
  <1>q. QED
    BY <1>1, <1>2, <1>3 DEF RegistryNext

\* Two customers share a phone only if they always did, or if two writers raced for it
\* that were not both serializable.
THEOREM DuplicatesAreRaced == RegistrySpec => []DuplicateIsRaced
  BY RegistryInitHolds, RegistryStepHolds, PTL DEF RegistrySpec, RegistryInv

\* An opt-out that was processed has reached every customer with the phone, who stay
\* opted out until consent is granted again.
THEOREM OptOutsReachAll == RegistrySpec => []OptOutReachesAll
  <1>1. RegistryInv => OptOutReachesAll
    BY DEF RegistryInv, Secured, Owes, OptOutReachesAll
  <1>q. QED
    BY <1>1, RegistryInitHolds, RegistryStepHolds, PTL DEF RegistrySpec

\* Every variable of CustomerRegistry keeps its type.
THEOREM RegistryTypes == RegistrySpec => []RegistryTypeOK
  <1>1. RegistryInv => RegistryTypeOK
    BY BaseTypes DEF RegistryInv
  <1>q. QED
    BY <1>1, RegistryInitHolds, RegistryStepHolds, PTL DEF RegistrySpec
------------------------------------------------------------------------------
(* Every request ends *)

\* The customer that an opt-out writes is one of those it has left.
Targeted(q) == stage[q] = "consentWrite" /\ job[q].op = "optOut" => target[q] \in left[q]

\* What a step of request r does to a request q.
GoesOn(q) == RegistryProgress(q) /\ (Targeted(q) => Targeted(q)')

\* The requests that do not take the step.
LEMMA OthersGoOn ==
    ASSUME Base, NEW r \in Requests, NEW q \in Requests \ {r},
           stage'[q] = stage[q], job'[q] = job[q], attempt'[q] = attempt[q],
           left'[q] = left[q], target'[q] = target[q]
    PROVE  GoesOn(q)
  BY DEF GoesOn, RegistryProgress, Targeted

LEMMA AnswerGoesOn ==
    ASSUME Base, NEW r \in Requests, NEW how, Answer(r, how), NEW q \in Requests
    PROVE  GoesOn(q)
  <1>1. CASE q = r
    BY <1>1 DEF GoesOn, RegistryProgress, Targeted, Answer, Base, RequestTypes
  <1>2. CASE q # r
    BY <1>2, OthersGoOn DEF Answer, Base, RequestTypes
  <1>q. QED
    BY <1>1, <1>2

LEMMA StartGoesOn ==
    ASSUME Base, NEW r \in Requests, NEW j, NEW s \in Stages \ {"consentWrite"}, Start(r, j, s),
           NEW q \in Requests
    PROVE  GoesOn(q)
  <1>1. CASE q = r
    BY <1>1 DEF GoesOn, RegistryProgress, Targeted, Start, Base, RequestTypes
  <1>2. CASE q # r
    BY <1>2, OthersGoOn DEF Start, Base, RequestTypes
  <1>q. QED
    BY <1>1, <1>2

\* On to an await behind this one.
LEMMA ProceedGoesOn ==
    ASSUME Base, NEW r \in Requests, NEW s \in Stages \ {"consentWrite"}, Proceed(r, s),
           RequestAwaits[s] < RequestAwaits[stage[r]], NEW q \in Requests
    PROVE  GoesOn(q)
  <1>1. CASE q = r
    BY <1>1 DEF GoesOn, RegistryProgress, Targeted, Proceed, workVars, Base, RequestTypes
  <1>2. CASE q # r
    BY <1>2, OthersGoOn DEF Proceed, workVars, Base, RequestTypes
  <1>q. QED
    BY <1>1, <1>2

\* create and update.
LEMMA QueriesGoOn ==
    ASSUME Base, NEW r \in Requests,
           FindExisting(r) \/ FindPhone(r) \/ FindCpf(r) \/ Insert(r) \/ Write(r),
           NEW q \in Requests
    PROVE  GoesOn(q)
  <1>1. CASE FindExisting(r)
    BY <1>1, AnswerGoesOn, ProceedGoesOn DEF FindExisting, RequestAwaits, Stages
  <1>2. CASE FindPhone(r)
    BY <1>2, AnswerGoesOn, ProceedGoesOn DEF FindPhone, RequestAwaits, Stages, LastStage
  <1>3. CASE FindCpf(r)
    BY <1>3, AnswerGoesOn, ProceedGoesOn DEF FindCpf, RequestAwaits, Stages, LastStage
  <1>4. CASE Insert(r) \/ Write(r)
    BY <1>4, AnswerGoesOn DEF Insert, Write
  <1>q. QED
    BY <1>1, <1>2, <1>3, <1>4

\* Imports and registrations.
LEMMA TransactionsGoOn ==
    ASSUME Base, NEW r \in Requests, Begin(r) \/ Abort(r) \/ Commit(r), NEW q \in Requests
    PROVE  GoesOn(q)
  <1>1. ASSUME stage[r] = "begin", stage' = [stage EXCEPT ![r] = "commit"],
               UNCHANGED <<job, attempt, left, target>>
        PROVE  GoesOn(q)
    BY <1>1 DEF GoesOn, RegistryProgress, Targeted, RequestAwaits, Base, RequestTypes
  <1>2. CASE Begin(r)
    BY <1>1, <1>2, AnswerGoesOn DEF Begin
  <1>3. ASSUME stage[r] = "commit", MayTryAgain(r), stage' = [stage EXCEPT ![r] = "begin"],
               attempt' = [attempt EXCEPT ![r] = @ + 1], UNCHANGED <<job, left, target>>
        PROVE  GoesOn(q)
    <2>1. CASE q = r
      BY <1>3, <2>1
         DEF GoesOn, RegistryProgress, Targeted, Base, RequestTypes, MayTryAgain,
             MAX_REGISTRATION_ATTEMPTS
    <2>2. CASE q # r
      BY <1>3, <2>2, OthersGoOn DEF Base, RequestTypes
    <2>q. QED
      BY <2>1, <2>2
  <1>4. CASE Abort(r)
    BY <1>3, <1>4, AnswerGoesOn DEF Abort
  <1>5. CASE Commit(r)
    BY <1>5, AnswerGoesOn DEF Commit
  <1>q. QED
    BY <1>2, <1>4, <1>5

\* An opt-out with one customer less, or with those it has just found.
LEMMA NextOptOutGoesOn ==
    ASSUME Base, NEW r \in Requests, NEW rest \in SUBSET Customers, NextOptOut(r, rest),
           \/ stage[r] = "lookup"
           \/ /\ stage[r] \in {"consent", "consentWrite"}
              /\ rest \subseteq left[r] /\ rest # left[r],
           NEW q \in Requests
    PROVE  GoesOn(q)
  <1>1. CASE rest = {}
    BY <1>1, AnswerGoesOn DEF NextOptOut
  <1>2. CASE rest # {}
    <2>1. /\ stage' = [stage EXCEPT ![r] = "consent"] /\ left' = [left EXCEPT ![r] = rest]
          /\ target' = [target EXCEPT ![r] = NoCustomer] /\ UNCHANGED <<job, attempt>>
      BY <1>2 DEF NextOptOut
    <2>2. CASE q = r
      BY <2>1, <2>2 DEF GoesOn, RegistryProgress, Targeted, Base, RequestTypes
    <2>3. CASE q # r
      BY <2>1, <2>3, OthersGoOn DEF Base, RequestTypes
    <2>q. QED
      BY <2>2, <2>3
  <1>q. QED
    BY <1>1, <1>2

\* Consents and opt-outs.
LEMMA ConsentsGoOn ==
    ASSUME Base, NEW r \in Requests, Targeted(r),
           \/ \E c \in Customers : ReadConsent(r, c)
           \/ WriteConsent(r) \/ IgnoreMessage(r) \/ FindByPhone(r),
           NEW q \in Requests
    PROVE  GoesOn(q)
  <1>0. /\ stage[r] \in {"consent", "consentWrite"} => job[r].op \in {"consent", "optOut"}
        /\ left[r] \in SUBSET Customers
    BY DEF Base, RequestTypes, Shape, Fits
  <1>1. ASSUME NEW c \in left[r], stage[r] \in {"consent", "consentWrite"},
               NextOptOut(r, left[r] \ {c})
        PROVE  GoesOn(q)
    BY <1>0, <1>1, NextOptOutGoesOn
  <1>2. ASSUME NEW c, job[r].op = "optOut" => c \in left[r],
               stage[r] \in {"consent", "consentWrite"}, NotFound(r, c)
        PROVE  GoesOn(q)
    BY <1>0, <1>1, <1>2, AnswerGoesOn DEF NotFound
  <1>3. ASSUME NEW c \in Customers, ReadConsent(r, c)
        PROVE  GoesOn(q)
    <2>1. stage[r] = "consent" /\ (job[r].op = "optOut" => c \in left[r])
      BY <1>3 DEF ReadConsent
    <2>2. CASE c \notin Present
      BY <1>2, <1>3, <2>1, <2>2 DEF ReadConsent
    <2>3. CASE c \in Present
      <3>1. /\ stage' = [stage EXCEPT ![r] = "consentWrite"]
            /\ target' = [target EXCEPT ![r] = c] /\ UNCHANGED <<job, attempt, left>>
        BY <1>3, <2>3 DEF ReadConsent
      <3>2. CASE q = r
        BY <2>1, <3>1, <3>2
           DEF GoesOn, RegistryProgress, Targeted, RequestAwaits, Base, RequestTypes
      <3>3. CASE q # r
        BY <3>1, <3>3, OthersGoOn DEF Base, RequestTypes
      <3>q. QED
        BY <3>2, <3>3
    <2>q. QED
      BY <2>2, <2>3
  <1>4. CASE WriteConsent(r)
    <2>1. stage[r] = "consentWrite" /\ (job[r].op = "optOut" => target[r] \in left[r])
      BY <1>4 DEF WriteConsent, Targeted
    <2>2. CASE target[r] \notin Present
      BY <1>2, <1>4, <2>1, <2>2 DEF WriteConsent
    <2>3. CASE target[r] \in Present
      BY <1>0, <1>1, <1>4, <2>1, <2>3, AnswerGoesOn DEF WriteConsent
    <2>q. QED
      BY <2>2, <2>3
  <1>5. CASE IgnoreMessage(r)
    BY <1>5, AnswerGoesOn DEF IgnoreMessage
  <1>6. CASE FindByPhone(r)
    BY <1>6, NextOptOutGoesOn DEF FindByPhone, Present
  <1>q. QED
    BY <1>3, <1>4, <1>5, <1>6

\* Each step that begins a request.
LEMMA StartsGoOn ==
    ASSUME Base, NEW r \in Requests, NEW q \in Requests,
           \/ \E e \in Entries :
                 \/ StartCreate(r, e)
                 \/ \E k \in {"GRANTED", "OPTED_OUT"} : StartRegistration(r, e, k)
           \/ \E p \in Phones : StartOptOut(r, p)
           \/ \E f \in Files : StartImport(r, f)
           \/ \E c \in Customers :
                 \/ \E e \in Edits : StartUpdate(r, c, e)
                 \/ \E k \in {"GRANTED", "OPTED_OUT"} : StartConsent(r, c, k)
                 \/ StartRemove(r, c)
    PROVE  GoesOn(q)
  <1>1. \A j : \A s \in Stages \ {"consentWrite"} : Start(r, j, s) => GoesOn(q)
    BY StartGoesOn
  <1>q. QED
    BY <1>1
       DEF StartCreate, StartRegistration, StartOptOut, StartImport, StartUpdate, StartConsent,
           StartRemove, Stages

\* No loop of a request goes on for ever, whatever the others write: a registration gives
\* up after its last attempt, and an opt-out meets each customer it has found once.
THEOREM RegistryRequestsComeToAnEnd == RegistrySpec => RegistryRequestsEnd
  <1> DEFINE Aimed == \A q \in Requests : Targeted(q)
             Forward == \A r \in Requests : RegistryProgress(r)
  <1>1. RegistryInit => Aimed
    BY DEF RegistryInit, Targeted
  <1>2. ASSUME RegistryInv, Aimed, [RegistryNext]_registryVars
        PROVE  Aimed' /\ Forward
    <2>0. Base
      BY <1>2 DEF RegistryInv
    <2>1. CASE UNCHANGED registryVars
      BY <1>2, <2>1 DEF registryVars, requestVars, workVars, Targeted, RegistryProgress
    <2>2. CASE RegistryNext
      <3>1. ASSUME NEW q \in Requests
            PROVE  GoesOn(q)
        <4>1. ASSUME NEW r \in Requests, FailRequest(r) \/ Remove(r)
              PROVE  GoesOn(q)
          BY <2>0, <4>1, AnswerGoesOn DEF FailRequest, Remove
        <4>q. QED
          BY <1>2, <2>0, <2>2, <4>1, QueriesGoOn, TransactionsGoOn, ConsentsGoOn, StartsGoOn
             DEF RegistryNext
      <3>q. QED
        BY <1>2, <3>1 DEF GoesOn
    <2>q. QED
      BY <1>2, <2>1, <2>2
  <1> HIDE DEF Aimed, Forward
  <1>3. RegistrySpec => [][Forward]_registryVars
    BY <1>1, <1>2, RegistryInitHolds, RegistryStepHolds, PTL DEF RegistrySpec
  <1>q. QED
    BY <1>3, PTL DEF RegistryRequestsEnd, Forward
==============================================================================
