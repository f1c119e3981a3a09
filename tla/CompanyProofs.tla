---------------------------- MODULE CompanyProofs -----------------------------
(***************************************************************************)
(* Proofs about what a company keeps besides its customers, for any number *)
(* of requests: AutomationCatalog, CompanyPolicy, CustomerInterests and    *)
(* CampaignAudience.                                                       *)
(***************************************************************************)
EXTENDS AutomationCatalog, CompanyPolicy, CustomerInterests, CampaignAudience,
        FiniteSetTheorems, TLAPS

------------------------------------------------------------------------------
(* AutomationCatalog *)

\* Requests that have counted and are about to insert.
Passed == {r \in Creators : await[r] = "custom"}

\* Each of them was counted with room for one: their automations and those there
\* are stay below the limit and the requests together.
RoomForPassed ==
    Cardinality(Custom) + Cardinality(Passed) < AutomationLimit + Cardinality(Creators)

CatalogInv == CatalogTypeOK /\ RoomForPassed

LEMMA CatalogCounts ==
    /\ IsFiniteSet(Custom) /\ Cardinality(Custom) \in Nat
    /\ IsFiniteSet(Passed) /\ Cardinality(Passed) \in Nat
    /\ Cardinality(Passed) <= Cardinality(Creators) /\ Cardinality(Creators) \in Nat
    /\ Cardinality(Custom)' \in Nat /\ Cardinality(Passed)' \in Nat
  <1>1. Custom \in SUBSET Names /\ Custom' \in SUBSET Names
    BY DEF Custom
  <1>2. Passed \in SUBSET Creators /\ Passed' \in SUBSET Creators
    BY DEF Passed
  <1>q. QED
    BY <1>1, <1>2, FS_Subset, FS_CardinalityType, CatalogAssumption

LEMMA CatalogInitHolds == CatalogInit => CatalogInv
  <1> SUFFICES ASSUME CatalogInit PROVE CatalogInv
    OBVIOUS
  <1>1. Passed = {} /\ Cardinality(Passed) = 0
    BY FS_EmptySet DEF CatalogInit, Passed
  <1>2. Cardinality(Creators) \in Nat \ {0}
    BY CatalogAssumption, FS_CardinalityType, FS_EmptySet
  <1>3. RoomForPassed
    BY <1>1, <1>2, CatalogCounts, CatalogAssumption DEF CatalogInit, RoomForPassed
  <1>q. QED
    BY <1>3, CatalogAssumption DEF CatalogInit, CatalogInv, CatalogTypeOK

\* A request that does not pass, or that waits for something else, leaves the count.
LEMMA CatalogQuiet ==
    ASSUME CatalogInv, CatalogTypeOK', Custom' = Custom, Passed' \subseteq Passed
    PROVE  CatalogInv'
  <1>1. Cardinality(Passed') <= Cardinality(Passed)
    BY CatalogCounts, FS_Subset
  <1>q. QED
    BY <1>1, CatalogCounts, CatalogAssumption DEF CatalogInv, RoomForPassed

LEMMA CountStep ==
    ASSUME CatalogInv, NEW r \in Creators, CountAutomations(r)
    PROVE  CatalogInv'
  <1>1. CASE LimitIsReached
    <2>1. CatalogTypeOK' /\ Custom' = Custom
      BY <1>1, CatalogAssumption
         DEF CatalogInv, CatalogTypeOK, CountAutomations, EndCreation, Custom
    <2>2. Passed' \subseteq Passed
      BY <1>1 DEF CatalogInv, CatalogTypeOK, CountAutomations, EndCreation, Passed
    <2>q. QED
      BY <2>1, <2>2, CatalogQuiet
  <1>2. CASE ~LimitIsReached
    <2>1. CatalogTypeOK' /\ Custom' = Custom
      BY <1>2 DEF CatalogInv, CatalogTypeOK, CountAutomations, Custom
    <2>2. r \notin Passed /\ Passed' = Passed \union {r}
      BY <1>2 DEF CatalogInv, CatalogTypeOK, CountAutomations, Passed
    <2>3. Cardinality(Custom) < AutomationLimit
      BY <1>2, CatalogCounts, CatalogAssumption DEF LimitIsReached
    <2>4. Passed' \in SUBSET Creators
      BY DEF Passed
    <2>5. Cardinality(Passed') <= Cardinality(Creators)
      BY <2>4, CatalogAssumption, FS_Subset
    <2>6. RoomForPassed'
      BY <2>1, <2>3, <2>5, CatalogCounts, CatalogAssumption DEF RoomForPassed
    <2>q. QED
      BY <2>1, <2>6 DEF CatalogInv
  <1>q. QED
    BY <1>1, <1>2

LEMMA InsertStep ==
    ASSUME CatalogInv, NEW r \in Creators, InsertAutomation(r)
    PROVE  CatalogInv'
  <1>1. CatalogTypeOK'
    BY CatalogAssumption
       DEF CatalogInv, CatalogTypeOK, InsertAutomation, Inserted, EndCreation, Kinds
  <1>2. CASE await[r] = "campaign"
    <2>1. Custom' = Custom
      BY <1>2 DEF CatalogInv, CatalogTypeOK, InsertAutomation, Inserted, Custom
    <2>2. Passed' \subseteq Passed
      BY <1>2 DEF CatalogInv, CatalogTypeOK, InsertAutomation, EndCreation, Passed
    <2>q. QED
      BY <1>1, <2>1, <2>2, CatalogQuiet
  <1>3. CASE await[r] = "custom"
    <2>1. r \in Passed /\ Passed' = Passed \ {r}
      BY <1>3 DEF CatalogInv, CatalogTypeOK, InsertAutomation, EndCreation, Passed
    <2>2. Cardinality(Passed') = Cardinality(Passed) - 1
      BY <2>1, CatalogCounts, FS_RemoveElement
    <2>3. Custom' = Custom \/ Custom' = Custom \union {naming[r]}
      BY <1>3 DEF CatalogInv, CatalogTypeOK, InsertAutomation, Inserted, Custom
    <2>4. Cardinality(Custom') <= Cardinality(Custom) + 1
      BY <2>3, CatalogCounts, FS_AddElement
    <2>5. RoomForPassed'
      BY <2>2, <2>4, CatalogCounts, CatalogAssumption DEF RoomForPassed, CatalogInv
    <2>q. QED
      BY <1>1, <2>5 DEF CatalogInv
  <1>q. QED
    BY <1>2, <1>3 DEF InsertAutomation

LEMMA RenameStep ==
    ASSUME CatalogInv, NEW n \in Names, NEW m \in Names, Rename(n, m)
    PROVE  CatalogInv'
  <1>1. CatalogTypeOK' /\ Passed' = Passed /\ n # m
    BY DEF CatalogInv, CatalogTypeOK, Rename, Kinds, Passed
  <1>2. CASE automation[n] = "campaign"
    <2>1. Custom' = Custom
      BY <1>1, <1>2 DEF CatalogInv, CatalogTypeOK, Rename, Custom
    <2>q. QED
      BY <1>1, <2>1, CatalogQuiet
  <1>3. CASE automation[n] = "custom"
    <2>1. n \in Custom /\ m \notin Custom \ {n} /\ Custom' = (Custom \ {n}) \union {m}
      BY <1>1, <1>3 DEF CatalogInv, CatalogTypeOK, Rename, Custom
    <2>2. /\ IsFiniteSet(Custom \ {n})
          /\ Cardinality(Custom \ {n}) = Cardinality(Custom) - 1
      BY <2>1, CatalogCounts, FS_RemoveElement
    <2>3. Cardinality((Custom \ {n}) \union {m}) = Cardinality(Custom \ {n}) + 1
      BY <2>1, <2>2, FS_AddElement
    <2>4. Cardinality(Custom') = Cardinality(Custom)
      BY <2>1, <2>2, <2>3, CatalogCounts
    <2>q. QED
      BY <1>1, <2>4 DEF CatalogInv, RoomForPassed
  <1>q. QED
    BY <1>2, <1>3 DEF Rename

LEMMA RemoveStep ==
    ASSUME CatalogInv, NEW n \in Names, RemoveAutomation(n)
    PROVE  CatalogInv'
  <1>1. CatalogTypeOK' /\ Passed' = Passed /\ Custom' \subseteq Custom
    BY DEF CatalogInv, CatalogTypeOK, RemoveAutomation, Kinds, Passed, Custom
  <1>2. Cardinality(Custom') <= Cardinality(Custom)
    BY <1>1, CatalogCounts, FS_Subset
  <1>q. QED
    BY <1>1, <1>2, CatalogCounts, CatalogAssumption DEF CatalogInv, RoomForPassed

\* CatalogInv is inductive.
LEMMA CatalogStepHolds == CatalogInv /\ [CatalogNext]_catalogVars => CatalogInv'
  <1> SUFFICES ASSUME CatalogInv, [CatalogNext]_catalogVars PROVE CatalogInv'
    OBVIOUS
  <1>1. ASSUME NEW r \in Creators, NEW n \in Names, NEW stage_ \in {"count", "campaign"},
               StartCreation(r, n, stage_)
        PROVE  CatalogInv'
    <2>1. CatalogTypeOK' /\ Custom' = Custom
      BY <1>1, CatalogAssumption DEF CatalogInv, CatalogTypeOK, StartCreation, Custom
    <2>2. Passed' \subseteq Passed
      BY <1>1 DEF CatalogInv, CatalogTypeOK, StartCreation, Passed
    <2>q. QED
      BY <2>1, <2>2, CatalogQuiet
  <1>2. ASSUME NEW r \in Creators, RefuseCreation(r)
        PROVE  CatalogInv'
    <2>1. CatalogTypeOK' /\ Custom' = Custom
      BY <1>2, CatalogAssumption
         DEF CatalogInv, CatalogTypeOK, RefuseCreation, EndCreation, Custom
    <2>2. Passed' \subseteq Passed
      BY <1>2 DEF CatalogInv, CatalogTypeOK, RefuseCreation, EndCreation, Passed
    <2>q. QED
      BY <2>1, <2>2, CatalogQuiet
  <1>3. CASE UNCHANGED catalogVars
    <2>1. CatalogTypeOK' /\ Custom' = Custom /\ Passed' = Passed
      BY <1>3 DEF CatalogInv, CatalogTypeOK, catalogVars, Custom, Passed
    <2>q. QED
      BY <2>1, CatalogQuiet
  <1>q. QED
    BY <1>1, <1>2, <1>3, CountStep, InsertStep, RenameStep, RemoveStep DEF CatalogNext

\* Creations that overlap exceed the limit by fewer than their number.
THEOREM LimitIsExceededByOverlap == CatalogSpec => []LimitPlusOverlap
  <1>1. CatalogInv => LimitPlusOverlap
    BY CatalogCounts, CatalogAssumption DEF CatalogInv, RoomForPassed, LimitPlusOverlap
  <1>q. QED
    BY <1>1, CatalogInitHolds, CatalogStepHolds, PTL DEF CatalogSpec

\* Every variable of AutomationCatalog keeps its type.
THEOREM CatalogTypes == CatalogSpec => []CatalogTypeOK
  BY CatalogInitHolds, CatalogStepHolds, PTL DEF CatalogSpec, CatalogInv

------------------------------------------------------------------------------
(* CompanyPolicy *)

\* A request that has read the policy is about to change what it has read.
RevisionsChange == \A m \in Managers : revision[m] # NoRevision => revision[m].read # revision[m].write

PolicyInv == PolicyTypeOK /\ RevisionsChange /\ AuditTellsPolicy

LEMMA PolicyInitHolds == PolicyInit => PolicyInv
  <1> SUFFICES ASSUME PolicyInit PROVE PolicyInv
    OBVIOUS
  <1>1. audits \in Seq(BOOLEAN) /\ Len(audits) = 0
    BY DEF PolicyInit
  <1>2. PolicyTypeOK /\ RevisionsChange
    BY <1>1 DEF PolicyInit, PolicyTypeOK, RevisionsChange, Pending, NoRevision
  <1>3. AuditTellsPolicy
    BY <1>1 DEF PolicyInit, AuditTellsPolicy
  <1>q. QED
    BY <1>2, <1>3 DEF PolicyInv

LEMMA ReadPolicyStep ==
    ASSUME PolicyInv, NEW m \in Managers, NEW write \in BOOLEAN, NEW acknowledged \in BOOLEAN,
           ReadPolicy(m, write, acknowledged)
    PROVE  PolicyInv'
  <1>1. [read |-> include, write |-> write] \in Pending
    BY DEF PolicyInv, PolicyTypeOK, Pending
  <1>2. PolicyTypeOK'
    BY <1>1 DEF PolicyInv, PolicyTypeOK, ReadPolicy
  <1>3. RevisionsChange'
    BY DEF PolicyInv, PolicyTypeOK, RevisionsChange, ReadPolicy
  <1>4. AuditTellsPolicy'
    BY DEF PolicyInv, AuditTellsPolicy, ReadPolicy
  <1>q. QED
    BY <1>2, <1>3, <1>4 DEF PolicyInv

LEMMA WritePolicyStep ==
    ASSUME PolicyInv, NEW m \in Managers, WritePolicy(m)
    PROVE  PolicyInv'
  <1>1. NoRevision \in Pending /\ revision[m] \in Pending
    BY DEF NoRevision, Pending, PolicyInv, PolicyTypeOK
  <1>2. PolicyTypeOK'
    <2>1. revision' \in [Managers -> Pending]
      BY <1>1 DEF PolicyInv, PolicyTypeOK, WritePolicy
    <2>2. include' \in BOOLEAN /\ audits' \in Seq(BOOLEAN)
      BY <1>1 DEF PolicyInv, PolicyTypeOK, WritePolicy, Pending
    <2>q. QED
      BY <2>1, <2>2 DEF PolicyInv, PolicyTypeOK, WritePolicy
  <1>3. RevisionsChange'
    BY DEF PolicyInv, PolicyTypeOK, RevisionsChange, WritePolicy
  <1>4. AuditTellsPolicy'
    <2>1. CASE UNCHANGED <<include, audits>>
      BY <2>1 DEF PolicyInv, AuditTellsPolicy
    <2>2. CASE Unchanged(m) /\ include' = revision[m].write
               /\ audits' = Append(audits, revision[m].write)
      <3>1. audits \in Seq(BOOLEAN) /\ Len(audits) \in Nat /\ include # revision[m].write
        BY <2>2 DEF PolicyInv, PolicyTypeOK, RevisionsChange, Unchanged, WritePolicy
      <3>2. /\ Len(audits') = Len(audits) + 1
            /\ audits'[Len(audits) + 1] = revision[m].write
            /\ \A i \in 1..Len(audits) : audits'[i] = audits[i]
        BY <2>2, <3>1
      <3>3. audits' # <<>>
        BY <3>1, <3>2
      <3>4. ASSUME NEW i \in 1..Len(audits')
            PROVE  audits'[i] # (IF i = 1 THEN TRUE ELSE audits'[i - 1])
        <4>1. CASE i \in 1..Len(audits)
          <5>1. audits'[i] = audits[i] /\ audits[i] # (IF i = 1 THEN TRUE ELSE audits[i - 1])
            BY <4>1, <3>2 DEF PolicyInv, AuditTellsPolicy
          <5>2. CASE i = 1
            BY <5>1, <5>2
          <5>3. CASE i # 1
            <6>1. i - 1 \in 1..Len(audits)
              BY <4>1, <5>3, <3>1
            <6>2. audits'[i - 1] = audits[i - 1]
              BY <6>1, <3>2
            <6>q. QED
              BY <5>1, <5>3, <6>2
          <5>q. QED
            BY <5>2, <5>3
        <4>2. CASE i = Len(audits) + 1
          <5>1. CASE i = 1
            <6>1. audits = <<>>
              BY <4>2, <5>1, <3>1
            <6>q. QED
              BY <4>2, <5>1, <6>1, <3>1, <3>2 DEF PolicyInv, AuditTellsPolicy
          <5>2. CASE i # 1
            <6>1. audits # <<>> /\ i - 1 \in 1..Len(audits) /\ i - 1 = Len(audits)
              BY <4>2, <5>2, <3>1
            <6>2. include = audits'[i - 1]
              BY <6>1, <3>2 DEF PolicyInv, AuditTellsPolicy
            <6>q. QED
              BY <4>2, <5>2, <6>2, <3>1, <3>2
          <5>q. QED
            BY <5>1, <5>2
        <4>3. i \in 1..Len(audits) \/ i = Len(audits) + 1
          BY <3>1, <3>2
        <4>q. QED
          BY <4>1, <4>2, <4>3
      <3>q. QED
        BY <2>2, <3>1, <3>2, <3>3, <3>4 DEF AuditTellsPolicy
    <2>q. QED
      BY <2>1, <2>2 DEF WritePolicy
  <1>q. QED
    BY <1>2, <1>3, <1>4 DEF PolicyInv

\* PolicyInv is inductive.
LEMMA PolicyStepHolds == PolicyInv /\ [PolicyNext]_policyVars => PolicyInv'
  <1> SUFFICES ASSUME PolicyInv, [PolicyNext]_policyVars PROVE PolicyInv'
    OBVIOUS
  <1>1. ASSUME UNCHANGED <<include, audits, revision>>, PolicyTypeOK'
        PROVE  PolicyInv'
    BY <1>1 DEF PolicyInv, RevisionsChange, AuditTellsPolicy
  <1>2. ASSUME NEW accepted \in BOOLEAN, AllowUnknown(accepted)
        PROVE  PolicyInv'
    BY <1>1, <1>2 DEF PolicyInv, PolicyTypeOK, AllowUnknown, Declaration
  <1>3. CASE BlockUnknown
    BY <1>1, <1>3 DEF PolicyInv, PolicyTypeOK, BlockUnknown
  <1>4. CASE UNCHANGED policyVars
    BY <1>1, <1>4 DEF PolicyInv, PolicyTypeOK, policyVars
  <1>q. QED
    BY <1>2, <1>3, <1>4, ReadPolicyStep, WritePolicyStep DEF PolicyNext

\* The audit names every change of the policy, in order, however changes overlap.
THEOREM AuditIsComplete == PolicySpec => []AuditTellsPolicy
  BY PolicyInitHolds, PolicyStepHolds, PTL DEF PolicySpec, PolicyInv

\* Unknown contacts are allowed only with a declaration, and types are kept.
THEOREM PolicyTypes == PolicySpec => []PolicyTypeOK
  BY PolicyInitHolds, PolicyStepHolds, PTL DEF PolicySpec, PolicyInv

------------------------------------------------------------------------------
(* CustomerInterests *)

\* What a transaction that is about to commit has read, and whether it was offered.
Reads(s) ==
    step[s] = "commit" =>
        /\ task[s].op \in {"assign", "register"}
        /\ task[s].op = "register" => seen[s] = {}
        /\ task[s].op = "assign" /\ s \notin overtaken =>
              /\ contact[task[s].id] # "missing"
              /\ contact[task[s].id] = "registered" => seen[s] = interests[task[s].id]

Offered(s) ==
    step[s] = "commit" =>
        /\ task[s].op = "register" =>
              (link = task[s].link /\ open) \/ task[s].link \in withdrawn[s]
        /\ \A o \in task[s].wanted \ seen[s] : option[o] = "active" \/ o \in withdrawn[s]

InterestsInv ==
    /\ InterestsTypeOK
    /\ InterestsAreOneRequest
    /\ \A s \in Sessions : Reads(s) /\ Offered(s)

LEMMA TaskParts ==
    ASSUME NEW t \in Tasks
    PROVE  /\ t.op \in {"none", "assign", "register", "remove", "createLink", "rotateLink"}
           /\ t.op \in {"assign", "remove"} => t.id \in Contacts
           /\ t.op \in {"assign", "register"} => t.wanted \in SUBSET Options
           /\ t.op = "register" => t.link \in PublicIds
  BY InterestsAssumption DEF Tasks, Rest

LEMMA InterestsInitHolds == InterestsInit => InterestsInv
  <1> SUFFICES ASSUME InterestsInit PROVE InterestsInv
    OBVIOUS
  <1>1. InterestsTypeOK
    <2>1. Rest \in Tasks /\ 0 \in 0..MAX_INTEREST_ATTEMPTS
      BY DEF Tasks, MAX_INTEREST_ATTEMPTS
    <2>2. /\ task \in [Sessions -> Tasks]
          /\ tries \in [Sessions -> 0..MAX_INTEREST_ATTEMPTS]
      BY <2>1 DEF InterestsInit
    <2>q. QED
      BY <2>2 DEF InterestsInit, InterestsTypeOK
  <1>2. InterestsAreOneRequest
    BY DEF InterestsInit, InterestsAreOneRequest
  <1>3. \A s \in Sessions : Reads(s) /\ Offered(s)
    BY DEF InterestsInit, Reads, Offered
  <1>q. QED
    BY <1>1, <1>2, <1>3 DEF InterestsInv

\* A request q stands where it stood, and what it has read is what there is, as far
\* as it was.
Undisturbed(q) ==
    /\ step'[q] = step[q] /\ task'[q] = task[q] /\ seen'[q] = seen[q]
    /\ withdrawn[q] \subseteq withdrawn'[q]
    /\ step[q] = "commit" /\ task[q].op = "assign" /\ q \notin overtaken' =>
          /\ q \notin overtaken
          /\ contact[task[q].id] # "missing" => contact'[task[q].id] # "missing"
          /\ contact[task[q].id] # "missing" /\ contact'[task[q].id] = "registered" =>
                /\ contact[task[q].id] = "registered"
                /\ interests'[task[q].id] = interests[task[q].id]
    /\ \A o \in Options :
          step[q] = "commit" /\ o \in task[q].wanted \ seen[q] /\ option[o] = "active" =>
              option'[o] = "active" \/ o \in withdrawn'[q]
    /\ step[q] = "commit" /\ task[q].op = "register" /\ link = task[q].link /\ open =>
          (link' = link /\ open') \/ link \in withdrawn'[q]

LEMMA UndisturbedHolds ==
    ASSUME InterestsInv, NEW q \in Sessions, Undisturbed(q)
    PROVE  (Reads(q) /\ Offered(q))'
  <1>1. Reads(q) /\ Offered(q) /\ task[q] \in Tasks
    BY DEF InterestsInv, InterestsTypeOK
  <1>2. Reads(q)'
    BY <1>1 DEF Undisturbed, Reads
  <1>3. Offered(q)'
    <2> SUFFICES ASSUME step[q] = "commit" PROVE Offered(q)'
      BY DEF Undisturbed, Offered
    <2>1. task[q].wanted \in SUBSET Options
      BY <1>1, TaskParts DEF Reads
    <2>q. QED
      BY <1>1, <2>1 DEF Undisturbed, Offered
  <1>q. QED
    BY <1>2, <1>3

\* The others are left alone by a request that changes nothing but itself.
OnlyRequest(s) ==
    /\ UNCHANGED <<option, contact, interests, link, open, chosen>>
    /\ \A q \in Sessions \ {s} :
          /\ step'[q] = step[q] /\ task'[q] = task[q] /\ seen'[q] = seen[q]
          /\ withdrawn'[q] = withdrawn[q] /\ (q \in overtaken' <=> q \in overtaken)

LEMMA OnlyRequestHolds ==
    ASSUME InterestsInv, InterestsTypeOK', NEW s \in Sessions, OnlyRequest(s),
           (Reads(s) /\ Offered(s))'
    PROVE  InterestsInv'
  <1>1. InterestsAreOneRequest'
    BY DEF InterestsInv, InterestsAreOneRequest, OnlyRequest
  <1>2. ASSUME NEW q \in Sessions
        PROVE  (Reads(q) /\ Offered(q))'
    <2>1. CASE q # s
      <3>1. Undisturbed(q)
        BY <2>1 DEF OnlyRequest, Undisturbed
      <3>q. QED
        BY <3>1, UndisturbedHolds
    <2>q. QED
      BY <2>1
  <1>q. QED
    BY <1>1, <1>2 DEF InterestsInv

\* The types of what requests keep, after the ways in which they go on.
SessionTypes ==
    /\ step \in [Sessions -> {"rest", "begin", "commit", "generate", "delete"}]
    /\ task \in [Sessions -> Tasks]
    /\ tries \in [Sessions -> 0..MAX_INTEREST_ATTEMPTS]
    /\ seen \in [Sessions -> SUBSET Options]

\* A request that has ended, and the others as they were.
Ended(s) ==
    /\ SessionTypes' /\ step'[s] # "commit"
    /\ \A q \in Sessions \ {s} :
          step'[q] = step[q] /\ task'[q] = task[q] /\ seen'[q] = seen[q]

LEMMA FinishEnds ==
    ASSUME InterestsInv, NEW s \in Sessions, Finish(s)
    PROVE  Ended(s)
  <1>1. Rest \in Tasks /\ 0 \in 0..MAX_INTEREST_ATTEMPTS
    BY DEF Tasks, MAX_INTEREST_ATTEMPTS
  <1>q. QED
    BY <1>1 DEF InterestsInv, InterestsTypeOK, Finish, Ended, SessionTypes

\* A request that does not stand before its commit keeps the invariant by its type.
LEMMA NoCommitHolds ==
    ASSUME InterestsInv, InterestsTypeOK', NEW s \in Sessions, OnlyRequest(s),
           step'[s] # "commit"
    PROVE  InterestsInv'
  BY OnlyRequestHolds DEF Reads, Offered

LEMMA StartTaskStep ==
    ASSUME InterestsInv, NEW s \in Sessions, NEW t \in Tasks, StartTask(s, t)
    PROVE  InterestsInv'
  <1>1. InterestsTypeOK'
    BY DEF InterestsInv, InterestsTypeOK, StartTask, linkVars, ghostVars, MAX_INTEREST_ATTEMPTS
  <1>2. OnlyRequest(s) /\ step'[s] # "commit"
    BY DEF InterestsInv, InterestsTypeOK, StartTask, OnlyRequest, linkVars, ghostVars
  <1>q. QED
    BY <1>1, <1>2, NoCommitHolds

LEMMA FailTaskStep ==
    ASSUME InterestsInv, NEW s \in Sessions, FailTask(s)
    PROVE  InterestsInv'
  <1>1. Ended(s)
    BY FinishEnds DEF FailTask
  <1>2. InterestsTypeOK'
    BY <1>1 DEF InterestsInv, InterestsTypeOK, FailTask, Anew, Ended, SessionTypes, linkVars
  <1>3. OnlyRequest(s) /\ step'[s] # "commit"
    BY <1>1 DEF InterestsInv, InterestsTypeOK, FailTask, Anew, Ended, OnlyRequest, linkVars
  <1>q. QED
    BY <1>2, <1>3, NoCommitHolds

LEMMA FindLinkStep ==
    ASSUME InterestsInv, NEW s \in Sessions, FindLink(s)
    PROVE  InterestsInv'
  <1>1. CASE Finish(s)
    <2>1. Ended(s)
      BY <1>1, FinishEnds
    <2>2. InterestsTypeOK'
      BY <2>1 DEF InterestsInv, InterestsTypeOK, FindLink, Ended, SessionTypes, linkVars, ghostVars
    <2>3. OnlyRequest(s) /\ step'[s] # "commit"
      BY <2>1 DEF FindLink, Ended, OnlyRequest, linkVars, ghostVars
    <2>q. QED
      BY <2>2, <2>3, NoCommitHolds
  <1>2. CASE GoTo(s, "generate")
    <2>1. InterestsTypeOK'
      BY <1>2 DEF InterestsInv, InterestsTypeOK, FindLink, GoTo, linkVars, ghostVars
    <2>2. OnlyRequest(s) /\ step'[s] # "commit"
      BY <1>2 DEF InterestsInv, InterestsTypeOK, FindLink, GoTo, OnlyRequest, linkVars, ghostVars
    <2>q. QED
      BY <2>1, <2>2, NoCommitHolds
  <1>q. QED
    BY <1>1, <1>2 DEF FindLink

LEMMA DeleteInterestsStep ==
    ASSUME InterestsInv, NEW s \in Sessions, DeleteInterests(s)
    PROVE  InterestsInv'
  <1>1. CASE Finish(s)
    <2>1. Ended(s)
      BY <1>1, FinishEnds
    <2>2. InterestsTypeOK'
      BY <2>1 DEF InterestsInv, InterestsTypeOK, DeleteInterests, Ended, SessionTypes, linkVars,
                  ghostVars
    <2>3. OnlyRequest(s) /\ step'[s] # "commit"
      BY <2>1 DEF DeleteInterests, Ended, OnlyRequest, linkVars, ghostVars
    <2>q. QED
      BY <2>2, <2>3, NoCommitHolds
  <1>2. CASE ~Finish(s)
    <2>1. task[s] \in Tasks /\ task[s].id \in Contacts
      BY TaskParts DEF InterestsInv, InterestsTypeOK, DeleteInterests
    <2>2. InterestsTypeOK'
      BY <1>2, <2>1 DEF InterestsInv, InterestsTypeOK, DeleteInterests, linkVars, ghostVars
    <2>3. OnlyRequest(s) /\ step'[s] # "commit"
      BY <1>2 DEF InterestsInv, InterestsTypeOK, DeleteInterests, OnlyRequest, linkVars, ghostVars
    <2>q. QED
      BY <2>2, <2>3, NoCommitHolds
  <1>q. QED
    BY <1>1, <1>2

LEMMA BeginStep ==
    ASSUME InterestsInv, NEW s \in Sessions, BeginInterests(s)
    PROVE  InterestsInv'
  <1>1. task[s] \in Tasks /\ task[s].op \in {"assign", "register"}
    BY DEF InterestsInv, InterestsTypeOK, BeginInterests
  <1>2. CASE Finish(s)
    <2>1. Ended(s)
      BY <1>2, FinishEnds
    <2>2. InterestsTypeOK'
      BY <2>1 DEF InterestsInv, InterestsTypeOK, BeginInterests, Anew, Ended, SessionTypes, linkVars
    <2>3. OnlyRequest(s) /\ step'[s] # "commit"
      BY <2>1 DEF InterestsInv, InterestsTypeOK, BeginInterests, Anew, Ended, OnlyRequest, linkVars
    <2>q. QED
      BY <2>2, <2>3, NoCommitHolds
  <1>3. CASE task[s].op = "assign" /\ ~Finish(s)
    <2>1. /\ MayAssign(task[s]) /\ task[s].id \in Contacts /\ task[s].wanted \in SUBSET Options
          /\ step' = [step EXCEPT ![s] = "commit"]
          /\ seen' = [seen EXCEPT ![s] = interests[task[s].id]]
          /\ UNCHANGED <<task, tries>>
      BY <1>1, <1>3, TaskParts DEF BeginInterests
    <2>2. InterestsTypeOK'
      BY <2>1 DEF InterestsInv, InterestsTypeOK, BeginInterests, Anew, linkVars
    <2>3. OnlyRequest(s)
      BY <2>1 DEF InterestsInv, InterestsTypeOK, BeginInterests, Anew, OnlyRequest, linkVars
    <2>4. /\ step'[s] = "commit" /\ seen'[s] = interests[task[s].id] /\ task'[s] = task[s]
          /\ contact' = contact /\ interests' = interests /\ option' = option
      BY <2>1, <2>3 DEF InterestsInv, InterestsTypeOK, OnlyRequest
    <2>5. Reads(s)'
      BY <1>3, <2>1, <2>4 DEF Reads, MayAssign
    <2>6. Offered(s)'
      BY <1>3, <2>1, <2>4 DEF Offered, MayAssign
    <2>q. QED
      BY <2>2, <2>3, <2>5, <2>6, OnlyRequestHolds
  <1>4. CASE task[s].op = "register" /\ ~Finish(s)
    <2>1. /\ MayRegister(s) /\ task[s].wanted \in SUBSET Options
          /\ step' = [step EXCEPT ![s] = "commit"]
          /\ seen' = [seen EXCEPT ![s] = {}]
          /\ UNCHANGED <<task, tries>>
      BY <1>1, <1>4, TaskParts DEF BeginInterests
    <2>2. InterestsTypeOK'
      BY <2>1 DEF InterestsInv, InterestsTypeOK, BeginInterests, Anew, linkVars
    <2>3. OnlyRequest(s)
      BY <2>1 DEF InterestsInv, InterestsTypeOK, BeginInterests, Anew, OnlyRequest, linkVars
    <2>4. /\ step'[s] = "commit" /\ seen'[s] = {} /\ task'[s] = task[s]
          /\ link' = link /\ open' = open /\ option' = option
      BY <2>1, <2>3 DEF InterestsInv, InterestsTypeOK, OnlyRequest
    <2>5. Reads(s)'
      BY <1>4, <2>1, <2>4 DEF Reads
    <2>6. Offered(s)'
      BY <1>4, <2>1, <2>4 DEF Offered, MayRegister, LinkAvailable
    <2>q. QED
      BY <2>2, <2>3, <2>5, <2>6, OnlyRequestHolds
  <1>q. QED
    BY <1>1, <1>2, <1>3, <1>4

LEMMA AbortStep ==
    ASSUME InterestsInv, NEW s \in Sessions, AbortInterests(s)
    PROVE  InterestsInv'
  <1>1. CASE Finish(s)
    <2>1. Ended(s)
      BY <1>1, FinishEnds
    <2>2. InterestsTypeOK'
      BY <2>1 DEF InterestsInv, InterestsTypeOK, AbortInterests, Anew, Ended, SessionTypes, linkVars
    <2>3. OnlyRequest(s) /\ step'[s] # "commit"
      BY <2>1 DEF InterestsInv, InterestsTypeOK, AbortInterests, Anew, Ended, OnlyRequest, linkVars
    <2>q. QED
      BY <2>2, <2>3, NoCommitHolds
  <1>2. CASE AnotherTry(s) /\ ~Finish(s)
    <2>1. tries[s] + 1 \in 0..MAX_INTEREST_ATTEMPTS
      BY <1>2 DEF InterestsInv, InterestsTypeOK, AnotherTry, MAX_INTEREST_ATTEMPTS
    <2>2. InterestsTypeOK'
      BY <1>2, <2>1 DEF InterestsInv, InterestsTypeOK, AbortInterests, Anew, linkVars
    <2>3. OnlyRequest(s) /\ step'[s] # "commit"
      BY <1>2 DEF InterestsInv, InterestsTypeOK, AbortInterests, Anew, OnlyRequest, linkVars
    <2>q. QED
      BY <2>2, <2>3, NoCommitHolds
  <1>q. QED
    BY <1>1, <1>2 DEF AbortInterests

\* What is withdrawn is remembered by whoever needs it.
LEMMA WithdrawHolds ==
    ASSUME InterestsInv, NEW what \in SUBSET (Options \union PublicIds), Withdraw(what)
    PROVE  /\ withdrawn' \in [Sessions -> SUBSET (Options \union PublicIds)]
           /\ \A q \in Sessions :
                 /\ withdrawn[q] \subseteq withdrawn'[q]
                 /\ step[q] = "commit" =>
                       /\ \A o \in what : o \in task[q].wanted \ seen[q] => o \in withdrawn'[q]
                       /\ task[q].op = "register" /\ task[q].link \in what =>
                             task[q].link \in withdrawn'[q]
  <1>1. \A q \in Sessions : withdrawn'[q] = withdrawn[q] \union (what \intersect Needed(q))
    BY DEF Withdraw
  <1>2. ASSUME NEW q \in Sessions, step[q] = "commit"
        PROVE  Needed(q) = IF task[q].op = "register" THEN task[q].wanted \union {task[q].link}
                           ELSE task[q].wanted \ seen[q]
    <2>1. task[q].op = "assign" \/ task[q].op = "register"
      BY <1>2 DEF InterestsInv, Reads
    <2>q. QED
      BY <1>2, <2>1 DEF Needed
  <1>3. withdrawn' \in [Sessions -> SUBSET (Options \union PublicIds)]
    BY DEF InterestsInv, InterestsTypeOK, Withdraw
  <1>q. QED
    BY <1>1, <1>2, <1>3

LEMMA CreateOptionStep ==
    ASSUME InterestsInv, NEW o \in Options, CreateOption(o)
    PROVE  InterestsInv'
  <1>1. InterestsTypeOK' /\ InterestsAreOneRequest'
    BY DEF InterestsInv, InterestsTypeOK, InterestsAreOneRequest, CreateOption, linkVars,
           sessionVars, ghostVars
  <1>2. ASSUME NEW q \in Sessions
        PROVE  Undisturbed(q)
    BY DEF InterestsInv, InterestsTypeOK, CreateOption, Undisturbed, linkVars, sessionVars, ghostVars
  <1>q. QED
    BY <1>1, <1>2, UndisturbedHolds DEF InterestsInv

LEMMA OptionStatusStep ==
    ASSUME InterestsInv, NEW o \in Options, NEW status_ \in {"active", "inactive"},
           SetOptionStatus(o, status_)
    PROVE  InterestsInv'
  <1> DEFINE what == IF status_ = "inactive" THEN {o} ELSE {}
  <1>1. what \in SUBSET (Options \union PublicIds) /\ Withdraw(what)
    BY DEF SetOptionStatus
  <1>2. InterestsTypeOK' /\ InterestsAreOneRequest'
    BY <1>1, WithdrawHolds
       DEF InterestsInv, InterestsTypeOK, InterestsAreOneRequest, SetOptionStatus, linkVars,
           sessionVars
  <1>3. ASSUME NEW q \in Sessions
        PROVE  Undisturbed(q)
    <2>1. /\ withdrawn[q] \subseteq withdrawn'[q]
          /\ step[q] = "commit" =>
                \A p \in what : p \in task[q].wanted \ seen[q] => p \in withdrawn'[q]
      BY <1>1, WithdrawHolds
    <2>2. \A p \in Options : option[p] = "active" => option'[p] = "active" \/ p \in what
      BY DEF InterestsInv, InterestsTypeOK, SetOptionStatus
    <2>q. QED
      BY <2>1, <2>2 DEF SetOptionStatus, Undisturbed, linkVars, sessionVars
  <1>q. QED
    BY <1>2, <1>3, UndisturbedHolds DEF InterestsInv

LEMMA LinkStatusStep ==
    ASSUME InterestsInv, SetLinkStatus
    PROVE  InterestsInv'
  <1> DEFINE what == IF open THEN {link} ELSE {}
  <1>1. what \in SUBSET (Options \union PublicIds) /\ Withdraw(what)
    BY DEF InterestsInv, InterestsTypeOK, SetLinkStatus
  <1>2. InterestsTypeOK' /\ InterestsAreOneRequest'
    BY <1>1, WithdrawHolds
       DEF InterestsInv, InterestsTypeOK, InterestsAreOneRequest, SetLinkStatus, sessionVars
  <1>3. ASSUME NEW q \in Sessions
        PROVE  Undisturbed(q)
    <2>1. /\ withdrawn[q] \subseteq withdrawn'[q]
          /\ step[q] = "commit" /\ task[q].op = "register" /\ task[q].link \in what =>
                task[q].link \in withdrawn'[q]
      BY <1>1, WithdrawHolds
    <2>2. step[q] = "commit" /\ task[q].op = "register" /\ link = task[q].link /\ open =>
              link \in withdrawn'[q]
      BY <2>1
    <2>q. QED
      BY <2>1, <2>2 DEF SetLinkStatus, Undisturbed, sessionVars
  <1>q. QED
    BY <1>2, <1>3, UndisturbedHolds DEF InterestsInv

LEMMA WriteLinkStep ==
    ASSUME InterestsInv, NEW s \in Sessions, WriteLink(s)
    PROVE  InterestsInv'
  <1>1. step[s] = "generate"
    BY DEF WriteLink
  <1>2. CASE Finish(s) /\ UNCHANGED <<linkVars, withdrawn>>
    <2>1. Ended(s)
      BY <1>2, FinishEnds
    <2>2. InterestsTypeOK'
      BY <1>2, <2>1 DEF InterestsInv, InterestsTypeOK, WriteLink, Ended, SessionTypes, linkVars
    <2>3. OnlyRequest(s) /\ step'[s] # "commit"
      BY <1>2, <2>1 DEF WriteLink, Ended, OnlyRequest, linkVars
    <2>q. QED
      BY <2>2, <2>3, NoCommitHolds
  <1>3. CASE /\ tries[s] < MAX_INTEREST_ATTEMPTS /\ tries' = [tries EXCEPT ![s] = @ + 1]
             /\ UNCHANGED <<step, task, seen>> /\ UNCHANGED <<linkVars, withdrawn>>
    <2>1. tries[s] + 1 \in 0..MAX_INTEREST_ATTEMPTS
      BY <1>3 DEF InterestsInv, InterestsTypeOK, MAX_INTEREST_ATTEMPTS
    <2>2. InterestsTypeOK'
      BY <1>3, <2>1 DEF InterestsInv, InterestsTypeOK, WriteLink, linkVars
    <2>3. OnlyRequest(s) /\ step'[s] # "commit"
      BY <1>1, <1>3 DEF WriteLink, OnlyRequest, linkVars
    <2>q. QED
      BY <2>2, <2>3, NoCommitHolds
  <1>4. CASE /\ link' \in PublicIds \ issued /\ issued' = issued \union {link'}
             /\ open' = (open \/ link = NoLink) /\ Withdraw({link} \ {NoLink}) /\ Finish(s)
    <2>1. {link} \ {NoLink} \in SUBSET (Options \union PublicIds)
      BY DEF InterestsInv, InterestsTypeOK
    <2>2. Ended(s)
      BY <1>4, FinishEnds
    <2>3. withdrawn' \in [Sessions -> SUBSET (Options \union PublicIds)]
      BY <1>4, <2>1, WithdrawHolds
    <2>4. InterestsTypeOK' /\ InterestsAreOneRequest'
      BY <1>4, <2>2, <2>3
         DEF InterestsInv, InterestsTypeOK, InterestsAreOneRequest, WriteLink, Ended, SessionTypes
    <2>5. ASSUME NEW q \in Sessions, q # s
          PROVE  Undisturbed(q)
      <3>1. /\ withdrawn[q] \subseteq withdrawn'[q]
            /\ step[q] = "commit" /\ task[q].op = "register" /\ task[q].link \in {link} \ {NoLink} =>
                  task[q].link \in withdrawn'[q]
        BY <1>4, <2>1, WithdrawHolds
      <3>2. step[q] = "commit" /\ task[q].op = "register" => task[q].link # NoLink
        BY TaskParts, InterestsAssumption DEF InterestsInv, InterestsTypeOK
      <3>q. QED
        BY <2>2, <2>5, <3>1, <3>2 DEF WriteLink, Ended, Undisturbed
    <2>6. (Reads(s) /\ Offered(s))'
      BY <2>2 DEF Ended, Reads, Offered
    <2>q. QED
      BY <2>4, <2>5, <2>6, UndisturbedHolds DEF InterestsInv
  <1>q. QED
    BY <1>2, <1>3, <1>4 DEF WriteLink

LEMMA CommitAssignmentStep ==
    ASSUME InterestsInv, NEW s \in Sessions, CommitAssignment(s)
    PROVE  InterestsInv'
  <1> DEFINE c == task[s].id
             wanted == task[s].wanted
  <1>1. /\ step[s] = "commit" /\ task[s] \in Tasks /\ c \in Contacts /\ wanted \in SUBSET Options
        /\ seen[s] \in SUBSET Options
    BY TaskParts DEF InterestsInv, InterestsTypeOK, CommitAssignment
  <1>2. Ended(s)
    BY FinishEnds DEF CommitAssignment
  <1>3. withdrawn' \in [Sessions -> SUBSET (Options \union PublicIds)]
        /\ \A q \in Sessions \ {s} : withdrawn'[q] = withdrawn[q]
    BY DEF CommitAssignment, InterestsInv, InterestsTypeOK
  <1>4. CASE UNCHANGED <<interests, chosen>> /\ overtaken' = overtaken \ {s}
    <2>1. InterestsTypeOK'
      BY <1>2, <1>3, <1>4
         DEF InterestsInv, InterestsTypeOK, CommitAssignment, Ended, SessionTypes, linkVars
    <2>2. OnlyRequest(s) /\ step'[s] # "commit"
      BY <1>2, <1>3, <1>4 DEF CommitAssignment, Ended, OnlyRequest, linkVars
    <2>q. QED
      BY <2>1, <2>2, NoCommitHolds
  <1>5. CASE wanted # seen[s]
             /\ Serializable(s) /\ contact[c] = "registered"
             /\ interests' = [interests EXCEPT ![c] = (@ \ (seen[s] \ wanted)) \union (wanted \ seen[s])]
             /\ chosen' = [chosen EXCEPT ![c] = wanted]
             /\ overtaken' = (overtaken \ {s}) \union
                   {q \in Sessions \ {s} :
                       step[q] = "commit" /\ task[q].op = "assign" /\ task[q].id = c}
    <2>1. Reads(s) /\ task[s].op = "assign"
      BY DEF InterestsInv, CommitAssignment
    <2>2. seen[s] = interests[c]
      BY <1>1, <1>5, <2>1 DEF Reads, Serializable
    <2>3. interests'[c] = wanted /\ chosen'[c] = wanted
      BY <1>1, <1>5, <2>2 DEF InterestsInv, InterestsTypeOK
    <2>4. \A d \in Contacts \ {c} : interests'[d] = interests[d] /\ chosen'[d] = chosen[d]
      BY <1>1, <1>5 DEF InterestsInv, InterestsTypeOK
    <2>5. interests' \in [Contacts -> SUBSET Options] /\ chosen' \in [Contacts -> SUBSET Options]
      BY <1>1, <1>5 DEF InterestsInv, InterestsTypeOK
    <2>6. InterestsTypeOK'
      BY <1>2, <1>3, <1>5, <2>5
         DEF InterestsInv, InterestsTypeOK, CommitAssignment, Ended, SessionTypes, linkVars
    <2>7. InterestsAreOneRequest'
      BY <2>3, <2>4 DEF InterestsInv, InterestsAreOneRequest
    <2>8. ASSUME NEW q \in Sessions, q # s
          PROVE  Undisturbed(q)
      <3>1. /\ step'[q] = step[q] /\ task'[q] = task[q] /\ seen'[q] = seen[q]
            /\ withdrawn'[q] = withdrawn[q]
            /\ UNCHANGED <<option, contact, link, open>>
        BY <1>2, <1>3, <2>8 DEF Ended, CommitAssignment, linkVars
      <3>2. step[q] = "commit" /\ task[q].op = "assign" /\ q \notin overtaken' =>
                q \notin overtaken /\ task[q].id \in Contacts \ {c}
        BY <1>5, <2>8, TaskParts DEF InterestsInv, InterestsTypeOK
      <3>3. step[q] = "commit" /\ task[q].op = "assign" /\ q \notin overtaken' =>
                interests'[task[q].id] = interests[task[q].id]
        BY <2>4, <3>2
      <3>q. QED
        BY <3>1, <3>2, <3>3 DEF Undisturbed
    <2>9. (Reads(s) /\ Offered(s))'
      BY <1>2 DEF Ended, Reads, Offered
    <2>q. QED
      BY <2>6, <2>7, <2>8, <2>9, UndisturbedHolds DEF InterestsInv
  <1>q. QED
    BY <1>4, <1>5 DEF CommitAssignment

LEMMA CommitRegistrationStep ==
    ASSUME InterestsInv, NEW s \in Sessions, CommitRegistration(s)
    PROVE  InterestsInv'
  <1> DEFINE wanted == task[s].wanted
  <1>1. task[s] \in Tasks /\ wanted \in SUBSET Options
    BY TaskParts DEF InterestsInv, InterestsTypeOK, CommitRegistration
  <1>2. Ended(s)
    BY FinishEnds DEF CommitRegistration
  <1>3. PICK c \in Contacts :
            /\ contact[c] = "missing"
            /\ contact' = [contact EXCEPT ![c] = "registered"]
            /\ interests' = [interests EXCEPT ![c] = wanted]
            /\ chosen' = [chosen EXCEPT ![c] = wanted]
    BY DEF CommitRegistration
  <1>4. /\ withdrawn' \in [Sessions -> SUBSET (Options \union PublicIds)]
        /\ overtaken' = overtaken \ {s}
        /\ \A q \in Sessions \ {s} : withdrawn'[q] = withdrawn[q]
    BY DEF CommitRegistration, Anew, InterestsInv, InterestsTypeOK
  <1>5. /\ interests' \in [Contacts -> SUBSET Options] /\ chosen' \in [Contacts -> SUBSET Options]
        /\ contact' \in [Contacts -> {"missing", "registered", "removed"}]
    BY <1>1, <1>3 DEF InterestsInv, InterestsTypeOK
  <1>6. InterestsTypeOK'
    BY <1>2, <1>4, <1>5
       DEF InterestsInv, InterestsTypeOK, CommitRegistration, Ended, SessionTypes, linkVars
  <1>7. InterestsAreOneRequest'
    BY <1>3 DEF InterestsInv, InterestsTypeOK, InterestsAreOneRequest
  <1>8. ASSUME NEW q \in Sessions, q # s
        PROVE  Undisturbed(q)
    <2>1. /\ step'[q] = step[q] /\ task'[q] = task[q] /\ seen'[q] = seen[q]
          /\ withdrawn'[q] = withdrawn[q] /\ (q \in overtaken' <=> q \in overtaken)
          /\ UNCHANGED <<option, link, open>>
      BY <1>2, <1>4, <1>8 DEF Ended, CommitRegistration, linkVars
    <2>2. \A d \in Contacts :
              /\ contact[d] # "missing" => contact'[d] # "missing"
              /\ contact[d] # "missing" /\ contact'[d] = "registered" =>
                    contact[d] = "registered" /\ interests'[d] = interests[d]
      BY <1>3 DEF InterestsInv, InterestsTypeOK
    <2>3. task[q].op = "assign" => task[q].id \in Contacts
      BY TaskParts DEF InterestsInv, InterestsTypeOK
    <2>q. QED
      BY <2>1, <2>2, <2>3 DEF Undisturbed
  <1>9. (Reads(s) /\ Offered(s))'
    BY <1>2 DEF Ended, Reads, Offered
  <1>q. QED
    BY <1>6, <1>7, <1>8, <1>9, UndisturbedHolds DEF InterestsInv

LEMMA DeleteContactStep ==
    ASSUME InterestsInv, NEW s \in Sessions, DeleteContact(s)
    PROVE  InterestsInv'
  <1> DEFINE c == task[s].id
  <1>1. Ended(s)
    BY FinishEnds DEF DeleteContact
  <1>2. CASE UNCHANGED <<contact, interests, chosen>>
    <2>1. InterestsTypeOK'
      BY <1>1, <1>2
         DEF InterestsInv, InterestsTypeOK, DeleteContact, Ended, SessionTypes, linkVars
    <2>2. OnlyRequest(s) /\ step'[s] # "commit"
      BY <1>1, <1>2 DEF DeleteContact, Ended, OnlyRequest, linkVars
    <2>q. QED
      BY <2>1, <2>2, NoCommitHolds
  <1>3. CASE /\ contact' = [contact EXCEPT ![c] = "removed"]
             /\ interests' = [interests EXCEPT ![c] = {}]
             /\ chosen' = [chosen EXCEPT ![c] = {}]
    <2>1. /\ interests' \in [Contacts -> SUBSET Options] /\ chosen' \in [Contacts -> SUBSET Options]
          /\ contact' \in [Contacts -> {"missing", "registered", "removed"}]
      BY <1>3 DEF InterestsInv, InterestsTypeOK
    <2>2. InterestsTypeOK'
      BY <1>1, <2>1
         DEF InterestsInv, InterestsTypeOK, DeleteContact, Ended, SessionTypes, linkVars
    <2>3. InterestsAreOneRequest'
      BY <1>3 DEF InterestsInv, InterestsTypeOK, InterestsAreOneRequest
    <2>4. ASSUME NEW q \in Sessions, q # s
          PROVE  Undisturbed(q)
      <3>1. /\ step'[q] = step[q] /\ task'[q] = task[q] /\ seen'[q] = seen[q]
            /\ UNCHANGED <<option, link, open, overtaken, withdrawn>>
        BY <1>1, <2>4 DEF Ended, DeleteContact, linkVars
      <3>2. \A d \in Contacts :
                /\ contact[d] # "missing" => contact'[d] # "missing"
                /\ contact'[d] = "registered" =>
                      contact[d] = "registered" /\ interests'[d] = interests[d]
        BY <1>3 DEF InterestsInv, InterestsTypeOK
      <3>3. task[q].op = "assign" => task[q].id \in Contacts
        BY TaskParts DEF InterestsInv, InterestsTypeOK
      <3>q. QED
        BY <3>1, <3>2, <3>3 DEF Undisturbed
    <2>5. (Reads(s) /\ Offered(s))'
      BY <1>1 DEF Ended, Reads, Offered
    <2>q. QED
      BY <2>2, <2>3, <2>4, <2>5, UndisturbedHolds DEF InterestsInv
  <1>q. QED
    BY <1>2, <1>3 DEF DeleteContact

\* InterestsInv is inductive.
LEMMA InterestsStepHolds == InterestsInv /\ [InterestsNext]_interestVars => InterestsInv'
  <1> SUFFICES ASSUME InterestsInv, [InterestsNext]_interestVars PROVE InterestsInv'
    OBVIOUS
  <1>1. CASE UNCHANGED interestVars
    <2>1. InterestsTypeOK' /\ InterestsAreOneRequest'
      BY <1>1 DEF InterestsInv, InterestsTypeOK, InterestsAreOneRequest, interestVars, linkVars,
                  sessionVars, ghostVars
    <2>2. \A q \in Sessions : Undisturbed(q)
      BY <1>1 DEF Undisturbed, interestVars, linkVars, sessionVars, ghostVars
    <2>q. QED
      BY <2>1, <2>2, UndisturbedHolds DEF InterestsInv
  <1>q. QED
    BY <1>1, CreateOptionStep, OptionStatusStep, LinkStatusStep, StartTaskStep, FindLinkStep,
       WriteLinkStep, BeginStep, CommitAssignmentStep, CommitRegistrationStep, AbortStep,
       DeleteInterestsStep, DeleteContactStep, FailTaskStep
    DEF InterestsNext

\* However assignments, registrations and removals overlap, a customer has the
\* interests that one request asked for.
THEOREM InterestsAreWhole == InterestsSpec => []InterestsAreOneRequest
  BY InterestsInitHolds, InterestsStepHolds, PTL DEF InterestsSpec, InterestsInv

\* A transaction writes what was on offer when it began, in its second and third
\* attempt as well.
THEOREM InterestsAreOffered == InterestsSpec => []CommitsWhatWasOffered
  <1>1. InterestsInv => CommitsWhatWasOffered
    BY DEF InterestsInv, Offered, CommitsWhatWasOffered
  <1>q. QED
    BY <1>1, InterestsInitHolds, InterestsStepHolds, PTL DEF InterestsSpec

\* Every variable of CustomerInterests keeps its type.
THEOREM InterestsTypes == InterestsSpec => []InterestsTypeOK
  BY InterestsInitHolds, InterestsStepHolds, PTL DEF InterestsSpec, InterestsInv

------------------------------------------------------------------------------
(* CampaignAudience *)

PastRow == {"filters", "check", "categories", "brands", "update"}
InTransaction == {"categories", "brands", "update"}

\* A request that has not seen a SEGMENTED campaign began when there was none, or
\* there was none meanwhile.
ReadGeneric(r) ==
    /\ at[r] = "row" /\ campaign # NoCampaign /\ campaign.audience # "SEGMENTED" => r \in generic
    /\ at[r] \in PastRow =>
          row[r] # NoCampaign /\ (row[r].audience # "SEGMENTED" => r \in generic)

\* What a request has read is what there is, unless another one changed it.
ReadCurrent(r) ==
    r \notin stale /\ campaign # NoCampaign =>
        /\ at[r] \in PastRow => row[r] = campaign
        /\ at[r] \in PastRow \ {"filters"} => kept[r] = filters

\* Its transaction writes a change that it has checked.
Checked(r) ==
    at[r] \in InTransaction =>
        /\ order[r].op = "edit"
        /\ ValidChange(r) /\ ValidOptions(order[r].change)

\* The filters that a transaction replaces, as far as it has come.
Replaced(r) ==
    r \notin stale /\ campaign # NoCampaign =>
        /\ at[r] = "categories" => doomed[r] = {} /\ added[r] = {}
        /\ at[r] = "brands" =>
              /\ NewAudience(r) = "SEGMENTED"
              /\ order[r].change.categories = AsItIs => doomed[r] = {} /\ added[r] = {}
              /\ order[r].change.categories # AsItIs =>
                    /\ doomed[r] = kept[r] \intersect Categories
                    /\ added[r] = order[r].change.categories
        /\ at[r] = "update" => (kept[r] \ doomed[r]) \union added[r] = NewInterests(r)

Untouched(r) == at[r] \in {"filters", "check"} => doomed[r] = {} /\ added[r] = {}

Request(r) ==
    ReadGeneric(r) /\ ReadCurrent(r) /\ Checked(r) /\ Replaced(r) /\ Untouched(r)
    /\ (at[r] \in {"idle", "row"} => doomed[r] = {} /\ added[r] = {})

AudienceInv ==
    /\ AudienceTypeOK
    /\ DispatchStaysInSegment
    /\ SegmentedHasFilter
    /\ \A r \in Editors : Request(r)

LEMMA OrderParts ==
    ASSUME NEW o \in Orders
    PROVE  /\ o.op \in {"none", "edit", "dispatch"}
           /\ o.op = "dispatch" => o.audience \in Audiences
           /\ o.op = "edit" =>
                 /\ o.change \in Changes
                 /\ o.change.audience \in Audiences \union {AsItIs}
                 /\ o.change.attribute \in BOOLEAN \union {AsItIs}
                 /\ o.change.categories \in SUBSET Interests \union {AsItIs}
                 /\ o.change.brands \in SUBSET Interests \union {AsItIs}
  <1>1. o.op \in {"none", "edit", "dispatch"} /\ (o.op = "dispatch" => o.audience \in Audiences)
        /\ (o.op = "edit" => o.change \in Changes)
    BY DEF Orders, NoOrder
  <1>q. QED
    BY <1>1, AudienceAssumption

LEMMA AudienceInitHolds == AudienceInit => AudienceInv
  <1> SUFFICES ASSUME AudienceInit PROVE AudienceInv
    OBVIOUS
  <1>1. AudienceTypeOK
    <2>1. NoOrder \in Orders /\ campaign # NoCampaign
      BY AudienceAssumption DEF Orders, AudienceInit, CampaignRows
    <2>q. QED
      BY <2>1 DEF AudienceInit, AudienceTypeOK
  <1>2. DispatchStaysInSegment /\ SegmentedHasFilter
    BY DEF AudienceInit, DispatchStaysInSegment, SegmentedHasFilter, Nowhere
  <1>3. ASSUME NEW r \in Editors
        PROVE  Request(r)
    BY DEF AudienceInit, Request, ReadGeneric, ReadCurrent, Checked, Replaced, Untouched, PastRow,
           InTransaction
  <1>q. QED
    BY <1>1, <1>2, <1>3 DEF AudienceInv

\* What a change makes of what was read does not depend on anything else.
Alike(r) == order'[r] = order[r] /\ row'[r] = row[r] /\ kept'[r] = kept[r]

LEMMA ChangeIsAlike ==
    ASSUME NEW r \in Editors, Alike(r)
    PROVE  /\ NewAudience(r)' = NewAudience(r) /\ NewInterests(r)' = NewInterests(r)
           /\ ValidChange(r)' = ValidChange(r)
           /\ ValidOptions(order[r].change)' = ValidOptions(order[r].change)
  <1>1. NewAudience(r)' = NewAudience(r)
    BY DEF Alike, NewAudience
  <1>2. NewAttribute(r)' = NewAttribute(r)
    BY <1>1 DEF Alike, NewAttribute
  <1>3. NewInterests(r)' = NewInterests(r)
    BY <1>1 DEF Alike, NewInterests
  <1>q. QED
    BY <1>1, <1>2, <1>3 DEF Alike, ValidChange, ValidOptions, Segments, Given

\* A request stands where it stood; if the campaign changed, it is gone, or the
\* request has not read it yet or is stale.
Aside(q) ==
    /\ Alike(q) /\ at'[q] = at[q] /\ doomed'[q] = doomed[q] /\ added'[q] = added[q]
    /\ q \in stale => q \in stale'
    /\ q \in generic => q \in generic'
    /\ \/ campaign' = campaign /\ filters' = filters
       \/ campaign' = NoCampaign
       \/ /\ q \in stale' \/ at[q] \in {"idle", "row"}
          /\ campaign'.audience # "SEGMENTED" => q \in generic'

LEMMA AsideHolds ==
    ASSUME AudienceInv, NEW q \in Editors, Aside(q)
    PROVE  Request(q)'
  <1>1. Request(q)
    BY DEF AudienceInv
  <1>2. ReadGeneric(q)'
    BY <1>1 DEF Aside, Alike, Request, ReadGeneric, PastRow
  <1>3. ReadCurrent(q)'
    BY <1>1 DEF Aside, Alike, Request, ReadCurrent, PastRow
  <1>4. Checked(q)'
    BY <1>1, ChangeIsAlike DEF Aside, Alike, Request, Checked, InTransaction
  <1>5. Replaced(q)'
    BY <1>1, ChangeIsAlike DEF Aside, Alike, Request, Replaced
  <1>6. Untouched(q)' /\ (at[q] \in {"idle", "row"} => doomed[q] = {} /\ added[q] = {})'
    BY <1>1 DEF Aside, Alike, Request, Untouched
  <1>q. QED
    BY <1>2, <1>3, <1>4, <1>5, <1>6 DEF Request

\* Only r moves, and the campaign stays.
OnlyEditor(r) ==
    /\ UNCHANGED <<campaign, filters, crossed>>
    /\ generic \subseteq generic'
    /\ \A q \in Editors \ {r} :
          /\ Alike(q) /\ at'[q] = at[q] /\ doomed'[q] = doomed[q] /\ added'[q] = added[q]
          /\ q \in stale <=> q \in stale'

LEMMA OnlyEditorHolds ==
    ASSUME AudienceInv, AudienceTypeOK', NEW r \in Editors, OnlyEditor(r), Request(r)',
           DispatchStaysInSegment'
    PROVE  AudienceInv'
  <1>1. SegmentedHasFilter'
    BY DEF AudienceInv, SegmentedHasFilter, OnlyEditor
  <1>2. ASSUME NEW q \in Editors, q # r
        PROVE  Request(q)'
    <2>1. Aside(q)
      BY <1>2 DEF OnlyEditor, Aside
    <2>q. QED
      BY <2>1, AsideHolds
  <1>q. QED
    BY <1>1, <1>2 DEF AudienceInv

\* Dispatches that are over stay over.
LEMMA ReachedHolds ==
    ASSUME AudienceInv, generic \subseteq generic', reached' = reached
    PROVE  DispatchStaysInSegment'
  BY DEF AudienceInv, DispatchStaysInSegment

RequestTypes ==
    /\ at \in [Editors -> {"idle", "row", "filters", "check", "categories", "brands", "update"}]
    /\ order \in [Editors -> Orders]
    /\ row \in [Editors -> CampaignRows \union {NoCampaign}]
    /\ kept \in [Editors -> SUBSET Interests]
    /\ doomed \in [Editors -> SUBSET Interests]
    /\ added \in [Editors -> SUBSET Interests]
    /\ stale \in SUBSET Editors

\* A request that has ended, and the others as they were.
Left(r) ==
    /\ RequestTypes'
    /\ at'[r] = "idle" /\ doomed'[r] = {} /\ added'[r] = {} /\ r \notin stale'
    /\ \A q \in Editors \ {r} :
          Alike(q) /\ at'[q] = at[q] /\ doomed'[q] = doomed[q] /\ added'[q] = added[q]

LEMMA LeaveHolds ==
    ASSUME AudienceInv, NEW r \in Editors, NEW passed \in SUBSET Editors, Leave(r, passed)
    PROVE  Left(r)
  <1>1. NoOrder \in Orders
    BY DEF Orders
  <1>q. QED
    BY <1>1 DEF AudienceInv, AudienceTypeOK, Leave, Left, RequestTypes, Alike

\* A request that ends and has changed nothing.
LEMMA CloseHolds ==
    ASSUME AudienceInv, NEW r \in Editors, Close(r), UNCHANGED <<campaign, filters, crossed, generic>>,
           reached' \in [Editors -> {Nowhere} \union
                       [audience : Audiences, attribute : BOOLEAN, interests : SUBSET Interests]],
           DispatchStaysInSegment'
    PROVE  AudienceInv'
  <1>1. Left(r) /\ \A q \in Editors \ {r} : q \in stale <=> q \in stale'
    <2>1. {} \in SUBSET Editors /\ Leave(r, {})
      BY DEF Close
    <2>2. Left(r)
      BY <2>1, LeaveHolds
    <2>3. stale' = (stale \union {}) \ {r}
      BY <2>1 DEF Leave
    <2>q. QED
      BY <2>2, <2>3
  <1>2. AudienceTypeOK'
    BY <1>1 DEF AudienceInv, AudienceTypeOK, Left, RequestTypes
  <1>3. OnlyEditor(r)
    BY <1>1 DEF OnlyEditor, Left
  <1>4. Request(r)'
    BY <1>1 DEF Left, Request, ReadGeneric, ReadCurrent, Checked, Replaced, Untouched, PastRow,
                InTransaction
  <1>q. QED
    BY <1>2, <1>3, <1>4, OnlyEditorHolds

LEMMA StartOrderStep ==
    ASSUME AudienceInv, NEW r \in Editors, NEW o \in Orders, StartOrder(r, o)
    PROVE  AudienceInv'
  <1>1. AudienceTypeOK'
    BY DEF AudienceInv, AudienceTypeOK, StartOrder, readVars, transactionVars
  <1>2. /\ at'[r] = "row" /\ doomed'[r] = doomed[r] /\ added'[r] = added[r]
        /\ ~Segmented => r \in generic'
        /\ \A q \in Editors \ {r} : q \in generic => q \in generic'
        /\ reached'[r] = Nowhere /\ \A q \in Editors \ {r} : reached'[q] = reached[q]
    BY DEF AudienceInv, AudienceTypeOK, StartOrder, readVars, transactionVars
  <1>3. Request(r)'
    <2>1. Request(r)
      BY DEF AudienceInv
    <2>q. QED
      BY <1>2, <2>1
         DEF StartOrder, Segmented, Request, ReadGeneric, ReadCurrent, Checked, Replaced, Untouched,
             PastRow, InTransaction
  <1>4. DispatchStaysInSegment'
    BY <1>2 DEF AudienceInv, DispatchStaysInSegment, Nowhere
  <1>5. SegmentedHasFilter'
    BY DEF AudienceInv, SegmentedHasFilter, StartOrder
  <1>6. ASSUME NEW q \in Editors, q # r
        PROVE  Request(q)'
    <2>1. Aside(q)
      BY <1>2, <1>6
         DEF AudienceInv, AudienceTypeOK, StartOrder, Aside, Alike, readVars, transactionVars
    <2>q. QED
      BY <2>1, AsideHolds
  <1>q. QED
    BY <1>1, <1>3, <1>4, <1>5, <1>6 DEF AudienceInv

LEMMA FailOrderStep ==
    ASSUME AudienceInv, NEW r \in Editors, FailOrder(r)
    PROVE  AudienceInv'
  BY CloseHolds, ReachedHolds DEF AudienceInv, AudienceTypeOK, FailOrder

LEMMA ReadCampaignStep ==
    ASSUME AudienceInv, NEW r \in Editors, ReadCampaign(r)
    PROVE  AudienceInv'
  <1>1. DispatchStaysInSegment'
    BY ReachedHolds DEF ReadCampaign
  <1>2. CASE Close(r)
    BY <1>1, <1>2, CloseHolds DEF AudienceInv, AudienceTypeOK, ReadCampaign
  <1>3. CASE /\ campaign # NoCampaign
             /\ at' = [at EXCEPT ![r] = "filters"] /\ row' = [row EXCEPT ![r] = campaign]
             /\ UNCHANGED <<order, kept, transactionVars, stale>>
    <2>1. AudienceTypeOK' /\ OnlyEditor(r)
      BY <1>3 DEF AudienceInv, AudienceTypeOK, ReadCampaign, OnlyEditor, Alike, transactionVars
    <2>2. /\ at[r] = "row" /\ at'[r] = "filters" /\ row'[r] = campaign
          /\ doomed'[r] = doomed[r] /\ added'[r] = added[r]
          /\ UNCHANGED <<campaign, generic>>
      BY <1>3 DEF AudienceInv, AudienceTypeOK, ReadCampaign, transactionVars
    <2>3. Request(r)'
      <3>1. Request(r)
        BY DEF AudienceInv
      <3>q. QED
        BY <1>3, <2>2, <3>1
           DEF Request, ReadGeneric, ReadCurrent, Checked, Replaced, Untouched, PastRow, InTransaction
    <2>q. QED
      BY <1>1, <2>1, <2>3, OnlyEditorHolds
  <1>q. QED
    BY <1>2, <1>3 DEF ReadCampaign

LEMMA ReadFiltersStep ==
    ASSUME AudienceInv, NEW r \in Editors, ReadFilters(r)
    PROVE  AudienceInv'
  <1>1. DispatchStaysInSegment'
    BY ReachedHolds DEF ReadFilters
  <1>2. AudienceTypeOK' /\ OnlyEditor(r)
    BY DEF AudienceInv, AudienceTypeOK, ReadFilters, OnlyEditor, Alike, transactionVars
  <1>3. /\ at[r] = "filters" /\ at'[r] = "check" /\ row'[r] = row[r] /\ kept'[r] = filters
        /\ doomed'[r] = doomed[r] /\ added'[r] = added[r]
        /\ UNCHANGED <<campaign, filters, generic, stale>>
    BY DEF AudienceInv, AudienceTypeOK, ReadFilters, transactionVars
  <1>4. Request(r)'
    <2>1. Request(r)
      BY DEF AudienceInv
    <2>q. QED
      BY <1>3, <2>1
         DEF Request, ReadGeneric, ReadCurrent, Checked, Replaced, Untouched, PastRow, InTransaction
  <1>q. QED
    BY <1>1, <1>2, <1>4, OnlyEditorHolds

\* A step that leaves what the request has read, and the transaction.
LEMMA StepHolds ==
    ASSUME AudienceInv, NEW r \in Editors,
           NEW next \in {"categories", "brands", "update"}, Step(r, next)
    PROVE  /\ RequestTypes' /\ Alike(r) /\ at'[r] = next
           /\ doomed'[r] = doomed[r] /\ added'[r] = added[r] /\ stale' = stale
           /\ \A q \in Editors \ {r} :
                 Alike(q) /\ at'[q] = at[q] /\ doomed'[q] = doomed[q] /\ added'[q] = added[q]
  BY DEF AudienceInv, AudienceTypeOK, RequestTypes, Step, Alike, readVars, transactionVars

LEMMA CheckChangeStep ==
    ASSUME AudienceInv, NEW r \in Editors, CheckChange(r)
    PROVE  AudienceInv'
  <1>1. DispatchStaysInSegment'
    BY ReachedHolds DEF CheckChange
  <1>2. CASE Close(r)
    BY <1>1, <1>2, CloseHolds DEF AudienceInv, AudienceTypeOK, CheckChange
  <1>3. CASE ValidChange(r) /\ ValidOptions(order[r].change) /\ Step(r, "categories")
    <2>1. /\ RequestTypes' /\ Alike(r) /\ at'[r] = "categories"
          /\ doomed'[r] = doomed[r] /\ added'[r] = added[r] /\ stale' = stale
          /\ \A q \in Editors \ {r} :
                Alike(q) /\ at'[q] = at[q] /\ doomed'[q] = doomed[q] /\ added'[q] = added[q]
      BY <1>3, StepHolds
    <2>2. AudienceTypeOK' /\ OnlyEditor(r)
      BY <2>1 DEF AudienceInv, AudienceTypeOK, RequestTypes, CheckChange, OnlyEditor
    <2>3. /\ at[r] = "check" /\ order[r].op = "edit"
          /\ UNCHANGED <<campaign, filters, generic>>
      BY DEF CheckChange
    <2>4. Request(r)'
      <3>1. Request(r)
        BY DEF AudienceInv
      <3>2. ReadGeneric(r)' /\ ReadCurrent(r)'
        BY <2>1, <2>3, <3>1 DEF Alike, Request, ReadGeneric, ReadCurrent, PastRow
      <3>3. Checked(r)'
        BY <1>3, <2>1, <2>3, ChangeIsAlike DEF Alike, Checked, InTransaction
      <3>4. Replaced(r)' /\ Untouched(r)'
        BY <2>1, <2>3, <3>1 DEF Request, Untouched, Replaced
      <3>q. QED
        BY <2>1, <3>2, <3>3, <3>4 DEF Request
    <2>q. QED
      BY <1>1, <2>2, <2>4, OnlyEditorHolds
  <1>q. QED
    BY <1>2, <1>3 DEF CheckChange

\* A statement of a transaction that is not refused: the filters out are deleted and
\* those of in are inserted.
Replaces(r, out, in, next) ==
    /\ RequestTypes' /\ Alike(r) /\ at'[r] = next
    /\ doomed'[r] = doomed[r] \union out /\ added'[r] = added[r] \union in /\ stale' = stale
    /\ \A q \in Editors \ {r} :
          Alike(q) /\ at'[q] = at[q] /\ doomed'[q] = doomed[q] /\ added'[q] = added[q]

LEMMA StepReplacesNothing ==
    ASSUME AudienceInv, NEW r \in Editors,
           NEW next \in {"categories", "brands", "update"}, Step(r, next)
    PROVE  Replaces(r, {}, {}, next)
  BY StepHolds DEF Replaces

LEMMA ReplaceHolds ==
    ASSUME AudienceInv, NEW r \in Editors,
           NEW out \in SUBSET Interests, NEW in \in SUBSET Interests,
           NEW next \in {"categories", "brands", "update"}, Replace(r, out, in, next)
    PROVE  Close(r) \/ Replaces(r, out, in, next)
  BY DEF AudienceInv, AudienceTypeOK, Replace, Replaces, RequestTypes, Alike, readVars

\* The request, after such a statement, provided that the filters are as they should.
LEMMA ReplacesHolds ==
    ASSUME AudienceInv, NEW r \in Editors,
           NEW out \in SUBSET Interests, NEW in \in SUBSET Interests,
           NEW next \in {"brands", "update"}, Replaces(r, out, in, next),
           at[r] \in InTransaction, UNCHANGED <<campaign, filters, crossed, generic, reached>>,
           Replaced(r)'
    PROVE  AudienceInv'
  <1>1. DispatchStaysInSegment'
    BY ReachedHolds
  <1>2. AudienceTypeOK' /\ OnlyEditor(r)
    BY DEF AudienceInv, AudienceTypeOK, RequestTypes, Replaces, OnlyEditor
  <1>3. Request(r)'
    <2>1. Request(r)
      BY DEF AudienceInv
    <2>2. ReadGeneric(r)' /\ ReadCurrent(r)'
      BY <2>1 DEF Replaces, Alike, Request, ReadGeneric, ReadCurrent, PastRow, InTransaction
    <2>3. Checked(r)'
      BY <2>1, ChangeIsAlike DEF Replaces, Alike, Request, Checked, InTransaction
    <2>4. Untouched(r)'
      BY DEF Replaces, Untouched
    <2>q. QED
      BY <2>2, <2>3, <2>4 DEF Replaces, Request
  <1>q. QED
    BY <1>1, <1>2, <1>3, OnlyEditorHolds

\* What a request that stands in a transaction may count on.
LEMMA TransactionParts ==
    ASSUME AudienceInv, NEW r \in Editors, at[r] \in InTransaction
    PROVE  LET c == order[r].change IN
           /\ order[r].op = "edit" /\ c \in Changes /\ ValidChange(r)
           /\ c.categories # AsItIs => c.categories \subseteq Categories
           /\ c.brands # AsItIs => c.brands \subseteq Brands
           /\ NewAudience(r) \in {"ALL_ELIGIBLE", "SEGMENTED"} /\ NewAttribute(r) \in BOOLEAN
  <1>1. /\ order[r].op = "edit" /\ order[r] \in Orders /\ ValidChange(r)
        /\ ValidOptions(order[r].change)
        /\ row[r] \in CampaignRows
    BY DEF AudienceInv, AudienceTypeOK, Request, Checked, ReadGeneric, InTransaction, PastRow
  <1>2. /\ order[r].change \in Changes
        /\ order[r].change.audience \in Audiences \union {AsItIs}
        /\ order[r].change.attribute \in BOOLEAN \union {AsItIs}
    BY <1>1, OrderParts
  <1>3. NewAudience(r) \in Audiences /\ NewAttribute(r) \in BOOLEAN
    BY <1>1, <1>2 DEF NewAudience, NewAttribute, Given, Audiences, CampaignRows
  <1>q. QED
    BY <1>1, <1>2, <1>3 DEF ValidChange, ValidOptions, Audiences

LEMMA ReplaceCategoriesStep ==
    ASSUME AudienceInv, NEW r \in Editors, ReplaceCategories(r)
    PROVE  AudienceInv'
  <1> DEFINE c == order[r].change
  <1>1. /\ at[r] = "categories" /\ at[r] \in InTransaction
        /\ UNCHANGED <<campaign, filters, crossed, generic, reached>>
    BY DEF ReplaceCategories, InTransaction
  <1>2. /\ c.categories # AsItIs => c.categories \subseteq Categories
        /\ kept[r] \in SUBSET Interests /\ filters \in SUBSET Interests
    BY <1>1, TransactionParts DEF AudienceInv, AudienceTypeOK
  <1>3. /\ Replaced(r)
        /\ r \notin stale /\ campaign # NoCampaign =>
              kept[r] = filters /\ doomed[r] = {} /\ added[r] = {}
    BY <1>1 DEF AudienceInv, Request, ReadCurrent, Replaced, PastRow
  <1>4. CASE Close(r)
    BY <1>1, <1>4, CloseHolds, ReachedHolds DEF AudienceInv, AudienceTypeOK
  <1>5. CASE NewAudience(r) # "SEGMENTED" /\ Replaces(r, filters, {}, "update")
    <2>1. NewInterests(r) = {} /\ NewInterests(r)' = {}
      BY <1>5, ChangeIsAlike DEF Replaces, NewInterests
    <2>2. Replaced(r)'
      BY <1>1, <1>3, <1>5, <2>1 DEF Replaces, Alike, Replaced
    <2>q. QED
      BY <1>1, <1>2, <1>5, <2>2, ReplacesHolds
  <1>6. CASE NewAudience(r) = "SEGMENTED" /\ c.categories = AsItIs /\ Replaces(r, {}, {}, "brands")
    <2>1. NewAudience(r)' = "SEGMENTED"
      BY <1>6, ChangeIsAlike DEF Replaces
    <2>2. Replaced(r)'
      BY <1>1, <1>3, <1>6, <2>1 DEF Replaces, Alike, Replaced
    <2>q. QED
      BY <1>1, <1>6, <2>2, ReplacesHolds
  <1>7. CASE NewAudience(r) = "SEGMENTED" /\ c.categories # AsItIs
             /\ Replaces(r, filters \intersect Categories, c.categories, "brands")
    <2>1. NewAudience(r)' = "SEGMENTED"
      BY <1>7, ChangeIsAlike DEF Replaces
    <2>2. Replaced(r)'
      BY <1>1, <1>3, <1>7, <2>1 DEF Replaces, Alike, Replaced
    <2>3. c.categories \in SUBSET Interests /\ filters \intersect Categories \in SUBSET Interests
      BY <1>2, <1>7 DEF Interests
    <2>q. QED
      BY <1>1, <1>7, <2>2, <2>3, ReplacesHolds
  <1>8. CASE NewAudience(r) # "SEGMENTED"
    <2>1. Replace(r, filters, {}, "update")
      BY <1>8 DEF ReplaceCategories
    <2>2. Close(r) \/ Replaces(r, filters, {}, "update")
      BY <1>2, <2>1, ReplaceHolds
    <2>q. QED
      BY <1>4, <1>5, <1>8, <2>2
  <1>9. CASE NewAudience(r) = "SEGMENTED" /\ c.categories = AsItIs
    <2>1. Step(r, "brands")
      BY <1>9 DEF ReplaceCategories
    <2>q. QED
      BY <1>6, <1>9, <2>1, StepReplacesNothing
  <1>10. CASE NewAudience(r) = "SEGMENTED" /\ c.categories # AsItIs
    <2>1. Replace(r, filters \intersect Categories, c.categories, "brands")
      BY <1>10 DEF ReplaceCategories
    <2>2. c.categories \in SUBSET Interests /\ filters \intersect Categories \in SUBSET Interests
      BY <1>2, <1>10 DEF Interests
    <2>3. Close(r) \/ Replaces(r, filters \intersect Categories, c.categories, "brands")
      BY <2>1, <2>2, ReplaceHolds
    <2>q. QED
      BY <1>4, <1>7, <1>10, <2>3
  <1>q. QED
    BY <1>8, <1>9, <1>10

LEMMA ReplaceBrandsStep ==
    ASSUME AudienceInv, NEW r \in Editors, ReplaceBrands(r)
    PROVE  AudienceInv'
  <1> DEFINE c == order[r].change
             fresh == r \notin stale /\ campaign # NoCampaign
             before == IF c.categories = AsItIs THEN {} ELSE kept[r] \intersect Categories
             after == IF c.categories = AsItIs THEN {} ELSE c.categories
  <1>1. /\ at[r] = "brands" /\ at[r] \in InTransaction
        /\ UNCHANGED <<campaign, filters, crossed, generic, reached>>
    BY DEF ReplaceBrands, InTransaction
  <1>2. /\ c.brands # AsItIs => c.brands \subseteq Brands
        /\ kept[r] \in SUBSET Interests /\ filters \in SUBSET Interests
    BY <1>1, TransactionParts DEF AudienceInv, AudienceTypeOK
  <1>3. fresh => /\ kept[r] = filters /\ NewAudience(r) = "SEGMENTED"
                 /\ doomed[r] = before /\ added[r] = after
    BY <1>1 DEF AudienceInv, Request, ReadCurrent, Replaced, PastRow
  <1>4. fresh => NewInterests(r) = (IF c.categories = AsItIs THEN kept[r] \intersect Categories
                                    ELSE c.categories) \union
                                   (IF c.brands = AsItIs THEN kept[r] \intersect Brands
                                    ELSE c.brands)
    BY <1>3 DEF NewInterests, Given
  <1>5. CASE Close(r)
    BY <1>1, <1>5, CloseHolds, ReachedHolds DEF AudienceInv, AudienceTypeOK
  <1>6. CASE c.brands = AsItIs
    <2>1. Replaces(r, {}, {}, "update")
      BY <1>6, StepReplacesNothing DEF ReplaceBrands
    <2>2. fresh => (kept[r] \ doomed[r]) \union added[r] = NewInterests(r)
      BY <1>2, <1>3, <1>4, <1>6, AudienceAssumption DEF Interests
    <2>3. Replaced(r)'
      BY <1>1, <2>1, <2>2, ChangeIsAlike DEF Replaces, Alike, Replaced
    <2>q. QED
      BY <1>1, <2>1, <2>3, ReplacesHolds
  <1>7. CASE c.brands # AsItIs
    <2>1. Replace(r, filters \intersect Brands, c.brands, "update")
      BY <1>7 DEF ReplaceBrands
    <2>2. c.brands \in SUBSET Interests /\ filters \intersect Brands \in SUBSET Interests
      BY <1>2, <1>7 DEF Interests
    <2>3. Close(r) \/ Replaces(r, filters \intersect Brands, c.brands, "update")
      BY <2>1, <2>2, ReplaceHolds
    <2>4. CASE Replaces(r, filters \intersect Brands, c.brands, "update")
      <3>1. fresh => (kept[r] \ (doomed[r] \union (filters \intersect Brands)))
                         \union (added[r] \union c.brands) = NewInterests(r)
        BY <1>2, <1>3, <1>4, <1>7, AudienceAssumption DEF Interests
      <3>2. Replaced(r)'
        BY <1>1, <2>4, <3>1, ChangeIsAlike DEF Replaces, Alike, Replaced
      <3>q. QED
        BY <1>1, <2>2, <2>4, <3>2, ReplacesHolds
    <2>q. QED
      BY <1>5, <2>3, <2>4
  <1>q. QED
    BY <1>6, <1>7

LEMMA UpdateRowStep ==
    ASSUME AudienceInv, NEW r \in Editors, UpdateRow(r)
    PROVE  AudienceInv'
  <1>1. at[r] = "update" /\ at[r] \in InTransaction /\ reached' = reached
    BY DEF UpdateRow, InTransaction
  <1>2. CASE Close(r) /\ UNCHANGED <<campaign, filters, crossed, generic>>
    BY <1>1, <1>2, CloseHolds, ReachedHolds DEF AudienceInv, AudienceTypeOK
  <1>3. CASE /\ campaign # NoCampaign
             /\ campaign' = [audience |-> NewAudience(r), attribute |-> NewAttribute(r)]
             /\ filters' = (filters \ doomed[r]) \union added[r]
             /\ crossed' = (r \in stale)
             /\ generic' = IF NewAudience(r) = "SEGMENTED" THEN generic ELSE Editors
             /\ Leave(r, {q \in Editors : at[q] \notin {"idle", "row"}})
    <2>1. Left(r) /\ \A q \in Editors \ {r} :
                        q \in stale' <=> q \in stale \/ at[q] \notin {"idle", "row"}
      <3>1. Left(r)
        BY <1>3, LeaveHolds
      <3>q. QED
        BY <1>3, <3>1 DEF Leave
    <2>2. ValidChange(r) /\ NewAudience(r) \in {"ALL_ELIGIBLE", "SEGMENTED"}
          /\ NewAttribute(r) \in BOOLEAN
      BY <1>1, TransactionParts
    <2>3. campaign' \in CampaignRows /\ campaign' # NoCampaign
      BY <1>3, <2>2, AudienceAssumption DEF CampaignRows
    <2>4. filters' \in SUBSET Interests /\ crossed' \in BOOLEAN /\ generic' \in SUBSET Editors
          /\ generic \subseteq generic'
      BY <1>3 DEF AudienceInv, AudienceTypeOK
    <2>5. AudienceTypeOK'
      BY <1>1, <2>1, <2>3, <2>4 DEF AudienceInv, AudienceTypeOK, Left, RequestTypes
    <2>6. DispatchStaysInSegment'
      BY <1>1, <2>4, ReachedHolds
    <2>7. SegmentedHasFilter'
      <3>1. CASE r \in stale
        BY <1>3, <3>1 DEF SegmentedHasFilter
      <3>2. CASE r \notin stale
        <4>1. filters' = NewInterests(r)
          BY <1>1, <1>3, <3>2 DEF AudienceInv, Request, Replaced, ReadCurrent, PastRow
        <4>2. ValidAudience(NewAudience(r), NewAttribute(r), NewInterests(r))
          BY <2>2 DEF ValidChange
        <4>q. QED
          BY <1>3, <4>1, <4>2 DEF SegmentedHasFilter, ValidAudience
      <3>q. QED
        BY <3>1, <3>2
    <2>8. Request(r)'
      BY <2>1 DEF Left, Request, ReadGeneric, ReadCurrent, Checked, Replaced, Untouched, PastRow,
                  InTransaction
    <2>9. ASSUME NEW q \in Editors, q # r
          PROVE  Request(q)'
      <3>1. campaign'.audience # "SEGMENTED" => q \in generic'
        BY <1>3
      <3>2. Aside(q)
        BY <2>1, <2>4, <2>9, <3>1 DEF Left, Aside
      <3>q. QED
        BY <3>2, AsideHolds
    <2>q. QED
      BY <2>5, <2>6, <2>7, <2>8, <2>9 DEF AudienceInv
  <1>q. QED
    BY <1>2, <1>3 DEF UpdateRow

LEMMA RemoveCampaignStep ==
    ASSUME AudienceInv, RemoveCampaign
    PROVE  AudienceInv'
  <1>1. AudienceTypeOK' /\ DispatchStaysInSegment' /\ SegmentedHasFilter'
    BY DEF AudienceInv, AudienceTypeOK, DispatchStaysInSegment, SegmentedHasFilter, RemoveCampaign,
           readVars, transactionVars
  <1>2. ASSUME NEW q \in Editors
        PROVE  Request(q)'
    <2>1. Aside(q)
      BY DEF RemoveCampaign, Aside, Alike, readVars, transactionVars
    <2>q. QED
      BY <2>1, AsideHolds
  <1>q. QED
    BY <1>1, <1>2 DEF AudienceInv

LEMMA DispatchStep ==
    ASSUME AudienceInv, NEW r \in Editors, Dispatch(r)
    PROVE  AudienceInv'
  <1> DEFINE asked == order[r].audience
             whom == IF ~ValidDispatch(asked, row[r], kept[r]) THEN Nowhere
                     ELSE IF asked = "SEGMENTED"
                       THEN [audience |-> asked, attribute |-> row[r].attribute,
                             interests |-> kept[r]]
                       ELSE [audience |-> asked, attribute |-> FALSE, interests |-> {}]
  <1>1. /\ reached' = [reached EXCEPT ![r] = whom] /\ Close(r)
        /\ UNCHANGED <<campaign, filters, crossed, generic>>
    BY DEF Dispatch
  <1>2. /\ asked \in Audiences /\ row[r] \in CampaignRows /\ kept[r] \in SUBSET Interests
        /\ row[r].audience # "SEGMENTED" => r \in generic
    BY OrderParts
       DEF AudienceInv, AudienceTypeOK, Dispatch, Request, ReadGeneric, PastRow
  <1>3. whom \in {Nowhere} \union
                     [audience : Audiences, attribute : BOOLEAN, interests : SUBSET Interests]
    BY <1>2 DEF CampaignRows
  <1>4. /\ whom.audience \in {"ALL_ELIGIBLE", "CUSTOMER_IDS"} => r \in generic
        /\ whom.audience = "SEGMENTED" => whom.attribute \/ whom.interests # {}
    <2>1. CASE ~ValidDispatch(asked, row[r], kept[r])
      BY <2>1 DEF Nowhere
    <2>2. CASE ValidDispatch(asked, row[r], kept[r])
      BY <1>2, <2>2 DEF ValidDispatch, ValidAudience
    <2>q. QED
      BY <2>1, <2>2
  <1>5. DispatchStaysInSegment'
    BY <1>1, <1>4 DEF AudienceInv, AudienceTypeOK, DispatchStaysInSegment
  <1>6. reached' \in [Editors -> {Nowhere} \union
                        [audience : Audiences, attribute : BOOLEAN, interests : SUBSET Interests]]
    BY <1>1, <1>3 DEF AudienceInv, AudienceTypeOK
  <1>q. QED
    BY <1>1, <1>5, <1>6, CloseHolds

\* AudienceInv is inductive.
LEMMA AudienceStepHolds == AudienceInv /\ [AudienceNext]_audienceVars => AudienceInv'
  <1> SUFFICES ASSUME AudienceInv, [AudienceNext]_audienceVars PROVE AudienceInv'
    OBVIOUS
  <1>1. CASE UNCHANGED audienceVars
    <2>1. AudienceTypeOK' /\ DispatchStaysInSegment' /\ SegmentedHasFilter'
      BY <1>1 DEF AudienceInv, AudienceTypeOK, DispatchStaysInSegment, SegmentedHasFilter,
                  audienceVars, readVars, transactionVars
    <2>2. \A q \in Editors : Aside(q)
      BY <1>1 DEF Aside, Alike, audienceVars, readVars, transactionVars
    <2>q. QED
      BY <2>1, <2>2, AsideHolds DEF AudienceInv
  <1>q. QED
    BY <1>1, StartOrderStep, FailOrderStep, ReadCampaignStep, ReadFiltersStep, CheckChangeStep,
       ReplaceCategoriesStep, ReplaceBrandsStep, UpdateRowStep, RemoveCampaignStep, DispatchStep
    DEF AudienceNext

\* A dispatch never reaches beyond a segment that the campaign had all along, and
\* never an empty segment, which would be everybody.
THEOREM DispatchIsConfined == AudienceSpec => []DispatchStaysInSegment
  BY AudienceInitHolds, AudienceStepHolds, PTL DEF AudienceSpec, AudienceInv

\* A change that meets no other leaves a SEGMENTED campaign with a filter, and any
\* other without.
THEOREM SegmentsHaveFilters == AudienceSpec => []SegmentedHasFilter
  BY AudienceInitHolds, AudienceStepHolds, PTL DEF AudienceSpec, AudienceInv

\* Every variable of CampaignAudience keeps its type.
THEOREM AudienceTypes == AudienceSpec => []AudienceTypeOK
  BY AudienceInitHolds, AudienceStepHolds, PTL DEF AudienceSpec, AudienceInv
==============================================================================
