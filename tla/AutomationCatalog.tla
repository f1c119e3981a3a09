-------------------------- MODULE AutomationCatalog ---------------------------
(***************************************************************************)
(* The automations of a company: create, createCampaign, update and remove *)
(* of src/backend/src/automation/automation.service.ts.  An automation is  *)
(* known by its name, which an index keeps unique.  The number of custom   *)
(* automations is limited; it is counted before the insert, outside of any *)
(* transaction.  What an automation does is in AutomationEngine, whom a    *)
(* campaign reaches in CampaignAudience.                                   *)
(***************************************************************************)
EXTENDS Naturals, FiniteSets

CONSTANTS
    Names,              \* names of automations
    AutomationLimit,    \* customAutomationLimit
    Creators,           \* requests handled at the same time
    NoName

ASSUME CatalogAssumption ==
    /\ AutomationLimit \in Nat \ {0}
    /\ IsFiniteSet(Names) /\ NoName \notin Names
    /\ IsFiniteSet(Creators) /\ Creators # {}

VARIABLES
    automation,   \* what the automation of a name is
    await,        \* the await a request stands at
    naming        \* the name it is about to insert, or to write

catalogVars == <<automation, await, naming>>

Kinds == {"none", "custom", "campaign", "system"}

CatalogTypeOK ==
    /\ automation \in [Names -> Kinds]
    /\ await \in [Creators -> {"idle", "count", "custom", "campaign"}]
    /\ naming \in [Creators -> Names \union {NoName}]
    /\ \A r \in Creators : await[r] = "idle" <=> naming[r] = NoName

Custom == {n \in Names : automation[n] = "custom"}

CatalogInit ==
    /\ automation \in [Names -> Kinds]
    /\ Cardinality(Custom) <= AutomationLimit
    /\ await = [r \in Creators |-> "idle"]
    /\ naming = [r \in Creators |-> NoName]

------------------------------------------------------------------------------
(* create and createCampaign *)

StartCreation(r, n, stage) ==
    /\ await[r] = "idle"
    /\ await' = [await EXCEPT ![r] = stage]
    /\ naming' = [naming EXCEPT ![r] = n]
    /\ UNCHANGED automation

EndCreation(r) ==
    /\ await' = [await EXCEPT ![r] = "idle"]
    /\ naming' = [naming EXCEPT ![r] = NoName]

\* Mutant of LimitIsReached: off by one.
LimitIsExceeded == Cardinality(Custom) > AutomationLimit

LimitIsReached == Cardinality(Custom) >= AutomationLimit

\* count: campaigns and the automations of the system do not count.
CountAutomations(r) ==
    /\ await[r] = "count"
    /\ IF LimitIsReached THEN EndCreation(r)
       ELSE await' = [await EXCEPT ![r] = "custom"] /\ UNCHANGED naming
    /\ UNCHANGED automation

\* The channel is resolved, which may refuse; or a query fails.
RefuseCreation(r) ==
    /\ await[r] # "idle"
    /\ EndCreation(r)
    /\ UNCHANGED automation

\* P2002 for a name that is in use.
Inserted(r) ==
    IF automation[naming[r]] = "none" THEN [automation EXCEPT ![naming[r]] = await[r]]
    ELSE automation

InsertAutomation(r) ==
    /\ await[r] \in {"custom", "campaign"}
    /\ automation' = Inserted(r)
    /\ EndCreation(r)

------------------------------------------------------------------------------
(* update and remove *)

\* The automations of the system keep their names.
Rename(n, m) ==
    /\ automation[n] \in {"custom", "campaign"}
    /\ automation[m] = "none"
    /\ automation' = [automation EXCEPT ![n] = "none", ![m] = automation[n]]
    /\ UNCHANGED <<await, naming>>

RemoveAutomation(n) ==
    /\ automation[n] \in {"custom", "campaign"}
    /\ automation' = [automation EXCEPT ![n] = "none"]
    /\ UNCHANGED <<await, naming>>

CatalogNext ==
    \/ \E r \in Creators :
          \/ \E n \in Names, stage \in {"count", "campaign"} : StartCreation(r, n, stage)
          \/ CountAutomations(r) \/ RefuseCreation(r) \/ InsertAutomation(r)
    \/ \E n \in Names : RemoveAutomation(n) \/ \E m \in Names : Rename(n, m)

CatalogSpec == CatalogInit /\ [][CatalogNext]_catalogVars

------------------------------------------------------------------------------
(* Properties *)

\* Creations that overlap may pass the count together, but no more than that: the
\* custom automations exceed the limit by fewer than the requests handled at a time.
LimitPlusOverlap == Cardinality(Custom) < AutomationLimit + Cardinality(Creators)
==============================================================================
