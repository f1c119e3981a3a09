--------------------------- MODULE CampaignAudience ---------------------------
(***************************************************************************)
(* Whom a campaign reaches: its persisted audience with the attributes and *)
(* the interests that segment it, the requests that change it              *)
(* (updateCampaign of src/backend/src/automation/automation.service.ts)    *)
(* and those that preview or dispatch it (automation/engine/               *)
(* engine.service.ts), with the checks of automation/campaign/             *)
(* campaign-segmentation.ts that they share.                               *)
(*                                                                         *)
(* A campaign is read as a row and then as the rows of its interest        *)
(* filters.  What a request leaves out of a change stays as it was read;   *)
(* the change is written later, in a transaction at the default isolation  *)
(* level.  The seven attributes of a segment (gender, city, state, ages,   *)
(* dates) are one here, set or not.  Who of the audience is eligible, and  *)
(* the messages, are in AutomationEngine.                                  *)
(***************************************************************************)
EXTENDS Naturals

CONSTANTS
    Categories,   \* interest options of type CATEGORY
    Brands,       \* interest options of type BRAND
    Changes,      \* what requests ask to change
    Editors,      \* requests handled at the same time
    AsItIs,       \* a part that a change leaves out
    NoCampaign

Interests == Categories \union Brands
Audiences == {"ALL_ELIGIBLE", "SEGMENTED", "CUSTOMER_IDS"}

ASSUME AudienceAssumption ==
    /\ Categories \intersect Brands = {}
    /\ NoCampaign \notin [audience : {"ALL_ELIGIBLE", "SEGMENTED"}, attribute : BOOLEAN]
    /\ Changes \subseteq [audience : Audiences \union {AsItIs},
                          attribute : BOOLEAN \union {AsItIs},
                          categories : SUBSET Interests \union {AsItIs},
                          brands : SUBSET Interests \union {AsItIs}]

VARIABLES
    campaign,     \* the row: audience and attribute
    filters,      \* the rows of campaignInterestFilter
    at,           \* the await a request stands at
    order,        \* what it was asked to do
    row,          \* the campaign it has read
    kept,         \* the filters it has read
    doomed,       \* filters its transaction has deleted
    added,        \* filters its transaction has inserted
    reached,      \* whom the last dispatch of a request reached
    stale,        \* requests that have read a campaign which was changed since
    crossed,      \* the last change was made by such a request
    generic       \* requests during which the campaign was not SEGMENTED at some time

readVars == <<row, kept>>
transactionVars == <<doomed, added>>
audienceVars == <<campaign, filters, at, order, readVars, transactionVars,
                  reached, stale, crossed, generic>>

CampaignRows == [audience : {"ALL_ELIGIBLE", "SEGMENTED"}, attribute : BOOLEAN]
NoOrder == [op |-> "none"]
Orders == {NoOrder} \union [op : {"edit"}, change : Changes]
              \union [op : {"dispatch"}, audience : Audiences]
Nowhere == [audience |-> "NONE", attribute |-> FALSE, interests |-> {}]

AudienceTypeOK ==
    /\ campaign \in CampaignRows \union {NoCampaign}
    /\ filters \in SUBSET Interests
    /\ at \in [Editors -> {"idle", "row", "filters", "check", "categories", "brands", "update"}]
    /\ order \in [Editors -> Orders]
    /\ row \in [Editors -> CampaignRows \union {NoCampaign}]
    /\ kept \in [Editors -> SUBSET Interests]
    /\ doomed \in [Editors -> SUBSET Interests]
    /\ added \in [Editors -> SUBSET Interests]
    /\ reached \in [Editors -> {Nowhere} \union
                       [audience : Audiences, attribute : BOOLEAN, interests : SUBSET Interests]]
    /\ stale \in SUBSET Editors
    /\ crossed \in BOOLEAN
    /\ generic \in SUBSET Editors
    /\ campaign = NoCampaign => filters = {}

------------------------------------------------------------------------------
(* Checks *)

\* assertCampaignAudienceConfiguration: a segment has a filter, nothing else has.
ValidAudience(audience, attribute, interests) ==
    (audience = "SEGMENTED") = (attribute \/ interests # {})

Segmented == campaign # NoCampaign /\ campaign.audience = "SEGMENTED"

\* createCampaign has checked the same.
AudienceInit ==
    /\ campaign \in CampaignRows
    /\ filters \in SUBSET Interests
    /\ ValidAudience(campaign.audience, campaign.attribute, filters)
    /\ at = [r \in Editors |-> "idle"]
    /\ order = [r \in Editors |-> NoOrder]
    /\ row = [r \in Editors |-> NoCampaign]
    /\ kept = [r \in Editors |-> {}]
    /\ doomed = [r \in Editors |-> {}]
    /\ added = [r \in Editors |-> {}]
    /\ reached = [r \in Editors |-> Nowhere]
    /\ stale = {} /\ crossed = FALSE /\ generic = {}

\* A part of a change, or what was read.
Given(part, otherwise) == IF part = AsItIs THEN otherwise ELSE part

\* updateCampaign: what the campaign is going to be.
NewAudience(r) == Given(order[r].change.audience, row[r].audience)
NewAttribute(r) ==
    NewAudience(r) = "SEGMENTED" /\ Given(order[r].change.attribute, row[r].attribute)

\* Mutant of NewInterests: a group that is left out brings the other one back.
NewInterestsGiven(r) ==
    IF NewAudience(r) # "SEGMENTED" THEN {}
    ELSE Given(order[r].change.categories, kept[r]) \union Given(order[r].change.brands, kept[r])

NewInterests(r) ==
    IF NewAudience(r) # "SEGMENTED" THEN {}
    ELSE Given(order[r].change.categories, kept[r] \intersect Categories) \union
         Given(order[r].change.brands, kept[r] \intersect Brands)

\* hasSegmentationInput.
Segments(c) == c.attribute # AsItIs \/ c.categories # AsItIs \/ c.brands # AsItIs

ValidChange(r) ==
    /\ NewAudience(r) # "CUSTOMER_IDS"
    /\ NewAudience(r) # "SEGMENTED" => ~Segments(order[r].change)
    /\ ValidAudience(NewAudience(r), NewAttribute(r), NewInterests(r))

\* assertValidCampaignInterestOptions: what the change gives, and nothing that it
\* leaves as it is, must be of its type, and active: CustomerInterests.
ValidOptions(c) ==
    /\ c.categories # AsItIs => c.categories \subseteq Categories
    /\ c.brands # AsItIs => c.brands \subseteq Brands

------------------------------------------------------------------------------
(* Steps of a request *)

\* A request ends; those of passed have read what it has changed.
Leave(r, passed) ==
    /\ at' = [at EXCEPT ![r] = "idle"]
    /\ order' = [order EXCEPT ![r] = NoOrder]
    /\ row' = [row EXCEPT ![r] = NoCampaign]
    /\ kept' = [kept EXCEPT ![r] = {}]
    /\ doomed' = [doomed EXCEPT ![r] = {}]
    /\ added' = [added EXCEPT ![r] = {}]
    /\ stale' = (stale \union passed) \ {r}

Close(r) == Leave(r, {})

Step(r, next) ==
    /\ at' = [at EXCEPT ![r] = next]
    /\ UNCHANGED <<order, readVars, transactionVars, stale>>

StartOrder(r, o) ==
    /\ at[r] = "idle"
    /\ at' = [at EXCEPT ![r] = "row"]
    /\ order' = [order EXCEPT ![r] = o]
    /\ reached' = [reached EXCEPT ![r] = Nowhere]
    /\ generic' = IF Segmented THEN generic \ {r} ELSE generic \union {r}
    /\ UNCHANGED <<campaign, filters, readVars, transactionVars, stale, crossed>>

\* A query fails or the process dies; an open transaction is rolled back.
FailOrder(r) ==
    /\ at[r] # "idle"
    /\ Close(r)
    /\ UNCHANGED <<campaign, filters, reached, crossed, generic>>

\* findFirst; campaigns that are not active are not dispatched, which changes nothing.
ReadCampaign(r) ==
    /\ at[r] = "row"
    /\ IF campaign = NoCampaign THEN Close(r)
       ELSE /\ at' = [at EXCEPT ![r] = "filters"]
            /\ row' = [row EXCEPT ![r] = campaign]
            /\ UNCHANGED <<order, kept, transactionVars, stale>>
    /\ UNCHANGED <<campaign, filters, reached, crossed, generic>>

\* campaignInterestFilterInclude.
ReadFilters(r) ==
    /\ at[r] = "filters"
    /\ at' = [at EXCEPT ![r] = "check"]
    /\ kept' = [kept EXCEPT ![r] = filters]
    /\ UNCHANGED <<campaign, filters, order, row, transactionVars, reached, stale,
                   crossed, generic>>

------------------------------------------------------------------------------
(* updateCampaign *)

\* The change is checked against what was read; the transaction begins by checking
\* the options, of which one may be inactive.
CheckChange(r) ==
    /\ at[r] = "check" /\ order[r].op = "edit"
    /\ \/ ValidChange(r) /\ ValidOptions(order[r].change) /\ Step(r, "categories")
       \/ Close(r)
    /\ UNCHANGED <<campaign, filters, reached, crossed, generic>>

\* Rows that another transaction has deleted or inserted make this one wait.
Waits(r, out, in) ==
    \E q \in Editors \ {r} :
        \/ doomed[q] \intersect (out \union in) # {}
        \/ added[q] \intersect in # {}

\* deleteMany, then createMany, which the index refuses for a filter that another
\* transaction has added.
Replace(r, out, in, next) ==
    /\ ~Waits(r, out, in)
    /\ IF (filters \ out) \intersect in # {} THEN Close(r)
       ELSE /\ at' = [at EXCEPT ![r] = next]
            /\ doomed' = [doomed EXCEPT ![r] = @ \union out]
            /\ added' = [added EXCEPT ![r] = @ \union in]
            /\ UNCHANGED <<order, readVars, stale>>

\* replaceCampaignInterestFilterGroup for the categories, or deleteMany of all.
ReplaceCategories(r) ==
    LET c == order[r].change IN
    /\ at[r] = "categories"
    /\ IF NewAudience(r) # "SEGMENTED" THEN Replace(r, filters, {}, "update")
       ELSE IF c.categories = AsItIs THEN Step(r, "brands")
       ELSE Replace(r, filters \intersect Categories, c.categories, "brands")
    /\ UNCHANGED <<campaign, filters, reached, crossed, generic>>

ReplaceBrands(r) ==
    LET c == order[r].change IN
    /\ at[r] = "brands"
    /\ IF c.brands = AsItIs THEN Step(r, "update")
       ELSE Replace(r, filters \intersect Brands, c.brands, "update")
    /\ UNCHANGED <<campaign, filters, reached, crossed, generic>>

\* automation.update and commit; the campaign may be gone.
UpdateRow(r) ==
    /\ at[r] = "update"
    /\ IF campaign = NoCampaign THEN UNCHANGED <<campaign, filters, crossed, generic>> /\ Close(r)
       ELSE /\ campaign' = [audience |-> NewAudience(r), attribute |-> NewAttribute(r)]
            /\ filters' = (filters \ doomed[r]) \union added[r]
            /\ crossed' = (r \in stale)
            /\ generic' = IF NewAudience(r) = "SEGMENTED" THEN generic ELSE Editors
            /\ Leave(r, {q \in Editors : at[q] \notin {"idle", "row"}})
    /\ UNCHANGED reached

\* remove: the filters go with the campaign, and their inserts hold it.
RemoveCampaign ==
    /\ campaign # NoCampaign
    /\ \A r \in Editors : added[r] = {}
    /\ campaign' = NoCampaign
    /\ filters' = {}
    /\ UNCHANGED <<at, order, readVars, transactionVars, reached, stale, crossed, generic>>

------------------------------------------------------------------------------
(* Preview and dispatch *)

\* Mutant of ValidDispatch: the filters are not asserted again.
ValidDispatchUnasserted(asked, persisted, interests) ==
    asked = "SEGMENTED" <=> persisted.audience = "SEGMENTED"

\* assertPersistedCampaignAudienceAllows and buildCampaignAudienceWhere.
ValidDispatch(asked, persisted, interests) ==
    /\ asked = "SEGMENTED" <=> persisted.audience = "SEGMENTED"
    /\ asked = "SEGMENTED" => ValidAudience(asked, persisted.attribute, interests)

Dispatch(r) ==
    LET asked == order[r].audience IN
    /\ at[r] = "check" /\ order[r].op = "dispatch"
    /\ reached' = [reached EXCEPT ![r] =
           IF ~ValidDispatch(asked, row[r], kept[r]) THEN Nowhere
           ELSE IF asked = "SEGMENTED"
             THEN [audience |-> asked, attribute |-> row[r].attribute, interests |-> kept[r]]
             ELSE [audience |-> asked, attribute |-> FALSE, interests |-> {}]]
    /\ Close(r)
    /\ UNCHANGED <<campaign, filters, crossed, generic>>

AudienceNext ==
    \/ \E r \in Editors :
          \/ \E o \in Orders \ {NoOrder} : StartOrder(r, o)
          \/ ReadCampaign(r) \/ ReadFilters(r)
          \/ CheckChange(r) \/ ReplaceCategories(r) \/ ReplaceBrands(r) \/ UpdateRow(r)
          \/ Dispatch(r)
          \/ FailOrder(r)
    \/ RemoveCampaign

AudienceSpec == AudienceInit /\ [][AudienceNext]_audienceVars

------------------------------------------------------------------------------
(* Properties *)

\* A campaign is SEGMENTED if and only if it has a filter, unless the last change was
\* checked against a campaign that another request had changed meanwhile; a change
\* that meets no other makes it right again.
SegmentedHasFilter ==
    campaign # NoCampaign /\ ~crossed =>
        ValidAudience(campaign.audience, campaign.attribute, filters)

\* A dispatch stays within the segment: one that reaches all customers, or a list of
\* them, met the campaign at a time when it was not SEGMENTED, and one of a segment
\* has a condition at least, even if changes that crossed have left none.
DispatchStaysInSegment ==
    \A r \in Editors :
        /\ reached[r].audience \in {"ALL_ELIGIBLE", "CUSTOMER_IDS"} => r \in generic
        /\ reached[r].audience = "SEGMENTED" => reached[r].attribute \/ reached[r].interests # {}
==============================================================================
