------------------------------- MODULE MCCompany -------------------------------
(***************************************************************************)
(* What a company keeps, for TLC: its customers, their interests, its      *)
(* campaigns, its automations, its policy.  As in MCChannels, a behaviour  *)
(* is a behaviour of one part while the others wait: where one part        *)
(* depends on another, it takes any answer of the other for possible.      *)
(***************************************************************************)
EXTENDS CustomerRegistry, CustomerInterests, CampaignAudience, AutomationCatalog,
        CompanyPolicy, TLC

CONSTANTS l1, l2, k1, o1, o2, g1, b1

VARIABLE part

Phone(line, legacy) == [line |-> line, legacy |-> legacy]

\* An entry may come without the ninth digit.
MCEntries == {[phone |-> Phone(l1, TRUE), cpf |-> k1]}

MCEdits ==
    {[phone |-> Phone(l1, TRUE), cpf |-> k1],
     [phone |-> Keep, cpf |-> NoCpf]}

\* One customer twice, in two forms.
MCFiles ==
    {<<[phone |-> Phone(l1, TRUE), consent |-> "UNKNOWN"],
       [phone |-> Phone(l1, FALSE), consent |-> "GRANTED"]>>}

MCWishes == {{o1}, {o1, o2}}

Change(audience, attribute, categories, brands) ==
    [audience |-> audience, attribute |-> attribute,
     categories |-> categories, brands |-> brands]

MCChanges ==
    {Change("ALL_ELIGIBLE", AsItIs, AsItIs, AsItIs),
     Change("CUSTOMER_IDS", AsItIs, AsItIs, AsItIs),
     Change("SEGMENTED", AsItIs, {g1}, AsItIs),
     Change("SEGMENTED", TRUE, AsItIs, AsItIs),
     Change(AsItIs, FALSE, AsItIs, AsItIs),
     Change(AsItIs, AsItIs, {}, AsItIs),
     Change(AsItIs, AsItIs, AsItIs, {b1})}

\* The parts that wait have nothing yet.
NoCustomers == customer = [c \in Customers |-> Unused] /\ RegistryInit
NoInterests ==
    /\ option = [o \in Options |-> "missing"]
    /\ contact = [c \in Contacts |-> "missing"]
    /\ InterestsInit
NoSegment ==
    /\ campaign = [audience |-> "ALL_ELIGIBLE", attribute |-> FALSE]
    /\ filters = {}
    /\ AudienceInit
NoAutomations == automation = [n \in Names |-> "none"] /\ CatalogInit

Init ==
    /\ PolicyInit
    /\ \/ part = "registry" /\ RegistryInit /\ NoInterests /\ NoSegment /\ NoAutomations
       \/ part = "interests" /\ InterestsInit /\ NoCustomers /\ NoSegment /\ NoAutomations
       \/ part = "audience" /\ AudienceInit /\ NoCustomers /\ NoInterests /\ NoAutomations
       \/ part = "catalog" /\ CatalogInit /\ NoCustomers /\ NoInterests /\ NoSegment
       \/ part = "policy" /\ NoCustomers /\ NoInterests /\ NoSegment /\ NoAutomations

Next ==
    /\ UNCHANGED part
    /\ \/ /\ part = "registry" /\ RegistryNext
          /\ UNCHANGED <<interestVars, audienceVars, catalogVars, policyVars>>
       \/ /\ part = "interests" /\ InterestsNext
          /\ UNCHANGED <<registryVars, audienceVars, catalogVars, policyVars>>
       \/ /\ part = "audience" /\ AudienceNext
          /\ UNCHANGED <<registryVars, interestVars, catalogVars, policyVars>>
       \/ /\ part = "catalog" /\ CatalogNext
          /\ UNCHANGED <<registryVars, interestVars, audienceVars, policyVars>>
       \/ /\ part = "policy" /\ PolicyNext
          /\ UNCHANGED <<registryVars, interestVars, audienceVars, catalogVars>>

Spec ==
    Init /\ [][Next]_<<part, registryVars, interestVars, audienceVars, catalogVars, policyVars>>

Symmetry == Permutations(Requests)
==============================================================================
