---------------------------- MODULE CompanyPolicy -----------------------------
(***************************************************************************)
(* The messaging policy of a company and the audit of who has changed it:  *)
(* src/backend/src/company/company-messaging-policy.service.ts.  The audit *)
(* is inserted and the policy written in one transaction at the default    *)
(* isolation level, after a read of the policy; what is inserted is seen   *)
(* by nobody until the commit.  What the policy means for a message is in  *)
(* OutboundQueue and AutomationEngine.                                     *)
(***************************************************************************)
EXTENDS Naturals, Sequences

CONSTANTS
    Managers,     \* requests handled at the same time
    MaxAudits     \* bound on the audits of a company

ASSUME AuditsAssumption == MaxAudits \in Nat

VARIABLES
    include,      \* includeOptOutInstructions
    audits,       \* the acceptances of the opt-out instructions: what was included
    unknown,      \* unknownContactPolicy
    declared,     \* an acceptance of the declaration for unknown contacts is stored
    revision      \* a request that has read the policy: what it read and what it writes

policyVars == <<include, audits, unknown, declared, revision>>

Pending == [read : BOOLEAN, write : BOOLEAN]
NoRevision == [read |-> TRUE, write |-> TRUE]

PolicyTypeOK ==
    /\ include \in BOOLEAN
    /\ audits \in Seq(BOOLEAN)
    /\ unknown \in {"BLOCK_UNKNOWN", "ALLOW_UNKNOWN_WITH_DECLARATION"}
    /\ declared \in BOOLEAN
    /\ unknown = "ALLOW_UNKNOWN_WITH_DECLARATION" => declared
    /\ revision \in [Managers -> Pending]

\* A new company: the defaults of the schema.
PolicyInit ==
    /\ include = TRUE
    /\ audits = <<>>
    /\ unknown = "BLOCK_UNKNOWN"
    /\ declared = FALSE
    /\ revision = [m \in Managers |-> NoRevision]

------------------------------------------------------------------------------
(* The opt-out instructions *)

\* updateOptOutInstructions: who disables them acknowledges the responsibility; a
\* policy that is as asked is left alone, without an audit.
ReadPolicy(m, write, acknowledged) ==
    /\ revision[m] = NoRevision
    /\ write \/ acknowledged
    /\ include # write
    /\ Len(audits) < MaxAudits
    /\ revision' = [revision EXCEPT ![m] = [read |-> include, write |-> write]]
    /\ UNCHANGED <<include, audits, unknown, declared>>

\* Mutant of Unchanged: the policy is written whatever it is.
UnchangedNever(m) == TRUE

\* The where of updateMany.
Unchanged(m) == include = revision[m].read

\* create, updateMany and commit; a policy that was changed concurrently rolls the
\* audit back, and so does a failure.
WritePolicy(m) ==
    /\ revision[m] # NoRevision
    /\ \/ /\ Unchanged(m)
          /\ include' = revision[m].write
          /\ audits' = Append(audits, revision[m].write)
       \/ UNCHANGED <<include, audits>>
    /\ revision' = [revision EXCEPT ![m] = NoRevision]
    /\ UNCHANGED <<unknown, declared>>

------------------------------------------------------------------------------
(* Unknown contacts *)

\* The acceptance that is stored with the policy.
Declaration == TRUE

\* allowUnknownWithDeclaration: an accepted declaration, stored with the policy.
AllowUnknown(accepted) ==
    /\ accepted
    /\ unknown' = "ALLOW_UNKNOWN_WITH_DECLARATION"
    /\ declared' = Declaration
    /\ UNCHANGED <<include, audits, revision>>

\* blockUnknown.
BlockUnknown ==
    /\ unknown' = "BLOCK_UNKNOWN"
    /\ UNCHANGED <<include, audits, declared, revision>>

PolicyNext ==
    \/ \E m \in Managers :
          \/ \E write, acknowledged \in BOOLEAN : ReadPolicy(m, write, acknowledged)
          \/ WritePolicy(m)
    \/ \E accepted \in BOOLEAN : AllowUnknown(accepted)
    \/ BlockUnknown

PolicySpec == PolicyInit /\ [][PolicyNext]_policyVars

------------------------------------------------------------------------------
(* Properties *)

\* However the changes overlap, the audit tells the policy: it names every change of
\* the opt-out instructions once, in order, the last one being what holds now.
AuditTellsPolicy ==
    /\ include = (IF audits = <<>> THEN TRUE ELSE audits[Len(audits)])
    /\ \A i \in 1..Len(audits) :
          audits[i] # (IF i = 1 THEN TRUE ELSE audits[i - 1])
==============================================================================
