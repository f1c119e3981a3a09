------------------------ MODULE MCAutomationEngine ------------------------
(* Instances of AutomationEngine for TLC. *)
EXTENDS AutomationEngine, TLC

CONSTANTS react, bday, camp, ana, r1, r2

MCKind == [a \in Automations |-> CASE a = bday -> "BIRTHDAY"
                                    [] a = camp -> "CAMPAIGN"
                                    [] OTHER -> "REACTIVATION"]

MCCooldown == [a \in Automations |-> 1]

\* ana's last purchase is long ago.
MCDueFrom == [c \in Customers |-> 0]

MCBirthday == [c \in Customers |-> 0]

\* The campaign's channel is gone.
MCUnsendable == (Automations \intersect {camp}) \X Customers

Symmetry == Permutations(Runs)

\* Rows of one recurring automation at a time: none reads or writes a row of another.
OneAutomationInQueue ==
    \A a, b \in Automations, c \in Customers, d, e \in Days :
        outcome[<<a, c, d>>] # "NONE" /\ outcome[<<b, c, e>>] # "NONE" => a = b
==============================================================================
