-------------------------- MODULE MCDeliveryStatus --------------------------
(* Instances of DeliveryStatus for TLC. *)
EXTENDS DeliveryStatus, TLC

CONSTANTS m1, m2, twin, i1, i2, h1, h2

\* m1 and twin were given the same id.
MCProviderId == [m \in Messages |-> IF m = m2 THEN i2 ELSE i1]

Event(i, s) == [id |-> i, status |-> s]

\* Requests about m2 and about the two that share an id.
MCMixedPayloads == {<<Event(i1, "SENT"), Event(i2, "READ")>>,
                    <<Event(i2, "SENT")>>, <<Event(i2, "DELIVERED")>>,
                    <<Event(i2, "FAILED")>>}
==============================================================================
