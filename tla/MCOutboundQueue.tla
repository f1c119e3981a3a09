--------------------------- MODULE MCOutboundQueue ---------------------------
(* Instances of OutboundQueue for TLC. *)
EXTENDS OutboundQueue, TLC

CONSTANTS m1, m2, low, c1, a1, w1, w2

\* low is a message of lower priority than the others.
MCPriority == [m \in Messages |-> IF m = low THEN 0 ELSE 1]
MCTwoAttempts == [m \in Messages |-> 2]

Symmetry == Permutations(Workers)
==============================================================================
