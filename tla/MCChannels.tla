------------------------------ MODULE MCChannels ------------------------------
(***************************************************************************)
(* The three parts of the life of a channel, for TLC: its reservation, its *)
(* connection, the messages that are routed through it.  They are put      *)
(* together without the product of their interleavings, as none writes     *)
(* what another reads: a behaviour is a behaviour of one part, while the   *)
(* others wait in one of their initial states.  What the parts do tell     *)
(* each other is in each module: a connection starts with a channel that   *)
(* is reserved, and routing takes any connectionStatus for possible.       *)
(***************************************************************************)
EXTENDS ChannelReservation, ChannelConnection, MessageRouting, TLC

VARIABLE part

Init ==
    /\ part \in {"reservation", "connection", "routing"}
    /\ ReservationInit /\ ConnectionInit /\ RoutingInit
    /\ part # "reservation" => limit = 0
    /\ part # "routing" => active = {} /\ connected = {}

Next ==
    /\ UNCHANGED part
    /\ \/ /\ part = "reservation" /\ ReservationNext
          /\ UNCHANGED <<connectionVars, routingVars>>
       \/ /\ part = "connection" /\ ConnectionNext
          /\ UNCHANGED <<reservationVars, routingVars>>
       \/ /\ part = "routing" /\ RoutingNext
          /\ UNCHANGED <<reservationVars, connectionVars>>

Spec == Init /\ [][Next]_<<part, reservationVars, connectionVars, routingVars>>

\* Every reservation, every request on an instance and every message that takes a step
\* comes closer to its end: the loops of the three parts are all bounded.
EveryRequestEnds ==
    [][ReservationProgress /\ ConnectionProgress /\ RoutingProgress]_<<
        part, reservationVars, connectionVars, routingVars>>

\* Clients are named as requests, and keys as channels, so that few permutations serve
\* all the parts.
Symmetry == Permutations(Requests) \union Permutations(Evolution)
==============================================================================
