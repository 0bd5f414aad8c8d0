---------------------------- MODULE MCFleetPower ----------------------------
(* Two small fleets: a chassis with a fan controller and two mates, and a   *)
(* chassis with one mate beside an always-on box that is in no chassis.     *)
EXTENDS FleetPower

CONSTANTS fan, m1, m2, solo, c1, noChassis

MCChassisNode == {fan, m1, m2}
MCMixedNode == {fan, m1, solo}
MCChassisOf == [n \in Node |-> IF n = solo THEN noChassis ELSE c1]
=============================================================================
