------------------------------ MODULE MCFanout ------------------------------
(* Ten subtasks, for TLC: five of a squad with three slots, five of a squad  *)
(* with two, the first and a queued one with a prompt that is too long.      *)
EXTENDS Fanout

CONSTANTS wide, narrow

MCSquadOf == [t \in Task |-> IF t % 2 = 0 THEN narrow ELSE wide]
MCLimit == [s \in Squad |-> IF s = wide THEN 3 ELSE 2]
=============================================================================
