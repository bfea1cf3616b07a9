------------------------------- MODULE MCLand -------------------------------
(***************************************************************************)
(* Two roles of different unions and two places, one of them with a system *)
(* building.  A unit of time is what checkGiveUp looks back, ten seconds;  *)
(* the war-free and give-up times of basic.json, 20 s and 30 s, are        *)
(* shortened to one and two units, in the same order.                      *)
(***************************************************************************)
EXTENDS Land

CONSTANTS r1, r2, c1, c2

MCRoles     == {r1, r2}
MCCells     == {c1, c2}
MCSysBuilds == {c1}
MCOneRole   == {r1}
MCUnionOf   == [r \in Roles \cup {NoRole} |-> IF r = r1 THEN 1 ELSE IF r = r2 THEN 2 ELSE 0]
==============================================================================
