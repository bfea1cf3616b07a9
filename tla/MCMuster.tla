------------------------------ MODULE MCMuster ------------------------------
(***************************************************************************)
(* One army of two positions, a strong and a weak general of the same      *)
(* configuration, so that the one may take over from the other.            *)
(***************************************************************************)
EXTENDS Muster

CONSTANTS c1, strong, weak

MCConns    == {c1}
MCArmies   == {1}
MCPosition == {1, 2}
MCGenerals == {strong, weak}
MCCfgOf    == [g \in MCGenerals |-> "cfg"]
MCCapOf    == [g \in MCGenerals |-> IF g = strong THEN 2 ELSE 1]
MCCost     == [g \in MCGenerals |-> 1]
MCCounts   == {0, 2}
==============================================================================
