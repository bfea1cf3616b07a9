------------------------- MODULE MCCoalitionOverlap ---------------------------
(* CoalitionOverlap on a small instance.                                     *)
EXTENDS CoalitionOverlap

\* Sound: every definition treats all roles, and all unions, alike.
Symmetry == Permutations(Roles) \cup Permutations(Unions)
==============================================================================
