---------------------------- MODULE MCCoalition ------------------------------
(* Coalition on a small instance.                                            *)
EXTENDS Coalition

\* Sound: every definition treats all roles, and all unions, alike.
Symmetry == Permutations(Roles) \cup Permutations(Unions)
==============================================================================
