------------------------------- MODULE MCEntry -------------------------------
(* Two users on two connections, and three places of which two are near    *)
(* each other.                                                             *)
EXTENDS Entry, TLC

CONSTANTS u1, u2, c1, c2, p1, p2, p3

MCUsers == {u1, u2}
MCConns == {c1, c2}
MCPlaces == {p1, p2, p3}
MCNear == p1 :> {p1, p2} @@ p2 :> {p1, p2} @@ p3 :> {p3}
MCSymmetry == Permutations(MCUsers) \cup Permutations(MCConns)
==============================================================================
