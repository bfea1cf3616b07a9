------------------------------- MODULE MCArmy --------------------------------
(***************************************************************************)
(* Two roles of two unions with a city each, and one land.  a1 is the army  *)
(* of r1, the others are armies of r2.                                     *)
(***************************************************************************)
EXTENDS Army

CONSTANTS r1, r2, a1, p1, h1, h2

MCOwnerOf == [a \in Armies |-> IF a = a1 THEN r1 ELSE r2]
MCUnionOf == (r1 :> 1) @@ (r2 :> 2)
MCInitFrom == [a \in Armies |-> IF a = a1 THEN Origin ELSE h2]
MCInitOwner == (p1 :> r1)
MCCityOf  == (r1 :> h1) @@ (r2 :> h2)
==============================================================================
