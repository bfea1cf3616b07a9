-------------------------------- MODULE MCWar --------------------------------
(* One attacker and two enemies of two generals each.  The attacker is the *)
(* stronger one against foe 1, and the weaker one against foe 2, whose      *)
(* walls leave it a tenth of its harm; a garrison of one army is met twice, *)
(* as executeBuild has it.                                                  *)
EXTENDS War, TLC

MCPositions == 0..1
MCFoes      == {1, 2}
MCQueues    == {<<>>, <<1, 1>>, <<2, 1>>}
MCForce     == 0 :> 6 @@ 1 :> 5 @@ 2 :> 7
MCDefense   == 0 :> 4 @@ 1 :> 3 @@ 2 :> 37
MCHarmRatio == [c \in Camps |-> [d \in Camps |-> IF c = 2 THEN 150 ELSE 100]]
MCLevels    == <<0, 10>>
==============================================================================
