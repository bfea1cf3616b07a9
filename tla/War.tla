--------------------------------- MODULE War ---------------------------------
(***************************************************************************)
(* The battles of an army that has arrived (trigger and ArmyWar).  It      *)
(* meets the enemies in turn; a battle goes on in rounds, in which the     *)
(* generals of one side, the same for the round, strike one after the      *)
(* other and are struck back by the general they hit.  A side whose main   *)
(* general, the one at position 0, has no men left is beaten.              *)
(*                                                                         *)
(* All of it runs in the goroutine running, on copies of the armies nobody *)
(* else changes; what the result does to the land is in Army and Land.     *)
(* The draws of rand are \E.                                               *)
(***************************************************************************)
EXTENDS Integers, FiniteSetsExt, SequencesExt

CONSTANTS
    Positions,      \* 0..2 in the code
    Foes,           \* armies the attacker may meet
    Queues,         \* the sequences of foes executeBuild and newBattle hand to trigger
    MaxSoldiers,    \* bound: men at a position when the army arrives
    BaseForce,      \* camp -> the attribute of its generals at level 0, facilities included
    BaseDefense,    \* the same
    Growth,         \* what a level adds to both
    HarmRatio,      \* camp -> camp -> harm_ratio of their arms, in percent
    HarmUnit,       \* 200000: the factor 0.0005 on a harm in percent
    Levels,         \* the experience the levels 1, 2, ... ask for
    MaxRound        \* 10 in the code

Attacker == 0
Camps    == {Attacker} \cup Foes
Main     == 0

ASSUME WarAssumption ==
    /\ Positions \subseteq Nat /\ IsFiniteSet(Positions) /\ Main \in Positions
    /\ \A i \in Positions : 0..i \subseteq Positions
    /\ Foes \subseteq Nat \ {Attacker}
    /\ Queues \subseteq Seq(Foes)
    /\ MaxSoldiers \in Nat /\ MaxRound \in Nat \ {0} /\ HarmUnit \in Nat \ {0}
    /\ BaseForce \in [Camps -> Nat] /\ BaseDefense \in [Camps -> Nat] /\ Growth \in Nat
    /\ HarmRatio \in [Camps -> [Camps -> Nat]]
    /\ Levels \in Seq(Nat) /\ Levels # <<>>

VARIABLES
    gens,       \* camp -> positions with a general
    men,        \* camp -> position -> SoldierArray
    exp, level, \* camp -> position -> what the general has come to
    enemies,    \* the foes that are still to be met
    foe,        \* the one that is met, Attacker before the first
    beg,        \* BegAttackArmy, BegAttackGeneral...: men and exp before this battle
    step,       \* "trigger", "battle", "round", "fought"; "over" or "panic"
    striker,    \* the camp that strikes in this round
    turn,       \* the position whose turn it is
    rounds,     \* rounds of this battle
    results     \* the results of the battles, one for each foe met

warVars == <<gens, men, exp, level, enemies, foe, beg, step, striker, turn, rounds, results>>

(* WarResult.Result; in the code 0, 1 and 2.                                *)
Outcomes == {"lost", "drawn", "won"}

(* ExpToLevel: the highest level the experience is enough for, and no       *)
(* experience beyond the last.                                              *)
LevelFor(e)  == Max({0} \cup {l \in DOMAIN Levels : e >= Levels[l]})
ExpToLevel(e) == Min({e, Last(Levels)})

(* A position without a general neither strikes nor is hit.                 *)
Standing(c) == {i \in gens[c] : men[c][i] # 0}
Other(c)    == IF c = Attacker THEN foe ELSE Attacker

(* dispose takes the men of a general it takes away (Muster's Without).     *)
WarInit ==
    /\ gens \in [Camps -> SUBSET Positions]
    /\ men \in [Camps -> [Positions -> 0..MaxSoldiers]]
    /\ \A c \in Camps : \A i \in Positions \ gens[c] : men[c][i] = 0
    /\ exp = [c \in Camps |-> [i \in Positions |-> 0]]
    /\ level = [c \in Camps |-> [i \in Positions |-> LevelFor(0)]]
    /\ enemies \in Queues
    /\ foe = Attacker /\ striker = Attacker /\ turn = 0 /\ rounds = 0
    /\ beg = [men |-> men, exp |-> exp]
    /\ step = "trigger" /\ results = <<>>

-----------------------------------------------------------------------------
(* One battle.                                                              *)

(* A foe may be met twice: executeBuild appends the last of a garrison once *)
(* more (Army's Garrison).                                                  *)
Engage ==
    /\ step = "trigger" /\ enemies # <<>>
    /\ foe' = Head(enemies) /\ enemies' = Tail(enemies)
    /\ beg' = [men |-> men, exp |-> exp]
    /\ rounds' = 0 /\ step' = "battle"
    /\ UNCHANGED <<gens, men, exp, level, striker, turn, results>>

BeginRound(c) ==
    /\ step = "battle" /\ c \in {Attacker, foe}
    /\ striker' = c /\ turn' = 0 /\ step' = "round"
    /\ UNCHANGED <<gens, men, exp, level, enemies, foe, beg, rounds, results>>

EndRound(isEnd) ==
    /\ rounds' = rounds + 1
    /\ step' = IF isEnd \/ rounds + 1 >= MaxRound THEN "fought" ELSE "battle"
    /\ UNCHANGED turn

NextTurn ==
    IF turn + 1 \in Positions THEN turn' = turn + 1 /\ UNCHANGED <<rounds, step>>
    ELSE EndRound(FALSE)

SkipTurn ==
    /\ step = "round" /\ turn \notin Standing(striker)
    /\ NextTurn
    /\ UNCHANGED <<gens, men, exp, level, enemies, foe, beg, striker, results>>

NobodyToHit ==
    /\ step = "round" /\ turn \in Standing(striker) /\ Standing(Other(striker)) = {}
    /\ EndRound(TRUE)
    /\ UNCHANGED <<gens, men, exp, level, enemies, foe, beg, striker, results>>

ForceOf(c, i)   == BaseForce[c] + Growth * level[c][i]
DefenseOf(c, i) == BaseDefense[c] + Growth * level[c][i]

(* The harm n men of the general at <<c, i>> do to the one at <<d, j>>: the *)
(* distance of force and defence counts, a tenth of it where the force is   *)
(* the smaller one.                                                         *)
Harm(c, i, n, d, j) ==
    LET f == ForceOf(c, i)
        g == DefenseOf(d, j)
    IN IF f < g THEN ((g - f) * n * HarmRatio[c][d]) \div (10 * HarmUnit)
       ELSE ((f - g) * n * HarmRatio[c][d]) \div HarmUnit

(* A mutated form of the next definition: more men fall than stand there.   *)
KillsUncapped(c, i, n, d, j) == Harm(c, i, n, d, j)

Kills(c, i, n, d, j) == Min({Harm(c, i, n, d, j), men[d][j]})

(* A mutated form of the next definition: the main general that falls        *)
(* striking is not seen.                                                    *)
MainFallsUnseen(kill, loss, j) == j = Main /\ men[Other(striker)][j] = kill

(* The main general of the side that is hit has lost its last men, or the   *)
(* one that strikes has to the blow that is struck back.                    *)
MainFalls(kill, loss, j) ==
    \/ j = Main /\ men[Other(striker)][j] = kill
    \/ turn = Main /\ men[striker][turn] = loss

(* A mutated form of the next definition: nothing for striking back.        *)
StrikerLearns(kill, loss, j) ==
    [exp EXCEPT ![striker][turn] = @ + 5 * kill]

Learn(kill, loss, j) ==
    [exp EXCEPT ![striker][turn] = @ + 5 * kill, ![Other(striker)][j] = @ + 5 * loss]

(* No blow is struck back where no men are left to strike it.  A main       *)
(* general's fall ends the battle at once.                                  *)
Strike(j) ==
    /\ step = "round" /\ turn \in Standing(striker) /\ j \in Standing(Other(striker))
    /\ LET d    == Other(striker)
           kill == Kills(striker, turn, men[striker][turn], d, j)
           left == men[d][j] - kill
           loss == IF left = 0 THEN 0 ELSE Kills(d, j, left, striker, turn)
       IN
       /\ men' = [men EXCEPT ![d][j] = left, ![striker][turn] = @ - loss]
       /\ exp' = Learn(kill, loss, j)
       /\ IF MainFalls(kill, loss, j) THEN EndRound(TRUE) ELSE NextTurn
    /\ UNCHANGED <<gens, level, enemies, foe, beg, striker, results>>

(* A mutated form of the next definition: the sides in the other order.     *)
ResultForAttacker ==
    IF men[foe][Main] = 0 \/ Main \notin gens[foe] THEN "won"
    ELSE IF men[Attacker][Main] = 0 THEN "lost" ELSE "drawn"

Result ==
    IF men[Attacker][Main] = 0 THEN "lost"
    ELSE IF Main \in gens[foe] /\ men[foe][Main] # 0 THEN "drawn"
    ELSE "won"

(* newWar reads the attacker's main general without asking whether it has   *)
(* one: running has no recover, the process ends.                           *)
NoMainGeneral ==
    /\ step = "fought" /\ Main \notin gens[Attacker]
    /\ step' = "panic"
    /\ UNCHANGED <<gens, men, exp, level, enemies, foe, beg, striker, turn, rounds, results>>

(* The generals of both camps are told their level; a battle that is lost   *)
(* does not keep the attacker from the next enemy.                          *)
Report ==
    /\ step = "fought" /\ Main \in gens[Attacker]
    /\ results' = Append(results, Result)
    /\ LET told == {Attacker, foe} IN
       /\ level' = [c \in Camps |-> [i \in Positions |->
            IF c \in told /\ i \in gens[c] THEN LevelFor(exp[c][i]) ELSE level[c][i]]]
       /\ exp' = [c \in Camps |-> [i \in Positions |->
            IF c \in told /\ i \in gens[c] THEN ExpToLevel(exp[c][i]) ELSE exp[c][i]]]
    /\ step' = "trigger"
    /\ UNCHANGED <<gens, men, enemies, foe, beg, striker, turn, rounds>>

(* Of no enemies there is no last war whose result could be read: panic.    *)
EndAttack ==
    /\ step = "trigger" /\ enemies = <<>>
    /\ step' = IF results = <<>> THEN "panic" ELSE "over"
    /\ UNCHANGED <<gens, men, exp, level, enemies, foe, beg, striker, turn, rounds, results>>

WarNext ==
    \/ Engage \/ Report \/ NoMainGeneral \/ EndAttack
    \/ \E c \in Camps : BeginRound(c)
    \/ SkipTurn \/ NobodyToHit
    \/ \E j \in Positions : Strike(j)

WarSpec == WarInit /\ [][WarNext]_warVars

-----------------------------------------------------------------------------
WarTypeOK ==
    /\ gens \in [Camps -> SUBSET Positions]
    /\ men \in [Camps -> [Positions -> 0..MaxSoldiers]]
    /\ exp \in [Camps -> [Positions -> Nat]] /\ level \in [Camps -> [Positions -> Nat]]
    /\ enemies \in Seq(Foes) /\ foe \in Camps /\ striker \in Camps /\ turn \in Positions
    /\ step \in {"trigger", "battle", "round", "fought", "over", "panic"}
    /\ beg \in [men : [Camps -> [Positions -> 0..MaxSoldiers]], exp : [Camps -> [Positions -> Nat]]]
    /\ rounds \in 0..MaxRound /\ results \in Seq(Outcomes)

Fighting == step \in {"battle", "round", "fought"}

Gained(c) == MapThenSumSet(LAMBDA i : exp[c][i] - beg.exp[c][i], Positions)
Losses(c) == MapThenSumSet(LAMBDA i : beg.men[c][i] - men[c][i], Positions)

(* In a battle the generals of a side gain five points for every man the    *)
(* other side loses, and for no other: the two halves of a blow, and the    *)
(* two sides' roles that change from round to round, are booked alike       *)
(* (war.go:161-163, 189-191).                                               *)
ExperienceIsKills ==
    Fighting => \A c \in {Attacker, foe} : Gained(c) = 5 * Losses(Other(c))

(* A battle ends for a reason: it does not outlive a main general that came *)
(* to it with men, whichever side strikes and whether it falls striking or  *)
(* struck; a draw has taken all the rounds there are (war.go:104 "结束的条件 *)
(* 主将 士兵为0 或者到达最大回合数"); and an attacker that has lost to one   *)
(* enemy wins against none of the rest, which Army takes for granted of the *)
(* results and checkCityOccupy of the last one.                             *)
MainFallEndsBattle ==
    step \in {"battle", "round"} =>
        \A c \in {Attacker, foe} :
            Main \in gens[c] /\ beg.men[c][Main] # 0 => men[c][Main] # 0

DrawIsFought ==
    step = "trigger" /\ results # <<>> /\ Last(results) = "drawn" => rounds = MaxRound

LostStaysLost ==
    \A i, j \in DOMAIN results : i < j /\ results[i] = "lost" => results[j] = "lost"

OutcomeIsEarned == MainFallEndsBattle /\ DrawIsFought /\ LostStaysLost
==============================================================================
