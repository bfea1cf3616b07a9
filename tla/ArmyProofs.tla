----------------------------- MODULE ArmyProofs ------------------------------
(***************************************************************************)
(* Proofs about Army and about War, the battles its orders end in.  They   *)
(* share one module because Army takes the results of the battles as it    *)
(* pleases (Results) and it is War that shows it may: BattlesEndAsSaid, at *)
(* the end, joins the two.                                                 *)
(*                                                                         *)
(* First the sums and lists both need, then War, then Army.  Functions     *)
(* that recur over a set (sums, and ArmyBack over a list) are reasoned     *)
(* about by the least size of a set for which a claim fails.               *)
(***************************************************************************)
EXTENDS Army, War, SequenceTheorems, FiniteSetTheorems, FunctionTheorems, WellFoundedInduction, TLAPS

-----------------------------------------------------------------------------
(* Sums over a finite set, for whose size one argues by the least number    *)
(* for which a claim fails.                                                 *)

LEMMA LeastNumber ==
    ASSUME NEW T \in SUBSET Nat, T # {}
    PROVE  \E n \in T : \A m \in T : n <= m
<1>1. PICK less : less = OpToRel(<, Nat)
  BY Zenon
<1>2. IsWellFoundedOn(less, Nat)
  BY <1>1, NatLessThanWellFounded, Zenon
<1>3. PICK n \in T : \A m \in T : <<m, n>> \notin less
  BY <1>2, WFMin
<1>4. \A m, k \in Nat : m < k => <<m, k>> \in less
  BY <1>1 DEF OpToRel
<1>5. \A m \in T : ~(m < n)
  BY <1>3, <1>4
<1>. QED  BY <1>5

Pick(s) == CHOOSE x \in s : TRUE

(* g adds up what f is on the subsets of S.                                 *)
Adding(g, f, S) ==
    g = [s \in SUBSET S |-> IF s = {} THEN 0 ELSE f[Pick(s)] + g[s \ {Pick(s)}]]

LEMMA Smaller ==
    ASSUME NEW S, IsFiniteSet(S), NEW s \in SUBSET S
    PROVE  /\ IsFiniteSet(s) /\ Cardinality(s) \in Nat
           /\ Cardinality(s) <= 0 => s = {}
           /\ s # {} => /\ Pick(s) \in s /\ s \ {Pick(s)} \in SUBSET S
                        /\ Cardinality(s \ {Pick(s)}) = Cardinality(s) - 1
                        /\ Cardinality(s \ {Pick(s)}) \in Nat
<1>1. IsFiniteSet(s) /\ Cardinality(s) \in Nat /\ (Cardinality(s) <= 0 => s = {})
  <2>1. IsFiniteSet(s) /\ Cardinality(s) \in Nat
    BY FS_Subset, FS_CardinalityType
  <2>. QED  BY <2>1, FS_EmptySet
<1>2. ASSUME s # {}
      PROVE  /\ Pick(s) \in s /\ s \ {Pick(s)} \in SUBSET S
             /\ Cardinality(s \ {Pick(s)}) = Cardinality(s) - 1
             /\ Cardinality(s \ {Pick(s)}) \in Nat
  <2>1. PICK x : x = Pick(s)
    OBVIOUS
  <2>2. x \in s
    BY <1>2, <2>1 DEF Pick
  <2>3. IsFiniteSet(s \ {x}) /\ Cardinality(s \ {x}) = Cardinality(s) - 1
    BY <1>1, <2>2, FS_RemoveElement
  <2>4. Cardinality(s \ {x}) \in Nat
    BY <2>3, FS_CardinalityType
  <2>. QED  BY <2>1, <2>2, <2>3, <2>4
<1>. QED  BY <1>1, <1>2

LEMMA AddingExists ==
    ASSUME NEW S, IsFiniteSet(S), NEW f
    PROVE  \E g : Adding(g, f, S)
<1>. DEFINE Body(g, s) == IF s = {} THEN 0 ELSE f[Pick(s)] + g[s \ {Pick(s)}]
            UpTo(n, g) == \A s \in SUBSET S : Cardinality(s) <= n => g[s] = Body(g, s)
            Fails == {n \in Nat : ~\E g : UpTo(n, g)}
<1>1. Fails = {}
  <2>1. SUFFICES ASSUME Fails # {} PROVE FALSE
    OBVIOUS
  <2>2. PICK n \in Fails : \A m \in Fails : n <= m
    <3>1. Fails \in SUBSET Nat
      OBVIOUS
    <3>. HIDE DEF Fails
    <3>. QED  BY <2>1, <3>1, LeastNumber
  <2>3. n \in Nat /\ ~\E g : UpTo(n, g)
    OBVIOUS
  <2>4. CASE n = 0
    <3>1. PICK g : g = [s \in SUBSET S |-> 0]
      OBVIOUS
    <3>2. UpTo(0, g)
      <4>1. ASSUME NEW s \in SUBSET S, Cardinality(s) <= 0 PROVE s = {}
        BY <4>1, Smaller
      <4>. QED  BY <3>1, <4>1
    <3>. QED  BY <2>3, <2>4, <3>2
  <2>5. CASE n # 0
    <3>1. n - 1 \in Nat /\ n - 1 \notin Fails
      <4>1. n - 1 \in Nat /\ ~(n <= n - 1)
        BY <2>3, <2>5
      <4>. HIDE DEF Fails
      <4>. QED  BY <2>2, <4>1
    <3>2. PICK g : UpTo(n - 1, g)
      BY <3>1
    <3>3. PICK h : h = [s \in SUBSET S |-> IF Cardinality(s) <= n - 1 THEN g[s] ELSE Body(g, s)]
      OBVIOUS
    <3>4. ASSUME NEW s \in SUBSET S, Cardinality(s) <= n PROVE h[s] = Body(h, s)
      <4>1. h[s] = Body(g, s)
        BY <3>2, <3>3
      <4>2. CASE s = {}
        BY <4>1, <4>2
      <4>3. CASE s # {}
        <5>1. h[s \ {Pick(s)}] = g[s \ {Pick(s)}]
          BY <2>3, <3>3, <3>4, <4>3, Smaller
        <5>. QED  BY <4>1, <4>3, <5>1
      <4>. QED  BY <4>2, <4>3
    <3>5. UpTo(n, h)
      BY <3>4
    <3>. QED  BY <2>3, <3>5
  <2>. QED  BY <2>4, <2>5
<1>2. Cardinality(S) \in Nat /\ Cardinality(S) \notin Fails
  BY <1>1, FS_CardinalityType
<1>3. PICK g : UpTo(Cardinality(S), g)
  BY <1>2
<1>4. PICK h : h = [s \in SUBSET S |-> g[s]]
  OBVIOUS
<1>5. ASSUME NEW s \in SUBSET S PROVE h[s] = Body(h, s)
  <2>1. Cardinality(s) <= Cardinality(S)
    BY FS_Subset
  <2>2. s # {} => h[s \ {Pick(s)}] = g[s \ {Pick(s)}]
    BY <1>4
  <2>. QED  BY <1>3, <1>4, <2>1, <2>2
<1>. QED  BY <1>4, <1>5 DEF Adding

(* h is f with d more at j.                                                 *)
OneMore(f, h, j, d, S) ==
    /\ j \in S /\ d \in Int
    /\ \A i \in S : f[i] \in Int /\ h[i] = IF i = j THEN f[i] + d ELSE f[i]

LEMMA SumChanges ==
    ASSUME NEW S, IsFiniteSet(S), NEW f, NEW h, NEW g, NEW k,
           Adding(g, f, S), Adding(k, h, S),
           NEW j, NEW d, OneMore(f, h, j, d, S)
    PROVE  g[S] \in Int /\ k[S] = g[S] + d
<1>. USE DEF OneMore
<1>. DEFINE Right(s) == g[s] \in Int /\ k[s] = IF j \in s THEN g[s] + d ELSE g[s]
            Fails == {n \in Nat : \E s \in SUBSET S : Cardinality(s) = n /\ ~Right(s)}
<1>1. Fails = {}
  <2>1. SUFFICES ASSUME Fails # {} PROVE FALSE
    OBVIOUS
  <2>2. PICK n \in Fails : \A m \in Fails : n <= m
    <3>1. Fails \in SUBSET Nat
      OBVIOUS
    <3>. HIDE DEF Fails
    <3>. QED  BY <2>1, <3>1, LeastNumber
  <2>3. PICK s \in SUBSET S : Cardinality(s) = n /\ ~Right(s)
    OBVIOUS
  <2>4. s # {}
    <3>1. SUFFICES ASSUME s = {} PROVE FALSE
      OBVIOUS
    <3>2. g[s] = 0 /\ k[s] = 0
      BY <3>1 DEF Adding
    <3>. QED  BY <2>3, <3>1, <3>2
  <2>5. PICK x : x = Pick(s)
    OBVIOUS
  <2>6. x \in s /\ x \in S
    BY <2>4, <2>5 DEF Pick
  <2>7. PICK r : r = s \ {x}
    OBVIOUS
  <2>8. g[s] = f[x] + g[r] /\ k[s] = h[x] + k[r]
    BY <2>4, <2>5, <2>7 DEF Adding
  <2>9. Right(r)
    <3>1. /\ r \in SUBSET S /\ Cardinality(r) \in Nat
          /\ Cardinality(r) < n
      BY <2>3, <2>4, <2>5, <2>7, Smaller
    <3>2. Cardinality(r) \notin Fails
      <4>1. PICK m : m = Cardinality(r)
        OBVIOUS
      <4>2. ~(n <= m)
        BY <3>1, <4>1
      <4>. HIDE DEF Fails
      <4>. QED  BY <2>2, <4>1, <4>2
    <3>. QED  BY <3>1, <3>2
  <2>10. CASE x = j
    <3>1. j \notin r /\ j \in s
      BY <2>6, <2>7, <2>10
    <3>2. h[x] = f[x] + d /\ f[x] \in Int
      BY <2>6, <2>10
    <3>. QED  BY <2>3, <2>8, <2>9, <3>1, <3>2
  <2>11. CASE x # j
    <3>1. j \in r <=> j \in s
      BY <2>7, <2>11
    <3>2. h[x] = f[x] /\ f[x] \in Int
      BY <2>6, <2>11
    <3>. QED  BY <2>3, <2>8, <2>9, <3>1, <3>2
  <2>. QED  BY <2>10, <2>11
<1>2. Cardinality(S) \in Nat /\ Cardinality(S) \notin Fails
  BY <1>1, FS_CardinalityType
<1>3. Right(S)
  BY <1>2
<1>. QED  BY <1>3

LEMMA SumOfZeros ==
    ASSUME NEW S, IsFiniteSet(S), NEW f, NEW g, Adding(g, f, S),
           \A i \in S : f[i] = 0
    PROVE  g[S] = 0
<1>. DEFINE Fails == {n \in Nat : \E s \in SUBSET S : Cardinality(s) = n /\ g[s] # 0}
<1>1. Fails = {}
  <2>1. SUFFICES ASSUME Fails # {} PROVE FALSE
    OBVIOUS
  <2>2. PICK n \in Fails : \A m \in Fails : n <= m
    <3>1. Fails \in SUBSET Nat
      OBVIOUS
    <3>. HIDE DEF Fails
    <3>. QED  BY <2>1, <3>1, LeastNumber
  <2>3. PICK s \in SUBSET S : Cardinality(s) = n /\ g[s] # 0
    OBVIOUS
  <2>4. s # {}
    BY <2>3 DEF Adding
  <2>5. PICK x : x = Pick(s)
    OBVIOUS
  <2>6. x \in s /\ x \in S
    BY <2>4, <2>5 DEF Pick
  <2>7. PICK r : r = s \ {x}
    OBVIOUS
  <2>8. g[s] = f[x] + g[r]
    BY <2>4, <2>5, <2>7 DEF Adding
  <2>9. g[r] = 0
    <3>1. r \in SUBSET S /\ Cardinality(r) \in Nat /\ Cardinality(r) < n
      BY <2>3, <2>4, <2>5, <2>7, Smaller
    <3>2. Cardinality(r) \notin Fails
      <4>1. PICK m : m = Cardinality(r)
        OBVIOUS
      <4>2. ~(n <= m)
        BY <3>1, <4>1
      <4>. HIDE DEF Fails
      <4>. QED  BY <2>2, <4>1, <4>2
    <3>. QED  BY <3>1, <3>2
  <2>. QED  BY <2>3, <2>6, <2>8, <2>9
<1>2. Cardinality(S) \in Nat /\ Cardinality(S) \notin Fails
  BY <1>1, FS_CardinalityType
<1>. QED  BY <1>2

-----------------------------------------------------------------------------
(* What War adds up: gains and losses at the positions of a camp.           *)

Total(f)  == (CHOOSE g : Adding(g, f, Positions))[Positions]
Rises(c)  == [i \in Positions |-> exp[c][i] - beg.exp[c][i]]
Falls(c)  == [i \in Positions |-> beg.men[c][i] - men[c][i]]

LEMMA PositionsAreFew == Positions \subseteq Nat /\ IsFiniteSet(Positions) /\ Main \in Positions
BY WarAssumption

LEMMA TotalAdds ==
    ASSUME NEW f
    PROVE  \E g : Adding(g, f, Positions) /\ Total(f) = g[Positions]
<1>1. \E g : Adding(g, f, Positions)
  BY PositionsAreFew, AddingExists
<1>2. Adding(CHOOSE g : Adding(g, f, Positions), f, Positions)
  BY <1>1
<1>. QED  BY <1>2 DEF Total

LEMMA TotalChanges ==
    ASSUME NEW f \in [Positions -> Int], NEW j \in Positions, NEW d \in Int
    PROVE  Total(f) \in Int /\ Total([f EXCEPT ![j] = @ + d]) = Total(f) + d
<1>1. PICK h : h = [f EXCEPT ![j] = @ + d]
  OBVIOUS
<1>2. PICK g : Adding(g, f, Positions) /\ Total(f) = g[Positions]
  BY TotalAdds
<1>3. PICK k : Adding(k, h, Positions) /\ Total(h) = k[Positions]
  BY TotalAdds
<1>4. \A i \in Positions : f[i] \in Int /\ h[i] = IF i = j THEN f[i] + d ELSE f[i]
  BY <1>1
<1>5. OneMore(f, h, j, d, Positions)
  BY <1>4 DEF OneMore
<1>6. IsFiniteSet(Positions)
  BY PositionsAreFew
<1>7. g[Positions] \in Int /\ k[Positions] = g[Positions] + d
  BY <1>2, <1>3, <1>5, <1>6, SumChanges
<1>. QED  BY <1>1, <1>2, <1>3, <1>7

LEMMA TotalOfNothing == Total([i \in Positions |-> 0]) = 0
<1>1. PICK f : f = [i \in Positions |-> 0]
  OBVIOUS
<1>2. PICK g : Adding(g, f, Positions) /\ Total(f) = g[Positions]
  BY TotalAdds
<1>3. \A i \in Positions : f[i] = 0
  BY <1>1
<1>4. IsFiniteSet(Positions)
  BY PositionsAreFew
<1>5. g[Positions] = 0
  BY <1>2, <1>3, <1>4, SumOfZeros
<1>. QED  BY <1>1, <1>2, <1>5

LEMMA SumsAreTotals ==
    \A c \in Camps : Gained(c) = Total(Rises(c)) /\ Losses(c) = Total(Falls(c))
<1>. SUFFICES ASSUME NEW c \in Camps
              PROVE  Gained(c) = Total(Rises(c)) /\ Losses(c) = Total(Falls(c))
  OBVIOUS
<1>1. \A s \in SUBSET Positions : s # {} => Pick(s) \in Positions
  BY DEF Pick
<1>2. Gained(c) = Total(Rises(c))
  <2>1. PICK f : f = Rises(c)
    OBVIOUS
  <2>. DEFINE Sums(g) ==
           g = [s \in SUBSET Positions |->
                   IF s = {} THEN 0
                   ELSE (exp[c][CHOOSE x \in s : TRUE] - beg.exp[c][CHOOSE x \in s : TRUE])
                        + g[s \ {CHOOSE x \in s : TRUE}]]
  <2>2. Gained(c) = (CHOOSE g : Sums(g))[Positions]
    BY DEF Gained, MapThenSumSet, MapThenFoldSet
  <2>3. ASSUME NEW g PROVE Sums(g) <=> Adding(g, f, Positions)
    <3>1. \A s \in SUBSET Positions :
              s # {} => exp[c][Pick(s)] - beg.exp[c][Pick(s)] = f[Pick(s)]
      BY <1>1, <2>1 DEF Rises
    <3>2. [s \in SUBSET Positions |->
              IF s = {} THEN 0 ELSE (exp[c][Pick(s)] - beg.exp[c][Pick(s)]) + g[s \ {Pick(s)}]]
          = [s \in SUBSET Positions |-> IF s = {} THEN 0 ELSE f[Pick(s)] + g[s \ {Pick(s)}]]
      BY <3>1
    <3>. QED  BY <3>2 DEF Adding, Pick
  <2>4. (CHOOSE g : Sums(g)) = (CHOOSE g : Adding(g, f, Positions))
    <3>. HIDE DEF Sums
    <3>. QED  BY <2>3
  <2>. QED  BY <2>1, <2>2, <2>4 DEF Total
<1>3. Losses(c) = Total(Falls(c))
  <2>1. PICK f : f = Falls(c)
    OBVIOUS
  <2>. DEFINE Sums(g) ==
           g = [s \in SUBSET Positions |->
                   IF s = {} THEN 0
                   ELSE (beg.men[c][CHOOSE x \in s : TRUE] - men[c][CHOOSE x \in s : TRUE])
                        + g[s \ {CHOOSE x \in s : TRUE}]]
  <2>2. Losses(c) = (CHOOSE g : Sums(g))[Positions]
    BY DEF Losses, MapThenSumSet, MapThenFoldSet
  <2>3. ASSUME NEW g PROVE Sums(g) <=> Adding(g, f, Positions)
    <3>1. \A s \in SUBSET Positions :
              s # {} => beg.men[c][Pick(s)] - men[c][Pick(s)] = f[Pick(s)]
      BY <1>1, <2>1 DEF Falls
    <3>2. [s \in SUBSET Positions |->
              IF s = {} THEN 0 ELSE (beg.men[c][Pick(s)] - men[c][Pick(s)]) + g[s \ {Pick(s)}]]
          = [s \in SUBSET Positions |-> IF s = {} THEN 0 ELSE f[Pick(s)] + g[s \ {Pick(s)}]]
      BY <3>1
    <3>. QED  BY <3>2 DEF Adding, Pick
  <2>4. (CHOOSE g : Sums(g)) = (CHOOSE g : Adding(g, f, Positions))
    <3>. HIDE DEF Sums
    <3>. QED  BY <2>3
  <2>. QED  BY <2>1, <2>2, <2>4 DEF Total
<1>. QED  BY <1>2, <1>3

LEMMA SumsAreTotalsNext ==
    \A c \in Camps : Gained(c)' = Total(Rises(c)') /\ Losses(c)' = Total(Falls(c)')
<1>1. (\A c \in Camps : Gained(c) = Total(Rises(c)) /\ Losses(c) = Total(Falls(c)))'
  BY SumsAreTotals, PTL
<1>. QED  BY <1>1

-----------------------------------------------------------------------------
(* The invariant.                                                           *)

(* Nobody fights at a position without a general.                           *)
NoGhosts == \A c \in Camps : \A i \in Positions \ gens[c] : men[c][i] = 0

(* Who fights whom, and that there are rounds left to do it in.             *)
Met ==
    /\ Fighting => foe \in Foes
    /\ step = "round" => striker \in {Attacker, foe}
    /\ step \in {"battle", "round"} => rounds < MaxRound

OverForAReason ==
    step = "fought" => rounds = MaxRound \/ men[Attacker][Main] = 0 \/ men[foe][Main] = 0

(* Men do not come back.                                                    *)
LostForGood == \A i \in DOMAIN results : results[i] = "lost" => men[Attacker][Main] = 0

WarInv ==
    /\ WarTypeOK /\ NoGhosts /\ Met /\ OverForAReason /\ LostForGood
    /\ ExperienceIsKills /\ OutcomeIsEarned

-----------------------------------------------------------------------------
(* The numbers of a battle.                                                 *)

LEMMA MinOfTwo ==
    ASSUME NEW a \in Nat, NEW b \in Nat
    PROVE  Min({a, b}) \in Nat /\ Min({a, b}) <= a /\ Min({a, b}) <= b
<1>1. \E x \in {a, b} : \A y \in {a, b} : x <= y
  <2>1. a <= b \/ b <= a
    OBVIOUS
  <2>. QED  BY <2>1
<1>2. Min({a, b}) \in {a, b} /\ \A y \in {a, b} : Min({a, b}) <= y
  BY <1>1 DEF Min
<1>. QED  BY <1>2

LEMMA MaxOfMany ==
    ASSUME NEW S \in SUBSET Nat, NEW n \in Nat, \A x \in S : x <= n, S # {}
    PROVE  Max(S) \in S
<1>1. PICK T : T = {m \in Nat : \A x \in S : x <= m}
  OBVIOUS
<1>2. PICK m \in T : \A k \in T : m <= k
  <2>1. T \in SUBSET Nat /\ n \in T
    BY <1>1
  <2>. QED  BY <2>1, LeastNumber
<1>3. m \in Nat /\ \A x \in S : x <= m
  BY <1>1, <1>2
<1>4. m \in S
  <2>1. SUFFICES ASSUME m \notin S PROVE FALSE
    OBVIOUS
  <2>2. \A x \in S : x \in Nat /\ x < m
    BY <1>3, <2>1
  <2>3. m # 0
    <3>1. PICK x : x \in S
      OBVIOUS
    <3>. QED  BY <1>3, <2>2, <3>1
  <2>4. m - 1 \in Nat /\ \A x \in S : x <= m - 1
    BY <1>3, <2>2, <2>3
  <2>5. m <= m - 1
    BY <1>1, <1>2, <2>4
  <2>. QED  BY <1>3, <2>5
<1>5. \E x \in S : \A y \in S : x >= y
  BY <1>3, <1>4
<1>. QED  BY <1>5 DEF Max

LEMMA LevelsAreNumbers ==
    ASSUME NEW e \in Nat
    PROVE  LevelFor(e) \in Nat /\ ExpToLevel(e) \in Nat
<1>1. Levels \in Seq(Nat) /\ Levels # <<>>
  BY WarAssumption
<1>2. Len(Levels) \in Nat /\ DOMAIN Levels = 1..Len(Levels) /\ Last(Levels) \in Nat
  BY <1>1 DEF Last
<1>3. PICK S : S = {0} \cup {l \in DOMAIN Levels : e >= Levels[l]}
  OBVIOUS
<1>4. Max(S) \in S
  <2>1. S \in SUBSET Nat /\ S # {} /\ \A x \in S : x <= Len(Levels)
    BY <1>2, <1>3
  <2>. QED  BY <1>2, <2>1, MaxOfMany
<1>5. LevelFor(e) \in Nat
  BY <1>2, <1>3, <1>4 DEF LevelFor
<1>. QED  BY <1>2, <1>5, MinOfTwo DEF ExpToLevel

LEMMA ProductOfNumbers == \A a, b \in Nat : a * b \in Nat
OBVIOUS

LEMMA QuotientOfNumbers == \A a \in Nat, b \in Nat \ {0} : a \div b \in Nat
OBVIOUS

LEMMA HarmIsNumber ==
    ASSUME WarTypeOK, NEW c \in Camps, NEW i \in Positions, NEW n \in Nat,
           NEW d \in Camps, NEW j \in Positions
    PROVE  Harm(c, i, n, d, j) \in Nat
<1>1. /\ BaseForce[c] \in Nat /\ BaseDefense[d] \in Nat /\ Growth \in Nat
      /\ HarmRatio[c][d] \in Nat /\ HarmUnit \in Nat \ {0}
  BY WarAssumption
<1>2. level[c][i] \in Nat /\ level[d][j] \in Nat
  BY DEF WarTypeOK
<1>3. PICK f \in Nat : f = ForceOf(c, i)
  <2>1. Growth * level[c][i] \in Nat
    BY <1>1, <1>2, ProductOfNumbers
  <2>. QED  BY <1>1, <2>1 DEF ForceOf
<1>4. PICK g \in Nat : g = DefenseOf(d, j)
  <2>1. Growth * level[d][j] \in Nat
    BY <1>1, <1>2, ProductOfNumbers
  <2>. QED  BY <1>1, <2>1 DEF DefenseOf
<1>5. CASE f < g
  <2>1. PICK x \in Nat : x = g - f
    BY <1>5
  <2>2. PICK y \in Nat : y = x * n
    BY ProductOfNumbers
  <2>3. PICK z \in Nat : z = y * HarmRatio[c][d]
    BY <1>1, ProductOfNumbers
  <2>4. PICK u \in Nat \ {0} : u = 10 * HarmUnit
    BY <1>1
  <2>5. z \div u \in Nat
    BY QuotientOfNumbers
  <2>6. Harm(c, i, n, d, j) = z \div u
    BY <1>3, <1>4, <1>5, <2>1, <2>2, <2>3, <2>4 DEF Harm
  <2>. QED  BY <2>5, <2>6
<1>6. CASE ~(f < g)
  <2>1. PICK x \in Nat : x = f - g
    BY <1>6
  <2>2. PICK y \in Nat : y = x * n
    BY ProductOfNumbers
  <2>3. PICK z \in Nat : z = y * HarmRatio[c][d]
    BY <1>1, ProductOfNumbers
  <2>4. PICK u \in Nat \ {0} : u = HarmUnit
    BY <1>1
  <2>5. z \div u \in Nat
    BY QuotientOfNumbers
  <2>6. Harm(c, i, n, d, j) = z \div u
    BY <1>3, <1>4, <1>6, <2>1, <2>2, <2>3, <2>4 DEF Harm
  <2>. QED  BY <2>5, <2>6
<1>. QED  BY <1>5, <1>6

LEMMA KillsAreMen ==
    ASSUME WarTypeOK, NEW c \in Camps, NEW i \in Positions, NEW n \in Nat,
           NEW d \in Camps, NEW j \in Positions
    PROVE  Kills(c, i, n, d, j) \in Nat /\ Kills(c, i, n, d, j) <= men[d][j]
<1>1. men[d][j] \in Nat
  BY WarAssumption DEF WarTypeOK
<1>2. Harm(c, i, n, d, j) \in Nat
  BY HarmIsNumber
<1>. QED  BY <1>1, <1>2, MinOfTwo DEF Kills

-----------------------------------------------------------------------------
(* A turn and a round.                                                      *)

GoesOn ==
    /\ turn' \in Positions /\ rounds' \in 0..MaxRound
    /\ step' \in {"battle", "round", "fought"}
    /\ step' # "fought" => rounds' < MaxRound

LEMMA RoundEnds ==
    ASSUME WarTypeOK, Met, step = "round", NEW b \in BOOLEAN, EndRound(b)
    PROVE  GoesOn /\ (b => step' = "fought") /\ (~b /\ step' = "fought" => rounds' = MaxRound)
<1>1. rounds \in Nat /\ rounds < MaxRound /\ MaxRound \in Nat /\ turn \in Positions
  BY WarAssumption DEF WarTypeOK, Met
<1>. QED  BY <1>1 DEF EndRound, GoesOn

LEMMA TurnPasses ==
    ASSUME WarTypeOK, Met, step = "round", NextTurn
    PROVE  GoesOn /\ (step' = "fought" => rounds' = MaxRound)
<1>1. CASE turn + 1 \in Positions
  <2>1. turn' = turn + 1 /\ rounds' = rounds /\ step' = "round"
    BY <1>1 DEF NextTurn
  <2>2. rounds \in 0..MaxRound /\ rounds < MaxRound
    BY DEF WarTypeOK, Met
  <2>. QED  BY <1>1, <2>1, <2>2 DEF GoesOn
<1>2. CASE turn + 1 \notin Positions
  BY <1>2, RoundEnds DEF NextTurn
<1>. QED  BY <1>1, <1>2

-----------------------------------------------------------------------------
(* The blow, with the two numbers it turns on.                              *)

Blow(d, j, kill, loss) ==
    /\ d \in Camps /\ striker \in Camps /\ d # striker
    /\ {striker, d} = {Attacker, foe} /\ Other(striker) = d /\ Other(d) = striker
    /\ j \in Positions /\ turn \in Positions
    /\ turn \in Standing(striker) /\ j \in Standing(d)
    /\ kill \in Nat /\ kill <= men[d][j] /\ loss \in Nat /\ loss <= men[striker][turn]
    /\ men' = [men EXCEPT ![d] = [men[d] EXCEPT ![j] = men[d][j] - kill],
                          ![striker] = [men[striker] EXCEPT ![turn] = men[striker][turn] - loss]]
    /\ exp' = [exp EXCEPT ![striker] = [exp[striker] EXCEPT ![turn] = exp[striker][turn] + 5 * kill],
                          ![d] = [exp[d] EXCEPT ![j] = exp[d][j] + 5 * loss]]
    /\ IF (j = Main /\ men[d][j] = kill) \/ (turn = Main /\ men[striker][turn] = loss)
       THEN EndRound(TRUE) ELSE NextTurn
    /\ UNCHANGED <<gens, level, enemies, foe, beg, striker, results>>

LEMMA Sides ==
    ASSUME WarTypeOK, Met, step = "round"
    PROVE  /\ foe \in Foes /\ foe # Attacker /\ striker \in {Attacker, foe}
           /\ Other(striker) \in Camps /\ striker \in Camps /\ Other(striker) # striker
           /\ {striker, Other(striker)} = {Attacker, foe}
           /\ Other(Other(striker)) = striker
           /\ turn \in Positions
<1>1. foe \in Foes /\ striker \in {Attacker, foe}
  BY DEF Met, Fighting
<1>2. foe # Attacker
  BY <1>1, WarAssumption
<1>. QED  BY <1>1, <1>2 DEF Other, Camps, WarTypeOK

LEMMA StrikeIsBlow ==
    ASSUME WarTypeOK, Met, NEW j \in Positions, Strike(j)
    PROVE  \E d, kill, loss : Blow(d, j, kill, loss)
<1>1. PICK d : d = Other(striker)
  OBVIOUS
<1>2. step = "round" /\ turn \in Standing(striker) /\ j \in Standing(d)
  BY <1>1 DEF Strike
<1>3. /\ d \in Camps /\ striker \in Camps /\ d # striker /\ turn \in Positions
      /\ {striker, d} = {Attacker, foe} /\ Other(striker) = d /\ Other(d) = striker
  BY <1>1, <1>2, Sides
<1>4. men[d][j] \in Nat /\ men[striker][turn] \in Nat
  BY <1>3, WarAssumption DEF WarTypeOK
<1>5. PICK kill : kill = Kills(striker, turn, men[striker][turn], d, j)
  OBVIOUS
<1>6. kill \in Nat /\ kill <= men[d][j]
  BY <1>3, <1>4, <1>5, KillsAreMen
<1>7. PICK left : left = men[d][j] - kill
  OBVIOUS
<1>8. left \in Nat
  BY <1>4, <1>6, <1>7
<1>9. PICK loss : loss = IF left = 0 THEN 0 ELSE Kills(d, j, left, striker, turn)
  OBVIOUS
<1>10. loss \in Nat /\ loss <= men[striker][turn]
  BY <1>3, <1>4, <1>8, <1>9, KillsAreMen
<1>11. /\ men' = [men EXCEPT ![d][j] = left, ![striker][turn] = @ - loss]
       /\ exp' = Learn(kill, loss, j)
       /\ IF MainFalls(kill, loss, j) THEN EndRound(TRUE) ELSE NextTurn
       /\ UNCHANGED <<gens, level, enemies, foe, beg, striker, results>>
  BY <1>1, <1>5, <1>7, <1>9, Zenon DEF Strike
<1>12. men' = [men EXCEPT ![d] = [men[d] EXCEPT ![j] = men[d][j] - kill],
                          ![striker] = [men[striker] EXCEPT ![turn] = men[striker][turn] - loss]]
  BY <1>3, <1>7, <1>11 DEF WarTypeOK
<1>13. exp' = [exp EXCEPT ![striker] = [exp[striker] EXCEPT ![turn] = exp[striker][turn] + 5 * kill],
                          ![d] = [exp[d] EXCEPT ![j] = exp[d][j] + 5 * loss]]
  BY <1>1, <1>3, <1>11 DEF WarTypeOK, Learn
<1>14. IF (j = Main /\ men[d][j] = kill) \/ (turn = Main /\ men[striker][turn] = loss)
       THEN EndRound(TRUE) ELSE NextTurn
  BY <1>1, <1>11 DEF MainFalls
<1>. QED  BY <1>2, <1>3, <1>6, <1>10, <1>11, <1>12, <1>13, <1>14 DEF Blow

(* What a blow does to the men and to the experience of each position.      *)
Blown(d, j, kill, loss) ==
    /\ men' \in [Camps -> [Positions -> 0..MaxSoldiers]]
    /\ exp' \in [Camps -> [Positions -> Nat]]
    /\ men'[d] = [men[d] EXCEPT ![j] = men[d][j] - kill]
    /\ men'[striker] = [men[striker] EXCEPT ![turn] = men[striker][turn] - loss]
    /\ exp'[d] = [exp[d] EXCEPT ![j] = exp[d][j] + 5 * loss]
    /\ exp'[striker] = [exp[striker] EXCEPT ![turn] = exp[striker][turn] + 5 * kill]
    /\ \A c \in Camps \ {d, striker} : men'[c] = men[c]

LEMMA BlowIs ==
    ASSUME WarTypeOK, NEW d, NEW j, NEW kill, NEW loss, Blow(d, j, kill, loss)
    PROVE  Blown(d, j, kill, loss)
<1>1. /\ d \in Camps /\ striker \in Camps /\ d # striker /\ j \in Positions /\ turn \in Positions
      /\ kill \in Nat /\ loss \in Nat
  BY DEF Blow
<1>2. /\ men' = [men EXCEPT ![d] = [men[d] EXCEPT ![j] = men[d][j] - kill],
                      ![striker] = [men[striker] EXCEPT ![turn] = men[striker][turn] - loss]]
      /\ exp' = [exp EXCEPT ![striker] = [exp[striker] EXCEPT ![turn] = exp[striker][turn] + 5 * kill],
                          ![d] = [exp[d] EXCEPT ![j] = exp[d][j] + 5 * loss]]
  BY DEF Blow
<1>3. /\ men \in [Camps -> [Positions -> 0..MaxSoldiers]]
      /\ exp \in [Camps -> [Positions -> Nat]]
  BY DEF WarTypeOK
<1>4. /\ men'[d] = [men[d] EXCEPT ![j] = men[d][j] - kill]
      /\ men'[striker] = [men[striker] EXCEPT ![turn] = men[striker][turn] - loss]
      /\ \A c \in Camps \ {d, striker} : men'[c] = men[c]
  BY <1>1, <1>2, <1>3
<1>5. /\ exp'[d] = [exp[d] EXCEPT ![j] = exp[d][j] + 5 * loss]
      /\ exp'[striker] = [exp[striker] EXCEPT ![turn] = exp[striker][turn] + 5 * kill]
  BY <1>1, <1>2, <1>3
<1>6. men[d][j] - kill \in 0..MaxSoldiers /\ men[striker][turn] - loss \in 0..MaxSoldiers
  <2>1. men[d][j] \in 0..MaxSoldiers /\ men[striker][turn] \in 0..MaxSoldiers
    BY <1>1, <1>3
  <2>2. kill <= men[d][j] /\ loss <= men[striker][turn] /\ MaxSoldiers \in Nat
    BY WarAssumption DEF Blow
  <2>. QED  BY <1>1, <2>1, <2>2
<1>7. exp[striker][turn] + 5 * kill \in Nat /\ exp[d][j] + 5 * loss \in Nat
  <2>1. exp[striker][turn] \in Nat /\ exp[d][j] \in Nat
    BY <1>1, <1>3
  <2>. QED  BY <1>1, <2>1
<1>8. men' \in [Camps -> [Positions -> 0..MaxSoldiers]]
  <2>1. /\ [men[d] EXCEPT ![j] = men[d][j] - kill] \in [Positions -> 0..MaxSoldiers]
        /\ [men[striker] EXCEPT ![turn] = men[striker][turn] - loss] \in [Positions -> 0..MaxSoldiers]
    BY <1>1, <1>3, <1>6
  <2>. QED  BY <1>1, <1>2, <1>3, <2>1
<1>9. exp' \in [Camps -> [Positions -> Nat]]
  <2>1. /\ [exp[striker] EXCEPT ![turn] = exp[striker][turn] + 5 * kill] \in [Positions -> Nat]
        /\ [exp[d] EXCEPT ![j] = exp[d][j] + 5 * loss] \in [Positions -> Nat]
    BY <1>1, <1>3, <1>7
  <2>. QED  BY <1>1, <1>2, <1>3, <2>1
<1>. QED  BY <1>4, <1>5, <1>8, <1>9 DEF Blown

LEMMA Blocks ==
    ASSUME WarTypeOK, NEW c \in Camps
    PROVE  /\ Rises(c) \in [Positions -> Int] /\ Falls(c) \in [Positions -> Int]
           /\ exp[c] \in [Positions -> Int] /\ beg.exp[c] \in [Positions -> Int]
           /\ men[c] \in [Positions -> Int] /\ beg.men[c] \in [Positions -> Int]
<1>1. \A i \in Positions : /\ exp[c][i] \in Int /\ beg.exp[c][i] \in Int
                           /\ men[c][i] \in Int /\ beg.men[c][i] \in Int
  BY DEF WarTypeOK
<1>2. /\ exp[c] \in [Positions -> Nat] /\ beg.exp[c] \in [Positions -> Nat]
      /\ men[c] \in [Positions -> 0..MaxSoldiers] /\ beg.men[c] \in [Positions -> 0..MaxSoldiers]
  BY DEF WarTypeOK
<1>. QED  BY <1>1, <1>2 DEF Rises, Falls

LEMMA StrikeBooks ==
    ASSUME WarTypeOK, ExperienceIsKills, Fighting,
           NEW d, NEW j, NEW kill, NEW loss, Blow(d, j, kill, loss)
    PROVE  \A c \in {Attacker, foe'} : Gained(c)' = 5 * Losses(Other(c))'
<1>1. /\ d \in Camps /\ striker \in Camps /\ d # striker /\ j \in Positions /\ turn \in Positions
      /\ {striker, d} = {Attacker, foe} /\ Other(striker) = d /\ Other(d) = striker
      /\ kill \in Nat /\ loss \in Nat
      /\ foe' = foe /\ striker' = striker /\ beg' = beg
  BY DEF Blow
<1>0. /\ men'[d] = [men[d] EXCEPT ![j] = men[d][j] - kill]
      /\ men'[striker] = [men[striker] EXCEPT ![turn] = men[striker][turn] - loss]
      /\ exp'[d] = [exp[d] EXCEPT ![j] = exp[d][j] + 5 * loss]
      /\ exp'[striker] = [exp[striker] EXCEPT ![turn] = exp[striker][turn] + 5 * kill]
  <2>1. Blown(d, j, kill, loss)
    BY BlowIs
  <2>. QED  BY <2>1 DEF Blown
<1>2. Other(striker)' = d /\ Other(d)' = striker
  BY <1>1 DEF Other
<1>3. Gained(striker) = 5 * Losses(d) /\ Gained(d) = 5 * Losses(striker)
  BY <1>1 DEF ExperienceIsKills
<1>4. Rises(striker)' = [Rises(striker) EXCEPT ![turn] = @ + 5 * kill]
  <2>1. exp'[striker] = [exp[striker] EXCEPT ![turn] = exp[striker][turn] + 5 * kill]
    BY <1>0
  <2>2. exp[striker] \in [Positions -> Int] /\ beg.exp[striker] \in [Positions -> Int] /\ 5 * kill \in Int
    BY <1>1, Blocks
  <2>3. PICK f : f = Rises(striker)
    OBVIOUS
  <2>4. f = [i \in Positions |-> exp[striker][i] - beg.exp[striker][i]]
    BY <2>3 DEF Rises
  <2>5. \A i \in Positions : exp'[striker][i] - beg.exp[striker][i] = IF i = turn THEN f[turn] + 5 * kill ELSE f[i]
    BY <1>1, <2>1, <2>2, <2>4
  <2>6. Rises(striker)' = [i \in Positions |-> exp'[striker][i] - beg.exp[striker][i]]
    BY <1>1 DEF Rises
  <2>7. Rises(striker)' = [f EXCEPT ![turn] = f[turn] + 5 * kill]
    BY <2>4, <2>5, <2>6
  <2>. QED  BY <2>3, <2>7
<1>5. Rises(d)' = [Rises(d) EXCEPT ![j] = @ + 5 * loss]
  <2>1. exp'[d] = [exp[d] EXCEPT ![j] = exp[d][j] + 5 * loss]
    BY <1>0
  <2>2. exp[d] \in [Positions -> Int] /\ beg.exp[d] \in [Positions -> Int] /\ 5 * loss \in Int
    BY <1>1, Blocks
  <2>3. PICK f : f = Rises(d)
    OBVIOUS
  <2>4. f = [i \in Positions |-> exp[d][i] - beg.exp[d][i]]
    BY <2>3 DEF Rises
  <2>5. \A i \in Positions : exp'[d][i] - beg.exp[d][i] = IF i = j THEN f[j] + 5 * loss ELSE f[i]
    BY <1>1, <2>1, <2>2, <2>4
  <2>6. Rises(d)' = [i \in Positions |-> exp'[d][i] - beg.exp[d][i]]
    BY <1>1 DEF Rises
  <2>7. Rises(d)' = [f EXCEPT ![j] = f[j] + 5 * loss]
    BY <2>4, <2>5, <2>6
  <2>. QED  BY <2>3, <2>7
<1>6. Falls(d)' = [Falls(d) EXCEPT ![j] = @ + kill]
  <2>1. men'[d] = [men[d] EXCEPT ![j] = men[d][j] - kill]
    BY <1>0
  <2>2. men[d] \in [Positions -> Int] /\ beg.men[d] \in [Positions -> Int] /\ kill \in Int
    BY <1>1, Blocks
  <2>3. PICK f : f = Falls(d)
    OBVIOUS
  <2>4. f = [i \in Positions |-> beg.men[d][i] - men[d][i]]
    BY <2>3 DEF Falls
  <2>5. \A i \in Positions : beg.men[d][i] - men'[d][i] = IF i = j THEN f[j] + kill ELSE f[i]
    BY <1>1, <2>1, <2>2, <2>4
  <2>6. Falls(d)' = [i \in Positions |-> beg.men[d][i] - men'[d][i]]
    BY <1>1 DEF Falls
  <2>7. Falls(d)' = [f EXCEPT ![j] = f[j] + kill]
    BY <2>4, <2>5, <2>6
  <2>. QED  BY <2>3, <2>7
<1>7. Falls(striker)' = [Falls(striker) EXCEPT ![turn] = @ + loss]
  <2>1. men'[striker] = [men[striker] EXCEPT ![turn] = men[striker][turn] - loss]
    BY <1>0
  <2>2. men[striker] \in [Positions -> Int] /\ beg.men[striker] \in [Positions -> Int] /\ loss \in Int
    BY <1>1, Blocks
  <2>3. PICK f : f = Falls(striker)
    OBVIOUS
  <2>4. f = [i \in Positions |-> beg.men[striker][i] - men[striker][i]]
    BY <2>3 DEF Falls
  <2>5. \A i \in Positions : beg.men[striker][i] - men'[striker][i] = IF i = turn THEN f[turn] + loss ELSE f[i]
    BY <1>1, <2>1, <2>2, <2>4
  <2>6. Falls(striker)' = [i \in Positions |-> beg.men[striker][i] - men'[striker][i]]
    BY <1>1 DEF Falls
  <2>7. Falls(striker)' = [f EXCEPT ![turn] = f[turn] + loss]
    BY <2>4, <2>5, <2>6
  <2>. QED  BY <2>3, <2>7
<1>8. /\ Gained(striker)' = Gained(striker) + 5 * kill /\ Gained(striker) \in Int
      /\ Gained(d)' = Gained(d) + 5 * loss /\ Gained(d) \in Int
  <2>1. 5 * kill \in Int /\ 5 * loss \in Int
    BY <1>1
  <2>2. Rises(striker) \in [Positions -> Int] /\ Rises(d) \in [Positions -> Int]
    BY <1>1, Blocks
  <2>3. Total([Rises(striker) EXCEPT ![turn] = @ + 5 * kill]) = Total(Rises(striker)) + 5 * kill
        /\ Total(Rises(striker)) \in Int
    BY <1>1, <2>1, <2>2, TotalChanges
  <2>4. Total([Rises(d) EXCEPT ![j] = @ + 5 * loss]) = Total(Rises(d)) + 5 * loss
        /\ Total(Rises(d)) \in Int
    BY <1>1, <2>1, <2>2, TotalChanges
  <2>. QED  BY <1>1, <1>4, <1>5, <2>3, <2>4, SumsAreTotals, SumsAreTotalsNext
<1>9. /\ Losses(striker)' = Losses(striker) + loss /\ Losses(striker) \in Int
      /\ Losses(d)' = Losses(d) + kill /\ Losses(d) \in Int
  <2>1. kill \in Int /\ loss \in Int
    BY <1>1
  <2>2. Falls(striker) \in [Positions -> Int] /\ Falls(d) \in [Positions -> Int]
    BY <1>1, Blocks
  <2>3. Total([Falls(striker) EXCEPT ![turn] = @ + loss]) = Total(Falls(striker)) + loss
        /\ Total(Falls(striker)) \in Int
    BY <1>1, <2>1, <2>2, TotalChanges
  <2>4. Total([Falls(d) EXCEPT ![j] = @ + kill]) = Total(Falls(d)) + kill
        /\ Total(Falls(d)) \in Int
    BY <1>1, <2>1, <2>2, TotalChanges
  <2>. QED  BY <1>1, <1>6, <1>7, <2>3, <2>4, SumsAreTotals, SumsAreTotalsNext
<1>10. Gained(striker)' = 5 * Losses(d)' /\ Gained(d)' = 5 * Losses(striker)'
  BY <1>1, <1>3, <1>8, <1>9
<1>. QED  BY <1>1, <1>2, <1>10

-----------------------------------------------------------------------------
(* Each step keeps the invariant.                                           *)

(* The main general of the side that is hit, or of the one that strikes,    *)
(* has lost its last men.                                                   *)
Falls0(d, j, kill, loss) ==
    (j = Main /\ men[d][j] = kill) \/ (turn = Main /\ men[striker][turn] = loss)

LEMMA BlowEnds ==
    ASSUME WarTypeOK, Met, step = "round",
           NEW d, NEW j, NEW kill, NEW loss, Blow(d, j, kill, loss)
    PROVE  /\ GoesOn
           /\ Falls0(d, j, kill, loss) => step' = "fought"
           /\ ~Falls0(d, j, kill, loss) /\ step' = "fought" => rounds' = MaxRound
<1>1. CASE Falls0(d, j, kill, loss)
  <2>1. EndRound(TRUE)
    BY <1>1 DEF Blow, Falls0
  <2>. QED  BY <1>1, <2>1, RoundEnds
<1>2. CASE ~Falls0(d, j, kill, loss)
  <2>1. NextTurn
    BY <1>2 DEF Blow, Falls0
  <2>. QED  BY <1>2, <2>1, TurnPasses
<1>. QED  BY <1>1, <1>2

LEMMA StrikeKeepsInv ==
    ASSUME WarInv, NEW j0 \in Positions, Strike(j0)
    PROVE  WarInv'
<1>. USE DEF WarInv
<1>1. step = "round" /\ Fighting
  BY DEF Strike, Fighting
<1>2. PICK d, j, kill, loss : Blow(d, j, kill, loss)
  BY StrikeIsBlow
<1>3. /\ d \in Camps /\ striker \in Camps /\ d # striker /\ j \in Positions /\ turn \in Positions
      /\ {striker, d} = {Attacker, foe}
      /\ turn \in gens[striker] /\ men[striker][turn] # 0
      /\ j \in gens[d] /\ men[d][j] # 0
      /\ kill \in Nat /\ loss \in Nat
      /\ UNCHANGED <<gens, level, enemies, foe, beg, striker, results>>
  BY <1>2 DEF Blow, Standing
<1>4. Blown(d, j, kill, loss)
  BY <1>2, BlowIs
<1>5. /\ GoesOn
      /\ Falls0(d, j, kill, loss) => step' = "fought"
      /\ ~Falls0(d, j, kill, loss) /\ step' = "fought" => rounds' = MaxRound
  BY <1>1, <1>2, BlowEnds
<1>6. \A c \in Camps, i \in Positions :
          /\ men[c][i] \in Nat
          /\ men'[c][i] = IF c = d /\ i = j THEN men[c][i] - kill
                          ELSE IF c = striker /\ i = turn THEN men[c][i] - loss
                          ELSE men[c][i]
  <2>1. men \in [Camps -> [Positions -> 0..MaxSoldiers]]
    BY DEF WarTypeOK
  <2>2. SUFFICES ASSUME NEW c \in Camps, NEW i \in Positions
                 PROVE  /\ men[c][i] \in Nat
                        /\ men'[c][i] = IF c = d /\ i = j THEN men[c][i] - kill
                                        ELSE IF c = striker /\ i = turn THEN men[c][i] - loss
                                        ELSE men[c][i]
    OBVIOUS
  <2>3. men[c] \in [Positions -> 0..MaxSoldiers] /\ men[c][i] \in 0..MaxSoldiers
    BY <2>1
  <2>4. MaxSoldiers \in Nat
    BY WarAssumption
  <2>5. CASE c = d
    BY <1>3, <1>4, <2>3, <2>4, <2>5 DEF Blown
  <2>6. CASE c = striker
    BY <1>3, <1>4, <2>3, <2>4, <2>6 DEF Blown
  <2>7. CASE c \notin {d, striker}
    BY <1>3, <1>4, <2>3, <2>4, <2>7 DEF Blown
  <2>. QED  BY <2>5, <2>6, <2>7
<1>7. WarTypeOK'
  <2>1. /\ men' \in [Camps -> [Positions -> 0..MaxSoldiers]]
        /\ exp' \in [Camps -> [Positions -> Nat]]
    BY <1>4 DEF Blown
  <2>2. /\ turn' \in Positions /\ rounds' \in 0..MaxRound
        /\ step' \in {"battle", "round", "fought"}
    BY <1>5 DEF GoesOn
  <2>. QED  BY <1>3, <2>1, <2>2 DEF WarTypeOK
<1>8. NoGhosts'
  <2>1. SUFFICES ASSUME NEW c \in Camps, NEW i \in Positions \ gens[c] PROVE men'[c][i] = 0
    BY <1>3 DEF NoGhosts
  <2>2. men[c][i] = 0
    BY DEF NoGhosts
  <2>. QED  BY <1>3, <1>6, <2>2
<1>9. Met'
  BY <1>1, <1>3, <1>5 DEF Met, GoesOn, Fighting
<1>. Main \in Positions
  BY PositionsAreFew
<1>10. OverForAReason'
  <2>1. SUFFICES ASSUME step' = "fought", Falls0(d, j, kill, loss)
                 PROVE  men'[Attacker][Main] = 0 \/ men'[foe][Main] = 0
    BY <1>3, <1>5 DEF OverForAReason
  <2>2. CASE j = Main /\ men[d][j] = kill
    BY <1>3, <1>6, <2>2
  <2>3. CASE turn = Main /\ men[striker][turn] = loss
    BY <1>3, <1>6, <2>3
  <2>. QED  BY <2>1, <2>2, <2>3 DEF Falls0
<1>11. LostForGood'
  <2>1. men[Attacker][Main] = 0 => men'[Attacker][Main] = 0
    <3>1. Attacker \in Camps
      BY DEF Camps
    <3>. QED  BY <1>3, <1>6, <3>1
  <2>. QED  BY <1>3, <2>1 DEF LostForGood
<1>12. ExperienceIsKills'
  <2>1. \A c \in {Attacker, foe'} : Gained(c)' = 5 * Losses(Other(c))'
    BY <1>1, <1>2, StrikeBooks
  <2>. QED  BY <2>1 DEF ExperienceIsKills
<1>13. MainFallEndsBattle'
  <2>1. SUFFICES ASSUME step' \in {"battle", "round"}, NEW c \in {Attacker, foe},
                        Main \in gens[c] /\ beg.men[c][Main] # 0
                 PROVE  men'[c][Main] # 0
    BY <1>3 DEF MainFallEndsBattle
  <2>2. ~Falls0(d, j, kill, loss)
    BY <1>5, <2>1
  <2>3. men[c][Main] # 0
    BY <1>1, <2>1 DEF OutcomeIsEarned, MainFallEndsBattle
  <2>. QED  BY <1>3, <1>6, <2>2, <2>3 DEF Falls0
<1>14. DrawIsFought' /\ LostStaysLost'
  <2>1. step' # "trigger" /\ results' = results
    BY <1>3, <1>5 DEF GoesOn
  <2>. QED  BY <2>1 DEF DrawIsFought, LostStaysLost, OutcomeIsEarned
<1>. QED  BY <1>7, <1>8, <1>9, <1>10, <1>11, <1>12, <1>13, <1>14 DEF OutcomeIsEarned

LEMMA SumsStay ==
    ASSUME UNCHANGED <<exp, men, beg>>, NEW c \in Camps
    PROVE  Gained(c)' = Gained(c) /\ Losses(c)' = Losses(c)
<1>1. Rises(c)' = Rises(c) /\ Falls(c)' = Falls(c)
  BY DEF Rises, Falls
<1>. QED  BY <1>1, SumsAreTotals, SumsAreTotalsNext

LEMMA BooksStay ==
    ASSUME WarTypeOK, Met, ExperienceIsKills, Fighting, UNCHANGED <<exp, men, beg, foe>>
    PROVE  ExperienceIsKills'
<1>1. \A c \in {Attacker, foe} : c \in Camps /\ Other(c) \in Camps /\ Other(c)' = Other(c)
  BY DEF Other, Camps, Met, WarTypeOK
<1>2. \A c \in {Attacker, foe} : Gained(c)' = 5 * Losses(Other(c))'
  <2>1. SUFFICES ASSUME NEW c \in {Attacker, foe} PROVE Gained(c)' = 5 * Losses(Other(c))'
    OBVIOUS
  <2>2. PICK o : o = Other(c)
    OBVIOUS
  <2>3. Gained(c)' = Gained(c) /\ Losses(o)' = Losses(o)
    BY <1>1, <2>2, SumsStay
  <2>4. Gained(c) = 5 * Losses(o)
    BY <2>2 DEF ExperienceIsKills
  <2>5. Losses(Other(c))' = Losses(o)'
    BY <1>1, <2>2
  <2>. QED  BY <2>3, <2>4, <2>5
<1>. QED  BY <1>2 DEF ExperienceIsKills

LEMMA EngageKeepsInv == WarInv /\ Engage => WarInv'
<1>. SUFFICES ASSUME WarInv, Engage PROVE WarInv'
  OBVIOUS
<1>. USE DEF WarInv
<1>1. /\ enemies # <<>> /\ foe' = Head(enemies) /\ enemies' = Tail(enemies)
      /\ beg' = [men |-> men, exp |-> exp] /\ rounds' = 0 /\ step' = "battle"
      /\ UNCHANGED <<gens, men, exp, level, striker, turn, results>>
  BY DEF Engage
<1>2. foe' \in Foes /\ foe' \in Camps /\ enemies' \in Seq(Foes)
  BY <1>1 DEF WarTypeOK, Camps
<1>3. MaxRound \in Nat \ {0}
  BY WarAssumption
<1>4. WarTypeOK'
  BY <1>1, <1>2, <1>3 DEF WarTypeOK
<1>5. NoGhosts' /\ LostForGood'
  BY <1>1 DEF NoGhosts, LostForGood
<1>6. Met' /\ OverForAReason'
  BY <1>1, <1>2, <1>3 DEF Met, OverForAReason
<1>7. ExperienceIsKills'
  <2>1. \A c \in Camps : Gained(c)' = 0 /\ Losses(c)' = 0
    <3>1. SUFFICES ASSUME NEW c \in Camps PROVE Gained(c)' = 0 /\ Losses(c)' = 0
      OBVIOUS
    <3>2. \A i \in Positions : exp[c][i] - exp[c][i] = 0 /\ men[c][i] - men[c][i] = 0
      BY Blocks
    <3>3. Rises(c)' = [i \in Positions |-> 0] /\ Falls(c)' = [i \in Positions |-> 0]
      BY <1>1, <3>2 DEF Rises, Falls
    <3>. QED  BY <3>3, SumsAreTotalsNext, TotalOfNothing
  <2>2. \A c \in {Attacker, foe'} : c \in Camps /\ Other(c)' \in Camps
    BY <1>2 DEF Other, Camps
  <2>3. \A c \in {Attacker, foe'} : Gained(c)' = 5 * Losses(Other(c))'
    <3>1. SUFFICES ASSUME NEW c \in {Attacker, foe'} PROVE Gained(c)' = 5 * Losses(Other(c))'
      OBVIOUS
    <3>2. PICK o : o = Other(c)'
      OBVIOUS
    <3>3. Gained(c)' = 0 /\ Losses(o)' = 0
      BY <2>1, <2>2, <3>2
    <3>4. Losses(Other(c))' = Losses(o)'
      BY <3>2
    <3>. QED  BY <3>3, <3>4
  <2>. QED  BY <2>3 DEF ExperienceIsKills
<1>8. OutcomeIsEarned'
  <2>1. MainFallEndsBattle'
    BY <1>1 DEF MainFallEndsBattle
  <2>2. DrawIsFought' /\ LostStaysLost'
    BY <1>1 DEF DrawIsFought, LostStaysLost, OutcomeIsEarned
  <2>. QED  BY <2>1, <2>2 DEF OutcomeIsEarned
<1>. QED  BY <1>4, <1>5, <1>6, <1>7, <1>8

LEMMA BeginRoundKeepsInv ==
    ASSUME WarInv, NEW c \in Camps, BeginRound(c)
    PROVE  WarInv'
<1>. USE DEF WarInv
<1>1. /\ step = "battle" /\ c \in {Attacker, foe} /\ striker' = c /\ turn' = 0 /\ step' = "round"
      /\ UNCHANGED <<gens, men, exp, level, enemies, foe, beg, rounds, results>>
  BY DEF BeginRound
<1>2. WarTypeOK'
  <2>1. turn' \in Positions
    BY <1>1, PositionsAreFew DEF Main
  <2>. QED  BY <1>1, <2>1 DEF WarTypeOK
<1>3. NoGhosts' /\ LostForGood' /\ Met' /\ OverForAReason'
  BY <1>1 DEF NoGhosts, LostForGood, Met, OverForAReason, Fighting
<1>4. ExperienceIsKills'
  BY <1>1, BooksStay DEF Fighting
<1>5. OutcomeIsEarned'
  BY <1>1 DEF OutcomeIsEarned, MainFallEndsBattle, DrawIsFought, LostStaysLost
<1>. QED  BY <1>2, <1>3, <1>4, <1>5

(* A turn nobody takes, and a round that ends because there is nobody left  *)
(* to hit.                                                                  *)
LEMMA IdleTurnKeepsInv ==
    ASSUME WarInv, step = "round", GoesOn,
           step' = "fought" =>
               rounds' = MaxRound \/ men[Attacker][Main] = 0 \/ men[foe][Main] = 0,
           UNCHANGED <<gens, men, exp, level, enemies, foe, beg, striker, results>>
    PROVE  WarInv'
<1>. USE DEF WarInv
<1>1. WarTypeOK'
  BY DEF WarTypeOK, GoesOn
<1>2. NoGhosts' /\ LostForGood'
  BY DEF NoGhosts, LostForGood
<1>3. Met' /\ OverForAReason'
  BY DEF Met, OverForAReason, Fighting, GoesOn
<1>4. ExperienceIsKills'
  BY BooksStay DEF Fighting
<1>5. OutcomeIsEarned'
  BY DEF OutcomeIsEarned, MainFallEndsBattle, DrawIsFought, LostStaysLost, GoesOn
<1>. QED  BY <1>1, <1>2, <1>3, <1>4, <1>5

LEMMA IdleTurnsKeepInv == WarInv /\ (SkipTurn \/ NobodyToHit) => WarInv'
<1>1. ASSUME WarInv, SkipTurn PROVE WarInv'
  <2>1. step = "round" /\ NextTurn
        /\ UNCHANGED <<gens, men, exp, level, enemies, foe, beg, striker, results>>
    BY <1>1 DEF SkipTurn
  <2>2. GoesOn /\ (step' = "fought" => rounds' = MaxRound)
    BY <1>1, <2>1, TurnPasses DEF WarInv
  <2>. QED  BY <1>1, <2>1, <2>2, IdleTurnKeepsInv
<1>2. ASSUME WarInv, NobodyToHit PROVE WarInv'
  <2>1. step = "round" /\ EndRound(TRUE) /\ Standing(Other(striker)) = {}
        /\ UNCHANGED <<gens, men, exp, level, enemies, foe, beg, striker, results>>
    BY <1>2 DEF NobodyToHit
  <2>2. GoesOn
    BY <1>2, <2>1, RoundEnds DEF WarInv
  <2>3. PICK d : d = Other(striker)
    OBVIOUS
  <2>4. d \in Camps /\ d \in {Attacker, foe}
    BY <1>2, <2>1, <2>3, Sides DEF WarInv
  <2>5. men[d][Main] = 0
    <3>1. Main \in gens[d] => men[d][Main] = 0
      BY <2>1, <2>3 DEF Standing
    <3>2. Main \notin gens[d] => men[d][Main] = 0
      BY <1>2, <2>4, PositionsAreFew DEF WarInv, NoGhosts
    <3>. QED  BY <3>1, <3>2
  <2>. QED  BY <1>2, <2>1, <2>2, <2>4, <2>5, IdleTurnKeepsInv
<1>. QED  BY <1>1, <1>2

LEMMA ReportKeepsInv == WarInv /\ Report => WarInv'
<1>. SUFFICES ASSUME WarInv, Report PROVE WarInv'
  OBVIOUS
<1>. USE DEF WarInv
<1>1. /\ step = "fought" /\ step' = "trigger" /\ results' = Append(results, Result)
      /\ level' = [c \in Camps |-> [i \in Positions |->
             IF c \in {Attacker, foe} /\ i \in gens[c] THEN LevelFor(exp[c][i]) ELSE level[c][i]]]
      /\ exp' = [c \in Camps |-> [i \in Positions |->
             IF c \in {Attacker, foe} /\ i \in gens[c] THEN ExpToLevel(exp[c][i]) ELSE exp[c][i]]]
      /\ UNCHANGED <<gens, men, enemies, foe, beg, striker, turn, rounds>>
  BY DEF Report
<1>2. Result \in Outcomes
  BY DEF Result, Outcomes
<1>3. /\ results \in Seq(Outcomes) /\ results' \in Seq(Outcomes)
      /\ Len(results') = Len(results) + 1 /\ results'[Len(results')] = Result
      /\ \A i \in 1..Len(results) : results'[i] = results[i]
  BY <1>1, <1>2 DEF WarTypeOK
<1>4. DOMAIN results' = 1..Len(results') /\ DOMAIN results = 1..Len(results) /\ Len(results) \in Nat
  BY <1>3
<1>5. WarTypeOK'
  <2>1. \A c \in Camps, i \in Positions : exp[c][i] \in Nat /\ level[c][i] \in Nat
    BY DEF WarTypeOK
  <2>2. \A c \in Camps, i \in Positions : LevelFor(exp[c][i]) \in Nat /\ ExpToLevel(exp[c][i]) \in Nat
    BY <2>1, LevelsAreNumbers
  <2>3. level' \in [Camps -> [Positions -> Nat]]
    BY <1>1, <2>1, <2>2
  <2>4. exp' \in [Camps -> [Positions -> Nat]]
    BY <1>1, <2>1, <2>2
  <2>. QED  BY <1>1, <1>3, <2>3, <2>4 DEF WarTypeOK
<1>6. NoGhosts' /\ Met' /\ OverForAReason'
  BY <1>1 DEF NoGhosts, Met, OverForAReason, Fighting
<1>7. LostForGood'
  <2>1. Result = "lost" => men[Attacker][Main] = 0
    BY DEF Result
  <2>2. SUFFICES ASSUME NEW i \in DOMAIN results', results'[i] = "lost"
                 PROVE  men[Attacker][Main] = 0
    BY <1>1 DEF LostForGood
  <2>3. CASE i \in DOMAIN results
    BY <1>3, <1>4, <2>2, <2>3 DEF LostForGood
  <2>4. CASE i \notin DOMAIN results
    <3>1. i = Len(results')
      BY <1>3, <1>4, <2>2, <2>4
    <3>. QED  BY <1>3, <2>1, <2>2, <3>1
  <2>. QED  BY <2>3, <2>4
<1>8. ExperienceIsKills' /\ MainFallEndsBattle'
  BY <1>1 DEF ExperienceIsKills, MainFallEndsBattle, Fighting
<1>9. DrawIsFought'
  <2>1. Last(results') = Result
    BY <1>3 DEF Last
  <2>2. Result = "drawn" => men[Attacker][Main] # 0 /\ men[foe][Main] # 0
    BY DEF Result
  <2>. QED  BY <1>1, <2>1, <2>2 DEF DrawIsFought, OverForAReason
<1>10. LostStaysLost'
  <2>1. SUFFICES ASSUME NEW i \in DOMAIN results', NEW j \in DOMAIN results', i < j,
                        results'[i] = "lost"
                 PROVE  results'[j] = "lost"
    BY DEF LostStaysLost
  <2>2. i \in DOMAIN results /\ results[i] = "lost"
    BY <1>3, <1>4, <2>1
  <2>3. CASE j \in DOMAIN results
    BY <1>3, <1>4, <2>1, <2>2, <2>3 DEF OutcomeIsEarned, LostStaysLost
  <2>4. CASE j \notin DOMAIN results
    <3>1. j = Len(results')
      BY <1>3, <1>4, <2>1, <2>4
    <3>2. Result = "lost"
      BY <2>2 DEF Result, LostForGood
    <3>. QED  BY <1>3, <3>1, <3>2
  <2>. QED  BY <2>3, <2>4
<1>. QED  BY <1>5, <1>6, <1>7, <1>8, <1>9, <1>10 DEF OutcomeIsEarned

(* The attack, and with it the process where the code reads what is not     *)
(* there, is over.                                                          *)
LEMMA EndsKeepInv == WarInv /\ (NoMainGeneral \/ EndAttack) => WarInv'
<1>. SUFFICES ASSUME WarInv, NoMainGeneral \/ EndAttack PROVE WarInv'
  OBVIOUS
<1>. USE DEF WarInv
<1>1. /\ step' \in {"over", "panic"}
      /\ UNCHANGED <<gens, men, exp, level, enemies, foe, beg, striker, turn, rounds, results>>
  BY DEF NoMainGeneral, EndAttack
<1>2. WarTypeOK'
  BY <1>1 DEF WarTypeOK
<1>3. NoGhosts' /\ Met' /\ OverForAReason' /\ LostForGood'
  BY <1>1 DEF NoGhosts, Met, OverForAReason, LostForGood, Fighting
<1>4. ExperienceIsKills'
  BY <1>1 DEF ExperienceIsKills, Fighting
<1>5. OutcomeIsEarned'
  BY <1>1 DEF OutcomeIsEarned, MainFallEndsBattle, DrawIsFought, LostStaysLost
<1>. QED  BY <1>2, <1>3, <1>4, <1>5

LEMMA WarInvAtInit == WarInit => WarInv
<1>. SUFFICES ASSUME WarInit PROVE WarInv
  OBVIOUS
<1>. USE DEF WarInit
<1>1. WarTypeOK
  <2>1. LevelFor(0) \in Nat
    BY LevelsAreNumbers
  <2>2. exp \in [Camps -> [Positions -> Nat]] /\ level \in [Camps -> [Positions -> Nat]]
    BY <2>1
  <2>3. enemies \in Seq(Foes) /\ MaxRound \in Nat /\ 0 \in Positions
    BY WarAssumption, PositionsAreFew DEF Main
  <2>4. foe \in Camps /\ striker \in Camps /\ turn \in Positions /\ rounds \in 0..MaxRound
    BY <2>3 DEF Camps
  <2>5. beg \in [men : [Camps -> [Positions -> 0..MaxSoldiers]], exp : [Camps -> [Positions -> Nat]]]
    BY <2>2
  <2>6. results \in Seq(Outcomes)
    OBVIOUS
  <2>. QED  BY <2>2, <2>3, <2>4, <2>5, <2>6 DEF WarTypeOK
<1>2. NoGhosts /\ Met /\ OverForAReason /\ LostForGood
  BY DEF NoGhosts, Met, OverForAReason, LostForGood, Fighting
<1>3. ExperienceIsKills /\ OutcomeIsEarned
  BY DEF ExperienceIsKills, Fighting, OutcomeIsEarned, MainFallEndsBattle, DrawIsFought, LostStaysLost
<1>. QED  BY <1>1, <1>2, <1>3 DEF WarInv

LEMMA WarInvIsInductive == WarInv /\ [WarNext]_warVars => WarInv'
<1>. SUFFICES ASSUME WarInv, [WarNext]_warVars PROVE WarInv'
  OBVIOUS
<1>1. CASE Engage
  BY <1>1, EngageKeepsInv
<1>2. CASE Report
  BY <1>2, ReportKeepsInv
<1>3. CASE NoMainGeneral \/ EndAttack
  BY <1>3, EndsKeepInv
<1>4. CASE \E c \in Camps : BeginRound(c)
  BY <1>4, BeginRoundKeepsInv
<1>5. CASE SkipTurn \/ NobodyToHit
  BY <1>5, IdleTurnsKeepInv
<1>6. CASE \E j \in Positions : Strike(j)
  BY <1>6, StrikeKeepsInv
<1>7. CASE UNCHANGED warVars
  <2>1. WarTypeOK' /\ NoGhosts' /\ Met' /\ OverForAReason' /\ LostForGood' /\ OutcomeIsEarned'
    BY <1>7 DEF warVars, WarInv, WarTypeOK, NoGhosts, Met, OverForAReason, LostForGood, Fighting,
                OutcomeIsEarned, MainFallEndsBattle, DrawIsFought, LostStaysLost
  <2>2. ExperienceIsKills'
    BY <1>7, BooksStay DEF warVars, WarInv, ExperienceIsKills, Fighting
  <2>. QED  BY <2>1, <2>2 DEF WarInv
<1>. QED  BY <1>1, <1>2, <1>3, <1>4, <1>5, <1>6, <1>7 DEF WarNext

-----------------------------------------------------------------------------
(* The theorems.                                                            *)

(* War's inductive invariant holds in every reachable state.                *)
THEOREM WarInvariantHolds == WarSpec => []WarInv
BY WarInvAtInit, WarInvIsInductive, PTL DEF WarSpec

(* Soldiers stay natural numbers within the size of an army, rounds within  *)
(* their limit, and only camps fight (newWar, battle, round in war.go).     *)
THEOREM WarTypeCorrect == WarSpec => []WarTypeOK
<1>1. WarInv => WarTypeOK
  BY DEF WarInv
<1>. QED  BY <1>1, WarInvariantHolds, PTL

(* What a camp's generals gain in a battle is five times the soldiers the   *)
(* other camp lost in it (round in war.go), for armies of any size.         *)
THEOREM ExperienceIsEarned == WarSpec => []ExperienceIsKills
<1>1. WarInv => ExperienceIsKills
  BY DEF WarInv
<1>. QED  BY <1>1, WarInvariantHolds, PTL

(* No battle outlives a main general, a draw has taken all the rounds, and  *)
(* an army that has lost once wins no later battle (newWar, battle, trigger). *)
THEOREM OutcomesAreEarned == WarSpec => []OutcomeIsEarned
<1>1. WarInv => OutcomeIsEarned
  BY DEF WarInv
<1>. QED  BY <1>1, WarInvariantHolds, PTL

-----------------------------------------------------------------------------
(* Lists of slots.                                                          *)

LEMMA MinOfMany ==
    ASSUME NEW S \in SUBSET Nat, S # {}
    PROVE  Min(S) \in S
<1>1. \E x \in S : \A y \in S : x <= y
  BY LeastNumber
<1>. QED  BY <1>1 DEF Min

LEMMA ListOf ==
    ASSUME NEW S, NEW F, NEW s \in Seq(S), ToSet(s) \subseteq F
    PROVE  s \in Seq(F)
<1>1. s \in [1..Len(s) -> S] /\ Len(s) \in Nat /\ DOMAIN s = 1..Len(s)
  BY LenProperties
<1>2. \A i \in 1..Len(s) : s[i] \in F
  BY <1>1 DEF ToSet
<1>3. s \in [1..Len(s) -> F]
  BY <1>1, <1>2
<1>. QED  BY <1>1, <1>3

LEMMA MembersOf ==
    ASSUME NEW F, NEW s \in Seq(F)
    PROVE  ToSet(s) \subseteq F
<1>1. DOMAIN s = 1..Len(s) /\ \A i \in 1..Len(s) : s[i] \in F
  BY LenProperties, ElementOfSeq
<1>. QED  BY <1>1 DEF ToSet

LEMMA LongerList ==
    ASSUME NEW S, NEW F, S \subseteq F, NEW s \in Seq(S)
    PROVE  s \in Seq(F)
<1>1. ToSet(s) \subseteq F
  BY MembersOf
<1>. QED  BY <1>1, ListOf

LEMMA RemovingOne ==
    ASSUME NEW F, NEW s \in Seq(F), NEW k \in 1..Len(s)
    PROVE  RemoveAt(s, k) \in Seq(F)
<1>1. Len(s) \in Nat /\ \A i \in 1..Len(s) : s[i] \in F
  BY LenProperties, ElementOfSeq
<1>2. SubSeq(s, 1, k - 1) \in Seq(F)
  <2>1. \A i \in 1..(k - 1) : s[i] \in F
    BY <1>1
  <2>2. 1 \in Int /\ k - 1 \in Int
    OBVIOUS
  <2>. QED  BY <2>1, <2>2, SubSeqProperties
<1>3. SubSeq(s, k + 1, Len(s)) \in Seq(F)
  <2>1. \A i \in (k + 1)..Len(s) : s[i] \in F
    BY <1>1
  <2>2. k + 1 \in Int /\ Len(s) \in Int
    BY <1>1
  <2>. QED  BY <2>1, <2>2, SubSeqProperties
<1>. QED  BY <1>2, <1>3, ConcatProperties DEF RemoveAt

LEMMA IndexIsIn ==
    ASSUME NEW F, NEW list \in Seq(F), NEW a, NEW copies
    PROVE  IndexOf(a, list, copies) \in 0..Len(list)
<1>1. PICK I : I = {i \in 1..Len(list) : copies[list[i]].army = a}
  OBVIOUS
<1>2. IndexOf(a, list, copies) = IF I # {} THEN Min(I) ELSE 0
  BY <1>1 DEF IndexOf, SelectInSeq
<1>3. Len(list) \in Nat
  BY LenProperties
<1>4. CASE I # {}
  <2>1. I \in SUBSET Nat
    BY <1>1
  <2>2. Min(I) \in I
    BY <1>4, <2>1, MinOfMany
  <2>. QED  BY <1>1, <1>2, <1>3, <1>4, <2>2
<1>5. CASE I = {}
  BY <1>2, <1>3, <1>5
<1>. QED  BY <1>4, <1>5

(* SetToSeq enumerates a finite set.                                        *)
LEMMA Enumerated ==
    ASSUME NEW S, IsFiniteSet(S)
    PROVE  /\ SetToSeq(S) \in Seq(S)
           /\ SetToSeq(S) = <<>> <=> S = {}
           /\ DOMAIN SetToSeq(S) = 1..Len(SetToSeq(S)) /\ Len(SetToSeq(S)) \in Nat
<1>1. Cardinality(S) \in Nat /\ ExistsBijection(1..Cardinality(S), S)
  BY FS_CardinalityType
<1>2. \E f \in [1..Cardinality(S) -> S] : IsInjective(f)
  BY <1>1 DEF ExistsBijection, Bijection, Injection, IsInjective
<1>3. SetToSeq(S) \in [1..Cardinality(S) -> S]
  BY <1>2 DEF SetToSeq
<1>4. PICK n \in Nat : n = Cardinality(S)
  BY <1>1
<1>5. PICK q : q = SetToSeq(S)
  OBVIOUS
<1>6. q \in [1..n -> S]
  BY <1>3, <1>4, <1>5
<1>7. q \in Seq(S) /\ Len(q) = n /\ DOMAIN q = 1..n
  BY <1>4, <1>6
<1>8. n = 0 <=> S = {}
  BY <1>4, FS_EmptySet
<1>9. q = <<>> <=> n = 0
  BY <1>7, EmptySeq
<1>. QED  BY <1>5, <1>7, <1>8, <1>9

-----------------------------------------------------------------------------
(* Copies, the list check walks through, and marches filed among the slots  *)
(* F whose copies are in use.                                               *)

Contents == [army : Armies, cmd : Cmds, from : Places, to : Places, end : Seconds \cup {0}]

Walks(F) == [second : Seconds \cup {0}, array : Seq(F), live : Nat, next : Nat \ {0}]

WalkGood(F, walk) ==
    /\ walk \in Walks(F)
    /\ walk.live <= Len(walk.array) /\ walk.next <= Len(walk.array) + 1

CopiesGood(F, copies) ==
    /\ copies \in [Slots -> {Blank} \cup Contents]
    /\ \A s \in F : copies[s] \in Contents

Good(F, m) ==
    /\ CopiesGood(F, m.copies)
    /\ m.filed \in [Seconds -> Seq(F)]
    /\ WalkGood(F, m.walk)

LEMMA NotBlank == \A o \in Contents : o # Blank
<1>1. \A o \in Contents : DOMAIN o = {"army", "cmd", "from", "to", "end"}
  BY DEF Contents
<1>2. DOMAIN Blank = {"army"}
  BY DEF Blank
<1>. QED  BY <1>1, <1>2

LEMMA SlotsAre == Slots \subseteq Nat /\ IsFiniteSet(Slots)
<1>1. MaxOrders \in Nat
  BY ArmyAssumption
<1>. QED  BY <1>1, FS_Interval DEF Slots

LEMMA UnfileGood ==
    ASSUME NEW F, NEW filed \in [Seconds -> Seq(F)], NEW a, NEW e \in Seconds \cup {0}, NEW copies
    PROVE  Unfile(filed, a, e, copies) \in [Seconds -> Seq(F)]
<1>1. CASE e = 0 \/ e = checking.second \/ IndexOf(a, filed[e], copies) = 0
  BY <1>1 DEF Unfile
<1>2. CASE ~(e = 0 \/ e = checking.second \/ IndexOf(a, filed[e], copies) = 0)
  <2>1. e \in Seconds /\ filed[e] \in Seq(F)
    BY <1>2
  <2>2. PICK k : k = IndexOf(a, filed[e], copies)
    OBVIOUS
  <2>3. k \in 1..Len(filed[e])
    <3>1. k \in 0..Len(filed[e])
      BY <2>1, <2>2, IndexIsIn
    <3>2. Len(filed[e]) \in Nat
      BY <2>1, LenProperties
    <3>. QED  BY <1>2, <2>2, <3>1, <3>2
  <2>4. RemoveAt(filed[e], k) \in Seq(F)
    BY <2>1, <2>3, RemovingOne
  <2>5. Unfile(filed, a, e, copies) = [filed EXCEPT ![e] = RemoveAt(filed[e], k)]
    BY <1>2, <2>1, <2>2 DEF Unfile
  <2>. QED  BY <2>4, <2>5
<1>. QED  BY <1>1, <1>2

LEMMA ShiftGood ==
    ASSUME NEW F, NEW walk, WalkGood(F, walk), NEW a, NEW copies
    PROVE  WalkGood(F, Shift(walk, a, copies))
<1>1. /\ walk.array \in Seq(F) /\ walk.live \in Nat /\ walk.next \in Nat \ {0}
      /\ walk.second \in Seconds \cup {0}
      /\ walk = [second |-> walk.second, array |-> walk.array, live |-> walk.live, next |-> walk.next]
      /\ walk.live <= Len(walk.array) /\ walk.next <= Len(walk.array) + 1
  BY DEF WalkGood, Walks
<1>2. /\ Len(walk.array) \in Nat /\ DOMAIN walk.array = 1..Len(walk.array)
      /\ \A j \in 1..Len(walk.array) : walk.array[j] \in F
  BY <1>1, LenProperties, ElementOfSeq
<1>3. PICK i : i = IndexOf(a, SubSeq(walk.array, 1, walk.live), copies)
  OBVIOUS
<1>4. i \in 0..walk.live
  <2>1. \A j \in 1..walk.live : walk.array[j] \in F
    BY <1>1, <1>2
  <2>2. 1 \in Int /\ walk.live \in Int
    BY <1>1
  <2>3. /\ SubSeq(walk.array, 1, walk.live) \in Seq(F)
        /\ Len(SubSeq(walk.array, 1, walk.live)) = IF 1 <= walk.live THEN walk.live - 1 + 1 ELSE 0
    BY <2>1, <2>2, SubSeqProperties
  <2>4. i \in 0..Len(SubSeq(walk.array, 1, walk.live))
    BY <1>3, <2>3, IndexIsIn
  <2>. QED  BY <1>1, <2>3, <2>4
<1>5. CASE i = 0
  BY <1>3, <1>5 DEF Shift
<1>6. CASE i # 0
  <2>1. PICK arr : arr = [j \in DOMAIN walk.array |->
                             IF i <= j /\ j < walk.live THEN walk.array[j + 1] ELSE walk.array[j]]
    OBVIOUS
  <2>2. \A j \in 1..Len(walk.array) : arr[j] \in F
    <3>1. SUFFICES ASSUME NEW j \in 1..Len(walk.array) PROVE arr[j] \in F
      OBVIOUS
    <3>2. CASE i <= j /\ j < walk.live
      <4>1. j + 1 \in 1..Len(walk.array)
        BY <1>1, <1>2, <3>2
      <4>. QED  BY <1>2, <2>1, <3>2, <4>1
    <3>3. CASE ~(i <= j /\ j < walk.live)
      BY <1>2, <2>1, <3>3
    <3>. QED  BY <3>2, <3>3
  <2>3. arr \in Seq(F) /\ Len(arr) = Len(walk.array)
    <3>1. arr \in [1..Len(walk.array) -> F]
      BY <1>2, <2>1, <2>2
    <3>. QED  BY <1>2, <3>1
  <2>4. Shift(walk, a, copies) = [second |-> walk.second, array |-> arr,
                                  live |-> walk.live - 1, next |-> walk.next]
    <3>1. Shift(walk, a, copies) = [walk EXCEPT !.live = walk.live - 1, !.array = arr]
      BY <1>3, <1>6, <2>1 DEF Shift
    <3>. QED  BY <1>1, <3>1
  <2>5. walk.live - 1 \in Nat /\ walk.live - 1 <= Len(arr)
    BY <1>1, <1>2, <1>4, <1>6, <2>3
  <2>6. Shift(walk, a, copies) \in Walks(F)
    BY <1>1, <2>3, <2>4, <2>5 DEF Walks
  <2>. QED  BY <1>1, <2>3, <2>4, <2>5, <2>6 DEF WalkGood
<1>. QED  BY <1>5, <1>6

LEMMA ArmyBackGood ==
    ASSUME NEW F \in SUBSET Slots, NEW m, Good(F, m), NEW s \in F, NEW e \in Seconds
    PROVE  Good(F, ArmyBack(m, s, e))
<1>1. PICK o : o = m.copies[s]
  OBVIOUS
<1>2. o \in Contents /\ o.end \in Seconds \cup {0} /\ s \in Slots
  BY <1>1 DEF Good, CopiesGood, Contents
<1>3. PICK c : c = [m.copies EXCEPT ![s] = [o EXCEPT !.cmd = "back", !.end = e]]
  OBVIOUS
<1>4. CopiesGood(F, c)
  <2>1. [o EXCEPT !.cmd = "back", !.end = e] \in Contents
    BY <1>2 DEF Contents, Cmds
  <2>2. m.copies \in [Slots -> {Blank} \cup Contents] /\ \A x \in F : m.copies[x] \in Contents
    BY DEF Good, CopiesGood
  <2>3. c \in [Slots -> {Blank} \cup Contents]
    BY <1>2, <1>3, <2>1, <2>2
  <2>4. \A x \in F : c[x] \in Contents
    BY <1>3, <2>1, <2>2
  <2>. QED  BY <2>3, <2>4 DEF CopiesGood
<1>5. PICK f : f = PushAction(Unfile(m.filed, o.army, o.end, m.copies), s, e)
  OBVIOUS
<1>6. f \in [Seconds -> Seq(F)]
  <2>1. PICK u : u = Unfile(m.filed, o.army, o.end, m.copies)
    OBVIOUS
  <2>2. u \in [Seconds -> Seq(F)]
    BY <1>2, <2>1, UnfileGood DEF Good
  <2>3. Append(u[e], s) \in Seq(F)
    BY <2>2, AppendProperties
  <2>. QED  BY <1>5, <2>1, <2>2, <2>3 DEF PushAction
<1>7. PICK w : w = IF o.end = checking.second THEN Shift(m.walk, o.army, m.copies) ELSE m.walk
  OBVIOUS
<1>8. WalkGood(F, w)
  BY <1>7, ShiftGood DEF Good
<1>9. ArmyBack(m, s, e) = [copies |-> c, filed |-> f, walk |-> w]
  BY <1>1, <1>3, <1>5, <1>7 DEF ArmyBack
<1>10. /\ [copies |-> c, filed |-> f, walk |-> w].copies = c
       /\ [copies |-> c, filed |-> f, walk |-> w].filed = f
       /\ [copies |-> c, filed |-> f, walk |-> w].walk = w
  OBVIOUS
<1>. QED  BY <1>4, <1>6, <1>8, <1>9, <1>10 DEF Good

-----------------------------------------------------------------------------
(* Everybody goes back: ArmyBack over some places of a list, the last place *)
(* last, by the least number of places for which it fails.                  *)

Chain(g, m, list, some, e) ==
    g = [T \in SUBSET some |->
            IF T = {} THEN m ELSE ArmyBack(g[T \ {Max(T)}], list[Max(T)], e)]

LEMMA LessByMax ==
    ASSUME NEW n \in Nat, NEW some \in SUBSET (1..n), NEW T \in SUBSET some
    PROVE  /\ IsFiniteSet(T) /\ Cardinality(T) \in Nat
           /\ Cardinality(T) <= 0 => T = {}
           /\ T # {} => /\ Max(T) \in T /\ T \ {Max(T)} \in SUBSET some
                        /\ Cardinality(T \ {Max(T)}) = Cardinality(T) - 1
                        /\ Cardinality(T \ {Max(T)}) \in Nat
<1>1. IsFiniteSet(T) /\ Cardinality(T) \in Nat
  <2>1. IsFiniteSet(1..n)
    BY FS_Interval
  <2>. QED  BY <2>1, FS_Subset, FS_CardinalityType
<1>2. Cardinality(T) <= 0 => T = {}
  BY <1>1, FS_EmptySet
<1>3. ASSUME T # {}
      PROVE  /\ Max(T) \in T /\ T \ {Max(T)} \in SUBSET some
             /\ Cardinality(T \ {Max(T)}) = Cardinality(T) - 1
             /\ Cardinality(T \ {Max(T)}) \in Nat
  <2>1. T \in SUBSET Nat /\ \A x \in T : x <= n
    OBVIOUS
  <2>2. PICK x : x = Max(T)
    OBVIOUS
  <2>3. x \in T
    BY <1>3, <2>1, <2>2, MaxOfMany
  <2>4. IsFiniteSet(T \ {x}) /\ Cardinality(T \ {x}) = Cardinality(T) - 1
    BY <1>1, <2>3, FS_RemoveElement
  <2>5. Cardinality(T \ {x}) \in Nat
    BY <2>4, FS_CardinalityType
  <2>. QED  BY <2>2, <2>3, <2>4, <2>5
<1>. QED  BY <1>1, <1>2, <1>3

LEMMA ChainExists ==
    ASSUME NEW n \in Nat, NEW some \in SUBSET (1..n), NEW m, NEW list, NEW e
    PROVE  \E g : Chain(g, m, list, some, e)
<1>. DEFINE Body(g, T) == IF T = {} THEN m ELSE ArmyBack(g[T \ {Max(T)}], list[Max(T)], e)
            UpTo(k, g) == \A T \in SUBSET some : Cardinality(T) <= k => g[T] = Body(g, T)
            Fails == {k \in Nat : ~\E g : UpTo(k, g)}
<1>1. Fails = {}
  <2>1. SUFFICES ASSUME Fails # {} PROVE FALSE
    OBVIOUS
  <2>2. PICK k \in Fails : \A l \in Fails : k <= l
    <3>1. Fails \in SUBSET Nat
      OBVIOUS
    <3>. HIDE DEF Fails
    <3>. QED  BY <2>1, <3>1, LeastNumber
  <2>3. k \in Nat /\ ~\E g : UpTo(k, g)
    OBVIOUS
  <2>4. CASE k = 0
    <3>1. PICK g : g = [T \in SUBSET some |-> m]
      OBVIOUS
    <3>2. UpTo(0, g)
      <4>1. ASSUME NEW T \in SUBSET some, Cardinality(T) <= 0 PROVE T = {}
        BY <4>1, LessByMax
      <4>. QED  BY <3>1, <4>1
    <3>. QED  BY <2>3, <2>4, <3>2
  <2>5. CASE k # 0
    <3>1. k - 1 \in Nat /\ k - 1 \notin Fails
      <4>1. k - 1 \in Nat /\ ~(k <= k - 1)
        BY <2>3, <2>5
      <4>. HIDE DEF Fails
      <4>. QED  BY <2>2, <4>1
    <3>2. PICK g : UpTo(k - 1, g)
      BY <3>1
    <3>3. PICK h : h = [T \in SUBSET some |-> IF Cardinality(T) <= k - 1 THEN g[T] ELSE Body(g, T)]
      OBVIOUS
    <3>4. ASSUME NEW T \in SUBSET some, Cardinality(T) <= k PROVE h[T] = Body(h, T)
      <4>1. h[T] = Body(g, T)
        BY <3>2, <3>3
      <4>2. CASE T = {}
        BY <4>1, <4>2
      <4>3. CASE T # {}
        <5>1. h[T \ {Max(T)}] = g[T \ {Max(T)}]
          <6>1. PICK r : r = T \ {Max(T)}
            OBVIOUS
          <6>2. /\ r \in SUBSET some /\ Cardinality(r) = Cardinality(T) - 1
                /\ Cardinality(r) \in Nat /\ Cardinality(T) \in Nat
            BY <4>3, <6>1, LessByMax
          <6>3. Cardinality(r) <= k - 1
            BY <2>3, <3>4, <6>2
          <6>. QED  BY <3>3, <6>1, <6>2, <6>3
        <5>. QED  BY <4>1, <4>3, <5>1
      <4>. QED  BY <4>2, <4>3
    <3>5. UpTo(k, h)
      BY <3>4
    <3>. QED  BY <2>3, <3>5
  <2>. QED  BY <2>4, <2>5
<1>2. Cardinality(some) \in Nat /\ Cardinality(some) \notin Fails
  BY <1>1, LessByMax
<1>3. PICK g : UpTo(Cardinality(some), g)
  BY <1>2
<1>4. PICK h : h = [T \in SUBSET some |-> g[T]]
  OBVIOUS
<1>5. ASSUME NEW T \in SUBSET some PROVE h[T] = Body(h, T)
  <2>1. Cardinality(T) <= Cardinality(some)
    BY LessByMax, FS_Subset
  <2>2. T # {} => h[T \ {Max(T)}] = g[T \ {Max(T)}]
    BY <1>4
  <2>. QED  BY <1>3, <1>4, <2>1, <2>2
<1>. QED  BY <1>4, <1>5 DEF Chain

LEMMA ChainGood ==
    ASSUME NEW F \in SUBSET Slots, NEW m, Good(F, m), NEW list \in Seq(F),
           NEW some \in SUBSET (1..Len(list)), NEW e \in Seconds,
           NEW g, Chain(g, m, list, some, e)
    PROVE  Good(F, g[some])
<1>. DEFINE Fails == {k \in Nat : \E T \in SUBSET some : Cardinality(T) = k /\ ~Good(F, g[T])}
<1>0. Len(list) \in Nat /\ \A i \in 1..Len(list) : list[i] \in F
  BY LenProperties, ElementOfSeq
<1>1. Fails = {}
  <2>1. SUFFICES ASSUME Fails # {} PROVE FALSE
    OBVIOUS
  <2>2. PICK k \in Fails : \A l \in Fails : k <= l
    <3>1. Fails \in SUBSET Nat
      OBVIOUS
    <3>. HIDE DEF Fails
    <3>. QED  BY <2>1, <3>1, LeastNumber
  <2>3. PICK T \in SUBSET some : Cardinality(T) = k /\ ~Good(F, g[T])
    OBVIOUS
  <2>4. T # {}
    <3>1. T = {} => g[T] = m
      BY DEF Chain
    <3>. QED  BY <2>3, <3>1
  <2>5. PICK x, r : x = Max(T) /\ r = T \ {x}
    OBVIOUS
  <2>6. g[T] = ArmyBack(g[r], list[x], e)
    BY <2>4, <2>5 DEF Chain
  <2>7. x \in T /\ r \in SUBSET some /\ Cardinality(r) \in Nat /\ Cardinality(r) < k
    <3>1. /\ Max(T) \in T /\ T \ {Max(T)} \in SUBSET some
          /\ Cardinality(T \ {Max(T)}) = Cardinality(T) - 1
          /\ Cardinality(T \ {Max(T)}) \in Nat
      BY <1>0, <2>4, LessByMax
    <3>2. x \in T /\ r \in SUBSET some /\ Cardinality(r) = k - 1 /\ Cardinality(r) \in Nat
      BY <2>3, <2>5, <3>1
    <3>. QED  BY <3>2
  <2>8. Good(F, g[r])
    <3>1. Cardinality(r) \notin Fails
      <4>1. PICK l : l = Cardinality(r)
        OBVIOUS
      <4>2. ~(k <= l)
        BY <2>7, <4>1
      <4>. HIDE DEF Fails
      <4>. QED  BY <2>2, <4>1, <4>2
    <3>. QED  BY <2>7, <3>1
  <2>9. list[x] \in F
    BY <1>0, <2>7
  <2>. QED  BY <2>3, <2>6, <2>8, <2>9, ArmyBackGood
<1>. QED  BY <1>0, <1>1, LessByMax

LEMMA AllBackGood ==
    ASSUME NEW F \in SUBSET Slots, NEW m, Good(F, m), NEW list \in Seq(F),
           NEW some \in SUBSET (1..Len(list)), NEW e \in Seconds
    PROVE  Good(F, AllBack(m, list, some, e))
<1>. DEFINE Iter(g) ==
         g = [T \in SUBSET some |->
                 IF T = {} THEN m ELSE ArmyBack(g[T \ {Max(T)}], list[Max(T)], e)]
<1>1. AllBack(m, list, some, e) = (CHOOSE g : Iter(g))[some]
  BY DEF AllBack, MapThenFoldSet
<1>2. \E g : Iter(g)
  <2>1. Len(list) \in Nat
    BY LenProperties
  <2>2. \E g : Chain(g, m, list, some, e)
    BY <2>1, ChainExists
  <2>. QED  BY <2>2 DEF Chain
<1>3. Iter(CHOOSE g : Iter(g))
  <2>. HIDE DEF Iter
  <2>. QED  BY <1>2
<1>4. PICK g : g = (CHOOSE h : Iter(h))
  OBVIOUS
<1>5. Chain(g, m, list, some, e)
  BY <1>3, <1>4 DEF Chain
<1>6. Good(F, g[some])
  BY <1>5, ChainGood
<1>. QED  BY <1>1, <1>4, <1>6

-----------------------------------------------------------------------------
(* The invariant.                                                           *)

LandsTyped ==
    /\ owner \in [Lands -> Roles \cup {NoRole}] /\ forts \subseteq Lands
    /\ parent \in [Roles -> Nat] /\ rows \in [Armies -> Row]
    /\ giveUpIdChan \in Seq(Lands) /\ leaving \subseteq Lands
    /\ assigns \in 0..MaxAssigns /\ stuck \in BOOLEAN

(* Everything that refers to a copy refers to one of F.                     *)
InUse(F) ==
    /\ checking.array \in Seq(F)
    /\ arriveArmyChan \in Seq(F) /\ updateArmyChan \in Seq(F)
    /\ endTimeArmys \in [Seconds -> Seq(F)]
    /\ stopInPosArmys \in [Places -> SUBSET F]

ArmyInv == TypeOK /\ WalkGood(Slots, checking) /\ SystemLandIsLeft

(* The slots on file, and those of the garrisons.                           *)
Filed    == UNION {ToSet(endTimeArmys[e]) : e \in Seconds}
Garrisoned == UNION {stopInPosArmys[p] : p \in Places}

LEMMA ReferencedParts ==
    Referenced = ToSet(checking.array) \cup ToSet(arriveArmyChan) \cup ToSet(updateArmyChan)
                 \cup Filed \cup Garrisoned
BY Zenon DEF Referenced, Filed, Garrisoned

LEMMA InUseBounds == \A F : InUse(F) => Referenced \subseteq F
<1>. SUFFICES ASSUME NEW F, InUse(F) PROVE Referenced \subseteq F
  OBVIOUS
<1>1. /\ ToSet(checking.array) \subseteq F /\ ToSet(arriveArmyChan) \subseteq F
      /\ ToSet(updateArmyChan) \subseteq F
  BY MembersOf DEF InUse
<1>2. \A e \in Seconds : ToSet(endTimeArmys[e]) \subseteq F
  BY MembersOf DEF InUse
<1>3. \A p \in Places : stopInPosArmys[p] \subseteq F
  BY DEF InUse
<1>4. Filed \subseteq F /\ Garrisoned \subseteq F
  BY <1>2, <1>3 DEF Filed, Garrisoned
<1>. QED  BY <1>1, <1>4, ReferencedParts

LEMMA InUseBoundsNext == \A F : InUse(F)' => Referenced' \subseteq F
<1>1. (\A F : InUse(F) => Referenced \subseteq F)'
  BY InUseBounds, PTL
<1>. QED  BY <1>1

LEMMA WhatIsInUse ==
    ASSUME ArmyInv, NEW F, Referenced \subseteq F, F \subseteq Slots
    PROVE  InUse(F) /\ WalkGood(F, checking) /\ LandsTyped
<1>1. WalkGood(Slots, checking)
  BY DEF ArmyInv
<1>2. checking.array \in Seq(F)
  <2>1. checking.array \in Seq(Slots) /\ ToSet(checking.array) \subseteq F
    BY <1>1, ReferencedParts DEF WalkGood, Walks
  <2>. QED  BY <2>1, ListOf
<1>3. arriveArmyChan \in Seq(F) /\ updateArmyChan \in Seq(F)
  <2>1. arriveArmyChan \in Seq(Slots) /\ ToSet(arriveArmyChan) \subseteq F
    BY ReferencedParts DEF ArmyInv, TypeOK
  <2>2. updateArmyChan \in Seq(Slots) /\ ToSet(updateArmyChan) \subseteq F
    BY ReferencedParts DEF ArmyInv, TypeOK
  <2>. QED  BY <2>1, <2>2, ListOf
<1>4. endTimeArmys \in [Seconds -> Seq(F)]
  <2>1. endTimeArmys \in [Seconds -> Seq(Slots)]
    BY DEF ArmyInv, TypeOK
  <2>2. \A e \in Seconds : ToSet(endTimeArmys[e]) \subseteq F
    <3>1. Filed \subseteq F
      BY ReferencedParts
    <3>. QED  BY <3>1 DEF Filed
  <2>3. \A e \in Seconds : endTimeArmys[e] \in Seq(F)
    BY <2>1, <2>2, ListOf
  <2>. QED  BY <2>1, <2>3
<1>5. stopInPosArmys \in [Places -> SUBSET F]
  <2>1. stopInPosArmys \in [Places -> SUBSET Slots]
    BY DEF ArmyInv, TypeOK
  <2>2. \A p \in Places : stopInPosArmys[p] \subseteq F
    <3>1. Garrisoned \subseteq F
      BY ReferencedParts
    <3>. QED  BY <3>1 DEF Garrisoned
  <2>. QED  BY <2>1, <2>2
<1>6. WalkGood(F, checking)
  BY <1>1, <1>2 DEF WalkGood, Walks
<1>7. LandsTyped
  BY DEF ArmyInv, TypeOK, LandsTyped
<1>. QED  BY <1>2, <1>3, <1>4, <1>5, <1>6, <1>7 DEF InUse

LEMMA ReferencedIs ==
    ASSUME ArmyInv
    PROVE  /\ Referenced \subseteq Slots /\ CopiesGood(Referenced, orders)
           /\ Good(Referenced, Marches)
<1>1. WalkGood(Slots, checking) /\ checking.array \in Seq(Slots)
  BY DEF ArmyInv, WalkGood, Walks
<1>2. InUse(Slots)
  BY <1>1 DEF ArmyInv, TypeOK, InUse
<1>3. Referenced \subseteq Slots
  BY <1>2, InUseBounds
<1>4. orders \in [Slots -> {Blank} \cup Contents] /\ \A s \in Referenced : orders[s] # Blank
  BY DEF ArmyInv, TypeOK, Contents
<1>5. CopiesGood(Referenced, orders)
  BY <1>3, <1>4 DEF CopiesGood
<1>6. InUse(Referenced) /\ WalkGood(Referenced, checking)
  BY <1>3, WhatIsInUse
<1>7. /\ Marches.copies = orders /\ Marches.filed = endTimeArmys /\ Marches.walk = checking
  BY DEF Marches
<1>. QED  BY <1>3, <1>5, <1>6, <1>7 DEF Good, InUse

(* With one more slot in use, whose copy is a good one.                     *)
LEMMA MoreInUse ==
    ASSUME ArmyInv, NEW F, Referenced \subseteq F, F \subseteq Slots, NEW copies, CopiesGood(F, copies)
    PROVE  Good(F, [Marches EXCEPT !.copies = copies])
<1>1. InUse(F) /\ WalkGood(F, checking)
  BY WhatIsInUse
<1>2. [Marches EXCEPT !.copies = copies] = [copies |-> copies, filed |-> endTimeArmys, walk |-> checking]
  BY DEF Marches
<1>3. /\ [copies |-> copies, filed |-> endTimeArmys, walk |-> checking].copies = copies
      /\ [copies |-> copies, filed |-> endTimeArmys, walk |-> checking].filed = endTimeArmys
      /\ [copies |-> copies, filed |-> endTimeArmys, walk |-> checking].walk = checking
  OBVIOUS
<1>. QED  BY <1>1, <1>2, <1>3 DEF Good, InUse

LEMMA Typed ==
    ASSUME NEW F \in SUBSET Slots, InUse(F)', WalkGood(F, checking'), LandsTyped',
           orders' \in [Slots -> {Blank} \cup Contents],
           \A s \in Referenced' : orders'[s] # Blank, SystemLandIsLeft'
    PROVE  ArmyInv'
<1>1. checking'.array \in Seq(Slots) /\ checking'.second \in Seconds \cup {0}
  BY LongerList DEF WalkGood, Walks
<1>2. WalkGood(Slots, checking')
  BY <1>1 DEF WalkGood, Walks
<1>3. arriveArmyChan' \in Seq(Slots) /\ updateArmyChan' \in Seq(Slots)
  BY LongerList DEF InUse
<1>4. endTimeArmys' \in [Seconds -> Seq(Slots)]
  <2>1. endTimeArmys' \in [Seconds -> Seq(F)]
    BY DEF InUse
  <2>2. \A e \in Seconds : endTimeArmys'[e] \in Seq(Slots)
    BY <2>1, LongerList
  <2>. QED  BY <2>1, <2>2
<1>5. stopInPosArmys' \in [Places -> SUBSET Slots]
  BY DEF InUse
<1>6. TypeOK'
  BY <1>1, <1>3, <1>4, <1>5 DEF TypeOK, LandsTyped, Contents
<1>7. WalkGood(Slots, checking)'
  BY <1>2 DEF WalkGood, Walks, Slots, Seconds
<1>. QED  BY <1>6, <1>7 DEF ArmyInv

(* The end of every step that keeps the copies that are referenced.         *)
LEMMA Assembled ==
    ASSUME NEW F \in SUBSET Slots, NEW copies, CopiesGood(F, copies), Keep(copies),
           InUse(F)', WalkGood(F, checking'), LandsTyped', SystemLandIsLeft'
    PROVE  ArmyInv'
<1>1. Referenced' \subseteq F
  BY InUseBoundsNext
<1>2. \A s \in Slots : orders'[s] = IF s \in Referenced' THEN copies[s] ELSE Blank
  BY DEF Keep
<1>3. DOMAIN orders' = Slots /\ orders' = [s \in Slots |-> orders'[s]]
  BY DEF Keep
<1>4. \A s \in F : copies[s] \in Contents /\ copies[s] # Blank
  BY NotBlank DEF CopiesGood
<1>5. orders' \in [Slots -> {Blank} \cup Contents]
  BY <1>1, <1>2, <1>3, <1>4
<1>6. \A s \in Referenced' : orders'[s] # Blank
  BY <1>1, <1>2, <1>4
<1>. QED  BY <1>5, <1>6, Typed

(* The end of every step that leaves the copies alone.                      *)
LEMMA AssembledBare ==
    ASSUME ArmyInv, NEW F, F = Referenced, orders' = orders,
           InUse(F)', WalkGood(F, checking'), LandsTyped', SystemLandIsLeft'
    PROVE  ArmyInv'
<1>1. Referenced' \subseteq F
  BY InUseBoundsNext
<1>2. F \in SUBSET Slots
  BY ReferencedIs
<1>3. orders' \in [Slots -> {Blank} \cup Contents] /\ \A s \in F : orders'[s] # Blank
  BY DEF ArmyInv, TypeOK, Contents
<1>. QED  BY <1>1, <1>2, <1>3, Typed

LEMMA LeftStays ==
    ASSUME SystemLandIsLeft,
           \A p \in Lands : owner'[p] = NoRole => owner[p] = NoRole,
           \A p \in Lands : stopInPosArmys'[p] # {} => stopInPosArmys[p] # {},
           leaving \cup ToSet(giveUpIdChan) \subseteq leaving' \cup ToSet(giveUpIdChan')
    PROVE  SystemLandIsLeft'
BY DEF SystemLandIsLeft

LEMMA WrittenIsTyped ==
    ASSUME NEW F, NEW copies, CopiesGood(F, copies), NEW list \in Seq(F), rows \in [Armies -> Row]
    PROVE  Written(copies, list) \in [Armies -> Row]
<1>1. Len(list) \in Nat /\ DOMAIN list = 1..Len(list) /\ \A i \in 1..Len(list) : list[i] \in F
  BY LenProperties, ElementOfSeq
<1>2. \A o \in Contents : RowOf(o) \in Row
  BY DEF Contents, RowOf, Row
<1>3. ASSUME NEW a \in Armies
      PROVE  LET mine == {i \in DOMAIN list : copies[list[i]].army = a}
             IN  (IF mine = {} THEN rows[a] ELSE RowOf(copies[list[Max(mine)]])) \in Row
  <2>1. PICK mine : mine = {i \in DOMAIN list : copies[list[i]].army = a}
    OBVIOUS
  <2>2. CASE mine # {}
    <3>1. mine \in SUBSET Nat /\ \A x \in mine : x <= Len(list)
      BY <1>1, <2>1
    <3>2. Max(mine) \in mine
      BY <1>1, <2>2, <3>1, MaxOfMany
    <3>3. list[Max(mine)] \in F
      BY <1>1, <2>1, <3>2
    <3>4. RowOf(copies[list[Max(mine)]]) \in Row
      BY <1>2, <3>3 DEF CopiesGood
    <3>. QED  BY <2>1, <2>2, <3>4
  <2>3. CASE mine = {}
    BY <2>1, <2>3
  <2>. QED  BY <2>2, <2>3
<1>. QED  BY <1>3 DEF Written

LEMMA PushGood ==
    ASSUME NEW F, NEW filed \in [Seconds -> Seq(F)], NEW s \in F, NEW e \in Seconds
    PROVE  PushAction(filed, s, e) \in [Seconds -> Seq(F)]
<1>1. Append(filed[e], s) \in Seq(F)
  BY AppendProperties
<1>. QED  BY <1>1 DEF PushAction

LEMMA FutureIsTime == Future \subseteq Seconds
BY DEF Future

-----------------------------------------------------------------------------
(* What the players do.                                                     *)

LEMMA FreeSlotIsFree ==
    ASSUME FreeSlots # {}
    PROVE  FreeSlot \in Slots
<1>1. FreeSlot \in FreeSlots
  BY DEF FreeSlot
<1>. QED  BY <1>1 DEF FreeSlots

LEMMA OrderKeepsInv ==
    ASSUME ArmyInv, NEW a \in Armies, NEW cmd \in Cmds, NEW p \in Places, NEW e \in Seconds,
           Order(a, cmd, p, e)
    PROVE  ArmyInv'
<1>1. PICK s : s = FreeSlot
  OBVIOUS
<1>2. PICK o : o = [army |-> a, cmd |-> cmd, from |-> rows[a].from, to |-> p, end |-> e]
  OBVIOUS
<1>3. PICK c : c = [orders EXCEPT ![s] = o]
  OBVIOUS
<1>4. PICK F : F = Referenced \cup {s}
  OBVIOUS
<1>5. /\ s \in Slots /\ assigns < MaxAssigns /\ assigns' = assigns + 1
      /\ UNCHANGED <<owner, forts, parent, leaving, rows, arriveArmyChan, updateArmyChan,
                     giveUpIdChan, stopInPosArmys, stuck, checking>>
      /\ endTimeArmys' = PushAction(endTimeArmys, s, e)
      /\ Keep(c)
  BY <1>1, <1>2, <1>3, FreeSlotIsFree DEF Order, Assign, landVars, chans
<1>6. F \in SUBSET Slots /\ CopiesGood(Referenced, orders)
  BY <1>4, <1>5, ReferencedIs
<1>7. o \in Contents
  <2>1. rows[a].from \in Places
    BY DEF ArmyInv, TypeOK, Row
  <2>. QED  BY <1>2, <2>1 DEF Contents
<1>8. CopiesGood(F, c)
  <2>1. c \in [Slots -> {Blank} \cup Contents]
    BY <1>3, <1>5, <1>6, <1>7 DEF CopiesGood
  <2>2. ASSUME NEW x \in F PROVE c[x] \in Contents
    <3>1. x \in Slots /\ (x = s \/ x \in Referenced)
      BY <1>4, <1>6
    <3>2. orders \in [Slots -> {Blank} \cup Contents]
      BY <1>6 DEF CopiesGood
    <3>. QED  BY <1>3, <1>6, <1>7, <3>1, <3>2 DEF CopiesGood
  <2>. QED  BY <2>1, <2>2 DEF CopiesGood
<1>9. InUse(F) /\ WalkGood(F, checking) /\ LandsTyped
  BY <1>4, <1>6, WhatIsInUse
<1>10. InUse(F)'
  <2>1. endTimeArmys' \in [Seconds -> Seq(F)]
    BY <1>4, <1>5, <1>9, PushGood DEF InUse
  <2>. QED  BY <1>5, <1>9, <2>1 DEF InUse
<1>11. LandsTyped'
  <2>1. assigns' \in 0..MaxAssigns
    BY <1>5, <1>9, ArmyAssumption DEF LandsTyped
  <2>. QED  BY <1>5, <1>9, <2>1 DEF LandsTyped
<1>12. SystemLandIsLeft'
  BY <1>5 DEF ArmyInv, SystemLandIsLeft
<1>13. WalkGood(F, checking')
  BY <1>5, <1>9
<1>. QED  BY <1>5, <1>6, <1>8, <1>10, <1>11, <1>12, <1>13, Assembled

LEMMA RecallKeepsInv ==
    ASSUME ArmyInv, NEW a \in Armies, NEW e \in Seconds, Recall(a, e)
    PROVE  ArmyInv'
<1>1. PICK s : s = FreeSlot
  OBVIOUS
<1>2. PICK c : c = [orders EXCEPT ![s] = CopyOf(a)]
  OBVIOUS
<1>3. PICK m : m = ArmyBack([Marches EXCEPT !.copies = c], s, e)
  OBVIOUS
<1>4. PICK F : F = Referenced \cup {s}
  OBVIOUS
<1>5. /\ s \in Slots /\ assigns < MaxAssigns /\ assigns' = assigns + 1
      /\ UNCHANGED <<owner, forts, parent, leaving, rows, arriveArmyChan, updateArmyChan,
                     giveUpIdChan, stopInPosArmys, stuck>>
  BY <1>1, FreeSlotIsFree DEF Recall, Assign, landVars, chans
<1>6. endTimeArmys' = m.filed /\ checking' = m.walk /\ Keep(m.copies)
  <2>1. [Marches EXCEPT !.copies[FreeSlot] = CopyOf(a)] = [Marches EXCEPT !.copies = c]
    BY <1>1, <1>2 DEF Marches
  <2>. QED  BY <1>1, <1>3, <2>1 DEF Recall
<1>7. F \in SUBSET Slots /\ CopiesGood(Referenced, orders)
  BY <1>4, <1>5, ReferencedIs
<1>8. CopyOf(a) \in Contents
  <2>1. rows[a] \in Row
    BY DEF ArmyInv, TypeOK
  <2>. QED  BY <2>1 DEF CopyOf, Row, Contents
<1>9. CopiesGood(F, c)
  <2>1. c \in [Slots -> {Blank} \cup Contents]
    BY <1>2, <1>5, <1>7, <1>8 DEF CopiesGood
  <2>2. ASSUME NEW x \in F PROVE c[x] \in Contents
    <3>1. x \in Slots /\ (x = s \/ x \in Referenced)
      BY <1>4, <1>7
    <3>2. orders \in [Slots -> {Blank} \cup Contents]
      BY <1>7 DEF CopiesGood
    <3>. QED  BY <1>2, <1>7, <1>8, <3>1, <3>2 DEF CopiesGood
  <2>. QED  BY <2>1, <2>2 DEF CopiesGood
<1>10. Good(F, m)
  <2>1. Good(F, [Marches EXCEPT !.copies = c])
    BY <1>4, <1>7, <1>9, MoreInUse
  <2>2. s \in F
    BY <1>4
  <2>. QED  BY <1>3, <1>7, <2>1, <2>2, ArmyBackGood
<1>11. InUse(F) /\ LandsTyped
  BY <1>4, <1>7, WhatIsInUse
<1>12. InUse(F)' /\ WalkGood(F, checking')
  <2>1. endTimeArmys' \in [Seconds -> Seq(F)] /\ WalkGood(F, checking')
    BY <1>6, <1>10 DEF Good
  <2>2. checking'.array \in Seq(F)
    BY <2>1 DEF WalkGood, Walks
  <2>. QED  BY <1>5, <1>11, <2>1, <2>2 DEF InUse
<1>13. LandsTyped'
  <2>1. assigns' \in 0..MaxAssigns
    BY <1>5, <1>11, ArmyAssumption DEF LandsTyped
  <2>. QED  BY <1>5, <1>11, <2>1 DEF LandsTyped
<1>14. SystemLandIsLeft'
  BY <1>5 DEF ArmyInv, SystemLandIsLeft
<1>15. CopiesGood(F, m.copies)
  BY <1>10 DEF Good
<1>. QED  BY <1>6, <1>7, <1>12, <1>13, <1>14, <1>15, Assembled

LEMMA PlayersKeepInv == ArmyInv /\ Players => ArmyInv'
<1>. SUFFICES ASSUME ArmyInv, NEW a \in Armies, NEW e \in Seconds,
                     \/ \E p \in Targets : Attack(a, p, e) \/ Defend(a, p, e) \/ Transfer(a, p, e)
                     \/ Recall(a, e)
              PROVE  ArmyInv'
  BY DEF Players
<1>1. CASE Recall(a, e)
  BY <1>1, RecallKeepsInv
<1>2. CASE \E p \in Targets : Attack(a, p, e) \/ Defend(a, p, e) \/ Transfer(a, p, e)
  <2>1. PICK p \in Targets : Attack(a, p, e) \/ Defend(a, p, e) \/ Transfer(a, p, e)
    BY <1>2
  <2>2. PICK cmd \in Cmds : Order(a, cmd, p, e)
    BY <2>1 DEF Attack, Defend, Transfer, Cmds
  <2>3. p \in Places
    BY ArmyAssumption DEF Places
  <2>. QED  BY <2>2, <2>3, OrderKeepsInv
<1>. QED  BY <1>1, <1>2

-----------------------------------------------------------------------------
(* check.                                                                   *)

LEMMA StartSecondKeepsInv ==
    ASSUME ArmyInv, NEW e \in Seconds, StartSecond(e)
    PROVE  ArmyInv'
<1>1. PICK F : F = Referenced
  OBVIOUS
<1>2. /\ checking' = [second |-> e, array |-> endTimeArmys[e],
                      live |-> Len(endTimeArmys[e]), next |-> 1]
      /\ endTimeArmys' = [endTimeArmys EXCEPT ![e] = <<>>]
      /\ UNCHANGED <<owner, forts, parent, leaving, rows, orders, arriveArmyChan, updateArmyChan,
                     giveUpIdChan, stopInPosArmys, assigns, stuck>>
  BY DEF StartSecond, landVars, chans
<1>3. InUse(F) /\ LandsTyped
  BY <1>1, ReferencedIs, WhatIsInUse
<1>4. endTimeArmys[e] \in Seq(F) /\ Len(endTimeArmys[e]) \in Nat /\ <<>> \in Seq(F)
  BY <1>3, LenProperties, EmptySeq DEF InUse
<1>5. WalkGood(F, checking')
  <2>1. checking' \in Walks(F)
    BY <1>2, <1>4 DEF Walks
  <2>. QED  BY <1>2, <1>4, <2>1 DEF WalkGood
<1>6. InUse(F)'
  <2>1. endTimeArmys' \in [Seconds -> Seq(F)]
    BY <1>2, <1>3, <1>4 DEF InUse
  <2>2. checking'.array \in Seq(F)
    BY <1>2, <1>4
  <2>. QED  BY <1>2, <1>3, <2>1, <2>2 DEF InUse
<1>7. LandsTyped' /\ SystemLandIsLeft'
  BY <1>2, <1>3 DEF LandsTyped, ArmyInv, SystemLandIsLeft
<1>. QED  BY <1>1, <1>2, <1>5, <1>6, <1>7, AssembledBare

LEMMA ArriveKeepsInv == ArmyInv /\ Arrive => ArmyInv'
<1>. SUFFICES ASSUME ArmyInv, Arrive PROVE ArmyInv'
  OBVIOUS
<1>1. PICK F : F = Referenced
  OBVIOUS
<1>2. /\ Undelivered # <<>> /\ arriveArmyChan' = Append(arriveArmyChan, Head(Undelivered))
      /\ checking' = [checking EXCEPT !.next = @ + 1]
      /\ UNCHANGED <<owner, forts, parent, leaving, rows, orders, endTimeArmys, updateArmyChan,
                     giveUpIdChan, stopInPosArmys, assigns, stuck>>
  BY DEF Arrive, landVars
<1>3. InUse(F) /\ WalkGood(F, checking) /\ LandsTyped
  BY <1>1, ReferencedIs, WhatIsInUse
<1>4. /\ checking.array \in Seq(F) /\ checking.next \in Nat \ {0} /\ checking.live \in Nat
      /\ checking.second \in Seconds \cup {0}
      /\ checking = [second |-> checking.second, array |-> checking.array,
                     live |-> checking.live, next |-> checking.next]
      /\ checking.live <= Len(checking.array) /\ checking.next <= Len(checking.array) + 1
  BY <1>3 DEF WalkGood, Walks
<1>5. Len(checking.array) \in Nat /\ \A i \in 1..Len(checking.array) : checking.array[i] \in F
  BY <1>4, LenProperties, ElementOfSeq
<1>6. /\ Undelivered \in Seq(F)
      /\ Len(Undelivered) = IF checking.next <= Len(checking.array)
                            THEN Len(checking.array) - checking.next + 1 ELSE 0
  <2>1. \A i \in checking.next..Len(checking.array) : checking.array[i] \in F
    BY <1>4, <1>5
  <2>2. checking.next \in Int /\ Len(checking.array) \in Int
    BY <1>4, <1>5
  <2>. QED  BY <2>1, <2>2, SubSeqProperties DEF Undelivered
<1>7. Head(Undelivered) \in F /\ checking.next <= Len(checking.array)
  <2>1. Len(Undelivered) # 0
    BY <1>2, <1>6, EmptySeq
  <2>. QED  BY <1>2, <1>6, <2>1, HeadTailProperties
<1>8. WalkGood(F, checking')
  <2>1. checking' = [second |-> checking.second, array |-> checking.array,
                     live |-> checking.live, next |-> checking.next + 1]
    BY <1>2, <1>4
  <2>2. checking' \in Walks(F)
    BY <1>4, <2>1 DEF Walks
  <2>. QED  BY <1>4, <1>5, <1>7, <2>1, <2>2 DEF WalkGood
<1>9. InUse(F)'
  <2>1. arriveArmyChan' \in Seq(F)
    BY <1>2, <1>3, <1>7, AppendProperties DEF InUse
  <2>2. checking'.array \in Seq(F)
    BY <1>8 DEF WalkGood, Walks
  <2>. QED  BY <1>2, <1>3, <2>1, <2>2 DEF InUse
<1>10. LandsTyped' /\ SystemLandIsLeft'
  BY <1>2, <1>3 DEF LandsTyped, ArmyInv, SystemLandIsLeft
<1>. QED  BY <1>1, <1>2, <1>8, <1>9, <1>10, AssembledBare

LEMMA NotWalking == \A F : WalkGood(F, NotChecking)
<1>. TAKE F
<1>1. <<>> \in Seq(F) /\ Len(<<>>) = 0
  BY EmptySeq
<1>2. NotChecking = [second |-> 0, array |-> <<>>, live |-> 0, next |-> 1]
  BY DEF NotChecking
<1>3. NotChecking \in Walks(F)
  BY <1>1, <1>2 DEF Walks
<1>. QED  BY <1>1, <1>2, <1>3 DEF WalkGood

LEMMA EndSecondKeepsInv == ArmyInv /\ EndSecond => ArmyInv'
<1>. SUFFICES ASSUME ArmyInv, EndSecond PROVE ArmyInv'
  OBVIOUS
<1>1. PICK F : F = Referenced
  OBVIOUS
<1>2. PICK c : c = [s \in Slots |-> Over(orders[s])]
  OBVIOUS
<1>3. /\ checking' = NotChecking /\ rows' = [a \in Armies |-> Over(rows[a])]
      /\ UNCHANGED <<owner, forts, parent, leaving, endTimeArmys, arriveArmyChan, updateArmyChan,
                     giveUpIdChan, stopInPosArmys, assigns, stuck>>
      /\ Keep(c)
  BY <1>2 DEF EndSecond, landVars, chans
<1>4. InUse(F) /\ LandsTyped /\ F \in SUBSET Slots /\ CopiesGood(F, orders)
  BY <1>1, ReferencedIs, WhatIsInUse
<1>5. CopiesGood(F, c)
  <2>1. \A o \in Contents : Over(o) \in Contents
    BY DEF Contents, Over
  <2>2. Over(Blank) = Blank
    BY DEF Over
  <2>3. \A s \in Slots : orders[s] \in {Blank} \cup Contents
    BY <1>4 DEF CopiesGood
  <2>4. c \in [Slots -> {Blank} \cup Contents]
    BY <1>2, <2>1, <2>2, <2>3
  <2>5. \A s \in F : c[s] \in Contents
    BY <1>2, <1>4, <2>1 DEF CopiesGood
  <2>. QED  BY <2>4, <2>5 DEF CopiesGood
<1>6. rows' \in [Armies -> Row]
  <2>1. \A r \in Row : Over(r) \in Row
    BY DEF Row, Over
  <2>2. \A a \in Armies : rows[a] \in Row
    BY <1>4 DEF LandsTyped
  <2>. QED  BY <1>3, <2>1, <2>2
<1>7. WalkGood(F, checking')
  BY <1>3, NotWalking
<1>8. InUse(F)'
  <2>1. checking'.array \in Seq(F)
    BY <1>7 DEF WalkGood, Walks
  <2>. QED  BY <1>3, <1>4, <2>1 DEF InUse
<1>9. LandsTyped' /\ SystemLandIsLeft'
  BY <1>3, <1>4, <1>6 DEF LandsTyped, ArmyInv, SystemLandIsLeft
<1>. QED  BY <1>3, <1>4, <1>5, <1>7, <1>8, <1>9, Assembled

LEMMA WithOneMore ==
    ASSUME NEW S, NEW q \in Seq(S), NEW x \in S
    PROVE  ToSet(Append(q, x)) = ToSet(q) \cup {x}
<1>1. PICK n \in Nat : n = Len(q)
  BY LenProperties
<1>2. /\ DOMAIN q = 1..n /\ DOMAIN Append(q, x) = 1..(n + 1)
      /\ \A i \in 1..n : Append(q, x)[i] = q[i]
      /\ Append(q, x)[n + 1] = x
  BY <1>1, AppendProperties, LenProperties
<1>. QED  BY <1>1, <1>2 DEF ToSet

LEMMA OneGone ==
    ASSUME NEW S, NEW q \in Seq(S), q # <<>>
    PROVE  \A x \in ToSet(q) : x = Head(q) \/ x \in ToSet(Tail(q))
<1>1. PICK n \in Nat : n = Len(q)
  BY LenProperties
<1>2. DOMAIN q = 1..n /\ n # 0
  BY <1>1, LenProperties, EmptySeq
<1>3. Tail(q) \in Seq(S) /\ Len(Tail(q)) = n - 1 /\ \A i \in 1..(n - 1) : Tail(q)[i] = q[i + 1]
  BY <1>1, HeadTailProperties
<1>4. DOMAIN Tail(q) = 1..(n - 1)
  BY <1>3, LenProperties
<1>5. ASSUME NEW i \in 1..n, i # 1 PROVE q[i] \in ToSet(Tail(q))
  <2>1. i - 1 \in 1..(n - 1) /\ Tail(q)[i - 1] = q[i]
    BY <1>3, <1>5
  <2>. QED  BY <1>4, <2>1 DEF ToSet
<1>6. q[1] = Head(q)
  OBVIOUS
<1>. QED  BY <1>2, <1>5, <1>6 DEF ToSet

-----------------------------------------------------------------------------
(* running.                                                                 *)

LEMMA TakesIs ==
    ASSUME ArmyInv, NEW s, NEW cmds, Takes(s, cmds)
    PROVE  /\ s \in Referenced /\ orders[s] \in Contents
           /\ arriveArmyChan' \in Seq(Referenced)
           /\ UNCHANGED <<giveUpIdChan, leaving, assigns>>
<1>1. PICK F : F = Referenced
  OBVIOUS
<1>2. F \in SUBSET Slots /\ InUse(F) /\ CopiesGood(F, orders)
  BY <1>1, ReferencedIs, WhatIsInUse
<1>3. /\ arriveArmyChan # <<>> /\ s = Head(arriveArmyChan)
      /\ arriveArmyChan' = Tail(arriveArmyChan)
      /\ UNCHANGED <<giveUpIdChan, leaving, assigns>>
  BY DEF Takes
<1>4. s \in F /\ Tail(arriveArmyChan) \in Seq(F)
  BY <1>2, <1>3, HeadTailProperties DEF InUse
<1>. QED  BY <1>1, <1>2, <1>3, <1>4 DEF CopiesGood

LEMMA UpdateIs ==
    ASSUME NEW F, updateArmyChan \in Seq(F), stuck \in BOOLEAN, NEW s \in F, Update(s)
    PROVE  updateArmyChan' \in Seq(F) /\ stuck' \in BOOLEAN
<1>1. CASE Len(updateArmyChan) < Cap
  <2>1. updateArmyChan' = Append(updateArmyChan, s) /\ UNCHANGED stuck
    BY <1>1, Zenon DEF Update
  <2>2. updateArmyChan' \in Seq(F)
    BY <2>1, AppendProperties
  <2>. QED  BY <2>1, <2>2, Zenon
<1>2. CASE ~(Len(updateArmyChan) < Cap)
  <2>1. stuck' = TRUE /\ UNCHANGED updateArmyChan
    BY <1>2, Zenon DEF Update
  <2>. QED  BY <2>1, Zenon
<1>. QED  BY <1>1, <1>2

(* A battle, whatever it does to the holder of the place.                   *)
LEMMA FightsKeepsInv ==
    ASSUME ArmyInv, NEW F \in SUBSET Slots, Referenced \subseteq F, NEW copies, CopiesGood(F, copies),
           NEW met \in Seq(F), NEW res, NEW s, NEW e \in Seconds,
           Takes(s, {"attack"}), Fights(s, copies, met, res, e),
           owner' \in [Lands -> Roles \cup {NoRole}], forts' \subseteq Lands,
           parent' \in [Roles -> Nat],
           \A p \in Lands : owner'[p] = NoRole => owner[p] = NoRole
    PROVE  ArmyInv'
<1>1. PICK p, beaten, m :
          /\ p = orders[s].to /\ beaten = Beaten(met, res)
          /\ m = AllBack([Marches EXCEPT !.copies = copies], met, beaten, e)
  OBVIOUS
<1>2. /\ endTimeArmys' = m.filed /\ checking' = m.walk
      /\ stopInPosArmys' = IF beaten = {} THEN stopInPosArmys
                           ELSE [stopInPosArmys EXCEPT ![p] = {}]
      /\ rows' = Written(m.copies, Append(met, s))
      /\ Update(s) /\ Keep(m.copies)
  BY <1>1 DEF Fights
<1>3. /\ s \in Referenced /\ orders[s] \in Contents /\ arriveArmyChan' \in Seq(Referenced)
      /\ UNCHANGED <<giveUpIdChan, leaving, assigns>>
  BY TakesIs
<1>4. s \in F /\ arriveArmyChan' \in Seq(F)
  BY <1>3, LongerList
<1>5. InUse(F) /\ WalkGood(F, checking) /\ LandsTyped
  BY WhatIsInUse
<1>6. Good(F, m)
  <2>1. Good(F, [Marches EXCEPT !.copies = copies])
    BY MoreInUse
  <2>2. beaten \in SUBSET (1..Len(met))
    BY <1>1, LenProperties DEF Beaten
  <2>. QED  BY <1>1, <2>1, <2>2, AllBackGood
<1>7. updateArmyChan' \in Seq(F) /\ stuck' \in BOOLEAN
  <2>1. updateArmyChan \in Seq(F) /\ stuck \in BOOLEAN
    BY <1>5, Zenon DEF InUse, LandsTyped
  <2>. QED  BY <1>2, <1>4, <2>1, UpdateIs
<1>8. stopInPosArmys' \in [Places -> SUBSET F]
      /\ \A q \in Places : stopInPosArmys'[q] \subseteq stopInPosArmys[q]
  <2>1. p \in Places
    BY <1>1, <1>3 DEF Contents
  <2>2. stopInPosArmys \in [Places -> SUBSET F]
    BY <1>5 DEF InUse
  <2>. QED  BY <1>2, <2>1, <2>2
<1>9. InUse(F)' /\ WalkGood(F, checking')
  <2>1. endTimeArmys' \in [Seconds -> Seq(F)] /\ WalkGood(F, checking')
    BY <1>2, <1>6 DEF Good
  <2>2. checking'.array \in Seq(F)
    BY <2>1 DEF WalkGood, Walks
  <2>. QED  BY <1>4, <1>7, <1>8, <2>1, <2>2 DEF InUse
<1>10. LandsTyped'
  <2>1. Append(met, s) \in Seq(F)
    BY <1>4, AppendProperties
  <2>2. CopiesGood(F, m.copies) /\ rows \in [Armies -> Row]
    BY <1>5, <1>6 DEF Good, LandsTyped
  <2>3. rows' \in [Armies -> Row]
    BY <1>2, <2>1, <2>2, WrittenIsTyped
  <2>4. giveUpIdChan' \in Seq(Lands) /\ leaving' \subseteq Lands /\ assigns' \in 0..MaxAssigns
    BY <1>3, <1>5 DEF LandsTyped
  <2>. QED  BY <1>7, <2>3, <2>4, Zenon DEF LandsTyped
<1>11. SystemLandIsLeft'
  <2>1. SystemLandIsLeft /\ Lands \subseteq Places
    BY DEF ArmyInv, Places
  <2>2. \A q \in Lands : stopInPosArmys'[q] # {} => stopInPosArmys[q] # {}
    BY <1>8, <2>1
  <2>3. leaving \cup ToSet(giveUpIdChan) \subseteq leaving' \cup ToSet(giveUpIdChan')
    BY <1>3
  <2>. QED  BY <2>1, <2>2, <2>3, LeftStays
<1>12. CopiesGood(F, m.copies)
  BY <1>6 DEF Good
<1>. QED  BY <1>2, <1>9, <1>10, <1>11, <1>12, Assembled

(* Whoever stands at a place, in some order.                                *)
LEMMA StandingIs ==
    ASSUME NEW F \in SUBSET Slots, stopInPosArmys \in [Places -> SUBSET F], NEW p \in Places
    PROVE  /\ SetToSeq(stopInPosArmys[p]) \in Seq(F)
           /\ SetToSeq(stopInPosArmys[p]) = <<>> <=> stopInPosArmys[p] = {}
           /\ DOMAIN SetToSeq(stopInPosArmys[p]) = 1..Len(SetToSeq(stopInPosArmys[p]))
<1>1. stopInPosArmys[p] \subseteq F /\ IsFiniteSet(stopInPosArmys[p])
  <2>1. stopInPosArmys[p] \subseteq F /\ stopInPosArmys[p] \subseteq Slots
    OBVIOUS
  <2>. QED  BY <2>1, SlotsAre, FS_Subset
<1>2. PICK S : S = stopInPosArmys[p]
  OBVIOUS
<1>3. /\ SetToSeq(S) \in Seq(S) /\ (SetToSeq(S) = <<>> <=> S = {})
      /\ DOMAIN SetToSeq(S) = 1..Len(SetToSeq(S))
  BY <1>1, <1>2, Enumerated
<1>4. SetToSeq(S) \in Seq(F)
  BY <1>1, <1>2, <1>3, LongerList
<1>. QED  BY <1>2, <1>3, <1>4

LEMMA GarrisonIs ==
    ASSUME NEW F \in SUBSET Slots, stopInPosArmys \in [Places -> SUBSET F], NEW p \in Places
    PROVE  /\ Garrison(p) \in Seq(F)
           /\ Len(Garrison(p)) = 0 => stopInPosArmys[p] = {}
<1>1. PICK list : list = SetToSeq(stopInPosArmys[p])
  OBVIOUS
<1>2. list \in Seq(F) /\ (list = <<>> <=> stopInPosArmys[p] = {})
  BY <1>1, StandingIs
<1>3. CASE list = <<>>
  <2>1. Garrison(p) = <<>>
    BY <1>1, <1>3 DEF Garrison
  <2>. QED  BY <1>2, <1>3, <2>1, EmptySeq
<1>4. CASE list # <<>>
  <2>1. Garrison(p) = Append(list, Last(list))
    BY <1>1, <1>4 DEF Garrison
  <2>2. Last(list) \in F
    <3>1. Len(list) \in Nat /\ Len(list) # 0
      BY <1>2, <1>4, LenProperties, EmptySeq
    <3>2. Len(list) \in 1..Len(list)
      BY <3>1
    <3>. QED  BY <1>2, <3>2, ElementOfSeq DEF Last
  <2>3. Garrison(p) \in Seq(F) /\ Len(Garrison(p)) = Len(list) + 1
    BY <1>2, <2>1, <2>2, AppendProperties
  <2>4. Len(list) \in Nat
    BY <1>2, LenProperties
  <2>. QED  BY <2>3, <2>4
<1>. QED  BY <1>3, <1>4

LEMMA ArriveAtLandKeepsInv ==
    ASSUME ArmyInv, NEW s, NEW e \in Seconds, ArriveAtLand(s, e)
    PROVE  ArmyInv'
<1>1. PICK F : F = Referenced
  OBVIOUS
<1>2. PICK p, met : p = orders[s].to /\ met = Garrison(p)
  OBVIOUS
<1>3. /\ Takes(s, {"attack"}) /\ p \in Lands
  BY <1>2 DEF ArriveAtLand
<1>4. PICK res \in Results(Len(met)) :
          /\ \/ /\ owner' = [owner EXCEPT ![p] = OwnerOf[orders[s].army]]
                /\ forts' = forts \ {p}
             \/ UNCHANGED <<owner, forts>>
          /\ UNCHANGED parent
          /\ Fights(s, orders, met, res, e)
  BY <1>2 DEF ArriveAtLand
<1>5. F \in SUBSET Slots /\ CopiesGood(F, orders) /\ InUse(F) /\ LandsTyped
  BY <1>1, ReferencedIs, WhatIsInUse
<1>6. met \in Seq(F)
  <2>1. p \in Places
    BY <1>3 DEF Places
  <2>. QED  BY <1>2, <1>5, <2>1, GarrisonIs DEF InUse
<1>7. OwnerOf[orders[s].army] \in Roles
  <2>1. orders[s] \in Contents
    BY <1>3, TakesIs
  <2>. QED  BY <2>1, ArmyAssumption DEF Contents
<1>8. /\ owner' \in [Lands -> Roles \cup {NoRole}] /\ forts' \subseteq Lands
      /\ parent' \in [Roles -> Nat]
      /\ \A q \in Lands : owner'[q] = NoRole => owner[q] = NoRole
  BY <1>3, <1>4, <1>5, <1>7, ArmyAssumption DEF LandsTyped
<1>. QED  BY <1>1, <1>3, <1>4, <1>5, <1>6, <1>8, FightsKeepsInv

LEMMA SparesAre ==
    Len(SetToSeq(FreeSlots)) \in Nat /\ \A i \in 1..Len(SetToSeq(FreeSlots)) : SetToSeq(FreeSlots)[i] \in Slots
<1>1. FreeSlots \subseteq Slots /\ IsFiniteSet(FreeSlots)
  BY SlotsAre, FS_Subset DEF FreeSlots
<1>2. PICK spare : spare = SetToSeq(FreeSlots)
  OBVIOUS
<1>3. spare \in Seq(FreeSlots)
  BY <1>1, <1>2, Enumerated
<1>4. spare \in Seq(Slots)
  BY <1>1, <1>3, LongerList
<1>. QED  BY <1>2, <1>4, LenProperties, ElementOfSeq

(* The copies of the armies of a city, made in the slots spare.             *)
Calls(S, home, spare, called, copies, F) ==
    /\ home = SetToSeq(S) /\ spare = SetToSeq(FreeSlots) /\ Len(home) <= Len(spare)
    /\ called = [i \in 1..Len(home) |-> spare[i]]
    /\ copies = [x \in Slots |-> copies[x]]
    /\ \A x \in ToSet(called) : \E i \in 1..Len(home) : copies[x] = CopyOf(home[i])
    /\ \A x \in Slots : x \notin ToSet(called) => copies[x] = orders[x]
    /\ F = Referenced \cup ToSet(called)

LEMMA CalledIs ==
    ASSUME ArmyInv, NEW S \in SUBSET Armies, NEW home, NEW spare, NEW called, NEW copies, NEW F,
           Calls(S, home, spare, called, copies, F)
    PROVE  F \in SUBSET Slots /\ CopiesGood(F, copies) /\ called \in Seq(F)
<1>. USE DEF Calls
<1>1. home \in Seq(Armies) /\ Len(home) \in Nat /\ \A i \in 1..Len(home) : home[i] \in Armies
  <2>1. IsFiniteSet(S)
    BY ArmyAssumption, FS_Subset
  <2>2. home \in Seq(S)
    BY <2>1, Enumerated
  <2>3. home \in Seq(Armies)
    BY <2>2, LongerList
  <2>. QED  BY <2>3, LenProperties, ElementOfSeq
<1>2. Len(spare) \in Nat /\ \A i \in 1..Len(spare) : spare[i] \in Slots
  BY SparesAre
<1>3. called \in [1..Len(home) -> Slots] /\ called \in Seq(Slots)
  BY <1>1, <1>2
<1>4. ToSet(called) \subseteq Slots
  BY <1>3, MembersOf
<1>5. called \in Seq(F)
  BY <1>3, ListOf
<1>6. F \in SUBSET Slots /\ CopiesGood(Referenced, orders)
  BY <1>4, ReferencedIs
<1>7. ASSUME NEW x \in ToSet(called) PROVE copies[x] \in Contents
  <2>3. PICK i \in 1..Len(home) : copies[x] = CopyOf(home[i])
    OBVIOUS
  <2>4. PICK a \in Armies : a = home[i]
    BY <1>1, <2>3
  <2>5. CopyOf(a) \in Contents
    <3>1. rows[a] \in Row
      BY DEF ArmyInv, TypeOK
    <3>. QED  BY <3>1 DEF CopyOf, Row, Contents
  <2>6. copies[x] = CopyOf(a)
    BY <2>3, <2>4
  <2>. QED  BY <2>5, <2>6
<1>9. orders \in [Slots -> {Blank} \cup Contents] /\ \A x \in Referenced : orders[x] \in Contents
  BY <1>6 DEF CopiesGood
<1>10. \A x \in Slots : copies[x] \in {Blank} \cup Contents
  BY <1>7, <1>9
<1>11. copies \in [Slots -> {Blank} \cup Contents]
  BY <1>10
<1>12. \A x \in F : copies[x] \in Contents
  BY <1>6, <1>7, <1>9
<1>. QED  BY <1>5, <1>6, <1>11, <1>12 DEF CopiesGood

LEMMA ArriveAtCityKeepsInv ==
    ASSUME ArmyInv, NEW s, NEW e \in Seconds, ArriveAtCity(s, e)
    PROVE  ArmyInv'
<1>. DEFINE p == orders[s].to
            S == {a \in Armies : OwnerOf[a] = Holder(p)}
            home == SetToSeq(S)
            spare == SetToSeq(FreeSlots)
            called == [i \in 1..Len(home) |-> spare[i]]
            met == SetToSeq(stopInPosArmys[p]) \o called
            copies == [x \in Slots |->
                IF x \in ToSet(called) THEN CopyOf(home[CHOOSE i \in DOMAIN called : called[i] = x])
                ELSE orders[x]]
<1>1. S \in SUBSET Armies /\ home = SetToSeq(S) /\ spare = SetToSeq(FreeSlots)
  OBVIOUS
<1>2. called = [i \in 1..Len(home) |-> spare[i]]
  OBVIOUS
<1>3. met = SetToSeq(stopInPosArmys[p]) \o called
  OBVIOUS
<1>4. Takes(s, {"attack"}) /\ p \in Cities /\ Len(home) <= Len(spare)
  BY DEF ArriveAtCity
<1>5. /\ copies = [x \in Slots |-> copies[x]]
      /\ \A x \in ToSet(called) : \E i \in 1..Len(home) : copies[x] = CopyOf(home[i])
      /\ \A x \in Slots : x \notin ToSet(called) => copies[x] = orders[x]
  <2>1. ASSUME NEW x \in ToSet(called)
        PROVE  \E i \in 1..Len(home) : copies[x] = CopyOf(home[i])
    <3>1. x \in Slots
      <4>1. PICK i \in DOMAIN called : called[i] = x
        BY DEF ToSet
      <4>2. i \in 1..Len(home) /\ x = spare[i]
        BY <4>1
      <4>3. Len(spare) \in Nat /\ spare[i] \in Slots
        <5>. HIDE DEF S, home
        <5>1. Len(spare) \in Nat /\ \A k \in 1..Len(spare) : spare[k] \in Slots
          BY SparesAre
        <5>2. Len(home) \in Nat
          <6>1. IsFiniteSet(S)
            BY <1>1, ArmyAssumption, FS_Subset
          <6>. QED  BY <1>1, <6>1, Enumerated
        <5>3. i \in 1..Len(spare)
          <6>. HIDE DEF spare
          <6>. QED  BY <1>4, <4>2, <5>1, <5>2
        <5>. QED  BY <5>1, <5>3
      <4>. QED  BY <4>2, <4>3
    <3>2. \E i \in DOMAIN called : called[i] = x
      BY DEF ToSet
    <3>3. PICK i : i = CHOOSE j \in DOMAIN called : called[j] = x
      OBVIOUS
    <3>4. i \in 1..Len(home)
      BY <3>2, <3>3
    <3>5. copies[x] = CopyOf(home[i])
      BY <3>1, <3>3
    <3>. QED  BY <3>4, <3>5
  <2>. QED  BY <2>1
<1>6. PICK res \in Results(Len(met)) :
          /\ \/ /\ Won(Len(met), res)
                /\ parent' = [parent EXCEPT ![Holder(p)] = UnionOf[OwnerOf[orders[s].army]]]
             \/ UNCHANGED parent
          /\ UNCHANGED <<owner, forts>>
          /\ Fights(s, copies, met, res, e)
  BY Zenon DEF ArriveAtCity
<1>. HIDE DEF S, home, spare, called, met, copies
<1>7. PICK F : F = Referenced \cup ToSet(called)
  OBVIOUS
<1>8. F \in SUBSET Slots /\ CopiesGood(F, copies) /\ called \in Seq(F)
  <2>1. Calls(S, home, spare, called, copies, F)
    BY <1>1, <1>2, <1>4, <1>5, <1>7 DEF Calls
  <2>. QED  BY <1>1, <2>1, CalledIs
<1>9. InUse(F) /\ LandsTyped
  BY <1>7, <1>8, WhatIsInUse
<1>10. met \in Seq(F)
  <2>1. p \in Places
    BY <1>4 DEF Places
  <2>2. SetToSeq(stopInPosArmys[p]) \in Seq(F)
    BY <1>8, <1>9, <2>1, StandingIs DEF InUse
  <2>. QED  BY <1>3, <1>8, <2>2, ConcatProperties
<1>11. parent' \in [Roles -> Nat]
  <2>1. UnionOf[OwnerOf[orders[s].army]] \in Nat
    <3>1. orders[s] \in Contents
      BY <1>4, TakesIs
    <3>. QED  BY <3>1, ArmyAssumption DEF Contents
  <2>. QED  BY <1>6, <1>9, <2>1 DEF LandsTyped
<1>12. /\ owner' \in [Lands -> Roles \cup {NoRole}] /\ forts' \subseteq Lands
       /\ \A q \in Lands : owner'[q] = NoRole => owner[q] = NoRole
  BY <1>6, <1>9 DEF LandsTyped
<1>. QED  BY <1>4, <1>6, <1>7, <1>8, <1>10, <1>11, <1>12, FightsKeepsInv

(* The end of an arrival that files nothing: the copies that changed are    *)
(* still good, and so are the garrisons.                                    *)
LEMMA ArrivedKeepsInv ==
    ASSUME ArmyInv, NEW s, NEW cmds, Takes(s, cmds), NEW copies, CopiesGood(Referenced, copies),
           Keep(copies), NEW F, F = Referenced,
           updateArmyChan' \in Seq(F), stuck' \in BOOLEAN,
           stopInPosArmys' \in [Places -> SUBSET F],
           \A p \in Lands : stopInPosArmys'[p] # {} => stopInPosArmys[p] # {} \/ owner[p] # NoRole,
           UNCHANGED <<owner, forts, parent, rows, endTimeArmys, checking>>
    PROVE  ArmyInv'
<1>1. F \in SUBSET Slots /\ InUse(F) /\ WalkGood(F, checking) /\ LandsTyped
  BY ReferencedIs, WhatIsInUse
<1>2. arriveArmyChan' \in Seq(F) /\ UNCHANGED <<giveUpIdChan, leaving, assigns>>
  BY TakesIs
<1>3. InUse(F)' /\ WalkGood(F, checking')
  BY <1>1, <1>2 DEF InUse
<1>4. LandsTyped'
  BY <1>1, <1>2, Zenon DEF LandsTyped
<1>5. SystemLandIsLeft'
  BY <1>2 DEF ArmyInv, SystemLandIsLeft
<1>. QED  BY <1>1, <1>3, <1>4, <1>5, Assembled

LEMMA ArriveInPeaceKeepsInv ==
    ASSUME ArmyInv, NEW s, ArriveInPeace(s)
    PROVE  ArmyInv'
<1>1. PICK F : F = Referenced
  OBVIOUS
<1>2. /\ Takes(s, {"attack"}) /\ Update(s) /\ Keep(orders)
      /\ UNCHANGED <<owner, forts, parent, rows, endTimeArmys, checking, stopInPosArmys>>
  BY DEF ArriveInPeace
<1>3. CopiesGood(Referenced, orders) /\ InUse(F) /\ LandsTyped /\ F \in SUBSET Slots
  BY <1>1, ReferencedIs, WhatIsInUse
<1>4. updateArmyChan' \in Seq(F) /\ stuck' \in BOOLEAN
  <2>1. updateArmyChan \in Seq(F) /\ stuck \in BOOLEAN /\ s \in F
    BY <1>1, <1>2, <1>3, TakesIs, Zenon DEF InUse, LandsTyped
  <2>. QED  BY <1>2, <2>1, UpdateIs
<1>5. stopInPosArmys' \in [Places -> SUBSET F]
  BY <1>2, <1>3 DEF InUse
<1>. QED  BY <1>1, <1>2, <1>3, <1>4, <1>5, ArrivedKeepsInv

(* A copy changed in place.                                                 *)
LEMMA ChangedIsGood ==
    ASSUME NEW F \in SUBSET Slots, NEW copies, CopiesGood(F, copies), NEW s \in F, NEW o \in Contents
    PROVE  CopiesGood(F, [copies EXCEPT ![s] = o])
<1>1. copies \in [Slots -> {Blank} \cup Contents] /\ \A x \in F : copies[x] \in Contents
  BY DEF CopiesGood
<1>2. [copies EXCEPT ![s] = o] \in [Slots -> {Blank} \cup Contents]
  BY <1>1
<1>3. \A x \in F : [copies EXCEPT ![s] = o][x] \in Contents
  BY <1>1
<1>. QED  BY <1>2, <1>3 DEF CopiesGood

LEMMA ArriveBackKeepsInv ==
    ASSUME ArmyInv, NEW s, ArriveBack(s)
    PROVE  ArmyInv'
<1>1. PICK F : F = Referenced
  OBVIOUS
<1>2. PICK o : o = [orders[s] EXCEPT !.cmd = "idle", !.to = orders[s].from]
  OBVIOUS
<1>3. PICK copies : copies = [orders EXCEPT ![s] = o]
  OBVIOUS
<1>4. /\ Takes(s, {"back"}) /\ Update(s) /\ Keep(copies)
      /\ UNCHANGED <<owner, forts, parent, rows, endTimeArmys, checking, stopInPosArmys>>
  BY <1>2, <1>3 DEF ArriveBack
<1>5. CopiesGood(F, orders) /\ InUse(F) /\ LandsTyped /\ F \in SUBSET Slots
  BY <1>1, ReferencedIs, WhatIsInUse
<1>6. s \in F /\ orders[s] \in Contents
  BY <1>1, <1>4, TakesIs
<1>7. o \in Contents
  BY <1>2, <1>6 DEF Contents, Cmds
<1>8. CopiesGood(Referenced, copies)
  BY <1>1, <1>3, <1>5, <1>6, <1>7, ChangedIsGood
<1>9. updateArmyChan' \in Seq(F) /\ stuck' \in BOOLEAN
  <2>1. updateArmyChan \in Seq(F) /\ stuck \in BOOLEAN
    BY <1>5, Zenon DEF InUse, LandsTyped
  <2>. QED  BY <1>4, <1>6, <2>1, UpdateIs
<1>10. stopInPosArmys' \in [Places -> SUBSET F]
  BY <1>4, <1>5 DEF InUse
<1>. QED  BY <1>1, <1>4, <1>8, <1>9, <1>10, ArrivedKeepsInv

LEMMA StopsIs ==
    ASSUME NEW F, stopInPosArmys \in [Places -> SUBSET F], NEW p \in Places, NEW s \in F, NEW o,
           addStopArmy(p, s, o)
    PROVE  /\ stopInPosArmys' \in [Places -> SUBSET F]
           /\ \A q \in Places : stopInPosArmys'[q] # {} => stopInPosArmys[q] # {} \/ q = p
<1>1. PICK T : T = {x \in stopInPosArmys[p] : orders[x].army # o.army} \cup {s}
  OBVIOUS
<1>2. stopInPosArmys' = [stopInPosArmys EXCEPT ![p] = T]
  BY <1>1 DEF addStopArmy
<1>3. T \subseteq F
  BY <1>1
<1>. QED  BY <1>2, <1>3

LEMMA TurnsBackKeepsInv ==
    ASSUME ArmyInv, NEW s, NEW cmds, Takes(s, cmds), NEW e \in Seconds, TurnsBack(s, e),
           UNCHANGED <<owner, forts, parent>>
    PROVE  ArmyInv'
<1>1. PICK F : F = Referenced
  OBVIOUS
<1>2. PICK m : m = ArmyBack(Marches, s, e)
  OBVIOUS
<1>3. /\ endTimeArmys' = m.filed /\ checking' = m.walk /\ Keep(m.copies)
      /\ UNCHANGED <<rows, updateArmyChan, stopInPosArmys, stuck>>
  BY <1>2 DEF TurnsBack
<1>4. InUse(F) /\ LandsTyped /\ F \in SUBSET Slots /\ Good(F, Marches)
  BY <1>1, ReferencedIs, WhatIsInUse
<1>5. /\ s \in F /\ arriveArmyChan' \in Seq(F) /\ UNCHANGED <<giveUpIdChan, leaving, assigns>>
  BY <1>1, TakesIs
<1>6. Good(F, m)
  BY <1>2, <1>4, <1>5, ArmyBackGood
<1>7. InUse(F)' /\ WalkGood(F, checking')
  <2>1. endTimeArmys' \in [Seconds -> Seq(F)] /\ WalkGood(F, checking')
    BY <1>3, <1>6 DEF Good
  <2>2. checking'.array \in Seq(F)
    BY <2>1 DEF WalkGood, Walks
  <2>. QED  BY <1>3, <1>4, <1>5, <2>1, <2>2 DEF InUse
<1>8. LandsTyped' /\ SystemLandIsLeft'
  <2>1. LandsTyped'
    BY <1>3, <1>4, <1>5, Zenon DEF LandsTyped
  <2>2. SystemLandIsLeft'
    BY <1>3, <1>5 DEF ArmyInv, SystemLandIsLeft
  <2>. QED  BY <2>1, <2>2
<1>9. CopiesGood(F, m.copies)
  BY <1>6 DEF Good
<1>. QED  BY <1>3, <1>4, <1>7, <1>8, <1>9, Assembled

LEMMA FriendsHaveRoles ==
    ASSUME NEW p \in Lands, NEW r, IsCanDefend(p, r)
    PROVE  owner[p] # NoRole
BY DEF IsCanDefend, Holder

LEMMA ArriveDefendKeepsInv ==
    ASSUME ArmyInv, NEW s, NEW e \in Seconds, ArriveDefend(s, e)
    PROVE  ArmyInv'
<1>1. PICK o : o = orders[s]
  OBVIOUS
<1>2. Takes(s, {"defend"}) /\ UNCHANGED <<owner, forts, parent>>
  BY DEF ArriveDefend
<1>3. CASE IsCanDefend(o.to, OwnerOf[o.army])
  <2>1. PICK F : F = Referenced
    OBVIOUS
  <2>2. /\ addStopArmy(o.to, s, o) /\ Update(s) /\ Keep(orders)
        /\ UNCHANGED <<rows, endTimeArmys, checking>>
    BY <1>1, <1>3 DEF ArriveDefend
  <2>3. CopiesGood(Referenced, orders) /\ InUse(F) /\ LandsTyped /\ F \in SUBSET Slots
    BY <2>1, ReferencedIs, WhatIsInUse
  <2>4. s \in F /\ o.to \in Places
    BY <1>1, <1>2, <2>1, TakesIs DEF Contents
  <2>5. /\ stopInPosArmys' \in [Places -> SUBSET F]
        /\ \A q \in Places : stopInPosArmys'[q] # {} => stopInPosArmys[q] # {} \/ q = o.to
    BY <2>2, <2>3, <2>4, StopsIs DEF InUse
  <2>6. updateArmyChan' \in Seq(F) /\ stuck' \in BOOLEAN
    <3>1. updateArmyChan \in Seq(F) /\ stuck \in BOOLEAN
      BY <2>3, Zenon DEF InUse, LandsTyped
    <3>. QED  BY <2>2, <2>4, <3>1, UpdateIs
  <2>7. \A q \in Lands : stopInPosArmys'[q] # {} => stopInPosArmys[q] # {} \/ owner[q] # NoRole
    BY <1>3, <2>5, FriendsHaveRoles DEF Places
  <2>. QED  BY <1>2, <2>1, <2>2, <2>3, <2>5, <2>6, <2>7, ArrivedKeepsInv
<1>4. CASE ~IsCanDefend(o.to, OwnerOf[o.army])
  <2>1. TurnsBack(s, e)
    BY <1>1, <1>4 DEF ArriveDefend
  <2>. QED  BY <1>2, <2>1, TurnsBackKeepsInv
<1>. QED  BY <1>3, <1>4

LEMMA ArriveTransferKeepsInv ==
    ASSUME ArmyInv, NEW s, NEW e \in Seconds, ArriveTransfer(s, e)
    PROVE  ArmyInv'
<1>1. PICK o, F : o = orders[s] /\ F = Referenced
  OBVIOUS
<1>2. Takes(s, {"transfer", "idle"}) /\ UNCHANGED <<owner, forts, parent>>
  BY DEF ArriveTransfer
<1>3. CopiesGood(Referenced, orders) /\ InUse(F) /\ LandsTyped /\ F \in SUBSET Slots
  BY <1>1, ReferencedIs, WhatIsInUse
<1>4. s \in F /\ o \in Contents
  BY <1>1, <1>2, TakesIs
<1>5. CASE o.cmd = "idle"
  <2>1. /\ UNCHANGED <<rows, updateArmyChan, endTimeArmys, checking, stopInPosArmys, stuck>>
        /\ Keep(orders)
    BY <1>1, <1>5 DEF ArriveTransfer
  <2>2. stopInPosArmys' \in [Places -> SUBSET F] /\ updateArmyChan' \in Seq(F)
    BY <1>3, <2>1 DEF InUse
  <2>3. stuck' \in BOOLEAN
    BY <1>3, <2>1, Zenon DEF LandsTyped
  <2>. QED  BY <1>1, <1>2, <1>3, <2>1, <2>2, <2>3, ArrivedKeepsInv
<1>6. CASE o.cmd # "idle" /\ o.to \in forts /\ owner[o.to] = OwnerOf[o.army]
  <2>1. PICK n : n = [o EXCEPT !.cmd = "idle", !.from = o.to]
    OBVIOUS
  <2>2. PICK copies : copies = [orders EXCEPT ![s] = n]
    OBVIOUS
  <2>3. /\ addStopArmy(o.to, s, o) /\ Update(s) /\ Keep(copies)
        /\ UNCHANGED <<rows, endTimeArmys, checking>>
    BY <1>1, <1>6, <2>1, <2>2 DEF ArriveTransfer
  <2>4. n \in Contents
    BY <1>4, <2>1 DEF Contents, Cmds
  <2>5. CopiesGood(Referenced, copies)
    BY <1>1, <1>3, <1>4, <2>2, <2>4, ChangedIsGood
  <2>6. o.to \in Places
    BY <1>4 DEF Contents
  <2>7. /\ stopInPosArmys' \in [Places -> SUBSET F]
        /\ \A q \in Places : stopInPosArmys'[q] # {} => stopInPosArmys[q] # {} \/ q = o.to
    BY <1>3, <1>4, <2>3, <2>6, StopsIs DEF InUse
  <2>8. updateArmyChan' \in Seq(F) /\ stuck' \in BOOLEAN
    <3>1. updateArmyChan \in Seq(F) /\ stuck \in BOOLEAN
      BY <1>3, Zenon DEF InUse, LandsTyped
    <3>. QED  BY <1>4, <2>3, <3>1, UpdateIs
  <2>9. owner[o.to] # NoRole
    BY <1>4, <1>6, ArmyAssumption DEF Contents
  <2>10. \A q \in Lands : stopInPosArmys'[q] # {} => stopInPosArmys[q] # {} \/ owner[q] # NoRole
    BY <2>7, <2>9 DEF Places
  <2>. QED  BY <1>1, <1>2, <2>3, <2>5, <2>7, <2>8, <2>10, ArrivedKeepsInv
<1>7. CASE o.cmd # "idle" /\ ~(o.to \in forts /\ owner[o.to] = OwnerOf[o.army])
  <2>1. TurnsBack(s, e)
    BY <1>1, <1>7 DEF ArriveTransfer
  <2>. QED  BY <1>2, <2>1, TurnsBackKeepsInv
<1>. QED  BY <1>5, <1>6, <1>7

LEMMA exeArriveKeepsInv == ArmyInv /\ exeArrive => ArmyInv'
<1>. SUFFICES ASSUME ArmyInv, exeArrive PROVE ArmyInv'
  OBVIOUS
<1>1. PICK s \in Slots :
          \/ ArriveInPeace(s) \/ ArriveBack(s)
          \/ \E e \in Seconds :
                ArriveAtLand(s, e) \/ ArriveAtCity(s, e) \/ ArriveDefend(s, e) \/ ArriveTransfer(s, e)
  BY DEF exeArrive
<1>2. CASE ArriveInPeace(s) \/ ArriveBack(s)
  BY <1>2, ArriveInPeaceKeepsInv, ArriveBackKeepsInv
<1>3. ASSUME NEW e \in Seconds,
             ArriveAtLand(s, e) \/ ArriveAtCity(s, e) \/ ArriveDefend(s, e) \/ ArriveTransfer(s, e)
      PROVE  ArmyInv'
  BY <1>3, ArriveAtLandKeepsInv, ArriveAtCityKeepsInv, ArriveDefendKeepsInv, ArriveTransferKeepsInv
<1>. QED  BY <1>1, <1>2, <1>3

LEMMA exeUpdateKeepsInv == ArmyInv /\ exeUpdate => ArmyInv'
<1>. SUFFICES ASSUME ArmyInv, exeUpdate PROVE ArmyInv'
  OBVIOUS
<1>1. PICK F, s, o : F = Referenced /\ s = Head(updateArmyChan) /\ o = orders[s]
  OBVIOUS
<1>2. /\ updateArmyChan # <<>> /\ updateArmyChan' = Tail(updateArmyChan)
      /\ rows' = [rows EXCEPT ![o.army] = RowOf(o)]
      /\ stopInPosArmys' = IF o.cmd # "back" THEN stopInPosArmys
             ELSE [stopInPosArmys EXCEPT ![o.to] =
                      {x \in stopInPosArmys[o.to] : orders[x].army # o.army}]
      /\ UNCHANGED <<owner, forts, parent, leaving, endTimeArmys, checking, arriveArmyChan,
                     giveUpIdChan, assigns, stuck>>
      /\ Keep(orders)
  BY <1>1 DEF exeUpdate, landVars
<1>3. CopiesGood(F, orders) /\ InUse(F) /\ WalkGood(F, checking) /\ LandsTyped /\ F \in SUBSET Slots
  BY <1>1, ReferencedIs, WhatIsInUse
<1>4. s \in F /\ Tail(updateArmyChan) \in Seq(F)
  BY <1>1, <1>2, <1>3, HeadTailProperties DEF InUse
<1>5. o \in Contents /\ o.to \in Places /\ o.army \in Armies /\ RowOf(o) \in Row
  BY <1>1, <1>3, <1>4 DEF CopiesGood, Contents, RowOf, Row
<1>6. PICK T : T = {x \in stopInPosArmys[o.to] : orders[x].army # o.army}
  OBVIOUS
<1>7. /\ stopInPosArmys' \in [Places -> SUBSET F]
      /\ \A q \in Places : stopInPosArmys'[q] \subseteq stopInPosArmys[q]
  <2>1. T \subseteq stopInPosArmys[o.to]
    BY <1>6
  <2>2. stopInPosArmys' = IF o.cmd # "back" THEN stopInPosArmys
                          ELSE [stopInPosArmys EXCEPT ![o.to] = T]
    BY <1>2, <1>6
  <2>. QED  BY <1>3, <1>5, <2>1, <2>2 DEF InUse
<1>8. InUse(F)' /\ WalkGood(F, checking')
  BY <1>2, <1>3, <1>4, <1>7 DEF InUse
<1>9. LandsTyped'
  <2>1. rows' \in [Armies -> Row]
    BY <1>2, <1>3, <1>5 DEF LandsTyped
  <2>. QED  BY <1>2, <1>3, <2>1, Zenon DEF LandsTyped
<1>10. SystemLandIsLeft'
  <2>1. SystemLandIsLeft /\ Lands \subseteq Places
    BY DEF ArmyInv, Places
  <2>2. \A q \in Lands : stopInPosArmys'[q] # {} => stopInPosArmys[q] # {}
    BY <1>7, <2>1
  <2>. QED  BY <1>2, <2>1, <2>2, LeftStays
<1>. QED  BY <1>2, <1>3, <1>8, <1>9, <1>10, Assembled

LEMMA GiveUpPosIdKeepsInv ==
    ASSUME ArmyInv, NEW e \in Seconds, GiveUpPosId(e)
    PROVE  ArmyInv'
<1>1. PICK F, p : F = Referenced /\ p = Head(giveUpIdChan)
  OBVIOUS
<1>2. PICK list : list = SetToSeq(stopInPosArmys[p])
  OBVIOUS
<1>3. PICK m : m = AllBack(Marches, list, DOMAIN list, e)
  OBVIOUS
<1>4. /\ giveUpIdChan # <<>> /\ giveUpIdChan' = Tail(giveUpIdChan)
      /\ endTimeArmys' = m.filed /\ checking' = m.walk
      /\ stopInPosArmys' = [stopInPosArmys EXCEPT ![p] = {}]
      /\ UNCHANGED <<owner, forts, parent, leaving, rows, arriveArmyChan, updateArmyChan,
                     assigns, stuck>>
      /\ Keep(m.copies)
  BY <1>1, <1>2, <1>3 DEF GiveUpPosId, landVars
<1>5. Good(F, Marches) /\ InUse(F) /\ LandsTyped /\ F \in SUBSET Slots
  BY <1>1, ReferencedIs, WhatIsInUse
<1>6. p \in Lands /\ Tail(giveUpIdChan) \in Seq(Lands)
  BY <1>1, <1>4, <1>5, HeadTailProperties DEF LandsTyped
<1>7. Good(F, m)
  <2>1. p \in Places
    BY <1>6 DEF Places
  <2>2. list \in Seq(F) /\ DOMAIN list = 1..Len(list)
    BY <1>2, <1>5, <2>1, StandingIs DEF InUse
  <2>3. DOMAIN list \in SUBSET (1..Len(list))
    BY <2>2
  <2>. QED  BY <1>3, <1>5, <2>2, <2>3, AllBackGood
<1>8. stopInPosArmys' \in [Places -> SUBSET F]
  BY <1>4, <1>5 DEF InUse
<1>9. InUse(F)' /\ WalkGood(F, checking')
  <2>1. endTimeArmys' \in [Seconds -> Seq(F)] /\ WalkGood(F, checking')
    BY <1>4, <1>7 DEF Good
  <2>2. checking'.array \in Seq(F)
    BY <2>1 DEF WalkGood, Walks
  <2>. QED  BY <1>4, <1>5, <1>8, <2>1, <2>2 DEF InUse
<1>10. LandsTyped'
  <2>1. giveUpIdChan' \in Seq(Lands)
    BY <1>4, <1>6
  <2>. QED  BY <1>4, <1>5, <2>1, Zenon DEF LandsTyped
<1>11. SystemLandIsLeft'
  <2>1. stopInPosArmys \in [Places -> SUBSET F] /\ Lands \subseteq Places
    BY <1>5 DEF InUse, Places
  <2>2. ASSUME NEW q \in Lands, owner'[q] = NoRole, stopInPosArmys'[q] # {}
        PROVE  q \in leaving' \cup ToSet(giveUpIdChan')
    <3>1. q # p /\ stopInPosArmys[q] # {} /\ owner[q] = NoRole
      BY <1>4, <2>1, <2>2
    <3>2. q \in leaving \cup ToSet(giveUpIdChan)
      BY <3>1 DEF ArmyInv, SystemLandIsLeft
    <3>3. q \in ToSet(giveUpIdChan) => q \in ToSet(Tail(giveUpIdChan))
      <4>1. giveUpIdChan \in Seq(Lands)
        BY <1>5 DEF LandsTyped
      <4>2. \A x \in ToSet(giveUpIdChan) : x = Head(giveUpIdChan) \/ x \in ToSet(Tail(giveUpIdChan))
        BY <1>4, <4>1, OneGone
      <4>. QED  BY <1>1, <3>1, <4>2
    <3>. QED  BY <1>4, <3>2, <3>3
  <2>. QED  BY <2>2 DEF SystemLandIsLeft
<1>12. CopiesGood(F, m.copies)
  BY <1>7 DEF Good
<1>. QED  BY <1>4, <1>5, <1>9, <1>10, <1>11, <1>12, Assembled

-----------------------------------------------------------------------------
(* The lands, and the restart.                                              *)

LEMMA LandsKeepInv ==
    ASSUME ArmyInv, NEW p \in Lands, BuildFort(p) \/ RemoveFromRole(p) \/ GiveUp(p)
    PROVE  ArmyInv'
<1>1. PICK F : F = Referenced
  OBVIOUS
<1>2. InUse(F) /\ WalkGood(F, checking) /\ LandsTyped
  BY <1>1, ReferencedIs, WhatIsInUse
<1>3. UNCHANGED <<parent, rows, orders, endTimeArmys, checking, arriveArmyChan, updateArmyChan,
                  stopInPosArmys, assigns, stuck>>
  BY DEF BuildFort, RemoveFromRole, GiveUp, landOnly
<1>4. InUse(F)' /\ WalkGood(F, checking')
  BY <1>2, <1>3 DEF InUse
<1>5. CASE BuildFort(p)
  <2>1. forts' = forts \cup {p} /\ UNCHANGED <<owner, leaving, giveUpIdChan>>
    BY <1>5 DEF BuildFort
  <2>2. forts' \subseteq Lands
    BY <1>2, <2>1 DEF LandsTyped
  <2>3. LandsTyped'
    BY <1>2, <1>3, <2>1, <2>2, Zenon DEF LandsTyped
  <2>4. SystemLandIsLeft'
    BY <1>3, <2>1 DEF ArmyInv, SystemLandIsLeft
  <2>. QED  BY <1>1, <1>3, <1>4, <2>3, <2>4, AssembledBare
<1>6. CASE RemoveFromRole(p)
  <2>1. /\ owner' = [owner EXCEPT ![p] = NoRole] /\ forts' = forts \ {p}
        /\ leaving' = leaving \cup {p} /\ UNCHANGED giveUpIdChan
    BY <1>6 DEF RemoveFromRole
  <2>2. owner' \in [Lands -> Roles \cup {NoRole}] /\ forts' \subseteq Lands /\ leaving' \subseteq Lands
    BY <1>2, <2>1 DEF LandsTyped
  <2>3. LandsTyped'
    BY <1>2, <1>3, <2>1, <2>2, Zenon DEF LandsTyped
  <2>4. owner \in [Lands -> Roles \cup {NoRole}]
    BY <1>2 DEF LandsTyped
  <2>5. SystemLandIsLeft'
    BY <1>3, <2>1, <2>4 DEF ArmyInv, SystemLandIsLeft
  <2>. QED  BY <1>1, <1>3, <1>4, <2>3, <2>5, AssembledBare
<1>7. CASE GiveUp(p)
  <2>1. /\ leaving' = leaving \ {p} /\ giveUpIdChan' = Append(giveUpIdChan, p)
        /\ UNCHANGED <<owner, forts>>
    BY <1>7 DEF GiveUp
  <2>2. giveUpIdChan \in Seq(Lands) /\ giveUpIdChan' \in Seq(Lands) /\ leaving' \subseteq Lands
    BY <1>2, <2>1, AppendProperties DEF LandsTyped
  <2>3. LandsTyped'
    BY <1>2, <1>3, <2>1, <2>2, Zenon DEF LandsTyped
  <2>4. leaving \cup ToSet(giveUpIdChan) \subseteq leaving' \cup ToSet(giveUpIdChan')
    <3>1. ToSet(Append(giveUpIdChan, p)) = ToSet(giveUpIdChan) \cup {p}
      BY <2>2, WithOneMore
    <3>. QED  BY <2>1, <3>1
  <2>5. SystemLandIsLeft'
    BY <1>3, <2>1, <2>4 DEF ArmyInv, SystemLandIsLeft
  <2>. QED  BY <1>1, <1>3, <1>4, <2>3, <2>5, AssembledBare
<1>. QED  BY <1>5, <1>6, <1>7

LEMMA NothingOnTheWay == \A F : <<>> \in Seq(F)
BY EmptySeq

LEMMA RestartKeepsInv == ArmyInv /\ Restart => ArmyInv'
<1>. SUFFICES ASSUME ArmyInv, Restart PROVE ArmyInv'
  OBVIOUS
<1>1. PICK F : F = {}
  OBVIOUS
<1>2. /\ rows' = [a \in Armies |-> [rows[a] EXCEPT !.end = 0]]
      /\ orders' = [s \in Slots |-> Blank]
      /\ endTimeArmys' = [e \in Seconds |-> <<>>] /\ checking' = NotChecking
      /\ arriveArmyChan' = <<>> /\ updateArmyChan' = <<>> /\ giveUpIdChan' = <<>>
      /\ stopInPosArmys' = [p \in Places |-> {}]
      /\ leaving' = {} /\ stuck' = FALSE
      /\ UNCHANGED <<owner, forts, parent, assigns>>
  BY Zenon DEF Restart
<1>3. LandsTyped
  BY DEF ArmyInv, TypeOK, LandsTyped
<1>4. WalkGood(F, checking')
  BY <1>2, NotWalking
<1>5. InUse(F)'
  <2>1. checking'.array \in Seq(F)
    BY <1>4 DEF WalkGood, Walks
  <2>. QED  BY <1>2, <2>1, NothingOnTheWay DEF InUse
<1>6. LandsTyped'
  <2>1. \A r \in Row : [r EXCEPT !.end = 0] \in Row
    BY DEF Row
  <2>2. rows' \in [Armies -> Row]
    BY <1>2, <1>3, <2>1 DEF LandsTyped
  <2>3. giveUpIdChan' \in Seq(Lands) /\ leaving' \subseteq Lands
    BY <1>2, NothingOnTheWay
  <2>. QED  BY <1>2, <1>3, <2>2, <2>3, Zenon DEF LandsTyped
<1>7. SystemLandIsLeft'
  BY <1>2 DEF SystemLandIsLeft, Places
<1>8. Referenced' \subseteq F
  BY <1>5, InUseBoundsNext
<1>9. F \in SUBSET Slots /\ orders' \in [Slots -> {Blank} \cup Contents]
      /\ \A s \in Referenced' : orders'[s] # Blank
  BY <1>1, <1>2, <1>8
<1>. QED  BY <1>4, <1>5, <1>6, <1>7, <1>9, Typed

LEMMA ArmyStarts == Init => ArmyInv
<1>. SUFFICES ASSUME Init PROVE ArmyInv
  OBVIOUS
<1>1. PICK F : F = {}
  OBVIOUS
<1>2. /\ owner = InitOwner /\ forts \in SUBSET {p \in Lands : owner[p] # NoRole}
      /\ parent = [r \in Roles |-> 0]
      /\ rows = [a \in Armies |-> [cmd |-> "idle", from |-> InitFrom[a], end |-> 0]]
      /\ orders = [s \in Slots |-> Blank]
      /\ endTimeArmys = [e \in Seconds |-> <<>>] /\ checking = NotChecking
      /\ arriveArmyChan = <<>> /\ updateArmyChan = <<>> /\ giveUpIdChan = <<>>
      /\ stopInPosArmys = [p \in Places |-> {}]
      /\ leaving = {} /\ assigns = 0 /\ stuck = FALSE
  BY Zenon DEF Init
<1>3. \A G : WalkGood(G, checking)
  BY <1>2, NotWalking
<1>4. checking.array \in Seq(F) /\ checking.array \in Seq(Slots) /\ checking.second \in Seconds \cup {0}
  BY <1>3 DEF WalkGood, Walks
<1>5. Referenced = {}
  <2>1. InUse(F)
    BY <1>2, <1>4, NothingOnTheWay DEF InUse
  <2>. QED  BY <1>1, <2>1, InUseBounds
<1>6. rows \in [Armies -> Row]
  <2>1. \A a \in Armies : InitFrom[a] \in Places
    BY ArmyAssumption DEF Places
  <2>2. \A a \in Armies : [cmd |-> "idle", from |-> InitFrom[a], end |-> 0] \in Row
    BY <2>1 DEF Row, Cmds
  <2>. QED  BY <1>2, <2>2
<1>7. /\ owner \in [Lands -> Roles \cup {NoRole}] /\ forts \subseteq Lands
      /\ parent \in [Roles -> Nat] /\ assigns \in 0..MaxAssigns
  BY <1>2, ArmyAssumption
<1>8. /\ endTimeArmys \in [Seconds -> Seq(Slots)]
      /\ arriveArmyChan \in Seq(Slots) /\ updateArmyChan \in Seq(Slots)
      /\ giveUpIdChan \in Seq(Lands) /\ leaving \subseteq Lands
      /\ stopInPosArmys \in [Places -> SUBSET Slots]
      /\ orders \in [Slots -> {Blank} \cup Contents]
  BY <1>2, NothingOnTheWay
<1>9. stuck \in BOOLEAN
  BY <1>2, Zenon
<1>10. TypeOK
  <2>1. \A s \in Referenced : orders[s] # Blank
    BY <1>5
  <2>. QED  BY <1>4, <1>6, <1>7, <1>8, <1>9, <2>1, Zenon DEF TypeOK, Contents
<1>11. SystemLandIsLeft
  BY <1>2 DEF SystemLandIsLeft, Places
<1>. QED  BY <1>3, <1>10, <1>11 DEF ArmyInv

LEMMA ArmyRests == ArmyInv /\ UNCHANGED vars => ArmyInv'
<1>. SUFFICES ASSUME ArmyInv, UNCHANGED vars PROVE ArmyInv'
  OBVIOUS
<1>1. PICK F : F = Referenced
  OBVIOUS
<1>2. InUse(F) /\ WalkGood(F, checking) /\ LandsTyped
  BY <1>1, ReferencedIs, WhatIsInUse
<1>3. UNCHANGED <<owner, forts, parent, rows, orders, endTimeArmys, checking, arriveArmyChan,
                  updateArmyChan, giveUpIdChan, stopInPosArmys, leaving, assigns, stuck>>
  BY DEF vars
<1>4. InUse(F)' /\ WalkGood(F, checking') /\ SystemLandIsLeft'
  BY <1>2, <1>3 DEF InUse, ArmyInv, SystemLandIsLeft
<1>5. LandsTyped'
  BY <1>2, <1>3, Zenon DEF LandsTyped
<1>. QED  BY <1>1, <1>3, <1>4, <1>5, AssembledBare

LEMMA ArmyInvIsInductive == ArmyInv /\ [Next]_vars => ArmyInv'
<1>. SUFFICES ASSUME ArmyInv, [Next]_vars PROVE ArmyInv'
  OBVIOUS
<1>1. CASE Players
  BY <1>1, PlayersKeepInv
<1>2. CASE Check
  BY <1>2, ArriveKeepsInv, EndSecondKeepsInv, StartSecondKeepsInv DEF Check
<1>3. CASE exeArrive
  BY <1>3, exeArriveKeepsInv
<1>4. CASE exeUpdate
  BY <1>4, exeUpdateKeepsInv
<1>5. CASE \E e \in Seconds : GiveUpPosId(e)
  BY <1>5, GiveUpPosIdKeepsInv
<1>6. CASE \E p \in Lands : BuildFort(p) \/ RemoveFromRole(p) \/ GiveUp(p)
  BY <1>6, LandsKeepInv
<1>7. CASE Restart
  BY <1>7, RestartKeepsInv
<1>8. CASE UNCHANGED vars
  BY <1>8, ArmyRests
<1>. QED  BY <1>1, <1>2, <1>3, <1>4, <1>5, <1>6, <1>7, <1>8 DEF Next

-----------------------------------------------------------------------------
(* Who conquers a land.                                                     *)

Conquered(p) == owner'[p] # owner[p] /\ owner'[p] # NoRole

LEMMA BattlesConquer ==
    ASSUME ArmyInv, NEW s, NEW e \in Seconds, ArriveAtLand(s, e), NEW q \in Lands, Conquered(q)
    PROVE  stopInPosArmys'[q] = {}
<1>1. PICK p, met : p = orders[s].to /\ met = Garrison(p)
  OBVIOUS
<1>2. p \in Lands /\ p \in Places
  BY <1>1 DEF ArriveAtLand, Places
<1>3. PICK res \in Results(Len(met)) :
          /\ \/ /\ Won(Len(met), res)
                /\ owner' = [owner EXCEPT ![p] = OwnerOf[orders[s].army]]
             \/ UNCHANGED owner
          /\ Fights(s, orders, met, res, e)
  BY <1>1 DEF ArriveAtLand
<1>4. InUse(Slots)
  BY ReferencedIs, WhatIsInUse
<1>5. stopInPosArmys \in [Places -> SUBSET Slots]
  BY <1>4 DEF InUse
<1>6. q = p /\ Won(Len(met), res)
  <2>1. owner \in [Lands -> Roles \cup {NoRole}]
    BY DEF ArmyInv, TypeOK
  <2>. QED  BY <1>2, <1>3, <2>1 DEF Conquered
<1>7. PICK beaten : beaten = Beaten(met, res)
  OBVIOUS
<1>8. stopInPosArmys' = IF beaten = {} THEN stopInPosArmys
                        ELSE [stopInPosArmys EXCEPT ![p] = {}]
  BY <1>1, <1>3, <1>7 DEF Fights
<1>9. /\ met \in Seq(Slots) /\ DOMAIN met = 1..Len(met) /\ Len(met) \in Nat
      /\ Len(met) = 0 => stopInPosArmys[p] = {}
  <2>1. Garrison(p) \in Seq(Slots) /\ (Len(Garrison(p)) = 0 => stopInPosArmys[p] = {})
    BY <1>2, <1>5, GarrisonIs
  <2>. QED  BY <1>1, <2>1, LenProperties
<1>10. CASE Len(met) = 0
  <2>1. beaten = {}
    BY <1>7, <1>9, <1>10 DEF Beaten
  <2>. QED  BY <1>6, <1>8, <1>9, <1>10, <2>1
<1>11. CASE Len(met) # 0
  <2>1. Len(met) \in beaten
    BY <1>6, <1>7, <1>9, <1>11 DEF Won, Beaten
  <2>. QED  BY <1>2, <1>5, <1>6, <1>8, <2>1
<1>. QED  BY <1>10, <1>11

LEMMA OnlyBattlesConquer ==
    ASSUME ArmyInv, [Next]_vars, NEW q \in Lands, Conquered(q)
    PROVE  stopInPosArmys'[q] = {}
<1>1. owner' # owner
  BY DEF Conquered
<1>2. ~Players
  BY <1>1 DEF Players, Attack, Defend, Transfer, Order, Recall, Assign, landVars
<1>3. ~Check
  BY <1>1 DEF Check, Arrive, EndSecond, StartSecond, landVars
<1>4. ~exeUpdate /\ ~(\E e \in Seconds : GiveUpPosId(e)) /\ ~Restart
  BY <1>1 DEF exeUpdate, GiveUpPosId, Restart, landVars
<1>5. UNCHANGED vars => FALSE
  BY <1>1 DEF vars
<1>6. \A p \in Lands : ~(BuildFort(p) \/ RemoveFromRole(p) \/ GiveUp(p))
  <2>1. owner \in [Lands -> Roles \cup {NoRole}]
    BY DEF ArmyInv, TypeOK
  <2>2. ASSUME NEW p \in Lands, RemoveFromRole(p) PROVE FALSE
    <3>1. owner' = [owner EXCEPT ![p] = NoRole]
      BY <2>2 DEF RemoveFromRole
    <3>. QED  BY <2>1, <3>1 DEF Conquered
  <2>. QED  BY <1>1, <2>2 DEF BuildFort, GiveUp
<1>7. exeArrive
  BY <1>2, <1>3, <1>4, <1>5, <1>6 DEF Next
<1>8. PICK s \in Slots, e \in Seconds : ArriveAtLand(s, e)
  BY <1>1, <1>7 DEF exeArrive, ArriveInPeace, ArriveBack, ArriveAtCity, ArriveDefend, ArriveTransfer
<1>. QED  BY <1>8, BattlesConquer

-----------------------------------------------------------------------------
(* The invariant of the marches.                                            *)
THEOREM ArmyInvariantHolds == Spec => []ArmyInv
<1>1. Init => ArmyInv
  BY ArmyStarts
<1>2. ArmyInv /\ [Next]_vars => ArmyInv'
  BY ArmyInvIsInductive
<1>. QED  BY <1>1, <1>2, PTL DEF Spec

(* Whatever waits in a channel, is filed under a second or stands at a      *)
(* place is a copy that exists (army.go: the pointers that check, running   *)
(* and the garrisons hand to each other), and rows, channels and places     *)
(* hold what they should.                                                   *)
THEOREM ArmyTypeCorrect == Spec => []TypeOK
<1>1. ArmyInv => TypeOK
  BY DEF ArmyInv
<1>. QED  BY <1>1, ArmyInvariantHolds, PTL

(* A land that belongs to nobody has no garrison, but for the time its      *)
(* report is on its way to running (roleBuild.go:272, army.go:525).         *)
THEOREM NobodyStaysOnSystemLand == Spec => []SystemLandIsLeft
<1>1. ArmyInv => SystemLandIsLeft
  BY DEF ArmyInv
<1>. QED  BY <1>1, ArmyInvariantHolds, PTL

(* A role that takes a land takes it without its former garrison            *)
(* (army.go: executeBuild after trigger).                                   *)
THEOREM ConquerorsStandAlone == Spec => ConquestClearsLand
<1>1. ArmyInv /\ [Next]_vars =>
          [\A p \in Lands : owner'[p] # owner[p] /\ owner'[p] # NoRole => stopInPosArmys'[p] = {}]_vars
  BY OnlyBattlesConquer DEF Conquered
<1>. QED  BY <1>1, ArmyInvariantHolds, PTL DEF Spec, ConquestClearsLand

(* The results of the battles an army fights (trigger in army.go, ArmyWar   *)
(* in war.go) are among those Army chooses from for as many enemies: what   *)
(* is shown of Army, whichever it chooses, holds of what War yields.        *)
THEOREM BattlesEndAsSaid == WarSpec => [](results \in Results(Len(results)))
<1>1. WarInv => results \in Results(Len(results))
  <2>. SUFFICES ASSUME WarInv PROVE results \in Results(Len(results))
    OBVIOUS
  <2>1. results \in Seq(Outcomes) /\ LostStaysLost
    BY DEF WarInv, WarTypeOK, OutcomeIsEarned
  <2>2. PICK n \in Nat : n = Len(results)
    BY <2>1, LenProperties
  <2>3. results \in [1..n -> Outcomes] /\ DOMAIN results = 1..n
    BY <2>1, <2>2, LenProperties
  <2>4. \A i, j \in 1..n : i < j /\ results[i] = "lost" => results[j] = "lost"
    BY <2>1, <2>3 DEF LostStaysLost
  <2>. QED  BY <2>2, <2>3, <2>4 DEF Results, Outcomes
<1>. QED  BY <1>1, WarInvariantHolds, PTL
==============================================================================
