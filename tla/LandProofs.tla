----------------------------- MODULE LandProofs ------------------------------
(***************************************************************************)
(* Proofs about Land: for any roles, places, limits and times, the list of *)
(* a role's land agrees with the rows of the map, no role owns more land   *)
(* than it may, and a give-up is one its owner asked for.                  *)
(***************************************************************************)
EXTENDS Land, SequenceTheorems, FiniteSetTheorems, FunctionTheorems, TLAPS

-----------------------------------------------------------------------------
(* The length of the list is what conquest looks at.                        *)
ShortLists == \A r \in Roles : Len(roleRB[r]) <= BuildLimit

(* A row nobody has queued is in the database, but for its level.           *)
Written ==
    \A c \in Known \ rbChan :
        /\ db[c].rid = posRB[c].rid
        /\ db[c].occupyTime = posRB[c].occupyTime
        /\ db[c].giveUpTime = posRB[c].giveUpTime

Inv == LandIndexAgrees /\ ShortLists /\ Written /\ GiveUpIsOwners

-----------------------------------------------------------------------------
(* Lists without repetition.                                                *)

LEMMA ListOfASet ==
    ASSUME NEW S, IsFiniteSet(S)
    PROVE  /\ SetToSeq(S) \in Seq(S) /\ IsInjective(SetToSeq(S)) /\ ToSet(SetToSeq(S)) = S
           /\ Len(SetToSeq(S)) = Cardinality(S)
<1>1. PICK n : n = Cardinality(S)
  OBVIOUS
<1>2. n \in Nat /\ ExistsBijection(1..n, S)
  BY <1>1, FS_CardinalityType
<1>3. \E f \in [1..n -> S] : IsInjective(f)
  <2>1. PICK f : f \in Bijection(1..n, S)
    BY <1>2 DEF ExistsBijection
  <2>2. f \in [1..n -> S] /\ \A a, b \in 1..n : f[a] = f[b] => a = b
    BY <2>1, Fun_BijectionProperties
  <2>. QED  BY <2>2 DEF IsInjective
<1>4. PICK list : list = SetToSeq(S)
  OBVIOUS
<1>5. list \in [1..n -> S] /\ IsInjective(list)
  BY <1>1, <1>3, <1>4 DEF SetToSeq
<1>6. list \in Seq(S) /\ Len(list) = n /\ DOMAIN list = 1..n
  BY <1>2, <1>5
<1>7. list \in Surjection(1..n, S)
  <2>1. list \in Injection(1..n, S)
    BY <1>5 DEF Injection
  <2>2. IsFiniteSet(1..n) /\ Cardinality(1..n) = n
    BY <1>2, FS_Interval
  <2>. QED  BY <1>1, <2>1, <2>2, FS_Injection
<1>8. \A x \in S : \E i \in 1..n : list[i] = x
  BY <1>7 DEF Surjection
<1>. QED  BY <1>1, <1>4, <1>5, <1>6, <1>8 DEF ToSet

(* No repetition: the set is as large as the list is long.                  *)
LEMMA SizeOfAList ==
    ASSUME NEW S, NEW list \in Seq(S)
    PROVE  /\ IsFiniteSet(ToSet(list)) /\ Cardinality(ToSet(list)) <= Len(list)
           /\ Cardinality(ToSet(list)) \in Nat /\ Len(list) \in Nat
<1>1. Len(list) \in Nat /\ DOMAIN list = 1..Len(list)
  BY LenProperties
<1>2. list \in Surjection(1..Len(list), ToSet(list))
  BY <1>1, LenProperties, Fun_IsSurj DEF ToSet
<1>3. IsFiniteSet(1..Len(list)) /\ Cardinality(1..Len(list)) = Len(list)
  BY <1>1, FS_Interval
<1>4. IsFiniteSet(ToSet(list)) /\ Cardinality(ToSet(list)) <= Cardinality(1..Len(list))
  BY <1>2, <1>3, FS_Surjection
<1>. QED  BY <1>1, <1>3, <1>4, FS_CardinalityType

LEMMA AddedToList ==
    ASSUME NEW S, NEW list \in Seq(S), NEW e \in S, IsInjective(list), e \notin ToSet(list)
    PROVE  /\ Append(list, e) \in Seq(S) /\ IsInjective(Append(list, e))
           /\ ToSet(Append(list, e)) = ToSet(list) \cup {e}
           /\ Len(Append(list, e)) = Len(list) + 1
<1>1. /\ Len(list) \in Nat /\ DOMAIN list = 1..Len(list)
      /\ Append(list, e) \in Seq(S) /\ Len(Append(list, e)) = Len(list) + 1
      /\ \A i \in 1..Len(list) : Append(list, e)[i] = list[i]
      /\ Append(list, e)[Len(list) + 1] = e
  BY LenProperties, AppendProperties
<1>2. DOMAIN Append(list, e) = 1..Len(list) + 1
  BY <1>1, LenProperties
<1>. QED  BY <1>1, <1>2 DEF IsInjective, ToSet

LEMMA RemovedFromList ==
    ASSUME NEW S, NEW list \in Seq(S), NEW e, IsInjective(list)
    PROVE  /\ RemoveFirst(list, e) \in Seq(S) /\ IsInjective(RemoveFirst(list, e))
           /\ ToSet(RemoveFirst(list, e)) = ToSet(list) \ {e}
           /\ Len(RemoveFirst(list, e)) <= Len(list)
<1>1. PICK n : n = Len(list)
  OBVIOUS
<1>2. n \in Nat /\ DOMAIN list = 1..n /\ \A i \in 1..n : list[i] \in S
  BY <1>1, LenProperties
<1>3. CASE ~\E i \in 1..n : list[i] = e
  BY <1>1, <1>2, <1>3 DEF RemoveFirst, ToSet
<1>4. CASE \E i \in 1..n : list[i] = e
  <2>1. PICK k \in 1..n : list[k] = e
    BY <1>4
  <2>2. \A i \in 1..n : list[i] = e <=> i = k
    BY <1>2, <2>1 DEF IsInjective
  <2>3. SelectInSeq(list, LAMBDA v : v = e) = k
    <3>1. {i \in 1..n : list[i] = e} = {k}
      BY <2>2
    <3>2. Min({k}) = k
      BY <2>1 DEF Min
    <3>. QED  BY <1>1, <3>1, <3>2 DEF SelectInSeq
  <2>4. PICK before, after : before = SubSeq(list, 1, k - 1) /\ after = SubSeq(list, k + 1, n)
    OBVIOUS
  <2>5. RemoveFirst(list, e) = before \o after
    BY <1>1, <1>4, <2>3, <2>4 DEF RemoveFirst, RemoveAt
  <2>6. /\ before \in Seq(S) /\ Len(before) = k - 1
        /\ \A i \in 1..k - 1 : before[i] = list[i]
    BY <1>2, <2>4, SubSeqProperties
  <2>7. /\ after \in Seq(S) /\ Len(after) = n - k
        /\ \A i \in 1..n - k : after[i] = list[k + i]
    BY <1>2, <2>4, SubSeqProperties
  <2>8. PICK rest : rest = before \o after
    OBVIOUS
  <2>9. /\ rest \in Seq(S) /\ Len(rest) = n - 1
        /\ \A i \in 1..n - 1 : rest[i] = IF i < k THEN list[i] ELSE list[i + 1]
    BY <1>2, <2>1, <2>6, <2>7, <2>8, ConcatProperties
  <2>10. DOMAIN rest = 1..n - 1
    BY <2>9, LenProperties
  <2>11. IsInjective(rest)
    <3>1. SUFFICES ASSUME NEW i \in 1..n - 1, NEW j \in 1..n - 1, rest[i] = rest[j] PROVE i = j
      BY <2>10 DEF IsInjective
    <3>2. PICK a, b : a = (IF i < k THEN i ELSE i + 1) /\ b = (IF j < k THEN j ELSE j + 1)
      OBVIOUS
    <3>3. a \in 1..n /\ b \in 1..n /\ list[a] = list[b]
      BY <1>2, <2>1, <2>9, <3>1, <3>2
    <3>4. a = b
      BY <1>2, <3>3 DEF IsInjective
    <3>. QED  BY <1>2, <2>1, <3>2, <3>4
  <2>12. ToSet(rest) = ToSet(list) \ {e}
    <3>1. ASSUME NEW x \in ToSet(rest) PROVE x \in ToSet(list) \ {e}
      BY <1>2, <2>2, <2>9, <2>10 DEF ToSet
    <3>2. ASSUME NEW x \in ToSet(list) \ {e} PROVE x \in ToSet(rest)
      <4>1. PICK i \in 1..n : list[i] = x /\ i # k
        BY <1>2, <2>1 DEF ToSet
      <4>2. CASE i < k
        <5>1. i \in 1..n - 1 /\ rest[i] = x
          BY <1>2, <2>1, <2>9, <4>1, <4>2
        <5>. QED  BY <2>10, <5>1 DEF ToSet
      <4>3. CASE i > k
        <5>1. i - 1 \in 1..n - 1 /\ rest[i - 1] = x
          BY <1>2, <2>1, <2>9, <4>1, <4>3
        <5>. QED  BY <2>10, <5>1 DEF ToSet
      <4>. QED  BY <4>1, <4>2, <4>3
    <3>. QED  BY <3>1, <3>2
  <2>. QED  BY <1>1, <1>2, <2>5, <2>8, <2>9, <2>11, <2>12
<1>. QED  BY <1>1, <1>3, <1>4

-----------------------------------------------------------------------------
(* Rows.                                                                    *)

LEMMA Numbers ==
    /\ BuildLimit \in Nat /\ FortressLimit \in Nat /\ MaxLevel \in Nat /\ WarFree \in Nat
    /\ GiveUpTime \in Nat /\ BuildTime \in Nat /\ Window \in Nat /\ MaxTime \in Nat
    /\ MaxDown \in Nat /\ MaxRestarts \in Nat /\ GiveUpTime > 0 /\ MaxTime > 0
    /\ Never \in Int /\ NoRole \notin Roles /\ SysBuilds \subseteq Cells
BY LandAssumption DEF Never

LEMMA FreshRow ==
    ASSUME NEW c, NEW r \in Roles \cup {NoRole}, NEW t \in Times \cup {Never}
    PROVE  /\ Fresh(c, r) \in Row /\ Fresh(c, r).rid = r
           /\ [Fresh(c, r) EXCEPT !.occupyTime = t] \in Row
           /\ [Fresh(c, r) EXCEPT !.occupyTime = t].rid = r
           /\ [Fresh(c, r) EXCEPT !.occupyTime = t].giveUpTime = 0
<1>1. 1 \in 0..MaxLevel + 1 /\ 0 \in 0..MaxTime + BuildTime /\ 0 \in 0..MaxTime
  BY Numbers
<1>2. Natural(c) \in {"land", "system", "fortress"}
  BY DEF Natural
<1>3. Never \in Times \cup {Never}
  OBVIOUS
<1>. HIDE DEF Never, Times
<1>. QED  BY <1>1, <1>2, <1>3 DEF Fresh, Row

LEMMA NumbersOfRow ==
    ASSUME NEW row \in Row
    PROVE  /\ row.rid \in Roles \cup {NoRole} /\ row.occupyTime \in Int
           /\ row.occupyTime \in Times \cup {Never}
           /\ row.giveUpTime \in Nat /\ row.endTime \in Nat
           /\ row.level \in Nat /\ row.opLevel \in Nat
BY Numbers DEF Row, Times

(* What RemoveFromRole leaves of the lists.                                 *)
LEMMA Unlisted ==
    ASSUME TypeOK, Inv, NEW c \in Known
    PROVE  /\ Unlist(c) \in [Roles -> Seq(Cells)]
           /\ \A q \in Roles :
                 /\ IsInjective(Unlist(c)[q]) /\ ToSet(Unlist(c)[q]) = RowsOf(q, posRB) \ {c}
                 /\ Len(Unlist(c)[q]) <= BuildLimit
                 /\ q # Owner(c) => Unlist(c)[q] = roleRB[q]
<1>1. PICK owner : owner = Owner(c)
  OBVIOUS
<1>2. /\ roleRB \in [Roles -> Seq(Cells)]
      /\ \A q \in Roles : /\ IsInjective(roleRB[q]) /\ ToSet(roleRB[q]) = RowsOf(q, posRB)
                          /\ Len(roleRB[q]) <= BuildLimit /\ Len(roleRB[q]) \in Nat
  BY LenProperties DEF TypeOK, Inv, LandIndexAgrees, ShortLists
<1>3. \A q \in Roles : q # owner => RowsOf(q, posRB) \ {c} = RowsOf(q, posRB)
  BY <1>1 DEF RowsOf, Owner
<1>4. CASE owner \notin Roles
  BY <1>1, <1>2, <1>3, <1>4 DEF Unlist
<1>5. CASE owner \in Roles
  <2>1. PICK list : list = RemoveFirst(roleRB[owner], c)
    OBVIOUS
  <2>2. /\ list \in Seq(Cells) /\ IsInjective(list) /\ ToSet(list) = RowsOf(owner, posRB) \ {c}
        /\ Len(list) <= Len(roleRB[owner]) /\ Len(list) \in Nat
    BY <1>2, <1>5, <2>1, RemovedFromList, LenProperties
  <2>3. Unlist(c) = [roleRB EXCEPT ![owner] = list]
    BY <1>1, <1>5, <2>1 DEF Unlist
  <2>. QED  BY <1>1, <1>2, <1>3, <1>5, <2>2, <2>3, Numbers
<1>. QED  BY <1>4, <1>5

LEMMA Unscheduled ==
    ASSUME TypeOK, NEW c
    PROVE  Unschedule(c) \in [Times -> SUBSET Known]
BY DEF TypeOK, Unschedule

-----------------------------------------------------------------------------
LEMMA InvHoldsAtInit == Init => TypeOK /\ Inv
<1>. SUFFICES ASSUME Init PROVE TypeOK /\ Inv
  OBVIOUS
<1>1. /\ now = 1 /\ Known = SysBuilds /\ \A c \in SysBuilds : posRB[c] = Stored(c)
      /\ roleRB = [r \in Roles |-> <<>>] /\ giveUpRB = [t \in Times |-> {}]
      /\ removing = {} /\ rbChan = {} /\ db = posRB /\ restarts = 0
  BY DEF Init, Known
<1>2. \A c \in SysBuilds : /\ Stored(c) \in Row /\ Stored(c).rid = NoRole
                           /\ Stored(c).giveUpTime = 0
  <2>1. SUFFICES ASSUME NEW c \in SysBuilds
                 PROVE Stored(c) \in Row /\ Stored(c).rid = NoRole /\ Stored(c).giveUpTime = 0
    OBVIOUS
  <2>2. Fresh(c, NoRole) \in Row /\ Fresh(c, NoRole).rid = NoRole /\ Fresh(c, NoRole).giveUpTime = 0
    BY FreshRow DEF Fresh
  <2>3. 0 \in 0..MaxLevel + 1
    BY Numbers
  <2>. QED  BY <2>2, <2>3 DEF Stored, Row
<1>3. TypeOK
  <2>1. swept \in BOOLEAN
    BY Zenon DEF Init
  <2>2. now \in Times
    BY <1>1, Numbers DEF Times
  <2>3. roleRB \in [Roles -> Seq(Cells)] /\ giveUpRB \in [Times -> SUBSET Known]
    BY <1>1, EmptySeq
  <2>. QED  BY <1>1, <1>2, <2>1, <2>2, <2>3, Numbers DEF TypeOK, Known
<1>4. LandIndexAgrees
  <2>1. \A r \in Roles : RowsOf(r, posRB) = {}
    BY <1>1, <1>2, Numbers DEF RowsOf, Known
  <2>2. IsInjective(<<>>) /\ ToSet(<<>>) = {}
    BY DEF IsInjective, ToSet
  <2>. QED  BY <1>1, <2>1, <2>2 DEF LandIndexAgrees
<1>5. ShortLists
  BY <1>1, Numbers DEF ShortLists
<1>. QED  BY <1>1, <1>2, <1>3, <1>4, <1>5 DEF Inv, Written, GiveUpIsOwners

(* A row is changed, by its owner: build, upBuild, giveUp.                  *)
LEMMA Retouched ==
    ASSUME TypeOK, Inv, NEW c \in Known, NEW row \in Row,
           row.rid = posRB[c].rid, row.occupyTime = posRB[c].occupyTime,
           row.giveUpTime # 0 => row.giveUpTime >= row.occupyTime + WarFree + GiveUpTime,
           posRB' = [posRB EXCEPT ![c] = row],
           \/ rbChan' = rbChan \cup {c}
           \/ rbChan' = rbChan /\ row.giveUpTime = posRB[c].giveUpTime,
           giveUpRB' \in [Times -> SUBSET Known],
           UNCHANGED <<now, roleRB, removing, swept, db, restarts>>
    PROVE  TypeOK' /\ Inv'
<1>1. Known' = Known /\ posRB'[c] = row /\ \A d \in Known : d # c => posRB'[d] = posRB[d]
  BY DEF Known
<1>2. TypeOK'
  BY <1>1 DEF TypeOK
<1>3. \A r \in Roles : RowsOf(r, posRB)' = RowsOf(r, posRB)
  BY <1>1 DEF RowsOf
<1>4. LandIndexAgrees' /\ ShortLists'
  BY <1>3 DEF Inv, LandIndexAgrees, ShortLists
<1>5. Written'
  BY <1>1 DEF Inv, Written
<1>6. GiveUpIsOwners'
  BY <1>1 DEF Inv, GiveUpIsOwners
<1>. QED  BY <1>2, <1>4, <1>5, <1>6 DEF Inv

LEMMA BuildKeepsInv ==
    ASSUME TypeOK, Inv, NEW r \in Roles, NEW c \in Cells, Build(r, c)
    PROVE  TypeOK' /\ Inv'
<1>1. PICK row : row = [posRB[c] EXCEPT !.type = "fortress", !.level = 1 - 1, !.opLevel = 1,
                                        !.giveUpTime = 0, !.endTime = now + BuildTime]
  OBVIOUS
<1>2. c \in Known /\ posRB' = [posRB EXCEPT ![c] = row] /\ rbChan' = rbChan \cup {c}
      /\ UNCHANGED <<now, roleRB, giveUpRB, removing, swept, db, restarts>>
  BY <1>1 DEF Build, BuildOrUp
<1>3. posRB[c] \in Row /\ now \in 1..MaxTime
  BY <1>2 DEF TypeOK, Times
<1>4. row \in Row /\ row.rid = posRB[c].rid /\ row.occupyTime = posRB[c].occupyTime
      /\ row.giveUpTime = 0
  <2>1. /\ now + BuildTime \in 0..MaxTime + BuildTime /\ 0 \in 0..MaxTime
        /\ 1 - 1 \in 0..MaxLevel + 1 /\ 1 \in 0..MaxLevel + 1
    BY <1>3, Numbers
  <2>. QED  BY <1>1, <1>3, <2>1 DEF Row
<1>5. giveUpRB' \in [Times -> SUBSET Known]
  BY <1>2 DEF TypeOK
<1>. QED  BY <1>2, <1>4, <1>5, Retouched

LEMMA UpBuildKeepsInv ==
    ASSUME TypeOK, Inv, NEW r \in Roles, NEW c \in Cells, UpBuild(r, c)
    PROVE  TypeOK' /\ Inv'
<1>1. PICK old : old = posRB[c]
  OBVIOUS
<1>2. PICK reached : reached = (IF now >= old.endTime THEN old.opLevel ELSE old.level)
  OBVIOUS
<1>3. /\ c \in Known
      /\ UNCHANGED <<now, roleRB, giveUpRB, removing, swept, db, restarts>>
      /\ \/ reached < MaxLevel /\ BuildOrUp(c, reached + 1)
         \/ posRB' = [posRB EXCEPT ![c].level = reached] /\ rbChan' = rbChan
  BY <1>1, <1>2 DEF UpBuild
<1>4. old \in Row /\ now \in 1..MaxTime
  BY <1>1, <1>3 DEF TypeOK, Times
<1>5. reached \in 0..MaxLevel + 1
  BY <1>2, <1>4 DEF Row
<1>6. giveUpRB' \in [Times -> SUBSET Known]
  BY <1>3 DEF TypeOK
<1>7. CASE reached < MaxLevel /\ BuildOrUp(c, reached + 1)
  <2>1. PICK row : row = [posRB[c] EXCEPT !.type = "fortress", !.level = (reached + 1) - 1,
                              !.opLevel = reached + 1, !.giveUpTime = 0, !.endTime = now + BuildTime]
    OBVIOUS
  <2>2. posRB' = [posRB EXCEPT ![c] = row] /\ rbChan' = rbChan \cup {c}
    BY <1>7, <2>1 DEF BuildOrUp
  <2>3. row \in Row /\ row.rid = old.rid /\ row.occupyTime = old.occupyTime /\ row.giveUpTime = 0
    <3>1. /\ now + BuildTime \in 0..MaxTime + BuildTime /\ 0 \in 0..MaxTime
          /\ (reached + 1) - 1 \in 0..MaxLevel + 1 /\ reached + 1 \in 0..MaxLevel + 1
      BY <1>4, <1>5, <1>7, Numbers
    <3>. QED  BY <1>1, <1>4, <2>1, <3>1 DEF Row
  <2>. QED  BY <1>1, <1>3, <1>6, <2>2, <2>3, Retouched
<1>8. CASE posRB' = [posRB EXCEPT ![c].level = reached] /\ rbChan' = rbChan
  <2>1. PICK row : row = [old EXCEPT !.level = reached]
    OBVIOUS
  <2>2. posRB' = [posRB EXCEPT ![c] = row]
    BY <1>1, <1>8, <2>1
  <2>3. row \in Row /\ row.rid = old.rid /\ row.occupyTime = old.occupyTime
        /\ row.giveUpTime = old.giveUpTime
    BY <1>4, <1>5, <2>1 DEF Row
  <2>4. row.giveUpTime # 0 => row.giveUpTime >= row.occupyTime + WarFree + GiveUpTime
    BY <1>1, <1>3, <2>3 DEF Inv, GiveUpIsOwners
  <2>. QED  BY <1>1, <1>3, <1>6, <1>8, <2>2, <2>3, <2>4, Retouched
<1>. QED  BY <1>3, <1>7, <1>8

(* The owner has had the row for longer than the war-free time.             *)
LEMMA GiveUpKeepsInv ==
    ASSUME TypeOK, Inv, NEW r \in Roles, NEW c \in Cells, GiveUp(r, c)
    PROVE  TypeOK' /\ Inv'
<1>1. PICK row : row = [posRB[c] EXCEPT !.giveUpTime = now + GiveUpTime]
  OBVIOUS
<1>2. /\ c \in Known /\ ~IsWarFree(c) /\ now + GiveUpTime < MaxTime
      /\ posRB' = [posRB EXCEPT ![c] = row] /\ rbChan' = rbChan \cup {c}
      /\ giveUpRB' = [giveUpRB EXCEPT ![now + GiveUpTime] = @ \cup {c}]
      /\ UNCHANGED <<now, roleRB, removing, swept, db, restarts>>
  BY <1>1 DEF GiveUp, MayGiveUp
<1>3. posRB[c] \in Row /\ now \in 1..MaxTime
  BY <1>2 DEF TypeOK, Times
<1>4. row \in Row /\ row.rid = posRB[c].rid /\ row.occupyTime = posRB[c].occupyTime
      /\ row.giveUpTime = now + GiveUpTime
  BY <1>1, <1>2, <1>3, Numbers DEF Row
<1>5. row.giveUpTime >= row.occupyTime + WarFree + GiveUpTime
  BY <1>2, <1>3, <1>4, Numbers, NumbersOfRow DEF IsWarFree
<1>6. giveUpRB' \in [Times -> SUBSET Known]
  BY <1>2 DEF TypeOK
<1>. QED  BY <1>2, <1>4, <1>5, <1>6, Retouched

(* A row changes hands: to a role, or back to the system.                   *)
LEMMA HandedOver ==
    ASSUME TypeOK, Inv, NEW c \in Known, NEW row \in Row, row.giveUpTime = 0,
           posRB' = [posRB EXCEPT ![c] = row], rbChan' = rbChan \cup {c},
           giveUpRB' \in [Times -> SUBSET Known], roleRB' \in [Roles -> Seq(Cells)],
           \A q \in Roles :
              /\ IsInjective(roleRB'[q]) /\ Len(roleRB'[q]) <= BuildLimit
              /\ ToSet(roleRB'[q]) = IF q = row.rid THEN RowsOf(q, posRB) \cup {c}
                                                   ELSE RowsOf(q, posRB) \ {c},
           removing' \subseteq removing, UNCHANGED <<now, swept, db, restarts>>
    PROVE  TypeOK' /\ Inv'
<1>1. Known' = Known /\ posRB'[c] = row /\ \A d \in Known : d # c => posRB'[d] = posRB[d]
  BY DEF Known
<1>2. TypeOK'
  BY <1>1 DEF TypeOK
<1>3. \A q \in Roles : RowsOf(q, posRB)' = IF q = row.rid THEN RowsOf(q, posRB) \cup {c}
                                                          ELSE RowsOf(q, posRB) \ {c}
  BY <1>1 DEF RowsOf, Known
<1>4. LandIndexAgrees' /\ ShortLists'
  BY <1>3 DEF LandIndexAgrees, ShortLists
<1>5. Written'
  BY <1>1 DEF Inv, Written
<1>6. GiveUpIsOwners'
  BY <1>1 DEF Inv, GiveUpIsOwners
<1>. QED  BY <1>2, <1>4, <1>5, <1>6 DEF Inv

LEMMA OccupyKnownKeepsInv ==
    ASSUME TypeOK, Inv, NEW r \in Roles, NEW c \in Cells, Conquer(r, c), OccupyRoleBuild(r, c)
    PROVE  TypeOK' /\ Inv'
<1>1. PICK row : row = [Reset(c, posRB[c]) EXCEPT !.rid = r, !.occupyTime = now]
  OBVIOUS
<1>2. PICK lists : lists = Unlist(c)
  OBVIOUS
<1>3. /\ c \in Known /\ Owner(c) # r /\ Len(roleRB[r]) < BuildLimit
      /\ roleRB' = [lists EXCEPT ![r] = Append(@, c)] /\ giveUpRB' = Unschedule(c)
      /\ posRB' = [posRB EXCEPT ![c] = row] /\ rbChan' = rbChan \cup {c}
      /\ UNCHANGED <<now, removing, swept, db, restarts>>
  BY <1>1, <1>2 DEF Conquer, MayConquer, BuildCnt, IsCanDefend, OccupyRoleBuild
<1>4. row \in Row /\ row.rid = r /\ row.giveUpTime = 0
  <2>1. now \in Times
    BY DEF TypeOK
  <2>2. PICK reset : reset = Reset(c, posRB[c])
    OBVIOUS
  <2>3. reset \in Row /\ reset.giveUpTime = 0
    <3>1. posRB[c].occupyTime \in Times \cup {Never}
      BY <1>3, NumbersOfRow DEF TypeOK
    <3>. QED  BY <2>2, <3>1, FreshRow DEF Reset
  <2>. QED  BY <1>1, <2>1, <2>2, <2>3 DEF Row
<1>5. /\ lists \in [Roles -> Seq(Cells)] /\ lists[r] = roleRB[r]
      /\ \A q \in Roles : /\ IsInjective(lists[q]) /\ ToSet(lists[q]) = RowsOf(q, posRB) \ {c}
                          /\ Len(lists[q]) <= BuildLimit
  BY <1>2, <1>3, Unlisted
<1>6. PICK list : list = Append(lists[r], c)
  OBVIOUS
<1>7. /\ list \in Seq(Cells) /\ IsInjective(list) /\ ToSet(list) = RowsOf(r, posRB) \cup {c}
      /\ Len(list) <= BuildLimit
  <2>1. lists[r] \in Seq(Cells) /\ IsInjective(lists[r]) /\ c \notin ToSet(lists[r])
        /\ Len(lists[r]) \in Nat
    BY <1>5, LenProperties
  <2>2. /\ list \in Seq(Cells) /\ IsInjective(list) /\ ToSet(list) = ToSet(lists[r]) \cup {c}
        /\ Len(list) = Len(lists[r]) + 1
    BY <1>6, <2>1, AddedToList
  <2>. QED  BY <1>3, <1>5, <2>1, <2>2, Numbers
<1>8. roleRB' = [lists EXCEPT ![r] = list]
  BY <1>3, <1>6
<1>9. giveUpRB' \in [Times -> SUBSET Known]
  BY <1>3, Unscheduled
<1>10. \A q \in Roles :
          /\ IsInjective(roleRB'[q]) /\ Len(roleRB'[q]) <= BuildLimit
          /\ ToSet(roleRB'[q]) = IF q = row.rid THEN RowsOf(q, posRB) \cup {c}
                                               ELSE RowsOf(q, posRB) \ {c}
  BY <1>4, <1>5, <1>7, <1>8
<1>11. roleRB' \in [Roles -> Seq(Cells)]
  BY <1>5, <1>7, <1>8
<1>. QED  BY <1>3, <1>4, <1>9, <1>10, <1>11, HandedOver

LEMMA RemoveFromRoleKeepsInv ==
    ASSUME TypeOK, Inv, NEW c \in Cells, RemoveFromRole(c)
    PROVE  TypeOK' /\ Inv'
<1>1. PICK row : row = Reset(c, posRB[c])
  OBVIOUS
<1>2. c \in Known
  BY DEF RemoveFromRole, TypeOK
<1>3. /\ roleRB' = Unlist(c) /\ giveUpRB' = Unschedule(c) /\ removing' = removing \ {c}
      /\ posRB' = [posRB EXCEPT ![c] = row] /\ rbChan' = rbChan \cup {c}
      /\ UNCHANGED <<now, swept, db, restarts>>
  BY <1>1 DEF RemoveFromRole
<1>4. row \in Row /\ row.rid = NoRole /\ row.giveUpTime = 0
  <2>1. posRB[c].occupyTime \in Times \cup {Never}
    BY <1>2, NumbersOfRow DEF TypeOK
  <2>. QED  BY <1>1, <2>1, FreshRow DEF Reset
<1>5. giveUpRB' \in [Times -> SUBSET Known]
  BY <1>3, Unscheduled
<1>6. /\ roleRB' \in [Roles -> Seq(Cells)]
      /\ \A q \in Roles :
            /\ IsInjective(roleRB'[q]) /\ Len(roleRB'[q]) <= BuildLimit
            /\ ToSet(roleRB'[q]) = IF q = row.rid THEN RowsOf(q, posRB) \cup {c}
                                                 ELSE RowsOf(q, posRB) \ {c}
  BY <1>2, <1>3, <1>4, Unlisted, Numbers
<1>. QED  BY <1>2, <1>3, <1>4, <1>5, <1>6, HandedOver

LEMMA OccupyNewKeepsInv ==
    ASSUME TypeOK, Inv, NEW r \in Roles, NEW c \in Cells, Conquer(r, c), OccupySystemBuild(r, c)
    PROVE  TypeOK' /\ Inv'
<1>1. PICK row, stored : row = [Fresh(c, r) EXCEPT !.occupyTime = now] /\ stored = Fresh(c, r)
  OBVIOUS
<1>2. PICK list : list = Append(roleRB[r], c)
  OBVIOUS
<1>3. /\ c \notin Known /\ Len(roleRB[r]) < BuildLimit
      /\ roleRB' = [roleRB EXCEPT ![r] = list] /\ giveUpRB' = giveUpRB
      /\ posRB' = Inserted(posRB, c, row) /\ db' = Inserted(db, c, stored)
      /\ rbChan' = rbChan \cup {c}
      /\ UNCHANGED <<now, removing, swept, restarts>>
  BY <1>1, <1>2 DEF Conquer, MayConquer, BuildCnt, OccupySystemBuild
<1>4. /\ row \in Row /\ row.rid = r /\ row.giveUpTime = 0 /\ stored \in Row
  BY <1>1, FreshRow DEF TypeOK
<1>5. /\ Known' = Known \cup {c} /\ posRB'[c] = row /\ \A d \in Known : posRB'[d] = posRB[d]
  BY <1>3 DEF Inserted, Known
<1>6. /\ DOMAIN db' = Known \cup {c} /\ db'[c] = stored /\ \A d \in Known : db'[d] = db[d]
  BY <1>3 DEF Inserted, TypeOK, Known
<1>7. /\ list \in Seq(Cells) /\ IsInjective(list) /\ ToSet(list) = RowsOf(r, posRB) \cup {c}
      /\ Len(list) <= BuildLimit
  <2>1. /\ roleRB[r] \in Seq(Cells) /\ IsInjective(roleRB[r]) /\ ToSet(roleRB[r]) = RowsOf(r, posRB)
        /\ Len(roleRB[r]) \in Nat /\ c \notin RowsOf(r, posRB)
    BY <1>3, LenProperties DEF TypeOK, Inv, LandIndexAgrees, RowsOf, Known
  <2>2. /\ list \in Seq(Cells) /\ IsInjective(list) /\ ToSet(list) = ToSet(roleRB[r]) \cup {c}
        /\ Len(list) = Len(roleRB[r]) + 1
    BY <1>2, <2>1, AddedToList
  <2>. QED  BY <1>3, <2>1, <2>2, Numbers
<1>8. roleRB \in [Roles -> Seq(Cells)]
  BY DEF TypeOK
<1>9. TypeOK'
  <2>1. giveUpRB' \in [Times -> SUBSET Known']
    BY <1>3, <1>5 DEF TypeOK
  <2>2. roleRB' \in [Roles -> Seq(Cells)]
    BY <1>3, <1>7, <1>8
  <2>. QED  BY <1>3, <1>4, <1>5, <1>6, <2>1, <2>2 DEF TypeOK
<1>10. \A q \in Roles : RowsOf(q, posRB)' = IF q = r THEN RowsOf(q, posRB) \cup {c} ELSE RowsOf(q, posRB)
  BY <1>4, <1>5 DEF RowsOf, Known
<1>11. LandIndexAgrees' /\ ShortLists'
  BY <1>3, <1>7, <1>8, <1>10 DEF Inv, LandIndexAgrees, ShortLists
<1>12. Written'
  BY <1>3, <1>5, <1>6 DEF Inv, Written
<1>13. GiveUpIsOwners'
  BY <1>4, <1>5 DEF Inv, GiveUpIsOwners
<1>. QED  BY <1>9, <1>11, <1>12, <1>13 DEF Inv

-----------------------------------------------------------------------------
(* checkGiveUp collects places that have a row.                             *)
LEMMA CollectKeepsInv == TypeOK /\ Inv /\ Collect => TypeOK' /\ Inv'
<1>. SUFFICES ASSUME TypeOK, Inv, Collect PROVE TypeOK' /\ Inv'
  OBVIOUS
<1>1. /\ removing' = UNION {giveUpRB[t] : t \in Due} /\ swept' = TRUE
      /\ UNCHANGED <<now, posRB, roleRB, giveUpRB, rbChan, db, restarts>>
  BY DEF Collect
<1>2. removing' \subseteq Known
  <2>1. \A t \in Due : giveUpRB[t] \subseteq Known
    BY DEF TypeOK, Due
  <2>. QED  BY <1>1, <2>1
<1>3. swept' \in BOOLEAN
  BY <1>1, Zenon
<1>. QED  BY <1>1, <1>2, <1>3 DEF TypeOK, Inv, Known, LandIndexAgrees, ShortLists, Written,
     GiveUpIsOwners, RowsOf

LEMMA WriteKeepsInv ==
    ASSUME TypeOK, Inv, NEW c \in Cells, Write(c)
    PROVE  TypeOK' /\ Inv'
<1>1. /\ c \in Known /\ rbChan' = rbChan \ {c} /\ db' = [db EXCEPT ![c] = posRB[c]]
      /\ UNCHANGED <<now, posRB, roleRB, giveUpRB, removing, swept, restarts>>
  BY DEF Write, TypeOK
<1>2. /\ DOMAIN db' = Known /\ db'[c] = posRB[c] /\ \A d \in Known : d # c => db'[d] = db[d]
  BY <1>1 DEF TypeOK
<1>3. TypeOK'
  BY <1>1, <1>2 DEF TypeOK, Known
<1>4. Written'
  BY <1>1, <1>2 DEF Inv, Written, Known
<1>. QED  BY <1>1, <1>3, <1>4 DEF Inv, Known, LandIndexAgrees, ShortLists, GiveUpIsOwners, RowsOf

LEMMA TickKeepsInv == TypeOK /\ Inv /\ Tick => TypeOK' /\ Inv'
<1>. SUFFICES ASSUME TypeOK, Inv, Tick PROVE TypeOK' /\ Inv'
  OBVIOUS
<1>1. /\ now < MaxTime /\ now' = now + 1 /\ swept' = FALSE
      /\ UNCHANGED <<posRB, roleRB, giveUpRB, removing, rbChan, db, restarts>>
  BY DEF Tick
<1>2. now' \in Times /\ Times' = Times
  BY <1>1, Numbers DEF TypeOK, Times
<1>3. swept' \in BOOLEAN
  BY <1>1, Zenon
<1>. HIDE DEF Times
<1>. QED  BY <1>1, <1>2, <1>3 DEF TypeOK, Inv, Known, LandIndexAgrees, ShortLists, Written,
     GiveUpIsOwners, RowsOf

(* The indexes are rebuilt from rows that were all written.                 *)
LEMMA RestartKeepsInv ==
    ASSUME TypeOK, Inv, NEW down \in 0..MaxDown, Restart(down)
    PROVE  TypeOK' /\ Inv'
<1>1. /\ rbChan = {} /\ now + down <= MaxTime /\ restarts < MaxRestarts
      /\ restarts' = restarts + 1 /\ now' = now + down
      /\ posRB' = db /\ roleRB' = Listed(db) /\ giveUpRB' = Scheduled(db)
      /\ removing' = {} /\ swept' = FALSE /\ rbChan' = rbChan /\ db' = db
  BY DEF Restart
<1>2. Known' = Known /\ DOMAIN db = Known /\ \A c \in Known : db[c] \in Row
  BY <1>1 DEF TypeOK, Known
<1>3. \A c \in Known : /\ db[c].rid = posRB[c].rid
                       /\ db[c].occupyTime = posRB[c].occupyTime
                       /\ db[c].giveUpTime = posRB[c].giveUpTime
  BY <1>1 DEF Inv, Written
<1>4. \A r \in Roles : RowsOf(r, db) = RowsOf(r, posRB)
  BY <1>2, <1>3 DEF RowsOf, Known
<1>5. ASSUME NEW r \in Roles
      PROVE  /\ roleRB'[r] \in Seq(Cells) /\ IsInjective(roleRB'[r])
             /\ ToSet(roleRB'[r]) = RowsOf(r, db) /\ Len(roleRB'[r]) <= BuildLimit
  <2>1. PICK rows : rows = RowsOf(r, db)
    OBVIOUS
  <2>2. PICK list : list = SetToSeq(rows)
    OBVIOUS
  <2>3. roleRB'[r] = list
    BY <1>1, <2>1, <2>2 DEF Listed
  <2>4. /\ IsFiniteSet(rows) /\ Cardinality(rows) <= Len(roleRB[r]) /\ Cardinality(rows) \in Nat
        /\ Len(roleRB[r]) \in Nat
    <3>1. roleRB[r] \in Seq(Cells) /\ rows = ToSet(roleRB[r])
      BY <1>4, <2>1 DEF TypeOK, Inv, LandIndexAgrees
    <3>. QED  BY <3>1, SizeOfAList
  <2>5. list \in Seq(rows) /\ IsInjective(list) /\ ToSet(list) = rows /\ Len(list) = Cardinality(rows)
    BY <2>2, <2>4, ListOfASet
  <2>6. list \in Seq(Cells)
    <3>1. rows \subseteq Cells
      BY <1>2, <2>1 DEF TypeOK, RowsOf
    <3>. QED  BY <2>5, <3>1, SeqMonotonic
  <2>7. Len(list) <= BuildLimit
    BY <2>4, <2>5, Numbers DEF Inv, ShortLists
  <2>. QED  BY <2>1, <2>3, <2>5, <2>6, <2>7
<1>6. TypeOK'
  <2>1. roleRB' \in [Roles -> Seq(Cells)]
    <3>1. roleRB' = [r \in Roles |-> roleRB'[r]]
      BY <1>1 DEF Listed
    <3>. QED  BY <1>5, <3>1
  <2>2. giveUpRB' \in [Times -> SUBSET Known']
    BY <1>1, <1>2 DEF Scheduled
  <2>3. swept' \in BOOLEAN
    BY <1>1, Zenon
  <2>4. now' \in Times /\ restarts' \in 0..MaxRestarts
    BY <1>1, Numbers DEF TypeOK, Times
  <2>. QED  BY <1>1, <1>2, <2>1, <2>2, <2>3, <2>4 DEF TypeOK
<1>7. LandIndexAgrees' /\ ShortLists'
  BY <1>1, <1>5 DEF LandIndexAgrees, ShortLists
<1>8. Written' /\ GiveUpIsOwners'
  BY <1>1, <1>2, <1>3 DEF Inv, Written, GiveUpIsOwners
<1>. QED  BY <1>6, <1>7, <1>8 DEF Inv

-----------------------------------------------------------------------------
LEMMA StepKeepsInv == TypeOK /\ Inv /\ [Next]_vars => TypeOK' /\ Inv'
<1>. SUFFICES ASSUME TypeOK, Inv, [Next]_vars PROVE TypeOK' /\ Inv'
  OBVIOUS
<1>1. ASSUME NEW r \in Roles, NEW c \in Cells,
             Conquer(r, c) \/ Build(r, c) \/ UpBuild(r, c) \/ GiveUp(r, c)
      PROVE  TypeOK' /\ Inv'
  <2>1. CASE Conquer(r, c)
    <3>1. OccupyRoleBuild(r, c) \/ OccupySystemBuild(r, c)
      BY <2>1 DEF Conquer
    <3>. QED  BY <2>1, <3>1, OccupyKnownKeepsInv, OccupyNewKeepsInv
  <2>. QED  BY <1>1, <2>1, BuildKeepsInv, UpBuildKeepsInv, GiveUpKeepsInv
<1>2. CASE Sweep
  BY <1>2, CollectKeepsInv, RemoveFromRoleKeepsInv DEF Sweep
<1>3. CASE \E c \in Cells : Write(c)
  BY <1>3, WriteKeepsInv
<1>4. CASE Tick
  BY <1>4, TickKeepsInv
<1>5. CASE \E down \in 0..MaxDown : Restart(down)
  BY <1>5, RestartKeepsInv
<1>6. CASE UNCHANGED vars
  BY <1>6 DEF vars, TypeOK, Inv, Known, LandIndexAgrees, ShortLists, Written, GiveUpIsOwners, RowsOf
<1>. QED  BY <1>1, <1>2, <1>3, <1>4, <1>5, <1>6 DEF Next

(* The inductive invariant: the lists are as long as they may be, and what  *)
(* the database has of a row that nobody queued is what memory has.         *)
THEOREM InvariantHolds == Spec => [](TypeOK /\ Inv)
<1>. QED  BY InvHoldsAtInit, StepKeepsInv, PTL DEF Spec

(* Every index points at rows that exist, through conquest, sweeps and      *)
(* restarts (RoleBuildService).                                             *)
THEOREM TypeCorrect == Spec => []TypeOK
<1>. QED  BY InvariantHolds, PTL

(* No land is counted, or yields, for a role that has lost it: roleRB lists *)
(* each row of a role once and no other (OccupyRoleBuild, RemoveFromRole).  *)
THEOREM IndexAgrees == Spec => []LandIndexAgrees
<1>1. Inv => LandIndexAgrees
  BY DEF Inv
<1>. QED  BY <1>1, InvariantHolds, PTL

(* No role owns more land than BuildLimit: what OccupyRoleBuild's caller    *)
(* checks on the list holds of the rows, also after a restart.              *)
THEOREM LandIsLimited == Spec => []WithinBuildLimit
<1>1. TypeOK /\ Inv => WithinBuildLimit
  <2>. SUFFICES ASSUME TypeOK, Inv, NEW r \in Roles PROVE Cardinality(RowsOf(r, posRB)) <= BuildLimit
    BY DEF WithinBuildLimit
  <2>1. roleRB[r] \in Seq(Cells) /\ ToSet(roleRB[r]) = RowsOf(r, posRB) /\ Len(roleRB[r]) <= BuildLimit
    BY DEF TypeOK, Inv, LandIndexAgrees, ShortLists
  <2>2. /\ Cardinality(ToSet(roleRB[r])) <= Len(roleRB[r]) /\ Cardinality(ToSet(roleRB[r])) \in Nat
        /\ Len(roleRB[r]) \in Nat
    BY <2>1, SizeOfAList
  <2>. QED  BY <2>1, <2>2, Numbers
<1>. QED  BY <1>1, InvariantHolds, PTL

(* A give-up on record is the present owner's, never one left behind by the *)
(* owner before (giveUp, Reset).                                            *)
THEOREM GiveUpsAreOwners == Spec => []GiveUpIsOwners
<1>1. Inv => GiveUpIsOwners
  BY DEF Inv
<1>. QED  BY <1>1, InvariantHolds, PTL

-----------------------------------------------------------------------------
(* Why no bucket is passed over while checkGiveUp runs.                     *)

Waits(c, t) == c \in giveUpRB[t] /\ posRB[c].giveUpTime = t
InReach(t)  == now - Window <= t /\ t <= now

SweepIsComplete ==
    swept => \A c \in Known, t \in Times : Waits(c, t) /\ InReach(t) => c \in removing

(* Nobody new waits at a time that is due, and nobody is forgotten.         *)
LEMMA StaysComplete ==
    ASSUME SweepIsComplete, UNCHANGED <<now, swept>>,
           \A c \in Known', t \in Times :
              Waits(c, t)' /\ t <= now => c \in Known /\ Waits(c, t) /\ (c \in removing => c \in removing')
    PROVE  SweepIsComplete'
BY DEF SweepIsComplete, InReach, Times

LEMMA HandlersStayComplete ==
    ASSUME TypeOK, SweepIsComplete, NEW r \in Roles, NEW c \in Cells,
           Conquer(r, c) \/ Build(r, c) \/ UpBuild(r, c) \/ GiveUp(r, c)
    PROVE  SweepIsComplete'
<1>. USE DEF Known
<1>1. UNCHANGED <<now, swept, removing>>
  BY DEF Conquer, Build, UpBuild, GiveUp
<1>2. ASSUME NEW d \in Known', NEW t \in Times, Waits(d, t)', t <= now
      PROVE  d \in Known /\ Waits(d, t)
  <2>. USE <1>2 DEF Waits
  <2>1. t \in Nat /\ t # 0 /\ now \in Nat
    BY DEF Times, TypeOK
  <2>2. CASE Conquer(r, c) /\ OccupyRoleBuild(r, c)
    <3>1. /\ c \in Known /\ giveUpRB' = Unschedule(c)
          /\ posRB' = [posRB EXCEPT ![c] = [Reset(c, posRB[c]) EXCEPT !.rid = r, !.occupyTime = now]]
      BY <2>2 DEF OccupyRoleBuild
    <3>2. [Reset(c, posRB[c]) EXCEPT !.rid = r, !.occupyTime = now].giveUpTime = 0
      BY DEF Reset, Fresh
    <3>3. d # c
      BY <2>1, <3>1, <3>2
    <3>. QED  BY <3>1, <3>3 DEF Unschedule
  <2>3. CASE Conquer(r, c) /\ OccupySystemBuild(r, c)
    <3>1. /\ c \notin Known /\ giveUpRB' = giveUpRB
          /\ posRB' = Inserted(posRB, c, [Fresh(c, r) EXCEPT !.occupyTime = now])
      BY <2>3 DEF OccupySystemBuild
    <3>2. [Fresh(c, r) EXCEPT !.occupyTime = now].giveUpTime = 0
      BY DEF Fresh
    <3>3. d # c
      BY <2>1, <3>1, <3>2 DEF Inserted
    <3>. QED  BY <3>1, <3>3 DEF Inserted
  <2>4. CASE Build(r, c)
    <3>1. /\ c \in Known /\ giveUpRB' = giveUpRB
          /\ posRB' = [posRB EXCEPT ![c] =
                 [posRB[c] EXCEPT !.type = "fortress", !.level = 1 - 1, !.opLevel = 1,
                                  !.giveUpTime = 0, !.endTime = now + BuildTime]]
      BY <2>4 DEF Build, BuildOrUp
    <3>2. posRB[c] \in Row
      BY <3>1 DEF TypeOK
    <3>3. d # c
      BY <2>1, <3>1, <3>2 DEF Row
    <3>. QED  BY <3>1, <3>3
  <2>5. CASE UpBuild(r, c)
    <3>1. /\ c \in Known /\ giveUpRB' = giveUpRB
          /\ \E row : /\ posRB' = [posRB EXCEPT ![c] = row]
                      /\ row.giveUpTime \in {0, posRB[c].giveUpTime}
      <4>1. c \in Known /\ giveUpRB' = giveUpRB /\ posRB[c] \in Row
        BY <2>5 DEF UpBuild, TypeOK
      <4>2. PICK level :
               \/ posRB' = [posRB EXCEPT ![c] =
                      [posRB[c] EXCEPT !.type = "fortress", !.level = (level + 1) - 1,
                                       !.opLevel = level + 1, !.giveUpTime = 0,
                                       !.endTime = now + BuildTime]]
               \/ posRB' = [posRB EXCEPT ![c] = [posRB[c] EXCEPT !.level = level]]
        BY <2>5 DEF UpBuild, BuildOrUp
      <4>. QED  BY <4>1, <4>2 DEF Row
    <3>. QED  BY <2>1, <3>1
  <2>6. CASE GiveUp(r, c)
    <3>1. /\ c \in Known /\ posRB' = [posRB EXCEPT ![c].giveUpTime = now + GiveUpTime]
          /\ giveUpRB' = [giveUpRB EXCEPT ![now + GiveUpTime] = @ \cup {c}]
          /\ posRB[c] \in Row /\ now + GiveUpTime \in Times
      <4>1. /\ c \in Known /\ now + GiveUpTime < MaxTime
            /\ posRB' = [posRB EXCEPT ![c].giveUpTime = now + GiveUpTime]
            /\ giveUpRB' = [giveUpRB EXCEPT ![now + GiveUpTime] = @ \cup {c}]
        BY <2>6 DEF GiveUp, MayGiveUp
      <4>2. posRB[c] \in Row
        BY <4>1 DEF TypeOK
      <4>3. now + GiveUpTime \in Times
        BY <2>1, <4>1, Numbers DEF Times
      <4>. QED  BY <4>1, <4>2, <4>3
    <3>2. now + GiveUpTime > now
      BY <2>1, Numbers
    <3>3. d # c
      BY <2>1, <3>1, <3>2 DEF Row
    <3>. QED  BY <2>1, <3>1, <3>2, <3>3 DEF TypeOK
  <2>. QED  BY <2>2, <2>3, <2>4, <2>5, <2>6 DEF Conquer
<1>. QED  BY <1>1, <1>2, StaysComplete

LEMMA RemoveStaysComplete ==
    ASSUME TypeOK, SweepIsComplete, NEW c \in Cells, RemoveFromRole(c)
    PROVE  SweepIsComplete'
<1>. USE DEF Known
<1>1. /\ c \in Known /\ giveUpRB' = Unschedule(c) /\ removing' = removing \ {c}
      /\ posRB' = [posRB EXCEPT ![c] = Reset(c, posRB[c])] /\ UNCHANGED <<now, swept>>
  BY DEF RemoveFromRole, TypeOK
<1>2. Reset(c, posRB[c]).giveUpTime = 0
  BY DEF Reset, Fresh
<1>3. ASSUME NEW d \in Known', NEW t \in Times, Waits(d, t)', t <= now
      PROVE  d \in Known /\ Waits(d, t) /\ d # c
  <2>1. d # c
    BY <1>1, <1>2, <1>3 DEF Waits, Times
  <2>. QED  BY <1>1, <1>3, <2>1 DEF Waits, Unschedule
<1>. QED  BY <1>1, <1>3, StaysComplete

LEMMA StepStaysComplete == TypeOK /\ SweepIsComplete /\ [Next]_vars => SweepIsComplete'
<1>. SUFFICES ASSUME TypeOK, SweepIsComplete, [Next]_vars PROVE SweepIsComplete'
  OBVIOUS
<1>1. CASE \E r \in Roles, c \in Cells :
              Conquer(r, c) \/ Build(r, c) \/ UpBuild(r, c) \/ GiveUp(r, c)
  BY <1>1, HandlersStayComplete
<1>2. CASE Collect
  <2>1. removing' = UNION {giveUpRB[t] : t \in Due} /\ UNCHANGED <<now, posRB, giveUpRB>>
    BY <1>2 DEF Collect
  <2>. QED  BY <2>1 DEF SweepIsComplete, Waits, InReach, Due, Known, Times
<1>3. CASE \E c \in Cells : RemoveFromRole(c)
  BY <1>3, RemoveStaysComplete
<1>4. CASE \E c \in Cells : Write(c)
  <2>1. UNCHANGED <<now, posRB, giveUpRB, removing, swept>>
    BY <1>4 DEF Write
  <2>. QED  BY <2>1 DEF SweepIsComplete, Waits, InReach, Known, Times
<1>5. CASE Tick \/ \E down \in 0..MaxDown : Restart(down)
  <2>1. swept' = FALSE
    BY <1>5 DEF Tick, Restart
  <2>. QED  BY <2>1 DEF SweepIsComplete
<1>6. CASE UNCHANGED vars
  BY <1>6 DEF vars, SweepIsComplete, Waits, InReach, Known, Times
<1>. QED  BY <1>1, <1>2, <1>3, <1>4, <1>5, <1>6 DEF Next, Sweep

(* A round of checkGiveUp (roleBuild.go:261) leaves nothing behind: once it *)
(* has collected, every land whose bucket is in its reach is on the list it *)
(* removes, whatever is conquered, built or given up before it has ended.   *)
THEOREM SweepsAreComplete == Spec => []SweepIsComplete
<1>1. Init => SweepIsComplete
  BY DEF Init, SweepIsComplete
<1>2. TypeOK /\ SweepIsComplete /\ [Next]_vars => SweepIsComplete'
  BY StepStaysComplete
<1>. QED  BY <1>1, <1>2, TypeCorrect, PTL DEF Spec

(* The clock does not move on over a land that waits in a bucket checkGiveUp *)
(* has reached: the safety half of BucketsAreHonoured, for any window.      *)
THEOREM ClockWaitsForTheDue ==
    Spec => [][Tick => \A c \in Known, t \in Times : ~(Waits(c, t) /\ InReach(t))]_vars
<1>1. SweepIsComplete /\ [Next]_vars =>
          [Tick => \A c \in Known, t \in Times : ~(Waits(c, t) /\ InReach(t))]_vars
  BY DEF SweepIsComplete, Tick
<1>. QED  BY <1>1, SweepsAreComplete, PTL DEF Spec
==============================================================================
