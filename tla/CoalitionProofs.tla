--------------------------- MODULE CoalitionProofs ---------------------------
(***************************************************************************)
(* Proofs about Coalition: for any set of roles and unions, finite or not, *)
(* and any member limit, the handlers of unionController, served one after *)
(* the other, keep the two copies of membership in agreement.              *)
(***************************************************************************)
EXTENDS CoalitionOverlap, SequenceTheorems, FiniteSetTheorems, WellFoundedInduction, TLAPS

-----------------------------------------------------------------------------
(* Lists of members.                                                        *)

(* A list of one role has exactly that role in it.                          *)
LEMMA SingletonList ==
    ASSUME NEW S, NEW x \in S
    PROVE  /\ <<x>> \in Seq(S)
           /\ ToSet(<<x>>) = {x}
           /\ IsInjective(<<x>>)
           /\ Len(<<x>>) = 1
BY DEF ToSet, IsInjective

(* The empty list has nobody in it.                                         *)
LEMMA EmptyList ==
    ASSUME NEW S
    PROVE  /\ <<>> \in Seq(S)
           /\ ToSet(<<>>) = {}
           /\ IsInjective(<<>>)
           /\ Len(<<>>) = 0
BY DEF ToSet, IsInjective

(* verify's append adds the role, and lists nobody twice if it was new.     *)
LEMMA AppendList ==
    ASSUME NEW S, NEW s \in Seq(S), NEW x \in S
    PROVE  /\ Append(s, x) \in Seq(S)
           /\ ToSet(Append(s, x)) = ToSet(s) \cup {x}
           /\ Len(Append(s, x)) = Len(s) + 1
           /\ IsInjective(s) /\ x \notin ToSet(s) => IsInjective(Append(s, x))
<1>1. /\ Append(s, x) \in Seq(S)
      /\ Len(Append(s, x)) = Len(s) + 1
      /\ \A i \in 1..Len(s) : Append(s, x)[i] = s[i]
      /\ Append(s, x)[Len(s) + 1] = x
  BY AppendProperties
<1>2. DOMAIN s = 1..Len(s) /\ DOMAIN Append(s, x) = 1..(Len(s) + 1) /\ Len(s) \in Nat
  BY <1>1, LenProperties
<1>3. ToSet(Append(s, x)) = ToSet(s) \cup {x}
  BY <1>1, <1>2 DEF ToSet
<1>4. ASSUME IsInjective(s), x \notin ToSet(s)
      PROVE  IsInjective(Append(s, x))
  <2>. SUFFICES ASSUME NEW i \in DOMAIN Append(s, x), NEW j \in DOMAIN Append(s, x),
                       Append(s, x)[i] = Append(s, x)[j]
                PROVE  i = j
    BY DEF IsInjective
  <2>1. CASE i \in 1..Len(s) /\ j \in 1..Len(s)
    BY <1>1, <1>2, <1>4, <2>1 DEF IsInjective
  <2>2. CASE i = Len(s) + 1 /\ j \in 1..Len(s)
    BY <1>1, <1>2, <1>4, <2>2 DEF ToSet
  <2>3. CASE i \in 1..Len(s) /\ j = Len(s) + 1
    BY <1>1, <1>2, <1>4, <2>3 DEF ToSet
  <2>. QED  BY <1>2, <2>1, <2>2, <2>3
<1>. QED  BY <1>1, <1>3, <1>4

(* append(a[:k], a[k+1:]...): the entries from k on move up by one.         *)
LEMMA RemoveOne ==
    ASSUME NEW S, NEW s \in Seq(S), NEW k \in 1..Len(s)
    PROVE  /\ RemoveAt(s, k) \in Seq(S)
           /\ Len(RemoveAt(s, k)) = Len(s) - 1
           /\ DOMAIN RemoveAt(s, k) = 1..(Len(s) - 1)
           /\ \A i \in 1..(Len(s) - 1) : RemoveAt(s, k)[i] = IF i < k THEN s[i] ELSE s[i + 1]
<1>. DEFINE a == SubSeq(s, 1, k - 1)
            b == SubSeq(s, k + 1, Len(s))
            w == a \o b
<1>1. DOMAIN s = 1..Len(s) /\ Len(s) \in Nat /\ \A i \in 1..Len(s) : s[i] \in S
  BY LenProperties, ElementOfSeq
<1>3. a \in Seq(S) /\ Len(a) = k - 1 /\ \A i \in 1..(k - 1) : a[i] = s[i]
  <2>1. \A i \in 1..(k - 1) : s[i] \in S
    BY <1>1
  <2>2. /\ a \in Seq(S)
        /\ Len(a) = IF 1 <= k - 1 THEN k - 1 - 1 + 1 ELSE 0
        /\ \A i \in 1..(k - 1 - 1 + 1) : a[i] = s[1 + i - 1]
    BY <2>1, SubSeqProperties
  <2>. QED  BY <2>2
<1>4. b \in Seq(S) /\ Len(b) = Len(s) - k /\ \A i \in 1..(Len(s) - k) : b[i] = s[k + i]
  <2>1. \A i \in (k + 1)..Len(s) : s[i] \in S
    BY <1>1
  <2>2. /\ b \in Seq(S)
        /\ Len(b) = IF k + 1 <= Len(s) THEN Len(s) - (k + 1) + 1 ELSE 0
        /\ \A i \in 1..(Len(s) - (k + 1) + 1) : b[i] = s[(k + 1) + i - 1]
    BY <1>1, <2>1, SubSeqProperties
  <2>3. k \in Int /\ Len(s) \in Int /\ k <= Len(s)
    BY <1>1
  <2>4. Len(s) - (k + 1) + 1 = Len(s) - k /\ (~(k + 1 <= Len(s)) => Len(s) - k = 0)
    BY <2>3
  <2>5. \A i \in 1..(Len(s) - k) : (k + 1) + i - 1 = k + i
    BY <2>3
  <2>6. Len(b) = Len(s) - k
    BY <2>2, <2>4
  <2>. QED  BY <2>2, <2>4, <2>5, <2>6
<1>. HIDE DEF a, b, w
<1>5. /\ w \in Seq(S)
      /\ Len(w) = Len(a) + Len(b)
      /\ \A i \in 1..(Len(a) + Len(b)) : w[i] = IF i <= Len(a) THEN a[i] ELSE b[i - Len(a)]
  BY <1>3, <1>4, ConcatProperties DEF w
<1>6. \A i \in 1..(Len(s) - 1) : w[i] = IF i < k THEN s[i] ELSE s[i + 1]
  <2>. TAKE i \in 1..(Len(s) - 1)
  <2>1. CASE i < k
    <3>1. w[i] = a[i] /\ i \in 1..(k - 1)
      BY <1>1, <1>3, <1>4, <1>5, <2>1
    <3>2. a[i] = s[i]
      BY <1>3, <3>1
    <3>. QED  BY <2>1, <3>1, <3>2
  <2>2. CASE ~(i < k)
    <3>1. w[i] = b[i - (k - 1)] /\ i - (k - 1) \in 1..(Len(s) - k)
      <4>1. Len(a) + Len(b) = Len(s) - 1 /\ ~(i <= Len(a))
        BY <1>1, <1>3, <1>4, <2>2
      <4>2. w[i] = b[i - Len(a)]
        BY <1>5, <4>1
      <4>. QED  BY <1>1, <1>3, <2>2, <4>2
    <3>2. b[i - (k - 1)] = s[k + (i - (k - 1))] /\ k + (i - (k - 1)) = i + 1
      BY <1>1, <1>4, <3>1
    <3>. QED  BY <2>2, <3>1, <3>2
  <2>. QED  BY <2>1, <2>2
<1>7. Len(w) = Len(s) - 1
  BY <1>1, <1>3, <1>4, <1>5
<1>8. RemoveAt(s, k) = w
  BY DEF RemoveAt, a, b, w
<1>. QED  BY <1>5, <1>6, <1>7, <1>8, LenProperties

(* exit's append(a[:i], a[i+1:]...) takes out the one entry it finds and    *)
(* keeps all others, when nobody is listed twice.                           *)
LEMMA WithoutList ==
    ASSUME NEW S, NEW s \in Seq(S), NEW x \in ToSet(s), IsInjective(s)
    PROVE  /\ Without(s, x) \in Seq(S)
           /\ ToSet(Without(s, x)) = ToSet(s) \ {x}
           /\ IsInjective(Without(s, x))
           /\ Len(Without(s, x)) = Len(s) - 1
<1>1. DOMAIN s = 1..Len(s) /\ Len(s) \in Nat /\ \A i \in 1..Len(s) : s[i] \in S
  BY LenProperties, ElementOfSeq
<1>2. PICK k \in 1..Len(s) : k = PositionOf(x, s) /\ s[k] = x
  BY <1>1 DEF ToSet, PositionOf
<1>3. PICK w : w = RemoveAt(s, k)
  OBVIOUS
<1>5. /\ w \in Seq(S)
      /\ Len(w) = Len(s) - 1
      /\ DOMAIN w = 1..(Len(s) - 1)
      /\ \A i \in 1..(Len(s) - 1) : w[i] = IF i < k THEN s[i] ELSE s[i + 1]
  BY <1>3, RemoveOne
<1>6. Without(s, x) = w
  BY <1>2, <1>3 DEF Without
<1>7. ToSet(w) = ToSet(s) \ {x}
  <2>1. ASSUME NEW i \in 1..(Len(s) - 1) PROVE w[i] \in ToSet(s) \ {x}
    <3>1. CASE i < k
      BY <1>1, <1>2, <1>5, <3>1 DEF ToSet, IsInjective
    <3>2. CASE ~(i < k)
      BY <1>1, <1>2, <1>5, <3>2 DEF ToSet, IsInjective
    <3>. QED  BY <3>1, <3>2
  <2>2. ASSUME NEW j \in 1..Len(s), s[j] # x PROVE s[j] \in ToSet(w)
    <3>1. CASE j < k
      BY <1>1, <1>2, <1>5, <3>1 DEF ToSet
    <3>2. CASE ~(j < k)
      <4>1. j # k
        BY <1>2, <2>2
      <4>2. j - 1 \in 1..(Len(s) - 1) /\ ~(j - 1 < k) /\ (j - 1) + 1 = j
        BY <1>1, <1>2, <3>2, <4>1
      <4>3. w[j - 1] = s[j]
        BY <1>5, <4>2
      <4>. QED  BY <1>5, <4>2, <4>3 DEF ToSet
    <3>. QED  BY <3>1, <3>2
  <2>. QED  BY <1>1, <1>5, <2>1, <2>2 DEF ToSet
<1>8. IsInjective(w)
  <2>. SUFFICES ASSUME NEW i \in 1..(Len(s) - 1), NEW j \in 1..(Len(s) - 1), w[i] = w[j]
                PROVE  i = j
    BY <1>5 DEF IsInjective
  <2>1. CASE i < k /\ j < k
    BY <1>1, <1>2, <1>5, <2>1 DEF IsInjective
  <2>2. CASE i < k /\ ~(j < k)
    BY <1>1, <1>2, <1>5, <2>2 DEF IsInjective
  <2>3. CASE ~(i < k) /\ j < k
    BY <1>1, <1>2, <1>5, <2>3 DEF IsInjective
  <2>4. CASE ~(i < k) /\ ~(j < k)
    <3>1. s[i + 1] = s[j + 1] /\ i + 1 \in DOMAIN s /\ j + 1 \in DOMAIN s
      BY <1>1, <1>5, <2>4
    <3>2. i + 1 = j + 1
      BY <3>1 DEF IsInjective
    <3>. QED  BY <3>2
  <2>. QED  BY <2>1, <2>2, <2>3, <2>4
<1>. QED  BY <1>5, <1>6, <1>7, <1>8

-----------------------------------------------------------------------------
(* The inductive invariant.                                                 *)

(* A union that was never founded is blank, so that create starts from no   *)
(* list and no vice chairman; any other has a founder.                      *)
FoundersKnown ==
    \A u \in Unions :
        /\ state[u] = "none" => chairman[u] = NoRole /\ vice[u] = NoRole /\ members[u] = <<>>
        /\ state[u] # "none" => chairman[u] \in Roles

Inv ==
    /\ TypeOK
    /\ MembershipAgrees
    /\ NoDuplicateMember
    /\ WithinLimit
    /\ OfficersAreMembers
    /\ MembersConsented
    /\ FoundersKnown

(* The server starts, with no union loaded, in a state of the invariant.    *)
LEMMA InvInit == Init => Inv
<1>. SUFFICES ASSUME Init PROVE Inv
  OBVIOUS
<1>1. TypeOK
  BY EmptyList DEF Init, TypeOK, ApplyStates
<1>2. \A u \in Unions : members[u] = <<>> /\ ToSet(members[u]) = {}
                        /\ IsInjective(members[u]) /\ Len(members[u]) = 0
  BY EmptyList DEF Init
<1>3. MembershipAgrees /\ MembersConsented
  BY <1>2, ConstantsAssumption DEF Init, MembershipAgrees, MembersConsented
<1>4. NoDuplicateMember /\ WithinLimit
  BY <1>2, ConstantsAssumption DEF NoDuplicateMember, WithinLimit
<1>5. OfficersAreMembers /\ FoundersKnown
  BY <1>2 DEF Init, OfficersAreMembers, FoundersKnown
<1>. QED  BY <1>1, <1>3, <1>4, <1>5 DEF Inv

(* create preserves the invariant.                                          *)
LEMMA InvCreate ==
    ASSUME Inv, NEW r \in Roles, NEW u \in Unions, Create(r, u)
    PROVE  Inv'
<1>. USE DEF Inv, Create, MayCreate, FoundUnion, IsHasUnion
<1>1. /\ <<r>> \in Seq(Roles) /\ ToSet(<<r>>) = {r}
      /\ IsInjective(<<r>>) /\ Len(<<r>>) = 1
  BY SingletonList
<1>2. /\ members' = [members EXCEPT ![u] = <<r>>]
      /\ unionId' = [unionId EXCEPT ![r] = u]
      /\ unionId[r] = NoUnion /\ NoUnion \notin Unions
      /\ vice' = vice /\ apply' = apply
  BY ConstantsAssumption
<1>3. members[u] = <<>> /\ ToSet(members[u]) = {} /\ vice[u] = NoRole
  BY EmptyList DEF FoundersKnown
<1>4. TypeOK'
  BY <1>1 DEF TypeOK
<1>5. MembershipAgrees'
  <2>. SUFFICES ASSUME NEW q \in Roles, NEW v \in Unions
                PROVE  unionId'[q] = v <=> q \in ToSet(members'[v])
    BY DEF MembershipAgrees
  <2>1. CASE v = u
    BY <1>1, <1>2, <1>3, <2>1 DEF TypeOK, MembershipAgrees
  <2>2. CASE v # u
    BY <1>1, <1>2, <1>3, <2>2 DEF TypeOK, MembershipAgrees
  <2>. QED  BY <2>1, <2>2
<1>6. NoDuplicateMember'
  BY <1>1, <1>2 DEF TypeOK, NoDuplicateMember
<1>7. WithinLimit'
  BY <1>1, <1>2, ConstantsAssumption DEF TypeOK, WithinLimit
<1>8. OfficersAreMembers' /\ FoundersKnown'
  BY <1>1, <1>2, <1>3 DEF TypeOK, OfficersAreMembers, FoundersKnown
<1>9. MembersConsented'
  <2>. SUFFICES ASSUME NEW q \in Roles, NEW v \in Unions, q \in ToSet(members'[v])
                PROVE  q = chairman'[v] \/ apply'[<<q, v>>] = "adopt"
    BY DEF MembersConsented
  <2>1. CASE v = u
    BY <1>1, <1>2, <2>1 DEF TypeOK
  <2>2. CASE v # u
    <3>1. members'[v] = members[v] /\ chairman'[v] = chairman[v]
      BY <2>2 DEF TypeOK
    <3>. QED  BY <1>2, <3>1 DEF MembersConsented
  <2>. QED  BY <2>1, <2>2
<1>. QED  BY <1>4, <1>5, <1>6, <1>7, <1>8, <1>9

(* join only marks an application, of a role that is in no union: a member  *)
(* keeps the adopted one it was admitted by.                                *)
LEMMA InvJoin ==
    ASSUME Inv, NEW r \in Roles, NEW u \in Unions, Join(r, u)
    PROVE  Inv'
<1>1. TypeOK'
  BY DEF Inv, TypeOK, Join, ApplyStates
<1>2. MembersConsented'
  <2>. SUFFICES ASSUME NEW q \in Roles, NEW v \in Unions, q \in ToSet(members[v])
                PROVE  q = chairman[v] \/ apply'[<<q, v>>] = "adopt"
    BY DEF MembersConsented, Join
  <2>1. q # r
    BY ConstantsAssumption DEF Inv, MembershipAgrees, Join, MayApply, IsHasUnion
  <2>2. apply'[<<q, v>>] = apply[<<q, v>>]
    BY <2>1 DEF Inv, TypeOK, Join
  <2>. QED  BY <2>2 DEF Inv, MembersConsented
<1>. QED
  BY <1>1, <1>2 DEF Inv, Join, MembershipAgrees, NoDuplicateMember, WithinLimit,
                    OfficersAreMembers, FoundersKnown

(* verify preserves the invariant, whether it admits or only closes the     *)
(* application.                                                             *)
LEMMA InvVerify ==
    ASSUME Inv, NEW op \in Roles, NEW r \in Roles, NEW u \in Unions,
           NEW d \in Decisions, Verify(op, r, u, d)
    PROVE  Inv'
<1>1. /\ apply[<<r, u>>] = "untreated" /\ Loaded(u) /\ ~IsFull(u)
      /\ apply' = [apply EXCEPT ![<<r, u>>] = d]
      /\ state' = state /\ chairman' = chairman /\ vice' = vice
      /\ d \in ApplyStates /\ d # "none"
  BY DEF Verify, MayVerify, Decisions, ApplyStates
<1>2. CASE members' = members /\ unionId' = unionId
  <2>1. TypeOK'
    BY <1>1, <1>2 DEF Inv, TypeOK
  <2>2. MembersConsented'
    BY <1>1, <1>2 DEF Inv, TypeOK, MembersConsented
  <2>. QED
    BY <1>1, <1>2, <2>1, <2>2 DEF Inv, MembershipAgrees, NoDuplicateMember, WithinLimit,
                                  OfficersAreMembers, FoundersKnown
<1>3. CASE /\ d = "adopt" /\ ~IsHasUnion(r)
           /\ members' = [members EXCEPT ![u] = Append(@, r)]
           /\ unionId' = [unionId EXCEPT ![r] = u]
  <2>1. unionId[r] = NoUnion /\ NoUnion \notin Unions /\ members[u] \in Seq(Roles)
    BY <1>3, ConstantsAssumption DEF IsHasUnion, Inv, TypeOK
  <2>2. r \notin ToSet(members[u])
    BY <2>1 DEF Inv, MembershipAgrees
  <2>3. /\ members'[u] \in Seq(Roles)
        /\ ToSet(members'[u]) = ToSet(members[u]) \cup {r}
        /\ Len(members'[u]) = Len(members[u]) + 1
        /\ IsInjective(members'[u])
    BY <1>3, <2>1, <2>2, AppendList DEF Inv, TypeOK, NoDuplicateMember
  <2>4. \A v \in Unions \ {u} : members'[v] = members[v]
    BY <1>3 DEF Inv, TypeOK
  <2>5. TypeOK'
    BY <1>1, <1>3, <2>3, <2>4 DEF Inv, TypeOK
  <2>6. MembershipAgrees'
    <3>. SUFFICES ASSUME NEW q \in Roles, NEW v \in Unions
                  PROVE  unionId'[q] = v <=> q \in ToSet(members'[v])
      BY DEF MembershipAgrees
    <3>1. CASE v = u
      BY <1>3, <2>1, <2>3, <3>1 DEF Inv, TypeOK, MembershipAgrees
    <3>2. CASE v # u
      BY <1>3, <2>1, <2>4, <3>2 DEF Inv, TypeOK, MembershipAgrees
    <3>. QED  BY <3>1, <3>2
  <2>7. NoDuplicateMember'
    BY <2>3, <2>4 DEF Inv, NoDuplicateMember
  <2>8. WithinLimit'
    <3>1. Len(members[u]) \in Nat /\ Len(members[u]) < MemberLimit
      BY <1>1, <2>1, LenProperties, ConstantsAssumption DEF IsFull
    <3>. QED  BY <2>3, <2>4, <3>1, ConstantsAssumption DEF Inv, WithinLimit
  <2>9. OfficersAreMembers' /\ FoundersKnown'
    BY <1>1, <2>3, <2>4 DEF Inv, OfficersAreMembers, FoundersKnown, Loaded
  <2>10. MembersConsented'
    <3>. SUFFICES ASSUME NEW q \in Roles, NEW v \in Unions, q \in ToSet(members'[v])
                  PROVE  q = chairman[v] \/ apply'[<<q, v>>] = "adopt"
      BY <1>1 DEF MembersConsented
    <3>1. CASE q = r /\ v = u
      BY <1>1, <1>3, <3>1 DEF Inv, TypeOK
    <3>2. CASE ~(q = r /\ v = u)
      <4>1. apply'[<<q, v>>] = apply[<<q, v>>] /\ q \in ToSet(members[v])
        BY <1>1, <2>3, <2>4, <3>2 DEF Inv, TypeOK
      <4>. QED  BY <4>1 DEF Inv, MembersConsented
    <3>. QED  BY <3>1, <3>2
  <2>. QED  BY <2>5, <2>6, <2>7, <2>8, <2>9, <2>10 DEF Inv
<1>. QED  BY <1>2, <1>3 DEF Verify

(* exit preserves the invariant: the leaver was listed, once, and is not    *)
(* the chairman.                                                            *)
LEMMA InvExit ==
    ASSUME Inv, NEW r \in Roles, NEW u \in Unions, Exit(r, u)
    PROVE  Inv'
<1>1. /\ unionId[r] = u /\ Loaded(u) /\ chairman[u] # r
      /\ members' = [members EXCEPT ![u] = Without(@, r)]
      /\ vice'    = [vice EXCEPT ![u] = IF @ = r THEN NoRole ELSE @]
      /\ unionId' = [unionId EXCEPT ![r] = NoUnion]
      /\ state' = state /\ chairman' = chairman /\ apply' = apply
  BY DEF Exit, MayExit
<1>2. members[u] \in Seq(Roles) /\ r \in ToSet(members[u]) /\ IsInjective(members[u])
  BY <1>1 DEF Inv, TypeOK, MembershipAgrees, NoDuplicateMember
<1>3. /\ members'[u] \in Seq(Roles)
      /\ ToSet(members'[u]) = ToSet(members[u]) \ {r}
      /\ Len(members'[u]) = Len(members[u]) - 1
      /\ IsInjective(members'[u])
  BY <1>1, <1>2, WithoutList DEF Inv, TypeOK
<1>4. \A v \in Unions \ {u} : members'[v] = members[v]
  BY <1>1 DEF Inv, TypeOK
<1>5. TypeOK'
  BY <1>1, <1>3, <1>4 DEF Inv, TypeOK
<1>6. MembershipAgrees'
  <2>. SUFFICES ASSUME NEW q \in Roles, NEW v \in Unions
                PROVE  unionId'[q] = v <=> q \in ToSet(members'[v])
    BY DEF MembershipAgrees
  <2>1. CASE v = u
    BY <1>1, <1>3, <2>1, ConstantsAssumption DEF Inv, TypeOK, MembershipAgrees
  <2>2. CASE v # u
    BY <1>1, <1>4, <2>2, ConstantsAssumption DEF Inv, TypeOK, MembershipAgrees
  <2>. QED  BY <2>1, <2>2
<1>7. NoDuplicateMember'
  BY <1>3, <1>4 DEF Inv, NoDuplicateMember
<1>8. WithinLimit'
  BY <1>2, <1>3, <1>4, LenProperties, ConstantsAssumption DEF Inv, WithinLimit
<1>9. OfficersAreMembers' /\ FoundersKnown'
  BY <1>1, <1>3, <1>4 DEF Inv, TypeOK, OfficersAreMembers, FoundersKnown, Loaded
<1>10. MembersConsented'
  BY <1>1, <1>3, <1>4 DEF Inv, MembersConsented
<1>. QED  BY <1>5, <1>6, <1>7, <1>8, <1>9, <1>10 DEF Inv

(* dismiss preserves the invariant: it releases exactly the listed roles,   *)
(* which are exactly those whose attribute names the union.                 *)
LEMMA InvDismiss ==
    ASSUME Inv, NEW r \in Roles, NEW u \in Unions, Dismiss(r, u)
    PROVE  Inv'
<1>1. /\ Loaded(u)
      /\ unionId' = [q \in Roles |-> IF q \in ToSet(members[u]) THEN NoUnion ELSE unionId[q]]
      /\ state'   = [state EXCEPT ![u] = "dismissed"]
      /\ members' = [members EXCEPT ![u] = <<>>]
      /\ chairman' = chairman /\ vice' = vice /\ apply' = apply
  BY DEF Dismiss, MayDismiss, DismissUnion
<1>2. /\ members'[u] = <<>> /\ members'[u] \in Seq(Roles)
      /\ ToSet(members'[u]) = {} /\ IsInjective(members'[u]) /\ Len(members'[u]) = 0
  BY <1>1, EmptyList DEF Inv, TypeOK
<1>3. \A v \in Unions \ {u} : members'[v] = members[v]
  BY <1>1 DEF Inv, TypeOK
<1>4. TypeOK'
  BY <1>1, <1>2, <1>3 DEF Inv, TypeOK
<1>5. MembershipAgrees'
  <2>. SUFFICES ASSUME NEW q \in Roles, NEW v \in Unions
                PROVE  unionId'[q] = v <=> q \in ToSet(members'[v])
    BY DEF MembershipAgrees
  <2>1. CASE v = u
    BY <1>1, <1>2, <2>1, ConstantsAssumption DEF Inv, MembershipAgrees
  <2>2. CASE v # u
    BY <1>1, <1>3, <2>2, ConstantsAssumption DEF Inv, MembershipAgrees
  <2>. QED  BY <2>1, <2>2
<1>6. NoDuplicateMember'
  BY <1>2, <1>3 DEF Inv, NoDuplicateMember
<1>7. WithinLimit'
  BY <1>2, <1>3, ConstantsAssumption DEF Inv, WithinLimit
<1>8. OfficersAreMembers' /\ FoundersKnown'
  BY <1>1, <1>2, <1>3 DEF Inv, TypeOK, OfficersAreMembers, FoundersKnown, Loaded
<1>9. MembersConsented'
  BY <1>1, <1>2, <1>3 DEF Inv, MembersConsented
<1>. QED  BY <1>4, <1>5, <1>6, <1>7, <1>8, <1>9 DEF Inv

(* appoint preserves the invariant: it makes only a member vice chairman.   *)
LEMMA InvAppoint ==
    ASSUME Inv, NEW op \in Roles, NEW r \in Roles, NEW u \in Unions,
           NEW t \in Titles, Appoint(op, r, u, t)
    PROVE  Inv'
<1>1. /\ unionId[r] = u /\ Loaded(u)
      /\ vice' = [vice EXCEPT ![u] = r] \/ vice' = [vice EXCEPT ![u] = NoRole]
      /\ state' = state /\ chairman' = chairman /\ members' = members
      /\ unionId' = unionId /\ apply' = apply
  BY DEF Appoint, MayAppoint, MayDismiss, SetVice
<1>2. r \in ToSet(members[u])
  BY <1>1 DEF Inv, MembershipAgrees
<1>3. TypeOK'
  BY <1>1 DEF Inv, TypeOK
<1>4. OfficersAreMembers' /\ FoundersKnown'
  BY <1>1, <1>2 DEF Inv, TypeOK, OfficersAreMembers, FoundersKnown, Loaded
<1>. QED
  BY <1>1, <1>3, <1>4 DEF Inv, MembershipAgrees, NoDuplicateMember, WithinLimit, MembersConsented

(* Every handler, and every step in which none runs, preserves it.          *)
LEMMA InvNext == Inv /\ [Next]_vars => Inv'
<1>. SUFFICES ASSUME Inv, [Next]_vars PROVE Inv'
  OBVIOUS
<1>1. ASSUME NEW r \in Roles, NEW u \in Unions, Create(r, u) PROVE Inv'
  BY <1>1, InvCreate
<1>2. ASSUME NEW r \in Roles, NEW u \in Unions, Join(r, u) PROVE Inv'
  BY <1>2, InvJoin
<1>3. ASSUME NEW r \in Roles, NEW u \in Unions, Exit(r, u) PROVE Inv'
  BY <1>3, InvExit
<1>4. ASSUME NEW r \in Roles, NEW u \in Unions, Dismiss(r, u) PROVE Inv'
  BY <1>4, InvDismiss
<1>5. ASSUME NEW op \in Roles, NEW r \in Roles, NEW u \in Unions, NEW d \in Decisions,
             Verify(op, r, u, d)
      PROVE  Inv'
  BY <1>5, InvVerify
<1>6. ASSUME NEW op \in Roles, NEW r \in Roles, NEW u \in Unions, NEW t \in Titles,
             Appoint(op, r, u, t)
      PROVE  Inv'
  BY <1>6, InvAppoint
<1>7. CASE UNCHANGED vars
  BY <1>7 DEF vars, Inv, TypeOK, MembershipAgrees, NoDuplicateMember, WithinLimit,
              OfficersAreMembers, MembersConsented, FoundersKnown
<1>. QED  BY <1>1, <1>2, <1>3, <1>4, <1>5, <1>6, <1>7 DEF Next

-----------------------------------------------------------------------------
(* The invariant holds in every reachable state.                            *)
THEOREM InvariantHolds == Spec => []Inv
BY InvInit, InvNext, PTL DEF Spec

(* Every variable keeps its type: MemberArray holds role ids only and the   *)
(* attribute of a role a union id or 0.                                     *)
THEOREM TypeCorrect == Spec => []TypeOK
<1>1. Inv => TypeOK
  BY DEF Inv
<1>. QED  BY <1>1, InvariantHolds, PTL

(* The two copies of membership agree, for any number of roles and unions:  *)
(* nobody is stranded by create, verify, exit or dismiss.                   *)
THEOREM CopiesAgree == Spec => []MembershipAgrees
<1>1. Inv => MembershipAgrees
  BY DEF Inv
<1>. QED  BY <1>1, InvariantHolds, PTL

(* verify and join count members, never entries of a list with repetitions, *)
(* and no union outgrows its limit.                                         *)
THEOREM LimitIsKept == Spec => [](NoDuplicateMember /\ WithinLimit)
<1>1. Inv => NoDuplicateMember /\ WithinLimit
  BY DEF Inv
<1>. QED  BY <1>1, InvariantHolds, PTL

(* Only members hold an office in a running union.                          *)
THEOREM OfficersBelong == Spec => []OfficersAreMembers
<1>1. Inv => OfficersAreMembers
  BY DEF Inv
<1>. QED  BY <1>1, InvariantHolds, PTL

(* Nobody is a member without having founded the union or been adopted on   *)
(* its latest application to the union.                                     *)
THEOREM ConsentIsNeeded == Spec => []MembersConsented
<1>1. Inv => MembersConsented
  BY DEF Inv
<1>. QED  BY <1>1, InvariantHolds, PTL

-----------------------------------------------------------------------------
(* What a step may do to the union of a role.                               *)

(* Every change of a role's union is one it founded, was admitted to, left, *)
(* or lost with the union: no handler touches a bystander.                  *)
LEMMA LegalStep == Inv /\ [Next]_vars => [\A r \in Roles : MembershipChange(r)]_vars
<1>. SUFFICES ASSUME Inv, Next, NEW q \in Roles PROVE MembershipChange(q)
  OBVIOUS
<1>. USE DEF MembershipChange
<1>1. ASSUME NEW r \in Roles, NEW u \in Unions, Create(r, u) PROVE MembershipChange(q)
  BY <1>1 DEF Create, MayCreate, FoundUnion, IsHasUnion, Inv, TypeOK
<1>2. ASSUME NEW r \in Roles, NEW u \in Unions, Join(r, u) PROVE MembershipChange(q)
  BY <1>2 DEF Join
<1>3. ASSUME NEW r \in Roles, NEW u \in Unions, Exit(r, u) PROVE MembershipChange(q)
  BY <1>3 DEF Exit, MayExit, Inv, TypeOK
<1>4. ASSUME NEW r \in Roles, NEW u \in Unions, Dismiss(r, u) PROVE MembershipChange(q)
  BY <1>4 DEF Dismiss, DismissUnion, Inv, TypeOK, MembershipAgrees
<1>5. ASSUME NEW op \in Roles, NEW r \in Roles, NEW u \in Unions, NEW d \in Decisions,
             Verify(op, r, u, d)
      PROVE  MembershipChange(q)
  BY <1>5 DEF Verify, MayVerify, IsHasUnion, Inv, TypeOK
<1>6. ASSUME NEW op \in Roles, NEW r \in Roles, NEW u \in Unions, NEW t \in Titles,
             Appoint(op, r, u, t)
      PROVE  MembershipChange(q)
  BY <1>6 DEF Appoint, SetVice
<1>. QED  BY <1>1, <1>2, <1>3, <1>4, <1>5, <1>6 DEF Next

(* The roles that had no part in a step keep their union.                   *)
THEOREM ChangesAreLegal == Spec => MembershipChangesAreLegal
BY InvariantHolds, LegalStep, PTL DEF Spec, MembershipChangesAreLegal

-----------------------------------------------------------------------------
(* The handlers implement the abstract unions.                              *)

(* A list has no more different roles than entries.                         *)
LEMMA ListBoundsSet ==
    ASSUME NEW S, NEW s \in Seq(S)
    PROVE  IsFiniteSet(ToSet(s)) /\ Cardinality(ToSet(s)) <= Len(s)
<1>1. Len(s) \in Nat /\ DOMAIN s = 1..Len(s) /\ s = [i \in 1..Len(s) |-> s[i]]
  BY LenProperties
<1>2. IsFiniteSet(1..Len(s)) /\ Cardinality(1..Len(s)) = Len(s)
  <2>1. 1 \in Int /\ Len(s) \in Int
    BY <1>1
  <2>2. /\ IsFiniteSet(1..Len(s))
        /\ Cardinality(1..Len(s)) = IF 1 > Len(s) THEN 0 ELSE Len(s) - 1 + 1
    BY ONLY <2>1, FS_Interval
  <2>. QED  BY <1>1, <2>2
<1>3. s \in Surjection(1..Len(s), ToSet(s))
  BY <1>1 DEF Surjection, ToSet
<1>. QED  BY <1>2, <1>3, FS_Surjection

(* The abstract module counts with the same Cardinality.                    *)
LEMMA SameCardinality == \A S : Promise!Cardinality(S) = Cardinality(S)
BY Zenon DEF Promise!Cardinality, Cardinality

(* A union whose list is not full has a free seat.                          *)
LEMMA FreeSeat ==
    ASSUME Inv, NEW u \in Unions, ~IsFull(u)
    PROVE  Cardinality(Promise!MembersOf(u)) < MemberLimit
<1>1. members[u] \in Seq(Roles) /\ Len(members[u]) \in Nat /\ MemberLimit \in Nat
  BY LenProperties, ConstantsAssumption DEF Inv, TypeOK
<1>2. ToSet(members[u]) \subseteq Roles
  BY <1>1, LenProperties, ElementOfSeq DEF ToSet
<1>3. Promise!MembersOf(u) = ToSet(members[u])
  BY <1>2 DEF Promise!MembersOf, Inv, MembershipAgrees
<1>4. Cardinality(ToSet(members[u])) \in Nat /\ Cardinality(ToSet(members[u])) <= Len(members[u])
  BY <1>1, ListBoundsSet, FS_CardinalityType
<1>. QED  BY <1>1, <1>3, <1>4 DEF IsFull

(* Every handler is a step of the abstract unions, or leaves them alone.    *)
LEMMA StepIsPromised == Inv /\ [Next]_vars => [Promise!Next]_(Promise!vars)
<1>. SUFFICES ASSUME Inv, [Next]_vars PROVE [Promise!Next]_(Promise!vars)
  OBVIOUS
<1>. DEFINE Promised == [Promise!Next]_(Promise!vars)
<1>1. ASSUME NEW r \in Roles, NEW u \in Unions, Create(r, u) PROVE Promised
  <2>1. Promise!Found(r, u)
    BY <1>1 DEF Promise!Found, Create, MayCreate, FoundUnion, IsHasUnion
  <2>. QED  BY <2>1 DEF Promise!Next
<1>2. ASSUME NEW r \in Roles, NEW u \in Unions, Join(r, u) PROVE Promised
  BY <1>2 DEF Join, Promise!vars
<1>3. ASSUME NEW r \in Roles, NEW u \in Unions, Exit(r, u) PROVE Promised
  <2>1. Promise!Leave(r, u)
    BY <1>3 DEF Promise!Leave, Exit, MayExit
  <2>. QED  BY <2>1 DEF Promise!Next
<1>4. ASSUME NEW r \in Roles, NEW u \in Unions, Dismiss(r, u) PROVE Promised
  <2>1. chairman[u] = r /\ unionId[r] = u
    BY <1>4 DEF Dismiss, MayDismiss
  <2>2. unionId' = [q \in Roles |-> IF unionId[q] = u THEN NoUnion ELSE unionId[q]]
    BY <1>4 DEF Dismiss, DismissUnion, Inv, MembershipAgrees
  <2>3. Promise!Dissolve(u)
    BY <1>4, <2>1, <2>2 DEF Promise!Dissolve, Dismiss, DismissUnion
  <2>. QED  BY <2>1, <2>3 DEF Promise!Next
<1>5. ASSUME NEW op \in Roles, NEW r \in Roles, NEW u \in Unions, NEW d \in Decisions,
             Verify(op, r, u, d)
      PROVE  Promised
  <2>1. CASE members' = members /\ unionId' = unionId
    BY <1>5, <2>1 DEF Verify, Promise!vars
  <2>2. CASE ~IsHasUnion(r) /\ unionId' = [unionId EXCEPT ![r] = u]
    <3>1. Cardinality(Promise!MembersOf(u)) < MemberLimit
      BY <1>5, FreeSeat DEF Verify, MayVerify
    <3>2. chairman[u] # NoRole
      BY <1>5, ConstantsAssumption DEF Verify, MayVerify, Loaded, Inv, FoundersKnown
    <3>3. Promise!Enter(r, u)
      BY <1>5, <2>2, <3>1, <3>2, SameCardinality DEF Promise!Enter, Verify, IsHasUnion
    <3>. QED  BY <3>3 DEF Promise!Next
  <2>. QED  BY <1>5, <2>1, <2>2 DEF Verify
<1>6. ASSUME NEW op \in Roles, NEW r \in Roles, NEW u \in Unions, NEW t \in Titles,
             Appoint(op, r, u, t)
      PROVE  Promised
  BY <1>6 DEF Appoint, SetVice, Promise!vars
<1>7. CASE UNCHANGED vars
  BY <1>7 DEF vars, Promise!vars
<1>. QED  BY <1>1, <1>2, <1>3, <1>4, <1>5, <1>6, <1>7 DEF Next

(* unionController, its lists, applications and offices implement the       *)
(* unions as the players see them, for any number of roles and unions.      *)
THEOREM Implements == Spec => KeepsPromise
<1>1. Init => Promise!Init
  BY DEF Init, Promise!Init
<1>. QED  BY <1>1, StepIsPromised, InvariantHolds, PTL DEF Spec, KeepsPromise, Promise!Spec

-----------------------------------------------------------------------------
(* The cutting loop of exit, when races have listed a role twice.  CutAll   *)
(* is a fold; what it leaves is found by induction on the cells it has      *)
(* visited, that is, on the least number of cells for which it fails.       *)

LEMMA LeastNumber ==
    ASSUME NEW T \in SUBSET Nat, T # {}
    PROVE  \E n \in T : \A m \in T : n <= m
<1>1. PICK less : less = OpToRel(<, Nat)
  BY Zenon
<1>2. IsWellFoundedOn(less, Nat)
  BY <1>1, NatLessThanWellFounded, Zenon
<1>3. PICK n \in T : \A m \in T : <<m, n>> \notin less
  BY <1>2, WFMin
<1>4. \A m, k \in Nat : m < k => <<m, k>> \in less
  BY <1>1 DEF OpToRel
<1>5. \A m \in T : ~(m < n)
  BY <1>3, <1>4
<1>. QED  BY <1>5

(* The fold takes the last cell off; there always is one.                   *)
LEMMA LastCell ==
    ASSUME NEW n \in Nat, NEW t \in SUBSET (1..n), t # {}
    PROVE  Max(t) \in t /\ \A j \in t : j <= Max(t)
<1>1. PICK above : above = {m \in Nat : \A j \in t : j <= m}
  OBVIOUS
<1>2. n \in above
  BY <1>1
<1>3. PICK m \in above : \A k \in above : m <= k
  <2>1. above \in SUBSET Nat /\ above # {}
    BY <1>1, <1>2
  <2>. QED  BY <2>1, LeastNumber
<1>4. m \in Nat /\ \A j \in t : j <= m
  BY <1>1, <1>3
<1>5. m \in t
  <2>1. SUFFICES ASSUME m \notin t PROVE FALSE
    OBVIOUS
  <2>2. PICK j \in t : j \in 1..n
    OBVIOUS
  <2>3. m - 1 \in Nat
    BY <1>4, <2>2
  <2>4. \A i \in t : i <= m - 1
    BY <1>4, <2>1
  <2>5. m <= m - 1
    BY <1>1, <1>3, <2>3, <2>4
  <2>. QED  BY <1>4, <2>5
<1>6. \E x \in t : \A j \in t : x >= j
  BY <1>4, <1>5
<1>7. Max(t) \in t /\ \A j \in t : Max(t) >= j
  BY <1>6 DEF Max
<1>. QED  BY <1>7

LEMMA FewerCells ==
    ASSUME NEW n \in Nat, NEW t \in SUBSET (1..n)
    PROVE  /\ Cardinality(t) \in Nat /\ Cardinality(t) <= n
           /\ Cardinality(t) <= 0 => t = {}
           /\ t # {} => /\ Max(t) \in t /\ t \ {Max(t)} \in SUBSET (1..n)
                        /\ Cardinality(t \ {Max(t)}) = Cardinality(t) - 1
                        /\ Cardinality(t \ {Max(t)}) \in Nat
<1>1. IsFiniteSet(1..n) /\ Cardinality(1..n) = n
  <2>1. IsFiniteSet(1..n) /\ Cardinality(1..n) = IF 1 > n THEN 0 ELSE n - 1 + 1
    BY FS_Interval
  <2>. QED  BY <2>1
<1>2. IsFiniteSet(t) /\ Cardinality(t) \in Nat /\ Cardinality(t) <= n
  BY <1>1, FS_Subset, FS_CardinalityType
<1>3. Cardinality(t) <= 0 => t = {}
  BY <1>2, FS_EmptySet
<1>4. ASSUME t # {}
      PROVE  /\ Max(t) \in t /\ t \ {Max(t)} \in SUBSET (1..n)
             /\ Cardinality(t \ {Max(t)}) = Cardinality(t) - 1
             /\ Cardinality(t \ {Max(t)}) \in Nat
  <2>1. PICK x : x = Max(t)
    OBVIOUS
  <2>2. x \in t
    BY <1>4, <2>1, LastCell
  <2>3. IsFiniteSet(t \ {x}) /\ Cardinality(t \ {x}) = Cardinality(t) - 1
    BY <1>2, <2>2, FS_RemoveElement
  <2>4. Cardinality(t \ {x}) \in Nat
    BY <2>3, FS_CardinalityType
  <2>. QED  BY <2>1, <2>2, <2>3, <2>4
<1>. QED  BY <1>2, <1>3, <1>4

(* it tells what the loop has made of the list after any set of cells.      *)
Cutting(it, s, r) ==
    it = [t \in SUBSET (1..Len(s)) |->
             IF t = {} THEN Whole(s) ELSE Cut(r, Max(t), it[t \ {Max(t)}])]

LEMMA CuttingExists ==
    ASSUME NEW S, NEW s \in Seq(S), NEW r
    PROVE  \E it : Cutting(it, s, r)
<1>. DEFINE Body(g, t) == IF t = {} THEN Whole(s) ELSE Cut(r, Max(t), g[t \ {Max(t)}])
            UpTo(n, g) == \A t \in SUBSET (1..Len(s)) : Cardinality(t) <= n => g[t] = Body(g, t)
            Fails == {n \in Nat : ~\E g : UpTo(n, g)}
<1>1. Len(s) \in Nat
  BY LenProperties
<1>2. Fails = {}
  <2>1. SUFFICES ASSUME Fails # {} PROVE FALSE
    OBVIOUS
  <2>2. PICK n \in Fails : \A m \in Fails : n <= m
    <3>1. Fails \in SUBSET Nat
      OBVIOUS
    <3>. HIDE DEF Fails
    <3>. QED  BY <2>1, <3>1, LeastNumber
  <2>3. n \in Nat /\ ~\E g : UpTo(n, g)
    OBVIOUS
  <2>4. CASE n = 0
    <3>1. PICK g : g = [t \in SUBSET (1..Len(s)) |-> Whole(s)]
      OBVIOUS
    <3>2. UpTo(0, g)
      <4>1. ASSUME NEW t \in SUBSET (1..Len(s)), Cardinality(t) <= 0 PROVE t = {}
        BY <1>1, <4>1, FewerCells
      <4>. QED  BY <3>1, <4>1
    <3>. QED  BY <2>3, <2>4, <3>2
  <2>5. CASE n # 0
    <3>1. n - 1 \in Nat /\ n - 1 \notin Fails
      <4>1. n - 1 \in Nat /\ ~(n <= n - 1)
        BY <2>3, <2>5
      <4>. HIDE DEF Fails
      <4>. QED  BY <2>2, <4>1
    <3>2. PICK g : UpTo(n - 1, g)
      BY <3>1
    <3>3. PICK h : h = [t \in SUBSET (1..Len(s)) |->
                           IF Cardinality(t) <= n - 1 THEN g[t] ELSE Body(g, t)]
      OBVIOUS
    <3>4. ASSUME NEW t \in SUBSET (1..Len(s)), Cardinality(t) <= n PROVE h[t] = Body(h, t)
      <4>1. h[t] = Body(g, t)
        BY <3>2, <3>3
      <4>2. CASE t = {}
        BY <4>1, <4>2
      <4>3. CASE t # {}
        <5>1. h[t \ {Max(t)}] = g[t \ {Max(t)}]
          <6>1. t \ {Max(t)} \in SUBSET (1..Len(s)) /\ Cardinality(t) \in Nat
                /\ Cardinality(t \ {Max(t)}) = Cardinality(t) - 1
            BY <1>1, <4>3, FewerCells
          <6>2. Cardinality(t \ {Max(t)}) <= n - 1
            BY <2>3, <3>4, <6>1
          <6>. QED  BY <3>3, <6>1, <6>2
        <5>. QED  BY <4>1, <4>3, <5>1
      <4>. QED  BY <4>2, <4>3
    <3>5. UpTo(n, h)
      BY <3>4
    <3>. QED  BY <2>3, <3>5
  <2>. QED  BY <2>4, <2>5
<1>3. Len(s) \notin Fails
  BY <1>2
<1>4. PICK g : UpTo(Len(s), g)
  BY <1>1, <1>3
<1>5. PICK h : h = [t \in SUBSET (1..Len(s)) |-> g[t]]
  OBVIOUS
<1>6. ASSUME NEW t \in SUBSET (1..Len(s)) PROVE h[t] = Body(h, t)
  <2>1. Cardinality(t) <= Len(s)
    BY <1>1, FewerCells
  <2>2. t # {} => h[t \ {Max(t)}] = g[t \ {Max(t)}]
    BY <1>5
  <2>. QED  BY <1>4, <1>5, <2>1, <2>2
<1>. QED  BY <1>5, <1>6 DEF Cutting

LEMMA CutAllIsCutting ==
    ASSUME NEW S, NEW s \in Seq(S), NEW r
    PROVE  \E it : Cutting(it, s, r) /\ CutAll(s, r) = it[1..Len(s)]
<1>1. PICK seq : seq = [i \in 1..Len(s) |-> i]
  OBVIOUS
<1>2. Len(s) \in Nat /\ DOMAIN seq = 1..Len(s)
  BY <1>1, LenProperties
<1>. DEFINE Folds(it) ==
         it = [t \in SUBSET (DOMAIN seq) |->
                  IF t = {} THEN Whole(s) ELSE Cut(r, seq[Max(t)], it[t \ {Max(t)}])]
<1>3. CutAll(s, r) = (CHOOSE it : Folds(it))[DOMAIN seq]
  BY <1>1 DEF CutAll, FoldLeft, MapThenFoldSet
<1>4. \A it : Folds(it) <=> Cutting(it, s, r)
  <2>1. ASSUME NEW t \in SUBSET (1..Len(s)), t # {} PROVE seq[Max(t)] = Max(t)
    BY <1>1, <1>2, <2>1, LastCell
  <2>. SUFFICES ASSUME NEW it PROVE Folds(it) <=> Cutting(it, s, r)
    OBVIOUS
  <2>2. [t \in SUBSET (DOMAIN seq) |->
            IF t = {} THEN Whole(s) ELSE Cut(r, seq[Max(t)], it[t \ {Max(t)}])]
        = [t \in SUBSET (1..Len(s)) |->
            IF t = {} THEN Whole(s) ELSE Cut(r, Max(t), it[t \ {Max(t)}])]
    BY <1>2, <2>1
  <2>. QED  BY <2>2 DEF Cutting
<1>5. \E it : Folds(it)
  BY <1>4, CuttingExists
<1>. HIDE DEF Folds
<1>6. Folds(CHOOSE it : Folds(it))
  BY <1>5
<1>. QED  BY <1>2, <1>3, <1>4, <1>6

(* What the loop keeps true: the list is the front of the cells, and only   *)
(* entries of the leaver are gone from it.                                  *)
Spared(s, r, st) ==
    /\ st.live \in Seq(Roles) /\ st.cells \in Seq(Roles) /\ Len(st.cells) = Len(s)
    /\ Len(st.live) <= Len(s) /\ \A i \in 1..Len(st.live) : st.cells[i] = st.live[i]
    /\ ToSet(st.live) \subseteq ToSet(s)
    /\ \A q \in Roles \ {r} : Occurrences(q, st.live) = Occurrences(q, s)

(* Taking out an entry of r leaves as many of everybody else.               *)
LEMMA OthersStay ==
    ASSUME NEW s \in Seq(Roles), NEW k \in 1..Len(s), NEW q, s[k] # q
    PROVE  Occurrences(q, RemoveAt(s, k)) = Occurrences(q, s)
<1>1. PICK w : w = RemoveAt(s, k)
  OBVIOUS
<1>2. PICK n \in Nat : n = Len(s)
  BY LenProperties
<1>3. /\ DOMAIN s = 1..n /\ DOMAIN w = 1..(n - 1) /\ k \in 1..n
      /\ \A i \in 1..(n - 1) : w[i] = IF i < k THEN s[i] ELSE s[i + 1]
  BY <1>1, <1>2, RemoveOne, LenProperties
<1>4. PICK before, after : /\ before = {i \in 1..n : s[i] = q}
                           /\ after = {i \in 1..(n - 1) : w[i] = q}
  OBVIOUS
<1>5. PICK f : f = [i \in after |-> IF i < k THEN i ELSE i + 1]
  OBVIOUS
<1>6. f \in [after -> before]
  <2>1. ASSUME NEW i \in after PROVE f[i] \in before
    BY <1>3, <1>4, <1>5
  <2>. QED  BY <1>5, <2>1
<1>7. \A i, j \in after : f[i] = f[j] => i = j
  <2>1. after \subseteq Int /\ k \in Int
    BY <1>3, <1>4
  <2>2. \A i \in after : f[i] = IF i < k THEN i ELSE i + 1
    BY <1>5
  <2>. QED  BY <2>1, <2>2
<1>8. ASSUME NEW j \in before PROVE \E i \in after : f[i] = j
  <2>1. j \in 1..n /\ s[j] = q /\ j # k
    BY <1>4
  <2>2. CASE j < k
    <3>1. j \in 1..(n - 1) /\ w[j] = q
      BY <1>3, <2>1, <2>2
    <3>2. j \in after /\ f[j] = j
      BY <1>4, <1>5, <2>2, <3>1
    <3>. QED  BY <3>2
  <2>3. CASE j > k
    <3>1. j - 1 \in 1..(n - 1) /\ ~(j - 1 < k) /\ (j - 1) + 1 = j
      BY <1>3, <2>1, <2>3
    <3>2. w[j - 1] = q
      BY <1>3, <2>1, <3>1
    <3>3. j - 1 \in after /\ f[j - 1] = j
      BY <1>4, <1>5, <3>1, <3>2
    <3>. QED  BY <3>3
  <2>. QED  BY <1>3, <2>1, <2>2, <2>3
<1>9. f \in Bijection(after, before)
  BY <1>6, <1>7, <1>8 DEF Bijection, Injection, Surjection, IsInjective
<1>10. IsFiniteSet(after)
  <2>1. IsFiniteSet(1..(n - 1))
    BY <1>2, FS_Interval
  <2>. QED  BY <1>4, <2>1, FS_Subset
<1>11. Cardinality(before) = Cardinality(after)
  BY <1>9, <1>10, FS_Bijection DEF ExistsBijection
<1>12. Occurrences(q, s) = Cardinality(before) /\ Occurrences(q, w) = Cardinality(after)
  BY <1>3, <1>4 DEF Occurrences
<1>. QED  BY <1>1, <1>11, <1>12

LEMMA CutSpares ==
    ASSUME NEW s \in Seq(Roles), NEW r, NEW st, Spared(s, r, st), NEW i \in 1..Len(s)
    PROVE  Spared(s, r, Cut(r, i, st))
<1>1. CASE st.panic \/ st.cells[i] # r
  BY <1>1 DEF Cut
<1>2. CASE ~st.panic /\ st.cells[i] = r /\ i > Len(st.live)
  <2>1. PICK new : new = [st EXCEPT !.panic = TRUE]
    OBVIOUS
  <2>2. new.live = st.live /\ new.cells = st.cells
    BY <2>1
  <2>3. Cut(r, i, st) = new
    BY <1>2, <2>1 DEF Cut
  <2>. QED  BY <2>2, <2>3 DEF Spared
<1>3. CASE ~st.panic /\ st.cells[i] = r /\ ~(i > Len(st.live))
  <2>1. PICK live, cells : live = st.live /\ cells = st.cells
    OBVIOUS
  <2>2. PICK n, m \in Nat : n = Len(s) /\ m = Len(live)
    BY <2>1, LenProperties DEF Spared
  <2>3. /\ live \in Seq(Roles) /\ cells \in Seq(Roles) /\ Len(cells) = n /\ m <= n
        /\ i \in 1..m /\ live[i] = r /\ \A j \in 1..m : cells[j] = live[j]
        /\ ToSet(live) \subseteq ToSet(s) /\ DOMAIN live = 1..m
    BY <1>3, <2>1, <2>2, LenProperties DEF Spared
  <2>4. PICK shorter : shorter = RemoveAt(live, i)
    OBVIOUS
  <2>5. /\ shorter \in Seq(Roles) /\ Len(shorter) = m - 1 /\ DOMAIN shorter = 1..(m - 1)
        /\ \A j \in 1..(m - 1) : shorter[j] = IF j < i THEN live[j] ELSE live[j + 1]
    BY <2>2, <2>3, <2>4, RemoveOne
  <2>6. PICK rest : rest = SubSeq(cells, m, n)
    OBVIOUS
  <2>7. rest \in Seq(Roles) /\ Len(rest) = n - m + 1
    <3>1. \A j \in m..n : cells[j] \in Roles
      BY <2>3, LenProperties, ElementOfSeq
    <3>2. rest \in Seq(Roles) /\ Len(rest) = IF m <= n THEN n - m + 1 ELSE 0
      BY <2>6, <3>1, SubSeqProperties
    <3>. QED  BY <2>3, <3>2
  <2>8. /\ shorter \o rest \in Seq(Roles) /\ Len(shorter \o rest) = n
        /\ \A j \in 1..(m - 1) : (shorter \o rest)[j] = shorter[j]
    <3>1. /\ shorter \o rest \in Seq(Roles)
          /\ Len(shorter \o rest) = Len(shorter) + Len(rest)
          /\ \A j \in 1..(Len(shorter) + Len(rest)) :
                (shorter \o rest)[j] = IF j <= Len(shorter) THEN shorter[j] ELSE rest[j - Len(shorter)]
      BY <2>5, <2>7, ConcatProperties
    <3>. QED  BY <2>3, <2>5, <2>7, <3>1
  <2>9. Cut(r, i, st) = [live |-> shorter, cells |-> shorter \o rest, panic |-> FALSE]
    <3>1. (m - 1) + 1 = m
      OBVIOUS
    <3>. QED  BY <1>3, <2>1, <2>3, <2>4, <2>5, <2>6, <3>1 DEF Cut
  <2>10. ToSet(shorter) \subseteq ToSet(s)
    <3>1. ASSUME NEW j \in 1..(m - 1) PROVE shorter[j] \in ToSet(live)
      <4>1. j \in 1..m /\ j + 1 \in 1..m
        OBVIOUS
      <4>2. shorter[j] = live[j] \/ shorter[j] = live[j + 1]
        BY <2>5
      <4>. QED  BY <2>3, <4>1, <4>2 DEF ToSet
    <3>. QED  BY <2>3, <2>5, <3>1 DEF ToSet
  <2>11. \A q \in Roles \ {r} : Occurrences(q, shorter) = Occurrences(q, s)
    BY <2>1, <2>2, <2>3, <2>4, OthersStay DEF Spared
  <2>12. PICK new : new = [live |-> shorter, cells |-> shorter \o rest, panic |-> FALSE]
    OBVIOUS
  <2>13. Spared(s, r, new)
    <3>1. new.live = shorter /\ new.cells = shorter \o rest
      BY <2>12
    <3>2. Len(new.cells) = Len(s) /\ Len(new.live) <= Len(s)
      <4>1. Len(new.cells) = n /\ Len(new.live) = m - 1 /\ m - 1 <= n
        BY <2>3, <2>5, <2>8, <3>1
      <4>. QED  BY <2>2, <4>1
    <3>3. \A j \in 1..Len(new.live) : new.cells[j] = new.live[j]
      BY <2>5, <2>8, <3>1
    <3>. QED  BY <2>5, <2>8, <2>10, <2>11, <3>1, <3>2, <3>3 DEF Spared
  <2>. QED  BY <2>9, <2>12, <2>13
<1>. QED  BY <1>1, <1>2, <1>3

LEMMA CutAllSpares ==
    ASSUME NEW s \in Seq(Roles), NEW r
    PROVE  Spared(s, r, CutAll(s, r))
<1>1. PICK it : Cutting(it, s, r) /\ CutAll(s, r) = it[1..Len(s)]
  BY CutAllIsCutting
<1>2. PICK n \in Nat : n = Len(s)
  BY LenProperties
<1>3. Spared(s, r, Whole(s))
  BY <1>2 DEF Spared, Whole
<1>. DEFINE Fails == {k \in 0..n : ~Spared(s, r, it[1..k])}
<1>4. Fails = {}
  <2>1. SUFFICES ASSUME Fails # {} PROVE FALSE
    OBVIOUS
  <2>2. PICK k \in Fails : \A m \in Fails : k <= m
    <3>1. Fails \in SUBSET Nat
      OBVIOUS
    <3>. HIDE DEF Fails
    <3>. QED  BY <2>1, <3>1, LeastNumber
  <2>3. k \in 0..n /\ ~Spared(s, r, it[1..k])
    OBVIOUS
  <2>4. CASE k = 0
    <3>1. 1..k = {}
      BY <2>4
    <3>2. it[{}] = Whole(s)
      BY <1>1 DEF Cutting
    <3>3. it[1..k] = Whole(s)
      BY <3>1, <3>2
    <3>. QED  BY <1>3, <2>3, <3>3
  <2>5. CASE k # 0
    <3>1. k \in 1..n /\ k - 1 \in 0..n
      BY <2>3, <2>5
    <3>2. PICK t : t = 1..k
      OBVIOUS
    <3>3. t \in SUBSET (1..n) /\ t # {} /\ k \in t
      <4>1. \A j \in 1..k : j \in 1..n
        BY <3>1
      <4>2. k \in 1..k
        BY <3>1
      <4>. QED  BY <3>2, <4>1, <4>2
    <3>4. Max(t) = k
      <4>1. Max(t) \in t /\ \A j \in t : j <= Max(t)
        BY <3>3, LastCell
      <4>. QED  BY <3>1, <3>2, <3>3, <4>1
    <3>5. t \ {k} = 1..(k - 1)
      BY <3>1, <3>2
    <3>6. it[t] = Cut(r, k, it[1..(k - 1)])
      BY <1>1, <1>2, <3>3, <3>4, <3>5 DEF Cutting
    <3>7. Spared(s, r, it[1..(k - 1)])
      <4>1. ~(k <= k - 1)
        BY <3>1
      <4>2. k - 1 \notin Fails
        <5>. HIDE DEF Fails
        <5>. QED  BY <2>2, <4>1
      <4>. QED  BY <3>1, <4>2
    <3>8. Spared(s, r, it[t])
      BY <1>2, <3>1, <3>6, <3>7, CutSpares
    <3>. QED  BY <2>3, <3>2, <3>8
  <2>. QED  BY <2>4, <2>5
<1>5. n \notin Fails /\ n \in 0..n
  BY <1>4
<1>. QED  BY <1>1, <1>2, <1>5

(* Who is listed at all is listed still, the leaver perhaps not.            *)
LEMMA ListedStay ==
    ASSUME NEW s \in Seq(Roles), NEW r, NEW live \in Seq(Roles), NEW q,
           Occurrences(q, live) = Occurrences(q, s), q \in ToSet(s)
    PROVE  q \in ToSet(live)
<1>1. PICK n \in Nat : n = Len(s) /\ DOMAIN s = 1..n
  BY LenProperties
<1>2. PICK there, kept : there = {i \in DOMAIN s : s[i] = q} /\ kept = {i \in DOMAIN live : live[i] = q}
  OBVIOUS
<1>3. there # {}
  BY <1>2 DEF ToSet
<1>4. IsFiniteSet(there)
  <2>1. IsFiniteSet(1..n)
    BY FS_Interval
  <2>. QED  BY <1>1, <1>2, <2>1, FS_Subset
<1>5. Cardinality(kept) # 0
  <2>1. Cardinality(there) # 0
    BY <1>3, <1>4, FS_EmptySet
  <2>. QED  BY <1>2, <2>1 DEF Occurrences
<1>6. kept # {}
  BY <1>5, FS_EmptySet
<1>. QED  BY <1>2, <1>6 DEF ToSet

-----------------------------------------------------------------------------
(* Overlapping requests.  A stale list is safe to write back because the    *)
(* union it was read from was loaded by then: its founder was in it, and    *)
(* nobody else founds the union again.                                      *)

Requests ==
    {Idle} \cup [kind : {"create"}] \cup [kind : {"dismiss", "exit"}, union : Unions]
    \cup [kind : {"admit", "close"}, role : Roles, union : Unions, decide : Decisions]
    \cup [kind : {"append"}, role : Roles, union : Unions, decide : Decisions, seen : Seq(Roles)]
    \cup [kind : {"appoint"}, role : Roles, union : Unions, title : Titles]

StillRight(r, q) ==
    /\ q.kind \in {"admit", "append", "close", "appoint"} =>
          Loaded(q.union) /\ AskedFor(q.role, q.union)
    /\ q.kind = "append" =>
          /\ state[q.union] = "running" => chairman[q.union] \in ToSet(q.seen)
          /\ \A p \in ToSet(q.seen) : AskedFor(p, q.union)
    /\ q.kind = "exit" => Loaded(q.union) /\ chairman[q.union] # r

Checked == pending \in [Roles -> Requests] /\ \A r \in Roles : StillRight(r, pending[r])

OverlapInv == TypeOK /\ ChairmanStaysListed /\ BoundByConsent /\ Checked

(* Nobody takes back an application or a founding, and no union comes to    *)
(* life a second time but by a restart.                                     *)
Remembers ==
    /\ \A r \in Roles, u \in Unions : AskedFor(r, u) => AskedFor(r, u)'
    /\ \A u \in Unions : Loaded(u) => Loaded(u)' /\ chairman'[u] = chairman[u]
    /\ \A u \in Unions : Loaded(u) /\ state'[u] = "running" => state[u] = "running"

LEMMA OthersStillRight ==
    ASSUME OverlapInv, Remembers, NEW r \in Roles, NEW q, q \in Requests, StillRight(r, q)
    PROVE  StillRight(r, q)'
<1>1. CASE q.kind \in {"admit", "close", "appoint"}
  <2>1. q.role \in Roles /\ q.union \in Unions
    BY <1>1 DEF Requests, Idle
  <2>. QED  BY <1>1, <2>1 DEF StillRight, Remembers
<1>2. CASE q.kind = "append"
  <2>1. q.role \in Roles /\ q.union \in Unions /\ q.seen \in Seq(Roles)
    BY <1>2 DEF Requests, Idle
  <2>2. ToSet(q.seen) \subseteq Roles
    BY <2>1, LenProperties, ElementOfSeq DEF ToSet
  <2>. QED  BY <1>2, <2>1, <2>2 DEF StillRight, Remembers
<1>3. CASE q.kind = "exit"
  <2>1. q.union \in Unions
    BY <1>3 DEF Requests, Idle
  <2>. QED  BY <1>3, <2>1 DEF StillRight, Remembers
<1>4. CASE q.kind \notin {"admit", "close", "appoint", "append", "exit"}
  BY <1>4 DEF StillRight
<1>. QED  BY <1>1, <1>2, <1>3, <1>4

(* One request goes on; those of the others are as right as they were.      *)
LEMMA OneRequestGoesOn ==
    ASSUME OverlapInv, Remembers, NEW r \in Roles, NEW next \in Requests, StillRight(r, next)',
           pending' = [pending EXCEPT ![r] = next]
    PROVE  Checked'
<1>1. pending' \in [Roles -> Requests]
  BY DEF OverlapInv, Checked
<1>2. ASSUME NEW p \in Roles PROVE StillRight(p, pending[p])'
  <2>1. PICK q : q = pending'[p]
    OBVIOUS
  <2>2. CASE p = r
    <3>1. q = next
      BY <2>1, <2>2 DEF OverlapInv, Checked
    <3>. QED  BY <2>1, <2>2, <3>1 DEF StillRight
  <2>3. CASE p # r
    <3>1. q = pending[p] /\ q \in Requests /\ StillRight(p, q)
      BY <2>1, <2>3 DEF OverlapInv, Checked
    <3>2. StillRight(p, q)'
      BY <3>1, OthersStillRight
    <3>. QED  BY <2>1, <3>2 DEF StillRight
  <2>. QED  BY <2>2, <2>3
<1>. QED  BY <1>1, <1>2 DEF Checked

LEMMA NothingForgotten == UNCHANGED <<state, chairman, apply>> => Remembers
BY DEF Remembers, AskedFor, Loaded

(* Steps that only check or read.                                           *)
LEMMA OnlyAsks ==
    ASSUME OverlapInv, UNCHANGED vars, NEW r \in Roles, NEW next \in Requests, StillRight(r, next),
           pending' = [pending EXCEPT ![r] = next]
    PROVE  OverlapInv'
<1>1. Remembers
  BY NothingForgotten DEF vars
<1>2. StillRight(r, next)'
  BY <1>1, OthersStillRight
<1>3. Checked'
  BY <1>1, <1>2, OneRequestGoesOn
<1>4. TypeOK' /\ ChairmanStaysListed' /\ BoundByConsent'
  BY DEF OverlapInv, TypeOK, ChairmanStaysListed, BoundByConsent, AskedFor, vars
<1>. QED  BY <1>3, <1>4 DEF OverlapInv

LEMMA IdleIsRight == Idle \in Requests /\ \A r \in Roles : StillRight(r, Idle) /\ StillRight(r, Idle)'
BY DEF Requests, StillRight, Idle

LEMMA OverlapAtInit == OverlapInit => OverlapInv
<1>. SUFFICES ASSUME OverlapInit PROVE OverlapInv
  OBVIOUS
<1>1. TypeOK /\ ChairmanStaysListed
  BY DEF OverlapInit, Init, TypeOK, ChairmanStaysListed, ApplyStates
<1>2. BoundByConsent
  <2>1. ToSet(<<>>) = {}
    BY EmptyList
  <2>. QED  BY <2>1, ConstantsAssumption DEF OverlapInit, Init, BoundByConsent
<1>3. Checked
  BY IdleIsRight DEF OverlapInit, Checked
<1>. QED  BY <1>1, <1>2, <1>3 DEF OverlapInv

LEMMA BeginsKeep ==
    ASSUME OverlapInv, NEW r \in Roles, NEW u \in Unions, NEW q \in Roles,
           NEW d \in Decisions, NEW t \in Titles,
           BeginCreate(r) \/ BeginExit(r, u) \/ BeginDismiss(r, u) \/ BeginVerify(r, q, u, d)
           \/ BeginAppoint(r, q, u, t) \/ ReadMembers(r)
    PROVE  OverlapInv'
<1>1. CASE BeginCreate(r)
  <2>1. PICK next : next = [kind |-> "create"]
    OBVIOUS
  <2>2. next \in Requests /\ StillRight(r, next)
    BY <2>1 DEF Requests, StillRight
  <2>. QED  BY <1>1, <2>1, <2>2, OnlyAsks DEF BeginCreate, Begin
<1>2. CASE BeginExit(r, u)
  <2>1. PICK next : next = [kind |-> "exit", union |-> u]
    OBVIOUS
  <2>2. next \in Requests /\ StillRight(r, next)
    BY <1>2, <2>1 DEF Requests, StillRight, BeginExit, MayExit
  <2>. QED  BY <1>2, <2>1, <2>2, OnlyAsks DEF BeginExit, Begin
<1>3. CASE BeginDismiss(r, u)
  <2>1. PICK next : next = [kind |-> "dismiss", union |-> u]
    OBVIOUS
  <2>2. next \in Requests /\ StillRight(r, next)
    BY <2>1 DEF Requests, StillRight
  <2>. QED  BY <1>3, <2>1, <2>2, OnlyAsks DEF BeginDismiss, Begin
<1>4. CASE BeginVerify(r, q, u, d)
  <2>1. PICK next : next = [kind |-> IF d = "adopt" /\ ~IsHasUnion(q) THEN "admit" ELSE "close",
                            role |-> q, union |-> u, decide |-> d]
    OBVIOUS
  <2>2. /\ next.kind \in {"admit", "close"} /\ next.role = q /\ next.union = u
        /\ next \in Requests
    BY <2>1 DEF Requests
  <2>3. Loaded(u) /\ AskedFor(q, u)
    BY <1>4 DEF BeginVerify, MayVerify, AskedFor
  <2>4. StillRight(r, next)
    BY <2>2, <2>3 DEF StillRight
  <2>. QED  BY <1>4, <2>1, <2>2, <2>4, OnlyAsks DEF BeginVerify, Begin
<1>5. CASE BeginAppoint(r, q, u, t)
  <2>1. PICK next : next = [kind |-> "appoint", role |-> q, union |-> u, title |-> t]
    OBVIOUS
  <2>2. next \in Requests
    BY <2>1 DEF Requests
  <2>3. Loaded(u) /\ AskedFor(q, u)
    BY <1>5 DEF BeginAppoint, MayAppoint, MayDismiss, OverlapInv, BoundByConsent
  <2>4. StillRight(r, next)
    BY <2>1, <2>3 DEF StillRight
  <2>. QED  BY <1>5, <2>1, <2>2, <2>4, OnlyAsks DEF BeginAppoint, Begin
<1>6. CASE ReadMembers(r)
  <2>1. PICK old : old = pending[r]
    OBVIOUS
  <2>2. PICK next : next = [kind |-> "append", role |-> old.role, union |-> old.union,
                            decide |-> old.decide, seen |-> members[old.union]]
    OBVIOUS
  <2>3. /\ old.kind = "admit" /\ pending' = [pending EXCEPT ![r] = next] /\ UNCHANGED vars
    BY <1>6, <2>1, <2>2 DEF ReadMembers, OverlapInv, Checked
  <2>4. /\ old.role \in Roles /\ old.union \in Unions /\ old.decide \in Decisions
        /\ Loaded(old.union) /\ AskedFor(old.role, old.union)
    BY <2>1, <2>3 DEF OverlapInv, Checked, Requests, Idle, StillRight
  <2>5. members[old.union] \in Seq(Roles) /\ ToSet(members[old.union]) \subseteq Roles
    BY <2>4, LenProperties, ElementOfSeq DEF OverlapInv, TypeOK, ToSet
  <2>6. next \in Requests
    BY <2>2, <2>4, <2>5 DEF Requests
  <2>7. StillRight(r, next)
    BY <2>2, <2>4, <2>5 DEF StillRight, OverlapInv, ChairmanStaysListed, BoundByConsent
  <2>. QED  BY <2>3, <2>6, <2>7, OnlyAsks
<1>. QED  BY <1>1, <1>2, <1>3, <1>4, <1>5, <1>6

(* Steps that write.                                                        *)
LEMMA EndCreateKeeps ==
    ASSUME OverlapInv, NEW r \in Roles, NEW u \in Unions, EndCreate(r, u)
    PROVE  OverlapInv'
<1>1. /\ state[u] = "none" /\ chairman[u] = NoRole
      /\ state' = [state EXCEPT ![u] = "running"] /\ chairman' = [chairman EXCEPT ![u] = r]
      /\ members' = [members EXCEPT ![u] = <<r>>] /\ unionId' = [unionId EXCEPT ![r] = u]
      /\ UNCHANGED <<vice, apply>> /\ pending' = [pending EXCEPT ![r] = Idle]
  BY DEF EndCreate, FoundUnion, Finish
<1>2. <<r>> \in Seq(Roles) /\ ToSet(<<r>>) = {r}
  BY SingletonList
<1>3. TypeOK'
  BY <1>1, <1>2 DEF OverlapInv, TypeOK
<1>4. Remembers
  <2>1. \A q \in Roles : q # NoRole
    BY ConstantsAssumption
  <2>. QED  BY <1>1, <2>1 DEF Remembers, AskedFor, Loaded, OverlapInv, TypeOK
<1>5. Checked'
  BY <1>1, <1>4, IdleIsRight, OneRequestGoesOn
<1>6. ChairmanStaysListed'
  BY <1>1, <1>2 DEF OverlapInv, TypeOK, ChairmanStaysListed
<1>7. BoundByConsent'
  <2>. SUFFICES ASSUME NEW q \in Roles, NEW v \in Unions,
                       q \in ToSet(members'[v]) \/ unionId'[q] = v \/ vice'[v] = q
                PROVE  AskedFor(q, v)'
    BY DEF BoundByConsent
  <2>1. CASE q = r /\ v = u
    BY <1>1, <2>1 DEF AskedFor, OverlapInv, TypeOK
  <2>2. CASE ~(q = r /\ v = u)
    <3>1. q \in ToSet(members[v]) \/ unionId[q] = v \/ vice[v] = q
      BY <1>1, <1>2, <2>2 DEF OverlapInv, TypeOK
    <3>. QED  BY <1>4, <3>1 DEF Remembers, OverlapInv, BoundByConsent
  <2>. QED  BY <2>1, <2>2
<1>. QED  BY <1>3, <1>5, <1>6, <1>7 DEF OverlapInv

LEMMA OverlapJoinKeeps ==
    ASSUME OverlapInv, NEW r \in Roles, NEW u \in Unions, OverlapJoin(r, u)
    PROVE  OverlapInv'
<1>1. /\ apply' = [apply EXCEPT ![<<r, u>>] = "untreated"]
      /\ UNCHANGED <<state, chairman, vice, members, unionId, pending>>
  BY DEF OverlapJoin, Join
<1>2. TypeOK'
  BY <1>1 DEF OverlapInv, TypeOK, ApplyStates
<1>3. Remembers
  BY <1>1 DEF Remembers, AskedFor, Loaded, OverlapInv, TypeOK
<1>4. Checked'
  <2>1. \A p \in Roles : StillRight(p, pending[p])'
    <3>. SUFFICES ASSUME NEW p \in Roles PROVE StillRight(p, pending[p])'
      OBVIOUS
    <3>1. PICK q : q = pending[p]
      OBVIOUS
    <3>2. StillRight(p, q)'
      BY <1>3, <3>1, OthersStillRight DEF OverlapInv, Checked
    <3>. QED  BY <1>1, <3>1, <3>2 DEF StillRight
  <2>. QED  BY <1>1, <2>1 DEF OverlapInv, Checked
<1>5. ChairmanStaysListed'
  BY <1>1 DEF OverlapInv, ChairmanStaysListed
<1>6. BoundByConsent'
  BY <1>1, <1>3 DEF Remembers, OverlapInv, BoundByConsent
<1>. QED  BY <1>2, <1>4, <1>5, <1>6 DEF OverlapInv

(* The longer list is the one that was read, with the applicant.            *)
LEMMA WriteMembersKeeps ==
    ASSUME OverlapInv, NEW op \in Roles, WriteMembers(op)
    PROVE  OverlapInv'
<1>1. PICK req : req = pending[op]
  OBVIOUS
<1>2. PICK next : next = [kind |-> "close", role |-> req.role, union |-> req.union,
                          decide |-> req.decide]
  OBVIOUS
<1>3. PICK longer : longer = Append(req.seen, req.role)
  OBVIOUS
<1>4. /\ req.kind = "append"
      /\ members' = [members EXCEPT ![req.union] = longer]
      /\ unionId' = [unionId EXCEPT ![req.role] = req.union]
      /\ pending' = [pending EXCEPT ![op] = next]
      /\ UNCHANGED <<state, chairman, vice, apply>>
  BY <1>1, <1>2, <1>3 DEF WriteMembers
<1>5. /\ req.role \in Roles /\ req.union \in Unions /\ req.decide \in Decisions
      /\ req.seen \in Seq(Roles)
  BY <1>1, <1>4 DEF OverlapInv, Checked, Requests, Idle
<1>6. /\ Loaded(req.union) /\ AskedFor(req.role, req.union)
      /\ state[req.union] = "running" => chairman[req.union] \in ToSet(req.seen)
      /\ \A p \in ToSet(req.seen) : AskedFor(p, req.union)
  BY <1>1, <1>4 DEF OverlapInv, Checked, StillRight
<1>7. longer \in Seq(Roles) /\ ToSet(longer) = ToSet(req.seen) \cup {req.role}
  BY <1>3, <1>5, AppendList
<1>8. TypeOK'
  BY <1>4, <1>5, <1>7 DEF OverlapInv, TypeOK
<1>9. Remembers
  BY <1>4, NothingForgotten
<1>10. Checked'
  <2>1. next \in Requests /\ StillRight(op, next)
    BY <1>2, <1>5, <1>6 DEF Requests, StillRight
  <2>. QED  BY <1>4, <1>9, <2>1, OthersStillRight, OneRequestGoesOn
<1>11. ChairmanStaysListed'
  BY <1>4, <1>5, <1>6, <1>7 DEF OverlapInv, TypeOK, ChairmanStaysListed
<1>12. BoundByConsent'
  <2>. SUFFICES ASSUME NEW q \in Roles, NEW v \in Unions,
                       q \in ToSet(members'[v]) \/ unionId'[q] = v \/ vice'[v] = q
                PROVE  AskedFor(q, v)
    BY <1>4 DEF BoundByConsent, AskedFor
  <2>1. CASE q \in ToSet(members[v]) \/ unionId[q] = v \/ vice[v] = q
    BY <2>1 DEF OverlapInv, BoundByConsent
  <2>2. CASE v = req.union /\ q \in ToSet(longer)
    BY <1>6, <1>7, <2>2
  <2>3. CASE v = req.union /\ q = req.role
    BY <1>6, <2>3
  <2>. QED  BY <1>4, <1>5, <2>1, <2>2, <2>3 DEF OverlapInv, TypeOK
<1>. QED  BY <1>8, <1>10, <1>11, <1>12 DEF OverlapInv

LEMMA CloseApplyKeeps ==
    ASSUME OverlapInv, NEW op \in Roles, CloseApply(op)
    PROVE  OverlapInv'
<1>1. PICK req : req = pending[op]
  OBVIOUS
<1>2. /\ req.kind = "close" /\ apply' = [apply EXCEPT ![<<req.role, req.union>>] = req.decide]
      /\ pending' = [pending EXCEPT ![op] = Idle]
      /\ UNCHANGED <<state, chairman, vice, members, unionId>>
  BY <1>1 DEF CloseApply, Finish
<1>3. req.role \in Roles /\ req.union \in Unions /\ req.decide \in Decisions
  BY <1>1, <1>2 DEF OverlapInv, Checked, Requests, Idle
<1>4. TypeOK'
  BY <1>2, <1>3 DEF OverlapInv, TypeOK, ApplyStates, Decisions
<1>5. Remembers
  BY <1>2, <1>3 DEF Remembers, AskedFor, Loaded, OverlapInv, TypeOK, Decisions
<1>6. Checked'
  BY <1>2, <1>5, IdleIsRight, OneRequestGoesOn
<1>7. ChairmanStaysListed'
  BY <1>2 DEF OverlapInv, ChairmanStaysListed
<1>8. BoundByConsent'
  BY <1>2, <1>5 DEF Remembers, OverlapInv, BoundByConsent
<1>. QED  BY <1>4, <1>6, <1>7, <1>8 DEF OverlapInv

(* The chairman is not the leaver, and all others are spared.               *)
LEMMA EndExitKeeps ==
    ASSUME OverlapInv, NEW r \in Roles, EndExit(r)
    PROVE  OverlapInv'
<1>1. PICK u : u = pending[r].union
  OBVIOUS
<1>2. PICK cut : cut = CutAll(members[u], r)
  OBVIOUS
<1>3. /\ pending[r].kind = "exit" /\ members' = [members EXCEPT ![u] = cut.live]
      /\ \/ UNCHANGED <<vice, unionId>>
         \/ /\ vice' = [vice EXCEPT ![u] = IF @ = r THEN NoRole ELSE @]
            /\ unionId' = [unionId EXCEPT ![r] = NoUnion]
      /\ pending' = [pending EXCEPT ![r] = Idle]
      /\ UNCHANGED <<state, chairman, apply>>
  BY <1>1, <1>2 DEF EndExit, Finish
<1>4. u \in Unions /\ chairman[u] # r /\ members[u] \in Seq(Roles)
  <2>1. PICK req : req = pending[r]
    OBVIOUS
  <2>2. req \in Requests /\ req.kind = "exit" /\ u = req.union /\ chairman[u] # r
    BY <1>1, <1>3, <2>1 DEF OverlapInv, Checked, StillRight
  <2>3. u \in Unions
    BY <2>2 DEF Requests, Idle
  <2>. QED  BY <2>2, <2>3 DEF OverlapInv, TypeOK
<1>5. /\ cut.live \in Seq(Roles) /\ ToSet(cut.live) \subseteq ToSet(members[u])
      /\ \A q \in Roles \ {r} : Occurrences(q, cut.live) = Occurrences(q, members[u])
  BY <1>2, <1>4, CutAllSpares DEF Spared
<1>6. TypeOK'
  BY <1>3, <1>4, <1>5 DEF OverlapInv, TypeOK
<1>7. Remembers
  BY <1>3, NothingForgotten
<1>8. Checked'
  BY <1>3, <1>7, IdleIsRight, OneRequestGoesOn
<1>9. ChairmanStaysListed'
  <2>. SUFFICES ASSUME NEW v \in Unions, state[v] = "running"
                PROVE  chairman[v] \in ToSet(members'[v])
    BY <1>3 DEF ChairmanStaysListed
  <2>1. chairman[v] \in ToSet(members[v])
    BY DEF OverlapInv, ChairmanStaysListed
  <2>2. CASE v = u
    <3>1. chairman[u] \in Roles \ {r}
      <4>1. ToSet(members[u]) \subseteq Roles
        BY <1>4, LenProperties, ElementOfSeq DEF ToSet
      <4>. QED  BY <1>4, <2>1, <2>2, <4>1
    <3>2. chairman[u] \in ToSet(cut.live)
      BY <1>4, <1>5, <2>1, <2>2, <3>1, ListedStay
    <3>. QED  BY <1>3, <1>4, <2>2, <3>2 DEF OverlapInv, TypeOK
  <2>3. CASE v # u
    BY <1>3, <2>1, <2>3 DEF OverlapInv, TypeOK
  <2>. QED  BY <2>2, <2>3
<1>10. BoundByConsent'
  <2>. SUFFICES ASSUME NEW q \in Roles, NEW v \in Unions,
                       q \in ToSet(members'[v]) \/ unionId'[q] = v \/ vice'[v] = q
                PROVE  AskedFor(q, v)
    BY <1>3 DEF BoundByConsent, AskedFor
  <2>1. q \in ToSet(members'[v]) => q \in ToSet(members[v])
    BY <1>3, <1>4, <1>5 DEF OverlapInv, TypeOK
  <2>2. unionId'[q] = v => unionId[q] = v
    BY <1>3, ConstantsAssumption DEF OverlapInv, TypeOK
  <2>3. vice'[v] = q => vice[v] = q
    BY <1>3, ConstantsAssumption DEF OverlapInv, TypeOK
  <2>. QED  BY <2>1, <2>2, <2>3 DEF OverlapInv, BoundByConsent
<1>. QED  BY <1>6, <1>8, <1>9, <1>10 DEF OverlapInv

LEMMA EndDismissKeeps ==
    ASSUME OverlapInv, NEW r \in Roles, EndDismiss(r)
    PROVE  OverlapInv'
<1>1. pending' = [pending EXCEPT ![r] = Idle]
  BY DEF EndDismiss, Finish
<1>2. CASE UNCHANGED vars
  BY <1>1, <1>2, IdleIsRight, OnlyAsks
<1>3. CASE unionId[r] # NoUnion /\ Loaded(unionId[r]) /\ DismissUnion(unionId[r])
  <2>1. PICK u : u = unionId[r]
    OBVIOUS
  <2>2. /\ u \in Unions /\ Loaded(u)
        /\ unionId' = [q \in Roles |-> IF q \in ToSet(members[u]) THEN NoUnion ELSE unionId[q]]
        /\ state' = [state EXCEPT ![u] = "dismissed"] /\ members' = [members EXCEPT ![u] = <<>>]
        /\ UNCHANGED <<chairman, vice, apply>>
    BY <1>3, <2>1 DEF OverlapInv, TypeOK, DismissUnion
  <2>3. <<>> \in Seq(Roles) /\ ToSet(<<>>) = {}
    BY EmptyList
  <2>4. TypeOK'
    BY <2>2, <2>3 DEF OverlapInv, TypeOK
  <2>5. Remembers
    BY <2>2 DEF Remembers, AskedFor, Loaded, OverlapInv, TypeOK
  <2>6. Checked'
    BY <1>1, <2>5, IdleIsRight, OneRequestGoesOn
  <2>7. ChairmanStaysListed'
    BY <2>2 DEF OverlapInv, TypeOK, ChairmanStaysListed
  <2>8. BoundByConsent'
    <3>. SUFFICES ASSUME NEW q \in Roles, NEW v \in Unions,
                         q \in ToSet(members'[v]) \/ unionId'[q] = v \/ vice'[v] = q
                  PROVE  AskedFor(q, v)
      BY <2>2 DEF BoundByConsent, AskedFor
    <3>1. q \in ToSet(members[v]) \/ unionId[q] = v \/ vice[v] = q
      BY <2>2, <2>3, ConstantsAssumption DEF OverlapInv, TypeOK
    <3>. QED  BY <3>1 DEF OverlapInv, BoundByConsent
  <2>. QED  BY <2>4, <2>6, <2>7, <2>8 DEF OverlapInv
<1>. QED  BY <1>2, <1>3 DEF EndDismiss

LEMMA EndAppointKeeps ==
    ASSUME OverlapInv, NEW op \in Roles, EndAppoint(op)
    PROVE  OverlapInv'
<1>1. PICK req : req = pending[op]
  OBVIOUS
<1>2. /\ req.kind = "appoint" /\ pending' = [pending EXCEPT ![op] = Idle]
      /\ \/ SetVice(req.union, req.role) \/ SetVice(req.union, NoRole) \/ UNCHANGED vars
  BY <1>1 DEF EndAppoint, Finish
<1>3. req.role \in Roles /\ req.union \in Unions /\ AskedFor(req.role, req.union)
  BY <1>1, <1>2 DEF OverlapInv, Checked, Requests, Idle, StillRight
<1>4. CASE UNCHANGED vars
  BY <1>2, <1>4, IdleIsRight, OnlyAsks
<1>5. CASE SetVice(req.union, req.role) \/ SetVice(req.union, NoRole)
  <2>1. PICK q : /\ q = NoRole \/ q = req.role
                 /\ vice' = [vice EXCEPT ![req.union] = q]
                 /\ UNCHANGED <<state, chairman, members, unionId, apply>>
    BY <1>5 DEF SetVice
  <2>2. TypeOK'
    BY <1>3, <2>1 DEF OverlapInv, TypeOK
  <2>3. Remembers
    BY <2>1, NothingForgotten
  <2>4. Checked'
    BY <1>2, <2>3, IdleIsRight, OneRequestGoesOn
  <2>5. ChairmanStaysListed'
    BY <2>1 DEF OverlapInv, ChairmanStaysListed
  <2>6. BoundByConsent'
    BY <1>3, <2>1, ConstantsAssumption DEF OverlapInv, TypeOK, BoundByConsent, AskedFor
  <2>. QED  BY <2>2, <2>4, <2>5, <2>6 DEF OverlapInv
<1>. QED  BY <1>2, <1>4, <1>5

(* A restart forgets every request, and every list but the founder's.       *)
LEMMA RestartKeeps == OverlapInv /\ Restart => OverlapInv'
<1>. SUFFICES ASSUME OverlapInv, Restart PROVE OverlapInv'
  OBVIOUS
<1>. DEFINE stored == {u \in Unions : chairman[u] # NoRole}
            Listing(r) == {u \in stored : r \in ToSet(StoredMembers(u))}
<1>1. PICK attr \in [Roles -> Unions \cup {NoUnion}] :
         /\ \A r \in Roles : IF Listing(r) = {} THEN attr[r] = NoUnion ELSE attr[r] \in Listing(r)
         /\ unionId' = attr
  BY DEF Restart
<1>2. /\ state' = [u \in Unions |-> IF u \in stored THEN "running" ELSE "none"]
      /\ members' = [u \in Unions |-> IF u \in stored THEN StoredMembers(u) ELSE <<>>]
      /\ vice' = [u \in Unions |-> NoRole]
      /\ pending' = [r \in Roles |-> Idle]
      /\ UNCHANGED <<chairman, apply>>
  BY DEF Restart
<1>3. ASSUME NEW u \in stored
      PROVE  /\ u \in Unions /\ chairman[u] \in Roles
             /\ StoredMembers(u) \in Seq(Roles) /\ ToSet(StoredMembers(u)) = {chairman[u]}
  <2>1. u \in Unions /\ chairman[u] \in Roles
    BY DEF OverlapInv, TypeOK
  <2>. QED  BY <2>1, SingletonList DEF StoredMembers
<1>4. <<>> \in Seq(Roles) /\ ToSet(<<>>) = {}
  BY EmptyList
<1>5. TypeOK'
  <2>1. members' \in [Unions -> Seq(Roles)]
    BY <1>2, <1>3, <1>4
  <2>. QED  BY <1>1, <1>2, <2>1 DEF OverlapInv, TypeOK
<1>6. Checked'
  BY <1>2, IdleIsRight DEF Checked
<1>7. ChairmanStaysListed'
  BY <1>2, <1>3 DEF ChairmanStaysListed
<1>8. BoundByConsent'
  <2>. SUFFICES ASSUME NEW q \in Roles, NEW v \in Unions,
                       q \in ToSet(members'[v]) \/ unionId'[q] = v \/ vice'[v] = q
                PROVE  q = chairman[v]
    BY <1>2 DEF BoundByConsent, AskedFor
  <2>1. CASE q \in ToSet(members'[v])
    BY <1>2, <1>3, <1>4, <2>1
  <2>2. CASE unionId'[q] = v
    <3>1. v \in Listing(q)
      BY <1>1, <2>2, ConstantsAssumption
    <3>. QED  BY <1>3, <3>1
  <2>3. CASE vice'[v] = q
    BY <1>2, <2>3, ConstantsAssumption
  <2>. QED  BY <2>1, <2>2, <2>3
<1>. QED  BY <1>5, <1>6, <1>7, <1>8 DEF OverlapInv

LEMMA OverlapInvIsInductive == OverlapInv /\ [OverlapNext]_overlapVars => OverlapInv'
<1>. SUFFICES ASSUME OverlapInv, [OverlapNext]_overlapVars PROVE OverlapInv'
  OBVIOUS
<1>1. "adopt" \in Decisions /\ "vice" \in Titles
  BY DEF Decisions, Titles
<1>2. ASSUME NEW r \in Roles, NEW u \in Unions,
             \/ BeginCreate(r) \/ EndCreate(r, u) \/ OverlapJoin(r, u)
             \/ BeginExit(r, u) \/ BeginDismiss(r, u)
      PROVE  OverlapInv'
  BY <1>1, <1>2, BeginsKeep, EndCreateKeeps, OverlapJoinKeeps
<1>3. ASSUME NEW op \in Roles, NEW r \in Roles, NEW u \in Unions, NEW d \in Decisions,
             BeginVerify(op, r, u, d)
      PROVE  OverlapInv'
  BY <1>1, <1>3, BeginsKeep
<1>4. ASSUME NEW op \in Roles, NEW r \in Roles, NEW u \in Unions, NEW t \in Titles,
             BeginAppoint(op, r, u, t)
      PROVE  OverlapInv'
  BY <1>1, <1>4, BeginsKeep
<1>5. ASSUME NEW r \in Roles, ReadMembers(r) PROVE OverlapInv'
  <2>1. pending[r].union \in Unions
    BY <1>5 DEF ReadMembers, OverlapInv, Checked, Requests, Idle
  <2>. QED  BY <1>1, <1>5, <2>1, BeginsKeep
<1>6. ASSUME NEW r \in Roles,
             \/ WriteMembers(r) \/ CloseApply(r) \/ EndExit(r) \/ EndDismiss(r) \/ EndAppoint(r)
      PROVE  OverlapInv'
  BY <1>6, WriteMembersKeeps, CloseApplyKeeps, EndExitKeeps, EndDismissKeeps, EndAppointKeeps
<1>7. CASE UNCHANGED overlapVars
  BY <1>7 DEF overlapVars, vars, OverlapInv, TypeOK, ChairmanStaysListed, BoundByConsent, AskedFor,
              Checked, StillRight, Loaded
<1>. QED  BY <1>2, <1>3, <1>4, <1>5, <1>6, <1>7, RestartKeeps DEF OverlapNext

(* Stale lists written back, panicking exits and restarts included, the     *)
(* founder of a running union stays in its list (verify, exit, dismiss).    *)
THEOREM FounderStays == OverlapSpec => []ChairmanStaysListed
<1>1. OverlapInv => ChairmanStaysListed
  BY DEF OverlapInv
<1>. QED  BY <1>1, OverlapAtInit, OverlapInvIsInductive, PTL DEF OverlapSpec

(* Whatever overlaps, no list, attribute or office binds a role to a union  *)
(* it neither founded nor once applied to.                                  *)
THEOREM ConsentSurvivesOverlap == OverlapSpec => []BoundByConsent
<1>1. OverlapInv => BoundByConsent
  BY DEF OverlapInv
<1>. QED  BY <1>1, OverlapAtInit, OverlapInvIsInductive, PTL DEF OverlapSpec

(* The cutting loop of exit takes out nobody but the leaver, for lists of   *)
(* any length with any repetitions, whether it panics or not.               *)
THEOREM OthersAreSpared == OverlapSpec => ExitSparesOthers
<1>1. ASSUME OverlapInv, NEW r \in Roles, NEW u \in Unions, EndExit(r), NEW q \in Roles \ {r}
      PROVE  Occurrences(q, members'[u]) = Occurrences(q, members[u])
  <2>1. PICK v : v = pending[r].union
    OBVIOUS
  <2>2. members' = [members EXCEPT ![v] = CutAll(members[v], r).live]
    BY <1>1, <2>1 DEF EndExit
  <2>3. members \in [Unions -> Seq(Roles)]
    BY <1>1 DEF OverlapInv, TypeOK
  <2>4. CASE u = v
    <3>1. members'[u] = CutAll(members[u], r).live
      BY <2>2, <2>3, <2>4
    <3>2. Occurrences(q, CutAll(members[u], r).live) = Occurrences(q, members[u])
      BY <2>3, CutAllSpares DEF Spared
    <3>. QED  BY <3>1, <3>2
  <2>5. CASE u # v
    BY <2>2, <2>3, <2>5
  <2>. QED  BY <2>4, <2>5
<1>2. OverlapInv /\ [OverlapNext]_overlapVars =>
          [\A r \in Roles, u \in Unions : EndExit(r) => \A q \in Roles \ {r} :
              Occurrences(q, members'[u]) = Occurrences(q, members[u])]_overlapVars
  BY <1>1
<1>. QED  BY <1>2, OverlapAtInit, OverlapInvIsInductive, PTL DEF OverlapSpec, ExitSparesOthers

=============================================================================
