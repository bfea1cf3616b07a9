--------------------------- MODULE TreasuryProofs ----------------------------
(***************************************************************************)
(* Proofs about Treasury: for any number of connections and requests, any  *)
(* facilities and prices and a queue of any length, no level of a facility *)
(* is given away and no balance ever holds less than no gold.              *)
(***************************************************************************)
EXTENDS Treasury, SequenceTheorems, FiniteSetTheorems, WellFoundedInduction, TLAPS

-----------------------------------------------------------------------------
(* The lists of facilities and what a handler holds of them.                *)

Facilities == [Types -> [level : Nat, up : Nat]]

(* A handler that holds a list knows which facility it pays for, and that   *)
(* it is not being built.                                                   *)
Upgrading == {"need", "pay"}

HoldsFacilities ==
    /\ DOMAIN handler = Conns
    /\ \A c \in Conns :
          /\ "list" \in DOMAIN handler[c] => handler[c].list \in Facilities
          /\ handler[c].at \in Upgrading \cup {"store"} => "list" \in DOMAIN handler[c]
          /\ handler[c].at \in Upgrading =>
                /\ handler[c].type \in Types
                /\ handler[c].list[handler[c].type].up = 0

FacilitiesTyped ==
    /\ fac \in Facilities /\ cfHeld \subseteq Facilities
    /\ stamps \in [Types -> Nat]
    /\ elapsed \subseteq Types \X (Nat \ {0})

(* A list is paid for when no facility of it has come further than that.    *)
PaidFor(list) == \A t \in Types : Reached(list[t]) <= stamps[t]

Inv == FacilitiesTyped /\ HoldsFacilities /\ NoFreeUpgrade

LEMMA PaidForEverywhere ==
    ASSUME NoFreeUpgrade
    PROVE  /\ PaidFor(fac)
           /\ \A list \in cfHeld : PaidFor(list)
           /\ \A c \in Conns : "list" \in DOMAIN handler[c] => PaidFor(handler[c].list)
BY DEF NoFreeUpgrade, PaidFor, Listing

-----------------------------------------------------------------------------
(* What a step changes of it.                                               *)

(* GetLevel's completion of an upgrade moves a level from one side to the   *)
(* other.                                                                   *)
LEMMA SettleKeepsReached ==
    ASSUME FacilitiesTyped, NEW t \in Types, NEW f \in [level : Nat, up : Nat]
    PROVE  /\ Settle(t, f) \in [level : Nat, up : Nat]
           /\ Reached(Settle(t, f)) = Reached(f)
<1>1. CASE <<t, f.up>> \in elapsed
  <2>1. f.up # 0 /\ f.up \in Nat /\ f.level \in Nat
    BY <1>1 DEF FacilitiesTyped
  <2>2. Settle(t, f) = [level |-> f.level + 1, up |-> 0]
    BY <1>1 DEF Settle
  <2>. QED  BY <2>1, <2>2 DEF Reached
<1>2. CASE <<t, f.up>> \notin elapsed
  BY <1>2 DEF Settle
<1>. QED  BY <1>1, <1>2

(* Steps that take a handler on without a list, or leave it where it is.    *)
LEMMA ListsStay ==
    ASSUME Inv, UNCHANGED <<fac, cfHeld, stamps>>,
           elapsed' \subseteq Types \X (Nat \ {0}),
           \/ UNCHANGED handler
           \/ \E c \in Conns : \E next :
                 /\ Goes(c, next)
                 /\ "list" \notin DOMAIN next
                 /\ next.at \notin Upgrading \cup {"store"}
    PROVE  Inv'
<1>1. FacilitiesTyped'
  BY DEF Inv, FacilitiesTyped
<1>2. CASE UNCHANGED handler
  BY <1>1, <1>2 DEF Inv, HoldsFacilities, NoFreeUpgrade, Listing
<1>3. ASSUME NEW c \in Conns, NEW next, Goes(c, next), "list" \notin DOMAIN next,
             next.at \notin Upgrading \cup {"store"}
      PROVE  Inv'
  <2>1. /\ DOMAIN handler' = Conns /\ handler'[c] = next
        /\ \A d \in Conns \ {c} : handler'[d] = handler[d]
    BY <1>3 DEF Inv, HoldsFacilities, Goes
  <2>2. HoldsFacilities'
    BY <1>3, <2>1 DEF Inv, HoldsFacilities
  <2>3. Listing' \subseteq Listing /\ \A d \in Listing' : handler'[d] = handler[d]
    BY <1>3, <2>1 DEF Listing
  <2>4. NoFreeUpgrade'
    BY <2>3 DEF Inv, NoFreeUpgrade
  <2>. QED  BY <1>1, <2>2, <2>4 DEF Inv
<1>. QED  BY <1>2, <1>3

(* Steps that take a handler on with a list that is paid for.               *)
LEMMA ListGoesOn ==
    ASSUME Inv, NEW c \in Conns, NEW next, Goes(c, next),
           UNCHANGED <<fac, cfHeld, elapsed>>,
           stamps' \in [Types -> Nat], \A t \in Types : stamps[t] <= stamps'[t],
           "list" \in DOMAIN next, next.list \in Facilities,
           \A t \in Types : Reached(next.list[t]) <= stamps'[t],
           next.at \in Upgrading => next.type \in Types /\ next.list[next.type].up = 0
    PROVE  Inv'
<1>1. FacilitiesTyped'
  BY DEF Inv, FacilitiesTyped
<1>2. /\ DOMAIN handler' = Conns /\ handler'[c] = next
      /\ \A d \in Conns \ {c} : handler'[d] = handler[d]
  BY DEF Inv, HoldsFacilities, Goes
<1>3. HoldsFacilities'
  BY <1>2 DEF Inv, HoldsFacilities
<1>4. ASSUME NEW list \in Facilities, PaidFor(list), NEW t \in Types
      PROVE  Reached(list[t]) <= stamps'[t]
  <2>1. Reached(list[t]) \in Nat /\ Reached(list[t]) <= stamps[t]
    BY <1>4 DEF PaidFor, Facilities, Reached
  <2>. QED  BY <2>1 DEF Inv, FacilitiesTyped
<1>5. NoFreeUpgrade'
  <2>. SUFFICES ASSUME NEW list \in ({fac} \cup cfHeld \cup {handler[d].list : d \in Listing})',
                       NEW t \in Types
                PROVE  Reached(list[t]) <= stamps'[t]
    BY DEF NoFreeUpgrade
  <2>1. CASE list = fac \/ list \in cfHeld
    BY <1>4, <2>1, PaidForEverywhere DEF Inv, FacilitiesTyped
  <2>2. ASSUME NEW d \in Listing', list = handler'[d].list
        PROVE  Reached(list[t]) <= stamps'[t]
    <3>1. CASE d = c
      BY <1>2, <2>2, <3>1
    <3>2. CASE d # c
      <4>1. d \in Conns /\ "list" \in DOMAIN handler[d] /\ list = handler[d].list
        BY <1>2, <2>2, <3>2 DEF Listing
      <4>. QED  BY <1>4, <4>1, PaidForEverywhere DEF Inv, HoldsFacilities
    <3>. QED  BY <3>1, <3>2
  <2>. QED  BY <2>1, <2>2
<1>. QED  BY <1>1, <1>3, <1>5 DEF Inv

-----------------------------------------------------------------------------
(* The steps of upFacility.                                                 *)

LEMMA InvHoldsAtInit == Init => Inv
<1>. SUFFICES ASSUME Init PROVE Inv
  OBVIOUS
<1>1. FacilitiesTyped /\ HoldsFacilities
  BY DEF Init, FacilitiesTyped, HoldsFacilities, Facilities, Idle, Upgrading
<1>2. Listing = {} /\ cfHeld = {} /\ \A t \in Types : Reached(fac[t]) = 0 /\ stamps[t] = 0
  BY DEF Init, Listing, Idle, Reached
<1>3. NoFreeUpgrade
  BY <1>2 DEF NoFreeUpgrade
<1>. QED  BY <1>1, <1>3 DEF Inv

(* The list is read with the facility settled, which changes nothing that   *)
(* has to be paid for.                                                      *)
LEMMA ReadFacilitiesKeepsInv ==
    ASSUME Inv, NEW c \in Conns, NEW t \in Types, ReadFacilities(c, t)
    PROVE  Inv'
<1>. DEFINE f    == Settle(t, fac[t])
            list == [fac EXCEPT ![t] = f]
            next == [at |-> "need", type |-> t, list |-> list]
<1>1. fac \in Facilities /\ fac[t] \in [level : Nat, up : Nat] /\ stamps \in [Types -> Nat]
  BY DEF Inv, FacilitiesTyped, Facilities
<1>2. f \in [level : Nat, up : Nat] /\ Reached(f) = Reached(fac[t]) /\ f.up = 0
  BY <1>1, SettleKeepsReached DEF Inv, ReadFacilities
<1>. HIDE DEF f
<1>3. list \in Facilities /\ list[t].up = 0 /\ PaidFor(list)
  BY <1>1, <1>2, PaidForEverywhere DEF Inv, Facilities, PaidFor
<1>4. Goes(c, next) /\ UNCHANGED <<fac, cfHeld, elapsed, stamps>>
  BY DEF ReadFacilities, history, f
<1>5. /\ stamps' \in [Types -> Nat] /\ \A u \in Types : stamps[u] <= stamps'[u]
      /\ \A u \in Types : Reached(list[u]) <= stamps'[u]
  BY <1>1, <1>3, <1>4 DEF PaidFor
<1>. HIDE DEF list
<1>6. PICK go : Goes(c, go) /\ "list" \in DOMAIN go /\ go.list = list /\ go.type = t
  BY <1>4
<1>. QED  BY <1>3, <1>4, <1>5, <1>6, ListGoesOn

LEMMA UnknownTypeKeepsInv ==
    ASSUME Inv, NEW c \in Conns, ReadForUnknownType(c)
    PROVE  Inv'
<1>. DEFINE next == [at |-> "store", list |-> fac]
<1>1. Goes(c, next) /\ UNCHANGED <<fac, cfHeld, elapsed, stamps>>
  BY DEF ReadForUnknownType, history
<1>2. /\ fac \in Facilities /\ stamps' \in [Types -> Nat]
      /\ \A u \in Types : stamps[u] <= stamps'[u]
  BY <1>1 DEF Inv, FacilitiesTyped
<1>3. \A u \in Types : Reached(fac[u]) <= stamps'[u]
  BY <1>1, PaidForEverywhere DEF Inv, PaidFor
<1>4. PICK go : Goes(c, go) /\ "list" \in DOMAIN go /\ go.list = fac /\ go.at \notin Upgrading
  BY <1>1 DEF Upgrading
<1>. QED  BY <1>1, <1>2, <1>3, <1>4, ListGoesOn

(* A price that can be paid keeps the list, one that cannot gives it up.    *)
LEMMA ReadForNeedKeepsInv ==
    ASSUME Inv, NEW c \in Conns, ReadForNeed(c)
    PROVE  Inv'
<1>. DEFINE next == [at |-> "pay", type |-> handler[c].type, list |-> handler[c].list, res |-> row]
<1>1. UNCHANGED <<fac, cfHeld, elapsed, stamps>> /\ (Goes(c, next) \/ Goes(c, Idle))
  BY DEF ReadForNeed, Refusable, history
<1>2. CASE Goes(c, Idle)
  BY <1>1, <1>2, ListsStay DEF Inv, FacilitiesTyped, Idle, Upgrading
<1>3. CASE Goes(c, next)
  <2>1. /\ "list" \in DOMAIN handler[c] /\ handler[c].list \in Facilities
        /\ handler[c].type \in Types /\ handler[c].list[handler[c].type].up = 0
    BY DEF ReadForNeed, At, Inv, HoldsFacilities, Upgrading
  <2>2. stamps' \in [Types -> Nat] /\ \A u \in Types : stamps[u] <= stamps'[u]
    BY <1>1 DEF Inv, FacilitiesTyped
  <2>. DEFINE list == handler[c].list
  <2>3. \A u \in Types : Reached(list[u]) <= stamps'[u]
    BY <1>1, <2>1, PaidForEverywhere DEF Inv, PaidFor
  <2>4. PICK go : /\ Goes(c, go) /\ "list" \in DOMAIN go
                  /\ go.list = list /\ go.type = handler[c].type
    BY <1>3
  <2>. QED  BY <1>1, <2>1, <2>2, <2>3, <2>4, ListGoesOn
<1>. QED  BY <1>1, <1>2, <1>3

(* The payment buys the one level that is begun with it.                    *)
LEMMA PayNeedKeepsInv ==
    ASSUME Inv, NEW c \in Conns, PayNeed(c)
    PROVE  Inv'
<1>. DEFINE t     == handler[c].type
            list  == handler[c].list
            stamp == stamps[t] + 1
            built == [list EXCEPT ![t].up = stamp]
<1>1. /\ "list" \in DOMAIN handler[c] /\ list \in Facilities
      /\ t \in Types /\ list[t].up = 0
  BY DEF PayNeed, At, Inv, HoldsFacilities, Upgrading
<1>2. /\ UNCHANGED <<fac, cfHeld, elapsed>> /\ stamps' = [stamps EXCEPT ![t] = stamp]
      /\ Goes(c, [at |-> "store", list |-> built])
  BY DEF PayNeed
<1>3. stamps \in [Types -> Nat]
  BY DEF Inv, FacilitiesTyped
<1>4. /\ stamps' \in [Types -> Nat] /\ \A u \in Types : stamps[u] <= stamps'[u]
      /\ stamps'[t] = stamps[t] + 1
  BY <1>1, <1>2, <1>3
<1>5. \A u \in Types : Reached(list[u]) <= stamps[u]
  BY <1>1, PaidForEverywhere DEF Inv, PaidFor
<1>. HIDE DEF t, list
<1>6. /\ built \in Facilities /\ built[t] = [level |-> list[t].level, up |-> stamp]
      /\ \A u \in Types \ {t} : built[u] = list[u]
  BY <1>1, <1>3 DEF Facilities
<1>7. \A u \in Types : Reached(built[u]) <= stamps'[u]
  <2>1. Reached(list[t]) = list[t].level /\ list[t].level \in Nat
    BY <1>1 DEF Facilities, Reached
  <2>2. Reached(built[t]) = list[t].level + 1
    BY <1>3, <1>1, <1>6, <2>1 DEF Reached
  <2>3. Reached(built[t]) <= stamps'[t]
    BY <1>1, <1>3, <1>4, <1>5, <2>1, <2>2
  <2>4. ASSUME NEW u \in Types \ {t} PROVE Reached(built[u]) <= stamps'[u]
    <3>1. Reached(list[u]) \in Nat
      BY <1>1 DEF Facilities, Reached
    <3>. QED  BY <1>3, <1>4, <1>5, <1>6, <3>1
  <2>. QED  BY <2>3, <2>4
<1>. HIDE DEF built
<1>8. PICK go : Goes(c, go) /\ "list" \in DOMAIN go /\ go.list = built /\ go.at \notin Upgrading
  BY <1>2 DEF Upgrading
<1>. QED  BY <1>2, <1>4, <1>6, <1>7, <1>8, ListGoesOn

(* The list goes from the handler to the writer, and from there to its row. *)
LEMMA StoreKeepsInv ==
    ASSUME Inv, NEW c \in Conns, StoreFacilities(c)
    PROVE  Inv'
<1>1. "list" \in DOMAIN handler[c] /\ handler[c].list \in Facilities /\ PaidFor(handler[c].list)
  BY PaidForEverywhere DEF StoreFacilities, At, Inv, HoldsFacilities
<1>2. /\ cfHeld' = {handler[c].list} /\ UNCHANGED <<fac, stamps, elapsed>>
      /\ DOMAIN handler' = Conns /\ handler'[c] = Idle
      /\ \A d \in Conns \ {c} : handler'[d] = handler[d]
  BY DEF StoreFacilities, Goes, history, Inv, HoldsFacilities
<1>3. FacilitiesTyped'
  BY <1>1, <1>2 DEF Inv, FacilitiesTyped
<1>4. HoldsFacilities'
  BY <1>2 DEF Inv, HoldsFacilities, Idle, Upgrading
<1>5. \A d \in Listing' : d \in Listing /\ handler'[d] = handler[d]
  BY <1>2 DEF Listing, Idle
<1>6. NoFreeUpgrade'
  BY <1>1, <1>2, <1>5 DEF Inv, NoFreeUpgrade, PaidFor
<1>. QED  BY <1>3, <1>4, <1>6 DEF Inv

LEMMA WriteKeepsInv ==
    ASSUME Inv, WriteFacilities
    PROVE  Inv'
<1>1. PICK list \in cfHeld : fac' = list
  BY DEF WriteFacilities
<1>2. cfHeld' = {} /\ UNCHANGED <<handler, stamps, elapsed>>
  BY DEF WriteFacilities, history
<1>3. FacilitiesTyped' /\ HoldsFacilities'
  BY <1>1, <1>2 DEF Inv, FacilitiesTyped, HoldsFacilities
<1>4. NoFreeUpgrade'
  BY <1>1, <1>2 DEF Inv, NoFreeUpgrade, Listing
<1>. QED  BY <1>3, <1>4 DEF Inv

(* Lists are lost in a restart, payments are not taken back.                *)
LEMMA RestartKeepsInv ==
    ASSUME Inv, Restart
    PROVE  Inv'
<1>1. /\ cfHeld' = {} /\ handler' = [c \in Conns |-> Idle]
      /\ UNCHANGED <<fac, stamps, elapsed>>
  BY DEF Restart, history
<1>2. FacilitiesTyped' /\ HoldsFacilities'
  BY <1>1 DEF Inv, FacilitiesTyped, HoldsFacilities, Idle, Upgrading
<1>3. Listing' = {}
  BY <1>1 DEF Listing, Idle
<1>4. NoFreeUpgrade'
  BY <1>1, <1>3 DEF Inv, NoFreeUpgrade
<1>. QED  BY <1>2, <1>4 DEF Inv

-----------------------------------------------------------------------------
(* All other steps have no list in their hands.                             *)

LEMMA OthersKeepInv ==
    ASSUME Inv, NEW c \in Conns,
           \/ DrawGeneral(c) \/ MyGenerals(c) \/ CountGenerals(c) \/ Recruit(c)
           \/ ReadForCharge(c) \/ CostGold(c)
           \/ \E why \in {"collect", "transform"} : ReadBalance(c, why)
           \/ Collect(c) \/ Transform(c) \/ TryUseDecree(c)
    PROVE  Inv'
<1>1. UNCHANGED <<fac, cfHeld, stamps, elapsed>>
  BY DEF DrawGeneral, MyGenerals, CountGenerals, Recruit, ReadForCharge, CostGold, ReadBalance,
     Collect, Transform, TryUseDecree, history
<1>. DEFINE Bare(next) == "list" \notin DOMAIN next /\ next.at \notin Upgrading \cup {"store"}
<1>2. UNCHANGED handler \/ \E next : Goes(c, next) /\ Bare(next)
  <2>1. CASE DrawGeneral(c)
    BY <2>1 DEF DrawGeneral, Upgrading
  <2>2. CASE MyGenerals(c)
    BY <2>2 DEF MyGenerals, Upgrading
  <2>3. CASE CountGenerals(c)
    BY <2>3 DEF CountGenerals, Upgrading
  <2>4. CASE Recruit(c)
    BY <2>4 DEF Recruit, Idle, Upgrading
  <2>5. CASE ReadForCharge(c)
    BY <2>5 DEF ReadForCharge, Idle, Upgrading
  <2>6. CASE CostGold(c)
    BY <2>6 DEF CostGold, Idle, Upgrading
  <2>7. ASSUME NEW why \in {"collect", "transform"}, ReadBalance(c, why)
        PROVE  \E next : Goes(c, next) /\ Bare(next)
    BY <2>7 DEF ReadBalance, Upgrading
  <2>8. CASE Collect(c)
    BY <2>8 DEF Collect, Idle, Upgrading
  <2>9. CASE Transform(c)
    BY <2>9 DEF Transform, Idle, Upgrading
  <2>10. CASE TryUseDecree(c)
    BY <2>10 DEF TryUseDecree
  <2>. QED  BY <2>1, <2>2, <2>3, <2>4, <2>5, <2>6, <2>7, <2>8, <2>9, <2>10
<1>. QED  BY <1>1, <1>2, ListsStay DEF Inv, FacilitiesTyped

LEMMA InvIsInductive == Inv /\ [Next]_vars => Inv'
<1>. SUFFICES ASSUME Inv, [Next]_vars
              PROVE  Inv'
  OBVIOUS
<1>1. ASSUME NEW c \in Conns, Handler(c)
      PROVE  Inv'
  BY <1>1, ReadFacilitiesKeepsInv, UnknownTypeKeepsInv, ReadForNeedKeepsInv, PayNeedKeepsInv,
     StoreKeepsInv, OthersKeepInv DEF Handler
<1>2. ASSUME NEW t \in Types, TimePasses(t)
      PROVE  Inv'
  <2>1. PICK stamp \in 1..stamps[t] : elapsed' = elapsed \cup {<<t, stamp>>}
    BY <1>2 DEF TimePasses
  <2>2. stamps[t] \in Nat /\ elapsed \subseteq Types \X (Nat \ {0})
    BY DEF Inv, FacilitiesTyped
  <2>3. elapsed' \subseteq Types \X (Nat \ {0})
    BY <2>1, <2>2
  <2>. QED  BY <1>2, <2>3, ListsStay DEF TimePasses, history
<1>3. CASE WriteFacilities
  BY <1>3, WriteKeepsInv
<1>4. CASE Restart
  BY <1>4, RestartKeepsInv
<1>5. CASE Produce \/ WriteBalance \/ UNCHANGED vars
  <2>1. UNCHANGED <<fac, cfHeld, stamps, elapsed, handler>>
    BY <1>5 DEF Produce, WriteBalance, vars, history
  <2>. QED  BY <2>1, ListsStay DEF Inv, FacilitiesTyped
<1>. QED  BY <1>1, <1>2, <1>3, <1>4, <1>5 DEF Next

-----------------------------------------------------------------------------
(* Sums.  What levels add to a yield is a sum over a finite set, and a sum  *)
(* of natural numbers is one: by induction on the size of the set, that is, *)
(* on the least number of facilities for which it fails.                    *)

LEMMA LeastNumber ==
    ASSUME NEW T \in SUBSET Nat, T # {}
    PROVE  \E n \in T : \A m \in T : n <= m
<1>1. PICK less : less = OpToRel(<, Nat)
  BY Zenon
<1>2. IsWellFoundedOn(less, Nat)
  BY <1>1, NatLessThanWellFounded, Zenon
<1>3. PICK n \in T : \A m \in T : <<m, n>> \notin less
  BY <1>2, WFMin
<1>4. \A m, k \in Nat : m < k => <<m, k>> \in less
  BY <1>1 DEF OpToRel
<1>5. \A m \in T : ~(m < n)
  BY <1>3, <1>4
<1>. QED  BY <1>5

Pick(s) == CHOOSE x \in s : TRUE

(* g adds up what f is on the subsets of S.                                 *)
Adding(g, f, S) ==
    g = [s \in SUBSET S |-> IF s = {} THEN 0 ELSE f[Pick(s)] + g[s \ {Pick(s)}]]

LEMMA Smaller ==
    ASSUME NEW S, IsFiniteSet(S), NEW s \in SUBSET S
    PROVE  /\ IsFiniteSet(s) /\ Cardinality(s) \in Nat
           /\ Cardinality(s) <= 0 => s = {}
           /\ s # {} => /\ Pick(s) \in s /\ s \ {Pick(s)} \in SUBSET S
                        /\ Cardinality(s \ {Pick(s)}) = Cardinality(s) - 1
                        /\ Cardinality(s \ {Pick(s)}) \in Nat
<1>1. IsFiniteSet(s) /\ Cardinality(s) \in Nat /\ (Cardinality(s) <= 0 => s = {})
  <2>1. IsFiniteSet(s) /\ Cardinality(s) \in Nat
    BY FS_Subset, FS_CardinalityType
  <2>. QED  BY <2>1, FS_EmptySet
<1>2. ASSUME s # {}
      PROVE  /\ Pick(s) \in s /\ s \ {Pick(s)} \in SUBSET S
             /\ Cardinality(s \ {Pick(s)}) = Cardinality(s) - 1
             /\ Cardinality(s \ {Pick(s)}) \in Nat
  <2>1. PICK x : x = Pick(s)
    OBVIOUS
  <2>2. x \in s
    BY <1>2, <2>1 DEF Pick
  <2>3. IsFiniteSet(s \ {x}) /\ Cardinality(s \ {x}) = Cardinality(s) - 1
    BY <1>1, <2>2, FS_RemoveElement
  <2>4. Cardinality(s \ {x}) \in Nat
    BY <2>3, FS_CardinalityType
  <2>. QED  BY <2>1, <2>2, <2>3, <2>4
<1>. QED  BY <1>1, <1>2

LEMMA AddingExists ==
    ASSUME NEW S, IsFiniteSet(S), NEW f
    PROVE  \E g : Adding(g, f, S)
<1>. DEFINE Body(g, s) == IF s = {} THEN 0 ELSE f[Pick(s)] + g[s \ {Pick(s)}]
            UpTo(n, g) == \A s \in SUBSET S : Cardinality(s) <= n => g[s] = Body(g, s)
            Fails == {n \in Nat : ~\E g : UpTo(n, g)}
<1>1. Fails = {}
  <2>1. SUFFICES ASSUME Fails # {} PROVE FALSE
    OBVIOUS
  <2>2. PICK n \in Fails : \A m \in Fails : n <= m
    <3>1. Fails \in SUBSET Nat
      OBVIOUS
    <3>. HIDE DEF Fails
    <3>. QED  BY <2>1, <3>1, LeastNumber
  <2>3. n \in Nat /\ ~\E g : UpTo(n, g)
    OBVIOUS
  <2>4. CASE n = 0
    <3>1. PICK g : g = [s \in SUBSET S |-> 0]
      OBVIOUS
    <3>2. UpTo(0, g)
      <4>1. ASSUME NEW s \in SUBSET S, Cardinality(s) <= 0 PROVE s = {}
        BY <4>1, Smaller
      <4>. QED  BY <3>1, <4>1
    <3>. QED  BY <2>3, <2>4, <3>2
  <2>5. CASE n # 0
    <3>1. n - 1 \in Nat /\ n - 1 \notin Fails
      <4>1. n - 1 \in Nat /\ ~(n <= n - 1)
        BY <2>3, <2>5
      <4>. HIDE DEF Fails
      <4>. QED  BY <2>2, <4>1
    <3>2. PICK g : UpTo(n - 1, g)
      BY <3>1
    <3>3. PICK h : h = [s \in SUBSET S |-> IF Cardinality(s) <= n - 1 THEN g[s] ELSE Body(g, s)]
      OBVIOUS
    <3>4. ASSUME NEW s \in SUBSET S, Cardinality(s) <= n PROVE h[s] = Body(h, s)
      <4>1. h[s] = Body(g, s)
        BY <3>2, <3>3
      <4>2. CASE s = {}
        BY <4>1, <4>2
      <4>3. CASE s # {}
        <5>1. h[s \ {Pick(s)}] = g[s \ {Pick(s)}]
          BY <2>3, <3>3, <3>4, <4>3, Smaller
        <5>. QED  BY <4>1, <4>3, <5>1
      <4>. QED  BY <4>2, <4>3
    <3>5. UpTo(n, h)
      BY <3>4
    <3>. QED  BY <2>3, <3>5
  <2>. QED  BY <2>4, <2>5
<1>2. Cardinality(S) \in Nat /\ Cardinality(S) \notin Fails
  BY <1>1, FS_CardinalityType
<1>3. PICK g : UpTo(Cardinality(S), g)
  BY <1>2
<1>4. PICK h : h = [s \in SUBSET S |-> g[s]]
  OBVIOUS
<1>5. ASSUME NEW s \in SUBSET S PROVE h[s] = Body(h, s)
  <2>1. Cardinality(s) <= Cardinality(S)
    BY FS_Subset
  <2>2. s # {} => h[s \ {Pick(s)}] = g[s \ {Pick(s)}]
    BY <1>4
  <2>. QED  BY <1>3, <1>4, <2>1, <2>2
<1>. QED  BY <1>4, <1>5 DEF Adding

LEMMA AddingNumbers ==
    ASSUME NEW S, IsFiniteSet(S), NEW f \in [S -> Nat], NEW g, Adding(g, f, S)
    PROVE  \A s \in SUBSET S : g[s] \in Nat
<1>. DEFINE Fails == {n \in Nat : \E s \in SUBSET S : Cardinality(s) = n /\ g[s] \notin Nat}
<1>1. Fails = {}
  <2>1. SUFFICES ASSUME Fails # {} PROVE FALSE
    OBVIOUS
  <2>2. PICK n \in Fails : \A m \in Fails : n <= m
    <3>1. Fails \in SUBSET Nat
      OBVIOUS
    <3>. HIDE DEF Fails
    <3>. QED  BY <2>1, <3>1, LeastNumber
  <2>3. PICK s \in SUBSET S : Cardinality(s) = n /\ g[s] \notin Nat
    OBVIOUS
  <2>4. s # {}
    BY <2>3 DEF Adding
  <2>5. g[s] = f[Pick(s)] + g[s \ {Pick(s)}]
    BY <2>4 DEF Adding
  <2>6. f[Pick(s)] \in Nat
    <3>1. Pick(s) \in s
      BY <2>4 DEF Pick
    <3>. QED  BY <3>1
  <2>7. g[s \ {Pick(s)}] \in Nat
    <3>1. /\ s \ {Pick(s)} \in SUBSET S /\ Cardinality(s \ {Pick(s)}) \in Nat
          /\ Cardinality(s \ {Pick(s)}) < n
      BY <2>3, <2>4, Smaller
    <3>2. Cardinality(s \ {Pick(s)}) \notin Fails
      <4>1. PICK k : k = Cardinality(s \ {Pick(s)})
        OBVIOUS
      <4>2. ~(n <= k)
        BY <3>1, <4>1
      <4>. HIDE DEF Fails
      <4>. QED  BY <2>2, <4>1, <4>2
    <3>. QED  BY <3>1, <3>2
  <2>. QED  BY <2>3, <2>5, <2>6, <2>7
<1>. QED  BY <1>1, Smaller

-----------------------------------------------------------------------------
(* The shape of the state.                                                  *)

Entries == [res : Balances, cached : BOOLEAN]
Shape   == [level : 0..MaxLevel, up : 0..MaxOps]

(* What is being built can still rise.                                      *)
CanRise(f) == f.up # 0 => f.level < MaxLevel
Levels == {list \in Lists : \A t \in Types : CanRise(list[t])}

(* What a handler holds in each of its steps.                               *)
Right(h) ==
    /\ "res" \in DOMAIN h => h.res \in Balances
    /\ "list" \in DOMAIN h => h.list \in Levels
    /\ h.at \in Upgrading \cup {"store"} => "list" \in DOMAIN h
    /\ h.at \in Upgrading => h.type \in Types /\ h.list[h.type].level + 1 < MaxLevel
    /\ h.at \in {"pay", "collect", "transform", "send"} => "res" \in DOMAIN h
    /\ h.at = "send" => h.res.gold >= DrawCost

HandlersTyped == DOMAIN handler = Conns /\ \A c \in Conns : Right(handler[c])

MoneyTyped ==
    /\ row \in Balances /\ cache \in Balances /\ known \in BOOLEAN
    /\ rrChan \in Seq(Entries) /\ Len(rrChan) <= QueueCap
    /\ balance \in Int /\ generals \in Nat

ListsTyped ==
    /\ fac \in Levels /\ cfHeld \subseteq Levels
    /\ stamps \in [Types -> Nat] /\ elapsed \subseteq Types \X (1..MaxOps)

(* A stamp is the number of an upgrade, and every upgrade was a request.    *)
Paying(t) == {c \in Conns : handler[c].at \in Upgrading /\ handler[c].type = t}

Counted ==
    /\ ops \in 0..MaxOps /\ restarts \in 0..MaxRestarts
    /\ \A t \in Types : IsFiniteSet(Paying(t)) /\ stamps[t] + Cardinality(Paying(t)) <= ops

Typed == MoneyTyped /\ ListsTyped /\ HandlersTyped /\ Counted

LEMMA Numbers ==
    /\ IsFiniteSet(Types) /\ Adds \in [Types -> Kinds] /\ BaseYield \in [Kinds -> Nat]
    /\ MaxLevel \in Nat /\ NeedWood \in [1..MaxLevel -> Nat] /\ Trades \subseteq Int
    /\ DrawCost \in Nat /\ Limit \in Nat /\ Firsts \in Nat /\ StartGold \in Nat /\ StartWood \in Nat
    /\ QueueCap \in Nat /\ MaxOps \in Nat /\ MaxRestarts \in Nat
BY TreasuryAssumption

LEMMA Settled ==
    ASSUME ListsTyped, NEW t \in Types, NEW f \in Shape, CanRise(f)
    PROVE  Settle(t, f) \in Shape /\ CanRise(Settle(t, f)) /\ Settle(t, f).level \in Nat
<1>1. CASE <<t, f.up>> \in elapsed
  <2>1. f.up # 0 /\ f.level < MaxLevel /\ f.level \in Nat
    BY <1>1 DEF ListsTyped, CanRise, Shape
  <2>2. Settle(t, f) = [level |-> f.level + 1, up |-> 0]
    BY <1>1 DEF Settle
  <2>3. f.level + 1 \in 0..MaxLevel /\ 0 \in 0..MaxOps
    BY <2>1, Numbers
  <2>. QED  BY <2>2, <2>3 DEF CanRise, Shape
<1>2. CASE <<t, f.up>> \notin elapsed
  BY <1>2 DEF Settle, Shape
<1>. QED  BY <1>1, <1>2

LEMMA LevelsOfStored ==
    ASSUME ListsTyped
    PROVE  \A t \in Types : /\ fac[t] \in Shape /\ CanRise(fac[t])
                            /\ Level(t) \in Nat
<1>. SUFFICES ASSUME NEW t \in Types PROVE fac[t] \in Shape /\ CanRise(fac[t]) /\ Level(t) \in Nat
  OBVIOUS
<1>1. fac[t] \in Shape /\ CanRise(fac[t])
  BY DEF ListsTyped, Levels, Lists, Shape
<1>. QED  BY <1>1, Settled DEF Level

(* What a kind yields: no taxes are ever less than nothing.                 *)
LEMMA YieldIsNatural ==
    ASSUME ListsTyped, NEW kind \in Kinds
    PROVE  Yield(kind) \in Nat
<1>1. PICK S : S = {t \in Types : Adds[t] = kind}
  OBVIOUS
<1>2. IsFiniteSet(S) /\ S \subseteq Types
  BY <1>1, Numbers, FS_Subset
<1>3. PICK f : f = [t \in S |-> Level(t)]
  OBVIOUS
<1>4. f \in [S -> Nat]
  BY <1>2, <1>3, LevelsOfStored
<1>. DEFINE Sums(g) ==
         g = [s \in SUBSET S |->
                 IF s = {} THEN 0 ELSE Level(CHOOSE x \in s : TRUE) + g[s \ {CHOOSE x \in s : TRUE}]]
<1>5. MapThenSumSet(Level, S) = (CHOOSE g : Sums(g))[S]
  BY DEF MapThenSumSet, MapThenFoldSet
<1>6. ASSUME NEW g PROVE Sums(g) <=> Adding(g, f, S)
  <2>1. \A s \in SUBSET S : s # {} => Level(Pick(s)) = f[Pick(s)]
    <3>1. SUFFICES ASSUME NEW s \in SUBSET S, s # {} PROVE Level(Pick(s)) = f[Pick(s)]
      OBVIOUS
    <3>2. Pick(s) \in S
      BY <3>1 DEF Pick
    <3>. QED  BY <1>3, <3>2
  <2>2. [s \in SUBSET S |-> IF s = {} THEN 0 ELSE Level(Pick(s)) + g[s \ {Pick(s)}]]
        = [s \in SUBSET S |-> IF s = {} THEN 0 ELSE f[Pick(s)] + g[s \ {Pick(s)}]]
    BY <2>1
  <2>. QED  BY <2>2 DEF Adding, Pick
<1>7. \E g : Sums(g)
  BY <1>2, <1>6, AddingExists
<1>8. Sums(CHOOSE g : Sums(g))
  BY <1>7
<1>9. PICK g : Sums(g) /\ MapThenSumSet(Level, S) = g[S]
  BY <1>5, <1>8
<1>10. MapThenSumSet(Level, S) \in Nat
  <2>1. Adding(g, f, S) /\ S \in SUBSET S
    BY <1>6, <1>9
  <2>2. g[S] \in Nat
    BY <1>2, <1>4, <2>1, AddingNumbers
  <2>. QED  BY <1>9, <2>2
<1>11. Yield(kind) = BaseYield[kind] + MapThenSumSet(Level, S)
  BY <1>1 DEF Yield
<1>. QED  BY <1>10, <1>11, Numbers

LEMMA TypedAtInit == Init => Typed
<1>. SUFFICES ASSUME Init PROVE Typed
  OBVIOUS
<1>1. MoneyTyped
  <2>1. rrChan \in Seq(Entries) /\ Len(rrChan) = 0
    BY EmptySeq DEF Init
  <2>. QED  BY <2>1, Numbers DEF Init, MoneyTyped, Balances
<1>2. ListsTyped
  <2>1. 0 \in 0..MaxLevel /\ 0 \in 0..MaxOps
    BY Numbers
  <2>. QED  BY <2>1 DEF Init, ListsTyped, Levels, Lists, CanRise
<1>3. HandlersTyped
  BY DEF Init, HandlersTyped, Right, Idle, Upgrading
<1>4. Counted
  <2>1. \A t \in Types : Paying(t) = {}
    BY DEF Init, Paying, Idle, Upgrading
  <2>2. ops = 0 /\ restarts = 0 /\ \A t \in Types : stamps[t] = 0
    BY DEF Init
  <2>3. 0 \in 0..MaxOps /\ 0 \in 0..MaxRestarts
    BY Numbers
  <2>4. IsFiniteSet({}) /\ Cardinality({}) = 0
    BY FS_EmptySet
  <2>. QED  BY <2>1, <2>2, <2>3, <2>4 DEF Counted
<1>. QED  BY <1>1, <1>2, <1>3, <1>4 DEF Typed

LEMMA OneGoesOn ==
    ASSUME HandlersTyped, NEW c \in Conns, NEW next, Goes(c, next)
    PROVE  /\ DOMAIN handler' = Conns /\ handler'[c] = next
           /\ \A d \in Conns \ {c} : handler'[d] = handler[d]
           /\ Right(next) => HandlersTyped'
BY DEF HandlersTyped, Goes

LEMMA Queued ==
    ASSUME MoneyTyped, NEW entry \in Entries, Queue(entry)
    PROVE  rrChan' \in Seq(Entries) /\ Len(rrChan') <= QueueCap
BY AppendProperties, LenProperties, Numbers DEF MoneyTyped, Queue

LEMMA CopyIsEntry ==
    ASSUME NEW res \in Balances
    PROVE  Copy(res) \in Entries
BY DEF Copy, Entries

(* Nobody begins to pay: those who do become no more.                       *)
LEMMA NobodyMorePays ==
    ASSUME Typed, UNCHANGED <<stamps, restarts>>, ops' \in ops..MaxOps,
           \/ UNCHANGED handler
           \/ \E c \in Conns : \E next : Goes(c, next) /\ next.at \notin Upgrading
    PROVE  Counted'
<1>1. \A t \in Types : Paying(t)' \subseteq Paying(t)
  <2>1. CASE UNCHANGED handler
    BY <2>1 DEF Paying
  <2>2. ASSUME NEW c \in Conns, NEW next, Goes(c, next), next.at \notin Upgrading
        PROVE  \A t \in Types : Paying(t)' \subseteq Paying(t)
    BY <2>2, OneGoesOn DEF Typed, Paying
  <2>. QED  BY <2>1, <2>2
<1>2. ASSUME NEW t \in Types
      PROVE  IsFiniteSet(Paying(t)') /\ stamps[t] + Cardinality(Paying(t)') <= ops'
  <2>1. IsFiniteSet(Paying(t)) /\ stamps[t] + Cardinality(Paying(t)) <= ops
        /\ stamps[t] \in Nat /\ ops \in Nat /\ ops' \in Nat /\ ops' >= ops
    BY Numbers DEF Typed, Counted, ListsTyped
  <2>2. /\ IsFiniteSet(Paying(t)') /\ Cardinality(Paying(t)') <= Cardinality(Paying(t))
    BY <1>1, <2>1, FS_Subset
  <2>3. Cardinality(Paying(t)') \in Nat /\ Cardinality(Paying(t)) \in Nat
    BY <2>1, <2>2, FS_CardinalityType
  <2>. QED  BY <2>1, <2>2, <2>3
<1>3. ops' \in 0..MaxOps
  BY Numbers DEF Typed, Counted
<1>. QED  BY <1>2, <1>3 DEF Typed, Counted

(* Steps of a handler that is not at a list of facilities.                  *)
LEMMA BareStep ==
    ASSUME Typed, NEW c \in Conns, NEW next, Goes(c, next), Right(next), next.at \notin Upgrading,
           ops' \in {ops} \/ (ops < MaxOps /\ ops' = ops + 1),
           UNCHANGED <<fac, cfHeld, stamps, elapsed, restarts>>, MoneyTyped'
    PROVE  Typed'
<1>1. HandlersTyped'
  BY OneGoesOn DEF Typed
<1>2. ListsTyped'
  BY DEF Typed, ListsTyped
<1>3. ops' \in ops..MaxOps
  BY Numbers DEF Typed, Counted
<1>4. Counted'
  BY <1>3, NobodyMorePays
<1>. QED  BY <1>1, <1>2, <1>4 DEF Typed

LEMMA Bare ==
    ASSUME NEW h, "list" \notin DOMAIN h, "res" \notin DOMAIN h,
           h.at \notin Upgrading \cup {"store", "pay", "collect", "transform", "send"}
    PROVE  Right(h)
BY DEF Right

LEMMA BareStepsKeepType ==
    ASSUME Typed, NEW c \in Conns,
           \/ DrawGeneral(c) \/ MyGenerals(c) \/ CountGenerals(c) \/ Recruit(c)
    PROVE  Typed'
<1>1. /\ UNCHANGED <<row, cache, known, rrChan, fac, cfHeld, stamps, balance, elapsed, restarts>>
      /\ ops' \in {ops} \/ (ops < MaxOps /\ ops' = ops + 1)
  BY DEF DrawGeneral, MyGenerals, CountGenerals, Recruit, Begins, money, history
<1>2. generals' \in Nat
  BY Numbers DEF DrawGeneral, MyGenerals, CountGenerals, Recruit, Typed, MoneyTyped
<1>3. MoneyTyped'
  BY <1>1, <1>2 DEF Typed, MoneyTyped
<1>4. \E next : /\ Goes(c, next) /\ "list" \notin DOMAIN next /\ "res" \notin DOMAIN next
                /\ next.at \notin Upgrading \cup {"store", "pay", "collect", "transform", "send"}
  <2>1. CASE DrawGeneral(c)
    BY <2>1 DEF DrawGeneral, Upgrading
  <2>2. CASE MyGenerals(c)
    BY <2>2 DEF MyGenerals, Upgrading
  <2>3. CASE CountGenerals(c)
    BY <2>3 DEF CountGenerals, Upgrading
  <2>4. CASE Recruit(c)
    BY <2>4 DEF Recruit, Idle, Upgrading
  <2>. QED  BY <2>1, <2>2, <2>3, <2>4
<1>. QED  BY <1>1, <1>3, <1>4, Bare, BareStep

LEMMA ReadsKeepType ==
    ASSUME Typed, NEW c \in Conns,
           ReadForCharge(c) \/ \E why \in {"collect", "transform"} : ReadBalance(c, why)
    PROVE  Typed'
<1>1. /\ UNCHANGED <<row, cache, known, rrChan, fac, cfHeld, generals, stamps, balance, elapsed, restarts>>
      /\ ops' \in {ops} \/ (ops < MaxOps /\ ops' = ops + 1)
  BY DEF ReadForCharge, ReadBalance, Begins, money, history
<1>2. MoneyTyped'
  BY <1>1 DEF Typed, MoneyTyped
<1>3. row \in Balances
  BY DEF Typed, MoneyTyped
<1>4. \E next : Goes(c, next) /\ Right(next) /\ next.at \notin Upgrading
  <2>1. CASE ReadForCharge(c)
    <3>1. CASE Enough(DrawCost, row.wood)
      <4>1. Goes(c, [at |-> "send", res |-> row]) /\ row.gold >= DrawCost
        BY <1>3, <2>1, <3>1, Numbers DEF ReadForCharge, Enough, Balances
      <4>. QED  BY <1>3, <4>1 DEF Right, Upgrading
    <3>2. CASE ~Enough(DrawCost, row.wood)
      BY <2>1, <3>2 DEF ReadForCharge, Right, Idle, Upgrading
    <3>. QED  BY <3>1, <3>2
  <2>2. ASSUME NEW why \in {"collect", "transform"}, ReadBalance(c, why)
        PROVE  \E next : Goes(c, next) /\ Right(next) /\ next.at \notin Upgrading
    BY <1>3, <2>2 DEF ReadBalance, Right, Upgrading
  <2>. QED  BY <2>1, <2>2
<1>. QED  BY <1>1, <1>2, <1>4, BareStep

(* Gold is spent of a copy that had enough of it.                           *)
LEMMA CostGoldKeepsType ==
    ASSUME Typed, NEW c \in Conns, CostGold(c)
    PROVE  Typed'
<1>1. PICK res : res = [handler[c].res EXCEPT !.gold = @ - DrawCost]
  OBVIOUS
<1>2. /\ Queue(Copy(res)) /\ Goes(c, Idle) /\ ops' = ops
      /\ UNCHANGED <<row, cache, known, fac, cfHeld, generals, stamps, balance, elapsed, restarts>>
  BY <1>1 DEF CostGold, history
<1>3. handler[c].res \in Balances /\ handler[c].res.gold >= DrawCost
  BY DEF CostGold, At, Typed, HandlersTyped, Right
<1>4. res \in Balances
  <2>1. handler[c].res.gold - DrawCost \in Nat
    BY <1>3, Numbers DEF Balances
  <2>. QED  BY <1>1, <1>3, <2>1 DEF Balances
<1>5. MoneyTyped'
  BY <1>2, <1>4, CopyIsEntry, Queued DEF Typed, MoneyTyped
<1>6. Right(Idle) /\ Idle.at \notin Upgrading
  BY DEF Right, Idle, Upgrading
<1>. QED  BY <1>2, <1>5, <1>6, BareStep

LEMMA CollectKeepsType ==
    ASSUME Typed, NEW c \in Conns, Collect(c)
    PROVE  Typed'
<1>1. PICK taxes : taxes = Yield("gold")
  OBVIOUS
<1>2. PICK res : res = [handler[c].res EXCEPT !.gold = @ + taxes]
  OBVIOUS
<1>3. /\ Queue(Copy(res)) /\ Goes(c, Idle) /\ ops' = ops
      /\ UNCHANGED <<row, cache, known, fac, cfHeld, generals, stamps, balance, elapsed, restarts>>
  BY <1>1, <1>2 DEF Collect, history
<1>4. taxes \in Nat
  BY <1>1, YieldIsNatural DEF Typed, Kinds
<1>5. handler[c].res \in Balances
  BY DEF Collect, At, Typed, HandlersTyped, Right
<1>6. res \in Balances
  BY <1>2, <1>4, <1>5 DEF Balances
<1>7. MoneyTyped'
  BY <1>3, <1>6, CopyIsEntry, Queued DEF Typed, MoneyTyped
<1>8. Right(Idle) /\ Idle.at \notin Upgrading
  BY DEF Right, Idle, Upgrading
<1>. QED  BY <1>3, <1>7, <1>8, BareStep

LEMMA TransformKeepsType ==
    ASSUME Typed, NEW c \in Conns, Transform(c)
    PROVE  Typed'
<1>1. /\ Goes(c, Idle) /\ ops' = ops
      /\ UNCHANGED <<row, cache, known, fac, cfHeld, generals, stamps, elapsed, restarts>>
  BY DEF Transform
<1>2. MoneyTyped'
  <2>1. CASE UNCHANGED <<rrChan, balance>>
    BY <1>1, <2>1 DEF Typed, MoneyTyped
  <2>2. ASSUME NEW d \in Trades, Queue(Copy([handler[c].res EXCEPT !.wood = @ + d])), balance' = balance + d
        PROVE  MoneyTyped'
    <3>1. PICK res : res = [handler[c].res EXCEPT !.wood = @ + d]
      OBVIOUS
    <3>2. handler[c].res \in Balances /\ d \in Int
      BY Numbers DEF Transform, At, Typed, HandlersTyped, Right
    <3>3. res \in Balances
      BY <3>1, <3>2 DEF Balances
    <3>4. Queue(Copy(res))
      BY <2>2, <3>1
    <3>5. balance' \in Int
      BY <2>2, <3>2 DEF Typed, MoneyTyped
    <3>. QED  BY <1>1, <3>3, <3>4, <3>5, CopyIsEntry, Queued DEF Typed, MoneyTyped
  <2>. QED  BY <2>1, <2>2 DEF Transform
<1>3. Right(Idle) /\ Idle.at \notin Upgrading
  BY DEF Right, Idle, Upgrading
<1>. QED  BY <1>1, <1>2, <1>3, BareStep

(* upFacility: from the list to the payment and on to the writer.           *)
LEMMA ReadFacilitiesKeepsType ==
    ASSUME Typed, NEW c \in Conns, NEW t \in Types, ReadFacilities(c, t)
    PROVE  Typed'
<1>1. PICK f : f = Settle(t, fac[t])
  OBVIOUS
<1>2. PICK list : list = [fac EXCEPT ![t] = f]
  OBVIOUS
<1>3. PICK next : next = [at |-> "need", type |-> t, list |-> list]
  OBVIOUS
<1>4. /\ Goes(c, next) /\ f.up = 0 /\ f.level + 1 < MaxLevel
      /\ handler[c].at = "idle" /\ ops < MaxOps /\ ops' = ops + 1
      /\ UNCHANGED <<row, cache, known, rrChan, fac, cfHeld, generals, stamps, balance, elapsed, restarts>>
  BY <1>1, <1>2, <1>3 DEF ReadFacilities, Begins, At, money, history
<1>5. f \in Shape /\ CanRise(f)
  BY <1>1, LevelsOfStored, Settled DEF Typed
<1>6. list \in Levels /\ list[t] = f
  BY <1>2, <1>5 DEF Typed, ListsTyped, Levels, Lists, Shape
<1>7. Right(next)
  BY <1>3, <1>4, <1>6 DEF Right, Upgrading
<1>8. HandlersTyped' /\ handler'[c] = next /\ \A d \in Conns \ {c} : handler'[d] = handler[d]
  BY <1>4, <1>7, OneGoesOn DEF Typed
<1>9. MoneyTyped' /\ ListsTyped'
  BY <1>4 DEF Typed, MoneyTyped, ListsTyped
<1>10. Paying(t)' = Paying(t) \cup {c} /\ c \notin Paying(t)
       /\ \A u \in Types \ {t} : Paying(u)' = Paying(u)
  BY <1>3, <1>4, <1>8 DEF Paying, Upgrading
<1>11. ASSUME NEW u \in Types
       PROVE  IsFiniteSet(Paying(u)') /\ stamps[u] + Cardinality(Paying(u)') <= ops + 1
  <2>1. IsFiniteSet(Paying(u)) /\ stamps[u] + Cardinality(Paying(u)) <= ops
        /\ stamps[u] \in Nat /\ ops \in Nat /\ Cardinality(Paying(u)) \in Nat
    BY Numbers, FS_CardinalityType DEF Typed, Counted, ListsTyped
  <2>2. CASE u # t
    BY <1>10, <2>1, <2>2
  <2>3. CASE u = t
    <3>1. IsFiniteSet(Paying(t)') /\ Cardinality(Paying(t)') = Cardinality(Paying(t)) + 1
      BY <1>10, <2>1, <2>3, FS_AddElement
    <3>. QED  BY <2>1, <2>3, <3>1
  <2>. QED  BY <2>2, <2>3
<1>12. Counted'
  <2>1. ops' \in 0..MaxOps
    BY <1>4, Numbers DEF Typed, Counted
  <2>. QED  BY <1>4, <1>11, <2>1 DEF Typed, Counted
<1>. QED  BY <1>8, <1>9, <1>12 DEF Typed

LEMMA UnknownTypeKeepsType ==
    ASSUME Typed, NEW c \in Conns, ReadForUnknownType(c)
    PROVE  Typed'
<1>1. /\ Goes(c, [at |-> "store", list |-> fac]) /\ ops < MaxOps /\ ops' = ops + 1
      /\ UNCHANGED <<row, cache, known, rrChan, fac, cfHeld, generals, stamps, balance, elapsed, restarts>>
  BY DEF ReadForUnknownType, Begins, money, history
<1>2. MoneyTyped' /\ fac \in Levels
  BY <1>1 DEF Typed, MoneyTyped, ListsTyped
<1>3. PICK next : Goes(c, next) /\ Right(next) /\ next.at \notin Upgrading
  BY <1>1, <1>2 DEF Right, Upgrading
<1>. QED  BY <1>1, <1>2, <1>3, BareStep

(* The same handlers pay as before, or one fewer.                           *)
LEMMA ReadForNeedKeepsType ==
    ASSUME Typed, NEW c \in Conns, ReadForNeed(c)
    PROVE  Typed'
<1>1. PICK next : next = [at |-> "pay", type |-> handler[c].type, list |-> handler[c].list, res |-> row]
  OBVIOUS
<1>2. /\ Goes(c, next) \/ Goes(c, Idle)
      /\ handler[c].at = "need" /\ ops' = ops
      /\ UNCHANGED <<row, cache, known, rrChan, fac, cfHeld, generals, stamps, balance, elapsed, restarts>>
  BY <1>1 DEF ReadForNeed, Refusable, At, money, history
<1>3. MoneyTyped' /\ ListsTyped'
  BY <1>2 DEF Typed, MoneyTyped, ListsTyped
<1>4. CASE Goes(c, Idle)
  <2>1. Right(Idle) /\ Idle.at \notin Upgrading
    BY DEF Right, Idle, Upgrading
  <2>. QED  BY <1>2, <1>3, <1>4, <2>1, BareStep
<1>5. CASE Goes(c, next)
  <2>1. Right(next)
    BY <1>1, <1>2 DEF Typed, HandlersTyped, MoneyTyped, Right, Upgrading
  <2>2. HandlersTyped' /\ handler'[c] = next /\ \A d \in Conns \ {c} : handler'[d] = handler[d]
    BY <1>5, <2>1, OneGoesOn DEF Typed
  <2>3. \A t \in Types : Paying(t)' = Paying(t)
    BY <1>1, <1>2, <2>2 DEF Paying, Upgrading
  <2>4. Counted'
    BY <1>2, <2>3 DEF Typed, Counted
  <2>. QED  BY <1>3, <2>2, <2>4 DEF Typed
<1>. QED  BY <1>2, <1>4, <1>5

LEMMA PayNeedKeepsType ==
    ASSUME Typed, NEW c \in Conns, PayNeed(c)
    PROVE  Typed'
<1>1. PICK t, list, price : t = handler[c].type /\ list = handler[c].list /\ price = PriceOf(c)
  OBVIOUS
<1>2. PICK stamp : stamp = stamps[t] + 1
  OBVIOUS
<1>3. PICK res, next : /\ res = [handler[c].res EXCEPT !.wood = @ - price]
                       /\ next = [at |-> "store", list |-> [list EXCEPT ![t].up = stamp]]
  OBVIOUS
<1>4. /\ handler[c].at = "pay" /\ Queue(Copy(res)) /\ Goes(c, next) /\ ops' = ops
      /\ stamps' = [stamps EXCEPT ![t] = stamp] /\ balance' = balance - price
      /\ UNCHANGED <<row, cache, known, fac, cfHeld, generals, elapsed, restarts>>
  BY <1>1, <1>2, <1>3 DEF PayNeed, At
<1>5. /\ t \in Types /\ list \in Levels /\ list[t].level + 1 < MaxLevel /\ handler[c].res \in Balances
  BY <1>1, <1>4 DEF Typed, HandlersTyped, Right, Upgrading
<1>6. list[t].level \in 0..MaxLevel
  BY <1>5 DEF Levels, Lists
<1>7. price \in Nat
  <2>1. list[t].level + 2 \in 1..MaxLevel
    BY <1>5, <1>6, Numbers
  <2>2. price = NeedWood[(list[t].level + 1) + 1]
    BY <1>1 DEF PriceOf, Need
  <2>3. (list[t].level + 1) + 1 = list[t].level + 2
    BY <1>6
  <2>. QED  BY <2>1, <2>2, <2>3, Numbers
<1>8. MoneyTyped'
  <2>1. res \in Balances
    BY <1>3, <1>5, <1>7 DEF Balances
  <2>2. balance' \in Int
    BY <1>4, <1>7 DEF Typed, MoneyTyped
  <2>. QED  BY <1>4, <2>1, <2>2, CopyIsEntry, Queued DEF Typed, MoneyTyped
<1>9. c \in Paying(t) /\ stamps \in [Types -> Nat] /\ elapsed \subseteq Types \X (1..MaxOps)
  BY <1>1, <1>4 DEF Paying, Upgrading, Typed, ListsTyped
<1>10. ASSUME NEW u \in Types
       PROVE  /\ IsFiniteSet(Paying(u)) /\ stamps[u] + Cardinality(Paying(u)) <= ops
              /\ Cardinality(Paying(u)) \in Nat /\ ops \in 0..MaxOps /\ ops \in Nat
  BY Numbers, FS_CardinalityType DEF Typed, Counted
<1>11. IsFiniteSet(Paying(t) \ {c}) /\ Cardinality(Paying(t) \ {c}) = Cardinality(Paying(t)) - 1
       /\ Cardinality(Paying(t) \ {c}) \in Nat
  <2>1. IsFiniteSet(Paying(t) \ {c}) /\ Cardinality(Paying(t) \ {c}) = Cardinality(Paying(t)) - 1
    BY <1>5, <1>9, <1>10, FS_RemoveElement
  <2>. QED  BY <2>1, FS_CardinalityType
<1>12. stamp \in Nat /\ stamp <= ops
  BY <1>2, <1>5, <1>9, <1>10, <1>11
<1>13. stamp \in 0..MaxOps
  BY <1>5, <1>10, <1>12, Numbers
<1>14. ListsTyped'
  <2>1. stamps' \in [Types -> Nat]
    BY <1>4, <1>9, <1>12
  <2>. QED  BY <1>4, <2>1 DEF Typed, ListsTyped
<1>15. Right(next) /\ next.at \notin Upgrading
  <2>1. [list EXCEPT ![t].up = stamp] \in Lists
    BY <1>5, <1>13 DEF Levels, Lists
  <2>2. \A u \in Types : CanRise([list EXCEPT ![t].up = stamp][u])
    <3>1. list[t].level < MaxLevel
      BY <1>5, <1>6, Numbers
    <3>. QED  BY <1>5, <3>1 DEF Levels, Lists, CanRise
  <2>. QED  BY <1>3, <2>1, <2>2 DEF Right, Upgrading, Levels
<1>16. HandlersTyped' /\ handler'[c] = next /\ \A d \in Conns \ {c} : handler'[d] = handler[d]
  BY <1>4, <1>15, OneGoesOn DEF Typed
<1>17. Paying(t)' = Paying(t) \ {c} /\ \A u \in Types \ {t} : Paying(u)' = Paying(u)
  BY <1>1, <1>15, <1>16 DEF Paying
<1>18. ASSUME NEW u \in Types
       PROVE  IsFiniteSet(Paying(u)') /\ stamps'[u] + Cardinality(Paying(u)') <= ops
  <2>1. CASE u = t
    <3>1. stamps'[t] = stamp
      BY <1>4, <1>5, <1>9
    <3>2. Cardinality(Paying(t)) \in Nat /\ stamps[t] + Cardinality(Paying(t)) <= ops /\ ops \in Nat
      BY <1>5, <1>10
    <3>3. stamps[t] \in Nat
      BY <1>5, <1>9
    <3>4. stamp + (Cardinality(Paying(t)) - 1) <= ops
      BY <1>2, <3>2, <3>3
    <3>. QED  BY <1>11, <1>17, <2>1, <3>1, <3>4
  <2>2. CASE u # t
    BY <1>4, <1>9, <1>10, <1>17, <2>2
  <2>. QED  BY <2>1, <2>2
<1>19. Counted'
  BY <1>4, <1>18 DEF Typed, Counted
<1>. QED  BY <1>8, <1>14, <1>16, <1>19 DEF Typed

LEMMA StoreKeepsType ==
    ASSUME Typed, NEW c \in Conns, StoreFacilities(c)
    PROVE  Typed'
<1>1. /\ cfHeld' = {handler[c].list} /\ Goes(c, Idle) /\ ops' = ops
      /\ UNCHANGED <<row, cache, known, rrChan, fac, generals, stamps, balance, elapsed, restarts>>
  BY DEF StoreFacilities, money, history
<1>2. handler[c].list \in Levels
  BY DEF StoreFacilities, At, Typed, HandlersTyped, Right
<1>3. MoneyTyped' /\ ListsTyped'
  BY <1>1, <1>2 DEF Typed, MoneyTyped, ListsTyped
<1>4. Right(Idle) /\ Idle.at \notin Upgrading
  BY DEF Right, Idle, Upgrading
<1>5. HandlersTyped'
  BY <1>1, <1>4, OneGoesOn DEF Typed
<1>6. ops' \in ops..MaxOps
  BY <1>1, Numbers DEF Typed, Counted
<1>7. Counted'
  BY <1>1, <1>4, <1>6, NobodyMorePays
<1>. QED  BY <1>3, <1>5, <1>7 DEF Typed

LEMMA UseDecreeKeepsType ==
    ASSUME Typed, NEW c \in Conns, TryUseDecree(c)
    PROVE  Typed'
<1>1. /\ Queue(Pointer) /\ ops < MaxOps /\ ops' = ops + 1
      /\ UNCHANGED <<row, cache, known, fac, cfHeld, generals, handler, stamps, balance, elapsed, restarts>>
  BY DEF TryUseDecree, Begins, history
<1>2. Pointer \in Entries
  BY DEF Pointer, Entries, Balances
<1>3. MoneyTyped'
  BY <1>1, <1>2, Queued DEF Typed, MoneyTyped
<1>4. ops' \in ops..MaxOps
  BY <1>1, Numbers DEF Typed, Counted
<1>5. Counted'
  BY <1>1, <1>4, NobodyMorePays
<1>. QED  BY <1>1, <1>3, <1>5 DEF Typed, ListsTyped, HandlersTyped

-----------------------------------------------------------------------------
(* The cache, the writers, the clock and a restart.                         *)

LEMMA ProduceKeepsType == Typed /\ Produce => Typed'
<1>. SUFFICES ASSUME Typed, Produce PROVE Typed'
  OBVIOUS
<1>1. PICK capacity, wood : capacity = Yield("capacity") /\ wood = Yield("wood") \div 6
  OBVIOUS
<1>2. PICK step : step = (IF cache.wood < capacity THEN wood ELSE 0)
  OBVIOUS
<1>3. /\ Queue(Pointer) /\ ops < MaxOps /\ ops' = ops + 1
      /\ cache' = [cache EXCEPT !.wood = @ + step] /\ balance' = balance + step
      /\ UNCHANGED <<row, known, fac, cfHeld, generals, handler, stamps, elapsed, restarts>>
  BY <1>1, <1>2 DEF Produce
<1>4. step \in Int
  <2>1. Yield("wood") \in Nat
    BY YieldIsNatural DEF Typed, Kinds
  <2>2. wood \in Int
    BY <1>1, <2>1
  <2>. QED  BY <1>2, <2>2
<1>5. Pointer \in Entries
  BY DEF Pointer, Entries, Balances
<1>6. cache' \in Balances /\ balance' \in Int
  BY <1>3, <1>4 DEF Typed, MoneyTyped, Balances
<1>7. MoneyTyped'
  BY <1>3, <1>5, <1>6, Queued DEF Typed, MoneyTyped
<1>8. ops' \in ops..MaxOps
  BY <1>3, Numbers DEF Typed, Counted
<1>9. Counted'
  BY <1>3, <1>8, NobodyMorePays
<1>. QED  BY <1>3, <1>7, <1>9 DEF Typed, ListsTyped, HandlersTyped

LEMMA WriteBalanceKeepsType == Typed /\ WriteBalance => Typed'
<1>. SUFFICES ASSUME Typed, WriteBalance PROVE Typed'
  OBVIOUS
<1>1. /\ rrChan # <<>> /\ rrChan' = Tail(rrChan)
      /\ row' = (IF Head(rrChan).cached THEN cache ELSE Head(rrChan).res)
      /\ UNCHANGED <<cache, known, fac, cfHeld, generals, handler, stamps, balance, elapsed, ops, restarts>>
  BY DEF WriteBalance, history
<1>2. /\ rrChan' \in Seq(Entries) /\ Head(rrChan) \in Entries
      /\ Len(rrChan') = Len(rrChan) - 1 /\ Len(rrChan) \in Nat
  BY <1>1, HeadTailProperties, LenProperties DEF Typed, MoneyTyped
<1>3. MoneyTyped'
  BY <1>1, <1>2, Numbers DEF Typed, MoneyTyped, Entries
<1>4. ops' \in ops..MaxOps
  BY <1>1, Numbers DEF Typed, Counted
<1>5. Counted'
  BY <1>1, <1>4, NobodyMorePays
<1>. QED  BY <1>1, <1>3, <1>5 DEF Typed, ListsTyped, HandlersTyped

LEMMA WriteFacilitiesKeepsType == Typed /\ WriteFacilities => Typed'
<1>. SUFFICES ASSUME Typed, WriteFacilities PROVE Typed'
  OBVIOUS
<1>1. PICK list \in cfHeld : fac' = list
  BY DEF WriteFacilities
<1>2. /\ cfHeld' = {} /\ UNCHANGED <<row, cache, known, rrChan, generals, handler, stamps, balance, elapsed,
                                    ops, restarts>>
  BY DEF WriteFacilities, money, history
<1>3. ops' \in ops..MaxOps
  BY <1>2, Numbers DEF Typed, Counted
<1>4. Counted'
  BY <1>2, <1>3, NobodyMorePays
<1>. QED  BY <1>1, <1>2, <1>4 DEF Typed, MoneyTyped, ListsTyped, HandlersTyped

LEMMA TimeKeepsType ==
    ASSUME Typed, NEW t \in Types, TimePasses(t)
    PROVE  Typed'
<1>1. PICK stamp \in 1..stamps[t] : elapsed' = elapsed \cup {<<t, stamp>>}
  BY DEF TimePasses
<1>2. UNCHANGED <<row, cache, known, rrChan, fac, cfHeld, generals, handler, stamps, balance, ops, restarts>>
  BY DEF TimePasses, money, history
<1>3. stamp \in 1..MaxOps
  <2>1. Cardinality(Paying(t)) \in Nat /\ stamps[t] + Cardinality(Paying(t)) <= ops
        /\ stamps[t] \in Nat /\ ops \in 0..MaxOps
    BY FS_CardinalityType DEF Typed, Counted, ListsTyped
  <2>. QED  BY <1>1, <2>1, Numbers
<1>4. ListsTyped'
  BY <1>1, <1>2, <1>3 DEF Typed, ListsTyped
<1>5. ops' \in ops..MaxOps
  BY <1>2, Numbers DEF Typed, Counted
<1>6. Counted'
  BY <1>2, <1>5, NobodyMorePays
<1>. QED  BY <1>2, <1>4, <1>6 DEF Typed, MoneyTyped, HandlersTyped

LEMMA RestartKeepsType == Typed /\ Restart => Typed'
<1>. SUFFICES ASSUME Typed, Restart PROVE Typed'
  OBVIOUS
<1>1. /\ restarts < MaxRestarts /\ restarts' = restarts + 1
      /\ cache' = row /\ known' = TRUE /\ rrChan' = <<>> /\ cfHeld' = {}
      /\ handler' = [c \in Conns |-> Idle]
      /\ UNCHANGED <<row, fac, generals, stamps, balance, elapsed, ops>>
  BY DEF Restart, history
<1>2. MoneyTyped'
  <2>1. rrChan' \in Seq(Entries) /\ Len(rrChan') = 0
    BY <1>1, EmptySeq
  <2>2. known' \in BOOLEAN
    BY <1>1, Zenon
  <2>. QED  BY <1>1, <2>1, <2>2, Numbers DEF Typed, MoneyTyped
<1>3. ListsTyped'
  BY <1>1 DEF Typed, ListsTyped
<1>4. HandlersTyped'
  BY <1>1 DEF HandlersTyped, Right, Idle, Upgrading
<1>5. \A t \in Types : Paying(t)' = {}
  BY <1>1 DEF Paying, Idle, Upgrading
<1>6. ASSUME NEW t \in Types
      PROVE  IsFiniteSet(Paying(t)') /\ stamps[t] + Cardinality(Paying(t)') <= ops
  <2>1. Cardinality(Paying(t)) \in Nat /\ stamps[t] + Cardinality(Paying(t)) <= ops
        /\ stamps[t] \in Nat /\ ops \in Nat
    BY FS_CardinalityType, Numbers DEF Typed, Counted, ListsTyped
  <2>2. IsFiniteSet({}) /\ Cardinality({}) = 0
    BY FS_EmptySet
  <2>3. Paying(t)' = {}
    BY <1>5
  <2>4. IsFiniteSet(Paying(t)') /\ Cardinality(Paying(t)') = 0
    BY <2>2, <2>3
  <2>. QED  BY <2>1, <2>4
<1>7. Counted'
  BY <1>1, <1>6, Numbers DEF Typed, Counted
<1>. QED  BY <1>2, <1>3, <1>4, <1>7 DEF Typed

LEMMA TypedIsInductive == Typed /\ [Next]_vars => Typed'
<1>. SUFFICES ASSUME Typed, [Next]_vars PROVE Typed'
  OBVIOUS
<1>1. ASSUME NEW c \in Conns, Handler(c) PROVE Typed'
  BY <1>1, ReadFacilitiesKeepsType, UnknownTypeKeepsType, ReadForNeedKeepsType, PayNeedKeepsType,
     StoreKeepsType, BareStepsKeepType, ReadsKeepType, CostGoldKeepsType, CollectKeepsType,
     TransformKeepsType, UseDecreeKeepsType DEF Handler
<1>2. CASE WriteFacilities \/ Produce \/ WriteBalance \/ Restart
  BY <1>2, WriteFacilitiesKeepsType, ProduceKeepsType, WriteBalanceKeepsType, RestartKeepsType
<1>3. CASE UNCHANGED vars
  <2>1. UNCHANGED <<row, cache, known, rrChan, fac, cfHeld, generals, handler, stamps, balance, elapsed,
                    ops, restarts>>
    BY <1>3 DEF vars, money, history
  <2>. QED  BY <2>1 DEF Typed, MoneyTyped, ListsTyped, HandlersTyped, Counted, Paying
<1>. QED  BY <1>1, <1>2, <1>3, TimeKeepsType DEF Next

-----------------------------------------------------------------------------
(* Theorems.                                                                *)

(* No level of a facility that was not paid for: stale lists, time that     *)
(* passes between two reads, or a restart give nothing away, whatever the   *)
(* prices (UpFacility, GetLevel in cityFacility.go).                        *)
THEOREM LevelsArePaidFor == Spec => []NoFreeUpgrade
<1>1. Inv => NoFreeUpgrade
  BY DEF Inv
<1>. QED  BY <1>1, InvHoldsAtInit, InvIsInductive, PTL DEF Spec

(* No row, copy or queued balance ever holds less than no gold, and nothing *)
(* is ever built past the last level or asked for a price the file does not *)
(* list, whatever copies the handlers work on (drawGeneral, CostGold,       *)
(* collect, UpFacility).                                                    *)
THEOREM TypeCorrect == Spec => []TypeOK
<1>1. Typed => TypeOK
  <2>. SUFFICES ASSUME Typed PROVE TypeOK
    OBVIOUS
  <2>1. \A i \in DOMAIN rrChan : rrChan[i] \in Entries
    BY LenProperties DEF Typed, MoneyTyped
  <2>2. /\ \A c \in Holding : handler[c].res \in Balances
        /\ \A c \in Listing : handler[c].list \in Lists
    BY DEF Holding, Listing, Typed, HandlersTyped, Right, Levels
  <2>3. \A t \in Types : stamps[t] \in 0..MaxOps
    <3>. SUFFICES ASSUME NEW t \in Types PROVE stamps[t] \in 0..MaxOps
      OBVIOUS
    <3>1. Cardinality(Paying(t)) \in Nat /\ stamps[t] + Cardinality(Paying(t)) <= ops
          /\ stamps[t] \in Nat /\ ops \in 0..MaxOps
      BY FS_CardinalityType DEF Typed, Counted, ListsTyped
    <3>. QED  BY <3>1, Numbers
  <2>4. stamps \in [Types -> 0..MaxOps] /\ fac \in Lists /\ cfHeld \subseteq Lists
    BY <2>3 DEF Typed, ListsTyped, Levels
  <2>. QED  BY <2>1, <2>2, <2>4 DEF TypeOK, Entries, Typed, MoneyTyped, ListsTyped, Counted
<1>. QED  BY <1>1, TypedAtInit, TypedIsInductive, PTL DEF Spec

==============================================================================
