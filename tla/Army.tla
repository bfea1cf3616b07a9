-------------------------------- MODULE Army ---------------------------------
(***************************************************************************)
(* Armies on the march (armyService and the assign handlers).  A player's  *)
(* order is a fresh copy of the army's row that PushAction files under the *)
(* second it ends in; it is not written to the row.  Two goroutines share  *)
(* the rest: check walks the due seconds and sends their orders, one by    *)
(* one, into arriveArmyChan; running serves that channel, the updates it   *)
(* sends to itself and the places that were given up.                      *)
(*                                                                         *)
(* Copies are pointers: the one a garrison keeps, the one that waits in a  *)
(* channel and the one in the list of a second may be the same, so they    *)
(* are numbered (Slots) and their contents kept apart (orders).            *)
(*                                                                         *)
(* Seconds are labels without an order: a march may end at any time.       *)
(* Every role is in a union; what a role without one may do is in Land.    *)
(***************************************************************************)
EXTENDS Integers, FiniteSets, SequencesExt

CONSTANTS
    Roles, NoRole,
    Armies,
    OwnerOf,        \* army -> the role it belongs to
    UnionOf,        \* role -> its union
    Lands,          \* fields and fortresses
    Cities,         \* places of cities
    CityOf,         \* role -> the place of its only city
    InitOwner,      \* land -> owner when the server starts
    Origin,         \* the cell (0,0)
    InitFrom,       \* army -> From of its row: Origin until dispose makes it the city
    Targets,        \* bound: the places players send armies to
    MaxAssigns,     \* bound: orders the players give
    MaxOrders,      \* bound: copies that are referenced at the same time
    MaxSeconds,     \* bound: seconds with orders at the same time
    HoldLimit,      \* GetHoldArmyCnt of a fortress
    Cap             \* capacity of arriveArmyChan, updateArmyChan, giveUpIdChan

ASSUME ArmyAssumption ==
    /\ NoRole \notin Roles
    /\ IsFiniteSet(Armies) /\ OwnerOf \in [Armies -> Roles]
    /\ UnionOf \in [Roles -> Nat \ {0}]
    /\ CityOf \in [Roles -> Cities] /\ IsInjective(CityOf)
    /\ InitOwner \in [Lands -> Roles \cup {NoRole}]
    /\ InitFrom \in [Armies -> Cities \cup {Origin}]
    /\ \A a \in Armies : InitFrom[a] \in {Origin, CityOf[OwnerOf[a]]}
    /\ Lands \cap Cities = {} /\ Origin \notin Lands \cup Cities
    /\ Targets \subseteq Lands \cup Cities
    /\ HoldLimit \in Nat /\ MaxAssigns \in Nat /\ MaxOrders \in Nat /\ Cap \in Nat \ {0} /\ MaxSeconds \in Nat

VARIABLES
    owner,          \* land -> MapRoleBuild.RId
    forts,          \* lands with a finished fortress
    parent,         \* role -> ParentId, the union it has fallen to, 0 for none
    rows,           \* army -> its row in tb_army_1
    orders,         \* slot -> the contents of the copy, Blank when unreferenced
    endTimeArmys,   \* second -> slots, in the order they were filed
    checking,       \* the second check is walking through
    arriveArmyChan, updateArmyChan, giveUpIdChan,
    stopInPosArmys, \* place -> slots of the armies that stand there
    leaving,        \* lands checkGiveUp has removed and not reported yet
    assigns,        \* orders the players have given
    stuck           \* running waits for room in a channel only it empties

vars == <<owner, forts, parent, rows, orders, endTimeArmys, checking,
          arriveArmyChan, updateArmyChan, giveUpIdChan, stopInPosArmys, leaving, assigns, stuck>>
landVars == <<owner, forts, parent, leaving>>
chans    == <<arriveArmyChan, updateArmyChan, giveUpIdChan>>

Slots   == 1..MaxOrders
Seconds == 1..MaxSeconds
Cmds   == {"idle", "attack", "defend", "transfer", "back"}
Places == Lands \cup Cities \cup {Origin}
Blank  == [army |-> "none"]

(* A row without ToX and ToY: of the copies made from rows only idle ones   *)
(* and those on their way back are ever used, and nobody reads To of them.  *)
Row      == [cmd : Cmds, from : Places, end : Seconds \cup {0}]  \* end 0: over
RowOf(o) == [cmd |-> o.cmd, from |-> o.from, end |-> o.end]

(* A mutated form of the next definition; no action uses it.                *)
CopyWithoutTo(a) == [army |-> a, cmd |-> rows[a].cmd, from |-> rows[a].from, end |-> rows[a].end]

CopyOf(a) == [army |-> a, cmd |-> rows[a].cmd, from |-> rows[a].from, to |-> rows[a].from,
              end |-> rows[a].end]
Holder(p)    == IF p \in Lands THEN owner[p] ELSE CHOOSE r \in Roles : CityOf[r] = p

(* In this model no union is 0, so that nobody is a friend of the system.   *)
IsCanDefend(p, r) ==
    LET h == Holder(p) IN
    h # NoRole /\ (h = r \/ UnionOf[r] \in {UnionOf[h], parent[h]})

(* check ranges over array; live is the length of the same list in          *)
(* endTimeArmys, whose removals shift the cells of array; next is the index *)
(* of the range.                                                            *)
NotChecking == [second |-> 0, array |-> <<>>, live |-> 0, next |-> 1]
Undelivered == SubSeq(checking.array, checking.next, Len(checking.array))

Marching(s)  == s \in ToSet(Undelivered) \/ \E e \in Seconds : s \in ToSet(endTimeArmys[e])
Referenced   ==
    ToSet(checking.array) \cup ToSet(arriveArmyChan) \cup ToSet(updateArmyChan)
    \cup (UNION {ToSet(endTimeArmys[e]) : e \in Seconds})
    \cup (UNION {stopInPosArmys[p] : p \in Places})

(* The copies after a step: those nothing refers to are gone.  Comes after  *)
(* the conjuncts that say what is referenced.                               *)
Keep(copies) == orders' = [s \in Slots |-> IF s \in Referenced' THEN copies[s] ELSE Blank]

FreeSlots == {s \in Slots : orders[s] = Blank}
FreeSlot  == CHOOSE s \in FreeSlots : TRUE

Init ==
    /\ owner = InitOwner
    /\ forts \in SUBSET {p \in Lands : owner[p] # NoRole}
    /\ parent = [r \in Roles |-> 0]
    /\ rows = [a \in Armies |-> [cmd |-> "idle", from |-> InitFrom[a], end |-> 0]]
    /\ orders = [s \in Slots |-> Blank]
    /\ endTimeArmys = [e \in Seconds |-> <<>>] /\ checking = NotChecking
    /\ arriveArmyChan = <<>> /\ updateArmyChan = <<>> /\ giveUpIdChan = <<>>
    /\ stopInPosArmys = [p \in Places |-> {}]
    /\ leaving = {} /\ assigns = 0 /\ stuck = FALSE

-----------------------------------------------------------------------------
(* Filing and calling back.                                                 *)

(* A second that is being walked through is over: no march ends in it.  A   *)
(* second nobody has named gets the lowest label that is free.              *)
Named(e) == e = checking.second \/ endTimeArmys[e] # <<>>
Future   == {e \in Seconds \ {checking.second} : \A f \in 1..e - 1 : Named(f)}

PushAction(filed, s, e) == [filed EXCEPT ![e] = Append(@, s)]

(* The first entry of army a in a list of slots, 0 without one.             *)
IndexOf(a, list, copies) == SelectInSeq(list, LAMBDA s : copies[s].army = a)

Unfile(filed, a, e, copies) ==
    IF e = 0 \/ e = checking.second \/ IndexOf(a, filed[e], copies) = 0 THEN filed
    ELSE [filed EXCEPT ![e] = RemoveAt(@, IndexOf(a, filed[e], copies))]

(* The same removal from the list check is ranging over: the cells behind   *)
(* the removed one move up, the last stays where it is.                     *)
Shift(walk, a, copies) ==
    LET i == IndexOf(a, SubSeq(walk.array, 1, walk.live), copies) IN
    IF i = 0 THEN walk
    ELSE [walk EXCEPT !.live = @ - 1,
                      !.array = [j \in DOMAIN @ |->
                                    IF i <= j /\ j < walk.live THEN @[j + 1] ELSE @[j]]]

(* ArmyBack on the copies at some places of a list of slots, one after the  *)
(* other.                                                                   *)
Marches == [copies |-> orders, filed |-> endTimeArmys, walk |-> checking]

ArmyBack(m, s, e) ==
    LET o == m.copies[s] IN
    [copies |-> [m.copies EXCEPT ![s] = [@ EXCEPT !.cmd = "back", !.end = e]],
     filed  |-> PushAction(Unfile(m.filed, o.army, o.end, m.copies), s, e),
     walk   |-> IF o.end = checking.second THEN Shift(m.walk, o.army, m.copies) ELSE m.walk]

AllBack(m, list, some, e) ==
    MapThenFoldSet(LAMBDA s, mm : ArmyBack(mm, s, e), m, LAMBDA i : list[i], Max, some)

-----------------------------------------------------------------------------
(* The assign handlers.  They read the row and leave it as it is.           *)

Assign(e) ==
    /\ FreeSlots # {} /\ e \in Future
    /\ assigns < MaxAssigns /\ assigns' = assigns + 1
    /\ UNCHANGED <<landVars, rows, chans, stopInPosArmys, stuck>>

Order(a, cmd, p, e) ==
    /\ Assign(e)
    /\ UNCHANGED checking
    /\ endTimeArmys' = PushAction(endTimeArmys, FreeSlot, e)
    /\ Keep([orders EXCEPT ![FreeSlot] =
                [army |-> a, cmd |-> cmd, from |-> rows[a].from, to |-> p, end |-> e]])

Attack(a, p, e) ==
    /\ rows[a].cmd = "idle"
    /\ ~IsCanDefend(p, OwnerOf[a])
    /\ Order(a, "attack", p, e)

(* As the code has it: a place that can be defended is refused.             *)
Defend(a, p, e) ==
    /\ rows[a].cmd = "idle"
    /\ ~IsCanDefend(p, OwnerOf[a])
    /\ Order(a, "defend", p, e)

(* A transfer is not written before it is over, so that no row is counted   *)
(* for being on the way.                                                    *)
BelongPosArmyCnt(r, p) == Cardinality({a \in Armies : OwnerOf[a] = r /\ rows[a].from = p})

Transfer(a, p, e) ==
    /\ rows[a].cmd = "idle" /\ rows[a].from # p
    /\ p \in forts /\ owner[p] = OwnerOf[a]
    /\ BelongPosArmyCnt(OwnerOf[a], p) < HoldLimit
    /\ Order(a, "transfer", p, e)

(* An army that is at home, as its row has it, stays.                       *)
Recall(a, e) ==
    /\ rows[a].cmd \in {"attack", "defend"} \/ rows[a].from # CityOf[OwnerOf[a]]
    /\ Assign(e)
    /\ LET m == ArmyBack([Marches EXCEPT !.copies[FreeSlot] = CopyOf(a)], FreeSlot, e) IN
       /\ endTimeArmys' = m.filed /\ checking' = m.walk
       /\ Keep(m.copies)

-----------------------------------------------------------------------------
(* check.                                                                   *)

StartSecond(e) ==
    /\ checking = NotChecking /\ endTimeArmys[e] # <<>>
    /\ checking' = [second |-> e, array |-> endTimeArmys[e],
                    live |-> Len(endTimeArmys[e]), next |-> 1]
    /\ endTimeArmys' = [endTimeArmys EXCEPT ![e] = <<>>]
    /\ UNCHANGED <<landVars, rows, orders, chans, stopInPosArmys, assigns, stuck>>

Arrive ==
    /\ Undelivered # <<>> /\ Len(arriveArmyChan) < Cap
    /\ arriveArmyChan' = Append(arriveArmyChan, Head(Undelivered))
    /\ checking' = [checking EXCEPT !.next = @ + 1]
    /\ UNCHANGED <<landVars, rows, orders, endTimeArmys, updateArmyChan, giveUpIdChan,
                   stopInPosArmys, assigns, stuck>>

(* The second is deleted; copies and rows that still name it name nothing.  *)
Over(o) == IF o # Blank /\ o.end = checking.second THEN [o EXCEPT !.end = 0] ELSE o

EndSecond ==
    /\ checking # NotChecking /\ Undelivered = <<>>
    /\ checking' = NotChecking
    /\ rows' = [a \in Armies |-> Over(rows[a])]
    /\ UNCHANGED <<landVars, endTimeArmys, chans, stopInPosArmys, assigns, stuck>>
    /\ Keep([s \in Slots |-> Over(orders[s])])

-----------------------------------------------------------------------------
(* running: an army has arrived.                                            *)

Takes(s, cmds) ==
    /\ ~stuck /\ arriveArmyChan # <<>> /\ s = Head(arriveArmyChan)
    /\ orders[s].cmd \in cmds
    /\ arriveArmyChan' = Tail(arriveArmyChan)
    /\ UNCHANGED <<giveUpIdChan, leaving, assigns>>

(* running sends to the channel it receives from.                           *)
Update(s) ==
    IF Len(updateArmyChan) < Cap
    THEN updateArmyChan' = Append(updateArmyChan, s) /\ UNCHANGED stuck
    ELSE stuck' = TRUE /\ UNCHANGED updateArmyChan

(* trigger: the attacker fights the enemies in turn; having lost its men to *)
(* one it loses to the rest.  One that is beaten marches back, and the      *)
(* place is cleared of everybody who stood there.                           *)
Results(n) ==
    {res \in [1..n -> {"lost", "drawn", "won"}] :
        \A i, j \in 1..n : i < j /\ res[i] = "lost" => res[j] = "lost"}

Beaten(enemies, res) == {i \in DOMAIN enemies : res[i] = "won"}

(* The rows once the copies in a list have been written one after the other.*)
Written(copies, list) ==
    [a \in Armies |->
        LET mine == {i \in DOMAIN list : copies[list[i]].army = a}
        IN  IF mine = {} THEN rows[a] ELSE RowOf(copies[list[Max(mine)]])]

Fights(s, copies, enemies, res, e) ==
    LET m == AllBack([Marches EXCEPT !.copies = copies], enemies, Beaten(enemies, res), e)
        p == orders[s].to
    IN
    /\ e \in Future
    /\ endTimeArmys' = m.filed /\ checking' = m.walk
    /\ stopInPosArmys' = IF Beaten(enemies, res) = {} THEN stopInPosArmys
                         ELSE [stopInPosArmys EXCEPT ![p] = {}]
    /\ rows' = Written(m.copies, Append(enemies, s))
    /\ Update(s)
    /\ Keep(m.copies)

(* A mutated form of the next definition: a drawn battle is won.            *)
WonOrDrawn(n, res) == n > 0 => res[n] # "lost"

Won(n, res) == n > 0 => res[n] = "won"

(* executeBuild appends the last of the garrison once more; against an      *)
(* empty place the enemies are bandits, whose fight may end anyhow.  Beaten *)
(* walls or a role at its land limit leave the land where it is.            *)
Garrison(p) ==
    LET posArmys == SetToSeq(stopInPosArmys[p]) IN
    IF posArmys = <<>> THEN <<>> ELSE Append(posArmys, Last(posArmys))

ArriveAtLand(s, e) ==
    LET p == orders[s].to
        enemies == Garrison(p)
    IN
    /\ Takes(s, {"attack"})
    /\ p \in Lands /\ ~IsCanDefend(p, OwnerOf[orders[s].army])
    /\ \E res \in Results(Len(enemies)) :
        /\ \/ /\ Won(Len(enemies), res)
              /\ owner' = [owner EXCEPT ![p] = OwnerOf[orders[s].army]]
              /\ forts' = forts \ {p}
           \/ UNCHANGED <<owner, forts>>
        /\ UNCHANGED parent
        /\ Fights(s, orders, enemies, res, e)

(* All armies of the city, wherever they are, and those that stand in it.   *)
ArriveAtCity(s, e) ==
    LET p == orders[s].to
        home == SetToSeq({a \in Armies : OwnerOf[a] = Holder(p)})
        spare == SetToSeq(FreeSlots)
        called == [i \in 1..Len(home) |-> spare[i]]
        enemies == SetToSeq(stopInPosArmys[p]) \o called
        copies == [x \in Slots |-> IF x \in ToSet(called)
                                   THEN CopyOf(home[CHOOSE i \in DOMAIN called : called[i] = x])
                                   ELSE orders[x]]
    IN
    /\ Takes(s, {"attack"})
    /\ p \in Cities /\ ~IsCanDefend(p, OwnerOf[orders[s].army])
    /\ Len(home) <= Len(spare)
    /\ \E res \in Results(Len(enemies)) :
        /\ \/ /\ Won(Len(enemies), res)
              /\ parent' = [parent EXCEPT ![Holder(p)] = UnionOf[OwnerOf[orders[s].army]]]
           \/ UNCHANGED parent
        /\ UNCHANGED <<owner, forts>>
        /\ Fights(s, copies, enemies, res, e)

(* The place is a friend's by now, or in its war-free time.                 *)
ArriveInPeace(s) ==
    /\ Takes(s, {"attack"})
    /\ Update(s)
    /\ UNCHANGED <<owner, forts, parent, rows, endTimeArmys, checking, stopInPosArmys>>
    /\ Keep(orders)

(* Back: ToX becomes FromX, ToY stays.  Nobody reads To of an idle army.    *)
ArriveBack(s) ==
    /\ Takes(s, {"back"})
    /\ Update(s)
    /\ UNCHANGED <<owner, forts, parent, rows, endTimeArmys, checking, stopInPosArmys>>
    /\ Keep([orders EXCEPT ![s] = [@ EXCEPT !.cmd = "idle", !.to = orders[s].from]])

addStopArmy(p, s, o) ==
    stopInPosArmys' = [stopInPosArmys EXCEPT ![p] =
        {x \in @ : orders[x].army # o.army} \cup {s}]

TurnsBack(s, e) ==
    LET m == ArmyBack(Marches, s, e) IN
    /\ e \in Future
    /\ endTimeArmys' = m.filed /\ checking' = m.walk
    /\ UNCHANGED <<rows, updateArmyChan, stopInPosArmys, stuck>>
    /\ Keep(m.copies)

ArriveDefend(s, e) ==
    /\ Takes(s, {"defend"})
    /\ UNCHANGED <<owner, forts, parent>>
    /\ LET o == orders[s] IN
       IF IsCanDefend(o.to, OwnerOf[o.army])
       THEN /\ addStopArmy(o.to, s, o)
            /\ Update(s)
            /\ UNCHANGED <<rows, endTimeArmys, checking>>
            /\ Keep(orders)
       ELSE TurnsBack(s, e)

(* An order that is delivered once more after its transfer is idle by then. *)
ArriveTransfer(s, e) ==
    /\ Takes(s, {"transfer", "idle"})
    /\ UNCHANGED <<owner, forts, parent>>
    /\ LET o == orders[s] IN
       IF o.cmd = "idle"
       THEN /\ UNCHANGED <<rows, updateArmyChan, endTimeArmys, checking, stopInPosArmys, stuck>>
            /\ Keep(orders)
       ELSE IF o.to \in forts /\ owner[o.to] = OwnerOf[o.army]
       THEN /\ addStopArmy(o.to, s, o)
            /\ Update(s)
            /\ UNCHANGED <<rows, endTimeArmys, checking>>
            /\ Keep([orders EXCEPT ![s] = [@ EXCEPT !.cmd = "idle", !.from = o.to]])
       ELSE TurnsBack(s, e)

-----------------------------------------------------------------------------
(* running: an army is written back; a place was given up.                  *)

exeUpdate ==
    /\ ~stuck /\ updateArmyChan # <<>>
    /\ LET s == Head(updateArmyChan)
           o == orders[s]
       IN
       /\ updateArmyChan' = Tail(updateArmyChan)
       /\ rows' = [rows EXCEPT ![o.army] = RowOf(o)]
       /\ stopInPosArmys' = IF o.cmd # "back" THEN stopInPosArmys
              ELSE [stopInPosArmys EXCEPT ![o.to] = {x \in @ : orders[x].army # o.army}]
       /\ UNCHANGED <<landVars, endTimeArmys, checking, arriveArmyChan, giveUpIdChan,
                      assigns, stuck>>
       /\ Keep(orders)

(* A mutated form of the next definition; no action uses it.                *)
GiveUpPosIdForgets(e) ==
    /\ ~stuck /\ giveUpIdChan # <<>> /\ e \in Future
    /\ giveUpIdChan' = Tail(giveUpIdChan)
    /\ UNCHANGED <<landVars, rows, arriveArmyChan, updateArmyChan, assigns, stuck,
                   endTimeArmys, checking, stopInPosArmys, orders>>

GiveUpPosId(e) ==
    /\ ~stuck /\ giveUpIdChan # <<>> /\ e \in Future
    /\ LET p == Head(giveUpIdChan)
           list == SetToSeq(stopInPosArmys[p])
           m == AllBack(Marches, list, DOMAIN list, e)
       IN
       /\ giveUpIdChan' = Tail(giveUpIdChan)
       /\ endTimeArmys' = m.filed /\ checking' = m.walk
       /\ stopInPosArmys' = [stopInPosArmys EXCEPT ![p] = {}]
       /\ UNCHANGED <<landVars, rows, arriveArmyChan, updateArmyChan, assigns, stuck>>
       /\ Keep(m.copies)

-----------------------------------------------------------------------------
(* What the lands do meanwhile (Land has them in full): a role builds a     *)
(* fortress; checkGiveUp removes a land and reports it after that.          *)

landOnly == <<parent, rows, orders, endTimeArmys, checking, arriveArmyChan, updateArmyChan,
              stopInPosArmys, assigns, stuck>>

BuildFort(p) ==
    /\ owner[p] # NoRole /\ p \notin forts
    /\ forts' = forts \cup {p}
    /\ UNCHANGED <<owner, leaving, giveUpIdChan, landOnly>>

(* A mutated form of the next definition; no action uses it.                *)
RemoveUnreported(p) ==
    /\ owner[p] # NoRole
    /\ owner' = [owner EXCEPT ![p] = NoRole]
    /\ forts' = forts \ {p}
    /\ UNCHANGED <<leaving, giveUpIdChan, landOnly>>

(* A land is lost to give-up half a minute after it was won at the          *)
(* earliest, when the last report of it has long been served.               *)
RemoveFromRole(p) ==
    /\ owner[p] # NoRole /\ p \notin leaving \cup ToSet(giveUpIdChan)
    /\ owner' = [owner EXCEPT ![p] = NoRole]
    /\ forts' = forts \ {p}
    /\ leaving' = leaving \cup {p}
    /\ UNCHANGED <<giveUpIdChan, landOnly>>

GiveUp(p) ==
    /\ p \in leaving /\ Len(giveUpIdChan) < Cap
    /\ leaving' = leaving \ {p}
    /\ giveUpIdChan' = Append(giveUpIdChan, p)
    /\ UNCHANGED <<owner, forts, landOnly>>

(* Nothing of the marches and the garrisons is loaded again.                *)
Restart ==
    /\ rows' = [a \in Armies |-> [rows[a] EXCEPT !.end = 0]]
    /\ orders' = [s \in Slots |-> Blank]
    /\ endTimeArmys' = [e \in Seconds |-> <<>>] /\ checking' = NotChecking
    /\ arriveArmyChan' = <<>> /\ updateArmyChan' = <<>> /\ giveUpIdChan' = <<>>
    /\ stopInPosArmys' = [p \in Places |-> {}]
    /\ leaving' = {} /\ stuck' = FALSE
    /\ UNCHANGED <<owner, forts, parent, assigns>>

Players ==
    \E a \in Armies, e \in Seconds :
        \/ \E p \in Targets : Attack(a, p, e) \/ Defend(a, p, e) \/ Transfer(a, p, e)
        \/ Recall(a, e)

Check == Arrive \/ EndSecond \/ \E e \in Seconds : StartSecond(e)

exeArrive ==
    \E s \in Slots :
        \/ ArriveInPeace(s) \/ ArriveBack(s)
        \/ \E e \in Seconds :
              ArriveAtLand(s, e) \/ ArriveAtCity(s, e) \/ ArriveDefend(s, e) \/ ArriveTransfer(s, e)

Next ==
    \/ Players
    \/ Check
    \/ exeArrive \/ exeUpdate
    \/ \E e \in Seconds : GiveUpPosId(e)
    \/ \E p \in Lands : BuildFort(p) \/ RemoveFromRole(p) \/ GiveUp(p)
    \/ Restart

(* The select of running takes each of its channels in the end, and         *)
(* checkGiveUp goes on; nothing is assumed of players.                      *)
Fairness ==
    /\ WF_vars(exeArrive) /\ WF_vars(exeUpdate)
    /\ WF_vars(\E e \in Seconds : GiveUpPosId(e))
    /\ \A p \in Lands : WF_vars(GiveUp(p))

Spec == Init /\ [][Next]_vars /\ Fairness

-----------------------------------------------------------------------------
TypeOK ==
    /\ owner \in [Lands -> Roles \cup {NoRole}] /\ forts \subseteq Lands
    /\ parent \in [Roles -> Nat]
    /\ rows \in [Armies -> Row]
    /\ orders \in [Slots -> {Blank} \cup
            [army : Armies, cmd : Cmds, from : Places, to : Places, end : Seconds \cup {0}]]
    /\ \A s \in Referenced : orders[s] # Blank
    /\ endTimeArmys \in [Seconds -> Seq(Slots)]
    /\ checking.second \in Seconds \cup {0} /\ checking.array \in Seq(Slots)
    /\ arriveArmyChan \in Seq(Slots) /\ updateArmyChan \in Seq(Slots)
    /\ giveUpIdChan \in Seq(Lands)
    /\ stopInPosArmys \in [Places -> SUBSET Slots]
    /\ leaving \subseteq Lands /\ assigns \in 0..MaxAssigns /\ stuck \in BOOLEAN

(* Nobody stands on a land that went back to the system, unless the report  *)
(* that sends them home is on its way (roleBuild.go:272).                   *)
SystemLandIsLeft ==
    \A p \in Lands :
        owner[p] = NoRole /\ stopInPosArmys[p] # {} =>
            p \in leaving \cup ToSet(giveUpIdChan)

(* Who conquers a land finds nobody left on it.                             *)
ConquestClearsLand ==
    [][\A p \in Lands :
          owner'[p] # owner[p] /\ owner'[p] # NoRole => stopInPosArmys'[p] = {}]_vars

(* The armies on a land that was given up are sent home in the end.         *)
GivenUpIsLeft ==
    \A p \in Lands : p \in leaving \cup ToSet(giveUpIdChan) ~> stopInPosArmys[p] = {}

(* What is filed arrives: an order leaves the list of its second for the    *)
(* channel of arrivals, for another march of the same army (ArmyBack clears *)
(* the earlier one), or with the process (controller/army.go:515: a         *)
(* listener watches whether an army has moved and has reached its place).   *)
MarchesArrive ==
    [][\A s \in Slots :
          Marching(s) =>
              \/ Marching(s)' \/ s \in ToSet(arriveArmyChan')
              \/ \E t \in Slots : Marching(t)' /\ orders'[t].army = orders[s].army
              \/ Restart]_vars
==============================================================================
