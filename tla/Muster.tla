------------------------------- MODULE Muster -------------------------------
(***************************************************************************)
(* The armies of one city as rows: which generals they have, the soldiers  *)
(* conscripted for them, and what marches and battles write back (the      *)
(* dispose and conscript handlers, armyService's readers, CheckConscript   *)
(* and PositionCanModify of Army, and the writers of both tables).         *)
(*                                                                         *)
(* Everybody works on a copy of a row: a handler between its read and its  *)
(* write, a march from its order to its arrival.  Copies are queued whole, *)
(* so that a later write restores what an earlier one had changed.  Where  *)
(* a march goes is the business of module Army; here it is a copy that     *)
(* comes back with fewer soldiers.                                         *)
(*                                                                         *)
(* The queries name the column a_order and the struct's tag says order;    *)
(* the schema is not part of the repository, and they are taken to be one. *)
(***************************************************************************)
EXTENDS Integers, SequencesExt

CONSTANTS
    Conns,          \* connections that act for the role
    Armies,         \* orders of the city's armies
    Positions,      \* 1..3 in the code, as 0..2
    Generals, None, \* general ids; 0, no general
    CfgOf,          \* general -> the id of its entry in general.json
    CapOf,          \* general -> soldiers at its level, with the facilities'
    Cost, CityCost, \* general -> cost; what the city bears
    JiaoChang,      \* level of the facility that limits the order
    TongShuaiTing,  \* level of the facility that opens the last position
    Counts,         \* soldiers asked for in one position
    MaxRequests,    \* bound: requests and battles
    MaxMarches      \* bound: armies on the march

ASSUME MusterAssumption ==
    /\ Armies \subseteq Nat /\ Positions \subseteq Nat /\ IsFiniteSet(Positions)
    /\ None \notin Generals
    /\ {CapOf, Cost} \subseteq [Generals -> Nat]
    /\ {CityCost, JiaoChang, TongShuaiTing, MaxRequests, MaxMarches} \subseteq Nat
    /\ Counts \subseteq Nat

VARIABLES
    rows,       \* army -> its row in tb_army_1, for those that were created
    posted,     \* general -> its row says CityId # 0
    armyChan,   \* copies of armies waiting to be written
    genChan,    \* general rows waiting to be written
    handler,    \* what each connection's handler has read, and its next step
    marches,    \* the copies in the hands of the goroutine of the armies
    past,       \* conscriptions whose time has passed
    paid,       \* history: soldiers paid for, by army and position
    requests

vars == <<rows, posted, armyChan, genChan, handler, marches, past, paid, requests>>

Off  == -1
Idle == [at |-> "idle"]

Empty ==
    [gens     |-> [p \in Positions |-> None],
     soldiers |-> [p \in Positions |-> 0],
     cnt      |-> [p \in Positions |-> 0],
     time     |-> [p \in Positions |-> 0],
     cmd      |-> "idle"]

(* A city without armies, or with one of a general taken in earlier.        *)
Standing ==
    {[b \in {a} |-> [Empty EXCEPT !.gens[p] = g]] :
        a \in Armies, p \in Positions, g \in Generals}

Init ==
    /\ rows \in {<<>>} \cup Standing
    /\ posted = [g \in Generals |->
                    \E a \in DOMAIN rows : \E p \in Positions : rows[a].gens[p] = g]
    /\ armyChan = <<>> /\ genChan = <<>>
    /\ handler = [c \in Conns |-> Idle]
    /\ marches = <<>> /\ past = {}
    /\ paid = [a \in Armies |-> [p \in Positions |-> 0]]
    /\ requests = 0

-----------------------------------------------------------------------------
(* A row as it is read: armyService's readers pass it through               *)
(* CheckConscript and load its generals.                                    *)

(* ConscriptTimeArray holds the request a position waits for, 0 for none;   *)
(* a conscription of nobody ends before it begins, which nobody can tell    *)
(* from none.                                                               *)
Due(row) == {p \in Positions : row.time[p] = 0 \/ <<row.time[p], p>> \in past}

(* A mutated form of the next definition; no action uses it.                *)
CheckConscriptKeepsCnt(row) ==
    IF row.cmd # "conscript" THEN row
    ELSE [row EXCEPT
            !.soldiers = [p \in Positions |-> @[p] + IF p \in Due(row) THEN row.cnt[p] ELSE 0],
            !.time     = [p \in Positions |-> IF p \in Due(row) THEN 0 ELSE @[p]],
            !.cmd      = IF Due(row) = Positions THEN "idle" ELSE @]

CheckConscript(row) ==
    IF row.cmd # "conscript" THEN row
    ELSE [row EXCEPT
            !.soldiers = [p \in Positions |-> @[p] + IF p \in Due(row) THEN row.cnt[p] ELSE 0],
            !.cnt      = [p \in Positions |-> IF p \in Due(row) THEN 0 ELSE @[p]],
            !.time     = [p \in Positions |-> IF p \in Due(row) THEN 0 ELSE @[p]],
            !.cmd      = IF Due(row) = Positions THEN "idle" ELSE @]

Get(a) == [row |-> CheckConscript(rows[a]), seen |-> posted]

PositionCanModify(row, p) ==
    \/ row.cmd = "idle"
    \/ row.cmd = "conscript" /\ row.time[p] = 0

Posts(row)  == {p \in Positions : row.gens[p] # None}
IsRepeat(g) == \E a \in DOMAIN rows : \E p \in Positions : rows[a].gens[p] = CfgOf[g]

(* SyncExecute queues a copy, whole.                                        *)
Save(a, row) == armyChan' = Append(armyChan, [army |-> a, row |-> row])

(* The generals of an army, as they were when the copy was made.            *)
GeneralsOf(copy) ==
    SetToSeq({[general |-> copy.row.gens[p], posted |-> copy.seen[copy.row.gens[p]]] :
                 p \in Posts(copy.row)})

Begins(c)     == handler[c].at = "idle" /\ requests < MaxRequests /\ requests' = requests + 1
Goes(c, next) == handler' = [handler EXCEPT ![c] = next]

-----------------------------------------------------------------------------
(* dispose: a general takes a position or, with Off, leaves the army.       *)

MayLeave(row, g) == \A p \in Positions : row.gens[p] = g => PositionCanModify(row, p)

MayTake(a, row, g, p) ==
    /\ PositionCanModify(row, p)
    /\ ~posted[g] /\ ~IsRepeat(g)
    /\ p = Max(Positions) => TongShuaiTing >= a
    /\ MapThenSumSet(LAMBDA q : Cost[row.gens[q]], Posts(row)) + Cost[g] <= CityCost

(* The army is inserted the first time, whether or not the request is       *)
(* refused later.                                                           *)
GetCreate(a) ==
    rows' = [b \in {a} \cup DOMAIN rows |-> IF b \in DOMAIN rows THEN rows[b] ELSE Empty]

ReadForDispose(c, a, g, p) ==
    LET copy == IF a \in DOMAIN rows THEN Get(a) ELSE [row |-> Empty, seen |-> posted] IN
    /\ Begins(c)
    /\ a <= JiaoChang
    /\ GetCreate(a)
    /\ IF IF p = Off THEN MayLeave(copy.row, g) ELSE MayTake(a, copy.row, g, p)
       THEN Goes(c, [at |-> "dispose", army |-> a, gen |-> g, pos |-> p, copy |-> copy])
       ELSE UNCHANGED handler
    /\ UNCHANGED <<posted, armyChan, genChan, marches, past, paid>>

(* A mutated form of the next definition; no action uses it.                *)
StationsKeepsSoldiers(row, p, g) == [row EXCEPT !.gens[p] = g]

Stations(row, p, g) == [row EXCEPT !.gens[p] = g, !.soldiers[p] = 0]

Without(row, g) ==
    LET held == {p \in Positions : row.gens[p] = g} IN
    [row EXCEPT !.gens     = [p \in Positions |-> IF p \in held THEN None ELSE @[p]],
                !.soldiers = [p \in Positions |-> IF p \in held THEN 0 ELSE @[p]]]

(* The general's own row is cleared even when the army does not hold it.    *)
Dispose(c) ==
    LET h == handler[c]
        row == h.copy.row
        news == [general |-> h.gen, posted |-> h.pos # Off]
        replaced == IF h.pos = Off \/ row.gens[h.pos] = None THEN <<>>
                    ELSE <<[general |-> row.gens[h.pos], posted |-> FALSE]>>
    IN
    /\ h.at = "dispose"
    /\ genChan' = genChan \o replaced \o <<news>>
    /\ Save(h.army, IF h.pos = Off THEN Without(row, h.gen) ELSE Stations(row, h.pos, h.gen))
    /\ Goes(c, Idle)
    /\ UNCHANGED <<rows, posted, marches, past, paid, requests>>

-----------------------------------------------------------------------------
(* conscript.                                                               *)

(* An order for nobody is not checked against what is under way.            *)
MayConscript(row, cnts) ==
    /\ \A p \in Positions : cnts[p] > 0 => row.gens[p] # None /\ PositionCanModify(row, p)
    /\ \A p \in Posts(row) : cnts[p] + row.soldiers[p] <= CapOf[row.gens[p]]

ReadForConscript(c, a, cnts) ==
    /\ Begins(c)
    /\ a \in DOMAIN rows
    /\ MayConscript(Get(a).row, cnts)
    /\ Goes(c, [at |-> "conscript", army |-> a, cnts |-> cnts, row |-> Get(a).row, stamp |-> requests'])
    /\ UNCHANGED <<rows, posted, armyChan, genChan, marches, past, paid>>

(* Every position with a general gets the new count and time, also those    *)
(* that had none asked for and were waiting for soldiers already.           *)
Enlists(row, cnts, stamp) ==
    [row EXCEPT
        !.cnt  = [p \in Positions |-> IF p \in Posts(row) THEN cnts[p] ELSE @[p]],
        !.time = [p \in Positions |->
                    IF p \notin Posts(row) THEN @[p] ELSE IF cnts[p] = 0 THEN 0 ELSE stamp],
        !.cmd  = "conscript"]

Conscript(c) ==
    LET h == handler[c] IN
    /\ h.at = "conscript"
    /\ Save(h.army, Enlists(h.row, h.cnts, h.stamp))
    /\ paid' = [paid EXCEPT ![h.army] = [p \in Positions |-> @[p] + h.cnts[p]]]
    /\ Goes(c, Idle)
    /\ UNCHANGED <<rows, posted, genChan, marches, past, requests>>

ResourcesMissing(c) ==
    /\ handler[c].at = "conscript"
    /\ Goes(c, Idle)
    /\ UNCHANGED <<rows, posted, armyChan, genChan, marches, past, paid, requests>>

(* A row with a conscription under way; of others the time does not matter. *)
Waiting(p) == {rows[a].time[p] : a \in DOMAIN rows}

TimePasses ==
    \E p \in Positions : \E stamp \in Waiting(p) \ {0} :
        /\ <<stamp, p>> \notin past
        /\ past' = past \cup {<<stamp, p>>}
        /\ UNCHANGED <<rows, posted, armyChan, genChan, handler, marches, paid, requests>>

-----------------------------------------------------------------------------
(* Marches.  An order reads the row and leaves it as it is; generals are    *)
(* written when they pay with their strength and after every battle.        *)

March(a, cmd, copy) == [army |-> a, copy |-> [copy EXCEPT !.row.cmd = cmd]]

IsCanOutWar(row) == row.cmd = "idle"

Ordered == requests < MaxRequests /\ requests' = requests + 1 /\ Len(marches) < MaxMarches

SendOut(a) ==
    /\ Ordered /\ a \in DOMAIN rows
    /\ IsCanOutWar(Get(a).row)
    /\ genChan' = genChan \o GeneralsOf(Get(a))
    /\ marches' = Append(marches, March(a, "attack", Get(a)))
    /\ UNCHANGED <<rows, posted, armyChan, handler, past, paid>>

CallBack(a) ==
    /\ Ordered /\ a \in DOMAIN rows
    /\ Get(a).row.cmd = "attack"
    /\ marches' = Append(marches, March(a, "back", Get(a)))
    /\ UNCHANGED <<rows, posted, armyChan, genChan, handler, past, paid>>

Others(i) == SubSeq(marches, 1, i - 1) \o SubSeq(marches, i + 1, Len(marches))

(* A mutated form of the next definition; no action uses it.                *)
FewerThanNone(row) ==
    {[row EXCEPT !.soldiers = left] : left \in
        {s \in [Positions -> UNION {-1..row.soldiers[p] : p \in Positions}] :
            \A p \in Positions : s[p] <= row.soldiers[p]}}

Fewer(row) ==
    {[row EXCEPT !.soldiers = left] : left \in
        {s \in [Positions -> UNION {0..row.soldiers[p] : p \in Positions}] :
            \A p \in Positions : s[p] <= row.soldiers[p]}}

Fights(i) ==
    LET m == marches[i] IN
    /\ m.copy.row.cmd = "attack"
    /\ \E row \in Fewer(m.copy.row) : Save(m.army, row)
    /\ genChan' = genChan \o GeneralsOf(m.copy)
    /\ marches' = Others(i)
    /\ UNCHANGED <<rows, posted, handler, past, paid, requests>>

ComesHome(i) ==
    LET m == marches[i] IN
    /\ m.copy.row.cmd = "back"
    /\ Save(m.army, [m.copy.row EXCEPT !.cmd = "idle"])
    /\ marches' = Others(i)
    /\ UNCHANGED <<rows, posted, genChan, handler, past, paid, requests>>

(* The city is attacked: GetArmyByCid lets every army of the city fight,    *)
(* whatever it is doing; one that is beaten is sent back as it stands.      *)
Defends(a) ==
    /\ Ordered /\ a \in DOMAIN rows
    /\ genChan' = genChan \o GeneralsOf(Get(a))
    /\ \E row \in Fewer(Get(a).row) :
          \/ Save(a, row) /\ UNCHANGED marches
          \/ /\ Save(a, [row EXCEPT !.cmd = "back"])
             /\ marches' = Append(marches, March(a, "back", [Get(a) EXCEPT !.row = row]))
    /\ UNCHANGED <<rows, posted, handler, past, paid>>

-----------------------------------------------------------------------------
(* The writers.                                                             *)

WriteArmy ==
    /\ armyChan # <<>>
    /\ rows' = [rows EXCEPT ![Head(armyChan).army] = Head(armyChan).row]
    /\ armyChan' = Tail(armyChan)
    /\ UNCHANGED <<posted, genChan, handler, marches, past, paid, requests>>

WriteGeneral ==
    /\ genChan # <<>>
    /\ posted' = [posted EXCEPT ![Head(genChan).general] = Head(genChan).posted]
    /\ genChan' = Tail(genChan)
    /\ UNCHANGED <<rows, armyChan, handler, marches, past, paid, requests>>

Handler(c) ==
    \/ \E a \in Armies, g \in Generals, p \in Positions \cup {Off} : ReadForDispose(c, a, g, p)
    \/ Dispose(c)
    \/ \E a \in Armies, cnts \in [Positions -> Counts] : ReadForConscript(c, a, cnts)
    \/ Conscript(c)
    \/ ResourcesMissing(c)

Next ==
    \/ \E c \in Conns : Handler(c)
    \/ \E a \in Armies : SendOut(a) \/ CallBack(a) \/ Defends(a)
    \/ \E i \in DOMAIN marches : Fights(i) \/ ComesHome(i)
    \/ TimePasses
    \/ WriteArmy
    \/ WriteGeneral

Spec == Init /\ [][Next]_vars

-----------------------------------------------------------------------------
(* Properties.                                                              *)

Copies(a) ==
    (IF a \in DOMAIN rows THEN {rows[a], Get(a).row} ELSE {})
    \cup {armyChan[i].row : i \in {j \in DOMAIN armyChan : armyChan[j].army = a}}
    \cup {marches[i].copy.row : i \in {j \in DOMAIN marches : marches[j].army = a}}
    \cup {handler[c].copy.row : c \in {d \in Conns : handler[d].at = "dispose" /\ handler[d].army = a}}
    \cup {handler[c].row : c \in {d \in Conns : handler[d].at = "conscript" /\ handler[d].army = a}}

Rows ==
    [gens : [Positions -> Generals \cup {None}], soldiers : [Positions -> Nat],
     cnt : [Positions -> Nat], time : [Positions -> 0..MaxRequests],
     cmd : {"idle", "conscript", "attack", "back"}]

(* The state has its shape; in particular no copy of an army holds less     *)
(* than no soldiers in a position.                                          *)
TypeOK ==
    /\ DOMAIN rows \subseteq Armies
    /\ \A a \in Armies : Copies(a) \subseteq Rows
    /\ posted \in [Generals -> BOOLEAN]
    /\ \A i \in DOMAIN genChan : genChan[i] \in [general : Generals, posted : BOOLEAN]
    /\ Len(marches) <= MaxMarches
    /\ past \subseteq (1..MaxRequests) \X Positions
    /\ paid \in [Armies -> [Positions -> Nat]] /\ requests \in 0..MaxRequests

(* No position of an army ever has, or waits for, more soldiers than were   *)
(* paid for there, in no row, queue, march or handler: reading a due        *)
(* conscription twice, writing an old copy over a new one or a battle in    *)
(* the middle of it conscripts nobody (CheckConscript, conscript).          *)
NoUnpaidSoldiers ==
    \A a \in Armies : \A row \in Copies(a) : \A p \in Positions :
        row.soldiers[p] + row.cnt[p] <= paid[a][p]

(* No general leads more soldiers than it can, in no copy of its army, also *)
(* when it took over from a stronger one, and when a conscription was cut   *)
(* short by a battle and its counts are still in the row.                   *)
WithinCap ==
    \A a \in Armies : \A row \in Copies(a) : \A p \in Posts(row) :
        row.soldiers[p] + (IF row.cmd = "conscript" THEN row.cnt[p] ELSE 0) <= CapOf[row.gens[p]]
==============================================================================
