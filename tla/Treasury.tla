------------------------------ MODULE Treasury ------------------------------
(***************************************************************************)
(* What one role owns and what it buys: the row of tb_role_res_1, the copy *)
(* roleResService keeps of it in memory, the queue rrChan between them and *)
(* the facilities and generals bought from it (roleResService,             *)
(* cityFacilityService, and the upFacility, collect, transform,            *)
(* drawGeneral and myGenerals handlers).                                   *)
(*                                                                         *)
(* Every handler works on a copy it read from the database, changes it and *)
(* queues the whole copy; produce and TryUseDecree instead queue the       *)
(* pointer to the row loaded at the start, which no handler ever changes.  *)
(* Two connections may act for the role: a second login leaves the first   *)
(* connection open.  Wood stands for the four goods facilities are paid    *)
(* in.  Decrees live in the cache alone and no property reads them.        *)
(***************************************************************************)
EXTENDS Integers, Sequences, FiniteSetsExt

CONSTANTS
    Conns,          \* connections that act for the role
    Types,          \* types of facilities
    Adds,           \* type -> what its level adds to, one of Kinds
    MaxLevel,       \* number of levels the file of a facility lists
    NeedWood,       \* level -> wood its entry asks for
    DrawCost,       \* gold for one general
    Limit,          \* gameConfig.Base.General.Limit
    Firsts,         \* generals a role without any is given: 3 in the code
    BaseYield,      \* kind -> yield or capacity of basic.json
    StartGold, StartWood,
    Trades,         \* what a transform may add to the wood
    QueueCap,       \* capacity of rrChan: 100 in the code
    MaxOps,         \* bound: requests and productions
    MaxRestarts     \* bound: restarts

Kinds == {"gold", "wood", "capacity", "market"}

ASSUME TreasuryAssumption ==
    /\ IsFiniteSet(Types)
    /\ Adds \in [Types -> Kinds] /\ BaseYield \in [Kinds -> Nat]
    /\ MaxLevel \in Nat /\ NeedWood \in [1..MaxLevel -> Nat]
    /\ {DrawCost, Limit, Firsts, StartGold, StartWood, QueueCap, MaxOps, MaxRestarts} \subseteq Nat
    /\ Trades \subseteq Int

VARIABLES
    row,        \* the stored balance
    cache,      \* rolesRes[rid]: as loaded, and what produce has added
    known,      \* the role existed when the cache was loaded
    rrChan,     \* balances waiting to be written
    fac,        \* the stored facilities
    cfHeld,     \* what the writer of facilities has received: at most one list
    generals,   \* rows of tb_general_1
    handler,    \* what each connection's handler has read, and its next step
    stamps,     \* history: paid upgrades of each type; the last one's UpTime
    elapsed,    \* upgrades whose time has passed
    balance,    \* history: the wood there ought to be
    ops, restarts

money   == <<row, cache, known, rrChan>>
history == <<stamps, balance>>
vars    == <<money, fac, cfHeld, generals, handler, history, elapsed, ops, restarts>>

Idle    == [at |-> "idle"]
Holding == {c \in Conns : "res" \in DOMAIN handler[c]}
Listing == {c \in Conns : "list" \in DOMAIN handler[c]}

(* rrChan carries copies of a balance and the pointer to the cached one.    *)
Copy(res) == [res |-> res, cached |-> FALSE]
Pointer   == [res |-> [gold |-> 0, wood |-> 0], cached |-> TRUE]

Init ==
    /\ row = [gold |-> StartGold, wood |-> StartWood]
    /\ cache = row /\ known \in BOOLEAN
    /\ rrChan = <<>> /\ cfHeld = {}
    /\ fac = [t \in Types |-> [level |-> 0, up |-> 0]]
    /\ generals = 0
    /\ handler = [c \in Conns |-> Idle]
    /\ stamps = [t \in Types |-> 0] /\ elapsed = {}
    /\ balance = StartWood
    /\ ops = 0 /\ restarts = 0

At(c, step)   == handler[c].at = step
Goes(c, next) == handler' = [handler EXCEPT ![c] = next]
Begins(c)     == At(c, "idle") /\ ops < MaxOps /\ ops' = ops + 1
Queue(entry)  == Len(rrChan) < QueueCap /\ rrChan' = Append(rrChan, entry)

-----------------------------------------------------------------------------
(* Facilities.                                                              *)

(* GetLevel completes an upgrade when it is asked after its time.           *)
Settle(t, f) ==
    IF <<t, f.up>> \in elapsed THEN [level |-> f.level + 1, up |-> 0] ELSE f

Level(t) == Settle(t, fac[t]).level

Yield(kind) == BaseYield[kind] + MapThenSumSet(Level, {t \in Types : Adds[t] = kind})

(* The list of levels starts at 0: the entry of level l is the next one's.  *)
Need(l) == NeedWood[l + 1]

(* At the last level but one Need reads past the list: the handler panics   *)
(* and its connection is closed, with nothing changed.                      *)
ReadFacilities(c, t) ==
    LET f == Settle(t, fac[t]) IN
    /\ Begins(c)
    /\ f.up = 0
    /\ f.level < MaxLevel /\ f.level + 1 < MaxLevel
    /\ Goes(c, [at |-> "need", type |-> t, list |-> [fac EXCEPT ![t] = f]])
    /\ UNCHANGED <<money, fac, cfHeld, generals, history, elapsed, restarts>>

(* A type the list lacks: nothing is paid, and the list is written back.    *)
ReadForUnknownType(c) ==
    /\ Begins(c)
    /\ Goes(c, [at |-> "store", list |-> fac])
    /\ UNCHANGED <<money, fac, cfHeld, generals, history, elapsed, restarts>>

(* Mutated forms of the definitions below; no action uses them.             *)
EnoughOnTrust(gold, wood) == wood <= row.wood
RefusedStarts(c, price) ==
    IF price <= row.wood
    THEN [at |-> "pay", type |-> handler[c].type, list |-> handler[c].list, res |-> row]
    ELSE [at |-> "store", list |-> [handler[c].list EXCEPT ![handler[c].type].up =
                                        stamps[handler[c].type] + 1]]

Enough(gold, wood) == gold <= row.gold /\ wood <= row.wood

PriceOf(c) == Need(handler[c].list[handler[c].type].level + 1)

Refusable(c, price) ==
    IF Enough(0, price)
    THEN [at |-> "pay", type |-> handler[c].type, list |-> handler[c].list, res |-> row]
    ELSE Idle

ReadForNeed(c) ==
    /\ At(c, "need")
    /\ Goes(c, Refusable(c, PriceOf(c)))
    /\ UNCHANGED <<money, fac, cfHeld, generals, history, elapsed, ops, restarts>>

PayNeed(c) ==
    LET t == handler[c].type
        stamp == stamps[t] + 1
    IN
    /\ At(c, "pay")
    /\ Queue(Copy([handler[c].res EXCEPT !.wood = @ - PriceOf(c)]))
    /\ stamps' = [stamps EXCEPT ![t] = stamp]
    /\ balance' = balance - PriceOf(c)
    /\ Goes(c, [at |-> "store", list |-> [handler[c].list EXCEPT ![t].up = stamp]])
    /\ UNCHANGED <<row, cache, known, fac, cfHeld, generals, elapsed, ops, restarts>>

(* cfChan has no buffer: the handler waits until the writer takes the list. *)
StoreFacilities(c) ==
    /\ At(c, "store") /\ cfHeld = {}
    /\ cfHeld' = {handler[c].list}
    /\ Goes(c, Idle)
    /\ UNCHANGED <<money, fac, generals, history, elapsed, ops, restarts>>

WriteFacilities ==
    \E list \in cfHeld :
        /\ fac' = list /\ cfHeld' = {}
        /\ UNCHANGED <<money, generals, handler, history, elapsed, ops, restarts>>

(* UpTime is a second of the clock, so an upgrade's time passes once for    *)
(* all copies of it.                                                        *)
TimePasses(t) ==
    \E stamp \in 1..stamps[t] :
        /\ <<t, stamp>> \notin elapsed
        /\ elapsed' = elapsed \cup {<<t, stamp>>}
        /\ UNCHANGED <<money, fac, cfHeld, generals, handler, history, ops, restarts>>

-----------------------------------------------------------------------------
(* Generals.  Listing them gives a role without any its first ones.         *)

DrawGeneral(c) ==
    /\ Begins(c)
    /\ Enough(DrawCost, row.wood)
    /\ Goes(c, [at |-> "count", draw |-> TRUE])
    /\ UNCHANGED <<money, fac, cfHeld, generals, history, elapsed, restarts>>

MyGenerals(c) ==
    /\ Begins(c)
    /\ Goes(c, [at |-> "count", draw |-> FALSE])
    /\ UNCHANGED <<money, fac, cfHeld, generals, history, elapsed, restarts>>

CountGenerals(c) ==
    /\ At(c, "count")
    /\ Goes(c, [at |-> "recruit", draw |-> handler[c].draw, seen |-> generals])
    /\ UNCHANGED <<money, fac, cfHeld, generals, history, elapsed, ops, restarts>>

Recruit(c) ==
    LET seen  == handler[c].seen
        first == IF seen = 0 THEN Firsts ELSE 0
        draws == handler[c].draw /\ seen + first + 1 <= Limit
    IN
    /\ At(c, "recruit")
    /\ generals' = generals + first + (IF draws THEN 1 ELSE 0)
    /\ Goes(c, IF draws THEN [at |-> "charge"] ELSE Idle)
    /\ UNCHANGED <<money, fac, cfHeld, history, elapsed, ops, restarts>>

(* CostGold looks again, and charges nothing when the gold has gone.        *)
ReadForCharge(c) ==
    /\ At(c, "charge")
    /\ Goes(c, IF Enough(DrawCost, row.wood) THEN [at |-> "send", res |-> row] ELSE Idle)
    /\ UNCHANGED <<money, fac, cfHeld, generals, history, elapsed, ops, restarts>>

CostGold(c) ==
    /\ At(c, "send")
    /\ Queue(Copy([handler[c].res EXCEPT !.gold = @ - DrawCost]))
    /\ Goes(c, Idle)
    /\ UNCHANGED <<row, cache, known, fac, cfHeld, generals, history, elapsed, ops, restarts>>

-----------------------------------------------------------------------------
(* Interior: taxes and barter.  Neither looks at how often or at what is    *)
(* there: collect only counts, transform may leave less than nothing.       *)

ReadBalance(c, why) ==
    /\ Begins(c)
    /\ Goes(c, [at |-> why, res |-> row])
    /\ UNCHANGED <<money, fac, cfHeld, generals, history, elapsed, restarts>>

Collect(c) ==
    /\ At(c, "collect")
    /\ Queue(Copy([handler[c].res EXCEPT !.gold = @ + Yield("gold")]))
    /\ Goes(c, Idle)
    /\ UNCHANGED <<row, cache, known, fac, cfHeld, generals, history, elapsed, ops, restarts>>

Transform(c) ==
    /\ At(c, "transform")
    /\ \/ /\ Yield("market") > 0
          /\ \E d \in Trades :
                /\ Queue(Copy([handler[c].res EXCEPT !.wood = @ + d]))
                /\ balance' = balance + d
       \/ /\ Yield("market") <= 0
          /\ UNCHANGED <<rrChan, balance>>
    /\ Goes(c, Idle)
    /\ UNCHANGED <<row, cache, known, fac, cfHeld, generals, stamps, elapsed, ops, restarts>>

-----------------------------------------------------------------------------
(* The cache, the writer and a restart.                                     *)

Produce ==
    LET step == IF cache.wood < Yield("capacity") THEN Yield("wood") \div 6 ELSE 0 IN
    /\ known /\ ops < MaxOps /\ ops' = ops + 1
    /\ Queue(Pointer)
    /\ cache' = [cache EXCEPT !.wood = @ + step]
    /\ balance' = balance + step
    /\ UNCHANGED <<row, known, fac, cfHeld, generals, handler, stamps, elapsed, restarts>>

TryUseDecree(c) ==
    /\ Begins(c) /\ known
    /\ Queue(Pointer)
    /\ UNCHANGED <<row, cache, known, fac, cfHeld, generals, handler, history, elapsed, restarts>>

WriteBalance ==
    /\ rrChan # <<>>
    /\ row' = IF Head(rrChan).cached THEN cache ELSE Head(rrChan).res
    /\ rrChan' = Tail(rrChan)
    /\ UNCHANGED <<cache, known, fac, cfHeld, generals, handler, history, elapsed, ops, restarts>>

(* The server stops and loads the rows again: queues, handlers and their    *)
(* copies are gone, every stored role is known.                             *)
Restart ==
    /\ restarts < MaxRestarts /\ restarts' = restarts + 1
    /\ cache' = row /\ known' = TRUE
    /\ rrChan' = <<>> /\ cfHeld' = {}
    /\ handler' = [c \in Conns |-> Idle]
    /\ UNCHANGED <<row, fac, generals, history, elapsed, ops>>

Handler(c) ==
    \/ \E t \in Types : ReadFacilities(c, t)
    \/ ReadForUnknownType(c)
    \/ ReadForNeed(c)
    \/ PayNeed(c)
    \/ StoreFacilities(c)
    \/ DrawGeneral(c)
    \/ MyGenerals(c)
    \/ CountGenerals(c)
    \/ Recruit(c)
    \/ ReadForCharge(c)
    \/ CostGold(c)
    \/ \E why \in {"collect", "transform"} : ReadBalance(c, why)
    \/ Collect(c)
    \/ Transform(c)
    \/ TryUseDecree(c)

Next ==
    \/ \E c \in Conns : Handler(c)
    \/ \E t \in Types : TimePasses(t)
    \/ WriteFacilities
    \/ Produce
    \/ WriteBalance
    \/ Restart

Spec == Init /\ [][Next]_vars

-----------------------------------------------------------------------------
(* Properties.                                                              *)

Balances == [gold : Nat, wood : Int]
Lists    == [Types -> [level : 0..MaxLevel, up : 0..MaxOps]]

(* The state has its shape, and no row, copy or queued balance holds less   *)
(* than no gold: a purchase is refused or leaves something, whatever the    *)
(* copies it worked on.                                                     *)
TypeOK ==
    /\ row \in Balances /\ cache \in Balances /\ known \in BOOLEAN
    /\ Len(rrChan) <= QueueCap
    /\ \A i \in DOMAIN rrChan : rrChan[i] \in [res : Balances, cached : BOOLEAN]
    /\ fac \in Lists /\ cfHeld \subseteq Lists
    /\ generals \in Nat
    /\ \A c \in Holding : handler[c].res \in Balances
    /\ \A c \in Listing : handler[c].list \in Lists
    /\ stamps \in [Types -> 0..MaxOps] /\ elapsed \subseteq Types \X (1..MaxOps)
    /\ balance \in Int /\ ops \in 0..MaxOps /\ restarts \in 0..MaxRestarts

Reached(f) == f.level + (IF f.up # 0 THEN 1 ELSE 0)

(* Every level a facility has reached or is on its way to was paid for, in  *)
(* the stored list and in every copy of it on its way to be stored: neither *)
(* stale lists written back, nor time passing between two reads of it, nor  *)
(* a restart between payment and list gives a level away (UpFacility,       *)
(* GetLevel).                                                               *)
NoFreeUpgrade ==
    \A list \in {fac} \cup cfHeld \cup {handler[c].list : c \in Listing} :
        \A t \in Types : Reached(list[t]) <= stamps[t]

(* "5. 消耗资源，资源减少 固化到数据库" (controller/city.go:72): once nothing *)
(* is queued and no handler is in the middle of a request, the stored wood  *)
(* is what was there, produced and bartered, less what was spent.           *)
SpentIsStored ==
    /\ rrChan = <<>>
    /\ \A c \in Conns : At(c, "idle")
    => row.wood = balance
==============================================================================
