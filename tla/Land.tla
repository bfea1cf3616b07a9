-------------------------------- MODULE Land --------------------------------
(***************************************************************************)
(* The fields and buildings of the map: who owns them, how they are        *)
(* conquered, built on, upgraded and given up (RoleBuildService and the    *)
(* build, upBuild and giveUp handlers of nationMapController).             *)
(*                                                                         *)
(* Three indexes point at the same rows: posRB by place, roleRB by owner   *)
(* and giveUpRB by the second in which a row returns to the system.  The   *)
(* goroutine checkGiveUp collects the rows that are due and then removes   *)
(* them one by one, while the army goroutine conquers and clients build.   *)
(* The database follows through the channel rbChan.                        *)
(***************************************************************************)
EXTENDS Integers, FiniteSets, SequencesExt

CONSTANTS
    Roles,          \* role ids
    NoRole,         \* rid 0: the row belongs to the system
    Cells,          \* places that can be built on
    SysBuilds,      \* those of them MapRes.SysBuild has a row for
    UnionOf,        \* role or NoRole -> union id, 0 for none
    BuildLimit,     \* gameConfig.Base.Role.BuildLimit
    FortressLimit,  \* gameConfig.Base.Build.FortressLimit
    MaxLevel,       \* highest level of a fortress in MapBCConf
    WarFree,        \* gameConfig.Base.Build.WarFree
    GiveUpTime,     \* gameConfig.Base.Build.GiveUpTime
    BuildTime,      \* cfg.Time of a fortress level
    Window,         \* how far checkGiveUp looks back
    MaxTime,        \* bound: the clock
    MaxDown,        \* bound: how long a restart takes
    MaxRestarts     \* bound: restarts

ASSUME LandAssumption ==
    /\ NoRole \notin Roles
    /\ SysBuilds \subseteq Cells
    /\ UnionOf \in [Roles \cup {NoRole} -> Nat] /\ UnionOf[NoRole] = 0
    /\ {BuildLimit, FortressLimit, MaxLevel, WarFree, GiveUpTime, BuildTime,
        Window, MaxTime, MaxDown, MaxRestarts} \subseteq Nat
    /\ GiveUpTime > 0 /\ MaxTime > 0

VARIABLES
    now,        \* the clock, in units that hold several rounds of checkGiveUp
    posRB,      \* place -> row, for the places that have one
    roleRB,     \* role -> places, in the order they were won
    giveUpRB,   \* second -> places
    removing,   \* rows checkGiveUp has collected and not removed yet
    swept,      \* checkGiveUp has collected at this time
    rbChan,     \* places whose rows wait to be written
    db,         \* the rows of tb_map_role_build_1
    restarts    \* restarts so far

vars == <<now, posRB, roleRB, giveUpRB, removing, swept, rbChan, db, restarts>>

Times == 1..MaxTime
Never == -WarFree         \* a zero OccupyTime lies before any war-free time
Known == DOMAIN posRB

Natural(c) == IF c \in SysBuilds THEN "system" ELSE "land"

Fresh(c, r) ==
    [rid |-> r, type |-> Natural(c), level |-> 1, opLevel |-> 1,
     occupyTime |-> Never, endTime |-> 0, giveUpTime |-> 0]

(* The row Load inserts for a system building has no OPLevel.               *)
Stored(c) == [Fresh(c, NoRole) EXCEPT !.opLevel = 0]

Reset(c, row) == [Fresh(c, NoRole) EXCEPT !.occupyTime = row.occupyTime]

Owner(c)     == posRB[c].rid
IsWarFree(c) == now - posRB[c].occupyTime < WarFree
IsBusy(c)    == posRB[c].level # posRB[c].opLevel
IsCanRes(c)  == posRB[c].type = "land"
BuildCnt(r)  == Len(roleRB[r])

(* Nobody in this model is a captive, so ParentId is 0 throughout.  For a   *)
(* role without a union, every owner without one is a friend.               *)
IsCanDefend(c, r) == Owner(c) = r \/ UnionOf[r] = UnionOf[Owner(c)] \/ UnionOf[r] = 0

RoleFortressCnt(r) == Cardinality({c \in DOMAIN db : db[c].rid = r /\ db[c].type = "fortress"})

RowsOf(r, rows) == {c \in DOMAIN rows : rows[c].rid = r}

Listed(rows)    == [r \in Roles |-> SetToSeq(RowsOf(r, rows))]
Scheduled(rows) == [t \in Times |-> {c \in DOMAIN rows : rows[c].giveUpTime = t}]

Init ==
    /\ now = 1
    /\ posRB = [c \in SysBuilds |-> Stored(c)]
    /\ roleRB = [r \in Roles |-> <<>>]
    /\ giveUpRB = [t \in Times |-> {}]
    /\ removing = {} /\ swept = FALSE
    /\ rbChan = {} /\ db = posRB /\ restarts = 0

-----------------------------------------------------------------------------
(* Conquest, in the goroutine of the armies.                                *)

Inserted(rows, c, row) == [d \in DOMAIN rows \cup {c} |-> IF d = c THEN row ELSE rows[d]]

(* Mutated forms of the definitions below; no action uses them.             *)
LimitOffByOne(r, c) ==
    /\ BuildCnt(r) <= BuildLimit
    /\ c \in Known => ~IsWarFree(c) /\ ~IsCanDefend(c, r)
ForgetsOldOwner(c) == roleRB
OccupyWithoutInsert(r, c) ==
    /\ c \notin Known
    /\ roleRB' = [roleRB EXCEPT ![r] = Append(@, c)]
    /\ posRB' = Inserted(posRB, c, [Fresh(c, r) EXCEPT !.occupyTime = now])
    /\ UNCHANGED <<giveUpRB, db>>

MayConquer(r, c) ==
    /\ BuildCnt(r) < BuildLimit
    /\ c \in Known => ~IsWarFree(c) /\ ~IsCanDefend(c, r)

(* What RemoveFromRole leaves of roleRB and of giveUpRB.  It deletes the    *)
(* bucket of the row's time with everything else that is in it.             *)
Unlist(c) ==
    IF Owner(c) \in Roles THEN [roleRB EXCEPT ![Owner(c)] = RemoveFirst(@, c)] ELSE roleRB
Unschedule(c) == [t \in Times |-> IF t = posRB[c].giveUpTime THEN {} ELSE giveUpRB[t]]

OccupyRoleBuild(r, c) ==
    /\ c \in Known
    /\ roleRB' = [Unlist(c) EXCEPT ![r] = Append(@, c)]
    /\ giveUpRB' = Unschedule(c)
    /\ posRB' = [posRB EXCEPT ![c] = [Reset(c, @) EXCEPT !.rid = r, !.occupyTime = now]]
    /\ UNCHANGED db

OccupySystemBuild(r, c) ==
    /\ c \notin Known
    /\ roleRB' = [roleRB EXCEPT ![r] = Append(@, c)]
    /\ posRB' = Inserted(posRB, c, [Fresh(c, r) EXCEPT !.occupyTime = now])
    /\ db' = Inserted(db, c, Fresh(c, r))
    /\ UNCHANGED giveUpRB

Conquer(r, c) ==
    /\ MayConquer(r, c)
    /\ OccupyRoleBuild(r, c) \/ OccupySystemBuild(r, c)
    /\ rbChan' = rbChan \cup {c}
    /\ UNCHANGED <<now, removing, swept, restarts>>

-----------------------------------------------------------------------------
(* The handlers of nationMapController.  Resources suffice or the request   *)
(* has no effect.                                                           *)

(* MapRoleBuild.BuildOrUp: clears the time of giving up, not the bucket.    *)
BuildOrUp(c, level) ==
    /\ posRB' = [posRB EXCEPT ![c] =
           [@ EXCEPT !.type = "fortress", !.level = level - 1, !.opLevel = level,
                     !.giveUpTime = 0, !.endTime = now + BuildTime]]
    /\ rbChan' = rbChan \cup {c}

Build(r, c) ==
    /\ c \in Known /\ Owner(c) = r
    /\ IsCanRes(c) /\ ~IsBusy(c)
    /\ RoleFortressCnt(r) < FortressLimit
    /\ BuildOrUp(c, 1)
    /\ UNCHANGED <<now, roleRB, giveUpRB, removing, swept, db, restarts>>

(* A finished level is noted whether or not the upgrade goes through.       *)
UpBuild(r, c) ==
    /\ c \in Known /\ Owner(c) = r
    /\ LET row == posRB[c]
           level == IF now >= row.endTime THEN row.opLevel ELSE row.level
       IN  \/ /\ row.type = "fortress" /\ row.giveUpTime = 0 /\ level = row.opLevel
              /\ level < MaxLevel
              /\ BuildOrUp(c, level + 1)
           \/ /\ posRB' = [posRB EXCEPT ![c].level = level]
              /\ UNCHANGED rbChan
    /\ UNCHANGED <<now, roleRB, giveUpRB, removing, swept, db, restarts>>

(* A mutated form of the next definition; no action uses it.                *)
MayGiveUpInWarFree(r, c) == c \in Known /\ Owner(c) = r /\ posRB[c].giveUpTime = 0

MayGiveUp(r, c) ==
    /\ c \in Known /\ Owner(c) = r
    /\ ~IsWarFree(c)
    /\ posRB[c].giveUpTime = 0

GiveUp(r, c) ==
    /\ MayGiveUp(r, c)
    /\ now + GiveUpTime < MaxTime
    /\ posRB' = [posRB EXCEPT ![c].giveUpTime = now + GiveUpTime]
    /\ giveUpRB' = [giveUpRB EXCEPT ![now + GiveUpTime] = @ \cup {c}]
    /\ rbChan' = rbChan \cup {c}
    /\ UNCHANGED <<now, roleRB, removing, swept, db, restarts>>

-----------------------------------------------------------------------------
(* checkGiveUp.                                                             *)

(* A mutated form of the next definition; no action uses it.                *)
DueExactly == {t \in Times : t = now}
Due == {t \in Times : now - Window <= t /\ t <= now}

Collect ==
    /\ removing = {} /\ ~swept
    /\ removing' = UNION {giveUpRB[t] : t \in Due}
    /\ swept' = TRUE
    /\ UNCHANGED <<now, posRB, roleRB, giveUpRB, rbChan, db, restarts>>

RemoveFromRole(c) ==
    /\ c \in removing
    /\ removing' = removing \ {c}
    /\ roleRB' = Unlist(c)
    /\ giveUpRB' = Unschedule(c)
    /\ posRB' = [posRB EXCEPT ![c] = Reset(c, @)]
    /\ rbChan' = rbChan \cup {c}
    /\ UNCHANGED <<now, swept, db, restarts>>

-----------------------------------------------------------------------------
(* mapRoleBuildDao.running writes the row as it is when its turn comes.     *)
Write(c) ==
    /\ c \in rbChan
    /\ rbChan' = rbChan \ {c}
    /\ db' = [db EXCEPT ![c] = posRB[c]]
    /\ UNCHANGED <<now, posRB, roleRB, giveUpRB, removing, swept, restarts>>

(* checkGiveUp runs several times while the clock advances by one.          *)
Tick ==
    /\ swept /\ removing = {} /\ now < MaxTime
    /\ now' = now + 1
    /\ swept' = FALSE
    /\ UNCHANGED <<posRB, roleRB, giveUpRB, removing, rbChan, db, restarts>>

(* Load rebuilds the indexes from the rows.  The model restarts when every  *)
(* row has been written.                                                    *)
Restart(down) ==
    /\ rbChan = {} /\ now + down <= MaxTime
    /\ restarts < MaxRestarts /\ restarts' = restarts + 1
    /\ now' = now + down
    /\ posRB' = db
    /\ roleRB' = Listed(db)
    /\ giveUpRB' = Scheduled(db)
    /\ removing' = {} /\ swept' = FALSE
    /\ UNCHANGED <<rbChan, db>>

Sweep == Collect \/ \E c \in Cells : RemoveFromRole(c)

Next ==
    \/ \E r \in Roles, c \in Cells :
          Conquer(r, c) \/ Build(r, c) \/ UpBuild(r, c) \/ GiveUp(r, c)
    \/ Sweep
    \/ \E c \in Cells : Write(c)
    \/ Tick
    \/ \E down \in 0..MaxDown : Restart(down)

(* The clock goes on and checkGiveUp runs; nothing is assumed of players.   *)
Spec == Init /\ [][Next]_vars /\ WF_vars(Tick) /\ WF_vars(Sweep)

-----------------------------------------------------------------------------
Row == [rid : Roles \cup {NoRole}, type : {"land", "system", "fortress"},
        level : 0..MaxLevel + 1, opLevel : 0..MaxLevel + 1,
        occupyTime : Times \cup {Never}, endTime : 0..MaxTime + BuildTime,
        giveUpTime : 0..MaxTime]

TypeOK ==
    /\ now \in Times
    /\ Known \subseteq Cells /\ \A c \in Known : posRB[c] \in Row
    /\ roleRB \in [Roles -> Seq(Cells)]
    /\ giveUpRB \in [Times -> SUBSET Known]
    /\ removing \subseteq Known /\ rbChan \subseteq Known
    /\ swept \in BOOLEAN /\ restarts \in 0..MaxRestarts
    /\ DOMAIN db = Known /\ \A c \in Known : db[c] \in Row

(* The list of a role and the owner of a row agree, through conquest of a   *)
(* row that checkGiveUp has already collected and through restarts: no land *)
(* is counted, or yields, for a role that has lost it.                      *)
LandIndexAgrees ==
    \A r \in Roles : IsInjective(roleRB[r]) /\ ToSet(roleRB[r]) = RowsOf(r, posRB)

(* No role owns more land than BuildLimit.                                  *)
WithinBuildLimit == \A r \in Roles : Cardinality(RowsOf(r, posRB)) <= BuildLimit

(* A give-up on record was asked for after the war-free time of the present *)
(* owner, so that it is never one the last owner left behind.               *)
GiveUpIsOwners ==
    \A c \in Known : posRB[c].giveUpTime # 0 =>
        posRB[c].giveUpTime >= posRB[c].occupyTime + WarFree + GiveUpTime

(* A row that lies in the bucket of its own time, before that time is over, *)
(* returns to the system, or is conquered or built upon before, as long as  *)
(* rounds of checkGiveUp are never further apart than it looks back (one    *)
(* restart of at most Window): none comes too late (roleBuild.go:267).      *)
BucketsAreHonoured ==
    \A c \in Cells, t \in Times :
        (c \in giveUpRB[t] /\ posRB[c].giveUpTime = t /\ now <= t)
            ~> (c \notin giveUpRB[t] \/ posRB[c].giveUpTime # t)
==============================================================================
