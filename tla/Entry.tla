-------------------------------- MODULE Entry --------------------------------
(***************************************************************************)
(* How a user comes into the game (RoleController.create and enterServer): *)
(* the first time its role gets resources, attributes, a city and the      *)
(* city's facilities, all inserted in one transaction of the database.     *)
(*                                                                         *)
(* What exists is asked outside the transaction, of the rows committed so  *)
(* far, and the maps in memory are filled while it is still open: entries  *)
(* of two connections, an insert that fails and a restart each meet the    *)
(* three, rows, transactions and maps, in different states.                *)
(*                                                                         *)
(* Rows with the same role are not told apart but for those of cities: two *)
(* entries at once may insert each of them twice, no table forbids it as   *)
(* far as the repository shows.                                            *)
(***************************************************************************)
EXTENDS Integers, FiniteSets, Sequences

CONSTANTS
    Users,
    Conns,
    NoConn,
    Places,         \* cells a city may be built on: on the map, away from system cities
    Near,           \* place -> the places within five cells of it, itself included
    MaxRoles,       \* bound: roles created
    MaxCities,      \* bound: numbers of cities given out
    MaxEntries,     \* bound: requests to enter
    MaxFaults,      \* bound: database calls that fail
    MaxRestarts     \* bound: restarts

ASSUME EntryAssumption ==
    /\ NoConn \notin Conns
    /\ Near \in [Places -> SUBSET Places]
    /\ \A p \in Places : p \in Near[p] /\ \A q \in Near[p] : p \in Near[q]
    /\ {MaxRoles, MaxCities, MaxEntries, MaxFaults, MaxRestarts} \subseteq Nat

VARIABLES
    tbRole,     \* users, in the order their roles were created: rid -> uid
    rows,       \* committed rows of the other tables
    session,    \* connection -> rows inserted in its open transaction
    handler,    \* connection -> what its handler does next
    role,       \* connection -> its property "role", a rid or 0
    attrs,      \* roleAttrService.attrs: roles with attributes in memory
    posRC,      \* place -> the city there, 0 for none
    dbRB,       \* cities in memory
    roleRC,     \* role -> its cities in memory once there is an entry for it
    roleCache,  \* role -> the connection it has entered by
    lastCity,   \* the last number given to a city
    entries, faults, restarts

tables == <<tbRole, rows>>
maps   == <<attrs, posRC, dbRB, roleRC>>
bounds == <<entries, faults, restarts>>
vars   == <<tables, session, handler, role, maps, roleCache, lastCity, bounds>>

Rids    == 1..MaxRoles
CityIds == 1..MaxCities

(* Rows: resources and attributes by role, cities, facilities by city.      *)
None == [res |-> {}, attr |-> {}, city |-> {}, fac |-> {}]
Merge(a, b) == [t \in DOMAIN a |-> a[t] \cup b[t]]

Idle == [at |-> "idle"]
NoEntry == [known |-> FALSE, cities |-> {}]

Init ==
    /\ tbRole = <<>> /\ rows = None
    /\ session = [c \in Conns |-> None]
    /\ handler = [c \in Conns |-> Idle]
    /\ role = [c \in Conns |-> 0]
    /\ attrs = {} /\ dbRB = {} /\ posRC = [p \in Places |-> 0]
    /\ roleRC = [r \in Rids |-> NoEntry]
    /\ roleCache = [r \in Rids |-> NoConn]
    /\ lastCity = 0
    /\ entries = 0 /\ faults = 0 /\ restarts = 0

At(c, step)   == handler[c].at = step
Goes(c, next) == handler' = [handler EXCEPT ![c] = next]
Inserts(c, table, row) == session' = [session EXCEPT ![c][table] = @ \cup {row}]

-----------------------------------------------------------------------------
(* create.                                                                  *)

Taken(u) == \E r \in DOMAIN tbRole : tbRole[r] = u

CheckNoRole(c, u) ==
    /\ At(c, "idle") /\ ~Taken(u) /\ Len(tbRole) < MaxRoles
    /\ Goes(c, [at |-> "create", uid |-> u])
    /\ UNCHANGED <<tables, session, role, maps, roleCache, lastCity, bounds>>

Create(c) ==
    /\ At(c, "create") /\ Len(tbRole) < MaxRoles
    /\ tbRole' = Append(tbRole, handler[c].uid)
    /\ Goes(c, Idle)
    /\ UNCHANGED <<rows, session, role, maps, roleCache, lastCity, bounds>>

-----------------------------------------------------------------------------
(* enterServer.                                                             *)

(* Begin, the role and its resources; of a user's two roles the database    *)
(* may find either.  The connection has its role before the entry is        *)
(* through, and keeps it when the entry fails.                              *)
EnterServer(c, r) ==
    /\ At(c, "idle") /\ r \in DOMAIN tbRole
    /\ entries < MaxEntries /\ entries' = entries + 1
    /\ role' = [role EXCEPT ![c] = r]
    /\ IF r \in rows.res THEN UNCHANGED session ELSE Inserts(c, "res", r)
    /\ Goes(c, [at |-> "attribute", rid |-> r])
    /\ UNCHANGED <<tables, maps, roleCache, lastCity, faults, restarts>>

(* A mutated form of the next definition: the row is left to a later Get.   *)
AttributeUncached(c) ==
    /\ At(c, "attribute")
    /\ LET r == handler[c].rid IN
       /\ IF r \in rows.attr THEN UNCHANGED session ELSE Inserts(c, "attr", r)
       /\ Goes(c, [at |-> "city", rid |-> r])
    /\ UNCHANGED <<tables, role, maps, roleCache, lastCity, bounds>>

(* RoleAttrService.TryCreate.  Attributes found in the table are taken to   *)
(* be in memory.                                                            *)
CreateAttribute(c) ==
    /\ At(c, "attribute")
    /\ LET r == handler[c].rid IN
       /\ IF r \in rows.attr THEN UNCHANGED <<session, attrs>>
          ELSE Inserts(c, "attr", r) /\ attrs' = attrs \cup {r}
       /\ Goes(c, [at |-> "city", rid |-> r])
    /\ UNCHANGED <<tables, role, posRC, dbRB, roleRC, roleCache, lastCity, bounds>>

CityOf(r) == {m \in rows.city : m.rid = r}

HasCity(c) ==
    /\ At(c, "city") /\ CityOf(handler[c].rid) # {}
    /\ Goes(c, [at |-> "commit", rid |-> handler[c].rid])
    /\ UNCHANGED <<tables, session, role, maps, roleCache, lastCity, bounds>>

IsCanBuild(p) == \A q \in Near[p] : posRC[q] = 0

(* The draws of rand go on until a place will do: on a full map the handler *)
(* draws for ever, its transaction open.                                    *)
DrawPlace(c, p) ==
    /\ At(c, "city") /\ CityOf(handler[c].rid) = {}
    /\ IsCanBuild(p)
    /\ Goes(c, [at |-> "build", rid |-> handler[c].rid, place |-> p])
    /\ UNCHANGED <<tables, session, role, maps, roleCache, lastCity, bounds>>

(* A mutated form of the next definition: a session of its own.             *)
InsertAtOnce(c, m) ==
    /\ rows' = [rows EXCEPT !.city = @ \cup {m}]
    /\ UNCHANGED session

InsertCity(c, m) ==
    /\ Inserts(c, "city", m)
    /\ UNCHANGED rows

(* The number is the database's.  roleRC gets the city only where the role  *)
(* has an entry; the first city makes the entry and is left out of it.      *)
BuildCity(c) ==
    /\ At(c, "build") /\ lastCity < MaxCities
    /\ LET r  == handler[c].rid
           id == lastCity + 1
           p  == handler[c].place
       IN
       /\ lastCity' = id
       /\ InsertCity(c, [id |-> id, rid |-> r, place |-> p])
       /\ posRC' = [posRC EXCEPT ![p] = id]
       /\ roleRC' = [roleRC EXCEPT ![r] =
                [known |-> TRUE, cities |-> IF @.known THEN @.cities \cup {id} ELSE {}]]
       /\ dbRB' = dbRB \cup {id}
       /\ Goes(c, [at |-> "facility", rid |-> r, city |-> id])
    /\ UNCHANGED <<tbRole, role, attrs, roleCache, bounds>>

CreateFacility(c) ==
    /\ At(c, "facility")
    /\ IF handler[c].city \in rows.fac THEN UNCHANGED session
       ELSE Inserts(c, "fac", handler[c].city)
    /\ Goes(c, [at |-> "commit", rid |-> handler[c].rid])
    /\ UNCHANGED <<tables, role, maps, roleCache, lastCity, bounds>>

(* Commit and RoleEnter: the rows are there before anybody can push.        *)
Commit(c) ==
    /\ At(c, "commit")
    /\ rows' = Merge(rows, session[c])
    /\ session' = [session EXCEPT ![c] = None]
    /\ roleCache' = [roleCache EXCEPT ![handler[c].rid] = c]
    /\ Goes(c, Idle)
    /\ UNCHANGED <<tbRole, role, maps, lastCity, bounds>>

(* A mutated form of the next definition: the transaction goes on.          *)
AbandonedOpen(c) == handler' = [handler EXCEPT ![c] = Idle] /\ UNCHANGED session

(* Rollback, or the Close of a session that has not committed.              *)
Abandoned(c) ==
    /\ session' = [session EXCEPT ![c] = None]
    /\ Goes(c, Idle)

(* Whatever a database call fails on, nothing is taken out of the maps.     *)
Fail(c) ==
    /\ faults < MaxFaults /\ faults' = faults + 1
    /\ handler[c].at \in {"attribute", "city", "build", "facility", "commit"}
    /\ Abandoned(c)
    /\ UNCHANGED <<tables, role, maps, roleCache, lastCity, entries, restarts>>

-----------------------------------------------------------------------------
(* TryCreateRA, of the union handlers: any connection with a role may need  *)
(* attributes of its own, committed at once.                                *)
TryCreateRA(c) ==
    /\ At(c, "idle") /\ role[c] # 0 /\ role[c] \notin attrs
    /\ rows' = [rows EXCEPT !.attr = @ \cup {role[c]}]
    /\ attrs' = attrs \cup {role[c]}
    /\ UNCHANGED <<tbRole, session, handler, role, posRC, dbRB, roleRC, roleCache, lastCity, bounds>>

(* The process ends with its transactions and loads the maps again.  Of two *)
(* cities on one place posRC keeps the one that is loaded last.             *)
Restart ==
    /\ restarts < MaxRestarts /\ restarts' = restarts + 1
    /\ session' = [c \in Conns |-> None] /\ handler' = [c \in Conns |-> Idle]
    /\ role' = [c \in Conns |-> 0] /\ roleCache' = [r \in Rids |-> NoConn]
    /\ attrs' = rows.attr
    /\ dbRB' = {m.id : m \in rows.city}
    /\ posRC' \in {f \in [Places -> CityIds \cup {0}] : \A p \in Places :
            LET here == {m.id : m \in {n \in rows.city : n.place = p}}
            IN f[p] \in (IF here = {} THEN {0} ELSE here)}
    /\ roleRC' = [r \in Rids |->
            [known |-> CityOf(r) # {}, cities |-> {m.id : m \in CityOf(r)}]]
    /\ UNCHANGED <<tables, lastCity, entries, faults>>

Handler(c) ==
    \/ \E u \in Users : CheckNoRole(c, u)
    \/ Create(c)
    \/ \E r \in DOMAIN tbRole : EnterServer(c, r)
    \/ CreateAttribute(c) \/ HasCity(c) \/ BuildCity(c) \/ CreateFacility(c) \/ Commit(c)
    \/ \E p \in Places : DrawPlace(c, p)
    \/ Fail(c) \/ TryCreateRA(c)

Next == Restart \/ \E c \in Conns : Handler(c)

Spec == Init /\ [][Next]_vars

-----------------------------------------------------------------------------
(* A connection that does not enter has no transaction open; a city has its *)
(* number to itself, the rows still uncommitted included.                   *)
TypeOK ==
    /\ tbRole \in Seq(Users) /\ Len(tbRole) <= MaxRoles
    /\ rows.res \cup rows.attr \cup attrs \subseteq DOMAIN tbRole
    /\ rows.fac \cup dbRB \subseteq 1..lastCity
    /\ \A c \in Conns : handler[c].at \in {"idle", "create"} => session[c] = None
    /\ role \in [Conns -> Rids \cup {0}]
    /\ posRC \in [Places -> CityIds \cup {0}]
    /\ roleRC \in [Rids -> [known : BOOLEAN, cities : SUBSET CityIds]]
    /\ roleCache \in [Rids -> Conns \cup {NoConn}]
    /\ LET cities == rows.city \cup UNION {session[c].city : c \in Conns} IN
       /\ cities \subseteq [id : 1..lastCity, rid : Rids, place : Places]
       /\ \A m, n \in cities : m.id = n.id => m = n

(* An entry leaves all of its rows or none: a role with resources has       *)
(* attributes and a city, and no city is without its facilities, whoever    *)
(* else enters meanwhile and wherever an entry ends (role.go:24 begins a    *)
(* transaction, and hands it on to all that inserts).                       *)
EntryIsAllOrNothing ==
    /\ \A r \in rows.res : r \in rows.attr /\ CityOf(r) # {}
    /\ \A m \in rows.city : m.id \in rows.fac

(* What the other services look up for a role that is in the game is in     *)
(* memory: its attributes, its city by number, and some city on its city's  *)
(* place, so that nobody builds there or marches through                    *)
(* (roleAttribute.go:53-57: what the table has is not cached again).        *)
EnteredIsInMemory ==
    \A r \in Rids :
        roleCache[r] # NoConn =>
            /\ r \in rows.res /\ r \in attrs
            /\ \E m \in CityOf(r) : m.id \in dbRB
            /\ \A m \in CityOf(r) : m.id \in dbRB /\ posRC[m.place] # 0
==============================================================================
