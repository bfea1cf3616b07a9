----------------------------- MODULE EntryProofs -----------------------------
(***************************************************************************)
(* Proofs about Entry: for any users, connections and map, and any number  *)
(* of entries, failures and restarts, the rows of an entry are committed   *)
(* together and what was committed is in memory.                           *)
(***************************************************************************)
EXTENDS Entry, SequenceTheorems, TLAPS

-----------------------------------------------------------------------------
(* Types: the state formula TypeOK, and the shapes of rows and handlers it  *)
(* leaves open.                                                             *)

Cities == [id : CityIds, rid : Rids, place : Places]
Rows   == [res : SUBSET Rids, attr : SUBSET Rids, city : SUBSET Cities, fac : SUBSET CityIds]

Entering == {"attribute", "city", "build", "facility", "commit"}

HandlersTyped ==
    /\ DOMAIN handler = Conns
    /\ \A c \in Conns :
          /\ handler[c].at \in {"idle", "create"} \cup Entering
          /\ handler[c].at = "create" => handler[c].uid \in Users
          /\ handler[c].at \in Entering => handler[c].rid \in 1..Len(tbRole)
          /\ handler[c].at = "build" => handler[c].place \in Places
          /\ handler[c].at = "facility" => handler[c].city \in 1..lastCity

RowsTyped ==
    /\ rows \in Rows /\ session \in [Conns -> Rows]
    /\ attrs \subseteq Rids /\ dbRB \subseteq CityIds /\ lastCity \in 0..MaxCities
    /\ \A c \in Conns :
          /\ session[c].res \cup session[c].attr \subseteq 1..Len(tbRole)
          /\ session[c].fac \subseteq 1..lastCity
          /\ role[c] \in 0..Len(tbRole)

TypeInv == TypeOK /\ RowsTyped /\ HandlersTyped

-----------------------------------------------------------------------------
(* What an open transaction holds, by the step its handler has come to.     *)

SessionIsOwn ==
    \A c \in Conns : handler[c].at \in Entering =>
        /\ session[c].res \cup session[c].attr \subseteq {handler[c].rid}
        /\ \A m \in session[c].city : m.rid = handler[c].rid

HasResources ==
    \A c \in Conns : handler[c].at \in Entering =>
        handler[c].rid \in rows.res \cup session[c].res

HasAttributes ==
    \A c \in Conns : handler[c].at \in Entering \ {"attribute"} =>
        handler[c].rid \in rows.attr \cup session[c].attr

NoCityYet ==
    \A c \in Conns : handler[c].at \in {"attribute", "city", "build"} =>
        session[c].city = {}

HasCityRow ==
    \A c \in Conns : handler[c].at \in {"facility", "commit"} =>
        CityOf(handler[c].rid) # {} \/ session[c].city # {}

CityIsEquipped ==
    \A c \in Conns : \A m \in session[c].city :
        \/ m.id \in rows.fac \cup session[c].fac
        \/ handler[c].at = "facility" /\ handler[c].city = m.id

InMemory ==
    /\ rows.attr \subseteq attrs
    /\ \A c \in Conns : session[c].attr \subseteq attrs
    /\ \A m \in rows.city : m.id \in dbRB /\ posRC[m.place] # 0
    /\ \A c \in Conns : \A m \in session[c].city : m.id \in dbRB /\ posRC[m.place] # 0

EnteredHasRows == \A r \in Rids : roleCache[r] # NoConn => r \in rows.res

Transactions ==
    /\ SessionIsOwn /\ HasResources /\ HasAttributes
    /\ NoCityYet /\ HasCityRow /\ CityIsEquipped

Inv == Transactions /\ InMemory /\ EnteredHasRows /\ EntryIsAllOrNothing
-----------------------------------------------------------------------------
(* What one handler's step changes, and what it leaves to the others.       *)

(* The handler of c goes on, the others stay where they are.                *)
LEMMA HandlerGoes ==
    ASSUME HandlersTyped, NEW c \in Conns, NEW next, Goes(c, next)
    PROVE  handler'[c] = next /\ \A d \in Conns \ {c} : handler'[d] = handler[d]
BY DEF HandlersTyped, Goes

(* A row goes into the transaction of c, and into one table of it.          *)
LEMMA RowInserted ==
    ASSUME RowsTyped, NEW c \in Conns, NEW t \in {"res", "attr", "city", "fac"}, NEW row,
           Inserts(c, t, row)
    PROVE  /\ session'[c][t] = session[c][t] \cup {row}
           /\ \A u \in {"res", "attr", "city", "fac"} \ {t} : session'[c][u] = session[c][u]
           /\ \A d \in Conns \ {c} : session'[d] = session[d]
BY DEF RowsTyped, Rows, Inserts

(* A commit adds what the transaction holds, table by table.                *)
LEMMA RowsMerged ==
    ASSUME RowsTyped, NEW c \in Conns
    PROVE  LET m == Merge(rows, session[c]) IN
           /\ m.res = rows.res \cup session[c].res
           /\ m.attr = rows.attr \cup session[c].attr
           /\ m.city = rows.city \cup session[c].city
           /\ m.fac = rows.fac \cup session[c].fac
           /\ m \in Rows
<1>. DEFINE T == {"res", "attr", "city", "fac"}
            m == Merge(rows, session[c])
<1>1. rows \in Rows /\ session[c] \in Rows
  BY DEF RowsTyped
<1>2. DOMAIN rows = T
  BY <1>1 DEF Rows
<1>3. m = [t \in T |-> rows[t] \cup session[c][t]]
  BY <1>2 DEF Merge
<1>4. /\ m.res = rows.res \cup session[c].res
      /\ m.attr = rows.attr \cup session[c].attr
      /\ m.city = rows.city \cup session[c].city
      /\ m.fac = rows.fac \cup session[c].fac
  BY <1>3
<1>5. m \in Rows
  <2>1. m = [res |-> m.res, attr |-> m.attr, city |-> m.city, fac |-> m.fac]
    BY <1>3
  <2>2. /\ m.res \subseteq Rids /\ m.attr \subseteq Rids
        /\ m.city \subseteq Cities /\ m.fac \subseteq CityIds
    BY <1>1, <1>4 DEF Rows
  <2>. HIDE DEF m
  <2>. QED  BY <2>1, <2>2 DEF Rows
<1>. QED  BY <1>4, <1>5

-----------------------------------------------------------------------------
(* The invariant.                                                           *)

(* Where rows and roleCache stay, what was committed stays complete.        *)
LEMMA CommittedStays ==
    ASSUME Inv, UNCHANGED <<rows, roleCache>>
    PROVE  EnteredHasRows' /\ EntryIsAllOrNothing'
BY DEF Inv, EnteredHasRows, EntryIsAllOrNothing, CityOf

LEMMA InvHoldsAtInit == Init => Inv
BY DEF Init, None, Idle, Entering, Inv, Transactions, SessionIsOwn, HasResources,
   HasAttributes, NoCityYet, HasCityRow, CityIsEquipped, InMemory, EnteredHasRows,
   EntryIsAllOrNothing, CityOf

(* Steps of create, before any transaction is open.                         *)
LEMMA CreateKeepsInv ==
    ASSUME TypeInv, Inv, NEW c \in Conns, Create(c) \/ \E u \in Users : CheckNoRole(c, u)
    PROVE  Inv'
<1>1. /\ handler'[c].at \in {"idle", "create"}
      /\ \A d \in Conns \ {c} : handler'[d] = handler[d]
  <2>1. CASE Create(c)
    BY <2>1, HandlerGoes DEF Create, Idle, TypeInv
  <2>2. ASSUME NEW u \in Users, CheckNoRole(c, u)
        PROVE  /\ handler'[c].at \in {"idle", "create"}
               /\ \A d \in Conns \ {c} : handler'[d] = handler[d]
    BY <2>2, HandlerGoes DEF CheckNoRole, TypeInv
  <2>. QED  BY <2>1, <2>2
<1>2. UNCHANGED <<rows, session, maps, roleCache>>
  BY DEF Create, CheckNoRole, tables
<1>3. handler[c].at \in {"idle", "create"}
  BY DEF Create, CheckNoRole, At
<1>4. Transactions'
  BY <1>1, <1>2, <1>3 DEF Inv, Entering, CityOf, Transactions, SessionIsOwn, HasResources,
     HasAttributes, NoCityYet, HasCityRow, CityIsEquipped
<1>5. InMemory'
  BY <1>2 DEF Inv, InMemory, maps
<1>. QED  BY <1>2, <1>4, <1>5, CommittedStays DEF Inv

(* A step that opens a transaction: it has the resources, and nothing else. *)
LEMMA EnterKeepsInv ==
    ASSUME TypeInv, Inv, NEW c \in Conns, NEW r \in DOMAIN tbRole, EnterServer(c, r)
    PROVE  Inv'
<1>1. /\ handler'[c] = [at |-> "attribute", rid |-> r]
      /\ \A d \in Conns \ {c} : handler'[d] = handler[d]
  BY HandlerGoes DEF EnterServer, TypeInv
<1>2. session[c] = None
  BY DEF EnterServer, At, TypeInv, TypeOK
<1>3. /\ session'[c].res = IF r \in rows.res THEN {} ELSE {r}
      /\ session'[c].attr = {} /\ session'[c].city = {} /\ session'[c].fac = {}
      /\ \A d \in Conns \ {c} : session'[d] = session[d]
  <2>1. CASE r \in rows.res
    BY <1>2, <2>1 DEF EnterServer, None
  <2>2. CASE r \notin rows.res
    BY <1>2, <2>2, RowInserted DEF EnterServer, TypeInv, None
  <2>. QED  BY <2>1, <2>2
<1>4. UNCHANGED <<rows, maps, roleCache>>
  BY DEF EnterServer, tables
<1>5. Transactions'
  BY <1>1, <1>3, <1>4 DEF Inv, Entering, CityOf, Transactions, SessionIsOwn, HasResources,
     HasAttributes, NoCityYet, HasCityRow, CityIsEquipped
<1>6. InMemory'
  BY <1>3, <1>4 DEF Inv, InMemory, maps
<1>. QED  BY <1>4, <1>5, <1>6, CommittedStays DEF Inv

(* The attributes are in a transaction or committed before the city is      *)
(* looked for, and in memory either way.                                    *)
LEMMA AttributeKeepsInv ==
    ASSUME TypeInv, Inv, NEW c \in Conns, CreateAttribute(c)
    PROVE  Inv'
<1>. DEFINE r == handler[c].rid
<1>1. /\ handler'[c] = [at |-> "city", rid |-> r]
      /\ \A d \in Conns \ {c} : handler'[d] = handler[d]
  BY HandlerGoes DEF CreateAttribute, TypeInv
<1>2. /\ session'[c].attr = session[c].attr \cup (IF r \in rows.attr THEN {} ELSE {r})
      /\ session'[c].res = session[c].res
      /\ session'[c].city = session[c].city /\ session'[c].fac = session[c].fac
      /\ \A d \in Conns \ {c} : session'[d] = session[d]
  BY RowInserted DEF CreateAttribute, TypeInv
<1>3. /\ UNCHANGED <<rows, posRC, dbRB, roleCache>>
      /\ attrs' = attrs \cup (IF r \in rows.attr THEN {} ELSE {r})
      /\ handler[c].at = "attribute"
  BY DEF CreateAttribute, tables, At
<1>4. Transactions'
  BY <1>1, <1>2, <1>3 DEF Inv, Entering, CityOf, Transactions, SessionIsOwn, HasResources,
     HasAttributes, NoCityYet, HasCityRow, CityIsEquipped
<1>5. InMemory'
  BY <1>2, <1>3 DEF Inv, InMemory
<1>. QED  BY <1>3, <1>4, <1>5, CommittedStays DEF Inv

(* Finding a city or a place for one touches neither rows nor maps.         *)
LEMMA PlaceKeepsInv ==
    ASSUME TypeInv, Inv, NEW c \in Conns, HasCity(c) \/ \E p \in Places : DrawPlace(c, p)
    PROVE  Inv'
<1>. DEFINE Placed == /\ handler'[c].rid = handler[c].rid
                      /\ \/ handler'[c].at = "build"
                         \/ handler'[c].at = "commit" /\ CityOf(handler[c].rid) # {}
                      /\ \A d \in Conns \ {c} : handler'[d] = handler[d]
<1>1. Placed
  <2>1. CASE HasCity(c)
    BY <2>1, HandlerGoes DEF HasCity, TypeInv
  <2>2. ASSUME NEW p \in Places, DrawPlace(c, p)
        PROVE  Placed
    BY <2>2, HandlerGoes DEF DrawPlace, TypeInv
  <2>. QED  BY <2>1, <2>2
<1>2. UNCHANGED <<rows, session, maps, roleCache>> /\ handler[c].at = "city"
  BY DEF HasCity, DrawPlace, tables, At
<1>3. Transactions'
  BY <1>1, <1>2 DEF Inv, Entering, CityOf, Transactions, SessionIsOwn, HasResources,
     HasAttributes, NoCityYet, HasCityRow, CityIsEquipped
<1>4. InMemory'
  BY <1>2 DEF Inv, InMemory, maps
<1>. QED  BY <1>2, <1>3, <1>4, CommittedStays DEF Inv

(* A new city is in memory as soon as it is in the transaction, and its     *)
(* number is what the next step inserts facilities for.                     *)
LEMMA BuildKeepsInv ==
    ASSUME TypeInv, Inv, NEW c \in Conns, BuildCity(c)
    PROVE  Inv'
<1>. DEFINE r  == handler[c].rid
            id == lastCity + 1
            p  == handler[c].place
            m  == [id |-> id, rid |-> r, place |-> p]
<1>1. /\ handler'[c] = [at |-> "facility", rid |-> r, city |-> id]
      /\ \A d \in Conns \ {c} : handler'[d] = handler[d]
  BY HandlerGoes DEF BuildCity, TypeInv
<1>2. /\ session'[c].city = session[c].city \cup {m}
      /\ session'[c].res = session[c].res
      /\ session'[c].attr = session[c].attr /\ session'[c].fac = session[c].fac
      /\ \A d \in Conns \ {c} : session'[d] = session[d]
  <2>. Inserts(c, "city", m)
    BY DEF BuildCity, InsertCity
  <2>. QED  BY RowInserted DEF TypeInv
<1>3. /\ UNCHANGED <<rows, attrs, roleCache>>
      /\ dbRB' = dbRB \cup {id} /\ posRC' = [posRC EXCEPT ![p] = id]
      /\ handler[c].at = "build"
  BY DEF BuildCity, InsertCity, At
<1>4. session[c].city = {} /\ p \in Places /\ id # 0
  BY <1>3 DEF Inv, Transactions, NoCityYet, TypeInv, HandlersTyped, RowsTyped
<1>5. \A q \in Places : posRC[q] # 0 => posRC'[q] # 0
  BY <1>3, <1>4 DEF TypeInv, TypeOK
<1>6. posRC'[p] # 0
  BY <1>3, <1>4 DEF TypeInv, TypeOK
<1>7. /\ \A n \in rows.city : n.place \in Places
      /\ \A d \in Conns : \A n \in session[d].city : n.place \in Places
  BY DEF TypeInv, RowsTyped, Rows, Cities
<1>8. Transactions'
  <2>1. SessionIsOwn'
    BY <1>1, <1>2, <1>3, <1>4 DEF Inv, Transactions, SessionIsOwn, Entering
  <2>2. HasResources'
    BY <1>1, <1>2, <1>3 DEF Inv, Transactions, HasResources, Entering
  <2>3. HasAttributes'
    BY <1>1, <1>2, <1>3 DEF Inv, Transactions, HasAttributes, Entering
  <2>4. NoCityYet'
    BY <1>1, <1>2, <1>3 DEF Inv, Transactions, NoCityYet
  <2>5. HasCityRow'
    BY <1>1, <1>2, <1>3 DEF Inv, Transactions, HasCityRow, CityOf
  <2>6. CityIsEquipped'
    BY <1>1, <1>2, <1>3, <1>4 DEF Inv, Transactions, CityIsEquipped
  <2>. QED  BY <2>1, <2>2, <2>3, <2>4, <2>5, <2>6 DEF Transactions
<1>9. InMemory'
  BY <1>2, <1>3, <1>4, <1>5, <1>6, <1>7 DEF Inv, InMemory
<1>. QED  BY <1>3, <1>8, <1>9, CommittedStays DEF Inv

(* The facilities of the city just built are the last row of the entry.     *)
LEMMA FacilityKeepsInv ==
    ASSUME TypeInv, Inv, NEW c \in Conns, CreateFacility(c)
    PROVE  Inv'
<1>1. /\ handler'[c] = [at |-> "commit", rid |-> handler[c].rid]
      /\ \A d \in Conns \ {c} : handler'[d] = handler[d]
  BY HandlerGoes DEF CreateFacility, TypeInv
<1>2. /\ handler[c].city \in rows.fac \cup session'[c].fac
      /\ session[c].fac \subseteq session'[c].fac
      /\ session'[c].res = session[c].res
      /\ session'[c].attr = session[c].attr /\ session'[c].city = session[c].city
      /\ \A d \in Conns \ {c} : session'[d] = session[d]
  BY RowInserted DEF CreateFacility, TypeInv
<1>3. UNCHANGED <<rows, maps, roleCache>> /\ handler[c].at = "facility"
  BY DEF CreateFacility, tables, At
<1>4. Transactions'
  BY <1>1, <1>2, <1>3 DEF Inv, Entering, CityOf, Transactions, SessionIsOwn, HasResources,
     HasAttributes, NoCityYet, HasCityRow, CityIsEquipped
<1>5. InMemory'
  BY <1>2, <1>3 DEF Inv, InMemory, maps
<1>. QED  BY <1>3, <1>4, <1>5, CommittedStays DEF Inv

(* A commit: the transaction was complete, so the rows are afterwards.      *)
LEMMA CommitKeepsInv ==
    ASSUME TypeInv, Inv, NEW c \in Conns, Commit(c)
    PROVE  Inv'
<1>. DEFINE r == handler[c].rid
<1>1. /\ handler'[c] = Idle /\ \A d \in Conns \ {c} : handler'[d] = handler[d]
  BY HandlerGoes DEF Commit, TypeInv
<1>2. /\ session'[c] = None /\ \A d \in Conns \ {c} : session'[d] = session[d]
  BY DEF Commit, TypeInv, RowsTyped
<1>3. /\ rows'.res = rows.res \cup session[c].res
      /\ rows'.attr = rows.attr \cup session[c].attr
      /\ rows'.city = rows.city \cup session[c].city
      /\ rows'.fac = rows.fac \cup session[c].fac
  BY RowsMerged DEF Commit, TypeInv
<1>4. /\ UNCHANGED maps /\ roleCache' = [roleCache EXCEPT ![r] = c]
      /\ handler[c].at = "commit"
  BY DEF Commit, At
<1>5. \A q : CityOf(q) \subseteq CityOf(q)'
  BY <1>3 DEF CityOf
<1>6. Transactions'
  <2>1. SessionIsOwn'
    BY <1>1, <1>2 DEF Inv, Transactions, SessionIsOwn, Entering, Idle
  <2>2. HasResources'
    BY <1>1, <1>2, <1>3 DEF Inv, Transactions, HasResources, Entering, Idle
  <2>3. HasAttributes'
    BY <1>1, <1>2, <1>3 DEF Inv, Transactions, HasAttributes, Entering, Idle
  <2>4. NoCityYet'
    BY <1>1, <1>2 DEF Inv, Transactions, NoCityYet, Idle
  <2>5. HasCityRow'
    BY <1>1, <1>2, <1>5 DEF Inv, Transactions, HasCityRow, Idle
  <2>6. CityIsEquipped'
    BY <1>1, <1>2, <1>3 DEF Inv, Transactions, CityIsEquipped, Idle, None
  <2>. QED  BY <2>1, <2>2, <2>3, <2>4, <2>5, <2>6 DEF Transactions
<1>7. InMemory'
  BY <1>2, <1>3, <1>4 DEF Inv, InMemory, maps, None
<1>8. EnteredHasRows'
  BY <1>3, <1>4 DEF Inv, EnteredHasRows, Transactions, HasResources, Entering, TypeInv, TypeOK
<1>9. EntryIsAllOrNothing'
  <2>1. ASSUME NEW q \in rows'.res
        PROVE  q \in rows'.attr /\ CityOf(q)' # {}
    <3>1. CASE q \in rows.res
      BY <1>3, <1>5, <3>1 DEF Inv, EntryIsAllOrNothing
    <3>2. CASE q \in session[c].res
      <4>1. q = r
        BY <1>4, <3>2 DEF Inv, Transactions, SessionIsOwn, Entering
      <4>2. r \in rows'.attr
        BY <1>3, <1>4 DEF Inv, Transactions, HasAttributes, Entering
      <4>3. CASE CityOf(r) # {}
        BY <1>5, <4>1, <4>2, <4>3
      <4>4. CASE session[c].city # {}
        <5>1. PICK m \in session[c].city : m.rid = r
          BY <1>4, <4>4 DEF Inv, Transactions, SessionIsOwn, Entering
        <5>2. m \in CityOf(q)'
          BY <1>3, <4>1, <5>1 DEF CityOf
        <5>. QED  BY <4>1, <4>2, <5>2
      <4>. QED  BY <1>4, <4>3, <4>4 DEF Inv, Transactions, HasCityRow
    <3>. QED  BY <1>3, <3>1, <3>2
  <2>2. \A m \in rows'.city : m.id \in rows'.fac
    BY <1>3, <1>4 DEF Inv, EntryIsAllOrNothing, Transactions, CityIsEquipped
  <2>. QED  BY <2>1, <2>2 DEF EntryIsAllOrNothing
<1>. QED  BY <1>6, <1>7, <1>8, <1>9 DEF Inv

(* A failed entry takes its rows back; the maps keep what they were given.  *)
LEMMA FailKeepsInv ==
    ASSUME TypeInv, Inv, NEW c \in Conns, Fail(c)
    PROVE  Inv'
<1>1. /\ handler'[c] = Idle /\ \A d \in Conns \ {c} : handler'[d] = handler[d]
  BY HandlerGoes DEF Fail, Abandoned, TypeInv
<1>2. /\ session'[c] = None /\ \A d \in Conns \ {c} : session'[d] = session[d]
  BY DEF Fail, Abandoned, TypeInv, RowsTyped
<1>3. UNCHANGED <<rows, maps, roleCache>>
  BY DEF Fail, tables
<1>4. Transactions'
  BY <1>1, <1>2, <1>3 DEF Inv, Idle, None, Entering, CityOf, Transactions, SessionIsOwn,
     HasResources, HasAttributes, NoCityYet, HasCityRow, CityIsEquipped
<1>5. InMemory'
  BY <1>2, <1>3 DEF Inv, InMemory, maps, None
<1>. QED  BY <1>3, <1>4, <1>5, CommittedStays DEF Inv

(* Attributes a union handler creates are committed and in memory at once.  *)
LEMMA CreateRAKeepsInv ==
    ASSUME TypeInv, Inv, NEW c \in Conns, TryCreateRA(c)
    PROVE  Inv'
<1>1. /\ rows'.res = rows.res /\ rows'.city = rows.city /\ rows'.fac = rows.fac
      /\ rows'.attr = rows.attr \cup {role[c]}
      /\ attrs' = attrs \cup {role[c]}
      /\ UNCHANGED <<session, handler, posRC, dbRB, roleCache>>
  BY DEF TryCreateRA, TypeInv, RowsTyped, Rows
<1>2. \A q : CityOf(q)' = CityOf(q)
  BY <1>1 DEF CityOf
<1>3. Transactions'
  BY <1>1, <1>2 DEF Inv, Transactions, SessionIsOwn, HasResources,
     HasAttributes, NoCityYet, HasCityRow, CityIsEquipped
<1>4. InMemory'
  BY <1>1 DEF Inv, InMemory
<1>5. EnteredHasRows' /\ EntryIsAllOrNothing'
  BY <1>1, <1>2 DEF Inv, EnteredHasRows, EntryIsAllOrNothing
<1>. QED  BY <1>3, <1>4, <1>5 DEF Inv

(* A restart brings into memory exactly what was committed.                 *)
LEMMA RestartKeepsInv ==
    ASSUME TypeInv, Inv, Restart
    PROVE  Inv'
<1>1. /\ \A c \in Conns : session'[c] = None /\ handler'[c] = Idle
      /\ \A r \in Rids : roleCache'[r] = NoConn
      /\ attrs' = rows.attr /\ dbRB' = {m.id : m \in rows.city} /\ UNCHANGED rows
  BY DEF Restart, tables
<1>2. Transactions'
  BY <1>1 DEF Idle, None, Entering, Transactions, SessionIsOwn, HasResources,
     HasAttributes, NoCityYet, HasCityRow, CityIsEquipped
<1>3. ASSUME NEW m \in rows.city PROVE posRC'[m.place] # 0
  <2>. DEFINE here == {n.id : n \in {k \in rows.city : k.place = m.place}}
  <2>1. m.place \in Places /\ m.id \in here /\ 0 \notin here
    BY DEF TypeInv, RowsTyped, Rows, Cities, CityIds
  <2>2. posRC'[m.place] \in (IF here = {} THEN {0} ELSE here)
    BY <2>1 DEF Restart
  <2>. QED  BY <2>1, <2>2
<1>4. InMemory'
  BY <1>1, <1>3 DEF InMemory, None
<1>5. EnteredHasRows' /\ EntryIsAllOrNothing'
  BY <1>1 DEF Inv, EnteredHasRows, EntryIsAllOrNothing, CityOf
<1>. QED  BY <1>2, <1>4, <1>5 DEF Inv

LEMMA InvIsInductive ==
    TypeInv /\ Inv /\ [Next]_vars => Inv'
<1>. SUFFICES ASSUME TypeInv, Inv, [Next]_vars
              PROVE  Inv'
  OBVIOUS
<1>1. ASSUME NEW c \in Conns, Handler(c)
      PROVE  Inv'
  <2>1. CASE Create(c) \/ \E u \in Users : CheckNoRole(c, u)
    BY <2>1, CreateKeepsInv
  <2>2. CASE \E r \in DOMAIN tbRole : EnterServer(c, r)
    BY <2>2, EnterKeepsInv
  <2>3. CASE CreateAttribute(c)
    BY <2>3, AttributeKeepsInv
  <2>4. CASE HasCity(c) \/ \E p \in Places : DrawPlace(c, p)
    BY <2>4, PlaceKeepsInv
  <2>5. CASE BuildCity(c)
    BY <2>5, BuildKeepsInv
  <2>6. CASE CreateFacility(c)
    BY <2>6, FacilityKeepsInv
  <2>7. CASE Commit(c)
    BY <2>7, CommitKeepsInv
  <2>8. CASE Fail(c)
    BY <2>8, FailKeepsInv
  <2>9. CASE TryCreateRA(c)
    BY <2>9, CreateRAKeepsInv
  <2>. QED  BY <1>1, <2>1, <2>2, <2>3, <2>4, <2>5, <2>6, <2>7, <2>8, <2>9 DEF Handler
<1>2. CASE Restart
  BY <1>2, RestartKeepsInv
<1>3. CASE UNCHANGED vars
  <2>1. UNCHANGED <<rows, session, handler, maps, roleCache>>
    BY <1>3 DEF vars, tables
  <2>2. Transactions'
    BY <2>1 DEF Inv, CityOf, Transactions, SessionIsOwn, HasResources,
       HasAttributes, NoCityYet, HasCityRow, CityIsEquipped
  <2>3. InMemory'
    BY <2>1 DEF Inv, InMemory, maps
  <2>. QED  BY <2>1, <2>2, <2>3, CommittedStays DEF Inv
<1>. QED  BY <1>1, <1>2, <1>3 DEF Next

-----------------------------------------------------------------------------
(* Types.                                                                   *)

(* TypeOK in parts.  A city has its number to itself, wherever its row is.  *)
TablesTyped ==
    /\ tbRole \in Seq(Users) /\ Len(tbRole) <= MaxRoles
    /\ rows.res \cup rows.attr \cup attrs \subseteq DOMAIN tbRole
    /\ rows.fac \cup dbRB \subseteq 1..lastCity

IdleIsClosed == \A c \in Conns : handler[c].at \in {"idle", "create"} => session[c] = None

MapsTyped ==
    /\ role \in [Conns -> Rids \cup {0}]
    /\ posRC \in [Places -> CityIds \cup {0}]
    /\ roleRC \in [Rids -> [known : BOOLEAN, cities : SUBSET CityIds]]
    /\ roleCache \in [Rids -> Conns \cup {NoConn}]

AllCities == rows.city \cup UNION {session[c].city : c \in Conns}

CitiesNumbered ==
    /\ AllCities \subseteq [id : 1..lastCity, rid : Rids, place : Places]
    /\ \A m, n \in AllCities : m.id = n.id => m = n

TypeParts == TablesTyped /\ IdleIsClosed /\ MapsTyped /\ CitiesNumbered

LEMMA TypeOKInParts == (TypeOK <=> TypeParts) /\ (TypeOK' <=> TypeParts')
BY DEF TypeOK, TypeParts, TablesTyped, IdleIsClosed, MapsTyped, CitiesNumbered, AllCities

(* Numbers are only lost when rows of cities are.                           *)
LEMMA CitiesStayNumbered ==
    ASSUME TypeInv, UNCHANGED lastCity, rows'.city \subseteq AllCities,
           \A c \in Conns : session'[c].city \subseteq session[c].city
    PROVE  CitiesNumbered'
<1>1. AllCities' \subseteq AllCities
  BY DEF AllCities
<1>. QED  BY <1>1, TypeOKInParts DEF TypeParts, TypeInv, CitiesNumbered

(* Roles and cities are numbered from 1, within the bounds.                 *)
LEMMA NumbersTyped ==
    ASSUME TypeInv
    PROVE  /\ DOMAIN tbRole = 1..Len(tbRole) /\ Len(tbRole) \in Nat
           /\ 1..Len(tbRole) \subseteq Rids
           /\ lastCity \in Nat /\ 1..lastCity \subseteq CityIds
<1>1. /\ tbRole \in Seq(Users) /\ Len(tbRole) <= MaxRoles
      /\ lastCity \in 0..MaxCities /\ MaxRoles \in Nat /\ MaxCities \in Nat
  BY EntryAssumption DEF TypeInv, TypeOK, RowsTyped
<1>2. DOMAIN tbRole = 1..Len(tbRole) /\ Len(tbRole) \in Nat
  BY <1>1, LenProperties
<1>. QED  BY <1>1, <1>2 DEF Rids, CityIds

LEMMA TypeHoldsAtInit == Init => TypeInv
<1>. SUFFICES ASSUME Init PROVE TypeInv
  OBVIOUS
<1>1. Len(tbRole) = 0 /\ tbRole \in Seq(Users) /\ 0 <= MaxRoles /\ 0 \in 0..MaxCities
  BY EntryAssumption, EmptySeq DEF Init
<1>2. TablesTyped /\ IdleIsClosed /\ MapsTyped /\ CitiesNumbered
  BY <1>1 DEF Init, TablesTyped, IdleIsClosed, MapsTyped, CitiesNumbered, AllCities, None, NoEntry
<1>3. RowsTyped
  BY <1>1 DEF Init, RowsTyped, Rows, None
<1>4. HandlersTyped
  BY DEF Init, HandlersTyped, Idle, Entering
<1>. QED  BY <1>2, <1>3, <1>4, TypeOKInParts DEF TypeParts, TypeInv

(* Steps that only take a handler further.                                  *)
LEMMA HandlerKeepsTypes ==
    ASSUME TypeInv, NEW c \in Conns, NEW next, Goes(c, next),
           UNCHANGED <<tables, session, role, maps, roleCache, lastCity>>,
           \/ next.at = "create" /\ next.uid \in Users /\ handler[c].at = "idle"
           \/ next.at = "commit" /\ next.rid \in 1..Len(tbRole)
           \/ next.at = "build" /\ next.rid \in 1..Len(tbRole) /\ next.place \in Places
    PROVE  TypeInv'
<1>1. handler'[c] = next /\ \A d \in Conns \ {c} : handler'[d] = handler[d]
  BY HandlerGoes DEF TypeInv
<1>2. TablesTyped' /\ MapsTyped'
  BY TypeOKInParts DEF TypeParts, TypeInv, TablesTyped, MapsTyped, tables, maps
<1>3. CitiesNumbered'
  BY CitiesStayNumbered DEF tables, AllCities
<1>4. IdleIsClosed'
  BY <1>1, TypeOKInParts DEF TypeParts, TypeInv, IdleIsClosed
<1>5. RowsTyped'
  BY DEF TypeInv, RowsTyped, tables, maps
<1>6. HandlersTyped'
  BY <1>1 DEF TypeInv, HandlersTyped, Goes, tables, Entering
<1>. QED  BY <1>2, <1>3, <1>4, <1>5, <1>6, TypeOKInParts DEF TypeParts, TypeInv

(* create: a role is added behind the others.                               *)
LEMMA CreateKeepsTypes ==
    ASSUME TypeInv, NEW c \in Conns, Create(c)
    PROVE  TypeInv'
<1>1. handler'[c] = Idle /\ \A d \in Conns \ {c} : handler'[d] = handler[d]
  BY HandlerGoes DEF TypeInv, Create
<1>2. handler[c].at = "create" /\ handler[c].uid \in Users
  BY DEF TypeInv, HandlersTyped, Create, At
<1>3. /\ tbRole' \in Seq(Users) /\ Len(tbRole') = Len(tbRole) + 1 /\ Len(tbRole') <= MaxRoles
      /\ DOMAIN tbRole' = 1..Len(tbRole')
  <2>1. tbRole' = Append(tbRole, handler[c].uid) /\ Len(tbRole) < MaxRoles /\ tbRole \in Seq(Users)
    BY DEF Create, TypeInv, TypeOK
  <2>. QED  BY <1>2, <2>1, EntryAssumption, NumbersTyped, AppendProperties, LenProperties
<1>4. UNCHANGED <<rows, session, role, maps, roleCache, lastCity>>
  BY DEF Create
<1>5. 1..Len(tbRole) \subseteq 1..Len(tbRole')
  BY <1>3, NumbersTyped
<1>6. TablesTyped'
  BY <1>3, <1>4, <1>5, NumbersTyped, TypeOKInParts DEF TypeParts, TypeInv, TablesTyped, maps
<1>7. MapsTyped'
  BY <1>4, TypeOKInParts DEF TypeParts, TypeInv, MapsTyped, maps
<1>8. CitiesNumbered'
  BY <1>4, CitiesStayNumbered DEF AllCities
<1>9. IdleIsClosed'
  BY <1>1, <1>2, <1>4, TypeOKInParts DEF TypeParts, TypeInv, IdleIsClosed
<1>10. RowsTyped'
  BY <1>3, <1>4, <1>5, NumbersTyped DEF TypeInv, RowsTyped, maps
<1>11. HandlersTyped'
  BY <1>1, <1>4, <1>5 DEF TypeInv, HandlersTyped, Create, Goes, Idle, Entering
<1>. QED  BY <1>6, <1>7, <1>8, <1>9, <1>10, <1>11, TypeOKInParts DEF TypeParts, TypeInv

(* Any step that inserts into the transaction of a handler that enters and  *)
(* takes it to another step of the entry.                                   *)
LEMMA InsertKeepsTypes ==
    ASSUME TypeInv, NEW c \in Conns, NEW next, Goes(c, next),
           UNCHANGED <<tables, posRC, dbRB, roleRC, roleCache, lastCity>>,
           next.at \in Entering \ {"build"}, next.rid \in 1..Len(tbRole),
           next.at = "facility" => next.city \in 1..lastCity,
           role' = role \/ role' = [role EXCEPT ![c] = next.rid],
           attrs' = attrs \/ attrs' = attrs \cup {next.rid},
           session' \in [Conns -> Rows],
           \A d \in Conns \ {c} : session'[d] = session[d],
           session'[c].city = session[c].city,
           session'[c].res \subseteq session[c].res \cup {next.rid},
           session'[c].attr \subseteq session[c].attr \cup {next.rid},
           session'[c].fac \subseteq 1..lastCity
    PROVE  TypeInv'
<1>1. handler'[c] = next /\ \A d \in Conns \ {c} : handler'[d] = handler[d]
  BY HandlerGoes DEF TypeInv
<1>2. TablesTyped'
  BY NumbersTyped, TypeOKInParts DEF TypeParts, TypeInv, TablesTyped, tables
<1>3. MapsTyped'
  BY NumbersTyped, TypeOKInParts DEF TypeParts, TypeInv, MapsTyped
<1>4. CitiesNumbered'
  BY CitiesStayNumbered DEF tables, AllCities
<1>5. IdleIsClosed'
  BY <1>1, TypeOKInParts DEF TypeParts, TypeInv, IdleIsClosed, Entering
<1>6. RowsTyped'
  <2>1. attrs' \subseteq Rids
    BY NumbersTyped DEF TypeInv, RowsTyped
  <2>2. \A d \in Conns : role'[d] \in 0..Len(tbRole)
    BY NumbersTyped, TypeOKInParts DEF TypeParts, TypeInv, RowsTyped, MapsTyped
  <2>. QED  BY <2>1, <2>2 DEF TypeInv, RowsTyped, tables
<1>7. HandlersTyped'
  BY <1>1 DEF TypeInv, HandlersTyped, Goes, tables, Entering
<1>. QED  BY <1>2, <1>3, <1>4, <1>5, <1>6, <1>7, TypeOKInParts DEF TypeParts, TypeInv

LEMMA InsertionsKeepTypes ==
    ASSUME TypeInv, NEW c \in Conns,
           \/ \E r \in DOMAIN tbRole : EnterServer(c, r)
           \/ CreateAttribute(c)
           \/ CreateFacility(c)
    PROVE  TypeInv'
<1>1. ASSUME NEW r \in DOMAIN tbRole, EnterServer(c, r)
      PROVE  TypeInv'
  <2>1. r \in 1..Len(tbRole) /\ r \in Rids
    BY NumbersTyped
  <2>2. session' \in [Conns -> Rows]
    BY <1>1, <2>1 DEF EnterServer, Inserts, TypeInv, RowsTyped, Rows
  <2>3. /\ session'[c].res \subseteq session[c].res \cup {r}
        /\ session'[c].attr = session[c].attr /\ session'[c].city = session[c].city
        /\ session'[c].fac = session[c].fac
        /\ \A d \in Conns \ {c} : session'[d] = session[d]
    BY <1>1, RowInserted DEF EnterServer, TypeInv
  <2>4. session[c].fac \subseteq 1..lastCity
    BY DEF TypeInv, RowsTyped
  <2>. DEFINE next == [at |-> "attribute", rid |-> r]
  <2>5. /\ Goes(c, next) /\ role' = [role EXCEPT ![c] = r]
        /\ UNCHANGED <<tables, maps, roleCache, lastCity>>
    BY <1>1 DEF EnterServer
  <2>6. next.at \in Entering \ {"build"} /\ next.at # "facility" /\ next.rid = r
    BY DEF Entering
  <2>. HIDE DEF next
  <2>. QED  BY <2>1, <2>2, <2>3, <2>4, <2>5, <2>6, InsertKeepsTypes DEF maps
<1>2. CASE CreateAttribute(c)
  <2>. DEFINE r == handler[c].rid
              next == [at |-> "city", rid |-> r]
  <2>1. r \in 1..Len(tbRole) /\ r \in Rids
    BY <1>2, NumbersTyped DEF CreateAttribute, At, TypeInv, HandlersTyped, Entering
  <2>2. session' \in [Conns -> Rows]
    <3>1. CASE r \in rows.attr
      BY <1>2, <3>1 DEF CreateAttribute, TypeInv, RowsTyped
    <3>2. CASE Inserts(c, "attr", r)
      BY <2>1, <3>2 DEF Inserts, TypeInv, RowsTyped, Rows
    <3>. QED  BY <1>2, <3>1, <3>2 DEF CreateAttribute
  <2>3. /\ session'[c].attr \subseteq session[c].attr \cup {r}
        /\ session'[c].res = session[c].res /\ session'[c].city = session[c].city
        /\ session'[c].fac = session[c].fac
        /\ \A d \in Conns \ {c} : session'[d] = session[d]
    BY <1>2, RowInserted DEF CreateAttribute, TypeInv
  <2>4. session[c].fac \subseteq 1..lastCity
    BY DEF TypeInv, RowsTyped
  <2>5. /\ Goes(c, next)
        /\ attrs' = attrs \/ attrs' = attrs \cup {r}
        /\ UNCHANGED <<tables, role, posRC, dbRB, roleRC, roleCache, lastCity>>
    BY <1>2 DEF CreateAttribute
  <2>6. next.at \in Entering \ {"build"} /\ next.at # "facility" /\ next.rid = r
    BY DEF Entering
  <2>. HIDE DEF next, r
  <2>. QED  BY <2>1, <2>2, <2>3, <2>4, <2>5, <2>6, InsertKeepsTypes
<1>3. CASE CreateFacility(c)
  <2>. DEFINE r == handler[c].rid
              next == [at |-> "commit", rid |-> r]
  <2>1. r \in 1..Len(tbRole) /\ handler[c].city \in 1..lastCity /\ handler[c].city \in CityIds
    BY <1>3, NumbersTyped DEF CreateFacility, At, TypeInv, HandlersTyped, Entering
  <2>2. session' \in [Conns -> Rows]
    <3>1. CASE handler[c].city \in rows.fac
      BY <1>3, <3>1 DEF CreateFacility, TypeInv, RowsTyped
    <3>2. CASE Inserts(c, "fac", handler[c].city)
      BY <2>1, <3>2 DEF Inserts, TypeInv, RowsTyped, Rows
    <3>. QED  BY <1>3, <3>1, <3>2 DEF CreateFacility
  <2>3. /\ session'[c].fac \subseteq session[c].fac \cup {handler[c].city}
        /\ session'[c].res = session[c].res /\ session'[c].attr = session[c].attr
        /\ session'[c].city = session[c].city
        /\ \A d \in Conns \ {c} : session'[d] = session[d]
    BY <1>3, RowInserted DEF CreateFacility, TypeInv
  <2>4. session'[c].fac \subseteq 1..lastCity
    BY <2>1, <2>3 DEF TypeInv, RowsTyped
  <2>5. Goes(c, next) /\ UNCHANGED <<tables, role, maps, roleCache, lastCity>>
    BY <1>3 DEF CreateFacility
  <2>6. next.at \in Entering \ {"build"} /\ next.at # "facility" /\ next.rid = r
    BY DEF Entering
  <2>. HIDE DEF next, r
  <2>. QED  BY <2>1, <2>2, <2>3, <2>4, <2>5, <2>6, InsertKeepsTypes DEF maps
<1>. QED  BY <1>1, <1>2, <1>3

LEMMA PlacesKeepTypes ==
    ASSUME TypeInv, NEW c \in Conns,
           \/ \E u \in Users : CheckNoRole(c, u)
           \/ HasCity(c)
           \/ \E p \in Places : DrawPlace(c, p)
    PROVE  TypeInv'
<1>1. ASSUME NEW u \in Users, CheckNoRole(c, u)
      PROVE  TypeInv'
  <2>. DEFINE next == [at |-> "create", uid |-> u]
  <2>1. /\ Goes(c, next) /\ next.at = "create" /\ next.uid = u /\ handler[c].at = "idle"
        /\ UNCHANGED <<tables, session, role, maps, roleCache, lastCity>>
    BY <1>1 DEF CheckNoRole, At
  <2>. HIDE DEF next
  <2>. QED  BY <2>1, HandlerKeepsTypes
<1>2. CASE HasCity(c)
  <2>. DEFINE next == [at |-> "commit", rid |-> handler[c].rid]
  <2>1. /\ Goes(c, next) /\ next.at = "commit" /\ next.rid \in 1..Len(tbRole)
        /\ UNCHANGED <<tables, session, role, maps, roleCache, lastCity>>
    BY <1>2 DEF HasCity, At, TypeInv, HandlersTyped, Entering
  <2>. HIDE DEF next
  <2>. QED  BY <2>1, HandlerKeepsTypes
<1>3. ASSUME NEW p \in Places, DrawPlace(c, p)
      PROVE  TypeInv'
  <2>. DEFINE next == [at |-> "build", rid |-> handler[c].rid, place |-> p]
  <2>1. /\ Goes(c, next) /\ next.at = "build" /\ next.rid \in 1..Len(tbRole) /\ next.place \in Places
        /\ UNCHANGED <<tables, session, role, maps, roleCache, lastCity>>
    BY <1>3 DEF DrawPlace, At, TypeInv, HandlersTyped, Entering
  <2>. HIDE DEF next
  <2>. QED  BY <2>1, HandlerKeepsTypes
<1>. QED  BY <1>1, <1>2, <1>3

(* A new city takes a number nobody has.                                    *)
LEMMA BuildKeepsTypes ==
    ASSUME TypeInv, NEW c \in Conns, BuildCity(c)
    PROVE  TypeInv'
<1>. DEFINE r  == handler[c].rid
            id == lastCity + 1
            p  == handler[c].place
            m  == [id |-> id, rid |-> r, place |-> p]
            next == [at |-> "facility", rid |-> r, city |-> id]
<1>1. handler'[c] = next /\ \A d \in Conns \ {c} : handler'[d] = handler[d]
  BY HandlerGoes DEF BuildCity, TypeInv
<1>2. /\ handler[c].at = "build" /\ r \in 1..Len(tbRole) /\ r \in Rids /\ p \in Places
  BY NumbersTyped DEF BuildCity, At, TypeInv, HandlersTyped, Entering
<1>3. /\ lastCity' = id /\ id \in CityIds /\ id \in 0..MaxCities
      /\ 1..id = (1..lastCity) \cup {id} /\ id \notin 1..lastCity /\ lastCity \in Nat
  BY NumbersTyped, EntryAssumption DEF BuildCity, CityIds
<1>4. UNCHANGED <<tbRole, rows, role, attrs, roleCache>>
  BY DEF BuildCity, InsertCity
<1>5. Inserts(c, "city", m) /\ m \in Cities
  BY <1>2, <1>3 DEF BuildCity, InsertCity, Cities
<1>6. /\ session'[c].city = session[c].city \cup {m}
      /\ session'[c].res = session[c].res /\ session'[c].attr = session[c].attr
      /\ session'[c].fac = session[c].fac
      /\ \A d \in Conns \ {c} : session'[d] = session[d]
  <2>. HIDE DEF m
  <2>. QED  BY <1>5, RowInserted DEF TypeInv
<1>7. session' \in [Conns -> Rows]
  <2>. HIDE DEF m
  <2>. QED  BY <1>5 DEF Inserts, TypeInv, RowsTyped, Rows
<1>8. TablesTyped'
  BY <1>3, <1>4, TypeOKInParts DEF BuildCity, TypeParts, TypeInv, TablesTyped
<1>9. MapsTyped'
  <2>1. posRC' = [posRC EXCEPT ![p] = id] /\ posRC \in [Places -> CityIds \cup {0}]
    BY TypeOKInParts DEF BuildCity, TypeParts, TypeInv, MapsTyped
  <2>2. roleRC' \in [Rids -> [known : BOOLEAN, cities : SUBSET CityIds]]
    <3>. DEFINE entry == [known |-> TRUE,
                          cities |-> IF roleRC[r].known THEN roleRC[r].cities \cup {id} ELSE {}]
    <3>1. roleRC' = [roleRC EXCEPT ![r] = entry]
      BY DEF BuildCity
    <3>2. roleRC \in [Rids -> [known : BOOLEAN, cities : SUBSET CityIds]]
      BY TypeOKInParts DEF TypeParts, TypeInv, MapsTyped
    <3>3. entry \in [known : BOOLEAN, cities : SUBSET CityIds]
      BY <1>2, <1>3, <3>2
    <3>. HIDE DEF entry, r
    <3>. QED  BY <3>1, <3>2, <3>3
  <2>. QED  BY <1>3, <1>4, <2>1, <2>2, TypeOKInParts DEF TypeParts, TypeInv, MapsTyped
<1>10. CitiesNumbered'
  <2>1. AllCities' = AllCities \cup {m}
    BY <1>4, <1>6 DEF AllCities
  <2>2. /\ AllCities \subseteq [id : 1..lastCity, rid : Rids, place : Places]
        /\ \A k, n \in AllCities : k.id = n.id => k = n
    BY TypeOKInParts DEF TypeParts, TypeInv, CitiesNumbered
  <2>3. m.id = id /\ \A n \in AllCities : n.id \in 1..lastCity
    BY <2>2
  <2>4. AllCities' \subseteq [id : 1..lastCity', rid : Rids, place : Places]
    BY <1>2, <1>3, <2>1, <2>2
  <2>5. \A k, n \in AllCities' : k.id = n.id => k = n
    <3>. HIDE DEF m, id
    <3>. QED  BY <1>3, <2>1, <2>2, <2>3
  <2>. QED  BY <2>4, <2>5 DEF CitiesNumbered
<1>11. IdleIsClosed'
  BY <1>1, <1>6, TypeOKInParts DEF TypeParts, TypeInv, IdleIsClosed
<1>12. RowsTyped'
  BY <1>3, <1>4, <1>6, <1>7 DEF BuildCity, TypeInv, RowsTyped
<1>13. HandlersTyped'
  BY <1>1, <1>2, <1>3, <1>4 DEF BuildCity, Goes, TypeInv, HandlersTyped, Entering
<1>. QED  BY <1>8, <1>9, <1>10, <1>11, <1>12, <1>13, TypeOKInParts DEF TypeParts, TypeInv

(* The end of an entry, with its rows committed or not.                     *)
LEMMA EndKeepsTypes ==
    ASSUME TypeInv, NEW c \in Conns, Commit(c) \/ Fail(c)
    PROVE  TypeInv'
<1>1. handler'[c] = Idle /\ \A d \in Conns \ {c} : handler'[d] = handler[d]
  BY HandlerGoes DEF Commit, Fail, Abandoned, TypeInv
<1>2. session' = [session EXCEPT ![c] = None] /\ None \in Rows
  BY DEF Commit, Fail, Abandoned, None, Rows
<1>3. /\ session'[c] = None /\ \A d \in Conns \ {c} : session'[d] = session[d]
      /\ session' \in [Conns -> Rows]
  BY <1>2 DEF TypeInv, RowsTyped
<1>4. UNCHANGED <<tbRole, role, maps, lastCity>>
  BY DEF Commit, Fail, tables
<1>5. /\ rows' \in Rows
      /\ rows'.res \subseteq rows.res \cup session[c].res
      /\ rows'.attr \subseteq rows.attr \cup session[c].attr
      /\ rows'.city \subseteq rows.city \cup session[c].city
      /\ rows'.fac \subseteq rows.fac \cup session[c].fac
  <2>1. CASE Commit(c)
    BY <2>1, RowsMerged DEF Commit, TypeInv
  <2>2. CASE Fail(c)
    BY <2>2 DEF Fail, tables, TypeInv, RowsTyped
  <2>. QED  BY <2>1, <2>2
<1>6. TablesTyped'
  BY <1>4, <1>5, NumbersTyped, TypeOKInParts DEF TypeParts, TypeInv, TablesTyped, RowsTyped, maps
<1>7. MapsTyped'
  BY <1>4, TypeOKInParts DEF Commit, Fail, TypeParts, TypeInv, MapsTyped, maps
<1>8. CitiesNumbered'
  BY <1>3, <1>4, <1>5, CitiesStayNumbered DEF AllCities, None
<1>9. IdleIsClosed'
  BY <1>1, <1>3, TypeOKInParts DEF TypeParts, TypeInv, IdleIsClosed
<1>10. RowsTyped'
  BY <1>3, <1>4, <1>5 DEF TypeInv, RowsTyped, None, maps
<1>11. HandlersTyped'
  <2>. DOMAIN handler' = Conns
    BY DEF Commit, Fail, Abandoned, Goes, TypeInv, HandlersTyped
  <2>. QED  BY <1>1, <1>4 DEF TypeInv, HandlersTyped, Idle, Entering
<1>. QED  BY <1>6, <1>7, <1>8, <1>9, <1>10, <1>11, TypeOKInParts DEF TypeParts, TypeInv

LEMMA CreateRAKeepsTypes ==
    ASSUME TypeInv, NEW c \in Conns, TryCreateRA(c)
    PROVE  TypeInv'
<1>1. /\ rows'.res = rows.res /\ rows'.city = rows.city /\ rows'.fac = rows.fac
      /\ rows'.attr = rows.attr \cup {role[c]} /\ attrs' = attrs \cup {role[c]}
      /\ UNCHANGED <<tbRole, session, handler, role, posRC, dbRB, roleRC, roleCache, lastCity>>
  BY DEF TryCreateRA, TypeInv, RowsTyped, Rows
<1>2. role[c] \in 1..Len(tbRole) /\ role[c] \in Rids
  BY NumbersTyped DEF TryCreateRA, TypeInv, RowsTyped
<1>3. TablesTyped'
  BY <1>1, <1>2, NumbersTyped, TypeOKInParts DEF TypeParts, TypeInv, TablesTyped
<1>4. MapsTyped' /\ IdleIsClosed'
  BY <1>1, TypeOKInParts DEF TypeParts, TypeInv, MapsTyped, IdleIsClosed
<1>5. CitiesNumbered'
  BY <1>1, CitiesStayNumbered DEF AllCities
<1>6. rows' \in Rows
  BY <1>2 DEF TryCreateRA, TypeInv, RowsTyped, Rows
<1>7. RowsTyped' /\ HandlersTyped'
  BY <1>1, <1>2, <1>6 DEF TypeInv, RowsTyped, HandlersTyped
<1>. QED  BY <1>3, <1>4, <1>5, <1>7, TypeOKInParts DEF TypeParts, TypeInv

LEMMA RestartKeepsTypes ==
    ASSUME TypeInv, Restart
    PROVE  TypeInv'
<1>1. /\ session' = [c \in Conns |-> None] /\ handler' = [c \in Conns |-> Idle]
      /\ role' = [c \in Conns |-> 0] /\ roleCache' = [r \in Rids |-> NoConn]
      /\ attrs' = rows.attr /\ dbRB' = {m.id : m \in rows.city}
      /\ UNCHANGED <<tbRole, rows, lastCity>>
  BY DEF Restart, tables
<1>2. /\ rows.attr \subseteq 1..Len(tbRole) /\ rows.attr \subseteq Rids
      /\ \A m \in rows.city : m.id \in 1..lastCity /\ m.id \in CityIds
  BY NumbersTyped, TypeOKInParts DEF TypeParts, TypeInv, TablesTyped, CitiesNumbered, AllCities
<1>3. TablesTyped'
  BY <1>1, <1>2, NumbersTyped, TypeOKInParts DEF TypeParts, TypeInv, TablesTyped
<1>4. MapsTyped'
  <2>1. posRC' \in [Places -> CityIds \cup {0}]
    BY DEF Restart
  <2>2. roleRC' \in [Rids -> [known : BOOLEAN, cities : SUBSET CityIds]]
    <3>1. roleRC' = [r \in Rids |-> [known |-> CityOf(r) # {}, cities |-> {m.id : m \in CityOf(r)}]]
      BY DEF Restart
    <3>2. \A r \in Rids : {m.id : m \in CityOf(r)} \subseteq CityIds /\ (CityOf(r) # {}) \in BOOLEAN
      BY <1>2 DEF CityOf
    <3>. QED  BY <3>1, <3>2
  <2>. QED  BY <1>1, <2>1, <2>2 DEF MapsTyped
<1>5. CitiesNumbered'
  BY <1>1, CitiesStayNumbered DEF AllCities, None
<1>6. IdleIsClosed'
  BY <1>1 DEF IdleIsClosed
<1>7. RowsTyped'
  BY <1>1, <1>2, NumbersTyped DEF TypeInv, RowsTyped, Rows, None
<1>8. HandlersTyped'
  BY <1>1 DEF HandlersTyped, Idle, Entering
<1>. QED  BY <1>3, <1>4, <1>5, <1>6, <1>7, <1>8, TypeOKInParts DEF TypeParts, TypeInv

LEMMA TypesAreInductive ==
    TypeInv /\ [Next]_vars => TypeInv'
<1>. SUFFICES ASSUME TypeInv, [Next]_vars
              PROVE  TypeInv'
  OBVIOUS
<1>1. ASSUME NEW c \in Conns, Handler(c)
      PROVE  TypeInv'
  BY <1>1, PlacesKeepTypes, CreateKeepsTypes, InsertionsKeepTypes, BuildKeepsTypes, EndKeepsTypes,
     CreateRAKeepsTypes DEF Handler
<1>2. CASE Restart
  BY <1>2, RestartKeepsTypes
<1>3. CASE UNCHANGED vars
  <2>1. UNCHANGED <<tables, session, handler, role, maps, roleCache, lastCity>>
    BY <1>3 DEF vars
  <2>2. TablesTyped' /\ IdleIsClosed' /\ MapsTyped' /\ CitiesNumbered'
    BY <2>1, TypeOKInParts DEF TypeParts, TypeInv, TablesTyped, IdleIsClosed, MapsTyped,
       CitiesNumbered, AllCities, tables, maps
  <2>3. RowsTyped' /\ HandlersTyped'
    BY <2>1 DEF TypeInv, RowsTyped, HandlersTyped, tables, maps
  <2>. QED  BY <2>2, <2>3, TypeOKInParts DEF TypeParts, TypeInv
<1>. QED  BY <1>1, <1>2, <1>3 DEF Next

-----------------------------------------------------------------------------
(* Theorems.                                                                *)

(* The invariant of the entries: whatever enters, fails or restarts, an     *)
(* open transaction holds the rows its handler's step says (EnterServer,    *)
(* TryCreate, InitCity), and the maps hold what any of them has inserted.   *)
THEOREM InvariantHolds == Spec => [](TypeInv /\ Inv)
<1>1. Init => TypeInv /\ Inv
  BY TypeHoldsAtInit, InvHoldsAtInit
<1>2. TypeInv /\ Inv /\ [Next]_vars => (TypeInv /\ Inv)'
  BY TypesAreInductive, InvIsInductive
<1>. QED  BY <1>1, <1>2, PTL DEF Spec

(* The state keeps its shape, no connection keeps a transaction open after  *)
(* its entry, and every city has its number to itself.                      *)
THEOREM TypeCorrect == Spec => []TypeOK
<1>1. TypeInv => TypeOK
  BY DEF TypeInv
<1>. QED  BY <1>1, InvariantHolds, PTL

(* An entry leaves all of its rows or none, with any number of roles        *)
(* entering at once and wherever they are interrupted (role.go:22-86).      *)
THEOREM AllOrNothing == Spec => []EntryIsAllOrNothing
<1>1. Inv => EntryIsAllOrNothing
  BY DEF Inv
<1>. QED  BY <1>1, InvariantHolds, PTL

(* Attributes, cities and their places are in memory for every role that    *)
(* is in the game, those found in the tables too, which nothing caches      *)
(* again (roleAttribute.go:53-57, roleCity.go:51-56).                       *)
THEOREM InMemoryWhenEntered == Spec => []EnteredIsInMemory
<1>1. Inv => EnteredIsInMemory
  <2>. SUFFICES ASSUME Inv, NEW r \in Rids, roleCache[r] # NoConn
                PROVE  /\ r \in rows.res /\ r \in attrs
                       /\ \E m \in CityOf(r) : m.id \in dbRB
                       /\ \A m \in CityOf(r) : m.id \in dbRB /\ posRC[m.place] # 0
    BY DEF EnteredIsInMemory
  <2>1. r \in rows.res
    BY DEF Inv, EnteredHasRows
  <2>2. r \in attrs /\ CityOf(r) # {}
    BY <2>1 DEF Inv, EntryIsAllOrNothing, InMemory
  <2>3. \A m \in CityOf(r) : m.id \in dbRB /\ posRC[m.place] # 0
    BY DEF Inv, InMemory, CityOf
  <2>. QED  BY <2>1, <2>2, <2>3
<1>. QED  BY <1>1, InvariantHolds, PTL
==============================================================================
