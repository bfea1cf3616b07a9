---------------------------- MODULE MusterProofs -----------------------------
(***************************************************************************)
(* Proofs about Muster: for any connections, armies, positions, generals,  *)
(* capacities and costs, no copy of an army holds a soldier that was not   *)
(* paid for, and no general leads more than it can.                        *)
(*                                                                         *)
(* The argument is the same for every copy: what is true of the row a      *)
(* handler or a march has read is true of what it makes of it, so that it  *)
(* does not matter in which order copies are written.                      *)
(***************************************************************************)
EXTENDS Muster, SequenceTheorems, FiniteSetTheorems, FunctionTheorems, TLAPS

-----------------------------------------------------------------------------
(* The inductive invariant.                                                 *)

(* A position that waits for no time waits for no soldiers: what makes it   *)
(* safe to give the position of a conscripting army to another general.     *)
Kept(row) == \A p \in Positions : row.time[p] = 0 => row.cnt[p] = 0

Covered(row) ==
    \A p \in Posts(row) :
        row.soldiers[p] + (IF row.cmd = "conscript" THEN row.cnt[p] ELSE 0) <= CapOf[row.gens[p]]

Paid(a, row) == \A p \in Positions : row.soldiers[p] + row.cnt[p] <= paid[a][p]

Good(a, row) == row \in Rows /\ Kept(row) /\ Covered(row) /\ Paid(a, row)

Seen   == [Generals -> BOOLEAN]
Read   == [row : Rows, seen : Seen]
Queued == [general : Generals, posted : BOOLEAN]

Entries  == {e \in [army : Armies, row : Rows] : Good(e.army, e.row)}
OnMarch  == {m \in [army : Armies, copy : Read] : Good(m.army, m.copy.row)}

Disposing ==
    {h \in [at : {"dispose"}, army : Armies, gen : Generals, pos : Positions \cup {Off}, copy : Read] :
        /\ Good(h.army, h.copy.row)
        /\ h.pos # Off => PositionCanModify(h.copy.row, h.pos)}

Conscripting ==
    {h \in [at : {"conscript"}, army : Armies, cnts : [Positions -> Counts], row : Rows,
            stamp : 1..MaxRequests] :
        Good(h.army, h.row) /\ MayConscript(h.row, h.cnts)}

RowsGood ==
    /\ rows = [a \in DOMAIN rows |-> rows[a]] /\ DOMAIN rows \subseteq Armies
    /\ \A a \in DOMAIN rows : Good(a, rows[a])

QueueGood    == armyChan \in Seq(Entries)
MarchesGood  == marches \in Seq(OnMarch)
HandlersGood == handler \in [Conns -> {Idle} \cup Disposing \cup Conscripting]

Shaped ==
    /\ posted \in Seen /\ genChan \in Seq(Queued)
    /\ past \subseteq (1..MaxRequests) \X Positions
    /\ paid \in [Armies -> [Positions -> Nat]] /\ requests \in 0..MaxRequests
    /\ Len(marches) <= MaxMarches

Inv == RowsGood /\ QueueGood /\ MarchesGood /\ HandlersGood /\ Shaped

-----------------------------------------------------------------------------
(* What is done to a row.                                                   *)

LEMMA Numbers ==
    /\ Armies \subseteq Nat /\ Positions \subseteq Nat /\ IsFiniteSet(Positions)
    /\ None \notin Generals /\ CapOf \in [Generals -> Nat]
    /\ MaxRequests \in Nat /\ MaxMarches \in Nat /\ Counts \subseteq Nat
    /\ Off \notin Positions
BY MusterAssumption DEF Off

LEMMA RowFields ==
    ASSUME NEW row \in Rows, NEW p \in Positions
    PROVE  /\ row.gens[p] \in Generals \cup {None} /\ row.soldiers[p] \in Nat
           /\ row.cnt[p] \in Nat /\ row.time[p] \in 0..MaxRequests
           /\ row.cmd \in {"idle", "conscript", "attack", "back"}
           /\ p \in Posts(row) => row.gens[p] \in Generals /\ CapOf[row.gens[p]] \in Nat
BY Numbers DEF Rows, Posts

LEMMA CheckedIsGood ==
    ASSUME NEW a \in Armies, NEW row, Good(a, row), paid[a] \in [Positions -> Nat]
    PROVE  Good(a, CheckConscript(row))
<1>1. CASE row.cmd # "conscript"
  BY <1>1 DEF CheckConscript
<1>2. CASE row.cmd = "conscript"
  <2>1. PICK new : new = CheckConscript(row)
    OBVIOUS
  <2>2. row \in Rows
    BY DEF Good
  <2>3. /\ new.gens = row.gens
        /\ new.soldiers = [p \in Positions |-> row.soldiers[p] + IF p \in Due(row) THEN row.cnt[p] ELSE 0]
        /\ new.cnt = [p \in Positions |-> IF p \in Due(row) THEN 0 ELSE row.cnt[p]]
        /\ new.time = [p \in Positions |-> IF p \in Due(row) THEN 0 ELSE row.time[p]]
        /\ new.cmd = IF Due(row) = Positions THEN "idle" ELSE row.cmd
        /\ new = [gens |-> new.gens, soldiers |-> new.soldiers, cnt |-> new.cnt,
                  time |-> new.time, cmd |-> new.cmd]
    BY <1>2, <2>1, <2>2 DEF CheckConscript, Rows
  <2>4. ASSUME NEW p \in Positions
        PROVE  /\ new.soldiers[p] \in Nat /\ new.cnt[p] \in Nat /\ new.time[p] \in 0..MaxRequests
               /\ new.soldiers[p] + new.cnt[p] <= paid[a][p]
               /\ new.time[p] = 0 => new.cnt[p] = 0
               /\ p \in Posts(row) => new.soldiers[p] + new.cnt[p] <= CapOf[row.gens[p]]
    <3>1. /\ row.soldiers[p] \in Nat /\ row.cnt[p] \in Nat /\ row.time[p] \in 0..MaxRequests
          /\ row.soldiers[p] + row.cnt[p] <= paid[a][p] /\ paid[a][p] \in Nat
          /\ row.time[p] = 0 => row.cnt[p] = 0
          /\ p \in Posts(row) => row.soldiers[p] + row.cnt[p] <= CapOf[row.gens[p]]
      BY <1>2, <2>2, RowFields DEF Good, Kept, Covered, Paid
    <3>2. CASE p \in Due(row)
      <4>1. new.soldiers[p] = row.soldiers[p] + row.cnt[p] /\ new.cnt[p] = 0 /\ new.time[p] = 0
        BY <2>3, <3>2
      <4>. QED  BY <3>1, <4>1, Numbers
    <3>3. CASE p \notin Due(row)
      <4>1. new.soldiers[p] = row.soldiers[p] + 0 /\ new.cnt[p] = row.cnt[p] /\ new.time[p] = row.time[p]
        BY <2>3, <3>3
      <4>. QED  BY <3>1, <4>1, Numbers
    <3>. QED  BY <3>2, <3>3
  <2>5. new \in Rows
    <3>1. /\ new.soldiers \in [Positions -> Nat] /\ new.cnt \in [Positions -> Nat]
          /\ new.time \in [Positions -> 0..MaxRequests]
      BY <2>3, <2>4
    <3>2. new.cmd \in {"idle", "conscript", "attack", "back"} /\ new.gens \in [Positions -> Generals \cup {None}]
      BY <1>2, <2>2, <2>3 DEF Rows
    <3>. QED  BY <2>3, <3>1, <3>2 DEF Rows
  <2>6. Covered(new)
    <3>. SUFFICES ASSUME NEW p \in Posts(new)
                  PROVE  new.soldiers[p] + (IF new.cmd = "conscript" THEN new.cnt[p] ELSE 0)
                            <= CapOf[new.gens[p]]
      BY DEF Covered
    <3>1. p \in Positions /\ p \in Posts(row) /\ new.gens[p] = row.gens[p]
      BY <2>3 DEF Posts
    <3>2. CapOf[row.gens[p]] \in Nat
      BY <2>2, <3>1, RowFields
    <3>. QED  BY <2>4, <3>1, <3>2
  <2>. QED  BY <2>1, <2>4, <2>5, <2>6 DEF Good, Kept, Paid
<1>. QED  BY <1>1, <1>2

(* A battle takes soldiers; what is waited for stays in the row.            *)
LEMMA FewerIsGood ==
    ASSUME NEW a \in Armies, NEW row, Good(a, row), NEW new \in Fewer(row),
           paid[a] \in [Positions -> Nat]
    PROVE  Good(a, new)
<1>1. row \in Rows
  BY DEF Good
<1>2. PICK left \in [Positions -> UNION {0..row.soldiers[p] : p \in Positions}] :
         new = [row EXCEPT !.soldiers = left] /\ \A p \in Positions : left[p] <= row.soldiers[p]
  BY DEF Fewer
<1>3. ASSUME NEW p \in Positions PROVE left[p] \in Nat
  <2>1. PICK q \in Positions : left[p] \in 0..row.soldiers[q]
    BY <1>2
  <2>2. row.soldiers[q] \in Nat
    BY <1>1, RowFields
  <2>. QED  BY <2>1, <2>2
<1>4. left \in [Positions -> Nat]
  BY <1>2, <1>3
<1>5. /\ new.gens = row.gens /\ new.soldiers = left /\ new.cnt = row.cnt /\ new.time = row.time
      /\ new.cmd = row.cmd /\ new \in Rows
  BY <1>1, <1>2, <1>4 DEF Rows
<1>6. Kept(new)
  BY <1>5 DEF Good, Kept
<1>7. Covered(new)
  <2>. SUFFICES ASSUME NEW p \in Posts(new)
                PROVE  left[p] + (IF row.cmd = "conscript" THEN row.cnt[p] ELSE 0) <= CapOf[row.gens[p]]
    BY <1>5 DEF Covered, Posts
  <2>1. p \in Positions /\ p \in Posts(row)
    BY <1>5 DEF Posts
  <2>2. row.soldiers[p] + (IF row.cmd = "conscript" THEN row.cnt[p] ELSE 0) <= CapOf[row.gens[p]]
    BY <2>1 DEF Good, Covered
  <2>3. /\ row.soldiers[p] \in Nat /\ row.cnt[p] \in Nat /\ CapOf[row.gens[p]] \in Nat
        /\ left[p] \in Nat /\ left[p] <= row.soldiers[p]
    BY <1>1, <1>2, <1>4, <2>1, RowFields
  <2>. QED  BY <2>2, <2>3
<1>8. Paid(a, new)
  <2>. SUFFICES ASSUME NEW p \in Positions PROVE left[p] + row.cnt[p] <= paid[a][p]
    BY <1>5 DEF Paid
  <2>1. row.soldiers[p] + row.cnt[p] <= paid[a][p] /\ paid[a][p] \in Nat
    BY DEF Good, Paid
  <2>2. /\ row.soldiers[p] \in Nat /\ row.cnt[p] \in Nat
        /\ left[p] \in Nat /\ left[p] <= row.soldiers[p]
    BY <1>1, <1>2, <1>4, RowFields
  <2>. QED  BY <2>1, <2>2
<1>. QED  BY <1>5, <1>6, <1>7, <1>8 DEF Good

(* An order is only written over the copy that goes with the march: what    *)
(* is waited for counts no more, unless the row is read while it waits.     *)
LEMMA OrderedIsGood ==
    ASSUME NEW a \in Armies, NEW row, Good(a, row), NEW cmd \in {"idle", "attack", "back"}
    PROVE  Good(a, [row EXCEPT !.cmd = cmd])
<1>1. row \in Rows
  BY DEF Good
<1>2. PICK new : new = [row EXCEPT !.cmd = cmd]
  OBVIOUS
<1>3. /\ new.gens = row.gens /\ new.soldiers = row.soldiers /\ new.cnt = row.cnt /\ new.time = row.time
      /\ new.cmd = cmd /\ new \in Rows
  BY <1>1, <1>2 DEF Rows
<1>4. Kept(new) /\ Paid(a, new)
  BY <1>3 DEF Good, Kept, Paid
<1>5. Covered(new)
  <2>. SUFFICES ASSUME NEW p \in Posts(new)
                PROVE  row.soldiers[p] + 0 <= CapOf[row.gens[p]]
    BY <1>3 DEF Covered, Posts
  <2>1. p \in Positions /\ p \in Posts(row)
    BY <1>3 DEF Posts
  <2>2. row.soldiers[p] + (IF row.cmd = "conscript" THEN row.cnt[p] ELSE 0) <= CapOf[row.gens[p]]
    BY <2>1 DEF Good, Covered
  <2>3. row.soldiers[p] \in Nat /\ row.cnt[p] \in Nat /\ CapOf[row.gens[p]] \in Nat
    BY <1>1, <2>1, RowFields
  <2>. QED  BY <2>2, <2>3
<1>. QED  BY <1>2, <1>3, <1>4, <1>5 DEF Good

(* Another general takes the position: it finds no soldiers, and none are   *)
(* on their way, or the position could not be changed.                      *)
LEMMA StationedIsGood ==
    ASSUME NEW a \in Armies, NEW row, Good(a, row), NEW p \in Positions, NEW g \in Generals,
           PositionCanModify(row, p), paid[a] \in [Positions -> Nat]
    PROVE  Good(a, Stations(row, p, g))
<1>1. row \in Rows
  BY DEF Good
<1>2. PICK new : new = Stations(row, p, g)
  OBVIOUS
<1>3. /\ new.gens = [row.gens EXCEPT ![p] = g] /\ new.soldiers = [row.soldiers EXCEPT ![p] = 0]
      /\ new.cnt = row.cnt /\ new.time = row.time /\ new.cmd = row.cmd /\ new \in Rows
  BY <1>1, <1>2 DEF Stations, Rows
<1>4. Kept(new)
  BY <1>3 DEF Good, Kept
<1>5. ASSUME NEW q \in Positions
      PROVE  /\ row.soldiers[q] \in Nat /\ row.cnt[q] \in Nat /\ paid[a][q] \in Nat
             /\ row.soldiers[q] + row.cnt[q] <= paid[a][q]
             /\ new.soldiers[q] = IF q = p THEN 0 ELSE row.soldiers[q]
             /\ new.gens[q] = IF q = p THEN g ELSE row.gens[q]
  BY <1>1, <1>3, RowFields DEF Good, Paid, Rows
<1>6. Paid(a, new)
  <2>. SUFFICES ASSUME NEW q \in Positions PROVE new.soldiers[q] + row.cnt[q] <= paid[a][q]
    BY <1>3 DEF Paid
  <2>. QED  BY <1>5
<1>7. Covered(new)
  <2>. SUFFICES ASSUME NEW q \in Posts(new)
                PROVE  new.soldiers[q] + (IF row.cmd = "conscript" THEN row.cnt[q] ELSE 0)
                          <= CapOf[new.gens[q]]
    BY <1>3 DEF Covered
  <2>1. CASE q = p
    <3>1. row.cmd = "conscript" => row.cnt[p] = 0
      BY DEF PositionCanModify, Good, Kept
    <3>2. new.soldiers[q] = 0 /\ new.gens[q] = g /\ CapOf[g] \in Nat
      BY <1>5, <2>1, Numbers
    <3>. QED  BY <2>1, <3>1, <3>2
  <2>2. CASE q # p
    <3>1. q \in Posts(row)
      BY <1>5, <2>2 DEF Posts
    <3>2. row.soldiers[q] + (IF row.cmd = "conscript" THEN row.cnt[q] ELSE 0) <= CapOf[row.gens[q]]
      BY <3>1 DEF Good, Covered
    <3>. QED  BY <1>5, <2>2, <3>1, <3>2 DEF Posts
  <2>. QED  BY <2>1, <2>2
<1>. QED  BY <1>2, <1>3, <1>4, <1>6, <1>7 DEF Good

LEMMA WithoutIsGood ==
    ASSUME NEW a \in Armies, NEW row, Good(a, row), NEW g \in Generals,
           paid[a] \in [Positions -> Nat]
    PROVE  Good(a, Without(row, g))
<1>1. row \in Rows
  BY DEF Good
<1>2. PICK new : new = Without(row, g)
  OBVIOUS
<1>3. /\ new.gens = [p \in Positions |-> IF row.gens[p] = g THEN None ELSE row.gens[p]]
      /\ new.soldiers = [p \in Positions |-> IF row.gens[p] = g THEN 0 ELSE row.soldiers[p]]
      /\ new.cnt = row.cnt /\ new.time = row.time /\ new.cmd = row.cmd
      /\ new = [gens |-> new.gens, soldiers |-> new.soldiers, cnt |-> row.cnt,
                time |-> row.time, cmd |-> row.cmd]
  BY <1>1, <1>2 DEF Without, Rows
<1>4. ASSUME NEW p \in Positions
      PROVE  /\ row.soldiers[p] \in Nat /\ row.cnt[p] \in Nat /\ paid[a][p] \in Nat
             /\ row.soldiers[p] + row.cnt[p] <= paid[a][p]
             /\ new.soldiers[p] = IF row.gens[p] = g THEN 0 ELSE row.soldiers[p]
             /\ new.gens[p] = IF row.gens[p] = g THEN None ELSE row.gens[p]
             /\ new.soldiers[p] \in Nat /\ new.gens[p] \in Generals \cup {None}
  BY <1>1, <1>3, RowFields DEF Good, Paid
<1>5. new \in Rows
  <2>1. new.soldiers \in [Positions -> Nat] /\ new.gens \in [Positions -> Generals \cup {None}]
    BY <1>3, <1>4
  <2>. QED  BY <1>1, <1>3, <2>1 DEF Rows
<1>6. Kept(new)
  BY <1>3 DEF Good, Kept
<1>7. Paid(a, new)
  <2>. SUFFICES ASSUME NEW p \in Positions PROVE new.soldiers[p] + row.cnt[p] <= paid[a][p]
    BY <1>3 DEF Paid
  <2>. QED  BY <1>4
<1>8. Covered(new)
  <2>. SUFFICES ASSUME NEW p \in Posts(new)
                PROVE  new.soldiers[p] + (IF row.cmd = "conscript" THEN row.cnt[p] ELSE 0)
                          <= CapOf[new.gens[p]]
    BY <1>3 DEF Covered
  <2>1. p \in Posts(row) /\ new.gens[p] = row.gens[p] /\ new.soldiers[p] = row.soldiers[p]
    BY <1>4 DEF Posts
  <2>. QED  BY <2>1 DEF Good, Covered
<1>. QED  BY <1>2, <1>5, <1>6, <1>7, <1>8 DEF Good

(* Soldiers are paid for position by position, and only more are.           *)
LEMMA PaidMore ==
    ASSUME NEW a \in Armies, NEW cnts \in [Positions -> Counts],
           paid \in [Armies -> [Positions -> Nat]],
           paid' = [paid EXCEPT ![a] = [p \in Positions |-> @[p] + cnts[p]]]
    PROVE  /\ paid' \in [Armies -> [Positions -> Nat]]
           /\ \A p \in Positions : paid'[a][p] = paid[a][p] + cnts[p]
           /\ \A b \in Armies : \A row : Good(b, row) => Good(b, row)'
<1>1. ASSUME NEW p \in Positions
      PROVE  cnts[p] \in Nat /\ paid[a][p] \in Nat /\ paid'[a][p] = paid[a][p] + cnts[p]
  BY Numbers
<1>2. [p \in Positions |-> paid[a][p] + cnts[p]] \in [Positions -> Nat]
  BY <1>1
<1>3. paid' \in [Armies -> [Positions -> Nat]]
  BY <1>2
<1>4. ASSUME NEW b \in Armies, NEW row, Good(b, row) PROVE Good(b, row)'
  <2>. SUFFICES ASSUME NEW p \in Positions PROVE row.soldiers[p] + row.cnt[p] <= paid'[b][p]
    BY <1>4 DEF Good, Paid
  <2>1. /\ row.soldiers[p] \in Nat /\ row.cnt[p] \in Nat /\ paid[b][p] \in Nat
        /\ row.soldiers[p] + row.cnt[p] <= paid[b][p]
    BY <1>4, RowFields DEF Good, Paid
  <2>2. CASE b = a
    BY <1>1, <2>1, <2>2
  <2>3. CASE b # a
    BY <2>1, <2>3
  <2>. QED  BY <2>2, <2>3
<1>. QED  BY <1>1, <1>3, <1>4

LEMMA EnlistedIsGood ==
    ASSUME NEW a \in Armies, NEW row, Good(a, row), NEW cnts \in [Positions -> Counts],
           NEW stamp \in 1..MaxRequests, MayConscript(row, cnts),
           paid \in [Armies -> [Positions -> Nat]],
           paid' = [paid EXCEPT ![a] = [p \in Positions |-> @[p] + cnts[p]]]
    PROVE  Good(a, Enlists(row, cnts, stamp))'
<1>1. row \in Rows
  BY DEF Good
<1>2. PICK new : new = Enlists(row, cnts, stamp)
  OBVIOUS
<1>3. /\ new.gens = row.gens /\ new.soldiers = row.soldiers /\ new.cmd = "conscript"
      /\ new.cnt = [p \in Positions |-> IF p \in Posts(row) THEN cnts[p] ELSE row.cnt[p]]
      /\ new.time = [p \in Positions |-> IF p \notin Posts(row) THEN row.time[p]
                                          ELSE IF cnts[p] = 0 THEN 0 ELSE stamp]
      /\ new = [gens |-> row.gens, soldiers |-> row.soldiers, cnt |-> new.cnt,
                time |-> new.time, cmd |-> "conscript"]
  BY <1>1, <1>2 DEF Enlists, Rows
<1>4. ASSUME NEW p \in Positions
      PROVE  /\ row.soldiers[p] \in Nat /\ row.cnt[p] \in Nat /\ paid[a][p] \in Nat
             /\ row.time[p] \in 0..MaxRequests /\ cnts[p] \in Nat
             /\ row.soldiers[p] + row.cnt[p] <= paid[a][p]
             /\ row.time[p] = 0 => row.cnt[p] = 0
             /\ paid'[a][p] = paid[a][p] + cnts[p]
             /\ new.cnt[p] = IF p \in Posts(row) THEN cnts[p] ELSE row.cnt[p]
             /\ new.time[p] = IF p \notin Posts(row) THEN row.time[p]
                                 ELSE IF cnts[p] = 0 THEN 0 ELSE stamp
  <2>1. cnts[p] \in Nat /\ paid'[a][p] = paid[a][p] + cnts[p]
    BY PaidMore, Numbers
  <2>2. /\ row.soldiers[p] \in Nat /\ row.cnt[p] \in Nat /\ paid[a][p] \in Nat
        /\ row.time[p] \in 0..MaxRequests
    BY <1>1, RowFields
  <2>3. /\ row.soldiers[p] + row.cnt[p] <= paid[a][p]
        /\ row.time[p] = 0 => row.cnt[p] = 0
    BY DEF Good, Paid, Kept
  <2>. QED  BY <1>3, <2>1, <2>2, <2>3
<1>5. ASSUME NEW p \in Positions
      PROVE  /\ new.cnt[p] \in Nat /\ new.time[p] \in 0..MaxRequests
             /\ new.time[p] = 0 => new.cnt[p] = 0
             /\ row.soldiers[p] + new.cnt[p] <= paid'[a][p]
  <2>1. CASE p \in Posts(row)
    BY <1>4, <2>1, Numbers
  <2>2. CASE p \notin Posts(row)
    BY <1>4, <2>2, Numbers
  <2>. QED  BY <2>1, <2>2
<1>6. new \in Rows
  <2>1. new.cnt \in [Positions -> Nat] /\ new.time \in [Positions -> 0..MaxRequests]
    BY <1>3, <1>5
  <2>. QED  BY <1>1, <1>3, <2>1 DEF Rows
<1>7. Covered(new)
  <2>. SUFFICES ASSUME NEW p \in Posts(new)
                PROVE  row.soldiers[p] + new.cnt[p] <= CapOf[row.gens[p]]
    BY <1>3 DEF Covered
  <2>1. p \in Positions /\ p \in Posts(row)
    BY <1>3 DEF Posts
  <2>2. cnts[p] + row.soldiers[p] <= CapOf[row.gens[p]]
    BY <2>1 DEF MayConscript
  <2>. QED  BY <1>4, <2>1, <2>2
<1>8. Kept(new) /\ Paid(a, new)'
  BY <1>3, <1>5 DEF Kept, Paid
<1>. QED  BY <1>2, <1>6, <1>7, <1>8 DEF Good

-----------------------------------------------------------------------------
(* Copies: what is read, queued and carried along.                          *)

LEMMA ReadIsGood ==
    ASSUME Inv, NEW a \in DOMAIN rows
    PROVE  a \in Armies /\ Get(a) \in Read /\ Good(a, Get(a).row)
<1>1. a \in Armies /\ Good(a, rows[a]) /\ paid[a] \in [Positions -> Nat] /\ posted \in Seen
  BY DEF Inv, RowsGood, Shaped
<1>2. Good(a, CheckConscript(rows[a]))
  BY <1>1, CheckedIsGood
<1>. QED  BY <1>1, <1>2 DEF Get, Read, Good

LEMMA GeneralsQueued ==
    ASSUME NEW copy \in Read
    PROVE  GeneralsOf(copy) \in Seq(Queued)
<1>1. copy.row \in Rows /\ copy.seen \in Seen
  BY DEF Read
<1>2. PICK f : f = [p \in Posts(copy.row) |->
                       [general |-> copy.row.gens[p], posted |-> copy.seen[copy.row.gens[p]]]]
  OBVIOUS
<1>3. PICK S : S = {[general |-> copy.row.gens[p], posted |-> copy.seen[copy.row.gens[p]]] :
                        p \in Posts(copy.row)}
  OBVIOUS
<1>4. S \subseteq Queued
  <2>1. ASSUME NEW p \in Posts(copy.row)
        PROVE  copy.row.gens[p] \in Generals /\ copy.seen[copy.row.gens[p]] \in BOOLEAN
    BY <1>1, RowFields DEF Posts, Seen
  <2>. QED  BY <1>3, <2>1 DEF Queued
<1>5. IsFiniteSet(S)
  <2>1. IsFiniteSet(Posts(copy.row))
    BY Numbers, FS_Subset DEF Posts
  <2>2. f \in Surjection(Posts(copy.row), S)
    BY <1>2, <1>3 DEF Surjection
  <2>. QED  BY <2>1, <2>2, FS_Surjection
<1>6. PICK n : n = Cardinality(S)
  OBVIOUS
<1>7. n \in Nat /\ ExistsBijection(1..n, S)
  BY <1>5, <1>6, FS_CardinalityType
<1>8. \E list \in [1..n -> S] : IsInjective(list)
  <2>1. PICK list : list \in Bijection(1..n, S)
    BY <1>7 DEF ExistsBijection
  <2>2. list \in [1..n -> S] /\ \A i, j \in 1..n : list[i] = list[j] => i = j
    BY <2>1, Fun_BijectionProperties
  <2>. QED  BY <2>2 DEF IsInjective
<1>9. SetToSeq(S) \in [1..n -> S]
  BY <1>6, <1>8 DEF SetToSeq
<1>10. PICK list : list = SetToSeq(S)
  OBVIOUS
<1>11. list \in Seq(Queued)
  <2>1. list \in [1..n -> Queued]
    BY <1>4, <1>9, <1>10
  <2>. QED  BY <1>7, <2>1
<1>. QED  BY <1>3, <1>10, <1>11 DEF GeneralsOf

(* Where nobody pays, what was right stays right.                           *)
LEMMA SamePaid ==
    ASSUME UNCHANGED paid
    PROVE  /\ \A a, row : Good(a, row)' <=> Good(a, row)
           /\ Entries' = Entries /\ OnMarch' = OnMarch
           /\ Disposing' = Disposing /\ Conscripting' = Conscripting
<1>1. \A a, row : Good(a, row)' <=> Good(a, row)
  BY DEF Good, Paid
<1>. QED  BY <1>1 DEF Entries, OnMarch, Disposing, Conscripting

LEMMA PartsStay ==
    ASSUME Inv, UNCHANGED paid
    PROVE  /\ UNCHANGED rows => RowsGood'
           /\ UNCHANGED armyChan => QueueGood'
           /\ UNCHANGED marches => MarchesGood'
           /\ UNCHANGED handler => HandlersGood'
BY SamePaid DEF Inv, RowsGood, QueueGood, MarchesGood, HandlersGood

LEMMA OneGoesOn ==
    ASSUME Inv, UNCHANGED paid, NEW c \in Conns, NEW next, Goes(c, next),
           next \in {Idle} \cup Disposing \cup Conscripting
    PROVE  HandlersGood'
<1>1. PICK Steps : Steps = {Idle} \cup Disposing \cup Conscripting
  OBVIOUS
<1>2. handler' \in [Conns -> Steps]
  BY <1>1 DEF Inv, HandlersGood, Goes
<1>. QED  BY <1>1, <1>2, SamePaid DEF HandlersGood

LEMMA SavedIsQueued ==
    ASSUME Inv, UNCHANGED paid, NEW a \in Armies, NEW row, Good(a, row), Save(a, row)
    PROVE  QueueGood'
<1>1. [army |-> a, row |-> row] \in Entries
  BY DEF Entries, Good
<1>2. armyChan' \in Seq(Entries)
  BY <1>1, AppendProperties DEF Inv, QueueGood, Save
<1>. QED  BY <1>2, SamePaid DEF QueueGood

LEMMA MarchSetsOut ==
    ASSUME Inv, UNCHANGED paid, NEW a \in Armies, NEW copy \in Read, Good(a, copy.row),
           NEW cmd \in {"attack", "back"}, Len(marches) < MaxMarches,
           marches' = Append(marches, March(a, cmd, copy))
    PROVE  MarchesGood' /\ Len(marches') <= MaxMarches
<1>1. PICK row : row = [copy.row EXCEPT !.cmd = cmd]
  OBVIOUS
<1>2. Good(a, row) /\ row \in Rows
  BY <1>1, OrderedIsGood DEF Good
<1>3. March(a, cmd, copy) = [army |-> a, copy |-> [row |-> row, seen |-> copy.seen]]
  BY <1>1 DEF March, Read
<1>4. PICK m : m = March(a, cmd, copy)
  OBVIOUS
<1>5. m \in OnMarch
  BY <1>2, <1>3, <1>4 DEF OnMarch, Read
<1>6. marches \in Seq(OnMarch) /\ marches' = Append(marches, m)
  BY <1>4 DEF Inv, MarchesGood
<1>7. marches' \in Seq(OnMarch) /\ Len(marches') = Len(marches) + 1 /\ Len(marches) \in Nat
  BY <1>5, <1>6, AppendProperties, LenProperties
<1>. QED  BY <1>7, SamePaid, Numbers DEF MarchesGood

LEMMA MarchEnds ==
    ASSUME Inv, UNCHANGED paid, NEW i \in DOMAIN marches, marches' = Others(i)
    PROVE  /\ marches[i] \in OnMarch
           /\ MarchesGood' /\ Len(marches') <= MaxMarches
<1>1. PICK n : n = Len(marches)
  OBVIOUS
<1>2. /\ n \in Nat /\ DOMAIN marches = 1..n /\ n <= MaxMarches /\ marches \in Seq(OnMarch)
      /\ \A k \in 1..n : marches[k] \in OnMarch
  BY <1>1, LenProperties DEF Inv, MarchesGood, Shaped
<1>3. i \in 1..n
  BY <1>2
<1>4. PICK before, after : before = SubSeq(marches, 1, i - 1) /\ after = SubSeq(marches, i + 1, n)
  OBVIOUS
<1>5. before \in Seq(OnMarch) /\ Len(before) = i - 1
  <2>1. /\ 1 \in Int /\ i - 1 \in Int /\ \A k \in 1..i-1 : marches[k] \in OnMarch
    BY <1>2, <1>3
  <2>2. before \in Seq(OnMarch) /\ Len(before) = IF 1 <= i - 1 THEN (i - 1) - 1 + 1 ELSE 0
    BY <1>4, <2>1, SubSeqProperties
  <2>. QED  BY <1>3, <2>2
<1>6. after \in Seq(OnMarch) /\ Len(after) = n - i
  <2>1. /\ i + 1 \in Int /\ n \in Int /\ \A k \in i+1..n : marches[k] \in OnMarch
    BY <1>2, <1>3
  <2>2. after \in Seq(OnMarch) /\ Len(after) = IF i + 1 <= n THEN n - (i + 1) + 1 ELSE 0
    BY <1>4, <2>1, SubSeqProperties
  <2>. QED  BY <1>2, <1>3, <2>2
<1>7. marches' = before \o after
  BY <1>1, <1>4 DEF Others
<1>8. marches' \in Seq(OnMarch) /\ Len(marches') = Len(before) + Len(after)
  BY <1>5, <1>6, <1>7, ConcatProperties
<1>9. Len(marches') <= MaxMarches
  BY <1>2, <1>3, <1>5, <1>6, <1>8, Numbers
<1>. QED  BY <1>2, <1>3, <1>8, <1>9, SamePaid DEF MarchesGood

LEMMA GeneralsJoin ==
    ASSUME Inv, NEW more \in Seq(Queued), genChan' = genChan \o more
    PROVE  genChan' \in Seq(Queued)
BY ConcatProperties DEF Inv, Shaped

-----------------------------------------------------------------------------
(* The steps.                                                               *)

LEMMA EmptyIsGood ==
    ASSUME NEW a \in Armies, paid[a] \in [Positions -> Nat]
    PROVE  Good(a, Empty)
<1>1. Empty \in Rows
  BY Numbers DEF Empty, Rows
<1>2. Kept(Empty) /\ Covered(Empty)
  BY DEF Kept, Covered, Posts, Empty
<1>3. \A p \in Positions : 0 + 0 <= paid[a][p]
  BY Numbers
<1>. QED  BY <1>1, <1>2, <1>3 DEF Good, Paid, Empty

LEMMA ReadForDisposeKeeps ==
    ASSUME Inv, NEW c \in Conns, NEW a \in Armies, NEW g \in Generals,
           NEW p \in Positions \cup {Off}, ReadForDispose(c, a, g, p)
    PROVE  Inv'
<1>1. PICK copy : copy = IF a \in DOMAIN rows THEN Get(a) ELSE [row |-> Empty, seen |-> posted]
  OBVIOUS
<1>2. /\ requests < MaxRequests /\ requests' = requests + 1 /\ GetCreate(a)
      /\ IF IF p = Off THEN MayLeave(copy.row, g) ELSE MayTake(a, copy.row, g, p)
         THEN Goes(c, [at |-> "dispose", army |-> a, gen |-> g, pos |-> p, copy |-> copy])
         ELSE UNCHANGED handler
      /\ UNCHANGED <<posted, armyChan, genChan, marches, past, paid>>
  BY <1>1 DEF ReadForDispose, Begins
<1>3. Shaped'
  BY <1>2, Numbers DEF Inv, Shaped
<1>4. Good(a, Empty)
  BY EmptyIsGood DEF Inv, Shaped
<1>5. RowsGood'
  <2>1. /\ rows' = [b \in {a} \cup DOMAIN rows |-> IF b \in DOMAIN rows THEN rows[b] ELSE Empty]
        /\ DOMAIN rows' = {a} \cup DOMAIN rows
    BY <1>2 DEF GetCreate
  <2>2. ASSUME NEW b \in DOMAIN rows' PROVE Good(b, rows'[b])
    <3>1. CASE b \in DOMAIN rows
      BY <2>1, <3>1 DEF Inv, RowsGood
    <3>2. CASE b \notin DOMAIN rows
      BY <1>4, <2>1, <2>2, <3>2
    <3>. QED  BY <3>1, <3>2
  <2>. QED  BY <1>2, <2>1, <2>2 DEF Inv, RowsGood, Good, Paid
<1>6. copy \in Read /\ Good(a, copy.row)
  <2>1. CASE a \in DOMAIN rows
    BY <1>1, <2>1, ReadIsGood
  <2>2. CASE a \notin DOMAIN rows
    BY <1>1, <1>4, <2>2 DEF Inv, Shaped, Read, Good
  <2>. QED  BY <2>1, <2>2
<1>7. HandlersGood'
  <2>1. PICK next : next = [at |-> "dispose", army |-> a, gen |-> g, pos |-> p, copy |-> copy]
    OBVIOUS
  <2>2. CASE IF p = Off THEN MayLeave(copy.row, g) ELSE MayTake(a, copy.row, g, p)
    <3>1. p # Off => PositionCanModify(copy.row, p)
      BY <2>2 DEF MayTake
    <3>2. next \in Disposing
      BY <1>6, <2>1, <3>1 DEF Disposing
    <3>. QED  BY <1>2, <2>1, <2>2, <3>2, OneGoesOn
  <2>3. CASE ~(IF p = Off THEN MayLeave(copy.row, g) ELSE MayTake(a, copy.row, g, p))
    BY <1>2, <2>3, PartsStay
  <2>. QED  BY <2>2, <2>3
<1>. QED  BY <1>2, <1>3, <1>5, <1>7, PartsStay DEF Inv

LEMMA DisposeKeeps ==
    ASSUME Inv, NEW c \in Conns, Dispose(c)
    PROVE  Inv'
<1>1. PICK h : h = handler[c]
  OBVIOUS
<1>2. PICK row : row = h.copy.row
  OBVIOUS
<1>3. /\ h.at = "dispose"
      /\ Save(h.army, IF h.pos = Off THEN Without(row, h.gen) ELSE Stations(row, h.pos, h.gen))
      /\ Goes(c, Idle)
      /\ UNCHANGED <<rows, posted, marches, past, paid, requests>>
  BY <1>1, <1>2 DEF Dispose
<1>4. h \in Disposing
  BY <1>1, <1>3 DEF Inv, HandlersGood, Idle, Conscripting
<1>5. /\ h.army \in Armies /\ h.gen \in Generals /\ h.pos \in Positions \cup {Off}
      /\ Good(h.army, row)
      /\ h.pos # Off => PositionCanModify(row, h.pos)
      /\ paid[h.army] \in [Positions -> Nat] /\ row \in Rows
  BY <1>2, <1>4 DEF Disposing, Inv, Shaped, Good
<1>6. QueueGood'
  <2>1. CASE h.pos = Off
    <3>1. PICK new : new = Without(row, h.gen)
      OBVIOUS
    <3>2. Good(h.army, new)
      BY <1>5, <3>1, WithoutIsGood
    <3>3. Save(h.army, new)
      BY <1>3, <2>1, <3>1
    <3>. QED  BY <1>3, <1>5, <3>2, <3>3, SavedIsQueued
  <2>2. CASE h.pos # Off
    <3>1. PICK new : new = Stations(row, h.pos, h.gen)
      OBVIOUS
    <3>2. Good(h.army, new)
      BY <1>5, <2>2, <3>1, StationedIsGood
    <3>3. Save(h.army, new)
      BY <1>3, <2>2, <3>1
    <3>. QED  BY <1>3, <1>5, <3>2, <3>3, SavedIsQueued
  <2>. QED  BY <2>1, <2>2
<1>7. genChan' \in Seq(Queued)
  <2>1. PICK replaced : replaced = IF h.pos = Off \/ row.gens[h.pos] = None THEN <<>>
                                   ELSE <<[general |-> row.gens[h.pos], posted |-> FALSE]>>
    OBVIOUS
  <2>2. PICK news : news = [general |-> h.gen, posted |-> h.pos # Off]
    OBVIOUS
  <2>3. genChan' = genChan \o replaced \o <<news>>
    BY <1>1, <1>2, <2>1, <2>2 DEF Dispose
  <2>4. news \in Queued
    <3>1. (h.pos # Off) \in BOOLEAN
      OBVIOUS
    <3>. QED  BY <1>5, <2>2, <3>1 DEF Queued
  <2>5. replaced \in Seq(Queued)
    <3>1. CASE h.pos = Off \/ row.gens[h.pos] = None
      BY <2>1, <3>1
    <3>2. CASE h.pos # Off /\ row.gens[h.pos] # None
      <4>1. row.gens[h.pos] \in Generals
        BY <1>5, <3>2, RowFields
      <4>2. [general |-> row.gens[h.pos], posted |-> FALSE] \in Queued
        BY <4>1 DEF Queued
      <4>. QED  BY <2>1, <3>2, <4>2
    <3>. QED  BY <3>1, <3>2
  <2>6. genChan \o replaced \in Seq(Queued)
    BY <2>5, ConcatProperties DEF Inv, Shaped
  <2>. QED  BY <2>3, <2>4, <2>6, ConcatProperties
<1>8. Shaped'
  BY <1>3, <1>7 DEF Inv, Shaped
<1>9. HandlersGood'
  BY <1>3, OneGoesOn
<1>. QED  BY <1>3, <1>6, <1>8, <1>9, PartsStay DEF Inv

LEMMA ReadForConscriptKeeps ==
    ASSUME Inv, NEW c \in Conns, NEW a \in Armies, NEW cnts \in [Positions -> Counts],
           ReadForConscript(c, a, cnts)
    PROVE  Inv'
<1>1. PICK next : next = [at |-> "conscript", army |-> a, cnts |-> cnts, row |-> Get(a).row,
                          stamp |-> requests']
  OBVIOUS
<1>2. /\ requests < MaxRequests /\ requests' = requests + 1 /\ a \in DOMAIN rows
      /\ MayConscript(Get(a).row, cnts) /\ Goes(c, next)
      /\ UNCHANGED <<rows, posted, armyChan, genChan, marches, past, paid>>
  BY <1>1 DEF ReadForConscript, Begins
<1>3. requests' \in 1..MaxRequests
  BY <1>2, Numbers DEF Inv, Shaped
<1>4. Shaped'
  BY <1>2, <1>3, Numbers DEF Inv, Shaped
<1>5. next \in Conscripting
  <2>1. Get(a).row \in Rows /\ Good(a, Get(a).row)
    BY <1>2, ReadIsGood DEF Read
  <2>. QED  BY <1>1, <1>2, <1>3, <2>1 DEF Conscripting
<1>6. HandlersGood'
  BY <1>2, <1>5, OneGoesOn
<1>. QED  BY <1>2, <1>4, <1>6, PartsStay DEF Inv

LEMMA ConscriptKeeps ==
    ASSUME Inv, NEW c \in Conns, Conscript(c)
    PROVE  Inv'
<1>1. PICK h : h = handler[c]
  OBVIOUS
<1>2. PICK new : new = Enlists(h.row, h.cnts, h.stamp)
  OBVIOUS
<1>3. /\ h.at = "conscript" /\ Save(h.army, new)
      /\ paid' = [paid EXCEPT ![h.army] = [p \in Positions |-> @[p] + h.cnts[p]]]
      /\ Goes(c, Idle)
      /\ UNCHANGED <<rows, posted, genChan, marches, past, requests>>
  BY <1>1, <1>2 DEF Conscript
<1>4. h \in Conscripting
  BY <1>1, <1>3 DEF Inv, HandlersGood, Idle, Disposing
<1>5. PICK a, cnts : a = h.army /\ cnts = h.cnts
  OBVIOUS
<1>6. /\ a \in Armies /\ cnts \in [Positions -> Counts] /\ h.stamp \in 1..MaxRequests
      /\ Good(a, h.row) /\ MayConscript(h.row, cnts)
      /\ paid \in [Armies -> [Positions -> Nat]]
      /\ paid' = [paid EXCEPT ![a] = [p \in Positions |-> @[p] + cnts[p]]]
  BY <1>3, <1>4, <1>5 DEF Conscripting, Inv, Shaped
<1>7. /\ paid' \in [Armies -> [Positions -> Nat]]
      /\ \A b \in Armies : \A row : Good(b, row) => Good(b, row)'
  BY <1>6, PaidMore
<1>8. Good(a, new)'
  BY <1>2, <1>5, <1>6, EnlistedIsGood
<1>9. /\ Entries \subseteq Entries' /\ OnMarch \subseteq OnMarch'
      /\ Disposing \subseteq Disposing' /\ Conscripting \subseteq Conscripting'
  BY <1>7 DEF Entries, OnMarch, Disposing, Conscripting
<1>10. RowsGood'
  BY <1>3, <1>7 DEF Inv, RowsGood
<1>11. QueueGood'
  <2>1. PICK entry : entry = [army |-> a, row |-> new]
    OBVIOUS
  <2>2. entry \in Entries'
    BY <1>6, <1>8, <2>1 DEF Entries, Good
  <2>3. armyChan' = Append(armyChan, entry)
    BY <1>3, <1>5, <2>1 DEF Save
  <2>4. armyChan \in Seq(Entries')
    BY <1>9 DEF Inv, QueueGood
  <2>. QED  BY <2>2, <2>3, <2>4, AppendProperties DEF QueueGood
<1>12. MarchesGood'
  BY <1>3, <1>9 DEF Inv, MarchesGood
<1>13. HandlersGood'
  <2>1. PICK Steps : Steps = {Idle} \cup Disposing' \cup Conscripting'
    OBVIOUS
  <2>2. handler \in [Conns -> Steps]
    BY <1>9, <2>1 DEF Inv, HandlersGood
  <2>3. handler' \in [Conns -> Steps]
    BY <1>3, <2>1, <2>2 DEF Goes
  <2>. QED  BY <2>1, <2>3 DEF HandlersGood
<1>14. Shaped'
  BY <1>3, <1>7 DEF Inv, Shaped
<1>. QED  BY <1>10, <1>11, <1>12, <1>13, <1>14 DEF Inv

LEMMA SendOutKeeps ==
    ASSUME Inv, NEW a \in Armies, SendOut(a)
    PROVE  Inv'
<1>1. PICK copy : copy = Get(a)
  OBVIOUS
<1>2. /\ requests < MaxRequests /\ requests' = requests + 1 /\ Len(marches) < MaxMarches
      /\ a \in DOMAIN rows /\ genChan' = genChan \o GeneralsOf(copy)
      /\ marches' = Append(marches, March(a, "attack", copy))
      /\ UNCHANGED <<rows, posted, armyChan, handler, past, paid>>
  BY <1>1 DEF SendOut, Ordered
<1>3. copy \in Read /\ Good(a, copy.row)
  BY <1>1, <1>2, ReadIsGood
<1>4. MarchesGood' /\ Len(marches') <= MaxMarches
  BY <1>2, <1>3, MarchSetsOut
<1>5. genChan' \in Seq(Queued)
  BY <1>2, <1>3, GeneralsQueued, GeneralsJoin
<1>6. Shaped'
  BY <1>2, <1>4, <1>5, Numbers DEF Inv, Shaped
<1>. QED  BY <1>2, <1>4, <1>6, PartsStay DEF Inv

LEMMA CallBackKeeps ==
    ASSUME Inv, NEW a \in Armies, CallBack(a)
    PROVE  Inv'
<1>1. PICK copy : copy = Get(a)
  OBVIOUS
<1>2. /\ requests < MaxRequests /\ requests' = requests + 1 /\ Len(marches) < MaxMarches
      /\ a \in DOMAIN rows /\ marches' = Append(marches, March(a, "back", copy))
      /\ UNCHANGED <<rows, posted, armyChan, genChan, handler, past, paid>>
  BY <1>1 DEF CallBack, Ordered
<1>3. copy \in Read /\ Good(a, copy.row)
  BY <1>1, <1>2, ReadIsGood
<1>4. MarchesGood' /\ Len(marches') <= MaxMarches
  BY <1>2, <1>3, MarchSetsOut
<1>5. Shaped'
  BY <1>2, <1>4, Numbers DEF Inv, Shaped
<1>. QED  BY <1>2, <1>4, <1>5, PartsStay DEF Inv

LEMMA DefendsKeeps ==
    ASSUME Inv, NEW a \in Armies, Defends(a)
    PROVE  Inv'
<1>1. PICK copy : copy = Get(a)
  OBVIOUS
<1>2. PICK row \in Fewer(copy.row) :
         \/ Save(a, row) /\ UNCHANGED marches
         \/ /\ Save(a, [row EXCEPT !.cmd = "back"])
            /\ marches' = Append(marches, March(a, "back", [copy EXCEPT !.row = row]))
  BY <1>1 DEF Defends
<1>3. /\ requests < MaxRequests /\ requests' = requests + 1 /\ Len(marches) < MaxMarches
      /\ a \in DOMAIN rows /\ genChan' = genChan \o GeneralsOf(copy)
      /\ UNCHANGED <<rows, posted, handler, past, paid>>
  BY <1>1 DEF Defends, Ordered
<1>4. copy \in Read /\ Good(a, copy.row) /\ paid[a] \in [Positions -> Nat]
  BY <1>1, <1>3, ReadIsGood DEF Inv, Shaped
<1>5. Good(a, row)
  BY <1>4, FewerIsGood
<1>6. QueueGood' /\ MarchesGood' /\ Len(marches') <= MaxMarches
  <2>1. CASE Save(a, row) /\ UNCHANGED marches
    BY <1>3, <1>5, <2>1, SavedIsQueued, PartsStay DEF Inv, Shaped
  <2>2. CASE /\ Save(a, [row EXCEPT !.cmd = "back"])
             /\ marches' = Append(marches, March(a, "back", [copy EXCEPT !.row = row]))
    <3>1. PICK beaten : beaten = [row EXCEPT !.cmd = "back"]
      OBVIOUS
    <3>2. Good(a, beaten)
      BY <1>5, <3>1, OrderedIsGood
    <3>3. QueueGood'
      BY <1>3, <2>2, <3>1, <3>2, SavedIsQueued
    <3>4. PICK carried : carried = [copy EXCEPT !.row = row]
      OBVIOUS
    <3>5. carried \in Read /\ Good(a, carried.row)
      BY <1>4, <1>5, <3>4 DEF Read, Good
    <3>6. marches' = Append(marches, March(a, "back", carried))
      BY <2>2, <3>4
    <3>7. MarchesGood' /\ Len(marches') <= MaxMarches
      BY <1>3, <3>5, <3>6, MarchSetsOut
    <3>. QED  BY <3>3, <3>7
  <2>. QED  BY <1>2, <2>1, <2>2
<1>7. genChan' \in Seq(Queued)
  BY <1>3, <1>4, GeneralsQueued, GeneralsJoin
<1>8. Shaped'
  BY <1>3, <1>6, <1>7, Numbers DEF Inv, Shaped
<1>. QED  BY <1>3, <1>6, <1>8, PartsStay DEF Inv

LEMMA FightsKeeps ==
    ASSUME Inv, NEW i \in DOMAIN marches, Fights(i)
    PROVE  Inv'
<1>1. PICK m : m = marches[i]
  OBVIOUS
<1>2. PICK row \in Fewer(m.copy.row) : Save(m.army, row)
  BY <1>1 DEF Fights
<1>3. /\ genChan' = genChan \o GeneralsOf(m.copy) /\ marches' = Others(i)
      /\ UNCHANGED <<rows, posted, handler, past, paid, requests>>
  BY <1>1 DEF Fights
<1>4. m \in OnMarch /\ MarchesGood' /\ Len(marches') <= MaxMarches
  BY <1>1, <1>3, MarchEnds
<1>5. m.army \in Armies /\ m.copy \in Read /\ Good(m.army, m.copy.row)
  BY <1>4 DEF OnMarch
<1>6. QueueGood'
  <2>1. paid[m.army] \in [Positions -> Nat]
    BY <1>5 DEF Inv, Shaped
  <2>2. Good(m.army, row)
    BY <1>5, <2>1, FewerIsGood
  <2>. QED  BY <1>2, <1>3, <1>5, <2>2, SavedIsQueued
<1>7. genChan' \in Seq(Queued)
  BY <1>3, <1>5, GeneralsQueued, GeneralsJoin
<1>8. Shaped'
  BY <1>3, <1>4, <1>7 DEF Inv, Shaped
<1>. QED  BY <1>3, <1>4, <1>6, <1>8, PartsStay DEF Inv

LEMMA ComesHomeKeeps ==
    ASSUME Inv, NEW i \in DOMAIN marches, ComesHome(i)
    PROVE  Inv'
<1>1. PICK m : m = marches[i]
  OBVIOUS
<1>2. PICK row : row = [m.copy.row EXCEPT !.cmd = "idle"]
  OBVIOUS
<1>3. /\ Save(m.army, row) /\ marches' = Others(i)
      /\ UNCHANGED <<rows, posted, genChan, handler, past, paid, requests>>
  BY <1>1, <1>2 DEF ComesHome
<1>4. m \in OnMarch /\ MarchesGood' /\ Len(marches') <= MaxMarches
  BY <1>1, <1>3, MarchEnds
<1>5. m.army \in Armies /\ Good(m.army, row)
  BY <1>2, <1>4, OrderedIsGood DEF OnMarch
<1>6. QueueGood'
  BY <1>3, <1>5, SavedIsQueued
<1>7. Shaped'
  BY <1>3, <1>4 DEF Inv, Shaped
<1>. QED  BY <1>3, <1>4, <1>6, <1>7, PartsStay DEF Inv

LEMMA WriteArmyKeeps ==
    ASSUME Inv, WriteArmy
    PROVE  Inv'
<1>1. PICK e : e = Head(armyChan)
  OBVIOUS
<1>2. /\ armyChan # <<>> /\ rows' = [rows EXCEPT ![e.army] = e.row] /\ armyChan' = Tail(armyChan)
      /\ UNCHANGED <<posted, genChan, handler, marches, past, paid, requests>>
  BY <1>1 DEF WriteArmy
<1>3. e \in Entries /\ armyChan' \in Seq(Entries)
  BY <1>1, <1>2, HeadTailProperties DEF Inv, QueueGood
<1>4. Good(e.army, e.row)
  BY <1>3 DEF Entries
<1>5. RowsGood'
  <2>1. DOMAIN rows' = DOMAIN rows /\ rows' = [a \in DOMAIN rows' |-> rows'[a]]
    BY <1>2 DEF Inv, RowsGood
  <2>2. ASSUME NEW a \in DOMAIN rows PROVE Good(a, rows'[a])
    <3>1. CASE a = e.army
      <4>1. rows'[a] = e.row
        BY <1>2, <3>1
      <4>. QED  BY <1>4, <3>1, <4>1
    <3>2. CASE a # e.army
      <4>1. rows'[a] = rows[a]
        BY <1>2, <3>2
      <4>. QED  BY <4>1 DEF Inv, RowsGood
    <3>. QED  BY <3>1, <3>2
  <2>. QED  BY <1>2, <2>1, <2>2 DEF Inv, RowsGood, Good, Paid
<1>6. QueueGood'
  BY <1>2, <1>3, SamePaid DEF QueueGood
<1>7. Shaped'
  BY <1>2 DEF Inv, Shaped
<1>. QED  BY <1>2, <1>5, <1>6, <1>7, PartsStay DEF Inv

LEMMA WriteGeneralKeeps ==
    ASSUME Inv, WriteGeneral
    PROVE  Inv'
<1>1. PICK e : e = Head(genChan)
  OBVIOUS
<1>2. /\ genChan # <<>> /\ posted' = [posted EXCEPT ![e.general] = e.posted] /\ genChan' = Tail(genChan)
      /\ UNCHANGED <<rows, armyChan, handler, marches, past, paid, requests>>
  BY <1>1 DEF WriteGeneral
<1>3. e \in Queued /\ genChan' \in Seq(Queued)
  BY <1>1, <1>2, HeadTailProperties DEF Inv, Shaped
<1>4. posted' \in Seen
  BY <1>2, <1>3 DEF Queued, Seen, Inv, Shaped
<1>5. Shaped'
  BY <1>2, <1>3, <1>4 DEF Inv, Shaped
<1>. QED  BY <1>2, <1>5, PartsStay DEF Inv

(* A time that passes is the time of a row.                                 *)
LEMMA TimeKeeps ==
    ASSUME Inv, TimePasses
    PROVE  Inv'
<1>1. PICK p \in Positions : \E stamp \in Waiting(p) \ {0} : past' = past \cup {<<stamp, p>>}
  BY DEF TimePasses
<1>2. PICK stamp \in Waiting(p) \ {0} : past' = past \cup {<<stamp, p>>}
  BY <1>1
<1>3. UNCHANGED <<rows, posted, armyChan, genChan, handler, marches, paid, requests>>
  BY DEF TimePasses
<1>4. stamp \in 1..MaxRequests
  <2>1. PICK a \in DOMAIN rows : stamp = rows[a].time[p]
    BY <1>2 DEF Waiting
  <2>2. rows[a] \in Rows
    BY DEF Inv, RowsGood, Good
  <2>3. stamp \in 0..MaxRequests
    BY <2>1, <2>2, RowFields
  <2>. QED  BY <1>2, <2>3, Numbers
<1>5. Shaped'
  BY <1>2, <1>3, <1>4 DEF Inv, Shaped
<1>. QED  BY <1>3, <1>5, PartsStay DEF Inv

LEMMA ResourcesMissingKeeps ==
    ASSUME Inv, NEW c \in Conns, ResourcesMissing(c)
    PROVE  Inv'
<1>1. /\ Goes(c, Idle)
      /\ UNCHANGED <<rows, posted, armyChan, genChan, marches, past, paid, requests>>
  BY DEF ResourcesMissing
<1>2. Shaped'
  BY <1>1 DEF Inv, Shaped
<1>. QED  BY <1>1, <1>2, OneGoesOn, PartsStay DEF Inv

LEMMA InvAtInit == Init => Inv
<1>. SUFFICES ASSUME Init PROVE Inv
  OBVIOUS
<1>1. paid \in [Armies -> [Positions -> Nat]]
  BY DEF Init
<1>2. RowsGood
  <2>1. CASE rows = <<>>
    BY <2>1 DEF RowsGood
  <2>2. CASE rows \in Standing
    <3>1. PICK a \in Armies, p \in Positions, g \in Generals :
             rows = [b \in {a} |-> [Empty EXCEPT !.gens[p] = g]]
      BY <2>2 DEF Standing
    <3>2. PICK row : row = [Empty EXCEPT !.gens[p] = g]
      OBVIOUS
    <3>3. /\ row.gens = [[q \in Positions |-> None] EXCEPT ![p] = g]
          /\ row.soldiers = [q \in Positions |-> 0] /\ row.cnt = [q \in Positions |-> 0]
          /\ row.time = [q \in Positions |-> 0] /\ row.cmd = "idle"
          /\ row = [gens |-> row.gens, soldiers |-> row.soldiers, cnt |-> row.cnt,
                    time |-> row.time, cmd |-> row.cmd]
      BY <3>2 DEF Empty
    <3>4. row \in Rows
      <4>1. row.gens \in [Positions -> Generals \cup {None}]
        BY <3>3
      <4>2. row.soldiers \in [Positions -> Nat] /\ row.time \in [Positions -> 0..MaxRequests]
        BY <3>3, Numbers
      <4>. QED  BY <3>3, <4>1, <4>2 DEF Rows
    <3>5. Kept(row)
      BY <3>3 DEF Kept
    <3>6. Covered(row)
      <4>. SUFFICES ASSUME NEW q \in Posts(row)
                    PROVE  row.soldiers[q] + (IF row.cmd = "conscript" THEN row.cnt[q] ELSE 0)
                              <= CapOf[row.gens[q]]
        BY DEF Covered
      <4>1. q \in Positions /\ CapOf[row.gens[q]] \in Nat
        BY <3>4, RowFields DEF Posts
      <4>2. row.soldiers[q] = 0 /\ row.cmd = "idle"
        BY <3>3, <4>1
      <4>. QED  BY <4>1, <4>2
    <3>7. Paid(a, row)
      BY <1>1, <3>3 DEF Paid
    <3>. QED  BY <3>1, <3>2, <3>4, <3>5, <3>6, <3>7 DEF RowsGood, Good
  <2>. QED  BY <2>1, <2>2 DEF Init
<1>3. QueueGood /\ MarchesGood
  BY DEF Init, QueueGood, MarchesGood
<1>4. HandlersGood
  BY DEF Init, HandlersGood
<1>5. Shaped
  <2>1. posted \in Seen
    BY DEF Init, Seen
  <2>2. Len(marches) = 0 /\ genChan \in Seq(Queued)
    BY DEF Init
  <2>. QED  BY <1>1, <2>1, <2>2, Numbers DEF Init, Shaped
<1>. QED  BY <1>2, <1>3, <1>4, <1>5 DEF Inv

LEMMA InvIsInductive == Inv /\ [Next]_vars => Inv'
<1>. SUFFICES ASSUME Inv, [Next]_vars PROVE Inv'
  OBVIOUS
<1>1. ASSUME NEW c \in Conns, Handler(c) PROVE Inv'
  BY <1>1, ReadForDisposeKeeps, DisposeKeeps, ReadForConscriptKeeps, ConscriptKeeps,
     ResourcesMissingKeeps DEF Handler
<1>2. ASSUME NEW a \in Armies, SendOut(a) \/ CallBack(a) \/ Defends(a) PROVE Inv'
  BY <1>2, SendOutKeeps, CallBackKeeps, DefendsKeeps
<1>3. ASSUME NEW i \in DOMAIN marches, Fights(i) \/ ComesHome(i) PROVE Inv'
  BY <1>3, FightsKeeps, ComesHomeKeeps
<1>4. CASE UNCHANGED vars
  <2>1. Shaped'
    BY <1>4 DEF vars, Inv, Shaped
  <2>. QED  BY <1>4, <2>1, PartsStay DEF vars, Inv
<1>. QED  BY <1>1, <1>2, <1>3, <1>4, TimeKeeps, WriteArmyKeeps, WriteGeneralKeeps DEF Next

-----------------------------------------------------------------------------
(* Theorems.                                                                *)

LEMMA CopiesAreGood == Inv => \A a \in Armies : \A row \in Copies(a) : Good(a, row)
<1>. SUFFICES ASSUME Inv, NEW a \in Armies, NEW row \in Copies(a) PROVE Good(a, row)
  OBVIOUS
<1>1. CASE a \in DOMAIN rows /\ row \in {rows[a], Get(a).row}
  BY <1>1, ReadIsGood DEF Inv, RowsGood
<1>2. CASE \E i \in DOMAIN armyChan : armyChan[i].army = a /\ armyChan[i].row = row
  <2>1. PICK i \in DOMAIN armyChan : armyChan[i].army = a /\ armyChan[i].row = row
    BY <1>2
  <2>2. armyChan[i] \in Entries
    BY LenProperties DEF Inv, QueueGood
  <2>. QED  BY <2>1, <2>2 DEF Entries
<1>3. CASE \E i \in DOMAIN marches : marches[i].army = a /\ marches[i].copy.row = row
  <2>1. PICK i \in DOMAIN marches : marches[i].army = a /\ marches[i].copy.row = row
    BY <1>3
  <2>2. marches[i] \in OnMarch
    BY LenProperties DEF Inv, MarchesGood
  <2>. QED  BY <2>1, <2>2 DEF OnMarch
<1>4. CASE \E c \in Conns : handler[c].at = "dispose" /\ handler[c].army = a /\ handler[c].copy.row = row
  BY <1>4 DEF Inv, HandlersGood, Idle, Conscripting, Disposing
<1>5. CASE \E c \in Conns : handler[c].at = "conscript" /\ handler[c].army = a /\ handler[c].row = row
  BY <1>5 DEF Inv, HandlersGood, Idle, Conscripting, Disposing
<1>. QED  BY <1>1, <1>2, <1>3, <1>4, <1>5 DEF Copies

(* The strengthening: what was paid for bounds what is there and what is    *)
(* waited for, in every copy, and a position without a time waits for       *)
(* nobody (CheckConscript, conscript, dispose, exeArrive, newBattle).       *)
THEOREM InvariantHolds == Spec => []Inv
<1>. QED  BY InvAtInit, InvIsInductive, PTL DEF Spec

(* Every row, queued copy, march and handler has its shape, whatever the    *)
(* copies it was made from: no position holds less than no soldiers.        *)
THEOREM TypeCorrect == Spec => []TypeOK
<1>1. Inv => TypeOK
  <2>. SUFFICES ASSUME Inv PROVE TypeOK
    OBVIOUS
  <2>1. \A a \in Armies : Copies(a) \subseteq Rows
    BY CopiesAreGood DEF Good
  <2>2. \A i \in DOMAIN genChan : genChan[i] \in Queued
    BY LenProperties DEF Inv, Shaped
  <2>. QED  BY <2>1, <2>2 DEF TypeOK, Queued, Seen, Inv, RowsGood, Shaped
<1>. QED  BY <1>1, InvAtInit, InvIsInductive, PTL DEF Spec

(* No copy of an army, however old, holds or waits for a soldier that was   *)
(* not paid for (CheckConscript applies a conscription once per copy).      *)
THEOREM SoldiersArePaidFor == Spec => []NoUnpaidSoldiers
<1>1. Inv => NoUnpaidSoldiers
  BY CopiesAreGood DEF Good, Paid, NoUnpaidSoldiers
<1>. QED  BY <1>1, InvAtInit, InvIsInductive, PTL DEF Spec

(* No general leads more than it can, whoever led the position before it    *)
(* (PositionCanModify and the zero that dispose writes).                    *)
THEOREM GeneralsLeadWhatTheyCan == Spec => []WithinCap
<1>1. Inv => WithinCap
  BY CopiesAreGood DEF Good, Covered, WithinCap
<1>. QED  BY <1>1, InvAtInit, InvIsInductive, PTL DEF Spec

=============================================================================
