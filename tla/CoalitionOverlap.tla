-------------------------- MODULE CoalitionOverlap ---------------------------
(***************************************************************************)
(* The handlers of Coalition when requests of different connections        *)
(* overlap.  Every connection serves its requests one by one                *)
(* (wsServer.readMsgLoop) but connections run in parallel and a handler    *)
(* holds no lock from its checks to its writes: database calls lie between *)
(* them.  A request is therefore a record in pending from the step that    *)
(* does its checks to the step that does its writes, and what it read may  *)
(* be stale by then.  The server may also stop and reload at any time.     *)
(***************************************************************************)
EXTENDS Coalition

CONSTANTS
    MaxInFlight,   \* bound: requests being handled at the same time
    MaxListed      \* bound: stale lists written back may grow a union for ever

ASSUME OverlapBounds == MaxInFlight \in Nat \ {0} /\ MaxListed \in Nat

VARIABLE pending       \* role -> the request its connection is serving

overlapVars == <<vars, pending>>

Idle == [kind |-> "idle"]
InFlight == {r \in Roles : pending[r] # Idle}

(* A mutated form of CutAll, a slip in the slice arithmetic.                *)
CutAllOneMore(s, r) ==
    LET i == PositionOf(r, s) IN
    [live  |-> IF r \in ToSet(s) THEN SubSeq(s, 1, i - 1) \o SubSeq(s, i + 2, Len(s)) ELSE s,
     cells |-> s, panic |-> FALSE]

(* exit ranges over the MemberArray it cuts: the range keeps reading the    *)
(* old array of n slots, whose cells shift under it, and a second match     *)
(* slices past the shorter list and panics.  live is the list, cells the    *)
(* shared backing array.                                                    *)
Cut(r, i, st) ==
    IF st.panic \/ st.cells[i] # r THEN st
    ELSE IF i > Len(st.live) THEN [st EXCEPT !.panic = TRUE]
    ELSE LET shorter == RemoveAt(st.live, i)
         IN  [live  |-> shorter,
              cells |-> shorter \o SubSeq(st.cells, Len(shorter) + 1, Len(st.cells)),
              panic |-> FALSE]

Whole(s) == [live |-> s, cells |-> s, panic |-> FALSE]

CutAll(s, r) == FoldLeft(LAMBDA st, i : Cut(r, i, st), Whole(s), [i \in 1..Len(s) |-> i])

Begin(r, request) ==
    /\ pending[r] = Idle
    /\ Cardinality(InFlight) < MaxInFlight
    /\ pending' = [pending EXCEPT ![r] = request]

Finish(r) == pending' = [pending EXCEPT ![r] = Idle]

OverlapInit == Init /\ pending = [r \in Roles |-> Idle]

-----------------------------------------------------------------------------
(* create: no union yet; the insert that numbers the union; then MemberEnter. *)
BeginCreate(r) ==
    /\ ~IsHasUnion(r)
    /\ Begin(r, [kind |-> "create"])
    /\ UNCHANGED vars

EndCreate(r, u) ==
    /\ pending[r].kind = "create"
    /\ state[u] = "none" /\ chairman[u] = NoRole
    /\ FoundUnion(r, u)
    /\ Finish(r)

(* join reads and writes through the database only; one connection cannot   *)
(* send the same application twice at once.                                 *)
OverlapJoin(r, u) ==
    /\ pending[r] = Idle
    /\ Join(r, u)
    /\ UNCHANGED pending

(* verify: all checks; then the slice header of MemberArray is read; then   *)
(* the longer slice and the attribute are written; last the application.    *)
BeginVerify(op, r, u, decide) ==
    /\ MayVerify(op, r, u)
    /\ Begin(op, [kind |-> IF decide = "adopt" /\ ~IsHasUnion(r) THEN "admit" ELSE "close",
                  role |-> r, union |-> u, decide |-> decide])
    /\ UNCHANGED vars

ReadMembers(op) ==
    /\ pending[op].kind = "admit"
    /\ pending' = [pending EXCEPT ![op] =
           [kind |-> "append", role |-> @.role, union |-> @.union,
            decide |-> @.decide, seen |-> members[@.union]]]
    /\ UNCHANGED vars

WriteMembers(op) ==
    LET req == pending[op] IN
    /\ req.kind = "append"
    /\ Len(req.seen) < MaxListed
    /\ members' = [members EXCEPT ![req.union] = Append(req.seen, req.role)]
    /\ unionId' = [unionId EXCEPT ![req.role] = req.union]
    /\ pending' = [pending EXCEPT ![op] =
           [kind |-> "close", role |-> req.role, union |-> req.union, decide |-> req.decide]]
    /\ UNCHANGED <<state, chairman, vice, apply>>

CloseApply(op) ==
    LET req == pending[op] IN
    /\ req.kind = "close"
    /\ apply' = [apply EXCEPT ![<<req.role, req.union>>] = req.decide]
    /\ Finish(op)
    /\ UNCHANGED <<state, chairman, vice, members, unionId>>

BeginExit(r, u) ==
    /\ MayExit(r, u)
    /\ Begin(r, [kind |-> "exit", union |-> u])
    /\ UNCHANGED vars

(* A panic is recovered in readMsgLoop: the rest of the handler is skipped. *)
EndExit(r) ==
    LET u == pending[r].union
        cut == CutAll(members[u], r)
    IN
    /\ pending[r].kind = "exit"
    /\ members' = [members EXCEPT ![u] = cut.live]
    /\ IF cut.panic
       THEN UNCHANGED <<vice, unionId>>
       ELSE /\ vice' = [vice EXCEPT ![u] = IF @ = r THEN NoRole ELSE @]
            /\ unionId' = [unionId EXCEPT ![r] = NoUnion]
    /\ Finish(r)
    /\ UNCHANGED <<state, chairman, apply>>

BeginDismiss(r, u) ==
    /\ MayDismiss(r, u)
    /\ Begin(r, [kind |-> "dismiss", union |-> u])
    /\ UNCHANGED vars

(* The id to dismiss is read from the attribute again, after the check.     *)
EndDismiss(r) ==
    /\ pending[r].kind = "dismiss"
    /\ IF unionId[r] # NoUnion /\ Loaded(unionId[r])
       THEN DismissUnion(unionId[r])
       ELSE UNCHANGED vars
    /\ Finish(r)

BeginAppoint(op, r, u, title) ==
    /\ MayAppoint(op, r, u)
    /\ Begin(op, [kind |-> "appoint", role |-> r, union |-> u, title |-> title])
    /\ UNCHANGED vars

EndAppoint(op) ==
    LET req == pending[op] IN
    /\ req.kind = "appoint"
    /\ \/ req.title = "vice" /\ SetVice(req.union, req.role)
       \/ req.title = "common" /\ vice[req.union] = req.role /\ SetVice(req.union, NoRole)
       \/ req.title = "common" /\ vice[req.union] # req.role /\ UNCHANGED vars
    /\ Finish(op)

(* A restart loads every stored union, all still "running" and with only    *)
(* their founder in them, and then rebuilds each attribute from the lists;  *)
(* of several unions that list a role the last one of a map iteration wins. *)
Restart ==
    LET stored == {u \in Unions : chairman[u] # NoRole}
        Listing(r) == {u \in stored : r \in ToSet(StoredMembers(u))}
    IN
    /\ state' = [u \in Unions |-> IF u \in stored THEN "running" ELSE "none"]
    /\ members' = [u \in Unions |-> IF u \in stored THEN StoredMembers(u) ELSE <<>>]
    /\ vice' = [u \in Unions |-> NoRole]
    /\ \E attr \in [Roles -> Unions \cup {NoUnion}] :
          /\ \A r \in Roles : IF Listing(r) = {} THEN attr[r] = NoUnion
                                                 ELSE attr[r] \in Listing(r)
          /\ unionId' = attr
    /\ pending' = [r \in Roles |-> Idle]
    /\ UNCHANGED <<chairman, apply>>

OverlapNext ==
    \/ \E r \in Roles, u \in Unions :
          \/ BeginCreate(r) \/ EndCreate(r, u) \/ OverlapJoin(r, u)
          \/ BeginExit(r, u) \/ BeginDismiss(r, u)
    \/ \E op, r \in Roles, u \in Unions : \E d \in Decisions : BeginVerify(op, r, u, d)
    \/ \E op, r \in Roles, u \in Unions : \E t \in Titles : BeginAppoint(op, r, u, t)
    \/ \E r \in Roles :
          \/ ReadMembers(r) \/ WriteMembers(r) \/ CloseApply(r)
          \/ EndExit(r) \/ EndDismiss(r) \/ EndAppoint(r)
    \/ Restart

OverlapSpec == OverlapInit /\ [][OverlapNext]_overlapVars

-----------------------------------------------------------------------------
(* Even with stale lists written back, panicking exits and restarts, the    *)
(* founder of a running union never drops out of its list.                  *)
ChairmanStaysListed ==
    \A u \in Unions : state[u] = "running" => chairman[u] \in ToSet(members[u])

(* Nobody is listed in, bound to or made vice chairman of a union without   *)
(* having founded it or once applied to it, whatever overlapped and         *)
(* whatever a restart reloaded.                                             *)
AskedFor(r, u) == r = chairman[u] \/ apply[<<r, u>>] # "none"

BoundByConsent ==
    \A r \in Roles, u \in Unions :
        r \in ToSet(members[u]) \/ unionId[r] = u \/ vice[u] = r => AskedFor(r, u)

(* An exit cuts the leaver and nobody else out of the list, also when races *)
(* have listed a role twice and the cutting loop runs past the shorter list. *)
Occurrences(q, s) == Cardinality({i \in DOMAIN s : s[i] = q})

ExitSparesOthers ==
    [][\A r \in Roles, u \in Unions :
          EndExit(r) => \A q \in Roles \ {r} :
              Occurrences(q, members'[u]) = Occurrences(q, members[u])]_overlapVars
==============================================================================
