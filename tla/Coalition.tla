------------------------------ MODULE Coalition ------------------------------
(***************************************************************************)
(* Unions (coalitions) of the game server: founding, applying, verifying,  *)
(* leaving, dismissing and appointing, with the per-role union attribute   *)
(* they keep in step.  One action per request handler of unionController,  *)
(* for requests that are served one after the other; CoalitionOverlap      *)
(* splits the same handlers where the code lets two of them overlap.       *)
(*                                                                         *)
(* The code keeps membership twice: Coalition.MemberArray lists the roles  *)
(* of a union, RoleAttribute.UnionId names the union of a role.  No lock   *)
(* and no transaction covers both.                                         *)
(***************************************************************************)
EXTENDS Integers, FiniteSets, SequencesExt

CONSTANTS
    Roles,        \* role ids
    Unions,       \* ids the autoincrement column of tb_coalition_1 hands out
    NoRole,       \* ViceChairman = 0
    NoUnion,      \* UnionId = 0
    MemberLimit   \* gameConfig.Base.Union.MemberLimit

ASSUME ConstantsAssumption ==
    /\ NoRole \notin Roles
    /\ NoUnion \notin Unions
    /\ MemberLimit \in Nat \ {0}

VARIABLES
    state,      \* union -> "none" (no such id loaded), "running", "dismissed"
    chairman,   \* union -> Chairman, the founder: no handler ever assigns it again
    vice,       \* union -> ViceChairman
    members,    \* union -> MemberArray
    unionId,    \* role -> RoleAttribute.UnionId
    apply       \* <<role, union>> -> state of the latest CoalitionApply row

vars == <<state, chairman, vice, members, unionId, apply>>

ApplyStates == {"none", "untreated", "refuse", "adopt"}
Decisions   == {"refuse", "adopt"}
Titles      == {"vice", "common"}

Loaded(u)      == state[u] # "none"
IsHasUnion(r)  == unionId[r] # NoUnion
(* A mutated form of IsFull.  No action uses it.                           *)
IsFullOffByOne(u) == Len(members[u]) > MemberLimit
IsFull(u)      == Len(members[u]) >= MemberLimit
IsOfficer(r, u) == r = chairman[u] \/ r = vice[u]

(* Mutated forms of the definitions below: plausible slips that the         *)
(* properties must notice.  No action uses them.                            *)
WithoutBlanked(s, r) == [i \in DOMAIN s |-> IF s[i] = r THEN NoRole ELSE s[i]]
MayVerifyUnasked(op, r, u) == Loaded(u) /\ IsOfficer(op, u) /\ ~IsFull(u)
MayVerifyOverfull(op, r, u) == apply[<<r, u>>] = "untreated" /\ Loaded(u) /\ IsOfficer(op, u)
MayExitChairmanToo(r, u) == IsHasUnion(r) /\ unionId[r] = u /\ Loaded(u)
DismissForgetsAttributes(u) ==
    /\ state'   = [state EXCEPT ![u] = "dismissed"]
    /\ members' = [members EXCEPT ![u] = <<>>]
    /\ UNCHANGED <<chairman, vice, unionId, apply>>
DismissEverybody(u) ==
    /\ unionId' = [r \in Roles |-> NoUnion]
    /\ state'   = [state EXCEPT ![u] = "dismissed"]
    /\ members' = [v \in Unions |-> <<>>]
    /\ UNCHANGED <<chairman, vice, apply>>
AdmitRefusedToo(op, r, u, decide) ==
    /\ apply[<<r, u>>] = "untreated" /\ Loaded(u) /\ IsOfficer(op, u) /\ ~IsFull(u)
    /\ ~IsHasUnion(r)
    /\ members' = [members EXCEPT ![u] = Append(@, r)]
    /\ unionId' = [unionId EXCEPT ![r] = u]
    /\ apply'   = [apply EXCEPT ![<<r, u>>] = decide]
    /\ UNCHANGED <<state, chairman, vice>>

(* MemberArray without role r: the append(a[:i], a[i+1:]...) of exit.       *)
PositionOf(r, s) == CHOOSE i \in DOMAIN s : s[i] = r
Without(s, r)    == RemoveAt(s, PositionOf(r, s))

(* The row of union u in the database.  CoalitionDao.running updates a row  *)
(* only when its id is negative, which no autoincremented id is, so a row   *)
(* keeps the members it was inserted with for ever.                         *)
StoredMembers(u) == <<chairman[u]>>

Init ==
    /\ state    = [u \in Unions |-> "none"]
    /\ chairman = [u \in Unions |-> NoRole]
    /\ vice     = [u \in Unions |-> NoRole]
    /\ members  = [u \in Unions |-> <<>>]
    /\ unionId  = [r \in Roles |-> NoUnion]
    /\ apply    = [p \in Roles \X Unions |-> "none"]

-----------------------------------------------------------------------------
(* What a handler writes once its checks have passed.                       *)

FoundUnion(r, u) ==
    /\ state'    = [state EXCEPT ![u] = "running"]
    /\ chairman' = [chairman EXCEPT ![u] = r]
    /\ members'  = [members EXCEPT ![u] = <<r>>]
    /\ unionId'  = [unionId EXCEPT ![r] = u]
    /\ UNCHANGED <<vice, apply>>

DismissUnion(u) ==
    /\ unionId' = [r \in Roles |-> IF r \in ToSet(members[u]) THEN NoUnion ELSE unionId[r]]
    /\ state'   = [state EXCEPT ![u] = "dismissed"]
    /\ members' = [members EXCEPT ![u] = <<>>]
    /\ UNCHANGED <<chairman, vice, apply>>

SetVice(u, r) ==
    /\ vice' = [vice EXCEPT ![u] = r]
    /\ UNCHANGED <<state, chairman, members, unionId, apply>>

-----------------------------------------------------------------------------
(* The checks of a handler, in its order.                                   *)

MayCreate(r, u) == ~IsHasUnion(r) /\ state[u] = "none" /\ chairman[u] = NoRole

MayApply(r, u) ==
    /\ ~IsHasUnion(r)
    /\ Loaded(u)
    /\ ~IsFull(u)
    /\ apply[<<r, u>>] # "untreated"

MayVerify(op, r, u) ==
    /\ apply[<<r, u>>] = "untreated"
    /\ Loaded(u)
    /\ IsOfficer(op, u)
    /\ ~IsFull(u)

MayExit(r, u) ==
    /\ IsHasUnion(r) /\ unionId[r] = u
    /\ Loaded(u)
    /\ chairman[u] # r

MayDismiss(r, u) ==
    /\ IsHasUnion(r) /\ unionId[r] = u
    /\ Loaded(u)
    /\ chairman[u] = r

MayAppoint(op, r, u) == MayDismiss(op, u) /\ unionId[r] = u

-----------------------------------------------------------------------------
(* The handlers.                                                            *)

Create(r, u) == MayCreate(r, u) /\ FoundUnion(r, u)

Join(r, u) ==
    /\ MayApply(r, u)
    /\ apply' = [apply EXCEPT ![<<r, u>>] = "untreated"]
    /\ UNCHANGED <<state, chairman, vice, members, unionId>>

(* A role that found another union meanwhile is not admitted, but its       *)
(* application is closed with the decision all the same.                    *)
Verify(op, r, u, decide) ==
    /\ MayVerify(op, r, u)
    /\ IF decide = "adopt" /\ ~IsHasUnion(r)
       THEN /\ members' = [members EXCEPT ![u] = Append(@, r)]
            /\ unionId' = [unionId EXCEPT ![r] = u]
       ELSE UNCHANGED <<members, unionId>>
    /\ apply' = [apply EXCEPT ![<<r, u>>] = decide]
    /\ UNCHANGED <<state, chairman, vice>>

Exit(r, u) ==
    /\ MayExit(r, u)
    /\ members' = [members EXCEPT ![u] = Without(@, r)]
    /\ vice'    = [vice EXCEPT ![u] = IF @ = r THEN NoRole ELSE @]
    /\ unionId' = [unionId EXCEPT ![r] = NoUnion]
    /\ UNCHANGED <<state, chairman, apply>>

Dismiss(r, u) == MayDismiss(r, u) /\ DismissUnion(u)

Appoint(op, r, u, title) ==
    /\ MayAppoint(op, r, u)
    /\ \/ title = "vice"   /\ SetVice(u, r)
       \/ title = "common" /\ vice[u] = r /\ SetVice(u, NoRole)

Next ==
    \/ \E r \in Roles, u \in Unions :
          \/ Create(r, u)
          \/ Join(r, u)
          \/ Exit(r, u)
          \/ Dismiss(r, u)
    \/ \E op, r \in Roles, u \in Unions : \E d \in Decisions : Verify(op, r, u, d)
    \/ \E op, r \in Roles, u \in Unions : \E t \in Titles : Appoint(op, r, u, t)

Spec == Init /\ [][Next]_vars

-----------------------------------------------------------------------------
TypeOK ==
    /\ state    \in [Unions -> {"none", "running", "dismissed"}]
    /\ chairman \in [Unions -> Roles \cup {NoRole}]
    /\ vice     \in [Unions -> Roles \cup {NoRole}]
    /\ members  \in [Unions -> Seq(Roles)]
    /\ unionId  \in [Roles -> Unions \cup {NoUnion}]
    /\ apply    \in [Roles \X Unions -> ApplyStates]

(* The two copies of membership agree: a role's attribute names a union     *)
(* exactly when that union's MemberArray lists the role.  A role is then    *)
(* in at most one union, and dismiss, exit and verify, which each read one  *)
(* copy and write both, can never strand a role.                            *)
MembershipAgrees ==
    \A r \in Roles, u \in Unions : unionId[r] = u <=> r \in ToSet(members[u])

(* MemberArray lists nobody twice, so that the length verify and join       *)
(* compare with the limit is the number of members.                         *)
NoDuplicateMember == \A u \in Unions : IsInjective(members[u])

(* No union has more than MemberLimit members, though join checks the limit *)
(* long before the application is verified.                                 *)
WithinLimit == \A u \in Unions : Len(members[u]) <= MemberLimit

(* A running union always has its chairman and its vice chairman, if any,   *)
(* among its members: nobody outside a union can verify, appoint or dismiss *)
(* in it.                                                                   *)
OfficersAreMembers ==
    \A u \in Unions : state[u] = "running" =>
        /\ chairman[u] \in ToSet(members[u])
        /\ vice[u] = NoRole \/ vice[u] \in ToSet(members[u])

(* Every membership was asked for and granted: a member either founded the  *)
(* union or its latest application there was adopted.  A refusal, or a new  *)
(* application still waiting, never goes with a seat.                       *)
MembersConsented ==
    \A r \in Roles, u \in Unions :
        r \in ToSet(members[u]) => r = chairman[u] \/ apply[<<r, u>>] = "adopt"

(* The roles that had no part in a step keep their union: only the founder, *)
(* an adopted applicant, the leaver or the members of a dismissed union     *)
(* change theirs.                                                           *)
MembershipChange(r) ==
    \/ unionId'[r] = unionId[r]
    \/ \E u \in Unions :
        \/ unionId[r] = NoUnion /\ unionId'[r] = u /\ chairman'[u] = r
        \/ unionId[r] = NoUnion /\ unionId'[r] = u /\ apply[<<r, u>>] = "untreated"
        \/ unionId[r] = u /\ unionId'[r] = NoUnion /\ chairman[u] # r
        \/ unionId[r] = u /\ unionId'[r] = NoUnion /\ state'[u] = "dismissed"

MembershipChangesAreLegal == [][\A r \in Roles : MembershipChange(r)]_vars

(* Every step of the server is a step, or a stutter, of the unions promised *)
(* to the players: seats, founders and dissolutions as UnionMembership      *)
(* states them, whatever lists and applications lie behind.                 *)
Promise == INSTANCE UnionMembership WITH
    People <- Roles, Groups <- Unions, Nobody <- NoRole, NoGroup <- NoUnion,
    Capacity <- MemberLimit, memberOf <- unionId, head <- chairman

KeepsPromise == Promise!Spec
==============================================================================
