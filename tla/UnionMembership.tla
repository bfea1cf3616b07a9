--------------------------- MODULE UnionMembership ---------------------------
(***************************************************************************)
(* What the unions of the game promise their players, without the lists,   *)
(* applications and offices the server keeps for it: a role is in at most  *)
(* one union, a union has one head who cannot leave it, it holds at most   *)
(* Capacity roles, and it empties in one step when its head dissolves it.  *)
(***************************************************************************)
EXTENDS Integers, FiniteSets

CONSTANTS People, Groups, Nobody, NoGroup, Capacity

VARIABLES
    memberOf,   \* role -> the union it is in, or NoGroup
    head        \* union -> the role that founded it, Nobody before it exists

vars == <<memberOf, head>>

MembersOf(g) == {p \in People : memberOf[p] = g}

Init ==
    /\ memberOf = [p \in People |-> NoGroup]
    /\ head = [g \in Groups |-> Nobody]

Found(p, g) ==
    /\ memberOf[p] = NoGroup /\ head[g] = Nobody
    /\ memberOf' = [memberOf EXCEPT ![p] = g]
    /\ head' = [head EXCEPT ![g] = p]

Enter(p, g) ==
    /\ memberOf[p] = NoGroup /\ head[g] # Nobody
    /\ Cardinality(MembersOf(g)) < Capacity
    /\ memberOf' = [memberOf EXCEPT ![p] = g]
    /\ UNCHANGED head

Leave(p, g) ==
    /\ memberOf[p] = g /\ head[g] # p
    /\ memberOf' = [memberOf EXCEPT ![p] = NoGroup]
    /\ UNCHANGED head

Dissolve(g) ==
    /\ memberOf[head[g]] = g
    /\ memberOf' = [p \in People |-> IF memberOf[p] = g THEN NoGroup ELSE memberOf[p]]
    /\ UNCHANGED head

Next == \E g \in Groups :
    \/ \E p \in People : Found(p, g) \/ Enter(p, g) \/ Leave(p, g)
    \/ head[g] \in People /\ Dissolve(g)

Spec == Init /\ [][Next]_vars
==============================================================================
