----------------------------- MODULE ChatProofs ------------------------------
(***************************************************************************)
(* Proofs about Chat: for any connections, roles and union channels and    *)
(* any capacity of a connection's queue, a role is in the channel its      *)
(* index names and no other, and a logout spares the next login.           *)
(***************************************************************************)
EXTENDS Chat, TLAPS

-----------------------------------------------------------------------------
(* What a handler holds while it has unionMutex: it is about to take a role *)
(* out of a channel, or to put it into one.                                 *)

Leaving == {"leave", "exit"}

Changing == Leaving \cup {"enter"}

(* Roles that name their channel, and the channels that name their roles.   *)
Agrees(r) == \A g \in Unions : r \in users[g] <=> ridToUnionGroups[r] = g

MutexIsHeld == \A c \in Conns : handler[c].at \in Changing => unionMutex = c

ChangesOwn ==
    \A c \in Conns :
        /\ handler[c].at \in Changing =>
              /\ handler[c].rid \in Roles /\ handler[c].on \in Unions
              /\ ridToUnionGroups[handler[c].rid] = handler[c].on
        /\ handler[c].at \in Leaving => \A r \in Roles : Agrees(r)
        /\ handler[c].at = "enter" =>
              /\ \A r \in Roles \ {handler[c].rid} : Agrees(r)
              /\ \A g \in Unions : handler[c].rid \notin users[g]

(* Roles and channels a handler works on, by its step.                      *)
OnRole  == {"roleEnter", "enterWorld", "removeUser", "exitWorld", "getUser", "lockToJoin", "lockForExit"}

Fits(h) ==
    /\ h.at \in OnRole => h.rid \in Roles
    /\ h.at \in {"enterWorld", "exitWorld"} => h.on = World
    /\ h.at \in {"getUser", "lockToJoin", "leave"} => h.to \in Unions
    /\ h.at \in {"push", "broadcast", "blocked"} => h.on \in Channels
    /\ h.at = "blocked" => h.to \in Conns

HandlersTyped == DOMAIN handler = Conns /\ \A c \in Conns : Fits(handler[c])

TypeInv == TypeOK /\ HandlersTyped

Inv == MutexIsHeld /\ ChangesOwn /\ UnionIndexAgrees

-----------------------------------------------------------------------------
LEMMA HandlerGoes ==
    ASSUME HandlersTyped, NEW c \in Conns, NEW next, Goes(c, next)
    PROVE  /\ DOMAIN handler' = Conns /\ handler'[c] = next
           /\ \A d \in Conns \ {c} : handler'[d] = handler[d]
BY DEF HandlersTyped, Goes

(* The channels' names are no name of the world's.                          *)
LEMMA WorldIsNoUnion == World \notin Unions /\ 0 \notin Roles
BY ChatAssumption DEF World

(* Steps that neither touch the union channels nor the mutex, and end       *)
(* outside the section it guards.                                           *)
LEMMA ChannelsStay ==
    ASSUME TypeInv, Inv, NEW c \in Conns, NEW next, Goes(c, next), next.at \notin Changing,
           UNCHANGED <<ridToUnionGroups, unionMutex>>, \A g \in Unions : users'[g] = users[g]
    PROVE  Inv'
<1>1. handler'[c] = next /\ \A d \in Conns \ {c} : handler'[d] = handler[d]
  BY HandlerGoes DEF TypeInv
<1>2. MutexIsHeld'
  BY <1>1 DEF Inv, MutexIsHeld
<1>3. \A r \in Roles : Agrees(r)' <=> Agrees(r)
  BY DEF Agrees
<1>4. ChangesOwn'
  BY <1>1, <1>3 DEF Inv, ChangesOwn, Leaving, Changing
<1>5. UnionIndexAgrees'
  BY DEF Inv, UnionIndexAgrees
<1>. QED  BY <1>2, <1>4, <1>5 DEF Inv

LEMMA InvHoldsAtInit == Init => Inv
BY WorldIsNoUnion DEF Init, Idle, Inv, MutexIsHeld, ChangesOwn, UnionIndexAgrees, Leaving, Changing,
   Channels, World

LEMMA RequestKeepsInv ==
    ASSUME TypeInv, Inv, NEW c \in Conns, Request(c)
    PROVE  Inv'
<1>1. PICK next : Goes(c, next) /\ next.at \notin Changing
  <2>1. ASSUME NEW r \in Roles, Login(c, r) \/ Logout(c, r)
        PROVE  \E next : Goes(c, next) /\ next.at \notin Changing
    BY <2>1 DEF Login, Logout, Asks, Leaving, Changing
  <2>2. ASSUME NEW g \in Unions, Join(c, g)
        PROVE  \E next : Goes(c, next) /\ next.at \notin Changing
    BY <2>2 DEF Join, Asks, Leaving, Changing
  <2>3. CASE Exit(c) \/ History(c) \/ ChatWorld(c)
    BY <2>3 DEF Exit, History, ChatWorld, Asks, Leaving, Changing
  <2>4. CASE ChatUnion(c)
    BY <2>4 DEF ChatUnion, Asks, Reply, Leaving, Changing
  <2>. QED  BY <2>1, <2>2, <2>3, <2>4 DEF Request
<1>2. UNCHANGED <<channels, unionMutex>>
  BY DEF Request, Login, Logout, Join, Exit, History, ChatWorld, ChatUnion, Asks
<1>. QED  BY <1>1, <1>2, ChannelsStay DEF channels

(* The world's channel, the cache of connections and the pushes.            *)
LEMMA WorldKeepsInv ==
    ASSUME TypeInv, Inv, NEW c \in Conns,
           \/ RoleEnter(c) \/ EnterWorld(c) \/ RemoveUser(c) \/ ExitWorld(c)
           \/ GetUser(c) \/ ReadHistory(c)
           \/ PushMsg(c) \/ EndBroadcast(c) \/ Unblock(c) \/ Answer(c) \/ Block(c)
           \/ \E r \in Roles : PushByRoleId(c, r)
    PROVE  Inv'
<1>1. PICK next : Goes(c, next) /\ next.at \notin Changing
  <2>1. CASE RoleEnter(c)
    BY <2>1 DEF RoleEnter, Leaving, Changing
  <2>2. CASE EnterWorld(c) \/ ExitWorld(c) \/ ReadHistory(c)
    BY <2>2 DEF EnterWorld, ExitWorld, ReadHistory, Reply, Leaving, Changing
  <2>3. CASE RemoveUser(c)
    BY <2>3 DEF RemoveUser, Leaving, Changing
  <2>4. CASE GetUser(c)
    BY <2>4 DEF GetUser, Reply, Leaving, Changing
  <2>5. CASE PushMsg(c)
    BY <2>5 DEF PushMsg, Reply, Leaving, Changing
  <2>6. CASE EndBroadcast(c)
    BY <2>6 DEF EndBroadcast, Reply, Leaving, Changing
  <2>7. CASE Unblock(c)
    BY <2>7 DEF Unblock, Leaving, Changing
  <2>8. CASE Answer(c)
    BY <2>8 DEF Answer, Idle, Leaving, Changing
  <2>9. CASE Block(c)
    BY <2>9 DEF Block, Leaving, Changing
  <2>10. ASSUME NEW r \in Roles, PushByRoleId(c, r)
         PROVE  \E next : Goes(c, next) /\ next.at \notin Changing
    <3>1. Sent(c, r).at \notin Changing /\ "blocked" \notin Changing
      BY DEF Sent, Leaving, Changing
    <3>2. CASE roleCache[r] # NoConn /\ outChan[roleCache[r]] = Cap
      BY <2>10, <3>1, <3>2 DEF PushByRoleId
    <3>3. CASE ~(roleCache[r] # NoConn /\ outChan[roleCache[r]] = Cap)
      BY <2>10, <3>1, <3>3 DEF PushByRoleId
    <3>. QED  BY <3>2, <3>3
  <2>. QED  BY <2>1, <2>2, <2>3, <2>4, <2>5, <2>6, <2>7, <2>8, <2>9, <2>10
<1>2. UNCHANGED <<ridToUnionGroups, unionMutex>>
  BY DEF RoleEnter, EnterWorld, RemoveUser, ExitWorld, GetUser, ReadHistory, PushMsg, EndBroadcast,
     Unblock, Answer, Block, PushByRoleId, channels
<1>3. \A g \in Unions : users'[g] = users[g]
  <2>. DOMAIN users = Channels /\ \A g \in Unions : g \in Channels /\ g # World
    BY WorldIsNoUnion DEF TypeInv, TypeOK, Channels
  <2>1. CASE EnterWorld(c) \/ ExitWorld(c)
    <3>1. PICK s : users' = [users EXCEPT ![World] = s]
      BY <2>1 DEF EnterWorld, ExitWorld
    <3>. QED  BY <3>1
  <2>2. CASE ~(EnterWorld(c) \/ ExitWorld(c))
    BY <2>2 DEF RoleEnter, RemoveUser, GetUser, ReadHistory, PushMsg, EndBroadcast,
       Unblock, Answer, Block, PushByRoleId, channels
  <2>. QED  BY <2>1, <2>2
<1>. QED  BY <1>1, <1>2, <1>3, ChannelsStay

-----------------------------------------------------------------------------
(* The section unionMutex guards: one handler at most is in it.             *)
LEMMA Alone ==
    ASSUME MutexIsHeld, NEW c \in Conns, handler[c].at \in Changing \/ unionMutex = NoConn
    PROVE  \A d \in Conns \ {c} : handler[d].at \notin Changing
BY ChatAssumption DEF MutexIsHeld

LEMMA SectionIsLeft ==
    ASSUME TypeInv, MutexIsHeld, NEW c \in Conns, NEW next, Goes(c, next),
           handler[c].at \in Changing \/ unionMutex = NoConn,
           next.at \notin Changing, \A r \in Roles : Agrees(r)'
    PROVE  Inv'
<1>1. \A d \in Conns : handler'[d].at \notin Changing
  BY Alone, HandlerGoes DEF TypeInv
<1>. QED  BY <1>1 DEF Inv, MutexIsHeld, ChangesOwn, UnionIndexAgrees, Agrees, Leaving, Changing

LEMMA SectionGoesOn ==
    ASSUME TypeInv, MutexIsHeld, NEW c \in Conns, NEW next, Goes(c, next),
           handler[c].at \in Changing \/ unionMutex = NoConn,
           unionMutex' = c, next.rid \in Roles, next.on \in Unions,
           ridToUnionGroups'[next.rid] = next.on,
           next.at \in Leaving => \A r \in Roles : Agrees(r)',
           next.at = "enter" =>
              /\ \A r \in Roles \ {next.rid} : Agrees(r)'
              /\ \A g \in Unions : next.rid \notin users'[g]
    PROVE  Inv'
<1>1. handler'[c] = next /\ \A d \in Conns \ {c} : handler'[d].at \notin Changing
  BY Alone, HandlerGoes DEF TypeInv
<1>2. MutexIsHeld'
  BY <1>1 DEF MutexIsHeld
<1>3. ChangesOwn'
  BY <1>1 DEF ChangesOwn, Leaving, Changing
<1>4. UnionIndexAgrees'
  BY ChatAssumption DEF UnionIndexAgrees
<1>. QED  BY <1>2, <1>3, <1>4 DEF Inv

LEMMA LockToJoinKeepsInv ==
    ASSUME TypeInv, Inv, NEW c \in Conns, LockToJoin(c)
    PROVE  Inv'
<1>. DEFINE r == handler[c].rid
            g == handler[c].to
            old == ridToUnionGroups[r]
<1>1. /\ r \in Roles /\ g \in Unions /\ old \in Unions \cup {0}
      /\ unionMutex = NoConn /\ users' = users
      /\ ridToUnionGroups \in [Roles -> Unions \cup {0}]
  BY DEF TypeInv, TypeOK, HandlersTyped, Fits, OnRole, LockToJoin, At
<1>2. \A x \in Roles : Agrees(x)
  BY <1>1 DEF Inv, UnionIndexAgrees, Agrees
<1>3. DOMAIN handler = Conns /\ 0 \notin Unions
  BY WorldIsNoUnion DEF TypeInv, HandlersTyped, World
<1>4. CASE old = 0
  <2>1. PICK next : next = [at |-> "enter", on |-> g, rid |-> r]
    OBVIOUS
  <2>2. Goes(c, next) /\ ridToUnionGroups' = [ridToUnionGroups EXCEPT ![r] = g] /\ Held(c)
    BY <1>1, <1>3, <1>4, <2>1 DEF LockToJoin
  <2>3. unionMutex' = c
    BY <1>3, <2>1, <2>2 DEF Held, Goes, Reply
  <2>4. \A x \in Roles \ {r} : Agrees(x)'
    BY <1>1, <1>2, <2>2 DEF Agrees
  <2>5. \A h \in Unions : r \notin users'[h]
    BY <1>1, <1>2, <1>3, <1>4, <2>2 DEF Agrees
  <2>6. next.rid = r /\ next.on = g /\ next.at = "enter" /\ next.at \notin Leaving
    BY <2>1 DEF Leaving
  <2>7. ridToUnionGroups'[next.rid] = next.on
    BY <1>1, <2>2, <2>6
  <2>. HIDE DEF r, g, old
  <2>. QED  BY <1>1, <2>2, <2>3, <2>4, <2>5, <2>6, <2>7, SectionGoesOn DEF Inv
<1>5. CASE old # 0 /\ old = g
  <2>1. Goes(c, Reply) /\ ridToUnionGroups' = ridToUnionGroups
    BY <1>5 DEF LockToJoin
  <2>2. PICK next : next = Reply
    OBVIOUS
  <2>3. \A x \in Roles : Agrees(x)'
    BY <1>1, <1>2, <2>1 DEF Agrees
  <2>. QED  BY <1>1, <2>1, <2>2, <2>3, SectionIsLeft DEF Inv, Reply, Leaving, Changing
<1>6. CASE old # 0 /\ old # g
  <2>1. PICK next : next = [at |-> "leave", on |-> old, rid |-> r, to |-> g]
    OBVIOUS
  <2>2. Goes(c, next) /\ ridToUnionGroups' = ridToUnionGroups /\ Held(c)
    BY <1>6, <2>1 DEF LockToJoin
  <2>3. unionMutex' = c
    BY <1>3, <2>1, <2>2 DEF Held, Goes, Reply
  <2>4. \A x \in Roles : Agrees(x)'
    BY <1>1, <1>2, <2>2 DEF Agrees
  <2>5. next.rid = r /\ next.on = old /\ old \in Unions /\ next.at = "leave"
    BY <1>1, <1>6, <2>1
  <2>6. ridToUnionGroups'[next.rid] = next.on
    BY <2>2, <2>5
  <2>. HIDE DEF r, g, old
  <2>. QED  BY <1>1, <2>2, <2>3, <2>4, <2>5, <2>6, SectionGoesOn DEF Inv
<1>. QED  BY <1>4, <1>5, <1>6

LEMMA LeaveKeepsInv ==
    ASSUME TypeInv, Inv, NEW c \in Conns, Leave(c)
    PROVE  Inv'
<1>. DEFINE r == handler[c].rid
            g == handler[c].on
            to == handler[c].to
<1>1. /\ r \in Roles /\ g \in Unions /\ to \in Unions /\ ridToUnionGroups[r] = g
      /\ handler[c].at \in Changing /\ unionMutex = c /\ \A x \in Roles : Agrees(x)
  BY DEF TypeInv, HandlersTyped, Fits, OnRole, Inv, ChangesOwn, MutexIsHeld, Leave, At, Leaving, Changing
<1>2. /\ users \in [Channels -> SUBSET Roles] /\ g \in Channels /\ Unions \subseteq Channels
      /\ ridToUnionGroups \in [Roles -> Unions \cup {0}]
  BY <1>1 DEF TypeInv, TypeOK, Channels
<1>3. PICK next : next = [at |-> "enter", on |-> to, rid |-> r]
  OBVIOUS
<1>4. /\ Goes(c, next) /\ users' = [users EXCEPT ![g] = @ \ {r}]
      /\ ridToUnionGroups' = [ridToUnionGroups EXCEPT ![r] = to] /\ unionMutex' = c
  BY <1>1, <1>3 DEF Leave
<1>5. \A x \in Roles \ {r} : Agrees(x)'
  BY <1>1, <1>2, <1>4 DEF Agrees
<1>6. \A h \in Unions : r \notin users'[h]
  BY <1>1, <1>2, <1>4 DEF Agrees
<1>7. ridToUnionGroups'[next.rid] = next.on
  BY <1>1, <1>2, <1>3, <1>4
<1>. HIDE DEF r, g, to
<1>. QED  BY <1>1, <1>3, <1>4, <1>5, <1>6, <1>7, SectionGoesOn DEF Inv, Leaving

LEMMA EnterKeepsInv ==
    ASSUME TypeInv, Inv, NEW c \in Conns, Enter(c)
    PROVE  Inv'
<1>. DEFINE r == handler[c].rid
            g == handler[c].on
<1>1. /\ r \in Roles /\ g \in Unions /\ ridToUnionGroups[r] = g
      /\ handler[c].at \in Changing
      /\ \A x \in Roles \ {r} : Agrees(x)
      /\ \A h \in Unions : r \notin users[h]
  BY DEF Inv, ChangesOwn, Enter, At, Changing
<1>2. users \in [Channels -> SUBSET Roles] /\ g \in Channels /\ Unions \subseteq Channels
  BY <1>1 DEF TypeInv, TypeOK, Channels
<1>3. PICK next : next = Reply
  OBVIOUS
<1>4. /\ Goes(c, next) /\ users' = [users EXCEPT ![g] = @ \cup {r}]
      /\ ridToUnionGroups' = ridToUnionGroups
  BY <1>3 DEF Enter
<1>5. \A x \in Roles : Agrees(x)'
  BY <1>1, <1>2, <1>4 DEF Agrees
<1>. QED  BY <1>1, <1>3, <1>4, <1>5, SectionIsLeft DEF Inv, Reply, Leaving, Changing

LEMMA LockForExitKeepsInv ==
    ASSUME TypeInv, Inv, NEW c \in Conns, LockForExit(c)
    PROVE  Inv'
<1>. DEFINE r == handler[c].rid
            g == ridToUnionGroups[r]
<1>1. /\ r \in Roles /\ g \in Unions \cup {0} /\ unionMutex = NoConn
      /\ users' = users /\ ridToUnionGroups' = ridToUnionGroups
  BY DEF TypeInv, TypeOK, HandlersTyped, Fits, OnRole, LockForExit, channels, At
<1>2. \A x \in Roles : Agrees(x)'
  BY <1>1 DEF Inv, UnionIndexAgrees, Agrees
<1>3. DOMAIN handler = Conns
  BY DEF TypeInv, HandlersTyped
<1>4. CASE g = 0
  <2>1. PICK next : next = Reply
    OBVIOUS
  <2>2. Goes(c, next)
    BY <1>4, <2>1 DEF LockForExit
  <2>. QED  BY <1>1, <1>2, <2>1, <2>2, SectionIsLeft DEF Inv, Reply, Leaving, Changing
<1>5. CASE g # 0
  <2>1. PICK next : next = [at |-> "exit", on |-> g, rid |-> r]
    OBVIOUS
  <2>2. Goes(c, next) /\ Held(c)
    BY <1>5, <2>1 DEF LockForExit
  <2>3. unionMutex' = c
    BY <1>3, <2>1, <2>2 DEF Held, Goes, Reply
  <2>4. next.rid = r /\ next.on = g /\ g \in Unions /\ next.at = "exit"
    BY <1>1, <1>5, <2>1
  <2>5. ridToUnionGroups'[next.rid] = next.on
    BY <1>1, <2>4
  <2>. HIDE DEF r, g
  <2>. QED  BY <1>1, <1>2, <2>2, <2>3, <2>4, <2>5, SectionGoesOn DEF Inv
<1>. QED  BY <1>4, <1>5

LEMMA ExitUnionKeepsInv ==
    ASSUME TypeInv, Inv, NEW c \in Conns, ExitUnion(c)
    PROVE  Inv'
<1>. PICK r, g : r = handler[c].rid /\ g = handler[c].on
  OBVIOUS
<1>1. /\ r \in Roles /\ g \in Unions /\ ridToUnionGroups[r] = g
      /\ handler[c].at \in Changing /\ \A x \in Roles : Agrees(x)
  BY DEF Inv, ChangesOwn, ExitUnion, At, Leaving, Changing
<1>2. /\ users \in [Channels -> SUBSET Roles] /\ g \in Channels /\ Unions \subseteq Channels
      /\ ridToUnionGroups \in [Roles -> Unions \cup {0}] /\ 0 \notin Unions
  BY <1>1, WorldIsNoUnion DEF TypeInv, TypeOK, Channels, World
<1>3. PICK next : next = Reply
  OBVIOUS
<1>4. /\ Goes(c, next) /\ users' = [users EXCEPT ![g] = @ \ {r}]
      /\ ridToUnionGroups' = [ridToUnionGroups EXCEPT ![r] = 0]
  BY <1>3 DEF ExitUnion
<1>5. \A x \in Roles \ {r} : Agrees(x)'
  BY <1>1, <1>2, <1>4 DEF Agrees
<1>6. Agrees(r)'
  BY <1>1, <1>2, <1>4 DEF Agrees
<1>. QED  BY <1>1, <1>3, <1>4, <1>5, <1>6, SectionIsLeft DEF Inv, Reply, Leaving, Changing

LEMMA InvNext == TypeInv /\ Inv /\ [Next]_vars => Inv'
<1>. SUFFICES ASSUME TypeInv, Inv, [Next]_vars PROVE Inv'
  OBVIOUS
<1>1. CASE UNCHANGED vars
  <2>1. UNCHANGED <<users, ridToUnionGroups, unionMutex, handler>>
    BY <1>1 DEF vars, mgr, channels
  <2>. QED  BY <2>1 DEF Inv, MutexIsHeld, ChangesOwn, UnionIndexAgrees, Agrees
<1>2. CASE Restart
  <2>1. \A c \in Conns : handler'[c].at \notin Changing
    BY <1>2 DEF Restart, Idle, Leaving, Changing
  <2>2. UnionIndexAgrees'
    BY <1>2, WorldIsNoUnion DEF Restart, UnionIndexAgrees, Channels, World
  <2>. QED  BY <2>1, <2>2 DEF Inv, MutexIsHeld, ChangesOwn, Leaving, Changing
<1>3. ASSUME NEW c \in Conns, Request(c) PROVE Inv'
  BY <1>3, RequestKeepsInv
<1>4. ASSUME NEW c \in Conns, Step(c) PROVE Inv'
  BY <1>4, WorldKeepsInv, LockToJoinKeepsInv, LeaveKeepsInv, EnterKeepsInv, LockForExitKeepsInv,
     ExitUnionKeepsInv DEF Step
<1>5. ASSUME NEW c \in Conns, writeMsgLoop(c) PROVE Inv'
  BY <1>5 DEF writeMsgLoop, mgr, channels, Inv, MutexIsHeld, ChangesOwn, UnionIndexAgrees, Agrees
<1>. QED  BY <1>1, <1>2, <1>3, <1>4, <1>5 DEF Next

-----------------------------------------------------------------------------
(* Types.                                                                   *)

LEMMA TypeInvAtInit == Init => TypeInv
BY ChatAssumption DEF Init, Idle, At, TypeInv, TypeOK, HandlersTyped, Fits, OnRole, Channels, World

(* A handler that moves without waiting with rc, and what it may go on to.  *)
LEMMA HandlersStayTyped ==
    ASSUME TypeInv, NEW c \in Conns, NEW next, Goes(c, next), Fits(next)
    PROVE  HandlersTyped'
<1>1. /\ DOMAIN handler' = Conns /\ handler'[c] = next
      /\ \A d \in Conns \ {c} : handler'[d] = handler[d]
  BY HandlerGoes DEF TypeInv
<1>2. \A d \in Conns : Fits(handler'[d])
  BY <1>1 DEF TypeInv, HandlersTyped
<1>. QED  BY <1>1, <1>2 DEF HandlersTyped, Fits

LEMMA NobodyBlocks ==
    ASSUME TypeInv, NEW c \in Conns, NEW next, Goes(c, next), next.at # "blocked"
    PROVE  \A d, e \in Conns : At(d, "blocked")' /\ At(e, "blocked")' => d = e
BY HandlerGoes DEF TypeInv, TypeOK, At

(* What is neither a handler nor a lock.                                    *)
DataTyped ==
    /\ rid \in [Conns -> Roles \cup {0}] /\ roleCache \in [Roles -> Conns \cup {NoConn}]
    /\ users \in [Channels -> SUBSET Roles] /\ ridToUnionGroups \in [Roles -> Unions \cup {0}]
    /\ leaked \subseteq Channels
    /\ outChan \in [Conns -> 0..Cap] /\ requests \in 0..MaxRequests

OneBlocks == \A d, e \in Conns : At(d, "blocked") /\ At(e, "blocked") => d = e

LEMMA TypeInvParts ==
    /\ TypeInv => DataTyped /\ OneBlocks /\ HandlersTyped
    /\ DataTyped /\ OneBlocks /\ HandlersTyped /\ MutexIsHeld => TypeInv
BY DEF TypeInv, TypeOK, DataTyped, OneBlocks, MutexIsHeld, Changing, Leaving

LEMMA RequestIsTyped ==
    ASSUME TypeInv, NEW c \in Conns, Request(c)
    PROVE  DataTyped' /\ OneBlocks' /\ HandlersTyped'
<1>1. DataTyped /\ 0 \notin Roles /\ World \in Channels /\ Unions \subseteq Channels
  BY TypeInvParts, WorldIsNoUnion DEF Channels
<1>2. requests' = requests + 1 /\ requests < MaxRequests
      /\ UNCHANGED <<rid, roleCache, users, ridToUnionGroups, leaked, outChan>>
  BY DEF Request, Login, Logout, Join, Exit, History, ChatWorld, ChatUnion, Asks, mgr, channels
<1>3. DataTyped'
  <2>1. requests' \in 0..MaxRequests
    BY <1>1, <1>2, ChatAssumption DEF DataTyped
  <2>. QED  BY <1>1, <1>2, <2>1 DEF DataTyped
<1>4. PICK next : Goes(c, next) /\ next.at # "blocked" /\ Fits(next)
  <2>. DEFINE Fit(next) == Goes(c, next) /\ next.at # "blocked" /\ Fits(next)
  <2>1. HasRole(c) => rid[c] \in Roles
    BY <1>1 DEF DataTyped, HasRole
  <2>2. ASSUME NEW r \in Roles, Login(c, r) PROVE \E next : Fit(next)
    <3>1. Fit([at |-> "roleEnter", rid |-> r])
      BY <2>2 DEF Login, Asks, Fits, OnRole
    <3>. QED  BY <3>1
  <2>3. ASSUME NEW r \in Roles, Logout(c, r) PROVE \E next : Fit(next)
    <3>1. Fit([at |-> "removeUser", rid |-> r])
      BY <2>3 DEF Logout, Asks, Fits, OnRole
    <3>. QED  BY <3>1
  <2>4. ASSUME NEW g \in Unions, Join(c, g) PROVE \E next : Fit(next)
    <3>1. Fit([at |-> "getUser", on |-> World, rid |-> rid[c], to |-> g])
      BY <2>1, <2>4 DEF Join, Asks, Fits, OnRole
    <3>. QED  BY <3>1
  <2>5. CASE Exit(c)
    <3>1. Fit([at |-> "lockForExit", rid |-> rid[c]])
      BY <2>1, <2>5 DEF Exit, Asks, Fits, OnRole
    <3>. QED  BY <3>1
  <2>6. CASE History(c)
    <3>1. Fit([at |-> "history"])
      BY <2>6 DEF History, Asks, Fits, OnRole
    <3>. QED  BY <3>1
  <2>7. CASE ChatWorld(c)
    <3>1. Fit([at |-> "push", on |-> World, rid |-> rid[c]])
      BY <1>1, <2>7 DEF ChatWorld, Asks, Fits, OnRole
    <3>. QED  BY <3>1
  <2>8. CASE ChatUnion(c)
    <3>1. CASE ridToUnionGroups[rid[c]] = 0
      <4>1. Fit(Reply)
        BY <2>8, <3>1 DEF ChatUnion, Asks, Reply, Fits, OnRole
      <4>. QED  BY <4>1
    <3>2. CASE ridToUnionGroups[rid[c]] # 0
      <4>1. rid[c] \in Roles
        BY <2>1, <2>8 DEF ChatUnion
      <4>2. ridToUnionGroups[rid[c]] \in Channels
        BY <1>1, <3>2, <4>1 DEF DataTyped
      <4>3. Fit([at |-> "push", on |-> ridToUnionGroups[rid[c]], rid |-> rid[c]])
        BY <2>8, <3>2, <4>2 DEF ChatUnion, Asks, Fits, OnRole
      <4>. QED  BY <4>3
    <3>. QED  BY <3>1, <3>2
  <2>. QED  BY <2>2, <2>3, <2>4, <2>5, <2>6, <2>7, <2>8 DEF Request
<1>5. HandlersTyped'
  BY <1>4, HandlersStayTyped
<1>6. OneBlocks'
  BY <1>4, NobodyBlocks DEF OneBlocks
<1>. QED  BY <1>3, <1>5, <1>6

LEMMA StepIsTyped ==
    ASSUME TypeInv, Inv, NEW c \in Conns, Step(c)
    PROVE  DataTyped' /\ OneBlocks' /\ HandlersTyped'
<1>1. /\ DataTyped /\ OneBlocks /\ HandlersTyped /\ Fits(handler[c])
      /\ World \in Channels /\ Unions \subseteq Channels /\ 0 \in Roles \cup {0}
  BY TypeInvParts DEF HandlersTyped, Channels
<1>. DEFINE Simple == DataTyped' /\ \E next : Goes(c, next) /\ next.at # "blocked" /\ Fits(next)
<1>2. ASSUME Simple PROVE DataTyped' /\ OneBlocks' /\ HandlersTyped'
  <2>1. PICK next : Goes(c, next) /\ next.at # "blocked" /\ Fits(next)
    BY <1>2
  <2>. QED  BY <1>2, <2>1, HandlersStayTyped, NobodyBlocks DEF OneBlocks
<1>3. CASE RoleEnter(c)
  <2>1. DataTyped'
    BY <1>1, <1>3 DEF RoleEnter, At, Fits, OnRole, DataTyped, channels
  <2>2. Fits([at |-> "enterWorld", on |-> World, rid |-> handler[c].rid])
    BY <1>1, <1>3 DEF RoleEnter, At, Fits, OnRole
  <2>. QED  BY <1>2, <1>3, <2>1, <2>2 DEF RoleEnter
<1>4. CASE RemoveUser(c)
  <2>1. DataTyped'
    BY <1>1, <1>4 DEF RemoveUser, WithoutOwn, DataTyped, channels
  <2>2. Fits([at |-> "exitWorld", on |-> World, rid |-> handler[c].rid])
    BY <1>1, <1>4 DEF RemoveUser, At, Fits, OnRole
  <2>. QED  BY <1>2, <1>4, <2>1, <2>2 DEF RemoveUser
<1>5. Fits(Reply) /\ Reply.at # "blocked" /\ Fits(Idle) /\ Idle.at # "blocked"
  BY DEF Reply, Idle, Fits, OnRole
<1>6. CASE EnterWorld(c) \/ ExitWorld(c)
  <2>1. handler[c].rid \in Roles /\ handler[c].on = World
    BY <1>1, <1>6 DEF EnterWorld, ExitWorld, At, Fits, OnRole
  <2>2. DataTyped'
    BY <1>1, <1>6, <2>1 DEF EnterWorld, ExitWorld, DataTyped, mgr
  <2>. QED  BY <1>2, <1>5, <1>6, <2>2 DEF EnterWorld, ExitWorld
<1>7. CASE GetUser(c)
  <2>1. DataTyped'
    BY <1>1, <1>7 DEF GetUser, DataTyped, mgr, channels
  <2>2. Fits([at |-> "lockToJoin", rid |-> handler[c].rid, to |-> handler[c].to])
    BY <1>1, <1>7 DEF GetUser, At, Fits, OnRole
  <2>. QED  BY <1>2, <1>5, <1>7, <2>1, <2>2 DEF GetUser
<1>8. CASE LockToJoin(c)
  <2>. DEFINE r == handler[c].rid
              g == handler[c].to
              old == ridToUnionGroups[r]
  <2>1. r \in Roles /\ g \in Unions /\ old \in Unions \cup {0} /\ 0 \notin Unions
    BY <1>1, <1>8, WorldIsNoUnion DEF LockToJoin, At, Fits, OnRole, DataTyped, World
  <2>2. DataTyped'
    BY <1>1, <1>8, <2>1 DEF LockToJoin, DataTyped, mgr
  <2>3. /\ Fits([at |-> "enter", on |-> g, rid |-> r])
        /\ Fits([at |-> "leave", on |-> old, rid |-> r, to |-> g])
    BY <2>1 DEF Fits, OnRole
  <2>4. \/ Goes(c, [at |-> "enter", on |-> g, rid |-> r]) \/ Goes(c, Reply)
        \/ Goes(c, [at |-> "leave", on |-> old, rid |-> r, to |-> g])
    BY <1>8 DEF LockToJoin
  <2>. QED  BY <1>2, <1>5, <2>2, <2>3, <2>4
<1>9. CASE Leave(c) \/ Enter(c) \/ ExitUnion(c)
  <2>1. handler[c].rid \in Roles /\ handler[c].on \in Unions /\ handler[c].on \in Channels
    BY <1>1, <1>9 DEF Inv, ChangesOwn, Leave, Enter, ExitUnion, At, Leaving, Changing
  <2>2. CASE Leave(c)
    <3>1. handler[c].to \in Unions
      BY <1>1, <2>2 DEF Leave, At, Fits
    <3>2. DataTyped'
      BY <1>1, <2>1, <2>2, <3>1 DEF Leave, DataTyped, mgr
    <3>3. Fits([at |-> "enter", on |-> handler[c].to, rid |-> handler[c].rid])
      BY DEF Fits, OnRole
    <3>. QED  BY <1>2, <2>2, <3>2, <3>3 DEF Leave
  <2>3. CASE Enter(c)
    <3>1. DataTyped'
      BY <1>1, <2>1, <2>3 DEF Enter, DataTyped, mgr
    <3>. QED  BY <1>2, <1>5, <2>3, <3>1 DEF Enter
  <2>4. CASE ExitUnion(c)
    <3>1. DataTyped'
      BY <1>1, <2>1, <2>4 DEF ExitUnion, DataTyped, mgr
    <3>. QED  BY <1>2, <1>5, <2>4, <3>1 DEF ExitUnion
  <2>. QED  BY <1>9, <2>2, <2>3, <2>4
<1>10. CASE LockForExit(c)
  <2>1. DataTyped'
    BY <1>1, <1>10 DEF LockForExit, DataTyped, mgr, channels
  <2>2. Fits([at |-> "exit", on |-> ridToUnionGroups[handler[c].rid], rid |-> handler[c].rid])
    BY DEF Fits, OnRole
  <2>3. \/ Goes(c, [at |-> "exit", on |-> ridToUnionGroups[handler[c].rid], rid |-> handler[c].rid])
        \/ Goes(c, Reply)
    BY <1>10 DEF LockForExit
  <2>. QED  BY <1>2, <1>5, <2>1, <2>2, <2>3
<1>11. CASE ReadHistory(c) \/ EndBroadcast(c)
  <2>1. DataTyped'
    BY <1>1, <1>11 DEF ReadHistory, EndBroadcast, DataTyped, mgr, channels
  <2>. QED  BY <1>2, <1>5, <1>11, <2>1 DEF ReadHistory, EndBroadcast
<1>12. CASE PushMsg(c)
  <2>1. handler[c].on \in Channels
    BY <1>1, <1>12 DEF PushMsg, At, Fits
  <2>2. DataTyped'
    BY <1>1, <1>12, <2>1 DEF PushMsg, DataTyped, mgr
  <2>3. Fits([at |-> "broadcast", on |-> handler[c].on, todo |-> users[handler[c].on]])
    BY <2>1 DEF Fits, OnRole
  <2>. QED  BY <1>2, <1>5, <1>12, <2>2, <2>3 DEF PushMsg
<1>13. CASE Unblock(c)
  <2>1. handler[c].to \in Conns /\ handler[c].at = "blocked"
    BY <1>1, <1>13 DEF Unblock, At, Fits
  <2>2. outChan' \in [Conns -> 0..Cap]
    BY <1>1, <1>13, <2>1, ChatAssumption DEF Unblock, DataTyped
  <2>3. DataTyped'
    BY <1>1, <1>13, <2>2 DEF Unblock, DataTyped, mgr, channels
  <2>4. Fits([at |-> "broadcast", on |-> handler[c].on, todo |-> handler[c].todo])
    BY <1>1, <2>1 DEF Fits, OnRole
  <2>. QED  BY <1>2, <1>13, <2>3, <2>4 DEF Unblock
<1>14. CASE Answer(c)
  <2>1. outChan' \in [Conns -> 0..Cap]
    BY <1>1, <1>14, ChatAssumption DEF Answer, DataTyped
  <2>2. DataTyped'
    BY <1>1, <1>14, <2>1 DEF Answer, DataTyped, mgr, channels
  <2>. QED  BY <1>2, <1>5, <1>14, <2>2 DEF Answer
<1>15. CASE Block(c)
  <2>1. DataTyped'
    BY <1>1, <1>15 DEF Block, DataTyped, mgr, channels
  <2>2. Fits([at |-> "stuck", on |-> handler[c].on])
    BY DEF Fits, OnRole
  <2>. QED  BY <1>2, <1>15, <2>1, <2>2 DEF Block
<1>16. ASSUME NEW r \in Roles, PushByRoleId(c, r)
       PROVE  DataTyped' /\ OneBlocks' /\ HandlersTyped'
  <2>1. PICK d : d = roleCache[r] /\ d \in Conns \cup {NoConn}
    BY <1>1 DEF DataTyped
  <2>2. handler[c].on \in Channels
    BY <1>1, <1>16 DEF PushByRoleId, At, Fits
  <2>3. CASE d # NoConn /\ outChan[d] = Cap
    <3>1. PICK next : next = [at |-> "blocked", on |-> handler[c].on, todo |-> Sent(c, r).todo, to |-> d]
      OBVIOUS
    <3>2. Goes(c, next) /\ DataTyped'
      BY <1>1, <1>16, <2>1, <2>3, <3>1 DEF PushByRoleId, DataTyped, mgr, channels
    <3>3. Fits(next)
      BY <2>1, <2>2, <2>3, <3>1 DEF Fits, OnRole
    <3>4. HandlersTyped'
      BY <3>2, <3>3, HandlersStayTyped
    <3>5. \A e \in Conns \ {c} : handler'[e].at # "blocked"
      BY <1>16, <3>2, HandlerGoes DEF TypeInv, PushByRoleId, RcFree, At
    <3>. QED  BY <3>2, <3>4, <3>5 DEF OneBlocks, At
  <2>4. CASE ~(d # NoConn /\ outChan[d] = Cap)
    <3>1. Goes(c, Sent(c, r))
      BY <1>16, <2>1, <2>4 DEF PushByRoleId
    <3>2. outChan' \in [Conns -> 0..Cap]
      BY <1>1, <1>16, <2>1, <2>4, ChatAssumption DEF PushByRoleId, DataTyped
    <3>3. DataTyped'
      BY <1>1, <1>16, <3>2 DEF PushByRoleId, DataTyped, mgr, channels
    <3>4. Fits(Sent(c, r)) /\ Sent(c, r).at # "blocked"
      BY <2>2 DEF Sent, Fits, OnRole
    <3>. QED  BY <1>2, <3>1, <3>3, <3>4
  <2>. QED  BY <2>3, <2>4
<1>. QED  BY <1>3, <1>4, <1>6, <1>7, <1>8, <1>9, <1>10, <1>11, <1>12, <1>13, <1>14, <1>15, <1>16 DEF Step

LEMMA TypeInvNext == TypeInv /\ Inv /\ [Next]_vars => TypeInv'
<1>. SUFFICES ASSUME TypeInv, Inv, [Next]_vars PROVE TypeInv'
  OBVIOUS
<1>1. MutexIsHeld'
  BY InvNext DEF Inv
<1>2. DataTyped /\ OneBlocks /\ HandlersTyped
  BY TypeInvParts
<1>. SUFFICES DataTyped' /\ OneBlocks' /\ HandlersTyped'
  BY <1>1, TypeInvParts DEF TypeInv, TypeOK, DataTyped, OneBlocks, MutexIsHeld, Changing, Leaving
<1>3. CASE UNCHANGED vars
  BY <1>2, <1>3 DEF vars, mgr, channels, DataTyped, OneBlocks, At, HandlersTyped, Fits, OnRole
<1>4. CASE Restart
  <2>1. DataTyped'
    BY <1>4, ChatAssumption DEF Restart, DataTyped
  <2>2. HandlersTyped' /\ OneBlocks'
    BY <1>4 DEF Restart, Idle, HandlersTyped, OneBlocks, Fits, OnRole, At
  <2>. QED  BY <2>1, <2>2
<1>5. ASSUME NEW c \in Conns, writeMsgLoop(c) PROVE DataTyped' /\ OneBlocks' /\ HandlersTyped'
  <2>1. outChan' \in [Conns -> 0..Cap]
    BY <1>2, <1>5, ChatAssumption DEF writeMsgLoop, DataTyped
  <2>. QED  BY <1>2, <1>5, <2>1 DEF writeMsgLoop, mgr, channels, DataTyped, OneBlocks, At, HandlersTyped, Fits, OnRole
<1>. QED  BY <1>3, <1>4, <1>5, RequestIsTyped, StepIsTyped DEF Next

-----------------------------------------------------------------------------
(* Every state of every behaviour has the invariant.                        *)
THEOREM InvariantHolds == Spec => [](TypeInv /\ Inv)
<1>1. Init => TypeInv /\ Inv
  BY TypeInvAtInit, InvHoldsAtInit
<1>2. TypeInv /\ Inv /\ [Next]_vars => (TypeInv /\ Inv)'
  BY TypeInvNext, InvNext
<1>. QED  BY <1>1, <1>2, PTL DEF Spec

(* Of the handlers one at most waits with rc held, and who changes a union  *)
(* channel has unionMutex, for any number of connections and any Cap.       *)
THEOREM TypeCorrect == Spec => []TypeOK
<1>1. TypeInv => TypeOK
  BY DEF TypeInv
<1>. QED  BY <1>1, InvariantHolds, PTL

(* A role is in the channel ridToUnionGroups names and in no other whenever *)
(* unionMutex is free (chat.go:84).                                         *)
THEOREM IndexAgrees == Spec => []UnionIndexAgrees
<1>1. Inv => UnionIndexAgrees
  BY DEF Inv
<1>. QED  BY <1>1, InvariantHolds, PTL

(* A role leaves the cache by the logout of the connection it is on, or     *)
(* with the server (wsmgr.go:138).                                          *)
THEOREM LogoutIsOwn == Spec => LogoutSparesNewLogin
<1>. DEFINE Spares == \A r \in Roles :
                         roleCache[r] # NoConn /\ roleCache'[r] = NoConn =>
                             \/ rid[roleCache[r]] = r /\ rid'[roleCache[r]] = 0
                             \/ Restart
<1>1. TypeInv /\ [Next]_vars => [Spares]_vars
  <2>. SUFFICES ASSUME TypeInv, Next, NEW r \in Roles, roleCache[r] # NoConn, roleCache'[r] = NoConn
                PROVE  \/ rid[roleCache[r]] = r /\ rid'[roleCache[r]] = 0
                       \/ Restart
    OBVIOUS
  <2>1. rid \in [Conns -> Roles \cup {0}] /\ roleCache \in [Roles -> Conns \cup {NoConn}]
    BY DEF TypeInv, TypeOK
  <2>2. ASSUME NEW c \in Conns, Request(c) \/ writeMsgLoop(c) PROVE FALSE
    BY <2>2 DEF Request, Login, Logout, Join, Exit, History, ChatWorld, ChatUnion, Asks, writeMsgLoop, mgr
  <2>3. ASSUME NEW c \in Conns, Step(c)
        PROVE  rid[roleCache[r]] = r /\ rid'[roleCache[r]] = 0
    <3>1. CASE RoleEnter(c)
      BY <2>1, <3>1, ChatAssumption DEF RoleEnter
    <3>2. CASE RemoveUser(c)
      BY <2>1, <3>2 DEF RemoveUser, WithoutOwn
    <3>3. CASE ~(RoleEnter(c) \/ RemoveUser(c))
      <4>1. UNCHANGED mgr
        BY <2>3, <3>3 DEF Step, EnterWorld, ExitWorld, GetUser, LockToJoin, Leave, Enter, LockForExit,
           ExitUnion, ReadHistory, PushMsg, EndBroadcast, Unblock, Answer, PushByRoleId, Block
      <4>. QED  BY <4>1 DEF mgr
    <3>. QED  BY <3>1, <3>2, <3>3
  <2>. QED  BY <2>2, <2>3 DEF Next
<1>. QED  BY <1>1, InvariantHolds, PTL DEF Spec, LogoutSparesNewLogin

==============================================================================
