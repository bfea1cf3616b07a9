-------------------------------- MODULE Chat ---------------------------------
(***************************************************************************)
(* The chat server: chatController with its channels, the part of WsMgr    *)
(* that knows which connection a role is on, and the two loops of a        *)
(* connection.  A connection serves one request at a time; what requests   *)
(* of different connections share are the locks: unionMutex over the union *)
(* channels, userMutex of each channel, rc of WsMgr, and the outChan of    *)
(* each connection, filled by everybody and emptied by its writer.         *)
(*                                                                         *)
(* A step of a handler ends where another connection can notice: where it  *)
(* takes a lock, lets one go, or reads without one.  Closing a connection  *)
(* changes none of this state: it stays in roleCache and its role in its   *)
(* channels.  What is said, and the list of it in redis, is left out.      *)
(***************************************************************************)
EXTENDS Integers

CONSTANTS
    Conns, NoConn,
    Roles,
    Unions,         \* ids of union channels
    Cap,            \* capacity of outChan: 1000 in the code
    MaxRequests     \* bound: requests from one start of the server to the next

World    == 0
Channels == {World} \cup Unions

ASSUME ChatAssumption ==
    /\ NoConn \notin Conns
    /\ Roles \subseteq Nat \ {0} /\ Unions \subseteq Nat \ {0}
    /\ Cap \in Nat \ {0} /\ MaxRequests \in Nat

VARIABLES
    rid,        \* connection -> its property "rid", 0 for none
    roleCache,  \* role -> the connection it is pushed to by
    users,      \* channel -> ChatGroup.users
    ridToUnionGroups,
    unionMutex, \* the connection whose handler holds it, NoConn
    leaked,     \* channels whose userMutex was locked for reading and left so
    handler,    \* connection -> what its handler does next
    outChan,    \* connection -> messages that wait for its writer
    requests

channels == <<users, ridToUnionGroups, leaked>>
mgr      == <<rid, roleCache>>
vars     == <<mgr, channels, unionMutex, handler, outChan, requests>>

Idle  == [at |-> "idle"]
Reply == [at |-> "reply"]

Init ==
    /\ rid = [c \in Conns |-> 0]
    /\ roleCache = [r \in Roles |-> NoConn]
    /\ users = [g \in Channels |-> {}]
    /\ ridToUnionGroups = [r \in Roles |-> 0]
    /\ unionMutex = NoConn /\ leaked = {}
    /\ handler = [c \in Conns |-> Idle]
    /\ outChan = [c \in Conns |-> 0]
    /\ requests = 0

At(c, step)   == handler[c].at = step
Goes(c, next) == handler' = [handler EXCEPT ![c] = next]

-----------------------------------------------------------------------------
(* Locks.                                                                   *)

Reading == {"getUser", "push"}
Writing == {"enterWorld", "exitWorld", "leave", "enter", "exit"}

(* A userMutex that was left locked lets readers in until the first writer  *)
(* waits for it, and nobody after that.                                     *)
Free(c) ==
    LET g == handler[c].on IN
    IF handler[c].at \in Reading THEN ~\E d \in Conns : At(d, "stuck") /\ handler[d].on = g
    ELSE g \notin leaked

(* A mutated form of the next definition: the cache of roles without a lock.*)
RcIgnored == TRUE

(* PushByRoleId waits for room in a channel with rc held.                   *)
RcFree == \A c \in Conns : ~At(c, "blocked")

Block(c) ==
    /\ handler[c].at \in Reading \cup Writing /\ ~Free(c)
    /\ Goes(c, [at |-> "stuck", on |-> handler[c].on])
    /\ UNCHANGED <<mgr, channels, unionMutex, outChan, requests>>

-----------------------------------------------------------------------------
(* Requests, and what each does before its first lock.                      *)

Asks(c, next) ==
    /\ At(c, "idle") /\ requests < MaxRequests /\ requests' = requests + 1
    /\ Goes(c, next)
    /\ UNCHANGED <<mgr, channels, unionMutex, outChan>>

(* CheckRoleId; any role may be named by login, once its token is good.     *)
HasRole(c) == rid[c] # 0

Login(c, r)  == Asks(c, [at |-> "roleEnter", rid |-> r])
Logout(c, r) == HasRole(c) /\ Asks(c, [at |-> "removeUser", rid |-> r])
Join(c, g)   == HasRole(c) /\ Asks(c, [at |-> "getUser", on |-> World, rid |-> rid[c], to |-> g])
Exit(c)      == HasRole(c) /\ Asks(c, [at |-> "lockForExit", rid |-> rid[c]])
History(c)   == HasRole(c) /\ Asks(c, [at |-> "history"])
ChatWorld(c) == HasRole(c) /\ Asks(c, [at |-> "push", on |-> World, rid |-> rid[c]])

(* The channel of the role is read without unionMutex.                      *)
ChatUnion(c) ==
    /\ HasRole(c)
    /\ LET g == ridToUnionGroups[rid[c]] IN
       Asks(c, IF g = 0 THEN Reply ELSE [at |-> "push", on |-> g, rid |-> rid[c]])

-----------------------------------------------------------------------------
(* login and logout.                                                        *)

RoleEnter(c) ==
    /\ At(c, "roleEnter") /\ RcFree
    /\ rid' = [rid EXCEPT ![c] = handler[c].rid]
    /\ roleCache' = [roleCache EXCEPT ![handler[c].rid] = c]
    /\ Goes(c, [at |-> "enterWorld", on |-> World, rid |-> handler[c].rid])
    /\ UNCHANGED <<channels, unionMutex, outChan, requests>>

EnterWorld(c) ==
    /\ At(c, "enterWorld") /\ Free(c)
    /\ users' = [users EXCEPT ![World] = @ \cup {handler[c].rid}]
    /\ Goes(c, Reply)
    /\ UNCHANGED <<mgr, ridToUnionGroups, leaked, unionMutex, outChan, requests>>

(* A mutated form of the next definition: whoever is on the role goes.      *)
WithoutRole(c) == [r \in Roles |-> IF r = rid[c] THEN NoConn ELSE roleCache[r]]

WithoutOwn(c) ==
    [r \in Roles |-> IF r = rid[c] /\ roleCache[r] = c THEN NoConn ELSE roleCache[r]]

(* The channel is left by the role the request names, the cache by the      *)
(* connection's own.                                                        *)
RemoveUser(c) ==
    /\ At(c, "removeUser") /\ RcFree
    /\ roleCache' = WithoutOwn(c)
    /\ rid' = [rid EXCEPT ![c] = 0]
    /\ Goes(c, [at |-> "exitWorld", on |-> World, rid |-> handler[c].rid])
    /\ UNCHANGED <<channels, unionMutex, outChan, requests>>

ExitWorld(c) ==
    /\ At(c, "exitWorld") /\ Free(c)
    /\ users' = [users EXCEPT ![World] = @ \ {handler[c].rid}]
    /\ Goes(c, Reply)
    /\ UNCHANGED <<mgr, ridToUnionGroups, leaked, unionMutex, outChan, requests>>

-----------------------------------------------------------------------------
(* join, exit and history.                                                  *)

GetUser(c) ==
    /\ At(c, "getUser") /\ Free(c)
    /\ Goes(c, IF handler[c].rid \in users[World]
               THEN [at |-> "lockToJoin", rid |-> handler[c].rid, to |-> handler[c].to] ELSE Reply)
    /\ UNCHANGED <<mgr, channels, unionMutex, outChan, requests>>

(* A mutated form of the next definition: who is in it already returns      *)
(* without Unlock.                                                          *)
HeldUnlessFinished(c) == unionMutex' = c

(* A handler with nothing to change has the mutex for no time.              *)
Held(c) == unionMutex' = IF handler'[c] = Reply THEN NoConn ELSE c

LockToJoin(c) ==
    /\ At(c, "lockToJoin") /\ unionMutex = NoConn
    /\ LET r == handler[c].rid
           g == handler[c].to
           old == ridToUnionGroups[r]
       IN
       /\ ridToUnionGroups' = IF old = 0 THEN [ridToUnionGroups EXCEPT ![r] = g] ELSE ridToUnionGroups
       /\ Goes(c, CASE old = 0 -> [at |-> "enter", on |-> g, rid |-> r]
                    [] old = g -> Reply
                    [] OTHER   -> [at |-> "leave", on |-> old, rid |-> r, to |-> g])
    /\ Held(c)
    /\ UNCHANGED <<mgr, users, leaked, outChan, requests>>

(* A mutated form of the next definition: the old channel is not left.      *)
LeaveStays(c) ==
    /\ At(c, "leave") /\ Free(c)
    /\ ridToUnionGroups' = [ridToUnionGroups EXCEPT ![handler[c].rid] = handler[c].to]
    /\ Goes(c, [at |-> "enter", on |-> handler[c].to, rid |-> handler[c].rid])
    /\ UNCHANGED <<mgr, users, leaked, unionMutex, outChan, requests>>

Leave(c) ==
    /\ At(c, "leave") /\ Free(c)
    /\ users' = [users EXCEPT ![handler[c].on] = @ \ {handler[c].rid}]
    /\ ridToUnionGroups' = [ridToUnionGroups EXCEPT ![handler[c].rid] = handler[c].to]
    /\ Goes(c, [at |-> "enter", on |-> handler[c].to, rid |-> handler[c].rid])
    /\ UNCHANGED <<mgr, leaked, unionMutex, outChan, requests>>

Enter(c) ==
    /\ At(c, "enter") /\ Free(c)
    /\ users' = [users EXCEPT ![handler[c].on] = @ \cup {handler[c].rid}]
    /\ unionMutex' = NoConn
    /\ Goes(c, Reply)
    /\ UNCHANGED <<mgr, ridToUnionGroups, leaked, outChan, requests>>

LockForExit(c) ==
    /\ At(c, "lockForExit") /\ unionMutex = NoConn
    /\ LET g == ridToUnionGroups[handler[c].rid] IN
       Goes(c, IF g = 0 THEN Reply ELSE [at |-> "exit", on |-> g, rid |-> handler[c].rid])
    /\ Held(c)
    /\ UNCHANGED <<mgr, channels, outChan, requests>>

ExitUnion(c) ==
    /\ At(c, "exit") /\ Free(c)
    /\ users' = [users EXCEPT ![handler[c].on] = @ \ {handler[c].rid}]
    /\ ridToUnionGroups' = [ridToUnionGroups EXCEPT ![handler[c].rid] = 0]
    /\ unionMutex' = NoConn
    /\ Goes(c, Reply)
    /\ UNCHANGED <<mgr, leaked, outChan, requests>>

ReadHistory(c) ==
    /\ At(c, "history") /\ unionMutex = NoConn
    /\ Goes(c, Reply)
    /\ UNCHANGED <<mgr, channels, unionMutex, outChan, requests>>

-----------------------------------------------------------------------------
(* chat.                                                                    *)

(* PushMsg returns with its read lock where the role is not in the channel. *)
PushMsg(c) ==
    /\ At(c, "push") /\ Free(c)
    /\ LET g == handler[c].on IN
       IF handler[c].rid \notin users[g]
       THEN leaked' = leaked \cup {g} /\ Goes(c, Reply)
       ELSE UNCHANGED leaked /\ Goes(c, [at |-> "broadcast", on |-> g, todo |-> users[g]])
    /\ UNCHANGED <<mgr, users, ridToUnionGroups, unionMutex, outChan, requests>>

(* The users are ranged over without a lock: one that leaves before its     *)
(* turn gets nothing, and nothing is promised to one that comes later.      *)
Addressees(c) == handler[c].todo \cap users[handler[c].on]

EndBroadcast(c) ==
    /\ At(c, "broadcast") /\ Addressees(c) = {}
    /\ Goes(c, Reply)
    /\ UNCHANGED <<mgr, channels, unionMutex, outChan, requests>>

Sent(c, r) == [at |-> "broadcast", on |-> handler[c].on, todo |-> handler[c].todo \ {r}]

PushByRoleId(c, r) ==
    /\ At(c, "broadcast") /\ r \in Addressees(c) /\ RcFree
    /\ LET d == roleCache[r] IN
       IF d # NoConn /\ outChan[d] = Cap
       THEN /\ Goes(c, [at |-> "blocked", on |-> handler[c].on, todo |-> Sent(c, r).todo, to |-> d])
            /\ UNCHANGED outChan
       ELSE /\ outChan' = IF d = NoConn THEN outChan ELSE [outChan EXCEPT ![d] = @ + 1]
            /\ Goes(c, Sent(c, r))
    /\ UNCHANGED <<mgr, channels, unionMutex, requests>>

Unblock(c) ==
    /\ At(c, "blocked") /\ outChan[handler[c].to] < Cap
    /\ outChan' = [outChan EXCEPT ![handler[c].to] = @ + 1]
    /\ Goes(c, [at |-> "broadcast", on |-> handler[c].on, todo |-> handler[c].todo])
    /\ UNCHANGED <<mgr, channels, unionMutex, requests>>

(* readMsgLoop puts the answer into the same channel.                       *)
Answer(c) ==
    /\ At(c, "reply") /\ outChan[c] < Cap
    /\ outChan' = [outChan EXCEPT ![c] = @ + 1]
    /\ Goes(c, Idle)
    /\ UNCHANGED <<mgr, channels, unionMutex, requests>>

writeMsgLoop(c) ==
    /\ outChan[c] > 0
    /\ outChan' = [outChan EXCEPT ![c] = @ - 1]
    /\ UNCHANGED <<mgr, channels, unionMutex, handler, requests>>

(* Nothing of a chat server outlives it.  It may end at any time: a map     *)
(* that is read in chat while join writes it ends the process.              *)
Restart ==
    /\ rid' = [c \in Conns |-> 0] /\ roleCache' = [r \in Roles |-> NoConn]
    /\ users' = [g \in Channels |-> {}] /\ ridToUnionGroups' = [r \in Roles |-> 0]
    /\ unionMutex' = NoConn /\ leaked' = {}
    /\ handler' = [c \in Conns |-> Idle] /\ outChan' = [c \in Conns |-> 0]
    /\ requests' = 0

Request(c) ==
    \/ \E r \in Roles : Login(c, r) \/ Logout(c, r)
    \/ \E g \in Unions : Join(c, g)
    \/ Exit(c) \/ History(c) \/ ChatWorld(c) \/ ChatUnion(c)

Step(c) ==
    \/ RoleEnter(c) \/ EnterWorld(c) \/ RemoveUser(c) \/ ExitWorld(c)
    \/ GetUser(c) \/ LockToJoin(c) \/ Leave(c) \/ Enter(c)
    \/ LockForExit(c) \/ ExitUnion(c) \/ ReadHistory(c)
    \/ PushMsg(c) \/ EndBroadcast(c) \/ Unblock(c) \/ Answer(c)
    \/ \E r \in Roles : PushByRoleId(c, r)
    \/ Block(c)

Next == Restart \/ \E c \in Conns : Request(c) \/ Step(c) \/ writeMsgLoop(c)

(* A handler that can go on does, and a mutex of Go passes by none of those *)
(* who wait for it for ever; the clients read what is written to them.      *)
Fairness == \A c \in Conns : SF_vars(Step(c)) /\ WF_vars(writeMsgLoop(c))

Spec == Init /\ [][Next]_vars /\ Fairness

-----------------------------------------------------------------------------
(* One handler at most waits with rc; unionMutex is held by a handler that  *)
(* changes a union channel, and by no other.                                *)
TypeOK ==
    /\ rid \in [Conns -> Roles \cup {0}] /\ roleCache \in [Roles -> Conns \cup {NoConn}]
    /\ users \in [Channels -> SUBSET Roles] /\ ridToUnionGroups \in [Roles -> Unions \cup {0}]
    /\ leaked \subseteq Channels
    /\ outChan \in [Conns -> 0..Cap] /\ requests \in 0..MaxRequests
    /\ \A c, d \in Conns : At(c, "blocked") /\ At(d, "blocked") => c = d
    /\ \A c \in Conns : handler[c].at \in {"leave", "enter", "exit"} => unionMutex = c

(* A role chats in one union's channel only, the one ridToUnionGroups names *)
(* (chat.go:84 "联盟频道只能加入一个"), however joins and exits of its      *)
(* connections overlap.                                                     *)
UnionIndexAgrees ==
    unionMutex = NoConn =>
        \A r \in Roles, g \in Unions : r \in users[g] <=> ridToUnionGroups[r] = g

(* A role is taken off a connection by that connection's own logout, never  *)
(* by one of a connection it was on before (wsmgr.go:138 "只删除自己的conn",*)
(* delete only one's own).                                                  *)
LogoutSparesNewLogin ==
    [][\A r \in Roles :
          roleCache[r] # NoConn /\ roleCache'[r] = NoConn =>
              \/ rid[roleCache[r]] = r /\ rid'[roleCache[r]] = 0
              \/ Restart]_vars

(* Every request is answered in the end, unless PushMsg has left a lock     *)
(* behind: the handlers wait for each other in no circle of the locks and   *)
(* the full channels.  A message that was accepted is sent to everybody     *)
(* even then.                                                               *)
RequestsReturn ==
    /\ \A c \in Conns : ~At(c, "idle") ~> At(c, "idle") \/ leaked # {}
    /\ \A c \in Conns : At(c, "broadcast") ~> At(c, "reply") \/ At(c, "idle")
==============================================================================
