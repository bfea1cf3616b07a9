----------------------------- MODULE ClientConn ------------------------------
(***************************************************************************)
(* One proxied connection of the gate: Handler.deal dials a backend for a  *)
(* client, ClientConn.Start waits for the handshake, and every request of  *)
(* the client is then a Send: number it, register a context under the      *)
(* number, write it, wait for the answer or fifteen seconds.  A second     *)
(* goroutine, wsReadLoop, hands handshake, answers and pushes over.        *)
(*                                                                         *)
(* Both hand-overs are unbuffered channels, so the reader stands still     *)
(* until the other side receives.  There is one caller: the gate serves    *)
(* the requests of a client connection one by one.                         *)
(***************************************************************************)
EXTENDS Integers, Sequences, FiniteSets

CONSTANTS
    MaxSeq,    \* bound: requests sent on one connection
    MaxPush,   \* bound: messages the backend pushes
    MaxDials   \* bound: connections dialled

ASSUME BoundsAssumption == MaxSeq \in Nat /\ MaxPush \in Nat /\ MaxDials \in Nat

VARIABLES
    dials,      \* connections dialled so far
    starter,    \* Start: "none", "check", "wait", then "ok" or "failed"
    handshake,  \* ClientConn.handshake
    onPush,     \* ClientConn.onPush is set
    reader,     \* what wsReadLoop stands at
    seq,        \* ClientConn.Seq
    syncCtxMap, \* numbers with a registered context
    caller,     \* the caller of Send: "idle", "wait", "remove"
    inbox,      \* messages on their way to the gate
    outbox,     \* numbers of the requests on their way to the backend
    link,       \* "up" or "down"
    answered,   \* history: requests the backend answered
    results,    \* history: number -> what Send returned for it
    pushes      \* history: messages pushed, delivered, dropped for want of a hook

vars == <<dials, starter, handshake, onPush, reader, seq, syncCtxMap, caller,
          inbox, outbox, link, answered, results, pushes>>

startVars == <<starter, handshake, onPush>>
sendVars  == <<seq, syncCtxMap, caller, results>>
netVars   == <<inbox, outbox, link, answered>>

Reading == [at |-> "read"]
Shaking == [at |-> "shake"]
Closed  == [at |-> "closed"]
Delivering(ctx, body) == [at |-> "deliver", ctx |-> ctx, body |-> body]

Handshake == [kind |-> "handshake"]
Push      == [kind |-> "push"]
Reply(s)  == [kind |-> "reply", of |-> s]

(* What Send returns: the body of an answer, ProxyConnectError after a      *)
(* timeout, or the prepared Code OK without a message when the write fails. *)
Answer(s)  == [code |-> "answer", of |-> s]
ProxyError == [code |-> "proxyConnectError"]
EmptyOk    == [code |-> "ok"]

Fresh ==
    /\ handshake' = FALSE /\ onPush' = FALSE /\ reader' = Reading
    /\ seq' = 0 /\ syncCtxMap' = {} /\ caller' = "idle"
    /\ outbox' = <<>> /\ link' = "up" /\ answered' = {} /\ results' = <<>>
    /\ pushes' = [sent |-> 0, delivered |-> 0, dropped |-> 0]

Init ==
    /\ dials = 0 /\ starter = "none" /\ handshake = FALSE /\ onPush = FALSE
    /\ reader = Closed /\ seq = 0 /\ syncCtxMap = {} /\ caller = "idle"
    /\ inbox = <<>> /\ outbox = <<>> /\ link = "down" /\ answered = {}
    /\ results = <<>> /\ pushes = [sent |-> 0, delivered |-> 0, dropped |-> 0]

-----------------------------------------------------------------------------
(* Handler.deal and ProxyClient.Connect.  The backend shakes hands as soon  *)
(* as it has accepted the connection.  A failed attempt is forgotten, with  *)
(* its reader, and the next request dials anew; a good one is kept for ever. *)
Dial ==
    /\ starter \in {"none", "failed"}
    /\ dials < MaxDials
    /\ dials' = dials + 1
    /\ starter' = "check"
    /\ inbox' = <<Handshake>>
    /\ Fresh

CheckHandshake ==
    /\ starter = "check"
    /\ starter' = IF handshake THEN "ok" ELSE "wait"
    /\ UNCHANGED <<dials, handshake, onPush, reader, sendVars, netVars, pushes>>

(* A mutated form of the next definition: no timer on a dead link.          *)
HandshakeTimeoutNeverWhenDown == starter = "wait" /\ link = "up"

MayGiveUpHandshake == starter = "wait"

HandshakeTimeout ==
    /\ MayGiveUpHandshake
    /\ starter' = "failed"
    /\ UNCHANGED <<dials, handshake, onPush, reader, sendVars, netVars, pushes>>

SetOnPush ==
    /\ starter = "ok" /\ ~onPush
    /\ onPush' = TRUE
    /\ UNCHANGED <<dials, starter, handshake, reader, sendVars, netVars, pushes>>

-----------------------------------------------------------------------------
(* Send.                                                                    *)

(* Mutated forms of the definitions below; no action uses them.             *)
ReadyBeforeHook == starter = "ok"
CtxOfLatest(s) == seq
NilPassedOn(result) ==
    results' = [results EXCEPT ![seq] = IF result = ProxyError THEN [code |-> "nil"] ELSE result]
WaitForeverWhenDown == caller = "wait" /\ link = "up"
WriteFailsAfterSending ==
    /\ link = "down"
    /\ results' = Append(results, EmptyOk)
    /\ caller' = "remove"
    /\ outbox' = Append(outbox, seq')
    /\ inbox' = Append(inbox, Reply(seq'))
    /\ UNCHANGED <<link, answered>>

Ready == starter = "ok" /\ onPush

Returns(result) == results' = [results EXCEPT ![seq] = result]
Pending == [code |-> "pending"]

WriteSucceeds ==
    /\ results' = Append(results, Pending)
    /\ caller' = "wait"
    /\ \/ link = "up" /\ outbox' = Append(outbox, seq')
       \/ link = "down" /\ UNCHANGED outbox      \* accepted by a dead socket
    /\ UNCHANGED <<inbox, link, answered>>

WriteFails ==
    /\ link = "down"
    /\ results' = Append(results, EmptyOk)
    /\ caller' = "remove"
    /\ UNCHANGED netVars

Send ==
    /\ Ready
    /\ caller = "idle"
    /\ seq < MaxSeq
    /\ seq' = seq + 1
    /\ syncCtxMap' = syncCtxMap \cup {seq + 1}
    /\ \/ reader # Closed /\ WriteSucceeds
       \/ WriteFails
    /\ UNCHANGED <<dials, startVars, reader, pushes>>

MayTimeOut == caller = "wait"

WaitTimeout ==
    /\ MayTimeOut
    /\ Returns(ProxyError)
    /\ caller' = "remove"
    /\ UNCHANGED <<dials, startVars, reader, seq, syncCtxMap, netVars, pushes>>

Registered == syncCtxMap \ {seq}

RemoveCtx ==
    /\ caller = "remove"
    /\ syncCtxMap' = Registered
    /\ caller' = "idle"
    /\ UNCHANGED <<dials, startVars, reader, seq, results, netVars, pushes>>

-----------------------------------------------------------------------------
(* wsReadLoop.                                                              *)

Receives(message) ==
    /\ reader = Reading
    /\ inbox # <<>> /\ Head(inbox) = message
    /\ inbox' = Tail(inbox)
    /\ UNCHANGED <<dials, starter, onPush, sendVars, outbox, link, answered>>

ReadHandshake ==
    /\ Receives(Handshake)
    /\ handshake' = TRUE
    /\ reader' = Shaking
    /\ UNCHANGED pushes

HandOverHandshake ==
    /\ reader = Shaking /\ starter = "wait"
    /\ starter' = "ok"
    /\ reader' = Reading
    /\ UNCHANGED <<dials, handshake, onPush, sendVars, netVars, pushes>>

CtxOf(s) == s

ReadReply(s) ==
    /\ Receives(Reply(s))
    /\ reader' = IF CtxOf(s) \in syncCtxMap THEN Delivering(CtxOf(s), s) ELSE Reading
    /\ UNCHANGED <<handshake, pushes>>

HandOverReply ==
    /\ reader.at = "deliver"
    /\ caller = "wait" /\ reader.ctx = seq
    /\ Returns(Answer(reader.body))
    /\ caller' = "remove"
    /\ reader' = Reading
    /\ UNCHANGED <<dials, startVars, seq, syncCtxMap, netVars, pushes>>

ReadPush ==
    /\ Receives(Push)
    /\ pushes' = IF onPush THEN [pushes EXCEPT !.delivered = @ + 1]
                           ELSE [pushes EXCEPT !.dropped = @ + 1]
    /\ UNCHANGED <<handshake, reader>>

(* A broken connection may take what was still on the way with it.          *)
ReadError ==
    /\ reader = Reading /\ link = "down"
    /\ reader' = Closed
    /\ inbox' = <<>>
    /\ UNCHANGED <<dials, startVars, sendVars, outbox, link, answered, pushes>>

-----------------------------------------------------------------------------
(* The backend: answers in the order of the requests, pushes only to a      *)
(* connection that a request has bound to a user or role, from the moment   *)
(* it serves that request, and dies at any time.                            *)

BackendAnswer ==
    /\ link = "up" /\ outbox # <<>>
    /\ inbox' = Append(inbox, Reply(Head(outbox)))
    /\ outbox' = Tail(outbox)
    /\ answered' = answered \cup {Head(outbox)}
    /\ UNCHANGED <<dials, startVars, reader, sendVars, link, pushes>>

BackendPush ==
    /\ link = "up" /\ (answered # {} \/ outbox # <<>>) /\ pushes.sent < MaxPush
    /\ inbox' = Append(inbox, Push)
    /\ pushes' = [pushes EXCEPT !.sent = @ + 1]
    /\ UNCHANGED <<dials, startVars, reader, sendVars, outbox, link, answered>>

BackendDies ==
    /\ link = "up"
    /\ link' = "down" /\ outbox' = <<>>
    /\ UNCHANGED <<dials, startVars, reader, sendVars, inbox, answered, pushes>>

Reader ==
    \/ ReadHandshake \/ HandOverHandshake \/ HandOverReply \/ ReadPush \/ ReadError
    \/ \E s \in 1..MaxSeq : ReadReply(s)

Next ==
    \/ Dial \/ CheckHandshake \/ HandshakeTimeout \/ SetOnPush
    \/ Send \/ WaitTimeout \/ RemoveCtx
    \/ Reader
    \/ BackendAnswer \/ BackendPush \/ BackendDies

(* Goroutines that can run do run and timers expire; nothing is assumed of  *)
(* the backend or of the client that sends the requests.                    *)
Fairness ==
    /\ WF_vars(CheckHandshake) /\ WF_vars(HandshakeTimeout) /\ WF_vars(SetOnPush)
    /\ WF_vars(WaitTimeout) /\ WF_vars(RemoveCtx)
    /\ WF_vars(Reader)

Spec == Init /\ [][Next]_vars /\ Fairness

-----------------------------------------------------------------------------
Messages == {Handshake, Push} \cup {Reply(s) : s \in 1..MaxSeq}

TypeOK ==
    /\ dials \in 0..MaxDials
    /\ starter \in {"none", "check", "wait", "ok", "failed"}
    /\ handshake \in BOOLEAN /\ onPush \in BOOLEAN
    /\ reader \in {Reading, Shaking, Closed}
                  \cup {Delivering(c, b) : c \in 1..MaxSeq, b \in 1..MaxSeq}
    /\ seq \in 0..MaxSeq
    /\ syncCtxMap \subseteq 1..MaxSeq
    /\ caller \in {"idle", "wait", "remove"}
    /\ inbox \in Seq(Messages) /\ outbox \in Seq(1..MaxSeq)
    /\ link \in {"up", "down"}
    /\ answered \subseteq 1..MaxSeq
    /\ results \in Seq({Pending, ProxyError, EmptyOk} \cup {Answer(s) : s \in 1..MaxSeq})
    /\ pushes \in [sent : Nat, delivered : Nat, dropped : Nat]

(* A Send that returns an answer returns the answer of its own request, and *)
(* never one of an earlier request that timed out and is answered late.     *)
AnswerIsOwn ==
    \A s \in DOMAIN results : results[s].code = "answer" => results[s].of = s /\ s \in answered

(* The hook of the gate is in place before anything can be pushed.          *)
NoPushDropped == pushes.dropped = 0

(* A reader that holds an answer nobody will receive holds the answer of a  *)
(* request that timed out between the look-up and the hand-over.            *)
StuckOnlyOnTimeout ==
    reader.at = "deliver" /\ ~(caller = "wait" /\ seq = reader.ctx) =>
        results[reader.ctx] = ProxyError

(* Dialling ends: with a handshake or with an error for the client.         *)
ConnectReturns == starter \in {"check", "wait"} ~> starter \in {"ok", "failed"}

(* Every request is returned to the client, also when the backend died or   *)
(* the reader stands still for ever.                                        *)
SendReturns == caller \in {"wait", "remove"} ~> caller = "idle"
==============================================================================
