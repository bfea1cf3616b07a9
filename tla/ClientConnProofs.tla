-------------------------- MODULE ClientConnProofs ---------------------------
(***************************************************************************)
(* Proofs about ClientConn: on any number of connections, for any number   *)
(* of requests and pushes, an answer goes to the request it answers, no    *)
(* push is dropped, and a reader that stands still holds the answer of a   *)
(* request that timed out.                                                 *)
(***************************************************************************)
EXTENDS ClientConn, SequenceTheorems, TLAPS

-----------------------------------------------------------------------------
(* A request has one number from Send to RemoveCtx, and one result.         *)
Numbered ==
    /\ Len(results) = seq
    /\ syncCtxMap = IF caller = "idle" THEN {} ELSE {seq}
    /\ caller # "idle" => seq > 0
    /\ caller = "wait" => results[seq] = Pending
    /\ caller = "remove" => results[seq] # Pending

(* Nothing is sent before the hook is set, so nothing is pushed before.     *)
HookFirst ==
    /\ seq > 0 => onPush /\ starter = "ok"
    /\ \A i \in DOMAIN inbox : inbox[i] = Push => seq > 0
    /\ pushes.dropped = 0

(* A number is in one place on its way: with the backend, or answered once. *)
Open(s) == results[s] \in {Pending, ProxyError}

Requested ==
    /\ answered \subseteq 1..seq
    /\ \A i \in DOMAIN outbox : outbox[i] \in 1..seq \ answered /\ Open(outbox[i])
    /\ \A i, j \in DOMAIN outbox : outbox[i] = outbox[j] => i = j

AnsweredOnce ==
    /\ \A i \in DOMAIN inbox :
          inbox[i].kind = "reply" => inbox[i].of \in answered /\ Open(inbox[i].of)
    /\ \A i, j \in DOMAIN inbox :
          inbox[i].kind = "reply" /\ inbox[i] = inbox[j] => i = j

HeldOnce ==
    reader.at = "deliver" =>
        /\ reader.ctx = reader.body /\ reader.body \in answered
        /\ \/ reader.ctx = seq /\ caller = "wait"
           \/ results[reader.ctx] = ProxyError
        /\ \A i \in DOMAIN inbox : inbox[i] # Reply(reader.body)

Inv == Numbered /\ HookFirst /\ Requested /\ AnsweredOnce /\ HeldOnce /\ AnswerIsOwn

-----------------------------------------------------------------------------
(* Lists of messages and of numbers.                                        *)

LEMMA Added ==
    ASSUME NEW S, NEW list \in Seq(S), NEW e \in S
    PROVE  /\ Append(list, e) \in Seq(S)
           /\ Len(list) \in Nat /\ DOMAIN list = 1..Len(list)
           /\ Len(Append(list, e)) = Len(list) + 1
           /\ DOMAIN Append(list, e) = 1..Len(list) + 1
           /\ \A i \in 1..Len(list) : Append(list, e)[i] = list[i]
           /\ Append(list, e)[Len(list) + 1] = e
<1>1. Append(list, e) \in Seq(S) /\ Len(Append(list, e)) = Len(list) + 1
  BY AppendProperties
<1>. QED  BY <1>1, AppendProperties, LenProperties

LEMMA Rest ==
    ASSUME NEW S, NEW list \in Seq(S), list # <<>>
    PROVE  /\ Tail(list) \in Seq(S) /\ Head(list) = list[1] /\ Head(list) \in S
           /\ 1 \in DOMAIN list
           /\ \A i \in DOMAIN Tail(list) : i + 1 \in DOMAIN list /\ Tail(list)[i] = list[i + 1]
                                           /\ i \in Nat \ {0}
<1>1. Tail(list) \in Seq(S) /\ Len(Tail(list)) = Len(list) - 1 /\ Len(list) \in Nat
      /\ DOMAIN Tail(list) = 1..Len(list) - 1 /\ DOMAIN list = 1..Len(list)
  BY HeadTailProperties, LenProperties
<1>2. Len(list) > 0
  BY EmptySeq, <1>1
<1>. QED  BY <1>1, <1>2, HeadTailProperties

LEMMA Results ==
    ASSUME TypeOK, Numbered
    PROVE  DOMAIN results = 1..seq /\ seq \in Nat
BY LenProperties DEF TypeOK, Numbered

-----------------------------------------------------------------------------
LEMMA InvHoldsAtInit == Init => TypeOK /\ Inv
<1>. SUFFICES ASSUME Init PROVE TypeOK /\ Inv
  OBVIOUS
<1>1. TypeOK
  <2>1. inbox \in Seq(Messages) /\ outbox \in Seq(1..MaxSeq)
    BY EmptySeq DEF Init
  <2>2. results \in Seq({Pending, ProxyError, EmptyOk} \cup {Answer(s) : s \in 1..MaxSeq})
    BY EmptySeq DEF Init
  <2>3. handshake \in BOOLEAN /\ onPush \in BOOLEAN
    BY Zenon DEF Init
  <2>4. pushes \in [sent : Nat, delivered : Nat, dropped : Nat]
    BY DEF Init
  <2>. QED  BY <2>1, <2>2, <2>3, <2>4, BoundsAssumption DEF Init, TypeOK
<1>2. Inv
  BY DEF Init, Inv, Numbered, HookFirst, Requested, AnsweredOnce, HeldOnce, AnswerIsOwn, Closed, Open
<1>. QED  BY <1>1, <1>2

(* Dialling starts everything anew.                                         *)
LEMMA DialKeepsInv == TypeOK /\ Inv /\ Dial => TypeOK' /\ Inv'
<1>. SUFFICES ASSUME TypeOK, Inv, Dial PROVE TypeOK' /\ Inv'
  OBVIOUS
<1>1. inbox' = <<Handshake>> /\ Handshake.kind = "handshake" /\ Handshake # Push /\ Push.kind = "push"
  BY DEF Dial, Handshake, Push
<1>2. TypeOK'
  <2>1. inbox' \in Seq(Messages)
    BY <1>1 DEF Messages
  <2>2. outbox' \in Seq(1..MaxSeq)
        /\ results' \in Seq({Pending, ProxyError, EmptyOk} \cup {Answer(s) : s \in 1..MaxSeq})
    BY EmptySeq DEF Dial, Fresh
  <2>3. handshake' \in BOOLEAN /\ onPush' \in BOOLEAN
    BY Zenon DEF Dial, Fresh
  <2>4. pushes' \in [sent : Nat, delivered : Nat, dropped : Nat]
    BY DEF Dial, Fresh
  <2>5. dials' \in 0..MaxDials
    BY BoundsAssumption DEF Dial, TypeOK
  <2>. QED  BY <2>1, <2>2, <2>3, <2>4, <2>5, BoundsAssumption DEF TypeOK, Dial, Fresh
<1>3. Inv'
  <2>1. Numbered' /\ HookFirst'
    BY <1>1 DEF Dial, Fresh, Numbered, HookFirst
  <2>2. Requested' /\ AnswerIsOwn'
    BY DEF Dial, Fresh, Requested, AnswerIsOwn
  <2>3. AnsweredOnce'
    BY <1>1 DEF AnsweredOnce
  <2>4. HeldOnce'
    BY DEF Dial, Fresh, Reading, HeldOnce
  <2>. QED  BY <2>1, <2>2, <2>3, <2>4 DEF Inv
<1>. QED  BY <1>2, <1>3

(* The handshake is over before the first request.                          *)
LEMMA StartKeepsInv ==
    ASSUME TypeOK, Inv, CheckHandshake \/ HandshakeTimeout \/ SetOnPush
    PROVE  TypeOK' /\ Inv'
<1>1. UNCHANGED <<reader, sendVars, netVars, pushes>>
  BY DEF CheckHandshake, HandshakeTimeout, SetOnPush
<1>2. TypeOK'
  <2>1. starter' \in {"none", "check", "wait", "ok", "failed"} /\ UNCHANGED <<dials, handshake>>
    BY DEF TypeOK, CheckHandshake, HandshakeTimeout, SetOnPush
  <2>2. onPush' \in BOOLEAN
    <3>1. CASE SetOnPush
      BY <3>1, Zenon DEF SetOnPush
    <3>2. CASE CheckHandshake \/ HandshakeTimeout
      BY <3>2 DEF TypeOK, CheckHandshake, HandshakeTimeout
    <3>. QED  BY <3>1, <3>2
  <2>. QED  BY <1>1, <2>1, <2>2 DEF TypeOK, sendVars, netVars
<1>3. HookFirst'
  BY <1>1 DEF Inv, HookFirst, CheckHandshake, HandshakeTimeout, MayGiveUpHandshake, SetOnPush, sendVars,
     netVars
<1>4. (Numbered /\ Requested /\ AnsweredOnce /\ HeldOnce /\ AnswerIsOwn)'
  BY <1>1 DEF Inv, Numbered, Requested, AnsweredOnce, HeldOnce, AnswerIsOwn, Open, sendVars, netVars
<1>. QED  BY <1>2, <1>3, <1>4 DEF Inv

LEMMA SendKeepsInv == TypeOK /\ Inv /\ Send => TypeOK' /\ Inv'
<1>. SUFFICES ASSUME TypeOK, Inv, Send PROVE TypeOK' /\ Inv'
  OBVIOUS
<1>1. PICK result \in {Pending, EmptyOk} :
         /\ results' = Append(results, result)
         /\ caller' = (IF result = Pending THEN "wait" ELSE "remove")
         /\ result = EmptyOk => outbox' = outbox
         /\ outbox' \in {outbox, Append(outbox, seq')}
  BY DEF Send, WriteSucceeds, WriteFails, netVars, Pending, EmptyOk
<1>2. /\ seq' = seq + 1 /\ seq \in Nat /\ syncCtxMap' = {seq + 1} /\ seq < MaxSeq
      /\ UNCHANGED <<dials, starter, handshake, onPush, reader, pushes, inbox, link, answered>>
      /\ onPush /\ starter = "ok" /\ caller = "idle"
  BY DEF Send, Ready, WriteSucceeds, WriteFails, startVars, netVars, Inv, Numbered, TypeOK
<1>3. /\ Len(results') = seq + 1 /\ DOMAIN results' = 1..seq + 1
      /\ \A s \in 1..seq : results'[s] = results[s]
      /\ results'[seq + 1] = result
      /\ results' \in Seq({Pending, ProxyError, EmptyOk} \cup {Answer(s) : s \in 1..MaxSeq})
      /\ DOMAIN results = 1..seq
  BY <1>1, Added, Results DEF TypeOK, Inv, Numbered
<1>4. /\ outbox' \in Seq(1..MaxSeq)
      /\ \A i \in DOMAIN outbox' : outbox'[i] = seq + 1 \/ (i \in DOMAIN outbox /\ outbox'[i] = outbox[i])
      /\ \A i, j \in DOMAIN outbox' : outbox'[i] = outbox'[j] => i = j
      /\ result = EmptyOk => outbox' = outbox
  <2>1. CASE outbox' = outbox
    BY <2>1 DEF TypeOK, Inv, Requested
  <2>2. CASE result = Pending /\ outbox' = Append(outbox, seq + 1)
    <3>1. seq + 1 \in 1..MaxSeq
      BY <1>2, BoundsAssumption
    <3>2. \A i \in DOMAIN outbox : outbox[i] \in 1..seq
      BY DEF Inv, Requested
    <3>3. /\ outbox' \in Seq(1..MaxSeq)
          /\ Len(outbox) \in Nat /\ DOMAIN outbox = 1..Len(outbox) /\ DOMAIN outbox' = 1..Len(outbox) + 1
          /\ \A i \in 1..Len(outbox) : outbox'[i] = outbox[i]
          /\ outbox'[Len(outbox) + 1] = seq + 1
      BY <2>2, <3>1, Added DEF TypeOK
    <3>4. \A i, j \in DOMAIN outbox : outbox[i] = outbox[j] => i = j
      BY DEF Inv, Requested
    <3>5. \A i \in DOMAIN outbox' : outbox'[i] = seq + 1 \/ (i \in DOMAIN outbox /\ outbox'[i] = outbox[i])
      BY <3>3
    <3>6. \A i, j \in DOMAIN outbox' : outbox'[i] = outbox'[j] => i = j
      BY <1>2, <3>2, <3>3, <3>4
    <3>. QED  BY <2>2, <3>3, <3>5, <3>6 DEF Pending, EmptyOk
  <2>. QED  BY <1>1, <1>2, <2>1, <2>2
<1>5. TypeOK'
  BY <1>1, <1>2, <1>3, <1>4, BoundsAssumption DEF TypeOK
<1>6. Numbered'
  BY <1>1, <1>2, <1>3 DEF Numbered, Pending, EmptyOk
<1>7. HookFirst'
  BY <1>2 DEF Inv, HookFirst
<1>8. \A s \in answered : s \in 1..seq /\ results'[s] = results[s]
  BY <1>3 DEF Inv, Requested
<1>9. Requested'
  BY <1>1, <1>2, <1>3, <1>4, <1>8 DEF Inv, Requested, Open, Pending, EmptyOk
<1>10. AnsweredOnce'
  BY <1>2, <1>8 DEF Inv, AnsweredOnce, Open
<1>11. HeldOnce'
  BY <1>2, <1>8 DEF Inv, HeldOnce
<1>12. AnswerIsOwn'
  BY <1>2, <1>3 DEF Inv, AnswerIsOwn, Pending, EmptyOk
<1>. QED  BY <1>5, <1>6, <1>7, <1>9, <1>10, <1>11, <1>12 DEF Inv

LEMMA RemoveCtxKeepsInv == TypeOK /\ Inv /\ RemoveCtx => TypeOK' /\ Inv'
<1>. SUFFICES ASSUME TypeOK, Inv, RemoveCtx PROVE TypeOK' /\ Inv'
  OBVIOUS
<1>1. /\ caller = "remove" /\ caller' = "idle" /\ syncCtxMap' = {}
      /\ UNCHANGED <<dials, starter, handshake, onPush, reader, seq, results, inbox, outbox, link,
                     answered, pushes>>
  BY DEF RemoveCtx, Registered, startVars, netVars, Inv, Numbered
<1>. QED  BY <1>1 DEF TypeOK, Inv, Numbered, HookFirst, Requested, AnsweredOnce, HeldOnce, AnswerIsOwn, Open

(* A result takes the place of "pending".                                   *)
LEMMA ReturnsOnce ==
    ASSUME TypeOK, Inv, NEW result, Returns(result), caller = "wait",
           result \in {ProxyError} \cup {Answer(s) : s \in 1..MaxSeq}
    PROVE  /\ results' \in Seq({Pending, ProxyError, EmptyOk} \cup {Answer(s) : s \in 1..MaxSeq})
           /\ Len(results') = seq /\ DOMAIN results' = 1..seq /\ seq \in 1..MaxSeq
           /\ \A s \in 1..seq : results'[s] = IF s = seq THEN result ELSE results[s]
<1>1. DOMAIN results = 1..seq /\ seq \in 1..seq /\ Len(results) = seq /\ seq \in 1..MaxSeq
  BY Results, BoundsAssumption DEF Inv, Numbered, TypeOK
<1>. QED  BY <1>1, ExceptSeq DEF Returns, TypeOK

LEMMA WaitTimeoutKeepsInv == TypeOK /\ Inv /\ WaitTimeout => TypeOK' /\ Inv'
<1>. SUFFICES ASSUME TypeOK, Inv, WaitTimeout PROVE TypeOK' /\ Inv'
  OBVIOUS
<1>1. /\ caller = "wait" /\ caller' = "remove" /\ Returns(ProxyError)
      /\ UNCHANGED <<dials, starter, handshake, onPush, reader, seq, syncCtxMap, inbox, outbox, link,
                     answered, pushes>>
  BY DEF WaitTimeout, MayTimeOut, startVars, netVars
<1>2. /\ results' \in Seq({Pending, ProxyError, EmptyOk} \cup {Answer(s) : s \in 1..MaxSeq})
      /\ Len(results') = seq /\ DOMAIN results' = 1..seq /\ seq \in 1..MaxSeq
      /\ \A s \in 1..seq : results'[s] = IF s = seq THEN ProxyError ELSE results[s]
  BY <1>1, ReturnsOnce
<1>3. DOMAIN results = 1..seq
  BY Results DEF Inv
<1>4. \A s \in 1..seq : Open(s) => Open(s)'
  BY <1>2 DEF Open
<1>5. TypeOK'
  BY <1>1, <1>2 DEF TypeOK
<1>6. Numbered' /\ HookFirst'
  BY <1>1, <1>2 DEF Inv, Numbered, HookFirst, ProxyError, Pending
<1>7. Requested'
  BY <1>1, <1>4 DEF Inv, Requested
<1>8. AnsweredOnce'
  BY <1>1, <1>4 DEF Inv, AnsweredOnce, Requested
<1>9. HeldOnce'
  BY <1>1, <1>2 DEF Inv, HeldOnce, Requested
<1>10. AnswerIsOwn'
  BY <1>1, <1>2, <1>3 DEF Inv, AnswerIsOwn, ProxyError
<1>. QED  BY <1>5, <1>6, <1>7, <1>8, <1>9, <1>10 DEF Inv

-----------------------------------------------------------------------------
(* wsReadLoop.                                                              *)

LEMMA ReceivesOne ==
    ASSUME TypeOK, NEW message, Receives(message)
    PROVE  /\ inbox' \in Seq(Messages) /\ inbox' = Tail(inbox)
           /\ 1 \in DOMAIN inbox /\ inbox[1] = message /\ reader = Reading
           /\ \A i \in DOMAIN inbox' : i + 1 \in DOMAIN inbox /\ inbox'[i] = inbox[i + 1]
                                       /\ i \in Nat \ {0}
           /\ UNCHANGED <<dials, starter, onPush, seq, syncCtxMap, caller, results, outbox, link, answered>>
BY Rest DEF TypeOK, Receives, sendVars

(* Numbers on their way stay apart when one of the messages is taken.       *)
LEMMA FewerOnTheWay ==
    ASSUME TypeOK, Inv, NEW message, Receives(message)
    PROVE  /\ Numbered' /\ Requested' /\ AnsweredOnce' /\ AnswerIsOwn'
           /\ \A i \in DOMAIN inbox' : inbox'[i] = Push => seq > 0
<1>1. /\ \A i \in DOMAIN inbox' : i + 1 \in DOMAIN inbox /\ inbox'[i] = inbox[i + 1] /\ i \in Nat \ {0}
      /\ UNCHANGED <<dials, starter, onPush, seq, syncCtxMap, caller, results, outbox, link, answered>>
  BY ReceivesOne
<1>2. Numbered' /\ Requested' /\ AnswerIsOwn'
  BY <1>1 DEF Inv, Numbered, Requested, AnswerIsOwn, Open
<1>3. AnsweredOnce'
  BY <1>1 DEF Inv, AnsweredOnce, Open
<1>. QED  BY <1>1, <1>2, <1>3 DEF Inv, HookFirst

LEMMA ReadHandshakeKeepsInv == TypeOK /\ Inv /\ ReadHandshake => TypeOK' /\ Inv'
<1>. SUFFICES ASSUME TypeOK, Inv, ReadHandshake PROVE TypeOK' /\ Inv'
  OBVIOUS
<1>1. Receives(Handshake) /\ handshake' = TRUE /\ reader' = Shaking /\ pushes' = pushes
  BY DEF ReadHandshake
<1>2. inbox' \in Seq(Messages)
      /\ UNCHANGED <<dials, starter, onPush, seq, syncCtxMap, caller, results, outbox, link, answered>>
  BY <1>1, ReceivesOne
<1>3. handshake' \in BOOLEAN
  BY <1>1, Zenon
<1>4. TypeOK'
  BY <1>1, <1>2, <1>3 DEF TypeOK
<1>5. HookFirst' /\ HeldOnce'
  BY <1>1, <1>2, FewerOnTheWay DEF Inv, HookFirst, HeldOnce, Shaking
<1>. QED  BY <1>1, <1>4, <1>5, FewerOnTheWay DEF Inv

LEMMA HandOverHandshakeKeepsInv == TypeOK /\ Inv /\ HandOverHandshake => TypeOK' /\ Inv'
<1>. SUFFICES ASSUME TypeOK, Inv, HandOverHandshake PROVE TypeOK' /\ Inv'
  OBVIOUS
<1>1. /\ starter = "wait" /\ starter' = "ok" /\ reader' = Reading
      /\ UNCHANGED <<dials, handshake, onPush, seq, syncCtxMap, caller, results, inbox, outbox, link,
                     answered, pushes>>
  BY DEF HandOverHandshake, sendVars, netVars
<1>. QED  BY <1>1 DEF TypeOK, Inv, Numbered, HookFirst, Requested, AnsweredOnce, HeldOnce, AnswerIsOwn,
     Open, Reading

LEMMA ReadReplyKeepsInv ==
    ASSUME TypeOK, Inv, NEW s \in 1..MaxSeq, ReadReply(s)
    PROVE  TypeOK' /\ Inv'
<1>1. /\ Receives(Reply(s)) /\ handshake' = handshake /\ pushes' = pushes
      /\ reader' = IF s \in syncCtxMap THEN Delivering(s, s) ELSE Reading
  BY DEF ReadReply, CtxOf
<1>2. /\ inbox' \in Seq(Messages) /\ 1 \in DOMAIN inbox /\ inbox[1] = Reply(s)
      /\ \A i \in DOMAIN inbox' : i + 1 \in DOMAIN inbox /\ inbox'[i] = inbox[i + 1] /\ i \in Nat \ {0}
      /\ UNCHANGED <<dials, starter, onPush, seq, syncCtxMap, caller, results, outbox, link, answered>>
  BY <1>1, ReceivesOne
<1>3. s \in answered /\ Open(s) /\ \A i \in DOMAIN inbox' : inbox'[i] # Reply(s)
  BY <1>2 DEF Inv, AnsweredOnce, Reply
<1>4. TypeOK'
  <2>1. reader' \in {Reading, Shaking, Closed} \cup {Delivering(c, b) : c \in 1..MaxSeq, b \in 1..MaxSeq}
    BY <1>1
  <2>. QED  BY <1>1, <1>2, <2>1 DEF TypeOK
<1>5. HookFirst'
  BY <1>1, <1>2, FewerOnTheWay DEF Inv, HookFirst
<1>6. HeldOnce'
  <2>1. CASE s \in syncCtxMap
    <3>1. reader'.ctx = s /\ reader'.body = s
      BY <1>1, <2>1 DEF Delivering
    <3>2. s = seq /\ caller # "idle"
      BY <2>1 DEF Inv, Numbered
    <3>3. caller = "wait" \/ results[s] = ProxyError
      BY <1>3, <3>2 DEF TypeOK, Inv, Numbered, Open
    <3>. QED  BY <1>2, <1>3, <3>1, <3>2, <3>3 DEF HeldOnce
  <2>2. CASE s \notin syncCtxMap
    BY <1>1, <2>2 DEF HeldOnce, Reading
  <2>. QED  BY <2>1, <2>2
<1>. QED  BY <1>1, <1>4, <1>5, <1>6, FewerOnTheWay DEF Inv

LEMMA HandOverReplyKeepsInv == TypeOK /\ Inv /\ HandOverReply => TypeOK' /\ Inv'
<1>. SUFFICES ASSUME TypeOK, Inv, HandOverReply PROVE TypeOK' /\ Inv'
  OBVIOUS
<1>1. /\ caller = "wait" /\ caller' = "remove" /\ Returns(Answer(reader.body)) /\ reader' = Reading
      /\ reader.at = "deliver" /\ reader.ctx = seq
      /\ UNCHANGED <<dials, starter, handshake, onPush, seq, syncCtxMap, inbox, outbox, link,
                     answered, pushes>>
  BY DEF HandOverReply, startVars, netVars
<1>2. /\ reader.body = seq /\ seq \in answered
      /\ \A i \in DOMAIN inbox : inbox[i] # Reply(seq)
  BY <1>1 DEF Inv, HeldOnce
<1>3. /\ results' \in Seq({Pending, ProxyError, EmptyOk} \cup {Answer(s) : s \in 1..MaxSeq})
      /\ Len(results') = seq /\ DOMAIN results' = 1..seq /\ seq \in 1..MaxSeq
      /\ \A s \in 1..seq : results'[s] = IF s = seq THEN Answer(seq) ELSE results[s]
  <2>1. Answer(seq) \in {Answer(s) : s \in 1..MaxSeq}
    BY <1>2 DEF TypeOK
  <2>. QED  BY <1>1, <1>2, <2>1, ReturnsOnce
<1>4. DOMAIN results = 1..seq
  BY Results DEF Inv
<1>5. TypeOK'
  BY <1>1, <1>3 DEF TypeOK
<1>6. Numbered' /\ HookFirst'
  BY <1>1, <1>3 DEF Inv, Numbered, HookFirst, Answer, Pending
<1>7. Requested'
  BY <1>1, <1>2, <1>3 DEF Inv, Requested, Open
<1>8. AnsweredOnce'
  <2>1. \A i \in DOMAIN inbox : inbox[i].kind = "reply" => inbox[i] = Reply(inbox[i].of)
    BY ElementOfSeq, LenProperties DEF TypeOK, Messages, Reply, Push, Handshake
  <2>. QED  BY <1>1, <1>2, <1>3, <2>1 DEF Inv, AnsweredOnce, Requested, Open
<1>9. HeldOnce'
  BY <1>1 DEF HeldOnce, Reading
<1>10. AnswerIsOwn'
  BY <1>1, <1>2, <1>3, <1>4 DEF Inv, AnswerIsOwn, Answer
<1>. QED  BY <1>5, <1>6, <1>7, <1>8, <1>9, <1>10 DEF Inv

(* A push is read with the hook in place.                                   *)
LEMMA ReadPushKeepsInv == TypeOK /\ Inv /\ ReadPush => TypeOK' /\ Inv'
<1>. SUFFICES ASSUME TypeOK, Inv, ReadPush PROVE TypeOK' /\ Inv'
  OBVIOUS
<1>1. Receives(Push) /\ reader' = reader /\ handshake' = handshake
  BY DEF ReadPush
<1>2. /\ inbox' \in Seq(Messages) /\ 1 \in DOMAIN inbox /\ inbox[1] = Push /\ reader = Reading
      /\ UNCHANGED <<dials, starter, onPush, seq, syncCtxMap, caller, results, outbox, link, answered>>
  BY <1>1, ReceivesOne
<1>3. onPush
  BY <1>2 DEF Inv, HookFirst
<1>4. pushes' = [pushes EXCEPT !.delivered = @ + 1]
  BY <1>3 DEF ReadPush
<1>5. TypeOK'
  <2>1. pushes \in [sent : Nat, delivered : Nat, dropped : Nat]
    BY DEF TypeOK
  <2>2. pushes' \in [sent : Nat, delivered : Nat, dropped : Nat]
    BY <1>4, <2>1
  <2>. QED  BY <1>1, <1>2, <2>2 DEF TypeOK
<1>6. HookFirst' /\ HeldOnce'
  BY <1>1, <1>2, <1>4, FewerOnTheWay DEF TypeOK, Inv, HookFirst, HeldOnce, Reading
<1>. QED  BY <1>1, <1>5, <1>6, FewerOnTheWay DEF Inv

LEMMA ReadErrorKeepsInv == TypeOK /\ Inv /\ ReadError => TypeOK' /\ Inv'
<1>. SUFFICES ASSUME TypeOK, Inv, ReadError PROVE TypeOK' /\ Inv'
  OBVIOUS
<1>1. /\ reader' = Closed /\ inbox' = <<>>
      /\ UNCHANGED <<dials, starter, handshake, onPush, seq, syncCtxMap, caller, results, outbox, link,
                     answered, pushes>>
  BY DEF ReadError, startVars, sendVars
<1>2. TypeOK'
  BY <1>1, EmptySeq DEF TypeOK
<1>. QED  BY <1>1, <1>2 DEF Inv, Numbered, HookFirst, Requested, AnsweredOnce, HeldOnce, AnswerIsOwn,
     Open, Closed

-----------------------------------------------------------------------------
(* The backend.                                                             *)

(* A number that leaves the way to the backend is on the way back, once.    *)
LEMMA BackendAnswerKeepsInv == TypeOK /\ Inv /\ BackendAnswer => TypeOK' /\ Inv'
<1>. SUFFICES ASSUME TypeOK, Inv, BackendAnswer PROVE TypeOK' /\ Inv'
  OBVIOUS
<1>1. PICK s : s = Head(outbox)
  OBVIOUS
<1>2. /\ s \in 1..MaxSeq /\ outbox' \in Seq(1..MaxSeq) /\ outbox' = Tail(outbox)
      /\ 1 \in DOMAIN outbox /\ outbox[1] = s
      /\ \A i \in DOMAIN outbox' : i + 1 \in DOMAIN outbox /\ outbox'[i] = outbox[i + 1]
                                   /\ i \in Nat \ {0}
  <2>1. outbox \in Seq(1..MaxSeq) /\ outbox # <<>> /\ outbox' = Tail(outbox)
    BY DEF TypeOK, BackendAnswer
  <2>2. /\ Tail(outbox) \in Seq(1..MaxSeq)
        /\ Head(outbox) = outbox[1] /\ Head(outbox) \in 1..MaxSeq
        /\ 1 \in DOMAIN outbox
        /\ \A i \in DOMAIN Tail(outbox) : i + 1 \in DOMAIN outbox /\ Tail(outbox)[i] = outbox[i + 1]
                                          /\ i \in Nat \ {0}
    BY <2>1, Rest
  <2>. QED  BY <1>1, <2>1, <2>2
<1>3. /\ inbox' = Append(inbox, Reply(s)) /\ answered' = answered \cup {s}
      /\ UNCHANGED <<dials, starter, handshake, onPush, reader, seq, syncCtxMap, caller, results, link,
                     pushes>>
  BY <1>1 DEF BackendAnswer, startVars, sendVars
<1>4. s \in 1..seq /\ s \notin answered /\ Open(s)
  BY <1>2 DEF Inv, Requested
<1>5. Reply(s) \in Messages /\ Reply(s).kind = "reply" /\ Reply(s).of = s /\ Reply(s) # Push
  BY <1>2 DEF Messages, Reply, Push
<1>6. /\ inbox' \in Seq(Messages)
      /\ Len(inbox) \in Nat /\ DOMAIN inbox = 1..Len(inbox) /\ DOMAIN inbox' = 1..Len(inbox) + 1
      /\ \A i \in 1..Len(inbox) : inbox'[i] = inbox[i]
      /\ inbox'[Len(inbox) + 1] = Reply(s)
  BY <1>3, <1>5, Added DEF TypeOK
<1>7. TypeOK'
  BY <1>2, <1>3, <1>6 DEF TypeOK
<1>8. Numbered' /\ AnswerIsOwn'
  BY <1>3 DEF Inv, Numbered, AnswerIsOwn
<1>9. HookFirst'
  BY <1>3, <1>5, <1>6 DEF Inv, HookFirst
<1>10. Requested'
  BY <1>2, <1>3, <1>4 DEF Inv, Requested, Open
<1>11. \A i \in DOMAIN inbox : inbox[i] # Reply(s)
  BY <1>4, <1>5 DEF Inv, AnsweredOnce
<1>12. AnsweredOnce'
  BY <1>3, <1>4, <1>5, <1>6, <1>11 DEF Inv, AnsweredOnce, Open
<1>13. HeldOnce'
  <2>1. reader.at = "deliver" => Reply(reader.body) # Reply(s)
    BY <1>4 DEF Inv, HeldOnce, Reply
  <2>. QED  BY <1>3, <1>6, <2>1 DEF Inv, HeldOnce
<1>. QED  BY <1>7, <1>8, <1>9, <1>10, <1>12, <1>13 DEF Inv

LEMMA BackendPushKeepsInv == TypeOK /\ Inv /\ BackendPush => TypeOK' /\ Inv'
<1>. SUFFICES ASSUME TypeOK, Inv, BackendPush PROVE TypeOK' /\ Inv'
  OBVIOUS
<1>1. /\ answered # {} \/ outbox # <<>>
      /\ inbox' = Append(inbox, Push) /\ pushes' = [pushes EXCEPT !.sent = @ + 1]
      /\ UNCHANGED <<dials, starter, handshake, onPush, reader, seq, syncCtxMap, caller, results,
                     outbox, link, answered>>
  BY DEF BackendPush, startVars, sendVars
<1>2. Push \in Messages /\ Push.kind = "push" /\ \A s : Reply(s) # Push
  BY DEF Messages, Push, Reply
<1>3. /\ inbox' \in Seq(Messages)
      /\ Len(inbox) \in Nat /\ DOMAIN inbox = 1..Len(inbox) /\ DOMAIN inbox' = 1..Len(inbox) + 1
      /\ \A i \in 1..Len(inbox) : inbox'[i] = inbox[i]
      /\ inbox'[Len(inbox) + 1] = Push
  BY <1>1, <1>2, Added DEF TypeOK
<1>4. pushes' \in [sent : Nat, delivered : Nat, dropped : Nat] /\ pushes'.dropped = pushes.dropped
  <2>1. pushes \in [sent : Nat, delivered : Nat, dropped : Nat]
    BY DEF TypeOK
  <2>. QED  BY <1>1, <2>1
<1>5. TypeOK'
  BY <1>1, <1>3, <1>4 DEF TypeOK
<1>6. seq > 0
  <2>1. CASE answered # {}
    <3>1. \E s : s \in 1..seq
      BY <2>1 DEF Inv, Requested
    <3>. QED  BY <3>1 DEF TypeOK
  <2>2. CASE outbox # <<>>
    <3>1. 1 \in DOMAIN outbox
      BY <2>2, Rest DEF TypeOK
    <3>. QED  BY <3>1 DEF Inv, Requested, TypeOK
  <2>. QED  BY <1>1, <2>1, <2>2
<1>7. HookFirst'
  BY <1>1, <1>3, <1>4, <1>6 DEF Inv, HookFirst
<1>8. Numbered' /\ AnswerIsOwn' /\ Requested'
  BY <1>1 DEF Inv, Numbered, AnswerIsOwn, Requested, Open
<1>9. AnsweredOnce'
  BY <1>1, <1>2, <1>3 DEF Inv, AnsweredOnce, Open
<1>10. HeldOnce'
  BY <1>1, <1>2, <1>3 DEF Inv, HeldOnce
<1>. QED  BY <1>5, <1>7, <1>8, <1>9, <1>10 DEF Inv

LEMMA BackendDiesKeepsInv == TypeOK /\ Inv /\ BackendDies => TypeOK' /\ Inv'
<1>. SUFFICES ASSUME TypeOK, Inv, BackendDies PROVE TypeOK' /\ Inv'
  OBVIOUS
<1>1. /\ link' = "down" /\ outbox' = <<>>
      /\ UNCHANGED <<dials, starter, handshake, onPush, reader, seq, syncCtxMap, caller, results, inbox,
                     answered, pushes>>
  BY DEF BackendDies, startVars, sendVars
<1>2. TypeOK'
  BY <1>1, EmptySeq DEF TypeOK
<1>. QED  BY <1>1, <1>2 DEF Inv, Numbered, HookFirst, Requested, AnsweredOnce, HeldOnce, AnswerIsOwn,
     Open

-----------------------------------------------------------------------------
LEMMA StepKeepsInv == TypeOK /\ Inv /\ [Next]_vars => TypeOK' /\ Inv'
<1>. SUFFICES ASSUME TypeOK, Inv, [Next]_vars PROVE TypeOK' /\ Inv'
  OBVIOUS
<1>1. CASE Dial
  BY <1>1, DialKeepsInv
<1>2. CASE CheckHandshake \/ HandshakeTimeout \/ SetOnPush
  BY <1>2, StartKeepsInv
<1>3. CASE Send \/ WaitTimeout \/ RemoveCtx
  BY <1>3, SendKeepsInv, WaitTimeoutKeepsInv, RemoveCtxKeepsInv
<1>4. CASE Reader
  <2>1. CASE \E s \in 1..MaxSeq : ReadReply(s)
    BY <2>1, ReadReplyKeepsInv
  <2>. QED  BY <1>4, <2>1, ReadHandshakeKeepsInv, HandOverHandshakeKeepsInv, HandOverReplyKeepsInv,
            ReadPushKeepsInv, ReadErrorKeepsInv DEF Reader
<1>5. CASE BackendAnswer \/ BackendPush \/ BackendDies
  BY <1>5, BackendAnswerKeepsInv, BackendPushKeepsInv, BackendDiesKeepsInv
<1>6. CASE UNCHANGED vars
  BY <1>6 DEF vars, TypeOK, Inv, Numbered, HookFirst, Requested, AnsweredOnce, HeldOnce, AnswerIsOwn,
     Open
<1>. QED  BY <1>1, <1>2, <1>3, <1>4, <1>5, <1>6 DEF Next

(* The inductive invariant: a number is in one place on its way to the      *)
(* backend and back, and has one result.                                    *)
THEOREM InvariantHolds == Spec => [](TypeOK /\ Inv)
<1>. QED  BY InvHoldsAtInit, StepKeepsInv, PTL DEF Spec

(* Every variable of a connection keeps its shape, on however many requests.*)
THEOREM TypeCorrect == Spec => []TypeOK
<1>. QED  BY InvariantHolds, PTL

(* A Send never returns the answer of another request, in particular of one *)
(* that timed out and is answered late (ClientConn.Send, wsReadLoop).       *)
THEOREM AnswersAreOwn == Spec => []AnswerIsOwn
<1>1. Inv => AnswerIsOwn
  BY DEF Inv
<1>. QED  BY <1>1, InvariantHolds, PTL

(* The hook is set before the first request can bind the connection, so no  *)
(* push of the backend meets a nil hook (Handler.deal, wsReadLoop).         *)
THEOREM PushesArrive == Spec => []NoPushDropped
<1>1. Inv => NoPushDropped
  BY DEF Inv, HookFirst, NoPushDropped
<1>. QED  BY <1>1, InvariantHolds, PTL

(* A reader that stands still for ever holds the answer of a request that   *)
(* timed out between the look-up of its context and the hand-over.          *)
THEOREM StuckReader == Spec => []StuckOnlyOnTimeout
<1>1. Inv => StuckOnlyOnTimeout
  BY DEF Inv, HeldOnce, StuckOnlyOnTimeout
<1>. QED  BY <1>1, InvariantHolds, PTL

==============================================================================
