------------------------- MODULE HostProtocolProofs -------------------------
(***************************************************************************)
(* Proofs about HostProtocol, for any threads, opcodes, lengths of answers *)
(* and numbers of retries.                                                 *)
(***************************************************************************)
EXTENDS HostProtocol, SequenceTheorems, TLAPS

(***************************************************************************)
(* The inductive invariants.  Every request and packet on its way carries  *)
(* an id together with the call that was given it (Known).  The pipe from  *)
(* the device holds whole answers but for a part that was read already     *)
(* (Stream), and who reads the rest of its data undisturbed has read just  *)
(* what precedes the head of the pipe (Reading).                           *)
(***************************************************************************)
Tagged(p) == <<p.call, p.id>> \in used

Accepted(t) == pc[t] = "rest" \/ result[t] = "ok"

Known ==
    /\ \A t \in Threads : pc[t] # "app" \/ result[t] = "ok" => Tagged(request[t])
    /\ \A i \in 1 .. Len(requests) : Tagged(requests[i])
    /\ \A i \in 1 .. Len(replies) : Tagged(replies[i])
    /\ \A t \in Threads : Accepted(t) =>
          /\ answer[t] # <<>>
          /\ Tagged(answer[t][1]) /\ answer[t][1].id = request[t].id

\* The last packet of its answer, and what follows one that is not.
Final(p) == p.part = Parts(p, p.status)

Continues(p, q) ==
    q.call = p.call /\ q.op = p.op /\ q.status = p.status /\ q.part = p.part + 1

Follows(p, q) == IF Final(p) THEN q.part = 0 ELSE Continues(p, q)

Stream ==
    /\ \A i \in 1 .. Len(replies) :
          replies[i].part <= Parts(replies[i], replies[i].status)
    /\ \A i \in 1 .. Len(replies) - 1 : Follows(replies[i], replies[i + 1])
    /\ replies # <<>> => Final(replies[Len(replies)])

\* The first packets of one acknowledged answer to the command of t.
Prefix(t) ==
    /\ answer[t] # <<>>
    /\ Len(answer[t]) <= 1 + Wanted(request[t].op)
    /\ \A i \in 1 .. Len(answer[t]) :
          /\ answer[t][i].call = answer[t][1].call
          /\ answer[t][i].part = i - 1
          /\ answer[t][i].op = request[t].op
          /\ answer[t][i].status = "ack"

\* A call has no result before it returns.
Pending == \A t \in Threads : pc[t] # "app" => result[t] = "none"

Reading ==
    \A t \in Threads : t \notin overtaken =>
        /\ pc[t] = "rest" =>
              /\ Prefix(t)
              /\ WantsMore(t) => /\ replies # <<>>
                                 /\ Continues(answer[t][Len(answer[t])], replies[1])
        /\ result[t] = "ok" => Prefix(t) /\ ~WantsMore(t)

-----------------------------------------------------------------------------
LEMMA PartsType ==
  ASSUME NEW r, r.op \in Opcodes, NEW status
  PROVE  Parts(r, status) \in Nat
  BY HostAssumption DEF Parts

\* What Execute reads of an answer is there: all of it, or the header.
LEMMA WantedType ==
  ASSUME NEW op \in Opcodes
  PROVE  Wanted(op) \in Nat /\ Wanted(op) <= Rest[op] /\ Rest[op] \in Nat
  BY HostAssumption DEF Wanted

LEMMA ReplyType ==
  ASSUME NEW r \in Request, NEW status \in Statuses
  PROVE  /\ Reply(r, status) \in Seq(Packet)
         /\ Len(Reply(r, status)) = 1 + Parts(r, status)
         /\ \A i \in 1 .. 1 + Parts(r, status) :
               Reply(r, status)[i] =
                  [call |-> r.call, id |-> r.id, op |-> r.op, status |-> status,
                   part |-> i - 1]
<1> DEFINE n == 1 + Parts(r, status)
           packet(i) == [call |-> r.call, id |-> r.id, op |-> r.op, status |-> status,
                         part |-> i - 1]
<1>1. n \in Nat
  BY PartsType DEF Request
<1>2. ASSUME NEW i \in 1 .. n PROVE packet(i) \in Packet
  <2>1. i - 1 \in Nat
    BY <1>1
  <2> QED BY <2>1 DEF Request, Packet
<1>3. Reply(r, status) = [i \in 1 .. n |-> packet(i)]
  BY DEF Reply
<1> HIDE DEF n, packet
<1>4. Reply(r, status) \in Seq(Packet) /\ Len(Reply(r, status)) = n
  BY <1>1, <1>2, <1>3
<1>5. \A i \in 1 .. n : Reply(r, status)[i] = packet(i)
  BY <1>3
<1> QED BY <1>4, <1>5 DEF n, packet

-----------------------------------------------------------------------------
(* Types. *)

LEMMA InitTypeOK == Init => TypeOK
<1> SUFFICES ASSUME Init PROVE TypeOK
  OBVIOUS
<1>1. NoRequest \in Request
  <2>1. (CHOOSE op \in Opcodes : TRUE) \in Opcodes
    BY HostAssumption
  <2>2. 0 \in Ids
    BY HostAssumption DEF Ids
  <2> QED BY <2>1, <2>2 DEF NoRequest, Request
<1>2. 0 \in Ids
  BY HostAssumption DEF Ids
<1>3. <<>> \in Seq(Request) /\ <<>> \in Seq(Packet)
  OBVIOUS
<1> QED BY <1>1, <1>2, <1>3, HostAssumption DEF Init, TypeOK, Shape

\* What taking the head of the pipe does to it.
LEMMA ReadPipe ==
  ASSUME Shape, NEW t \in Threads, Read(t)
  PROVE  /\ Head(replies) = replies[1] /\ replies[1] \in Packet
         /\ replies' \in Seq(Packet) /\ Len(replies) \in Nat \ {0}
         /\ Len(replies') = Len(replies) - 1
         /\ \A i \in 1 .. Len(replies') : replies'[i] = replies[i + 1]
         /\ overtaken' \subseteq Threads
  BY DEF Shape, Read

LEMMA ModBound ==
  ASSUME NEW n \in Nat, NEW k \in Nat \ {0}
  PROVE  n % k \in 0 .. k - 1
  OBVIOUS

LEMMA NextShape ==
  ASSUME Shape, [Next]_vars
  PROVE  Shape'
<1> USE HostAssumption DEF Shape, Goto, Return, giveUp, threadVars, pipeVars, historyVars
<1>1. CASE serve
  <2>1. Head(requests) \in Request /\ Tail(requests) \in Seq(Request)
    BY <1>1 DEF serve
  <2>2. ASSUME NEW status \in Statuses
        PROVE  replies \o Reply(Head(requests), status) \in Seq(Packet)
    BY <2>1, ReplyType
  <2> QED BY <1>1, <2>1, <2>2 DEF serve
<1>2. ASSUME NEW t \in Threads, NEW op \in Opcodes, XnHostProtocolInitHeader(t, op)
      PROVE  Shape'
  <2>1. [call |-> calls + 1, id |-> nId, op |-> op] \in Request
    BY DEF Request
  <2>2. <<>> \in Seq(Packet)
    OBVIOUS
  <2>3. <<calls + 1, nId>> \in Nat \X Ids /\ calls + 1 \in Nat
    OBVIOUS
  <2> QED BY <1>2, <2>1, <2>2, <2>3 DEF XnHostProtocolInitHeader
<1>3. ASSUME NEW t \in Threads, countId(t) PROVE Shape'
  <2>1. request[t].id + 1 \in Nat
    <3>1. request[t] \in Request
      OBVIOUS
    <3> QED BY ONLY <3>1, HostAssumption DEF Request, Ids
  <2>2. (request[t].id + 1) % IdMod \in Ids
    BY <2>1, ModBound, Zenon DEF Ids
  <2> QED BY <1>3, <2>2 DEF countId
<1>4. ASSUME NEW t \in Threads, lockMutex(t) PROVE Shape'
  BY <1>4 DEF lockMutex
<1>5. ASSUME NEW t \in Threads, sendRequest(t) PROVE Shape'
  <2>1. Append(requests, request[t]) \in Seq(Request)
    OBVIOUS
  <2> QED BY <1>5, <2>1 DEF sendRequest
<1>6. ASSUME NEW t \in Threads, sendTimesOut(t) PROVE Shape'
  <2>1. Append(requests, request[t]) \in Seq(Request)
    OBVIOUS
  <2>2. requests' \in Seq(Request) /\ UNCHANGED <<nId, request, answer, replies, historyVars>>
    BY <1>6, <2>1 DEF sendTimesOut
  <2>3. CASE sends[t] = 1
    <3>1. /\ giveUp(t) /\ sends' = [sends EXCEPT ![t] = SendRetries]
          /\ attempts' = [attempts EXCEPT ![t] = NotReadyRetries]
      BY <1>6, <2>3 DEF sendTimesOut
    <3> QED BY <2>2, <3>1
  <2>4. CASE sends[t] # 1
    <3>1. sends[t] - 1 \in 1 .. SendRetries
      BY <2>4
    <3>2. /\ sends' = [sends EXCEPT ![t] = sends[t] - 1]
          /\ UNCHANGED <<pc, result, hExecuteMutex, attempts>>
      BY <1>6, <2>4 DEF sendTimesOut
    <3>3. sends' \in [Threads -> 1 .. SendRetries]
      BY <3>1, <3>2
    <3> QED BY ONLY Shape, <2>2, <3>2, <3>3 DEF Shape, historyVars
  <2> QED BY <2>3, <2>4
<1>7. ASSUME NEW t \in Threads, sendFails(t) PROVE Shape'
  BY <1>7 DEF sendFails
<1>8. ASSUME NEW t \in Threads, receiveFails(t) PROVE Shape'
  BY <1>8 DEF receiveFails
<1>9. ASSUME NEW t \in Threads, skipPacket(t) PROVE Shape'
  BY <1>9, ReadPipe DEF skipPacket, Read
<1>10. ASSUME NEW t \in Threads, rejectPacket(t) PROVE Shape'
  <2>1. /\ replies' \in Seq(Packet) /\ overtaken' \subseteq Threads
        /\ UNCHANGED <<nId, request, sends, answer, requests, calls, used>>
    BY <1>10, ReadPipe DEF rejectPacket, Read
  <2>2. giveUp(t) /\ attempts' = [attempts EXCEPT ![t] = NotReadyRetries]
    BY <1>10 DEF rejectPacket
  <2> QED BY <2>1, <2>2
<1>11. ASSUME NEW t \in Threads, receiveNotReady(t) PROVE Shape'
  <2>1. /\ replies' \in Seq(Packet) /\ overtaken' \subseteq Threads
        /\ UNCHANGED <<nId, request, sends, answer, requests, calls, used>>
        /\ hExecuteMutex' = NoThread
    BY <1>11, ReadPipe DEF receiveNotReady, Read
  <2>2. CASE attempts[t] = 1
    <3>1. Return(t, "error") /\ attempts' = [attempts EXCEPT ![t] = NotReadyRetries]
      BY <1>11, <2>2 DEF receiveNotReady
    <3> QED BY <2>1, <3>1
  <2>3. CASE attempts[t] # 1
    <3>1. Goto(t, "lock") /\ attempts' = [attempts EXCEPT ![t] = @ - 1] /\ UNCHANGED result
      BY <1>11, <2>3 DEF receiveNotReady
    <3>2. attempts[t] - 1 \in 1 .. NotReadyRetries
      BY <2>3
    <3> QED BY <2>1, <3>1, <3>2
  <2> QED BY <2>2, <2>3
<1>12. ASSUME NEW t \in Threads, receiveReply(t) PROVE Shape'
  <2>1. Read(t)
    BY <1>12 DEF receiveReply
  <2>2. <<Head(replies)>> \in Seq(Packet)
    BY <2>1, ReadPipe
  <2> QED BY <1>12, <2>1, <2>2, ReadPipe DEF receiveReply, Read
<1>13. ASSUME NEW t \in Threads, readRest(t) PROVE Shape'
  <2>1. Read(t)
    BY <1>13 DEF readRest
  <2>2. Append(answer[t], Head(replies)) \in Seq(Packet)
    BY <2>1, ReadPipe
  <2> QED BY <1>13, <2>1, <2>2, ReadPipe DEF readRest, Read
<1>14. ASSUME NEW t \in Threads, restFails(t) PROVE Shape'
  BY <1>14 DEF restFails
<1>15. ASSUME NEW t \in Threads, executeReturns(t) PROVE Shape'
  BY <1>15 DEF executeReturns
<1>16. CASE UNCHANGED vars
  BY <1>16 DEF vars
<1> QED
  BY <1>1, <1>2, <1>3, <1>4, <1>5, <1>6, <1>7, <1>8, <1>9, <1>10, <1>11, <1>12,
     <1>13, <1>14, <1>15, <1>16 DEF Next, Execute

LEMMA NextTypeOK ==
  ASSUME TypeOK, [Next]_vars
  PROVE  TypeOK'
<1> DEFINE Owned == \A t \in Threads : hExecuteMutex = t <=> pc[t] \in {"send", "receive"}
<1>1. Shape'
  BY NextShape DEF TypeOK
<1>2. pc \in [Threads -> {"app", "count", "lock", "send", "receive", "rest"}] /\ Owned
  BY DEF TypeOK, Shape
<1>3. ASSUME NEW t \in Threads, Execute(t) PROVE Owned'
  <2> USE HostAssumption DEF Goto, Return
  <2>1. CASE lockMutex(t)
    BY <1>2, <2>1 DEF lockMutex
  <2>2. CASE sendTimesOut(t)
    BY <1>2, <2>2 DEF sendTimesOut, giveUp
  <2>3. CASE sendFails(t) \/ receiveFails(t) \/ rejectPacket(t)
    BY <1>2, <2>3 DEF sendFails, receiveFails, rejectPacket, giveUp
  <2>4. CASE receiveNotReady(t)
    BY <1>2, <2>4 DEF receiveNotReady
  <2>5. CASE receiveReply(t)
    BY <1>2, <2>5 DEF receiveReply
  <2>6. CASE \/ countId(t) \/ sendRequest(t) \/ skipPacket(t)
            \/ readRest(t) \/ restFails(t) \/ executeReturns(t)
    BY <1>2, <2>6
    DEF countId, sendRequest, skipPacket, readRest, restFails, executeReturns, threadVars
  <2> QED BY <1>3, <2>1, <2>2, <2>3, <2>4, <2>5, <2>6 DEF Execute
<1>4. ASSUME NEW t \in Threads, NEW op \in Opcodes, XnHostProtocolInitHeader(t, op)
      PROVE  Owned'
  BY <1>2, <1>4 DEF XnHostProtocolInitHeader, Goto
<1>5. serve \/ UNCHANGED vars => Owned'
  BY <1>2 DEF serve, vars, threadVars
<1> QED BY <1>1, <1>3, <1>4, <1>5 DEF Next, TypeOK

LEMMA AppendFacts ==
  ASSUME NEW S, NEW s \in Seq(S), NEW e \in S
  PROVE  /\ Append(s, e) \in Seq(S) /\ Append(s, e) # <<>>
         /\ Len(s) \in Nat /\ Len(Append(s, e)) = Len(s) + 1
         /\ \A i \in 1 .. Len(s) : Append(s, e)[i] = s[i]
         /\ Append(s, e)[Len(s) + 1] = e
         /\ s # <<>> => Len(s) >= 1 /\ Append(s, e)[1] = s[1]
<1>1. Len(s) \in Nat /\ (s # <<>> => Len(s) >= 1)
  OBVIOUS
<1>2. \A i \in 1 .. Len(s) : Append(s, e)[i] = s[i]
  OBVIOUS
<1> QED BY <1>1, <1>2, AppendProperties

-----------------------------------------------------------------------------
(* Ids and calls go together. *)

LEMMA InitKnown == Init => Known
  BY DEF Init, Known, Accepted

\* Steps that only pass requests and packets on.
LEMMA KeepKnown ==
  ASSUME Known, UNCHANGED <<request, answer>>, used \subseteq used',
         \A i \in 1 .. Len(requests') : Tagged(requests'[i]),
         \A i \in 1 .. Len(replies') : Tagged(replies'[i]),
         \A t \in Threads : pc[t] = "app" /\ result[t] # "ok" =>
                               pc'[t] = "app" /\ result'[t] # "ok",
         \A t \in Threads : Accepted(t)' => Accepted(t)
  PROVE  Known'
  BY DEF Known, Tagged

LEMMA NextKnown ==
  ASSUME TypeOK, Known, [Next]_vars
  PROVE  Known'
<1> USE DEF Goto, Return, giveUp
<1>0. Shape
  BY DEF TypeOK
<1>1. CASE serve
  <2>1. PICK status \in Statuses :
           replies' = replies \o Reply(Head(requests), status)
    BY <1>1 DEF serve
  <2> DEFINE r == Head(requests)
  <2>2. /\ r = requests[1] /\ r \in Request /\ Tagged(r)
        /\ requests' = Tail(requests) /\ Len(requests) \in Nat \ {0}
    BY <1>0, <1>1 DEF serve, Shape, Known
  <2>3. \A i \in 1 .. Len(requests') : Tagged(requests'[i])
    <3>1. Len(requests') = Len(requests) - 1
          /\ \A i \in 1 .. Len(requests') : requests'[i] = requests[i + 1]
      BY <1>0, <2>2 DEF Shape
    <3> QED BY <2>2, <3>1 DEF Known
  <2>4. \A i \in 1 .. Len(replies') : Tagged(replies'[i])
    <3> DEFINE s == Reply(r, status)
    <3>1. /\ s \in Seq(Packet) /\ Len(s) = 1 + Parts(r, status)
          /\ Parts(r, status) \in Nat
          /\ \A i \in 1 .. Len(s) : s[i].call = r.call /\ s[i].id = r.id
      <4>1. Parts(r, status) \in Nat
        BY <2>2, PartsType DEF Request
      <4>2. /\ s \in Seq(Packet) /\ Len(s) = 1 + Parts(r, status)
            /\ \A i \in 1 .. 1 + Parts(r, status) :
                  s[i] = [call |-> r.call, id |-> r.id, op |-> r.op, status |-> status,
                          part |-> i - 1]
        BY <2>2, ReplyType
      <4> HIDE DEF s
      <4> QED BY <4>1, <4>2
    <3>2. \A i \in 1 .. Len(s) : Tagged(s[i])
      BY <2>2, <3>1 DEF Tagged
    <3> HIDE DEF s
    <3>3. ASSUME NEW i \in 1 .. Len(replies') PROVE Tagged(replies'[i])
      <4>1. replies' = replies \o s /\ replies \in Seq(Packet)
        BY <1>0, <2>1 DEF Shape, s, r
      <4>2. CASE i <= Len(replies)
        BY <3>1, <4>1, <4>2 DEF Known
      <4>3. CASE i > Len(replies)
        <5>1. i - Len(replies) \in 1 .. Len(s) /\ replies'[i] = s[i - Len(replies)]
          BY <3>1, <4>1, <4>3
        <5> QED BY <3>2, <5>1
      <4> QED BY <3>1, <4>1, <4>2, <4>3
    <3> QED BY <3>3
  <2>5. UNCHANGED <<request, answer, pc, result, used>>
    BY <1>1 DEF serve, threadVars, historyVars
  <2>6. (\A i \in 1 .. Len(requests') : Tagged(requests'[i]))
        /\ (\A i \in 1 .. Len(replies') : Tagged(replies'[i]))
        /\ \A t \in Threads : Accepted(t)' => Accepted(t)
    BY <2>3, <2>4, <2>5 DEF Tagged, Accepted
  <2> QED BY <2>5, <2>6, KeepKnown
<1>2. ASSUME NEW t \in Threads, NEW op \in Opcodes, XnHostProtocolInitHeader(t, op)
      PROVE  Known'
  BY <1>0, <1>2 DEF XnHostProtocolInitHeader, Shape, Known, Tagged, Accepted, pipeVars
<1>3. ASSUME NEW t \in Threads, Read(t)
      PROVE  Tagged(replies[1]) /\ replies[1] \in Packet
             /\ (\A i \in 1 .. Len(replies') : Tagged(replies'[i]))
             /\ Head(replies) = replies[1] /\ UNCHANGED <<requests, used>>
  <2>1. UNCHANGED <<requests, used>>
    BY <1>3 DEF Read
  <2>2. ASSUME NEW i \in 1 .. Len(replies') PROVE Tagged(replies'[i])
    <3>1. i + 1 \in 1 .. Len(replies) /\ replies'[i] = replies[i + 1]
      BY <1>0, <1>3, ReadPipe
    <3> QED BY <3>1 DEF Known
  <2>3. Head(replies) = replies[1] /\ replies[1] \in Packet /\ 1 \in 1 .. Len(replies)
    BY <1>0, <1>3, ReadPipe
  <2> QED BY <2>1, <2>2, <2>3 DEF Known
<1>4. ASSUME NEW t \in Threads, UNCHANGED <<request, answer, used, pipeVars>>,
             pc[t] # "app", Accepted(t)' => Accepted(t),
             \A u \in Threads \ {t} : pc'[u] = pc[u] /\ result'[u] = result[u]
      PROVE  Known'
  BY <1>4 DEF Known, Tagged, Accepted, pipeVars
<1>5. ASSUME NEW t \in Threads, countId(t) PROVE Known'
  BY <1>0, <1>4, <1>5 DEF countId, Accepted, Shape, historyVars
<1>6. ASSUME NEW t \in Threads, lockMutex(t) PROVE Known'
  BY <1>0, <1>4, <1>6 DEF lockMutex, Accepted, Shape, historyVars
<1>7. ASSUME NEW t \in Threads, sendRequest(t) \/ sendTimesOut(t) PROVE Known'
  <2>1. /\ UNCHANGED <<request, answer, used, replies>>
        /\ pc[t] = "send" /\ (Accepted(t)' => Accepted(t))
        /\ \A u \in Threads \ {t} : pc'[u] = pc[u] /\ result'[u] = result[u]
    BY <1>0, <1>7 DEF sendRequest, sendTimesOut, Accepted, Shape, historyVars
  <2>2. requests' = requests \/ requests' = Append(requests, request[t])
    BY <1>7 DEF sendRequest, sendTimesOut
  <2>3. \A i \in 1 .. Len(requests') : Tagged(requests'[i])
    <3>1. requests \in Seq(Request) /\ request[t] \in Request /\ Tagged(request[t])
      BY <1>0, <2>1 DEF Shape, Known
    <3>2. CASE requests' = requests
      BY <3>2 DEF Known
    <3>3. CASE requests' = Append(requests, request[t])
      BY <3>1, <3>3, AppendFacts DEF Known
    <3> QED BY <2>2, <3>2, <3>3
  <2> QED BY <2>1, <2>3 DEF Known, Tagged, Accepted
<1>8. ASSUME NEW t \in Threads, sendFails(t) \/ receiveFails(t) PROVE Known'
  BY <1>0, <1>4, <1>8 DEF sendFails, receiveFails, Accepted, Shape, historyVars
<1>9. ASSUME NEW t \in Threads, skipPacket(t) \/ rejectPacket(t) \/ receiveNotReady(t)
      PROVE  Known'
  <2>1. Read(t) /\ UNCHANGED <<request, answer>>
    BY <1>9 DEF skipPacket, rejectPacket, receiveNotReady, threadVars
  <2>2. /\ pc[t] = "receive" /\ (Accepted(t)' => Accepted(t))
        /\ \A u \in Threads \ {t} : pc'[u] = pc[u] /\ result'[u] = result[u]
    BY <1>0, <1>9 DEF skipPacket, rejectPacket, receiveNotReady, threadVars, Accepted, Shape
  <2> QED BY <1>3, <2>1, <2>2 DEF Known, Tagged, Accepted
<1>10. ASSUME NEW t \in Threads, receiveReply(t) PROVE Known'
  <2>1. /\ Read(t) /\ pc[t] = "receive" /\ UNCHANGED <<request, result>>
        /\ answer' = [answer EXCEPT ![t] = <<Head(replies)>>]
        /\ pc' = [pc EXCEPT ![t] = "rest"]
        /\ Head(replies).id = request[t].id
    BY <1>10 DEF receiveReply, Awaited, WrongId
  <2>2. answer'[t] # <<>> /\ answer'[t][1] = replies[1]
    BY <1>0, <1>3, <2>1 DEF Shape
  <2> QED BY <1>0, <1>3, <2>1, <2>2 DEF Known, Tagged, Accepted, Shape
<1>11. ASSUME NEW t \in Threads, readRest(t) PROVE Known'
  <2>1. /\ Read(t) /\ pc[t] = "rest" /\ UNCHANGED <<request, result, pc>>
        /\ answer' = [answer EXCEPT ![t] = Append(answer[t], Head(replies))]
    BY <1>11 DEF readRest
  <2>2. answer'[t] # <<>> /\ answer'[t][1] = answer[t][1]
    <3>1. answer[t] \in Seq(Packet) /\ answer[t] # <<>> /\ replies[1] \in Packet
      BY <1>0, <1>3, <2>1 DEF Shape, Known, Accepted
    <3>2. answer'[t] = Append(answer[t], replies[1])
      BY <1>0, <1>3, <2>1 DEF Shape
    <3> QED BY <3>1, <3>2, AppendFacts
  <2> QED BY <1>0, <1>3, <2>1, <2>2 DEF Known, Tagged, Accepted, Shape
<1>12. ASSUME NEW t \in Threads, restFails(t) \/ executeReturns(t) PROVE Known'
  BY <1>0, <1>4, <1>12 DEF restFails, executeReturns, Accepted, Shape, historyVars
<1>13. CASE UNCHANGED vars
  BY <1>13 DEF vars, threadVars, pipeVars, historyVars, Known, Tagged, Accepted
<1> QED
  BY <1>1, <1>2, <1>5, <1>6, <1>7, <1>8, <1>9, <1>10, <1>11, <1>12, <1>13 DEF Next, Execute

LEMMA NextPending ==
  ASSUME TypeOK, Pending, [Next]_vars
  PROVE  Pending'
<1> USE DEF Pending, Goto, Return, giveUp
<1>0. Shape
  BY DEF TypeOK
<1>1. ASSUME NEW t \in Threads, NEW op \in Opcodes, XnHostProtocolInitHeader(t, op)
      PROVE  Pending'
  BY <1>0, <1>1 DEF XnHostProtocolInitHeader, Shape
<1>2. ASSUME NEW t \in Threads, Execute(t)
      PROVE  /\ \A u \in Threads \ {t} : pc'[u] = pc[u] /\ result'[u] = result[u]
             /\ pc[t] # "app"
             /\ pc'[t] = "app" \/ result'[t] = result[t]
  <2> USE <1>0 DEF Shape, threadVars
  <2>1. CASE countId(t) \/ lockMutex(t) \/ sendRequest(t)
    BY <2>1 DEF countId, lockMutex, sendRequest
  <2>2. CASE sendTimesOut(t)
    BY <2>2 DEF sendTimesOut
  <2>3. CASE sendFails(t) \/ receiveFails(t) \/ rejectPacket(t) \/ skipPacket(t)
    BY <2>3 DEF sendFails, receiveFails, rejectPacket, skipPacket
  <2>4. CASE receiveNotReady(t)
    <3>1. pc[t] = "receive" /\ (Return(t, "error") \/ (Goto(t, "lock") /\ UNCHANGED result))
      BY <2>4 DEF receiveNotReady
    <3> QED BY <3>1
  <2>5. CASE receiveReply(t)
    BY <2>5 DEF receiveReply
  <2>6. CASE readRest(t) \/ restFails(t) \/ executeReturns(t)
    BY <2>6 DEF readRest, restFails, executeReturns
  <2> QED BY <1>2, <2>1, <2>2, <2>3, <2>4, <2>5, <2>6 DEF Execute
<1>3. serve \/ UNCHANGED vars => Pending'
  BY DEF serve, vars, threadVars
<1> QED BY <1>1, <1>2, <1>3 DEF Next

-----------------------------------------------------------------------------
(* The pipe holds whole answers. *)

\* One answer as the device makes it.
LEMMA ReplyStream ==
  ASSUME NEW r \in Request, NEW status \in Statuses
  PROVE  LET s == Reply(r, status)
         IN /\ s \in Seq(Packet) /\ Len(s) \in Nat \ {0} /\ s[1].part = 0
            /\ \A i \in 1 .. Len(s) : s[i].part <= Parts(s[i], s[i].status)
            /\ \A i \in 1 .. Len(s) - 1 : Follows(s[i], s[i + 1])
            /\ Final(s[Len(s)])
<1> DEFINE s == Reply(r, status)
           n == Parts(r, status)
<1>1. n \in Nat
  BY PartsType DEF Request
<1>2. /\ s \in Seq(Packet) /\ Len(s) = 1 + n
      /\ \A i \in 1 .. 1 + n :
            s[i] = [call |-> r.call, id |-> r.id, op |-> r.op, status |-> status,
                    part |-> i - 1]
  BY ReplyType
<1>3. \A i \in 1 .. 1 + n : Parts(s[i], s[i].status) = n
  <2> SUFFICES ASSUME NEW i \in 1 .. 1 + n PROVE Parts(s[i], s[i].status) = n
    OBVIOUS
  <2>1. s[i].op = r.op /\ s[i].status = status
    BY <1>2
  <2> QED BY <2>1 DEF Parts
<1> HIDE DEF s, n
<1>4. \A i \in 1 .. Len(s) - 1 : Follows(s[i], s[i + 1])
  <2> SUFFICES ASSUME NEW i \in 1 .. n PROVE Follows(s[i], s[i + 1])
    BY <1>1, <1>2
  <2>1. i \in 1 .. 1 + n /\ i + 1 \in 1 .. 1 + n
    BY <1>1
  <2>2. ~Final(s[i])
    BY <1>1, <1>2, <1>3, <2>1 DEF Final
  <2>3. Continues(s[i], s[i + 1])
    <3>1. \A j \in 1 .. 1 + n : s[j].call = r.call /\ s[j].op = r.op /\ s[j].status = status
      BY <1>2
    <3>2. s[i].part = i - 1 /\ s[i + 1].part = (i + 1) - 1
      BY <1>2, <2>1
    <3>3. s[i + 1].part = s[i].part + 1
      BY <1>1, <3>2
    <3> QED BY ONLY <2>1, <3>1, <3>3 DEF Continues
  <2> QED BY <2>2, <2>3 DEF Follows
<1>5. Final(s[Len(s)])
  BY <1>1, <1>2, <1>3 DEF Final
<1>6. \A i \in 1 .. Len(s) : s[i].part <= Parts(s[i], s[i].status)
  BY <1>1, <1>2, <1>3
<1>7. Len(s) \in Nat \ {0} /\ s[1].part = 0
  BY <1>1, <1>2
<1> QED BY <1>2, <1>4, <1>5, <1>6, <1>7 DEF s

LEMMA NextStream ==
  ASSUME TypeOK, Stream, [Next]_vars
  PROVE  Stream'
<1>0. Shape
  BY DEF TypeOK
<1>1. CASE UNCHANGED replies
  BY <1>1 DEF Stream, Final, Follows, Continues, Parts
<1>2. ASSUME NEW t \in Threads, Read(t) PROVE Stream'
  <2>1. /\ replies' \in Seq(Packet) /\ Len(replies') \in Nat
        /\ Len(replies) = Len(replies') + 1
        /\ \A i \in 1 .. Len(replies') :
              i + 1 \in 1 .. Len(replies) /\ replies'[i] = replies[i + 1]
    BY <1>0, <1>2, ReadPipe
  <2>2. ASSUME NEW i \in 1 .. Len(replies') - 1 PROVE Follows(replies'[i], replies'[i + 1])
    <3>1. i + 1 \in 1 .. Len(replies) - 1 /\ i \in 1 .. Len(replies')
          /\ i + 1 \in 1 .. Len(replies')
      BY <2>1
    <3> QED BY <2>1, <3>1 DEF Stream
  <2>3. replies' # <<>> => Final(replies'[Len(replies')])
    <3>1. replies' # <<>> => Len(replies') \in 1 .. Len(replies')
      BY <2>1
    <3>2. replies # <<>>
      BY <1>2 DEF Read
    <3> QED BY <2>1, <3>1, <3>2 DEF Stream
  <2>4. \A i \in 1 .. Len(replies') :
           replies'[i].part <= Parts(replies'[i], replies'[i].status)
    BY <2>1 DEF Stream
  <2> QED BY <2>2, <2>3, <2>4 DEF Stream, Final, Follows, Continues, Parts
<1>3. CASE serve
  <2>1. Head(requests) \in Request
    BY <1>0, <1>3 DEF serve, Shape
  <2>2. PICK status \in Statuses :
           replies' = replies \o Reply(Head(requests), status)
    BY <1>3 DEF serve
  <2> DEFINE s == Reply(Head(requests), status)
             n == Len(replies)
  <2>3. /\ s \in Seq(Packet) /\ Len(s) \in Nat \ {0} /\ s[1].part = 0
        /\ \A i \in 1 .. Len(s) : s[i].part <= Parts(s[i], s[i].status)
        /\ \A i \in 1 .. Len(s) - 1 : Follows(s[i], s[i + 1])
        /\ Final(s[Len(s)])
    BY <2>1, ReplyStream
  <2> HIDE DEF s
  <2>4. /\ n \in Nat /\ Len(replies') = n + Len(s)
        /\ \A i \in 1 .. n : replies'[i] = replies[i]
        /\ \A i \in 1 .. Len(s) : replies'[n + i] = s[i]
    <3>1. replies \in Seq(Packet) /\ replies' = replies \o s
      BY <1>0, <2>2 DEF Shape, s
    <3> QED BY <2>3, <3>1
  <2>5. ASSUME NEW i \in 1 .. n + Len(s)
        PROVE  replies'[i].part <= Parts(replies'[i], replies'[i].status)
    <3>1. CASE i \in 1 .. n
      BY <2>4, <3>1 DEF Stream
    <3>2. CASE i \notin 1 .. n
      <4>1. i - n \in 1 .. Len(s) /\ replies'[n + (i - n)] = s[i - n] /\ n + (i - n) = i
        BY <2>3, <2>4, <3>2
      <4> QED BY <2>3, <4>1
    <3> QED BY <3>1, <3>2
  <2>6. ASSUME NEW i \in 1 .. n + Len(s) - 1 PROVE Follows(replies'[i], replies'[i + 1])
    <3>1. CASE i + 1 <= n
      BY <2>3, <2>4, <3>1 DEF Stream
    <3>2. CASE i = n
      <4>1. replies # <<>> /\ replies'[n] = replies[n] /\ replies'[n + 1] = s[1]
        BY <1>0, <2>3, <2>4, <3>2 DEF Shape
      <4> QED BY <2>3, <3>2, <4>1 DEF Stream, Follows
    <3>3. CASE i > n
      <4> DEFINE k == i - n
      <4>1. /\ k \in 1 .. Len(s) - 1 /\ k \in 1 .. Len(s) /\ k + 1 \in 1 .. Len(s)
            /\ i = n + k /\ i + 1 = n + (k + 1)
        BY <2>3, <2>4, <3>3
      <4> HIDE DEF k
      <4>2. replies'[i] = s[k] /\ replies'[i + 1] = s[k + 1]
        BY <2>4, <4>1
      <4> QED BY <2>3, <4>1, <4>2
    <3> QED BY <2>3, <2>4, <3>1, <3>2, <3>3
  <2>7. Final(replies'[Len(replies')])
    BY <2>3, <2>4
  <2> QED BY <2>4, <2>5, <2>6, <2>7 DEF Stream, Final, Follows, Continues, Parts
<1>4. [Next]_vars => UNCHANGED replies \/ serve \/ \E t \in Threads : Read(t)
  BY DEF Next, Execute, vars, pipeVars, XnHostProtocolInitHeader, countId, lockMutex,
     sendRequest, sendTimesOut, sendFails, receiveFails, skipPacket, rejectPacket,
     receiveNotReady, receiveReply, readRest, restFails, executeReturns
<1> QED BY <1>1, <1>2, <1>3, <1>4

-----------------------------------------------------------------------------
(* A thread that is not overtaken reads its own answer. *)

\* A step that leaves the answers, the requests and the pipe alone.
LEMMA KeepReading ==
  ASSUME Reading, NEW t \in Threads, t \notin overtaken,
         answer'[t] = answer[t], request'[t] = request[t],
         replies # <<>> => replies' # <<>> /\ replies'[1] = replies[1],
         pc'[t] = "rest" => pc[t] = "rest",
         result'[t] = "ok" => result[t] = "ok"
  PROVE  /\ pc'[t] = "rest" =>
               /\ Prefix(t)'
               /\ WantsMore(t)' =>
                     replies' # <<>> /\ Continues(answer'[t][Len(answer'[t])], replies'[1])
         /\ result'[t] = "ok" => Prefix(t)' /\ ~WantsMore(t)'
  BY DEF Reading, Prefix, WantsMore, Continues

LEMMA NextReading ==
  ASSUME TypeOK, Stream, Pending, Reading, [Next]_vars
  PROVE  Reading'
<1>0. Shape
  BY DEF TypeOK
<1> USE DEF Goto, Return, giveUp
<1>1. CASE serve \/ UNCHANGED vars
  <2>1. UNCHANGED <<answer, request, pc, result, overtaken>>
    BY <1>1 DEF serve, vars, threadVars, historyVars
  <2>2. replies # <<>> => replies' # <<>> /\ replies'[1] = replies[1]
    <3>1. CASE UNCHANGED vars
      BY <3>1 DEF vars, pipeVars
    <3>2. CASE serve
      <4>1. Head(requests) \in Request
        BY <1>0, <3>2 DEF serve, Shape
      <4>2. PICK status \in Statuses :
               replies' = replies \o Reply(Head(requests), status)
        BY <3>2 DEF serve
      <4> DEFINE s == Reply(Head(requests), status)
      <4>3. s \in Seq(Packet)
        BY <4>1, ReplyStream
      <4>4. replies' = replies \o s /\ replies \in Seq(Packet)
        BY <1>0, <4>2 DEF Shape
      <4> HIDE DEF s
      <4> QED BY <4>3, <4>4
    <3> QED BY <1>1, <3>1, <3>2
  <2> QED BY <2>1, <2>2, KeepReading DEF Reading
<1>2. ASSUME NEW t \in Threads, NEW op \in Opcodes, XnHostProtocolInitHeader(t, op)
      PROVE  Reading'
  <2>1. UNCHANGED replies /\ pc'[t] = "count" /\ result'[t] = "none"
    BY <1>0, <1>2 DEF XnHostProtocolInitHeader, Shape, pipeVars
  <2>2. ASSUME NEW u \in Threads \ {t}
        PROVE  /\ answer'[u] = answer[u] /\ request'[u] = request[u]
               /\ pc'[u] = pc[u] /\ result'[u] = result[u]
               /\ u \notin overtaken' => u \notin overtaken
    BY <1>0, <1>2 DEF XnHostProtocolInitHeader, Shape
  <2> QED BY <2>1, <2>2, KeepReading DEF Reading
\* Steps of a thread that neither read a packet nor finish a call.
<1>3. ASSUME NEW t \in Threads,
             \/ countId(t) \/ lockMutex(t) \/ sendRequest(t) \/ sendTimesOut(t)
             \/ sendFails(t) \/ receiveFails(t) \/ restFails(t)
      PROVE  Reading'
  <2>1. UNCHANGED <<answer, request, replies, overtaken>>
    BY <1>3 DEF countId, lockMutex, sendRequest, sendTimesOut, sendFails, receiveFails,
       restFails, pipeVars, historyVars
  <2>2. \A u \in Threads :
           (pc'[u] = "rest" => pc[u] = "rest") /\ (result'[u] = "ok" => result[u] = "ok")
    BY <1>0, <1>3 DEF countId, lockMutex, sendRequest, sendTimesOut, sendFails,
       receiveFails, restFails, Shape
  <2> QED BY <2>1, <2>2, KeepReading DEF Reading
<1>4. ASSUME NEW t \in Threads, executeReturns(t) PROVE Reading'
  <2>1. /\ UNCHANGED <<answer, request, replies, overtaken>>
        /\ pc[t] = "rest" /\ ~WantsMore(t)
        /\ pc' = [pc EXCEPT ![t] = "app"] /\ result' = [result EXCEPT ![t] = "ok"]
    BY <1>4 DEF executeReturns, pipeVars, historyVars
  <2> QED BY <1>0, <2>1 DEF Reading, Prefix, WantsMore, Continues, Shape
\* What a reader of the pipe does to the others: they are overtaken.
<1>5. ASSUME NEW t \in Threads, Read(t), NEW u \in Threads \ {t}, u \notin overtaken',
             answer'[u] = answer[u], request'[u] = request[u],
             pc'[u] = pc[u], result'[u] = result[u]
      PROVE  /\ pc'[u] # "rest"
             /\ result'[u] = "ok" => Prefix(u)' /\ ~WantsMore(u)'
  BY <1>5 DEF Read, Reading, Prefix, WantsMore
<1>6. ASSUME NEW t \in Threads, skipPacket(t) \/ rejectPacket(t) \/ receiveNotReady(t)
      PROVE  Reading'
  <2>1. /\ Read(t) /\ UNCHANGED <<request, answer>> /\ pc[t] = "receive"
        /\ \/ UNCHANGED <<pc, result>>
           \/ Return(t, "error")
           \/ Goto(t, "lock") /\ UNCHANGED result
    BY <1>6 DEF skipPacket, rejectPacket, receiveNotReady, threadVars
  <2>2. result[t] = "none"
    BY <2>1 DEF Pending
  <2>3. /\ pc'[t] # "rest" /\ result'[t] # "ok"
        /\ \A u \in Threads \ {t} : pc'[u] = pc[u] /\ result'[u] = result[u]
    BY <1>0, <2>1, <2>2 DEF Shape
  <2> QED BY <1>5, <2>1, <2>3 DEF Reading
<1>7. ASSUME NEW t \in Threads, receiveReply(t) PROVE Reading'
  <2>1. /\ Read(t) /\ pc[t] = "receive" /\ UNCHANGED <<request, result>>
        /\ answer' = [answer EXCEPT ![t] = <<Head(replies)>>]
        /\ pc' = [pc EXCEPT ![t] = "rest"]
        /\ Awaited(t, Head(replies)) /\ Head(replies).status = "ack"
    BY <1>7 DEF receiveReply
  <2> DEFINE h == replies[1]
  <2>2. /\ h \in Packet /\ answer'[t] = <<h>> /\ pc'[t] = "rest" /\ result'[t] # "ok"
        /\ h.part = 0 /\ h.op = request'[t].op /\ h.status = "ack"
        /\ Len(replies) \in Nat \ {0} /\ Len(replies') = Len(replies) - 1
        /\ \A i \in 1 .. Len(replies') : replies'[i] = replies[i + 1]
        /\ replies' \in Seq(Packet)
    BY <1>0, <2>1, ReadPipe DEF Awaited, IsHeader, Shape, Pending
  <2>3. \A u \in Threads \ {t} :
           /\ answer'[u] = answer[u] /\ request'[u] = request[u]
           /\ pc'[u] = pc[u] /\ result'[u] = result[u]
    BY <1>0, <2>1 DEF Shape
  <2>4. /\ Wanted(request'[t].op) \in Nat /\ Rest[request'[t].op] \in Nat
        /\ Wanted(request'[t].op) <= Rest[request'[t].op]
    BY <2>2, WantedType DEF Packet
  <2>5. Prefix(t)'
    BY <2>2, <2>4 DEF Prefix
  <2>6. ASSUME WantsMore(t)'
        PROVE  replies' # <<>> /\ Continues(answer'[t][Len(answer'[t])], replies'[1])
    <3>1. ~Final(h)
      BY <2>2, <2>4, <2>6 DEF WantsMore, Final, Parts
    <3>2. Len(replies) # 1
      BY <2>2, <3>1 DEF Stream
    <3>3. 1 \in 1 .. Len(replies) - 1 /\ 1 \in 1 .. Len(replies')
      BY <2>2, <3>2
    <3>4. Follows(h, replies[2]) /\ replies'[1] = replies[2]
      BY <2>2, <3>3 DEF Stream
    <3> QED BY <2>2, <3>1, <3>3, <3>4 DEF Follows, Continues
  <2> QED BY <1>5, <2>1, <2>2, <2>3, <2>5, <2>6 DEF Reading
<1>8. ASSUME NEW t \in Threads, readRest(t) PROVE Reading'
  <2>1. /\ Read(t) /\ pc[t] = "rest" /\ WantsMore(t)
        /\ UNCHANGED <<request, result, pc>>
        /\ answer' = [answer EXCEPT ![t] = Append(answer[t], Head(replies))]
    BY <1>8 DEF readRest
  <2> DEFINE h == replies[1]
             n == Len(answer[t])
  <2>2. /\ h \in Packet /\ answer'[t] = Append(answer[t], h) /\ result'[t] # "ok"
        /\ Len(replies) \in Nat \ {0} /\ Len(replies') = Len(replies) - 1
        /\ \A i \in 1 .. Len(replies') : replies'[i] = replies[i + 1]
        /\ replies' \in Seq(Packet) /\ answer[t] \in Seq(Packet)
    BY <1>0, <2>1, ReadPipe DEF Shape, Pending
  <2>3. \A u \in Threads \ {t} :
           /\ answer'[u] = answer[u] /\ request'[u] = request[u]
           /\ pc'[u] = pc[u] /\ result'[u] = result[u]
    BY <1>0, <2>1 DEF Shape
  <2>4. overtaken \subseteq overtaken'
    BY <2>1 DEF Read
  <2>5. ASSUME t \notin overtaken
        PROVE  /\ Prefix(t)'
               /\ WantsMore(t)' => /\ replies' # <<>>
                                   /\ Continues(answer'[t][Len(answer'[t])], replies'[1])
    <3>1. Prefix(t) /\ Continues(answer[t][n], h)
      BY <2>1, <2>5 DEF Reading
    <3>2. /\ n \in Nat \ {0} /\ Len(answer'[t]) = n + 1 /\ answer'[t] # <<>>
          /\ \A i \in 1 .. n : answer'[t][i] = answer[t][i]
          /\ answer'[t][n + 1] = h /\ answer'[t][1] = answer[t][1]
      <4> DEFINE s == answer[t]
                 v == answer'[t]
      <4>1. s \in Seq(Packet) /\ h \in Packet /\ v = Append(s, h) /\ s # <<>> /\ n = Len(s)
        BY <2>2, <3>1 DEF Prefix
      <4> HIDE DEF s, v, n, h
      <4>2. n \in Nat \ {0} /\ Len(v) = n + 1 /\ v # <<>> /\ v[n + 1] = h
            /\ (\A i \in 1 .. n : v[i] = s[i]) /\ v[1] = s[1]
        BY <4>1, AppendFacts
      <4> QED BY <4>2 DEF s, v
    <3>3. /\ n <= Wanted(request[t].op) /\ Wanted(request[t].op) <= Rest[request[t].op]
          /\ Wanted(request[t].op) \in Nat /\ Rest[request[t].op] \in Nat
      BY <1>0, <2>1, WantedType DEF WantsMore, Shape, Request
    <3>4. /\ h.call = answer[t][1].call /\ h.part = n
          /\ h.op = request[t].op /\ h.status = "ack"
      BY <3>1, <3>2 DEF Prefix, Continues
    <3>5. Prefix(t)'
      BY <2>1, <3>1, <3>2, <3>3, <3>4 DEF Prefix
    <3>6. ASSUME WantsMore(t)'
          PROVE  replies' # <<>> /\ Continues(answer'[t][Len(answer'[t])], replies'[1])
      <4>1. n + 1 <= Rest[request[t].op]
        BY <2>1, <3>2, <3>3, <3>6 DEF WantsMore
      <4>2. ~Final(h)
        BY <3>2, <3>3, <3>4, <4>1 DEF Final, Parts
      <4>3. Len(replies) # 1
        BY <2>2, <4>2 DEF Stream
      <4>4. 1 \in 1 .. Len(replies) - 1 /\ 1 \in 1 .. Len(replies')
        BY <2>2, <4>3
      <4>5. Follows(h, replies[2]) /\ replies'[1] = replies[2]
        BY <2>2, <4>4 DEF Stream
      <4> QED BY <2>2, <3>2, <4>2, <4>4, <4>5 DEF Follows, Continues
    <3> QED BY <3>5, <3>6
  <2> QED BY <1>5, <2>1, <2>2, <2>3, <2>4, <2>5 DEF Reading
<1> QED
  BY <1>1, <1>2, <1>3, <1>4, <1>6, <1>7, <1>8 DEF Next, Execute

-----------------------------------------------------------------------------
HostInv == TypeOK /\ Known /\ Stream /\ Pending /\ Reading

LEMMA InitHostInv == Init => HostInv
<1> SUFFICES ASSUME Init PROVE HostInv
  OBVIOUS
<1>1. Stream /\ Pending /\ Reading
  BY DEF Init, Stream, Pending, Reading
<1> QED BY <1>1, InitTypeOK, InitKnown DEF HostInv

THEOREM HostInvariant == Spec => []HostInv
<1>1. HostInv /\ [Next]_vars => HostInv'
  BY NextTypeOK, NextKnown, NextStream, NextPending, NextReading DEF HostInv
<1> QED BY <1>1, InitHostInv, PTL DEF Spec

\* The types, and that the mutex is held between lock and unlock only, on every
\* path out of XnHostProtocolExecute (XnHostProtocol.cpp 1114-1178).
THEOREM HostTypeOK == Spec => []TypeOK
<1>1. HostInv => TypeOK
  BY DEF HostInv
<1> QED BY <1>1, HostInvariant, PTL

\* With ids that were given once only, an accepted answer is to the call that
\* accepts it (XnHostProtocol.cpp 793-883, 1024-1080).
THEOREM AnswersAreMine == Spec => []AnswerIsMine
<1>1. HostInv => AnswerIsMine
  <2> SUFFICES ASSUME HostInv, UniqueIds, NEW t \in Threads, result[t] = "ok"
               PROVE  answer[t][1].call = request[t].call
    BY DEF AnswerIsMine
  <2>1. /\ <<answer[t][1].call, answer[t][1].id>> \in used
        /\ <<request[t].call, request[t].id>> \in used
        /\ answer[t][1].id = request[t].id
    BY DEF HostInv, Known, Tagged, Accepted
  <2> QED BY <2>1 DEF UniqueIds
<1> QED BY <1>1, HostInvariant, PTL

\* Without another reader meanwhile, a call returns one whole answer, however
\* long, whatever was left in the pipe before (XnHostProtocol.cpp 1188-1203).
THEOREM AnswersAreWhole == Spec => []AnswerIsWhole
<1>1. HostInv => AnswerIsWhole
  <2> SUFFICES ASSUME HostInv, NEW t \in Threads, result[t] = "ok", t \notin overtaken
               PROVE  /\ Len(answer[t]) = 1 + Wanted(request[t].op)
                      /\ \A i \in DOMAIN answer[t] :
                            /\ answer[t][i].call = answer[t][1].call
                            /\ answer[t][i].part = i - 1
    BY DEF AnswerIsWhole
  <2>1. Prefix(t) /\ ~WantsMore(t)
    BY DEF HostInv, Reading
  <2>2. answer[t] \in Seq(Packet) /\ Wanted(request[t].op) \in Nat
    BY WantedType DEF HostInv, TypeOK, Shape, Request
  <2>3. Len(answer[t]) \in Nat /\ DOMAIN answer[t] = 1 .. Len(answer[t])
    BY <2>2
  <2> QED BY <2>1, <2>2, <2>3 DEF Prefix, WantsMore
<1> QED BY <1>1, HostInvariant, PTL
=============================================================================
