---------------------------- MODULE HostProtocol ----------------------------
(***************************************************************************)
(* Commands to the PS1080 firmware (XnHostProtocol.cpp): threads that run  *)
(* XnHostProtocolExecute over one pair of USB pipes.  A request carries an *)
(* id; a late answer to a command that was given up stays in the pipe and  *)
(* is told from the awaited one by its id.                                 *)
(*                                                                         *)
(* Both pipes are FIFO.  A packet is the unit of a read: an answer is a    *)
(* header packet (part 0), and for an acknowledged command the packets of  *)
(* the rest of its data, which have no header.  Every packet carries, for  *)
(* the properties only, the number of the call it answers.                 *)
(***************************************************************************)
EXTENDS Integers, Sequences

CONSTANTS
    Threads,
    NoThread,           (* nobody holds the mutex *)
    Opcodes,
    Rest,               (* packets after the header in an answer, per opcode *)
    Silent,             (* opcodes whose caller passes no ppRelevantBuffer *)
    IdMod,              (* 2^16: nId is an XnUInt16 *)
    SendRetries,        (* XN_USB_HOST_PROTOCOL_SEND_RETRIES *)
    NotReadyRetries,    (* XN_HOST_PROTOCOL_NOT_READY_RETRIES *)
    MaxCalls,           (* bound: calls of all threads *)
    MaxQueue            (* bound: what is in a pipe when more is added *)

ASSUME HostAssumption ==
    /\ NoThread \notin Threads
    /\ Opcodes # {} /\ Rest \in [Opcodes -> Nat] /\ Silent \subseteq Opcodes
    /\ IdMod \in Nat \ {0} /\ MaxCalls \in Nat
    /\ SendRetries \in Nat \ {0} /\ NotReadyRetries \in Nat \ {0}

VARIABLES
    nId,            (* the static counter of XnHostProtocolInitHeader *)
    hExecuteMutex,  (* the thread that holds it *)
    pc,             (* where each thread is; "app" is outside Execute *)
    request,        (* the request of each thread *)
    sends,          (* what is left of nCounter in XnHostProtocolUSBSend *)
    attempts,       (* what is left of nRetriesLeft in Execute *)
    answer,         (* the packets each thread has accepted *)
    result,         (* what the last call of each thread returned *)
    requests,       (* the pipe to the device *)
    replies,        (* the pipe from the device *)
    calls,          (* history: how many calls there were *)
    used,           (* history: <<call, id>> of every request *)
    overtaken       (* history: threads whose data somebody may have read *)

threadVars == <<pc, request, sends, attempts, answer, result>>
pipeVars == <<requests, replies>>
historyVars == <<calls, used, overtaken>>
vars == <<nId, hExecuteMutex, threadVars, pipeVars, historyVars>>

Goto(t, label) == pc' = [pc EXCEPT ![t] = label]

\* Execute returns.
Return(t, status) ==
    /\ Goto(t, "app")
    /\ result' = [result EXCEPT ![t] = status]

NoRequest == [call |-> 0, id |-> 0, op |-> CHOOSE op \in Opcodes : TRUE]

Init ==
    /\ nId = 0 /\ hExecuteMutex = NoThread
    /\ pc = [t \in Threads |-> "app"]
    /\ request = [t \in Threads |-> NoRequest]
    /\ sends = [t \in Threads |-> SendRetries]
    /\ attempts = [t \in Threads |-> NotReadyRetries]
    /\ answer = [t \in Threads |-> <<>>]
    /\ result = [t \in Threads |-> "none"]
    /\ requests = <<>> /\ replies = <<>>
    /\ calls = 0 /\ used = {} /\ overtaken = {}

-----------------------------------------------------------------------------
(* Building the request, without a lock: nId++ is a read and a write. *)

XnHostProtocolInitHeader(t, op) ==
    /\ pc[t] = "app" /\ calls < MaxCalls
    /\ calls' = calls + 1
    /\ request' = [request EXCEPT ![t] = [call |-> calls + 1, id |-> nId, op |-> op]]
    /\ used' = used \cup {<<calls + 1, nId>>}
    /\ answer' = [answer EXCEPT ![t] = <<>>]
    /\ result' = [result EXCEPT ![t] = "none"]
    /\ overtaken' = overtaken \ {t}
    /\ Goto(t, "count")
    /\ UNCHANGED <<nId, hExecuteMutex, sends, attempts, pipeVars>>

\* Execute refuses a call when the device is known to be disconnected.
countId(t) ==
    /\ pc[t] = "count"
    /\ nId' = (request[t].id + 1) % IdMod
    /\ \/ Goto(t, "lock") /\ UNCHANGED result
       \/ Return(t, "error")
    /\ UNCHANGED <<hExecuteMutex, request, sends, attempts, answer, pipeVars, historyVars>>

-----------------------------------------------------------------------------
(* An attempt: lock, send, receive, unlock. *)

\* Mutant of lockMutex: a second thread gets in.
lockMutex_free(t) ==
    /\ pc[t] = "lock"
    /\ hExecuteMutex' = t
    /\ Goto(t, "send")
    /\ UNCHANGED <<nId, request, sends, attempts, answer, result, pipeVars, historyVars>>

lockMutex(t) ==
    /\ pc[t] = "lock" /\ hExecuteMutex = NoThread
    /\ hExecuteMutex' = t
    /\ Goto(t, "send")
    /\ UNCHANGED <<nId, request, sends, attempts, answer, result, pipeVars, historyVars>>

\* Mutant of giveUp: an error return that forgets the mutex.
giveUp_locked(t) == Return(t, "error") /\ UNCHANGED hExecuteMutex

\* Execute returns an error from within the attempt.
giveUp(t) == Return(t, "error") /\ hExecuteMutex' = NoThread

sendRequest(t) ==
    /\ pc[t] = "send" /\ Len(requests) < MaxQueue
    /\ requests' = Append(requests, request[t])
    /\ sends' = [sends EXCEPT ![t] = SendRetries]
    /\ Goto(t, "receive")
    /\ UNCHANGED <<nId, hExecuteMutex, request, attempts, answer, result,
                   replies, historyVars>>

\* Timeout or stall: the device may have the request all the same.
sendTimesOut(t) ==
    /\ pc[t] = "send"
    /\ \/ UNCHANGED requests
       \/ Len(requests) < MaxQueue /\ requests' = Append(requests, request[t])
    /\ IF sends[t] = 1
          THEN /\ giveUp(t) /\ sends' = [sends EXCEPT ![t] = SendRetries]
               /\ attempts' = [attempts EXCEPT ![t] = NotReadyRetries]
          ELSE /\ sends' = [sends EXCEPT ![t] = @ - 1]
               /\ UNCHANGED <<pc, result, hExecuteMutex, attempts>>
    /\ UNCHANGED <<nId, request, answer, replies, historyVars>>

\* Any other error of the pipe.
sendFails(t) ==
    /\ pc[t] = "send"
    /\ giveUp(t)
    /\ sends' = [sends EXCEPT ![t] = SendRetries]
    /\ attempts' = [attempts EXCEPT ![t] = NotReadyRetries]
    /\ UNCHANGED <<nId, request, answer, pipeVars, historyVars>>

\* A timeout, another error of the pipe, or 20 s without a magic.
receiveFails(t) ==
    /\ pc[t] = "receive"
    /\ giveUp(t)
    /\ attempts' = [attempts EXCEPT ![t] = NotReadyRetries]
    /\ UNCHANGED <<nId, request, sends, answer, pipeVars, historyVars>>

\* A packet leaves the pipe: threads that wait for data may lose theirs.
Read(t) ==
    /\ replies # <<>>
    /\ replies' = Tail(replies)
    /\ overtaken' = overtaken \cup {u \in Threads \ {t} : pc[u] = "rest"}
    /\ UNCHANGED <<requests, calls, used>>

IsHeader(packet) == packet.part = 0

\* Mutant of WrongId: an answer is recognised by its opcode alone.
WrongId_opcode(t, packet) == IsHeader(packet) /\ packet.op # request[t].op

\* ValidateReply: the id is looked at before the opcode and the status.
WrongId(t, packet) == IsHeader(packet) /\ packet.id # request[t].id

Awaited(t, packet) ==
    /\ IsHeader(packet) /\ ~WrongId(t, packet) /\ packet.op = request[t].op

\* A packet without magic is skipped until 20 s have passed, a wrong id always.
skipPacket(t) ==
    /\ pc[t] = "receive" /\ Read(t)
    /\ WrongId(t, Head(replies)) \/ ~IsHeader(Head(replies))
    /\ UNCHANGED <<nId, hExecuteMutex, threadVars>>

rejectPacket(t) ==
    /\ pc[t] = "receive" /\ Read(t)
    /\ ~WrongId(t, Head(replies))
    /\ ~Awaited(t, Head(replies)) \/ Head(replies).status = "nack"
    /\ giveUp(t)
    /\ attempts' = [attempts EXCEPT ![t] = NotReadyRetries]
    /\ UNCHANGED <<nId, request, sends, answer>>

\* The device is not ready: the same request again, a second later.
receiveNotReady(t) ==
    /\ pc[t] = "receive" /\ Read(t)
    /\ Awaited(t, Head(replies)) /\ Head(replies).status = "not ready"
    /\ hExecuteMutex' = NoThread
    /\ IF attempts[t] = 1
          THEN Return(t, "error") /\ attempts' = [attempts EXCEPT ![t] = NotReadyRetries]
          ELSE /\ Goto(t, "lock") /\ attempts' = [attempts EXCEPT ![t] = @ - 1]
               /\ UNCHANGED result
    /\ UNCHANGED <<nId, request, sends, answer>>

\* Accepted: the mutex is released before the rest of the data is read.
receiveReply(t) ==
    /\ pc[t] = "receive" /\ Read(t)
    /\ Awaited(t, Head(replies)) /\ Head(replies).status = "ack"
    /\ hExecuteMutex' = NoThread
    /\ answer' = [answer EXCEPT ![t] = <<Head(replies)>>]
    /\ attempts' = [attempts EXCEPT ![t] = NotReadyRetries]
    /\ Goto(t, "rest")
    /\ UNCHANGED <<nId, request, sends, result>>

\* How many packets after the header Execute reads.  Without a ppRelevantBuffer
\* it returns after the header, and what follows stays in the pipe.
Wanted(op) == IF op \in Silent THEN 0 ELSE Rest[op]

\* Mutant of WantsMore: nDataSize counts words, nRead bytes.
WantsMore_words(t) == Len(answer[t]) <= Wanted(request[t].op) \div 2

WantsMore(t) == Len(answer[t]) <= Wanted(request[t].op)

\* Get rest of data: whatever comes is taken, until there is enough.
readRest(t) ==
    /\ pc[t] = "rest" /\ WantsMore(t) /\ Read(t)
    /\ answer' = [answer EXCEPT ![t] = Append(@, Head(replies))]
    /\ UNCHANGED <<nId, hExecuteMutex, pc, request, sends, attempts, result>>

restFails(t) ==
    /\ pc[t] = "rest" /\ WantsMore(t)
    /\ Return(t, "error")
    /\ UNCHANGED <<nId, hExecuteMutex, request, sends, attempts, answer, pipeVars, historyVars>>

executeReturns(t) ==
    /\ pc[t] = "rest" /\ ~WantsMore(t)
    /\ Return(t, "ok")
    /\ UNCHANGED <<nId, hExecuteMutex, request, sends, attempts, answer, pipeVars, historyVars>>

Execute(t) ==
    \/ countId(t) \/ lockMutex(t)
    \/ sendRequest(t) \/ sendTimesOut(t) \/ sendFails(t) \/ receiveFails(t)
    \/ skipPacket(t) \/ rejectPacket(t) \/ receiveNotReady(t) \/ receiveReply(t)
    \/ readRest(t) \/ restFails(t) \/ executeReturns(t)

-----------------------------------------------------------------------------
(* The device, as the protocol expects it. *)

Statuses == {"ack", "nack", "not ready"}

Parts(r, status) == IF status = "ack" THEN Rest[r.op] ELSE 0

Reply(r, status) ==
    [i \in 1 .. 1 + Parts(r, status) |->
        [call |-> r.call, id |-> r.id, op |-> r.op, status |-> status,
         part |-> i - 1]]

serve ==
    /\ requests # <<>> /\ Len(replies) < MaxQueue
    /\ requests' = Tail(requests)
    /\ \E status \in Statuses :
           replies' = replies \o Reply(Head(requests), status)
    /\ UNCHANGED <<nId, hExecuteMutex, threadVars, historyVars>>

Next ==
    \/ serve
    \/ \E t \in Threads :
          Execute(t) \/ \E op \in Opcodes : XnHostProtocolInitHeader(t, op)

Spec == Init /\ [][Next]_vars

\* Every thread that is in a call goes on, and a read comes back, if only with
\* a timeout.  Nothing is assumed of the device.
FairSpec == Spec /\ \A t \in Threads : WF_vars(Execute(t))

-----------------------------------------------------------------------------
Ids == 0 .. IdMod - 1
Request == [call : Nat, id : Ids, op : Opcodes]
Packet == [call : Nat, id : Ids, op : Opcodes, part : Nat, status : Statuses]

Shape ==
    /\ nId \in Ids /\ calls \in Nat
    /\ pc \in [Threads -> {"app", "count", "lock", "send", "receive", "rest"}]
    /\ hExecuteMutex \in Threads \cup {NoThread}
    /\ request \in [Threads -> Request]
    /\ sends \in [Threads -> 1 .. SendRetries]
    /\ attempts \in [Threads -> 1 .. NotReadyRetries]
    /\ answer \in [Threads -> Seq(Packet)]
    /\ result \in [Threads -> {"none", "ok", "error"}]
    /\ requests \in Seq(Request) /\ replies \in Seq(Packet)
    /\ used \subseteq Nat \X Ids
    /\ overtaken \subseteq Threads

\* Types, and the mutex is held exactly by the thread between lock and unlock.
TypeOK ==
    /\ Shape
    /\ \A t \in Threads : hExecuteMutex = t <=> pc[t] \in {"send", "receive"}

\* No two requests so far had the same id: no race on nId, and no wrap.
UniqueIds == \A u, v \in used : u[2] = v[2] => u = v

\* As long as no id was given twice, a call that returns OK has accepted the
\* device's answer to itself: never the late answer to a command that another
\* thread, or the same, gave up after a timeout, nor one that it was sent twice
\* for (ValidateReplyV26, XnHostProtocolReceiveReply).
AnswerIsMine ==
    UniqueIds =>
        \A t \in Threads : result[t] = "ok" => answer[t][1].call = request[t].call

\* A call that returns OK has the whole of one answer, packet after packet (or
\* its header, where the caller wants no more), also when the pipe held the
\* remains of an answer that somebody gave up or did not want, unless another
\* command was executed while it read the rest of its data: that part of Execute
\* is outside the mutex.
AnswerIsWhole ==
    \A t \in Threads :
        result[t] = "ok" /\ t \notin overtaken =>
            /\ Len(answer[t]) = 1 + Wanted(request[t].op)
            /\ \A i \in DOMAIN answer[t] :
                   answer[t][i].call = answer[t][1].call /\ answer[t][i].part = i - 1

\* Every call returns, though the device may answer late, twice or not at all
\* and the other threads want the mutex too: no return keeps it locked, and
\* what is skipped is finite.
ExecuteReturns == \A t \in Threads : pc[t] = "lock" ~> pc[t] = "app"
=============================================================================
