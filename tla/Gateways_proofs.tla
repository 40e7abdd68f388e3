--------------------------- MODULE Gateways_proofs ---------------------------
(***************************************************************************)
(* First the S-GW, with any peers: its variables keep their types, and the   *)
(* MME is told what is true.  Then both gateways together: whose answer a    *)
(* deletion takes, and that they agree at rest.                              *)
(***************************************************************************)
EXTENDS Gateways, SequenceTheorems, TLAPS

-----------------------------------------------------------------------------
(* The S-GW.                                                                *)

\* What TypeOK says of the handlers' variables.
FramesType ==
  /\ pc \in [Handler -> {"idle", "lookup", "removeOld", "checkIEs", "registerS5", "relate",
                         "request", "send", "wait", "grant", "reject", "removeS11", "apply", "check",
                         "pass", "removeS5"}]
  /\ kind \in [Handler -> Requests \cup Responses \cup {"none"}]
  /\ near \in [Handler -> Session \cup {None}]
  /\ far \in [Handler -> Session \cup {None}]
  /\ num \in [Handler -> Int]
  /\ msg \in [Handler -> Message \cup {NoMessage}]

\* Which handlers come to a position.
Positions ==
  \A h \in Handler :
    /\ pc[h] \in {"lookup", "removeOld", "checkIEs", "registerS5"} =>
         kind[h] = "CreateSessionRequest"
    /\ pc[h] = "relate" => kind[h] \in (Requests \cup Responses) \ {"CreateSessionRequest"}
    /\ pc[h] \in {"request", "send", "wait", "grant", "reject"} =>
         kind[h] \in Requests \ {"ModifyBearerRequest"}
    /\ pc[h] = "removeS11" => kind[h] \in {"CreateSessionRequest", "DeleteSessionRequest"}
    /\ pc[h] = "check" => kind[h] = "DeleteBearerRequest"
    /\ pc[h] = "apply" => kind[h] \in {"CreateSessionResponse", "ModifyBearerRequest"}
    /\ pc[h] = "pass" => kind[h] \in Responses
    /\ pc[h] = "removeS5" => kind[h] = "DeleteSessionResponse"

\* S5 sessions that have learnt all that the P-GW's answer gives.
Known == ready \cap (reachable \cup WithoutFteid)

\* A handler has the sessions that it will use, and that of an answer has the request
\* that was answered.
Frames ==
  \A h \in Handler :
    /\ pc[h] \notin {"idle", "lookup", "removeOld", "checkIEs"} => near[h] \in Session
    /\ pc[h] \in {"removeOld", "request", "send", "wait", "grant", "reject", "check", "pass"} =>
         far[h] \in Session
    /\ kind[h] \in Responses =>
         /\ msg[h] \in sent
         /\ kind[h] = ResponseTo(msg[h].kind)
         /\ near[h] = msg[h].of
    /\ kind[h] = "CreateSessionResponse" /\ pc[h] \in {"relate", "pass"} =>
         near[h] \in Known

\* What a queue of the Conn may hold: requests that arrived there and were sent on to the
\* other Conn.  The answer to one that creates a session has been stored.
Carried(i) ==
  {r \in sent : Arrives(r.kind) = i /\ (r.kind = "CreateSessionRequest" => r.of \in Known)}

QueuesCarry == \A i \in Iface, s \in Session : queue[i][s] \in Seq(Carried(i))

\* The Conn on which a handler sends its request.
Sends(h) == Other(Arrives(kind[h]))

\* A number on a Conn stands for one request, which is sent or about to be, and numbers are
\* not above the counter.
NumbersOn(i) ==
  /\ \A r \in sent : Other(Arrives(r.kind)) = i =>
       /\ r.seq <= sequence[i]
       /\ \A q \in sent : Other(Arrives(q.kind)) = i /\ r.seq = q.seq => r = q
  /\ \A h \in Handler : pc[h] = "send" /\ Sends(h) = i =>
       /\ num[h] <= sequence[i]
       /\ \A r \in sent : Other(Arrives(r.kind)) = i => r.seq # num[h]
       /\ \A g \in Handler : pc[g] = "send" /\ Sends(g) = i /\ num[g] = num[h] => g = h

\* This is so as long as every DecSequence undoes the draw of its own handler.
NumbersUnique == \A i \in Iface \ outOfOrder : NumbersOn(i)

\* The creation of a session from when it is registered on S5 to when the MME is answered.
Creations ==
  \A h \in Handler : kind[h] = "CreateSessionRequest" =>
    /\ pc[h] \in {"request", "send", "wait", "grant", "reject"} => far[h] = near[h]
    /\ pc[h] = "wait" =>
         [kind |-> "CreateSessionRequest", of |-> near[h], seq |-> num[h]] \in sent
    /\ pc[h] = "grant" /\ "S5" \notin outOfOrder =>
         IsAnswer(h) /\ msg[h].of = near[h] /\ near[h] \in Known

\* The refusal of a session: the handler has it removed, or it is gone.  No other is
\* registered with its TEID later.
Refusals ==
  /\ refused \subseteq used
  /\ \A h \in Handler :
       /\ pc[h] = "idle" => near[h] = None
       /\ kind[h] = "CreateSessionRequest" /\ near[h] # None => near[h] \in used
  /\ \A s \in refused :
       \/ \E h \in Handler : pc[h] = "removeS11" /\ near[h] = s
       \/ s \notin byTeid["S11"] /\ byImsi["S11"] # s

\* The inductive invariant.  AcceptedByOwnAnswer alone says nothing of the way that an
\* answer takes: from the handler that has it, through the queue, to the one that waits.
IInv ==
  /\ TypeOK /\ Positions /\ Frames
  /\ QueuesCarry /\ NumbersUnique /\ Creations /\ Refusals
  /\ AcceptedIsReady

-----------------------------------------------------------------------------

\* An answer comes from where the request went, and goes back to where that came from.
LEMMA Routes ==
  /\ \A k \in Requests \cup Responses : Arrives(k) \in Iface /\ Other(Arrives(k)) \in Iface
  /\ \A k \in Requests \ {"ModifyBearerRequest"} :
       ResponseTo(k) \in Responses /\ Other(Arrives(ResponseTo(k))) = Arrives(k)
BY DEF Arrives, Other, Iface, Requests, Responses, ResponseTo

LEMMA EnqueueType ==
  ASSUME queue \in [Iface -> [Session -> Seq(Message)]],
         \A i \in Iface, s \in Session : Len(queue[i][s]) <= QueueCap,
         NEW i \in Iface, NEW s \in Session, NEW m \in Message, Enqueue(i, s, m)
  PROVE  /\ queue' \in [Iface -> [Session -> Seq(Message)]]
         /\ \A j \in Iface, t \in Session : Len(queue'[j][t]) <= QueueCap
         /\ \A j \in Iface, t \in Session :
              queue'[j][t] = IF j = i /\ t = s THEN Append(queue[j][t], m) ELSE queue[j][t]
<1>1. \A j \in Iface, t \in Session :
        queue'[j][t] = IF j = i /\ t = s THEN Append(queue[j][t], m) ELSE queue[j][t]
  BY DEF Enqueue
<1>2. /\ queue[i][s] \in Seq(Message)
      /\ Append(queue[i][s], m) \in Seq(Message)
      /\ Len(Append(queue[i][s], m)) = Len(queue[i][s]) + 1
  BY AppendProperties
<1>3. queue' \in [Iface -> [Session -> Seq(Message)]]
  BY <1>2 DEF Enqueue
<1>4. Len(queue[i][s]) + 1 <= QueueCap
  BY <1>2, GatewayAssumption, LenProperties DEF Enqueue
<1> QED
  BY <1>1, <1>2, <1>3, <1>4

LEMMA InitInv == Init => IInv
<1> SUFFICES ASSUME Init PROVE IInv
  OBVIOUS
<1>1. \A S : <<>> \in Seq(S) /\ Len(<<>>) = 0
  BY EmptySeq
<1>2. TypeOK
  <2>1. queue \in [Iface -> [Session -> Seq(Message)]]
    BY <1>1 DEF Init
  <2>2. \A i \in Iface, s \in Session : Len(queue[i][s]) <= QueueCap
    BY <1>1, GatewayAssumption DEF Init
  <2>3. FramesType
    BY DEF Init, FramesType, NoMessage
  <2>4. \A i \in Iface : sequence[i] <= MaxSeq[i]
    BY GatewayAssumption DEF Init
  <2> QED
    <3>1. sequence \in [Iface -> Int]
      BY DEF Init
    <3> QED
      BY <2>1, <2>2, <2>3, <2>4, <3>1 DEF Init, TypeOK, FramesType, Iface
<1>3. Positions /\ Frames /\ Creations
  BY DEF Init, Positions, Frames, Creations, Responses
<1>4. QueuesCarry
  BY <1>1 DEF Init, QueuesCarry
<1>5. NumbersUnique /\ Refusals /\ AcceptedIsReady
  BY DEF Init, NumbersUnique, NumbersOn, Refusals, AcceptedIsReady
<1> QED
  BY <1>2, <1>3, <1>4, <1>5 DEF IInv

-----------------------------------------------------------------------------

LEMMA ReturnType ==
  ASSUME TypeOK, NEW h \in Handler, Return(h)
  PROVE  FramesType'
BY DEF TypeOK, FramesType, Return, Goto

LEMMA StepType ==
  ASSUME IInv, NEW h \in Handler, Start(h) \/ Step(h)
  PROVE  TypeOK'
<1> USE GatewayAssumption
        DEF TypeOK, IInv, Goto, Return, NoMessage, conns, learnt, sessions, numbers,
           frames, told
<1>1. CASE StartCreate(h)
  BY <1>1 DEF StartCreate, Requests
<1>2. ASSUME NEW k \in Requests, NEW s \in Session, StartRequest(h, k, s)
      PROVE  TypeOK'
  BY <1>2 DEF StartRequest, AfterLookUp
<1>3. ASSUME NEW r \in sent, StartResponse(h, r)
      PROVE  TypeOK'
  <2>1. r \in Message /\ r.of \in Session /\ ResponseTo(r.kind) \in Responses
    BY Routes DEF Message
  <2> QED
    BY <1>3, <2>1 DEF StartResponse, AfterLookUp
<1>4. CASE Relate(h)
  <2>1. Other(Arrives(kind[h])) \in Iface
    BY <1>4, Routes DEF Relate, Positions
  <2>2. kind[h] \in Responses \cup {"DeleteSessionRequest", "DeleteBearerRequest",
                                     "ModifyBearerRequest"}
    BY <1>4 DEF Relate, Positions, Requests
  <2> QED
    BY <1>4, <2>1, <2>2 DEF Relate
<1>5. CASE RelateFails(h) \/ MissingIE(h) \/ BearerNotFound(h)
           \/ PassMessageTimesOut(h) \/ BearerNotModified(h)
  BY <1>5, ReturnType DEF RelateFails, MissingIE, BearerNotFound,
                          PassMessageTimesOut, BearerNotModified, FramesType
<1>20. CASE SendRequestFails(h)
  <2> DEFINE i == Other(Arrives(kind[h]))
  <2>1. i \in Iface
    BY <1>20, Routes DEF SendRequestFails, Positions
  <2>2. sequence' \in [Iface -> Int] /\ \A j \in Iface : sequence'[j] <= MaxSeq[j]
    BY <1>20, <2>1 DEF SendRequestFails
  <2>3. outOfOrder' \subseteq Iface
    BY <1>20, <2>1 DEF SendRequestFails
  <2>4. FramesType'
    BY <1>20, ReturnType DEF SendRequestFails
  <2> QED
    BY <1>20, <2>2, <2>3, <2>4 DEF SendRequestFails, FramesType
<1>15. CASE LookUpOld(h)
  BY <1>15 DEF LookUpOld, Previous, Iface
<1>16. CASE BearerFound(h) \/ WaitMessageTimesOut(h)
  BY <1>16 DEF BearerFound, WaitMessageTimesOut
<1>17. CASE GrantFails(h) \/ UnexpectedType(h)
  BY <1>17, ReturnType DEF GrantFails, UnexpectedType, FramesType
<1>6. CASE RemoveOld(h)
  BY <1>6 DEF RemoveOld, RemoveSession, Iface
<1>18. CASE RemoveS11(h) \/ RemoveS5(h) \/ CreateRefused(h)
  <2>1. /\ byImsi' \in [Iface -> Session \cup {None}]
        /\ byTeid' \in [Iface -> SUBSET Session]
    BY <1>18 DEF RemoveS11, RemoveS5, CreateRefused, RemoveSession, Iface
  <2>2. FramesType'
    BY <1>18, ReturnType DEF RemoveS11, RemoveS5, CreateRefused
  <2>3. ready' \subseteq Session /\ reachable' \subseteq Session
    BY <1>18 DEF RemoveS11, RemoveS5, CreateRefused, StoreAnswer, Frames
  <2> QED
    BY <1>18, <2>1, <2>2, <2>3 DEF RemoveS11, RemoveS5, CreateRefused, FramesType
<1>7. ASSUME NEW s \in Session, RegisterS11(h, s)
      PROVE  TypeOK'
  BY <1>7 DEF RegisterS11, RegisterSession, Iface
<1>8. CASE RegisterS5(h)
  BY <1>8 DEF RegisterS5, RegisterSession, Iface, Frames
<1>9. CASE IncSequence(h)
  <2> DEFINE i == Other(Arrives(kind[h]))
  <2>1. i \in Iface
    BY <1>9, Routes DEF IncSequence, Positions
  <2>2. sequence' \in [Iface -> Int] /\ \A j \in Iface : sequence'[j] <= MaxSeq[j]
    BY <1>9, <2>1 DEF IncSequence
  <2>3. num' \in [Handler -> Int]
    BY <1>9, <2>1 DEF IncSequence
  <2> QED
    BY <1>9, <2>2, <2>3 DEF IncSequence
<1>21. CASE SendRequest(h)
  <2> DEFINE r == [kind |-> kind[h], of |-> far[h], seq |-> num[h]]
  <2>1. kind[h] \in Requests \ {"ModifyBearerRequest"} /\ far[h] \in Session
    BY <1>21 DEF SendRequest, Positions, Frames
  <2>2. r \in Message
    BY <2>1 DEF Message
  <2>3. sent' \subseteq Message
    BY <1>21, <2>2 DEF SendRequest
  <2> QED
    BY <1>21, <2>3 DEF SendRequest
<1>10. CASE WaitMessage(h)
  <2> DEFINE i == Arrives(kind[h])
             q == queue[i][near[h]]
  <2>1. i \in Iface /\ near[h] \in Session
    BY <1>10, Routes DEF WaitMessage, Positions, Frames
  <2>2. q \in Seq(Message) /\ q # <<>>
    BY <1>10, <2>1 DEF WaitMessage
  <2>3. Head(q) \in Message /\ Tail(q) \in Seq(Message) /\ Len(Tail(q)) <= Len(q)
    BY <2>2, HeadTailProperties, LenProperties
  <2>4. queue' \in [Iface -> [Session -> Seq(Message)]]
    BY <1>10, <2>1, <2>3 DEF WaitMessage
  <2>5. \A j \in Iface, s \in Session : Len(queue'[j][s]) <= QueueCap
    BY <1>10, <2>1, <2>2, <2>3, LenProperties DEF WaitMessage
  <2>6. msg' \in [Handler -> Message \cup {NoMessage}]
    BY <1>10, <2>3 DEF WaitMessage
  <2> QED
    BY <1>10, <2>4, <2>5, <2>6 DEF WaitMessage
<1>11. CASE Grant(h) \/ Reject(h)
  <2>1. near[h] \in Session
    BY <1>11 DEF Grant, Reject, Frames
  <2>2. FramesType'
    BY <1>11, ReturnType DEF Grant, Reject, FramesType
  <2> QED
    BY <1>11, <2>1, <2>2 DEF Grant, Reject, FramesType
<1>12. CASE DeleteWithoutBearer(h) \/ ApplyWithoutBearer(h)
  BY <1>12 DEF DeleteWithoutBearer, ApplyWithoutBearer, Crash
<1>13. CASE CreateAccepted(h)
  BY <1>13 DEF CreateAccepted, StoreAnswer, Frames
<1>19. CASE ModifyBearer(h)
  <2>1. near[h] \in Session /\ far[h] \in Session
    BY <1>19 DEF ModifyBearer, Frames
  <2>2. relay' \subseteq Session \X Session
    BY <1>19, <2>1 DEF ModifyBearer
  <2> QED
    BY <1>19, <2>2, ReturnType DEF ModifyBearer, FramesType
<1>14. CASE PassMessageTo(h)
  <2>1. /\ Other(Arrives(kind[h])) \in Iface
        /\ far[h] \in Session /\ msg[h] \in Message
    BY <1>14, Routes DEF PassMessageTo, Positions, Frames
  <2>2. /\ queue' \in [Iface -> [Session -> Seq(Message)]]
        /\ \A j \in Iface, s \in Session : Len(queue'[j][s]) <= QueueCap
    BY <1>14, <2>1, EnqueueType DEF PassMessageTo
  <2> QED
    BY <1>14, <2>2, ReturnType DEF PassMessageTo, FramesType
<1> QED
  BY <1>1, <1>2, <1>3, <1>4, <1>5, <1>6, <1>7, <1>8, <1>9, <1>10, <1>11, <1>12, <1>13, <1>14,
     <1>15, <1>16, <1>17, <1>18, <1>19, <1>20, <1>21
     DEF Start, Step

-----------------------------------------------------------------------------

\* Where a handler goes on from "relate", case by case.
LEMMA RelateGoes ==
  ASSUME NEW h \in Handler, Relate(h),
         kind[h] \in (Requests \cup Responses) \ {"CreateSessionRequest"}
  PROVE  /\ kind[h] \in Responses => pc' = [pc EXCEPT ![h] = "pass"]
         /\ kind[h] = "DeleteSessionRequest" => pc' = [pc EXCEPT ![h] = "request"]
         /\ kind[h] = "DeleteBearerRequest" => pc' = [pc EXCEPT ![h] = "check"]
         /\ kind[h] = "ModifyBearerRequest" => pc' = [pc EXCEPT ![h] = "apply"]
<1>1. kind[h] \in Responses =>
        kind[h] \notin {"DeleteSessionRequest", "DeleteBearerRequest", "ModifyBearerRequest"}
  BY DEF Responses
<1> QED
  BY <1>1, Zenon DEF Relate, Goto

LEMMA StepPositions ==
  ASSUME IInv, NEW h \in Handler, Start(h) \/ Step(h)
  PROVE  Positions'
<1> USE DEF IInv, TypeOK, Positions, Goto, Return, frames
<1>1. CASE StartCreate(h)
  BY <1>1 DEF StartCreate
<1>2. ASSUME NEW k \in Requests \ {"CreateSessionRequest"}, NEW s \in Session,
             StartRequest(h, k, s)
      PROVE  Positions'
  BY <1>2 DEF StartRequest, AfterLookUp
<1>3. ASSUME NEW r \in sent, StartResponse(h, r)
      PROVE  Positions'
  <2>1. ResponseTo(r.kind) \in Responses /\ "CreateSessionRequest" \notin Responses
    BY Routes DEF Message, Responses
  <2> QED
    BY <1>3, <2>1 DEF StartResponse, AfterLookUp
<1>4. CASE Relate(h)
  <2>1. kind' = kind /\ kind[h] \in (Requests \cup Responses) \ {"CreateSessionRequest"}
    BY <1>4 DEF Relate
  <2>2. \A g \in Handler \ {h} : pc'[g] = pc[g]
    BY <1>4 DEF Relate
  <2> QED
    BY <1>4, <2>1, <2>2, RelateGoes DEF Requests, Responses
<1>5. CASE \/ RelateFails(h) \/ MissingIE(h) \/ SendRequestFails(h) \/ BearerNotFound(h)
           \/ PassMessageTimesOut(h) \/ ModifyBearer(h) \/ BearerNotModified(h)
           \/ RemoveS11(h) \/ RemoveS5(h) \/ CreateRefused(h)
  <2>1. Return(h)
    BY <1>5 DEF RelateFails, MissingIE, SendRequestFails, BearerNotFound,
                PassMessageTimesOut, ModifyBearer, BearerNotModified, RemoveS11, RemoveS5, CreateRefused
  <2> QED
    BY <2>1
<1>6. CASE \/ LookUpOld(h) \/ RemoveOld(h) \/ RegisterS5(h) \/ SendRequest(h)
           \/ IncSequence(h) \/ WaitMessageTimesOut(h) \/ CreateAccepted(h) \/ BearerFound(h)
  BY <1>6 DEF LookUpOld, RemoveOld, RegisterS5, SendRequest, IncSequence, WaitMessageTimesOut,
              CreateAccepted, BearerFound, Requests, Responses
<1>7. ASSUME NEW s \in Session, RegisterS11(h, s)
      PROVE  Positions'
  BY <1>7 DEF RegisterS11
<1>8. CASE WaitMessage(h) \/ GrantFails(h)
  BY <1>8 DEF WaitMessage, GrantFails
<1>12. CASE Reject(h) \/ PassMessageTo(h)
  BY <1>12 DEF Reject, PassMessageTo
<1>11. CASE Grant(h)
  BY <1>11 DEF Grant
<1>10. CASE UnexpectedType(h)
  BY <1>10 DEF UnexpectedType
<1>9. CASE DeleteWithoutBearer(h) \/ ApplyWithoutBearer(h)
  BY <1>9 DEF DeleteWithoutBearer, ApplyWithoutBearer, Crash
<1> QED
  BY <1>1, <1>2, <1>3, <1>4, <1>5, <1>6, <1>7, <1>8, <1>9, <1>10, <1>11, <1>12 DEF Start, Step

\* What only ever grows.
LEMMA Growing ==
  ASSUME IInv, NEW h \in Handler, Start(h) \/ Step(h)
  PROVE  sent \subseteq sent' /\ Known \subseteq Known' /\ outOfOrder \subseteq outOfOrder'
<1> USE DEF sessions, learnt, numbers, Known
<1>1. CASE SendRequest(h)
  BY <1>1 DEF SendRequest
<1>2. CASE CreateAccepted(h) \/ CreateRefused(h)
  BY <1>2 DEF CreateAccepted, CreateRefused, StoreAnswer
<1>3. CASE Start(h)
  BY <1>3 DEF Start, StartCreate, StartRequest, StartResponse
<1>4. CASE Step(h) /\ ~SendRequest(h) /\ ~CreateAccepted(h) /\ ~CreateRefused(h)
  BY <1>4 DEF Step, Relate, RelateFails, LookUpOld, RemoveOld, MissingIE, RegisterS11,
              RegisterS5, SendRequestFails, IncSequence, DeleteWithoutBearer, WaitMessage,
              WaitMessageTimesOut, Grant, GrantFails, UnexpectedType, Reject, RemoveS11,
              ModifyBearer, ApplyWithoutBearer, BearerNotModified, BearerNotFound, BearerFound, PassMessageTo,
              PassMessageTimesOut, RemoveS5
<1> QED
  BY <1>1, <1>2, <1>3, <1>4

LEMMA StepFrames ==
  ASSUME IInv, NEW h \in Handler, Start(h) \/ Step(h)
  PROVE  Frames'
<1> USE DEF IInv, TypeOK, Positions, Frames, Goto, Return, frames
<1>0. sent \subseteq sent' /\ Known \subseteq Known' /\ outOfOrder \subseteq outOfOrder'
  BY Growing
<1>1. CASE StartCreate(h)
  BY <1>0, <1>1 DEF StartCreate, Responses
<1>2. ASSUME NEW k \in Requests \ {"CreateSessionRequest"}, NEW s \in Session,
             StartRequest(h, k, s)
      PROVE  Frames'
  BY <1>0, <1>2 DEF StartRequest, AfterLookUp, Requests, Responses
<1>3. ASSUME NEW r \in sent, StartResponse(h, r)
      PROVE  Frames'
  BY <1>0, <1>3 DEF StartResponse, AfterLookUp, Message
<1>4. CASE Relate(h)
  <2>1. /\ kind' = kind /\ near' = near /\ msg' = msg
        /\ kind[h] \in (Requests \cup Responses) \ {"CreateSessionRequest"}
        /\ pc[h] = "relate"
    BY <1>4 DEF Relate
  <2>2. \A g \in Handler \ {h} : pc'[g] = pc[g] /\ far'[g] = far[g]
    BY <1>4 DEF Relate
  <2>3. far'[h] \in Session
    BY <1>4, <2>1, Routes DEF Relate
  <2>4. pc'[h] \in {"pass", "request", "check", "apply"}
    BY <1>4, <2>1, RelateGoes DEF Requests, Responses
  <2> QED
    BY <1>0, <2>1, <2>2, <2>3, <2>4
<1>5. CASE \/ RelateFails(h) \/ MissingIE(h) \/ SendRequestFails(h) \/ BearerNotFound(h)
           \/ PassMessageTimesOut(h) \/ ModifyBearer(h) \/ BearerNotModified(h)
           \/ RemoveS11(h) \/ RemoveS5(h) \/ CreateRefused(h)
  <2>1. Return(h)
    BY <1>5 DEF RelateFails, MissingIE, SendRequestFails, BearerNotFound,
                PassMessageTimesOut, ModifyBearer, BearerNotModified, RemoveS11, RemoveS5, CreateRefused
  <2> QED
    BY <1>0, <2>1 DEF Responses
<1>6. CASE LookUpOld(h) \/ RemoveOld(h) \/ WaitMessageTimesOut(h) \/ BearerFound(h)
  <2>1. CASE LookUpOld(h)
    BY <1>0, <2>1 DEF LookUpOld, Previous, Iface, Responses
  <2>2. CASE RemoveOld(h)
    BY <1>0, <2>2 DEF RemoveOld, Responses
  <2>3. CASE WaitMessageTimesOut(h)
    BY <1>0, <2>3 DEF WaitMessageTimesOut, Responses
  <2>4. CASE BearerFound(h)
    BY <1>0, <2>4 DEF BearerFound, Responses
  <2> QED
    BY <1>6, <2>1, <2>2, <2>3, <2>4
<1>7. ASSUME NEW s \in Session, RegisterS11(h, s)
      PROVE  Frames'
  BY <1>0, <1>7 DEF RegisterS11, Responses
<1>8. CASE RegisterS5(h) \/ IncSequence(h) \/ SendRequest(h)
  BY <1>0, <1>8 DEF RegisterS5, IncSequence, SendRequest, Requests, Responses
<1>10. CASE CreateAccepted(h)
  <2>1. near[h] \in Known'
    BY <1>10 DEF CreateAccepted, StoreAnswer, Known
  <2> QED
    BY <1>0, <1>10, <2>1 DEF CreateAccepted
<1>11. CASE WaitMessage(h)
  BY <1>0, <1>11 DEF WaitMessage, Requests, Responses
<1>12. CASE Grant(h) \/ GrantFails(h) \/ UnexpectedType(h) \/ Reject(h)
  <2>1. Return(h) \/ (Goto(h, "removeS11") /\ UNCHANGED <<kind, near, far, num, msg>>)
    BY <1>12 DEF Grant, GrantFails, UnexpectedType, Reject
  <2>2. near[h] \in Session /\ pc[h] \in {"grant", "reject"}
    BY <1>12 DEF Grant, GrantFails, UnexpectedType, Reject
  <2> QED
    <3>1. CASE Return(h)
      BY <1>0, <3>1 DEF Responses
    <3>2. CASE Goto(h, "removeS11") /\ UNCHANGED <<kind, near, far, num, msg>>
      BY <1>0, <2>2, <3>2 DEF Responses
    <3> QED
      BY <2>1, <3>1, <3>2
<1>13. CASE PassMessageTo(h)
  BY <1>0, <1>13 DEF PassMessageTo, Responses
<1>9. CASE DeleteWithoutBearer(h) \/ ApplyWithoutBearer(h)
  BY <1>0, <1>9 DEF DeleteWithoutBearer, ApplyWithoutBearer, Crash
<1> QED
  BY <1>1, <1>2, <1>3, <1>4, <1>5, <1>6, <1>7, <1>8, <1>9, <1>10, <1>11, <1>12, <1>13
     DEF Start, Step

-----------------------------------------------------------------------------

\* Which steps disturb what requests, queues and answers to the MME are.
LEMMA Untouched ==
  ASSUME NEW h \in Handler, Start(h) \/ Step(h)
  PROVE  /\ ~SendRequest(h) => UNCHANGED sent
         /\ ~IncSequence(h) /\ ~SendRequestFails(h) => UNCHANGED <<sequence, outOfOrder>>
         /\ ~WaitMessage(h) /\ ~PassMessageTo(h) => UNCHANGED queue
         /\ ~Grant(h) => UNCHANGED accepted
         /\ ~Reject(h) => UNCHANGED refused
<1> USE DEF told, numbers
<1>1. CASE Start(h)
  BY <1>1 DEF Start, StartCreate, StartRequest, StartResponse
<1>2. CASE \/ SendRequest(h) \/ IncSequence(h) \/ SendRequestFails(h)
           \/ WaitMessage(h) \/ PassMessageTo(h) \/ Grant(h) \/ Reject(h)
  BY <1>2 DEF SendRequest, IncSequence, SendRequestFails, WaitMessage, PassMessageTo, Grant,
              Reject
<1>3. CASE /\ Step(h) /\ ~SendRequest(h) /\ ~IncSequence(h) /\ ~SendRequestFails(h)
           /\ ~WaitMessage(h) /\ ~PassMessageTo(h) /\ ~Grant(h) /\ ~Reject(h)
  BY <1>3 DEF Step, Relate, RelateFails, LookUpOld, RemoveOld, MissingIE, RegisterS11,
              RegisterS5, DeleteWithoutBearer, WaitMessageTimesOut,
              GrantFails, UnexpectedType, RemoveS11, CreateRefused, CreateAccepted, ModifyBearer,
              BearerNotModified, ApplyWithoutBearer, BearerNotFound, BearerFound,
              PassMessageTimesOut, RemoveS5
<1> QED
  BY <1>1, <1>2, <1>3

\* What a queue holds has been put there by the handler of an answer.
LEMMA StepQueues ==
  ASSUME IInv, NEW h \in Handler, Start(h) \/ Step(h)
  PROVE  QueuesCarry'
<1> USE DEF IInv, TypeOK, QueuesCarry
<1>1. \A i \in Iface : Carried(i) \subseteq Carried(i)'
  BY Growing DEF Carried
<1>2. \A i \in Iface, s \in Session : queue[i][s] \in Seq(Carried(i)')
  BY <1>1, SeqMonotonic
<1>3. CASE WaitMessage(h)
  <2>1. PICK i \in Iface, s \in Session : i = Arrives(kind[h]) /\ s = near[h]
    BY <1>3, Routes DEF WaitMessage, Positions, Frames
  <2>2. Tail(queue[i][s]) \in Seq(Carried(i)')
    BY <1>2, <1>3, <2>1, HeadTailProperties DEF WaitMessage
  <2>3. \A j \in Iface, t \in Session :
          queue'[j][t] = IF j = i /\ t = s THEN Tail(queue[i][s]) ELSE queue[j][t]
    BY <1>3, <2>1 DEF WaitMessage
  <2> QED
    BY <1>2, <2>2, <2>3
<1>4. CASE PassMessageTo(h)
  <2>1. /\ kind[h] \in Responses /\ far[h] \in Session
        /\ msg[h] \in sent /\ kind[h] = ResponseTo(msg[h].kind) /\ near[h] = msg[h].of
        /\ kind[h] = "CreateSessionResponse" => near[h] \in Known
    BY <1>4 DEF PassMessageTo, Positions, Frames
  <2>2. msg[h] \in Message /\ msg[h].kind \in Requests \ {"ModifyBearerRequest"}
    BY <2>1 DEF Message
  <2>3. PICK i \in Iface, s \in Session, m \in Message :
          i = Other(Arrives(kind[h])) /\ s = far[h] /\ m = msg[h]
    BY <2>1, <2>2, Routes
  <2>4. m.kind = "CreateSessionRequest" => kind[h] = "CreateSessionResponse"
    BY <2>1, <2>3 DEF ResponseTo
  <2>5. m \in Carried(i)
    BY <2>1, <2>2, <2>3, <2>4, Routes DEF Carried
  <2>6. Append(queue[i][s], m) \in Seq(Carried(i)')
    <3>1. m \in Carried(i)' /\ queue[i][s] \in Seq(Carried(i)')
      BY <1>1, <1>2, <2>3, <2>5
    <3> QED
      BY <3>1, AppendProperties
  <2>7. \A j \in Iface, t \in Session :
          queue'[j][t] = IF j = i /\ t = s THEN Append(queue[j][t], m) ELSE queue[j][t]
    BY <1>4, <2>3, EnqueueType DEF PassMessageTo
  <2> QED
    BY <1>2, <2>6, <2>7
<1>5. CASE ~WaitMessage(h) /\ ~PassMessageTo(h)
  BY <1>2, <1>5, Untouched
<1> QED
  BY <1>3, <1>4, <1>5

\* The handler that creates a session takes the answer to its own request, or none, if
\* numbers are unique: what it finds in the queue has a number of the same Conn.
LEMMA OwnAnswer ==
  ASSUME IInv, NEW h \in Handler, WaitMessage(h), kind[h] = "CreateSessionRequest",
         pc'[h] = "grant", "S5" \notin outOfOrder
  PROVE  msg'[h].kind = kind[h] /\ msg'[h].of = near[h] /\ near[h] \in Known
<1> DEFINE q == queue["S11"][near[h]]
           own == [kind |-> "CreateSessionRequest", of |-> near[h], seq |-> num[h]]
<1>1. Arrives(kind[h]) = "S11" /\ near[h] \in Session /\ "S11" \in Iface /\ "S5" \in Iface
  BY DEF IInv, Frames, WaitMessage, Arrives, Iface
<1>2. q # <<>> /\ msg'[h] = Head(q) /\ Head(q).seq = num[h]
  BY <1>1 DEF WaitMessage, Answers, Goto, IInv, TypeOK
<1>3. Head(q) \in Carried("S11")
  BY <1>1, <1>2, HeadTailProperties DEF IInv, QueuesCarry
<1>4. own \in sent /\ Other(Arrives(own.kind)) = "S5"
  BY DEF IInv, Creations, WaitMessage, Arrives, Other
<1>5. NumbersOn("S5") /\ Head(q) \in sent /\ Other(Arrives(Head(q).kind)) = "S5"
  BY <1>1, <1>3 DEF IInv, NumbersUnique, Carried, Other
<1>6. Head(q) = own
  BY <1>2, <1>4, <1>5 DEF NumbersOn
<1> QED
  BY <1>2, <1>3, <1>6 DEF Carried

\* A handler changes no variable of another.
LEMMA OnlyItself ==
  ASSUME IInv, NEW h \in Handler, Start(h) \/ Step(h), NEW g \in Handler, g # h
  PROVE  UNCHANGED <<pc[g], kind[g], near[g], far[g], num[g], msg[g]>>
<1> USE DEF IInv, TypeOK, Goto, Return, frames
<1>1. CASE Start(h)
  BY <1>1 DEF Start, StartCreate, StartRequest, StartResponse
<1>2. CASE \/ RelateFails(h) \/ MissingIE(h) \/ SendRequestFails(h)
           \/ BearerNotFound(h) \/ PassMessageTimesOut(h) \/ ModifyBearer(h)
           \/ BearerNotModified(h) \/ RemoveS11(h) \/ RemoveS5(h) \/ CreateRefused(h)
  BY <1>2 DEF RelateFails, MissingIE, SendRequestFails, BearerNotFound,
              PassMessageTimesOut, ModifyBearer, BearerNotModified, RemoveS11, RemoveS5, CreateRefused
<1>3. CASE \/ LookUpOld(h) \/ RemoveOld(h) \/ WaitMessageTimesOut(h) \/ BearerFound(h)
           \/ \E s \in Session : RegisterS11(h, s)
           \/ RegisterS5(h) \/ SendRequest(h) \/ IncSequence(h) \/ CreateAccepted(h) \/ WaitMessage(h)
  BY <1>3 DEF LookUpOld, RemoveOld, WaitMessageTimesOut, BearerFound, RegisterS11,
              RegisterS5, SendRequest, IncSequence, CreateAccepted, WaitMessage
<1>4. CASE Grant(h) \/ GrantFails(h) \/ UnexpectedType(h) \/ Reject(h) \/ PassMessageTo(h)
  BY <1>4 DEF Grant, GrantFails, UnexpectedType, Reject, PassMessageTo
<1>5. CASE DeleteWithoutBearer(h) \/ ApplyWithoutBearer(h)
  BY <1>5 DEF DeleteWithoutBearer, ApplyWithoutBearer, Crash
<1>6. CASE Relate(h)
  BY <1>6 DEF Relate
<1> QED
  BY <1>1, <1>2, <1>3, <1>4, <1>5, <1>6 DEF Step

\* Who is about to send, and the number that it drew.
LEMMA StepSends ==
  ASSUME IInv, NEW h \in Handler, Start(h) \/ Step(h)
  PROVE  /\ \A g \in Handler \ {h} : UNCHANGED <<pc[g], kind[g], num[g]>>
         /\ ~IncSequence(h) /\ pc'[h] = "send" =>
              pc[h] = "send" /\ UNCHANGED <<kind[h], num[h]>>
<1>1. \A g \in Handler \ {h} : UNCHANGED <<pc[g], kind[g], num[g]>>
  BY OnlyItself
<1>2. ASSUME ~IncSequence(h), pc'[h] = "send"
      PROVE  pc[h] = "send" /\ UNCHANGED <<kind[h], num[h]>>
  <2> USE DEF IInv, TypeOK, Goto, Return, frames
  <2>1. CASE Start(h)
    BY <1>2, <2>1 DEF Start, StartCreate, StartRequest, StartResponse, AfterLookUp
  <2>2. CASE \/ RelateFails(h) \/ MissingIE(h) \/ SendRequestFails(h) \/ BearerNotFound(h)
             \/ PassMessageTimesOut(h) \/ ModifyBearer(h) \/ BearerNotModified(h)
             \/ RemoveS11(h) \/ RemoveS5(h) \/ CreateRefused(h)
    BY <1>2, <2>2 DEF RelateFails, MissingIE, SendRequestFails, BearerNotFound,
         PassMessageTimesOut, ModifyBearer, BearerNotModified, RemoveS11, RemoveS5, CreateRefused
  <2>3. CASE \/ LookUpOld(h) \/ RemoveOld(h) \/ WaitMessageTimesOut(h) \/ BearerFound(h)
             \/ \E s \in Session : RegisterS11(h, s)
             \/ RegisterS5(h) \/ SendRequest(h) \/ CreateAccepted(h) \/ WaitMessage(h)
    BY <1>2, <2>3 DEF LookUpOld, RemoveOld, WaitMessageTimesOut, BearerFound, RegisterS11,
                      RegisterS5, SendRequest, CreateAccepted, WaitMessage
  <2>4. CASE Grant(h) \/ GrantFails(h) \/ UnexpectedType(h) \/ Reject(h) \/ PassMessageTo(h)
    BY <1>2, <2>4 DEF Grant, GrantFails, UnexpectedType, Reject, PassMessageTo
  <2>5. CASE DeleteWithoutBearer(h) \/ ApplyWithoutBearer(h)
    BY <1>2, <2>5 DEF DeleteWithoutBearer, ApplyWithoutBearer, Crash
  <2>6. CASE Relate(h)
    <3>1. kind[h] \in (Requests \cup Responses) \ {"CreateSessionRequest"}
      BY <2>6 DEF Relate, Positions
    <3>2. pc'[h] \in {"pass", "request", "check", "apply"}
      BY <2>6, <3>1, RelateGoes DEF Requests, Responses, Relate
    <3> QED
      BY <1>2, <3>2
  <2> QED
    BY <1>2, <2>1, <2>2, <2>3, <2>4, <2>5, <2>6 DEF Step
<1> QED
  BY <1>1, <1>2

\* A number is drawn that its Conn has not used, unless one was given back out of order.
LEMMA DrawNumbers ==
  ASSUME IInv, NEW h \in Handler, IncSequence(h), NEW i \in Iface, NumbersOn(i)
  PROVE  NumbersOn(i)'
<1> USE DEF IInv, TypeOK
<1>0. \A r \in sent : r.seq \in Int
  BY DEF Message
<1>1. /\ sent' = sent /\ kind' = kind /\ Sends(h) \in Iface
      /\ sequence'[Sends(h)] = sequence[Sends(h)] + 1 /\ num'[h] = sequence[Sends(h)] + 1
      /\ \A j \in Iface \ {Sends(h)} : sequence'[j] = sequence[j]
  BY Routes DEF IncSequence, Positions, Sends
<1>2. \A g \in Handler \ {h} : pc'[g] = pc[g] /\ num'[g] = num[g]
  BY DEF IncSequence, Goto
<1>3. \A g \in Handler : Sends(g)' = Sends(g)
  BY <1>1 DEF Sends
<1>4. sequence[i] \in Int /\ sequence'[i] \in Int /\ sequence[i] <= sequence'[i]
  <2>1. sequence[i] \in Int
    OBVIOUS
  <2>2. CASE i = Sends(h)
    BY <1>1, <2>1, <2>2
  <2>3. CASE i # Sends(h)
    BY <1>1, <2>1, <2>3
  <2> QED
    BY <2>1, <2>2, <2>3
<1>5. \A g \in Handler : num[g] \in Int
  OBVIOUS
<1>6. ASSUME NEW r \in sent', Other(Arrives(r.kind)) = i
      PROVE  /\ r.seq <= sequence'[i]
             /\ \A q \in sent' : Other(Arrives(q.kind)) = i /\ r.seq = q.seq => r = q
  BY <1>0, <1>1, <1>4, <1>6 DEF NumbersOn
<1>7. ASSUME NEW g \in Handler, pc'[g] = "send", Sends(g)' = i
      PROVE  /\ num'[g] <= sequence'[i]
             /\ \A r \in sent' : Other(Arrives(r.kind)) = i => r.seq # num'[g]
             /\ \A f \in Handler : pc'[f] = "send" /\ Sends(f)' = i /\ num'[f] = num'[g] => f = g
  <2>1. CASE g = h
    <3>1. Sends(h) = i /\ num'[h] = sequence[i] + 1 /\ sequence'[i] = sequence[i] + 1
      BY <1>1, <1>3, <1>7, <2>1
    <3>2. \A r \in sent : Other(Arrives(r.kind)) = i => r.seq <= sequence[i]
      BY DEF NumbersOn
    <3>3. \A f \in Handler \ {h} : pc'[f] = "send" /\ Sends(f)' = i => num'[f] <= sequence[i]
      BY <1>2, <1>3 DEF NumbersOn
    <3>4. \A f \in Handler \ {h} : num'[f] \in Int
      BY <1>2
    <3> QED
      BY <1>0, <1>1, <1>4, <2>1, <3>1, <3>2, <3>3, <3>4
  <2>2. CASE g # h
    <3>1. /\ pc[g] = "send" /\ Sends(g) = i /\ num'[g] = num[g]
          /\ num[g] <= sequence[i] /\ num[g] \in Int
          /\ \A r \in sent : Other(Arrives(r.kind)) = i => r.seq # num[g]
      BY <1>2, <1>3, <1>7, <2>2 DEF NumbersOn
    <3>2. ASSUME NEW f \in Handler, pc'[f] = "send", Sends(f)' = i, num'[f] = num'[g]
          PROVE  f = g
      <4>1. CASE f = h
        <5>1. num'[f] = sequence[i] + 1
          BY <1>1, <1>3, <3>2, <4>1
        <5> QED
          BY <1>4, <3>1, <3>2, <5>1
      <4>2. CASE f # h
        BY <1>2, <1>3, <3>1, <3>2, <4>2 DEF NumbersOn
      <4> QED
        BY <4>1, <4>2
    <3> QED
      BY <1>1, <1>4, <3>1, <3>2
  <2> QED
    BY <2>1, <2>2
<1> QED
  BY <1>6, <1>7 DEF NumbersOn

\* The request that is sent carries the number that its handler alone had drawn.
LEMMA SendNumbers ==
  ASSUME IInv, NEW h \in Handler, SendRequest(h), NEW i \in Iface, NumbersOn(i)
  PROVE  NumbersOn(i)'
<1> DEFINE new == [kind |-> kind[h], of |-> far[h], seq |-> num[h]]
<1> USE DEF IInv, TypeOK
<1>1. /\ sequence' = sequence /\ kind' = kind /\ num' = num /\ sent' \subseteq sent \cup {new}
      /\ pc[h] = "send" /\ pc'[h] = "wait"
  BY DEF SendRequest, Goto, numbers
<1>2. \A g \in Handler : Sends(g)' = Sends(g) /\ (pc'[g] = "send" => pc[g] = "send" /\ g # h)
  BY <1>1 DEF Sends, SendRequest, Goto
<1>3. new.seq = num[h] /\ Other(Arrives(new.kind)) = Sends(h)
  BY DEF Sends
<1> HIDE DEF new
<1>4. ASSUME NEW r \in sent', Other(Arrives(r.kind)) = i
      PROVE  /\ r.seq <= sequence'[i]
             /\ \A q \in sent' : Other(Arrives(q.kind)) = i /\ r.seq = q.seq => r = q
  <2>1. CASE r = new
    BY <1>1, <1>3, <1>4, <2>1 DEF NumbersOn
  <2>2. CASE r # new
    <3>1. r \in sent
      BY <1>1, <1>4, <2>2
    <3> QED
      BY <1>1, <1>3, <1>4, <3>1 DEF NumbersOn
  <2> QED
    BY <2>1, <2>2
<1>5. ASSUME NEW g \in Handler, pc'[g] = "send", Sends(g)' = i
      PROVE  /\ num'[g] <= sequence'[i]
             /\ \A r \in sent' : Other(Arrives(r.kind)) = i => r.seq # num'[g]
             /\ \A f \in Handler : pc'[f] = "send" /\ Sends(f)' = i /\ num'[f] = num'[g] => f = g
  <2>1. pc[g] = "send" /\ Sends(g) = i /\ g # h /\ num'[g] = num[g]
    BY <1>1, <1>2, <1>5
  <2>2. ASSUME NEW r \in sent', Other(Arrives(r.kind)) = i
        PROVE  r.seq # num[g]
    BY <1>1, <1>3, <2>1, <2>2 DEF NumbersOn
  <2>3. \A f \in Handler : pc'[f] = "send" /\ Sends(f)' = i /\ num'[f] = num'[g] => f = g
    BY <1>1, <1>2, <2>1 DEF NumbersOn
  <2> QED
    BY <1>1, <2>1, <2>2, <2>3 DEF NumbersOn
<1> QED
  BY <1>4, <1>5 DEF NumbersOn

\* A number that is given back was the last one drawn, and no other request has it.
LEMMA ReturnNumbers ==
  ASSUME IInv, NEW h \in Handler, SendRequestFails(h), NEW i \in Iface \ outOfOrder',
         NumbersOn(i)
  PROVE  NumbersOn(i)'
<1> USE DEF IInv, TypeOK
<1>0. \A r \in sent : r.seq \in Int
  BY DEF Message
<1>1. /\ sent' = sent /\ pc[h] = "send" /\ pc'[h] = "idle" /\ Sends(h) \in Iface
      /\ sequence'[Sends(h)] = sequence[Sends(h)] - 1
      /\ \A j \in Iface \ {Sends(h)} : sequence'[j] = sequence[j]
      /\ i = Sends(h) => sequence[i] = num[h]
  BY Routes DEF SendRequestFails, Positions, Sends, Return, Goto
<1>2. \A g \in Handler \ {h} : UNCHANGED <<pc[g], kind[g], num[g]>>
  BY DEF SendRequestFails, Return, Goto
<1>3. sequence[i] \in Int /\ sequence'[i] \in Int /\ num[h] \in Int
  BY <1>1
<1>4. \A n \in Int : n <= sequence[i] /\ (i = Sends(h) => n # num[h]) => n <= sequence'[i]
  BY <1>1, <1>3
<1> HIDE DEF IInv, TypeOK
<1>5. ASSUME NEW r \in sent', Other(Arrives(r.kind)) = i
      PROVE  /\ r.seq <= sequence'[i]
             /\ \A q \in sent' : Other(Arrives(q.kind)) = i /\ r.seq = q.seq => r = q
  <2>1. r \in sent /\ r.seq \in Int /\ r.seq <= sequence[i] /\ (i = Sends(h) => r.seq # num[h])
    BY <1>0, <1>1, <1>5 DEF NumbersOn
  <2>2. r.seq <= sequence'[i]
    BY <1>4, <2>1
  <2> QED
    BY <1>1, <1>5, <2>1, <2>2 DEF NumbersOn
<1>6. ASSUME NEW g \in Handler, pc'[g] = "send", Sends(g)' = i
      PROVE  /\ num'[g] <= sequence'[i]
             /\ \A r \in sent' : Other(Arrives(r.kind)) = i => r.seq # num'[g]
             /\ \A f \in Handler : pc'[f] = "send" /\ Sends(f)' = i /\ num'[f] = num'[g] => f = g
  <2>1. g # h
    BY <1>1, <1>6
  <2>2. \A f \in Handler \ {h} : pc'[f] = pc[f] /\ num'[f] = num[f] /\ Sends(f)' = Sends(f)
    BY <1>2 DEF Sends
  <2>3. pc[g] = "send" /\ Sends(g) = i /\ num[g] \in Int
    BY <1>6, <2>1, <2>2 DEF IInv, TypeOK
  <2>4. num[g] <= sequence[i] /\ (i = Sends(h) => num[g] # num[h])
    BY <1>1, <2>1, <2>3 DEF NumbersOn
  <2>5. num[g] <= sequence'[i]
    BY <1>4, <2>3, <2>4
  <2>6. \A f \in Handler : pc'[f] = "send" /\ Sends(f)' = i /\ num'[f] = num'[g] => f = g
    BY <1>1, <2>1, <2>2, <2>3 DEF NumbersOn
  <2> QED
    BY <1>1, <2>1, <2>2, <2>3, <2>5, <2>6 DEF NumbersOn
<1> QED
  BY <1>5, <1>6 DEF NumbersOn

LEMMA StepNumbers ==
  ASSUME IInv, NEW h \in Handler, Start(h) \/ Step(h)
  PROVE  NumbersUnique'
<1> SUFFICES ASSUME NEW i \in Iface, i \notin outOfOrder'
             PROVE  NumbersOn(i)'
  BY DEF NumbersUnique
<1>1. i \notin outOfOrder /\ NumbersOn(i)
  BY Growing DEF IInv, NumbersUnique
<1>2. CASE IncSequence(h)
  BY <1>1, <1>2, DrawNumbers
<1>3. CASE SendRequest(h)
  BY <1>1, <1>3, SendNumbers
<1>4. CASE SendRequestFails(h)
  BY <1>1, <1>4, ReturnNumbers
<1>5. CASE ~IncSequence(h) /\ ~SendRequest(h) /\ ~SendRequestFails(h)
  <2>1. sent' = sent /\ sequence' = sequence
    BY <1>5, Untouched
  <2>2. \A g \in Handler : pc'[g] = "send" =>
          pc[g] = "send" /\ num'[g] = num[g] /\ Sends(g)' = Sends(g)
    BY <1>5, StepSends DEF Sends
  <2> QED
    BY <1>1, <2>1, <2>2 DEF NumbersOn
<1> QED
  BY <1>2, <1>3, <1>4, <1>5

LEMMA StepCreations ==
  ASSUME IInv, NEW h \in Handler, Start(h) \/ Step(h)
  PROVE  Creations'
<1> USE DEF IInv, TypeOK, Goto, Return, frames, IsAnswer
<1>0. sent \subseteq sent' /\ Known \subseteq Known' /\ outOfOrder \subseteq outOfOrder'
  BY Growing
<1> SUFFICES ASSUME NEW g \in Handler, kind'[g] = "CreateSessionRequest"
             PROVE  /\ pc'[g] \in {"request", "send", "wait", "grant", "reject"} =>
                         far'[g] = near'[g]
                    /\ pc'[g] = "wait" =>
                         [kind |-> "CreateSessionRequest", of |-> near'[g],
                          seq |-> num'[g]] \in sent'
                    /\ pc'[g] = "grant" /\ "S5" \notin outOfOrder' =>
                         IsAnswer(g)' /\ msg'[g].of = near'[g] /\ near'[g] \in Known'
  BY DEF Creations
<1>1. CASE UNCHANGED <<pc[g], kind[g], near[g], far[g], num[g], msg[g]>>
  BY <1>0, <1>1 DEF Creations
<1>2. CASE g # h
  <2>1. UNCHANGED <<pc[g], kind[g], near[g], far[g], num[g], msg[g]>>
    BY <1>2, OnlyItself
  <2> QED
    BY <1>1, <2>1
<1>3. CASE g = h /\ WaitMessage(h)
  <2>1. pc'[h] \in {"grant", "reject"} /\ UNCHANGED <<kind, near, far>>
    BY <1>3 DEF WaitMessage
  <2>2. far[h] = near[h]
    BY <1>3, <2>1 DEF WaitMessage, Creations
  <2> QED
    BY <1>0, <1>3, <2>1, <2>2, OwnAnswer
<1>4. CASE g = h /\ SendRequest(h)
  <2>1. far[h] = near[h] /\ kind[h] = "CreateSessionRequest"
    BY <1>3, <1>4 DEF SendRequest, Creations
  <2> QED
    BY <1>4, <2>1 DEF SendRequest
<1>8. CASE g = h /\ IncSequence(h)
  BY <1>8 DEF IncSequence, Creations
<1>5. CASE g = h /\ (RegisterS5(h) \/ WaitMessageTimesOut(h))
  BY <1>5 DEF RegisterS5, WaitMessageTimesOut, Creations, Frames
<1>6. CASE /\ g = h
           /\ pc'[h] \notin {"request", "send", "wait", "grant", "reject"}
  BY <1>6
<1>7. CASE /\ g = h /\ ~WaitMessage(h) /\ ~SendRequest(h) /\ ~IncSequence(h)
           /\ ~RegisterS5(h) /\ ~WaitMessageTimesOut(h)
           /\ pc'[h] \in {"request", "send", "wait", "grant", "reject"}
  <2>1. Relate(h) \/ BearerFound(h) \/ DeleteWithoutBearer(h) \/ ApplyWithoutBearer(h)
    <3>1. CASE Start(h)
      BY <1>7, <3>1 DEF Start, StartCreate, StartRequest, StartResponse, AfterLookUp
    <3>2. CASE \/ RelateFails(h) \/ MissingIE(h) \/ SendRequestFails(h)
               \/ BearerNotFound(h) \/ PassMessageTimesOut(h) \/ ModifyBearer(h)
               \/ BearerNotModified(h) \/ RemoveS11(h) \/ RemoveS5(h) \/ CreateRefused(h)
      BY <1>7, <3>2 DEF RelateFails, MissingIE, SendRequestFails, BearerNotFound,
                        PassMessageTimesOut, ModifyBearer, BearerNotModified, RemoveS11, RemoveS5,
                        CreateRefused
    <3>3. CASE \/ LookUpOld(h) \/ RemoveOld(h) \/ CreateAccepted(h)
               \/ \E s \in Session : RegisterS11(h, s)
      BY <1>7, <3>3 DEF LookUpOld, RemoveOld, RegisterS11, CreateAccepted
    <3>4. CASE Grant(h) \/ GrantFails(h) \/ UnexpectedType(h) \/ Reject(h) \/ PassMessageTo(h)
      BY <1>7, <3>4 DEF Grant, GrantFails, UnexpectedType, Reject, PassMessageTo
    <3> QED
      BY <1>7, <3>1, <3>2, <3>3, <3>4 DEF Step
  <2>2. kind'[h] = kind[h]
    BY <2>1 DEF Relate, BearerFound, DeleteWithoutBearer, ApplyWithoutBearer, Crash
  <2>3. DeleteWithoutBearer(h) \/ ApplyWithoutBearer(h)
    BY <1>7, <2>1, <2>2 DEF Relate, BearerFound, Positions
  <2> QED
    BY <1>1, <1>7, <2>3 DEF DeleteWithoutBearer, ApplyWithoutBearer, Crash
<1> QED
  BY <1>2, <1>3, <1>4, <1>5, <1>6, <1>7, <1>8

\* What a handler's own session may become: it is registered on S11 as a new one, and
\* given up only when it is removed there.
LEMMA StepNear ==
  ASSUME IInv, NEW h \in Handler, Start(h) \/ Step(h),
         ~\E s \in Session : RegisterS11(h, s)
  PROVE  /\ pc'[h] = "idle" => near'[h] = None
         /\ kind'[h] = "CreateSessionRequest" =>
              \/ near'[h] = None
              \/ kind[h] = "CreateSessionRequest" /\ near'[h] = near[h]
         /\ pc[h] = "removeS11" /\ ~RemoveS11(h) => UNCHANGED <<pc[h], near[h]>>
<1> USE DEF IInv, TypeOK, Goto, Return, frames
<1>1. CASE StartCreate(h)
  BY <1>1 DEF StartCreate, Refusals
<1>2. CASE \E k \in Requests \ {"CreateSessionRequest"}, s \in Session : StartRequest(h, k, s)
  BY <1>2 DEF StartRequest, AfterLookUp
<1>3. ASSUME NEW r \in sent, StartResponse(h, r)
      PROVE  /\ pc[h] = "idle" /\ pc'[h] # "idle"
             /\ kind'[h] # "CreateSessionRequest"
  <2>1. ResponseTo(r.kind) \in Responses /\ "CreateSessionRequest" \notin Responses
    BY Routes DEF Message, Responses
  <2> QED
    BY <1>3, <2>1 DEF StartResponse, AfterLookUp
<1>4. CASE \/ RelateFails(h) \/ MissingIE(h) \/ SendRequestFails(h)
           \/ BearerNotFound(h) \/ PassMessageTimesOut(h) \/ ModifyBearer(h)
           \/ BearerNotModified(h) \/ RemoveS11(h) \/ RemoveS5(h) \/ CreateRefused(h)
  BY <1>4 DEF RelateFails, MissingIE, SendRequestFails, BearerNotFound,
              PassMessageTimesOut, ModifyBearer, BearerNotModified, RemoveS11, RemoveS5, CreateRefused
<1>5. CASE \/ LookUpOld(h) \/ RemoveOld(h) \/ WaitMessageTimesOut(h) \/ BearerFound(h)
           \/ RegisterS5(h) \/ SendRequest(h) \/ IncSequence(h) \/ CreateAccepted(h) \/ WaitMessage(h)
  BY <1>5 DEF LookUpOld, RemoveOld, WaitMessageTimesOut, BearerFound,
              RegisterS5, SendRequest, IncSequence, CreateAccepted, WaitMessage
<1>6. CASE Grant(h) \/ GrantFails(h) \/ UnexpectedType(h) \/ Reject(h) \/ PassMessageTo(h)
  BY <1>6 DEF Grant, GrantFails, UnexpectedType, Reject, PassMessageTo
<1>7. CASE DeleteWithoutBearer(h) \/ ApplyWithoutBearer(h)
  BY <1>7 DEF DeleteWithoutBearer, ApplyWithoutBearer, Crash, Refusals
<1>8. CASE Relate(h)
  <2>1. /\ kind' = kind /\ near' = near /\ pc[h] = "relate"
        /\ kind[h] \in (Requests \cup Responses) \ {"CreateSessionRequest"}
    BY <1>8 DEF Relate, Positions
  <2>2. pc'[h] \in {"pass", "request", "check", "apply"}
    BY <1>8, <2>1, RelateGoes DEF Requests, Responses
  <2> QED
    BY <2>1, <2>2
<1> QED
  BY <1>1, <1>2, <1>3, <1>4, <1>5, <1>6, <1>7, <1>8 DEF Start, Step

\* A session is registered on S11 by the handler that makes it, and by no other.
LEMMA RegisteredOnce ==
  ASSUME IInv, NEW h \in Handler, Start(h) \/ Step(h),
         ~\E s \in Session : RegisterS11(h, s)
  PROVE  /\ used' = used /\ byTeid'["S11"] \subseteq byTeid["S11"]
         /\ byImsi'["S11"] \in {byImsi["S11"], None}
<1> USE DEF IInv, TypeOK
<1>1. CASE RegisterS5(h)
  BY <1>1 DEF RegisterS5, RegisterSession, Iface
<1>2. CASE RemoveS5(h) \/ CreateRefused(h) \/ RemoveOld(h) \/ RemoveS11(h)
  BY <1>2 DEF RemoveS5, CreateRefused, RemoveOld, RemoveS11, RemoveSession, Iface, conns
<1>3. CASE Start(h)
  BY <1>3 DEF Start, StartCreate, StartRequest, StartResponse, conns
<1>4. CASE /\ ~Start(h) /\ ~RegisterS5(h) /\ ~RemoveS5(h) /\ ~CreateRefused(h)
           /\ ~RemoveOld(h) /\ ~RemoveS11(h)
  BY <1>4 DEF Step, conns, Relate, RelateFails, LookUpOld, MissingIE,
       SendRequest, SendRequestFails, IncSequence, DeleteWithoutBearer, WaitMessage,
       WaitMessageTimesOut, Grant, GrantFails, UnexpectedType, Reject, CreateAccepted, ModifyBearer,
       ApplyWithoutBearer, BearerNotModified, BearerNotFound, BearerFound, PassMessageTo,
       PassMessageTimesOut
<1> QED
  BY <1>1, <1>2, <1>3, <1>4

\* A session that is refused is removed by the handler that refuses it, and another
\* registration is of another session.
LEMMA StepRefusals ==
  ASSUME IInv, NEW h \in Handler, Start(h) \/ Step(h)
  PROVE  Refusals'
<1> USE DEF IInv, TypeOK
<1>0. \A g \in Handler \ {h} : UNCHANGED <<pc[g], kind[g], near[g]>>
  BY OnlyItself
<1>1. CASE \E s \in Session : RegisterS11(h, s)
  <2>1. PICK s \in Session : RegisterS11(h, s)
    BY <1>1
  <2>2. /\ s \notin used /\ used' = used \cup {s} /\ refused' = refused
        /\ byImsi'["S11"] = s /\ byTeid'["S11"] = byTeid["S11"] \cup {s}
        /\ near'[h] = s /\ pc[h] = "checkIEs" /\ pc'[h] # "idle"
    BY <2>1 DEF RegisterS11, RegisterSession, Iface, told, Goto
  <2>3. ASSUME NEW t \in refused'
        PROVE  \/ \E g \in Handler : pc'[g] = "removeS11" /\ near'[g] = t
               \/ t \notin byTeid'["S11"] /\ byImsi'["S11"] # t
    <3>1. CASE \E g \in Handler : pc[g] = "removeS11" /\ near[g] = t
      BY <1>0, <2>2, <3>1
    <3>2. CASE ~\E g \in Handler : pc[g] = "removeS11" /\ near[g] = t
      <4>1. t \in used /\ t \notin byTeid["S11"]
        BY <2>2, <2>3, <3>2 DEF Refusals
      <4> QED
        BY <2>2, <4>1
    <3> QED
      BY <3>1, <3>2
  <2>4. \A g \in Handler :
          /\ pc'[g] = "idle" => near'[g] = None
          /\ kind'[g] = "CreateSessionRequest" /\ near'[g] # None => near'[g] \in used'
    BY <1>0, <2>2 DEF Refusals
  <2> QED
    BY <2>2, <2>3, <2>4 DEF Refusals
<1>2. CASE ~\E s \in Session : RegisterS11(h, s)
  <2>1. /\ used' = used /\ byTeid'["S11"] \subseteq byTeid["S11"]
        /\ byImsi'["S11"] \in {byImsi["S11"], None}
    BY <1>2, RegisteredOnce
  <2>2. \A g \in Handler :
          /\ pc'[g] = "idle" => near'[g] = None
          /\ kind'[g] = "CreateSessionRequest" /\ near'[g] # None => near'[g] \in used'
    <3>1. \A g \in Handler :
            \/ kind'[g] = "CreateSessionRequest" => near'[g] = None
            \/ kind[g] = "CreateSessionRequest" /\ near'[g] = near[g]
      BY <1>0, <1>2, StepNear
    <3>2. \A g \in Handler : pc'[g] = "idle" => near'[g] = None
      <4>1. pc'[h] = "idle" => near'[h] = None
        BY <1>2, StepNear
      <4>2. ASSUME NEW g \in Handler, g # h, pc'[g] = "idle"
            PROVE  near'[g] = None
        BY <1>0, <4>2 DEF Refusals
      <4> QED
        BY <4>1, <4>2
    <3> QED
      BY <2>1, <3>1, <3>2 DEF Refusals
  <2>3. ASSUME NEW t \in refused
        PROVE  \/ \E g \in Handler : pc'[g] = "removeS11" /\ near'[g] = t
               \/ t \notin byTeid'["S11"] /\ byImsi'["S11"] # t
    <3>1. t # None
      BY GatewayAssumption
    <3>2. CASE t \notin byTeid["S11"] /\ byImsi["S11"] # t
      BY <2>1, <3>1, <3>2
    <3>3. CASE \E g \in Handler : pc[g] = "removeS11" /\ near[g] = t
      <4>1. PICK g \in Handler : pc[g] = "removeS11" /\ near[g] = t
        BY <3>3
      <4>2. CASE g = h /\ RemoveS11(h)
        BY <3>1, <4>1, <4>2 DEF RemoveS11, RemoveSession, Iface
      <4>3. CASE ~(g = h /\ RemoveS11(h))
        BY <1>0, <1>2, <4>1, <4>3, StepNear
      <4> QED
        BY <4>2, <4>3
    <3> QED
      BY <3>2, <3>3 DEF Refusals
  <2>4. CASE refused' = refused
    BY <2>1, <2>2, <2>3, <2>4 DEF Refusals
  <2>5. CASE refused' # refused
    <3>1. /\ Reject(h) /\ kind[h] = "CreateSessionRequest" /\ near[h] \in Session
          /\ pc'[h] = "removeS11" /\ near'[h] = near[h]
          /\ refused' = refused \cup {near[h]}
      BY <2>5, Untouched DEF Reject, Goto, Frames, told
    <3>2. near[h] \in used
      BY <3>1, GatewayAssumption DEF Refusals
    <3> QED
      BY <2>1, <2>2, <2>3, <3>1, <3>2 DEF Refusals
  <2> QED
    BY <2>4, <2>5
<1> QED
  BY <1>1, <1>2

\* The MME is told of a session when the P-GW's answer to its own request is in.
LEMMA StepReady ==
  ASSUME IInv, NEW h \in Handler, Start(h) \/ Step(h)
  PROVE  AcceptedIsReady'
<1>1. Known \subseteq Known' /\ outOfOrder \subseteq outOfOrder'
  BY Growing
<1>2. "S5" \notin outOfOrder => accepted \subseteq Known
  BY DEF IInv, AcceptedIsReady, Known
<1>3. "S5" \notin outOfOrder' => accepted' \subseteq Known'
  <2>1. CASE Grant(h)
    <3>1. \/ accepted' = accepted
          \/ accepted' = accepted \cup {near[h]} /\ ("S5" \notin outOfOrder => near[h] \in Known)
      BY <2>1 DEF Grant, IInv, Creations
    <3> QED
      BY <1>1, <1>2, <3>1
  <2>2. CASE ~Grant(h)
    BY <1>1, <1>2, <2>2, Untouched
  <2> QED
    BY <2>1, <2>2
<1> QED
  BY <1>3 DEF AcceptedIsReady, Known

-----------------------------------------------------------------------------

LEMMA StutterInv == IInv /\ UNCHANGED vars => IInv'
<1> SUFFICES ASSUME IInv, UNCHANGED vars PROVE IInv'
  OBVIOUS
<1> USE DEF IInv, vars, conns, learnt, sessions, numbers, frames, told, Known
<1>1. TypeOK' /\ Positions' /\ Frames'
  BY DEF TypeOK, Positions, Frames
<1>2. QueuesCarry' /\ NumbersUnique'
  BY DEF QueuesCarry, Carried, NumbersUnique, NumbersOn, Sends
<1>3. Creations' /\ Refusals' /\ AcceptedIsReady'
  BY DEF Creations, IsAnswer, Refusals, AcceptedIsReady
<1> QED
  BY <1>1, <1>2, <1>3

LEMMA NextInv == IInv /\ [Next]_vars => IInv'
<1> SUFFICES ASSUME IInv, [Next]_vars PROVE IInv'
  OBVIOUS
<1>1. CASE UNCHANGED vars
  BY <1>1, StutterInv
<1>2. ASSUME NEW h \in Handler, Start(h) \/ Step(h)
      PROVE  IInv'
  <2>1. TypeOK' /\ Positions' /\ Frames'
    BY <1>2, StepType, StepPositions, StepFrames
  <2>2. QueuesCarry' /\ NumbersUnique'
    BY <1>2, StepQueues, StepNumbers
  <2>3. Creations' /\ Refusals' /\ AcceptedIsReady'
    BY <1>2, StepCreations, StepRefusals, StepReady
  <2> QED
    BY <2>1, <2>2, <2>3 DEF IInv
<1> QED
  BY <1>1, <1>2 DEF Next

LEMMA Invariance == Spec => []IInv
<1> QED
  BY InitInv, NextInv, PTL DEF Spec

\* TypeOK holds for any number of handlers and sessions: every queue keeps to its capacity
\* and every Conn's number to its range (Session.msgQueue, Conn.sequence).
THEOREM TypeCorrect == Spec => []TypeOK
<1>1. IInv => TypeOK
  BY DEF IInv
<1> QED
  BY <1>1, Invariance, PTL

\* The MME is never told that a session is created because of the answer to a request for
\* another session, for any number of handlers and with any loss and duplication.
THEOREM AcceptedCorrect == Spec => []AcceptedByOwnAnswer
<1>1. IInv => AcceptedByOwnAnswer
  BY DEF IInv, Creations, AcceptedByOwnAnswer
<1> QED
  BY <1>1, Invariance, PTL

\* When the MME is told that a session is created, the P-GW's TEIDs and address are stored:
\* handleCreateSessionResponse stores them before it passes the answer on.
THEOREM ReadyCorrect == Spec => []AcceptedIsReady
<1>1. IInv => AcceptedIsReady
  BY DEF IInv
<1> QED
  BY <1>1, Invariance, PTL

\* No later request finds a session that the MME was refused, once the handler that refused
\* it has returned (handleCreateSessionRequest's s11Conn.RemoveSession).
THEOREM RefusedCorrect == Spec => []RefusedIsForgotten
<1>1. IInv => RefusedIsForgotten
  BY DEF IInv, Refusals, RefusedIsForgotten
<1> QED
  BY <1>1, Invariance, PTL

-----------------------------------------------------------------------------
(* Both gateways.                                                           *)

\* A procedure of the subscriber is under way in the handler.
Busy(h) == kind[h] \in Requests /\ pc[h] \notin {"idle", "removeS11"}

\* Procedures follow one another.
OneProcedure == \A g, h \in Handler : Busy(g) /\ Busy(h) => g = h

\* The session of the last Create Session Request that was sent.
IsLast(s) == \E r \in Created : r.of = s /\ \A later \in Created : later.seq <= r.seq

\* A handler has registered its session on S5 and not sent the request yet.
Creating(h) == kind[h] = "CreateSessionRequest" /\ pc[h] \in {"request", "send"}

\* No write fails, so that no number is given back, and a handler sends what it has drawn
\* before the next one draws: the requests are sent in the order of their numbers.
Ordered ==
  /\ outOfOrder = {}
  /\ \A i \in Iface : sequence[i] \in Nat
  /\ \A r \in sent :
       /\ r.seq \in Nat /\ r.seq <= sequence[Other(Arrives(r.kind))]
       /\ \A q \in sent : Arrives(q.kind) = Arrives(r.kind) /\ q.seq = r.seq => q = r
  /\ \A h \in Handler : pc[h] = "send" =>
       /\ num[h] = sequence[Sends(h)] /\ num[h] >= 1
       /\ \A r \in sent : Arrives(r.kind) = Arrives(kind[h]) => r.seq < num[h]

\* The S5 session under the IMSI is the one that was created last, or is being created.
ImsiIsLast ==
  /\ byImsi["S5"] # None =>
       \/ IsLast(byImsi["S5"])
       \/ \E h \in Handler : Creating(h) /\ near[h] = byImsi["S5"]
  /\ \A h \in Handler : Creating(h) => byImsi["S5"] \in {None, near[h]}

\* A deletion is for the session that was created last, on both sides; the number that it
\* waits for is of no request for another.
Deletions ==
  \A h \in Handler : kind[h] = "DeleteSessionRequest" =>
    /\ pc[h] \in {"relate", "request", "send", "wait", "grant"} => IsLast(near[h])
    /\ pc[h] \in {"request", "send", "wait", "grant"} => far[h] = near[h]
    /\ pc[h] = "wait" =>
         /\ num[h] <= sequence["S5"]
         /\ \A r \in sent : Arrives(r.kind) = "S11" /\ r.seq = num[h] => r.of = near[h]

\* The inductive invariant: what a handler of the S-GW finds under the IMSI is its own
\* session only because procedures follow one another.
GatewaysInv ==
  IInv /\ OneProcedure /\ Ordered /\ ImsiIsLast /\ Deletions /\ DeletedByOwnAnswer

-----------------------------------------------------------------------------

LEMMA GatewaysInitInv == GatewaysInit => GatewaysInv
<1> SUFFICES ASSUME GatewaysInit PROVE GatewaysInv
  OBVIOUS
<1>1. Init /\ IInv
  BY InitInv DEF GatewaysInit
<1> QED
  BY <1>1 DEF GatewaysInv, Init, OneProcedure, Busy, Requests, ImsiIsLast, Creating, Iface,
              Ordered, Deletions, DeletedByOwnAnswer

-----------------------------------------------------------------------------

\* Together the gateways take the S-GW's steps, and the P-GW's, which leave the S-GW alone.
LEMMA StepsOfSgw ==
  ASSUME IInv, GatewaysNext
  PROVE  \/ UNCHANGED vars
         \/ \E h \in Handler :
              /\ ~crashed
              /\ NextRequest(h) \/ AnswerArrives(h) \/ WaitMessageTimesOut(h) \/ SgwStep(h)
BY DEF GatewaysNext, Deliver, PgwStep, AnswerLost

LEMMA AreSteps ==
  ASSUME IInv, NEW h \in Handler,
         NextRequest(h) \/ AnswerArrives(h) \/ WaitMessageTimesOut(h) \/ SgwStep(h)
  PROVE  Start(h) \/ Step(h)
<1>1. \A r \in sent : r.of \in Session
  BY DEF IInv, TypeOK, Message
<1>2. CASE NextRequest(h)
  BY <1>1, <1>2 DEF NextRequest, Start, Created
<1>3. CASE AnswerArrives(h)
  BY <1>3 DEF AnswerArrives, Start
<1>4. CASE SgwStep(h) \/ WaitMessageTimesOut(h)
  BY <1>4 DEF SgwStep, NoAnswer, Step
<1> QED
  BY <1>2, <1>3, <1>4

\* A handler of the S-GW that goes on has the request that it had.
LEMMA StepBusy ==
  ASSUME IInv, NEW h \in Handler, Step(h), Busy(h)'
  PROVE  Busy(h) /\ kind'[h] = kind[h]
<1> USE DEF IInv, TypeOK, Goto, Return, Busy, Requests, frames
<1>1. CASE \/ RelateFails(h) \/ MissingIE(h) \/ SendRequestFails(h)
           \/ BearerNotFound(h) \/ PassMessageTimesOut(h) \/ ModifyBearer(h)
           \/ BearerNotModified(h) \/ RemoveS11(h) \/ RemoveS5(h) \/ CreateRefused(h)
  BY <1>1 DEF RelateFails, MissingIE, SendRequestFails, BearerNotFound,
              PassMessageTimesOut, ModifyBearer, BearerNotModified, RemoveS11, RemoveS5, CreateRefused
<1>2. CASE \/ LookUpOld(h) \/ RemoveOld(h) \/ WaitMessageTimesOut(h) \/ BearerFound(h)
           \/ \E s \in Session : RegisterS11(h, s)
           \/ RegisterS5(h) \/ SendRequest(h) \/ IncSequence(h) \/ CreateAccepted(h) \/ WaitMessage(h)
  BY <1>2 DEF LookUpOld, RemoveOld, WaitMessageTimesOut, BearerFound, RegisterS11,
              RegisterS5, SendRequest, IncSequence, CreateAccepted, WaitMessage
<1>3. CASE Grant(h) \/ GrantFails(h) \/ UnexpectedType(h) \/ Reject(h) \/ PassMessageTo(h)
  BY <1>3 DEF Grant, GrantFails, UnexpectedType, Reject, PassMessageTo
<1>4. CASE DeleteWithoutBearer(h) \/ ApplyWithoutBearer(h)
  BY <1>4 DEF DeleteWithoutBearer, ApplyWithoutBearer, Crash
<1>5. CASE Relate(h)
  BY <1>5 DEF Relate
<1> QED
  BY <1>1, <1>2, <1>3, <1>4, <1>5 DEF Step

\* The handler of an answer has none.
LEMMA AnswerNotBusy ==
  ASSUME IInv, NEW h \in Handler, AnswerArrives(h)
  PROVE  kind'[h] \notin Requests /\ ~Busy(h)'
<1>1. PICK r \in sent : StartResponse(h, r)
  BY DEF AnswerArrives
<1>2. ResponseTo(r.kind) \in Responses
  BY Routes DEF IInv, TypeOK, Message
<1>3. kind'[h] = ResponseTo(r.kind)
  BY <1>1 DEF StartResponse, IInv, TypeOK
<1> QED
  BY <1>2, <1>3 DEF Busy, Requests, Responses

\* A request that is new finds nobody busy.
LEMMA NextFindsNone ==
  ASSUME IInv, NEW h \in Handler, NextRequest(h), NEW g \in Handler
  PROVE  ~Busy(g)
BY DEF NextRequest, Answered, Busy, IInv, Positions, Requests

LEMMA StepOneProcedure ==
  ASSUME IInv, OneProcedure, NEW h \in Handler,
         NextRequest(h) \/ AnswerArrives(h) \/ WaitMessageTimesOut(h) \/ SgwStep(h)
  PROVE  OneProcedure'
<1> SUFFICES ASSUME NEW g \in Handler, g # h, Busy(g)', Busy(h)' PROVE FALSE
  <2>1. \A g \in Handler \ {h} : Busy(g)' => Busy(g)
    BY AreSteps, OnlyItself DEF Busy
  <2> QED
    BY <2>1 DEF OneProcedure
<1>1. Busy(g)
  BY AreSteps, OnlyItself DEF Busy
<1>2. CASE NextRequest(h)
  BY <1>1, <1>2, NextFindsNone
<1>3. CASE AnswerArrives(h)
  BY <1>3, AnswerNotBusy
<1>4. CASE WaitMessageTimesOut(h) \/ SgwStep(h)
  <2>1. Step(h)
    BY <1>4 DEF SgwStep, NoAnswer, Step
  <2> QED
    BY <1>1, <2>1, StepBusy DEF OneProcedure
<1> QED
  BY <1>2, <1>3, <1>4

\* A number that is drawn is sent.
LEMMA SendGoes ==
  ASSUME IInv, NEW h \in Handler, pc[h] = "send",
         NextRequest(h) \/ AnswerArrives(h) \/ WaitMessageTimesOut(h) \/ SgwStep(h)
  PROVE  SendRequest(h)
<1>1. ~NextRequest(h) /\ ~AnswerArrives(h)
  BY DEF NextRequest, AnswerArrives, StartCreate, StartRequest, StartResponse
<1> QED
  BY <1>1 DEF SgwStep, NoAnswer, WaitMessageTimesOut, WaitMessage, Relate, RelateFails,
     LookUpOld, RemoveOld, MissingIE, RegisterS11, RegisterS5, IncSequence,
     DeleteWithoutBearer, Grant, Reject, RemoveS11, CreateAccepted, ModifyBearer,
     ApplyWithoutBearer, BearerNotFound, BearerFound, PassMessageTo, RemoveS5

LEMMA StepOrdered ==
  ASSUME IInv, OneProcedure, Ordered, NEW h \in Handler,
         NextRequest(h) \/ AnswerArrives(h) \/ WaitMessageTimesOut(h) \/ SgwStep(h)
  PROVE  Ordered'
<1>0. Start(h) \/ Step(h)
  BY AreSteps
<1>1. \A g \in Handler \ {h} : UNCHANGED <<pc[g], kind[g], num[g]>>
  BY <1>0, StepSends
<1>2. ASSUME NEW g \in Handler, pc[g] = "send" PROVE Busy(g)
  BY <1>2 DEF Busy, IInv, Positions
<1>3. CASE IncSequence(h)
  <2>1. /\ pc[h] = "request" /\ kind' = kind /\ sent' = sent /\ outOfOrder' = outOfOrder
        /\ Sends(h) \in Iface /\ Busy(h)
    BY <1>3, Routes DEF IncSequence, IInv, Positions, Sends, Busy
  <2>2. /\ sequence'[Sends(h)] = sequence[Sends(h)] + 1 /\ num'[h] = sequence[Sends(h)] + 1
        /\ \A i \in Iface \ {Sends(h)} : sequence'[i] = sequence[i]
    BY <1>3, <2>1 DEF IncSequence, IInv, TypeOK, Sends
  <2>3. \A i \in Iface : sequence'[i] \in Nat /\ sequence[i] \in Nat /\ sequence[i] <= sequence'[i]
    BY <2>1, <2>2 DEF Ordered
  <2>4. \A r \in sent : Other(Arrives(r.kind)) \in Iface
    BY Routes DEF IInv, TypeOK, Message
  <2>5. ASSUME NEW r \in sent' PROVE r.seq <= sequence'[Other(Arrives(r.kind))]
    BY <2>1, <2>3, <2>4, <2>5 DEF Ordered
  <2>6. ASSUME NEW g \in Handler, pc'[g] = "send"
        PROVE  /\ num'[g] = sequence'[Sends(g)'] /\ num'[g] >= 1
               /\ \A r \in sent' : Arrives(r.kind) = Arrives(kind'[g]) => r.seq < num'[g]
    <3>1. g = h
      BY <1>1, <1>2, <2>1, <2>6 DEF OneProcedure
    <3>2. Sends(h)' = Sends(h)
      BY <2>1 DEF Sends
    <3>3. \A r \in sent : Arrives(r.kind) = Arrives(kind[h]) => r.seq \in Nat /\ r.seq <= sequence[Sends(h)]
      BY DEF Ordered, Sends
    <3> QED
      BY <2>1, <2>2, <2>3, <3>1, <3>2, <3>3
  <2> QED
    BY <2>1, <2>3, <2>5, <2>6 DEF Ordered, Sends
<1>4. CASE SendRequest(h)
  <2> DEFINE new == [kind |-> kind[h], of |-> far[h], seq |-> num[h]]
  <2>1. /\ pc[h] = "send" /\ pc'[h] = "wait" /\ kind' = kind /\ num' = num
        /\ sent' \subseteq sent \cup {new} /\ UNCHANGED <<sequence, outOfOrder>>
    BY <1>4 DEF SendRequest, IInv, TypeOK, Goto, numbers
  <2>2. Sends(h) \in Iface
    BY <2>1, Routes DEF IInv, Positions, Sends
  <2>3. /\ new.seq \in Nat /\ new.seq = sequence[Other(Arrives(new.kind))]
        /\ \A r \in sent : Arrives(r.kind) = Arrives(new.kind) => r.seq < new.seq
    BY <2>1, <2>2 DEF Ordered, Sends
  <2> HIDE DEF new
  <2>4. \A g \in Handler : pc'[g] # "send"
    BY <1>1, <1>2, <2>1 DEF OneProcedure
  <2>5. ASSUME NEW r \in sent'
        PROVE  /\ r.seq \in Nat /\ r.seq <= sequence[Other(Arrives(r.kind))]
               /\ \A q \in sent' : Arrives(q.kind) = Arrives(r.kind) /\ q.seq = r.seq => q = r
    <3>1. CASE r = new
      BY <2>1, <2>3, <3>1 DEF Ordered
    <3>2. CASE r # new
      <4>1. r \in sent
        BY <2>1, <2>5, <3>2
      <4> QED
        BY <2>1, <2>3, <4>1 DEF Ordered
    <3> QED
      BY <3>1, <3>2
  <2> QED
    BY <2>1, <2>4, <2>5 DEF Ordered
<1>5. CASE ~IncSequence(h) /\ ~SendRequest(h)
  <2>1. ~SendRequestFails(h)
    <3>1. CASE SendRequestFails(h)
      <4>1. pc[h] = "send" /\ pc'[h] = "idle"
        BY <3>1 DEF SendRequestFails, IInv, TypeOK, Return, Goto
      <4> QED
        BY <1>5, <4>1, SendGoes
    <3> QED
      BY <3>1
  <2>2. UNCHANGED <<sent, sequence, outOfOrder>>
    BY <1>0, <1>5, <2>1, Untouched
  <2>3. \A g \in Handler : pc'[g] = "send" => pc[g] = "send" /\ UNCHANGED <<kind[g], num[g]>>
    BY <1>0, <1>5, StepSends
  <2> QED
    BY <2>2, <2>3 DEF Ordered, Sends
<1> QED
  BY <1>3, <1>4, <1>5

-----------------------------------------------------------------------------

\* Only a request to create a session makes another one the last.
LEMMA LastStays ==
  ASSUME IInv, NEW h \in Handler, Start(h) \/ Step(h),
         ~(SendRequest(h) /\ kind[h] = "CreateSessionRequest")
  PROVE  Created' = Created
<1>1. CASE ~SendRequest(h)
  BY <1>1, Untouched DEF Created
<1>2. CASE SendRequest(h)
  BY <1>2 DEF SendRequest, Created
<1> QED
  BY <1>1, <1>2

\* It is of that session, for its number is the largest.
LEMMA LastIsNew ==
  ASSUME IInv, Ordered, NEW h \in Handler, SendRequest(h), kind[h] = "CreateSessionRequest"
  PROVE  IsLast(near[h])'
<1> DEFINE new == [kind |-> "CreateSessionRequest", of |-> near[h], seq |-> num[h]]
<1>1. far[h] = near[h] /\ pc[h] = "send"
  BY DEF IInv, Creations, SendRequest
<1>2. sent' = sent \cup {new} /\ near' = near
  BY <1>1 DEF SendRequest
<1>3. num[h] \in Int
  BY DEF IInv, TypeOK
<1>4. \A r \in Created : r.seq \in Nat /\ r.seq < num[h]
  BY <1>1 DEF Ordered, Created
<1>5. Created' = Created \cup {new}
  BY <1>2 DEF Created
<1>6. \A later \in Created' : later.seq <= new.seq
  BY <1>3, <1>4, <1>5
<1> QED
  BY <1>2, <1>5, <1>6 DEF IsLast

LEMMA LastIsOne ==
  ASSUME Ordered, NEW s, NEW t, IsLast(s), IsLast(t)
  PROVE  s = t
<1>1. PICK r \in Created : r.of = s /\ \A later \in Created : later.seq <= r.seq
  BY DEF IsLast
<1>2. PICK q \in Created : q.of = t /\ \A later \in Created : later.seq <= q.seq
  BY DEF IsLast
<1>3. r \in sent /\ q \in sent /\ r.kind = q.kind /\ r.seq \in Nat /\ q.seq \in Nat
  BY <1>1, <1>2 DEF Created, Ordered
<1>4. r.seq = q.seq
  BY <1>1, <1>2, <1>3
<1>5. r = q
  BY <1>3, <1>4 DEF Ordered
<1> QED
  BY <1>1, <1>2, <1>5

\* Which steps make the S5 session that the IMSI leads to.
LEMMA ImsiS5 ==
  ASSUME IInv, NEW h \in Handler, Start(h) \/ Step(h), ~RegisterS5(h)
  PROVE  byImsi'["S5"] \in {byImsi["S5"], None}
<1> USE DEF IInv, TypeOK
<1>1. CASE \E s \in Session : RegisterS11(h, s)
  BY <1>1 DEF RegisterS11, RegisterSession, Iface
<1>2. CASE RemoveS5(h) \/ CreateRefused(h) \/ RemoveOld(h) \/ RemoveS11(h)
  BY <1>2 DEF RemoveS5, CreateRefused, RemoveOld, RemoveS11, RemoveSession, Iface, conns
<1>3. CASE Start(h)
  BY <1>3 DEF Start, StartCreate, StartRequest, StartResponse, conns
<1>4. CASE /\ ~Start(h) /\ ~RemoveS5(h) /\ ~CreateRefused(h)
           /\ ~RemoveOld(h) /\ ~RemoveS11(h) /\ ~\E s \in Session : RegisterS11(h, s)
  BY <1>4 DEF Step, conns, Relate, RelateFails, LookUpOld, MissingIE,
       SendRequest, SendRequestFails, IncSequence, DeleteWithoutBearer, WaitMessage,
       WaitMessageTimesOut, Grant, GrantFails, UnexpectedType, Reject, CreateAccepted, ModifyBearer,
       ApplyWithoutBearer, BearerNotModified, BearerNotFound, BearerFound, PassMessageTo,
       PassMessageTimesOut
<1> QED
  BY <1>1, <1>2, <1>3, <1>4

\* A creation waits to send its request from when it registers the session until it does.
LEMMA CreatingSteps ==
  ASSUME IInv, NEW h \in Handler, ~RegisterS5(h),
         NextRequest(h) \/ AnswerArrives(h) \/ WaitMessageTimesOut(h) \/ SgwStep(h)
  PROVE  \A g \in Handler :
           /\ Creating(g)' => Creating(g) /\ near'[g] = near[g]
           /\ Creating(g) /\ ~(g = h /\ SendRequest(h)) =>
                Creating(g)' /\ near'[g] = near[g]
<1> USE DEF IInv, TypeOK, Goto, Return, Creating, frames
<1>0. \A g \in Handler \ {h} : UNCHANGED <<pc[g], kind[g], near[g]>>
  BY AreSteps, OnlyItself
<1>1. CASE NextRequest(h)
  BY <1>0, <1>1 DEF NextRequest, StartCreate, StartRequest, AfterLookUp
<1>2. CASE AnswerArrives(h)
  <2>1. pc[h] = "idle"
    BY <1>2 DEF AnswerArrives, StartResponse
  <2>2. ~Creating(h)'
    BY <1>2, AnswerNotBusy DEF Requests
  <2> QED
    BY <1>0, <2>1, <2>2
<1>3. CASE \/ RelateFails(h) \/ MissingIE(h) \/ BearerNotFound(h) \/ ModifyBearer(h)
           \/ RemoveS11(h) \/ RemoveS5(h)
  BY <1>0, <1>3 DEF RelateFails, MissingIE, BearerNotModified, BearerNotFound,
     ModifyBearer, RemoveS11, RemoveS5
<1>4. CASE \/ LookUpOld(h) \/ RemoveOld(h) \/ WaitMessageTimesOut(h) \/ BearerFound(h)
           \/ \E s \in Session : RegisterS11(h, s)
           \/ CreateAccepted(h) \/ WaitMessage(h)
  BY <1>0, <1>4 DEF LookUpOld, RemoveOld, WaitMessageTimesOut, BearerFound, RegisterS11,
                    CreateAccepted, WaitMessage, Positions
<1>5. CASE SendRequest(h) \/ IncSequence(h)
  BY <1>0, <1>5 DEF SendRequest, IncSequence
<1>6. CASE Grant(h) \/ Reject(h) \/ PassMessageTo(h)
  BY <1>0, <1>6 DEF Grant, Reject, PassMessageTo
<1>7. CASE DeleteWithoutBearer(h) \/ ApplyWithoutBearer(h)
  BY <1>7 DEF DeleteWithoutBearer, ApplyWithoutBearer, Crash
<1>8. CASE Relate(h)
  BY <1>0, <1>8 DEF Relate, Positions
<1> QED
  BY <1>1, <1>2, <1>3, <1>4, <1>5, <1>6, <1>7, <1>8 DEF SgwStep, NoAnswer

LEMMA StepImsiIsLast ==
  ASSUME GatewaysInv, NEW h \in Handler,
         NextRequest(h) \/ AnswerArrives(h) \/ WaitMessageTimesOut(h) \/ SgwStep(h)
  PROVE  ImsiIsLast'
<1>0. /\ IInv /\ OneProcedure /\ ImsiIsLast /\ Ordered /\ OneProcedure'
      /\ (Start(h) \/ Step(h))
  BY StepOneProcedure, AreSteps DEF GatewaysInv
<1>1. \A g, k \in Handler : Creating(g)' /\ Creating(k)' => g = k
  BY <1>0 DEF OneProcedure, Creating, Busy, Requests
<1>2. CASE RegisterS5(h)
  <2>1. byImsi'["S5"] = near[h] /\ near' = near /\ Creating(h)'
    BY <1>0, <1>2 DEF RegisterS5, RegisterSession, IInv, TypeOK, Iface, Creating, Positions,
                      Goto
  <2> QED
    BY <1>1, <2>1 DEF ImsiIsLast
<1>3. CASE SendRequest(h) /\ kind[h] = "CreateSessionRequest"
  <2>1. Creating(h) /\ byImsi' = byImsi /\ near' = near /\ ~RegisterS5(h)
    BY <1>3 DEF SendRequest, Creating, conns, RegisterS5
  <2>2. byImsi["S5"] \in {None, near[h]}
    BY <1>0, <2>1 DEF ImsiIsLast
  <2>3. IsLast(near[h])'
    BY <1>0, <1>3, LastIsNew
  <2>4. \A g \in Handler : ~Creating(g)'
    <3>1. \A g \in Handler : Creating(g)' => Creating(g)
      BY <1>0, <2>1, CreatingSteps
    <3>2. \A g \in Handler : Creating(g) => g = h
      BY <1>0, <2>1 DEF OneProcedure, Creating, Busy, Requests
    <3>3. ~Creating(h)'
      BY <1>0, <1>3 DEF SendRequest, Creating, Goto, IInv, TypeOK
    <3> QED
      BY <3>1, <3>2, <3>3
  <2> QED
    BY <2>1, <2>2, <2>3, <2>4 DEF ImsiIsLast
<1>4. CASE ~RegisterS5(h) /\ ~(SendRequest(h) /\ kind[h] = "CreateSessionRequest")
  <2>1. Created' = Created /\ byImsi'["S5"] \in {byImsi["S5"], None}
    BY <1>0, <1>4, LastStays, ImsiS5
  <2>2. \A g \in Handler : /\ Creating(g)' => Creating(g) /\ near'[g] = near[g]
                           /\ Creating(g) => Creating(g)' /\ near'[g] = near[g]
    BY <1>0, <1>4, CreatingSteps DEF Creating
  <2>3. \A s : IsLast(s) => IsLast(s)'
    BY <2>1 DEF IsLast
  <2> QED
    BY <1>0, <2>1, <2>2, <2>3 DEF ImsiIsLast
<1> QED
  BY <1>2, <1>3, <1>4

-----------------------------------------------------------------------------

\* How a handler comes to where a deletion uses its sessions.
LEMMA DeletingSteps ==
  ASSUME IInv, NEW h \in Handler, Step(h),
         ~Relate(h), ~IncSequence(h), ~SendRequest(h), ~WaitMessage(h),
         kind'[h] = "DeleteSessionRequest",
         pc'[h] \in {"relate", "request", "send", "wait", "grant"}
  PROVE  UNCHANGED <<pc[h], kind[h], near[h], far[h], num[h], msg[h]>>
<1> USE DEF IInv, TypeOK, Goto, Return, frames
<1>1. CASE \/ RelateFails(h) \/ MissingIE(h) \/ SendRequestFails(h)
           \/ BearerNotFound(h) \/ PassMessageTimesOut(h) \/ ModifyBearer(h)
           \/ BearerNotModified(h) \/ RemoveS11(h) \/ RemoveS5(h) \/ CreateRefused(h)
  BY <1>1 DEF RelateFails, MissingIE, SendRequestFails, BearerNotFound,
              PassMessageTimesOut, ModifyBearer, BearerNotModified, RemoveS11, RemoveS5, CreateRefused
<1>2. CASE \/ LookUpOld(h) \/ RemoveOld(h) \/ WaitMessageTimesOut(h) \/ BearerFound(h)
           \/ \E s \in Session : RegisterS11(h, s)
           \/ RegisterS5(h) \/ CreateAccepted(h)
  BY <1>2 DEF LookUpOld, RemoveOld, WaitMessageTimesOut, BearerFound, RegisterS11,
              RegisterS5, CreateAccepted, Positions
<1>3. CASE Grant(h) \/ GrantFails(h) \/ UnexpectedType(h) \/ Reject(h) \/ PassMessageTo(h)
  BY <1>3 DEF Grant, GrantFails, UnexpectedType, Reject, PassMessageTo
<1>4. CASE DeleteWithoutBearer(h) \/ ApplyWithoutBearer(h)
  BY <1>4 DEF DeleteWithoutBearer, ApplyWithoutBearer, Crash
<1> QED
  BY <1>1, <1>2, <1>3, <1>4 DEF Step

\* What is found under the IMSI is the session that was created last, for a deletion and a
\* modification: no other is being created.
LEMMA RelatesToLast ==
  ASSUME GatewaysInv, NEW h \in Handler, Relate(h),
         kind[h] \in {"DeleteSessionRequest", "ModifyBearerRequest"}, IsLast(near[h])
  PROVE  UNCHANGED <<kind, near, sent, sequence>> /\ far'[h] = near[h]
<1>0. IInv /\ OneProcedure /\ ImsiIsLast /\ Ordered
  BY DEF GatewaysInv
<1>1. /\ pc[h] = "relate" /\ UNCHANGED <<kind, near, sent, sequence>>
      /\ far'[h] = byImsi["S5"] /\ byImsi["S5"] # None
  BY <1>0 DEF Relate, Arrives, Other, IInv, TypeOK, numbers
<1>2. ~\E g \in Handler : Creating(g)
  BY <1>0, <1>1 DEF OneProcedure, Busy, Creating, Requests
<1>3. IsLast(byImsi["S5"])
  BY <1>0, <1>1, <1>2 DEF ImsiIsLast
<1> QED
  BY <1>0, <1>1, <1>3, LastIsOne

LEMMA RelatesToOwn ==
  ASSUME GatewaysInv, NEW h \in Handler, Relate(h), kind[h] = "DeleteSessionRequest"
  PROVE  /\ pc'[h] = "request" /\ UNCHANGED <<kind, near, sent, sequence>>
         /\ IsLast(near[h]) /\ far'[h] = near[h]
<1>0. IInv /\ Deletions
  BY DEF GatewaysInv
<1>1. pc'[h] = "request"
  BY <1>0, RelateGoes DEF Requests, IInv, TypeOK
<1>2. IsLast(near[h])
  BY <1>0 DEF Deletions, Relate
<1> QED
  BY <1>1, <1>2, RelatesToLast

\* The number of the request to delete is of no other.
LEMMA DeletionIsSent ==
  ASSUME GatewaysInv, NEW h \in Handler, SendRequest(h), kind[h] = "DeleteSessionRequest"
  PROVE  /\ IsLast(near[h])' /\ far'[h] = near'[h] /\ num'[h] <= sequence'["S5"]
         /\ \A r \in sent' : Arrives(r.kind) = "S11" /\ r.seq = num'[h] => r.of = near'[h]
<1> DEFINE new == [kind |-> kind[h], of |-> far[h], seq |-> num[h]]
<1>0. IInv /\ Deletions /\ Ordered
  BY DEF GatewaysInv
<1>1. /\ pc[h] = "send" /\ UNCHANGED <<near, far, num, sequence>>
      /\ sent' \subseteq sent \cup {new} /\ sent \subseteq sent'
  BY DEF SendRequest, numbers
<1>2. IsLast(near[h]) /\ far[h] = near[h]
  BY <1>0, <1>1 DEF Deletions
<1>3. Created' = Created
  BY <1>1 DEF Created
<1>4. num[h] = sequence["S5"] /\ sequence["S5"] \in Nat
  BY <1>0, <1>1 DEF Ordered, Sends, Arrives, Other, Iface
<1>5. \A r \in sent : Arrives(r.kind) = "S11" => r.seq \in Nat /\ r.seq < num[h]
  BY <1>0, <1>1 DEF Ordered, Arrives
<1>6. \A r \in sent' : Arrives(r.kind) = "S11" /\ r.seq = num'[h] => r.of = near'[h]
  BY <1>1, <1>2, <1>4, <1>5
<1> QED
  BY <1>1, <1>2, <1>3, <1>4, <1>6 DEF IsLast

LEMMA StepDeletions ==
  ASSUME GatewaysInv, NEW h \in Handler,
         NextRequest(h) \/ AnswerArrives(h) \/ WaitMessageTimesOut(h) \/ SgwStep(h)
  PROVE  Deletions'
<1>0. IInv /\ OneProcedure /\ Deletions /\ (Start(h) \/ Step(h))
  BY AreSteps DEF GatewaysInv
<1> SUFFICES ASSUME NEW g \in Handler, kind'[g] = "DeleteSessionRequest",
                    pc'[g] \in {"relate", "request", "send", "wait", "grant"}
             PROVE  /\ IsLast(near[g])'
                    /\ pc'[g] # "relate" => far'[g] = near'[g]
                    /\ pc'[g] = "wait" =>
                         /\ num'[g] <= sequence'["S5"]
                         /\ \A r \in sent' : Arrives(r.kind) = "S11" /\ r.seq = num'[g] =>
                              r.of = near'[g]
  BY DEF Deletions
<1>1. CASE /\ UNCHANGED <<pc[g], kind[g], near[g], far[g], num[g]>>
           /\ UNCHANGED <<sent, sequence>>
  BY <1>0, <1>1 DEF Deletions, IsLast, Created
<1>2. CASE g # h
  <2>1. UNCHANGED <<pc[g], kind[g], near[g], far[g], num[g]>>
    BY <1>0, <1>2, OnlyItself
  <2>2. ~SendRequest(h) /\ ~IncSequence(h)
    BY <1>0, <1>2, <2>1
       DEF OneProcedure, Busy, Requests, SendRequest, IncSequence, IInv, Positions
  <2>3. ~SendRequestFails(h)
    BY <1>0, <2>2, SendGoes DEF SendRequestFails
  <2> QED
    BY <1>0, <1>1, <2>1, <2>2, <2>3, Untouched
<1>3. CASE g = h /\ NextRequest(h)
  <2>1. PICK r \in Created : /\ \A later \in Created : later.seq <= r.seq
                             /\ StartRequest(h, "DeleteSessionRequest", r.of)
    BY <1>0, <1>3 DEF NextRequest, StartCreate, StartRequest, IInv, TypeOK
  <2>2. pc'[h] = "relate" /\ near'[h] = r.of /\ sent' = sent
    BY <1>0, <2>1 DEF StartRequest, AfterLookUp, Goto, IInv, TypeOK
  <2> QED
    BY <1>3, <2>1, <2>2 DEF IsLast, Created
<1>4. CASE g = h /\ AnswerArrives(h)
  BY <1>0, <1>4, AnswerNotBusy DEF Requests
<1>5. CASE g = h /\ (WaitMessageTimesOut(h) \/ SgwStep(h))
  <2>1. Step(h)
    BY <1>5 DEF SgwStep, NoAnswer, Step
  <2>2. CASE Relate(h)
    BY <1>5, <2>2, RelatesToOwn DEF Relate, IsLast, Created
  <2>3. CASE SendRequest(h)
    BY <1>5, <2>3, <1>0, DeletionIsSent DEF SendRequest
  <2>4. CASE WaitMessage(h)
    <3>1. /\ UNCHANGED <<kind, near, far, sent>> /\ pc[h] = "wait"
          /\ pc'[h] \in {"grant", "reject"}
      BY <1>0, <2>4 DEF WaitMessage, Goto, IInv, TypeOK
    <3> QED
      BY <1>0, <1>5, <3>1 DEF Deletions, IsLast, Created
  <2>6. CASE IncSequence(h)
    <3>1. /\ UNCHANGED <<kind, near, far, sent>> /\ pc[h] = "request" /\ pc'[h] = "send"
      BY <1>0, <2>6 DEF IncSequence, Goto, IInv, TypeOK
    <3> QED
      BY <1>0, <1>5, <3>1 DEF Deletions, IsLast, Created
  <2>5. CASE ~Relate(h) /\ ~SendRequest(h) /\ ~WaitMessage(h) /\ ~IncSequence(h)
    <3>1. UNCHANGED <<pc[h], kind[h], near[h], far[h], num[h]>>
      BY <1>0, <1>5, <2>1, <2>5, DeletingSteps
    <3>2. ~SendRequestFails(h)
      BY <1>0, <1>5, <2>5, SendGoes DEF SendRequestFails
    <3> QED
      BY <1>0, <1>1, <1>5, <2>5, <3>1, <3>2, Untouched
  <2> QED
    BY <2>2, <2>3, <2>4, <2>5, <2>6
<1> QED
  BY <1>2, <1>3, <1>4, <1>5

-----------------------------------------------------------------------------

LEMMA StepDeletedOwn ==
  ASSUME GatewaysInv, NEW h \in Handler,
         NextRequest(h) \/ AnswerArrives(h) \/ WaitMessageTimesOut(h) \/ SgwStep(h)
  PROVE  DeletedByOwnAnswer'
<1>0. IInv /\ Deletions /\ DeletedByOwnAnswer /\ (Start(h) \/ Step(h))
  BY AreSteps DEF GatewaysInv
<1> SUFFICES ASSUME NEW g \in Handler, pc'[g] = "grant", kind'[g] = "DeleteSessionRequest"
             PROVE  msg'[g].of = near'[g]
  BY DEF DeletedByOwnAnswer
<1>1. CASE UNCHANGED <<pc[g], kind[g], near[g], msg[g]>>
  BY <1>0, <1>1 DEF DeletedByOwnAnswer
<1>2. CASE g # h
  BY <1>0, <1>1, <1>2, OnlyItself
<1>3. CASE g = h /\ WaitMessage(h)
  <2> DEFINE q == queue["S11"][near[h]]
  <2>1. /\ kind[h] = "DeleteSessionRequest" /\ pc[h] = "wait" /\ near' = near
        /\ Arrives(kind[h]) = "S11" /\ near[h] \in Session /\ "S11" \in Iface
    BY <1>0, <1>3 DEF IInv, Frames, WaitMessage, Arrives, Iface
  <2>2. q # <<>> /\ msg'[h] = Head(q) /\ Head(q).seq = num[h]
    BY <1>0, <1>3, <2>1 DEF WaitMessage, Answers, Goto, IInv, TypeOK
  <2>3. Head(q) \in Carried("S11")
    BY <1>0, <2>1, <2>2, HeadTailProperties DEF IInv, QueuesCarry
  <2> QED
    BY <1>0, <1>3, <2>1, <2>2, <2>3 DEF Carried, Deletions
<1>4. CASE g = h /\ NextRequest(h)
  BY <1>0, <1>4 DEF NextRequest, StartCreate, StartRequest, AfterLookUp, Goto, IInv, TypeOK
<1>5. CASE g = h /\ AnswerArrives(h)
  BY <1>0, <1>5, AnswerNotBusy DEF Requests
<1>6. CASE g = h /\ (WaitMessageTimesOut(h) \/ SgwStep(h)) /\ ~WaitMessage(h)
  <2>1. Step(h)
    BY <1>6 DEF SgwStep, NoAnswer, Step
  <2>2. ~SendRequest(h) /\ ~IncSequence(h) /\ ~Relate(h)
    <3>1. CASE SendRequest(h) \/ IncSequence(h)
      BY <1>0, <1>6, <3>1 DEF SendRequest, IncSequence, Goto, IInv, TypeOK
    <3>2. CASE Relate(h)
      BY <1>6, <3>2, RelatesToOwn DEF Relate
    <3> QED
      BY <3>1, <3>2
  <2> QED
    BY <1>0, <1>1, <1>6, <2>1, <2>2, DeletingSteps
<1> QED
  BY <1>2, <1>3, <1>4, <1>5, <1>6

-----------------------------------------------------------------------------

LEMMA GatewaysNextInv == GatewaysInv /\ [GatewaysNext]_gatewayVars => GatewaysInv'
<1> SUFFICES ASSUME GatewaysInv, [GatewaysNext]_gatewayVars PROVE GatewaysInv'
  OBVIOUS
<1>0. IInv
  BY DEF GatewaysInv
<1>1. CASE UNCHANGED vars
  <2>1. IInv'
    BY <1>0, <1>1, StutterInv
  <2> QED
    BY <1>1, <2>1 DEF GatewaysInv, vars, conns, numbers, frames, OneProcedure, Busy,
       ImsiIsLast, IsLast, Created, Creating, Ordered, Sends, Deletions,
       DeletedByOwnAnswer
<1>2. ASSUME NEW h \in Handler, ~crashed,
             NextRequest(h) \/ AnswerArrives(h) \/ WaitMessageTimesOut(h) \/ SgwStep(h)
      PROVE  GatewaysInv'
  <2>1. IInv'
    BY <1>0, <1>2, AreSteps, NextInv DEF Next
  <2>2. OneProcedure' /\ Ordered'
    BY <1>0, <1>2, StepOneProcedure, StepOrdered DEF GatewaysInv
  <2> QED
    BY <1>2, <2>1, <2>2, StepImsiIsLast, StepDeletions, StepDeletedOwn DEF GatewaysInv
<1> QED
  BY <1>0, <1>1, <1>2, StepsOfSgw DEF gatewayVars

LEMMA GatewaysInvariance == GatewaysSpec => []GatewaysInv
<1> QED
  BY GatewaysInitInv, GatewaysNextInv, PTL DEF GatewaysSpec

\* The MME is told that a session is deleted only when the P-GW has answered for that very
\* session, for any number of handlers and sessions and whatever still runs in either
\* gateway (handleDeleteSessionRequest, handleDeleteSessionResponse).
THEOREM DeletedCorrect == GatewaysSpec => []DeletedByOwnAnswer
<1>1. GatewaysInv => DeletedByOwnAnswer
  BY DEF GatewaysInv
<1> QED
  BY <1>1, GatewaysInvariance, PTL

\* With the P-GW at the other end the S-GW does what it does with any peer, so that all that
\* is proved of it alone holds here too: no answer but to its own request is taken for the
\* creation of a session, and so on.
THEOREM SgwIsImplemented == GatewaysSpec => Spec
<1>1. GatewaysInit => Init
  BY DEF GatewaysInit
<1>2. GatewaysInv /\ [GatewaysNext]_gatewayVars => [Next]_vars
  <2> SUFFICES ASSUME GatewaysInv, [GatewaysNext]_gatewayVars PROVE [Next]_vars
    OBVIOUS
  <2>1. IInv
    BY DEF GatewaysInv
  <2>2. CASE \E h \in Handler :
               /\ ~crashed
               /\ NextRequest(h) \/ AnswerArrives(h) \/ WaitMessageTimesOut(h) \/ SgwStep(h)
    BY <2>1, <2>2, AreSteps DEF Next
  <2> QED
    BY <2>1, <2>2, StepsOfSgw DEF gatewayVars
<1> QED
  BY <1>1, <1>2, GatewaysInvariance, PTL DEF GatewaysSpec, Spec

-----------------------------------------------------------------------------

(* That the gateways agree at rest.  It takes what holds while they are at work: of the   *)
(* S-GW and its messages always, and of both registries while no request has reached a    *)
(* gateway where a handler still ran.                                                     *)

\* A step of the S-GW.
SgwMove(h) ==
  \/ NextRequest(h)
  \/ (AnswerArrives(h) \/ AnswerLost(h) \/ SgwStep(h)) /\ UNCHANGED <<pgw, overlapped>>

IdleHasNone == \A h \in Handler : pc[h] = "idle" => kind[h] = "none"

\* A Modify Bearer Request relays between the two sessions that were created last.
Modifications ==
  \A h \in Handler : kind[h] = "ModifyBearerRequest" =>
    /\ pc[h] = "relate" => IsLast(near[h])
    /\ pc[h] = "apply" => far[h] = near[h]

RelayedToOwn == \A p \in relay : p[1] = p[2]

\* A session is created once, and deleted when the P-GW has answered that it is created.
CreatedOnce ==
  /\ \A c \in Created : c.of \in used
  /\ \A c, e \in Created : c.of = e.of => c = e
  /\ \A h \in Handler :
       kind[h] = "CreateSessionRequest" /\ pc[h] \in {"registerS5", "request", "send"} =>
         \A c \in Created : c.of # near[h]
  /\ \A d \in sent : d.kind = "DeleteSessionRequest" =>
       \E c \in Created \cap answered : c.of = d.of /\ c.seq < d.seq

\* The S5 session stays until its deletion is answered.
KnownOnS5 ==
  /\ \A c \in Created : c.of \in byTeid["S5"] \cup Deleted
  /\ \A h \in Handler :
       kind[h] = "CreateSessionRequest" /\ pc[h] \in {"request", "send"} =>
         near[h] \in byTeid["S5"]

\* The handlers of the P-GW's answers.
FromPgw == {"CreateSessionResponse", "DeleteSessionResponse"}

\* What the S-GW takes for an answer of the P-GW was given by it.
Given ==
  /\ \A r \in sent : r.seq >= 1
  /\ \A h \in Handler : kind[h] \in FromPgw => msg[h] \in answered
  /\ \A s \in Session : queue["S11"][s] \in Seq(answered)
  /\ \A s \in ready : \E c \in Created \cap answered : c.of = s

\* While the P-GW is asked to create a session, no other is created.
CreatedIsLast ==
  \A h \in Handler :
    kind[h] = "CreateSessionRequest" /\ pc[h] \in {"wait", "grant"} => IsLast(near[h])

\* What the P-GW's handlers have done by each of their positions.
PgwTypeOK ==
  /\ pgwImsi \in Session \cup {None} /\ pgwTeid \subseteq Session /\ reserved \subseteq Session
  /\ tunnel \in Session \cup {None}
  /\ at \in [ToPgw -> {"none", "lookup", "removeOld", "checkIEs", "respond", "register",
                       "setup", "done", "failed", "find", "remove"}]
  /\ old \in [ToPgw -> Session \cup {None}]
  /\ answered \subseteq ToPgw

PgwPositions ==
  /\ \A r \in ToPgw :
       /\ at[r] # "none" => r \in sent
       /\ r \in answered <=> at[r] \in {"register", "setup", "remove", "done"}
       /\ at[r] \in {"lookup", "removeOld", "checkIEs", "register", "setup"} =>
            r.kind = "CreateSessionRequest"
       /\ at[r] \in {"find", "remove"} => r.kind = "DeleteSessionRequest"
  /\ \A s \in pgwTeid : \E c \in Created : c.of = s

-----------------------------------------------------------------------------

LEMMA MoveFacts ==
  ASSUME IInv, NEW h \in Handler, SgwMove(h)
  PROVE  /\ Start(h) \/ Step(h)
         /\ UNCHANGED pgw
         /\ overlapped' = {} => overlapped = {} /\ (NextRequest(h) => Resting)
         /\ ~NextRequest(h) /\ ~AnswerArrives(h) => Step(h)
<1>1. \/ NextRequest(h) \/ AnswerArrives(h) \/ WaitMessageTimesOut(h) \/ SgwStep(h)
  BY DEF SgwMove, AnswerLost
<1>2. Start(h) \/ Step(h)
  BY <1>1, AreSteps
<1>3. UNCHANGED pgw /\ (overlapped' = {} => overlapped = {} /\ (NextRequest(h) => Resting))
  <2>1. CASE NextRequest(h)
    BY <2>1 DEF NextRequest
  <2>2. CASE ~NextRequest(h)
    BY <2>2 DEF SgwMove
  <2> QED
    BY <2>1, <2>2
<1>4. ~NextRequest(h) /\ ~AnswerArrives(h) => Step(h)
  BY <1>1 DEF SgwStep, NoAnswer, Step
<1> QED
  BY <1>2, <1>3, <1>4

\* A handler keeps its kind until it returns.
LEMMA StepKind ==
  ASSUME IInv, NEW h \in Handler, Step(h)
  PROVE  /\ pc[h] # "idle"
         /\ \/ /\ kind'[h] = kind[h] /\ pc'[h] # "idle"
               /\ near'[h] = near[h] \/ \E s \in Session : RegisterS11(h, s)
            \/ kind'[h] = "none" /\ pc'[h] = "idle"
<1> USE DEF IInv, TypeOK, Goto, Return, frames
<1>1. CASE \/ RelateFails(h) \/ MissingIE(h) \/ SendRequestFails(h)
           \/ BearerNotFound(h) \/ PassMessageTimesOut(h) \/ ModifyBearer(h)
           \/ BearerNotModified(h) \/ RemoveS11(h) \/ RemoveS5(h) \/ CreateRefused(h)
  BY <1>1 DEF RelateFails, MissingIE, SendRequestFails, BearerNotFound,
              PassMessageTimesOut, ModifyBearer, BearerNotModified, RemoveS11, RemoveS5, CreateRefused
<1>2. CASE \/ LookUpOld(h) \/ RemoveOld(h) \/ WaitMessageTimesOut(h) \/ BearerFound(h)
           \/ \E s \in Session : RegisterS11(h, s)
           \/ RegisterS5(h) \/ SendRequest(h) \/ IncSequence(h) \/ CreateAccepted(h) \/ WaitMessage(h)
  BY <1>2 DEF LookUpOld, RemoveOld, WaitMessageTimesOut, BearerFound, RegisterS11,
              RegisterS5, SendRequest, IncSequence, CreateAccepted, WaitMessage
<1>3. CASE Grant(h) \/ GrantFails(h) \/ UnexpectedType(h) \/ Reject(h) \/ PassMessageTo(h)
  BY <1>3 DEF Grant, GrantFails, UnexpectedType, Reject, PassMessageTo
<1>4. CASE DeleteWithoutBearer(h) \/ ApplyWithoutBearer(h)
  BY <1>4 DEF DeleteWithoutBearer, ApplyWithoutBearer, Crash
<1>5. CASE Relate(h)
  <2>1. kind' = kind /\ kind[h] \in (Requests \cup Responses) \ {"CreateSessionRequest"}
    BY <1>5 DEF Relate, Positions
  <2>2. pc'[h] \in {"pass", "request", "check", "apply"}
    BY <1>5, <2>1, RelateGoes DEF Requests, Responses
  <2> QED
    BY <1>5, <2>1, <2>2 DEF Relate
<1> QED
  BY <1>1, <1>2, <1>3, <1>4, <1>5 DEF Step

\* A datagram finds an idle handler.
LEMMA StartKind ==
  ASSUME IInv, NEW h \in Handler, NextRequest(h) \/ AnswerArrives(h)
  PROVE  /\ pc[h] = "idle" /\ pc'[h] \in {"lookup", "relate", "apply"}
         /\ NextRequest(h) => kind'[h] \in Requests
         /\ AnswerArrives(h) => kind'[h] \in Responses
         /\ kind'[h] = "CreateSessionRequest" => pc'[h] = "lookup" /\ near'[h] = near[h]
<1>1. ASSUME NextRequest(h)
      PROVE  /\ pc[h] = "idle" /\ pc'[h] \in {"lookup", "relate"} /\ kind'[h] \in Requests
             /\ kind'[h] = "CreateSessionRequest" => pc'[h] = "lookup" /\ near'[h] = near[h]
  BY <1>1 DEF NextRequest, StartCreate, StartRequest, AfterLookUp, Goto, IInv, TypeOK,
              Requests
<1>2. ASSUME AnswerArrives(h)
      PROVE  /\ pc[h] = "idle" /\ pc'[h] \in {"relate", "apply"} /\ kind'[h] \in Responses
             /\ kind'[h] # "CreateSessionRequest"
  <2>1. PICK r \in sent : StartResponse(h, r)
    BY <1>2 DEF AnswerArrives
  <2>2. ResponseTo(r.kind) \in Responses
    BY Routes DEF IInv, TypeOK, Message
  <2>3. kind'[h] = ResponseTo(r.kind)
    BY <2>1 DEF StartResponse, IInv, TypeOK
  <2>4. pc[h] = "idle" /\ pc'[h] \in {"relate", "apply"}
    BY <2>1 DEF StartResponse, IInv, TypeOK, AfterLookUp, Goto
  <2> QED
    BY <2>2, <2>3, <2>4 DEF Responses
<1> QED
  BY <1>1, <1>2

LEMMA MoveIdle ==
  ASSUME IInv, IdleHasNone, NEW h \in Handler, SgwMove(h)
  PROVE  IdleHasNone'
<1>1. \A g \in Handler \ {h} : UNCHANGED <<pc[g], kind[g]>>
  BY MoveFacts, OnlyItself
<1>2. pc'[h] = "idle" => kind'[h] = "none"
  BY MoveFacts, StartKind, StepKind
<1> QED
  BY <1>1, <1>2 DEF IdleHasNone

\* The positions of the handler that creates a session, and what it does to get there.
LEMMA CreateGoes ==
  ASSUME IInv, NEW h \in Handler, Step(h), kind'[h] = "CreateSessionRequest"
  PROVE  /\ kind[h] = "CreateSessionRequest"
         /\ \/ near'[h] = near[h]
            \/ \E s \in Session : RegisterS11(h, s)
         /\ pc'[h] # "lookup"
         /\ pc'[h] \notin {"removeOld", "checkIEs", "registerS5"} =>
              pc[h] \notin {"lookup", "removeOld", "checkIEs"}
         /\ pc'[h] = "removeOld" => LookUpOld(h)
         /\ pc'[h] = "checkIEs" => LookUpOld(h) \/ RemoveOld(h)
         /\ pc'[h] = "registerS5" => \E s \in Session : RegisterS11(h, s)
         /\ pc'[h] = "request" => RegisterS5(h)
         /\ pc'[h] = "send" => IncSequence(h)
         /\ pc'[h] = "wait" => SendRequest(h)
         /\ pc'[h] = "grant" => WaitMessage(h)
         /\ pc'[h] = "reject" => WaitMessage(h) \/ WaitMessageTimesOut(h)
<1> USE DEF IInv, TypeOK, Goto, Return, frames
<1>0. kind[h] = "CreateSessionRequest"
  BY StepKind
<1>1. CASE \/ RelateFails(h) \/ MissingIE(h) \/ SendRequestFails(h)
           \/ BearerNotFound(h) \/ PassMessageTimesOut(h) \/ ModifyBearer(h)
           \/ BearerNotModified(h) \/ RemoveS11(h) \/ RemoveS5(h) \/ CreateRefused(h)
  BY <1>1 DEF RelateFails, MissingIE, SendRequestFails, BearerNotFound,
              PassMessageTimesOut, ModifyBearer, BearerNotModified, RemoveS11, RemoveS5, CreateRefused
<1>2. CASE \/ LookUpOld(h) \/ RemoveOld(h) \/ WaitMessageTimesOut(h)
           \/ \E s \in Session : RegisterS11(h, s)
           \/ RegisterS5(h) \/ IncSequence(h) \/ SendRequest(h) \/ WaitMessage(h)
  <2>1. CASE LookUpOld(h) \/ RemoveOld(h) \/ WaitMessageTimesOut(h)
    BY <2>1 DEF LookUpOld, RemoveOld, WaitMessageTimesOut
  <2>2. CASE \E s \in Session : RegisterS11(h, s)
    BY <2>2 DEF RegisterS11
  <2>3. CASE RegisterS5(h) \/ IncSequence(h) \/ SendRequest(h) \/ WaitMessage(h)
    BY <2>3 DEF RegisterS5, IncSequence, SendRequest, WaitMessage
  <2> QED
    BY <1>2, <2>1, <2>2, <2>3
<1>3. CASE Grant(h) \/ GrantFails(h) \/ UnexpectedType(h) \/ Reject(h)
  BY <1>3 DEF Grant, GrantFails, UnexpectedType, Reject
<1>4. CASE \/ DeleteWithoutBearer(h) \/ ApplyWithoutBearer(h) \/ PassMessageTo(h)
           \/ BearerFound(h) \/ CreateAccepted(h) \/ Relate(h)
  BY <1>0, <1>4 DEF DeleteWithoutBearer, ApplyWithoutBearer, PassMessageTo, BearerFound,
                    CreateAccepted, Relate, Positions, Responses
<1> QED
  BY <1>1, <1>2, <1>3, <1>4 DEF Step

-----------------------------------------------------------------------------

\* Which steps change the registries, the relay and what is known of sessions.
LEMMA Changes ==
  ASSUME IInv, NEW h \in Handler, SgwMove(h)
  PROVE  /\ ~RegisterS5(h) /\ ~RemoveS5(h) =>
              byImsi'["S5"] = byImsi["S5"] /\ byTeid'["S5"] = byTeid["S5"]
         /\ (~\E s \in Session : RegisterS11(h, s)) /\ ~RemoveOld(h) /\ ~RemoveS11(h) =>
              byImsi'["S11"] = byImsi["S11"] /\ byTeid'["S11"] = byTeid["S11"]
         /\ (~\E s \in Session : RegisterS11(h, s)) => used' = used
         /\ ~ModifyBearer(h) => relay' = relay
         /\ ~CreateAccepted(h) => ready' = ready /\ reachable' = reachable
<1> USE DEF IInv, TypeOK, conns, sessions, learnt, Iface
<1>1. CASE NextRequest(h) \/ AnswerArrives(h)
  <2>1. Start(h)
    BY <1>1, AreSteps, MoveFacts DEF NextRequest, AnswerArrives, Start, Created, Message
  <2> QED
    BY <2>1 DEF Start, StartCreate, StartRequest, StartResponse
<1>2. CASE \E s \in Session : RegisterS11(h, s)
  BY <1>2 DEF RegisterS11, RegisterSession
<1>3. CASE RegisterS5(h)
  BY <1>3 DEF RegisterS5, RegisterSession
<1>4. CASE RemoveOld(h) \/ RemoveS11(h) \/ RemoveS5(h)
  BY <1>4 DEF RemoveOld, RemoveS11, RemoveS5, RemoveSession
<1>5. CASE ModifyBearer(h) \/ CreateAccepted(h)
  BY <1>5 DEF ModifyBearer, CreateAccepted
<1>6. CASE \/ Relate(h) \/ RelateFails(h) \/ LookUpOld(h) \/ MissingIE(h)
           \/ IncSequence(h) \/ SendRequest(h) \/ WaitMessage(h) \/ WaitMessageTimesOut(h)
           \/ Grant(h) \/ Reject(h) \/ BearerNotFound(h) \/ BearerFound(h)
           \/ PassMessageTo(h) \/ DeleteWithoutBearer(h) \/ ApplyWithoutBearer(h)
  BY <1>6 DEF Relate, RelateFails, LookUpOld, MissingIE, IncSequence, SendRequest,
     WaitMessage, WaitMessageTimesOut, Grant, Reject, BearerNotModified, BearerNotFound,
     BearerFound, PassMessageTo, DeleteWithoutBearer, ApplyWithoutBearer
<1> QED
  BY <1>1, <1>2, <1>3, <1>4, <1>5, <1>6 DEF SgwMove, SgwStep, AnswerLost, NoAnswer

\* While a request is handled nobody sends another that creates a session.
LEMMA BusyLast ==
  ASSUME IInv, OneProcedure, NEW h \in Handler, SgwMove(h), NEW g \in Handler, Busy(g),
         ~(g = h /\ SendRequest(h) /\ kind[h] = "CreateSessionRequest")
  PROVE  Created' = Created
<1>1. CASE SendRequest(h) /\ kind[h] = "CreateSessionRequest"
  BY <1>1 DEF OneProcedure, Busy, SendRequest, Requests
<1>2. CASE ~(SendRequest(h) /\ kind[h] = "CreateSessionRequest")
  BY <1>2, MoveFacts, LastStays
<1> QED
  BY <1>1, <1>2

LEMMA MoveModifications ==
  ASSUME GatewaysInv, Modifications, NEW h \in Handler, SgwMove(h)
  PROVE  Modifications'
<1>0. IInv /\ OneProcedure /\ (Start(h) \/ Step(h))
  BY MoveFacts DEF GatewaysInv
<1> SUFFICES ASSUME NEW g \in Handler, kind'[g] = "ModifyBearerRequest",
                    pc'[g] \in {"relate", "apply"}
             PROVE  /\ pc'[g] = "relate" => IsLast(near[g])'
                    /\ pc'[g] = "apply" => far'[g] = near'[g]
  BY DEF Modifications
<1>1. CASE UNCHANGED <<pc[g], kind[g], near[g], far[g]>>
  <2>1. Created' = Created
    <3>1. Busy(g)
      BY <1>1 DEF Busy, Requests
    <3>2. ~(g = h /\ SendRequest(h))
      BY <1>1 DEF SendRequest
    <3> QED
      BY <1>0, <3>1, <3>2, BusyLast
  <2> QED
    BY <1>1, <2>1 DEF Modifications, IsLast
<1>2. CASE g # h
  BY <1>0, <1>1, <1>2, OnlyItself
<1>3. CASE g = h /\ NextRequest(h)
  <2>1. PICK r \in Created : /\ \A later \in Created : later.seq <= r.seq
                             /\ StartRequest(h, "ModifyBearerRequest", r.of)
    BY <1>0, <1>3 DEF NextRequest, StartCreate, StartRequest, IInv, TypeOK
  <2>2. pc'[h] = "relate" /\ near'[h] = r.of /\ sent' = sent
    BY <1>0, <2>1 DEF StartRequest, AfterLookUp, Goto, IInv, TypeOK
  <2> QED
    BY <1>3, <2>1, <2>2 DEF IsLast, Created
<1>4. CASE g = h /\ AnswerArrives(h)
  BY <1>0, <1>4, AnswerNotBusy DEF Requests
<1>5. CASE g = h /\ Relate(h)
  <2>1. kind[h] = "ModifyBearerRequest" /\ pc[h] = "relate"
    BY <1>5 DEF Relate
  <2>2. IsLast(near[h])
    BY <2>1 DEF Modifications
  <2>3. pc'[h] = "apply"
    BY <1>0, <1>5, <2>1, RelateGoes DEF Requests, IInv, TypeOK
  <2> QED
    BY <1>5, <2>1, <2>2, <2>3, RelatesToLast
<1>6. CASE g = h /\ Step(h) /\ ~Relate(h)
  <2>1. kind[h] = "ModifyBearerRequest"
    BY <1>0, <1>6, StepKind
  <2>2. UNCHANGED <<pc[h], kind[h], near[h], far[h]>>
    BY <1>0, <1>6, <2>1
       DEF IInv, TypeOK, Positions, Goto, Return, frames, Step, Crash, RelateFails, LookUpOld,
           RemoveOld, MissingIE, RegisterS11, RegisterS5, IncSequence, SendRequest,
           SendRequestFails, DeleteWithoutBearer, WaitMessage, WaitMessageTimesOut, Grant, GrantFails, UnexpectedType, Reject,
           RemoveS11, CreateRefused, CreateAccepted, ModifyBearer, ApplyWithoutBearer,
           BearerNotModified, BearerNotFound, BearerFound, PassMessageTo, PassMessageTimesOut, RemoveS5
  <2> QED
    BY <1>1, <1>6, <2>2
<1> QED
  BY <1>2, <1>3, <1>4, <1>5, <1>6, MoveFacts, <1>0

LEMMA MoveRelayed ==
  ASSUME IInv, Modifications, RelayedToOwn, NEW h \in Handler, SgwMove(h)
  PROVE  RelayedToOwn'
<1>1. CASE ModifyBearer(h)
  <2>1. far[h] = near[h]
    BY <1>1 DEF ModifyBearer, Modifications
  <2> QED
    BY <1>1, <2>1 DEF ModifyBearer, RelayedToOwn
<1>2. CASE ~ModifyBearer(h)
  BY <1>2, Changes DEF RelayedToOwn
<1> QED
  BY <1>1, <1>2

LEMMA MoveCreatedIsLast ==
  ASSUME IInv, OneProcedure, Ordered, CreatedIsLast, NEW h \in Handler, SgwMove(h)
  PROVE  CreatedIsLast'
<1>0. Start(h) \/ Step(h)
  BY MoveFacts
<1> SUFFICES ASSUME NEW g \in Handler, kind'[g] = "CreateSessionRequest",
                    pc'[g] \in {"wait", "grant"}
             PROVE  IsLast(near[g])'
  BY DEF CreatedIsLast
<1>1. CASE g = h /\ SendRequest(h) /\ kind[h] = "CreateSessionRequest"
  <2>1. IsLast(near[h])'
    BY <1>1, LastIsNew
  <2> QED
    BY <1>1, <2>1
<1>2. CASE ~(g = h /\ SendRequest(h) /\ kind[h] = "CreateSessionRequest")
  <2>1. kind[g] = "CreateSessionRequest" /\ pc[g] \in {"wait", "grant"} /\ near'[g] = near[g]
    <3>1. CASE g # h
      BY <1>0, <3>1, OnlyItself
    <3>2. CASE g = h /\ ~Step(h)
      BY <3>2, StartKind, MoveFacts
    <3>3. CASE g = h /\ Step(h)
      <4>1. WaitMessage(h)
        BY <1>2, <3>3, CreateGoes
      <4> QED
        BY <3>3, <4>1 DEF WaitMessage
    <3> QED
      BY <3>1, <3>2, <3>3
  <2>2. Created' = Created
    BY <1>2, <2>1, BusyLast DEF Busy, Requests
  <2> QED
    BY <2>1, <2>2 DEF CreatedIsLast, IsLast
<1> QED
  BY <1>1, <1>2

\* A request to create or delete a session is one to the P-GW.
LEMMA SentToPgw ==
  ASSUME IInv, Ordered, Given, NEW r \in sent, r.kind \in {"CreateSessionRequest", "DeleteSessionRequest"}
  PROVE  r \in ToPgw /\ Arrives(r.kind) = "S11"
<1>1. /\ r \in Message /\ r.seq >= 1 /\ r.seq <= sequence["S5"] /\ Arrives(r.kind) = "S11"
      /\ r.seq \in Nat
  BY DEF IInv, TypeOK, Ordered, Given, Arrives, Other
<1>2. sequence["S5"] \in Nat /\ sequence["S5"] <= MaxSeq["S5"] /\ MaxSeq["S5"] \in Nat
  BY GatewayAssumption DEF IInv, TypeOK, Ordered, Iface
<1>3. r.seq \in 1 .. MaxSeq["S5"]
  BY <1>1, <1>2
<1> QED
  BY <1>1, <1>3 DEF Message, ToPgw

LEMMA AnsweredSent ==
  ASSUME PgwTypeOK, PgwPositions
  PROVE  answered \subseteq sent
BY DEF PgwTypeOK, PgwPositions

\* What SendRequest sends to the P-GW.
LEMMA SendsNew ==
  ASSUME IInv, Ordered, NEW h \in Handler, SendRequest(h)
  PROVE  \E new \in Message :
           /\ new.kind = kind[h] /\ new.of = far[h]
           /\ new.seq = num'[h] /\ new.seq >= 1
           /\ sent \subseteq sent' /\ sent' \subseteq sent \cup {new}
           /\ new \in sent' /\ kind[h] = "DeleteSessionRequest" => far[h] \in ready
           /\ kind[h] # "DeleteSessionRequest" => new \in sent'
           /\ \A r \in sent : Arrives(r.kind) = Arrives(new.kind) => r.seq < new.seq
           /\ UNCHANGED <<kind, near, far, queue, msg, conns, sessions, used, told>>
           /\ pc[h] = "send" /\ pc'[h] = "wait"
<1> DEFINE new == [kind |-> kind[h], of |-> far[h], seq |-> num[h]]
<1>1. /\ kind[h] \in Requests \ {"ModifyBearerRequest"} /\ far[h] \in Session
      /\ num[h] \in Int
  BY DEF SendRequest, IInv, TypeOK, Positions, Frames
<1>3. new \in Message
  BY <1>1 DEF Message
<1>4. num[h] >= 1 /\ \A r \in sent : Arrives(r.kind) = Arrives(kind[h]) => r.seq < num[h]
  BY DEF Ordered, SendRequest
<1>5. /\ sent' = IF kind[h] = "DeleteSessionRequest" /\ far[h] \notin ready THEN sent
                 ELSE sent \cup {new}
      /\ num'[h] = num[h]
      /\ pc[h] = "send" /\ pc'[h] = "wait"
      /\ UNCHANGED <<kind, near, far, queue, msg, conns, sessions, used, told>>
  BY DEF SendRequest, IInv, TypeOK, Goto
<1>6. \A r \in sent : r.seq < new.seq \/ Arrives(r.kind) # Arrives(new.kind)
  BY <1>4
<1>7. new \in sent' /\ kind[h] = "DeleteSessionRequest" => far[h] \in ready
  <2>1. new \notin sent
    BY <1>1, <1>6
  <2> QED
    BY <1>5, <2>1
<1> QED
  BY <1>3, <1>4, <1>5, <1>6, <1>7

LEMMA MoveCreatedOnce ==
  ASSUME IInv, OneProcedure, Ordered, CreatedOnce, Given, PgwTypeOK, PgwPositions,
         NEW h \in Handler, SgwMove(h)
  PROVE  CreatedOnce'
<1>0. (Start(h) \/ Step(h)) /\ answered' = answered
  BY MoveFacts DEF pgw
<1>1. used \subseteq used'
  <2>1. CASE \E s \in Session : RegisterS11(h, s)
    BY <2>1 DEF RegisterS11
  <2> QED
    BY <2>1, Changes
<1>2. ASSUME NEW g \in Handler, kind'[g] = "CreateSessionRequest",
             pc'[g] \in {"registerS5", "request", "send"}
      PROVE  \A c \in Created : c.of # near'[g]
  <2>1. CASE g # h
    BY <1>0, <1>2, <2>1, OnlyItself DEF CreatedOnce
  <2>2. CASE g = h /\ \E s \in Session : RegisterS11(h, s)
    BY <2>2 DEF RegisterS11, CreatedOnce, IInv, TypeOK
  <2>3. CASE g = h /\ ~\E s \in Session : RegisterS11(h, s)
    <3>1. Step(h)
      BY <1>2, <2>3, StartKind, MoveFacts
    <3>2. kind[h] = "CreateSessionRequest" /\ (RegisterS5(h) \/ IncSequence(h))
      BY <1>2, <2>3, <3>1, CreateGoes
    <3> QED
      BY <1>2, <2>3, <3>2 DEF RegisterS5, IncSequence, CreatedOnce
  <2> QED
    BY <2>1, <2>2, <2>3
<1>3. CASE ~SendRequest(h)
  <2>1. sent' = sent /\ Created' = Created
    BY <1>0, <1>3, Untouched DEF Created
  <2> QED
    BY <1>0, <1>1, <1>2, <2>1 DEF CreatedOnce
<1>4. CASE SendRequest(h)
  <2>1. PICK new \in Message :
           /\ new.kind = kind[h] /\ new.of = far[h]
           /\ sent \subseteq sent' /\ sent' \subseteq sent \cup {new}
           /\ new \in sent' /\ kind[h] = "DeleteSessionRequest" => far[h] \in ready
           /\ \A r \in sent : Arrives(r.kind) = Arrives(new.kind) => r.seq < new.seq
           /\ pc[h] = "send" /\ pc'[h] = "wait" /\ kind' = kind /\ near' = near
    BY <1>4, SendsNew
  <2>2. CASE kind[h] = "CreateSessionRequest"
    <3>1. far[h] = near[h] /\ near[h] \in used
      BY <2>1, <2>2, GatewayAssumption DEF IInv, Creations, Refusals, Frames
    <3>2. Created' \subseteq Created \cup {new} /\ \A c \in Created : c.of # new.of
      BY <2>1, <2>2, <3>1 DEF Created, CreatedOnce
    <3>3. ASSUME NEW g \in Handler, kind'[g] = "CreateSessionRequest",
                 pc'[g] \in {"registerS5", "request", "send"}
          PROVE  FALSE
      <4>1. g # h /\ kind[g] = "CreateSessionRequest" /\ pc[g] = pc'[g]
        BY <1>0, <2>1, <3>3, OnlyItself
      <4> QED
        BY <2>1, <2>2, <3>3, <4>1 DEF OneProcedure, Busy, Requests
    <3>4. \A d \in sent' : d.kind = "DeleteSessionRequest" => d \in sent
      BY <2>1, <2>2
    <3>5. Created \subseteq Created'
      BY <2>1 DEF Created
    <3> QED
      BY <1>0, <1>1, <3>1, <3>2, <3>3, <3>4, <3>5, <2>1 DEF CreatedOnce
  <2>3. CASE kind[h] # "CreateSessionRequest"
    <3>1. Created' = Created
      BY <2>1, <2>3 DEF Created
    <3>2. ASSUME new \in sent', new.kind = "DeleteSessionRequest"
          PROVE  \E c \in Created \cap answered : c.of = new.of /\ c.seq < new.seq
      <4>1. PICK c \in Created \cap answered : c.of = far[h]
        BY <2>1, <3>2 DEF Given
      <4>2. c \in sent /\ Arrives(c.kind) = Arrives(new.kind)
        BY <3>2 DEF Created, Arrives
      <4> QED
        BY <2>1, <4>1, <4>2
    <3> QED
      BY <1>0, <1>1, <1>2, <2>1, <3>1, <3>2 DEF CreatedOnce
  <2> QED
    BY <2>2, <2>3
<1> QED
  BY <1>3, <1>4

LEMMA MoveKnownOnS5 ==
  ASSUME IInv, Ordered, CreatedOnce, KnownOnS5, Given, PgwTypeOK, NEW h \in Handler, SgwMove(h)
  PROVE  KnownOnS5'
<1>0. (Start(h) \/ Step(h)) /\ Deleted' = Deleted
  BY MoveFacts DEF pgw, Deleted
<1>1. CASE RemoveS5(h)
  <2>1. /\ kind[h] = "DeleteSessionResponse" /\ msg[h] \in sent /\ near[h] = msg[h].of
        /\ kind[h] = ResponseTo(msg[h].kind)
    BY <1>1 DEF RemoveS5, IInv, Positions, Frames, Responses
  <2>2. msg[h].kind = "DeleteSessionRequest" /\ msg[h] \in answered
    BY <2>1 DEF Given, FromPgw, ResponseTo, IInv, TypeOK, Message, Requests
  <2>3. near[h] \in Deleted /\ \E c \in Created : c.of = near[h]
    BY <2>1, <2>2 DEF Deleted, CreatedOnce
  <2>4. /\ byTeid'["S5"] = byTeid["S5"] \ {near[h]} /\ sent' = sent
        /\ pc'[h] = "idle" /\ kind'[h] = "none"
    BY <1>1 DEF RemoveS5, RemoveSession, Iface, IInv, TypeOK, Return, Goto
  <2>5. Created' = Created
    BY <2>4 DEF Created
  <2>6. ASSUME NEW g \in Handler, kind'[g] = "CreateSessionRequest", pc'[g] \in {"request", "send"}
        PROVE  near'[g] \in byTeid'["S5"]
    <3>1. g # h
      BY <2>4, <2>6
    <3>2. kind[g] = "CreateSessionRequest" /\ pc[g] \in {"request", "send"} /\ near'[g] = near[g]
      BY <1>0, <2>6, <3>1, OnlyItself
    <3> QED
      BY <2>3, <2>4, <3>2 DEF CreatedOnce, KnownOnS5
  <2> QED
    BY <1>0, <2>3, <2>4, <2>5, <2>6 DEF KnownOnS5
<1>2. CASE ~RemoveS5(h)
  <2>1. byTeid["S5"] \subseteq byTeid'["S5"]
    <3>1. CASE RegisterS5(h)
      BY <3>1 DEF RegisterS5, RegisterSession, Iface, IInv, TypeOK
    <3> QED
      BY <1>2, <3>1, Changes
  <2>2. ASSUME NEW g \in Handler, kind'[g] = "CreateSessionRequest", pc'[g] \in {"request", "send"}
        PROVE  near'[g] \in byTeid'["S5"]
    <3>1. CASE g # h
      BY <1>0, <2>1, <2>2, <3>1, OnlyItself DEF KnownOnS5
    <3>2. CASE g = h
      <4>1. kind[h] = "CreateSessionRequest" /\ (RegisterS5(h) \/ IncSequence(h))
        BY <2>2, <3>2, StartKind, MoveFacts, CreateGoes
      <4>2. CASE RegisterS5(h)
        BY <3>2, <4>2 DEF RegisterS5, RegisterSession, Iface, IInv, TypeOK
      <4>3. CASE IncSequence(h)
        BY <2>1, <3>2, <4>1, <4>3 DEF IncSequence, KnownOnS5
      <4> QED
        BY <4>1, <4>2, <4>3
    <3> QED
      BY <3>1, <3>2
  <2>3. CASE SendRequest(h) /\ kind[h] = "CreateSessionRequest"
    <3>1. near[h] \in byTeid["S5"] /\ far[h] = near[h]
      BY <2>3 DEF SendRequest, KnownOnS5, IInv, Creations
    <3>2. \A c \in Created' : c \in Created \/ c.of = near[h]
      BY <2>3, <3>1, SendsNew DEF Created
    <3> QED
      BY <1>0, <2>1, <2>2, <3>1, <3>2 DEF KnownOnS5
  <2>4. CASE ~(SendRequest(h) /\ kind[h] = "CreateSessionRequest")
    <3>1. Created' = Created
      BY <1>0, <2>4, LastStays
    <3> QED
      BY <1>0, <2>1, <2>2, <3>1 DEF KnownOnS5
  <2> QED
    BY <2>3, <2>4
<1> QED
  BY <1>1, <1>2

\* The answers that are in a queue, after a step that takes or puts one.
LEMMA MoveQueues ==
  ASSUME IInv, Given, PgwTypeOK, NEW h \in Handler, SgwMove(h)
  PROVE  \A s \in Session : queue'["S11"][s] \in Seq(answered)
<1> USE DEF IInv, TypeOK
<1>0. (Start(h) \/ Step(h)) /\ "S11" \in Iface
  BY MoveFacts DEF Iface
<1>1. CASE WaitMessage(h)
  <2>1. PICK i \in Iface, s \in Session : i = Arrives(kind[h]) /\ s = near[h]
    BY <1>1, Routes DEF WaitMessage, Positions, Frames
  <2>2. \A j \in Iface, t \in Session :
          queue'[j][t] = IF j = i /\ t = s THEN Tail(queue[i][s]) ELSE queue[j][t]
    BY <1>1, <2>1 DEF WaitMessage
  <2>3. queue[i][s] # <<>>
    BY <1>1, <2>1 DEF WaitMessage
  <2>4. \A t \in Session : queue["S11"][t] \in Seq(answered)
    BY DEF Given
  <2>5. i = "S11" => Tail(queue[i][s]) \in Seq(answered)
    <3> SUFFICES ASSUME i = "S11" PROVE Tail(queue[i][s]) \in Seq(answered)
      OBVIOUS
    <3>1. queue[i][s] \in Seq(answered)
      BY <2>4
    <3> HIDE DEF IInv, TypeOK
    <3> QED
      BY <2>3, <3>1, HeadTailProperties
  <2> HIDE DEF IInv, TypeOK
  <2>6. ASSUME NEW t \in Session
        PROVE  queue'["S11"][t] \in Seq(answered)
    <3>1. CASE i = "S11" /\ t = s
      BY <1>0, <2>2, <2>5, <3>1
    <3>2. CASE ~(i = "S11" /\ t = s)
      BY <1>0, <2>2, <2>4, <3>2
    <3> QED
      BY <3>1, <3>2
  <2> QED
    BY <2>6
<1>2. CASE PassMessageTo(h)
  <2>1. /\ kind[h] \in Responses /\ far[h] \in Session
        /\ msg[h] \in Message /\ kind[h] = ResponseTo(msg[h].kind)
    BY <1>2 DEF PassMessageTo, Positions, Frames
  <2>2. PICK i \in Iface, s \in Session, m \in Message :
          i = Other(Arrives(kind[h])) /\ s = far[h] /\ m = msg[h]
    BY <2>1, Routes
  <2>3. \A j \in Iface, t \in Session :
          queue'[j][t] = IF j = i /\ t = s THEN Append(queue[j][t], m) ELSE queue[j][t]
    BY <1>2, <2>2, EnqueueType DEF PassMessageTo
  <2>4. CASE kind[h] \in FromPgw
    <3>1. m \in answered
      BY <2>2, <2>4 DEF Given
    <3>2. Append(queue["S11"][s], m) \in Seq(answered)
      BY <3>1, AppendProperties DEF Given
    <3>3. \A t \in Session : queue'["S11"][t] \in {queue["S11"][t], Append(queue["S11"][t], m)}
      BY <1>0, <2>3
    <3>4. \A t \in Session \ {s} : queue'["S11"][t] = queue["S11"][t]
      BY <1>0, <2>3
    <3> QED
      BY <3>2, <3>3, <3>4 DEF Given
  <2>5. CASE kind[h] \notin FromPgw
    <3>1. i = "S5"
      BY <2>1, <2>2, <2>5 DEF FromPgw, Responses, Arrives, Other
    <3> QED
      BY <1>0, <2>3, <3>1 DEF Given
  <2> QED
    BY <2>4, <2>5
<1>3. CASE ~WaitMessage(h) /\ ~PassMessageTo(h)
  BY <1>0, <1>3, Untouched DEF Given
<1> QED
  BY <1>1, <1>2, <1>3

\* A handler keeps the message that it has, unless it waits for one.
LEMMA StepMsg ==
  ASSUME IInv, NEW h \in Handler, Step(h), kind'[h] \in Responses
  PROVE  /\ kind[h] = kind'[h] /\ msg'[h] = msg[h] /\ near'[h] = near[h]
         /\ pc'[h] = "pass" => Relate(h)
         /\ pc'[h] # "removeS5" => pc[h] # "removeS5"
<1> USE DEF IInv, TypeOK, Goto, Return, frames, Positions
<1>0. kind[h] = kind'[h]
  BY StepKind DEF Responses
<1>1. CASE \/ RelateFails(h) \/ MissingIE(h) \/ SendRequestFails(h)
           \/ BearerNotFound(h) \/ PassMessageTimesOut(h) \/ ModifyBearer(h)
           \/ BearerNotModified(h) \/ RemoveS11(h) \/ RemoveS5(h) \/ CreateRefused(h)
           \/ Grant(h) \/ GrantFails(h) \/ UnexpectedType(h) \/ Reject(h)
  BY <1>0, <1>1 DEF RelateFails, MissingIE, SendRequestFails, BearerNotFound,
              PassMessageTimesOut, ModifyBearer, BearerNotModified, RemoveS11, RemoveS5, CreateRefused,
              Grant, GrantFails, UnexpectedType, Reject, Responses, Requests
<1>2. CASE \/ LookUpOld(h) \/ RemoveOld(h) \/ WaitMessageTimesOut(h) \/ BearerFound(h)
           \/ \E s \in Session : RegisterS11(h, s)
           \/ RegisterS5(h) \/ IncSequence(h) \/ SendRequest(h) \/ WaitMessage(h)
  BY <1>0, <1>2 DEF LookUpOld, RemoveOld, WaitMessageTimesOut, BearerFound, RegisterS11,
              RegisterS5, IncSequence, SendRequest, WaitMessage, Responses, Requests
<1>3. CASE CreateAccepted(h) \/ PassMessageTo(h)
  BY <1>0, <1>3 DEF CreateAccepted, PassMessageTo, Responses
<1>4. CASE DeleteWithoutBearer(h) \/ ApplyWithoutBearer(h)
  BY <1>4 DEF DeleteWithoutBearer, ApplyWithoutBearer, Crash
<1>5. CASE Relate(h)
  BY <1>0, <1>5, RelateGoes DEF Relate, Responses
<1> QED
  BY <1>0, <1>1, <1>2, <1>3, <1>4, <1>5 DEF Step

LEMMA MoveGiven ==
  ASSUME IInv, Ordered, Given, PgwTypeOK, PgwPositions, NEW h \in Handler, SgwMove(h)
  PROVE  Given'
<1>0. (Start(h) \/ Step(h)) /\ answered' = answered
  BY MoveFacts DEF pgw
<1>1. sent \subseteq sent' /\ Created \subseteq Created'
  BY <1>0, Growing DEF Created
<1>2. \A r \in sent' : r.seq >= 1
  <2>1. CASE SendRequest(h)
    <3>1. PICK new \in Message : new.seq >= 1 /\ sent' \subseteq sent \cup {new}
      BY <2>1, SendsNew
    <3> QED
      BY <3>1 DEF Given
  <2>2. CASE ~SendRequest(h)
    BY <1>0, <2>2, Untouched DEF Given
  <2> QED
    BY <2>1, <2>2
<1>3. ASSUME NEW g \in Handler, kind'[g] \in FromPgw
      PROVE  msg'[g] \in answered
  <2>1. CASE g # h
    BY <1>0, <1>3, <2>1, OnlyItself DEF Given
  <2>2. CASE g = h /\ Step(h)
    BY <1>3, <2>2, StepMsg DEF Given, FromPgw, Responses
  <2>3. CASE g = h /\ ~Step(h)
    <3>1. AnswerArrives(h)
      BY <1>3, <2>3, StartKind, MoveFacts DEF FromPgw, Requests
    <3>2. PICK r \in sent : (r \in ToPgw => r \in answered) /\ StartResponse(h, r)
      BY <3>1 DEF AnswerArrives
    <3>3. kind'[h] = ResponseTo(r.kind) /\ msg'[h] = r
      BY <3>2 DEF StartResponse, IInv, TypeOK
    <3>4. r.kind \in {"CreateSessionRequest", "DeleteSessionRequest"}
      BY <1>3, <2>3, <3>3 DEF FromPgw, ResponseTo, IInv, TypeOK, Message, Requests
    <3> QED
      BY <2>3, <3>2, <3>3, <3>4, SentToPgw
  <2> QED
    BY <2>1, <2>2, <2>3
<1>4. ASSUME NEW s \in ready'
      PROVE  \E c \in Created \cap answered : c.of = s
  <2>1. CASE CreateAccepted(h)
    <3>1. /\ kind[h] = "CreateSessionResponse" /\ near[h] = msg[h].of
          /\ kind[h] = ResponseTo(msg[h].kind) /\ msg[h] \in sent
          /\ ready' = ready \cup {near[h]}
      BY <2>1 DEF CreateAccepted, StoreAnswer, IInv, Frames, Responses
    <3>2. msg[h].kind = "CreateSessionRequest" /\ msg[h] \in answered
      BY <3>1 DEF Given, FromPgw, ResponseTo, IInv, TypeOK, Message, Requests
    <3>3. msg[h] \in Created
      BY <3>1, <3>2 DEF Created
    <3> QED
      BY <1>4, <3>1, <3>2, <3>3 DEF Given
  <2>2. CASE ~CreateAccepted(h)
    BY <1>4, <2>2, Changes DEF Given
  <2> QED
    BY <2>1, <2>2
<1> QED
  BY <1>0, <1>1, <1>2, <1>3, <1>4, MoveQueues DEF Given

LEMMA MovePgw ==
  ASSUME IInv, PgwTypeOK, PgwPositions, NEW h \in Handler, SgwMove(h)
  PROVE  PgwTypeOK' /\ PgwPositions'
<1>1. UNCHANGED pgw /\ sent \subseteq sent' /\ Created \subseteq Created'
  BY MoveFacts, Growing DEF Created
<1>2. PgwTypeOK'
  BY <1>1 DEF PgwTypeOK, pgw
<1> QED
  BY <1>1, <1>2 DEF PgwPositions, pgw

-----------------------------------------------------------------------------

(* While no request reaches a gateway where a handler still runs: the S-GW.               *)

OneRequest ==
  \A g, h \in Handler : kind[g] \in Requests /\ kind[h] \in Requests => g = h

\* S11 has the session that is found under the IMSI and no other, and it is the one that is
\* created or deleted.
S11IsOne ==
  /\ byTeid["S11"] = {byImsi["S11"]} \ {None}
  /\ \A h \in Handler :
       /\ pc[h] = "removeOld" => far[h] = byImsi["S11"]
       /\ pc[h] = "checkIEs" => byImsi["S11"] = None
       /\ \/ /\ kind[h] = "CreateSessionRequest"
             /\ pc[h] \notin {"lookup", "removeOld", "checkIEs"}
          \/ kind[h] = "DeleteSessionRequest"
          => near[h] = byImsi["S11"]

AcceptedIsLast == \A s \in accepted \cap byTeid["S11"] : IsLast(s)

\* What the MME holds is found under the IMSI on S5, unless the P-GW has deleted it.
S5IsOwn ==
  /\ \A s \in accepted \cap byTeid["S11"] : s \in Deleted \/ byImsi["S5"] = s
  /\ \A h \in Handler :
       kind[h] = "CreateSessionRequest" /\ pc[h] \in {"request", "send", "wait", "grant"} =>
         byImsi["S5"] = near[h]

\* The answer to a deletion is for the session on S11, if that is still there.
DeletedIsOnS11 ==
  \A g \in Handler : kind[g] = "DeleteSessionResponse" =>
    /\ byTeid["S11"] \subseteq {near[g]}
    /\ \A h \in Handler : kind[h] # "CreateSessionRequest"

\* The answer has not been passed on.
Answering(g) == kind[g] \in FromPgw /\ pc[g] # "removeS5"

\* One answer of the P-GW is under way at most: its handler has it, or the queue of the
\* handler that waits for it.
AnswersAwaited ==
  /\ \A g \in Handler : Answering(g) =>
       \E h \in Handler : Awaits(h, msg[g]) /\ (pc[g] = "pass" => far[g] = near[h])
  /\ \A s \in Session : queue["S11"][s] # <<>> =>
       /\ Len(queue["S11"][s]) = 1
       /\ \E h \in Handler : Awaits(h, Head(queue["S11"][s])) /\ near[h] = s
  /\ \A g, h \in Handler : Answering(g) /\ Answering(h) => g = h
  /\ \A g \in Handler, s \in Session : Answering(g) => queue["S11"][s] = <<>>

-----------------------------------------------------------------------------

LEMMA MoveOneRequest ==
  ASSUME IInv, IdleHasNone, OneRequest, NEW h \in Handler, SgwMove(h), overlapped' = {}
  PROVE  OneRequest'
<1>1. \A g \in Handler \ {h} : kind'[g] = kind[g]
  BY MoveFacts, OnlyItself
<1>2. CASE NextRequest(h)
  BY <1>1, <1>2, MoveFacts DEF Resting, IdleHasNone, OneRequest, Requests
<1>3. CASE AnswerArrives(h)
  BY <1>1, <1>3, AnswerNotBusy DEF OneRequest
<1>4. CASE ~NextRequest(h) /\ ~AnswerArrives(h)
  <2>1. kind'[h] \in {kind[h], "none"}
    BY <1>4, MoveFacts, StepKind
  <2> QED
    BY <1>1, <2>1 DEF OneRequest, Requests
<1> QED
  BY <1>2, <1>3, <1>4

LEMMA MoveS11IsOne ==
  ASSUME IInv, IInv', OneRequest, OneRequest', S11IsOne, NEW h \in Handler, SgwMove(h)
  PROVE  S11IsOne'
<1>0. \A g \in Handler \ {h} : UNCHANGED <<pc[g], kind[g], near[g], far[g]>>
  BY MoveFacts, OnlyItself
<1>p. \A g \in Handler :
        /\ pc[g] \in {"removeOld", "checkIEs"} => kind[g] \in Requests
        /\ pc'[g] \in {"removeOld", "checkIEs"} => kind'[g] = "CreateSessionRequest"
        /\ pc[g] = "removeS11" => kind[g] \in {"CreateSessionRequest", "DeleteSessionRequest"}
  BY DEF IInv, Positions, Requests
<1>1. CASE \E s \in Session : RegisterS11(h, s)
  <2>1. PICK s \in Session : RegisterS11(h, s)
    BY <1>1
  <2>2. byTeid["S11"] = {} /\ kind[h] = "CreateSessionRequest"
    BY <2>1 DEF RegisterS11, S11IsOne, IInv, Positions
  <2>3. /\ byImsi'["S11"] = s /\ byTeid'["S11"] = {s} /\ s # None
        /\ near'[h] = s /\ pc'[h] = "registerS5" /\ kind' = kind
    BY <2>1, <2>2, GatewayAssumption
       DEF RegisterS11, RegisterSession, Iface, IInv, TypeOK, Goto
  <2>4. \A g \in Handler : kind'[g] \in Requests => g = h
    BY <2>2, <2>3 DEF OneRequest, Requests
  <2> QED
    BY <1>p, <2>3, <2>4 DEF S11IsOne, Requests
<1>2. CASE RemoveOld(h)
  <2>1. far[h] = byImsi["S11"] /\ kind[h] = "CreateSessionRequest"
    BY <1>2 DEF RemoveOld, S11IsOne, IInv, Positions
  <2>2. /\ byImsi'["S11"] = None /\ byTeid'["S11"] = byTeid["S11"] \ {far[h]}
        /\ pc'[h] = "checkIEs" /\ kind' = kind
    BY <1>2 DEF RemoveOld, RemoveSession, Iface, IInv, TypeOK, Goto
  <2>3. \A g \in Handler : kind'[g] \in Requests => g = h
    BY <2>1, <2>2 DEF OneRequest, Requests
  <2> QED
    BY <1>p, <2>1, <2>2, <2>3 DEF S11IsOne, Requests
<1>3. CASE RemoveS11(h)
  <2>1. near[h] = byImsi["S11"] /\ kind[h] \in Requests
    BY <1>3, <1>p DEF RemoveS11, S11IsOne, Requests
  <2>2. /\ byImsi'["S11"] = None /\ byTeid'["S11"] = byTeid["S11"] \ {near[h]}
        /\ pc'[h] = "idle" /\ kind'[h] = "none"
    BY <1>3 DEF RemoveS11, RemoveSession, Iface, IInv, TypeOK, Goto, Return
  <2>3. \A g \in Handler : kind'[g] \notin Requests
    BY <1>0, <2>1, <2>2 DEF OneRequest, Requests
  <2> QED
    BY <1>p, <2>1, <2>2, <2>3 DEF S11IsOne, Requests
<1>4. CASE /\ ~\E s \in Session : RegisterS11(h, s)
           /\ ~RemoveOld(h) /\ ~RemoveS11(h)
  <2>1. byImsi'["S11"] = byImsi["S11"] /\ byTeid'["S11"] = byTeid["S11"]
    BY <1>4, Changes
  <2>2. CASE NextRequest(h)
    <3>1. /\ kind'[h] = "DeleteSessionRequest" => near'[h] \in byTeid["S11"]
          /\ pc'[h] \in {"lookup", "relate"}
      BY <2>2 DEF NextRequest, StartCreate, StartRequest, Arrives, IInv, TypeOK, Goto,
                  AfterLookUp, Requests
    <3>2. kind'[h] = "CreateSessionRequest" => pc'[h] = "lookup"
      BY <2>2, StartKind
    <3> QED
      BY <1>0, <2>1, <3>1, <3>2 DEF S11IsOne
  <2>3. CASE AnswerArrives(h)
    <3>1. kind'[h] \in Responses /\ pc'[h] \in {"lookup", "relate", "apply"}
      BY <2>3, StartKind
    <3> QED
      BY <1>0, <2>1, <3>1 DEF S11IsOne, Responses
  <2>4. CASE Step(h) /\ kind'[h] = "CreateSessionRequest"
    <3>1. pc'[h] \in {"removeOld", "checkIEs"} =>
            /\ pc'[h] = "removeOld" => far'[h] = byImsi["S11"]
            /\ pc'[h] = "checkIEs" => byImsi["S11"] = None
      BY <1>4, <2>4, CreateGoes DEF LookUpOld, Previous, IInv, TypeOK, Goto
    <3>2. pc'[h] \notin {"lookup", "removeOld", "checkIEs"} => near'[h] = byImsi["S11"]
      BY <1>4, <2>4, CreateGoes DEF S11IsOne
    <3> QED
      BY <1>0, <2>1, <2>4, <3>1, <3>2 DEF S11IsOne
  <2>5. CASE Step(h) /\ kind'[h] # "CreateSessionRequest"
    <3>1. kind'[h] = "DeleteSessionRequest" => near'[h] = near[h] /\ kind[h] = kind'[h]
      BY <1>4, <2>5, StepKind
    <3> QED
      BY <1>0, <1>p, <2>1, <2>5, <3>1 DEF S11IsOne
  <2> QED
    BY <2>2, <2>3, <2>4, <2>5, MoveFacts
<1> QED
  BY <1>1, <1>2, <1>3, <1>4

\* What the MME was told of was created, and is registered on S11 no more.
LEMMA AcceptedUsed ==
  ASSUME IInv, Ordered, CreatedOnce, Given
  PROVE  accepted \subseteq used
BY DEF IInv, AcceptedIsReady, Ordered, CreatedOnce, Given

LEMMA MoveAcceptedIsLast ==
  ASSUME IInv, Ordered, CreatedOnce, Given, CreatedIsLast, S11IsOne, AcceptedIsLast,
         NEW h \in Handler, SgwMove(h)
  PROVE  AcceptedIsLast'
<1>0. Start(h) \/ Step(h)
  BY MoveFacts
<1>1. CASE \E s \in Session : RegisterS11(h, s)
  <2>1. PICK s \in Session : RegisterS11(h, s)
    BY <1>1
  <2>2. /\ s \notin accepted /\ byTeid'["S11"] = byTeid["S11"] \cup {s}
        /\ UNCHANGED <<accepted, sent>>
    BY <2>1, AcceptedUsed DEF RegisterS11, RegisterSession, Iface, IInv, TypeOK, told
  <2> QED
    BY <2>2 DEF AcceptedIsLast, IsLast, Created
<1>2. CASE SendRequest(h) /\ kind[h] = "CreateSessionRequest"
  <2>1. near'[h] = near[h] /\ UNCHANGED <<accepted, byTeid>> /\ pc[h] = "send"
    BY <1>2 DEF SendRequest, told, conns
  <2>2. byTeid["S11"] \subseteq {near[h]}
    BY <1>2, <2>1 DEF S11IsOne
  <2> QED
    BY <1>2, <2>1, <2>2, LastIsNew DEF AcceptedIsLast
<1>3. CASE Grant(h)
  <2>1. /\ accepted' \subseteq accepted \cup {near[h]} /\ UNCHANGED <<byTeid, sent>>
        /\ accepted' # accepted => kind[h] = "CreateSessionRequest" /\ pc[h] = "grant"
    BY <1>3 DEF Grant, conns
  <2>2. accepted' # accepted => IsLast(near[h])
    BY <2>1 DEF CreatedIsLast
  <2> QED
    BY <2>1, <2>2 DEF AcceptedIsLast, IsLast, Created
<1>4. CASE /\ ~\E s \in Session : RegisterS11(h, s)
           /\ ~(SendRequest(h) /\ kind[h] = "CreateSessionRequest") /\ ~Grant(h)
  <2>1. byTeid'["S11"] \subseteq byTeid["S11"] /\ Created' = Created /\ accepted' = accepted
    BY <1>0, <1>4, RegisteredOnce, LastStays, Untouched
  <2> QED
    BY <2>1 DEF AcceptedIsLast, IsLast
<1> QED
  BY <1>1, <1>2, <1>3, <1>4

LEMMA MoveS5IsOwn ==
  ASSUME IInv, Ordered, OneRequest, OneRequest', CreatedOnce, Given, S11IsOne, S5IsOwn,
         DeletedIsOnS11, NEW h \in Handler, SgwMove(h)
  PROVE  S5IsOwn'
<1>0. (Start(h) \/ Step(h)) /\ Deleted' = Deleted
  BY MoveFacts DEF pgw, Deleted
<1>h. \A g \in Handler \ {h} : UNCHANGED <<pc[g], kind[g], near[g]>>
  BY <1>0, OnlyItself
<1>1. CASE RegisterS5(h)
  <2>1. /\ byImsi'["S5"] = near[h] /\ byTeid'["S11"] = byTeid["S11"] /\ near' = near
        /\ kind' = kind /\ kind[h] = "CreateSessionRequest" /\ pc[h] = "registerS5"
        /\ accepted' = accepted
    BY <1>1 DEF RegisterS5, RegisterSession, Iface, IInv, TypeOK, Positions, told
  <2>2. byTeid["S11"] \subseteq {near[h]}
    BY <2>1 DEF S11IsOne
  <2>3. \A g \in Handler : kind'[g] = "CreateSessionRequest" => g = h
    BY <2>1 DEF OneRequest, Requests
  <2> QED
    BY <2>1, <2>2, <2>3 DEF S5IsOwn
<1>2. CASE RemoveS5(h)
  <2>1. /\ kind[h] = "DeleteSessionResponse" /\ near[h] = msg[h].of
        /\ kind[h] = ResponseTo(msg[h].kind) /\ msg[h] \in sent
    BY <1>2 DEF RemoveS5, IInv, Positions, Frames, Responses
  <2>2. msg[h].kind = "DeleteSessionRequest" /\ msg[h] \in answered
    BY <2>1 DEF Given, FromPgw, ResponseTo, IInv, TypeOK, Message, Requests
  <2>3. near[h] \in Deleted /\ byTeid["S11"] \subseteq {near[h]}
    BY <2>1, <2>2 DEF Deleted, DeletedIsOnS11
  <2>4. /\ byTeid'["S11"] = byTeid["S11"] /\ accepted' = accepted /\ kind'[h] = "none"
    BY <1>2 DEF RemoveS5, RemoveSession, Iface, IInv, TypeOK, told, Return
  <2>5. \A g \in Handler : kind'[g] # "CreateSessionRequest"
    BY <1>h, <2>1, <2>4 DEF DeletedIsOnS11
  <2> QED
    BY <1>0, <2>3, <2>4, <2>5 DEF S5IsOwn
<1>3. CASE ~RegisterS5(h) /\ ~RemoveS5(h)
  <2>1. byImsi'["S5"] = byImsi["S5"]
    BY <1>3, Changes
  <2>2. ASSUME NEW g \in Handler, kind'[g] = "CreateSessionRequest",
               pc'[g] \in {"request", "send", "wait", "grant"}
        PROVE  byImsi'["S5"] = near'[g]
    <3>1. CASE g # h
      BY <1>h, <2>1, <2>2, <3>1 DEF S5IsOwn
    <3>2. CASE g = h
      <4>1. Step(h)
        BY <2>2, <3>2, MoveFacts, StartKind
      <4>2. kind[h] = "CreateSessionRequest" /\ (IncSequence(h) \/ SendRequest(h) \/ WaitMessage(h))
        BY <1>3, <2>2, <3>2, <4>1, CreateGoes
      <4>3. near' = near /\ pc[h] \in {"request", "send", "wait"}
        BY <4>2 DEF IncSequence, SendRequest, WaitMessage
      <4> QED
        BY <2>1, <3>2, <4>2, <4>3 DEF S5IsOwn
    <3> QED
      BY <3>1, <3>2
  <2>3. ASSUME NEW s \in accepted' \cap byTeid'["S11"]
        PROVE  s \in Deleted \/ byImsi'["S5"] = s
    <3>1. CASE \E r \in Session : RegisterS11(h, r)
      <4>1. s \in byTeid["S11"] \/ s \notin used
        BY <2>3, <3>1 DEF RegisterS11, RegisterSession, Iface, IInv, TypeOK, told
      <4>2. accepted' = accepted
        BY <3>1 DEF RegisterS11, told
      <4> QED
        BY <2>1, <2>3, <4>1, <4>2, AcceptedUsed DEF S5IsOwn
    <3>2. CASE Grant(h)
      <4>1. /\ accepted' \subseteq accepted \cup {near[h]} /\ UNCHANGED byTeid
            /\ accepted' # accepted => kind[h] = "CreateSessionRequest" /\ pc[h] = "grant"
        BY <3>2 DEF Grant, conns
      <4> QED
        BY <2>1, <2>3, <4>1 DEF S5IsOwn
    <3>3. CASE ~Grant(h) /\ ~\E r \in Session : RegisterS11(h, r)
      BY <1>0, <2>1, <2>3, <3>3, RegisteredOnce, Untouched DEF S5IsOwn
    <3> QED
      BY <3>1, <3>2, <3>3
  <2> QED
    BY <1>0, <2>2, <2>3 DEF S5IsOwn
<1> QED
  BY <1>1, <1>2, <1>3

LEMMA MoveDeletedIsOnS11 ==
  ASSUME GatewaysInv, IdleHasNone, OneRequest, S11IsOne, DeletedIsOnS11,
         NEW h \in Handler, SgwMove(h), overlapped' = {}
  PROVE  DeletedIsOnS11'
<1>0. IInv /\ Deletions /\ (Start(h) \/ Step(h))
  BY MoveFacts DEF GatewaysInv
<1>h. \A g \in Handler \ {h} : UNCHANGED <<pc[g], kind[g], near[g]>>
  BY <1>0, OnlyItself
<1> SUFFICES ASSUME NEW g \in Handler, kind'[g] = "DeleteSessionResponse"
             PROVE  /\ byTeid'["S11"] \subseteq {near'[g]}
                    /\ \A k \in Handler : kind'[k] # "CreateSessionRequest"
  BY DEF DeletedIsOnS11
<1>1. CASE g = h /\ AnswerArrives(h)
  <2>1. PICK r \in sent : StartResponse(h, r) /\ \E w \in Handler : Awaits(w, r)
    BY <1>1 DEF AnswerArrives
  <2>2. PICK w \in Handler : Awaits(w, r)
    BY <2>1
  <2>3. /\ kind'[h] = ResponseTo(r.kind) /\ near'[h] = r.of /\ pc[h] = "idle"
        /\ byTeid'["S11"] = byTeid["S11"]
    BY <1>0, <2>1 DEF StartResponse, IInv, TypeOK, conns
  <2>4. r.kind = "DeleteSessionRequest"
    BY <1>0, <1>1, <2>3 DEF ResponseTo, IInv, TypeOK, Message, Requests
  <2>5. kind[w] = "DeleteSessionRequest" /\ pc[w] = "wait" /\ num[w] = r.seq
    BY <2>2, <2>4 DEF Awaits
  <2>6. near[w] = r.of
    BY <1>0, <2>4, <2>5 DEF Deletions, Arrives
  <2>7. byTeid["S11"] \subseteq {near[w]}
    BY <2>5 DEF S11IsOne
  <2>8. \A k \in Handler : kind'[k] # "CreateSessionRequest"
    BY <1>h, <1>1, <2>5 DEF OneRequest, Requests
  <2> QED
    BY <1>1, <2>3, <2>6, <2>7, <2>8
<1>2. CASE ~(g = h /\ AnswerArrives(h))
  <2>1. kind[g] = "DeleteSessionResponse" /\ near'[g] = near[g]
    <3>1. CASE g # h
      BY <1>h, <3>1
    <3>2. CASE g = h
      <4>1. Step(h)
        BY <1>0, <1>2, <3>2, MoveFacts, StartKind DEF Requests
      <4> QED
        BY <1>0, <3>2, <4>1, StepMsg DEF Responses
    <3> QED
      BY <3>1, <3>2
  <2>2. ~NextRequest(h)
    BY <1>0, <2>1, MoveFacts DEF Resting, IdleHasNone
  <2>3. \A k \in Handler : kind'[k] # "CreateSessionRequest"
    <3>1. kind'[h] # "CreateSessionRequest"
      BY <1>0, <2>1, <2>2, MoveFacts, StartKind, StepKind DEF DeletedIsOnS11, Responses
    <3> QED
      BY <1>h, <2>1, <3>1 DEF DeletedIsOnS11
  <2>4. ~\E s \in Session : RegisterS11(h, s)
    BY <1>0, <2>1 DEF DeletedIsOnS11, RegisterS11, IInv, Positions
  <2> QED
    BY <1>0, <2>1, <2>3, <2>4, RegisteredOnce DEF DeletedIsOnS11
<1> QED
  BY <1>1, <1>2

\* An answer that the waiting handler has not been given yet is nowhere.
LEMMA NoneUnderWay ==
  ASSUME IInv, Ordered, OneRequest, Given, PgwTypeOK, AnswersAwaited,
         NEW w \in Handler, NEW r \in sent, Awaits(w, r), Unanswered(r) \/ r \notin answered
  PROVE  /\ \A g \in Handler : ~Answering(g)
         /\ \A s \in Session : queue["S11"][s] = <<>>
<1>1. kind[w] \in Requests
  BY DEF Awaits, IInv, Positions
<1>2. ASSUME NEW m \in sent, NEW x \in Handler, Awaits(x, m)
      PROVE  m = r
  <2>1. kind[x] \in Requests
    BY <1>2 DEF Awaits, IInv, Positions
  <2>2. x = w
    BY <1>1, <2>1 DEF OneRequest
  <2> QED
    BY <1>2, <2>2 DEF Awaits, Ordered
<1>3. ASSUME NEW g \in Handler, Answering(g)
      PROVE  FALSE
  <2>1. msg[g] \in sent /\ msg[g] \in answered
    BY <1>3 DEF Answering, IInv, Frames, FromPgw, Responses, Given
  <2>2. \E x \in Handler : Awaits(x, msg[g])
    BY <1>3 DEF AnswersAwaited
  <2>3. msg[g] = r
    BY <1>2, <2>1, <2>2
  <2> QED
    BY <2>1, <2>3 DEF Unanswered
<1>4. ASSUME NEW s \in Session, queue["S11"][s] # <<>>
      PROVE  FALSE
  <2> DEFINE q == queue["S11"][s]
  <2>1. q \in Seq(Carried("S11")) /\ q \in Seq(answered) /\ "S11" \in Iface
    BY DEF IInv, QueuesCarry, Given, Iface
  <2>2. Head(q) \in sent /\ Head(q) \in answered
    BY <1>4, <2>1, HeadTailProperties DEF Carried
  <2>3. \E x \in Handler : Awaits(x, Head(q))
    BY <1>4 DEF AnswersAwaited
  <2>4. Head(q) = r
    BY <1>2, <2>2, <2>3
  <2>5. 1 \in DOMAIN q /\ q[1] = Head(q)
    BY <1>4, <2>1, LenProperties, HeadTailProperties, EmptySeq
  <2>6. r \in Range(q)
    BY <2>4, <2>5 DEF Range
  <2> QED
    BY <2>1, <2>2, <2>4, <2>6 DEF Unanswered
<1> QED
  BY <1>3, <1>4

LEMMA WaitGoes ==
  ASSUME IInv, NEW h \in Handler, SgwMove(h), pc[h] = "wait"
  PROVE  WaitMessage(h) \/ NoAnswer(h) \/ AnswerLost(h)
<1>1. ~NextRequest(h) /\ ~AnswerArrives(h)
  BY StartKind
<1> QED
  BY <1>1 DEF SgwMove, SgwStep, Relate, RelateFails, LookUpOld, RemoveOld, MissingIE,
              RegisterS11, RegisterS5, IncSequence, SendRequest, DeleteWithoutBearer, Grant, Reject,
              RemoveS11, CreateAccepted, ModifyBearer, ApplyWithoutBearer, BearerNotModified, BearerNotFound,
              BearerFound, PassMessageTo, RemoveS5

\* The handler that waits takes the only answer there is.
LEMMA WaitTakesIt ==
  ASSUME IInv, OneRequest, AnswersAwaited, NEW h \in Handler, WaitMessage(h)
  PROVE  /\ \A g \in Handler : ~Answering(g)
         /\ \A s \in Session : queue'["S11"][s] = <<>>
<1> DEFINE q == queue["S11"][near[h]]
<1>0. /\ kind[h] \in Requests \ {"ModifyBearerRequest"} /\ pc[h] = "wait"
      /\ near[h] \in Session /\ Arrives(kind[h]) \in Iface
  BY Routes DEF WaitMessage, IInv, Positions, Frames
<1>1. \A x \in Handler : \A m : Awaits(x, m) => x = h /\ m.kind = kind[h]
  BY <1>0 DEF Awaits, OneRequest, IInv, Positions
<1>2. CASE Arrives(kind[h]) # "S11"
  <2>1. kind[h] = "DeleteBearerRequest"
    BY <1>0, <1>2 DEF Requests, Arrives
  <2>2. ASSUME NEW g \in Handler, Answering(g)
        PROVE  FALSE
    <3>1. msg[g].kind = "DeleteBearerRequest"
      BY <1>1, <2>1, <2>2 DEF AnswersAwaited
    <3>2. kind[g] = ResponseTo(msg[g].kind)
      BY <2>2 DEF Answering, FromPgw, Responses, IInv, Frames
    <3> QED
      BY <2>2, <3>1, <3>2 DEF Answering, FromPgw, ResponseTo
  <2>3. ASSUME NEW s \in Session, queue["S11"][s] # <<>>
        PROVE  FALSE
    <3>1. Head(queue["S11"][s]).kind = "DeleteBearerRequest"
      BY <1>1, <2>1, <2>3 DEF AnswersAwaited
    <3>2. queue["S11"][s] \in Seq(Carried("S11"))
      BY DEF IInv, QueuesCarry, Iface
    <3>3. Head(queue["S11"][s]) \in Carried("S11")
      BY <2>3, <3>2, HeadTailProperties
    <3> QED
      BY <3>1, <3>3 DEF Carried, Arrives
  <2>4. \A s \in Session : queue'["S11"][s] = queue["S11"][s]
    BY <1>0, <1>2 DEF WaitMessage, IInv, TypeOK, Iface
  <2> QED
    BY <2>2, <2>3, <2>4
<1>3. CASE Arrives(kind[h]) = "S11"
  <2>1. q # <<>>
    BY <1>3 DEF WaitMessage
  <2>2. Len(q) = 1 /\ q \in Seq(Message)
    BY <1>0, <2>1 DEF AnswersAwaited, IInv, TypeOK, Iface
  <2>3. Tail(q) = <<>>
    <3> HIDE DEF q
    <3>1. Tail(q) \in Seq(Message) /\ Len(Tail(q)) = 0
      BY <2>1, <2>2, HeadTailProperties
    <3> QED
      BY <3>1, EmptySeq
  <2>4. ASSUME NEW s \in Session, s # near[h]
        PROVE  queue["S11"][s] = <<>>
    BY <1>1, <2>4 DEF AnswersAwaited
  <2>5. \A s \in Session :
          queue'["S11"][s] = IF s = near[h] THEN Tail(q) ELSE queue["S11"][s]
    BY <1>0, <1>3 DEF WaitMessage, IInv, TypeOK, Iface
  <2>6. \A g \in Handler : ~Answering(g)
    BY <1>0, <2>1 DEF AnswersAwaited
  <2> QED
    BY <2>3, <2>4, <2>5, <2>6
<1> QED
  BY <1>2, <1>3

\* The handler of an answer relates it to the session of the handler that waits, for that is
\* the one on S11.
LEMMA AnswerRelates ==
  ASSUME IInv, S11IsOne, NEW g \in Handler, Relate(g), Answering(g),
         NEW h \in Handler, Awaits(h, msg[g])
  PROVE  far'[g] = near[h]
<1>1. kind[g] = ResponseTo(msg[g].kind) /\ msg[g] \in Message
  BY DEF Answering, FromPgw, Responses, IInv, Frames, TypeOK
<1>2. msg[g].kind \in {"CreateSessionRequest", "DeleteSessionRequest"}
  BY <1>1 DEF Answering, FromPgw, ResponseTo, Message, Requests
<1>3. near[h] = byImsi["S11"]
  BY <1>2 DEF Awaits, S11IsOne
<1>4. far'[g] = byImsi["S11"]
  BY DEF Relate, Answering, FromPgw, Arrives, Other, IInv, TypeOK
<1> QED
  BY <1>3, <1>4

LEMMA MoveAnswersAwaited ==
  ASSUME IInv, Ordered, IdleHasNone, OneRequest, S11IsOne, Given, PgwTypeOK, PgwPositions,
         ~pgwCrashed, AnswersAwaited, NEW h \in Handler, SgwMove(h), overlapped' = {}
  PROVE  AnswersAwaited'
<1>0. Start(h) \/ Step(h)
  BY MoveFacts
<1>h. \A g \in Handler \ {h} : UNCHANGED <<pc[g], kind[g], near[g], far[g], num[g], msg[g]>>
  BY <1>0, OnlyItself
<1>1. CASE NextRequest(h)
  <2>1. \A g \in Handler : pc[g] = "idle" /\ kind[g] = "none"
    BY <1>1, MoveFacts DEF Resting, IdleHasNone
  <2>2. \A s \in Session : queue["S11"][s] = <<>>
    BY <2>1 DEF AnswersAwaited, Awaits
  <2>3. queue' = queue
    BY <1>0, <2>1, Untouched DEF WaitMessage, PassMessageTo
  <2>4. \A g \in Handler : ~Answering(g)'
    BY <1>1, <1>h, <2>1, StartKind DEF Answering, FromPgw, Requests
  <2> QED
    BY <2>2, <2>3, <2>4 DEF AnswersAwaited
<1>2. CASE AnswerArrives(h)
  <2>1. PICK r \in sent : /\ \E w \in Handler : Awaits(w, r)
                          /\ Unanswered(r) /\ StartResponse(h, r)
    BY <1>2 DEF AnswerArrives
  <2>2. PICK w \in Handler : Awaits(w, r)
    BY <2>1
  <2>3. /\ \A g \in Handler : ~Answering(g)
        /\ \A s \in Session : queue["S11"][s] = <<>>
    BY <2>1, <2>2, NoneUnderWay
  <2>4. pc[h] = "idle" /\ msg'[h] = r /\ queue' = queue /\ pc'[h] # "pass"
    BY <1>2, <2>1, StartKind DEF StartResponse, IInv, TypeOK
  <2>5. Awaits(w, r)' /\ near'[w] = near[w]
    BY <1>h, <2>2, <2>4 DEF Awaits
  <2>6. \A g \in Handler : Answering(g)' => g = h
    BY <1>h, <2>3 DEF Answering
  <2> QED
    BY <2>3, <2>4, <2>5, <2>6 DEF AnswersAwaited, Awaits
<1>3. CASE WaitMessage(h)
  <2>1. kind' = kind /\ pc[h] = "wait"
    BY <1>3 DEF WaitMessage
  <2>2. \A g \in Handler : ~Answering(g)'
    BY <1>3, <1>h, <2>1, WaitTakesIt DEF Answering, IInv, Positions, FromPgw, Requests
  <2> QED
    BY <1>3, <2>2, WaitTakesIt DEF AnswersAwaited
<1>4. CASE NoAnswer(h) \/ AnswerLost(h)
  <2>1. PICK r \in sent : Awaits(h, r) /\ (Unanswered(r) \/ r \notin answered)
    BY <1>4, AnsweredSent DEF NoAnswer, AnswerLost, PgwPositions
  <2>2. /\ \A g \in Handler : ~Answering(g)
        /\ \A s \in Session : queue["S11"][s] = <<>>
    BY <2>1, NoneUnderWay
  <2>3. kind' = kind /\ queue' = queue /\ pc[h] = "wait"
    BY <1>4 DEF NoAnswer, AnswerLost, WaitMessageTimesOut
  <2>4. \A g \in Handler : ~Answering(g)'
    BY <1>h, <2>2, <2>3 DEF Answering, IInv, Positions, FromPgw, Requests
  <2> QED
    BY <2>2, <2>3, <2>4 DEF AnswersAwaited
<1>5. CASE PassMessageTo(h) /\ kind[h] \in FromPgw
  <2>1. Answering(h) /\ pc[h] = "pass"
    BY <1>5 DEF PassMessageTo, Answering
  <2>2. /\ far[h] \in Session /\ msg[h] \in Message
        /\ Other(Arrives(kind[h])) = "S11" /\ "S11" \in Iface
    BY <1>5 DEF PassMessageTo, IInv, TypeOK, Frames, FromPgw, Arrives, Other, Iface, Responses
  <2>3. PICK m \in Message, t \in Session : m = msg[h] /\ t = far[h]
    BY <2>2
  <2>4. PICK w \in Handler : Awaits(w, m) /\ near[w] = t
    BY <2>1, <2>3 DEF AnswersAwaited
  <2>5. /\ \A s \in Session : queue["S11"][s] = <<>>
        /\ \A g \in Handler : Answering(g) => g = h
    BY <2>1 DEF AnswersAwaited
  <2>6. /\ queue'["S11"][t] = Append(<<>>, m)
        /\ \A s \in Session \ {t} : queue'["S11"][s] = <<>>
    <3>1. Enqueue("S11", t, m)
      BY <1>5, <2>2, <2>3 DEF PassMessageTo
    <3>2. \A j \in Iface, s \in Session :
            queue'[j][s] = IF j = "S11" /\ s = t THEN Append(queue[j][s], m) ELSE queue[j][s]
      <4>1. /\ queue \in [Iface -> [Session -> Seq(Message)]]
            /\ \A j \in Iface, s \in Session : Len(queue[j][s]) <= QueueCap
        BY DEF IInv, TypeOK
      <4>2. t \in Session /\ m \in Message /\ "S11" \in Iface
        BY <2>2, <2>3
      <4> QED
        BY <3>1, <4>1, <4>2, EnqueueType
    <3>3. queue["S11"][t] = <<>>
      BY <2>5
    <3> QED
      BY <2>2, <2>5, <3>2, <3>3
  <2>7. Len(queue'["S11"][t]) = 1 /\ Head(queue'["S11"][t]) = m
    BY <2>6
  <2>8. Awaits(w, m)' /\ near'[w] = t
    <3>1. w # h
      BY <2>1, <2>4 DEF Awaits
    <3> QED
      BY <1>h, <2>4, <3>1 DEF Awaits
  <2>9. \A g \in Handler : ~Answering(g)'
    <3>1. pc'[h] = "removeS5" \/ kind'[h] = "none"
      BY <1>5 DEF PassMessageTo, Goto, Return, IInv, TypeOK
    <3> QED
      BY <1>h, <2>5, <3>1 DEF Answering, FromPgw
  <2>10. ASSUME NEW s \in Session, queue'["S11"][s] # <<>>
         PROVE  /\ Len(queue'["S11"][s]) = 1
                /\ \E x \in Handler : Awaits(x, Head(queue["S11"][s]))' /\ near'[x] = s
    <3>1. s = t
      BY <2>6, <2>10
    <3>2. Awaits(w, Head(queue["S11"][s]))'
      BY <2>7, <2>8, <3>1 DEF Awaits
    <3> QED
      BY <2>7, <2>8, <3>1, <3>2
  <2> QED
    BY <2>9, <2>10 DEF AnswersAwaited
<1>6. CASE /\ ~NextRequest(h) /\ ~AnswerArrives(h) /\ ~WaitMessage(h)
           /\ ~NoAnswer(h) /\ ~AnswerLost(h) /\ ~(PassMessageTo(h) /\ kind[h] \in FromPgw)
  <2>1. Step(h) /\ pc[h] # "wait"
    BY <1>6, MoveFacts, WaitGoes
  <2>2. \A s \in Session : queue'["S11"][s] = queue["S11"][s]
    <3>1. CASE PassMessageTo(h)
      <4>1. /\ far[h] \in Session /\ msg[h] \in Message /\ "S11" \in Iface /\ "S5" \in Iface
            /\ Other(Arrives(kind[h])) = "S5"
        BY <1>6, <3>1 DEF PassMessageTo, IInv, TypeOK, Frames, Positions, FromPgw, Arrives,
                          Other, Iface, Responses
      <4> QED
        BY <3>1, <4>1, EnqueueType DEF PassMessageTo, IInv, TypeOK
    <3>2. CASE ~PassMessageTo(h)
      BY <1>0, <1>6, <3>2, Untouched
    <3> QED
      BY <3>1, <3>2
  <2>3. \A x \in Handler : \A m : Awaits(x, m) => Awaits(x, m)' /\ near'[x] = near[x]
    BY <1>h, <2>1 DEF Awaits
  <2>4. ASSUME NEW g \in Handler, Answering(g)'
        PROVE  /\ Answering(g) /\ msg'[g] = msg[g]
               /\ \E x \in Handler :
                    Awaits(x, msg[g])' /\ (pc'[g] = "pass" => far'[g] = near'[x])
    <3>1. Answering(g) /\ msg'[g] = msg[g]
      <4>1. CASE g # h
        BY <1>h, <2>4, <4>1 DEF Answering
      <4>2. CASE g = h
        BY <2>1, <2>4, <4>2, StepMsg DEF Answering, FromPgw, Responses
      <4> QED
        BY <4>1, <4>2
    <3>2. PICK x \in Handler : Awaits(x, msg[g]) /\ (pc[g] = "pass" => far[g] = near[x])
      BY <3>1 DEF AnswersAwaited
    <3>3. pc'[g] = "pass" => far'[g] = near[x]
      <4>1. CASE g # h
        BY <1>h, <3>2, <4>1
      <4>2. CASE g = h
        BY <2>1, <2>4, <3>1, <3>2, <4>2, StepMsg, AnswerRelates
           DEF Answering, FromPgw, Responses
      <4> QED
        BY <4>1, <4>2
    <3>4. Awaits(x, msg[g])'
      BY <2>3, <3>1, <3>2 DEF Awaits
    <3> QED
      BY <2>3, <3>1, <3>2, <3>3, <3>4
  <2>5. ASSUME NEW s \in Session, queue'["S11"][s] # <<>>
        PROVE  /\ Len(queue'["S11"][s]) = 1
               /\ \E x \in Handler : Awaits(x, Head(queue["S11"][s]))' /\ near'[x] = s
    <3>1. queue'["S11"][s] = queue["S11"][s] /\ Len(queue["S11"][s]) = 1
      BY <2>2, <2>5 DEF AnswersAwaited
    <3>2. PICK x \in Handler : Awaits(x, Head(queue["S11"][s])) /\ near[x] = s
      BY <2>5, <3>1 DEF AnswersAwaited
    <3>3. Awaits(x, Head(queue["S11"][s]))'
      BY <2>3, <3>1, <3>2 DEF Awaits
    <3> QED
      BY <2>3, <3>1, <3>2, <3>3
  <2>6. \A g, k \in Handler : Answering(g)' /\ Answering(k)' => g = k
    BY <2>4 DEF AnswersAwaited
  <2>7. \A g \in Handler, s \in Session : Answering(g)' => queue'["S11"][s] = <<>>
    BY <2>2, <2>4 DEF AnswersAwaited
  <2> QED
    <3>1. \A g \in Handler : Answering(g)' =>
            \E x \in Handler : Awaits(x, msg[g])' /\ (pc'[g] = "pass" => far'[g] = near'[x])
      BY <2>4
    <3> QED
      BY <2>5, <2>6, <2>7, <3>1 DEF AnswersAwaited
<1> QED
  BY <1>1, <1>2, <1>3, <1>4, <1>5, <1>6

-----------------------------------------------------------------------------

(* The same of the P-GW.                                                                  *)

Active(r) == at[r] \notin {"none", "done", "failed"}

\* Requests are handled in their order.  One that has not arrived is waited for.
OneAtPgw ==
  /\ ~pgwCrashed
  /\ \A r, q \in sent \cap ToPgw :
       r.seq < q.seq /\ at[q] # "none" => at[r] \in {"done", "failed"}
  /\ \A r \in sent \cap ToPgw : at[r] = "none" => \E h \in Handler : Awaits(h, r)

\* The P-GW has the session that it finds under the IMSI and no other, and it is the one
\* that is created or deleted.
PgwIsOne ==
  /\ pgwTeid = {pgwImsi} \ {None}
  /\ \A r \in ToPgw :
       /\ at[r] = "removeOld" => old[r] = pgwImsi
       /\ at[r] \in {"checkIEs", "register"} => pgwImsi = None
       /\ at[r] = "respond" /\ r.kind = "CreateSessionRequest" => pgwImsi = None
       /\ at[r] = "setup" => pgwImsi = r.of
       /\ Active(r) /\ r.kind = "DeleteSessionRequest" => pgwImsi = r.of

TeidsReserved ==
  \A s \in reserved : \E c \in ToPgw :
    /\ c.of = s /\ c.kind = "CreateSessionRequest"
    /\ at[c] \in {"respond", "register", "failed"}

\* The session that was created last is the P-GW's, and its tunnel is the kernel's, if there
\* is one.
LastIsServed ==
  \A c \in Created \cap answered : (\A e \in Created : e.seq <= c.seq) /\ at[c] = "done" =>
    /\ pgwImsi = c.of \/ c.of \in Deleted
    /\ tunnel \in {c.of, None}

DeletedIsGone ==
  \A d \in answered : d.kind = "DeleteSessionRequest" =>
    /\ at[d] = "done" => d.of \notin pgwTeid
    /\ \A c \in Created : c.of = d.of => at[c] = "done"

-----------------------------------------------------------------------------

LEMMA MoveOneAtPgw ==
  ASSUME IInv, IInv', Ordered, OneRequest, Given, Given', PgwTypeOK, PgwPositions, AnswersAwaited,
         OneAtPgw, NEW h \in Handler, SgwMove(h)
  PROVE  OneAtPgw'
<1>0. (Start(h) \/ Step(h)) /\ UNCHANGED pgw /\ ToPgw' = ToPgw
  BY MoveFacts DEF ToPgw
<1>h. \A g \in Handler \ {h} : UNCHANGED <<pc[g], kind[g], num[g]>>
  BY <1>0, OnlyItself
<1>1. CASE SendRequest(h)
  <2>1. PICK new \in Message :
           /\ new.kind = kind[h] /\ new.seq = num'[h]
           /\ sent' \subseteq sent \cup {new} /\ sent \subseteq sent'
           /\ \A r \in sent : Arrives(r.kind) = Arrives(new.kind) => r.seq < new.seq
           /\ pc[h] = "send" /\ pc'[h] = "wait" /\ kind' = kind
    BY <1>1, SendsNew
  <2>2. Awaits(h, new)'
    BY <2>1 DEF Awaits
  <2>3. \A r \in sent, x \in Handler : Awaits(x, r) => Awaits(x, r)'
    BY <1>h, <2>1 DEF Awaits
  <2>4. \A r \in sent' \cap ToPgw : at[r] = "none" => \E x \in Handler : Awaits(x, r)'
    BY <2>1, <2>2, <2>3 DEF OneAtPgw
  <2>5. \A r, q \in sent' \cap ToPgw :
          r.seq < q.seq /\ at[q] # "none" => at[r] \in {"done", "failed"}
    <3> SUFFICES ASSUME NEW r \in sent' \cap ToPgw, NEW q \in sent' \cap ToPgw,
                        r.seq < q.seq, at[q] # "none"
                 PROVE  at[r] \in {"done", "failed"}
      OBVIOUS
    <3>1. q \in sent
      BY DEF PgwPositions
    <3>2. Arrives(q.kind) = "S11" /\ Arrives(r.kind) = "S11"
      BY DEF ToPgw, Arrives
    <3>3. r \in sent
      <4>1. r = new => q.seq < r.seq
        BY <2>1, <3>1, <3>2
      <4>2. r.seq \in Nat /\ q.seq \in Nat
        BY DEF ToPgw
      <4> QED
        BY <2>1, <4>1, <4>2
    <3> QED
      BY <3>1, <3>3 DEF OneAtPgw
  <2> QED
    BY <1>0, <2>4, <2>5 DEF OneAtPgw, pgw
<1>2. CASE ~SendRequest(h)
  <2>1. sent' = sent
    BY <1>0, <1>2, Untouched
  <2>2. ASSUME NEW r \in sent \cap ToPgw, at[r] = "none", NEW x \in Handler, Awaits(x, r)
        PROVE  Awaits(x, r)'
    <3>1. CASE x # h
      BY <1>h, <2>2, <3>1 DEF Awaits
    <3>2. CASE x = h
      <4>1. r \notin answered /\ at[r] # "failed" /\ kind[h] \in Requests
        BY <2>2, <3>2 DEF PgwPositions, Awaits, IInv, Positions
      <4>2. \A m \in sent : Awaits(h, m) => m = r
        BY <2>2, <3>2 DEF Awaits, Ordered
      <4>3. CASE WaitMessage(h)
        <5> DEFINE q == queue["S11"][near[h]]
        <5>1. /\ Arrives(kind[h]) = "S11" /\ near[h] \in Session /\ "S11" \in Iface
              /\ pc[h] = "wait"
          BY <2>2, <3>2 DEF Awaits, ToPgw, Arrives, IInv, Frames, Iface
        <5>2. q # <<>>
          BY <4>3, <5>1 DEF WaitMessage
        <5>3. Head(q) \in sent /\ Head(q) \in answered
          <6>1. q \in Seq(Carried("S11")) /\ q \in Seq(answered)
            BY <5>1 DEF Given, IInv, QueuesCarry
          <6> HIDE DEF q
          <6>2. Head(q) \in Carried("S11") /\ Head(q) \in answered
            BY <5>2, <6>1, HeadTailProperties
          <6> QED
            BY <6>2 DEF Carried
        <5>4. \E y \in Handler : Awaits(y, Head(q))
          BY <5>1, <5>2 DEF AnswersAwaited
        <5>5. Awaits(h, Head(q))
          BY <4>1, <5>4 DEF Awaits, OneRequest, IInv, Positions
        <5> QED
          BY <4>1, <4>2, <5>3, <5>5
      <4>4. CASE NoAnswer(h)
        <5>1. PICK m \in sent \cap ToPgw : Awaits(h, m) /\ (at[m] = "failed" \/ pgwCrashed)
          BY <4>4 DEF NoAnswer
        <5> QED
          BY <4>1, <4>2, <5>1 DEF OneAtPgw
      <4>5. CASE AnswerLost(h)
        <5>1. PICK m \in answered : Awaits(h, m)
          BY <4>5 DEF AnswerLost
        <5> QED
          BY <4>1, <4>2, <5>1, AnsweredSent
      <4> QED
        BY <2>2, <3>2, <4>3, <4>4, <4>5, WaitGoes DEF Awaits
    <3> QED
      BY <3>1, <3>2
  <2> QED
    BY <1>0, <2>1, <2>2 DEF OneAtPgw, pgw
<1> QED
  BY <1>1, <1>2

LEMMA MoveLeavesPgw ==
  ASSUME IInv, PgwTypeOK, PgwPositions, CreatedOnce, CreatedOnce',
         PgwIsOne, TeidsReserved, LastIsServed, DeletedIsGone,
         NEW h \in Handler, SgwMove(h)
  PROVE  PgwIsOne' /\ TeidsReserved' /\ LastIsServed' /\ DeletedIsGone'
<1>0. (Start(h) \/ Step(h)) /\ UNCHANGED pgw /\ ToPgw' = ToPgw
  BY MoveFacts DEF ToPgw
<1>1. PgwIsOne' /\ TeidsReserved' /\ Deleted' = Deleted
  BY <1>0 DEF PgwIsOne, TeidsReserved, Active, Deleted, pgw
<1>2. sent \subseteq sent' /\ Created \subseteq Created'
  BY <1>0, Growing DEF Created
<1>3. LastIsServed'
  <2>1. \A c \in Created' \cap answered : c \in Created
    BY AnsweredSent DEF Created
  <2> QED
    BY <1>0, <1>1, <1>2, <2>1 DEF LastIsServed, pgw
<1>4. DeletedIsGone'
  <2>1. ASSUME NEW d \in answered, d.kind = "DeleteSessionRequest",
               NEW c \in Created', c.of = d.of
        PROVE  c \in Created
    BY <1>2, <2>1, AnsweredSent DEF CreatedOnce
  <2> QED
    BY <1>0, <2>1 DEF DeletedIsGone, pgw
<1> QED
  BY <1>1, <1>3, <1>4

-----------------------------------------------------------------------------

(* The steps of the P-GW.                                                                 *)

\* A step of the P-GW, a request that reaches it included.
PgwMove(r) == (r \in sent /\ Deliver(r)) \/ PgwStep(r)

\* What a step of the P-GW leaves alone.
LEMMA PgwMoveFacts ==
  ASSUME PgwTypeOK, NEW r \in ToPgw, PgwMove(r)
  PROVE  /\ UNCHANGED vars
         /\ ~pgwCrashed
         /\ overlapped' = {} => overlapped = {} /\ (Deliver(r) => Pgw!PgwResting)
         /\ \A q \in ToPgw : q # r => at'[q] = at[q] /\ old'[q] = old[q]
         /\ answered \subseteq answered'
<1> USE DEF PgwTypeOK, Pgw!Goto, Pgw!Fail, Pgw!registry
<1>1. CASE Deliver(r)
  BY <1>1 DEF Deliver, Pgw!Arrive, Pgw!ArriveCreate, Pgw!ArriveDelete, Pgw!Discard,
              Pgw!ArriveEarly
<1>2. CASE PgwStep(r)
  <2>1. UNCHANGED <<vars, overlapped>> /\ ~pgwCrashed
    BY <1>2 DEF PgwStep, Pgw!Handle
  <2>2. /\ \A q \in ToPgw : q # r => at'[q] = at[q] /\ old'[q] = old[q]
        /\ answered \subseteq answered'
    BY <1>2 DEF PgwStep, Pgw!Handle, Pgw!LookUpOld, Pgw!RemoveOld, Pgw!MissingIE,
                Pgw!NewSenderFTEID, Pgw!Respond, Pgw!RespondFails, Pgw!RegisterSession,
                Pgw!SetupUPlane, Pgw!Find, Pgw!FindFails, Pgw!RemoveSession, Pgw!Remove
  <2>3. ~Deliver(r)
    BY <1>2 DEF PgwStep, Pgw!Handle, Pgw!LookUpOld, Pgw!RemoveOld, Pgw!MissingIE,
                Pgw!NewSenderFTEID, Pgw!Respond, Pgw!RespondFails, Pgw!RegisterSession,
                Pgw!SetupUPlane, Pgw!Find, Pgw!FindFails, Pgw!RemoveSession,
                Deliver, Pgw!Arrive, Pgw!ArriveCreate, Pgw!ArriveDelete, Pgw!Discard,
                Pgw!ArriveEarly
  <2> QED
    BY <2>1, <2>2, <2>3
<1> QED
  BY <1>1, <1>2 DEF PgwMove

LEMMA PgwMoveType ==
  ASSUME IInv, PgwTypeOK, NEW r \in ToPgw, PgwMove(r)
  PROVE  PgwTypeOK'
<1> USE DEF PgwTypeOK, Pgw!Goto, Pgw!Fail, Pgw!registry
<1>0. r.of \in Session /\ ToPgw' = ToPgw
  BY DEF ToPgw
<1>1. CASE Deliver(r)
  BY <1>0, <1>1 DEF Deliver, Pgw!Arrive, Pgw!ArriveCreate, Pgw!ArriveDelete, Pgw!Discard,
              Pgw!ArriveEarly
<1>2. CASE PgwStep(r)
  BY <1>0, <1>2 DEF PgwStep, Pgw!Handle, Pgw!LookUpOld, Pgw!RemoveOld, Pgw!MissingIE,
              Pgw!NewSenderFTEID, Pgw!Respond, Pgw!RespondFails, Pgw!RegisterSession,
              Pgw!SetupUPlane, Pgw!Find, Pgw!FindFails, Pgw!RemoveSession, Pgw!Remove
<1> QED
  BY <1>1, <1>2 DEF PgwMove

LEMMA PgwMovePositions ==
  ASSUME IInv, PgwTypeOK, PgwPositions, NEW r \in ToPgw, PgwMove(r)
  PROVE  PgwPositions'
<1> USE DEF PgwTypeOK, PgwPositions, Pgw!Goto, Pgw!Fail, Pgw!registry
<1>0. /\ ToPgw' = ToPgw /\ sent' = sent /\ Created' = Created
      /\ \A q \in ToPgw : q # r => at'[q] = at[q]
      /\ r.kind \in {"CreateSessionRequest", "DeleteSessionRequest"}
  BY PgwMoveFacts DEF ToPgw, vars, Created
<1>1. CASE Deliver(r) /\ r \in sent
  <2>1. answered' = answered /\ pgwTeid' = pgwTeid
    BY <1>1 DEF Deliver, Pgw!Arrive, Pgw!ArriveCreate, Pgw!ArriveDelete, Pgw!Discard,
                Pgw!ArriveEarly
  <2>2. /\ at[r] = "none"
        /\ \/ at'[r] = "lookup" /\ r.kind = "CreateSessionRequest"
           \/ at'[r] = "find" /\ r.kind = "DeleteSessionRequest"
           \/ at'[r] \in {"none", "failed"}
    BY <1>1 DEF Deliver, Pgw!Arrive, Pgw!ArriveCreate, Pgw!ArriveDelete, Pgw!Discard,
                Pgw!ArriveEarly
  <2> QED
    BY <1>0, <1>1, <2>1, <2>2
<1>2. CASE PgwStep(r)
  <2>0. r \in sent
    BY <1>2 DEF PgwStep, Pgw!Handle, Pgw!LookUpOld, Pgw!RemoveOld, Pgw!MissingIE,
                Pgw!NewSenderFTEID, Pgw!Respond, Pgw!RespondFails, Pgw!RegisterSession,
                Pgw!SetupUPlane, Pgw!Find, Pgw!FindFails, Pgw!RemoveSession
  <2>1. CASE Pgw!Respond(r)
    BY <1>0, <2>0, <2>1 DEF Pgw!Respond
  <2>2. CASE Pgw!RegisterSession(r)
    BY <1>0, <2>0, <2>2 DEF Pgw!RegisterSession, Created
  <2>3. CASE Pgw!RemoveOld(r) \/ Pgw!RemoveSession(r)
    BY <1>0, <2>0, <2>3 DEF Pgw!RemoveOld, Pgw!RemoveSession, Pgw!Remove
  <2>4. CASE \/ Pgw!LookUpOld(r) \/ Pgw!MissingIE(r) \/ Pgw!NewSenderFTEID(r)
             \/ Pgw!RespondFails(r) \/ Pgw!SetupUPlane(r) \/ Pgw!Find(r) \/ Pgw!FindFails(r)
    BY <1>0, <2>0, <2>4 DEF Pgw!LookUpOld, Pgw!MissingIE, Pgw!NewSenderFTEID,
       Pgw!RespondFails, Pgw!SetupUPlane, Pgw!Find, Pgw!FindFails
  <2> QED
    BY <1>2, <2>1, <2>2, <2>3, <2>4 DEF PgwStep, Pgw!Handle
<1> QED
  BY <1>1, <1>2 DEF PgwMove

\* What holds of the answers that were given holds of more.
LEMMA PgwMoveGives ==
  ASSUME IInv, CreatedOnce, KnownOnS5, Given, PgwTypeOK, NEW r \in ToPgw, PgwMove(r)
  PROVE  CreatedOnce' /\ KnownOnS5' /\ Given' /\ Deleted \subseteq Deleted'
<1>1. answered \subseteq answered' /\ UNCHANGED vars
  BY PgwMoveFacts
<1>2. Deleted \subseteq Deleted' /\ Created' = Created
  BY <1>1 DEF Deleted, Created, vars
<1>3. CreatedOnce'
  BY <1>1, <1>2 DEF CreatedOnce, vars, frames
<1>4. KnownOnS5'
  BY <1>1, <1>2 DEF KnownOnS5, vars, frames, conns
<1>5. Given'
  <2>1. \A s \in Session : queue["S11"][s] \in Seq(answered')
    BY <1>1, SeqMonotonic DEF Given
  <2> QED
    BY <1>1, <1>2, <2>1 DEF Given, vars, frames, sessions, learnt
<1> QED
  BY <1>2, <1>3, <1>4, <1>5

\* What only the S-GW changes.
LEMMA PgwMoveLeaves ==
  ASSUME IInv, NEW r \in ToPgw, PgwTypeOK, PgwMove(r)
  PROVE  /\ GatewaysInv => GatewaysInv'
         /\ IdleHasNone /\ Modifications /\ RelayedToOwn /\ CreatedIsLast =>
              IdleHasNone' /\ Modifications' /\ RelayedToOwn' /\ CreatedIsLast'
         /\ OneRequest /\ S11IsOne /\ AcceptedIsLast /\ DeletedIsOnS11 /\ AnswersAwaited =>
              OneRequest' /\ S11IsOne' /\ AcceptedIsLast' /\ DeletedIsOnS11' /\ AnswersAwaited'
<1>1. UNCHANGED vars
  BY PgwMoveFacts
<1>2. GatewaysInv => GatewaysInv'
  BY <1>1, StutterInv
     DEF GatewaysInv, vars, conns, numbers, frames, OneProcedure, Busy, Ordered, Sends,
         ImsiIsLast, IsLast, Created, Creating, Deletions, DeletedByOwnAnswer
<1>3. IdleHasNone /\ Modifications /\ RelayedToOwn /\ CreatedIsLast =>
        IdleHasNone' /\ Modifications' /\ RelayedToOwn' /\ CreatedIsLast'
  BY <1>1 DEF vars, conns, frames, sessions, learnt, IdleHasNone, Modifications, RelayedToOwn,
              CreatedIsLast, IsLast, Created
<1>4. OneRequest /\ S11IsOne /\ AcceptedIsLast /\ DeletedIsOnS11 =>
        OneRequest' /\ S11IsOne' /\ AcceptedIsLast' /\ DeletedIsOnS11'
  BY <1>1 DEF vars, conns, frames, told, OneRequest, S11IsOne, AcceptedIsLast,
              DeletedIsOnS11, IsLast, Created
<1>5. AnswersAwaited => AnswersAwaited'
  BY <1>1 DEF vars, frames, AnswersAwaited, Answering, Awaits
<1> QED
  BY <1>2, <1>3, <1>4, <1>5

LEMMA PgwMoveS5IsOwn ==
  ASSUME IInv, CreatedOnce, KnownOnS5, Given, PgwTypeOK, S5IsOwn, NEW r \in ToPgw, PgwMove(r)
  PROVE  S5IsOwn'
BY PgwMoveFacts, PgwMoveGives DEF S5IsOwn, vars, conns, frames, told

\* One handler of the P-GW runs at a time.
LEMMA OneActive ==
  ASSUME IInv, Ordered, PgwPositions, OneAtPgw, NEW r \in ToPgw, NEW q \in ToPgw, Active(r), Active(q)
  PROVE  r = q
<1>1. r \in sent /\ q \in sent
  BY DEF PgwPositions, Active
<1>2. Arrives(r.kind) = "S11" /\ Arrives(q.kind) = "S11" /\ r.seq \in Nat /\ q.seq \in Nat
  BY DEF ToPgw, Arrives
<1>3. ~(r.seq < q.seq) /\ ~(q.seq < r.seq)
  BY <1>1 DEF OneAtPgw, Active
<1>4. r.seq = q.seq
  BY <1>2, <1>3
<1> QED
  BY <1>1, <1>2, <1>4 DEF Ordered

\* Where a handler is when it takes a step, and that no other is at work.
LEMMA PgwMoveAlone ==
  ASSUME IInv, Ordered, PgwTypeOK, PgwPositions, OneAtPgw, NEW r \in ToPgw, PgwMove(r), overlapped' = {}
  PROVE  /\ r \in sent
         /\ Deliver(r) => at[r] = "none" /\ answered' = answered
         /\ PgwStep(r) => Active(r) /\ at'[r] # "none"
         /\ \A q \in ToPgw : q # r => ~Active(q) /\ at'[q] = at[q]
<1> USE DEF PgwTypeOK, Pgw!Goto, Pgw!Fail
<1>1. PgwStep(r) => Active(r) /\ at'[r] # "none"
  BY DEF PgwStep, Pgw!Handle, Pgw!LookUpOld, Pgw!RemoveOld, Pgw!MissingIE,
         Pgw!NewSenderFTEID, Pgw!Respond, Pgw!RespondFails, Pgw!RegisterSession,
         Pgw!SetupUPlane, Pgw!Find, Pgw!FindFails, Pgw!RemoveSession, Active
<1>2. Deliver(r) => at[r] = "none" /\ answered' = answered
  BY DEF Deliver, Pgw!Arrive, Pgw!ArriveCreate, Pgw!ArriveDelete, Pgw!Discard,
         Pgw!ArriveEarly
<1>3. \A q \in ToPgw : q # r => ~Active(q) /\ at'[q] = at[q]
  <2>1. CASE Deliver(r)
    BY <2>1, PgwMoveFacts DEF Pgw!PgwResting, Active
  <2>2. CASE PgwStep(r)
    BY <2>2, <1>1, PgwMoveFacts, OneActive
  <2> QED
    BY <2>1, <2>2 DEF PgwMove
<1> QED
  BY <1>1, <1>2, <1>3 DEF PgwMove, PgwPositions, Active

LEMMA PgwMoveOneAtPgw ==
  ASSUME IInv, Ordered, CreatedOnce, OneRequest, PgwTypeOK, PgwPositions, TeidsReserved, OneAtPgw,
         NEW r \in ToPgw, PgwMove(r), overlapped' = {}
  PROVE  OneAtPgw'
<1>0. /\ UNCHANGED <<sent, pc, kind, num>> /\ ToPgw' = ToPgw
      /\ \A q \in ToPgw : q # r => at'[q] = at[q]
  BY PgwMoveFacts DEF vars, frames, ToPgw
<1>a. \A h \in Handler, q \in ToPgw : Awaits(h, q)' = Awaits(h, q)
  BY <1>0 DEF Awaits
<1>1. CASE Deliver(r)
  <2>1. r \in sent /\ at[r] = "none" /\ Pgw!PgwResting
    BY <1>1, PgwMoveAlone, PgwMoveFacts
  <2>2. \A q \in sent \cap ToPgw : at[q] = "none" => q = r
    <3> SUFFICES ASSUME NEW q \in sent \cap ToPgw, at[q] = "none" PROVE q = r
      OBVIOUS
    <3>1. PICK g \in Handler : Awaits(g, q)
      BY DEF OneAtPgw
    <3>2. PICK h \in Handler : Awaits(h, r)
      BY <2>1 DEF OneAtPgw
    <3>3. kind[g] \in Requests /\ kind[h] \in Requests
      BY <3>1, <3>2 DEF Awaits, ToPgw, Requests
    <3>4. g = h
      BY <3>3 DEF OneRequest
    <3>5. q.kind = r.kind /\ q.seq = r.seq
      BY <3>1, <3>2, <3>4 DEF Awaits
    <3> QED
      BY <2>1, <3>5 DEF Ordered
  <2>3. ~pgwCrashed'
    <3> SUFFICES ASSUME Pgw!ArriveEarly(r) PROVE FALSE
      BY <1>1, PgwMoveFacts DEF Deliver, Pgw!Arrive, Pgw!ArriveCreate, Pgw!ArriveDelete,
                                Pgw!Discard, Pgw!Fail
    <3>1. r.of \in reserved /\ r.kind = "DeleteSessionRequest"
      BY DEF Pgw!ArriveEarly
    <3>2. PICK c \in ToPgw :
             /\ c.of = r.of /\ c.kind = "CreateSessionRequest"
             /\ at[c] \in {"respond", "register", "failed"}
      BY <3>1 DEF TeidsReserved
    <3>3. c \in Created /\ at[c] = "failed"
      BY <2>1, <3>2 DEF Created, PgwPositions, Pgw!PgwResting
    <3>4. PICK e \in Created \cap answered : e.of = r.of
      BY <2>1, <3>1 DEF CreatedOnce
    <3>5. c = e
      BY <3>2, <3>3, <3>4 DEF CreatedOnce
    <3> QED
      BY <3>3, <3>4, <3>5 DEF PgwPositions
  <2>4. \A p, q \in sent \cap ToPgw :
          p.seq < q.seq /\ at'[q] # "none" => at'[p] \in {"done", "failed"}
    <3> SUFFICES ASSUME NEW p \in sent \cap ToPgw, NEW q \in sent \cap ToPgw,
                        p.seq < q.seq, at'[q] # "none"
                 PROVE  at'[p] \in {"done", "failed"}
      OBVIOUS
    <3>1. p.seq \in Nat
      BY DEF ToPgw
    <3>2. CASE q = r
      BY <1>0, <2>1, <2>2, <3>1, <3>2 DEF Pgw!PgwResting
    <3>3. CASE q # r
      <4>1. at[p] \in {"done", "failed"}
        BY <1>0, <3>3 DEF OneAtPgw
      <4> QED
        BY <1>0, <2>1, <4>1
    <3> QED
      BY <3>2, <3>3
  <2>5. \A q \in sent \cap ToPgw : at'[q] = "none" => at[q] = "none"
    BY <1>0, <2>1
  <2> QED
    BY <1>0, <1>a, <2>3, <2>4, <2>5 DEF OneAtPgw
<1>2. CASE PgwStep(r)
  <2>1. r \in sent /\ Active(r) /\ at'[r] # "none"
    BY <1>2, PgwMoveAlone
  <2>2. ~pgwCrashed'
    BY <1>2, PgwMoveFacts
       DEF PgwStep, Pgw!Handle, Pgw!LookUpOld, Pgw!RemoveOld, Pgw!MissingIE, Pgw!Fail,
           Pgw!NewSenderFTEID, Pgw!Respond, Pgw!RespondFails, Pgw!RegisterSession,
           Pgw!SetupUPlane, Pgw!Find, Pgw!FindFails, Pgw!RemoveSession
  <2>3. \A p, q \in sent \cap ToPgw :
          p.seq < q.seq /\ at'[q] # "none" => at'[p] \in {"done", "failed"}
    <3> SUFFICES ASSUME NEW p \in sent \cap ToPgw, NEW q \in sent \cap ToPgw,
                        p.seq < q.seq, at'[q] # "none"
                 PROVE  at'[p] \in {"done", "failed"}
      OBVIOUS
    <3>1. at[q] # "none"
      BY <1>0, <2>1 DEF Active
    <3>2. at[p] \in {"done", "failed"}
      BY <3>1 DEF OneAtPgw
    <3> QED
      BY <1>0, <2>1, <3>2 DEF Active
  <2>4. \A q \in sent \cap ToPgw : at'[q] = "none" => at[q] = "none"
    BY <1>0, <2>1
  <2> QED
    BY <1>0, <1>a, <2>2, <2>3, <2>4 DEF OneAtPgw
<1> QED
  BY <1>1, <1>2 DEF PgwMove

LEMMA PgwMovePgwIsOne ==
  ASSUME IInv, Ordered, PgwTypeOK, PgwPositions, OneAtPgw, PgwIsOne,
         NEW r \in ToPgw, PgwMove(r), overlapped' = {}
  PROVE  PgwIsOne'
<1> DEFINE Its(q) ==
      /\ at[q] = "removeOld" => old[q] = pgwImsi
      /\ at[q] \in {"checkIEs", "register"} => pgwImsi = None
      /\ at[q] = "respond" /\ q.kind = "CreateSessionRequest" => pgwImsi = None
      /\ at[q] = "setup" => pgwImsi = q.of
      /\ Active(q) /\ q.kind = "DeleteSessionRequest" => pgwImsi = q.of
<1>0. ToPgw' = ToPgw /\ r.of \in Session /\ None \notin Session /\ Its(r)
  BY GatewayAssumption DEF ToPgw, PgwIsOne
<1>1. \A q \in ToPgw : q # r => Its(q)'
  BY PgwMoveAlone DEF Active
<1>2. pgwTeid' = {pgwImsi'} \ {None} /\ Its(r)'
  <2> USE DEF PgwTypeOK, PgwPositions, PgwIsOne, Active, Pgw!Goto, Pgw!Fail, Pgw!registry,
              Pgw!Remove
  <2>1. CASE Deliver(r)
    BY <1>0, <2>1 DEF Deliver, Pgw!Arrive, Pgw!ArriveCreate, Pgw!ArriveDelete, Pgw!Discard,
                      Pgw!ArriveEarly
  <2>2. CASE Pgw!LookUpOld(r) \/ Pgw!RemoveOld(r) \/ Pgw!MissingIE(r) \/ Pgw!NewSenderFTEID(r)
    BY <1>0, <2>2 DEF Pgw!LookUpOld, Pgw!RemoveOld, Pgw!MissingIE, Pgw!NewSenderFTEID
  <2>3. CASE Pgw!RegisterSession(r) \/ Pgw!SetupUPlane(r) \/ Pgw!RemoveSession(r)
    BY <1>0, <2>3 DEF Pgw!RegisterSession, Pgw!SetupUPlane, Pgw!RemoveSession
  <2>4. CASE Pgw!Respond(r) \/ Pgw!RespondFails(r) \/ Pgw!Find(r) \/ Pgw!FindFails(r)
    BY <1>0, <2>4 DEF Pgw!Respond, Pgw!RespondFails, Pgw!Find, Pgw!FindFails
  <2> QED
    BY <2>1, <2>2, <2>3, <2>4 DEF PgwMove, PgwStep, Pgw!Handle
<1> QED
  BY <1>0, <1>1, <1>2 DEF PgwIsOne

LEMMA PgwMoveTeidsReserved ==
  ASSUME IInv, Ordered, PgwTypeOK, PgwPositions, OneAtPgw, TeidsReserved,
         NEW r \in ToPgw, PgwMove(r), overlapped' = {}
  PROVE  TeidsReserved'
<1> USE DEF PgwTypeOK, PgwPositions, Pgw!Goto, Pgw!Fail, Pgw!registry
<1>0. ToPgw' = ToPgw /\ \A q \in ToPgw : q # r => at'[q] = at[q]
  BY PgwMoveFacts DEF ToPgw
<1> SUFFICES ASSUME NEW s \in reserved'
             PROVE  \E c \in ToPgw : /\ c.of = s /\ c.kind = "CreateSessionRequest"
                                     /\ at'[c] \in {"respond", "register", "failed"}
  BY <1>0 DEF TeidsReserved
<1>1. CASE Pgw!NewSenderFTEID(r) /\ s \notin reserved
  BY <1>1 DEF Pgw!NewSenderFTEID
<1>2. CASE s \in reserved
  <2>1. PICK c \in ToPgw : /\ c.of = s /\ c.kind = "CreateSessionRequest"
                           /\ at[c] \in {"respond", "register", "failed"}
    BY <1>2 DEF TeidsReserved
  <2>2. CASE c # r
    BY <1>0, <2>1, <2>2
  <2>3. CASE c = r
    <3>1. PgwStep(r) /\ at[r] \in {"respond", "register"}
      BY <2>1, <2>3, PgwMoveAlone DEF PgwMove, Active
    <3>2. CASE Pgw!Respond(r) \/ Pgw!RespondFails(r)
      BY <2>1, <2>3, <3>2 DEF Pgw!Respond, Pgw!RespondFails
    <3>3. ~Pgw!RegisterSession(r)
      BY <2>1, <2>3 DEF Pgw!RegisterSession
    <3> QED
      BY <2>1, <2>3, <3>1, <3>2, <3>3
         DEF PgwStep, Pgw!Handle, Pgw!LookUpOld, Pgw!RemoveOld, Pgw!MissingIE,
             Pgw!NewSenderFTEID, Pgw!SetupUPlane, Pgw!Find, Pgw!FindFails,
             Pgw!RemoveSession
  <2> QED
    BY <2>2, <2>3
<1>3. reserved' \subseteq reserved \/ Pgw!NewSenderFTEID(r)
  BY DEF PgwMove, Deliver, Pgw!Arrive, Pgw!ArriveCreate, Pgw!ArriveDelete, Pgw!Discard,
         Pgw!ArriveEarly, PgwStep, Pgw!Handle, Pgw!LookUpOld, Pgw!RemoveOld, Pgw!MissingIE,
         Pgw!Respond, Pgw!RespondFails, Pgw!RegisterSession,
         Pgw!SetupUPlane, Pgw!Find, Pgw!FindFails, Pgw!RemoveSession, Pgw!Remove
<1> QED
  BY <1>1, <1>2, <1>3

\* The P-GW's session and tunnel change in few steps.
LEMMA PgwChanges ==
  ASSUME PgwTypeOK, PgwPositions, NEW r \in ToPgw, PgwMove(r)
  PROVE  /\ r.kind = "DeleteSessionRequest" /\ ~Pgw!RemoveSession(r) =>
              UNCHANGED <<pgwImsi, pgwTeid, tunnel>>
         /\ pgwTeid' \subseteq pgwTeid \/ Pgw!RegisterSession(r)
         /\ answered' = answered \/ (Pgw!Respond(r) /\ answered' = answered \cup {r})
         /\ at'[r] = "done" => Pgw!SetupUPlane(r) \/ Pgw!RemoveSession(r)
<1> USE DEF PgwTypeOK, PgwPositions, Pgw!Goto, Pgw!Fail, Pgw!registry, Pgw!Remove
<1>1. CASE Deliver(r)
  BY <1>1 DEF Deliver, Pgw!Arrive, Pgw!ArriveCreate, Pgw!ArriveDelete, Pgw!Discard,
              Pgw!ArriveEarly
<1>2. CASE PgwStep(r)
  <2>1. CASE Pgw!Respond(r) \/ Pgw!RegisterSession(r)
    BY <2>1 DEF Pgw!Respond, Pgw!RegisterSession
  <2>2. CASE Pgw!SetupUPlane(r) \/ Pgw!RemoveSession(r)
    BY <2>2 DEF Pgw!SetupUPlane, Pgw!RemoveSession
  <2>3. CASE Pgw!LookUpOld(r) \/ Pgw!RemoveOld(r) \/ Pgw!MissingIE(r) \/ Pgw!NewSenderFTEID(r)
    BY <2>3 DEF Pgw!LookUpOld, Pgw!RemoveOld, Pgw!MissingIE, Pgw!NewSenderFTEID
  <2>4. CASE Pgw!RespondFails(r) \/ Pgw!Find(r) \/ Pgw!FindFails(r)
    BY <2>4 DEF Pgw!RespondFails, Pgw!Find, Pgw!FindFails
  <2> QED
    BY <1>2, <2>1, <2>2, <2>3, <2>4 DEF PgwStep, Pgw!Handle
<1> QED
  BY <1>1, <1>2 DEF PgwMove

LEMMA PgwMoveLastIsServed ==
  ASSUME IInv, Ordered, PgwTypeOK, PgwPositions, OneAtPgw, PgwIsOne, LastIsServed,
         CreatedOnce, KnownOnS5, Given, NEW r \in ToPgw, PgwMove(r), overlapped' = {}
  PROVE  LastIsServed'
<1>0. Created' = Created /\ Deleted \subseteq Deleted'
  BY PgwMoveFacts, PgwMoveGives DEF Created, vars
<1> SUFFICES ASSUME NEW c \in Created \cap answered', \A e \in Created : e.seq <= c.seq,
                    at'[c] = "done"
             PROVE  (pgwImsi' = c.of \/ c.of \in Deleted') /\ tunnel' \in {c.of, None}
  BY <1>0 DEF LastIsServed
<1>1. c \in ToPgw /\ c \in sent /\ c.kind = "CreateSessionRequest"
  BY PgwMoveType DEF PgwTypeOK, Created
<1>2. CASE c = r
  <2>1. Pgw!SetupUPlane(r)
    BY <1>1, <1>2, PgwChanges DEF Pgw!RemoveSession, PgwPositions
  <2> QED
    BY <1>1, <1>2, <2>1 DEF Pgw!SetupUPlane, PgwIsOne, Pgw!registry
<1>3. CASE c # r
  <2>1. at[c] = "done" /\ c \in answered
    BY <1>1, <1>3, PgwMoveAlone DEF PgwPositions
  <2>2. (pgwImsi = c.of \/ c.of \in Deleted) /\ tunnel \in {c.of, None}
    BY <2>1 DEF LastIsServed
  <2>3. CASE Deliver(r)
    BY <1>0, <2>2, <2>3 DEF Deliver, Pgw!Arrive, Pgw!ArriveCreate, Pgw!ArriveDelete, Pgw!Fail,
                            Pgw!Discard, Pgw!ArriveEarly, Pgw!registry
  <2>4. CASE PgwStep(r)
    <3>1. r \in sent /\ Active(r)
      BY <2>4, PgwMoveAlone
    <3>2. r.kind = "DeleteSessionRequest"
      <4> SUFFICES ASSUME r.kind = "CreateSessionRequest" PROVE FALSE
        BY DEF ToPgw
      <4>1. r.seq <= c.seq /\ r.seq \in Nat /\ c.seq \in Nat
        BY <1>1, <3>1 DEF Created, ToPgw
      <4>2. r.seq # c.seq
        BY <1>1, <1>3, <3>1 DEF Ordered
      <4>3. r.seq < c.seq
        BY <4>1, <4>2
      <4> QED
        BY <1>1, <2>1, <3>1, <4>3 DEF OneAtPgw, Active
    <3>3. CASE ~Pgw!RemoveSession(r)
      BY <1>0, <2>2, <3>2, <3>3, PgwChanges
    <3>4. CASE Pgw!RemoveSession(r)
      <4>1. pgwImsi = r.of /\ tunnel' = tunnel
        BY <3>1, <3>2, <3>4 DEF PgwIsOne, Pgw!RemoveSession
      <4>2. r.of \in Deleted
        BY <3>2, <3>4 DEF Pgw!RemoveSession, PgwPositions, Deleted
      <4> QED
        BY <1>0, <2>2, <4>1, <4>2
    <3> QED
      BY <3>3, <3>4
  <2> QED
    BY <2>3, <2>4 DEF PgwMove
<1> QED
  BY <1>2, <1>3

LEMMA PgwMoveDeletedIsGone ==
  ASSUME IInv, Ordered, PgwTypeOK, PgwPositions, OneAtPgw, DeletedIsGone, CreatedOnce,
         Given, NEW r \in ToPgw, PgwMove(r), overlapped' = {}
  PROVE  DeletedIsGone'
<1>0. Created' = Created /\ \A q \in ToPgw : q # r => ~Active(q) /\ at'[q] = at[q]
  BY PgwMoveFacts, PgwMoveAlone DEF Created, vars
<1> SUFFICES ASSUME NEW d \in answered', d.kind = "DeleteSessionRequest"
             PROVE  /\ at'[d] = "done" => d.of \notin pgwTeid'
                    /\ \A c \in Created : c.of = d.of => at'[c] = "done"
  BY <1>0 DEF DeletedIsGone
<1>1. r \in sent /\ d \in ToPgw
  BY PgwMoveAlone, PgwMoveType DEF PgwTypeOK
<1>2. \A c \in Created : c.of = d.of => at'[c] = "done"
  <2>0. \A c \in Created : at[c] = "done" => at'[c] = "done"
    <3> SUFFICES ASSUME NEW c \in Created, at[c] = "done" PROVE at'[c] = "done"
      OBVIOUS
    <3>1. c # r
      BY PgwMoveAlone DEF PgwMove, Active
    <3>2. c \in ToPgw
      BY SentToPgw DEF Created
    <3> QED
      BY <1>0, <3>1, <3>2
  <2>1. CASE d \in answered
    BY <2>0, <2>1 DEF DeletedIsGone
  <2>2. CASE d \notin answered
    <3>1. d = r /\ Pgw!Respond(r)
      BY <2>2, PgwChanges
    <3>2. PICK e \in Created \cap answered : e.of = r.of /\ e.seq < r.seq
      BY <1>1, <3>1 DEF CreatedOnce
    <3>3. e \in ToPgw /\ e \in sent
      BY <3>2 DEF PgwTypeOK, Created
    <3>4. at[e] \in {"done", "failed"}
      BY <1>1, <3>1, <3>2, <3>3 DEF OneAtPgw, Pgw!Respond
    <3>5. at[e] = "done"
      BY <3>2, <3>3, <3>4 DEF PgwPositions
    <3>6. \A c \in Created : c.of = d.of => c = e
      BY <3>1, <3>2 DEF CreatedOnce
    <3> QED
      BY <2>0, <3>2, <3>5, <3>6
  <2> QED
    BY <2>1, <2>2
<1>3. ASSUME at'[d] = "done" PROVE d.of \notin pgwTeid'
  <2>1. CASE d = r
    <3>1. Pgw!RemoveSession(r)
      BY <1>3, <2>1, PgwChanges DEF Pgw!SetupUPlane, PgwPositions
    <3> QED
      BY <2>1, <3>1 DEF Pgw!RemoveSession, Pgw!Remove
  <2>2. CASE d # r
    <3>1. at[d] = "done" /\ d \in answered
      BY <1>0, <1>1, <1>3, <2>2 DEF PgwPositions
    <3>2. d.of \notin pgwTeid
      BY <3>1 DEF DeletedIsGone
    <3>3. Pgw!RegisterSession(r) => r.of # d.of
      <4> SUFFICES ASSUME Pgw!RegisterSession(r), r.of = d.of PROVE FALSE
        OBVIOUS
      <4>1. r \in Created /\ at[r] = "register"
        BY <1>1 DEF Pgw!RegisterSession, PgwPositions, Created
      <4> QED
        BY <3>1, <4>1 DEF DeletedIsGone
    <3> QED
      BY <3>2, <3>3, PgwChanges DEF Pgw!RegisterSession
  <2> QED
    BY <2>1, <2>2
<1> QED
  BY <1>2, <1>3

-----------------------------------------------------------------------------

(* The inductive invariant of both gateways, and what it means when they rest.            *)

\* Whatever runs at the same time.
Always ==
  /\ IdleHasNone /\ Modifications /\ RelayedToOwn
  /\ CreatedOnce /\ KnownOnS5 /\ Given /\ CreatedIsLast
  /\ PgwTypeOK /\ PgwPositions

\* While each gateway had returned from one request when the next one reached it.
Calm ==
  /\ OneRequest /\ S11IsOne /\ AcceptedIsLast /\ S5IsOwn /\ DeletedIsOnS11 /\ AnswersAwaited
  /\ OneAtPgw /\ PgwIsOne /\ TeidsReserved /\ LastIsServed /\ DeletedIsGone

RestInv == GatewaysInv /\ Always /\ (overlapped = {} => Calm)

LEMMA RestInitInv == GatewaysInit => RestInv
<1> SUFFICES ASSUME GatewaysInit PROVE RestInv
  OBVIOUS
<1>1. Init /\ GatewaysInv
  BY GatewaysInitInv DEF GatewaysInit
<1>2. /\ pgwImsi = None /\ pgwTeid = {} /\ reserved = {} /\ tunnel = None
      /\ at = [r \in ToPgw |-> "none"] /\ old = [r \in ToPgw |-> None]
      /\ answered = {} /\ pgwCrashed = FALSE
  BY DEF GatewaysInit, Pgw!PgwInit
<1>3. sent = {} /\ Created = {}
  BY <1>1 DEF Init, Created
<1>4. Always
  <2>1. IdleHasNone /\ Modifications /\ RelayedToOwn /\ CreatedIsLast /\ CreatedOnce /\ KnownOnS5
    BY <1>1, <1>3 DEF Init, IdleHasNone, Modifications, RelayedToOwn, CreatedIsLast,
                      CreatedOnce, KnownOnS5
  <2>2. Given
    <3>1. \A s \in Session : queue["S11"][s] \in Seq(answered)
      BY <1>1, EmptySeq DEF Init, Iface
    <3> QED
      BY <1>1, <3>1 DEF Init, Given, FromPgw
  <2>3. PgwTypeOK /\ PgwPositions
    BY <1>2 DEF PgwTypeOK, PgwPositions
  <2> QED
    BY <2>1, <2>2, <2>3 DEF Always
<1>5. Calm
  <2>1. OneRequest /\ S11IsOne /\ AcceptedIsLast /\ S5IsOwn /\ DeletedIsOnS11
    BY <1>1 DEF Init, Iface, OneRequest, Requests, S11IsOne, AcceptedIsLast, S5IsOwn,
                DeletedIsOnS11
  <2>2. AnswersAwaited
    BY <1>1 DEF Init, Iface, AnswersAwaited, Answering, FromPgw
  <2>3. OneAtPgw /\ PgwIsOne /\ TeidsReserved /\ LastIsServed /\ DeletedIsGone
    BY <1>2, <1>3 DEF OneAtPgw, PgwIsOne, Active, TeidsReserved, LastIsServed, DeletedIsGone
  <2> QED
    BY <2>1, <2>2, <2>3 DEF Calm
<1> QED
  BY <1>1, <1>4, <1>5 DEF RestInv

\* What the S-GW's steps preserve.
LEMMA SgwMoveRest ==
  ASSUME RestInv, GatewaysInv', NEW h \in Handler, SgwMove(h)
  PROVE  RestInv'
<1> USE DEF RestInv, Always
<1>0. IInv /\ IInv' /\ OneProcedure /\ Ordered
  BY DEF GatewaysInv
<1>1. Always'
  BY <1>0, MoveIdle, MoveModifications, MoveRelayed, MoveCreatedOnce, MoveKnownOnS5, MoveGiven,
     MoveCreatedIsLast, MovePgw
<1>2. ASSUME overlapped' = {} PROVE Calm'
  <2>0. Calm
    BY <1>0, <1>2, MoveFacts
  <2>1. OneRequest'
    BY <1>0, <1>2, <2>0, MoveOneRequest DEF Calm
  <2>2. S11IsOne' /\ AcceptedIsLast' /\ S5IsOwn'
    BY <1>0, <2>0, <2>1, MoveS11IsOne, MoveAcceptedIsLast, MoveS5IsOwn DEF Calm
  <2>3. DeletedIsOnS11' /\ AnswersAwaited'
    BY <1>0, <1>2, <2>0, MoveDeletedIsOnS11, MoveAnswersAwaited DEF Calm, OneAtPgw
  <2>4. OneAtPgw' /\ PgwIsOne' /\ TeidsReserved' /\ LastIsServed' /\ DeletedIsGone'
    BY <1>0, <1>1, <2>0, MoveOneAtPgw, MoveLeavesPgw DEF Calm
  <2> QED
    BY <2>1, <2>2, <2>3, <2>4 DEF Calm
<1> QED
  BY <1>1, <1>2

\* What the P-GW's steps preserve.
LEMMA PgwMoveRest ==
  ASSUME RestInv, NEW r \in ToPgw, PgwMove(r)
  PROVE  RestInv'
<1> USE DEF RestInv, Always
<1>0. IInv /\ Ordered /\ GatewaysInv'
  BY PgwMoveLeaves DEF GatewaysInv
<1>1. Always'
  BY <1>0, PgwMoveLeaves, PgwMoveGives, PgwMoveType, PgwMovePositions
<1>2. ASSUME overlapped' = {} PROVE Calm'
  <2>0. Calm
    BY <1>2, PgwMoveFacts
  <2>1. OneRequest' /\ S11IsOne' /\ AcceptedIsLast' /\ DeletedIsOnS11' /\ AnswersAwaited'
    BY <1>0, <2>0, PgwMoveLeaves DEF Calm
  <2>2. S5IsOwn'
    BY <1>0, <2>0, PgwMoveS5IsOwn DEF Calm
  <2>3. OneAtPgw' /\ PgwIsOne' /\ TeidsReserved'
    BY <1>0, <1>2, <2>0, PgwMoveOneAtPgw, PgwMovePgwIsOne, PgwMoveTeidsReserved DEF Calm
  <2>4. LastIsServed' /\ DeletedIsGone'
    BY <1>0, <1>2, <2>0, PgwMoveLastIsServed, PgwMoveDeletedIsGone DEF Calm
  <2> QED
    BY <2>1, <2>2, <2>3, <2>4 DEF Calm
<1> QED
  BY <1>0, <1>1, <1>2

LEMMA RestStutter == RestInv /\ UNCHANGED gatewayVars => RestInv'
<1> SUFFICES ASSUME RestInv, UNCHANGED gatewayVars PROVE RestInv'
  OBVIOUS
<1> USE DEF gatewayVars, vars, conns, sessions, learnt, frames, told, pgw
<1>1. GatewaysInv'
  BY GatewaysNextInv DEF RestInv
<1>2. Created' = Created /\ Deleted' = Deleted /\ ToPgw' = ToPgw
  BY DEF Created, Deleted, ToPgw
<1>3. Always'
  <2>1. IdleHasNone' /\ Modifications' /\ RelayedToOwn' /\ CreatedIsLast'
    BY <1>2 DEF RestInv, Always, IdleHasNone, Modifications, RelayedToOwn, CreatedIsLast,
       IsLast
  <2>2. CreatedOnce' /\ KnownOnS5' /\ Given'
    BY <1>2 DEF RestInv, Always, CreatedOnce, KnownOnS5, Given
  <2>3. PgwTypeOK' /\ PgwPositions'
    BY <1>2 DEF RestInv, Always, PgwTypeOK, PgwPositions
  <2> QED
    BY <2>1, <2>2, <2>3 DEF Always
<1>4. Calm => Calm'
  <2> SUFFICES ASSUME Calm PROVE Calm'
    OBVIOUS
  <2>1. OneRequest' /\ S11IsOne' /\ AcceptedIsLast' /\ S5IsOwn' /\ DeletedIsOnS11'
    BY <1>2 DEF Calm, OneRequest, S11IsOne, AcceptedIsLast, IsLast, S5IsOwn, DeletedIsOnS11
  <2>2. AnswersAwaited'
    BY DEF Calm, AnswersAwaited, Answering, Awaits
  <2>3. OneAtPgw' /\ PgwIsOne' /\ TeidsReserved'
    BY <1>2 DEF Calm, OneAtPgw, Awaits, PgwIsOne, Active, TeidsReserved
  <2>4. LastIsServed' /\ DeletedIsGone'
    BY <1>2 DEF Calm, LastIsServed, DeletedIsGone
  <2> QED
    BY <2>1, <2>2, <2>3, <2>4 DEF Calm
<1> QED
  BY <1>1, <1>3, <1>4 DEF RestInv

LEMMA RestNextInv == RestInv /\ [GatewaysNext]_gatewayVars => RestInv'
<1> SUFFICES ASSUME RestInv, [GatewaysNext]_gatewayVars PROVE RestInv'
  OBVIOUS
<1>1. GatewaysInv'
  BY GatewaysNextInv DEF RestInv
<1>2. \/ UNCHANGED gatewayVars
      \/ \E h \in Handler : SgwMove(h)
      \/ \E r \in ToPgw : PgwMove(r)
  BY DEF GatewaysNext, SgwMove, PgwMove
<1> QED
  BY <1>1, <1>2, SgwMoveRest, PgwMoveRest, RestStutter

LEMMA RestInvariance == GatewaysSpec => []RestInv
<1> QED
  BY RestInitInv, RestNextInv, PTL DEF GatewaysSpec

\* A handler of the P-GW that has answered and returned has done all it had to.
LEMMA AnsweredIsDone ==
  ASSUME PgwTypeOK, PgwPositions, Pgw!PgwResting, NEW r \in answered
  PROVE  r \in ToPgw /\ at[r] = "done"
BY DEF PgwTypeOK, PgwPositions, Pgw!PgwResting

LEMMA RestConsistent == RestInv => ConsistentAtRest
<1> SUFFICES ASSUME RestInv, Pgw!PgwResting, overlapped = {}
             PROVE  /\ byTeid["S11"] = {byImsi["S11"]} \ {None}
                    /\ pgwTeid = {pgwImsi} \ {None}
                    /\ pgwTeid \subseteq byTeid["S5"]
                    /\ \A s \in accepted \ Deleted : s \in byTeid["S11"] =>
                         /\ byImsi["S5"] = s /\ s \in byTeid["S5"] /\ s \in ready
                         /\ s \in reachable \cup WithoutFteid
                         /\ pgwImsi = s /\ tunnel \in {s, None}
                    /\ \A p \in relay : p[1] = p[2]
  BY DEF ConsistentAtRest
<1> USE DEF RestInv, Always, Calm
<1>1. byTeid["S11"] = {byImsi["S11"]} \ {None} /\ pgwTeid = {pgwImsi} \ {None}
  BY DEF S11IsOne, PgwIsOne
<1>2. ASSUME NEW s \in pgwTeid PROVE s \in byTeid["S5"]
  <2>1. PICK c \in Created : c.of = s
    BY <1>2 DEF PgwPositions
  <2>2. s \notin Deleted
    BY <1>2, AnsweredIsDone DEF Deleted, DeletedIsGone
  <2> QED
    BY <2>1, <2>2 DEF KnownOnS5
<1>3. ASSUME NEW s \in accepted \ Deleted, s \in byTeid["S11"]
      PROVE  /\ byImsi["S5"] = s /\ s \in byTeid["S5"] /\ s \in ready
             /\ s \in reachable \cup WithoutFteid
             /\ pgwImsi = s /\ tunnel \in {s, None}
  <2>1. byImsi["S5"] = s /\ s \in ready /\ s \in reachable \cup WithoutFteid
    BY <1>3 DEF S5IsOwn, GatewaysInv, Ordered, IInv, AcceptedIsReady
  <2>2. PICK c \in Created \cap answered : c.of = s
    BY <2>1 DEF Given
  <2>3. s \in byTeid["S5"]
    BY <1>3, <2>2 DEF KnownOnS5
  <2>4. PICK e \in Created : e.of = s /\ \A later \in Created : later.seq <= e.seq
    BY <1>3 DEF AcceptedIsLast, IsLast
  <2>5. c = e
    BY <2>2, <2>4 DEF CreatedOnce
  <2>6. pgwImsi = s /\ tunnel \in {s, None}
    BY <1>3, <2>2, <2>4, <2>5, AnsweredIsDone DEF LastIsServed
  <2> QED
    BY <2>1, <2>3, <2>6
<1> QED
  BY <1>1, <1>2, <1>3 DEF RelayedToOwn

\* Once both gateways rest, they agree: the subscriber has at most one session on S11 and in
\* the P-GW, the one that the MME was told of is the one that every lookup finds, and S1-U
\* is relayed between no others.  This is so whatever fails and whichever answers are lost
\* on the way, for any number of handlers and sessions, as long as no request reached a
\* gateway where a handler still ran (the Create and Delete Session handlers of
\* sgw/s11_handlers.go, sgw/s5_handlers.go and pgw/handlers.go).
THEOREM RestCorrect == GatewaysSpec => []ConsistentAtRest
<1> QED
  BY RestInvariance, RestConsistent, PTL

=============================================================================
