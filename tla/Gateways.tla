------------------------------- MODULE Gateways -------------------------------
(***************************************************************************)
(* The S-GW with the P-GW of the same example at the other end of S5.  The   *)
(* procedures of the subscriber follow one another: a request arrives when   *)
(* the one before it was answered.  Handlers that answer before they are     *)
(* done, in either gateway, may still run by then.  The P-GW may fail to     *)
(* answer, and its answer may be lost; what it accepts is complete.  Any     *)
(* P-GW may also delete bearers; this one never does.  No write of the S-GW  *)
(* fails.                                                                    *)
(***************************************************************************)
EXTENDS ServingGateway, Functions

VARIABLES pgwImsi, pgwTeid, reserved, tunnel, at, old, answered, pgwCrashed,
  overlapped  \* history: the gateways that a request reached while a handler of them ran

\* Requests that reach a handler of the P-GW.
ToPgw == [kind : {"CreateSessionRequest", "DeleteSessionRequest"}, of : Session,
          seq : 1 .. MaxSeq["S5"]]

Pgw == INSTANCE PacketGateway WITH Request <- ToPgw

pgw == <<pgwImsi, pgwTeid, reserved, tunnel, at, old, answered, pgwCrashed>>
gatewayVars == <<vars, pgw, overlapped>>

GatewaysInit == Init /\ Pgw!PgwInit /\ overlapped = {}

-----------------------------------------------------------------------------

Deliver(r) ==
  /\ Pgw!Arrive(r)
  /\ overlapped' = IF Pgw!PgwResting THEN overlapped ELSE overlapped \cup {"P-GW"}
  /\ UNCHANGED vars

PgwStep(r) == Pgw!Handle(r) /\ UNCHANGED <<vars, overlapped>>

\* The peers speak of the session that was created last: a re-attach makes them forget
\* the one before.
Created == {r \in sent : r.kind = "CreateSessionRequest"}

\* No handler of the S-GW has an answer to wait for, or to give.
Answered == \A h \in Handler : pc[h] \in {"idle", "removeS11", "removeS5"}

NextRequest(h) ==
  /\ Answered
  /\ \/ sequence["S5"] < MaxSeq["S5"] /\ StartCreate(h)
     \/ \E k \in Requests \ {"CreateSessionRequest"}, r \in Created :
          /\ sequence[Other(Arrives(k))] < MaxSeq[Other(Arrives(k))]
          /\ \A later \in Created : later.seq <= r.seq
          /\ StartRequest(h, k, r.of)
  /\ overlapped' = IF Resting THEN overlapped ELSE overlapped \cup {"S-GW"}
  /\ UNCHANGED pgw

\* The request that h waits to be answered.
Awaits(h, r) ==
  pc[h] = "wait" /\ kind[h] = r.kind /\ num[h] = r.seq

\* No answer to r has reached the S-GW: none is handled, none is in a queue.
Unanswered(r) ==
  /\ \A h \in Handler : msg[h] # r
  /\ \A i \in Iface, s \in Session : r \notin Range(queue[i][s])

AnswerArrives(h) ==
  \E r \in sent :
    /\ r \in ToPgw => r \in answered
    /\ \E g \in Handler : Awaits(g, r)
    /\ Unanswered(r)
    /\ StartResponse(h, r)

\* The wait for an answer times out, for the P-GW does not answer.
NoAnswer(h) ==
  /\ \E r \in sent \cap ToPgw :
       Awaits(h, r) /\ (at[r] = "failed" \/ (pgwCrashed /\ r \notin answered))
  /\ WaitMessageTimesOut(h)

\* It times out, for the answer is lost.
AnswerLost(h) ==
  /\ \E r \in answered : Awaits(h, r) /\ Unanswered(r)
  /\ WaitMessageTimesOut(h)

SgwStep(h) ==
  \/ Relate(h) \/ RelateFails(h)
  \/ LookUpOld(h) \/ RemoveOld(h) \/ MissingIE(h)
  \/ \E s \in Session : RegisterS11(h, s)
  \/ RegisterS5(h)
  \/ IncSequence(h) \/ SendRequest(h)
  \/ WaitMessage(h) \/ NoAnswer(h) \/ Grant(h) \/ Reject(h) \/ RemoveS11(h)
  \/ CreateAccepted(h) \/ ModifyBearer(h) \/ BearerNotFound(h) \/ BearerFound(h)
  \/ PassMessageTo(h) \/ RemoveS5(h) \/ DeleteWithoutBearer(h) \/ ApplyWithoutBearer(h)

GatewaysNext ==
  /\ ~crashed
  /\ \/ \E h \in Handler : NextRequest(h)
     \/ \E h \in Handler :
          /\ AnswerArrives(h) \/ AnswerLost(h) \/ SgwStep(h)
          /\ UNCHANGED <<pgw, overlapped>>
     \/ \E r \in sent \cap ToPgw : Deliver(r)
     \/ \E r \in ToPgw : PgwStep(r)

\* Go goes on with some goroutine while one can take a step, and timers expire.  Requests
\* and answers arrive, unless they are lost; no peer has to send a request.
GoesOn ==
  /\ ~crashed
  /\ \/ \E h \in Handler : (AnswerArrives(h) \/ SgwStep(h)) /\ UNCHANGED <<pgw, overlapped>>
     \/ \E r \in sent \cap ToPgw : Deliver(r)
     \/ \E r \in ToPgw : PgwStep(r)

GatewaysSpec == GatewaysInit /\ [][GatewaysNext]_gatewayVars /\ WF_gatewayVars(GoesOn)

-----------------------------------------------------------------------------

\* The sessions that the P-GW has deleted.  It discards whatever comes for them, so that
\* the S-GW never deletes one if the answer that it waits for is lost.
Deleted == {r.of : r \in {r \in answered : r.kind = "DeleteSessionRequest"}}

\* The two gateways rest with at most one session for the subscriber on S11 and in the
\* P-GW: re-attaching, detaching, a failing P-GW and lost answers leave no remains there.
\* A session the MME holds, unless its deletion was not confirmed, is the one that the
\* S-GW and the P-GW find for the subscriber, the kernel of the P-GW does not send its
\* packets to an older one, and the S-GW relays between no others (all handlers of both).
\* This is not so once a request reached a gateway while a handler of it still ran.
ConsistentAtRest ==
  Resting /\ Pgw!PgwResting /\ overlapped = {} =>
    /\ byTeid["S11"] = {byImsi["S11"]} \ {None}
    /\ pgwTeid = {pgwImsi} \ {None}
    /\ pgwTeid \subseteq byTeid["S5"]
    /\ \A s \in accepted \ Deleted : s \in byTeid["S11"] =>
         /\ byImsi["S5"] = s /\ s \in byTeid["S5"] /\ s \in ready
         /\ s \in reachable \cup WithoutFteid
         /\ pgwImsi = s /\ tunnel \in {s, None}
    /\ \A p \in relay : p[1] = p[2]

\* The MME is told that a session is deleted only when the P-GW has answered for that
\* session, whether handlers overlap or not (handleDeleteSessionRequest).
DeletedByOwnAnswer ==
  \A h \in Handler :
    pc[h] = "grant" /\ kind[h] = "DeleteSessionRequest" => msg[h].of = near[h]

\* No procedure of the S-GW needs a timeout to end if the P-GW's answer arrives: it finds
\* its way through the IMSI to the queue on which the handler waits (Relate, PassMessageTo,
\* WaitMessage).  Only when it still ran a handler may that have removed what leads there.
ProceduresEnd ==
  \A h \in Handler : pc[h] # "idle" ~> (pc[h] = "idle" \/ crashed \/ "S-GW" \in overlapped)

=============================================================================
