--------------------------- MODULE ServingGateway ---------------------------
(***************************************************************************)
(* The session handlers of the S-GW (examples/gw-tester/sgw), for the       *)
(* sessions of one subscriber.  The S-GW has two gtpv2.Conns, S11 towards   *)
(* the MME and S5 towards the P-GW.  A Create Session Request makes a       *)
(* session on each, joined only by the subscriber's IMSI.  Every datagram   *)
(* is handled by a goroutine of its own, so any number of handlers run at   *)
(* once; the handler of a request asks the other side and waits on its      *)
(* session's queue, into which the handler of the answer passes it.         *)
(*                                                                         *)
(* Datagrams may be lost, delayed, reordered and duplicated: an answer to a *)
(* request that was sent may arrive at any later time, any number of times. *)
(* RegisterSession and RemoveSession are single steps here; what goes on    *)
(* inside them is the subject of SessionRegistry.                           *)
(***************************************************************************)
EXTENDS Integers, Sequences

CONSTANTS
  Handler,   \* goroutines that Conn.Serve starts, at most this many at a time
  Session,   \* the pairs of an S11 and an S5 session that are made
  None,      \* no session
  WithoutFteid, \* sessions of which the P-GW's answer has no F-TEID for the user plane
  QueueCap,  \* capacity of Session.msgQueue, 1000 in the code
  MaxSeq     \* bound: the largest number that each Conn draws

Iface == {"S11", "S5"}
Other(i) == IF i = "S11" THEN "S5" ELSE "S11"

ASSUME GatewayAssumption ==
  /\ None \notin Session
  /\ WithoutFteid \subseteq Session
  /\ QueueCap \in Nat \ {0}
  /\ MaxSeq \in [Iface -> Nat]

\* The messages that the two Conns have handlers for.
Requests == {"CreateSessionRequest", "DeleteSessionRequest", "ModifyBearerRequest",
             "DeleteBearerRequest"}
Responses == {"CreateSessionResponse", "DeleteSessionResponse", "DeleteBearerResponse"}

\* The Conn on which a message arrives.
Arrives(kind) ==
  IF kind \in {"CreateSessionResponse", "DeleteSessionResponse", "DeleteBearerRequest"}
  THEN "S5" ELSE "S11"

ResponseTo(kind) ==
  CASE kind = "CreateSessionRequest" -> "CreateSessionResponse"
    [] kind = "DeleteSessionRequest" -> "DeleteSessionResponse"
    [] kind = "DeleteBearerRequest" -> "DeleteBearerResponse"

VARIABLES
  byImsi,    \* the session a Conn finds under the IMSI
  byTeid,    \* the sessions a Conn finds under their TEIDs
  sequence,  \* Conn.sequence
  queue,     \* Session.msgQueue: the requests whose answers are in it
  ready,     \* S5 sessions that know the P-GW's TEID for control messages
  reachable, \* S5 sessions of which the bearer knows the P-GW's address and TEID
  bearer,    \* S5 sessions that have their default bearer
  relay,     \* S11 sessions of which S1-U is relayed to an S5 session, and back
  pc, kind, near, far, num, msg,  \* a handler's position and its variables
  crashed,   \* a nil *Bearer or address was dereferenced: the process is gone
  used,      \* sessions made so far
  sent,      \* requests that were sent to the P-GW and the MME
  accepted,  \* sessions the MME was told are created
  refused,   \* history: sessions the MME was told are not created
  outOfOrder \* history: Conns of which a DecSequence undid the draw of another handler

conns == <<byImsi, byTeid>>
learnt == <<ready, reachable>>
sessions == <<learnt, bearer, relay>>
numbers == <<sequence, outOfOrder>>
frames == <<pc, kind, near, far, num, msg>>
told == <<accepted, refused>>
vars == <<conns, numbers, queue, sessions, frames, crashed, used, sent, told>>

\* A request of the S-GW, for a session, with its sequence number.  A Modify Bearer
\* Request is not sent on.
Message == [kind : Requests \ {"ModifyBearerRequest"}, of : Session, seq : Int]
NoMessage == <<>>

Init ==
  /\ byImsi = [i \in Iface |-> None]
  /\ byTeid = [i \in Iface |-> {}]
  /\ sequence = [i \in Iface |-> 0]
  /\ queue = [i \in Iface |-> [s \in Session |-> <<>>]]
  /\ ready = {} /\ reachable = {}
  /\ bearer = {} /\ relay = {} /\ outOfOrder = {}
  /\ pc = [h \in Handler |-> "idle"]
  /\ kind = [h \in Handler |-> "none"]
  /\ near = [h \in Handler |-> None]
  /\ far = [h \in Handler |-> None]
  /\ num = [h \in Handler |-> 0]
  /\ msg = [h \in Handler |-> NoMessage]
  /\ crashed = FALSE
  /\ used = {} /\ sent = {} /\ accepted = {} /\ refused = {}

-----------------------------------------------------------------------------

Goto(h, label) == pc' = [pc EXCEPT ![h] = label]

\* The handler returns.
Return(h) ==
  /\ Goto(h, "idle")
  /\ kind' = [kind EXCEPT ![h] = "none"]
  /\ near' = [near EXCEPT ![h] = None]
  /\ far' = [far EXCEPT ![h] = None]
  /\ num' = [num EXCEPT ![h] = 0]
  /\ msg' = [msg EXCEPT ![h] = NoMessage]

Crash ==
  /\ crashed' = TRUE
  /\ UNCHANGED frames

\* Mutant: a session that is already registered for the subscriber stays.
RegisterSessionOnce(i, s) ==
  /\ byImsi' = IF byImsi[i] = None THEN [byImsi EXCEPT ![i] = s] ELSE byImsi
  /\ byTeid' = [byTeid EXCEPT ![i] = @ \cup {s}]

RegisterSession(i, s) ==
  /\ byImsi' = [byImsi EXCEPT ![i] = s]
  /\ byTeid' = [byTeid EXCEPT ![i] = @ \cup {s}]

\* Mutant: the TEID is forgotten to be deleted.
RemoveSessionFromImsi(i, s) ==
  /\ byImsi' = [byImsi EXCEPT ![i] = None]
  /\ UNCHANGED byTeid

\* RemoveSession deletes what is stored under the session's IMSI and its TEID.
RemoveSession(i, s) ==
  /\ byImsi' = [byImsi EXCEPT ![i] = None]
  /\ byTeid' = [byTeid EXCEPT ![i] = @ \ {s}]

\* The send on msgQueue, which needs room in its buffer.
\* Mutant: the queue has no limit.
EnqueueUnbounded(i, s, m) == queue' = [queue EXCEPT ![i][s] = Append(@, m)]

\* Mutant: the message goes to the session that received it.
EnqueueBack(i, s, m) ==
  /\ Len(queue[Other(i)][s]) < QueueCap
  /\ queue' = [queue EXCEPT ![Other(i)][s] = Append(@, m)]

Enqueue(i, s, m) ==
  /\ Len(queue[i][s]) < QueueCap
  /\ queue' = [queue EXCEPT ![i][s] = Append(@, m)]

\* WaitMessage's comparison of a message's number with the one waited for.
\* Mutant: there is none.
AnswersAny(m, h) == TRUE
Answers(m, h) == m.seq = num[h]

\* What a handler does once it has its own session: handleCreateSessionResponse
\* applies the answer to it, the others ask for the other Conn's session.
\* Mutant: handleCreateSessionResponse does that as well.
RelatesFirst(k) == "relate"
AfterLookUp(k) == IF k = "CreateSessionResponse" THEN "apply" ELSE "relate"

Resting == \A h \in Handler : pc[h] = "idle"

\* The peer on the other end of the Conn has learnt the TEID of s.
PeerKnows(i, s) ==
  IF i = "S11" THEN s \in accepted
               ELSE \E r \in sent : r.kind = "CreateSessionRequest" /\ r.of = s

-----------------------------------------------------------------------------

\* handleCreateSessionRequest begins: the request carries no TEID to look up.
StartCreate(h) ==
  /\ pc[h] = "idle"
  /\ Goto(h, "lookup")
  /\ kind' = [kind EXCEPT ![h] = "CreateSessionRequest"]
  /\ UNCHANGED <<conns, numbers, queue, sessions, near, far, num, msg, crashed,
                 used, sent, told>>

\* Another request begins: validate and the handler find its session by TEID.
StartRequest(h, k, s) ==
  /\ pc[h] = "idle"
  /\ s \in byTeid[Arrives(k)] /\ PeerKnows(Arrives(k), s)
  /\ Goto(h, AfterLookUp(k))
  /\ kind' = [kind EXCEPT ![h] = k]
  /\ near' = [near EXCEPT ![h] = s]
  /\ UNCHANGED <<conns, numbers, queue, sessions, far, num, msg, crashed, used,
                 sent, told>>

\* The answer to request r begins: the same, for the session r was sent for.
StartResponse(h, r) ==
  /\ pc[h] = "idle"
  /\ r.of \in byTeid[Arrives(ResponseTo(r.kind))]
  /\ Goto(h, AfterLookUp(ResponseTo(r.kind)))
  /\ kind' = [kind EXCEPT ![h] = ResponseTo(r.kind)]
  /\ near' = [near EXCEPT ![h] = r.of]
  /\ msg' = [msg EXCEPT ![h] = r]
  /\ UNCHANGED <<conns, numbers, queue, sessions, far, num, crashed, used, sent,
                 told>>

\* GetSessionByIMSI on the other Conn.  Without a session there the handler
\* returns an error, and nothing else happens.
RelateFails(h) ==
  /\ pc[h] = "relate"
  /\ byImsi[Other(Arrives(kind[h]))] = None
  /\ Return(h)
  /\ UNCHANGED <<conns, numbers, queue, sessions, crashed, used, sent, told>>

Relate(h) ==
  /\ pc[h] = "relate"
  /\ byImsi[Other(Arrives(kind[h]))] # None
  /\ far' = [far EXCEPT ![h] = byImsi[Other(Arrives(kind[h]))]]
  /\ Goto(h, CASE kind[h] \in Responses -> "pass"
               [] kind[h] = "DeleteSessionRequest" -> "request"
               [] kind[h] = "DeleteBearerRequest" -> "check"
               [] kind[h] = "ModifyBearerRequest" -> "apply")
  /\ UNCHANGED <<conns, numbers, queue, sessions, kind, near, num, msg, crashed,
                 used, sent, told>>

-----------------------------------------------------------------------------

\* handleCreateSessionRequest: the S11 session under the IMSI, if there is one,
\* is the previous session to remove.
Previous == byImsi["S11"]

LookUpOld(h) ==
  /\ pc[h] = "lookup"
  /\ far' = [far EXCEPT ![h] = Previous]
  /\ Goto(h, IF Previous = None THEN "checkIEs" ELSE "removeOld")
  /\ UNCHANGED <<conns, numbers, queue, sessions, kind, near, num, msg, crashed,
                 used, sent, told>>

RemoveOld(h) ==
  /\ pc[h] = "removeOld"
  /\ RemoveSession("S11", far[h])
  /\ far' = [far EXCEPT ![h] = None]
  /\ Goto(h, "checkIEs")
  /\ UNCHANGED <<numbers, queue, sessions, kind, near, num, msg, crashed, used,
                 sent, told>>

\* An IE that is checked after the previous session was removed is missing or
\* malformed: the handler returns without an answer.
MissingIE(h) ==
  /\ pc[h] = "checkIEs"
  /\ Return(h)
  /\ UNCHANGED <<conns, numbers, queue, sessions, crashed, used, sent, told>>

RegisterS11(h, s) ==
  /\ pc[h] = "checkIEs"
  /\ s \notin used
  /\ used' = used \cup {s}
  /\ RegisterSession("S11", s)
  /\ near' = [near EXCEPT ![h] = s]
  /\ Goto(h, "registerS5")
  /\ UNCHANGED <<numbers, queue, sessions, kind, far, num, msg, crashed, sent, told>>

\* CreateSession: ParseCreateSession makes and registers the S5 session.
RegisterS5(h) ==
  /\ pc[h] = "registerS5"
  /\ RegisterSession("S5", near[h])
  /\ bearer' = bearer \cup {near[h]}
  /\ far' = [far EXCEPT ![h] = near[h]]
  /\ Goto(h, "request")
  /\ UNCHANGED <<numbers, queue, learnt, relay, kind, near, num, msg, crashed, used,
                 sent, told>>

-----------------------------------------------------------------------------

\* CreateSession, DeleteSession and DeleteBearer call SendMessageTo on the other Conn,
\* which draws the number of the request first.
IncSequence(h) ==
  LET i == Other(Arrives(kind[h])) IN
  /\ pc[h] = "request"
  /\ kind[h] = "DeleteSessionRequest" => far[h] \in bearer
  /\ sequence[i] < MaxSeq[i]
  /\ sequence' = [sequence EXCEPT ![i] = @ + 1]
  /\ num' = [num EXCEPT ![h] = sequence[i] + 1]
  /\ Goto(h, "send")
  /\ UNCHANGED <<conns, outOfOrder, queue, sessions, kind, near, far, msg, crashed, used,
                 sent, told>>

\* SendMessageTo: the request is written.  A DeleteSessionRequest for a session that does
\* not know the P-GW's TEID goes out with TEID 0, and so does its answer, which
\* validation lets through and GetSessionByTEID then refuses.
SendRequest(h) ==
  /\ pc[h] = "send"
  /\ sent' = IF kind[h] = "DeleteSessionRequest" /\ far[h] \notin ready THEN sent
             ELSE sent \cup {[kind |-> kind[h], of |-> far[h], seq |-> num[h]]}
  /\ Goto(h, "wait")
  /\ UNCHANGED <<conns, numbers, queue, sessions, kind, near, far, num, msg, crashed, used,
                 told>>

\* SendMessageTo fails, and DecSequence takes one from a counter that other handlers may
\* have drawn from since.  Nothing that was registered is removed.
SendRequestFails(h) ==
  LET i == Other(Arrives(kind[h])) IN
  /\ pc[h] = "send"
  /\ sequence' = [sequence EXCEPT ![i] = @ - 1]
  /\ outOfOrder' = IF sequence[i] = num[h] THEN outOfOrder ELSE outOfOrder \cup {i}
  /\ Return(h)
  /\ UNCHANGED <<conns, queue, sessions, crashed, used, sent, told>>

\* handleDeleteSessionRequest: s5Session.GetDefaultBearer().EBI, without the bearer.
DeleteWithoutBearer(h) ==
  /\ pc[h] = "request" /\ kind[h] = "DeleteSessionRequest"
  /\ far[h] \notin bearer
  /\ Crash
  /\ UNCHANGED <<conns, numbers, queue, sessions, used, sent, told>>

\* WaitMessage takes the oldest message of the near session's queue, whatever it
\* is: one with another number is lost, and ends the wait.
WaitMessage(h) ==
  LET q == queue[Arrives(kind[h])][near[h]] IN
  /\ pc[h] = "wait"
  /\ q # <<>>
  /\ queue' = [queue EXCEPT ![Arrives(kind[h])][near[h]] = Tail(q)]
  /\ msg' = [msg EXCEPT ![h] = IF Answers(Head(q), h) THEN Head(q) ELSE NoMessage]
  /\ Goto(h, IF Answers(Head(q), h) THEN "grant" ELSE "reject")
  /\ UNCHANGED <<conns, numbers, sessions, kind, near, far, num, crashed, used,
                 sent, told>>

\* WaitMessage: time.After.
WaitMessageTimesOut(h) ==
  /\ pc[h] = "wait"
  /\ Goto(h, "reject")
  /\ UNCHANGED <<conns, numbers, queue, sessions, kind, near, far, num, msg,
                 crashed, used, sent, told>>

-----------------------------------------------------------------------------

\* What came is an answer, under the number waited for.
IsAnswer(h) == msg[h].kind = kind[h]

\* A message of another type has that number: a session that is being created is removed,
\* and nobody is answered.
UnexpectedType(h) ==
  /\ pc[h] = "grant"
  /\ ~IsAnswer(h)
  /\ IF kind[h] = "CreateSessionRequest"
     THEN Goto(h, "removeS11") /\ UNCHANGED <<kind, near, far, num, msg>>
     ELSE Return(h)
  /\ UNCHANGED <<conns, numbers, queue, sessions, crashed, used, sent, told>>

\* The answer came in time: it is relayed, by RespondTo, to whoever asked.  Then
\* the S11 session of a deletion is removed, and the bearers of a bearer deletion;
\* the S11 session's default bearer has EBI 0 and stays.
Grant(h) ==
  /\ pc[h] = "grant" /\ IsAnswer(h)
  /\ \/ /\ kind[h] = "CreateSessionRequest"
        /\ accepted' = accepted \cup {near[h]}
        /\ Return(h)
        /\ UNCHANGED <<bearer>>
     \/ /\ kind[h] = "DeleteSessionRequest"
        /\ Goto(h, "removeS11")
        /\ UNCHANGED <<bearer, accepted, kind, near, far, num, msg>>
     \/ /\ kind[h] = "DeleteBearerRequest"
        /\ bearer' = bearer \ {near[h]}
        /\ Return(h)
        /\ UNCHANGED <<accepted>>
  /\ UNCHANGED <<conns, numbers, queue, learnt, relay, crashed, used, sent, refused>>

\* RespondTo fails: only a session that is being created is removed.
GrantFails(h) ==
  /\ pc[h] = "grant" /\ IsAnswer(h)
  /\ IF kind[h] = "CreateSessionRequest"
     THEN Goto(h, "removeS11") /\ UNCHANGED <<kind, near, far, num, msg>>
     ELSE Return(h)
  /\ UNCHANGED <<conns, numbers, queue, sessions, crashed, used, sent, told>>

\* WaitMessage returned an error: a negative answer, sent or not.  The session
\* that was to be created is removed, the one to be deleted is not, and the
\* bearers are removed all the same if the answer was sent.
Reject(h) ==
  /\ pc[h] = "reject"
  /\ \/ /\ kind[h] = "CreateSessionRequest"
        /\ refused' \in {refused, refused \cup {near[h]}}
        /\ Goto(h, "removeS11")
        /\ UNCHANGED <<bearer, kind, near, far, num, msg>>
     \/ /\ kind[h] = "DeleteSessionRequest"
        /\ Return(h)
        /\ UNCHANGED <<bearer, refused>>
     \/ /\ kind[h] = "DeleteBearerRequest"
        /\ bearer' \in {bearer, bearer \ {near[h]}}
        /\ Return(h)
        /\ UNCHANGED refused
  /\ UNCHANGED <<conns, numbers, queue, learnt, relay, crashed, used, sent, accepted>>

\* s11Conn.RemoveSession(s11Session), and return.
RemoveS11(h) ==
  /\ pc[h] = "removeS11"
  /\ RemoveSession("S11", near[h])
  /\ Return(h)
  /\ UNCHANGED <<numbers, queue, sessions, crashed, used, sent, told>>

-----------------------------------------------------------------------------

\* handleCreateSessionResponse stores the P-GW's TEID in the session, and its address and
\* TEID in the default bearer if there is an F-TEID among the IEs of the bearer context,
\* which nothing requires.
StoreAnswer(h) ==
  /\ near[h] \in bearer
  /\ ready' = ready \cup {near[h]}
  /\ reachable' = reachable \cup ({near[h]} \ WithoutFteid)

\* handleCreateSessionResponse: a cause is not acceptance or an IE is missing, and the
\* session is removed, or an IE is malformed, and it is not.  What comes before the IE
\* has been stored.
CreateRefused(h) ==
  /\ pc[h] = "apply" /\ kind[h] = "CreateSessionResponse"
  /\ StoreAnswer(h) \/ UNCHANGED learnt
  /\ RemoveSession("S5", near[h]) \/ UNCHANGED conns
  /\ Return(h)
  /\ UNCHANGED <<numbers, queue, bearer, relay, crashed, used, sent, told>>

CreateAccepted(h) ==
  /\ pc[h] = "apply" /\ kind[h] = "CreateSessionResponse"
  /\ StoreAnswer(h)
  /\ Goto(h, "relate")
  /\ UNCHANGED <<conns, numbers, queue, bearer, relay, kind, near, far, num, msg,
                 crashed, used, sent, told>>

\* handleModifyBearerRequest: each U-Plane Conn relays to the other.
ModifyBearer(h) ==
  /\ pc[h] = "apply" /\ kind[h] = "ModifyBearerRequest"
  /\ far[h] \in bearer /\ far[h] \in reachable
  /\ relay' = {p \in relay : p[1] # near[h]} \cup {<<near[h], far[h]>>}
  /\ Return(h)
  /\ UNCHANGED <<conns, numbers, queue, learnt, bearer, crashed, used, sent, told>>

\* handleModifyBearerRequest: there is no bearer context, or an IE in it is malformed.
BearerNotModified(h) ==
  /\ pc[h] = "apply" /\ kind[h] = "ModifyBearerRequest"
  /\ Return(h)
  /\ UNCHANGED <<conns, numbers, queue, sessions, crashed, used, sent, told>>

\* The S5 session has no default bearer, or the bearer has no remote address yet.
ApplyWithoutBearer(h) ==
  /\ pc[h] = "apply"
  /\ \/ kind[h] = "CreateSessionResponse" /\ near[h] \notin bearer
     \/ kind[h] = "ModifyBearerRequest" /\ (far[h] \notin bearer \/ far[h] \notin reachable)
  /\ Crash
  /\ UNCHANGED <<conns, numbers, queue, sessions, used, sent, told>>

\* handleDeleteBearerRequest: both EBIs, none, or one the S5 session does not have
\* is answered at once.
BearerNotFound(h) ==
  /\ pc[h] = "check"
  /\ Return(h)
  /\ UNCHANGED <<conns, numbers, queue, sessions, crashed, used, sent, told>>

BearerFound(h) ==
  /\ pc[h] = "check"
  /\ near[h] \in bearer
  /\ Goto(h, "request")
  /\ UNCHANGED <<conns, numbers, queue, sessions, kind, near, far, num, msg,
                 crashed, used, sent, told>>

\* PassMessageTo: the message enters the far session's queue.  handleDelete-
\* SessionResponse removes the S5 session after that.
PassMessageTo(h) ==
  /\ pc[h] = "pass"
  /\ Enqueue(Other(Arrives(kind[h])), far[h], msg[h])
  /\ IF kind[h] = "DeleteSessionResponse"
     THEN Goto(h, "removeS5") /\ UNCHANGED <<kind, near, far, num, msg>>
     ELSE Return(h)
  /\ UNCHANGED <<conns, numbers, sessions, crashed, used, sent, told>>

\* PassMessageTo: the queue stays full for five seconds, and the message is dropped.
PassMessageTimesOut(h) ==
  /\ pc[h] = "pass"
  /\ Len(queue[Other(Arrives(kind[h]))][far[h]]) = QueueCap
  /\ Return(h)
  /\ UNCHANGED <<conns, numbers, queue, sessions, crashed, used, sent, told>>

RemoveS5(h) ==
  /\ pc[h] = "removeS5"
  /\ RemoveSession("S5", near[h])
  /\ Return(h)
  /\ UNCHANGED <<numbers, queue, sessions, crashed, used, sent, told>>

-----------------------------------------------------------------------------

\* A datagram arrives and is given a goroutine.
Start(h) ==
  \/ StartCreate(h)
  \/ \E k \in Requests \ {"CreateSessionRequest"}, s \in Session : StartRequest(h, k, s)
  \/ \E r \in sent : StartResponse(h, r)

\* A handler takes its next step.
Step(h) ==
  \/ Relate(h) \/ RelateFails(h)
  \/ LookUpOld(h) \/ RemoveOld(h) \/ MissingIE(h)
  \/ \E s \in Session : RegisterS11(h, s)
  \/ RegisterS5(h)
  \/ IncSequence(h) \/ SendRequest(h) \/ SendRequestFails(h) \/ DeleteWithoutBearer(h)
  \/ WaitMessage(h) \/ WaitMessageTimesOut(h)
  \/ Grant(h) \/ GrantFails(h) \/ UnexpectedType(h) \/ Reject(h) \/ RemoveS11(h)
  \/ CreateRefused(h) \/ CreateAccepted(h)
  \/ ModifyBearer(h) \/ BearerNotModified(h) \/ ApplyWithoutBearer(h)
  \/ BearerNotFound(h) \/ BearerFound(h)
  \/ PassMessageTo(h) \/ PassMessageTimesOut(h) \/ RemoveS5(h)

Next == ~crashed /\ \E h \in Handler : Start(h) \/ Step(h)

Spec == Init /\ [][Next]_vars

-----------------------------------------------------------------------------

TypeOK ==
  /\ byImsi \in [Iface -> Session \cup {None}]
  /\ byTeid \in [Iface -> SUBSET Session]
  /\ sequence \in [Iface -> Int]
  /\ \A i \in Iface : sequence[i] <= MaxSeq[i]
  /\ queue \in [Iface -> [Session -> Seq(Message)]]
  /\ \A i \in Iface, s \in Session : Len(queue[i][s]) <= QueueCap
  /\ ready \subseteq Session /\ reachable \subseteq Session
  /\ bearer \subseteq Session
  /\ relay \subseteq Session \X Session
  /\ pc \in [Handler -> {"idle", "lookup", "removeOld", "checkIEs", "registerS5", "relate",
                         "request", "send", "wait", "grant", "reject", "removeS11", "apply", "check",
                         "pass", "removeS5"}]
  /\ kind \in [Handler -> Requests \cup Responses \cup {"none"}]
  /\ near \in [Handler -> Session \cup {None}]
  /\ far \in [Handler -> Session \cup {None}]
  /\ num \in [Handler -> Int]
  /\ msg \in [Handler -> Message \cup {NoMessage}]
  /\ crashed \in BOOLEAN
  /\ used \subseteq Session /\ sent \subseteq Message
  /\ accepted \subseteq Session /\ refused \subseteq Session
  /\ outOfOrder \subseteq Iface

\* The answer that the MME gets for a session that is created is the P-GW's answer
\* to the request for that very session, although answers are passed on by IMSI
\* and reach whatever session has replaced it (WaitMessage's comparison of the
\* sequence numbers, handleCreateSessionRequest).  Once DecSequence has undone the draw of
\* another handler two requests may have one number, and the answer be that to the other.
AcceptedByOwnAnswer ==
  "S5" \notin outOfOrder =>
    \A h \in Handler :
      pc[h] = "grant" /\ kind[h] = "CreateSessionRequest" => IsAnswer(h) /\ msg[h].of = near[h]

\* Before the MME is told that a session is created, the P-GW's TEID is in its S5 session,
\* and the bearer has the P-GW's address, if the P-GW gave it: the handler of the P-GW's
\* answer stores them first and passes the answer on second (handleCreateSessionResponse).
\* The exception is that of AcceptedByOwnAnswer.
AcceptedIsReady ==
  "S5" \notin outOfOrder => accepted \subseteq ready \cap (reachable \cup WithoutFteid)

\* A session the MME was refused is gone from S11: no request can find it, once
\* the handler that refused it has returned (handleCreateSessionRequest).
RefusedIsForgotten ==
  \A s \in refused :
    (\A h \in Handler : near[h] # s) => s \notin byTeid["S11"] /\ byImsi["S11"] # s

\* The comment of GetDefaultBearer: it is not expected that the default bearer cannot be
\* found.  handleDeleteSessionRequest looks it up in the S5 session that it will delete.
DefaultBearerFound ==
  \A h \in Handler :
    pc[h] = "request" /\ kind[h] = "DeleteSessionRequest" => far[h] \in bearer

=============================================================================
