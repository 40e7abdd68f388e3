----------------------------- MODULE MME_proofs -----------------------------
(* The MME: type correctness, why calls succeed and fail, and that as many tokens are     *)
(* taken as are given.                                                                   *)
EXTENDS MME, FiniteSetTheorems, TLAPS

\* How far a call's goroutine has come when its requests are sent, and its handlers' answers.
Progress ==
  \A c \in Call :
    /\ <<"create", c>> \in sent => pc[c] \notin {"none", "create"}
    /\ <<"modify", c>> \in sent => pc[c] \notin {"none", "create", "waitCreated", "modify"}
    /\ pc[c] = "waitCreated" => <<"create", c>> \in sent
    /\ pc[c] = "waitModified" => <<"modify", c>> \in sent
    /\ handler[<<"create", c>>] # "none" => <<"create", c>> \in sent
    /\ handler[<<"modify", c>>] # "none" => <<"modify", c>> \in sent

\* A token says that its session has the S-GW's TEID that the goroutine looks for next.
Answered ==
  \A c \in Call :
    /\ \A k \in {"create", "copy"} :
         handler[<<k, c>>] = "release" => teids[c] = Ifaces /\ verdict[c] = "accepted"
    /\ created = c => teids[c] = Ifaces
    /\ handler[<<"modify", c>>] # "none" => "S1USGWGTPU" \in teids[c]
    /\ modified = c => "S1USGWGTPU" \in teids[c]
    /\ "S1USGWGTPU" \in teids[c] =>
         verdict[c] = "accepted" \/ handler[<<"modify", c>>] # "none"

\* The addresses that a call can meet: its own, and what others stored since.
Met(c) == {EnbOf[c]} \cup overwritten[c]

\* Why a call succeeds.
Successes ==
  \A c \in Call :
    /\ pc[c] \in {"create", "waitCreated", "modify"} => enbIP \in Met(c)
    /\ pc[c] \in {"waitModified", "report", "getTEID", "respond"} => bearerIP[c] \in Met(c)
    /\ pc[c] = "respond" => "S1USGWGTPU" \in teids[c]
    /\ caller[c] = "success" =>
         /\ pc[c] = "ended"
         /\ "S1USGWGTPU" \in teids[c] /\ bearerIP[c] \in Met(c)

\* Why a call fails.
Failures ==
  \A c \in Call :
    /\ c \in errCh \/ pc[c] \in {"fail", "noPort"} => c \in late \cup excused
    /\ caller[c] = "error" => c \in late \cup excused \/ crashed
    /\ pc[c] = "report" => c \in late
    /\ pc[c] = "modify" => c \in late \cup excused \/ "S11S4SGWGTPC" \in teids[c]
    /\ pc[c] = "getTEID" => c \in late \cup excused \/ "S1USGWGTPU" \in teids[c]

\* Without a copy the session stays until its answer is handled.
Unrepeated ==
  /\ crashed => Repetition
  /\ \A c \in Call :
       handler[<<"copy", c>>] = "none" /\ handler[<<"create", c>>] = "handle"
         => c \in registered

\* The sessions whose answers gave a token, and the goroutines that took one.
GaveCreated == {c \in Call : handler[<<"create", c>>] = "done" /\ verdict[c] = "accepted"}
TookCreated == {c \in Call : <<"create", c>> \in sent /\ pc[c] # "waitCreated"}
GaveModified == {c \in Call : handler[<<"modify", c>>] = "done"}
TookModified == {c \in Call : <<"modify", c>> \in sent /\ pc[c] # "waitModified"}

\* As many tokens are taken as are given, but for the one in the channel.
Accounts(gave, took, channel) ==
  Cardinality(gave) = Cardinality(took) + (IF channel = None THEN 0 ELSE 1)

TokensCounted ==
  /\ late = {} /\ ~Repetition => Accounts(GaveCreated, TookCreated, created)
  /\ late = {} => Accounts(GaveModified, TookModified, modified)

\* The inductive invariant: what the eNB is told rests on what the tokens stand for.
IInv ==
  /\ TypeOK /\ Progress /\ Answered
  /\ Successes /\ Failures /\ Unrepeated
  /\ TokensCounted

-----------------------------------------------------------------------------

\* A call begins.
Called(c) == Attach(c) \/ AttachWithoutPort(c)

LEMMA InitInv == Init => IInv
<1> SUFFICES ASSUME Init PROVE IInv
  OBVIOUS
<1> USE DEF Init, ServiceInit
<1>1. TypeOK
  BY DEF TypeOK
<1>2. \A k \in Arrivals, c \in Call : handler[<<k, c>>] = "none"
  OBVIOUS
<1>3. Progress /\ Answered /\ Successes /\ Failures
  BY <1>2, AttachAssumption DEF Progress, Answered, Successes, Failures, Arrivals
<1>4. Unrepeated
  BY <1>2 DEF Unrepeated, Arrivals
<1>5. TokensCounted
  <2>1. /\ GaveCreated = {} /\ TookCreated = {}
        /\ GaveModified = {} /\ TookModified = {}
    BY <1>2 DEF GaveCreated, TookCreated, GaveModified, TookModified, Arrivals
  <2> QED
    BY <2>1, FS_EmptySet DEF TokensCounted, Accounts
<1> QED
  BY <1>1, <1>3, <1>4, <1>5 DEF IInv

-----------------------------------------------------------------------------

Labels == {"none", "handle", "release", "done"}

\* What a handler's position becomes.
LEMMA HandlerMoves ==
  ASSUME TypeOK, NEW k \in Arrivals, NEW c \in Call, NEW label \in Labels,
         handler' = [handler EXCEPT ![<<k, c>>] = label]
  PROVE  /\ handler' \in [Arrivals \X Call -> Labels]
         /\ \A j \in Arrivals, d \in Call :
              handler'[<<j, d>>] = IF j = k /\ d = c THEN label ELSE handler[<<j, d>>]
<1>1. handler \in [Arrivals \X Call -> Labels]
  BY DEF TypeOK, Labels
<1>2. handler' \in [Arrivals \X Call -> Labels]
  BY <1>1
<1>3. ASSUME NEW j \in Arrivals, NEW d \in Call
      PROVE  handler'[<<j, d>>] = IF j = k /\ d = c THEN label ELSE handler[<<j, d>>]
  <2>1. <<j, d>> \in Arrivals \X Call /\ (<<j, d>> = <<k, c>> <=> j = k /\ d = c)
    OBVIOUS
  <2> QED
    BY <1>1, <2>1
<1> QED
  BY <1>2, <1>3

LEMMA HandlerGoesTo ==
  ASSUME TypeOK
  PROVE  \A k \in Arrivals, c \in Call, label \in Labels :
           HandlerAt(k, c, label) => handler'[<<k, c>>] = label
<1> SUFFICES ASSUME NEW k \in Arrivals, NEW c \in Call, NEW label \in Labels,
                    HandlerAt(k, c, label)
             PROVE  handler'[<<k, c>>] = label
  OBVIOUS
<1>1. handler' = [handler EXCEPT ![<<k, c>>] = label]
  BY DEF HandlerAt
<1> QED
  BY <1>1, HandlerMoves

\* The steps of the handler of the answer to a call's first request, or of its copy.
Created(k, c) ==
  \/ Receive(k, c)
  \/ CreateAccepted(k, c) \/ CreateRefused(k, c) \/ CreateIncomplete(k, c)
  \/ CreateWithoutSession(k, c) \/ ReleaseCreated(k, c)

\* A handler moves itself alone.
LEMMA OneHandler ==
  ASSUME TypeOK, NEW k \in {"create", "copy"}, NEW c \in Call, Created(k, c)
  PROVE  /\ handler' \in [Arrivals \X Call -> Labels]
         /\ \A j \in Arrivals, d \in Call : j # k \/ d # c => UNCHANGED handler[<<j, d>>]
         /\ handler[<<k, c>>] = "none" => <<"create", c>> \in sent
         /\ UNCHANGED <<calls, sent, bearerIP, history, modified, addresses>>
         /\ \A d \in Call \ {c} : UNCHANGED <<teids[d], verdict[d]>>
<1>1. k \in Arrivals
  BY DEF Arrivals
<1>2. UNCHANGED handler \/ \E label \in Labels : handler' = [handler EXCEPT ![<<k, c>>] = label]
  BY DEF Created, Receive, CreateAccepted, CreateRefused, CreateIncomplete,
         CreateWithoutSession, ReleaseCreated, HandlerAt, Labels
<1>3. /\ \A j \in Arrivals, d \in Call : j # k \/ d # c => UNCHANGED handler[<<j, d>>]
      /\ handler' \in [Arrivals \X Call -> Labels]
  <2>1. CASE UNCHANGED handler
    BY <2>1 DEF TypeOK, Labels
  <2>2. CASE ~UNCHANGED handler
    <3>1. PICK label \in Labels : handler' = [handler EXCEPT ![<<k, c>>] = label]
      BY <1>2, <2>2
    <3> QED
      BY <1>1, <3>1, HandlerMoves
  <2> QED
    BY <2>1, <2>2
<1>4. handler[<<k, c>>] = "none" => <<"create", c>> \in sent
  BY DEF Created, Receive, CreateAccepted, CreateRefused, CreateIncomplete,
         CreateWithoutSession, ReleaseCreated
<1>5. UNCHANGED <<calls, sent, bearerIP, history, modified, addresses>>
  BY DEF Created, Receive, CreateAccepted, CreateRefused, CreateIncomplete,
         CreateWithoutSession, ReleaseCreated, channels
<1>6. \A d \in Call \ {c} : UNCHANGED <<teids[d], verdict[d]>>
  BY DEF Created, Receive, CreateAccepted, CreateRefused, CreateIncomplete, Says, TypeOK,
         CreateWithoutSession, ReleaseCreated, sessions
<1> QED
  BY <1>3, <1>4, <1>5, <1>6

LEMMA StepType ==
  ASSUME TypeOK, NEW c \in Call, CallStep(c) \/ Called(c) \/ Handle(c)
  PROVE  TypeOK'
<1> USE AttachAssumption
        DEF TypeOK, Goto, channels, addresses, sessions, calls, answers, history
<1>1. CASE Called(c)
  BY <1>1 DEF Called, Attach, AttachWithoutPort, CallAttach, Store
<1>2. CASE Select(c) \/ ConnectionLost(c)
  <2>1. CASE ReturnError(c) \/ ConnectionLost(c)
    BY <2>1 DEF ReturnError, ConnectionLost, Answer
  <2>2. CASE ReturnResponse(c) \/ ReturnWithoutPort(c)
    BY <2>2 DEF ReturnResponse, ReturnWithoutPort, Answer
  <2> QED
    BY <1>2, <2>1, <2>2 DEF Select
<1>3. CASE CreateSession(c) \/ CreateSessionFails(c) \/ TakeCreated(c) \/ CreateTimesOut(c)
  BY <1>3 DEF CreateSession, CreateSessionFails, TakeCreated, CreateTimesOut
<1>4. CASE \/ ModifyBearer(c) \/ ModifyWithoutTEID(c) \/ ModifyBearerFails(c)
           \/ TakeModified(c)
  <2>1. CASE ModifyBearer(c) \/ ModifyWithoutTEID(c)
    BY <2>1 DEF ModifyBearer, ModifyWithoutTEID
  <2>2. CASE ModifyBearerFails(c) \/ TakeModified(c)
    BY <2>2 DEF ModifyBearerFails, TakeModified
  <2> QED
    BY <1>4, <2>1, <2>2
<1>5. CASE ModifyTimesOut(c) \/ Report(c) \/ GetTEID(c) \/ Fail(c)
  <2>1. CASE ModifyTimesOut(c) \/ Report(c)
    BY <2>1 DEF ModifyTimesOut, Report
  <2>2. CASE GetTEID(c) \/ Fail(c)
    BY <2>2 DEF GetTEID, Fail
  <2> QED
    BY <1>5, <2>1, <2>2
<1>6. ASSUME NEW k \in {"create", "copy"}, Created(k, c)
      PROVE  TypeOK'
  <2>1. UNCHANGED <<calls, sent, bearerIP, history, modified, addresses>>
    BY <1>6, OneHandler
  <2>2. handler' \in [Arrivals \X Call -> {"none", "handle", "release", "done"}]
    BY <1>6, OneHandler DEF Labels
  <2>3. CASE Receive(k, c) \/ CreateWithoutSession(k, c) \/ ReleaseCreated(k, c)
    BY <2>1, <2>2, <2>3 DEF Receive, CreateWithoutSession, ReleaseCreated
  <2>4. CASE CreateAccepted(k, c) \/ CreateRefused(k, c) \/ CreateIncomplete(k, c)
    <3>1. CASE CreateAccepted(k, c)
      BY <2>1, <2>2, <3>1 DEF CreateAccepted, Says, Ifaces
    <3>2. CASE CreateRefused(k, c)
      BY <2>1, <2>2, <3>2 DEF CreateRefused, Says
    <3>3. CASE CreateIncomplete(k, c)
      <4>1. /\ teids' \in [Call -> SUBSET Ifaces]
            /\ verdict' \in [Call -> {"none", "accepted", "refused", "incomplete"}]
        BY <3>3 DEF CreateIncomplete, Says, Ifaces
      <4>2. UNCHANGED <<created, addresses, registered, crashed>>
        BY <3>3 DEF CreateIncomplete
      <4> QED
        BY <2>1, <2>2, <4>1, <4>2
    <3> QED
      BY <2>4, <3>1, <3>2, <3>3
  <2> QED
    BY <1>6, <2>3, <2>4 DEF Created
<1>7. CASE ModifyAccepted(c) \/ ReleaseModified(c)
  <2>1. /\ created' \in Call \cup {None} /\ modified' \in Call \cup {None}
        /\ teids' \in [Call -> SUBSET Ifaces]
    BY <1>7 DEF ModifyAccepted, ReleaseModified, Ifaces
  <2>2. PICK label \in Labels : handler' = [handler EXCEPT ![<<"modify", c>>] = label]
    BY <1>7 DEF ModifyAccepted, ReleaseModified, HandlerAt, Labels
  <2>3. handler' \in [Arrivals \X Call -> {"none", "handle", "release", "done"}]
    <3>1. "modify" \in Arrivals
      BY DEF Arrivals
    <3> QED
      BY <2>2, <3>1, HandlerMoves DEF Labels
  <2>4. UNCHANGED <<addresses, registered, caller, pc, errCh, sent, bearerIP, verdict, crashed,
                    late, excused>>
    BY <1>7 DEF ModifyAccepted, ReleaseModified
  <2> QED
    BY <2>1, <2>3, <2>4
<1> QED
  BY <1>1, <1>2, <1>3, <1>4, <1>5, <1>6, <1>7 DEF CallStep, Procedure, Handle, Created

\* What only ever grows, and what the steps of the handlers leave alone.
LEMMA Growing ==
  ASSUME TypeOK, NEW c \in Call, CallStep(c) \/ Called(c) \/ Handle(c)
  PROVE  /\ late \subseteq late' /\ excused \subseteq excused'
         /\ sent \subseteq sent' /\ (crashed => crashed')
         /\ \A d \in Call : overwritten[d] \subseteq overwritten'[d]
         /\ \A d \in Call : teids[d] \subseteq teids'[d]
         /\ \A d \in Call : verdict[d] = "accepted" => verdict'[d] = "accepted"
         /\ \A a \in Arrivals \X Call : handler[a] # "none" => handler'[a] # "none"
<1> USE DEF TypeOK, channels, addresses, sessions, calls, answers, history
<1>1. CASE Called(c)
  BY <1>1 DEF Called, Attach, AttachWithoutPort, CallAttach, Store
<1>2. CASE Select(c) \/ ConnectionLost(c)
  BY <1>2 DEF Select, ReturnError, ReturnResponse,
     ReturnWithoutPort, ConnectionLost, Answer
<1>3. CASE Procedure(c)
  BY <1>3 DEF Procedure, CreateSession, CreateSessionFails, TakeCreated, CreateTimesOut,
              ModifyBearer, ModifyWithoutTEID, ModifyBearerFails, TakeModified,
              ModifyTimesOut, Report, GetTEID, Fail
<1>4. CASE Handle(c)
  <2>1. \/ UNCHANGED handler
        \/ \E k \in Arrivals, label \in Labels \ {"none"} : HandlerAt(k, c, label)
    <3>1. ASSUME NEW k \in {"create", "copy"}, Created(k, c)
          PROVE  \/ UNCHANGED handler
                 \/ \E label \in Labels \ {"none"} : HandlerAt(k, c, label)
      <4>1. CASE CreateWithoutSession(k, c)
        BY <4>1 DEF CreateWithoutSession
      <4>2. CASE Receive(k, c)
        <5>1. HandlerAt(k, c, "handle")
          BY <4>2 DEF Receive, HandlerAt
        <5> QED
          BY <5>1 DEF Labels
      <4>3. CASE CreateAccepted(k, c)
        BY <4>3 DEF CreateAccepted, Labels
      <4>4. CASE CreateRefused(k, c) \/ CreateIncomplete(k, c) \/ ReleaseCreated(k, c)
        BY <4>4 DEF CreateRefused, CreateIncomplete, ReleaseCreated, Labels
      <4> QED
        BY <3>1, <4>1, <4>2, <4>3, <4>4 DEF Created
    <3>2. CASE ModifyAccepted(c) \/ ReleaseModified(c)
      BY <3>2 DEF ModifyAccepted, ReleaseModified, Labels, Arrivals
    <3> QED
      BY <1>4, <3>1, <3>2 DEF Handle, Created, Arrivals
  <2>2. \A a \in Arrivals \X Call : handler[a] # "none" => handler'[a] # "none"
    BY <2>1 DEF HandlerAt
  <2>3. UNCHANGED <<late, excused, overwritten, sent, caller>> /\ (crashed => crashed')
    BY <1>4 DEF Handle, Receive, CreateAccepted, CreateRefused, CreateIncomplete,
                CreateWithoutSession, ReleaseCreated, ModifyAccepted, ReleaseModified
  <2>4. \A d \in Call : /\ teids[d] \subseteq teids'[d]
                        /\ verdict[d] = "accepted" => verdict'[d] = "accepted"
    <3>1. ASSUME NEW k \in {"create", "copy"}, Created(k, c)
          PROVE  \A d \in Call : /\ teids[d] \subseteq teids'[d]
                                 /\ verdict[d] = "accepted" => verdict'[d] = "accepted"
      <4>1. CASE Receive(k, c) \/ CreateWithoutSession(k, c) \/ ReleaseCreated(k, c)
        BY <4>1 DEF Receive, CreateWithoutSession, ReleaseCreated
      <4>2. CASE CreateAccepted(k, c)
        BY <4>2 DEF CreateAccepted, Says, Ifaces
      <4>3. CASE CreateRefused(k, c)
        BY <4>3 DEF CreateRefused, Says
      <4>4. CASE CreateIncomplete(k, c)
        BY <4>4 DEF CreateIncomplete, Says, Ifaces
      <4> QED
        BY <3>1, <4>1, <4>2, <4>3, <4>4 DEF Created
    <3>2. CASE ModifyAccepted(c) \/ ReleaseModified(c)
      BY <3>2 DEF ModifyAccepted, ReleaseModified, Ifaces
    <3> QED
      BY <1>4, <3>1, <3>2 DEF Handle, Created
  <2> QED
    BY <2>2, <2>3, <2>4
<1> QED
  BY <1>1, <1>2, <1>3, <1>4 DEF CallStep

\* A goroutine moves itself alone, and the handlers move none.
LEMMA OnlyItself ==
  ASSUME TypeOK, NEW c \in Call, CallStep(c) \/ Called(c) \/ Handle(c),
         NEW d \in Call, d # c \/ Handle(c)
  PROVE  /\ UNCHANGED <<pc[d], caller[d], bearerIP[d]>>
         /\ d \in errCh' <=> d \in errCh
         /\ <<"create", d>> \in sent' <=> <<"create", d>> \in sent
         /\ <<"modify", d>> \in sent' <=> <<"modify", d>> \in sent
<1> USE DEF TypeOK, channels, addresses, sessions, calls, answers, history, Goto
<1>1. CASE Handle(c)
  BY <1>1 DEF Handle, Receive, CreateAccepted, CreateRefused, CreateIncomplete,
              CreateWithoutSession, ReleaseCreated, ModifyAccepted, ReleaseModified
<1>2. CASE Called(c) /\ d # c
  BY <1>2 DEF Called, Attach, AttachWithoutPort, CallAttach, Store
<1>3. CASE (Select(c) \/ ConnectionLost(c)) /\ d # c
  BY <1>3 DEF Select, ReturnError, ReturnResponse,
     ReturnWithoutPort, ConnectionLost, Answer
<1>4. CASE Procedure(c) /\ d # c
  <2>1. CASE \/ CreateSession(c) \/ CreateSessionFails(c) \/ TakeCreated(c)
             \/ CreateTimesOut(c) \/ ModifyBearer(c)
    BY <1>4, <2>1 DEF CreateSession, CreateSessionFails, TakeCreated, CreateTimesOut,
                      ModifyBearer
  <2>2. CASE \/ ModifyWithoutTEID(c) \/ ModifyBearerFails(c) \/ TakeModified(c)
             \/ ModifyTimesOut(c)
    BY <1>4, <2>2 DEF ModifyWithoutTEID, ModifyBearerFails, TakeModified, ModifyTimesOut
  <2>3. CASE Report(c) \/ GetTEID(c) \/ Fail(c)
    BY <1>4, <2>3 DEF Report, GetTEID, Fail
  <2> QED
    BY <1>4, <2>1, <2>2, <2>3 DEF Procedure
<1> QED
  BY <1>1, <1>2, <1>3, <1>4 DEF CallStep

\* A goroutine and the call that waits for it leave to the handlers what is theirs.
LEMMA HandlersOnly ==
  ASSUME NEW c \in Call, CallStep(c) \/ Called(c)
  PROVE  UNCHANGED <<handler, verdict, teids>>
<1> USE DEF sessions, answers
<1>1. CASE Called(c)
  BY <1>1 DEF Called, Attach, AttachWithoutPort
<1>2. CASE Select(c) \/ ConnectionLost(c)
  BY <1>2 DEF Select, ReturnError, ReturnResponse,
     ReturnWithoutPort, ConnectionLost
<1>3. CASE Procedure(c)
  BY <1>3 DEF Procedure, CreateSession, CreateSessionFails, TakeCreated, CreateTimesOut,
              ModifyBearer, ModifyWithoutTEID, ModifyBearerFails, TakeModified,
              ModifyTimesOut, Report, GetTEID, Fail
<1> QED
  BY <1>1, <1>2, <1>3 DEF CallStep

\* The same for the answer to the second request, which has no copy.
LEMMA ModifyHandler ==
  ASSUME TypeOK, NEW c \in Call, ModifyAccepted(c) \/ ReleaseModified(c)
  PROVE  /\ \A j \in Arrivals, d \in Call :
              j # "modify" \/ d # c => UNCHANGED handler[<<j, d>>]
         /\ <<"modify", c>> \in sent \/ handler[<<"modify", c>>] # "none"
         /\ handler'[<<"modify", c>>] \in {"release", "done"}
         /\ UNCHANGED <<calls, sent, bearerIP, history, verdict, created, addresses, crashed>>
         /\ \A d \in Call \ {c} : UNCHANGED teids[d]
<1>1. PICK label \in Labels : /\ handler' = [handler EXCEPT ![<<"modify", c>>] = label]
                              /\ label \in {"release", "done"}
  BY DEF ModifyAccepted, ReleaseModified, HandlerAt, Labels
<1>2. \A j \in Arrivals, d \in Call :
        handler'[<<j, d>>] = IF j = "modify" /\ d = c THEN label ELSE handler[<<j, d>>]
  BY <1>1, HandlerMoves DEF Arrivals
<1>3. UNCHANGED <<calls, sent, bearerIP, history, verdict, created, addresses, crashed>>
  BY DEF ModifyAccepted, ReleaseModified, channels
<1>4. <<"modify", c>> \in sent \/ handler[<<"modify", c>>] # "none"
  BY DEF ModifyAccepted, ReleaseModified
<1>5. \A d \in Call \ {c} : UNCHANGED teids[d]
  BY DEF ModifyAccepted, ReleaseModified, TypeOK, sessions
<1> QED
  BY <1>1, <1>2, <1>3, <1>4, <1>5 DEF Arrivals

LEMMA StepProgress ==
  ASSUME IInv, NEW c \in Call, CallStep(c) \/ Called(c) \/ Handle(c)
  PROVE  Progress'
<1>0. TypeOK /\ Progress
  BY DEF IInv
<1> SUFFICES ASSUME NEW d \in Call
             PROVE  /\ <<"create", d>> \in sent' => pc'[d] \notin {"none", "create"}
                    /\ <<"modify", d>> \in sent' =>
                         pc'[d] \notin {"none", "create", "waitCreated", "modify"}
                    /\ pc'[d] = "waitCreated" => <<"create", d>> \in sent'
                    /\ pc'[d] = "waitModified" => <<"modify", d>> \in sent'
                    /\ handler'[<<"create", d>>] # "none" => <<"create", d>> \in sent'
                    /\ handler'[<<"modify", d>>] # "none" => <<"modify", d>> \in sent'
  BY DEF Progress
<1>1. CASE Handle(c)
  <2>1. /\ pc'[d] = pc[d]
        /\ <<"create", d>> \in sent' <=> <<"create", d>> \in sent
        /\ <<"modify", d>> \in sent' <=> <<"modify", d>> \in sent
    BY <1>0, <1>1, OnlyItself
  <2>2. /\ handler'[<<"create", d>>] # "none" =>
             handler[<<"create", d>>] # "none" \/ <<"create", d>> \in sent
        /\ handler'[<<"modify", d>>] # "none" =>
             handler[<<"modify", d>>] # "none" \/ <<"modify", d>> \in sent
    <3>1. ASSUME NEW k \in {"create", "copy"}, Created(k, c)
          PROVE  /\ handler'[<<"modify", d>>] = handler[<<"modify", d>>]
                 /\ \/ handler'[<<"create", d>>] = handler[<<"create", d>>]
                    \/ handler[<<"create", d>>] # "none"
                    \/ <<"create", d>> \in sent
      BY <1>0, <3>1, OneHandler DEF Arrivals
    <3>2. CASE ModifyAccepted(c) \/ ReleaseModified(c)
      BY <1>0, <3>2, ModifyHandler DEF Arrivals
    <3> QED
      BY <1>1, <3>1, <3>2 DEF Handle, Created
  <2> QED
    BY <1>0, <2>1, <2>2 DEF Progress
<1>2. CASE d # c /\ ~Handle(c)
  BY <1>0, <1>2, OnlyItself, HandlersOnly DEF Progress
<1>3. CASE d = c /\ ~Handle(c)
  <2>1. handler' = handler /\ sent \subseteq sent'
    BY <1>0, <1>3, HandlersOnly, Growing
  <2>2. CASE Called(c) \/ Select(c) \/ ConnectionLost(c)
    BY <1>0, <1>3, <2>1, <2>2 DEF Called, Attach, AttachWithoutPort, CallAttach, Store,
       Goto, TypeOK, Progress, Select, ReturnError, ReturnResponse, ReturnWithoutPort,
       ConnectionLost, calls
  <2>3. CASE CreateSession(c) \/ CreateSessionFails(c) \/ TakeCreated(c) \/ CreateTimesOut(c)
    BY <1>0, <1>3, <2>1, <2>3 DEF CreateSession, CreateSessionFails, TakeCreated,
         CreateTimesOut, Goto, TypeOK, Progress
  <2>4. CASE ModifyBearer(c) \/ ModifyWithoutTEID(c) \/ ModifyBearerFails(c)
    BY <1>0, <1>3, <2>1, <2>4 DEF ModifyBearer, ModifyWithoutTEID, ModifyBearerFails,
         Goto, TypeOK, Progress
  <2>5. CASE TakeModified(c) \/ ModifyTimesOut(c) \/ Report(c) \/ GetTEID(c) \/ Fail(c)
    BY <1>0, <1>3, <2>1, <2>5 DEF TakeModified, ModifyTimesOut, Report, GetTEID, Fail,
         Goto, TypeOK, Progress
  <2> QED
    BY <1>3, <2>2, <2>3, <2>4, <2>5 DEF CallStep, Procedure
<1> QED
  BY <1>1, <1>2, <1>3

\* What the channels hold comes from a handler that released.
LEMMA TokensGiven ==
  ASSUME TypeOK, NEW c \in Call, CallStep(c) \/ Called(c) \/ Handle(c)
  PROVE  /\ \/ created' \in {created, None}
            \/ created' = c /\ \E k \in {"create", "copy"} : handler[<<k, c>>] = "release"
         /\ \/ modified' \in {modified, None}
            \/ modified' = c /\ handler[<<"modify", c>>] = "release"
<1> USE DEF channels
<1>1. CASE Called(c)
  BY <1>1 DEF Called, Attach, AttachWithoutPort
<1>2. CASE Select(c) \/ ConnectionLost(c)
  BY <1>2 DEF Select, ReturnError, ReturnResponse,
     ReturnWithoutPort, ConnectionLost
<1>3. CASE Procedure(c)
  BY <1>3 DEF Procedure, CreateSession, CreateSessionFails, TakeCreated, CreateTimesOut,
              ModifyBearer, ModifyWithoutTEID, ModifyBearerFails, TakeModified,
              ModifyTimesOut, Report, GetTEID, Fail
<1>4. CASE Handle(c)
  BY <1>4 DEF Handle, Receive, CreateAccepted, CreateRefused, CreateIncomplete,
              CreateWithoutSession, ReleaseCreated, ModifyAccepted, ReleaseModified
<1> QED
  BY <1>1, <1>2, <1>3, <1>4 DEF CallStep

LEMMA StepAnswered ==
  ASSUME IInv, NEW c \in Call, CallStep(c) \/ Called(c) \/ Handle(c)
  PROVE  Answered'
<1>0. TypeOK /\ Answered /\ TypeOK'
  BY StepType DEF IInv
<1> SUFFICES ASSUME NEW d \in Call
             PROVE  /\ \A k \in {"create", "copy"} : handler'[<<k, d>>] = "release" =>
                         teids'[d] = Ifaces /\ verdict'[d] = "accepted"
                    /\ created' = d => teids'[d] = Ifaces
                    /\ handler'[<<"modify", d>>] # "none" => "S1USGWGTPU" \in teids'[d]
                    /\ modified' = d => "S1USGWGTPU" \in teids'[d]
                    /\ "S1USGWGTPU" \in teids'[d] =>
                         verdict'[d] = "accepted" \/ handler'[<<"modify", d>>] # "none"
  BY DEF Answered
<1>1. /\ teids[d] \subseteq teids'[d] /\ teids'[d] \subseteq Ifaces
      /\ verdict[d] = "accepted" => verdict'[d] = "accepted"
      /\ handler[<<"modify", d>>] # "none" => handler'[<<"modify", d>>] # "none"
  BY <1>0, Growing DEF TypeOK, Arrivals
<1>2. created' = d => teids'[d] = Ifaces
  BY <1>0, <1>1, AttachAssumption, TokensGiven DEF Answered
<1>3. modified' = d => "S1USGWGTPU" \in teids'[d]
  BY <1>0, <1>1, AttachAssumption, TokensGiven DEF Answered
<1>4. ASSUME NEW k \in {"create", "copy"}, handler'[<<k, d>>] = "release"
      PROVE  teids'[d] = Ifaces /\ verdict'[d] = "accepted"
  <2>1. CASE handler[<<k, d>>] = "release"
    BY <1>0, <1>1, <2>1 DEF Answered
  <2>2. CASE handler[<<k, d>>] # "release"
    <3>1. d = c /\ Created(k, c)
      <4>1. ~CallStep(c) /\ ~Called(c)
        BY <1>4, <2>2, HandlersOnly
      <4>2. ASSUME NEW j \in {"create", "copy"}, Created(j, c)
            PROVE  d = c /\ j = k
        <5>1. k # j \/ d # c => handler'[<<k, d>>] = handler[<<k, d>>]
          <6>1. k \in Arrivals
            BY DEF Arrivals
          <6> QED
            BY <1>0, <4>2, <6>1, OneHandler
        <5> QED
          BY <1>4, <2>2, <5>1
      <4>3. CASE ModifyAccepted(c) \/ ReleaseModified(c)
        BY <1>0, <1>4, <2>2, <4>3, ModifyHandler DEF Arrivals
      <4> QED
        BY <4>1, <4>2, <4>3 DEF Handle, Created
    <3>2. CreateAccepted(k, c)
      <4>1. \A label \in Labels : HandlerAt(k, c, label) => handler'[<<k, c>>] = label
        BY <1>0, HandlerGoesTo DEF Arrivals
      <4> QED
        BY <1>4, <2>2, <3>1, <4>1 DEF Created, Receive, CreateRefused, CreateIncomplete,
             CreateWithoutSession, ReleaseCreated, Labels, HandlerAt
    <3> QED
      BY <1>0, <3>1, <3>2 DEF CreateAccepted, Says, TypeOK
  <2> QED
    BY <2>1, <2>2
<1>5. handler'[<<"modify", d>>] # "none" => "S1USGWGTPU" \in teids'[d]
  <2>1. CASE handler[<<"modify", d>>] # "none"
    BY <1>0, <1>1, <2>1 DEF Answered
  <2>2. CASE handler[<<"modify", d>>] = "none" /\ handler'[<<"modify", d>>] # "none"
    <3>1. ModifyAccepted(c) /\ d = c
      <4>1. ~CallStep(c) /\ ~Called(c)
        BY <2>2, HandlersOnly
      <4>2. ASSUME NEW j \in {"create", "copy"}, Created(j, c)
            PROVE  FALSE
        BY <1>0, <2>2, <4>2, OneHandler DEF Arrivals
      <4>3. CASE ModifyAccepted(c) \/ ReleaseModified(c)
        BY <1>0, <2>2, <4>3, ModifyHandler DEF Arrivals, ReleaseModified
      <4> QED
        BY <4>1, <4>2, <4>3 DEF Handle, Created
    <3> QED
      BY <1>0, <3>1 DEF ModifyAccepted, TypeOK
  <2> QED
    BY <2>1, <2>2
<1>6. "S1USGWGTPU" \in teids'[d] =>
        verdict'[d] = "accepted" \/ handler'[<<"modify", d>>] # "none"
  <2>1. CASE "S1USGWGTPU" \in teids[d]
    BY <1>0, <1>1, <2>1 DEF Answered
  <2>2. CASE "S1USGWGTPU" \notin teids[d] /\ "S1USGWGTPU" \in teids'[d]
    <3>1. ~CallStep(c) /\ ~Called(c)
      BY <2>2, HandlersOnly
    <3>2. ASSUME NEW k \in {"create", "copy"}, Created(k, c)
          PROVE  verdict'[d] = "accepted"
      <4>1. d = c
        BY <1>0, <2>2, <3>2, OneHandler
      <4> QED
        BY <1>0, <2>2, <3>2, <4>1 DEF Created, Receive, CreateAccepted, CreateRefused,
             CreateIncomplete, CreateWithoutSession, ReleaseCreated, Says, TypeOK, sessions
    <3>3. CASE ModifyAccepted(c) \/ ReleaseModified(c)
      BY <1>0, <2>2, <3>3, ModifyHandler
    <3> QED
      BY <3>1, <3>2, <3>3 DEF Handle, Created
  <2> QED
    BY <2>1, <2>2
<1> QED
  BY <1>2, <1>3, <1>4, <1>5, <1>6

LEMMA StepSuccesses ==
  ASSUME IInv, NEW c \in Call, CallStep(c) \/ Called(c) \/ Handle(c)
  PROVE  Successes'
<1>0. TypeOK /\ Successes /\ TypeOK'
  BY StepType DEF IInv
<1>1. \A d \in Call : Met(d) \subseteq Met(d)'
  BY <1>0, Growing DEF Met
<1>2. ASSUME NEW d \in Call, pc'[d] \in {"create", "waitCreated", "modify"}
      PROVE  enbIP' \in Met(d)'
  <2>1. CASE Called(c) /\ d = c
    BY <1>0, <1>2, <2>1 DEF Called, Attach, AttachWithoutPort, Store, Goto, Met, TypeOK
  <2>2. CASE Called(c) /\ d # c
    <3>1. pc'[d] = pc[d]
      BY <1>0, <2>2, OnlyItself
    <3>2. overwritten'[d] = overwritten[d] \cup
            {x \in {enbIP'} : pc[d] \in {"create", "waitCreated", "modify"}}
      BY <2>2 DEF Called, Attach, AttachWithoutPort, Store
    <3> QED
      BY <1>2, <3>1, <3>2 DEF Met
  <2>3. CASE ~Called(c)
    <3>1. enbIP' = enbIP
      BY <2>3 DEF CallStep, Select, ReturnError, ReturnResponse,
     ReturnWithoutPort,
         ConnectionLost, Procedure, CreateSession, CreateSessionFails, TakeCreated,
         CreateTimesOut, ModifyBearer, ModifyWithoutTEID, ModifyBearerFails, TakeModified,
         ModifyTimesOut, Report, GetTEID, Fail, Handle, Receive, CreateAccepted,
         CreateRefused, CreateIncomplete, CreateWithoutSession, ReleaseCreated,
         ModifyAccepted, ReleaseModified, addresses
    <3>2. pc[d] \in {"create", "waitCreated", "modify"}
      <4>1. CASE d # c \/ Handle(c)
        BY <1>0, <1>2, <4>1, OnlyItself
      <4>2. CASE CallStep(c) /\ d = c
        BY <1>0, <1>2, <4>2 DEF CallStep, Select, ReturnError, ReturnResponse,
           ReturnWithoutPort, ConnectionLost, Procedure, CreateSession, CreateSessionFails,
           TakeCreated, CreateTimesOut, ModifyBearer, ModifyWithoutTEID, ModifyBearerFails,
           TakeModified, ModifyTimesOut, Report, GetTEID, Fail, Goto, TypeOK, calls
      <4> QED
        BY <2>3, <4>1, <4>2
    <3> QED
      BY <1>0, <1>1, <3>1, <3>2 DEF Successes
  <2> QED
    BY <2>1, <2>2, <2>3
<1> SUFFICES ASSUME NEW d \in Call
             PROVE  /\ pc'[d] \in {"waitModified", "report", "getTEID", "respond"} =>
                         bearerIP'[d] \in Met(d)'
                    /\ pc'[d] = "respond" => "S1USGWGTPU" \in teids'[d]
                    /\ caller'[d] = "success" =>
                         /\ pc'[d] = "ended"
                         /\ "S1USGWGTPU" \in teids'[d] /\ bearerIP'[d] \in Met(d)'
  BY <1>2 DEF Successes
<1>3. teids[d] \subseteq teids'[d]
  BY <1>0, Growing
<1>4. CASE d # c \/ Handle(c)
  BY <1>0, <1>1, <1>3, <1>4, OnlyItself DEF Successes
<1>5. CASE d = c /\ ~Handle(c)
  <2> USE DEF TypeOK, Goto, calls
  <2>1. CASE Called(c)
    BY <1>0, <1>5, <2>1 DEF Called, Attach, AttachWithoutPort, CallAttach, Store
  <2>2. CASE ReturnError(c) \/ ConnectionLost(c)
    BY <1>0, <1>1, <1>3, <1>5, <2>2 DEF ReturnError, ConnectionLost, Answer, Successes
  <2>3. CASE ReturnResponse(c) \/ ReturnWithoutPort(c)
    BY <1>0, <1>1, <1>3, <1>5, <2>3 DEF ReturnResponse, ReturnWithoutPort, Answer, Successes
  <2>4. CASE CreateSession(c) \/ CreateSessionFails(c) \/ TakeCreated(c) \/ CreateTimesOut(c)
    BY <1>0, <1>1, <1>3, <1>5, <2>4 DEF CreateSession, CreateSessionFails, TakeCreated,
       CreateTimesOut, Successes
  <2>5. CASE ModifyBearer(c) \/ ModifyWithoutTEID(c) \/ ModifyBearerFails(c)
    BY <1>0, <1>1, <1>3, <1>5, <2>5 DEF ModifyBearer, ModifyWithoutTEID, ModifyBearerFails,
       Successes
  <2>6. CASE TakeModified(c) \/ ModifyTimesOut(c) \/ Report(c) \/ GetTEID(c) \/ Fail(c)
    BY <1>0, <1>1, <1>3, <1>5, <2>6 DEF TakeModified, ModifyTimesOut, Report, GetTEID, Fail,
       Successes
  <2> QED
    BY <1>5, <2>1, <2>2, <2>3, <2>4, <2>5, <2>6 DEF CallStep, Select, Procedure
<1> QED
  BY <1>4, <1>5

LEMMA StepFailures ==
  ASSUME IInv, NEW c \in Call, CallStep(c) \/ Called(c) \/ Handle(c)
  PROVE  Failures'
<1>0. TypeOK /\ Failures /\ Answered /\ TypeOK'
  BY StepType DEF IInv
<1> SUFFICES ASSUME NEW d \in Call
             PROVE  /\ d \in errCh' \/ pc'[d] \in {"fail", "noPort"} => d \in late' \cup excused'
                    /\ caller'[d] = "error" => d \in late' \cup excused' \/ crashed'
                    /\ pc'[d] = "report" => d \in late'
                    /\ pc'[d] = "modify" =>
                         d \in late' \cup excused' \/ "S11S4SGWGTPC" \in teids'[d]
                    /\ pc'[d] = "getTEID" =>
                         d \in late' \cup excused' \/ "S1USGWGTPU" \in teids'[d]
  BY DEF Failures
<1>1. /\ late \subseteq late' /\ excused \subseteq excused' /\ (crashed => crashed')
      /\ teids[d] \subseteq teids'[d]
  BY <1>0, Growing
<1>2. CASE d # c \/ Handle(c)
  BY <1>0, <1>1, <1>2, OnlyItself DEF Failures
<1>3. CASE d = c /\ ~Handle(c)
  <2> USE DEF TypeOK, Goto, calls
  <2>1. CASE Called(c)
    BY <1>0, <1>1, <1>3, <2>1 DEF Called, Attach, AttachWithoutPort, CallAttach, Store,
       Failures
  <2>2. CASE Select(c) \/ ConnectionLost(c)
    BY <1>0, <1>1, <1>3, <2>2 DEF Select, ReturnError, ConnectionLost, ReturnResponse,
       ReturnWithoutPort, Answer, Failures
  <2>3. CASE CreateSession(c) \/ CreateSessionFails(c) \/ CreateTimesOut(c)
    BY <1>0, <1>1, <1>3, <2>3 DEF CreateSession, CreateSessionFails, CreateTimesOut, Failures
  <2>4. CASE TakeCreated(c)
    <3>1. c \in excused' \/ created = c
      BY <1>0, <2>4 DEF TakeCreated
    <3>2. created = c => "S11S4SGWGTPC" \in teids[c]
      <4> HIDE DEF TypeOK
      <4> QED
        BY <1>0 DEF Answered, Ifaces
    <3>3. pc'[c] = "modify" /\ UNCHANGED <<errCh, caller, teids, late, crashed>>
      BY <1>0, <2>4 DEF TakeCreated, sessions, answers
    <3> QED
      BY <1>0, <1>1, <1>3, <3>1, <3>2, <3>3 DEF Failures
  <2>5. CASE ModifyBearer(c) \/ ModifyWithoutTEID(c) \/ ModifyBearerFails(c)
    BY <1>0, <1>1, <1>3, <2>5 DEF ModifyBearer, ModifyWithoutTEID, ModifyBearerFails, Failures
  <2>6. CASE TakeModified(c)
    <3>1. c \in excused' \/ modified = c
      BY <1>0, <2>6 DEF TakeModified
    <3>2. modified = c => "S1USGWGTPU" \in teids[c]
      BY <1>0 DEF Answered
    <3>3. pc'[c] = "getTEID" /\ UNCHANGED <<errCh, caller, teids, late, crashed>>
      BY <1>0, <2>6 DEF TakeModified, sessions, answers
    <3> QED
      BY <1>0, <1>1, <1>3, <3>1, <3>2, <3>3 DEF Failures
  <2>7. CASE ModifyTimesOut(c) \/ Report(c) \/ GetTEID(c) \/ Fail(c)
    BY <1>0, <1>1, <1>3, <2>7 DEF ModifyTimesOut, Report, GetTEID, Fail, Failures
  <2> QED
    BY <1>3, <2>1, <2>2, <2>3, <2>4, <2>5, <2>6, <2>7 DEF CallStep, Select, Procedure
<1> QED
  BY <1>2, <1>3

LEMMA StepUnrepeated ==
  ASSUME IInv, NEW c \in Call, CallStep(c) \/ Called(c) \/ Handle(c)
  PROVE  Unrepeated'
<1>0. TypeOK /\ Unrepeated
  BY DEF IInv
<1>1. Repetition => Repetition'
  BY <1>0, Growing DEF Repetition, Arrivals
<1>2. CASE CallStep(c) \/ Called(c)
  <2>1. UNCHANGED <<handler, crashed>>
    BY <1>2 DEF CallStep, Called, Attach, AttachWithoutPort, Select, ReturnError,
       ReturnResponse, ReturnWithoutPort, ConnectionLost, Procedure, CreateSession,
       CreateSessionFails, TakeCreated, CreateTimesOut, ModifyBearer, ModifyWithoutTEID,
       ModifyBearerFails, TakeModified, ModifyTimesOut, Report, GetTEID, Fail, answers
  <2>2. registered \subseteq registered'
    BY <1>2 DEF CallStep, Called, Attach, AttachWithoutPort, Select, ReturnError,
       ReturnResponse, ReturnWithoutPort, ConnectionLost, Procedure, CreateSession,
       CreateSessionFails, TakeCreated, CreateTimesOut, ModifyBearer, ModifyWithoutTEID,
       ModifyBearerFails, TakeModified, ModifyTimesOut, Report, GetTEID, Fail, sessions
  <2> QED
    BY <1>0, <2>1, <2>2 DEF Unrepeated, Repetition
<1>3. CASE ModifyAccepted(c) \/ ReleaseModified(c)
  <2>1. /\ UNCHANGED <<registered, crashed>>
        /\ \A k \in {"create", "copy"}, d \in Call : handler'[<<k, d>>] = handler[<<k, d>>]
    <3>1. UNCHANGED <<registered, crashed>>
      BY <1>3 DEF ModifyAccepted, ReleaseModified, sessions
    <3>2. ASSUME NEW k \in {"create", "copy"}, NEW d \in Call
          PROVE  handler'[<<k, d>>] = handler[<<k, d>>]
      BY <1>0, <1>3, ModifyHandler DEF Arrivals
    <3> QED
      BY <3>1, <3>2
  <2> QED
    BY <1>0, <1>1, <2>1 DEF Unrepeated
<1>4. ASSUME NEW k \in {"create", "copy"}, Created(k, c)
      PROVE  Unrepeated'
  <2>1. ASSUME NEW d \in Call, d # c,
               handler'[<<"copy", d>>] = "none", handler'[<<"create", d>>] = "handle"
        PROVE  d \in registered'
    <3>1. d \in registered
      BY <1>0, <1>4, <2>1, OneHandler DEF Arrivals, Unrepeated
    <3> QED
      BY <1>4, <2>1, <3>1 DEF Created, Receive, CreateAccepted, CreateRefused,
         CreateIncomplete, CreateWithoutSession, ReleaseCreated, sessions
  <2>2. \A label \in Labels : HandlerAt(k, c, label) => handler'[<<k, c>>] = label
    BY <1>0, HandlerGoesTo DEF Arrivals
  <2>3. k = "copy" => handler'[<<"copy", c>>] # "none"
    BY <1>0, <1>4, <2>2 DEF Created, Receive, CreateAccepted, CreateRefused,
       CreateIncomplete, CreateWithoutSession, ReleaseCreated, Labels, HandlerAt
  <2>4. ASSUME handler'[<<"copy", c>>] = "none", handler'[<<"create", c>>] = "handle",
               k = "create"
        PROVE  c \in registered'
    <3>1. handler[<<"copy", c>>] = "none"
      BY <1>0, <1>4, <2>4, OneHandler DEF Arrivals
    <3> QED
      BY <1>0, <1>4, <2>2, <2>4, <3>1 DEF Created, Receive, CreateAccepted, CreateRefused,
         Unrepeated, CreateIncomplete, CreateWithoutSession, ReleaseCreated, Labels,
         sessions, HandlerAt
  <2>5. crashed' => Repetition'
    <3>1. CASE crashed
      BY <1>0, <1>1, <3>1 DEF Unrepeated
    <3>2. CASE ~crashed /\ crashed'
      <4>1. CreateWithoutSession(k, c)
        BY <1>4, <3>2 DEF Created, Receive, CreateAccepted, CreateRefused,
           CreateIncomplete, ReleaseCreated
      <4>2. handler[<<"copy", c>>] # "none"
        BY <1>0, <4>1 DEF CreateWithoutSession, Unrepeated
      <4> QED
        BY <1>1, <4>2 DEF Repetition
    <3> QED
      BY <3>1, <3>2
  <2>6. ASSUME NEW d \in Call,
               handler'[<<"copy", d>>] = "none", handler'[<<"create", d>>] = "handle"
        PROVE  d \in registered'
    BY <2>1, <2>3, <2>4, <2>6
  <2> QED
    BY <2>5, <2>6 DEF Unrepeated
<1> QED
  BY <1>2, <1>3, <1>4 DEF Handle, Created

-----------------------------------------------------------------------------

LEMMA SetsFinite ==
  /\ IsFiniteSet(GaveCreated) /\ IsFiniteSet(TookCreated)
  /\ IsFiniteSet(GaveModified) /\ IsFiniteSet(TookModified)
  /\ Cardinality(GaveCreated) \in Nat /\ Cardinality(TookCreated) \in Nat
  /\ Cardinality(GaveModified) \in Nat /\ Cardinality(TookModified) \in Nat
BY CallAssumption, FS_Subset, FS_CardinalityType
   DEF GaveCreated, TookCreated, GaveModified, TookModified

\* The accounts stay balanced when a token is given ...
LEMMA GiveBalances ==
  ASSUME NEW gave, IsFiniteSet(gave), NEW took, IsFiniteSet(took),
         NEW c \in Call, c \notin gave, Accounts(gave, took, None)
  PROVE  Accounts(gave \cup {c}, took, c)
<1>1. /\ Cardinality(gave) \in Nat /\ Cardinality(took) \in Nat
      /\ Cardinality(gave \cup {c}) = Cardinality(gave) + 1
  BY FS_AddElement, FS_CardinalityType
<1> QED
  BY <1>1, AttachAssumption DEF Accounts

\* ... and when it is taken.
LEMMA TakeBalances ==
  ASSUME NEW gave, IsFiniteSet(gave), NEW took, IsFiniteSet(took),
         NEW c \in Call, c \notin took, NEW channel, channel # None,
         Accounts(gave, took, channel)
  PROVE  Accounts(gave, took \cup {c}, None)
<1>1. /\ Cardinality(gave) \in Nat /\ Cardinality(took) \in Nat
      /\ Cardinality(took \cup {c}) = Cardinality(took) + 1
  BY FS_AddElement, FS_CardinalityType
<1> QED
  BY <1>1 DEF Accounts

\* What a step does to the accounts of the first channel, as long as no call is late and no
\* answer comes twice: a handler gives a token, a goroutine takes one, or nothing happens.
LEMMA CreatedSteps ==
  ASSUME IInv, NEW c \in Call, CallStep(c) \/ Called(c) \/ Handle(c),
         late' = {}, ~Repetition'
  PROVE  \/ /\ created = None /\ created' = c /\ c \notin GaveCreated
            /\ GaveCreated' = GaveCreated \cup {c} /\ TookCreated' = TookCreated
         \/ /\ created # None /\ created' = None /\ c \notin TookCreated
            /\ GaveCreated' = GaveCreated /\ TookCreated' = TookCreated \cup {c}
         \/ UNCHANGED <<created, GaveCreated, TookCreated>>
<1>0. TypeOK /\ Progress /\ Answered
  BY DEF IInv
<1>1. CASE CallStep(c) \/ Called(c)
  <2>1. GaveCreated' = GaveCreated
    BY <1>1, HandlersOnly DEF GaveCreated
  <2>2. \A d \in Call \ {c} : /\ pc'[d] = pc[d]
                              /\ <<"create", d>> \in sent' <=> <<"create", d>> \in sent
    BY <1>0, OnlyItself
  <2>3. CASE TakeCreated(c)
    <3>1. /\ created # None /\ created' = None
          /\ pc[c] = "waitCreated" /\ pc'[c] = "modify" /\ sent' = sent
      BY <1>0, <2>3 DEF TakeCreated, Goto, TypeOK
    <3>2. <<"create", c>> \in sent /\ c \notin TookCreated
      BY <1>0, <3>1 DEF Progress, TookCreated
    <3>3. TookCreated' = TookCreated \cup {c}
      BY <2>2, <3>1, <3>2 DEF TookCreated
    <3> QED
      BY <2>1, <3>1, <3>2, <3>3
  <2>4. CASE ~TakeCreated(c)
    <3>1. created' = created
      BY <1>1, <2>4 DEF CallStep, Called, Attach, AttachWithoutPort, Select, ReturnError,
         ReturnResponse, ReturnWithoutPort, ConnectionLost, Procedure, CreateSession,
         CreateSessionFails, CreateTimesOut, ModifyBearer, ModifyWithoutTEID,
         ModifyBearerFails, TakeModified, ModifyTimesOut, Report, GetTEID, Fail, channels
    <3>2. ~CreateTimesOut(c)
      BY DEF CreateTimesOut
    <3>3. c \in TookCreated' <=> c \in TookCreated
      <4>1. CASE Called(c) \/ Select(c) \/ ConnectionLost(c)
        <5>1. sent' = sent
          BY <4>1 DEF Called, Attach, AttachWithoutPort, Select, ReturnError, ReturnResponse,
     ReturnWithoutPort, ConnectionLost
        <5>2. pc'[c] = "waitCreated" <=> pc[c] = "waitCreated"
          BY <1>0, <4>1 DEF Called, Attach, AttachWithoutPort, CallAttach, Store, Select,
             ReturnError, ReturnResponse, ReturnWithoutPort, ConnectionLost, Goto, TypeOK,
             calls
        <5> QED
          BY <5>1, <5>2 DEF TookCreated
      <4>2. CASE CreateSession(c) \/ CreateSessionFails(c)
        BY <1>0, <4>2 DEF CreateSession, CreateSessionFails, Goto, TypeOK, TookCreated,
           Progress
      <4>3. CASE ModifyBearer(c)
        BY <1>0, <4>3 DEF ModifyBearer, Goto, TypeOK, TookCreated
      <4>4. CASE ModifyWithoutTEID(c) \/ ModifyBearerFails(c) \/ TakeModified(c)
                 \/ ModifyTimesOut(c) \/ Report(c) \/ GetTEID(c) \/ Fail(c)
        BY <1>0, <4>4 DEF ModifyWithoutTEID, ModifyBearerFails, TakeModified,
           ModifyTimesOut, Report, GetTEID, Fail, Goto, TypeOK, TookCreated
      <4> QED
        BY <1>1, <2>4, <3>2, <4>1, <4>2, <4>3, <4>4 DEF CallStep, Procedure
    <3>4. TookCreated' = TookCreated
      <4>1. \A d \in Call \ {c} : d \in TookCreated' <=> d \in TookCreated
        BY <2>2 DEF TookCreated
      <4>2. TookCreated \subseteq Call /\ TookCreated' \subseteq Call
        BY DEF TookCreated
      <4> QED
        BY <3>3, <4>1, <4>2
    <3> QED
      BY <2>1, <3>1, <3>4
  <2> QED
    BY <2>3, <2>4
<1>2. CASE Handle(c)
  <2>1. \A d \in Call : /\ pc'[d] = pc[d]
                        /\ <<"create", d>> \in sent' <=> <<"create", d>> \in sent
    BY <1>0, <1>2, OnlyItself
  <2>2. TookCreated' = TookCreated
    BY <2>1 DEF TookCreated
  <2>3. CASE ModifyAccepted(c) \/ ReleaseModified(c)
    <3>1. UNCHANGED <<created, GaveCreated>>
      <4>1. \A d \in Call : UNCHANGED handler[<<"create", d>>]
        BY <1>0, <2>3, ModifyHandler DEF Arrivals
      <4>2. UNCHANGED <<created, verdict>>
        BY <1>0, <2>3, ModifyHandler
      <4> QED
        BY <4>1, <4>2 DEF GaveCreated
    <3> QED
      BY <2>2, <3>1
  <2>4. ASSUME NEW k \in {"create", "copy"}, Created(k, c)
        PROVE  \/ /\ created = None /\ created' = c /\ c \notin GaveCreated
                  /\ GaveCreated' = GaveCreated \cup {c}
               \/ UNCHANGED <<created, GaveCreated>>
    <3>1. \A label \in Labels : HandlerAt(k, c, label) => handler'[<<k, c>>] = label
      BY <1>0, HandlerGoesTo DEF Arrivals
    <3>2. k = "create"
      <4>1. handler'[<<"copy", c>>] = "none"
        BY DEF Repetition
      <4> QED
        BY <2>4, <3>1, <4>1 DEF Created, Receive, CreateAccepted, CreateRefused,
           CreateIncomplete, CreateWithoutSession, ReleaseCreated, Labels, HandlerAt
    <3>3. \A d \in Call \ {c} :
            UNCHANGED <<handler[<<"create", d>>], verdict[d]>>
      <4>1. "create" \in Arrivals
        BY DEF Arrivals
      <4>2. ASSUME NEW d \in Call \ {c}
            PROVE  UNCHANGED handler[<<"create", d>>]
        <5>1. \A j \in Arrivals, e \in Call : j # k \/ e # c => UNCHANGED handler[<<j, e>>]
          BY <1>0, <2>4, OneHandler
        <5> QED
          BY <4>1, <4>2, <5>1
      <4>3. \A d \in Call \ {c} : UNCHANGED verdict[d]
        BY <1>0, <2>4, OneHandler
      <4> QED
        BY <4>2, <4>3
    <3>4. CASE ReleaseCreated(k, c)
      <4>1. /\ created = None /\ created' = c /\ verdict' = verdict
            /\ handler[<<"create", c>>] = "release" /\ handler'[<<"create", c>>] = "done"
        BY <3>1, <3>2, <3>4 DEF ReleaseCreated, Labels
      <4>2. verdict[c] = "accepted"
        BY <1>0, <4>1 DEF Answered
      <4> QED
        BY <3>3, <4>1, <4>2 DEF GaveCreated
    <3>5. CASE ~ReleaseCreated(k, c)
      <4>1. created' = created
        BY <2>4, <3>5 DEF Created, Receive, CreateAccepted, CreateRefused,
           CreateIncomplete, CreateWithoutSession, channels
      <4>2. handler[<<"create", c>>] # "done"
        BY <2>4, <3>2, <3>5 DEF Created, Receive, CreateAccepted, CreateRefused,
           CreateIncomplete, CreateWithoutSession
      <4>3. handler'[<<"create", c>>] # "done" \/ verdict'[c] # "accepted"
        BY <1>0, <2>4, <3>1, <3>2, <3>5, <4>2 DEF Created, Receive, CreateAccepted,
           CreateRefused, CreateIncomplete, CreateWithoutSession, Labels, Says, TypeOK,
           HandlerAt
      <4> QED
        BY <3>3, <4>1, <4>2, <4>3 DEF GaveCreated
    <3> QED
      BY <3>4, <3>5
  <2> QED
    BY <1>2, <2>2, <2>3, <2>4 DEF Handle, Created
<1> QED
  BY <1>1, <1>2

\* The same for the second channel, where no answer has a copy.
LEMMA ModifiedSteps ==
  ASSUME IInv, NEW c \in Call, CallStep(c) \/ Called(c) \/ Handle(c), late' = {}
  PROVE  \/ /\ modified = None /\ modified' = c /\ c \notin GaveModified
            /\ GaveModified' = GaveModified \cup {c} /\ TookModified' = TookModified
         \/ /\ modified # None /\ modified' = None /\ c \notin TookModified
            /\ GaveModified' = GaveModified /\ TookModified' = TookModified \cup {c}
         \/ UNCHANGED <<modified, GaveModified, TookModified>>
<1>0. TypeOK /\ Progress
  BY DEF IInv
<1>1. CASE CallStep(c) \/ Called(c)
  <2>1. GaveModified' = GaveModified
    BY <1>1, HandlersOnly DEF GaveModified
  <2>2. \A d \in Call \ {c} : /\ pc'[d] = pc[d]
                              /\ <<"modify", d>> \in sent' <=> <<"modify", d>> \in sent
    BY <1>0, OnlyItself
  <2>3. CASE TakeModified(c)
    <3>1. /\ modified # None /\ modified' = None
          /\ pc[c] = "waitModified" /\ pc'[c] = "getTEID" /\ sent' = sent
      BY <1>0, <2>3 DEF TakeModified, Goto, TypeOK
    <3>2. <<"modify", c>> \in sent /\ c \notin TookModified
      BY <1>0, <3>1 DEF Progress, TookModified
    <3>3. TookModified' = TookModified \cup {c}
      BY <2>2, <3>1, <3>2 DEF TookModified
    <3> QED
      BY <2>1, <3>1, <3>2, <3>3
  <2>4. CASE ~TakeModified(c)
    <3>1. modified' = modified
      BY <1>1, <2>4 DEF CallStep, Called, Attach, AttachWithoutPort, Select, ReturnError,
         ReturnResponse, ReturnWithoutPort, ConnectionLost, Procedure, CreateSession,
         CreateSessionFails, TakeCreated, CreateTimesOut, ModifyBearer, ModifyWithoutTEID,
         ModifyBearerFails, ModifyTimesOut, Report, GetTEID, Fail, channels
    <3>2. ~ModifyTimesOut(c)
      BY DEF ModifyTimesOut
    <3>3. c \in TookModified' <=> c \in TookModified
      <4>1. CASE Called(c) \/ Select(c) \/ ConnectionLost(c)
        <5>1. sent' = sent
          BY <4>1 DEF Called, Attach, AttachWithoutPort, Select, ReturnError, ReturnResponse,
     ReturnWithoutPort, ConnectionLost
        <5>2. pc'[c] = "waitModified" <=> pc[c] = "waitModified"
          BY <1>0, <4>1 DEF Called, Attach, AttachWithoutPort, CallAttach, Store, Select,
             ReturnError, ReturnResponse, ReturnWithoutPort, ConnectionLost, Goto, TypeOK,
             calls
        <5> QED
          BY <5>1, <5>2 DEF TookModified
      <4>2. CASE CreateSession(c) \/ CreateSessionFails(c) \/ TakeCreated(c)
                 \/ CreateTimesOut(c)
        BY <1>0, <4>2 DEF CreateSession, CreateSessionFails, TakeCreated, CreateTimesOut,
           Goto, TypeOK, TookModified
      <4>3. CASE ModifyBearer(c)
        <5>1. pc[c] = "modify" /\ pc'[c] = "waitModified"
          BY <1>0, <4>3 DEF ModifyBearer, Goto, TypeOK
        <5> QED
          BY <1>0, <5>1 DEF Progress, TookModified
      <4>4. CASE ModifyWithoutTEID(c) \/ ModifyBearerFails(c)
                 \/ Report(c) \/ GetTEID(c) \/ Fail(c)
        BY <1>0, <4>4 DEF ModifyWithoutTEID, ModifyBearerFails, Report, GetTEID, Fail,
           Goto, TypeOK, TookModified
      <4> QED
        BY <1>1, <2>4, <3>2, <4>1, <4>2, <4>3, <4>4 DEF CallStep, Procedure
    <3>4. TookModified' = TookModified
      <4>1. \A d \in Call \ {c} : d \in TookModified' <=> d \in TookModified
        BY <2>2 DEF TookModified
      <4>2. TookModified \subseteq Call /\ TookModified' \subseteq Call
        BY DEF TookModified
      <4> QED
        BY <3>3, <4>1, <4>2
    <3> QED
      BY <2>1, <3>1, <3>4
  <2> QED
    BY <2>3, <2>4
<1>2. CASE Handle(c)
  <2>1. \A d \in Call : /\ pc'[d] = pc[d]
                        /\ <<"modify", d>> \in sent' <=> <<"modify", d>> \in sent
    BY <1>0, <1>2, OnlyItself
  <2>2. TookModified' = TookModified
    BY <2>1 DEF TookModified
  <2>3. ASSUME NEW k \in {"create", "copy"}, Created(k, c)
        PROVE  UNCHANGED <<modified, GaveModified>>
    BY <1>0, <2>3, OneHandler DEF GaveModified, Arrivals
  <2>4. CASE ModifyAccepted(c) \/ ReleaseModified(c)
    <3>1. \A d \in Call \ {c} : UNCHANGED handler[<<"modify", d>>]
      BY <1>0, <2>4, ModifyHandler DEF Arrivals
    <3>2. \A label \in Labels : HandlerAt("modify", c, label) => handler'[<<"modify", c>>] = label
      BY <1>0, HandlerGoesTo DEF Arrivals
    <3>3. CASE ReleaseModified(c)
      <4>1. /\ modified = None /\ modified' = c
            /\ handler[<<"modify", c>>] = "release" /\ handler'[<<"modify", c>>] = "done"
        BY <3>2, <3>3 DEF ReleaseModified, Labels
      <4> QED
        BY <2>2, <3>1, <4>1 DEF GaveModified
    <3>4. CASE ModifyAccepted(c)
      <4>1. /\ modified' = modified
            /\ handler[<<"modify", c>>] = "none" /\ handler'[<<"modify", c>>] = "release"
        BY <3>2, <3>4 DEF ModifyAccepted, Labels, channels
      <4> QED
        BY <2>2, <3>1, <4>1 DEF GaveModified
    <3> QED
      BY <2>4, <3>3, <3>4
  <2> QED
    BY <1>2, <2>2, <2>3, <2>4 DEF Handle, Created
<1> QED
  BY <1>1, <1>2

LEMMA StepTokens ==
  ASSUME IInv, NEW c \in Call, CallStep(c) \/ Called(c) \/ Handle(c)
  PROVE  TokensCounted'
<1>1. (late' = {} => late = {}) /\ (~Repetition' => ~Repetition)
  BY Growing DEF IInv, Repetition, Arrivals
<1>2. ASSUME late' = {}, ~Repetition'
      PROVE  Accounts(GaveCreated', TookCreated', created')
  <2>1. Accounts(GaveCreated, TookCreated, created)
    BY <1>1, <1>2 DEF IInv, TokensCounted
  <2> QED
    <3>1. CASE /\ created = None /\ created' = c /\ c \notin GaveCreated
               /\ GaveCreated' = GaveCreated \cup {c} /\ TookCreated' = TookCreated
      BY <2>1, <3>1, SetsFinite, GiveBalances
    <3>2. CASE /\ created # None /\ created' = None /\ c \notin TookCreated
               /\ GaveCreated' = GaveCreated /\ TookCreated' = TookCreated \cup {c}
      <4>1. Accounts(GaveCreated, TookCreated \cup {c}, None)
        BY <2>1, <3>2, SetsFinite, TakeBalances
      <4> QED
        BY <3>2, <4>1
    <3>3. CASE UNCHANGED <<created, GaveCreated, TookCreated>>
      BY <2>1, <3>3
    <3> QED
      BY <1>2, <3>1, <3>2, <3>3, CreatedSteps
<1>3. ASSUME late' = {}
      PROVE  Accounts(GaveModified', TookModified', modified')
  <2>1. Accounts(GaveModified, TookModified, modified)
    BY <1>1, <1>3 DEF IInv, TokensCounted
  <2> QED
    <3>1. CASE /\ modified = None /\ modified' = c /\ c \notin GaveModified
               /\ GaveModified' = GaveModified \cup {c} /\ TookModified' = TookModified
      BY <2>1, <3>1, SetsFinite, GiveBalances
    <3>2. CASE /\ modified # None /\ modified' = None /\ c \notin TookModified
               /\ GaveModified' = GaveModified /\ TookModified' = TookModified \cup {c}
      <4>1. Accounts(GaveModified, TookModified \cup {c}, None)
        BY <2>1, <3>2, SetsFinite, TakeBalances
      <4> QED
        BY <3>2, <4>1
    <3>3. CASE UNCHANGED <<modified, GaveModified, TookModified>>
      BY <2>1, <3>3
    <3> QED
      BY <1>3, <3>1, <3>2, <3>3, ModifiedSteps
<1> QED
  BY <1>2, <1>3 DEF TokensCounted

-----------------------------------------------------------------------------

LEMMA NextInv == IInv /\ [Next]_mmeVars => IInv'
<1> SUFFICES ASSUME IInv, [Next]_mmeVars PROVE IInv'
  OBVIOUS
<1>1. CASE UNCHANGED mmeVars
  <2> USE <1>1 DEF IInv, mmeVars, channels, addresses, sessions, calls, answers, history
  <2>1. TypeOK' /\ Progress' /\ Answered'
    BY DEF TypeOK, Progress, Answered
  <2>2. Successes' /\ Failures' /\ Unrepeated'
    BY DEF Successes, Met, Failures, Unrepeated, Repetition
  <2>3. TokensCounted'
    BY DEF TokensCounted, Repetition, GaveCreated, TookCreated, GaveModified, TookModified
  <2> QED
    BY <2>1, <2>2, <2>3
<1>2. ASSUME NEW c \in Call, CallStep(c) \/ Called(c) \/ Handle(c)
      PROVE  IInv'
  <2>1. TypeOK' /\ Progress' /\ Answered'
    BY <1>2, StepType, StepProgress, StepAnswered DEF IInv
  <2>2. Successes' /\ Failures' /\ Unrepeated' /\ TokensCounted'
    BY <1>2, StepSuccesses, StepFailures, StepUnrepeated, StepTokens
  <2> QED
    BY <2>1, <2>2 DEF IInv
<1> QED
  BY <1>1, <1>2 DEF Next, Called

LEMMA Invariance == Spec => []IInv
<1> QED
  BY InitInv, NextInv, PTL DEF Spec

\* The variables keep their types, and a call has a goroutine as soon as it has begun, for
\* any calls and eNBs (Attach).
THEOREM TypeCorrect == Spec => []TypeOK
<1>1. IInv => TypeOK
  BY DEF IInv
<1> QED
  BY <1>1, Invariance, PTL

\* A call succeeds only if the S-GW accepted a request of its own session, and with no other
\* address than its own or one that another call stored between this call's Attach and its
\* Modify Bearer Request, for any number of overlapping calls (Attach, GetTEID, ModifyBearer).
THEOREM SuccessCorrect == Spec => []SuccessIsOwn
<1>1. IInv => SuccessIsOwn
  <2> SUFFICES ASSUME IInv, NEW c \in Call, caller[c] = "success"
               PROVE  /\ verdict[c] = "accepted" \/ handler[<<"modify", c>>] # "none"
                      /\ bearerIP[c] \in {EnbOf[c]} \cup overwritten[c]
    BY DEF SuccessIsOwn
  <2>1. "S1USGWGTPU" \in teids[c] /\ bearerIP[c] \in Met(c)
    BY DEF IInv, Successes
  <2> QED
    BY <2>1 DEF IInv, Answered, Met
<1> QED
  BY <1>1, Invariance, PTL

\* A call fails only if it was slow, its eNB's address has no port, it could not send, took
\* another session's token, or if the MME is gone: a refusal of the S-GW alone is not
\* reported (Attach).
THEOREM FailureCorrect == Spec => []FailsForAReason
<1>1. IInv => FailsForAReason
  BY DEF IInv, Failures, FailsForAReason
<1> QED
  BY <1>1, Invariance, PTL

\* No token is left over when all calls have ended, unless one was slow or an answer came
\* twice (m.created, m.modified): there are as many goroutines that took one as answers that
\* gave one, and no more answers than goroutines that waited.
THEOREM TokensCorrect == Spec => []TokensConsumed
<1>1. IInv => TokensConsumed
  <2> SUFFICES ASSUME IInv, \A c \in Call : pc[c] \in {"none", "ended"}, late = {},
                      ~Repetition
               PROVE  /\ created = None /\ modified = None
                      /\ \A a \in Arrivals \X Call : handler[a] # "release"
    BY DEF TokensConsumed
  <2>1. TookCreated = {c \in Call : <<"create", c>> \in sent}
    BY DEF TookCreated
  <2>2. TookModified = {c \in Call : <<"modify", c>> \in sent}
    BY DEF TookModified
  <2>3. GaveCreated \subseteq TookCreated /\ GaveModified \subseteq TookModified
    BY <2>1, <2>2 DEF GaveCreated, GaveModified, IInv, Progress
  <2>4. /\ Cardinality(GaveCreated) <= Cardinality(TookCreated)
        /\ Cardinality(GaveModified) <= Cardinality(TookModified)
    BY <2>3, SetsFinite, FS_Subset
  <2>5. /\ Accounts(GaveCreated, TookCreated, created)
        /\ Accounts(GaveModified, TookModified, modified)
    BY DEF IInv, TokensCounted
  <2>6. /\ created = None /\ Cardinality(GaveCreated) = Cardinality(TookCreated)
        /\ modified = None /\ Cardinality(GaveModified) = Cardinality(TookModified)
    BY <2>4, <2>5, SetsFinite DEF Accounts
  <2>7. GaveCreated = TookCreated /\ GaveModified = TookModified
    BY <2>3, <2>6, SetsFinite, FS_Subset
  <2>8. ASSUME NEW k \in Arrivals, NEW c \in Call, handler[<<k, c>>] = "release"
        PROVE  FALSE
    <3>1. CASE k = "create"
      BY <2>1, <2>7, <2>8, <3>1 DEF GaveCreated, IInv, Progress
    <3>2. CASE k = "modify"
      BY <2>2, <2>7, <2>8, <3>2 DEF GaveModified, IInv, Progress
    <3>3. CASE k = "copy"
      BY <2>8, <3>3 DEF Repetition
    <3> QED
      BY <3>1, <3>2, <3>3 DEF Arrivals
  <2> QED
    BY <2>6, <2>8
<1> QED
  BY <1>1, Invariance, PTL

\* The nil session that handleCreateSessionResponse dereferences is met only by an answer
\* that came twice.
THEOREM CrashCorrect == Spec => []OnlyARepeatCrashes
<1>1. IInv => OnlyARepeatCrashes
  BY DEF IInv, Unrepeated, OnlyARepeatCrashes
<1> QED
  BY <1>1, Invariance, PTL

\* Every step of the MME is a step of the service that the eNB sees, or none: nobody gets
\* an answer who has not called, nor two (AttachService; that every call is answered is
\* liveness and checked by TLC).
THEOREM SafeService == Spec => ServiceInit /\ [][ServiceNext]_caller
<1>1. Init => ServiceInit
  BY DEF Init
<1>2. [Next]_mmeVars => [ServiceNext]_caller
  <2> SUFFICES ASSUME [Next]_mmeVars, caller' # caller PROVE ServiceNext
    OBVIOUS
  <2>1. PICK c \in Call : CallStep(c) \/ Called(c) \/ Handle(c)
    BY DEF Next, Called, mmeVars, calls
  <2>2. CallAttach(c) \/ Answer(c, "success") \/ Answer(c, "error")
    BY <2>1 DEF CallStep, Select, ReturnError, ReturnResponse,
     ReturnWithoutPort, ConnectionLost, Called, Attach, AttachWithoutPort,
       Procedure, CreateSession, CreateSessionFails, TakeCreated, CreateTimesOut,
       ModifyBearer, ModifyWithoutTEID, ModifyBearerFails, TakeModified, ModifyTimesOut,
       Report, GetTEID, Fail, Handle, Receive, CreateAccepted, CreateRefused,
       CreateIncomplete, CreateWithoutSession, ReleaseCreated, ModifyAccepted,
       ReleaseModified, calls
  <2> QED
    BY <2>2 DEF ServiceNext, Answers
<1> QED
  BY <1>1, <1>2, PTL DEF Spec

=============================================================================
