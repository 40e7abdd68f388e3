-------------------------------- MODULE MME --------------------------------
(***************************************************************************)
(* The MME of gw-tester (examples/gw-tester/mme): an eNB calls Attach by     *)
(* gRPC, any number of calls at a time.  A call starts a goroutine that      *)
(* creates a session with the S-GW and modifies its bearer, and waits for    *)
(* what the goroutine reports.  The S-GW's answers come to handlers, which   *)
(* store them in the session and release a goroutine that waits: through one *)
(* channel for all calls, whichever goroutine that is.                       *)
(*                                                                         *)
(* A session is named by the call that created it.  The S-GW is that of      *)
(* gw-tester, whose answers give its TEID for S1-U last in the bearer        *)
(* context.  It answers a request or not, at any time, once or twice.  The   *)
(* directory of sessions is used by TEID only; SessionRegistry has the rest. *)
(***************************************************************************)
EXTENDS Naturals, FiniteSets, AttachService

CONSTANTS
  Enb,      \* addresses of eNBs
  EnbOf,    \* the eNB that makes a call
  Repeated  \* bound: sessions whose first answer may come twice

ASSUME AttachAssumption ==
  /\ Repeated \subseteq Call
  /\ None \notin Call /\ None \notin Enb
  /\ EnbOf \in [Call -> Enb]

\* The eNBs make finitely many calls.
ASSUME CallAssumption == IsFiniteSet(Call)

\* The interfaces for which Session.teidMap gets a TEID of the S-GW's.
Ifaces == {"S11S4SGWGTPC", "S1USGWGTPU"}

\* Answers that are handled: to either request of a call, and a copy of the first.
Arrivals == {"create", "copy", "modify"}

VARIABLES
  created, modified,  \* the tokens in the channels: whose answer put it there
  enbIP,              \* m.enb.s1uIP, None when it is empty
  overwritten,        \* history: what others stored there since a call stored its own,
                      \* until its Modify Bearer Request
  registered,         \* sessions that GetSessionByTEID finds
  teids,              \* Session.teidMap
  pc,                 \* the position of a call's goroutine
  errCh,              \* calls with an error in errCh
  sent,               \* requests that were sent: <<kind, call>>
  bearerIP,           \* the eNB address in the Modify Bearer Request
  handler,            \* the position of the handler of an answer, or of its copy
  verdict,            \* what the S-GW answered
  crashed,            \* RemoveSession(nil): the process is gone
  late,               \* history: calls that timed out
  excused             \* history: calls without an address, that could not send, or that
                      \* took another's token

channels == <<created, modified>>
addresses == <<enbIP, overwritten>>
sessions == <<registered, teids>>
calls == <<caller, pc, errCh>>
answers == <<handler, verdict, crashed>>
history == <<late, excused>>
mmeVars == <<channels, addresses, sessions, calls, sent, bearerIP, answers, history>>

Init ==
  /\ created = None /\ modified = None
  /\ enbIP = None /\ overwritten = [c \in Call |-> {}]
  /\ registered = {} /\ teids = [c \in Call |-> {}]
  /\ ServiceInit
  /\ pc = [c \in Call |-> "none"]
  /\ errCh = {}
  /\ sent = {} /\ bearerIP = [c \in Call |-> None]
  /\ handler = [a \in Arrivals \X Call |-> "none"]
  /\ verdict = [c \in Call |-> "none"]
  /\ crashed = FALSE
  /\ late = {} /\ excused = {}

Goto(c, label) == pc' = [pc EXCEPT ![c] = label]

-----------------------------------------------------------------------------

\* The address is kept in the mme: it is in the way of the calls that have yet to use theirs.
Store(address) ==
  /\ enbIP' = address
  /\ overwritten' = [c \in Call |->
       overwritten[c] \cup
         {x \in {address} : pc[c] \in {"create", "waitCreated", "modify"}}]

\* Attach begins: the eNB's address is stored, and the goroutine starts.
\* Mutant: it does not start.
AttachIdle(c) ==
  /\ CallAttach(c)
  /\ Store(EnbOf[c])
  /\ UNCHANGED <<channels, sessions, pc, errCh, sent, bearerIP, answers, history>>

\* Mutant: an address that is stored is not replaced.
AttachKeeping(c) ==
  /\ CallAttach(c)
  /\ Store(IF enbIP = None THEN EnbOf[c] ELSE enbIP)
  /\ Goto(c, "create")
  /\ UNCHANGED <<channels, sessions, errCh, sent, bearerIP, answers, history>>

Attach(c) ==
  /\ CallAttach(c)
  /\ Store(EnbOf[c])
  /\ Goto(c, "create")
  /\ UNCHANGED <<channels, sessions, errCh, sent, bearerIP, answers, history>>

\* net.SplitHostPort fails: what is stored is empty, and no goroutine starts.
AttachWithoutPort(c) ==
  /\ CallAttach(c)
  /\ Store(None)
  /\ excused' = excused \cup {c}
  /\ Goto(c, "noPort")
  /\ UNCHANGED <<channels, sessions, errCh, sent, bearerIP, answers, late>>

ReturnWithoutPort(c) ==
  /\ pc[c] = "noPort"
  /\ Answer(c, "error")
  /\ Goto(c, "ended")
  /\ UNCHANGED <<channels, addresses, sessions, errCh, sent, bearerIP, answers, history>>

\* The select of Attach: an error that was reported.
\* Mutant: the call is given up when its context ends, although the goroutine lives.
ReturnAtOnce(c) ==
  /\ Answer(c, "error")
  /\ UNCHANGED <<channels, addresses, sessions, pc, errCh, sent, bearerIP, answers, history>>

ReturnError(c) ==
  /\ c \in errCh
  /\ errCh' = errCh \ {c}
  /\ Answer(c, "error")
  /\ UNCHANGED <<channels, addresses, sessions, pc, sent, bearerIP, answers, history>>

\* The select of Attach: the response, from the goroutine that offers it on the
\* channel without a buffer.
ReturnResponse(c) ==
  /\ pc[c] = "respond"
  /\ Answer(c, "success")
  /\ Goto(c, "ended")
  /\ UNCHANGED <<channels, addresses, sessions, errCh, sent, bearerIP, answers,
                 history>>

-----------------------------------------------------------------------------

\* CreateSession: ParseCreateSession registers the session at the F-TEID that
\* NewSenderFTEID drew, and the request goes out.
CreateSession(c) ==
  /\ pc[c] = "create"
  /\ registered' = registered \cup {c}
  /\ sent' = sent \cup {<<"create", c>>}
  /\ Goto(c, "waitCreated")
  /\ UNCHANGED <<channels, addresses, teids, caller, errCh, bearerIP, answers,
                 history>>

\* CreateSession fails: before ParseCreateSession met the F-TEID, or after, when
\* an IE could not be parsed or the request not be sent.  Then nobody removes the
\* session.  errCh <- err, which has room for one, and return.
CreateSessionFails(c) ==
  /\ pc[c] = "create"
  /\ registered' \in {registered, registered \cup {c}}
  /\ excused' = excused \cup {c}
  /\ errCh' = errCh \cup {c}
  /\ Goto(c, "ended")
  /\ UNCHANGED <<channels, addresses, teids, caller, sent, bearerIP, answers, late>>

\* errCh <- err, and return: errCh may still hold the error of a timeout.
\* Mutant: the goroutine returns without a report.
FailSilently(c) ==
  /\ pc[c] = "fail"
  /\ Goto(c, "ended")
  /\ UNCHANGED <<channels, addresses, sessions, caller, errCh, sent, bearerIP, answers,
                 history>>

Fail(c) ==
  /\ pc[c] = "fail"
  /\ c \notin errCh
  /\ errCh' = errCh \cup {c}
  /\ Goto(c, "ended")
  /\ UNCHANGED <<channels, addresses, sessions, caller, sent, bearerIP, answers,
                 history>>

\* <-m.created: a token, of whichever session.
\* Mutant: the token stays, as if created were a flag.
TakeCreatedKept(c) ==
  /\ pc[c] = "waitCreated"
  /\ created # None
  /\ excused' = IF created = c THEN excused ELSE excused \cup {c}
  /\ Goto(c, "modify")
  /\ UNCHANGED <<channels, addresses, sessions, caller, errCh, sent, bearerIP, answers,
                 late>>

TakeCreated(c) ==
  /\ pc[c] = "waitCreated"
  /\ created # None
  /\ created' = None
  /\ excused' = IF created = c THEN excused ELSE excused \cup {c}
  /\ Goto(c, "modify")
  /\ UNCHANGED <<modified, addresses, sessions, caller, errCh, sent, bearerIP, answers,
                 late>>

\* time.After: the error is reported, for which errCh has room, and the goroutine
\* goes on.
\* Mutant: it removes the session first.
CreateTimesOutRemoving(c) ==
  /\ pc[c] = "waitCreated"
  /\ registered' = registered \ {c}
  /\ errCh' = errCh \cup {c}
  /\ late' = late \cup {c}
  /\ Goto(c, "modify")
  /\ UNCHANGED <<channels, addresses, teids, caller, sent, bearerIP, answers, excused>>

CreateTimesOut(c) ==
  /\ pc[c] = "waitCreated"
  /\ errCh' = errCh \cup {c}
  /\ late' = late \cup {c}
  /\ Goto(c, "modify")
  /\ UNCHANGED <<channels, addresses, sessions, caller, sent, bearerIP, answers,
                 excused>>

\* ModifyBearer, with whatever address m.enb.s1uIP holds by now.
ModifyBearer(c) ==
  /\ pc[c] = "modify"
  /\ "S11S4SGWGTPC" \in teids[c]
  /\ sent' = sent \cup {<<"modify", c>>}
  /\ bearerIP' = [bearerIP EXCEPT ![c] = enbIP]
  /\ Goto(c, "waitModified")
  /\ UNCHANGED <<channels, addresses, sessions, caller, errCh, answers, history>>

\* ModifyBearer: GetTEID finds no TEID of the S-GW's.
ModifyWithoutTEID(c) ==
  /\ pc[c] = "modify"
  /\ "S11S4SGWGTPC" \notin teids[c]
  /\ Goto(c, "fail")
  /\ UNCHANGED <<channels, addresses, sessions, caller, errCh, sent, bearerIP, answers,
                 history>>

ModifyBearerFails(c) ==
  /\ pc[c] = "modify"
  /\ "S11S4SGWGTPC" \in teids[c]
  /\ excused' = excused \cup {c}
  /\ Goto(c, "fail")
  /\ UNCHANGED <<channels, addresses, sessions, caller, errCh, sent, bearerIP, answers,
                 late>>

\* <-m.modified
TakeModified(c) ==
  /\ pc[c] = "waitModified"
  /\ modified # None
  /\ modified' = None
  /\ excused' = IF modified = c THEN excused ELSE excused \cup {c}
  /\ Goto(c, "getTEID")
  /\ UNCHANGED <<created, addresses, sessions, caller, errCh, sent, bearerIP, answers,
                 late>>

\* time.After, and then the error: errCh may still hold the first timeout's.
ModifyTimesOut(c) ==
  /\ pc[c] = "waitModified"
  /\ late' = late \cup {c}
  /\ Goto(c, "report")
  /\ UNCHANGED <<channels, addresses, sessions, caller, errCh, sent, bearerIP, answers,
                 excused>>

Report(c) ==
  /\ pc[c] = "report"
  /\ c \notin errCh
  /\ errCh' = errCh \cup {c}
  /\ Goto(c, "getTEID")
  /\ UNCHANGED <<channels, addresses, sessions, caller, sent, bearerIP, answers, history>>

\* session.GetTEID for S1-U; with it the goroutine offers the response.
GetTEID(c) ==
  /\ pc[c] = "getTEID"
  /\ Goto(c, IF "S1USGWGTPU" \in teids[c] THEN "respond" ELSE "fail")
  /\ UNCHANGED <<channels, addresses, sessions, caller, errCh, sent, bearerIP, answers,
                 history>>

-----------------------------------------------------------------------------

\* A Create Session Response arrives, and validate finds its session: for any
\* other it is dropped.
Receive(k, c) ==
  /\ <<"create", c>> \in sent
  /\ k \in {"create"} \cup (IF c \in Repeated THEN {"copy"} ELSE {})
  /\ handler[<<k, c>>] = "none" /\ c \in registered
  /\ handler' = [handler EXCEPT ![<<k, c>>] = "handle"]
  /\ UNCHANGED <<channels, addresses, sessions, calls, sent, bearerIP, verdict, crashed,
                 history>>

\* A handler's next position; what the S-GW answered, which a copy says again.
HandlerAt(k, c, label) == handler' = [handler EXCEPT ![<<k, c>>] = label]

Says(c, v) ==
  /\ verdict[c] \in {"none", v}
  /\ verdict' = [verdict EXCEPT ![c] = v]

\* handleCreateSessionResponse: cause, PAA and F-TEIDs are fine.  It will release
\* a goroutine.
\* Mutant: the TEID for S11 is not stored.
CreateAcceptedForgets(k, c) ==
  /\ handler[<<k, c>>] = "handle" /\ c \in registered
  /\ Says(c, "accepted")
  /\ teids' = [teids EXCEPT ![c] = {"S1USGWGTPU"}]
  /\ HandlerAt(k, c, "release")
  /\ UNCHANGED <<channels, addresses, registered, calls, sent, bearerIP, crashed,
                 history>>

CreateAccepted(k, c) ==
  /\ handler[<<k, c>>] = "handle" /\ c \in registered
  /\ Says(c, "accepted")
  /\ teids' = [teids EXCEPT ![c] = Ifaces]
  /\ HandlerAt(k, c, "release")
  /\ UNCHANGED <<channels, addresses, registered, calls, sent, bearerIP, crashed,
                 history>>

\* handleCreateSessionResponse: another cause than acceptance removes the session.
CreateRefused(k, c) ==
  /\ handler[<<k, c>>] = "handle" /\ c \in registered
  /\ Says(c, "refused")
  /\ registered' = registered \ {c}
  /\ HandlerAt(k, c, "done")
  /\ UNCHANGED <<channels, addresses, teids, calls, sent, bearerIP, crashed, history>>

\* handleCreateSessionResponse: the bearer context is missing, or an IE of the P-GW's in
\* it cannot be parsed; it returns, and the S-GW's TEID for S11 stays in the session.
\* Without an IE that comes before, it returns as if the answer were lost.
CreateIncomplete(k, c) ==
  /\ handler[<<k, c>>] = "handle" /\ c \in registered
  /\ Says(c, "incomplete")
  /\ teids' = [teids EXCEPT ![c] = @ \cup {"S11S4SGWGTPC"}]
  /\ HandlerAt(k, c, "done")
  /\ UNCHANGED <<channels, addresses, registered, calls, sent, bearerIP, crashed, history>>

\* handleCreateSessionResponse: the session has gone since validate saw it, and
\* RemoveSession is called with the nil that GetSessionByTEID returned.
CreateWithoutSession(k, c) ==
  /\ handler[<<k, c>>] = "handle" /\ c \notin registered
  /\ crashed' = TRUE
  /\ UNCHANGED <<channels, addresses, sessions, calls, sent, bearerIP, handler, verdict,
                 history>>

\* m.created <- struct{}{}: the channel has room for one.
ReleaseCreated(k, c) ==
  /\ handler[<<k, c>>] = "release"
  /\ created = None
  /\ created' = c
  /\ HandlerAt(k, c, "done")
  /\ UNCHANGED <<modified, addresses, sessions, calls, sent, bearerIP, verdict, crashed,
                 history>>

\* handleModifyBearerResponse: the session gets its TEID for S1-U.  An answer for a
\* session that is gone, without acceptance or without an IE it needs, changes
\* nothing, as if it were lost.
ModifyAccepted(c) ==
  /\ <<"modify", c>> \in sent
  /\ handler[<<"modify", c>>] = "none" /\ c \in registered
  /\ teids' = [teids EXCEPT ![c] = @ \cup {"S1USGWGTPU"}]
  /\ HandlerAt("modify", c, "release")
  /\ UNCHANGED <<channels, addresses, registered, calls, sent, bearerIP, verdict, crashed,
                 history>>

ReleaseModified(c) ==
  /\ handler[<<"modify", c>>] = "release"
  /\ modified = None
  /\ modified' = c
  /\ HandlerAt("modify", c, "done")
  /\ UNCHANGED <<created, addresses, sessions, calls, sent, bearerIP, verdict, crashed,
                 history>>

-----------------------------------------------------------------------------

\* The call returns.
Select(c) == ReturnError(c) \/ ReturnResponse(c) \/ ReturnWithoutPort(c)

\* The goroutine of the call.
Procedure(c) ==
  \/ CreateSession(c) \/ CreateSessionFails(c)
  \/ TakeCreated(c) \/ CreateTimesOut(c)
  \/ ModifyBearer(c) \/ ModifyWithoutTEID(c) \/ ModifyBearerFails(c)
  \/ TakeModified(c) \/ ModifyTimesOut(c) \/ Report(c)
  \/ GetTEID(c)
  \/ Fail(c)

\* The handlers of the answers to its requests.
Handle(c) ==
  \/ \E k \in {"create", "copy"} :
       \/ Receive(k, c)
       \/ CreateAccepted(k, c) \/ CreateRefused(k, c) \/ CreateIncomplete(k, c)
       \/ CreateWithoutSession(k, c) \/ ReleaseCreated(k, c)
  \/ ModifyAccepted(c) \/ ReleaseModified(c)

\* gRPC ends a call whose server is gone.
ConnectionLost(c) ==
  /\ crashed
  /\ Answer(c, "error")
  /\ UNCHANGED <<channels, addresses, sessions, pc, errCh, sent, bearerIP, answers,
                 history>>

CallStep(c) ==
  \/ ~crashed /\ (Select(c) \/ Procedure(c))
  \/ ConnectionLost(c)

Next ==
  \E c \in Call :
    \/ CallStep(c)
    \/ /\ ~crashed
       /\ Attach(c) \/ AttachWithoutPort(c) \/ Handle(c)

\* Fairness: Go schedules the goroutines of a call, the timers of its waits included, and
\* gRPC notices a server that is gone.  Nobody has to call, and nothing is assumed
\* of the S-GW's answers or of their handlers.
Spec ==
  /\ Init /\ [][Next]_mmeVars
  /\ WF_mmeVars(\E c \in Call : CallStep(c))

-----------------------------------------------------------------------------

TypeOK ==
  /\ created \in Call \cup {None} /\ modified \in Call \cup {None}
  /\ enbIP \in Enb \cup {None} /\ overwritten \in [Call -> SUBSET (Enb \cup {None})]
  /\ registered \subseteq Call /\ teids \in [Call -> SUBSET Ifaces]
  /\ caller \in [Call -> {"none", "waiting", "success", "error"}]
  /\ pc \in [Call -> {"none", "noPort", "create", "waitCreated", "modify", "waitModified",
                       "report", "getTEID", "respond", "fail", "ended"}]
  /\ errCh \subseteq Call
  /\ sent \subseteq {"create", "modify"} \X Call
  /\ bearerIP \in [Call -> Enb \cup {None}]
  /\ handler \in [Arrivals \X Call -> {"none", "handle", "release", "done"}]
  /\ verdict \in [Call -> {"none", "accepted", "refused", "incomplete"}]
  /\ crashed \in BOOLEAN
  /\ late \subseteq Call /\ excused \subseteq Call
  /\ \A c \in Call : caller[c] = "none" <=> pc[c] = "none"

\* An answer arrived twice.
Repetition == \E c \in Call : handler[<<"copy", c>>] # "none"

\* The tokens are anybody's, but what the eNB is told is its own: a call succeeds
\* only if the S-GW accepted a request of this very session, and the bearer was
\* modified with the eNB's own address unless another call stored another one after
\* this call stored its own and before its Modify Bearer Request: an address that was
\* stored before the call is never used (GetTEID, ModifyBearer, m.enb.s1uIP).
SuccessIsOwn ==
  \A c \in Call : caller[c] = "success" =>
    /\ verdict[c] = "accepted" \/ handler[<<"modify", c>>] # "none"
    /\ bearerIP[c] \in {EnbOf[c]} \cup overwritten[c]

\* A call fails only if it was slow, its eNB's address has no port, it could not send, was
\* released by the token of another session's answer, which came before its own (Attach,
\* m.created, m.modified), or if the MME is gone.
\* What the S-GW refused is no other reason: nothing reports it, and the call is slow.
FailsForAReason ==
  \A c \in Call : caller[c] = "error" => c \in late \cup excused \/ crashed

\* A token that is left over releases the next call too early, and so on for ever.
\* None is left over, however calls overlap, unless a call was slow or an answer
\* came twice: as many are taken as are given (m.created, m.modified).
TokensConsumed ==
  (\A c \in Call : pc[c] \in {"none", "ended"}) /\ late = {} /\ ~Repetition =>
    /\ created = None /\ modified = None
    /\ \A a \in Arrivals \X Call : handler[a] # "release"

\* handleCreateSessionResponse dereferences a nil session only if an answer came
\* twice: validate has found the session, and its own answer alone removes it.
OnlyARepeatCrashes == crashed => Repetition

\* The goroutine of a call that is not slow ends: what it reports is read (errCh,
\* rspCh).
GoroutinesEnd ==
  \A c \in Call : pc[c] = "create" ~> (pc[c] = "ended" \/ c \in late \/ crashed)

\* The MME answers every call, whatever the S-GW does (Attach).
ImplementsService == ServiceSpec

=============================================================================
