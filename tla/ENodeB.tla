------------------------------- MODULE ENodeB -------------------------------
(***************************************************************************)
(* The eNB of gw-tester (examples/gw-tester/enb), with the kernel's tunnels. *)
(* Its run goroutine attaches the configured subscribers one by one, then    *)
(* serves attachCh with a goroutine for each subscriber that reload sends.   *)
(* The main goroutine reloads the configuration on SIGHUP and logs what      *)
(* arrives on errCh; it does one of the two at a time.                       *)
(*                                                                         *)
(* The MME is AttachService, which module MME implements: it answers a call, *)
(* in whichever way, at any time.  A TEID of the S-GW's is named by the call *)
(* that returned it, and calls are numbered as they are made.                *)
(***************************************************************************)
EXTENDS Integers, FiniteSets, AttachService

CONSTANTS
  Subscriber,  \* by IMSI; the source address identifies its tunnel
  Reattach,    \* those with reattach_on_reload and a fixed i_tei
  MaxReloads   \* bound: SIGHUPs

ASSUME EnbAssumption ==
  /\ Reattach \subseteq Subscriber
  /\ Call \subseteq Nat
  /\ None \notin Call /\ None \notin Subscriber
  /\ MaxReloads \in Nat

VARIABLES
  main,        \* main: "select", in "reload", "hung" there, "exited", "crashed"
  toSend,      \* subscribers that reload has yet to send on attachCh
  reloads,     \* SIGHUPs so far
  run,         \* run: "initial", "serve", "exited"; attachCh is nil until "serve"
  candidates,  \* subscribers that the first loop of run has yet to attach
  sub,         \* the subscriber of a call
  byRun,       \* calls that run itself waits for
  at,          \* the position of the attach that makes a call
  errors,      \* e.errCh holds an error
  subs,        \* e.sessions
  tunnel,      \* the kernel's tunnel of a subscriber: whose TEID it sends to
  failed,      \* history: subscribers whose last attach brought no tunnel
  overlapped   \* history: subscribers that were attached twice at a time

mains == <<main, toSend, reloads>>
attaches == <<sub, byRun, at>>
state == <<subs, tunnel, failed>>
vars == <<mains, run, candidates, attaches, errors, state, overlapped, caller>>

Init ==
  /\ ServiceInit
  /\ main = "select" /\ toSend = {} /\ reloads = 0
  /\ run = "initial"
  /\ candidates \in SUBSET Subscriber
  /\ sub = [c \in Call |-> None]
  /\ byRun = {}
  /\ at = [c \in Call |-> "none"]
  /\ errors = FALSE
  /\ subs = {} /\ tunnel = [s \in Subscriber |-> None]
  /\ failed = {} /\ overlapped = {}

Unused == {c \in Call : sub[c] = None}

\* An attach of the subscriber is under way.
Attaching(s) == \E c \in Call : sub[c] = s /\ at[c] # "none"

\* run waits for the attach it called.
RunBusy == \E c \in byRun : at[c] # "none"

-----------------------------------------------------------------------------

\* attach begins: the call goes to the MME.
Begin(c, s) ==
  /\ CallAttach(c)
  /\ \A d \in Unused : c <= d
  /\ sub' = [sub EXCEPT ![c] = s]
  /\ at' = [at EXCEPT ![c] = "call"]
  /\ overlapped' = IF Attaching(s) THEN overlapped \cup {s} ELSE overlapped

\* attach returns.  run returns with its error; a goroutine only logs it.
Return(c, failure) ==
  /\ at' = [at EXCEPT ![c] = "none"]
  /\ run' = IF failure /\ c \in byRun THEN "exited" ELSE run

\* The first loop of run, which waits for each attach.
AttachCandidate(c, s) ==
  /\ run = "initial" /\ ~RunBusy
  /\ s \in candidates
  /\ Begin(c, s)
  /\ byRun' = byRun \cup {c}
  /\ candidates' = candidates \ {s}
  /\ UNCHANGED <<mains, run, errors, state>>

\* run makes attachCh.
\* Mutant: before it attaches the candidates, so that reload finds it.
ServeEarly ==
  /\ run = "initial" /\ ~RunBusy
  /\ run' = "serve"
  /\ UNCHANGED <<mains, candidates, attaches, errors, state, overlapped, caller>>

Serve ==
  /\ run = "initial" /\ ~RunBusy /\ candidates = {}
  /\ run' = "serve"
  /\ UNCHANGED <<mains, candidates, attaches, errors, state, overlapped, caller>>

\* run receives a subscriber that reload sends, and starts a goroutine.
\* Mutant: run attaches it itself.
ServeInline(c, s) ==
  /\ main = "reload" /\ s \in toSend
  /\ run = "serve" /\ ~RunBusy
  /\ toSend' = toSend \ {s}
  /\ Begin(c, s)
  /\ byRun' = byRun \cup {c}
  /\ UNCHANGED <<main, reloads, run, candidates, errors, state>>

AttachSent(c, s) ==
  /\ main = "reload" /\ s \in toSend
  /\ run = "serve"
  /\ toSend' = toSend \ {s}
  /\ Begin(c, s)
  /\ UNCHANGED <<main, reloads, run, candidates, byRun, errors, state>>

-----------------------------------------------------------------------------

\* attach: the call returned an error.
AttachFails(c) ==
  /\ at[c] = "call" /\ caller[c] = "error"
  /\ failed' = failed \cup {sub[c]}
  /\ Return(c, TRUE)
  /\ UNCHANGED <<mains, candidates, sub, byRun, errors, subs, tunnel, overlapped, caller>>

\* attach: AddTunnelOverride replaces the subscriber's tunnel.
\* Mutant: AddTunnel, which leaves it.
AddTunnelKeeping(c) ==
  /\ at[c] = "call" /\ caller[c] = "success"
  /\ tunnel' = [tunnel EXCEPT ![sub[c]] = IF @ = None THEN c ELSE @]
  /\ failed' = failed \ {sub[c]}
  /\ at' = [at EXCEPT ![c] = "append"]
  /\ UNCHANGED <<mains, run, candidates, sub, byRun, errors, subs, overlapped, caller>>

AddTunnel(c) ==
  /\ at[c] = "call" /\ caller[c] = "success"
  /\ tunnel' = [tunnel EXCEPT ![sub[c]] = c]
  /\ failed' = failed \ {sub[c]}
  /\ at' = [at EXCEPT ![c] = "append"]
  /\ UNCHANGED <<mains, run, candidates, sub, byRun, errors, subs, overlapped, caller>>

\* attach: the kernel refuses the tunnel, after the old one was deleted, or the route.
AddTunnelFails(c) ==
  /\ at[c] = "call" /\ caller[c] = "success"
  /\ tunnel' \in {[tunnel EXCEPT ![sub[c]] = None], [tunnel EXCEPT ![sub[c]] = c]}
  /\ failed' = failed \cup {sub[c]}
  /\ at' = [at EXCEPT ![c] = "report"]
  /\ UNCHANGED <<mains, run, candidates, sub, byRun, errors, subs, overlapped, caller>>

\* attach: e.sessions = append(e.sessions, sub), which no lock protects: of two
\* at a time one may be lost.  setupUPlane may then fail.
AppendSession(c) ==
  /\ at[c] = "append"
  /\ \/ subs' = subs \cup {sub[c]}
     \/ /\ \E d \in Call \ {c} : at[d] = "append"
        /\ UNCHANGED subs
  /\ \/ Return(c, FALSE)
     \/ at' = [at EXCEPT ![c] = "report"] /\ UNCHANGED run
  /\ UNCHANGED <<mains, candidates, sub, byRun, errors, tunnel, failed, overlapped, caller>>

\* attach: e.errCh <- err, which has room for one, and return nil.
ReportError(c) ==
  /\ at[c] = "report"
  /\ ~errors
  /\ errors' = TRUE
  /\ Return(c, FALSE)
  /\ UNCHANGED <<mains, candidates, sub, byRun, state, overlapped, caller>>

\* runHTTPProbe, which setupUPlane started for a subscriber: e.errCh <- err.
ProbeFails ==
  /\ subs # {}
  /\ ~errors
  /\ errors' = TRUE
  /\ UNCHANGED <<mains, run, candidates, attaches, state, overlapped, caller>>

-----------------------------------------------------------------------------

\* main: <-enb.errCh
LogError ==
  /\ main = "select"
  /\ errors
  /\ errors' = FALSE
  /\ UNCHANGED <<mains, run, candidates, attaches, state, overlapped, caller>>

\* main: SIGINT, or the error that run returned.
Exit ==
  /\ main = "select"
  /\ main' = "exited"
  /\ UNCHANGED <<toSend, reloads, run, candidates, attaches, errors, state, overlapped,
                 caller>>

\* reload with the nil that loadConfig returned with an error, which is only logged.
ReloadNil ==
  /\ main = "select"
  /\ reloads < MaxReloads
  /\ reloads' = reloads + 1
  /\ main' = "crashed"
  /\ UNCHANGED <<toSend, run, candidates, attaches, errors, state, overlapped, caller>>

\* reload with a configuration of these subscribers: one that is attached already is
\* skipped, or its tunnel is deleted so that it is attached again.  Bound: there are
\* calls left for all.
\* Mutant: one whose tunnel it deleted is skipped, too.
ReloadForgets(configured) ==
  LET again == {s \in configured \cap subs \cap Reattach : tunnel[s] # None} IN
  /\ main = "select"
  /\ reloads < MaxReloads
  /\ reloads' = reloads + 1
  /\ main' = "reload"
  /\ tunnel' = [s \in Subscriber |-> IF s \in again THEN None ELSE tunnel[s]]
  /\ toSend' = configured \ subs
  /\ Cardinality(toSend' \cup candidates) <= Cardinality(Unused)
  /\ UNCHANGED <<run, candidates, attaches, errors, subs, failed, overlapped, caller>>

Reload(configured) ==
  LET again == {s \in configured \cap subs \cap Reattach : tunnel[s] # None} IN
  /\ main = "select"
  /\ reloads < MaxReloads
  /\ reloads' = reloads + 1
  /\ main' = "reload"
  /\ tunnel' = [s \in Subscriber |-> IF s \in again THEN None ELSE tunnel[s]]
  /\ toSend' = (configured \ subs) \cup again
  /\ Cardinality(toSend') + Cardinality(candidates) <= Cardinality(Unused)
  /\ UNCHANGED <<run, candidates, attaches, errors, subs, failed, overlapped, caller>>

\* reload: e.attachCh <- sub on the nil channel, before run has made it or after
\* run has failed.
SendOnNil ==
  /\ main = "reload" /\ toSend # {}
  /\ run # "serve"
  /\ main' = "hung"
  /\ UNCHANGED <<toSend, reloads, run, candidates, attaches, errors, state, overlapped,
                 caller>>

ReloadReturns ==
  /\ main = "reload" /\ toSend = {}
  /\ main' = "select"
  /\ UNCHANGED <<toSend, reloads, run, candidates, attaches, errors, state, overlapped,
                 caller>>

-----------------------------------------------------------------------------

\* The goroutine of an attach, apart from its report.
Proceed(c) == AttachFails(c) \/ AddTunnel(c) \/ AddTunnelFails(c) \/ AppendSession(c)

\* The steps of run, and of reload with it.
RunStep ==
  \/ Serve
  \/ \E c \in Unused, s \in Subscriber : AttachCandidate(c, s) \/ AttachSent(c, s)

MainStep == LogError \/ SendOnNil \/ ReloadReturns

\* The MME answers.
Answered(c) ==
  /\ Answers(c)
  /\ UNCHANGED <<mains, run, candidates, attaches, errors, state, overlapped>>

\* The process is there.
Alive == main \notin {"exited", "crashed"}

Next ==
  /\ Alive
  /\ \/ RunStep \/ MainStep \/ Exit \/ ReloadNil
     \/ \E configured \in SUBSET Subscriber : Reload(configured)
     \/ \E c \in Call : Proceed(c) \/ ReportError(c) \/ Answered(c)
     \/ ProbeFails

\* Go schedules every goroutine; one that waits to send on errCh stands in a queue, so
\* that a probe cannot overtake it for ever.  The MME answers, as its module promises.
\* Nobody has to send a signal.
Spec ==
  /\ Init /\ [][Next]_vars
  /\ WF_vars(Alive /\ RunStep)
  /\ WF_vars(Alive /\ MainStep)
  /\ \A c \in Call :
       /\ WF_vars(Alive /\ (Proceed(c) \/ Answered(c)))
       /\ SF_vars(Alive /\ ReportError(c))

-----------------------------------------------------------------------------

\* A subscriber that the eNB holds for attached has a tunnel, unless it is on its way
\* to get another one or its last attach failed: what reload deletes it has attached
\* again (reload, DelTunnelByITEI, e.sessions).
AttachedHasTunnel ==
  \A s \in subs : tunnel[s] = None => s \in toSend \/ Attaching(s) \/ s \in failed

\* The subscriber's packets go to the last session that the S-GW gave it, since the one
\* before is gone there, unless reload had it attached twice at a time (attach, AddTunnelOverride).
TunnelIsLatest ==
  \A s \in Subscriber \ overlapped, c \in Call :
    sub[c] = s /\ caller[c] = "success" /\ at[c] # "call" =>
      tunnel[s] = None \/ tunnel[s] >= c

\* A reload that finds run at attachCh returns to main, however slow the MME is and
\* however many attaches fail: it does not wait for whom waits for main (reload,
\* attachCh, errCh).
ReloadEnds == main = "reload" /\ run = "serve" ~> main # "reload"

\* Every subscriber of the configuration is attached at the start, unless an attach
\* failed or a signal came that ends the process or leaves reload waiting (run).  It takes
\* an MME that answers.
CandidatesAttached ==
  \A s \in Subscriber :
    s \in candidates ~> s \in subs \cup failed \/ run = "exited" \/ main \in {"hung", "exited", "crashed"}

=============================================================================
