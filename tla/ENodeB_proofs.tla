---------------------------- MODULE ENodeB_proofs ----------------------------
(* The eNB: a subscriber that counts as attached has a tunnel, and it is the latest.      *)
EXTENDS ENodeB, TLAPS

TypeOK ==
  /\ main \in {"select", "reload", "hung", "exited", "crashed"}
  /\ toSend \subseteq Subscriber /\ reloads \in Nat
  /\ run \in {"initial", "serve", "exited"}
  /\ candidates \subseteq Subscriber
  /\ caller \in [Call -> {"none", "waiting", "success", "error"}]
  /\ sub \in [Call -> Subscriber \cup {None}]
  /\ byRun \subseteq Call
  /\ at \in [Call -> {"none", "call", "append", "report"}]
  /\ errors \in BOOLEAN
  /\ subs \subseteq Subscriber
  /\ tunnel \in [Subscriber -> Call \cup {None}]
  /\ failed \subseteq Subscriber /\ overlapped \subseteq Subscriber

\* An attach has a subscriber and waits for its own call; main has nothing left to send
\* when it is not in reload.
Positions ==
  /\ main = "select" => toSend = {}
  /\ \A c \in Call :
       /\ sub[c] = None <=> caller[c] = "none"
       /\ sub[c] = None => at[c] = "none"
       /\ caller[c] = "waiting" => at[c] = "call"

\* The subscriber will be attached, or is, and its tunnel not made yet.
Pending(s) == s \in toSend \/ \E c \in Call : sub[c] = s /\ at[c] = "call"

\* The eNB holds the subscriber for attached, or is about to.
Holds(s) == s \in subs \/ \E c \in Call : sub[c] = s /\ at[c] \in {"append", "report"}

\* AttachedHasTunnel from the moment that the tunnel is made.
HeldHasTunnel ==
  \A s \in Subscriber : Holds(s) /\ tunnel[s] = None => Pending(s) \/ s \in failed

\* Calls are numbered as they are made.
NumbersGrow == \A c \in Call \ Unused, d \in Unused : c < d

\* Unless two overlapped, the attach under way is the subscriber's only one, and the last.
OneAtATime ==
  \A c, d \in Call :
    sub[c] # None /\ sub[c] = sub[d] /\ sub[c] \notin overlapped /\ c # d /\ at[c] # "none"
      => at[d] = "none" /\ d < c

\* The inductive invariant.
IInv ==
  /\ TypeOK /\ Positions
  /\ HeldHasTunnel /\ NumbersGrow /\ OneAtATime
  /\ TunnelIsLatest

-----------------------------------------------------------------------------

LEMMA InitInv == Init => IInv
<1> SUFFICES ASSUME Init PROVE IInv
  OBVIOUS
<1> USE EnbAssumption DEF Init, ServiceInit
<1>1. TypeOK
  BY DEF TypeOK
<1>2. Positions /\ OneAtATime /\ TunnelIsLatest
  BY DEF Positions, OneAtATime, TunnelIsLatest
<1>3. HeldHasTunnel /\ NumbersGrow
  BY DEF HeldHasTunnel, Holds, NumbersGrow, Unused
<1> QED
  BY <1>1, <1>2, <1>3 DEF IInv

-----------------------------------------------------------------------------

\* The steps of one attach, of the goroutines around it, and of the MME.
AttachStep(c) == \/ AttachFails(c) \/ AddTunnel(c) \/ AddTunnelFails(c)
                 \/ AppendSession(c) \/ ReportError(c)
OtherStep ==
  Serve \/ ProbeFails \/ LogError \/ Exit \/ ReloadNil \/ SendOnNil \/ ReloadReturns

LEMMA NextCases ==
  ASSUME Next
  PROVE  \/ \E c \in Unused, s \in Subscriber : AttachCandidate(c, s) \/ AttachSent(c, s)
         \/ \E c \in Call : AttachStep(c) \/ Answered(c)
         \/ \E configured \in SUBSET Subscriber : Reload(configured)
         \/ OtherStep
BY DEF Next, RunStep, MainStep, Proceed, AttachStep, OtherStep

LEMMA StepType ==
  ASSUME IInv, Next
  PROVE  TypeOK'
<1> USE EnbAssumption
        DEF IInv, TypeOK, Begin, CallAttach, Return, mains, attaches, state
<1>1. ASSUME NEW c \in Unused, NEW s \in Subscriber,
             AttachCandidate(c, s) \/ AttachSent(c, s)
      PROVE  TypeOK'
  <2>1. c \in Call
    BY DEF Unused
  <2>2. CASE AttachCandidate(c, s)
    BY <2>1, <2>2 DEF AttachCandidate
  <2>3. CASE AttachSent(c, s)
    BY <2>1, <2>3 DEF AttachSent
  <2> QED
    BY <1>1, <2>2, <2>3
<1>2. ASSUME NEW c \in Call, AttachStep(c)
      PROVE  TypeOK'
  <2>1. at[c] # "none" => sub[c] \in Subscriber
    BY DEF Positions
  <2>2. CASE AttachFails(c) \/ ReportError(c)
    BY <2>1, <2>2 DEF AttachFails, ReportError
  <2>3. CASE AddTunnel(c) \/ AddTunnelFails(c)
    <3>1. tunnel' \in [Subscriber -> Call \cup {None}] /\ failed' \subseteq Subscriber
      BY <2>1, <2>3 DEF AddTunnel, AddTunnelFails
    <3>2. at' \in [Call -> {"none", "call", "append", "report"}]
      BY <2>3 DEF AddTunnel, AddTunnelFails
    <3> QED
      BY <2>1, <2>3, <3>1, <3>2 DEF AddTunnel, AddTunnelFails
  <2>4. CASE AppendSession(c)
    BY <2>1, <2>4 DEF AppendSession
  <2> QED
    BY <1>2, <2>2, <2>3, <2>4 DEF AttachStep
<1>3. ASSUME NEW c \in Call, Answered(c)
      PROVE  TypeOK'
  BY <1>3 DEF Answered, Answers, Answer
<1>4. ASSUME NEW configured \in SUBSET Subscriber, Reload(configured)
      PROVE  TypeOK'
  BY <1>4 DEF Reload
<1>5. CASE OtherStep
  <2>1. CASE ReloadNil
    BY <2>1 DEF ReloadNil
  <2>2. CASE ~ReloadNil
    BY <1>5, <2>2 DEF OtherStep, Serve, ProbeFails, LogError, Exit, SendOnNil, ReloadReturns
  <2> QED
    BY <2>1, <2>2
<1> QED
  BY <1>1, <1>2, <1>3, <1>4, <1>5, NextCases

LEMMA StepPositions ==
  ASSUME IInv, Next
  PROVE  Positions'
<1> USE EnbAssumption
        DEF IInv, TypeOK, Positions, Begin, CallAttach, Return, mains, attaches, state
<1>1. ASSUME NEW c \in Unused, NEW s \in Subscriber,
             AttachCandidate(c, s) \/ AttachSent(c, s)
      PROVE  Positions'
  BY <1>1 DEF AttachCandidate, AttachSent, Unused
<1>2. ASSUME NEW c \in Call, AttachStep(c)
      PROVE  Positions'
  BY <1>2 DEF AttachStep, AttachFails, ReportError, AddTunnel, AddTunnelFails, AppendSession
<1>3. ASSUME NEW c \in Call, Answered(c)
      PROVE  Positions'
  BY <1>3 DEF Answered, Answers, Answer
<1>4. ASSUME NEW configured \in SUBSET Subscriber, Reload(configured)
      PROVE  Positions'
  BY <1>4 DEF Reload
<1>5. CASE OtherStep
  BY <1>5 DEF OtherStep, Serve, ProbeFails, LogError, Exit, ReloadNil, SendOnNil,
              ReloadReturns
<1> QED
  BY <1>1, <1>2, <1>3, <1>4, <1>5, NextCases

LEMMA StepHeld ==
  ASSUME IInv, Next
  PROVE  HeldHasTunnel'
<1> USE EnbAssumption
        DEF IInv, TypeOK, HeldHasTunnel, Begin, CallAttach, Return, mains, attaches, state
<1>1. ASSUME NEW c \in Unused, NEW s \in Subscriber,
             AttachCandidate(c, s) \/ AttachSent(c, s)
      PROVE  HeldHasTunnel'
  <2>1. /\ sub' = [sub EXCEPT ![c] = s] /\ at' = [at EXCEPT ![c] = "call"]
        /\ UNCHANGED <<subs, tunnel, failed>> /\ toSend \ {s} \subseteq toSend'
        /\ sub[c] = None /\ c \in Call /\ s # None
    BY <1>1 DEF AttachCandidate, AttachSent, Unused
  <2>2. \A t \in Subscriber : (Holds(t)' => Holds(t)) /\ (Pending(t) => Pending(t)')
    BY <2>1 DEF Holds, Pending
  <2> QED
    BY <2>1, <2>2
<1>2. ASSUME NEW c \in Call, AttachStep(c)
      PROVE  HeldHasTunnel'
  <2>1. at[c] # "none" /\ sub[c] \in Subscriber
    BY <1>2 DEF AttachStep, AttachFails, ReportError, AddTunnel, AddTunnelFails,
                AppendSession, Positions
  <2>2. /\ UNCHANGED <<sub, toSend>>
        /\ \A d \in Call \ {c} : at'[d] = at[d]
    BY <1>2 DEF AttachStep, AttachFails, ReportError, AddTunnel, AddTunnelFails,
                AppendSession
  <2>3. CASE AttachFails(c) \/ AddTunnel(c) \/ AddTunnelFails(c)
    <3>1. /\ \A t \in Subscriber \ {sub[c]} :
               tunnel'[t] = tunnel[t] /\ (t \in failed' <=> t \in failed)
          /\ tunnel'[sub[c]] # None \/ sub[c] \in failed'
          /\ subs' = subs
      BY <2>1, <2>3 DEF AttachFails, AddTunnel, AddTunnelFails
    <3>2. \A t \in Subscriber \ {sub[c]} :
            (Holds(t)' => Holds(t)) /\ (Pending(t) => Pending(t)')
      BY <2>2, <3>1 DEF Holds, Pending
    <3> QED
      BY <3>1, <3>2
  <2>4. CASE AppendSession(c) \/ ReportError(c)
    <3>1. /\ at[c] \in {"append", "report"} /\ at'[c] \in {"none", "report"}
          /\ UNCHANGED <<tunnel, failed>> /\ subs' \subseteq subs \cup {sub[c]}
      BY <2>4 DEF AppendSession, ReportError
    <3>2. \A t \in Subscriber : (Holds(t)' => Holds(t)) /\ (Pending(t) => Pending(t)')
      BY <2>2, <3>1 DEF Holds, Pending
    <3> QED
      BY <3>1, <3>2
  <2> QED
    BY <1>2, <2>3, <2>4 DEF AttachStep
<1>3. ASSUME NEW c \in Call, Answered(c)
      PROVE  HeldHasTunnel'
  BY <1>3 DEF Answered, Holds, Pending
<1>4. ASSUME NEW configured \in SUBSET Subscriber, Reload(configured)
      PROVE  HeldHasTunnel'
  <2>1. /\ UNCHANGED <<sub, at, subs, failed>> /\ toSend \subseteq toSend'
        /\ \A t \in Subscriber : tunnel'[t] = tunnel[t] \/ t \in toSend'
    BY <1>4 DEF Reload, Positions
  <2>2. \A t \in Subscriber : (Holds(t)' => Holds(t)) /\ (Pending(t) => Pending(t)')
    BY <2>1 DEF Holds, Pending
  <2> QED
    BY <2>1, <2>2 DEF Pending
<1>5. CASE OtherStep
  <2>1. UNCHANGED <<sub, at, subs, failed, tunnel, toSend>>
    BY <1>5 DEF OtherStep, Serve, ProbeFails, LogError, Exit, ReloadNil, SendOnNil,
              ReloadReturns
  <2> QED
    BY <2>1 DEF Holds, Pending
<1> QED
  BY <1>1, <1>2, <1>3, <1>4, <1>5, NextCases

LEMMA StepLatest ==
  ASSUME IInv, Next
  PROVE  NumbersGrow' /\ OneAtATime' /\ TunnelIsLatest'
<1> USE EnbAssumption DEF Return, mains, attaches, state
<1>0. /\ TypeOK /\ Positions /\ NumbersGrow /\ OneAtATime /\ TunnelIsLatest
      /\ TypeOK'
  BY StepType DEF IInv
<1>1. ASSUME NEW c \in Unused, NEW s \in Subscriber,
             AttachCandidate(c, s) \/ AttachSent(c, s)
      PROVE  NumbersGrow' /\ OneAtATime' /\ TunnelIsLatest'
  <2>1. /\ c \in Call /\ s # None /\ Begin(c, s) /\ tunnel' = tunnel
    BY <1>1 DEF AttachCandidate, AttachSent, Unused
  <2>2. /\ \A d \in Call : /\ sub'[d] = IF d = c THEN s ELSE sub[d]
                           /\ at'[d] = IF d = c THEN "call" ELSE at[d]
                           /\ caller'[d] = IF d = c THEN "waiting" ELSE caller[d]
        /\ \A d \in Unused : c <= d
        /\ overlapped' = IF Attaching(s) THEN overlapped \cup {s} ELSE overlapped
    BY <1>0, <2>1 DEF Begin, CallAttach, TypeOK
  <2>3. \A d \in Call \ Unused : d < c
    BY <1>0 DEF NumbersGrow
  <2>4. Unused' = Unused \ {c}
    BY <2>1, <2>2 DEF Unused
  <2>5. \A d \in Unused \ {c} : c < d
    BY <2>2 DEF Unused
  <2>6. NumbersGrow'
    <3>1. ASSUME NEW d \in Call \ Unused', NEW e \in Unused' PROVE d < e
      BY <1>0, <2>3, <2>4, <2>5, <3>1 DEF NumbersGrow
    <3> QED
      BY <3>1 DEF NumbersGrow
  <2>7. OneAtATime'
    <3>1. ASSUME NEW d \in Call, NEW e \in Call, sub'[d] # None, sub'[d] = sub'[e],
                 sub'[d] \notin overlapped', d # e, at'[d] # "none"
          PROVE  at'[e] = "none" /\ e < d
      <4>1. sub'[d] \notin overlapped
        BY <2>2, <3>1
      <4>2. CASE d = c
        <5>1. sub[e] = s /\ e \notin Unused /\ at'[e] = at[e]
          BY <2>1, <2>2, <3>1, <4>2 DEF Unused
        <5>2. ~Attaching(s)
          BY <2>2, <3>1, <4>2
        <5> QED
          BY <2>3, <4>2, <5>1, <5>2 DEF Attaching
      <4>3. CASE e = c
        <5>1. sub[d] = s /\ at[d] # "none"
          BY <2>2, <3>1, <4>3
        <5>2. Attaching(s)
          BY <5>1 DEF Attaching
        <5> QED
          BY <2>2, <3>1, <4>3, <5>2
      <4>4. CASE d # c /\ e # c
        BY <1>0, <2>2, <3>1, <4>1, <4>4 DEF OneAtATime
      <4> QED
        BY <4>2, <4>3, <4>4
    <3> QED
      BY <3>1 DEF OneAtATime
  <2>8. TunnelIsLatest'
    BY <1>0, <2>1, <2>2 DEF TunnelIsLatest
  <2> QED
    BY <2>6, <2>7, <2>8
<1>2. ASSUME NEW c \in Call, AttachStep(c)
      PROVE  NumbersGrow' /\ OneAtATime' /\ TunnelIsLatest'
  <2>1. at[c] # "none" /\ sub[c] \in Subscriber
    BY <1>0, <1>2 DEF AttachStep, AttachFails, ReportError, AddTunnel, AddTunnelFails,
                AppendSession, Positions, TypeOK
  <2>2. /\ UNCHANGED <<sub, caller, overlapped>>
        /\ \A d \in Call \ {c} : at'[d] = at[d]
    BY <1>0, <1>2 DEF AttachStep, AttachFails, ReportError, AddTunnel, AddTunnelFails,
                AppendSession, TypeOK
  <2>3. NumbersGrow' /\ OneAtATime'
    BY <1>0, <2>1, <2>2 DEF NumbersGrow, Unused, OneAtATime
  <2>4. TunnelIsLatest'
    <3>1. ASSUME NEW s \in Subscriber \ overlapped, NEW d \in Call,
                 sub[d] = s, caller[d] = "success", at'[d] # "call"
          PROVE  tunnel'[s] = None \/ tunnel'[s] >= d
      <4>1. CASE AttachFails(c) \/ AppendSession(c) \/ ReportError(c)
        <5>1. tunnel' = tunnel /\ at[d] # "call"
          BY <1>0, <2>2, <3>1, <4>1 DEF AttachFails, AppendSession, ReportError
        <5> QED
          BY <1>0, <3>1, <5>1 DEF TunnelIsLatest
      <4>2. CASE AddTunnel(c) \/ AddTunnelFails(c)
        <5>1. CASE s = sub[c]
          <6>1. tunnel'[s] \in {None, c}
            BY <1>0, <2>1, <4>2, <5>1 DEF AddTunnel, AddTunnelFails, TypeOK
          <6>2. d = c \/ d < c
            BY <1>0, <2>1, <3>1, <5>1 DEF OneAtATime
          <6> QED
            BY <6>1, <6>2
        <5>2. CASE s # sub[c]
          <6>1. tunnel'[s] = tunnel[s] /\ at[d] # "call"
            BY <1>0, <2>2, <3>1, <4>2, <5>2 DEF AddTunnel, AddTunnelFails, TypeOK
          <6> QED
            BY <1>0, <3>1, <6>1 DEF TunnelIsLatest
        <5> QED
          BY <5>1, <5>2
      <4> QED
        BY <1>2, <4>1, <4>2 DEF AttachStep
    <3> QED
      BY <2>2, <3>1 DEF TunnelIsLatest
  <2> QED
    BY <2>3, <2>4
<1>3. ASSUME NEW c \in Call, Answered(c)
      PROVE  NumbersGrow' /\ OneAtATime' /\ TunnelIsLatest'
  <2>1. /\ UNCHANGED <<sub, at, overlapped, tunnel>>
        /\ at[c] = "call" /\ \A d \in Call \ {c} : caller'[d] = caller[d]
    BY <1>0, <1>3 DEF Answered, Answers, Answer, Positions, TypeOK
  <2>2. NumbersGrow' /\ OneAtATime'
    BY <1>0, <2>1 DEF NumbersGrow, Unused, OneAtATime
  <2>3. TunnelIsLatest'
    BY <1>0, <2>1 DEF TunnelIsLatest
  <2> QED
    BY <2>2, <2>3
<1>4. ASSUME NEW configured \in SUBSET Subscriber, Reload(configured)
      PROVE  NumbersGrow' /\ OneAtATime' /\ TunnelIsLatest'
  <2>1. /\ UNCHANGED <<sub, at, caller, overlapped>>
        /\ \A s \in Subscriber : tunnel'[s] \in {None, tunnel[s]}
    BY <1>4 DEF Reload
  <2>2. NumbersGrow' /\ OneAtATime'
    BY <1>0, <2>1 DEF NumbersGrow, Unused, OneAtATime
  <2>3. TunnelIsLatest'
    BY <1>0, <2>1 DEF TunnelIsLatest
  <2> QED
    BY <2>2, <2>3
<1>5. CASE OtherStep
  <2>1. UNCHANGED <<sub, at, caller, overlapped, tunnel>>
    BY <1>5 DEF OtherStep, Serve, ProbeFails, LogError, Exit, ReloadNil, SendOnNil,
              ReloadReturns
  <2> QED
    BY <1>0, <2>1 DEF NumbersGrow, Unused, OneAtATime, TunnelIsLatest
<1> QED
  BY <1>1, <1>2, <1>3, <1>4, <1>5, NextCases

LEMMA NextInv == IInv /\ [Next]_vars => IInv'
<1> SUFFICES ASSUME IInv, [Next]_vars PROVE IInv'
  OBVIOUS
<1>1. CASE UNCHANGED vars
  BY <1>1 DEF vars, mains, attaches, state, IInv, TypeOK, Positions, HeldHasTunnel, Holds,
              Pending, NumbersGrow, Unused, OneAtATime, TunnelIsLatest
<1>2. CASE Next
  BY <1>2, StepType, StepPositions, StepHeld, StepLatest DEF IInv
<1> QED
  BY <1>1, <1>2

LEMMA Invariance == Spec => []IInv
<1> QED
  BY InitInv, NextInv, PTL DEF Spec

-----------------------------------------------------------------------------

\* The variables keep their types, and with them the tunnels name calls that were made.
THEOREM TypeCorrect == Spec => []TypeOK
<1>1. IInv => TypeOK
  BY DEF IInv
<1> QED
  BY <1>1, Invariance, PTL

\* What reload deletes is attached again: a subscriber in e.sessions has a tunnel, is on its
\* way to one or failed to get it, for any subscribers, calls and signals (reload, attach).
THEOREM TunnelCorrect == Spec => []AttachedHasTunnel
<1>1. IInv => AttachedHasTunnel
  BY DEF IInv, TypeOK, HeldHasTunnel, Holds, Pending, AttachedHasTunnel, Attaching
<1> QED
  BY <1>1, Invariance, PTL

\* Unless reload had a subscriber attached twice at a time, its tunnel leads to the last
\* session that it was given (attach, AddTunnelOverride).
THEOREM LatestCorrect == Spec => []TunnelIsLatest
<1>1. IInv => TunnelIsLatest
  BY DEF IInv
<1> QED
  BY <1>1, Invariance, PTL

=============================================================================
