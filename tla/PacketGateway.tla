---------------------------- MODULE PacketGateway ----------------------------
(***************************************************************************)
(* The session handlers of the P-GW (examples/gw-tester/pgw), for the        *)
(* sessions of one subscriber, who always has the same address.  A request   *)
(* of the S-GW is handled by a goroutine of its own and makes, or is for, one*)
(* session: a handler has the name of its request, a session that of the     *)
(* S-GW's.  The kernel's GTP module is used, so that there is a user plane.  *)
(***************************************************************************)
CONSTANTS
  Request,  \* [kind, of, ...], Create and Delete Session Requests
  Session,
  None      \* no session

VARIABLES
  pgwImsi,     \* the session found under the IMSI
  pgwTeid,     \* the sessions found under their TEIDs
  reserved,    \* the sessions whose TEID is drawn and not registered
  tunnel,      \* the session to which the kernel sends the subscriber's packets
  at,          \* a handler's position
  old,         \* the previous session that it found
  answered,    \* requests that were answered
  pgwCrashed   \* a nil *Session was dereferenced

registry == <<pgwImsi, pgwTeid, reserved>>
pgwVars == <<registry, tunnel, at, old, answered, pgwCrashed>>

PgwInit ==
  /\ pgwImsi = None /\ pgwTeid = {} /\ reserved = {} /\ tunnel = None
  /\ at = [r \in Request |-> "none"]
  /\ old = [r \in Request |-> None]
  /\ answered = {} /\ pgwCrashed = FALSE

Goto(r, label) == at' = [at EXCEPT ![r] = label]

\* The handler returns before it answered.
Fail(r) == Goto(r, "failed") /\ UNCHANGED <<registry, tunnel, old, answered, pgwCrashed>>

Remove(s) ==
  /\ pgwImsi' = None
  /\ pgwTeid' = pgwTeid \ {s}
  /\ UNCHANGED reserved

-----------------------------------------------------------------------------

\* A Create Session Request carries no TEID to look up.
ArriveCreate(r) ==
  /\ at[r] = "none" /\ r.kind = "CreateSessionRequest"
  /\ Goto(r, "lookup")
  /\ UNCHANGED <<registry, tunnel, old, answered, pgwCrashed>>

\* The previous session of the subscriber is looked up, and removed.
\* Mutant: it is looked up only.
LookUpOldOnly(r) ==
  /\ at[r] = "lookup"
  /\ Goto(r, "checkIEs")
  /\ UNCHANGED <<registry, tunnel, old, answered, pgwCrashed>>

LookUpOld(r) ==
  /\ at[r] = "lookup"
  /\ old' = [old EXCEPT ![r] = pgwImsi]
  /\ Goto(r, IF pgwImsi = None THEN "checkIEs" ELSE "removeOld")
  /\ UNCHANGED <<registry, tunnel, answered, pgwCrashed>>

RemoveOld(r) ==
  /\ at[r] = "removeOld"
  /\ Remove(old[r])
  /\ Goto(r, "checkIEs")
  /\ UNCHANGED <<tunnel, old, answered, pgwCrashed>>

\* An IE is missing or cannot be parsed, such as the PAA, which the S-GW does not check.
MissingIE(r) == at[r] = "checkIEs" /\ Fail(r)

NewSenderFTEID(r) ==
  /\ at[r] = "checkIEs"
  /\ reserved' = reserved \cup {r.of}
  /\ Goto(r, "respond")
  /\ UNCHANGED <<pgwImsi, pgwTeid, tunnel, old, answered, pgwCrashed>>

\* Both handlers answer before they register or remove the session.
Respond(r) ==
  /\ at[r] = "respond"
  /\ answered' = answered \cup {r}
  /\ Goto(r, IF r.kind = "CreateSessionRequest" THEN "register" ELSE "remove")
  /\ UNCHANGED <<registry, tunnel, old, pgwCrashed>>

\* RespondTo fails: the TEID stays drawn.
RespondFails(r) == at[r] = "respond" /\ Fail(r)

RegisterSession(r) ==
  /\ at[r] = "register"
  /\ pgwImsi' = r.of
  /\ pgwTeid' = pgwTeid \cup {r.of}
  /\ reserved' = reserved \ {r.of}
  /\ Goto(r, "setup")
  /\ UNCHANGED <<tunnel, old, answered, pgwCrashed>>

\* setupUPlane: AddTunnelOverride deletes the tunnel that has the subscriber's address,
\* and adds one.  The kernel may refuse to add it; that a route or a rule cannot be set
\* changes nothing more.
SetupUPlane(r) ==
  /\ at[r] = "setup"
  /\ tunnel' \in {None, r.of}
  /\ Goto(r, "done")
  /\ UNCHANGED <<registry, old, answered, pgwCrashed>>

-----------------------------------------------------------------------------

\* validate looks the session of a Delete Session Request up.
ArriveDelete(r) ==
  /\ at[r] = "none" /\ r.kind = "DeleteSessionRequest"
  /\ r.of \in pgwTeid
  /\ Goto(r, "find")
  /\ UNCHANGED <<registry, tunnel, old, answered, pgwCrashed>>

\* There is none, and validate discards the request.
Discard(r) ==
  /\ at[r] = "none" /\ r.kind = "DeleteSessionRequest"
  /\ r.of \notin pgwTeid \cup reserved
  /\ Fail(r)

\* The TEID is in the map without a session yet: the request that made it was answered
\* and has not been registered.
ArriveEarly(r) ==
  /\ at[r] = "none" /\ r.kind = "DeleteSessionRequest"
  /\ r.of \in reserved
  /\ pgwCrashed' = TRUE
  /\ UNCHANGED <<registry, tunnel, at, old, answered>>

\* The handler looks it up again.
Find(r) ==
  /\ at[r] = "find"
  /\ r.of \in pgwTeid
  /\ Goto(r, "respond")
  /\ UNCHANGED <<registry, tunnel, old, answered, pgwCrashed>>

\* It is gone: the answer carries no TEID, and the S-GW's handler finds no session for it.
FindFails(r) == at[r] = "find" /\ r.of \notin pgwTeid /\ Fail(r)

RemoveSession(r) ==
  /\ at[r] = "remove"
  /\ Remove(r.of)
  /\ Goto(r, "done")
  /\ UNCHANGED <<tunnel, old, answered, pgwCrashed>>

-----------------------------------------------------------------------------

Arrive(r) == ~pgwCrashed /\ (ArriveCreate(r) \/ ArriveDelete(r) \/ Discard(r) \/ ArriveEarly(r))

Handle(r) ==
  /\ ~pgwCrashed
  /\ \/ LookUpOld(r) \/ RemoveOld(r) \/ MissingIE(r) \/ NewSenderFTEID(r)
     \/ Respond(r) \/ RespondFails(r) \/ RegisterSession(r) \/ SetupUPlane(r)
     \/ Find(r) \/ FindFails(r) \/ RemoveSession(r)

PgwResting == \A r \in Request : at[r] \in {"none", "done", "failed"}

=============================================================================
