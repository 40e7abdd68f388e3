-------------------------- MODULE SessionRegistry --------------------------
(***************************************************************************)
(* The session directory of a gtpv2.Conn (gtpv2/conn.go): the two sync.Maps *)
(* iteiSessionMap and imsiSessionMap, and the operations that every handler *)
(* goroutine performs on them at any time.  Conn.Serve starts a goroutine   *)
(* per datagram, and no lock spans two map operations, so each map          *)
(* operation is an action of its own.                                       *)
(*                                                                          *)
(* A goroutine reserves a TEID with NewSenderFTEID and then registers a new *)
(* Session under it or returns early on an error; or it looks a Session up  *)
(* and then removes it or leaves it.                                        *)
(***************************************************************************)
EXTENDS Naturals

CONSTANTS
  Goroutine,  \* handler goroutines
  TEID,       \* the TEIDs that generateRandomUint32 draws, 0 excluded
  IMSI,       \* values of Session.IMSI, the empty string among them
  Session,    \* *Session values that exist at one time
  IMSIOf,     \* Session.IMSI, set before the session is registered
  NoEntry,    \* a key with no entry in a map
  Reserved,   \* the nil *Session that NewSenderFTEID stores
  NoTEID      \* no TEID of the local interface in Session.teidMap

\* The markers of absence are not sessions or TEIDs, and owners differ in kind.
ASSUME RegistryAssumption ==
  /\ NoEntry \notin Session /\ Reserved \notin Session
  /\ NoEntry # Reserved
  /\ NoTEID \notin TEID
  /\ Goroutine \cap Session = {}
  /\ {"free", "leaked"} \cap (Goroutine \cup Session) = {}
  /\ IMSIOf \in [Session -> IMSI]

VARIABLES
  itei,        \* Conn.iteiSessionMap
  imsi,        \* Conn.imsiSessionMap
  localTEID,   \* Session.teidMap at Conn.localIfType
  pc,          \* the operation a goroutine is in
  cur,         \* the Session it registers, has looked up, or removes
  teid,        \* the TEID it has reserved, or removes
  todo,        \* the keys that Range has yet to visit in RemoveSession
  crashed,     \* a nil *Session was dereferenced: the process is gone
  registered,  \* history: sessions whose RegisterSession has returned
  removed,     \* history: sessions that were passed to RemoveSession
  misused      \* history: a session was removed twice, or while it was registered

maps == <<itei, imsi>>
frames == <<pc, cur, teid, todo>>
history == <<registered, removed, misused>>
vars == <<maps, localTEID, frames, crashed, history>>

\* A process that has just started, with nothing persisted.
Init ==
  /\ itei = [t \in TEID |-> NoEntry]
  /\ imsi = [i \in IMSI |-> NoEntry]
  /\ localTEID = [s \in Session |-> NoTEID]
  /\ pc = [g \in Goroutine |-> "idle"]
  /\ cur = [g \in Goroutine |-> NoEntry]
  /\ teid = [g \in Goroutine |-> NoTEID]
  /\ todo = [g \in Goroutine |-> {}]
  /\ crashed = FALSE
  /\ registered = {} /\ removed = {} /\ misused = FALSE

\* No map and no running operation refers to s: the object is garbage, and its
\* identity can stand for a new one.
Unreferenced(s) ==
  /\ \A t \in TEID : itei[t] # s
  /\ \A i \in IMSI : imsi[i] # s
  /\ \A g \in Goroutine : cur[g] # s

\* The operation of g returns, and its local variables are gone.
Return(g) ==
  /\ pc' = [pc EXCEPT ![g] = "idle"]
  /\ cur' = [cur EXCEPT ![g] = NoEntry]
  /\ teid' = [teid EXCEPT ![g] = NoTEID]

-----------------------------------------------------------------------------

\* Mutant: syncMap.Store instead of LoadOrStore.
NewSenderFTEIDStore(g, t) ==
  /\ pc[g] = "idle"
  /\ itei' = [itei EXCEPT ![t] = Reserved]
  /\ teid' = [teid EXCEPT ![g] = t]
  /\ pc' = [pc EXCEPT ![g] = "reserved"]
  /\ UNCHANGED <<imsi, localTEID, cur, todo, crashed, history>>

\* NewSenderFTEID: the draw whose tryStore(t, nil) succeeds.  The draws that
\* fail, and giving up after 0xffff of them, change nothing.
NewSenderFTEID(g, t) ==
  /\ pc[g] = "idle"
  /\ itei[t] = NoEntry
  /\ itei' = [itei EXCEPT ![t] = Reserved]
  /\ teid' = [teid EXCEPT ![g] = t]
  /\ pc' = [pc EXCEPT ![g] = "reserved"]
  /\ UNCHANGED <<imsi, localTEID, cur, todo, crashed, history>>

\* The handler returns an error before it registers a session.  Nothing takes
\* the reservation back.
Abandon(g) ==
  /\ pc[g] = "reserved"
  /\ Return(g)
  /\ UNCHANGED <<maps, localTEID, todo, crashed, history>>

\* Mutant: what the goroutine registers is not remembered.
RegisterInIteiForgets(g, s, early) ==
  /\ pc[g] = "reserved"
  /\ Unreferenced(s)
  /\ itei' = [itei EXCEPT ![teid[g]] = s]
  /\ localTEID' = [localTEID EXCEPT ![s] = IF early THEN teid[g] ELSE NoTEID]
  /\ pc' = [pc EXCEPT ![g] = "storeImsi"]
  /\ registered' = registered \ {s}
  /\ removed' = removed \ {s}
  /\ UNCHANGED <<imsi, cur, teid, todo, crashed, misused>>

\* RegisterSession of a new Session: iteiSessionMap.store.  The caller may have
\* called AddTEID for the local interface itself before (early).
RegisterInItei(g, s, early) ==
  /\ pc[g] = "reserved"
  /\ Unreferenced(s)
  /\ itei' = [itei EXCEPT ![teid[g]] = s]
  /\ localTEID' = [localTEID EXCEPT ![s] = IF early THEN teid[g] ELSE NoTEID]
  /\ cur' = [cur EXCEPT ![g] = s]
  /\ pc' = [pc EXCEPT ![g] = "storeImsi"]
  /\ registered' = registered \ {s}
  /\ removed' = removed \ {s}
  /\ UNCHANGED <<imsi, teid, todo, crashed, misused>>

\* RegisterSession: imsiSessionMap.store.
RegisterInImsi(g) ==
  /\ pc[g] = "storeImsi"
  /\ imsi' = [imsi EXCEPT ![IMSIOf[cur[g]]] = cur[g]]
  /\ pc' = [pc EXCEPT ![g] = "addTEID"]
  /\ UNCHANGED <<itei, localTEID, cur, teid, todo, crashed, history>>

\* RegisterSession: session.AddTEID(localIfType, itei), and return.
RegisterAddTEID(g) ==
  /\ pc[g] = "addTEID"
  /\ localTEID' = [localTEID EXCEPT ![cur[g]] = teid[g]]
  /\ registered' = registered \cup {cur[g]}
  /\ Return(g)
  /\ UNCHANGED <<maps, todo, crashed, removed, misused>>

-----------------------------------------------------------------------------

\* GetSessionByTEID, from validate or from a handler, for a TEID the peer chose.
\* load answers (nil, true) for a reservation, and the comparison of the peer's
\* address then dereferences the nil.
GetSessionByTEID(g, t) ==
  /\ pc[g] = "idle"
  /\ \/ /\ itei[t] \in Session
        /\ cur' = [cur EXCEPT ![g] = itei[t]]
        /\ pc' = [pc EXCEPT ![g] = "found"]
        /\ UNCHANGED crashed
     \/ /\ itei[t] = Reserved
        /\ crashed' = TRUE
        /\ UNCHANGED <<cur, pc>>
  /\ UNCHANGED <<maps, localTEID, teid, todo, history>>

\* GetSessionByIMSI.
GetSessionByIMSI(g, i) ==
  /\ pc[g] = "idle"
  /\ imsi[i] # NoEntry
  /\ cur' = [cur EXCEPT ![g] = imsi[i]]
  /\ pc' = [pc EXCEPT ![g] = "found"]
  /\ UNCHANGED <<maps, localTEID, teid, todo, crashed, history>>

\* The handler is done with the session and leaves it registered.
Leave(g) ==
  /\ pc[g] = "found"
  /\ Return(g)
  /\ UNCHANGED <<maps, localTEID, todo, crashed, history>>

-----------------------------------------------------------------------------

\* Mutant: the entry under the IMSI stays.
RemoveFromImsiStays(g) ==
  /\ pc[g] = "found"
  /\ misused' = (misused \/ cur[g] \in removed \/ cur[g] \notin registered)
  /\ removed' = removed \cup {cur[g]}
  /\ pc' = [pc EXCEPT ![g] = "getTEID"]
  /\ UNCHANGED <<maps, localTEID, cur, teid, todo, crashed, registered>>

\* RemoveSession: imsiSessionMap.delete(session.IMSI), whatever is stored there.
RemoveFromImsi(g) ==
  /\ pc[g] = "found"
  /\ imsi' = [imsi EXCEPT ![IMSIOf[cur[g]]] = NoEntry]
  /\ misused' = (misused \/ cur[g] \in removed \/ cur[g] \notin registered)
  /\ removed' = removed \cup {cur[g]}
  /\ pc' = [pc EXCEPT ![g] = "getTEID"]
  /\ UNCHANGED <<itei, localTEID, cur, teid, todo, crashed, registered>>

\* RemoveSession: session.GetTEID(localIfType).  Without one it calls Range,
\* which visits every key present now and may visit any stored meanwhile.
RemoveGetTEID(g) ==
  /\ pc[g] = "getTEID"
  /\ \/ /\ localTEID[cur[g]] # NoTEID
        /\ teid' = [teid EXCEPT ![g] = localTEID[cur[g]]]
        /\ pc' = [pc EXCEPT ![g] = "delete"]
        /\ UNCHANGED todo
     \/ /\ localTEID[cur[g]] = NoTEID
        /\ \E keys \in SUBSET TEID :
             /\ {t \in TEID : itei[t] # NoEntry} \subseteq keys
             /\ todo' = [todo EXCEPT ![g] = keys]
        /\ pc' = [pc EXCEPT ![g] = "range"]
        /\ UNCHANGED teid
  /\ UNCHANGED <<maps, localTEID, cur, crashed, history>>

\* Mutant: the entry under the TEID stays.
RemoveFromIteiStays(g) ==
  /\ pc[g] = "delete"
  /\ Return(g)
  /\ UNCHANGED <<maps, localTEID, todo, crashed, history>>

\* RemoveSession: iteiSessionMap.delete(itei), whatever is stored there.
RemoveFromItei(g) ==
  /\ pc[g] = "delete"
  /\ itei' = [itei EXCEPT ![teid[g]] = NoEntry]
  /\ Return(g)
  /\ UNCHANGED <<imsi, localTEID, todo, crashed, history>>

\* RemoveSession: Range calls back with the next key and its value, which
\* v.(*Session) and s.IMSI take to be a session.
RangeVisit(g, t) ==
  /\ pc[g] = "range"
  /\ t \in todo[g]
  /\ todo' = [todo EXCEPT ![g] = @ \ {t}]
  /\ \/ /\ itei[t] = NoEntry
        /\ UNCHANGED <<pc, teid, crashed>>
     \/ /\ itei[t] = Reserved
        /\ crashed' = TRUE
        /\ UNCHANGED <<pc, teid>>
     \/ /\ itei[t] \in Session
        /\ IMSIOf[itei[t]] = IMSIOf[cur[g]]
        /\ teid' = [teid EXCEPT ![g] = t]
        /\ pc' = [pc EXCEPT ![g] = "rangeDelete"]
        /\ UNCHANGED crashed
     \/ /\ itei[t] \in Session
        /\ IMSIOf[itei[t]] # IMSIOf[cur[g]]
        /\ UNCHANGED <<pc, teid, crashed>>
  /\ UNCHANGED <<maps, localTEID, cur, history>>

\* RemoveSession: iteiSessionMap.delete(k) in the callback.
RangeDelete(g) ==
  /\ pc[g] = "rangeDelete"
  /\ itei' = [itei EXCEPT ![teid[g]] = NoEntry]
  /\ pc' = [pc EXCEPT ![g] = "range"]
  /\ UNCHANGED <<imsi, localTEID, cur, teid, todo, crashed, history>>

RangeEnd(g) ==
  /\ pc[g] = "range"
  /\ todo[g] = {}
  /\ Return(g)
  /\ UNCHANGED <<maps, localTEID, todo, crashed, history>>

-----------------------------------------------------------------------------

\* The panic of one goroutine ended the process; it is started again.
Restart ==
  /\ crashed
  /\ itei' = [t \in TEID |-> NoEntry]
  /\ imsi' = [i \in IMSI |-> NoEntry]
  /\ localTEID' = [s \in Session |-> NoTEID]
  /\ pc' = [g \in Goroutine |-> "idle"]
  /\ cur' = [g \in Goroutine |-> NoEntry]
  /\ teid' = [g \in Goroutine |-> NoTEID]
  /\ todo' = [g \in Goroutine |-> {}]
  /\ crashed' = FALSE
  /\ registered' = {} /\ removed' = {} /\ misused' = FALSE

Register(g) ==
  \/ \E t \in TEID : NewSenderFTEID(g, t)
  \/ Abandon(g)
  \/ \E s \in Session, early \in BOOLEAN : RegisterInItei(g, s, early)
  \/ RegisterInImsi(g)
  \/ RegisterAddTEID(g)

LookUp(g) ==
  \/ \E t \in TEID : GetSessionByTEID(g, t)
  \/ \E i \in IMSI : GetSessionByIMSI(g, i)
  \/ Leave(g)

RemoveSession(g) ==
  \/ RemoveFromImsi(g)
  \/ RemoveGetTEID(g)
  \/ RemoveFromItei(g)
  \/ \E t \in TEID : RangeVisit(g, t)
  \/ RangeDelete(g)
  \/ RangeEnd(g)

Next ==
  \/ /\ ~crashed
     /\ \E g \in Goroutine : Register(g) \/ LookUp(g) \/ RemoveSession(g)
  \/ Restart

Spec == Init /\ [][Next]_vars

-----------------------------------------------------------------------------

\* Types, and what the two locals hold at each point of an operation.
TypeOK ==
  /\ itei \in [TEID -> Session \cup {NoEntry, Reserved}]
  /\ imsi \in [IMSI -> Session \cup {NoEntry}]
  /\ localTEID \in [Session -> TEID \cup {NoTEID}]
  /\ pc \in [Goroutine -> {"idle", "reserved", "storeImsi", "addTEID", "found",
                           "getTEID", "delete", "range", "rangeDelete"}]
  /\ cur \in [Goroutine -> Session \cup {NoEntry}]
  /\ teid \in [Goroutine -> TEID \cup {NoTEID}]
  /\ todo \in [Goroutine -> SUBSET TEID]
  /\ crashed \in BOOLEAN /\ misused \in BOOLEAN
  /\ registered \subseteq Session /\ removed \subseteq Session
  /\ \A g \in Goroutine :
       /\ cur[g] = NoEntry <=> pc[g] \in {"idle", "reserved"}
       /\ pc[g] \in {"reserved", "storeImsi", "addTEID", "delete", "rangeDelete"} =>
            teid[g] \in TEID

\* g is between its reservation and the return of RegisterSession for s.
Registering(g, s) == pc[g] \in {"storeImsi", "addTEID"} /\ cur[g] = s

\* g has deleted the IMSI entry of s, and not yet its TEID entry.
Removing(g, s) ==
  pc[g] \in {"getTEID", "delete", "range", "rangeDelete"} /\ cur[g] = s

\* The promise of NewSenderFTEID's comment, that a TEID is unique within the
\* Conn: what one goroutine reserved stays its own until it registers a session,
\* through every interleaving with other reservations, registrations and
\* removals, as long as each session is removed at most once and only after
\* RegisterSession has returned (NewSenderFTEID, RegisterSession, RemoveSession).
ReservationsExclusive ==
  ~misused =>
    \A g \in Goroutine : pc[g] = "reserved" =>
      /\ itei[teid[g]] = Reserved
      /\ \A h \in Goroutine \ {g} : pc[h] = "reserved" => teid[h] # teid[g]

\* A session that GetSessionByIMSI returns is also the one its own TEID leads
\* to: RegisterSession stores the TEID first and RemoveSession deletes it last
\* (RegisterSession, RemoveSession).
ImsiEntryResolves ==
  ~misused =>
    \A i \in IMSI : imsi[i] # NoEntry =>
      \E t \in TEID :
        /\ itei[t] = imsi[i]
        /\ \/ localTEID[imsi[i]] = t
           \/ \E g \in Goroutine : Registering(g, imsi[i]) /\ teid[g] = t

\* Once RemoveSession has returned no lookup finds the session any more, however
\* other goroutines register, find and remove sessions of the same subscriber.
RemovedIsUnreachable ==
  ~misused =>
    \A s \in removed :
      (\A g \in Goroutine : ~Removing(g, s)) =>
        /\ \A t \in TEID : itei[t] # s
        /\ \A i \in IMSI : imsi[i] # s

\* The comment on EnableValidation: a message with an unknown TEID is logged and
\* discarded, whatever the peer puts there.  A TEID that is reserved and has no
\* session yet ends the process instead.
ValidationNeverCrashes == ~crashed

-----------------------------------------------------------------------------

\* Who holds a TEID: a goroutine by its reservation, a session, nobody, or nobody
\* that could ever give it back.
Owner(t) ==
  CASE itei[t] = NoEntry -> "free"
    [] itei[t] = Reserved ->
         IF \E g \in Goroutine : pc[g] = "reserved" /\ teid[g] = t
         THEN CHOOSE g \in Goroutine : pc[g] = "reserved" /\ teid[g] = t
         ELSE "leaked"
    [] OTHER -> itei[t]

Pool == INSTANCE TeidPool WITH
  Holder <- Goroutine, User <- Session, Id <- TEID,
  owner <- [t \in TEID |-> Owner(t)], broken <- misused, down <- crashed

\* The two maps implement an allocator of TEIDs with one owner for each, until a
\* session is removed twice or too early (NewSenderFTEID, RegisterSession,
\* RemoveSession).
ImplementsPool == Pool!Spec

=============================================================================
