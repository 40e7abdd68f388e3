---------------------- MODULE SessionRegistry_proofs ----------------------
(***************************************************************************)
(* Proofs about SessionRegistry: its types; that reservations are exclusive, *)
(* that an IMSI entry resolves and that a removed session is unreachable;    *)
(* and that the registry implements TeidPool.                                *)
(***************************************************************************)
EXTENDS SessionRegistry, TLAPS

\* The points at which a goroutine of each kind is, under the rules of use.
Registers(g) == pc[g] \in {"storeImsi", "addTEID"}
Removes(g) == pc[g] \in {"getTEID", "delete"}

\* A session under registration is stored under the goroutine's own TEID, is
\* nobody else's, and was neither registered nor removed before.
RegisteringInv ==
  \A g \in Goroutine : Registers(g) =>
    /\ itei[teid[g]] = cur[g]
    /\ cur[g] \notin registered
    /\ \A h \in Goroutine \ {g} : Registers(h) => cur[h] # cur[g]

\* A registered session is stored under the TEID it knows, until it is removed.
RegisteredInv ==
  /\ removed \subseteq registered
  /\ \A s \in registered : localTEID[s] \in TEID
  /\ \A s \in registered \ removed : itei[localTEID[s]] = s

\* A session has one remover, which finds it where it was registered, and the
\* search of RemoveSession for a session without a TEID never starts.
RemovingInv ==
  \A g \in Goroutine :
    /\ pc[g] \notin {"range", "rangeDelete"}
    /\ Removes(g) =>
         /\ cur[g] \in removed
         /\ itei[localTEID[cur[g]]] = cur[g]
         /\ pc[g] = "delete" => teid[g] = localTEID[cur[g]]
         /\ \A h \in Goroutine \ {g} : Removes(h) => cur[h] # cur[g]

\* Where an entry of iteiSessionMap comes from.
IteiInv ==
  \A t \in TEID : itei[t] \in Session =>
    \/ \E g \in Goroutine : Registers(g) /\ cur[g] = itei[t] /\ teid[g] = t
    \/ /\ itei[t] \in registered
       /\ localTEID[itei[t]] = t
       /\ \/ itei[t] \notin removed
          \/ \E g \in Goroutine : Removes(g) /\ cur[g] = itei[t]

\* Where an entry of imsiSessionMap comes from.
ImsiInv ==
  \A i \in IMSI : imsi[i] # NoEntry =>
    /\ IMSIOf[imsi[i]] = i
    /\ imsi[i] \notin removed
    /\ \/ imsi[i] \in registered
       \/ \E g \in Goroutine : Registers(g) /\ cur[g] = imsi[i]

\* The inductive invariant.  The properties speak of what a lookup finds; each
\* conjunct here says which running operation, or which completed one, accounts
\* for it.
DirectoryInv ==
  /\ ReservationsExclusive
  /\ RegisteringInv
  /\ RegisteredInv
  /\ RemovingInv
  /\ IteiInv
  /\ ImsiInv

IInv == ~misused => DirectoryInv

-----------------------------------------------------------------------------

LEMMA InitType == Init => TypeOK
BY Zenon DEF Init, TypeOK

LEMMA StepType ==
  ASSUME TypeOK, [Next]_vars
  PROVE  TypeOK'
<1> USE RegistryAssumption DEF TypeOK, maps, history, Return
<1>1. ASSUME NEW g \in Goroutine, Register(g)
      PROVE  TypeOK'
  <2>1. ASSUME NEW t \in TEID, NewSenderFTEID(g, t)
        PROVE  TypeOK'
    BY <2>1 DEF NewSenderFTEID
  <2>2. CASE Abandon(g)
    BY <2>2 DEF Abandon
  <2>3. ASSUME NEW s \in Session, NEW early \in BOOLEAN, RegisterInItei(g, s, early)
        PROVE  TypeOK'
    BY <2>3 DEF RegisterInItei
  <2>4. CASE RegisterInImsi(g)
    BY <2>4 DEF RegisterInImsi
  <2>5. CASE RegisterAddTEID(g)
    BY <2>5 DEF RegisterAddTEID
  <2> QED
    BY <1>1, <2>1, <2>2, <2>3, <2>4, <2>5 DEF Register
<1>2. ASSUME NEW g \in Goroutine, LookUp(g)
      PROVE  TypeOK'
  <2>1. ASSUME NEW t \in TEID, GetSessionByTEID(g, t)
        PROVE  TypeOK'
    <3>1. /\ pc[g] = "idle"
          /\ UNCHANGED <<maps, localTEID, teid, todo, history>>
          /\ \/ /\ itei[t] \in Session /\ UNCHANGED crashed
                /\ cur' = [cur EXCEPT ![g] = itei[t]]
                /\ pc' = [pc EXCEPT ![g] = "found"]
             \/ crashed' = TRUE /\ UNCHANGED <<cur, pc>>
      BY <2>1, Zenon DEF GetSessionByTEID
    <3>2. CASE crashed' = TRUE /\ UNCHANGED <<cur, pc>>
      BY <3>1, <3>2
    <3>3. CASE /\ itei[t] \in Session /\ UNCHANGED crashed
               /\ cur' = [cur EXCEPT ![g] = itei[t]]
               /\ pc' = [pc EXCEPT ![g] = "found"]
      BY <3>1, <3>3
    <3> QED
      BY <3>1, <3>2, <3>3, Zenon
  <2>2. ASSUME NEW i \in IMSI, GetSessionByIMSI(g, i)
        PROVE  TypeOK'
    BY <2>2 DEF GetSessionByIMSI
  <2>3. CASE Leave(g)
    BY <2>3 DEF Leave
  <2> QED
    BY <1>2, <2>1, <2>2, <2>3 DEF LookUp
<1>3. ASSUME NEW g \in Goroutine, RemoveSession(g)
      PROVE  TypeOK'
  <2>1. CASE RemoveFromImsi(g)
    BY <2>1 DEF RemoveFromImsi
  <2>2. CASE RemoveGetTEID(g)
    BY <2>2 DEF RemoveGetTEID
  <2>3. CASE RemoveFromItei(g)
    BY <2>3 DEF RemoveFromItei
  <2>4. ASSUME NEW t \in TEID, RangeVisit(g, t)
        PROVE  TypeOK'
    <3>1. todo' \in [Goroutine -> SUBSET TEID]
      BY <2>4 DEF RangeVisit
    <3>2. /\ pc[g] = "range" /\ UNCHANGED <<itei, imsi, localTEID, cur, history>>
          /\ \/ UNCHANGED <<pc, teid, crashed>>
             \/ UNCHANGED <<pc, teid>> /\ crashed' = TRUE
             \/ /\ pc' = [pc EXCEPT ![g] = "rangeDelete"]
                /\ teid' = [teid EXCEPT ![g] = t]
                /\ UNCHANGED crashed
      BY <2>4, Zenon DEF RangeVisit
    <3>3. CASE UNCHANGED <<pc, teid>>
      BY <3>1, <3>2, <3>3
    <3>4. CASE /\ pc' = [pc EXCEPT ![g] = "rangeDelete"]
               /\ teid' = [teid EXCEPT ![g] = t]
               /\ UNCHANGED crashed
      BY <3>1, <3>2, <3>4
    <3> QED
      BY <3>2, <3>3, <3>4
  <2>5. CASE RangeDelete(g)
    BY <2>5 DEF RangeDelete
  <2>6. CASE RangeEnd(g)
    BY <2>6 DEF RangeEnd
  <2> QED
    BY <1>3, <2>1, <2>2, <2>3, <2>4, <2>5, <2>6 DEF RemoveSession
<1>4. CASE Restart
  BY <1>4, Zenon DEF Restart
<1>5. CASE UNCHANGED vars
  BY <1>5 DEF vars, frames
<1> QED
  BY <1>1, <1>2, <1>3, <1>4, <1>5 DEF Next

\* Every variable keeps its type, and every local is set where it is used
\* (all operations of the session directory).
THEOREM TypeCorrect == Spec => []TypeOK
BY InitType, StepType, PTL DEF Spec

-----------------------------------------------------------------------------

LEMMA TakeKeeps ==
  ASSUME TypeOK, TypeOK', IInv, NEW g \in Goroutine, NEW t \in TEID, NewSenderFTEID(g, t)
  PROVE  IInv'
<1> SUFFICES ASSUME ~misused' PROVE DirectoryInv'
  BY DEF IInv
<1> USE RegistryAssumption
    DEF TypeOK, maps, history, Return, NewSenderFTEID, Registers, Removes
<1>1. ~misused /\ DirectoryInv
  BY DEF IInv
<1> USE <1>1 DEF DirectoryInv
<1>2. ReservationsExclusive'
  BY DEF ReservationsExclusive
<1>3. RegisteringInv'
  BY DEF RegisteringInv, ReservationsExclusive
<1>4. RegisteredInv'
  BY DEF RegisteredInv, RegisteringInv, RemovingInv, ReservationsExclusive
<1>5. RemovingInv'
  BY DEF RemovingInv, RegisteredInv, ReservationsExclusive
<1>6. IteiInv'
  BY DEF IteiInv, RegisteringInv, RegisteredInv, RemovingInv
<1>7. ImsiInv'
  BY DEF ImsiInv, RegisteringInv, RegisteredInv
<1> QED
  BY <1>2, <1>3, <1>4, <1>5, <1>6, <1>7

LEMMA AbandonKeeps ==
  ASSUME TypeOK, TypeOK', IInv, NEW g \in Goroutine, Abandon(g)
  PROVE  IInv'
<1> SUFFICES ASSUME ~misused' PROVE DirectoryInv'
  BY DEF IInv
<1> USE RegistryAssumption
    DEF TypeOK, maps, history, Return, Abandon, Registers, Removes
<1>1. ~misused /\ DirectoryInv
  BY DEF IInv
<1> USE <1>1 DEF DirectoryInv
<1>2. ReservationsExclusive'
  BY DEF ReservationsExclusive
<1>3. RegisteringInv'
  BY DEF RegisteringInv, ReservationsExclusive
<1>4. RegisteredInv'
  BY DEF RegisteredInv, RegisteringInv, RemovingInv, ReservationsExclusive
<1>5. RemovingInv'
  BY DEF RemovingInv, RegisteredInv, ReservationsExclusive
<1>6. IteiInv'
  BY DEF IteiInv, RegisteringInv, RegisteredInv, RemovingInv
<1>7. ImsiInv'
  BY DEF ImsiInv, RegisteringInv, RegisteredInv
<1> QED
  BY <1>2, <1>3, <1>4, <1>5, <1>6, <1>7

LEMMA InIteiKeeps ==
  ASSUME TypeOK, TypeOK', IInv, NEW g \in Goroutine, NEW s \in Session, NEW early \in BOOLEAN,
         RegisterInItei(g, s, early)
  PROVE  IInv'
<1> SUFFICES ASSUME ~misused' PROVE DirectoryInv'
  BY DEF IInv
<1> USE RegistryAssumption
    DEF TypeOK, maps, history, Return, RegisterInItei, Unreferenced, Registers, Removes
<1>1. ~misused /\ DirectoryInv
  BY DEF IInv
<1> USE <1>1 DEF DirectoryInv
<1>2. ReservationsExclusive'
  BY DEF ReservationsExclusive
<1>3. RegisteringInv'
  BY DEF RegisteringInv, ReservationsExclusive
<1>4. RegisteredInv'
  BY DEF RegisteredInv, RegisteringInv, RemovingInv, ReservationsExclusive
<1>5. RemovingInv'
  BY DEF RemovingInv, RegisteredInv, ReservationsExclusive
<1>6. IteiInv'
  BY DEF IteiInv, RegisteringInv, RegisteredInv, RemovingInv
<1>7. ImsiInv'
  BY DEF ImsiInv, RegisteringInv, RegisteredInv
<1> QED
  BY <1>2, <1>3, <1>4, <1>5, <1>6, <1>7

LEMMA InImsiKeeps ==
  ASSUME TypeOK, TypeOK', IInv, NEW g \in Goroutine, RegisterInImsi(g)
  PROVE  IInv'
<1> SUFFICES ASSUME ~misused' PROVE DirectoryInv'
  BY DEF IInv
<1> USE RegistryAssumption
    DEF TypeOK, maps, history, Return, RegisterInImsi, Registers, Removes
<1>1. ~misused /\ DirectoryInv
  BY DEF IInv
<1> USE <1>1 DEF DirectoryInv
<1>2. ReservationsExclusive'
  BY DEF ReservationsExclusive
<1>3. RegisteringInv'
  BY DEF RegisteringInv, ReservationsExclusive
<1>4. RegisteredInv'
  BY DEF RegisteredInv, RegisteringInv, RemovingInv, ReservationsExclusive
<1>5. RemovingInv'
  BY DEF RemovingInv, RegisteredInv, ReservationsExclusive
<1>6. IteiInv'
  BY DEF IteiInv, RegisteringInv, RegisteredInv, RemovingInv
<1>7. ImsiInv'
  BY DEF ImsiInv, RegisteringInv, RegisteredInv
<1> QED
  BY <1>2, <1>3, <1>4, <1>5, <1>6, <1>7

LEMMA AddTEIDKeeps ==
  ASSUME TypeOK, TypeOK', IInv, NEW g \in Goroutine, RegisterAddTEID(g)
  PROVE  IInv'
<1> SUFFICES ASSUME ~misused' PROVE DirectoryInv'
  BY DEF IInv
<1> USE RegistryAssumption
    DEF TypeOK, maps, history, Return, RegisterAddTEID, Registers, Removes
<1>1. ~misused /\ DirectoryInv
  BY DEF IInv
<1> USE <1>1 DEF DirectoryInv
<1>2. ReservationsExclusive'
  BY DEF ReservationsExclusive
<1>3. RegisteringInv'
  BY DEF RegisteringInv, ReservationsExclusive
<1>4. RegisteredInv'
  BY DEF RegisteredInv, RegisteringInv, RemovingInv, ReservationsExclusive
<1>5. RemovingInv'
  BY DEF RemovingInv, RegisteredInv, RegisteringInv
<1>6. IteiInv'
  BY DEF IteiInv, RegisteringInv, RegisteredInv, RemovingInv
<1>7. ImsiInv'
  BY DEF ImsiInv, RegisteringInv, RegisteredInv
<1> QED
  BY <1>2, <1>3, <1>4, <1>5, <1>6, <1>7

LEMMA ByTEIDKeeps ==
  ASSUME TypeOK, TypeOK', IInv, NEW g \in Goroutine, NEW t \in TEID, GetSessionByTEID(g, t)
  PROVE  IInv'
<1> SUFFICES ASSUME ~misused' PROVE DirectoryInv'
  BY DEF IInv
<1> USE RegistryAssumption
    DEF TypeOK, maps, history, Return, GetSessionByTEID, Registers, Removes
<1>1. ~misused /\ DirectoryInv
  BY DEF IInv
<1> USE <1>1 DEF DirectoryInv
<1>2. ReservationsExclusive'
  BY DEF ReservationsExclusive
<1>3. RegisteringInv'
  BY DEF RegisteringInv, ReservationsExclusive
<1>4. RegisteredInv'
  BY DEF RegisteredInv, RegisteringInv, RemovingInv, ReservationsExclusive
<1>5. RemovingInv'
  BY DEF RemovingInv, RegisteredInv, ReservationsExclusive
<1>6. IteiInv'
  BY DEF IteiInv, RegisteringInv, RegisteredInv, RemovingInv
<1>7. ImsiInv'
  BY DEF ImsiInv, RegisteringInv, RegisteredInv
<1> QED
  BY <1>2, <1>3, <1>4, <1>5, <1>6, <1>7

LEMMA ByIMSIKeeps ==
  ASSUME TypeOK, TypeOK', IInv, NEW g \in Goroutine, NEW i \in IMSI, GetSessionByIMSI(g, i)
  PROVE  IInv'
<1> SUFFICES ASSUME ~misused' PROVE DirectoryInv'
  BY DEF IInv
<1> USE RegistryAssumption
    DEF TypeOK, maps, history, Return, GetSessionByIMSI, Registers, Removes
<1>1. ~misused /\ DirectoryInv
  BY DEF IInv
<1> USE <1>1 DEF DirectoryInv
<1>2. ReservationsExclusive'
  BY DEF ReservationsExclusive
<1>3. RegisteringInv'
  BY DEF RegisteringInv, ReservationsExclusive
<1>4. RegisteredInv'
  BY DEF RegisteredInv, RegisteringInv, RemovingInv, ReservationsExclusive
<1>5. RemovingInv'
  BY DEF RemovingInv, RegisteredInv, ReservationsExclusive
<1>6. IteiInv'
  BY DEF IteiInv, RegisteringInv, RegisteredInv, RemovingInv
<1>7. ImsiInv'
  BY DEF ImsiInv, RegisteringInv, RegisteredInv
<1> QED
  BY <1>2, <1>3, <1>4, <1>5, <1>6, <1>7

LEMMA LeaveKeeps ==
  ASSUME TypeOK, TypeOK', IInv, NEW g \in Goroutine, Leave(g)
  PROVE  IInv'
<1> SUFFICES ASSUME ~misused' PROVE DirectoryInv'
  BY DEF IInv
<1> USE RegistryAssumption
    DEF TypeOK, maps, history, Return, Leave, Registers, Removes
<1>1. ~misused /\ DirectoryInv
  BY DEF IInv
<1> USE <1>1 DEF DirectoryInv
<1>2. ReservationsExclusive'
  BY DEF ReservationsExclusive
<1>3. RegisteringInv'
  BY DEF RegisteringInv, ReservationsExclusive
<1>4. RegisteredInv'
  BY DEF RegisteredInv, RegisteringInv, RemovingInv, ReservationsExclusive
<1>5. RemovingInv'
  BY DEF RemovingInv, RegisteredInv, ReservationsExclusive
<1>6. IteiInv'
  BY DEF IteiInv, RegisteringInv, RegisteredInv, RemovingInv
<1>7. ImsiInv'
  BY DEF ImsiInv, RegisteringInv, RegisteredInv
<1> QED
  BY <1>2, <1>3, <1>4, <1>5, <1>6, <1>7

LEMMA FromImsiKeeps ==
  ASSUME TypeOK, TypeOK', IInv, NEW g \in Goroutine, RemoveFromImsi(g)
  PROVE  IInv'
<1> SUFFICES ASSUME ~misused' PROVE DirectoryInv'
  BY DEF IInv
<1> USE RegistryAssumption
    DEF TypeOK, maps, history, Return, RemoveFromImsi, Registers, Removes
<1>1. ~misused /\ DirectoryInv
  BY DEF IInv
<1> USE <1>1 DEF DirectoryInv
<1>0. cur[g] \in registered /\ cur[g] \notin removed
  OBVIOUS
<1>2. ReservationsExclusive'
  BY DEF ReservationsExclusive
<1>3. RegisteringInv'
  BY DEF RegisteringInv, ReservationsExclusive
<1>4. RegisteredInv'
  <2>1. /\ removed' = removed \cup {cur[g]}
        /\ registered' = registered /\ localTEID' = localTEID /\ itei' = itei
    BY Zenon
  <2> HIDE DEF TypeOK, DirectoryInv, RemoveFromImsi, maps, history
  <2>2. RegisteredInv
    BY <1>1, Zenon DEF DirectoryInv
  <2>3. removed' \subseteq registered'
    BY <1>0, <2>1, <2>2 DEF RegisteredInv
  <2>4. \A s \in registered' : localTEID'[s] \in TEID
    BY <2>1, <2>2 DEF RegisteredInv
  <2>5. \A s \in registered' \ removed' : itei'[localTEID'[s]] = s
    BY <2>1, <2>2 DEF RegisteredInv
  <2> QED
    BY <2>3, <2>4, <2>5, Zenon DEF RegisteredInv
<1>5. RemovingInv'
  BY <1>0 DEF RemovingInv, RegisteredInv
<1>6. IteiInv'
  BY DEF IteiInv, RegisteringInv, RegisteredInv, RemovingInv
<1>7. ImsiInv'
  BY DEF ImsiInv, RegisteringInv, RegisteredInv
<1> QED
  BY <1>2, <1>3, <1>4, <1>5, <1>6, <1>7

LEMMA GetTEIDKeeps ==
  ASSUME TypeOK, TypeOK', IInv, NEW g \in Goroutine, RemoveGetTEID(g)
  PROVE  IInv'
<1> SUFFICES ASSUME ~misused' PROVE DirectoryInv'
  BY DEF IInv
<1> USE RegistryAssumption
    DEF TypeOK, maps, history, Return, RemoveGetTEID, Registers, Removes
<1>1. ~misused /\ DirectoryInv
  BY DEF IInv
<1> USE <1>1 DEF DirectoryInv
<1>2. ReservationsExclusive'
  BY DEF ReservationsExclusive
<1>3. RegisteringInv'
  BY DEF RegisteringInv, ReservationsExclusive
<1>4. RegisteredInv'
  BY DEF RegisteredInv, RegisteringInv, RemovingInv, ReservationsExclusive
<1>5. RemovingInv'
  BY DEF RemovingInv, RegisteredInv, ReservationsExclusive
<1>6. IteiInv'
  BY DEF IteiInv, RegisteringInv, RegisteredInv, RemovingInv
<1>7. ImsiInv'
  BY DEF ImsiInv, RegisteringInv, RegisteredInv
<1> QED
  BY <1>2, <1>3, <1>4, <1>5, <1>6, <1>7

LEMMA FromIteiKeeps ==
  ASSUME TypeOK, TypeOK', IInv, NEW g \in Goroutine, RemoveFromItei(g)
  PROVE  IInv'
<1> SUFFICES ASSUME ~misused' PROVE DirectoryInv'
  BY DEF IInv
<1> USE RegistryAssumption
    DEF TypeOK, maps, history, Return, RemoveFromItei, Registers, Removes
<1>1. ~misused /\ DirectoryInv
  BY DEF IInv
<1> USE <1>1 DEF DirectoryInv
<1>2. ReservationsExclusive'
  BY DEF ReservationsExclusive, RemovingInv
<1>3. RegisteringInv'
  BY DEF RegisteringInv, RegisteredInv, RemovingInv
<1>4. RegisteredInv'
  BY DEF RegisteredInv, RegisteringInv, RemovingInv, ReservationsExclusive
<1>5. RemovingInv'
  BY DEF RemovingInv, RegisteredInv, ReservationsExclusive
<1>6. IteiInv'
  BY DEF IteiInv, RegisteringInv, RegisteredInv, RemovingInv
<1>7. ImsiInv'
  BY DEF ImsiInv, RegisteringInv, RegisteredInv
<1> QED
  BY <1>2, <1>3, <1>4, <1>5, <1>6, <1>7

-----------------------------------------------------------------------------

LEMMA InvInit == Init => IInv
BY RegistryAssumption
   DEF Init, IInv, DirectoryInv, ReservationsExclusive, RegisteringInv,
       RegisteredInv, RemovingInv, IteiInv, ImsiInv, Registers, Removes

\* A restart leaves the directory as Init does.
LEMMA RestartKeeps == Restart => IInv'
BY RegistryAssumption
   DEF Restart, IInv, DirectoryInv, ReservationsExclusive, RegisteringInv,
       RegisteredInv, RemovingInv, IteiInv, ImsiInv, Registers, Removes

\* Under the rules of use nobody is in the search of RemoveSession.
LEMMA RangeKeeps ==
  ASSUME TypeOK, IInv, NEW g \in Goroutine,
         \/ \E t \in TEID : RangeVisit(g, t)
         \/ RangeDelete(g)
         \/ RangeEnd(g)
  PROVE  IInv'
<1>1. pc[g] \in {"range", "rangeDelete"} /\ UNCHANGED misused
  BY DEF RangeVisit, RangeDelete, RangeEnd, history
<1>2. misused
  BY <1>1 DEF IInv, DirectoryInv, RemovingInv
<1> QED
  BY <1>1, <1>2 DEF IInv

LEMMA StutterKeeps ==
  ASSUME IInv, UNCHANGED vars
  PROVE  IInv'
BY DEF vars, maps, frames, history, IInv, DirectoryInv, ReservationsExclusive,
       RegisteringInv, RegisteredInv, RemovingInv, IteiInv, ImsiInv,
       Registers, Removes

LEMMA StepInv ==
  ASSUME TypeOK, TypeOK', IInv, [Next]_vars
  PROVE  IInv'
<1>1. ASSUME NEW g \in Goroutine, Register(g)
      PROVE  IInv'
  BY <1>1, TakeKeeps, AbandonKeeps, InIteiKeeps, InImsiKeeps, AddTEIDKeeps
     DEF Register
<1>2. ASSUME NEW g \in Goroutine, LookUp(g)
      PROVE  IInv'
  BY <1>2, ByTEIDKeeps, ByIMSIKeeps, LeaveKeeps DEF LookUp
<1>3. ASSUME NEW g \in Goroutine, RemoveSession(g)
      PROVE  IInv'
  BY <1>3, FromImsiKeeps, GetTEIDKeeps, FromIteiKeeps, RangeKeeps
     DEF RemoveSession
<1> QED
  BY <1>1, <1>2, <1>3, RestartKeeps, StutterKeeps DEF Next

LEMMA Invariance == Spec => []IInv
BY InvInit, StepInv, TypeCorrect, PTL DEF Spec

-----------------------------------------------------------------------------

\* No reserved TEID is ever given to a second goroutine, for any number of
\* goroutines, sessions and TEIDs (NewSenderFTEID against RemoveSession).
THEOREM ReservationsCorrect == Spec => []ReservationsExclusive
<1>1. IInv => ReservationsExclusive
  BY DEF IInv, DirectoryInv, ReservationsExclusive
<1> QED
  BY <1>1, Invariance, PTL

\* The IMSI map never leads to a session that its TEID does not lead to
\* (the order of the two stores and of the two deletes).
THEOREM ImsiEntryCorrect == Spec => []ImsiEntryResolves
<1>1. TypeOK /\ IInv => ImsiEntryResolves
  <2> SUFFICES ASSUME TypeOK, DirectoryInv, NEW i \in IMSI, imsi[i] # NoEntry
               PROVE  \E t \in TEID :
                        /\ itei[t] = imsi[i]
                        /\ \/ localTEID[imsi[i]] = t
                           \/ \E g \in Goroutine :
                                Registering(g, imsi[i]) /\ teid[g] = t
    BY DEF IInv, ImsiEntryResolves
  <2>1. CASE imsi[i] \in registered
    BY <2>1 DEF DirectoryInv, ImsiInv, RegisteredInv
  <2>2. CASE \E g \in Goroutine : Registers(g) /\ cur[g] = imsi[i]
    BY <2>2 DEF DirectoryInv, RegisteringInv, TypeOK, Registers, Registering
  <2> QED
    BY <2>1, <2>2 DEF DirectoryInv, ImsiInv
<1> QED
  BY <1>1, TypeCorrect, Invariance, PTL

\* A removed session cannot be found by TEID or by IMSI (RemoveSession against
\* RegisterSession of another session of the subscriber).
THEOREM RemovalCorrect == Spec => []RemovedIsUnreachable
<1>1. TypeOK /\ IInv => RemovedIsUnreachable
  <2> SUFFICES ASSUME TypeOK, DirectoryInv, NEW s \in removed,
                      \A g \in Goroutine : ~Removing(g, s)
               PROVE  /\ \A t \in TEID : itei[t] # s
                      /\ \A i \in IMSI : imsi[i] # s
    BY DEF IInv, RemovedIsUnreachable
  <2>1. s \in Session /\ s \in registered
    BY DEF TypeOK, DirectoryInv, RegisteredInv
  <2>2. \A t \in TEID : itei[t] # s
    BY <2>1 DEF DirectoryInv, IteiInv, RegisteringInv, Registers, Removes, Removing
  <2>3. \A i \in IMSI : imsi[i] # s
    BY <2>1, RegistryAssumption DEF DirectoryInv, ImsiInv
  <2> QED
    BY <2>2, <2>3
<1> QED
  BY <1>1, TypeCorrect, Invariance, PTL

-----------------------------------------------------------------------------
(***************************************************************************)
(* SessionRegistry implements TeidPool: the maps of a Conn allocate TEIDs.   *)
(***************************************************************************)

\* The goroutine that holds a reservation of t.
HoldsReservation(g, t) == pc[g] = "reserved" /\ teid[g] = t

LEMMA OwnerType ==
  ASSUME TypeOK, NEW t \in TEID
  PROVE  Owner(t) \in Goroutine \cup Session \cup {"free", "leaked"}
<1>1. CASE itei[t] = NoEntry
  BY <1>1 DEF Owner
<1>2. CASE itei[t] = Reserved /\ \E g \in Goroutine : HoldsReservation(g, t)
  BY <1>2, RegistryAssumption DEF Owner, HoldsReservation
<1>3. CASE itei[t] = Reserved /\ ~ \E g \in Goroutine : HoldsReservation(g, t)
  BY <1>3, RegistryAssumption DEF Owner, HoldsReservation
<1>4. CASE itei[t] \in Session
  BY <1>4, RegistryAssumption DEF Owner
<1> QED
  BY <1>1, <1>2, <1>3, <1>4 DEF TypeOK

\* What the owner of a TEID is, in each state of its entry.
OwnersKnown ==
  TypeOK /\ ReservationsExclusive /\ ~misused =>
    \A t \in TEID :
      /\ itei[t] = NoEntry => Owner(t) = "free"
      /\ itei[t] \in Session => Owner(t) = itei[t]
      /\ \A g \in Goroutine : HoldsReservation(g, t) => Owner(t) = g
      /\ itei[t] = Reserved /\ ~(\E g \in Goroutine : HoldsReservation(g, t)) =>
           Owner(t) = "leaked"

LEMMA OwnerCases == OwnersKnown
<1> SUFFICES ASSUME TypeOK, ReservationsExclusive, ~misused, NEW t \in TEID
             PROVE  /\ itei[t] = NoEntry => Owner(t) = "free"
                    /\ itei[t] \in Session => Owner(t) = itei[t]
                    /\ \A g \in Goroutine : HoldsReservation(g, t) => Owner(t) = g
                    /\ /\ itei[t] = Reserved
                       /\ ~(\E g \in Goroutine : HoldsReservation(g, t))
                       => Owner(t) = "leaked"
  BY DEF OwnersKnown
<1>1. itei[t] = NoEntry => Owner(t) = "free"
  BY RegistryAssumption DEF Owner
<1>2. itei[t] \in Session => Owner(t) = itei[t]
  BY RegistryAssumption DEF Owner
<1>3. ASSUME NEW g \in Goroutine, HoldsReservation(g, t)
      PROVE  Owner(t) = g
  <2>1. itei[t] = Reserved
    BY <1>3 DEF HoldsReservation, ReservationsExclusive
  <2>2. \A h \in Goroutine : HoldsReservation(h, t) => h = g
    BY <1>3 DEF HoldsReservation, ReservationsExclusive
  <2>3. Owner(t) = CHOOSE h \in Goroutine : pc[h] = "reserved" /\ teid[h] = t
    BY <1>3, <2>1, RegistryAssumption DEF Owner, HoldsReservation
  <2> QED
    BY <1>3, <2>2, <2>3 DEF HoldsReservation
<1>4. itei[t] = Reserved /\ ~(\E g \in Goroutine : HoldsReservation(g, t)) =>
        Owner(t) = "leaked"
  BY RegistryAssumption DEF Owner, HoldsReservation
<1> QED
  BY <1>1, <1>2, <1>3, <1>4

\* A step that leaves the entry of t and its reservation as they are leaves its
\* owner as it is.
LEMMA OwnerUnchanged ==
  ASSUME NEW t \in TEID, itei'[t] = itei[t],
         \A g \in Goroutine : HoldsReservation(g, t)' <=> HoldsReservation(g, t)
  PROVE  Owner(t)' = Owner(t)
<1>1. (\E g \in Goroutine : pc[g] = "reserved" /\ teid[g] = t)' <=>
      (\E g \in Goroutine : pc[g] = "reserved" /\ teid[g] = t)
  BY DEF HoldsReservation
<1>2. (CHOOSE g \in Goroutine : pc'[g] = "reserved" /\ teid'[g] = t) =
      (CHOOSE g \in Goroutine : pc[g] = "reserved" /\ teid[g] = t)
  BY DEF HoldsReservation
<1> QED
  BY <1>1, <1>2 DEF Owner

-----------------------------------------------------------------------------

\* The table of owners, as the refinement mapping gives it.
Owners == [t \in TEID |-> Owner(t)]

LEMMA OwnersExcept ==
  ASSUME NEW t \in TEID, NEW x, Owner(t)' = x,
         \A k \in TEID \ {t} : Owner(k)' = Owner(k)
  PROVE  Owners' = [Owners EXCEPT ![t] = x]
<1>1. Owners' = [k \in TEID |-> Owner(k)']
  BY DEF Owners
<1>2. [Owners EXCEPT ![t] = x] = [k \in TEID |-> IF k = t THEN x ELSE Owner(k)]
  BY DEF Owners
<1> QED
  BY <1>1, <1>2

\* What the lemmas on single steps assume: a step within the rules of use, whose
\* states both give every TEID its known owner.
Lawful ==
  /\ TypeOK /\ DirectoryInv /\ ~misused
  /\ TypeOK' /\ DirectoryInv' /\ ~misused'

LEMMA KnownBoth == Lawful => OwnersKnown /\ OwnersKnown'
BY OwnerCases, PTL

LEMMA TakeImplements ==
  ASSUME Lawful, NEW g \in Goroutine, NEW t \in TEID, NewSenderFTEID(g, t)
  PROVE  Owners[t] = "free" /\ Owners' = [Owners EXCEPT ![t] = g]
<1> USE DEF Lawful, TypeOK, DirectoryInv, NewSenderFTEID, HoldsReservation
<1>1. Owners[t] = "free"
  BY KnownBoth DEF OwnersKnown, Owners
<1>2. Owner(t)' = g
  BY KnownBoth DEF OwnersKnown
<1>3. ASSUME NEW k \in TEID \ {t}
      PROVE  Owner(k)' = Owner(k)
  BY <1>3, OwnerUnchanged
<1> QED
  BY <1>1, <1>2, <1>3, OwnersExcept

LEMMA AbandonImplements ==
  ASSUME Lawful, NEW g \in Goroutine, Abandon(g), NEW t \in TEID, t = teid[g]
  PROVE  Owners[t] = g /\ Owners' = [Owners EXCEPT ![t] = "leaked"]
<1> USE DEF Lawful, TypeOK, DirectoryInv, Abandon, Return, maps, HoldsReservation
<1>1. Owners[t] = g
  BY KnownBoth DEF OwnersKnown, Owners
<1>2. itei'[t] = Reserved /\ \A h \in Goroutine : ~HoldsReservation(h, t)'
  BY DEF ReservationsExclusive
<1>3. Owner(t)' = "leaked"
  BY <1>2, KnownBoth DEF OwnersKnown
<1>4. ASSUME NEW k \in TEID \ {t}
      PROVE  Owner(k)' = Owner(k)
  BY <1>4, OwnerUnchanged
<1> QED
  BY <1>1, <1>3, <1>4, OwnersExcept

LEMMA HandOverImplements ==
  ASSUME Lawful, NEW g \in Goroutine, NEW s \in Session, NEW early \in BOOLEAN,
         RegisterInItei(g, s, early)
  PROVE  /\ teid[g] \in TEID /\ Owners[teid[g]] = g
         /\ \A k \in TEID : Owners[k] # s
         /\ Owners' = [Owners EXCEPT ![teid[g]] = s]
<1> USE DEF Lawful, TypeOK, DirectoryInv, RegisterInItei, Unreferenced,
            HoldsReservation
<1>1. teid[g] \in TEID /\ Owners[teid[g]] = g
  BY KnownBoth DEF OwnersKnown, Owners
<1>2. ASSUME NEW k \in TEID
      PROVE  Owners[k] # s
  BY KnownBoth, RegistryAssumption DEF OwnersKnown, Owners
<1>3. Owner(teid[g])' = s
  BY <1>1, KnownBoth DEF OwnersKnown
<1>4. ASSUME NEW k \in TEID \ {teid[g]}
      PROVE  Owner(k)' = Owner(k)
  BY <1>4, <1>1, OwnerUnchanged
<1> QED
  BY <1>1, <1>2, <1>3, <1>4, OwnersExcept

LEMMA ReleaseImplements ==
  ASSUME Lawful, NEW g \in Goroutine, RemoveFromItei(g), NEW t \in TEID, t = teid[g]
  PROVE  /\ cur[g] \in Session /\ Owners[t] = cur[g]
         /\ Owners' = [Owners EXCEPT ![t] = "free"]
<1> USE RegistryAssumption
    DEF Lawful, TypeOK, DirectoryInv, RemoveFromItei, Return, HoldsReservation
<1>1. cur[g] \in Session /\ itei[t] = cur[g]
  BY DEF RemovingInv, Removes
<1>2. Owners[t] = cur[g]
  BY <1>1, KnownBoth DEF OwnersKnown, Owners
<1>3. Owner(t)' = "free"
  BY <1>1, KnownBoth DEF OwnersKnown
<1>4. ASSUME NEW k \in TEID \ {t}
      PROVE  Owner(k)' = Owner(k)
  BY <1>4, <1>1, OwnerUnchanged
<1> QED
  BY <1>1, <1>2, <1>3, <1>4, OwnersExcept

\* The other steps do not concern the owners.
LEMMA OthersStutter ==
  ASSUME UNCHANGED itei, TypeOK,
         \A g \in Goroutine : pc'[g] = "reserved" <=> pc[g] = "reserved",
         \A g \in Goroutine : pc[g] = "reserved" => teid'[g] = teid[g]
  PROVE  Owners' = Owners
<1>1. ASSUME NEW t \in TEID
      PROVE  Owner(t)' = Owner(t)
  BY OwnerUnchanged DEF HoldsReservation
<1> QED
  BY <1>1 DEF Owners

\* Only a restart forgets that the directory was misused.
LEMMA StickyMisuse ==
  ASSUME misused = TRUE, NEW g \in Goroutine,
         Register(g) \/ LookUp(g) \/ RemoveSession(g)
  PROVE  misused' = TRUE
BY Zenon DEF Register, LookUp, RemoveSession, history,
       NewSenderFTEID, Abandon, RegisterInItei, RegisterInImsi, RegisterAddTEID,
       GetSessionByTEID, GetSessionByIMSI, Leave, RemoveFromImsi, RemoveGetTEID,
       RemoveFromItei, RangeVisit, RangeDelete, RangeEnd

OwnersTyped ==
  \A t \in TEID : Owner(t) \in Goroutine \cup Session \cup {"free", "leaked"}

LEMMA InitImplements == Init => Pool!Init
<1> SUFFICES ASSUME Init
             PROVE  \A t \in TEID : Owner(t) = "free"
  BY DEF Init, Pool!Init
<1> QED
  BY RegistryAssumption DEF Init, Owner

\* From a lawful state with its process up, a step to another lawful state that
\* is not a restart operates the pool, takes the process down or stutters.
LEMMA RegisterImplements ==
  ASSUME Lawful, ~crashed, NEW g \in Goroutine, Register(g)
  PROVE  [Pool!Next]_(Pool!vars)
<1> USE DEF Pool!Next, Pool!Operate, Pool!vars, Owners, Lawful
<1>1. ASSUME NEW t \in TEID, NewSenderFTEID(g, t)
      PROVE  Pool!Next
  BY <1>1, TakeImplements DEF NewSenderFTEID, history, Pool!Take
<1>2. CASE Abandon(g)
  <2>1. PICK t \in TEID : t = teid[g]
    BY <1>2 DEF TypeOK, Abandon
  <2> QED
    BY <1>2, <2>1, AbandonImplements DEF Abandon, history, Pool!Leak
<1>3. ASSUME NEW s \in Session, NEW early \in BOOLEAN, RegisterInItei(g, s, early)
      PROVE  Pool!Next
  <2>1. PICK t \in TEID : t = teid[g]
    BY <1>3 DEF TypeOK, RegisterInItei
  <2>2. Owners[t] = g /\ (\A k \in TEID : Owners[k] # s) /\
        Owners' = [Owners EXCEPT ![t] = s]
    BY <1>3, <2>1, HandOverImplements
  <2> QED
    BY <1>3, <2>2 DEF RegisterInItei, Pool!HandOver
<1>4. CASE RegisterInImsi(g)
  <2>1. Owners' = Owners
    BY <1>4, OthersStutter DEF RegisterInImsi, TypeOK
  <2> QED
    BY <1>4, <2>1 DEF RegisterInImsi, history
<1>5. CASE RegisterAddTEID(g)
  <2>1. Owners' = Owners
    BY <1>5, OthersStutter DEF RegisterAddTEID, TypeOK, maps, Return
  <2> QED
    BY <1>5, <2>1 DEF RegisterAddTEID
<1> QED
  BY <1>1, <1>2, <1>3, <1>4, <1>5 DEF Register

LEMMA LookUpImplements ==
  ASSUME Lawful, ~crashed, NEW g \in Goroutine, LookUp(g)
  PROVE  [Pool!Next]_(Pool!vars)
<1> USE DEF Pool!Next, Pool!vars, Owners, Lawful, maps, history
<1>1. ASSUME NEW t \in TEID, GetSessionByTEID(g, t)
      PROVE  [Pool!Next]_(Pool!vars)
  <2>1. Owners' = Owners
    BY <1>1, OthersStutter DEF GetSessionByTEID, TypeOK
  <2> QED
    BY <1>1, <2>1 DEF GetSessionByTEID, Pool!GoDown
<1>2. ASSUME NEW i \in IMSI, GetSessionByIMSI(g, i)
      PROVE  UNCHANGED Pool!vars
  <2>1. Owners' = Owners
    BY <1>2, OthersStutter DEF GetSessionByIMSI, TypeOK
  <2> QED
    BY <1>2, <2>1 DEF GetSessionByIMSI
<1>3. CASE Leave(g)
  <2>1. Owners' = Owners
    BY <1>3, OthersStutter DEF Leave, TypeOK, Return
  <2> QED
    BY <1>3, <2>1 DEF Leave
<1> QED
  BY <1>1, <1>2, <1>3 DEF LookUp

LEMMA RemoveImplements ==
  ASSUME Lawful, ~crashed, NEW g \in Goroutine, RemoveSession(g)
  PROVE  [Pool!Next]_(Pool!vars)
<1> USE DEF Pool!Next, Pool!Operate, Pool!vars, Owners, Lawful, maps, history
<1>1. CASE RemoveFromImsi(g)
  <2>1. Owners' = Owners
    BY <1>1, OthersStutter DEF RemoveFromImsi, TypeOK
  <2>2. misused' = misused
    BY DEF TypeOK
  <2> QED
    BY <1>1, <2>1, <2>2 DEF RemoveFromImsi
<1>2. CASE RemoveGetTEID(g)
  <2>1. Owners' = Owners
    BY <1>2, OthersStutter DEF RemoveGetTEID, TypeOK
  <2> QED
    BY <1>2, <2>1 DEF RemoveGetTEID
<1>3. CASE RemoveFromItei(g)
  <2>1. PICK t \in TEID : t = teid[g]
    BY <1>3 DEF TypeOK, RemoveFromItei
  <2> QED
    BY <1>3, <2>1, ReleaseImplements DEF RemoveFromItei, Pool!Release
<1>4. CASE \/ \E t \in TEID : RangeVisit(g, t)
           \/ RangeDelete(g)
           \/ RangeEnd(g)
  BY <1>4 DEF DirectoryInv, RemovingInv, RangeVisit, RangeDelete, RangeEnd
<1> QED
  BY <1>1, <1>2, <1>3, <1>4 DEF RemoveSession

\* Every step of the directory is a step or a stutter of the pool.
LEMMA StepImplements ==
  ASSUME TypeOK, TypeOK', IInv, IInv', OwnersTyped', [Next]_vars
  PROVE  [Pool!Next]_(Pool!vars)
<1>1. CASE UNCHANGED vars
  <2>1. Owners' = Owners
    BY <1>1, OthersStutter DEF vars, maps, frames
  <2> QED
    BY <1>1, <2>1 DEF vars, history, Pool!vars, Owners
<1>2. CASE misused' = TRUE
  <2>1. Owners' \in [TEID -> Goroutine \cup Session \cup {"free", "leaked"}]
    BY DEF OwnersTyped, Owners
  <2> QED
    BY <1>2, <2>1 DEF TypeOK, Pool!Next, Pool!Break, Owners
<1>3. CASE Restart
  <2>1. \A t \in TEID : Owner(t)' = "free"
    BY <1>3, RegistryAssumption DEF Restart, Owner
  <2> QED
    BY <1>3, <2>1 DEF Restart, Pool!Next, Pool!Restart, Pool!Init
<1>4. CASE misused' # TRUE /\ ~crashed /\
           \E g \in Goroutine : Register(g) \/ LookUp(g) \/ RemoveSession(g)
  <2>1. PICK g \in Goroutine : Register(g) \/ LookUp(g) \/ RemoveSession(g)
    BY <1>4
  <2>2. ~misused' /\ ~misused
    BY <1>4, <2>1, StickyMisuse DEF TypeOK
  <2>3. Lawful
    BY <2>2 DEF IInv, Lawful
  <2> QED
    BY <1>4, <2>1, <2>3, RegisterImplements, LookUpImplements, RemoveImplements
<1> QED
  BY <1>1, <1>2, <1>3, <1>4 DEF Next

\* The directory implements the allocator of TEIDs for every number of
\* goroutines, sessions and TEIDs (NewSenderFTEID, RegisterSession,
\* RemoveSession).
THEOREM ImplementationCorrect == Spec => ImplementsPool
<1>1. TypeOK => OwnersTyped
  BY OwnerType DEF OwnersTyped
<1> QED
  BY <1>1, InitImplements, StepImplements, TypeCorrect, Invariance, PTL
     DEF Spec, ImplementsPool, Pool!Spec

=============================================================================
