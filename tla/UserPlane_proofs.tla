-------------------------- MODULE UserPlane_proofs --------------------------
(***************************************************************************)
(* Proofs about UserPlane, for any subscribers, TEIDs and packets: its       *)
(* types, the ownership of TEIDs, relays and tunnels, the takeover by the    *)
(* kernel, and where a packet goes.                                          *)
(***************************************************************************)
EXTENDS UserPlane, TLAPS

Pcs == {"idle", "reserved", "storing", "relayed", "closing", "freeing", "refused",
        "found", "override", "adding", "tunneled", "deleting"}
Users == [pc : Pcs, teid : TEID \cup {NoTEID}, ms : MS \cup {None}, found : TEID \cup {NoTEID}]
Packets == [pc : {"done", "arrived", "finding", "forwarding", "handling", "waiting"},
            teid : TEID \cup {NoTEID}, peer : Subscriber \cup {None}]

\* Who holds a TEID has one, and who has begun to override has an address: the kernel is
\* never given a tunnel without.
HoldersHaveTEIDs ==
  \A s \in Subscriber :
    /\ Holds(s) => user[s].teid \in TEID
    /\ user[s].pc \in {"found", "override", "adding"} => user[s].ms \in MS

OwnersType ==
  /\ user \in [Subscriber -> Users]
  /\ relayMap \in [TEID -> Subscriber \cup {None}]
  /\ iteiMap \subseteq TEID
  /\ pdps \subseteq [itei : TEID, ms : MS]
  /\ crossed \subseteq Subscriber
  /\ HoldersHaveTEIDs

ModesType ==
  /\ kernel \in {"off", "enabled", "clearing", "on"}
  /\ errIndEnabled \in BOOLEAN
  /\ overlapping \subseteq Subscriber

LifeType ==
  /\ closed \in BOOLEAN /\ reading \in BOOLEAN /\ crashed \in BOOLEAN
  /\ serving \in {"yes", "leaving", "no"}

PacketType ==
  /\ packet \in [Packet -> Packets]
  /\ \A g \in Packet : packet[g].pc = "forwarding" => packet[g].peer # None
  /\ \A g \in Packet : packet[g].pc # "done" => packet[g].teid \in TEID

\* TypeOK by the parts that an action changes at a time.
TypeParts ==
  /\ OwnersType /\ ModesType /\ LifeType /\ PacketType
  /\ seen \in [Packet -> SUBSET (Subscriber \cup {None})]

-----------------------------------------------------------------------------

\* The parts are all of TypeOK.
LEMMA PartsAreTypes == TypeParts => TypeOK
BY Zenon DEF TypeParts, OwnersType, ModesType, LifeType, PacketType, TypeOK, Users, Pcs,
             Packets

\* A connection that was just made.
LEMMA InitType == Init => TypeParts
<1> SUFFICES ASSUME Init PROVE TypeParts
  OBVIOUS
<1>1. OwnersType
  BY DEF Init, OwnersType, HoldersHaveTEIDs, Holds, Users, Pcs, Idle
<1>2. ModesType /\ LifeType
  BY Zenon DEF Init, ModesType, LifeType
<1>3. PacketType
  BY DEF Init, PacketType, Packets, NoPacket
<1>4. seen \in [Packet -> SUBSET (Subscriber \cup {None})]
  BY DEF Init
<1> QED
  BY <1>1, <1>2, <1>3, <1>4 DEF TypeParts

\* A subscriber that goes from one point to the next keeps its TEID and its address.
LEMMA StepType ==
  ASSUME user \in [Subscriber -> Users], HoldersHaveTEIDs,
         NEW s \in Subscriber, NEW from \in Pcs \ {"idle"}, NEW to \in Pcs, Step(s, from, to),
         to \in {"found", "override", "adding"} => from \in {"found", "override", "adding"}
  PROVE  user' \in [Subscriber -> Users] /\ HoldersHaveTEIDs'
BY DEF Step, Users, HoldersHaveTEIDs, Holds

\* The owners' calls keep the types of what they share.
LEMMA CallType ==
  ASSUME OwnersType, NEW s \in Subscriber, Call(s)
  PROVE  OwnersType'
<1>1. CASE NewFTEID(s)
  <2>1. PICK t \in TEID :
          iteiMap' = iteiMap \cup {t} /\ user' = [user EXCEPT ![s] = Reserved(t)]
    BY <1>1 DEF NewFTEID
  <2>2. Reserved(t) \in Users /\ Reserved(t).pc = "reserved" /\ Reserved(t).teid = t
    BY DEF Reserved, Users, Pcs
  <2>3. user' \in [Subscriber -> Users] /\ HoldersHaveTEIDs'
    BY <2>1, <2>2 DEF OwnersType, HoldersHaveTEIDs, Holds
  <2> QED
    BY <1>1, <2>1, <2>3 DEF OwnersType, NewFTEID
<1>2. CASE \/ RelayTo(s) \/ RelayToRefuses(s) \/ CloseRelay(s) \/ CloseRelayRefuses(s)
           \/ DelTunnel(s) \/ DeletePDPFails(s)
  BY <1>2, StepType DEF OwnersType, RelayTo, RelayToRefuses, CloseRelay, CloseRelayRefuses,
                        DelTunnel, DeletePDPFails, Pcs
<1>3. CASE StoreRelay(s)
  BY <1>3, StepType DEF OwnersType, StoreRelay, Pcs
<1>4. CASE DeleteRelay(s)
  BY <1>4, StepType DEF OwnersType, DeleteRelay, Pcs
<1>5. CASE FreeTEID(s) \/ AddTunnelFails(s)
  BY <1>5 DEF OwnersType, HoldersHaveTEIDs, Holds, FreeTEID, AddTunnelFails, Users, Pcs, Idle
<1>6. CASE OverrideITEI(s) \/ DeletePDP(s)
  BY <1>6, StepType DEF OwnersType, OverrideITEI, DeletePDP, Pcs
<1>7. CASE AddTunnel(s)
  <2>1. user[s].teid \in TEID /\ user[s].ms \in MS
    BY <1>7 DEF AddTunnel, Step, OwnersType, HoldersHaveTEIDs, Holds
  <2>2. user' \in [Subscriber -> Users] /\ HoldersHaveTEIDs'
    BY <1>7, StepType DEF OwnersType, AddTunnel, Pcs
  <2>3. pdps' \subseteq [itei : TEID, ms : MS]
    BY <1>7, <2>1 DEF OwnersType, AddTunnel
  <2>4. crossed' \subseteq Subscriber
    BY <1>7 DEF OwnersType, AddTunnel, Overriding
  <2> QED
    BY <1>7, <2>2, <2>3, <2>4 DEF OwnersType, AddTunnel
<1>8. CASE AddTunnelOverride(s)
  <2>1. PICK a \in MS, t \in TEID \cup {NoTEID} :
          user' = [user EXCEPT ![s].pc = "found", ![s].ms = a, ![s].found = t]
    <3>1. PICK a \in MSsOf[s] :
            \E t \in IF {p \in pdps : p.ms = a} = {} THEN {NoTEID}
                    ELSE {p.itei : p \in {q \in pdps : q.ms = a}} :
              user' = [user EXCEPT ![s].pc = "found", ![s].ms = a, ![s].found = t]
      BY <1>8 DEF AddTunnelOverride
    <3>2. \A p \in pdps : p.itei \in TEID
      BY DEF OwnersType
    <3>3. a \in MS
      BY MSsAssumption
    <3> DEFINE T == IF {p \in pdps : p.ms = a} = {} THEN {NoTEID}
                    ELSE {p.itei : p \in {q \in pdps : q.ms = a}}
    <3>4. T \subseteq TEID \cup {NoTEID}
      BY <3>2
    <3>5. \E t \in T : user' = [user EXCEPT ![s].pc = "found", ![s].ms = a, ![s].found = t]
      BY <3>1
    <3> HIDE DEF T
    <3> QED
      BY <3>3, <3>4, <3>5
  <2>2. user[s].pc = "reserved" /\ user[s] \in Users /\ user \in [Subscriber -> Users]
    BY <1>8 DEF AddTunnelOverride, OwnersType
  <2>3. /\ user'[s] \in Users /\ user'[s].teid = user[s].teid /\ user'[s].ms = a
        /\ user' \in [Subscriber -> Users]
        /\ \A r \in Subscriber \ {s} : user'[r] = user[r]
    BY <2>1, <2>2 DEF Users, Pcs
  <2>4. HoldersHaveTEIDs'
    BY <2>2, <2>3 DEF OwnersType, HoldersHaveTEIDs, Holds
  <2> QED
    BY <1>8, <2>3, <2>4 DEF AddTunnelOverride, OwnersType
<1>9. CASE OverrideMSAddress(s)
  <2>1. user[s].pc = "found" /\ user[s] \in Users /\ user \in [Subscriber -> Users]
    BY <1>9 DEF OverrideMSAddress, OwnersType
  <2>2. /\ user'[s] \in Users /\ user'[s].teid = user[s].teid /\ user'[s].ms = user[s].ms
        /\ user' \in [Subscriber -> Users]
        /\ \A r \in Subscriber \ {s} : user'[r] = user[r]
    BY <1>9, <2>1 DEF OverrideMSAddress, Users, Pcs
  <2>3. HoldersHaveTEIDs'
    BY <2>1, <2>2 DEF OwnersType, HoldersHaveTEIDs, Holds
  <2> QED
    BY <1>9, <2>2, <2>3 DEF OverrideMSAddress, OwnersType
<1> QED
  BY <1>1, <1>2, <1>3, <1>4, <1>5, <1>6, <1>7, <1>8, <1>9 DEF Call

\* So do the calls of the connection's owner, and they keep their own.
LEMMA OperateType ==
  ASSUME OwnersType, ModesType, LifeType, Operate
  PROVE  OwnersType' /\ ModesType' /\ LifeType'
<1>1. CASE EnableKernelGTP \/ LookForRelays \/ DisableErrorIndication
  <2>1. UNCHANGED owners /\ UNCHANGED life
    BY <1>1, Zenon DEF EnableKernelGTP, LookForRelays, DisableErrorIndication
  <2>2. OwnersType' /\ LifeType'
    BY <2>1 DEF owners, life, OwnersType, LifeType, HoldersHaveTEIDs, Holds
  <2>3. ModesType'
    BY <1>1 DEF EnableKernelGTP, LookForRelays, DisableErrorIndication, ModesType
  <2> QED
    BY <2>2, <2>3
<1>2. CASE RemoveRelays
  BY <1>2 DEF RemoveRelays, OwnersType, ModesType, LifeType, life, HoldersHaveTEIDs, Holds
<1>3. CASE CloseSocket
  BY <1>3 DEF CloseSocket, OwnersType, ModesType, LifeType, modes, HoldersHaveTEIDs, Holds
<1>4. CASE Close \/ ServeLeaves \/ ReadFromGTP \/ ReadReturnsClosed
  <2>1. UNCHANGED owners /\ UNCHANGED modes
    BY <1>4, Zenon DEF Close, ServeLeaves, ReadFromGTP, ReadReturnsClosed
  <2>2. OwnersType' /\ ModesType'
    BY <2>1 DEF owners, modes, OwnersType, ModesType, HoldersHaveTEIDs, Holds
  <2>3. LifeType'
    BY <1>4 DEF Close, ServeLeaves, ReadFromGTP, ReadReturnsClosed, LifeType
  <2> QED
    BY <2>2, <2>3
<1> QED
  BY <1>1, <1>2, <1>3, <1>4 DEF Operate

\* A process that has ended has nothing left.
LEMMA PanicLeaves ==
  ASSUME NEW g \in Packet, Panic(g)
  PROVE  /\ \A s \in Subscriber : user'[s].pc = "idle"
         /\ \A t \in TEID : relayMap'[t] = None
         /\ iteiMap' = {} /\ pdps' = {} /\ crossed' = {}
         /\ \A f \in Packet : packet'[f].pc = "done"
         /\ UNCHANGED <<kernel, overlapping>>
BY DEF Panic, Idle, NoPacket, modes

LEMMA PanicType ==
  ASSUME ModesType, LifeType, NEW g \in Packet, Panic(g)
  PROVE  OwnersType' /\ ModesType' /\ LifeType' /\ PacketType'
<1>1. OwnersType'
  BY DEF Panic, OwnersType, HoldersHaveTEIDs, Holds, Users, Pcs, Idle
<1>2. ModesType' /\ LifeType'
  BY DEF Panic, ModesType, LifeType, modes
<1>3. PacketType'
  BY DEF Panic, PacketType, Packets, NoPacket
<1> QED
  BY <1>1, <1>2, <1>3

\* The goroutines of packets keep their types, and reach "forwarding" with a peer only.
LEMMA PacketStepType ==
  ASSUME OwnersType, LifeType, PacketType, NEW g \in Packet, Arrive(g) \/ Handle(g),
         ~Panic(g)
  PROVE  PacketType' /\ LifeType'
<1>1. CASE Arrive(g)
  BY <1>1 DEF Arrive, PacketType, LifeType, life, Packets
<1>2. CASE FindPeer(g)
  <2>1. relayMap[packet[g].teid] \in Subscriber \cup {None}
    BY <1>2 DEF FindPeer, PacketType, OwnersType
  <2> QED
    <3> DEFINE next == IF relayMap[packet[g].teid] = None THEN "handling" ELSE "forwarding"
    <3>1. packet' = [packet EXCEPT ![g].pc = next, ![g].peer = relayMap[packet[g].teid]]
      BY <1>2 DEF FindPeer
    <3>2. next \in {"handling", "forwarding"}
          /\ (next = "forwarding" => relayMap[packet[g].teid] # None)
      OBVIOUS
    <3> HIDE DEF next
    <3>3. /\ packet'[g] \in Packets /\ packet'[g].teid = packet[g].teid
          /\ packet'[g].pc = "forwarding" => packet'[g].peer # None
          /\ packet[g].pc # "done" /\ packet' \in [Packet -> Packets]
          /\ \A f \in Packet \ {g} : packet'[f] = packet[f]
      <4>1. /\ packet' = [packet EXCEPT ![g] = [pc |-> next, teid |-> packet[g].teid,
                                              peer |-> relayMap[packet[g].teid]]]
            /\ packet[g].teid \in TEID /\ packet[g].pc = "finding"
        BY <1>2, <3>1 DEF PacketType, Packets, FindPeer
      <4>2. [pc |-> next, teid |-> packet[g].teid, peer |-> relayMap[packet[g].teid]]
               \in Packets
        BY <2>1, <3>2, <4>1 DEF Packets
      <4> QED
        BY <3>2, <4>1, <4>2 DEF PacketType
    <3>4. PacketType'
      BY <3>3 DEF PacketType
    <3>5. LifeType'
      BY <1>2 DEF FindPeer, LifeType, life
    <3> QED
      BY <3>4, <3>5
<1>3. CASE Read(g)
  BY <1>3 DEF Read, Return, NoPacket, PacketType, LifeType, Packets
<1>4. CASE \/ LookForRelay(g) \/ DropMalformed(g) \/ Forward(g)
           \/ IndicateError(g) \/ PassToReader(g) \/ Discard(g)
  BY <1>4 DEF LookForRelay, DropMalformed, Forward, IndicateError, PassToReader, Discard, Go,
              Return, NoPacket, PacketType, LifeType, life, Packets
<1> QED
  BY <1>1, <1>2, <1>3, <1>4 DEF Handle

\* Whoever a TEID leads to is a subscriber or nobody.
LEMMA ObserveType ==
  ASSUME seen \in [Packet -> SUBSET (Subscriber \cup {None})], Observe
  PROVE  seen' \in [Packet -> SUBSET (Subscriber \cup {None})]
<1>1. \A t : LeadsTo(t)' \subseteq Subscriber \cup {None}
  BY DEF LeadsTo
<1> QED
  BY <1>1 DEF Observe

\* Every step keeps the types.
LEMMA NextType ==
  ASSUME TypeParts, [Next]_vars
  PROVE  TypeParts'
<1> USE DEF TypeParts
<1>1. CASE \E s \in Subscriber : Call(s) /\ Observe
  <2> PICK s \in Subscriber : Call(s) /\ Observe
    BY <1>1
  <2>1. UNCHANGED <<modes, life, packet>>
    BY Zenon DEF Call, NewFTEID, RelayTo, RelayToRefuses, StoreRelay, CloseRelay,
       CloseRelayRefuses, DeleteRelay, FreeTEID, AddTunnelOverride, OverrideMSAddress,
       OverrideITEI, AddTunnel, AddTunnelFails, DelTunnel, DeletePDP, DeletePDPFails
  <2>2. ModesType' /\ LifeType' /\ PacketType'
    BY <2>1 DEF modes, life, ModesType, LifeType, PacketType
  <2> QED
    BY <2>2, CallType, ObserveType
<1>2. CASE Operate /\ Observe
  <2>1. UNCHANGED packet
    BY <1>2, Zenon DEF Operate, EnableKernelGTP, LookForRelays, RemoveRelays,
       DisableErrorIndication, Close, ServeLeaves, CloseSocket, ReadFromGTP, ReadReturnsClosed
  <2>2. PacketType'
    BY <2>1 DEF PacketType
  <2> QED
    BY <1>2, <2>2, OperateType, ObserveType
<1>3. CASE \E g \in Packet : (Arrive(g) \/ Handle(g)) /\ Observe
  <2> PICK g \in Packet : (Arrive(g) \/ Handle(g)) /\ Observe
    BY <1>3
  <2>1. CASE Panic(g)
    BY <2>1, PanicType, ObserveType
  <2>2. CASE ~Panic(g)
    <3>1. UNCHANGED <<owners, modes>>
      BY <2>2, Zenon DEF Arrive, Handle, LookForRelay, DropMalformed, FindPeer, Forward,
         IndicateError, PassToReader, Read, Discard
    <3>2. OwnersType' /\ ModesType'
      BY <3>1 DEF owners, modes, OwnersType, ModesType, HoldersHaveTEIDs, Holds
    <3> QED
      BY <2>2, <3>2, PacketStepType, ObserveType
  <2> QED
    BY <2>1, <2>2
<1>4. CASE UNCHANGED vars
  BY <1>4 DEF vars, owners, modes, life, OwnersType, ModesType, LifeType, PacketType,
              HoldersHaveTEIDs, Holds
<1> QED
  BY <1>1, <1>2, <1>3, <1>4, Zenon DEF Next

\* All variables keep their types, for any number of subscribers, TEIDs and packets; in
\* particular no packet is forwarded without a peer (FindPeer's check of the map).
THEOREM TypeCorrect == Spec => []TypeOK
<1>1. Init => TypeParts
  BY InitType
<1>2. TypeParts /\ [Next]_vars => TypeParts'
  BY NextType
<1> QED
  BY <1>1, <1>2, PartsAreTypes, PTL DEF Spec

-----------------------------------------------------------------------------

\* The inductive invariant of ownership.  TeidsExclusive says nothing of the addresses,
\* nor of the time in AddTunnelOverride between the deletions and the addition.

\* The kernel has one tunnel of an address.
AddressesUnique == \A p, q \in pdps : p.ms = q.ms => p = q

\* Unless another call for the address has added a tunnel meanwhile, AddTunnelOverride
\* knows the only tunnel that has it, and once that was deleted nothing has it.
AddressesClear ==
  \A s \in Subscriber \ crossed :
    /\ user[s].pc = "found" =>
         \A p \in pdps : p.ms = user[s].ms => p.itei = user[s].found
    /\ user[s].pc \in {"override", "adding"} => \A p \in pdps : p.ms # user[s].ms

OwnersInv == TeidsExclusive /\ AddressesUnique /\ AddressesClear

\* A step from one point of the calls to the next, as seen from each subscriber.
LEMMA StepFacts ==
  ASSUME user \in [Subscriber -> Users], NEW s \in Subscriber, NEW from, NEW to \in Pcs,
         Step(s, from, to)
  PROVE  /\ user[s].pc = from
         /\ \A r \in Subscriber :
              /\ user'[r].teid = user[r].teid
              /\ user'[r].ms = user[r].ms
              /\ user'[r].found = user[r].found
              /\ user'[r].pc = IF r = s THEN to ELSE user[r].pc
BY DEF Step, Users

\* The owners' calls keep the ownership.
LEMMA CallKeepsOwners ==
  ASSUME OwnersType, OwnersType', OwnersInv, NEW s \in Subscriber, Call(s)
  PROVE  OwnersInv'
<1> USE DEF OwnersInv, TeidsExclusive, AddressesUnique, AddressesClear, Holds
<1>0. user \in [Subscriber -> Users]
  BY DEF OwnersType
<1>1. CASE NewFTEID(s)
  <2> PICK t \in TEID \ iteiMap :
        iteiMap' = iteiMap \cup {t} /\ user' = [user EXCEPT ![s] = Reserved(t)]
    BY <1>1 DEF NewFTEID
  <2>1. /\ user'[s].pc = "reserved" /\ user'[s].teid = t
        /\ \A r \in Subscriber \ {s} : user'[r] = user[r]
        /\ user[s].pc \in {"idle", "tunneled"}
        /\ UNCHANGED <<relayMap, pdps, crossed>>
    BY <1>0, <1>1 DEF NewFTEID, Reserved
  <2>2. TeidsExclusive'
    BY <2>1 DEF OwnersType
  <2>3. AddressesUnique' /\ AddressesClear'
    BY <2>1 DEF OwnersType
  <2> QED
    BY <2>2, <2>3
<1>2. CASE \/ RelayTo(s) \/ RelayToRefuses(s) \/ CloseRelay(s) \/ CloseRelayRefuses(s)
           \/ DelTunnel(s) \/ DeletePDPFails(s)
  <2>1. UNCHANGED <<relayMap, iteiMap, pdps, crossed>>
    BY <1>2 DEF RelayTo, RelayToRefuses, CloseRelay, CloseRelayRefuses, DelTunnel,
                DeletePDPFails
  <2>2. PICK from \in Pcs, to \in Pcs :
          /\ Step(s, from, to)
          /\ <<from, to>> \in {<<"reserved", "storing">>, <<"reserved", "idle">>,
                               <<"relayed", "closing">>, <<"relayed", "refused">>,
                               <<"tunneled", "deleting">>, <<"deleting", "tunneled">>}
    BY <1>2 DEF RelayTo, RelayToRefuses, CloseRelay, CloseRelayRefuses, DelTunnel,
                DeletePDPFails, Pcs
  <2>3. /\ user[s].pc = from
        /\ \A r \in Subscriber :
             /\ user'[r].teid = user[r].teid /\ user'[r].ms = user[r].ms
             /\ user'[r].found = user[r].found
             /\ user'[r].pc = IF r = s THEN to ELSE user[r].pc
    BY <1>0, <2>2, StepFacts
  <2> QED
    BY <2>1, <2>2, <2>3 DEF OwnersType
<1>3. CASE StoreRelay(s)
  <2>1. /\ user[s].pc = "storing"
        /\ \A r \in Subscriber :
             /\ user'[r].teid = user[r].teid /\ user'[r].ms = user[r].ms
             /\ user'[r].found = user[r].found
             /\ user'[r].pc = IF r = s THEN "relayed" ELSE user[r].pc
    BY <1>0, <1>3, StepFacts DEF StoreRelay, Pcs
  <2>2. /\ \A t \in TEID :
              relayMap'[t] = IF t = user[s].teid THEN s ELSE relayMap[t]
        /\ UNCHANGED <<iteiMap, pdps, crossed>>
    BY <1>3 DEF StoreRelay, OwnersType
  <2>3. TeidsExclusive'
    <3>1. \A r \in Subscriber : Holds(r)' <=> Holds(r)
      BY <2>1
    <3>2. user[s].teid \in TEID
      BY <2>1 DEF OwnersType, HoldersHaveTEIDs
    <3> QED
      BY <2>1, <2>2, <3>1, <3>2 DEF OwnersType
  <2>4. AddressesUnique' /\ AddressesClear'
    BY <2>1, <2>2
  <2> QED
    BY <2>3, <2>4
<1>4. CASE DeleteRelay(s)
  <2>1. /\ user[s].pc = "closing"
        /\ \A r \in Subscriber :
             /\ user'[r].teid = user[r].teid /\ user'[r].ms = user[r].ms
             /\ user'[r].found = user[r].found
             /\ user'[r].pc = IF r = s THEN "freeing" ELSE user[r].pc
    BY <1>0, <1>4, StepFacts DEF DeleteRelay, Pcs
  <2> QED
    BY <1>4, <2>1 DEF DeleteRelay, OwnersType
<1>5. CASE FreeTEID(s)
  <2>1. /\ user[s].pc = "freeing" /\ user'[s].pc = "idle"
        /\ \A r \in Subscriber \ {s} : user'[r] = user[r]
        /\ UNCHANGED <<relayMap, pdps, crossed>>
        /\ iteiMap' = iteiMap \ {user[s].teid}
    BY <1>0, <1>5 DEF FreeTEID, Idle
  <2>2. \A p \in pdps : p.itei # user[s].teid
    BY <2>1 DEF OwnersType
  <2> QED
    BY <2>1, <2>2 DEF OwnersType
<1>6. CASE OverrideMSAddress(s)
  <2>1. /\ user[s].pc = "found" /\ user'[s].pc = "override"
        /\ user'[s].teid = user[s].teid /\ user'[s].ms = user[s].ms
        /\ \A r \in Subscriber \ {s} : user'[r] = user[r]
        /\ UNCHANGED <<relayMap, iteiMap, crossed>>
        /\ pdps' = {p \in pdps : p.itei # user[s].found}
    BY <1>0, <1>6 DEF OverrideMSAddress, Users
  <2>2. TeidsExclusive'
    BY <2>1 DEF OwnersType
  <2>3. AddressesUnique' /\ AddressesClear'
    BY <2>1 DEF OwnersType
  <2> QED
    BY <2>2, <2>3
<1>7. CASE OverrideITEI(s) \/ DeletePDP(s)
  <2>1. PICK from \in Pcs, to \in Pcs :
          /\ Step(s, from, to)
          /\ <<from, to>> \in {<<"override", "adding">>, <<"deleting", "freeing">>}
          /\ to = "freeing" => pdps' = pdps \ {Tunnel(s)}
    BY <1>7 DEF OverrideITEI, DeletePDP, Pcs
  <2>2. UNCHANGED <<relayMap, iteiMap, crossed>> /\ pdps' \subseteq pdps
    BY <1>7 DEF OverrideITEI, DeletePDP
  <2>3. /\ user[s].pc = from
        /\ \A r \in Subscriber :
             /\ user'[r].teid = user[r].teid /\ user'[r].ms = user[r].ms
             /\ user'[r].found = user[r].found
             /\ user'[r].pc = IF r = s THEN to ELSE user[r].pc
    BY <1>0, <2>1, StepFacts
  <2>4. to = "freeing" => \A p \in pdps' : p.itei # user[s].teid
    BY <2>1, <2>3 DEF OwnersType, Tunnel
  <2>5. TeidsExclusive'
    BY <2>1, <2>2, <2>3, <2>4 DEF OwnersType
  <2>6. AddressesUnique' /\ AddressesClear'
    BY <2>1, <2>2, <2>3 DEF OwnersType
  <2> QED
    BY <2>5, <2>6
<1>8. CASE AddTunnel(s)
  <2>1. /\ user[s].pc = "adding"
        /\ \A r \in Subscriber :
             /\ user'[r].teid = user[r].teid /\ user'[r].ms = user[r].ms
             /\ user'[r].found = user[r].found
             /\ user'[r].pc = IF r = s THEN "tunneled" ELSE user[r].pc
        /\ UNCHANGED <<relayMap, iteiMap>>
    BY <1>0, <1>8, StepFacts DEF AddTunnel, Pcs
  <2> DEFINE new == [itei |-> user[s].teid, ms |-> user[s].ms]
  <2>2. /\ pdps' = pdps \cup {new} /\ crossed' = (crossed \cup Overriding(user[s].ms)) \ {s}
        /\ \A p \in pdps : p.ms # user[s].ms /\ p.itei # user[s].teid
        /\ new.itei = user[s].teid /\ new.ms = user[s].ms
    BY <1>8 DEF AddTunnel, Refused
  <2> HIDE DEF new
  <2>3. TeidsExclusive'
    BY <2>1, <2>2 DEF OwnersType
  <2>4. AddressesUnique'
    BY <2>2
  <2>5. AddressesClear'
    <3> SUFFICES ASSUME NEW r \in Subscriber \ crossed',
                        user'[r].pc \in {"found", "override", "adding"}
                 PROVE  /\ user'[r].pc = "found" =>
                             \A p \in pdps' : p.ms = user'[r].ms => p.itei = user'[r].found
                        /\ user'[r].pc \in {"override", "adding"} =>
                             \A p \in pdps' : p.ms # user'[r].ms
      OBVIOUS
    <3>1. r # s /\ r \notin crossed
      BY <2>1, <2>2
    <3>2. user[s].ms # user[r].ms
      BY <2>1, <2>2, <3>1 DEF Overriding
    <3> QED
      BY <2>1, <2>2, <3>1, <3>2
  <2> QED
    BY <2>3, <2>4, <2>5
<1>9. CASE AddTunnelFails(s)
  <2>1. /\ user[s].pc = "adding" /\ user'[s].pc = "idle"
        /\ \A r \in Subscriber \ {s} : user'[r] = user[r]
        /\ UNCHANGED <<relayMap, iteiMap, pdps>> /\ crossed' = crossed \ {s}
    BY <1>0, <1>9 DEF AddTunnelFails, Idle
  <2> QED
    BY <2>1 DEF OwnersType
<1>10. CASE AddTunnelOverride(s)
  <2>0. PICK a \in MSsOf[s] :
          \E t \in IF {p \in pdps : p.ms = a} = {} THEN {NoTEID}
                   ELSE {p.itei : p \in {q \in pdps : q.ms = a}} :
            user' = [user EXCEPT ![s].pc = "found", ![s].ms = a, ![s].found = t]
    BY <1>10 DEF AddTunnelOverride
  <2>1. PICK t \in IF {p \in pdps : p.ms = a} = {} THEN {NoTEID}
                   ELSE {p.itei : p \in {q \in pdps : q.ms = a}} :
          user' = [user EXCEPT ![s].pc = "found", ![s].ms = a, ![s].found = t]
    BY <2>0
  <2>2. /\ user[s].pc = "reserved" /\ user'[s].pc = "found"
        /\ user'[s].teid = user[s].teid /\ user'[s].ms = a /\ user'[s].found = t
        /\ \A r \in Subscriber \ {s} : user'[r] = user[r]
        /\ UNCHANGED <<relayMap, iteiMap, pdps, crossed>>
    BY <1>0, <1>10, <2>1 DEF AddTunnelOverride, Users
  <2>3. \A p \in pdps : p.ms = a => p.itei = t
    BY <2>1
  <2>4. TeidsExclusive'
    BY <2>2 DEF OwnersType
  <2>5. AddressesUnique' /\ AddressesClear'
    BY <2>2, <2>3 DEF OwnersType
  <2> QED
    BY <2>4, <2>5
<1> QED
  BY <1>1, <1>2, <1>3, <1>4, <1>5, <1>6, <1>7, <1>8, <1>9, <1>10 DEF Call

\* The calls of the connection's owner, and packets, leave TEIDs alone; relays and tunnels
\* they only remove.
LEMMA OthersKeepOwners ==
  ASSUME OwnersType, OwnersInv, UNCHANGED <<user, iteiMap, crossed>>, pdps' \subseteq pdps,
         relayMap' \in {relayMap, [t \in TEID |-> None]}
  PROVE  OwnersInv'
BY DEF OwnersType, OwnersInv, TeidsExclusive, AddressesUnique, AddressesClear, Holds

\* Which of them does what.
LEMMA OperateOwners ==
  ASSUME Operate
  PROVE  /\ UNCHANGED <<user, iteiMap, crossed, packet>>
         /\ \/ UNCHANGED relayMap
            \/ kernel = "clearing" /\ relayMap' = [t \in TEID |-> None]
         /\ pdps' \in {pdps, {}}
<1>1. CASE RemoveRelays \/ CloseSocket
  BY <1>1 DEF RemoveRelays, CloseSocket, modes
<1>2. CASE EnableKernelGTP \/ LookForRelays \/ DisableErrorIndication
  BY <1>2 DEF EnableKernelGTP, LookForRelays, DisableErrorIndication, owners
<1>3. CASE Close \/ ServeLeaves \/ ReadFromGTP \/ ReadReturnsClosed
  BY <1>3 DEF Close, ServeLeaves, ReadFromGTP, ReadReturnsClosed, owners
<1> QED
  BY <1>1, <1>2, <1>3 DEF Operate

\* The owners' calls have nothing to do with the mode or with packets.
LEMMA CallFrame ==
  ASSUME NEW s \in Subscriber, Call(s)
  PROVE  UNCHANGED <<kernel, overlapping, packet>>
BY Zenon DEF Call, NewFTEID, RelayTo, RelayToRefuses, StoreRelay, CloseRelay,
   CloseRelayRefuses, DeleteRelay, FreeTEID, AddTunnelOverride, OverrideMSAddress, OverrideITEI, AddTunnel,
   AddTunnelFails, DelTunnel, DeletePDP, DeletePDPFails, modes

\* Packets change neither what the owners share nor the mode.
LEMMA HandleFrame ==
  ASSUME NEW g \in Packet, Arrive(g) \/ Handle(g), ~Panic(g)
  PROVE  UNCHANGED <<user, relayMap, iteiMap, pdps, crossed, kernel, overlapping>>
<1>1. UNCHANGED <<owners, modes>>
  BY Zenon DEF Arrive, Handle, LookForRelay, DropMalformed, FindPeer, Forward,
     IndicateError, PassToReader, Read, Discard
<1> QED
  BY <1>1 DEF owners, modes

\* Only StoreRelay and DeleteRelay change relays.  The other calls take nobody to "storing"
\* but with RelayTo, and to "closing" from "relayed" only.
LEMMA CallRelays ==
  ASSUME user \in [Subscriber -> Users], NEW s \in Subscriber, Call(s),
         ~StoreRelay(s), ~DeleteRelay(s)
  PROVE  /\ UNCHANGED relayMap
         /\ \A r \in Subscriber :
              /\ user'[r].pc = "storing" => user[r].pc = "storing" \/ RelayTo(s)
              /\ user'[r].pc \in {"relayed", "closing"} =>
                   user[r].pc \in {"relayed", "closing"} /\ user'[r].teid = user[r].teid
<1>1. UNCHANGED relayMap
  BY Zenon DEF Call, NewFTEID, RelayTo, RelayToRefuses, CloseRelay, CloseRelayRefuses,
     FreeTEID, AddTunnelOverride, OverrideMSAddress, OverrideITEI, AddTunnel,
     AddTunnelFails, DelTunnel, DeletePDP, DeletePDPFails
<1>2. CASE NewFTEID(s) \/ FreeTEID(s) \/ AddTunnelFails(s)
  BY <1>1, <1>2 DEF NewFTEID, FreeTEID, AddTunnelFails, Reserved, Idle
<1>3. CASE OverrideMSAddress(s)
  BY <1>1, <1>3 DEF OverrideMSAddress, Users
<1>4. CASE AddTunnelOverride(s)
  <2>1. PICK a, t : user' = [user EXCEPT ![s].pc = "found", ![s].ms = a, ![s].found = t]
    BY <1>4 DEF AddTunnelOverride
  <2> QED
    BY <1>1, <2>1 DEF Users
<1>5. CASE RelayTo(s)
  <2>1. Step(s, "reserved", "storing")
    BY <1>5 DEF RelayTo
  <2> QED
    BY <1>1, <1>5, <2>1, StepFacts DEF Pcs
<1>6. CASE \/ RelayToRefuses(s) \/ CloseRelay(s) \/ CloseRelayRefuses(s)
           \/ OverrideITEI(s) \/ AddTunnel(s) \/ DelTunnel(s) \/ DeletePDP(s)
           \/ DeletePDPFails(s)
  <2>1. PICK from \in Pcs, to \in Pcs \ {"storing", "relayed"} :
          Step(s, from, to) /\ (to = "closing" => from = "relayed")
    BY <1>6 DEF RelayToRefuses, CloseRelay, CloseRelayRefuses, OverrideITEI, AddTunnel,
       DelTunnel, DeletePDP, DeletePDPFails, Pcs
  <2> QED
    BY <1>1, <2>1, StepFacts
<1> QED
  BY <1>2, <1>3, <1>4, <1>5, <1>6 DEF Call

-----------------------------------------------------------------------------

\* The inductive invariant of the takeover: of the two steps of a RelayTo the second one
\* is still to come for the calls that were under way, and for no others.
TakeoverInv ==
  /\ Enabled => \A s \in Subscriber : user[s].pc = "storing" => s \in overlapping
  /\ KernelTakesOver

\* A RelayTo that begins once the kernel is enabled is refused, so every relay stored from
\* then on is of a call that was under way.
LEMMA TakeoverKept ==
  ASSUME TypeParts, TypeParts', OwnersInv, TakeoverInv, [Next]_vars
  PROVE  TakeoverInv'
<1> USE DEF TakeoverInv, KernelTakesOver, Enabled
<1>0. user \in [Subscriber -> Users] /\ relayMap \in [TEID -> Subscriber \cup {None}]
      /\ kernel \in {"off", "enabled", "clearing", "on"} /\ HoldersHaveTEIDs
  BY DEF TypeParts, OwnersType, ModesType
<1>1. ASSUME NEW s \in Subscriber, Call(s)
      PROVE  TakeoverInv'
  <2>0. UNCHANGED <<kernel, overlapping>>
    BY <1>1, CallFrame
  <2>1. CASE RelayTo(s)
    BY <1>0, <2>0, <2>1 DEF RelayTo
  <2>2. CASE StoreRelay(s)
    <3>1. /\ user[s].pc = "storing"
          /\ \A r \in Subscriber :
               /\ user'[r].teid = user[r].teid
               /\ user'[r].pc = IF r = s THEN "relayed" ELSE user[r].pc
      BY <1>0, <2>2, StepFacts DEF StoreRelay, Pcs
    <3> QED
      BY <1>0, <2>0, <2>2, <3>1 DEF StoreRelay
  <2>3. CASE DeleteRelay(s)
    <3>1. \A r \in Subscriber : user'[r].pc = IF r = s THEN "freeing" ELSE user[r].pc
      BY <1>0, <2>3, StepFacts DEF DeleteRelay, Pcs
    <3> QED
      BY <1>0, <2>0, <2>3, <3>1 DEF DeleteRelay
  <2>4. CASE ~RelayTo(s) /\ ~StoreRelay(s) /\ ~DeleteRelay(s)
    <3>1. /\ UNCHANGED relayMap
          /\ \A r \in Subscriber : user'[r].pc = "storing" => user[r].pc = "storing"
      BY <1>0, <1>1, <2>4, CallRelays
    <3> QED
      BY <2>0, <3>1
  <2> QED
    BY <2>1, <2>2, <2>3, <2>4
<1>2. ASSUME Operate
      PROVE  TakeoverInv'
  <2>1. CASE EnableKernelGTP \/ LookForRelays \/ RemoveRelays
    BY <1>0, <2>1 DEF EnableKernelGTP, LookForRelays, RemoveRelays, NoRelays, owners
  <2>2. CASE ~(EnableKernelGTP \/ LookForRelays \/ RemoveRelays)
    <3>1. UNCHANGED <<user, relayMap, kernel, overlapping>>
      BY <1>2, <2>2 DEF Operate, DisableErrorIndication, Close, ServeLeaves, CloseSocket,
         ReadFromGTP, ReadReturnsClosed, owners, modes
    <3> QED
      BY <3>1
  <2> QED
    BY <2>1, <2>2
<1>3. ASSUME NEW g \in Packet, Arrive(g) \/ Handle(g)
      PROVE  TakeoverInv'
  <2>1. CASE Panic(g)
    BY <2>1, PanicLeaves
  <2>2. CASE ~Panic(g)
    <3>1. UNCHANGED <<user, relayMap, kernel, overlapping>>
      BY <1>3, <2>2, HandleFrame
    <3> QED
      BY <3>1
  <2> QED
    BY <2>1, <2>2
<1>4. CASE UNCHANGED vars
  BY <1>4 DEF vars, owners, modes
<1> QED
  BY <1>1, <1>2, <1>3, <1>4 DEF Next

-----------------------------------------------------------------------------

\* Until the kernel is enabled a relay that was set up stands: closing another one does
\* not take it away.
RelaysStand ==
  ~Enabled => \A s \in Subscriber :
    user[s].pc \in {"relayed", "closing"} => relayMap[user[s].teid] = s

\* Each step leaves the relays of the others in place.
LEMMA RelaysStandKept ==
  ASSUME TypeParts, TypeParts', OwnersInv, RelaysStand, [Next]_vars
  PROVE  RelaysStand'
<1> USE DEF RelaysStand, Enabled
<1>0. user \in [Subscriber -> Users] /\ relayMap \in [TEID -> Subscriber \cup {None}]
      /\ kernel \in {"off", "enabled", "clearing", "on"} /\ HoldersHaveTEIDs
  BY DEF TypeParts, OwnersType, ModesType
<1>1. ASSUME NEW s \in Subscriber, Call(s)
      PROVE  RelaysStand'
  <2>0. UNCHANGED kernel
    BY <1>1, CallFrame
  <2>1. CASE StoreRelay(s)
    <3>1. /\ user[s].pc = "storing"
          /\ \A r \in Subscriber :
               /\ user'[r].teid = user[r].teid
               /\ user'[r].pc = IF r = s THEN "relayed" ELSE user[r].pc
      BY <1>0, <2>1, StepFacts DEF StoreRelay, Pcs
    <3> QED
      BY <1>0, <2>0, <2>1, <3>1
         DEF StoreRelay, OwnersInv, TeidsExclusive, HoldersHaveTEIDs, Holds
  <2>2. CASE DeleteRelay(s)
    <3>1. /\ user[s].pc = "closing"
          /\ \A r \in Subscriber :
               /\ user'[r].teid = user[r].teid
               /\ user'[r].pc = IF r = s THEN "freeing" ELSE user[r].pc
      BY <1>0, <2>2, StepFacts DEF DeleteRelay, Pcs
    <3> QED
      BY <1>0, <2>0, <2>2, <3>1
         DEF DeleteRelay, OwnersInv, TeidsExclusive, HoldersHaveTEIDs, Holds
  <2>3. CASE ~StoreRelay(s) /\ ~DeleteRelay(s)
    <3>1. /\ UNCHANGED relayMap
          /\ \A r \in Subscriber :
               user'[r].pc \in {"relayed", "closing"} =>
                 user[r].pc \in {"relayed", "closing"} /\ user'[r].teid = user[r].teid
      BY <1>0, <1>1, <2>3, CallRelays
    <3> QED
      BY <2>0, <3>1
  <2> QED
    BY <2>1, <2>2, <2>3
<1>2. ASSUME Operate
      PROVE  RelaysStand'
  <2>1. UNCHANGED user /\ (UNCHANGED relayMap \/ kernel = "clearing")
    BY <1>2, OperateOwners
  <2>2. kernel' = kernel \/ kernel' \in {"enabled", "clearing", "on"}
    BY <1>2 DEF Operate, EnableKernelGTP, LookForRelays, RemoveRelays,
       DisableErrorIndication, Close, ServeLeaves, CloseSocket, ReadFromGTP,
       ReadReturnsClosed, modes
  <2> QED
    BY <2>1, <2>2
<1>3. ASSUME NEW g \in Packet, Arrive(g) \/ Handle(g)
      PROVE  RelaysStand'
  <2>1. CASE Panic(g)
    BY <2>1, PanicLeaves
  <2>2. CASE ~Panic(g)
    BY <1>3, <2>2, HandleFrame
  <2> QED
    BY <2>1, <2>2
<1>4. CASE UNCHANGED vars
  BY <1>4 DEF vars, owners, modes
<1> QED
  BY <1>1, <1>2, <1>3, <1>4 DEF Next

\* A TEID leads to whom the map has for it ...
PeersLead == \A t \in TEID : relayMap[t] # None => relayMap[t] \in LeadsTo(t)

LEMMA PeerLeads == OwnersType /\ OwnersInv => PeersLead
BY DEF OwnersType, OwnersInv, TeidsExclusive, LeadsTo, PeersLead

\* ... and to nobody if it has nobody.
NobodiesLead == \A t \in TEID : relayMap[t] = None => None \in LeadsTo(t)

LEMMA NobodyLeads == OwnersType /\ RelaysStand => NobodiesLead
BY NoneAssumption DEF OwnersType, RelaysStand, LeadsTo, NobodiesLead

\* The two properties of packets hold together with what is above.
PacketInv == RelayedAsRegistered /\ HandledIfUnknown

\* What the goroutines of packets do, as seen from each of them.
LEMMA PacketSteps ==
  ASSUME PacketType, NEW h \in Packet, Arrive(h) \/ Handle(h), ~Panic(h), NEW g \in Packet
  PROVE  \/ packet'[g] = packet[g]
         \/ packet'[g].pc \in {"done", "arrived", "finding"}
         \/ /\ packet[g].pc = "handling" /\ packet'[g].pc = "waiting"
         \/ /\ packet[g].pc \in {"arrived", "finding"}
            /\ packet'[g].teid = packet[g].teid
            /\ \/ /\ packet'[g].pc = "forwarding"
                  /\ packet'[g].peer = relayMap[packet[g].teid]
                  /\ packet'[g].peer # None
               \/ /\ packet'[g].pc = "handling"
                  /\ relayMap[packet[g].teid] = None
<1>0. packet \in [Packet -> Packets] /\ packet[h] \in Packets
  BY DEF PacketType
<1>1. CASE Arrive(h)
  BY <1>0, <1>1 DEF Arrive
<1>2. CASE FindPeer(h)
  BY <1>0, <1>2 DEF FindPeer, Packets
<1>3. CASE LookForRelay(h)
  BY <1>0, <1>3 DEF LookForRelay, Go, NoRelays, Packets, PacketType
<1>4. CASE DropMalformed(h) \/ Forward(h) \/ IndicateError(h) \/ Read(h) \/ Discard(h)
  BY <1>0, <1>4 DEF DropMalformed, Forward, IndicateError, Read, Discard, Return, NoPacket,
                    Packets
<1>5. CASE PassToReader(h)
  BY <1>0, <1>5 DEF PassToReader, Go, Packets
<1> QED
  BY <1>1, <1>2, <1>3, <1>4, <1>5 DEF Handle

\* Every step keeps what was seen of a packet under way, and adds where its TEID leads now.
LEMMA PacketKept ==
  ASSUME TypeParts, TypeParts', OwnersInv', RelaysStand', PacketInv, [Next]_vars
  PROVE  PacketInv'
<1> SUFFICES ASSUME NEW g \in Packet,
                    packet'[g].pc \in {"forwarding", "handling", "waiting"}
             PROVE  /\ packet'[g].pc = "forwarding" => packet'[g].peer \in seen'[g]
                    /\ packet'[g].pc # "forwarding" => None \in seen'[g]
  BY DEF PacketInv, RelayedAsRegistered, HandledIfUnknown
<1>1. CASE UNCHANGED vars
  BY <1>1 DEF vars, PacketInv, RelayedAsRegistered, HandledIfUnknown
<1>2. CASE Next
  <2>1. Observe
    BY <1>2 DEF Next
  <2>2. seen'[g] = seen[g] \cup LeadsTo(packet[g].teid)'
    BY <2>1 DEF Observe
  <2>3. CASE packet'[g] = packet[g]
    BY <2>2, <2>3 DEF PacketInv, RelayedAsRegistered, HandledIfUnknown
  <2>4. CASE packet'[g] # packet[g]
    <3>1. PICK h \in Packet : Arrive(h) \/ Handle(h)
      BY <1>2, <2>4, CallFrame, OperateOwners DEF Next
    <3>0. ~Panic(h)
      BY PanicLeaves
    <3>2. UNCHANGED relayMap
      BY <3>0, <3>1, HandleFrame
    <3>3. CASE packet[g].pc = "handling"
      BY <3>0, <2>2, <3>1, <3>3, <2>4, PacketSteps
         DEF TypeParts, PacketInv, RelayedAsRegistered, HandledIfUnknown
    <3>4. CASE packet[g].pc # "handling"
      <4>1. /\ packet'[g].teid = packet[g].teid
            /\ \/ packet'[g].pc = "forwarding" /\ packet'[g].peer = relayMap[packet[g].teid]
                  /\ relayMap[packet[g].teid] # None
               \/ packet'[g].pc = "handling" /\ relayMap[packet[g].teid] = None
        BY <3>0, <3>1, <3>4, <2>4, PacketSteps DEF TypeParts
      <4>2. packet'[g].teid \in TEID
        BY DEF TypeParts, PacketType
      <4> DEFINE t == packet'[g].teid
      <4>3. relayMap'[t] # None => relayMap'[t] \in seen'[g]
        <5>1. PeersLead'
          BY PeerLeads, PTL DEF TypeParts
        <5> QED
          BY <2>2, <4>1, <4>2, <5>1 DEF PeersLead
      <4>4. relayMap'[t] = None => None \in seen'[g]
        <5>1. NobodiesLead'
          BY NobodyLeads, PTL DEF TypeParts
        <5> QED
          BY <2>2, <4>1, <4>2, <5>1 DEF NobodiesLead
      <4> QED
        BY <4>1, <4>3, <4>4, <3>2
    <3> QED
      BY <3>3, <3>4
  <2> QED
    BY <2>3, <2>4
<1> QED
  BY <1>1, <1>2

-----------------------------------------------------------------------------

\* The inductive invariant of everything above.
IInv == TypeParts /\ OwnersInv /\ TakeoverInv /\ RelaysStand /\ PacketInv

\* A new connection has no relays, no tunnels and no packets.
LEMMA InitInv == Init => IInv
<1> SUFFICES ASSUME Init PROVE IInv
  OBVIOUS
<1>1. TypeParts
  BY InitType
<1>2. OwnersInv
  BY DEF Init, OwnersInv, TeidsExclusive, AddressesUnique, AddressesClear, Holds, Idle
<1>3. TakeoverInv /\ RelaysStand
  BY DEF Init, TakeoverInv, KernelTakesOver, RelaysStand, Enabled, Idle
<1>4. PacketInv
  BY DEF Init, PacketInv, RelayedAsRegistered, HandledIfUnknown, NoPacket
<1> QED
  BY <1>1, <1>2, <1>3, <1>4 DEF IInv

\* Every step keeps each part, with the help of the parts before it.
LEMMA NextInv == IInv /\ [Next]_vars => IInv'
<1> SUFFICES ASSUME IInv, [Next]_vars PROVE IInv'
  OBVIOUS
<1>1. TypeParts'
  BY NextType DEF IInv
<1>2. OwnersInv'
  <2>1. ASSUME NEW s \in Subscriber, Call(s)
        PROVE  OwnersInv'
    BY <1>1, <2>1, CallKeepsOwners DEF IInv, TypeParts
  <2>2. CASE Operate
    BY <2>2, OperateOwners, OthersKeepOwners DEF IInv, TypeParts
  <2>3. ASSUME NEW g \in Packet, Arrive(g) \/ Handle(g)
        PROVE  OwnersInv'
    <3>1. CASE Panic(g)
      BY <3>1, PanicLeaves
         DEF OwnersInv, TeidsExclusive, AddressesUnique, AddressesClear, Holds
    <3>2. CASE ~Panic(g)
      BY <2>3, <3>2, HandleFrame, OthersKeepOwners DEF IInv, TypeParts
    <3> QED
      BY <3>1, <3>2
  <2>4. CASE UNCHANGED vars
    BY <2>4, OthersKeepOwners DEF IInv, TypeParts, vars, owners
  <2> QED
    BY <2>1, <2>2, <2>3, <2>4 DEF Next
<1>3. TakeoverInv' /\ RelaysStand'
  BY <1>1, TakeoverKept, RelaysStandKept DEF IInv
<1>4. PacketInv'
  BY <1>1, <1>2, <1>3, PacketKept DEF IInv
<1> QED
  BY <1>1, <1>2, <1>3, <1>4 DEF IInv

\* The invariant holds of every behaviour, whatever fairness it has.
THEOREM Invariant == Spec => []IInv
BY InitInv, NextInv, PTL DEF Spec

\* A relay, a tunnel and a TEID belong to one subscriber, in whatever order subscribers
\* draw, relay, close, override and delete (NewFTEID, RelayTo, CloseRelay, tunnels).
THEOREM TeidsCorrect == Spec => []TeidsExclusive
<1>1. IInv => TeidsExclusive
  BY DEF IInv, OwnersInv
<1> QED
  BY <1>1, Invariant, PTL

\* AddTunnelOverride finds the address and the TEID free when it adds the tunnel, as long
\* as the device is there and nobody else has added one of this address since it looked:
\* two calls for one MS can refuse each other, and no other call can (AddTunnelOverride
\* against the calls of other subscribers).
THEOREM OverrideCorrect == Spec => []OverrideSucceeds
<1>1. ASSUME IInv PROVE OverrideSucceeds
  <2> SUFFICES ASSUME NEW s \in Subscriber, user[s].pc = "adding", s \notin crossed
               PROVE  \A p \in pdps : p.ms # user[s].ms /\ p.itei # user[s].teid
    BY DEF OverrideSucceeds, Refused
  <2>1. \A p \in pdps : p.ms # user[s].ms
    BY <1>1 DEF IInv, OwnersInv, AddressesClear
  <2>2. \A p \in pdps : p.itei # user[s].teid
    BY <1>1 DEF IInv, OwnersInv, TeidsExclusive, Holds
  <2> QED
    BY <2>1, <2>2
<1> QED
  BY <1>1, Invariant, PTL

\* Nothing is relayed in userland after EnableKernelGTP but for the RelayTo calls that were
\* under way (RelayTo, EnableKernelGTP).
THEOREM TakeoverCorrect == Spec => []KernelTakesOver
<1>1. IInv => KernelTakesOver
  BY DEF IInv, TakeoverInv
<1> QED
  BY <1>1, Invariant, PTL

\* A packet is forwarded only to a peer that its TEID was registered for while it was
\* handled (serve, RelayTo, CloseRelay, NewFTEID).
THEOREM RelayCorrect == Spec => []RelayedAsRegistered
<1>1. IInv => RelayedAsRegistered
  BY DEF IInv, PacketInv
<1> QED
  BY <1>1, Invariant, PTL

\* A packet is not taken for an unknown one while a relay for it stands, although serve
\* looks at the map twice (serve, EnableKernelGTP).
THEOREM UnknownCorrect == Spec => []HandledIfUnknown
<1>1. IInv => HandledIfUnknown
  BY DEF IInv, PacketInv
<1> QED
  BY <1>1, Invariant, PTL

=============================================================================
