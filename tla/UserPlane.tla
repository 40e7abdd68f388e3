------------------------------ MODULE UserPlane ------------------------------
(***************************************************************************)
(* gtpv1.UPlaneConn as the owner of a connection uses it: TEIDs are drawn     *)
(* (NewFTEID), T-PDUs are relayed to a peer (RelayTo, CloseRelay) or, once    *)
(* EnableKernelGTP was called, tunnels are given to the kernel.  Meanwhile    *)
(* serve starts a goroutine for every packet that comes in.                   *)
(*                                                                          *)
(* A Subscriber is whoever holds a TEID: the handler that draws it and calls  *)
(* the functions one after the other.  Several may have the same MS, as when  *)
(* an MS attaches again while its first request is still handled.  A relay    *)
(* leads to the subscriber's peer, so relayMap maps a TEID to the subscriber  *)
(* who called RelayTo.  relayMap is read and written under u.mu but for       *)
(* len(u.relayMap), and KernelGTP.enabled is never protected: every access is *)
(* a step of its own, and so is every request to the kernel.                  *)
(***************************************************************************)
EXTENDS Naturals, FiniteSets

CONSTANTS
  Subscriber,  \* the owners of TEIDs
  MS,          \* the addresses of the MSs
  MSsOf,       \* [Subscriber -> SUBSET MS], whose requests come to a subscriber
  TEID,        \* the TEIDs that can be drawn
  Packet,      \* bound: the goroutines of packets in progress
  None         \* no peer

ASSUME NoneAssumption == None \notin Subscriber \cup MS
ASSUME MSsAssumption == MSsOf \in [Subscriber -> SUBSET MS]
ASSUME TEIDAssumption == TEID \subseteq Nat \ {0}

VARIABLES
  user,           \* [Subscriber -> [pc, teid, ms, found]], found for AddTunnelOverride
  kernel,         \* EnableKernelGTP: "off", "enabled", "clearing", "on"
  relayMap,       \* [TEID -> Subscriber \cup {None}]
  iteiMap,        \* the TEIDs that are taken
  pdps,           \* the kernel's tunnels, [itei, ms]
  errIndEnabled,
  closed,         \* closeCh is closed
  serving,        \* "yes", "leaving" (pktConn is still open), "no"
  reading,        \* the application waits in ReadFromGTP
  crashed,        \* a goroutine panicked, and the process ended
  packet,         \* [Packet -> [pc, teid, peer]]
  seen,           \* history: what the packet's TEID led to since it came in
  overlapping,    \* history: whose RelayTo was under way when the kernel was enabled
  crossed         \* history: whose AddTunnelOverride has met another one of its address

owners == <<user, relayMap, iteiMap, pdps, crossed>>
modes == <<kernel, errIndEnabled, overlapping>>
life == <<closed, serving, reading, crashed>>
vars == <<owners, modes, life, packet, seen>>

Enabled == kernel \in {"enabled", "clearing", "on"}

NoTEID == 0
Idle == [pc |-> "idle", teid |-> NoTEID, ms |-> None, found |-> NoTEID]
Reserved(t) == [pc |-> "reserved", teid |-> t, ms |-> None, found |-> NoTEID]
NoPacket == [pc |-> "done", teid |-> NoTEID, peer |-> None]

Init ==
  /\ user = [s \in Subscriber |-> Idle]
  /\ kernel = "off"
  /\ relayMap = [t \in TEID |-> None]
  /\ iteiMap = {} /\ pdps = {}
  /\ errIndEnabled = TRUE
  /\ closed = FALSE /\ serving = "yes" /\ reading = FALSE
  /\ packet = [g \in Packet |-> NoPacket]
  /\ crashed = FALSE
  /\ seen = [g \in Packet |-> {}]
  /\ overlapping = {} /\ crossed = {}

-----------------------------------------------------------------------------

\* The owners' calls.  Subscriber s goes from one point to the next.
Step(s, from, to) == user[s].pc = from /\ user' = [user EXCEPT ![s].pc = to]

\* NewFTEID: LoadOrStore of one random value after the other until one is free.  A
\* subscriber whose tunnel is in the kernel can come back with a new TEID.
\* Mutant: the value is stored whether it is free or not.
NewFTEIDStore(s) ==
  /\ user[s].pc \in {"idle", "tunneled"}
  /\ \E t \in TEID :
       /\ iteiMap' = iteiMap \cup {t}
       /\ user' = [user EXCEPT ![s] = Reserved(t)]
  /\ UNCHANGED <<relayMap, pdps, crossed, modes, life, packet>>

NewFTEID(s) ==
  /\ user[s].pc \in {"idle", "tunneled"}
  /\ \E t \in TEID \ iteiMap :
       /\ iteiMap' = iteiMap \cup {t}
       /\ user' = [user EXCEPT ![s] = Reserved(t)]
  /\ UNCHANGED <<relayMap, pdps, crossed, modes, life, packet>>

\* RelayTo refuses when the kernel is enabled: the TEID stays taken.
RelayTo(s) ==
  /\ ~Enabled
  /\ Step(s, "reserved", "storing")
  /\ UNCHANGED <<relayMap, iteiMap, pdps, crossed, modes, life, packet>>

RelayToRefuses(s) ==
  /\ Enabled
  /\ Step(s, "reserved", "idle")
  /\ UNCHANGED <<relayMap, iteiMap, pdps, crossed, modes, life, packet>>

StoreRelay(s) ==
  /\ Step(s, "storing", "relayed")
  /\ relayMap' = [relayMap EXCEPT ![user[s].teid] = s]
  /\ UNCHANGED <<iteiMap, pdps, crossed, modes, life, packet>>

\* CloseRelay refuses when the kernel is enabled: the relay, if there is one, stays.
CloseRelay(s) ==
  /\ ~Enabled
  /\ Step(s, "relayed", "closing")
  /\ UNCHANGED <<relayMap, iteiMap, pdps, crossed, modes, life, packet>>

CloseRelayRefuses(s) ==
  /\ Enabled
  /\ Step(s, "relayed", "refused")
  /\ UNCHANGED <<relayMap, iteiMap, pdps, crossed, modes, life, packet>>

\* Mutant: the TEID is given back and the relay is left.
DeleteRelayNot(s) ==
  /\ Step(s, "closing", "freeing")
  /\ UNCHANGED <<relayMap, iteiMap, pdps, crossed, modes, life, packet>>

DeleteRelay(s) ==
  /\ Step(s, "closing", "freeing")
  /\ relayMap' = [relayMap EXCEPT ![user[s].teid] = None]
  /\ UNCHANGED <<iteiMap, pdps, crossed, modes, life, packet>>

\* iteiMap.delete, at the end of CloseRelay and of DelTunnelBy...
FreeTEID(s) ==
  /\ user[s].pc = "freeing"
  /\ user' = [user EXCEPT ![s] = Idle]
  /\ iteiMap' = iteiMap \ {user[s].teid}
  /\ UNCHANGED <<relayMap, pdps, crossed, modes, life, packet>>

\* AddTunnelOverride: the tunnel that has the MS's address is looked up and deleted, by
\* its TEID, then the one that has the TEID, then the tunnel is added.
AddTunnelOverride(s) ==
  /\ Enabled
  /\ user[s].pc = "reserved"
  /\ \E a \in MSsOf[s] :
       LET theirs == {p \in pdps : p.ms = a} IN
       \E t \in IF theirs = {} THEN {NoTEID} ELSE {p.itei : p \in theirs} :
         user' = [user EXCEPT ![s].pc = "found", ![s].ms = a, ![s].found = t]
  /\ UNCHANGED <<relayMap, iteiMap, pdps, crossed, modes, life, packet>>

\* Mutant: the MS's other tunnel is left.
OverrideMSAddressNot(s) ==
  /\ user[s].pc = "found"
  /\ user' = [user EXCEPT ![s].pc = "override", ![s].found = NoTEID]
  /\ UNCHANGED <<relayMap, iteiMap, pdps, crossed, modes, life, packet>>

OverrideMSAddress(s) ==
  /\ user[s].pc = "found"
  /\ user' = [user EXCEPT ![s].pc = "override", ![s].found = NoTEID]
  /\ pdps' = {p \in pdps : p.itei # user[s].found}
  /\ UNCHANGED <<relayMap, iteiMap, crossed, modes, life, packet>>

\* Nobody else gives the kernel a tunnel with this TEID, so looking it up and deleting it
\* are one step.
OverrideITEI(s) ==
  /\ Step(s, "override", "adding")
  /\ pdps' = {p \in pdps : p.itei # user[s].teid}
  /\ UNCHANGED <<relayMap, iteiMap, crossed, modes, life, packet>>

\* The kernel refuses a tunnel of an address or a TEID that has one, and any when the
\* device was deleted.
Refused(s) ==
  serving = "no" \/ \E p \in pdps : p.ms = user[s].ms \/ p.itei = user[s].teid

\* Those who are in AddTunnelOverride for the address meanwhile may find it taken.
Overriding(a) == {r \in Subscriber : user[r].pc \in {"found", "override", "adding"} /\ user[r].ms = a}

AddTunnel(s) ==
  /\ ~Refused(s)
  /\ Step(s, "adding", "tunneled")
  /\ pdps' = pdps \cup {[itei |-> user[s].teid, ms |-> user[s].ms]}
  /\ crossed' = (crossed \cup Overriding(user[s].ms)) \ {s}
  /\ UNCHANGED <<relayMap, iteiMap, modes, life, packet>>

\* The TEID stays taken.
AddTunnelFails(s) ==
  /\ Refused(s) /\ user[s].pc = "adding"
  /\ user' = [user EXCEPT ![s] = Idle]
  /\ crossed' = crossed \ {s}
  /\ UNCHANGED <<relayMap, iteiMap, pdps, modes, life, packet>>

\* DelTunnelByITEI: the tunnel is looked up, then deleted; when it is no longer there an
\* error is returned and nothing is given back.
Tunnel(s) == [itei |-> user[s].teid, ms |-> user[s].ms]

\* Mutant: the TEID is given back first.
DelTunnelFrees(s) ==
  /\ Tunnel(s) \in pdps
  /\ Step(s, "tunneled", "deleting")
  /\ iteiMap' = iteiMap \ {user[s].teid}
  /\ UNCHANGED <<relayMap, pdps, crossed, modes, life, packet>>

DelTunnel(s) ==
  /\ Tunnel(s) \in pdps
  /\ Step(s, "tunneled", "deleting")
  /\ UNCHANGED <<relayMap, iteiMap, pdps, crossed, modes, life, packet>>

DeletePDP(s) ==
  /\ Tunnel(s) \in pdps
  /\ Step(s, "deleting", "freeing")
  /\ pdps' = pdps \ {Tunnel(s)}
  /\ UNCHANGED <<relayMap, iteiMap, crossed, modes, life, packet>>

DeletePDPFails(s) ==
  /\ Tunnel(s) \notin pdps
  /\ Step(s, "deleting", "tunneled")
  /\ UNCHANGED <<relayMap, iteiMap, pdps, crossed, modes, life, packet>>

-----------------------------------------------------------------------------

\* EnableKernelGTP, which the owner calls once: the flag is set, then a map that is
\* not empty is replaced, under the lock that was not held while looking.
EnableKernelGTP ==
  /\ kernel = "off" /\ ~closed
  /\ kernel' = "enabled"
  /\ overlapping' = {s \in Subscriber : user[s].pc = "storing"}
  /\ UNCHANGED <<owners, errIndEnabled, life, packet>>

NoRelays == \A t \in TEID : relayMap[t] = None

LookForRelays ==
  /\ kernel = "enabled"
  /\ kernel' = IF NoRelays THEN "on" ELSE "clearing"
  /\ UNCHANGED <<owners, errIndEnabled, overlapping, life, packet>>

\* Mutant: the relays are left.
RemoveRelaysNot ==
  /\ kernel = "clearing"
  /\ kernel' = "on"
  /\ UNCHANGED <<owners, errIndEnabled, overlapping, life, packet>>

RemoveRelays ==
  /\ kernel = "clearing"
  /\ kernel' = "on"
  /\ relayMap' = [t \in TEID |-> None]
  /\ UNCHANGED <<user, iteiMap, pdps, crossed, errIndEnabled, overlapping, life, packet>>

DisableErrorIndication ==
  /\ errIndEnabled
  /\ errIndEnabled' = FALSE
  /\ UNCHANGED <<owners, kernel, overlapping, life, packet>>

\* Close, which the owner calls once.
Close ==
  /\ ~closed
  /\ closed' = TRUE
  /\ UNCHANGED <<owners, modes, serving, reading, crashed, packet>>

\* serve leaves its loop when it sees that; the other goroutine closes the socket and
\* deletes the kernel's device, and its tunnels with it.
ServeLeaves ==
  /\ closed /\ serving = "yes"
  /\ serving' = "leaving"
  /\ UNCHANGED <<owners, modes, closed, reading, crashed, packet>>

CloseSocket ==
  /\ closed /\ serving # "no"
  /\ serving' = "no"
  /\ pdps' = {}
  /\ UNCHANGED <<user, relayMap, iteiMap, crossed, modes, closed, reading, crashed, packet>>

ReadFromGTP ==
  /\ ~reading /\ ~closed
  /\ reading' = TRUE
  /\ UNCHANGED <<owners, modes, closed, serving, crashed, packet>>

ReadReturnsClosed ==
  /\ reading /\ closed
  /\ reading' = FALSE
  /\ UNCHANGED <<owners, modes, closed, serving, crashed, packet>>

-----------------------------------------------------------------------------

\* The goroutine of a packet.
Go(g, from, to) == packet[g].pc = from /\ packet' = [packet EXCEPT ![g].pc = to]
Return(g, from) == packet[g].pc = from /\ packet' = [packet EXCEPT ![g] = NoPacket]

\* serve read a T-PDU that the kernel does not take itself.
Arrive(g) ==
  /\ serving = "yes" /\ packet[g].pc = "done"
  /\ \E t \in TEID :
       /\ \A p \in pdps : p.itei # t
       /\ packet' = [packet EXCEPT ![g] = [pc |-> "arrived", teid |-> t, peer |-> None]]
  /\ UNCHANGED <<owners, modes, life>>

\* len(u.relayMap) # 0, without the lock.
LookForRelay(g) ==
  /\ Go(g, "arrived", IF NoRelays THEN "handling" ELSE "finding")
  /\ UNCHANGED <<owners, modes, life>>

\* The type is read from the second octet, here for a relay and in message.Parse
\* otherwise, and nobody checks that there is one; nor does the header reader check for
\* the twelfth octet of a header with a sequence number (Headers).  The panic is not
\* recovered: the process and its memory are gone, and nothing is followed any further.
Panic(g) ==
  /\ packet[g].pc \in {"arrived", "handling"}
  /\ crashed' = TRUE
  /\ user' = [s \in Subscriber |-> Idle] /\ relayMap' = [t \in TEID |-> None]
  /\ iteiMap' = {} /\ pdps' = {} /\ crossed' = {}
  /\ packet' = [f \in Packet |-> NoPacket]
  /\ UNCHANGED <<modes, closed, serving, reading>>

\* Too short for a T-PDU, or not to be parsed.
DropMalformed(g) ==
  /\ Return(g, "finding") \/ Return(g, "handling")
  /\ UNCHANGED <<owners, modes, life>>

\* Mutant: what the map returned is used although it has no such key.
FindPeerUnchecked(g) ==
  /\ packet[g].pc = "finding"
  /\ packet' = [packet EXCEPT ![g].pc = "forwarding", ![g].peer = relayMap[packet[g].teid]]
  /\ UNCHANGED <<owners, modes, life>>

FindPeer(g) ==
  /\ packet[g].pc = "finding"
  /\ LET peer == relayMap[packet[g].teid] IN
     packet' = [packet EXCEPT ![g].pc = IF peer = None THEN "handling" ELSE "forwarding",
                              ![g].peer = peer]
  /\ UNCHANGED <<owners, modes, life>>

\* WriteTo on the peer's connection; an error is logged.
Forward(g) ==
  /\ Return(g, "forwarding")
  /\ UNCHANGED <<owners, modes, life>>

\* handleTPDU.
IndicateError(g) ==
  /\ errIndEnabled
  /\ Return(g, "handling")
  /\ UNCHANGED <<owners, modes, life>>

PassToReader(g) ==
  /\ ~errIndEnabled
  /\ Go(g, "handling", "waiting")
  /\ UNCHANGED <<owners, modes, life>>

Read(g) ==
  /\ reading
  /\ Return(g, "waiting")
  /\ reading' = FALSE
  /\ UNCHANGED <<owners, modes, closed, serving, crashed>>

\* Mutant: the goroutine waits for a reader and for nothing else.
DiscardNever(g) ==
  /\ FALSE
  /\ Return(g, "waiting")
  /\ UNCHANGED <<owners, modes, life>>

\* Nobody read it within three seconds.
Discard(g) ==
  /\ Return(g, "waiting")
  /\ UNCHANGED <<owners, modes, life>>

-----------------------------------------------------------------------------

Call(s) ==
  \/ NewFTEID(s) \/ RelayTo(s) \/ RelayToRefuses(s) \/ StoreRelay(s)
  \/ CloseRelay(s) \/ CloseRelayRefuses(s) \/ DeleteRelay(s) \/ FreeTEID(s)
  \/ AddTunnelOverride(s) \/ OverrideMSAddress(s) \/ OverrideITEI(s)
  \/ AddTunnel(s) \/ AddTunnelFails(s) \/ DelTunnel(s) \/ DeletePDP(s) \/ DeletePDPFails(s)

Operate ==
  \/ EnableKernelGTP \/ LookForRelays \/ RemoveRelays \/ DisableErrorIndication
  \/ Close \/ ServeLeaves \/ CloseSocket \/ ReadFromGTP \/ ReadReturnsClosed

Handle(g) ==
  \/ LookForRelay(g) \/ Panic(g) \/ DropMalformed(g) \/ FindPeer(g) \/ Forward(g)
  \/ IndicateError(g) \/ PassToReader(g) \/ Read(g) \/ Discard(g)

\* To whom a TEID leads as far as callers can tell: to those whose RelayTo has begun
\* and whose CloseRelay has not returned, and to nobody unless a RelayTo has returned
\* and neither CloseRelay nor EnableKernelGTP has begun.
LeadsTo(t) ==
  {s \in Subscriber : /\ user[s].teid = t
                      /\ user[s].pc \in {"storing", "relayed", "closing", "freeing", "refused"}}
  \cup {x \in {None} : Enabled \/ \A s \in Subscriber : user[s].pc # "relayed" \/ user[s].teid # t}

Observe ==
  seen' = [g \in Packet |->
    CASE packet'[g].pc = "done" -> {}
      [] packet'[g].pc = "arrived" /\ packet[g].pc = "done" -> LeadsTo(packet[g].teid)'
      [] OTHER -> seen[g] \cup LeadsTo(packet[g].teid)']

Next ==
  /\ ~crashed
  /\ \/ \E s \in Subscriber : Call(s)
     \/ Operate
     \/ \E g \in Packet : Arrive(g) \/ Handle(g)
  /\ Observe

\* Goroutines run on, and the three seconds pass.
Spec == Init /\ [][Next]_vars /\ \A g \in Packet : WF_vars(~crashed /\ Handle(g) /\ Observe)

-----------------------------------------------------------------------------

TypeOK ==
  /\ user \in [Subscriber -> [pc : {"idle", "reserved", "storing", "relayed", "closing",
                                   "freeing", "refused", "found", "override", "adding",
                                   "tunneled", "deleting"},
                              teid : TEID \cup {NoTEID}, ms : MS \cup {None},
                              found : TEID \cup {NoTEID}]]
  /\ kernel \in {"off", "enabled", "clearing", "on"}
  /\ relayMap \in [TEID -> Subscriber \cup {None}]
  /\ iteiMap \subseteq TEID
  /\ pdps \subseteq [itei : TEID, ms : MS]
  /\ {errIndEnabled, closed, reading, crashed} \subseteq BOOLEAN
  /\ serving \in {"yes", "leaving", "no"}
  /\ packet \in [Packet -> [pc : {"done", "arrived", "finding", "forwarding", "handling",
                                 "waiting"},
                            teid : TEID \cup {NoTEID}, peer : Subscriber \cup {None}]]
  /\ \A g \in Packet : packet[g].pc = "forwarding" => packet[g].peer # None
  /\ seen \in [Packet -> SUBSET (Subscriber \cup {None})]
  /\ overlapping \subseteq Subscriber /\ crossed \subseteq Subscriber

\* A T-PDU is relayed only to a peer that RelayTo had, at some moment since the packet
\* came in, been asked to relay its TEID to: not to one whose relay was closed before,
\* although TEIDs are drawn again (CloseRelay against FindPeer).
RelayedAsRegistered ==
  \A g \in Packet : packet[g].pc = "forwarding" => packet[g].peer \in seen[g]

\* It is answered with an Error Indication or passed to the reader only if its TEID
\* led nowhere at some such moment: a relay that stands is never missed, although
\* serve looks at the map twice and only once under the lock.
HandledIfUnknown ==
  \A g \in Packet : packet[g].pc \in {"handling", "waiting"} => None \in seen[g]

\* A relay or a tunnel belongs to the subscriber who holds its TEID; a TEID in use is
\* taken, and two subscribers never use the same one, in whatever order they draw, close,
\* override and delete.
Holds(s) == user[s].pc # "idle"
TeidsExclusive ==
  /\ \A s \in Subscriber : Holds(s) => user[s].teid \in iteiMap
  /\ \A r, s \in Subscriber : r # s /\ Holds(r) /\ Holds(s) => user[r].teid # user[s].teid
  /\ \A t \in TEID : relayMap[t] # None =>
       user[relayMap[t]].teid = t /\ user[relayMap[t]].pc \in {"relayed", "closing", "refused"}
  /\ \A p \in pdps : p.itei \in iteiMap
       /\ \A s \in Subscriber : Holds(s) /\ user[s].teid = p.itei =>
            user[s].pc \in {"tunneled", "deleting"} /\ user[s].ms = p.ms

\* After EnableKernelGTP has returned nothing is relayed in userland, except for a
\* RelayTo that was under way when it was called: that one is left for good.
KernelTakesOver ==
  kernel = "on" => \A t \in TEID : relayMap[t] \in overlapping \cup {None}

\* AddTunnelOverride is refused only if the device is gone, or if another call for the
\* same address added its tunnel after this one had looked for one: whatever has the
\* address when the call begins is out of the way, and the TEID is free.
OverrideSucceeds ==
  \A s \in Subscriber :
    user[s].pc = "adding" /\ serving # "no" /\ Refused(s) => s \in crossed

\* A packet's goroutine always ends, also when nobody reads and when the connection is
\* closed meanwhile, unless the process ends before.
PacketsEnd == \A g \in Packet : packet[g].pc # "done" ~> packet[g].pc = "done" \/ crashed

=============================================================================
