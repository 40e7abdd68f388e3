----------------------------- MODULE MessageCodec -----------------------------
(***************************************************************************)
(* A message on its way through NewX, Marshal and Parse: an application      *)
(* builds it of any IEs, in any order, or a peer sends any IEs; it is         *)
(* marshalled and parsed again, as it is by the S-GW, which parses messages   *)
(* of one interface and marshals them for the other.  Marshalling may fail    *)
(* when the message still has the octets that it was parsed from, or that     *)
(* were made of it before.                                                   *)
(*                                                                         *)
(* The IEs are those that the ie package frames: the types it knows, and for  *)
(* an unknown one those with a length.  Where it takes an IE without a length *)
(* and of an unknown type to end is part of Headers.                          *)
(***************************************************************************)
EXTENDS MessageTable, FiniteSets

CONSTANTS
  Message,          \* the messages that are considered
  NewSwitch,        \* [Message -> switches], the switch of NewX
  UnmarshalSwitch,  \* [Message -> switches], the switch of UnmarshalBinary
  MarshalToOrder,   \* [Message -> orders]
  MarshalLenOrder,  \* [Message -> orders]
  MaxIEs,           \* bound: IEs of a message
  MaxAlike,         \* bound: IEs of a message when all are of one type
  MaxMarshals       \* bound: how often a message is marshalled

\* What NewX makes of these two is not what UnmarshalBinary makes of it: NewContextResponse
\* knows an IE that MarshalTo does not write, and UnmarshalBinary of Create Bearer Response
\* drops IEs that NewX adds to the AdditionalIEs.
Incomplete == {<<2, "ContextResponse">>, <<2, "CreateBearerResponse">>}

\* The messages whose MarshalTo does not set Header.Payload to nil before it makes the
\* new one of MarshalLen() - Header.MarshalLen() octets, and the latter counts the old one.
KeepsPayload ==
  {<<1, m>> : m \in {"CreatePDPContextRequest", "CreatePDPContextResponse",
                     "UpdatePDPContextRequest", "UpdatePDPContextResponse",
                     "DeletePDPContextRequest", "DeletePDPContextResponse",
                     "ErrorIndication", "VersionNotSupported"}}
  \cup {<<0, "DeletePDPContextResponse">>}

ASSUME TableAssumption ==
  \A m \in Message :
    /\ IsSwitch(NewSwitch[m]) /\ IsSwitch(UnmarshalSwitch[m])
    /\ SlotsOf(UnmarshalSwitch[m]) \subseteq SlotsOf(NewSwitch[m])
    /\ Writes(MarshalToOrder[m], UnmarshalSwitch[m])
    /\ InOrderOfUse(MarshalToOrder[m], UnmarshalSwitch[m])
    /\ NeverTaken(UnmarshalSwitch[m])
    /\ m \notin Incomplete => Agrees(NewSwitch[m], UnmarshalSwitch[m])

VARIABLES
  message,   \* the kind of message
  ies,       \* the IEs it was made of
  origin,    \* who made it: "ours" by NewX or a "peer"
  stage,     \* "open" while IEs are added, then in turn "struct" and "wire", unless
             \* marshalling has "failed" or panicked, and the process "crashed"
  struct,    \* the message as a struct
  payload,   \* the length of its Header.Payload: how many IEs take that many octets
  wire,      \* the IEs that MarshalTo wrote
  sent,      \* history: the struct that was marshalled last
  marshals   \* how often it was tried

vars == <<message, ies, origin, stage, struct, payload, wire, sent, marshals>>

Alike(s) == \A m, n \in DOMAIN s : s[m].type = s[n].type

\* The types the message names and one it does not; the instances it tells apart
\* and one more.
Keys(m) ==
  UNION {{<<r.type, n>> : n \in 0 .. (IF r.choice = "instance" THEN Len(r.slots) ELSE 0)}
           : r \in NewSwitch[m]}
  \cup {<<"Unknown", 0>>}

IE(m, number) == {[type |-> k[1], instance |-> k[2], number |-> number] : k \in Keys(m)}

Init ==
  /\ message \in Message
  /\ ies = <<>> /\ origin = "open" /\ stage = "open"
  /\ struct = EmptyStruct(NewSwitch[message])
  /\ payload = 0 /\ wire = <<>>
  /\ sent = struct /\ marshals = 0

\* One more IE is chosen.
AddIE ==
  /\ stage = "open"
  /\ \E i \in IE(message, Len(ies) + 1) :
       /\ ies' = Append(ies, i)
       /\ Len(ies) < MaxIEs \/ (Alike(ies') /\ Len(ies) < MaxAlike)
  /\ UNCHANGED <<message, origin, stage, struct, payload, wire, sent, marshals>>

\* NewX, which makes a header without a payload.
Create ==
  /\ stage = "open"
  /\ struct' = Fill(struct, NewSwitch[message], ies)
  /\ origin' = "ours" /\ stage' = "struct"
  /\ UNCHANGED <<message, ies, payload, wire, sent, marshals>>

\* A peer's message of these IEs arrives.
Receive ==
  /\ stage = "open"
  /\ wire' = ies
  /\ origin' = "peer" /\ stage' = "wire"
  /\ UNCHANGED <<message, ies, struct, payload, sent, marshals>>

\* There is a struct to marshal: it may have been marshalled before.
HasStruct == stage \in {"struct", "failed"} \/ (stage = "wire" /\ marshals > 0)

\* The IEs that MarshalTo goes through, and those whose lengths MarshalLen adds up.
Written == InOrder(struct, MarshalToOrder[message])
Counted == InOrder(struct, MarshalLenOrder[message])

\* What is left of an earlier payload when the new one is made.
\* Mutant: no message gets rid of it.
AlwaysStale == payload
Stale == IF message \in KeepsPayload THEN payload ELSE 0

\* MarshalTo makes a payload of what MarshalLen counts, less what is left of the old one,
\* and what is written fits.
Marshal ==
  /\ HasStruct /\ marshals < MaxMarshals
  /\ Stale + Len(Written) <= Len(Counted)
  /\ wire' = Written /\ payload' = Len(Counted) - Stale
  /\ sent' = struct /\ marshals' = marshals + 1 /\ stage' = "wire"
  /\ UNCHANGED <<message, ies, origin, struct>>

\* An IE does not fit: ErrTooShortToMarshal, but the new payload stays.
MarshalFails ==
  /\ HasStruct /\ marshals < MaxMarshals
  /\ Stale <= Len(Counted) /\ Len(Counted) < Stale + Len(Written)
  /\ payload' = Len(Counted) - Stale
  /\ marshals' = marshals + 1 /\ stage' = "failed"
  /\ UNCHANGED <<message, ies, origin, struct, wire, sent>>

\* The old payload is longer than all that is counted, as IEs were dropped: make panics.
MarshalPanics ==
  /\ HasStruct /\ marshals < MaxMarshals
  /\ Len(Counted) < Stale
  /\ marshals' = marshals + 1 /\ stage' = "crashed"
  /\ UNCHANGED <<message, ies, origin, struct, payload, wire, sent>>

\* Mutant: UnmarshalBinary of the struct that the message was built in.
ParseIntoOld ==
  /\ stage = "wire"
  /\ struct' = Fill(struct, UnmarshalSwitch[message], wire)
  /\ payload' = Len(wire) /\ stage' = "struct"
  /\ UNCHANGED <<message, ies, origin, wire, sent, marshals>>

\* ParseX: UnmarshalBinary of a new struct, of which Header.Payload is what was parsed.
Parse ==
  /\ stage = "wire"
  /\ struct' = Fill(EmptyStruct(NewSwitch[message]), UnmarshalSwitch[message], wire)
  /\ payload' = Len(wire) /\ stage' = "struct"
  /\ UNCHANGED <<message, ies, origin, wire, sent, marshals>>

Next ==
  AddIE \/ Create \/ Receive \/ Marshal \/ MarshalFails \/ MarshalPanics \/ Parse

Spec == Init /\ [][Next]_vars

-----------------------------------------------------------------------------

\* MarshalLen counts exactly the IEs that MarshalTo writes, each as often: the buffer it
\* sizes is neither overrun nor left with zeroes at the end, whatever the IEs' lengths.
SameIEs(s, t) ==
  /\ Len(s) = Len(t)
  /\ \A i \in ToSet(s) \cup ToSet(t) :
       Cardinality({k \in DOMAIN s : s[k] = i}) = Cardinality({k \in DOMAIN t : t[k] = i})

LengthExact == HasStruct => SameIEs(Written, Counted)

\* Parsing what was marshalled gives the struct that was marshalled.
Parsed == stage = "struct" /\ marshals > 0
RoundTrip == Parsed => struct = sent

NotMarshalled == stage \in {"failed", "crashed"}

\* A message that NewX built is marshalled, and as often as one likes but for those that
\* keep their payload, and parsed to what was marshalled, but for the two incomplete ones.
RoundTripElsewhere ==
  /\ origin = "ours" /\ NotMarshalled => marshals > 1 /\ message \in KeepsPayload
  /\ message \notin Incomplete => RoundTrip

\* What was parsed once, whatever a peer sent and in whatever order, is marshalled again,
\* but for the messages that keep their payload, and survives being parsed again: a node
\* that relays loses nothing after the first hop.  The incomplete ones are included.
RelayStable ==
  origin = "peer" =>
    /\ NotMarshalled => message \in KeepsPayload
    /\ RoundTrip

\* An IE of a type that the message has no slot for is never lost by what is marshalled:
\* it is written again, and the unknown ones in the order in which they came
\* (AdditionalIEs).  RelayStable says which messages may not be marshalled at all.
IsUnknown(i) == i.type = "Unknown"
UnknownKept ==
  stage = "wire" =>
    /\ {i \in ToSet(wire) : IsUnknown(i)} = {i \in ToSet(ies) : IsUnknown(i)}
    /\ \A k, l \in DOMAIN wire :
         k < l /\ IsUnknown(wire[k]) /\ IsUnknown(wire[l]) => wire[k].number < wire[l].number

=============================================================================
