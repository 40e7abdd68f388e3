# A verification of go-gtp in TLA+

go-gtp is a Go library for the GPRS Tunnelling Protocol (GTPv0, GTPv1 and GTPv2-C), with
a complete set of example nodes (`examples/gw-tester`: eNB, MME, S-GW, P-GW). This
directory models the parts of it that keep state, checks them with TLC and proves the
central results with TLAPS. Paths below are relative to the repository's root.

## 1. Inventory

| Component | State | Operations | Who calls it |
|---|---|---|---|
| `gtpv2.Conn`, sequence numbers (`gtpv2/conn.go`) | `sequence`, under `mu` | `IncSequence`, `DecSequence`, both from `SendMessageTo` | every goroutine that sends a request |
| `gtpv2.Conn`, session registry (`gtpv2/conn.go`) | `iteiSessionMap`, `imsiSessionMap` (two `sync.Map`s) | `NewSenderFTEID`, `RegisterSession`, `GetSessionByTEID`, `GetSessionByIMSI`, `RemoveSession` | every handler goroutine; `validate` for each datagram |
| `gtpv2.Session` (`gtpv2/session.go`, `gtpv2/bearer.go`) | `teidMap`, `bearerMap`, `isActive`, `msgQueue` (a channel of 1000) | `AddTEID`, `PassMessageTo`, `WaitMessage`, bearer operations | the handlers of a node, on behalf of two interfaces at once |
| `gtpv2.Conn`, life cycle | `pktConn`, `closeCh`, `validationEnabled`, handler map | `Dial`, `Listen`, `Serve`, `Close`, `AddHandler` | the node's `run` and `close` |
| `gtpv2/message` (38 messages and `Generic`), `gtpv2/ie` (about 170 information elements) | none: pure functions over octets | `New…`, `Marshal`, `MarshalTo`, `MarshalLen`, `Unmarshal`, `Parse` | `Conn.Serve`, `SendMessageTo`, `RespondTo` |
| `gtpv1.UPlaneConn` (`gtpv1/u-conn.go`, `tunnel.go`, `tunnel_linux.go`) | `relayMap`, `iteiMap`, `tpduCh`, `closeCh`, `KernelGTP` | `RelayTo`, `CloseRelay`, `NewFTEID`, `EnableKernelGTP`, tunnels, `ReadFromGTP`, `WriteToGTP`, `Close` | S-GW handlers, a goroutine per packet |
| `gtpv1.Relay` (`gtpv1/relay.go`, deprecated) | `teidPair`, `closeCh` | `Run`, `AddPeer`, `Close` | users |
| `gtpv1/message`, `gtpv1/ie`, `gtpv0/*` | none | as in `gtpv2` | `UPlaneConn.serve`, users |
| S-GW (`examples/gw-tester/sgw`) | the sessions of two `Conn`s, joined by IMSI | seven handlers | MME on S11, P-GW on S5 |
| P-GW (`examples/gw-tester/pgw`) | the sessions of one `Conn` | two handlers | S-GW on S5 |
| MME (`examples/gw-tester/mme`) | sessions, the channels `created` and `modified` | `Attach`, three handlers | eNB by gRPC, S-GW on S11 |
| eNB (`examples/gw-tester/enb`) | subscribers, kernel tunnels, the channels `attachCh` and `errCh` | `run`, `attach`, `reload`, and `main`'s loop | the operator, by SIGHUP |
| `examples/{mme,sgw,pgw}` | earlier, smaller versions of the same nodes | | |
| `utils`, loggers, errors, metrics, `testutils`, `s1mme.pb.go` | none | | |

How they interact. `Conn.Serve` reads a datagram, copies it and starts a goroutine that
parses it, validates its TEID (`GetSessionByTEID`) and calls the handler of its type. So
any number of handlers of one node run at once, share the registries and the sessions, and
hold no lock from one call to the next. The S-GW's handlers meet in the session queue: the
handler of an MME's request sends a request to the P-GW and blocks in `WaitMessage` on the
S11 session; the handler of the P-GW's answer looks the S11 session up by IMSI and feeds
its queue with `PassMessageTo`. Nothing is persisted and nothing is retransmitted: datagrams
may be lost, duplicated and reordered, and every wait has a timeout of 3 or 5 seconds.

What is hard, and what makes each part correct:

* sequence numbers: the counter is rolled back on errors while others draw; a number must
  not identify two outstanding requests.
* registry: a TEID must have one owner between the draw and the removal, the two indexes
  must agree, and a removed session must not come back; all under interleavings of single
  map operations.
* gateways: an answer must reach the request it answers although sessions are replaced
  under the same IMSI meanwhile; every handler must end; a re-attach must leave exactly the
  new session.
* MME: the answer to one attach must not be taken for another's, although all attaches wait on
  one channel; every call must be answered and every goroutine end, whatever the S-GW does.
* eNB: a reload deletes tunnels that the subscriber must get back, and hands subscribers to a
  goroutine over a channel without a buffer while that goroutine reports errors back.
* user plane: a packet is relayed to the peer registered for its TEID and to no other, also
  while relays are closed, TEIDs are reused or the kernel takes over.
* codecs: what a message marshals, it unmarshals to the same message, and the announced
  length is the real one. Within an element no octet is taken for another one, and none is
  read that is not there, however short the datagram is.

The hazards listed in PROJECT.json name, line by line, where the code is exposed to each of
these, and the properties that watch it.

## 2. Plan

The order follows what a failure costs: state shared by all handlers first, then the node
that composes it, then the data that travels, then the user plane.

| Part | Modules | State |
|---|---|---|
| sequence numbers | `SendSequence`, `SendSequence_proofs` | done |
| session registry, and the allocator it implements | `SessionRegistry`, `TeidPool`, `SessionRegistry_proofs` | done |
| S-GW, with any peers | `ServingGateway`, proofs in `Gateways_proofs` | done |
| P-GW, composed with the S-GW | `PacketGateway`, `Gateways`, `Gateways_proofs` | done |
| MME: concurrent `Attach` calls, with `CreateSession` and `ParseCreateSession`; the service it implements | `AttachService`, `MME`, `MME_proofs` | done |
| eNB, which uses that service | `ENodeB`, `ENodeB_proofs` | done |
| messages of all versions | `MessageTable`, `Gtpv0Messages`, `Gtpv1Messages`, `Gtpv2Messages`, `MessageCodec`, `MessageCodec_proofs` | done |
| headers, the framing of IEs, the GTPv2 elements with several fields | `ElementTable`, `ElementCodec`, `Gtpv2Elements`, `Gtpv2Options`, `Headers`, `ElementCodec_proofs` | done |
| user plane | `UserPlane`, `UserPlane_proofs` | done |
| life cycle of a `Conn` (`Dial`, `Serve`, `Close`) | | left |

Every safety invariant of the part that keeps state is proved, and so are the three of the
messages that relate what is parsed to what was sent, and that readers of elements stay within
their octets. Section 5 says which ones stay with TLC.

## 3. The modules and the code

Every definition that stands for code has its lines in the `map` of PROJECT.json.
Definitions marked *Mutant* describe a plausible bug; nothing refers to them.

**SendSequence** (`gtpv2/conn.go`). `sequence` is the `uint32` of the `Conn`, `WordMod` its
2^32 and `MaxSeq` the 0xffffff at which it wraps. A caller goes through `SendMessageTo`:
`IncSequence` and `DecSequence` are one step each, because each holds `mu`; sending and
failing are steps between them, because nothing does. `age` and `outOfOrder` are history
variables: how many numbers were drawn since a caller's, and whether a roll-back ever undid
somebody else's increment.

**SessionRegistry** (`gtpv2/conn.go`, `gtpv2/session.go`). `itei` and `imsi` are the two
`sync.Map`s, `localTEID` the entry of `Session.teidMap` for the local interface. Every
`Load`, `Store`, `LoadOrStore` and `Delete` is an action, and `Range` is one action per key it
visits, in any order and with stores by others in between. `NewSenderFTEID` stores a typed
nil (`Reserved`); whoever then looks it up and reads a field ends the process (`crashed`),
after which it starts again with empty maps (`Restart`). A `Session` value that nothing
refers to may be allocated again.

**TeidPool** is what the registry promises: a TEID has one owner from its draw to its
release. `SessionRegistry!ImplementsPool` is the refinement, with `Owner` as the mapping.
`Break` ends the promise when a session is removed twice or while it is registered, which the
library leaves to its callers and the S-GW does not always avoid.

**ServingGateway** (`examples/gw-tester/sgw`). One subscriber's sessions in both `Conn`s; a
pair of an S11 and an S5 session made by one request has one name, so that mixing up pairs
is visible. A handler has a position (`pc`), its message type and its variables: `near` is
the session of the interface it was called on, `far` the one it found through the IMSI,
`num` the sequence number it waits for, `msg` the message it holds. Handlers of answers start
from any request ever `sent`, at any later time and any number of times; that covers loss,
delay, reordering and duplication. What a peer refuses, an IE that is missing, a failed send,
a timeout and a nil dereference are actions of their own. A number is drawn, the request is sent
and, if that fails, the number is given back in steps of their own (`IncSequence`, `SendRequest`,
`SendRequestFails`), with other handlers in between, as in `SendMessageTo`. `outOfOrder` is a
history variable: the `Conn`s on which a number was given back after another handler had drawn
one, so that two requests can have the same number from then on. An answer gives the S5
session the P-GW's TEID for control messages (`ready`) and, if it has an F-TEID for the user plane,
the bearer's address and TEID (`reachable`); the code accepts an answer without one, which those of
the sessions in `WithoutFteid` get. Registering and removing a session are single steps here, as
`SessionRegistry` deals with what is inside.

**PacketGateway, Gateways** (`examples/gw-tester/pgw`). `PacketGateway` has the P-GW's two
handlers, each named by its request; `tunnel` is where the kernel sends the subscriber's packets.
`Gateways` puts it at the other end of the S-GW's S5: what the one has `sent` the other may
handle, and what that has `answered` may come back. Here the subscriber's procedures follow one
another, as `NextRequest` requires that each request was `Answered`, so that one may ask in which
state they leave the two. But the P-GW may fail, its answer may be lost, the MME may repeat a
deletion, and the handlers of both gateways may still be at work when the next request comes,
since they answer first and register or remove afterwards. `overlapped` is a history variable for
that: it names the gateways in which it happened. The S-GW's own sends succeed here, so that no
number is given back, and the P-GW's acceptance has all its IEs, as `pgw/handlers.go:149` builds it.

**AttachService, MME** (`examples/gw-tester/mme`). `AttachService` is what the eNB relies on and
the MME provides: whoever calls `Attach` waits and gets one answer. In `MME` a session has the
name of the call that makes it. A channel of one element, `created` or `modified`, holds the name
of the call whose answer put the token in, so that a token taken by another call is visible.
`caller` is the call, `pc` the goroutine it starts, `handler` the handler of an answer and
`verdict` what the answer says. `enbIP` is the address that all calls share: every `Attach` stores
its own and `ModifyBearer` reads what is there by then. A call whose address has no port stores an
empty one and returns an error before it starts its goroutine (`AttachWithoutPort`,
`ReturnWithoutPort`). `late`, `excused` and `overwritten` are history variables: which calls timed
out; which had no port, could not send, or took a token that was not theirs; and what other calls
stored between a call's own store and its Modify Bearer Request. The S-GW is the one of gw-tester,
which gives its TEID last in the bearer context.

**ENodeB** (`examples/gw-tester/enb`). `main` is the main goroutine with its `select`, `run` the
one that attaches, `at` the position of each attach, which is named by the number of its call to
`AttachService`. `attachCh` is nil until `run` serves it, so that a reload that comes earlier
waits for ever. main logs that a configuration cannot be read and reloads with the nil it got,
which ends the process (`ReloadNil`). `errCh` holds one error. The kernel's GTP module is used;
without it there is no user plane. That the MME's address cannot be parsed, or its answer has a
cause other than success, cannot happen with this MME, and these branches are left out.

**MessageTable, Gtpv0Messages, Gtpv1Messages, Gtpv2Messages, MessageCodec** (`gtpv0/message`,
`gtpv1/message`, `gtpv2/message`). Each of the 56 messages is four hand-written functions that
go through its fields. Their contents are tables: for `NewX` and `UnmarshalBinary` which field
an IE of a type and an instance goes to, for `MarshalTo` and `MarshalLen` the order of the
fields. The tables of `MarshalTo` and of `MarshalLen` are written down separately, each from its
function. Where the switch of `UnmarshalBinary` has the same cases as that of `NewX`, its table
says so (`UnmarshalX == NewX`); the two are spelled out where they differ. `MessageTable`
says what the loops do with a table, `MessageCodec` sends messages through them: an
application builds one of any IEs (`Create`) or a peer sends any (`Receive`), and it is
marshalled, more than once, and parsed. An IE is its type, its instance and a name for its contents;
a peer's IEs are those that the `ie` package frames, as GTPv1's and GTPv0's of an unknown type below
128 lose their contents there (`Headers`, and section 4).
`payload` is the length of `Header.Payload`, counted in IEs: parsing and marshalling leave one
behind, and the nine messages in `KeepsPayload` take it off the size of the next buffer. So
marshalling fails where an IE does not fit (`MarshalFails`) or panics where the size is negative
(`MarshalPanics`). The loops
(`Fill`, `InOrder`) are recursive functions of the number of rounds, which the proofs can use.

**ElementTable, ElementCodec, Gtpv2Elements, Gtpv2Options, Headers** (`gtpv2/ie`,
`gtpv1/ie/ie.go`, the three `message/header.go`). The same one layer down. A value is how many
octets each of its fields has, and the k-th octet of a field is `<<field, k>>`, so that an octet
that is taken for another one shows. `MarshalTo`, `MarshalLen`, `UnmarshalBinary` and the
accessors of an element are four tables of rows, one row for a field, written down from the four
functions; `ElementTable` says what a row may be (fixed, announced by another field, until the
end, checked or not; announced as a total that counts octets before it, and compared with these or
not), `ElementCodec` what a reader does with it, row by row, on octets of which
any number may be missing at the end, or with a total announced that is smaller than the octets
it counts in any case (`Understated`). 35 elements, options and headers are covered: those with
several fields, lists or flags. Lists have at most two items, and the lengths of filter
components fit in their octet. Readers that do not return what was written are named in three
sets of each module: `Misread` (wrong values), `Unread` (not all of it, or refused) and
`Oversteps` (an index out of range or the octets of the next element). Each member is necessary,
as the run fails without it; section 4 says what they are. `Careful` is a rule on a reader's rows
alone: it follows from row to row how many octets the checks so far have shown to be left
(`Known`), and asks that each row takes no more than these and what it checks itself (`Covered`).
All readers outside `Oversteps` are careful (`CarefulAssumption`, which TLC evaluates), and none
inside is.

**UserPlane** (`gtpv1/u-conn.go`, `tunnel.go`, `tunnel_linux.go`, `handlers.go`). A `Subscriber`
is the handler that draws a TEID and then relays it or gives a tunnel to the kernel. Several may
serve one MS (`MSsOf`), as when an MS attaches again while its first request is handled.
`AddTunnelOverride` is four steps, one for each request to the kernel that another handler can
come between; `crossed` is a history variable: whose call for the address another one's tunnel was
added in the middle of. `relayMap` is locked when it is read or written, but `serve` looks at its
length and everybody at `KernelGTP.enabled` without a lock, so those are steps of their own. Each
T-PDU is a goroutine from `Arrive` on. `Observe` keeps, for each of them, to whom its TEID led at
any moment since (`seen`). Requests to the kernel succeed unless it has a reason to refuse that
the model knows: a tunnel of that TEID or address, or the device is gone. A packet too short for
the octets that `serve` and `message.Parse` read unchecked ends the process (`Panic`).
`DelTunnelByMSAddress` is left out, as nothing in the repository calls it.

`MC...` modules give the constants their values for TLC, and nothing else.

## 4. The runs

| Run | Bounds | What it asks |
|---|---|---|
| `sequence` | 3 callers, numbers 0..3, word of 8 | outstanding requests have different numbers across wraps and failures, while roll-backs come in order; the counter never falls further below zero than one per caller |
| `sequence_unique` (violation) | the same | the comment on `Conn.sequence` without that condition: false |
| `registry` | 3 goroutines, 2 TEIDs, 2 subscribers, 3 sessions | reservations are exclusive, the IMSI index leads to sessions that their TEIDs lead to, a removed session is unreachable, and all of it implements `TeidPool` |
| `registry_crash` (violation) | 2 goroutines | a message for an unknown TEID is discarded (`EnableValidation`): a reserved one ends the process |
| `sgw` | 2 handlers, 2 session pairs, of which one gets no F-TEID, 2 numbers on S5 and 1 on S11, queue of 1 | unless a number was given back out of order, the accepted session is the one the P-GW answered for, and it has what the P-GW gave; a refused one is forgotten; every failure and any answers |
| `gateways` | 2 handlers of the S-GW, any of the P-GW, 2 session pairs, 3 numbers on S5 and 1 on S11 | one consistent session is left at rest in both gateways and in the kernel, deletions are confirmed by their own answers, and every procedure ends, without a timeout if the answer comes; the first and the last unless a request met a handler that still ran |
| `sgw_bearer` (violation) | as `sgw` | the default bearer is always found: after `handleDeleteBearerRequest` removed it, the handler of a Delete Session Request gets nil (`s11_handlers.go:388`) |
| `codec` | all 56 messages, any 2 IEs or 5 of one type, marshalled twice | lengths are exact, parsing returns what was marshalled (except for two messages), relaying is stable, unknown IEs are kept, and only the nine messages of `KeepsPayload` ever fail to be marshalled |
| `elements` | 35 elements and headers, every reader, cut short at every octet, every total that is too small | lengths are exact, readers return what was written or an error, and read no further than there are octets (except for the readers named) |
| `mme` | 2 calls from 2 eNBs, one answer that comes twice | a call succeeds only on its own session's answers and with an address that was stored no earlier than its own, fails only for a reason, leaves no token for a later call unless it was late; only a repeated refusal crashes; every goroutine ends; the MME implements `AttachService` |
| `enb` | 2 subscribers, one of which is attached again on a reload, 3 calls, 2 reloads | whoever is attached has the tunnel of its last attach, a reload ends, every configured subscriber is attached or tried, whatever a configuration that cannot be read does |
| `user_plane` | 2 handlers, 2 TEIDs, 2 MSs of which both handlers serve one, 1 packet | packets go where they were registered to go, also across closing, reuse of TEIDs and the kernel's takeover; a tunnel is refused only if another call for its address crossed it or the device is gone; every packet's goroutine ends |

Why these bounds are enough to see the interesting cases. With four sequence numbers and three
callers the counter wraps while two requests are outstanding, and can be rolled back below zero by
all three. Two TEIDs are both taken and reused while three goroutines register, find and remove
sessions of one subscriber and another one. Two handlers at a time hold a request that waits and
an answer, or two requests that overlap; since handlers start again as long as numbers last, late
answers of an earlier attach meet a later one, and with two numbers on S5 one is given back in
order and out of order, and drawn again. The queue has room for one message so that it is full
(1000 in the code). With both gateways, three requests to the P-GW are an attach, a re-attach and
a deletion, or a deletion and its repetition, or a deletion followed by a new attach, and one on
S11 lets the P-GW delete a bearer between them, in every overlap of handlers that have answered.
Two calls of the MME are enough for one to take the other's token and for a late answer to meet a
later call, and with two reloads the second comes while the first is at work or while its attach
fails. In the message tables, the rules that fill slots one after the other use at most four, so
five IEs of a type overflow every one of them; marshalling twice is what it takes to meet the
payload of the first time; slots chosen by instance do not depend on each other beyond a pair, and
any pair of IEs is tried. An element's fields take the lengths at which its code branches: present
or not, IPv4 or IPv6, none, one or two items. Two TEIDs for two subscribers are drawn again while
a packet for their last owner is on its way, and two handlers, one of which serves another MS as
well, override each other's tunnels of the MS they share in every order of their requests to the
kernel. Exploration is complete within the bounds in every passing run.

Nothing is persisted by the program, so a restart is the initial state. The registry has it as
a step after a crash (`Restart`), where `TeidPool` promises that every TEID is free again;
elsewhere a crash ends the behaviour.

`CHECK_DEADLOCK FALSE` is set where the system may stop: in the S-GW when the numbers of the
bound are used up or the process has crashed, in the codecs when a message was marshalled as
often as the bound says or an element was read, in the MME when all calls of the bound are
answered, in the eNB when main has exited or waits for ever on the nil channel, in the user plane
after `Close`.

**Fairness.** It is the one Go's scheduler gives: weak fairness of a goroutine that can run, its
timers included. `GatewaysSpec` needs it only of the two gateways together (`GoesOn`: some handler
that can run does, some request or answer that is on its way arrives), as no request comes before
the last one was answered; the loss of an answer is possible and no fairness is assumed of it, so
that `ProceduresEnd` says that no timeout is needed when the answer comes. `MME` assumes it of the
calls' goroutines, with their timers and the notice that a server is gone; of the S-GW nothing.
`ENodeB` assumes it of `run`, of `main`, of each attach and of the MME's answer, which `MME`
guarantees (`ImplementsService`); of an attach that waits to send to `errCh` strong fairness, as a
channel serves the goroutines that wait on it first in, first out. `UserPlane` assumes weak
fairness of each packet's goroutine (`gtpv1/handlers.go`). None is assumed of peers' requests, of
SIGHUPs, of applications that call the library or read from it, or of failures.

**Findings.** The three runs that end in a violation show where the code does something else
than a comment or a document says; PROJECT.json quotes both sides. While modelling, these
were met as well.

Gateways:

* Two Create Session Requests of a subscriber that overlap remove nothing and leave two sessions
  registered, in the S-GW (`examples/gw-tester/sgw/s11_handlers.go:73`) and in the P-GW
  (`pgw/handlers.go:41`). `ConsistentAtRest` is violated without its exception.
* The P-GW answers before it registers (`pgw/handlers.go:176`, `:192`) and before it removes
  (`:238`, `:246`). A Delete Session Request that comes at once meets the reserved TEID and ends
  the process; a Create Session Request that comes right after a deletion loses its IMSI entry to
  it.
* The S-GW, too, confirms a deletion before it removes the session (`sgw/s11_handlers.go:439`),
  as it removes the one on S5 after it passed the answer on (`sgw/s5_handlers.go:161`). A
  subscriber that attaches again at once loses its IMSI entry to that removal: its attach ends by
  the timeout, as the P-GW's answer finds no session to be passed to, or its session is
  registered and not found. `ProceduresEnd` and `ConsistentAtRest` are violated without their
  exceptions, the former also when each handler is scheduled fairly.
* If the P-GW's answer to a deletion is lost, the session can never be deleted: the P-GW discards
  the repetition (`gtpv2/conn.go:373`), the S-GW's wait times out and it keeps the session.
* An IE that is missing, such as the PAA, which the S-GW does not require, ends the P-GW's handler
  after the previous session was removed, without an answer; a failed `RespondTo` leaks the TEID.
  The kernel's tunnel of a deleted session stays. `setupUPlane` looks for a rule by comparing
  pointers (`pgw/pgw.go:208`), which are never equal, so that it adds the rule each time.
* After a failed or refused attach the S-GW's S5 session stays registered.
* A Create Session Response without a bearer context or without an F-TEID is accepted all the same
  (`sgw/s5_handlers.go:85`): the MME is told of a session of which the bearer has no address, and
  a Modify Bearer Request for it dereferences nil (`sgw/s11_handlers.go:307`).
* The Conn's roll-back (`gtpv2/conn.go:389`) reaches the S-GW: when a send fails after another
  handler drew its number, two requests of the S-GW have one number, and an answer passed by IMSI
  can be taken for the other's. `AcceptedByOwnAnswer` is violated without its exception.

MME and eNB:

* The token of one attach releases another (`mme/mme.go:203`), which then fails, and a token
  that comes after a timeout makes a later attach go on too early. Sessions of attaches that
  failed stay registered. A refusal that arrives twice passes nil to `RemoveSession`
  (`mme/handlers.go:26`).
* The eNB's address is shared by all calls (`mme/mme.go:182`). An address that cannot be split
  empties it, and another call's bearer is then modified with an empty address.
* A SIGHUP before `run` serves `attachCh`, or after it returned on an error, makes main wait for
  ever (`enb/enb.go:202`). A second SIGHUP during a slow attach attaches twice (`:183`); a
  re-attach that fails is not tried again, as the subscriber counts as attached (`:194`); a
  subscriber with a random `i_tei` is never attached again; `e.sessions` is appended to without a
  lock (`:293`). A SIGHUP with a configuration that cannot be read ends the process: main logs the
  error and calls `reload` with nil (`enb/main.go:54-59`, `enb.go:171`).

Messages:

* `NewContextResponse` and its `UnmarshalBinary` test `UEMMContext` the wrong way round
  (`gtpv2/message/context-res.go:70` and `:407`), so that field is never set and every MM
  context goes to `AdditionalIEs`.
* The Context Response loses a `MonitoringEventExtensionInformation` and an
  `AdditionalRRMPolicyIndex` (`context-res.go:129`, `:150`, `:179`), and
  `CreateBearerResponse.UnmarshalBinary` drops IEs of instances that `NewCreateBearerResponse`
  keeps as additional ones, although `gtpv2/README.md:103` lists both as supported.
  `RoundTripElsewhere` excepts the two. `NewCreateSessionRequest` drops a TWAN Identifier of an
  instance above 1 (`gtpv2/message/create-session-req.go:217`) that its `UnmarshalBinary` keeps.
* Nine messages do not set `Header.Payload` to nil before they size the new one: the Create,
  Update and Delete PDP Context Requests and Responses, the Error Indication and Version Not
  Supported of GTPv1 (as at `gtpv1/message/create-pdp-context-req.go:177`), and GTPv0's Delete PDP
  Context Response. Once parsed or marshalled with any IEs they cannot be marshalled again:
  `ErrTooShortToMarshal`, or a negative length for `make` if IEs were dropped meanwhile.
  `RoundTripElsewhere` and `RelayStable` say that no other message fails.

Elements and headers (`gtpv2/ie` where no path is given), of which the first three groups are the
sets of exceptions, and the last was met outside the tables:

* `Oversteps`: the number of EBIs in `s103pdf.go` is read unchecked and they are stored in a
  slice that has no room, its accessor `EBIs` is off by one; GUTI reads a 4th octet after a check
  for 3, UCI an 8th after a check for 7; a Cause's flags are read from a second octet that need
  not be there; the total length of `PCOPPP` (`pco-ppp.go:124`) and of `IPCPOption` (`:440`), of
  which one smaller than the header makes the reader slice backwards; the second length of `PAPFields`
  (`pco-ppp.go:216`), the identifiers of TFT
  filters (`tft.go:165`) and the prefix length of its IPv6 components are unchecked; a TFT
  parameter of 254 octets or more has its length computed in one octet; GTPv1's header with a
  sequence number in 11 octets; GTPv0's, which checks 11 octets and reads 20.
* `Misread`: `TEID` of S1-U Data Forwarding switches on the EBI instead of the address length;
  GUTI's PLMN is read from its second to fourth octet; the flags of Paging and Service
  Information from its first; `MBRForUplink` of Flow QoS from `[2:6]`; `HasCS` and `HasBCE`, and
  `IsRemoteCause` and `IsPDNConnectionIEError`, of a Cause are exchanged; the IPv6 mask of a TFT
  component is taken one octet too late; a PCO container that is cut off shifts what follows;
  GTPv0's SNDCP number; GTPv1's and GTPv0's IMSI of fewer than 15 digits, which is padded with
  zeroes.
* `Unread`: `GREKey` of an F-TEID and `NodeID` of FQ-CSID want more octets than there are; an
  empty RAN/NAS Cause is refused; the E bit of a TFT with an even number of parameters is not set
  (`tft.go:90`), so that they are not read; GTPv1 and GTPv2 headers with nothing behind them are
  refused (8 octets, of which 11 and 12 are required); GTPv1's and GTPv0's IEs of a type that
  `tvLengthMap` does not list (`gtpv1/ie/ie.go:240`) lose their contents.
* Three Bearer Flags (`bearer-flags.go:100`, `:114`, `:127`) are never true; an IMSI with an even
  number of digits loses the last one; EPC Timer and Throttling cut a value to five bits.
* User Location Information: the deprecated getters share one PLMN, and the deprecated constructor
  masks the ECI.

User plane:

* A `RelayTo` that is refused, or an override, leaves its TEID taken.
* `AddTunnelOverride` looks a tunnel up by its address and deletes it by its TEID
  (`gtpv1/tunnel_linux.go:114`, `:116`), without a lock. Two calls for one MS, which
  `pgw/handlers.go:194` can make, cross: one finds the address taken when it adds its tunnel, and
  fails; and if the TEID was given back and drawn again in between, the tunnel that it deletes is
  another MS's.
* A datagram of 0 or 1 octets ends the process: `serve` reads `raw[1]` (`gtpv1/u-conn.go:218`), and
  `message.Parse` reads `b[1]` (`gtpv1/message/message.go:119`), without a look at the length.
* `Relay.Close` (`gtpv1/relay.go:100`) says that it does not close its connections, and makes
  their `serve` return an error; `ReadFromGTP` returns no error after `Close`
  (`gtpv1/u-conn.go:287`), so a loop that waits for one spins.
* A packet that is on its way while its relay is closed and the TEID drawn again may go to
  the new owner's peer: `RelayedAsRegistered` allows it, because that peer is registered by
  then.

## 5. The proofs

TLAPS checks these for all values of the constants that satisfy the named assumptions
(`SequenceAssumption`, `CallerAssumption`, `RegistryAssumption`, `GatewayAssumption`,
`AttachAssumption`, `CallAssumption`, `EnbAssumption`, `NoneAssumption`, `MSsAssumption`,
`TEIDAssumption`, `TableAssumption`, `ReaderAssumption`, `CarefulAssumption`), which TLC evaluates
in the runs. But for the last three, which are about the tables, they say that `None` is no session,
subscriber or call, that the limits are numbers, what a constant function goes from and to, and,
where something is counted, that there are finitely many callers (`CallerAssumption`,
`CallAssumption`). The numbers of handlers, goroutines, sessions, subscribers
and TEIDs are arbitrary.

* `SendSequence_proofs!TypeCorrect` and `UniqueCorrect`. The first also shows that the counter
  needs no more than its word. For the second, `UniqueInOrder` is not inductive: two numbers
  may differ today and coincide after a wrap. The invariant `IInv` says more: as long as
  roll-backs were in order, a number that is `age` draws old lies exactly `age` places behind
  the counter on the ring of `MaxSeq + 1` numbers (`BehindByAge`), and two numbers of less
  than a cycle have different ages (`AgesDiffer`). A draw adds one to all ages and moves the
  counter one place, a roll-back in order undoes both. `UnderflowCorrect` counts: every place
  that the counter is below zero was taken by another caller that gave its number back and has
  drawn none since (`BelowByIdle`), as the next draw after an underflow sets the counter to 0.
* `SessionRegistry_proofs!TypeCorrect`, `ReservationsCorrect`, `ImsiEntryCorrect` and
  `RemovalCorrect`. They share one invariant, `IInv`: until a session is misused, every
  TEID and every IMSI entry is accounted for by exactly one operation in progress or one
  registered session. Each action has a lemma of its own.
* `SessionRegistry_proofs!ImplementationCorrect`: every step of the registry is a step of
  `TeidPool` or leaves the owners as they are. It rests on the same invariant, which makes
  `Owner` a function: one goroutine at most holds a reservation.
* `UserPlane_proofs!TypeCorrect`, `TeidsCorrect`, `OverrideCorrect`, `TakeoverCorrect`,
  `RelayCorrect` and `UnknownCorrect`, from one invariant, `IInv`, in layers that each rest on
  the ones before. `OwnersInv` adds to `TeidsExclusive` that an address has one tunnel at most
  (`AddressesUnique`), so that what a call looked up is all there was, and that from its deletion on
  the address is free, and the TEID too, unless another call has crossed it (`AddressesClear`);
  `TakeoverInv` says which RelayTo calls may still store a relay; `RelaysStand` that a relay
  stays until its own CloseRelay or the takeover. From these, what a look into the map returns
  is where the TEID leads at that moment (`PeerLeads`, `NobodyLeads`), which gives the two
  properties of packets.

* `Gateways_proofs!TypeCorrect`, `AcceptedCorrect`, `ReadyCorrect` and `RefusedCorrect`. That the
  MME is told of a creation only after the answer to that session's own request says nothing about
  the way that answer takes: from a handler, through whatever session the IMSI leads to, into a
  queue and to the handler that waits on it. `IInv` follows it. `Frames` says that an answer's
  handler has the session that was asked for, and that a created one was stored before the answer
  is passed on; `QueuesCarry` the same of every message in a queue; `NumbersUnique` that a number
  on a Conn stands for one request, drawn, outstanding or answered, so that the comparison in
  `WaitMessage` sorts out all others; `Creations` that the waiting handler's number is its own
  request's. `NumbersUnique` holds as long as each number that was given back was the last one
  drawn, and that is the condition of the first two theorems; `SendSequence` says what happens
  after. `Refusals` has `used` in it because a refused session is only forgotten if its TEID is
  not registered again.
* `Gateways_proofs!DeletedCorrect`: `Delete Session` has no such number of its own session to rely
  on, as the S-GW looks the S5 session up by IMSI. It is the right one because the subscriber's
  procedures follow one another (`OneProcedure`), and the S5 session under the IMSI is then the one
  that was created last, or that is being created (`ImsiIsLast`), however many handlers are still
  removing old ones.
* `Gateways_proofs!RestCorrect`, that both gateways agree at rest. `ConsistentAtRest` speaks of
  states in which nothing runs; the invariant, `RestInv`, of all others. It has two layers. `Always`
  holds whatever overlaps: a session is created once (`CreatedOnce`), is known on S5 until the P-GW
  has answered its deletion (`KnownOnS5`), and what the S-GW takes for an answer was given
  (`Given`). `Calm` holds as long as no request met a handler that still ran: on either side there
  is one session, the one under the IMSI, and the handler at work is about it (`S11IsOne`,
  `PgwIsOne`); one answer is on its way at most and somebody waits for it (`AnswersAwaited`); a
  request that has not reached the P-GW is one the S-GW waits for, so that the P-GW handles
  requests one at a time and in their order (`OneAtPgw`); and the session that was created last is
  the P-GW's unless deleted (`LastIsServed`, `DeletedIsGone`). `TeidsReserved` excludes that a
  deletion meets a TEID that is only reserved.
* `Gateways_proofs!SgwIsImplemented`: every step of the composition is one of `ServingGateway` or
  leaves the S-GW alone, so that the theorems above hold of the composition.
* `MME_proofs!TypeCorrect`, `SuccessCorrect`, `FailureCorrect`, `CrashCorrect` and
  `TokensCorrect`. Since any call may take any token, `Answered` says what a token still means,
  that its session has the S-GW's TEIDs. `Successes` carries through each call what its Modify
  Bearer Request was sent with, its own eNB's address or one stored since, and `Failures` that a
  goroutine without its own TEID was late or took a token that was another's. `TokensCorrect` is
  an equation: as many sessions gave a token as goroutines took one, but for the one in the
  channel (`TokensCounted`); when all calls have ended, all that could give one have, and none is
  left.
* `ENodeB_proofs!TypeCorrect`, `TunnelCorrect` and `LatestCorrect`. `HeldHasTunnel` begins when an
  attach makes the tunnel, before the subscriber is appended; `OneAtATime` says that the attach
  under way is the subscriber's last call unless a reload doubled it.
* `MME_proofs!SafeService`: each step of the MME is a step of `AttachService` or leaves the
  callers alone. (The eNB uses the service's own actions, so that the same of it would say
  nothing.) That every call is answered is liveness and checked by the run `mme`.
* `MessageCodec_proofs!RelayIsStable`, `RoundTripHolds` and `UnknownsAreKept`: for messages of any
  number of IEs, marshalled any number of times, where the run has two, or five of one type, and
  two times. The first two are for tables of which `MarshalLen` counts what `MarshalTo` writes
  (`[]LengthExact` is their premise, and the run `codec` checks it), as otherwise a buffer could
  be too small for any message; `MarshalsFirst` says which one fails nevertheless.
  `TableAssumption` is what they ask of a message's four tables, and TLC evaluates it for all 56
  messages: `MarshalTo` writes every slot once, the slots of one type in the order in which
  `UnmarshalBinary` fills them and `AdditionalIEs` where no slot can take an IE from it, and
  `NewX` and `UnmarshalBinary` agree (not for the two messages in `Incomplete`). The prover has no
  induction over an operator; the lemmas on loops (`SetInduction`, `FillRounds`, `InOrderRounds`)
  speak of the set of the rounds after which a fact holds, and rest on the well-foundedness of the
  numbers. The struct of a message is `WellFormed` when each IE is in the slot to which the switch
  takes it after those that are written before it. That is what parsing makes of any IEs
  (`FillWellFormed`). And such a struct is parsed back to itself, as after each IE of the wire the
  new struct is the part of the old one that was written by then (`Half`, `Reparse`).
  `UnknownsAreKept` needs none of this: it holds also for the two messages whose tables do not
  agree, as an IE of an unknown type passes every case of the switch (`PlaceHolds`).
* `ElementCodec_proofs!StaysInside`: the run cuts a few values of each element at every octet, the
  theorem is for any values. `NeverBeyond` says nothing of a reader on its way; `KnowsRight` does:
  what the rule of `Careful` computes for the rows read so far is true of the reader's place and of
  the octets that are left. A row's field may be there or not, and a reader that mistakes the
  announcement of one may take it for any length; so only a row without a condition raises what is
  known after it (`AfterTaken`). A total that is understated is one more length a reader may
  take, and a row that does not compare it is not careful. The theorem also says what to look for in a
  new reader: a table that is not careful.

Only model-checked are the other properties of the codecs. `LengthExact`, of the messages and of the
elements, compares tables that are written down from `MarshalTo` and `MarshalLen`: it depends on
these alone, and TLC goes through all of them. `ReadsWhatWasWritten` says that the fields of a
reader are those of the writer, field by field; its exceptions are single readers, and no rule on
the tables that is simpler than the property tells them from the others. Liveness under fairness
(`ProceduresEnd`, `PacketsEnd`, `GoroutinesEnd`, `ReloadEnds`, `CandidatesAttached`, and the fair
half of `ImplementsService`) and `ENABLED` are beyond the prover and stay with TLC as well.

## 6. What is not modelled

* Elements with a single value, the bodies of GTPv1's and GTPv0's elements, and values within
  their octets (digits, prefix lengths, enumerations), except where two fields share an octet. The
  headers have no extension headers in this code.
* The MME's `handleDeleteSessionResponse`, as it never sends that request, and `Detach`, which
  the code does not implement. Metrics, routes, rules and `close` of the nodes. The older examples
  (`examples/mme`, `examples/sgw`, `examples/pgw`) repeat the same procedures.
* S-GW and P-GW with requests that are not answered when the next one comes: the S-GW alone is
  checked with any overlap, any peer, failed sends and incomplete answers, the two together as far as
  their handlers run on after an answer. The MME and the eNB are
  joined by the service between them, not in one run.
* `Dial`, `DialUPlane`, `Close` and the Echo procedure: they keep no state that others share,
  besides the channel that `Close` closes. The handler map is written at the start.
* `Relay`: deprecated in favour of `RelayTo`.
* Bearer operations other than the removal of the default bearer, and metrics, loggers,
  errors and generated code.
