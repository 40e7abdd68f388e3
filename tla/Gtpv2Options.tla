---------------------------- MODULE Gtpv2Options ----------------------------
(***************************************************************************)
(* The elements of GTPv2 that are lists: Traffic Flow Templates with their   *)
(* packet filters, components and parameters (gtpv2/ie/tft.go), and Protocol *)
(* Configuration Options with the PPP protocols in them (pco.go and          *)
(* pco-ppp.go).  An item of a list is one field of the list, and an element  *)
(* of its own.  Lists have at most two items.                                *)
(***************************************************************************)
EXTENDS ElementTable

LOCAL INSTANCE SequencesExt

-----------------------------------------------------------------------------
\* Traffic Flow Template: what the constructors of the operation codes give it.  Op is
\* the first octet.  Its E bit, which MarshalTo sets for an odd number of parameters,
\* tells the reader that there are any.

NewTrafficFlowTemplate ==
  {v \in ValuesOf([Op |-> {1}, Filter1 |-> {0, 4}, Filter2 |-> {0, 4}, Ids |-> 0 .. 2,
                    E |-> {0, 1}, Param1 |-> {0, 3}, Param2 |-> {0, 3}]) :
     /\ v.Filter2 > 0 => v.Filter1 > 0
     /\ v.Filter1 = 0 \/ v.Ids = 0
     /\ v.Param2 > 0 => v.Param1 > 0
     /\ v.E = 1 <=> (v.Param1 > 0 /\ v.Param2 = 0)}
MarshalToTrafficFlowTemplate ==
  <<Fixed("Op", 1), All("Filter1"), All("Filter2"), All("Ids"), All("Param1"), All("Param2")>>
MarshalLenTrafficFlowTemplate ==
  <<Fixed("Op", 1), All("Filter1"), All("Filter2"), All("Ids"), All("Param1"), All("Param2")>>
ReadParam(f) == When("E", By("Op", Again(Fixed(f, 3))))
UnmarshalTrafficFlowTemplate ==
  <<Fixed("Op", 1), If("Filter1", 4, "Op"), If("Filter2", 4, "Op"), Unchecked(Counted("Ids", "Op")),
    ReadParam("Param1"), ReadParam("Param2")>>

\* Its packet filters, with components whose length fits in an octet.

NewTFTPacketFilter ==
  ValuesOf([DirectionId |-> {1}, EvaluationPrecedence |-> {1}, Length |-> {1}, Components |-> 0 .. 3])
MarshalToTFTPacketFilter ==
  <<Fixed("DirectionId", 1), Fixed("EvaluationPrecedence", 1), Fixed("Length", 1), All("Components")>>
MarshalLenTFTPacketFilter == <<Fixed("DirectionId", 3), All("Components")>>
UnmarshalTFTPacketFilter ==
  <<More(2, Fixed("DirectionId", 1)), Fixed("EvaluationPrecedence", 1), Fixed("Length", 1),
    Counted("Components", "Length")>>

\* Their components: the type tells what the contents are and how long.

Contents ==
  [IPv4RemoteAddress |-> 8, IPv4LocalAddress |-> 8, ProtocolIdentifierNextHeader |-> 1,
   SingleLocalPort |-> 2, LocalPortRange |-> 4, SingleRemotePort |-> 2, RemotePortRange |-> 4,
   SecurityParameterIndex |-> 4, TypeOfServiceTrafficClass |-> 2, FlowLabel |-> 3,
   DestinationMACAddress |-> 6, SourceMACAddress |-> 6, Dot1QCTAGVID |-> 2, Dot1QSTAGVID |-> 2,
   Dot1QCTAGPCPDEI |-> 1, Dot1QSTAGPCPDEI |-> 1, Ethertype |-> 2]
Contents6 ==
  [IPv6RemoteAddress |-> 16, IPv6RemoteAddressPrefixLength |-> 16, IPv6LocalAddressPrefixLength |-> 16]
Masks ==
  [IPv6RemoteAddress |-> 16, IPv6RemoteAddressPrefixLength |-> 1, IPv6LocalAddressPrefixLength |-> 1]

Kinds ==
  <<"IPv4RemoteAddress", "IPv4LocalAddress", "IPv6RemoteAddress", "IPv6RemoteAddressPrefixLength",
    "IPv6LocalAddressPrefixLength", "ProtocolIdentifierNextHeader", "SingleLocalPort",
    "SingleRemotePort", "LocalPortRange", "RemotePortRange", "SecurityParameterIndex",
    "TypeOfServiceTrafficClass", "FlowLabel", "DestinationMACAddress", "SourceMACAddress",
    "Dot1QCTAGVID", "Dot1QSTAGVID", "Dot1QCTAGPCPDEI", "Dot1QSTAGPCPDEI", "Ethertype">>
Kind == ToSet(Kinds)
AllContents == Contents @@ Contents6
NewTFTPFComponent ==
  {[Type |-> 1, Mask |-> IF kind \in DOMAIN Masks THEN Masks[kind] ELSE 0]
     @@ [k \in Kind |-> IF k = kind THEN AllContents[k] ELSE 0] : kind \in Kind}
MarshalToTFTPFComponent ==
  <<Fixed("Type", 1)>> \o [n \in DOMAIN Kinds |-> All(Kinds[n])] \o <<All("Mask")>>
MarshalLenTFTPFComponent ==
  <<Fixed("Type", 1)>> \o [n \in DOMAIN Kinds |-> All(Kinds[n])] \o <<All("Mask")>>
UnmarshalTFTPFComponent ==
  <<Fixed("Type", 1)>> \o [n \in DOMAIN Kinds |-> If(Kinds[n], AllContents[Kinds[n]], "Type")]
    \o <<Counted("Mask", "Type")>>

\* The accessors.  Those of the IPv6 components take the mask and the prefix length from
\* the octet behind their first one: there are 31 octets of the mask, and no prefix length.
\* One check is for the address and the mask.

Accessor(kind) == <<Fixed("Type", 1), If(kind, Contents[kind], "Type")>>
Accessor6(kind) ==
  LET lastOctet == IF Masks[kind] = 1 THEN 19 ELSE 33
      mask == When(kind, By("Type", Fixed("Mask", Masks[kind]))) IN
  <<Fixed("Type", 1), More(Contents6[kind], At(19, lastOctet, mask)),
    At(2, 17, If(kind, Contents6[kind], "Type"))>>
AccessorsTFTPFComponent ==
  [kind \in DOMAIN Contents |-> Accessor(kind)] @@ [kind \in DOMAIN Contents6 |-> Accessor6(kind)]

\* Parameters.  The reader adds two to the length in an octet.

NewTFTParameter == ValuesOf([Identifier |-> {1}, Length |-> {1}, Contents |-> {0, 1, 254}])
MarshalToTFTParameter == <<Fixed("Identifier", 1), Fixed("Length", 1), All("Contents")>>
MarshalLenTFTParameter == <<Fixed("Identifier", 2), All("Contents")>>
UnmarshalTFTParameter ==
  <<More(1, Fixed("Identifier", 1)), Fixed("Length", 1), Narrow(Counted("Contents", "Length"))>>

-----------------------------------------------------------------------------
\* Protocol Configuration Options.  The octets of a container that is cut short are left
\* where they are, and read as the next one.

NewProtocolConfigurationOptions ==
  {v \in ValuesOf([Protocol |-> {1}, ID1 |-> {0, 2}, Length1 |-> {0, 1}, Contents1 |-> {0, 4},
                    ID2 |-> {0, 2}, Length2 |-> {0, 1}, Contents2 |-> {0, 4}]) :
     /\ v.ID1 = 2 * v.Length1 /\ v.ID2 = 2 * v.Length2
     /\ v.Contents1 > 0 => v.ID1 > 0
     /\ v.Contents2 > 0 => v.ID2 > 0
     /\ v.ID2 > 0 => v.ID1 > 0}
MarshalToProtocolConfigurationOptions ==
  <<Fixed("Protocol", 1), All("ID1"), All("Length1"), All("Contents1"), All("ID2"), All("Length2"),
    All("Contents2")>>
MarshalLenProtocolConfigurationOptions ==
  <<Fixed("Protocol", 1), When("ID1", Fixed("ID1", 3)), All("Contents1"), When("ID2", Fixed("ID2", 3)),
    All("Contents2")>>
UnmarshalPCOContainer(id, length, contents) ==
  <<Again(More(1, Fixed(id, 2))), Fixed(length, 1), OrNone(Counted(contents, length))>>
UnmarshalProtocolConfigurationOptions ==
  <<Fixed("Protocol", 1)>> \o UnmarshalPCOContainer("ID1", "Length1", "Contents1")
    \o UnmarshalPCOContainer("ID2", "Length2", "Contents2")

\* PPP (pco-ppp.go), which MarshalTo and UnmarshalBinary refuse without a payload.  The
\* payload ends where Length says, counted from the first octet of all: a slice ends
\* before it starts when a peer says less than four.

NewPCOPPP == ValuesOf([Code |-> {1}, Identifier |-> {1}, Length |-> {2}, Payload |-> 1 .. 2])
MarshalToPCOPPP == <<Fixed("Code", 1), Fixed("Identifier", 1), Fixed("Length", 2), All("Payload")>>
MarshalLenPCOPPP == <<Fixed("Code", 4), All("Payload")>>
UnmarshalPCOPPP ==
  <<More(4, Fixed("Code", 1)), Fixed("Identifier", 1), Fixed("Length", 2),
    NoFloor(Total(4, Counted("Payload", "Length")))>>

\* PAP: the second length is read without a check.

NewPAPFields ==
  ValuesOf([PeerIDLength |-> {1}, PeerID |-> 0 .. 2, PasswordLength |-> {1}, Password |-> 0 .. 2])
MarshalToPAPFields ==
  <<Fixed("PeerIDLength", 1), All("PeerID"), Fixed("PasswordLength", 1), All("Password")>>
MarshalLenPAPFields == <<Fixed("PeerIDLength", 2), All("PeerID"), All("Password")>>
UnmarshalPAPFields ==
  <<More(1, Fixed("PeerIDLength", 1)), Counted("PeerID", "PeerIDLength"),
    Unchecked(Fixed("PasswordLength", 1)), Counted("Password", "PasswordLength")>>

\* CHAP.

NewCHAPFields ==
  {v \in ValuesOf([ValueSize |-> {1}, Value |-> 0 .. 2, Name |-> 0 .. 2]) : v.Value + v.Name > 0}
MarshalToCHAPFields == <<Fixed("ValueSize", 1), All("Value"), All("Name")>>
MarshalLenCHAPFields == <<Fixed("ValueSize", 1), All("Value"), All("Name")>>
UnmarshalCHAPFields ==
  <<More(1, Fixed("ValueSize", 1)), Counted("Value", "ValueSize"), Rest("Name")>>

\* IPCP options; their Length is a total as well.

NewIPCPOption == ValuesOf([Type |-> {1}, Length |-> {1}, Payload |-> {4, 16}])
MarshalToIPCPOption == <<Fixed("Type", 1), Fixed("Length", 1), All("Payload")>>
MarshalLenIPCPOption == <<Fixed("Type", 2), All("Payload")>>
UnmarshalIPCPOption ==
  <<More(2, Fixed("Type", 1)), Fixed("Length", 1), NoFloor(Total(2, Counted("Payload", "Length")))>>

-----------------------------------------------------------------------------

New ==
  [TrafficFlowTemplate |-> NewTrafficFlowTemplate, TFTPacketFilter |-> NewTFTPacketFilter,
   TFTPFComponent |-> NewTFTPFComponent, TFTParameter |-> NewTFTParameter,
   ProtocolConfigurationOptions |-> NewProtocolConfigurationOptions, PCOPPP |-> NewPCOPPP,
   PAPFields |-> NewPAPFields, CHAPFields |-> NewCHAPFields, IPCPOption |-> NewIPCPOption]

MarshalTo ==
  [TrafficFlowTemplate |-> MarshalToTrafficFlowTemplate, TFTPacketFilter |-> MarshalToTFTPacketFilter,
   TFTPFComponent |-> MarshalToTFTPFComponent, TFTParameter |-> MarshalToTFTParameter,
   ProtocolConfigurationOptions |-> MarshalToProtocolConfigurationOptions, PCOPPP |-> MarshalToPCOPPP,
   PAPFields |-> MarshalToPAPFields, CHAPFields |-> MarshalToCHAPFields,
   IPCPOption |-> MarshalToIPCPOption]

MarshalLen ==
  [TrafficFlowTemplate |-> MarshalLenTrafficFlowTemplate, TFTPacketFilter |-> MarshalLenTFTPacketFilter,
   TFTPFComponent |-> MarshalLenTFTPFComponent, TFTParameter |-> MarshalLenTFTParameter,
   ProtocolConfigurationOptions |-> MarshalLenProtocolConfigurationOptions, PCOPPP |-> MarshalLenPCOPPP,
   PAPFields |-> MarshalLenPAPFields, CHAPFields |-> MarshalLenCHAPFields,
   IPCPOption |-> MarshalLenIPCPOption]

Unmarshal ==
  [TrafficFlowTemplate |-> UnmarshalTrafficFlowTemplate, TFTPacketFilter |-> UnmarshalTFTPacketFilter,
   TFTPFComponent |-> UnmarshalTFTPFComponent, TFTParameter |-> UnmarshalTFTParameter,
   ProtocolConfigurationOptions |-> UnmarshalProtocolConfigurationOptions, PCOPPP |-> UnmarshalPCOPPP,
   PAPFields |-> UnmarshalPAPFields, CHAPFields |-> UnmarshalCHAPFields,
   IPCPOption |-> UnmarshalIPCPOption]

Accessors == [TFTPFComponent |-> AccessorsTFTPFComponent]

\* The defects named above.
Misread ==
  {<<"TFTPFComponent", "IPv6RemoteAddress">>, <<"ProtocolConfigurationOptions", "UnmarshalBinary">>}
Unread == {<<"TrafficFlowTemplate", "UnmarshalBinary">>}
Oversteps ==
  {<<"TrafficFlowTemplate", "UnmarshalBinary">>, <<"TFTPFComponent", "IPv6RemoteAddressPrefixLength">>,
   <<"TFTPFComponent", "IPv6LocalAddressPrefixLength">>, <<"TFTParameter", "UnmarshalBinary">>,
   <<"PAPFields", "UnmarshalBinary">>, <<"PCOPPP", "UnmarshalBinary">>,
   <<"IPCPOption", "UnmarshalBinary">>}

=============================================================================
