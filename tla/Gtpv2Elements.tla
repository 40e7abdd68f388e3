---------------------------- MODULE Gtpv2Elements ----------------------------
(***************************************************************************)
(* The information elements of GTPv2 that have several fields (gtpv2/ie), as *)
(* tables of octets.  NewX is the set of values it can build, with addresses *)
(* that are IPv4 or IPv6 addresses.  Fields that share an octet are one field*)
(* unless a property is about them.  MustX and the struct getters only call  *)
(* what is here.                                                             *)
(***************************************************************************)
EXTENDS ElementTable

LOCAL INSTANCE SequencesExt

-----------------------------------------------------------------------------
\* F-TEID (f-teid.go).  Flags stands for the first octet.

NewFullyQualifiedTEID ==
  ValuesOf([Flags |-> {1}, TEIDGREKey |-> {4}, IPv4Address |-> {0, 4}, IPv6Address |-> {0, 16}])
MarshalToFullyQualifiedTEID ==
  <<Fixed("Flags", 1), Fixed("TEIDGREKey", 4), Optional("IPv4Address", 4), Optional("IPv6Address", 16)>>
MarshalLenFullyQualifiedTEID ==
  <<Fixed("Flags", 5), Optional("IPv4Address", 4), Optional("IPv6Address", 16)>>
\* Mutant: the IPv6 address first.
UnmarshalFullyQualifiedTEIDSwapped ==
  <<Fixed("Flags", 1), Fixed("TEIDGREKey", 4), If("IPv6Address", 16, "Flags"),
    If("IPv4Address", 4, "Flags")>>
UnmarshalFullyQualifiedTEID ==
  <<Fixed("Flags", 1), Fixed("TEIDGREKey", 4), If("IPv4Address", 4, "Flags"),
    If("IPv6Address", 16, "Flags")>>
AccessorsFullyQualifiedTEID ==
  [InterfaceType |-> <<Fixed("Flags", 1)>>,
   TEID |-> <<Skip(1), Fixed("TEIDGREKey", 4)>>,
   GREKey |-> <<Skip(1), More(1, Fixed("TEIDGREKey", 4))>>]

\* S1-U Data Forwarding (s1udf.go).  TEID takes the EPS bearer ID for the length of the
\* address.

NewS1UDataForwarding ==
  ValuesOf([EPSBearerID |-> {1}, AddressLength |-> {1}, Address |-> {4, 16}, TEID |-> {4}])
MarshalToS1UDataForwarding ==
  <<Fixed("EPSBearerID", 1), Fixed("AddressLength", 1), All("Address"), Fixed("TEID", 4)>>
MarshalLenS1UDataForwarding ==
  <<Fixed("EPSBearerID", 2), All("Address"), Fixed("TEID", 4)>>
UnmarshalS1UDataForwarding ==
  <<More(1, Fixed("EPSBearerID", 1)), Fixed("AddressLength", 1), Counted("Address", "AddressLength"),
    Fixed("TEID", 4)>>
IPOfS1UDataForwarding ==
  <<Skip(1), More(2, Fixed("AddressLength", 1)), Counted("Address", "AddressLength")>>
TEIDOfS1UDataForwarding ==
  <<More(4, Fixed("AddressLength", 1)), Past(Counted("Address", "AddressLength")), Fixed("TEID", 4)>>
AccessorsS1UDataForwarding == [IP |-> IPOfS1UDataForwarding, TEID |-> TEIDOfS1UDataForwarding]

\* S103 PDN Data Forwarding Info (s103pdf.go).  UnmarshalBinary reads the number of bearer
\* IDs without a check, and stores them in a slice that it has not made.

NewS103PDNDataForwardingInfo ==
  ValuesOf([AddressLength |-> {1}, Address |-> {4, 16}, GREKey |-> {4}, Number |-> {1}, EBIs |-> 0 .. 2])
MarshalToS103PDNDataForwardingInfo ==
  <<Fixed("AddressLength", 1), All("Address"), Fixed("GREKey", 4), Fixed("Number", 1), All("EBIs")>>
MarshalLenS103PDNDataForwardingInfo ==
  <<Fixed("AddressLength", 1), All("Address"), Fixed("GREKey", 5), All("EBIs")>>
UnmarshalS103PDNDataForwardingInfo ==
  <<More(1, Fixed("AddressLength", 1)), Counted("Address", "AddressLength"), Fixed("GREKey", 4),
    Unchecked(Fixed("Number", 1)), NoRoom(Counted("EBIs", "Number"))>>
IPOfS103PDNDataForwardingInfo ==
  <<More(3, Fixed("AddressLength", 1)), Counted("Address", "AddressLength")>>
GREKeyOfS103PDNDataForwardingInfo ==
  <<More(5, Fixed("AddressLength", 1)), Past(Counted("Address", "AddressLength")), Fixed("GREKey", 4)>>
EBIsOfS103PDNDataForwardingInfo ==
  <<Fixed("AddressLength", 1), Past(Counted("Address", "AddressLength")), Fixed("GREKey", 4),
    Unchecked(Fixed("Number", 1)), UpTo("EBIs", "Number")>>
AccessorsS103PDNDataForwardingInfo ==
  [IP |-> IPOfS103PDNDataForwardingInfo, GREKey |-> GREKeyOfS103PDNDataForwardingInfo,
   EBIs |-> EBIsOfS103PDNDataForwardingInfo]

\* FQ-CSID (fq-csid.go), with a node ID of 4 octets or an IPv6 address; an ID of another
\* type may have other lengths, which neither MarshalLen nor UnmarshalBinary allows for.

NewFullyQualifiedCSID ==
  {v \in ValuesOf([TypeAndNumber |-> {1}, NodeID |-> {4, 16}, CSID1 |-> {0, 2}, CSID2 |-> {0, 2}]) :
     v.CSID2 > 0 => v.CSID1 > 0}
MarshalToFullyQualifiedCSID ==
  <<Fixed("TypeAndNumber", 1), All("NodeID"), Optional("CSID1", 2), Optional("CSID2", 2)>>
MarshalLenFullyQualifiedCSID ==
  <<Fixed("TypeAndNumber", 1), All("NodeID"), Optional("CSID1", 2), Optional("CSID2", 2)>>
UnmarshalFullyQualifiedCSID ==
  <<Fixed("TypeAndNumber", 1), Counted("NodeID", "TypeAndNumber"),
    OrEnd(Fixed("CSID1", 2)), OrEnd(Fixed("CSID2", 2))>>
AccessorsFullyQualifiedCSID ==
  [NodeIDType |-> <<Fixed("TypeAndNumber", 1)>>,
   NodeID |-> <<Fixed("TypeAndNumber", 1), More(1, Counted("NodeID", "TypeAndNumber"))>>,
   CSIDs |-> <<Fixed("TypeAndNumber", 1), Past(Counted("NodeID", "TypeAndNumber")),
               OrEnd(Fixed("CSID1", 2)), OrEnd(Fixed("CSID2", 2))>>]

\* PDN Address Allocation (paa.go).

NewPDNAddressAllocation ==
  {v \in ValuesOf([PDNType |-> {1}, Prefix |-> {0, 1}, IPv6Address |-> {0, 16}, IPv4Address |-> {0, 4}]) :
     v.Prefix = 0 <=> v.IPv6Address = 0}
MarshalToPDNAddressAllocation ==
  <<Fixed("PDNType", 1), Optional("Prefix", 1), Optional("IPv6Address", 16), Optional("IPv4Address", 4)>>
\* Mutant: the prefix length is not counted.
MarshalLenPDNAddressAllocationNoPrefix ==
  <<Fixed("PDNType", 1), When("IPv6Address", Fixed("Prefix", 16)), Optional("IPv4Address", 4)>>
MarshalLenPDNAddressAllocation ==
  <<Fixed("PDNType", 1), When("IPv6Address", Fixed("Prefix", 17)), Optional("IPv4Address", 4)>>
UnmarshalPDNAddressAllocation ==
  <<Fixed("PDNType", 1), If("Prefix", 1, "PDNType"), If("IPv6Address", 16, "PDNType"),
    If("IPv4Address", 4, "PDNType")>>

-----------------------------------------------------------------------------
\* Elements with a PLMN, of three octets.

\* GUTI (guti.go).  UnmarshalBinary takes the PLMN from the second octet on.

NewGUTI == ValuesOf([PLMN |-> {3}, MMEGroupID |-> {2}, MMECode |-> {1}, MTMSI |-> {4}])
MarshalToGUTI ==
  <<Fixed("PLMN", 3), Fixed("MMEGroupID", 2), Fixed("MMECode", 1), Fixed("MTMSI", 4)>>
MarshalLenGUTI == <<Fixed("PLMN", 10)>>
UnmarshalGUTI ==
  <<At(2, 4, Fixed("PLMN", 3)), Fixed("MMEGroupID", 2), Fixed("MMECode", 1), Fixed("MTMSI", 4)>>
AccessorsGUTI ==
  [MMEGroupID |-> <<Skip(3), Fixed("MMEGroupID", 2)>>,
   MMECode |-> <<Skip(5), Fixed("MMECode", 1)>>,
   MTMSI |-> <<Skip(6), Fixed("MTMSI", 4)>>]

\* User CSG Information (uci.go).  UnmarshalBinary asks for seven octets and reads eight.

NewUserCSGInformation == ValuesOf([PLMN |-> {3}, CSGID |-> {4}, AccessMode |-> {1}])
MarshalToUserCSGInformation == <<Fixed("PLMN", 3), Fixed("CSGID", 4), Fixed("AccessMode", 1)>>
MarshalLenUserCSGInformation == <<Fixed("PLMN", 8)>>
UnmarshalUserCSGInformation ==
  <<Fixed("PLMN", 3), Fixed("CSGID", 4), Unchecked(Fixed("AccessMode", 1))>>
AccessorsUserCSGInformation == [AccessMode |-> <<Skip(7), Fixed("AccessMode", 1)>>]

\* Trace Reference (trace-reference.go).

NewTraceReference == ValuesOf([PLMN |-> {3}, TraceID |-> {3}])
MarshalToTraceReference == <<Fixed("PLMN", 3), Fixed("TraceID", 3)>>
MarshalLenTraceReference == <<Fixed("PLMN", 6)>>
UnmarshalTraceReference == <<Fixed("PLMN", 3), Fixed("TraceID", 3)>>
AccessorsTraceReference == [TraceID |-> <<Skip(3), Fixed("TraceID", 3)>>]

\* User Location Information (uli.go): any one or two locations, or all.

LocationOctets ==
  [CGI |-> 7, SAI |-> 7, RAI |-> 7, TAI |-> 5, ECGI |-> 7, LAI |-> 5, MENBI |-> 6, EMENBI |-> 6]
Locations == DOMAIN LocationOctets
NewUserLocationInformation ==
  {[f \in Locations |-> IF f \in there THEN LocationOctets[f] ELSE 0] @@ [Flags |-> 1] :
     there \in {{f, g} : f, g \in Locations} \cup {{}, Locations}}
MarshalToUserLocationInformation ==
  <<Fixed("Flags", 1), Optional("CGI", 7), Optional("SAI", 7), Optional("RAI", 7), Optional("TAI", 5),
    Optional("ECGI", 7), Optional("LAI", 5), Optional("MENBI", 6), Optional("EMENBI", 6)>>
MarshalLenUserLocationInformation ==
  <<Fixed("Flags", 1), Optional("CGI", 7), Optional("SAI", 7), Optional("RAI", 7), Optional("TAI", 5),
    Optional("ECGI", 7), Optional("LAI", 5), Optional("MENBI", 6), Optional("EMENBI", 6)>>
UnmarshalUserLocationInformation ==
  <<Fixed("Flags", 1), If("CGI", 7, "Flags"), If("SAI", 7, "Flags"), If("RAI", 7, "Flags"),
    If("TAI", 5, "Flags"), If("ECGI", 7, "Flags"), If("LAI", 5, "Flags"), If("MENBI", 6, "Flags"),
    If("EMENBI", 6, "Flags")>>

\* The digits of a PLMN (utils.go): a unit is half an octet, the upper half first.

NewServingNetwork ==
  {v \in ValuesOf([f \in {"MCC1", "MCC2", "MCC3", "MNC1", "MNC2"} |-> {1}]
                    @@ [MNC3 |-> {0, 1}, filler |-> {0, 1}]) : v.MNC3 + v[Filler] = 1}
MarshalToServingNetwork ==
  <<Fixed("MCC2", 1), Fixed("MCC1", 1), Optional("MNC3", 1), Optional(Filler, 1), Fixed("MCC3", 1),
    Fixed("MNC2", 1), Fixed("MNC1", 1)>>
MarshalLenServingNetwork == <<Fixed("MCC2", 6)>>
ReadServingNetwork ==
  <<More(5, Fixed("MCC2", 1)), Fixed("MCC1", 1), Optional("MNC3", 1), Past(Optional(Filler, 1)),
    Fixed("MCC3", 1), Fixed("MNC2", 1), Fixed("MNC1", 1)>>

\* An IMSI of 15 digits, the last of which is written with a filler (imsi.go).  The
\* reader always takes the last half octet for one, so that one of 14 loses a digit.

NewIMSI == {[digits |-> 15, filler |-> 1]}
MarshalToIMSI == <<All("digits"), All(Filler)>>
MarshalLenIMSI == <<Fixed("digits", 16)>>
ReadIMSI == <<More(1, Rest("digits"))>>

-----------------------------------------------------------------------------
\* Others.

\* RAN/NAS Cause (ran-nas-cause.go).  UnmarshalBinary refuses one without a cause, which
\* MarshalTo writes.

NewRANNASCause == ValuesOf([Types |-> {1}, Cause |-> 0 .. 2])
MarshalToRANNASCause == <<Fixed("Types", 1), All("Cause")>>
MarshalLenRANNASCause == <<Fixed("Types", 1), All("Cause")>>
UnmarshalRANNASCause == <<More(1, Fixed("Types", 1)), Rest("Cause")>>

\* Paging and Service Information (paging-and-service-information.go).  UnmarshalBinary
\* takes the flags from the octet of the bearer ID.

NewPagingAndServiceInformation ==
  ValuesOf([EPSBearerID |-> {1}, Flags |-> {1}, PagingPolicy |-> {0, 1}])
MarshalToPagingAndServiceInformation ==
  <<Fixed("EPSBearerID", 1), Fixed("Flags", 1), Optional("PagingPolicy", 1)>>
MarshalLenPagingAndServiceInformation == <<Fixed("EPSBearerID", 2), Optional("PagingPolicy", 1)>>
UnmarshalPagingAndServiceInformation ==
  <<More(1, Fixed("EPSBearerID", 1)), At(1, 1, Fixed("Flags", 1)), If("PagingPolicy", 1, "Flags")>>

\* Bearer QoS (bearer-qos.go) and Flow QoS (flow-qos.go).  MBRForUplink of a Flow QoS
\* reads four of five octets, from the second on.

Rates == <<"MBRForUplink", "MBRForDownlink", "GBRForUplink", "GBRForDownlink">>
RateFields == [n \in DOMAIN Rates |-> Fixed(Rates[n], 5)]

NewBearerQoS == ValuesOf([ARP |-> {1}, QCI |-> {1}] @@ [f \in ToSet(Rates) |-> {5}])
MarshalToBearerQoS == <<Fixed("ARP", 1), Fixed("QCI", 1)>> \o RateFields
MarshalLenBearerQoS == <<Fixed("ARP", 22)>>
UnmarshalBearerQoS == <<More(21, Fixed("ARP", 1)), Fixed("QCI", 1)>> \o RateFields
AccessorsBearerQoS ==
  [QCILabel |-> <<Skip(1), Fixed("QCI", 1)>>,
   MBRForUplink |-> <<Skip(2), Fixed("MBRForUplink", 5)>>,
   MBRForDownlink |-> <<Skip(7), Fixed("MBRForDownlink", 5)>>,
   GBRForUplink |-> <<Skip(12), Fixed("GBRForUplink", 5)>>,
   GBRForDownlink |-> <<Skip(17), Fixed("GBRForDownlink", 5)>>]

NewFlowQoS == ValuesOf([QCI |-> {1}] @@ [f \in ToSet(Rates) |-> {5}])
MarshalToFlowQoS == <<Fixed("QCI", 1)>> \o RateFields
MarshalLenFlowQoS == <<Fixed("QCI", 21)>>
UnmarshalFlowQoS == <<More(20, Fixed("QCI", 1))>> \o RateFields
AccessorsFlowQoS ==
  [QCILabel |-> <<Fixed("QCI", 1)>>,
   MBRForUplink |-> <<Skip(1), At(3, 6, Fixed("MBRForUplink", 5))>>,
   MBRForDownlink |-> <<Skip(6), Fixed("MBRForDownlink", 5)>>,
   GBRForUplink |-> <<Skip(11), Fixed("GBRForUplink", 5)>>,
   GBRForDownlink |-> <<Skip(16), Fixed("GBRForDownlink", 5)>>]

\* Aggregate Maximum Bit Rate (ambr.go).

NewAggregateMaximumBitRate == ValuesOf([Uplink |-> {4}, Downlink |-> {4}])
MarshalToAggregateMaximumBitRate == <<Fixed("Uplink", 4), Fixed("Downlink", 4)>>
MarshalLenAggregateMaximumBitRate == <<Fixed("Uplink", 8)>>
UnmarshalAggregateMaximumBitRate == <<More(4, Fixed("Uplink", 4)), Fixed("Downlink", 4)>>
AccessorsAggregateMaximumBitRate ==
  [Up |-> <<Fixed("Uplink", 4)>>, Down |-> <<Skip(4), Fixed("Downlink", 4)>>]

-----------------------------------------------------------------------------
\* Flags: a unit is a bit, the highest of an octet first.

\* Cause (cause.go).  The Has functions ask for one octet and read the second one, and
\* HasCS and HasBCE are mixed up, as are IsRemoteCause and IsPDNConnectionIEError.

NewCause ==
  ValuesOf([Cause |-> {8}, filler |-> {5}, PCE |-> {1}, BCE |-> {1}, CS |-> {1}, OffendingIE |-> {0, 32}])
MarshalToCause ==
  <<Fixed("Cause", 8), Fixed(Filler, 5), Fixed("PCE", 1), Fixed("BCE", 1), Fixed("CS", 1),
    Optional("OffendingIE", 32)>>
MarshalLenCause == <<Fixed("Cause", 16), Optional("OffendingIE", 32)>>
CauseFlag(f, bit) == <<Fixed("Cause", 8), Skip(8 - bit), Unchecked(Fixed(f, 1))>>
CauseBit(f, bit) == <<Skip(16 - bit), Fixed(f, 1)>>
AccessorsCause ==
  [Cause |-> <<Fixed("Cause", 8)>>,
   HasCS |-> CauseFlag("CS", 2), HasBCE |-> CauseFlag("BCE", 1), HasPCE |-> CauseFlag("PCE", 3),
   IsRemoteCause |-> CauseBit("CS", 3), IsBearerContextIEError |-> CauseBit("BCE", 2),
   IsPDNConnectionIEError |-> CauseBit("PCE", 1),
   OffendingIE |-> <<Skip(16), Fixed("OffendingIE", 32)>>]

\* Indication (indication.go): the flags of each octet from the first bit on, first as
\* NewIndication sets them, then as the Has functions read them.

NewIndication ==
  << <<"SGWCI", "ISRAI", "ISRSI", "OI", "DFI", "HI", "DTF", "DAF">>,
     <<"MSV", "SI", "PT", "PS", "CRSI", "CFSI", "UIMSI", "SQCI">>,
     <<"CCRSI", "ISRAU", "MBMDT", "S4AF", "S6AF", "SRNI", "PBIC", "RETLOC">>,
     <<"CPSR", "CLII", "CSFBI", "PPSI", "PPON", "PPOF", "ARRL", "CPRAI">>,
     <<"AOPI", "AOSI", "PCRI", "PSCI", "BDWI", "DTCI", "UACI", "NSI">>,
     <<"WPMSI", "UNACCSI", "PNSI", "S11TF", "PMTMSI", "CPOPCI", "EPCOSI", "ROAAI">>,
     <<"TSPCMI", "ENBCRSI", "LTEMPI", "LTEMUI", "EEVRSI", "5GSIWK", "REPREFI", "5GSNN26">>,
     <<"ETHPDN", "5SRHOI", "5GCNRI", "5GCNRS", "N5GNMI", "MTEDTA", "MTEDTN", "CSRMFI">>,
     <<"EMCI", "SP92", "SP93", "SP94", "SP95", "SP96", "SP97", "SP98">> >>

HasInOctet1 == <<"SGWCI", "ISRAI", "ISRSI", "OI", "DFI", "HI", "DTF", "DAF">>
HasInOctet2 == <<"MSV", "SI", "PT", "PS", "CRSI", "CFSI", "UIMSI", "SQCI">>
HasInOctet3 == <<"CCRSI", "ISRAU", "MBMDT", "S4AF", "S6AF", "SRNI", "PBIC", "RETLOC">>
HasInOctet4 == <<"CPSR", "CLII", "CSFBI", "PPSI", "PPON", "PPOF", "ARRL", "CPRAI">>
HasInOctet5 == <<"AOPI", "AOSI", "PCRI", "PSCI", "BDWI", "DTCI", "UACI", "NSI">>
HasInOctet6 == <<"WPMSI", "UNACCSI", "PNSI", "S11TF", "PMTMSI", "CPOPCI", "EPCOSI", "ROAAI">>
HasInOctet7 == <<"TSPCMI", "ENBCRSI", "LTEMPI", "LTEMUI", "EEVRSI", "5GSIWK", "REPREFI", "5GSNN26">>
HasInOctet8 == <<"ETHPDN", "5SRHOI", "5GCNRI", "5GCNRS", "N5GNMI", "MTEDTA", "MTEDTN", "CSRMFI">>
HasInOctet9 == <<"EMCI">>

AllFlags == FlattenSeq([n \in DOMAIN NewIndication |-> Reverse(NewIndication[n])])
MarshalToIndication == [n \in DOMAIN AllFlags |-> Fixed(AllFlags[n], 1)]
MarshalLenIndication == <<Fixed("DAF", 72)>>

HasFlags(octet, flags) ==
  [f \in ToSet(flags) |-> <<Skip(8 * octet - CHOOSE n \in DOMAIN flags : flags[n] = f), Fixed(f, 1)>>]
AccessorsIndication ==
  HasFlags(1, HasInOctet1) @@ HasFlags(2, HasInOctet2) @@ HasFlags(3, HasInOctet3)
    @@ HasFlags(4, HasInOctet4) @@ HasFlags(5, HasInOctet5) @@ HasFlags(6, HasInOctet6)
    @@ HasFlags(7, HasInOctet7) @@ HasFlags(8, HasInOctet8) @@ HasFlags(9, HasInOctet9)

-----------------------------------------------------------------------------

New ==
  [FullyQualifiedTEID |-> NewFullyQualifiedTEID, S1UDataForwarding |-> NewS1UDataForwarding,
   S103PDNDataForwardingInfo |-> NewS103PDNDataForwardingInfo,
   FullyQualifiedCSID |-> NewFullyQualifiedCSID, PDNAddressAllocation |-> NewPDNAddressAllocation,
   GUTI |-> NewGUTI, UserCSGInformation |-> NewUserCSGInformation, TraceReference |-> NewTraceReference,
   UserLocationInformation |-> NewUserLocationInformation, ServingNetwork |-> NewServingNetwork,
   IMSI |-> NewIMSI, RANNASCause |-> NewRANNASCause,
   PagingAndServiceInformation |-> NewPagingAndServiceInformation, BearerQoS |-> NewBearerQoS,
   FlowQoS |-> NewFlowQoS, AggregateMaximumBitRate |-> NewAggregateMaximumBitRate, Cause |-> NewCause,
   Indication |-> ValuesOf([f \in ToSet(AllFlags) |-> {1}])]

MarshalTo ==
  [FullyQualifiedTEID |-> MarshalToFullyQualifiedTEID, S1UDataForwarding |-> MarshalToS1UDataForwarding,
   S103PDNDataForwardingInfo |-> MarshalToS103PDNDataForwardingInfo,
   FullyQualifiedCSID |-> MarshalToFullyQualifiedCSID,
   PDNAddressAllocation |-> MarshalToPDNAddressAllocation, GUTI |-> MarshalToGUTI,
   UserCSGInformation |-> MarshalToUserCSGInformation, TraceReference |-> MarshalToTraceReference,
   UserLocationInformation |-> MarshalToUserLocationInformation,
   ServingNetwork |-> MarshalToServingNetwork, IMSI |-> MarshalToIMSI,
   RANNASCause |-> MarshalToRANNASCause,
   PagingAndServiceInformation |-> MarshalToPagingAndServiceInformation,
   BearerQoS |-> MarshalToBearerQoS, FlowQoS |-> MarshalToFlowQoS,
   AggregateMaximumBitRate |-> MarshalToAggregateMaximumBitRate, Cause |-> MarshalToCause,
   Indication |-> MarshalToIndication]

MarshalLen ==
  [FullyQualifiedTEID |-> MarshalLenFullyQualifiedTEID, S1UDataForwarding |-> MarshalLenS1UDataForwarding,
   S103PDNDataForwardingInfo |-> MarshalLenS103PDNDataForwardingInfo,
   FullyQualifiedCSID |-> MarshalLenFullyQualifiedCSID,
   PDNAddressAllocation |-> MarshalLenPDNAddressAllocation, GUTI |-> MarshalLenGUTI,
   UserCSGInformation |-> MarshalLenUserCSGInformation, TraceReference |-> MarshalLenTraceReference,
   UserLocationInformation |-> MarshalLenUserLocationInformation,
   ServingNetwork |-> MarshalLenServingNetwork, IMSI |-> MarshalLenIMSI,
   RANNASCause |-> MarshalLenRANNASCause,
   PagingAndServiceInformation |-> MarshalLenPagingAndServiceInformation,
   BearerQoS |-> MarshalLenBearerQoS, FlowQoS |-> MarshalLenFlowQoS,
   AggregateMaximumBitRate |-> MarshalLenAggregateMaximumBitRate, Cause |-> MarshalLenCause,
   Indication |-> MarshalLenIndication]

Unmarshal ==
  [FullyQualifiedTEID |-> UnmarshalFullyQualifiedTEID, S1UDataForwarding |-> UnmarshalS1UDataForwarding,
   S103PDNDataForwardingInfo |-> UnmarshalS103PDNDataForwardingInfo,
   FullyQualifiedCSID |-> UnmarshalFullyQualifiedCSID,
   PDNAddressAllocation |-> UnmarshalPDNAddressAllocation, GUTI |-> UnmarshalGUTI,
   UserCSGInformation |-> UnmarshalUserCSGInformation, TraceReference |-> UnmarshalTraceReference,
   UserLocationInformation |-> UnmarshalUserLocationInformation,
   RANNASCause |-> UnmarshalRANNASCause,
   PagingAndServiceInformation |-> UnmarshalPagingAndServiceInformation,
   BearerQoS |-> UnmarshalBearerQoS, FlowQoS |-> UnmarshalFlowQoS,
   AggregateMaximumBitRate |-> UnmarshalAggregateMaximumBitRate]

Accessors ==
  [FullyQualifiedTEID |-> AccessorsFullyQualifiedTEID, S1UDataForwarding |-> AccessorsS1UDataForwarding,
   S103PDNDataForwardingInfo |-> AccessorsS103PDNDataForwardingInfo,
   FullyQualifiedCSID |-> AccessorsFullyQualifiedCSID, GUTI |-> AccessorsGUTI,
   UserCSGInformation |-> AccessorsUserCSGInformation, TraceReference |-> AccessorsTraceReference,
   ServingNetwork |-> [ServingNetwork |-> ReadServingNetwork], IMSI |-> [IMSI |-> ReadIMSI],
   BearerQoS |-> AccessorsBearerQoS, FlowQoS |-> AccessorsFlowQoS,
   AggregateMaximumBitRate |-> AccessorsAggregateMaximumBitRate, Cause |-> AccessorsCause,
   Indication |-> AccessorsIndication]

Unit == [ServingNetwork |-> 2, IMSI |-> 2, Cause |-> 8, Indication |-> 8]

\* The defects named above: these read something else than what was written, these do not
\* get all of an element or refuse it, and these read beyond its octets.
Misread ==
  {<<"S1UDataForwarding", "TEID">>, <<"GUTI", "UnmarshalBinary">>,
   <<"PagingAndServiceInformation", "UnmarshalBinary">>, <<"FlowQoS", "MBRForUplink">>,
   <<"Cause", "HasCS">>, <<"Cause", "HasBCE">>, <<"Cause", "IsRemoteCause">>,
   <<"Cause", "IsPDNConnectionIEError">>}
Unread ==
  {<<"FullyQualifiedTEID", "GREKey">>, <<"FullyQualifiedCSID", "NodeID">>,
   <<"RANNASCause", "UnmarshalBinary">>}
Oversteps ==
  {<<"S103PDNDataForwardingInfo", "UnmarshalBinary">>, <<"S103PDNDataForwardingInfo", "EBIs">>,
   <<"GUTI", "UnmarshalBinary">>, <<"UserCSGInformation", "UnmarshalBinary">>, <<"Cause", "HasCS">>,
   <<"Cause", "HasBCE">>, <<"Cause", "HasPCE">>}

=============================================================================
