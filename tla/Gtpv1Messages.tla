--------------------------- MODULE Gtpv1Messages ---------------------------
(* The control messages of gtpv1/message.  MessageTable says how to read them. *)
EXTENDS MessageTable

\* create-pdp-context-req.go
NewCreatePDPContextRequest ==
  Own({"IMSI", "Recovery", "SelectionMode", "TEIDDataI", "TEIDCPlane",
      "ChargingCharacteristics", "TraceReference", "TraceType", "EndUserAddress", "MSISDN",
      "QoSProfile", "TriggerID", "OMCIdentity", "CommonFlags", "APNRestriction", "RATType",
      "UserLocationInformation", "MSTimeZone", "CAMELChargingInformationContainer",
      "AdditionalTraceInfo", "CorrelationID", "ExtendedCommonFlags",
      "SignallingPriorityIndication", "CNOperatorSelectionEntity", "MappedUEUsageType",
      "UPFunctionSelectionIndicationFlags", "PrivateExtension"}) \cup {
    In("RouteingAreaIdentity", "RAI"),
    InFree("NSAPI", <<"NSAPI", "LinkedNSAPI">>, AdditionalIEs), In("AccessPointName", "APN"),
    In("ProtocolConfigurationOptions", "PCO"), InFree("GSNAddress",
        <<"SGSNAddressForSignalling", "SGSNAddressForUserTraffic">>, AdditionalIEs),
    In("TrafficFlowTemplate", "TFT"), In("IMEISV", "IMEI"),
    In("EvolvedAllocationRetentionPriorityI", "EvolvedARPI"),
    In("UserCSGInformation", "UCI"), In("AggregateMaximumBitRate", "APNAMBR")}
UnmarshalCreatePDPContextRequest == NewCreatePDPContextRequest
MarshalToCreatePDPContextRequest ==
  <<"IMSI", "RAI", "Recovery", "SelectionMode", "TEIDDataI", "TEIDCPlane", "NSAPI",
    "LinkedNSAPI", "ChargingCharacteristics", "TraceReference", "TraceType",
    "EndUserAddress", "APN", "PCO", "SGSNAddressForSignalling", "SGSNAddressForUserTraffic",
    "MSISDN", "QoSProfile", "TFT", "TriggerID", "OMCIdentity", "CommonFlags",
    "APNRestriction", "RATType", "UserLocationInformation", "MSTimeZone", "IMEI",
    "CAMELChargingInformationContainer", "AdditionalTraceInfo", "CorrelationID",
    "EvolvedARPI", "ExtendedCommonFlags", "UCI", "APNAMBR", "SignallingPriorityIndication",
    "CNOperatorSelectionEntity", "MappedUEUsageType", "UPFunctionSelectionIndicationFlags",
    "PrivateExtension", AdditionalIEs>>
MarshalLenCreatePDPContextRequest ==
  <<"IMSI", "RAI", "Recovery", "SelectionMode", "TEIDDataI", "TEIDCPlane", "NSAPI",
    "LinkedNSAPI", "ChargingCharacteristics", "TraceReference", "TraceType", "EndUserAddress",
    "APN", "PCO", "SGSNAddressForSignalling", "SGSNAddressForUserTraffic", "MSISDN",
    "QoSProfile", "TFT", "TriggerID", "OMCIdentity", "CommonFlags", "APNRestriction",
    "RATType", "UserLocationInformation", "MSTimeZone", "IMEI",
    "CAMELChargingInformationContainer", "AdditionalTraceInfo", "CorrelationID", "EvolvedARPI",
    "ExtendedCommonFlags", "UCI", "APNAMBR", "SignallingPriorityIndication",
    "CNOperatorSelectionEntity", "MappedUEUsageType", "UPFunctionSelectionIndicationFlags",
    "PrivateExtension", AdditionalIEs>>

\* create-pdp-context-res.go
NewCreatePDPContextResponse ==
  Own({"Cause", "ReorderingRequired", "Recovery", "TEIDDataI", "TEIDCPlane", "NSAPI",
      "ChargingID", "EndUserAddress", "QoSProfile", "CommonFlags", "APNRestriction",
      "MSInfoChangeReportingAction", "BearerControlMode", "CSGInformationReportingAction",
      "GGSNBackOffTime", "ExtendedCommonFlagsII", "PrivateExtension"}) \cup {
    In("ProtocolConfigurationOptions", "PCO"), InFree("GSNAddress", <<"GGSNAddressForCPlane",
        "GGSNAddressForUserTraffic", "AltGGSNAddressForCPlane",
        "AltGGSNAddressForUserTraffic">>, Dropped), InFree("ChargingGatewayAddress",
        <<"ChargingGatewayAddress", "AltChargingGatewayAddress">>, Dropped),
    In("EvolvedAllocationRetentionPriorityI", "EvolvedARPI"),
    In("ExtendedCommonFlags", "ExtendedCommonFlag"), In("AggregateMaximumBitRate", "APNAMBR")}
UnmarshalCreatePDPContextResponse == NewCreatePDPContextResponse
MarshalToCreatePDPContextResponse ==
  <<"Cause", "ReorderingRequired", "Recovery", "TEIDDataI", "TEIDCPlane", "NSAPI",
    "ChargingID", "EndUserAddress", "PCO", "GGSNAddressForCPlane",
    "GGSNAddressForUserTraffic", "AltGGSNAddressForCPlane", "AltGGSNAddressForUserTraffic",
    "QoSProfile", "ChargingGatewayAddress", "AltChargingGatewayAddress", "CommonFlags",
    "APNRestriction", "MSInfoChangeReportingAction", "BearerControlMode", "EvolvedARPI",
    "ExtendedCommonFlag", "CSGInformationReportingAction", "APNAMBR", "GGSNBackOffTime",
    "ExtendedCommonFlagsII", "PrivateExtension", AdditionalIEs>>
MarshalLenCreatePDPContextResponse ==
  <<"Cause", "ReorderingRequired", "Recovery", "TEIDDataI", "TEIDCPlane", "NSAPI",
    "ChargingID", "EndUserAddress", "PCO", "GGSNAddressForCPlane", "GGSNAddressForUserTraffic",
    "AltGGSNAddressForCPlane", "AltGGSNAddressForUserTraffic", "QoSProfile",
    "ChargingGatewayAddress", "AltChargingGatewayAddress", "CommonFlags", "APNRestriction",
    "MSInfoChangeReportingAction", "BearerControlMode", "EvolvedARPI", "ExtendedCommonFlag",
    "CSGInformationReportingAction", "APNAMBR", "GGSNBackOffTime", "ExtendedCommonFlagsII",
    "PrivateExtension", AdditionalIEs>>

\* delete-pdp-context-req.go
NewDeletePDPContextRequest ==
  Own({"Cause", "TeardownInd", "NSAPI", "MSTimeZone", "ExtendedCommonFlags", "ULITimestamp",
      "PrivateExtension"}) \cup {
    In("ProtocolConfigurationOptions", "PCO"), In("UserLocationInformation", "ULI")}
UnmarshalDeletePDPContextRequest == NewDeletePDPContextRequest
MarshalToDeletePDPContextRequest ==
  <<"Cause", "TeardownInd", "NSAPI", "PCO", "ULI", "MSTimeZone", "ExtendedCommonFlags",
    "ULITimestamp", "PrivateExtension", AdditionalIEs>>
MarshalLenDeletePDPContextRequest ==
  <<"Cause", "TeardownInd", "NSAPI", "PCO", "ULI", "MSTimeZone", "ExtendedCommonFlags",
    "ULITimestamp", "PrivateExtension", AdditionalIEs>>

\* delete-pdp-context-res.go
NewDeletePDPContextResponse ==
  Own({"Cause", "MSTimeZone", "ULITimestamp", "PrivateExtension"}) \cup {
    In("ProtocolConfigurationOptions", "PCO"), In("UserLocationInformation", "ULI")}
UnmarshalDeletePDPContextResponse == NewDeletePDPContextResponse
MarshalToDeletePDPContextResponse ==
  <<"Cause", "PCO", "ULI", "MSTimeZone", "ULITimestamp", "PrivateExtension", AdditionalIEs>>
MarshalLenDeletePDPContextResponse ==
  <<"Cause", "PCO", "ULI", "MSTimeZone", "ULITimestamp", "PrivateExtension", AdditionalIEs>>

\* echo-req.go
NewEchoRequest ==
  Own({"PrivateExtension"})
UnmarshalEchoRequest == NewEchoRequest
MarshalToEchoRequest ==
  <<"PrivateExtension", AdditionalIEs>>
MarshalLenEchoRequest ==
  <<"PrivateExtension", AdditionalIEs>>

\* echo-res.go
NewEchoResponse ==
  Own({"Recovery", "PrivateExtension"})
UnmarshalEchoResponse == NewEchoResponse
MarshalToEchoResponse ==
  <<"Recovery", "PrivateExtension", AdditionalIEs>>
MarshalLenEchoResponse ==
  <<"Recovery", "PrivateExtension", AdditionalIEs>>

\* error-indication.go
NewErrorIndication ==
  Own({"TEIDDataI", "PrivateExtension"}) \cup {
    In("GSNAddress", "GTPUPeerAddress")}
UnmarshalErrorIndication == NewErrorIndication
MarshalToErrorIndication ==
  <<"TEIDDataI", "GTPUPeerAddress", "PrivateExtension", AdditionalIEs>>
MarshalLenErrorIndication ==
  <<"TEIDDataI", "GTPUPeerAddress", "PrivateExtension", AdditionalIEs>>

\* update-pdp-context-req.go
NewUpdatePDPContextRequest ==
  Own({"IMSI", "Recovery", "TEIDDataI", "TEIDCPlane", "NSAPI", "TraceReference", "TraceType",
      "QoSProfile", "TriggerID", "OMCIdentity", "CommonFlags", "RATType", "MSTimeZone",
      "AdditionalTraceInfo", "DirectTunnelFlags", "ExtendedCommonFlags",
      "SignallingPriorityIndication", "CNOperatorSelectionEntity", "PrivateExtension"}) \cup {
    In("RouteingAreaIdentity", "RAI"), In("ProtocolConfigurationOptions", "PCO"),
    InFree("GSNAddress", <<"SGSNAddressForCPlane", "SGSNAddressForUserTraffic",
        "AlternativeSGSNAddressForCPlane", "AlternativeSGSNAddressForUserTraffic">>,
        Dropped), In("TrafficFlowTemplate", "TFT"), In("UserLocationInformation", "ULI"),
    In("EvolvedAllocationRetentionPriorityI", "EvolvedARPI"),
    In("UserCSGInformation", "UCI"), In("AggregateMaximumBitRate", "APNAMBR"),
    In("IMEISV", "IMEI")}
UnmarshalUpdatePDPContextRequest == NewUpdatePDPContextRequest
MarshalToUpdatePDPContextRequest ==
  <<"IMSI", "RAI", "Recovery", "TEIDDataI", "TEIDCPlane", "NSAPI", "TraceReference",
    "TraceType", "PCO", "SGSNAddressForCPlane", "SGSNAddressForUserTraffic",
    "AlternativeSGSNAddressForCPlane", "AlternativeSGSNAddressForUserTraffic", "QoSProfile",
    "TFT", "TriggerID", "OMCIdentity", "CommonFlags", "RATType", "ULI", "MSTimeZone",
    "AdditionalTraceInfo", "DirectTunnelFlags", "EvolvedARPI", "ExtendedCommonFlags", "UCI",
    "APNAMBR", "SignallingPriorityIndication", "CNOperatorSelectionEntity", "IMEI",
    "PrivateExtension", AdditionalIEs>>
MarshalLenUpdatePDPContextRequest ==
  <<"IMSI", "RAI", "Recovery", "TEIDDataI", "TEIDCPlane", "NSAPI", "TraceReference",
    "TraceType", "PCO", "SGSNAddressForCPlane", "SGSNAddressForUserTraffic",
    "AlternativeSGSNAddressForCPlane", "AlternativeSGSNAddressForUserTraffic", "QoSProfile",
    "TFT", "TriggerID", "OMCIdentity", "CommonFlags", "RATType", "ULI", "MSTimeZone",
    "AdditionalTraceInfo", "DirectTunnelFlags", "EvolvedARPI", "ExtendedCommonFlags", "UCI",
    "APNAMBR", "SignallingPriorityIndication", "CNOperatorSelectionEntity", "IMEI",
    "PrivateExtension", AdditionalIEs>>

\* update-pdp-context-res.go
NewUpdatePDPContextResponse ==
  Own({"Cause", "Recovery", "TEIDDataI", "TEIDCPlane", "ChargingID", "QoSProfile",
      "CommonFlags", "APNRestriction", "BearerControlMode", "MSInfoChangeReportingAction",
      "CSGInformationReportingAction", "PrivateExtension"}) \cup {
    In("ProtocolConfigurationOptions", "PCO"), InFree("GSNAddress", <<"GGSNAddressForCPlane",
        "GGSNAddressForUserTraffic", "AltGGSNAddressForCPlane",
        "AltGGSNAddressForUserTraffic">>, Dropped), InFree("ChargingGatewayAddress",
        <<"ChargingGatewayAddress", "AltChargingGatewayAddress">>, Dropped),
    In("EvolvedAllocationRetentionPriorityI", "EvolvedARPI"),
    In("AggregateMaximumBitRate", "APNAMBR")}
UnmarshalUpdatePDPContextResponse == NewUpdatePDPContextResponse
MarshalToUpdatePDPContextResponse ==
  <<"Cause", "Recovery", "TEIDDataI", "TEIDCPlane", "ChargingID", "PCO",
    "GGSNAddressForCPlane", "GGSNAddressForUserTraffic", "AltGGSNAddressForCPlane",
    "AltGGSNAddressForUserTraffic", "QoSProfile", "ChargingGatewayAddress",
    "AltChargingGatewayAddress", "CommonFlags", "APNRestriction", "BearerControlMode",
    "MSInfoChangeReportingAction", "EvolvedARPI", "CSGInformationReportingAction", "APNAMBR",
    "PrivateExtension", AdditionalIEs>>
MarshalLenUpdatePDPContextResponse ==
  <<"Cause", "Recovery", "TEIDDataI", "TEIDCPlane", "ChargingID", "PCO",
    "GGSNAddressForCPlane", "GGSNAddressForUserTraffic", "AltGGSNAddressForCPlane",
    "AltGGSNAddressForUserTraffic", "QoSProfile", "ChargingGatewayAddress",
    "AltChargingGatewayAddress", "CommonFlags", "APNRestriction", "BearerControlMode",
    "MSInfoChangeReportingAction", "EvolvedARPI", "CSGInformationReportingAction", "APNAMBR",
    "PrivateExtension", AdditionalIEs>>

\* version-not-supported.go
NewVersionNotSupported ==
  {}
UnmarshalVersionNotSupported == NewVersionNotSupported
MarshalToVersionNotSupported ==
  <<AdditionalIEs>>
MarshalLenVersionNotSupported ==
  <<AdditionalIEs>>

-----------------------------------------------------------------------------

New ==
  [CreatePDPContextRequest |-> NewCreatePDPContextRequest,
   CreatePDPContextResponse |-> NewCreatePDPContextResponse,
   DeletePDPContextRequest |-> NewDeletePDPContextRequest,
   DeletePDPContextResponse |-> NewDeletePDPContextResponse, EchoRequest |-> NewEchoRequest,
   EchoResponse |-> NewEchoResponse, ErrorIndication |-> NewErrorIndication,
   UpdatePDPContextRequest |-> NewUpdatePDPContextRequest,
   UpdatePDPContextResponse |-> NewUpdatePDPContextResponse,
   VersionNotSupported |-> NewVersionNotSupported]

Unmarshal ==
  [CreatePDPContextRequest |-> UnmarshalCreatePDPContextRequest,
   CreatePDPContextResponse |-> UnmarshalCreatePDPContextResponse,
   DeletePDPContextRequest |-> UnmarshalDeletePDPContextRequest,
   DeletePDPContextResponse |-> UnmarshalDeletePDPContextResponse,
   EchoRequest |-> UnmarshalEchoRequest, EchoResponse |-> UnmarshalEchoResponse,
   ErrorIndication |-> UnmarshalErrorIndication,
   UpdatePDPContextRequest |-> UnmarshalUpdatePDPContextRequest,
   UpdatePDPContextResponse |-> UnmarshalUpdatePDPContextResponse,
   VersionNotSupported |-> UnmarshalVersionNotSupported]

MarshalTo ==
  [CreatePDPContextRequest |-> MarshalToCreatePDPContextRequest,
   CreatePDPContextResponse |-> MarshalToCreatePDPContextResponse,
   DeletePDPContextRequest |-> MarshalToDeletePDPContextRequest,
   DeletePDPContextResponse |-> MarshalToDeletePDPContextResponse,
   EchoRequest |-> MarshalToEchoRequest, EchoResponse |-> MarshalToEchoResponse,
   ErrorIndication |-> MarshalToErrorIndication,
   UpdatePDPContextRequest |-> MarshalToUpdatePDPContextRequest,
   UpdatePDPContextResponse |-> MarshalToUpdatePDPContextResponse,
   VersionNotSupported |-> MarshalToVersionNotSupported]

MarshalLen ==
  [CreatePDPContextRequest |-> MarshalLenCreatePDPContextRequest,
   CreatePDPContextResponse |-> MarshalLenCreatePDPContextResponse,
   DeletePDPContextRequest |-> MarshalLenDeletePDPContextRequest,
   DeletePDPContextResponse |-> MarshalLenDeletePDPContextResponse,
   EchoRequest |-> MarshalLenEchoRequest, EchoResponse |-> MarshalLenEchoResponse,
   ErrorIndication |-> MarshalLenErrorIndication,
   UpdatePDPContextRequest |-> MarshalLenUpdatePDPContextRequest,
   UpdatePDPContextResponse |-> MarshalLenUpdatePDPContextResponse,
   VersionNotSupported |-> MarshalLenVersionNotSupported]

=============================================================================
