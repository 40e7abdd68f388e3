--------------------------- MODULE Gtpv2Messages ---------------------------
(* The 38 messages of gtpv2/message that are structs of their own.  MessageTable *)
(* says how to read the tables.                                                 *)
EXTENDS MessageTable

\* context-ack.go
NewContextAcknowledge ==
  Own({"Cause", "PrivateExtension"}) \cup {
    In("Indication", "IndicationFlags"), In("FullyQualifiedTEID", "ForwardingFTEID"),
    In("BearerContext", "BearerContexts"), ByInstance("NodeNumber", <<"SGSNNumber",
        "MMENumberForMTSMS">>, AdditionalIEs), ByInstance("NodeIdentifier",
        <<"SGSNIdentifierForMTSMS", "MMEIdentifierForMTSMS">>, AdditionalIEs)}
UnmarshalContextAcknowledge == NewContextAcknowledge
MarshalToContextAcknowledge ==
  <<"Cause", "IndicationFlags", "ForwardingFTEID", "BearerContexts", "SGSNNumber",
    "MMENumberForMTSMS", "SGSNIdentifierForMTSMS", "MMEIdentifierForMTSMS",
    "PrivateExtension", AdditionalIEs>>
MarshalLenContextAcknowledge ==
  <<"Cause", "IndicationFlags", "ForwardingFTEID", "BearerContexts", "SGSNNumber",
    "MMENumberForMTSMS", "SGSNIdentifierForMTSMS", "MMEIdentifierForMTSMS", "PrivateExtension",
    AdditionalIEs>>

\* context-req.go
NewContextRequest ==
  Own({"IMSI", "GUTI", "PTMSISignature", "RATType", "Indication", "HopCounter",
      "CIoTOptimizationsSupportIndication", "PrivateExtension"}) \cup {
    In("UserLocationInformation", "RAI"), In("PacketTMSI", "PTMSI"),
    In("CompleteRequestMessage", "CompleteTAURequestMessage"),
    In("FullyQualifiedTEID", "AddressAndTEIDForCPlane"),
    In("PortNumber", "UDPSourcePortNumber"), In("ServingNetwork", "TargetPLMNID"),
    In("LocalDistinguishedName", "MMESGSNLDN"), ByInstance("FullyQualifiedDomainName",
        <<"SGSNNodeName", "MMENodeName">>, AdditionalIEs), In("NodeNumber", "SGSNNumber"),
    ByInstance("NodeIdentifier", <<"SGSNIdentifier", "MMEIdentifier">>, AdditionalIEs)}
UnmarshalContextRequest == NewContextRequest
MarshalToContextRequest ==
  <<"IMSI", "GUTI", "RAI", "PTMSI", "PTMSISignature", "CompleteTAURequestMessage",
    "AddressAndTEIDForCPlane", "UDPSourcePortNumber", "RATType", "Indication", "HopCounter",
    "TargetPLMNID", "MMESGSNLDN", "SGSNNodeName", "MMENodeName", "SGSNNumber",
    "SGSNIdentifier", "MMEIdentifier", "CIoTOptimizationsSupportIndication",
    "PrivateExtension", AdditionalIEs>>
MarshalLenContextRequest ==
  <<"IMSI", "GUTI", "RAI", "PTMSI", "PTMSISignature", "CompleteTAURequestMessage",
    "AddressAndTEIDForCPlane", "UDPSourcePortNumber", "RATType", "Indication", "HopCounter",
    "TargetPLMNID", "MMESGSNLDN", "SGSNNodeName", "MMENodeName", "SGSNNumber",
    "SGSNIdentifier", "MMEIdentifier", "CIoTOptimizationsSupportIndication",
    "PrivateExtension", AdditionalIEs>>

\* context-res.go
NewContextResponse ==
  Own({"Cause", "IMSI", "TraceInformation", "UETimeZone", "MDTConfiguration",
      "MonitoringEventInformation", "MonitoringEventExtensionInformation",
      "SCEFPDNConnection", "RATType", "ServingPLMNRateControl", "ExtendedTraceInformation",
      "PrivateExtension"}) \cup {
    InTaken("MMContextEPSSecurityContextQuadrupletsAndQuintuplets", <<"UEMMContext">>,
        AdditionalIEs), InTaken("MMContextGSMKeyAndTriplets", <<"UEMMContext">>,
        AdditionalIEs), InTaken("MMContextGSMKeyUsedCipherAndQuintuplets", <<"UEMMContext">>,
        AdditionalIEs), InTaken("MMContextUMTSKeyAndQuintuplets", <<"UEMMContext">>,
        AdditionalIEs), InTaken("MMContextUMTSKeyQuadrupletsAndQuintuplets",
        <<"UEMMContext">>, AdditionalIEs),
    InTaken("MMContextUMTSKeyUsedCipherAndQuintuplets", <<"UEMMContext">>, AdditionalIEs),
    In("PDNConnection", "UEPDNConnections"), ByInstance("FullyQualifiedTEID",
        <<"SenderFTEID", "SGWS11S4FTEID">>, AdditionalIEs),
    ByInstance("FullyQualifiedDomainName", <<"SGWNodeName", "SGSNNodeName", "MMENodeName">>,
        AdditionalIEs), In("Indication", "IndicationFlags"), ByInstance("IPAddress",
        <<"S101IPAddress", "S102IPAddress">>, AdditionalIEs), ByInstance("RFSPIndex",
        <<"SubscribedRFSPIndex", "RFSPIndexInUse">>, AdditionalIEs),
    In("LocalDistinguishedName", "MMESGSNLDN"), In("UserCSGInformation", "UCI"),
    ByInstance("IntegerNumber", <<"UEUsageType", "RemainingRunningServiceGapTimer">>,
        AdditionalIEs), In("Counter", "MOExceptionDataCounter"),
    ByInstance("AdditionalRRMPolicyIndex", <<"SubscribedAdditionalRRMPolicyIndex",
        "AdditionalRRMPolicyIndexInUse">>, AdditionalIEs)}
UnmarshalContextResponse ==
  Own({"Cause", "IMSI", "TraceInformation", "UETimeZone", "MDTConfiguration",
      "MonitoringEventInformation", "SCEFPDNConnection", "RATType", "ServingPLMNRateControl",
      "ExtendedTraceInformation", "PrivateExtension"}) \cup {
    InTaken("MMContextEPSSecurityContextQuadrupletsAndQuintuplets", <<"UEMMContext">>,
        AdditionalIEs), InTaken("MMContextGSMKeyAndTriplets", <<"UEMMContext">>,
        AdditionalIEs), InTaken("MMContextGSMKeyUsedCipherAndQuintuplets", <<"UEMMContext">>,
        AdditionalIEs), InTaken("MMContextUMTSKeyAndQuintuplets", <<"UEMMContext">>,
        AdditionalIEs), InTaken("MMContextUMTSKeyQuadrupletsAndQuintuplets",
        <<"UEMMContext">>, AdditionalIEs),
    InTaken("MMContextUMTSKeyUsedCipherAndQuintuplets", <<"UEMMContext">>, AdditionalIEs),
    In("PDNConnection", "UEPDNConnections"), ByInstance("FullyQualifiedTEID",
        <<"SenderFTEID", "SGWS11S4FTEID">>, AdditionalIEs),
    ByInstance("FullyQualifiedDomainName", <<"SGWNodeName", "SGSNNodeName", "MMENodeName">>,
        AdditionalIEs), In("Indication", "IndicationFlags"), ByInstance("IPAddress",
        <<"S101IPAddress", "S102IPAddress">>, AdditionalIEs), ByInstance("RFSPIndex",
        <<"SubscribedRFSPIndex", "RFSPIndexInUse">>, AdditionalIEs),
    In("LocalDistinguishedName", "MMESGSNLDN"), In("UserCSGInformation", "UCI"),
    ByInstance("IntegerNumber", <<"UEUsageType", "RemainingRunningServiceGapTimer">>,
        AdditionalIEs), In("Counter", "MOExceptionDataCounter")}
MarshalToContextResponse ==
  <<"Cause", "IMSI", "UEMMContext", "UEPDNConnections", "SenderFTEID", "SGWS11S4FTEID",
    "SGWNodeName", "IndicationFlags", "TraceInformation", "S101IPAddress", "S102IPAddress",
    "SubscribedRFSPIndex", "RFSPIndexInUse", "UETimeZone", "MMESGSNLDN", "MDTConfiguration",
    "SGSNNodeName", "MMENodeName", "UCI", "MonitoringEventInformation", "UEUsageType",
    "SCEFPDNConnection", "RATType", "ServingPLMNRateControl", "MOExceptionDataCounter",
    "RemainingRunningServiceGapTimer", "ExtendedTraceInformation", "PrivateExtension",
    AdditionalIEs>>
MarshalLenContextResponse ==
  <<"Cause", "IMSI", "UEMMContext", "UEPDNConnections", "SenderFTEID", "SGWS11S4FTEID",
    "SGWNodeName", "IndicationFlags", "TraceInformation", "S101IPAddress", "S102IPAddress",
    "SubscribedRFSPIndex", "RFSPIndexInUse", "UETimeZone", "MMESGSNLDN", "MDTConfiguration",
    "SGSNNodeName", "MMENodeName", "UCI", "MonitoringEventInformation", "UEUsageType",
    "SCEFPDNConnection", "RATType", "ServingPLMNRateControl", "MOExceptionDataCounter",
    "RemainingRunningServiceGapTimer", "ExtendedTraceInformation", "PrivateExtension",
    AdditionalIEs>>

\* create-bearer-req.go
NewCreateBearerRequest ==
  Own({"ChangeReportingAction", "CSGInformationReportingAction", "HeNBInformationReporting",
      "PresenceReportingAreaAction", "PrivateExtension"}) \cup {
    In("ProcedureTransactionID", "PTI"), In("EPSBearerID", "LinkedEBI"),
    In("ProtocolConfigurationOptions", "PCO"), In("BearerContext", "BearerContexts"),
    ByInstance("FullyQualifiedCSID", <<"PGWFQCSID", "SGWFQCSID">>, AdditionalIEs),
    In("Indication", "IndicationFlags"), ByInstance("LoadControlInformation",
        <<"PGWNodeLoadControlInformation", "PGWAPNLoadControlInformation",
        "SGWNodeLoadControlInformation">>, AdditionalIEs),
    ByInstance("OverloadControlInformation", <<"PGWOverloadControlInformation",
        "SGWOverloadControlInformation">>, AdditionalIEs),
    In("FContainer", "NBIFOMContainer")}
UnmarshalCreateBearerRequest == NewCreateBearerRequest
MarshalToCreateBearerRequest ==
  <<"PTI", "LinkedEBI", "PCO", "BearerContexts", "PGWFQCSID", "SGWFQCSID",
    "ChangeReportingAction", "CSGInformationReportingAction", "HeNBInformationReporting",
    "PresenceReportingAreaAction", "IndicationFlags", "PGWNodeLoadControlInformation",
    "PGWAPNLoadControlInformation", "SGWNodeLoadControlInformation",
    "PGWOverloadControlInformation", "SGWOverloadControlInformation", "NBIFOMContainer",
    "PrivateExtension", AdditionalIEs>>
MarshalLenCreateBearerRequest ==
  <<"PTI", "LinkedEBI", "PCO", "BearerContexts", "PGWFQCSID", "SGWFQCSID",
    "ChangeReportingAction", "CSGInformationReportingAction", "HeNBInformationReporting",
    "PresenceReportingAreaAction", "IndicationFlags", "PGWNodeLoadControlInformation",
    "PGWAPNLoadControlInformation", "SGWNodeLoadControlInformation",
    "PGWOverloadControlInformation", "SGWOverloadControlInformation", "NBIFOMContainer",
    "PrivateExtension", AdditionalIEs>>

\* create-bearer-res.go
NewCreateBearerResponse ==
  Own({"Cause", "Recovery", "UETimeZone", "PrivateExtension"}) \cup {
    In("BearerContext", "BearerContexts"), ByInstance("FullyQualifiedCSID", <<"MMEFQCSID",
        "SGWFQCSID", "EPDGFQCSID", "TWANFQCSID">>, AdditionalIEs),
    In("ProtocolConfigurationOptions", "PCO"), In("UserLocationInformation", "ULI"),
    ByInstance("TWANIdentifier", <<"TWANIdentifier", "WLANLocationInformation">>,
        AdditionalIEs), ByInstance("TWANIdentifierTimestamp", <<AdditionalIEs,
        "WLANLocationTimestamp">>, AdditionalIEs), ByInstance("OverloadControlInformation",
        <<"MMEOverloadControlInformation", "SGWOverloadControlInformation",
        "TWANePDGOverloadControlInformation">>, AdditionalIEs),
    In("PresenceReportingAreaAction", "PresenceReportingAction"), ByInstance("IPAddress",
        <<"MMESGSNIdentifier", "UELocalIPAddress">>, Dropped),
    ByInstance("PortNumber", <<"UEUDPPort", "UETCPPort">>, AdditionalIEs),
    In("FContainer", "NBIFOMContainer")}
UnmarshalCreateBearerResponse ==
  Own({"Cause", "Recovery", "UETimeZone", "PrivateExtension"}) \cup {
    In("BearerContext", "BearerContexts"), ByInstance("FullyQualifiedCSID", <<"MMEFQCSID",
        "SGWFQCSID", "EPDGFQCSID", "TWANFQCSID">>, Dropped),
    In("ProtocolConfigurationOptions", "PCO"), In("UserLocationInformation", "ULI"),
    ByInstance("TWANIdentifier", <<"TWANIdentifier", "WLANLocationInformation">>, Dropped),
    ByInstance("TWANIdentifierTimestamp", <<Dropped, "WLANLocationTimestamp">>, Dropped),
    ByInstance("OverloadControlInformation", <<"MMEOverloadControlInformation",
        "SGWOverloadControlInformation", "TWANePDGOverloadControlInformation">>, Dropped),
    In("PresenceReportingAreaAction", "PresenceReportingAction"), ByInstance("IPAddress",
        <<"MMESGSNIdentifier", "UELocalIPAddress">>, Dropped),
    ByInstance("PortNumber", <<"UEUDPPort", "UETCPPort">>, Dropped),
    In("FContainer", "NBIFOMContainer")}
MarshalToCreateBearerResponse ==
  <<"Cause", "BearerContexts", "Recovery", "MMEFQCSID", "SGWFQCSID", "EPDGFQCSID",
    "TWANFQCSID", "PCO", "UETimeZone", "ULI", "TWANIdentifier",
    "MMEOverloadControlInformation", "SGWOverloadControlInformation",
    "PresenceReportingAction", "MMESGSNIdentifier", "TWANePDGOverloadControlInformation",
    "WLANLocationInformation", "WLANLocationTimestamp", "UELocalIPAddress", "UEUDPPort",
    "NBIFOMContainer", "UETCPPort", "PrivateExtension", AdditionalIEs>>
MarshalLenCreateBearerResponse ==
  <<"Cause", "BearerContexts", "Recovery", "MMEFQCSID", "SGWFQCSID", "EPDGFQCSID",
    "TWANFQCSID", "PCO", "UETimeZone", "ULI", "TWANIdentifier",
    "MMEOverloadControlInformation", "SGWOverloadControlInformation",
    "PresenceReportingAction", "MMESGSNIdentifier", "TWANePDGOverloadControlInformation",
    "WLANLocationInformation", "WLANLocationTimestamp", "UELocalIPAddress", "UEUDPPort",
    "NBIFOMContainer", "UETCPPort", "PrivateExtension", AdditionalIEs>>

\* create-session-req.go
NewCreateSessionRequest ==
  Own({"IMSI", "MSISDN", "ServingNetwork", "RATType", "SelectionMode", "PDNType",
      "APNRestriction", "TraceInformation", "Recovery", "UETimeZone",
      "ChargingCharacteristics", "SignallingPriorityIndication", "CNOperatorSelectionEntity",
      "PresenceReportingAreaInformation", "ServingPLMNRateControl", "MappedUEUsageType",
      "SecondaryRATUsageDataReport", "UPFunctionSelectionIndicationFlags",
      "APNRateControlStatus", "PrivateExtension"}) \cup {
    In("MobileEquipmentIdentity", "MEI"), ByInstance("UserLocationInformation", <<"ULI",
        "ULIForSGW">>, AdditionalIEs), In("Indication", "IndicationFlags"),
    ByInstance("FullyQualifiedTEID", <<"SenderFTEIDC", "PGWS5S8FTEIDC">>, AdditionalIEs),
    In("AccessPointName", "APN"), In("PDNAddressAllocation", "PAA"),
    In("AggregateMaximumBitRate", "AMBR"), In("EPSBearerID", "LinkedEBI"),
    In("TrustedWLANModeIndication", "TWMI"), In("ProtocolConfigurationOptions", "PCO"),
    ByInstance("BearerContext", <<"BearerContextsToBeCreated", "BearerContextsToBeRemoved">>,
        AdditionalIEs), ByInstance("FullyQualifiedCSID", <<"MMEFQCSID", "SGWFQCSID",
        "EPDGFQCSID", "TWANFQCSID">>, AdditionalIEs), In("UserCSGInformation", "UCI"),
    ByInstance("LocalDistinguishedName", <<"MMESGSNLDN", "SGWLDN", "EPDGLDN", "TWANLDN">>,
        AdditionalIEs), ByInstance("IPAddress", <<"UELocalIPAddress", "HeNBLocalIPAddress",
        "MMESGSNIdentifier", "EPDGIPAddress">>, AdditionalIEs), ByInstance("PortNumber",
        <<"UEUDPPort", "HeNBUDPPort", "UETCPPort">>, AdditionalIEs),
    In("AdditionalProtocolConfigurationOptions", "APCO"), ByInstance("TWANIdentifier",
        <<"TWANIdentifier", "WLANLocationInformation">>, Dropped),
    ByInstance("OverloadControlInformation", <<"MMESGSNOverloadControlInformation",
        "SGWOverloadControlInformation", "TWANePDGOverloadControlInformation">>,
        AdditionalIEs), In("MillisecondTimeStamp", "OriginationTimeStamp"),
    In("IntegerNumber", "MaximumWaitTime"),
    In("TWANIdentifierTimestamp", "WLANLocationTimeStamp"),
    In("FContainer", "NBIFOMContainer"), In("RemoteUEContext", "RemoteUEContextConnected"),
    In("NodeIdentifier", "TGPPAAAServerIdentifier"),
    In("ExtendedProtocolConfigurationOptions", "EPCO"),
    In("Counter", "MOExceptionDataCounter"), In("FullyQualifiedDomainName", "SGWUNodeName")}
UnmarshalCreateSessionRequest ==
  Own({"IMSI", "MSISDN", "ServingNetwork", "RATType", "SelectionMode", "PDNType",
      "APNRestriction", "TraceInformation", "Recovery", "UETimeZone",
      "ChargingCharacteristics", "SignallingPriorityIndication", "CNOperatorSelectionEntity",
      "PresenceReportingAreaInformation", "ServingPLMNRateControl", "MappedUEUsageType",
      "SecondaryRATUsageDataReport", "UPFunctionSelectionIndicationFlags",
      "APNRateControlStatus", "PrivateExtension"}) \cup {
    In("MobileEquipmentIdentity", "MEI"), ByInstance("UserLocationInformation", <<"ULI",
        "ULIForSGW">>, AdditionalIEs), In("Indication", "IndicationFlags"),
    ByInstance("FullyQualifiedTEID", <<"SenderFTEIDC", "PGWS5S8FTEIDC">>, AdditionalIEs),
    In("AccessPointName", "APN"), In("PDNAddressAllocation", "PAA"),
    In("AggregateMaximumBitRate", "AMBR"), In("EPSBearerID", "LinkedEBI"),
    In("TrustedWLANModeIndication", "TWMI"), In("ProtocolConfigurationOptions", "PCO"),
    ByInstance("BearerContext", <<"BearerContextsToBeCreated", "BearerContextsToBeRemoved">>,
        AdditionalIEs), ByInstance("FullyQualifiedCSID", <<"MMEFQCSID", "SGWFQCSID",
        "EPDGFQCSID", "TWANFQCSID">>, AdditionalIEs), In("UserCSGInformation", "UCI"),
    ByInstance("LocalDistinguishedName", <<"MMESGSNLDN", "SGWLDN", "EPDGLDN", "TWANLDN">>,
        AdditionalIEs), ByInstance("IPAddress", <<"UELocalIPAddress", "HeNBLocalIPAddress",
        "MMESGSNIdentifier", "EPDGIPAddress">>, AdditionalIEs), ByInstance("PortNumber",
        <<"UEUDPPort", "HeNBUDPPort", "UETCPPort">>, AdditionalIEs),
    In("AdditionalProtocolConfigurationOptions", "APCO"), ByInstance("TWANIdentifier",
        <<"TWANIdentifier", "WLANLocationInformation">>, AdditionalIEs),
    ByInstance("OverloadControlInformation", <<"MMESGSNOverloadControlInformation",
        "SGWOverloadControlInformation", "TWANePDGOverloadControlInformation">>,
        AdditionalIEs), In("MillisecondTimeStamp", "OriginationTimeStamp"),
    In("IntegerNumber", "MaximumWaitTime"),
    In("TWANIdentifierTimestamp", "WLANLocationTimeStamp"),
    In("FContainer", "NBIFOMContainer"), In("RemoteUEContext", "RemoteUEContextConnected"),
    In("NodeIdentifier", "TGPPAAAServerIdentifier"),
    In("ExtendedProtocolConfigurationOptions", "EPCO"),
    In("Counter", "MOExceptionDataCounter"), In("FullyQualifiedDomainName", "SGWUNodeName")}
MarshalToCreateSessionRequest ==
  <<"IMSI", "MSISDN", "MEI", "ULI", "ServingNetwork", "RATType", "IndicationFlags",
    "SenderFTEIDC", "PGWS5S8FTEIDC", "APN", "SelectionMode", "PDNType", "PAA",
    "APNRestriction", "AMBR", "LinkedEBI", "TWMI", "PCO", "BearerContextsToBeCreated",
    "BearerContextsToBeRemoved", "TraceInformation", "Recovery", "MMEFQCSID", "SGWFQCSID",
    "EPDGFQCSID", "TWANFQCSID", "UETimeZone", "UCI", "ChargingCharacteristics", "MMESGSNLDN",
    "SGWLDN", "EPDGLDN", "TWANLDN", "SignallingPriorityIndication", "UELocalIPAddress",
    "UEUDPPort", "APCO", "HeNBLocalIPAddress", "HeNBUDPPort", "MMESGSNIdentifier",
    "TWANIdentifier", "EPDGIPAddress", "CNOperatorSelectionEntity",
    "PresenceReportingAreaInformation", "MMESGSNOverloadControlInformation",
    "SGWOverloadControlInformation", "TWANePDGOverloadControlInformation",
    "OriginationTimeStamp", "MaximumWaitTime", "WLANLocationInformation",
    "WLANLocationTimeStamp", "NBIFOMContainer", "RemoteUEContextConnected",
    "TGPPAAAServerIdentifier", "EPCO", "ServingPLMNRateControl", "MOExceptionDataCounter",
    "UETCPPort", "MappedUEUsageType", "ULIForSGW", "SGWUNodeName",
    "SecondaryRATUsageDataReport", "UPFunctionSelectionIndicationFlags",
    "APNRateControlStatus", "PrivateExtension", AdditionalIEs>>
MarshalLenCreateSessionRequest ==
  <<"IMSI", "MSISDN", "MEI", "ULI", "ServingNetwork", "RATType", "IndicationFlags",
    "SenderFTEIDC", "PGWS5S8FTEIDC", "APN", "SelectionMode", "PDNType", "PAA",
    "APNRestriction", "AMBR", "LinkedEBI", "TWMI", "PCO", "BearerContextsToBeCreated",
    "BearerContextsToBeRemoved", "TraceInformation", "Recovery", "MMEFQCSID", "SGWFQCSID",
    "EPDGFQCSID", "TWANFQCSID", "UETimeZone", "UCI", "ChargingCharacteristics", "MMESGSNLDN",
    "SGWLDN", "EPDGLDN", "TWANLDN", "SignallingPriorityIndication", "UELocalIPAddress",
    "UEUDPPort", "APCO", "HeNBLocalIPAddress", "HeNBUDPPort", "MMESGSNIdentifier",
    "TWANIdentifier", "EPDGIPAddress", "CNOperatorSelectionEntity",
    "PresenceReportingAreaInformation", "MMESGSNOverloadControlInformation",
    "SGWOverloadControlInformation", "TWANePDGOverloadControlInformation",
    "OriginationTimeStamp", "MaximumWaitTime", "WLANLocationInformation",
    "WLANLocationTimeStamp", "NBIFOMContainer", "RemoteUEContextConnected",
    "TGPPAAAServerIdentifier", "EPCO", "ServingPLMNRateControl", "MOExceptionDataCounter",
    "UETCPPort", "MappedUEUsageType", "ULIForSGW", "SGWUNodeName",
    "SecondaryRATUsageDataReport", "UPFunctionSelectionIndicationFlags",
    "APNRateControlStatus", "PrivateExtension", AdditionalIEs>>

\* create-session-res.go
NewCreateSessionResponse ==
  Own({"Cause", "ChangeReportingAction", "CSGInformationReportingAction",
      "HeNBInformationReporting", "APNRestriction", "Recovery",
      "PresenceReportingAreaAction", "PrivateExtension"}) \cup {
    ByInstance("FullyQualifiedTEID", <<"SenderFTEIDC", "PGWS5S8FTEIDC">>, AdditionalIEs),
    In("PDNAddressAllocation", "PAA"), In("AggregateMaximumBitRate", "AMBR"),
    In("EPSBearerID", "EBI"), In("ProtocolConfigurationOptions", "PCO"),
    ByInstance("BearerContext", <<"BearerContextsCreated", "BearerContextMarkedForRemoval">>,
        AdditionalIEs), In("FullyQualifiedDomainName", "ChargingGatewayName"),
    In("IPAddress", "ChargingGatewayAddress"), ByInstance("FullyQualifiedCSID",
        <<"PGWFQCSID", "SGWFQCSID">>, AdditionalIEs), ByInstance("LocalDistinguishedName",
        <<"PGWLDN", "SGWLDN">>, AdditionalIEs), In("EPCTimer", "PGWBackOffTime"),
    In("AdditionalProtocolConfigurationOptions", "APCO"),
    In("IPv4ConfigurationParameters", "TrustedTWANIPv4Parameters"),
    In("Indication", "IndicationFlags"), ByInstance("LoadControlInformation",
        <<"PGWNodeLoadControlInformation", "PGWAPNLoadControlInformation",
        "SGWNodeLoadControlInformation">>, AdditionalIEs),
    ByInstance("OverloadControlInformation", <<"PGWOverloadControlInformation",
        "SGWOverloadControlInformation">>, AdditionalIEs),
    In("FContainer", "NBIFOMContainer"), In("ChargingID", "PDNConnectionChargingID"),
    In("ExtendedProtocolConfigurationOptions", "EPCO")}
UnmarshalCreateSessionResponse == NewCreateSessionResponse
MarshalToCreateSessionResponse ==
  <<"Cause", "ChangeReportingAction", "CSGInformationReportingAction",
    "HeNBInformationReporting", "SenderFTEIDC", "PGWS5S8FTEIDC", "PAA", "APNRestriction",
    "AMBR", "EBI", "PCO", "BearerContextsCreated", "BearerContextMarkedForRemoval",
    "Recovery", "ChargingGatewayName", "ChargingGatewayAddress", "PGWFQCSID", "SGWFQCSID",
    "PGWLDN", "SGWLDN", "PGWBackOffTime", "APCO", "TrustedTWANIPv4Parameters",
    "IndicationFlags", "PresenceReportingAreaAction", "PGWNodeLoadControlInformation",
    "PGWAPNLoadControlInformation", "SGWNodeLoadControlInformation",
    "PGWOverloadControlInformation", "SGWOverloadControlInformation", "NBIFOMContainer",
    "PDNConnectionChargingID", "EPCO", "PrivateExtension", AdditionalIEs>>
MarshalLenCreateSessionResponse ==
  <<"Cause", "ChangeReportingAction", "CSGInformationReportingAction",
    "HeNBInformationReporting", "SenderFTEIDC", "PGWS5S8FTEIDC", "PAA", "APNRestriction",
    "AMBR", "EBI", "PCO", "BearerContextsCreated", "BearerContextMarkedForRemoval", "Recovery",
    "ChargingGatewayName", "ChargingGatewayAddress", "PGWFQCSID", "SGWFQCSID", "PGWLDN",
    "SGWLDN", "PGWBackOffTime", "APCO", "TrustedTWANIPv4Parameters", "IndicationFlags",
    "PresenceReportingAreaAction", "PGWNodeLoadControlInformation",
    "PGWAPNLoadControlInformation", "SGWNodeLoadControlInformation",
    "PGWOverloadControlInformation", "SGWOverloadControlInformation", "NBIFOMContainer",
    "PDNConnectionChargingID", "EPCO", "PrivateExtension", AdditionalIEs>>

\* delete-bearer-command.go
NewDeleteBearerCommand ==
  Own({"ULITimestamp", "UETimeZone", "PrivateExtension"}) \cup {
    In("BearerContext", "BearerContexts"), In("UserLocationInformation", "ULI"),
    ByInstance("OverloadControlInformation", <<"MMESGSNOverloadControlInformation",
        "SGWOverloadControlInformation">>, Dropped),
    In("FullyQualifiedTEID", "SenderFTEIDC"),
    In("SecondaryRATUsageDataReport", "SecondaryRATDataUsageReport")}
UnmarshalDeleteBearerCommand == NewDeleteBearerCommand
MarshalToDeleteBearerCommand ==
  <<"BearerContexts", "ULI", "ULITimestamp", "UETimeZone",
    "MMESGSNOverloadControlInformation", "SGWOverloadControlInformation", "SenderFTEIDC",
    "SecondaryRATDataUsageReport", "PrivateExtension", AdditionalIEs>>
MarshalLenDeleteBearerCommand ==
  <<"BearerContexts", "ULI", "ULITimestamp", "UETimeZone", "MMESGSNOverloadControlInformation",
    "SGWOverloadControlInformation", "SenderFTEIDC", "SecondaryRATDataUsageReport",
    "PrivateExtension", AdditionalIEs>>

\* delete-bearer-failure-indication.go
NewDeleteBearerFailureIndication ==
  Own({"Cause", "Recovery", "PrivateExtension"}) \cup {
    In("BearerContext", "BearerContexts"), In("Indication", "IndicationFlags"),
    ByInstance("OverloadControlInformation", <<"PGWOverloadControlInformation",
        "SGWOverloadControlInformation">>, Dropped)}
UnmarshalDeleteBearerFailureIndication == NewDeleteBearerFailureIndication
MarshalToDeleteBearerFailureIndication ==
  <<"Cause", "BearerContexts", "Recovery", "IndicationFlags",
    "PGWOverloadControlInformation", "SGWOverloadControlInformation", "PrivateExtension",
    AdditionalIEs>>
MarshalLenDeleteBearerFailureIndication ==
  <<"Cause", "BearerContexts", "Recovery", "IndicationFlags", "PGWOverloadControlInformation",
    "SGWOverloadControlInformation", "PrivateExtension", AdditionalIEs>>

\* delete-bearer-req.go
NewDeleteBearerRequest ==
  Own({"Cause", "APNRateControlStatus", "PrivateExtension"}) \cup {
    ByInstance("EPSBearerID", <<"LinkedEBI", "EBI">>, AdditionalIEs),
    In("BearerContext", "FailedBearerContext"), In("ProcedureTransactionID", "PTI"),
    In("ProtocolConfigurationOptions", "PCO"), ByInstance("FullyQualifiedCSID",
        <<"PGWFQCSID", "SGWFQCSID">>, AdditionalIEs), In("Indication", "IndicationFlags"),
    ByInstance("LoadControlInformation", <<"PGWNodeLoadControlInformation",
        "PGWAPNLoadControlInformation", "SGWNodeLoadControlInformation">>, AdditionalIEs),
    ByInstance("OverloadControlInformation", <<"PGWOverloadControlInformation",
        "SGWOverloadControlInformation">>, AdditionalIEs),
    In("FContainer", "NBIFOMContainer"), In("ExtendedProtocolConfigurationOptions", "EPCO")}
UnmarshalDeleteBearerRequest == NewDeleteBearerRequest
MarshalToDeleteBearerRequest ==
  <<"LinkedEBI", "EBI", "FailedBearerContext", "PTI", "PCO", "PGWFQCSID", "SGWFQCSID",
    "Cause", "IndicationFlags", "PGWNodeLoadControlInformation",
    "PGWAPNLoadControlInformation", "SGWNodeLoadControlInformation",
    "PGWOverloadControlInformation", "SGWOverloadControlInformation", "NBIFOMContainer",
    "APNRateControlStatus", "EPCO", "PrivateExtension", AdditionalIEs>>
MarshalLenDeleteBearerRequest ==
  <<"LinkedEBI", "EBI", "FailedBearerContext", "PTI", "PCO", "PGWFQCSID", "SGWFQCSID", "Cause",
    "IndicationFlags", "PGWNodeLoadControlInformation", "PGWAPNLoadControlInformation",
    "SGWNodeLoadControlInformation", "PGWOverloadControlInformation",
    "SGWOverloadControlInformation", "NBIFOMContainer", "APNRateControlStatus", "EPCO",
    "PrivateExtension", AdditionalIEs>>

\* delete-bearer-res.go
NewDeleteBearerResponse ==
  Own({"Cause", "Recovery", "UETimeZone", "ULITimestamp", "SecondaryRATUsageDataReport",
      "PrivateExtension"}) \cup {
    In("EPSBearerID", "LinkedEBI"), In("BearerContext", "BearerContexts"),
    ByInstance("FullyQualifiedCSID", <<"MMEFQCSID", "SGWFQCSID", "EPDGFQCSID",
        "TWANFQCSID">>, AdditionalIEs), In("ProtocolConfigurationOptions", "PCO"),
    In("UserLocationInformation", "ULI"), ByInstance("TWANIdentifier", <<"TWANIdentifier",
        "WLANLocationInformation">>, AdditionalIEs), ByInstance("TWANIdentifierTimestamp",
        <<"TWANIdentifierTimestamp", "WLANLocationTimestamp">>, AdditionalIEs),
    ByInstance("OverloadControlInformation", <<"MMEOverloadControlInformation",
        "SGWOverloadControlInformation", "TWANePDGOverloadControlInformation">>,
        AdditionalIEs), ByInstance("IPAddress", <<"MMESGSNIdentifier", "UELocalIPAddress">>,
        AdditionalIEs),
    ByInstance("PortNumber", <<"UEUDPPort", "UETCPPort">>, AdditionalIEs),
    In("FContainer", "NBIFOMContainer")}
UnmarshalDeleteBearerResponse == NewDeleteBearerResponse
MarshalToDeleteBearerResponse ==
  <<"Cause", "LinkedEBI", "BearerContexts", "Recovery", "MMEFQCSID", "SGWFQCSID",
    "EPDGFQCSID", "TWANFQCSID", "PCO", "UETimeZone", "ULI", "ULITimestamp", "TWANIdentifier",
    "TWANIdentifierTimestamp", "MMEOverloadControlInformation",
    "SGWOverloadControlInformation", "MMESGSNIdentifier",
    "TWANePDGOverloadControlInformation", "WLANLocationInformation", "WLANLocationTimestamp",
    "UELocalIPAddress", "UEUDPPort", "NBIFOMContainer", "UETCPPort",
    "SecondaryRATUsageDataReport", "PrivateExtension", AdditionalIEs>>
MarshalLenDeleteBearerResponse ==
  <<"Cause", "LinkedEBI", "BearerContexts", "Recovery", "MMEFQCSID", "SGWFQCSID", "EPDGFQCSID",
    "TWANFQCSID", "PCO", "UETimeZone", "ULI", "ULITimestamp", "TWANIdentifier",
    "TWANIdentifierTimestamp", "MMEOverloadControlInformation",
    "SGWOverloadControlInformation", "MMESGSNIdentifier", "TWANePDGOverloadControlInformation",
    "WLANLocationInformation", "WLANLocationTimestamp", "UELocalIPAddress", "UEUDPPort",
    "NBIFOMContainer", "UETCPPort", "SecondaryRATUsageDataReport", "PrivateExtension",
    AdditionalIEs>>

\* delete-pdn-connection-set-req.go
NewDeletePDNConnectionSetRequest ==
  Own({"PrivateExtension"}) \cup {
    ByInstance("FullyQualifiedCSID", <<"MMEFQCSID", "SGWFQCSID", "PGWFQCSID", "EPDGFQCSID",
        "TWANFQCSID">>, AdditionalIEs)}
UnmarshalDeletePDNConnectionSetRequest == NewDeletePDNConnectionSetRequest
MarshalToDeletePDNConnectionSetRequest ==
  <<"MMEFQCSID", "SGWFQCSID", "PGWFQCSID", "EPDGFQCSID", "TWANFQCSID", "PrivateExtension",
    AdditionalIEs>>
MarshalLenDeletePDNConnectionSetRequest ==
  <<"MMEFQCSID", "SGWFQCSID", "PGWFQCSID", "EPDGFQCSID", "TWANFQCSID", "PrivateExtension",
    AdditionalIEs>>

\* delete-pdn-connection-set-res.go
NewDeletePDNConnectionSetResponse ==
  Own({"Cause", "Recovery", "PrivateExtension"})
UnmarshalDeletePDNConnectionSetResponse == NewDeletePDNConnectionSetResponse
MarshalToDeletePDNConnectionSetResponse ==
  <<"Cause", "Recovery", "PrivateExtension", AdditionalIEs>>
MarshalLenDeletePDNConnectionSetResponse ==
  <<"Cause", "Recovery", "PrivateExtension", AdditionalIEs>>

\* delete-session-req.go
NewDeleteSessionRequest ==
  Own({"Cause", "UETimeZone", "ULITimestamp", "SecondaryRATUsageDataReport",
      "PrivateExtension"}) \cup {
    In("EPSBearerID", "LinkedEBI"), In("UserLocationInformation", "ULI"),
    In("Indication", "IndicationFlags"), In("ProtocolConfigurationOptions", "PCO"),
    In("NodeType", "OriginatingNode"), In("FullyQualifiedTEID", "SenderFTEIDC"),
    In("RANNASCause", "RANNASReleaseCause"), ByInstance("TWANIdentifier", <<"TWANIdentifier",
        "WLANLocationInformation">>, AdditionalIEs), ByInstance("TWANIdentifierTimestamp",
        <<"TWANIdentifierTimestamp", "WLANLocationTimeStamp">>, AdditionalIEs),
    ByInstance("OverloadControlInformation", <<"MMESGSNOverloadControlInformation",
        "SGWOverloadControlInformaion", "TWANePDGOverloadControlInformaion">>,
        AdditionalIEs), In("IPAddress", "UELocalIPAddress"),
    ByInstance("PortNumber", <<"UEUDPPort", "UETCPPort">>, AdditionalIEs),
    In("ExtendedProtocolConfigurationOptions", "EPCO")}
UnmarshalDeleteSessionRequest == NewDeleteSessionRequest
MarshalToDeleteSessionRequest ==
  <<"Cause", "LinkedEBI", "ULI", "IndicationFlags", "PCO", "OriginatingNode", "SenderFTEIDC",
    "UETimeZone", "ULITimestamp", "RANNASReleaseCause", "TWANIdentifier",
    "TWANIdentifierTimestamp", "MMESGSNOverloadControlInformation",
    "SGWOverloadControlInformaion", "TWANePDGOverloadControlInformaion",
    "WLANLocationInformation", "WLANLocationTimeStamp", "UELocalIPAddress", "UEUDPPort",
    "EPCO", "UETCPPort", "SecondaryRATUsageDataReport", "PrivateExtension", AdditionalIEs>>
MarshalLenDeleteSessionRequest ==
  <<"Cause", "LinkedEBI", "ULI", "IndicationFlags", "PCO", "OriginatingNode", "SenderFTEIDC",
    "UETimeZone", "ULITimestamp", "RANNASReleaseCause", "TWANIdentifier",
    "TWANIdentifierTimestamp", "MMESGSNOverloadControlInformation",
    "SGWOverloadControlInformaion", "TWANePDGOverloadControlInformaion",
    "WLANLocationInformation", "WLANLocationTimeStamp", "UELocalIPAddress", "UEUDPPort",
    "EPCO", "UETCPPort", "SecondaryRATUsageDataReport", "PrivateExtension", AdditionalIEs>>

\* delete-session-res.go
NewDeleteSessionResponse ==
  Own({"Cause", "Recovery", "APNRateControlStatus", "PrivateExtension"}) \cup {
    In("ProtocolConfigurationOptions", "PCO"), In("Indication", "IndicationFlags"),
    ByInstance("LoadControlInformation", <<AdditionalIEs, "PGWNodeLoadControlInformation",
        "PGWAPNLoadControlInformation", "SGWNodeLoadControlInformation">>, AdditionalIEs),
    ByInstance("OverloadControlInformation", <<AdditionalIEs,
        "PGWOverloadControlInformation", "SGWOverloadControlInformation">>, AdditionalIEs),
    In("ExtendedProtocolConfigurationOptions", "EPCO")}
UnmarshalDeleteSessionResponse == NewDeleteSessionResponse
MarshalToDeleteSessionResponse ==
  <<"Cause", "Recovery", "PCO", "IndicationFlags", "PGWNodeLoadControlInformation",
    "PGWAPNLoadControlInformation", "SGWNodeLoadControlInformation",
    "PGWOverloadControlInformation", "SGWOverloadControlInformation", "EPCO",
    "APNRateControlStatus", "PrivateExtension", AdditionalIEs>>
MarshalLenDeleteSessionResponse ==
  <<"Cause", "Recovery", "PCO", "IndicationFlags", "PGWNodeLoadControlInformation",
    "PGWAPNLoadControlInformation", "SGWNodeLoadControlInformation",
    "PGWOverloadControlInformation", "SGWOverloadControlInformation", "EPCO",
    "APNRateControlStatus", "PrivateExtension", AdditionalIEs>>

\* detach-acknowledge.go
NewDetachAcknowledge ==
  Own({"Cause", "Recovery", "PrivateExtension"})
UnmarshalDetachAcknowledge == NewDetachAcknowledge
MarshalToDetachAcknowledge ==
  <<"Cause", "Recovery", "PrivateExtension", AdditionalIEs>>
MarshalLenDetachAcknowledge ==
  <<"Cause", "Recovery", "PrivateExtension", AdditionalIEs>>

\* detach-notification.go
NewDetachNotification ==
  Own({"Cause", "DetachType", "PrivateExtension"})
UnmarshalDetachNotification == NewDetachNotification
MarshalToDetachNotification ==
  <<"Cause", "DetachType", "PrivateExtension", AdditionalIEs>>
MarshalLenDetachNotification ==
  <<"Cause", "DetachType", "PrivateExtension", AdditionalIEs>>

\* downlink-data-notification-ack.go
NewDownlinkDataNotificationAcknowledge ==
  Own({"Cause", "Recovery", "IMSI", "PrivateExtension"}) \cup {
    In("DelayValue", "DataNotificationDelay"),
    In("Throttling", "DLLowPriorityTrafficThrottling"),
    In("EPCTimer", "DLBufferingDuration"),
    In("IntegerNumber", "DLBufferingSuggestedPacketCount")}
UnmarshalDownlinkDataNotificationAcknowledge == NewDownlinkDataNotificationAcknowledge
MarshalToDownlinkDataNotificationAcknowledge ==
  <<"Cause", "DataNotificationDelay", "Recovery", "DLLowPriorityTrafficThrottling", "IMSI",
    "DLBufferingDuration", "DLBufferingSuggestedPacketCount", "PrivateExtension",
    AdditionalIEs>>
MarshalLenDownlinkDataNotificationAcknowledge ==
  <<"Cause", "DataNotificationDelay", "Recovery", "DLLowPriorityTrafficThrottling", "IMSI",
    "DLBufferingDuration", "DLBufferingSuggestedPacketCount", "PrivateExtension", AdditionalIEs>>

\* downlink-data-notification-failure-indication.go
NewDownlinkDataNotificationFailureIndication ==
  Own({"Cause", "IMSI", "PrivateExtension"}) \cup {
    In("NodeType", "OriginatingNode")}
UnmarshalDownlinkDataNotificationFailureIndication ==
  NewDownlinkDataNotificationFailureIndication
MarshalToDownlinkDataNotificationFailureIndication ==
  <<"Cause", "OriginatingNode", "IMSI", "PrivateExtension", AdditionalIEs>>
MarshalLenDownlinkDataNotificationFailureIndication ==
  <<"Cause", "OriginatingNode", "IMSI", "PrivateExtension", AdditionalIEs>>

\* downlink-data-notification.go
NewDownlinkDataNotification ==
  Own({"Cause", "EPSBearerID", "AllocationRetensionPriority", "IMSI",
      "PagingAndServiceInformation", "PrivateExtension"}) \cup {
    In("FullyQualifiedTEID", "SenderFTEIDC"), In("Indication", "IndicationFlags"),
    In("LoadControlInformation", "SGWNodeLoadControlInformation"),
    In("OverloadControlInformation", "SGWOverloadControlInformation"),
    In("IntegerNumber", "DLDataPacketsSize")}
UnmarshalDownlinkDataNotification == NewDownlinkDataNotification
MarshalToDownlinkDataNotification ==
  <<"Cause", "EPSBearerID", "AllocationRetensionPriority", "IMSI", "SenderFTEIDC",
    "IndicationFlags", "SGWNodeLoadControlInformation", "SGWOverloadControlInformation",
    "PagingAndServiceInformation", "DLDataPacketsSize", "PrivateExtension", AdditionalIEs>>
MarshalLenDownlinkDataNotification ==
  <<"Cause", "EPSBearerID", "AllocationRetensionPriority", "IMSI", "SenderFTEIDC",
    "IndicationFlags", "SGWNodeLoadControlInformation", "SGWOverloadControlInformation",
    "PagingAndServiceInformation", "DLDataPacketsSize", "PrivateExtension", AdditionalIEs>>

\* echo-req.go
NewEchoRequest ==
  Own({"Recovery", "PrivateExtension"}) \cup {
    In("NodeFeatures", "SendingNodeFeatures")}
UnmarshalEchoRequest == NewEchoRequest
MarshalToEchoRequest ==
  <<"Recovery", "SendingNodeFeatures", "PrivateExtension", AdditionalIEs>>
MarshalLenEchoRequest ==
  <<"Recovery", "SendingNodeFeatures", "PrivateExtension", AdditionalIEs>>

\* echo-res.go
NewEchoResponse ==
  Own({"Recovery", "PrivateExtension"}) \cup {
    In("NodeFeatures", "SendingNodeFeatures")}
UnmarshalEchoResponse == NewEchoResponse
MarshalToEchoResponse ==
  <<"Recovery", "SendingNodeFeatures", "PrivateExtension", AdditionalIEs>>
MarshalLenEchoResponse ==
  <<"Recovery", "SendingNodeFeatures", "PrivateExtension", AdditionalIEs>>

\* modify-access-bearers-req.go
NewModifyAccessBearersRequest ==
  Own({"Recovery", "SecondaryRATUsageDataReport", "PrivateExtension"}) \cup {
    In("Indication", "IndicationFlags"), In("NodeType", "SenderFTEIDC"),
    In("DelayValue", "DelayDownlinkPacketNotificationRequest"), ByInstance("BearerContext",
        <<"BearerContextsToBeModified", "BearerContextsToBeRemoved">>, Dropped)}
UnmarshalModifyAccessBearersRequest == NewModifyAccessBearersRequest
MarshalToModifyAccessBearersRequest ==
  <<"IndicationFlags", "SenderFTEIDC", "DelayDownlinkPacketNotificationRequest",
    "BearerContextsToBeModified", "BearerContextsToBeRemoved", "Recovery",
    "SecondaryRATUsageDataReport", "PrivateExtension", AdditionalIEs>>
MarshalLenModifyAccessBearersRequest ==
  <<"IndicationFlags", "SenderFTEIDC", "DelayDownlinkPacketNotificationRequest",
    "BearerContextsToBeModified", "BearerContextsToBeRemoved", "Recovery",
    "SecondaryRATUsageDataReport", "PrivateExtension", AdditionalIEs>>

\* modify-access-bearers-res.go
NewModifyAccessBearersResponse ==
  Own({"Cause", "Recovery", "PrivateExtension"}) \cup {
    ByInstance("BearerContext", <<"BearerContextsModified",
        "BearerContextsMarkedForRemoval">>, Dropped), In("Indication", "IndicationFlags"),
    In("LoadControlInformation", "SGWNodeLoadControlInformation"),
    In("OverloadControlInformation", "SGWOverloadControlInformation")}
UnmarshalModifyAccessBearersResponse == NewModifyAccessBearersResponse
MarshalToModifyAccessBearersResponse ==
  <<"Cause", "BearerContextsModified", "BearerContextsMarkedForRemoval", "Recovery",
    "IndicationFlags", "SGWNodeLoadControlInformation", "SGWOverloadControlInformation",
    "PrivateExtension", AdditionalIEs>>
MarshalLenModifyAccessBearersResponse ==
  <<"Cause", "BearerContextsModified", "BearerContextsMarkedForRemoval", "Recovery",
    "IndicationFlags", "SGWNodeLoadControlInformation", "SGWOverloadControlInformation",
    "PrivateExtension", AdditionalIEs>>

\* modify-bearer-command.go
NewModifyBearerCommand ==
  Own({"BearerContext", "PrivateExtension"}) \cup {
    In("AggregateMaximumBitRate", "APNAMBR"), ByInstance("OverloadControlInformation",
        <<"MMESGSNOverloadControlInformation", "SGWOverloadControlInformation",
        "TWANePDGOverloadControlInformation">>, Dropped),
    In("FullyQualifiedTEID", "SenderFTEIDC")}
UnmarshalModifyBearerCommand == NewModifyBearerCommand
MarshalToModifyBearerCommand ==
  <<"APNAMBR", "BearerContext", "MMESGSNOverloadControlInformation",
    "SGWOverloadControlInformation", "TWANePDGOverloadControlInformation", "SenderFTEIDC",
    "PrivateExtension", AdditionalIEs>>
\* Mutant: the slot of the third instance is forgotten.
MarshalLenModifyBearerCommandShort ==
  <<"APNAMBR", "BearerContext", "MMESGSNOverloadControlInformation",
    "SGWOverloadControlInformation", "SenderFTEIDC", "PrivateExtension", AdditionalIEs>>
MarshalLenModifyBearerCommand ==
  <<"APNAMBR", "BearerContext", "MMESGSNOverloadControlInformation",
    "SGWOverloadControlInformation", "TWANePDGOverloadControlInformation", "SenderFTEIDC",
    "PrivateExtension", AdditionalIEs>>

\* modify-bearer-failure-indication.go
NewModifyBearerFailureIndication ==
  Own({"Cause", "Recovery", "PrivateExtension"}) \cup {
    In("Indication", "IndicationFlags"), ByInstance("OverloadControlInformation",
        <<"PGWOverloadControlInformation", "SGWOverloadControlInformation">>, Dropped)}
UnmarshalModifyBearerFailureIndication == NewModifyBearerFailureIndication
MarshalToModifyBearerFailureIndication ==
  <<"Cause", "Recovery", "IndicationFlags", "PGWOverloadControlInformation",
    "SGWOverloadControlInformation", "PrivateExtension", AdditionalIEs>>
MarshalLenModifyBearerFailureIndication ==
  <<"Cause", "Recovery", "IndicationFlags", "PGWOverloadControlInformation",
    "SGWOverloadControlInformation", "PrivateExtension", AdditionalIEs>>

\* modify-bearer-req.go
NewModifyBearerRequest ==
  Own({"ServingNetwork", "RATType", "Recovery", "UETimeZone", "CNOperatorSelectionEntity",
      "PresenceReportingAreaInformation", "ServingPLMNRateControl", "IMSI",
      "SecondaryRATUsageDataReport", "PrivateExtension"}) \cup {
    In("MobileEquipmentIdentity", "MEI"), ByInstance("UserLocationInformation", <<"ULI",
        "ULIForSGW">>, AdditionalIEs), In("Indication", "IndicationFlags"),
    In("FullyQualifiedTEID", "SenderFTEIDC"), In("AggregateMaximumBitRate", "AMBR"),
    In("DelayValue", "DelayDownlinkPacketNotificationRequest"), ByInstance("BearerContext",
        <<"BearerContextsToBeModified", "BearerContextsToBeRemoved">>, AdditionalIEs),
    ByInstance("FullyQualifiedCSID", <<"MMEFQCSID", "SGWFQCSID">>, AdditionalIEs),
    In("UserCSGInformation", "UCI"), ByInstance("IPAddress", <<"UELocalIPAddress",
        "HeNBLocalIPAddress">>, AdditionalIEs), ByInstance("PortNumber", <<"UEUDPPort",
        "HeNBUDPPort", "MMESGSNIdentifier">>, AdditionalIEs),
    ByInstance("LocalDistinguishedName", <<"MMESGSNLDN", "SGWLDN">>, AdditionalIEs),
    ByInstance("OverloadControlInformation", <<"MMESGSNOverloadControlInformation",
        "SGWOverloadControlInformation", "EPDGOverloadControlInformation">>, AdditionalIEs),
    In("Counter", "MOExceptionDataCounter"), In("TWANIdentifier", "WLANLocationInformation"),
    In("TWANIdentifierTimestamp", "WLANLocationTimeStamp")}
UnmarshalModifyBearerRequest == NewModifyBearerRequest
MarshalToModifyBearerRequest ==
  <<"MEI", "ULI", "ServingNetwork", "RATType", "IndicationFlags", "SenderFTEIDC", "AMBR",
    "DelayDownlinkPacketNotificationRequest", "BearerContextsToBeModified",
    "BearerContextsToBeRemoved", "Recovery", "UETimeZone", "MMEFQCSID", "SGWFQCSID", "UCI",
    "UELocalIPAddress", "UEUDPPort", "MMESGSNLDN", "SGWLDN", "HeNBLocalIPAddress",
    "HeNBUDPPort", "MMESGSNIdentifier", "CNOperatorSelectionEntity",
    "PresenceReportingAreaInformation", "MMESGSNOverloadControlInformation",
    "SGWOverloadControlInformation", "EPDGOverloadControlInformation",
    "ServingPLMNRateControl", "MOExceptionDataCounter", "IMSI", "ULIForSGW",
    "WLANLocationInformation", "WLANLocationTimeStamp", "SecondaryRATUsageDataReport",
    "PrivateExtension", AdditionalIEs>>
MarshalLenModifyBearerRequest ==
  <<"MEI", "ULI", "ServingNetwork", "RATType", "IndicationFlags", "SenderFTEIDC", "AMBR",
    "DelayDownlinkPacketNotificationRequest", "BearerContextsToBeModified",
    "BearerContextsToBeRemoved", "Recovery", "UETimeZone", "MMEFQCSID", "SGWFQCSID", "UCI",
    "UELocalIPAddress", "UEUDPPort", "MMESGSNLDN", "SGWLDN", "HeNBLocalIPAddress",
    "HeNBUDPPort", "MMESGSNIdentifier", "CNOperatorSelectionEntity",
    "PresenceReportingAreaInformation", "MMESGSNOverloadControlInformation",
    "SGWOverloadControlInformation", "EPDGOverloadControlInformation",
    "ServingPLMNRateControl", "MOExceptionDataCounter", "IMSI", "ULIForSGW",
    "WLANLocationInformation", "WLANLocationTimeStamp", "SecondaryRATUsageDataReport",
    "PrivateExtension", AdditionalIEs>>

\* modify-bearer-res.go
NewModifyBearerResponse ==
  Own({"Cause", "MSISDN", "APNRestriction", "ChangeReportingAction",
      "CSGInformationReportingAction", "HeNBInformationReporting", "Recovery",
      "PresenceReportingAreaAction", "PrivateExtension"}) \cup {
    In("EPSBearerID", "LinkedEBI"), In("ProtocolConfigurationOptions", "PCO"),
    ByInstance("BearerContext", <<"BearerContextsModified",
        "BearerContextsMarkedForRemoval">>, AdditionalIEs),
    In("FullyQualifiedDomainName", "ChargingGatewayName"),
    In("IPAddress", "ChargingGatewayAddress"), ByInstance("FullyQualifiedCSID",
        <<"PGWFQCSID", "SGWFQCSID">>, AdditionalIEs), ByInstance("LocalDistinguishedName",
        <<"SGWLDN", "PGWLDN">>, AdditionalIEs), In("Indication", "IndicationFlags"),
    ByInstance("LoadControlInformation", <<"PGWNodeLoadControlInformation",
        "PGWAPNLoadControlInformation">>, AdditionalIEs),
    ByInstance("OverloadControlInformation", <<"SGWNodeLoadControlInformation",
        "PGWOverloadControlInformation", "SGWOverloadControlInformation">>, AdditionalIEs),
    In("ChargingID", "PDNConnectionChargingID")}
UnmarshalModifyBearerResponse == NewModifyBearerResponse
MarshalToModifyBearerResponse ==
  <<"Cause", "MSISDN", "LinkedEBI", "APNRestriction", "PCO", "BearerContextsModified",
    "BearerContextsMarkedForRemoval", "ChangeReportingAction",
    "CSGInformationReportingAction", "HeNBInformationReporting", "ChargingGatewayName",
    "ChargingGatewayAddress", "PGWFQCSID", "SGWFQCSID", "Recovery", "SGWLDN", "PGWLDN",
    "IndicationFlags", "PresenceReportingAreaAction", "PGWNodeLoadControlInformation",
    "PGWAPNLoadControlInformation", "SGWNodeLoadControlInformation",
    "PGWOverloadControlInformation", "SGWOverloadControlInformation",
    "PDNConnectionChargingID", "PrivateExtension", AdditionalIEs>>
MarshalLenModifyBearerResponse ==
  <<"Cause", "MSISDN", "LinkedEBI", "APNRestriction", "PCO", "BearerContextsModified",
    "BearerContextsMarkedForRemoval", "ChangeReportingAction", "CSGInformationReportingAction",
    "HeNBInformationReporting", "ChargingGatewayName", "ChargingGatewayAddress", "PGWFQCSID",
    "SGWFQCSID", "Recovery", "SGWLDN", "PGWLDN", "IndicationFlags",
    "PresenceReportingAreaAction", "PGWNodeLoadControlInformation",
    "PGWAPNLoadControlInformation", "SGWNodeLoadControlInformation",
    "PGWOverloadControlInformation", "SGWOverloadControlInformation",
    "PDNConnectionChargingID", "PrivateExtension", AdditionalIEs>>

\* pgw-restart-notification-acknowledge.go
NewPGWRestartNotificationAcknowledge ==
  Own({"Cause", "PrivateExtension"})
UnmarshalPGWRestartNotificationAcknowledge == NewPGWRestartNotificationAcknowledge
MarshalToPGWRestartNotificationAcknowledge ==
  <<"Cause", "PrivateExtension", AdditionalIEs>>
MarshalLenPGWRestartNotificationAcknowledge ==
  <<"Cause", "PrivateExtension", AdditionalIEs>>

\* pgw-restart-notification.go
NewPGWRestartNotification ==
  Own({"Cause", "PrivateExtension"}) \cup {
    ByInstance("IPAddress", <<"PGWS5S8IPAddressForControlPlaneOrPMIP",
        "SGWS11S4IPAddressForControlPlane">>, AdditionalIEs)}
UnmarshalPGWRestartNotification == NewPGWRestartNotification
MarshalToPGWRestartNotification ==
  <<"PGWS5S8IPAddressForControlPlaneOrPMIP", "SGWS11S4IPAddressForControlPlane", "Cause",
    "PrivateExtension", AdditionalIEs>>
MarshalLenPGWRestartNotification ==
  <<"PGWS5S8IPAddressForControlPlaneOrPMIP", "SGWS11S4IPAddressForControlPlane", "Cause",
    "PrivateExtension", AdditionalIEs>>

\* release-access-bearers-req.go
NewReleaseAccessBearersRequest ==
  Own({"SecondaryRATUsageDataReport", "PrivateExtension"}) \cup {
    In("EPSBearerID", "ListOfRABs"), In("NodeType", "OriginatingNode"),
    In("Indication", "IndicationFlags")}
UnmarshalReleaseAccessBearersRequest == NewReleaseAccessBearersRequest
MarshalToReleaseAccessBearersRequest ==
  <<"ListOfRABs", "OriginatingNode", "IndicationFlags", "SecondaryRATUsageDataReport",
    "PrivateExtension", AdditionalIEs>>
MarshalLenReleaseAccessBearersRequest ==
  <<"ListOfRABs", "OriginatingNode", "IndicationFlags", "SecondaryRATUsageDataReport",
    "PrivateExtension", AdditionalIEs>>

\* release-access-bearers-res.go
NewReleaseAccessBearersResponse ==
  Own({"Cause", "Recovery", "PrivateExtension"}) \cup {
    In("Indication", "IndicationFlags"),
    In("LoadControlInformation", "SGWNodeLoadControlInformation"),
    In("OverloadControlInformation", "SGWOverloadControlInformation")}
UnmarshalReleaseAccessBearersResponse == NewReleaseAccessBearersResponse
MarshalToReleaseAccessBearersResponse ==
  <<"Cause", "Recovery", "IndicationFlags", "SGWNodeLoadControlInformation",
    "SGWOverloadControlInformation", "PrivateExtension", AdditionalIEs>>
MarshalLenReleaseAccessBearersResponse ==
  <<"Cause", "Recovery", "IndicationFlags", "SGWNodeLoadControlInformation",
    "SGWOverloadControlInformation", "PrivateExtension", AdditionalIEs>>

\* stop-paging-indication.go
NewStopPagingIndication ==
  Own({"IMSI", "PrivateExtension"})
UnmarshalStopPagingIndication == NewStopPagingIndication
MarshalToStopPagingIndication ==
  <<"IMSI", "PrivateExtension", AdditionalIEs>>
MarshalLenStopPagingIndication ==
  <<"IMSI", "PrivateExtension", AdditionalIEs>>

\* update-bearer-req.go
NewUpdateBearerRequest ==
  Own({"ChangeReportingAction", "CSGInformationReportingAction", "HeNBInformationReporting",
      "PrivateExtension"}) \cup {
    In("BearerContext", "BearerContexts"), In("ProcedureTransactionID", "PTI"),
    In("ProtocolConfigurationOptions", "PCO"), In("AggregateMaximumBitRate", "APNAMBR"),
    In("Indication", "IndicationFlags"), ByInstance("FullyQualifiedCSID", <<"PGWFQCSID",
        "SGWFQCSID">>, AdditionalIEs),
    In("PresenceReportingAreaAction", "PresenceReportingAction"),
    ByInstance("LoadControlInformation", <<"PGWNodeLoadControlInformation",
        "PGWAPNLoadControlInformation", "SGWNodeLoadControlInformation">>, AdditionalIEs),
    ByInstance("OverloadControlInformation", <<"PGWOverloadControlInformation",
        "SGWOverloadControlInformation">>, AdditionalIEs),
    In("FContainer", "NBIFOMContainer")}
UnmarshalUpdateBearerRequest == NewUpdateBearerRequest
MarshalToUpdateBearerRequest ==
  <<"BearerContexts", "PTI", "PCO", "APNAMBR", "ChangeReportingAction",
    "CSGInformationReportingAction", "HeNBInformationReporting", "IndicationFlags",
    "PGWFQCSID", "SGWFQCSID", "PresenceReportingAction", "PGWNodeLoadControlInformation",
    "PGWAPNLoadControlInformation", "SGWNodeLoadControlInformation",
    "PGWOverloadControlInformation", "SGWOverloadControlInformation", "NBIFOMContainer",
    "PrivateExtension", AdditionalIEs>>
MarshalLenUpdateBearerRequest ==
  <<"BearerContexts", "PTI", "PCO", "APNAMBR", "ChangeReportingAction",
    "CSGInformationReportingAction", "HeNBInformationReporting", "IndicationFlags",
    "PGWFQCSID", "SGWFQCSID", "PresenceReportingAction", "PGWNodeLoadControlInformation",
    "PGWAPNLoadControlInformation", "SGWNodeLoadControlInformation",
    "PGWOverloadControlInformation", "SGWOverloadControlInformation", "NBIFOMContainer",
    "PrivateExtension", AdditionalIEs>>

\* update-bearer-res.go
NewUpdateBearerResponse ==
  Own({"Cause", "Recovery", "UETimeZone", "PresenceReportingAreaAction", "PrivateExtension"}) \cup {
    In("BearerContext", "BearerContexts"), In("ProtocolConfigurationOptions", "PCO"),
    ByInstance("FullyQualifiedCSID", <<"MMEFQCSID", "SGWFQCSID", "EPDGFQCSID",
        "TWANFQCSID">>, AdditionalIEs), In("Indication", "IndicationFlags"),
    In("UserLocationInformation", "ULI"), ByInstance("TWANIdentifier", <<"TWANIdentifier",
        "WLANLocationInformation">>, AdditionalIEs), ByInstance("OverloadControlInformation",
        <<"MMESGSNOverloadControlInformation", "SGWOverloadControlInformation",
        "TWANePDGOverloadControlInformation">>, AdditionalIEs), ByInstance("IPAddress",
        <<"MMESGSNIdentifier", "UELocalIPAddress">>, Dropped),
    ByInstance("TWANIdentifierTimestamp", <<AdditionalIEs, "WLANLocationTimeStamp">>,
        AdditionalIEs),
    ByInstance("PortNumber", <<"UEUDPPort", "UETCPPort">>, AdditionalIEs),
    In("FContainer", "NBIFOMContainer")}
UnmarshalUpdateBearerResponse == NewUpdateBearerResponse
MarshalToUpdateBearerResponse ==
  <<"Cause", "BearerContexts", "PCO", "Recovery", "MMEFQCSID", "SGWFQCSID", "EPDGFQCSID",
    "TWANFQCSID", "IndicationFlags", "UETimeZone", "ULI", "TWANIdentifier",
    "MMESGSNOverloadControlInformation", "SGWOverloadControlInformation",
    "PresenceReportingAreaAction", "MMESGSNIdentifier", "TWANePDGOverloadControlInformation",
    "WLANLocationInformation", "WLANLocationTimeStamp", "UELocalIPAddress", "UEUDPPort",
    "NBIFOMContainer", "UETCPPort", "PrivateExtension", AdditionalIEs>>
MarshalLenUpdateBearerResponse ==
  <<"Cause", "BearerContexts", "PCO", "Recovery", "MMEFQCSID", "SGWFQCSID", "EPDGFQCSID",
    "TWANFQCSID", "IndicationFlags", "UETimeZone", "ULI", "TWANIdentifier",
    "MMESGSNOverloadControlInformation", "SGWOverloadControlInformation",
    "PresenceReportingAreaAction", "MMESGSNIdentifier", "TWANePDGOverloadControlInformation",
    "WLANLocationInformation", "WLANLocationTimeStamp", "UELocalIPAddress", "UEUDPPort",
    "NBIFOMContainer", "UETCPPort", "PrivateExtension", AdditionalIEs>>

\* update-pdn-connection-set-req.go
NewUpdatePDNConnectionSetRequest ==
  Own({"PrivateExtension"}) \cup {
    ByInstance("FullyQualifiedCSID", <<"MMEFQCSID", "SGWFQCSID">>, AdditionalIEs)}
UnmarshalUpdatePDNConnectionSetRequest == NewUpdatePDNConnectionSetRequest
MarshalToUpdatePDNConnectionSetRequest ==
  <<"MMEFQCSID", "SGWFQCSID", "PrivateExtension", AdditionalIEs>>
MarshalLenUpdatePDNConnectionSetRequest ==
  <<"MMEFQCSID", "SGWFQCSID", "PrivateExtension", AdditionalIEs>>

\* update-pdn-connection-set-res.go
NewUpdatePDNConnectionSetResponse ==
  Own({"Cause", "Recovery", "PrivateExtension"}) \cup {
    In("FullyQualifiedCSID", "PGWFQCSID")}
UnmarshalUpdatePDNConnectionSetResponse == NewUpdatePDNConnectionSetResponse
MarshalToUpdatePDNConnectionSetResponse ==
  <<"Cause", "PGWFQCSID", "Recovery", "PrivateExtension", AdditionalIEs>>
MarshalLenUpdatePDNConnectionSetResponse ==
  <<"Cause", "PGWFQCSID", "Recovery", "PrivateExtension", AdditionalIEs>>

\* version-not-supported.go
NewVersionNotSupportedIndication ==
  {}
UnmarshalVersionNotSupportedIndication == NewVersionNotSupportedIndication
MarshalToVersionNotSupportedIndication ==
  <<AdditionalIEs>>
MarshalLenVersionNotSupportedIndication ==
  <<AdditionalIEs>>

-----------------------------------------------------------------------------

New ==
  [ContextAcknowledge |-> NewContextAcknowledge, ContextRequest |-> NewContextRequest,
   ContextResponse |-> NewContextResponse, CreateBearerRequest |-> NewCreateBearerRequest,
   CreateBearerResponse |-> NewCreateBearerResponse,
   CreateSessionRequest |-> NewCreateSessionRequest,
   CreateSessionResponse |-> NewCreateSessionResponse,
   DeleteBearerCommand |-> NewDeleteBearerCommand,
   DeleteBearerFailureIndication |-> NewDeleteBearerFailureIndication,
   DeleteBearerRequest |-> NewDeleteBearerRequest,
   DeleteBearerResponse |-> NewDeleteBearerResponse,
   DeletePDNConnectionSetRequest |-> NewDeletePDNConnectionSetRequest,
   DeletePDNConnectionSetResponse |-> NewDeletePDNConnectionSetResponse,
   DeleteSessionRequest |-> NewDeleteSessionRequest,
   DeleteSessionResponse |-> NewDeleteSessionResponse,
   DetachAcknowledge |-> NewDetachAcknowledge, DetachNotification |-> NewDetachNotification,
   DownlinkDataNotificationAcknowledge |-> NewDownlinkDataNotificationAcknowledge,
   DownlinkDataNotificationFailureIndication |-> NewDownlinkDataNotificationFailureIndication,
   DownlinkDataNotification |-> NewDownlinkDataNotification, EchoRequest |-> NewEchoRequest,
   EchoResponse |-> NewEchoResponse,
   ModifyAccessBearersRequest |-> NewModifyAccessBearersRequest,
   ModifyAccessBearersResponse |-> NewModifyAccessBearersResponse,
   ModifyBearerCommand |-> NewModifyBearerCommand,
   ModifyBearerFailureIndication |-> NewModifyBearerFailureIndication,
   ModifyBearerRequest |-> NewModifyBearerRequest,
   ModifyBearerResponse |-> NewModifyBearerResponse,
   PGWRestartNotificationAcknowledge |-> NewPGWRestartNotificationAcknowledge,
   PGWRestartNotification |-> NewPGWRestartNotification,
   ReleaseAccessBearersRequest |-> NewReleaseAccessBearersRequest,
   ReleaseAccessBearersResponse |-> NewReleaseAccessBearersResponse,
   StopPagingIndication |-> NewStopPagingIndication,
   UpdateBearerRequest |-> NewUpdateBearerRequest,
   UpdateBearerResponse |-> NewUpdateBearerResponse,
   UpdatePDNConnectionSetRequest |-> NewUpdatePDNConnectionSetRequest,
   UpdatePDNConnectionSetResponse |-> NewUpdatePDNConnectionSetResponse,
   VersionNotSupportedIndication |-> NewVersionNotSupportedIndication]

Unmarshal ==
  [ContextAcknowledge |-> UnmarshalContextAcknowledge,
   ContextRequest |-> UnmarshalContextRequest, ContextResponse |-> UnmarshalContextResponse,
   CreateBearerRequest |-> UnmarshalCreateBearerRequest,
   CreateBearerResponse |-> UnmarshalCreateBearerResponse,
   CreateSessionRequest |-> UnmarshalCreateSessionRequest,
   CreateSessionResponse |-> UnmarshalCreateSessionResponse,
   DeleteBearerCommand |-> UnmarshalDeleteBearerCommand,
   DeleteBearerFailureIndication |-> UnmarshalDeleteBearerFailureIndication,
   DeleteBearerRequest |-> UnmarshalDeleteBearerRequest,
   DeleteBearerResponse |-> UnmarshalDeleteBearerResponse,
   DeletePDNConnectionSetRequest |-> UnmarshalDeletePDNConnectionSetRequest,
   DeletePDNConnectionSetResponse |-> UnmarshalDeletePDNConnectionSetResponse,
   DeleteSessionRequest |-> UnmarshalDeleteSessionRequest,
   DeleteSessionResponse |-> UnmarshalDeleteSessionResponse,
   DetachAcknowledge |-> UnmarshalDetachAcknowledge,
   DetachNotification |-> UnmarshalDetachNotification,
   DownlinkDataNotificationAcknowledge |-> UnmarshalDownlinkDataNotificationAcknowledge,
   DownlinkDataNotificationFailureIndication |-> UnmarshalDownlinkDataNotificationFailureIndication,
   DownlinkDataNotification |-> UnmarshalDownlinkDataNotification,
   EchoRequest |-> UnmarshalEchoRequest, EchoResponse |-> UnmarshalEchoResponse,
   ModifyAccessBearersRequest |-> UnmarshalModifyAccessBearersRequest,
   ModifyAccessBearersResponse |-> UnmarshalModifyAccessBearersResponse,
   ModifyBearerCommand |-> UnmarshalModifyBearerCommand,
   ModifyBearerFailureIndication |-> UnmarshalModifyBearerFailureIndication,
   ModifyBearerRequest |-> UnmarshalModifyBearerRequest,
   ModifyBearerResponse |-> UnmarshalModifyBearerResponse,
   PGWRestartNotificationAcknowledge |-> UnmarshalPGWRestartNotificationAcknowledge,
   PGWRestartNotification |-> UnmarshalPGWRestartNotification,
   ReleaseAccessBearersRequest |-> UnmarshalReleaseAccessBearersRequest,
   ReleaseAccessBearersResponse |-> UnmarshalReleaseAccessBearersResponse,
   StopPagingIndication |-> UnmarshalStopPagingIndication,
   UpdateBearerRequest |-> UnmarshalUpdateBearerRequest,
   UpdateBearerResponse |-> UnmarshalUpdateBearerResponse,
   UpdatePDNConnectionSetRequest |-> UnmarshalUpdatePDNConnectionSetRequest,
   UpdatePDNConnectionSetResponse |-> UnmarshalUpdatePDNConnectionSetResponse,
   VersionNotSupportedIndication |-> UnmarshalVersionNotSupportedIndication]

MarshalTo ==
  [ContextAcknowledge |-> MarshalToContextAcknowledge,
   ContextRequest |-> MarshalToContextRequest, ContextResponse |-> MarshalToContextResponse,
   CreateBearerRequest |-> MarshalToCreateBearerRequest,
   CreateBearerResponse |-> MarshalToCreateBearerResponse,
   CreateSessionRequest |-> MarshalToCreateSessionRequest,
   CreateSessionResponse |-> MarshalToCreateSessionResponse,
   DeleteBearerCommand |-> MarshalToDeleteBearerCommand,
   DeleteBearerFailureIndication |-> MarshalToDeleteBearerFailureIndication,
   DeleteBearerRequest |-> MarshalToDeleteBearerRequest,
   DeleteBearerResponse |-> MarshalToDeleteBearerResponse,
   DeletePDNConnectionSetRequest |-> MarshalToDeletePDNConnectionSetRequest,
   DeletePDNConnectionSetResponse |-> MarshalToDeletePDNConnectionSetResponse,
   DeleteSessionRequest |-> MarshalToDeleteSessionRequest,
   DeleteSessionResponse |-> MarshalToDeleteSessionResponse,
   DetachAcknowledge |-> MarshalToDetachAcknowledge,
   DetachNotification |-> MarshalToDetachNotification,
   DownlinkDataNotificationAcknowledge |-> MarshalToDownlinkDataNotificationAcknowledge,
   DownlinkDataNotificationFailureIndication |-> MarshalToDownlinkDataNotificationFailureIndication,
   DownlinkDataNotification |-> MarshalToDownlinkDataNotification,
   EchoRequest |-> MarshalToEchoRequest, EchoResponse |-> MarshalToEchoResponse,
   ModifyAccessBearersRequest |-> MarshalToModifyAccessBearersRequest,
   ModifyAccessBearersResponse |-> MarshalToModifyAccessBearersResponse,
   ModifyBearerCommand |-> MarshalToModifyBearerCommand,
   ModifyBearerFailureIndication |-> MarshalToModifyBearerFailureIndication,
   ModifyBearerRequest |-> MarshalToModifyBearerRequest,
   ModifyBearerResponse |-> MarshalToModifyBearerResponse,
   PGWRestartNotificationAcknowledge |-> MarshalToPGWRestartNotificationAcknowledge,
   PGWRestartNotification |-> MarshalToPGWRestartNotification,
   ReleaseAccessBearersRequest |-> MarshalToReleaseAccessBearersRequest,
   ReleaseAccessBearersResponse |-> MarshalToReleaseAccessBearersResponse,
   StopPagingIndication |-> MarshalToStopPagingIndication,
   UpdateBearerRequest |-> MarshalToUpdateBearerRequest,
   UpdateBearerResponse |-> MarshalToUpdateBearerResponse,
   UpdatePDNConnectionSetRequest |-> MarshalToUpdatePDNConnectionSetRequest,
   UpdatePDNConnectionSetResponse |-> MarshalToUpdatePDNConnectionSetResponse,
   VersionNotSupportedIndication |-> MarshalToVersionNotSupportedIndication]

MarshalLen ==
  [ContextAcknowledge |-> MarshalLenContextAcknowledge,
   ContextRequest |-> MarshalLenContextRequest,
   ContextResponse |-> MarshalLenContextResponse,
   CreateBearerRequest |-> MarshalLenCreateBearerRequest,
   CreateBearerResponse |-> MarshalLenCreateBearerResponse,
   CreateSessionRequest |-> MarshalLenCreateSessionRequest,
   CreateSessionResponse |-> MarshalLenCreateSessionResponse,
   DeleteBearerCommand |-> MarshalLenDeleteBearerCommand,
   DeleteBearerFailureIndication |-> MarshalLenDeleteBearerFailureIndication,
   DeleteBearerRequest |-> MarshalLenDeleteBearerRequest,
   DeleteBearerResponse |-> MarshalLenDeleteBearerResponse,
   DeletePDNConnectionSetRequest |-> MarshalLenDeletePDNConnectionSetRequest,
   DeletePDNConnectionSetResponse |-> MarshalLenDeletePDNConnectionSetResponse,
   DeleteSessionRequest |-> MarshalLenDeleteSessionRequest,
   DeleteSessionResponse |-> MarshalLenDeleteSessionResponse,
   DetachAcknowledge |-> MarshalLenDetachAcknowledge,
   DetachNotification |-> MarshalLenDetachNotification,
   DownlinkDataNotificationAcknowledge |-> MarshalLenDownlinkDataNotificationAcknowledge,
   DownlinkDataNotificationFailureIndication |->
     MarshalLenDownlinkDataNotificationFailureIndication,
   DownlinkDataNotification |-> MarshalLenDownlinkDataNotification,
   EchoRequest |-> MarshalLenEchoRequest, EchoResponse |-> MarshalLenEchoResponse,
   ModifyAccessBearersRequest |-> MarshalLenModifyAccessBearersRequest,
   ModifyAccessBearersResponse |-> MarshalLenModifyAccessBearersResponse,
   ModifyBearerCommand |-> MarshalLenModifyBearerCommand,
   ModifyBearerFailureIndication |-> MarshalLenModifyBearerFailureIndication,
   ModifyBearerRequest |-> MarshalLenModifyBearerRequest,
   ModifyBearerResponse |-> MarshalLenModifyBearerResponse,
   PGWRestartNotificationAcknowledge |-> MarshalLenPGWRestartNotificationAcknowledge,
   PGWRestartNotification |-> MarshalLenPGWRestartNotification,
   ReleaseAccessBearersRequest |-> MarshalLenReleaseAccessBearersRequest,
   ReleaseAccessBearersResponse |-> MarshalLenReleaseAccessBearersResponse,
   StopPagingIndication |-> MarshalLenStopPagingIndication,
   UpdateBearerRequest |-> MarshalLenUpdateBearerRequest,
   UpdateBearerResponse |-> MarshalLenUpdateBearerResponse,
   UpdatePDNConnectionSetRequest |-> MarshalLenUpdatePDNConnectionSetRequest,
   UpdatePDNConnectionSetResponse |-> MarshalLenUpdatePDNConnectionSetResponse,
   VersionNotSupportedIndication |-> MarshalLenVersionNotSupportedIndication]

=============================================================================
