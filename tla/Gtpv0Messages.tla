--------------------------- MODULE Gtpv0Messages ---------------------------
(* The control messages of gtpv0/message.  MessageTable says how to read them. *)
EXTENDS MessageTable

\* create-pdp-context-req.go
NewCreatePDPContextRequest ==
  Own({"Recovery", "SelectionMode", "FlowLabelDataI", "FlowLabelSignalling", "EndUserAddress",
      "MSISDN", "PrivateExtension"}) \cup {
    In("RouteingAreaIdentity", "RAI"), In("QualityOfServiceProfile", "QoSProfile"),
    In("AccessPointName", "APN"), In("ProtocolConfigurationOptions", "PCO"),
    InFree("GSNAddress", <<"SGSNAddressForSignalling">>, "SGSNAddressForUserTraffic")}
UnmarshalCreatePDPContextRequest == NewCreatePDPContextRequest
MarshalToCreatePDPContextRequest ==
  <<"RAI", "QoSProfile", "Recovery", "SelectionMode", "FlowLabelDataI",
    "FlowLabelSignalling", "EndUserAddress", "APN", "PCO", "SGSNAddressForSignalling",
    "SGSNAddressForUserTraffic", "MSISDN", "PrivateExtension", AdditionalIEs>>
MarshalLenCreatePDPContextRequest ==
  <<"RAI", "QoSProfile", "Recovery", "SelectionMode", "FlowLabelDataI", "FlowLabelSignalling",
    "EndUserAddress", "APN", "PCO", "SGSNAddressForSignalling", "SGSNAddressForUserTraffic",
    "MSISDN", "PrivateExtension", AdditionalIEs>>

\* create-pdp-context-res.go
NewCreatePDPContextResponse ==
  Own({"Cause", "ReorderingRequired", "Recovery", "FlowLabelDataI", "FlowLabelSignalling",
      "ChargingID", "EndUserAddress", "ChargingGatewayAddress", "PrivateExtension"}) \cup {
    In("QualityOfServiceProfile", "QoSProfile"), In("ProtocolConfigurationOptions", "PCO"),
    InFree("GSNAddress", <<"GGSNAddressForSignalling">>, "GGSNAddressForUserTraffic")}
UnmarshalCreatePDPContextResponse == NewCreatePDPContextResponse
MarshalToCreatePDPContextResponse ==
  <<"Cause", "QoSProfile", "ReorderingRequired", "Recovery", "FlowLabelDataI",
    "FlowLabelSignalling", "ChargingID", "EndUserAddress", "PCO", "GGSNAddressForSignalling",
    "GGSNAddressForUserTraffic", "ChargingGatewayAddress", "PrivateExtension", AdditionalIEs>>
MarshalLenCreatePDPContextResponse ==
  <<"Cause", "QoSProfile", "ReorderingRequired", "Recovery", "FlowLabelDataI",
    "FlowLabelSignalling", "ChargingID", "EndUserAddress", "PCO", "GGSNAddressForSignalling",
    "GGSNAddressForUserTraffic", "ChargingGatewayAddress", "PrivateExtension", AdditionalIEs>>

\* delete-pdp-context-req.go
NewDeletePDPContextRequest ==
  Own({"PrivateExtension"})
UnmarshalDeletePDPContextRequest == NewDeletePDPContextRequest
MarshalToDeletePDPContextRequest ==
  <<"PrivateExtension", AdditionalIEs>>
MarshalLenDeletePDPContextRequest ==
  <<"PrivateExtension", AdditionalIEs>>

\* delete-pdp-context-res.go
NewDeletePDPContextResponse ==
  Own({"Cause", "PrivateExtension"})
UnmarshalDeletePDPContextResponse == NewDeletePDPContextResponse
MarshalToDeletePDPContextResponse ==
  <<"Cause", "PrivateExtension", AdditionalIEs>>
MarshalLenDeletePDPContextResponse ==
  <<"Cause", "PrivateExtension", AdditionalIEs>>

\* echo-req.go
NewEchoRequest ==
  Own({"PrivateExtension"})
UnmarshalEchoRequest == NewEchoRequest
MarshalToEchoRequest ==
  <<"PrivateExtension", AdditionalIEs>>
MarshalLenEchoRequest ==
  <<"PrivateExtension", AdditionalIEs>>

\* echo-res.go
NewEchoResponse ==
  Own({"Recovery", "PrivateExtension"})
UnmarshalEchoResponse == NewEchoResponse
MarshalToEchoResponse ==
  <<"Recovery", "PrivateExtension", AdditionalIEs>>
MarshalLenEchoResponse ==
  <<"Recovery", "PrivateExtension", AdditionalIEs>>

\* update-pdp-context-req.go
NewUpdatePDPContextRequest ==
  Own({"Recovery", "FlowLabelDataI", "FlowLabelSignalling", "EndUserAddress",
      "PrivateExtension"}) \cup {
    In("RouteingAreaIdentity", "RAI"), In("QualityOfServiceProfile", "QoSProfile"),
    InFree("GSNAddress", <<"SGSNAddressForSignalling">>, "SGSNAddressForUserTraffic")}
UnmarshalUpdatePDPContextRequest == NewUpdatePDPContextRequest
MarshalToUpdatePDPContextRequest ==
  <<"RAI", "QoSProfile", "Recovery", "FlowLabelDataI", "FlowLabelSignalling",
    "EndUserAddress", "SGSNAddressForSignalling", "SGSNAddressForUserTraffic",
    "PrivateExtension", AdditionalIEs>>
MarshalLenUpdatePDPContextRequest ==
  <<"RAI", "QoSProfile", "Recovery", "FlowLabelDataI", "FlowLabelSignalling", "EndUserAddress",
    "SGSNAddressForSignalling", "SGSNAddressForUserTraffic", "PrivateExtension", AdditionalIEs>>

\* update-pdp-context-res.go
NewUpdatePDPContextResponse ==
  Own({"Cause", "Recovery", "FlowLabelDataI", "FlowLabelSignalling", "ChargingID",
      "EndUserAddress", "ChargingGatewayAddress", "PrivateExtension"}) \cup {
    In("QualityOfServiceProfile", "QoSProfile"), InFree("GSNAddress",
        <<"GGSNAddressForSignalling">>, "GGSNAddressForUserTraffic")}
UnmarshalUpdatePDPContextResponse == NewUpdatePDPContextResponse
MarshalToUpdatePDPContextResponse ==
  <<"Cause", "QoSProfile", "Recovery", "FlowLabelDataI", "FlowLabelSignalling", "ChargingID",
    "EndUserAddress", "GGSNAddressForSignalling", "GGSNAddressForUserTraffic",
    "ChargingGatewayAddress", "PrivateExtension", AdditionalIEs>>
MarshalLenUpdatePDPContextResponse ==
  <<"Cause", "QoSProfile", "Recovery", "FlowLabelDataI", "FlowLabelSignalling", "ChargingID",
    "EndUserAddress", "GGSNAddressForSignalling", "GGSNAddressForUserTraffic",
    "ChargingGatewayAddress", "PrivateExtension", AdditionalIEs>>

-----------------------------------------------------------------------------

New ==
  [CreatePDPContextRequest |-> NewCreatePDPContextRequest,
   CreatePDPContextResponse |-> NewCreatePDPContextResponse,
   DeletePDPContextRequest |-> NewDeletePDPContextRequest,
   DeletePDPContextResponse |-> NewDeletePDPContextResponse, EchoRequest |-> NewEchoRequest,
   EchoResponse |-> NewEchoResponse, UpdatePDPContextRequest |-> NewUpdatePDPContextRequest,
   UpdatePDPContextResponse |-> NewUpdatePDPContextResponse]

Unmarshal ==
  [CreatePDPContextRequest |-> UnmarshalCreatePDPContextRequest,
   CreatePDPContextResponse |-> UnmarshalCreatePDPContextResponse,
   DeletePDPContextRequest |-> UnmarshalDeletePDPContextRequest,
   DeletePDPContextResponse |-> UnmarshalDeletePDPContextResponse,
   EchoRequest |-> UnmarshalEchoRequest, EchoResponse |-> UnmarshalEchoResponse,
   UpdatePDPContextRequest |-> UnmarshalUpdatePDPContextRequest,
   UpdatePDPContextResponse |-> UnmarshalUpdatePDPContextResponse]

MarshalTo ==
  [CreatePDPContextRequest |-> MarshalToCreatePDPContextRequest,
   CreatePDPContextResponse |-> MarshalToCreatePDPContextResponse,
   DeletePDPContextRequest |-> MarshalToDeletePDPContextRequest,
   DeletePDPContextResponse |-> MarshalToDeletePDPContextResponse,
   EchoRequest |-> MarshalToEchoRequest, EchoResponse |-> MarshalToEchoResponse,
   UpdatePDPContextRequest |-> MarshalToUpdatePDPContextRequest,
   UpdatePDPContextResponse |-> MarshalToUpdatePDPContextResponse]

MarshalLen ==
  [CreatePDPContextRequest |-> MarshalLenCreatePDPContextRequest,
   CreatePDPContextResponse |-> MarshalLenCreatePDPContextResponse,
   DeletePDPContextRequest |-> MarshalLenDeletePDPContextRequest,
   DeletePDPContextResponse |-> MarshalLenDeletePDPContextResponse,
   EchoRequest |-> MarshalLenEchoRequest, EchoResponse |-> MarshalLenEchoResponse,
   UpdatePDPContextRequest |-> MarshalLenUpdatePDPContextRequest,
   UpdatePDPContextResponse |-> MarshalLenUpdatePDPContextResponse]

=============================================================================
