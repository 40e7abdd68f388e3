SPECIFICATION Spec
CONSTANTS
  Message <- MCMessage
  NewSwitch <- MCNew
  UnmarshalSwitch <- MCUnmarshal
  MarshalToOrder <- MCMarshalTo
  MarshalLenOrder <- MCMarshalLen
  MaxIEs = 2
  MaxAlike = 5
  MaxMarshals = 2
INVARIANTS
  LengthExact
  RoundTripElsewhere
  RelayStable
  UnknownKept
CHECK_DEADLOCK FALSE
