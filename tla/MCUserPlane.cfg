SPECIFICATION Spec
CONSTANTS
  Subscriber <- MCSubscriber
  MS <- MCMS
  MSsOf <- MCMSsOf
  TEID <- MCTEID
  Packet <- MCPacket
  None = None
INVARIANTS
  TypeOK
  RelayedAsRegistered
  HandledIfUnknown
  TeidsExclusive
  KernelTakesOver
  OverrideSucceeds
PROPERTIES
  PacketsEnd
CHECK_DEADLOCK FALSE
