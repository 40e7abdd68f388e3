SPECIFICATION Spec
CONSTANTS
  Element <- MCElement
  Values <- MCValues
  MarshalToRows <- MCMarshalTo
  MarshalLenRows <- MCMarshalLen
  Readers <- MCReaders
  UnitsOf <- MCUnit
  KnownMisread <- MCMisread
  KnownUnread <- MCUnread
  KnownOversteps <- MCOversteps
INVARIANTS
  LengthExact
  ReadsWhatWasWritten
  NeverBeyond
CHECK_DEADLOCK FALSE
