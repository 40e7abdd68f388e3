SPECIFICATION GatewaysSpec
CONSTANTS
  Handler = {h1, h2}
  Session = {s1, s2}
  None = None
  WithoutFteid = {}
  QueueCap = 1
  MaxSeq <- MCMaxSeq
INVARIANTS
  ConsistentAtRest
  DeletedByOwnAnswer
PROPERTIES
  ProceduresEnd
CHECK_DEADLOCK FALSE
