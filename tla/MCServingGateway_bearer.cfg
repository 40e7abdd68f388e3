SPECIFICATION Spec
CONSTANTS
  Handler = {h1, h2}
  Session = {s1, s2}
  None = None
  WithoutFteid = {s2}
  QueueCap = 1
  MaxSeq <- MCMaxSeq
SYMMETRY Symmetry
INVARIANTS
  DefaultBearerFound
CHECK_DEADLOCK FALSE
