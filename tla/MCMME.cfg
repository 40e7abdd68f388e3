SPECIFICATION Spec
CONSTANTS
  c1 = c1
  c2 = c2
  e1 = e1
  e2 = e2
  Call = {c1, c2}
  Enb = {e1, e2}
  EnbOf <- MCEnbOf
  None = None
  Repeated <- MCRepeated
INVARIANTS
  TypeOK
  SuccessIsOwn
  FailsForAReason
  TokensConsumed
  OnlyARepeatCrashes
PROPERTIES
  GoroutinesEnd
  ImplementsService
CHECK_DEADLOCK FALSE
