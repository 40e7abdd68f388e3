SPECIFICATION Spec
CONSTANTS
  Caller = {c1, c2, c3}
  MaxSeq = 3
  WordMod = 8
SYMMETRY CallerSymmetry
INVARIANT UniqueOutstanding
