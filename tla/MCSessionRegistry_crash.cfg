SPECIFICATION Spec
CONSTANTS
  i1 = i1
  i2 = i2
  s1 = s1
  s2 = s2
  s3 = s3
  Goroutine = {g1, g2}
  TEID = {t1, t2}
  IMSI = {i1, i2}
  Session = {s1, s2, s3}
  IMSIOf <- TwoOfOneSubscriber
  NoEntry = NoEntry
  Reserved = Reserved
  NoTEID = NoTEID
SYMMETRY Symmetry
INVARIANT ValidationNeverCrashes
