SPECIFICATION Spec
CONSTANTS
  Parcel <- TwoParcels
  Area <- OneArea
  Token = {t1, t2}
  Web = {w1, w2}
  None = None
  Spans <- TwoSpans
  Skew = 2
  Floor = 1
  Timeout = 1
INVARIANTS
  TypeOK
  NeverTooOld
  OneRefusalIsRepaired
  ChargeFits
SYMMETRY Sym
