SPECIFICATION FairSpec
CONSTANTS
  Pid = {p1, p2}
  Key = {k1}
  RefundKey = {r1}
  Web = {w1, w2}
  None = None
  Amount = 2
  MaxCrashes = 1
INVARIANTS SucceededIsCharged OneStripeRowPerKey
PROPERTIES ChargeRecorded
