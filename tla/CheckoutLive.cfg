SPECIFICATION LiveSpec
CONSTANTS
  Order = {1, 2}
  Variant = {1, 2}
  Txn = {t1}
  Web = {w1}
  Beat = {b1}
  None = None
  MaxLost = 1
  Lines <- OwnLines
  InitialStock <- TwoEach
  StaffTargets = {"cancelled"}
PROPERTIES UnpaidExpires
