SPECIFICATION Spec
CONSTANTS
  Order = {1, 2}
  Variant = {1, 2}
  Txn = {t1}
  Web = {w1, w2}
  Beat = {b1, b2}
  None = None
  Lines <- CrossedLines
  InitialStock <- LastOther
  StaffTargets = {"cancelled", "awaiting_payment"}
SYMMETRY Sym
INVARIANTS ReleasedOnce BalanceInv CheckoutsNeverDeadlock
PROPERTIES HeldUnlessReopened
