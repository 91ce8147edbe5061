SPECIFICATION Spec
CONSTANTS
  Order = {1, 2}
  Variant = {1, 2}
  Txn = {t1, t2}
  Web = {w1, w2}
  Beat = {b1}
  None = None
  Lines <- SharedLines
  InitialStock <- TwoEach
  StaffTargets = {"cancelled"}
SYMMETRY Sym
INVARIANTS TypeOK RowOK LedgerBalance PaidImpliesCommitted CommitPerPayment
PROPERTIES PaidForGood NoReleaseAfterCommit ImplementsOrderStock
