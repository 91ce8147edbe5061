SPECIFICATION Spec
CONSTANTS
  Order = {1, 2}
  Variant = {1, 2}
  Txn = {t1}
  Web = {w1}
  Beat = {b1}
  None = None
  Lines <- SharedLines
  InitialStock <- TwoEach
  StaffTargets = {"cancelled"}
SYMMETRY Sym
PROPERTIES LateNeverCommits
