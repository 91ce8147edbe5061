SPECIFICATION Spec
CONSTANTS
  Variant = {v1}
  Item = {i1, i2, i3}
  Web = {w1, w2}
  None = None
  Stock = 1
  MaxQty = 1
  MaxLine = 2
  PromoLimit = 1
  MaxOrders = 1
SYMMETRY Sym
INVARIANTS OneLinePerVariant CouponMatchesClaim
