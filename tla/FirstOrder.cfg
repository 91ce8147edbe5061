SPECIFICATION Spec
CONSTANTS
  User = {u1, u2}
  Email = {e1, e2}
  Registered <- OneEmail
  MaxMoves = 1
  MaxLapsed = 1
  Claim = {c1, c2}
  Order = {o1, o2}
  Web = {w1, w2}
  None = None
SYMMETRY Sym
INVARIANTS OneRedemption UsedMeansPaid ClaimStaysWithOwner Inv
