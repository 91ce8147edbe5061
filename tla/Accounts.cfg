CONSTANTS
  User = {u1, u2}
  Email = {e1, e2}
  Password = {p1}
  Google = {g1, g2}
  Code = {c1}
  Token = {t1}
  Web = {w1, w2}
  None = None
SPECIFICATION Spec
SYMMETRY Sym
INVARIANTS
  TypeOK
  VerifiedIsProven
  SameUserEachTime
  CanSignIn

