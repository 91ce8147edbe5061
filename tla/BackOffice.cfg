SPECIFICATION Spec
CONSTANTS
  Item = {v1}
  Desk = {d1, d2}
  Change <- Deltas
  Limit = {1}
  Most = 2
  Image = {i1, i2}
  Variant = {v1, v2}
  Color = {c1, c2}
  Editor = {e1, e2}
  None = None
  EditSlugs <- Slugs
  EditTags <- Tags
  EditProducts <- Products
  MostEdits = 2
SYMMETRY Sym
INVARIANTS
  ReservedIsHolds
  ReportsAgree
  OnePrimary
  SyncRepairs
PROPERTIES
  CommandsRepeat
  SeedsOnlyAdd
