SPECIFICATION Spec
CONSTANTS
  y1 = y1
  ItpId = {p1}
  DeliverableId = {d1}
  ItcId = {t1, t2, t3}
  Type = {y1}
  TypeOf <- MCTypeOf
  Group = {g1}
  GenericId = {x1}
  ItcCheckId = {c1}
  MapId = {m1, m2, m3}
  MaxNumber = 3
  None = None
SYMMETRY MCSymmetry
INVARIANTS
  TypeOK
  ChecklistHasTemplate
  SameTemplate
PROPERTY
  GroupsKept
