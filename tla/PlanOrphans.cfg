SPECIFICATION Spec
CONSTANTS
  y1 = y1
  ItpId = {p1}
  DeliverableId = {d1}
  ItcId = {t1}
  Type = {y1}
  TypeOf <- MCTypeOf
  Group = {g1}
  GenericId = {x1}
  ItcCheckId = {c1}
  MapId = {m1}
  MaxNumber = 1
  None = None
SYMMETRY MCSymmetry
INVARIANT
  ChecksHaveText
