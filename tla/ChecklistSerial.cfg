SPECIFICATION Spec
CONSTANTS
  p1 = p1
  p2 = p2
  i1 = i1
  i2 = i2
  t1 = t1
  t2 = t2
  u1 = u1
  Itp = {p1, p2}
  FirstItp = p1
  Itc = {i1, i2}
  ItpOf <- MCItpOf
  Template = {t1, t2}
  TemplateOf <- MCTemplateOf
  ItcCheckId = {k1, k2}
  OwnerOf <- MCOwnerOf
  CheckId = {c1, c2, c3}
  Session = {s1, s2}
  User = {u1}
  UserOf <- MCUserOf
  MaxNumber = 2
  None = None
SYMMETRY MCSymmetry
INVARIANTS
  TypeOK
  PercentageFresh
  ViewsAgree
  UndoneIsUnsigned
PROPERTY
  NumberingKept
