SPECIFICATION Spec
CONSTANTS
  u1 = u1
  u2 = u2
  s1 = s1
  s2 = s2
  s3 = s3
  User = {u1, u2}
  Admin = {u2}
  Session = {s1, s3}
  UserOf <- MCUserOf
  Content = {c1}
  None = None
  Interleaved = TRUE
  Failures = TRUE
SYMMETRY MCSymmetry
INVARIANTS
  ClosedHasResolution
  DuplicatesBounded
