SPECIFICATION Spec
CONSTANTS
  Key = {k1, k2, k3, k4, k5, k6}
  None = None
  Window = {w1, w2}
SYMMETRY MCSymmetry
INVARIANTS
  TypeOK
  NoStrayKey
  EnabledWorks
  TwoDisablesRevoke
PROPERTY
  KeepsPromise
