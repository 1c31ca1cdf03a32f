SPECIFICATION Spec
CONSTANTS
  a1 = a1
  a2 = a2
  Asset = {a1}
  Algorithm = {g1}
  ResultId = {r1, r2, r3, r4}
  User = {u1, u2}
  Priority <- MCPriority
  EmailTrigger <- MCEmailTrigger
  CmmsTrigger <- MCCmmsTrigger
  CmmsEnabled <- MCCmmsEnabled
  Interleaved = TRUE
  Failures = TRUE
  MaxChecks = 4
  None = None
SYMMETRY MCSymmetry
INVARIANTS
  NotifiedOnce
  CheckedIsSettled
