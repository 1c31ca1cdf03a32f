SPECIFICATION Spec
CONSTANTS
  a1 = a1
  a2 = a2
  Asset = {a1}
  Algorithm = {g1}
  ResultId = {r1, r2, r3}
  User = {u1}
  Priority <- MCPriority
  EmailTrigger <- MCEmailTrigger
  CmmsTrigger <- MCCmmsTrigger
  CmmsEnabled <- MCCmmsEnabled
  Interleaved = FALSE
  Failures = TRUE
  MaxChecks = 2
  None = None
INVARIANT
  ActiveIsMailed
