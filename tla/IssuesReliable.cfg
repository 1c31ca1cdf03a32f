SPECIFICATION FairSpec
CONSTANTS
  a1 = a1
  a2 = a2
  Asset = {a1, a2}
  Algorithm = {g1}
  ResultId = {r1, r2}
  User = {u1}
  Priority <- MCPriority
  EmailTrigger <- MCEmailTrigger
  CmmsTrigger <- MCCmmsTrigger
  CmmsEnabled <- MCCmmsEnabled
  Interleaved = TRUE
  Failures = FALSE
  MaxChecks = 2
  None = None
INVARIANTS
  ActiveIsMailed
PROPERTIES
  IssueLeadsToMail
