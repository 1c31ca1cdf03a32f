SPECIFICATION FairSpec
CONSTANTS
  plan = plan
  empty = empty
  list = list
  w1 = w1
  w2 = w2
  Report = {plan, empty, list}
  KindOf <- MCKindOf
  Deliverables <- MCDeliverables
  Window = {w1, w2}
  Opens <- MCOpens
  MaxTasks = 2
  MaxCrashes = 1
  None = None
INVARIANTS
  TypeOK
  MergedIsWhole
  OwnPages
  WholeReport
PROPERTY
  PollingEnds
