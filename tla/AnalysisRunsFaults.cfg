CONSTANTS
  q1 = q1
  q2 = q2
  q3 = q3
  d1 = d1
  d2 = d2
  w1 = w1
  w2 = w2
  None = None
  Requests = {q1, q2}
  Drafts = {d1}
  Slots = {w1, w2}
  MaxCrashes = 1
  MaxPublishFailures = 1
  MaxRedeliveries = 1
SPECIFICATION FairSpec
INVARIANTS
  TypeOK
  ActiveRunHasExecutor
  CompletedRanAllStages
  OneExecutorPerRun
PROPERTIES
  EveryRunSettles
CHECK_DEADLOCK FALSE
