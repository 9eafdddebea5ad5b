SPECIFICATION FairSpec
CONSTANTS
  Docs = {d1, d2}
  Workers = {w1, w2}
  Signers = {w1, w2}
  NoDoc = NoDoc
  NoResult = NoResult
  MaxJobRetries = 3
  DlqReprocessing = TRUE
  MaxFailures = 2
  MaxCrashes = 1
  MaxFaults = 0
  Replicas = {r1}
  ApiOutcomes = {"ok"}
  MaxApiFaults = 0
  MaxApiCrashes = 1
CHECK_DEADLOCK FALSE
INVARIANT OnlyKillsLose
PROPERTY StatusFollowsContract
PROPERTY SettledUnlessKilled
PROPERTY PoolIsAWorkerPool
