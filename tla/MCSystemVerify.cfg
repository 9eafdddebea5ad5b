SPECIFICATION Spec
CONSTANTS
  Docs = {d1}
  Workers = {w1}
  Signers = {}
  NoDoc = NoDoc
  NoResult = NoResult
  MaxJobRetries = 3
  DlqReprocessing = TRUE
  MaxFailures = 2
  MaxCrashes = 0
  MaxFaults = 0
  Replicas = {r1}
  ApiOutcomes = {"ok"}
  MaxApiFaults = 0
  MaxApiCrashes = 0
CHECK_DEADLOCK FALSE
INVARIANT VerifyTruthful
