SPECIFICATION Spec
CONSTANTS
  Docs = {d1, d2}
  Malformed = {}
  Workers = {w1, w2}
  Signers = {w1, w2}
  NoDoc = NoDoc
  MaxJobRetries = 3
  DlqReprocessing = TRUE
  MaxFailures = 3
  MaxCrashes = 1
  MaxFaults = 0
  EnvOutcomes = {"ok"}
SYMMETRY Symmetry
CHECK_DEADLOCK FALSE
INVARIANT TypeOK
INVARIANT OnePlace
INVARIANT CompletedIsLast
INVARIANT CompletedHasObject
