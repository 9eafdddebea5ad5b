SPECIFICATION Spec
CONSTANTS
  Docs = {d1, d2, m}
  Malformed = {m}
  Workers = {w1, w2}
  Signers = {w1, w2}
  NoDoc = NoDoc
  MaxJobRetries = 3
  DlqReprocessing = FALSE
  MaxFailures = 4
  MaxCrashes = 2
  MaxFaults = 0
  EnvOutcomes = {"ok"}
SYMMETRY Symmetry
CHECK_DEADLOCK FALSE
INVARIANT HeldIsRecorded
INVARIANT NothingLost
INVARIANT AttemptsBounded
