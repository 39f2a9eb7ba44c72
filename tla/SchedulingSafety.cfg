SPECIFICATION Spec
CONSTANTS
  RunIds = {a, b, c}
  None = None
  Crons = {c1, c2}
  Consumers = {d1, d2}
  QueueLease = 2
  CallTime = 1
  RunLease = 3
  StartDelay = 1
  MaxGap = 2
  MaxTries = 2
  Waits = 1
  AtLeastOnce = FALSE
  MaxFaults = 3
SYMMETRY Symmetry
INVARIANTS OneCallAtATime
PROPERTIES ClaimOutlastsCall
