SPECIFICATION Spec
CONSTANTS
  RunIds = {a, b, c, d}
  None = None
  Crons = {c1, c2}
  Consumers = {d1, d2}
  QueueLease = 3
  CallTime = 1
  RunLease = 3
  StartDelay = 1
  MaxGap = 2
  MaxTries = 2
  Waits = 1
  AtLeastOnce = TRUE
  MaxFaults = 2
SYMMETRY Symmetry
INVARIANTS OneCallAtATime
