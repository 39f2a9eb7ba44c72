SPECIFICATION LiveSpec
CONSTANTS
  RunIds = {a, b, c}
  None = None
  Crons = {c1}
  Consumers = {d1, d2}
  QueueLease = 2
  CallTime = 1
  RunLease = 2
  StartDelay = 0
  MaxGap = 1
  MaxTries = 2
  Waits = 0
  AtLeastOnce = TRUE
  MaxFaults = 1
PROPERTIES CalledAgain
