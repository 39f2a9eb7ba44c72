SPECIFICATION Spec
CONSTANTS
  Ids = {i1, i2}
  NoId = NoId
  Runs = {r1}
  Requests = {q1}
  Writers = {r1, q1}
  Kind = "heartbeat"
  Confirm = TRUE
  FlapThreshold = 2
  MayOverrun = FALSE
  Turns = {}
  MaxArrivals = 2
  MaxFaults = 0
SYMMETRY Symmetry
PROPERTY MissedYieldsToBeat
