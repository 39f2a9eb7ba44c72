SPECIFICATION Spec
CONSTANTS
  Ids = {i1}
  NoId = NoId
  Runs = {r1, r2}
  Requests = {q1}
  Writers = {r1, r2, q1}
  Kind = "http"
  Confirm = FALSE
  FlapThreshold = 2
  MayOverrun = TRUE
  Turns = {}
  MaxArrivals = 1
  MaxFaults = 0
SYMMETRY Symmetry
INVARIANTS AlertedIsNotified
