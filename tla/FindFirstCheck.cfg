SPECIFICATION Spec
CONSTANTS
  Ids = {i1, i2}
  NoId = NoId
  Runs = {r1}
  Requests = {q1}
  Writers = {r1, q1}
  Kind = "http"
  Confirm = TRUE
  FlapThreshold = 2
  MayOverrun = FALSE
  Turns = {}
  MaxArrivals = 1
  MaxFaults = 0
SYMMETRY Symmetry
INVARIANT PointerAgrees
