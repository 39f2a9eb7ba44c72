SPECIFICATION Spec
CONSTANTS
  Ids = {i1, i2}
  NoId = NoId
  Runs = {r1, r2}
  Requests = {}
  Writers = {r1, r2}
  Kind = "cert"
  Confirm = TRUE
  FlapThreshold = 2
  MayOverrun = FALSE
  Turns = {"maintenance", "pause"}
  MaxArrivals = 0
  MaxFaults = 3
SYMMETRY Symmetry
INVARIANTS PointerAgrees OneRunAtATime
PROPERTIES TimelineCatchesUp NoLateAlert
