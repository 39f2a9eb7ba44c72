SPECIFICATION LiveSpec
CONSTANTS
  Ids = {i1, i2}
  NoId = NoId
  Runs = {r1}
  Requests = {}
  Writers = {r1}
  Kind = "http"
  Confirm = TRUE
  FlapThreshold = 2
  MayOverrun = FALSE
  Turns = {"maintenance"}
  MaxArrivals = 0
  MaxFaults = 2
PROPERTIES AlertCaughtUp OutageEnds
