CONSTANTS
  Admins = {a1}
  Requests = {"LIVE"}
  MaxRequests = 1
  Nil = Nil
  Incidents = {i1}
  Versions = {1, 2, 3}
  Counted = {1}
  Handlers = {h1, h2}
  TeamSize = 2
  Limit = 1
  MaxDeliveries = 3
  Faults = TRUE
SPECIFICATION LiveSpec
INVARIANTS TypeOK EachUpdateOnce ProcessedMeansStored
PROPERTIES KeepsLedger AssignedOnce EveryDeliveryEnds
CHECK_DEADLOCK FALSE
