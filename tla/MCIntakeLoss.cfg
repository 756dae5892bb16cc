CONSTANTS
  Admins = {a1}
  Requests = {"LIVE"}
  MaxRequests = 1
  Nil = Nil
  Incidents = {i1}
  Versions = {1}
  Counted = {1}
  Handlers = {h1}
  TeamSize = 2
  Limit = 1
  MaxDeliveries = 1
  Faults = FALSE
SPECIFICATION Spec
INVARIANTS NoIncidentLoss
CHECK_DEADLOCK FALSE
