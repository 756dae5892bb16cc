CONSTANTS
  Admins = {a1}
  Requests = {"LIVE", "enable"}
  MaxRequests = 2
  Nil = Nil
  Incidents = {i1, i2}
  Versions = {1}
  Counted = {1}
  Handlers = {h1, h2}
  TeamSize = 1
  Limit = 1
  MaxDeliveries = 2
  Faults = FALSE
SPECIFICATION Spec
SYMMETRY Interchangeable
INVARIANTS PilotCapped
CHECK_DEADLOCK FALSE
