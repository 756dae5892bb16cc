CONSTANTS
  Admins = {a1}
  Requests = {"pause", "LIVE", "SHADOW", "DRY_RUN", "enable"}
  MaxRequests = 3
  Nil = Nil
  Incidents = {i1, i2, i3}
  Versions = {1}
  Counted = {1}
  Handlers = {h1, h2}
  TeamSize = 2
  Limit = 1
  MaxDeliveries = 3
  Faults = FALSE
SPECIFICATION Spec
SYMMETRY Interchangeable
INVARIANTS PilotOvershoot LiveUnlessDisturbed
CHECK_DEADLOCK FALSE
