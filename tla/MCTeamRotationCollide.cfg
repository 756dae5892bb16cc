CONSTANTS
  Incidents = {i1, i2}
  Teams = {t1}
  Employees <- Codes
  Sessions = {s1, s2}
  Keys = {k1}
  TeamSize = 2
  Preassigned = {}
  MaxCycle = 1
  None = None
SPECIFICATION Spec
INVARIANTS NoticesDoNotCollide
