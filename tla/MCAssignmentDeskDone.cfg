CONSTANTS
  t1 = t1
  t2 = t2
  e1 = e1
  e2 = e2
  e3 = e3
  Incidents = {i1}
  Teams = {t1, t2}
  Employees = {e1, e2}
  TeamOf <- Placement
  TeamSize = 2
  Sessions = {s1, s2}
  Operations = {"assign", "start", "complete"}
  None = None
SPECIFICATION Spec
SYMMETRY Interchangeable
PROPERTIES CompletionIsPermanent
