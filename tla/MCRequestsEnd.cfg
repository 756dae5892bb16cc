CONSTANTS
  t1 = t1
  t2 = t2
  e1 = e1
  e2 = e2
  Incidents = {i1}
  Teams = {t1, t2}
  Sessions = {s1, s2}
  Keys = {k1, k2}
  None = None
SPECIFICATION Spec
PROPERTIES EveryCallEnds EveryRequestEnds
