CONSTANTS
  Incidents = {i1, i2}
  Teams = {t1}
  Employees <- Codes
  Sessions = {s1, s2}
  Keys = {k1, k2}
  TeamSize = 2
  Preassigned = {2}
  MaxCycle = 1
  None = None
SPECIFICATION Spec
SYMMETRY Interchangeable
INVARIANTS TypeOK TurnsOnRecord OneActiveOwner OnlyNoticesCollide
PROPERTIES KeyTakesOneTurn KeepsRota
