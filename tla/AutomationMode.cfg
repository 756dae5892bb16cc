CONSTANTS
  Admins = {a1}
  Requests = {"pause", "resume", "DRY_RUN", "SHADOW", "LIVE", "PAUSED", "enable", "rollback"}
  MaxRequests = 5
  Nil = Nil
SPECIFICATION ModeSpec
INVARIANTS ActingNeedsPhrase
CHECK_DEADLOCK FALSE
