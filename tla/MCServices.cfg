CONSTANTS
  SyncIncidents = {i1}
  Assignees = {e1, e2}
  Failures = {f1}
  Batches = {w1, w2}
  MaxRetries = 1
  MaxAttempts = 2
  MaxSyncs = 2
  MaxBatches = 3
  Users = {u1, u2}
  ChatRequests = {r1, r2}
  ClientIds = {m1}
  MaxOpens = 2
  MaxPosts = 2
  MaxEdits = 2
  Sockets = {s1, s2, s3}
  MaxReconnects = 3
  MaxBreaks = 3
  MaxMounts = 3
  Staff = {e1, e2}
  Size = 2
  Changes = {c1, c2}
  NoOne = NoOne
  MaxInWindow = 2
  Window = 3
  Horizon = 6
  day = day
  night = night
  Engineers = {1, 2, 3}
  Shifts = {day, night}
  Starts <- MCStarts
  Ends <- MCEnds
  Hours = 3
  Days = 2
  MaxTicks = 1
  Arrivals = {1, 2, 3}
  Matching <- MCMatching
  Dispatchers = {h1, h2}
  Recipients = {u1, u2}
  Notifiers = {n1, n2}
  MaxMails = 2
  MaxNotifies = 2
  MaxReadings = 1
  Uploaders = {u1, u2}
  Attachments = {a1, a2}
  Threads = {t1, t2}
  MaxAttached = 2
SPECIFICATION Spec
INVARIANTS
  ServicesTypeOK
  DivergenceOnRecord RecoveredIsTrue DeadLettersWereTried
  OneSocket OneLeader LeaderAtWork ChannelFollowsLeader
  WindowHolds OneConversation PostedOnce AudienceNotified
  SpreadBounded TurnComesRound HandoffSettles
  MailedOrOnRecord MailHasNotice BellIsTrue MediaReachable
PROPERTIES
  DeletedForever Reconnects
CHECK_DEADLOCK FALSE
