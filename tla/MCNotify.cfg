SPECIFICATION MCSpec
CONSTANTS
  Poller = {p1, p2}
  Stream = {s1}
  Listener = {l1}
  Nobody = Nobody
  NumCached = 2
  BufSize = 1
  SubMessages = 3
  Hasty = {l1}
INVARIANTS
  CacheBounded
PROPERTIES
  StreamNoGap
  ProgressNoGap
  NotifyReturns
  PollEnds
CHECK_DEADLOCK FALSE
