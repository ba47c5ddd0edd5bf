SPECIFICATION Spec
CONSTANTS
  Poller = {p1, p2}
  Stream = {s1}
  Listener = {l1}
  Nobody = Nobody
  NumCached = 2
  BufSize = 1
  SubMessages = 1
  Hasty = {l1}
INVARIANTS
  NoDeadlock
CHECK_DEADLOCK FALSE
