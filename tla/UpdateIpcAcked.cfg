SPECIFICATION Spec
CONSTANTS
  Client = {c1, c3}
  NoClient = NoClient
  Fds = 3
  Chunks = 2
  BufSize = 1
  DryClient = {c1}
  BadClient = {}
  DirsOutcome = {TRUE}
INVARIANTS
  AckedIsInstalled
CHECK_DEADLOCK FALSE
