SPECIFICATION FairSpec
CONSTANTS
  Client = {c1, c3}
  NoClient = NoClient
  Fds = 3
  Chunks = 2
  BufSize = 1
  DryClient = {c1}
  BadClient = {}
  DirsOutcome = {TRUE, FALSE}
PROPERTIES
  UpdateStateLeft
CHECK_DEADLOCK FALSE
