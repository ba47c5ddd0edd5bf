SPECIFICATION IpcSpec
CONSTANTS
  Client = {c1, c2, c3}
  NoClient = NoClient
  Fds = 3
  Chunks = 2
  BufSize = 1
  DryClient = {c1}
  BadClient = {c2}
  DirsOutcome = {TRUE}
  s1 = s1
  s2 = s2
  None = None
  Sender <- MCSender
  Commands <- MCCommands
INVARIANTS
  
  ParmsRestored
  OwnParms
  NoLeak
  OldAnswersDropped
  NoTriggerMissed
PROPERTIES
  OneAtATime
  AckedEnds
  UpdateStateLeft
  RequestsServed
CHECK_DEADLOCK FALSE
