SPECIFICATION BootSpec
CONSTANTS
  Slots = 2
  Var = {v1, v2}
  MaxUpdates = 2
  MaxBoots = 3
  MaxFaults = 1
  Thread = {installer_thread, network_thread}
  GVar = {g1, g2}
  Room = 1
  MaxCalls = 4
INVARIANTS
  SuccessIsNext
  RollbackKept
  
  
PROPERTIES
  AckKept
CHECK_DEADLOCK FALSE
