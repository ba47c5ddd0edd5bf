SPECIFICATION FairSpec
CONSTANTS
  MaxAction = 2
  Chunks = 2
  Confirm = {"none", "wait"}
  MaxFault = 2
  MaxAttr = 1

  
PROPERTIES
  ResultKept
  
  CancelAnswered
  DeploymentEnds
