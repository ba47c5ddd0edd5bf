SPECIFICATION FairSpec
CONSTANTS
  p = p
  a = a
  b = b
  NoImage = NoImage
  Image <- MCImage
  Version <- MCVersion
  Swu <- MCSwu
  EnvOutcome = {TRUE}
  StateOutcome = {TRUE, FALSE}
INVARIANTS
  TypeOK
  MarkedWhileDirty
  SuccessMeansInstalled
  PartitionsFirst
  WrittenAfterVerified
PROPERTIES
  BootenvAfterImages
  DryRunTouchesNothing
  Transactional
  UpdateEnds
