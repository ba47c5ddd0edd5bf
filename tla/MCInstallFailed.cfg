SPECIFICATION Spec
CONSTANTS
  p = p
  a = a
  b = b
  NoImage = NoImage
  Image <- MCImage
  Version <- MCVersion
  Swu <- MCSwuStream
  EnvOutcome = {TRUE}
  StateOutcome = {TRUE}
INVARIANTS
  FailureIsMarked
