SPECIFICATION Spec
CONSTANTS
  Families <- LongOnly
  LongTexts = {}
  Inputs <- MCInputs
  InlineCap = 2
INVARIANT SpansNest
CHECK_DEADLOCK FALSE
