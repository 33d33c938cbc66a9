\* Ten words in emphasis, and the array as large as it is in the code.
SPECIFICATION Spec
CONSTANTS
  Families = {}
  LongTexts <- TenWords
  Inputs <- MCInputs
  InlineCap = 8
INVARIANT LookupFindsEveryPair
CHECK_DEADLOCK FALSE
