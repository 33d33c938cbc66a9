SPECIFICATION Spec
CONSTANTS
  Families <- LongAndMixed
  LongTexts <- ManyPairs
  Inputs <- MCInputs
  InlineCap = 2
INVARIANTS
  PairsDoNotCross NothingLeftToPair
  SpansNestUnlessReopened LookupLosesOnlyTheRefilled
PROPERTY PlanningEnds
CHECK_DEADLOCK FALSE
