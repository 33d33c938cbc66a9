SPECIFICATION InlineRuns
CONSTANTS
  Families <- AllKinds
  Paragraphs <- MCParagraphs
  Configs <- MCConfigs
  Inputs = {}
  InlineCap = 1
INVARIANTS
  EveryByteOnce ChildrenInSourceOrder ToldInsideOut DelimitersHonourPolicy
PROPERTY InlineMakesProgress
