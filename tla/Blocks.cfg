SPECIFICATION BlockRuns
CONSTANTS
  Families <- EveryBlock
  Documents <- MCDocuments
  MostLines = 3
  Profiles = {TRUE, FALSE}
INVARIANTS
  EveryLineOnce BlocksInSourceOrder FirstDefinitionWins
  ParagraphsAreMaximal ListsAreMaximal LooseIsNeverMissed
  NormalizedOnce MeaningSurvives
PROPERTY EveryTurnMakesProgress
