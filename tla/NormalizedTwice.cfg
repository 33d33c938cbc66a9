SPECIFICATION BlockRuns
CONSTANTS
  Families <- DeepUnderline
  Documents <- MCDocuments
  MostLines = 2
  Profiles = {FALSE}
INVARIANT NormalizedTwice
