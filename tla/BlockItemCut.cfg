SPECIFICATION BlockRuns
CONSTANTS
  Families <- EmptyItems
  Documents <- MCDocuments
  MostLines = 0
  Profiles = {FALSE}
INVARIANT ItemsTakeWhatIsIndented
