SPECIFICATION ToolRuns
CONSTANTS
  Paths <- SixPaths
  Files <- SomeFiles
  NoFile = NoFile
  Parts <- SomeParts
  Old <- OldParts
  Starts <- ThreeStarts
  Count = 2
  Pinned <- PinnedParts
  Answers <- WrongAnswers
  Target <- TargetPaths
  Temporary <- TemporaryPaths
  MaxFaults = 2
  Converts = {"convert"}
  Explains = {"explain"}
  Input <- InputPaths
  Output <- OutputPaths
  Rendered <- Tagged
INVARIANTS ReadsAreWhole OutputOldOrBegun ExitCodeIsTrue
PROPERTIES FixturesReplacedWhole RetryHeals
