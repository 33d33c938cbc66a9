SPECIFICATION FairCalls
CONSTANTS
  c1 = c1
  c2 = c2
  r1 = r1
  NoOne = NoOne
  Calls <- MCCalls
  Readers <- MCReaders
  MaxInput = 2
  MaxInt = 7
  Sizes <- AroundTheLimit
  MaxEvents = 1
  TraceLevel <- MCTraceLevel
  FilterLevel <- MCFilterLevel
  SinkKinds = {"collector", "json", "text"}
INVARIANTS
  NoEventIsLost LockHasAnOwner
  InputIsWhole CancelEndsTracing JSONLinesStayWhole
PROPERTIES SharedSinkIsALog CallsReturn
