SPECIFICATION DispatchRuns
CONSTANTS
  Registrations <- MCRegistrations
  Trimmed <- MCTrimmed
  Bytes <- MCBytes
  FreezeCalls <- MCFreezeCalls
  Families <- TabFamily
  Sources <- MCSources
INVARIANT IndentIsVisual
CHECK_DEADLOCK FALSE
