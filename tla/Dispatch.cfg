SPECIFICATION DispatchRuns
CONSTANTS
  Registrations <- MCRegistrations
  Trimmed <- MCTrimmed
  Bytes <- MCBytes
  FreezeCalls <- MCFreezeCalls
  Families <- MixedFamily
  Sources <- MCSources
INVARIANTS
  NoConflicts DispatchIsDetermined OffsetsFollowTheSource HooksTakeTheirShare
CHECK_DEADLOCK FALSE
