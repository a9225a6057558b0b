CONSTANTS
  DataFds = {0, 5}
  StopFd = 4
  StopMax = 2
SPECIFICATION FairSpec
INVARIANTS
  TypeOK
  SleepsOnlyWithDevice
  InterestMatchesDatafd
PROPERTIES
  ClosedAfterUnwatched
  StopEndsRun
  KeepsTryingToOpen
  ImplementsContract
