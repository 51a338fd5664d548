\* Hours 0 to 2, two files an hour, one failure and one crash anywhere.
SPECIFICATION Spec
CONSTANTS
  FilesPerHour = 2
  FirstHour = 1
  MaxOutstanding = 0
  MaxHour = 2
  MaxFaults = 1
  MaxCrashes = 1
INVARIANTS
  TypeOK
  NothingLeftBehind
  RowsTellTheTruth
  OneCurrent
  PostedOnce
  CrashLosesFew
PROPERTY
  EventuallyCaughtUp
\* Time ends at MaxHour, and a runaway scan stops one directory after it.
CHECK_DEADLOCK FALSE
