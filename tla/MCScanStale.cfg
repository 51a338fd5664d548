\* Hours 0 to 2, two files an hour, neither failures nor crashes.
SPECIFICATION Spec
CONSTANTS
  FilesPerHour = 2
  FirstHour = 1
  MaxOutstanding = 0
  MaxHour = 2
  MaxFaults = 0
  MaxCrashes = 0
INVARIANT
  ExhaustedBeforeClosed
CHECK_DEADLOCK FALSE
