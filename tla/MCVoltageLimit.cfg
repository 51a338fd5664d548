\* Three windows of three samples; an event is sustained after four, a sag counts from two on.
SPECIFICATION Spec
CONSTANTS
  Window = 3
  Over = 4
  MaxWdwSag = 1
  MaxWindows = 3
INVARIANTS
  TypeOK
  ReportsExact
  NothingWithdrawn
\* The stream ends after MaxWindows windows.
CHECK_DEADLOCK FALSE
