\* Four events a second, synchronisation on multiples of two, the first seconds.
SPECIFICATION Spec
CONSTANTS
  SamplesPerSec = 4
  SyncMod = 2
  MaxSec = 4
INVARIANT
  AcceptedIsFull
\* The stream ends at MaxSec.
CHECK_DEADLOCK FALSE
