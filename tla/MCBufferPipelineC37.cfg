\* The C37 gateway: no throttle, queues of 1 that do fill up; a full second (2 bytes) and a
\* short one.
SPECIFICATION Spec
CONSTANTS
  Services = {archiver, rabbit}
  Discovery = discovery
  Archiver = archiver
  Variant = "c37"
  MaxOutstanding = 0
  QueueLen = 1
  RecLen = 2
  ByteLens = {1, 2}
  MaxBuffers = 6
INVARIANTS
  InMemExact
  QueuesBoundMemory
