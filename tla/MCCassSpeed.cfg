\* Four samples of ten milliseconds a second, two seconds a day, chunks of one or two seconds.
SPECIFICATION Spec
CONSTANTS
  Clients = {c1, c2}
  Requests <- MCRequests
  Devices = {"A", "B"}
  Archives <- MCArchives
  Rate = 4
  Sec = 10
  Day = 20
  IntHalf = 75
  Target = 32
  MaxDelta = 1000
  Garbage = {50, 95}
  MaxFds = 3
  MaxFaults = 1
INVARIANTS
  TypeOK
  NothingSkipped
  ServerSurvives
PROPERTIES
  ChunksAdvance
  EveryRequestAnswered
CHECK_DEADLOCK FALSE
