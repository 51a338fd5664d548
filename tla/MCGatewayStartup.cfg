\* The three services of the shipped configuration.
SPECIFICATION FairSpec
CONSTANTS
  Main = main
  Plugins = {archiver, rabbit}
  Rabbit = rabbit
  Discovery = discovery
  Free = free
  Records = 3
  MaxScan = 2
INVARIANTS
  TypeOK
  MutexProtects
  HeldOrLeaked
PROPERTIES
  StartsUnlessLeaked
\* A leaked mutex stops every thread.
CHECK_DEADLOCK FALSE
