\* Startup with a missing Cassandra settings row among the possible faults.
SPECIFICATION FairSpec
CONSTANTS
  Main = main
  Plugins = {archiver, rabbit}
  Rabbit = rabbit
  Discovery = discovery
  Free = free
  Records = 3
  MaxScan = 2
PROPERTY
  MainProceeds
CHECK_DEADLOCK FALSE
