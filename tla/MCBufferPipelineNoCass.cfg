\* The ftp gateway started without a usable Cassandra (or with one: Init allows both).
SPECIFICATION FairSpec
CONSTANTS
  Services = {archiver, rabbit}
  Discovery = discovery
  Archiver = archiver
  Variant = "ftp"
  MaxOutstanding = 1
  QueueLen = 2
  RecLen = 2
  ByteLens = {2, 4}
  MaxBuffers = 3
PROPERTY
  ProceedsAnyway
