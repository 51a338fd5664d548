\* The ftp gateway: two services, a throttle at 1 (2 buffers in memory), queues of 2.
\* Lengths 0, 1 and 4 with records of 2 bytes: an empty, a malformed and a two-record file.
SPECIFICATION FairSpec
CONSTANTS
  Services = {archiver, rabbit}
  Discovery = discovery
  Archiver = archiver
  Variant = "ftp"
  MaxOutstanding = 1
  QueueLen = 2
  RecLen = 2
  ByteLens = {0, 1, 4}
  MaxBuffers = 4
INVARIANTS
  TypeOK
  RefCountExact
  InMemExact
  QueueInOrder
  MemoryBounded
  NoOfferRefused
PROPERTIES
  ImplementsFanOut
  EveryBufferHandled
  ThrottleReopens
