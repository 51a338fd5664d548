# A TLA+ model of the uPMU gateway

The repository (SPARCS) holds the software that moves measurements of a micro phasor
measurement unit (uPMU) into a Cassandra database and to a RabbitMQ broker:

* `ftp/`: the gateway that fetches hourly directories of files from the uPMU by ftp;
* `C37/`: a second gateway, derived from the first, that receives C37.118 events over TCP;
* `readCassandrafast/`: a server and a client that read the data back;
* `configurationfile/`: the tables and settings of the gateway's local PostgreSQL database.

This directory models the gateways (their data plane, the C37 reformatter and its TCP
channel, the start of the gateway around its one database connection, the directory scan of
the ftp gateway with failures, crashes and restarts, and the voltage analytics) and the
reading back of archived data.

## Inventory

| part | state | operations | interacts with | hard behaviour |
|---|---|---|---|---|
| shared buffers (`serviceDataBuffer`, `dataBufferOffer`, `dataQueue`) | reference counts, in-memory counter, one bounded queue per service | create, offer, accept or refuse, take, process a record, release | discovery and every service thread | releases in any order, a test before a lock, a throttle that depends on the slowest service |
| data services (archiver, RabbitMQ) | buffer in progress, next record | service loop, start, stop | queues, database, Cassandra, broker | a record that does not advance; an exception ends the thread |
| C37 reformatter (`C37_Reformat`) | sync state, counters, saved events | one per event | channel, shared buffers | lost events at every place |
| C37 channel (`C37_DataChannel`, `C37_Buffer`) | a fixed byte buffer and its state | connect, read, examine, remove | network, reformatter | any cut of the stream, reconnection, messages that do not fit |
| C37 configuration (`C37_CfgDescriptor`) | parsed descriptor | parse | channel | none: nobody reads the result |
| start and database lock (`main`, `dbConnection`, operations logger) | one mutex, one connection, the stage of each thread | acquire, release, start services | every thread | returns and exceptions under the mutex; start by sleeping |
| ftp discovery (`serviceDataDiscovery`, `upmuFtpAccess`) | directory, file lists, two database tables | start, list, pick, fetch, release, close, probe | uPMU, database, shared buffers | crashes between database and transfer, outdated listings, timeouts |
| calendar and names (`upmuFtpAccess`) | none | next hour, is it the present one, names | discovery | "present" is an equality, which a scan can jump over |
| command queue | bounded queue | enqueue, dequeue | services | size test outside the lock; nobody enqueues |
| voltage analytics (`upmuanalyticsASU`) | counts of the running event, list of events, one held back | one window a second | RabbitMQ service | an event cut by windows: withdrawn, found anew, reported late |
| statistics | maps of counters | increments | all | `*cnt++` moves the pointer and not the counter |
| cassspeed server | one thread per connection, the global `numsamples` | accept, receive, query, compress, answer | Cassandra, clients | a global written by all threads, descriptors that are never closed, int arithmetic, undefined `erase` |
| cassspeed client | position in its range | one request per chunk | server | the next chunk starts where the server says the last one ended |
| vendored and generated code | | | | not modelled |

What makes each modelled part correct is stated as properties below; `PROJECT.json` lists
the hazards, each at its line, with the properties that would catch it.

## Modules

| module | models | checked by |
|---|---|---|
| `FanOut` | abstract: every service handles every record of every shared buffer once and in order | implemented by `BufferPipeline` |
| `BufferPipeline` | the data plane of both gateways (`Variant` "ftp" or "c37") | `MCBufferPipeline` |
| `BufferPipelineProofs`, `FanOutProofs` | its theorems, and that the ftp plane implements `FanOut` | TLAPS |
| `C37Reformat` | `C37_Reformat::processC37event` and what it calls | `MCC37Reformat`, proved in `C37ReformatProofs` |
| `C37Channel` | `C37_DataChannel` and `C37_Buffer` | `MCC37Channel`, proved in `C37ChannelProofs` |
| `GatewayStartup` | `main`, the `initService` of each service and the mutex of `dbConnection` | `MCGatewayStartup`, proved in `GatewayStartupProofs` |
| `DirectoryScan` | `getCurrentDirectory`, `getCurrentDataFileSet`, `processUPMUdata` of ftp discovery | `MCDirectoryScan`, proved in `DirectoryScanProofs` |
| `VoltageLimit` | `VoltageLimitMain`, `printReports` and their use in `processData` | `MCVoltageLimit`, proved in `VoltageLimitProofs` |
| `CassSpeed` | the server's threads and the client's chunks | `MCCassSpeed`, proved in `CassSpeedProofs` |

Definitions named "Mutant of ..." are deliberate errors of the definition that follows
them. Each property is checked to fail when its mutant takes the definition's place.

### BufferPipeline

Discovery creates a buffer (`NewBuffer`, guarded by the throttle `FlowOpen`), offers it to
each service in two steps (`OfferRoom` reads the queue length without its mutex,
`OfferPush` pushes under it; `OfferRefused` is the other answer) and drops its own
reference (`DropOwnRef`). A service thread runs `TakeBuffer`, then `Abandon` or
`BeginBuffer`, then `ProcessRecord` until `CompleteBuffer`. `useCount` is the count of the
`shared_ptr`, `inMem` the atomic counter `sharedInMemDataBufferCnt`, which the last
`DropRef` (the destructor) decrements. The services run with or without Cassandra
(`cassUp`, settled before they start). Without it the ftp archiver rejects buffers, the C37
archiver passes over records and the RabbitMQ service of both stays on its record
(`RepeatRecord`).

The contents of a record and the calls to Cassandra and RabbitMQ are left out: the code
counts their failures and goes on. Stopping a service and the end of a service thread by an
exception are left out too.

### C37Reformat and C37Channel

An event is the second it belongs to and its place in it. The uPMU sends events in order
(`Sent`, external), and each one is processed or lost (`Lose`, which includes events of
unusual length, which the code ignores). The condition `sec = presentSec + 1` of the
source (`C37_Reformat.cpp:101`) is an assignment; `SyncDone` models it as such. The comment of
the branch after it, "if sec has progressed too far, we missed a bunch of samples in the
syncSec.  Abort and retry.", describes code that cannot run.

The channel reads until its buffer is full or the connection ends (`ReadFull`,
`ReadRest`), because `async_read` is called without a completion condition. It then examines
the buffer in a loop (`ExamineUnknown`, `ExaminePartial`, `ExamineComplete`). A read that
brings no byte initialises the buffer and reconnects.

### GatewayStartup

Each thread goes through stages; `Enter` and `Leave` are `acquireDBaccess` and
`releaseDBaccess` around a transaction. The exits that skip the release are actions of
their own: `CassandraInitLeaks`, `RabbitConfigMissing`, `RabbitConfigThrows` and `ScanThrows`.
Discovery at work uses the connection without the mutex (`BeginWork`, `EndWork`).

### DirectoryScan

A directory is the number of its hour and a file its number within the hour. The two
tables survive a `Crash`, everything else is lost. `faults` counts failures of ftp calls
and of database statements, up to a bound. Four variables are history: `lookedAt` and
`outdated` say which directories were left on the word of a listing or a probe from before
the end of their hour, `harmed` which directory was in hand when something failed, and
`lost` which files a crash took from memory. `memory` stands for the data plane: a posted
file stays in it until the other services are done (`Archived`), and the throttle of `Pick`
(`ThrottleOpen`) counts it. After a failed transfer the code posts whatever the pointer holds,
with an error code for its length: a buffer without a file, which `stray` counts and which the
throttle counts too. What a service makes of it is not modelled; when reading it ends the
process, that is a `Crash`. Only whether `dataFileComplete` lets a file through is left to chance
(`PickNone`).

A scan that has gone past the running hour (below, Observations) leaves directories that
have not begun yet. They count as `outdated` too: they are left on the word of a probe from
before the end of their hour.

One failure is not local: when `addCurrentDirectoryRecord` fails after its row is in the
table, the row stays "current" for good, and a restart that finds two current rows may
close the wrong directory. `FailsFor(Dirs)` says so, and no directory counts as unharmed
then.

### VoltageLimit

A sample is its class: within the limits, a sag, an interruption or a swell. A window is
analysed in steps. `Start` is the beginning of `VoltageLimitMain`; each step that follows is
one round of its loops: `WithinLimits` passes a sample over, `Count` counts one whose event
goes on, `Close` ends an event with its run or with the window, and `Sustain` ends one that
has become too long. The three copies of the loop, one for each class of event, are one here.
`Finish` is what comes after the loop, with `printReports` (`Ended`, `Due`) and what
`processData` does with the reports; `HeldBack` is its choice. One thread does all this and
nothing else touches the state, so that the steps could as well be one.
An event that reaches the end of its window is entered into the list and held back; if the
next window goes on with it, it is withdrawn and entered again with its new length. The
stream analysed so far is kept, so that the reports can be compared with the events of the
whole stream, defined without windows (`EventsOf`). Both gateways have the same copy of
this code; `map` names the one of `ftp/`.

### CassSpeed

A client asks for a chunk (`Ask`), the server accepts the connection and one thread of it
goes through `Receive`, then `Query`, `Compress` and `Describe` for each device, and `Send`.
The client goes on from the end the answer carries (`Read`). A sample is its number, and an
answer the samples its values stand for. `numsamples` is global: `Compress` writes it,
`Describe` reads it, and another thread may come in between. `Wrap` is the width of `int`
in the product that gives the end of a chunk. Erasing more samples than there are
(`EraseBeyond`) is undefined: the process dies or the thread ends with an error. An
uninitialised time stamp takes any value of `Garbage`. A client is `Sound` when its range
is not empty and archived in full, when it does not ask for raw data with a step or together
with "Skip", and when no other thread, overflow or failed query has spoilt an answer; the
others do lose samples or may end the server, and the run has a request of each kind. The source of the server as it is
in the repository lacks a semicolon after `hosts` (`main.cpp:440`) and does not compile;
the model takes it as if it had one.

## Runs

| run | result | instance | distinct states |
|---|---|---|---|
| `pipeline_ftp` | pass | 2 services, 4 buffers of 0, 1 or 4 bytes, records of 2, throttle 1, queues of 2 | 47 000 |
| `pipeline_c37` | pass | 2 services, 6 buffers, queues of 1 | 2 200 000 |
| `pipeline_no_cassandra` | violation | 3 buffers | |
| `c37_reformat` | pass | 4 events a second, sanity check modulo 2, 4 seconds | 22 000 |
| `c37_partial` | violation | the same | |
| `c37_channel` | pass | buffer of 5 bytes, header of 2, messages of 2, 3 and 6 (too large), 4 messages | 3 200 |
| `startup` | pass | main, discovery, archiver, RabbitMQ; 3 records each | 850 |
| `startup_leak` | violation | the same | |
| `scan` | pass | hours 0 to 2, 2 files an hour, one file in memory, 1 failure, 1 crash | 696 000 |
| `scan_stale` | violation | no failure, no crash | |
| `voltage_limit` | pass | 3 windows of 3 samples, sustained after 4, sags from 2 samples on | 1 330 000 |
| `cassspeed` | pass | 2 clients with any of 9 requests, 2 devices, 4 samples a second, 3 descriptors, 1 failure | 316 000 |

What they show:

* **`pipeline_ftp`**: the reference counts and the counter are exact (`RefCountExact`,
  `InMemExact`). At most `MAX_OUTSTANDING_MEM_BUF + 1` buffers are in memory
  (`MemoryBounded`), so no offer is ever refused (`NoOfferRefused`), which is why discovery
  may ignore the answer and mark the file as released. Queues keep the order
  (`QueueInOrder`). The plane implements `FanOut` (`ImplementsFanOut`): every
  service gets every buffer once and in order, each with the records the specification gives
  it. The number of records of a buffer is the same operator in both, so that the refinement
  says nothing of a wrong count; `BufferPipeline` models that count after the code. With Cassandra
  usable, every buffer is finished with by every service (`EveryBufferHandled`) and the
  throttle reopens (`ThrottleReopens`).
* **`pipeline_c37`**: without a throttle the queues alone bound memory
  (`QueuesBoundMemory`), and the counter is exact on the out-of-memory path too. The bound
  on memory is 5 in this instance and 6 buffers are shared, so exceeding it would show.
* **`pipeline_no_cassandra`** (finding): the gateway says it proceeds without Cassandra; the
  RabbitMQ service then stays on one record and the throttle closes for good.
* **`c37_reformat`**: whatever is lost, no event is posted twice or out of order
  (`EventsOnceInOrder`). If the first event of every second arrives, a buffer holds one
  second and missing events are counted (`SecondStartsSuffice`). Events pile up by at most a
  second for every lost start of a second, in the synchronisation second and among the saved
  events, and fit into their buffer when no start is lost (`EventsFit`): the array of 512
  entries lasts for three lost starts in a row, and nothing in the code stops a fourth.
  Without losses every buffer is a whole second (`CleanStreamComplete`).
* **`c37_partial`** (finding): a second with losses has the length of a full one.
* **`c37_channel`**: framing never slips (`Framed`), messages are handed over once and in
  order (`InOrder`), and a full buffer does not stop the channel (`NeverWedged`).
* **`startup`**: until discovery works, transactions do not overlap (`MutexProtects`). A
  locked mutex is in use or was leaked by one of the four exits (`HeldOrLeaked`). Only a
  leak or an exit of the process keeps the gateway from coming up (`StartsUnlessLeaked`).
* **`startup_leak`** (finding): main waits for itself after a failed `cassandraInit`.
* **`scan`**: with a failure and a crash anywhere, every file behind the scan has been posted
  unless its directory was left on outdated word or was itself in hand at a failure
  (`NothingLeftBehind`); the tables are true in the same sense (`RowsTellTheTruth`), at most
  one directory is current (`OneCurrent`), and no file is posted twice between two starts
  (`PostedOnce`). A crash loses no more files than the throttle lets into memory
  (`CrashLosesFew`). Both of the first two exempt the directory in hand at a failure, so that of
  failures they show that the damage stays within that directory, not that there is none.
  Again and again everything is posted, unless the thread has given up at a
  start or an ftp error has sent the scan past the present hour (`EventuallyCaughtUp`).
* **`scan_stale`** (finding): that outdated word does lose files without any failure: the
  list is fetched before the hour ends and used up after it, and the directory is closed.
* **`voltage_limit`**: for every stream and every cut of it into windows, what has been
  reported is exactly the events of the stream that have ended, each once, in order and
  with its whole extent (`ReportsExact`), and what has been reported is not withdrawn
  (`NothingWithdrawn`).
* **`cassspeed`**: a client that asks for archived data and whose answers are not spoilt by
  the global count, an overflow or a failed query never goes past a sample it did not get
  (`NothingSkipped`) and advances with every chunk (`ChunksAdvance`); the server does not die of
  such requests (`ServerSurvives`). Every request is answered unless the server has died or has
  used up its descriptors (`EveryRequestAnswered`). The exceptions are not
  hypothetical: each occurs in the run, and the property fails when its exception is dropped.
  Without the exception for a gap in the archive or for a range that ends before it begins,
  `ServerSurvives` fails; without the one for an overflow the client is sent back and
  `ChunksAdvance` fails; without any of the others in `Sound`, `NothingSkipped` does.
  `ChunksAdvance` also fails without `Yields`: when "Skip" has a step as long as a chunk it
  returns no value, the answer ends where it began, and the client asks for the same chunk
  for ever.

Why the bounds are enough. The pipeline's interesting cases need a full throttle, a
service that is ahead of another and a queue at its limit, and all of them occur. The
reformatter needs a lost start of a second before, in and after a synchronisation; four
seconds hold a synchronisation, a filled second and what follows. The channel's messages
are shorter than, as long as and longer than what a read leaves free. The scan needs a past,
a running and a following hour, and two files in an hour of which one comes after the listing.
Three windows let an event begin in one, fill the next and end in a third; it is sustained
in the second or in the third. The requests of `cassspeed` are chosen one for each hazard: a
start within a second with two devices and several chunks, a step that does not divide a
second in a range over two days, a chunk that is too long for an int, a range within one second, raw
data with a step, raw data with "Skip", a range that ends before it begins, "Skip" with a step as
long as a chunk, and no device; archives are complete or lack the second in the middle. A bound hid one thing: with three
hours the scan cannot leave a directory that has not begun and then see it fill up. The
attempt to prove `NothingLeftBehind` for every number of hours showed it, and one file an hour
over four hours confirms that the corrected property holds there as well. Every action of every module fires in a passing run.

Deadlock is not checked where the system may stop: at the end of the bounded stream
(`c37_reformat`, `voltage_limit`), after a leaked mutex (`startup`), at the last hour (`scan`)
and when the clients have ended (`cassspeed`).

## Fairness

* `BufferPipeline`: weak fairness of each service thread, which is an operating system
  thread with an endless loop, and of the steps of an offer once begun. None for
  `NewBuffer`: nothing makes the uPMU produce a file.
* `C37Channel`: the `io_service` runs handlers that are due. Nothing is assumed of the uPMU.
* `GatewayStartup`: every thread is scheduled and the uPMU answers some day. The mutex need
  not be fair, since each thread asks for it a bounded number of times. A fault is never
  forced: no leak or exit has fairness.
* `DirectoryScan`: the thread loops for ever and a crashed gateway is started again
  (`WF(Thread)`); the other services free every buffer (`WF(Archived)`), which `pipeline_ftp`
  shows when Cassandra is usable; a file that is asked for again and again is complete or old
  enough in the end (`SF(Pick)`). Nothing is assumed of the uPMU, and no failure is forced.
* `CassSpeed`: clients and threads are scheduled and Cassandra answers or fails, which its
  driver's timeout ensures. `accept` takes connections in the order of their arrival, so one
  that can be accepted again and again is (`SF(Accept)`): descriptors of other threads come
  and go meanwhile.
* `C37Reformat` and `VoltageLimit` are checked for safety only.

## Proofs

Eight modules hold theorems. Each proves `Spec => []Inv` for an inductive invariant `Inv` and
derives from it the invariants that the runs check, for every value of the constants that
satisfies the assumption of the component's module. TLC has checked each `Inv` first.

| module | inductive invariant | theorems, and the property each states |
|---|---|---|
| `BufferPipelineProofs` | `PipelineInv`, `QueuesFit` | `TypeCorrect`, `ReferencesExact` (`RefCountExact`), `CounterExact` (`InMemExact`), `ThrottleBoundsMemory` (`MemoryBounded`), `OffersAreAccepted` (`NoOfferRefused`), `QueuesKeepOrder` (`QueueInOrder`), `QueuesLimitMemory` (`QueuesBoundMemory`) |
| `FanOutProofs` | `RefineInv` | `FtpImplementsFanOut` (`ImplementsFanOut`) |
| `GatewayStartupProofs` | `StartupInv` | `StartupTypeCorrect`, `MutexKeepsApart` (`MutexProtects`), `LeaksAreKnown` (`HeldOrLeaked`) |
| `C37ChannelProofs` | `ChannelInv` | `ChannelTypeCorrect`, `FramingHolds` (`Framed`), `DeliveredInOrder` (`InOrder`) |
| `C37ReformatProofs` | `ReformatInv` | `ReformatTypeCorrect`, `NoEventTwice` (`EventsOnceInOrder`), `OneSecondPerBuffer` (`SecondStartsSuffice`), `SavedEventsBounded` (`EventsFit`), `CleanStreamWhole` (`CleanStreamComplete`) |
| `DirectoryScanProofs` | `ScanInv` | `ScanTypeCorrect`, `NoFileLeftBehind` (`NothingLeftBehind`), `TablesTellTheTruth` (`RowsTellTheTruth`), `AtMostOneCurrent` (`OneCurrent`), `NoFilePostedTwice` (`PostedOnce`), `CrashesCostFewFiles` (`CrashLosesFew`) |
| `CassSpeedProofs` | `CassInv` | `CassTypeCorrect`, `NoSampleSkipped` (`NothingSkipped`), `ServerStaysUp` (`ServerSurvives`), `ClientsAdvance` (`ChunksAdvance`) |
| `VoltageLimitProofs` | `LimitInv` | `LimitTypeCorrect`, `ReportsAreExact` (`ReportsExact`), `NoReportWithdrawn` (`NothingWithdrawn`) |

Why the strengthenings are needed, and how the arguments go:

* **`BufferPipeline`**. `PipelineInv` adds `OfferShape` (the offer loop runs exactly while
  discovery holds the newest buffer, and a thread processes only what it holds),
  `QueueInOrder` and `Throttled`. A count of holders goes up by one on a push only if the
  buffer is not already in that queue or in progress there; `QueueInOrder` gives that, since
  a buffer still to be offered is later than all of them. No offer is refused because a
  strictly increasing queue has as many distinct buffers as places, none of them the one
  being offered: with the counter exact and throttled it is shorter than
  `MaxOutstanding + 1`, at most `QueueLen` by the assumption `MaxOutstanding < QueueLen`
  (5 < 16 in the code). `QueuesFit` bounds each queue by its length, from which the bound on
  memory without a throttle follows.
* **Refinement of `FanOut`**, for `Variant = "ftp"`. `NoGap` says that between what a service
  has in hand or queued and the newest buffer nothing is missing, `RecordsKnown` that the
  number of records in hand is the one of the buffer. Then a service's position in the
  abstract stream follows from the number of buffers it holds, and every step is a step of
  `FanOut` or leaves it unchanged. It is stated of the ftp gateway only: a service of the C37
  gateway may refuse an offer and then does not see that buffer.
* **`GatewayStartup`**. The mutex, who holds it, who has leaked it and the stage of each
  thread are related; a thread in a transaction holds the mutex, or discovery works.
* **`C37Channel`**. A stream of bytes is whole messages one after the other, the first
  perhaps begun. The usual definition is an induction over the stream. `WholeMessages` says
  the same of every byte and its neighbour, so that cutting, joining and taking off a message
  need no induction.
* **`C37Reformat`**. `OrderInv` (what is posted and what is saved is in order and older than
  the next event), `StepInv` (what each state of the synchronisation implies for the
  counters), `StartsInv`, `SizeInv` and `CleanInv` support one property each.
* **`DirectoryScan`**. `BehindInv` says of every directory behind the scan, or behind a row of
  the table, that it is settled: posted in full, `harmed` or `outdated`. After a crash the
  scan begins at a row, so the rows must carry it over. `ListInv` relates the list of files
  to the moment it was fetched, `FetchInv` and `ProcessedInv` the file in hand and the rows to
  what has been posted, `StateInv` the state of the directory in hand to the place of the
  thread. Failures are in the invariant as exemptions of the directory in hand only, which is
  what `NothingLeftBehind` says of them.
* **`CassSpeed`**. What a thread computes for a sound client is determined by the request and
  the beginning of the chunk: `WorkInv` and `AnswerInv` give start, samples, number of values
  and end of the answer in closed form (`Starts`, `Base`, `Top`, `Count`, `Stops`). `Starts`
  and `Stops` are sets, since the time of skipped samples may be rounded either way (`SkipTimes`):
  `8.33333 * k` is a little short of a whole number of milliseconds, and the double it is added to
  may or may not keep the difference. The theorems hold for every choice (`SkipShort`). The
  lemmas about chunks are arithmetic: the rows of a query are the seconds from the one it
  begins in to the last (`ChunkRows`), fewer samples are skipped than there are (`ChunkQuery`,
  hence `ServerSurvives`), every method covers the samples that the end is computed from
  (`ChunkCovered`), and the rounded end does not reach past them (`ChunkStops`,
  `ChunkReaches`). `RangeInv` keeps a client from falling behind its range. Attempting the
  proof showed two kinds of request that lose samples or may end the server and that the
  first instance did not have: "Skip" with raw data, and a range that ends before it begins.
  `CassSpeedAssumption` asks for a sample to take a millisecond at least (`Rate <= Sec`;
  120 and 1000 in the code): the tolerance of `Finished` would be 0 otherwise.
  `ClientsAdvance` is about the rounding. The time at which an answer starts is up to a sample
  before the first sample, and that one up to a sample before the beginning asked for
  (`ChunkOpens`, `ChunkStart`). So a chunk with values for two samples ends after its beginning, and every
  chunk that is not the last of the range has them (`ChunkFull`); for the last one, what is
  left is within the tolerance of `Finished` (`ChunkAdvances`). `Filled` is in `WorkInv` and
  `AnswerInv` for this: an answer without samples for a step is an error code. It needs
  `PaceAssumption` (at least three samples a second, at most one in two milliseconds, and a
  longest chunk of a second or more; 120 samples and 12 days in the code) and exempts "Skip" with a step as
  long as a chunk (`Yields`), which the attempt at the proof brought up.
* **`VoltageLimit`**. The loop over the samples is a step for each round, so the invariant
  takes the place of an induction over the samples. It speaks of the stream with the window in
  hand (`all`) and of the place reached in it (`at`). `CountInv` and `FreshInv` say that a
  running count is the extent of the event at the place, and that one begins there when the
  count of a class that goes on is zero. `EndInv`, `LastInv`, `PlaceInv` and `HeldInv` carry
  this from one window to the next: what is remembered is the event with which the last
  window ended, and if it was held back it is the last one in the list as long as it goes on.
  `ListInv` is the heart: the part of the list behind what has been reported is exactly the
  events found up to the place, in order (`Listed`). Three kinds of lemma support it. What is
  known of a stream does not change when more samples follow. The beginnings within a run are
  `Over` samples apart, so a sample has only one that is near enough and an event cannot be
  found twice. The last step of a window finds the events that end there unless one is held
  back. `VoltageLimitAssumption` asks that a sag too short to be labelled is also too short to
  be sustained (`MaxWdwSag < Over`; 3 and 7200 in the code).

Only model-checked: the liveness properties (`EveryBufferHandled`, `ThrottleReopens`,
`NeverWedged`, `StartsUnlessLeaked`, `EventuallyCaughtUp`, `EveryRequestAnswered`), which the
prover cannot express, and the findings, which are single traces. Every safety property of a
passing run is stated by a theorem.

## Observations that have no run

The first six are steps of `DirectoryScan`; its properties bound what they cost.

* A probe that times out sleeps for 45 minutes, and the next call increments the directory
  first: an hour can be passed over unseen (`serviceDataDiscovery.cpp:598-614`), although the
  comment says "wait here until something shows up in uPMU".
* A restart while the uPMU does not answer leaves `dataDirValid` false; the first call then
  marks the current directory as processed (395, 582).
* A restart right after a directory was closed and within the hour that follows ends the
  discovery thread (385-391).
* `verifyDataDirPresent` takes every ftp error but a timeout for an absent directory, which
  is then abandoned (`upmuFtpAccess.cpp:97-102`). When it happens during the start at the
  present hour, the scan goes past it; "present" is an equality, so it then runs through the
  future without waiting.
* A row added without its id becoming known makes two current directories.
* `getDataFile` returns an error code that is used as the length of the file
  (`upmuFtpAccess.cpp:340`, `serviceDataDiscovery.cpp:538`), with a pointer that nobody set. The
  buffer is posted, and the file marked as released; `Fetch` counts it in `stray`.
* A file is released in the table when it has been offered, while it is still in memory.
* `removeMsgFromBuffer` reads one byte past the valid bytes (`C37_Buffer.cpp:109`).
* Discovery at work uses the database connection without the mutex, while a service that
  starts slowly may still be in a transaction (`serviceDataDiscovery.cpp:528`); the start of
  the services is ordered by sleeping only.
* Analytics: the times of an annotation divide by a difference that can be zero, sample
  numbers since the start overflow an `int` after about 207 days, and the lists of
  events are never trimmed. The heartbeat block of the RabbitMQ service compares with an hour
  that has just been set and never runs.
* cassspeed: the client accepts a range that ends before it begins, and "Skip" together with
  raw data, for which it loses a sample of "Skip" with every chunk; "Skip" with a step as long as a
  chunk, which takes a step of some 12 days, never ends; it is told to reject raw data with a step ("If raw is requested the
  stepsize must be 1") but tests the wrong bit; an answer for some of the devices cannot be
  told from a complete one; the product that gives the end of a chunk overflows for one to
  three quantities and a chunk of 32 MB; the socket of an answered request is never closed
  (`main.cpp:1028`). The order of rows is the one of the Cassandra schema and of the list of
  days in the query.

## Not modelled, and the plan

The repository has some 67 000 lines of code, but about 45 000 of them are vendored JSON
libraries and generated protocol buffer code, and a good part of the rest is there twice:
`C37/` began as a copy of `ftp/`. The share of the lines that the models stand for is
therefore small, although they hold most of the logic of the gateways and of the server.

In this order:

1. Compositions: `C37Channel` with `C37Reformat`.
2. The life of a service: stop requests and exceptions that end a thread with its queue full.
3. `GmTime`, the calendar behind the names of directories (most of it is in the C library).

Not planned: statistics, loggers and settings (no behaviour of their own), the
configuration parser (nobody reads its result), the command queue (nobody enqueues, so it
is always empty), the writing of JSON and CSV files by the client, and vendored and
generated code.
