--------------------------- MODULE BufferPipeline ---------------------------
(***************************************************************************)
(* The data plane of the uPMU gateway: how a data buffer travels from the  *)
(* discovery service to the services that accept data.                     *)
(*                                                                         *)
(* Discovery wraps a downloaded file (or one second of C37.118 events) in  *)
(* a serviceDataBuffer behind a shared pointer, offers it to every service *)
(* with serviceAcceptsData and drops its own reference.  A service keeps   *)
(* accepted buffers in its dataQueue; its own thread takes one at a time,  *)
(* checks it and works through its records.  The constructor and the       *)
(* destructor of serviceDataBuffer keep sharedInMemDataBufferCnt, which    *)
(* the ftp discovery service reads to throttle itself.                     *)
(*                                                                         *)
(* The repository holds two gateways with this plane: the ftp one and the  *)
(* C37.118 one.  They differ in flow control, in what counts as a well     *)
(* formed buffer and in what an archiver does without Cassandra; Variant   *)
(* selects between them.                                                   *)
(***************************************************************************)
EXTENDS Integers, Sequences, FiniteSets

CONSTANTS
  Services,        \* the services whose serviceAcceptsData is set
  Discovery,       \* the thread that shares buffers; not one of Services
  Archiver,        \* serviceDataArchiver, which writes to Cassandra
  Variant,         \* "ftp" or "c37": which of the two gateways
  MaxOutstanding,  \* MAX_OUTSTANDING_MEM_BUF
  QueueLen,        \* DATA_QUEUE_LEN
  RecLen,          \* bytes of one record
  ByteLens,        \* the lengths a shared buffer may have
  MaxBuffers       \* bound: how many buffers one behaviour shares

\* The code has MAX_OUTSTANDING_MEM_BUF = 5 and DATA_QUEUE_LEN = 16.
ASSUME PipelineAssumption ==
  /\ IsFiniteSet(Services)
  /\ Discovery \notin Services
  /\ Archiver \in Services
  /\ Variant \in {"ftp", "c37"}
  /\ MaxOutstanding \in Nat
  /\ QueueLen \in Nat
  /\ MaxOutstanding < QueueLen
  /\ RecLen \in Nat \ {0}
  /\ ByteLens \subseteq Nat
  /\ MaxBuffers \in Nat

VARIABLES
  cassUp,      \* cassArchivingEnabled && cassConnected, settled before the services start
  inMem,       \* sharedInMemDataBufferCnt
  total,       \* sharedTotalDataBufferCnt; buffers are numbered in the order they are shared
  byteLen,     \* byteLen[b]: serviceDataBuffer::byteLen
  useCount,    \* useCount[b]: the reference count of the shared_ptr to buffer b
  held,        \* the buffer behind discovery's own ptr, or NoBuf
  toOffer,     \* the services the offer loop has not finished with yet
  room,        \* {s} once dataBufferOffer of s has found its queue not full, before it pushes
  queue,       \* queue[s]: dataQueue of service s
  cur,         \* cur[s]: dataBuf of the thread of service s, or NoBuf
  processing,  \* processing[s]: processingBuffer
  numRecords,  \* numRecords[s]: bpr.numRecords
  nextRecord   \* nextRecord[s]: bpr.nextRecord

vars == <<cassUp, inMem, total, byteLen, useCount, held, toOffer, room,
          queue, cur, processing, numRecords, nextRecord>>

discoveryVars == <<total, byteLen, held, toOffer, room>>
recordVars    == <<processing, numRecords, nextRecord>>

NoBuf  == 0
Buf    == 1..MaxBuffers
Owners == Services \cup {Discovery}

\* The services are iterated in the order of their configured names; the model allows
\* any order, since the names are data of the installation.
Init == /\ cassUp \in BOOLEAN
        /\ inMem = 0
        /\ total = 0
        /\ byteLen = [b \in Buf |-> 0]
        /\ useCount = [b \in Buf |-> 0]
        /\ held = NoBuf
        /\ toOffer = {}
        /\ room = {}
        /\ queue = [s \in Services |-> <<>>]
        /\ cur = [s \in Services |-> NoBuf]
        /\ processing = [s \in Services |-> FALSE]
        /\ numRecords = [s \in Services |-> 0]
        /\ nextRecord = [s \in Services |-> 0]

-----------------------------------------------------------------------------
\* Reference counting

\* Mutant of DropRef: every reset runs the destructor, as if ptr were not shared.
DropRefAlwaysFrees(b) == /\ useCount' = [useCount EXCEPT ![b] = @ - 1]
                         /\ inMem' = inMem - 1

\* Mutant of DropRef: the destructor forgets to decrement the counter.
DropRefNeverCounts(b) == /\ useCount' = [useCount EXCEPT ![b] = @ - 1]
                         /\ inMem' = inMem

\* One owner resets its shared_ptr; the last one runs ~serviceDataBuffer.  Both counters
\* are atomic in the code; between the two decrements the thread does nothing that others see.
DropRef(b) == /\ useCount' = [useCount EXCEPT ![b] = @ - 1]
              /\ inMem' = IF useCount[b] = 1 THEN inMem - 1 ELSE inMem

-----------------------------------------------------------------------------
\* The discovery thread

\* Mutant of FlowOpen: discovery does not look at the counter.
FlowAlwaysOpen == TRUE

\* Only the ftp discovery service throttles itself on the buffers in memory.
FlowOpen == Variant = "ftp" => inMem <= MaxOutstanding

\* A file (or a second of events) becomes a shared buffer.
NewBuffer == /\ held = NoBuf
             /\ total < MaxBuffers
             /\ FlowOpen
             /\ total' = total + 1
             /\ \E len \in ByteLens : byteLen' = [byteLen EXCEPT ![total + 1] = len]
             /\ useCount' = [useCount EXCEPT ![total + 1] = 1]
             /\ inMem' = inMem + 1
             /\ held' = total + 1
             /\ toOffer' = Services
             /\ UNCHANGED <<cassUp, room, queue, cur>> /\ UNCHANGED recordVars

\* Mutant of OfferRoom: the switch on the free places has no case 0.
OfferRoomUnchecked(s) ==
  /\ s \in toOffer
  /\ room = {}
  /\ room' = {s}
  /\ UNCHANGED <<cassUp, inMem, total, byteLen, useCount, held, toOffer, queue, cur>>
  /\ UNCHANGED recordVars

\* dataBufferOffer reads the queue length without the queue's mutex ...
OfferRoom(s) == /\ s \in toOffer
                /\ room = {}
                /\ Len(queue[s]) # QueueLen
                /\ room' = {s}
                /\ UNCHANGED <<cassUp, inMem, total, byteLen, useCount, held, toOffer, queue, cur>>
                /\ UNCHANGED recordVars

\* ... and refuses the buffer when it finds the queue full; discovery ignores the answer.
OfferRefused(s) == /\ s \in toOffer
                   /\ room = {}
                   /\ Len(queue[s]) = QueueLen
                   /\ toOffer' = toOffer \ {s}
                   /\ UNCHANGED <<cassUp, inMem, total, byteLen, useCount, held, room, queue, cur>>
                   /\ UNCHANGED recordVars

\* Mutant of OfferPush: the queue stores a raw pointer, no reference is added.
OfferPushRaw(s) == /\ s \in room
                   /\ queue' = [queue EXCEPT ![s] = Append(@, held)]
                   /\ room' = {}
                   /\ toOffer' = toOffer \ {s}
                   /\ UNCHANGED <<cassUp, inMem, total, byteLen, held, cur, useCount>>
                   /\ UNCHANGED recordVars

\* Mutant of OfferPush: the service queues the newest buffer in front.
OfferPushFront(s) == /\ s \in room
                     /\ queue' = [queue EXCEPT ![s] = <<held>> \o @]
                     /\ useCount' = [useCount EXCEPT ![held] = @ + 1]
                     /\ room' = {}
                     /\ toOffer' = toOffer \ {s}
                     /\ UNCHANGED <<cassUp, inMem, total, byteLen, held, cur>>
                     /\ UNCHANGED recordVars

\* Under the mutex the service copies the shared pointer into its queue.
OfferPush(s) == /\ s \in room
                /\ queue' = [queue EXCEPT ![s] = Append(@, held)]
                /\ useCount' = [useCount EXCEPT ![held] = @ + 1]
                /\ room' = {}
                /\ toOffer' = toOffer \ {s}
                /\ UNCHANGED <<cassUp, inMem, total, byteLen, held, cur>>
                /\ UNCHANGED recordVars

\* ptr.reset() once the buffer has been offered to every service.
DropOwnRef == /\ held # NoBuf
              /\ toOffer = {}
              /\ DropRef(held)
              /\ held' = NoBuf
              /\ UNCHANGED <<cassUp, total, byteLen, toOffer, room, queue, cur>>
              /\ UNCHANGED recordVars

Discover == \/ NewBuffer
            \/ \E s \in Services : OfferRoom(s) \/ OfferRefused(s) \/ OfferPush(s)
            \/ DropOwnRef

-----------------------------------------------------------------------------
\* The thread of a service

\* front() is copied into dataBuf and pop() destroys the copy in the queue.
TakeBuffer(s) == /\ cur[s] = NoBuf
                 /\ queue[s] # <<>>
                 /\ cur' = [cur EXCEPT ![s] = Head(queue[s])]
                 /\ queue' = [queue EXCEPT ![s] = Tail(@)]
                 /\ UNCHANGED <<cassUp, inMem, useCount>>
                 /\ UNCHANGED discoveryVars /\ UNCHANGED recordVars

\* preProcessData of the ftp gateway: -1 for a buffer it rejects, otherwise its records.
FtpRecords(s, len) ==
  IF len % RecLen # 0 \/ (s = Archiver /\ ~cassUp) THEN -1 ELSE len \div RecLen

\* preProcessData of the C37 gateway: exactly one full second, or the buffer is discarded.
C37Records(s, len) == IF len # RecLen THEN -1 ELSE 1

Records(s, len) == IF Variant = "ftp" THEN FtpRecords(s, len) ELSE C37Records(s, len)

\* preProcessData rejects the buffer: it is abandoned at once.
Abandon(s) == /\ cur[s] # NoBuf
              /\ ~processing[s]
              /\ Records(s, byteLen[cur[s]]) = -1
              /\ numRecords' = [numRecords EXCEPT ![s] = -1]
              /\ DropRef(cur[s])
              /\ cur' = [cur EXCEPT ![s] = NoBuf]
              /\ UNCHANGED <<cassUp, queue, processing, nextRecord>>
              /\ UNCHANGED discoveryVars

\* preProcessData accepts the buffer: processing starts on the next pass of the loop.
BeginBuffer(s) == /\ cur[s] # NoBuf
                  /\ ~processing[s]
                  /\ Records(s, byteLen[cur[s]]) # -1
                  /\ numRecords' = [numRecords EXCEPT ![s] = Records(s, byteLen[cur[s]])]
                  /\ nextRecord' = [nextRecord EXCEPT ![s] = 0]
                  /\ processing' = [processing EXCEPT ![s] = TRUE]
                  /\ UNCHANGED <<cassUp, inMem, useCount, queue, cur>>
                  /\ UNCHANGED discoveryVars

\* processData moves on from a record only when Cassandra is usable, in the RabbitMQ
\* service too; the archiver of the C37 gateway alone passes over it without Cassandra.
Advances(s) == cassUp \/ (Variant = "c37" /\ s = Archiver)

InRecord(s) == processing[s] /\ nextRecord[s] < numRecords[s]

\* Mutant of ProcessRecord: a record is skipped whenever another one follows it.
ProcessRecordByTwo(s) ==
  /\ InRecord(s)
  /\ Advances(s)
  /\ nextRecord' = [nextRecord EXCEPT ![s] =
                      IF @ + 2 <= numRecords[s] THEN @ + 2 ELSE @ + 1]
  /\ UNCHANGED <<cassUp, inMem, useCount, queue, cur, processing, numRecords>>
  /\ UNCHANGED discoveryVars

\* Mutant of ProcessRecord: nextRecord is not incremented (the record is sent again).
ProcessRecordStays(s) == /\ InRecord(s)
                         /\ UNCHANGED vars

\* processData handles one record.  A failed insert, publish or (ftp) allocation is only
\* counted: the record is passed over all the same.
ProcessRecord(s) == /\ InRecord(s)
                    /\ Advances(s)
                    /\ nextRecord' = [nextRecord EXCEPT ![s] = @ + 1]
                    /\ UNCHANGED <<cassUp, inMem, useCount, queue, cur, processing, numRecords>>
                    /\ UNCHANGED discoveryVars

\* processData without Cassandra: the record is published, nothing advances, and the next
\* pass of the loop publishes the same record again.
RepeatRecord(s) == /\ InRecord(s)
                   /\ ~Advances(s)
                   /\ UNCHANGED vars

\* The C37 archiver fails to allocate: it passes over the record and ends the buffer.
OutOfMemory(s) == /\ Variant = "c37" /\ s = Archiver /\ cassUp
                  /\ InRecord(s)
                  /\ nextRecord' = [nextRecord EXCEPT ![s] = @ + 1]
                  /\ DropRef(cur[s])
                  /\ cur' = [cur EXCEPT ![s] = NoBuf]
                  /\ processing' = [processing EXCEPT ![s] = FALSE]
                  /\ UNCHANGED <<cassUp, queue, numRecords>>
                  /\ UNCHANGED discoveryVars

\* Mutant of CompleteBuffer: dataBuf is overwritten later but its reference is leaked now.
CompleteBufferLeaks(s) == /\ processing[s]
                          /\ nextRecord[s] >= numRecords[s]
                          /\ cur' = [cur EXCEPT ![s] = NoBuf]
                          /\ processing' = [processing EXCEPT ![s] = FALSE]
                          /\ UNCHANGED <<cassUp, inMem, useCount, queue, numRecords, nextRecord>>
                          /\ UNCHANGED discoveryVars

\* processData reports the buffer complete: the thread releases it.
CompleteBuffer(s) == /\ processing[s]
                     /\ nextRecord[s] >= numRecords[s]
                     /\ DropRef(cur[s])
                     /\ cur' = [cur EXCEPT ![s] = NoBuf]
                     /\ processing' = [processing EXCEPT ![s] = FALSE]
                     /\ UNCHANGED <<cassUp, queue, numRecords, nextRecord>>
                     /\ UNCHANGED discoveryVars

\* Nothing queued and nothing in progress: the thread sleeps and looks again.
SleepIdle(s) == /\ cur[s] = NoBuf
                /\ queue[s] = <<>>
                /\ UNCHANGED vars

Serve(s) == \/ TakeBuffer(s)
            \/ Abandon(s)
            \/ BeginBuffer(s)
            \/ ProcessRecord(s)
            \/ RepeatRecord(s)
            \/ OutOfMemory(s)
            \/ CompleteBuffer(s)
            \/ SleepIdle(s)

Next == Discover \/ \E s \in Services : Serve(s)

Spec == Init /\ [][Next]_vars

\* Each service has its own operating system thread, and discovery finishes an offer it
\* has begun.  Nothing makes the uPMU produce another file.
Fairness == /\ \A s \in Services : WF_vars(Serve(s))
            /\ \A s \in Services : WF_vars(OfferRoom(s) \/ OfferRefused(s) \/ OfferPush(s))
            /\ WF_vars(DropOwnRef)

FairSpec == Spec /\ Fairness

-----------------------------------------------------------------------------
\* Properties

\* Every variable keeps its type; in particular neither the in-memory counter nor a
\* reference count ever drops below zero (serviceDataBuffer.h: an unsigned counter).
TypeOK == /\ cassUp \in BOOLEAN
          /\ inMem \in Nat
          /\ total \in 0..MaxBuffers
          /\ byteLen \in [Buf -> Nat]
          /\ useCount \in [Buf -> Nat]
          /\ held \in {NoBuf} \cup Buf
          /\ toOffer \subseteq Services
          /\ room \subseteq toOffer
          /\ queue \in [Services -> Seq(Buf)]
          /\ cur \in [Services -> {NoBuf} \cup Buf]
          /\ processing \in [Services -> BOOLEAN]
          /\ numRecords \in [Services -> Int]
          /\ nextRecord \in [Services -> Nat]

Queued(s)    == {queue[s][i] : i \in 1..Len(queue[s])}
Holds(o, b)  == IF o = Discovery THEN held = b ELSE b \in Queued(o) \/ cur[o] = b
HoldersOf(b) == {o \in Owners : Holds(o, b)}
InMemory     == {b \in Buf : HoldersOf(b) # {}}

\* The reference count of a buffer is the number of owners that can still reach it
\* (discovery's ptr, a dataQueue, a dataBuf): no reference leaks, none is dropped twice.
RefCountExact == \A b \in Buf : useCount[b] = Cardinality(HoldersOf(b))

\* sharedInMemDataBufferCnt, which throttles discovery, counts exactly the buffers that
\* some owner can still reach, whatever the order in which the threads release them.
InMemExact == inMem = Cardinality(InMemory)

\* Each queue holds buffers in the order they were shared, all of them later than the one
\* in progress; a buffer still to be offered is later than all of them.
QueueInOrder ==
  \A s \in Services :
    /\ \A i, j \in 1..Len(queue[s]) : i < j => queue[s][i] < queue[s][j]
    /\ \A i \in 1..Len(queue[s]) : cur[s] < queue[s][i] /\ queue[s][i] <= total
    /\ cur[s] <= total
    /\ s \in toOffer => \A b \in Queued(s) \cup {cur[s]} : b < held

\* The offer loop runs exactly while discovery holds the newest buffer, and a thread
\* processes only what it holds.
OfferShape == /\ held \in {NoBuf, total}
              /\ held = NoBuf => toOffer = {}
              /\ \A s \in Services : processing[s] => cur[s] # NoBuf

\* The counter itself stays within the throttle.
Throttled == Variant = "ftp" => inMem <= MaxOutstanding + 1

\* The inductive invariant behind RefCountExact, InMemExact, MemoryBounded and
\* NoOfferRefused (see BufferPipelineProofs).
PipelineInv == /\ TypeOK
               /\ OfferShape
               /\ QueueInOrder
               /\ RefCountExact
               /\ InMemExact
               /\ Throttled

\* The throttle of the ftp gateway bounds the buffers really in memory: at most one more
\* than MAX_OUTSTANDING_MEM_BUF, in spite of being tested before the buffer exists.
MemoryBounded == Variant = "ftp" => Cardinality(InMemory) <= MaxOutstanding + 1

\* In the ftp gateway no offer ever meets a full queue, so that discovery may ignore the
\* answer of dataBufferOffer and mark the file as released.
NoOfferRefused ==
  Variant = "ftp" => \A s \in toOffer : Len(queue[s]) < QueueLen

\* Without a throttle (the C37 gateway) the queues alone bound memory: each service keeps
\* at most QueueLen buffers and one in progress, and discovery holds one.
QueuesBoundMemory ==
  /\ \A s \in Services : Len(queue[s]) <= QueueLen
  /\ Cardinality(InMemory) <= Cardinality(Services) * (QueueLen + 1) + 1

\* Where service s stands in the stream of shared buffers.
PositionOf(s) ==
  IF cur[s] # NoBuf
  THEN [file |-> cur[s], rec |-> IF processing[s] THEN nextRecord[s] ELSE 0]
  ELSE [file |-> IF queue[s] # <<>> THEN Head(queue[s])
                 ELSE IF s \in toOffer THEN held ELSE total + 1,
        rec |-> 0]

WorkIn(b) == [s \in Services |->
                IF Records(s, byteLen[b]) = -1 THEN 0 ELSE Records(s, byteLen[b])]

Abstract == INSTANCE FanOut
              WITH files <- [b \in 1..total |-> WorkIn(b)],
                   at    <- [s \in Services |-> PositionOf(s)]

\* The ftp data plane implements FanOut: every service handles every record of every
\* shared buffer once and in order (a rejected buffer counts as having no records).
ImplementsFanOut == Abstract!Spec

\* With Cassandra usable, every buffer that is shared is eventually finished with by
\* every service.
EveryBufferHandled ==
  \A b \in Buf, s \in Services : (cassUp /\ total >= b) ~> (PositionOf(s).file > b)

\* With Cassandra usable the throttle never stays closed: discovery always gets to share
\* its next file.
ThrottleReopens == cassUp => []<>(inMem <= MaxOutstanding)

\* The same promise whatever the state of Cassandra, as the gateway's startup message
\* "Cassandra connection failed, proceeding anyway." has it.
ProceedsAnyway == []<>(inMem <= MaxOutstanding)
=============================================================================
