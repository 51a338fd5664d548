---------------------------- MODULE FanOutProofs ----------------------------
(***************************************************************************)
(* The proof that the data plane of the ftp gateway implements FanOut, for *)
(* any services, queue length, throttle and files.  Beyond PipelineInv it  *)
(* needs that no service misses a buffer: what a service holds are the     *)
(* last buffers shared, without a gap.                                     *)
(***************************************************************************)
EXTENDS BufferPipelineProofs

USE PipelineAssumption DEF NoBuf, Buf

-----------------------------------------------------------------------------
\* The invariant

\* The buffer that s is offered next.
NextFor(s) == IF s \in toOffer THEN held ELSE total + 1

\* The queue of a service, behind the buffer in progress, has every buffer up to that one.
NoGap ==
  \A s \in Services :
    /\ \A i \in 1..Len(queue[s]) : queue[s][i] = NextFor(s) - Len(queue[s]) + i - 1
    /\ cur[s] # NoBuf => cur[s] = NextFor(s) - Len(queue[s]) - 1

\* The records counted when a buffer was begun are those of that buffer, and the thread does
\* not go past them.
RecordsKnown ==
  \A s \in Services : processing[s] =>
    /\ numRecords[s] = Records(s, byteLen[cur[s]])
    /\ numRecords[s] # -1
    /\ nextRecord[s] <= numRecords[s]

RefineInv == PipelineInv /\ NoGap /\ RecordsKnown

-----------------------------------------------------------------------------
\* Facts about the refinement mapping

\* The numbers involved are integers.
LEMMA RefineTypes ==
  ASSUME PipelineInv, NEW s \in Services
  PROVE  /\ cur[s] \in Nat /\ held \in Nat /\ total \in Nat
         /\ NextFor(s) \in Nat
         /\ queue[s] \in Seq(Buf) /\ Len(queue[s]) \in Nat
         /\ nextRecord[s] \in Nat /\ numRecords[s] \in Int
<1>1. cur[s] \in {NoBuf} \cup Buf /\ held \in {NoBuf} \cup Buf /\ total \in 0..MaxBuffers
  BY DEF PipelineInv, TypeOK
<1>2. queue[s] \in Seq(Buf) /\ nextRecord[s] \in Nat /\ numRecords[s] \in Int
  BY DEF PipelineInv, TypeOK
<1> QED BY <1>1, <1>2 DEF NextFor

\* Where a service stands, without the case distinction of PositionOf: as far behind the
\* next buffer as it holds buffers.
Distance(s) ==
  [file |-> IF cur[s] # NoBuf THEN cur[s] ELSE NextFor(s) - Len(queue[s]),
   rec  |-> IF processing[s] THEN nextRecord[s] ELSE 0]

PositionsKnown == \A s \in Services : PositionOf(s) = Distance(s)

\* A service stands as far behind the next buffer as it holds buffers.
LEMMA PositionIsDistance == RefineInv => PositionsKnown
<1> SUFFICES ASSUME RefineInv, NEW s \in Services PROVE PositionOf(s) = Distance(s)
  BY DEF PositionsKnown
<1> USE DEF Distance
<1>1. CASE cur[s] # NoBuf
  BY <1>1 DEF PositionOf
<1>2. CASE cur[s] = NoBuf
  <2>1. ~processing[s]
    BY <1>2 DEF RefineInv, PipelineInv, OfferShape
  <2>2. CASE queue[s] = <<>>
    <3>1. Len(queue[s]) = 0
      BY <2>2
    <3>2. NextFor(s) - Len(queue[s]) = NextFor(s)
      BY <3>1, RefineTypes DEF RefineInv
    <3> QED BY <1>2, <2>1, <2>2, <3>2 DEF PositionOf, NextFor
  <2>3. CASE queue[s] # <<>>
    <3>1. Head(queue[s]) = queue[s][1] /\ Len(queue[s]) \in Nat /\ Len(queue[s]) > 0
      BY <2>3, RefineTypes, TailFacts DEF RefineInv
    <3>2. queue[s][1] = NextFor(s) - Len(queue[s]) + 1 - 1
      BY <3>1 DEF RefineInv, NoGap
    <3>3. Head(queue[s]) = NextFor(s) - Len(queue[s])
      BY <3>1, <3>2, RefineTypes DEF RefineInv
    <3> QED BY <1>2, <2>1, <2>3, <3>3 DEF PositionOf
  <2> QED BY <2>2, <2>3
<1> QED BY <1>1, <1>2

-----------------------------------------------------------------------------
\* Steps keep the invariant

\* A new buffer is the next one for every service.
LEMMA NewBufferKeepsNoGap ==
  ASSUME RefineInv, NewBuffer
  PROVE  NoGap' /\ RecordsKnown'
<1> USE DEF RefineInv
<1>1. /\ queue' = queue /\ cur' = cur /\ toOffer' = Services /\ held' = total + 1
      /\ processing' = processing /\ numRecords' = numRecords /\ nextRecord' = nextRecord
      /\ cassUp' = cassUp
  BY DEF NewBuffer, recordVars
<1>2. toOffer = {}
  BY DEF NewBuffer, PipelineInv, OfferShape
<1>3. \A s \in Services : NextFor(s)' = NextFor(s)
  BY <1>1, <1>2 DEF NextFor
<1>4. NoGap'
  BY <1>1, <1>3 DEF NoGap
<1>5. ASSUME NEW s \in Services, processing[s] PROVE byteLen'[cur[s]] = byteLen[cur[s]]
  <2>1. cur[s] # NoBuf /\ cur[s] <= total /\ cur[s] \in Nat /\ total \in Nat
    BY <1>5, RefineTypes DEF PipelineInv, OfferShape, QueueInOrder
  <2> QED BY <2>1 DEF NewBuffer, PipelineInv, TypeOK
<1>6. RecordsKnown'
  BY <1>1, <1>5 DEF RecordsKnown, Records, FtpRecords, C37Records
<1> QED BY <1>4, <1>6

\* A pushed buffer closes up with the queue, and the next one for s is the one after it.
LEMMA OfferPushKeepsNoGap ==
  ASSUME RefineInv, NEW s \in Services, OfferPush(s)
  PROVE  NoGap'
<1> USE DEF RefineInv
<1>1. s \in toOffer /\ held = total /\ held \in Buf
  BY DEF OfferPush, PipelineInv, TypeOK, OfferShape
<1>2. /\ cur' = cur /\ total' = total /\ held' = held /\ toOffer' = toOffer \ {s}
      /\ \A r \in Services : queue'[r] = IF r = s THEN Append(queue[s], held) ELSE queue[r]
  BY DEF OfferPush, PipelineInv, TypeOK
<1>3. NextFor(s) = total /\ NextFor(s)' = total + 1
  BY <1>1, <1>2 DEF NextFor
<1>4. \A r \in Services \ {s} : NextFor(r)' = NextFor(r)
  BY <1>2 DEF NextFor
<1> SUFFICES ASSUME NEW r \in Services
             PROVE  /\ \A i \in 1..Len(queue'[r]) :
                         queue'[r][i] = NextFor(r)' - Len(queue'[r]) + i - 1
                    /\ cur'[r] # NoBuf => cur'[r] = NextFor(r)' - Len(queue'[r]) - 1
  BY DEF NoGap
<1>5. CASE r # s
  BY <1>2, <1>4, <1>5 DEF NoGap
<1>6. CASE r = s
  <2> DEFINE q == queue[s]
             n == Len(q)
  <2>1. q \in Seq(Buf) /\ n \in Nat /\ total \in Nat
    BY RefineTypes
  <2>2. /\ Len(Append(q, held)) = n + 1
        /\ \A i \in 1..n : Append(q, held)[i] = q[i]
        /\ Append(q, held)[n + 1] = held
    BY <1>1, <2>1, AppendFacts
  <2>3. \A i \in 1..n : q[i] = total - n + i - 1
    BY <1>3 DEF NoGap
  <2>4. cur[s] # NoBuf => cur[s] = total - n - 1
    BY <1>3 DEF NoGap
  <2>5. queue'[r] = Append(q, held)
    BY <1>2, <1>6
  <2> HIDE DEF q, n
  <2>6. ASSUME NEW i \in 1..(n + 1)
        PROVE  queue'[r][i] = (total + 1) - (n + 1) + i - 1
    <3>1. CASE i = n + 1
      BY <1>1, <2>1, <2>2, <2>5, <3>1
    <3>2. CASE i \in 1..n
      BY <2>1, <2>2, <2>3, <2>5, <3>2
    <3> QED BY <2>1, <3>1, <3>2
  <2>7. cur[s] # NoBuf => cur[s] = (total + 1) - (n + 1) - 1
    BY <2>1, <2>4
  <2> QED BY <1>2, <1>3, <1>6, <2>2, <2>5, <2>6, <2>7
<1> QED BY <1>5, <1>6

\* The front of a queue becomes the buffer in progress.
LEMMA TakeBufferKeepsNoGap ==
  ASSUME RefineInv, NEW s \in Services, TakeBuffer(s)
  PROVE  NoGap'
<1> USE DEF RefineInv
<1>1. \A r \in Services : NextFor(r)' = NextFor(r)
  BY DEF TakeBuffer, NextFor, discoveryVars
<1>2. \A r \in Services : /\ queue'[r] = IF r = s THEN Tail(queue[s]) ELSE queue[r]
                          /\ cur'[r] = IF r = s THEN Head(queue[s]) ELSE cur[r]
  BY DEF TakeBuffer, PipelineInv, TypeOK
<1> SUFFICES ASSUME NEW r \in Services
             PROVE  /\ \A i \in 1..Len(queue'[r]) :
                         queue'[r][i] = NextFor(r)' - Len(queue'[r]) + i - 1
                    /\ cur'[r] # NoBuf => cur'[r] = NextFor(r)' - Len(queue'[r]) - 1
  BY DEF NoGap
<1>3. CASE r # s
  BY <1>1, <1>2, <1>3 DEF NoGap
<1>4. CASE r = s
  <2> DEFINE q == queue[s]
             n == Len(q)
  <2>1. q \in Seq(Buf) /\ n \in Nat /\ NextFor(s) \in Nat
    BY RefineTypes
  <2>2. /\ Head(q) = q[1] /\ n > 0
        /\ Len(Tail(q)) = n - 1
        /\ \A i \in 1..Len(Tail(q)) : Tail(q)[i] = q[i + 1]
    BY <2>1, TailFacts DEF TakeBuffer
  <2>3. \A i \in 1..n : q[i] = NextFor(s) - n + i - 1
    BY DEF NoGap
  <2>4. queue'[r] = Tail(q) /\ cur'[r] = Head(q) /\ NextFor(r)' = NextFor(s)
    BY <1>1, <1>2, <1>4
  <2> HIDE DEF q, n
  <2>5. ASSUME NEW i \in 1..(n - 1)
        PROVE  Tail(q)[i] = NextFor(s) - (n - 1) + i - 1
    <3>1. i + 1 \in 1..n /\ Tail(q)[i] = q[i + 1]
      BY <2>1, <2>2
    <3>2. q[i + 1] = NextFor(s) - n + (i + 1) - 1
      BY <2>3, <3>1
    <3>3. NextFor(s) - n + (i + 1) - 1 = NextFor(s) - (n - 1) + i - 1
      BY <2>1
    <3> QED BY <3>1, <3>2, <3>3
  <2>6. Head(q) = NextFor(s) - (n - 1) - 1
    BY <2>1, <2>2, <2>3
  <2> QED BY <2>2, <2>4, <2>5, <2>6
<1> QED BY <1>3, <1>4

\* Giving up the buffer in progress leaves the queue as it is.
LEMMA ReleaseKeepsNoGap ==
  ASSUME RefineInv, NEW s \in Services, Abandon(s) \/ CompleteBuffer(s)
  PROVE  NoGap' /\ RecordsKnown'
<1> USE DEF RefineInv
<1>1. /\ queue' = queue /\ total' = total /\ held' = held /\ toOffer' = toOffer
      /\ byteLen' = byteLen /\ cassUp' = cassUp /\ nextRecord' = nextRecord
      /\ \A r \in Services : cur'[r] = IF r = s THEN NoBuf ELSE cur[r]
  BY DEF Abandon, CompleteBuffer, discoveryVars, PipelineInv, TypeOK
<1>2. ~processing'[s]
  BY DEF Abandon, CompleteBuffer, PipelineInv, TypeOK
<1>3. \A r \in Services \ {s} : processing'[r] = processing[r] /\ numRecords'[r] = numRecords[r]
  BY DEF Abandon, CompleteBuffer, PipelineInv, TypeOK
<1>4. NoGap'
  BY <1>1 DEF NoGap, NextFor
<1>5. RecordsKnown'
  BY <1>1, <1>2, <1>3 DEF RecordsKnown, Records, FtpRecords, C37Records
<1> QED BY <1>4, <1>5

\* Beginning a buffer counts its records; a record is handled only while there is one.
LEMMA RecordStepKeepsNoGap ==
  ASSUME RefineInv, NEW s \in Services, BeginBuffer(s) \/ ProcessRecord(s)
  PROVE  NoGap' /\ RecordsKnown'
<1> USE DEF RefineInv
<1>1. /\ queue' = queue /\ total' = total /\ held' = held /\ toOffer' = toOffer
      /\ byteLen' = byteLen /\ cassUp' = cassUp /\ cur' = cur
  BY DEF BeginBuffer, ProcessRecord, discoveryVars
<1>2. NoGap'
  BY <1>1 DEF NoGap, NextFor
<1>3. \A r \in Services : \A len : Records(r, len)' = Records(r, len)
  BY <1>1 DEF Records, FtpRecords, C37Records
<1>4. CASE BeginBuffer(s)
  <2>1. byteLen[cur[s]] \in Nat
    BY <1>4 DEF BeginBuffer, PipelineInv, TypeOK
  <2>2. Records(s, byteLen[cur[s]]) # -1 => 0 <= Records(s, byteLen[cur[s]])
    BY <2>1 DEF Records, FtpRecords, C37Records
  <2>3. /\ numRecords'[s] = Records(s, byteLen[cur[s]])
        /\ Records(s, byteLen[cur[s]]) # -1
        /\ nextRecord'[s] = 0
        /\ \A r \in Services \ {s} : /\ processing'[r] = processing[r]
                                     /\ numRecords'[r] = numRecords[r]
                                     /\ nextRecord'[r] = nextRecord[r]
    BY <1>4 DEF BeginBuffer, PipelineInv, TypeOK
  <2> SUFFICES ASSUME NEW r \in Services, processing'[r]
               PROVE  /\ numRecords'[r] = Records(r, byteLen[cur[r]])'
                      /\ numRecords'[r] # -1
                      /\ nextRecord'[r] <= numRecords'[r]
    BY <1>2 DEF RecordsKnown
  <2>4. CASE r = s
    BY <1>1, <1>3, <2>2, <2>3, <2>4
  <2>5. CASE r # s
    BY <1>1, <1>3, <2>3, <2>5 DEF RecordsKnown
  <2> QED BY <2>4, <2>5
<1>5. CASE ProcessRecord(s)
  <2>1. nextRecord[s] + 1 <= numRecords[s]
    BY <1>5, RefineTypes DEF ProcessRecord, InRecord
  <2> QED BY <1>1, <1>2, <1>3, <1>5, <2>1
          DEF ProcessRecord, RecordsKnown, PipelineInv, TypeOK
<1> QED BY <1>4, <1>5

\* The invariant holds initially and every step of the ftp gateway keeps it: no offer is
\* refused, and no buffer is given up in the middle.
LEMMA InitHasRefineInv == Init => RefineInv
<1> SUFFICES ASSUME Init PROVE RefineInv
  OBVIOUS
<1>1. NoGap /\ RecordsKnown
  BY DEF Init, NoGap, RecordsKnown
<1> QED BY <1>1, InitKeepsInv DEF RefineInv

\* Every step keeps the invariant of the refinement.
LEMMA NextKeepsRefineInv ==
  ASSUME Variant = "ftp"
  PROVE  RefineInv /\ [Next]_vars => RefineInv'
<1> SUFFICES ASSUME RefineInv, [Next]_vars PROVE NoGap' /\ RecordsKnown'
  BY NextKeepsInv DEF RefineInv
<1> USE DEF RefineInv
<1>1. CASE NewBuffer
  BY <1>1, NewBufferKeepsNoGap
<1>2. ASSUME NEW s \in Services, OfferPush(s) PROVE NoGap' /\ RecordsKnown'
  <2>1. RecordsKnown'
    BY <1>2 DEF OfferPush, recordVars, RecordsKnown, Records, FtpRecords, C37Records
  <2> QED BY <1>2, <2>1, OfferPushKeepsNoGap
<1>3. ASSUME NEW s \in Services, OfferRefused(s) PROVE FALSE
  <2>1. s \in toOffer /\ Len(queue[s]) = QueueLen
    BY <1>3 DEF OfferRefused
  <2>2. Len(queue[s]) < QueueLen
    BY <2>1, RoomInQueues DEF NoOfferRefused
  <2> QED BY <2>1, <2>2
<1>4. ASSUME NEW s \in Services, OutOfMemory(s) PROVE FALSE
  BY <1>4 DEF OutOfMemory
<1>5. ASSUME NEW s \in Services, TakeBuffer(s) PROVE NoGap' /\ RecordsKnown'
  <2>1. ~processing[s]
    BY <1>5 DEF TakeBuffer, PipelineInv, OfferShape
  <2>2. \A r \in Services \ {s} : cur'[r] = cur[r]
    BY <1>5 DEF TakeBuffer, PipelineInv, TypeOK
  <2>3. RecordsKnown'
    BY <1>5, <2>1, <2>2 DEF TakeBuffer, recordVars, discoveryVars, RecordsKnown, Records,
                            FtpRecords, C37Records
  <2> QED BY <1>5, <2>3, TakeBufferKeepsNoGap
<1>6. ASSUME NEW s \in Services, Abandon(s) \/ CompleteBuffer(s) PROVE NoGap' /\ RecordsKnown'
  BY <1>6, ReleaseKeepsNoGap
<1>7. ASSUME NEW s \in Services, BeginBuffer(s) \/ ProcessRecord(s)
      PROVE  NoGap' /\ RecordsKnown'
  BY <1>7, RecordStepKeepsNoGap
<1>8. CASE /\ queue' = queue /\ cur' = cur /\ total' = total /\ toOffer' = toOffer
           /\ held' = held \/ toOffer = {}
           /\ byteLen' = byteLen /\ cassUp' = cassUp
           /\ processing' = processing /\ numRecords' = numRecords /\ nextRecord' = nextRecord
  <2>1. \A s \in Services : NextFor(s)' = NextFor(s)
    BY <1>8 DEF NextFor
  <2> QED BY <1>8, <2>1 DEF NoGap, RecordsKnown, Records, FtpRecords, C37Records
<1>9. CASE DropOwnRef \/ (\E s \in Services : OfferRoom(s))
  BY <1>8, <1>9 DEF DropOwnRef, OfferRoom, recordVars
<1>10. CASE UNCHANGED vars \/ (\E s \in Services : RepeatRecord(s) \/ SleepIdle(s))
  BY <1>8, <1>10 DEF RepeatRecord, SleepIdle, vars
<1> QED BY <1>1, <1>2, <1>3, <1>4, <1>5, <1>6, <1>7, <1>9, <1>10 DEF Next, Discover, Serve

-----------------------------------------------------------------------------
\* Steps implement steps of FanOut

\* The shared buffers as FanOut sees them, and where the services stand.
Files == [b \in 1..total |-> WorkIn(b)]
Place == [s \in Services |-> PositionOf(s)]

\* As long as no buffer is shared, FanOut sees the same buffers.
LEMMA SameFiles ==
  ASSUME total' = total, byteLen' = byteLen, cassUp' = cassUp
  PROVE  Files' = Files
  BY DEF Files, WorkIn, Records, FtpRecords, C37Records

\* Services that hold the same buffers and are at the same record stand where they stood.
LEMMA SamePlace ==
  ASSUME PositionsKnown, PositionsKnown', \A s \in Services : Distance(s)' = Distance(s)
  PROVE  Place' = Place
  BY DEF PositionsKnown, Place

\* A step of one service is a step of that service in FanOut.
LEMMA OnePlace ==
  ASSUME PositionsKnown, PositionsKnown', NEW s \in Services,
         \A r \in Services \ {s} : Distance(r)' = Distance(r)
  PROVE  /\ Place = [r \in Services |-> Distance(r)]
         /\ Place' = [Place EXCEPT ![s] = Distance(s)']
  BY DEF PositionsKnown, Place

\* A new buffer is shared.
LEMMA NewBufferShares ==
  ASSUME RefineInv, RefineInv', PositionsKnown, PositionsKnown', NewBuffer
  PROVE  Abstract!Share
<1>1. /\ queue' = queue /\ cur' = cur /\ toOffer' = Services /\ held' = total + 1
      /\ processing' = processing /\ nextRecord' = nextRecord /\ cassUp' = cassUp
      /\ total' = total + 1 /\ total \in 0..MaxBuffers /\ total < MaxBuffers
  BY DEF NewBuffer, recordVars, RefineInv, PipelineInv, TypeOK
<1>2. \A s \in Services : Distance(s)' = Distance(s)
  <2>1. toOffer = {}
    BY DEF NewBuffer, RefineInv, PipelineInv, OfferShape
  <2>2. \A s \in Services : NextFor(s)' = NextFor(s)
    BY <1>1, <2>1 DEF NextFor
  <2> QED BY <1>1, <2>2 DEF Distance
<1>3. Place' = Place
  BY <1>2, SamePlace
<1>4. \A b \in 1..total : WorkIn(b)' = WorkIn(b)
  <2> SUFFICES ASSUME NEW b \in 1..total PROVE WorkIn(b)' = WorkIn(b)
    OBVIOUS
  <2>1. byteLen'[b] = byteLen[b]
    BY <1>1 DEF NewBuffer, RefineInv, PipelineInv, TypeOK
  <2> QED BY <1>1, <2>1 DEF WorkIn, Records, FtpRecords, C37Records
<1>5. Files'[total + 1] \in [Services -> Nat]
  <2>1. byteLen'[total + 1] \in Nat
    BY <1>1 DEF RefineInv, PipelineInv, TypeOK
  <2>2. WorkIn(total)' \in [Services -> Nat]
    BY <1>1, <2>1 DEF WorkIn, Records, FtpRecords, C37Records
  <2> QED BY <1>1, <2>2 DEF Files
<1>6. Len(Files) = total
  BY <1>1 DEF Files
<1>7. Files' = Append(Files, Files'[total + 1])
  BY <1>1, <1>4 DEF Files
<1>8. Len(Files') = total + 1
  BY <1>1 DEF Files
<1> QED BY <1>3, <1>5, <1>6, <1>7, <1>8 DEF Abstract!Share, Files, Place

\* Offering and taking buffers does not move a service.
LEMMA OfferAndTakeStutter ==
  ASSUME RefineInv, RefineInv', PositionsKnown, PositionsKnown', NEW s \in Services,
         OfferRoom(s) \/ OfferPush(s) \/ TakeBuffer(s) \/ BeginBuffer(s)
  PROVE  Files' = Files /\ Place' = Place
<1> USE DEF RefineInv
<1>1. total' = total /\ byteLen' = byteLen /\ cassUp' = cassUp
  BY DEF OfferRoom, OfferPush, TakeBuffer, BeginBuffer, discoveryVars
<1>2. \A r \in Services \ {s} :
        /\ cur'[r] = cur[r] /\ queue'[r] = queue[r] /\ NextFor(r)' = NextFor(r)
        /\ processing'[r] = processing[r] /\ nextRecord'[r] = nextRecord[r]
  BY ZenonT(60) DEF OfferRoom, OfferPush, TakeBuffer, BeginBuffer, discoveryVars, recordVars, NextFor,
         PipelineInv, TypeOK
<1>3. Distance(s)' = Distance(s)
  <2>1. CASE OfferRoom(s)
    BY <2>1 DEF OfferRoom, recordVars, Distance, NextFor
  <2>2. CASE OfferPush(s)
    <3>1. s \in toOffer /\ held = total /\ held \in Buf
      BY <2>2 DEF OfferPush, PipelineInv, TypeOK, OfferShape
    <3>2. NextFor(s) = total /\ NextFor(s)' = total + 1 /\ total \in Nat
      BY <2>2, <3>1 DEF OfferPush, NextFor
    <3>3. queue'[s] = Append(queue[s], held)
      BY <2>2 DEF OfferPush, PipelineInv, TypeOK
    <3>4. queue[s] \in Seq(Buf) /\ Len(queue[s]) \in Nat
      BY RefineTypes
    <3>5. Len(queue'[s]) = Len(queue[s]) + 1
      BY <3>1, <3>3, <3>4, AppendFacts
    <3>6. NextFor(s)' - Len(queue'[s]) = NextFor(s) - Len(queue[s])
      BY <3>2, <3>4, <3>5
    <3>7. cur' = cur /\ processing' = processing /\ nextRecord' = nextRecord
      BY <2>2 DEF OfferPush, recordVars
    <3> QED BY <3>6, <3>7 DEF Distance
  <2>3. CASE TakeBuffer(s)
    <3>1. cur[s] = NoBuf /\ queue[s] # <<>> /\ ~processing[s] /\ ~processing'[s]
      BY <2>3 DEF TakeBuffer, recordVars, PipelineInv, OfferShape
    <3>2. /\ Head(queue[s]) = queue[s][1] /\ Head(queue[s]) \in Buf
          /\ Len(queue[s]) \in Nat /\ Len(queue[s]) > 0 /\ NextFor(s) \in Nat
      BY <3>1, RefineTypes, TailFacts
    <3>3. queue[s][1] = NextFor(s) - Len(queue[s]) + 1 - 1
      BY <3>2 DEF NoGap
    <3>4. cur'[s] = Head(queue[s])
      BY <2>3 DEF TakeBuffer, PipelineInv, TypeOK
    <3>5. cur'[s] = NextFor(s) - Len(queue[s]) /\ cur'[s] # NoBuf
      BY <3>2, <3>3, <3>4
    <3> QED BY <3>1, <3>5 DEF Distance
  <2>4. CASE BeginBuffer(s)
    BY <2>4 DEF BeginBuffer, discoveryVars, PipelineInv, TypeOK, Distance, NextFor
  <2> QED BY <2>1, <2>2, <2>3, <2>4
<1>4. \A r \in Services : Distance(r)' = Distance(r)
  BY <1>2, <1>3 DEF Distance
<1> QED BY <1>1, <1>4, SameFiles, SamePlace

\* Handling a record is the same in FanOut.
LEMMA ProcessRecordDelivers ==
  ASSUME RefineInv, RefineInv', PositionsKnown, PositionsKnown', NEW s \in Services,
         ProcessRecord(s)
  PROVE  Abstract!Deliver(s)
<1> USE DEF RefineInv
<1>1. /\ total' = total /\ byteLen' = byteLen /\ cassUp' = cassUp /\ cur' = cur /\ queue' = queue
      /\ toOffer' = toOffer /\ held' = held /\ processing' = processing
      /\ \A r \in Services : nextRecord'[r] = IF r = s THEN nextRecord[s] + 1 ELSE nextRecord[r]
      /\ processing[s] /\ nextRecord[s] < numRecords[s]
  BY DEF ProcessRecord, InRecord, discoveryVars, PipelineInv, TypeOK
<1>2. cur[s] # NoBuf /\ cur[s] \in 1..total
  BY <1>1, RefineTypes DEF PipelineInv, OfferShape, QueueInOrder
<1>3. Distance(s) = [file |-> cur[s], rec |-> nextRecord[s]]
  BY <1>1, <1>2 DEF Distance
<1>4. Distance(s)' = [file |-> cur[s], rec |-> nextRecord[s] + 1]
  BY <1>1, <1>2 DEF Distance
<1>5. /\ Place = [r \in Services |-> Distance(r)]
      /\ Place' = [Place EXCEPT ![s] = Distance(s)']
  <2>1. \A r \in Services \ {s} : Distance(r)' = Distance(r)
    BY <1>1 DEF Distance, NextFor
  <2> QED BY <2>1, OnePlace
<1>6. Place[s].file = cur[s] /\ Place[s].rec = nextRecord[s]
  BY <1>3, <1>5
<1>7. Place' = [Place EXCEPT ![s] = [file |-> Place[s].file, rec |-> Place[s].rec + 1]]
  <2>1. Distance(s)' = [file |-> Place[s].file, rec |-> Place[s].rec + 1]
    BY <1>4, <1>6
  <2> QED BY <1>5, <2>1
<1>8. Files[cur[s]][s] = numRecords[s]
  BY <1>1, <1>2 DEF Files, WorkIn, RecordsKnown
<1>9. Len(Files) = total /\ total \in Nat
  BY RefineTypes DEF Files
<1>10. Files' = Files
  BY <1>1, SameFiles
<1> QED BY <1>1, <1>2, <1>6, <1>7, <1>8, <1>9, <1>10 DEF Abstract!Deliver, Files, Place

\* A buffer without records that is rejected, or one whose records are all handled, is
\* finished with: the service moves to the next buffer, and there is no gap before it.
LEMMA ReleaseAdvances ==
  ASSUME RefineInv, RefineInv', PositionsKnown, PositionsKnown', NEW s \in Services,
         Abandon(s) \/ CompleteBuffer(s)
  PROVE  Abstract!Advance(s)
<1> USE DEF RefineInv
<1>1. /\ queue' = queue /\ total' = total /\ held' = held /\ toOffer' = toOffer
      /\ byteLen' = byteLen /\ cassUp' = cassUp /\ nextRecord' = nextRecord
      /\ \A r \in Services : cur'[r] = IF r = s THEN NoBuf ELSE cur[r]
      /\ \A r \in Services \ {s} : processing'[r] = processing[r]
      /\ ~processing'[s]
  BY DEF Abandon, CompleteBuffer, discoveryVars, PipelineInv, TypeOK
<1>2. cur[s] # NoBuf /\ cur[s] \in 1..total
  <2>1. cur[s] # NoBuf
    BY DEF Abandon, CompleteBuffer, PipelineInv, OfferShape
  <2> QED BY <2>1, RefineTypes DEF PipelineInv, QueueInOrder
<1>3. Distance(s) = [file |-> cur[s], rec |-> IF processing[s] THEN nextRecord[s] ELSE 0]
  BY <1>2 DEF Distance
<1>4. Distance(s)' = [file |-> cur[s] + 1, rec |-> 0]
  <2>1. cur[s] = NextFor(s) - Len(queue[s]) - 1
    BY <1>2 DEF NoGap
  <2>2. cur[s] + 1 = NextFor(s) - Len(queue[s])
    BY <2>1, RefineTypes
  <2> QED BY <1>1, <2>2 DEF Distance, NextFor
<1>5. /\ Place = [r \in Services |-> Distance(r)]
      /\ Place' = [Place EXCEPT ![s] = Distance(s)']
  <2>1. \A r \in Services \ {s} : Distance(r)' = Distance(r)
    BY <1>1 DEF Distance, NextFor
  <2> QED BY <2>1, OnePlace
<1>6. Place[s].file = cur[s] /\ Place[s].rec = IF processing[s] THEN nextRecord[s] ELSE 0
  BY <1>3, <1>5
<1>7. Place' = [Place EXCEPT ![s] = [file |-> Place[s].file + 1, rec |-> 0]]
  <2>1. Distance(s)' = [file |-> Place[s].file + 1, rec |-> 0]
    BY <1>4, <1>6
  <2> QED BY <1>5, <2>1
<1>8. Files[cur[s]][s] = IF processing[s] THEN nextRecord[s] ELSE 0
  <2>1. Files[cur[s]][s] = IF Records(s, byteLen[cur[s]]) = -1 THEN 0
                           ELSE Records(s, byteLen[cur[s]])
    BY <1>2 DEF Files, WorkIn
  <2>2. CASE Abandon(s)
    BY <2>1, <2>2 DEF Abandon
  <2>3. CASE CompleteBuffer(s)
    <3>1. processing[s] /\ nextRecord[s] >= numRecords[s]
      BY <2>3 DEF CompleteBuffer
    <3>2. nextRecord[s] = numRecords[s] /\ numRecords[s] = Records(s, byteLen[cur[s]])
          /\ numRecords[s] # -1
      BY <3>1, RefineTypes DEF RecordsKnown
    <3> QED BY <2>1, <3>1, <3>2
  <2> QED BY <2>2, <2>3
<1>9. Len(Files) = total /\ total \in Nat
  BY RefineTypes DEF Files
<1>10. Files' = Files
  BY <1>1, SameFiles
<1> QED BY <1>2, <1>6, <1>7, <1>8, <1>9, <1>10 DEF Abstract!Advance, Files, Place

\* Every step of the ftp gateway is a step of FanOut or leaves it as it is.
LEMMA NextImplementsNext ==
  ASSUME Variant = "ftp"
  PROVE  RefineInv /\ RefineInv' /\ PositionsKnown /\ PositionsKnown' /\ [Next]_vars
           => [Abstract!Next]_(Abstract!vars)
<1> SUFFICES ASSUME RefineInv, RefineInv', PositionsKnown, PositionsKnown', [Next]_vars
             PROVE  Abstract!Next \/ (Files' = Files /\ Place' = Place)
  BY DEF Abstract!vars, Files, Place
<1>1. CASE NewBuffer
  BY <1>1, NewBufferShares DEF Abstract!Next
<1>2. ASSUME NEW s \in Services,
             OfferRoom(s) \/ OfferPush(s) \/ TakeBuffer(s) \/ BeginBuffer(s)
      PROVE  Files' = Files /\ Place' = Place
  BY <1>2, OfferAndTakeStutter
<1>3. ASSUME NEW s \in Services, OfferRefused(s) PROVE FALSE
  <2>1. s \in toOffer /\ Len(queue[s]) = QueueLen
    BY <1>3 DEF OfferRefused
  <2>2. Len(queue[s]) < QueueLen
    BY <2>1, RoomInQueues DEF NoOfferRefused, RefineInv
  <2> QED BY <2>1, <2>2
<1>4. ASSUME NEW s \in Services, OutOfMemory(s) PROVE FALSE
  BY <1>4 DEF OutOfMemory
<1>5. ASSUME NEW s \in Services, ProcessRecord(s) PROVE Abstract!Next
  BY <1>5, ProcessRecordDelivers DEF Abstract!Next
<1>6. ASSUME NEW s \in Services, Abandon(s) \/ CompleteBuffer(s) PROVE Abstract!Next
  BY <1>6, ReleaseAdvances DEF Abstract!Next
<1>7. CASE /\ queue' = queue /\ cur' = cur /\ total' = total /\ toOffer' = toOffer
           /\ held' = held \/ toOffer = {}
           /\ byteLen' = byteLen /\ cassUp' = cassUp
           /\ processing' = processing /\ nextRecord' = nextRecord
  <2>1. \A s \in Services : Distance(s)' = Distance(s)
    BY <1>7 DEF Distance, NextFor
  <2> QED BY <1>7, <2>1, SameFiles, SamePlace
<1>8. CASE DropOwnRef
  BY <1>7, <1>8 DEF DropOwnRef, recordVars
<1>9. CASE UNCHANGED vars \/ (\E s \in Services : RepeatRecord(s) \/ SleepIdle(s))
  BY <1>7, <1>9 DEF RepeatRecord, SleepIdle, vars
<1> QED BY <1>1, <1>2, <1>3, <1>4, <1>5, <1>6, <1>8, <1>9 DEF Next, Discover, Serve

\* The data plane of the ftp gateway implements FanOut: however the threads interleave,
\* every service handles every record of every shared buffer once and in order.
THEOREM FtpImplementsFanOut ==
  ASSUME Variant = "ftp"
  PROVE  Spec => ImplementsFanOut
<1>1. Init => Abstract!Init
  <2> SUFFICES ASSUME Init PROVE Files = <<>> /\ Place = [s \in Services |-> Abstract!Start]
    BY DEF Abstract!Init, Files, Place
  <2>1. Files = <<>>
    BY DEF Init, Files
  <2>2. Place = [s \in Services |-> Abstract!Start]
    BY DEF Init, Place, PositionOf, Abstract!Start
  <2> QED BY <2>1, <2>2
<1>2. RefineInv /\ [Next]_vars => RefineInv'
  BY NextKeepsRefineInv
<1>3. RefineInv /\ RefineInv' /\ PositionsKnown /\ PositionsKnown' /\ [Next]_vars
        => [Abstract!Next]_(Abstract!vars)
  BY NextImplementsNext
<1> QED BY <1>1, <1>2, <1>3, InitHasRefineInv, PositionIsDistance, PTL
        DEF Spec, ImplementsFanOut, Abstract!Spec
=============================================================================
