------------------------ MODULE BufferPipelineProofs ------------------------
(***************************************************************************)
(* Proofs about BufferPipeline for any set of services, any queue length   *)
(* and any throttle below it.  PipelineInv is inductive; the bounds on     *)
(* memory and the absence of refused offers follow from it.                *)
(***************************************************************************)
EXTENDS BufferPipeline, FiniteSetTheorems, TLAPS

USE PipelineAssumption DEF NoBuf, Buf

-----------------------------------------------------------------------------
\* Facts about the operators of the model

\* Appending to a queue keeps the old elements in place and adds the new one last.
LEMMA AppendFacts ==
  ASSUME NEW q \in Seq(Buf), NEW b \in Buf
  PROVE  /\ Append(q, b) \in Seq(Buf)
         /\ Len(Append(q, b)) = Len(q) + 1
         /\ \A i \in 1..Len(q) : Append(q, b)[i] = q[i]
         /\ Append(q, b)[Len(q) + 1] = b
  OBVIOUS

\* Popping a non-empty queue shifts the remaining elements down by one.
LEMMA TailFacts ==
  ASSUME NEW q \in Seq(Buf), q # <<>>
  PROVE  /\ Head(q) \in Buf
         /\ Head(q) = q[1]
         /\ Tail(q) \in Seq(Buf)
         /\ Len(q) \in Nat /\ Len(q) > 0
         /\ Len(Tail(q)) = Len(q) - 1
         /\ \A i \in 1..Len(Tail(q)) : Tail(q)[i] = q[i + 1]
  OBVIOUS

\* The owners of a buffer, and the buffers in memory, are finite sets.
LEMMA Finiteness ==
  /\ IsFiniteSet(Owners)
  /\ IsFiniteSet(Buf)
  /\ \A b : IsFiniteSet(HoldersOf(b))
  /\ IsFiniteSet(InMemory)
<1>1. IsFiniteSet(Owners)
  BY FS_AddElement DEF Owners
<1>2. IsFiniteSet(Buf)
  BY FS_Interval
<1>3. \A b : IsFiniteSet(HoldersOf(b))
  BY <1>1, FS_Subset DEF HoldersOf
<1>4. IsFiniteSet(InMemory)
  BY <1>2, FS_Subset DEF InMemory
<1> QED BY <1>1, <1>2, <1>3, <1>4

\* A buffer has a positive reference count exactly when some owner can reach it.
LEMMA CountedIffHeld ==
  ASSUME RefCountExact, NEW b \in Buf
  PROVE  useCount[b] = 0 <=> HoldersOf(b) = {}
  BY Finiteness, FS_EmptySet DEF RefCountExact

\* Dropping one of the references to a buffer keeps both counters exact.
LEMMA DropKeepsCounts ==
  ASSUME TypeOK, RefCountExact, InMemExact,
         NEW b \in Buf, NEW o \in HoldersOf(b), DropRef(b),
         HoldersOf(b)' = HoldersOf(b) \ {o},
         \A c \in Buf \ {b} : HoldersOf(c)' = HoldersOf(c)
  PROVE  /\ useCount' \in [Buf -> Nat]
         /\ inMem' \in Nat
         /\ inMem' <= inMem
         /\ RefCountExact'
         /\ InMemExact'
<1>1. useCount[b] \in Nat /\ useCount[b] # 0
  <2>1. useCount[b] \in Nat
    BY DEF TypeOK
  <2>2. HoldersOf(b) # {}
    OBVIOUS
  <2> QED BY <2>1, <2>2, CountedIffHeld
<1>2. /\ Cardinality(HoldersOf(b)') = useCount[b] - 1
      /\ IsFiniteSet(HoldersOf(b))
  BY Finiteness, FS_RemoveElement, ZenonT(60) DEF RefCountExact
<1>3. useCount' = [useCount EXCEPT ![b] = @ - 1]
  BY DEF DropRef
<1>4. useCount' \in [Buf -> Nat]
  BY <1>1, <1>3 DEF TypeOK
<1>5. RefCountExact'
  <2> SUFFICES ASSUME NEW c \in Buf PROVE useCount'[c] = Cardinality(HoldersOf(c)')
    BY DEF RefCountExact
  <2>1. CASE c = b
    BY <2>1, <1>1, <1>2, <1>3 DEF TypeOK
  <2>2. CASE c # b
    BY <2>2, <1>3 DEF TypeOK, RefCountExact
  <2> QED BY <2>1, <2>2
<1>6. b \in InMemory /\ IsFiniteSet(InMemory)
  BY Finiteness DEF InMemory
<1>7. CASE useCount[b] = 1
  <2>1. HoldersOf(b)' = {}
    <3>1. IsFiniteSet(HoldersOf(b) \ {o})
      BY <1>2, FS_RemoveElement
    <3>2. Cardinality(HoldersOf(b) \ {o}) = 0
      BY <1>2, <1>7
    <3> QED BY <3>1, <3>2, FS_EmptySet
  <2>2. InMemory' = InMemory \ {b}
    BY <2>1, <1>6 DEF InMemory
  <2>3. Cardinality(InMemory) = inMem /\ inMem \in Nat
    BY DEF InMemExact, TypeOK
  <2>4. Cardinality(InMemory \ {b}) = inMem - 1 /\ Cardinality(InMemory \ {b}) \in Nat
    BY <1>6, <2>3, FS_RemoveElement, FS_CardinalityType
  <2>5. inMem' = inMem - 1
    BY <1>7 DEF DropRef
  <2>6. InMemExact'
    BY <2>2, <2>4, <2>5 DEF InMemExact
  <2> QED BY <1>4, <1>5, <2>3, <2>4, <2>5, <2>6
<1>8. CASE useCount[b] # 1
  <2>1. HoldersOf(b)' # {}
    BY <1>1, <1>2, <1>8, FS_EmptySet
  <2>2. InMemory' = InMemory
    BY <2>1, <1>6 DEF InMemory
  <2>3. inMem' = inMem
    BY <1>8 DEF DropRef
  <2> QED BY <1>4, <1>5, <2>2, <2>3 DEF InMemExact, TypeOK
<1> QED BY <1>7, <1>8

\* A step that moves no reference keeps both counters exact.
LEMMA SameHoldersKeepCounts ==
  ASSUME RefCountExact, InMemExact,
         \A c \in Buf : HoldersOf(c)' = HoldersOf(c),
         useCount' = useCount, inMem' = inMem
  PROVE  RefCountExact' /\ InMemExact'
<1>1. InMemory' = InMemory
  BY DEF InMemory
<1> QED BY <1>1 DEF RefCountExact, InMemExact

\* A buffer in progress in a service is not in that service's queue any more.
LEMMA CurrentNotQueued ==
  ASSUME TypeOK, QueueInOrder, NEW s \in Services
  PROVE  cur[s] \notin Queued(s)
<1> SUFFICES ASSUME NEW i \in 1..Len(queue[s]), cur[s] = queue[s][i] PROVE FALSE
  BY DEF Queued
<1>1. cur[s] \in Int
  <2>1. cur[s] \in {NoBuf} \cup Buf
    BY DEF TypeOK
  <2> QED BY <2>1
<1>2. cur[s] < queue[s][i]
  BY DEF QueueInOrder
<1> QED BY <1>1, <1>2

\* The thread of service s gives up the buffer in progress.
LEMMA ReleaseCurrent ==
  ASSUME TypeOK, QueueInOrder, RefCountExact, InMemExact,
         NEW s \in Services, NEW b \in Buf, cur[s] = b, DropRef(b),
         cur' = [cur EXCEPT ![s] = NoBuf],
         queue' = queue, held' = held
  PROVE  /\ useCount' \in [Buf -> Nat]
         /\ inMem' \in Nat
         /\ inMem' <= inMem
         /\ RefCountExact'
         /\ InMemExact'
<1>1. b \notin Queued(s) /\ s # Discovery /\ s \in Owners
  BY CurrentNotQueued DEF TypeOK, Owners
<1>2. \A r : Queued(r)' = Queued(r)
  BY DEF Queued
<1>3. s \in HoldersOf(b)
  BY <1>1 DEF HoldersOf, Holds
<1>4. \A r \in Services : cur'[r] = IF r = s THEN NoBuf ELSE cur[r]
  BY DEF TypeOK
<1>5. ASSUME NEW o \in Owners, NEW c \in Buf
      PROVE  Holds(o, c)' <=> (Holds(o, c) /\ ~(o = s /\ c = b))
  BY <1>1, <1>2, <1>4 DEF Holds, Owners
<1>6. HoldersOf(b)' = HoldersOf(b) \ {s}
  BY <1>1, <1>5 DEF HoldersOf
<1>7. \A c \in Buf \ {b} : HoldersOf(c)' = HoldersOf(c)
  BY <1>5 DEF HoldersOf
<1> HIDE DEF Buf
<1> QED BY <1>3, <1>6, <1>7, DropKeepsCounts

-----------------------------------------------------------------------------
\* One lemma per action: the action keeps PipelineInv

\* A new buffer has one owner, discovery, and is later than everything queued.
LEMMA NewBufferKeepsInv ==
  ASSUME PipelineInv, NewBuffer
  PROVE  PipelineInv'
<1> USE DEF PipelineInv
<1>1. PICK b \in Buf : b = total + 1
  BY DEF NewBuffer, TypeOK
<1>2. /\ total \in Nat /\ inMem \in Nat
      /\ held = NoBuf /\ toOffer = {} /\ held' = b /\ total' = b /\ toOffer' = Services
      /\ queue' = queue /\ cur' = cur /\ room' = {} /\ inMem' = inMem + 1
      /\ useCount' = [useCount EXCEPT ![b] = 1] /\ cassUp' = cassUp
      /\ processing' = processing /\ numRecords' = numRecords /\ nextRecord' = nextRecord
  BY <1>1 DEF NewBuffer, TypeOK, OfferShape, recordVars
<1>3. \A r : Queued(r)' = Queued(r)
  BY <1>2 DEF Queued
<1>4. \A s \in Services : cur[s] < b /\ \A c \in Queued(s) : c < b
  <2> SUFFICES ASSUME NEW s \in Services
               PROVE  cur[s] < b /\ \A c \in Queued(s) : c < b
    OBVIOUS
  <2>1. cur[s] <= total /\ \A i \in 1..Len(queue[s]) : queue[s][i] <= total
    BY DEF QueueInOrder
  <2>2. cur[s] \in {NoBuf} \cup Buf /\ queue[s] \in Seq(Buf)
    BY DEF TypeOK
  <2>3. \A i \in 1..Len(queue[s]) : queue[s][i] \in Int
    BY <2>2
  <2> QED BY <1>1, <1>2, <2>1, <2>2, <2>3 DEF Queued
<1>5. HoldersOf(b) = {}
  BY <1>2, <1>4 DEF HoldersOf, Holds, Owners
<1>6. HoldersOf(b)' = {Discovery}
  BY <1>2, <1>3, <1>4 DEF HoldersOf, Holds, Owners
<1>7. \A c \in Buf \ {b} : HoldersOf(c)' = HoldersOf(c)
  BY <1>2, <1>3 DEF HoldersOf, Holds, Owners
<1>8. TypeOK'
  <2>1. byteLen' \in [Buf -> Nat]
    BY <1>1 DEF NewBuffer, TypeOK
  <2>2. total' \in 0..MaxBuffers /\ held' \in {NoBuf} \cup Buf
    BY <1>2
  <2>3. useCount' \in [Buf -> Nat]
    BY <1>2 DEF TypeOK
  <2>4. inMem' \in Nat /\ toOffer' \subseteq Services /\ room' \subseteq toOffer'
    BY <1>2
  <2> QED BY <1>2, <2>1, <2>2, <2>3, <2>4 DEF TypeOK
<1>9. OfferShape'
  BY <1>2 DEF OfferShape, NewBuffer, recordVars
<1>10. QueueInOrder'
  <2> SUFFICES ASSUME NEW s \in Services
               PROVE /\ \A i, j \in 1..Len(queue[s]) : i < j => queue[s][i] < queue[s][j]
                     /\ \A i \in 1..Len(queue[s]) : cur[s] < queue[s][i] /\ queue[s][i] <= b
                     /\ cur[s] <= b
                     /\ \A c \in Queued(s) \cup {cur[s]} : c < b
    BY <1>2, <1>3 DEF QueueInOrder
  <2>1. cur[s] \in {NoBuf} \cup Buf /\ queue[s] \in Seq(Buf)
    BY DEF TypeOK
  <2>2. \A i \in 1..Len(queue[s]) : queue[s][i] \in Queued(s) /\ queue[s][i] \in Int
    BY <2>1 DEF Queued
  <2> QED BY <2>1, <2>2, <1>4 DEF QueueInOrder
<1>11. RefCountExact'
  <2> SUFFICES ASSUME NEW c \in Buf PROVE useCount'[c] = Cardinality(HoldersOf(c)')
    BY DEF RefCountExact
  <2>1. CASE c = b
    BY <2>1, <1>2, <1>6, FS_Singleton DEF TypeOK
  <2>2. CASE c # b
    BY <2>2, <1>2, <1>7 DEF TypeOK, RefCountExact
  <2> QED BY <2>1, <2>2
<1>12. InMemExact'
  <2>1. b \notin InMemory /\ InMemory' = InMemory \cup {b}
    BY <1>5, <1>6, <1>7 DEF InMemory
  <2>2. Cardinality(InMemory \cup {b}) = Cardinality(InMemory) + 1
    BY <2>1, Finiteness, FS_AddElement
  <2> QED BY <2>1, <2>2, <1>2 DEF InMemExact
<1>13. Throttled'
  BY <1>2 DEF Throttled, NewBuffer, FlowOpen
<1> QED BY <1>8, <1>9, <1>10, <1>11, <1>12, <1>13

\* Finding room, or being refused, moves no buffer.
LEMMA OfferAnswerKeepsInv ==
  ASSUME PipelineInv, NEW s \in Services, OfferRoom(s) \/ OfferRefused(s)
  PROVE  PipelineInv'
<1> USE DEF PipelineInv
<1>1. /\ inMem' = inMem /\ total' = total /\ useCount' = useCount /\ held' = held
      /\ queue' = queue /\ cur' = cur /\ byteLen' = byteLen /\ cassUp' = cassUp
      /\ processing' = processing /\ numRecords' = numRecords /\ nextRecord' = nextRecord
      /\ toOffer' \subseteq toOffer /\ room' \subseteq toOffer'
  BY DEF OfferRoom, OfferRefused, recordVars, TypeOK
<1>2. \A r : Queued(r)' = Queued(r)
  BY <1>1 DEF Queued
<1>3. \A c \in Buf : HoldersOf(c)' = HoldersOf(c)
  BY <1>1, <1>2 DEF HoldersOf, Holds
<1>4. TypeOK'
  BY <1>1 DEF TypeOK
<1>5. OfferShape' /\ Throttled'
  BY <1>1 DEF OfferShape, Throttled
<1>6. QueueInOrder'
  BY <1>1, <1>2 DEF QueueInOrder
<1> QED BY <1>1, <1>3, <1>4, <1>5, <1>6, SameHoldersKeepCounts

\* Accepting a buffer adds one owner, which did not hold it yet.
LEMMA OfferPushKeepsInv ==
  ASSUME PipelineInv, NEW s \in Services, OfferPush(s)
  PROVE  PipelineInv'
<1> USE DEF PipelineInv
<1>1. s \in toOffer /\ held \in Buf
  BY DEF OfferPush, TypeOK, OfferShape
<1>2. PICK b \in Buf : b = held /\ b = total
  BY <1>1 DEF OfferShape
<1>3. /\ queue' = [queue EXCEPT ![s] = Append(@, b)]
      /\ useCount' = [useCount EXCEPT ![b] = @ + 1]
      /\ room' = {} /\ toOffer' = toOffer \ {s}
      /\ inMem' = inMem /\ total' = total /\ held' = held /\ cur' = cur
      /\ byteLen' = byteLen /\ cassUp' = cassUp
      /\ processing' = processing /\ numRecords' = numRecords /\ nextRecord' = nextRecord
  BY <1>2 DEF OfferPush, recordVars
<1>4. queue \in [Services -> Seq(Buf)]
  BY DEF TypeOK
<1>5. /\ queue'[s] = Append(queue[s], b)
      /\ \A r \in Services \ {s} : queue'[r] = queue[r]
      /\ queue' \in [Services -> Seq(Buf)]
  BY <1>3, <1>4, AppendFacts
<1>6. queue[s] \in Seq(Buf) /\ Len(queue[s]) \in Nat /\ Len(queue'[s]) = Len(queue[s]) + 1
  BY <1>4, <1>5, AppendFacts
<1>7. \A i \in 1..Len(queue'[s]) :
         queue'[s][i] = IF i <= Len(queue[s]) THEN queue[s][i] ELSE b
  <2> TAKE i \in 1..Len(queue'[s])
  <2>1. i \in 1..Len(queue[s]) \/ i = Len(queue[s]) + 1
    BY <1>6
  <2> QED BY <2>1, <1>5, <1>6, AppendFacts
<1>8. Queued(s)' = Queued(s) \cup {b}
  <2>1. Len(queue'[s]) \in 1..Len(queue'[s]) /\ 1..Len(queue[s]) \subseteq 1..Len(queue'[s])
    BY <1>6
  <2>2. ASSUME NEW x \in Queued(s)' PROVE x \in Queued(s) \cup {b}
    <3>1. PICK i \in 1..Len(queue'[s]) : x = queue'[s][i]
      BY <2>2 DEF Queued
    <3>2. CASE i <= Len(queue[s])
      <4>1. i \in 1..Len(queue[s])
        BY <3>2, <1>6
      <4> QED BY <4>1, <3>1, <3>2, <1>7 DEF Queued
    <3>3. CASE ~(i <= Len(queue[s]))
      BY <3>1, <3>3, <1>7
    <3> QED BY <3>2, <3>3
  <2>3. ASSUME NEW x \in Queued(s) PROVE x \in Queued(s)'
    <3>1. PICK i \in 1..Len(queue[s]) : x = queue[s][i]
      BY <2>3 DEF Queued
    <3>2. i \in 1..Len(queue'[s]) /\ queue'[s][i] = x
      BY <3>1, <2>1, <1>6, <1>7
    <3> QED BY <3>2 DEF Queued
  <2>4. b \in Queued(s)'
    <3>1. ~(Len(queue'[s]) <= Len(queue[s]))
      BY <1>6
    <3>2. queue'[s][Len(queue'[s])] = b
      BY <3>1, <2>1, <1>7
    <3> QED BY <3>2, <2>1 DEF Queued
  <2> QED BY <2>2, <2>3, <2>4
<1>9. \A r \in Services \ {s} : Queued(r)' = Queued(r)
  BY <1>5 DEF Queued
<1>10. cur[s] < b /\ \A i \in 1..Len(queue[s]) : queue[s][i] < b
  BY <1>1, <1>2 DEF QueueInOrder, Queued
<1>11. s \notin HoldersOf(b) /\ s \in Owners /\ s # Discovery
  <2>1. b \notin Queued(s) /\ cur[s] # b
    BY <1>10 DEF Queued
  <2> QED BY <2>1 DEF HoldersOf, Holds, Owners
<1>12. ASSUME NEW o \in Owners, NEW c \in Buf
       PROVE  Holds(o, c)' <=> (Holds(o, c) \/ (o = s /\ c = b))
  BY <1>3, <1>8, <1>9, <1>11 DEF Holds, Owners
<1>13. HoldersOf(b)' = HoldersOf(b) \cup {s}
  BY <1>11, <1>12 DEF HoldersOf
<1>14. \A c \in Buf \ {b} : HoldersOf(c)' = HoldersOf(c)
  BY <1>12 DEF HoldersOf
<1>15. TypeOK'
  <2>1. useCount' \in [Buf -> Nat]
    <3>1. useCount \in [Buf -> Nat]
      BY DEF TypeOK
    <3> HIDE DEF Buf
    <3>2. useCount' = [useCount EXCEPT ![b] = @ + 1]
      BY <1>3
    <3>3. useCount[b] + 1 \in Nat
      BY <3>1
    <3> QED BY <3>1, <3>2, <3>3
  <2> QED BY <1>3, <1>5, <2>1 DEF TypeOK
<1>16. OfferShape' /\ Throttled'
  BY <1>3 DEF OfferShape, Throttled
<1>17. QueueInOrder'
  <2>1. ASSUME NEW r \in Services \ {s}
        PROVE  /\ \A i, j \in 1..Len(queue[r]) : i < j => queue[r][i] < queue[r][j]
               /\ \A i \in 1..Len(queue[r]) : cur[r] < queue[r][i] /\ queue[r][i] <= total
               /\ cur[r] <= total
               /\ r \in toOffer => \A c \in Queued(r) \cup {cur[r]} : c < held
    BY DEF QueueInOrder
  <2>2. \A i, j \in 1..Len(queue'[s]) : i < j => queue'[s][i] < queue'[s][j]
    <3> SUFFICES ASSUME NEW i \in 1..Len(queue'[s]), NEW j \in 1..Len(queue'[s]), i < j
                 PROVE  queue'[s][i] < queue'[s][j]
      OBVIOUS
    <3>1. i \in 1..Len(queue[s]) /\ queue'[s][i] = queue[s][i]
      BY <1>6, <1>7
    <3>2. CASE j \in 1..Len(queue[s])
      <4>1. queue'[s][j] = queue[s][j]
        BY <3>2, <1>6, <1>7
      <4>2. queue[s][i] < queue[s][j]
        BY <3>1, <3>2 DEF QueueInOrder
      <4> QED BY <4>1, <4>2, <3>1
    <3>3. CASE j = Len(queue[s]) + 1
      <4>1. ~(j <= Len(queue[s]))
        BY <3>3, <1>6
      <4>2. queue'[s][j] = b
        BY <4>1, <1>7
      <4> QED BY <4>2, <3>1, <1>10
    <3> QED BY <1>6, <3>2, <3>3
  <2>3. \A i \in 1..Len(queue'[s]) : cur[s] < queue'[s][i] /\ queue'[s][i] <= total
    <3> SUFFICES ASSUME NEW i \in 1..Len(queue'[s])
                 PROVE  cur[s] < queue'[s][i] /\ queue'[s][i] <= total
      OBVIOUS
    <3>1. CASE i \in 1..Len(queue[s])
      <4>1. cur[s] < queue[s][i] /\ queue[s][i] <= total
        BY <3>1 DEF QueueInOrder
      <4>2. queue'[s][i] = queue[s][i]
        BY <3>1, <1>6, <1>7
      <4> QED BY <4>1, <4>2
    <3>2. CASE i = Len(queue[s]) + 1
      <4>1. ~(i <= Len(queue[s]))
        BY <3>2, <1>6
      <4>2. queue'[s][i] = b
        BY <4>1, <1>7
      <4>3. cur[s] < b
        BY <1>10
      <4>4. b <= total
        BY <1>2
      <4> QED BY <4>2, <4>3, <4>4
    <3> QED BY <1>6, <3>1, <3>2
  <2>4. cur[s] <= total
    BY DEF QueueInOrder
  <2>5. s \notin toOffer' /\ \A r \in Services \ {s} : r \in toOffer' <=> r \in toOffer
    BY <1>3
  <2> QED BY <1>3, <1>5, <1>9, <2>1, <2>2, <2>3, <2>4, <2>5 DEF QueueInOrder
<1>18. RefCountExact'
  <2> SUFFICES ASSUME NEW c \in Buf PROVE useCount'[c] = Cardinality(HoldersOf(c)')
    BY DEF RefCountExact
  <2>1. CASE c = b
    <3>1. Cardinality(HoldersOf(b) \cup {s}) = Cardinality(HoldersOf(b)) + 1
      BY <1>11, Finiteness, FS_AddElement
    <3> QED BY <2>1, <3>1, <1>3, <1>13 DEF TypeOK, RefCountExact
  <2>2. CASE c # b
    BY <2>2, <1>3, <1>14 DEF TypeOK, RefCountExact
  <2> QED BY <2>1, <2>2
<1>19. InMemExact'
  <2>1. Discovery \in HoldersOf(b)
    BY <1>2 DEF HoldersOf, Holds, Owners
  <2>2. InMemory' = InMemory
    BY <2>1, <1>13, <1>14 DEF InMemory
  <2> QED BY <2>2, <1>3 DEF InMemExact
<1> QED BY <1>15, <1>16, <1>17, <1>18, <1>19

\* Discovery gives up its own reference once every service has answered.
LEMMA DropOwnRefKeepsInv ==
  ASSUME PipelineInv, DropOwnRef
  PROVE  PipelineInv'
<1> USE DEF PipelineInv
<1>1. PICK b \in Buf : b = held
  BY DEF DropOwnRef, TypeOK
<1>2. /\ DropRef(b) /\ held' = NoBuf /\ toOffer = {} /\ toOffer' = {}
      /\ total' = total /\ byteLen' = byteLen /\ room' = room /\ queue' = queue
      /\ cur' = cur /\ cassUp' = cassUp
      /\ processing' = processing /\ numRecords' = numRecords /\ nextRecord' = nextRecord
  BY <1>1 DEF DropOwnRef, recordVars
<1>3. \A r : Queued(r)' = Queued(r)
  BY <1>2 DEF Queued
<1>4. ASSUME NEW o \in Owners, NEW c \in Buf
      PROVE  Holds(o, c)' <=> (Holds(o, c) /\ ~(o = Discovery /\ c = b))
  BY <1>1, <1>2, <1>3 DEF Holds
<1>5. Discovery \in HoldersOf(b)
  BY <1>1 DEF HoldersOf, Holds, Owners
<1>6. HoldersOf(b)' = HoldersOf(b) \ {Discovery}
  BY <1>4 DEF HoldersOf
<1>7. \A c \in Buf \ {b} : HoldersOf(c)' = HoldersOf(c)
  BY <1>4 DEF HoldersOf
<1>8. /\ useCount' \in [Buf -> Nat] /\ inMem' \in Nat /\ inMem' <= inMem
      /\ RefCountExact' /\ InMemExact'
  <2> HIDE DEF Buf
  <2> QED BY <1>2, <1>5, <1>6, <1>7, DropKeepsCounts
<1>9. TypeOK'
  BY <1>2, <1>8 DEF TypeOK
<1>10. OfferShape'
  BY <1>2 DEF OfferShape
<1>11. QueueInOrder'
  BY <1>2, <1>3 DEF QueueInOrder
<1>12. Throttled'
  BY <1>8 DEF Throttled, TypeOK
<1> QED BY <1>8, <1>9, <1>10, <1>11, <1>12

\* Moving a buffer from the queue to dataBuf keeps its owner.
LEMMA TakeBufferKeepsInv ==
  ASSUME PipelineInv, NEW s \in Services, TakeBuffer(s)
  PROVE  PipelineInv'
<1> USE DEF PipelineInv
<1>1. /\ cur[s] = NoBuf /\ queue[s] # <<>>
      /\ cur' = [cur EXCEPT ![s] = Head(queue[s])]
      /\ queue' = [queue EXCEPT ![s] = Tail(@)]
      /\ inMem' = inMem /\ total' = total /\ useCount' = useCount /\ held' = held
      /\ byteLen' = byteLen /\ cassUp' = cassUp /\ toOffer' = toOffer /\ room' = room
      /\ processing' = processing /\ numRecords' = numRecords /\ nextRecord' = nextRecord
  BY DEF TakeBuffer, discoveryVars, recordVars
<1>2. queue[s] \in Seq(Buf) /\ cur \in [Services -> {NoBuf} \cup Buf]
  BY DEF TypeOK
<1>q. PICK q \in Seq(Buf) : q = queue[s]
  BY <1>2
<1>3. /\ Head(q) \in Buf /\ Head(q) = q[1] /\ Tail(q) \in Seq(Buf)
      /\ Len(q) \in Nat /\ Len(q) > 0 /\ Len(Tail(q)) = Len(q) - 1
      /\ \A i \in 1..Len(Tail(q)) : Tail(q)[i] = q[i + 1]
  BY <1>1, <1>q, TailFacts
<1>4. /\ queue'[s] = Tail(q) /\ cur'[s] = q[1]
      /\ \A r \in Services \ {s} : queue'[r] = queue[r] /\ cur'[r] = cur[r]
      /\ queue' \in [Services -> Seq(Buf)] /\ cur' \in [Services -> {NoBuf} \cup Buf]
  BY <1>1, <1>2, <1>q, <1>3 DEF TypeOK
<1>5. \A r \in Services \ {s} : Queued(r)' = Queued(r)
  <2> TAKE r \in Services \ {s}
  <2>1. queue'[r] = queue[r]
    BY <1>4
  <2> QED BY <2>1 DEF Queued
<1>6. Queued(s) = Queued(s)' \cup {q[1]}
  <2>1. 1 \in 1..Len(q) /\ q[1] \in Queued(s)
    BY <1>3, <1>q DEF Queued
  <2>a. Queued(s)' = {Tail(q)[i] : i \in 1..Len(Tail(q))}
    BY <1>4 DEF Queued
  <2>b. Queued(s) = {q[i] : i \in 1..Len(q)}
    BY <1>q DEF Queued
  <2>2. ASSUME NEW x \in Queued(s)' PROVE x \in Queued(s)
    <3>1. PICK i \in 1..Len(Tail(q)) : x = Tail(q)[i]
      BY <2>2, <2>a
    <3>2. i + 1 \in 1..Len(q) /\ x = q[i + 1]
      BY <3>1, <1>3
    <3> QED BY <3>2, <2>b
  <2>3. ASSUME NEW x \in Queued(s), x # q[1] PROVE x \in Queued(s)'
    <3>1. PICK i \in 1..Len(q) : x = q[i]
      BY <2>3, <2>b
    <3>2. i # 1 /\ i - 1 \in 1..Len(Tail(q)) /\ (i - 1) + 1 = i
      BY <3>1, <2>3, <1>3
    <3>3. x = Tail(q)[i - 1]
      BY <3>1, <3>2, <1>3
    <3> QED BY <3>2, <3>3, <2>a
  <2> QED BY <2>1, <2>2, <2>3
<1>7. ASSUME NEW o \in Owners, NEW c \in Buf PROVE Holds(o, c)' <=> Holds(o, c)
  <2>1. CASE o = s
    <3>1. cur[s] # c
      BY <1>1
    <3> QED BY <2>1, <3>1, <1>4, <1>6 DEF Holds
  <2>2. CASE o # s
    BY <2>2, <1>1, <1>4, <1>5 DEF Holds, Owners
  <2> QED BY <2>1, <2>2
<1>8. \A c \in Buf : HoldersOf(c)' = HoldersOf(c)
  BY <1>7 DEF HoldersOf
<1>9. TypeOK'
  BY <1>1, <1>4 DEF TypeOK
<1>10. OfferShape' /\ Throttled'
  <2>1. cur'[s] # NoBuf
    BY <1>3, <1>4
  <2> QED BY <1>1, <1>4, <2>1 DEF OfferShape, Throttled
<1>11. QueueInOrder'
  <2>1. ASSUME NEW r \in Services \ {s}
        PROVE  /\ \A i, j \in 1..Len(queue[r]) : i < j => queue[r][i] < queue[r][j]
               /\ \A i \in 1..Len(queue[r]) : cur[r] < queue[r][i] /\ queue[r][i] <= total
               /\ cur[r] <= total
               /\ r \in toOffer => \A c \in Queued(r) \cup {cur[r]} : c < held
    BY DEF QueueInOrder
  <2>2. \A i \in 1..Len(Tail(q)) : i + 1 \in 1..Len(q) /\ 1 \in 1..Len(q)
    BY <1>3
  <2>3. \A i, j \in 1..Len(q) : i < j => q[i] < q[j]
    BY <1>q DEF QueueInOrder
  <2>4. \A i, j \in 1..Len(Tail(q)) : i < j => Tail(q)[i] < Tail(q)[j]
    BY <2>2, <2>3, <1>3
  <2>5. \A i \in 1..Len(Tail(q)) : q[1] < Tail(q)[i] /\ Tail(q)[i] <= total
    <3> SUFFICES ASSUME NEW i \in 1..Len(Tail(q))
                 PROVE  q[1] < q[i + 1] /\ q[i + 1] <= total
      BY <1>3
    <3>1. q[1] < q[i + 1]
      BY <2>2, <2>3
    <3>2. q[i + 1] <= total
      BY <2>2, <1>q DEF QueueInOrder
    <3> QED BY <3>1, <3>2
  <2>6. 1 \in 1..Len(q) /\ q[1] <= total
    BY <1>3, <1>q DEF QueueInOrder
  <2>7. s \in toOffer => \A c \in Queued(s) : c < held
    BY DEF QueueInOrder
  <2>8. s \in toOffer => \A c \in Queued(s)' \cup {q[1]} : c < held
    BY <2>7, <1>6
  <2> QED BY <1>1, <1>4, <1>5, <2>1, <2>4, <2>5, <2>6, <2>8, SMTT(60) DEF QueueInOrder
<1> QED BY <1>1, <1>8, <1>9, <1>10, <1>11, SameHoldersKeepCounts

\* Abandoning, completing or dropping a buffer for want of memory gives up one reference.
LEMMA ReleaseKeepsInv ==
  ASSUME PipelineInv, NEW s \in Services,
         Abandon(s) \/ OutOfMemory(s) \/ CompleteBuffer(s)
  PROVE  PipelineInv'
<1> USE DEF PipelineInv
<1>1. cur[s] # NoBuf
  BY DEF Abandon, OutOfMemory, CompleteBuffer, InRecord, OfferShape
<1>2. PICK b \in Buf : cur[s] = b
  BY <1>1 DEF TypeOK
<1>3. /\ DropRef(b)
      /\ cur' = [cur EXCEPT ![s] = NoBuf]
      /\ total' = total /\ byteLen' = byteLen /\ room' = room /\ queue' = queue
      /\ held' = held /\ toOffer' = toOffer /\ cassUp' = cassUp
  BY <1>2 DEF Abandon, OutOfMemory, CompleteBuffer, discoveryVars
<1>4. /\ useCount' \in [Buf -> Nat] /\ inMem' \in Nat /\ inMem' <= inMem
      /\ RefCountExact' /\ InMemExact'
  <2> HIDE DEF Buf
  <2> QED BY <1>2, <1>3, ReleaseCurrent
<1>5. /\ numRecords' \in [Services -> Int] /\ nextRecord' \in [Services -> Nat]
      /\ processing' \in [Services -> BOOLEAN]
  <2>1. CASE Abandon(s)
    BY <2>1, SMTT(60) DEF Abandon, TypeOK
  <2>2. CASE OutOfMemory(s)
    BY <2>2 DEF OutOfMemory, TypeOK
  <2>3. CASE CompleteBuffer(s)
    BY <2>3 DEF CompleteBuffer, TypeOK
  <2> QED BY <2>1, <2>2, <2>3
<1>6. /\ cur'[s] = NoBuf /\ \A r \in Services \ {s} : cur'[r] = cur[r]
      /\ cur' \in [Services -> {NoBuf} \cup Buf]
  <2>1. cur \in [Services -> {NoBuf} \cup Buf]
    BY DEF TypeOK
  <2>2. cur' = [cur EXCEPT ![s] = NoBuf]
    BY <1>3
  <2> HIDE DEF Buf, NoBuf, PipelineInv
  <2> QED BY <2>1, <2>2
<1>7. ~processing'[s] /\ \A r \in Services \ {s} : processing'[r] = processing[r]
  BY DEF Abandon, OutOfMemory, CompleteBuffer, TypeOK
<1>8. TypeOK'
  BY <1>3, <1>4, <1>5, <1>6 DEF TypeOK
<1>9. OfferShape' /\ Throttled'
  BY <1>3, <1>4, <1>6, <1>7, SMTT(60) DEF OfferShape, Throttled, TypeOK
<1>10. QueueInOrder'
  <2>1. \A r : Queued(r)' = Queued(r)
    BY <1>3 DEF Queued
  <2>2. ASSUME NEW r \in Services \ {s}
        PROVE  /\ \A i, j \in 1..Len(queue[r]) : i < j => queue[r][i] < queue[r][j]
               /\ \A i \in 1..Len(queue[r]) : cur[r] < queue[r][i] /\ queue[r][i] <= total
               /\ cur[r] <= total
               /\ r \in toOffer => \A c \in Queued(r) \cup {cur[r]} : c < held
    BY DEF QueueInOrder
  <2>3. \A i, j \in 1..Len(queue[s]) : i < j => queue[s][i] < queue[s][j]
    BY DEF QueueInOrder
  <2>4. queue[s] \in Seq(Buf) /\ total \in Nat /\ held \in {NoBuf} \cup Buf
    BY DEF TypeOK
  <2>5. \A i \in 1..Len(queue[s]) : NoBuf < queue[s][i] /\ queue[s][i] <= total
    BY <2>4 DEF QueueInOrder
  <2>6. s \in toOffer => \A c \in Queued(s) \cup {NoBuf} : c < held
    <3> SUFFICES ASSUME s \in toOffer PROVE \A c \in Queued(s) \cup {NoBuf} : c < held
      OBVIOUS
    <3>1. held # NoBuf
      BY DEF OfferShape
    <3> QED BY <3>1, <2>4 DEF QueueInOrder
  <2> QED BY <1>3, <1>6, <2>1, <2>2, <2>3, <2>4, <2>5, <2>6 DEF QueueInOrder
<1> QED BY <1>4, <1>8, <1>9, <1>10

\* Working through a buffer touches only the thread's own record counters.
LEMMA RecordStepKeepsInv ==
  ASSUME PipelineInv, NEW s \in Services, BeginBuffer(s) \/ ProcessRecord(s)
  PROVE  PipelineInv'
<1> USE DEF PipelineInv
<1>1. /\ inMem' = inMem /\ total' = total /\ useCount' = useCount /\ held' = held
      /\ queue' = queue /\ cur' = cur /\ byteLen' = byteLen /\ cassUp' = cassUp
      /\ toOffer' = toOffer /\ room' = room
  BY DEF BeginBuffer, ProcessRecord, discoveryVars
<1>2. \A r : Queued(r)' = Queued(r)
  BY <1>1 DEF Queued
<1>3. \A c \in Buf : HoldersOf(c)' = HoldersOf(c)
  BY <1>1, <1>2 DEF HoldersOf, Holds
<1>4. /\ numRecords' \in [Services -> Int] /\ nextRecord' \in [Services -> Nat]
      /\ processing' \in [Services -> BOOLEAN]
      /\ \A r \in Services : processing'[r] => cur[r] # NoBuf
  <2>1. CASE BeginBuffer(s)
    <3>1. byteLen[cur[s]] \in Nat
      BY <2>1 DEF BeginBuffer, TypeOK
    <3>2. Records(s, byteLen[cur[s]]) \in Int
      BY <3>1 DEF Records, FtpRecords, C37Records
    <3>3. /\ numRecords' = [numRecords EXCEPT ![s] = Records(s, byteLen[cur[s]])]
          /\ nextRecord' = [nextRecord EXCEPT ![s] = 0]
          /\ processing' = [processing EXCEPT ![s] = TRUE]
          /\ cur[s] # NoBuf
      BY <2>1 DEF BeginBuffer
    <3>4. /\ numRecords \in [Services -> Int] /\ nextRecord \in [Services -> Nat]
          /\ processing \in [Services -> BOOLEAN]
      BY DEF TypeOK
    <3>5. \A r \in Services : processing[r] => cur[r] # NoBuf
      BY DEF OfferShape
    <3> HIDE DEF PipelineInv
    <3>6. numRecords' \in [Services -> Int] /\ nextRecord' \in [Services -> Nat]
      BY <3>2, <3>3, <3>4
    <3>7. processing' \in [Services -> BOOLEAN]
      BY <3>3, <3>4
    <3>8. \A r \in Services : processing'[r] => cur[r] # NoBuf
      BY <3>3, <3>4, <3>5
    <3> QED BY <3>6, <3>7, <3>8
  <2>2. CASE ProcessRecord(s)
    BY <2>2, SMTT(60) DEF ProcessRecord, TypeOK, OfferShape
  <2> QED BY <2>1, <2>2
<1>5. TypeOK' /\ OfferShape' /\ Throttled'
  BY <1>1, <1>4 DEF TypeOK, OfferShape, Throttled
<1>6. QueueInOrder'
  BY <1>1, <1>2 DEF QueueInOrder
<1> QED BY <1>1, <1>3, <1>5, <1>6, SameHoldersKeepCounts
-----------------------------------------------------------------------------
\* The inductive invariant

\* Before anything is shared both counters are zero and nothing is held.
LEMMA InitKeepsInv == Init => PipelineInv
<1> SUFFICES ASSUME Init PROVE PipelineInv
  OBVIOUS
<1> USE DEF Init
<1>1. TypeOK /\ OfferShape /\ Throttled
  <2>1. <<>> \in Seq(Buf)
    OBVIOUS
  <2>2. queue \in [Services -> Seq(Buf)]
    BY <2>1
  <2>3. TypeOK
    BY <2>2 DEF TypeOK
  <2> QED BY <2>3 DEF OfferShape, Throttled
<1>2. \A s \in Services : Queued(s) = {} /\ Len(queue[s]) = 0
  BY DEF Queued
<1>3. QueueInOrder
  BY <1>2 DEF QueueInOrder
<1>4. \A b \in Buf : HoldersOf(b) = {}
  BY <1>2 DEF HoldersOf, Holds, Owners
<1>5. RefCountExact
  BY <1>4, FS_EmptySet DEF RefCountExact
<1>6. InMemExact
  <2>1. InMemory = {}
    BY <1>4 DEF InMemory
  <2> QED BY <2>1, FS_EmptySet DEF InMemExact
<1> QED BY <1>1, <1>3, <1>5, <1>6 DEF PipelineInv

\* Every step of either side of the data plane keeps the invariant.
LEMMA NextKeepsInv == PipelineInv /\ [Next]_vars => PipelineInv'
<1> SUFFICES ASSUME PipelineInv, [Next]_vars PROVE PipelineInv'
  OBVIOUS
<1>1. CASE UNCHANGED vars
  <2>1. \A r : Queued(r)' = Queued(r)
    BY <1>1 DEF vars, Queued
  <2>2. \A c \in Buf : HoldersOf(c)' = HoldersOf(c)
    BY <1>1, <2>1 DEF vars, HoldersOf, Holds
  <2>3. TypeOK' /\ OfferShape' /\ Throttled'
    BY <1>1 DEF PipelineInv, vars, TypeOK, OfferShape, Throttled
  <2>4. QueueInOrder'
    BY <1>1, <2>1 DEF PipelineInv, vars, QueueInOrder
  <2>5. inMem' = inMem /\ useCount' = useCount
    BY <1>1 DEF vars
  <2> QED BY <2>2, <2>3, <2>4, <2>5, SameHoldersKeepCounts DEF PipelineInv
<1>2. CASE NewBuffer
  BY <1>2, NewBufferKeepsInv
<1>3. ASSUME NEW s \in Services, OfferRoom(s) \/ OfferRefused(s) PROVE PipelineInv'
  BY <1>3, OfferAnswerKeepsInv
<1>4. ASSUME NEW s \in Services, OfferPush(s) PROVE PipelineInv'
  BY <1>4, OfferPushKeepsInv
<1>5. CASE DropOwnRef
  BY <1>5, DropOwnRefKeepsInv
<1>6. ASSUME NEW s \in Services, TakeBuffer(s) PROVE PipelineInv'
  BY <1>6, TakeBufferKeepsInv
<1>7. ASSUME NEW s \in Services, Abandon(s) \/ OutOfMemory(s) \/ CompleteBuffer(s)
      PROVE  PipelineInv'
  BY <1>7, ReleaseKeepsInv
<1>8. ASSUME NEW s \in Services, BeginBuffer(s) \/ ProcessRecord(s) PROVE PipelineInv'
  BY <1>8, RecordStepKeepsInv
<1>9. ASSUME NEW s \in Services, RepeatRecord(s) \/ SleepIdle(s) PROVE UNCHANGED vars
  BY <1>9 DEF RepeatRecord, SleepIdle
<1> QED BY <1>1, <1>2, <1>3, <1>4, <1>5, <1>6, <1>7, <1>8, <1>9 DEF Next, Discover, Serve

\* PipelineInv holds in every reachable state of the data plane of either gateway: the
\* counters are exact, the queues are in order and the ftp throttle is respected.
THEOREM PipelineInvariant == Spec => []PipelineInv
  BY InitKeepsInv, NextKeepsInv, PTL DEF Spec

\* The type invariant: no counter of the data plane ever drops below zero.
THEOREM TypeCorrect == Spec => []TypeOK
<1>1. PipelineInv => TypeOK
  BY DEF PipelineInv
<1> QED BY <1>1, PipelineInvariant, PTL

\* The shared pointers of the data plane neither leak nor dangle: the count behind each
\* one is the number of its owners.
THEOREM ReferencesExact == Spec => []RefCountExact
<1>1. PipelineInv => RefCountExact
  BY DEF PipelineInv
<1> QED BY <1>1, PipelineInvariant, PTL

\* sharedInMemDataBufferCnt counts exactly the buffers that are still reachable.
THEOREM CounterExact == Spec => []InMemExact
<1>1. PipelineInv => InMemExact
  BY DEF PipelineInv
<1> QED BY <1>1, PipelineInvariant, PTL

\* The throttle of the ftp gateway bounds the buffers in memory.
THEOREM ThrottleBoundsMemory == Spec => []MemoryBounded
<1>1. PipelineInv => MemoryBounded
  BY DEF PipelineInv, MemoryBounded, InMemExact, Throttled
<1> QED BY <1>1, PipelineInvariant, PTL

\* A queue never holds more buffers than are in memory besides the one being offered.
LEMMA QueueFitsMemory ==
  ASSUME PipelineInv, NEW s \in Services, s \in toOffer
  PROVE  Len(queue[s]) < Cardinality(InMemory)
<1> USE DEF PipelineInv
<1>1. PICK q \in Seq(Buf) : q = queue[s]
  BY DEF TypeOK
<1>2. PICK n \in Nat : n = Len(q)
  BY <1>1
<1>3. held \in Buf /\ held \in InMemory
  <2>1. held \in Buf
    BY DEF TypeOK, OfferShape
  <2>2. Discovery \in HoldersOf(held)
    BY DEF HoldersOf, Holds, Owners
  <2> QED BY <2>1, <2>2 DEF InMemory
<1>4. \A i \in 1..n : q[i] \in Buf /\ q[i] \in InMemory /\ q[i] # held
  <2> SUFFICES ASSUME NEW i \in 1..n PROVE q[i] \in Buf /\ q[i] \in InMemory /\ q[i] # held
    OBVIOUS
  <2>1. q[i] \in Buf /\ q[i] \in Queued(s)
    BY <1>1, <1>2 DEF Queued
  <2>2. s \in HoldersOf(q[i])
    BY <2>1 DEF HoldersOf, Holds, Owners
  <2>3. q[i] # held
    <3>1. q[i] < held
      BY <2>1 DEF QueueInOrder
    <3> QED BY <3>1, <2>1, <1>3
  <2> QED BY <2>1, <2>2, <2>3 DEF InMemory
<1>5. \A i, j \in 1..n : i # j => q[i] # q[j]
  <2> SUFFICES ASSUME NEW i \in 1..n, NEW j \in 1..n, i < j PROVE q[i] # q[j]
    OBVIOUS
  <2>1. q[i] < q[j]
    BY <1>1, <1>2 DEF QueueInOrder
  <2> QED BY <2>1, <1>4
<1> DEFINE f == [i \in 1..n |-> q[i]]
<1>6. f \in Injection(1..n, InMemory \ {held})
  BY <1>4, <1>5 DEF Injection, IsInjective
<1>7. IsFiniteSet(InMemory) /\ IsFiniteSet(InMemory \ {held})
      /\ Cardinality(InMemory \ {held}) = Cardinality(InMemory) - 1
  BY <1>3, Finiteness, FS_RemoveElement
<1>8. IsFiniteSet(1..n) /\ Cardinality(1..n) = n
  <2>1. Cardinality(1..n) = IF 1 > n THEN 0 ELSE n - 1 + 1
    BY FS_Interval
  <2> QED BY <2>1, FS_Interval
<1>9. Cardinality(1..n) <= Cardinality(InMemory \ {held})
  <2> HIDE DEF f
  <2> QED BY <1>6, <1>7, FS_Injection
<1>10. Cardinality(InMemory) \in Nat
  BY <1>7, FS_CardinalityType
<1> QED BY <1>1, <1>2, <1>7, <1>8, <1>9, <1>10

\* With exact counters and the throttle respected there is room in every queue.
LEMMA RoomInQueues == PipelineInv => NoOfferRefused
<1> SUFFICES ASSUME PipelineInv, Variant = "ftp", NEW s \in toOffer
             PROVE  Len(queue[s]) < QueueLen
  BY DEF NoOfferRefused
<1>1. s \in Services /\ Len(queue[s]) \in Nat /\ inMem \in Nat
  BY DEF PipelineInv, TypeOK
<1>2. Len(queue[s]) < inMem
  BY <1>1, QueueFitsMemory DEF PipelineInv, InMemExact
<1>3. inMem <= MaxOutstanding + 1
  BY DEF PipelineInv, Throttled
<1> QED BY <1>1, <1>2, <1>3

\* In the ftp gateway dataBufferOffer never finds a queue full, because the throttle is
\* set below the length of the queues: ignoring its answer loses nothing.
THEOREM OffersAreAccepted == Spec => []NoOfferRefused
  BY RoomInQueues, PipelineInvariant, PTL

\* The queues of all services stay in the order in which the buffers were shared.
THEOREM QueuesKeepOrder == Spec => []QueueInOrder
<1>1. PipelineInv => QueueInOrder
  BY DEF PipelineInv
<1> QED BY <1>1, PipelineInvariant, PTL

-----------------------------------------------------------------------------
\* The bound that the queues give

\* No queue is over its length, and one that was found not full still is not full when the
\* buffer is pushed: only its own thread changes it in between, and that takes buffers out.
QueuesFit ==
  \A s \in Services : /\ Len(queue[s]) <= QueueLen
                      /\ s \in room => Len(queue[s]) < QueueLen

\* Every step keeps the queues within their limits.
LEMMA NextKeepsQueuesFit ==
  ASSUME TypeOK, QueuesFit, [Next]_vars
  PROVE  QueuesFit'
<1>0. \A s \in Services : queue[s] \in Seq(Buf) /\ Len(queue[s]) \in Nat
  BY DEF TypeOK
<1>1. CASE queue' = queue /\ room' = room
  BY <1>1 DEF QueuesFit
<1>2. ASSUME NEW s \in Services, OfferRoom(s) PROVE QueuesFit'
  BY <1>0, <1>2 DEF OfferRoom, QueuesFit
<1>3. ASSUME NEW s \in Services, OfferPush(s) PROVE QueuesFit'
  <2>1. held \in Buf \/ held = NoBuf
    BY DEF TypeOK
  <2>2. Len(Append(queue[s], held)) = Len(queue[s]) + 1
    BY <1>0
  <2>3. \A r \in Services : queue'[r] = IF r = s THEN Append(queue[s], held) ELSE queue[r]
    BY <1>3 DEF OfferPush, TypeOK
  <2>4. room' = {} /\ Len(queue[s]) < QueueLen
    BY <1>3 DEF OfferPush, QueuesFit
  <2> SUFFICES ASSUME NEW r \in Services PROVE Len(queue'[r]) <= QueueLen
    BY <2>4 DEF QueuesFit
  <2>5. CASE r = s
    <3>1. Len(queue'[r]) = Len(queue[s]) + 1
      BY <2>2, <2>3, <2>5
    <3> QED BY <1>0, <2>4, <3>1
  <2>6. CASE r # s
    BY <2>3, <2>6 DEF QueuesFit
  <2> QED BY <2>5, <2>6
<1>4. ASSUME NEW s \in Services, TakeBuffer(s) PROVE QueuesFit'
  <2>1. Len(Tail(queue[s])) = Len(queue[s]) - 1
    BY <1>0, <1>4, TailFacts DEF TakeBuffer
  <2>2. \A r \in Services : queue'[r] = IF r = s THEN Tail(queue[s]) ELSE queue[r]
    BY <1>4 DEF TakeBuffer, TypeOK
  <2>3. room' = room
    BY <1>4 DEF TakeBuffer, discoveryVars
  <2> SUFFICES ASSUME NEW r \in Services
               PROVE  Len(queue'[r]) <= QueueLen /\ (r \in room' => Len(queue'[r]) < QueueLen)
    BY DEF QueuesFit
  <2>4. CASE r = s
    <3>1. Len(queue'[r]) = Len(queue[s]) - 1
      BY <2>1, <2>2, <2>4
    <3> QED BY <1>0, <2>3, <3>1 DEF QueuesFit
  <2>5. CASE r # s
    BY <2>2, <2>3, <2>5 DEF QueuesFit
  <2> QED BY <2>4, <2>5
<1>5. CASE NewBuffer \/ DropOwnRef \/ \E s \in Services : OfferRefused(s)
  <2>1. queue' = queue /\ room' = room
    BY <1>5 DEF NewBuffer, DropOwnRef, OfferRefused
  <2> QED BY <1>1, <2>1
<1>6. ASSUME NEW s \in Services,
             \/ Abandon(s) \/ BeginBuffer(s) \/ ProcessRecord(s) \/ RepeatRecord(s)
             \/ OutOfMemory(s) \/ CompleteBuffer(s) \/ SleepIdle(s)
      PROVE  QueuesFit'
  <2>1. queue' = queue /\ room' = room
    BY <1>6 DEF Abandon, BeginBuffer, ProcessRecord, RepeatRecord, OutOfMemory,
                CompleteBuffer, SleepIdle, discoveryVars, vars
  <2> QED BY <1>1, <2>1
<1>7. CASE UNCHANGED vars
  <2>1. queue' = queue /\ room' = room
    BY <1>7 DEF vars
  <2> QED BY <1>1, <2>1
<1> QED BY <1>2, <1>3, <1>4, <1>5, <1>6, <1>7 DEF Next, Discover, Serve

\* The buffers in memory are as many as the places that may hold one: discovery's own, and
\* for each service its queue and the buffer in progress.
LEMMA PlacesBoundMemory ==
  ASSUME TypeOK, QueuesFit
  PROVE  Cardinality(InMemory) <= Cardinality(Services) * (QueueLen + 1) + 1
<1> DEFINE Places == Services \X (0..QueueLen)
           At(p)  == IF p[2] = 0 THEN cur[p[1]] ELSE queue[p[1]][p[2]]
           Other  == InMemory \ {held}
           f      == [b \in Other |-> CHOOSE p \in Places : At(p) = b]
<1>1. \A b \in Other : \E p \in Places : At(p) = b
  <2> SUFFICES ASSUME NEW b \in Other PROVE \E p \in Places : At(p) = b
    OBVIOUS
  <2>1. PICK s \in Services : b \in Queued(s) \/ cur[s] = b
    BY DEF InMemory, HoldersOf, Holds, Owners
  <2>2. CASE cur[s] = b
    <3>1. <<s, 0>> \in Places /\ At(<<s, 0>>) = b
      BY <2>2
    <3> QED BY <3>1
  <2>3. CASE b \in Queued(s)
    <3>1. PICK i \in 1..Len(queue[s]) : b = queue[s][i]
      BY <2>3 DEF Queued
    <3>2. i \in 0..QueueLen /\ i # 0
      BY <3>1 DEF QueuesFit, TypeOK
    <3>3. <<s, i>> \in Places /\ At(<<s, i>>) = b
      BY <3>1, <3>2
    <3> QED BY <3>3
  <2> QED BY <2>1, <2>2, <2>3
<1>2. \A b \in Other : f[b] \in Places /\ At(f[b]) = b
  <2> HIDE DEF At, Places
  <2> QED BY <1>1
<1>3. f \in Injection(Other, Places)
  <2>1. f \in [Other -> Places]
    BY <1>2
  <2>2. \A a, b \in Other : f[a] = f[b] => a = b
    <3> HIDE DEF f, At
    <3> QED BY <1>2
  <2> HIDE DEF f
  <2> QED BY <2>1, <2>2 DEF Injection, IsInjective
<1>4. /\ IsFiniteSet(Places)
      /\ Cardinality(Places) = Cardinality(Services) * (QueueLen + 1)
  <2>1. IsFiniteSet(0..QueueLen) /\ Cardinality(0..QueueLen) = QueueLen + 1
    BY FS_Interval
  <2> QED BY <2>1, FS_Product
<1>5. Cardinality(Other) <= Cardinality(Places)
  <2> HIDE DEF f, Places, Other
  <2> QED BY <1>3, <1>4, FS_Injection
<1>6. /\ IsFiniteSet(InMemory)
      /\ Cardinality(InMemory) \in Nat
      /\ Cardinality(Other) \in {Cardinality(InMemory), Cardinality(InMemory) - 1}
  BY Finiteness, FS_RemoveElement, FS_CardinalityType
<1>7. Cardinality(Services) * (QueueLen + 1) \in Nat
  BY FS_CardinalityType
<1> HIDE DEF Places, Other
<1> QED BY <1>4, <1>5, <1>6, <1>7

\* In both gateways the queues alone bound the memory of the data plane, although the
\* length of a queue is read before its mutex is taken.
THEOREM QueuesLimitMemory == Spec => []QueuesBoundMemory
<1>1. Init => QueuesFit
  BY DEF Init, QueuesFit
<1>2. TypeOK /\ QueuesFit => QueuesBoundMemory
  BY PlacesBoundMemory DEF QueuesFit, QueuesBoundMemory
<1>3. TypeOK /\ QueuesFit /\ [Next]_vars => QueuesFit'
  BY NextKeepsQueuesFit
<1> QED BY <1>1, <1>2, <1>3, TypeCorrect, PTL DEF Spec
=============================================================================
