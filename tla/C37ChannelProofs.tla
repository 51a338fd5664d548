-------------------------- MODULE C37ChannelProofs --------------------------
(***************************************************************************)
(* The proofs about C37Channel, for any size of the buffer, any header and *)
(* any lengths of messages: the channel never loses its place in the       *)
(* stream of bytes.  Framed says how neighbouring bytes follow each other; *)
(* the inductive invariant says the same of bytes at any distance, so that *)
(* taking a whole message away needs no induction over its bytes.          *)
(***************************************************************************)
EXTENDS C37Channel, SequenceTheorems, TLAPS

-----------------------------------------------------------------------------
\* The invariant

\* The place before the first byte of the message that the i-th byte of st belongs to.
StartOf(st, i) == i - st[i].k

\* The j-th byte of st is at its place in the message of the i-th, or starts the next one.
Agree(st, i, j) ==
  /\ StartOf(st, i) < j /\ j <= StartOf(st, i) + st[i].len
       => st[j].msg = st[i].msg /\ st[j].len = st[i].len /\ st[j].k = j - StartOf(st, i)
  /\ j = StartOf(st, i) + st[i].len + 1
       => st[j].msg = st[i].msg + 1 /\ st[j].k = 1

\* The sequence st starts with a message, and whole messages follow each other as far as
\* st goes.
WholeMessages(st) == \A i \in 1..Len(st) :
  /\ st[i].k \in 1..st[i].len /\ st[i].k <= i
  /\ \A j \in 1..Len(st) : Agree(st, i, j)

\* The stream is whole messages, the first of them the one that is due.
StreamWhole == /\ WholeMessages(stream)
               /\ stream # <<>> => stream[1].msg = due

\* While the connection is open the uPMU continues the stream behind its last byte.
SenderAtEnd ==
  up => IF stream = <<>> THEN nextMsg = due
        ELSE /\ stream[Len(stream)].k = stream[Len(stream)].len
             /\ stream[Len(stream)].msg = nextMsg - 1

\* What is between two connections, and what is known of a partial message.
ConnectionShape ==
  /\ pc = "connecting" => ~up /\ buffer = <<>> /\ wire = <<>> /\ bufState = "unknownMsg"
  /\ firstMsg <= nextMsg /\ delivered < nextMsg
  /\ \A i \in 1..Len(stream) : stream[i].msg < nextMsg

PartialFits ==
  bufState = "partialMsg" =>
    /\ Len(buffer) >= HeaderLen
    /\ msgLen = buffer[1].len
    /\ msgLen <= MaxBytes
    /\ pc = "reading" => Len(buffer) < msgLen

ChannelInv == TypeOK /\ StreamWhole /\ SenderAtEnd /\ ConnectionShape /\ PartialFits

-----------------------------------------------------------------------------
\* Whole messages

\* The type and the place of a byte of the stream.
LEMMA ByteFacts ==
  ASSUME NEW st \in Seq(Byte), NEW i \in 1..Len(st)
  PROVE  /\ st[i] \in Byte
         /\ st[i].msg \in 1..MaxMsgs /\ st[i].k \in Nat
         /\ st[i].len \in MsgLens /\ st[i].len \in Nat /\ st[i].len >= HeaderLen
<1>1. st[i] \in Byte
  BY ElementOfSeq
<1> QED BY <1>1, ChannelAssumption DEF Byte

\* The first bytes of whole messages are whole messages, as far as they go.
LEMMA WholePrefix ==
  ASSUME NEW st \in Seq(Byte), NEW su \in Seq(Byte),
         Len(su) <= Len(st), \A i \in 1..Len(su) : su[i] = st[i], WholeMessages(st)
  PROVE  WholeMessages(su)
<1>1. Len(st) \in Nat /\ Len(su) \in Nat
  BY LenProperties
<1>2. \A i \in 1..Len(su) : i \in 1..Len(st)
  BY <1>1
<1>3. ASSUME NEW i \in 1..Len(su), NEW j \in 1..Len(su) PROVE Agree(su, i, j)
  <2>1. Agree(st, i, j)
    BY <1>2 DEF WholeMessages
  <2> QED BY <2>1 DEF Agree, StartOf
<1> QED BY <1>2, <1>3 DEF WholeMessages

\* Places that are all moved by n compare as before.
LEMMA ShiftPlaces ==
  ASSUME NEW b \in Int, NEW c \in Int, NEW d \in Int, NEW j \in Int, NEW n \in Int, c = b + n
  PROVE  /\ (b < j) <=> (c < j + n)
         /\ (j <= b + d) <=> (j + n <= c + d)
         /\ (j = b + d + 1) <=> (j + n = c + d + 1)
         /\ j - b = (j + n) - c
OBVIOUS

\* Without its first message a sequence of whole messages still is one.
LEMMA WholeSuffix ==
  ASSUME NEW st \in Seq(Byte), NEW su \in Seq(Byte), Len(st) > 0,
         st[1].len <= Len(st), Len(su) = Len(st) - st[1].len,
         \A i \in 1..Len(su) : su[i] = st[i + st[1].len], WholeMessages(st)
  PROVE  /\ WholeMessages(su)
         /\ Len(su) > 0 => su[1].k = 1 /\ su[1].msg = st[1].msg + 1
<1> DEFINE n == st[1].len
<1>1. Len(st) \in Nat /\ Len(su) \in Nat /\ n \in Nat /\ n > 0
  BY LenProperties, ByteFacts, ChannelAssumption
<1>2. st[1].k = 1
  BY <1>1 DEF WholeMessages
<1>3. ASSUME NEW j \in 1..Len(st)
      PROVE  /\ j <= n => st[j].len = n /\ st[j].k = j
             /\ j = n + 1 => st[j].k = 1 /\ st[j].msg = st[1].msg + 1
  <2>1. Agree(st, 1, j)
    BY <1>1 DEF WholeMessages
  <2> QED BY <1>1, <1>2, <2>1 DEF Agree, StartOf
<1>5. ASSUME NEW i \in 1..Len(st), i > n PROVE st[i].k <= i - n
  <2>1. st[i].k \in Nat /\ st[i].len \in Nat
    BY ByteFacts
  <2>2. st[i].k \in 1..st[i].len /\ st[i].k <= i
    BY DEF WholeMessages
  <2>3. SUFFICES ASSUME i - st[i].k < n PROVE FALSE
    BY <1>1, <2>1
  <2> DEFINE p == i - st[i].k + 1
  <2>4. p \in 1..Len(st) /\ p <= n
    BY <1>1, <2>1, <2>2, <2>3, SMTT(60)
  <2>5. st[p].k = 1 /\ st[p].len = st[i].len
    <3>1. Agree(st, i, p)
      BY <2>4 DEF WholeMessages
    <3>2. i - st[i].k < p /\ p <= i - st[i].k + st[i].len
      BY <2>1, <2>2
    <3>3. st[p].len = st[i].len /\ st[p].k = p - (i - st[i].k)
      BY <3>1, <3>2 DEF Agree, StartOf
    <3> QED BY <2>1, <3>3
  <2>6. p = 1 /\ st[i].len = n
    BY <1>3, <2>4, <2>5
  <2>7. st[i].k = i
    <3>1. i \in Int
      OBVIOUS
    <3> QED BY <2>1, <2>6, <3>1
  <2>8. i <= n
    BY <2>2, <2>6, <2>7
  <2> HIDE DEF n
  <2>9. i \in Nat /\ i > n
    BY <1>5
  <2> QED BY <1>1, <2>8, <2>9
<1>6. ASSUME NEW i \in 1..Len(su)
      PROVE  /\ i + n \in 1..Len(st) /\ i + n > n
             /\ su[i] = st[i + n]
  BY <1>1
<1> HIDE DEF n
<1>7. Len(su) = Len(st) - n
  BY DEF n
<1>8. ASSUME NEW i \in 1..Len(su)
      PROVE  su[i].k \in 1..su[i].len /\ su[i].k <= i
  <2>1. su[i] = st[i + n] /\ i + n \in 1..Len(st) /\ i + n > n
    BY <1>6
  <2>2. st[i + n].k \in 1..st[i + n].len /\ st[i + n].k <= (i + n) - n
    BY <1>5, <2>1 DEF WholeMessages
  <2> QED BY <1>1, <2>1, <2>2
<1>9. ASSUME NEW i \in 1..Len(su), NEW j \in 1..Len(su) PROVE Agree(su, i, j)
  <2>1. /\ su[i] = st[i + n] /\ i + n \in 1..Len(st)
        /\ su[j] = st[j + n] /\ j + n \in 1..Len(st)
    BY <1>6
  <2>2. Agree(st, i + n, j + n)
    BY <2>1 DEF WholeMessages
  <2>3. su[i].k \in Nat /\ su[i].len \in Nat
    BY ByteFacts
  <2>4. /\ StartOf(st, i + n) = StartOf(su, i) + n
        /\ StartOf(su, i) \in Int
    BY <1>1, <2>1, <2>3 DEF StartOf
  <2> DEFINE b == StartOf(su, i)
             c == StartOf(st, i + n)
             d == su[i].len
  <2> HIDE DEF b, c, d
  <2>5. Agree(st, i + n, j + n) <=>
          /\ c < j + n /\ j + n <= c + d
               => su[j].msg = su[i].msg /\ su[j].len = su[i].len /\ su[j].k = (j + n) - c
          /\ j + n = c + d + 1 => su[j].msg = su[i].msg + 1 /\ su[j].k = 1
    BY <2>1 DEF Agree, c, d
  <2>6. Agree(su, i, j) <=>
          /\ b < j /\ j <= b + d
               => su[j].msg = su[i].msg /\ su[j].len = su[i].len /\ su[j].k = j - b
          /\ j = b + d + 1 => su[j].msg = su[i].msg + 1 /\ su[j].k = 1
    BY DEF Agree, b, d
  <2>7. c = b + n /\ b \in Int /\ c \in Int
    BY <1>1, <2>4 DEF b, c
  <2>8. d \in Int /\ j \in Int /\ n \in Int
    BY <1>1, <2>3 DEF d
  <2>9. /\ (b < j) <=> (c < j + n)
        /\ (j <= b + d) <=> (j + n <= c + d)
        /\ (j = b + d + 1) <=> (j + n = c + d + 1)
        /\ j - b = (j + n) - c
    BY <2>7, <2>8, ShiftPlaces
  <2> QED BY <2>2, <2>5, <2>6, <2>9
<1>10. Len(su) > 0 => su[1].k = 1 /\ su[1].msg = st[1].msg + 1
  BY <1>1, <1>3, <1>6, <1>7
<1> QED BY <1>8, <1>9, <1>10 DEF WholeMessages

\* Another whole message goes behind a sequence that ends with the end of the one before.
LEMMA WholeAppend ==
  ASSUME NEW st \in Seq(Byte), NEW su \in Seq(Byte), NEW m \in Nat, NEW n \in Nat, n > 0,
         Len(su) = Len(st) + n,
         \A i \in 1..Len(st) : su[i] = st[i],
         \A i \in 1..n : su[Len(st) + i] = [msg |-> m, k |-> i, len |-> n],
         Len(st) > 0 => st[Len(st)].k = st[Len(st)].len /\ st[Len(st)].msg = m - 1,
         WholeMessages(st)
  PROVE  WholeMessages(su)
<1> DEFINE p == Len(st)
<1>1. p \in Nat /\ Len(su) = p + n
  BY LenProperties
<1>2. \A i \in 1..p : i \in 1..Len(su) /\ su[i] = st[i]
  BY <1>1
<1>3. ASSUME NEW i \in 1..Len(su), i > p
      PROVE  su[i].msg = m /\ su[i].k = i - p /\ su[i].len = n
  <2>1. i - p \in 1..n /\ i = p + (i - p)
    BY <1>1, <1>3
  <2>2. su[p + (i - p)] = [msg |-> m, k |-> i - p, len |-> n]
    BY <2>1
  <2> QED BY <2>1, <2>2
<1>4. ASSUME NEW i \in 1..Len(su)
      PROVE  su[i].k \in Nat /\ su[i].len \in Nat /\ su[i].msg \in Nat
  BY ByteFacts
<1>5. p > 0 => p \in 1..p /\ st[p].k = st[p].len /\ st[p].msg = m - 1
  BY <1>1
<1> HIDE DEF p
<1>6. ASSUME NEW i \in 1..p
      PROVE  st[i].k \in 1..st[i].len /\ st[i].k <= i /\ \A j \in 1..p : Agree(st, i, j)
  BY DEF WholeMessages, p
<1>7. ASSUME NEW i \in 1..Len(su) PROVE su[i].k \in 1..su[i].len /\ su[i].k <= i
  <2>1. CASE i <= p
    BY <1>1, <1>2, <1>6, <2>1
  <2>2. CASE i > p
    <3>1. su[i].k = i - p /\ su[i].len = n
      BY <1>3, <2>2
    <3> QED BY <1>1, <2>2, <3>1
  <2> QED BY <1>1, <2>1, <2>2
<1>8. ASSUME NEW i \in 1..Len(su), i <= p, p <= StartOf(su, i) + su[i].len
      PROVE  p = StartOf(su, i) + su[i].len /\ m = su[i].msg + 1
  <2>1. i \in 1..p /\ p \in 1..p /\ su[i] = st[i] /\ p > 0
    BY <1>1, <1>2, <1>8
  <2>2. su[i].k \in Nat /\ su[i].len \in Nat /\ su[i].msg \in Nat /\ su[i].k > 0
    BY <1>4, <1>7
  <2>3. StartOf(st, i) = StartOf(su, i) /\ StartOf(su, i) < p /\ StartOf(su, i) \in Int
    BY <1>1, <2>1, <2>2 DEF StartOf
  <2>4. st[p].msg = su[i].msg /\ st[p].len = su[i].len /\ st[p].k = p - StartOf(su, i)
    BY <1>6, <1>8, <2>1, <2>3 DEF Agree
  <2>5. su[i].len = p - StartOf(su, i) /\ su[i].msg = m - 1
    BY <1>5, <2>1, <2>4
  <2> QED BY <1>1, <2>2, <2>3, <2>5
<1>9. ASSUME NEW i \in 1..Len(su), NEW j \in 1..Len(su) PROVE Agree(su, i, j)
  <2>1. /\ su[i].k \in Nat /\ su[i].len \in Nat /\ su[i].msg \in Nat
        /\ StartOf(su, i) \in Int
    BY <1>4 DEF StartOf
  <2>2. CASE i <= p /\ j <= p
    <3>1. i \in 1..p /\ j \in 1..p
      BY <1>1, <2>2
    <3>2. su[i] = st[i] /\ su[j] = st[j] /\ Agree(st, i, j)
      BY <1>2, <1>6, <3>1
    <3> QED BY <3>2 DEF Agree, StartOf
  <2>3. CASE i <= p /\ j > p
    <3>1. su[j].msg = m /\ su[j].k = j - p
      BY <1>3, <2>3
    <3>2. ~(j <= StartOf(su, i) + su[i].len)
      BY <1>1, <1>8, <2>1, <2>3, SMTT(60)
    <3>3. j = StartOf(su, i) + su[i].len + 1 => m = su[i].msg + 1 /\ j = p + 1
      <4>1. j = StartOf(su, i) + su[i].len + 1 => p <= StartOf(su, i) + su[i].len
        <5>1. i \in Int /\ j \in Int /\ p \in Int /\ j > p
          BY <1>1, <2>3
        <5>2. StartOf(su, i) + su[i].len \in Int
          BY <2>1
        <5> QED BY <5>1, <5>2
      <4>2. ASSUME j = StartOf(su, i) + su[i].len + 1
            PROVE  p = StartOf(su, i) + su[i].len /\ m = su[i].msg + 1
        BY <1>8, <2>3, <4>1, <4>2
      <4> QED BY <4>2
    <3> QED BY <1>1, <3>1, <3>2, <3>3 DEF Agree
  <2>4. CASE i > p
    <3>1. su[i].msg = m /\ su[i].len = n /\ StartOf(su, i) = p
      BY <1>1, <1>3, <2>4, SMTT(60) DEF StartOf
    <3>2. j > p => su[j].msg = m /\ su[j].k = j - p /\ su[j].len = n
      BY <1>3
    <3> QED BY <1>1, <3>1, <3>2 DEF Agree
  <2> QED BY <1>1, <2>2, <2>3, <2>4
<1> QED BY <1>7, <1>9 DEF WholeMessages

-----------------------------------------------------------------------------
\* The steps

\* The bytes of two streams, one after the other.
LEMMA StreamFacts ==
  ASSUME NEW b \in Seq(Byte), NEW w \in Seq(Byte)
  PROVE  /\ b \o w \in Seq(Byte) /\ Len(b) \in Nat /\ Len(w) \in Nat
         /\ Len(b \o w) = Len(b) + Len(w)
         /\ \A i \in 1..Len(b) : (b \o w)[i] = b[i]
         /\ \A i \in 1..Len(w) : (b \o w)[Len(b) + i] = w[i]
         /\ (b \o w = <<>>) <=> (Len(b) + Len(w) = 0)
<1>1. Len(b) \in Nat /\ Len(w) \in Nat
  BY LenProperties
<1>2. /\ b \o w \in Seq(Byte) /\ Len(b \o w) = Len(b) + Len(w)
      /\ \A i \in 1..(Len(b) + Len(w)) :
            (b \o w)[i] = IF i <= Len(b) THEN b[i] ELSE w[i - Len(b)]
  BY ConcatProperties
<1>3. ASSUME NEW i \in 1..Len(w) PROVE (b \o w)[Len(b) + i] = w[i]
  <2>1. Len(b) + i \in 1..(Len(b) + Len(w)) /\ ~(Len(b) + i <= Len(b))
        /\ (Len(b) + i) - Len(b) = i
    BY <1>1
  <2> QED BY <1>2, <2>1
<1>4. (b \o w = <<>>) <=> (Len(b) + Len(w) = 0)
  BY <1>1, <1>2, EmptySeq
<1> QED BY <1>1, <1>2, <1>3, <1>4

\* Three streams one after the other are one stream, however they are divided.
LEMMA ConcatBytes ==
  ASSUME NEW s \in Seq(Byte), NEW t \in Seq(Byte), NEW u \in Seq(Byte)
  PROVE  (s \o t) \o u = s \o (t \o u)
BY ConcatAssociative

\* Nothing that the sender or the deliveries depend on changes.
LEMMA SameStreamKeepsInv ==
  ASSUME ChannelInv, stream' = stream,
         UNCHANGED <<up, nextMsg, firstMsg, delivered>>,
         pc' # "connecting", TypeOK', PartialFits'
  PROVE  ChannelInv'
<1>1. due' = due
  BY DEF due
<1>2. StreamWhole'
  BY <1>1 DEF ChannelInv, StreamWhole
<1>3. SenderAtEnd'
  BY <1>1 DEF ChannelInv, SenderAtEnd
<1>4. ConnectionShape'
  BY DEF ChannelInv, ConnectionShape
<1> QED BY <1>2, <1>3, <1>4 DEF ChannelInv

\* read_handler takes over what has arrived.
LEMMA ReadKeepsInv ==
  ASSUME ChannelInv, ReadFull \/ ReadRest
  PROVE  ChannelInv'
<1>1. PICK n \in 0..Len(wire) :
        /\ buffer' = buffer \o SubSeq(wire, 1, n)
        /\ wire' = SubSeq(wire, n + 1, Len(wire))
        /\ n <= room
  <2>1. wire \in Seq(Byte) /\ Len(wire) \in Nat /\ Len(buffer) \in Nat /\ MaxBytes \in Nat
    BY LenProperties, ChannelAssumption DEF ChannelInv, TypeOK
  <2>2. CASE ReadFull
    <3>1. room \in 0..Len(wire) /\ room <= room
      BY <2>1, <2>2 DEF ReadFull, room
    <3> QED BY <2>2, <3>1 DEF ReadFull
  <2>3. CASE ReadRest
    <3>1. Len(wire) \in 0..Len(wire) /\ Len(wire) <= room
      BY <2>1, <2>3 DEF ReadRest, room
    <3>2. SubSeq(wire, 1, Len(wire)) = wire
      BY <2>1, SubSeqFull
    <3>3. SubSeq(wire, Len(wire) + 1, Len(wire)) = <<>>
      BY <2>1, SubSeqEmpty
    <3> QED BY <2>3, <3>1, <3>2, <3>3 DEF ReadRest
  <2> QED BY <2>2, <2>3
<1>2. /\ buffer \in Seq(Byte) /\ wire \in Seq(Byte) /\ Len(buffer) \in Nat
      /\ Len(wire) \in Nat /\ n \in Nat
  BY LenProperties DEF ChannelInv, TypeOK
<1> DEFINE w == SubSeq(wire, 1, n)
           x == SubSeq(wire, n + 1, Len(wire))
<1>3. w \in Seq(Byte) /\ Len(w) = n /\ x \in Seq(Byte) /\ w \o x = wire
  <2>1. \A i \in 1..Len(wire) : wire[i] \in Byte
    BY <1>2, ElementOfSeq
  <2>2. /\ \A i \in 1..n : wire[i] \in Byte
        /\ \A i \in (n + 1)..Len(wire) : wire[i] \in Byte
    BY <1>2, <2>1
  <2>3. w \in Seq(Byte) /\ Len(w) = n
    BY <1>2, <2>2, SubSeqProperties
  <2>4. x \in Seq(Byte)
    BY <1>2, <2>2, SubSeqProperties
  <2>5. w \o x = SubSeq(wire, 1, Len(wire))
    <3>1. 1 \in 1..(Len(wire) + 1) /\ n \in (1 - 1)..Len(wire) /\ Len(wire) \in n..Len(wire)
      BY <1>2
    <3> QED BY <1>2, <3>1, ConcatAdjacentSubSeq
  <2> QED BY <1>2, <2>3, <2>4, <2>5, SubSeqFull
<1> HIDE DEF w, x
<1>4. buffer' = buffer \o w /\ wire' = x
  BY <1>1 DEF w, x
<1>5. stream' = stream
  <2>1. (buffer \o w) \o x = buffer \o (w \o x)
    BY <1>2, <1>3, ConcatBytes, ZenonT(60)
  <2>2. w \o x = wire
    BY <1>3
  <2> QED BY <1>4, <2>1, <2>2 DEF stream
<1>6. /\ buffer' \in Seq(Byte) /\ Len(buffer') = Len(buffer) + n
      /\ \A i \in 1..Len(buffer) : buffer'[i] = buffer[i]
  <2>1. /\ buffer \o w \in Seq(Byte) /\ Len(buffer \o w) = Len(buffer) + Len(w)
        /\ \A i \in 1..Len(buffer) : (buffer \o w)[i] = buffer[i]
    BY <1>2, <1>3, StreamFacts
  <2> QED BY <1>3, <1>4, <2>1
<1>7. /\ pc' = "examining"
      /\ UNCHANGED <<up, nextMsg, firstMsg, bufState, msgLen, delivered>>
  BY DEF ReadFull, ReadRest
<1>8. TypeOK'
  <2>1. Len(buffer') <= MaxBytes
    BY <1>1, <1>2, <1>6, ChannelAssumption DEF room
  <2> QED BY <1>3, <1>4, <1>6, <1>7, <2>1 DEF ChannelInv, TypeOK
<1>9. PartialFits'
  <2> SUFFICES ASSUME bufState = "partialMsg"
               PROVE  Len(buffer') >= HeaderLen /\ msgLen = buffer'[1].len /\ msgLen <= MaxBytes
    BY <1>7 DEF PartialFits
  <2>1. Len(buffer) >= HeaderLen /\ msgLen = buffer[1].len /\ msgLen <= MaxBytes
    BY DEF ChannelInv, PartialFits
  <2>2. 1 \in 1..Len(buffer)
    BY <1>2, <2>1, ChannelAssumption
  <2>3. Len(buffer') >= HeaderLen
    BY <1>2, <1>6, <2>1, ChannelAssumption
  <2> QED BY <1>6, <2>1, <2>2, <2>3
<1> QED BY <1>5, <1>7, <1>8, <1>9, SameStreamKeepsInv

\* The bytes of one message.
LEMMA BytesFacts ==
  ASSUME NEW m \in 1..MaxMsgs, NEW n \in MsgLens
  PROVE  /\ n \in Nat /\ n > 0
         /\ Bytes(m, n) \in Seq(Byte) /\ Len(Bytes(m, n)) = n
         /\ \A i \in 1..n : Bytes(m, n)[i] = [msg |-> m, k |-> i, len |-> n]
<1>1. n \in Nat /\ n > 0
  BY ChannelAssumption
<1>2. \A i \in 1..n : [msg |-> m, k |-> i, len |-> n] \in Byte
  BY <1>1 DEF Byte
<1> QED BY <1>1, <1>2 DEF Bytes

\* The device sends a whole message.
LEMMA SendKeepsInv ==
  ASSUME ChannelInv, Send
  PROVE  ChannelInv'
<1>1. PICK n \in MsgLens : wire' = wire \o Bytes(nextMsg, n)
  BY DEF Send
<1>2. /\ up /\ nextMsg \in 1..MaxMsgs /\ nextMsg' = nextMsg + 1
      /\ UNCHANGED <<pc, up, firstMsg, buffer, bufState, msgLen, delivered>>
  BY ChannelAssumption DEF Send, bufVars, ChannelInv, TypeOK
<1> DEFINE b == Bytes(nextMsg, n)
<1>3. /\ n \in Nat /\ n > 0 /\ b \in Seq(Byte) /\ Len(b) = n
      /\ \A i \in 1..n : b[i] = [msg |-> nextMsg, k |-> i, len |-> n]
  BY <1>2, BytesFacts
<1> HIDE DEF b
<1>4. wire' = wire \o b
  BY <1>1 DEF b
<1>5. /\ buffer \in Seq(Byte) /\ wire \in Seq(Byte) /\ stream \in Seq(Byte)
      /\ Len(stream) \in Nat /\ wire' \in Seq(Byte)
  BY <1>3, <1>4, LenProperties, ConcatProperties DEF ChannelInv, TypeOK, stream
<1>6. stream' = stream \o b
  <2>1. (buffer \o wire) \o b = buffer \o (wire \o b)
    BY <1>3, <1>5, ConcatBytes, ZenonT(60)
  <2> QED BY <1>2, <1>4, <2>1 DEF stream
<1>7. /\ stream' \in Seq(Byte) /\ Len(stream') = Len(stream) + n
      /\ \A i \in 1..Len(stream) : stream'[i] = stream[i]
      /\ \A i \in 1..n : stream'[Len(stream) + i] = [msg |-> nextMsg, k |-> i, len |-> n]
  <2>1. /\ stream \o b \in Seq(Byte) /\ Len(stream \o b) = Len(stream) + Len(b)
        /\ \A i \in 1..Len(stream) : (stream \o b)[i] = stream[i]
        /\ \A i \in 1..Len(b) : (stream \o b)[Len(stream) + i] = b[i]
    BY <1>3, <1>5, StreamFacts
  <2> QED BY <1>3, <1>6, <2>1
<1>8. (stream = <<>>) <=> (Len(stream) = 0)
  BY <1>5, EmptySeq
<1>9. due' = due
  BY <1>2 DEF due
<1>10. StreamWhole'
  <2>1. WholeMessages(stream')
    <3>1. Len(stream) > 0 => stream[Len(stream)].k = stream[Len(stream)].len
                             /\ stream[Len(stream)].msg = nextMsg - 1
      BY <1>2, <1>5, <1>8 DEF ChannelInv, SenderAtEnd
    <3>2. WholeMessages(stream) /\ nextMsg \in Nat
      BY <1>2 DEF ChannelInv, StreamWhole
    <3> QED BY <1>3, <1>5, <1>7, <3>1, <3>2, WholeAppend
  <2>2. stream'[1].msg = due
    <3>1. CASE Len(stream) = 0
      <4>1. stream'[Len(stream) + 1] = [msg |-> nextMsg, k |-> 1, len |-> n]
        BY <1>3, <1>7
      <4> QED BY <1>2, <1>8, <3>1, <4>1 DEF ChannelInv, SenderAtEnd
    <3>2. CASE Len(stream) > 0
      BY <1>5, <1>7, <1>8, <3>2 DEF ChannelInv, StreamWhole
    <3> QED BY <1>5, <3>1, <3>2
  <2> QED BY <1>9, <2>1, <2>2 DEF StreamWhole
<1>11. SenderAtEnd'
  <2>1. stream'[Len(stream) + n] = [msg |-> nextMsg, k |-> n, len |-> n]
    BY <1>3, <1>7
  <2>2. stream' # <<>>
    BY <1>3, <1>5, <1>7, EmptySeq
  <2> QED BY <1>2, <1>7, <2>1, <2>2 DEF SenderAtEnd
<1>12. ConnectionShape'
  <2>1. \A i \in 1..Len(stream') : stream'[i].msg < nextMsg + 1
    <3> SUFFICES ASSUME NEW i \in 1..Len(stream') PROVE stream'[i].msg < nextMsg + 1
      OBVIOUS
    <3>1. CASE i <= Len(stream)
      <4>1. i \in 1..Len(stream) /\ stream'[i] = stream[i]
        BY <1>5, <1>7, <3>1
      <4>2. stream[i].msg < nextMsg /\ stream[i].msg \in Int
        BY <1>5, <4>1, ByteFacts DEF ChannelInv, ConnectionShape
      <4> QED BY <1>2, <4>1, <4>2
    <3>2. CASE i > Len(stream)
      <4>1. i - Len(stream) \in 1..n /\ i = Len(stream) + (i - Len(stream))
        BY <1>3, <1>5, <1>7, <3>2
      <4>2. stream'[Len(stream) + (i - Len(stream))]
              = [msg |-> nextMsg, k |-> i - Len(stream), len |-> n]
        BY <1>7, <4>1
      <4>3. stream'[i].msg = nextMsg
        BY <4>1, <4>2
      <4> QED BY <1>2, <4>3
    <3> QED BY <1>5, <1>7, <3>1, <3>2
  <2>2. firstMsg <= nextMsg + 1 /\ delivered < nextMsg + 1
    BY <1>2 DEF ChannelInv, ConnectionShape, TypeOK
  <2> QED BY <1>2, <2>1, <2>2 DEF ChannelInv, ConnectionShape
<1>13. TypeOK'
  <2>1. nextMsg + 1 \in 1..(MaxMsgs + 1)
    BY <1>2, ChannelAssumption
  <2> QED BY <1>2, <1>5, <2>1 DEF ChannelInv, TypeOK
<1>14. PartialFits'
  BY <1>2 DEF ChannelInv, PartialFits
<1> QED BY <1>10, <1>11, <1>12, <1>13, <1>14 DEF ChannelInv

\* The connection is lost.
LEMMA DropKeepsInv ==
  ASSUME ChannelInv, Drop
  PROVE  ChannelInv'
<1>1. PICK n \in 0..Len(wire) : wire' = SubSeq(wire, 1, n)
  BY DEF Drop
<1>2. /\ up' = FALSE /\ UNCHANGED <<pc, nextMsg, firstMsg, buffer, bufState, msgLen, delivered>>
      /\ pc # "connecting"
  BY DEF Drop, bufVars, ChannelInv, ConnectionShape
<1>3. /\ buffer \in Seq(Byte) /\ wire \in Seq(Byte) /\ Len(wire) \in Nat /\ n \in Nat
  BY LenProperties DEF ChannelInv, TypeOK
<1>4. /\ wire' \in Seq(Byte) /\ Len(wire') = n
      /\ \A i \in 1..n : wire'[i] = wire[i]
  <2>1. \A i \in 1..n : i \in 1..Len(wire) /\ wire[i] \in Byte
    BY <1>3, ElementOfSeq
  <2>2. /\ SubSeq(wire, 1, n) \in Seq(Byte)
        /\ Len(SubSeq(wire, 1, n)) = IF 1 <= n THEN n - 1 + 1 ELSE 0
        /\ \A i \in 1..(n - 1 + 1) : SubSeq(wire, 1, n)[i] = wire[1 + i - 1]
    BY <1>3, <2>1, SubSeqProperties
  <2> QED BY <1>1, <1>3, <2>2
<1>5. /\ stream \in Seq(Byte) /\ Len(stream) = Len(buffer) + Len(wire) /\ Len(buffer) \in Nat
      /\ \A i \in 1..Len(buffer) : stream[i] = buffer[i]
      /\ \A i \in 1..Len(wire) : stream[Len(buffer) + i] = wire[i]
  BY <1>3, StreamFacts DEF stream
<1>6. /\ stream' \in Seq(Byte) /\ Len(stream') = Len(buffer) + n
      /\ \A i \in 1..Len(buffer) : stream'[i] = buffer[i]
      /\ \A i \in 1..n : stream'[Len(buffer) + i] = wire'[i]
  <2> DEFINE w == wire'
  <2>1. w \in Seq(Byte) /\ Len(w) = n
    BY <1>4
  <2> HIDE DEF w
  <2>2. /\ buffer \o w \in Seq(Byte) /\ Len(buffer \o w) = Len(buffer) + n
        /\ \A i \in 1..Len(buffer) : (buffer \o w)[i] = buffer[i]
        /\ \A i \in 1..n : (buffer \o w)[Len(buffer) + i] = w[i]
    BY <1>3, <2>1, StreamFacts
  <2>3. stream' = buffer \o w
    BY <1>2 DEF stream, w
  <2> QED BY <2>2, <2>3 DEF w
<1>7. /\ Len(stream') <= Len(stream)
      /\ \A i \in 1..Len(stream') : i \in 1..Len(stream) /\ stream'[i] = stream[i]
  <2>1. Len(stream') <= Len(stream)
    BY <1>3, <1>5, <1>6
  <2>2. ASSUME NEW i \in 1..Len(stream')
        PROVE  i \in 1..Len(stream) /\ stream'[i] = stream[i]
    <3>1. i \in 1..Len(stream)
      BY <1>3, <1>5, <1>6, <2>1
    <3>2. CASE i <= Len(buffer)
      BY <1>5, <1>6, <3>1, <3>2
    <3>3. CASE i > Len(buffer)
      <4>1. /\ i - Len(buffer) \in 1..n /\ i - Len(buffer) \in 1..Len(wire)
            /\ i = Len(buffer) + (i - Len(buffer))
        BY <1>3, <1>5, <1>6, <3>3
      <4>2. stream'[Len(buffer) + (i - Len(buffer))] = wire'[i - Len(buffer)]
        BY <1>6, <4>1
      <4>3. stream[Len(buffer) + (i - Len(buffer))] = wire[i - Len(buffer)]
        BY <1>5, <4>1
      <4>4. wire'[i - Len(buffer)] = wire[i - Len(buffer)]
        BY <1>4, <4>1
      <4> QED BY <3>1, <4>1, <4>2, <4>3, <4>4
    <3> QED BY <1>5, <3>1, <3>2, <3>3
  <2> QED BY <2>1, <2>2
<1>8. StreamWhole'
  <2>1. WholeMessages(stream')
    BY <1>5, <1>6, <1>7, WholePrefix DEF ChannelInv, StreamWhole
  <2>2. ASSUME stream' # <<>> PROVE stream'[1].msg = due
    <3>1. 1 \in 1..Len(stream')
      BY <1>6, <2>2, EmptySeq
    <3>2. 1 \in 1..Len(stream) /\ stream # <<>>
      BY <1>5, <1>7, <3>1, EmptySeq
    <3> QED BY <1>7, <3>1, <3>2 DEF ChannelInv, StreamWhole
  <2>3. due' = due
    BY <1>2 DEF due
  <2> QED BY <2>1, <2>2, <2>3 DEF StreamWhole
<1>9. SenderAtEnd'
  BY <1>2 DEF SenderAtEnd
<1>10. ConnectionShape'
  BY <1>2, <1>7 DEF ChannelInv, ConnectionShape
<1>11. TypeOK'
  BY <1>2, <1>4 DEF ChannelInv, TypeOK
<1>12. PartialFits'
  BY <1>2 DEF ChannelInv, PartialFits
<1> QED BY <1>8, <1>9, <1>10, <1>11, <1>12 DEF ChannelInv

\* With nothing in the buffer and nothing under way.
LEMMA EmptyStream ==
  ASSUME buffer' = <<>>, wire' = <<>>
  PROVE  stream' = <<>> /\ Len(stream') = 0 /\ WholeMessages(stream')
<1>1. stream' = <<>>
  BY DEF stream
<1> QED BY <1>1 DEF WholeMessages

\* The connection is established.
LEMMA ConnectedKeepsInv ==
  ASSUME ChannelInv, Connected
  PROVE  ChannelInv'
<1>1. /\ pc = "connecting" /\ pc' = "reading" /\ up' = TRUE /\ firstMsg' = nextMsg
      /\ UNCHANGED <<wire, nextMsg, buffer, bufState, msgLen, delivered>>
      /\ buffer = <<>> /\ wire = <<>> /\ bufState = "unknownMsg"
  BY DEF Connected, bufVars, ChannelInv, ConnectionShape
<1>2. stream' = <<>> /\ Len(stream') = 0 /\ WholeMessages(stream')
  BY <1>1, EmptyStream
<1>3. delivered < nextMsg /\ nextMsg \in Nat /\ delivered \in Nat
  BY DEF ChannelInv, ConnectionShape, TypeOK
<1>4. due' = nextMsg'
  BY <1>1, <1>3 DEF due
<1>5. TypeOK'
  BY <1>1 DEF ChannelInv, TypeOK
<1>6. ConnectionShape'
  BY <1>1, <1>2, <1>3 DEF ConnectionShape
<1> QED BY <1>1, <1>2, <1>4, <1>5, <1>6
        DEF ChannelInv, StreamWhole, SenderAtEnd, PartialFits

\* The channel connects again.
LEMMA ReconnectKeepsInv ==
  ASSUME ChannelInv, Reconnect
  PROVE  ChannelInv'
<1>1. /\ pc' = "connecting" /\ up' = FALSE /\ buffer' = <<>> /\ wire' = <<>>
      /\ bufState' = "unknownMsg" /\ msgLen' = 0
      /\ UNCHANGED <<nextMsg, firstMsg, delivered>>
  BY DEF Reconnect
<1>2. stream' = <<>> /\ Len(stream') = 0 /\ WholeMessages(stream')
  BY <1>1, EmptyStream
<1>3. TypeOK'
  <2>1. <<>> \in Seq(Byte) /\ Len(<<>>) <= MaxBytes
    BY EmptySeq, ChannelAssumption
  <2> QED BY <1>1, <2>1 DEF ChannelInv, TypeOK
<1>4. ConnectionShape'
  BY <1>1, <1>2 DEF ChannelInv, ConnectionShape
<1> QED BY <1>1, <1>2, <1>3, <1>4
        DEF ChannelInv, StreamWhole, SenderAtEnd, PartialFits

\* The length that examineBuffer uses is the length of the message at the front.
LEMMA FrontMessage ==
  ASSUME ChannelInv, HeaderKnown
  PROVE  /\ frameLen = buffer[1].len /\ frameLen \in Nat /\ frameLen > 0
         /\ Len(buffer) > 0 /\ Len(buffer) >= HeaderLen
         /\ buffer[1].msg = due /\ buffer[1].k = 1 /\ buffer[1] = stream[1] /\ stream # <<>>
<1>1. buffer \in Seq(Byte) /\ wire \in Seq(Byte)
  BY DEF ChannelInv, TypeOK
<1>2. /\ Len(buffer) \in Nat /\ Len(wire) \in Nat
      /\ stream \in Seq(Byte) /\ Len(stream) = Len(buffer) + Len(wire)
      /\ \A i \in 1..Len(buffer) : stream[i] = buffer[i]
  BY <1>1, StreamFacts DEF stream
<1>3. Len(buffer) >= HeaderLen /\ HeaderLen \in Nat /\ HeaderLen > 0
  BY ChannelAssumption DEF HeaderKnown, ChannelInv, PartialFits
<1>4. 1 \in 1..Len(buffer) /\ HeaderLen \in 1..Len(buffer)
      /\ 1 \in 1..Len(stream) /\ HeaderLen \in 1..Len(stream)
  BY <1>2, <1>3
<1>5. stream[1] = buffer[1] /\ stream[HeaderLen] = buffer[HeaderLen]
  BY <1>2, <1>4
<1>6. stream[1].len \in Nat /\ stream[1].len >= HeaderLen
  BY <1>2, <1>4, ByteFacts
<1>7. stream[1].k = 1
  <2>1. stream[1].k \in 1..stream[1].len /\ stream[1].k <= 1
    BY <1>4 DEF ChannelInv, StreamWhole, WholeMessages
  <2> QED BY <1>6, <2>1
<1>8. stream[HeaderLen].len = stream[1].len
  <2>1. Agree(stream, 1, HeaderLen)
    BY <1>4 DEF ChannelInv, StreamWhole, WholeMessages
  <2> QED BY <1>3, <1>6, <1>7, <2>1 DEF Agree, StartOf
<1>9. frameLen = buffer[1].len
  BY <1>5, <1>8 DEF frameLen, ChannelInv, PartialFits, TypeOK
<1>10. stream # <<>>
  BY <1>2, <1>4, EmptySeq
<1>11. stream[1].msg = due
  BY <1>10 DEF ChannelInv, StreamWhole
<1> QED BY <1>2, <1>3, <1>5, <1>6, <1>7, <1>9, <1>10, <1>11

\* The loop looks at a header and waits for the rest of a message.
LEMMA ExamineOnKeepsInv ==
  ASSUME ChannelInv, ExamineUnknown \/ ExaminePartial
  PROVE  ChannelInv'
<1>1. CASE ExamineUnknown
  <2>1. pc' = "reading" /\ UNCHANGED <<up, wire, nextMsg, firstMsg, buffer, bufState, msgLen, delivered>>
    BY <1>1 DEF ExamineUnknown, bufVars
  <2>2. bufState # "partialMsg"
    BY <1>1 DEF ExamineUnknown, HeaderKnown, TooLarge
  <2>3. TypeOK' /\ PartialFits'
    BY <2>1, <2>2 DEF ChannelInv, TypeOK, PartialFits
  <2>4. stream' = stream
    BY <2>1 DEF stream
  <2> QED BY <2>1, <2>3, <2>4, SameStreamKeepsInv
<1>2. CASE ExaminePartial
  <2>1. /\ pc' = "reading" /\ bufState' = "partialMsg" /\ msgLen' = frameLen
        /\ UNCHANGED <<up, wire, nextMsg, firstMsg, buffer, delivered>>
        /\ HeaderKnown /\ ~TooLarge /\ Len(buffer) < frameLen
    BY <1>2 DEF ExaminePartial
  <2>2. frameLen = buffer[1].len /\ frameLen \in Nat /\ Len(buffer) >= HeaderLen
    BY <2>1, FrontMessage
  <2>3. frameLen <= MaxBytes
    <3>1. CASE bufState = "partialMsg"
      BY <3>1 DEF frameLen, ChannelInv, PartialFits
    <3>2. CASE bufState = "unknownMsg"
      BY <2>1, <2>2, <3>2, ChannelAssumption DEF TooLarge
    <3> QED BY <3>1, <3>2 DEF ChannelInv, TypeOK
  <2>4. TypeOK'
    BY <2>1, <2>2 DEF ChannelInv, TypeOK
  <2>5. PartialFits'
    BY <2>1, <2>2, <2>3 DEF PartialFits
  <2>6. stream' = stream
    BY <2>1 DEF stream
  <2> QED BY <2>1, <2>4, <2>5, <2>6, SameStreamKeepsInv
<1> QED BY <1>1, <1>2

\* A complete message is taken from the buffer.
LEMMA ExamineCompleteKeepsInv ==
  ASSUME ChannelInv, ExamineComplete
  PROVE  ChannelInv' /\ delivered' = due
<1> DEFINE n == frameLen
<1>1. /\ HeaderKnown /\ Len(buffer) >= n /\ delivered' = buffer[1].msg
      /\ buffer' = SubSeq(buffer, n + 1, Len(buffer))
      /\ bufState' = "unknownMsg" /\ msgLen' = 0 /\ pc = "examining"
      /\ UNCHANGED <<pc, up, wire, nextMsg, firstMsg>>
  BY DEF ExamineComplete
<1>2. /\ n = buffer[1].len /\ n \in Nat /\ n > 0 /\ Len(buffer) > 0
      /\ buffer[1].msg = due /\ buffer[1].k = 1 /\ buffer[1] = stream[1] /\ stream # <<>>
  BY <1>1, FrontMessage
<1> HIDE DEF n
<1>3. buffer \in Seq(Byte) /\ wire \in Seq(Byte)
  BY DEF ChannelInv, TypeOK
<1>4. /\ Len(buffer) \in Nat /\ Len(wire) \in Nat
      /\ stream \in Seq(Byte) /\ Len(stream) = Len(buffer) + Len(wire)
      /\ \A i \in 1..Len(buffer) : stream[i] = buffer[i]
      /\ \A i \in 1..Len(wire) : stream[Len(buffer) + i] = wire[i]
  BY <1>3, StreamFacts DEF stream
<1>5. /\ buffer' \in Seq(Byte) /\ Len(buffer') = Len(buffer) - n
      /\ \A i \in 1..(Len(buffer) - n) : buffer'[i] = buffer[i + n]
  <2>1. \A i \in (n + 1)..Len(buffer) : i \in 1..Len(buffer) /\ buffer[i] \in Byte
    BY <1>2, <1>3, <1>4, ElementOfSeq
  <2> DEFINE a == n + 1
             l == Len(buffer)
             s == SubSeq(buffer, a, l)
  <2>2. /\ s \in Seq(Byte)
        /\ Len(s) = IF n + 1 <= Len(buffer) THEN Len(buffer) - (n + 1) + 1 ELSE 0
        /\ \A i \in 1..(Len(buffer) - (n + 1) + 1) : s[i] = buffer[(n + 1) + i - 1]
    <3>1. a \in Int /\ l \in Int /\ \A i \in a..l : buffer[i] \in Byte
      BY <1>2, <1>4, <2>1
    <3> HIDE DEF a, l
    <3>2. /\ s \in Seq(Byte) /\ Len(s) = IF a <= l THEN l - a + 1 ELSE 0
          /\ \A i \in 1..(l - a + 1) : s[i] = buffer[a + i - 1]
      BY <3>1, SubSeqProperties
    <3> QED BY <3>2 DEF a, l
  <2> HIDE DEF s
  <2>3. Len(s) = Len(buffer) - n /\ Len(buffer) - (n + 1) + 1 = Len(buffer) - n
    <3>1. n \in Nat /\ Len(buffer) \in Nat /\ n <= Len(buffer)
      BY <1>1, <1>2, <1>4
    <3>2. Len(s) = IF n + 1 <= Len(buffer) THEN Len(buffer) - (n + 1) + 1 ELSE 0
      BY <2>2
    <3> QED BY <3>1, <3>2
  <2>4. \A i \in 1..(Len(buffer) - n) : (n + 1) + i - 1 = i + n
    BY <1>2
  <2>5. buffer' = s
    BY <1>1 DEF s
  <2> QED BY <2>2, <2>3, <2>4, <2>5
<1>6. /\ stream' \in Seq(Byte) /\ Len(stream') = Len(buffer') + Len(wire)
      /\ \A i \in 1..Len(buffer') : stream'[i] = buffer'[i]
      /\ \A i \in 1..Len(wire) : stream'[Len(buffer') + i] = wire[i]
  <2> DEFINE c == buffer'
  <2>1. c \in Seq(Byte)
    BY <1>5
  <2> HIDE DEF c
  <2>2. /\ c \o wire \in Seq(Byte) /\ Len(c \o wire) = Len(c) + Len(wire)
        /\ \A i \in 1..Len(c) : (c \o wire)[i] = c[i]
        /\ \A i \in 1..Len(wire) : (c \o wire)[Len(c) + i] = wire[i]
    BY <1>3, <2>1, StreamFacts
  <2>3. stream' = c \o wire
    BY <1>1 DEF stream, c
  <2> QED BY <2>2, <2>3 DEF c
<1>7. Len(stream') = Len(stream) - n
  <2>1. n \in Nat /\ Len(buffer) \in Nat /\ Len(wire) \in Nat
    BY <1>2, <1>4
  <2>2. Len(stream) = Len(buffer) + Len(wire)
    BY <1>4
  <2>3. Len(buffer') = Len(buffer) - n
    BY <1>5
  <2>4. Len(stream') = Len(buffer') + Len(wire)
    BY <1>6
  <2> QED BY <2>1, <2>2, <2>3, <2>4
<1>8. ASSUME NEW i \in 1..Len(stream')
      PROVE  i + n \in 1..Len(stream) /\ stream'[i] = stream[i + n]
  <2>1. i + n \in 1..Len(stream)
    BY <1>2, <1>4, <1>7
  <2>2. CASE i <= Len(buffer) - n
    <3>1. i \in 1..(Len(buffer) - n) /\ i \in 1..Len(buffer') /\ i + n \in 1..Len(buffer)
      BY <1>2, <1>4, <1>5, <2>2, SMTT(60)
    <3> QED BY <1>4, <1>5, <1>6, <2>1, <3>1
  <2>3. CASE i > Len(buffer) - n
    <3> DEFINE j == i - (Len(buffer) - n)
    <3>1. j \in 1..Len(wire) /\ i = Len(buffer') + j /\ i + n = Len(buffer) + j
      <4>1. /\ i \in Nat /\ n \in Nat /\ Len(buffer) \in Nat /\ Len(wire) \in Nat
            /\ i <= (Len(buffer) - n) + Len(wire) /\ i > Len(buffer) - n
            /\ Len(buffer') = Len(buffer) - n
        BY <1>2, <1>4, <1>5, <1>6, <2>3
      <4> QED BY <4>1
    <3> HIDE DEF j
    <3>2. stream'[Len(buffer') + j] = wire[j] /\ stream[Len(buffer) + j] = wire[j]
      BY <1>4, <1>6, <3>1
    <3> QED BY <2>1, <3>1, <3>2
  <2> QED BY <1>2, <1>4, <2>2, <2>3
<1>9. /\ WholeMessages(stream')
      /\ Len(stream') > 0 => stream'[1].k = 1 /\ stream'[1].msg = stream[1].msg + 1
  <2> DEFINE s == stream'
             r == stream
  <2>1. /\ r \in Seq(Byte) /\ s \in Seq(Byte) /\ Len(r) > 0 /\ r[1].len <= Len(r)
        /\ Len(s) = Len(r) - r[1].len
        /\ \A i \in 1..Len(s) : s[i] = r[i + r[1].len]
        /\ WholeMessages(r)
    <3>1. r[1].len = n
      BY <1>2
    <3>2. Len(r) > 0 /\ n <= Len(r)
      BY <1>1, <1>2, <1>4
    <3>3. WholeMessages(r) /\ r \in Seq(Byte) /\ s \in Seq(Byte)
      BY <1>4, <1>6 DEF ChannelInv, StreamWhole
    <3>4. Len(s) = Len(r) - n /\ \A i \in 1..Len(s) : s[i] = r[i + n]
      BY <1>7, <1>8
    <3> HIDE DEF r, s
    <3> QED BY <3>1, <3>2, <3>3, <3>4
  <2> HIDE DEF r, s
  <2>2. /\ WholeMessages(s)
        /\ Len(s) > 0 => s[1].k = 1 /\ s[1].msg = r[1].msg + 1
    BY <2>1, WholeSuffix
  <2> QED BY <2>2 DEF r, s
<1>10. /\ delivered' = due /\ due \in Nat /\ due < nextMsg /\ nextMsg \in Nat
       /\ due' = due + 1
  <2>1. 1 \in 1..Len(stream)
    BY <1>2, <1>4
  <2>2. stream[1].msg < nextMsg /\ nextMsg \in Nat
    BY <2>1 DEF ChannelInv, ConnectionShape, TypeOK
  <2>3. due \in Nat /\ due >= firstMsg /\ firstMsg \in Nat
    BY DEF due, ChannelInv, TypeOK
  <2> QED BY <1>1, <1>2, <2>2, <2>3 DEF due
<1>11. StreamWhole'
  <2>1. stream' # <<>> => Len(stream') > 0
    BY <1>6, EmptySeq
  <2> QED BY <1>2, <1>9, <1>10, <2>1 DEF StreamWhole
<1>12. SenderAtEnd'
  <2> SUFFICES ASSUME up
               PROVE  IF stream' = <<>> THEN nextMsg = due'
                      ELSE /\ stream'[Len(stream')].k = stream'[Len(stream')].len
                           /\ stream'[Len(stream')].msg = nextMsg - 1
    BY <1>1 DEF SenderAtEnd
  <2>1. /\ stream[Len(stream)].k = stream[Len(stream)].len
        /\ stream[Len(stream)].msg = nextMsg - 1
    BY <1>2 DEF ChannelInv, SenderAtEnd
  <2>2. CASE stream' = <<>>
    <3>1. Len(stream) = n /\ n \in 1..Len(stream) /\ 1 \in 1..Len(stream)
      <4>1. Len(stream') = 0
        BY <2>2, EmptySeq
      <4>2. n \in Nat /\ n > 0
        BY <1>2
      <4>3. Len(stream) \in Nat
        BY <1>4
      <4>4. Len(stream) = n
        BY <1>7, <4>1, <4>2, <4>3
      <4> QED BY <4>2, <4>4
    <3>2. Agree(stream, 1, n)
      BY <3>1 DEF ChannelInv, StreamWhole, WholeMessages
    <3>3. stream[n].msg = stream[1].msg
      BY <1>2, <3>2 DEF Agree, StartOf
    <3>4. stream[n].msg = nextMsg - 1 /\ stream[1].msg = due
      BY <1>2, <2>1, <3>1
    <3>5. nextMsg \in Nat /\ due \in Nat
      BY DEF ChannelInv, TypeOK, due
    <3>6. due = nextMsg - 1
      BY <3>3, <3>4, Zenon
    <3>7. nextMsg = due + 1
      BY <3>5, <3>6
    <3> QED BY <1>10, <2>2, <3>7
  <2>3. CASE stream' # <<>>
    <3>1. Len(stream') \in 1..Len(stream') /\ Len(stream') + n = Len(stream)
      BY <1>2, <1>4, <1>6, <1>7, <2>3, EmptySeq, SMTT(60)
    <3>2. stream'[Len(stream')] = stream[Len(stream)]
      BY <1>8, <3>1
    <3> QED BY <2>1, <2>3, <3>2
  <2> QED BY <2>2, <2>3
<1>13. ConnectionShape'
  <2>1. \A i \in 1..Len(stream') : stream'[i].msg < nextMsg
    BY <1>8 DEF ChannelInv, ConnectionShape
  <2> QED BY <1>1, <1>10, <2>1 DEF ChannelInv, ConnectionShape
<1>14. TypeOK'
  <2>1. delivered' \in 0..MaxMsgs
    <3>1. buffer[1].msg \in 1..MaxMsgs
      BY <1>2, <1>3, <1>4, ByteFacts
    <3> QED BY <1>1, <3>1, ChannelAssumption
  <2>2. Len(buffer') <= MaxBytes
    BY <1>2, <1>4, <1>5, ChannelAssumption DEF ChannelInv, TypeOK
  <2> QED BY <1>1, <1>5, <2>1, <2>2 DEF ChannelInv, TypeOK
<1>15. PartialFits'
  BY <1>1 DEF PartialFits
<1> QED BY <1>10, <1>11, <1>12, <1>13, <1>14, <1>15 DEF ChannelInv

\* The initial states.
LEMMA InitHasInv == Init => ChannelInv
<1> SUFFICES ASSUME Init PROVE ChannelInv
  OBVIOUS
<1>1. stream = <<>> /\ Len(stream) = 0
  BY DEF Init, stream
<1>2. TypeOK
  <2>1. <<>> \in Seq(Byte) /\ Len(<<>>) = 0
    BY EmptySeq
  <2>2. 1 \in 1..(MaxMsgs + 1) /\ 0 \in 0..MaxMsgs /\ 0 <= MaxBytes
    BY ChannelAssumption
  <2> QED BY <2>1, <2>2 DEF Init, TypeOK
<1> QED BY <1>1, <1>2
        DEF Init, ChannelInv, StreamWhole, WholeMessages, SenderAtEnd, ConnectionShape, PartialFits

\* A step keeps the invariant, and hands over the message that is due or none.
LEMMA NextKeepsInv ==
  ChannelInv /\ [Next]_vars => ChannelInv' /\ (delivered' # delivered => delivered' = due)
<1> SUFFICES ASSUME ChannelInv, [Next]_vars
             PROVE  ChannelInv' /\ (delivered' # delivered => delivered' = due)
  OBVIOUS
<1>1. CASE Send
  BY <1>1, SendKeepsInv DEF Send, bufVars
<1>2. CASE Drop
  BY <1>2, DropKeepsInv DEF Drop, bufVars
<1>3. CASE Connected
  BY <1>3, ConnectedKeepsInv DEF Connected, bufVars
<1>4. CASE ReadFull \/ ReadRest
  BY <1>4, ReadKeepsInv DEF ReadFull, ReadRest
<1>5. CASE Reconnect
  BY <1>5, ReconnectKeepsInv DEF Reconnect
<1>6. CASE ExamineUnknown \/ ExaminePartial
  BY <1>6, ExamineOnKeepsInv DEF ExamineUnknown, ExaminePartial, bufVars
<1>7. CASE ExamineComplete
  BY <1>7, ExamineCompleteKeepsInv
<1>8. CASE UNCHANGED vars
  <2>1. stream' = stream /\ due' = due
    BY <1>8 DEF vars, stream, due
  <2> QED BY <1>8, <2>1 DEF vars, ChannelInv, TypeOK, StreamWhole, SenderAtEnd,
          ConnectionShape, PartialFits
<1> QED BY <1>1, <1>2, <1>3, <1>4, <1>5, <1>6, <1>7, <1>8
        DEF Next, ConnectFailed, Read, Examine

-----------------------------------------------------------------------------
\* The theorems

\* ChannelInv is an invariant of the channel.
THEOREM ChannelInvariant == Spec => []ChannelInv
BY InitHasInv, NextKeepsInv, PTL DEF Spec

\* The variables keep their types and no read overruns the buffer of C37_Buffer.
THEOREM ChannelTypeCorrect == Spec => []TypeOK
<1>1. ChannelInv => TypeOK
  BY DEF ChannelInv
<1> QED BY <1>1, ChannelInvariant, PTL

\* Framing never slips, for any size of the buffer and any lengths of the messages: what
\* examineBuffer takes for a header is the header of the message that is due.
THEOREM FramingHolds == Spec => []Framed
<1>1. ChannelInv => Framed
  <2> SUFFICES ASSUME ChannelInv PROVE Framed
    OBVIOUS
  <2>1. buffer \in Seq(Byte) /\ wire \in Seq(Byte) /\ Len(buffer) \in Nat
    BY LenProperties DEF ChannelInv, TypeOK
  <2>2. stream \in Seq(Byte) /\ Len(stream) \in Nat
    BY <2>1, StreamFacts, LenProperties DEF stream
  <2>3. ASSUME stream # <<>> PROVE stream[1].k = 1 /\ stream[1].msg = due
    <3>1. 1 \in 1..Len(stream)
      BY <2>2, <2>3, EmptySeq
    <3>2. stream[1].k \in 1..stream[1].len /\ stream[1].k <= 1 /\ stream[1].len \in Nat
      BY <2>2, <3>1, ByteFacts DEF ChannelInv, StreamWhole, WholeMessages
    <3> QED BY <2>3, <3>2 DEF ChannelInv, StreamWhole
  <2>4. ASSUME NEW i \in 1..(Len(stream) - 1) PROVE Follows(stream[i], stream[i + 1])
    <3>1. i \in 1..Len(stream) /\ i + 1 \in 1..Len(stream)
      BY <2>2
    <3>2. Agree(stream, i, i + 1) /\ stream[i].k \in 1..stream[i].len
      BY <3>1 DEF ChannelInv, StreamWhole, WholeMessages
    <3>3. stream[i].k \in Nat /\ stream[i].len \in Nat
      BY <2>2, <3>1, ByteFacts
    <3>4. CASE stream[i].k < stream[i].len
      <4>1. /\ i - stream[i].k < i + 1 /\ i + 1 <= i - stream[i].k + stream[i].len
            /\ (i + 1) - (i - stream[i].k) = stream[i].k + 1
        BY <3>1, <3>3, <3>4
      <4> QED BY <3>2, <3>4, <4>1 DEF Agree, StartOf, Follows
    <3>5. CASE ~(stream[i].k < stream[i].len)
      <4>1. i + 1 = i - stream[i].k + stream[i].len + 1
        BY <3>1, <3>2, <3>3, <3>5
      <4> QED BY <3>2, <3>5, <4>1 DEF Agree, StartOf, Follows
    <3> QED BY <3>4, <3>5
  <2>5. bufState = "partialMsg" => Len(buffer) >= HeaderLen /\ msgLen = buffer[1].len
    BY DEF ChannelInv, PartialFits
  <2>6. pc = "reading" /\ bufState = "partialMsg" => room > 0
    BY <2>1, ChannelAssumption DEF ChannelInv, PartialFits, TypeOK, room
  <2> QED BY <2>3, <2>4, <2>5, <2>6 DEF Framed
<1> QED BY <1>1, ChannelInvariant, PTL

\* Every message is handed over once, in the order of sending, and none that arrived is
\* skipped on a connection.
THEOREM DeliveredInOrder == Spec => InOrder
<1>1. ChannelInv /\ [Next]_vars => [delivered' # delivered => delivered' = due]_vars
  BY NextKeepsInv
<1> QED BY <1>1, ChannelInvariant, PTL DEF Spec, InOrder
=============================================================================
