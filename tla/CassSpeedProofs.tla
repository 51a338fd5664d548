--------------------------- MODULE CassSpeedProofs ---------------------------
(***************************************************************************)
(* The proofs about CassSpeed, for any rate of samples, length of chunks,  *)
(* number of clients and archive.  What a thread has computed for a sound  *)
(* client depends only on the request and on where the chunk begins: the   *)
(* invariant gives it in closed form.                                      *)
(***************************************************************************)
EXTENDS CassSpeed, FiniteSetTheorems, WellFoundedInduction, TLAPS

-----------------------------------------------------------------------------
\* The invariant

Samples == Methods \X Devices \X Nat

ClientRec == [pc : {"ready", "waiting", "reply", "ended"}, cursor : Int, got : SUBSET Samples,
              code : {"none", "data", "-1", "-2", "-3", "-4"}, end : Int, out : SUBSET Samples]

ThreadRec == [pc : {"none", "backlog", "receive", "query", "compress", "describe"},
              itter : Nat \ {0}, start : Nat \cup {Unset}, firstsample : BOOLEAN,
              vec : SUBSET Nat, own : Nat, out : SUBSET Samples, has : BOOLEAN, end : Int,
              failed : BOOLEAN]

TypeInv ==
  /\ store \in Archives /\ req \in [Clients -> Requests]
  /\ client \in [Clients -> ClientRec] /\ thread \in [Clients -> ThreadRec]
  /\ spoilt \in [Clients -> SUBSET {"raced", "wrapped", "partial"}]
  /\ numsamples \in Nat /\ leaked \in Nat /\ faults \in 0..MaxFaults /\ up \in BOOLEAN

\* The sockets left open and those of the threads at work are within the limit.
DescriptorInv == leaked + Cardinality(Serving) <= MaxFds

\* The place of a thread, and of its client.
PlaceInv(c) ==
  /\ thread[c].itter <= Len(req[c].devices) + 1
  /\ thread[c].pc \in {"compress", "describe"} => thread[c].itter <= Len(req[c].devices)
  /\ ~thread[c].firstsample => thread[c].start # Unset
  /\ IsFiniteSet(thread[c].vec)
  /\ client[c].pc \in {"ready", "reply"} => thread[c].pc = "none"
  /\ thread[c].pc = "none" => thread[c] = NoData

\* The chunk of request r that begins at time t: where it ends, the second it begins in
\* and its last second, its first and its last sample, the number of values returned for
\* it, the samples these stand for and the times at which it may start and stop.
Stop(r, t)  == Min({t + Delta(r), r.to})
FirstSecond(t)   == t \div Sec
LastSecond(r, t) == (Stop(r, t) - 1) \div Sec
Base(t)     == FirstSecond(t) * Rate + ToSkip(t)
Top(r, t)   == (LastSecond(r, t) + 1) * Rate - 1
Count(r, t) == Outputs(LastMethod(r.methods), Top(r, t) - Base(t) + 1, r.step)
Chunk(r, t) == Base(t)..(Base(t) + Count(r, t) * r.step - 1)
Starts(t)   == {FirstSecond(t) * Sec + w : w \in SkipTimes(ToSkip(t))}
Stops(r, t) == {v + (Count(r, t) * Sec * r.step) \div Rate : v \in Starts(t)}

\* Its samples are enough for a step.
Filled(r, t) == r.methods # {"Raw"} => r.step <= Top(r, t) - Base(t) + 1

\* out has the samples chunk of device d, for all the methods.
Holds(out, methods, d, chunk) == \A m \in methods, q \in chunk : <<m, d, q>> \in out

\* A sound client does not fall behind the second that its range begins in, and what it
\* asks for begins before its range ends.
RangeInv(c) == Sound(c) =>
  /\ FirstSecond(req[c].from) <= FirstSecond(client[c].cursor)
  /\ client[c].pc # "ended" \/ thread[c].pc # "none" => client[c].cursor < req[c].to

\* What the thread of a sound client has computed.
WorkInv(c) == Sound(c) =>
  /\ ~thread[c].firstsample => thread[c].start \in Starts(client[c].cursor)
  /\ thread[c].pc \in {"compress", "describe"} => ~thread[c].firstsample
  /\ thread[c].pc = "compress" => thread[c].vec = Base(client[c].cursor)..Top(req[c], client[c].cursor)
  /\ thread[c].pc = "describe" =>
       /\ thread[c].own = Count(req[c], client[c].cursor) /\ Filled(req[c], client[c].cursor)
       /\ Holds(thread[c].out, req[c].methods, Device(c), Chunk(req[c], client[c].cursor))
  /\ thread[c].has => /\ thread[c].end \in Stops(req[c], client[c].cursor)
                      /\ Filled(req[c], client[c].cursor)
  /\ ~thread[c].failed => \A i \in 1..(thread[c].itter - 1) :
       Holds(thread[c].out, req[c].methods, req[c].devices[i], Chunk(req[c], client[c].cursor))

\* What its answer holds.
AnswerInv(c) == Sound(c) /\ client[c].pc = "reply" /\ client[c].code = "data" =>
  /\ client[c].end \in Stops(req[c], client[c].cursor) /\ Filled(req[c], client[c].cursor)
  /\ \A i \in 1..Len(req[c].devices) :
       Holds(client[c].out, req[c].methods, req[c].devices[i], Chunk(req[c], client[c].cursor))

\* NothingSkipped, for one client.
GotInv(c) == Sound(c) =>
  \A i \in 1..Len(req[c].devices), m \in req[c].methods :
    \A s \in store[req[c].devices[i]] : \A q \in (s * Rate)..(s * Rate + Rate - 1) :
      (req[c].from * Rate <= q * Sec /\ q * Sec < client[c].cursor * Rate)
        => <<m, req[c].devices[i], q>> \in client[c].got

ClientInv(c) == PlaceInv(c) /\ RangeInv(c) /\ WorkInv(c) /\ AnswerInv(c) /\ GotInv(c)

CassInv == TypeInv /\ DescriptorInv /\ (\A c \in Clients : ClientInv(c)) /\ ServerSurvives

-----------------------------------------------------------------------------
\* Arithmetic

\* Quotient and remainder.
LEMMA DivMod == ASSUME NEW x \in Int, NEW y \in Nat \ {0}
                PROVE  /\ x \div y \in Int /\ x % y \in 0..(y - 1)
                       /\ x = y * (x \div y) + (x % y)
OBVIOUS

\* The quotient of natural numbers.
LEMMA DivNat == ASSUME NEW x \in Nat, NEW y \in Nat \ {0}
                PROVE  x \div y \in Nat /\ y * (x \div y) <= x
OBVIOUS

\* A product with a larger factor is larger.
LEMMA Times == ASSUME NEW x \in Int, NEW y \in Int, NEW z \in Nat, x <= y
               PROVE  x * z <= y * z /\ z * x <= z * y
OBVIOUS

\* A factor can be taken away.
LEMMA Factor == ASSUME NEW x \in Int, NEW y \in Int, NEW z \in Nat \ {0}, x * z < y * z
                PROVE  x < y
OBVIOUS

\* The product of natural numbers.
LEMMA NatTimes == ASSUME NEW x \in Nat, NEW y \in Nat
                  PROVE  x * y \in Nat
OBVIOUS

\* Quotients keep the order.
LEMMA DivLess == ASSUME NEW x \in Int, NEW y \in Int, NEW z \in Nat \ {0}, x <= y
                 PROVE  x \div z <= y \div z
OBVIOUS

\* What is between two multiples has that quotient.
LEMMA DivBounds == ASSUME NEW x \in Int, NEW n \in Int, NEW z \in Nat \ {0}
                   PROVE  /\ n * z <= x <=> n <= x \div z
                          /\ x < (n + 1) * z <=> x \div z <= n
OBVIOUS

\* What is left over is less than the divisor.
LEMMA DivRest == ASSUME NEW x \in Nat, NEW y \in Nat \ {0}
                 PROVE  x \div y \in Nat /\ x < (x \div y) * y + y
<1>1. x \div y \in Nat
  OBVIOUS
<1>2. PICK z \in Nat : z = x \div y
  BY <1>1
<1>3. x < (z + 1) * y
  BY <1>2, DivBounds
<1>4. (z + 1) * y = z * y + y
  BY <1>2
<1>. QED
  BY <1>1, <1>2, <1>3, <1>4

-----------------------------------------------------------------------------
\* Sets of integers

\* The least element.
LEMMA MinOf == ASSUME NEW S \in SUBSET Int, NEW x \in S, \A y \in S : x <= y
               PROVE  Min(S) = x
<1>1. \A y \in S : (\A z \in S : y <= z) => y = x
  BY SMT
<1>2. \E y \in S : \A z \in S : y <= z
  OBVIOUS
<1>. QED
  BY <1>1, <1>2 DEF Min

\* The lesser of two.
LEMMA MinTwo == ASSUME NEW x \in Int, NEW y \in Int
                PROVE  Min({x, y}) = IF x <= y THEN x ELSE y
<1>1. CASE x <= y
  <2>1. {x, y} \in SUBSET Int /\ x \in {x, y} /\ \A z \in {x, y} : x <= z
    BY <1>1
  <2>2. Min({x, y}) = x
    BY <2>1, MinOf, Zenon
  <2>. QED
    BY <1>1, <2>2
<1>2. CASE ~(x <= y)
  <2>1. {x, y} \in SUBSET Int /\ y \in {x, y} /\ \A z \in {x, y} : y <= z
    BY <1>2
  <2>2. Min({x, y}) = y
    BY <2>1, MinOf, Zenon
  <2>. QED
    BY <1>2, <2>2
<1>. QED
  BY <1>1, <1>2

\* A set of natural numbers that is not empty has a least element.
LEMMA NatMin == ASSUME NEW S \in SUBSET Nat, S # {}
                PROVE  \E x \in S : \A y \in S : x <= y
<1>. DEFINE Less == {p \in Nat \X Nat : p[1] < p[2]}
<1>1. IsWellFoundedOn(Less, Nat)
  BY NatLessThanWellFounded, Zenon DEF OpToRel
<1>2. \A x \in Nat, y \in Nat : <<y, x>> \notin Less => x <= y
  BY SMT
<1>. HIDE DEF Less
<1>3. PICK x \in S : \A y \in S : ~(<<y, x>> \in Less)
  BY <1>1, WFMin, Zenon
<1>. QED
  BY <1>2, <1>3

\* Min finds it.
LEMMA MinNat == ASSUME NEW S \in SUBSET Nat, S # {}
                PROVE  Min(S) \in S
<1>1. PICK x \in S : \A y \in S : x <= y
  BY NatMin
<1>2. Min(S) = x
  BY <1>1, MinOf
<1>. QED
  BY <1>2

\* The first k elements of an interval.
LEMMA FirstOf == ASSUME NEW a \in Int, NEW b \in Int, NEW k \in Nat, k <= b - a + 1
                 PROVE  First(a..b, k) = a..(a + k - 1)
<1>1. ASSUME NEW q \in a..b
      PROVE  Cardinality({p \in a..b : p < q}) = q - a
  <2>1. {p \in a..b : p < q} = a..(q - 1)
    OBVIOUS
  <2>2. PICK r \in Int : r = q - 1
    OBVIOUS
  <2>3. Cardinality(a..r) = IF a > r THEN 0 ELSE r - a + 1
    BY FS_Interval
  <2>4. Cardinality(a..r) = q - a
    BY <2>2, <2>3
  <2>. QED
    BY <2>1, <2>2, <2>4
<1>2. First(a..b, k) = {q \in a..b : q - a < k}
  BY <1>1 DEF First
<1>3. {q \in a..b : q - a < k} = a..(a + k - 1)
  OBVIOUS
<1>. QED
  BY <1>2, <1>3

\* The samples of seconds in a row.
LEMMA SamplesOfRow == ASSUME NEW f \in Nat, NEW l \in Nat, f <= l
                      PROVE  SamplesOf(f..l) = (f * Rate)..((l + 1) * Rate - 1)
<1>. USE CassSpeedAssumption
<1>1. ASSUME NEW q \in SamplesOf(f..l)
      PROVE  q \in (f * Rate)..((l + 1) * Rate - 1)
  <2>1. PICK s \in f..l : q \in (s * Rate)..(s * Rate + Rate - 1)
    BY DEF SamplesOf
  <2>2. f * Rate <= s * Rate /\ (s + 1) * Rate <= (l + 1) * Rate
    BY Times
  <2>3. (s + 1) * Rate = s * Rate + Rate /\ s * Rate \in Int /\ (l + 1) * Rate \in Int /\ f * Rate \in Int
    OBVIOUS
  <2>. QED
    BY <2>1, <2>2, <2>3
<1>2. ASSUME NEW q \in (f * Rate)..((l + 1) * Rate - 1)
      PROVE  q \in SamplesOf(f..l)
  <2>1. q \in Int /\ f * Rate <= q /\ q < (l + 1) * Rate
    OBVIOUS
  <2>2. f <= q \div Rate /\ q \div Rate <= l /\ q \div Rate \in Int
    BY <2>1, DivBounds, DivMod
  <2>3. PICK s \in f..l : s = q \div Rate
    <3>1. q \div Rate \in f..l
      BY <2>2
    <3>. QED
      BY <3>1, Zenon
  <2>4. s * Rate <= q /\ q < (s + 1) * Rate
    BY <2>1, <2>3, DivBounds
  <2>5. (s + 1) * Rate = s * Rate + Rate /\ s * Rate \in Int
    OBVIOUS
  <2>6. q \in (s * Rate)..(s * Rate + Rate - 1)
    BY <2>1, <2>4, <2>5
  <2>. QED
    BY <2>6 DEF SamplesOf
<1>. QED
  BY <1>1, <1>2

-----------------------------------------------------------------------------
\* Chunks

\* A client that does not fall behind: its chunk begins in a second of data, and its first
\* sample is not later than its beginning.
LEMMA ChunkBegins ==
  ASSUME NEW r \in Requests, NEW t \in Int, FirstSecond(r.from) <= FirstSecond(t)
  PROVE  /\ FirstSecond(t) \in Nat \ {0} /\ FirstSecond(t) * Sec <= t /\ t < (FirstSecond(t) + 1) * Sec
         /\ ToSkip(t) \in 0..(Rate - 1)
         /\ Base(t) \in Nat /\ Base(t) * Sec <= t * Rate
<1>. DEFINE f == FirstSecond(t)
            x == t % Sec
            k == ToSkip(t)
<1>a. Rate \in Nat \ {0} /\ Sec \in Nat \ {0} /\ r.from \in Nat /\ r.from >= Sec
  BY CassSpeedAssumption
<1>1. f \in Nat \ {0}
  <2>1. 1 <= r.from \div Sec
    BY <1>a, DivBounds, 1 * Sec = Sec
  <2>2. t \div Sec \in Int /\ r.from \div Sec \in Int
    BY <1>a
  <2>. QED
    BY <2>1, <2>2 DEF FirstSecond
<1>2. f * Sec <= t /\ t < (f + 1) * Sec
  BY <1>a, <1>1, DivBounds DEF FirstSecond
<1>3. x \in 0..(Sec - 1) /\ t = f * Sec + x
  <2>1. x \in 0..(Sec - 1)
    BY <1>a
  <2>2. t = Sec * (t \div Sec) + (t % Sec)
    BY <1>a, DivMod, Zenon
  <2>3. t \div Sec \in Int
    BY <1>a
  <2>. QED
    BY <1>a, <2>1, <2>2, <2>3 DEF FirstSecond
<1>. HIDE DEF f, x
<1>4. x * Rate \in Nat /\ k = (x * Rate) \div Sec
  BY <1>a, <1>3 DEF ToSkip, x
<1>5. k \in Nat /\ k * Sec <= x * Rate
  BY <1>a, <1>4, DivNat
<1>6. k < Rate
  <2>1. x * Rate <= (Sec - 1) * Rate /\ (Sec - 1) * Rate < Rate * Sec
    <3>1. x <= Sec - 1 /\ Sec - 1 \in Int
      BY <1>a, <1>3
    <3>2. x * Rate <= (Sec - 1) * Rate
      BY <1>a, <1>3, <3>1, Times
    <3>3. (Sec - 1) * Rate = Rate * Sec - Rate /\ Rate * Sec \in Int
      BY <1>a
    <3>. QED
      BY <1>a, <3>2, <3>3
  <2>2. k * Sec < Rate * Sec
    BY <1>a, <1>4, <1>5, <2>1
  <2>. QED
    BY <1>a, <1>5, <2>2, Factor
<1>. HIDE DEF k
<1>7. f * Rate \in Nat /\ f * Sec \in Nat /\ k * Sec \in Nat
  BY <1>a, <1>1, <1>5
<1>8. (f * Rate + k) * Sec = (f * Sec) * Rate + k * Sec
  BY <1>a, <1>1, <1>5
<1>9. (f * Sec + x) * Rate = (f * Sec) * Rate + x * Rate
  BY <1>a, <1>1, <1>3
<1>10. (f * Sec) * Rate \in Nat
  BY <1>a, <1>7
<1>11. (f * Rate + k) * Sec <= t * Rate
  BY <1>3, <1>4, <1>5, <1>7, <1>8, <1>9, <1>10
<1>12. Base(t) = f * Rate + k
  BY DEF Base, f, k
<1>13. f * Rate + k \in Nat /\ k \in 0..(Rate - 1)
  BY <1>a, <1>5, <1>6, <1>7
<1>14. f = FirstSecond(t) /\ k = ToSkip(t)
  BY DEF f, k
<1>. QED
  BY <1>1, <1>2, <1>11, <1>12, <1>13, <1>14

\* However it is rounded, the time that skipped samples take is short by less than a sample.
LEMMA SkipShort ==
  ASSUME NEW k \in Nat, NEW w \in SkipTimes(k)
  PROVE  w \in Nat /\ w * Rate <= k * Sec /\ k * Sec <= w * Rate + Rate
<1>a. Rate \in Nat \ {0} /\ Sec \in Nat \ {0}
  BY CassSpeedAssumption
<1>1. CASE k = 0
  <2>1. w = 0 /\ k * Sec = 0 /\ w * Rate = 0
    BY <1>1, <1>a DEF SkipTimes
  <2>. QED
    BY <2>1, <1>a
<1>2. CASE k # 0
  <2>1. PICK p \in Nat : p = k * Sec /\ 1 <= p
    <3>1. 1 * Sec <= k * Sec
      BY <1>a, <1>2, Times
    <3>. QED
      BY <1>a, <3>1, NatTimes
  <2>2. PICK y \in {p - 1, p} : w = y \div Rate
    BY <1>2, <2>1 DEF SkipTimes
  <2>3. y \in Nat /\ y <= p /\ p <= y + 1
    BY <2>1, <2>2
  <2>4. w \in Nat /\ Rate * w <= y
    BY <1>a, <2>2, <2>3, DivNat
  <2>5. y < w * Rate + Rate
    BY <1>a, <2>2, <2>3, DivRest
  <2>6. w * Rate = Rate * w /\ w * Rate \in Nat
    BY <1>a, <2>4, NatTimes
  <2>. QED
    BY <1>a, <2>1, <2>3, <2>4, <2>5, <2>6
<1>. QED
  BY <1>1, <1>2

\* The first sample of a chunk is less than a sample's time before its beginning.
LEMMA ChunkOpens ==
  ASSUME NEW r \in Requests, NEW t \in Int, FirstSecond(r.from) <= FirstSecond(t)
  PROVE  t * Rate < Base(t) * Sec + Sec
<1>. DEFINE f == FirstSecond(t)
            x == t % Sec
            k == ToSkip(t)
<1>a. Rate \in Nat \ {0} /\ Sec \in Nat \ {0}
  BY CassSpeedAssumption
<1>b. f \in Nat \ {0} /\ k \in 0..(Rate - 1)
  BY ChunkBegins
<1>c. Base(t) = f * Rate + k
  BY DEF Base
<1>1. x \in Nat /\ t = f * Sec + x
  <2>1. x \in 0..(Sec - 1)
    BY <1>a
  <2>2. t = Sec * (t \div Sec) + (t % Sec)
    BY <1>a, DivMod, Zenon
  <2>3. t \div Sec \in Int
    BY <1>a
  <2>. QED
    BY <1>a, <2>1, <2>2, <2>3 DEF FirstSecond
<1>2. k = (x * Rate) \div Sec
  BY DEF ToSkip
<1>. HIDE DEF f, x, k
<1>3. x * Rate \in Nat /\ k \in Nat /\ k * Sec \in Nat
  BY <1>a, <1>b, <1>1, NatTimes
<1>4. x * Rate < k * Sec + Sec
  <2>1. PICK y \in Nat : y = x * Rate
    BY <1>3
  <2>. QED
    BY <1>a, <1>2, <2>1, DivRest
<1>5. (f * Rate + k) * Sec = (f * Sec) * Rate + k * Sec
  BY <1>a, <1>b, <1>3
<1>6. (f * Sec + x) * Rate = (f * Sec) * Rate + x * Rate
  BY <1>a, <1>b, <1>1
<1>7. (f * Sec) * Rate \in Nat
  BY <1>a, <1>b, NatTimes
<1>. QED
  BY <1>a, <1>c, <1>1, <1>3, <1>4, <1>5, <1>6, <1>7

\* The time at which a chunk may start is that of its first sample or earlier by less than a
\* sample, and in the same second.
LEMMA ChunkStart ==
  ASSUME NEW r \in Requests, NEW t \in Int, FirstSecond(r.from) <= FirstSecond(t), NEW v \in Starts(t)
  PROVE  /\ v \in Nat /\ FirstSecond(t) * Sec <= v
         /\ v * Rate <= Base(t) * Sec /\ Base(t) * Sec <= v * Rate + Rate
<1>. DEFINE f == FirstSecond(t)
            k == ToSkip(t)
<1>a. Rate \in Nat \ {0} /\ Sec \in Nat \ {0}
  BY CassSpeedAssumption
<1>b. f \in Nat \ {0} /\ k \in Nat /\ Base(t) = f * Rate + k
  BY ChunkBegins, <1>a DEF Base
<1>1. PICK w \in SkipTimes(k) : v = f * Sec + w
  BY DEF Starts
<1>. HIDE DEF f, k
<1>2. w \in Nat /\ w * Rate <= k * Sec /\ k * Sec <= w * Rate + Rate
  BY <1>b, SkipShort
<1>3. f * Sec \in Nat /\ k * Sec \in Nat /\ w * Rate \in Nat
  BY <1>a, <1>b, <1>2, NatTimes
<1>4. (f * Rate + k) * Sec = (f * Sec) * Rate + k * Sec
  BY <1>a, <1>b
<1>5. (f * Sec + w) * Rate = (f * Sec) * Rate + w * Rate
  BY <1>a, <1>2, <1>3
<1>6. (f * Sec) * Rate \in Nat
  BY <1>a, <1>3, NatTimes
<1>7. v * Rate <= Base(t) * Sec /\ Base(t) * Sec <= v * Rate + Rate
  BY <1>a, <1>b, <1>1, <1>2, <1>3, <1>4, <1>5, <1>6
<1>8. v \in Nat /\ f * Sec <= v
  BY <1>1, <1>2, <1>3
<1>. QED
  BY <1>7, <1>8 DEF f

\* A chunk is not empty, and a second at least if the longest one is.
LEMMA DeltaPositive == ASSUME NEW r \in Requests
                       PROVE  Delta(r) \in Nat \ {0} /\ (Sec <= MaxDelta => Sec <= Delta(r))
<1>. DEFINE bps == ((Rate * 4 * Len(r.devices) * r.sets) \div r.step) * Cardinality(r.methods)
            u == IF bps = 0 THEN 0 ELSE Target \div bps
<1>a. /\ Rate \in Nat /\ Sec \in Nat \ {0} /\ Target \in Nat /\ MaxDelta \in Nat \ {0}
      /\ r.devices \in Seq(Devices) /\ r.sets \in 1..12 /\ r.step \in Nat \ {0} /\ r.methods \subseteq Methods
  BY CassSpeedAssumption
<1>1. Len(r.devices) \in Nat
  BY <1>a
<1>2. Cardinality(r.methods) \in Nat
  <2>1. IsFiniteSet({"Min"} \cup {"Max"} \cup {"Avg"} \cup {"Skip"} \cup {"Raw"})
    BY FS_Singleton, FS_Union
  <2>2. Methods = {"Min"} \cup {"Max"} \cup {"Avg"} \cup {"Skip"} \cup {"Raw"}
    BY DEF Methods
  <2>3. IsFiniteSet(r.methods)
    BY <1>a, <2>1, <2>2, FS_Subset, Zenon
  <2>. QED
    BY <2>3, FS_CardinalityType
<1>b. Rate \in Nat
  BY <1>a
<1>c. Rate * 4 \in Nat
  BY <1>b
<1>d. r.sets \in Nat
  <2>1. r.sets \in 1..12
    BY <1>a
  <2>. QED
    BY <2>1
<1>3. Rate * 4 \in Nat /\ r.sets \in Nat
  BY <1>c, <1>d
<1>4. Rate * 4 * Len(r.devices) \in Nat
  BY <1>1, <1>3, NatTimes
<1>5. Rate * 4 * Len(r.devices) * r.sets \in Nat
  BY <1>3, <1>4, NatTimes
<1>6. (Rate * 4 * Len(r.devices) * r.sets) \div r.step \in Nat
  BY <1>a, <1>5, DivNat
<1>7. bps \in Nat
  BY <1>2, <1>6
<1>8. Delta(r) = IF u = 0 THEN MaxDelta ELSE u * Sec
  BY DEF Delta
<1>. HIDE DEF bps
<1>9. u \in Nat
  BY <1>a, <1>7, DivNat
<1>. HIDE DEF u
<1>10. u # 0 => u * Sec \in Nat \ {0} /\ Sec <= u * Sec
  <2>1. u # 0 => 1 * Sec <= u * Sec
    BY <1>a, <1>9, Times
  <2>. QED
    BY <1>a, <1>9, <2>1
<1>. QED
  BY <1>a, <1>8, <1>10

\* A chunk within the range: it ends after its beginning, and its last second is not
\* before its first.
LEMMA ChunkEnds ==
  ASSUME NEW r \in Requests, NEW t \in Int, FirstSecond(r.from) <= FirstSecond(t), t < r.to
  PROVE  /\ Stop(r, t) \in Int /\ t < Stop(r, t) /\ Stop(r, t) <= r.to
         /\ LastSecond(r, t) \in Nat /\ FirstSecond(t) <= LastSecond(r, t)
         /\ LastSecond(r, t) * Sec < Stop(r, t) /\ Stop(r, t) <= (LastSecond(r, t) + 1) * Sec
         /\ Top(r, t) \in Nat /\ Base(t) <= Top(r, t) /\ FirstSecond(t) * Rate + Rate - 1 <= Top(r, t)
<1>. DEFINE e == Stop(r, t)
            f == FirstSecond(t)
            l == LastSecond(r, t)
<1>a. /\ Rate \in Nat \ {0} /\ Sec \in Nat \ {0} /\ r.to \in Nat
  BY CassSpeedAssumption
<1>b. Delta(r) \in Nat \ {0}
  BY DeltaPositive
<1>1. e \in {t + Delta(r), r.to} /\ e <= r.to
  <2>. DEFINE z == t + Delta(r)
  <2>1. z \in Int /\ e = Min({z, r.to})
    BY <1>b DEF Stop
  <2>. HIDE DEF z, e
  <2>2. Min({z, r.to}) = IF z <= r.to THEN z ELSE r.to
    BY <1>a, <2>1, MinTwo
  <2>3. e <= r.to /\ (e = z \/ e = r.to)
    BY <1>a, <2>1, <2>2
  <2>. QED
    BY <2>3 DEF z
<1>2. e \in Int /\ t < e
  BY <1>a, <1>b, <1>1
<1>. HIDE DEF e
<1>3. f \in Nat \ {0} /\ f * Sec <= t /\ ToSkip(t) \in 0..(Rate - 1) /\ Base(t) = f * Rate + ToSkip(t)
  BY ChunkBegins DEF Base
<1>. HIDE DEF f
<1>4. l = (e - 1) \div Sec
  BY DEF LastSecond, e
<1>. HIDE DEF l
<1>5. PICK y \in Int : y = e - 1
  BY <1>2
<1>6. l = y \div Sec /\ l \in Int
  BY <1>a, <1>4, <1>5
<1>7. f <= l
  <2>1. f * Sec <= y /\ f \in Int
    BY <1>2, <1>3, <1>5, <1>a
  <2>. QED
    BY <1>a, <1>6, <2>1, DivBounds
<1>8. l * Sec <= y /\ y < (l + 1) * Sec
  BY <1>a, <1>6, DivBounds
<1>9. l * Sec < e /\ e <= (l + 1) * Sec
  BY <1>a, <1>2, <1>5, <1>6, <1>8
<1>10. (f + 1) * Rate <= (l + 1) * Rate /\ (f + 1) * Rate = f * Rate + Rate
  BY <1>a, <1>3, <1>6, <1>7, Times
<1>11. Top(r, t) = (l + 1) * Rate - 1
  BY DEF Top, l
<1>12. (l + 1) * Rate \in Int /\ f * Rate \in Nat
  BY <1>a, <1>3, <1>6
<1>13. Top(r, t) \in Nat /\ Base(t) <= Top(r, t) /\ f * Rate + Rate - 1 <= Top(r, t)
  BY <1>a, <1>3, <1>10, <1>11, <1>12
<1>14. e = Stop(r, t) /\ f = FirstSecond(t) /\ l = LastSecond(r, t)
  BY DEF e, f, l
<1>15. l \in Nat
  BY <1>3, <1>6, <1>7
<1>. QED
  BY <1>1, <1>2, <1>7, <1>9, <1>13, <1>14, <1>15

\* The number of values of a chunk.
LEMMA ChunkCount ==
  ASSUME NEW r \in Requests, NEW t \in Int, FirstSecond(r.from) <= FirstSecond(t), t < r.to
  PROVE  Count(r, t) \in Nat
<1>. DEFINE n == Top(r, t) - Base(t) + 1
<1>a. r.step \in Nat \ {0}
  BY CassSpeedAssumption
<1>b. Base(t) \in Nat /\ Top(r, t) \in Nat /\ Base(t) <= Top(r, t)
  BY ChunkBegins, ChunkEnds
<1>1. n \in Nat /\ n - 1 \in Nat
  BY <1>b
<1>2. Count(r, t) \in {n, (n - 1) \div r.step, n \div r.step}
  BY DEF Count, Outputs
<1>. HIDE DEF n
<1>. QED
  BY <1>a, <1>1, <1>2, DivNat

\* What a chunk covers reaches the time at which it stops.
LEMMA ChunkStops ==
  ASSUME NEW r \in Requests, NEW t \in Int, FirstSecond(r.from) <= FirstSecond(t), t < r.to,
         NEW e \in Stops(r, t)
  PROVE  /\ e \in Nat /\ FirstSecond(t) * Sec <= e
         /\ e * Rate <= (Base(t) + Count(r, t) * r.step) * Sec
<1>. DEFINE g == Count(r, t)
            p == g * Sec * r.step
            b == Base(t)
            f == FirstSecond(t) * Sec
<1>a. Rate \in Nat \ {0} /\ Sec \in Nat \ {0} /\ r.step \in Nat \ {0}
  BY CassSpeedAssumption
<1>1. PICK v \in Starts(t) : e = v + p \div Rate
  BY DEF Stops
<1>b. v \in Nat /\ b \in Nat /\ v * Rate <= b * Sec /\ f <= v
  BY ChunkBegins, ChunkStart
<1>c. f \in Nat
  BY <1>a, ChunkBegins, NatTimes
<1>d. g \in Nat
  BY ChunkCount
<1>. HIDE DEF g, b, f
<1>2. p \in Nat /\ p = (g * r.step) * Sec
  <2>1. g * Sec \in Nat /\ g * r.step \in Nat
    BY <1>a, <1>d, NatTimes
  <2>2. p \in Nat
    BY <1>a, <2>1, NatTimes
  <2>. QED
    BY <1>a, <1>d, <2>2
<1>. HIDE DEF p
<1>3. PICK z \in Nat : z = p \div Rate /\ Rate * z <= p
  BY <1>a, <1>2, DivNat
<1>4. (v + z) * Rate = v * Rate + Rate * z
  BY <1>a, <1>b, <1>3
<1>5. g * r.step \in Nat
  BY <1>a, <1>d, NatTimes
<1>6. (b + g * r.step) * Sec = b * Sec + (g * r.step) * Sec
  BY <1>a, <1>b, <1>5
<1>7. v * Rate \in Nat /\ Rate * z \in Nat /\ b * Sec \in Nat /\ (g * r.step) * Sec \in Nat
  BY <1>a, <1>b, <1>3, <1>5, NatTimes
<1>8. (v + z) * Rate <= (b + g * r.step) * Sec
  BY <1>b, <1>2, <1>3, <1>4, <1>6, <1>7
<1>9. e = v + z /\ e \in Nat /\ f <= e
  BY <1>b, <1>c, <1>1, <1>3
<1>. QED
  BY <1>8, <1>9 DEF g, b, f

\* The samples of a chunk are those between its beginning and the time at which it stops.
LEMMA ChunkReaches ==
  ASSUME NEW r \in Requests, NEW t \in Int, FirstSecond(r.from) <= FirstSecond(t), t < r.to,
         NEW e \in Stops(r, t), NEW q \in Int, t * Rate <= q * Sec, q * Sec < e * Rate
  PROVE  q \in Chunk(r, t)
<1>. DEFINE b == Base(t)
            g == Count(r, t) * r.step
<1>a. Rate \in Nat \ {0} /\ Sec \in Nat \ {0} /\ r.step \in Nat \ {0}
  BY CassSpeedAssumption
<1>b. b \in Nat /\ b * Sec <= t * Rate
  BY ChunkBegins
<1>c. Count(r, t) \in Nat /\ e \in Nat /\ e * Rate <= (b + g) * Sec
  BY ChunkCount, ChunkStops
<1>1. g \in Nat
  BY <1>a, <1>c, NatTimes
<1>2. Chunk(r, t) = b..(b + g - 1)
  BY DEF Chunk
<1>. HIDE DEF b, g
<1>3. /\ b * Sec \in Int /\ t * Rate \in Int /\ q * Sec \in Int /\ (b + g) * Sec \in Int
      /\ e * Rate \in Int
  BY <1>a, <1>b, <1>c, <1>1
<1>4. b <= q
  <2>1. q * Sec < b * Sec => q < b
    BY <1>a, <1>b, Factor
  <2>2. ~(q < b) => b <= q
    BY <1>b
  <2>3. q < b => q * Sec < b * Sec
    <3>1. q < b => (q + 1) * Sec <= b * Sec /\ (q + 1) * Sec = q * Sec + Sec
      BY <1>a, <1>b, Times
    <3>. QED
      BY <1>a, <1>3, <3>1
  <2>. QED
    BY <1>b, <1>3, <2>2, <2>3
<1>5. q < b + g
  <2>1. q * Sec < (b + g) * Sec
    BY <1>c, <1>3
  <2>. QED
    BY <1>a, <1>b, <1>1, <2>1, Factor
<1>. QED
  BY <1>b, <1>1, <1>2, <1>4, <1>5

\* All methods of a request cover its chunks.
LEMMA ChunkCovered ==
  ASSUME NEW r \in Requests, NEW t \in Int, FirstSecond(r.from) <= FirstSecond(t), t < r.to,
         "Raw" \in r.methods => r.step = 1 /\ "Skip" \notin r.methods, NEW m \in r.methods
  PROVE  Chunk(r, t) \subseteq Covered(m, Base(t)..Top(r, t), r.step)
<1>. DEFINE b == Base(t)
            n == Top(r, t) - b + 1
            g == Count(r, t) * r.step
            o == Outputs(m, n, r.step)
            k == IF m = "Raw" THEN o ELSE o * r.step
<1>a. r.step \in Nat \ {0} /\ r.methods \subseteq Methods
  BY CassSpeedAssumption
<1>b. b \in Nat /\ Top(r, t) \in Nat /\ b <= Top(r, t)
  BY ChunkBegins, ChunkEnds
<1>c. Count(r, t) \in Nat
  BY ChunkCount
<1>1. n \in Nat /\ n - 1 \in Nat /\ Top(r, t) = b + n - 1
  BY <1>b
<1>2. Cardinality(b..Top(r, t)) = n
  <2>1. Cardinality(b..Top(r, t)) = IF b > Top(r, t) THEN 0 ELSE Top(r, t) - b + 1
    BY <1>b, FS_Interval
  <2>. QED
    BY <1>b, <2>1
<1>3. Count(r, t) = Outputs(LastMethod(r.methods), n, r.step)
  BY DEF Count
<1>4. Covered(m, b..Top(r, t), r.step) = First(b..Top(r, t), k)
  BY <1>2 DEF Covered
<1>5. Chunk(r, t) = b..(b + g - 1)
  BY DEF Chunk
<1>. HIDE DEF b, n
<1>6. /\ n \div r.step \in Nat /\ (n - 1) \div r.step \in Nat /\ r.step * (n \div r.step) <= n
      /\ (n - 1) \div r.step <= n \div r.step
  BY <1>a, <1>1, DivNat, DivLess
<1>7. k \in Nat /\ g \in Nat /\ k <= n /\ g <= k
  <2>1. CASE "Raw" \in r.methods
    <3>1. r.step = 1 /\ m # "Skip" /\ n \div 1 = n
      BY <2>1, <1>1
    <3>2. o = n /\ k = n
      BY <1>1, <3>1 DEF Outputs
    <3>3. Count(r, t) = n
      BY <2>1, <1>3 DEF LastMethod, Outputs
    <3>. QED
      BY <1>1, <3>1, <3>2, <3>3
  <2>2. CASE "Raw" \notin r.methods
    <3>1. m # "Raw" /\ (m = "Skip" => "Skip" \in r.methods)
      BY <2>2
    <3>2. o = (IF m = "Skip" THEN (n - 1) \div r.step ELSE n \div r.step) /\ k = o * r.step
      BY <3>1 DEF Outputs
    <3>3. Count(r, t) = IF "Skip" \in r.methods THEN (n - 1) \div r.step ELSE n \div r.step
      BY <2>2, <1>3 DEF LastMethod, Outputs
    <3>. HIDE DEF o
    <3>4. o \in Nat /\ Count(r, t) <= o /\ o <= n \div r.step
      BY <1>6, <3>1, <3>2, <3>3
    <3>5. Count(r, t) * r.step <= o * r.step /\ o * r.step <= (n \div r.step) * r.step
      BY <1>a, <1>c, <1>6, <3>4, Times
    <3>6. (n \div r.step) * r.step = r.step * (n \div r.step) /\ o * r.step \in Nat /\ Count(r, t) * r.step \in Nat
      BY <1>a, <1>c, <1>6, <3>4
    <3>7. k \in Nat /\ g \in Nat /\ k = o * r.step /\ g = Count(r, t) * r.step
      BY <3>2, <3>6
    <3>. HIDE DEF k, g
    <3>8. PICK x \in Nat : x = n \div r.step
      BY <1>6
    <3>9. r.step * x <= n /\ x * r.step = r.step * x /\ r.step * x \in Nat
      BY <1>a, <1>6, <3>8
    <3>. QED
      BY <1>1, <3>5, <3>7, <3>8, <3>9
  <2>. QED
    BY <2>1, <2>2
<1>. HIDE DEF k, g
<1>8. First(b..Top(r, t), k) = b..(b + k - 1)
  BY <1>b, <1>1, <1>7, FirstOf
<1>9. b..(b + g - 1) \subseteq b..(b + k - 1)
  BY <1>b, <1>7
<1>. QED
  BY <1>4, <1>5, <1>8, <1>9 DEF b

\* The number of values returned is the one that is expected of the whole chunk.
LEMMA ChunkOutputs ==
  ASSUME NEW r \in Requests, NEW t \in Int, FirstSecond(r.from) <= FirstSecond(t), t < r.to
  PROVE  Outputs(LastMethod(r.methods), Cardinality(Base(t)..Top(r, t)), r.step) = Count(r, t)
<1>1. Base(t) \in Int /\ Top(r, t) \in Int /\ Base(t) <= Top(r, t)
  BY ChunkBegins, ChunkEnds
<1>2. Cardinality(Base(t)..Top(r, t)) = IF Base(t) > Top(r, t) THEN 0 ELSE Top(r, t) - Base(t) + 1
  BY <1>1, FS_Interval
<1>3. Cardinality(Base(t)..Top(r, t)) = Top(r, t) - Base(t) + 1
  BY <1>1, <1>2
<1>. QED
  BY <1>3 DEF Count

-----------------------------------------------------------------------------
\* Progress

\* The values of a chunk and its samples: less than a step is left over, or a whole one by
\* "Skip".
LEMMA ChunkValues ==
  ASSUME NEW r \in Requests, NEW n \in Nat \ {0}, NEW g \in Nat,
         g = Outputs(LastMethod(r.methods), n, r.step),
         "Raw" \in r.methods => r.step = 1 /\ "Skip" \notin r.methods
  PROVE  /\ n <= g * r.step + r.step
         /\ ("Skip" \in r.methods /\ r.step < n) => 1 <= g
         /\ ("Skip" \notin r.methods /\ (r.methods # {"Raw"} => r.step <= n)) => 1 <= g
         /\ r.step = 1 => n <= g + 1
<1>. DEFINE p == r.step
<1>a. p \in Nat \ {0}
  BY CassSpeedAssumption
<1>1. CASE "Raw" \in r.methods
  <2>1. p = 1 /\ "Skip" \notin r.methods /\ g = n
    BY <1>1 DEF LastMethod, Outputs
  <2>. QED
    BY <2>1
<1>2. CASE "Raw" \notin r.methods /\ "Skip" \in r.methods
  <2>1. g = (n - 1) \div p
    BY <1>2 DEF LastMethod, Outputs
  <2>. HIDE DEF p
  <2>2. PICK y \in Nat : y = n - 1
    OBVIOUS
  <2>3. y < (g + 1) * p /\ (1 * p <= y <=> 1 <= g)
    BY <1>a, <2>1, <2>2, DivBounds
  <2>4. (g + 1) * p = g * p + p /\ g * p \in Nat
    BY <1>a, NatTimes
  <2>5. n <= g * p + p /\ (p < n => 1 <= g)
    BY <1>a, <2>2, <2>3, <2>4
  <2>6. p = 1 => g * p = g
    OBVIOUS
  <2>. QED
    BY <1>2, <1>a, <2>5, <2>6 DEF p
<1>3. CASE "Raw" \notin r.methods /\ "Skip" \notin r.methods
  <2>1. g = n \div p /\ r.methods # {"Raw"}
    BY <1>3 DEF LastMethod, Outputs
  <2>. HIDE DEF p
  <2>3. n < (g + 1) * p /\ (1 * p <= n <=> 1 <= g)
    BY <1>a, <2>1, DivBounds
  <2>4. (g + 1) * p = g * p + p /\ g * p \in Nat
    BY <1>a, NatTimes
  <2>5. n <= g * p + p /\ (p <= n => 1 <= g)
    BY <1>a, <2>3, <2>4
  <2>6. p = 1 => g * p = g
    OBVIOUS
  <2>. QED
    BY <1>3, <1>a, <2>1, <2>5, <2>6 DEF p
<1>. QED
  BY <1>1, <1>2, <1>3

\* A chunk that is not cut short by the end of the range has values for two samples at least.
LEMMA ChunkFull ==
  ASSUME NEW r \in Requests, NEW t \in Int, FirstSecond(r.from) <= FirstSecond(t), t < r.to,
         "Raw" \in r.methods => r.step = 1 /\ "Skip" \notin r.methods, Filled(r, t), Yields(r),
         Stop(r, t) # r.to
  PROVE  2 <= Count(r, t) * r.step
<1>. DEFINE b == Base(t)
            n == Top(r, t) - b + 1
            g == Count(r, t)
            d == Delta(r)
            p == r.step
<1>a. Rate \in Nat \ {0} /\ Sec \in Nat \ {0} /\ p \in Nat \ {0} /\ Rate >= 3 /\ Sec <= MaxDelta
      /\ r.to \in Nat
  BY CassSpeedAssumption, PaceAssumption
<1>b. d \in Nat /\ Sec <= d
  BY <1>a, DeltaPositive
<1>c. b \in Nat /\ b * Sec <= t * Rate /\ Top(r, t) \in Nat /\ b <= Top(r, t) /\ g \in Nat
  BY ChunkBegins, ChunkEnds, ChunkCount
<1>d. n \in Nat \ {0} /\ g = Outputs(LastMethod(r.methods), n, p)
  BY <1>c DEF Count
<1>1. Stop(r, t) = t + d
  <2>. DEFINE z == t + d
  <2>1. z \in Int /\ Stop(r, t) = Min({z, r.to})
    BY <1>b DEF Stop
  <2>. HIDE DEF z, d
  <2>2. Min({z, r.to}) = IF z <= r.to THEN z ELSE r.to
    BY <1>a, <2>1, MinTwo
  <2>. QED
    BY <2>1, <2>2 DEF z
<1>2. (t + d) * Rate <= (b + n) * Sec
  <2>. DEFINE l == LastSecond(r, t)
  <2>1. t + d <= (l + 1) * Sec /\ l \in Nat
    BY <1>1, ChunkEnds
  <2>2. b + n = (l + 1) * Rate
    <3>1. Top(r, t) = (l + 1) * Rate - 1 /\ (l + 1) * Rate \in Int
      BY <1>a, <2>1 DEF Top
    <3>. QED
      BY <1>c, <3>1
  <2>. HIDE DEF l, d, n
  <2>3. (t + d) * Rate <= ((l + 1) * Sec) * Rate
    <3>1. PICK y \in Int : y = (l + 1) * Sec
      BY <1>a, <2>1
    <3>. QED
      BY <1>a, <1>b, <2>1, <3>1, Times
  <2>4. ((l + 1) * Sec) * Rate = ((l + 1) * Rate) * Sec
    BY <1>a, <2>1
  <2>. QED
    BY <2>2, <2>3, <2>4
<1>. HIDE DEF b, n, g, d
<1>3. d * Rate <= n * Sec
  <2>1. (t + d) * Rate = t * Rate + d * Rate /\ (b + n) * Sec = b * Sec + n * Sec
    BY <1>a, <1>b, <1>c, <1>d
  <2>2. t * Rate \in Int /\ d * Rate \in Int /\ b * Sec \in Int /\ n * Sec \in Int
    BY <1>a, <1>b, <1>c, <1>d
  <2>. QED
    BY <1>2, <1>c, <2>1, <2>2
<1>4. 3 <= n
  <2>1. Sec * Rate <= d * Rate
    BY <1>a, <1>b, Times
  <2>2. d * Rate \in Int /\ n * Sec \in Int /\ Rate * Sec \in Int /\ Sec * Rate = Rate * Sec
    BY <1>a, <1>b, <1>d
  <2>3. ~(n * Sec < Rate * Sec)
    BY <1>3, <2>1, <2>2
  <2>4. n < Rate => n * Sec < Rate * Sec
    <3>1. n < Rate => (n + 1) * Sec <= Rate * Sec
      BY <1>a, <1>d, Times
    <3>2. (n + 1) * Sec = n * Sec + Sec
      BY <1>a, <1>d
    <3>. QED
      BY <1>a, <2>2, <3>1, <3>2
  <2>. QED
    BY <1>a, <1>d, <2>3, <2>4
<1>5. "Skip" \in r.methods => p < n
  <2>. SUFFICES ASSUME "Skip" \in r.methods
                PROVE  p < n
    OBVIOUS
  <2>1. (p + 1) * Sec <= d * Rate
    BY DEF Yields, d
  <2>2. d * Rate \in Int /\ n * Sec \in Int /\ (p + 1) * Sec \in Int
    BY <1>a, <1>b, <1>d
  <2>3. ~(n * Sec < (p + 1) * Sec)
    BY <1>3, <2>1, <2>2
  <2>4. n < p + 1 => n * Sec < (p + 1) * Sec
    <3>1. n < p + 1 => (n + 1) * Sec <= (p + 1) * Sec
      BY <1>a, <1>d, Times
    <3>2. (n + 1) * Sec = n * Sec + Sec
      BY <1>a, <1>d
    <3>. QED
      BY <1>a, <2>2, <3>1, <3>2
  <2>. QED
    BY <1>a, <1>d, <2>3, <2>4
<1>6. 1 <= g /\ (p = 1 => n <= g + 1)
  <2>1. r.methods # {"Raw"} => p <= n
    BY DEF Filled, n, b
  <2>. QED
    BY <1>c, <1>d, <1>5, <2>1, ChunkValues
<1>7. 2 <= g * p
  <2>1. CASE p = 1
    BY <2>1, <1>c, <1>d, <1>4, <1>6
  <2>2. CASE p # 1
    <3>1. 1 * p <= g * p
      BY <1>a, <1>c, <1>6, Times
    <3>2. g * p \in Nat
      BY <1>a, <1>c, NatTimes
    <3>. QED
      BY <1>a, <2>2, <3>1, <3>2
  <2>. QED
    BY <2>1, <2>2
<1>. QED
  BY <1>7 DEF g

\* A chunk ends after it has begun, or what is left of the range is less than one more step.
LEMMA ChunkAdvances ==
  ASSUME NEW r \in Requests, NEW t \in Int, FirstSecond(r.from) <= FirstSecond(t), t < r.to,
         "Raw" \in r.methods => r.step = 1 /\ "Skip" \notin r.methods, Filled(r, t), Yields(r),
         NEW e \in Stops(r, t)
  PROVE  \/ t < e
         \/ r.to < e + ((r.step + 1) * Sec) \div Rate
<1>. DEFINE b == Base(t)
            n == Top(r, t) - b + 1
            g == Count(r, t)
            p == r.step
            x == g * p
            w == (g * Sec * p) \div Rate
            u == ((p + 1) * Sec) \div Rate
<1>a. Rate \in Nat \ {0} /\ Sec \in Nat \ {0} /\ p \in Nat \ {0} /\ 2 * Rate <= Sec /\ r.to \in Nat
  BY CassSpeedAssumption, PaceAssumption
<1>e. PICK v \in Starts(t) : e = v + w
  BY DEF Stops
<1>b. /\ b \in Nat /\ v \in Nat /\ g \in Nat /\ Top(r, t) \in Nat /\ b <= Top(r, t)
      /\ t * Rate < b * Sec + Sec /\ b * Sec <= v * Rate + Rate
  BY ChunkBegins, ChunkOpens, ChunkStart, ChunkEnds, ChunkCount
<1>c. n \in Nat \ {0} /\ g = Outputs(LastMethod(r.methods), n, p)
  BY <1>b DEF Count
<1>d. x \in Nat /\ n <= x + p /\ (Stop(r, t) # r.to => 2 <= x) /\ (p = 1 => x = g)
  BY <1>a, <1>b, <1>c, ChunkValues, ChunkFull, NatTimes
<1>1. w \in Nat /\ x * Sec < w * Rate + Rate
  <2>1. g * Sec * p = x * Sec /\ x * Sec \in Nat
    BY <1>a, <1>b, NatTimes
  <2>2. PICK y \in Nat : y = x * Sec /\ w = y \div Rate
    BY <2>1
  <2>. HIDE DEF w, x
  <2>3. y \div Rate \in Nat /\ y < (y \div Rate) * Rate + Rate
    BY <1>a, DivRest
  <2>. QED
    BY <2>2, <2>3
<1>2. u \in Nat /\ p * Sec + Sec < u * Rate + Rate
  <2>1. (p + 1) * Sec = p * Sec + Sec /\ (p + 1) * Sec \in Nat
    BY <1>a, NatTimes
  <2>2. PICK y \in Nat : y = (p + 1) * Sec /\ u = y \div Rate
    BY <2>1
  <2>. HIDE DEF u, p
  <2>3. y \div Rate \in Nat /\ y < (y \div Rate) * Rate + Rate
    BY <1>a, DivRest
  <2>. QED
    BY <2>1, <2>2, <2>3
<1>3. Stop(r, t) = r.to => r.to * Rate <= b * Sec + n * Sec
  <2>. SUFFICES ASSUME Stop(r, t) = r.to
                PROVE  r.to * Rate <= b * Sec + n * Sec
    OBVIOUS
  <2>. DEFINE l == LastSecond(r, t)
  <2>1. r.to <= (l + 1) * Sec /\ l \in Nat
    BY ChunkEnds
  <2>2. b + n = (l + 1) * Rate
    <3>1. Top(r, t) = (l + 1) * Rate - 1 /\ (l + 1) * Rate \in Int
      BY <1>a, <2>1 DEF Top
    <3>. QED
      BY <1>b, <3>1
  <2>. HIDE DEF l, n, b
  <2>3. r.to * Rate <= ((l + 1) * Sec) * Rate
    <3>1. PICK y \in Int : y = (l + 1) * Sec
      BY <1>a, <2>1
    <3>. QED
      BY <1>a, <2>1, <3>1, Times
  <2>4. ((l + 1) * Sec) * Rate = ((l + 1) * Rate) * Sec
    BY <1>a, <2>1
  <2>5. (b + n) * Sec = b * Sec + n * Sec
    BY <1>a, <1>b, <1>c
  <2>. QED
    BY <2>2, <2>3, <2>4, <2>5
<1>. HIDE DEF b, n, g, x, w, u, p
<1>4. /\ b * Sec \in Nat /\ n * Sec \in Nat /\ v * Rate \in Nat /\ x * Sec \in Nat
      /\ w * Rate \in Nat /\ u * Rate \in Nat /\ p * Sec \in Nat /\ t * Rate \in Int
      /\ r.to * Rate \in Nat
  BY <1>a, <1>b, <1>c, <1>d, <1>1, <1>2, NatTimes
<1>5. (v + w) * Rate = v * Rate + w * Rate /\ (v + u) * Rate = v * Rate + u * Rate
  BY <1>a, <1>b, <1>1, <1>2
<1>6. CASE 2 <= x
  <2>1. 2 * Sec <= x * Sec
    BY <1>6, <1>a, <1>d, Times
  <2>2. t * Rate < (v + w) * Rate
    BY <1>a, <1>b, <1>1, <1>4, <1>5, <2>1
  <2>3. t < v + w
    BY <1>a, <1>b, <1>1, <2>2, Factor
  <2>. QED
    BY <1>e, <2>3
<1>7. CASE x < 2
  <2>1. r.to * Rate <= b * Sec + x * Sec + p * Sec
    <3>1. n * Sec <= (x + p) * Sec
      BY <1>a, <1>c, <1>d, Times
    <3>2. (x + p) * Sec = x * Sec + p * Sec
      BY <1>a, <1>d
    <3>. QED
      BY <1>3, <1>4, <1>7, <1>d, <3>1, <3>2
  <2>2. CASE x = 0
    <3>1. x * Sec = 0
      BY <1>a, <2>2
    <3>2. r.to * Rate < (v + u) * Rate
      BY <1>a, <1>b, <1>2, <1>4, <1>5, <2>1, <3>1
    <3>3. r.to < v + u
      BY <1>a, <1>b, <1>2, <3>2, Factor
    <3>. QED
      BY <1>a, <1>b, <1>e, <1>1, <1>2, <3>3 DEF u, p
  <2>3. CASE x = 1
    <3>1. x * Sec = Sec
      BY <1>a, <2>3
    <3>2. r.to * Rate < (v + u + 2) * Rate
      <4>1. (v + u + 2) * Rate = v * Rate + u * Rate + 2 * Rate
        BY <1>a, <1>b, <1>2
      <4>. QED
        BY <1>a, <1>b, <1>2, <1>4, <2>1, <3>1, <4>1
    <3>3. r.to < v + u + 2
      BY <1>a, <1>b, <1>2, <3>2, Factor
    <3>4. 2 <= w
      <4>1. 2 * Rate < (w + 1) * Rate
        <5>1. (w + 1) * Rate = w * Rate + Rate
          BY <1>a, <1>1
        <5>. QED
          BY <1>a, <1>1, <1>4, <3>1, <5>1
      <4>2. 2 < w + 1
        BY <1>a, <1>1, <4>1, Factor
      <4>. QED
        BY <1>1, <4>2
    <3>5. r.to < v + w + u
      BY <1>a, <1>b, <1>1, <1>2, <3>3, <3>4
    <3>. QED
      BY <1>e, <3>5 DEF u, p
  <2>. QED
    BY <1>7, <1>d, <2>2, <2>3
<1>. QED
  BY <1>6, <1>7, <1>d

-----------------------------------------------------------------------------
\* Queries

\* The fields of a request, and what the archive holds of its devices.
LEMMA RequestType ==
  ASSUME TypeInv, NEW c \in Clients
  PROVE  /\ req[c] \in Requests /\ req[c].devices \in Seq(Devices) /\ Len(req[c].devices) \in Nat
         /\ \A i \in 1..Len(req[c].devices) : req[c].devices[i] \in Devices
         /\ \A i \in 1..Len(req[c].devices) : store[req[c].devices[i]] \subseteq Nat \ {0}
         /\ req[c].methods \subseteq Methods /\ req[c].step \in Nat \ {0}
         /\ req[c].from \in Nat /\ req[c].from >= Sec /\ req[c].to \in Nat
<1>1. req[c] \in Requests
  BY DEF TypeInv
<1>2. /\ req[c].devices \in Seq(Devices)
      /\ req[c].methods \subseteq Methods /\ req[c].step \in Nat \ {0}
      /\ req[c].from \in Nat /\ req[c].from >= Sec /\ req[c].to \in Nat
  BY <1>1, CassSpeedAssumption
<1>3. Len(req[c].devices) \in Nat /\ \A i \in 1..Len(req[c].devices) : req[c].devices[i] \in Devices
  BY <1>2
<1>4. store \in [Devices -> SUBSET (Nat \ {0})]
  BY CassSpeedAssumption DEF TypeInv
<1>. QED
  BY <1>1, <1>2, <1>3, <1>4

\* The records of clients and threads.
LEMMA RecordType ==
  ASSUME TypeInv, NEW c \in Clients
  PROVE  client[c] \in ClientRec /\ thread[c] \in ThreadRec /\ client[c].cursor \in Int
BY DEF TypeInv, ClientRec

\* What a query returns is finite, and the time stamp taken from it is a time.
LEMMA QueryType ==
  ASSUME TypeInv, NEW c \in Clients, PlaceInv(c), NEW i \in 1..Len(req[c].devices)
  PROVE  LET rows == RowsFor(req[c].devices[i], client[c].cursor, ChunkEnd(c))
             k    == ToSkip(client[c].cursor)
         IN  /\ SamplesOf(rows) \subseteq Nat /\ IsFiniteSet(SamplesOf(rows))
             /\ \A t \in StartTimes(c, rows), w \in SkipTimes(k) : t + w \in Nat
<1>. DEFINE rows == RowsFor(req[c].devices[i], client[c].cursor, ChunkEnd(c))
            cur  == client[c].cursor
            k    == ToSkip(cur)
            e    == ChunkEnd(c)
            times == {s * Sec : s \in rows}
<1>a. Rate \in Nat \ {0} /\ Sec \in Nat \ {0} /\ Garbage \subseteq Nat
  BY CassSpeedAssumption
<1>b. cur \in Int /\ thread[c].start \in Nat \cup {Unset} /\ req[c].to \in Nat /\ Delta(req[c]) \in Nat
  BY RecordType, RequestType, DeltaPositive DEF ThreadRec
<1>1. e \in Int
  <2>1. cur + Delta(req[c]) \in Int /\ req[c].to \in Int
    BY <1>b
  <2>2. e \in {cur + Delta(req[c]), req[c].to}
    BY <2>1, MinTwo DEF ChunkEnd
  <2>. QED
    BY <2>1, <2>2
<1>. HIDE DEF cur, e
<1>2. rows \subseteq Nat /\ \A s \in rows : s * Sec < e
  BY RequestType DEF RowsFor, e
<1>. HIDE DEF rows
<1>3. ASSUME NEW q \in SamplesOf(rows)
      PROVE  q \in 0..(e * Rate)
  <2>1. PICK s \in rows : q \in (s * Rate)..(s * Rate + Rate - 1)
    BY DEF SamplesOf
  <2>2. s \in Nat /\ s * Sec < e
    BY <1>2
  <2>3. s + 1 <= e
    <3>1. s * 1 <= s * Sec
      BY <1>a, <2>2, Times
    <3>. QED
      BY <1>a, <1>1, <2>2, <3>1
  <2>4. (s + 1) * Rate <= e * Rate
    BY <1>a, <1>1, <2>2, <2>3, Times
  <2>5. (s + 1) * Rate = s * Rate + Rate /\ s * Rate \in Nat /\ e * Rate \in Int
    BY <1>a, <1>1, <2>2
  <2>. QED
    BY <2>1, <2>4, <2>5, <1>a
<1>4. SamplesOf(rows) \subseteq Nat /\ IsFiniteSet(SamplesOf(rows))
  <2>1. e * Rate \in Int
    BY <1>a, <1>1
  <2>2. IsFiniteSet(0..(e * Rate))
    BY <2>1, FS_Interval
  <2>3. SamplesOf(rows) \subseteq 0..(e * Rate)
    BY <1>3
  <2>4. IsFiniteSet(SamplesOf(rows))
    BY <2>2, <2>3, FS_Subset, Zenon
  <2>. QED
    BY <2>1, <2>3, <2>4
<1>5. \A w \in SkipTimes(k) : w \in Nat
  <2>1. cur % Sec \in Nat
    BY <1>a, <1>b
  <2>2. (cur % Sec) * Rate \in Nat
    BY <1>a, <2>1, NatTimes
  <2>3. k \in Nat
    BY <1>a, <2>2, DivNat DEF ToSkip
  <2>. HIDE DEF k
  <2>. QED
    BY <2>3, SkipShort
<1>6. times \subseteq Nat
  BY <1>2, <1>a, NatTimes
<1>7. ASSUME NEW t \in StartTimes(c, rows)
      PROVE  t \in Nat
  <2>1. thread[c].firstsample \/ thread[c].start \in Nat
    BY <1>b DEF PlaceInv
  <2>2. StartTimes(c, rows) = LET old == IF thread[c].start = Unset THEN Garbage ELSE {thread[c].start}
                              IN IF thread[c].firstsample THEN IF times = {} THEN old ELSE {Min(times)}
                                 ELSE {Min(times \cup {thread[c].start})}
    BY DEF StartTimes
  <2>. HIDE DEF times
  <2>3. CASE thread[c].firstsample /\ times = {}
    <3>1. t \in IF thread[c].start = Unset THEN Garbage ELSE {thread[c].start}
      BY <2>2, <2>3
    <3>. QED
      BY <3>1, <1>a, <1>b
  <2>4. CASE thread[c].firstsample /\ times # {}
    <3>1. t = Min(times)
      BY <2>2, <2>4
    <3>. QED
      BY <3>1, <2>4, <1>6, MinNat
  <2>5. CASE ~thread[c].firstsample
    <3>1. t = Min(times \cup {thread[c].start})
      BY <2>2, <2>5
    <3>2. times \cup {thread[c].start} \in SUBSET Nat /\ times \cup {thread[c].start} # {}
      BY <2>1, <2>5, <1>6
    <3>. QED
      BY <3>1, <3>2, MinNat, Zenon
  <2>. QED
    BY <2>3, <2>4, <2>5
<1>8. \A t \in StartTimes(c, rows), w \in SkipTimes(k) : t + w \in Nat
  BY <1>5, <1>7
<1>. QED
  BY <1>4, <1>8 DEF rows, cur

\* A sound client's query returns all the seconds of the chunk.
LEMMA ChunkRows ==
  ASSUME TypeInv, NEW c \in Clients, Sound(c), NEW i \in 1..Len(req[c].devices),
         FirstSecond(req[c].from) <= FirstSecond(client[c].cursor), client[c].cursor < req[c].to
  PROVE  RowsFor(req[c].devices[i], client[c].cursor, ChunkEnd(c))
           = FirstSecond(client[c].cursor)..LastSecond(req[c], client[c].cursor)
<1>. DEFINE d == req[c].devices[i]
            t == client[c].cursor
            e == ChunkEnd(c)
            f == FirstSecond(t)
            l == LastSecond(req[c], t)
            r == req[c].from
            u == req[c].to
<1>a. Sec \in Nat \ {0} /\ Day \in Nat \ {0}
  BY CassSpeedAssumption
<1>b. /\ t \in Int /\ r \in Nat /\ u \in Nat /\ store[d] \subseteq Nat \ {0}
  BY RequestType, RecordType
<1>c. f \in Nat \ {0} /\ f * Sec <= t /\ t < (f + 1) * Sec
  BY RecordType, RequestType, ChunkBegins
<1>d. e = Stop(req[c], t)
  BY DEF ChunkEnd, Stop
<1>e. e \in Int /\ e <= u /\ l \in Nat /\ l * Sec < e /\ e <= (l + 1) * Sec
  BY <1>d, RecordType, RequestType, ChunkEnds
<1>f. r \div Sec <= f
  BY DEF FirstSecond
<1>g. \A s \in (r \div Sec)..(u \div Sec) : s * Sec + Sec > r /\ s * Sec < u => s \in store[d]
  BY DEF Sound, Complete
<1>h. RowsFor(d, t, e) = {s \in store[d] : /\ t - (Sec - 1) <= s * Sec /\ s * Sec < e
                                           /\ (s * Sec) \div Day \in Days(t, e)}
  BY DEF RowsFor
<1>. HIDE DEF d, t, e, f, l, r, u
<1>1. ASSUME NEW s \in Nat, t - (Sec - 1) <= s * Sec, s * Sec < e
      PROVE  (s * Sec) \div Day \in Days(t, e)
  <2>1. s * Sec \in Int /\ t - (Sec - 1) \in Int
    BY <1>a, <1>b
  <2>2. (t - (Sec - 1)) \div Day <= (s * Sec) \div Day
    BY <1>1, <1>a, <2>1, DivLess
  <2>3. (s * Sec) \div Day <= e \div Day
    <3>1. s * Sec <= e
      BY <1>1, <1>e, <2>1
    <3>. QED
      BY <1>a, <1>e, <2>1, <3>1, DivLess
  <2>4. (t - (Sec - 1)) \div Day \in Int /\ (s * Sec) \div Day \in Int /\ e \div Day \in Int
    BY <1>a, <1>e, <2>1
  <2>. QED
    BY <2>2, <2>3, <2>4 DEF Days
<1>2. ASSUME NEW s \in RowsFor(d, t, e)
      PROVE  s \in f..l
  <2>1. s \in Nat /\ t - (Sec - 1) <= s * Sec /\ s * Sec < e
    BY <1>b, <1>h
  <2>2. s * Sec \in Int /\ (s + 1) * Sec = s * Sec + Sec /\ f * Sec \in Int /\ (l + 1) * Sec \in Int
    BY <1>a, <1>c, <1>e, <2>1
  <2>3. f * Sec < (s + 1) * Sec
    BY <1>a, <1>b, <1>c, <2>1, <2>2
  <2>4. f < s + 1
    BY <1>a, <1>c, <2>1, <2>3, Factor
  <2>5. s * Sec < (l + 1) * Sec
    BY <1>e, <2>1, <2>2
  <2>6. s < l + 1
    BY <1>a, <1>e, <2>1, <2>5, Factor
  <2>. QED
    BY <1>c, <1>e, <2>1, <2>4, <2>6
<1>3. ASSUME NEW s \in f..l
      PROVE  s \in RowsFor(d, t, e)
  <2>1. s \in Nat /\ s * Sec \in Int
    BY <1>a, <1>c, <1>e
  <2>2. s * Sec <= l * Sec /\ l * Sec \in Int
    BY <1>a, <1>e, <2>1, Times
  <2>3. s * Sec < e /\ s * Sec < u
    BY <1>b, <1>e, <2>1, <2>2
  <2>4. (f + 1) * Sec <= (s + 1) * Sec /\ (f + 1) * Sec \in Int /\ (s + 1) * Sec = s * Sec + Sec
    BY <1>a, <1>c, <2>1, Times
  <2>5. t - (Sec - 1) <= s * Sec
    BY <1>a, <1>b, <1>c, <2>1, <2>4
  <2>6. r \div Sec \in Int /\ r < (r \div Sec + 1) * Sec
    BY <1>a, <1>b, DivBounds
  <2>7. PICK x \in Int : x = r \div Sec
    BY <2>6
  <2>8. (x + 1) * Sec <= (s + 1) * Sec
    <3>1. x + 1 <= s + 1
      BY <1>c, <1>f, <2>1, <2>7
    <3>. QED
      BY <1>a, <2>1, <3>1, Times
  <2>9. s * Sec + Sec > r
    BY <1>a, <1>b, <2>1, <2>4, <2>6, <2>7, <2>8
  <2>10. s <= u \div Sec
    <3>1. s * Sec <= u /\ u \in Int
      BY <1>b, <2>1, <2>3
    <3>. QED
      BY <1>a, <2>1, <3>1, DivBounds
  <2>11. s \in (r \div Sec)..(u \div Sec)
    <3>1. u \div Sec \in Int
      BY <1>a, <1>b
    <3>. QED
      BY <1>c, <1>f, <2>1, <2>6, <2>10, <3>1
  <2>12. s \in store[d]
    BY <1>g, <2>3, <2>9, <2>11
  <2>. QED
    BY <1>1, <1>h, <2>1, <2>3, <2>5, <2>12
<1>. QED
  BY <1>2, <1>3 DEF d, t, e, f, l

\* There are enough samples to skip, the rest are the chunk, and it starts where it should.
LEMMA ChunkQuery ==
  ASSUME TypeInv, NEW c \in Clients, Sound(c), NEW i \in 1..Len(req[c].devices),
         FirstSecond(req[c].from) <= FirstSecond(client[c].cursor), client[c].cursor < req[c].to,
         ~thread[c].firstsample => thread[c].start \in Starts(client[c].cursor)
  PROVE  LET rows == RowsFor(req[c].devices[i], client[c].cursor, ChunkEnd(c))
             all  == SamplesOf(rows)
             k    == ToSkip(client[c].cursor)
         IN  /\ rows # {} /\ k < Cardinality(all)
             /\ all \ First(all, k) = Base(client[c].cursor)..Top(req[c], client[c].cursor)
             /\ \A x \in StartTimes(c, rows), w \in SkipTimes(k) : x + w \in Starts(client[c].cursor)
<1>. DEFINE t == client[c].cursor
            f == FirstSecond(t)
            l == LastSecond(req[c], t)
            rows == RowsFor(req[c].devices[i], t, ChunkEnd(c))
            all  == SamplesOf(rows)
            k    == ToSkip(t)
            top  == Top(req[c], t)
            times == {s * Sec : s \in rows}
<1>a. Rate \in Nat \ {0} /\ Sec \in Nat \ {0}
  BY CassSpeedAssumption
<1>b. /\ f \in Nat \ {0} /\ k \in 0..(Rate - 1) /\ Base(t) = f * Rate + k
      /\ Starts(t) = {f * Sec + w : w \in SkipTimes(k)}
      /\ \A v \in Starts(t) : v \in Nat /\ f * Sec <= v
  BY RecordType, RequestType, ChunkBegins, ChunkStart DEF Base, Starts
<1>c. l \in Nat /\ f <= l /\ top = (l + 1) * Rate - 1 /\ f * Rate + Rate - 1 <= top /\ top \in Nat
  BY RecordType, RequestType, ChunkEnds DEF Top
<1>1. rows = f..l
  BY ChunkRows
<1>. HIDE DEF t, f, l, rows, k, top
<1>2. all = (f * Rate)..top
  BY <1>b, <1>c, <1>1, SamplesOfRow
<1>3. f * Rate \in Nat /\ f * Sec \in Nat
  BY <1>a, <1>b, NatTimes
<1>4. Cardinality(all) = top - f * Rate + 1
  <2>. DEFINE a == f * Rate
  <2>1. a \in Int /\ a <= top /\ top \in Int /\ all = a..top
    BY <1>a, <1>2, <1>3, <1>c
  <2>. HIDE DEF a, all
  <2>2. Cardinality(a..top) = IF a > top THEN 0 ELSE top - a + 1
    BY <2>1, FS_Interval
  <2>3. Cardinality(all) = top - a + 1
    BY <2>1, <2>2
  <2>. QED
    BY <2>3 DEF a
<1>5. k < Cardinality(all)
  BY <1>a, <1>b, <1>c, <1>3, <1>4
<1>6. all \ First(all, k) = Base(t)..top
  <2>. DEFINE a == f * Rate
  <2>1. a \in Int /\ top \in Int /\ k \in Nat /\ k <= top - a + 1 /\ all = a..top /\ Base(t) = a + k
    BY <1>a, <1>2, <1>3, <1>b, <1>c
  <2>. HIDE DEF a, all
  <2>2. First(a..top, k) = a..(a + k - 1)
    BY <2>1, FirstOf
  <2>3. (a..top) \ (a..(a + k - 1)) = (a + k)..top
    BY <2>1
  <2>. QED
    BY <2>1, <2>2, <2>3
<1>7. f \in rows
  BY <1>1, <1>b, <1>c
<1>8. times \in SUBSET Nat /\ f * Sec \in times /\ \A x \in times : f * Sec <= x
  <2>1. ASSUME NEW x \in times
        PROVE  x \in Nat /\ f * Sec <= x
    <3>1. PICK s \in f..l : x = s * Sec
      BY <1>1
    <3>2. s \in Nat /\ f <= s
      BY <1>b, <1>c
    <3>. QED
      BY <3>1, <3>2, <1>a, <1>b, Times, NatTimes
  <2>. QED
    BY <1>7, <2>1
<1>9. StartTimes(c, rows) = LET old == IF thread[c].start = Unset THEN Garbage ELSE {thread[c].start}
                            IN IF thread[c].firstsample THEN IF times = {} THEN old ELSE {Min(times)}
                               ELSE {Min(times \cup {thread[c].start})}
  BY DEF StartTimes
<1>. HIDE DEF times
<1>10. PICK z \in Nat : z = f * Sec
  BY <1>3
<1>11. Min(times) = z
  BY <1>8, <1>10, MinOf
<1>12. ~thread[c].firstsample => Min(times \cup {thread[c].start}) = z
  <2>. SUFFICES ASSUME ~thread[c].firstsample
                PROVE  Min(times \cup {thread[c].start}) = z
    OBVIOUS
  <2>1. thread[c].start \in Nat /\ z <= thread[c].start
    BY <1>b, <1>10 DEF t
  <2>2. /\ times \cup {thread[c].start} \in SUBSET Int /\ z \in times \cup {thread[c].start}
        /\ \A y \in times \cup {thread[c].start} : z <= y
    <3>1. times \in SUBSET Nat /\ z \in times /\ \A y \in times : z <= y
      BY <1>8, <1>10
    <3>2. PICK w \in Nat : w = thread[c].start /\ z <= w
      BY <2>1
    <3>3. times \cup {w} \in SUBSET Int
      BY <3>1
    <3>4. \A y \in times \cup {w} : y \in times \/ y = w
      OBVIOUS
    <3>5. \A y \in times \cup {w} : z <= y
      BY <3>1, <3>2, <3>4
    <3>. QED
      BY <3>1, <3>2, <3>3, <3>5, Zenon
  <2>. QED
    BY <2>2, MinOf, Zenon
<1>13. \A x \in StartTimes(c, rows) : x = z
  BY <1>8, <1>9, <1>11, <1>12
<1>14. \A x \in StartTimes(c, rows), w \in SkipTimes(k) : x + w \in Starts(t)
  BY <1>10, <1>13, <1>b
<1>15. rows # {}
  BY <1>7
<1>. QED
  BY <1>5, <1>6, <1>14, <1>15 DEF t, k, rows, top

-----------------------------------------------------------------------------
\* Steps

\* Setting a field of a thread.
LEMMA ThreadSet ==
  ASSUME NEW x \in ThreadRec
  PROVE  /\ \A v \in {"none", "backlog", "receive", "query", "compress", "describe"} :
              [x EXCEPT !.pc = v] \in ThreadRec
         /\ \A v \in Nat \ {0} : [x EXCEPT !.itter = v] \in ThreadRec
         /\ \A v \in Nat \cup {Unset} : [x EXCEPT !.start = v] \in ThreadRec
         /\ \A v \in BOOLEAN : [x EXCEPT !.firstsample = v] \in ThreadRec
         /\ \A v \in SUBSET Nat : [x EXCEPT !.vec = v] \in ThreadRec
         /\ \A v \in Nat : [x EXCEPT !.own = v] \in ThreadRec
         /\ \A v \in SUBSET Samples : [x EXCEPT !.out = v] \in ThreadRec
         /\ \A v \in BOOLEAN : [x EXCEPT !.has = v] \in ThreadRec
         /\ \A v \in Int : [x EXCEPT !.end = v] \in ThreadRec
         /\ \A v \in BOOLEAN : [x EXCEPT !.failed = v] \in ThreadRec
<1>1. \A v \in {"none", "backlog", "receive", "query", "compress", "describe"} :
        [x EXCEPT !.pc = v] \in ThreadRec
  BY Zenon DEF ThreadRec
<1>2. \A v \in Nat \ {0} : [x EXCEPT !.itter = v] \in ThreadRec
  BY Zenon DEF ThreadRec
<1>3. \A v \in Nat \cup {Unset} : [x EXCEPT !.start = v] \in ThreadRec
  BY Zenon DEF ThreadRec
<1>4. \A v \in BOOLEAN : [x EXCEPT !.firstsample = v] \in ThreadRec
  BY Zenon DEF ThreadRec
<1>5. \A v \in SUBSET Nat : [x EXCEPT !.vec = v] \in ThreadRec
  BY Zenon DEF ThreadRec
<1>6. \A v \in Nat : [x EXCEPT !.own = v] \in ThreadRec
  BY Zenon DEF ThreadRec
<1>7. \A v \in SUBSET Samples : [x EXCEPT !.out = v] \in ThreadRec
  BY Zenon DEF ThreadRec
<1>8. \A v \in BOOLEAN : [x EXCEPT !.has = v] \in ThreadRec
  BY Zenon DEF ThreadRec
<1>9. \A v \in Int : [x EXCEPT !.end = v] \in ThreadRec
  BY Zenon DEF ThreadRec
<1>10. \A v \in BOOLEAN : [x EXCEPT !.failed = v] \in ThreadRec
  BY Zenon DEF ThreadRec
<1>. QED
  BY <1>1, <1>2, <1>3, <1>4, <1>5, <1>6, <1>7, <1>8, <1>9, <1>10, Zenon

\* Setting a field of a client.
LEMMA ClientSet ==
  ASSUME NEW x \in ClientRec
  PROVE  /\ \A v \in {"ready", "waiting", "reply", "ended"} : [x EXCEPT !.pc = v] \in ClientRec
         /\ \A v \in Int : [x EXCEPT !.cursor = v] \in ClientRec
         /\ \A v \in SUBSET Samples : [x EXCEPT !.got = v] \in ClientRec
         /\ \A v \in {"none", "data", "-1", "-2", "-3", "-4"} : [x EXCEPT !.code = v] \in ClientRec
         /\ \A v \in Int : [x EXCEPT !.end = v] \in ClientRec
         /\ \A v \in SUBSET Samples : [x EXCEPT !.out = v] \in ClientRec
<1>1. \A v \in {"ready", "waiting", "reply", "ended"} : [x EXCEPT !.pc = v] \in ClientRec
  BY Zenon DEF ClientRec
<1>2. \A v \in Int : [x EXCEPT !.cursor = v] \in ClientRec
  BY Zenon DEF ClientRec
<1>3. \A v \in SUBSET Samples : [x EXCEPT !.got = v] \in ClientRec
  BY Zenon DEF ClientRec
<1>4. \A v \in {"none", "data", "-1", "-2", "-3", "-4"} : [x EXCEPT !.code = v] \in ClientRec
  BY Zenon DEF ClientRec
<1>5. \A v \in Int : [x EXCEPT !.end = v] \in ClientRec
  BY Zenon DEF ClientRec
<1>6. \A v \in SUBSET Samples : [x EXCEPT !.out = v] \in ClientRec
  BY Zenon DEF ClientRec
<1>. QED
  BY <1>1, <1>2, <1>3, <1>4, <1>5, <1>6, Zenon

\* A thread that is not running.
LEMMA NoDataType ==
  /\ NoData \in ThreadRec
  /\ NoData.pc = "none" /\ NoData.itter = 1 /\ NoData.firstsample /\ NoData.vec = {}
  /\ ~NoData.has /\ ~NoData.failed
<1>1. NoData \in ThreadRec
  BY SMT DEF NoData, ThreadRec
<1>. QED
  BY <1>1 DEF NoData

\* A client that is sound has been so before.
LEMMA SoundKept ==
  ASSUME NEW c \in Clients, UNCHANGED <<store, req>>, spoilt[c] \subseteq spoilt'[c]
  PROVE  Sound(c)' => Sound(c)
<1>1. Complete(c)' => Complete(c)
  BY DEF Complete
<1>. QED
  BY <1>1 DEF Sound

\* A client whose thread and record do not change.
LEMMA Untouched ==
  ASSUME NEW c \in Clients, ClientInv(c), UNCHANGED <<store, req>>,
         client'[c] = client[c], thread'[c] = thread[c], spoilt'[c] = spoilt[c]
  PROVE  ClientInv(c)'
<1>1. Sound(c)' => Sound(c)
  BY SoundKept
<1>2. PlaceInv(c)'
  BY DEF ClientInv, PlaceInv
<1>3. RangeInv(c)'
  BY <1>1 DEF ClientInv, RangeInv
<1>4. WorkInv(c)'
  BY <1>1 DEF ClientInv, WorkInv, Device
<1>5. AnswerInv(c)'
  BY <1>1 DEF ClientInv, AnswerInv
<1>6. GotInv(c)'
  BY <1>1 DEF ClientInv, GotInv
<1>. QED
  BY <1>2, <1>3, <1>4, <1>5, <1>6 DEF ClientInv

\* A step of one client or its thread.
LEMMA StepOf ==
  ASSUME CassInv, NEW c \in Clients, UNCHANGED <<store, req, up>>,
         \A d \in Clients \ {c} : client'[d] = client[d] /\ thread'[d] = thread[d] /\ spoilt'[d] = spoilt[d],
         spoilt[c] \subseteq spoilt'[c], TypeInv', DescriptorInv', ClientInv(c)'
  PROVE  CassInv'
<1>1. ASSUME NEW d \in Clients PROVE ClientInv(d)'
  <2>1. CASE d = c
    BY <2>1
  <2>2. CASE d # c
    BY <2>2, Untouched DEF CassInv
  <2>. QED
    BY <2>1, <2>2
<1>2. ASSUME NEW d \in Clients PROVE Sound(d)' => Sound(d)
  BY SoundKept
<1>3. ServerSurvives'
  BY <1>2 DEF CassInv, ServerSurvives
<1>. QED
  BY <1>1, <1>3 DEF CassInv

\* The threads at work can be counted.
LEMMA ServingFinite == IsFiniteSet(Serving) /\ Cardinality(Serving) \in Nat
<1>1. Serving \subseteq Clients
  BY DEF Serving
<1>2. IsFiniteSet(Serving)
  BY <1>1, CassSpeedAssumption, FS_Subset, Zenon
<1>. QED
  BY <1>2, FS_CardinalityType

\* A step that neither accepts nor closes a connection.
LEMMA ServingSame ==
  ASSUME NEW c \in Clients, \A d \in Clients \ {c} : thread'[d] = thread[d],
         thread[c].pc \in {"none", "backlog"} <=> thread'[c].pc \in {"none", "backlog"}
  PROVE  Serving' = Serving
<1>1. ASSUME NEW d \in Clients
      PROVE  thread[d].pc \notin {"none", "backlog"} <=> thread'[d].pc \notin {"none", "backlog"}
  <2>1. CASE d = c
    BY <2>1
  <2>2. CASE d # c
    BY <2>2
  <2>. QED
    BY <2>1, <2>2
<1>. QED
  BY <1>1, Zenon DEF Serving

\* A thread ends.
LEMMA ServingLess ==
  ASSUME NEW c \in Clients, \A d \in Clients \ {c} : thread'[d] = thread[d],
         thread[c].pc \notin {"none", "backlog"}, thread'[c].pc = "none"
  PROVE  Cardinality(Serving') = Cardinality(Serving) - 1
<1>1. Serving' = Serving \ {c}
  BY Zenon DEF Serving
<1>2. c \in Serving
  BY DEF Serving
<1>3. IsFiniteSet(Serving) /\ Cardinality(Serving) \in Nat
  BY ServingFinite
<1>4. Cardinality(Serving \ {c}) = Cardinality(Serving) - 1
  BY <1>2, <1>3, FS_RemoveElement
<1>. QED
  BY <1>1, <1>4

\* A connection is accepted.
LEMMA ServingMore ==
  ASSUME NEW c \in Clients, \A d \in Clients \ {c} : thread'[d] = thread[d],
         thread[c].pc = "backlog", thread'[c].pc \notin {"none", "backlog"}
  PROVE  Cardinality(Serving') = Cardinality(Serving) + 1
<1>1. Serving' = Serving \cup {c}
  <2>1. ASSUME NEW d PROVE d \in Serving' <=> d \in Serving \cup {c}
    <3>1. CASE d = c
      BY <3>1, Zenon DEF Serving
    <3>2. CASE d # c
      BY <3>2, Zenon DEF Serving
    <3>. QED
      BY <3>1, <3>2
  <2>. QED
    BY <2>1
<1>2. c \notin Serving
  BY DEF Serving
<1>3. IsFiniteSet(Serving) /\ Cardinality(Serving) \in Nat
  BY ServingFinite
<1>4. Cardinality(Serving \cup {c}) = Cardinality(Serving) + 1
  BY <1>2, <1>3, FS_AddElement
<1>. QED
  BY <1>1, <1>4

\* The thread of c ends without an answer, and the client stays or is ended.
LEMMA ThreadEnds ==
  ASSUME NEW c \in Clients, TypeInv, ClientInv(c), UNCHANGED <<store, req>>, spoilt'[c] = spoilt[c],
         thread'[c] = NoData,
         client'[c] = client[c] \/ client'[c] = [client[c] EXCEPT !.pc = "ended"]
  PROVE  ClientInv(c)'
<1>1. Sound(c)' => Sound(c)
  BY SoundKept
<1>2. /\ thread'[c].pc = "none" /\ thread'[c].itter = 1 /\ thread'[c].firstsample
      /\ thread'[c].vec = {} /\ ~thread'[c].has /\ ~thread'[c].failed
  BY NoDataType
<1>3. /\ client'[c].cursor = client[c].cursor /\ client'[c].got = client[c].got
      /\ client'[c].end = client[c].end /\ client'[c].code = client[c].code
      /\ client'[c].out = client[c].out /\ client'[c].pc \in {client[c].pc, "ended"}
  BY ZenonT(60) DEF TypeInv, ClientRec
<1>4. PlaceInv(c)'
  <2>1. Len(req[c].devices) \in Nat
    BY RequestType
  <2>. QED
    BY <1>2, <2>1, FS_EmptySet DEF PlaceInv
<1>5. RangeInv(c)'
  BY <1>1, <1>2, <1>3 DEF ClientInv, RangeInv
<1>6. WorkInv(c)'
  BY <1>2 DEF WorkInv
<1>7. AnswerInv(c)'
  BY <1>1, <1>3 DEF ClientInv, AnswerInv
<1>8. GotInv(c)'
  BY <1>1, <1>3 DEF ClientInv, GotInv
<1>. QED
  BY <1>4, <1>5, <1>6, <1>7, <1>8 DEF ClientInv

\* The thread of c ends with an answer.
LEMMA Delivered ==
  ASSUME CassInv, NEW c \in Clients, NEW code \in {"data", "-1", "-2", "-3", "-4"},
         Deliver(c, code), thread[c].pc \notin {"none", "backlog"},
         UNCHANGED <<store, req, up, numsamples>>, leaked' \in {leaked, leaked + 1},
         faults' \in 0..MaxFaults,
         spoilt' \in [Clients -> SUBSET {"raced", "wrapped", "partial"}], spoilt[c] \subseteq spoilt'[c],
         \A d \in Clients \ {c} : spoilt'[d] = spoilt[d],
         code = "data" => /\ thread[c].has /\ thread[c].itter > Len(req[c].devices)
                          /\ Sound(c)' => ~thread[c].failed
  PROVE  CassInv'
<1>. DEFINE x1 == [client[c] EXCEPT !.pc = "reply"]
            x2 == [x1 EXCEPT !.code = code]
            x3 == [x2 EXCEPT !.end = thread[c].end]
            x4 == [x3 EXCEPT !.out = thread[c].out]
<1>a. TypeInv /\ ClientInv(c)
  BY DEF CassInv
<1>b. client[c] \in ClientRec /\ thread[c] \in ThreadRec
  BY <1>a, RecordType
<1>c. thread[c].end \in Int /\ thread[c].out \in SUBSET Samples
  BY <1>b DEF ThreadRec
<1>1. thread' = [thread EXCEPT ![c] = NoData]
  BY DEF Deliver
<1>2. client' = [client EXCEPT ![c] = IF client[c].pc # "waiting" THEN client[c] ELSE x4]
  BY Zenon DEF Deliver
<1>3. client[c].pc = "waiting" =>
        /\ x4.pc = "reply" /\ x4.code = code /\ x4.end = thread[c].end /\ x4.out = thread[c].out
        /\ x4.cursor = client[c].cursor /\ x4.got = client[c].got
  BY <1>b, Zenon DEF ClientRec
<1>4. x4 \in ClientRec
  <2>1. x1 \in ClientRec
    BY <1>b, ClientSet, Zenon
  <2>2. x2 \in ClientRec
    BY <2>1, ClientSet, Zenon
  <2>3. x3 \in ClientRec
    BY <1>c, <2>2, ClientSet, Zenon
  <2>. QED
    BY <1>c, <2>3, ClientSet, Zenon
<1>. HIDE DEF x4
<1>5. /\ thread'[c] = NoData /\ \A d \in Clients \ {c} : thread'[d] = thread[d]
      /\ thread' \in [Clients -> ThreadRec]
  BY <1>1, <1>a, NoDataType, Zenon DEF TypeInv
<1>6. /\ client'[c] = IF client[c].pc # "waiting" THEN client[c] ELSE x4
      /\ \A d \in Clients \ {c} : client'[d] = client[d]
      /\ client' \in [Clients -> ClientRec]
  BY <1>2, <1>4, <1>a, <1>b, Zenon DEF TypeInv
<1>7. TypeInv'
  BY <1>5, <1>6, <1>a DEF TypeInv
<1>8. DescriptorInv'
  <2>1. Cardinality(Serving') = Cardinality(Serving) - 1
    BY <1>5, NoDataType, ServingLess
  <2>2. leaked \in Nat /\ MaxFds \in Nat /\ Cardinality(Serving) \in Nat
    BY <1>a, ServingFinite, CassSpeedAssumption DEF TypeInv
  <2>. QED
    BY <2>1, <2>2 DEF DescriptorInv, CassInv
<1>9. ClientInv(c)'
  <2>1. Sound(c)' => Sound(c)
    BY SoundKept
  <2>2. /\ thread'[c].pc = "none" /\ thread'[c].itter = 1 /\ thread'[c].firstsample
        /\ thread'[c].vec = {} /\ ~thread'[c].has /\ ~thread'[c].failed
    BY <1>5, NoDataType
  <2>3. client'[c].cursor = client[c].cursor /\ client'[c].got = client[c].got
    BY <1>3, <1>6
  <2>4. PlaceInv(c)'
    <3>1. Len(req[c].devices) \in Nat
      BY <1>a, RequestType
    <3>. QED
      BY <1>5, <2>2, <3>1, FS_EmptySet DEF PlaceInv
  <2>5. RangeInv(c)'
    BY <2>1, <2>2, <2>3, <1>a DEF ClientInv, RangeInv
  <2>6. WorkInv(c)'
    BY <2>2 DEF WorkInv
  <2>7. AnswerInv(c)'
    <3>1. CASE client[c].pc # "waiting"
      BY <3>1, <1>6, <1>a, <2>1 DEF ClientInv, AnswerInv
    <3>2. CASE client[c].pc = "waiting"
      <4>. SUFFICES ASSUME Sound(c)', client'[c].code = "data"
                    PROVE  AnswerInv(c)'
        BY DEF AnswerInv
      <4>1. code = "data" /\ client'[c].end = thread[c].end /\ client'[c].out = thread[c].out
        BY <3>2, <1>3, <1>6
      <4>2. thread[c].end \in Stops(req[c], client[c].cursor) /\ Filled(req[c], client[c].cursor)
        BY <4>1, <2>1, <1>a DEF ClientInv, WorkInv
      <4>3. \A i \in 1..(thread[c].itter - 1) :
              Holds(thread[c].out, req[c].methods, req[c].devices[i], Chunk(req[c], client[c].cursor))
        BY <4>1, <2>1, <1>a DEF ClientInv, WorkInv
      <4>4. \A i \in 1..Len(req[c].devices) : i \in 1..(thread[c].itter - 1)
        <5>1. Len(req[c].devices) \in Nat /\ thread[c].itter \in Nat /\ thread[c].itter > Len(req[c].devices)
          BY <4>1, <1>a, <1>b, RequestType DEF ThreadRec
        <5>. QED
          BY <5>1
      <4>5. \A i \in 1..Len(req[c].devices) :
              Holds(thread[c].out, req[c].methods, req[c].devices[i], Chunk(req[c], client[c].cursor))
        BY <4>3, <4>4
      <4>. QED
        BY <4>1, <4>2, <4>5, <2>3 DEF AnswerInv
    <3>. QED
      BY <3>1, <3>2
  <2>8. GotInv(c)'
    BY <2>1, <2>3, <1>a DEF ClientInv, GotInv
  <2>. QED
    BY <2>4, <2>5, <2>6, <2>7, <2>8 DEF ClientInv
<1>. QED
  BY <1>5, <1>6, <1>7, <1>8, <1>9, StepOf

\* The number of faults stays within its bound.
LEMMA FaultsBounded ==
  ASSUME TypeInv, Works \/ Fails
  PROVE  faults' \in 0..MaxFaults
BY CassSpeedAssumption DEF TypeInv, Works, Fails

\* The client asks for a chunk.
LEMMA AskStep ==
  ASSUME CassInv, NEW c \in Clients, Ask(c)
  PROVE  CassInv'
<1>a. TypeInv /\ ClientInv(c)
  BY DEF CassInv
<1>b. client[c] \in ClientRec /\ thread[c] \in ThreadRec
  BY <1>a, RecordType
<1>c. UNCHANGED <<store, req, numsamples, up, leaked, faults, spoilt>> /\ client[c].pc = "ready"
  BY DEF Ask
<1>d. thread[c].pc = "none"
  BY <1>a, <1>c DEF ClientInv, PlaceInv
<1>1. CASE up
  <2>. DEFINE x == [NoData EXCEPT !.pc = "backlog"]
              y == [client[c] EXCEPT !.pc = "waiting"]
  <2>1. thread' = [thread EXCEPT ![c] = x] /\ client' = [client EXCEPT ![c] = y]
    BY <1>1, Zenon DEF Ask
  <2>2. /\ x.pc = "backlog" /\ x.itter = 1 /\ x.firstsample = TRUE /\ x.vec = {}
        /\ x.has = FALSE /\ x.failed = FALSE
    BY Zenon DEF NoData
  <2>3. x \in ThreadRec /\ y \in ClientRec
    BY <1>b, NoDataType, ThreadSet, ClientSet, Zenon
  <2>4. y.pc = "waiting" /\ y.cursor = client[c].cursor /\ y.got = client[c].got
    BY <1>b, Zenon DEF ClientRec
  <2>. HIDE DEF x, y
  <2>5. /\ thread'[c] = x /\ \A d \in Clients \ {c} : thread'[d] = thread[d]
        /\ thread' \in [Clients -> ThreadRec]
    BY <2>1, <2>3, <1>a, Zenon DEF TypeInv
  <2>6. /\ client'[c] = y /\ \A d \in Clients \ {c} : client'[d] = client[d]
        /\ client' \in [Clients -> ClientRec]
    BY <2>1, <2>3, <1>a, Zenon DEF TypeInv
  <2>7. TypeInv'
    BY <2>5, <2>6, <1>a, <1>c DEF TypeInv
  <2>8. DescriptorInv'
    <3>1. Serving' = Serving
      BY <1>d, <2>2, <2>5, ServingSame
    <3>. QED
      BY <3>1, <1>c DEF DescriptorInv, CassInv
  <2>9. Sound(c)' => Sound(c)
    BY <1>c, SoundKept
  <2>10. PlaceInv(c)'
    <3>1. Len(req[c].devices) \in Nat
      BY <1>a, RequestType
    <3>2. /\ thread'[c].pc = "backlog" /\ thread'[c].itter = 1 /\ thread'[c].firstsample
          /\ thread'[c].vec = {} /\ client'[c].pc = "waiting" /\ IsFiniteSet(thread'[c].vec)
      BY <2>2, <2>4, <2>5, <2>6, FS_EmptySet
    <3>. QED
      BY <1>c, <3>1, <3>2 DEF PlaceInv
  <2>11. RangeInv(c)'
    BY <2>4, <2>6, <2>9, <1>a, <1>c DEF ClientInv, RangeInv
  <2>12. WorkInv(c)'
    BY <2>2, <2>5 DEF WorkInv
  <2>13. AnswerInv(c)'
    BY <2>4, <2>6 DEF AnswerInv
  <2>14. GotInv(c)'
    BY <2>4, <2>6, <2>9, <1>a, <1>c DEF ClientInv, GotInv
  <2>15. ClientInv(c)'
    BY <2>10, <2>11, <2>12, <2>13, <2>14 DEF ClientInv
  <2>. QED
    BY <1>c, <2>5, <2>6, <2>7, <2>8, <2>15, StepOf
<1>2. CASE ~up
  <2>. DEFINE y == [client[c] EXCEPT !.pc = "ended"]
  <2>1. client' = [client EXCEPT ![c] = y] /\ thread' = thread
    BY <1>2, Zenon DEF Ask
  <2>2. y \in ClientRec
    BY <1>b, ClientSet, Zenon
  <2>3. y.pc = "ended" /\ y.cursor = client[c].cursor /\ y.got = client[c].got
    BY <1>b, Zenon DEF ClientRec
  <2>. HIDE DEF y
  <2>4. /\ client'[c] = y /\ \A d \in Clients \ {c} : client'[d] = client[d]
        /\ client' \in [Clients -> ClientRec]
    BY <2>1, <2>2, <1>a, Zenon DEF TypeInv
  <2>5. TypeInv'
    BY <2>1, <2>4, <1>a, <1>c DEF TypeInv
  <2>6. DescriptorInv'
    BY <2>1, <1>c DEF DescriptorInv, CassInv, Serving
  <2>7. Sound(c)' => Sound(c)
    BY <1>c, SoundKept
  <2>8. PlaceInv(c)'
    BY <2>1, <2>3, <2>4, <1>a, <1>c DEF ClientInv, PlaceInv
  <2>9. RangeInv(c)'
    BY <2>1, <2>3, <2>4, <2>7, <1>a, <1>c, <1>d DEF ClientInv, RangeInv
  <2>10. WorkInv(c)'
    BY <2>1, <2>3, <2>4, <2>7, <1>a, <1>c DEF ClientInv, WorkInv, Device
  <2>11. AnswerInv(c)'
    BY <2>3, <2>4 DEF AnswerInv
  <2>12. GotInv(c)'
    BY <2>3, <2>4, <2>7, <1>a, <1>c DEF ClientInv, GotInv
  <2>13. ClientInv(c)'
    BY <2>8, <2>9, <2>10, <2>11, <2>12 DEF ClientInv
  <2>. QED
    BY <1>c, <2>1, <2>4, <2>5, <2>6, <2>13, StepOf
<1>. QED
  BY <1>1, <1>2

\* The client is stopped.
LEMMA QuitStep ==
  ASSUME CassInv, NEW c \in Clients, Quit(c)
  PROVE  CassInv'
<1>. DEFINE y == [client[c] EXCEPT !.pc = "ended"]
<1>a. TypeInv /\ ClientInv(c)
  BY DEF CassInv
<1>b. client[c] \in ClientRec /\ thread[c] \in ThreadRec
  BY <1>a, RecordType
<1>c. UNCHANGED <<store, req, thread, numsamples, up, leaked, spoilt>> /\ client[c].pc = "waiting"
  BY DEF Quit
<1>d. faults' \in 0..MaxFaults
  BY <1>a, FaultsBounded DEF Quit
<1>1. client' = [client EXCEPT ![c] = y]
  BY Zenon DEF Quit
<1>2. y \in ClientRec
  BY <1>b, ClientSet, Zenon
<1>3. y.pc = "ended" /\ y.cursor = client[c].cursor /\ y.got = client[c].got
  BY <1>b, Zenon DEF ClientRec
<1>. HIDE DEF y
<1>4. /\ client'[c] = y /\ \A d \in Clients \ {c} : client'[d] = client[d]
      /\ client' \in [Clients -> ClientRec]
  BY <1>1, <1>2, <1>a, Zenon DEF TypeInv
<1>5. TypeInv'
  BY <1>4, <1>a, <1>c, <1>d DEF TypeInv
<1>6. DescriptorInv'
  BY <1>c DEF DescriptorInv, CassInv, Serving
<1>7. Sound(c)' => Sound(c)
  BY <1>c, SoundKept
<1>8. PlaceInv(c)'
  BY <1>3, <1>4, <1>a, <1>c DEF ClientInv, PlaceInv
<1>9. RangeInv(c)'
  BY <1>3, <1>4, <1>7, <1>a, <1>c DEF ClientInv, RangeInv
<1>10. WorkInv(c)'
  BY <1>3, <1>4, <1>7, <1>a, <1>c DEF ClientInv, WorkInv, Device
<1>11. AnswerInv(c)'
  BY <1>3, <1>4 DEF AnswerInv
<1>12. GotInv(c)'
  BY <1>3, <1>4, <1>7, <1>a, <1>c DEF ClientInv, GotInv
<1>13. ClientInv(c)'
  BY <1>8, <1>9, <1>10, <1>11, <1>12 DEF ClientInv
<1>. QED
  BY <1>c, <1>4, <1>5, <1>6, <1>13, StepOf

\* The next chunk: what the client has goes on to where it begins.
LEMMA NextChunk ==
  ASSUME TypeInv, NEW c \in Clients, ClientInv(c), Sound(c),
         client[c].pc = "reply", client[c].code = "data"
  PROVE  /\ FirstSecond(req[c].from) <= FirstSecond(client[c].end)
         /\ ~Finished(c, client[c].end) => client[c].end < req[c].to
         /\ \A i \in 1..Len(req[c].devices), m \in req[c].methods :
              \A s \in store[req[c].devices[i]] : \A q \in (s * Rate)..(s * Rate + Rate - 1) :
                (req[c].from * Rate <= q * Sec /\ q * Sec < client[c].end * Rate)
                  => <<m, req[c].devices[i], q>> \in client[c].got \cup client[c].out
<1>. DEFINE r == req[c]
            t == client[c].cursor
            e == client[c].end
<1>a. Rate \in Nat \ {0} /\ Sec \in Nat \ {0} /\ Rate <= Sec
  BY CassSpeedAssumption
<1>b. r \in Requests /\ r.step \in Nat \ {0} /\ r.to \in Nat /\ r.from \in Nat
  BY RequestType
<1>c. t \in Int
  BY RecordType
<1>d. FirstSecond(r.from) <= FirstSecond(t) /\ t < r.to
  BY DEF ClientInv, RangeInv
<1>e. e \in Stops(r, t)
  BY DEF ClientInv, AnswerInv
<1>1. FirstSecond(t) \in Nat /\ e \in Nat /\ FirstSecond(t) * Sec <= e
  BY <1>b, <1>c, <1>d, <1>e, ChunkBegins, ChunkStops
<1>2. FirstSecond(r.from) <= FirstSecond(e)
  <2>1. FirstSecond(t) * Sec <= e
    BY <1>a, <1>1
  <2>2. FirstSecond(t) <= e \div Sec
    <3>1. FirstSecond(t) \in Int /\ e \in Int
      BY <1>1
    <3>. QED
      BY <1>a, <2>1, <3>1, DivBounds, Zenon
  <2>3. r.from \div Sec \in Int /\ e \div Sec \in Int
    BY <1>a, <1>b, <1>1
  <2>. QED
    BY <1>1, <1>d, <2>2, <2>3 DEF FirstSecond
<1>3. ~Finished(c, e) => e < r.to
  <2>. DEFINE p == (r.step + 1) * Sec
  <2>1. p \in Nat /\ 1 * Rate <= p
    <3>1. 1 * Sec <= (r.step + 1) * Sec
      BY <1>a, <1>b, Times
    <3>. QED
      BY <1>a, <1>b, <3>1
  <2>2. Finished(c, e) <=> e + p \div Rate > r.to
    BY DEF Finished
  <2>. HIDE DEF p
  <2>3. 1 <= p \div Rate /\ p \div Rate \in Int
    BY <1>a, <2>1, DivBounds
  <2>. QED
    BY <1>b, <1>1, <2>2, <2>3
<1>4. ASSUME NEW i \in 1..Len(r.devices), NEW m \in r.methods, NEW s \in store[r.devices[i]],
             NEW q \in (s * Rate)..(s * Rate + Rate - 1),
             r.from * Rate <= q * Sec, q * Sec < e * Rate
      PROVE  <<m, r.devices[i], q>> \in client[c].got \cup client[c].out
  <2>1. CASE q * Sec < t * Rate
    <3>1. <<m, r.devices[i], q>> \in client[c].got
      BY <1>4, <2>1 DEF ClientInv, GotInv
    <3>. QED
      BY <3>1
  <2>2. CASE ~(q * Sec < t * Rate)
    <3>1. q \in Int
      BY <1>a, RequestType
    <3>2. t * Rate <= q * Sec
      BY <1>a, <1>c, <2>2, <3>1
    <3>3. q \in Chunk(r, t)
      BY <1>b, <1>c, <1>d, <1>e, <1>4, <3>1, <3>2, ChunkReaches
    <3>4. Holds(client[c].out, r.methods, r.devices[i], Chunk(r, t))
      BY DEF ClientInv, AnswerInv
    <3>5. <<m, r.devices[i], q>> \in client[c].out
      BY <3>3, <3>4 DEF Holds
    <3>. QED
      BY <3>5
  <2>. QED
    BY <2>1, <2>2
<1>. QED
  BY <1>2, <1>3, <1>4

\* The client reads an answer.
LEMMA ReadStep ==
  ASSUME CassInv, NEW c \in Clients, Read(c)
  PROVE  CassInv'
<1>a. TypeInv /\ ClientInv(c)
  BY DEF CassInv
<1>b. client[c] \in ClientRec /\ thread[c] \in ThreadRec
  BY <1>a, RecordType
<1>c. UNCHANGED <<store, req, thread, numsamples, up, leaked, faults, spoilt>> /\ client[c].pc = "reply"
  BY DEF Read
<1>d. thread[c] = NoData /\ thread[c].pc = "none"
  BY <1>a, <1>c DEF ClientInv, PlaceInv
<1>e. DescriptorInv'
  BY <1>c DEF DescriptorInv, CassInv, Serving
<1>f. Sound(c)' => Sound(c)
  BY <1>c, SoundKept
<1>g. WorkInv(c)'
  <2>1. /\ thread'[c].pc = "none" /\ thread'[c].itter = 1 /\ thread'[c].firstsample
        /\ ~thread'[c].has
    BY <1>c, <1>d, NoDataType
  <2>. QED
    BY <2>1 DEF WorkInv
<1>h. PlaceInv(c)'
  BY <1>a, <1>c, <1>d DEF ClientInv, PlaceInv
<1>1. CASE client[c].code # "data"
  <2>. DEFINE y == [client[c] EXCEPT !.pc = "ended"]
  <2>1. client' = [client EXCEPT ![c] = y]
    BY <1>1, Zenon DEF Read
  <2>2. y \in ClientRec
    BY <1>b, ClientSet, Zenon
  <2>3. y.pc = "ended" /\ y.cursor = client[c].cursor /\ y.got = client[c].got
    BY <1>b, Zenon DEF ClientRec
  <2>. HIDE DEF y
  <2>4. /\ client'[c] = y /\ \A d \in Clients \ {c} : client'[d] = client[d]
        /\ client' \in [Clients -> ClientRec]
    BY <2>1, <2>2, <1>a, Zenon DEF TypeInv
  <2>5. TypeInv'
    BY <2>4, <1>a, <1>c DEF TypeInv
  <2>6. RangeInv(c)'
    BY <2>3, <2>4, <1>a, <1>c, <1>d, <1>f DEF ClientInv, RangeInv
  <2>7. AnswerInv(c)'
    BY <2>3, <2>4 DEF AnswerInv
  <2>8. GotInv(c)'
    BY <2>3, <2>4, <1>a, <1>c, <1>f DEF ClientInv, GotInv
  <2>9. ClientInv(c)'
    BY <2>6, <2>7, <2>8, <1>g, <1>h DEF ClientInv
  <2>. QED
    BY <1>c, <1>e, <2>4, <2>5, <2>9, StepOf
<1>2. CASE client[c].code = "data"
  <2>. DEFINE p == IF Finished(c, client[c].end) THEN "ended" ELSE "ready"
              y1 == [client[c] EXCEPT !.pc = p]
              y2 == [y1 EXCEPT !.cursor = client[c].end]
              y3 == [y2 EXCEPT !.got = client[c].got \cup client[c].out]
              y == [y3 EXCEPT !.out = {}]
  <2>1. client' = [client EXCEPT ![c] = y]
    BY <1>2, Zenon DEF Read
  <2>2. p \in {"ready", "waiting", "reply", "ended"} /\ client[c].end \in Int
    BY <1>b DEF ClientRec
  <2>3. y \in ClientRec
    <3>. HIDE DEF p
    <3>1. y1 \in ClientRec
      BY <1>b, <2>2, ClientSet, Zenon
    <3>2. y2 \in ClientRec
      BY <2>2, <3>1, ClientSet, Zenon
    <3>3. client[c].got \cup client[c].out \in SUBSET Samples
      BY <1>b DEF ClientRec
    <3>4. y3 \in ClientRec
      BY <3>2, <3>3, ClientSet, Zenon
    <3>5. {} \in SUBSET Samples
      OBVIOUS
    <3>. QED
      BY <3>4, <3>5, ClientSet, Zenon
  <2>4. /\ y.pc = p /\ y.cursor = client[c].end /\ y.got = client[c].got \cup client[c].out
    BY <1>b, Zenon DEF ClientRec
  <2>. HIDE DEF y
  <2>5. /\ client'[c] = y /\ \A d \in Clients \ {c} : client'[d] = client[d]
        /\ client' \in [Clients -> ClientRec]
    BY <2>1, <2>3, <1>a, Zenon DEF TypeInv
  <2>6. TypeInv'
    BY <2>5, <1>a, <1>c DEF TypeInv
  <2>7. RangeInv(c)'
    BY <2>4, <2>5, <1>2, <1>a, <1>c, <1>d, <1>f, NextChunk DEF RangeInv
  <2>8. AnswerInv(c)'
    BY <2>4, <2>5 DEF AnswerInv
  <2>9. GotInv(c)'
    BY <2>4, <2>5, <1>2, <1>a, <1>c, <1>f, NextChunk DEF GotInv
  <2>10. ClientInv(c)'
    BY <2>7, <2>8, <2>9, <1>g, <1>h DEF ClientInv
  <2>. QED
    BY <1>c, <1>e, <2>5, <2>6, <2>10, StepOf
<1>. QED
  BY <1>1, <1>2

\* A thread goes on from one place to the next before its first query.
LEMMA ThreadMoves ==
  ASSUME CassInv, NEW c \in Clients, NEW p \in {"receive", "query"},
         thread[c].pc \in {"backlog", "receive"}, thread' = [thread EXCEPT ![c].pc = p],
         UNCHANGED <<store, req, client, numsamples, up, leaked, faults, spoilt>>, DescriptorInv'
  PROVE  CassInv'
<1>. DEFINE x == [thread[c] EXCEPT !.pc = p]
<1>a. TypeInv /\ ClientInv(c)
  BY DEF CassInv
<1>b. thread[c] \in ThreadRec
  BY <1>a, RecordType
<1>1. thread' = [thread EXCEPT ![c] = x]
  BY Zenon
<1>2. x \in ThreadRec
  BY <1>b, ThreadSet, Zenon
<1>3. /\ x.pc = p /\ x.itter = thread[c].itter /\ x.firstsample = thread[c].firstsample
      /\ x.start = thread[c].start /\ x.vec = thread[c].vec /\ x.has = thread[c].has
      /\ x.end = thread[c].end /\ x.out = thread[c].out /\ x.failed = thread[c].failed
  BY <1>b, Zenon DEF ThreadRec
<1>. HIDE DEF x
<1>4. /\ thread'[c] = x /\ \A d \in Clients \ {c} : thread'[d] = thread[d]
      /\ thread' \in [Clients -> ThreadRec]
  BY <1>1, <1>2, <1>a, Zenon DEF TypeInv
<1>5. TypeInv'
  BY <1>4, <1>a DEF TypeInv
<1>6. Sound(c)' => Sound(c)
  BY SoundKept
<1>7. PlaceInv(c)'
  BY <1>3, <1>4, <1>a DEF ClientInv, PlaceInv
<1>8. RangeInv(c)'
  BY <1>3, <1>4, <1>6, <1>a DEF ClientInv, RangeInv
<1>9. WorkInv(c)'
  BY <1>3, <1>4, <1>6, <1>a DEF ClientInv, WorkInv
<1>10. AnswerInv(c)'
  BY <1>6, <1>a DEF ClientInv, AnswerInv
<1>11. GotInv(c)'
  BY <1>6, <1>a DEF ClientInv, GotInv
<1>12. ClientInv(c)'
  BY <1>7, <1>8, <1>9, <1>10, <1>11 DEF ClientInv
<1>. QED
  BY <1>4, <1>5, <1>12, StepOf

\* A connection is accepted.
LEMMA AcceptStep ==
  ASSUME CassInv, NEW c \in Clients, Accept(c)
  PROVE  CassInv'
<1>a. TypeInv /\ leaked \in Nat /\ MaxFds \in Nat /\ Cardinality(Serving) \in Nat
  BY ServingFinite, CassSpeedAssumption DEF TypeInv, CassInv
<1>1. /\ thread[c].pc = "backlog" /\ leaked + Cardinality(Serving) < MaxFds
      /\ thread' = [thread EXCEPT ![c].pc = "receive"]
      /\ UNCHANGED <<store, req, client, numsamples, up, leaked, faults, spoilt>>
  BY DEF Accept
<1>2. thread'[c].pc = "receive" /\ \A d \in Clients \ {c} : thread'[d] = thread[d]
  BY <1>1, <1>a, Zenon DEF TypeInv, ThreadRec
<1>3. Cardinality(Serving') = Cardinality(Serving) + 1
  BY <1>1, <1>2, ServingMore
<1>4. DescriptorInv'
  BY <1>1, <1>3, <1>a DEF DescriptorInv
<1>. QED
  BY <1>1, <1>4, ThreadMoves

\* The connection is closed before a request arrives.
LEMMA ReceiveNothingStep ==
  ASSUME CassInv, NEW c \in Clients, ReceiveNothing(c)
  PROVE  CassInv'
<1>a. TypeInv /\ ClientInv(c)
  BY DEF CassInv
<1>1. /\ thread[c].pc = "receive" /\ thread' = [thread EXCEPT ![c] = NoData]
      /\ leaked' \in {leaked, leaked + 1}
      /\ UNCHANGED <<store, req, client, numsamples, up, faults, spoilt>>
  BY DEF ReceiveNothing
<1>2. /\ thread'[c] = NoData /\ \A d \in Clients \ {c} : thread'[d] = thread[d]
      /\ thread' \in [Clients -> ThreadRec]
  BY <1>1, <1>a, NoDataType, Zenon DEF TypeInv
<1>3. TypeInv'
  BY <1>1, <1>2, <1>a DEF TypeInv
<1>4. DescriptorInv'
  <2>1. Cardinality(Serving') = Cardinality(Serving) - 1
    BY <1>1, <1>2, NoDataType, ServingLess
  <2>2. leaked \in Nat /\ MaxFds \in Nat /\ Cardinality(Serving) \in Nat
    BY <1>a, ServingFinite, CassSpeedAssumption DEF TypeInv
  <2>. QED
    BY <1>1, <2>1, <2>2 DEF DescriptorInv, CassInv
<1>5. ClientInv(c)'
  BY <1>1, <1>2, <1>a, ThreadEnds
<1>. QED
  BY <1>1, <1>2, <1>3, <1>4, <1>5, StepOf

\* The request is read.
LEMMA ReceiveStep ==
  ASSUME CassInv, NEW c \in Clients, Receive(c)
  PROVE  CassInv'
<1>a. TypeInv /\ spoilt \in [Clients -> SUBSET {"raced", "wrapped", "partial"}]
  BY DEF CassInv, TypeInv
<1>b. thread[c].pc = "receive" /\ UNCHANGED <<store, req, numsamples, up, spoilt>>
  BY DEF Receive
<1>1. ASSUME Works \/ Fails, NEW code \in {"-1", "-2", "-3"}, Answer(c, code)
      PROVE  CassInv'
  <2>1. faults' \in 0..MaxFaults
    BY <1>1, <1>a, FaultsBounded
  <2>2. Deliver(c, code) /\ leaked' = leaked /\ code # "data" /\ code \in {"data", "-1", "-2", "-3", "-4"}
    BY <1>1 DEF Answer
  <2>. QED
    BY <1>a, <1>b, <2>1, <2>2, Delivered
<1>2. CASE Works /\ thread' = [thread EXCEPT ![c].pc = "query"] /\ UNCHANGED <<client, leaked>>
  <2>1. thread'[c].pc = "query" /\ \A d \in Clients \ {c} : thread'[d] = thread[d]
    BY <1>2, <1>a, Zenon DEF TypeInv, ThreadRec
  <2>2. Serving' = Serving
    BY <1>b, <2>1, ServingSame
  <2>3. DescriptorInv'
    BY <1>2, <2>2 DEF DescriptorInv, CassInv
  <2>. QED
    BY <1>2, <1>b, <2>3, ThreadMoves DEF Works
<1>. QED
  BY <1>1, <1>2 DEF Receive

\* A query fails.
LEMMA QueryFailsStep ==
  ASSUME CassInv, NEW c \in Clients, QueryFails(c)
  PROVE  CassInv'
<1>. DEFINE x1 == [thread[c] EXCEPT !.failed = TRUE]
            x == [x1 EXCEPT !.itter = thread[c].itter + 1]
<1>a. TypeInv /\ ClientInv(c)
  BY DEF CassInv
<1>b. thread[c] \in ThreadRec /\ thread[c].itter \in Nat \ {0} /\ Len(req[c].devices) \in Nat
  BY <1>a, RecordType, RequestType DEF ThreadRec
<1>c. /\ thread[c].pc = "query" /\ thread[c].itter <= Len(req[c].devices)
      /\ UNCHANGED <<store, req, client, numsamples, up, leaked, spoilt>>
  BY DEF QueryFails
<1>d. faults' \in 0..MaxFaults
  BY <1>a, FaultsBounded DEF QueryFails
<1>1. thread' = [thread EXCEPT ![c] = x]
  BY Zenon DEF QueryFails
<1>2. x \in ThreadRec
  <2>1. x1 \in ThreadRec
    BY <1>b, ThreadSet, Zenon
  <2>2. thread[c].itter + 1 \in Nat \ {0}
    BY <1>b
  <2>. QED
    BY <2>1, <2>2, ThreadSet, Zenon
<1>3. /\ x.pc = thread[c].pc /\ x.itter = thread[c].itter + 1 /\ x.firstsample = thread[c].firstsample
      /\ x.start = thread[c].start /\ x.vec = thread[c].vec /\ x.has = thread[c].has
      /\ x.end = thread[c].end /\ x.failed = TRUE
  BY <1>b, Zenon DEF ThreadRec
<1>. HIDE DEF x
<1>4. /\ thread'[c] = x /\ \A d \in Clients \ {c} : thread'[d] = thread[d]
      /\ thread' \in [Clients -> ThreadRec]
  BY <1>1, <1>2, <1>a, Zenon DEF TypeInv
<1>5. TypeInv'
  BY <1>4, <1>a, <1>c, <1>d DEF TypeInv
<1>6. DescriptorInv'
  <2>1. Serving' = Serving
    BY <1>3, <1>4, ServingSame
  <2>. QED
    BY <1>c, <2>1 DEF DescriptorInv, CassInv
<1>7. Sound(c)' => Sound(c)
  BY <1>c, SoundKept
<1>8. PlaceInv(c)'
  BY <1>3, <1>4, <1>a, <1>b, <1>c DEF ClientInv, PlaceInv
<1>9. RangeInv(c)'
  BY <1>3, <1>4, <1>7, <1>a, <1>c DEF ClientInv, RangeInv
<1>10. WorkInv(c)'
  BY <1>3, <1>4, <1>7, <1>a, <1>c DEF ClientInv, WorkInv
<1>11. AnswerInv(c)'
  BY <1>7, <1>a, <1>c DEF ClientInv, AnswerInv
<1>12. GotInv(c)'
  BY <1>7, <1>a, <1>c DEF ClientInv, GotInv
<1>13. ClientInv(c)'
  BY <1>8, <1>9, <1>10, <1>11, <1>12 DEF ClientInv
<1>. QED
  BY <1>c, <1>4, <1>5, <1>6, <1>13, StepOf

\* A query succeeds.
LEMMA QueryStep ==
  ASSUME CassInv, NEW c \in Clients, Query(c)
  PROVE  CassInv'
<1>. DEFINE rows == RowsFor(Device(c), client[c].cursor, ChunkEnd(c))
            all  == SamplesOf(rows)
            k    == ToSkip(client[c].cursor)
            v    == all \ First(all, k)
            b    == thread[c].firstsample /\ rows = {}
<1>a. TypeInv /\ ClientInv(c)
  BY DEF CassInv
<1>b. thread[c] \in ThreadRec /\ thread[c].itter \in Nat \ {0} /\ Len(req[c].devices) \in Nat
  BY <1>a, RecordType, RequestType DEF ThreadRec
<1>c. /\ thread[c].pc = "query" /\ thread[c].itter <= Len(req[c].devices) /\ faults' = faults
      /\ UNCHANGED <<store, req, client, numsamples, up, leaked, spoilt>>
  BY DEF Query, Works
<1>d. thread[c].itter \in 1..Len(req[c].devices) /\ Device(c) = req[c].devices[thread[c].itter]
  BY <1>b, <1>c DEF Device
<1>1. PICK t \in StartTimes(c, rows), w \in SkipTimes(k) :
        thread' = [thread EXCEPT ![c].pc = "compress", ![c].start = t + w,
                                 ![c].firstsample = @ /\ rows = {}, ![c].vec = v]
  BY Zenon DEF Query
<1>2. all \subseteq Nat /\ IsFiniteSet(all) /\ t + w \in Nat
  BY <1>a, <1>d, QueryType DEF ClientInv
<1>3. v \in SUBSET Nat /\ IsFiniteSet(v)
  <2>1. v \subseteq all
    OBVIOUS
  <2>. HIDE DEF v, all
  <2>2. IsFiniteSet(v)
    BY <1>2, <2>1, FS_Subset, Zenon
  <2>. QED
    BY <1>2, <2>1, <2>2
<1>4. Sound(c) => /\ rows # {} /\ v = Base(client[c].cursor)..Top(req[c], client[c].cursor)
                  /\ t + w \in Starts(client[c].cursor)
  <2>. SUFFICES ASSUME Sound(c)
                PROVE  /\ rows # {} /\ v = Base(client[c].cursor)..Top(req[c], client[c].cursor)
                       /\ t + w \in Starts(client[c].cursor)
    OBVIOUS
  <2>1. FirstSecond(req[c].from) <= FirstSecond(client[c].cursor) /\ client[c].cursor < req[c].to
    BY <1>a, <1>c DEF ClientInv, RangeInv
  <2>2. ~thread[c].firstsample => thread[c].start \in Starts(client[c].cursor)
    BY <1>a DEF ClientInv, WorkInv
  <2>. QED
    BY <1>a, <1>d, <2>1, <2>2, ChunkQuery
<1>. DEFINE u  == t + w
            x1 == [thread[c] EXCEPT !.pc = "compress"]
            x2 == [x1 EXCEPT !.start = u]
            x3 == [x2 EXCEPT !.firstsample = b]
            x  == [x3 EXCEPT !.vec = v]
<1>5. b \in BOOLEAN /\ u \in Nat \cup {Unset} /\ (b => rows = {}) /\ u # Unset
  BY <1>2 DEF Unset
<1>e. (Sound(c) => u \in Starts(client[c].cursor)) /\ (~b => rows # {} \/ ~thread[c].firstsample)
  BY <1>4
<1>6. thread' = [thread EXCEPT ![c] = x]
  BY <1>1, Zenon
<1>. HIDE DEF v, b, u, rows
<1>7. x \in ThreadRec
  <2>1. x1 \in ThreadRec
    BY <1>b, ThreadSet, Zenon
  <2>2. x2 \in ThreadRec
    BY <1>5, <2>1, ThreadSet, Zenon
  <2>3. x3 \in ThreadRec
    BY <1>5, <2>2, ThreadSet, Zenon
  <2>. QED
    BY <1>3, <2>3, ThreadSet, Zenon
<1>8. /\ x.pc = "compress" /\ x.itter = thread[c].itter /\ x.firstsample = b /\ x.start = u /\ x.vec = v
      /\ x.has = thread[c].has /\ x.end = thread[c].end /\ x.out = thread[c].out
      /\ x.failed = thread[c].failed
  BY <1>b, Zenon DEF ThreadRec
<1>. HIDE DEF x
<1>9. /\ thread'[c] = x /\ \A d \in Clients \ {c} : thread'[d] = thread[d]
      /\ thread' \in [Clients -> ThreadRec]
  BY <1>6, <1>7, <1>a, Zenon DEF TypeInv
<1>10. TypeInv'
  BY <1>9, <1>a, <1>c DEF TypeInv
<1>11. DescriptorInv'
  <2>1. Serving' = Serving
    BY <1>8, <1>9, <1>c, ServingSame
  <2>. QED
    BY <1>c, <2>1 DEF DescriptorInv, CassInv
<1>12. Sound(c)' => Sound(c)
  BY <1>c, SoundKept
<1>13. PlaceInv(c)'
  <2>1. /\ thread'[c].pc = "compress" /\ thread'[c].itter = thread[c].itter
        /\ thread'[c].start # Unset /\ IsFiniteSet(thread'[c].vec)
    BY <1>3, <1>5, <1>8, <1>9
  <2>. QED
    BY <2>1, <1>a, <1>b, <1>c DEF ClientInv, PlaceInv
<1>14. RangeInv(c)'
  BY <1>12, <1>a, <1>c DEF ClientInv, RangeInv
<1>15. WorkInv(c)'
  <2>. SUFFICES ASSUME Sound(c)'
                PROVE  WorkInv(c)'
    BY DEF WorkInv
  <2>1. /\ thread'[c].pc = "compress" /\ ~thread'[c].firstsample
        /\ thread'[c].start \in Starts(client[c].cursor)
        /\ thread'[c].vec = Base(client[c].cursor)..Top(req[c], client[c].cursor)
    BY <1>4, <1>5, <1>8, <1>9, <1>12, <1>e
  <2>2. /\ thread'[c].has = thread[c].has /\ thread'[c].end = thread[c].end
        /\ thread'[c].failed = thread[c].failed /\ thread'[c].itter = thread[c].itter
        /\ thread'[c].out = thread[c].out
    BY <1>8, <1>9
  <2>. QED
    BY <1>12, <1>a, <1>c, <2>1, <2>2 DEF ClientInv, WorkInv
<1>16. AnswerInv(c)'
  BY <1>12, <1>a, <1>c DEF ClientInv, AnswerInv
<1>17. GotInv(c)'
  BY <1>12, <1>a, <1>c DEF ClientInv, GotInv
<1>18. ClientInv(c)'
  BY <1>13, <1>14, <1>15, <1>16, <1>17 DEF ClientInv
<1>. QED
  BY <1>c, <1>9, <1>10, <1>11, <1>18, StepOf

\* Samples are erased that are not there: never for a sound client.
LEMMA EraseBeyondStep ==
  ASSUME CassInv, NEW c \in Clients, EraseBeyond(c)
  PROVE  CassInv'
<1>. DEFINE rows == RowsFor(Device(c), client[c].cursor, ChunkEnd(c))
            all  == SamplesOf(rows)
            k    == ToSkip(client[c].cursor)
<1>a. TypeInv /\ ClientInv(c) /\ spoilt \in [Clients -> SUBSET {"raced", "wrapped", "partial"}]
  BY DEF CassInv, TypeInv
<1>b. thread[c] \in ThreadRec /\ thread[c].itter \in Nat \ {0} /\ Len(req[c].devices) \in Nat
  BY <1>a, RecordType, RequestType DEF ThreadRec
<1>c. /\ thread[c].pc = "query" /\ thread[c].itter <= Len(req[c].devices) /\ faults' = faults
      /\ UNCHANGED <<store, req, numsamples, spoilt>> /\ Cardinality(all) < k
  BY DEF EraseBeyond, Works
<1>d. thread[c].itter \in 1..Len(req[c].devices) /\ Device(c) = req[c].devices[thread[c].itter]
  BY <1>b, <1>c DEF Device
<1>1. ~Sound(c)
  <2>. SUFFICES ASSUME Sound(c)
                PROVE  FALSE
    OBVIOUS
  <2>1. FirstSecond(req[c].from) <= FirstSecond(client[c].cursor) /\ client[c].cursor < req[c].to
    BY <1>a, <1>c DEF ClientInv, RangeInv
  <2>2. ~thread[c].firstsample => thread[c].start \in Starts(client[c].cursor)
    BY <1>a DEF ClientInv, WorkInv
  <2>3. k < Cardinality(all)
    BY <1>a, <1>d, <2>1, <2>2, ChunkQuery
  <2>4. k \in Int
    BY <1>a, <2>1, RecordType, RequestType, ChunkBegins
  <2>5. Cardinality(all) \in Nat
    BY <1>a, <1>d, QueryType, FS_CardinalityType DEF ClientInv
  <2>. HIDE DEF k, all
  <2>. QED
    BY <1>c, <2>3, <2>4, <2>5
<1>2. CASE /\ up' = FALSE /\ leaked' = leaked
           /\ thread' = [x \in Clients |-> NoData]
           /\ client' = [x \in Clients |-> IF client[x].pc = "waiting"
                                           THEN [client[x] EXCEPT !.pc = "ended"] ELSE client[x]]
  <2>1. ASSUME NEW d \in Clients
        PROVE  /\ thread'[d] = NoData /\ client'[d] \in ClientRec
               /\ client'[d] = client[d] \/ client'[d] = [client[d] EXCEPT !.pc = "ended"]
    <3>1. client[d] \in ClientRec
      BY <1>a, RecordType
    <3>2. [client[d] EXCEPT !.pc = "ended"] \in ClientRec
      BY <3>1, ClientSet, Zenon
    <3>. QED
      BY <1>2, <3>1, <3>2, Zenon
  <2>2. thread' \in [Clients -> ThreadRec] /\ client' \in [Clients -> ClientRec]
    <3>1. DOMAIN client' = Clients /\ client' = [x \in Clients |-> client'[x]]
      BY <1>2, Zenon
    <3>2. client' \in [Clients -> ClientRec]
      BY <2>1, <3>1, Zenon
    <3>. QED
      BY <1>2, <3>2, NoDataType, Zenon
  <2>3. TypeInv'
    BY <1>2, <1>a, <1>c, <2>2 DEF TypeInv
  <2>4. DescriptorInv'
    <3>1. Serving' = {}
      BY <2>1, NoDataType DEF Serving
    <3>2. Cardinality(Serving') = 0
      BY <3>1, FS_EmptySet
    <3>3. leaked \in Nat /\ MaxFds \in Nat /\ Cardinality(Serving) \in Nat
      BY <1>a, ServingFinite, CassSpeedAssumption DEF TypeInv
    <3>. QED
      BY <1>2, <3>2, <3>3 DEF DescriptorInv, CassInv
  <2>5. ASSUME NEW d \in Clients PROVE ClientInv(d)'
    BY <1>a, <1>c, <2>1, ThreadEnds DEF CassInv
  <2>6. Sound(c)' => Sound(c)
    BY <1>c, SoundKept
  <2>7. ServerSurvives'
    BY <1>1, <2>6 DEF ServerSurvives
  <2>. QED
    BY <2>3, <2>4, <2>5, <2>7 DEF CassInv
<1>3. CASE up' = up /\ Answer(c, "-2")
  <2>1. Deliver(c, "-2") /\ leaked' = leaked /\ faults' \in 0..MaxFaults
    BY <1>3, <1>a, <1>c DEF Answer, TypeInv
  <2>. QED
    BY <1>3, <1>a, <1>c, <2>1, Delivered
<1>. QED
  BY <1>2, <1>3 DEF EraseBeyond

\* The samples are compressed.
LEMMA CompressStep ==
  ASSUME CassInv, NEW c \in Clients, Compress(c)
  PROVE  CassInv'
<1>. DEFINE n == Outputs(LastMethod(req[c].methods), Cardinality(thread[c].vec), req[c].step)
            more == UNION {{<<m, Device(c), q>> : q \in Covered(m, thread[c].vec, req[c].step)}
                           : m \in req[c].methods}
<1>a. TypeInv /\ ClientInv(c) /\ spoilt \in [Clients -> SUBSET {"raced", "wrapped", "partial"}]
  BY DEF CassInv, TypeInv
<1>b. /\ thread[c] \in ThreadRec /\ thread[c].itter \in Nat \ {0} /\ Len(req[c].devices) \in Nat
      /\ thread[c].vec \subseteq Nat /\ thread[c].out \subseteq Samples
  BY <1>a, RecordType, RequestType DEF ThreadRec
<1>c. thread[c].pc = "compress" /\ UNCHANGED <<store, req, up, faults, spoilt>>
  BY DEF Compress
<1>d. thread[c].itter \in 1..Len(req[c].devices) /\ Device(c) = req[c].devices[thread[c].itter]
  BY <1>a, <1>b, <1>c DEF Device, ClientInv, PlaceInv
<1>e. faults \in 0..MaxFaults
  BY <1>a DEF TypeInv
<1>1. CASE TooShort(c)
  <2>1. Deliver(c, "-2") /\ leaked' = leaked /\ numsamples' = numsamples
    BY <1>1 DEF Compress, Answer
  <2>. QED
    BY <1>a, <1>c, <1>e, <2>1, Delivered
<1>2. CASE ~TooShort(c)
  <2>. DEFINE o  == thread[c].out \cup more
              x1 == [thread[c] EXCEPT !.pc = "describe"]
              x2 == [x1 EXCEPT !.own = n]
              x3 == [x2 EXCEPT !.vec = {}]
              x  == [x3 EXCEPT !.out = o]
  <2>1. /\ numsamples' = n /\ UNCHANGED <<client, leaked>>
        /\ thread' = [thread EXCEPT ![c] = x]
    BY <1>2, Zenon DEF Compress
  <2>2. n \in Nat
    <3>. DEFINE h == Cardinality(thread[c].vec)
    <3>1. IsFiniteSet(thread[c].vec)
      BY <1>a DEF ClientInv, PlaceInv
    <3>2. h \in Nat
      BY <3>1, FS_CardinalityType
    <3>3. req[c].step \in Nat \ {0}
      BY <1>a, RequestType
    <3>4. req[c].methods # {"Raw"} => h >= req[c].step
      BY <1>2, <3>2, <3>3 DEF TooShort
    <3>5. req[c].methods = {"Raw"} => n = h
      BY DEF LastMethod, Outputs
    <3>6. n \in {h, (h - 1) \div req[c].step, h \div req[c].step}
      BY DEF Outputs
    <3>. HIDE DEF n, h
    <3>7. req[c].methods # {"Raw"} => h - 1 \in Nat
      BY <3>2, <3>3, <3>4
    <3>. QED
      BY <3>2, <3>3, <3>5, <3>6, <3>7, DivNat
  <2>3. more \subseteq Samples
    <3>1. Device(c) \in Devices /\ req[c].methods \subseteq Methods
      BY <1>a, <1>d, RequestType
    <3>2. ASSUME NEW m \in req[c].methods, NEW q \in Covered(m, thread[c].vec, req[c].step)
          PROVE  <<m, Device(c), q>> \in Samples
      <4>1. q \in Nat
        BY <1>b DEF Covered, First
      <4>. QED
        BY <3>1, <4>1 DEF Samples
    <3>. QED
      BY <3>2
  <2>4. o \in SUBSET Samples
    BY <1>b, <2>3
  <2>5. \A m \in req[c].methods : \A q \in Covered(m, thread[c].vec, req[c].step) : <<m, Device(c), q>> \in o
    OBVIOUS
  <2>6. thread[c].out \subseteq o
    OBVIOUS
  <2>7. Sound(c) => /\ n = Count(req[c], client[c].cursor)
                    /\ Filled(req[c], client[c].cursor)
                    /\ Holds(o, req[c].methods, Device(c), Chunk(req[c], client[c].cursor))
    <3>. SUFFICES ASSUME Sound(c)
                  PROVE  /\ n = Count(req[c], client[c].cursor)
                         /\ Filled(req[c], client[c].cursor)
                         /\ Holds(o, req[c].methods, Device(c), Chunk(req[c], client[c].cursor))
      OBVIOUS
    <3>. DEFINE r == req[c]
                t == client[c].cursor
    <3>1. r \in Requests /\ t \in Int
      BY <1>a, RequestType, RecordType
    <3>2. FirstSecond(r.from) <= FirstSecond(t) /\ t < r.to
      BY <1>a, <1>c DEF ClientInv, RangeInv
    <3>3. thread[c].vec = Base(t)..Top(r, t)
      BY <1>a, <1>c DEF ClientInv, WorkInv
    <3>4. "Raw" \in r.methods => r.step = 1 /\ "Skip" \notin r.methods
      BY DEF Sound
    <3>5. n = Count(r, t)
      BY <3>1, <3>2, <3>3, ChunkOutputs
    <3>6. ASSUME NEW m \in r.methods
          PROVE  Chunk(r, t) \subseteq Covered(m, thread[c].vec, r.step)
      BY <3>1, <3>2, <3>3, <3>4, ChunkCovered
    <3>7. Holds(o, r.methods, Device(c), Chunk(r, t))
      <4>. HIDE DEF o
      <4>. QED
        BY <2>5, <3>6 DEF Holds
    <3>8. Filled(r, t)
      <4>1. Base(t) \in Int /\ Top(r, t) \in Int /\ Base(t) <= Top(r, t) /\ r.step \in Int
        <5>1. r.step \in Int
          BY <1>a, RequestType
        <5>. HIDE DEF r, t
        <5>. QED
          BY <3>1, <3>2, <5>1, ChunkBegins, ChunkEnds
      <4>2. Cardinality(Base(t)..Top(r, t)) = IF Base(t) > Top(r, t) THEN 0 ELSE Top(r, t) - Base(t) + 1
        BY <4>1, FS_Interval
      <4>3. Cardinality(thread[c].vec) = Top(r, t) - Base(t) + 1
        BY <3>3, <4>1, <4>2
      <4>4. r.methods # {"Raw"} => ~(Cardinality(thread[c].vec) < r.step)
        BY <1>2 DEF TooShort
      <4>. HIDE DEF r, t
      <4>. QED
        BY <4>1, <4>3, <4>4 DEF Filled
    <3>. QED
      BY <3>5, <3>7, <3>8
  <2>. HIDE DEF n, o
  <2>8. x \in ThreadRec
    <3>1. x1 \in ThreadRec
      BY <1>b, ThreadSet, Zenon
    <3>2. x2 \in ThreadRec
      BY <2>2, <3>1, ThreadSet, Zenon
    <3>3. {} \in SUBSET Nat
      OBVIOUS
    <3>4. x3 \in ThreadRec
      BY <3>2, <3>3, ThreadSet, Zenon
    <3>. QED
      BY <2>4, <3>4, ThreadSet, Zenon
  <2>9. /\ x.pc = "describe" /\ x.itter = thread[c].itter /\ x.firstsample = thread[c].firstsample
        /\ x.start = thread[c].start /\ x.vec = {} /\ x.own = n /\ x.out = o
        /\ x.has = thread[c].has /\ x.end = thread[c].end /\ x.failed = thread[c].failed
    BY <1>b, Zenon DEF ThreadRec
  <2>. HIDE DEF x
  <2>10. /\ thread'[c] = x /\ \A d \in Clients \ {c} : thread'[d] = thread[d]
         /\ thread' \in [Clients -> ThreadRec]
    BY <2>1, <2>8, <1>a, Zenon DEF TypeInv
  <2>11. TypeInv'
    BY <2>1, <2>2, <2>10, <1>a, <1>c DEF TypeInv
  <2>12. DescriptorInv'
    <3>1. Serving' = Serving
      BY <2>9, <2>10, <1>c, ServingSame
    <3>. QED
      BY <2>1, <3>1 DEF DescriptorInv, CassInv
  <2>13. Sound(c)' => Sound(c)
    BY <1>c, SoundKept
  <2>14. PlaceInv(c)'
    <3>1. /\ thread'[c].pc = "describe" /\ thread'[c].itter = thread[c].itter
          /\ thread'[c].firstsample = thread[c].firstsample /\ thread'[c].start = thread[c].start
          /\ IsFiniteSet(thread'[c].vec)
      BY <2>9, <2>10, FS_EmptySet
    <3>. QED
      BY <3>1, <2>1, <1>a, <1>b, <1>c DEF ClientInv, PlaceInv
  <2>15. RangeInv(c)'
    BY <2>1, <2>13, <1>a, <1>c DEF ClientInv, RangeInv
  <2>16. WorkInv(c)'
    <3>. SUFFICES ASSUME Sound(c)'
                  PROVE  WorkInv(c)'
      BY DEF WorkInv
    <3>1. /\ thread'[c].pc = "describe" /\ thread'[c].firstsample = thread[c].firstsample
          /\ thread'[c].start = thread[c].start /\ thread'[c].itter = thread[c].itter
          /\ thread'[c].has = thread[c].has /\ thread'[c].end = thread[c].end
          /\ thread'[c].failed = thread[c].failed /\ thread'[c].own = n /\ thread'[c].out = o
      BY <2>9, <2>10
    <3>2. Device(c)' = Device(c)
      BY <3>1, <1>c DEF Device
    <3>3. ~thread[c].failed => \A i \in 1..(thread[c].itter - 1) :
            Holds(o, req[c].methods, req[c].devices[i], Chunk(req[c], client[c].cursor))
      BY <1>a, <2>6, <2>13 DEF ClientInv, WorkInv, Holds
    <3>4. /\ ~thread[c].firstsample /\ thread[c].start \in Starts(client[c].cursor)
          /\ thread[c].has => /\ thread[c].end \in Stops(req[c], client[c].cursor)
                              /\ Filled(req[c], client[c].cursor)
      BY <1>a, <1>c, <2>13 DEF ClientInv, WorkInv
    <3>. QED
      BY <2>1, <2>7, <2>13, <1>c, <3>1, <3>2, <3>3, <3>4 DEF WorkInv
  <2>17. AnswerInv(c)'
    BY <2>1, <2>13, <1>a, <1>c DEF ClientInv, AnswerInv
  <2>18. GotInv(c)'
    BY <2>1, <2>13, <1>a, <1>c DEF ClientInv, GotInv
  <2>19. ClientInv(c)'
    BY <2>14, <2>15, <2>16, <2>17, <2>18 DEF ClientInv
  <2>. QED
    BY <1>c, <2>1, <2>10, <2>11, <2>12, <2>19, StepOf
<1>. QED
  BY <1>1, <1>2

\* The end of a chunk is computed without loss as long as the product fits.
LEMMA EndTimeIs ==
  ASSUME NEW s \in Int, NEW n \in Nat, NEW step \in Nat
  PROVE  /\ EndTime(s, n, step) \in Int
         /\ n * Sec * step < IntHalf => EndTime(s, n, step) = s + (n * Sec * step) \div Rate
<1>. DEFINE p == n * Sec * step
<1>a. Sec \in Nat /\ Rate \in Nat \ {0} /\ IntHalf \in Nat \ {0}
  BY CassSpeedAssumption
<1>1. p \in Nat
  <2>1. n * Sec \in Nat
    BY <1>a, NatTimes
  <2>. QED
    BY <2>1, NatTimes
<1>2. EndTime(s, n, step) = s + Quot(Wrap(p), Rate)
  BY DEF EndTime
<1>. HIDE DEF p
<1>3. Wrap(p) \in Int
  BY <1>a, <1>1 DEF Wrap
<1>4. ASSUME NEW y \in Int PROVE Quot(y, Rate) \in Int
  <2>1. -y \in Int /\ (-y) \div Rate \in Int /\ y \div Rate \in Int
    BY <1>a
  <2>2. -((-y) \div Rate) \in Int
    BY <2>1
  <2>. QED
    BY <2>1, <2>2 DEF Quot
<1>5. p < IntHalf => Wrap(p) = p
  <2>. SUFFICES ASSUME p < IntHalf
                PROVE  Wrap(p) = p
    OBVIOUS
  <2>1. PICK h \in Nat \ {0} : h = IntHalf
    BY <1>a
  <2>2. (p + h) % (2 * h) = p + h
    BY <1>1, <2>1
  <2>. QED
    BY <1>1, <2>1, <2>2 DEF Wrap
<1>6. Quot(p, Rate) = p \div Rate
  BY <1>1 DEF Quot
<1>7. EndTime(s, n, step) \in Int
  BY <1>2, <1>3, <1>4
<1>8. p < IntHalf => EndTime(s, n, step) = s + p \div Rate
  BY <1>2, <1>5, <1>6
<1>. QED
  BY <1>7, <1>8 DEF p

\* The end of the answer is computed.
LEMMA DescribeStep ==
  ASSUME CassInv, NEW c \in Clients, Describe(c)
  PROVE  CassInv'
<1>. DEFINE e  == EndTime(thread[c].start, numsamples, req[c].step)
            x1 == [thread[c] EXCEPT !.pc = "query"]
            x2 == [x1 EXCEPT !.itter = thread[c].itter + 1]
            x3 == [x2 EXCEPT !.has = TRUE]
            x  == [x3 EXCEPT !.end = e]
<1>a. TypeInv /\ ClientInv(c)
  BY DEF CassInv
<1>b. /\ thread[c] \in ThreadRec /\ thread[c].itter \in Nat \ {0} /\ Len(req[c].devices) \in Nat
      /\ thread[c].start \in Int /\ numsamples \in Nat /\ req[c].step \in Nat
  BY <1>a, RecordType, RequestType DEF ThreadRec, TypeInv, Unset
<1>c. thread[c].pc = "describe" /\ UNCHANGED <<store, req, client, numsamples, up, leaked, faults>>
  BY DEF Describe
<1>d. thread[c].itter <= Len(req[c].devices) /\ Device(c) = req[c].devices[thread[c].itter]
  BY <1>a, <1>c DEF ClientInv, PlaceInv, Device
<1>1. thread' = [thread EXCEPT ![c] = x]
  BY Zenon DEF Describe
<1>2. /\ e \in Int
      /\ numsamples * Sec * req[c].step < IntHalf =>
           e = thread[c].start + (numsamples * Sec * req[c].step) \div Rate
  BY <1>b, EndTimeIs
<1>3. spoilt' = [spoilt EXCEPT ![c] = spoilt[c] \cup Troubles(c)]
  BY Zenon DEF Describe
<1>4. Troubles(c) \subseteq {"raced", "wrapped", "partial"}
  BY DEF Troubles
<1>5. /\ spoilt' \in [Clients -> SUBSET {"raced", "wrapped", "partial"}]
      /\ spoilt'[c] = spoilt[c] \cup Troubles(c) /\ \A d \in Clients \ {c} : spoilt'[d] = spoilt[d]
  BY <1>3, <1>4, <1>a DEF TypeInv
<1>6. Sound(c)' => numsamples = thread[c].own /\ numsamples * Sec * req[c].step < IntHalf
  <2>. SUFFICES ASSUME Sound(c)'
                PROVE  numsamples = thread[c].own /\ numsamples * Sec * req[c].step < IntHalf
    OBVIOUS
  <2>1. Troubles(c) = {}
    BY <1>5 DEF Sound
  <2>2. "raced" \notin Troubles(c) /\ "wrapped" \notin Troubles(c)
    BY <2>1
  <2>3. numsamples = thread[c].own /\ ~(numsamples * Sec * req[c].step >= IntHalf)
    BY <2>2 DEF Troubles
  <2>4. numsamples * Sec * req[c].step \in Int /\ IntHalf \in Int
    <3>1. Sec \in Nat /\ IntHalf \in Nat
      BY CassSpeedAssumption
    <3>2. numsamples * Sec \in Nat
      BY <1>b, <3>1, NatTimes
    <3>3. numsamples * Sec * req[c].step \in Nat
      BY <1>b, <3>2, NatTimes
    <3>. QED
      BY <3>1, <3>3
  <2>. QED
    BY <2>3, <2>4
<1>. HIDE DEF e
<1>7. x \in ThreadRec
  <2>1. x1 \in ThreadRec
    BY <1>b, ThreadSet, Zenon
  <2>2. thread[c].itter + 1 \in Nat \ {0}
    BY <1>b
  <2>3. x2 \in ThreadRec
    BY <2>1, <2>2, ThreadSet, Zenon
  <2>4. x3 \in ThreadRec
    BY <2>3, ThreadSet, Zenon
  <2>. QED
    BY <1>2, <2>4, ThreadSet, Zenon
<1>8. /\ x.pc = "query" /\ x.itter = thread[c].itter + 1 /\ x.firstsample = thread[c].firstsample
      /\ x.start = thread[c].start /\ x.vec = thread[c].vec /\ x.out = thread[c].out
      /\ x.has = TRUE /\ x.end = e /\ x.failed = thread[c].failed
  BY <1>b, Zenon DEF ThreadRec
<1>. HIDE DEF x
<1>9. /\ thread'[c] = x /\ \A d \in Clients \ {c} : thread'[d] = thread[d]
      /\ thread' \in [Clients -> ThreadRec]
  BY <1>1, <1>7, <1>a, Zenon DEF TypeInv
<1>10. TypeInv'
  BY <1>5, <1>9, <1>a, <1>c DEF TypeInv
<1>11. DescriptorInv'
  <2>1. Serving' = Serving
    BY <1>8, <1>9, <1>c, ServingSame
  <2>. QED
    BY <1>c, <2>1 DEF DescriptorInv, CassInv
<1>12. Sound(c)' => Sound(c)
  BY <1>5, <1>c, SoundKept
<1>e. /\ thread'[c].pc = "query" /\ thread'[c].itter = thread[c].itter + 1
      /\ thread'[c].firstsample = thread[c].firstsample /\ thread'[c].start = thread[c].start
      /\ thread'[c].vec = thread[c].vec /\ thread'[c].out = thread[c].out
      /\ thread'[c].has /\ thread'[c].end = e /\ thread'[c].failed = thread[c].failed
  BY <1>8, <1>9
<1>13. PlaceInv(c)'
  BY <1>e, <1>a, <1>b, <1>c, <1>d DEF ClientInv, PlaceInv
<1>14. RangeInv(c)'
  BY <1>12, <1>a, <1>c DEF ClientInv, RangeInv
<1>15. WorkInv(c)'
  <2>. SUFFICES ASSUME Sound(c)'
                PROVE  WorkInv(c)'
    BY DEF WorkInv
  <2>1. /\ ~thread[c].firstsample /\ thread[c].start \in Starts(client[c].cursor)
        /\ thread[c].own = Count(req[c], client[c].cursor) /\ Filled(req[c], client[c].cursor)
        /\ Holds(thread[c].out, req[c].methods, Device(c), Chunk(req[c], client[c].cursor))
    BY <1>12, <1>a, <1>c DEF ClientInv, WorkInv
  <2>2. e \in Stops(req[c], client[c].cursor)
    BY <1>2, <1>6, <2>1 DEF Stops
  <2>3. ~thread[c].failed => \A i \in 1..thread[c].itter :
          Holds(thread[c].out, req[c].methods, req[c].devices[i], Chunk(req[c], client[c].cursor))
    <3>1. \A i \in 1..thread[c].itter : i = thread[c].itter \/ i \in 1..(thread[c].itter - 1)
      BY <1>b
    <3>2. ~thread[c].failed => \A i \in 1..(thread[c].itter - 1) :
            Holds(thread[c].out, req[c].methods, req[c].devices[i], Chunk(req[c], client[c].cursor))
      BY <1>12, <1>a DEF ClientInv, WorkInv
    <3>. QED
      BY <1>d, <2>1, <3>1, <3>2
  <2>4. thread'[c].itter - 1 = thread[c].itter
    BY <1>b, <1>e
  <2>. QED
    BY <1>e, <1>c, <2>1, <2>2, <2>3, <2>4 DEF WorkInv
<1>16. AnswerInv(c)'
  BY <1>12, <1>a, <1>c DEF ClientInv, AnswerInv
<1>17. GotInv(c)'
  BY <1>12, <1>a, <1>c DEF ClientInv, GotInv
<1>18. ClientInv(c)'
  BY <1>13, <1>14, <1>15, <1>16, <1>17 DEF ClientInv
<1>. QED
  BY <1>c, <1>5, <1>9, <1>10, <1>11, <1>18, StepOf

\* The answer is sent.
LEMMA SendStep ==
  ASSUME CassInv, NEW c \in Clients, Send(c)
  PROVE  CassInv'
<1>a. /\ TypeInv /\ ClientInv(c) /\ faults \in 0..MaxFaults
      /\ spoilt \in [Clients -> SUBSET {"raced", "wrapped", "partial"}]
  BY DEF CassInv, TypeInv
<1>b. /\ thread[c].pc = "query" /\ thread[c].itter > Len(req[c].devices)
      /\ UNCHANGED <<store, req, numsamples, up, faults>>
  BY DEF Send
<1>1. CASE Answer(c, "-4") /\ UNCHANGED spoilt
  <2>1. Deliver(c, "-4") /\ leaked' = leaked
    BY <1>1 DEF Answer
  <2>. QED
    BY <1>1, <1>a, <1>b, <2>1, Delivered
<1>2. CASE /\ thread[c].has /\ Deliver(c, "data")
           /\ leaked' \in IF client[c].pc = "waiting" THEN {leaked + 1} ELSE {leaked, leaked + 1}
           /\ spoilt' = [spoilt EXCEPT ![c] = IF thread[c].failed THEN @ \cup {"partial"} ELSE @]
  <2>1. leaked' \in {leaked, leaked + 1}
    BY <1>2
  <2>. DEFINE w == IF thread[c].failed THEN spoilt[c] \cup {"partial"} ELSE spoilt[c]
  <2>2. spoilt' = [spoilt EXCEPT ![c] = w]
    BY <1>2, Zenon
  <2>3. w \subseteq {"raced", "wrapped", "partial"} /\ spoilt[c] \subseteq w
    BY <1>a
  <2>4. thread[c].failed => "partial" \in w
    OBVIOUS
  <2>. HIDE DEF w
  <2>5. /\ spoilt' \in [Clients -> SUBSET {"raced", "wrapped", "partial"}]
        /\ spoilt'[c] = w /\ \A d \in Clients \ {c} : spoilt'[d] = spoilt[d]
    BY <2>2, <2>3, <1>a
  <2>6. Sound(c)' => ~thread[c].failed
    BY <2>4, <2>5 DEF Sound
  <2>. QED
    BY <1>2, <1>a, <1>b, <2>1, <2>3, <2>5, <2>6, Delivered
<1>. QED
  BY <1>1, <1>2 DEF Send

-----------------------------------------------------------------------------
\* Steps that begin a chunk

\* A client goes on behind the beginning of the chunk that it has read.
LEMMA ReadAdvances ==
  ASSUME CassInv, NEW c \in Clients, Read(c), client'[c].pc = "ready", Sound(c), Yields(req[c])
  PROVE  client'[c].cursor > client[c].cursor
<1>. DEFINE r == req[c]
            t == client[c].cursor
            e == client[c].end
            p == IF Finished(c, e) THEN "ended" ELSE "ready"
<1>a. TypeInv /\ ClientInv(c) /\ client[c].pc = "reply"
  BY DEF CassInv, Read
<1>b. client[c] \in ClientRec /\ client \in [Clients -> ClientRec] /\ r \in Requests
      /\ t \in Int /\ r.to \in Nat /\ e \in Int
  BY <1>a, RecordType, RequestType DEF TypeInv, ClientRec
<1>1. client[c].code = "data"
  <2>. SUFFICES ASSUME client[c].code # "data"
                PROVE  FALSE
    OBVIOUS
  <2>. DEFINE y == [client[c] EXCEPT !.pc = "ended"]
  <2>1. client' = [client EXCEPT ![c] = y]
    BY Zenon DEF Read
  <2>2. y.pc = "ended"
    BY <1>b, Zenon DEF ClientRec
  <2>. HIDE DEF y
  <2>. QED
    BY <1>b, <2>1, <2>2
<1>2. client'[c].pc = p /\ client'[c].cursor = e
  <2>. DEFINE y1 == [client[c] EXCEPT !.pc = p]
              y2 == [y1 EXCEPT !.cursor = e]
              y3 == [y2 EXCEPT !.got = client[c].got \cup client[c].out]
              y == [y3 EXCEPT !.out = {}]
  <2>1. client' = [client EXCEPT ![c] = y]
    BY <1>1, Zenon DEF Read
  <2>2. y.pc = p /\ y.cursor = e
    BY <1>b, Zenon DEF ClientRec
  <2>. HIDE DEF y, p
  <2>. QED
    BY <1>b, <2>1, <2>2
<1>3. ~Finished(c, e)
  BY <1>2
<1>4. FirstSecond(r.from) <= FirstSecond(t) /\ t < r.to /\ e \in Stops(r, t) /\ Filled(r, t)
  BY <1>a, <1>1 DEF ClientInv, RangeInv, AnswerInv
<1>5. "Raw" \in r.methods => r.step = 1 /\ "Skip" \notin r.methods
  BY DEF Sound
<1>6. t < e \/ r.to < e + ((r.step + 1) * Sec) \div Rate
  BY <1>b, <1>4, <1>5, ChunkAdvances
<1>. HIDE DEF e, t
<1>7. t < e
  BY <1>3, <1>6 DEF Finished, e
<1>. QED
  BY <1>2, <1>7, <1>b DEF e, t

\* Only the client itself begins a further chunk.
LEMMA OnlyRead ==
  ASSUME CassInv, [Next]_vars, NEW c \in Clients, client[c].pc = "reply", client'[c].pc = "ready"
  PROVE  Read(c)
<1>a. client \in [Clients -> ClientRec] /\ TypeInv
  BY DEF CassInv, TypeInv
<1>1. ASSUME NEW d \in Clients, NEW code, Deliver(d, code)
      PROVE  FALSE
  <2>1. CASE d = c
    <3>1. client' = [client EXCEPT ![c] = client[c]]
      BY <1>1, <2>1 DEF Deliver
    <3>. QED
      BY <1>a, <3>1
  <2>2. CASE d # c
    BY <1>a, <1>1, <2>2 DEF Deliver
  <2>. QED
    BY <2>1, <2>2
<1>2. ASSUME NEW d \in Clients, client' = [client EXCEPT ![d].pc = "waiting"]
                                \/ client' = [client EXCEPT ![d].pc = "ended"]
      PROVE  FALSE
  BY <1>a, <1>2 DEF ClientRec
<1>3. ASSUME NEW d \in Clients, Read(d), d # c
      PROVE  FALSE
  <2>1. client'[c] = client[c]
    BY <1>a, <1>3 DEF Read
  <2>. QED
    BY <2>1
<1>4. ASSUME client' = client
      PROVE  FALSE
  BY <1>4
<1>5. ASSUME NEW d \in Clients, EraseBeyond(d)
      PROVE  FALSE
  <2>1. CASE client' = [x \in Clients |-> IF client[x].pc = "waiting"
                                          THEN [client[x] EXCEPT !.pc = "ended"] ELSE client[x]]
    BY <2>1
  <2>2. CASE Answer(d, "-2")
    BY <1>1, <2>2 DEF Answer
  <2>. QED
    BY <1>5, <2>1, <2>2 DEF EraseBeyond
<1>6. ASSUME NEW d \in Clients, Receive(d) \/ Compress(d) \/ Send(d)
      PROVE  FALSE
  <2>1. CASE Receive(d)
    BY <2>1, <1>1, <1>4 DEF Receive, Answer
  <2>2. CASE Compress(d)
    BY <2>2, <1>1, <1>4 DEF Compress, Answer
  <2>3. CASE Send(d)
    BY <2>3, <1>1 DEF Send, Answer
  <2>. QED
    BY <1>6, <2>1, <2>2, <2>3
<1>7. ASSUME NEW d \in Clients,
             Accept(d) \/ ReceiveNothing(d) \/ Query(d) \/ QueryFails(d) \/ Describe(d)
      PROVE  FALSE
  BY <1>4, <1>7 DEF Accept, ReceiveNothing, Query, QueryFails, Describe
<1>8. ASSUME NEW d \in Clients, Ask(d) \/ Quit(d)
      PROVE  FALSE
  BY <1>2, <1>8 DEF Ask, Quit
<1>. QED
  BY <1>3, <1>4, <1>5, <1>6, <1>7, <1>8 DEF Next, ClientStep, ThreadStep, vars

-----------------------------------------------------------------------------
\* Theorems

\* The initial states.
LEMMA CassInvInit == Init => CassInv
<1>. SUFFICES ASSUME Init
              PROVE  CassInv
  OBVIOUS
<1>. DEFINE y(c) == [pc |-> "ready", cursor |-> req[c].from, got |-> {}, code |-> "none",
                     end |-> 0, out |-> {}]
<1>1. /\ store \in Archives /\ req \in [Clients -> Requests] /\ numsamples = 0 /\ up = TRUE
      /\ leaked = 0 /\ faults = 0
      /\ client = [c \in Clients |-> y(c)] /\ thread = [c \in Clients |-> NoData]
      /\ spoilt = [c \in Clients |-> {}]
  BY DEF Init
<1>2. ASSUME NEW c \in Clients
      PROVE  req[c].from \in Nat /\ y(c) \in ClientRec
  <2>1. req[c].from \in Nat
    BY <1>1, CassSpeedAssumption
  <2>. QED
    BY <2>1 DEF ClientRec
<1>3. client \in [Clients -> ClientRec] /\ thread \in [Clients -> ThreadRec]
  <2>. HIDE DEF y
  <2>. QED
    BY <1>1, <1>2, NoDataType
<1>4. TypeInv
  BY <1>1, <1>3, CassSpeedAssumption DEF TypeInv
<1>5. DescriptorInv
  <2>1. Serving = {}
    BY <1>1, NoDataType DEF Serving
  <2>2. Cardinality(Serving) = 0
    BY <2>1, FS_EmptySet
  <2>. QED
    BY <1>1, <2>2, CassSpeedAssumption DEF DescriptorInv
<1>6. ASSUME NEW c \in Clients
      PROVE  ClientInv(c)
  <2>1. /\ thread[c] = NoData /\ client[c].pc = "ready" /\ client[c].cursor = req[c].from
    BY <1>1
  <2>2. /\ thread[c].pc = "none" /\ thread[c].itter = 1 /\ thread[c].firstsample
        /\ thread[c].vec = {} /\ ~thread[c].has
    BY <2>1, NoDataType
  <2>3. PlaceInv(c)
    <3>1. Len(req[c].devices) \in Nat
      BY <1>4, RequestType
    <3>. QED
      BY <2>1, <2>2, <3>1, FS_EmptySet DEF PlaceInv
  <2>4. RangeInv(c)
    <3>1. Sec \in Nat \ {0} /\ req[c].from \in Int
      BY <1>4, RequestType, CassSpeedAssumption
    <3>2. FirstSecond(req[c].from) \in Int
      BY <3>1 DEF FirstSecond
    <3>3. FirstSecond(req[c].from) <= FirstSecond(client[c].cursor)
      BY <2>1, <3>2
    <3>. QED
      BY <2>1, <3>3 DEF RangeInv, Sound
  <2>5. WorkInv(c)
    BY <2>2 DEF WorkInv
  <2>6. AnswerInv(c)
    BY <2>1 DEF AnswerInv
  <2>7. GotInv(c)
    <3>1. ASSUME NEW i \in 1..Len(req[c].devices), NEW s \in store[req[c].devices[i]],
                 NEW q \in (s * Rate)..(s * Rate + Rate - 1)
          PROVE  ~(req[c].from * Rate <= q * Sec /\ q * Sec < client[c].cursor * Rate)
      <4>1. s \in Nat /\ Rate \in Nat /\ Sec \in Nat /\ req[c].from \in Nat
        BY <1>4, RequestType, CassSpeedAssumption
      <4>2. s * Rate \in Int /\ q \in Int
        BY <4>1
      <4>3. q * Sec \in Int /\ req[c].from * Rate \in Int
        BY <4>1, <4>2
      <4>. QED
        BY <2>1, <4>3
    <3>. QED
      BY <3>1 DEF GotInv
  <2>. QED
    BY <2>3, <2>4, <2>5, <2>6, <2>7 DEF ClientInv
<1>7. ServerSurvives
  BY <1>1 DEF ServerSurvives
<1>. QED
  BY <1>4, <1>5, <1>6, <1>7 DEF CassInv

\* Every step keeps the invariant.
LEMMA CassInvStep == CassInv /\ [Next]_vars => CassInv'
<1>. SUFFICES ASSUME CassInv, [Next]_vars
              PROVE  CassInv'
  OBVIOUS
<1>1. ASSUME NEW c \in Clients, ClientStep(c)
      PROVE  CassInv'
  BY <1>1, AskStep, ReadStep DEF ClientStep
<1>2. ASSUME NEW c \in Clients, ThreadStep(c)
      PROVE  CassInv'
  BY <1>2, ReceiveNothingStep, ReceiveStep, QueryStep, EraseBeyondStep, QueryFailsStep,
     CompressStep, DescribeStep, SendStep DEF ThreadStep
<1>3. ASSUME NEW c \in Clients, Quit(c) \/ Accept(c)
      PROVE  CassInv'
  BY <1>3, QuitStep, AcceptStep
<1>4. CASE UNCHANGED vars
  <2>1. UNCHANGED <<store, req, client, thread, numsamples, up, leaked, faults, spoilt>>
    BY <1>4 DEF vars
  <2>2. ASSUME NEW c \in Clients PROVE ClientInv(c)'
    BY <2>1, Untouched DEF CassInv
  <2>3. TypeInv' /\ DescriptorInv'
    BY <2>1 DEF CassInv, TypeInv, DescriptorInv, Serving
  <2>4. ASSUME NEW c \in Clients PROVE Sound(c)' => Sound(c)
    BY <2>1, SoundKept
  <2>5. ServerSurvives'
    BY <2>1, <2>4 DEF CassInv, ServerSurvives
  <2>. QED
    BY <2>2, <2>3, <2>5 DEF CassInv
<1>. QED
  BY <1>1, <1>2, <1>3, <1>4 DEF Next

\* What a thread of the server computes for a sound client is the closed form, whatever the
\* other threads and clients do, and the descriptors in use stay within their limit.
THEOREM CassInvariant == Spec => []CassInv
BY CassInvInit, CassInvStep, PTL DEF Spec

\* The variables of clients and server keep their types; in particular the sockets that
\* the server never closes do not outnumber the descriptors it may have.
THEOREM CassTypeCorrect == Spec => []TypeOK
<1>1. CassInv => TypeOK
  <2>. SUFFICES ASSUME CassInv
                PROVE  TypeOK
    OBVIOUS
  <2>a. TypeInv
    BY DEF CassInv
  <2>1. ASSUME NEW c \in Clients
        PROVE  /\ client[c].pc \in {"ready", "waiting", "reply", "ended"}
               /\ client[c].cursor \in Int /\ client[c].end \in Int
               /\ client[c].code \in {"none", "data", "-1", "-2", "-3", "-4"}
               /\ thread[c].pc \in {"none", "backlog", "receive", "query", "compress", "describe"}
               /\ thread[c].itter \in 1..(Len(req[c].devices) + 1)
               /\ thread[c].start \in Int /\ thread[c].firstsample \in BOOLEAN /\ thread[c].own \in Nat
               /\ spoilt[c] \subseteq {"raced", "wrapped", "partial"}
    <3>1. client[c] \in ClientRec /\ thread[c] \in ThreadRec /\ Len(req[c].devices) \in Nat
      BY <2>a, RecordType, RequestType
    <3>2. thread[c].itter \in 1..(Len(req[c].devices) + 1)
      BY <3>1 DEF CassInv, ClientInv, PlaceInv, ThreadRec
    <3>3. thread[c].start \in Int
      BY <3>1 DEF ThreadRec, Unset
    <3>4. spoilt[c] \subseteq {"raced", "wrapped", "partial"}
      BY <2>a DEF TypeInv
    <3>. QED
      BY <3>1, <3>2, <3>3, <3>4 DEF ClientRec, ThreadRec
  <2>2. leaked \in 0..MaxFds
    <3>1. leaked \in Nat /\ MaxFds \in Nat /\ Cardinality(Serving) \in Nat
      BY <2>a, ServingFinite, CassSpeedAssumption DEF TypeInv
    <3>. QED
      BY <3>1 DEF CassInv, DescriptorInv
  <2>. QED
    BY <2>a, <2>1, <2>2 DEF TypeOK, TypeInv
<1>. QED
  BY <1>1, CassInvariant, PTL

\* No sound client goes past a sample it has not received: the seconds and samples skipped
\* by the server and the rounded end of each answer fit together over all chunks, for
\* every rate, step, set of methods and length of chunks.
THEOREM NoSampleSkipped == Spec => []NothingSkipped
<1>1. CassInv => NothingSkipped
  BY DEF CassInv, ClientInv, GotInv, NothingSkipped
<1>. QED
  BY <1>1, CassInvariant, PTL

\* The server never erases samples it does not have as long as all clients are sound.
THEOREM ServerStaysUp == Spec => []ServerSurvives
<1>1. CassInv => ServerSurvives
  BY DEF CassInv
<1>. QED
  BY <1>1, CassInvariant, PTL

\* A sound client makes progress: no rounding of the server and no tolerance of the client
\* makes it ask for the same chunk again, for every rate, step, set of methods and length of
\* chunks, unless "Skip" is given a step as long as a chunk.
THEOREM ClientsAdvance == Spec => ChunksAdvance
<1>1. CassInv /\ [Next]_vars =>
        [\A c \in Clients :
           (client[c].pc = "reply" /\ client'[c].pc = "ready" /\ Sound(c) /\ Yields(req[c]))
             => client'[c].cursor > client[c].cursor]_vars
  BY ReadAdvances, OnlyRead
<1>. QED
  BY <1>1, CassInvariant, PTL DEF Spec, ChunksAdvance
=============================================================================
