------------------------- MODULE VoltageLimitProofs -------------------------
(***************************************************************************)
(* Proofs about VoltageLimit for windows of any length, any limit of       *)
(* sustained events and any number of windows.  LimitInv is inductive.     *)
(***************************************************************************)
EXTENDS VoltageLimit, SequenceTheorems, TLAPS

-----------------------------------------------------------------------------
\* The inductive invariant

\* The stream with the window in hand, and how many of its samples have been dealt with.
all == stream \o window
at  == Len(stream) + jj

\* The event that reaches the end of the window in hand has been put away.
Closed == window # <<>> /\ jj = Len(window) /\ window[jj] # "ok"

\* A count that is not zero is the one of the event that has reached the place.
CountInv ==
  \A c \in Limits : count[c] > 0 =>
    /\ count[c] <= at
    /\ Begins(all, at - count[c]) /\ Steady(all, at - count[c], at)
    /\ all[at] = c
    /\ at < Len(all) => all[at + 1] = c

\* When the count of a class that goes on is zero, the next event of the run begins here.
FreshInv ==
  (at > 0 /\ GoesOn(all, at) /\ all[at] \in Limits /\ count[all[at]] = 0) => Begins(all, at)

\* At the end of a window the count of the event that reaches it has been saved.
EndInv ==
  (at > 0 /\ at = Len(all) /\ all[at] \in Limits) =>
    /\ count[all[at]] > 0
    /\ lastSample = all[at] /\ tmp[all[at]] = count[all[at]]

\* What is remembered of the last window.
LastInv ==
  /\ Len(stream) > 0 => lastVal = stream[Len(stream)]
  /\ ~Closed =>
       /\ lastSample = IF Len(stream) = 0 \/ stream[Len(stream)] = "ok" THEN "none"
                       ELSE stream[Len(stream)]
       /\ lastRep <=> HeldBack(lastSample)
       /\ lastSample # "none" =>
            /\ tmp[lastSample] > 0 /\ tmp[lastSample] <= Len(stream)
            /\ Begins(all, Len(stream) - tmp[lastSample])
            /\ Steady(all, Len(stream) - tmp[lastSample], Len(stream))

\* An event that began before the window is the one with which the last window ended.
PlaceInv ==
  ~Closed => \A c \in Limits : count[c] > jj =>
               /\ lastSample = c /\ count[c] = jj + tmp[c]
               /\ window # <<>> => report = 0

HeldEvent(c) == [start |-> Len(stream) - tmp[c] - 1, end |-> Len(stream),
                 class |-> c, sustained |-> FALSE]

\* As long as it goes on, its beginning is the last one in the list.
HeldInv ==
  \A c \in Limits :
    (~Closed /\ lastRep /\ count[c] > jj)
      => events # <<>> /\ events[Len(events)] = HeldEvent(c)

\* The events of the list that are to be reported at the end of the window.
New == Len(events) - (report + IF Ended THEN 1 ELSE 0)

\* What has been found: an event that ends behind p and with j has been entered.
Found(p, j) == /\ p < j /\ Len(stream) <= j /\ Ends(all, p, j)
               /\ (j = at /\ at < Len(all)) => count[all[at]] = 0

FoundEvents == {EventOf(all, x[1], x[2]) :
                  x \in {y \in (0..at) \X (1..at) : Found(y[1], y[2])}}

\* What the list q has behind its n-th event is S, in the order of the ends.
Listed(q, n, S) == /\ n \in 0..Len(q)
                   /\ \A i, j \in (n + 1)..Len(q) : i < j => q[i].end < q[j].end
                   /\ S = {q[i] : i \in (n + 1)..Len(q)}

\* They are the events found so far that end with the last window or later.
ListInv == window # <<>> => Listed(events, New, FoundEvents)

\* An event that was withdrawn has gone on.
WithdrawnInv ==
  \A e \in withdrawn : ~e.sustained /\ e.end > 0 /\ GoesOn(all, e.end)

LimitInv == /\ TypeOK /\ CountInv /\ FreshInv /\ EndInv /\ LastInv /\ PlaceInv /\ HeldInv
            /\ ListInv /\ WithdrawnInv /\ ReportsExact
-----------------------------------------------------------------------------
\* Multiples

\* Quotient and remainder.
LEMMA DivMod == ASSUME NEW x \in Int, NEW y \in Nat \ {0}
                PROVE  /\ x \div y \in Int /\ x % y \in 0..(y - 1)
                       /\ x = y * (x \div y) + (x % y)
OBVIOUS

\* Between two multiples there are y numbers.
LEMMA Factors ==
  ASSUME NEW a \in Int, NEW b \in Int, NEW y \in Nat \ {0}, a < b
  PROVE  y * a + y <= y * b
<1>1. y * (a + 1) <= y * b
  OBVIOUS
<1>2. y * (a + 1) = y * a + y
  OBVIOUS
<1> QED BY <1>1, <1>2

\* A multiple leaves no remainder.
LEMMA NoRemainder ==
  ASSUME NEW x \in Int, NEW a \in Int, NEW y \in Nat \ {0}, x = y * a
  PROVE  x % y = 0
<1> DEFINE b == x \div y
           r == x % y
           u == y * a
           v == y * b
<1>1. b \in Int /\ r \in 0..(y - 1) /\ x = v + r
  BY DivMod
<1>2. u \in Int /\ v \in Int
  BY <1>1
<1>3. x = u
  OBVIOUS
<1>4. a < b => u + y <= v
  BY <1>1, Factors
<1>5. b < a => v + y <= u
  BY <1>1, Factors
<1>6. a = b => u = v
  OBVIOUS
<1> HIDE DEF u, v, b, r
<1>7. r = 0
  BY <1>1, <1>2, <1>3, <1>4, <1>5, <1>6
<1> QED BY <1>7 DEF r

\* A number that is a multiple, and the one a step further.
LEMMA NextMultiple ==
  ASSUME NEW x \in Nat, NEW y \in Nat \ {0}, x % y = 0
  PROVE  (x + y) % y = 0
<1> DEFINE a == x \div y
<1>1. a \in Int /\ x = y * a
  BY DivMod
<1> HIDE DEF a
<1>2. x + y = y * (a + 1)
  BY <1>1
<1> QED BY <1>1, <1>2, NoRemainder

\* Two multiples of y less than y apart are the same.
LEMMA CloseMultiples ==
  ASSUME NEW x \in Nat, NEW z \in Nat, NEW y \in Nat \ {0}, x % y = 0, z % y = 0,
         x < z + y, z < x + y
  PROVE  x = z
<1>1. PICK a \in Int : x = y * a
  <2>1. x \div y \in Int /\ x = y * (x \div y)
    BY DivMod
  <2> QED BY <2>1
<1>2. PICK b \in Int : z = y * b
  <2>1. z \div y \in Int /\ z = y * (z \div y)
    BY DivMod
  <2> QED BY <2>1
<1>3. ~(a < b)
  BY <1>1, <1>2, Factors
<1>4. ~(b < a)
  BY <1>1, <1>2, Factors
<1> QED BY <1>1, <1>2, <1>3, <1>4

-----------------------------------------------------------------------------
\* Runs of samples and the events in them

\* A part of a steady piece is steady.
LEMMA SteadyPart ==
  ASSUME NEW q \in Seq(Class), NEW p \in Nat, NEW j \in 1..Len(q), Steady(q, p, j),
         NEW r \in Nat, NEW k \in Nat, p <= r, r < k, k <= j
  PROVE  Steady(q, r, k) /\ q[k] = q[j]
<1>1. k \in (p + 1)..j
  OBVIOUS
<1>2. q[k] = q[j]
  BY <1>1 DEF Steady
<1>3. ASSUME NEW m \in (r + 1)..k PROVE q[m] = q[k]
  <2>1. m \in (p + 1)..j
    OBVIOUS
  <2> QED BY <1>2, <2>1 DEF Steady
<1> QED BY <1>2, <1>3 DEF Steady

\* A sample outside the limits is a steady piece.
LEMMA SteadyOne ==
  ASSUME NEW q \in Seq(Class), NEW p \in Nat, q[p + 1] \in Limits
  PROVE  Steady(q, p, p + 1)
<1>1. ASSUME NEW m \in (p + 1)..(p + 1) PROVE m = p + 1
  OBVIOUS
<1> QED BY <1>1 DEF Steady

\* A steady piece goes on.
LEMMA SteadyMore ==
  ASSUME NEW q \in Seq(Class), NEW p \in Nat, NEW j \in Nat, p <= j,
         p < j => Steady(q, p, j) /\ q[j + 1] = q[j],
         q[j + 1] \in Limits
  PROVE  Steady(q, p, j + 1)
<1>1. ASSUME NEW m \in (p + 1)..(j + 1) PROVE q[m] = q[j + 1]
  <2>1. CASE m = j + 1
    BY <2>1
  <2>2. CASE m # j + 1
    <3>1. m \in (p + 1)..j /\ p < j
      BY <2>2
    <3> QED BY <3>1 DEF Steady
  <2> QED BY <2>1, <2>2
<1> QED BY <1>1 DEF Steady

\* Two pieces that meet are one.
LEMMA SteadyJoin ==
  ASSUME NEW q \in Seq(Class), NEW i \in Nat, NEW p \in Nat, NEW j \in Nat, i <= p, p < j,
         Steady(q, i, p + 1), Steady(q, p, j)
  PROVE  Steady(q, i, j)
<1>1. q[p + 1] = q[j] /\ q[j] \in Limits
  <2>1. p + 1 \in (p + 1)..j
    OBVIOUS
  <2> QED BY <2>1 DEF Steady
<1>2. ASSUME NEW m \in (i + 1)..j PROVE q[m] = q[j]
  <2>1. CASE m <= p + 1
    <3>1. m \in (i + 1)..(p + 1)
      BY <2>1
    <3> QED BY <1>1, <3>1 DEF Steady
  <2>2. CASE m > p + 1
    <3>1. m \in (p + 1)..j
      BY <2>2
    <3> QED BY <3>1 DEF Steady
  <2> QED BY <2>1, <2>2
<1> QED BY <1>1, <1>2 DEF Steady

\* An event begins with a run.
LEMMA NewRun ==
  ASSUME NEW q \in Seq(Class), NEW p \in Nat, q[p + 1] \in Limits,
         p > 0 => q[p] # q[p + 1]
  PROVE  Begins(q, p)
<1>1. Steady(q, p, p + 1)
  BY SteadyOne
<1>2. p \in 0..p /\ (p - p) % Over = 0
  BY VoltageAssumption
<1> QED BY <1>1, <1>2 DEF Begins

\* When an event has reached its greatest length and goes on, the next one begins.
LEMMA NextPiece ==
  ASSUME NEW q \in Seq(Class), NEW p \in Nat, Begins(q, p), Steady(q, p, p + Over + 1)
  PROVE  Begins(q, p + Over)
<1>0. Over \in Nat \ {0}
  BY VoltageAssumption
<1>1. PICK i \in 0..p : /\ Steady(q, i, p + 1)
                        /\ i > 0 => q[i] # q[p + 1]
                        /\ (p - i) % Over = 0
  BY DEF Begins
<1>2. Steady(q, i, p + Over + 1)
  BY <1>0, <1>1, SteadyJoin
<1>3. q[p + 1] = q[p + Over + 1]
  <2>1. p + 1 \in (p + 1)..(p + Over + 1)
    BY <1>0
  <2> QED BY <2>1 DEF Steady
<1>4. ((p + Over) - i) % Over = 0
  <2> DEFINE x == p - i
  <2>1. x \in Nat /\ (p + Over) - i = x + Over
    BY <1>0
  <2>2. x % Over = 0
    BY <1>1
  <2> HIDE DEF x
  <2>3. (x + Over) % Over = 0
    BY <1>0, <2>1, <2>2, NextMultiple
  <2> QED BY <2>1, <2>3
<1> DEFINE r == p + Over
<1>5. i \in 0..r /\ r + 1 = p + Over + 1
  BY <1>0
<1>6. Steady(q, i, r + 1) /\ (i > 0 => q[i] # q[r + 1]) /\ (r - i) % Over = 0
  <2>1. Steady(q, i, r + 1) /\ q[r + 1] = q[p + 1]
    BY <1>2, <1>3, Zenon
  <2>2. (r - i) % Over = 0
    BY <1>4
  <2> QED BY <1>1, <2>1, <2>2
<1> HIDE DEF r
<1>7. Begins(q, r)
  BY <1>5, <1>6 DEF Begins
<1> QED BY <1>7 DEF r

\* A run has one beginning.
LEMMA OneRun ==
  ASSUME NEW q \in Seq(Class), NEW i \in Nat, NEW p \in Nat, NEW j \in Nat, i < p, p < j,
         Steady(q, i, j), Steady(q, p, j)
  PROVE  q[p] = q[p + 1]
<1>1. p \in (i + 1)..j /\ p + 1 \in (p + 1)..j
  OBVIOUS
<1> QED BY <1>1 DEF Steady

\* Of the places where events begin one is close enough in front of a sample.
LEMMA OnePiece ==
  ASSUME NEW q \in Seq(Class), NEW p \in Nat, NEW r \in Nat, NEW j \in Nat,
         Begins(q, p), Begins(q, r), Steady(q, p, j), Steady(q, r, j),
         p < j, r < j, j <= p + Over, j <= r + Over
  PROVE  p = r
<1>0. Over \in Nat \ {0}
  BY VoltageAssumption
<1>1. PICK i \in 0..p : /\ Steady(q, i, p + 1)
                        /\ i > 0 => q[i] # q[p + 1]
                        /\ (p - i) % Over = 0
  BY DEF Begins
<1>2. PICK k \in 0..r : /\ Steady(q, k, r + 1)
                        /\ k > 0 => q[k] # q[r + 1]
                        /\ (r - k) % Over = 0
  BY DEF Begins
<1>3. Steady(q, i, j) /\ Steady(q, k, j)
  BY <1>1, <1>2, SteadyJoin
<1>4. q[p + 1] = q[j] /\ q[r + 1] = q[j] /\ q[i + 1] = q[j] /\ q[k + 1] = q[j]
  <2>1. /\ p + 1 \in (p + 1)..j /\ r + 1 \in (r + 1)..j
        /\ i + 1 \in (i + 1)..j /\ k + 1 \in (k + 1)..j
    OBVIOUS
  <2> QED BY <1>3, <2>1 DEF Steady
<1>5. ~(i < k)
  <2> SUFFICES ASSUME i < k PROVE FALSE
    OBVIOUS
  <2>1. q[k] = q[k + 1]
    BY <1>3, OneRun
  <2> QED BY <1>2, <1>4, <2>1
<1>6. ~(k < i)
  <2> SUFFICES ASSUME k < i PROVE FALSE
    OBVIOUS
  <2>1. q[i] = q[i + 1]
    BY <1>3, OneRun
  <2> QED BY <1>1, <1>4, <2>1
<1>7. i = k
  BY <1>5, <1>6
<1>8. p - i \in Nat /\ r - i \in Nat /\ p - i < (r - i) + Over /\ r - i < (p - i) + Over
  BY <1>0, <1>7
<1>9. p - i = r - i
  BY <1>0, <1>1, <1>2, <1>7, <1>8, CloseMultiples
<1> QED BY <1>9
-----------------------------------------------------------------------------
\* What is known of the first samples is known of more

\* The samples of q are the first ones of r.
Prefix(q, r) == Len(q) <= Len(r) /\ \A m \in 1..Len(q) : q[m] = r[m]

\* Whether samples are of one class does not depend on those behind.
LEMMA SteadyPrefix ==
  ASSUME NEW q \in Seq(Class), NEW r \in Seq(Class), Prefix(q, r),
         NEW p \in Nat, NEW j \in 1..Len(q)
  PROVE  Steady(q, p, j) <=> Steady(r, p, j)
<1>1. q[j] = r[j]
  BY DEF Prefix
<1>2. \A m \in (p + 1)..j : q[m] = r[m]
  <2> TAKE m \in (p + 1)..j
  <2>1. m \in 1..Len(q)
    OBVIOUS
  <2> QED BY <2>1 DEF Prefix
<1> QED BY <1>1, <1>2 DEF Steady

\* Where an event begins depends on the samples in front, and the first one of it.
LEMMA BeginsPrefix ==
  ASSUME NEW q \in Seq(Class), NEW r \in Seq(Class), Prefix(q, r),
         NEW p \in Nat, p + 1 <= Len(q)
  PROVE  Begins(q, p) <=> Begins(r, p)
<1>1. p + 1 \in 1..Len(q) /\ q[p + 1] = r[p + 1]
  BY DEF Prefix
<1>2. ASSUME NEW i \in 0..p
      PROVE  /\ Steady(q, i, p + 1) <=> Steady(r, i, p + 1)
             /\ (i > 0 => q[i] # q[p + 1]) <=> (i > 0 => r[i] # r[p + 1])
  <2>1. Steady(q, i, p + 1) <=> Steady(r, i, p + 1)
    BY <1>1, SteadyPrefix
  <2>2. i > 0 => q[i] = r[i]
    <3>1. i > 0 => i \in 1..Len(q)
      BY <1>1
    <3> QED BY <3>1 DEF Prefix
  <2> QED BY <1>1, <2>1, <2>2
<1> QED BY <1>2 DEF Begins

\* So do the events that are known to have ended.
LEMMA EndsPrefix ==
  ASSUME NEW q \in Seq(Class), NEW r \in Seq(Class), Prefix(q, r),
         NEW p \in Nat, NEW j \in Nat, p < j, j < Len(q)
  PROVE  /\ GoesOn(q, j) <=> GoesOn(r, j)
         /\ Ends(q, p, j) <=> Ends(r, p, j)
         /\ EventOf(q, p, j) = EventOf(r, p, j)
<1>1. j \in 1..Len(q) /\ j + 1 \in 1..Len(q) /\ j < Len(r) /\ p + 1 <= Len(q)
  BY DEF Prefix
<1>2. q[j] = r[j] /\ q[j + 1] = r[j + 1]
  BY <1>1 DEF Prefix
<1>3. GoesOn(q, j) <=> GoesOn(r, j)
  BY <1>1, <1>2 DEF GoesOn
<1>4. (Begins(q, p) <=> Begins(r, p)) /\ (Steady(q, p, j) <=> Steady(r, p, j))
  BY <1>1, BeginsPrefix, SteadyPrefix
<1>5. Ends(q, p, j) <=> Ends(r, p, j)
  BY <1>2, <1>3, <1>4 DEF Ends
<1>6. EventOf(q, p, j) = EventOf(r, p, j)
  <2>1. GoesOn(q, j) = GoesOn(r, j)
    BY <1>1, <1>2 DEF GoesOn
  <2> QED BY <1>2, <2>1, Zenon DEF EventOf
<1> QED BY <1>3, <1>5, <1>6

\* A stream and a window.
LEMMA ConcatFacts ==
  ASSUME NEW s \in Seq(Class), NEW w \in Seq(Class)
  PROVE  /\ s \o w \in Seq(Class) /\ Len(s) \in Nat /\ Len(w) \in Nat
         /\ Len(s \o w) = Len(s) + Len(w)
         /\ Prefix(s, s \o w)
         /\ \A i \in 1..Len(w) : (s \o w)[Len(s) + i] = w[i]
<1>1. Len(s) \in Nat /\ Len(w) \in Nat
  BY LenProperties
<1>2. s \o w \in Seq(Class) /\ Len(s \o w) = Len(s) + Len(w)
  BY ConcatProperties
<1>3. \A i \in 1..Len(s) : (s \o w)[i] = s[i]
  BY ConcatProperties
<1>4. \A i \in 1..Len(w) : (s \o w)[Len(s) + i] = w[i]
  BY <1>1, ConcatProperties
<1> QED BY <1>1, <1>2, <1>3, <1>4 DEF Prefix

\* The fields of an event.
LEMMA EventFields ==
  ASSUME NEW q, NEW p, NEW j
  PROVE  /\ EventOf(q, p, j).end = j /\ EventOf(q, p, j).class = q[j]
         /\ EventOf(q, p, j).sustained = GoesOn(q, j)
         /\ EventOf(q, p, j).start = IF GoesOn(q, j) THEN p - 2 ELSE p - 1
BY DEF EventOf

\* An event of a stream has the type of events.
LEMMA EventTyped ==
  ASSUME NEW q \in Seq(Class), NEW p \in Nat, NEW j \in Nat, Steady(q, p, j)
  PROVE  EventOf(q, p, j) \in EventType
<1>1. p - 2 \in Int /\ p - 1 \in Int /\ q[j] \in Limits /\ GoesOn(q, j) \in BOOLEAN
  BY DEF Steady, GoesOn
<1>2. (IF GoesOn(q, j) THEN p - 2 ELSE p - 1) \in Int
  BY <1>1
<1> QED BY <1>1, <1>2 DEF EventOf, EventType

-----------------------------------------------------------------------------
\* A state of the analysis

\* The window in hand and the place in it.
LEMMA PlaceFacts ==
  ASSUME TypeOK
  PROVE  /\ stream \in Seq(Class) /\ window \in Seq(Class) /\ all \in Seq(Class)
         /\ Len(stream) \in Nat /\ Len(window) \in Nat /\ Len(all) \in Nat
         /\ Len(all) = Len(stream) + Len(window) /\ Prefix(stream, all)
         /\ jj \in Nat /\ at \in Nat /\ Len(stream) <= at /\ at <= Len(all)
         /\ at < Len(all) <=> jj < Len(window)
         /\ \A i \in 1..Len(window) : all[Len(stream) + i] = window[i]
         /\ \A i \in 1..Len(all) : all[i] \in Class
         /\ jj < Len(window) => Sample = all[at + 1]
         /\ jj + 1 < Len(window) => window[jj + 2] = all[at + 2]
         /\ jj > 0 => window[jj] = all[at]
         /\ window # <<>> <=> Len(window) > 0
         /\ window = <<>> => jj = 0 /\ all = stream
<1>1. stream \in Seq(Class) /\ window \in Seq(Class) /\ jj \in 0..Len(window)
  <2>1. Window \in Nat
    BY VoltageAssumption
  <2>2. window \in [1..Window -> Class] => window \in Seq(Class)
    BY <2>1, SeqDef
  <2>3. <<>> \in Seq(Class)
    OBVIOUS
  <2> QED BY <2>2, <2>3 DEF TypeOK
<1>2. /\ all \in Seq(Class) /\ Len(stream) \in Nat /\ Len(window) \in Nat
      /\ Len(all) = Len(stream) + Len(window) /\ Prefix(stream, all)
      /\ \A i \in 1..Len(window) : all[Len(stream) + i] = window[i]
  BY <1>1, ConcatFacts DEF all
<1>3. \A i \in 1..Len(all) : all[i] \in Class
  BY <1>2, ElementOfSeq
<1>4. window # <<>> <=> Len(window) > 0
  BY <1>1, EmptySeq
<1>5. window = <<>> => jj = 0 /\ all = stream
  <2> SUFFICES ASSUME window = <<>> PROVE jj = 0 /\ all = stream
    OBVIOUS
  <2>1. stream \o <<>> = stream
    BY <1>1, ConcatEmptySeq
  <2> QED BY <1>1, <2>1 DEF all
<1>6. /\ jj \in Nat /\ at \in Nat /\ Len(stream) <= at /\ at <= Len(all)
      /\ at < Len(all) <=> jj < Len(window)
  BY <1>1, <1>2 DEF at
<1>7. jj < Len(window) => Sample = all[at + 1]
  <2> SUFFICES ASSUME jj < Len(window) PROVE Sample = all[at + 1]
    OBVIOUS
  <2>1. jj + 1 \in 1..Len(window) /\ Len(stream) + (jj + 1) = at + 1
    BY <1>2, <1>6 DEF at
  <2> QED BY <1>2, <2>1 DEF Sample
<1>8. jj + 1 < Len(window) => window[jj + 2] = all[at + 2]
  <2> SUFFICES ASSUME jj + 1 < Len(window) PROVE window[jj + 2] = all[at + 2]
    OBVIOUS
  <2>1. jj + 2 \in 1..Len(window) /\ Len(stream) + (jj + 2) = at + 2
    BY <1>2, <1>6 DEF at
  <2> QED BY <1>2, <2>1
<1>9. jj > 0 => window[jj] = all[at]
  <2> SUFFICES ASSUME jj > 0 PROVE window[jj] = all[at]
    OBVIOUS
  <2>1. jj \in 1..Len(window) /\ Len(stream) + jj = at
    BY <1>1, <1>2 DEF at
  <2> QED BY <1>2, <2>1
<1> QED BY <1>1, <1>2, <1>3, <1>4, <1>5, <1>6, <1>7, <1>8, <1>9

\* The counts are natural numbers, and none exceeds Over.
LEMMA CountTypes ==
  ASSUME TypeOK
  PROVE  /\ Over \in Nat \ {0}
         /\ \A c \in Limits : /\ count[c] \in Nat /\ count[c] <= Over
                              /\ tmp[c] \in Nat /\ tmp[c] <= Over
         /\ Len(events) \in Nat /\ Len(reported) \in Nat /\ report \in Nat
BY VoltageAssumption, LenProperties DEF TypeOK

\* The sample in hand continues the event that its class counts, or begins one.
LEMMA CurrentPiece ==
  ASSUME LimitInv, jj < Len(window), Sample \in Limits
  PROVE  /\ count[Sample] \in Nat /\ count[Sample] <= at /\ count[Sample] <= Over
         /\ Sample = all[at + 1]
         /\ Begins(all, at - count[Sample])
         /\ Steady(all, at - count[Sample], at + 1)
         /\ count[Sample] > 0 => at > 0 /\ all[at] = Sample
         /\ \A d \in Limits : d # Sample => count[d] = 0
<1>1. /\ at \in Nat /\ at < Len(all) /\ Len(all) \in Nat /\ all \in Seq(Class)
      /\ Sample = all[at + 1]
  BY PlaceFacts DEF LimitInv
<1>2. \A c \in Limits : count[c] \in Nat /\ count[c] <= Over
  BY CountTypes DEF LimitInv
<1>3. \A c \in Limits : count[c] > 0 =>
        /\ count[c] <= at
        /\ Begins(all, at - count[c]) /\ Steady(all, at - count[c], at)
        /\ all[at] = c /\ all[at + 1] = c
  BY <1>1 DEF LimitInv, CountInv
<1>4. \A d \in Limits : d # Sample => count[d] = 0
  BY <1>1, <1>2, <1>3
<1>5. CASE count[Sample] > 0
  <2> DEFINE p == at - count[Sample]
  <2>1. p \in Nat /\ p < at /\ count[Sample] <= at
    BY <1>1, <1>2, <1>3, <1>5
  <2>2. Begins(all, p) /\ Steady(all, p, at) /\ all[at] = Sample /\ all[at + 1] = all[at]
    BY <1>3, <1>5
  <2> HIDE DEF p
  <2>3. Steady(all, p, at + 1)
    BY <1>1, <2>1, <2>2, SteadyMore
  <2>4. at > 0
    BY <1>1, <2>1
  <2> QED BY <1>1, <1>2, <1>4, <2>1, <2>2, <2>3, <2>4 DEF p
<1>6. CASE count[Sample] = 0
  <2>1. Begins(all, at)
    <3>1. CASE at > 0 /\ all[at] = all[at + 1]
      <4>1. GoesOn(all, at)
        BY <1>1, <3>1 DEF GoesOn
      <4> QED BY <1>1, <1>6, <3>1, <4>1 DEF LimitInv, FreshInv
    <3>2. CASE ~(at > 0 /\ all[at] = all[at + 1])
      BY <1>1, <3>2, NewRun
    <3> QED BY <3>1, <3>2
  <2>2. Steady(all, at, at + 1)
    BY <1>1, SteadyOne
  <2>3. at - count[Sample] = at
    BY <1>1, <1>6
  <2> QED BY <1>1, <1>2, <1>4, <1>6, <2>1, <2>2, <2>3
<1> QED BY <1>2, <1>5, <1>6

\* A sample within the limits is at hand: nothing is being counted.
LEMMA NothingCounted ==
  ASSUME LimitInv, jj < Len(window), Sample = "ok"
  PROVE  \A d \in Limits : count[d] = 0
<1>1. at < Len(all) /\ Sample = all[at + 1]
  BY PlaceFacts DEF LimitInv
<1>2. \A c \in Limits : count[c] > 0 => all[at + 1] = c
  BY <1>1 DEF LimitInv, CountInv
<1>3. \A c \in Limits : count[c] \in Nat /\ c # "ok"
  BY CountTypes DEF LimitInv, Limits
<1> QED BY <1>1, <1>2, <1>3

\* Unless the event has its greatest length, the events that end before the sample in hand
\* have been found.
LEMMA Settled ==
  ASSUME LimitInv, jj < Len(window),
         Sample # "ok" => Sample \in Limits /\ count[Sample] < Over,
         NEW p \in Nat, NEW j \in Nat, p < j, j <= at, Len(stream) <= j, Ends(all, p, j)
  PROVE  Found(p, j)
<1>1. /\ at \in Nat /\ at < Len(all) /\ Len(all) \in Nat /\ all \in Seq(Class)
      /\ Sample = all[at + 1]
  BY PlaceFacts DEF LimitInv
<1>2. SUFFICES ASSUME j = at, count[all[at]] # 0 PROVE FALSE
  BY DEF Found
<1> DEFINE c == all[at]
           r == at - count[c]
<1>3. c \in Limits /\ Begins(all, p) /\ Steady(all, p, at)
  BY <1>2 DEF Ends, Steady
<1>4. count[c] \in Nat /\ count[c] > 0 /\ count[c] <= Over /\ Over \in Nat
  BY <1>2, <1>3, CountTypes DEF LimitInv
<1>5. count[c] <= at /\ Begins(all, r) /\ Steady(all, r, at) /\ all[at + 1] = c
  BY <1>1, <1>3, <1>4 DEF LimitInv, CountInv
<1>6. GoesOn(all, at)
  BY <1>1, <1>5 DEF GoesOn
<1>7. at = p + Over
  BY <1>2, <1>6 DEF Ends
<1>8. r \in Nat /\ r < at /\ at <= r + Over /\ at <= p + Over
  BY <1>1, <1>4, <1>5, <1>7
<1>9. Sample \in Limits /\ count[c] < Over
  BY <1>1, <1>3, <1>5 DEF Limits
<1> HIDE DEF c
<1>10. p = r
  <2> HIDE DEF r
  <2> QED BY <1>1, <1>2, <1>3, <1>5, <1>8, OnePiece
<1> QED BY <1>1, <1>4, <1>7, <1>9, <1>10

-----------------------------------------------------------------------------
\* Lists of events

\* The events found, one by one.
LEMMA InFoundEvents ==
  ASSUME NEW e
  PROVE  e \in FoundEvents <=> \E p \in 0..at, j \in 1..at : Found(p, j) /\ e = EventOf(all, p, j)
<1>1. ASSUME e \in FoundEvents
      PROVE  \E p \in 0..at, j \in 1..at : Found(p, j) /\ e = EventOf(all, p, j)
  <2>1. PICK x \in {y \in (0..at) \X (1..at) : Found(y[1], y[2])} : e = EventOf(all, x[1], x[2])
    BY <1>1 DEF FoundEvents
  <2>2. x[1] \in 0..at /\ x[2] \in 1..at /\ Found(x[1], x[2])
    BY <2>1
  <2> QED BY <2>1, <2>2
<1>2. ASSUME NEW p \in 0..at, NEW j \in 1..at, Found(p, j), e = EventOf(all, p, j)
      PROVE  e \in FoundEvents
  <2> DEFINE x == <<p, j>>
  <2>1. x \in (0..at) \X (1..at) /\ x[1] = p /\ x[2] = j
    OBVIOUS
  <2> HIDE DEF x
  <2>2. x \in {y \in (0..at) \X (1..at) : Found(y[1], y[2])}
    BY <1>2, <2>1
  <2> QED BY <1>2, <2>1, <2>2 DEF FoundEvents
<1> QED BY <1>1, <1>2

LEMMA InFoundEventsNext ==
  ASSUME NEW e
  PROVE  (e \in FoundEvents
            <=> \E p \in 0..at, j \in 1..at : Found(p, j) /\ e = EventOf(all, p, j))'
BY InFoundEvents, PTL

\* The events of a stream, one by one.
LEMMA InEventsOf ==
  ASSUME NEW q, NEW e
  PROVE  e \in EventsOf(q) <=> \E p \in 0..Len(q), j \in 1..(Len(q) - 1) :
                                 p < j /\ Ends(q, p, j) /\ e = EventOf(q, p, j)
<1> DEFINE S == (0..Len(q)) \X (1..(Len(q) - 1))
<1>1. ASSUME e \in EventsOf(q)
      PROVE  \E p \in 0..Len(q), j \in 1..(Len(q) - 1) :
               p < j /\ Ends(q, p, j) /\ e = EventOf(q, p, j)
  <2>1. PICK x \in {y \in S : y[1] < y[2] /\ Ends(q, y[1], y[2])} : e = EventOf(q, x[1], x[2])
    BY <1>1 DEF EventsOf
  <2>2. x[1] \in 0..Len(q) /\ x[2] \in 1..(Len(q) - 1) /\ x[1] < x[2] /\ Ends(q, x[1], x[2])
    BY <2>1
  <2> QED BY <2>1, <2>2
<1>2. ASSUME NEW p \in 0..Len(q), NEW j \in 1..(Len(q) - 1),
             p < j, Ends(q, p, j), e = EventOf(q, p, j)
      PROVE  e \in EventsOf(q)
  <2> DEFINE x == <<p, j>>
  <2>1. x \in S /\ x[1] = p /\ x[2] = j
    OBVIOUS
  <2> HIDE DEF x
  <2>2. x \in {y \in S : y[1] < y[2] /\ Ends(q, y[1], y[2])}
    BY <1>2, <2>1
  <2> QED BY <1>2, <2>1, <2>2 DEF EventsOf
<1> QED BY <1>1, <1>2

\* An event is entered behind those there are.
LEMMA ListedAppend ==
  ASSUME NEW q \in Seq(EventType), NEW n, NEW S, NEW f \in EventType, Listed(q, n, S),
         \A e \in S : e.end < f.end
  PROVE  Listed(Append(q, f), n, S \cup {f})
<1> DEFINE r == Append(q, f)
<1>1. /\ Len(q) \in Nat /\ r \in Seq(EventType) /\ Len(r) = Len(q) + 1
      /\ \A i \in 1..Len(q) : r[i] = q[i]
      /\ r[Len(q) + 1] = f
  BY AppendProperties, LenProperties
<1>2. n \in 0..Len(q) /\ S = {q[i] : i \in (n + 1)..Len(q)}
  BY DEF Listed
<1> HIDE DEF r
<1>3. n \in 0..Len(r)
  BY <1>1, <1>2
<1>4. ASSUME NEW i \in (n + 1)..Len(r), NEW j \in (n + 1)..Len(r), i < j
      PROVE  r[i].end < r[j].end
  <2>1. i \in (n + 1)..Len(q) /\ r[i] = q[i]
    BY <1>1, <1>2, <1>4
  <2>2. CASE j <= Len(q)
    <3>1. j \in (n + 1)..Len(q) /\ r[j] = q[j]
      BY <1>1, <1>2, <2>2
    <3> QED BY <1>4, <2>1, <3>1 DEF Listed
  <2>3. CASE j > Len(q)
    <3>1. r[j] = f
      BY <1>1, <2>3
    <3>2. q[i] \in S
      BY <1>2, <2>1
    <3> QED BY <2>1, <3>1, <3>2
  <2> QED BY <1>1, <1>2, <2>2, <2>3
<1>5. ASSUME NEW e PROVE e \in S \cup {f} <=> \E i \in (n + 1)..Len(r) : e = r[i]
  <2>1. ASSUME e \in S PROVE \E i \in (n + 1)..Len(r) : e = r[i]
    <3>1. PICK i \in (n + 1)..Len(q) : e = q[i]
      BY <1>2, <2>1
    <3>2. i \in (n + 1)..Len(r) /\ r[i] = q[i]
      BY <1>1, <1>2
    <3> QED BY <3>1, <3>2
  <2>2. Len(q) + 1 \in (n + 1)..Len(r)
    BY <1>1, <1>2
  <2>3. ASSUME NEW i \in (n + 1)..Len(r), i <= Len(q) PROVE r[i] \in S
    <3>1. i \in (n + 1)..Len(q) /\ r[i] = q[i]
      BY <1>1, <1>2, <2>3
    <3> QED BY <1>2, <3>1
  <2>4. ASSUME NEW i \in (n + 1)..Len(r), i > Len(q) PROVE i = Len(q) + 1
    BY <1>1, <1>2, <2>4
  <2>5. \A i \in (n + 1)..Len(r) : i <= Len(q) \/ i > Len(q)
    BY <1>1, <1>2
  <2> QED BY <1>1, <2>1, <2>2, <2>3, <2>4, <2>5
<1>6. S \cup {f} = {r[i] : i \in (n + 1)..Len(r)}
  BY <1>5
<1>7. Listed(r, n, S \cup {f})
  BY <1>3, <1>4, <1>6 DEF Listed
<1> QED BY <1>7 DEF r

\* Nothing is to be reported of a list, or its last event only.
LEMMA ListedNone == ASSUME NEW q, Len(q) \in Nat PROVE Listed(q, Len(q), {})
BY DEF Listed

LEMMA ListedLast ==
  ASSUME NEW q, Len(q) \in Nat \ {0}
  PROVE  Listed(q, Len(q) - 1, {q[Len(q)]})
<1> DEFINE n == Len(q) - 1
<1>1. n \in 0..Len(q) /\ n + 1 = Len(q) /\ Len(q) \in Int
  OBVIOUS
<1>2. \A i \in (n + 1)..Len(q) : i = Len(q)
  <2> HIDE DEF n
  <2> QED BY <1>1
<1>3. Len(q) \in (n + 1)..Len(q)
  BY <1>1
<1> HIDE DEF n
<1>4. Listed(q, n, {q[Len(q)]})
  BY <1>1, <1>2, <1>3 DEF Listed
<1> QED BY <1>4 DEF n

\* Nothing is to be reported: the list has not grown.
LEMMA ListedAll ==
  ASSUME NEW q, Len(q) \in Nat, NEW S, Listed(q, Len(q), S)
  PROVE  S = {}
BY DEF Listed

\* A part of a list.
LEMMA PartFacts ==
  ASSUME NEW q \in Seq(EventType), NEW m \in Nat, NEW n \in Nat, m <= n, n <= Len(q)
  PROVE  /\ SubSeq(q, m + 1, n) \in Seq(EventType) /\ Len(SubSeq(q, m + 1, n)) = n - m
         /\ \A i \in 1..(n - m) : SubSeq(q, m + 1, n)[i] = q[m + i] /\ q[m + i] \in EventType
<1> DEFINE a == m + 1
<1>1. a \in Int /\ n \in Int /\ Len(q) \in Nat
  BY LenProperties
<1>2. \A i \in a..n : q[i] \in EventType
  <2> TAKE i \in a..n
  <2>1. i \in 1..Len(q)
    BY <1>1
  <2> QED BY <2>1, ElementOfSeq
<1>3. \A i \in 1..(n - m) : m + i \in a..n /\ a + i - 1 = m + i
  OBVIOUS
<1>4. (n - a) + 1 = n - m /\ (a <= n <=> n - m > 0)
  BY <1>1
<1> HIDE DEF a
<1>5. /\ SubSeq(q, a, n) \in Seq(EventType)
      /\ Len(SubSeq(q, a, n)) = IF a <= n THEN n - a + 1 ELSE 0
      /\ \A i \in 1..(n - a + 1) : SubSeq(q, a, n)[i] = q[a + i - 1]
  BY <1>1, <1>2, SubSeqProperties
<1>6. /\ SubSeq(q, a, n) \in Seq(EventType) /\ Len(SubSeq(q, a, n)) = n - m
      /\ \A i \in 1..(n - m) : SubSeq(q, a, n)[i] = q[m + i] /\ q[m + i] \in EventType
  <2> DEFINE r == SubSeq(q, a, n)
  <2> HIDE DEF r
  <2>1. r \in Seq(EventType) /\ Len(r) = n - m
    BY <1>1, <1>4, <1>5 DEF r
  <2>2. ASSUME NEW i \in 1..(n - m) PROVE r[i] = q[m + i] /\ q[m + i] \in EventType
    BY <1>1, <1>2, <1>3, <1>4, <1>5 DEF r
  <2> QED BY <2>1, <2>2 DEF r
<1> QED BY <1>6 DEF a

\* The list without its last event.
LEMMA FrontFacts ==
  ASSUME NEW q \in Seq(EventType), q # <<>>
  PROVE  /\ Front(q) \in Seq(EventType) /\ Len(Front(q)) = Len(q) - 1
         /\ Len(q) \in Nat \ {0} /\ q[Len(q)] \in EventType
         /\ \A i \in 1..(Len(q) - 1) : Front(q)[i] = q[i]
<1>1. Len(q) \in Nat \ {0}
  BY EmptySeq, LenProperties
<1>2. q[Len(q)] \in EventType
  BY <1>1, ElementOfSeq
<1> DEFINE n == Len(q) - 1
<1>3. 0 \in Nat /\ n \in Nat /\ 0 <= n /\ n <= Len(q) /\ 0 + 1 = 1 /\ n - 0 = n
  BY <1>1
<1>4. \A i \in 1..n : 0 + i = i
  BY <1>3
<1> HIDE DEF n
<1>5. /\ SubSeq(q, 0 + 1, n) \in Seq(EventType) /\ Len(SubSeq(q, 0 + 1, n)) = n - 0
      /\ \A i \in 1..(n - 0) : SubSeq(q, 0 + 1, n)[i] = q[0 + i]
  BY <1>3, PartFacts
<1>6. /\ SubSeq(q, 1, n) \in Seq(EventType) /\ Len(SubSeq(q, 1, n)) = n
      /\ \A i \in 1..n : SubSeq(q, 1, n)[i] = q[i]
  BY <1>3, <1>4, <1>5
<1> QED BY <1>1, <1>2, <1>6 DEF Front, n

\* The last event of a list, and the ones in front of it.
LEMMA ListedFront ==
  ASSUME NEW q, Len(q) \in Nat, NEW n, NEW S, Listed(q, n, S), NEW b \in Int,
         \A e \in S : e.end \in Int /\ e.end <= b,
         \E e \in S : e.end = b
  PROVE  n < Len(q) /\ {e \in S : e.end < b} = {q[i] : i \in (n + 1)..(Len(q) - 1)}
<1>1. n \in 0..Len(q) /\ S = {q[i] : i \in (n + 1)..Len(q)}
  BY DEF Listed
<1>2. \A i, j \in (n + 1)..Len(q) : i < j => q[i].end < q[j].end
  BY DEF Listed
<1>3. PICK k \in (n + 1)..Len(q) : q[k].end = b
  BY <1>1
<1>4. Len(q) \in (n + 1)..Len(q) /\ n < Len(q)
  BY <1>1
<1>5. q[Len(q)] \in S /\ q[Len(q)].end = b
  <2>1. q[Len(q)] \in S
    BY <1>1, <1>4
  <2>2. k < Len(q) => q[k].end < q[Len(q)].end
    BY <1>2, <1>4
  <2> QED BY <1>3, <1>4, <2>1, <2>2
<1>6. ASSUME NEW i \in (n + 1)..(Len(q) - 1) PROVE q[i] \in S /\ q[i].end < b
  <2>1. i \in (n + 1)..Len(q) /\ i < Len(q)
    BY <1>1
  <2>2. q[i] \in S /\ q[i].end < q[Len(q)].end
    BY <1>1, <1>2, <1>4, <2>1
  <2> QED BY <1>5, <2>2
<1>7. ASSUME NEW e \in S, e.end < b PROVE \E i \in (n + 1)..(Len(q) - 1) : e = q[i]
  <2>1. PICK i \in (n + 1)..Len(q) : e = q[i]
    BY <1>1
  <2>2. i # Len(q)
    BY <1>5, <1>7, <2>1
  <2>3. i \in (n + 1)..(Len(q) - 1)
    BY <1>1, <2>2
  <2> QED BY <2>1, <2>3
<1> QED BY <1>4, <1>6, <1>7

\* The ends of the events of q behind the n-th, up to the m-th, increase, and they are behind
\* those of r.
Rising(q, n, m) == \A i, j \in (n + 1)..m : i < j => q[i].end < q[j].end
Behind(r, q, n, m) == \A i \in 1..Len(r), j \in (n + 1)..m : r[i].end < q[j].end

\* Events are reported: a part of the list behind what has been reported.
LEMMA Reporting ==
  ASSUME NEW r \in Seq(EventType), NEW q \in Seq(EventType),
         NEW n \in Nat, NEW m \in Nat, n <= m, m <= Len(q),
         Rising(r, 0, Len(r)), Rising(q, n, m), Behind(r, q, n, m)
  PROVE  LET s == r \o SubSeq(q, n + 1, m)
         IN /\ s \in Seq(EventType)
            /\ Seen(s) = Seen(r) \cup {q[i] : i \in (n + 1)..m}
            /\ Rising(s, 0, Len(s))
<1> DEFINE s == r \o SubSeq(q, n + 1, m)
           d == SubSeq(q, n + 1, m)
<1>1. /\ d \in Seq(EventType) /\ Len(d) = m - n
      /\ \A i \in 1..(m - n) : d[i] = q[n + i]
  BY PartFacts
<1>0. s = r \o d
  OBVIOUS
<1> HIDE DEF d, s
<1>2. /\ s \in Seq(EventType) /\ Len(s) = Len(r) + Len(d) /\ Len(r) \in Nat
      /\ \A i \in 1..Len(r) : s[i] = r[i]
      /\ \A i \in (Len(r) + 1)..(Len(r) + Len(d)) : s[i] = d[i - Len(r)]
  <2>2. /\ r \o d \in Seq(EventType) /\ Len(r \o d) = Len(r) + Len(d) /\ Len(r) \in Nat
        /\ Len(d) \in Nat
        /\ \A i \in 1..(Len(r) + Len(d)) :
             (r \o d)[i] = IF i <= Len(r) THEN r[i] ELSE d[i - Len(r)]
    <3>1. r \in Seq(EventType) /\ d \in Seq(EventType)
      BY <1>1
    <3>2. Len(r) \in Nat /\ Len(d) \in Nat
      BY <3>1, LenProperties
    <3>3. /\ r \o d \in Seq(EventType) /\ Len(r \o d) = Len(r) + Len(d)
          /\ \A i \in 1..(Len(r) + Len(d)) :
               (r \o d)[i] = IF i <= Len(r) THEN r[i] ELSE d[i - Len(r)]
      BY <3>1, ConcatProperties
    <3> QED BY <3>2, <3>3
  <2> HIDE DEF d
  <2>3. \A i \in 1..Len(r) : (r \o d)[i] = r[i]
    BY <2>2
  <2>4. \A i \in (Len(r) + 1)..(Len(r) + Len(d)) : (r \o d)[i] = d[i - Len(r)]
    BY <2>2
  <2> QED BY <1>0, <2>2, <2>3, <2>4
<1>3. Len(s) = Len(r) + (m - n)
  BY <1>1, <1>2
<1>4. ASSUME NEW i \in (Len(r) + 1)..Len(s)
      PROVE  (n + i) - Len(r) \in (n + 1)..m /\ s[i] = q[(n + i) - Len(r)]
  <2>1. i - Len(r) \in 1..(m - n) /\ n + (i - Len(r)) = (n + i) - Len(r)
    <3> DEFINE a == Len(r)
               b == Len(s)
    <3>1. a \in Nat /\ b = a + (m - n) /\ i \in (a + 1)..b
      BY <1>2, <1>3
    <3> HIDE DEF a, b
    <3>2. i - a \in 1..(m - n) /\ n + (i - a) = (n + i) - a
      BY <3>1
    <3> QED BY <3>2 DEF a
  <2>5. Len(r) + Len(d) = Len(s)
    BY <1>1, <1>2
  <2>2. s[i] = d[i - Len(r)]
    <3>1. i \in (Len(r) + 1)..(Len(r) + Len(d))
      BY <2>5
    <3> QED BY <1>2, <3>1
  <2>3. d[i - Len(r)] = q[n + (i - Len(r))]
    BY <1>1, <2>1
  <2>4. (n + i) - Len(r) \in (n + 1)..m
    BY <1>2, <1>3
  <2> QED BY <2>1, <2>2, <2>3, <2>4
<1>5. ASSUME NEW k \in (n + 1)..m
      PROVE  \E i \in (Len(r) + 1)..Len(s) : s[i] = q[k]
  <2> DEFINE i == (Len(r) + k) - n
  <2>1. i \in (Len(r) + 1)..Len(s) /\ (n + i) - Len(r) = k
    BY <1>2, <1>3
  <2> HIDE DEF i
  <2> QED BY <1>4, <2>1
<1>6. Seen(s) = Seen(r) \cup {q[i] : i \in (n + 1)..m}
  <2> DEFINE T == {q[i] : i \in (n + 1)..m}
  <2>1. ASSUME NEW i \in 1..Len(s) PROVE s[i] \in Seen(r) \cup T
    <3>1. CASE i <= Len(r)
      <4>1. i \in 1..Len(r) /\ s[i] = r[i]
        BY <1>2, <3>1
      <4> QED BY <4>1 DEF Seen
    <3>2. CASE i > Len(r)
      <4>1. i \in (Len(r) + 1)..Len(s)
        BY <1>2, <1>3, <3>2
      <4> QED BY <1>4, <4>1
    <3> QED BY <1>2, <3>1, <3>2
  <2>2. ASSUME NEW i \in 1..Len(r) PROVE r[i] \in Seen(s)
    <3>1. i \in 1..Len(s) /\ s[i] = r[i]
      BY <1>2, <1>3
    <3> QED BY <3>1 DEF Seen
  <2>3. ASSUME NEW k \in (n + 1)..m PROVE q[k] \in Seen(s)
    <3>1. PICK i \in (Len(r) + 1)..Len(s) : s[i] = q[k]
      BY <1>5
    <3>2. i \in 1..Len(s)
      BY <1>2, <1>3
    <3> QED BY <3>1, <3>2 DEF Seen
  <2>4. Seen(s) \subseteq Seen(r) \cup T
    BY <2>1 DEF Seen
  <2>5. Seen(r) \subseteq Seen(s)
    BY <2>2 DEF Seen
  <2>6. T \subseteq Seen(s)
    BY <2>3
  <2> HIDE DEF T
  <2>7. Seen(s) = Seen(r) \cup T
    BY <2>4, <2>5, <2>6
  <2> QED BY <2>7 DEF T
<1>7. ASSUME NEW i \in 1..Len(s), NEW j \in 1..Len(s), i < j
      PROVE  s[i].end < s[j].end
  <2>1. CASE j <= Len(r)
    <3>1. i \in 1..Len(r) /\ j \in 1..Len(r)
      BY <1>2, <1>7, <2>1
    <3>2. i \in (0 + 1)..Len(r) /\ j \in (0 + 1)..Len(r)
      BY <3>1
    <3> QED BY <1>2, <1>7, <3>1, <3>2 DEF Rising
  <2>2. CASE i <= Len(r) /\ j > Len(r)
    <3>1. i \in 1..Len(r) /\ j \in (Len(r) + 1)..Len(s)
      BY <1>2, <1>3, <2>2
    <3>2. s[i] = r[i]
      BY <1>2, <3>1
    <3> QED BY <1>4, <3>1, <3>2 DEF Behind
  <2>3. CASE i > Len(r)
    <3>1. i \in (Len(r) + 1)..Len(s) /\ j \in (Len(r) + 1)..Len(s)
      BY <1>2, <1>3, <1>7, <2>3
    <3> DEFINE a == (n + i) - Len(r)
               b == (n + j) - Len(r)
    <3>2. a \in (n + 1)..m /\ b \in (n + 1)..m /\ s[i] = q[a] /\ s[j] = q[b]
      BY <1>4, <3>1
    <3>3. a < b
      BY <1>2, <1>7
    <3> HIDE DEF a, b
    <3> QED BY <3>2, <3>3 DEF Rising
  <2> QED BY <1>2, <2>1, <2>2, <2>3
<1>8. Rising(s, 0, Len(s))
  BY <1>7 DEF Rising
<1> QED BY <1>2, <1>6, <1>8 DEF s

-----------------------------------------------------------------------------
\* A round of the analysis of a window

\* What a round leaves alone.
LEMMA Round ==
  ASSUME LimitInv, jj < Len(window), UNCHANGED <<window, reportVars>>,
         jj' = jj \/ jj' = jj + 1
  PROVE  /\ stream' = stream /\ window' = window /\ all' = all
         /\ jj' = jj => at' = at
         /\ jj' = jj + 1 => at' = at + 1
         /\ jj' \in 0..Len(window)
         /\ window # <<>> /\ ~Closed /\ (Ended' <=> Ended)
         /\ ReportsExact'
<1>1. stream' = stream /\ window' = window /\ all' = all /\ lastRep' = lastRep
      /\ lastVal' = lastVal /\ reported' = reported
  BY DEF all, reportVars
<1>2. jj \in Nat /\ Len(window) \in Nat /\ Len(stream) \in Nat /\ window # <<>>
  BY PlaceFacts DEF LimitInv
<1>3. (jj' = jj => at' = at) /\ (jj' = jj + 1 => at' = at + 1) /\ jj' \in 0..Len(window)
  BY <1>1, <1>2 DEF at
<1>4. ~Closed
  BY <1>2 DEF Closed
<1>5. Ended' <=> Ended
  BY <1>1 DEF Ended
<1>6. ReportsExact'
  BY <1>1 DEF LimitInv, ReportsExact
<1> QED BY <1>1, <1>2, <1>3, <1>4, <1>5, <1>6

\* A round that ends inside the window, or within the limits, has not changed what is
\* remembered of the last one.
LEMMA LastKept ==
  ASSUME LimitInv, jj < Len(window), UNCHANGED <<window, endVars, reportVars>>,
         jj' = jj \/ jj' = jj + 1
  PROVE  LastInv'
<1>1. stream' = stream /\ all' = all /\ ~Closed /\ lastRep' = lastRep /\ lastVal' = lastVal
      /\ lastSample' = lastSample /\ tmp' = tmp
  BY Round DEF reportVars, endVars
<1>2. LastInv
  BY DEF LimitInv
<1>3. Len(stream') > 0 => lastVal' = stream'[Len(stream')]
  BY <1>1, <1>2 DEF LastInv
<1>4. lastSample' = IF Len(stream') = 0 \/ stream'[Len(stream')] = "ok" THEN "none"
                    ELSE stream'[Len(stream')]
  BY <1>1, <1>2 DEF LastInv
<1>5. lastRep' <=> HeldBack(lastSample)'
  BY <1>1, <1>2 DEF LastInv, HeldBack
<1>6. lastSample' # "none" =>
            /\ tmp'[lastSample'] > 0 /\ tmp'[lastSample'] <= Len(stream')
            /\ Begins(all', Len(stream') - tmp'[lastSample'])
            /\ Steady(all', Len(stream') - tmp'[lastSample'], Len(stream'))
  BY <1>1, <1>2 DEF LastInv
<1> QED BY <1>3, <1>4, <1>5, <1>6 DEF LastInv

\* Nothing is withdrawn.
LEMMA WithdrawnKept ==
  ASSUME LimitInv, all' = all, withdrawn' = withdrawn
  PROVE  WithdrawnInv'
BY DEF LimitInv, WithdrawnInv

\* A round that goes on to the next sample finds the event that ends with it, if there is one.
LEMMA FoundGrows ==
  ASSUME LimitInv, jj < Len(window), UNCHANGED <<window, reportVars>>, jj' = jj + 1,
         Sample # "ok" => Sample \in Limits /\ count[Sample] < Over,
         NEW e
  PROVE  e \in FoundEvents' <=>
           \/ e \in FoundEvents
           \/ \E p \in 0..at : /\ Ends(all, p, at + 1)
                               /\ at + 1 < Len(all) => count'[all[at + 1]] = 0
                               /\ e = EventOf(all, p, at + 1)
<1>1. stream' = stream /\ all' = all /\ at' = at + 1
  BY Round
<1>2. at \in Nat /\ Len(stream) \in Nat /\ Len(stream) <= at
  BY PlaceFacts DEF LimitInv
<1>3. ASSUME NEW p \in Nat, NEW j \in Nat, j <= at
      PROVE  Found(p, j) <=> p < j /\ Len(stream) <= j /\ Ends(all, p, j)
  BY <1>3, Settled DEF Found
<1> DEFINE Next2(p, j) == /\ p < j /\ Len(stream) <= j /\ Ends(all, p, j)
                          /\ (j = at + 1 /\ at + 1 < Len(all)) => count'[all[at + 1]] = 0
<1>4. e \in FoundEvents' <=>
        \E p \in 0..(at + 1), j \in 1..(at + 1) : Next2(p, j) /\ e = EventOf(all, p, j)
  BY <1>1, InFoundEventsNext DEF Found
<1>5. e \in FoundEvents <=>
        \E p \in 0..at, j \in 1..at :
          p < j /\ Len(stream) <= j /\ Ends(all, p, j) /\ e = EventOf(all, p, j)
  BY <1>2, <1>3, InFoundEvents
<1>6. ASSUME e \in FoundEvents PROVE e \in FoundEvents'
  <2>1. PICK p \in 0..at, j \in 1..at :
          p < j /\ Len(stream) <= j /\ Ends(all, p, j) /\ e = EventOf(all, p, j)
    BY <1>5, <1>6
  <2>2. p \in 0..(at + 1) /\ j \in 1..(at + 1) /\ j # at + 1
    BY <1>2
  <2> QED BY <1>4, <2>1, <2>2
<1>7. ASSUME NEW p \in 0..at, Ends(all, p, at + 1),
             at + 1 < Len(all) => count'[all[at + 1]] = 0, e = EventOf(all, p, at + 1)
      PROVE  e \in FoundEvents'
  <2>1. p \in 0..(at + 1) /\ at + 1 \in 1..(at + 1) /\ p < at + 1 /\ Len(stream) <= at + 1
    BY <1>2
  <2> QED BY <1>4, <1>7, <2>1
<1>8. ASSUME NEW p \in 0..(at + 1), NEW j \in 1..(at + 1), Next2(p, j),
             e = EventOf(all, p, j)
      PROVE  \/ e \in FoundEvents
             \/ \E r \in 0..at : /\ Ends(all, r, at + 1)
                                 /\ at + 1 < Len(all) => count'[all[at + 1]] = 0
                                 /\ e = EventOf(all, r, at + 1)
  <2>1. CASE j <= at
    <3>1. p \in 0..at /\ j \in 1..at
      BY <1>2, <1>8, <2>1
    <3> QED BY <1>5, <1>8, <3>1
  <2>2. CASE j > at
    <3>1. j = at + 1 /\ p \in 0..at
      BY <1>2, <1>8, <2>2
    <3> QED BY <1>8, <3>1
  <2> QED BY <1>2, <2>1, <2>2
<1> QED BY <1>4, <1>6, <1>7, <1>8

\* A sample within the limits ends no event: the one before it has been entered.
LEMMA WithinLimitsStep == ASSUME LimitInv, WithinLimits PROVE LimitInv'
<1>1. /\ jj < Len(window) /\ Sample = "ok" /\ jj' = jj + 1
      /\ UNCHANGED <<window, reportVars>> /\ UNCHANGED <<window, endVars, reportVars>>
      /\ report' = report /\ count' = count /\ events' = events /\ withdrawn' = withdrawn
      /\ tmp' = tmp /\ lastSample' = lastSample
  BY DEF WithinLimits, endVars, listVars
<1>2. /\ stream' = stream /\ window' = window /\ all' = all /\ at' = at + 1
      /\ jj' \in 0..Len(window) /\ window # <<>> /\ (Ended' <=> Ended) /\ ReportsExact'
  BY <1>1, Round
<1>3. /\ at \in Nat /\ jj \in Nat /\ Len(all) \in Nat /\ at < Len(all) /\ all[at + 1] = "ok"
      /\ all[at + 1] \notin Limits
  BY <1>1, PlaceFacts DEF LimitInv, Limits
<1>4. \A d \in Limits : count'[d] = 0
  BY <1>1, NothingCounted
<1>5. TypeOK'
  BY <1>1, <1>2 DEF LimitInv, TypeOK, reportVars
<1>6. CountInv'
  BY <1>4 DEF CountInv
<1>7. FreshInv' /\ EndInv'
  BY <1>2, <1>3 DEF FreshInv, EndInv
<1>8. LastInv'
  BY <1>1, LastKept
<1>9. PlaceInv' /\ HeldInv'
  BY <1>1, <1>3, <1>4 DEF PlaceInv, HeldInv
<1>10. ListInv'
  <2>1. ASSUME NEW e PROVE e \in FoundEvents' <=> e \in FoundEvents
    <3>1. \A p : ~Ends(all, p, at + 1)
      BY <1>3 DEF Ends, Steady
    <3> QED BY <1>1, <3>1, FoundGrows
  <2>2. FoundEvents' = FoundEvents
    BY <2>1
  <2>3. New' = New
    BY <1>1, <1>2 DEF New
  <2> QED BY <1>1, <1>2, <2>2, <2>3 DEF LimitInv, ListInv
<1>11. WithdrawnInv'
  BY <1>1, <1>2, WithdrawnKept
<1> QED BY <1>2, <1>5, <1>6, <1>7, <1>8, <1>9, <1>10, <1>11 DEF LimitInv

\* The event has its greatest length: it is entered, and the next one begins with the sample.
LEMMA SustainStep == ASSUME LimitInv, Sustain PROVE LimitInv'
<1> DEFINE c == Sample
           p == at - count[c]
           f == Event(jj, count[c] + 1, c, TRUE)
<1>1. /\ jj < Len(window) /\ Sample \in Limits /\ jj' = jj
      /\ UNCHANGED <<window, reportVars>> /\ UNCHANGED <<window, endVars, reportVars>>
      /\ report' = report + 1 /\ count' = [count EXCEPT ![c] = 0]
      /\ events' = Append(events, f) /\ withdrawn' = withdrawn
      /\ tmp' = tmp /\ lastSample' = lastSample /\ count[c] + 1 > Over
  BY DEF Sustain, endVars
<1>2. /\ stream' = stream /\ window' = window /\ all' = all /\ at' = at
      /\ window # <<>> /\ (Ended' <=> Ended) /\ ReportsExact'
  BY <1>1, Round
<1>3. /\ at \in Nat /\ jj \in Nat /\ Len(stream) \in Nat /\ Len(all) \in Nat /\ at < Len(all)
      /\ all \in Seq(Class) /\ Len(stream) <= at /\ at = Len(stream) + jj
  BY <1>1, PlaceFacts DEF LimitInv, at
<1>4. /\ count[c] \in Nat /\ count[c] <= at /\ count[c] <= Over /\ Over \in Nat \ {0}
      /\ c = all[at + 1] /\ Begins(all, p) /\ Steady(all, p, at + 1)
      /\ count[c] > 0 => all[at] = c
      /\ \A d \in Limits : d # c => count[d] = 0
  BY <1>1, CurrentPiece, CountTypes DEF LimitInv
<1>5. count[c] = Over /\ p \in Nat /\ p + Over = at /\ p < at /\ all[at] = c /\ at > 0
  <2> DEFINE k == count[c]
  <2>1. k = Over
    BY <1>1, <1>4
  <2>2. all[at] = c
    BY <1>4, <2>1
  <2>3. k \in Nat /\ k <= at /\ k > 0
    BY <1>4, <2>1
  <2> HIDE DEF k
  <2>4. at - k \in Nat /\ (at - k) + Over = at /\ at - k < at /\ at > 0
    BY <1>3, <2>1, <2>3
  <2> QED BY <2>1, <2>2, <2>4 DEF k
<1>6. \A d \in Limits : count'[d] = 0
  BY <1>1, <1>4 DEF LimitInv, TypeOK
<1>7. GoesOn(all, at) = TRUE
  BY <1>3, <1>4, <1>5 DEF GoesOn
<1>8. Steady(all, p, at)
  BY <1>3, <1>4, <1>5, SteadyPart
<1>9. f = EventOf(all, p, at)
  <2>1. Len(stream) + jj - (count[c] + 1) - 1 = p - 2
    BY <1>3, <1>4, <1>5, SMTT(30)
  <2> QED BY <1>3, <1>5, <1>7, <2>1 DEF Event, EventOf
<1>10. f \in EventType
  BY <1>3, <1>5, <1>8, <1>9, EventTyped
<1>11. TypeOK'
  <2>1. events' \in Seq(EventType) /\ Seen(events) \subseteq Seen(events')
    <3>1. /\ events' \in Seq(EventType) /\ Len(events') = Len(events) + 1
          /\ \A i \in 1..Len(events) : events'[i] = events[i]
      <4>1. events \in Seq(EventType)
        BY DEF LimitInv, TypeOK
      <4> HIDE DEF f
      <4> QED BY <1>1, <1>10, <4>1, AppendProperties
    <3>2. \A i \in 1..Len(events) : i \in 1..Len(events')
      BY <3>1, CountTypes DEF LimitInv
    <3> QED BY <3>1, <3>2 DEF Seen
  <2>2. Seen(reported') \subseteq Seen(events')
    BY <1>1, <2>1 DEF LimitInv, TypeOK, reportVars
  <2>3. report' \in Nat /\ count' \in [Limits -> 0..Over]
    BY <1>1, <1>4 DEF LimitInv, TypeOK
  <2> QED BY <1>1, <1>2, <2>1, <2>2, <2>3 DEF LimitInv, TypeOK, reportVars
<1>12. CountInv'
  BY <1>6 DEF CountInv
<1>13. FreshInv'
  <2>1. Begins(all, p + Over)
    BY <1>3, <1>4, <1>5, NextPiece
  <2> QED BY <1>2, <1>5, <2>1 DEF FreshInv
<1>14. EndInv'
  BY <1>2, <1>3 DEF EndInv
<1>15. LastInv'
  BY <1>1, LastKept
<1>16. PlaceInv' /\ HeldInv'
  <2>1. \A d \in Limits : ~(count'[d] > jj')
    BY <1>1, <1>3, <1>6
  <2> QED BY <2>1 DEF PlaceInv, HeldInv
<1>17. ListInv'
  <2>1. ASSUME NEW e PROVE e \in FoundEvents' <=> e \in FoundEvents \cup {f}
    <3> DEFINE Ended2(r, j) == r < j /\ Len(stream) <= j /\ Ends(all, r, j)
    <3>1. \A r, j : Found(r, j) <=> Ended2(r, j) /\ j # at
      BY <1>3, <1>4, <1>5 DEF Found
    <3>2. \A r, j : Found(r, j)' <=> Ended2(r, j)
      BY <1>1, <1>2, <1>5, <1>6 DEF Found
    <3>3. e \in FoundEvents' <=>
            \E r \in 0..at, j \in 1..at : Ended2(r, j) /\ e = EventOf(all, r, j)
      <4> HIDE DEF Ended2
      <4> QED BY <1>2, <3>2, InFoundEventsNext
    <3>4. e \in FoundEvents <=>
            \E r \in 0..at, j \in 1..at : Ended2(r, j) /\ j # at /\ e = EventOf(all, r, j)
      <4> HIDE DEF Ended2
      <4> QED BY <3>1, InFoundEvents
    <3>5. ASSUME NEW r \in 0..at, Ended2(r, at) PROVE r = p
      <4>1. at = r + Over
        BY <1>7, <3>5 DEF Ends
      <4> HIDE DEF p
      <4> QED BY <1>3, <1>4, <1>5, <4>1
    <3>6. p \in 0..at /\ at \in 1..at /\ Ended2(p, at)
      BY <1>3, <1>4, <1>5, <1>7, <1>8 DEF Ends
    <3> HIDE DEF Ended2, f, p
    <3> QED BY <1>9, <3>3, <3>4, <3>5, <3>6
  <2>2. FoundEvents' = FoundEvents \cup {f}
    BY <2>1
  <2>3. New' = New
    <3>1. Len(events') = Len(events) + 1
      BY <1>1, <1>10, AppendProperties DEF LimitInv, TypeOK
    <3>2. Len(events) \in Nat /\ report \in Nat
      BY CountTypes DEF LimitInv
    <3> QED BY <1>1, <1>2, <3>1, <3>2 DEF New
  <2>4. \A e \in FoundEvents : e.end < f.end
    <3>1. ASSUME NEW e \in FoundEvents PROVE e.end < f.end
      <4>1. PICK r \in 0..at, j \in 1..at : Found(r, j) /\ e = EventOf(all, r, j)
        BY InFoundEvents
      <4>2. j # at
        BY <1>3, <1>4, <1>5, <4>1 DEF Found
      <4>3. e.end = j /\ f.end = at
        <5> HIDE DEF f, p
        <5> QED BY <1>9, <4>1, EventFields
      <4> HIDE DEF f
      <4> QED BY <1>3, <4>2, <4>3
    <3> QED BY <3>1
  <2>5. Listed(events, New, FoundEvents)
    BY <1>2 DEF LimitInv, ListInv
  <2>6. events \in Seq(EventType)
    BY DEF LimitInv, TypeOK
  <2>7. Listed(Append(events, f), New, FoundEvents \cup {f})
    <3> HIDE DEF f
    <3> QED BY <1>10, <2>4, <2>5, <2>6, ListedAppend
  <2> QED BY <1>1, <2>2, <2>3, <2>7 DEF ListInv
<1>18. WithdrawnInv'
  BY <1>1, <1>2, WithdrawnKept
<1> QED BY <1>2, <1>11, <1>12, <1>13, <1>14, <1>15, <1>16, <1>17, <1>18 DEF LimitInv

\* The sample belongs to the event, which goes on.
LEMMA CountStep == ASSUME LimitInv, Count PROVE LimitInv'
<1> DEFINE c == Sample
           k == count[c]
           p == at - k
<1>1. /\ jj < Len(window) /\ Sample \in Limits /\ jj' = jj + 1
      /\ UNCHANGED <<window, reportVars>> /\ UNCHANGED <<window, endVars, reportVars>>
      /\ report' = report /\ events' = events /\ withdrawn' = withdrawn
      /\ tmp' = tmp /\ lastSample' = lastSample
      /\ k + 1 <= Over /\ count' = [count EXCEPT ![c] = k + 1]
      /\ jj + 1 < Len(window) /\ window[jj + 2] = c
  <2>1. jj + 1 < Len(window) /\ jj \in Nat /\ Len(window) \in Nat
    BY PlaceFacts DEF Count, LimitInv
  <2>2. jj < Len(window)
    BY <2>1
  <2> QED BY <2>1, <2>2 DEF Count, endVars, listVars
<1>2. /\ stream' = stream /\ window' = window /\ all' = all /\ at' = at + 1
      /\ jj' \in 0..Len(window) /\ window # <<>> /\ ~Closed /\ (Ended' <=> Ended)
      /\ ReportsExact'
  BY <1>1, Round
<1>3. /\ at \in Nat /\ jj \in Nat /\ Len(stream) \in Nat /\ Len(all) \in Nat
      /\ Len(window) \in Nat /\ Len(all) = Len(stream) + Len(window)
      /\ all[at + 2] = c /\ at = Len(stream) + jj
  BY <1>1, PlaceFacts DEF LimitInv, at
<1>4. at + 1 < Len(all)
  BY <1>1, <1>3
<1>5. /\ k \in Nat /\ k <= at
      /\ c = all[at + 1] /\ Begins(all, p) /\ Steady(all, p, at + 1)
      /\ \A d \in Limits : d # c => count[d] = 0
  BY <1>1, CurrentPiece DEF LimitInv
<1>6. count'[c] = k + 1 /\ \A d \in Limits : d # c => count'[d] = 0
  BY <1>1, <1>5 DEF LimitInv, TypeOK
<1>7. TypeOK'
  <2>1. count' \in [Limits -> 0..Over]
    <3>1. k + 1 \in 0..Over
      BY <1>1, <1>5, VoltageAssumption
    <3> HIDE DEF k, c
    <3> QED BY <1>1, <3>1 DEF LimitInv, TypeOK
  <2> QED BY <1>1, <1>2, <2>1 DEF LimitInv, TypeOK, reportVars
<1>8. CountInv'
  <2>1. (at + 1) - (k + 1) = p /\ k + 1 <= at + 1 /\ all[(at + 1) + 1] = c
    <3> HIDE DEF k
    <3> QED BY <1>3, <1>5
  <2>2. ASSUME NEW d \in Limits, count'[d] > 0 PROVE d = c
    BY <1>6, <2>2
  <2> HIDE DEF p, k, c
  <2> QED BY <1>2, <1>5, <1>6, <2>1, <2>2 DEF CountInv
<1>9. FreshInv'
  <2>1. k + 1 # 0
    BY <1>5
  <2> HIDE DEF p, k, c
  <2> QED BY <1>2, <1>5, <1>6, <2>1 DEF FreshInv
<1>10. EndInv'
  BY <1>2, <1>3, <1>4 DEF EndInv
<1>11. LastInv'
  BY <1>1, LastKept
<1>12. \A d \in Limits : count'[d] > jj' => d = c /\ count[d] > jj
  BY <1>1, <1>3, <1>5, <1>6, SMTT(30)
<1>13. PlaceInv'
  <2>1. ASSUME NEW d \in Limits, count'[d] > jj'
        PROVE  lastSample' = d /\ count'[d] = jj' + tmp'[d] /\ report' = 0
    <3>1. d = c /\ lastSample = d /\ k = jj + tmp[d] /\ report = 0
      BY <1>2, <1>12, <2>1 DEF LimitInv, PlaceInv
    <3>2. tmp[d] \in Nat
      BY CountTypes DEF LimitInv
    <3>3. k + 1 = (jj + 1) + tmp[d]
      BY <1>3, <3>1, <3>2
    <3> QED BY <1>1, <1>6, <3>1, <3>3
  <2> QED BY <2>1 DEF PlaceInv
<1>14. HeldInv'
  <2>1. lastRep' = lastRep
    BY <1>1 DEF reportVars
  <2>2. \A d : HeldEvent(d)' = HeldEvent(d)
    BY <1>1, <1>2 DEF HeldEvent
  <2> QED BY <1>1, <1>2, <1>12, <2>1, <2>2 DEF LimitInv, HeldInv
<1>15. ListInv'
  <2>1. ASSUME NEW e PROVE e \in FoundEvents' <=> e \in FoundEvents
    <3>1. at + 1 < Len(all) /\ count'[all[at + 1]] # 0
      BY <1>4, <1>5, <1>6
    <3>2. Sample \in Limits /\ count[Sample] < Over
      BY <1>1, <1>5, VoltageAssumption
    <3> QED BY <1>1, <3>1, <3>2, FoundGrows
  <2>2. FoundEvents' = FoundEvents
    BY <2>1
  <2>3. New' = New
    BY <1>1, <1>2 DEF New
  <2> QED BY <1>1, <1>2, <2>2, <2>3 DEF LimitInv, ListInv
<1>16. WithdrawnInv'
  BY <1>1, <1>2, WithdrawnKept
<1> QED BY <1>2, <1>7, <1>8, <1>9, <1>10, <1>11, <1>13, <1>14, <1>15, <1>16 DEF LimitInv

\* An event of n samples in front of a sample, and that sample.
LEMMA Extent ==
  ASSUME NEW a \in Nat, NEW n \in Nat, n <= a, NEW o \in Nat \ {0},
         NEW k \in Nat, k = n + 1, k <= o, NEW p \in Int, p = (a + 1) - k
  PROVE  /\ k \in 1..o /\ p \in 0..a /\ p + k = a + 1 /\ p = a - n
         /\ a + 1 <= p + o /\ (a + 1) - p = k /\ p \in Nat /\ a + 1 \in Nat /\ p < a + 1
OBVIOUS

\* The samples of the event that ends with the sample in hand, and where it begins.
Size == count[Sample] + 1
From == (at + 1) - Size

\* That event.
LEMMA CloseFacts ==
  ASSUME LimitInv, Close
  PROVE  /\ jj < Len(window) /\ Sample \in Limits
         /\ Size \in Nat /\ Size > 0 /\ Size <= Over /\ Size = count[Sample] + 1
         /\ From \in Nat /\ From <= at /\ From + Size = at + 1
         /\ all[at + 1] = Sample /\ Begins(all, From) /\ Steady(all, From, at + 1)
         /\ GoesOn(all, at + 1) = FALSE
         /\ \A r \in 0..at : Ends(all, r, at + 1) <=> r = From /\ Labelled(Sample, Size)
         /\ Event(jj + 1, Size, Sample, FALSE) = EventOf(all, From, at + 1)
         /\ Event(jj + 1, Size, Sample, FALSE) \in EventType
         /\ \A d \in Limits : d # Sample => count[d] = 0
<1>1. /\ jj < Len(window) /\ Sample \in Limits /\ Size <= Over
      /\ jj + 1 < Len(window) => window[jj + 2] # Sample
  BY DEF Close, Size
<1>2. /\ at \in Nat /\ jj \in Nat /\ Len(stream) \in Nat /\ Len(all) \in Nat
      /\ Len(window) \in Nat /\ Len(all) = Len(stream) + Len(window)
      /\ all \in Seq(Class) /\ at < Len(all)
      /\ jj + 1 < Len(window) => window[jj + 2] = all[at + 2]
      /\ at = Len(stream) + jj
  BY <1>1, PlaceFacts DEF LimitInv, at
<1>3. /\ count[Sample] \in Nat /\ count[Sample] <= at /\ Sample = all[at + 1]
      /\ Begins(all, at - count[Sample]) /\ Steady(all, at - count[Sample], at + 1)
      /\ \A d \in Limits : d # Sample => count[d] = 0
  BY <1>1, CurrentPiece
<1>4. Over \in Nat \ {0}
  BY VoltageAssumption
<1>5. /\ Size \in 1..Over /\ From \in 0..at /\ From + Size = at + 1
      /\ From = at - count[Sample] /\ at + 1 <= From + Over /\ (at + 1) - From = Size
      /\ From \in Nat /\ at + 1 \in Nat /\ From < at + 1
  <2> DEFINE n == count[Sample]
             a == at
  <2>1. /\ n \in Nat /\ n <= a /\ Size = n + 1 /\ a \in Nat /\ From = (a + 1) - Size
        /\ Size <= Over /\ Over \in Nat \ {0} /\ Size \in Nat /\ From \in Int
    BY <1>1, <1>2, <1>3, <1>4, SMTT(30) DEF Size, From
  <2> HIDE DEF n, a
  <2>2. /\ Size \in 1..Over /\ From \in 0..a /\ From + Size = a + 1 /\ From = a - n
        /\ a + 1 <= From + Over /\ (a + 1) - From = Size /\ From \in Nat
        /\ a + 1 \in Nat /\ From < a + 1
    BY <2>1, Extent
  <2> QED BY <2>2 DEF n, a
<1>6. Begins(all, From) /\ Steady(all, From, at + 1)
  BY <1>3, <1>5
<1>7. GoesOn(all, at + 1) = FALSE
  <2>1. at + 1 < Len(all) => all[(at + 1) + 1] # Sample
    <3>1. (at + 1) + 1 = at + 2 /\ (at + 1 < Len(all) <=> jj + 1 < Len(window))
      BY <1>2
    <3> QED BY <1>1, <1>2, <3>1
  <2> QED BY <1>2, <1>3, <2>1 DEF GoesOn
<1>8. ASSUME NEW r \in 0..at PROVE Ends(all, r, at + 1) <=> r = From /\ Labelled(Sample, Size)
  <2>1. ASSUME Ends(all, r, at + 1) PROVE r = From /\ Labelled(Sample, Size)
    <3>1. /\ Begins(all, r) /\ Steady(all, r, at + 1) /\ at + 1 <= r + Over
          /\ Labelled(Sample, (at + 1) - r)
      BY <1>3, <1>7, <2>1 DEF Ends
    <3>2. r \in Nat /\ r < at + 1
      BY <1>2
    <3>3. r = From
      BY <1>2, <1>5, <1>6, <3>1, <3>2, OnePiece
    <3> QED BY <1>5, <3>1, <3>3
  <2>2. ASSUME r = From, Labelled(Sample, Size) PROVE Ends(all, r, at + 1)
    BY <1>3, <1>5, <1>6, <1>7, <2>2 DEF Ends
  <2> QED BY <2>1, <2>2
<1>9. Event(jj + 1, Size, Sample, FALSE) = EventOf(all, From, at + 1)
  <2>1. Len(stream) + (jj + 1) = at + 1
    BY <1>2
  <2>2. Len(stream) + (jj + 1) - Size - 1 = From - 1
    <3> DEFINE b == Len(stream)
    <3>1. /\ b \in Nat /\ b + (jj + 1) = at + 1 /\ From + Size = at + 1 /\ jj \in Nat
          /\ Size \in Nat /\ From \in Nat
      BY <1>2, <1>5, <2>1
    <3> HIDE DEF b
    <3>2. b + (jj + 1) - Size - 1 = From - 1
      BY <3>1
    <3> QED BY <3>2 DEF b
  <2> QED BY <1>3, <1>7, <2>1, <2>2 DEF Event, EventOf
<1>10. EventOf(all, From, at + 1) \in EventType
  BY <1>2, <1>5, <1>6, EventTyped
<1>11. Size \in Nat /\ Size > 0 /\ Size <= Over /\ From <= at
  BY <1>2, <1>4, <1>5
<1>12. Size = count[Sample] + 1
  BY DEF Size
<1> QED BY <1>1, <1>3, <1>5, <1>6, <1>7, <1>8, <1>9, <1>10, <1>11, <1>12

\* The event began in an earlier window: what was found of it there is the last of the list,
\* and has not been reported.
LEMMA ContinuesFacts ==
  ASSUME LimitInv, Close, Continues(Sample, jj + 1, Size)
  PROVE  /\ events # <<>> /\ events[Len(events)] = HeldEvent(Sample)
         /\ report = 0 /\ ~Ended /\ Len(stream) > 0 /\ GoesOn(all, Len(stream))
<1> DEFINE b == Len(stream)
<1>1. /\ jj < Len(window) /\ Sample \in Limits /\ Size \in Nat /\ Size = count[Sample] + 1
      /\ From \in Nat /\ From <= at /\ From + Size = at + 1
      /\ all[at + 1] = Sample /\ Steady(all, From, at + 1)
  BY CloseFacts
<1>2. /\ jj < Len(window) /\ b \in Nat /\ jj \in Nat /\ at = b + jj /\ Len(all) \in Nat
      /\ all \in Seq(Class) /\ Len(window) \in Nat /\ window # <<>>
      /\ Len(all) = b + Len(window) /\ \A i \in 1..Len(window) : all[b + i] = window[i]
      /\ Prefix(stream, all) /\ tmp[Sample] \in Nat
  BY <1>1, PlaceFacts, CountTypes DEF LimitInv, at
<1>3. ((jj + 1) - Size) + tmp[Sample] = 0 /\ lastSample = Sample /\ Labelled(Sample, tmp[Sample])
  BY DEF Continues
<1>4. ~Closed /\ Sample # "none" /\ Sample # "ok"
  <2>1. jj # Len(window)
    BY <1>2
  <2>2. Sample # "none" /\ Sample # "ok"
    BY <1>1 DEF Limits
  <2> QED BY <2>1, <2>2 DEF Closed
<1>5. /\ b > 0 /\ stream[b] = Sample /\ tmp[Sample] > 0 /\ lastRep /\ lastVal = Sample
  <2>1. LastInv
    BY DEF LimitInv
  <2>2. /\ lastSample = IF b = 0 \/ stream[b] = "ok" THEN "none" ELSE stream[b]
        /\ lastRep <=> HeldBack(Sample)
        /\ tmp[Sample] > 0 /\ b > 0 => lastVal = stream[b]
    BY <1>3, <1>4, <2>1 DEF LastInv
  <2>3. b > 0 /\ stream[b] = Sample
    BY <1>2, <1>3, <1>4, <2>2
  <2> QED BY <1>3, <1>4, <2>1, <2>2, <2>3 DEF HeldBack, LastInv
<1>6. count[Sample] > jj
  <2> DEFINE n == count[Sample]
             v == tmp[Sample]
  <2>1. /\ n \in Nat /\ v \in Nat /\ v > 0 /\ ((jj + 1) - Size) + v = 0 /\ Size = n + 1
        /\ jj \in Nat
    BY <1>1, <1>2, <1>3, <1>5, CountTypes DEF LimitInv
  <2> HIDE DEF n, v
  <2>2. n > jj
    BY <2>1
  <2> QED BY <2>2 DEF n
<1>7. report = 0
  BY <1>1, <1>2, <1>4, <1>6 DEF LimitInv, PlaceInv
<1>8. events # <<>> /\ events[Len(events)] = HeldEvent(Sample)
  BY <1>1, <1>4, <1>5, <1>6 DEF LimitInv, HeldInv
<1>9. all[b + 1] = Sample
  <2>1. b + 1 \in (From + 1)..(at + 1)
    <3> HIDE DEF b
    <3>1. From + Size = b + jj + 1
      BY <1>1, <1>2
    <3>2. From + tmp[Sample] = b
      <4> DEFINE v == tmp[Sample]
      <4>1. v \in Nat /\ ((jj + 1) - Size) + v = 0
        BY <1>2, <1>3
      <4>2. jj \in Nat /\ Size \in Nat /\ From \in Nat /\ b \in Nat
        BY <1>1, <1>2
      <4> HIDE DEF v
      <4>3. From + v = b
        BY <3>1, <4>1, <4>2
      <4> QED BY <4>3 DEF v
    <3> QED BY <1>1, <1>2, <1>5, <3>2
  <2> HIDE DEF b
  <2> QED BY <1>1, <2>1 DEF Steady
<1>10. window[1] = Sample
  <2>1. 1 \in 1..Len(window)
    BY <1>2
  <2> QED BY <1>2, <1>9, <2>1
<1>11. ~Ended
  BY <1>5, <1>10 DEF Ended
<1>12. GoesOn(all, b)
  <2>1. all[b] = Sample
    BY <1>2, <1>5, SMTT(30) DEF Prefix
  <2>2. b < Len(all)
    BY <1>2
  <2> QED BY <1>9, <2>1, <2>2 DEF GoesOn
<1> QED BY <1>5, <1>7, <1>8, <1>11, <1>12

\* The list when an event ends: the event is entered, behind the others or in place of what
\* was found of it before.
LEMMA CloseList == ASSUME LimitInv, Close, report' \in Nat PROVE ListInv'
<1> DEFINE f == Event(jj + 1, Size, Sample, FALSE)
<1>1. /\ jj < Len(window) /\ Sample \in Limits /\ Size <= Over /\ Size = count[Sample] + 1
      /\ f = EventOf(all, From, at + 1) /\ f \in EventType /\ From \in Nat /\ From <= at
      /\ all[at + 1] = Sample
      /\ \A r \in 0..at : Ends(all, r, at + 1) <=> r = From /\ Labelled(Sample, Size)
  BY CloseFacts
<1>2. jj' = jj + 1 /\ UNCHANGED <<window, reportVars>>
  BY DEF Close
<1>3. /\ stream' = stream /\ window' = window /\ all' = all /\ at' = at + 1 /\ window # <<>>
      /\ (Ended' <=> Ended)
  BY <1>1, <1>2, Round
<1>4. at \in Nat /\ at < Len(all) /\ Len(window) \in Nat /\ jj \in Nat /\ Len(stream) \in Nat
      /\ Len(all) = Len(stream) + Len(window) /\ at = Len(stream) + jj
  BY <1>1, PlaceFacts DEF LimitInv, at
<1>5. events \in Seq(EventType) /\ Len(events) \in Nat /\ report \in Nat
      /\ Listed(events, New, FoundEvents)
  BY <1>3, CountTypes DEF LimitInv, TypeOK, ListInv
<1>6. at + 1 < Len(all) => count'[Sample] = 0
  <2>1. at + 1 < Len(all) <=> jj + 1 # Len(window)
    BY <1>1, <1>4
  <2>2. count' = [count EXCEPT ![Sample] = IF jj + 1 = Len(window) THEN Size ELSE 0]
    BY DEF Close, Size
  <2>3. count \in [Limits -> 0..Over]
    BY DEF LimitInv, TypeOK
  <2> QED BY <1>1, <2>1, <2>2, <2>3
<1>7. ASSUME NEW e
      PROVE  e \in FoundEvents' <=> e \in FoundEvents \/ (Labelled(Sample, Size) /\ e = f)
  <2>1. Sample \in Limits /\ count[Sample] < Over
    <3>1. count[Sample] \in Nat /\ Over \in Nat
      BY <1>1, CountTypes DEF LimitInv
    <3> QED BY <1>1, <3>1
  <2>2. e \in FoundEvents' <=>
           \/ e \in FoundEvents
           \/ \E p \in 0..at : /\ Ends(all, p, at + 1)
                               /\ at + 1 < Len(all) => count'[all[at + 1]] = 0
                               /\ e = EventOf(all, p, at + 1)
    BY <1>1, <1>2, <2>1, FoundGrows
  <2>3. (\E p \in 0..at : /\ Ends(all, p, at + 1)
                          /\ at + 1 < Len(all) => count'[all[at + 1]] = 0
                          /\ e = EventOf(all, p, at + 1))
          <=> Labelled(Sample, Size) /\ e = f
    <3>1. From \in 0..at
      BY <1>1, <1>4
    <3> HIDE DEF f
    <3> QED BY <1>1, <1>6, <3>1
  <2> QED BY <2>2, <2>3
<1>8. CASE ~Labelled(Sample, Size)
  <2>1. events' = events /\ report' = report
    BY <1>8 DEF Close, Size, listVars
  <2>2. FoundEvents' = FoundEvents
    BY <1>7, <1>8
  <2>3. New' = New
    BY <1>3, <2>1 DEF New
  <2> QED BY <1>5, <2>1, <2>2, <2>3 DEF ListInv
<1>9. CASE Labelled(Sample, Size) /\ ~Continues(Sample, jj + 1, Size)
  <2>1. events' = Append(events, f) /\ report' = report + 1
    BY <1>9 DEF Close, Size
  <2>2. FoundEvents' = FoundEvents \cup {f}
    <3> HIDE DEF f
    <3> QED BY <1>7, <1>9
  <2>3. New' = New
    <3> HIDE DEF f
    <3>1. Len(events') = Len(events) + 1
      BY <1>1, <1>5, <2>1, AppendProperties
    <3> QED BY <1>3, <1>5, <2>1, <3>1 DEF New
  <2>4. ASSUME NEW e \in FoundEvents PROVE e.end < f.end
    <3>1. PICK p \in 0..at, j \in 1..at : Found(p, j) /\ e = EventOf(all, p, j)
      BY InFoundEvents
    <3> HIDE DEF f
    <3>2. e.end = j
      BY <3>1, EventFields
    <3>3. f.end = at + 1
      BY <1>1, EventFields
    <3> QED BY <1>4, <3>2, <3>3
  <2>5. Listed(Append(events, f), New, FoundEvents \cup {f})
    <3> HIDE DEF f
    <3> QED BY <1>1, <1>5, <2>4, ListedAppend
  <2> QED BY <2>1, <2>2, <2>3, <2>5 DEF ListInv
<1>10. CASE Labelled(Sample, Size) /\ Continues(Sample, jj + 1, Size)
  <2>1. events' = Append(Front(events), f) /\ report' = report + 1
    BY <1>10 DEF Close, Size
  <2>2. events # <<>> /\ report = 0 /\ ~Ended
    BY <1>10, ContinuesFacts
  <2>3. New = Len(events)
    BY <1>5, <2>2 DEF New
  <2>4. FoundEvents = {}
    BY <1>5, <2>3, ListedAll
  <2>5. FoundEvents' = {f}
    <3> HIDE DEF f
    <3> QED BY <1>7, <1>10, <2>4
  <2> DEFINE q == Front(events)
  <2>6. q \in Seq(EventType) /\ Len(q) = Len(events) - 1 /\ Len(q) \in Nat
    BY <1>5, <2>2, FrontFacts
  <2>7. Len(events') = Len(events)
    <3> HIDE DEF f, q
    <3>1. events' = Append(q, f)
      BY <2>1 DEF q
    <3>2. Len(events') = Len(q) + 1
      BY <1>1, <2>6, <3>1, AppendProperties
    <3> QED BY <1>5, <2>6, <3>2
  <2>8. New' = Len(q)
    <3> HIDE DEF q
    <3> QED BY <1>3, <1>5, <2>1, <2>2, <2>6, <2>7 DEF New
  <2>9. Listed(Append(q, f), Len(q), {} \cup {f})
    <3> HIDE DEF f, q
    <3>1. Listed(q, Len(q), {})
      BY <2>6, ListedNone
    <3> QED BY <1>1, <2>6, <3>1, ListedAppend
  <2>10. {} \cup {f} = {f}
    OBVIOUS
  <2> HIDE DEF f
  <2> QED BY <2>1, <2>5, <2>8, <2>9, <2>10 DEF ListInv
<1> QED BY <1>8, <1>9, <1>10

\* What has been reported stays in the list, and what is withdrawn goes on.
LEMMA CloseTypes ==
  ASSUME LimitInv, Close
  PROVE  /\ events' \in Seq(EventType) /\ withdrawn' \subseteq EventType
         /\ Seen(reported) \subseteq Seen(events') /\ WithdrawnInv'
<1> DEFINE f == Event(jj + 1, Size, Sample, FALSE)
<1>1. jj < Len(window) /\ Sample \in Limits /\ f \in EventType
  BY CloseFacts
<1>2. jj' = jj + 1 /\ UNCHANGED <<window, reportVars>>
  BY DEF Close
<1>3. all' = all
  BY <1>1, <1>2, Round
<1>4. /\ events \in Seq(EventType) /\ Len(events) \in Nat /\ withdrawn \subseteq EventType
      /\ Seen(reported) \subseteq Seen(events) /\ WithdrawnInv
  BY CountTypes DEF LimitInv, TypeOK
<1>5. CASE ~Labelled(Sample, Size)
  <2>1. events' = events /\ withdrawn' = withdrawn
    BY <1>5 DEF Close, Size, listVars
  <2> QED BY <1>3, <1>4, <2>1 DEF WithdrawnInv
<1>6. CASE Labelled(Sample, Size) /\ ~Continues(Sample, jj + 1, Size)
  <2>1. events' = Append(events, f) /\ withdrawn' = withdrawn
    BY <1>6 DEF Close, Size
  <2>2. /\ events' \in Seq(EventType) /\ Len(events') = Len(events) + 1
        /\ \A i \in 1..Len(events) : events'[i] = events[i]
    <3> HIDE DEF f
    <3> QED BY <1>1, <1>4, <2>1, AppendProperties
  <2>3. \A i \in 1..Len(events) : i \in 1..Len(events')
    BY <1>4, <2>2
  <2>4. Seen(events) \subseteq Seen(events')
    BY <2>2, <2>3 DEF Seen
  <2>5. WithdrawnInv'
    BY <1>3, <1>4, <2>1 DEF WithdrawnInv
  <2> QED BY <1>4, <2>1, <2>2, <2>4, <2>5
<1>7. CASE Labelled(Sample, Size) /\ Continues(Sample, jj + 1, Size)
  <2> DEFINE q == Front(events)
             n == Len(events)
             e == events[n]
  <2>1. events' = Append(q, f) /\ withdrawn' = withdrawn \cup {e}
    BY <1>7 DEF Close, Size
  <2>2. /\ events # <<>> /\ e = HeldEvent(Sample) /\ Len(stream) > 0
        /\ GoesOn(all, Len(stream))
    BY <1>7, ContinuesFacts
  <2>3. /\ q \in Seq(EventType) /\ Len(q) = n - 1 /\ n \in Nat \ {0} /\ e \in EventType
        /\ \A i \in 1..(n - 1) : q[i] = events[i]
    BY <1>4, <2>2, FrontFacts
  <2>4. /\ events' \in Seq(EventType) /\ Len(events') = Len(q) + 1
        /\ \A i \in 1..Len(q) : events'[i] = q[i]
    <3> HIDE DEF f, q, n, e
    <3> QED BY <1>1, <2>1, <2>3, AppendProperties
  <2>5. e.end = Len(stream) /\ ~e.sustained
    <3> HIDE DEF e
    <3> QED BY <2>2 DEF HeldEvent
  <2>6. ASSUME NEW x \in Seen(reported) PROVE x \in Seen(events')
    <3>1. PICK i \in 1..n : x = events[i]
      BY <1>4 DEF Seen
    <3>2. x.end # Len(stream)
      <4>1. x \in EventsOf(stream)
        BY DEF LimitInv, ReportsExact
      <4>2. PICK p \in 0..Len(stream), j \in 1..(Len(stream) - 1) : x = EventOf(stream, p, j)
        BY <4>1, InEventsOf
      <4>3. x.end = j
        BY <4>2, EventFields
      <4>4. Len(stream) \in Nat
        BY PlaceFacts DEF LimitInv
      <4> QED BY <4>3, <4>4
    <3>3. i # n
      BY <2>5, <3>1, <3>2
    <3> HIDE DEF q, n, e
    <3>4. i \in 1..(n - 1) /\ i \in 1..Len(q) /\ i \in 1..Len(events')
      BY <2>3, <2>4, <3>3
    <3>5. events'[i] = x
      BY <2>3, <2>4, <3>1, <3>4
    <3> QED BY <3>4, <3>5 DEF Seen
  <2>7. WithdrawnInv'
    <3>1. ASSUME NEW x \in withdrawn' PROVE ~x.sustained /\ x.end > 0 /\ GoesOn(all', x.end)
      <4>1. CASE x \in withdrawn
        BY <1>3, <1>4, <4>1 DEF WithdrawnInv
      <4>2. CASE x = e
        <5> HIDE DEF e
        <5> QED BY <1>3, <2>2, <2>5, <4>2
      <4> QED BY <2>1, <4>1, <4>2
    <3> QED BY <3>1 DEF WithdrawnInv
  <2>8. withdrawn' \subseteq EventType
    BY <1>4, <2>1, <2>3
  <2> QED BY <2>4, <2>6, <2>7, <2>8
<1> QED BY <1>5, <1>6, <1>7

\* An event ends, or reaches the end of the window.
LEMMA CloseStep == ASSUME LimitInv, Close PROVE LimitInv'
<1> DEFINE atEnd == jj + 1 = Len(window)
<1>1. /\ jj < Len(window) /\ Sample \in Limits
      /\ Size \in Nat /\ Size > 0 /\ Size <= Over /\ From \in Nat /\ From + Size = at + 1
      /\ all[at + 1] = Sample /\ Begins(all, From) /\ Steady(all, From, at + 1)
      /\ GoesOn(all, at + 1) = FALSE
      /\ \A d \in Limits : d # Sample => count[d] = 0
  BY CloseFacts
<1>2. /\ jj' = jj + 1 /\ UNCHANGED <<window, reportVars>>
      /\ count' = [count EXCEPT ![Sample] = IF atEnd THEN Size ELSE 0]
      /\ tmp' = IF atEnd THEN [tmp EXCEPT ![Sample] = Size] ELSE tmp
      /\ lastSample' = IF atEnd THEN Sample ELSE lastSample
  BY DEF Close, Size
<1>3. /\ stream' = stream /\ window' = window /\ all' = all /\ at' = at + 1
      /\ jj' \in 0..Len(window) /\ window # <<>> /\ ReportsExact'
  BY <1>1, <1>2, Round
<1>4. /\ at \in Nat /\ jj \in Nat /\ Len(stream) \in Nat /\ Len(all) \in Nat
      /\ Len(window) \in Nat /\ Len(all) = Len(stream) + Len(window)
      /\ at = Len(stream) + jj
      /\ window[jj + 1] = Sample
  BY PlaceFacts DEF LimitInv, at, Sample
<1>5. at + 1 = Len(all) <=> atEnd
  BY <1>4
<1>6. count \in [Limits -> 0..Over] /\ tmp \in [Limits -> 0..Over] /\ Over \in Nat
  BY VoltageAssumption DEF LimitInv, TypeOK
<1>7. /\ \A d \in Limits : d # Sample => count'[d] = 0
      /\ atEnd => count'[Sample] = Size /\ tmp'[Sample] = Size /\ lastSample' = Sample
      /\ ~atEnd => count'[Sample] = 0 /\ UNCHANGED endVars
  BY <1>1, <1>2, <1>6 DEF endVars
<1>8. atEnd <=> Closed'
  <2>1. Sample # "ok"
    BY <1>1 DEF Limits
  <2>2. Closed' <=> jj + 1 = Len(window) /\ window[jj + 1] # "ok"
    BY <1>2, <1>3 DEF Closed
  <2> QED BY <1>4, <2>1, <2>2
<1>9. report' \in Nat
  <2>1. report \in Nat /\ (report' = report + 1 \/ report' = report)
    BY DEF LimitInv, TypeOK, Close
  <2> QED BY <2>1
<1>10. TypeOK'
  <2>1. /\ events' \in Seq(EventType) /\ withdrawn' \subseteq EventType
        /\ Seen(reported) \subseteq Seen(events')
    BY CloseTypes
  <2>2. count' \in [Limits -> 0..Over] /\ tmp' \in [Limits -> 0..Over]
    <3>1. Size \in 0..Over /\ 0 \in 0..Over
      BY <1>1, <1>6
    <3>2. (IF atEnd THEN Size ELSE 0) \in 0..Over
      BY <3>1
    <3>3. [tmp EXCEPT ![Sample] = Size] \in [Limits -> 0..Over]
      BY <1>6, <3>1
    <3> HIDE DEF atEnd
    <3> QED BY <1>2, <1>6, <3>2, <3>3
  <2>3. lastSample' \in Limits \cup {"none"}
    BY <1>1, <1>2 DEF LimitInv, TypeOK
  <2>4. /\ window' = <<>> \/ window' \in [1..Window -> Class]
        /\ jj' \in 0..Len(window')
        /\ reported' \in Seq(EventType) /\ lastRep' \in BOOLEAN /\ lastVal' \in Class
        /\ stream' \in Seq(Class) /\ reported' = reported
    BY <1>2, <1>3 DEF LimitInv, TypeOK, reportVars
  <2> QED BY <1>9, <2>1, <2>2, <2>3, <2>4 DEF TypeOK
<1>11. CountInv'
  <2>1. ASSUME NEW d \in Limits, count'[d] > 0
        PROVE  /\ count'[d] <= at + 1
               /\ Begins(all, (at + 1) - count'[d]) /\ Steady(all, (at + 1) - count'[d], at + 1)
               /\ all[at + 1] = d
               /\ at + 1 < Len(all) => all[(at + 1) + 1] = d
    <3>1. d = Sample
      BY <1>7, <2>1
    <3>2. atEnd /\ count'[d] = Size
      BY <1>7, <2>1, <3>1
    <3>3. (at + 1) - Size = From /\ Size <= at + 1
      BY <1>1, <1>4
    <3> QED BY <1>1, <1>4, <1>5, <3>1, <3>2, <3>3
  <2> QED BY <1>3, <2>1 DEF CountInv
<1>12. FreshInv'
  BY <1>1, <1>3 DEF FreshInv
<1>13. EndInv'
  BY <1>1, <1>3, <1>5, <1>7 DEF EndInv
<1>14. LastInv'
  <2>1. CASE ~atEnd
    BY <1>1, <1>2, <1>7, <2>1, LastKept
  <2>2. CASE atEnd
    <3>1. lastVal' = lastVal
      BY <1>2 DEF reportVars
    <3>2. Len(stream') > 0 => lastVal' = stream'[Len(stream')]
      BY <1>3, <3>1 DEF LimitInv, LastInv
    <3> QED BY <1>8, <2>2, <3>2 DEF LastInv
  <2> QED BY <2>1, <2>2
<1>15. PlaceInv' /\ HeldInv'
  <2>1. ~Closed' => \A d \in Limits : ~(count'[d] > jj')
    BY <1>2, <1>4, <1>7, <1>8
  <2> QED BY <2>1 DEF PlaceInv, HeldInv
<1>16. ListInv'
  BY <1>9, CloseList
<1>17. WithdrawnInv'
  BY CloseTypes
<1> QED BY <1>3, <1>10, <1>11, <1>12, <1>13, <1>14, <1>15, <1>16, <1>17 DEF LimitInv

-----------------------------------------------------------------------------
\* The beginning and the end of a window

\* Between two windows: the event with which the last one ended.
LEMMA Between ==
  ASSUME LimitInv, window = <<>>
  PROVE  /\ all = stream /\ jj = 0 /\ at = Len(stream) /\ ~Closed
         /\ \A d \in Limits : count[d] > 0 =>
              /\ Len(stream) > 0 /\ stream[Len(stream)] = d /\ count[d] <= Len(stream)
              /\ Begins(stream, Len(stream) - count[d])
              /\ Steady(stream, Len(stream) - count[d], Len(stream))
         /\ \A d \in Limits : (Len(stream) > 0 /\ stream[Len(stream)] = d) =>
              /\ count[d] > 0 /\ lastSample = d /\ tmp[d] = count[d] /\ lastVal = d
              /\ lastRep <=> Labelled(d, tmp[d])
              /\ lastRep => events # <<>> /\ events[Len(events)] = HeldEvent(d)
         /\ (Len(stream) > 0 => stream[Len(stream)] \notin Limits) => ~lastRep
<1> DEFINE b == Len(stream)
<1>1. all = stream /\ jj = 0 /\ at = b /\ b \in Nat
  BY PlaceFacts DEF LimitInv, at
<1>2. ~Closed
  BY DEF Closed
<1>3. ASSUME NEW d \in Limits, count[d] > 0
      PROVE  /\ b > 0 /\ stream[b] = d /\ count[d] <= b
             /\ Begins(stream, b - count[d]) /\ Steady(stream, b - count[d], b)
  <2>1. /\ count[d] <= b /\ Begins(stream, b - count[d]) /\ Steady(stream, b - count[d], b)
        /\ stream[b] = d
    BY <1>1, <1>3 DEF LimitInv, CountInv
  <2>2. count[d] \in Nat
    BY CountTypes DEF LimitInv
  <2> QED BY <1>1, <1>3, <2>1, <2>2
<1>4. /\ b > 0 => lastVal = stream[b]
      /\ lastSample = IF b = 0 \/ stream[b] = "ok" THEN "none" ELSE stream[b]
      /\ lastRep <=> HeldBack(lastSample)
  BY <1>2 DEF LimitInv, LastInv
<1>5. ASSUME NEW d \in Limits, b > 0 /\ stream[b] = d
      PROVE  /\ count[d] > 0 /\ lastSample = d /\ tmp[d] = count[d] /\ lastVal = d
             /\ lastRep <=> Labelled(d, tmp[d])
             /\ lastRep => events # <<>> /\ events[Len(events)] = HeldEvent(d)
  <2>1. count[d] > 0 /\ lastSample = d /\ tmp[d] = count[d]
    BY <1>1, <1>5 DEF LimitInv, EndInv
  <2>2. d # "none"
    BY DEF Limits
  <2>3. lastRep <=> Labelled(d, tmp[d])
    BY <1>4, <2>1, <2>2 DEF HeldBack
  <2>4. lastRep => events # <<>> /\ events[Len(events)] = HeldEvent(d)
    BY <1>1, <1>2, <2>1 DEF LimitInv, HeldInv
  <2> QED BY <1>4, <1>5, <2>1, <2>3, <2>4
<1>6. ASSUME b > 0 => stream[b] \notin Limits PROVE ~lastRep
  <2>1. b = 0 \/ stream[b] = "ok"
    <3>1. b > 0 => b \in 1..Len(stream)
      BY <1>1
    <3>2. b > 0 => stream[b] \in Class
      BY <3>1, PlaceFacts, ElementOfSeq DEF LimitInv
    <3> QED BY <1>1, <1>6, <3>2 DEF Class
  <2> QED BY <1>4, <2>1 DEF HeldBack
<1> QED BY <1>1, <1>2, <1>3, <1>5, <1>6

\* A window of samples.
LEMMA WindowFacts ==
  ASSUME NEW w \in [1..Window -> Class], TypeOK
  PROVE  /\ w \in Seq(Class) /\ Len(w) = Window /\ Window \in Nat \ {0} /\ w # <<>>
         /\ stream \o w \in Seq(Class) /\ Len(stream \o w) = Len(stream) + Window
         /\ Prefix(stream, stream \o w) /\ Len(stream) \in Nat
         /\ (stream \o w)[Len(stream) + 1] = w[1]
<1>1. Window \in Nat \ {0}
  BY VoltageAssumption
<1>2. w \in Seq(Class)
  BY <1>1, SeqDef
<1>3. Len(w) = Window
  BY <1>1, <1>2, LenProperties
<1>4. w # <<>>
  BY <1>1, <1>2, <1>3, EmptySeq
<1>5. stream \in Seq(Class)
  BY DEF TypeOK
<1>6. 1 \in 1..Len(w)
  BY <1>1, <1>3
<1> QED BY <1>1, <1>2, <1>3, <1>4, <1>5, <1>6, ConcatFacts

\* The list at the beginning of a window: the event held back is due when it does not go on.
LEMMA StartList == ASSUME LimitInv, NEW w \in [1..Window -> Class], Start(w) PROVE ListInv'
<1> DEFINE b == Len(stream)
           r == stream \o w
<1>1. /\ window = <<>> /\ window' = w /\ jj' = 0 /\ report' = 0 /\ stream' = stream
      /\ count' = [d \in Limits |-> IF w[1] = d THEN count[d] ELSE 0]
      /\ events' = events /\ lastRep' = lastRep /\ lastVal' = lastVal /\ lastSample' = lastSample
      /\ tmp' = tmp
  BY DEF Start, Kept, endVars, listVars, reportVars
<1>2. /\ w # <<>> /\ r \in Seq(Class) /\ Len(r) \in Nat /\ b < Len(r) /\ Prefix(stream, r)
      /\ b \in Nat /\ r[b + 1] = w[1] /\ stream \in Seq(Class)
  <2>1. /\ w # <<>> /\ r \in Seq(Class) /\ Len(r) = b + Window /\ Window \in Nat \ {0}
        /\ Prefix(stream, r) /\ b \in Nat /\ r[b + 1] = w[1]
    BY WindowFacts DEF LimitInv
  <2>2. stream \in Seq(Class)
    BY DEF LimitInv, TypeOK
  <2> HIDE DEF b, r
  <2>3. Len(r) \in Nat /\ b < Len(r)
    BY <2>1
  <2> QED BY <2>1, <2>2, <2>3
<1>3. all' = r /\ at' = b
  BY <1>1, <1>2 DEF all, at
<1>4. ASSUME NEW e
      PROVE  e \in FoundEvents' <=>
               \E p \in 0..b : /\ b > 0 /\ p < b /\ Ends(r, p, b) /\ count'[r[b]] = 0
                               /\ e = EventOf(r, p, b)
  <2>1. \A p, j : Found(p, j)' <=> /\ p < j /\ b <= j /\ Ends(r, p, j)
                                   /\ j = b => count'[r[b]] = 0
    <3> HIDE DEF b, r
    <3>1. stream' = stream /\ b < Len(r)
      BY <1>1, <1>2
    <3> QED BY <1>3, <3>1 DEF Found, b
  <2>2. e \in FoundEvents' <=>
          \E p \in 0..b, j \in 1..b : Found(p, j)' /\ e = EventOf(r, p, j)
    <3> HIDE DEF b, r
    <3> QED BY <1>3, InFoundEventsNext
  <2>3. \A j \in 1..b : b <= j => j = b
    BY <1>2
  <2>4. b > 0 => b \in 1..b
    BY <1>2
  <2>5. \A j \in 1..b : b > 0
    BY <1>2
  <2>6. b <= b
    BY <1>2
  <2> HIDE DEF b, r
  <2>7. ASSUME e \in FoundEvents'
        PROVE  \E p \in 0..b : /\ b > 0 /\ p < b /\ Ends(r, p, b) /\ count'[r[b]] = 0
                               /\ e = EventOf(r, p, b)
    <3>1. PICK p \in 0..b, j \in 1..b : Found(p, j)' /\ e = EventOf(r, p, j)
      BY <2>2, <2>7
    <3>2. j = b /\ b > 0
      BY <2>1, <2>3, <2>5, <3>1
    <3> QED BY <2>1, <3>1, <3>2
  <2>8. ASSUME NEW p \in 0..b, b > 0, p < b, Ends(r, p, b), count'[r[b]] = 0,
               e = EventOf(r, p, b)
        PROVE  e \in FoundEvents'
    BY <2>1, <2>2, <2>4, <2>6, <2>8
  <2> QED BY <2>7, <2>8
<1>5. b > 0 => r[b] = stream[b]
  <2>1. b > 0 => b \in 1..Len(stream)
    BY <1>2
  <2> QED BY <1>2, <2>1 DEF Prefix
<1>6. Len(events) \in Nat /\ events \in Seq(EventType)
  BY CountTypes DEF LimitInv, TypeOK
<1>7. Ended' <=> lastRep /\ lastVal # "ok" /\ w[1] # lastVal
  BY <1>1 DEF Ended
<1>8. CASE ~(b > 0 /\ stream[b] \in Limits)
  <2>1. FoundEvents' = {}
    <3>1. \A p : ~(b > 0 /\ Ends(r, p, b))
      BY <1>5, <1>8 DEF Ends, Steady
    <3> QED BY <1>4, <3>1
  <2>2. ~lastRep
    BY <1>1, <1>8, Between
  <2>3. New' = Len(events)
    BY <1>1, <1>6, <1>7, <2>2 DEF New
  <2>4. Listed(events, Len(events), {})
    BY <1>6, ListedNone
  <2> QED BY <1>1, <2>1, <2>3, <2>4 DEF ListInv
<1>9. CASE b > 0 /\ stream[b] \in Limits
  <2> DEFINE c == stream[b]
             p == b - tmp[c]
  <2>1. /\ count[c] > 0 /\ lastSample = c /\ tmp[c] = count[c] /\ lastVal = c
        /\ lastRep <=> Labelled(c, tmp[c])
        /\ lastRep => events # <<>> /\ events[Len(events)] = HeldEvent(c)
        /\ count[c] <= b /\ Begins(stream, b - count[c]) /\ Steady(stream, b - count[c], b)
    BY <1>1, <1>9, Between
  <2>2. count[c] \in Nat /\ count[c] <= Over /\ Over \in Nat
    BY <1>9, CountTypes DEF LimitInv
  <2>3. p \in 0..b /\ p \in Nat /\ p < b /\ b <= p + Over /\ p + 1 <= b /\ b - p = tmp[c]
    <3> DEFINE v == tmp[c]
    <3>1. v \in Nat /\ v > 0 /\ v <= b /\ v <= Over
      BY <2>1, <2>2
    <3> HIDE DEF v, b
    <3>2. /\ b - v \in 0..b /\ b - v \in Nat /\ b - v < b /\ b <= (b - v) + Over
          /\ (b - v) + 1 <= b /\ b - (b - v) = v
      BY <1>2, <2>2, <3>1
    <3> QED BY <3>2 DEF v
  <2>4. Begins(r, p) /\ Steady(r, p, b)
    <3>1. Begins(stream, p) /\ Steady(stream, p, b)
      BY <2>1
    <3>2. b \in 1..Len(stream)
      BY <1>2, <1>9
    <3> HIDE DEF r, p
    <3> QED BY <1>2, <2>3, <3>1, <3>2, BeginsPrefix, SteadyPrefix
  <2>5. r[b] = c /\ c # "ok"
    BY <1>5, <1>9 DEF Limits
  <2>6. CASE w[1] = c
    <3>1. count'[c] > 0
      BY <1>1, <1>9, <2>1, <2>6
    <3>2. FoundEvents' = {}
      <4>1. count'[r[b]] # 0
        BY <2>2, <2>5, <3>1
      <4> HIDE DEF r, b
      <4> QED BY <1>4, <4>1
    <3>3. New' = Len(events)
      BY <1>1, <1>6, <1>7, <2>1, <2>6 DEF New
    <3>4. Listed(events, Len(events), {})
      BY <1>6, ListedNone
    <3> QED BY <1>1, <3>2, <3>3, <3>4 DEF ListInv
  <2>7. CASE w[1] # c
    <3>1. count'[r[b]] = 0
      BY <1>1, <1>9, <2>5, <2>7
    <3>2. GoesOn(r, b) = FALSE
      BY <1>2, <2>5, <2>7 DEF GoesOn
    <3>3. ASSUME NEW i \in 0..b, i < b PROVE Ends(r, i, b) <=> i = p /\ Labelled(c, tmp[c])
      <4>1. ASSUME Ends(r, i, b) PROVE i = p /\ Labelled(c, tmp[c])
        <5> HIDE DEF r, p, b, c
        <5>1. Begins(r, i) /\ Steady(r, i, b) /\ b <= i + Over /\ Labelled(c, b - i)
          BY <2>5, <3>2, <4>1 DEF Ends
        <5>2. i \in Nat
          BY <1>2
        <5>3. i = p
          BY <1>2, <2>3, <2>4, <3>3, <5>1, <5>2, OnePiece
        <5> QED BY <2>3, <5>1, <5>3
      <4>2. ASSUME i = p, Labelled(c, tmp[c]) PROVE Ends(r, i, b)
        <5> HIDE DEF r, p, b, c
        <5> QED BY <2>3, <2>4, <2>5, <3>2, <4>2 DEF Ends
      <4> QED BY <4>1, <4>2
    <3>4. ASSUME NEW e PROVE e \in FoundEvents' <=> Labelled(c, tmp[c]) /\ e = EventOf(r, p, b)
      <4> HIDE DEF r, p, b, c
      <4>1. \A i \in 0..b : i < b => (Ends(r, i, b) <=> i = p /\ Labelled(c, tmp[c]))
        BY <3>3
      <4> QED BY <1>4, <1>9, <2>3, <3>1, <4>1
    <3>5. EventOf(r, p, b) = HeldEvent(c)
      BY <2>5, <3>2, Zenon DEF EventOf, HeldEvent
    <3>6. Ended' <=> Labelled(c, tmp[c])
      BY <1>7, <2>1, <2>5, <2>7
    <3>7. CASE ~Labelled(c, tmp[c])
      <4>1. FoundEvents' = {}
        BY <3>4, <3>7
      <4>2. New' = Len(events)
        BY <1>1, <1>6, <3>6, <3>7 DEF New
      <4>3. Listed(events, Len(events), {})
        BY <1>6, ListedNone
      <4> QED BY <1>1, <4>1, <4>2, <4>3 DEF ListInv
    <3>8. CASE Labelled(c, tmp[c])
      <4>1. FoundEvents' = {HeldEvent(c)}
        <5> HIDE DEF r, p, b, c
        <5> QED BY <3>4, <3>5, <3>8
      <4>2. New' = Len(events) - 1
        BY <1>1, <1>6, <3>6, <3>8 DEF New
      <4>3. events # <<>> /\ events[Len(events)] = HeldEvent(c)
        BY <2>1, <3>8
      <4>4. Len(events) \in Nat \ {0}
        BY <1>6, <4>3, EmptySeq
      <4>5. Listed(events, Len(events) - 1, {events[Len(events)]})
        BY <4>4, ListedLast
      <4> QED BY <1>1, <4>1, <4>2, <4>3, <4>5 DEF ListInv
    <3> QED BY <3>7, <3>8
  <2> QED BY <2>6, <2>7
<1> QED BY <1>8, <1>9

\* The analysis of a window begins.
LEMMA StartStep == ASSUME LimitInv, NEW w \in [1..Window -> Class], Start(w) PROVE LimitInv'
<1> DEFINE b == Len(stream)
           r == stream \o w
<1>1. /\ window = <<>> /\ window' = w /\ jj' = 0 /\ report' = 0 /\ stream' = stream
      /\ count' = [d \in Limits |-> IF w[1] = d THEN count[d] ELSE 0]
      /\ events' = events /\ lastRep' = lastRep /\ lastVal' = lastVal /\ lastSample' = lastSample
      /\ tmp' = tmp /\ reported' = reported /\ withdrawn' = withdrawn
  BY DEF Start, Kept, endVars, listVars, reportVars
<1>2. /\ w # <<>> /\ r \in Seq(Class) /\ Len(r) \in Nat /\ b < Len(r) /\ Prefix(stream, r)
      /\ b \in Nat /\ r[b + 1] = w[1] /\ stream \in Seq(Class)
  <2>1. /\ w # <<>> /\ r \in Seq(Class) /\ Len(r) = b + Window /\ Window \in Nat \ {0}
        /\ Prefix(stream, r) /\ b \in Nat /\ r[b + 1] = w[1]
    BY WindowFacts DEF LimitInv
  <2>2. stream \in Seq(Class)
    BY DEF LimitInv, TypeOK
  <2> HIDE DEF b, r
  <2>3. Len(r) \in Nat /\ b < Len(r)
    BY <2>1
  <2> QED BY <2>1, <2>2, <2>3
<1>3. all' = r /\ at' = b /\ all = stream /\ jj = 0 /\ at = b /\ ~Closed
  BY <1>1, <1>2, Between DEF all, at
<1>4. ASSUME NEW d \in Limits, count'[d] > 0
      PROVE  /\ w[1] = d /\ count'[d] = count[d] /\ count[d] > 0
             /\ b > 0 /\ stream[b] = d /\ count[d] <= b /\ count[d] \in Nat
             /\ Begins(stream, b - count[d]) /\ Steady(stream, b - count[d], b)
             /\ lastSample = d /\ tmp[d] = count[d]
  <2>1. w[1] = d /\ count'[d] = count[d] /\ count[d] > 0
    <3>1. count'[d] = IF w[1] = d THEN count[d] ELSE 0
      BY <1>1
    <3> QED BY <1>4, <3>1
  <2>2. /\ b > 0 /\ stream[b] = d /\ count[d] <= b
        /\ Begins(stream, b - count[d]) /\ Steady(stream, b - count[d], b)
    BY <1>1, <2>1, Between
  <2>3. lastSample = d /\ tmp[d] = count[d]
    BY <1>1, <2>2, Between
  <2> QED BY <2>1, <2>2, <2>3, CountTypes DEF LimitInv
<1>5. ASSUME NEW n \in Nat, n > 0, n <= b
      PROVE  /\ Begins(r, b - n) <=> Begins(stream, b - n)
             /\ Steady(r, b - n, b) <=> Steady(stream, b - n, b)
  <2> DEFINE p == b - n
  <2>1. p \in Nat /\ p + 1 <= b /\ b \in 1..b
    BY <1>2, <1>5
  <2> HIDE DEF p, r
  <2>2. /\ Begins(r, p) <=> Begins(stream, p)
        /\ Steady(r, p, b) <=> Steady(stream, p, b)
    BY <1>2, <2>1, BeginsPrefix, SteadyPrefix
  <2> QED BY <2>2 DEF p
<1>6. b > 0 => r[b] = stream[b]
  <2>1. b > 0 => b \in 1..Len(stream)
    BY <1>2
  <2> QED BY <1>2, <2>1 DEF Prefix
<1>7. TypeOK'
  <2>1. count' \in [Limits -> 0..Over]
    <3>1. \A d \in Limits : (IF w[1] = d THEN count[d] ELSE 0) \in 0..Over
      BY VoltageAssumption DEF LimitInv, TypeOK
    <3> QED BY <1>1, <3>1
  <2>2. 0 \in 0..Len(w)
    BY WindowFacts DEF LimitInv
  <2> QED BY <1>1, <2>1, <2>2 DEF LimitInv, TypeOK
<1>8. CountInv'
  <2>1. ASSUME NEW d \in Limits, count'[d] > 0
        PROVE  /\ count'[d] <= b
               /\ Begins(r, b - count'[d]) /\ Steady(r, b - count'[d], b)
               /\ r[b] = d /\ r[b + 1] = d
    <3> HIDE DEF r, b
    <3> QED BY <1>2, <1>4, <1>5, <1>6, <2>1
  <2> HIDE DEF r, b
  <2> QED BY <1>3, <2>1 DEF CountInv
<1>9. FreshInv'
  <2>1. ASSUME b > 0, GoesOn(r, b), r[b] \in Limits PROVE count'[r[b]] # 0
    <3>1. r[b] = stream[b] /\ w[1] = r[b]
      BY <1>2, <1>6, <2>1 DEF GoesOn
    <3>2. count[r[b]] > 0
      BY <1>1, <2>1, <3>1, Between
    <3>3. count'[r[b]] = count[r[b]] /\ count[r[b]] \in Nat
      BY <1>1, <2>1, <3>1, CountTypes DEF LimitInv
    <3> DEFINE n == count[r[b]]
    <3>4. n > 0 /\ n \in Nat /\ count'[r[b]] = n
      BY <3>2, <3>3
    <3> HIDE DEF n
    <3>5. n # 0
      BY <3>4
    <3> QED BY <3>4, <3>5
  <2> HIDE DEF r, b
  <2> QED BY <1>3, <2>1 DEF FreshInv
<1>10. EndInv'
  <2> HIDE DEF r, b
  <2> QED BY <1>2, <1>3 DEF EndInv
<1>11. LastInv'
  <2>1. LastInv
    BY DEF LimitInv
  <2>2. b > 0 => lastVal = stream[b]
    BY <2>1 DEF LastInv
  <2>3. lastSample = IF b = 0 \/ stream[b] = "ok" THEN "none" ELSE stream[b]
    BY <1>3, <2>1 DEF LastInv
  <2>4. lastRep' <=> HeldBack(lastSample)'
    BY <1>1, <1>3, <2>1 DEF LastInv, HeldBack
  <2>5. ASSUME lastSample # "none"
        PROVE  /\ tmp[lastSample] > 0 /\ tmp[lastSample] <= b
               /\ Begins(r, b - tmp[lastSample])
               /\ Steady(r, b - tmp[lastSample], b)
    <3> DEFINE n == tmp[lastSample]
    <3>1. n > 0 /\ n <= b /\ Begins(stream, b - n) /\ Steady(stream, b - n, b)
      BY <1>3, <2>1, <2>5 DEF LastInv
    <3>2. n \in Nat
      BY <2>5, CountTypes DEF LimitInv, TypeOK
    <3> HIDE DEF n, r, b
    <3>3. n > 0 /\ n <= b /\ Begins(r, b - n) /\ Steady(r, b - n, b)
      BY <1>5, <3>1, <3>2
    <3> QED BY <3>3 DEF n
  <2>6. stream' = stream /\ lastSample' = lastSample /\ tmp' = tmp /\ lastVal' = lastVal
    BY <1>1
  <2> HIDE DEF r
  <2> QED BY <1>3, <2>2, <2>3, <2>4, <2>5, <2>6 DEF LastInv
<1>12. PlaceInv'
  <2>1. ASSUME NEW d \in Limits, count'[d] > 0
        PROVE  lastSample' = d /\ count'[d] = 0 + tmp'[d] /\ report' = 0
    BY <1>1, <1>4, <2>1
  <2> QED BY <1>1, <2>1 DEF PlaceInv
<1>13. HeldInv'
  <2>1. ASSUME NEW d \in Limits, lastRep, count'[d] > 0
        PROVE  events # <<>> /\ events[Len(events)] = HeldEvent(d)
    BY <1>1, <1>4, <2>1, Between
  <2>2. \A d : HeldEvent(d)' = HeldEvent(d)
    BY <1>1 DEF HeldEvent
  <2> QED BY <1>1, <2>1, <2>2 DEF HeldInv
<1>14. ListInv'
  BY StartList
<1>15. WithdrawnInv'
  <2>1. ASSUME NEW e \in withdrawn PROVE ~e.sustained /\ e.end > 0 /\ GoesOn(r, e.end)
    <3>1. ~e.sustained /\ e.end > 0 /\ GoesOn(stream, e.end) /\ e.end \in Nat
      BY <1>3, <2>1 DEF LimitInv, WithdrawnInv, TypeOK, EventType
    <3>2. e.end \in 1..b /\ e.end + 1 \in 1..b /\ e.end < Len(r)
      BY <1>2, <3>1 DEF GoesOn
    <3> QED BY <1>2, <3>1, <3>2 DEF GoesOn, Prefix
  <2> QED BY <1>1, <1>3, <2>1 DEF WithdrawnInv
<1>16. ReportsExact'
  BY <1>1 DEF LimitInv, ReportsExact
<1> QED BY <1>7, <1>8, <1>9, <1>10, <1>11, <1>12, <1>13, <1>14, <1>15, <1>16 DEF LimitInv

\* The event that reaches the end of the window: there is one in the list if it is held back.
LEMMA AtEnd ==
  ASSUME LimitInv, window # <<>>, jj = Len(window)
  PROVE  /\ at = Len(all) /\ at > 0 /\ at \in Nat /\ window[Len(window)] = all[at]
         /\ LastOf(window) = IF all[at] = "ok" THEN "none" ELSE all[at]
         /\ \A e \in FoundEvents : e.end \in Int /\ Len(stream) <= e.end /\ e.end <= at
         /\ all[at] \in Limits =>
              /\ lastSample = all[at] /\ tmp[all[at]] = count[all[at]] /\ count[all[at]] > 0
              /\ HeldBack(LastOf(window)) <=> Labelled(all[at], tmp[all[at]])
              /\ \A e : e \in FoundEvents /\ e.end = at <=>
                          /\ Labelled(all[at], tmp[all[at]])
                          /\ e = EventOf(all, at - tmp[all[at]], at)
         /\ all[at] \notin Limits =>
              /\ ~HeldBack(LastOf(window)) /\ all[at] = "ok"
              /\ \A e : ~(e \in FoundEvents /\ e.end = at)
<1> DEFINE b == Len(stream)
           c == all[at]
           p == at - tmp[c]
<1>1. /\ at \in Nat /\ b \in Nat /\ Len(all) \in Nat /\ all \in Seq(Class) /\ Len(window) \in Nat
      /\ Len(window) > 0 /\ window[jj] = all[at] /\ at = b + jj /\ Len(all) = b + Len(window)
  BY PlaceFacts DEF LimitInv, at
<1>2. at = Len(all) /\ at > 0 /\ window[Len(window)] = all[at]
  BY <1>1
<1>3. c \in Class
  BY <1>1, <1>2, PlaceFacts DEF LimitInv
<1>4. c \in Limits => /\ count[c] > 0 /\ lastSample = c /\ tmp[c] = count[c]
  BY <1>2 DEF LimitInv, EndInv
<1>5. c \notin Limits <=> c = "ok"
  BY <1>3 DEF Class, Limits
<1>6. LastOf(window) = IF c = "ok" THEN "none" ELSE c
  <2> HIDE DEF c
  <2>1. LastOf(window) = IF c = "ok" THEN "none" ELSE lastSample
    BY <1>2 DEF LastOf, c
  <2> QED BY <1>4, <1>5, <2>1
<1>7. ASSUME NEW e \in FoundEvents PROVE e.end \in Int /\ b <= e.end /\ e.end <= at
  <2>1. PICK i \in 0..at, j \in 1..at : Found(i, j) /\ e = EventOf(all, i, j)
    BY InFoundEvents
  <2>2. e.end = j /\ b <= j
    BY <2>1, EventFields DEF Found
  <2> HIDE DEF b
  <2> QED BY <1>1, <2>2
<1>8. ASSUME NEW e
      PROVE  e \in FoundEvents /\ e.end = at
               <=> \E i \in 0..at : i < at /\ Ends(all, i, at) /\ e = EventOf(all, i, at)
  <2>1. ASSUME e \in FoundEvents, e.end = at
        PROVE  \E i \in 0..at : i < at /\ Ends(all, i, at) /\ e = EventOf(all, i, at)
    <3>1. PICK i \in 0..at, j \in 1..at : Found(i, j) /\ e = EventOf(all, i, j)
      BY <2>1, InFoundEvents
    <3>2. e.end = j
      BY <3>1, EventFields
    <3> QED BY <2>1, <3>1, <3>2 DEF Found
  <2>2. ASSUME NEW i \in 0..at, i < at, Ends(all, i, at), e = EventOf(all, i, at)
        PROVE  e \in FoundEvents /\ e.end = at
    <3>1. Found(i, at)
      BY <1>1, <1>2, <2>2 DEF Found
    <3>2. at \in 1..at
      BY <1>1, <1>2
    <3>3. e \in FoundEvents
      BY <2>2, <3>1, <3>2, InFoundEvents
    <3>4. e.end = at
      BY <2>2, EventFields
    <3> QED BY <3>3, <3>4
  <2> QED BY <2>1, <2>2
<1>9. ASSUME c \in Limits
      PROVE  /\ HeldBack(LastOf(window)) <=> Labelled(c, tmp[c])
             /\ \A e : e \in FoundEvents /\ e.end = at <=>
                          Labelled(c, tmp[c]) /\ e = EventOf(all, p, at)
  <2>1. HeldBack(LastOf(window)) <=> Labelled(c, tmp[c])
    <3>1. LastOf(window) = c /\ c # "none"
      BY <1>5, <1>6, <1>9 DEF Limits
    <3> QED BY <3>1 DEF HeldBack
  <2>2. tmp[c] \in Nat /\ tmp[c] > 0 /\ tmp[c] <= Over /\ tmp[c] <= at /\ Over \in Nat
        /\ Begins(all, p) /\ Steady(all, p, at)
    <3>1. count[c] \in Nat /\ count[c] <= Over /\ Over \in Nat
      BY <1>9, CountTypes DEF LimitInv
    <3>2. count[c] > 0 /\ tmp[c] = count[c]
      BY <1>4, <1>9
    <3>3. count[c] <= at /\ Begins(all, at - count[c]) /\ Steady(all, at - count[c], at)
      BY <1>9, <3>2 DEF LimitInv, CountInv
    <3> QED BY <3>1, <3>2, <3>3
  <2>3. p \in Nat /\ p \in 0..at /\ p < at /\ at <= p + Over /\ at - p = tmp[c]
    <3> DEFINE v == tmp[c]
               a == at
    <3>1. v \in Nat /\ v > 0 /\ v <= Over /\ v <= a /\ Over \in Nat /\ a \in Nat
      BY <1>1, <2>2
    <3> HIDE DEF v, a
    <3>2. /\ a - v \in Nat /\ a - v \in 0..a /\ a - v < a /\ a <= (a - v) + Over
          /\ a - (a - v) = v
      BY <3>1
    <3> QED BY <3>2 DEF v, a
  <2>4. GoesOn(all, at) = FALSE
    BY <1>1, <1>2 DEF GoesOn
  <2>5. ASSUME NEW i \in 0..at, i < at PROVE Ends(all, i, at) <=> i = p /\ Labelled(c, tmp[c])
    <3> HIDE DEF p
    <3>1. ASSUME Ends(all, i, at) PROVE i = p /\ Labelled(c, tmp[c])
      <4>1. Begins(all, i) /\ Steady(all, i, at) /\ at <= i + Over /\ Labelled(c, at - i)
        BY <2>4, <3>1 DEF Ends
      <4>2. i \in Nat
        BY <1>1
      <4>3. i = p
        BY <1>1, <2>2, <2>3, <2>5, <4>1, <4>2, OnePiece
      <4> QED BY <2>3, <4>1, <4>3
    <3>2. ASSUME i = p, Labelled(c, tmp[c]) PROVE Ends(all, i, at)
      BY <2>2, <2>3, <2>4, <3>2 DEF Ends
    <3> QED BY <3>1, <3>2
  <2> HIDE DEF p, c
  <2>6. ASSUME NEW e
        PROVE  e \in FoundEvents /\ e.end = at <=> Labelled(c, tmp[c]) /\ e = EventOf(all, p, at)
    BY <1>8, <2>3, <2>5
  <2> QED BY <2>1, <2>6
<1>10. ASSUME c \notin Limits
       PROVE  ~HeldBack(LastOf(window)) /\ \A e : ~(e \in FoundEvents /\ e.end = at)
  <2>1. ~HeldBack(LastOf(window))
    BY <1>5, <1>6, <1>10 DEF HeldBack
  <2>2. \A i : ~Ends(all, i, at)
    BY <1>10 DEF Ends, Steady
  <2> QED BY <1>8, <2>1, <2>2
<1> HIDE DEF b
<1>11. \A e \in FoundEvents : e.end \in Int /\ b <= e.end /\ e.end <= at
  BY <1>7
<1> QED BY <1>1, <1>2, <1>4, <1>5, <1>6, <1>9, <1>10, <1>11 DEF b

\* The events that end in the window, before its last sample.
LEMMA EndedEvents ==
  ASSUME LimitInv, window # <<>>, jj = Len(window)
  PROVE  EventsOf(all) = EventsOf(stream) \cup {e \in FoundEvents : e.end < at}
<1> DEFINE b == Len(stream)
<1>1. /\ at \in Nat /\ b \in Nat /\ all \in Seq(Class) /\ stream \in Seq(Class)
      /\ Prefix(stream, all) /\ b <= at
  BY PlaceFacts DEF LimitInv
<1>2. at = Len(all)
  BY AtEnd
<1>3. ASSUME NEW e \in EventsOf(all)
      PROVE  e \in EventsOf(stream) \/ (e \in FoundEvents /\ e.end < at)
  <2>1. PICK p \in 0..at, j \in 1..(at - 1) : p < j /\ Ends(all, p, j) /\ e = EventOf(all, p, j)
    BY <1>2, InEventsOf
  <2>2. e.end = j
    BY <2>1, EventFields
  <2>3. p \in Nat /\ j \in Nat /\ j < at /\ j \in 1..at
    BY <1>1, <2>1
  <2>4. CASE j < b
    <3>1. Ends(stream, p, j) /\ e = EventOf(stream, p, j)
      BY <1>1, <2>1, <2>3, <2>4, EndsPrefix
    <3>2. p \in 0..b /\ j \in 1..(b - 1)
      BY <1>1, <2>1, <2>3, <2>4
    <3> QED BY <2>1, <3>1, <3>2, InEventsOf
  <2>5. CASE j >= b
    <3>1. Found(p, j)
      BY <1>1, <2>1, <2>3, <2>5 DEF Found
    <3>2. e \in FoundEvents
      BY <2>1, <2>3, <3>1, InFoundEvents
    <3> QED BY <2>2, <2>3, <3>2
  <2> QED BY <1>1, <2>3, <2>4, <2>5
<1>4. ASSUME NEW e \in EventsOf(stream) PROVE e \in EventsOf(all)
  <2>1. PICK p \in 0..b, j \in 1..(b - 1) :
          p < j /\ Ends(stream, p, j) /\ e = EventOf(stream, p, j)
    BY InEventsOf
  <2>2. p \in Nat /\ j \in Nat /\ j < b /\ p \in 0..at /\ j \in 1..(at - 1)
    BY <1>1, <2>1
  <2>3. Ends(all, p, j) /\ e = EventOf(all, p, j)
    BY <1>1, <2>1, <2>2, EndsPrefix
  <2> QED BY <1>2, <2>1, <2>2, <2>3, InEventsOf
<1>5. ASSUME NEW e \in FoundEvents, e.end < at PROVE e \in EventsOf(all)
  <2>1. PICK p \in 0..at, j \in 1..at : Found(p, j) /\ e = EventOf(all, p, j)
    BY InFoundEvents
  <2>2. e.end = j
    BY <2>1, EventFields
  <2>3. j \in 1..(at - 1) /\ p < j /\ Ends(all, p, j)
    BY <1>1, <1>5, <2>1, <2>2 DEF Found
  <2> QED BY <1>2, <2>1, <2>3, InEventsOf
<1> QED BY <1>3, <1>4, <1>5

\* What is published at the end of a window.
LEMMA FinishReports ==
  ASSUME LimitInv, NEW others \in BOOLEAN, Finish(others)
  PROVE  /\ reported' \in Seq(EventType) /\ Seen(reported') \subseteq Seen(events)
         /\ ReportsExact'
<1> DEFINE n == Len(events)
           held == HeldBack(LastOf(window))
           m == IF held THEN n - 1 ELSE n
           S == {e \in FoundEvents : e.end < at}
<1>1. /\ window # <<>> /\ jj = Len(window) /\ stream' = all
      /\ reported' = IF report > 0 \/ lastRep \/ others THEN reported \o Due ELSE reported
  BY DEF Finish, all
<1>2. /\ n \in Nat /\ report \in Nat /\ events \in Seq(EventType) /\ reported \in Seq(EventType)
      /\ at \in Nat /\ Len(stream) \in Nat /\ Len(reported) \in Nat
      /\ Seen(reported) \subseteq Seen(events)
  BY CountTypes, PlaceFacts DEF LimitInv, TypeOK
<1>3. Listed(events, New, FoundEvents)
  BY <1>1 DEF LimitInv, ListInv
<1>4. /\ New \in 0..n /\ FoundEvents = {events[i] : i \in (New + 1)..n}
      /\ \A i, j \in (New + 1)..n : i < j => events[i].end < events[j].end
  BY <1>3 DEF Listed
<1>5. \A e \in FoundEvents : e.end \in Int /\ Len(stream) <= e.end /\ e.end <= at
  BY <1>1, AtEnd
<1>6. held => New < n /\ S = {events[i] : i \in (New + 1)..(n - 1)}
  <2> SUFFICES ASSUME held PROVE New < n /\ S = {events[i] : i \in (New + 1)..(n - 1)}
    OBVIOUS
  <2>1. all[at] \in Limits
    BY <1>1, AtEnd
  <2>2. Labelled(all[at], tmp[all[at]])
    BY <1>1, <2>1, AtEnd
  <2>3. \E e \in FoundEvents : e.end = at
    BY <1>1, <2>1, <2>2, AtEnd
  <2> QED BY <1>2, <1>3, <1>5, <2>3, ListedFront
<1>7. ~held => S = FoundEvents
  <2> SUFFICES ASSUME ~held PROVE S = FoundEvents
    OBVIOUS
  <2>1. \A e : ~(e \in FoundEvents /\ e.end = at)
    <3>1. CASE all[at] \in Limits
      <4>1. ~Labelled(all[at], tmp[all[at]])
        BY <1>1, <3>1, AtEnd
      <4> QED BY <1>1, <3>1, <4>1, AtEnd
    <3>2. CASE all[at] \notin Limits
      BY <1>1, <3>2, AtEnd
    <3> QED BY <3>1, <3>2
  <2>2. \A e \in FoundEvents : e.end < at
    BY <1>2, <1>5, <2>1
  <2> QED BY <2>2
<1>8. m \in Nat /\ New \in Nat /\ New <= m /\ m <= n /\ S = {events[i] : i \in (New + 1)..m}
  <2>1. CASE held
    <3>1. m = n - 1
      BY <2>1
    <3> HIDE DEF n, m, S, held
    <3>2. New < n /\ S = {events[i] : i \in (New + 1)..(n - 1)}
      BY <1>6, <2>1
    <3>3. m \in Nat /\ New \in Nat /\ New <= m /\ m <= n
      BY <1>2, <1>4, <3>1, <3>2
    <3> QED BY <3>1, <3>2, <3>3
  <2>2. CASE ~held
    <3>1. m = n
      BY <2>2
    <3> HIDE DEF n, m, S, held
    <3> QED BY <1>2, <1>4, <1>7, <2>2, <3>1
  <2> QED BY <2>1, <2>2
<1>9. Due = SubSeq(events, New + 1, m)
  <2>1. New + 1 = IF Ended THEN n - report ELSE n - report + 1
    <3>1. CASE Ended
      BY <1>2, <3>1 DEF New
    <3>2. CASE ~Ended
      BY <1>2, <3>2 DEF New
    <3> QED BY <3>1, <3>2
  <2> QED BY <2>1, Zenon DEF Due
<1>10. EventsOf(all) = EventsOf(stream) \cup S
  BY <1>1, EndedEvents
<1>11. /\ Seen(reported) = EventsOf(stream)
       /\ \A i, j \in 1..Len(reported) : i < j => reported[i].end < reported[j].end
  BY DEF LimitInv, ReportsExact
<1>12. CASE reported' = reported \o Due
  <2>1. ASSUME NEW i \in 1..Len(reported), NEW j \in (New + 1)..m
        PROVE  reported[i].end < events[j].end
    <3>1. reported[i] \in EventsOf(stream)
      BY <1>11 DEF Seen
    <3>2. PICK p \in 0..Len(stream), k \in 1..(Len(stream) - 1) :
            reported[i] = EventOf(stream, p, k)
      BY <3>1, InEventsOf
    <3>3. reported[i].end = k
      BY <3>2, EventFields
    <3>4. events[j] \in FoundEvents
      <4> HIDE DEF m, n
      <4> QED BY <1>8
    <3>5. events[j].end \in Int /\ Len(stream) <= events[j].end
      BY <1>5, <3>4
    <3> QED BY <1>2, <3>3, <3>5
  <2>2. \A i, j \in (New + 1)..m : i < j => events[i].end < events[j].end
    <3> HIDE DEF m, n
    <3>1. \A i \in (New + 1)..m : i \in (New + 1)..n
      BY <1>2, <1>8
    <3> QED BY <1>4, <3>1
  <2> HIDE DEF m, n, S
  <2>3. /\ reported' \in Seq(EventType)
        /\ Seen(reported') = Seen(reported) \cup {events[i] : i \in (New + 1)..m}
        /\ \A i, j \in 1..Len(reported') : i < j => reported'[i].end < reported'[j].end
    <3>1. /\ reported \in Seq(EventType) /\ events \in Seq(EventType)
          /\ New \in Nat /\ m \in Nat /\ New <= m /\ m <= Len(events)
      BY <1>2, <1>8 DEF n
    <3>2. reported' = reported \o SubSeq(events, New + 1, m)
      BY <1>9, <1>12
    <3>3. Rising(events, New, m) /\ Behind(reported, events, New, m)
      BY <2>1, <2>2 DEF Rising, Behind
    <3>4. Rising(reported, 0, Len(reported))
      BY <1>11 DEF Rising
    <3>5. /\ reported' \in Seq(EventType)
          /\ Seen(reported') = Seen(reported) \cup {events[i] : i \in (New + 1)..m}
          /\ Rising(reported', 0, Len(reported'))
      BY <3>1, <3>2, <3>3, <3>4, Reporting
    <3> QED BY <3>5 DEF Rising
  <2>4. Seen(reported') = EventsOf(stream')
    BY <1>1, <1>8, <1>10, <1>11, <2>3
  <2>5. Seen(reported') \subseteq Seen(events)
    <3>1. {events[i] : i \in (New + 1)..m} \subseteq Seen(events)
      <4>1. \A i \in (New + 1)..m : i \in 1..n
        BY <1>2, <1>8
      <4> QED BY <4>1 DEF Seen, n
    <3> QED BY <1>2, <2>3, <3>1
  <2> QED BY <2>3, <2>4, <2>5 DEF ReportsExact
<1>13. CASE reported' = reported /\ report = 0 /\ ~lastRep
  <2>1. New = n
    BY <1>2, <1>13 DEF New, Ended
  <2>2. S = {}
    <3> HIDE DEF n
    <3>1. FoundEvents = {}
      BY <1>2, <1>3, <2>1, ListedAll DEF n
    <3> QED BY <3>1
  <2>3. Seen(reported') = EventsOf(stream')
    <3> HIDE DEF S
    <3> QED BY <1>1, <1>10, <1>11, <1>13, <2>2
  <2> QED BY <1>2, <1>11, <1>13, <2>3 DEF ReportsExact
<1>14. CASE ~(report > 0 \/ lastRep \/ others)
  BY <1>1, <1>2, <1>13, <1>14
<1> QED BY <1>1, <1>12, <1>14

\* The last event of a list is the one with the greatest end.
LEMMA ListedEnd ==
  ASSUME NEW q \in Seq(EventType), NEW n, NEW S, Listed(q, n, S), NEW f \in S,
         f.end \in Int, \A e \in S : e.end \in Int /\ e.end <= f.end
  PROVE  q # <<>> /\ q[Len(q)] = f
<1>1. /\ n \in 0..Len(q) /\ S = {q[i] : i \in (n + 1)..Len(q)} /\ Len(q) \in Nat
      /\ \A i, j \in (n + 1)..Len(q) : i < j => q[i].end < q[j].end
  BY LenProperties DEF Listed
<1>2. PICK i \in (n + 1)..Len(q) : q[i] = f
  BY <1>1
<1>3. Len(q) \in (n + 1)..Len(q) /\ q[Len(q)] \in S
  BY <1>1, <1>2
<1>4. i = Len(q)
  <2> SUFFICES ASSUME i < Len(q) PROVE FALSE
    BY <1>1
  <2>1. q[i].end < q[Len(q)].end
    BY <1>1, <1>3
  <2> QED BY <1>2, <1>3, <2>1
<1>5. q # <<>>
  BY <1>1, <1>2, EmptySeq
<1> QED BY <1>2, <1>4, <1>5

\* The window has been analysed: what it found is published, but for an event held back.
LEMMA FinishStep == ASSUME LimitInv, NEW others \in BOOLEAN, Finish(others) PROVE LimitInv'
<1> DEFINE c == all[at]
<1>1. /\ window # <<>> /\ jj = Len(window) /\ stream' = all /\ window' = <<>> /\ jj' = 0
      /\ lastSample' = LastOf(window) /\ lastRep' = HeldBack(LastOf(window))
      /\ lastVal' = window[Len(window)]
      /\ report' = report /\ count' = count /\ tmp' = tmp /\ events' = events
      /\ withdrawn' = withdrawn
  BY DEF Finish, all, listVars
<1>2. /\ at \in Nat /\ at > 0 /\ at = Len(all) /\ all \in Seq(Class) /\ c \in Class
      /\ window[Len(window)] = c
  <2>1. at \in Nat /\ at > 0 /\ at = Len(all) /\ window[Len(window)] = c
    BY <1>1, AtEnd
  <2> QED BY <2>1, PlaceFacts DEF LimitInv
<1>3. all' = all /\ at' = at
  <2>1. all \o <<>> = all
    BY <1>2, ConcatEmptySeq
  <2>2. all' = all
    BY <1>1, <2>1 DEF all
  <2>3. at' = Len(all) + 0
    BY <1>1 DEF at
  <2> QED BY <1>2, <2>2, <2>3
<1>4. LastOf(window) = IF c = "ok" THEN "none" ELSE c
  BY <1>1, AtEnd
<1>5. c \in Limits => /\ lastSample' = c /\ tmp[c] = count[c] /\ count[c] > 0
                      /\ lastRep' <=> Labelled(c, tmp[c])
  <2>1. c \in Limits => c # "ok"
    BY DEF Limits
  <2> QED BY <1>1, <1>4, <2>1, AtEnd
<1>6. c \notin Limits <=> c = "ok"
  BY <1>2 DEF Class, Limits
<1>7. \A d \in Limits : /\ count[d] \in Nat
                        /\ count[d] > 0 =>
                             /\ c = d /\ count[d] <= at
                             /\ Begins(all, at - count[d]) /\ Steady(all, at - count[d], at)
  BY CountTypes DEF LimitInv, CountInv
<1>8. TypeOK'
  <2>1. lastSample' \in Limits \cup {"none"} /\ lastRep' \in BOOLEAN /\ lastVal' \in Class
    BY <1>1, <1>2, <1>4, <1>6 DEF HeldBack, Labelled
  <2>2. jj' \in 0..Len(window') /\ stream' \in Seq(Class)
    BY <1>1, <1>2
  <2>3. reported' \in Seq(EventType) /\ Seen(reported') \subseteq Seen(events')
    BY <1>1, FinishReports
  <2> QED BY <1>1, <2>1, <2>2, <2>3 DEF LimitInv, TypeOK
<1>9. CountInv' /\ FreshInv'
  BY <1>1, <1>3 DEF LimitInv, CountInv, FreshInv
<1>10. EndInv'
  BY <1>1, <1>3, <1>5 DEF EndInv
<1>11. LastInv'
  <2>1. lastVal' = stream'[Len(stream')] /\ Len(stream') = at
    BY <1>1, <1>2
  <2>2. lastSample' = IF Len(stream') = 0 \/ stream'[Len(stream')] = "ok" THEN "none"
                      ELSE stream'[Len(stream')]
    <3> HIDE DEF c
    <3>1. Len(stream') # 0 /\ stream'[Len(stream')] = c
      BY <1>1, <1>2 DEF c
    <3> QED BY <1>1, <1>4, <3>1
  <2>3. lastRep' <=> HeldBack(lastSample)'
    BY <1>1 DEF HeldBack
  <2>4. ASSUME lastSample' # "none"
        PROVE  /\ tmp'[lastSample'] > 0 /\ tmp'[lastSample'] <= Len(stream')
               /\ Begins(all', Len(stream') - tmp'[lastSample'])
               /\ Steady(all', Len(stream') - tmp'[lastSample'], Len(stream'))
    <3>1. c \in Limits
      BY <1>1, <1>4, <1>6, <2>4
    <3>2. lastSample' = c /\ tmp'[c] = count[c] /\ count[c] > 0
      BY <1>1, <1>5, <3>1
    <3> HIDE DEF c
    <3> QED BY <1>3, <1>7, <2>1, <3>1, <3>2
  <2> QED BY <2>1, <2>2, <2>3, <2>4 DEF LastInv
<1>12. PlaceInv'
  <2>1. ASSUME NEW d \in Limits, count[d] > 0
        PROVE  lastSample' = d /\ count[d] = 0 + tmp[d]
    <3>1. c = d /\ lastSample' = d /\ tmp[d] = count[d]
      BY <1>5, <1>7, <2>1
    <3> QED BY <1>7, <3>1
  <2> QED BY <1>1, <2>1 DEF PlaceInv
<1>13. HeldInv'
  <2>1. ASSUME NEW d \in Limits, lastRep', count[d] > 0
        PROVE  events # <<>> /\ events[Len(events)] = HeldEvent(d)'
    <3> DEFINE f == EventOf(all, at - tmp[d], at)
    <3>1. c = d /\ Labelled(d, tmp[d])
      BY <1>5, <1>7, <2>1
    <3>2. f \in FoundEvents /\ f.end = at
      BY <1>1, <2>1, <3>1, AtEnd
    <3>3. \A e \in FoundEvents : e.end \in Int /\ e.end <= at
      BY <1>1, AtEnd
    <3>4. Listed(events, New, FoundEvents) /\ events \in Seq(EventType)
      BY <1>1 DEF LimitInv, ListInv, TypeOK
    <3>5. events # <<>> /\ events[Len(events)] = f
      <4> HIDE DEF f
      <4>1. f.end \in Int /\ \A e \in FoundEvents : e.end \in Int /\ e.end <= f.end
        BY <3>2, <3>3
      <4> QED BY <3>2, <3>4, <4>1, ListedEnd
    <3>6. GoesOn(all, at) = FALSE
      BY <1>2 DEF GoesOn
    <3>7. HeldEvent(d)' = [start |-> at - tmp[d] - 1, end |-> at, class |-> d,
                           sustained |-> FALSE]
      BY <1>1, <1>2 DEF HeldEvent
    <3>8. f = [start |-> at - tmp[d] - 1, end |-> at, class |-> d, sustained |-> FALSE]
      BY <3>1, <3>6, Zenon DEF EventOf
    <3> QED BY <3>5, <3>7, <3>8
  <2> QED BY <1>1, <2>1 DEF HeldInv
<1>14. ListInv'
  BY <1>1 DEF ListInv
<1>15. WithdrawnInv'
  BY <1>1, <1>3, WithdrawnKept
<1>16. ReportsExact'
  BY FinishReports
<1> QED BY <1>8, <1>9, <1>10, <1>11, <1>12, <1>13, <1>14, <1>15, <1>16 DEF LimitInv

-----------------------------------------------------------------------------
\* The theorems

\* Nothing has been analysed.
LEMMA LimitInit == ASSUME Init PROVE LimitInv
<1>1. /\ window = <<>> /\ stream = <<>> /\ events = <<>> /\ reported = <<>> /\ jj = 0
      /\ \A c \in Limits : count[c] = 0
      /\ lastSample = "none" /\ lastRep = FALSE /\ withdrawn = {}
  BY DEF Init
<1>2. Len(stream) = 0 /\ Len(window) = 0 /\ Len(events) = 0 /\ Len(reported) = 0
  BY <1>1
<1>3. all = <<>> /\ Len(all) = 0 /\ at = 0
  BY <1>1, <1>2 DEF all, at
<1>4. TypeOK
  <2>1. count \in [Limits -> 0..Over] /\ tmp \in [Limits -> 0..Over]
    BY VoltageAssumption DEF Init
  <2>2. /\ jj \in 0..Len(window) /\ report \in Nat
        /\ events \in Seq(EventType) /\ reported \in Seq(EventType) /\ stream \in Seq(Class)
    BY <1>1, <1>2 DEF Init
  <2>3. Seen(reported) \subseteq Seen(events) /\ withdrawn \subseteq EventType
    BY <1>1
  <2>4. lastVal \in Class /\ lastSample \in Limits \cup {"none"} /\ lastRep \in BOOLEAN
    BY DEF Init, Class, Limits
  <2> QED BY <1>1, <2>1, <2>2, <2>3, <2>4 DEF TypeOK
<1>5. CountInv /\ PlaceInv /\ HeldInv
  BY <1>1 DEF CountInv, PlaceInv, HeldInv
<1>6. FreshInv /\ EndInv
  BY <1>3 DEF FreshInv, EndInv
<1>7. LastInv
  BY <1>1, <1>2 DEF LastInv, HeldBack
<1>8. ListInv /\ WithdrawnInv
  BY <1>1 DEF ListInv, WithdrawnInv
<1>9. ReportsExact
  <2>1. EventsOf(stream) = {}
    <3>1. \A j \in 1..(Len(stream) - 1) : FALSE
      BY <1>2
    <3> QED BY <3>1, InEventsOf
  <2>2. Seen(reported) = {} /\ \A i \in 1..Len(reported) : FALSE
    BY <1>2 DEF Seen
  <2> QED BY <2>1, <2>2 DEF ReportsExact
<1> QED BY <1>4, <1>5, <1>6, <1>7, <1>8, <1>9 DEF LimitInv

\* Between two steps nothing changes.
LEMMA LimitStutter == ASSUME LimitInv, UNCHANGED vars PROVE LimitInv'
<1>1. /\ window' = window /\ jj' = jj /\ report' = report /\ count' = count /\ tmp' = tmp
      /\ lastSample' = lastSample /\ events' = events /\ withdrawn' = withdrawn
      /\ lastRep' = lastRep /\ lastVal' = lastVal /\ stream' = stream /\ reported' = reported
  BY DEF vars, scanVars, endVars, listVars, reportVars
<1>2. all' = all /\ at' = at /\ (Closed' <=> Closed) /\ (Ended' <=> Ended)
  BY <1>1 DEF all, at, Closed, Ended
<1>3. TypeOK' /\ ReportsExact'
  BY <1>1 DEF LimitInv, TypeOK, ReportsExact
<1>4. CountInv' /\ FreshInv' /\ EndInv' /\ PlaceInv' /\ WithdrawnInv'
  BY <1>1, <1>2 DEF LimitInv, CountInv, FreshInv, EndInv, PlaceInv, WithdrawnInv
<1>5. \A c : (HeldBack(c)' <=> HeldBack(c)) /\ HeldEvent(c)' = HeldEvent(c)
  BY <1>1 DEF HeldBack, HeldEvent
<1>6. HeldInv'
  BY <1>1, <1>2, <1>5 DEF LimitInv, HeldInv
<1>7. LastInv'
  <2>1. HeldBack(lastSample)' <=> HeldBack(lastSample)
    BY <1>1 DEF HeldBack
  <2> QED BY <1>1, <1>2, <2>1 DEF LimitInv, LastInv
<1>8. ListInv'
  <2>1. New' = New
    BY <1>1, <1>2 DEF New
  <2>2. \A p, j : Found(p, j)' <=> Found(p, j)
    BY <1>1, <1>2 DEF Found
  <2>3. ASSUME NEW e PROVE e \in FoundEvents' <=> e \in FoundEvents
    BY <1>2, <2>2, InFoundEvents, InFoundEventsNext
  <2>4. FoundEvents' = FoundEvents
    BY <2>3
  <2> QED BY <1>1, <2>1, <2>4 DEF LimitInv, ListInv
<1> QED BY <1>3, <1>4, <1>6, <1>7, <1>8 DEF LimitInv

\* The counts, the list and what is remembered between windows describe the events of the
\* stream, whatever the samples and wherever the windows cut it (VoltageLimitMain,
\* printReports).
THEOREM LimitInvariant == Spec => []LimitInv
<1>1. Init => LimitInv
  BY LimitInit
<1>2. LimitInv /\ [Next]_vars => LimitInv'
  <2> SUFFICES ASSUME LimitInv, [Next]_vars PROVE LimitInv'
    OBVIOUS
  <2>1. ASSUME NEW w \in [1..Window -> Class], Start(w) PROVE LimitInv'
    BY <2>1, StartStep
  <2>2. CASE WithinLimits
    BY <2>2, WithinLimitsStep
  <2>3. CASE Sustain
    BY <2>3, SustainStep
  <2>4. CASE Count
    BY <2>4, CountStep
  <2>5. CASE Close
    BY <2>5, CloseStep
  <2>6. ASSUME NEW others \in BOOLEAN, Finish(others) PROVE LimitInv'
    BY <2>6, FinishStep
  <2>7. CASE UNCHANGED vars
    BY <2>7, LimitStutter
  <2> QED BY <2>1, <2>2, <2>3, <2>4, <2>5, <2>6, <2>7 DEF Next
<1> QED BY <1>1, <1>2, PTL DEF Spec

\* Every variable of the analysis keeps its type, a count never exceeds over, and nothing is
\* published that is not in the list.
THEOREM LimitTypeCorrect == Spec => []TypeOK
<1>1. LimitInv => TypeOK
  BY DEF LimitInv
<1> QED BY <1>1, LimitInvariant, PTL

\* printReports publishes exactly the events of the whole stream that have ended, each once
\* and in order, however many windows they take.
THEOREM ReportsAreExact == Spec => []ReportsExact
<1>1. LimitInv => ReportsExact
  BY DEF LimitInv
<1> QED BY <1>1, LimitInvariant, PTL

\* VoltageLimitMain takes from its list only events that have not been published.
THEOREM NoReportWithdrawn == Spec => []NothingWithdrawn
<1>1. LimitInv => NothingWithdrawn
  <2> SUFFICES ASSUME LimitInv, NEW e \in withdrawn, e \in Seen(reported) PROVE FALSE
    BY DEF NothingWithdrawn
  <2>1. ~e.sustained /\ GoesOn(all, e.end)
    BY DEF LimitInv, WithdrawnInv
  <2>2. e \in EventsOf(stream)
    BY DEF LimitInv, ReportsExact
  <2>3. PICK p \in 0..Len(stream), j \in 1..(Len(stream) - 1) :
          p < j /\ Ends(stream, p, j) /\ e = EventOf(stream, p, j)
    BY <2>2, InEventsOf
  <2>4. e.end = j /\ e.sustained = GoesOn(stream, j)
    BY <2>3, EventFields
  <2>5. /\ stream \in Seq(Class) /\ all \in Seq(Class) /\ Prefix(stream, all)
        /\ p \in Nat /\ j \in Nat /\ j < Len(stream)
    BY PlaceFacts DEF LimitInv
  <2>6. GoesOn(stream, j) <=> GoesOn(all, j)
    BY <2>3, <2>5, EndsPrefix
  <2> QED BY <2>1, <2>4, <2>6
<1> QED BY <1>1, LimitInvariant, PTL
=============================================================================
