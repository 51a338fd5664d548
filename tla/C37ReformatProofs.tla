------------------------- MODULE C37ReformatProofs -------------------------
(***************************************************************************)
(* The proofs about C37Reformat, for any number of events in a second, any *)
(* sanity check that a whole second passes and streams of any length.  The *)
(* inductive invariant relates what the state machine has counted to the   *)
(* place in the second that the stream has reached.                        *)
(***************************************************************************)
EXTENDS C37Reformat, SequenceTheorems, TLAPS

-----------------------------------------------------------------------------
\* The invariant

\* The second that is under way, and how many of its events have been sent: all of them
\* when the next event starts a second.
Second == IF now.frac = 0 THEN now.sec - 1 ELSE now.sec
Place  == IF now.frac = 0 THEN SamplesPerSec ELSE now.frac

AllBefore(es, e) == \A i \in 1..Len(es) : Earlier(es[i], e)

\* What is saved and what is posted is older than the next event.
OrderInv == /\ EventsOnceInOrder
            /\ AllBefore(eventBuf, now)
            /\ AllBefore(posted.events, now)

\* Once it has started to synchronise the state machine is behind the second under way
\* only if it missed the start of a second.
StepInv == /\ Filling => syncStarted
           /\ syncStarted => sampleCnt > 0 /\ presentSec <= Second
           /\ syncStarted /\ startsLost = 0 => presentSec = Second
           /\ startsLost <= now.sec + (IF now.frac = 0 THEN 0 ELSE 1)

\* Without a lost start the saved events are those of the present second, and counted.
StartsInv == /\ SecondStartsSuffice
             /\ Filling /\ startsLost = 0 =>
                  /\ currentSampleCnt = Len(eventBuf)
                  /\ \A i \in 1..Len(eventBuf) : eventBuf[i].sec = presentSec

\* While the state machine is in step no more is saved than the place in the second, and a
\* second for every lost start; while it is behind nothing is added.
SizeInv ==
  /\ EventsFit
  /\ Syncing /\ syncStarted => sampleCnt <= SamplesPerSec * startsLost + Place
  /\ Filling => Len(eventBuf) <= SamplesPerSec * startsLost
                                  + (IF presentSec = Second THEN Place ELSE 0)

\* Without any loss the events so far of a second are all there.
CleanInv == /\ CleanStreamComplete
            /\ ~lost =>
                 /\ startsLost = 0
                 /\ Syncing /\ syncStarted => sampleCnt = Place
                 /\ Filling => /\ sampleCnt = SamplesPerSec
                               /\ Len(eventBuf) = Place
                               /\ \A i \in 1..Len(eventBuf) : eventBuf[i].frac = i - 1

ReformatInv == TypeOK /\ OrderInv /\ StepInv /\ StartsInv /\ SizeInv /\ CleanInv

-----------------------------------------------------------------------------
\* Facts about the stream

\* The types of the fields of an event.
LEMMA EventTypes ==
  ASSUME TypeOK
  PROVE  /\ now.sec \in 0..MaxSec /\ now.frac \in Frac /\ now.sec \in Nat /\ now.frac \in Nat
         /\ now.frac < SamplesPerSec /\ SamplesPerSec \in Nat /\ SamplesPerSec > 0
         /\ SyncMod \in Nat /\ SyncMod > 0 /\ MaxSec \in Nat
         /\ startsLost \in Nat /\ presentSec \in Nat /\ currentSampleCnt \in Nat
         /\ fracSecValues \in Seq(Frac) /\ sampleCnt \in Nat
         /\ eventBuf \in Seq(Event) /\ Len(eventBuf) \in Nat
         /\ posted.events \in Seq(Event) /\ Len(posted.events) \in Nat
         /\ posted.len \in Nat /\ posted.missing \in BOOLEAN
<1>1. now \in Event /\ posted \in Buffer
  BY DEF TypeOK
<1>2. now.sec \in 0..MaxSec /\ now.frac \in Frac
  BY <1>1 DEF Event
<1>3. posted.events \in Seq(Event) /\ posted.len \in Nat /\ posted.missing \in BOOLEAN
  BY <1>1 DEF Buffer
<1>4. fracSecValues \in Seq(Frac) /\ eventBuf \in Seq(Event)
  BY DEF TypeOK
<1>5. sampleCnt \in Nat /\ Len(eventBuf) \in Nat /\ Len(posted.events) \in Nat
  BY <1>3, <1>4, LenProperties DEF sampleCnt
<1>6. /\ SamplesPerSec \in Nat /\ SamplesPerSec > 0 /\ SyncMod \in Nat /\ SyncMod > 0
      /\ MaxSec \in Nat
  BY ReformatAssumption
<1>7. startsLost \in Nat /\ presentSec \in Nat /\ currentSampleCnt \in Nat
  BY <1>6 DEF TypeOK
<1> QED BY <1>2, <1>3, <1>4, <1>5, <1>6, <1>7 DEF Frac

\* Sending an event moves the place by one; the second under way is then that event's.
LEMMA SentFacts ==
  ASSUME TypeOK, Sent
  PROVE  /\ now' \in Event /\ Earlier(now, now')
         /\ Second' = now.sec /\ Place' = now.frac + 1
         /\ now.frac = 0 => Second = now.sec - 1 /\ Place = SamplesPerSec
         /\ now.frac # 0 => Second = now.sec /\ Place = now.frac
         /\ now.sec < MaxSec
<1>1. /\ now.sec \in Nat /\ now.frac \in Nat /\ now.frac < SamplesPerSec
      /\ SamplesPerSec \in Nat /\ MaxSec \in Nat
  BY EventTypes
<1>2. now.sec < MaxSec /\ now' = After(now)
  BY DEF Sent
<1>3. CASE now.frac + 1 < SamplesPerSec
  <2>1. now' = [sec |-> now.sec, frac |-> now.frac + 1]
    BY <1>2, <1>3 DEF After
  <2>2. now'.sec = now.sec /\ now'.frac = now.frac + 1 /\ now' \in Event
    BY <1>1, <1>2, <1>3, <2>1 DEF Event, Frac
  <2> QED BY <1>1, <1>2, <2>2 DEF Earlier, Second, Place
<1>4. CASE ~(now.frac + 1 < SamplesPerSec)
  <2>1. now' = [sec |-> now.sec + 1, frac |-> 0]
    BY <1>2, <1>4 DEF After
  <2>2. now'.sec = now.sec + 1 /\ now'.frac = 0 /\ now' \in Event
    BY <1>1, <1>2, <2>1 DEF Event, Frac
  <2>3. now.frac + 1 = SamplesPerSec
    BY <1>1, <1>4
  <2> QED BY <1>1, <1>2, <2>2, <2>3 DEF Earlier, Second, Place
<1> QED BY <1>3, <1>4

\* Earlier is a transitive relation.
LEMMA EarlierTransitive ==
  ASSUME NEW e \in Event, NEW f \in Event, NEW g \in Event, Earlier(e, f), Earlier(f, g)
  PROVE  Earlier(e, g)
<1>1. /\ e.sec \in Nat /\ f.sec \in Nat /\ g.sec \in Nat
      /\ e.frac \in Nat /\ f.frac \in Nat /\ g.frac \in Nat
  BY ReformatAssumption DEF Event, Frac
<1> QED BY <1>1 DEF Earlier

\* The sequence of one event.
LEMMA OneEvent ==
  ASSUME NEW S, NEW e \in S
  PROVE  <<e>> \in Seq(S) /\ Len(<<e>>) = 1 /\ <<e>>[1] = e
OBVIOUS

-----------------------------------------------------------------------------
\* Types

\* Every step keeps the types.
LEMMA NextKeepsTypes == StepInv /\ TypeOK /\ [Next]_vars => TypeOK'
<1> SUFFICES ASSUME StepInv, TypeOK, Next PROVE TypeOK'
  BY DEF vars, TypeOK, sampleCnt, Filling
<1>1. /\ Sent /\ now' \in Event /\ now.sec < MaxSec /\ now \in Event
  BY SentFacts DEF Next, Lose, Received, SyncWait, SyncStart, SyncSample, SyncDone, SyncFail,
     FillSample, FillSecond, FillConfused, FillResync, TypeOK
<1> USE EventTypes
<1>2. CASE Lose
  <2>1. startsLost' \in 0..MaxSec
    BY <1>1, <1>2 DEF Lose, StepInv, TypeOK
  <2> QED BY <1>1, <1>2, <2>1 DEF Lose, TypeOK, sampleCnt, Filling
<1>3. CASE SyncWait
  BY <1>1, <1>3 DEF SyncWait, Received, TypeOK, sampleCnt, Filling
<1>4. CASE SyncStart
  <2>1. 0 \in Frac /\ <<0>> \in Seq(Frac)
    BY OneEvent DEF Frac
  <2> QED BY <1>1, <1>4, <2>1 DEF SyncStart, Received, Syncing, TypeOK, sampleCnt, Filling
<1>5. CASE SyncSample
  <2>1. Append(fracSecValues, now.frac) \in Seq(Frac)
    BY AppendProperties
  <2> QED BY <1>1, <1>5, <2>1 DEF SyncSample, Received, Syncing, TypeOK, sampleCnt, Filling
<1>6. CASE SyncDone
  <2>1. <<now>> \in Seq(Event)
    BY <1>1, OneEvent
  <2>2. sampleCnt > 0 /\ sampleCnt % SyncMod = 0 /\ sampleCnt' = sampleCnt
    BY <1>6 DEF SyncDone, StepInv, sampleCnt
  <2> QED BY <1>1, <1>6, <2>1, <2>2 DEF SyncDone, Received, TypeOK, Filling
<1>7. CASE SyncFail
  <2>1. <<>> \in Seq(Frac)
    BY EmptySeq
  <2> QED BY <1>1, <1>7, <2>1 DEF SyncFail, Received, Syncing, TypeOK, sampleCnt, Filling
<1>8. CASE FillSample
  <2>1. Append(eventBuf, now) \in Seq(Event)
    BY <1>1, AppendProperties
  <2> QED BY <1>1, <1>8, <2>1 DEF FillSample, Received, TypeOK, sampleCnt, Filling
<1>9. CASE FillSecond
  <2>1. <<now>> \in Seq(Event)
    BY <1>1, OneEvent
  <2>2. EventBuffer \in Buffer
    BY DEF EventBuffer, Buffer
  <2> QED BY <1>1, <1>9, <2>1, <2>2 DEF FillSecond, Received, TypeOK, sampleCnt, Filling
<1>10. CASE FillConfused
  <2>1. currentSampleCnt' \in Nat
    BY <1>10 DEF FillConfused, PlacesOf
  <2> QED BY <1>1, <1>10, <2>1 DEF FillConfused, Received, TypeOK, sampleCnt, Filling
<1>11. CASE FillResync
  <2>1. <<>> \in Seq(Frac)
    BY EmptySeq
  <2> QED BY <1>1, <1>11, <2>1 DEF FillResync, Received, TypeOK, sampleCnt, Filling
<1> QED BY <1>2, <1>3, <1>4, <1>5, <1>6, <1>7, <1>8, <1>9, <1>10, <1>11 DEF Next

-----------------------------------------------------------------------------
\* Order

\* The saved events and those posted stay where they are and the stream moves on.
LEMMA SameEventsKeepOrder ==
  ASSUME TypeOK, OrderInv, Sent, UNCHANGED <<eventBuf, posted>>, Filling' => Filling
  PROVE  OrderInv'
<1>1. now \in Event /\ now' \in Event /\ Earlier(now, now')
  BY SentFacts DEF TypeOK
<1>2. eventBuf \in Seq(Event) /\ posted.events \in Seq(Event)
  BY EventTypes
<1>3. AllBefore(eventBuf, now') /\ AllBefore(posted.events, now')
  BY <1>1, <1>2, ElementOfSeq, EarlierTransitive DEF OrderInv, AllBefore
<1> QED BY <1>3 DEF OrderInv, EventsOnceInOrder, AllBefore

\* Every step keeps the order of the samples.
LEMMA NextKeepsOrder == TypeOK /\ OrderInv /\ [Next]_vars => OrderInv'
<1> SUFFICES ASSUME TypeOK, OrderInv, Next PROVE OrderInv'
  BY DEF vars, OrderInv, EventsOnceInOrder, Filling
<1>1. /\ Sent /\ now' \in Event /\ Earlier(now, now') /\ now \in Event
  BY SentFacts DEF Next, Lose, Received, SyncWait, SyncStart, SyncSample, SyncDone, SyncFail,
     FillSample, FillSecond, FillConfused, FillResync, TypeOK
<1>2. /\ eventBuf \in Seq(Event) /\ posted.events \in Seq(Event)
      /\ Len(eventBuf) \in Nat /\ Len(posted.events) \in Nat
  BY EventTypes
<1>3. /\ \A i \in 1..Len(eventBuf) : Earlier(eventBuf[i], now) /\ Earlier(eventBuf[i], now')
      /\ \A i \in 1..Len(posted.events) :
           Earlier(posted.events[i], now) /\ Earlier(posted.events[i], now')
  BY <1>1, <1>2, ElementOfSeq, EarlierTransitive DEF OrderInv, AllBefore
<1>4. /\ Len(<<now>>) = 1 /\ <<now>>[1] = now /\ Increasing(<<now>>)
  <2>1. Len(<<now>>) = 1 /\ <<now>>[1] = now
    BY OneEvent
  <2> QED BY <2>1 DEF Increasing
<1>5. CASE SyncDone
  <2>1. eventBuf' = <<now>> /\ posted' = posted
    BY <1>5 DEF SyncDone
  <2>2. \A j \in 1..Len(eventBuf') : eventBuf'[j] = now
    BY <1>4, <2>1
  <2> QED BY <1>1, <1>3, <1>4, <2>1, <2>2 DEF OrderInv, EventsOnceInOrder, AllBefore
<1>6. CASE FillSecond
  <2>1. eventBuf' = <<now>> /\ posted'.events = eventBuf
    BY <1>6 DEF FillSecond, EventBuffer
  <2>2. \A j \in 1..Len(eventBuf') : eventBuf'[j] = now
    BY <1>4, <2>1
  <2> QED BY <1>1, <1>3, <1>4, <2>1, <2>2 DEF OrderInv, EventsOnceInOrder, AllBefore
<1>7. CASE FillSample
  <2> DEFINE n == Len(eventBuf)
  <2>1. eventBuf' = Append(eventBuf, now) /\ posted' = posted /\ Filling
    BY <1>7 DEF FillSample
  <2>2. /\ Len(eventBuf') = n + 1 /\ eventBuf'[n + 1] = now
        /\ \A i \in 1..n : eventBuf'[i] = eventBuf[i]
    BY <1>1, <1>2, <2>1, AppendProperties
  <2>3. ASSUME NEW i \in 1..Len(eventBuf')
        PROVE  \/ i \in 1..n /\ eventBuf'[i] = eventBuf[i]
               \/ i = n + 1 /\ eventBuf'[i] = now
    <3>1. i \in 1..n \/ i = n + 1
      BY <1>2, <2>2
    <3> QED BY <2>2, <3>1
  <2>4. Increasing(eventBuf')
    <3> SUFFICES ASSUME NEW i \in 1..Len(eventBuf'), NEW j \in 1..Len(eventBuf'), i < j
                 PROVE  Earlier(eventBuf'[i], eventBuf'[j])
      BY DEF Increasing
    <3>1. i \in 1..n /\ eventBuf'[i] = eventBuf[i]
      BY <1>2, <2>2, <2>3
    <3>2. CASE j \in 1..n /\ eventBuf'[j] = eventBuf[j]
      BY <3>1, <3>2 DEF OrderInv, EventsOnceInOrder, Increasing
    <3>3. CASE j = n + 1 /\ eventBuf'[j] = now
      BY <1>3, <3>1, <3>3
    <3> QED BY <2>3, <3>2, <3>3
  <2>5. AllBefore(eventBuf', now')
    BY <1>1, <1>3, <2>3 DEF AllBefore
  <2>6. \A i \in 1..Len(posted.events), j \in 1..Len(eventBuf') :
          Earlier(posted.events[i], eventBuf'[j])
    BY <1>3, <2>1, <2>3 DEF OrderInv, EventsOnceInOrder
  <2> QED BY <1>3, <2>1, <2>4, <2>5, <2>6 DEF OrderInv, EventsOnceInOrder, AllBefore
<1>8. CASE Lose \/ SyncWait \/ SyncStart \/ SyncSample \/ SyncFail \/ FillConfused \/ FillResync
  <2>1. UNCHANGED <<eventBuf, posted>> /\ (Filling' => Filling)
    BY <1>8 DEF Lose, SyncWait, SyncStart, SyncSample, SyncFail, FillConfused, FillResync, Filling
  <2> QED BY <1>1, <2>1, SameEventsKeepOrder
<1> QED BY <1>5, <1>6, <1>7, <1>8 DEF Next

-----------------------------------------------------------------------------
\* In step with the stream

\* Every step keeps the place in the loop.
LEMMA NextKeepsStep == TypeOK /\ StepInv /\ [Next]_vars => StepInv'
<1> SUFFICES ASSUME TypeOK, StepInv, Next PROVE StepInv'
  BY DEF vars, StepInv, Filling, sampleCnt, Second
<1>1. /\ Second' = now.sec /\ Sent /\ now.sec < MaxSec /\ now' \in Event
      /\ now.frac = 0 => Second = now.sec - 1
      /\ now.frac # 0 => Second = now.sec
  BY SentFacts DEF Next, Lose, Received, SyncWait, SyncStart, SyncSample, SyncDone, SyncFail,
     FillSample, FillSecond, FillConfused, FillResync
<1>2. /\ now.sec \in Nat /\ now.frac \in Nat /\ startsLost \in Nat /\ presentSec \in Nat
      /\ sampleCnt \in Nat /\ fracSecValues \in Seq(Frac) /\ now.frac \in Frac
  BY EventTypes
<1>3. ASSUME startsLost' <= startsLost + (IF now.frac = 0 THEN 1 ELSE 0), startsLost' \in Nat
      PROVE  startsLost' <= now'.sec + (IF now'.frac = 0 THEN 0 ELSE 1)
  <2>1. startsLost <= now.sec + (IF now.frac = 0 THEN 0 ELSE 1)
    BY DEF StepInv
  <2>2. startsLost' <= now.sec + 1
    BY <1>2, <1>3, <2>1
  <2>3. CASE now.frac + 1 < SamplesPerSec
    BY <1>1, <1>2, <2>2, <2>3 DEF Sent, After
  <2>4. CASE ~(now.frac + 1 < SamplesPerSec)
    BY <1>1, <1>2, <2>2, <2>4 DEF Sent, After
  <2> QED BY <2>3, <2>4
<1>4. ASSUME Received PROVE startsLost' <= now'.sec + (IF now'.frac = 0 THEN 0 ELSE 1)
  BY <1>2, <1>3, <1>4 DEF Received
<1>5. CASE Lose
  <2>1. /\ startsLost' = startsLost + (IF now.frac = 0 THEN 1 ELSE 0)
        /\ UNCHANGED <<currentState, syncStarted, fracSecValues, presentSec>>
    BY <1>5 DEF Lose
  <2>2. startsLost' \in Nat /\ startsLost' <= startsLost + (IF now.frac = 0 THEN 1 ELSE 0)
    BY <1>2, <2>1
  <2>3. startsLost' <= now'.sec + (IF now'.frac = 0 THEN 0 ELSE 1)
    BY <1>3, <2>2
  <2>4. syncStarted => presentSec <= now.sec
    BY <1>1, <1>2 DEF StepInv
  <2>5. syncStarted /\ startsLost' = 0 => presentSec = now.sec
    BY <1>1, <1>2, <2>1 DEF StepInv
  <2> QED BY <1>1, <2>1, <2>3, <2>4, <2>5 DEF StepInv, Filling, sampleCnt
<1>6. CASE SyncWait
  BY <1>1, <1>2, <1>4, <1>6 DEF SyncWait, Received, Syncing, StepInv, Filling
<1>7. CASE SyncStart
  <2>1. sampleCnt' = 1
    BY <1>7 DEF SyncStart, sampleCnt
  <2> QED BY <1>1, <1>2, <1>4, <1>7, <2>1 DEF SyncStart, Received, Syncing, StepInv, Filling
<1>8. CASE SyncSample
  <2>1. sampleCnt' = sampleCnt + 1
    BY <1>2, <1>8, AppendProperties DEF SyncSample, sampleCnt
  <2> QED BY <1>1, <1>2, <1>4, <1>8, <2>1 DEF SyncSample, Received, Syncing, StepInv, Filling
<1>9. CASE SyncDone
  <2>1. sampleCnt' = sampleCnt /\ syncStarted' /\ syncStarted
    BY <1>9 DEF SyncDone, sampleCnt
  <2>2. presentSec' = presentSec + 1 /\ now.frac = 0 /\ startsLost' = startsLost /\ Received
    BY <1>9 DEF SyncDone, Received
  <2> QED BY <1>1, <1>2, <1>4, <2>1, <2>2 DEF StepInv
<1>10. CASE SyncFail
  BY <1>4, <1>10 DEF SyncFail, Syncing, StepInv, Filling
<1>11. CASE FillSample
  <2>1. UNCHANGED <<currentState, syncStarted, sampleCnt, presentSec, startsLost>>
        /\ now.sec = presentSec /\ Received /\ now.frac # 0
    BY <1>11 DEF FillSample, Received, SameSecond, sampleCnt
  <2> QED BY <1>1, <1>2, <1>4, <2>1 DEF StepInv, Filling
<1>12. CASE FillSecond
  <2>1. UNCHANGED <<currentState, syncStarted, sampleCnt, startsLost>>
        /\ presentSec' = now.sec /\ Received
    BY <1>12 DEF FillSecond, Received, sampleCnt
  <2> QED BY <1>1, <1>2, <1>4, <2>1 DEF StepInv, Filling
<1>13. CASE FillConfused
  <2>1. UNCHANGED <<currentState, syncStarted, sampleCnt, startsLost>>
        /\ presentSec' = now.sec /\ Received
    BY <1>13 DEF FillConfused, Received, sampleCnt
  <2> QED BY <1>1, <1>2, <1>4, <2>1 DEF StepInv, Filling
<1>14. CASE FillResync
  BY <1>4, <1>14 DEF FillResync, StepInv, Filling
<1> QED BY <1>5, <1>6, <1>7, <1>8, <1>9, <1>10, <1>11, <1>12, <1>13, <1>14 DEF Next

\* As long as no start of a second is lost the state machine finds itself in step.
LEMMA NeverConfused ==
  ASSUME TypeOK, StepInv, startsLost = 0, FillConfused \/ FillResync
  PROVE  FALSE
<1>1. Sent /\ Filling /\ ~SameSecond /\ ~SecondAfter
  BY DEF FillConfused, FillResync, Received
<1>2. presentSec = Second
  BY <1>1 DEF StepInv
<1>3. /\ now.frac = 0 => Second = now.sec - 1
      /\ now.frac # 0 => Second = now.sec
      /\ now.sec \in Nat
  BY <1>1, SentFacts, EventTypes
<1> QED BY <1>1, <1>2, <1>3 DEF SameSecond, SecondAfter

-----------------------------------------------------------------------------
\* One second to a buffer

\* Every step keeps the starts of seconds.
LEMMA NextKeepsStarts == TypeOK /\ StepInv /\ StartsInv /\ [Next]_vars => StartsInv'
<1> SUFFICES ASSUME TypeOK, StepInv, StartsInv, Next PROVE StartsInv'
  BY DEF vars, StartsInv, SecondStartsSuffice, Filling
<1>1. Sent /\ now \in Event
  BY DEF Next, Lose, Received, SyncWait, SyncStart, SyncSample, SyncDone, SyncFail,
     FillSample, FillSecond, FillConfused, FillResync, TypeOK
<1>2. /\ now.sec \in Nat /\ now.frac \in Nat /\ startsLost \in Nat /\ presentSec \in Nat
      /\ eventBuf \in Seq(Event) /\ Len(eventBuf) \in Nat /\ sampleCnt \in Nat
      /\ currentSampleCnt \in Nat
  BY EventTypes
<1>3. startsLost' = 0 => startsLost = 0
  BY <1>2 DEF Next, Lose, Received, SyncWait, SyncStart, SyncSample, SyncDone, SyncFail,
     FillSample, FillSecond, FillConfused, FillResync
<1> SUFFICES ASSUME startsLost' = 0, startsLost = 0 PROVE StartsInv'
  BY <1>3 DEF StartsInv, SecondStartsSuffice
<1>4. CASE SyncDone
  <2>1. /\ eventBuf' = <<now>> /\ posted' = posted /\ currentSampleCnt' = 1
        /\ presentSec' = presentSec + 1 /\ now.frac = 0 /\ syncStarted
    BY <1>4 DEF SyncDone
  <2>2. presentSec = now.sec - 1
    BY <1>1, <2>1, SentFacts DEF StepInv
  <2>3. presentSec' = now.sec
    BY <1>2, <2>1, <2>2
  <2>4. Len(eventBuf') = 1 /\ eventBuf'[1] = now
    BY <1>1, <2>1, OneEvent
  <2> QED BY <2>1, <2>3, <2>4 DEF StartsInv, SecondStartsSuffice
<1>5. CASE FillSecond
  <2>1. /\ eventBuf' = <<now>> /\ posted' = EventBuffer /\ currentSampleCnt' = 1
        /\ presentSec' = now.sec /\ Filling
    BY <1>5 DEF FillSecond
  <2>2. Len(eventBuf') = 1 /\ eventBuf'[1] = now
    BY <1>1, <2>1, OneEvent
  <2>3. /\ posted'.events = eventBuf /\ posted'.len = sampleCnt
        /\ posted'.missing = (currentSampleCnt # sampleCnt)
    BY <2>1 DEF EventBuffer
  <2>4. currentSampleCnt = Len(eventBuf) /\ OneSecond(eventBuf)
    BY <2>1 DEF StartsInv, OneSecond
  <2>5. posted'.missing <=> Len(posted'.events) # posted'.len
    BY <2>3, <2>4
  <2> QED BY <2>1, <2>2, <2>3, <2>4, <2>5 DEF StartsInv, SecondStartsSuffice
<1>6. CASE FillSample
  <2>1. /\ eventBuf' = Append(eventBuf, now) /\ posted' = posted /\ presentSec' = presentSec
        /\ currentSampleCnt' = currentSampleCnt + 1 /\ Filling /\ now.sec = presentSec
    BY <1>6 DEF FillSample, SameSecond
  <2>2. /\ Len(eventBuf') = Len(eventBuf) + 1 /\ eventBuf'[Len(eventBuf) + 1] = now
        /\ \A i \in 1..Len(eventBuf) : eventBuf'[i] = eventBuf[i]
    BY <1>1, <1>2, <2>1, AppendProperties
  <2>3. currentSampleCnt = Len(eventBuf)
        /\ \A i \in 1..Len(eventBuf) : eventBuf[i].sec = presentSec
    BY <2>1 DEF StartsInv
  <2>4. ASSUME NEW i \in 1..Len(eventBuf') PROVE eventBuf'[i].sec = presentSec
    <3>1. i \in 1..Len(eventBuf) \/ i = Len(eventBuf) + 1
      BY <1>2, <2>2
    <3> QED BY <2>1, <2>2, <2>3, <3>1
  <2> QED BY <2>1, <2>2, <2>3, <2>4 DEF StartsInv, SecondStartsSuffice
<1>7. CASE Lose
  BY <1>7 DEF Lose, StartsInv, SecondStartsSuffice, Filling
<1>8. CASE SyncWait \/ SyncStart \/ SyncSample \/ SyncFail
  <2>1. posted' = posted /\ ~Filling'
    BY <1>8 DEF SyncWait, SyncStart, SyncSample, SyncFail, Syncing, Filling
  <2> QED BY <2>1 DEF StartsInv, SecondStartsSuffice
<1>9. CASE FillConfused \/ FillResync
  BY <1>9, NeverConfused
<1> QED BY <1>4, <1>5, <1>6, <1>7, <1>8, <1>9 DEF Next

-----------------------------------------------------------------------------
\* How much is saved

\* Products of natural numbers.
LEMMA MultFacts ==
  ASSUME NEW s \in Nat, NEW n \in Nat
  PROVE  /\ s * n \in Nat
         /\ s * (n + 1) = s * n + s
         /\ s * (1 + n) = s * n + s
         /\ n > 0 => s * n >= s
         /\ s * 0 = 0
<1>1. s * n \in Nat /\ s * (n + 1) = s * n + s /\ s * (1 + n) = s * n + s /\ s * 0 = 0
  OBVIOUS
<1>2. ASSUME n > 0 PROVE s * n >= s
  <2>1. n - 1 \in Nat /\ s * (n - 1) \in Nat
    BY <1>2
  <2>2. s * n = s * (n - 1) + s
    BY <1>2
  <2> QED BY <2>1, <2>2
<1> QED BY <1>1, <1>2

\* Every step keeps the size of an event within its limit.
LEMMA NextKeepsSize == TypeOK /\ StepInv /\ SizeInv /\ [Next]_vars => SizeInv'
<1> SUFFICES ASSUME TypeOK, StepInv, SizeInv, Next PROVE SizeInv'
  BY DEF vars, SizeInv, EventsFit, Filling, Syncing, sampleCnt, Place, Second
<1> DEFINE s == SamplesPerSec
           m == s * startsLost
<1>1. /\ Second' = now.sec /\ Place' = now.frac + 1 /\ Sent /\ now \in Event
      /\ now.frac = 0 => Second = now.sec - 1 /\ Place = s
      /\ now.frac # 0 => Second = now.sec /\ Place = now.frac
  BY SentFacts DEF Next, Lose, Received, SyncWait, SyncStart, SyncSample, SyncDone, SyncFail,
     FillSample, FillSecond, FillConfused, FillResync, TypeOK
<1>2. /\ now.sec \in Nat /\ now.frac \in Nat /\ startsLost \in Nat /\ presentSec \in Nat
      /\ eventBuf \in Seq(Event) /\ Len(eventBuf) \in Nat /\ sampleCnt \in Nat
      /\ fracSecValues \in Seq(Frac) /\ now.frac \in Frac /\ now.frac < s
      /\ s \in Nat /\ s > 0 /\ posted.len \in Nat /\ Len(posted.events) \in Nat
  BY EventTypes
<1>3. /\ m \in Nat /\ s * (1 + startsLost) = m + s
      /\ startsLost > 0 => m >= s
      /\ startsLost = 0 => m = 0
  BY <1>2, MultFacts
<1> HIDE DEF m, s
<1>4. /\ sampleCnt <= m + s /\ Len(eventBuf) <= m + s
      /\ (startsLost = 0 /\ posted.len = s) => Len(posted.events) <= posted.len
      /\ Syncing /\ syncStarted => sampleCnt <= m + Place
      /\ Filling => Len(eventBuf) <= m + (IF presentSec = Second THEN Place ELSE 0)
  BY <1>3 DEF SizeInv, EventsFit, m, s
<1>5. ASSUME startsLost' = startsLost,
             sampleCnt' <= m + s, Len(eventBuf)' <= m + s,
             (startsLost = 0 /\ posted'.len = s) => Len(posted'.events) <= posted'.len,
             Syncing' /\ syncStarted' => sampleCnt' <= m + Place',
             Filling' => Len(eventBuf)' <= m + (IF presentSec' = now.sec THEN Place' ELSE 0)
      PROVE  SizeInv'
  BY <1>1, <1>3, <1>5 DEF SizeInv, EventsFit, m, s
<1>6. CASE Lose
  <2>1. /\ startsLost' = startsLost + (IF now.frac = 0 THEN 1 ELSE 0)
        /\ UNCHANGED <<currentState, syncStarted, fracSecValues, presentSec, eventBuf, posted>>
        /\ UNCHANGED <<sampleCnt, Syncing, Filling, Len(eventBuf)>>
    BY <1>6 DEF Lose, sampleCnt, Syncing, Filling
  <2>2. CASE now.frac = 0
    <3>1. startsLost' = startsLost + 1
      BY <2>1, <2>2
    <3>2. s * startsLost' = m + s /\ s * (1 + startsLost') = m + s + s
      <4>1. startsLost' \in Nat
        BY <1>2, <3>1
      <4>2. \A n \in Nat : s * (1 + n) = s * n + s
        BY <1>2, MultFacts
      <4> QED BY <1>2, <1>3, <3>1, <4>1, <4>2 DEF m
    <3>3. startsLost' # 0 /\ presentSec' = presentSec
      BY <1>2, <2>1, <3>1
    <3>4. syncStarted => presentSec # now.sec
      BY <1>1, <1>2, <2>2 DEF StepInv
    <3>5. sampleCnt <= m + s + s /\ Len(eventBuf) <= m + s + s
      BY <1>2, <1>3, <1>4
    <3>6. Syncing /\ syncStarted => sampleCnt <= m + s + Place'
      BY <1>1, <1>2, <1>3, <1>4
    <3>7. Filling => Len(eventBuf) <= m + s + (IF presentSec' = Second' THEN Place' ELSE 0)
      BY <1>1, <1>2, <1>3, <1>4
    <3> QED BY <2>1, <3>2, <3>3, <3>5, <3>6, <3>7 DEF SizeInv, EventsFit, s
  <2>3. CASE now.frac # 0
    <3>1. startsLost' = startsLost
      BY <1>2, <2>1, <2>3
    <3>2. Syncing /\ syncStarted => sampleCnt <= m + Place'
      BY <1>1, <1>2, <1>3, <1>4, <2>3
    <3>3. Filling => Len(eventBuf) <= m + (IF presentSec = now.sec THEN Place' ELSE 0)
      BY <1>1, <1>2, <1>3, <1>4, <2>3
    <3> QED BY <1>4, <1>5, <2>1, <3>1, <3>2, <3>3
  <2> QED BY <2>2, <2>3
<1>7. CASE SyncWait
  BY <1>4, <1>5, <1>7 DEF SyncWait, Received, Syncing, Filling, sampleCnt
<1>8. CASE SyncStart
  <2>1. sampleCnt' = 1
    BY <1>8 DEF SyncStart, sampleCnt
  <2>2. 1 <= m + s /\ 1 <= m + Place'
    BY <1>1, <1>2, <1>3
  <2> QED BY <1>4, <1>5, <1>8, <2>1, <2>2 DEF SyncStart, Received, Syncing, Filling
<1>9. CASE SyncSample
  <2>1. sampleCnt' = sampleCnt + 1
    BY <1>2, <1>9, AppendProperties DEF SyncSample, sampleCnt
  <2>2. now.frac # 0 /\ sampleCnt <= m + now.frac
    BY <1>1, <1>4, <1>9 DEF SyncSample
  <2>3. sampleCnt' <= m + s /\ sampleCnt' <= m + Place'
    BY <1>1, <1>2, <1>3, <2>1, <2>2
  <2> QED BY <1>4, <1>5, <1>9, <2>3 DEF SyncSample, Received, Syncing, Filling
<1>10. CASE SyncDone
  <2>1. Len(eventBuf)' = 1
    BY <1>1, <1>10, OneEvent DEF SyncDone
  <2>2. /\ startsLost' = startsLost /\ sampleCnt' = sampleCnt /\ posted' = posted
        /\ presentSec' = presentSec + 1 /\ now.frac = 0 /\ syncStarted /\ ~Syncing'
    BY <1>10 DEF SyncDone, Received, sampleCnt, Syncing
  <2>3. presentSec' # now.sec => startsLost > 0
    BY <1>1, <1>2, <2>2 DEF StepInv
  <2>4. 1 <= m + s /\ 1 <= m + (IF presentSec' = now.sec THEN Place' ELSE 0)
    BY <1>1, <1>2, <1>3, <2>3
  <2> QED BY <1>4, <1>5, <2>1, <2>2, <2>4
<1>11. CASE SyncFail
  <2>1. sampleCnt' = 0 /\ 0 <= m + s
    BY <1>2, <1>3, <1>11, EmptySeq DEF SyncFail, sampleCnt
  <2> QED BY <1>4, <1>5, <1>11, <2>1 DEF SyncFail, Received, Syncing, Filling
<1>12. CASE FillSample
  <2>1. Len(eventBuf)' = Len(eventBuf) + 1
    BY <1>1, <1>2, <1>12, AppendProperties DEF FillSample
  <2>2. /\ startsLost' = startsLost /\ sampleCnt' = sampleCnt /\ posted' = posted
        /\ presentSec' = presentSec /\ Filling /\ Filling' /\ ~Syncing'
        /\ now.frac # 0 /\ now.sec = presentSec
    BY <1>12 DEF FillSample, Received, sampleCnt, Syncing, Filling, SameSecond
  <2>3. Len(eventBuf) <= m + now.frac
    BY <1>1, <1>4, <2>2
  <2>4. Len(eventBuf) + 1 <= m + s /\ Len(eventBuf) + 1 <= m + Place'
    BY <1>1, <1>2, <1>3, <2>3
  <2> QED BY <1>4, <1>5, <2>1, <2>2, <2>4
<1>13. CASE FillSecond
  <2>1. Len(eventBuf)' = 1
    BY <1>1, <1>13, OneEvent DEF FillSecond
  <2>2. /\ startsLost' = startsLost /\ sampleCnt' = sampleCnt /\ posted'.events = eventBuf
        /\ presentSec' = now.sec /\ Filling /\ ~Syncing'
        /\ now.frac = 0 /\ now.sec = presentSec + 1
    BY <1>13 DEF FillSecond, Received, sampleCnt, Syncing, Filling, SecondAfter, EventBuffer
  <2>3. startsLost = 0 => Len(eventBuf) <= s
    BY <1>2, <1>3, <1>4
  <2>4. 1 <= m + s /\ 1 <= m + Place'
    BY <1>1, <1>2, <1>3
  <2> QED BY <1>4, <1>5, <2>1, <2>2, <2>3, <2>4
<1>14. CASE FillConfused
  <2>1. /\ startsLost' = startsLost /\ sampleCnt' = sampleCnt /\ posted' = posted
        /\ presentSec' = now.sec /\ Filling /\ ~Syncing' /\ eventBuf' = eventBuf
        /\ ~SameSecond /\ ~SecondAfter
    BY <1>14 DEF FillConfused, Received, sampleCnt, Syncing, Filling
  <2>2. presentSec # Second
    BY <1>1, <1>2, <2>1 DEF SameSecond, SecondAfter
  <2>3. Len(eventBuf) <= m + Place'
    BY <1>1, <1>2, <1>3, <1>4, <2>1, <2>2, SMTT(60)
  <2> QED BY <1>4, <1>5, <2>1, <2>3
<1>15. CASE FillResync
  <2>1. sampleCnt' = 0 /\ 0 <= m + s
    BY <1>2, <1>3, <1>15, EmptySeq DEF FillResync, sampleCnt
  <2> QED BY <1>4, <1>5, <1>15, <2>1 DEF FillResync, Received, Syncing, Filling
<1> QED BY <1>6, <1>7, <1>8, <1>9, <1>10, <1>11, <1>12, <1>13, <1>14, <1>15 DEF Next

-----------------------------------------------------------------------------
\* A stream without losses

\* Every step keeps a clean stream complete.
LEMMA NextKeepsClean ==
  TypeOK /\ StepInv /\ StartsInv /\ CleanInv /\ [Next]_vars => CleanInv'
<1> SUFFICES ASSUME TypeOK, StepInv, StartsInv, CleanInv, Next PROVE CleanInv'
  BY DEF vars, CleanInv, CleanStreamComplete, Filling, Syncing, sampleCnt, Place
<1> DEFINE s == SamplesPerSec
<1>1. /\ Place' = now.frac + 1 /\ Sent /\ now \in Event
      /\ now.frac = 0 => Place = s
      /\ now.frac # 0 => Place = now.frac
  BY SentFacts DEF Next, Lose, Received, SyncWait, SyncStart, SyncSample, SyncDone, SyncFail,
     FillSample, FillSecond, FillConfused, FillResync, TypeOK
<1>2. /\ now.frac \in Nat /\ eventBuf \in Seq(Event) /\ Len(eventBuf) \in Nat
      /\ sampleCnt \in Nat /\ fracSecValues \in Seq(Frac) /\ now.frac \in Frac
      /\ s \in Nat /\ s > 0
  BY EventTypes
<1>3. CASE Lose
  BY <1>3 DEF Lose, CleanInv, CleanStreamComplete
<1> SUFFICES ASSUME ~lost, ~lost', Received, ~Lose PROVE CleanInv'
  BY <1>3 DEF CleanInv, CleanStreamComplete, Next, Received, SyncWait, SyncStart, SyncSample,
     SyncDone, SyncFail, FillSample, FillSecond, FillConfused, FillResync
<1>4. /\ startsLost = 0 /\ startsLost' = 0
      /\ Syncing /\ syncStarted => sampleCnt = Place
      /\ Filling => sampleCnt = s /\ Len(eventBuf) = Place
      /\ Filling => \A i \in 1..Len(eventBuf) : eventBuf[i].frac = i - 1
      /\ CleanStreamComplete
  BY DEF CleanInv, Received
<1>5. CASE SyncWait
  BY <1>4, <1>5 DEF SyncWait, CleanInv, CleanStreamComplete, Syncing, Filling
<1>6. CASE SyncStart
  <2>1. sampleCnt' = 1 /\ Place' = 1
    BY <1>1, <1>2, <1>6 DEF SyncStart, sampleCnt
  <2> QED BY <1>4, <1>6, <2>1 DEF SyncStart, CleanInv, CleanStreamComplete, Syncing, Filling
<1>7. CASE SyncSample
  <2>1. sampleCnt' = sampleCnt + 1
    BY <1>2, <1>7, AppendProperties DEF SyncSample, sampleCnt
  <2>2. sampleCnt' = Place'
    BY <1>1, <1>2, <1>4, <1>7, <2>1 DEF SyncSample
  <2> QED BY <1>4, <1>7, <2>2 DEF SyncSample, CleanInv, CleanStreamComplete, Syncing, Filling
<1>8. CASE SyncDone
  <2>1. /\ eventBuf' = <<now>> /\ posted' = posted /\ ~Syncing' /\ now.frac = 0
        /\ sampleCnt' = sampleCnt /\ sampleCnt = Place
    BY <1>4, <1>8 DEF SyncDone, Syncing, sampleCnt
  <2>2. Len(eventBuf') = 1 /\ eventBuf'[1] = now /\ Place' = 1 /\ sampleCnt' = s
    BY <1>1, <1>2, <2>1, OneEvent
  <2>3. \A i \in 1..Len(eventBuf') : eventBuf'[i].frac = i - 1
    BY <2>1, <2>2
  <2> QED BY <1>4, <2>1, <2>2, <2>3 DEF CleanInv, CleanStreamComplete
<1>9. CASE SyncFail
  <2>1. sampleCnt = s /\ sampleCnt % SyncMod # 0
    BY <1>1, <1>4, <1>9 DEF SyncFail
  <2> QED BY <2>1, ReformatAssumption
<1>10. CASE FillSample
  <2>1. /\ eventBuf' = Append(eventBuf, now) /\ posted' = posted /\ Filling /\ ~Syncing'
        /\ sampleCnt' = sampleCnt /\ now.frac # 0
    BY <1>10 DEF FillSample, Syncing, Filling, sampleCnt, SameSecond
  <2>2. /\ Len(eventBuf') = Len(eventBuf) + 1 /\ eventBuf'[Len(eventBuf) + 1] = now
        /\ \A i \in 1..Len(eventBuf) : eventBuf'[i] = eventBuf[i]
    BY <1>1, <1>2, <2>1, AppendProperties
  <2>3. Len(eventBuf) = now.frac /\ Len(eventBuf') = Place'
    BY <1>1, <1>4, <2>1, <2>2
  <2>4. ASSUME NEW i \in 1..Len(eventBuf') PROVE eventBuf'[i].frac = i - 1
    <3>1. i \in 1..Len(eventBuf) \/ i = Len(eventBuf) + 1
      BY <1>2, <2>2
    <3>2. CASE i \in 1..Len(eventBuf)
      BY <1>4, <2>1, <2>2, <3>2
    <3>3. CASE i = Len(eventBuf) + 1
      BY <1>2, <2>2, <2>3, <3>3
    <3> QED BY <3>1, <3>2, <3>3
  <2> QED BY <1>4, <2>1, <2>3, <2>4 DEF CleanInv, CleanStreamComplete
<1>11. CASE FillSecond
  <2>1. /\ eventBuf' = <<now>> /\ posted' = EventBuffer /\ Filling /\ ~Syncing'
        /\ now.frac = 0 /\ sampleCnt' = sampleCnt
    BY <1>11 DEF FillSecond, Syncing, Filling, sampleCnt, SecondAfter
  <2>2. Len(eventBuf') = 1 /\ eventBuf'[1] = now /\ Place' = 1
    BY <1>1, <1>2, <2>1, OneEvent
  <2>3. \A i \in 1..Len(eventBuf') : eventBuf'[i].frac = i - 1
    BY <2>1, <2>2
  <2>4. /\ posted'.events = eventBuf /\ posted'.len = sampleCnt
        /\ posted'.missing = (currentSampleCnt # sampleCnt)
    BY <2>1 DEF EventBuffer
  <2>5. Len(eventBuf) = s /\ sampleCnt = s /\ currentSampleCnt = s
    BY <1>1, <1>4, <2>1 DEF StartsInv
  <2>6. FullSecond(eventBuf)
    BY <1>4, <2>1, <2>5 DEF FullSecond, OneSecond, StartsInv
  <2> QED BY <1>4, <2>1, <2>2, <2>3, <2>4, <2>5, <2>6 DEF CleanInv, CleanStreamComplete
<1>12. CASE FillConfused \/ FillResync
  BY <1>4, <1>12, NeverConfused
<1> QED BY <1>5, <1>6, <1>7, <1>8, <1>9, <1>10, <1>11, <1>12 DEF Next

-----------------------------------------------------------------------------
\* The theorems

\* The initial states.
LEMMA InitHasInv == Init => ReformatInv
<1> SUFFICES ASSUME Init PROVE ReformatInv
  OBVIOUS
<1>1. /\ <<>> \in Seq(Frac) /\ <<>> \in Seq(Event) /\ Len(<<>>) = 0
  BY EmptySeq
<1>2. NoPost \in Buffer /\ NoPost.events = <<>> /\ NoPost.len = 0 /\ NoPost.missing = FALSE
  BY <1>1 DEF NoPost, Buffer
<1>3. now \in Event /\ now.sec = 0
  BY DEF Init
<1>4. TypeOK
  <2>1. 0 \in 0..MaxSec /\ 0 \in Nat
    BY ReformatAssumption
  <2> QED BY <1>1, <1>2, <1>3, <2>1 DEF Init, TypeOK, Filling
<1>5. now.frac \in Nat /\ SamplesPerSec \in Nat
  BY <1>4, EventTypes
<1>6. OrderInv
  BY <1>1, <1>2 DEF Init, OrderInv, EventsOnceInOrder, Increasing, AllBefore, Filling
<1>7. StepInv
  BY <1>3 DEF Init, StepInv, Filling
<1>8. StartsInv
  BY <1>1, <1>2 DEF Init, StartsInv, SecondStartsSuffice, OneSecond, Filling
<1>9. SizeInv
  <2>1. sampleCnt = 0 /\ Len(eventBuf) = 0 /\ Len(posted.events) = 0 /\ posted.len = 0
        /\ startsLost = 0 /\ ~syncStarted /\ ~Filling
    BY <1>1, <1>2 DEF Init, Filling, sampleCnt
  <2>2. SamplesPerSec * (1 + 0) >= 0
    BY <1>5
  <2> QED BY <2>1, <2>2 DEF SizeInv, EventsFit
<1>10. CleanInv
  BY DEF Init, CleanInv, CleanStreamComplete, Filling
<1> QED BY <1>4, <1>6, <1>7, <1>8, <1>9, <1>10 DEF ReformatInv

\* ReformatInv is an invariant of the reformatter.
THEOREM ReformatInvariant == Spec => []ReformatInv
<1>1. ReformatInv /\ [Next]_vars => ReformatInv'
  BY NextKeepsTypes, NextKeepsOrder, NextKeepsStep, NextKeepsStarts, NextKeepsSize,
     NextKeepsClean DEF ReformatInv
<1> QED BY <1>1, InitHasInv, PTL DEF Spec

\* The variables keep their types, and fillBuffer is entered only after a synchronisation
\* second that passed the check of its number of events.
THEOREM ReformatTypeCorrect == Spec => []TypeOK
<1>1. ReformatInv => TypeOK
  BY DEF ReformatInv
<1> QED BY <1>1, ReformatInvariant, PTL

\* Whatever is lost on the way, processC37event posts no event twice and none out of order.
THEOREM NoEventTwice == Spec => []EventsOnceInOrder
<1>1. ReformatInv => EventsOnceInOrder
  BY DEF ReformatInv, OrderInv
<1> QED BY <1>1, ReformatInvariant, PTL

\* If no first event of a second is lost, every buffer is of one second and the count of
\* missing events is right.
THEOREM OneSecondPerBuffer == Spec => []SecondStartsSuffice
<1>1. ReformatInv => SecondStartsSuffice
  BY DEF ReformatInv, StartsInv
<1> QED BY <1>1, ReformatInvariant, PTL

\* The events saved, and those of the synchronisation second, are at most a second's and
\* another second's for every start of a second that was lost.
THEOREM SavedEventsBounded == Spec => []EventsFit
<1>1. ReformatInv => EventsFit
  BY DEF ReformatInv, SizeInv
<1> QED BY <1>1, ReformatInvariant, PTL

\* A stream without losses is posted in whole seconds.
THEOREM CleanStreamWhole == Spec => []CleanStreamComplete
<1>1. ReformatInv => CleanStreamComplete
  BY DEF ReformatInv, CleanInv
<1> QED BY <1>1, ReformatInvariant, PTL
=============================================================================
