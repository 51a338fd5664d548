----------------------------- MODULE C37Reformat -----------------------------
(***************************************************************************)
(* How the C37.118 gateway groups the uPMU's events into buffers of one    *)
(* second (class C37_Reformat).  In the state syncToSec it counts the      *)
(* events from one start of a second to the next; in fillBuffer it saves   *)
(* events and posts what it has saved at the next start of a second.       *)
(*                                                                         *)
(* An event is the second it belongs to and its place in that second; the  *)
(* place stands for the fracSec value, which is 0 for the first event of a *)
(* second and the same for the same place of every second.  The uPMU sends *)
(* its events in order over TCP; a disconnection, or an event of unusual   *)
(* length, keeps some of them from being processed.                        *)
(*                                                                         *)
(* Left out: the statistics counters and previousSec, which no code reads, *)
(* and the branch on sec < presentSec of syncToSec, which cannot be taken  *)
(* because the condition before it has assigned presentSec + 1 to sec.     *)
(***************************************************************************)
EXTENDS Integers, Sequences

CONSTANTS
  SamplesPerSec,  \* events the uPMU sends in a second (120)
  SyncMod,        \* the sanity check of a synchronisation second: a multiple of this (10)
  MaxSec          \* bound: the second in which the stream ends

ASSUME ReformatAssumption ==
  /\ SamplesPerSec \in Nat \ {0}
  /\ SyncMod \in 1..SamplesPerSec
  /\ SamplesPerSec % SyncMod = 0
  /\ MaxSec \in Nat

VARIABLES
  now,            \* the event the uPMU sends next
  lost,           \* an event has been lost (external: the network)
  startsLost,     \* how many times the first event of a second has been lost
  currentState,   \* "syncToSec" or "fillBuffer"
  syncStarted,
  fracSecValues,  \* the values seen in the synchronisation second; sampleCnt is its length
  currentSampleCnt,
  presentSec,
  eventBuf,       \* C37eventBuf
  posted          \* the last buffer given to postProcessUPMUdata, or NoPost

vars == <<now, lost, startsLost, currentState, syncStarted, fracSecValues,
          currentSampleCnt, presentSec, eventBuf, posted>>

NoPost    == [len |-> 0, missing |-> FALSE, events |-> <<>>]
Frac      == 0..(SamplesPerSec - 1)
Event     == [sec : 0..MaxSec, frac : Frac]
sampleCnt == Len(fracSecValues)

\* The connection may come up anywhere in a second.
Init == /\ now \in {e \in Event : e.sec = 0}
        /\ lost = FALSE
        /\ startsLost = 0
        /\ currentState = "syncToSec"
        /\ syncStarted = FALSE
        /\ fracSecValues = <<>>
        /\ currentSampleCnt = 0
        /\ presentSec = 0
        /\ eventBuf = <<>>
        /\ posted = NoPost

-----------------------------------------------------------------------------
\* The uPMU and the network

\* The event after e.
After(e) == IF e.frac + 1 < SamplesPerSec
            THEN [sec |-> e.sec, frac |-> e.frac + 1]
            ELSE [sec |-> e.sec + 1, frac |-> 0]

Sent == /\ now.sec < MaxSec
        /\ now' = After(now)

\* The event never reaches the state machine: it is lost with a connection, or
\* processC37event ignores it because its length is not the typical one.
Lose == /\ Sent
        /\ lost' = TRUE
        /\ startsLost' = startsLost + (IF now.frac = 0 THEN 1 ELSE 0)
        /\ UNCHANGED <<currentState, syncStarted, fracSecValues, currentSampleCnt,
                       presentSec, eventBuf, posted>>

Received == Sent /\ UNCHANGED <<lost, startsLost>>

-----------------------------------------------------------------------------
\* processC37event in the state syncToSec

Syncing == currentState = "syncToSec"

\* Waiting for the first event of a second.
SyncWait == /\ Received /\ Syncing /\ ~syncStarted
            /\ now.frac # 0
            /\ UNCHANGED <<currentState, syncStarted, fracSecValues, currentSampleCnt,
                           presentSec, eventBuf, posted>>

SyncStart == /\ Received /\ Syncing /\ ~syncStarted
             /\ now.frac = 0
             /\ syncStarted' = TRUE
             /\ fracSecValues' = <<0>>
             /\ presentSec' = now.sec
             /\ UNCHANGED <<currentState, currentSampleCnt, eventBuf, posted>>

SyncSample == /\ Received /\ Syncing /\ syncStarted
              /\ now.frac # 0
              /\ fracSecValues' = Append(fracSecValues, now.frac)
              /\ UNCHANGED <<currentState, syncStarted, currentSampleCnt, presentSec,
                             eventBuf, posted>>

\* Mutant of SyncDone: the event that ends the synchronisation second is not saved.
SyncDoneUnsaved == /\ Received /\ Syncing /\ syncStarted
                   /\ now.frac = 0
                   /\ sampleCnt % SyncMod = 0
                   /\ currentState' = "fillBuffer"
                   /\ eventBuf' = <<>>
                   /\ currentSampleCnt' = 1
                   /\ presentSec' = presentSec + 1
                   /\ UNCHANGED <<syncStarted, fracSecValues, posted>>

\* Mutant of SyncDone: the number of events is not checked.
SyncDoneUnchecked == /\ Received /\ Syncing /\ syncStarted
                     /\ now.frac = 0
                     /\ currentState' = "fillBuffer"
                     /\ eventBuf' = <<now>>
                     /\ currentSampleCnt' = 1
                     /\ presentSec' = presentSec + 1
                     /\ UNCHANGED <<syncStarted, fracSecValues, posted>>

\* The next start of a second, whichever second it is of: the condition
\* "sec = presentSec + 1" assigns, so that presentSec only counts up.
SyncDone == /\ Received /\ Syncing /\ syncStarted
            /\ now.frac = 0
            /\ sampleCnt % SyncMod = 0
            /\ currentState' = "fillBuffer"
            /\ eventBuf' = <<now>>
            /\ currentSampleCnt' = 1
            /\ presentSec' = presentSec + 1
            /\ UNCHANGED <<syncStarted, fracSecValues, posted>>

\* The synchronisation second fails the sanity check.
SyncFail == /\ Received /\ Syncing /\ syncStarted
            /\ now.frac = 0
            /\ sampleCnt % SyncMod # 0
            /\ syncStarted' = FALSE
            /\ fracSecValues' = <<>>
            /\ UNCHANGED <<currentState, currentSampleCnt, presentSec, eventBuf, posted>>

-----------------------------------------------------------------------------
\* processC37event in the state fillBuffer

Filling == currentState = "fillBuffer"

SameSecond  == now.sec = presentSec /\ now.frac # 0
SecondAfter == now.sec = presentSec + 1 /\ now.frac = 0

\* Another event of the present second.
FillSample == /\ Received /\ Filling
              /\ SameSecond
              /\ eventBuf' = Append(eventBuf, now)
              /\ currentSampleCnt' = currentSampleCnt + 1
              /\ UNCHANGED <<currentState, syncStarted, fracSecValues, presentSec, posted>>

\* processEventBuffer: the buffer always has room for sampleCnt events, and every saved
\* event is copied into it.
EventBuffer == [len     |-> sampleCnt,
                missing |-> currentSampleCnt # sampleCnt,
                events  |-> eventBuf]

\* Mutant of FillSecond: C37eventBuf is not cleared after it is posted.
FillSecondKeeps == /\ Received /\ Filling
                   /\ SecondAfter
                   /\ posted' = EventBuffer
                   /\ eventBuf' = Append(eventBuf, now)
                   /\ currentSampleCnt' = 1
                   /\ presentSec' = now.sec
                   /\ UNCHANGED <<currentState, syncStarted, fracSecValues>>

\* Mutant of FillSecond: the event that starts the new second is counted but not saved.
FillSecondUnsaved == /\ Received /\ Filling
                     /\ SecondAfter
                     /\ posted' = EventBuffer
                     /\ eventBuf' = <<>>
                     /\ currentSampleCnt' = 1
                     /\ presentSec' = now.sec
                     /\ UNCHANGED <<currentState, syncStarted, fracSecValues>>

\* The next second has begun: post the saved events, clear them, save this event.
FillSecond == /\ Received /\ Filling
              /\ SecondAfter
              /\ posted' = EventBuffer
              /\ eventBuf' = <<now>>
              /\ currentSampleCnt' = 1
              /\ presentSec' = now.sec
              /\ UNCHANGED <<currentState, syncStarted, fracSecValues>>

\* The places at which the synchronisation second had the fracSec value of this event.
PlacesOf(frac) == {i \in 1..sampleCnt : fracSecValues[i] = frac}

\* The start of a second was missed.  The event is not saved, the events saved before it
\* stay, and counting goes on from the place of this event.
FillConfused == /\ Received /\ Filling
                /\ ~SameSecond /\ ~SecondAfter
                /\ presentSec' = now.sec
                /\ \E i \in PlacesOf(now.frac) :
                     /\ \A j \in PlacesOf(now.frac) : i <= j
                     /\ currentSampleCnt' = i
                /\ UNCHANGED <<currentState, syncStarted, fracSecValues, eventBuf, posted>>

\* The start of a second was missed and the event has no place: synchronise again.
FillResync == /\ Received /\ Filling
              /\ ~SameSecond /\ ~SecondAfter
              /\ PlacesOf(now.frac) = {}
              /\ presentSec' = now.sec
              /\ currentState' = "syncToSec"
              /\ syncStarted' = FALSE
              /\ fracSecValues' = <<>>
              /\ UNCHANGED <<currentSampleCnt, eventBuf, posted>>

Next == \/ Lose
        \/ SyncWait \/ SyncStart \/ SyncSample \/ SyncDone \/ SyncFail
        \/ FillSample \/ FillSecond \/ FillConfused \/ FillResync

Spec == Init /\ [][Next]_vars

-----------------------------------------------------------------------------
\* Properties

Buffer == [len : Nat, missing : BOOLEAN, events : Seq(Event)]

\* Every variable keeps its type, and filling starts only from a synchronisation second
\* with a positive multiple of SyncMod events.
TypeOK == /\ now \in Event
          /\ lost \in BOOLEAN /\ startsLost \in 0..MaxSec
          /\ currentState \in {"syncToSec", "fillBuffer"}
          /\ syncStarted \in BOOLEAN
          /\ fracSecValues \in Seq(Frac)
          /\ currentSampleCnt \in Nat
          /\ presentSec \in Nat
          /\ eventBuf \in Seq(Event)
          /\ posted \in Buffer
          /\ Filling => sampleCnt > 0 /\ sampleCnt % SyncMod = 0

Earlier(e, f) == e.sec < f.sec \/ (e.sec = f.sec /\ e.frac < f.frac)

Increasing(es) == \A i, j \in 1..Len(es) : i < j => Earlier(es[i], es[j])

\* Whatever is lost, no event is posted twice and none out of order: the saved events are
\* in the order of their time stamps and all later than those of the last posted buffer.
EventsOnceInOrder ==
  /\ Increasing(eventBuf)
  /\ Increasing(posted.events)
  /\ Filling => \A i \in 1..Len(posted.events), j \in 1..Len(eventBuf) :
                  Earlier(posted.events[i], eventBuf[j])

OneSecond(es) == \A i, j \in 1..Len(es) : es[i].sec = es[j].sec

\* As long as the first event of every second arrives, a posted buffer holds events of
\* one second only, and missingC37events counts it exactly when its number of events is
\* not the number it has room for.
SecondStartsSuffice ==
  startsLost = 0 => /\ OneSecond(posted.events)
                    /\ posted.missing <=> Len(posted.events) # posted.len

\* Events pile up by at most a second for every start of a second that is lost, in the
\* array of the synchronisation second (512 entries, four seconds of 120) and among the
\* saved events; and when no start is lost and the synchronisation second was whole, the
\* saved events fit into the posted buffer.
EventsFit ==
  /\ sampleCnt <= SamplesPerSec * (1 + startsLost)
  /\ Len(eventBuf) <= SamplesPerSec * (1 + startsLost)
  /\ (startsLost = 0 /\ posted.len = SamplesPerSec) => Len(posted.events) <= posted.len

FullSecond(es) == /\ Len(es) = SamplesPerSec
                  /\ OneSecond(es)
                  /\ \A i \in 1..Len(es) : es[i].frac = i - 1

\* On a stream without losses every posted buffer is one whole second, all its events in
\* their places, and is not counted as having missing events.
CleanStreamComplete ==
  (~lost /\ posted # NoPost) => /\ FullSecond(posted.events)
                                /\ posted.len = SamplesPerSec
                                /\ ~posted.missing

\* The archivers take a buffer by its length alone, "buffer does not have full 120
\* samples.  For now, we discard it": what they accept should be a full second.
AcceptedIsFull ==
  posted.len = SamplesPerSec => FullSecond(posted.events)
=============================================================================
