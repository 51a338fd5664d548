---------------------------- MODULE VoltageLimit ----------------------------
(***************************************************************************)
(* The voltage analytics of serviceDataArchiverRabbitMQ (upmuanalyticsASU):*)
(* every second of data is a window; events are runs of samples outside the*)
(* limits, which may go on over any number of windows.  VoltageLimitMain   *)
(* finds the events of a window, printReports picks the ones to publish:   *)
(* an event that reaches the end of its window is held back, and withdrawn *)
(* and found anew when it goes on in the next window.                      *)
(*                                                                         *)
(* A sample is its class: "ok", "sag" (0.1 to 0.9 of the nominal voltage), *)
(* "interruption" (below 0.1) or "swell" (1.1 and above).  The phases are  *)
(* analysed independently; printReports is called for all of them when one *)
(* has something to report.  The module follows one phase and leaves to    *)
(* chance whether another one has (parameter others).                      *)
(*                                                                         *)
(* A window is analysed in steps, one for each round of the inner loops of *)
(* VoltageLimitMain; the thread that does it is the only one to touch the  *)
(* state, so nothing comes in between.                                     *)
(*                                                                         *)
(* Left out: the text of the report file and of the annotations, and the   *)
(* conversion of sample numbers to times.                                  *)
(***************************************************************************)
EXTENDS Integers, Sequences

CONSTANTS
  Window,     \* samples of a window (size, 120)
  Over,       \* more samples than this are a sustained event (over, 7200)
  MaxWdwSag,  \* a sag of at most this many samples is no event (max_wdw_sag, 3)
  MaxWindows  \* bound: the windows analysed

ASSUME VoltageAssumption ==
  /\ Window \in Nat \ {0} /\ Over \in Nat \ {0}
  /\ MaxWdwSag \in 0..(Over - 1)
  /\ MaxWindows \in Nat

VARIABLES
  window,     \* input: the window being analysed, <<>> between two windows
  jj,         \* the samples of it that have been dealt with
  report,     \* report: the events entered into the list in this window
  count,      \* k: samples of the running event of a class (V_r1, V_r2, V_r3)
  tmp,        \* k.tmp_V_r*: its value at the end of a window
  lastSample, \* last_sample_V: the class with which the last window ended, or "none"
  events,     \* ts, te and an: the events found, in order
  lastRep,    \* last_window_rep: the last event of the last window was held back
  lastVal,    \* last_window_val: the class of its last sample
  stream,     \* every sample of the windows that have been analysed
  reported,   \* every report given to RabbitMQ (reportp1), in order
  withdrawn   \* the events taken from the list again

scanVars   == <<window, jj, report, count>>
endVars    == <<tmp, lastSample>>
listVars   == <<events, withdrawn>>
reportVars == <<lastRep, lastVal, stream, reported>>
vars       == <<scanVars, endVars, listVars, reportVars>>

Limits == {"sag", "interruption", "swell"}
Class  == Limits \cup {"ok"}

\* last_window_val is 0 to begin with, the value of an interruption.
Init == /\ window = <<>> /\ jj = 0 /\ report = 0
        /\ count = [c \in Limits |-> 0]
        /\ tmp = [c \in Limits |-> 0]
        /\ lastSample = "none"
        /\ events = <<>>
        /\ lastRep = FALSE /\ lastVal = "interruption"
        /\ stream = <<>> /\ reported = <<>> /\ withdrawn = {}

-----------------------------------------------------------------------------
\* VoltageLimitMain

\* Mutant of Kept: a count of the last window is not cleared.
KeptAlways(c, w) == TRUE

\* A window that does not go on with an event clears its count.
Kept(c, w) == w[1] = c

\* A second of data: the analysis of a window begins.
Start(w) ==
  /\ window = <<>>
  /\ Len(stream) < Window * MaxWindows
  /\ window' = w /\ jj' = 0 /\ report' = 0
  /\ count' = [c \in Limits |-> IF Kept(c, w) THEN count[c] ELSE 0]
  /\ UNCHANGED <<endVars, listVars, reportVars>>

\* The sample to be dealt with next.
Sample == window[jj + 1]

\* A sample within the limits is passed over.
WithinLimits ==
  /\ jj < Len(window) /\ Sample = "ok"
  /\ jj' = jj + 1
  /\ UNCHANGED <<window, report, count, endVars, listVars, reportVars>>

Event(pos, k, c, sustained) ==
  [start |-> Len(stream) + pos - k - 1, end |-> Len(stream) + pos,
   class |-> c, sustained |-> sustained]

\* The classes of event that are entered into the list when they end after k samples.
Labelled(c, k) == c # "sag" \/ k > MaxWdwSag

\* The sample would make the event too long: the event so far is a sustained one, and the
\* sample is counted again.
Sustain ==
  /\ jj < Len(window) /\ Sample \in Limits
  /\ count[Sample] + 1 > Over
  /\ events' = Append(events, Event(jj, count[Sample] + 1, Sample, TRUE))
  /\ report' = report + 1
  /\ count' = [count EXCEPT ![Sample] = 0]
  /\ UNCHANGED <<window, jj, endVars, withdrawn, reportVars>>

\* The sample belongs to the event, and the next one does as well.
Count ==
  /\ jj + 1 < Len(window) /\ Sample \in Limits
  /\ count[Sample] + 1 <= Over
  /\ window[jj + 2] = Sample
  /\ count' = [count EXCEPT ![Sample] = @ + 1]
  /\ jj' = jj + 1
  /\ UNCHANGED <<window, report, endVars, listVars, reportVars>>

\* The event that ends before pos after k samples is the one with which the last window
\* ended, and that one is in the list.
Continues(c, pos, k) == /\ pos - k + tmp[c] = 0
                        /\ lastSample = c
                        /\ Labelled(c, tmp[c])

Front(q) == SubSeq(q, 1, Len(q) - 1)

\* The sample is the last one of its event, or of the window: the event is entered into the
\* list, in place of its beginning when that is there already.
Close ==
  /\ jj < Len(window) /\ Sample \in Limits
  /\ count[Sample] + 1 <= Over
  /\ jj + 1 < Len(window) => window[jj + 2] # Sample
  /\ LET c     == Sample
         k     == count[c] + 1
         same  == Continues(c, jj + 1, k)
         atEnd == jj + 1 = Len(window)
     IN /\ IF Labelled(c, k)
           THEN /\ events' = Append(IF same THEN Front(events) ELSE events,
                                    Event(jj + 1, k, c, FALSE))
                /\ withdrawn' = IF same THEN withdrawn \cup {events[Len(events)]} ELSE withdrawn
                /\ report' = report + 1
           ELSE UNCHANGED <<listVars, report>>
        /\ count' = [count EXCEPT ![c] = IF atEnd THEN k ELSE 0]
        /\ tmp' = IF atEnd THEN [tmp EXCEPT ![c] = k] ELSE tmp
        /\ lastSample' = IF atEnd THEN c ELSE lastSample
  /\ jj' = jj + 1
  /\ UNCHANGED <<window, reportVars>>

-----------------------------------------------------------------------------
\* printReports

\* The class with which the window ends: within the limits, none.
LastOf(w) == IF w[Len(w)] = "ok" THEN "none" ELSE lastSample

\* Mutant of HeldBack: an event that reaches the end of the window is reported at once.
HeldBackNever(c) == FALSE

\* The last event of a window that ends with the class c is in the list and may go on.
HeldBack(c) == c # "none" /\ Labelled(c, tmp[c])

\* The event held back has not gone on.
Ended == lastRep /\ lastVal # "ok" /\ window[1] # lastVal

\* The events to report: those found in this window, with the one held back before if it
\* has not gone on, without the last one if it is held back now.
Due ==
  LET n     == Len(events)
      first == IF Ended THEN n - report ELSE n - report + 1
      last  == IF HeldBack(LastOf(window)) THEN n - 1 ELSE n
  IN SubSeq(events, first, last)

\* The window has been analysed; its reports are published.
Finish(others) ==
  /\ window # <<>> /\ jj = Len(window)
  /\ lastSample' = LastOf(window)
  /\ reported' = IF report > 0 \/ lastRep \/ others THEN reported \o Due ELSE reported
  /\ lastRep' = HeldBack(LastOf(window))
  /\ lastVal' = window[Len(window)]
  /\ stream' = stream \o window
  /\ window' = <<>> /\ jj' = 0
  /\ UNCHANGED <<report, count, tmp, listVars>>

Next == \/ \E w \in [1..Window -> Class] : Start(w)
        \/ WithinLimits \/ Sustain \/ Count \/ Close
        \/ \E others \in BOOLEAN : Finish(others)

Spec == Init /\ [][Next]_vars

-----------------------------------------------------------------------------
\* Properties

Seen(q) == {q[i] : i \in 1..Len(q)}

EventType == [start : Int, end : Nat, class : Limits, sustained : BOOLEAN]

\* Every variable keeps its type; what is reported has been found.
TypeOK == /\ window = <<>> \/ window \in [1..Window -> Class]
          /\ jj \in 0..Len(window) /\ report \in Nat
          /\ count \in [Limits -> 0..Over] /\ tmp \in [Limits -> 0..Over]
          /\ lastSample \in Limits \cup {"none"}
          /\ events \in Seq(EventType) /\ reported \in Seq(EventType)
          /\ lastRep \in BOOLEAN /\ lastVal \in Class
          /\ stream \in Seq(Class)
          /\ withdrawn \subseteq EventType
          /\ Seen(reported) \subseteq Seen(events)

\* The samples of q after p up to j are of one class, outside the limits.
Steady(q, p, j) == q[j] \in Limits /\ \A m \in (p + 1)..j : q[m] = q[j]

\* An event begins behind p: at the beginning of a run, or a multiple of Over behind it.
Begins(q, p) ==
  \E i \in 0..p : /\ Steady(q, i, p + 1)
                  /\ i > 0 => q[i] # q[p + 1]
                  /\ (p - i) % Over = 0

\* The sample behind j is one of the same run.
GoesOn(q, j) == j < Len(q) /\ q[j + 1] = q[j]

\* The event that begins behind p ends with j: it is sustained there, or the run ends and
\* what there is of it is long enough.
Ends(q, p, j) == /\ Begins(q, p) /\ Steady(q, p, j)
                 /\ IF GoesOn(q, j) THEN j = p + Over
                                    ELSE j <= p + Over /\ Labelled(q[j], j - p)

EventOf(q, p, j) == [start |-> IF GoesOn(q, j) THEN p - 2 ELSE p - 1, end |-> j,
                     class |-> q[j], sustained |-> GoesOn(q, j)]

\* What there is to report of q: the events that are known to have ended.
EventsOf(q) == {EventOf(q, x[1], x[2]) :
                  x \in {y \in (0..Len(q)) \X (1..(Len(q) - 1)) :
                           y[1] < y[2] /\ Ends(q, y[1], y[2])}}

\* However the windows cut the stream, what has been reported is exactly the events of the
\* whole stream so far that have ended, each with its whole extent, each once and in order.
ReportsExact ==
  /\ Seen(reported) = EventsOf(stream)
  /\ \A i, j \in 1..Len(reported) : i < j => reported[i].end < reported[j].end

\* An event that has been reported is never taken from the list again.
NothingWithdrawn == withdrawn \cap Seen(reported) = {}
=============================================================================
