------------------------------ MODULE CassSpeed ------------------------------
(***************************************************************************)
(* Reading archived data: cassspeed, a server with one thread for each     *)
(* connection, answers a request for a range of time, some devices and     *)
(* some compression methods; cassspeedclient fetches a long range in       *)
(* chunks, one connection for each, and goes on where the server says that *)
(* the last answer ends.  The threads share one variable, numsamples, which*)
(* every compressor sets and from which that end is computed.              *)
(*                                                                         *)
(* Times are milliseconds.  Cassandra holds a row of Rate samples for a    *)
(* second of a device, and returns rows in the order of their time.  A     *)
(* sample is its number, counted from time 0: sample q is taken at time    *)
(* q * Sec / Rate, and second s has the samples s * Rate onwards.  Values  *)
(* of samples are left out; what is kept of an answer is which samples the *)
(* values returned by a method stand for.  The twelve quantities of a      *)
(* sample are treated alike; a request has the number of them it asks for. *)
(*                                                                         *)
(* Cassandra may be unreachable or fail a query, the request may arrive in *)
(* pieces, and a client may be stopped; faults counts these.               *)
(***************************************************************************)
EXTENDS Integers, Sequences, FiniteSets, FiniteSetsExt

CONSTANTS
  Clients,    \* the running clients
  Requests,   \* the command lines they may have been started with
  Devices,
  Archives,   \* what Cassandra may hold: for each device, a set of seconds
  Rate,       \* samples a second (120)
  Sec,        \* milliseconds in a second (1000)
  Day,        \* milliseconds in a day, the partitions of the table
  IntHalf,    \* the range of an int: -IntHalf to IntHalf - 1
  Target,     \* the bytes that a client wants in an answer (32 MB)
  MaxDelta,   \* the longest chunk
  Garbage,    \* the values an uninitialised time stamp may have
  MaxFds,     \* sockets the server process may have open
  MaxFaults   \* bound: failures

Methods == {"Min", "Max", "Avg", "Skip", "Raw"}

\* A sample takes a millisecond at least.
ASSUME CassSpeedAssumption ==
  /\ IsFiniteSet(Clients)
  /\ Rate \in Nat \ {0} /\ Sec \in Nat \ {0} /\ Day \in Nat \ {0} /\ IntHalf \in Nat \ {0}
  /\ Rate <= Sec
  /\ Target \in Nat /\ MaxDelta \in Nat \ {0}
  /\ Garbage \subseteq Nat /\ MaxFds \in Nat /\ MaxFaults \in Nat
  /\ Archives \subseteq [Devices -> SUBSET (Nat \ {0})]
  /\ \A r \in Requests : /\ r.from \in Nat /\ r.from >= Sec /\ r.to \in Nat
                         /\ r.devices \in Seq(Devices)
                         /\ r.methods \subseteq Methods /\ r.methods # {}
                         /\ r.step \in Nat \ {0} /\ r.sets \in 1..12

\* There are several samples a second, each takes more than a millisecond, and the longest
\* chunk is not shorter than a second.
ASSUME PaceAssumption == Rate >= 3 /\ 2 * Rate <= Sec /\ MaxDelta >= Sec

VARIABLES
  store,      \* store[d]: the seconds that Cassandra holds of device d
  req,        \* req[c]: the arguments of client c
  client,     \* client[c]: the client process
  thread,     \* thread[c]: the server's thread for the connection of client c
  numsamples, \* the global variable of the server
  up,         \* the server process is running
  leaked,     \* sockets the server has left open for good
  faults,
  spoilt      \* spoilt[c]: what has gone wrong with the answers of client c (history)

vars == <<store, req, client, thread, numsamples, up, leaked, faults, spoilt>>

Unset  == -1   \* timestampcass before the first device
NoData == [pc |-> "none", itter |-> 1, start |-> Unset, firstsample |-> TRUE,
           vec |-> {}, own |-> 0, out |-> {}, has |-> FALSE, end |-> 0, failed |-> FALSE]

Init == /\ store \in Archives
        /\ req \in [Clients -> Requests]
        /\ client = [c \in Clients |-> [pc |-> "ready", cursor |-> req[c].from, got |-> {},
                                        code |-> "none", end |-> 0, out |-> {}]]
        /\ thread = [c \in Clients |-> NoData]
        /\ numsamples = 0
        /\ up = TRUE
        /\ leaked = 0
        /\ faults = 0
        /\ spoilt = [c \in Clients |-> {}]

Works == UNCHANGED faults
Fails == faults < MaxFaults /\ faults' = faults + 1

-----------------------------------------------------------------------------
\* The client: chunks

\* delta_t_chucksize: bytes a second of data takes, and the time for Target bytes.
Delta(r) ==
  LET bps == ((Rate * 4 * Len(r.devices) * r.sets) \div r.step) * Cardinality(r.methods)
      t   == IF bps = 0 THEN 0 ELSE Target \div bps
  IN IF t = 0 THEN MaxDelta ELSE t * Sec

\* timestampend_loop
ChunkEnd(c) == Min({client[c].cursor + Delta(req[c]), req[c].to})

\* A chunk is requested.  A client that has been sent back before the first second is not
\* followed any further.
Ask(c) == /\ client[c].pc = "ready" /\ client[c].cursor >= Sec
          /\ IF up THEN /\ client' = [client EXCEPT ![c].pc = "waiting"]
                        /\ thread' = [thread EXCEPT ![c] = [NoData EXCEPT !.pc = "backlog"]]
                   ELSE /\ client' = [client EXCEPT ![c].pc = "ended"]
                        /\ UNCHANGED thread
          /\ UNCHANGED <<store, req, numsamples, up, leaked, faults, spoilt>>

\* The client is stopped from outside.
Quit(c) == /\ client[c].pc = "waiting"
           /\ Fails
           /\ client' = [client EXCEPT ![c].pc = "ended"]
           /\ UNCHANGED <<store, req, thread, numsamples, up, leaked, spoilt>>

\* Mutant of Finished: the rest is compared without the tolerance for rounding.
FinishedExact(c, t) == t >= req[c].to

\* What is left of the range is less than one more step.
Finished(c, t) == t + ((req[c].step + 1) * Sec) \div Rate > req[c].to

\* An error code ends the client.  An answer is saved, and the next chunk starts where the
\* server says that this one ends.
Read(c) ==
  /\ client[c].pc = "reply"
  /\ IF client[c].code # "data"
     THEN client' = [client EXCEPT ![c].pc = "ended"]
     ELSE client' = [client EXCEPT ![c].pc = IF Finished(c, client[c].end) THEN "ended" ELSE "ready",
                                   ![c].cursor = client[c].end,
                                   ![c].got = @ \cup client[c].out,
                                   ![c].out = {}]
  /\ UNCHANGED <<store, req, thread, numsamples, up, leaked, faults, spoilt>>

-----------------------------------------------------------------------------
\* The server: connections

Serving == {c \in Clients : thread[c].pc \notin {"none", "backlog"}}

\* makemysocket: accept fails when no descriptor is left.
Accept(c) == /\ thread[c].pc = "backlog"
             /\ leaked + Cardinality(Serving) < MaxFds
             /\ thread' = [thread EXCEPT ![c].pc = "receive"]
             /\ UNCHANGED <<store, req, client, numsamples, up, leaked, faults, spoilt>>

\* The thread ends with this answer; a client that has been stopped does not get it.
Deliver(c, code) ==
  /\ thread' = [thread EXCEPT ![c] = NoData]
  /\ client' = [client EXCEPT ![c] = IF @.pc # "waiting" THEN @
                                     ELSE [@ EXCEPT !.pc = "reply", !.code = code,
                                                    !.end = thread[c].end, !.out = thread[c].out]]

\* An error code is sent and the socket closed.
Answer(c, code) == Deliver(c, code) /\ UNCHANGED leaked

\* The connection has been closed or reset before a request arrived: in the first case the
\* socket is left open.
ReceiveNothing(c) == /\ thread[c].pc = "receive"
                     /\ client[c].pc # "waiting"
                     /\ thread' = [thread EXCEPT ![c] = NoData]
                     /\ leaked' \in {leaked, leaked + 1}
                     /\ UNCHANGED <<store, req, client, numsamples, up, faults, spoilt>>

\* The request is read, the session opened and the request parsed.  Without a device its
\* fields are out of place and one of them is no number.  The rest of a request that
\* arrives in pieces is missing.
Receive(c) ==
  /\ thread[c].pc = "receive"
  /\ \/ Fails /\ Answer(c, "-3")
     \/ Fails /\ Answer(c, "-2")
     \/ Works /\ req[c].devices = <<>> /\ Answer(c, "-1")
     \/ /\ Works /\ req[c].devices # <<>>
        /\ thread' = [thread EXCEPT ![c].pc = "query"]
        /\ UNCHANGED <<client, leaked>>
  /\ UNCHANGED <<store, req, numsamples, up, spoilt>>

-----------------------------------------------------------------------------
\* The server: the samples of a device

\* The days of the query, from daystart to dayend.
Days(from, to) == ((from - (Sec - 1)) \div Day)..(to \div Day)

\* Mutant of RowsFor: the second that the range begins in is not read.
RowsForLate(d, from, to) == {s \in store[d] : /\ from <= s * Sec /\ s * Sec < to
                                              /\ (s * Sec) \div Day \in Days(from, to)}

\* The rows of the query, from the second that the range begins in.
RowsFor(d, from, to) == {s \in store[d] : /\ from - (Sec - 1) <= s * Sec /\ s * Sec < to
                                          /\ (s * Sec) \div Day \in Days(from, to)}

\* The samples of the rows.  They come in the order of their time, so a set of them stands
\* for the vector, and First for its first k elements.
SamplesOf(rows) == UNION {(s * Rate)..(s * Rate + Rate - 1) : s \in rows}
First(vec, k)   == {q \in vec : Cardinality({p \in vec : p < q}) < k}

\* samples_to_skip, and the time they may be found to take.  8.33333 is a little less than
\* the length of a sample, and the sum with the time stamp is a double: where a whole number
\* of milliseconds is due, it comes out as that or, for larger k, as one less.
ToSkip(from) == ((from % Sec) * Rate) \div Sec
SkipTimes(k) == IF k = 0 THEN {0} ELSE {(k * Sec - 1) \div Rate, (k * Sec) \div Rate}

Device(c) == req[c].devices[thread[c].itter]

\* timestampcass before the skipped samples are added: the earliest time stamp of this
\* device and of the ones before it.  It is not initialised.
StartTimes(c, rows) ==
  LET times == {s * Sec : s \in rows}
      old   == IF thread[c].start = Unset THEN Garbage ELSE {thread[c].start}
  IN IF thread[c].firstsample THEN IF times = {} THEN old ELSE {Min(times)}
     ELSE {Min(times \cup {thread[c].start})}

\* The query succeeds and its samples are kept, but for those before the range.
Query(c) ==
  LET rows == RowsFor(Device(c), client[c].cursor, ChunkEnd(c))
      all  == SamplesOf(rows)
      k    == ToSkip(client[c].cursor)
  IN /\ thread[c].pc = "query" /\ thread[c].itter <= Len(req[c].devices)
     /\ Works
     /\ k <= Cardinality(all)
     /\ \E t \in StartTimes(c, rows), w \in SkipTimes(k) :
          thread' = [thread EXCEPT ![c].pc = "compress", ![c].start = t + w,
                                   ![c].firstsample = @ /\ rows = {},
                                   ![c].vec = all \ First(all, k)]
     /\ UNCHANGED <<store, req, client, numsamples, up, leaked, spoilt>>

\* There are fewer samples than are to be erased.  This is undefined: the server dies with
\* all its threads, or the thread goes on until a vector's bounds are checked.
EraseBeyond(c) ==
  LET all == SamplesOf(RowsFor(Device(c), client[c].cursor, ChunkEnd(c)))
  IN /\ thread[c].pc = "query" /\ thread[c].itter <= Len(req[c].devices)
     /\ Works
     /\ Cardinality(all) < ToSkip(client[c].cursor)
     /\ \/ /\ up' = FALSE
           /\ thread' = [x \in Clients |-> NoData]
           /\ client' = [x \in Clients |-> IF client[x].pc = "waiting"
                                           THEN [client[x] EXCEPT !.pc = "ended"] ELSE client[x]]
           /\ UNCHANGED leaked
        \/ UNCHANGED up /\ Answer(c, "-2")
     /\ UNCHANGED <<store, req, numsamples, spoilt>>

\* The query fails: the next device is tried.
QueryFails(c) == /\ thread[c].pc = "query" /\ thread[c].itter <= Len(req[c].devices)
                 /\ Fails
                 /\ thread' = [thread EXCEPT ![c].failed = TRUE, ![c].itter = @ + 1]
                 /\ UNCHANGED <<store, req, client, numsamples, up, leaked, spoilt>>

-----------------------------------------------------------------------------
\* The server: compression and the answer

\* The number of values a compressor returns for n samples.  compressor_skip_sample stops
\* a step before the end.
Outputs(m, n, step) == IF m = "Raw" THEN n
                       ELSE IF m = "Skip" THEN (n - 1) \div step ELSE n \div step

\* The samples that these values stand for.
Covered(m, vec, step) ==
  LET n == Outputs(m, Cardinality(vec), step)
  IN First(vec, IF m = "Raw" THEN n ELSE n * step)

\* The methods are applied in the order of their bits.
LastMethod(ms) == IF "Raw" \in ms THEN "Raw" ELSE IF "Skip" \in ms THEN "Skip" ELSE "Avg"

\* Mutant of TooShort: the loop simply does not run.
TooShortNever(c) == FALSE

\* With fewer samples than a step a loop bound wraps around and a vector's bounds check throws.
TooShort(c) == req[c].methods # {"Raw"} /\ Cardinality(thread[c].vec) < req[c].step

\* Every compressor leaves its number of values in numsamples.
Compress(c) ==
  LET n == Outputs(LastMethod(req[c].methods), Cardinality(thread[c].vec), req[c].step)
  IN /\ thread[c].pc = "compress"
     /\ IF TooShort(c)
        THEN Answer(c, "-2") /\ UNCHANGED numsamples
        ELSE /\ numsamples' = n
             /\ thread' = [thread EXCEPT
                  ![c].pc = "describe", ![c].own = n, ![c].vec = {},
                  ![c].out = @ \cup UNION {{<<m, Device(c), q>> :
                                              q \in Covered(m, thread[c].vec, req[c].step)}
                                           : m \in req[c].methods}]
             /\ UNCHANGED <<client, leaked>>
     /\ UNCHANGED <<store, req, up, faults, spoilt>>

Wrap(x)    == ((x + IntHalf) % (2 * IntHalf)) - IntHalf
Quot(x, y) == IF x < 0 THEN -((-x) \div y) ELSE x \div y

\* timestampend; the product is computed with ints.
EndTime(start, n, step) == start + Quot(Wrap(n * Sec * step), Rate)

\* What has gone wrong with this answer: another thread has changed numsamples, or the
\* product is out of range.
Troubles(c) == {t \in {"raced", "wrapped"} :
                  \/ t = "raced" /\ numsamples # thread[c].own
                  \/ t = "wrapped" /\ numsamples * Sec * req[c].step >= IntHalf}

\* The end and the number of samples are set from numsamples, and the next device follows.
Describe(c) ==
  /\ thread[c].pc = "describe"
  /\ thread' = [thread EXCEPT ![c].pc = "query", ![c].itter = @ + 1, ![c].has = TRUE,
                              ![c].end = EndTime(thread[c].start, numsamples, req[c].step)]
  /\ spoilt' = [spoilt EXCEPT ![c] = @ \cup Troubles(c)]
  /\ UNCHANGED <<store, req, client, numsamples, up, leaked, faults>>

\* Mutant of Send: nothing is sent when no device has an answer.
SendData(c) ==
  /\ thread[c].pc = "query" /\ thread[c].itter > Len(req[c].devices)
  /\ thread[c].has
  /\ Deliver(c, "data")
  /\ leaked' = leaked + 1
  /\ UNCHANGED <<store, req, numsamples, up, faults, spoilt>>

\* All devices are done.  Without any answer of Cassandra the code -4 is sent; an answer
\* for some of the devices is sent like any other, and its socket is never closed.  A
\* failed send closes it.
Send(c) ==
  /\ thread[c].pc = "query" /\ thread[c].itter > Len(req[c].devices)
  /\ \/ thread[c].failed /\ ~thread[c].has /\ Answer(c, "-4") /\ UNCHANGED spoilt
     \/ /\ thread[c].has
        /\ Deliver(c, "data")
        /\ leaked' \in IF client[c].pc = "waiting" THEN {leaked + 1} ELSE {leaked, leaked + 1}
        /\ spoilt' = [spoilt EXCEPT ![c] = IF thread[c].failed THEN @ \cup {"partial"} ELSE @]
  /\ UNCHANGED <<store, req, numsamples, up, faults>>

ClientStep(c) == Ask(c) \/ Read(c)
ThreadStep(c) == \/ ReceiveNothing(c) \/ Receive(c)
                 \/ Query(c) \/ EraseBeyond(c) \/ QueryFails(c)
                 \/ Compress(c) \/ Describe(c) \/ Send(c)

Next == \E c \in Clients : ClientStep(c) \/ Quit(c) \/ Accept(c) \/ ThreadStep(c)

\* Clients and threads are scheduled, Cassandra answers or fails, and connections are
\* accepted in the order in which they arrive.
Fairness == \A c \in Clients :
  /\ WF_vars(ClientStep(c))
  /\ WF_vars(ThreadStep(c))
  /\ SF_vars(Accept(c))

Spec == Init /\ [][Next]_vars /\ Fairness

-----------------------------------------------------------------------------
\* Properties

\* Every variable keeps its type.
TypeOK ==
  /\ \A c \in Clients :
       /\ client[c].pc \in {"ready", "waiting", "reply", "ended"}
       /\ client[c].cursor \in Int /\ client[c].end \in Int
       /\ client[c].code \in {"none", "data", "-1", "-2", "-3", "-4"}
       /\ thread[c].pc \in {"none", "backlog", "receive", "query", "compress", "describe"}
       /\ thread[c].itter \in 1..(Len(req[c].devices) + 1)
       /\ thread[c].start \in Int /\ thread[c].firstsample \in BOOLEAN /\ thread[c].own \in Nat
       /\ spoilt[c] \subseteq {"raced", "wrapped", "partial"}
  /\ numsamples \in Nat
  /\ leaked \in 0..MaxFds /\ faults \in 0..MaxFaults /\ up \in BOOLEAN

\* Cassandra holds every second of the range for every device of the request.
Complete(c) ==
  \A i \in 1..Len(req[c].devices), s \in (req[c].from \div Sec)..(req[c].to \div Sec) :
    (s * Sec + Sec > req[c].from /\ s * Sec < req[c].to) => s \in store[req[c].devices[i]]

\* A client that asks for a range of archived data, for raw samples only at step size 1 and
\* without "Skip", which returns one value fewer than they are, and whose answers no other
\* thread, overflow or failed query has spoilt.
Sound(c) == /\ req[c].from < req[c].to /\ Complete(c) /\ spoilt[c] = {}
            /\ "Raw" \in req[c].methods => req[c].step = 1 /\ "Skip" \notin req[c].methods

\* A client never goes past a sample that it has not received: every sample from the start
\* of its range to the point where the next chunk begins is covered by the saved answers,
\* for every device and every method, over all chunks, days, skipped samples and roundings.
NothingSkipped ==
  \A c \in Clients : Sound(c) =>
    \A i \in 1..Len(req[c].devices), m \in req[c].methods :
      \A s \in store[req[c].devices[i]] : \A q \in (s * Rate)..(s * Rate + Rate - 1) :
        (req[c].from * Rate <= q * Sec /\ q * Sec < client[c].cursor * Rate)
          => <<m, req[c].devices[i], q>> \in client[c].got

\* As long as every client asks for archived data only and none is led astray, the server
\* never erases samples it does not have, and so it does not die.
ServerSurvives == (\A c \in Clients : Sound(c)) => up

\* "Skip" returns one value fewer than the others, and so none for a chunk of one step.
Yields(r) == "Skip" \in r.methods => (r.step + 1) * Sec <= Delta(r) * Rate

\* A sound client makes progress: a further chunk begins later than the one before, unless a
\* chunk that is no longer than the step of "Skip" is asked for again and again.
ChunksAdvance ==
  [][\A c \in Clients :
       (client[c].pc = "reply" /\ client'[c].pc = "ready" /\ Sound(c) /\ Yields(req[c]))
         => client'[c].cursor > client[c].cursor]_vars

\* Every request is answered, whatever fails in Cassandra, unless the server process has
\* died or has left all its descriptors open.
EveryRequestAnswered ==
  \A c \in Clients :
    client[c].pc = "waiting" ~> (client[c].pc # "waiting" \/ leaked = MaxFds)
=============================================================================
