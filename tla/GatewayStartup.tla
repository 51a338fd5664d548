--------------------------- MODULE GatewayStartup ---------------------------
(***************************************************************************)
(* How the gateway comes up: main and the service threads share one        *)
(* PostgreSQL connection (dbConnection, a singleton) and are to use it     *)
(* between acquireDBaccess and releaseDBaccess of its mutex.               *)
(*                                                                         *)
(* A thread goes through stages; most stages are a number of sections,     *)
(* each one "acquire, transaction, release".  Some sections have a return  *)
(* or a handler that skips the release; discovery, once it runs, opens     *)
(* transactions without the mutex.  What the transactions read and write   *)
(* is left out, except where it decides how a section ends.                *)
(***************************************************************************)
EXTENDS Naturals, FiniteSets

CONSTANTS
  Main,       \* the main thread
  Plugins,    \* the services other than serviceDataDiscovery
  Rabbit,     \* serviceDataArchiverRabbitMQ, which reads its settings from the database
  Discovery,  \* serviceDataDiscovery
  Free,       \* the mutex is not locked
  Records,    \* operations records each thread writes when it starts (3)
  MaxScan     \* bound: sections of getCurrentDirectory

Threads == Plugins \cup {Main, Discovery}

ASSUME StartupAssumption ==
  /\ Rabbit \in Plugins
  /\ Main # Discovery /\ Main \notin Plugins /\ Discovery \notin Plugins
  /\ Free \notin Threads
  /\ Records \in Nat \ {0}
  /\ MaxScan \in Nat \ {0}

VARIABLES
  pc,      \* pc[t]: the stage of thread t
  left,    \* left[t]: the sections left in this stage
  lock,    \* localDBmutex: its holder, or Free
  txn,     \* the threads with a transaction open on the connection
  leaked   \* a thread has gone on without releasing the mutex it holds

vars == <<pc, left, lock, txn, leaked>>

\* The stages in which a thread locks the mutex.
Sections == {"logger", "cassandra", "comm", "session", "records", "services",
             "config", "prepare", "scan", "files"}
Stages   == Sections \cup {"off", "probe", "start", "sleep", "idle", "run", "ended", "exit"}

Alive == pc[Main] # "exit"

Init == /\ pc = [t \in Threads |-> IF t = Main THEN "logger" ELSE "off"]
        /\ left = [t \in Threads |-> 1]
        /\ lock = Free
        /\ txn = {}
        /\ leaked = FALSE

-----------------------------------------------------------------------------
\* Sections

\* Mutant of Enter: the section does not take the mutex first.
EnterUnlocked(t) == /\ Alive
                    /\ pc[t] \in Sections /\ t \notin txn
                    /\ lock' = t
                    /\ txn' = txn \cup {t}
                    /\ UNCHANGED <<pc, left, leaked>>

\* acquireDBaccess and the start of the transaction.  The mutex is not recursive: a
\* thread that has leaked it waits for itself.
Enter(t) == /\ Alive
            /\ pc[t] \in Sections /\ t \notin txn
            /\ lock = Free
            /\ lock' = t
            /\ txn' = txn \cup {t}
            /\ UNCHANGED <<pc, left, leaked>>

\* The stage after each one; after its records a thread goes its own way.
Following == [logger   |-> "cassandra", cassandra |-> "comm",    comm    |-> "probe",
              session  |-> "records",   config    |-> "records", prepare |-> "records",
              services |-> "start",     scan      |-> "files",   files   |-> "run"]

NextStage(t) == IF pc[t] # "records" THEN Following[pc[t]]
                ELSE IF t = Main THEN "services"
                ELSE IF t = Discovery THEN "scan" ELSE "run"

SectionsOf(stage) == IF stage = "records" THEN {Records}
                     ELSE IF stage = "scan" THEN 1..MaxScan ELSE {1}

\* t moves to a stage, or to the next section of its stage.
MoveTo(t, stage) == /\ pc' = [pc EXCEPT ![t] = stage]
                    /\ \E n \in SectionsOf(stage) : left' = [left EXCEPT ![t] = n]

\* Mutant of Advance: one section too many.
AdvancePast(t) == IF left[t] > 0
                  THEN left' = [left EXCEPT ![t] = @ - 1] /\ UNCHANGED pc
                  ELSE MoveTo(t, NextStage(t))

Advance(t) == IF left[t] > 1
              THEN left' = [left EXCEPT ![t] = @ - 1] /\ UNCHANGED pc
              ELSE MoveTo(t, NextStage(t))

CloseTxn(t) == t \in txn /\ txn' = txn \ {t}

\* Mutant of Leave: a failed insert of an operations record keeps the mutex.
LeaveKeeps(t) == /\ Alive /\ pc[t] \in Sections
                 /\ CloseTxn(t)
                 /\ lock' \in IF pc[t] = "records" THEN {Free, lock} ELSE {Free}
                 /\ Advance(t)
                 /\ UNCHANGED leaked

\* Mutant of Leave: the thread goes back to the first section of its stage.
LeaveRepeats(t) == /\ Alive /\ pc[t] \in Sections
                   /\ CloseTxn(t)
                   /\ lock' = Free
                   /\ IF pc[t] = "records" THEN MoveTo(t, "records") ELSE Advance(t)
                   /\ UNCHANGED leaked

\* The section commits, or catches its own exception (the operations logger): either way
\* it releases the mutex and the thread goes on.
Leave(t) == /\ Alive /\ pc[t] \in Sections
            /\ CloseTxn(t)
            /\ lock' = Free
            /\ Advance(t)
            /\ UNCHANGED leaked

\* The section ends without releasing the mutex, and t goes on at the given stage.
LeakTo(t, stage) == /\ Alive
                    /\ CloseTxn(t)
                    /\ leaked' = TRUE
                    /\ MoveTo(t, stage)
                    /\ UNCHANGED lock

\* cassandraInit returns -1 for want of exactly one settings row, or catches an exception
\* raised while it holds the mutex.
CassandraInitLeaks == pc[Main] = "cassandra" /\ LeakTo(Main, "comm")

\* initService of the RabbitMQ service returns -1, which is true, for want of exactly one
\* settings row ...
RabbitConfigMissing == pc[Rabbit] = "config" /\ LeakTo(Rabbit, "run")

\* ... or catches an exception raised while it holds the mutex.
RabbitConfigThrows == pc[Rabbit] = "config" /\ LeakTo(Rabbit, "records")

\* getCurrentDirectory catches an exception while it holds the mutex: NO_DATA_DIR, and
\* the discovery thread ends.
ScanThrows == pc[Discovery] = "scan" /\ LeakTo(Discovery, "ended")

\* getCurrentDirectory or getCurrentDataFileSet fails properly: the thread ends.
InitFails == /\ Alive
             /\ pc[Discovery] \in {"scan", "files"}
             /\ CloseTxn(Discovery)
             /\ lock' = Free
             /\ MoveTo(Discovery, "ended")
             /\ UNCHANGED leaked

\* The ftp settings are not exactly one row (exit(-1)), or an exception that nobody
\* catches ends the process.
Exit(t) == /\ Alive
           /\ pc[t] \in {"comm", "session", "services", "prepare"}
           /\ t \in txn
           /\ pc' = [pc EXCEPT ![Main] = "exit"]
           /\ UNCHANGED <<left, lock, txn, leaked>>

-----------------------------------------------------------------------------
\* The other steps of main

\* The loop that waits for the uPMU: it sleeps 30 s after a failure.
ProbeFails == /\ Alive /\ pc[Main] = "probe"
              /\ UNCHANGED vars

ProbeSucceeds == /\ Alive /\ pc[Main] = "probe"
                 /\ MoveTo(Main, "session")
                 /\ UNCHANGED <<lock, txn, leaked>>

\* Every service but discovery is started; then main sleeps for 10 s.
StartPlugins == /\ Alive /\ pc[Main] = "start"
                /\ pc' = [t \in Threads |->
                            IF t = Main THEN "sleep"
                            ELSE IF t = Rabbit THEN "config"
                            ELSE IF t \in Plugins THEN "records" ELSE pc[t]]
                /\ left' = [t \in Threads |->
                              IF t \in Plugins \ {Rabbit} THEN Records ELSE left[t]]
                /\ UNCHANGED <<lock, txn, leaked>>

\* The sleep is over, whatever the other services have done in the meantime.
StartDiscovery == /\ Alive /\ pc[Main] = "sleep"
                  /\ pc' = [pc EXCEPT ![Main] = "idle", ![Discovery] = "prepare"]
                  /\ UNCHANGED <<left, lock, txn, leaked>>

-----------------------------------------------------------------------------
\* Discovery at work: processUPMUdata and addCurrentDirectoryRecord open their
\* transactions without the mutex.

BeginWork == /\ Alive /\ pc[Discovery] = "run" /\ Discovery \notin txn
             /\ txn' = txn \cup {Discovery}
             /\ UNCHANGED <<pc, left, lock, leaked>>

EndWork == /\ Alive /\ pc[Discovery] = "run"
           /\ CloseTxn(Discovery)
           /\ UNCHANGED <<pc, left, lock, leaked>>

Next == \/ \E t \in Threads : Enter(t) \/ Leave(t) \/ Exit(t)
        \/ CassandraInitLeaks \/ RabbitConfigMissing \/ RabbitConfigThrows
        \/ ScanThrows \/ InitFails
        \/ ProbeFails \/ ProbeSucceeds \/ StartPlugins \/ StartDiscovery
        \/ BeginWork \/ EndWork
        \/ (~Alive /\ UNCHANGED vars)

Spec == Init /\ [][Next]_vars

\* Every thread is scheduled, and the uPMU answers some day.  The mutex need not be fair:
\* each thread asks for it a bounded number of times.
FairSpec == /\ Spec
            /\ \A t \in Threads : WF_vars(Enter(t)) /\ WF_vars(Leave(t))
            /\ WF_vars(ProbeSucceeds)
            /\ WF_vars(StartPlugins) /\ WF_vars(StartDiscovery)

-----------------------------------------------------------------------------
\* Properties

\* Every variable keeps its type, and the sections left in a stage never run out.
TypeOK == /\ pc \in [Threads -> Stages]
          /\ left \in [Threads -> 1..(IF Records > MaxScan THEN Records ELSE MaxScan)]
          /\ lock \in Threads \cup {Free}
          /\ txn \subseteq Threads
          /\ leaked \in BOOLEAN

\* The mutex does keep the transactions of all threads apart until discovery has finished
\* its initialisation.
MutexProtects == pc[Discovery] # "run" => Cardinality(txn) <= 1

\* A locked mutex is either in use or leaked by one of the known exits: no other path,
\* the handlers of the operations logger included, forgets to release it.
HeldOrLeaked == (lock # Free /\ ~leaked) => lock \in txn

Up == pc[Main] = "idle" /\ \A t \in Threads \ {Main} : pc[t] \in {"run", "ended"}

\* The only things that keep the gateway from coming up are a leaked mutex and an exit of
\* the process: the start order and the waiting for the mutex cannot deadlock.
StartsUnlessLeaked == <>(leaked \/ ~Alive \/ Up)

\* main.cpp, when cassandraInit has failed: "Cassandra connection failed, proceeding
\* anyway."
MainProceeds == <>(~Alive \/ pc[Main] = "idle")
=============================================================================
