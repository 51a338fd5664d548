---------------------------- MODULE DirectoryScan ----------------------------
(***************************************************************************)
(* The ftp discovery service: it walks through the uPMU's directories, one *)
(* per hour, and shares every file it finds in them once.  What it has     *)
(* done is recorded in two tables of the local database, upmu_data_directory*)
(* and upmu_data_file, from which a restarted gateway continues.           *)
(*                                                                         *)
(* A directory is the number of its hour and a file its number within the  *)
(* hour; directory names and the calendar behind them are left out.  A     *)
(* directory is "over 1 hr. old" when its hour is over, and "at present"   *)
(* when it is the hour that is running.  Whether dataFileComplete lets a   *)
(* file of the running hour through is left to chance.  Of BufferPipeline  *)
(* only the buffers in memory are kept, which the throttle counts and a    *)
(* crash loses.                                                            *)
(*                                                                         *)
(* The gateway may crash between any two steps.  An ftp call or a database *)
(* statement may fail; faults counts these failures.                       *)
(***************************************************************************)
EXTENDS Integers, Sequences, FiniteSets, Functions

CONSTANTS
  FilesPerHour,  \* the files of an hour
  FirstHour,     \* the hour that is running when the gateway is first started
  MaxOutstanding,\* MAX_OUTSTANDING_MEM_BUF (5)
  MaxHour,       \* bound: the last hour
  MaxFaults,     \* bound: ftp and database failures
  MaxCrashes     \* bound: crashes and restarts

\* The scan begins at a fixed date in the past (DEFAULT_STARTING_YEAR ...): hour 0.
ASSUME ScanAssumption ==
  /\ FilesPerHour \in Nat \ {0}
  /\ FirstHour \in Nat \ {0} /\ MaxOutstanding \in Nat
  /\ MaxHour \in Nat /\ FirstHour <= MaxHour
  /\ MaxFaults \in Nat /\ MaxCrashes \in Nat

VARIABLES
  hour,        \* the hour that is running
  onUpmu,      \* onUpmu[h]: the number of files in directory h; none: no directory
  faults,      \* failures so far
  harmed,      \* the directories in hand when something failed (history)
  crashes,     \* restarts so far
  dirRows,     \* upmu_data_directory: dirRows[id] = [hour, state]
  fileRows,    \* upmu_data_file: fileRows[id] = [dir, file, state]
  pc,          \* where the discovery thread is; "down": the gateway is not running
  dir,         \* dataDir: its hour,
  dirState,    \*   its state,
  dbID,        \*   and its id in the database
  dataDirValid,
  inProgress,  \* dataDirAccessInProgress
  inDir,       \* dataFilesInDir, files still to be processed
  processed,   \* dataFilesProcessed
  file,        \* the file being fetched
  lookedAt,    \* the hour that was running when this directory was last listed or probed
  posted,      \* <<h, f>> for every file ever given to postProcessUPMUdata
  postedNow,   \* the same since the last start
  twice,       \* a file has been posted twice since the last start
  memory,      \* the posted files that the other services still hold (sharedInMemDataBufferCnt)
  stray,       \* the buffers in memory that a failed transfer has put there: they hold no file
  lost,        \* the files that a crash has taken from memory and that have not come again
  outdated     \* the directories left behind on the word of an outdated listing or probe

faultVars == <<faults, harmed>>
dbVars    == <<dirRows, fileRows>>
upmuVars  == <<hour, onUpmu>>
dirVars   == <<dir, dirState, dbID, dataDirValid>>
filesVars == <<inProgress, inDir, processed, file>>
postVars  == <<posted, postedNow, twice, memory, stray, lost>>
noteVars  == <<postVars, outdated>>
vars == <<upmuVars, faultVars, crashes, dbVars, pc, dirVars, filesVars, lookedAt, noteVars>>

Hours    == 0..MaxHour
NoFile   == <<0, 0>>
Dirs     == 0..(MaxHour + 1)  \* with the one that a runaway scan comes to
Currents == {i \in 1..Len(dirRows) : dirRows[i].state = "current"}
Finished == {i \in 1..Len(dirRows) : dirRows[i].state = "processed"}

Init == /\ hour = FirstHour
        /\ onUpmu \in [Hours -> 0..FilesPerHour]
        /\ \A h \in Hours : h >= FirstHour => onUpmu[h] = 0
        /\ faults = 0 /\ harmed = {} /\ crashes = 0
        /\ dirRows = <<>> /\ fileRows = <<>>
        /\ pc = "down"
        /\ dir = 0 /\ dirState = "unknown" /\ dbID = 0 /\ dataDirValid = FALSE
        /\ inProgress = FALSE /\ inDir = {} /\ processed = {} /\ file = NoFile
        /\ lookedAt = 0
        /\ posted = {} /\ postedNow = {} /\ twice = FALSE /\ memory = {} /\ stray = 0
        /\ lost = {} /\ outdated = {}

-----------------------------------------------------------------------------
\* The uPMU, the clock and failures (external)

Tick == /\ hour < MaxHour
        /\ hour' = hour + 1
        /\ UNCHANGED <<onUpmu, faultVars, crashes, dbVars, pc, dirVars, filesVars, lookedAt, noteVars>>

NewFile == /\ onUpmu[hour] < FilesPerHour
           /\ onUpmu' = [onUpmu EXCEPT ![hour] = @ + 1]
           /\ UNCHANGED <<hour, faultVars, crashes, dbVars, pc, dirVars, filesVars, lookedAt, noteVars>>

Works == UNCHANGED faultVars
FailsFor(dirs) == faults < MaxFaults /\ faults' = faults + 1 /\ harmed' = harmed \cup dirs
Fails == FailsFor({dir})

\* The answers of verifyDataDirPresent.  A timeout is told apart; any other error of the
\* ftp call is taken for an absent directory.
FilesOf(d) == IF d \in Hours THEN onUpmu[d] ELSE 0
Present    == Works /\ FilesOf(dir) > 0
Absent     == (Works /\ FilesOf(dir) = 0) \/ (Fails /\ FilesOf(dir) > 0)
Timeout    == Fails

\* The process ends wherever it is and is started again later.
Crash == /\ pc # "down"
         /\ crashes < MaxCrashes
         /\ crashes' = crashes + 1
         /\ pc' = "down"
         /\ lost' = lost \cup memory
         /\ memory' = {} /\ stray' = 0
         /\ UNCHANGED <<upmuVars, faultVars, dbVars, dirVars, filesVars, lookedAt, posted,
                        postedNow, twice, outdated>>

\* The other services are done with a file, or with what is none: its buffer is freed.
Archived == /\ \/ \E f \in memory : memory' = memory \ {f} /\ UNCHANGED stray
               \/ stray > 0 /\ stray' = stray - 1 /\ UNCHANGED memory
            /\ UNCHANGED <<upmuVars, faultVars, crashes, dbVars, pc, dirVars, filesVars,
                           lookedAt, posted, postedNow, twice, lost, outdated>>

-----------------------------------------------------------------------------
\* initService: getCurrentDirectory and getCurrentDataFileSet

Latest(ids) == {i \in ids : \A j \in ids : j <= i}

\* The directory to start from: the current one, else the last one processed, else the
\* default one.
Start ==
  /\ pc = "down"
  /\ pc' = "scan"
  /\ \/ /\ Cardinality(Currents) = 1
        /\ dbID' \in Currents /\ dir' = dirRows[dbID'].hour /\ dirState' = "current"
     \/ /\ Cardinality(Currents) # 1
        /\ dbID' \in Latest(Finished) /\ dir' = dirRows[dbID'].hour /\ dirState' = "processed"
     \/ /\ Cardinality(Currents) # 1 /\ Finished = {}
        /\ dbID' = 0 /\ dir' = 0 /\ dirState' = "proposed"
  /\ dataDirValid' = FALSE
  /\ inProgress' = FALSE /\ inDir' = {} /\ processed' = {} /\ file' = NoFile
  /\ postedNow' = {}
  /\ UNCHANGED <<upmuVars, faultVars, crashes, dbVars, lookedAt, posted, twice, memory, stray,
                 lost, outdated>>

\* incDataDir; the model follows a runaway scan one directory past the last hour.
Increment == /\ dir <= MaxHour
             /\ dir' = dir + 1
             /\ dirState' = "proposed"

\* From the last processed directory to the one after it.  If that is the present one,
\* getCurrentDirectory answers NO_DATA_DIR and the thread ends.
ScanIncrement == /\ pc = "scan" /\ dirState = "processed"
                 /\ Increment
                 /\ pc' = IF dir' = hour THEN "ended" ELSE "scan"
                 /\ UNCHANGED <<upmuVars, faultVars, crashes, dbVars, dbID, dataDirValid,
                                filesVars, lookedAt, noteVars>>

AddDirRow == dirRows' = Append(dirRows, [hour |-> dir, state |-> "current"])

\* The rows with the one of the directory in hand set to state.
Marked(state) == [dirRows EXCEPT ![dbID] = [hour |-> @.hour, state |-> state]]

\* The directory is there; a proposed one becomes a row of the table.
ScanPresent == /\ pc = "scan" /\ dirState # "processed"
               /\ Present
               /\ IF dirState = "proposed"
                  THEN AddDirRow /\ dbID' \in Currents \cup {Len(dirRows) + 1}
                  ELSE UNCHANGED <<dirRows, dbID>>
               /\ dirState' = "current"
               /\ dataDirValid' = TRUE
               /\ pc' = "files"
               /\ UNCHANGED <<upmuVars, crashes, fileRows, dir, filesVars, lookedAt, noteVars>>

\* It is not there: a current directory is abandoned, and the next one is looked for.  A
\* scan that has got past the running hour leaves directories behind that are yet to come.
ScanAbsent == /\ pc = "scan" /\ dirState # "processed"
              /\ Absent
              /\ dirRows' = IF dirState = "current" THEN Marked("abandoned") ELSE dirRows
              /\ Increment
              /\ outdated' = IF dir >= hour THEN outdated \cup {dir} ELSE outdated
              /\ lookedAt' = hour
              /\ pc' = IF dir' = hour THEN "files" ELSE "scan"
              /\ UNCHANGED <<upmuVars, crashes, fileRows, dbID, dataDirValid, filesVars, postVars>>

\* The uPMU does not answer: the service starts without a valid directory.
ScanTimeout == /\ pc = "scan" /\ dirState # "processed"
               /\ Timeout
               /\ pc' = "files"
               /\ UNCHANGED <<upmuVars, crashes, dbVars, dirVars, filesVars, lookedAt, noteVars>>

\* A statement of getCurrentDirectory or of getCurrentDataFileSet throws, the insert of a
\* proposed directory before or after its commit: initService fails and the thread ends.
InitFails == /\ pc \in {"scan", "files"}
             /\ Fails
             /\ \/ UNCHANGED dirRows
                \/ pc = "scan" /\ dirState = "proposed" /\ FilesOf(dir) > 0 /\ AddDirRow
             /\ pc' = "ended"
             /\ UNCHANGED <<upmuVars, crashes, fileRows, dirVars, filesVars, lookedAt, noteVars>>

\* Mutant of ReadFileSet: a file whose row still says "processing" counts as dealt with.
ReadFileSetAll ==
  LET rows == {r \in Range(fileRows) : r.dir = dbID}
  IN /\ pc = "files"
     /\ pc' = "loop"
     /\ inProgress' = (rows # {})
     /\ processed' = {r.file : r \in rows}
     /\ UNCHANGED <<upmuVars, faultVars, crashes, dbVars, dirVars, inDir, file, lookedAt, noteVars>>

\* getCurrentDataFileSet: the files of the directory with dbID that have been released.
ReadFileSet ==
  LET rows == {r \in Range(fileRows) : r.dir = dbID}
  IN /\ pc = "files"
     /\ pc' = "loop"
     /\ inProgress' = (rows # {})
     /\ processed' = {r.file : r \in {q \in rows : q.state = "released"}}
     /\ UNCHANGED <<upmuVars, faultVars, crashes, dbVars, dirVars, inDir, file, lookedAt, noteVars>>

-----------------------------------------------------------------------------
\* processUPMUdata, first half: the files of a valid directory

\* Files are known to the service by name, that is by hour and number.
Listed == {<<dir, f>> : f \in 1..FilesOf(dir)}

\* The list is fetched when it has run out, less the files already processed.  A failed
\* listing leaves it empty.
List == LET done == IF inProgress THEN processed ELSE {}
            rest == IF inProgress THEN inDir ELSE {}
        IN /\ pc = "loop" /\ dataDirValid
           /\ processed' = done
           /\ inProgress' = TRUE
           /\ \/ rest # {} /\ Works /\ inDir' = rest /\ UNCHANGED lookedAt
              \/ rest = {} /\ Works /\ inDir' = Listed \ done /\ lookedAt' = hour
              \/ rest = {} /\ Fails /\ inDir' = {} /\ lookedAt' = hour
           /\ pc' = "pick"
           /\ UNCHANGED <<upmuVars, crashes, dbVars, dirVars, file, noteVars>>

First(files) == {f \in files : \A g \in files : f[2] <= g[2]}

\* No file, the throttle closed, or the file not complete yet: nothing is taken.  A file
\* that could be taken may be found incomplete.
PickNone == /\ pc = "pick"
            /\ pc' = "age"
            /\ UNCHANGED <<upmuVars, faultVars, crashes, dbVars, dirVars, filesVars, lookedAt, noteVars>>

AddFileRow(f, state) ==
  fileRows' = Append(fileRows, [dir |-> dbID, file |-> f, state |-> state])

\* sharedInMemDataBufferCnt is no more than MAX_OUTSTANDING_MEM_BUF.
ThrottleOpen == Cardinality(memory) + stray <= MaxOutstanding

\* Mutant of Pick: the file is not entered into dataFilesProcessed.
PickForgets == /\ pc = "pick" /\ ThrottleOpen
               /\ file' \in First(inDir)
               /\ inDir' = inDir \ {file'}
               /\ Works
               /\ AddFileRow(file', "processing")
               /\ pc' = "fetch"
               /\ UNCHANGED <<upmuVars, crashes, dirRows, dirVars, inProgress, processed,
                              lookedAt, noteVars>>

\* Mutant of Pick: the row says "released" before the file is fetched.
PickReleases == /\ pc = "pick" /\ ThrottleOpen
                /\ file' \in First(inDir)
                /\ processed' = processed \cup {file'}
                /\ inDir' = inDir \ {file'}
                /\ Works
                /\ AddFileRow(file', "released")
                /\ pc' = "fetch"
                /\ UNCHANGED <<upmuVars, crashes, dirRows, dirVars, inProgress, lookedAt, noteVars>>

\* Mutant of Pick: the throttle is left out.
PickGreedy == /\ pc = "pick"
              /\ file' \in First(inDir)
              /\ processed' = processed \cup {file'}
              /\ inDir' = inDir \ {file'}
              /\ Works
              /\ AddFileRow(file', "processing")
              /\ pc' = "fetch"
              /\ UNCHANGED <<upmuVars, crashes, dirRows, dirVars, inProgress, lookedAt, noteVars>>

\* The first file of the list is taken.  It counts as processed from here on, even when
\* the insert of its row, or the query for its key, fails and the call ends.
Pick == /\ pc = "pick" /\ ThrottleOpen
        /\ file' \in First(inDir)
        /\ processed' = processed \cup {file'}
        /\ inDir' = inDir \ {file'}
        /\ \/ Works /\ pc' = "fetch" /\ AddFileRow(file', "processing")
           \/ Fails /\ pc' = "loop" /\ AddFileRow(file', "processing")
           \/ Fails /\ pc' = "loop" /\ UNCHANGED fileRows
        /\ UNCHANGED <<upmuVars, crashes, dirRows, dirVars, inProgress, lookedAt, noteVars>>

\* getDataFile and postProcessUPMUdata.  When the transfer fails, its error code is taken
\* for a length: what is posted and counted like a file is a buffer whose address nobody
\* has set.  A service that reads it may bring the process down, which is Crash.
Fetch == /\ pc = "fetch"
         /\ pc' = "release"
         /\ \/ /\ Works
               /\ posted' = posted \cup {file}
               /\ postedNow' = postedNow \cup {file}
               /\ twice' = (twice \/ file \in postedNow)
               /\ memory' = memory \cup {file}
               /\ lost' = lost \ {file}
               /\ UNCHANGED stray
            \/ /\ Fails
               /\ stray' = stray + 1
               /\ UNCHANGED <<posted, postedNow, twice, memory, lost>>
         /\ UNCHANGED <<upmuVars, crashes, dbVars, dirVars, filesVars, lookedAt, outdated>>

\* The row just added (dataRecordID) is marked as released.
Release == /\ pc = "release"
           /\ \/ /\ Works
                 /\ fileRows' = [fileRows EXCEPT ![Len(fileRows)] =
                                   [dir |-> @.dir, file |-> @.file, state |-> "released"]]
                 /\ pc' = "age"
              \/ Fails /\ pc' = "loop" /\ UNCHANGED fileRows
           /\ UNCHANGED <<upmuVars, crashes, dirRows, dirVars, filesVars, lookedAt, noteVars>>

\* Mutant of Age: a directory is left as soon as its hour is over.
AgeHasty == /\ pc = "age"
            /\ IF hour > dir
               THEN /\ dataDirValid' = FALSE
                    /\ inProgress' = FALSE
                    /\ outdated' = IF lookedAt = dir THEN outdated \cup {dir} ELSE outdated
                    /\ pc' = "next"
               ELSE pc' = "loop" /\ UNCHANGED <<dataDirValid, inProgress, outdated>>
            /\ UNCHANGED <<upmuVars, faultVars, crashes, dbVars, dir, dirState, dbID, inDir,
                           processed, file, lookedAt, postVars>>

\* No file left and the hour over: the directory is left.  The list may have been fetched
\* while the hour was still running.
Age == /\ pc = "age"
       /\ IF inDir = {} /\ hour > dir
          THEN /\ dataDirValid' = FALSE
               /\ inProgress' = FALSE
               /\ outdated' = IF lookedAt = dir THEN outdated \cup {dir} ELSE outdated
               /\ pc' = "next"
          ELSE pc' = "loop" /\ UNCHANGED <<dataDirValid, inProgress, outdated>>
       /\ UNCHANGED <<upmuVars, faultVars, crashes, dbVars, dir, dirState, dbID, inDir,
                      processed, file, lookedAt, postVars>>

-----------------------------------------------------------------------------
\* processUPMUdata, second half: no valid directory

NoDir == /\ pc = "loop" /\ ~dataDirValid
         /\ pc' = "next"
         /\ UNCHANGED <<upmuVars, faultVars, crashes, dbVars, dirVars, filesVars, lookedAt, noteVars>>

\* Mutant of CloseDir: the row of the directory stays current.
CloseDirOpen == /\ pc = "next"
                /\ Works
                /\ inProgress' = IF dirState = "current" THEN FALSE ELSE inProgress
                /\ outdated' = outdated
                /\ IF dir # hour THEN Increment
                   ELSE dir' = dir /\ dirState' = IF dirState = "current" THEN "unknown" ELSE dirState
                /\ pc' = "probe"
                /\ UNCHANGED <<upmuVars, crashes, dirRows, fileRows, dbID, dataDirValid, inDir,
                               processed, file, lookedAt, postVars>>

\* A current directory is marked as processed, and the scan moves to the next one unless
\* this one is the present.  A directory that was only proposed is passed over.
CloseDir == /\ pc = "next"
            /\ Works
            /\ dirRows' = IF dirState = "current" /\ dbID \in 1..Len(dirRows)
                          THEN Marked("processed") ELSE dirRows
            /\ inProgress' = IF dirState = "current" THEN FALSE ELSE inProgress
            /\ outdated' = IF dirState = "proposed" /\ dir # hour /\ lookedAt <= dir
                           THEN outdated \cup {dir} ELSE outdated
            /\ IF dir # hour THEN Increment
               ELSE dir' = dir /\ dirState' = IF dirState = "current" THEN "unknown" ELSE dirState
            /\ pc' = "probe"
            /\ UNCHANGED <<upmuVars, crashes, fileRows, dbID, dataDirValid, inDir, processed,
                           file, lookedAt, postVars>>

\* The update of the row fails: the call ends and is repeated.
CloseDirFails == /\ pc = "next" /\ dirState = "current"
                 /\ Fails
                 /\ pc' = "loop"
                 /\ UNCHANGED <<upmuVars, crashes, dbVars, dirVars, filesVars, lookedAt, noteVars>>

\* Mutant of ProbePresent: the id is counted up whether or not the insert succeeds.
ProbePresentGuesses == /\ pc = "probe"
                       /\ FilesOf(dir) > 0
                       /\ \/ Works /\ AddDirRow
                          \/ Fails /\ UNCHANGED dirRows
                       /\ dbID' = Len(dirRows) + 1
                       /\ dirState' = "current"
                       /\ dataDirValid' = TRUE
                       /\ pc' = "loop"
                       /\ UNCHANGED <<upmuVars, crashes, fileRows, dir, filesVars, lookedAt, noteVars>>

\* The directory has shown up: it becomes the current one.  addCurrentDirectoryRecord
\* swallows its failures, before or after the row is in the table.  In the second case the
\* row is never closed, and a restart that finds two current rows may close the wrong one:
\* no directory is safe from this failure.
ProbePresent == /\ pc = "probe"
                /\ FilesOf(dir) > 0
                /\ \/ Works /\ AddDirRow /\ dbID' = Len(dirRows) + 1
                   \/ Fails /\ UNCHANGED <<dirRows, dbID>>
                   \/ FailsFor(Dirs) /\ AddDirRow /\ UNCHANGED dbID
                /\ dirState' = "current"
                /\ dataDirValid' = TRUE
                /\ pc' = "loop"
                /\ UNCHANGED <<upmuVars, crashes, fileRows, dir, filesVars, lookedAt, noteVars>>

\* It has not, or the uPMU does not answer (the thread sleeps for 45 minutes).
ProbeAbsent == /\ pc = "probe"
               /\ Absent \/ Timeout
               /\ lookedAt' = hour
               /\ pc' = "loop"
               /\ UNCHANGED <<upmuVars, crashes, dbVars, dirVars, filesVars, noteVars>>

\* The steps of the discovery thread.
Thread == \/ Start \/ ScanIncrement \/ ScanPresent \/ ScanAbsent \/ ScanTimeout \/ InitFails
          \/ ReadFileSet
          \/ List \/ PickNone \/ Pick \/ Fetch \/ Release \/ Age
          \/ NoDir \/ CloseDir \/ CloseDirFails \/ ProbePresent \/ ProbeAbsent

Next == Tick \/ NewFile \/ Crash \/ Archived \/ Thread

\* The thread loops for ever and a crashed gateway is started again.  The other services
\* free every buffer, and a file is complete, or old enough, in the end: one that is asked
\* for again and again is taken.
Fairness == WF_vars(Thread) /\ SF_vars(Pick) /\ WF_vars(Archived)

Spec == Init /\ [][Next]_vars /\ Fairness

-----------------------------------------------------------------------------
\* Properties

Files == Hours \X (1..FilesPerHour)

\* Every variable keeps its type.
TypeOK == /\ hour \in Hours
          /\ onUpmu \in [Hours -> 0..FilesPerHour]
          /\ faults \in 0..MaxFaults /\ crashes \in 0..MaxCrashes
          /\ dirRows \in Seq([hour : Hours, state : {"current", "processed", "abandoned"}])
          /\ fileRows \in Seq([dir : Nat, file : Files, state : {"processing", "released"}])
          /\ pc \in {"down", "scan", "files", "loop", "pick", "fetch", "release", "age",
                     "next", "probe", "ended"}
          /\ dir \in Dirs
          /\ dirState \in {"unknown", "current", "processed", "proposed"}
          /\ dbID \in 0..Len(dirRows)
          /\ dataDirValid \in BOOLEAN /\ inProgress \in BOOLEAN /\ twice \in BOOLEAN
          /\ inDir \subseteq Files /\ processed \subseteq Files
          /\ lookedAt \in Hours
          /\ posted \subseteq Files /\ postedNow \subseteq posted
          /\ memory \subseteq posted /\ stray \in Nat /\ lost \subseteq posted
          /\ outdated \subseteq Hours /\ harmed \subseteq Dirs

AllPosted(h) == \A f \in 1..FilesOf(h) : <<h, f>> \in posted

\* However often the gateway crashes and restarts, every file of the directories behind
\* the scan has been posted, unless the directory was left on the word of a listing or a
\* probe from before the end of its hour, or something failed while it was in hand: a
\* failure costs files of no other directory.
NothingLeftBehind ==
  pc \notin {"down", "scan", "ended"} =>
    \A h \in Hours : h < dir => AllPosted(h) \/ h \in outdated \cup harmed

\* A file whose row says "released" has been posted, and the files of a directory whose row
\* says "processed", so that no restart looks into it again, have all been posted; but for
\* the directories that a failure or an outdated listing has hit.
RowsTellTheTruth ==
  /\ \A r \in Range(fileRows) : r.state = "released" => r.file \in posted \/ r.file[1] \in harmed
  /\ \A i \in Finished : \/ AllPosted(dirRows[i].hour)
                         \/ dirRows[i].hour \in outdated \cup harmed

\* At most one directory is current in the database, so that a restart always finds it,
\* unless a row was added without its id becoming known.
OneCurrent == Cardinality(Currents) <= 1 \/ harmed = Dirs

\* A crash loses only the files in memory, and the throttle keeps these few.  Their rows
\* say "released" already, so nothing brings them back.
CrashLosesFew == Cardinality(lost) <= crashes * (MaxOutstanding + 1)

\* Whatever fails, a file is posted at most once between two starts of the gateway.
PostedOnce == ~twice

\* Again and again every file the uPMU has put out is posted, but for the directories that
\* a failure or an outdated listing has hit, and unless the thread has given up in
\* initService after a crash or a failure, or a failure has sent the scan past the present
\* hour, where it finds nothing until the hour that it is at has come.
EventuallyCaughtUp ==
  []<>(\/ \A h \in Hours : AllPosted(h) \/ h \in outdated \cup harmed
       \/ pc = "ended" /\ crashes + faults > 0
       \/ dir > hour /\ faults > 0)

\* The comments of processUPMUdata, "just exhausted data files in this directory" and
\* "mark this one as done": a directory is processed only when every file that the uPMU
\* has put into it has been posted.
ExhaustedBeforeClosed == \A i \in Finished : AllPosted(dirRows[i].hour)
=============================================================================
