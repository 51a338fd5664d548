------------------------- MODULE DirectoryScanProofs -------------------------
(***************************************************************************)
(* The proofs about DirectoryScan, for any number of hours, files,         *)
(* failures and crashes.  The inductive invariant says, of every place the *)
(* discovery thread can be at, what it has dealt with by then, and of the  *)
(* two tables what a restart can rely on.                                  *)
(***************************************************************************)
EXTENDS DirectoryScan, SequenceTheorems, FiniteSetTheorems, TLAPS

-----------------------------------------------------------------------------
\* The invariant

USE DEF upmuVars, faultVars, dbVars, dirVars, filesVars, postVars, noteVars

\* Nothing more is to be expected of directory h: its hour is over and its files have been
\* posted, or it is one of those that a failure or an outdated listing has hit.
Settled(h) == \/ h \in outdated \cup harmed
              \/ h < hour /\ AllPosted(h)

Alive == pc \notin {"down", "ended"}

\* Files are put only into the directory of the running hour.
UpmuInv == /\ \A h \in Hours : h > hour => onUpmu[h] = 0
           /\ lookedAt <= hour

\* Everything behind the scan, and behind any row of the table, is settled, and so is the
\* directory of a row that is not current.
BehindInv ==
  /\ Alive => \A h \in Hours : h < dir => Settled(h)
  /\ \A i \in 1..Len(dirRows) :
       /\ onUpmu[dirRows[i].hour] > 0
       /\ \A h \in Hours : h < dirRows[i].hour => Settled(h)
       /\ dirRows[i].state # "current" => Settled(dirRows[i].hour)

\* A row that is current is the one in hand, and of the directory in hand.
CurrentInv ==
  \/ harmed = Dirs
  \/ /\ \A i, j \in Currents : i = j
     /\ Alive => \A i \in Currents : dirState = "current" /\ i = dbID /\ dirRows[i].hour = dir

\* The directory in hand, by its state and the place of the thread.
StateInv ==
  /\ Alive /\ (pc \in {"scan", "files"} \/ ~dataDirValid) => inDir = {}
  /\ pc = "scan" => /\ ~dataDirValid
                    /\ dirState = "processed" => Settled(dir)
                    /\ dirState = "current" => dbID \in 1..Len(dirRows)
  /\ Alive /\ pc # "scan" =>
       /\ dirState # "processed"
       /\ dataDirValid => dirState = "current" /\ dir \in Hours /\ onUpmu[dir] > 0
       /\ pc \in {"pick", "fetch", "release", "age"} => dataDirValid /\ inProgress
       /\ pc \in {"next", "probe"} => ~dataDirValid
       /\ pc = "probe" => dirState # "current"
       /\ ~dataDirValid /\ dirState = "current" => Settled(dir)
       /\ dirState = "unknown" => dir \in outdated \cup harmed
       /\ pc \in {"files", "loop", "next"} /\ dirState = "proposed" /\ lookedAt > dir
            => Settled(dir)

\* A list of files is in use.
Listing == \/ pc \in {"pick", "fetch", "release", "age"}
           \/ pc = "loop" /\ dataDirValid /\ inProgress /\ inDir # {}

\* A list that was fetched after the end of the hour has, with the files processed, every
\* file of the directory.
ListInv == Listing =>
  /\ lookedAt >= dir
  /\ \A g \in inDir : g[1] = dir /\ g \notin processed
  /\ lookedAt > dir => \/ dir \in harmed
                       \/ \A f \in 1..FilesOf(dir) : <<dir, f>> \in inDir \cup processed

\* The file in hand has the last row of the table.
FetchInv ==
  pc \in {"fetch", "release"} =>
    /\ file \in Files /\ file[1] = dir /\ file \in processed
    /\ fileRows # <<>> /\ fileRows[Len(fileRows)].file = file
    /\ pc = "fetch" => file \notin postedNow
    /\ pc = "release" => file \in posted \/ dir \in harmed

\* Processed files, and those whose rows say "released", have been posted.
ProcessedInv ==
  /\ Alive /\ pc \notin {"scan", "files"} =>
       \A g \in processed : g \in posted \/ g[1] \in harmed \/ (pc = "fetch" /\ g = file)
  /\ \A i \in 1..Len(fileRows) : fileRows[i].state = "released"
       => fileRows[i].file \in posted \/ fileRows[i].file[1] \in harmed

\* The files posted since the last start are of directories already left, or known to be
\* processed.
OnceInv ==
  /\ PostedOnce
  /\ Alive => \A g \in postedNow :
       /\ pc \notin {"scan", "files"}
       /\ g[1] <= dir
       /\ g[1] = dir => \/ dataDirValid /\ inProgress /\ g \in processed
                        \/ ~dataDirValid /\ dirState = "current" /\ hour > dir
                           /\ pc \in {"next", "loop"}

MemoryInv ==
  /\ IsFiniteSet(memory) /\ IsFiniteSet(lost)
  /\ Cardinality(memory) <= MaxOutstanding + (IF pc = "fetch" THEN 0 ELSE 1)
  /\ CrashLosesFew

ScanInv == /\ TypeOK /\ UpmuInv /\ BehindInv /\ CurrentInv /\ StateInv /\ ListInv
           /\ FetchInv /\ ProcessedInv /\ OnceInv /\ MemoryInv

-----------------------------------------------------------------------------
\* Facts about the operators

DirRow  == [hour : Hours, state : {"current", "processed", "abandoned"}]
FileRow == [dir : Nat, file : Files, state : {"processing", "released"}]

\* The types that the proofs use most.
LEMMA ScanTypes ==
  ASSUME TypeOK
  PROVE  /\ hour \in Nat /\ dir \in Nat /\ lookedAt \in Nat /\ MaxHour \in Nat
         /\ hour \in Hours /\ hour <= MaxHour /\ dir <= MaxHour + 1 /\ dir \in Dirs
         /\ dirRows \in Seq(DirRow) /\ Len(dirRows) \in Nat
         /\ fileRows \in Seq(FileRow) /\ Len(fileRows) \in Nat
         /\ dbID \in Nat /\ dbID <= Len(dirRows)
         /\ \A h \in Hours : h \in Nat /\ h <= MaxHour /\ onUpmu[h] \in Nat
         /\ \A i \in 1..Len(dirRows) : dirRows[i] \in DirRow /\ dirRows[i].hour \in Hours
         /\ \A i \in 1..Len(fileRows) : fileRows[i] \in FileRow
<1>1. /\ dirRows \in Seq(DirRow) /\ fileRows \in Seq(FileRow)
  BY DEF TypeOK, DirRow, FileRow
<1>2. Len(dirRows) \in Nat /\ Len(fileRows) \in Nat
  BY <1>1, LenProperties
<1>3. /\ \A i \in 1..Len(dirRows) : dirRows[i] \in DirRow
      /\ \A i \in 1..Len(fileRows) : fileRows[i] \in FileRow
  BY <1>1, ElementOfSeq
<1>4. \A i \in 1..Len(dirRows) : dirRows[i].hour \in Hours
  BY <1>3 DEF DirRow
<1>5. /\ hour \in Nat /\ dir \in Nat /\ lookedAt \in Nat /\ MaxHour \in Nat
      /\ hour <= MaxHour /\ dir <= MaxHour + 1 /\ hour \in Hours /\ dir \in Dirs
  BY ScanAssumption DEF TypeOK, Hours, Dirs
<1>6. dbID \in Nat /\ dbID <= Len(dirRows)
  BY <1>2 DEF TypeOK
<1>7. \A h \in Hours : h \in Nat /\ h <= MaxHour /\ onUpmu[h] \in Nat
  BY ScanAssumption DEF TypeOK, Hours
<1> QED BY <1>1, <1>2, <1>3, <1>4, <1>5, <1>6, <1>7

\* The directory table after the row in hand is given state s.
LEMMA MarkedFacts ==
  ASSUME TypeOK, dbID \in 1..Len(dirRows), NEW s \in {"processed", "abandoned"}
  PROVE  /\ Marked(s) \in Seq(DirRow) /\ Len(Marked(s)) = Len(dirRows)
         /\ \A i \in 1..Len(dirRows) :
              /\ Marked(s)[i].hour = dirRows[i].hour
              /\ Marked(s)[i].state = IF i = dbID THEN s ELSE dirRows[i].state
<1> DEFINE r == [hour |-> dirRows[dbID].hour, state |-> s]
<1>1. r \in DirRow /\ r.hour = dirRows[dbID].hour /\ r.state = s
  BY ScanTypes DEF DirRow
<1> HIDE DEF r
<1>2. Marked(s) = [dirRows EXCEPT ![dbID] = r]
  BY DEF Marked, r
<1>3. /\ [dirRows EXCEPT ![dbID] = r] \in Seq(DirRow)
      /\ Len([dirRows EXCEPT ![dbID] = r]) = Len(dirRows)
      /\ \A j \in 1..Len(dirRows) :
           [dirRows EXCEPT ![dbID] = r][j] = IF j = dbID THEN r ELSE dirRows[j]
  BY <1>1, ScanTypes, ExceptSeq
<1> QED BY <1>1, <1>2, <1>3

\* The directory table after a row is added.
LEMMA AddDirRowFacts ==
  ASSUME TypeOK, dir \in Hours, AddDirRow
  PROVE  /\ dirRows' \in Seq(DirRow) /\ Len(dirRows') = Len(dirRows) + 1
         /\ \A i \in 1..Len(dirRows) : dirRows'[i] = dirRows[i]
         /\ dirRows'[Len(dirRows) + 1].hour = dir
         /\ dirRows'[Len(dirRows) + 1].state = "current"
         /\ \A i \in 1..Len(dirRows') : i \in 1..Len(dirRows) \/ i = Len(dirRows) + 1
<1> DEFINE r == [hour |-> dir, state |-> "current"]
<1>1. r \in DirRow /\ r.hour = dir /\ r.state = "current"
  BY DEF DirRow
<1> HIDE DEF r
<1>2. dirRows' = Append(dirRows, r)
  BY DEF AddDirRow, r
<1>3. /\ dirRows' \in Seq(DirRow) /\ Len(dirRows') = Len(dirRows) + 1
      /\ \A i \in 1..Len(dirRows) : dirRows'[i] = dirRows[i]
      /\ dirRows'[Len(dirRows) + 1] = r
  BY <1>1, <1>2, ScanTypes, AppendProperties
<1>4. \A i \in 1..Len(dirRows') : i \in 1..Len(dirRows) \/ i = Len(dirRows) + 1
  BY <1>3, ScanTypes
<1> QED BY <1>1, <1>3, <1>4

\* The file table after a row is added.
LEMMA AddFileRowFacts ==
  ASSUME TypeOK, NEW f \in Files, AddFileRow(f, "processing")
  PROVE  /\ fileRows' \in Seq(FileRow) /\ Len(fileRows') = Len(fileRows) + 1
         /\ \A i \in 1..Len(fileRows) : fileRows'[i] = fileRows[i]
         /\ fileRows'[Len(fileRows) + 1].file = f
         /\ fileRows'[Len(fileRows) + 1].state = "processing"
         /\ \A i \in 1..Len(fileRows') : i \in 1..Len(fileRows) \/ i = Len(fileRows) + 1
         /\ fileRows' # <<>>
<1> DEFINE r == [dir |-> dbID, file |-> f, state |-> "processing"]
<1>1. r \in FileRow /\ r.file = f /\ r.state = "processing"
  BY ScanTypes DEF FileRow
<1> HIDE DEF r
<1>2. fileRows' = Append(fileRows, r)
  BY DEF AddFileRow, r
<1>3. /\ fileRows' \in Seq(FileRow) /\ Len(fileRows') = Len(fileRows) + 1
      /\ \A i \in 1..Len(fileRows) : fileRows'[i] = fileRows[i]
      /\ fileRows'[Len(fileRows) + 1] = r
  BY <1>1, <1>2, ScanTypes, AppendProperties
<1>4. \A i \in 1..Len(fileRows') : i \in 1..Len(fileRows) \/ i = Len(fileRows) + 1
  BY <1>3, ScanTypes
<1>5. fileRows' # <<>>
  BY <1>3, ScanTypes, EmptySeq
<1> QED BY <1>1, <1>3, <1>4, <1>5

\* The file table after its last row is released.
LEMMA ReleasedFacts ==
  ASSUME TypeOK, fileRows # <<>>,
         fileRows' = [fileRows EXCEPT ![Len(fileRows)] =
                        [dir |-> @.dir, file |-> @.file, state |-> "released"]]
  PROVE  /\ fileRows' \in Seq(FileRow) /\ Len(fileRows') = Len(fileRows)
         /\ \A i \in 1..Len(fileRows) :
              /\ fileRows'[i].file = fileRows[i].file
              /\ fileRows'[i].state = IF i = Len(fileRows) THEN "released" ELSE fileRows[i].state
<1> DEFINE n == Len(fileRows)
           r == [dir |-> fileRows[n].dir, file |-> fileRows[n].file, state |-> "released"]
<1>1. n \in 1..Len(fileRows)
  BY ScanTypes, EmptySeq
<1>2. r \in FileRow /\ r.file = fileRows[n].file /\ r.state = "released"
  BY <1>1, ScanTypes DEF FileRow
<1> HIDE DEF r, n
<1>3. fileRows' = [fileRows EXCEPT ![n] = r]
  BY DEF n, r
<1>4. /\ [fileRows EXCEPT ![n] = r] \in Seq(FileRow)
      /\ Len([fileRows EXCEPT ![n] = r]) = Len(fileRows)
      /\ \A j \in 1..Len(fileRows) :
           [fileRows EXCEPT ![n] = r][j] = IF j = n THEN r ELSE fileRows[j]
  BY <1>1, <1>2, ScanTypes, ExceptSeq
<1> QED BY <1>2, <1>3, <1>4 DEF n

\* A directory with files is one of the hours that have begun.
LEMMA HasFiles ==
  ASSUME TypeOK, UpmuInv, FilesOf(dir) > 0
  PROVE  dir \in Hours /\ dir <= hour /\ onUpmu[dir] > 0 /\ FilesOf(dir) = onUpmu[dir]
<1>1. dir \in Hours /\ FilesOf(dir) = onUpmu[dir]
  BY DEF FilesOf
<1> QED BY <1>1, ScanTypes DEF UpmuInv

\* The history only grows, and the directories of past hours do not change.
LEMMA HistoryGrows ==
  ASSUME TypeOK, [Next]_vars
  PROVE  /\ hour' \in Nat /\ hour <= hour'
         /\ posted \subseteq posted' /\ outdated \subseteq outdated' /\ harmed \subseteq harmed'
         /\ harmed' \subseteq Dirs
         /\ \A h \in Hours : /\ h < hour => onUpmu'[h] = onUpmu[h]
                             /\ onUpmu[h] > 0 => onUpmu'[h] > 0
<1>1. CASE Tick
  <2>1. /\ hour' = hour + 1
        /\ UNCHANGED <<onUpmu, posted, outdated, harmed>> /\ harmed \subseteq Dirs
    BY <1>1 DEF Tick, TypeOK
  <2>2. hour + 1 \in Nat /\ hour <= hour + 1
    <3>1. hour \in Nat
      BY ScanTypes
    <3> QED BY <3>1
  <2>3. \A h \in Hours : /\ h < hour => onUpmu'[h] = onUpmu[h]
                         /\ onUpmu[h] > 0 => onUpmu'[h] > 0
    BY <2>1
  <2> QED BY <2>1, <2>2, <2>3
<1>2. CASE NewFile
  <2>1. \A h \in Hours : onUpmu'[h] = IF h = hour THEN onUpmu[h] + 1 ELSE onUpmu[h]
    BY <1>2 DEF NewFile, TypeOK
  <2>2. \A h \in Hours : /\ h < hour => onUpmu'[h] = onUpmu[h]
                         /\ onUpmu[h] > 0 => onUpmu'[h] > 0
    <3>1. hour \in Nat /\ \A h \in Hours : h \in Nat /\ onUpmu[h] \in Nat
      BY ScanTypes
    <3> QED BY <2>1, <3>1
  <2>3. UNCHANGED <<hour, posted, outdated, harmed>> /\ harmed \subseteq Dirs
    BY <1>2 DEF NewFile, TypeOK
  <2> QED BY <2>2, <2>3, ScanTypes
<1>3. CASE Crash \/ Archived \/ UNCHANGED vars
  BY <1>3, ScanTypes DEF Crash, Archived, vars, TypeOK
<1>4. CASE Thread
  <2>1. UNCHANGED upmuVars
    BY <1>4 DEF Thread, Start, ScanIncrement, ScanPresent, ScanAbsent, ScanTimeout, InitFails,
       ReadFileSet, List, PickNone, Pick, Fetch, Release, Age, NoDir, CloseDir, CloseDirFails,
       ProbePresent, ProbeAbsent
  <2>2. harmed' = harmed \/ harmed' = harmed \cup {dir} \/ harmed' = harmed \cup Dirs
    BY <1>4 DEF Thread, Start, ScanIncrement, ScanPresent, ScanAbsent, ScanTimeout, InitFails,
       ReadFileSet, List, PickNone, Pick, Fetch, Release, Age, NoDir, CloseDir, CloseDirFails,
       ProbePresent, ProbeAbsent, Present, Absent, Timeout, Works, Fails, FailsFor
  <2>3. posted \subseteq posted'
    BY <1>4 DEF Thread, Start, ScanIncrement, ScanPresent, ScanAbsent, ScanTimeout, InitFails,
       ReadFileSet, List, PickNone, Pick, Fetch, Release, Age, NoDir, CloseDir, CloseDirFails,
       ProbePresent, ProbeAbsent
  <2>4. outdated \subseteq outdated'
    BY <1>4 DEF Thread, Start, ScanIncrement, ScanPresent, ScanAbsent, ScanTimeout, InitFails,
       ReadFileSet, List, PickNone, Pick, Fetch, Release, Age, NoDir, CloseDir, CloseDirFails,
       ProbePresent, ProbeAbsent
  <2> QED BY <2>1, <2>2, <2>3, <2>4, ScanTypes DEF TypeOK
<1> QED BY <1>1, <1>2, <1>3, <1>4 DEF Next

\* What is settled stays so.
LEMMA SettledStays ==
  ASSUME TypeOK, [Next]_vars, NEW h \in Dirs, Settled(h)
  PROVE  Settled(h)'
<1>1. CASE h \in outdated \cup harmed
  BY <1>1, HistoryGrows DEF Settled
<1>2. CASE h < hour /\ AllPosted(h)
  <2>1. h \in Hours /\ h < hour'
    BY <1>2, HistoryGrows, ScanTypes DEF Dirs, Hours
  <2>2. onUpmu'[h] = onUpmu[h]
    BY <1>2, <2>1, HistoryGrows
  <2>3. FilesOf(h)' = FilesOf(h)
    BY <2>1, <2>2 DEF FilesOf
  <2>4. AllPosted(h)'
    BY <1>2, <2>3, HistoryGrows DEF AllPosted
  <2> QED BY <2>1, <2>4 DEF Settled
<1> QED BY <1>1, <1>2 DEF Settled

\* Every hour has a directory.
LEMMA HoursAreDirs ==
  /\ \A h \in Hours : h \in Dirs /\ h \in Nat
  /\ \A h \in Dirs : h \in Nat /\ (h <= MaxHour => h \in Hours)
BY ScanAssumption DEF Hours, Dirs

-----------------------------------------------------------------------------
\* Types

\* The counters of failures, and the directories they harm.
LEMMA FaultTypes ==
  ASSUME TypeOK, Works \/ Fails \/ FailsFor(Dirs)
  PROVE  faults' \in 0..MaxFaults /\ harmed' \subseteq Dirs
<1>1. CASE Works
  BY <1>1 DEF Works, TypeOK
<1>2. CASE Fails \/ FailsFor(Dirs)
  <2>1. faults < MaxFaults /\ faults' = faults + 1 /\ faults \in 0..MaxFaults
    BY <1>2 DEF Fails, FailsFor, TypeOK
  <2>2. harmed' \subseteq Dirs
    BY <1>2 DEF Fails, FailsFor, TypeOK
  <2>3. faults' \in 0..MaxFaults
    BY <2>1, ScanAssumption
  <2> QED BY <2>2, <2>3
<1> QED BY <1>1, <1>2

\* The part of TypeOK about the state of the program.
LEMMA NextKeepsTypes ==
  TypeOK /\ UpmuInv /\ StateInv /\ FetchInv /\ [Next]_vars => TypeOK'
<1> SUFFICES ASSUME TypeOK, UpmuInv, StateInv, FetchInv, Next PROVE TypeOK'
  BY ZenonT(60) DEF vars, TypeOK
<1>1. CASE Tick
  <2>1. hour' \in Hours
    BY <1>1, ScanTypes DEF Tick, Hours
  <2> QED BY <1>1, <2>1 DEF Tick, TypeOK
<1>2. CASE NewFile
  <2>1. onUpmu' \in [Hours -> 0..FilesPerHour]
    <3>1. onUpmu[hour] + 1 \in 0..FilesPerHour
      BY <1>2, ScanAssumption DEF NewFile, TypeOK
    <3> QED BY <1>2, <3>1 DEF NewFile, TypeOK
  <2> QED BY <1>2, <2>1 DEF NewFile, TypeOK
<1>3. CASE Crash
  <2>1. crashes' \in 0..MaxCrashes
    BY <1>3, ScanAssumption DEF Crash, TypeOK
  <2> QED BY <1>3, <2>1 DEF Crash, TypeOK
<1>4. CASE Archived
  BY <1>4 DEF Archived, TypeOK
<1>5. CASE Start
  <2>1. /\ dbID' \in 0..Len(dirRows) /\ dir' \in Dirs
        /\ dirState' \in {"unknown", "current", "processed", "proposed"}
    <3>1. CASE dbID' \in 1..Len(dirRows) /\ dir' = dirRows[dbID'].hour
               /\ dirState' \in {"current", "processed"}
      BY <3>1, ScanTypes, HoursAreDirs
    <3>2. CASE dbID' = 0 /\ dir' = 0 /\ dirState' = "proposed"
      BY <3>2, ScanTypes DEF Dirs
    <3> QED BY <1>5, <3>1, <3>2 DEF Start, Currents, Latest, Finished
  <2> QED BY <1>5, <2>1 DEF Start, TypeOK
<1>6. CASE ScanIncrement
  <2>1. dir' \in Dirs
    BY <1>6, ScanTypes DEF ScanIncrement, Increment, Dirs
  <2> QED BY <1>6, <2>1 DEF ScanIncrement, Increment, TypeOK
<1>7. CASE ScanPresent
  <2>1. faults' \in 0..MaxFaults /\ harmed' \subseteq Dirs
    BY <1>7, FaultTypes DEF ScanPresent, Present
  <2>2. dirRows' \in Seq(DirRow) /\ dbID' \in 0..Len(dirRows')
    <3>1. CASE dirState = "proposed"
      <4>1. dir \in Hours
        BY <1>7, HasFiles DEF ScanPresent, Present
      <4>2. dirRows' \in Seq(DirRow) /\ Len(dirRows') = Len(dirRows) + 1
        BY <1>7, <3>1, <4>1, AddDirRowFacts DEF ScanPresent
      <4>3. dbID' \in 1..(Len(dirRows) + 1)
        BY <1>7, <3>1, ScanTypes DEF ScanPresent, Currents
      <4> QED BY <4>2, <4>3, ScanTypes
    <3>2. CASE dirState # "proposed"
      BY <1>7, <3>2, ScanTypes DEF ScanPresent, TypeOK
    <3> QED BY <3>1, <3>2
  <2> QED BY <1>7, <2>1, <2>2 DEF ScanPresent, TypeOK, DirRow
<1>8. CASE ScanAbsent
  <2>1. faults' \in 0..MaxFaults /\ harmed' \subseteq Dirs
    BY <1>8, FaultTypes DEF ScanAbsent, Absent
  <2>2. dir' \in Dirs /\ dir \in Hours
    BY <1>8, ScanTypes, HoursAreDirs DEF ScanAbsent, Increment, Dirs
  <2>3. dirRows' \in Seq(DirRow) /\ Len(dirRows') = Len(dirRows)
    BY <1>8, MarkedFacts, ScanTypes DEF ScanAbsent, StateInv
  <2>4. pc' \in {"files", "scan"}
    BY <1>8 DEF ScanAbsent
  <2>5. outdated' \subseteq Hours
    BY <1>8, <2>2 DEF ScanAbsent, TypeOK
  <2> QED BY <1>8, <2>1, <2>2, <2>3, <2>4, <2>5 DEF ScanAbsent, Increment, TypeOK, DirRow
<1>9. CASE ScanTimeout
  <2>1. faults' \in 0..MaxFaults /\ harmed' \subseteq Dirs
    BY <1>9, FaultTypes DEF ScanTimeout, Timeout
  <2> QED BY <1>9, <2>1 DEF ScanTimeout, TypeOK
<1>10. CASE InitFails
  <2>1. faults' \in 0..MaxFaults /\ harmed' \subseteq Dirs
    BY <1>10, FaultTypes DEF InitFails
  <2>2. dirRows' \in Seq(DirRow) /\ dbID' \in 0..Len(dirRows')
    <3>1. CASE UNCHANGED dirRows
      BY <1>10, <3>1, ScanTypes DEF InitFails, TypeOK
    <3>2. CASE FilesOf(dir) > 0 /\ AddDirRow
      <4>1. dirRows' \in Seq(DirRow) /\ Len(dirRows') = Len(dirRows) + 1
        BY <3>2, HasFiles, AddDirRowFacts
      <4>2. dbID' = dbID
        BY <1>10 DEF InitFails
      <4> QED BY <4>1, <4>2, ScanTypes
    <3> QED BY <1>10, <3>1, <3>2 DEF InitFails
  <2> QED BY <1>10, <2>1, <2>2 DEF InitFails, TypeOK, DirRow
<1>11. CASE ReadFileSet
  <2>1. processed' \subseteq Files
    <3>1. \A r \in Range(fileRows) : r.file \in Files
      BY ScanTypes DEF Range, FileRow
    <3> QED BY <1>11, <3>1 DEF ReadFileSet
  <2>2. inProgress' \in BOOLEAN
    BY <1>11 DEF ReadFileSet
  <2> QED BY <1>11, <2>1, <2>2 DEF ReadFileSet, TypeOK
<1>12. CASE List
  <2>1. faults' \in 0..MaxFaults /\ harmed' \subseteq Dirs
    BY <1>12, FaultTypes DEF List
  <2>2. Listed \subseteq Files
    <3>1. CASE dir \in Hours
      <4>1. onUpmu[dir] \in 0..FilesPerHour
        BY <3>1 DEF TypeOK
      <4>2. \A f \in 1..FilesOf(dir) : f \in 1..FilesPerHour
        BY <3>1, <4>1, ScanAssumption DEF FilesOf
      <4> QED BY <3>1, <4>2 DEF Listed, Files
    <3>2. CASE dir \notin Hours
      BY <3>2 DEF Listed, FilesOf
    <3> QED BY <3>1, <3>2
  <2>3. processed' \subseteq Files /\ inDir' \subseteq Files /\ lookedAt' \in Hours
    BY <1>12, <2>2, ScanTypes DEF List, TypeOK
  <2> QED BY <1>12, <2>1, <2>3 DEF List, TypeOK
<1>13. CASE PickNone
  BY <1>13 DEF PickNone, TypeOK
<1>14. CASE Pick
  <2>1. faults' \in 0..MaxFaults /\ harmed' \subseteq Dirs
    BY <1>14, FaultTypes DEF Pick
  <2>2. file' \in Files /\ processed' \subseteq Files /\ inDir' \subseteq Files
    BY <1>14 DEF Pick, First, TypeOK
  <2>3. fileRows' \in Seq(FileRow)
    <3> DEFINE f == file'
    <3>1. f \in Files /\ (AddFileRow(f, "processing") \/ fileRows' = fileRows)
      BY <1>14, <2>2 DEF Pick
    <3> HIDE DEF f
    <3> QED BY <3>1, ScanTypes, AddFileRowFacts
  <2>4. pc' \in {"fetch", "loop"}
    BY <1>14 DEF Pick
  <2> QED BY <1>14, <2>1, <2>2, <2>3, <2>4 DEF Pick, TypeOK, FileRow
<1>15. CASE Fetch
  <2>1. faults' \in 0..MaxFaults /\ harmed' \subseteq Dirs
    BY <1>15, FaultTypes DEF Fetch
  <2>2. file \in Files
    BY <1>15 DEF Fetch, FetchInv
  <2>3. /\ posted' \subseteq Files /\ postedNow' \subseteq posted' /\ twice' \in BOOLEAN
        /\ memory' \subseteq posted' /\ lost' \subseteq posted'
    BY <1>15, <2>2 DEF Fetch, TypeOK
  <2>4. stray' \in Nat
    BY <1>15 DEF Fetch, TypeOK
  <2> QED BY <1>15, <2>1, <2>3, <2>4 DEF Fetch, TypeOK
<1>16. CASE Release
  <2>1. faults' \in 0..MaxFaults /\ harmed' \subseteq Dirs
    BY <1>16, FaultTypes DEF Release
  <2>2. fileRows' \in Seq(FileRow)
    BY <1>16, ReleasedFacts, ScanTypes DEF Release, FetchInv
  <2>3. pc' \in {"age", "loop"}
    BY <1>16 DEF Release
  <2> QED BY <1>16, <2>1, <2>2, <2>3 DEF Release, TypeOK, FileRow
<1>17. CASE Age
  <2>1. /\ outdated' \subseteq Hours /\ dataDirValid' \in BOOLEAN /\ inProgress' \in BOOLEAN
        /\ pc' \in {"next", "loop"}
    <3>1. hour > dir => dir \in Hours
      BY ScanTypes, HoursAreDirs
    <3> QED BY <1>17, <3>1 DEF Age, TypeOK
  <2> QED BY <1>17, <2>1 DEF Age, TypeOK
<1>18. CASE NoDir
  BY <1>18 DEF NoDir, TypeOK
<1>19. CASE CloseDir
  <2>1. dirRows' \in Seq(DirRow) /\ Len(dirRows') = Len(dirRows)
    BY <1>19, MarkedFacts, ScanTypes DEF CloseDir
  <2>2. /\ dir' \in Dirs
        /\ dirState' \in {"unknown", "current", "processed", "proposed"}
    BY <1>19, ScanTypes, SMTT(60) DEF CloseDir, Increment, Dirs, TypeOK
  <2>3. outdated' \subseteq Hours /\ inProgress' \in BOOLEAN
    <3>1. dir # hour => dir \in Hours
      BY <1>19, ScanTypes, HoursAreDirs DEF CloseDir, Increment
    <3> QED BY <1>19, <3>1 DEF CloseDir, TypeOK
  <2> QED BY <1>19, <2>1, <2>2, <2>3 DEF CloseDir, Works, TypeOK, DirRow
<1>20. CASE CloseDirFails
  <2>1. faults' \in 0..MaxFaults /\ harmed' \subseteq Dirs
    BY <1>20, FaultTypes DEF CloseDirFails
  <2> QED BY <1>20, <2>1 DEF CloseDirFails, TypeOK
<1>21. CASE ProbePresent
  <2>1. faults' \in 0..MaxFaults /\ harmed' \subseteq Dirs
    BY <1>21, FaultTypes DEF ProbePresent
  <2>2. dirRows' \in Seq(DirRow) /\ dbID' \in 0..Len(dirRows')
    <3>1. CASE UNCHANGED <<dirRows, dbID>>
      BY <3>1, ScanTypes DEF TypeOK
    <3>2. CASE AddDirRow /\ dbID' \in {dbID, Len(dirRows) + 1}
      <4>1. dirRows' \in Seq(DirRow) /\ Len(dirRows') = Len(dirRows) + 1
        BY <1>21, <3>2, HasFiles, AddDirRowFacts DEF ProbePresent
      <4> QED BY <3>2, <4>1, ScanTypes
    <3> QED BY <1>21, <3>1, <3>2 DEF ProbePresent
  <2> QED BY <1>21, <2>1, <2>2 DEF ProbePresent, TypeOK, DirRow
<1>22. CASE ProbeAbsent
  <2>1. faults' \in 0..MaxFaults /\ harmed' \subseteq Dirs
    BY <1>22, FaultTypes DEF ProbeAbsent, Absent, Timeout
  <2> QED BY <1>22, <2>1 DEF ProbeAbsent, TypeOK
<1> QED BY <1>1, <1>2, <1>3, <1>4, <1>5, <1>6, <1>7, <1>8, <1>9, <1>10, <1>11, <1>12, <1>13,
        <1>14, <1>15, <1>16, <1>17, <1>18, <1>19, <1>20, <1>21, <1>22 DEF Next, Thread

-----------------------------------------------------------------------------
\* The uPMU and the directories behind the scan

\* Every step keeps files out of the hours to come.
LEMMA NextKeepsUpmu == TypeOK /\ UpmuInv /\ [Next]_vars => UpmuInv'
<1> SUFFICES ASSUME TypeOK, UpmuInv, [Next]_vars PROVE UpmuInv'
  OBVIOUS
<1>1. CASE Tick
  <2>1. hour' = hour + 1 /\ onUpmu' = onUpmu /\ lookedAt' = lookedAt
    BY <1>1 DEF Tick
  <2> QED BY <2>1, ScanTypes DEF UpmuInv
<1>2. CASE NewFile
  <2>1. \A h \in Hours : onUpmu'[h] = IF h = hour THEN onUpmu[h] + 1 ELSE onUpmu[h]
    BY <1>2 DEF NewFile, TypeOK
  <2>2. hour' = hour /\ lookedAt' = lookedAt
    BY <1>2 DEF NewFile
  <2> QED BY <2>1, <2>2, ScanTypes DEF UpmuInv
<1>3. CASE Crash \/ Archived \/ UNCHANGED vars
  BY <1>3 DEF Crash, Archived, vars, UpmuInv
<1>4. CASE Thread
  <2>1. UNCHANGED upmuVars
    BY <1>4 DEF Thread, Start, ScanIncrement, ScanPresent, ScanAbsent, ScanTimeout, InitFails,
       ReadFileSet, List, PickNone, Pick, Fetch, Release, Age, NoDir, CloseDir, CloseDirFails,
       ProbePresent, ProbeAbsent
  <2>2. lookedAt' = lookedAt \/ lookedAt' = hour
    BY <1>4 DEF Thread, Start, ScanIncrement, ScanPresent, ScanAbsent, ScanTimeout, InitFails,
       ReadFileSet, List, PickNone, Pick, Fetch, Release, Age, NoDir, CloseDir, CloseDirFails,
       ProbePresent, ProbeAbsent
  <2> QED BY <2>1, <2>2, ScanTypes DEF UpmuInv
<1> QED BY <1>1, <1>2, <1>3, <1>4 DEF Next

\* A directory that is empty when it is looked at, or whose listing fails, is settled.
LEMMA AbsentSettles ==
  ASSUME TypeOK, [Next]_vars, Absent \/ Timeout,
         NEW h \in Dirs, h = dir, h < hour \/ h \in outdated'
  PROVE  Settled(h)'
<1>1. CASE Fails
  BY <1>1 DEF Fails, FailsFor, Settled
<1>2. CASE h \in outdated'
  BY <1>2 DEF Settled
<1>3. CASE FilesOf(h) = 0 /\ h < hour
  <2>1. AllPosted(h)
    BY <1>3 DEF AllPosted
  <2>2. Settled(h)
    BY <1>3, <2>1 DEF Settled
  <2> QED BY <2>2, SettledStays
<1> QED BY <1>1, <1>2, <1>3 DEF Absent, Timeout

\* A directory that the scan leaves is settled.
LEMMA LeftIsSettled ==
  ASSUME TypeOK, StateInv, Next,
         ScanIncrement \/ ScanAbsent \/ (CloseDir /\ (dir # hour \/ dirState = "current")),
         NEW h \in Dirs, h = dir
  PROVE  Settled(h)'
<1>0. Settled(dir) => Settled(h)'
  BY SettledStays
<1>1. CASE ScanIncrement
  BY <1>0, <1>1 DEF ScanIncrement, StateInv
<1>2. CASE ScanAbsent
  <2>1. h < hour \/ h \in outdated'
    BY <1>2, ScanTypes DEF ScanAbsent
  <2> QED BY <1>2, <2>1, AbsentSettles DEF ScanAbsent
<1>3. CASE CloseDir /\ (dir # hour \/ dirState = "current")
  <2>1. pc = "next" /\ Alive
    BY <1>3 DEF CloseDir, Alive
  <2>2. CASE dirState # "proposed"
    BY <1>0, <2>1, <2>2 DEF StateInv, Settled, TypeOK
  <2>3. CASE dirState = "proposed" /\ lookedAt > dir
    BY <1>0, <2>1, <2>3 DEF StateInv
  <2>4. CASE dirState = "proposed" /\ lookedAt <= dir
    BY <1>3, <2>4 DEF CloseDir, Settled
  <2> QED BY <2>2, <2>3, <2>4, ScanTypes
<1> QED BY <1>1, <1>2, <1>3

\* What a step can do with the table of directories.
LEMMA RowSteps ==
  ASSUME TypeOK, UpmuInv, StateInv, [Next]_vars
  PROVE  \/ UNCHANGED dirRows
         \/ /\ AddDirRow /\ Alive /\ dir \in Hours /\ onUpmu[dir] > 0
            /\ dirState # "current" \/ harmed' = Dirs
            /\ ScanPresent \/ InitFails \/ ProbePresent
         \/ /\ dbID \in 1..Len(dirRows) /\ dirState = "current"
            /\ dirRows' = Marked("abandoned") \/ dirRows' = Marked("processed")
            /\ ScanAbsent \/ CloseDir
<1>1. CASE Tick \/ NewFile \/ Crash \/ Archived \/ UNCHANGED vars
  BY <1>1 DEF Tick, NewFile, Crash, Archived, vars
<1>2. CASE \/ Start \/ ScanIncrement \/ ScanTimeout \/ ReadFileSet \/ List \/ PickNone \/ Pick
           \/ Fetch \/ Release \/ Age \/ NoDir \/ CloseDirFails \/ ProbeAbsent
  BY <1>2 DEF Start, ScanIncrement, ScanTimeout, ReadFileSet, List, PickNone, Pick, Fetch,
     Release, Age, NoDir, CloseDirFails, ProbeAbsent
<1>3. CASE ScanPresent
  BY <1>3, HasFiles DEF ScanPresent, Present, Alive
<1>4. CASE InitFails
  BY <1>4, HasFiles DEF InitFails, Alive
<1>5. CASE ProbePresent
  <2>1. dirState # "current" /\ Alive /\ FilesOf(dir) > 0
    BY <1>5 DEF ProbePresent, StateInv, Alive
  <2> QED BY <1>5, <2>1, HasFiles DEF ProbePresent
<1>6. CASE ScanAbsent
  BY <1>6 DEF ScanAbsent, StateInv
<1>7. CASE CloseDir
  BY <1>7 DEF CloseDir
<1> QED BY <1>1, <1>2, <1>3, <1>4, <1>5, <1>6, <1>7 DEF Next, Thread

\* What a step can do with the directory in hand.
LEMMA DirSteps ==
  ASSUME [Next]_vars
  PROVE  \/ UNCHANGED dir /\ (Alive' => Alive)
         \/ Start
         \/ /\ ScanIncrement \/ ScanAbsent \/ (CloseDir /\ dir # hour)
            /\ Alive /\ Increment
<1>1. CASE Tick \/ NewFile \/ Crash \/ Archived \/ UNCHANGED vars
  BY <1>1 DEF Tick, NewFile, Crash, Archived, vars, Alive
<1>2. CASE \/ ScanPresent \/ ScanTimeout \/ InitFails \/ ReadFileSet \/ List \/ PickNone \/ Pick
           \/ Fetch \/ Release \/ Age \/ NoDir \/ CloseDirFails \/ ProbePresent \/ ProbeAbsent
  BY <1>2 DEF ScanPresent, ScanTimeout, InitFails, ReadFileSet, List, PickNone, Pick, Fetch,
     Release, Age, NoDir, CloseDirFails, ProbePresent, ProbeAbsent, Alive
<1>3. CASE ScanIncrement \/ ScanAbsent \/ CloseDir
  BY <1>3 DEF ScanIncrement, ScanAbsent, CloseDir, Alive
<1> QED BY <1>1, <1>2, <1>3 DEF Next, Thread

\* Every step keeps the directories behind settled.
LEMMA NextKeepsBehind ==
  TypeOK /\ UpmuInv /\ BehindInv /\ CurrentInv /\ StateInv /\ [Next]_vars => BehindInv'
<1> SUFFICES ASSUME TypeOK, UpmuInv, BehindInv, CurrentInv, StateInv, [Next]_vars
             PROVE  BehindInv'
  OBVIOUS
<1>1. ASSUME Alive', NEW h \in Hours, h < dir' PROVE Settled(h)'
  <2>1. CASE UNCHANGED dir /\ Alive
    BY <1>1, <2>1, SettledStays, HoursAreDirs DEF BehindInv
  <2>2. CASE Start
    <3>1. CASE dir' = 0
      BY <1>1, <3>1, ScanTypes
    <3>2. CASE dbID' \in 1..Len(dirRows) /\ dir' = dirRows[dbID'].hour
      BY <1>1, <3>2, SettledStays, HoursAreDirs DEF BehindInv
    <3> QED BY <2>2, <3>1, <3>2 DEF Start, Currents, Latest, Finished
  <2>3. CASE (ScanIncrement \/ ScanAbsent \/ (CloseDir /\ dir # hour)) /\ Alive /\ Increment
    <3>1. h < dir \/ h = dir
      BY <1>1, <2>3, ScanTypes DEF Increment
    <3>2. CASE h < dir
      BY <2>3, <3>2, SettledStays, HoursAreDirs DEF BehindInv
    <3>3. CASE h = dir
      BY <2>3, <3>3, LeftIsSettled, HoursAreDirs DEF Next, Thread
    <3> QED BY <3>1, <3>2, <3>3
  <2> QED BY <1>1, <2>1, <2>2, <2>3, DirSteps
<1>2. ASSUME NEW i \in 1..Len(dirRows'), NEW d \in Hours, d = dirRows'[i].hour,
             onUpmu[d] > 0, \A h \in Hours : h < d => Settled(h),
             dirRows'[i].state # "current" => Settled(d)'
      PROVE  /\ onUpmu'[dirRows'[i].hour] > 0
             /\ \A h \in Hours : h < dirRows'[i].hour => Settled(h)'
             /\ dirRows'[i].state # "current" => Settled(dirRows[i].hour)'
  <2>1. onUpmu'[d] > 0
    BY <1>2, HistoryGrows
  <2>2. \A h \in Hours : h < d => Settled(h)'
    BY <1>2, SettledStays, HoursAreDirs
  <2>3. dirRows'[i].state # "current" => Settled(dirRows[i].hour)'
    BY <1>2 DEF Settled, AllPosted, FilesOf
  <2> QED BY <1>2, <2>1, <2>2, <2>3
<1>3. ASSUME NEW i \in 1..Len(dirRows)
      PROVE  \E d \in Hours : /\ d = dirRows[i].hour /\ d \in Dirs /\ onUpmu[d] > 0
                              /\ \A h \in Hours : h < d => Settled(h)
                              /\ dirRows[i].state # "current" => Settled(d)
  BY ScanTypes, HoursAreDirs DEF BehindInv
<1>4. ASSUME NEW i \in 1..Len(dirRows')
      PROVE  /\ onUpmu'[dirRows'[i].hour] > 0
             /\ \A h \in Hours : h < dirRows'[i].hour => Settled(h)'
             /\ dirRows'[i].state # "current" => Settled(dirRows[i].hour)'
  <2>0. ASSUME i \in 1..Len(dirRows), dirRows'[i].hour = dirRows[i].hour,
               dirRows'[i].state = dirRows[i].state
        PROVE  /\ onUpmu'[dirRows'[i].hour] > 0
               /\ \A h \in Hours : h < dirRows'[i].hour => Settled(h)'
               /\ dirRows'[i].state # "current" => Settled(dirRows[i].hour)'
    <3>1. PICK d \in Hours : /\ d = dirRows[i].hour /\ d \in Dirs /\ onUpmu[d] > 0
                             /\ \A h \in Hours : h < d => Settled(h)
                             /\ dirRows[i].state # "current" => Settled(d)
      BY <1>3, <2>0
    <3>2. dirRows'[i].state # "current" => Settled(d)'
      BY <2>0, <3>1, SettledStays
    <3> QED BY <1>2, <2>0, <3>1, <3>2
  <2>1. CASE UNCHANGED dirRows
    BY <2>0, <2>1
  <2>2. CASE AddDirRow /\ Alive /\ dir \in Hours /\ onUpmu[dir] > 0
    <3>1. CASE i \in 1..Len(dirRows)
      BY <2>0, <2>2, <3>1, AddDirRowFacts
    <3>2. CASE i = Len(dirRows) + 1
      <4>1. dirRows'[i].hour = dir /\ dirRows'[i].state = "current"
        BY <2>2, <3>2, AddDirRowFacts
      <4>2. \A h \in Hours : h < dir => Settled(h)
        BY <2>2 DEF BehindInv
      <4> QED BY <1>2, <2>2, <4>1, <4>2
    <3> QED BY <2>2, <3>1, <3>2, AddDirRowFacts
  <2>3. CASE /\ dbID \in 1..Len(dirRows) /\ dirState = "current"
             /\ dirRows' = Marked("abandoned") \/ dirRows' = Marked("processed")
             /\ ScanAbsent \/ CloseDir
    <3>1. /\ i \in 1..Len(dirRows) /\ dirRows'[i].hour = dirRows[i].hour
          /\ i # dbID => dirRows'[i].state = dirRows[i].state
      BY <2>3, MarkedFacts
    <3>2. CASE i # dbID
      BY <2>0, <3>1, <3>2
    <3>3. CASE i = dbID
      <4>1. PICK d \in Hours : /\ d = dirRows[i].hour /\ d \in Dirs /\ onUpmu[d] > 0
                               /\ \A h \in Hours : h < d => Settled(h)
                               /\ dirRows[i].state # "current" => Settled(d)
        BY <1>3, <3>1
      <4>2. Settled(d)'
        <5>1. CASE harmed = Dirs
          BY <4>1, <5>1, HistoryGrows DEF Settled
        <5>2. CASE dirRows[i].state # "current"
          BY <4>1, <5>2, SettledStays
        <5>3. CASE d = dir
          BY <2>3, <4>1, <5>3, LeftIsSettled DEF Next, Thread
        <5>4. Alive
          BY <2>3 DEF ScanAbsent, CloseDir, Alive
        <5> QED BY <3>1, <4>1, <5>1, <5>2, <5>3, <5>4 DEF CurrentInv, Currents
      <4> QED BY <1>2, <3>1, <4>1, <4>2
    <3> QED BY <3>2, <3>3
  <2> QED BY <2>1, <2>2, <2>3, RowSteps
<1> QED BY <1>1, <1>4 DEF BehindInv

-----------------------------------------------------------------------------
\* The current row and the directory in hand

\* Of rows that are all the same one there is one, or none.
LEMMA OneOrNone ==
  ASSUME NEW S, \A i, j \in S : i = j, Cardinality(S) # 1
  PROVE  S = {}
<1>1. ASSUME NEW x \in S PROVE FALSE
  <2>1. S = {x}
    BY <1>1
  <2>2. Cardinality({x}) = 1
    BY FS_Singleton
  <2> QED BY <2>1, <2>2
<1> QED BY <1>1

\* Every step keeps the current directory single.
LEMMA NextKeepsCurrent ==
  TypeOK /\ UpmuInv /\ CurrentInv /\ StateInv /\ [Next]_vars => CurrentInv'
<1> SUFFICES ASSUME TypeOK, UpmuInv, CurrentInv, StateInv, [Next]_vars, harmed' # Dirs
             PROVE  CurrentInv'
  BY DEF CurrentInv
<1>1. /\ \A i, j \in Currents : i = j
      /\ Alive => \A i \in Currents : dirState = "current" /\ i = dbID /\ dirRows[i].hour = dir
  BY HistoryGrows DEF CurrentInv
<1>2. ASSUME UNCHANGED <<dirRows, dir, dbID>>, dirState' \in {dirState, "current"},
             Alive' => Alive
      PROVE  CurrentInv'
  BY <1>1, <1>2 DEF CurrentInv, Currents
<1>3. CASE Tick \/ NewFile \/ Crash \/ Archived \/ UNCHANGED vars
  BY <1>2, <1>3 DEF Tick, NewFile, Crash, Archived, vars, Alive
<1>4. CASE \/ ScanTimeout \/ ReadFileSet \/ List \/ PickNone \/ Pick \/ Fetch \/ Release \/ Age
           \/ NoDir \/ CloseDirFails \/ ProbeAbsent
  BY <1>2, <1>4 DEF ScanTimeout, ReadFileSet, List, PickNone, Pick, Fetch, Release, Age, NoDir,
     CloseDirFails, ProbeAbsent, Alive
<1>5. CASE Start
  <2>1. dirRows' = dirRows /\ Currents' = Currents
    BY <1>5 DEF Start, Currents
  <2>2. CASE dbID' \in Currents /\ dir' = dirRows[dbID'].hour /\ dirState' = "current"
    BY <1>1, <2>1, <2>2 DEF CurrentInv
  <2>3. CASE Cardinality(Currents) # 1
    BY <1>1, <2>1, <2>3, OneOrNone DEF CurrentInv
  <2> QED BY <1>5, <2>2, <2>3 DEF Start
<1>6. ASSUME Alive, dirState # "current" PROVE Currents = {}
  BY <1>1, <1>6
<1>7. ASSUME AddDirRow, dir \in Hours, Alive, dirState # "current"
      PROVE  \A i \in Currents' : i = Len(dirRows) + 1 /\ dirRows'[i].hour = dir
  <2>1. Currents = {}
    BY <1>6, <1>7
  <2> QED BY <1>7, <2>1, AddDirRowFacts DEF Currents
<1>8. CASE ScanIncrement
  <2>1. Currents = {}
    BY <1>6, <1>8 DEF ScanIncrement, Alive
  <2>2. Currents' = {}
    BY <1>8, <2>1 DEF ScanIncrement, Currents
  <2> QED BY <2>2 DEF CurrentInv
<1>9. CASE ScanPresent
  <2>1. Alive /\ FilesOf(dir) > 0
    BY <1>9 DEF ScanPresent, Present, Alive
  <2>2. CASE dirState = "proposed"
    <3>1. Currents = {}
      BY <1>6, <2>1, <2>2
    <3>2. dbID' = Len(dirRows) + 1 /\ AddDirRow /\ dirState' = "current" /\ dir' = dir
      BY <1>9, <2>2, <3>1 DEF ScanPresent
    <3>3. dir \in Hours
      BY <2>1, HasFiles
    <3>4. \A i \in Currents' : i = Len(dirRows) + 1 /\ dirRows'[i].hour = dir
      BY <1>7, <2>1, <2>2, <3>2, <3>3
    <3> QED BY <3>2, <3>4 DEF CurrentInv
  <2>3. CASE dirState # "proposed"
    BY <1>2, <1>9, <2>1, <2>3 DEF ScanPresent
  <2> QED BY <2>2, <2>3
<1>10. ASSUME dbID \in 1..Len(dirRows), Alive,
              dirRows' = Marked("abandoned") \/ dirRows' = Marked("processed")
       PROVE  CurrentInv'
  <2>1. \A i \in 1..Len(dirRows) : i # dbID => dirRows[i].state # "current"
    BY <1>1, <1>10 DEF Currents
  <2>2. Len(dirRows') = Len(dirRows) /\ \A i \in 1..Len(dirRows) : dirRows'[i].state # "current"
    BY <1>10, <2>1, MarkedFacts
  <2>3. Currents' = {}
    BY <2>2 DEF Currents
  <2> QED BY <2>3 DEF CurrentInv
<1>11. CASE ScanAbsent
  <2>1. CASE dirState = "current"
    BY <1>10, <1>11, <2>1 DEF ScanAbsent, StateInv, Alive
  <2>2. CASE dirState # "current"
    <3>1. Currents' = {}
      BY <1>6, <1>11, <2>2 DEF ScanAbsent, Alive, Currents
    <3> QED BY <3>1 DEF CurrentInv
  <2> QED BY <2>1, <2>2
<1>12. CASE CloseDir
  <2>1. CASE dirState = "current" /\ dbID \in 1..Len(dirRows)
    BY <1>10, <1>12, <2>1 DEF CloseDir, Alive
  <2>2. CASE ~(dirState = "current" /\ dbID \in 1..Len(dirRows))
    <3>1. Currents = {}
      BY <1>1, <1>12, <2>2 DEF CloseDir, Alive, Currents
    <3>2. Currents' = {}
      BY <1>12, <2>2, <3>1 DEF CloseDir, Currents
    <3> QED BY <3>2 DEF CurrentInv
  <2> QED BY <2>1, <2>2
<1>13. CASE InitFails
  <2>1. CASE UNCHANGED dirRows
    BY <1>2, <1>13, <2>1 DEF InitFails, Alive
  <2>2. CASE pc = "scan" /\ dirState = "proposed" /\ FilesOf(dir) > 0 /\ AddDirRow
    <3>1. \A i \in Currents' : i = Len(dirRows) + 1 /\ dirRows'[i].hour = dir
      BY <1>7, <2>2, HasFiles DEF Alive
    <3>2. ~Alive'
      BY <1>13 DEF InitFails, Alive
    <3> QED BY <3>1, <3>2 DEF CurrentInv
  <2> QED BY <1>13, <2>1, <2>2 DEF InitFails
<1>14. CASE ProbePresent
  <2>1. Alive /\ dirState # "current" /\ FilesOf(dir) > 0
    BY <1>14 DEF ProbePresent, StateInv, Alive
  <2>2. CASE UNCHANGED <<dirRows, dbID>>
    BY <1>2, <1>14, <2>1, <2>2 DEF ProbePresent
  <2>3. CASE AddDirRow /\ dbID' = Len(dirRows) + 1
    <3>1. \A i \in Currents' : i = Len(dirRows) + 1 /\ dirRows'[i].hour = dir
      BY <1>7, <2>1, <2>3, HasFiles
    <3>2. dirState' = "current" /\ dir' = dir
      BY <1>14 DEF ProbePresent
    <3> QED BY <2>3, <3>1, <3>2 DEF CurrentInv
  <2>4. CASE FailsFor(Dirs)
    <3>1. harmed' = Dirs
      BY <2>4 DEF FailsFor, TypeOK
    <3> QED BY <3>1
  <2> QED BY <1>14, <2>2, <2>3, <2>4 DEF ProbePresent
<1> QED BY <1>3, <1>4, <1>5, <1>8, <1>9, <1>11, <1>12, <1>13, <1>14 DEF Next, Thread

\* A directory that is left because no file of it is left is settled.
LEMMA AgeSettles ==
  ASSUME TypeOK, UpmuInv, StateInv, ListInv, ProcessedInv, Age, inDir = {}, hour > dir
  PROVE  \A h \in Dirs : h = dir => Settled(h)'
<1>1. pc = "age" /\ Alive /\ Listing
  BY DEF Age, Alive, Listing
<1>2. CASE lookedAt = dir
  BY <1>2 DEF Age, Settled
<1>3. CASE lookedAt > dir
  <2>1. CASE dir \in harmed
    BY <2>1 DEF Age, Settled
  <2>2. CASE \A f \in 1..FilesOf(dir) : <<dir, f>> \in processed
    <3>1. \A f \in 1..FilesOf(dir) : <<dir, f>> \in posted \/ <<dir, f>>[1] \in harmed
      BY <1>1, <2>2 DEF ProcessedInv
    <3>2. dir \in harmed \/ AllPosted(dir)
      BY <3>1 DEF AllPosted
    <3>3. Settled(dir)
      BY <3>2 DEF Settled
    <3> QED BY <3>3, SettledStays DEF Next, Thread
  <2> QED BY <1>1, <1>3, <2>1, <2>2 DEF ListInv
<1> QED BY <1>1, <1>2, <1>3, ScanTypes DEF ListInv

\* Every step keeps the state of the directory in hand.
LEMMA NextKeepsState ==
  /\ TypeOK /\ UpmuInv /\ BehindInv /\ StateInv /\ ListInv /\ ProcessedInv
  /\ [Next]_vars
  => StateInv'
<1> SUFFICES ASSUME TypeOK, UpmuInv, BehindInv, StateInv, ListInv, ProcessedInv, [Next]_vars
             PROVE  StateInv'
  OBVIOUS
<1>0. /\ dir' = dir => (Settled(dir) => Settled(dir)')
      /\ dir' = dir => (dir \in outdated \cup harmed => dir' \in outdated' \cup harmed')
      /\ dir \in Hours => (onUpmu[dir] > 0 => onUpmu'[dir] > 0)
  <2>1. \A h \in Dirs : Settled(h) => Settled(h)'
    BY SettledStays
  <2>2. dir' = dir => (Settled(dir) => Settled(dir)')
    BY <2>1, ScanTypes DEF Settled, AllPosted, FilesOf
  <2> QED BY <2>2, HistoryGrows
<1>1. CASE Tick \/ NewFile \/ Archived \/ UNCHANGED vars
  <2>1. UNCHANGED <<pc, dirRows, dirVars, filesVars, lookedAt>>
    BY <1>1 DEF Tick, NewFile, Archived, vars
  <2> QED BY <1>0, <2>1 DEF StateInv, Alive
<1>2. CASE Crash \/ InitFails
  BY <1>2 DEF Crash, InitFails, StateInv, Alive
<1>3. CASE Start
  <2>1. pc' = "scan" /\ dataDirValid' = FALSE /\ inDir' = {} /\ dirRows' = dirRows
    BY <1>3 DEF Start
  <2>2. dirState' = "current" => dbID' \in 1..Len(dirRows')
    BY <1>3, <2>1 DEF Start, Currents
  <2>3. dirState' = "processed" => Settled(dir)'
    <3>1. SUFFICES ASSUME dirState' = "processed" PROVE Settled(dir)'
      OBVIOUS
    <3>2. /\ dbID' \in 1..Len(dirRows) /\ dirRows[dbID'].state = "processed"
          /\ dir' = dirRows[dbID'].hour
      BY <1>3, <3>1 DEF Start, Latest, Finished
    <3>3. \E h \in Dirs : h = dir' /\ Settled(h)
      BY <3>2, ScanTypes, HoursAreDirs DEF BehindInv
    <3>4. \E h \in Dirs : h = dir' /\ Settled(h)'
      BY <3>3, SettledStays
    <3> QED BY <3>4 DEF Settled, AllPosted, FilesOf
  <2> QED BY <2>1, <2>2, <2>3 DEF StateInv, Alive
<1>4. CASE ScanIncrement
  BY <1>4 DEF ScanIncrement, Increment, StateInv, Alive
<1>5. CASE ScanPresent
  <2>1. dir \in Hours /\ onUpmu[dir] > 0
    BY <1>5, HasFiles DEF ScanPresent, Present
  <2>2. /\ pc' = "files" /\ dirState' = "current" /\ dataDirValid' = TRUE
        /\ UNCHANGED <<dir, onUpmu, inDir>> /\ inDir = {}
    BY <1>5 DEF ScanPresent, StateInv, Alive
  <2> QED BY <2>1, <2>2 DEF StateInv, Alive
<1>6. CASE ScanAbsent
  <2>1. /\ pc' \in {"files", "scan"} /\ dirState' = "proposed"
        /\ pc' = "files" => lookedAt' = dir'
        /\ UNCHANGED <<dataDirValid, inDir>> /\ ~dataDirValid /\ inDir = {}
    BY <1>6 DEF ScanAbsent, Increment, StateInv, Alive
  <2>2. dir' \in Nat
    BY <1>6, ScanTypes DEF ScanAbsent, Increment
  <2> QED BY <2>1, <2>2 DEF StateInv, Alive
<1>7. CASE ScanTimeout
  <2>1. dir' \in harmed'
    BY <1>7 DEF ScanTimeout, Timeout, Fails, FailsFor
  <2>2. Settled(dir)'
    BY <2>1 DEF Settled
  <2>3. /\ pc' = "files" /\ UNCHANGED <<dirState, dataDirValid, inDir>>
        /\ ~dataDirValid /\ inDir = {} /\ dirState # "processed"
    BY <1>7 DEF ScanTimeout, StateInv, Alive
  <2> QED BY <2>1, <2>2, <2>3 DEF StateInv, Alive
<1>8. CASE ReadFileSet
  <2>1. pc = "files" /\ pc' = "loop" /\ UNCHANGED <<onUpmu, dirVars, inDir, lookedAt>>
    BY <1>8 DEF ReadFileSet
  <2> QED BY <1>0, <2>1 DEF StateInv, Alive
<1>9. CASE List
  <2>1. /\ pc = "loop" /\ pc' = "pick" /\ UNCHANGED <<onUpmu, dirVars>>
        /\ dataDirValid /\ inProgress' = TRUE
    BY <1>9 DEF List
  <2> QED BY <1>0, <2>1 DEF StateInv, Alive
<1>10. CASE PickNone \/ Pick \/ Fetch \/ Release
  <2>1. /\ pc \in {"pick", "fetch", "release"} /\ pc' \in {"fetch", "release", "age", "loop"}
        /\ UNCHANGED <<onUpmu, dirVars, inProgress>>
    BY <1>10 DEF PickNone, Pick, Fetch, Release
  <2> QED BY <1>0, <2>1 DEF StateInv, Alive
<1>11. CASE Age
  <2>1. CASE inDir = {} /\ hour > dir
    <3>1. Settled(dir)'
      <4>1. \E h \in Dirs : h = dir' /\ Settled(h)'
        BY <1>11, <2>1, AgeSettles, ScanTypes DEF Age
      <4> QED BY <4>1 DEF Settled, AllPosted, FilesOf
    <3>2. /\ pc' = "next" /\ dataDirValid' = FALSE /\ inDir' = {} /\ dirState' = "current"
      BY <1>11, <2>1 DEF Age, StateInv, Alive
    <3> QED BY <3>1, <3>2 DEF StateInv, Alive
  <2>2. CASE ~(inDir = {} /\ hour > dir)
    <3>1. /\ pc = "age" /\ pc' = "loop" /\ UNCHANGED <<onUpmu, dirVars, inProgress, inDir>>
      BY <1>11, <2>2 DEF Age
    <3> QED BY <1>0, <3>1 DEF StateInv, Alive
  <2> QED BY <2>1, <2>2
<1>12. CASE NoDir
  <2>1. pc = "loop" /\ pc' = "next" /\ UNCHANGED <<dirVars, inDir, lookedAt>> /\ ~dataDirValid
    BY <1>12 DEF NoDir
  <2> QED BY <1>0, <2>1 DEF StateInv, Alive
<1>13. CASE CloseDir
  <2>1. /\ pc = "next" /\ pc' = "probe" /\ UNCHANGED <<dataDirValid, inDir>>
        /\ ~dataDirValid /\ inDir = {} /\ dirState # "processed"
    BY <1>13 DEF CloseDir, StateInv, Alive
  <2>2. dirState' \notin {"processed", "current"}
    BY <1>13, <2>1 DEF CloseDir, Increment
  <2>3. dirState' = "unknown" => dir' \in outdated' \cup harmed'
    <3>1. SUFFICES ASSUME dirState' = "unknown" PROVE dir \in outdated \cup harmed
      BY <1>0, <1>13 DEF CloseDir, Increment
    <3>2. dir = hour /\ (dirState = "current" \/ dirState = "unknown")
      BY <1>13, <3>1 DEF CloseDir, Increment
    <3>3. dirState = "current" => Settled(dir)
      BY <2>1 DEF StateInv, Alive
    <3>4. dirState = "unknown" => dir \in outdated \cup harmed
      BY <2>1 DEF StateInv, Alive
    <3> QED BY <3>2, <3>3, <3>4, ScanTypes DEF Settled
  <2> QED BY <2>1, <2>2, <2>3 DEF StateInv, Alive
<1>14. CASE CloseDirFails
  <2>1. /\ pc = "next" /\ pc' = "loop" /\ UNCHANGED <<dirVars, inDir, lookedAt>>
        /\ dirState = "current"
    BY <1>14 DEF CloseDirFails
  <2> QED BY <1>0, <2>1 DEF StateInv, Alive
<1>15. CASE ProbePresent
  <2>1. dir \in Hours /\ onUpmu[dir] > 0
    BY <1>15, HasFiles DEF ProbePresent
  <2>2. /\ pc' = "loop" /\ dirState' = "current" /\ dataDirValid' = TRUE
        /\ UNCHANGED <<dir, onUpmu, inDir>>
    BY <1>15 DEF ProbePresent
  <2> QED BY <2>1, <2>2 DEF StateInv, Alive
<1>16. CASE ProbeAbsent
  <2>1. /\ pc = "probe" /\ pc' = "loop" /\ UNCHANGED <<dirVars, inDir>> /\ lookedAt' = hour
        /\ ~dataDirValid /\ inDir = {} /\ dirState \notin {"processed", "current"}
    BY <1>16 DEF ProbeAbsent, StateInv, Alive
  <2>2. lookedAt' > dir' => Settled(dir)'
    <3>1. ASSUME hour > dir PROVE \A h \in Dirs : h = dir => Settled(h)'
      BY <1>16, <3>1, AbsentSettles, ScanTypes DEF ProbeAbsent
    <3>2. hour > dir => \E h \in Dirs : h = dir' /\ Settled(h)'
      BY <2>1, <3>1, ScanTypes
    <3> QED BY <2>1, <3>2 DEF Settled, AllPosted, FilesOf
  <2>3. dirState' = "unknown" => dir' \in outdated' \cup harmed'
    BY <1>0, <2>1 DEF StateInv, Alive
  <2> QED BY <2>1, <2>2, <2>3 DEF StateInv, Alive
<1> QED BY <1>1, <1>2, <1>3, <1>4, <1>5, <1>6, <1>7, <1>8, <1>9, <1>10, <1>11, <1>12, <1>13,
        <1>14, <1>15, <1>16 DEF Next, Thread

-----------------------------------------------------------------------------
\* The files of the directory in hand

\* Every step keeps the list of files true.
LEMMA NextKeepsList ==
  TypeOK /\ UpmuInv /\ StateInv /\ ListInv /\ [Next]_vars => ListInv'
<1> SUFFICES ASSUME TypeOK, UpmuInv, StateInv, ListInv, [Next]_vars, Listing'
             PROVE  ListInv'
  BY DEF ListInv
<1>1. ASSUME Listing, UNCHANGED <<dir, onUpmu, lookedAt, inDir, processed>> PROVE ListInv'
  BY <1>1, HistoryGrows DEF ListInv, FilesOf
<1>2. CASE Tick \/ Archived \/ UNCHANGED vars
  BY <1>1, <1>2 DEF Tick, Archived, vars, Listing
<1>3. CASE NewFile
  <2>1. Listing /\ UNCHANGED <<dir, lookedAt, inDir, processed, harmed>>
    BY <1>3 DEF NewFile, Listing
  <2>2. lookedAt > dir => FilesOf(dir)' = FilesOf(dir)
    <3>1. SUFFICES ASSUME lookedAt > dir PROVE FilesOf(dir)' = FilesOf(dir)
      OBVIOUS
    <3>2. dir < hour /\ dir \in Hours
      BY <3>1, ScanTypes, HoursAreDirs DEF UpmuInv
    <3>3. onUpmu'[dir] = onUpmu[dir]
      BY <3>2, HistoryGrows
    <3> QED BY <2>1, <3>2, <3>3 DEF FilesOf
  <2> QED BY <2>1, <2>2 DEF ListInv
<1>4. CASE \/ Crash \/ Start \/ ScanIncrement \/ ScanPresent \/ ScanAbsent \/ ScanTimeout
           \/ InitFails \/ NoDir \/ CloseDir
  <2>1. pc' \in {"down", "scan", "files", "ended", "next", "probe"}
    BY <1>4 DEF Crash, Start, ScanIncrement, ScanPresent, ScanAbsent, ScanTimeout, InitFails,
       NoDir, CloseDir
  <2> QED BY <2>1 DEF Listing
<1>5. CASE ReadFileSet
  <2>1. pc = "files" /\ pc' = "loop" /\ inDir' = inDir
    BY <1>5 DEF ReadFileSet
  <2>2. inDir = {}
    BY <2>1 DEF StateInv, Alive
  <2> QED BY <2>1, <2>2 DEF Listing
<1>6. CASE CloseDirFails \/ ProbePresent \/ ProbeAbsent
  <2>1. pc \in {"next", "probe"} /\ pc' = "loop" /\ inDir' = inDir
    BY <1>6 DEF CloseDirFails, ProbePresent, ProbeAbsent
  <2>2. inDir = {}
    BY <2>1 DEF StateInv, Alive
  <2> QED BY <2>1, <2>2 DEF Listing
<1>7. CASE List
  <2>1. /\ pc = "loop" /\ dataDirValid /\ pc' = "pick" /\ UNCHANGED <<dir, onUpmu>>
        /\ dir \in Hours /\ onUpmu[dir] > 0
    BY <1>7 DEF List, StateInv, Alive
  <2>2. dir <= hour
    <3>1. FilesOf(dir) > 0
      BY <2>1 DEF FilesOf
    <3> QED BY <3>1, HasFiles
  <2>3. CASE inProgress /\ inDir # {}
    BY <1>1, <1>7, <2>1, <2>3 DEF List, Listing
  <2>4. CASE inDir' = Listed \ processed' /\ lookedAt' = hour
    <3>1. lookedAt' = hour /\ inDir' = Listed \ processed'
      BY <2>4
    <3>2. \A g \in inDir' : g[1] = dir /\ g \notin processed'
      BY <3>1 DEF Listed
    <3>3. \A f \in 1..FilesOf(dir) : <<dir, f>> \in inDir' \cup processed'
      BY <3>1 DEF Listed
    <3>4. FilesOf(dir)' = FilesOf(dir)
      BY <2>1 DEF FilesOf
    <3> QED BY <2>1, <2>2, <3>1, <3>2, <3>3, <3>4, ScanTypes DEF ListInv
  <2>5. CASE Fails /\ inDir' = {} /\ lookedAt' = hour
    <3>1. dir' \in harmed'
      BY <2>1, <2>5 DEF Fails, FailsFor
    <3> QED BY <2>1, <2>2, <2>5, <3>1, ScanTypes DEF ListInv
  <2> QED BY <1>7, <2>3, <2>4, <2>5 DEF List
<1>8. CASE PickNone \/ Fetch \/ Release
  <2>1. Listing /\ UNCHANGED <<dir, onUpmu, lookedAt, inDir, processed>>
    BY <1>8 DEF PickNone, Fetch, Release, Listing
  <2> QED BY <1>1, <2>1
<1>9. CASE Age
  <2>1. Listing /\ UNCHANGED <<dir, onUpmu, lookedAt, inDir, processed>>
    BY <1>9 DEF Age, Listing
  <2> QED BY <1>1, <2>1
<1>10. CASE Pick
  <2>1. /\ Listing /\ UNCHANGED <<dir, onUpmu, lookedAt>> /\ file' \in inDir
        /\ processed' = processed \cup {file'} /\ inDir' = inDir \ {file'}
    BY <1>10 DEF Pick, Listing, First
  <2>2. FilesOf(dir)' = FilesOf(dir)
    BY <2>1 DEF FilesOf
  <2> QED BY <2>1, <2>2, HistoryGrows DEF ListInv
<1> QED BY <1>2, <1>3, <1>4, <1>5, <1>6, <1>7, <1>8, <1>9, <1>10 DEF Next, Thread

\* Every step keeps the file at hand true.
LEMMA NextKeepsFetch ==
  TypeOK /\ StateInv /\ ListInv /\ FetchInv /\ OnceInv /\ [Next]_vars => FetchInv'
<1> SUFFICES ASSUME TypeOK, StateInv, ListInv, FetchInv, OnceInv, [Next]_vars,
                    pc' \in {"fetch", "release"}
             PROVE  FetchInv'
  BY DEF FetchInv
<1>1. CASE Tick \/ NewFile \/ Archived \/ UNCHANGED vars
  BY <1>1 DEF Tick, NewFile, Archived, vars, FetchInv
<1>2. CASE Pick
  <2> DEFINE f == file'
  <2>1. /\ pc = "pick" /\ pc' = "fetch" /\ AddFileRow(f, "processing") /\ f \in inDir
        /\ f \in processed' /\ UNCHANGED <<dir, postedNow>>
    BY <1>2 DEF Pick, First
  <2>2. f \in Files
    BY <2>1 DEF TypeOK
  <2>3. f[1] = dir /\ f \notin processed
    BY <2>1 DEF ListInv, Listing
  <2>4. f \notin postedNow
    BY <2>1, <2>3 DEF OnceInv, Alive, StateInv
  <2> HIDE DEF f
  <2>5. fileRows' # <<>> /\ fileRows'[Len(fileRows')].file = f
    BY <2>1, <2>2, AddFileRowFacts
  <2>6. f = file'
    BY DEF f
  <2> QED BY <2>1, <2>2, <2>3, <2>4, <2>5, <2>6 DEF FetchInv
<1>3. CASE Fetch
  <2>1. /\ pc = "fetch" /\ pc' = "release" /\ UNCHANGED <<fileRows, file, processed, dir>>
    BY <1>3 DEF Fetch
  <2>2. file \in posted' \/ dir \in harmed'
    BY <1>3 DEF Fetch, Fails, FailsFor
  <2> QED BY <2>1, <2>2 DEF FetchInv
<1>4. CASE \/ Crash \/ Start \/ ScanIncrement \/ ScanPresent \/ ScanAbsent \/ ScanTimeout
           \/ InitFails \/ ReadFileSet \/ List \/ PickNone \/ Release \/ Age \/ NoDir \/ CloseDir
           \/ CloseDirFails \/ ProbePresent \/ ProbeAbsent
  BY <1>4 DEF Crash, Start, ScanIncrement, ScanPresent, ScanAbsent, ScanTimeout, InitFails,
     ReadFileSet, List, PickNone, Release, Age, NoDir, CloseDir, CloseDirFails, ProbePresent,
     ProbeAbsent
<1> QED BY <1>1, <1>2, <1>3, <1>4 DEF Next, Thread

\* Every step keeps the processed directories complete.
LEMMA NextKeepsProcessed ==
  TypeOK /\ ListInv /\ FetchInv /\ ProcessedInv /\ [Next]_vars => ProcessedInv'
<1> SUFFICES ASSUME TypeOK, ListInv, FetchInv, ProcessedInv, [Next]_vars PROVE ProcessedInv'
  OBVIOUS
<1> DEFINE Safe(g)  == g \in posted \/ g[1] \in harmed
           SafeN(g) == g \in posted' \/ g[1] \in harmed'
           Rows     == \A i \in 1..Len(fileRows) :
                         fileRows[i].state = "released" => Safe(fileRows[i].file)
           RowsN    == \A i \in 1..Len(fileRows') :
                         fileRows'[i].state = "released" => SafeN(fileRows'[i].file)
           Done     == pc \in {"loop", "pick", "fetch", "release", "age", "next", "probe"}
           DoneN    == pc' \in {"loop", "pick", "fetch", "release", "age", "next", "probe"}
           Kept     == Done => \A g \in processed : Safe(g) \/ (pc = "fetch" /\ g = file)
           KeptN    == DoneN => \A g \in processed' : SafeN(g) \/ (pc' = "fetch" /\ g = file')
<1>1. /\ Rows /\ Kept
      /\ \A g : Safe(g) => SafeN(g)
  BY HistoryGrows DEF ProcessedInv, Alive
<1>2. SUFFICES RowsN /\ KeptN
  <2>1. pc' \in {"down", "scan", "files", "loop", "pick", "fetch", "release", "age",
                  "next", "probe", "ended"}
    BY DEF Next, Thread, vars, TypeOK, Tick, NewFile, Crash, Archived, Start, ScanIncrement,
       ScanPresent, ScanAbsent, ScanTimeout, InitFails, ReadFileSet, List, PickNone, Pick, Fetch,
       Release, Age, NoDir, CloseDir, CloseDirFails, ProbePresent, ProbeAbsent
  <2> QED BY <1>2, <2>1 DEF ProcessedInv, Alive
<1>3. CASE \/ Tick \/ NewFile \/ Crash \/ Archived \/ UNCHANGED vars \/ Start \/ ScanIncrement
           \/ ScanPresent \/ ScanAbsent \/ ScanTimeout \/ InitFails \/ PickNone \/ Age \/ NoDir
           \/ CloseDir \/ CloseDirFails \/ ProbePresent \/ ProbeAbsent
  <2>1. /\ fileRows' = fileRows
        /\ DoneN => Done /\ UNCHANGED <<processed, file>> /\ (pc = "fetch" => pc' = "fetch")
    BY <1>3 DEF Tick, NewFile, Crash, Archived, vars, Start, ScanIncrement, ScanPresent,
       ScanAbsent, ScanTimeout, InitFails, PickNone, Age, NoDir, CloseDir, CloseDirFails,
       ProbePresent, ProbeAbsent
  <2> HIDE DEF Safe, SafeN
  <2> QED BY <1>1, <2>1
<1>4. CASE ReadFileSet
  <2>1. /\ fileRows' = fileRows /\ pc' = "loop"
        /\ \A g \in processed' : \E r \in Range(fileRows) : r.state = "released" /\ g = r.file
    BY <1>4 DEF ReadFileSet
  <2> HIDE DEF Safe, SafeN
  <2>2. \A r \in Range(fileRows) : r.state = "released" => SafeN(r.file)
    BY <1>1, ScanTypes, LenProperties DEF Range
  <2> QED BY <1>1, <2>1, <2>2
<1>5. CASE List
  <2>1. fileRows' = fileRows /\ pc = "loop" /\ pc' = "pick" /\ processed' \subseteq processed
    BY <1>5 DEF List
  <2> HIDE DEF Safe, SafeN
  <2> QED BY <1>1, <2>1
<1>6. CASE Pick
  <2> DEFINE f == file'
  <2>1. /\ pc = "pick" /\ f \in inDir /\ processed' = processed \cup {f}
        /\ AddFileRow(f, "processing") \/ fileRows' = fileRows
        /\ pc' = "fetch" \/ (Fails /\ pc' = "loop")
    BY <1>6 DEF Pick, First
  <2>2. f \in Files /\ f[1] = dir
    BY <2>1 DEF TypeOK, ListInv, Listing
  <2>3. Fails => SafeN(f)
    BY <2>2 DEF Fails, FailsFor
  <2> HIDE DEF Safe, SafeN
  <2>4. KeptN
    BY <1>1, <2>1, <2>3
  <2> HIDE DEF f
  <2>5. RowsN
    BY <1>1, <2>1, <2>2, AddFileRowFacts
  <2> QED BY <2>4, <2>5
<1>7. CASE Fetch
  <2>1. /\ fileRows' = fileRows /\ pc = "fetch" /\ pc' = "release"
        /\ UNCHANGED <<processed, file>>
    BY <1>7 DEF Fetch
  <2>2. SafeN(file)
    BY <1>7 DEF Fetch, FetchInv, Fails, FailsFor
  <2> HIDE DEF Safe, SafeN
  <2> QED BY <1>1, <2>1, <2>2
<1>8. CASE Release
  <2>1. /\ pc = "release" /\ processed' = processed /\ fileRows # <<>>
        /\ fileRows[Len(fileRows)].file = file /\ Safe(file)
    BY <1>8 DEF Release, FetchInv
  <2> HIDE DEF Safe, SafeN
  <2>2. KeptN
    BY <1>1, <2>1
  <2>3. RowsN
    <3>1. CASE fileRows' = fileRows
      BY <1>1, <3>1
    <3>2. CASE fileRows' = [fileRows EXCEPT ![Len(fileRows)] =
                              [dir |-> @.dir, file |-> @.file, state |-> "released"]]
      <4>1. /\ Len(fileRows') = Len(fileRows)
            /\ \A i \in 1..Len(fileRows) :
                 /\ fileRows'[i].file = fileRows[i].file
                 /\ fileRows'[i].state = IF i = Len(fileRows) THEN "released" ELSE fileRows[i].state
        BY <2>1, <3>2, ReleasedFacts
      <4> QED BY <1>1, <2>1, <4>1
    <3> QED BY <1>8, <3>1, <3>2 DEF Release
  <2> QED BY <2>2, <2>3
<1> QED BY <1>3, <1>4, <1>5, <1>6, <1>7, <1>8 DEF Next, Thread

\* Every step keeps each file posted once.
LEMMA NextKeepsOnce ==
  TypeOK /\ UpmuInv /\ StateInv /\ FetchInv /\ OnceInv /\ [Next]_vars => OnceInv'
<1> SUFFICES ASSUME TypeOK, UpmuInv, StateInv, FetchInv, OnceInv, [Next]_vars PROVE OnceInv'
  OBVIOUS
<1>0. \A g \in postedNow : g[1] \in Nat
  BY HoursAreDirs DEF TypeOK, Files
<1>1. CASE Tick \/ NewFile \/ Archived \/ UNCHANGED vars
  <2>1. UNCHANGED <<pc, dirVars, inProgress, processed, postedNow, twice>>
    BY <1>1 DEF Tick, NewFile, Archived, vars
  <2>2. hour > dir => hour' > dir
    BY HistoryGrows, ScanTypes
  <2> QED BY <2>1, <2>2 DEF OnceInv, PostedOnce, Alive
<1>2. CASE Crash \/ Start \/ InitFails
  BY <1>2 DEF Crash, Start, InitFails, OnceInv, PostedOnce, Alive
<1>3. CASE ScanIncrement \/ ScanPresent \/ ScanAbsent \/ ScanTimeout \/ ReadFileSet
  <2>1. pc \in {"scan", "files"} /\ UNCHANGED <<postedNow, twice>>
    BY <1>3 DEF ScanIncrement, ScanPresent, ScanAbsent, ScanTimeout, ReadFileSet
  <2>2. postedNow = {}
    BY <2>1 DEF OnceInv, Alive
  <2> QED BY <2>1, <2>2 DEF OnceInv, PostedOnce
<1>4. CASE List
  <2>1. /\ pc = "loop" /\ pc' = "pick" /\ dataDirValid /\ inProgress' = TRUE
        /\ UNCHANGED <<dirVars, postedNow, twice>> /\ (inProgress => processed' = processed)
    BY <1>4 DEF List
  <2> QED BY <2>1 DEF OnceInv, PostedOnce, Alive
<1>5. CASE PickNone \/ Pick \/ Release
  <2>1. /\ pc \in {"pick", "release"} /\ pc' \in {"fetch", "age", "loop"}
        /\ UNCHANGED <<dirVars, inProgress, postedNow, twice>> /\ processed \subseteq processed'
    BY <1>5 DEF PickNone, Pick, Release
  <2> QED BY <2>1 DEF OnceInv, PostedOnce, Alive
<1>6. CASE Fetch
  <2>1. /\ pc = "fetch" /\ pc' = "release" /\ UNCHANGED <<dirVars, inProgress, processed>>
        /\ dataDirValid /\ inProgress
        /\ file[1] = dir /\ file \in processed /\ file \notin postedNow
    BY <1>6 DEF Fetch, StateInv, FetchInv, Alive
  <2>2. postedNow' \subseteq postedNow \cup {file} /\ ~twice'
    <3>1. ~twice /\ file \notin postedNow
      BY <2>1 DEF OnceInv, PostedOnce
    <3>2. CASE twice' = (twice \/ file \in postedNow) /\ postedNow' = postedNow \cup {file}
      BY <3>1, <3>2, Zenon
    <3>3. CASE UNCHANGED <<postedNow, twice>>
      BY <3>1, <3>3
    <3> QED BY <1>6, <3>2, <3>3 DEF Fetch
  <2> QED BY <2>1, <2>2, ScanTypes DEF OnceInv, PostedOnce, Alive
<1>7. CASE Age
  <2>1. /\ pc = "age" /\ dataDirValid /\ dirState = "current" /\ inProgress
        /\ UNCHANGED <<hour, dir, dirState, processed, postedNow, twice>>
    BY <1>7 DEF Age, StateInv, Alive
  <2>2. \/ pc' = "next" /\ dataDirValid' = FALSE /\ hour > dir
        \/ pc' = "loop" /\ UNCHANGED <<dataDirValid, inProgress>>
    BY <1>7 DEF Age
  <2> QED BY <2>1, <2>2 DEF OnceInv, PostedOnce, Alive
<1>8. CASE NoDir \/ CloseDirFails
  <2>1. /\ pc \in {"loop", "next"} /\ pc' \in {"loop", "next"}
        /\ UNCHANGED <<hour, dirVars, inProgress, processed, postedNow, twice>>
    BY <1>8 DEF NoDir, CloseDirFails
  <2> QED BY <2>1 DEF OnceInv, PostedOnce, Alive
<1>9. CASE CloseDir
  <2>1. /\ pc = "next" /\ pc' = "probe" /\ ~dataDirValid /\ UNCHANGED <<postedNow, twice>>
        /\ dir' = IF dir # hour THEN dir + 1 ELSE dir
    BY <1>9 DEF CloseDir, Increment, StateInv, Alive
  <2>2. \A g \in postedNow : g[1] <= dir /\ (g[1] = dir => hour > dir)
    BY <2>1 DEF OnceInv, Alive
  <2>3. \A g \in postedNow : g[1] < dir'
    BY <1>0, <2>1, <2>2, ScanTypes
  <2>4. dir' \in Nat
    BY <2>1, ScanTypes
  <2> QED BY <1>0, <2>1, <2>3, <2>4 DEF OnceInv, PostedOnce, Alive
<1>10. CASE ProbePresent \/ ProbeAbsent
  <2>1. pc = "probe" /\ pc' = "loop" /\ ~dataDirValid /\ UNCHANGED <<dir, postedNow, twice>>
    BY <1>10 DEF ProbePresent, ProbeAbsent, StateInv, Alive
  <2>2. \A g \in postedNow : g[1] <= dir /\ g[1] # dir
    BY <2>1 DEF OnceInv, Alive
  <2> QED BY <2>1, <2>2 DEF OnceInv, PostedOnce, Alive
<1> QED BY <1>1, <1>2, <1>3, <1>4, <1>5, <1>6, <1>7, <1>8, <1>9, <1>10 DEF Next, Thread

-----------------------------------------------------------------------------
\* The files in memory and those a crash takes

\* Every step keeps the files in memory few.
LEMMA NextKeepsMemory == TypeOK /\ MemoryInv /\ [Next]_vars => MemoryInv'
<1> SUFFICES ASSUME TypeOK, MemoryInv, [Next]_vars PROVE MemoryInv'
  OBVIOUS
<1> DEFINE M == MaxOutstanding
<1>0. /\ IsFiniteSet(memory) /\ IsFiniteSet(lost)
      /\ Cardinality(memory) \in Nat /\ Cardinality(lost) \in Nat
      /\ M \in Nat /\ crashes \in Nat
      /\ Cardinality(memory) <= M + 1 /\ (pc = "fetch" => Cardinality(memory) <= M)
      /\ Cardinality(lost) <= crashes * (M + 1)
  <2>1. IsFiniteSet(memory) /\ IsFiniteSet(lost)
    BY DEF MemoryInv
  <2>2. Cardinality(memory) \in Nat /\ Cardinality(lost) \in Nat
    BY <2>1, FS_CardinalityType
  <2>3. M \in Nat /\ crashes \in Nat
    BY ScanAssumption DEF TypeOK
  <2> QED BY <2>1, <2>2, <2>3 DEF MemoryInv, CrashLosesFew
<1>1. ASSUME UNCHANGED <<memory, lost, crashes>>, pc' = "fetch" => Cardinality(memory) <= M
      PROVE  MemoryInv'
  BY <1>0, <1>1 DEF MemoryInv, CrashLosesFew
<1>2. CASE Tick \/ NewFile \/ UNCHANGED vars
  BY <1>0, <1>1, <1>2 DEF Tick, NewFile, vars
<1>3. CASE Archived
  <2>1. memory' \subseteq memory
    BY <1>3 DEF Archived
  <2>2. IsFiniteSet(memory') /\ Cardinality(memory') <= Cardinality(memory)
    BY <1>0, <2>1, FS_Subset
  <2>3. Cardinality(memory') \in Nat
    BY <2>2, FS_CardinalityType
  <2>4. UNCHANGED <<lost, crashes, pc>>
    BY <1>3 DEF Archived
  <2> QED BY <1>0, <2>2, <2>3, <2>4 DEF MemoryInv, CrashLosesFew
<1>4. CASE Crash
  <2>1. pc' = "down" /\ crashes' = crashes + 1 /\ lost' = lost \cup memory /\ memory' = {}
    BY <1>4 DEF Crash
  <2>2. /\ IsFiniteSet(lost')
        /\ Cardinality(lost') = Cardinality(lost) + Cardinality(memory) - Cardinality(lost \cap memory)
    BY <1>0, <2>1, FS_Union
  <2>3. Cardinality(lost \cap memory) \in Nat
    <3>1. IsFiniteSet(lost \cap memory)
      BY <1>0, FS_Intersection
    <3> QED BY <3>1, FS_CardinalityType
  <2>4. (crashes + 1) * (M + 1) = crashes * (M + 1) + (M + 1)
    BY <1>0
  <2>5. crashes * (M + 1) \in Nat
    BY <1>0
  <2>6. Cardinality(lost') <= (crashes + 1) * (M + 1)
    <3> DEFINE k == crashes * (M + 1)
               c == Cardinality(lost \cap memory)
               l == Cardinality(lost)
               n == Cardinality(memory)
    <3>1. /\ k \in Nat /\ c \in Nat /\ l \in Nat /\ n \in Nat /\ l <= k /\ n <= M + 1 /\ M \in Nat
          /\ Cardinality(lost') = l + n - c /\ (crashes + 1) * (M + 1) = k + (M + 1)
      BY <1>0, <2>2, <2>3, <2>4, <2>5
    <3> HIDE DEF k, c, l, n
    <3> QED BY <3>1
  <2>7. IsFiniteSet(memory') /\ Cardinality(memory') = 0
    BY <2>1, FS_EmptySet
  <2> QED BY <1>0, <2>1, <2>2, <2>6, <2>7 DEF MemoryInv, CrashLosesFew
<1>5. CASE Fetch
  <2>1. CASE UNCHANGED <<memory, lost>>
    BY <1>0, <1>1, <1>5, <2>1 DEF Fetch
  <2>2. CASE memory' = memory \cup {file} /\ lost' = lost \ {file}
    <3>1. IsFiniteSet(memory') /\ Cardinality(memory') <= Cardinality(memory) + 1
      <4>1. /\ IsFiniteSet(memory \cup {file})
            /\ Cardinality(memory \cup {file}) =
                 IF file \in memory THEN Cardinality(memory) ELSE Cardinality(memory) + 1
        BY <1>0, FS_AddElement
      <4> QED BY <1>0, <2>2, <4>1
    <3>2. IsFiniteSet(lost') /\ Cardinality(lost') <= Cardinality(lost)
      BY <1>0, <2>2, FS_Subset
    <3>3. Cardinality(lost') \in Nat /\ Cardinality(memory') \in Nat
      BY <3>1, <3>2, FS_CardinalityType
    <3>4. pc = "fetch" /\ pc' = "release" /\ crashes' = crashes
      BY <1>5 DEF Fetch
    <3>5. Cardinality(memory') <= M + 1
      BY <1>0, <3>1, <3>3, <3>4
    <3>6. Cardinality(lost') <= crashes * (M + 1)
      <4> DEFINE k == crashes * (M + 1)
      <4>1. k \in Nat /\ Cardinality(lost) <= k
        BY <1>0
      <4> HIDE DEF k
      <4>2. Cardinality(lost') <= k
        BY <1>0, <3>2, <3>3, <4>1
      <4> QED BY <4>2 DEF k
    <3> QED BY <3>1, <3>2, <3>4, <3>5, <3>6 DEF MemoryInv, CrashLosesFew
  <2> QED BY <1>5, <2>1, <2>2 DEF Fetch
<1>6. CASE Pick
  <2>1. UNCHANGED <<memory, lost, crashes>> /\ Cardinality(memory) + stray <= M /\ stray \in Nat
    BY <1>6 DEF Pick, ThrottleOpen, TypeOK
  <2> QED BY <1>0, <1>1, <2>1
<1>7. CASE \/ Start \/ ScanIncrement \/ ScanPresent \/ ScanAbsent \/ ScanTimeout \/ InitFails
           \/ ReadFileSet \/ List \/ PickNone \/ Release \/ Age \/ NoDir \/ CloseDir
           \/ CloseDirFails \/ ProbePresent \/ ProbeAbsent
  <2>1. UNCHANGED <<memory, lost, crashes>> /\ pc' # "fetch"
    BY <1>7 DEF Start, ScanIncrement, ScanPresent, ScanAbsent, ScanTimeout, InitFails,
       ReadFileSet, List, PickNone, Release, Age, NoDir, CloseDir, CloseDirFails, ProbePresent,
       ProbeAbsent
  <2> QED BY <1>1, <2>1
<1> QED BY <1>2, <1>3, <1>4, <1>5, <1>6, <1>7 DEF Next, Thread

-----------------------------------------------------------------------------
\* The theorems

\* The initial states.
LEMMA InitHasInv == Init => ScanInv
<1> SUFFICES ASSUME Init PROVE ScanInv
  OBVIOUS
<1> USE ScanAssumption DEF Init
<1>1. TypeOK
  <2>1. <<>> \in Seq([hour : Hours, state : {"current", "processed", "abandoned"}])
    BY EmptySeq
  <2>2. <<>> \in Seq([dir : Nat, file : Files, state : {"processing", "released"}])
    BY EmptySeq
  <2>3. hour \in Hours /\ dir \in Dirs /\ lookedAt \in Hours
    BY DEF Hours, Dirs
  <2>4. dbID \in 0..Len(dirRows)
    BY EmptySeq
  <2>5. faults \in 0..MaxFaults /\ crashes \in 0..MaxCrashes
    OBVIOUS
  <2> QED BY <2>1, <2>2, <2>3, <2>4, <2>5 DEF TypeOK
<1>2. ~Alive /\ 1..Len(dirRows) = {} /\ 1..Len(fileRows) = {} /\ Currents = {}
  BY EmptySeq DEF Alive, Currents
<1>3. UpmuInv
  BY DEF UpmuInv, Hours
<1>4. BehindInv /\ CurrentInv /\ StateInv /\ ListInv /\ FetchInv /\ ProcessedInv
  BY <1>2 DEF BehindInv, CurrentInv, StateInv, ListInv, Listing, FetchInv, ProcessedInv
<1>5. OnceInv
  BY <1>2 DEF OnceInv, PostedOnce
<1>6. MemoryInv
  BY FS_EmptySet DEF MemoryInv, CrashLosesFew
<1> QED BY <1>1, <1>3, <1>4, <1>5, <1>6 DEF ScanInv

\* The invariant holds in every state of every behaviour.
THEOREM ScanInvariant == Spec => []ScanInv
<1>1. ScanInv /\ [Next]_vars => ScanInv'
  BY NextKeepsTypes, NextKeepsUpmu, NextKeepsBehind, NextKeepsCurrent, NextKeepsState,
     NextKeepsList, NextKeepsFetch, NextKeepsProcessed, NextKeepsOnce, NextKeepsMemory
     DEF ScanInv
<1> QED BY <1>1, InitHasInv, PTL DEF Spec

\* Every variable of the discovery service, and every row of its tables, keeps its type.
THEOREM ScanTypeCorrect == Spec => []TypeOK
<1>1. ScanInv => TypeOK
  BY DEF ScanInv
<1> QED BY <1>1, ScanInvariant, PTL

\* processUPMUdata leaves no file behind: with any number of hours, crashes and failures,
\* every directory behind the scan has been posted in full, or is one that a failure or an
\* outdated listing has hit.
THEOREM NoFileLeftBehind == Spec => []NothingLeftBehind
<1>1. ScanInv => NothingLeftBehind
  <2> SUFFICES ASSUME ScanInv, pc \notin {"down", "scan", "ended"}, NEW h \in Hours, h < dir
               PROVE  AllPosted(h) \/ h \in outdated \cup harmed
    BY DEF NothingLeftBehind
  <2>1. Settled(h)
    BY DEF ScanInv, BehindInv, Alive
  <2> QED BY <2>1 DEF Settled
<1> QED BY <1>1, ScanInvariant, PTL

\* What the two tables say of files and directories, and a restart takes on trust, is true.
THEOREM TablesTellTheTruth == Spec => []RowsTellTheTruth
<1>1. ScanInv => RowsTellTheTruth
  <2> SUFFICES ASSUME ScanInv PROVE RowsTellTheTruth
    OBVIOUS
  <2>1. TypeOK
    BY DEF ScanInv
  <2>2. ASSUME NEW r \in Range(fileRows), r.state = "released"
        PROVE  r.file \in posted \/ r.file[1] \in harmed
    <3>1. PICK i \in 1..Len(fileRows) : r = fileRows[i]
      BY <2>1, ScanTypes, LenProperties DEF Range
    <3> QED BY <2>2, <3>1 DEF ScanInv, ProcessedInv
  <2>3. ASSUME NEW i \in Finished
        PROVE  AllPosted(dirRows[i].hour) \/ dirRows[i].hour \in outdated \cup harmed
    <3>1. Settled(dirRows[i].hour)
      BY <2>3 DEF Finished, ScanInv, BehindInv
    <3> QED BY <3>1 DEF Settled
  <2> QED BY <2>2, <2>3 DEF RowsTellTheTruth
<1> QED BY <1>1, ScanInvariant, PTL

\* getCurrentDirectory finds at most one row that is current.
THEOREM AtMostOneCurrent == Spec => []OneCurrent
<1>1. ScanInv => OneCurrent
  <2> SUFFICES ASSUME ScanInv, harmed # Dirs PROVE Cardinality(Currents) <= 1
    BY DEF OneCurrent
  <2>1. \A i, j \in Currents : i = j
    BY DEF ScanInv, CurrentInv
  <2>2. CASE Cardinality(Currents) = 1
    BY <2>2
  <2>3. CASE Cardinality(Currents) # 1
    <3>1. Currents = {}
      BY <2>1, <2>3, OneOrNone
    <3>2. Cardinality(Currents) = 0
      BY <3>1, FS_EmptySet
    <3> QED BY <3>2
  <2> QED BY <2>2, <2>3
<1> QED BY <1>1, ScanInvariant, PTL

\* Between two starts of the gateway postProcessUPMUdata is given no file twice.
THEOREM NoFilePostedTwice == Spec => []PostedOnce
<1>1. ScanInv => PostedOnce
  BY DEF ScanInv, OnceInv
<1> QED BY <1>1, ScanInvariant, PTL

\* Each crash costs at most the files that the throttle lets into memory.
THEOREM CrashesCostFewFiles == Spec => []CrashLosesFew
<1>1. ScanInv => CrashLosesFew
  BY DEF ScanInv, MemoryInv
<1> QED BY <1>1, ScanInvariant, PTL
=============================================================================
