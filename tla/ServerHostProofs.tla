-------------------------- MODULE ServerHostProofs --------------------------
(***************************************************************************)
(* Theorems about ServerHost and the ServerDatabase under it, for any      *)
(* number of processes, respawns, starts and faults, any schema versions,  *)
(* and process ids that may be used again.                                 *)
(***************************************************************************)
EXTENDS ServerHost, FiniteSetTheorems, TLAPS

Unopened == {"unborn", "open", "save", "stage"} \cup Acquiring
WithFile == {"snapshot", "migrate", "serving"}
WithStaged == Restoring \ {"save", "stage"}

\* Only servers lock and open the database, only restores replace it.
Roles ==
  \A p \in Processes :
    /\ proc[p].at \in {"create", "write"} \cup Opened => proc[p].as = "server"
    /\ proc[p].at \in Restoring => proc[p].as = "restore"

\* The database, a file moved aside and the file a process works on exist.
HasData ==
  /\ live # None => data[live] \in FileData
  /\ \A f \in displaced : data[f] \in FileData
  /\ \A p \in Processes :
       /\ proc[p].at \in WithFile =>
            proc[p].file \in Files /\ data[proc[p].file] \in FileData
       /\ proc[p].at \in WithStaged => data[p] \in FileData

DbInv == DbTypeOK /\ Roles /\ HasData

\* The supervisor: a start that waits, and a monitor between two children, have
\* no other child about; a stop leaves the monitor nothing to start.
Supervised ==
  /\ monitor.at = "spawned" => monitor.child \in Processes
  /\ monitor.at \in {"respawning", "backoff", "spawned"} => registered = None
  /\ monitor.at # "done" =>
       /\ monitor.generation # 0
       /\ registered # None => registered.generation = monitor.generation
  /\ command = "waiting" =>
       /\ monitor.at = "done"
       /\ desired # 0 /\ registered # None /\ registered.generation = desired
  /\ command \in {"killing", "joining"} => desired = 0
  /\ command = "joining" => registered = None
  /\ command = "idle" /\ desired = 0 => monitor.at = "done"

HostInv == HostTypeOK /\ DbInv /\ Supervised /\ NoStrayServer /\ StoppedMeansStopped

\* With the runbook kept, one process at a time is at the database.
Alone == \A p, q \in Processes : Alive(p) /\ Alive(q) => p = q

\* A process has no file of its own before it opens or stages one.
Unused(p) == proc[p].at \in Unopened => data[p] = None

\* What a server found when it started is still so when it opens.
FoundStands(p) ==
  proc[p].as = "server" /\ proc[p].at \in Acquiring \cup {"open"} =>
    (proc[p].found <=> live # None)

CopyOf(f) == \E c \in copies : c.of = data[f].of /\ c.commits = data[f].commits

OlderCopyOf(f) ==
  \E c \in copies : /\ c.of = data[f].of /\ c.commits = data[f].commits
                    /\ c.version <= data[f].version

\* Before a migration changes a file that is not the server's own it is copied,
MigrationCopied(p) ==
  proc[p].at = "migrate" =>
    \/ proc[p].file = p \/ data[proc[p].file].version >= Latest
    \/ OlderCopyOf(proc[p].file)

\* and so is what a restore drops, moves aside and discards.
RestoreCopied(p) ==
  /\ proc[p].at \in {"stage", "dropLog", "displace"} /\ live # None => CopyOf(live)
  /\ proc[p].at \in {"stage", "dropLog"} /\ live # None =>
       data[live].flushed = data[live].commits
  /\ proc[p].at \in {"replace", "verify", "discard"} /\ proc[p].file # None =>
       proc[p].file \in Files /\ CopyOf(proc[p].file)
  /\ proc[p].at = "replace" => live = None

Covered(p) == Unused(p) /\ FoundStands(p) /\ MigrationCopied(p) /\ RestoreCopied(p)

CarefulInv == Alone /\ \A p \in Processes : Covered(p)

-----------------------------------------------------------------------------
(* What an action does to the processes. *)

OthersStay(p) ==
  /\ proc' \in [Processes -> Process]
  /\ \A q \in Processes \ {p} : proc'[q] = proc[q]

Moved(p, place) ==
  /\ OthersStay(p)
  /\ proc'[p].at = place
  /\ proc'[p].as = proc[p].as /\ proc'[p].pid = proc[p].pid /\ proc'[p].saw = proc[p].saw
  /\ proc'[p].found = proc[p].found /\ proc'[p].file = proc[p].file

LEMMA GoMoves ==
  ASSUME DbTypeOK, NEW p \in Processes, NEW place \in Places, Go(p, place)
  PROVE  Moved(p, place)
  <1>1. proc[p] \in Process
    BY DEF DbTypeOK
  <1>2. proc' = [proc EXCEPT ![p] = [proc[p] EXCEPT !.at = place]]
    BY DEF Go, DbTypeOK
  <1>3. [proc[p] EXCEPT !.at = place] \in Process
    BY <1>1 DEF Process
  <1>4. QED
    BY <1>1, <1>2, <1>3 DEF Moved, OthersStay, DbTypeOK, Process

LEMMA LaunchMoves ==
  ASSUME DbTypeOK, NEW p \in Processes, NEW as \in {"server", "restore"}, Launch(p, as)
  PROVE  /\ OthersStay(p) /\ proc[p].at = "unborn"
         /\ proc'[p].as = as /\ proc'[p].at = "check" /\ proc'[p].found = (live # None)
         /\ proc'[p].file = None
         /\ UNCHANGED <<lock, files, faults>>
  <1>1. PICK pid \in Pids \cup Processes :
          proc' = [proc EXCEPT ![p] = [as |-> as, at |-> "check", pid |-> pid,
                     saw |-> None, found |-> live # None, file |-> None]]
    BY DEF Launch
  <1>2. [as |-> as, at |-> "check", pid |-> pid,
         saw |-> None, found |-> live # None, file |-> None] \in Process
    BY DEF Process, Places, Acquiring
  <1>3. QED
    BY <1>1, <1>2 DEF OthersStay, DbTypeOK, Launch

LEMMA PlacesIn ==
  Acquiring \cup Opened \cup Restoring \cup {"dead", "refused"} \subseteq Places
  BY DEF Places

-----------------------------------------------------------------------------
(* Every step of a process keeps DbInv. *)

\* A step that opens, stages and changes no file.
LEMMA ProcMoveInv ==
  ASSUME DbInv, NEW p \in Processes, OthersStay(p), UNCHANGED files,
         lock' \in LockFile \cup {None}, faults' \in 0 .. MaxFaults,
         proc'[p].at \in {"create", "write"} \cup Opened => proc'[p].as = "server",
         proc'[p].at \in Restoring => proc'[p].as = "restore",
         proc'[p].at \in WithFile =>
           proc[p].at \in WithFile /\ proc'[p].file = proc[p].file,
         proc'[p].at \in WithStaged => proc[p].at \in WithStaged
  PROVE  DbInv'
  <1> USE DEF DbInv, OthersStay, files
  <1>1. DbTypeOK'
    BY DEF DbTypeOK
  <1>2. Roles'
    BY DEF Roles
  <1>3. HasData'
    BY DEF HasData
  <1>4. QED
    BY <1>1, <1>2, <1>3

LEMMA LaunchInv ==
  ASSUME DbInv, NEW p \in Processes, StartServer(p) \/ StartRestore(p)
  PROVE  DbInv'
  <1>1. PICK as \in {"server", "restore"} : Launch(p, as)
    BY DEF StartServer, StartRestore
  <1>2. QED
    BY <1>1, LaunchMoves, ProcMoveInv
       DEF DbInv, DbTypeOK, Acquiring, Opened, Restoring, WithFile, WithStaged

LEMMA DeathInv ==
  ASSUME DbInv, NEW p \in Processes, Kill(p), UNCHANGED <<lock, files>>,
         faults' \in 0 .. MaxFaults
  PROVE  DbInv'
  <1>1. Moved(p, "dead")
    BY GoMoves DEF Kill, DbInv, Places
  <1>2. QED
    BY <1>1, ProcMoveInv
       DEF DbInv, DbTypeOK, Moved, Acquiring, Opened, Restoring, WithFile, WithStaged

LEMMA LockInv ==
  ASSUME DbInv, NEW p \in Processes,
         \/ ReadLock(p) \/ ProbeOwner(p) \/ RemoveStaleLock(p) \/ CreateLock(p) \/ WriteLock(p)
         \/ Ready(p) \/ NewerSchema(p) \/ Verify(p)
  PROVE  DbInv'
  <1> USE DEF DbInv, Acquiring, Opened, Restoring, WithFile, WithStaged
  <1>1. DbTypeOK /\ faults \in 0 .. MaxFaults /\ lock \in LockFile \cup {None}
        /\ proc[p] \in Process
    BY DEF DbTypeOK
  <1>2. proc[p].as \in {"server", "restore"}
    BY <1>1 DEF Process
  <1>3. CASE ReadLock(p)
    <2>1. PICK place \in {AfterCheck(p), "probe"} :
            proc' = [proc EXCEPT ![p].saw = lock, ![p].at = place]
      BY <1>3 DEF ReadLock
    <2>2. place \in Places
      BY DEF AfterCheck, Places
    <2>3. OthersStay(p) /\ proc'[p].as = proc[p].as /\ proc'[p].at = place
      <3>1. proc' = [q \in Processes |-> proc'[q]]
        BY <2>1 DEF DbTypeOK
      <3>2. /\ proc'[p] \in Process
            /\ proc'[p].as = proc[p].as /\ proc'[p].at = place
        BY <1>1, <2>1, <2>2 DEF DbTypeOK, Process
      <3>3. \A q \in Processes \ {p} : proc'[q] = proc[q]
        BY <2>1 DEF DbTypeOK
      <3>4. QED
        BY <3>1, <3>2, <3>3 DEF DbTypeOK, OthersStay
    <2>4. UNCHANGED <<lock, files, faults>>
      BY <1>3 DEF ReadLock
    <2>5. QED
      BY <1>1, <1>2, <2>3, <2>4, ProcMoveInv DEF AfterCheck
  <1>4. CASE ProbeOwner(p)
    <2>1. PICK place \in {"refused", "remove"} : Go(p, place)
      BY <1>4 DEF ProbeOwner
    <2>2. Moved(p, place)
      BY <2>1, GoMoves DEF Places
    <2>3. QED
      BY <1>1, <1>4, <2>2, ProcMoveInv DEF ProbeOwner, Moved
  <1>5. CASE RemoveStaleLock(p)
    <2>1. Moved(p, AfterCheck(p))
      BY <1>5, GoMoves DEF RemoveStaleLock, AfterCheck, Places
    <2>2. QED
      BY <1>1, <1>2, <1>5, <2>1, ProcMoveInv DEF RemoveStaleLock, Moved, AfterCheck
  <1>6. CASE CreateLock(p)
    <2>1. PICK place \in {"write", "refused"} : Go(p, place)
      BY <1>6 DEF CreateLock
    <2>2. Moved(p, place) /\ proc[p].as = "server"
      BY <1>6, <2>1, GoMoves DEF CreateLock, Roles, Places
    <2>3. lock' \in LockFile \cup {None}
      BY <1>1, <1>6 DEF CreateLock, LockFile
    <2>4. QED
      BY <1>1, <1>6, <2>2, <2>3, ProcMoveInv DEF CreateLock, Moved
  <1>7. CASE WriteLock(p)
    <2>1. Moved(p, "open") /\ proc[p].as = "server"
      BY <1>7, GoMoves DEF WriteLock, Roles, Places
    <2>2. lock' \in LockFile \cup {None}
      BY <1>1, <1>7 DEF WriteLock, LockFile, Process
    <2>3. QED
      BY <1>1, <1>7, <2>1, <2>2, ProcMoveInv DEF WriteLock, Moved
  <1>8. CASE Ready(p)
    <2>1. Moved(p, "serving") /\ proc[p].as = "server"
      BY <1>8, GoMoves DEF Ready, Roles, Places
    <2>2. QED
      BY <1>1, <1>8, <2>1, ProcMoveInv DEF Ready, Moved
  <1>9. CASE NewerSchema(p)
    <2>1. Moved(p, "refused")
      BY <1>9, GoMoves DEF NewerSchema, Places
    <2>2. QED
      BY <1>1, <1>9, <2>1, ProcMoveInv DEF NewerSchema, Moved, releaseDatabaseLock
  <1>10. CASE Verify(p)
    <2>1. Moved(p, "discard") /\ proc[p].as = "restore"
      BY <1>10, GoMoves DEF Verify, Roles, Places
    <2>2. QED
      BY <1>1, <1>10, <2>1, ProcMoveInv DEF Verify, Moved
  <1>11. QED
    BY <1>3, <1>4, <1>5, <1>6, <1>7, <1>8, <1>9, <1>10

\* A step that works on files loses none, and leaves those it names in being.
LEMMA FileMoveInv ==
  ASSUME DbInv, NEW p \in Processes, OthersStay(p), lock' = lock, faults' \in 0 .. MaxFaults,
         proc'[p].as = proc[p].as,
         proc'[p].at \in {"create", "write"} \cup Opened => proc[p].as = "server",
         proc'[p].at \in Restoring => proc[p].as = "restore",
         data' \in [Files -> FileData \cup {None}],
         \A f \in Files : data[f] \in FileData => data'[f] \in FileData,
         live' \in Files \cup {None}, live' # None => data'[live'] \in FileData,
         displaced' \subseteq Files, \A f \in displaced' : data'[f] \in FileData,
         copies' \subseteq Content,
         proc'[p].at \in WithFile =>
           proc'[p].file \in Files /\ data'[proc'[p].file] \in FileData,
         proc'[p].at \in WithStaged => data'[p] \in FileData
  PROVE  DbInv'
  <1> USE DEF DbInv, OthersStay
  <1>1. DbTypeOK'
    BY DEF DbTypeOK
  <1>2. Roles'
    BY DEF Roles
  <1>3. HasData'
    <2>1. Processes \subseteq Files
      BY DEF Processes, Files
    <2>2. ASSUME NEW q \in Processes
          PROVE  /\ proc'[q].at \in WithFile =>
                      proc'[q].file \in Files /\ data'[proc'[q].file] \in FileData
                 /\ proc'[q].at \in WithStaged => data'[q] \in FileData
      BY <2>1 DEF HasData
    <2>3. QED
      BY <2>2 DEF HasData
  <1>4. QED
    BY <1>1, <1>2, <1>3

LEMMA NewFileType ==
  ASSUME NEW f \in Files, NEW v \in 0 .. (Latest + 1)
  PROVE  NewFile(f, v) \in FileData
  BY LimitsAssumption DEF NewFile, FileData

LEMMA ContentType ==
  ASSUME NEW f, data[f] \in FileData
  PROVE  ContentOf(f) \in Content
  BY DEF ContentOf, FileData, Content

\* Fields of one file.
LEMMA FileWritten ==
  ASSUME DbTypeOK, NEW f \in Files, data[f] \in FileData,
         NEW x \in FileData, data' = [data EXCEPT ![f] = x]
  PROVE  /\ data' \in [Files -> FileData \cup {None}]
         /\ \A g \in Files : data[g] \in FileData => data'[g] \in FileData
  BY DEF DbTypeOK

LEMMA OpenInv ==
  ASSUME DbInv, NEW p \in Processes, OpenDatabase(p)
  PROVE  DbInv'
  <1> USE DEF DbInv, Opened, Restoring, WithFile, WithStaged
  <1>1. DbTypeOK /\ proc[p] \in Process /\ proc[p].as = "server" /\ p \in Files
        /\ faults' \in 0 .. MaxFaults
    BY DEF DbTypeOK, Roles, OpenDatabase, Processes, Files
  <1>2. /\ data' \in [Files -> FileData \cup {None}]
        /\ \A f \in Files : data[f] \in FileData => data'[f] \in FileData
        /\ live' \in Files /\ data'[live'] \in FileData
    <2>1. NewFile(p, 0) \in FileData
      BY <1>1, NewFileType, LatestAssumption
    <2>2. QED
      BY <1>1, <2>1 DEF OpenDatabase, DbTypeOK, HasData
  <1>3. PICK place \in {"snapshot", "migrate"} :
          proc' = [proc EXCEPT ![p].file = live', ![p].at = place]
    BY DEF OpenDatabase
  <1>4. OthersStay(p) /\ proc'[p].as = proc[p].as /\ proc'[p].at = place
        /\ proc'[p].file = live'
    <2>1. proc' = [q \in Processes |-> proc'[q]]
      BY <1>3 DEF DbTypeOK
    <2>2. /\ proc'[p] \in Process /\ proc'[p].file = live'
          /\ proc'[p].as = proc[p].as /\ proc'[p].at = place
      BY <1>1, <1>2, <1>3 DEF DbTypeOK, Process, Places
    <2>3. \A q \in Processes \ {p} : proc'[q] = proc[q]
      BY <1>3 DEF DbTypeOK
    <2>4. QED
      BY <2>1, <2>2, <2>3 DEF DbTypeOK, OthersStay
  <1>5. \A f \in displaced' : data'[f] \in FileData
    BY <1>1, <1>2 DEF HasData, OpenDatabase, DbTypeOK
  <1>6. displaced' \subseteq Files /\ copies' \subseteq Content /\ lock' = lock
    BY <1>1 DEF OpenDatabase, DbTypeOK
  <1>7. QED
    BY <1>1, <1>2, <1>4, <1>5, <1>6, FileMoveInv

LEMMA SnapshotInv ==
  ASSUME DbInv, NEW p \in Processes, Snapshot(p)
  PROVE  DbInv'
  <1> USE DEF DbInv, Opened, Restoring, WithFile, WithStaged
  <1>1. Moved(p, "migrate") /\ proc[p].as = "server"
    BY GoMoves DEF Snapshot, Roles, Places
  <1>2. proc[p].file \in Files /\ data[proc[p].file] \in FileData
    BY DEF HasData, Snapshot
  <1>3. copies' \subseteq Content
    BY <1>2, ContentType DEF Snapshot, DbTypeOK
  <1>4. UNCHANGED <<lock, live, data, displaced, faults>>
    BY DEF Snapshot
  <1>5. QED
    BY <1>1, <1>2, <1>3, <1>4, FileMoveInv DEF Moved, DbTypeOK, HasData

\* Migrations and commits.
LEMMA ServerWriteInv ==
  ASSUME DbInv, NEW p \in Processes, Migrate(p) \/ Commit(p)
  PROVE  DbInv'
  <1> USE DEF DbInv, WithFile
  <1>1. PICK f \in Files : f = proc[p].file /\ data[f] \in FileData
    BY DEF HasData, Migrate, Commit
  <1>2. proc' = proc /\ live' = live /\ UNCHANGED <<lock, displaced, copies, faults>>
    BY DEF Migrate, Commit
  <1>3. PICK x \in FileData : data' = [data EXCEPT ![f] = x]
    <2>1. CASE Migrate(p)
      <3>1. data[f].version + 1 \in 0 .. (Latest + 1)
        BY <1>1, <2>1, LatestAssumption DEF Migrate, FileData
      <3>2. [data[f] EXCEPT !.version = data[f].version + 1] \in FileData
        BY <1>1, <3>1 DEF FileData
      <3>3. data' = [data EXCEPT ![f] = [data[f] EXCEPT !.version = data[f].version + 1]]
        BY <1>1, <2>1 DEF Migrate, DbTypeOK
      <3>4. QED
        BY <3>2, <3>3
    <2>2. CASE Commit(p)
      <3>1. data[f].commits + 1 \in 0 .. MaxCommits
        BY <1>1, <2>2, LimitsAssumption DEF Commit, FileData
      <3>2. [data[f] EXCEPT !.commits = data[f].commits + 1] \in FileData
        BY <1>1, <3>1 DEF FileData
      <3>3. data' = [data EXCEPT ![f] = [data[f] EXCEPT !.commits = data[f].commits + 1]]
        BY <1>1, <2>2 DEF Commit, DbTypeOK
      <3>4. QED
        BY <3>2, <3>3
    <2>3. QED
      BY <2>1, <2>2
  <1>4. /\ data' \in [Files -> FileData \cup {None}]
        /\ \A g \in Files : data[g] \in FileData => data'[g] \in FileData
    BY <1>1, <1>3, FileWritten
  <1>5. OthersStay(p) /\ proc'[p] = proc[p]
    BY <1>2 DEF OthersStay, DbTypeOK
  <1>6. proc[p].at \in WithFile /\ proc[p].as = "server"
    BY DEF Migrate, Commit, Roles, Opened
  <1>7. QED
    BY <1>1, <1>2, <1>4, <1>5, <1>6, FileMoveInv
       DEF DbTypeOK, HasData, Restoring, WithStaged

LEMMA SaveInv ==
  ASSUME DbInv, NEW p \in Processes, SaveCurrent(p)
  PROVE  DbInv'
  <1> USE DEF DbInv, Opened, Restoring, WithFile, WithStaged
  <1>1. Moved(p, "stage") /\ proc[p].as = "restore"
    BY GoMoves DEF SaveCurrent, Roles, Places
  <1>2. copies' \subseteq Content
    BY ContentType DEF SaveCurrent, DbTypeOK, HasData
  <1>3. /\ data' \in [Files -> FileData \cup {None}]
        /\ \A g \in Files : data[g] \in FileData => data'[g] \in FileData
    <2>1. CASE data' = data
      BY <2>1 DEF DbTypeOK
    <2>2. CASE live # None /\ data' = [data EXCEPT ![live].flushed = data[live].commits]
      <3>1. live \in Files /\ data[live] \in FileData
        BY <2>2 DEF HasData, DbTypeOK
      <3>2. [data[live] EXCEPT !.flushed = data[live].commits] \in FileData
        BY <3>1 DEF FileData
      <3>3. data' = [data EXCEPT ![live] = [data[live] EXCEPT !.flushed = data[live].commits]]
        BY <2>2, <3>1 DEF DbTypeOK
      <3>4. QED
        BY <3>1, <3>2, <3>3, FileWritten
    <2>3. QED
      BY <2>1, <2>2 DEF SaveCurrent
  <1>4. UNCHANGED <<lock, live, displaced, faults>>
    BY DEF SaveCurrent
  <1>5. QED
    BY <1>1, <1>2, <1>3, <1>4, FileMoveInv DEF Moved, DbTypeOK, HasData

LEMMA StageInv ==
  ASSUME DbInv, NEW p \in Processes, StageCopy(p)
  PROVE  DbInv'
  <1> USE DEF DbInv, Opened, Restoring, WithFile, WithStaged
  <1>1. Moved(p, "dropLog") /\ proc[p].as = "restore"
    BY GoMoves DEF StageCopy, Roles, Places
  <1>2. PICK x \in FileData : data' = [data EXCEPT ![p] = x]
    <2>1. p \in Files
      BY DEF Processes, Files
    <2>2. \A version \in BackupSchemas : NewFile(p, version) \in FileData
      BY <2>1, NewFileType, LatestAssumption
    <2>3. QED
      BY <2>2 DEF StageCopy
  <1>3. /\ data' \in [Files -> FileData \cup {None}]
        /\ \A g \in Files : data[g] \in FileData => data'[g] \in FileData
        /\ data'[p] \in FileData
    BY <1>2 DEF DbTypeOK, Processes, Files
  <1>4. UNCHANGED <<lock, live, displaced, copies, faults>>
    BY DEF StageCopy
  <1>5. QED
    BY <1>1, <1>3, <1>4, FileMoveInv DEF Moved, DbTypeOK, HasData

LEMMA DropLogInv ==
  ASSUME DbInv, NEW p \in Processes, DropLog(p)
  PROVE  DbInv'
  <1> USE DEF DbInv, Opened, Restoring, WithFile, WithStaged
  <1>1. Moved(p, "displace") /\ proc[p].as = "restore" /\ proc[p].at = "dropLog"
    BY GoMoves DEF DropLog, Roles, Places
  <1>2. /\ data' \in [Files -> FileData \cup {None}]
        /\ \A g \in Files : data[g] \in FileData => data'[g] \in FileData
    <2>1. CASE live = None
      BY <2>1 DEF DropLog, DbTypeOK
    <2>2. CASE live # None
      <3>1. live \in Files /\ data[live] \in FileData
        BY <2>2 DEF HasData, DbTypeOK
      <3>2. [data[live] EXCEPT !.commits = data[live].flushed] \in FileData
        BY <3>1 DEF FileData
      <3>3. data' = [data EXCEPT ![live] = [data[live] EXCEPT !.commits = data[live].flushed]]
        BY <2>2, <3>1 DEF DropLog, DbTypeOK
      <3>4. QED
        BY <3>1, <3>2, <3>3, FileWritten
    <2>3. QED
      BY <2>1, <2>2
  <1>3. data[p] \in FileData /\ p \in Files
    BY <1>1 DEF HasData, Processes, Files
  <1>4. UNCHANGED <<lock, live, displaced, copies, faults>>
    BY DEF DropLog
  <1>5. QED
    BY <1>1, <1>2, <1>3, <1>4, FileMoveInv DEF Moved, DbTypeOK, HasData

LEMMA SwapInv ==
  ASSUME DbInv, NEW p \in Processes,
         Displace(p) \/ Replace(p) \/ Discard(p) \/ RestoreFails(p)
  PROVE  DbInv'
  <1> USE DEF DbInv, Opened, Restoring, WithFile, WithStaged
  <1>0. p \in Files /\ proc[p] \in Process /\ proc[p].at \in WithStaged
        /\ data[p] \in FileData /\ proc[p].as = "restore"
    BY DEF DbTypeOK, Processes, Files, HasData, Roles, Displace, Replace, Discard, RestoreFails
  <1>1. data' = data /\ copies' = copies /\ lock' = lock
    BY DEF Displace, Replace, Discard, RestoreFails
  <1>2. CASE Displace(p)
    <2>1. proc' = [proc EXCEPT ![p].at = "replace", ![p].file = live]
      BY <1>2 DEF Displace
    <2>2. OthersStay(p) /\ proc'[p].as = proc[p].as /\ proc'[p].at = "replace"
      <3>1. proc' = [q \in Processes |-> proc'[q]]
        BY <2>1 DEF DbTypeOK
      <3>2. /\ proc'[p] \in Process
            /\ proc'[p].as = proc[p].as /\ proc'[p].at = "replace"
        BY <1>0, <2>1 DEF DbTypeOK, Process, Places
      <3>3. \A q \in Processes \ {p} : proc'[q] = proc[q]
        BY <2>1 DEF DbTypeOK
      <3>4. QED
        BY <3>1, <3>2, <3>3 DEF DbTypeOK, OthersStay
    <2>3. live' = None /\ displaced' = displaced \cup ({live} \ {None}) /\ faults' = faults
      BY <1>2 DEF Displace
    <2>4. QED
      BY <1>0, <1>1, <2>2, <2>3, FileMoveInv DEF DbTypeOK, HasData
  <1>3. CASE Replace(p)
    <2>1. Moved(p, "verify") /\ live' = p /\ displaced' = displaced /\ faults' = faults
      BY <1>3, GoMoves DEF Replace, Places
    <2>2. QED
      BY <1>0, <1>1, <2>1, FileMoveInv DEF DbTypeOK, HasData, Moved
  <1>4. CASE Discard(p)
    <2>1. Moved(p, "dead") /\ live' = live /\ displaced' \subseteq displaced /\ faults' = faults
      BY <1>4, GoMoves DEF Discard, Places
    <2>2. QED
      BY <1>0, <1>1, <2>1, FileMoveInv DEF DbTypeOK, HasData, Moved
  <1>5. CASE RestoreFails(p)
    <2>1. Moved(p, "dead")
      BY <1>5, GoMoves DEF RestoreFails, Places
    <2>2. faults' \in 0 .. MaxFaults
      BY <1>5, LimitsAssumption DEF RestoreFails, DbTypeOK
    <2>3. /\ displaced' \subseteq displaced
          /\ live' = live \/ live' \in displaced
      BY <1>5 DEF RestoreFails
    <2>4. QED
      BY <1>0, <1>1, <2>1, <2>2, <2>3, FileMoveInv DEF DbTypeOK, HasData, Moved
  <1>6. QED
    BY <1>2, <1>3, <1>4, <1>5

LEMMA ProcessInv ==
  ASSUME DbInv, NEW p \in Processes,
         ProcessStep(p) \/ Commit(p) \/ Killed(p) \/ RestoreFails(p)
  PROVE  DbInv'
  <1>1. CASE Killed(p)
    BY <1>1, DeathInv, LimitsAssumption DEF Killed, DbInv, DbTypeOK
  <1>2. QED
    BY <1>1, LockInv, OpenInv, SnapshotInv, ServerWriteInv, SaveInv, StageInv, DropLogInv,
       SwapInv DEF ProcessStep

LEMMA DbInitInv == DbInit => DbInv
  <1> SUFFICES ASSUME DbInit
               PROVE  DbInv
    OBVIOUS
  <1>1. 0 \in Files /\ UserSchema \in 0 .. (Latest + 1)
    BY RunsAssumption, LatestAssumption DEF Files
  <1>2. NewFile(0, UserSchema) \in FileData
    BY <1>1, NewFileType
  <1>3. DbTypeOK
    BY <1>1, <1>2, LimitsAssumption DEF DbInit, DbTypeOK, Process, Places
  <1>4. Roles /\ HasData
    BY <1>1, <1>2 DEF DbInit, Roles, HasData, Acquiring, Opened, Restoring, WithFile, WithStaged
  <1>5. QED
    BY <1>3, <1>4 DEF DbInv

-----------------------------------------------------------------------------
(* Which servers run. *)

Step(p) == ProcessStep(p) \/ Commit(p) \/ Killed(p) \/ RestoreFails(p)

\* A step of a process that runs leaves the others as they are.
LEMMA StepEffect ==
  ASSUME DbInv, NEW p \in Processes, Step(p)
  PROVE  /\ Alive(p) /\ proc' \in [Processes -> Process]
         /\ \A q \in Processes \ {p} : proc'[q] = proc[q]
         /\ proc'[p].as = proc[p].as /\ proc'[p].found = proc[p].found
  <1> USE DEF DbInv
  <1>1. Alive(p)
    BY DEF Step, ProcessStep, ReadLock, ProbeOwner, RemoveStaleLock, CreateLock, WriteLock,
           OpenDatabase, Snapshot, Migrate, Ready, NewerSchema, SaveCurrent, StageCopy,
           DropLog, Displace, Replace, Verify, Discard, Commit, Killed, RestoreFails, Alive
  <1>2. DbInv'
    BY ProcessInv DEF Step
  <1>3. proc' \in [Processes -> Process]
    BY <1>2 DEF DbTypeOK
  <1>4. /\ \A q \in Processes \ {p} : proc'[q] = proc[q]
        /\ proc'[p].as = proc[p].as /\ proc'[p].found = proc[p].found
    <2>1. CASE \E place \in Places : Go(p, place)
      BY <2>1, GoMoves DEF Moved, OthersStay
    <2>2. CASE proc' = proc
      BY <2>2
    <2>3. CASE ReadLock(p)
      BY <2>3 DEF ReadLock, DbTypeOK, Process
    <2>4. CASE OpenDatabase(p)
      BY <2>4 DEF OpenDatabase, DbTypeOK, Process
    <2>5. CASE Displace(p)
      BY <2>5 DEF Displace, DbTypeOK, Process
    <2>6. CASE ProcessStep(p) /\ ~ReadLock(p) /\ ~OpenDatabase(p) /\ ~Displace(p)
      BY <2>1, <2>2, <2>6
         DEF ProcessStep, ProbeOwner, RemoveStaleLock, AfterCheck, CreateLock, WriteLock,
             Snapshot, Migrate, Ready, NewerSchema, SaveCurrent, StageCopy, DropLog,
             Replace, Verify, Discard, Places, Acquiring, Opened, Restoring
    <2>7. CASE Commit(p) \/ Killed(p) \/ RestoreFails(p)
      BY <2>1, <2>2, <2>7 DEF Commit, Killed, Kill, RestoreFails, Places
    <2>8. QED
      BY <2>3, <2>4, <2>5, <2>6, <2>7 DEF Step
  <1>5. QED
    BY <1>1, <1>3, <1>4

LEMMA StepStartsNoServer ==
  ASSUME DbInv, NEW p \in Processes, Step(p) \/ StartRestore(p)
  PROVE  Running("server")' \subseteq Running("server")
  <1>1. CASE Step(p)
    BY <1>1, StepEffect DEF Running, Alive
  <1>2. CASE StartRestore(p)
    BY <1>2, LaunchMoves DEF StartRestore, DbInv, OthersStay, Running, Alive
  <1>3. QED
    BY <1>1, <1>2

\* A dropped ServerProcess is dead.
LEMMA DropKills ==
  ASSUME DbInv, NEW p \in Processes, Drop(p), UNCHANGED <<lock, files, faults>>
  PROVE  /\ DbInv'
         /\ Running("server")' \subseteq Running("server") \ {p}
         /\ \A q \in Processes : Alive(q)' => Alive(q)
  <1>1. CASE Alive(p)
    <2>1. Kill(p) /\ Moved(p, "dead")
      BY <1>1, GoMoves DEF Drop, Kill, DbInv, Places
    <2>2. DbInv'
      BY <2>1, DeathInv DEF DbInv, DbTypeOK
    <2>3. QED
      BY <2>1, <2>2 DEF Moved, OthersStay, Running, Alive
  <1>2. CASE ~Alive(p)
    <2>1. proc' = proc
      BY <1>2 DEF Drop
    <2>2. DbInv'
      BY <2>1 DEF DbInv, DbTypeOK, Roles, HasData, files
    <2>3. QED
      BY <1>2, <2>1, <2>2 DEF Running, Alive
  <1>3. QED
    BY <1>1, <1>2

LEMMA DropRegisteredKills ==
  ASSUME DbInv, registered \in Child \cup {None}, DropRegistered,
         UNCHANGED <<lock, files, faults>>
  PROVE  /\ DbInv'
         /\ Running("server")' \subseteq Running("server")
         /\ registered # None => registered.child \notin Running("server")'
         /\ \A q \in Processes : Alive(q)' => Alive(q)
  <1>1. CASE registered = None
    BY <1>1 DEF DropRegistered, DbInv, DbTypeOK, Roles, HasData, files, Running, Alive
  <1>2. CASE registered # None
    BY <1>2, DropKills DEF DropRegistered, Child
  <1>3. QED
    BY <1>1, <1>2

LEMMA LaunchedServer ==
  ASSUME DbInv, NEW p \in Processes, StartServer(p)
  PROVE  /\ DbInv'
         /\ Running("server")' \subseteq Running("server") \cup {p}
         /\ \A q \in Processes \ {p} : Alive(q)' => Alive(q)
  BY LaunchInv, LaunchMoves DEF StartServer, DbInv, OthersStay, Running, Alive

LEMMA NothingChanges ==
  ASSUME DbInv, UNCHANGED dbVars
  PROVE  /\ DbInv' /\ Running("server")' = Running("server")
         /\ \A q \in Processes : Alive(q)' = Alive(q)
  BY DEF dbVars, DbInv, DbTypeOK, Roles, HasData, files, Running, Alive

-----------------------------------------------------------------------------
(* Every step of the supervisor keeps HostInv. *)

LEMMA CommandInv ==
  ASSUME HostInv, Status \/ Stop \/ CommandStep
  PROVE  HostInv'
  <1> USE DEF HostInv
  <1>1. registered \in Child \cup {None} /\ command \in {"idle", "waiting", "killing", "joining"}
    BY DEF HostTypeOK
  <1>3. CASE Status
    <2>1. /\ UNCHANGED dbVars /\ UNCHANGED <<desired, generation, command, monitor>>
          /\ registered' = None /\ command = "idle" /\ registered.child \notin Running("server")
      BY <1>3 DEF Status, Exited, Running
    <2>2. DbInv' /\ Running("server")' = Running("server")
      BY <2>1, NothingChanges
    <2>3. HostTypeOK'
      BY <2>1, <2>2 DEF HostTypeOK, DbInv
    <2>4. Supervised'
      BY <2>1 DEF Supervised
    <2>5. NoStrayServer' /\ StoppedMeansStopped'
      BY <2>1, <2>2 DEF NoStrayServer, StoppedMeansStopped
    <2>6. QED
      BY <2>2, <2>3, <2>4, <2>5
  <1>4. CASE Started
    <2>1. /\ UNCHANGED dbVars /\ UNCHANGED <<desired, generation, registered>>
          /\ command = "waiting" /\ command' = "idle"
          /\ monitor' = [at |-> "watching", generation |-> desired, attempts |-> 0, child |-> None]
      BY <1>4 DEF Started
    <2>2. DbInv' /\ Running("server")' = Running("server")
      BY <2>1, NothingChanges
    <2>3. HostTypeOK'
      BY <2>1, <2>2, HostAssumption DEF HostTypeOK, DbInv
    <2>4. Supervised'
      BY <2>1 DEF Supervised
    <2>5. NoStrayServer' /\ StoppedMeansStopped'
      BY <2>1, <2>2 DEF NoStrayServer, StoppedMeansStopped, Supervised
    <2>6. QED
      BY <2>2, <2>3, <2>4, <2>5
  <1>5. CASE StartTimesOut
    <2>1. /\ UNCHANGED <<lock, files, faults>> /\ UNCHANGED <<generation, monitor>>
          /\ command = "waiting" /\ command' = "idle" /\ desired' = 0 /\ registered' = None
          /\ DropRegistered
      BY <1>5 DEF StartTimesOut
    <2>2. /\ DbInv' /\ Running("server")' \subseteq Running("server")
          /\ registered.child \notin Running("server")' /\ registered # None
          /\ monitor.at = "done"
      BY <1>1, <2>1, DropRegisteredKills DEF Supervised
    <2>3. Running("server")' = {}
      BY <2>2 DEF NoStrayServer
    <2>4. HostTypeOK'
      BY <2>1, <2>2, HostAssumption DEF HostTypeOK, DbInv, Generations
    <2>5. Supervised'
      BY <2>1, <2>2 DEF Supervised
    <2>6. QED
      BY <2>2, <2>3, <2>4, <2>5 DEF NoStrayServer, StoppedMeansStopped
  <1>6. CASE Stop
    <2>1. /\ UNCHANGED dbVars /\ UNCHANGED <<generation, registered, monitor>>
          /\ command = "idle" /\ command' = "killing" /\ desired' = 0
      BY <1>6 DEF Stop
    <2>2. DbInv' /\ Running("server")' = Running("server")
      BY <2>1, NothingChanges
    <2>3. HostTypeOK'
      BY <2>1, <2>2, HostAssumption DEF HostTypeOK, DbInv, Generations
    <2>4. Supervised'
      BY <2>1 DEF Supervised
    <2>5. NoStrayServer' /\ StoppedMeansStopped'
      BY <2>1, <2>2 DEF NoStrayServer, StoppedMeansStopped
    <2>6. QED
      BY <2>2, <2>3, <2>4, <2>5
  <1>7. CASE StopKills
    <2>1. /\ UNCHANGED <<lock, files, faults>> /\ UNCHANGED <<desired, generation, monitor>>
          /\ command = "killing" /\ command' = "joining" /\ registered' = None
          /\ DropRegistered
      BY <1>7 DEF StopKills
    <2>2. /\ DbInv' /\ Running("server")' \subseteq Running("server")
          /\ registered # None => registered.child \notin Running("server")'
      BY <1>1, <2>1, DropRegisteredKills
    <2>3. HostTypeOK'
      BY <2>1, <2>2 DEF HostTypeOK, DbInv
    <2>4. Supervised'
      BY <2>1 DEF Supervised
    <2>5. NoStrayServer' /\ StoppedMeansStopped'
      BY <2>1, <2>2 DEF NoStrayServer, StoppedMeansStopped
    <2>6. QED
      BY <2>2, <2>3, <2>4, <2>5
  <1>8. CASE Stopped
    <2>1. /\ UNCHANGED dbVars /\ UNCHANGED <<desired, generation, registered, monitor>>
          /\ command = "joining" /\ command' = "idle" /\ monitor.at = "done"
      BY <1>8 DEF Stopped
    <2>2. DbInv' /\ Running("server")' = Running("server")
      BY <2>1, NothingChanges
    <2>3. HostTypeOK'
      BY <2>1, <2>2 DEF HostTypeOK, DbInv
    <2>4. Supervised'
      BY <2>1 DEF Supervised
    <2>5. NoStrayServer' /\ StoppedMeansStopped'
      BY <2>1, <2>2 DEF NoStrayServer, StoppedMeansStopped, Supervised
    <2>6. QED
      BY <2>2, <2>3, <2>4, <2>5
  <1>9. QED
    BY <1>3, <1>4, <1>5, <1>6, <1>7, <1>8 DEF CommandStep

LEMMA StartInv ==
  ASSUME HostInv, NEW p \in Processes, Start(p)
  PROVE  HostInv' /\ Running("server") = {}
  <1> USE DEF HostInv
  <1>1. /\ monitor' = monitor /\ monitor.at = "done"
        /\ desired = 0 /\ command = "idle"
        /\ generation' = generation + 1 /\ generation' \in Generations \ {0}
    BY HostAssumption DEF Start, HostTypeOK, Generations
  <1>2. Running("server") = {}
    BY <1>1 DEF StoppedMeansStopped
  <1>3. CASE /\ StartServer(p) /\ desired' = generation' /\ command' = "waiting"
             /\ registered' = [child |-> p, generation |-> generation']
    <2>1. DbInv' /\ Running("server")' \subseteq {p}
      BY <1>2, <1>3, LaunchedServer
    <2>2. registered' \in Child /\ registered' # None
      BY <1>1, <1>3, ChildAssumption DEF Child
    <2>3. HostTypeOK'
      BY <1>1, <1>3, <2>1, <2>2 DEF HostTypeOK, DbInv
    <2>4. Supervised'
      BY <1>1, <1>3, <2>2 DEF Supervised
    <2>5. NoStrayServer' /\ StoppedMeansStopped'
      BY <1>1, <1>3, <2>1, <2>2 DEF NoStrayServer, StoppedMeansStopped
    <2>6. QED
      BY <1>2, <2>1, <2>3, <2>4, <2>5
  <1>4. CASE /\ UNCHANGED dbVars /\ desired' = 0 /\ registered' = None /\ UNCHANGED command
    <2>1. DbInv' /\ Running("server")' = {}
      BY <1>2, <1>4, NothingChanges
    <2>2. HostTypeOK'
      BY <1>1, <1>4, <2>1, HostAssumption DEF HostTypeOK, DbInv, Generations
    <2>3. Supervised'
      BY <1>1, <1>4 DEF Supervised
    <2>4. QED
      BY <1>2, <2>1, <2>2, <2>3 DEF NoStrayServer, StoppedMeansStopped
  <1>5. QED
    BY <1>3, <1>4 DEF Start, SpawnFails

MonitorType ==
  [at: {"watching", "respawning", "backoff", "spawned", "probing", "done"},
   generation: Generations, attempts: 0 .. MaxRespawns, child: Processes \cup {None}]

LEMMA MonitorMoves ==
  ASSUME HostTypeOK, MonitorGoes("done") \/ MonitorGoes("respawning")
  PROVE  /\ monitor' \in MonitorType /\ monitor'.at \in {"done", "respawning"}
         /\ monitor'.generation = monitor.generation
  BY DEF HostTypeOK, MonitorType, MonitorGoes

\* A step of the monitor that leaves the processes as they are.
LEMMA QuietMonitorInv ==
  ASSUME HostInv, UNCHANGED dbVars, UNCHANGED <<generation, command>>,
         monitor.at \notin {"spawned", "done"}, monitor' \in MonitorType,
         monitor'.at # "spawned", monitor'.generation = monitor.generation,
         \/ registered' = registered
         \/ registered' = None /\ (registered # None => registered.child \notin Running("server")),
         monitor'.at \in {"respawning", "backoff"} => registered' = None,
         desired' \in {desired, 0},
         desired' # desired => registered = None /\ monitor'.at = "done"
  PROVE  HostInv'
  <1> USE DEF HostInv
  <1>1. DbInv' /\ Running("server")' = Running("server")
    BY NothingChanges
  <1>2. HostTypeOK'
    BY <1>1, HostAssumption DEF HostTypeOK, DbInv, MonitorType, Generations
  <1>3. Supervised'
    BY DEF Supervised
  <1>4. NoStrayServer'
    BY <1>1 DEF NoStrayServer
  <1>5. StoppedMeansStopped'
    BY <1>1 DEF NoStrayServer, StoppedMeansStopped
  <1>6. QED
    BY <1>1, <1>2, <1>3, <1>4, <1>5

LEMMA WatchInv ==
  ASSUME HostInv, Watch \/ Respawn \/ RespawnHealthy
  PROVE  HostInv'
  <1> USE DEF HostInv
  <1>1. monitor \in MonitorType
    BY DEF HostTypeOK, MonitorType
  <1>2. CASE Watch
    <2>1. /\ monitor.at = "watching"
          /\ UNCHANGED <<dbVars, desired, generation, command>>
          /\ MonitorGoes("done") \/ MonitorGoes("respawning")
          /\ \/ MonitorGoes("done") /\ registered' = registered
             \/ registered' = None /\ (registered = None \/ Exited)
      BY <1>2 DEF Watch
    <2>2. Exited => registered.child \notin Running("server")
      BY DEF Exited, Running
    <2>3. registered' # None => monitor'.at = "done"
      BY <2>1 DEF MonitorGoes, HostTypeOK
    <2>4. QED
      BY <2>1, <2>2, <2>3, MonitorMoves, QuietMonitorInv
  <1>3. CASE Respawn
    <2>1. /\ monitor.at = "respawning" /\ registered = None
          /\ UNCHANGED <<dbVars, generation, registered, command>>
      BY <1>3 DEF Respawn, Supervised
    <2>2. /\ monitor' \in MonitorType /\ monitor'.generation = monitor.generation
          /\ monitor'.at \in {"done", "backoff"}
      <3>1. CASE MonitorGoes("done")
        BY <1>1, <3>1 DEF MonitorGoes, MonitorType
      <3>2. CASE /\ monitor.attempts < MaxRespawns
                 /\ monitor' = [monitor EXCEPT !.at = "backoff", !.attempts = @ + 1]
        <4>1. monitor.attempts + 1 \in 0 .. MaxRespawns
          BY <1>1, <3>2, HostAssumption DEF MonitorType
        <4>2. QED
          BY <1>1, <3>2, <4>1 DEF MonitorType
      <3>3. QED
        BY <1>3, <3>1, <3>2 DEF Respawn
    <2>3. desired' \in {desired, 0} /\ (desired' # desired => monitor'.at = "done")
      BY <1>1, <1>3 DEF Respawn, MonitorGoes, MonitorType
    <2>4. QED
      BY <2>1, <2>2, <2>3, QuietMonitorInv
  <1>4. CASE RespawnHealthy
    <2>1. /\ monitor.at = "probing"
          /\ UNCHANGED <<dbVars, desired, generation, registered, command>>
      BY <1>4 DEF RespawnHealthy
    <2>2. /\ monitor' \in MonitorType /\ monitor'.generation = monitor.generation
          /\ monitor'.at = "watching"
      <3>1. 0 \in 0 .. MaxRespawns
        BY HostAssumption
      <3>2. monitor' = [monitor EXCEPT !.at = "watching", !.attempts = 0]
        BY <1>4 DEF RespawnHealthy
      <3>3. QED
        BY <1>1, <3>1, <3>2 DEF MonitorType
    <2>3. QED
      BY <2>1, <2>2, QuietMonitorInv
  <1>5. QED
    BY <1>2, <1>3, <1>4

LEMMA BackoffInv ==
  ASSUME HostInv, NEW p \in Processes, BackoffEnds(p)
  PROVE  HostInv' /\ (StartServer(p) => Running("server") = {})
  <1> USE DEF HostInv
  <1>1. /\ monitor \in MonitorType /\ monitor.at = "backoff" /\ registered = None
        /\ UNCHANGED <<desired, generation, registered, command>>
    BY DEF HostTypeOK, MonitorType, BackoffEnds, Supervised
  <1>2. Running("server") = {}
    BY <1>1 DEF NoStrayServer
  <1>3. CASE UNCHANGED dbVars /\ (MonitorGoes("done") \/ MonitorGoes("respawning"))
    BY <1>1, <1>2, <1>3, MonitorMoves, QuietMonitorInv
  <1>4. CASE /\ StillDesired /\ StartServer(p)
             /\ monitor' = [monitor EXCEPT !.at = "spawned", !.child = p]
    <2>1. DbInv' /\ Running("server")' \subseteq {p}
      BY <1>2, <1>4, LaunchedServer
    <2>2. /\ monitor' \in MonitorType /\ monitor'.at = "spawned" /\ monitor'.child = p
          /\ monitor'.generation = monitor.generation
      BY <1>1, <1>4 DEF MonitorType
    <2>3. desired # 0
      BY <1>1, <1>4 DEF StillDesired, Supervised
    <2>4. HostTypeOK'
      BY <1>1, <2>1, <2>2 DEF HostTypeOK, DbInv, MonitorType
    <2>5. Supervised'
      BY <1>1, <2>2, <2>3 DEF Supervised
    <2>6. NoStrayServer' /\ StoppedMeansStopped'
      BY <1>1, <2>1, <2>2, <2>3 DEF NoStrayServer, StoppedMeansStopped
    <2>7. QED
      BY <1>2, <2>1, <2>4, <2>5, <2>6
  <1>5. QED
    BY <1>2, <1>3, <1>4 DEF BackoffEnds, SpawnFails

LEMMA RegisterInv ==
  ASSUME HostInv, Register
  PROVE  HostInv'
  <1> USE DEF HostInv
  <1>1. /\ monitor \in MonitorType /\ monitor.at = "spawned" /\ registered = None
        /\ monitor.child \in Processes /\ monitor.generation # 0
        /\ UNCHANGED <<lock, files, faults, desired, generation, command>>
        /\ command # "waiting"
    BY DEF HostTypeOK, MonitorType, Register, Supervised
  <1>2. CASE StillDesired
    <2>1. /\ registered' = [child |-> monitor.child, generation |-> monitor.generation]
          /\ monitor' = [monitor EXCEPT !.at = "probing", !.child = None]
          /\ UNCHANGED dbVars
      BY <1>1, <1>2 DEF Register, dbVars
    <2>2. DbInv' /\ Running("server")' = Running("server")
      BY <2>1, NothingChanges
    <2>3. registered' \in Child /\ registered' # None
      BY <1>1, <2>1, ChildAssumption DEF Child, MonitorType
    <2>4. /\ monitor' \in MonitorType /\ monitor'.at = "probing"
          /\ monitor'.generation = monitor.generation
      BY <1>1, <2>1 DEF MonitorType
    <2>5. desired = monitor.generation
      BY <1>2 DEF StillDesired
    <2>6. HostTypeOK'
      BY <1>1, <2>2, <2>3, <2>4 DEF HostTypeOK, DbInv, MonitorType
    <2>7. Supervised'
      BY <1>1, <2>1, <2>3, <2>4, <2>5 DEF Supervised
    <2>8. NoStrayServer' /\ StoppedMeansStopped'
      BY <1>1, <2>1, <2>2, <2>3, <2>5 DEF NoStrayServer, StoppedMeansStopped
    <2>9. QED
      BY <2>2, <2>6, <2>7, <2>8
  <1>3. CASE ~StillDesired
    <2>1. /\ registered' = registered /\ Drop(monitor.child)
          /\ monitor' = [monitor EXCEPT !.at = "done", !.child = None]
      BY <1>3 DEF Register
    <2>2. DbInv' /\ Running("server")' \subseteq Running("server") \ {monitor.child}
      BY <1>1, <2>1, DropKills
    <2>3. Running("server")' = {}
      BY <1>1, <2>2 DEF NoStrayServer
    <2>4. monitor' \in MonitorType /\ monitor'.at = "done"
      BY <1>1, <2>1 DEF MonitorType
    <2>5. HostTypeOK'
      BY <1>1, <2>1, <2>2, <2>4 DEF HostTypeOK, DbInv, MonitorType
    <2>6. Supervised'
      BY <1>1, <2>1, <2>4 DEF Supervised
    <2>7. QED
      BY <2>2, <2>3, <2>5, <2>6 DEF NoStrayServer, StoppedMeansStopped
  <1>4. QED
    BY <1>2, <1>3

LEMMA TimesOutInv ==
  ASSUME HostInv, RespawnTimesOut \/ StatusFails
  PROVE  HostInv'
  <1> USE DEF HostInv
  <1>1. /\ monitor.at \in {"probing", "watching"} /\ MonitorGoes("respawning")
        /\ UNCHANGED <<lock, files, faults, desired, generation, command>>
        /\ registered \in Child \cup {None}
    BY DEF RespawnTimesOut, StatusFails, HostTypeOK
  <1>2. registered' = None
    BY <1>1 DEF RespawnTimesOut, StatusFails, Mine, Supervised
  <1>3. /\ DbInv' /\ Running("server")' \subseteq Running("server")
        /\ registered # None => registered.child \notin Running("server")'
    <2>1. CASE Mine
      BY <1>1, <2>1, DropRegisteredKills DEF RespawnTimesOut, StatusFails
    <2>2. CASE ~Mine
      <3>1. registered = None
        BY <1>1, <2>2 DEF Mine, Supervised
      <3>2. UNCHANGED dbVars
        BY <1>1, <2>2 DEF RespawnTimesOut, StatusFails, dbVars
      <3>3. QED
        BY <3>1, <3>2, NothingChanges
    <2>3. QED
      BY <2>1, <2>2
  <1>4. /\ monitor' \in MonitorType /\ monitor'.at = "respawning"
        /\ monitor'.generation = monitor.generation
    BY <1>1, MonitorMoves DEF MonitorGoes, HostTypeOK
  <1>5. HostTypeOK'
    BY <1>1, <1>2, <1>3, <1>4 DEF HostTypeOK, DbInv, MonitorType
  <1>6. Supervised'
    BY <1>1, <1>2, <1>4 DEF Supervised
  <1>7. NoStrayServer' /\ StoppedMeansStopped'
    BY <1>1, <1>3 DEF NoStrayServer, StoppedMeansStopped
  <1>8. QED
    BY <1>3, <1>5, <1>6, <1>7

LEMMA DbStepInv ==
  ASSUME HostInv, NEW p \in Processes, Step(p) \/ StartRestore(p), UNCHANGED hostVars
  PROVE  HostInv'
  <1> USE DEF HostInv, hostVars
  <1>1. DbInv' /\ Running("server")' \subseteq Running("server")
    BY ProcessInv, LaunchInv, StepStartsNoServer DEF Step
  <1>2. HostTypeOK'
    BY <1>1 DEF HostTypeOK, DbInv
  <1>3. Supervised' /\ NoStrayServer' /\ StoppedMeansStopped'
    BY <1>1 DEF Supervised, NoStrayServer, StoppedMeansStopped
  <1>4. QED
    BY <1>1, <1>2, <1>3

LEMMA HostInvStays ==
  ASSUME HostInv, [HostNext]_allVars
  PROVE  HostInv'
  <1>1. CASE UNCHANGED allVars
    <2>1. DbInv' /\ Running("server")' = Running("server") /\ UNCHANGED hostVars
      BY <1>1, NothingChanges DEF allVars, HostInv
    <2>2. QED
      BY <2>1 DEF HostInv, hostVars, HostTypeOK, DbInv, Supervised, NoStrayServer,
                  StoppedMeansStopped
  <1>2. CASE HostNext
    BY <1>2, CommandInv, StartInv, WatchInv, BackoffInv, RegisterInv, TimesOutInv, DbStepInv
       DEF HostNext, MonitorStep, RestoreByHand, Step
  <1>3. QED
    BY <1>1, <1>2

LEMMA HostInvHolds == HostSpec => []HostInv
  <1>1. HostInit => HostInv
    <2> SUFFICES ASSUME HostInit
                 PROVE  HostInv
      OBVIOUS
    <2>1. DbInv
      BY DbInitInv DEF HostInit
    <2>2. HostTypeOK
      BY <2>1, HostAssumption DEF HostInit, HostTypeOK, DbInv, Generations
    <2>3. Running("server") = {}
      BY DEF HostInit, DbInit, Running, Alive
    <2>4. QED
      BY <2>1, <2>2, <2>3 DEF HostInit, HostInv, Supervised, NoStrayServer, StoppedMeansStopped
  <1>2. QED
    BY <1>1, HostInvStays, PTL DEF HostSpec

\* The types of the lock, the files, the processes and the supervisor; in
\* particular no step works on a file that does not exist.
THEOREM HostTypeCorrect == HostSpec => []HostTypeOK
  BY HostInvHolds, PTL DEF HostInv

\* Every server that runs is registered or about to be registered or killed by
\* the monitor that spawned it.
THEOREM NoStray == HostSpec => []NoStrayServer
  BY HostInvHolds, PTL DEF HostInv

\* Once a stop is done no server runs until the next start, even when the
\* monitor was respawning one.
THEOREM StopWins == HostSpec => []StoppedMeansStopped
  BY HostInvHolds, PTL DEF HostInv

\* Two servers never have the database open, whatever becomes of the lock file
\* and whichever process ids are used again.
THEOREM OneServerOpen == HostSpec => []OneServer
  <1>1. HostInv => OneServer
    <2> SUFFICES ASSUME HostInv
                 PROVE  OneServer
      OBVIOUS
    <2>1. Holders \subseteq Running("server")
      BY DEF HostInv, DbInv, Roles, Holders, Running, Alive, Opened
    <2>2. \E p : Running("server") \subseteq {p}
      BY DEF HostInv, NoStrayServer, Supervised
    <2>3. Holders = {} \/ \E p : Holders = {p}
      BY <2>1, <2>2
    <2>4. Cardinality(Holders) \in {0, 1}
      BY <2>3, FS_EmptySet, FS_Singleton
    <2>5. QED
      BY <2>4 DEF OneServer
  <1>2. QED
    BY <1>1, HostInvHolds, PTL

-----------------------------------------------------------------------------
(* What the runbook gives: one process at a time, and copies in time. *)

\* A step of the only process that runs: what the others need stays.
LEMMA AloneMoves ==
  ASSUME DbInv, CarefulInv, NEW p \in Processes, \A q \in Processes : Alive(q) => q = p,
         proc' \in [Processes -> Process],
         \A q \in Processes \ {p} : proc'[q] = proc[q],
         \A q \in Processes \ {p} : data[q] = None => data'[q] = None,
         Covered(p)'
  PROVE  CarefulInv'
  <1>1. Alone'
    BY DEF Alive, Alone
  <1>2. ASSUME NEW q \in Processes \ {p}
        PROVE  Covered(q)'
    <2>1. proc'[q] = proc[q] /\ proc[q].at \in {"unborn", "dead", "refused"}
      BY <1>2 DEF Alive
    <2>2. Unused(q)'
      BY <1>2, <2>1 DEF CarefulInv, Covered, Unused
    <2>3. FoundStands(q)' /\ MigrationCopied(q)' /\ RestoreCopied(q)'
      BY <2>1 DEF FoundStands, MigrationCopied, RestoreCopied, Acquiring
    <2>4. QED
      BY <2>2, <2>3 DEF Covered
  <1>3. QED
    BY <1>1, <1>2 DEF CarefulInv

LEMMA LaunchCareful ==
  ASSUME Careful, DbInv, CarefulInv, NEW p \in Processes,
         (StartServer(p) /\ Running("server") = {}) \/ StartRestore(p)
  PROVE  CarefulInv'
  <1>1. PICK as \in {"server", "restore"} : Launch(p, as)
    BY DEF StartServer, StartRestore
  <1>2. /\ OthersStay(p) /\ proc[p].at = "unborn"
        /\ proc'[p].as = as /\ proc'[p].at = "check" /\ proc'[p].found = (live # None)
        /\ UNCHANGED <<lock, files, faults>>
    BY <1>1, LaunchMoves DEF DbInv
  <1>3. \A q \in Processes : ~Alive(q)
    <2>1. CASE StartRestore(p)
      BY <2>1 DEF StartRestore
    <2>2. CASE StartServer(p) /\ Running("server") = {}
      BY <2>2 DEF StartServer, Running, DbInv, DbTypeOK, Process
    <2>3. QED
      BY <2>1, <2>2
  <1>4. Covered(p)'
    BY <1>2 DEF CarefulInv, Covered, Unused, FoundStands, MigrationCopied, RestoreCopied,
                Unopened, files
  <1>5. QED
    BY <1>2, <1>3, <1>4, AloneMoves DEF OthersStay, files

LEMMA DeathCareful ==
  ASSUME DbInv, CarefulInv, NEW p \in Processes, Kill(p), UNCHANGED files
  PROVE  CarefulInv'
  <1>1. Moved(p, "dead")
    BY GoMoves DEF Kill, DbInv, Places
  <1>2. Alone'
    BY <1>1 DEF CarefulInv, Alone, Alive, Moved, OthersStay
  <1>3. Covered(p)'
    BY <1>1 DEF Covered, Unused, FoundStands, MigrationCopied, RestoreCopied, Unopened,
                Acquiring, Moved
  <1>4. ASSUME NEW q \in Processes \ {p}
        PROVE  Covered(q)'
    BY <1>1 DEF Moved, OthersStay, files, CarefulInv, Covered, Unused, FoundStands,
                MigrationCopied, RestoreCopied, OlderCopyOf, CopyOf
  <1>5. QED
    BY <1>2, <1>3, <1>4 DEF CarefulInv

\* A process that takes a step is the only one there is.
LEMMA StepAlone ==
  ASSUME DbInv, CarefulInv, NEW p \in Processes, Step(p)
  PROVE  /\ \A q \in Processes : Alive(q) => q = p
         /\ Covered(p) /\ DbInv' /\ proc[p] \in Process
         /\ proc' \in [Processes -> Process]
         /\ \A q \in Processes \ {p} : proc'[q] = proc[q]
         /\ proc'[p].as = proc[p].as /\ proc'[p].found = proc[p].found
  BY StepEffect, ProcessInv DEF CarefulInv, Alone, Step, DbInv, DbTypeOK

LEMMA LockCareful ==
  ASSUME DbInv, CarefulInv, NEW p \in Processes,
         \/ ReadLock(p) \/ ProbeOwner(p) \/ RemoveStaleLock(p) \/ CreateLock(p) \/ WriteLock(p)
         \/ Ready(p) \/ NewerSchema(p) \/ Verify(p)
  PROVE  CarefulInv'
  <1>1. Step(p)
    BY DEF Step, ProcessStep
  <1>2. UNCHANGED files
    BY DEF ReadLock, ProbeOwner, RemoveStaleLock, CreateLock, WriteLock, Ready, NewerSchema,
           Verify
  <1>3. /\ Covered(p)
        /\ proc'[p].as = proc[p].as /\ proc'[p].found = proc[p].found
    BY <1>1, StepAlone
  <1>4. CASE proc[p].at \in Acquiring
    <2>1. proc'[p].at \in {"refused", "save", "open"} \cup Acquiring
      BY <1>4 DEF ReadLock, ProbeOwner, RemoveStaleLock, CreateLock, WriteLock, Ready,
                  NewerSchema, Verify, Go, AfterCheck, DbInv, DbTypeOK, Process, Acquiring
    <2>2. QED
      BY <1>1, <1>2, <1>3, <1>4, <2>1, StepAlone, AloneMoves
         DEF files, Covered, Unused, FoundStands, MigrationCopied, RestoreCopied, Unopened,
             Acquiring
  <1>5. CASE proc[p].at \notin Acquiring
    <2>1. CASE Ready(p) \/ NewerSchema(p)
      <3>1. proc'[p].at \in {"refused", "serving"}
        BY <2>1 DEF Ready, NewerSchema, Go, DbInv, DbTypeOK, Process
      <3>2. Covered(p)'
        BY <3>1 DEF Covered, Unused, FoundStands, MigrationCopied, RestoreCopied, Unopened,
                    Acquiring
      <3>3. QED
        BY <1>1, <1>2, <3>2, StepAlone, AloneMoves DEF files
    <2>2. CASE Verify(p)
      <3>1. Moved(p, "discard") /\ proc[p].at = "verify"
        BY <2>2, GoMoves DEF Verify, DbInv, Places, Restoring
      <3>2. Covered(p)'
        BY <1>2, <1>3, <3>1
           DEF files, Moved, Covered, Unused, FoundStands, MigrationCopied, RestoreCopied,
               CopyOf, Unopened, Acquiring
      <3>3. QED
        BY <1>1, <1>2, <3>2, StepAlone, AloneMoves DEF files
    <2>3. QED
      BY <1>5, <2>1, <2>2
         DEF ReadLock, ProbeOwner, RemoveStaleLock, CreateLock, WriteLock, Acquiring
  <1>6. QED
    BY <1>4, <1>5

LEMMA OpenCareful ==
  ASSUME DbInv, CarefulInv, NEW p \in Processes, OpenDatabase(p)
  PROVE  CarefulInv'
  <1>1. Step(p)
    BY DEF Step, ProcessStep
  <1>2. PICK place \in {"snapshot", "migrate"} :
          /\ proc' = [proc EXCEPT ![p].file = live', ![p].at = place]
          /\ place = "migrate" => ~(proc[p].found /\ data'[live'].version < Latest)
    BY DEF OpenDatabase
  <1>3. proc'[p].at = place /\ proc'[p].file = live'
    BY <1>2 DEF DbInv, DbTypeOK, Process
  <1>4. /\ proc[p].at = "open" /\ proc[p].as = "server"
        /\ proc[p].found <=> live # None
    BY <1>1, StepAlone
       DEF OpenDatabase, DbInv, Roles, Opened, Covered, FoundStands
  <1>5. DbInv' /\ p \in Files
    BY <1>1, StepAlone DEF Processes, Files
  <1>6. CASE live = None
    <2>1. live' = p /\ data' = [data EXCEPT ![p] = NewFile(p, 0)]
      BY <1>6 DEF OpenDatabase
    <2>2. Covered(p)'
      BY <1>3, <2>1 DEF Covered, Unused, FoundStands, MigrationCopied, RestoreCopied,
                        Unopened, Acquiring
    <2>3. \A q \in Processes \ {p} : data[q] = None => data'[q] = None
      BY <2>1 DEF DbInv, DbTypeOK, Processes, Files
    <2>4. QED
      BY <1>1, <2>2, <2>3, StepAlone, AloneMoves
  <1>7. CASE live # None
    <2>1. live' = live /\ data' = data
      BY <1>7 DEF OpenDatabase
    <2>2. data[live].version \in Int /\ Latest \in Int
      BY <1>7, LatestAssumption DEF DbInv, HasData, FileData
    <2>3. place = "migrate" => data'[proc'[p].file].version >= Latest
      BY <1>2, <1>3, <1>4, <1>7, <2>1, <2>2
    <2>4. Covered(p)'
      BY <1>3, <2>3 DEF Covered, Unused, FoundStands, MigrationCopied, RestoreCopied,
                        Unopened, Acquiring
    <2>5. QED
      BY <1>1, <2>1, <2>4, StepAlone, AloneMoves
  <1>8. QED
    BY <1>6, <1>7

\* A write to a file that exists gives nobody a file.
LEMMA UnusedKept ==
  ASSUME DbInv, NEW f \in Files, data[f] \in FileData, NEW x, data' = [data EXCEPT ![f] = x]
  PROVE  \A q \in Processes : data[q] = None => data'[q] = None
  BY NoneAssumption DEF DbInv, DbTypeOK, Processes, Files

LEMMA ServerWriteCareful ==
  ASSUME DbInv, CarefulInv, NEW p \in Processes, Snapshot(p) \/ Migrate(p) \/ Commit(p)
  PROVE  CarefulInv'
  <1> USE DEF Covered, Unused, FoundStands, MigrationCopied, RestoreCopied, Unopened, Acquiring
  <1>1. Step(p)
    BY DEF Step, ProcessStep
  <1>2. PICK f \in Files : f = proc[p].file /\ data[f] \in FileData
    BY DEF Snapshot, Migrate, Commit, DbInv, HasData, WithFile
  <1>3. CASE Snapshot(p)
    <2>1. Moved(p, "migrate") /\ data' = data /\ copies' = copies \cup {ContentOf(f)}
      BY <1>2, <1>3, GoMoves DEF Snapshot, DbInv, Places, Opened
    <2>2. data[f].version <= data[f].version
      BY <1>2, LatestAssumption DEF FileData
    <2>3. OlderCopyOf(f)'
      <3>1. /\ ContentOf(f) \in copies' /\ ContentOf(f).of = data[f].of
            /\ ContentOf(f).commits = data[f].commits /\ ContentOf(f).version = data[f].version
        BY <2>1 DEF ContentOf
      <3>2. QED
        BY <2>1, <2>2, <3>1 DEF OlderCopyOf
    <2>4. Covered(p)'
      BY <1>2, <2>1, <2>3 DEF Moved
    <2>5. QED
      BY <1>1, <2>1, <2>4, StepAlone, AloneMoves
  <1>4. CASE Migrate(p)
    <2>1. /\ data' = [data EXCEPT ![f].version = data[f].version + 1]
          /\ proc[p].at = "migrate" /\ proc' = proc /\ copies' = copies
          /\ data[f].version < Latest
      BY <1>2, <1>4 DEF Migrate
    <2>2. /\ data'[f].of = data[f].of /\ data'[f].commits = data[f].commits
          /\ data'[f].version = data[f].version + 1
          /\ data[f].version \in Nat
      BY <1>2, <2>1, LatestAssumption DEF DbInv, DbTypeOK, FileData
    <2>3. f = p \/ OlderCopyOf(f)
      BY <1>1, <1>2, <2>1, <2>2, LatestAssumption, StepAlone
    <2>4. ASSUME OlderCopyOf(f)
          PROVE  OlderCopyOf(f)'
      <3>1. PICK c \in copies : /\ c.of = data[f].of /\ c.commits = data[f].commits
                                /\ c.version <= data[f].version
        BY <2>4 DEF OlderCopyOf
      <3>2. c.version \in Nat
        BY LatestAssumption DEF DbInv, DbTypeOK, Content
      <3>3. c.version <= data'[f].version
        BY <2>2, <3>1, <3>2
      <3>4. QED
        BY <2>1, <2>2, <3>1, <3>3 DEF OlderCopyOf
    <2>5. Covered(p)'
      BY <1>2, <2>1, <2>3, <2>4
    <2>6. \A q \in Processes : data[q] = None => data'[q] = None
      BY <1>2, <2>1, NoneAssumption DEF DbInv, DbTypeOK, Processes, Files
    <2>7. QED
      BY <1>1, <2>5, <2>6, StepAlone, AloneMoves
  <1>5. CASE Commit(p)
    <2>1. /\ data' = [data EXCEPT ![f].commits = data[f].commits + 1]
          /\ proc[p].at = "serving" /\ proc' = proc
      BY <1>2, <1>5 DEF Commit
    <2>2. Covered(p)'
      BY <2>1
    <2>3. \A q \in Processes : data[q] = None => data'[q] = None
      BY <1>2, <2>1, NoneAssumption DEF DbInv, DbTypeOK, Processes, Files
    <2>4. QED
      BY <1>1, <2>2, <2>3, StepAlone, AloneMoves
  <1>6. QED
    BY <1>3, <1>4, <1>5

\* The safety backup copies and checkpoints the database: the only process that
\* has it open is the restore.
LEMMA SaveCareful ==
  ASSUME DbInv, CarefulInv, NEW p \in Processes, SaveCurrent(p)
  PROVE  CarefulInv'
  <1> USE DEF Covered, Unused, FoundStands, MigrationCopied, RestoreCopied, Unopened, Acquiring
  <1>1. Step(p)
    BY DEF Step, ProcessStep
  <1>2. /\ Moved(p, "stage") /\ proc[p].at = "save" /\ proc[p].as = "restore" /\ live' = live
        /\ data[p] = None
    BY <1>1, GoMoves, StepAlone DEF SaveCurrent, DbInv, Roles, Places, Restoring
  <1>3. CASE live = None
    <2>1. data' = data
      BY <1>3 DEF SaveCurrent
    <2>2. Covered(p)'
      BY <1>2, <1>3, <2>1 DEF Moved
    <2>3. QED
      BY <1>1, <2>1, <2>2, StepAlone, AloneMoves
  <1>4. CASE live # None
    <2>1. Holders = {}
      BY <1>1, <1>2, StepAlone DEF Holders, Alive, Opened
    <2>2. /\ live \in Files /\ data[live] \in FileData
          /\ data' = [data EXCEPT ![live].flushed = data[live].commits]
          /\ copies' = copies \cup {ContentOf(live)}
      BY <1>4, <2>1 DEF SaveCurrent, DbInv, HasData, DbTypeOK
    <2>3. /\ data'[live].of = data[live].of /\ data'[live].commits = data[live].commits
          /\ data'[live].flushed = data[live].commits
      BY <2>2 DEF DbInv, DbTypeOK, FileData
    <2>4. CopyOf(live)'
      <3>1. /\ ContentOf(live) \in copies' /\ ContentOf(live).of = data[live].of
            /\ ContentOf(live).commits = data[live].commits
        BY <2>2 DEF ContentOf
      <3>2. QED
        BY <1>2, <2>3, <3>1 DEF CopyOf
    <2>5. \A q \in Processes : data[q] = None => data'[q] = None
      BY <2>2, NoneAssumption DEF DbInv, DbTypeOK, Processes, Files
    <2>6. Covered(p)'
      BY <1>2, <2>3, <2>4, <2>5 DEF Moved
    <2>7. QED
      BY <1>1, <2>5, <2>6, StepAlone, AloneMoves
  <1>5. QED
    BY <1>3, <1>4

LEMMA StageCareful ==
  ASSUME DbInv, CarefulInv, NEW p \in Processes, StageCopy(p)
  PROVE  CarefulInv'
  <1> USE DEF Covered, Unused, FoundStands, MigrationCopied, RestoreCopied, Unopened, Acquiring
  <1>1. Step(p)
    BY DEF Step, ProcessStep
  <1>2. /\ Moved(p, "dropLog") /\ proc[p].at = "stage" /\ live' = live /\ copies' = copies
        /\ proc[p].as = "restore" /\ data[p] = None
    BY <1>1, GoMoves, StepAlone DEF StageCopy, DbInv, Roles, Places, Restoring
  <1>3. \A f \in Files \ {p} : data'[f] = data[f]
    BY DEF StageCopy, DbInv, DbTypeOK
  <1>4. live # None => data'[live] = data[live]
    BY <1>2, <1>3, NoneAssumption DEF DbInv, DbTypeOK, HasData
  <1>5. Covered(p)'
    BY <1>1, <1>2, <1>4, StepAlone DEF Moved, CopyOf
  <1>6. QED
    BY <1>1, <1>3, <1>5, StepAlone, AloneMoves DEF Processes, Files

\* What the log holds is in the file, so that dropping the log drops nothing.
LEMMA DropLogCareful ==
  ASSUME DbInv, CarefulInv, NEW p \in Processes, DropLog(p)
  PROVE  CarefulInv' /\ (live # None => data'[live].commits = data[live].commits)
  <1> USE DEF Covered, Unused, FoundStands, MigrationCopied, RestoreCopied, Unopened, Acquiring
  <1>1. Step(p)
    BY DEF Step, ProcessStep
  <1>2. /\ Moved(p, "displace") /\ proc[p].at = "dropLog" /\ live' = live /\ copies' = copies
        /\ proc[p].as = "restore"
    BY GoMoves DEF DropLog, DbInv, Roles, Places, Restoring
  <1>3. CASE live = None
    <2>1. data' = data
      BY <1>3 DEF DropLog
    <2>2. Covered(p)'
      BY <1>2, <1>3 DEF Moved
    <2>3. QED
      BY <1>1, <1>3, <2>1, <2>2, StepAlone, AloneMoves
  <1>4. CASE live # None
    <2>1. /\ live \in Files /\ data[live] \in FileData
          /\ data' = [data EXCEPT ![live].commits = data[live].flushed]
      BY <1>4 DEF DropLog, DbInv, HasData, DbTypeOK
    <2>2. data[live].flushed = data[live].commits /\ CopyOf(live)
      BY <1>1, <1>2, <1>4, StepAlone
    <2>3. data'[live].of = data[live].of /\ data'[live].commits = data[live].commits
      BY <2>1, <2>2 DEF DbInv, DbTypeOK, FileData
    <2>4. CopyOf(live)'
      BY <1>2, <2>2, <2>3 DEF CopyOf
    <2>5. \A q \in Processes : data[q] = None => data'[q] = None
      BY <2>1, NoneAssumption DEF DbInv, DbTypeOK, Processes, Files
    <2>6. Covered(p)'
      BY <1>2, <2>4 DEF Moved
    <2>7. QED
      BY <1>1, <2>3, <2>5, <2>6, StepAlone, AloneMoves
  <1>5. QED
    BY <1>3, <1>4

LEMMA SwapCareful ==
  ASSUME DbInv, CarefulInv, NEW p \in Processes,
         Displace(p) \/ Replace(p) \/ Discard(p) \/ RestoreFails(p)
  PROVE  CarefulInv'
  <1> USE DEF Covered, Unused, FoundStands, MigrationCopied, RestoreCopied, Unopened, Acquiring
  <1>1. Step(p)
    BY DEF Step, ProcessStep
  <1>2. data' = data /\ copies' = copies
    BY DEF Displace, Replace, Discard, RestoreFails
  <1>3. CASE Displace(p)
    <2>1. /\ proc[p].at = "displace" /\ live' = None
          /\ proc' = [proc EXCEPT ![p].at = "replace", ![p].file = live]
      BY <1>3 DEF Displace
    <2>2. proc'[p].at = "replace" /\ proc'[p].file = live /\ live \in Files \cup {None}
      BY <2>1 DEF DbInv, DbTypeOK, Process
    <2>3. live # None => CopyOf(live)
      BY <1>1, <2>1, StepAlone
    <2>4. Covered(p)'
      BY <1>2, <2>1, <2>2, <2>3 DEF CopyOf
    <2>5. QED
      BY <1>1, <1>2, <2>4, StepAlone, AloneMoves
  <1>4. CASE Replace(p)
    <2>1. Moved(p, "verify") /\ proc[p].at = "replace"
      BY <1>4, GoMoves DEF Replace, DbInv, Places, Restoring
    <2>2. Covered(p)'
      BY <1>1, <1>2, <2>1, StepAlone DEF Moved, CopyOf
    <2>3. QED
      BY <1>1, <1>2, <2>2, StepAlone, AloneMoves
  <1>5. CASE Discard(p) \/ RestoreFails(p)
    <2>1. Moved(p, "dead")
      BY <1>5, GoMoves DEF Discard, RestoreFails, DbInv, Places
    <2>2. Covered(p)'
      BY <2>1 DEF Moved
    <2>3. QED
      BY <1>1, <1>2, <2>2, StepAlone, AloneMoves
  <1>6. QED
    BY <1>3, <1>4, <1>5

LEMMA StepCareful ==
  ASSUME DbInv, CarefulInv, NEW p \in Processes, Step(p)
  PROVE  CarefulInv'
  <1>1. CASE Killed(p)
    BY <1>1, DeathCareful DEF Killed
  <1>2. QED
    BY <1>1, LockCareful, OpenCareful, ServerWriteCareful, SaveCareful, StageCareful,
       DropLogCareful, SwapCareful DEF Step, ProcessStep

\* What a step of the whole system does to the database.
LEMMA HostKinds ==
  ASSUME HostInv, [HostNext]_allVars
  PROVE  \/ UNCHANGED dbVars
         \/ \E p \in Processes : (StartServer(p) /\ Running("server") = {}) \/ StartRestore(p)
         \/ \E p \in Processes : Kill(p) /\ UNCHANGED <<lock, files, faults>>
         \/ \E p \in Processes : Step(p)
  <1>1. CASE UNCHANGED allVars
    BY <1>1 DEF allVars
  <1>2. CASE Status \/ Stop \/ Started \/ Stopped \/ Watch \/ Respawn \/ RespawnHealthy
    BY <1>2 DEF Status, Stop, Started, Stopped, Watch, Respawn, RespawnHealthy
  <1>3. CASE StartTimesOut \/ StopKills \/ Register \/ RespawnTimesOut \/ StatusFails
    <2>1. registered = None \/ registered.child \in Processes
      BY DEF HostInv, HostTypeOK, Child
    <2>2. monitor.at = "spawned" => monitor.child \in Processes
      BY DEF HostInv, Supervised
    <2>3. QED
      BY <1>3, <2>1, <2>2
         DEF StartTimesOut, StopKills, Register, RespawnTimesOut, StatusFails,
             DropRegistered, Drop, dbVars
  <1>4. CASE \E p \in Processes : Start(p)
    BY <1>4, StartInv DEF Start, SpawnFails
  <1>5. CASE \E p \in Processes : BackoffEnds(p)
    BY <1>5, BackoffInv DEF BackoffEnds, SpawnFails
  <1>6. CASE \E p \in Processes : Step(p) \/ RestoreByHand(p)
    BY <1>6 DEF RestoreByHand
  <1>7. QED
    BY <1>1, <1>2, <1>3, <1>4, <1>5, <1>6 DEF HostNext, CommandStep, MonitorStep, Step

LEMMA CarefulStays ==
  ASSUME Careful, HostInv, CarefulInv, [HostNext]_allVars
  PROVE  CarefulInv'
  <1>1. DbInv
    BY DEF HostInv
  <1>2. CASE UNCHANGED dbVars
    BY <1>2 DEF dbVars, files, CarefulInv, Alone, Alive, Covered, Unused, FoundStands,
                MigrationCopied, RestoreCopied, OlderCopyOf, CopyOf
  <1>3. QED
    BY <1>1, <1>2, HostKinds, LaunchCareful, DeathCareful, StepCareful

\* With the runbook kept one process at a time works on the database, and what
\* a migration or a restore is about to change is copied.
LEMMA CarefulInvHolds ==
  ASSUME Careful
  PROVE  HostSpec => [](HostInv /\ CarefulInv)
  <1>1. HostInit => CarefulInv
    BY RunsAssumption
       DEF HostInit, DbInit, CarefulInv, Alone, Alive, Covered, Unused, FoundStands,
           MigrationCopied, RestoreCopied, Acquiring, Processes, Files
  <1>2. HostInv /\ CarefulInv /\ [HostNext]_allVars => CarefulInv'
    BY CarefulStays
  <1>3. QED
    BY <1>1, <1>2, HostInvHolds, PTL DEF HostSpec

-----------------------------------------------------------------------------
(* What was committed is kept, and upgrades are copied first. *)

\* No step takes a commit from the database or a file moved aside,
LEMMA CommitsKept ==
  ASSUME DbInv, CarefulInv, NEW p \in Processes, Step(p),
         NEW g \in displaced \cup ({live} \ {None})
  PROVE  data'[g].of = data[g].of /\ data'[g].commits >= data[g].commits
  <1>1. g \in Files /\ data[g] \in FileData /\ data[g].commits \in Nat
    BY LimitsAssumption DEF DbInv, DbTypeOK, HasData, FileData
  <1>2. g = p => proc[p].at \notin {"open", "stage"}
    BY <1>1, NoneAssumption DEF CarefulInv, Covered, Unused, Unopened
  <1>3. CASE data'[g] = data[g]
    BY <1>1, <1>3
  <1>4. CASE OpenDatabase(p) \/ StageCopy(p)
    BY <1>1, <1>2, <1>3, <1>4 DEF OpenDatabase, StageCopy, DbInv, DbTypeOK
  <1>5. CASE Migrate(p)
    BY <1>1, <1>5 DEF Migrate, DbInv, DbTypeOK, FileData
  <1>6. CASE Commit(p)
    BY <1>1, <1>6 DEF Commit, DbInv, DbTypeOK, FileData
  <1>7. CASE SaveCurrent(p)
    BY <1>1, <1>7 DEF SaveCurrent, DbInv, DbTypeOK, FileData
  <1>8. CASE DropLog(p)
    <2>1. live # None => data'[live].commits = data[live].commits
      BY <1>8, DropLogCareful
    <2>2. CASE g = live
      BY <1>1, <1>8, <2>1, <2>2 DEF DropLog, DbInv, DbTypeOK, FileData
    <2>3. CASE g # live
      BY <1>1, <1>8, <2>3 DEF DropLog, DbInv, DbTypeOK
    <2>4. QED
      BY <2>2, <2>3
  <1>9. CASE ~(\/ OpenDatabase(p) \/ StageCopy(p) \/ Migrate(p) \/ Commit(p)
               \/ SaveCurrent(p) \/ DropLog(p))
    BY <1>3, <1>9
       DEF Step, ProcessStep, ReadLock, ProbeOwner, RemoveStaleLock, CreateLock, WriteLock,
           Snapshot, Ready, NewerSchema, Displace, Replace, Verify, Discard, Killed,
           RestoreFails, files
  <1>10. QED
    BY <1>4, <1>5, <1>6, <1>7, <1>8, <1>9

\* and none loses such a file, unless there is a copy of it.
LEMMA FilesKept ==
  ASSUME DbInv, CarefulInv, NEW p \in Processes, Step(p),
         NEW g \in displaced \cup ({live} \ {None})
  PROVE  \/ g \in displaced' \cup ({live'} \ {None})
         \/ CopyOf(g) /\ copies' = copies
  <1>0. g # None
    BY RunsAssumption DEF DbInv, DbTypeOK, Files
  <1>1. CASE Displace(p)
    BY <1>1 DEF Displace
  <1>2. CASE Replace(p)
    <2>1. live = None
      BY <1>2, StepAlone DEF Replace, Covered, RestoreCopied
    <2>2. QED
      BY <1>2, <2>1 DEF Replace
  <1>3. CASE Discard(p)
    <2>1. proc[p].file # None => CopyOf(proc[p].file)
      BY <1>3, StepAlone DEF Discard, Covered, RestoreCopied
    <2>2. CASE g = proc[p].file
      BY <1>0, <1>3, <2>1, <2>2 DEF Discard
    <2>3. CASE g # proc[p].file
      BY <1>3, <2>3 DEF Discard
    <2>4. QED
      BY <2>2, <2>3
  <1>4. CASE RestoreFails(p)
    BY <1>0, <1>4 DEF RestoreFails
  <1>5. CASE OpenDatabase(p)
    BY <1>5 DEF OpenDatabase
  <1>6. CASE ~(Displace(p) \/ Replace(p) \/ Discard(p) \/ RestoreFails(p) \/ OpenDatabase(p))
    <2>1. displaced' = displaced /\ live' = live
      BY <1>6
         DEF Step, ProcessStep, ReadLock, ProbeOwner, RemoveStaleLock, CreateLock, WriteLock,
             Snapshot, Migrate, Ready, NewerSchema, SaveCurrent, StageCopy, DropLog, Verify,
             Commit, Killed, files
    <2>2. QED
      BY <2>1
  <1>7. QED
    BY <1>1, <1>2, <1>3, <1>4, <1>5, <1>6

\* Whatever is killed and whichever rename fails, what was committed is in the
\* database, a file moved aside, or a copy.
THEOREM NothingLost ==
  ASSUME Careful
  PROVE  HostSpec => NothingIsLost
  <1>1. ASSUME HostInv, CarefulInv, [HostNext]_allVars, NEW f \in Files,
               NEW n \in 1 .. MaxCommits,
               NEW g \in displaced \cup ({live} \ {None}),
               data[g].of = f, data[g].commits >= n
        PROVE  \/ \E c \in copies' : c.of = f /\ c.commits >= n
               \/ \E h \in displaced' \cup ({live'} \ {None}) :
                    data'[h].of = f /\ data'[h].commits >= n
    <2>1. DbInv
      BY <1>1 DEF HostInv
    <2>2. CASE UNCHANGED files
      BY <1>1, <2>2 DEF files
    <2>3. CASE \E p \in Processes : Step(p)
      <3>1. PICK p \in Processes : Step(p)
        BY <2>3
      <3>2. data'[g].of = data[g].of /\ data'[g].commits >= data[g].commits
        BY <1>1, <2>1, <3>1, CommitsKept
      <3>3. CASE g \in displaced' \cup ({live'} \ {None})
        <4>1. /\ data[g] \in FileData
              /\ data[g].commits \in Nat /\ n \in Nat
          BY <1>1, <2>1, LimitsAssumption DEF DbInv, DbTypeOK, HasData, FileData
        <4>2. DbInv'
          BY <2>1, <3>1, StepAlone, <1>1
        <4>3. data'[g].commits \in Nat
          BY <3>3, <4>2, LimitsAssumption DEF DbInv, HasData, FileData
        <4>4. data'[g].commits >= n
          BY <1>1, <3>2, <4>1, <4>3
        <4>5. QED
          BY <1>1, <3>2, <3>3, <4>4
      <3>4. CASE CopyOf(g) /\ copies' = copies
        BY <1>1, <3>4 DEF CopyOf
      <3>5. QED
        BY <1>1, <2>1, <3>1, <3>3, <3>4, FilesKept
    <2>4. CASE \E p \in Processes : StartServer(p) \/ StartRestore(p)
      BY <2>2, <2>4 DEF StartServer, StartRestore, Launch
    <2>5. QED
      BY <1>1, <2>2, <2>3, <2>4, HostKinds DEF dbVars
  <1>2. HostInv /\ CarefulInv /\ [HostNext]_allVars =>
          [\A f \in Files, n \in 1 .. MaxCommits :
             LET Kept(c) == c.of = f /\ c.commits >= n IN
             (\E g \in displaced \cup ({live} \ {None}) : Kept(ContentOf(g))) =>
                \/ \E c \in copies' : Kept(c)
                \/ \E g \in displaced' \cup ({live'} \ {None}) : Kept(ContentOf(g)')]_dbVars
    BY <1>1 DEF ContentOf
  <1>3. QED
    BY <1>2, CarefulInvHolds, PTL DEF HostSpec, NothingIsLost

\* Before a database that was found is upgraded there is a copy of it with its
\* old schema and every commit, also when the upgrade was interrupted before.
THEOREM UpgradesCopied ==
  ASSUME Careful
  PROVE  HostSpec => UpgradesAreSnapshotted
  <1>1. ASSUME HostInv, CarefulInv, [HostNext]_allVars, NEW f \in Files,
               data[f] # None, data'[f] # None, data'[f].version > data[f].version
        PROVE  (f \in Processes /\ proc[f].as = "server") \/ OlderCopyOf(f)
    <2>1. DbInv /\ data[f] \in FileData /\ data[f].version \in Nat
      BY <1>1, LatestAssumption DEF HostInv, DbInv, DbTypeOK, FileData
    <2>2. data'[f] # data[f]
      BY <1>1, <2>1
    <2>3. PICK p \in Processes : Step(p)
      BY <1>1, <2>2, HostKinds DEF dbVars, files, StartServer, StartRestore, Launch
    <2>4. CASE OpenDatabase(p)
      BY <2>1, <2>2, <2>4 DEF OpenDatabase, DbInv, DbTypeOK, Roles, Opened
    <2>5. CASE StageCopy(p)
      <3>1. data[p] = None
        BY <1>1, <2>5 DEF StageCopy, CarefulInv, Covered, Unused, Unopened
      <3>2. QED
        BY <1>1, <2>1, <2>2, <2>5, <3>1 DEF StageCopy, DbInv, DbTypeOK
    <2>6. CASE Migrate(p)
      <3>1. f = proc[p].file /\ proc[p].as = "server" /\ proc[p].at = "migrate"
        BY <2>1, <2>2, <2>6 DEF Migrate, DbInv, DbTypeOK, Roles, Opened
      <3>2. data[f].version < Latest
        BY <2>6, <3>1 DEF Migrate
      <3>3. f = p \/ OlderCopyOf(f)
        BY <1>1, <2>1, <3>1, <3>2, LatestAssumption DEF CarefulInv, Covered, MigrationCopied
      <3>4. QED
        BY <3>1, <3>3
    <2>7. CASE Commit(p) \/ SaveCurrent(p) \/ DropLog(p)
      <3>1. data'[f].version = data[f].version
        BY <2>1, <2>7 DEF Commit, SaveCurrent, DropLog, DbInv, DbTypeOK, HasData, FileData, WithFile
      <3>2. QED
        BY <1>1, <2>1, <3>1
    <2>8. CASE ~(\/ OpenDatabase(p) \/ StageCopy(p) \/ Migrate(p) \/ Commit(p)
                 \/ SaveCurrent(p) \/ DropLog(p))
      BY <2>2, <2>3, <2>8
         DEF Step, ProcessStep, ReadLock, ProbeOwner, RemoveStaleLock, CreateLock, WriteLock,
             Snapshot, Ready, NewerSchema, Displace, Replace, Verify, Discard, Killed,
             RestoreFails, files
    <2>9. QED
      BY <2>4, <2>5, <2>6, <2>7, <2>8
  <1>2. HostInv /\ CarefulInv /\ [HostNext]_allVars =>
          [\A f \in Files :
             data[f] # None /\ data'[f] # None /\ data'[f].version > data[f].version
               => \/ f \in Processes /\ proc[f].as = "server"
                  \/ \E c \in copies : /\ c.of = data[f].of
                                       /\ c.commits = data[f].commits
                                       /\ c.version <= data[f].version]_dbVars
    BY <1>1 DEF OlderCopyOf
  <1>3. QED
    BY <1>2, CarefulInvHolds, PTL DEF HostSpec, UpgradesAreSnapshotted
=============================================================================
