--------------------------- MODULE ServerDatabase ---------------------------
(***************************************************************************)
(* The database file of the server, its lock (server/src/db.ts) and the    *)
(* restore command (server/src/recovery.ts). A process is one run of the   *)
(* program, as server or as restore command; it may be killed between any  *)
(* two calls of the operating system. Nothing in the program closes the    *)
(* server's database: a server ends by being killed, its lock stays.       *)
(*                                                                         *)
(* A file is named after the process that made it, file 0 is the database  *)
(* of the installation. A file holds data that began as its own or as      *)
(* another file's, some commits, of which the last may still be in the     *)
(* write-ahead log, and a schema version.                                  *)
(***************************************************************************)
EXTENDS Naturals, FiniteSets

CONSTANTS
  Runs,        \* how often the program is started
  ReusePids,   \* a process may get the id of one that ended
  Pids,        \* the process ids it may get; else each has one of its own
  Careful,     \* servers and restores are started as docs/recovery.md says
  Latest,      \* schema version of this build
  UserSchema, BackupSchemas, \* that of the installation, those of backups
  MaxCommits,  \* commits a server makes in one file
  MaxFaults,   \* kills from outside, and failing renames and checks
  None

ASSUME LatestAssumption == 
  /\ Latest \in Nat
  /\ {UserSchema} \cup BackupSchemas \subseteq 0 .. (Latest + 1)
ASSUME RunsAssumption == Runs \in Nat /\ None \notin Nat
ASSUME LimitsAssumption == {MaxCommits, MaxFaults} \subseteq Nat

VARIABLES
  lock,      \* the lock file: who created it, and the pid in it once written
  live,      \* the file at the database's path
  data,      \* what each file holds
  displaced, \* files moved aside by restores
  copies,    \* contents of safety backups and pre-upgrade snapshots
  proc,      \* the processes
  faults

Processes == 1 .. Runs
Files == 0 .. Runs

files == <<live, data, displaced, copies>>
dbVars == <<lock, files, proc, faults>>

Content == [of: Files, commits: 0 .. MaxCommits,
            version: 0 .. (Latest + 1)]
FileData == [of: Files, commits: 0 .. MaxCommits,
             flushed: 0 .. MaxCommits, version: 0 .. (Latest + 1)]
ASSUME NoneAssumption == None \notin FileData
LockFile == [by: Processes, pid: Pids \cup Processes \cup {None}]

Acquiring == {"check", "probe", "remove", "create", "write"}
Opened == {"open", "snapshot", "migrate", "serving"}
Restoring == {"save", "stage", "dropLog", "displace", "replace", "verify", "discard"}
Places == {"unborn", "dead", "refused"} \cup Acquiring \cup Opened \cup Restoring

Process == [as: {"server", "restore"}, at: Places, pid: Pids \cup Processes \cup {None},
            saw: LockFile \cup {None}, found: BOOLEAN, file: Files \cup {None}]

DbTypeOK ==
  /\ lock \in LockFile \cup {None}
  /\ live \in Files \cup {None}
  /\ data \in [Files -> FileData \cup {None}]
  /\ displaced \subseteq Files
  /\ copies \subseteq Content
  /\ proc \in [Processes -> Process]
  /\ faults \in 0 .. MaxFaults

NewFile(of, version) ==
  [of |-> of, commits |-> 0, flushed |-> 0, version |-> version]

DbInit ==
  /\ lock = None
  /\ live = 0
  /\ data = [f \in Files |-> IF f = 0 THEN NewFile(0, UserSchema) ELSE None]
  /\ displaced = {}
  /\ copies = {}
  /\ proc = [p \in Processes |-> [as |-> "server", at |-> "unborn", pid |-> None,
                                  saw |-> None, found |-> FALSE, file |-> None]]
  /\ faults = 0

-----------------------------------------------------------------------------
Alive(p) == proc[p].at \notin {"unborn", "dead", "refused"}
Running(as) == {p \in Processes : Alive(p) /\ proc[p].as = as}
Holders == {p \in Processes : proc[p].at \in Opened}
Serving == {p \in Processes : proc[p].at = "serving"}
PidsInUse == {proc[p].pid : p \in {q \in Processes : Alive(q)}}

ContentOf(f) == [of |-> data[f].of, commits |-> data[f].commits,
                 version |-> data[f].version]

At(p, as, place) == proc[p].as = as /\ proc[p].at = place
Go(p, place) == proc' = [proc EXCEPT ![p].at = place]

Launch(p, as) ==
  /\ proc[p].at = "unborn"
  /\ \A q \in 1 .. (p - 1) : proc[q].at # "unborn"
  /\ \E pid \in IF ReusePids THEN Pids \ PidsInUse ELSE {p} :
       proc' = [proc EXCEPT ![p] = [as |-> as, at |-> "check", pid |-> pid,
         saw |-> None, found |-> live # None, file |-> None]]
  /\ UNCHANGED <<lock, files, faults>>

\* The end of a process, whatever it was doing.
Kill(p) == Go(p, "dead")

Killed(p) ==
  /\ Alive(p)
  /\ faults < MaxFaults
  /\ faults' = faults + 1
  /\ Kill(p)
  /\ UNCHANGED <<lock, files>>

-----------------------------------------------------------------------------
(* Is a server running? The lock is read, its process probed with signal 0, *)
(* and a stale lock removed.                                                *)

\* Mutant: no safety backup.
Mut_AfterCheckUnsaved(p) == IF proc[p].as = "server" THEN "create" ELSE "stage"
AfterCheck(p) == IF proc[p].as = "server" THEN "create" ELSE "save"

ReadLock(p) ==
  /\ proc[p].at = "check"
  /\ proc' = [proc EXCEPT ![p].saw = lock,
                          ![p].at = IF lock = None THEN AfterCheck(p) ELSE "probe"]
  /\ UNCHANGED <<lock, files, faults>>

\* An empty lock counts as a running server.
ProbeOwner(p) ==
  /\ proc[p].at = "probe"
  /\ Go(p, IF proc[p].saw.pid \in PidsInUse \cup {None} THEN "refused" ELSE "remove")
  /\ UNCHANGED <<lock, files, faults>>

RemoveStaleLock(p) ==
  /\ proc[p].at = "remove"
  /\ lock' = None
  /\ Go(p, AfterCheck(p))
  /\ UNCHANGED <<files, faults>>

\* open(..., "wx") fails when the file exists.
CreateLock(p) ==
  /\ proc[p].at = "create"
  /\ IF lock = None
     THEN lock' = [by |-> p, pid |-> None] /\ Go(p, "write")
     ELSE Go(p, "refused") /\ UNCHANGED lock
  /\ UNCHANGED <<files, faults>>

\* The pid goes to the file this process opened, which another may have removed.
WriteLock(p) ==
  /\ proc[p].at = "write"
  /\ lock' = IF lock # None /\ lock.by = p THEN [lock EXCEPT !.pid = proc[p].pid] ELSE lock
  /\ Go(p, "open")
  /\ UNCHANGED <<files, faults>>

releaseDatabaseLock(p) ==
  lock' = IF lock # None /\ lock.pid = proc[p].pid THEN None ELSE lock

-----------------------------------------------------------------------------
(* A server opens the database, takes a snapshot of one it found with an     *)
(* older schema, and migrates it one version at a time.                      *)

\* Mutant: only an empty database is copied first (the version test inverted).
Mut_OpenDatabaseUncopied(p) ==
  /\ proc[p].at = "open"
  /\ IF live = None
     THEN live' = p /\ data' = [data EXCEPT ![p] = NewFile(p, 0)]
     ELSE UNCHANGED <<live, data>>
  /\ proc' = [proc EXCEPT
       ![p].file = live',
       ![p].at = IF proc[p].found /\ data'[live'].version = 0
                 THEN "snapshot" ELSE "migrate"]
  /\ UNCHANGED <<lock, displaced, copies, faults>>

OpenDatabase(p) ==
  /\ proc[p].at = "open"
  /\ IF live = None
     THEN live' = p /\ data' = [data EXCEPT ![p] = NewFile(p, 0)]
     ELSE UNCHANGED <<live, data>>
  /\ proc' = [proc EXCEPT
       ![p].file = live',
       ![p].at = IF proc[p].found /\ data'[live'].version < Latest
                 THEN "snapshot" ELSE "migrate"]
  /\ UNCHANGED <<lock, displaced, copies, faults>>

Snapshot(p) ==
  /\ proc[p].at = "snapshot"
  /\ copies' = copies \cup {ContentOf(proc[p].file)}
  /\ Go(p, "migrate")
  /\ UNCHANGED <<lock, live, data, displaced, faults>>

Migrate(p) ==
  LET f == proc[p].file IN
  /\ proc[p].at = "migrate"
  /\ data[f].version < Latest
  /\ data' = [data EXCEPT ![f].version = @ + 1]
  /\ UNCHANGED <<lock, live, displaced, copies, proc, faults>>

Ready(p) ==
  /\ proc[p].at = "migrate"
  /\ data[proc[p].file].version = Latest
  /\ Go(p, "serving")
  /\ UNCHANGED <<lock, files, faults>>

\* A newer schema is refused: the only path that closes and unlocks.
NewerSchema(p) ==
  /\ proc[p].at = "migrate"
  /\ data[proc[p].file].version > Latest
  /\ releaseDatabaseLock(p)
  /\ Go(p, "refused")
  /\ UNCHANGED <<files, faults>>

\* A commit is in the log first, and in the database file after a checkpoint.
Commit(p) ==
  LET f == proc[p].file IN
  /\ proc[p].at = "serving"
  /\ data[f].commits < MaxCommits
  /\ data' = [data EXCEPT ![f].commits = @ + 1]
  /\ UNCHANGED <<lock, live, displaced, copies, proc, faults>>

-----------------------------------------------------------------------------
(* The restore command: safety backup, staged copy, two renames. An input    *)
(* that is not healthy ends it before anything is changed.                   *)

\* The backup opens the database, which brings the log's commits back, and
\* closing the last connection checkpoints them.
SaveCurrent(p) ==
  /\ proc[p].at = "save"
  /\ IF live = None
     THEN UNCHANGED <<copies, data>>
     ELSE /\ copies' = copies \cup {ContentOf(live)}
          /\ data' = IF Holders = {}
                     THEN [data EXCEPT ![live].flushed = data[live].commits]
                     ELSE data
  /\ Go(p, "stage")
  /\ UNCHANGED <<lock, live, displaced, faults>>

StageCopy(p) ==
  /\ proc[p].at = "stage"
  /\ \E version \in BackupSchemas : data' = [data EXCEPT ![p] = NewFile(p, version)]
  /\ Go(p, "dropLog")
  /\ UNCHANGED <<lock, live, displaced, copies, faults>>

DropLog(p) ==
  /\ proc[p].at = "dropLog"
  /\ data' = IF live = None THEN data
             ELSE [data EXCEPT ![live].commits = data[live].flushed]
  /\ Go(p, "displace")
  /\ UNCHANGED <<lock, live, displaced, copies, faults>>

Displace(p) ==
  /\ proc[p].at = "displace"
  /\ displaced' = displaced \cup ({live} \ {None})
  /\ live' = None
  /\ proc' = [proc EXCEPT ![p].at = "replace", ![p].file = live]
  /\ UNCHANGED <<lock, data, copies, faults>>

Replace(p) ==
  /\ proc[p].at = "replace"
  /\ live' = p
  /\ Go(p, "verify")
  /\ UNCHANGED <<lock, data, displaced, copies, faults>>

Verify(p) ==
  /\ proc[p].at = "verify"
  /\ Go(p, "discard")
  /\ UNCHANGED <<lock, files, faults>>

Discard(p) ==
  /\ proc[p].at = "discard"
  /\ displaced' = displaced \ {proc[p].file}
  /\ Go(p, "dead")
  /\ UNCHANGED <<lock, live, data, copies, faults>>

\* A rename or the last check fails: the displaced file is put back only when
\* there is none in its place.
RestoreFails(p) ==
  LET f == proc[p].file IN
  /\ proc[p].at \in {"displace", "replace", "verify"}
  /\ faults < MaxFaults
  /\ faults' = faults + 1
  /\ IF live = None /\ f \in displaced
     THEN live' = f /\ displaced' = displaced \ {f}
     ELSE UNCHANGED <<live, displaced>>
  /\ Go(p, "dead")
  /\ UNCHANGED <<lock, data, copies>>

-----------------------------------------------------------------------------
ProcessStep(p) ==
  \/ ReadLock(p) \/ ProbeOwner(p) \/ RemoveStaleLock(p)
  \/ CreateLock(p) \/ WriteLock(p)
  \/ OpenDatabase(p) \/ Snapshot(p) \/ Migrate(p) \/ Ready(p) \/ NewerSchema(p)
  \/ SaveCurrent(p) \/ StageCopy(p) \/ DropLog(p)
  \/ Displace(p) \/ Replace(p) \/ Verify(p) \/ Discard(p)

\* Restores follow the runbook when the server is stopped before and started
\* after them.
StartServer(p) ==
  /\ Careful => Running("restore") = {}
  /\ Launch(p, "server")

StartRestore(p) ==
  /\ Careful => {q \in Processes : Alive(q)} = {}
  /\ Launch(p, "restore")

DbNext ==
  \E p \in Processes :
    \/ ProcessStep(p) \/ Commit(p)
    \/ StartServer(p) \/ StartRestore(p)
    \/ Killed(p) \/ RestoreFails(p)

DbSpec == DbInit /\ [][DbNext]_dbVars

-----------------------------------------------------------------------------
\* The lock's purpose: no two servers have the database open.
OneServer == Cardinality(Holders) <= 1

\* Whatever was killed and whenever, what was committed is in the database, a
\* file moved aside, or a copy.
NothingIsLost ==
  [][\A f \in Files, n \in 1 .. MaxCommits :
       LET Kept(c) == c.of = f /\ c.commits >= n IN
       (\E g \in displaced \cup ({live} \ {None}) : Kept(ContentOf(g))) =>
          \/ \E c \in copies' : Kept(c)
          \/ \E g \in displaced' \cup ({live'} \ {None}) : Kept(ContentOf(g)')]_dbVars

\* Before a database that was found is upgraded there is a copy of it with its
\* old schema and every commit.
UpgradesAreSnapshotted ==
  [][\A f \in Files :
       data[f] # None /\ data'[f] # None /\ data'[f].version > data[f].version
         => \/ f \in Processes /\ proc[f].as = "server"
            \/ \E c \in copies : /\ c.of = data[f].of
                                 /\ c.commits = data[f].commits
                                 /\ c.version <= data[f].version]_dbVars

\* "The YAWF Stream database is already open" (db.ts 152), "Stop the YAWF
\* Stream server before restoring" (recovery.ts 110): a written lock makes a
\* process give up only when another one is alive.
RefusedOnlyWhenOpen ==
  [][\A p \in Processes :
       proc[p].at = "probe" /\ proc[p].saw.pid # None /\ proc'[p].at = "refused"
         => \E q \in Processes \ {p} : Alive(q)]_dbVars
=============================================================================
