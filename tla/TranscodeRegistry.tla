------------------------- MODULE TranscodeRegistry -------------------------
(***************************************************************************)
(* The server's HLS transcode registry (server/src/transcodeSession.ts)    *)
(* and the manifest and asset handlers that drive it (server/src/app.ts).  *)
(*                                                                         *)
(* A call is one execution of the index.m3u8 handler.  It creates at most  *)
(* one job, so the temp dir mkdtemp gives it and the ffmpeg it spawns are  *)
(* both named after the call.  Node runs the code between two awaits       *)
(* without interruption: an action is the code from one await to the next. *)
(* The continuations of a settled promise (microtasks) run before the next *)
(* event: Woken holds the calls that have one, and every other action of   *)
(* the server has EventTurn as a guard.  The chain from the settlement of  *)
(* createJob through its finally() does nothing else, so it is one step.   *)
(***************************************************************************)
EXTENDS Naturals, FiniteSets

CONSTANTS
  Sessions,         \* ids of stream_sessions rows
  Calls,            \* bound: executions of the manifest handler
  Options,          \* option fingerprints (profile, offset, hdr, subtitles)
  None,             \* no job, no call, NULL
  MaxTranscodes,    \* config.maxTranscodes
  MaxCrashes,       \* bound: process crashes
  Revocable,        \* bound: sessions whose row may be revoked or expire
  DiskMayFail,      \* TRUE: mkdtemp, writeFile and rm may fail
  MayStop           \* TRUE: the app may be closed (onClose runs stop())

ASSUME SessionsAssumption == IsFiniteSet(Sessions)
ASSUME NoneAssumption == None \notin Sessions \cup Calls \cup Options
ASSUME MaxTranscodesAssumption == MaxTranscodes \in Nat
ASSUME BoundsAssumption ==
  /\ MaxCrashes \in Nat /\ Revocable \subseteq Sessions
  /\ {DiskMayFail, MayStop} \subseteq BOOLEAN

VARIABLES
  server,     \* "up", "stopping", "closed" (db closed), "down" (crashed)
  closing,    \* the dirs whose kill stop() awaits
  crashes,    \* bound: crashes so far
  phase,      \* per call: where the handler is
  session,    \* per call: the stream session it asks for
  options,    \* per call, so per job: the fingerprint
  on,         \* per call: the job or creation it awaits, then the dir it got
  outcome,    \* per call: the answer
  jobs,       \* this.jobs: session -> job
  pending,    \* this.pending: session -> creation
  idle,       \* jobs whose lastAccess is older than IDLE_MS
  removal,    \* per job: how far kill() (or the boot sweep) of its dir is
  ffmpeg,     \* per job: the child process
  dir,        \* per job: its temp dir on disk
  recorded,   \* stream_sessions.transcode_dir
  revoked     \* sessions whose row is revoked or expired

callVars == <<phase, session, options, on, outcome>>
memoryVars == <<jobs, pending, idle>>
hostVars == <<ffmpeg, dir>>
dbVars == <<recorded, revoked>>
lifeVars == <<server, closing, crashes>>
vars == <<lifeVars, callVars, memoryVars, removal, hostVars, dbVars>>

\* A creation occupies its session from admission until it settles.
CreationPhases ==
  {"refusing", "creating", "probing", "clearing", "starting", "aborting"}
Phases == CreationPhases \cup
  {"unused", "checked", "killing", "sharing", "waiting", "reading", "answered"}
\* Outcomes of a rejected creation: 503, 502, 504, and a rethrown I/O error.
Rejections == {"busy", "broken", "late", "ioError"}
Outcomes == Rejections \cup {"none", "served", "missing", "lost"}

TypeOK ==
  /\ server \in {"up", "stopping", "closed", "down"}
  /\ closing \subseteq Calls
  /\ crashes \in Nat
  /\ phase \in [Calls -> Phases]
  /\ session \in [Calls -> Sessions \cup {None}]
  /\ options \in [Calls -> Options \cup {None}]
  /\ on \in [Calls -> Calls \cup {None}]
  /\ outcome \in [Calls -> Outcomes]
  /\ jobs \in [Sessions -> Calls \cup {None}]
  /\ pending \in [Sessions -> Calls \cup {None}]
  /\ idle \subseteq Calls
  /\ removal \in [Calls -> {"none", "rm", "clear", "sweep", "done"}]
  /\ ffmpeg \in [Calls -> {"none", "running", "signalled", "finished", "failed"}]
  /\ dir \in [Calls -> {"none", "empty", "playable"}]
  /\ recorded \in [Sessions -> Calls \cup {None}]
  /\ revoked \subseteq Sessions

Init ==
  /\ server = "up" /\ closing = {} /\ crashes = 0
  /\ phase = [c \in Calls |-> "unused"]
  /\ session = [c \in Calls |-> None]
  /\ options = [c \in Calls |-> None]
  /\ on = [c \in Calls |-> None]
  /\ outcome = [c \in Calls |-> "none"]
  /\ jobs = [s \in Sessions |-> None]
  /\ pending = [s \in Sessions |-> None]
  /\ idle = {}
  /\ removal = [c \in Calls |-> "none"]
  /\ ffmpeg = [c \in Calls |-> "none"]
  /\ dir = [c \in Calls |-> "none"]
  /\ recorded = [s \in Sessions |-> None]
  /\ revoked = {}

(***************************************************************************)
(* Helpers.                                                                *)
(***************************************************************************)
JobSessions == {s \in Sessions : jobs[s] # None}
PendingSessions == {s \in Sessions : pending[s] # None}
\* A refused creation is in `pending' too until its finally() runs.
AdmittedSessions == {s \in PendingSessions : phase[pending[s]] # "refusing"}
Slots == JobSessions \cup AdmittedSessions

\* createJob's first check; a job that is still starting counts twice.
\* Mutant: only registered jobs count against the cap.
Mut_AtCapacityJobsOnly == Cardinality(JobSessions) >= MaxTranscodes
AtCapacity == Cardinality(JobSessions) + Cardinality(PendingSessions) >= MaxTranscodes

\* The promise of creation k has settled: its finally() left `pending'.
Settled(c, k) == pending[session[c]] # k

\* The calls whose awaited promise has settled; with none, the event loop may
\* take the next event.
Woken ==
  {c \in Calls : \/ phase[c] = "refusing"
                 \/ /\ phase[c] \in {"killing", "aborting"}
                   /\ removal[on[c]] = "done"
                \/ /\ phase[c] \in {"sharing", "waiting"}
                   /\ Settled(c, on[c])}
EventTurn == Woken = {}

\* The synchronous prefix of kill() for the jobs of the sessions in S:
\* jobs.delete, SIGTERM (SIGKILL follows), rm begins.
Kill(S) ==
  LET victims == {jobs[s] : s \in S} IN
  /\ jobs' = [s \in Sessions |-> IF s \in S THEN None ELSE jobs[s]]
  /\ ffmpeg' = [c \in Calls |-> IF c \in victims /\ ffmpeg[c] = "running"
                                THEN "signalled" ELSE ffmpeg[c]]
  /\ removal' = [c \in Calls |-> IF c \in victims THEN "rm" ELSE removal[c]]
  /\ idle' = idle \ victims

GoTo(c, p) == phase' = [phase EXCEPT ![c] = p]
Answer(c, o) == GoTo(c, "answered") /\ outcome' = [outcome EXCEPT ![c] = o]
\* createJob(...).finally(() => this.pending.delete(sessionId))
Settle(c) == pending' = [pending EXCEPT ![session[c]] = None]

(***************************************************************************)
(* The manifest handler up to ensureJob: loadTranscodeSession, then        *)
(* `await assertSafeUpstream'.                                             *)
(***************************************************************************)
Begin(c, s, o) ==
  /\ EventTurn /\ server = "up" /\ phase[c] = "unused" /\ s \notin revoked
  /\ GoTo(c, "checked")
  /\ session' = [session EXCEPT ![c] = s]
  /\ options' = [options EXCEPT ![c] = o]
  /\ UNCHANGED <<lifeVars, on, outcome, memoryVars, removal, hostVars, dbVars>>

(***************************************************************************)
(* ensureJob.  AtEntry: its first line, on the first call or on the        *)
(* recursive one.  AtLookup: the test of `pending', reached directly when  *)
(* there is no job and after `await this.kill' otherwise.                  *)
(***************************************************************************)
AtEntry(c) ==
  \/ phase[c] = "checked" /\ EventTurn
  \/ phase[c] = "waiting" /\ Settled(c, on[c])

AtLookup(c) ==
  \/ AtEntry(c) /\ jobs[session[c]] = None
  \/ phase[c] = "killing" /\ removal[on[c]] = "done"

ReuseJob(c) ==
  LET job == jobs[session[c]] IN
  /\ AtEntry(c) /\ job # None /\ options[job] = options[c]
  /\ idle' = idle \ {job}
  /\ on' = [on EXCEPT ![c] = job]
  /\ GoTo(c, "reading")
  /\ UNCHANGED <<lifeVars, session, options, outcome, jobs, pending, removal,
                 hostVars, dbVars>>

ReplaceJob(c) ==
  LET job == jobs[session[c]] IN
  /\ AtEntry(c) /\ job # None /\ options[job] # options[c]
  /\ Kill({session[c]})
  /\ on' = [on EXCEPT ![c] = job]
  /\ GoTo(c, "killing")
  /\ UNCHANGED <<lifeVars, session, options, outcome, pending, dir, dbVars>>

\* Mutant: the creation in flight is shared whatever its options.
Mut_JoinAnyCreation(c) ==
  LET k == pending[session[c]] IN
  /\ AtLookup(c) /\ k # None
  /\ GoTo(c, "sharing")
  /\ on' = [on EXCEPT ![c] = k]
  /\ UNCHANGED <<lifeVars, session, options, outcome, memoryVars, removal,
                 hostVars, dbVars>>

\* Mutant: the session id is awaited in place of its creation.
Mut_JoinSession(c) ==
  LET k == pending[session[c]] IN
  /\ AtLookup(c) /\ k # None
  /\ GoTo(c, IF options[k] = options[c] THEN "sharing" ELSE "waiting")
  /\ on' = [on EXCEPT ![c] = session[c]]
  /\ UNCHANGED <<lifeVars, session, options, outcome, memoryVars, removal,
                 hostVars, dbVars>>

\* A creation for the session is in flight: share it, or let it settle.
JoinCreation(c) ==
  LET k == pending[session[c]] IN
  /\ AtLookup(c) /\ k # None
  /\ GoTo(c, IF options[k] = options[c] THEN "sharing" ELSE "waiting")
  /\ on' = [on EXCEPT ![c] = k]
  /\ UNCHANGED <<lifeVars, session, options, outcome, memoryVars, removal,
                 hostVars, dbVars>>

\* createJob throws at once, yet its promise enters `pending' until the
\* microtask of its finally(): a call woken before that still meets it.
RefuseBusy(c) ==
  /\ AtLookup(c) /\ pending[session[c]] = None /\ AtCapacity
  /\ pending' = [pending EXCEPT ![session[c]] = c]
  /\ GoTo(c, "refusing")
  /\ UNCHANGED <<lifeVars, session, options, on, outcome, jobs, idle, removal,
                 hostVars, dbVars>>

FinishRefusal(c) ==
  /\ phase[c] = "refusing"
  /\ Answer(c, "busy") /\ Settle(c)
  /\ UNCHANGED <<lifeVars, session, options, on, jobs, idle, removal, hostVars,
                 dbVars>>

AdmitCreation(c) ==
  /\ AtLookup(c) /\ pending[session[c]] = None /\ ~AtCapacity
  /\ pending' = [pending EXCEPT ![session[c]] = c]
  /\ GoTo(c, "creating")
  /\ UNCHANGED <<lifeVars, session, options, on, outcome, jobs, idle, removal,
                 hostVars, dbVars>>

(***************************************************************************)
(* createJob after its admission check.                                    *)
(***************************************************************************)
\* Mutant: the creation leaves `pending' once its dir is made.
Mut_MakeDirSettles(c) ==
  /\ EventTurn /\ phase[c] = "creating"
  /\ dir' = [dir EXCEPT ![c] = "empty"]
  /\ GoTo(c, "probing") /\ Settle(c)
  /\ UNCHANGED <<lifeVars, session, options, on, outcome, jobs, idle, removal,
                 ffmpeg, dbVars>>

MakeDir(c) ==
  /\ EventTurn /\ phase[c] = "creating"
  /\ dir' = [dir EXCEPT ![c] = "empty"]
  /\ GoTo(c, "probing")
  /\ UNCHANGED <<lifeVars, session, options, on, outcome, memoryVars, removal,
                 ffmpeg, dbVars>>

\* Mutant: an I/O error leaves the creation in `pending'.
Mut_DiskErrorStaysPending(c) ==
  /\ EventTurn /\ DiskMayFail /\ phase[c] \in {"creating", "probing"}
  /\ Answer(c, "ioError")
  /\ UNCHANGED <<lifeVars, session, options, on, memoryVars, removal, hostVars,
                 dbVars>>

\* mkdir or mkdtemp rejects, or writing the subtitle placeholder does: the
\* creation rejects and a dir that was made stays.
DiskError(c) ==
  /\ EventTurn /\ DiskMayFail /\ phase[c] \in {"creating", "probing"}
  /\ Answer(c, "ioError") /\ Settle(c)
  /\ UNCHANGED <<lifeVars, session, options, on, jobs, idle, removal, hostVars,
                 dbVars>>

\* spawnHls throws synchronously: `await rm(dir)', then rethrow.
SpawnThrows(c) ==
  /\ EventTurn /\ phase[c] = "probing"
  /\ GoTo(c, "clearing")
  /\ UNCHANGED <<lifeVars, session, options, on, outcome, memoryVars, removal,
                 hostVars, dbVars>>

ClearUnspawned(c) ==
  /\ EventTurn /\ phase[c] = "clearing"
  /\ \/ dir' = [dir EXCEPT ![c] = "none"]
     \/ DiskMayFail /\ UNCHANGED dir
  /\ Answer(c, "ioError") /\ Settle(c)
  /\ UNCHANGED <<lifeVars, session, options, on, jobs, idle, removal, ffmpeg,
                 dbVars>>

\* Mutant: the creation leaves `pending' once its job is registered.
Mut_RegisterSettles(c) ==
  /\ EventTurn /\ phase[c] = "probing" /\ server # "closed"
  /\ ffmpeg' = [ffmpeg EXCEPT ![c] = "running"]
  /\ jobs' = [jobs EXCEPT ![session[c]] = c]
  /\ recorded' = [recorded EXCEPT ![session[c]] = c]
  /\ GoTo(c, "starting") /\ Settle(c)
  /\ UNCHANGED <<lifeVars, session, options, on, outcome, idle, removal, dir,
                 revoked>>

\* spawnHls returned: jobs.set and the UPDATE of transcode_dir.  A job that a
\* later call registered while this one awaited its kill() is overwritten.
Register(c) ==
  /\ EventTurn /\ phase[c] = "probing" /\ server # "closed"
  /\ ffmpeg' = [ffmpeg EXCEPT ![c] = "running"]
  /\ jobs' = [jobs EXCEPT ![session[c]] = c]
  /\ recorded' = [recorded EXCEPT ![session[c]] = c]
  /\ GoTo(c, "starting")
  /\ UNCHANGED <<lifeVars, session, options, on, outcome, pending, idle, removal,
                 dir, revoked>>

\* The same after db.close(): the UPDATE throws behind jobs.set.
RegisterClosed(c) ==
  /\ EventTurn /\ phase[c] = "probing" /\ server = "closed"
  /\ ffmpeg' = [ffmpeg EXCEPT ![c] = "running"]
  /\ jobs' = [jobs EXCEPT ![session[c]] = c]
  /\ Answer(c, "ioError") /\ Settle(c)
  /\ UNCHANGED <<lifeVars, session, options, on, idle, removal, dir, dbVars>>

\* The polling loop: files present, child failed, or deadline passed.
StartReady(c) ==
  /\ EventTurn /\ phase[c] = "starting" /\ dir[c] = "playable"
  /\ on' = [on EXCEPT ![c] = c]
  /\ GoTo(c, "reading") /\ Settle(c)
  /\ UNCHANGED <<lifeVars, session, options, outcome, jobs, idle, removal,
                 hostVars, dbVars>>

\* await this.kill(sessionId), which returns at once when no job is there.
Abort(c, o) ==
  LET victim == jobs[session[c]] IN
  /\ outcome' = [outcome EXCEPT ![c] = o]
  /\ IF victim = None
     THEN /\ GoTo(c, "answered") /\ Settle(c)
          /\ UNCHANGED <<jobs, idle, removal, ffmpeg, on>>
     ELSE /\ GoTo(c, "aborting")
          /\ on' = [on EXCEPT ![c] = victim]
          /\ Kill({session[c]}) /\ UNCHANGED pending
  /\ UNCHANGED <<lifeVars, session, options, dir, dbVars>>

StartBroken(c) ==
  /\ EventTurn /\ phase[c] = "starting"
  /\ dir[c] # "playable" /\ ffmpeg[c] = "failed"
  /\ Abort(c, "broken")

\* Mutant: the polling loop has no deadline of its own.
Mut_StartNeverLate(c) ==
  EventTurn /\ phase[c] = "starting" /\ ffmpeg[c] = "failed" /\ Abort(c, "late")
StartLate(c) == EventTurn /\ phase[c] = "starting" /\ Abort(c, "late")

FinishAbort(c) ==
  /\ phase[c] = "aborting" /\ removal[on[c]] = "done"
  /\ GoTo(c, "answered") /\ Settle(c)
  /\ UNCHANGED <<lifeVars, session, options, on, outcome, jobs, idle, removal,
                 hostVars, dbVars>>

(***************************************************************************)
(* Back in ensureJob's callers.                                            *)
(***************************************************************************)
TakeShared(c) ==
  /\ phase[c] = "sharing" /\ Settled(c, on[c])
  /\ IF outcome[on[c]] \in Rejections
     THEN Answer(c, outcome[on[c]])
     ELSE GoTo(c, "reading") /\ UNCHANGED outcome
  /\ UNCHANGED <<lifeVars, session, options, on, memoryVars, removal, hostVars,
                 dbVars>>

\* readFile(join(dir, MANIFEST_NAME)): 200, or ENOENT and so 500.
ReadManifest(c) ==
  /\ EventTurn /\ phase[c] = "reading"
  /\ Answer(c, IF dir[on[c]] = "playable" THEN "served" ELSE "missing")
  /\ UNCHANGED <<lifeVars, session, options, on, memoryVars, removal, hostVars,
                 dbVars>>

\* The asset route: dirFor() touches lastAccess.
AssetRequest(s) ==
  /\ EventTurn /\ server = "up" /\ s \notin revoked /\ jobs[s] \in idle
  /\ idle' = idle \ {jobs[s]}
  /\ UNCHANGED <<lifeVars, callVars, jobs, pending, removal, hostVars, dbVars>>

(***************************************************************************)
(* Time, the reaper, and the rest of kill().                               *)
(***************************************************************************)
Revoke(s) ==
  /\ EventTurn /\ server = "up" /\ s \in Revocable \ revoked
  /\ revoked' = revoked \cup {s}
  /\ UNCHANGED <<lifeVars, callVars, memoryVars, removal, hostVars, recorded>>

GrowIdle(s) ==
  /\ jobs[s] # None /\ jobs[s] \notin idle
  /\ idle' = idle \cup {jobs[s]}
  /\ UNCHANGED <<lifeVars, callVars, jobs, pending, removal, hostVars, dbVars>>

\* Mutant: the reaper looks at idleness alone.
Mut_DeadSessionsIdleOnly == {s \in JobSessions : jobs[s] \in idle}
DeadSessions == {s \in JobSessions : s \in revoked \/ jobs[s] \in idle}

Reap ==
  /\ EventTurn /\ server = "up" /\ DeadSessions # {}
  /\ Kill(DeadSessions)
  /\ UNCHANGED <<lifeVars, callVars, pending, dir, dbVars>>

\* kill()'s rm; its rejection, possible while ffmpeg still writes, is swallowed.
RemoveDir(c) ==
  /\ EventTurn /\ removal[c] = "rm"
  /\ removal' = [removal EXCEPT ![c] = "clear"]
  /\ \/ dir' = [dir EXCEPT ![c] = "none"]
     \/ DiskMayFail /\ ffmpeg[c] = "signalled" /\ UNCHANGED dir
  /\ UNCHANGED <<lifeVars, callVars, memoryVars, ffmpeg, dbVars>>

\* kill()'s UPDATE transcode_dir = NULL, a swallowed error once db is closed.
ClearRecorded(c) ==
  /\ EventTurn /\ removal[c] = "clear"
  /\ removal' = [removal EXCEPT ![c] = "done"]
  /\ recorded' = IF server = "closed" THEN recorded
                 ELSE [recorded EXCEPT ![session[c]] = None]
  /\ UNCHANGED <<lifeVars, callVars, memoryVars, hostVars, revoked>>

(***************************************************************************)
(* Shutdown, crash and boot.                                               *)
(***************************************************************************)
Stop ==
  /\ EventTurn /\ MayStop /\ server = "up"
  /\ server' = "stopping"
  /\ closing' = {jobs[s] : s \in JobSessions}
  /\ Kill(JobSessions)
  /\ UNCHANGED <<crashes, callVars, pending, dir, dbVars>>

CloseDb ==
  /\ EventTurn /\ server = "stopping" /\ \A c \in closing : removal[c] = "done"
  /\ server' = "closed"
  /\ UNCHANGED <<closing, crashes, callVars, memoryVars, removal, hostVars, dbVars>>

\* The process dies: memory and every handler with it; children keep running.
Crash ==
  /\ server # "down" /\ crashes < MaxCrashes
  /\ crashes' = crashes + 1
  /\ server' = "down" /\ closing' = {}
  /\ phase' = [c \in Calls |-> IF phase[c] = "unused" THEN "unused" ELSE "answered"]
  /\ outcome' = [c \in Calls |-> IF phase[c] \in {"unused", "answered"}
                                 THEN outcome[c] ELSE "lost"]
  /\ jobs' = [s \in Sessions |-> None]
  /\ pending' = [s \in Sessions |-> None]
  /\ idle' = {}
  /\ removal' = [c \in Calls |-> IF removal[c] = "none" THEN "none" ELSE "done"]
  /\ UNCHANGED <<session, options, on, hostVars, dbVars>>

\* start(): rm every recorded dir in the background, forget all of them.
Boot ==
  /\ server = "down" /\ server' = "up"
  /\ removal' = [c \in Calls |-> IF \E s \in Sessions : recorded[s] = c
                                 THEN "sweep" ELSE removal[c]]
  /\ recorded' = [s \in Sessions |-> None]
  /\ UNCHANGED <<closing, crashes, callVars, memoryVars, hostVars, revoked>>

SweepDir(c) ==
  /\ EventTurn /\ removal[c] = "sweep"
  /\ removal' = [removal EXCEPT ![c] = "done"]
  /\ \/ dir' = [dir EXCEPT ![c] = "none"]
     \/ DiskMayFail /\ ffmpeg[c] = "running" /\ UNCHANGED dir
  /\ UNCHANGED <<lifeVars, callVars, memoryVars, ffmpeg, dbVars>>

(***************************************************************************)
(* The ffmpeg child (external): writes its files, ends, or dies of the     *)
(* signal (exit code null, which sets job.failed as a non-zero code does). *)
(***************************************************************************)
Produce(c) ==
  /\ ffmpeg[c] = "running" /\ dir[c] = "empty"
  /\ dir' = [dir EXCEPT ![c] = "playable"]
  /\ UNCHANGED <<lifeVars, callVars, memoryVars, removal, ffmpeg, dbVars>>

Exit(c) ==
  /\ ffmpeg[c] = "running"
  /\ \E e \in {"finished", "failed"} : ffmpeg' = [ffmpeg EXCEPT ![c] = e]
  /\ UNCHANGED <<lifeVars, callVars, memoryVars, removal, dir, dbVars>>

DieOfSignal(c) ==
  /\ ffmpeg[c] = "signalled"
  /\ ffmpeg' = [ffmpeg EXCEPT ![c] = "failed"]
  /\ UNCHANGED <<lifeVars, callVars, memoryVars, removal, dir, dbVars>>

(***************************************************************************)
(* The specification.                                                      *)
(***************************************************************************)
EnsureStep(c) == ReuseJob(c) \/ ReplaceJob(c) \/ JoinCreation(c)
                 \/ RefuseBusy(c) \/ FinishRefusal(c) \/ AdmitCreation(c)
CreateStep(c) == MakeDir(c) \/ DiskError(c) \/ SpawnThrows(c) \/ ClearUnspawned(c)
                 \/ Register(c) \/ RegisterClosed(c) \/ StartReady(c)
                 \/ StartBroken(c) \/ StartLate(c) \/ FinishAbort(c)
HandlerStep(c) == EnsureStep(c) \/ CreateStep(c) \/ TakeShared(c) \/ ReadManifest(c)
KillStep(c) == RemoveDir(c) \/ ClearRecorded(c) \/ SweepDir(c)
ProcessStep(c) == Produce(c) \/ Exit(c) \/ DieOfSignal(c)

\* Every call begun is answered, every kill is done, every child has ended.
Finished ==
  /\ \A c \in Calls : /\ phase[c] \in {"unused", "answered"}
                      /\ removal[c] \notin {"rm", "clear", "sweep"}
                      /\ ffmpeg[c] \notin {"running", "signalled"}
  /\ UNCHANGED vars

Next ==
  \/ \E c \in Calls, s \in Sessions, o \in Options : Begin(c, s, o)
  \/ \E c \in Calls : HandlerStep(c) \/ KillStep(c) \/ ProcessStep(c)
  \/ \E s \in Sessions : AssetRequest(s) \/ Revoke(s) \/ GrowIdle(s)
  \/ Reap \/ Stop \/ CloseDb \/ Crash \/ Boot
  \/ Finished

Spec == Init /\ [][Next]_vars

\* Node runs every ready continuation and timer; the reaper's interval fires
\* for as long as it is armed; a signalled child dies (SIGKILL after 3 s).
Fairness ==
  /\ \A c \in Calls : /\ WF_vars(HandlerStep(c))
                      /\ WF_vars(KillStep(c))
                      /\ WF_vars(DieOfSignal(c))
  /\ WF_vars(Reap)
  /\ WF_vars(CloseDb)

FairSpec == Spec /\ Fairness

(***************************************************************************)
(* Properties.                                                             *)
(***************************************************************************)

\* The admission check of createJob bounds the sessions that have a job or a
\* creation in flight by the operator's cap, whatever fails or overlaps.
CapRespected == Cardinality(Slots) <= MaxTranscodes

\* Concurrent ensureJob calls for one session share one creation: a call is
\* inside createJob exactly when it is the session's entry in `pending'.
CreationsExclusive ==
  \A c \in Calls, s \in Sessions :
    (phase[c] \in CreationPhases /\ session[c] = s) <=> pending[s] = c

\* While a creation polls for its first segment the session's job is its own
\* or already killed: its failure path, which kills by session id, can never
\* hit the job of somebody else.
StartingOwnsJob ==
  \A c \in Calls : phase[c] = "starting" => jobs[session[c]] \in {c, None}

\* "never return a manifest for the wrong playback timeline": the dir a call
\* gets was made for its session with exactly its options.
RightTimeline ==
  \A c \in Calls : (phase[c] = "reading" \/ outcome[c] \in {"served", "missing"}) =>
    session[on[c]] = session[c] /\ options[on[c]] = options[c]

\* A job whose child was started, that no kill has met, and that the registry
\* has forgotten: another job was registered over it.
Overwritten(c) ==
  /\ ffmpeg[c] # "none" /\ removal[c] = "none"
  /\ \A s \in Sessions : jobs[s] # c

\* "so there are no zombie ffmpegs": a child that runs and was not signalled is
\* the child of a registered job, so the reaper or stop() will end it.
EveryFfmpegIsOwned ==
  \A c \in Calls : ffmpeg[c] = "running" => \E s \in Sessions : jobs[s] = c

\* A call waits for the kill of the job it replaces while another call's
\* creation for the session is admitted, registered and settled.
NoneOvertaken ==
  \A c \in Calls : phase[c] = "killing" =>
    jobs[session[c]] = None \/ pending[session[c]] # None

\* Every call is answered: no combination of shared, replaced and aborted
\* creations leaves a handler waiting for ever.
EveryCallAnswered ==
  \A c \in Calls : phase[c] = "checked" ~> phase[c] = "answered"

\* After a session is revoked, calls already past their row check may still
\* start ffmpeg for it, but unless the app is closed none runs in the end and
\* no dir is left, an overwritten job aside.
RevokedSessionQuiesces ==
  \A s \in Sessions : s \in revoked ~>
    \/ server # "up"
    \/ [](\A c \in Calls : session[c] = s =>
            (ffmpeg[c] # "running" /\ dir[c] = "none") \/ Overwritten(c))

\* The registry implements an admission pool of MaxTranscodes slots: a slot is
\* taken only by an admission, and goes live only after one.
PoolSlot == [s \in Sessions |-> IF s \in AdmittedSessions THEN "starting"
                               ELSE IF jobs[s] # None THEN "live" ELSE "free"]
Pool == INSTANCE SlotPool WITH Size <- MaxTranscodes, slot <- PoolSlot
ImplementsPool == Pool!Spec

(***************************************************************************)
(* Statements that the code does not keep; README section 4 says how each  *)
(* one fails.  No run checks them.                                         *)
(***************************************************************************)

\* "or orphaned dirs" (lines 5-7): a temp dir belongs to a registered job, to
\* a creation before its registration, or to a kill whose rm is under way.
EveryDirIsOwned ==
  \A c \in Calls : dir[c] # "none" =>
    \/ \E s \in Sessions : jobs[s] = c
    \/ phase[c] \in {"probing", "clearing"}
    \/ removal[c] = "rm"

\* "a boot sweep cleans crash leftovers": the sweep knows only the dirs on
\* session rows, so a registered job's dir would have to be on its row.
JobDirRecorded ==
  server # "closed" => \A s \in Sessions : jobs[s] # None => recorded[s] = jobs[s]

\* "return its output dir once the manifest + first segment are available"
\* (lines 338-339): a call that reads its dir finds the manifest there.
ReturnedDirIsReady ==
  \A c \in Calls : phase[c] = "reading" => dir[on[c]] = "playable"

\* "Maximum simultaneous FFmpeg HLS jobs" (docs/self-hosting.md:145): a call is
\* refused as busy only when so many slots are held.
BusyOnlyWhenFull ==
  [][\A c \in Calls : phase'[c] = "refusing" /\ phase[c] # "refusing"
        => Cardinality(Slots) = MaxTranscodes]_vars
=============================================================================
