---------------------------- MODULE DownloadQueue ----------------------------
(***************************************************************************)
(* The download queue of the desktop application: the scheduler of         *)
(* web/src/services/downloads/DownloadManager.ts over the durable rows of  *)
(* IndexedDB and the native executor.                                      *)
(*                                                                         *)
(* The web view runs the code between two awaits without interruption.  A  *)
(* row write is an operation in the job's update queue (updateRecord): it  *)
(* changes the cache when it starts, the row when it is done, and its      *)
(* caller goes on from there.  A call that begins by listing the rows is   *)
(* modelled from the answer of that list on: nothing it does earlier can   *)
(* be observed.  A click the row's status does not allow is left out: it   *)
(* refreshes the cache, as Sync does.  A manager without a debrid service  *)
(* fails every launch the way a resolver error does.  Removing a finished  *)
(* row (deleteCompletedFile, clearSelected) is not modelled.               *)
(***************************************************************************)
EXTENDS NativeDownloads, FiniteSets

CONSTANTS
  Optimized,      \* jobs of mode "optimized"; the others are "full"
  Sized,          \* jobs whose free space is checked (a film of known size)
  Concurrency,    \* this.concurrency
  MaxRetries,     \* MAX_AUTOMATIC_RETRIES
  Clicks,         \* the operations the user performs
  MaxClicks,      \* bound: how many of them
  MaxUpdates,     \* bound: updates that wait when progress is saved
  MaxRestarts     \* bound: restarts of the application

ASSUME JobsAssumption == IsFiniteSet(Jobs) /\ Optimized \subseteq Jobs /\ Sized \subseteq Jobs
ASSUME LimitsAssumption ==
  /\ Concurrency \in 1..3 /\ MaxRetries \in Nat
  /\ MaxEvents \in Nat /\ MaxClicks \in Nat /\ MaxUpdates \in Nat /\ MaxRestarts \in Nat
  /\ DiskMayFail \in BOOLEAN

VARIABLES
  row,        \* durable status of a job, "none" before it is enqueued
  dest,       \* durable destPath
  changed,    \* the live query has rows to deliver
  cache,      \* recordsByJobId: status of the cached record
  pumping,    \* pump() awaits its list of rows
  launch,     \* per job: where its entry of `launches' is in resolveAndStart
  aborted,    \* jobs whose entry's controller is aborted
  claim,      \* nativeJobs
  pausing,    \* jobs in `pausing'
  unsaved,    \* pendingProgress, with its timer
  updates,    \* recordUpdateTails: operations not yet done
  writing,    \* jobs whose first such operation has started
  attempts,   \* automaticRetryAttempts
  timer,      \* jobs with an automaticRetryTimer
  ffmpeg,     \* ffmpegAvailability
  optimizing, \* per job: startOptimization calls that await something
  waiting,    \* per job: control calls that await an answer
  clicks,     \* bound: user operations so far
  restarts    \* bound: restarts so far

rowVars == <<row, dest, changed>>
launchVars == <<launch, aborted>>
updateVars == <<updates, writing>>
retryVars == <<attempts, timer>>
callVars == <<pausing, waiting, clicks>>
optVars == <<ffmpeg, optimizing>>
vars == <<rowVars, cache, pumping, launchVars, claim, unsaved, updateVars, retryVars,
          optVars, callVars, restarts, nativeVars>>

Active == {"resolving", "downloading", "optimizing"}
Resting == {"paused", "canceled", "completed", "failed"}
Statuses == Active \cup Resting \cup {"queued"}
Dests == Paths \cup {"none"}

\* What follows an update: the code behind its await.
Continuations == {"marked", "claimed", "optimize", "pump", "completed", "failed",
                  "transient", "launchFailed", "launchTransient", "launchNoted",
                  "paused", "stopped", "nothing"}
Updates == [to : Statuses, allowed : SUBSET Statuses, dest : Dests \cup {"keep"},
            then : Continuations]
LaunchPhases == {"none", "marking", "resolving", "locating", "measuring", "claiming",
                 "starting", "refused", "discarding", "failing"}
Calls == [at : {"pause", "resume", "stop", "sweep", "retry"}, ok : BOOLEAN, dest : Dests]
Senders == [at : {"pause", "stop", "launch"}, ok : BOOLEAN, dest : Dests]
Removals == [paths : Seq(Paths), sender : Senders]

TypeOK ==
  /\ NativeTypeOK
  /\ removals \in [Jobs -> SUBSET Removals]
  /\ row \in [Jobs -> Statuses \cup {"none"}]
  /\ dest \in [Jobs -> Dests]
  /\ changed \in BOOLEAN /\ pumping \in BOOLEAN
  /\ cache \in [Jobs -> Statuses \cup {"none"}]
  /\ launch \in [Jobs -> LaunchPhases]
  /\ aborted \subseteq Jobs
  /\ claim \in [Jobs -> {"none", "download", "transcode"}]
  /\ pausing \subseteq Jobs
  /\ unsaved \in [Jobs -> {"none", "downloading", "optimizing"}]
  /\ updates \in [Jobs -> Seq(Updates)]
  /\ writing \subseteq Jobs
  /\ attempts \in [Jobs -> 0..MaxRetries]
  /\ timer \subseteq Jobs
  /\ ffmpeg \in {"unknown", "present", "absent"}
  /\ optimizing \in [Jobs -> SUBSET {"downloading", "paused", "refused"}]
  /\ waiting \in [Jobs -> SUBSET Calls]
  /\ clicks \in 0..MaxClicks /\ restarts \in 0..MaxRestarts

Init ==
  /\ NativeInit
  /\ row = [j \in Jobs |-> "none"] /\ dest = [j \in Jobs |-> "none"]
  /\ changed = FALSE /\ pumping = FALSE
  /\ cache = [j \in Jobs |-> "none"]
  /\ launch = [j \in Jobs |-> "none"] /\ aborted = {}
  /\ claim = [j \in Jobs |-> "none"]
  /\ pausing = {} /\ unsaved = [j \in Jobs |-> "none"]
  /\ updates = [j \in Jobs |-> <<>>] /\ writing = {}
  /\ attempts = [j \in Jobs |-> 0] /\ timer = {}
  /\ ffmpeg = "unknown" /\ optimizing = [j \in Jobs |-> {}]
  /\ waiting = [j \in Jobs |-> {}]
  /\ clicks = 0 /\ restarts = 0

(***************************************************************************)
(* Helpers.                                                                *)
(***************************************************************************)
\* Code that runs before the web view takes its next event: an update whose
\* turn has come, and an optimization whose ffmpeg answer is known.
Probing(j) == optimizing[j] \cap {"downloading", "paused"}
JsTurn == \A j \in Jobs : /\ updates[j] = <<>> \/ j \in writing
                          /\ ffmpeg = "unknown" \/ Probing(j) = {}

Change(to, allowed, d, then) == [to |-> to, allowed |-> allowed, dest |-> d, then |-> then]
\* An update with no allowedStatuses.
Set(to, d, then) == Change(to, Statuses, d, then)
Update(j, u) == updates' = [updates EXCEPT ![j] = Append(@, u)]
Pump == pumping' = TRUE
ClearRetry(j) ==
  attempts' = [attempts EXCEPT ![j] = 0] /\ timer' = timer \ {j}
Forget(f, j) == [f EXCEPT ![j] = "none"]
At(j, phase) == launch' = [launch EXCEPT ![j] = phase]
Await(j, call) == waiting' = [waiting EXCEPT ![j] = @ \cup {call}]
Answered(j, call) == waiting' = [waiting EXCEPT ![j] = @ \ {call}]
Call(at, ok, d) == [at |-> at, ok |-> ok, dest |-> d]
\* A discarding command: it answers at once, or when its removal has ended.
Discarding(j, call) == IF native[j] = "none" THEN Await(j, call) ELSE UNCHANGED waiting

\* Mutant: the entry stays when resolveAndStart returns.
Mut_EndLaunchKeepsEntry(j) ==
  UNCHANGED launch /\ aborted' = aborted \ {j} /\ Pump

\* resolveAndStart returns: its finally removes the entry and pumps.
EndLaunch(j) ==
  At(j, "none") /\ aborted' = aborted \ {j} /\ Pump
\* abort() ends a launch that waits for the resolver at once, and any other at
\* its next check.
AbortLaunch(j) ==
  IF launch[j] = "resolving" THEN EndLaunch(j)
  ELSE /\ aborted' = IF launch[j] = "none" THEN aborted ELSE aborted \cup {j}
       /\ UNCHANGED <<launch, pumping>>

\* fail(): the native job is forgotten and the row failed.
Fail(j, then) ==
  /\ claim' = Forget(claim, j) /\ unsaved' = Forget(unsaved, j)
  /\ Update(j, Set("failed", "keep", then))

(***************************************************************************)
(* The queue.                                                              *)
(***************************************************************************)
Enqueue(j) ==
  /\ JsTurn /\ row[j] = "none"
  /\ row' = [row EXCEPT ![j] = "queued"] /\ changed' = TRUE /\ Pump
  /\ UNCHANGED <<dest, cache, launchVars, claim, unsaved, updateVars, retryVars,
                 optVars, callVars, restarts, nativeVars>>

Busy == {j \in Jobs : row[j] \in Active \/ launch[j] # "none"}
Startable == {j \in Jobs : row[j] = "queued" /\ launch[j] = "none"}
\* Mutant: launches whose row is still queued are not counted.
Mut_AdmissibleByRows(L) ==
  LET active == {j \in Jobs : row[j] \in Active}
  IN /\ L \subseteq Startable
     /\ L # {} => Cardinality(L \cup active) <= Concurrency
     /\ L # Startable => Cardinality(L \cup active) >= Concurrency

\* As many queued rows as there are free slots, in any order, are launched.
Admissible(L) ==
  /\ L \subseteq Startable
  /\ L # {} => Cardinality(L \cup Busy) <= Concurrency
  /\ L # Startable => Cardinality(L \cup Busy) >= Concurrency

PumpRun ==
  /\ JsTurn /\ pumping /\ pumping' = FALSE
  /\ \E L \in SUBSET Jobs :
       /\ Admissible(L)
       /\ launch' = [j \in Jobs |-> IF j \in L THEN "marking" ELSE launch[j]]
       /\ updates' = [j \in Jobs |-> IF j \in L
                        THEN Append(updates[j], Set("resolving", "keep", "marked"))
                        ELSE updates[j]]
  /\ UNCHANGED <<rowVars, cache, aborted, claim, unsaved, writing, retryVars, optVars,
                 callVars, restarts, nativeVars>>

\* The live query delivers every row.
Sync ==
  /\ JsTurn /\ changed /\ changed' = FALSE
  /\ cache' = row
  /\ pumping' = (pumping \/ cache # row)
  /\ UNCHANGED <<row, dest, launchVars, claim, unsaved, updateVars, retryVars, optVars,
                 callVars, restarts, nativeVars>>

(***************************************************************************)
(* updateRecord.                                                           *)
(***************************************************************************)
Next1(j) == Head(updates[j])
Due(j) == updates[j] # <<>> /\ j \notin writing
Permitted(j) == cache[j] \in Next1(j).allowed \/ Next1(j).allowed = Statuses

StartUpdate(j) ==
  /\ Due(j) /\ Permitted(j)
  /\ cache' = [cache EXCEPT ![j] = IF @ = "none" THEN @ ELSE Next1(j).to]
  /\ writing' = writing \cup {j}
  /\ UNCHANGED <<rowVars, pumping, launchVars, claim, unsaved, updates, retryVars,
                 optVars, callVars, restarts, nativeVars>>

Pop(j) == updates' = [updates EXCEPT ![j] = Tail(@)]

\* startOptimization after its update: transcode_start.
StartTranscode(j, p) ==
  /\ claim' = [claim EXCEPT ![j] = "transcode"]
  /\ Start(j, "transcode", p)
  /\ optimizing' = [optimizing EXCEPT ![j] = IF StartRefused(j) THEN @ \cup {"refused"} ELSE @]
  /\ UNCHANGED ffmpeg

\* An update that is not permitted returns the cached record; startOptimization
\* goes on if that one is optimizing.
SkipUpdate(j) ==
  /\ Due(j) /\ ~Permitted(j) /\ Pop(j)
  /\ IF Next1(j).then = "optimize" /\ cache[j] = "optimizing"
     THEN StartTranscode(j, Next1(j).dest)
     ELSE UNCHANGED <<claim, optVars, nativeVars>>
  /\ IF Next1(j).then = "launchNoted" THEN EndLaunch(j) ELSE UNCHANGED launchVars
  /\ pumping' = (pumping \/ Next1(j).then \in {"pump", "launchNoted"})
  /\ UNCHANGED <<rowVars, cache, unsaved, writing, retryVars, callVars, restarts>>

\* The row is written; the update's caller goes on.
Written(j, then) ==
  /\ JsTurn /\ j \in writing /\ Next1(j).then = then
  /\ row' = [row EXCEPT ![j] = Next1(j).to]
  /\ dest' = [dest EXCEPT ![j] = IF Next1(j).dest = "keep" THEN @ ELSE Next1(j).dest]
  /\ cache' = [cache EXCEPT ![j] = Next1(j).to]
  /\ changed' = TRUE /\ writing' = writing \ {j}
  /\ UNCHANGED restarts

WrittenQuietly(j) ==
  /\ \/ Written(j, "nothing") /\ UNCHANGED pumping
     \/ Written(j, "pump") /\ Pump
  /\ Pop(j)
  /\ UNCHANGED <<launchVars, claim, unsaved, retryVars, optVars, callVars, nativeVars>>

(***************************************************************************)
(* A launch: resolveAndStart.                                              *)
(***************************************************************************)
Marked(j) ==
  /\ Written(j, "marked") /\ Pop(j)
  /\ IF j \in aborted THEN EndLaunch(j)
     ELSE At(j, "resolving") /\ UNCHANGED <<aborted, pumping>>
  /\ UNCHANGED <<claim, unsaved, retryVars, optVars, callVars, nativeVars>>

Resolved(j) ==
  /\ JsTurn /\ launch[j] = "resolving"
  /\ IF cache[j] # "resolving" THEN EndLaunch(j)
     ELSE At(j, "locating") /\ UNCHANGED <<aborted, pumping>>
  /\ UNCHANGED <<rowVars, cache, claim, unsaved, updateVars, retryVars, optVars, callVars,
                 restarts, nativeVars>>

\* The destination is written with the status: the row's own if it has one and
\* bytesDone > 0 (bytes are not modelled, so either may be the case), else
\* rawDownloadPath.
ClaimDestination(j) ==
  /\ At(j, "claiming")
  /\ \E d \in {"source", dest[j]} \ {"none"} : Update(j, Set("downloading", d, "claimed"))
  /\ UNCHANGED <<aborted, pumping>>

\* downloadsDirectory answers; a sized film then has its free space checked.
Located(j) ==
  /\ JsTurn /\ launch[j] = "locating"
  /\ IF j \in aborted THEN EndLaunch(j) /\ UNCHANGED updates
     ELSE IF j \in Sized THEN At(j, "measuring") /\ UNCHANGED <<aborted, pumping, updates>>
     ELSE ClaimDestination(j)
  /\ UNCHANGED <<rowVars, cache, claim, unsaved, writing, retryVars, optVars, callVars,
                 restarts, nativeVars>>

\* The check's answer is used without another look at the controller.
Measured(j) ==
  /\ JsTurn /\ launch[j] = "measuring"
  /\ ClaimDestination(j)
  /\ UNCHANGED <<rowVars, cache, claim, unsaved, writing, retryVars, optVars, callVars,
                 restarts, nativeVars>>

Claimed(j) ==
  /\ Written(j, "claimed") /\ Pop(j)
  /\ IF j \in aborted THEN EndLaunch(j) /\ UNCHANGED <<claim, nativeVars>>
     ELSE /\ claim' = [claim EXCEPT ![j] = "download"]
          /\ Start(j, "download", Next1(j).dest)
          /\ At(j, IF StartRefused(j) THEN "refused" ELSE "starting")
          /\ UNCHANGED <<aborted, pumping>>
  /\ UNCHANGED <<unsaved, retryVars, optVars, callVars>>

\* download_start answers.
Started(j) ==
  /\ JsTurn /\ launch[j] = "starting"
  /\ IF j \in aborted
     THEN /\ ForceStop(j, Call("launch", TRUE, "none"))
          /\ At(j, "discarding") /\ UNCHANGED <<aborted, pumping>>
     ELSE EndLaunch(j) /\ UNCHANGED nativeVars
  /\ UNCHANGED <<rowVars, cache, claim, unsaved, updateVars, retryVars, optVars, callVars,
                 restarts>>

Discarded(j) ==
  /\ JsTurn /\ launch[j] = "discarding" /\ EndLaunch(j)
  /\ \A r \in removals[j] : r.sender.at # "launch"
  /\ UNCHANGED <<rowVars, cache, claim, unsaved, updateVars, retryVars, optVars, callVars,
                 restarts, nativeVars>>

\* An await of the launch throws; the resolver's errors may be transient.
LaunchError(j) ==
  /\ JsTurn /\ launch[j] \in {"resolving", "locating", "measuring", "refused"}
  /\ IF j \in aborted \/ cache[j] \in {"canceled", "paused"}
     THEN EndLaunch(j) /\ UNCHANGED <<claim, unsaved, updates>>
     ELSE /\ \/ Fail(j, "launchFailed")
             \/ launch[j] = "resolving" /\ Fail(j, "launchTransient")
          /\ At(j, "failing") /\ UNCHANGED <<aborted, pumping>>
  /\ UNCHANGED <<rowVars, cache, writing, retryVars, optVars, callVars, restarts, nativeVars>>

(***************************************************************************)
(* Failure and automatic retry.                                            *)
(***************************************************************************)
\* Mutant: failures are not counted.
Mut_MayRetryForever(j) == j \notin timer
MayRetry(j) == attempts[j] < MaxRetries /\ j \notin timer

FailureWritten(j) ==
  \/ /\ Written(j, "failed") /\ Pop(j) /\ Pump
     /\ UNCHANGED <<launchVars, retryVars>>
  \/ /\ Written(j, "launchFailed") /\ Pop(j) /\ EndLaunch(j)
     /\ UNCHANGED retryVars
  \/ /\ Written(j, "transient") /\ ~MayRetry(j) /\ Pop(j) /\ Pump
     /\ UNCHANGED <<launchVars, retryVars>>
  \/ /\ Written(j, "launchTransient") /\ ~MayRetry(j) /\ Pop(j) /\ EndLaunch(j)
     /\ UNCHANGED retryVars

\* scheduleAutomaticRetry, and a note of it in the row.
RetryScheduled(j) ==
  /\ \E then \in {"transient", "launchTransient"} :
       /\ Written(j, then) /\ MayRetry(j)
       /\ updates' = [updates EXCEPT ![j] = Append(Tail(@),
            Change("failed", {"failed"}, "keep",
                   IF then = "transient" THEN "pump" ELSE "launchNoted"))]
  /\ attempts' = [attempts EXCEPT ![j] = @ + 1] /\ timer' = timer \cup {j}
  /\ UNCHANGED <<launchVars, pumping>>

LaunchNoted(j) ==
  /\ Written(j, "launchNoted") /\ Pop(j) /\ EndLaunch(j)
  /\ UNCHANGED retryVars

Failed(j) ==
  /\ FailureWritten(j) \/ RetryScheduled(j) \/ LaunchNoted(j)
  /\ UNCHANGED <<claim, unsaved, optVars, callVars, nativeVars>>

\* The timer runs for at least 1.5 s.  A pause or a resume that was sent before
\* is answered by then: the executor takes a lock and, for a transcode, removes
\* a file, which it retries for at most 1 s.
RetryFires(j) ==
  /\ JsTurn /\ j \in timer
  /\ \A call \in waiting[j] \cup {r.sender : r \in removals[j]} :
       call.at \notin {"pause", "resume"}
  /\ timer' = timer \ {j} /\ Await(j, Call("retry", TRUE, "none"))
  /\ UNCHANGED <<rowVars, cache, pumping, launchVars, claim, unsaved, updateVars, attempts,
                 optVars, pausing, clicks, restarts, nativeVars>>

\* Mutant: the timer's retry starts the count over, as the user's does.
Mut_RetryListedForgets(j) ==
  /\ JsTurn /\ Call("retry", TRUE, "none") \in waiting[j]
  /\ Answered(j, Call("retry", TRUE, "none"))
  /\ cache' = [cache EXCEPT ![j] = row[j]]
  /\ IF row[j] = "failed" THEN Update(j, Set("queued", "keep", "pump")) ELSE UNCHANGED updates
  /\ ClearRetry(j)
  /\ UNCHANGED <<rowVars, pumping, launchVars, claim, unsaved, writing, optVars, pausing,
                 clicks, restarts, nativeVars>>

RetryListed(j) ==
  /\ JsTurn /\ Call("retry", TRUE, "none") \in waiting[j]
  /\ Answered(j, Call("retry", TRUE, "none"))
  /\ cache' = [cache EXCEPT ![j] = row[j]]
  /\ IF row[j] = "failed" THEN Update(j, Set("queued", "keep", "pump")) ELSE UNCHANGED updates
  /\ UNCHANGED <<rowVars, pumping, launchVars, claim, unsaved, writing, retryVars,
                 optVars, pausing, clicks, restarts, nativeVars>>

(***************************************************************************)
(* Events of the native executor: handleProgress.                          *)
(***************************************************************************)
Heeded(j) == j \notin pausing /\ cache[j] \notin Resting \cup {"none"}
Deliver(j, kinds) ==
  /\ JsTurn /\ events[j] # <<>> /\ Head(events[j]) \in kinds
  /\ events' = [events EXCEPT ![j] = Tail(@)]
  /\ UNCHANGED <<rowVars, cache, pumping, launchVars, writing, retryVars, callVars, restarts,
                 native, path, file, removals>>

IgnoreEvent(j) ==
  /\ Deliver(j, EventKinds) /\ ~Heeded(j)
  /\ UNCHANGED <<claim, unsaved, updates, optVars>>

\* A status from progress is written only while the job still transfers or
\* transcodes.
SaveProgress(j, phase) ==
  Update(j, Change(phase, {"downloading", "optimizing"}, "keep", "nothing"))

\* A change of phase is saved at once, a repeated report when the timer fires.
NoteProgress(j) ==
  /\ \E phase \in {"downloading", "optimizing"} :
       /\ Deliver(j, {phase}) /\ Heeded(j)
       /\ IF cache[j] = phase
          THEN unsaved' = [unsaved EXCEPT ![j] = phase] /\ UNCHANGED updates
          ELSE unsaved' = Forget(unsaved, j) /\ SaveProgress(j, phase)
  /\ UNCHANGED <<claim, optVars>>

FlushProgress(j) ==
  /\ JsTurn /\ unsaved[j] # "none" /\ Len(updates[j]) < MaxUpdates
  /\ unsaved' = Forget(unsaved, j)
  /\ IF cache[j] \in Resting \cup {"none"} THEN UNCHANGED updates
     ELSE SaveProgress(j, unsaved[j])
  /\ UNCHANGED <<rowVars, cache, pumping, launchVars, claim, writing, retryVars, optVars,
                 callVars, restarts, nativeVars>>

NativeFailed(j) ==
  /\ \/ Deliver(j, {"failed"}) /\ Fail(j, "failed")
     \/ Deliver(j, {"transient"}) /\ Fail(j, "transient")
  /\ Heeded(j) /\ UNCHANGED optVars

NativeCanceled(j) ==
  /\ Deliver(j, {"canceled"}) /\ Heeded(j)
  /\ claim' = Forget(claim, j) /\ unsaved' = Forget(unsaved, j)
  /\ Update(j, Set("canceled", "keep", "pump"))
  /\ UNCHANGED optVars

\* The terminal event of a transcode, or of a full download.
Finish(j, d) ==
  /\ claim' = Forget(claim, j)
  /\ Update(j, Set("completed", d, "completed"))
  /\ UNCHANGED optVars

NativeCompleted(j) ==
  /\ Deliver(j, {"completed"}) /\ Heeded(j) /\ unsaved' = Forget(unsaved, j)
  /\ IF cache[j] = "optimizing" THEN Finish(j, "final")
     ELSE IF j \notin Optimized THEN Finish(j, path[j])
     ELSE /\ optimizing' = [optimizing EXCEPT ![j] =
               IF cache[j] = "downloading" THEN @ \cup {"downloading"} ELSE @]
          /\ UNCHANGED <<claim, updates, ffmpeg>>

CompletionWritten(j) ==
  /\ Written(j, "completed") /\ Pop(j) /\ ClearRetry(j) /\ Pump
  /\ UNCHANGED <<launchVars, claim, unsaved, optVars, callVars, nativeVars>>

(***************************************************************************)
(* startOptimization.                                                      *)
(***************************************************************************)
FfmpegProbed(j, from) ==
  /\ \A k \in Jobs : updates[k] = <<>> \/ k \in writing
  /\ from \in Probing(j)
  /\ ffmpeg' \in (IF ffmpeg = "unknown" THEN {"present", "absent"} ELSE {ffmpeg})
  /\ optimizing' = [optimizing EXCEPT ![j] = @ \ {from}]
  /\ IF ffmpeg' = "present"
     THEN /\ Update(j, Change("optimizing", {from},
                              IF from = "downloading" THEN path[j] ELSE dest[j], "optimize"))
          /\ UNCHANGED <<claim, unsaved>>
     ELSE IF cache[j] = from THEN Fail(j, "failed")
     ELSE UNCHANGED <<claim, unsaved, updates>>
  /\ UNCHANGED <<rowVars, cache, pumping, launchVars, writing, retryVars, callVars, restarts,
                 nativeVars>>

TranscodeStarts(j) ==
  /\ Written(j, "optimize") /\ Pop(j) /\ StartTranscode(j, Next1(j).dest)
  /\ UNCHANGED <<pumping, launchVars, unsaved, retryVars, callVars>>

TranscodeRefused(j) ==
  /\ JsTurn /\ "refused" \in optimizing[j]
  /\ optimizing' = [optimizing EXCEPT ![j] = @ \ {"refused"}]
  /\ IF cache[j] \in {"canceled", "paused"} THEN UNCHANGED <<claim, unsaved, updates>>
     ELSE Fail(j, "failed")
  /\ UNCHANGED <<rowVars, cache, pumping, launchVars, writing, retryVars, ffmpeg, callVars,
                 restarts, nativeVars>>

(***************************************************************************)
(* The user's controls.                                                    *)
(***************************************************************************)
\* recordForControl: the durable record is cached.
Click(j, op) ==
  /\ JsTurn /\ op \in Clicks /\ clicks < MaxClicks /\ clicks' = clicks + 1
  /\ cache' = [cache EXCEPT ![j] = row[j]]
  /\ UNCHANGED <<rowVars, restarts>>

PauseLaunch(j) ==
  /\ Click(j, "pause") /\ row[j] = "resolving"
  /\ AbortLaunch(j)
  /\ pausing' = pausing \cup {j} /\ unsaved' = Forget(unsaved, j)
  /\ Update(j, Set("paused", "keep", "paused"))
  /\ UNCHANGED <<claim, writing, retryVars, optVars, waiting, nativeVars>>

PauseNative(j) ==
  /\ Click(j, "pause") /\ pausing' = pausing \cup {j}
  /\ \/ /\ row[j] = "downloading" /\ PauseDownload(j)
        /\ Await(j, Call("pause", ~PauseRefused(j), "none"))
     \/ /\ row[j] = "optimizing"
        /\ CancelTranscode(j, Call("pause", TRUE, "none"))
        /\ IF CancelRefused(j) THEN Await(j, Call("pause", FALSE, "none"))
           ELSE Discarding(j, Call("pause", TRUE, "none"))
  /\ UNCHANGED <<pumping, launchVars, claim, unsaved, updateVars, retryVars, optVars>>

\* The native answer; a refusal is thrown to the caller.
PauseAnswered(j) ==
  /\ JsTurn
  /\ \E ok \in BOOLEAN :
       /\ Call("pause", ok, "none") \in waiting[j]
       /\ Answered(j, Call("pause", ok, "none"))
       /\ IF ok THEN /\ unsaved' = Forget(unsaved, j)
                     /\ Update(j, Set("paused", "keep", "paused"))
                     /\ UNCHANGED pausing
          ELSE pausing' = pausing \ {j} /\ UNCHANGED <<unsaved, updates>>
  /\ UNCHANGED <<rowVars, cache, pumping, launchVars, claim, writing, retryVars, optVars,
                 clicks, restarts, nativeVars>>

\* The pause, or the stop, is written: events are heeded again.
ControlWritten(j) ==
  /\ Written(j, "paused") \/ Written(j, "stopped")
  /\ Pop(j) /\ pausing' = pausing \ {j} /\ Pump
  /\ UNCHANGED <<launchVars, claim, unsaved, retryVars, optVars, waiting, clicks, nativeVars>>

\* A job of this process goes on where it was, past the queue; any other is
\* queued.
Resume(j) ==
  /\ Click(j, "resume") /\ row[j] = "paused"
  /\ \/ /\ claim[j] = "transcode"
        /\ optimizing' = [optimizing EXCEPT ![j] = @ \cup {"paused"}]
        /\ UNCHANGED <<updates, waiting, nativeVars>>
     \/ /\ claim[j] = "download" /\ ResumeDownload(j)
        /\ Await(j, Call("resume", ~ResumeRefused(j), "none"))
        /\ UNCHANGED <<updates, optimizing>>
     \/ /\ claim[j] = "none" /\ Update(j, Set("queued", "keep", "pump"))
        /\ UNCHANGED <<optimizing, waiting, nativeVars>>
  /\ UNCHANGED <<pumping, launchVars, claim, pausing, unsaved, writing, retryVars, ffmpeg>>

ResumeAnswered(j) ==
  /\ JsTurn
  /\ \E ok \in BOOLEAN :
       /\ Call("resume", ok, "none") \in waiting[j]
       /\ Answered(j, Call("resume", ok, "none"))
       /\ IF ok THEN Update(j, Set("downloading", "keep", "nothing")) ELSE UNCHANGED updates
  /\ UNCHANGED <<rowVars, cache, pumping, launchVars, claim, pausing, unsaved, writing,
                 retryVars, optVars, clicks, restarts, nativeVars>>

Retry(j) ==
  /\ Click(j, "retry") /\ row[j] = "failed"
  /\ ClearRetry(j) /\ Update(j, Set("queued", "keep", "pump"))
  /\ UNCHANGED <<pumping, launchVars, claim, pausing, unsaved, writing, optVars, waiting,
                 nativeVars>>

\* forceStop: the native job goes, then the row's file, then the row.
Stop(j) ==
  /\ Click(j, "stop") /\ row[j] \notin {"none", "completed", "canceled"}
  /\ AbortLaunch(j) /\ ClearRetry(j)
  /\ pausing' = pausing \cup {j} /\ unsaved' = Forget(unsaved, j)
  /\ ForceStop(j, Call("stop", TRUE, dest[j]))
  /\ Discarding(j, Call("stop", TRUE, dest[j]))
  /\ UNCHANGED <<claim, updateVars, optVars>>

StopSweeps(j) ==
  /\ JsTurn
  /\ \E call \in waiting[j], ok \in BOOLEAN :
       /\ call.at = "stop" /\ call.dest # "none"
       /\ DeleteFile(j, call.dest, ok)
       /\ waiting' = [waiting EXCEPT ![j] =
            (@ \ {call}) \cup {Call("sweep", call.ok /\ ok, call.dest)}]
  /\ UNCHANGED <<rowVars, cache, pumping, launchVars, claim, pausing, unsaved, updateVars,
                 retryVars, optVars, clicks, restarts>>

StopAnswered(j) ==
  /\ JsTurn
  /\ \E call \in waiting[j] :
       /\ call.at = "sweep" \/ (call.at = "stop" /\ call.dest = "none")
       /\ Answered(j, call)
       /\ Update(j, Set(IF call.ok THEN "canceled" ELSE "failed", "keep", "stopped"))
  /\ claim' = Forget(claim, j)
  /\ UNCHANGED <<rowVars, cache, pumping, launchVars, pausing, unsaved, writing, retryVars,
                 optVars, clicks, restarts, nativeVars>>

(***************************************************************************)
(* The application ends and starts again: recoverInterrupted.              *)
(***************************************************************************)
Restart ==
  /\ restarts < MaxRestarts /\ restarts' = restarts + 1
  /\ KillWorkers
  /\ row' = [j \in Jobs |-> IF row[j] \in Active THEN "paused" ELSE row[j]]
  /\ changed' = TRUE /\ pumping' = TRUE
  /\ cache' = [j \in Jobs |-> "none"]
  /\ launch' = [j \in Jobs |-> "none"] /\ aborted' = {}
  /\ claim' = [j \in Jobs |-> "none"]
  /\ pausing' = {} /\ unsaved' = [j \in Jobs |-> "none"]
  /\ updates' = [j \in Jobs |-> <<>>] /\ writing' = {}
  /\ attempts' = [j \in Jobs |-> 0] /\ timer' = {}
  /\ ffmpeg' = "unknown" /\ optimizing' = [j \in Jobs |-> {}]
  /\ waiting' = [j \in Jobs |-> {}]
  /\ UNCHANGED <<dest, clicks>>

(***************************************************************************)
(* The specification.                                                      *)
(***************************************************************************)
UpdateStep(j) == StartUpdate(j) \/ SkipUpdate(j)
WriteStep(j) ==
  \/ WrittenQuietly(j) \/ Marked(j) \/ Claimed(j) \/ Failed(j)
  \/ CompletionWritten(j) \/ TranscodeStarts(j) \/ ControlWritten(j)
LaunchStep(j) ==
  \/ Resolved(j) \/ Located(j) \/ Measured(j) \/ Started(j) \/ Discarded(j)
  \/ LaunchError(j)
EventStep(j) ==
  \/ IgnoreEvent(j) \/ NoteProgress(j) \/ NativeFailed(j) \/ NativeCanceled(j)
  \/ NativeCompleted(j)
OptimizeStep(j) ==
  TranscodeRefused(j) \/ \E from \in {"downloading", "paused"} : FfmpegProbed(j, from)
AnswerStep(j) ==
  \/ PauseAnswered(j) \/ ResumeAnswered(j) \/ StopSweeps(j) \/ StopAnswered(j)
  \/ RetryListed(j)
UserStep(j) ==
  \/ Enqueue(j) \/ PauseLaunch(j) \/ PauseNative(j) \/ Resume(j) \/ Retry(j) \/ Stop(j)
\* The executor's workers, which the web view sees by their events only.
WorkerStep(j) ==
  /\ Working(j) \/ Finishing(j)
  /\ UNCHANGED <<rowVars, cache, pumping, launchVars, claim, unsaved, updateVars, retryVars,
                 optVars, callVars, restarts>>

\* The removal of a discarded job's files: its end answers the command.  A launch
\* ignores what the answer says.
Reply(j, call) == IF call.at = "launch" THEN UNCHANGED waiting ELSE Await(j, call)
RemovalStep(j) ==
  /\ \E r \in removals[j] :
       \/ RemoveNext(j, r) /\ UNCHANGED waiting
       \/ RemoveLast(j, r) /\ Reply(j, r.sender)
       \/ RemovalFails(j, r) /\ Reply(j, [r.sender EXCEPT !.ok = FALSE])
  /\ UNCHANGED <<rowVars, cache, pumping, launchVars, claim, unsaved, updateVars, retryVars,
                 optVars, pausing, clicks, restarts>>

\* What the web view does for a job once it is ready.
WebStep(j) ==
  \/ UpdateStep(j) \/ WriteStep(j) \/ LaunchStep(j) \/ EventStep(j)
  \/ FlushProgress(j) \/ RetryFires(j) \/ OptimizeStep(j) \/ AnswerStep(j)

Next ==
  \/ PumpRun \/ Sync \/ Restart
  \/ \E j \in Jobs :
       \/ WebStep(j) \/ UserStep(j) \/ WorkerStep(j) \/ RemovalStep(j)

Spec == Init /\ [][Next]_vars

\* IndexedDB, the resolver and the native commands answer, timers fire, the web
\* view runs what is ready, and a transfer or a transcode ends.
WorkerEnds(j) == WorkerStep(j) /\ native'[j] = "none"
Fairness ==
  /\ WF_vars(PumpRun) /\ WF_vars(Sync)
  /\ \A j \in Jobs :
       WF_vars(WebStep(j)) /\ WF_vars(WorkerEnds(j)) /\ WF_vars(RemovalStep(j))
FairSpec == Spec /\ Fairness

(***************************************************************************)
(* Properties.                                                             *)
(***************************************************************************)
\* The rows and launches that occupy a slot never exceed the concurrency, though
\* pump() reads the rows before it launches and a launch's row is still queued
\* when the next pump() reads them.  (Resuming a parked transfer passes the
\* queue by design; the run leaves it out.)
SlotCap ==
  Cardinality({j \in Jobs : row[j] \in Active \/ launch[j] # "none"}) <= Concurrency

\* A pause or a stop meets a launch that awaits the free space.  The answer is
\* used without another look at the controller, so the launch writes
\* `downloading' over the user's status and keeps the slot.
CaughtMeasuring(j) == launch[j] = "measuring" /\ j \in aborted

\* A pause of a transcode whose output cannot be removed: the native job is gone,
\* and its `failed' event finds the pause still under way and may be ignored.
\* The row then stays optimizing with no job behind it.
PauseFailsLate(j) == native[j] = "none" /\ Call("pause", FALSE, "none") \in waiting[j]

\* Every queued download comes to rest: no failure, pause, stop or restart leaves
\* a slot occupied or a row waiting for a pump() that never comes, but for the
\* two schedules above, which do.
EveryDownloadComesToRest ==
  [](\A j \in Jobs : ~CaughtMeasuring(j) /\ ~PauseFailsLate(j))
    => \A j \in Jobs : row[j] = "queued" ~> row[j] \in Resting

\* "Transient failures receive two bounded, delayed retries before remaining
\* terminal for user recovery": a download that keeps failing stays failed in the
\* end, whatever the user, the timers and late answers do in between.
RetriesAreBounded ==
  \A j \in Jobs : []<>(row[j] = "failed") => <>[](row[j] = "failed")

\* forceStop makes the row "canceled even when it was queued, resolving, failed,
\* or stale": nothing brings a canceled row back.
CanceledIsFinal ==
  [][\A j \in Jobs : row[j] = "canceled" => row'[j] = "canceled"]_vars

(***************************************************************************)
(* Statements that the code does not keep; README section 4 says how each  *)
(* one fails.  No run checks them.                                         *)
(***************************************************************************)
\* Nothing of this process is under way for the job.
Quiet(j) ==
  /\ launch[j] = "none" /\ updates[j] = <<>> /\ waiting[j] = {} /\ events[j] = <<>>
  /\ optimizing[j] = {} /\ removals[j] = {}

\* "Optimized records transition from download to transcode and only complete
\* after ffmpeg emits its terminal event": when nothing is under way, a completed
\* row names a whole file.
FinishedFilesAreWhole ==
  \A j \in Jobs : row[j] = "completed" /\ Quiet(j) => file[j][dest[j]] = "whole"

\* Saving a progress report never takes a row back from optimizing to
\* downloading, however late its timer fires.
ProgressNeverRegresses ==
  [][\A j \in Jobs : row[j] = "optimizing" /\ row'[j] = "downloading"
       => Next1(j).allowed = Statuses]_vars

\* "Paused records stay paused": without a resume or a stop nothing writes over
\* a paused row.
PausedStaysPaused ==
  [][\A j \in Jobs : row[j] = "paused" => row'[j] = "paused"]_vars
=============================================================================
