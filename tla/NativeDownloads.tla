--------------------------- MODULE NativeDownloads ---------------------------
(***************************************************************************)
(* The native download executor (web/src-tauri/src/downloads.rs): one job  *)
(* per id, a worker that transfers or transcodes it, and the events it     *)
(* emits to the web view.                                                  *)
(*                                                                         *)
(* A command takes effect when it is sent: nothing the executor does       *)
(* between the sending and the execution of a command is visible to the    *)
(* sender before its answer.  A command that discards a job takes it from  *)
(* the registry at once and then removes its files, one await each, while  *)
(* other commands for the same id go on.  A generation distinguishes the   *)
(* workers of one job and only the current one may emit or finish, so      *)
(* `native' stands for the current worker; finish_if_current removes the   *)
(* job and then emits, and the event travels apart from the answers of     *)
(* commands.  A transcode of a finished output would write over its own    *)
(* input, which ffmpeg refuses: such a job can only fail.                  *)
(***************************************************************************)
EXTENDS Naturals, Sequences

CONSTANTS
  Jobs,           \* job ids
  MaxEvents,      \* bound: undelivered events of a job that still reports
  DiskMayFail     \* TRUE: removing a file may fail

VARIABLES
  native,   \* jobs: "none", "download", "parked" (paused), "transcode", and
            \* "encoded" (ffmpeg is done and its source removed)
  path,     \* the job's dest_path or input_path
  file,     \* the job's files on disk
  removals, \* the removals under way: the paths left, in order, and who waits
  events    \* emitted and not yet delivered, in order

nativeVars == <<native, path, file, removals, events>>

\* The transfer's destination, and optimizedOutputPath of it.
Paths == {"source", "final"}
Contents == {"none", "part", "whole", "mixed"}
EventKinds == {"downloading", "optimizing", "completed", "canceled",
               "failed", "transient"}

\* `removals' is of the type the sender gives it.
NativeTypeOK ==
  /\ native \in [Jobs -> {"none", "download", "parked", "transcode", "encoded"}]
  /\ path \in [Jobs -> Paths]
  /\ file \in [Jobs -> [Paths -> Contents]]
  /\ events \in [Jobs -> Seq(EventKinds)]

NativeInit ==
  /\ native = [j \in Jobs |-> "none"]
  /\ path = [j \in Jobs |-> "source"]
  /\ file = [j \in Jobs |-> [p \in Paths |-> "none"]]
  /\ removals = [j \in Jobs |-> {}]
  /\ events = [j \in Jobs |-> <<>>]

Emit(j, e) == events' = [events EXCEPT ![j] = Append(@, e)]
End(j) == native' = [native EXCEPT ![j] = "none"]
Erase(j, P) ==
  file' = [file EXCEPT ![j] = [p \in Paths |-> IF p \in P THEN "none" ELSE @[p]]]

(***************************************************************************)
(* Commands.                                                               *)
(***************************************************************************)
\* download_start and transcode_start refuse an id that has a job.
StartRefused(j) == native[j] # "none"
Start(j, kind, p) ==
  /\ IF StartRefused(j) THEN UNCHANGED <<native, path>>
     ELSE /\ native' = [native EXCEPT ![j] = kind]
          /\ path' = [path EXCEPT ![j] = p]
  /\ UNCHANGED <<file, removals, events>>

Transcoding(j) == native[j] \in {"transcode", "encoded"}
PauseRefused(j) == Transcoding(j)
PauseDownload(j) ==
  /\ native' = [native EXCEPT ![j] = IF @ = "download" THEN "parked" ELSE @]
  /\ UNCHANGED <<path, file, removals, events>>

ResumeRefused(j) == native[j] # "parked"
ResumeDownload(j) ==
  /\ native' = [native EXCEPT ![j] = IF @ = "parked" THEN "download" ELSE @]
  /\ UNCHANGED <<path, file, removals, events>>

\* The job leaves the registry; with none there is nothing to remove.
Discard(j, paths, sender) ==
  /\ End(j)
  /\ removals' = [removals EXCEPT ![j] =
       IF native[j] = "none" THEN @ ELSE @ \cup {[paths |-> paths, sender |-> sender]}]
  /\ UNCHANGED <<path, file, events>>

CancelRefused(j) == native[j] \in {"download", "parked"}
CancelTranscode(j, sender) ==
  IF CancelRefused(j) THEN UNCHANGED nativeVars ELSE Discard(j, <<"final">>, sender)

ForceStop(j, sender) ==
  Discard(j, IF Transcoding(j) THEN <<"final", path[j]>> ELSE <<path[j]>>, sender)

\* A removal goes on with the next file, ends with an event, or gives up at a
\* file that cannot be removed, and says so in an event.
RemoveNext(j, r) ==
  /\ Len(r.paths) > 1 /\ Erase(j, {Head(r.paths)})
  /\ removals' = [removals EXCEPT ![j] = (@ \ {r}) \cup {[r EXCEPT !.paths = Tail(@)]}]
  /\ UNCHANGED <<native, path, events>>

RemoveLast(j, r) ==
  /\ Len(r.paths) = 1 /\ Erase(j, {Head(r.paths)}) /\ Emit(j, "canceled")
  /\ removals' = [removals EXCEPT ![j] = @ \ {r}]
  /\ UNCHANGED <<native, path>>

RemovalFails(j, r) ==
  /\ DiskMayFail /\ Emit(j, "failed")
  /\ removals' = [removals EXCEPT ![j] = @ \ {r}]
  /\ UNCHANGED <<native, path, file>>

DeleteFile(j, p, ok) ==
  /\ IF ok THEN Erase(j, {p}) ELSE DiskMayFail /\ UNCHANGED file
  /\ UNCHANGED <<native, path, removals, events>>

(***************************************************************************)
(* The workers.                                                            *)
(***************************************************************************)
MayReport(j) == Len(events[j]) < MaxEvents

\* A transfer onto a finished output (a job that was paused while its completion
\* was being written) spoils it.
Spoiled(j) == IF path[j] = "final" THEN "mixed" ELSE "part"

\* The destination is created, or truncated unless the transfer goes on at an
\* offset; the transfer may end before its first chunk.
OpenFile(j) ==
  /\ native[j] = "download" /\ file[j][path[j]] # Spoiled(j)
  /\ file' = [file EXCEPT ![j][path[j]] = Spoiled(j)]
  /\ UNCHANGED <<native, path, removals, events>>

\* A chunk is written and reported.
Receive(j) ==
  /\ native[j] = "download" /\ file[j][path[j]] = Spoiled(j) /\ MayReport(j)
  /\ Emit(j, "downloading")
  /\ UNCHANGED <<native, path, file, removals>>

FinishTransfer(j) ==
  /\ native[j] = "download"
  /\ End(j) /\ Emit(j, "completed")
  /\ file' = [file EXCEPT ![j][path[j]] = IF path[j] = "final" THEN "mixed" ELSE "whole"]
  /\ UNCHANGED <<path, removals>>

FailTransfer(j) ==
  /\ native[j] = "download"
  /\ End(j)
  /\ \E e \in {"failed", "transient"} : Emit(j, e)
  /\ UNCHANGED <<path, file, removals>>

Encode(j) ==
  /\ native[j] = "transcode" /\ path[j] = "source" /\ MayReport(j)
  /\ file[j]["source"] # "none"
  /\ file' = [file EXCEPT ![j]["final"] = "part"]
  /\ Emit(j, "optimizing")
  /\ UNCHANGED <<native, path, removals>>

\* ffmpeg has written its output: the source is removed, and then the job ends.
\* Aborting the worker does not undo a removal under way.
RemoveSource(j) ==
  /\ native[j] = "transcode" /\ path[j] = "source" /\ file[j]["source"] # "none"
  /\ native' = [native EXCEPT ![j] = "encoded"]
  /\ file' = [file EXCEPT ![j] = [source |-> "none", final |-> file[j]["source"]]]
  /\ UNCHANGED <<path, removals, events>>

SourceStays(j) ==
  /\ DiskMayFail
  /\ native[j] = "transcode" /\ path[j] = "source" /\ file[j]["source"] # "none"
  /\ file' = [file EXCEPT ![j]["final"] = file[j]["source"]]
  /\ End(j) /\ Emit(j, "failed")
  /\ UNCHANGED <<path, removals>>

FinishTranscode(j) ==
  /\ native[j] = "encoded"
  /\ End(j) /\ Emit(j, "completed")
  /\ UNCHANGED <<path, file, removals>>

FailTranscode(j) ==
  /\ native[j] = "transcode"
  /\ End(j) /\ Emit(j, "failed")
  /\ UNCHANGED <<path, file, removals>>

\* The application dies and takes its workers with it; files stay.
KillWorkers ==
  /\ native' = [j \in Jobs |-> "none"]
  /\ removals' = [j \in Jobs |-> {}] /\ events' = [j \in Jobs |-> <<>>]
  /\ UNCHANGED <<path, file>>

Working(j) == OpenFile(j) \/ Receive(j) \/ Encode(j) \/ RemoveSource(j)
Finishing(j) ==
  \/ FinishTransfer(j) \/ FailTransfer(j)
  \/ FinishTranscode(j) \/ FailTranscode(j) \/ SourceStays(j)
=============================================================================
