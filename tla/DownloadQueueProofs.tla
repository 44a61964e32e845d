------------------------- MODULE DownloadQueueProofs -------------------------
(***************************************************************************)
(* Theorems about DownloadQueue, for any finite set of jobs, any number of *)
(* clicks, retries and restarts, and any concurrency.                      *)
(***************************************************************************)
EXTENDS DownloadQueue, FiniteSetTheorems, TLAPS

(***************************************************************************)
(* Types.  download_start and transcode_start are given the destination    *)
(* of the update that precedes them, and startOptimization of a paused     *)
(* job the one in its row: all are set by then.                            *)
(***************************************************************************)
GoodUpdates ==
  {u \in Updates : /\ u.dest # "none"
                   /\ u.then \in {"claimed", "optimize"} => u.dest \in Paths}

UpdatesGood ==
  \A j \in Jobs : updates[j] \in Seq(GoodUpdates) /\ (j \in writing => updates[j] # <<>>)

\* Before it has a destination, a job is nothing to the executor.
NoOptimize(j) == \A i \in 1..Len(updates[j]) : updates[j][i].then # "optimize"
Calm(j) == native[j] = "none" /\ events[j] = <<>> /\ removals[j] = {}
Untouched(j) ==
  /\ Calm(j) /\ optimizing[j] = {}
  /\ claim[j] # "transcode" /\ NoOptimize(j)

DestsKnown == \A j \in Jobs : dest[j] = "none" => Untouched(j)

Typed == TypeOK /\ UpdatesGood /\ DestsKnown

\* The executor, with the type its caller gives to removals.
NativeTyped == NativeTypeOK /\ removals \in [Jobs -> SUBSET Removals]

LEMMA ChangeGood ==
  ASSUME NEW to \in Statuses, NEW allowed \in SUBSET Statuses, NEW then \in Continuations,
         NEW d \in Paths \cup {"keep"}, then \in {"claimed", "optimize"} => d \in Paths
  PROVE  Change(to, allowed, d, then) \in GoodUpdates
  BY DEF Change, GoodUpdates, Updates, Dests, Paths

LEMMA SetGood ==
  ASSUME NEW to \in Statuses, NEW then \in Continuations,
         NEW d \in Paths \cup {"keep"}, then \in {"claimed", "optimize"} => d \in Paths
  PROVE  Set(to, d, then) \in GoodUpdates
  BY ChangeGood, Statuses \in SUBSET Statuses DEF Set

LEMMA InitTyped == Init => Typed
  <1>1. SUFFICES ASSUME Init PROVE Typed
    OBVIOUS
  <1>2. NativeTyped
    BY <1>1 DEF Init, NativeInit, NativeTyped, NativeTypeOK, Paths, Contents
  <1>3. \A j \in Jobs : updates[j] = <<>>
    BY <1>1 DEF Init
  <1>4. updates \in [Jobs -> Seq(Updates)] /\ \A j \in Jobs : updates[j] \in Seq(GoodUpdates)
    BY <1>1 DEF Init
  <1>5. TypeOK
    <2>1. /\ row \in [Jobs -> Statuses \cup {"none"}] /\ cache \in [Jobs -> Statuses \cup {"none"}]
          /\ dest \in [Jobs -> Dests] /\ launch \in [Jobs -> LaunchPhases]
          /\ changed \in BOOLEAN /\ pumping \in BOOLEAN
          /\ claim \in [Jobs -> {"none", "download", "transcode"}]
          /\ unsaved \in [Jobs -> {"none", "downloading", "optimizing"}]
          /\ ffmpeg \in {"unknown", "present", "absent"}
      BY <1>1 DEF Init, Dests, LaunchPhases
    <2>2. /\ aborted \subseteq Jobs /\ pausing \subseteq Jobs /\ writing \subseteq Jobs
          /\ timer \subseteq Jobs
          /\ optimizing \in [Jobs -> SUBSET {"downloading", "paused", "refused"}]
          /\ waiting \in [Jobs -> SUBSET Calls]
      BY <1>1 DEF Init
    <2>3. /\ attempts \in [Jobs -> 0..MaxRetries]
          /\ clicks \in 0..MaxClicks /\ restarts \in 0..MaxRestarts
      BY <1>1, LimitsAssumption DEF Init
    <2>4. QED
      BY <1>2, <1>4, <2>1, <2>2, <2>3 DEF TypeOK, NativeTyped
  <1>6. UpdatesGood /\ DestsKnown
    BY <1>1, <1>3, <1>4 DEF Init, NativeInit, UpdatesGood, DestsKnown, Untouched, Calm, NoOptimize
  <1>7. QED
    BY <1>5, <1>6 DEF Typed

\* What a step does to the row and the queue of one job.
LEMMA PushTyped ==
  ASSUME Typed, NEW j \in Jobs, NEW u \in GoodUpdates, Update(j, u)
  PROVE  /\ updates' \in [Jobs -> Seq(Updates)]
         /\ \A k \in Jobs : updates'[k] \in Seq(GoodUpdates)
         /\ \A k \in Jobs : k \in writing => updates'[k] # <<>>
         /\ \A k \in Jobs \ {j} : updates'[k] = updates[k]
         /\ Len(updates'[j]) = Len(updates[j]) + 1
         /\ \A i \in 1..Len(updates[j]) : updates'[j][i] = updates[j][i]
         /\ updates'[j][Len(updates[j]) + 1] = u
         /\ u.then # "optimize" => \A k \in Jobs : NoOptimize(k) => NoOptimize(k)'
  <1>1. /\ updates \in [Jobs -> Seq(Updates)]
        /\ \A k \in Jobs : updates[k] \in Seq(GoodUpdates)
        /\ \A k \in Jobs : k \in writing => updates[k] # <<>>
        /\ u \in Updates
    BY DEF Typed, TypeOK, NativeTyped, UpdatesGood, GoodUpdates
  <1>2. updates' = [updates EXCEPT ![j] = Append(updates[j], u)]
    BY DEF Update
  <1>3. /\ Append(updates[j], u) \in Seq(Updates)
        /\ Append(updates[j], u) \in Seq(GoodUpdates)
        /\ Append(updates[j], u) # <<>>
        /\ Len(Append(updates[j], u)) = Len(updates[j]) + 1
        /\ \A i \in 1..Len(updates[j]) : Append(updates[j], u)[i] = updates[j][i]
        /\ Append(updates[j], u)[Len(updates[j]) + 1] = u
    BY <1>1
  <1>4. \A k \in Jobs : updates'[k] = IF k = j THEN Append(updates[j], u) ELSE updates[k]
    BY <1>1, <1>2
  <1>5. ASSUME u.then # "optimize", NEW k \in Jobs, NoOptimize(k)
        PROVE  NoOptimize(k)'
    <2>1. CASE k = j
      <3>1. ASSUME NEW i \in 1..Len(updates'[j]) PROVE updates'[j][i].then # "optimize"
        <4>1. updates'[j] = Append(updates[j], u) /\ Len(updates[j]) \in Nat
          <5>1. updates[j] \in Seq(Updates)
            BY <1>1
          <5>2. Len(updates[j]) \in Nat
            BY <5>1
          <5>3. QED
            BY <1>4, <5>2
        <4>2. i \in 1..Len(updates[j]) \/ i = Len(updates[j]) + 1
          BY <1>3, <4>1
        <4>3. \A h \in 1..Len(updates[j]) : updates[j][h].then # "optimize"
          BY <1>5, <2>1 DEF NoOptimize
        <4>4. QED
          BY <1>3, <1>5, <4>1, <4>2, <4>3
      <3>2. QED
        BY <2>1, <3>1 DEF NoOptimize
    <2>2. CASE k # j
      BY <1>4, <1>5, <2>2 DEF NoOptimize
    <2>3. QED
      BY <2>1, <2>2
  <1>6. QED
    BY <1>1, <1>2, <1>3, <1>4, <1>5

LEMMA PopTyped ==
  ASSUME Typed, NEW j \in Jobs, updates[j] # <<>>, Pop(j)
  PROVE  /\ updates' \in [Jobs -> Seq(Updates)]
         /\ \A k \in Jobs : updates'[k] \in Seq(GoodUpdates)
         /\ \A k \in Jobs \ {j} : updates'[k] = updates[k]
         /\ Len(updates'[j]) = Len(updates[j]) - 1
         /\ \A i \in 1..Len(updates'[j]) :
              updates'[j][i] = updates[j][i + 1] /\ i + 1 \in 1..Len(updates[j])
         /\ Next1(j) \in GoodUpdates /\ Next1(j) = updates[j][1]
         /\ 1 \in 1..Len(updates[j])
         /\ \A k \in Jobs : NoOptimize(k) => NoOptimize(k)'
  <1>1. /\ updates \in [Jobs -> Seq(Updates)]
        /\ \A k \in Jobs : updates[k] \in Seq(GoodUpdates)
    BY DEF Typed, TypeOK, NativeTyped, UpdatesGood
  <1>2. updates' = [updates EXCEPT ![j] = Tail(updates[j])]
    BY DEF Pop
  <1>3. /\ Tail(updates[j]) \in Seq(Updates)
        /\ Tail(updates[j]) \in Seq(GoodUpdates)
        /\ Len(Tail(updates[j])) = Len(updates[j]) - 1
        /\ \A i \in 1..Len(Tail(updates[j])) :
              Tail(updates[j])[i] = updates[j][i + 1] /\ i + 1 \in 1..Len(updates[j])
        /\ Head(updates[j]) \in GoodUpdates /\ Head(updates[j]) = updates[j][1]
        /\ 1 \in 1..Len(updates[j])
    BY <1>1
  <1>4. \A k \in Jobs : updates'[k] = IF k = j THEN Tail(updates[j]) ELSE updates[k]
    BY <1>1, <1>2
  <1>5. ASSUME NEW k \in Jobs, NoOptimize(k)
        PROVE  NoOptimize(k)'
    <2>1. CASE k = j
      <3>1. ASSUME NEW i \in 1..Len(updates'[j]) PROVE updates'[j][i].then # "optimize"
        <4>1. updates'[j] = Tail(updates[j])
          BY <1>4
        <4>2. \A h \in 1..Len(updates[j]) : updates[j][h].then # "optimize"
          BY <1>5, <2>1 DEF NoOptimize
        <4>3. QED
          BY <1>3, <4>1, <4>2
      <3>2. QED
        BY <2>1, <3>1 DEF NoOptimize
    <2>2. CASE k # j
      BY <1>4, <1>5, <2>2 DEF NoOptimize
    <2>3. QED
      BY <2>1, <2>2
  <1>6. QED
    BY <1>1, <1>2, <1>3, <1>4, <1>5 DEF Next1

LEMMA EmitTypes ==
  ASSUME NativeTyped, NEW j \in Jobs, NEW e \in EventKinds, Emit(j, e)
  PROVE  /\ events' \in [Jobs -> Seq(EventKinds)]
         /\ \A k \in Jobs \ {j} : events'[k] = events[k]
  BY DEF Emit, NativeTyped, NativeTypeOK

LEMMA EraseTypes ==
  ASSUME NativeTyped, NEW j \in Jobs, NEW P, Erase(j, P)
  PROVE  file' \in [Jobs -> [Paths -> Contents]]
  BY DEF Erase, NativeTyped, NativeTypeOK, Contents

LEMMA StartTypes ==
  ASSUME NativeTyped, NEW j \in Jobs, NEW kind \in {"download", "transcode"},
         NEW p \in Paths, Start(j, kind, p)
  PROVE  /\ NativeTyped' /\ UNCHANGED <<events, removals>>
         /\ \A k \in Jobs \ {j} : native'[k] = native[k]
  BY DEF Start, NativeTyped, NativeTypeOK

LEMMA CallTypes ==
  ASSUME NEW at \in {"pause", "resume", "stop", "sweep", "retry"}, NEW ok \in BOOLEAN,
         NEW d \in Dests
  PROVE  Call(at, ok, d) \in Calls
  BY DEF Call, Calls

LEMMA SenderTypes ==
  ASSUME NEW at \in {"pause", "stop", "launch"}, NEW ok \in BOOLEAN, NEW d \in Dests
  PROVE  Call(at, ok, d) \in Senders
  BY DEF Call, Senders

LEMMA DiscardTypes ==
  ASSUME NativeTyped, NEW j \in Jobs, NEW paths \in Seq(Paths), NEW sender \in Senders,
         Discard(j, paths, sender)
  PROVE  NativeTyped' /\ \A k \in Jobs : Calm(k) => Calm(k)'
  <1>1. [paths |-> paths, sender |-> sender] \in Removals
    BY DEF Removals
  <1>2. \E S \in SUBSET Removals : /\ removals' = [removals EXCEPT ![j] = S]
                                   /\ native[j] = "none" => S = removals[j]
    <2>1. CASE native[j] = "none"
      BY <2>1 DEF Discard, NativeTyped
    <2>2. CASE native[j] # "none"
      BY <1>1, <2>2 DEF Discard, NativeTyped
    <2>3. QED
      BY <2>1, <2>2
  <1>3. native' = [native EXCEPT ![j] = "none"] /\ UNCHANGED <<path, file, events>>
    BY DEF Discard, End
  <1>4. QED
    BY <1>2, <1>3 DEF NativeTyped, NativeTypeOK, Calm

LEMMA CommandTypes ==
  ASSUME NativeTyped, NEW j \in Jobs,
         \/ PauseDownload(j) \/ ResumeDownload(j)
         \/ \E sender \in Senders : ForceStop(j, sender) \/ CancelTranscode(j, sender)
         \/ \E p \in Paths, ok \in BOOLEAN : DeleteFile(j, p, ok)
  PROVE  NativeTyped' /\ \A k \in Jobs : Calm(k) => Calm(k)'
  <1>1. CASE PauseDownload(j) \/ ResumeDownload(j)
    BY <1>1 DEF PauseDownload, ResumeDownload, NativeTyped, NativeTypeOK, Calm
  <1>2. ASSUME NEW sender \in Senders, ForceStop(j, sender) \/ CancelTranscode(j, sender)
        PROVE  NativeTyped' /\ \A k \in Jobs : Calm(k) => Calm(k)'
    <2>1. path[j] \in Paths /\ "final" \in Paths
      BY DEF NativeTyped, NativeTypeOK, Paths
    <2>2. <<"final">> \in Seq(Paths) /\ <<path[j]>> \in Seq(Paths)
          /\ <<"final", path[j]>> \in Seq(Paths)
      BY <2>1
    <2>3. UNCHANGED nativeVars \/ \E paths \in Seq(Paths) : Discard(j, paths, sender)
      BY <1>2, <2>2 DEF ForceStop, CancelTranscode
    <2>4. CASE UNCHANGED nativeVars
      BY <2>4 DEF nativeVars, NativeTyped, NativeTypeOK, Calm
    <2>5. QED
      BY <2>3, <2>4, DiscardTypes
  <1>3. ASSUME NEW p \in Paths, NEW ok \in BOOLEAN, DeleteFile(j, p, ok)
        PROVE  NativeTyped' /\ \A k \in Jobs : Calm(k) => Calm(k)'
    <2>1. file' \in [Jobs -> [Paths -> Contents]]
      BY <1>3, EraseTypes DEF DeleteFile, NativeTyped, NativeTypeOK
    <2>2. QED
      BY <1>3, <2>1 DEF DeleteFile, NativeTyped, NativeTypeOK, Calm
  <1>4. QED
    BY <1>1, <1>2, <1>3

\* A removal goes on or ends; either way its job had been touched before.
LEMMA RemovalTypes ==
  ASSUME NativeTyped, NEW j \in Jobs, NEW r \in removals[j],
         RemoveNext(j, r) \/ RemoveLast(j, r) \/ RemovalFails(j, r)
  PROVE  NativeTyped' /\ \A k \in Jobs : Calm(k) => Calm(k)'
  <1>1. r \in Removals /\ r.paths \in Seq(Paths) /\ r.sender \in Senders
    BY DEF NativeTyped, Removals
  <1>2. \E S \in SUBSET Removals : removals' = [removals EXCEPT ![j] = S]
    <2>1. removals[j] \ {r} \in SUBSET Removals
      BY DEF NativeTyped
    <2>2. CASE RemoveLast(j, r) \/ RemovalFails(j, r)
      BY <2>1, <2>2 DEF RemoveLast, RemovalFails
    <2>3. CASE RemoveNext(j, r)
      <3>1. Tail(r.paths) \in Seq(Paths)
        BY <1>1, <2>3 DEF RemoveNext
      <3>2. [r EXCEPT !.paths = Tail(r.paths)] \in Removals
        BY <1>1, <3>1 DEF Removals
      <3>3. (removals[j] \ {r}) \cup {[r EXCEPT !.paths = Tail(r.paths)]} \in SUBSET Removals
        BY <2>1, <3>2
      <3>4. QED
        BY <2>3, <3>3 DEF RemoveNext
    <2>4. QED
      BY <2>2, <2>3
  <1>3. file' \in [Jobs -> [Paths -> Contents]]
    BY EraseTypes DEF RemoveNext, RemoveLast, RemovalFails, NativeTyped, NativeTypeOK
  <1>4. /\ events' \in [Jobs -> Seq(EventKinds)]
        /\ \A k \in Jobs \ {j} : events'[k] = events[k]
    <2>1. UNCHANGED events \/ Emit(j, "canceled") \/ Emit(j, "failed")
      BY DEF RemoveNext, RemoveLast, RemovalFails
    <2>2. QED
      BY <2>1, EmitTypes DEF EventKinds, NativeTyped, NativeTypeOK
  <1>5. UNCHANGED <<native, path>>
    BY DEF RemoveNext, RemoveLast, RemovalFails
  <1>6. QED
    BY <1>2, <1>3, <1>4, <1>5 DEF NativeTyped, NativeTypeOK, Calm

LEMMA WorkerTypes ==
  ASSUME NativeTyped, NEW j \in Jobs, Working(j) \/ Finishing(j)
  PROVE  /\ NativeTyped'
         /\ \A k \in Jobs : Calm(k) => Calm(k)'
  <1>1. /\ native[j] # "none" /\ UNCHANGED <<path, removals>>
        /\ \E m \in {native[j], "none", "encoded"} : native' = [native EXCEPT ![j] = m]
        /\ UNCHANGED events \/ \E e \in EventKinds : Emit(j, e)
    BY DEF Working, Finishing, OpenFile, Receive, Encode, RemoveSource, FinishTransfer, FailTransfer,
           FinishTranscode, FailTranscode, SourceStays, End, EventKinds, NativeTyped, NativeTypeOK
  <1>2. \E f \in [Paths -> Contents] : file' = [file EXCEPT ![j] = f]
    <2> DEFINE Wrote(f) == f \in [Paths -> Contents] /\ file' = [file EXCEPT ![j] = f]
    <2>0. file[j] \in [Paths -> Contents] /\ path[j] \in Paths
      BY DEF NativeTyped, NativeTypeOK
    <2>1. CASE UNCHANGED file
      <3>1. file' = [file EXCEPT ![j] = file[j]]
        BY <2>1 DEF NativeTyped, NativeTypeOK
      <3>2. QED
        BY <2>0, <3>1
    <2>2. ASSUME NEW p \in Paths, NEW x \in Contents, file' = [file EXCEPT ![j][p] = x]
          PROVE  \E f \in [Paths -> Contents] : file' = [file EXCEPT ![j] = f]
      <3>1. [file[j] EXCEPT ![p] = x] \in [Paths -> Contents]
        BY <2>0
      <3>2. file' = [file EXCEPT ![j] = [file[j] EXCEPT ![p] = x]]
        BY <2>2
      <3>3. QED
        BY <3>1, <3>2
    <2>3. CASE RemoveSource(j)
      <3>1. [source |-> "none", final |-> file[j]["source"]] \in [Paths -> Contents]
        BY <2>0 DEF Paths, Contents
      <3>2. QED
        BY <2>3, <3>1 DEF RemoveSource
    <2>4. CASE OpenFile(j) \/ FinishTransfer(j)
      <3>1. \E x \in Contents : file' = [file EXCEPT ![j][path[j]] = x]
        BY <2>4 DEF OpenFile, Spoiled, FinishTransfer, Contents
      <3>2. QED
        BY <2>0, <2>2, <3>1
    <2>5. CASE Encode(j) \/ SourceStays(j)
      <3>1. \E x \in Contents : file' = [file EXCEPT ![j]["final"] = x]
        BY <2>0, <2>5 DEF Encode, SourceStays, Contents, Paths
      <3>2. QED
        BY <2>2, <3>1 DEF Paths
    <2>6. QED
      BY <2>1, <2>3, <2>4, <2>5
      DEF Working, Finishing, Receive, FailTransfer, FinishTranscode, FailTranscode
  <1>3. /\ events' \in [Jobs -> Seq(EventKinds)]
        /\ \A k \in Jobs \ {j} : events'[k] = events[k]
    BY <1>1, EmitTypes DEF NativeTyped, NativeTypeOK
  <1>4. file' \in [Jobs -> [Paths -> Contents]]
    BY <1>2 DEF NativeTyped, NativeTypeOK
  <1>5. QED
    BY <1>1, <1>3, <1>4 DEF NativeTyped, NativeTypeOK, Calm

-----------------------------------------------------------------------------
(***************************************************************************)
(* Every step keeps the types: the queue and the updates.                  *)
(***************************************************************************)
LEMMA QueueTyped ==
  ASSUME Typed, PumpRun \/ Sync \/ \E j \in Jobs : Enqueue(j)
  PROVE  Typed'
  <1> USE DEF Typed, TypeOK, UpdatesGood, DestsKnown, Untouched, Calm, NoOptimize, rowVars, launchVars,
              updateVars, retryVars, callVars, optVars, nativeVars, NativeTyped, NativeTypeOK
  <1>1. ASSUME NEW j \in Jobs, Enqueue(j)
        PROVE  Typed'
    BY <1>1 DEF Enqueue, Pump, Statuses
  <1>2. CASE PumpRun
    <2>1. PICK L \in SUBSET Jobs :
            /\ launch' = [k \in Jobs |-> IF k \in L THEN "marking" ELSE launch[k]]
            /\ updates' = [k \in Jobs |-> IF k \in L
                 THEN Append(updates[k], Set("resolving", "keep", "marked")) ELSE updates[k]]
      BY <1>2 DEF PumpRun
    <2>2. Set("resolving", "keep", "marked") \in GoodUpdates
      BY SetGood DEF Statuses, Active, Continuations
    <2>3. ASSUME NEW k \in Jobs
          PROVE  /\ updates'[k] \in Seq(GoodUpdates) /\ updates'[k] \in Seq(Updates)
                 /\ updates[k] # <<>> => updates'[k] # <<>>
      <3>1. Set("resolving", "keep", "marked") \in Updates
        BY <2>2 DEF GoodUpdates
      <3>2. CASE k \in L
        <4>1. updates'[k] = Append(updates[k], Set("resolving", "keep", "marked"))
          BY <2>1, <3>2
        <4>2. QED
          <5> HIDE DEF Typed, TypeOK, NativeTyped, UpdatesGood
          <5>1. updates[k] \in Seq(GoodUpdates) /\ updates[k] \in Seq(Updates)
            BY DEF Typed, TypeOK, NativeTyped, UpdatesGood
          <5>2. QED
            BY <2>2, <3>1, <4>1, <5>1
      <3>3. CASE k \notin L
        BY <2>1, <3>3
      <3>4. QED
        BY <3>2, <3>3
    <2>4. updates' \in [Jobs -> Seq(Updates)]
      BY <2>1, <2>3
    <2>5. Set("resolving", "keep", "marked").then # "optimize"
      BY DEF Set, Change
    <2>6. ASSUME NEW k \in Jobs, \A i \in 1..Len(updates[k]) : updates[k][i].then # "optimize"
          PROVE  \A i \in 1..Len(updates'[k]) : updates'[k][i].then # "optimize"
      BY <2>1, <2>2, <2>5, <2>6
    <2>7. launch' \in [Jobs -> LaunchPhases]
      BY <2>1 DEF LaunchPhases
    <2>8. /\ DestsKnown'
      BY <1>2, <2>6 DEF PumpRun
    <2>9. QED
      BY <1>2, <2>3, <2>4, <2>7, <2>8 DEF PumpRun
  <1>3. CASE Sync
    BY <1>3 DEF Sync
  <1>4. QED
    BY <1>1, <1>2, <1>3

\* An update that is due, and what it says.
LEMMA DueTyped ==
  ASSUME Typed, NEW j \in Jobs, Due(j) \/ j \in writing
  PROVE  /\ updates[j] # <<>> /\ Next1(j) \in GoodUpdates /\ Next1(j) = updates[j][1]
         /\ Next1(j).to \in Statuses /\ Next1(j).allowed \subseteq Statuses
         /\ Next1(j).dest \in Paths \cup {"keep"} /\ Next1(j).then \in Continuations
         /\ 1 \in 1..Len(updates[j])
  <1>1. updates[j] # <<>> /\ updates[j] \in Seq(GoodUpdates)
    BY DEF Due, Typed, UpdatesGood
  <1>2. Next1(j) \in GoodUpdates /\ Next1(j) = updates[j][1] /\ 1 \in 1..Len(updates[j])
    BY <1>1 DEF Next1
  <1>3. QED
    BY <1>1, <1>2 DEF GoodUpdates, Updates, Dests

LEMMA EndLaunchTypes ==
  ASSUME TypeOK, NEW j \in Jobs, EndLaunch(j) \/ AbortLaunch(j)
  PROVE  /\ launch' \in [Jobs -> LaunchPhases] /\ aborted' \subseteq Jobs
         /\ pumping' \in BOOLEAN
  BY DEF TypeOK, NativeTyped, EndLaunch, AbortLaunch, At, Pump, LaunchPhases

LEMMA StartTranscodeTypes ==
  ASSUME Typed, NEW j \in Jobs, NEW p \in Paths, StartTranscode(j, p)
  PROVE  /\ NativeTyped' /\ UNCHANGED <<events, removals, ffmpeg>>
         /\ claim' \in [Jobs -> {"none", "download", "transcode"}]
         /\ optimizing' \in [Jobs -> SUBSET {"downloading", "paused", "refused"}]
         /\ \A k \in Jobs \ {j} : /\ native'[k] = native[k] /\ claim'[k] = claim[k]
                                  /\ optimizing'[k] = optimizing[k]
  <1>1. NativeTyped /\ Start(j, "transcode", p)
    BY DEF Typed, TypeOK, NativeTyped, StartTranscode
  <1>2. NativeTyped' /\ UNCHANGED <<events, removals>> /\ \A k \in Jobs \ {j} : native'[k] = native[k]
    BY <1>1, StartTypes
  <1>3. QED
    BY <1>2 DEF Typed, TypeOK, NativeTyped, StartTranscode

LEMMA UpdateTyped ==
  ASSUME Typed, NEW j \in Jobs, UpdateStep(j)
  PROVE  Typed'
  <1>1. CASE StartUpdate(j)
    <2>1. Next1(j).to \in Statuses /\ updates[j] # <<>>
      BY <1>1, DueTyped DEF StartUpdate
    <2>2. cache' \in [Jobs -> Statuses \cup {"none"}]
      BY <1>1, <2>1 DEF StartUpdate, Typed, TypeOK, NativeTyped
    <2>3. writing' \subseteq Jobs /\ UpdatesGood'
      BY <1>1, <2>1 DEF StartUpdate, Typed, TypeOK, NativeTyped, UpdatesGood
    <2>4. TypeOK'
      BY <1>1, <2>2, <2>3
      DEF StartUpdate, Typed, TypeOK, rowVars, launchVars, retryVars, callVars, optVars,
          nativeVars, NativeTyped, NativeTypeOK
    <2>5. DestsKnown'
      BY <1>1 DEF StartUpdate, Typed, DestsKnown, Untouched, Calm, NoOptimize, rowVars, optVars, nativeVars
    <2>6. QED
      BY <2>3, <2>4, <2>5 DEF Typed
  <1>2. CASE SkipUpdate(j)
    <2>0. /\ updates[j] # <<>> /\ Next1(j) \in GoodUpdates /\ Next1(j) = updates[j][1]
          /\ Next1(j).then = "optimize" => Next1(j).dest \in Paths
          /\ Pop(j) /\ j \notin writing /\ 1 \in 1..Len(updates[j])
      BY <1>2, DueTyped DEF SkipUpdate, GoodUpdates, Due
    <2>1. /\ updates' \in [Jobs -> Seq(Updates)]
          /\ \A k \in Jobs : updates'[k] \in Seq(GoodUpdates)
          /\ \A k \in Jobs \ {j} : updates'[k] = updates[k]
          /\ \A i \in 1..Len(updates'[j]) :
              updates'[j][i] = updates[j][i + 1] /\ i + 1 \in 1..Len(updates[j])
          /\ \A k \in Jobs : NoOptimize(k) => NoOptimize(k)'
      BY <2>0, PopTyped
    <2>2. /\ launch' \in [Jobs -> LaunchPhases] /\ aborted' \subseteq Jobs
          /\ pumping' \in BOOLEAN
      BY <1>2, EndLaunchTypes DEF SkipUpdate, launchVars, Typed, TypeOK, NativeTyped
    <2>3. /\ NativeTyped' /\ UNCHANGED <<events, removals, ffmpeg>>
          /\ claim' \in [Jobs -> {"none", "download", "transcode"}]
          /\ optimizing' \in [Jobs -> SUBSET {"downloading", "paused", "refused"}]
          /\ \A k \in Jobs : Next1(j).then # "optimize" \/ k # j =>
               /\ native'[k] = native[k] /\ claim'[k] = claim[k]
               /\ optimizing'[k] = optimizing[k]
      <3>1. CASE Next1(j).then = "optimize" /\ cache[j] = "optimizing"
        BY <1>2, <2>0, <3>1, StartTranscodeTypes DEF SkipUpdate
      <3>2. CASE ~(Next1(j).then = "optimize" /\ cache[j] = "optimizing")
        BY <1>2, <3>2 DEF SkipUpdate, optVars, nativeVars, Typed, TypeOK, NativeTyped, NativeTypeOK
      <3>3. QED
        BY <3>1, <3>2
    <2>4. DestsKnown'
      <3>1. SUFFICES ASSUME NEW k \in Jobs, dest[k] = "none" PROVE Untouched(k)'
        BY <1>2 DEF DestsKnown, SkipUpdate, rowVars
      <3>2. Untouched(k)
        BY <3>1 DEF Typed, DestsKnown
      <3>3. Next1(j).then # "optimize" \/ k # j
        BY <2>0, <3>2 DEF Untouched, Calm, NoOptimize
      <3>4. NoOptimize(k)'
        BY <2>1, <3>2 DEF Untouched, Calm
      <3>5. QED
        BY <2>3, <3>2, <3>3, <3>4 DEF Untouched, Calm
    <2>5. UpdatesGood'
      BY <1>2, <2>0, <2>1 DEF Typed, UpdatesGood, SkipUpdate
    <2>6. QED
      BY <1>2, <2>1, <2>2, <2>3, <2>4, <2>5
      DEF SkipUpdate, Typed, TypeOK, NativeTyped, rowVars, retryVars, callVars
  <1>3. QED
    BY <1>1, <1>2 DEF UpdateStep

LEMMA WrittenTyped ==
  ASSUME Typed, NEW j \in Jobs, NEW then, Written(j, then)
  PROVE  /\ updates[j] # <<>> /\ Next1(j) \in GoodUpdates
         /\ row' \in [Jobs -> Statuses \cup {"none"}] /\ cache' \in [Jobs -> Statuses \cup {"none"}]
         /\ dest' \in [Jobs -> Dests] /\ changed' \in BOOLEAN
         /\ writing' = writing \ {j} /\ UNCHANGED restarts
         /\ \A k \in Jobs : dest'[k] = "none" => dest[k] = "none"
         /\ then \in {"claimed", "optimize"} => Next1(j).dest \in Paths /\ dest'[j] # "none"
  <1>1. /\ updates[j] # <<>> /\ Next1(j) \in GoodUpdates
        /\ Next1(j).to \in Statuses /\ Next1(j).dest \in Paths \cup {"keep"}
        /\ then \in {"claimed", "optimize"} => Next1(j).dest \in Paths
    BY DueTyped DEF Written, GoodUpdates
  <1>2. dest' = [dest EXCEPT ![j] = IF Next1(j).dest = "keep" THEN dest[j] ELSE Next1(j).dest]
    BY DEF Written
  <1>3. dest' \in [Jobs -> Dests] /\ \A k \in Jobs : dest'[k] = "none" => dest[k] = "none"
    BY <1>1, <1>2 DEF Typed, TypeOK, NativeTyped, Dests, Paths
  <1>4. then \in {"claimed", "optimize"} => dest'[j] # "none"
    BY <1>1, <1>2 DEF Typed, TypeOK, NativeTyped, Paths
  <1>5. QED
    BY <1>1, <1>3, <1>4 DEF Written, Typed, TypeOK, NativeTyped

\* A write and what is left of the queue.
LEMMA WrittenPopTyped ==
  ASSUME Typed, NEW j \in Jobs, NEW then, Written(j, then), Pop(j)
  PROVE  updates' \in [Jobs -> Seq(Updates)] /\ UpdatesGood' /\ writing' \subseteq Jobs
  <1>1. updates[j] # <<>> /\ writing' = writing \ {j}
    BY WrittenTyped
  <1>2. /\ updates' \in [Jobs -> Seq(Updates)]
        /\ \A k \in Jobs : updates'[k] \in Seq(GoodUpdates)
        /\ \A k \in Jobs \ {j} : updates'[k] = updates[k]
    BY <1>1, PopTyped
  <1>3. QED
    BY <1>1, <1>2 DEF UpdatesGood, Typed, TypeOK, NativeTyped

LEMMA WriteTyped ==
  ASSUME Typed, NEW j \in Jobs,
         WrittenQuietly(j) \/ Marked(j) \/ Claimed(j) \/ CompletionWritten(j)
           \/ ControlWritten(j) \/ TranscodeStarts(j)
  PROVE  Typed'
  <1>1. PICK then : Written(j, then) /\ Pop(j)
    BY DEF WrittenQuietly, Marked, Claimed, CompletionWritten, ControlWritten,
           TranscodeStarts
  <1>2. /\ row' \in [Jobs -> Statuses \cup {"none"}]
        /\ cache' \in [Jobs -> Statuses \cup {"none"}]
        /\ dest' \in [Jobs -> Dests] /\ changed' \in BOOLEAN /\ UNCHANGED restarts
        /\ \A k \in Jobs : dest'[k] = "none" => dest[k] = "none"
    BY <1>1, WrittenTyped
  <1>3. updates' \in [Jobs -> Seq(Updates)] /\ UpdatesGood' /\ writing' \subseteq Jobs
    BY <1>1, WrittenPopTyped
  <1>4. \A k \in Jobs : NoOptimize(k) => NoOptimize(k)'
    BY <1>1, WrittenTyped, PopTyped
  <1>5. /\ launch' \in [Jobs -> LaunchPhases] /\ aborted' \subseteq Jobs
        /\ pumping' \in BOOLEAN
    BY EndLaunchTypes
    DEF Typed, TypeOK, NativeTyped, WrittenQuietly, Marked, Claimed, CompletionWritten, ControlWritten,
        TranscodeStarts, launchVars, At, Pump, LaunchPhases
  <1>6. CASE WrittenQuietly(j) \/ Marked(j) \/ CompletionWritten(j) \/ ControlWritten(j)
    <2>1. /\ UNCHANGED <<claim, unsaved, optVars, waiting, clicks, nativeVars>>
          /\ pausing' \subseteq pausing
          /\ UNCHANGED retryVars \/ ClearRetry(j)
      BY <1>6 DEF WrittenQuietly, Marked, CompletionWritten, ControlWritten, callVars
    <2>2. attempts' \in [Jobs -> 0..MaxRetries] /\ timer' \subseteq Jobs
      <3>1. /\ attempts \in [Jobs -> 0..MaxRetries] /\ timer \subseteq Jobs
            /\ 0 \in 0..MaxRetries
        BY LimitsAssumption DEF Typed, TypeOK
      <3>2. QED
        BY <2>1, <3>1 DEF ClearRetry, retryVars
    <2>3. TypeOK'
      BY <1>2, <1>3, <1>5, <2>1, <2>2
      DEF Typed, TypeOK, NativeTyped, NativeTypeOK, nativeVars, optVars
    <2>4. DestsKnown'
      BY <1>2, <1>4, <2>1 DEF Typed, DestsKnown, Untouched, Calm, optVars, nativeVars
    <2>5. QED
      BY <1>3, <2>3, <2>4 DEF Typed
  <1>7. CASE Claimed(j)
    <2>0. Written(j, "claimed") /\ UNCHANGED <<unsaved, retryVars, optVars, callVars>>
      BY <1>7 DEF Claimed
    <2>1. Next1(j).dest \in Paths /\ dest'[j] # "none"
      BY <2>0, WrittenTyped
    <2>2. /\ claim' \in [Jobs -> {"none", "download", "transcode"}]
          /\ \A k \in Jobs \ {j} : claim'[k] = claim[k]
      BY <1>7 DEF Claimed, Typed, TypeOK, NativeTyped
    <2>3. /\ NativeTyped' /\ UNCHANGED <<events, removals>>
          /\ \A k \in Jobs \ {j} : native'[k] = native[k]
      <3>1. CASE UNCHANGED nativeVars
        BY <3>1 DEF nativeVars, Typed, TypeOK, NativeTyped, NativeTypeOK
      <3>2. CASE Start(j, "download", Next1(j).dest)
        BY <2>1, <3>2, StartTypes DEF Typed, TypeOK, NativeTyped
      <3>3. QED
        BY <1>7, <3>1, <3>2 DEF Claimed
    <2>4. TypeOK'
      BY <1>2, <1>3, <1>5, <2>0, <2>2, <2>3
      DEF Typed, TypeOK, NativeTyped, optVars, retryVars, callVars
    <2>5. DestsKnown'
      BY <1>2, <1>4, <2>0, <2>1, <2>2, <2>3 DEF Typed, DestsKnown, Untouched, Calm, optVars
    <2>6. QED
      BY <1>3, <2>4, <2>5 DEF Typed
  <1>8. CASE TranscodeStarts(j)
    <2>0. /\ Written(j, "optimize") /\ StartTranscode(j, Next1(j).dest)
          /\ UNCHANGED <<unsaved, retryVars, callVars>>
      BY <1>8 DEF TranscodeStarts
    <2>1. Next1(j).dest \in Paths /\ dest'[j] # "none"
      BY <2>0, WrittenTyped
    <2>2. /\ NativeTyped' /\ UNCHANGED <<events, removals, ffmpeg>>
          /\ claim' \in [Jobs -> {"none", "download", "transcode"}]
          /\ optimizing' \in [Jobs -> SUBSET {"downloading", "paused", "refused"}]
          /\ \A k \in Jobs \ {j} : /\ native'[k] = native[k] /\ claim'[k] = claim[k]
                                   /\ optimizing'[k] = optimizing[k]
      BY <2>0, <2>1, StartTranscodeTypes
    <2>3. TypeOK'
      BY <1>2, <1>3, <1>5, <2>0, <2>2 DEF Typed, TypeOK, NativeTyped, retryVars, callVars
    <2>4. DestsKnown'
      BY <1>2, <1>4, <2>1, <2>2 DEF Typed, DestsKnown, Untouched, Calm
    <2>5. QED
      BY <1>3, <2>3, <2>4 DEF Typed
  <1>9. QED
    BY <1>6, <1>7, <1>8

LEMMA FailedTyped ==
  ASSUME Typed, NEW j \in Jobs, Failed(j)
  PROVE  Typed'
  <1>1. PICK then : Written(j, then)
    BY DEF Failed, FailureWritten, RetryScheduled, LaunchNoted
  <1>2. /\ row' \in [Jobs -> Statuses \cup {"none"}]
        /\ cache' \in [Jobs -> Statuses \cup {"none"}]
        /\ dest' \in [Jobs -> Dests] /\ changed' \in BOOLEAN /\ UNCHANGED restarts
        /\ \A k \in Jobs : dest'[k] = "none" => dest[k] = "none"
        /\ writing' = writing \ {j}
    BY <1>1, WrittenTyped
  <1>3. /\ updates' \in [Jobs -> Seq(Updates)] /\ UpdatesGood' /\ writing' \subseteq Jobs
        /\ \A k \in Jobs : NoOptimize(k) => NoOptimize(k)'
    <2>1. CASE Pop(j)
      BY <1>1, <2>1, WrittenPopTyped, WrittenTyped, PopTyped
    <2>2. CASE RetryScheduled(j)
      <3>1. PICK n \in {"pump", "launchNoted"} :
              updates' = [updates EXCEPT ![j] =
                Append(Tail(updates[j]), Change("failed", {"failed"}, "keep", n))]
        BY <2>2 DEF RetryScheduled
      <3>2. /\ Change("failed", {"failed"}, "keep", n) \in GoodUpdates
            /\ Change("failed", {"failed"}, "keep", n) \in Updates
            /\ Change("failed", {"failed"}, "keep", n).then # "optimize"
        <4>1. Change("failed", {"failed"}, "keep", n) \in GoodUpdates
          BY ChangeGood DEF Statuses, Resting, Continuations
        <4>2. QED
          BY <4>1 DEF GoodUpdates, Change
      <3>3. /\ updates[j] # <<>> /\ updates[j] \in Seq(GoodUpdates) /\ updates[j] \in Seq(Updates)
        BY <1>1, WrittenTyped DEF Typed, TypeOK, NativeTyped, UpdatesGood
      <3> DEFINE U == Change("failed", {"failed"}, "keep", n)
      <3> DEFINE T == Append(Tail(updates[j]), U)
      <3> HIDE DEF U
      <3>4. /\ T \in Seq(GoodUpdates) /\ T \in Seq(Updates) /\ Len(T) = Len(updates[j])
            /\ \A i \in 1..(Len(updates[j]) - 1) : T[i] = updates[j][i + 1]
            /\ T[Len(updates[j])] = U
            /\ T # <<>> /\ Len(updates[j]) \in Nat \ {0}
        BY <3>2, <3>3 DEF U
      <3> HIDE DEF T
      <3>5. updates' = [updates EXCEPT ![j] = T]
        BY <3>1 DEF T, U
      <3>6. ASSUME NEW k \in Jobs, NoOptimize(k) PROVE NoOptimize(k)'
        <4>1. CASE k = j
          <5>1. updates'[k] = T
            BY <3>5, <4>1 DEF Typed, TypeOK, NativeTyped
          <5>2. ASSUME NEW i \in 1..Len(T) PROVE T[i].then # "optimize"
            <6>1. CASE i = Len(updates[j])
              BY <3>2, <3>4, <6>1 DEF U
            <6>2. CASE i # Len(updates[j])
              <7>1. i \in 1..(Len(updates[j]) - 1) /\ i + 1 \in 1..Len(updates[j])
                BY <3>4, <6>2
              <7>2. QED
                BY <3>4, <3>6, <4>1, <7>1 DEF NoOptimize
            <6>3. QED
              BY <6>1, <6>2
          <5>3. QED
            BY <5>1, <5>2 DEF NoOptimize
        <4>2. CASE k # j
          BY <3>5, <3>6, <4>2 DEF NoOptimize, Typed, TypeOK, NativeTyped
        <4>3. QED
          BY <4>1, <4>2
      <3>7. QED
        BY <1>2, <3>4, <3>5, <3>6 DEF Typed, TypeOK, NativeTyped, UpdatesGood
    <2>3. QED
      BY <2>1, <2>2 DEF Failed, FailureWritten, LaunchNoted
  <1>4. /\ launch' \in [Jobs -> LaunchPhases] /\ aborted' \subseteq Jobs
        /\ pumping' \in BOOLEAN
    BY EndLaunchTypes
    DEF Typed, TypeOK, NativeTyped, Failed, FailureWritten, RetryScheduled, LaunchNoted, launchVars, Pump
  <1>5. attempts' \in [Jobs -> 0..MaxRetries] /\ timer' \subseteq Jobs
    <2>1. CASE UNCHANGED retryVars
      BY <2>1 DEF Typed, TypeOK, NativeTyped, retryVars
    <2>2. CASE RetryScheduled(j)
      <3>1. attempts[j] \in 0..MaxRetries /\ attempts[j] < MaxRetries
        BY <2>2 DEF RetryScheduled, MayRetry, Typed, TypeOK, NativeTyped
      <3>2. attempts[j] + 1 \in 0..MaxRetries
        BY <3>1, LimitsAssumption
      <3>3. QED
        BY <2>2, <3>2 DEF RetryScheduled, Typed, TypeOK, NativeTyped
    <2>3. QED
      BY <2>1, <2>2 DEF Failed, FailureWritten, LaunchNoted
  <1>6. UNCHANGED <<claim, unsaved, optVars, callVars, nativeVars>>
    BY DEF Failed
  <1>7. TypeOK'
    BY <1>2, <1>3, <1>4, <1>5, <1>6
    DEF Typed, TypeOK, optVars, callVars, nativeVars, NativeTyped, NativeTypeOK
  <1>8. DestsKnown'
    BY <1>2, <1>3, <1>6 DEF Typed, DestsKnown, Untouched, Calm, optVars, nativeVars
  <1>9. QED
    BY <1>3, <1>7, <1>8 DEF Typed

-----------------------------------------------------------------------------
(***************************************************************************)
(* A step that pushes at most one update and leaves the executor and the   *)
(* optimizations alone, or makes them less.                                *)
(***************************************************************************)
LEMMA PushedTyped ==
  ASSUME Typed, NEW j \in Jobs, UNCHANGED <<dest, writing>>,
         \/ UNCHANGED updates
         \/ \E u \in GoodUpdates : u.then # "optimize" /\ Update(j, u)
  PROVE  /\ updates' \in [Jobs -> Seq(Updates)] /\ UpdatesGood' /\ writing' \subseteq Jobs
         /\ \A k \in Jobs : NoOptimize(k) => NoOptimize(k)'
         /\ dest' \in [Jobs -> Dests]
  <1>1. CASE UNCHANGED updates
    BY <1>1 DEF Typed, TypeOK, NativeTyped, UpdatesGood, NoOptimize
  <1>2. ASSUME NEW u \in GoodUpdates, u.then # "optimize", Update(j, u)
        PROVE  /\ updates' \in [Jobs -> Seq(Updates)] /\ UpdatesGood'
               /\ writing' \subseteq Jobs
               /\ \A k \in Jobs : NoOptimize(k) => NoOptimize(k)'
               /\ dest' \in [Jobs -> Dests]
    BY <1>2, PushTyped DEF Typed, TypeOK, NativeTyped, UpdatesGood
  <1>3. QED
    BY <1>1, <1>2

LEMMA PlainSet ==
  ASSUME NEW to \in Statuses, NEW then \in Continuations \ {"claimed", "optimize"},
         NEW d \in Paths \cup {"keep"}
  PROVE  Set(to, d, then) \in GoodUpdates /\ Set(to, d, then).then # "optimize"
  BY SetGood DEF Set, Change

LEMMA FailTypes ==
  ASSUME Typed, NEW j \in Jobs, NEW then \in Continuations \ {"claimed", "optimize"},
         Fail(j, then)
  PROVE  /\ claim' \in [Jobs -> {"none", "download", "transcode"}]
         /\ unsaved' \in [Jobs -> {"none", "downloading", "optimizing"}]
         /\ \A k \in Jobs : claim'[k] \in {claim[k], "none"}
         /\ \E u \in GoodUpdates : u.then # "optimize" /\ Update(j, u)
  BY PlainSet DEF Fail, Forget, Typed, TypeOK, NativeTyped, Statuses, Resting

LEMMA LaunchTyped ==
  ASSUME Typed, NEW j \in Jobs, LaunchStep(j)
  PROVE  Typed'
  <1>1. UNCHANGED <<rowVars, cache, writing, retryVars, optVars, callVars, restarts>>
    BY DEF LaunchStep, Resolved, Located, Measured, Started, Discarded, LaunchError,
           updateVars
  <1>2. /\ launch' \in [Jobs -> LaunchPhases] /\ aborted' \subseteq Jobs
        /\ pumping' \in BOOLEAN
    BY EndLaunchTypes
    DEF Typed, TypeOK, NativeTyped, LaunchStep, Resolved, Located, Measured, Started, Discarded,
        LaunchError, ClaimDestination, At, LaunchPhases
  <1>3. \/ UNCHANGED updates
        \/ \E u \in GoodUpdates : u.then # "optimize" /\ Update(j, u)
    <2>1. CASE ClaimDestination(j)
      <3>1. PICK d \in Paths : Update(j, Set("downloading", d, "claimed"))
        BY <2>1 DEF ClaimDestination, Typed, TypeOK, NativeTyped, Dests, Paths
      <3>2. Set("downloading", d, "claimed") \in GoodUpdates
        BY SetGood DEF Statuses, Active, Continuations
      <3>3. Set("downloading", d, "claimed").then # "optimize"
        BY DEF Set, Change
      <3>4. QED
        BY <3>1, <3>2, <3>3
    <2>2. CASE Fail(j, "launchFailed") \/ Fail(j, "launchTransient")
      BY <2>2, FailTypes DEF Continuations
    <2>3. QED
      BY <2>1, <2>2
      DEF LaunchStep, Resolved, Located, Measured, Started, Discarded, LaunchError,
          updateVars
  <1>4. /\ claim' \in [Jobs -> {"none", "download", "transcode"}]
        /\ unsaved' \in [Jobs -> {"none", "downloading", "optimizing"}]
        /\ \A k \in Jobs : claim'[k] \in {claim[k], "none"}
    <2>1. CASE Fail(j, "launchFailed") \/ Fail(j, "launchTransient")
      BY <2>1, FailTypes DEF Continuations
    <2>2. CASE UNCHANGED <<claim, unsaved>>
      BY <2>2 DEF Typed, TypeOK, NativeTyped
    <2>3. QED
      BY <2>1, <2>2
      DEF LaunchStep, Resolved, Located, Measured, Started, Discarded, LaunchError
  <1>5. /\ NativeTyped'
        /\ \A k \in Jobs : Calm(k) => Calm(k)'
    <2>1. CASE ForceStop(j, Call("launch", TRUE, "none"))
      BY <2>1, SenderTypes, CommandTypes DEF Dests, Typed, TypeOK, NativeTyped
    <2>2. CASE UNCHANGED nativeVars
      BY <2>2 DEF nativeVars, Typed, TypeOK, NativeTyped, NativeTypeOK, Calm
    <2>3. QED
      BY <2>1, <2>2
      DEF LaunchStep, Resolved, Located, Measured, Started, Discarded, LaunchError
  <1>6. /\ updates' \in [Jobs -> Seq(Updates)] /\ UpdatesGood' /\ writing' \subseteq Jobs
        /\ \A k \in Jobs : NoOptimize(k) => NoOptimize(k)'
        /\ dest' \in [Jobs -> Dests]
    BY <1>1, <1>3, PushedTyped DEF rowVars
  <1>7. TypeOK'
    BY <1>1, <1>2, <1>4, <1>5, <1>6
    DEF Typed, TypeOK, NativeTyped, rowVars, retryVars, optVars, callVars
  <1>8. DestsKnown'
    BY <1>1, <1>4, <1>5, <1>6 DEF Typed, DestsKnown, Untouched, Calm, rowVars, optVars
  <1>9. QED
    BY <1>6, <1>7, <1>8 DEF Typed

LEMMA DeliverTypes ==
  ASSUME Typed, NEW j \in Jobs, NEW kinds, Deliver(j, kinds)
  PROVE  /\ NativeTyped' /\ dest[j] # "none"
         /\ \A k \in Jobs : Calm(k) => Calm(k)'
         /\ UNCHANGED <<rowVars, cache, pumping, launchVars, writing, retryVars, callVars,
                        restarts>>
  <1>1. events' \in [Jobs -> Seq(EventKinds)]
    BY DEF Deliver, Typed, TypeOK, NativeTyped, NativeTypeOK
  <1>2. events[j] # <<>> /\ \A k \in Jobs \ {j} : events'[k] = events[k]
    BY DEF Deliver, Typed, TypeOK, NativeTyped, NativeTypeOK
  <1>3. NativeTyped'
    BY <1>1 DEF Deliver, Typed, TypeOK, NativeTyped, NativeTypeOK
  <1>4. QED
    BY <1>2, <1>3 DEF Deliver, Typed, DestsKnown, Untouched, Calm

LEMMA SaveProgressTypes ==
  ASSUME NEW j \in Jobs, NEW phase \in {"downloading", "optimizing"}, SaveProgress(j, phase)
  PROVE  \E u \in GoodUpdates : u.then # "optimize" /\ Update(j, u)
  <1>1. Change(phase, {"downloading", "optimizing"}, "keep", "nothing") \in GoodUpdates
    BY ChangeGood DEF Statuses, Active, Continuations
  <1>2. Change(phase, {"downloading", "optimizing"}, "keep", "nothing").then # "optimize"
    BY DEF Change
  <1>3. QED
    BY <1>1, <1>2 DEF SaveProgress

LEMMA EventTyped ==
  ASSUME Typed, NEW j \in Jobs, EventStep(j)
  PROVE  Typed'
  <1>1. PICK kinds : Deliver(j, kinds)
    BY DEF EventStep, IgnoreEvent, NoteProgress, NativeFailed, NativeCanceled,
           NativeCompleted
  <1>2. /\ NativeTyped' /\ dest[j] # "none"
        /\ \A k \in Jobs : Calm(k) => Calm(k)'
        /\ UNCHANGED <<rowVars, cache, pumping, launchVars, writing, retryVars, callVars,
                       restarts>>
    BY <1>1, DeliverTypes
  <1>3. \/ UNCHANGED updates
        \/ \E u \in GoodUpdates : u.then # "optimize" /\ Update(j, u)
    <2>1. CASE IgnoreEvent(j)
      BY <2>1 DEF IgnoreEvent
    <2>2. CASE NoteProgress(j)
      BY <2>2, SaveProgressTypes DEF NoteProgress
    <2>3. CASE NativeFailed(j)
      BY <2>3, FailTypes DEF NativeFailed, Continuations
    <2>4. CASE NativeCanceled(j)
      BY <2>4, PlainSet DEF NativeCanceled, Continuations, Statuses, Resting
    <2>5. CASE NativeCompleted(j)
      <3>1. UNCHANGED updates \/ \E d \in Paths : Finish(j, d)
        BY <2>5 DEF NativeCompleted, Typed, TypeOK, NativeTyped, NativeTypeOK, Paths
      <3>2. ASSUME NEW d \in Paths, Finish(j, d)
            PROVE  \E u \in GoodUpdates : u.then # "optimize" /\ Update(j, u)
        BY <3>2, PlainSet DEF Finish, Continuations, Statuses, Resting
      <3>3. QED
        BY <3>1, <3>2
    <2>6. QED
      BY <2>1, <2>2, <2>3, <2>4, <2>5 DEF EventStep
  <1>4. /\ claim' \in [Jobs -> {"none", "download", "transcode"}]
        /\ unsaved' \in [Jobs -> {"none", "downloading", "optimizing"}]
        /\ optimizing' \in [Jobs -> SUBSET {"downloading", "paused", "refused"}]
        /\ \A k \in Jobs : claim'[k] \in {claim[k], "none"}
        /\ \A k \in Jobs \ {j} : optimizing'[k] = optimizing[k]
        /\ UNCHANGED ffmpeg
    <2>1. CASE IgnoreEvent(j)
      BY <2>1 DEF IgnoreEvent, optVars, Typed, TypeOK, NativeTyped
    <2>2. CASE NoteProgress(j)
      BY <2>2 DEF NoteProgress, Forget, optVars, Typed, TypeOK, NativeTyped
    <2>3. CASE NativeFailed(j)
      <3>1. /\ UNCHANGED optVars
            /\ Fail(j, "failed") \/ Fail(j, "transient")
        BY <2>3 DEF NativeFailed
      <3>2. /\ claim' \in [Jobs -> {"none", "download", "transcode"}]
            /\ unsaved' \in [Jobs -> {"none", "downloading", "optimizing"}]
            /\ \A k \in Jobs : claim'[k] \in {claim[k], "none"}
        BY <3>1, FailTypes DEF Continuations
      <3>3. QED
        BY <3>1, <3>2 DEF optVars, Typed, TypeOK, NativeTyped
    <2>4. CASE NativeCanceled(j)
      BY <2>4 DEF NativeCanceled, Forget, optVars, Typed, TypeOK, NativeTyped
    <2>5. CASE NativeCompleted(j)
      <3>1. unsaved' \in [Jobs -> {"none", "downloading", "optimizing"}]
        BY <2>5 DEF NativeCompleted, Forget, Typed, TypeOK, NativeTyped
      <3>2. \/ /\ claim' = Forget(claim, j) /\ UNCHANGED optVars
            \/ /\ UNCHANGED <<claim, ffmpeg>>
               /\ \E S \in SUBSET {"downloading"} :
                    optimizing' = [optimizing EXCEPT ![j] = optimizing[j] \cup S]
        <4>1. CASE \E d : Finish(j, d)
          BY <4>1 DEF Finish
        <4>2. CASE /\ UNCHANGED <<claim, ffmpeg>>
                   /\ optimizing' = [optimizing EXCEPT ![j] =
                        IF cache[j] = "downloading" THEN optimizing[j] \cup {"downloading"}
                        ELSE optimizing[j]]
          <5>1. CASE cache[j] = "downloading"
            BY <4>2, <5>1
          <5>2. CASE cache[j] # "downloading"
            <6>1. optimizing' = [optimizing EXCEPT ![j] = optimizing[j] \cup {}]
              BY <4>2, <5>2
            <6>2. QED
              BY <4>2, <6>1
          <5>3. QED
            BY <5>1, <5>2
        <4>3. QED
          BY <2>5, <4>1, <4>2 DEF NativeCompleted
      <3>3. CASE claim' = Forget(claim, j) /\ UNCHANGED optVars
        BY <3>1, <3>3 DEF Forget, optVars, Typed, TypeOK, NativeTyped
      <3>4. ASSUME UNCHANGED <<claim, ffmpeg>>, NEW S \in SUBSET {"downloading"},
                   optimizing' = [optimizing EXCEPT ![j] = optimizing[j] \cup S]
            PROVE  /\ claim' \in [Jobs -> {"none", "download", "transcode"}]
                   /\ optimizing' \in [Jobs -> SUBSET {"downloading", "paused", "refused"}]
                   /\ \A k \in Jobs : claim'[k] \in {claim[k], "none"}
                   /\ \A k \in Jobs \ {j} : optimizing'[k] = optimizing[k]
        BY <3>4 DEF Typed, TypeOK, NativeTyped
      <3>5. QED
        BY <3>1, <3>2, <3>3, <3>4
    <2>6. QED
      BY <2>1, <2>2, <2>3, <2>4, <2>5 DEF EventStep
  <1>5. /\ updates' \in [Jobs -> Seq(Updates)] /\ UpdatesGood' /\ writing' \subseteq Jobs
        /\ \A k \in Jobs : NoOptimize(k) => NoOptimize(k)'
        /\ dest' \in [Jobs -> Dests]
    BY <1>2, <1>3, PushedTyped DEF rowVars
  <1>6. TypeOK'
    BY <1>2, <1>4, <1>5
    DEF Typed, TypeOK, NativeTyped, rowVars, launchVars, retryVars, callVars
  <1>7. DestsKnown'
    BY <1>2, <1>4, <1>5 DEF Typed, DestsKnown, Untouched, Calm, rowVars
  <1>8. QED
    BY <1>5, <1>6, <1>7 DEF Typed

LEMMA AwaitTypes ==
  ASSUME TypeOK, NEW j \in Jobs, NEW call \in Calls, Await(j, call) \/ Answered(j, call)
  PROVE  waiting' \in [Jobs -> SUBSET Calls]
  <1>1. PICK S \in {waiting[j] \cup {call}, waiting[j] \ {call}} :
          waiting' = [waiting EXCEPT ![j] = S]
    BY DEF Await, Answered
  <1>2. waiting \in [Jobs -> SUBSET Calls] /\ S \in SUBSET Calls
    BY DEF TypeOK, NativeTyped
  <1>3. QED
    BY <1>1, <1>2

LEMMA TimerTyped ==
  ASSUME Typed, NEW j \in Jobs, FlushProgress(j) \/ RetryFires(j)
  PROVE  Typed'
  <1>1. CASE FlushProgress(j)
    <2>1. \/ UNCHANGED updates
          \/ \E u \in GoodUpdates : u.then # "optimize" /\ Update(j, u)
      <3>1. unsaved[j] \in {"downloading", "optimizing"}
        BY <1>1 DEF FlushProgress, Typed, TypeOK, NativeTyped
      <3>2. QED
        BY <1>1, <3>1, SaveProgressTypes DEF FlushProgress
    <2>2. /\ updates' \in [Jobs -> Seq(Updates)] /\ UpdatesGood' /\ writing' \subseteq Jobs
          /\ \A k \in Jobs : NoOptimize(k) => NoOptimize(k)'
          /\ dest' \in [Jobs -> Dests]
      BY <1>1, <2>1, PushedTyped DEF FlushProgress, rowVars
    <2>3. unsaved' \in [Jobs -> {"none", "downloading", "optimizing"}]
      BY <1>1 DEF FlushProgress, Forget, Typed, TypeOK, NativeTyped
    <2>4. TypeOK'
      BY <1>1, <2>2, <2>3
      DEF FlushProgress, Typed, TypeOK, rowVars, launchVars, retryVars, optVars, callVars,
          nativeVars, NativeTyped, NativeTypeOK
    <2>5. DestsKnown'
      BY <1>1, <2>2 DEF FlushProgress, Typed, DestsKnown, Untouched, Calm, rowVars, optVars, nativeVars
    <2>6. QED
      BY <2>2, <2>4, <2>5 DEF Typed
  <1>2. CASE RetryFires(j)
    <2>1. waiting' \in [Jobs -> SUBSET Calls]
      BY <1>2, CallTypes, AwaitTypes DEF RetryFires, Typed, Dests
    <2>2. TypeOK' /\ UpdatesGood'
      BY <1>2, <2>1
      DEF RetryFires, Typed, TypeOK, UpdatesGood, rowVars, launchVars, updateVars, optVars,
          nativeVars, NativeTyped, NativeTypeOK
    <2>3. DestsKnown'
      BY <1>2 DEF RetryFires, Typed, DestsKnown, Untouched, Calm, NoOptimize, rowVars, updateVars,
                  optVars, nativeVars
    <2>4. QED
      BY <2>2, <2>3 DEF Typed
  <1>3. QED
    BY <1>1, <1>2

LEMMA ProbedTyped ==
  ASSUME Typed, NEW j \in Jobs, NEW from \in {"downloading", "paused"}, FfmpegProbed(j, from)
  PROVE  Typed'
  <1>1. /\ from \in optimizing[j] /\ dest[j] # "none"
        /\ ffmpeg' \in {"unknown", "present", "absent"}
        /\ optimizing' = [optimizing EXCEPT ![j] = optimizing[j] \ {from}]
        /\ UNCHANGED <<rowVars, cache, pumping, launchVars, writing, retryVars, callVars,
                       restarts, nativeVars>>
    BY DEF FfmpegProbed, Probing, Typed, TypeOK, NativeTyped, DestsKnown, Untouched, Calm
  <1>2. /\ optimizing' \in [Jobs -> SUBSET {"downloading", "paused", "refused"}]
        /\ \A k \in Jobs : optimizing[k] = {} => optimizing'[k] = {}
    BY <1>1 DEF Typed, TypeOK, NativeTyped
  <1> DEFINE d == IF from = "downloading" THEN path[j] ELSE dest[j]
  <1> DEFINE o == Change("optimizing", {from}, d, "optimize")
  <1>3. d \in Paths
    BY <1>1 DEF Typed, TypeOK, NativeTyped, NativeTypeOK, Dests, Paths
  <1>4. o \in GoodUpdates
    <2>1. /\ "optimizing" \in Statuses /\ {from} \in SUBSET Statuses
          /\ "optimize" \in Continuations /\ d \in Paths
      BY <1>3 DEF Statuses, Active, Resting, Continuations
    <2> HIDE DEF d
    <2>2. QED
      BY <2>1, ChangeGood
  <1>5. CASE Update(j, o) /\ UNCHANGED <<claim, unsaved>>
    <2> HIDE DEF o, d
    <2>1. /\ updates' \in [Jobs -> Seq(Updates)] /\ UpdatesGood' /\ writing' \subseteq Jobs
      BY <1>1, <1>4, <1>5, PushTyped DEF Typed, TypeOK, NativeTyped, UpdatesGood
    <2>2. \A k \in Jobs \ {j} : NoOptimize(k) => NoOptimize(k)'
      BY <1>4, <1>5, PushTyped DEF NoOptimize
    <2>3. TypeOK'
      BY <1>1, <1>2, <1>5, <2>1
      DEF Typed, TypeOK, rowVars, launchVars, retryVars, callVars, nativeVars, NativeTyped, NativeTypeOK
    <2>4. DestsKnown'
      BY <1>1, <1>2, <1>5, <2>2 DEF Typed, DestsKnown, Untouched, Calm, rowVars, nativeVars
    <2>5. QED
      BY <2>1, <2>3, <2>4 DEF Typed
  <1>6. CASE Fail(j, "failed") \/ UNCHANGED <<claim, unsaved, updates>>
    <2>1. /\ claim' \in [Jobs -> {"none", "download", "transcode"}]
          /\ unsaved' \in [Jobs -> {"none", "downloading", "optimizing"}]
          /\ \A k \in Jobs : claim'[k] \in {claim[k], "none"}
          /\ \/ UNCHANGED updates
             \/ \E u \in GoodUpdates : u.then # "optimize" /\ Update(j, u)
      BY <1>6, FailTypes DEF Continuations, Typed, TypeOK, NativeTyped
    <2>2. /\ updates' \in [Jobs -> Seq(Updates)] /\ UpdatesGood' /\ writing' \subseteq Jobs
          /\ \A k \in Jobs : NoOptimize(k) => NoOptimize(k)'
          /\ dest' \in [Jobs -> Dests]
      BY <1>1, <2>1, PushedTyped DEF rowVars
    <2>3. TypeOK'
      BY <1>1, <1>2, <2>1, <2>2
      DEF Typed, TypeOK, rowVars, launchVars, retryVars, callVars, nativeVars, NativeTyped, NativeTypeOK
    <2>4. DestsKnown'
      BY <1>1, <1>2, <2>1, <2>2 DEF Typed, DestsKnown, Untouched, Calm, rowVars, nativeVars
    <2>5. QED
      BY <2>2, <2>3, <2>4 DEF Typed
  <1>7. QED
    BY <1>5, <1>6 DEF FfmpegProbed

LEMMA RefusedTyped ==
  ASSUME Typed, NEW j \in Jobs, TranscodeRefused(j)
  PROVE  Typed'
  <1>1. /\ optimizing' = [optimizing EXCEPT ![j] = optimizing[j] \ {"refused"}]
        /\ Fail(j, "failed") \/ UNCHANGED <<claim, unsaved, updates>>
        /\ UNCHANGED <<rowVars, cache, pumping, launchVars, writing, retryVars, ffmpeg,
                       callVars, restarts, nativeVars>>
    BY DEF TranscodeRefused
  <1>2. /\ optimizing' \in [Jobs -> SUBSET {"downloading", "paused", "refused"}]
        /\ \A k \in Jobs : optimizing[k] = {} => optimizing'[k] = {}
    BY <1>1 DEF Typed, TypeOK, NativeTyped
  <1>3. /\ claim' \in [Jobs -> {"none", "download", "transcode"}]
        /\ unsaved' \in [Jobs -> {"none", "downloading", "optimizing"}]
        /\ \A k \in Jobs : claim'[k] \in {claim[k], "none"}
        /\ \/ UNCHANGED updates
           \/ \E u \in GoodUpdates : u.then # "optimize" /\ Update(j, u)
    BY <1>1, FailTypes DEF Continuations, Typed, TypeOK, NativeTyped
  <1>4. /\ updates' \in [Jobs -> Seq(Updates)] /\ UpdatesGood' /\ writing' \subseteq Jobs
        /\ \A k \in Jobs : NoOptimize(k) => NoOptimize(k)'
        /\ dest' \in [Jobs -> Dests]
    BY <1>1, <1>3, PushedTyped DEF rowVars
  <1>5. TypeOK'
    BY <1>1, <1>2, <1>3, <1>4
    DEF Typed, TypeOK, rowVars, launchVars, retryVars, callVars, nativeVars, NativeTyped, NativeTypeOK
  <1>6. DestsKnown'
    BY <1>1, <1>2, <1>3, <1>4 DEF Typed, DestsKnown, Untouched, Calm, rowVars, nativeVars
  <1>7. QED
    BY <1>4, <1>5, <1>6 DEF Typed

-----------------------------------------------------------------------------
(***************************************************************************)
(* The user's controls and their answers.                                  *)
(***************************************************************************)
LEMMA ClickTypes ==
  ASSUME Typed, NEW j \in Jobs, NEW op, Click(j, op)
  PROVE  /\ cache' \in [Jobs -> Statuses \cup {"none"}] /\ clicks' \in 0..MaxClicks
         /\ UNCHANGED <<rowVars, restarts>>
  BY LimitsAssumption DEF Click, Typed, TypeOK, NativeTyped

LEMMA UserTyped ==
  ASSUME Typed, NEW j \in Jobs,
         PauseLaunch(j) \/ PauseNative(j) \/ Resume(j) \/ Retry(j) \/ Stop(j)
  PROVE  Typed'
  <1>1. /\ cache' \in [Jobs -> Statuses \cup {"none"}] /\ clicks' \in 0..MaxClicks
        /\ UNCHANGED <<rowVars, restarts>> /\ UNCHANGED <<claim, writing, ffmpeg>>
    BY ClickTypes
    DEF PauseLaunch, PauseNative, Resume, Retry, Stop, updateVars, optVars
  <1>2. /\ launch' \in [Jobs -> LaunchPhases] /\ aborted' \subseteq Jobs
        /\ pumping' \in BOOLEAN
    BY EndLaunchTypes
    DEF PauseLaunch, PauseNative, Resume, Retry, Stop, launchVars, Typed, TypeOK, NativeTyped
  <1>3. pausing' \subseteq Jobs
    BY DEF PauseLaunch, PauseNative, Resume, Retry, Stop, Typed, TypeOK, NativeTyped
  <1>4. unsaved' \in [Jobs -> {"none", "downloading", "optimizing"}]
    BY DEF PauseLaunch, PauseNative, Resume, Retry, Stop, Forget, Typed, TypeOK, NativeTyped
  <1>5. attempts' \in [Jobs -> 0..MaxRetries] /\ timer' \subseteq Jobs
    <2>1. UNCHANGED retryVars \/ ClearRetry(j)
      BY DEF PauseLaunch, PauseNative, Resume, Retry, Stop
    <2>2. /\ attempts \in [Jobs -> 0..MaxRetries] /\ timer \subseteq Jobs
          /\ 0 \in 0..MaxRetries
      BY LimitsAssumption DEF Typed, TypeOK, NativeTyped
    <2>3. QED
      BY <2>1, <2>2 DEF ClearRetry, retryVars
  <1>6. \/ UNCHANGED updates
        \/ \E u \in GoodUpdates : u.then # "optimize" /\ Update(j, u)
    <2>1. \/ UNCHANGED updates
          \/ Update(j, Set("paused", "keep", "paused"))
          \/ Update(j, Set("queued", "keep", "pump"))
      BY DEF PauseLaunch, PauseNative, Resume, Retry, Stop, updateVars
    <2>2. /\ Set("paused", "keep", "paused") \in GoodUpdates
          /\ Set("paused", "keep", "paused").then # "optimize"
      BY PlainSet DEF Statuses, Resting, Continuations
    <2>3. /\ Set("queued", "keep", "pump") \in GoodUpdates
          /\ Set("queued", "keep", "pump").then # "optimize"
      BY PlainSet DEF Statuses, Continuations
    <2>4. QED
      BY <2>1, <2>2, <2>3
  <1>7. waiting' \in [Jobs -> SUBSET Calls]
    <2>1. UNCHANGED waiting \/ \E call \in Calls : Await(j, call)
      <3>1. CASE PauseNative(j) \/ Resume(j)
        <4>1. \/ UNCHANGED waiting
              \/ \E at \in {"pause", "resume"}, ok \in BOOLEAN : Await(j, Call(at, ok, "none"))
          BY <3>1 DEF PauseNative, Resume, Discarding, PauseRefused, ResumeRefused, Transcoding
        <4>2. QED
          BY <4>1, CallTypes DEF Dests
      <3>2. CASE Stop(j)
        <4>1. UNCHANGED waiting \/ Await(j, Call("stop", TRUE, dest[j]))
          BY <3>2 DEF Stop, Discarding
        <4>2. dest[j] \in Dests
          BY DEF Typed, TypeOK, NativeTyped
        <4>3. QED
          BY <4>1, <4>2, CallTypes
      <3>3. CASE PauseLaunch(j) \/ Retry(j)
        BY <3>3 DEF PauseLaunch, Retry
      <3>4. QED
        BY <3>1, <3>2, <3>3
    <2>2. QED
      BY <2>1, AwaitTypes DEF Typed, TypeOK, NativeTyped
  <1>8. /\ optimizing' \in [Jobs -> SUBSET {"downloading", "paused", "refused"}]
        /\ \A k \in Jobs : dest[k] = "none" => optimizing'[k] = optimizing[k]
    <2>1. \/ UNCHANGED optimizing
          \/ /\ claim[j] = "transcode"
             /\ optimizing' = [optimizing EXCEPT ![j] = optimizing[j] \cup {"paused"}]
      BY DEF PauseLaunch, PauseNative, Resume, Retry, Stop, optVars
    <2>2. optimizing \in [Jobs -> SUBSET {"downloading", "paused", "refused"}]
      BY DEF Typed, TypeOK, NativeTyped
    <2>3. claim[j] = "transcode" => dest[j] # "none"
      BY DEF Typed, DestsKnown, Untouched, Calm
    <2>4. QED
      BY <2>1, <2>2, <2>3
  <1>9. /\ NativeTyped'
        /\ \A k \in Jobs : Calm(k) => Calm(k)'
    <2>1. \/ UNCHANGED nativeVars
          \/ PauseDownload(j) \/ ResumeDownload(j)
          \/ CancelTranscode(j, Call("pause", TRUE, "none"))
          \/ ForceStop(j, Call("stop", TRUE, dest[j]))
      BY DEF PauseLaunch, PauseNative, Resume, Retry, Stop
    <2>2. QED
      <3>1. /\ Call("pause", TRUE, "none") \in Senders
            /\ Call("stop", TRUE, dest[j]) \in Senders
        BY SenderTypes DEF Dests, Typed, TypeOK
      <3>2. NativeTyped
        BY DEF Typed, TypeOK, NativeTyped
      <3>3. CASE UNCHANGED nativeVars
        BY <3>2, <3>3 DEF nativeVars, NativeTyped, NativeTypeOK, Calm
      <3>4. QED
        BY <2>1, <3>1, <3>2, <3>3, CommandTypes
  <1>10. /\ updates' \in [Jobs -> Seq(Updates)] /\ UpdatesGood' /\ writing' \subseteq Jobs
         /\ \A k \in Jobs : NoOptimize(k) => NoOptimize(k)'
         /\ dest' \in [Jobs -> Dests]
    BY <1>1, <1>6, PushedTyped DEF rowVars
  <1>11. TypeOK'
    BY <1>1, <1>2, <1>3, <1>4, <1>5, <1>7, <1>8, <1>9, <1>10 DEF Typed, TypeOK, NativeTyped, rowVars
  <1>12. DestsKnown'
    BY <1>1, <1>8, <1>9, <1>10 DEF Typed, DestsKnown, Untouched, Calm, rowVars
  <1>13. QED
    BY <1>10, <1>11, <1>12 DEF Typed

LEMMA AnswerTyped ==
  ASSUME Typed, NEW j \in Jobs, AnswerStep(j)
  PROVE  Typed'
  <1>1. UNCHANGED <<rowVars, pumping, launchVars, writing, retryVars, optVars, clicks,
                    restarts>>
    BY DEF AnswerStep, PauseAnswered, ResumeAnswered, StopSweeps, StopAnswered, RetryListed,
           updateVars
  <1>2. /\ cache' \in [Jobs -> Statuses \cup {"none"}]
        /\ pausing' \subseteq Jobs
        /\ unsaved' \in [Jobs -> {"none", "downloading", "optimizing"}]
        /\ claim' \in [Jobs -> {"none", "download", "transcode"}]
        /\ \A k \in Jobs : claim'[k] \in {claim[k], "none"}
    BY DEF AnswerStep, PauseAnswered, ResumeAnswered, StopSweeps, StopAnswered, RetryListed,
           Forget, Typed, TypeOK, NativeTyped
  <1>3. \/ UNCHANGED updates
        \/ \E u \in GoodUpdates : u.then # "optimize" /\ Update(j, u)
    <2>1. \/ UNCHANGED updates
          \/ \E to \in Statuses, then \in Continuations \ {"claimed", "optimize"} :
               Update(j, Set(to, "keep", then))
      <3>1. CASE PauseAnswered(j) \/ StopSweeps(j) \/ StopAnswered(j)
        BY <3>1 DEF PauseAnswered, StopSweeps, StopAnswered, updateVars, Statuses, Resting,
                    Continuations
      <3>2. CASE ResumeAnswered(j) \/ RetryListed(j)
        BY <3>2 DEF ResumeAnswered, RetryListed, Statuses, Active, Continuations
      <3>3. QED
        BY <3>1, <3>2 DEF AnswerStep
    <2>2. QED
      BY <2>1, PlainSet
  <1>4. waiting' \in [Jobs -> SUBSET Calls]
    <2>1. CASE StopSweeps(j)
      <3>1. PICK call \in waiting[j], ok \in BOOLEAN :
              waiting' = [waiting EXCEPT ![j] =
                (waiting[j] \ {call}) \cup {Call("sweep", call.ok /\ ok, call.dest)}]
        BY <2>1 DEF StopSweeps
      <3>2. call \in Calls /\ call.ok \in BOOLEAN /\ call.dest \in Dests
        BY DEF Typed, TypeOK, NativeTyped, Calls
      <3>3. Call("sweep", call.ok /\ ok, call.dest) \in Calls
        BY <3>2, CallTypes
      <3>4. QED
        BY <3>1, <3>3 DEF Typed, TypeOK, NativeTyped
    <2>2. CASE ~StopSweeps(j)
      <3>1. \E call : Answered(j, call)
        BY <2>2 DEF AnswerStep, PauseAnswered, ResumeAnswered, StopAnswered, RetryListed
      <3>2. QED
        BY <3>1 DEF Answered, Typed, TypeOK, NativeTyped
    <2>3. QED
      BY <2>1, <2>2
  <1>5. /\ NativeTyped'
        /\ \A k \in Jobs : Calm(k) => Calm(k)'
    <2>1. CASE StopSweeps(j)
      <3>1. PICK call \in waiting[j], ok \in BOOLEAN :
              call.dest # "none" /\ DeleteFile(j, call.dest, ok)
        BY <2>1 DEF StopSweeps
      <3>2. call \in Calls
        BY DEF Typed, TypeOK, NativeTyped
      <3>3. call.dest \in Paths
        BY <3>1, <3>2 DEF Calls, Dests
      <3>4. QED
        BY <3>1, <3>3, CommandTypes DEF Typed, TypeOK, NativeTyped
    <2>2. CASE ~StopSweeps(j)
      <3>1. UNCHANGED nativeVars
        BY <2>2 DEF AnswerStep, PauseAnswered, ResumeAnswered, StopAnswered, RetryListed
      <3>2. QED
        BY <3>1 DEF nativeVars, Typed, TypeOK, NativeTyped, NativeTypeOK, Calm
    <2>3. QED
      BY <2>1, <2>2
  <1>6. /\ updates' \in [Jobs -> Seq(Updates)] /\ UpdatesGood' /\ writing' \subseteq Jobs
        /\ \A k \in Jobs : NoOptimize(k) => NoOptimize(k)'
        /\ dest' \in [Jobs -> Dests]
    BY <1>1, <1>3, PushedTyped DEF rowVars
  <1>7. TypeOK'
    BY <1>1, <1>2, <1>4, <1>5, <1>6
    DEF Typed, TypeOK, NativeTyped, rowVars, launchVars, retryVars, optVars
  <1>8. DestsKnown'
    BY <1>1, <1>2, <1>5, <1>6 DEF Typed, DestsKnown, Untouched, Calm, rowVars, optVars
  <1>9. QED
    BY <1>6, <1>7, <1>8 DEF Typed

LEMMA RestartTyped ==
  ASSUME Typed, Restart
  PROVE  Typed'
  <1>1. /\ \A j \in Jobs : updates'[j] = <<>> /\ optimizing'[j] = {} /\ claim'[j] = "none"
        /\ native' = [j \in Jobs |-> "none"] /\ events' = [j \in Jobs |-> <<>>]
        /\ removals' = [j \in Jobs |-> {}]
        /\ UNCHANGED <<path, file, dest, clicks>>
    BY DEF Restart, KillWorkers
  <1>2. NativeTyped'
    BY <1>1 DEF NativeTyped, NativeTypeOK, Typed, TypeOK
  <1>3. updates' \in [Jobs -> Seq(Updates)] /\ UpdatesGood'
    BY <1>1 DEF Restart, UpdatesGood
  <1>4. DestsKnown'
    BY <1>1 DEF DestsKnown, Untouched, Calm, NoOptimize
  <1>5. /\ row' \in [Jobs -> Statuses \cup {"none"}] /\ cache' \in [Jobs -> Statuses \cup {"none"}]
        /\ launch' \in [Jobs -> LaunchPhases]
        /\ changed' \in BOOLEAN /\ pumping' \in BOOLEAN
        /\ claim' \in [Jobs -> {"none", "download", "transcode"}]
        /\ unsaved' \in [Jobs -> {"none", "downloading", "optimizing"}]
        /\ ffmpeg' \in {"unknown", "present", "absent"}
    BY DEF Restart, Typed, TypeOK, NativeTyped, Statuses, Resting, LaunchPhases
  <1>6. /\ aborted' \subseteq Jobs /\ pausing' \subseteq Jobs /\ writing' \subseteq Jobs
        /\ timer' \subseteq Jobs
        /\ optimizing' \in [Jobs -> SUBSET {"downloading", "paused", "refused"}]
        /\ waiting' \in [Jobs -> SUBSET Calls]
    BY DEF Restart
  <1>7. /\ attempts' \in [Jobs -> 0..MaxRetries]
        /\ clicks' \in 0..MaxClicks /\ restarts' \in 0..MaxRestarts
    BY LimitsAssumption DEF Restart, Typed, TypeOK, NativeTyped
  <1>8. dest' \in [Jobs -> Dests]
    BY <1>1 DEF Typed, TypeOK, NativeTyped
  <1>9. TypeOK'
    BY <1>2, <1>3, <1>5, <1>6, <1>7, <1>8 DEF TypeOK, NativeTyped
  <1>10. QED
    BY <1>3, <1>4, <1>9 DEF Typed

LEMMA RemovalTyped ==
  ASSUME Typed, NEW j \in Jobs, RemovalStep(j)
  PROVE  Typed'
  <1>1. PICK r \in removals[j] :
          \/ RemoveNext(j, r) /\ UNCHANGED waiting
          \/ RemoveLast(j, r) /\ Reply(j, r.sender)
          \/ RemovalFails(j, r) /\ Reply(j, [r.sender EXCEPT !.ok = FALSE])
    BY DEF RemovalStep
  <1>2. NativeTyped' /\ \A k \in Jobs : Calm(k) => Calm(k)'
    <2>1. NativeTyped
      BY DEF Typed, TypeOK, NativeTyped
    <2>2. RemoveNext(j, r) \/ RemoveLast(j, r) \/ RemovalFails(j, r)
      BY <1>1
    <2>3. QED
      BY <2>1, <2>2, RemovalTypes
  <1>3. waiting' \in [Jobs -> SUBSET Calls]
    <2>1. r.sender \in Senders /\ [r.sender EXCEPT !.ok = FALSE] \in Senders
      <3>1. r \in Removals
        BY DEF Typed, TypeOK
      <3>2. QED
        BY <3>1 DEF Removals, Senders
    <2>2. ASSUME NEW call \in Senders, Reply(j, call)
          PROVE  waiting' \in [Jobs -> SUBSET Calls]
      <3>1. CASE call.at = "launch"
        BY <2>2, <3>1 DEF Reply, Typed, TypeOK
      <3>2. CASE call.at # "launch"
        <4>1. call \in Calls /\ Await(j, call)
          BY <2>2, <3>2 DEF Reply, Senders, Calls
        <4>2. QED
          BY <4>1, AwaitTypes DEF Typed
      <3>3. QED
        BY <3>1, <3>2
    <2>3. QED
      BY <1>1, <2>1, <2>2 DEF Typed, TypeOK
  <1>4. TypeOK' /\ UpdatesGood'
    BY <1>2, <1>3
    DEF RemovalStep, Typed, TypeOK, NativeTyped, UpdatesGood, rowVars, launchVars,
        updateVars, retryVars, optVars
  <1>5. DestsKnown'
    BY <1>2 DEF RemovalStep, Typed, DestsKnown, Untouched, NoOptimize, rowVars, updateVars,
                optVars
  <1>6. QED
    BY <1>4, <1>5 DEF Typed

LEMMA TypedInductive == Typed /\ [Next]_vars => Typed'
  <1>1. SUFFICES ASSUME Typed, [Next]_vars PROVE Typed'
    OBVIOUS
  <1>2. ASSUME NEW j \in Jobs, WorkerStep(j)
        PROVE  Typed'
    <2>1. /\ NativeTyped'
          /\ \A k \in Jobs : Calm(k) => Calm(k)'
      BY <1>1, <1>2, WorkerTypes DEF WorkerStep, Typed, TypeOK, NativeTyped
    <2>2. TypeOK' /\ UpdatesGood'
      BY <1>1, <1>2, <2>1
      DEF WorkerStep, Typed, TypeOK, NativeTyped, UpdatesGood, rowVars, launchVars, updateVars,
          retryVars, optVars, callVars
    <2>3. DestsKnown'
      BY <1>1, <1>2, <2>1
      DEF WorkerStep, Typed, DestsKnown, Untouched, Calm, NoOptimize, rowVars, updateVars, optVars
    <2>4. QED
      BY <2>2, <2>3 DEF Typed
  <1>3. CASE PumpRun \/ Sync
    BY <1>1, <1>3, QueueTyped
  <1>4. ASSUME NEW j \in Jobs, WebStep(j)
        PROVE  Typed'
    BY <1>1, <1>4, UpdateTyped, WriteTyped, FailedTyped, LaunchTyped, EventTyped, TimerTyped,
       ProbedTyped, RefusedTyped, AnswerTyped
    DEF WebStep, WriteStep, OptimizeStep
  <1>5. ASSUME NEW j \in Jobs, UserStep(j)
        PROVE  Typed'
    BY <1>1, <1>5, QueueTyped, UserTyped DEF UserStep
  <1>6. CASE Restart
    BY <1>1, <1>6, RestartTyped
  <1>7. CASE UNCHANGED vars
    BY <1>1, <1>7
    DEF vars, Typed, TypeOK, UpdatesGood, DestsKnown, Untouched, Calm, NoOptimize, NativeTyped, NativeTypeOK,
        rowVars, launchVars, updateVars, retryVars, optVars, callVars, nativeVars
  <1>8. ASSUME NEW j \in Jobs, RemovalStep(j)
        PROVE  Typed'
    BY <1>1, <1>8, RemovalTyped
  <1>9. QED
    BY <1>1, <1>2, <1>3, <1>4, <1>5, <1>6, <1>7, <1>8 DEF Next

LEMMA TypedInvariant == Spec => []Typed
  <1>1. Init => Typed
    BY InitTyped
  <1>2. Typed /\ [Next]_vars => Typed'
    BY TypedInductive
  <1>3. QED
    BY <1>1, <1>2, PTL DEF Spec

\* Every variable of the queue and of the executor keeps its type; for that, no
\* command is sent for a job whose destination is not known yet.
THEOREM TypeCorrect == Spec => []TypeOK
  BY TypedInvariant, PTL DEF Typed

-----------------------------------------------------------------------------
(***************************************************************************)
(* The slots.  A row becomes active by an update that belongs to a launch, *)
(* or by one that only an active row permits; and a launch whose update is *)
(* queued does not end before that update is done.                         *)
(***************************************************************************)
LaunchThens == {"marked", "claimed", "launchFailed", "launchTransient", "launchNoted"}
PhaseOf(then) ==
  IF then = "marked" THEN "marking" ELSE IF then = "claimed" THEN "claiming" ELSE "failing"
Holding == {"marking", "claiming", "failing"}

\* The launch is where the update it awaits says, and awaits one only.
LaunchesMatch(j) ==
  \A i \in 1..Len(updates[j]) : updates[j][i].then \in LaunchThens =>
    /\ launch[j] = PhaseOf(updates[j][i].then)
    /\ \A h \in 1..Len(updates[j]) : updates[j][h].then \in LaunchThens => h = i

\* An update that makes the row active admits the job to a slot only if it is
\* its launch's.
Fits(u) ==
  u.to \in Active =>
    u.then \in {"marked", "claimed"} \/ u.allowed \subseteq {"downloading", "optimizing"}
UpdatesFit(j) == \A i \in 1..Len(updates[j]) : Fits(updates[j][i])

\* Between two updates of a job its cached status is the durable one.
CacheFresh(j) == j \notin writing => cache[j] \in {row[j], "none"}

WritingFits(j) ==
  j \in writing /\ updates[j][1].to \in Active =>
    updates[j][1].then \in {"marked", "claimed"} \/ row[j] \in Active

\* Nobody resumed the job past the queue.
NoResume(j) ==
  "paused" \notin optimizing[j] /\ \A call \in waiting[j] : call.at # "resume"

SlotParts(j) ==
  LaunchesMatch(j) /\ UpdatesFit(j) /\ CacheFresh(j) /\ WritingFits(j) /\ NoResume(j)
SlotInv == Typed /\ \A j \in Jobs : SlotParts(j)

\* A step of job j that neither starts nor ends an update.
Moves(j) ==
  /\ UNCHANGED <<row, writing>>
  /\ \A k \in Jobs \ {j} : /\ launch'[k] = launch[k] /\ updates'[k] = updates[k]
                           /\ optimizing'[k] = optimizing[k] /\ waiting'[k] = waiting[k]
  /\ \A k \in Jobs : cache'[k] \in {cache[k], row[k]}
  /\ launch'[j] = launch[j] \/ launch[j] \notin Holding
  /\ launch[j] = "none" => launch'[j] = "none"
  /\ \/ UNCHANGED updates
     \/ \E u \in GoodUpdates :
          /\ Update(j, u) /\ Fits(u)
          /\ u.then \in LaunchThens => launch[j] \notin Holding /\ launch'[j] = PhaseOf(u.then)
  /\ NoResume(j)'

LEMMA NextTyped ==
  ASSUME Typed, NEW j \in Jobs
  PROVE  /\ updates[j] \in Seq(GoodUpdates) /\ Len(updates[j]) \in Nat
         /\ j \in writing => 1 \in 1..Len(updates[j])
         /\ Next1(j) = updates[j][1]
         /\ \A i \in 1..Len(updates[j]) :
              /\ updates[j][i] \in GoodUpdates
              /\ updates[j][i].then \in LaunchThens => PhaseOf(updates[j][i].then) \in Holding
  <1>1. updates[j] \in Seq(GoodUpdates) /\ (j \in writing => updates[j] # <<>>)
    BY DEF Typed, UpdatesGood
  <1>2. Len(updates[j]) \in Nat /\ \A i \in 1..Len(updates[j]) : updates[j][i] \in GoodUpdates
    BY <1>1
  <1>3. Next1(j) = updates[j][1] /\ (j \in writing => 1 \in 1..Len(updates[j]))
    BY <1>1 DEF Next1
  <1>4. QED
    BY <1>1, <1>2, <1>3 DEF LaunchThens, PhaseOf, Holding

LEMMA PhasesHold ==
  ASSUME NEW then \in LaunchThens
  PROVE  PhaseOf(then) \in Holding
  BY DEF LaunchThens, PhaseOf, Holding

LEMMA MovesKeepSlots ==
  ASSUME SlotInv, Typed', NEW j \in Jobs, Moves(j)
  PROVE  SlotInv' /\ Busy' \subseteq Busy
  <1>1. ASSUME NEW k \in Jobs \ {j}
        PROVE  SlotParts(k)'
    <2>1. SlotParts(k) /\ CacheFresh(k)
      BY DEF SlotInv, SlotParts
    <2>2. CacheFresh(k)'
      BY <2>1 DEF CacheFresh, Moves
    <2>3. QED
      BY <2>1, <2>2
      DEF SlotParts, LaunchesMatch, UpdatesFit, WritingFits, NoResume, Moves
  <1>2. SlotParts(j)'
    <2>0. SlotParts(j)
      BY DEF SlotInv
    <2>1. CacheFresh(j)' /\ NoResume(j)'
      BY <2>0 DEF Moves, CacheFresh, SlotParts
    <2>2. CASE UNCHANGED updates
      <3>1. LaunchesMatch(j)'
        BY <2>0, <2>2, PhasesHold DEF Moves, LaunchesMatch, SlotParts
      <3>2. UpdatesFit(j)' /\ WritingFits(j)'
        BY <2>0, <2>2 DEF Moves, UpdatesFit, WritingFits, SlotParts
      <3>3. QED
        BY <2>1, <3>1, <3>2 DEF SlotParts
    <2>3. ASSUME NEW u \in GoodUpdates, Update(j, u), Fits(u),
                 u.then \in LaunchThens =>
                   launch[j] \notin Holding /\ launch'[j] = PhaseOf(u.then)
          PROVE  SlotParts(j)'
      <3>1. /\ Len(updates'[j]) = Len(updates[j]) + 1 /\ Len(updates[j]) \in Nat
            /\ \A i \in 1..Len(updates[j]) : updates'[j][i] = updates[j][i]
            /\ updates'[j][Len(updates[j]) + 1] = u
            /\ j \in writing => 1 \in 1..Len(updates[j])
        BY <2>3, PushTyped, NextTyped DEF SlotInv
      <3>2. \A i \in 1..Len(updates'[j]) : i \in 1..Len(updates[j]) \/ i = Len(updates[j]) + 1
        BY <3>1
      <3>3. UpdatesFit(j)'
        BY <2>0, <2>3, <3>1, <3>2 DEF UpdatesFit, SlotParts
      <3>4. WritingFits(j)'
        BY <2>0, <3>1 DEF WritingFits, SlotParts, Moves
      <3>5. \A i \in 1..Len(updates[j]) : updates[j][i].then \in LaunchThens =>
              /\ launch'[j] = launch[j] /\ launch[j] = PhaseOf(updates[j][i].then)
              /\ launch[j] \in Holding
        BY <2>0, PhasesHold DEF LaunchesMatch, SlotParts, Moves
      <3>6. LaunchesMatch(j)'
        <4>1. SUFFICES ASSUME NEW i \in 1..Len(updates'[j]), updates'[j][i].then \in LaunchThens
                       PROVE  /\ launch'[j] = PhaseOf(updates'[j][i].then)
                              /\ \A h \in 1..Len(updates'[j]) :
                                   updates'[j][h].then \in LaunchThens => h = i
          BY DEF LaunchesMatch
        <4>2. CASE u.then \in LaunchThens
          <5>1. i = Len(updates[j]) + 1
            BY <2>3, <3>1, <3>2, <3>5, <4>1, <4>2
          <5>2. \A h \in 1..Len(updates'[j]) :
                  updates'[j][h].then \in LaunchThens => h = Len(updates[j]) + 1
            BY <2>3, <3>1, <3>2, <3>5, <4>2
          <5>3. QED
            BY <2>3, <3>1, <4>2, <5>1, <5>2
        <4>3. CASE u.then \notin LaunchThens
          <5>1. i \in 1..Len(updates[j])
            BY <3>1, <3>2, <4>1, <4>3
          <5>2. ASSUME NEW h \in 1..Len(updates'[j]), updates'[j][h].then \in LaunchThens
                PROVE  h = i
            <6>1. h \in 1..Len(updates[j])
              BY <3>1, <3>2, <4>3, <5>2
            <6>2. QED
              BY <2>0, <3>1, <4>1, <5>1, <5>2, <6>1 DEF LaunchesMatch, SlotParts
          <5>3. QED
            BY <3>1, <3>5, <4>1, <5>1, <5>2
        <4>4. QED
          BY <4>2, <4>3
      <3>7. QED
        BY <2>1, <3>3, <3>4, <3>6 DEF SlotParts
    <2>4. QED
      BY <2>2, <2>3 DEF Moves
  <1>3. Busy' \subseteq Busy
    BY DEF Busy, Moves
  <1>4. QED
    BY <1>1, <1>2, <1>3 DEF SlotInv

\* The first update of job j is done; one more may have been queued behind the
\* others.
Ends(j) ==
  /\ updates[j] # <<>> /\ writing' = writing \ {j}
  /\ \A k \in Jobs \ {j} :
       /\ launch'[k] = launch[k] /\ updates'[k] = updates[k] /\ row'[k] = row[k]
       /\ cache'[k] = cache[k]
       /\ optimizing'[k] = optimizing[k] /\ waiting'[k] = waiting[k]
  /\ \/ Len(updates'[j]) = Len(updates[j]) - 1
     \/ /\ Len(updates'[j]) = Len(updates[j])
        /\ Fits(updates'[j][Len(updates[j])])
        /\ updates'[j][Len(updates[j])].then \in LaunchThens =>
             /\ Next1(j).then \in LaunchThens
             /\ launch'[j] = PhaseOf(updates'[j][Len(updates[j])].then)
  /\ \A i \in 1..(Len(updates[j]) - 1) : updates'[j][i] = updates[j][i + 1]
  /\ \/ Next1(j).then \in LaunchThens
     \/ launch'[j] = launch[j] \/ launch[j] \notin Holding
  /\ cache'[j] \in {row'[j], "none"}
  /\ NoResume(j)'

LEMMA EndsKeepSlots ==
  ASSUME SlotInv, Typed', NEW j \in Jobs, Ends(j)
  PROVE  \A k \in Jobs : SlotParts(k)'
  <1>1. ASSUME NEW k \in Jobs \ {j}
        PROVE  SlotParts(k)'
    <2>1. SlotParts(k)
      BY DEF SlotInv
    <2>2. k \in writing' <=> k \in writing
      BY DEF Ends
    <2>3. QED
      BY <2>1, <2>2
      DEF SlotParts, LaunchesMatch, UpdatesFit, CacheFresh, WritingFits, NoResume, Ends
  <1>2. SlotParts(j)'
    <2> DEFINE n == Len(updates[j])
    <2>0. /\ LaunchesMatch(j) /\ UpdatesFit(j) /\ n \in Nat \ {0}
          /\ Next1(j) = updates[j][1] /\ 1 \in 1..n /\ j \notin writing'
      <3>1. updates[j] \in Seq(GoodUpdates) /\ updates[j] # <<>>
        BY NextTyped DEF SlotInv, Ends
      <3>2. QED
        BY <3>1, NextTyped DEF SlotInv, SlotParts, Ends
    <2>1. CacheFresh(j)' /\ WritingFits(j)' /\ NoResume(j)'
      BY <2>0 DEF Ends, CacheFresh, WritingFits
    <2>2. ASSUME NEW i \in 1..Len(updates'[j]), i # n
          PROVE  /\ i \in 1..(n - 1) /\ i + 1 \in 1..n
                 /\ updates'[j][i] = updates[j][i + 1]
      BY <2>0, <2>2 DEF Ends
    <2>3. ASSUME n \in 1..Len(updates'[j])
          PROVE  /\ Fits(updates'[j][n])
                 /\ updates'[j][n].then \in LaunchThens =>
                      /\ Next1(j).then \in LaunchThens
                      /\ launch'[j] = PhaseOf(updates'[j][n].then)
      BY <2>0, <2>3 DEF Ends
    <2> HIDE DEF n
    <2>4. UpdatesFit(j)'
      BY <2>0, <2>2, <2>3 DEF UpdatesFit, n
    <2>5. LaunchesMatch(j)'
      <3>1. SUFFICES ASSUME NEW i \in 1..Len(updates'[j]), updates'[j][i].then \in LaunchThens
                     PROVE  /\ launch'[j] = PhaseOf(updates'[j][i].then)
                            /\ \A h \in 1..Len(updates'[j]) :
                                 updates'[j][h].then \in LaunchThens => h = i
        BY DEF LaunchesMatch
      <3>2. CASE Next1(j).then \in LaunchThens
        <4>1. \A h \in 1..n : updates[j][h].then \in LaunchThens => h = 1
          BY <2>0, <3>2 DEF LaunchesMatch, n
        <4>2. \A h \in 1..Len(updates'[j]) : updates'[j][h].then \in LaunchThens => h = n
          <5>1. SUFFICES ASSUME NEW h \in 1..Len(updates'[j]),
                                updates'[j][h].then \in LaunchThens, h # n
                         PROVE  FALSE
            OBVIOUS
          <5>2. h + 1 \in 1..n /\ updates[j][h + 1].then \in LaunchThens
            BY <2>2, <5>1
          <5>3. h + 1 = 1
            BY <4>1, <5>2
          <5>4. QED
            BY <5>1, <5>3, NextTyped DEF SlotInv
        <4>3. i = n
          BY <3>1, <4>2
        <4>4. QED
          BY <2>3, <3>1, <4>2, <4>3
      <3>3. CASE Next1(j).then \notin LaunchThens
        <4>1. ASSUME NEW h \in 1..Len(updates'[j]), updates'[j][h].then \in LaunchThens
              PROVE  /\ h \in 1..(n - 1) /\ h + 1 \in 1..n
                     /\ updates'[j][h] = updates[j][h + 1]
          BY <2>2, <2>3, <3>3, <4>1
        <4>2. /\ i + 1 \in 1..n /\ updates'[j][i] = updates[j][i + 1]
              /\ launch[j] = PhaseOf(updates[j][i + 1].then)
          BY <2>0, <3>1, <4>1 DEF LaunchesMatch, n
        <4>3. launch'[j] = launch[j]
          BY <3>1, <3>3, <4>2, PhasesHold DEF Ends
        <4>4. ASSUME NEW h \in 1..Len(updates'[j]), updates'[j][h].then \in LaunchThens
              PROVE  h = i
          <5>1. h + 1 \in 1..n /\ updates[j][h + 1].then \in LaunchThens
            BY <4>1, <4>4
          <5>2. h + 1 = i + 1
            BY <2>0, <3>1, <4>2, <5>1 DEF LaunchesMatch, n
          <5>3. QED
            BY <5>2
        <4>5. QED
          BY <4>2, <4>3, <4>4
      <3>4. QED
        BY <3>2, <3>3
    <2>6. QED
      BY <2>1, <2>4, <2>5 DEF SlotParts
  <1>3. QED
    BY <1>1, <1>2

\* A written update makes a row active only where the job has its slot already.
LEMMA WriteKeepsSlots ==
  ASSUME SlotInv, Typed', NEW j \in Jobs, NEW then, Written(j, then), Ends(j),
         launch[j] = "none" => launch'[j] = "none"
  PROVE  SlotInv' /\ Busy' \subseteq Busy
  <1>1. \A k \in Jobs : SlotParts(k)'
    BY EndsKeepSlots
  <1>2. /\ LaunchesMatch(j) /\ WritingFits(j) /\ j \in writing /\ Next1(j) = updates[j][1]
        /\ 1 \in 1..Len(updates[j])
    BY NextTyped DEF SlotInv, SlotParts, Written
  <1>3. row' = [row EXCEPT ![j] = Next1(j).to]
    BY DEF Written
  <1>4. ASSUME NEW k \in Jobs, k \in Busy'
        PROVE  k \in Busy
    <2>1. CASE k # j
      BY <1>4, <2>1 DEF Busy, Ends
    <2>2. CASE k = j /\ launch'[j] # "none"
      BY <2>2 DEF Busy
    <2>3. CASE k = j /\ row'[j] \in Active
      <3>1. Next1(j).to \in Active
        BY <1>3, <2>3 DEF SlotInv, Typed, TypeOK, NativeTyped
      <3>2. CASE Next1(j).then \in {"marked", "claimed"}
        BY <1>2, <2>3, <3>2 DEF LaunchesMatch, LaunchThens, PhaseOf, Busy
      <3>3. CASE row[j] \in Active
        BY <2>3, <3>3 DEF Busy
      <3>4. QED
        BY <1>2, <3>1, <3>2, <3>3 DEF WritingFits
    <2>4. QED
      BY <1>4, <2>1, <2>2, <2>3 DEF Busy
  <1>5. QED
    BY <1>1, <1>4 DEF SlotInv, Busy

LEMMA WrittenEnds ==
  ASSUME SlotInv, NEW j \in Jobs, NEW then, Written(j, then), Pop(j),
         \A k \in Jobs \ {j} : /\ launch'[k] = launch[k] /\ optimizing'[k] = optimizing[k]
                               /\ waiting'[k] = waiting[k],
         then \in LaunchThens \/ launch'[j] = launch[j],
         NoResume(j)'
  PROVE  Ends(j) /\ (launch[j] = "none" => launch'[j] = "none")
  <1>1. Next1(j).then = then /\ Next1(j) = updates[j][1] /\ 1 \in 1..Len(updates[j])
    BY NextTyped DEF SlotInv, Written
  <1>2. then \in LaunchThens => launch[j] # "none"
    BY <1>1, PhasesHold DEF SlotInv, SlotParts, LaunchesMatch, Holding
  <1>3. /\ updates[j] # <<>> /\ Len(updates'[j]) = Len(updates[j]) - 1
        /\ \A k \in Jobs \ {j} : updates'[k] = updates[k]
        /\ \A i \in 1..Len(updates'[j]) : updates'[j][i] = updates[j][i + 1]
    BY WrittenTyped, PopTyped DEF SlotInv
  <1>4. /\ writing' = writing \ {j}
        /\ row' = [row EXCEPT ![j] = Next1(j).to] /\ cache' = [cache EXCEPT ![j] = Next1(j).to]
    BY DEF Written
  <1>5. \A i \in 1..(Len(updates[j]) - 1) : updates'[j][i] = updates[j][i + 1]
    BY <1>3
  <1>6. /\ cache'[j] = row'[j]
        /\ \A k \in Jobs \ {j} : row'[k] = row[k] /\ cache'[k] = cache[k]
    BY <1>4 DEF SlotInv, Typed, TypeOK, NativeTyped
  <1>7. QED
    BY <1>1, <1>2, <1>3, <1>4, <1>5, <1>6 DEF Ends

LEMMA WriteSlots ==
  ASSUME SlotInv, Typed', NEW j \in Jobs, WriteStep(j)
  PROVE  SlotInv' /\ Busy' \subseteq Busy
  <1> DEFINE Kept == SlotInv' /\ Busy' \subseteq Busy
  <1>0. NoResume(j)
    BY DEF SlotInv, SlotParts
  <1>1. ASSUME NEW then, Written(j, then), Pop(j), UNCHANGED <<optimizing, waiting>>,
               UNCHANGED launch \/ (then \in LaunchThens /\ \E p : At(j, p))
        PROVE  Kept
    <2>1. /\ \A k \in Jobs \ {j} : launch'[k] = launch[k]
          /\ then \in LaunchThens \/ launch'[j] = launch[j]
      BY <1>1 DEF At, SlotInv, Typed, TypeOK, NativeTyped
    <2>2. NoResume(j)'
      BY <1>0, <1>1 DEF NoResume
    <2>3. Ends(j) /\ (launch[j] = "none" => launch'[j] = "none")
      BY <1>1, <2>1, <2>2, WrittenEnds
    <2>4. QED
      BY <1>1, <2>3, WriteKeepsSlots
  <1>2. CASE WrittenQuietly(j) \/ CompletionWritten(j) \/ ControlWritten(j)
    <2>1. PICK then : Written(j, then) /\ Pop(j)
      BY <1>2 DEF WrittenQuietly, CompletionWritten, ControlWritten
    <2>2. UNCHANGED <<optimizing, waiting, launch>>
      BY <1>2 DEF WrittenQuietly, CompletionWritten, ControlWritten, launchVars, optVars,
                  callVars
    <2>3. QED
      BY <1>1, <2>1, <2>2
  <1>3. CASE Marked(j)
    <2>1. /\ Written(j, "marked") /\ Pop(j) /\ UNCHANGED <<optimizing, waiting>>
          /\ At(j, "none") \/ At(j, "resolving")
      BY <1>3 DEF Marked, optVars, callVars, EndLaunch
    <2>2. QED
      BY <1>1, <2>1 DEF LaunchThens
  <1>4. CASE Claimed(j)
    <2>1. /\ Written(j, "claimed") /\ Pop(j) /\ UNCHANGED <<optimizing, waiting>>
          /\ \E p : At(j, p)
      BY <1>4 DEF Claimed, optVars, callVars, EndLaunch
    <2>2. QED
      BY <1>1, <2>1 DEF LaunchThens
  <1>5. CASE FailureWritten(j) /\ UNCHANGED <<optVars, callVars>>
    <2>1. \E then : /\ Written(j, then) /\ Pop(j)
                    /\ UNCHANGED launch \/ (then \in LaunchThens /\ \E p : At(j, p))
      BY <1>5 DEF FailureWritten, EndLaunch, launchVars, LaunchThens
    <2>2. UNCHANGED <<optimizing, waiting>>
      BY <1>5 DEF optVars, callVars
    <2>3. QED
      BY <1>1, <2>1, <2>2
  <1>6. CASE LaunchNoted(j) /\ UNCHANGED <<optVars, callVars>>
    <2>1. Written(j, "launchNoted") /\ Pop(j) /\ At(j, "none")
      BY <1>6 DEF LaunchNoted, EndLaunch
    <2>2. QED
      BY <1>1, <1>6, <2>1 DEF LaunchThens, optVars, callVars
  <1>7. CASE RetryScheduled(j) /\ UNCHANGED <<optVars, callVars>>
    <2>1. PICK then \in {"transient", "launchTransient"} :
            /\ Written(j, then)
            /\ updates' = [updates EXCEPT ![j] = Append(Tail(updates[j]),
                 Change("failed", {"failed"}, "keep",
                        IF then = "transient" THEN "pump" ELSE "launchNoted"))]
      BY <1>7 DEF RetryScheduled
    <2> DEFINE U == Change("failed", {"failed"}, "keep",
                           IF then = "transient" THEN "pump" ELSE "launchNoted")
    <2>2. /\ U.to = "failed" /\ U \in GoodUpdates
          /\ then = "transient" => U.then = "pump"
          /\ then = "launchTransient" => U.then = "launchNoted"
      BY ChangeGood DEF Change, Statuses, Resting, Continuations
    <2> HIDE DEF U
    <2>3. updates' = [updates EXCEPT ![j] = Append(Tail(updates[j]), U)]
      BY <2>1 DEF U
    <2>4. /\ Next1(j).then = then /\ updates[j] # <<>> /\ updates[j] \in Seq(GoodUpdates)
          /\ updates \in [Jobs -> Seq(Updates)]
      BY <2>1, NextTyped, WrittenTyped DEF SlotInv, Typed, TypeOK, NativeTyped, Written
    <2>5. /\ \A k \in Jobs \ {j} : updates'[k] = updates[k]
          /\ updates'[j] = Append(Tail(updates[j]), U)
      BY <2>3, <2>4
    <2>6. /\ Len(updates'[j]) = Len(updates[j])
          /\ updates'[j][Len(updates[j])] = U
          /\ \A i \in 1..(Len(updates[j]) - 1) : updates'[j][i] = updates[j][i + 1]
      BY <2>2, <2>4, <2>5
    <2>7. /\ UNCHANGED <<launch, optimizing, waiting>>
          /\ writing' = writing \ {j}
          /\ cache'[j] = row'[j]
          /\ \A k \in Jobs \ {j} : row'[k] = row[k] /\ cache'[k] = cache[k]
      BY <1>7, <2>1
      DEF RetryScheduled, launchVars, optVars, callVars, Written, SlotInv, Typed, TypeOK, NativeTyped
    <2>8. /\ Fits(U)
          /\ U.then \in LaunchThens => then \in LaunchThens /\ launch[j] = PhaseOf(U.then)
      <3>1. Fits(U)
        BY <2>2 DEF Fits, Active
      <3>2. CASE then = "transient"
        BY <2>2, <3>1, <3>2 DEF LaunchThens
      <3>3. CASE then = "launchTransient"
        <4>1. Next1(j) = updates[j][1] /\ 1 \in 1..Len(updates[j]) /\ LaunchesMatch(j)
          BY <2>1, NextTyped DEF SlotInv, SlotParts, Written
        <4>2. launch[j] = "failing"
          BY <2>4, <3>3, <4>1 DEF LaunchesMatch, LaunchThens, PhaseOf
        <4>3. QED
          BY <2>2, <3>1, <3>3, <4>2 DEF LaunchThens, PhaseOf
      <3>4. QED
        BY <3>2, <3>3
    <2>9. NoResume(j)'
      BY <1>0, <2>7 DEF NoResume
    <2>10. Ends(j)
      BY <2>4, <2>5, <2>6, <2>7, <2>8, <2>9 DEF Ends
    <2>11. QED
      BY <2>1, <2>7, <2>10, WriteKeepsSlots
  <1>8. CASE TranscodeStarts(j)
    <2>1. /\ Written(j, "optimize") /\ Pop(j) /\ UNCHANGED <<launch, waiting>>
          /\ \E S \in SUBSET {"refused"} :
               optimizing' = [optimizing EXCEPT ![j] = optimizing[j] \cup S]
      <3>1. optimizing' = [optimizing EXCEPT ![j] =
              IF StartRefused(j) THEN optimizing[j] \cup {"refused"} ELSE optimizing[j]]
        BY <1>8 DEF TranscodeStarts, StartTranscode
      <3>2. CASE StartRefused(j)
        BY <1>8, <3>1, <3>2 DEF TranscodeStarts, launchVars, callVars
      <3>3. CASE ~StartRefused(j)
        <4>1. optimizing' = [optimizing EXCEPT ![j] = optimizing[j] \cup {}]
          BY <3>1, <3>3
        <4>2. QED
          BY <1>8, <4>1 DEF TranscodeStarts, launchVars, callVars
      <3>4. QED
        BY <3>2, <3>3
    <2>2. NoResume(j)' /\ \A k \in Jobs \ {j} : optimizing'[k] = optimizing[k]
      BY <1>0, <2>1 DEF NoResume, SlotInv, Typed, TypeOK, NativeTyped
    <2>3. Ends(j) /\ (launch[j] = "none" => launch'[j] = "none")
      BY <2>1, <2>2, WrittenEnds
    <2>4. QED
      BY <2>1, <2>3, WriteKeepsSlots
  <1>9. QED
    BY <1>2, <1>3, <1>4, <1>5, <1>6, <1>7, <1>8 DEF WriteStep, Failed

LEMMA UpdateSlots ==
  ASSUME SlotInv, Typed', NEW j \in Jobs, UpdateStep(j)
  PROVE  SlotInv' /\ Busy' \subseteq Busy
  <1>1. CASE StartUpdate(j)
    <2>1. /\ updates[j] # <<>> /\ Next1(j) = updates[j][1] /\ 1 \in 1..Len(updates[j])
          /\ Next1(j).to \in Statuses
      BY <1>1, DueTyped DEF StartUpdate, SlotInv
    <2>2. /\ j \notin writing /\ writing' = writing \cup {j}
          /\ UNCHANGED <<row, launch, updates, optimizing, waiting>>
          /\ \A k \in Jobs \ {j} : cache'[k] = cache[k]
      BY <1>1 DEF StartUpdate, Due, rowVars, launchVars, optVars, callVars, SlotInv, Typed,
                  TypeOK, NativeTyped
    <2>3. ASSUME NEW k \in Jobs \ {j} PROVE SlotParts(k)'
      BY <2>2 DEF SlotInv, SlotParts, LaunchesMatch, UpdatesFit, CacheFresh, WritingFits,
                  NoResume
    <2>4. WritingFits(j)'
      <3>1. SUFFICES ASSUME updates[j][1].to \in Active,
                            updates[j][1].then \notin {"marked", "claimed"}
                     PROVE  row[j] \in Active
        BY <2>2 DEF WritingFits
      <3>2. updates[j][1].allowed \subseteq {"downloading", "optimizing"}
        BY <2>1, <3>1 DEF SlotInv, SlotParts, UpdatesFit, Fits
      <3>3. cache[j] \in {"downloading", "optimizing"}
        BY <1>1, <2>1, <3>2 DEF StartUpdate, Permitted, Statuses
      <3>4. cache[j] \in {row[j], "none"}
        BY <2>2 DEF SlotInv, SlotParts, CacheFresh
      <3>5. QED
        BY <3>3, <3>4 DEF Active
    <2>5. SlotParts(j)'
      BY <2>2, <2>4
      DEF SlotInv, SlotParts, LaunchesMatch, UpdatesFit, CacheFresh, NoResume
    <2>6. Busy' = Busy
      BY <2>2 DEF Busy
    <2>7. QED
      BY <2>3, <2>5, <2>6 DEF SlotInv
  <1>2. CASE SkipUpdate(j)
    <2>1. /\ updates[j] # <<>> /\ Pop(j) /\ j \notin writing
          /\ UNCHANGED <<row, cache, writing, waiting>>
      BY <1>2 DEF SkipUpdate, Due, rowVars, callVars
    <2>2. /\ Len(updates'[j]) = Len(updates[j]) - 1
          /\ \A k \in Jobs \ {j} : updates'[k] = updates[k]
          /\ \A i \in 1..Len(updates'[j]) : updates'[j][i] = updates[j][i + 1]
      BY <2>1, PopTyped DEF SlotInv
    <2>3. /\ \A k \in Jobs \ {j} : launch'[k] = launch[k]
          /\ Next1(j).then \in LaunchThens \/ launch'[j] = launch[j]
          /\ launch[j] = "none" => launch'[j] = "none"
      BY <1>2 DEF SkipUpdate, EndLaunch, At, launchVars, LaunchThens, SlotInv, Typed, TypeOK, NativeTyped
    <2>4. /\ NoResume(j)' /\ \A k \in Jobs \ {j} : optimizing'[k] = optimizing[k]
      <3>1. NoResume(j)
        BY DEF SlotInv, SlotParts
      <3>2. \/ UNCHANGED optimizing
            \/ optimizing' = [optimizing EXCEPT ![j] =
                 IF StartRefused(j) THEN optimizing[j] \cup {"refused"} ELSE optimizing[j]]
        BY <1>2 DEF SkipUpdate, StartTranscode, optVars
      <3>3. QED
        BY <2>1, <3>1, <3>2 DEF NoResume, SlotInv, Typed, TypeOK, NativeTyped
    <2>5. cache'[j] \in {row'[j], "none"}
      BY <2>1 DEF SlotInv, SlotParts, CacheFresh
    <2>6. \A i \in 1..(Len(updates[j]) - 1) : updates'[j][i] = updates[j][i + 1]
      BY <2>2
    <2>7. Ends(j)
      BY <2>1, <2>2, <2>3, <2>4, <2>5, <2>6 DEF Ends
    <2>8. Busy' \subseteq Busy
      BY <2>1, <2>3 DEF Busy
    <2>9. QED
      BY <2>7, <2>8, EndsKeepSlots DEF SlotInv
  <1>3. QED
    BY <1>1, <1>2 DEF UpdateStep

-----------------------------------------------------------------------------
(***************************************************************************)
(* The other steps of a job move within the slots.                         *)
(***************************************************************************)
\* A step that pushes a status of its own, outside every launch.
Pushes(j) ==
  \/ UNCHANGED updates
  \/ \E u \in GoodUpdates : Update(j, u) /\ Fits(u) /\ u.then \notin LaunchThens

LEMMA IdleSet ==
  ASSUME NEW to \in Resting \cup {"queued"}, NEW d \in Paths \cup {"keep"},
         NEW then \in Continuations \ LaunchThens, then # "optimize"
  PROVE  LET u == Set(to, d, then) IN u \in GoodUpdates /\ Fits(u) /\ u.then \notin LaunchThens
  BY SetGood DEF Set, Change, Fits, Active, Resting, Statuses, LaunchThens

LEMMA ProgressFits ==
  ASSUME NEW j \in Jobs, NEW phase \in {"downloading", "optimizing"}, SaveProgress(j, phase)
  PROVE  Pushes(j)
  <1>1. Change(phase, {"downloading", "optimizing"}, "keep", "nothing") \in GoodUpdates
    BY ChangeGood DEF Statuses, Active, Continuations
  <1>2. /\ Fits(Change(phase, {"downloading", "optimizing"}, "keep", "nothing"))
        /\ Change(phase, {"downloading", "optimizing"}, "keep", "nothing").then \notin LaunchThens
    BY DEF Change, Fits, LaunchThens
  <1>3. QED
    BY <1>1, <1>2 DEF SaveProgress, Pushes

LEMMA FailFits ==
  ASSUME NEW j \in Jobs, Fail(j, "failed") \/ Fail(j, "transient")
  PROVE  Pushes(j)
  BY IdleSet DEF Fail, Pushes, Resting, Continuations, LaunchThens

\* A step of job j that leaves its launch alone.
LEMMA StayingMoves ==
  ASSUME SlotInv, NEW j \in Jobs, UNCHANGED <<row, writing, launch>>,
         \A k \in Jobs : cache'[k] \in {cache[k], row[k]},
         \A k \in Jobs \ {j} : optimizing'[k] = optimizing[k] /\ waiting'[k] = waiting[k],
         Pushes(j), NoResume(j)'
  PROVE  Moves(j)
  <1>1. \A k \in Jobs \ {j} : updates'[k] = updates[k]
    BY DEF Pushes, Update, SlotInv, Typed, TypeOK, NativeTyped
  <1>2. QED
    BY <1>1 DEF Moves, Pushes

LEMMA LaunchMoves ==
  ASSUME SlotInv, NEW j \in Jobs, LaunchStep(j)
  PROVE  Moves(j)
  <1>1. UNCHANGED <<row, cache, writing, optimizing, waiting>> /\ NoResume(j)'
    BY DEF LaunchStep, Resolved, Located, Measured, Started, Discarded, LaunchError,
           updateVars, rowVars, optVars, callVars, SlotInv, SlotParts, NoResume
  <1>2. launch[j] \notin Holding /\ launch[j] # "none"
    BY DEF LaunchStep, Resolved, Located, Measured, Started, Discarded, LaunchError, Holding
  <1>3. \A k \in Jobs \ {j} : launch'[k] = launch[k]
    BY DEF LaunchStep, Resolved, Located, Measured, Started, Discarded, LaunchError,
           ClaimDestination, EndLaunch, At, SlotInv, Typed, TypeOK, NativeTyped
  <1>4. \/ UNCHANGED updates
        \/ \E u \in GoodUpdates :
             Update(j, u) /\ Fits(u) /\ u.then \in LaunchThens /\ launch'[j] = PhaseOf(u.then)
    <2>1. CASE ClaimDestination(j)
      <3>1. PICK d \in Paths : Update(j, Set("downloading", d, "claimed"))
        BY <2>1 DEF ClaimDestination, SlotInv, Typed, TypeOK, NativeTyped, Dests, Paths
      <3>2. Set("downloading", d, "claimed") \in GoodUpdates
        BY SetGood DEF Statuses, Active, Continuations
      <3>3. /\ Set("downloading", d, "claimed").then = "claimed"
            /\ Fits(Set("downloading", d, "claimed"))
        BY DEF Set, Change, Fits
      <3>4. launch'[j] = "claiming"
        BY <2>1 DEF ClaimDestination, At, SlotInv, Typed, TypeOK, NativeTyped
      <3>5. QED
        BY <3>1, <3>2, <3>3, <3>4 DEF LaunchThens, PhaseOf
    <2>2. ASSUME NEW then \in {"launchFailed", "launchTransient"}, Fail(j, then), At(j, "failing")
          PROVE  \E u \in GoodUpdates :
             Update(j, u) /\ Fits(u) /\ u.then \in LaunchThens /\ launch'[j] = PhaseOf(u.then)
      <3>1. Set("failed", "keep", then) \in GoodUpdates
        BY SetGood DEF Statuses, Resting, Continuations
      <3>2. /\ Set("failed", "keep", then).then = then
            /\ Fits(Set("failed", "keep", then))
        BY DEF Set, Change, Fits, Active
      <3>3. launch'[j] = "failing"
        BY <2>2 DEF At, SlotInv, Typed, TypeOK, NativeTyped
      <3>4. Update(j, Set("failed", "keep", then))
        BY <2>2 DEF Fail
      <3>5. QED
        BY <3>1, <3>2, <3>3, <3>4 DEF LaunchThens, PhaseOf
    <2>3. CASE LaunchError(j)
      <3>1. \/ UNCHANGED updates
            \/ \E then \in {"launchFailed", "launchTransient"} : Fail(j, then) /\ At(j, "failing")
        BY <2>3 DEF LaunchError
      <3>2. QED
        BY <2>2, <3>1
    <2>4. CASE Located(j) \/ Measured(j)
      BY <2>1, <2>4 DEF Located, Measured
    <2>5. CASE Resolved(j) \/ Started(j) \/ Discarded(j)
      BY <2>5 DEF Resolved, Started, Discarded, updateVars
    <2>6. QED
      BY <2>3, <2>4, <2>5 DEF LaunchStep
  <1>5. \A k \in Jobs \ {j} : updates'[k] = updates[k]
    BY <1>4 DEF Update, SlotInv, Typed, TypeOK, NativeTyped
  <1>6. QED
    BY <1>1, <1>2, <1>3, <1>4, <1>5 DEF Moves

LEMMA EventMoves ==
  ASSUME SlotInv, NEW j \in Jobs, EventStep(j)
  PROVE  Moves(j)
  <1>1. PICK kinds : Deliver(j, kinds)
    BY DEF EventStep, IgnoreEvent, NoteProgress, NativeFailed, NativeCanceled,
           NativeCompleted
  <1>2. UNCHANGED <<row, cache, writing, launch, waiting>>
    BY <1>1 DEF Deliver, rowVars, launchVars, callVars
  <1>3. Pushes(j)
    <2>1. CASE IgnoreEvent(j)
      BY <2>1 DEF IgnoreEvent, Pushes
    <2>2. CASE NoteProgress(j)
      <3>1. UNCHANGED updates \/ \E phase \in {"downloading", "optimizing"} : SaveProgress(j, phase)
        BY <2>2 DEF NoteProgress
      <3>2. QED
        BY <3>1, ProgressFits DEF Pushes
    <2>3. CASE NativeFailed(j)
      BY <2>3, FailFits DEF NativeFailed
    <2>4. CASE NativeCanceled(j)
      BY <2>4, IdleSet DEF NativeCanceled, Pushes, Resting, Continuations, LaunchThens
    <2>5. CASE NativeCompleted(j)
      <3>1. UNCHANGED updates \/ \E d \in Paths : Finish(j, d)
        BY <2>5 DEF NativeCompleted, SlotInv, Typed, TypeOK, NativeTyped, NativeTypeOK, Paths
      <3>2. QED
        BY <3>1, IdleSet DEF Finish, Pushes, Resting, Continuations, LaunchThens
    <2>6. QED
      BY <2>1, <2>2, <2>3, <2>4, <2>5 DEF EventStep
  <1>4. NoResume(j)' /\ \A k \in Jobs \ {j} : optimizing'[k] = optimizing[k]
    <2>1. \/ UNCHANGED optimizing
          \/ optimizing' = [optimizing EXCEPT ![j] =
               IF cache[j] = "downloading" THEN optimizing[j] \cup {"downloading"}
               ELSE optimizing[j]]
      BY DEF EventStep, IgnoreEvent, NoteProgress, NativeFailed, NativeCanceled,
             NativeCompleted, Finish, optVars
    <2>2. NoResume(j)
      BY DEF SlotInv, SlotParts
    <2>3. QED
      BY <1>2, <2>1, <2>2 DEF NoResume, SlotInv, Typed, TypeOK, NativeTyped
  <1>5. QED
    BY <1>2, <1>3, <1>4, StayingMoves

LEMMA TimerMoves ==
  ASSUME SlotInv, NEW j \in Jobs, FlushProgress(j) \/ RetryFires(j)
  PROVE  Moves(j)
  <1>0. NoResume(j)
    BY DEF SlotInv, SlotParts
  <1>1. UNCHANGED <<row, cache, writing, launch, optimizing>>
    BY DEF FlushProgress, RetryFires, rowVars, launchVars, updateVars, optVars
  <1>2. Pushes(j)
    <2>1. CASE FlushProgress(j)
      <3>1. unsaved[j] \in {"downloading", "optimizing"}
        BY <2>1 DEF FlushProgress, SlotInv, Typed, TypeOK, NativeTyped
      <3>2. QED
        BY <2>1, <3>1, ProgressFits DEF FlushProgress, Pushes
    <2>2. CASE RetryFires(j)
      BY <2>2 DEF RetryFires, updateVars, Pushes
    <2>3. QED
      BY <2>1, <2>2
  <1>3. NoResume(j)' /\ \A k \in Jobs \ {j} : waiting'[k] = waiting[k]
    <2>1. \/ UNCHANGED waiting
          \/ waiting' = [waiting EXCEPT ![j] = waiting[j] \cup {Call("retry", TRUE, "none")}]
      BY DEF FlushProgress, RetryFires, callVars, Await
    <2>2. Call("retry", TRUE, "none").at # "resume"
      BY DEF Call
    <2>3. waiting \in [Jobs -> SUBSET Calls]
      BY DEF SlotInv, Typed, TypeOK, NativeTyped
    <2>4. CASE waiting' = [waiting EXCEPT ![j] = waiting[j] \cup {Call("retry", TRUE, "none")}]
      <3>1. waiting'[j] = waiting[j] \cup {Call("retry", TRUE, "none")}
            /\ \A k \in Jobs \ {j} : waiting'[k] = waiting[k]
        BY <2>3, <2>4
      <3>2. QED
        BY <1>0, <1>1, <2>2, <3>1 DEF NoResume
    <2>5. CASE UNCHANGED waiting
      BY <1>0, <1>1, <2>5 DEF NoResume
    <2>6. QED
      BY <2>1, <2>4, <2>5
  <1>4. QED
    BY <1>1, <1>2, <1>3, StayingMoves

LEMMA OptimizeMoves ==
  ASSUME SlotInv, NEW j \in Jobs, OptimizeStep(j)
  PROVE  Moves(j)
  <1>0. NoResume(j)
    BY DEF SlotInv, SlotParts
  <1>1. UNCHANGED <<row, cache, writing, launch, waiting>>
    BY DEF OptimizeStep, TranscodeRefused, FfmpegProbed, rowVars, launchVars, callVars
  <1>2. \A k \in Jobs : optimizing'[k] = optimizing[k] \/ k = j
    BY DEF OptimizeStep, TranscodeRefused, FfmpegProbed, SlotInv, Typed, TypeOK, NativeTyped
  <1>3. NoResume(j)'
    <2>1. \E x : optimizing' = [optimizing EXCEPT ![j] = optimizing[j] \ {x}]
      BY DEF OptimizeStep, TranscodeRefused, FfmpegProbed
    <2>2. QED
      BY <1>0, <1>1, <2>1 DEF NoResume, SlotInv, Typed, TypeOK, NativeTyped
  <1>4. Pushes(j)
    <2>1. CASE TranscodeRefused(j)
      BY <2>1, FailFits DEF TranscodeRefused, Pushes
    <2>2. CASE FfmpegProbed(j, "downloading")
      <3>1. \/ UNCHANGED updates \/ Fail(j, "failed")
            \/ Update(j, Change("optimizing", {"downloading"}, path[j], "optimize"))
        BY <2>2 DEF FfmpegProbed
      <3>2. Change("optimizing", {"downloading"}, path[j], "optimize") \in GoodUpdates
        <4>1. /\ path[j] \in Paths /\ {"downloading"} \in SUBSET Statuses
              /\ "optimizing" \in Statuses /\ "optimize" \in Continuations
          BY DEF SlotInv, Typed, TypeOK, NativeTyped, NativeTypeOK, Statuses, Active, Continuations
        <4>2. QED
          BY <4>1, ChangeGood
      <3>3. /\ Fits(Change("optimizing", {"downloading"}, path[j], "optimize"))
            /\ Change("optimizing", {"downloading"}, path[j], "optimize").then \notin LaunchThens
        BY DEF Change, Fits, LaunchThens
      <3>4. QED
        BY <3>1, <3>2, <3>3, FailFits DEF Pushes
    <2>3. ~FfmpegProbed(j, "paused")
      BY <1>0 DEF FfmpegProbed, Probing, NoResume
    <2>4. QED
      BY <2>1, <2>2, <2>3 DEF OptimizeStep
  <1>5. QED
    BY <1>1, <1>2, <1>3, <1>4, StayingMoves

LEMMA AnswerMoves ==
  ASSUME SlotInv, NEW j \in Jobs, AnswerStep(j)
  PROVE  Moves(j)
  <1>0. NoResume(j)
    BY DEF SlotInv, SlotParts
  <1>1. ~ResumeAnswered(j)
    BY <1>0 DEF ResumeAnswered, NoResume, Call
  <1>2. /\ UNCHANGED <<row, writing, launch, optimizing>>
        /\ \A k \in Jobs : cache'[k] \in {cache[k], row[k]}
    <2>1. cache' = cache \/ cache' = [cache EXCEPT ![j] = row[j]]
      BY <1>1 DEF AnswerStep, PauseAnswered, StopSweeps, StopAnswered, RetryListed
    <2>2. cache \in [Jobs -> Statuses \cup {"none"}]
      BY DEF SlotInv, Typed, TypeOK, NativeTyped
    <2>3. \A k \in Jobs : cache'[k] \in {cache[k], row[k]}
      BY <2>1, <2>2
    <2>4. UNCHANGED <<row, writing, launch, optimizing>>
      BY <1>1 DEF AnswerStep, PauseAnswered, StopSweeps, StopAnswered, RetryListed, rowVars,
                  launchVars, updateVars, optVars
    <2>5. QED
      BY <2>3, <2>4
  <1>3. Pushes(j)
    <2>1. CASE PauseAnswered(j)
      BY <2>1, IdleSet DEF PauseAnswered, Pushes, Resting, Continuations, LaunchThens
    <2>2. CASE StopSweeps(j)
      BY <2>2 DEF StopSweeps, updateVars, Pushes
    <2>3. CASE StopAnswered(j)
      BY <2>3, IdleSet DEF StopAnswered, Pushes, Resting, Continuations, LaunchThens
    <2>4. CASE RetryListed(j)
      BY <2>4, IdleSet DEF RetryListed, Pushes, Continuations, LaunchThens
    <2>5. QED
      BY <1>1, <2>1, <2>2, <2>3, <2>4 DEF AnswerStep
  <1>4. /\ \A k \in Jobs \ {j} : waiting'[k] = waiting[k]
        /\ \A call \in waiting'[j] : call \in waiting[j] \/ call.at = "sweep"
    <2>1. CASE StopSweeps(j)
      <3>1. PICK call \in waiting[j], ok \in BOOLEAN :
              waiting' = [waiting EXCEPT ![j] =
                (waiting[j] \ {call}) \cup {Call("sweep", call.ok /\ ok, call.dest)}]
        BY <2>1 DEF StopSweeps
      <3>2. Call("sweep", call.ok /\ ok, call.dest).at = "sweep"
        BY DEF Call
      <3>3. QED
        BY <3>1, <3>2 DEF SlotInv, Typed, TypeOK, NativeTyped
    <2>2. CASE ~StopSweeps(j)
      <3>1. \E call : waiting' = [waiting EXCEPT ![j] = waiting[j] \ {call}]
        BY <1>1, <2>2 DEF AnswerStep, PauseAnswered, StopAnswered, RetryListed, Answered
      <3>2. QED
        BY <3>1 DEF SlotInv, Typed, TypeOK, NativeTyped
    <2>3. QED
      BY <2>1, <2>2
  <1>5. NoResume(j)'
    BY <1>0, <1>2, <1>4 DEF NoResume
  <1>6. QED
    BY <1>2, <1>3, <1>4, <1>5, StayingMoves

LEMMA UserMoves ==
  ASSUME SlotInv, "resume" \notin Clicks, NEW j \in Jobs,
         PauseLaunch(j) \/ PauseNative(j) \/ Resume(j) \/ Retry(j) \/ Stop(j)
  PROVE  Moves(j)
  <1>0. NoResume(j)
    BY DEF SlotInv, SlotParts
  <1>1. ~Resume(j)
    BY DEF Resume, Click
  <1>2. /\ UNCHANGED <<row, writing, optimizing>>
        /\ \A k \in Jobs : cache'[k] \in {cache[k], row[k]}
    <2>1. cache' = [cache EXCEPT ![j] = row[j]]
      BY <1>1 DEF PauseLaunch, PauseNative, Retry, Stop, Click
    <2>2. UNCHANGED <<row, writing, optimizing>>
      BY <1>1 DEF PauseLaunch, PauseNative, Retry, Stop, Click, rowVars, updateVars, optVars
    <2>3. cache \in [Jobs -> Statuses \cup {"none"}]
      BY DEF SlotInv, Typed, TypeOK
    <2>4. QED
      BY <2>1, <2>2, <2>3
  <1>3. /\ \A k \in Jobs \ {j} : launch'[k] = launch[k]
        /\ launch'[j] = launch[j] \/ (launch[j] = "resolving" /\ launch'[j] = "none")
    BY <1>1 DEF PauseLaunch, PauseNative, Retry, Stop, AbortLaunch, EndLaunch, At,
                launchVars, SlotInv, Typed, TypeOK, NativeTyped
  <1>4. Pushes(j)
    <2>1. \/ UNCHANGED updates
          \/ Update(j, Set("paused", "keep", "paused"))
          \/ Update(j, Set("queued", "keep", "pump"))
      BY <1>1 DEF PauseLaunch, PauseNative, Retry, Stop, updateVars
    <2>2. QED
      BY <2>1, IdleSet DEF Pushes, Resting, Continuations, LaunchThens
  <1>5. /\ \A k \in Jobs \ {j} : waiting'[k] = waiting[k]
        /\ \A call \in waiting'[j] : call \in waiting[j] \/ call.at \in {"pause", "stop"}
    <2>1. \/ UNCHANGED waiting
          \/ \E at \in {"pause", "stop"} : \E ok, d :
               waiting' = [waiting EXCEPT ![j] = waiting[j] \cup {Call(at, ok, d)}]
      BY <1>1 DEF PauseLaunch, PauseNative, Retry, Stop, Await, Discarding
    <2>2. ASSUME NEW at \in {"pause", "stop"}, NEW ok, NEW d
          PROVE  Call(at, ok, d).at = at
      BY DEF Call
    <2>3. CASE UNCHANGED waiting
      BY <2>3
    <2>4. ASSUME NEW at \in {"pause", "stop"}, NEW ok, NEW d,
                 waiting' = [waiting EXCEPT ![j] = waiting[j] \cup {Call(at, ok, d)}]
          PROVE  /\ \A k \in Jobs \ {j} : waiting'[k] = waiting[k]
                 /\ \A call \in waiting'[j] :
                      call \in waiting[j] \/ call.at \in {"pause", "stop"}
      BY <2>2, <2>4 DEF SlotInv, Typed, TypeOK, NativeTyped
    <2>5. QED
      BY <2>1, <2>3, <2>4
  <1>6. NoResume(j)'
    BY <1>0, <1>2, <1>5 DEF NoResume
  <1>7. \A k \in Jobs \ {j} : updates'[k] = updates[k]
    BY <1>4 DEF Pushes, Update, SlotInv, Typed, TypeOK, NativeTyped
  <1>8. QED
    BY <1>2, <1>3, <1>4, <1>5, <1>6, <1>7 DEF Moves, Pushes, Holding

\* The answer of a removal is never that of a resume.
LEMMA RemovalMoves ==
  ASSUME SlotInv, NEW j \in Jobs, RemovalStep(j)
  PROVE  Moves(j)
  <1>0. NoResume(j)
    BY DEF SlotInv, SlotParts
  <1>1. UNCHANGED <<row, cache, writing, launch, updates, optimizing>>
    BY DEF RemovalStep, rowVars, launchVars, updateVars, optVars
  <1>2. \/ UNCHANGED waiting
        \/ \E call \in Senders : waiting' = [waiting EXCEPT ![j] = waiting[j] \cup {call}]
    <2>1. PICK r \in removals[j] :
            \/ UNCHANGED waiting \/ Reply(j, r.sender)
            \/ Reply(j, [r.sender EXCEPT !.ok = FALSE])
      BY DEF RemovalStep
    <2>2. r.sender \in Senders /\ [r.sender EXCEPT !.ok = FALSE] \in Senders
      <3>1. r \in Removals
        BY DEF SlotInv, Typed, TypeOK
      <3>2. QED
        BY <3>1 DEF Removals, Senders
    <2>3. QED
      BY <2>1, <2>2 DEF Reply, Await
  <1>3. NoResume(j)' /\ \A k \in Jobs \ {j} : waiting'[k] = waiting[k]
    <2>1. \A call \in Senders : call.at # "resume"
      BY DEF Senders
    <2>2. QED
      BY <1>0, <1>1, <1>2, <2>1 DEF NoResume, SlotInv, Typed, TypeOK
  <1>4. QED
    BY <1>1, <1>3, StayingMoves DEF Pushes

-----------------------------------------------------------------------------
(***************************************************************************)
(* The steps of the queue, and those of the executor.                      *)
(***************************************************************************)
LEMMA SlotsAtStart == Init => SlotInv /\ SlotCap
  <1>1. SUFFICES ASSUME Init PROVE SlotInv /\ SlotCap
    OBVIOUS
  <1>2. \A j \in Jobs : SlotParts(j)
    <2>1. \A j \in Jobs : /\ updates[j] = <<>> /\ Len(updates[j]) = 0 /\ j \notin writing
                         /\ cache[j] = "none" /\ optimizing[j] = {} /\ waiting[j] = {}
      BY <1>1 DEF Init
    <2>2. \A j \in Jobs : LaunchesMatch(j) /\ UpdatesFit(j)
      <3>1. 1..0 = {}
        OBVIOUS
      <3>2. \A j \in Jobs : 1..Len(updates[j]) = {}
        BY <2>1, <3>1, Zenon
      <3>3. QED
        BY <3>2, Zenon DEF LaunchesMatch, UpdatesFit
    <2>3. \A j \in Jobs : CacheFresh(j) /\ WritingFits(j) /\ NoResume(j)
      BY <2>1 DEF CacheFresh, WritingFits, NoResume
    <2>4. QED
      BY <2>2, <2>3 DEF SlotParts
  <1>3. Busy = {}
    BY <1>1 DEF Init, Busy, Active
  <1>4. Cardinality(Busy) = 0
    BY <1>3, FS_EmptySet
  <1>5. Cardinality(Busy) <= Concurrency
    BY <1>4, LimitsAssumption
  <1>6. SlotCap
    BY <1>5 DEF SlotCap, Busy
  <1>7. Typed
    BY <1>1, InitTyped
  <1>8. QED
    BY <1>2, <1>6, <1>7 DEF SlotInv

\* A launch starts where none is under way, so its update is the only one.
LEMMA PumpSlots ==
  ASSUME SlotInv, SlotCap, PumpRun, Typed'
  PROVE  SlotInv' /\ SlotCap'
  <1>1. PICK L \in SUBSET Jobs :
          /\ Admissible(L)
          /\ launch' = [j \in Jobs |-> IF j \in L THEN "marking" ELSE launch[j]]
          /\ updates' = [j \in Jobs |-> IF j \in L
                           THEN Append(updates[j], Set("resolving", "keep", "marked"))
                           ELSE updates[j]]
    BY DEF PumpRun
  <1>2. UNCHANGED <<row, cache, writing, optimizing, waiting>>
    BY DEF PumpRun, rowVars, optVars, callVars
  <1>3. ASSUME NEW j \in L
        PROVE  SlotParts(j)'
    <2>1. SlotParts(j) /\ launch[j] = "none" /\ j \in Jobs
      BY <1>1 DEF SlotInv, Admissible, Startable
    <2>2. Set("resolving", "keep", "marked") \in GoodUpdates
      BY SetGood DEF Statuses, Active, Continuations
    <2>3. PICK u \in GoodUpdates : u = Set("resolving", "keep", "marked")
      BY <2>2
    <2>4. u.then = "marked" /\ Fits(u)
      BY <2>3 DEF Set, Change, Fits
    <2>5. updates'[j] = Append(updates[j], u) /\ launch'[j] = "marking"
      BY <1>1, <2>1, <2>3
    <2>6. /\ Len(updates'[j]) = Len(updates[j]) + 1 /\ Len(updates[j]) \in Nat
          /\ \A i \in 1..Len(updates[j]) : updates'[j][i] = updates[j][i]
          /\ updates'[j][Len(updates[j]) + 1] = u
          /\ j \in writing => 1 \in 1..Len(updates[j])
      BY <2>1, <2>5, NextTyped DEF SlotInv
    <2>7. \A i \in 1..Len(updates'[j]) : i \in 1..Len(updates[j]) \/ i = Len(updates[j]) + 1
      BY <2>6
    <2>8. \A i \in 1..Len(updates[j]) : updates[j][i].then \notin LaunchThens
      BY <2>1 DEF SlotParts, LaunchesMatch, PhaseOf
    <2>9. LaunchesMatch(j)'
      BY <2>4, <2>5, <2>6, <2>7, <2>8 DEF LaunchesMatch, PhaseOf
    <2>10. UpdatesFit(j)'
      BY <2>1, <2>4, <2>6, <2>7 DEF SlotParts, UpdatesFit
    <2>11. WritingFits(j)' /\ CacheFresh(j)' /\ NoResume(j)'
      BY <1>2, <2>1, <2>6 DEF SlotParts, WritingFits, CacheFresh, NoResume
    <2>12. QED
      BY <2>9, <2>10, <2>11 DEF SlotParts
  <1>4. ASSUME NEW j \in Jobs \ L
        PROVE  SlotParts(j)'
    <2>1. SlotParts(j) /\ updates'[j] = updates[j] /\ launch'[j] = launch[j]
      BY <1>1 DEF SlotInv
    <2>2. QED
      BY <1>2, <2>1
      DEF SlotParts, LaunchesMatch, UpdatesFit, CacheFresh, WritingFits, NoResume
  <1>5. Busy' = L \cup Busy
    BY <1>1, <1>2 DEF Busy
  <1>6. Cardinality(Busy') <= Concurrency
    <2>1. CASE L = {}
      BY <1>5, <2>1 DEF SlotCap, Busy
    <2>2. CASE L # {}
      BY <1>1, <1>5, <2>2 DEF Admissible
    <2>3. QED
      BY <2>1, <2>2
  <1>7. QED
    BY <1>3, <1>4, <1>6 DEF SlotInv, SlotCap, Busy

LEMMA RowSlots ==
  ASSUME SlotInv, Typed', Sync \/ Restart \/ \E j \in Jobs : Enqueue(j)
  PROVE  SlotInv' /\ Busy' \subseteq Busy
  <1>1. CASE Sync
    <2>1. cache' = row /\ UNCHANGED <<row, launch, updates, writing, optimizing, waiting>>
      BY <1>1 DEF Sync, launchVars, updateVars, optVars, callVars
    <2>2. QED
      BY <2>1 DEF SlotInv, SlotParts, LaunchesMatch, UpdatesFit, CacheFresh, WritingFits,
                  NoResume, Busy
  <1>2. CASE Restart
    <2>1. \A k \in Jobs : /\ row'[k] \notin Active /\ cache'[k] = "none" /\ launch'[k] = "none"
                          /\ updates'[k] = <<>> /\ k \notin writing'
                          /\ optimizing'[k] = {} /\ waiting'[k] = {}
      BY <1>2 DEF Restart, Active
    <2>2. QED
      BY <2>1 DEF SlotInv, SlotParts, LaunchesMatch, UpdatesFit, CacheFresh, WritingFits,
                  NoResume, Busy
  <1>3. ASSUME NEW j \in Jobs, Enqueue(j)
        PROVE  SlotInv' /\ Busy' \subseteq Busy
    <2>1. /\ UNCHANGED <<cache, launch, updates, writing, optimizing, waiting>>
          /\ row[j] = "none" /\ row'[j] = "queued"
          /\ \A k \in Jobs \ {j} : row'[k] = row[k]
      BY <1>3 DEF Enqueue, launchVars, updateVars, optVars, callVars, SlotInv, Typed, TypeOK, NativeTyped
    <2>2. ASSUME NEW k \in Jobs
          PROVE  SlotParts(k)'
      <3>1. SlotParts(k)
        BY DEF SlotInv
      <3>2. LaunchesMatch(k)' /\ UpdatesFit(k)' /\ NoResume(k)'
        BY <2>1, <3>1 DEF SlotParts, LaunchesMatch, UpdatesFit, NoResume
      <3>3. CacheFresh(k)'
        BY <2>1, <3>1 DEF SlotParts, CacheFresh
      <3>4. WritingFits(k)'
        BY <2>1, <3>1 DEF SlotParts, WritingFits, Active
      <3>5. QED
        BY <3>2, <3>3, <3>4 DEF SlotParts
    <2>3. Busy' \subseteq Busy
      BY <2>1 DEF Busy, Active
    <2>4. QED
      BY <2>2, <2>3 DEF SlotInv
  <1>4. QED
    BY <1>1, <1>2, <1>3

LEMMA SlotsStay ==
  ASSUME SlotInv, Typed',
         UNCHANGED <<row, cache, launch, updates, writing, optimizing, waiting>>
  PROVE  SlotInv' /\ Busy' \subseteq Busy
  BY DEF SlotInv, SlotParts, LaunchesMatch, UpdatesFit, CacheFresh, WritingFits, NoResume, Busy

\* Only pump() takes a slot: every other step keeps or frees the slots it finds.
LEMMA SlotsShrink ==
  ASSUME SlotInv, "resume" \notin Clicks, [Next]_vars, ~PumpRun
  PROVE  SlotInv' /\ Busy' \subseteq Busy
  <1>1. Typed'
    BY TypedInductive DEF SlotInv
  <1>2. CASE Sync \/ Restart \/ \E j \in Jobs : Enqueue(j)
    BY <1>1, <1>2, RowSlots
  <1>3. ASSUME NEW j \in Jobs, WebStep(j)
        PROVE  SlotInv' /\ Busy' \subseteq Busy
    <2>1. CASE UpdateStep(j)
      BY <1>1, <2>1, UpdateSlots
    <2>2. CASE WriteStep(j)
      BY <1>1, <2>2, WriteSlots
    <2>3. CASE LaunchStep(j)
      BY <1>1, <2>3, LaunchMoves, MovesKeepSlots
    <2>4. CASE EventStep(j)
      BY <1>1, <2>4, EventMoves, MovesKeepSlots
    <2>5. CASE FlushProgress(j) \/ RetryFires(j)
      BY <1>1, <2>5, TimerMoves, MovesKeepSlots
    <2>6. CASE OptimizeStep(j)
      BY <1>1, <2>6, OptimizeMoves, MovesKeepSlots
    <2>7. CASE AnswerStep(j)
      BY <1>1, <2>7, AnswerMoves, MovesKeepSlots
    <2>8. QED
      BY <1>3, <2>1, <2>2, <2>3, <2>4, <2>5, <2>6, <2>7 DEF WebStep
  <1>4. ASSUME NEW j \in Jobs, UserStep(j), ~Enqueue(j)
        PROVE  SlotInv' /\ Busy' \subseteq Busy
    <2>1. Moves(j)
      BY <1>4, UserMoves DEF UserStep
    <2>2. QED
      BY <1>1, <2>1, MovesKeepSlots
  <1>5. CASE (\E j \in Jobs : WorkerStep(j)) \/ UNCHANGED vars
    <2>1. UNCHANGED <<row, cache, launch, updates, writing, optimizing, waiting>>
      BY <1>5 DEF WorkerStep, vars, rowVars, launchVars, updateVars, optVars, callVars
    <2>2. QED
      BY <1>1, <2>1, SlotsStay
  <1>6. ASSUME NEW j \in Jobs, RemovalStep(j)
        PROVE  SlotInv' /\ Busy' \subseteq Busy
    BY <1>1, <1>6, RemovalMoves, MovesKeepSlots
  <1>7. QED
    BY <1>2, <1>3, <1>4, <1>5, <1>6 DEF Next

LEMMA SlotsInductive ==
  ASSUME SlotInv, SlotCap, "resume" \notin Clicks, [Next]_vars
  PROVE  SlotInv' /\ SlotCap'
  <1>1. CASE PumpRun
    BY <1>1, PumpSlots, TypedInductive DEF SlotInv
  <1>2. CASE ~PumpRun
    <2>1. SlotInv' /\ Busy' \subseteq Busy
      BY <1>2, SlotsShrink
    <2>2. IsFiniteSet(Busy)
      BY JobsAssumption, FS_Subset DEF Busy
    <2>3. Cardinality(Busy') <= Cardinality(Busy) /\ Cardinality(Busy') \in Nat
      BY <2>1, <2>2, FS_Subset, FS_CardinalityType
    <2>4. Cardinality(Busy) <= Concurrency /\ Cardinality(Busy) \in Nat
      BY <2>2, FS_CardinalityType DEF SlotCap, Busy
    <2>5. Cardinality(Busy') <= Concurrency
      BY <2>3, <2>4, LimitsAssumption
    <2>6. QED
      BY <2>1, <2>5 DEF SlotCap, Busy
  <1>3. QED
    BY <1>1, <1>2

\* The rows and launches that hold a slot never exceed the concurrency, for any
\* number of jobs, clicks, retries and restarts: a launch holds its job's slot
\* until the update it awaits is done, so a pump() between the two cannot give
\* the slot away.  Resuming a parked transfer passes the queue by design, hence
\* the hypothesis.
THEOREM SlotsHold ==
  ASSUME "resume" \notin Clicks
  PROVE  Spec => []SlotCap
  <1>1. Init => SlotInv /\ SlotCap
    BY SlotsAtStart
  <1>2. SlotInv /\ SlotCap /\ [Next]_vars => SlotInv' /\ SlotCap'
    BY SlotsInductive
  <1>3. QED
    BY <1>1, <1>2, PTL DEF Spec

=============================================================================
