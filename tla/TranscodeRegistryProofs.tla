---------------------- MODULE TranscodeRegistryProofs ----------------------
(***************************************************************************)
(* Theorems about TranscodeRegistry, for any finite set of sessions, any   *)
(* sets of calls and options, and any cap.                                 *)
(***************************************************************************)
EXTENDS TranscodeRegistry, FiniteSetTheorems, TLAPS

\* A call that was begun has a session and options.
CallsAddressed ==
  \A c \in Calls : phase[c] # "unused" => session[c] \in Sessions /\ options[c] \in Options

Typed == TypeOK /\ CallsAddressed

LEMMA KillTypes ==
  ASSUME TypeOK, NEW S, Kill(S)
  PROVE  /\ jobs' \in [Sessions -> Calls \cup {None}]
         /\ ffmpeg' \in [Calls -> {"none", "running", "signalled", "finished", "failed"}]
         /\ removal' \in [Calls -> {"none", "rm", "clear", "sweep", "done"}]
         /\ idle' \subseteq Calls
  BY DEF TypeOK, Kill

LEMMA InitTyped == Init => Typed
  BY NoneAssumption, BoundsAssumption DEF Init, Typed, TypeOK, CallsAddressed, Phases, Outcomes

LEMMA EnsureTyped ==
  ASSUME Typed, NEW c \in Calls, EnsureStep(c)
  PROVE  Typed'
  <1> USE DEF Typed, TypeOK, CallsAddressed, GoTo, Answer, lifeVars, callVars, memoryVars,
              hostVars, dbVars, Phases, CreationPhases, Outcomes, Rejections, AtEntry,
              AtLookup
  <1>0. session[c] \in Sessions
    BY DEF EnsureStep, ReuseJob, ReplaceJob, JoinCreation, RefuseBusy, FinishRefusal,
           AdmitCreation
  <1>1. CASE ReuseJob(c)
    BY <1>0, <1>1 DEF ReuseJob
  <1>2. CASE ReplaceJob(c)
    <2>1. Kill({session[c]})
      BY <1>2 DEF ReplaceJob
    <2>2. QED
      BY <1>0, <1>2, <2>1, KillTypes DEF ReplaceJob
  <1>3. CASE JoinCreation(c)
    BY <1>0, <1>3 DEF JoinCreation
  <1>4. CASE RefuseBusy(c)
    BY <1>0, <1>4 DEF RefuseBusy
  <1>5. CASE AdmitCreation(c)
    BY <1>0, <1>5 DEF AdmitCreation
  <1>6. CASE FinishRefusal(c)
    BY <1>0, <1>6 DEF FinishRefusal, Settle
  <1>7. QED
    BY <1>1, <1>2, <1>3, <1>4, <1>5, <1>6 DEF EnsureStep

LEMMA CreateTyped ==
  ASSUME Typed, NEW c \in Calls, CreateStep(c)
  PROVE  Typed'
  <1> USE DEF Typed, TypeOK, CallsAddressed, GoTo, Answer, Settle, lifeVars, callVars,
              memoryVars, hostVars, dbVars, Phases, CreationPhases, Outcomes, Rejections
  <1>1. CASE MakeDir(c)
    BY <1>1 DEF MakeDir
  <1>2. CASE DiskError(c)
    BY <1>2, NoneAssumption DEF DiskError
  <1>3. CASE SpawnThrows(c)
    BY <1>3 DEF SpawnThrows
  <1>4. CASE ClearUnspawned(c)
    BY <1>4 DEF ClearUnspawned
  <1>5. CASE Register(c)
    BY <1>5 DEF Register
  <1>6. CASE RegisterClosed(c)
    BY <1>6 DEF RegisterClosed
  <1>7. CASE StartReady(c)
    BY <1>7 DEF StartReady
  <1>8. ASSUME NEW o \in {"broken", "late"}, phase[c] = "starting", Abort(c, o)
        PROVE  Typed'
    <2>1. CASE jobs[session[c]] = None
      BY <1>8, <2>1 DEF Abort
    <2>2. CASE jobs[session[c]] # None
      <3>1. Kill({session[c]}) /\ jobs[session[c]] \in Calls
        BY <1>8, <2>2 DEF Abort
      <3>2. QED
        BY <1>8, <2>2, <3>1, KillTypes DEF Abort
    <2>3. QED
      BY <2>1, <2>2
  <1>9. CASE StartBroken(c)
    BY <1>8, <1>9 DEF StartBroken
  <1>10. CASE StartLate(c)
    BY <1>8, <1>10 DEF StartLate
  <1>11. CASE FinishAbort(c)
    BY <1>11 DEF FinishAbort
  <1>12. QED
    BY <1>1, <1>2, <1>3, <1>4, <1>5, <1>6, <1>7, <1>9, <1>10, <1>11 DEF CreateStep

LEMMA OtherTyped ==
  ASSUME Typed, [Next]_vars,
         ~ \E c \in Calls : EnsureStep(c) \/ CreateStep(c)
  PROVE  Typed'
  <1> USE DEF Typed, TypeOK, CallsAddressed, GoTo, Answer, lifeVars, callVars,
              memoryVars, hostVars, dbVars, Phases, CreationPhases, Outcomes, Rejections
  <1>1. ASSUME NEW c \in Calls, NEW s \in Sessions, NEW o \in Options, Begin(c, s, o)
        PROVE  Typed'
    BY <1>1 DEF Begin
  <1>2. ASSUME NEW c \in Calls, TakeShared(c)
        PROVE  Typed'
    BY <1>2 DEF TakeShared
  <1>3. ASSUME NEW c \in Calls, ReadManifest(c)
        PROVE  Typed'
    BY <1>3 DEF ReadManifest
  <1>4. ASSUME NEW c \in Calls, KillStep(c)
        PROVE  Typed'
    <2>1. CASE RemoveDir(c)
      BY <2>1 DEF RemoveDir
    <2>2. CASE ClearRecorded(c)
      BY <2>2 DEF ClearRecorded
    <2>3. CASE SweepDir(c)
      BY <2>3 DEF SweepDir
    <2>4. QED
      BY <1>4, <2>1, <2>2, <2>3 DEF KillStep
  <1>5. ASSUME NEW c \in Calls, ProcessStep(c)
        PROVE  Typed'
    BY <1>5 DEF ProcessStep, Produce, Exit, DieOfSignal
  <1>6. ASSUME NEW s \in Sessions, AssetRequest(s) \/ Revoke(s) \/ GrowIdle(s)
        PROVE  Typed'
    BY <1>6 DEF AssetRequest, Revoke, GrowIdle
  <1>7. CASE Reap
    BY <1>7, KillTypes DEF Reap
  <1>8. CASE Stop
    <2>1. {jobs[s] : s \in JobSessions} \subseteq Calls
      BY DEF JobSessions
    <2>2. QED
      BY <1>8, <2>1, KillTypes DEF Stop
  <1>9. CASE CloseDb
    BY <1>9 DEF CloseDb
  <1>10. CASE Crash
    BY <1>10, BoundsAssumption DEF Crash
  <1>11. CASE Boot
    BY <1>11 DEF Boot
  <1>12. CASE UNCHANGED vars
    BY <1>12 DEF vars
  <1>13. QED
    BY <1>1, <1>2, <1>3, <1>4, <1>5, <1>6, <1>7, <1>8, <1>9, <1>10, <1>11, <1>12
    DEF Next, HandlerStep, Finished

LEMMA TypedInductive == Typed /\ [Next]_vars => Typed'
  BY EnsureTyped, CreateTyped, OtherTyped

LEMMA TypedInvariant == Spec => []Typed
  <1>1. Init => Typed
    BY InitTyped
  <1>2. Typed /\ [Next]_vars => Typed'
    BY TypedInductive
  <1>3. QED
    BY <1>1, <1>2, PTL DEF Spec

\* Every variable of the registry keeps its type.
THEOREM TypeCorrect == Spec => []TypeOK
  BY TypedInvariant, PTL DEF Typed

-----------------------------------------------------------------------------
(***************************************************************************)
(* One creation per session, and a creation fails only its own job.        *)
(***************************************************************************)
Exclusive == Typed /\ CreationsExclusive /\ StartingOwnsJob

LEMMA EnsureExclusive ==
  ASSUME Exclusive, NEW c \in Calls, EnsureStep(c), Typed'
  PROVE  Exclusive'
  <1> USE DEF Exclusive, Typed, TypeOK, CallsAddressed, CreationsExclusive, StartingOwnsJob,
              GoTo, Answer, memoryVars, callVars, CreationPhases, AtEntry, AtLookup
  <1>1. CASE ReuseJob(c)
    BY <1>1 DEF ReuseJob
  <1>2. CASE ReplaceJob(c)
    BY <1>2 DEF ReplaceJob, Kill
  <1>3. CASE JoinCreation(c)
    BY <1>3 DEF JoinCreation
  <1>4. CASE RefuseBusy(c)
    BY <1>4, NoneAssumption DEF RefuseBusy
  <1>5. CASE AdmitCreation(c)
    BY <1>5, NoneAssumption DEF AdmitCreation
  <1>6. CASE FinishRefusal(c)
    BY <1>6, NoneAssumption DEF FinishRefusal, Settle
  <1>7. QED
    BY <1>1, <1>2, <1>3, <1>4, <1>5, <1>6 DEF EnsureStep

LEMMA CreateExclusive ==
  ASSUME Exclusive, NEW c \in Calls, CreateStep(c), Typed'
  PROVE  Exclusive'
  <1> USE NoneAssumption
      DEF Exclusive, Typed, TypeOK, CallsAddressed, CreationsExclusive, StartingOwnsJob,
          GoTo, Answer, Settle, memoryVars, callVars, CreationPhases
  <1>1. CASE MakeDir(c)
    BY <1>1 DEF MakeDir
  <1>2. CASE DiskError(c)
    BY <1>2 DEF DiskError
  <1>3. CASE SpawnThrows(c)
    BY <1>3 DEF SpawnThrows
  <1>4. CASE ClearUnspawned(c)
    BY <1>4 DEF ClearUnspawned
  <1>5. CASE Register(c)
    BY <1>5 DEF Register
  <1>6. CASE RegisterClosed(c)
    BY <1>6 DEF RegisterClosed
  <1>7. CASE StartReady(c)
    BY <1>7 DEF StartReady
  <1>8. ASSUME NEW o \in {"broken", "late"}, phase[c] = "starting", Abort(c, o)
        PROVE  Exclusive'
    <2>1. CASE jobs[session[c]] = None
      BY <1>8, <2>1 DEF Abort
    <2>2. CASE jobs[session[c]] # None
      BY <1>8, <2>2 DEF Abort, Kill
    <2>3. QED
      BY <2>1, <2>2
  <1>9. CASE StartBroken(c)
    BY <1>8, <1>9 DEF StartBroken
  <1>10. CASE StartLate(c)
    BY <1>8, <1>10 DEF StartLate
  <1>11. CASE FinishAbort(c)
    BY <1>11 DEF FinishAbort
  <1>12. QED
    BY <1>1, <1>2, <1>3, <1>4, <1>5, <1>6, <1>7, <1>9, <1>10, <1>11 DEF CreateStep

LEMMA OtherExclusive ==
  ASSUME Exclusive, [Next]_vars, Typed',
         ~ \E c \in Calls : EnsureStep(c) \/ CreateStep(c)
  PROVE  Exclusive'
  <1> USE NoneAssumption
      DEF Exclusive, Typed, TypeOK, CallsAddressed, CreationsExclusive, StartingOwnsJob,
          GoTo, Answer, memoryVars, callVars, CreationPhases
  <1>1. ASSUME NEW c \in Calls, NEW s \in Sessions, NEW o \in Options, Begin(c, s, o)
        PROVE  Exclusive'
    BY <1>1 DEF Begin
  <1>2. ASSUME NEW c \in Calls, TakeShared(c) \/ ReadManifest(c)
        PROVE  Exclusive'
    <2>1. /\ phase[c] \in {"sharing", "reading"}
          /\ \E p \in {"reading", "answered"} : phase' = [phase EXCEPT ![c] = p]
          /\ UNCHANGED <<session, jobs, pending>>
      BY <1>2 DEF TakeShared, ReadManifest
    <2>2. QED
      BY <2>1
  <1>3. ASSUME NEW c \in Calls, KillStep(c) \/ ProcessStep(c)
        PROVE  Exclusive'
    BY <1>3 DEF KillStep, RemoveDir, ClearRecorded, SweepDir, ProcessStep, Produce, Exit,
                DieOfSignal
  <1>4. ASSUME NEW s \in Sessions, AssetRequest(s) \/ Revoke(s) \/ GrowIdle(s)
        PROVE  Exclusive'
    BY <1>4 DEF AssetRequest, Revoke, GrowIdle
  <1>5. CASE Reap \/ Stop
    BY <1>5 DEF Reap, Stop, Kill
  <1>6. CASE CloseDb \/ Boot \/ UNCHANGED vars
    BY <1>6 DEF CloseDb, Boot, vars
  <1>7. CASE Crash
    BY <1>7 DEF Crash
  <1>8. QED
    BY <1>1, <1>2, <1>3, <1>4, <1>5, <1>6, <1>7 DEF Next, HandlerStep, Finished

LEMMA ExclusiveInductive == Exclusive /\ [Next]_vars => Exclusive'
  BY TypedInductive, EnsureExclusive, CreateExclusive, OtherExclusive DEF Exclusive

LEMMA InitExclusive == Init => Exclusive
  BY InitTyped, NoneAssumption
  DEF Init, Exclusive, CreationsExclusive, StartingOwnsJob, CreationPhases

LEMMA ExclusiveInvariant == Spec => []Exclusive
  <1>1. Init => Exclusive
    BY InitExclusive
  <1>2. Exclusive /\ [Next]_vars => Exclusive'
    BY ExclusiveInductive
  <1>3. QED
    BY <1>1, <1>2, PTL DEF Spec

\* ensureJob coalesces: one creation per session, whatever overlaps or fails.
THEOREM CreationsAreExclusive == Spec => []CreationsExclusive
  BY ExclusiveInvariant, PTL DEF Exclusive

\* The failure path of createJob, which kills by session id, only ever meets
\* its own job.
THEOREM StartupKillsItsOwnJob == Spec => []StartingOwnsJob
  BY ExclusiveInvariant, PTL DEF Exclusive

-----------------------------------------------------------------------------
(***************************************************************************)
(* The operator's cap.  Only an admission adds a session to Slots: a job   *)
(* is registered for a session that `pending' already holds.               *)
(***************************************************************************)
LEMMA SlotsShrink ==
  ASSUME Exclusive, [Next]_vars, ~ \E c \in Calls : AdmitCreation(c)
  PROVE  Slots' \subseteq Slots
  <1> USE NoneAssumption
      DEF Exclusive, Typed, TypeOK, CallsAddressed, Slots, JobSessions, PendingSessions,
          AdmittedSessions, memoryVars
  \* A call that is not being refused moves on, and jobs and entries only go.
  <1>0. ASSUME NEW c \in Calls, phase[c] # "refusing",
               NEW p, phase' = [phase EXCEPT ![c] = p],
               \A s \in Sessions : jobs'[s] \in {jobs[s], None},
               \A s \in Sessions : pending'[s] \in {pending[s], None}
        PROVE  Slots' \subseteq Slots
    BY <1>0
  <1>1. ASSUME NEW c \in Calls, EnsureStep(c), ~RefuseBusy(c), ~FinishRefusal(c)
        PROVE  Slots' \subseteq Slots
    <2>1. /\ phase[c] \in {"checked", "waiting", "killing"}
          /\ \E p \in Phases : phase' = [phase EXCEPT ![c] = p]
          /\ \A s \in Sessions : jobs'[s] \in {jobs[s], None}
          /\ UNCHANGED pending
      BY <1>1 DEF EnsureStep, ReuseJob, ReplaceJob, JoinCreation, AtEntry, AtLookup, Kill,
                  GoTo, Phases, CreationPhases
    <2>2. QED
      BY <1>0, <2>1
  <1>2. ASSUME NEW c \in Calls, RefuseBusy(c) \/ FinishRefusal(c)
        PROVE  Slots' \subseteq Slots
    <2>1. CASE RefuseBusy(c)
      BY <2>1 DEF RefuseBusy, GoTo
    <2>2. CASE FinishRefusal(c)
      <3>1. \A s \in Sessions : pending[s] = c => s = session[c]
        BY DEF CreationsExclusive
      <3>2. QED
        BY <2>2, <3>1 DEF FinishRefusal, Answer, GoTo, Settle
    <2>3. QED
      BY <1>2, <2>1, <2>2
  <1>3. ASSUME NEW c \in Calls, Register(c) \/ RegisterClosed(c)
        PROVE  Slots' \subseteq Slots
    <2>1. phase[c] = "probing" /\ session[c] \in Sessions
      BY <1>3 DEF Register, RegisterClosed
    <2>2. pending[session[c]] = c
      BY <2>1 DEF CreationsExclusive, CreationPhases
    <2>3. session[c] \in AdmittedSessions
      BY <2>1, <2>2
    <2>4. /\ \E p \in {"starting", "answered"} : phase' = [phase EXCEPT ![c] = p]
          /\ \A s \in Sessions : pending'[s] \in {pending[s], None}
          /\ jobs' = [jobs EXCEPT ![session[c]] = c]
      BY <1>3 DEF Register, RegisterClosed, Answer, GoTo, Settle
    <2>5. QED
      BY <2>1, <2>3, <2>4
  <1>4. ASSUME NEW c \in Calls, StartBroken(c) \/ StartLate(c)
        PROVE  Slots' \subseteq Slots
    <2>1. PICK o \in {"broken", "late"} : Abort(c, o) /\ phase[c] = "starting"
      BY <1>4 DEF StartBroken, StartLate
    <2>2. /\ \E p \in {"answered", "aborting"} : phase' = [phase EXCEPT ![c] = p]
          /\ \A s \in Sessions : jobs'[s] \in {jobs[s], None}
          /\ \A s \in Sessions : pending'[s] \in {pending[s], None}
      BY <2>1 DEF Abort, Kill, GoTo, Settle
    <2>3. QED
      BY <1>0, <2>1, <2>2
  <1>5. ASSUME NEW c \in Calls,
               MakeDir(c) \/ DiskError(c) \/ SpawnThrows(c) \/ ClearUnspawned(c)
                 \/ StartReady(c) \/ FinishAbort(c) \/ TakeShared(c) \/ ReadManifest(c)
        PROVE  Slots' \subseteq Slots
    <2>1. /\ phase[c] # "refusing"
          /\ \E p \in Phases : phase' = [phase EXCEPT ![c] = p]
          /\ UNCHANGED jobs
          /\ \A s \in Sessions : pending'[s] \in {pending[s], None}
      BY <1>5 DEF MakeDir, DiskError, SpawnThrows, ClearUnspawned, StartReady, FinishAbort,
                  TakeShared, ReadManifest, Answer, GoTo, Settle, Phases, CreationPhases
    <2>2. QED
      BY <1>0, <2>1
  <1>6. ASSUME UNCHANGED <<phase, pending>>,
               \A s \in Sessions : jobs'[s] \in {jobs[s], None}
        PROVE  Slots' \subseteq Slots
    BY <1>6
  <1>7. ASSUME NEW c \in Calls, KillStep(c) \/ ProcessStep(c)
        PROVE  Slots' \subseteq Slots
    BY <1>6, <1>7 DEF KillStep, RemoveDir, ClearRecorded, SweepDir, ProcessStep, Produce,
                      Exit, DieOfSignal, callVars
  <1>8. ASSUME NEW c \in Calls, NEW s \in Sessions, NEW o \in Options, Begin(c, s, o)
        PROVE  Slots' \subseteq Slots
    BY <1>0, <1>8 DEF Begin, GoTo
  <1>9. ASSUME NEW s \in Sessions, AssetRequest(s) \/ Revoke(s) \/ GrowIdle(s)
        PROVE  Slots' \subseteq Slots
    BY <1>6, <1>9 DEF AssetRequest, Revoke, GrowIdle, callVars
  <1>10. CASE Reap \/ Stop
    BY <1>6, <1>10 DEF Reap, Stop, Kill, callVars
  <1>11. CASE CloseDb \/ Boot \/ UNCHANGED vars
    BY <1>6, <1>11 DEF CloseDb, Boot, vars, callVars
  <1>12. CASE Crash
    BY <1>12 DEF Crash
  <1>13. QED
    BY <1>1, <1>2, <1>3, <1>4, <1>5, <1>7, <1>8, <1>9, <1>10, <1>11, <1>12
    DEF Next, HandlerStep, EnsureStep, CreateStep, Finished

LEMMA AdmissionBelowCap ==
  ASSUME Exclusive, NEW c \in Calls, AdmitCreation(c)
  PROVE  IsFiniteSet(Slots) /\ Cardinality(Slots) \in Nat /\ Cardinality(Slots) < MaxTranscodes
  <1> DEFINE Held == JobSessions \cup PendingSessions
  <1> USE SessionsAssumption, MaxTranscodesAssumption
  <1>1. IsFiniteSet(JobSessions) /\ IsFiniteSet(PendingSessions)
    BY FS_Subset DEF JobSessions, PendingSessions
  <1>2. /\ Cardinality(JobSessions) \in Nat
        /\ Cardinality(PendingSessions) \in Nat
        /\ Cardinality(JobSessions \cap PendingSessions) \in Nat
        /\ IsFiniteSet(Held)
        /\ Cardinality(Held) \in Nat
    BY <1>1, FS_CardinalityType, FS_Intersection, FS_Union
  <1>3. Cardinality(Held) =
          Cardinality(JobSessions) + Cardinality(PendingSessions)
            - Cardinality(JobSessions \cap PendingSessions)
    BY <1>1, FS_Union
  <1>4. Cardinality(JobSessions) + Cardinality(PendingSessions) < MaxTranscodes
    BY <1>2 DEF AdmitCreation, AtCapacity
  <1>5. Cardinality(Held) < MaxTranscodes
    BY <1>2, <1>3, <1>4
  <1>6. Slots \subseteq Held
    BY DEF Slots, AdmittedSessions
  <1>7. IsFiniteSet(Slots) /\ Cardinality(Slots) <= Cardinality(Held) /\ Cardinality(Slots) \in Nat
    BY <1>2, <1>6, FS_Subset, FS_CardinalityType
  <1>8. QED
    BY <1>2, <1>5, <1>7

LEMMA AdmissionFits ==
  ASSUME Exclusive, NEW c \in Calls, AdmitCreation(c)
  PROVE  Cardinality(Slots') <= MaxTranscodes
  <1>1. IsFiniteSet(Slots) /\ Cardinality(Slots) \in Nat /\ Cardinality(Slots) < MaxTranscodes
    BY AdmissionBelowCap
  <1>2. Slots' \subseteq Slots \cup {session[c]}
    BY NoneAssumption
    DEF AdmitCreation, Slots, JobSessions, PendingSessions, AdmittedSessions, GoTo, AtLookup,
        AtEntry, Exclusive, Typed, TypeOK
  <1>3. /\ IsFiniteSet(Slots \cup {session[c]})
        /\ Cardinality(Slots \cup {session[c]}) =
             IF session[c] \in Slots THEN Cardinality(Slots) ELSE Cardinality(Slots) + 1
    BY <1>1, FS_AddElement, Zenon
  <1>4. /\ Cardinality(Slots') <= Cardinality(Slots \cup {session[c]})
        /\ Cardinality(Slots') \in Nat
    BY <1>2, <1>3, FS_Subset, FS_CardinalityType
  <1>5. QED
    BY <1>1, <1>3, <1>4, MaxTranscodesAssumption

\* Jobs and creations together never exceed maxTranscodes, through crashes,
\* failed start-ups, replacements and shutdown.
THEOREM CapHolds == Spec => []CapRespected
  <1>1. Init => CapRespected
    <2>1. Init => Slots = {}
      BY DEF Init, Slots, JobSessions, PendingSessions, AdmittedSessions
    <2>2. QED
      BY <2>1, FS_EmptySet, MaxTranscodesAssumption DEF CapRespected
  <1>2. Exclusive /\ CapRespected /\ [Next]_vars => CapRespected'
    <2>1. SUFFICES ASSUME Exclusive, CapRespected, [Next]_vars,
                          ~ \E c \in Calls : AdmitCreation(c)
                   PROVE  CapRespected'
      BY AdmissionFits DEF CapRespected
    <2>2. IsFiniteSet(Slots)
      BY SessionsAssumption, FS_Subset DEF Slots, JobSessions, PendingSessions, AdmittedSessions
    <2>3. /\ Cardinality(Slots') <= Cardinality(Slots)
          /\ Cardinality(Slots') \in Nat
          /\ Cardinality(Slots) \in Nat
      BY <2>1, <2>2, SlotsShrink, FS_Subset, FS_CardinalityType
    <2>4. QED
      BY <2>1, <2>3, MaxTranscodesAssumption DEF CapRespected
  <1>3. QED
    BY <1>1, <1>2, ExclusiveInvariant, PTL DEF Spec

-----------------------------------------------------------------------------
(***************************************************************************)
(* Whose dir a call gets.  A call takes the dir of the session's job after *)
(* comparing its options, or of the creation it chose to share: either was *)
(* begun for the same session, and a call never changes what it asked for. *)
(***************************************************************************)
JobsAddressed ==
  \A s \in Sessions : jobs[s] # None => session[jobs[s]] = s /\ phase[jobs[s]] # "unused"

\* Call c awaits, reads or has read a dir that is made for what it asks.
TakesDir(c) == phase[c] \in {"sharing", "reading"} \/ outcome[c] \in {"served", "missing"}

DirsMatch ==
  \A c \in Calls : TakesDir(c) =>
    /\ on[c] \in Calls /\ phase[on[c]] # "unused"
    /\ session[on[c]] = session[c] /\ options[on[c]] = options[c]

\* A call that answered with a manifest is over.
ServedIsAnswered ==
  \A c \in Calls : outcome[c] \in {"served", "missing"} => phase[c] = "answered"

Timelines == Exclusive /\ JobsAddressed /\ DirsMatch /\ ServedIsAnswered

LEMMA EnsureTimelines ==
  ASSUME Timelines, Exclusive', NEW c \in Calls, EnsureStep(c)
  PROVE  Timelines'
  <1> USE NoneAssumption
      DEF Timelines, Exclusive, Typed, TypeOK, CallsAddressed, JobsAddressed, TakesDir,
          DirsMatch, ServedIsAnswered, GoTo, Answer
  <1>0. phase[c] \in {"checked", "waiting", "killing", "refusing"} /\ session[c] \in Sessions
    BY DEF EnsureStep, ReuseJob, ReplaceJob, JoinCreation, RefuseBusy, FinishRefusal,
           AdmitCreation, AtLookup, AtEntry
  <1>1. CASE ReuseJob(c)
    BY <1>0, <1>1 DEF ReuseJob
  <1>2. CASE ReplaceJob(c)
    BY <1>0, <1>2 DEF ReplaceJob, Kill
  <1>3. CASE JoinCreation(c)
    <2>1. /\ pending[session[c]] \in Calls
          /\ session[pending[session[c]]] = session[c]
          /\ phase[pending[session[c]]] # "unused"
      BY <1>0, <1>3 DEF JoinCreation, CreationsExclusive, CreationPhases
    <2>2. QED
      BY <1>0, <1>3, <2>1 DEF JoinCreation, memoryVars
  <1>4. CASE RefuseBusy(c)
    BY <1>0, <1>4 DEF RefuseBusy, memoryVars
  <1>5. CASE AdmitCreation(c)
    BY <1>0, <1>5 DEF AdmitCreation
  <1>6. CASE FinishRefusal(c)
    BY <1>0, <1>6 DEF FinishRefusal, memoryVars
  <1>7. QED
    BY <1>1, <1>2, <1>3, <1>4, <1>5, <1>6 DEF EnsureStep

LEMMA CreateTimelines ==
  ASSUME Timelines, Exclusive', NEW c \in Calls, CreateStep(c)
  PROVE  Timelines'
  <1> USE NoneAssumption
      DEF Timelines, Exclusive, Typed, TypeOK, CallsAddressed, JobsAddressed, TakesDir,
          DirsMatch, ServedIsAnswered, GoTo, Answer, memoryVars
  <1>1. CASE MakeDir(c) \/ SpawnThrows(c) \/ DiskError(c) \/ ClearUnspawned(c)
    <2>1. /\ phase[c] \in {"creating", "probing", "clearing"}
          /\ UNCHANGED <<session, options, on, jobs>>
          /\ \/ GoTo(c, "probing") /\ UNCHANGED outcome
             \/ GoTo(c, "clearing") /\ UNCHANGED outcome
             \/ Answer(c, "ioError")
      BY <1>1 DEF MakeDir, SpawnThrows, DiskError, ClearUnspawned
    <2>2. QED
      BY <2>1
  <1>2. CASE Register(c)
    BY <1>2 DEF Register
  <1>3. CASE RegisterClosed(c)
    BY <1>3 DEF RegisterClosed
  <1>4. CASE StartReady(c)
    BY <1>4 DEF StartReady
  <1>5. ASSUME NEW o \in {"broken", "late"}, phase[c] = "starting", Abort(c, o)
        PROVE  Timelines'
    <2>1. CASE jobs[session[c]] = None
      BY <1>5, <2>1 DEF Abort
    <2>2. CASE jobs[session[c]] # None
      BY <1>5, <2>2 DEF Abort, Kill
    <2>3. QED
      BY <2>1, <2>2
  <1>6. CASE StartBroken(c)
    BY <1>5, <1>6 DEF StartBroken
  <1>7. CASE StartLate(c)
    BY <1>5, <1>7 DEF StartLate
  <1>8. CASE FinishAbort(c)
    BY <1>8 DEF FinishAbort
  <1>9. QED
    BY <1>1, <1>2, <1>3, <1>4, <1>6, <1>7, <1>8 DEF CreateStep

LEMMA OtherTimelines ==
  ASSUME Timelines, Exclusive', [Next]_vars,
         ~ \E c \in Calls : EnsureStep(c) \/ CreateStep(c)
  PROVE  Timelines'
  <1> USE NoneAssumption
      DEF Timelines, Exclusive, Typed, TypeOK, CallsAddressed, JobsAddressed, TakesDir,
          DirsMatch, ServedIsAnswered, GoTo, Answer, memoryVars, callVars
  <1>1. ASSUME NEW c \in Calls, NEW s \in Sessions, NEW o \in Options, Begin(c, s, o)
        PROVE  Timelines'
    BY <1>1 DEF Begin
  <1>2. ASSUME NEW c \in Calls, TakeShared(c)
        PROVE  Timelines'
    BY <1>2 DEF TakeShared, Rejections
  <1>3. ASSUME NEW c \in Calls, ReadManifest(c)
        PROVE  Timelines'
    BY <1>3 DEF ReadManifest
  <1>4. ASSUME UNCHANGED callVars,
               jobs' \in [Sessions -> Calls \cup {None}],
               \A s \in Sessions : jobs'[s] \in {jobs[s], None}
        PROVE  Timelines'
    BY <1>4
  <1>5. ASSUME NEW c \in Calls, KillStep(c) \/ ProcessStep(c)
        PROVE  Timelines'
    BY <1>4, <1>5 DEF KillStep, RemoveDir, ClearRecorded, SweepDir, ProcessStep, Produce,
                      Exit, DieOfSignal
  <1>6. ASSUME NEW s \in Sessions, AssetRequest(s) \/ Revoke(s) \/ GrowIdle(s)
        PROVE  Timelines'
    BY <1>4, <1>6 DEF AssetRequest, Revoke, GrowIdle
  <1>7. CASE Reap \/ Stop
    BY <1>4, <1>7 DEF Reap, Stop, Kill
  <1>8. CASE CloseDb \/ Boot \/ UNCHANGED vars
    BY <1>4, <1>8 DEF CloseDb, Boot, vars
  <1>9. CASE Crash
    BY <1>9 DEF Crash
  <1>10. QED
    BY <1>1, <1>2, <1>3, <1>5, <1>6, <1>7, <1>8, <1>9 DEF Next, HandlerStep, Finished

\* "never return a manifest for the wrong playback timeline": the dir a call
\* reads was made for its session with its options, through replacements,
\* shared creations, failures and crashes.
THEOREM TimelinesAreRight == Spec => []RightTimeline
  <1>1. Init => Timelines
    BY InitExclusive
    DEF Init, Timelines, JobsAddressed, DirsMatch, TakesDir, ServedIsAnswered
  <1>2. Timelines /\ [Next]_vars => Timelines'
    BY ExclusiveInductive, EnsureTimelines, CreateTimelines, OtherTimelines DEF Timelines
  <1>3. Timelines => RightTimeline
    BY DEF Timelines, DirsMatch, TakesDir, RightTimeline
  <1>4. QED
    BY <1>1, <1>2, <1>3, PTL DEF Spec

-----------------------------------------------------------------------------
(***************************************************************************)
(* Who owns a child.  Without a crash only jobs.set can take a running     *)
(* child from the registry, by overwriting its job.  A creation is         *)
(* admitted for a session that has a job only after its own kill() was     *)
(* overtaken (NoneOvertaken), and from its admission to its registration   *)
(* no other creation of the session can register a job.                    *)
(***************************************************************************)
SlotFree ==
  \A c \in Calls : phase[c] \in {"creating", "probing", "clearing"} =>
    jobs[session[c]] = None

NeverDown == server # "down"

Owned == Exclusive /\ SlotFree /\ NeverDown /\ EveryFfmpegIsOwned

LEMMA EnsureOwned ==
  ASSUME Owned, NoneOvertaken, Exclusive', NEW c \in Calls, EnsureStep(c)
  PROVE  Owned'
  <1> USE NoneAssumption
      DEF Owned, Exclusive, Typed, TypeOK, CallsAddressed, SlotFree, NeverDown,
          EveryFfmpegIsOwned, GoTo, Answer, lifeVars, memoryVars, hostVars
  <1>0. phase[c] \in {"checked", "waiting", "killing", "refusing"} /\ session[c] \in Sessions
    BY DEF EnsureStep, ReuseJob, ReplaceJob, JoinCreation, RefuseBusy, FinishRefusal,
           AdmitCreation, AtLookup, AtEntry
  <1>1. CASE ReuseJob(c)
    BY <1>0, <1>1 DEF ReuseJob
  <1>2. CASE ReplaceJob(c)
    BY <1>0, <1>2 DEF ReplaceJob, Kill
  <1>3. CASE JoinCreation(c)
    BY <1>0, <1>3 DEF JoinCreation
  <1>4. CASE RefuseBusy(c)
    BY <1>0, <1>4 DEF RefuseBusy
  <1>5. CASE AdmitCreation(c)
    <2>1. jobs[session[c]] = None
      BY <1>5 DEF AdmitCreation, AtLookup, NoneOvertaken
    <2>2. QED
      BY <1>0, <1>5, <2>1 DEF AdmitCreation
  <1>6. CASE FinishRefusal(c)
    BY <1>0, <1>6 DEF FinishRefusal
  <1>7. QED
    BY <1>1, <1>2, <1>3, <1>4, <1>5, <1>6 DEF EnsureStep

LEMMA CreateOwned ==
  ASSUME Owned, Exclusive', NEW c \in Calls, CreateStep(c)
  PROVE  Owned'
  <1> USE NoneAssumption
      DEF Owned, Exclusive, Typed, TypeOK, CallsAddressed, SlotFree, NeverDown,
          EveryFfmpegIsOwned, GoTo, Answer, Settle, lifeVars, memoryVars, hostVars
  <1>1. CASE MakeDir(c)
    BY <1>1 DEF MakeDir
  <1>2. CASE DiskError(c)
    BY <1>2 DEF DiskError
  <1>3. CASE SpawnThrows(c)
    BY <1>3 DEF SpawnThrows
  <1>4. CASE ClearUnspawned(c)
    BY <1>4 DEF ClearUnspawned
  <1>5. CASE Register(c) \/ RegisterClosed(c)
    <2>1. phase[c] = "probing" /\ session[c] \in Sessions /\ jobs[session[c]] = None
      BY <1>5 DEF Register, RegisterClosed
    <2>2. \A k \in Calls \ {c} : session[k] = session[c] => phase[k] \notin CreationPhases
      <3>1. pending[session[c]] = c
        BY <2>1 DEF CreationsExclusive, CreationPhases
      <3>2. QED
        BY <2>1, <3>1 DEF CreationsExclusive
    <2>3. QED
      BY <1>5, <2>1, <2>2 DEF Register, RegisterClosed, CreationPhases
  <1>6. CASE StartReady(c)
    BY <1>6 DEF StartReady
  <1>7. ASSUME NEW o \in {"broken", "late"}, phase[c] = "starting", Abort(c, o)
        PROVE  Owned'
    <2>1. CASE jobs[session[c]] = None
      BY <1>7, <2>1 DEF Abort
    <2>2. CASE jobs[session[c]] # None
      BY <1>7, <2>2 DEF Abort, Kill
    <2>3. QED
      BY <2>1, <2>2
  <1>8. CASE StartBroken(c) \/ StartLate(c)
    BY <1>7, <1>8 DEF StartBroken, StartLate
  <1>9. CASE FinishAbort(c)
    BY <1>9 DEF FinishAbort
  <1>10. QED
    BY <1>1, <1>2, <1>3, <1>4, <1>5, <1>6, <1>8, <1>9 DEF CreateStep

LEMMA OtherOwned ==
  ASSUME Owned, Exclusive', [Next]_vars, MaxCrashes = 0,
         ~ \E c \in Calls : EnsureStep(c) \/ CreateStep(c)
  PROVE  Owned'
  <1> USE NoneAssumption
      DEF Owned, Exclusive, Typed, TypeOK, CallsAddressed, SlotFree, NeverDown,
          EveryFfmpegIsOwned, GoTo, Answer, lifeVars, callVars, memoryVars, hostVars
  <1>1. ASSUME NEW c \in Calls, NEW s \in Sessions, NEW o \in Options, Begin(c, s, o)
        PROVE  Owned'
    BY <1>1 DEF Begin
  <1>2. ASSUME NEW c \in Calls, TakeShared(c) \/ ReadManifest(c)
        PROVE  Owned'
    <2>1. /\ phase[c] \in {"sharing", "reading"}
          /\ \E p \in {"reading", "answered"} : phase' = [phase EXCEPT ![c] = p]
          /\ UNCHANGED <<lifeVars, session, options, on, memoryVars, hostVars>>
      BY <1>2 DEF TakeShared, ReadManifest
    <2>2. QED
      BY <2>1
  <1>3. ASSUME NEW c \in Calls, KillStep(c) \/ ProcessStep(c)
        PROVE  Owned'
    BY <1>3 DEF KillStep, RemoveDir, ClearRecorded, SweepDir, ProcessStep, Produce, Exit,
                DieOfSignal
  <1>4. ASSUME NEW s \in Sessions, AssetRequest(s) \/ Revoke(s) \/ GrowIdle(s)
        PROVE  Owned'
    BY <1>4 DEF AssetRequest, Revoke, GrowIdle
  <1>5. CASE Reap
    BY <1>5 DEF Reap, Kill, DeadSessions, JobSessions
  <1>6. CASE Stop
    BY <1>6 DEF Stop, Kill, JobSessions
  <1>7. CASE CloseDb \/ UNCHANGED vars
    BY <1>7 DEF CloseDb, vars
  <1>8. ~Crash /\ ~Boot
    BY DEF Crash, Boot
  <1>9. QED
    BY <1>1, <1>2, <1>3, <1>4, <1>5, <1>6, <1>7, <1>8 DEF Next, HandlerStep, Finished

\* "so there are no zombie ffmpegs" fails in one way only: in a behaviour
\* without a crash, in which no replacement is overtaken while it awaits the
\* kill of the job it replaces, every running child is a registered job's.
THEOREM StraysComeFromOvertaking ==
  ASSUME MaxCrashes = 0
  PROVE  Spec /\ []NoneOvertaken => []EveryFfmpegIsOwned
  <1>1. Init => Owned
    BY InitExclusive DEF Init, Owned, SlotFree, NeverDown, EveryFfmpegIsOwned
  <1>2. Owned /\ NoneOvertaken /\ [Next]_vars => Owned'
    BY ExclusiveInductive, EnsureOwned, CreateOwned, OtherOwned DEF Owned
  <1>3. Owned => EveryFfmpegIsOwned
    BY DEF Owned
  <1>4. QED
    BY <1>1, <1>2, <1>3, PTL DEF Spec

-----------------------------------------------------------------------------
(***************************************************************************)
(* Refinement: the registry implements SlotPool.                           *)
(***************************************************************************)
\* A call that is not being refused moves on: nothing is admitted or settled.
LEMMA AdmittedKept ==
  ASSUME Exclusive, NEW c \in Calls, phase[c] # "refusing", NEW p, p # "refusing",
         phase' = [phase EXCEPT ![c] = p], UNCHANGED pending
  PROVE  AdmittedSessions' = AdmittedSessions
  BY NoneAssumption
  DEF AdmittedSessions, PendingSessions, Exclusive, Typed, TypeOK

LEMMA KillMapsToRelease ==
  ASSUME NEW S \in SUBSET Sessions, AdmittedSessions' = AdmittedSessions,
         jobs' = [s \in Sessions |-> IF s \in S THEN None ELSE jobs[s]]
  PROVE  [Pool!Next]_PoolSlot
  <1> DEFINE F == {s \in S : s \notin AdmittedSessions /\ jobs[s] # None}
  <1>1. PoolSlot' = [s \in Sessions |-> IF s \in F THEN "free" ELSE PoolSlot[s]]
    BY DEF PoolSlot
  <1>2. F \subseteq Pool!Busy
    BY DEF PoolSlot, Pool!Busy
  <1>3. CASE F = {}
    <2>1. PoolSlot' = PoolSlot
      BY <1>1, <1>3 DEF PoolSlot
    <2>2. QED
      BY <2>1
  <1>4. CASE F # {}
    <2>1. Pool!Release(F) /\ F \in SUBSET Sessions
      BY <1>1, <1>2, <1>4 DEF Pool!Release
    <2>2. QED
      BY <2>1 DEF Pool!Next
  <1>5. QED
    BY <1>3, <1>4

LEMMA SettleMapsToGoLiveOrGiveUp ==
  ASSUME NEW s \in Sessions, s \in AdmittedSessions,
         AdmittedSessions' = AdmittedSessions \ {s},
         NEW j, jobs' = [t \in Sessions |-> IF t = s THEN j ELSE jobs[t]]
  PROVE  [Pool!Next]_PoolSlot
  <1>1. PoolSlot[s] = "starting"
    BY DEF PoolSlot
  <1>2. CASE j = None
    <2>1. Pool!GiveUp(s)
      BY <1>1, <1>2 DEF PoolSlot, Pool!GiveUp
    <2>2. QED
      BY <2>1 DEF Pool!Next
  <1>3. CASE j # None
    <2>1. Pool!GoLive(s)
      BY <1>1, <1>3 DEF PoolSlot, Pool!GoLive
    <2>2. QED
      BY <2>1 DEF Pool!Next
  <1>4. QED
    BY <1>2, <1>3

LEMMA SettlingMaps ==
  ASSUME Exclusive, NEW c \in Calls, phase[c] \in CreationPhases \ {"refusing"},
         NEW p, phase' = [phase EXCEPT ![c] = p], Settle(c),
         UNCHANGED jobs \/ jobs' = [jobs EXCEPT ![session[c]] = c]
  PROVE  [Pool!Next]_PoolSlot
  <1> USE DEF Exclusive, Typed, TypeOK
  <1>1. session[c] \in Sessions /\ pending[session[c]] = c /\ c # None
    BY NoneAssumption DEF CallsAddressed, CreationsExclusive, CreationPhases
  <1>2. session[c] \in AdmittedSessions
    BY <1>1 DEF AdmittedSessions, PendingSessions
  <1>3. \A s \in Sessions \ {session[c]} : pending[s] # c
    BY <1>1 DEF CreationsExclusive
  <1>4. AdmittedSessions' = AdmittedSessions \ {session[c]}
    BY <1>1, <1>3, NoneAssumption DEF AdmittedSessions, PendingSessions, Settle
  <1>5. \E j : jobs' = [t \in Sessions |-> IF t = session[c] THEN j ELSE jobs[t]]
    <2>1. CASE UNCHANGED jobs
      <3>1. jobs' = [t \in Sessions |-> IF t = session[c] THEN jobs[session[c]] ELSE jobs[t]]
        BY <2>1
      <3>2. QED
        BY <3>1
    <2>2. CASE jobs' = [jobs EXCEPT ![session[c]] = c]
      <3>1. jobs' = [t \in Sessions |-> IF t = session[c] THEN c ELSE jobs[t]]
        BY <2>2
      <3>2. QED
        BY <3>1
    <2>3. QED
      BY <2>1, <2>2
  <1>6. PICK j : jobs' = [t \in Sessions |-> IF t = session[c] THEN j ELSE jobs[t]]
    BY <1>5
  <1>7. QED
    <2> HIDE DEF Exclusive, Typed, TypeOK
    <2>1. QED
      BY <1>1, <1>2, <1>4, <1>6, SettleMapsToGoLiveOrGiveUp

\* A step of the handler that neither admits, settles, registers nor kills.
LEMMA WaitingMaps ==
  ASSUME Exclusive, NEW c \in Calls,
         ReuseJob(c) \/ JoinCreation(c) \/ MakeDir(c) \/ SpawnThrows(c)
           \/ TakeShared(c) \/ ReadManifest(c)
  PROVE  [Pool!Next]_PoolSlot
  <1>1. /\ phase[c] # "refusing" /\ UNCHANGED <<jobs, pending>>
        /\ \E p : p # "refusing" /\ phase' = [phase EXCEPT ![c] = p]
    <2>1. CASE ReuseJob(c)
      BY <2>1 DEF ReuseJob, AtEntry, GoTo
    <2>2. CASE JoinCreation(c)
      BY <2>2 DEF JoinCreation, AtLookup, AtEntry, GoTo, memoryVars
    <2>3. CASE MakeDir(c)
      BY <2>3 DEF MakeDir, GoTo, memoryVars
    <2>4. CASE SpawnThrows(c)
      BY <2>4 DEF SpawnThrows, GoTo, memoryVars
    <2>5. CASE TakeShared(c)
      BY <2>5 DEF TakeShared, Answer, GoTo, memoryVars
    <2>6. CASE ReadManifest(c)
      BY <2>6 DEF ReadManifest, Answer, GoTo, memoryVars
    <2>7. QED
      BY <2>1, <2>2, <2>3, <2>4, <2>5, <2>6
  <1>2. AdmittedSessions' = AdmittedSessions
    BY <1>1, AdmittedKept
  <1>3. QED
    BY <1>1, <1>2 DEF PoolSlot

LEMMA AdmissionTakes ==
  ASSUME Exclusive, NEW c \in Calls, AdmitCreation(c)
  PROVE  [Pool!Next]_PoolSlot
  <1> USE DEF Exclusive, Typed, TypeOK
  <1>1. /\ phase[c] \in {"checked", "waiting", "killing"} /\ session[c] \in Sessions
        /\ pending[session[c]] = None /\ c # None
    BY NoneAssumption DEF AdmitCreation, AtLookup, AtEntry, CallsAddressed
  <1>2. session[c] \notin AdmittedSessions
    BY <1>1 DEF AdmittedSessions, PendingSessions
  <1>3. AdmittedSessions' = AdmittedSessions \cup {session[c]}
    BY <1>1, NoneAssumption DEF AdmitCreation, AdmittedSessions, PendingSessions, GoTo
  <1>4. UNCHANGED jobs
    BY DEF AdmitCreation
  <1>5. /\ PoolSlot[session[c]] \in {"free", "live"}
        /\ PoolSlot' = [PoolSlot EXCEPT ![session[c]] = "starting"]
    <2> HIDE DEF Exclusive, Typed, TypeOK
    <2>1. QED
      BY <1>1, <1>2, <1>3, <1>4 DEF PoolSlot
  <1>6. Pool!Busy = Slots
    BY DEF Pool!Busy, PoolSlot, Slots, JobSessions, AdmittedSessions, PendingSessions
  <1> HIDE DEF Exclusive, Typed, TypeOK
  <1>7. Cardinality(Pool!Busy) < MaxTranscodes
    <2>1. Cardinality(Slots) < MaxTranscodes
      BY AdmissionBelowCap
    <2>2. QED
      BY <1>6, <2>1
  <1>8. Pool!Take(session[c])
    BY <1>5, <1>7, Zenon DEF Pool!Take, Pool!Cardinality, Cardinality
  <1>9. QED
    BY <1>1, <1>8 DEF Pool!Next

LEMMA RefusalMaps ==
  ASSUME Exclusive, NEW c \in Calls, RefuseBusy(c) \/ FinishRefusal(c)
  PROVE  [Pool!Next]_PoolSlot
  <1> USE DEF Exclusive, Typed, TypeOK
  <1>1. CASE RefuseBusy(c)
    <2>1. /\ phase[c] # "refusing" /\ session[c] \in Sessions
          /\ pending[session[c]] = None
      BY <1>1 DEF RefuseBusy, AtLookup, AtEntry, CallsAddressed
    <2>2. AdmittedSessions' = AdmittedSessions
      <3>1. \A s \in Sessions : pending[s] # c
        BY <2>1, <1>1, NoneAssumption
        DEF CreationsExclusive, CreationPhases, RefuseBusy, AtLookup, AtEntry
      <3>2. QED
        BY <1>1, <2>1, <3>1, NoneAssumption
        DEF RefuseBusy, GoTo, AdmittedSessions, PendingSessions
    <2>3. QED
      BY <1>1, <2>2 DEF RefuseBusy, PoolSlot
  <1>2. CASE FinishRefusal(c)
    <2>1. /\ session[c] \in Sessions /\ pending[session[c]] = c
          /\ \A s \in Sessions \ {session[c]} : pending[s] # c
      BY <1>2, NoneAssumption
      DEF FinishRefusal, CallsAddressed, CreationsExclusive, CreationPhases
    <2>2. AdmittedSessions' = AdmittedSessions
      BY <1>2, <2>1, NoneAssumption
      DEF FinishRefusal, Answer, GoTo, Settle, AdmittedSessions, PendingSessions
    <2>3. QED
      BY <1>2, <2>2 DEF FinishRefusal, PoolSlot
  <1>3. QED
    BY <1>1, <1>2

LEMMA CreationMaps ==
  ASSUME Exclusive, NEW c \in Calls,
         Register(c) \/ RegisterClosed(c) \/ DiskError(c) \/ ClearUnspawned(c)
           \/ StartReady(c) \/ StartBroken(c) \/ StartLate(c) \/ FinishAbort(c)
  PROVE  [Pool!Next]_PoolSlot
  <1>0. phase[c] # "refusing"
    BY DEF Register, RegisterClosed, DiskError, ClearUnspawned, StartReady, StartBroken,
           StartLate, FinishAbort
  <1>1. CASE Register(c)
    <2>1. session[c] \in AdmittedSessions
      <3>1. session[c] \in Sessions /\ pending[session[c]] = c /\ c # None
        BY <1>1, NoneAssumption
        DEF Register, Exclusive, Typed, CallsAddressed, CreationsExclusive, CreationPhases
      <3>2. QED
        BY <1>0, <3>1 DEF AdmittedSessions, PendingSessions
    <2>2. AdmittedSessions' = AdmittedSessions
      BY <1>0, <1>1, AdmittedKept DEF Register, GoTo
    <2>3. jobs' = [jobs EXCEPT ![session[c]] = c] /\ jobs \in [Sessions -> Calls \cup {None}]
      BY <1>1 DEF Register, Exclusive, Typed, TypeOK
    <2>4. QED
      BY <2>1, <2>2, <2>3 DEF PoolSlot
  <1>2. CASE RegisterClosed(c) \/ DiskError(c) \/ ClearUnspawned(c) \/ StartReady(c)
               \/ FinishAbort(c)
    <2>1. /\ phase[c] \in CreationPhases /\ Settle(c)
          /\ \E p : phase' = [phase EXCEPT ![c] = p]
          /\ UNCHANGED jobs \/ jobs' = [jobs EXCEPT ![session[c]] = c]
      BY <1>2 DEF RegisterClosed, DiskError, ClearUnspawned, StartReady, FinishAbort,
                  CreationPhases, Answer, GoTo
    <2>2. QED
      BY <1>0, <2>1, SettlingMaps
  <1>3. CASE StartBroken(c) \/ StartLate(c)
    <2>1. PICK o : phase[c] = "starting" /\ Abort(c, o)
      BY <1>3 DEF StartBroken, StartLate
    <2>2. session[c] \in Sessions /\ phase[c] \in CreationPhases
      BY <2>1 DEF Exclusive, Typed, CallsAddressed, CreationPhases
    <2>3. CASE jobs[session[c]] = None
      <3>1. /\ Settle(c) /\ UNCHANGED jobs
            /\ \E p : phase' = [phase EXCEPT ![c] = p]
        BY <2>1, <2>3 DEF Abort, GoTo
      <3>2. QED
        BY <1>0, <2>2, <3>1, SettlingMaps
    <2>4. CASE jobs[session[c]] # None
      <3>1. /\ UNCHANGED pending /\ phase' = [phase EXCEPT ![c] = "aborting"]
            /\ jobs' = [s \in Sessions |-> IF s \in {session[c]} THEN None ELSE jobs[s]]
        BY <2>1, <2>4 DEF Abort, Kill, GoTo
      <3>2. {session[c]} \in SUBSET Sessions
        BY <2>2
      <3>3. AdmittedSessions' = AdmittedSessions
        BY <1>0, <3>1, AdmittedKept
      <3>4. QED
        BY <3>1, <3>2, <3>3, KillMapsToRelease
    <2>5. QED
      BY <2>3, <2>4
  <1>4. QED
    BY <1>1, <1>2, <1>3

LEMMA CrashMaps ==
  ASSUME Exclusive, Crash
  PROVE  [Pool!Next]_PoolSlot
  <1>1. PoolSlot' = [s \in Sessions |-> "free"]
    BY DEF Crash, PoolSlot, AdmittedSessions, PendingSessions
  <1>2. PoolSlot' = [s \in Sessions |-> IF s \in Pool!Busy THEN "free" ELSE PoolSlot[s]]
    BY <1>1 DEF Pool!Busy, PoolSlot
  <1>3. CASE Pool!Busy = {}
    BY <1>2, <1>3 DEF PoolSlot
  <1>4. CASE Pool!Busy # {}
    <2>1. Pool!Release(Pool!Busy) /\ Pool!Busy \in SUBSET Sessions
      BY <1>2, <1>4 DEF Pool!Release, Pool!Busy
    <2>2. QED
      BY <2>1 DEF Pool!Next
  <1>5. QED
    BY <1>3, <1>4

LEMMA PoolStep ==
  ASSUME Exclusive, [Next]_vars
  PROVE  [Pool!Next]_PoolSlot
  <1>0. ASSUME UNCHANGED <<phase, jobs, pending>>
        PROVE  [Pool!Next]_PoolSlot
    BY <1>0 DEF PoolSlot, AdmittedSessions, PendingSessions
  <1>1. ASSUME NEW c \in Calls, HandlerStep(c), ~ReplaceJob(c)
        PROVE  [Pool!Next]_PoolSlot
    BY <1>1, WaitingMaps, AdmissionTakes, RefusalMaps, CreationMaps
    DEF HandlerStep, EnsureStep, CreateStep
  <1>2. ASSUME NEW c \in Calls, ReplaceJob(c)
        PROVE  [Pool!Next]_PoolSlot
    <2>1. session[c] \in Sessions /\ phase[c] # "refusing"
      BY <1>2 DEF ReplaceJob, AtEntry, Exclusive, Typed, CallsAddressed
    <2>2. /\ UNCHANGED pending /\ phase' = [phase EXCEPT ![c] = "killing"]
          /\ jobs' = [s \in Sessions |-> IF s \in {session[c]} THEN None ELSE jobs[s]]
      BY <1>2 DEF ReplaceJob, Kill, GoTo
    <2>3. {session[c]} \in SUBSET Sessions
      BY <2>1
    <2>4. AdmittedSessions' = AdmittedSessions
      BY <2>1, <2>2, AdmittedKept
    <2>5. QED
      BY <2>2, <2>3, <2>4, KillMapsToRelease
  <1>3. ASSUME NEW c \in Calls, KillStep(c) \/ ProcessStep(c)
        PROVE  [Pool!Next]_PoolSlot
    BY <1>0, <1>3 DEF KillStep, RemoveDir, ClearRecorded, SweepDir, ProcessStep, Produce,
                      Exit, DieOfSignal, callVars, memoryVars
  <1>4. ASSUME NEW c \in Calls, NEW s \in Sessions, NEW o \in Options, Begin(c, s, o)
        PROVE  [Pool!Next]_PoolSlot
    <2>1. /\ phase[c] # "refusing" /\ phase' = [phase EXCEPT ![c] = "checked"]
          /\ UNCHANGED <<jobs, pending>>
      BY <1>4 DEF Begin, GoTo, memoryVars
    <2>2. AdmittedSessions' = AdmittedSessions
      BY <2>1, AdmittedKept
    <2>3. QED
      BY <2>1, <2>2 DEF PoolSlot
  <1>5. ASSUME NEW s \in Sessions, AssetRequest(s) \/ Revoke(s) \/ GrowIdle(s)
        PROVE  [Pool!Next]_PoolSlot
    BY <1>0, <1>5 DEF AssetRequest, Revoke, GrowIdle, callVars, memoryVars
  <1>6. ASSUME NEW S \in SUBSET Sessions, Kill(S), UNCHANGED <<phase, pending>>
        PROVE  [Pool!Next]_PoolSlot
    <2>1. jobs' = [s \in Sessions |-> IF s \in S THEN None ELSE jobs[s]]
      BY <1>6 DEF Kill
    <2>2. AdmittedSessions' = AdmittedSessions
      BY <1>6 DEF AdmittedSessions, PendingSessions
    <2>3. QED
      BY <2>1, <2>2, KillMapsToRelease
  <1>7. CASE Reap \/ Stop
    <2>1. DeadSessions \in SUBSET Sessions /\ JobSessions \in SUBSET Sessions
      BY DEF DeadSessions, JobSessions
    <2>2. QED
      BY <1>6, <1>7, <2>1 DEF Reap, Stop, callVars
  <1>8. CASE CloseDb \/ Boot \/ UNCHANGED vars
    BY <1>0, <1>8 DEF CloseDb, Boot, vars, callVars, memoryVars
  <1>9. CASE Crash
    BY <1>9, CrashMaps
  <1>10. QED
    BY <1>1, <1>2, <1>3, <1>4, <1>5, <1>7, <1>8, <1>9 DEF Next, Finished

\* The registry is an admission pool: a session takes a slot only by an
\* admission, while fewer than maxTranscodes are in use, and goes live only
\* after one, through failures, replacements, shutdown and crashes.
THEOREM RegistryImplementsPool == Spec => ImplementsPool
  <1>1. Init => Pool!Init
    BY DEF Init, Pool!Init, PoolSlot, AdmittedSessions, PendingSessions
  <1>2. Exclusive /\ [Next]_vars => [Pool!Next]_PoolSlot
    BY PoolStep
  <1>3. QED
    BY <1>1, <1>2, ExclusiveInvariant, PTL DEF Spec, ImplementsPool, Pool!Spec
=============================================================================
