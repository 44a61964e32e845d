----------------------------- MODULE ServerHost -----------------------------
(***************************************************************************)
(* The desktop application's supervisor of the server                      *)
(* (web/src-tauri/src/server_host.rs) on top of ServerDatabase: start and  *)
(* stop commands, which run on the main thread one at a time, and a        *)
(* monitor thread that respawns a server that ended. Generations tell a    *)
(* start from the ones before it; desired 0 means "stopped".               *)
(***************************************************************************)
EXTENDS ServerDatabase

CONSTANTS
  MaxGeneration, \* starts by the user
  MaxRespawns    \* SERVER_MAX_RESPAWN_ATTEMPTS, 5

ASSUME HostAssumption == {MaxGeneration, MaxRespawns} \subseteq Nat \ {0}

VARIABLES
  desired,    \* desired_generation
  generation, \* next_generation
  registered, \* the ServerProcess in the state's mutex: child and generation
  command,    \* the command on the main thread
  monitor     \* the monitor thread

hostVars == <<desired, generation, registered, command, monitor>>
allVars == <<dbVars, hostVars>>

Generations == 0 .. MaxGeneration
Child == [child: Processes, generation: Generations]
ASSUME ChildAssumption == None \notin Child

HostTypeOK ==
  /\ DbTypeOK
  /\ desired \in Generations
  /\ generation \in Generations
  /\ registered \in Child \cup {None}
  /\ command \in {"idle", "waiting", "killing", "joining"}
  /\ monitor \in [at: {"watching", "respawning", "backoff", "spawned", "probing", "done"},
                  generation: Generations, attempts: 0 .. MaxRespawns,
                  child: Processes \cup {None}]

HostInit ==
  /\ DbInit
  /\ desired = 0
  /\ generation = 0
  /\ registered = None
  /\ command = "idle"
  /\ monitor = [at |-> "done", generation |-> 0, attempts |-> 0, child |-> None]

-----------------------------------------------------------------------------
Exited == registered # None /\ ~Alive(registered.child)
PortIsOpen == Serving # {}
Mine == registered # None /\ registered.generation = monitor.generation
StillDesired == desired = monitor.generation

\* Dropping a ServerProcess kills the child and waits for it.
Drop(p) == IF Alive(p) THEN Kill(p) ELSE UNCHANGED proc
\* Mutant: forgetting a child does not end it.
Mut_DropRegisteredLives == UNCHANGED proc
DropRegistered == IF registered = None THEN UNCHANGED proc ELSE Drop(registered.child)

\* Spawning a process may fail; here also when there is no process left.
SpawnFails == UNCHANGED dbVars

MonitorGoes(place) == monitor' = [monitor EXCEPT !.at = place]

-----------------------------------------------------------------------------
(* Commands. *)

\* The status command forgets a child that ended.
Status ==
  /\ command = "idle"
  /\ Exited
  /\ registered' = None
  /\ UNCHANGED <<dbVars, desired, generation, command, monitor>>

\* prune_exited, the checks, the join of the old monitor and the spawn: nothing
\* else changes this state in between, as the old monitor has ended.
Start(p) ==
  /\ command = "idle"
  /\ registered = None \/ Exited
  /\ desired = 0
  /\ monitor.at = "done"
  /\ ~PortIsOpen
  /\ generation < MaxGeneration
  /\ generation' = generation + 1
  /\ \/ /\ StartServer(p)
        /\ desired' = generation'
        /\ registered' = [child |-> p, generation |-> generation']
        /\ command' = "waiting"
     \/ /\ SpawnFails
        /\ desired' = 0
        /\ registered' = None
        /\ UNCHANGED command
  /\ UNCHANGED monitor

Started ==
  /\ command = "waiting"
  /\ PortIsOpen
  /\ command' = "idle"
  /\ monitor' = [at |-> "watching", generation |-> desired, attempts |-> 0, child |-> None]
  /\ UNCHANGED <<dbVars, desired, generation, registered>>

\* The port did not open within six seconds.
StartTimesOut ==
  /\ command = "waiting"
  /\ ~PortIsOpen
  /\ desired' = 0
  /\ registered' = None
  /\ DropRegistered
  /\ command' = "idle"
  /\ UNCHANGED <<lock, files, faults, generation, monitor>>

Stop ==
  /\ command = "idle"
  /\ desired' = 0
  /\ command' = "killing"
  /\ UNCHANGED <<dbVars, generation, registered, monitor>>

StopKills ==
  /\ command = "killing"
  /\ registered' = None
  /\ DropRegistered
  /\ command' = "joining"
  /\ UNCHANGED <<lock, files, faults, desired, generation, monitor>>

\* Mutant: the monitor is not joined.
Mut_StoppedAtOnce ==
  /\ command = "joining"
  /\ command' = "idle"
  /\ UNCHANGED <<dbVars, desired, generation, registered, monitor>>

Stopped ==
  /\ command = "joining"
  /\ monitor.at = "done"
  /\ command' = "idle"
  /\ UNCHANGED <<dbVars, desired, generation, registered, monitor>>

-----------------------------------------------------------------------------
(* The monitor thread. *)

\* A child of another generation is somebody else's.
Superseded == ~StillDesired \/ (registered # None /\ ~Mine)

Watch ==
  /\ monitor.at = "watching"
  /\ \/ /\ Superseded
        /\ MonitorGoes("done")
        /\ UNCHANGED registered
     \/ /\ ~Superseded
        /\ registered = None \/ Exited
        /\ MonitorGoes("respawning")
        /\ registered' = None
  /\ UNCHANGED <<dbVars, desired, generation, command>>

\* The status of the child cannot be read: it is dropped, and so killed if it lives.
StatusFails ==
  /\ monitor.at = "watching"
  /\ ~Superseded
  /\ Mine
  /\ DropRegistered
  /\ registered' = None
  /\ MonitorGoes("respawning")
  /\ UNCHANGED <<lock, files, faults, desired, generation, command>>

\* Mutant: giving up leaves the server desired.
Mut_RespawnSilent ==
  /\ monitor.at = "respawning"
  /\ \/ /\ ~StillDesired \/ monitor.attempts >= MaxRespawns
        /\ MonitorGoes("done")
     \/ /\ StillDesired
        /\ monitor.attempts < MaxRespawns
        /\ monitor' = [monitor EXCEPT !.at = "backoff", !.attempts = @ + 1]
  /\ UNCHANGED <<dbVars, desired, generation, registered, command>>

\* Mutant: one respawn too many.
Mut_RespawnOnceMore ==
  /\ monitor.at = "respawning"
  /\ \/ ~StillDesired /\ MonitorGoes("done") /\ UNCHANGED desired
     \/ /\ StillDesired
        /\ monitor.attempts > MaxRespawns
        /\ desired' = 0
        /\ MonitorGoes("done")
     \/ /\ StillDesired
        /\ monitor.attempts <= MaxRespawns
        /\ monitor' = [monitor EXCEPT !.at = "backoff", !.attempts = @ + 1]
        /\ UNCHANGED desired
  /\ UNCHANGED <<dbVars, generation, registered, command>>

Respawn ==
  /\ monitor.at = "respawning"
  /\ \/ ~StillDesired /\ MonitorGoes("done") /\ UNCHANGED desired
     \/ /\ StillDesired
        /\ monitor.attempts >= MaxRespawns
        /\ desired' = 0
        /\ MonitorGoes("done")
     \/ /\ StillDesired
        /\ monitor.attempts < MaxRespawns
        /\ monitor' = [monitor EXCEPT !.at = "backoff", !.attempts = @ + 1]
        /\ UNCHANGED desired
  /\ UNCHANGED <<dbVars, generation, registered, command>>

BackoffEnds(p) ==
  /\ monitor.at = "backoff"
  /\ \/ ~StillDesired /\ MonitorGoes("done") /\ UNCHANGED dbVars
     \/ /\ StillDesired
        /\ StartServer(p)
        /\ monitor' = [monitor EXCEPT !.at = "spawned", !.child = p]
     \/ StillDesired /\ SpawnFails /\ MonitorGoes("respawning")
  /\ UNCHANGED <<desired, generation, registered, command>>

\* Mutant: a child spawned too late is dropped without being killed.
Mut_RegisterForgets ==
  /\ monitor.at = "spawned"
  /\ IF StillDesired
     THEN /\ registered' = [child |-> monitor.child, generation |-> monitor.generation]
          /\ monitor' = [monitor EXCEPT !.at = "probing", !.child = None]
     ELSE /\ monitor' = [monitor EXCEPT !.at = "done", !.child = None]
          /\ UNCHANGED registered
  /\ UNCHANGED <<dbVars, desired, generation, command>>

\* The new child is registered, unless the user stopped the server meanwhile.
Register ==
  /\ monitor.at = "spawned"
  /\ IF StillDesired
     THEN /\ registered' = [child |-> monitor.child, generation |-> monitor.generation]
          /\ monitor' = [monitor EXCEPT !.at = "probing", !.child = None]
          /\ UNCHANGED proc
     ELSE /\ Drop(monitor.child)
          /\ monitor' = [monitor EXCEPT !.at = "done", !.child = None]
          /\ UNCHANGED registered
  /\ UNCHANGED <<lock, files, faults, desired, generation, command>>

RespawnHealthy ==
  /\ monitor.at = "probing"
  /\ StillDesired
  /\ PortIsOpen
  /\ monitor' = [monitor EXCEPT !.at = "watching", !.attempts = 0]
  /\ UNCHANGED <<dbVars, desired, generation, registered, command>>

RespawnTimesOut ==
  /\ monitor.at = "probing"
  /\ ~StillDesired \/ ~PortIsOpen
  /\ IF Mine THEN DropRegistered /\ registered' = None
             ELSE UNCHANGED <<proc, registered>>
  /\ MonitorGoes("respawning")
  /\ UNCHANGED <<lock, files, faults, desired, generation, command>>

-----------------------------------------------------------------------------
CommandStep == Started \/ StartTimesOut \/ StopKills \/ Stopped

MonitorStep ==
  \/ Watch \/ Respawn \/ Register \/ RespawnHealthy \/ RespawnTimesOut
  \/ \E p \in Processes : BackoffEnds(p)

\* The restore command is run by hand while the desktop server is stopped.
RestoreByHand(p) ==
  /\ command = "idle"
  /\ desired = 0
  /\ StartRestore(p)

HostNext ==
  \/ Status \/ Stop \/ CommandStep \/ MonitorStep \/ StatusFails
  \/ \E p \in Processes : Start(p)
  \/ /\ \E p \in Processes :
          \/ ProcessStep(p) \/ Commit(p) \/ Killed(p) \/ RestoreFails(p)
          \/ RestoreByHand(p)
     /\ UNCHANGED hostVars

HostFairness ==
  /\ WF_allVars(CommandStep)
  /\ WF_allVars(MonitorStep)
  /\ \A p \in Processes : WF_allVars(ProcessStep(p) /\ UNCHANGED hostVars)

HostSpec == HostInit /\ [][HostNext]_allVars /\ HostFairness

-----------------------------------------------------------------------------
\* Every server that runs is in the hands of the supervisor: registered, or
\* spawned by a monitor that will register or kill it.
NoStrayServer ==
  \A p \in Running("server") :
    \/ registered # None /\ registered.child = p
    \/ monitor.at = "spawned" /\ monitor.child = p

\* A stop wins over a respawn that is under way: once the command is done no
\* server runs, and none does until the next start.
StoppedMeansStopped ==
  command = "idle" /\ desired = 0 => Running("server") = {}

\* A server that is wanted comes up, or the supervisor gives up and says so:
\* crashes, stale or empty locks and a newer schema leave nothing in between.
ServerSettles == [](desired # 0 => <>(PortIsOpen \/ desired = 0))
=============================================================================
