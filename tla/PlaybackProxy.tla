---------------------------- MODULE PlaybackProxy ----------------------------
(***************************************************************************)
(* The loopback proxy of the desktop application                           *)
(* (web/src-tauri/src/playback_proxy.rs) and the player that owns it       *)
(* (player.rs). A play starts a proxy, spawns a player on the proxy's url  *)
(* and puts both into the slot of the current player; replacing or         *)
(* stopping the player drops the proxy's lease. A proxy is a thread that   *)
(* accepts connections and one thread per transfer. They share a flag, a   *)
(* counter and a time, without a lock over the three: a step below is one  *)
(* access to them.                                                         *)
(***************************************************************************)
EXTENDS Naturals, FiniteSets

CONSTANTS
  PlayCount, ConnectionCount, \* bounds of the model
  MaxConnections,  \* MAX_CONCURRENT_CONNECTIONS, 8
  IdleTimeout,     \* DEFAULT_IDLE_TIMEOUT, 15 minutes
  MaxLifetime      \* DEFAULT_MAX_LIFETIME, 6 hours

ASSUME TimesAssumption ==
  {MaxConnections, IdleTimeout, MaxLifetime} \subseteq Nat \ {0}
ASSUME BoundsAssumption == {PlayCount, ConnectionCount} \subseteq Nat

\* Numbered in the order in which they are started.
Plays == 1 .. PlayCount
Connections == 1 .. ConnectionCount
None == 0

VARIABLES
  play,      \* how far each mpv_play is
  slot,      \* MpvState: the current player
  server,    \* where the accept loop of each proxy is
  cancelled, active, \* of ProxyControl
  age, quiet, \* time since its `started' and `last_activity', as far as it matters
  conn       \* the connections

control == <<cancelled, active, age, quiet>>
vars == <<play, slot, server, control, conn>>

Transferring == {"sending", "waiting", "testing", "reading"}
Threads == Transferring \cup {"returned", "noted"}

TypeOK ==
  /\ play \in [Plays -> {"none", "spawned", "playing", "taken", "over"}]
  /\ slot \in Plays \cup {None}
  /\ server \in [Plays -> {"none", "polling", "counted", "accepting",
                           "joining", "ended"}]
  /\ cancelled \in [Plays -> BOOLEAN]
  /\ active \in [Plays -> 0 .. MaxConnections]
  /\ age \in [Plays -> 0 .. MaxLifetime]
  /\ quiet \in [Plays -> 0 .. IdleTimeout]
  /\ conn \in [Connections -> [at: Threads \cup {"none", "closed", "gone"},
                       to: Plays \cup {None}, attempt: {0, 1}, rest: 0 .. IdleTimeout]]

Init ==
  /\ play = [p \in Plays |-> "none"]
  /\ slot = None
  /\ server = [p \in Plays |-> "none"]
  /\ cancelled = [p \in Plays |-> FALSE]
  /\ active = [p \in Plays |-> 0]
  /\ age = [p \in Plays |-> 0]
  /\ quiet = [p \in Plays |-> 0]
  /\ conn = [c \in Connections |-> [at |-> "none", to |-> None, attempt |-> 0, rest |-> 0]]

ConnectionsOf(p) == {c \in Connections : conn[c].to = p}
ThreadsOf(p) == {c \in ConnectionsOf(p) : conn[c].at \in Threads}

Outlived(p) == age[p] = MaxLifetime

-----------------------------------------------------------------------------
(* Plays and the slot. *)

DropLease(P) == cancelled' = [p \in Plays |-> p \in P \/ cancelled[p]]

\* Nothing sees the proxy before the player is spawned on its url.
StartPlay(p) ==
  /\ play[p] = "none" /\ \A q \in 1 .. p - 1 : play[q] # "none"
  /\ server' = [server EXCEPT ![p] = "polling"]
  /\ play' = [play EXCEPT ![p] = "spawned"]
  /\ UNCHANGED <<slot, control, conn>>

SpawnFails(p) ==
  /\ play[p] = "none" /\ \A q \in 1 .. p - 1 : play[q] # "none"
  /\ server' = [server EXCEPT ![p] = "polling"]
  /\ play' = [play EXCEPT ![p] = "over"]
  /\ DropLease({p})
  /\ UNCHANGED <<slot, active, age, quiet, conn>>

\* The current player leaves the slot, for p or for nobody: its instance is in
\* the hands of the command that took it out.
TakeSlot(p) ==
  /\ slot' = p
  /\ play' = [q \in Plays |-> IF q = p THEN "playing" ELSE IF q = slot THEN "taken" ELSE play[q]]
  /\ UNCHANGED <<server, control, conn>>

\* Of overlapping plays the last one to get here stays.
ReplacePlayer(p) == play[p] = "spawned" /\ TakeSlot(p)

StopPlayer == slot # None /\ TakeSlot(None)

\* Mutant: the command looks into the slot again, where another play may be now.
Mut_DropCurrent(p) ==
  /\ play[p] = "taken"
  /\ play' = [play EXCEPT ![p] = "over"]
  /\ DropLease({p, slot} \ {None})
  /\ UNCHANGED <<slot, server, active, age, quiet, conn>>

\* It is killed (its connections may end at any time anyway), then its lease is dropped.
DropTaken(p) ==
  /\ play[p] = "taken"
  /\ play' = [play EXCEPT ![p] = "over"]
  /\ DropLease({p})
  /\ UNCHANGED <<slot, server, active, age, quiet, conn>>

-----------------------------------------------------------------------------
(* The accept loop. should_stop reads the flag and the times, then the       *)
(* counter, then the time of the last activity.                              *)

LoopGoes(p, place) == server' = [server EXCEPT ![p] = place]

\* The loop ends and every transfer is told to stop.
Leave(p) ==
  /\ LoopGoes(p, "joining")
  /\ DropLease({p})
  /\ UNCHANGED <<play, slot, active, age, quiet, conn>>

\* A dropped lease is noticed, or the proxy has lived long enough.
MustStop(p) ==
  /\ server[p] = "polling"
  /\ cancelled[p] \/ Outlived(p)
  /\ Leave(p)

CountTransfers(p) ==
  /\ server[p] = "polling"
  /\ ~cancelled[p] /\ ~Outlived(p)
  /\ LoopGoes(p, IF active[p] = 0 THEN "counted" ELSE "accepting")
  /\ UNCHANGED <<play, slot, control, conn>>

CheckIdle(p) ==
  /\ server[p] = "counted"
  /\ IF quiet[p] = IdleTimeout
     THEN Leave(p)
     ELSE LoopGoes(p, "accepting") /\ UNCHANGED <<play, slot, control, conn>>

\* Mutant: one transfer too many.
Mut_AtCapacityOffByOne(p) == active[p] > MaxConnections

\* The last transfer's place is not free before its thread has left.
AtCapacity(p) == active[p] >= MaxConnections

\* The player connects when it likes.
Accept(p, c) ==
  /\ server[p] = "accepting"
  /\ conn[c].at = "none" /\ \A d \in 1 .. c - 1 : conn[d].at # "none"
  /\ ~cancelled[p]
  /\ IF AtCapacity(p)
     THEN /\ conn' = [conn EXCEPT ![c].at = "gone"]
          /\ UNCHANGED active
     ELSE /\ conn' = [conn EXCEPT ![c].at = "sending", ![c].to = p]
          /\ active' = [active EXCEPT ![p] = @ + 1]
  /\ LoopGoes(p, "polling")
  /\ UNCHANGED <<play, slot, cancelled, age, quiet>>

\* Dropping a lease connects to the listener, so that there is one to accept.
AcceptCancelled(p) ==
  /\ server[p] = "accepting"
  /\ cancelled[p]
  /\ Leave(p)

NothingToAccept(p) ==
  /\ server[p] = "accepting"
  /\ LoopGoes(p, "polling")
  /\ UNCHANGED <<play, slot, control, conn>>

\* Any other error of accept ends the proxy.
AcceptFails(p) == server[p] = "accepting" /\ Leave(p)

\* Mutant: they are not waited for.
Mut_JoinAtOnce(p) ==
  /\ server[p] = "joining"
  /\ LoopGoes(p, "ended")
  /\ conn' = [c \in Connections |->
       IF conn[c].to = p /\ conn[c].at = "closed"
       THEN [at |-> "gone", to |-> None, attempt |-> 0, rest |-> 0] ELSE conn[c]]
  /\ age' = [age EXCEPT ![p] = 0]
  /\ quiet' = [quiet EXCEPT ![p] = 0]
  /\ UNCHANGED <<play, slot, cancelled, active>>

\* The transfers are waited for; the ended ones and the times are of no more use.
Join(p) ==
  /\ server[p] = "joining"
  /\ ThreadsOf(p) = {}
  /\ LoopGoes(p, "ended")
  /\ conn' = [c \in Connections |->
       IF conn[c].to = p /\ conn[c].at = "closed"
       THEN [at |-> "gone", to |-> None, attempt |-> 0, rest |-> 0] ELSE conn[c]]
  /\ age' = [age EXCEPT ![p] = 0]
  /\ quiet' = [quiet EXCEPT ![p] = 0]
  /\ UNCHANGED <<play, slot, cancelled, active>>

-----------------------------------------------------------------------------
(* A transfer. All its reads and writes have timeouts. *)

TransferGoes(c, place) ==
  /\ conn' = [conn EXCEPT ![c].at = place]
  /\ UNCHANGED <<play, slot, server, control>>

\* A request that cannot be parsed or that is answered with an error ends here.
Refused(c) ==
  /\ conn[c].at = "sending"
  /\ TransferGoes(c, "returned")

\* The upstream answers; a failure is tried once more.
Answered(c) ==
  /\ conn[c].at = "sending"
  /\ \/ TransferGoes(c, "testing")
     \/ conn[c].attempt = 0 /\ TransferGoes(c, "waiting")

WaitForRetry(c) ==
  /\ conn[c].at = "waiting"
  /\ IF cancelled[conn[c].to] \/ Outlived(conn[c].to)
     THEN TransferGoes(c, "returned")
     ELSE /\ conn' = [conn EXCEPT ![c].at = "sending", ![c].attempt = 1]
          /\ UNCHANGED <<play, slot, server, control>>

\* Mutant: the flag is not read.
Mut_RelayRegardless(c) == conn[c].at = "testing" /\ TransferGoes(c, "reading")

\* Before every piece of the body the flag is read; a body need not end.
RelayOn(c) ==
  /\ conn[c].at = "testing"
  /\ TransferGoes(c, IF cancelled[conn[c].to] THEN "returned" ELSE "reading")

RelayPiece(c) ==
  /\ conn[c].at = "reading"
  /\ \E place \in {"testing", "returned"} : TransferGoes(c, place)

\* Mutant: a transfer counts as activity when it starts only.
Mut_NoteNothing(c) ==
  /\ conn[c].at = "returned"
  /\ conn' = [conn EXCEPT ![c].at = "noted", ![c].attempt = 0]
  /\ UNCHANGED <<play, slot, server, control>>

NoteActivity(c) ==
  /\ conn[c].at = "returned"
  /\ quiet' = [quiet EXCEPT ![conn[c].to] = 0]
  /\ conn' = [conn EXCEPT ![c].at = "noted", ![c].attempt = 0]
  /\ UNCHANGED <<play, slot, server, cancelled, active, age>>

LeaveTransfer(c) ==
  /\ conn[c].at = "noted"
  /\ active' = [active EXCEPT ![conn[c].to] = @ - 1]
  /\ conn' = [conn EXCEPT ![c].at = "closed"]
  /\ UNCHANGED <<play, slot, server, cancelled, age, quiet>>

-----------------------------------------------------------------------------
Later(t, limit) == IF t < limit THEN t + 1 ELSE t

Tick ==
  /\ age' = [p \in Plays |-> IF server[p] \in {"none", "ended"} THEN 0
                             ELSE Later(age[p], MaxLifetime)]
  /\ quiet' = [p \in Plays |-> IF server[p] \in {"none", "ended"} THEN 0
                               ELSE Later(quiet[p], IdleTimeout)]
  /\ conn' = [c \in Connections |->
       IF conn[c].at \in {"noted", "closed"}
       THEN [conn[c] EXCEPT !.rest = Later(@, IdleTimeout)] ELSE conn[c]]
  /\ UNCHANGED <<play, slot, server, cancelled, active>>

LoopStep(p) ==
  \/ MustStop(p) \/ CountTransfers(p) \/ CheckIdle(p)
  \/ AcceptCancelled(p) \/ NothingToAccept(p) \/ Join(p)

TransferStep(c) ==
  \/ Refused(c) \/ Answered(c) \/ WaitForRetry(c) \/ RelayOn(c) \/ RelayPiece(c)
  \/ NoteActivity(c) \/ LeaveTransfer(c)

PlayStep(p) ==
  \/ StartPlay(p) \/ SpawnFails(p) \/ ReplacePlayer(p) \/ DropTaken(p)

Next ==
  \/ Tick \/ StopPlayer
  \/ \E p \in Plays : PlayStep(p) \/ LoopStep(p) \/ AcceptFails(p)
  \/ \E p \in Plays, c \in Connections : Accept(p, c)
  \/ \E c \in Connections : TransferStep(c)

\* Time passes, threads run and their I/O ends; users and players may do nothing.
Fairness ==
  /\ WF_vars(Tick)
  /\ \A p \in Plays : WF_vars(LoopStep(p))
  /\ \A c \in Connections : WF_vars(TransferStep(c))

Spec == Init /\ [][Next]_vars /\ Fairness

-----------------------------------------------------------------------------
\* A proxy that stops for idleness has had no transfer for the whole timeout:
\* the counter is read before the time, and a transfer writes them in the other
\* order, so none that has just ended is missed.
IdleStopsAreIdle ==
  [][\A p \in Plays :
       server[p] = "counted" /\ server'[p] = "joining" =>
         \A c \in ConnectionsOf(p) :
           /\ conn[c].at \notin Threads
           /\ conn[c].at = "closed" => conn[c].rest = IdleTimeout]_vars

\* A transfer never outlives the proxy it belongs to: no thread goes on using
\* the credentials of a play whose proxy has ended, and none is left uncounted.
EndedProxyIsQuiet ==
  \A p \in Plays :
    /\ server[p] = "ended" => ThreadsOf(p) = {}
    /\ Cardinality(ThreadsOf(p)) = active[p]

\* The proxy of the current player is never told to stop by a command: neither by
\* the plays and stops that overlap its own, nor by a spawn that failed; its own
\* loop ends it, for idleness, old age or a failed accept. Any other proxy that
\* is not told to stop has a command under way that drops its lease or puts its
\* player into the slot.
OnlyThePlayerIsServed ==
  \A p \in Plays :
    /\ p = slot /\ cancelled[p] => server[p] \in {"joining", "ended"}
    /\ server[p] # "none" /\ ~cancelled[p] =>
         p = slot \/ play[p] \in {"spawned", "taken"}

\* Every proxy ends: also one whose upstream never stops sending, whose client
\* stalls, or whose player is never closed.
EveryProxyEnds == \A p \in Plays : server[p] = "polling" ~> server[p] = "ended"
=============================================================================
