------------------------ MODULE PlaybackProxyProofs ------------------------
(***************************************************************************)
(* Theorems about PlaybackProxy, for any number of plays and connections,  *)
(* any capacity and any timeouts.                                          *)
(***************************************************************************)
EXTENDS PlaybackProxy, FiniteSetTheorems, TLAPS

\* A connection that a thread has, or had, belongs to a proxy.
Addressed ==
  \A c \in Connections : conn[c].at \in Threads \cup {"closed"} => conn[c].to \in Plays

Counted == \A p \in Plays : Cardinality(ThreadsOf(p)) = active[p]

\* An ended proxy has no transfers; neither has one that has read a counter of
\* zero, since only the loop that read it starts any.
Quiet ==
  \A p \in Plays : server[p] \in {"counted", "ended"} => ThreadsOf(p) = {}

\* The last activity of a proxy is no earlier than the end of any of its transfers.
Rested ==
  \A c \in Connections :
    conn[c].at \in {"noted", "closed"} => quiet[conn[c].to] <= conn[c].rest

ProxyInv == TypeOK /\ Addressed /\ Counted /\ Quiet

-----------------------------------------------------------------------------
(* The threads of a proxy. *)

LEMMA ThreadsFinite ==
  ASSUME NEW p \in Plays
  PROVE  IsFiniteSet(ThreadsOf(p)) /\ Cardinality(ThreadsOf(p)) \in Nat
  <1>1. IsFiniteSet(Connections)
    BY BoundsAssumption, FS_Interval DEF Connections
  <1>2. ThreadsOf(p) \in SUBSET Connections
    BY DEF ThreadsOf, ConnectionsOf
  <1>3. QED
    BY <1>1, <1>2, FS_Subset, FS_CardinalityType

LEMMA SameThreads ==
  ASSUME \A c \in Connections :
           /\ conn'[c].at \in Threads <=> conn[c].at \in Threads
           /\ conn[c].at \in Threads => conn'[c].to = conn[c].to
  PROVE  \A p \in Plays : ThreadsOf(p)' = ThreadsOf(p)
  BY DEF ThreadsOf, ConnectionsOf

\* What a step that leaves the threads as they are preserves.
LEMMA ThreadsKept ==
  ASSUME Counted, Quiet, active' = active,
         \A c \in Connections :
           /\ conn'[c].at \in Threads <=> conn[c].at \in Threads
           /\ conn[c].at \in Threads => conn'[c].to = conn[c].to,
         \A p \in Plays :
           server'[p] \in {"counted", "ended"} =>
             server'[p] = server[p] \/ ThreadsOf(p) = {}
  PROVE  Counted' /\ Quiet'
  <1>1. \A p \in Plays : ThreadsOf(p)' = ThreadsOf(p)
    BY SameThreads
  <1>2. Counted'
    BY <1>1 DEF Counted
  <1>3. Quiet'
    BY <1>1 DEF Quiet
  <1>4. QED
    BY <1>2, <1>3

-----------------------------------------------------------------------------
(* Every step keeps ProxyInv. *)

LEMMA InitInv == Init => ProxyInv
  <1> SUFFICES ASSUME Init
               PROVE  ProxyInv
    OBVIOUS
  <1>1. \A p \in Plays : ThreadsOf(p) = {}
    BY DEF Init, ThreadsOf, ConnectionsOf, Threads, Transferring
  <1>2. TypeOK
    BY TimesAssumption DEF Init, TypeOK
  <1>3. Counted
    BY <1>1, FS_EmptySet DEF Init, Counted
  <1>4. QED
    BY <1>1, <1>2, <1>3 DEF Init, ProxyInv, Addressed, Quiet, Threads, Transferring

LEMMA PlayInv ==
  ASSUME ProxyInv, NEW p \in Plays, PlayStep(p) \/ StopPlayer
  PROVE  ProxyInv'
  <1> USE DEF ProxyInv
  <1>1. TypeOK'
    <2> USE DEF TypeOK, DropLease, control
    <2>1. CASE StartPlay(p)
      BY <2>1 DEF StartPlay
    <2>2. CASE SpawnFails(p)
      BY <2>2 DEF SpawnFails
    <2>3. CASE ReplacePlayer(p) \/ StopPlayer
      BY <2>3 DEF ReplacePlayer, StopPlayer, TakeSlot
    <2>4. CASE DropTaken(p)
      BY <2>4 DEF DropTaken
    <2>5. QED
      BY <2>1, <2>2, <2>3, <2>4 DEF PlayStep
  <1>2. /\ conn' = conn /\ active' = active
        /\ \A q \in Plays : server'[q] \in {server[q], "polling"}
    BY DEF TypeOK, PlayStep, StartPlay, SpawnFails, ReplacePlayer, StopPlayer, TakeSlot,
           DropTaken, control
  <1>3. Addressed'
    BY <1>2 DEF Addressed
  <1>4. Counted' /\ Quiet'
    BY <1>2, ThreadsKept
  <1>5. QED
    BY <1>1, <1>3, <1>4

LEMMA LoopInv ==
  ASSUME ProxyInv, NEW p \in Plays, LoopStep(p) \/ AcceptFails(p)
  PROVE  ProxyInv'
  <1> USE DEF ProxyInv
  <1>1. TypeOK'
    <2>1. CASE Join(p)
      BY <2>1, TimesAssumption DEF Join, TypeOK, LoopGoes
    <2>2. CASE Leave(p)
      BY <2>2 DEF Leave, TypeOK, LoopGoes, DropLease
    <2>3. CASE ~Join(p) /\ ~Leave(p)
      <3>1. /\ UNCHANGED <<play, slot, control, conn>>
            /\ \E place \in {"polling", "counted", "accepting"} :
                 server' = [server EXCEPT ![p] = place]
        BY <2>3 DEF LoopStep, MustStop, CountTransfers, CheckIdle, AcceptCancelled,
                    NothingToAccept, AcceptFails, LoopGoes
      <3>2. QED
        BY <3>1 DEF TypeOK, control
    <2>4. QED
      BY <2>1, <2>2, <2>3
  <1>2. active' = active
    BY DEF LoopStep, MustStop, CountTransfers, CheckIdle, AcceptCancelled, NothingToAccept,
           AcceptFails, Leave, Join, control
  <1>3. \A c \in Connections :
          \/ conn'[c] = conn[c]
          \/ conn[c].at = "closed" /\ conn'[c].at = "gone"
    BY DEF LoopStep, MustStop, CountTransfers, CheckIdle, AcceptCancelled, NothingToAccept,
           AcceptFails, Leave, Join, control
  <1>4. ASSUME NEW q \in Plays, server'[q] \in {"counted", "ended"}, server'[q] # server[q]
        PROVE  ThreadsOf(q) = {}
    <2>1. q = p
      BY <1>4 DEF LoopStep, MustStop, CountTransfers, CheckIdle, AcceptCancelled,
                  NothingToAccept, AcceptFails, Leave, Join, LoopGoes, TypeOK
    <2>2. CASE Join(p)
      BY <2>1, <2>2 DEF Join
    <2>3. CASE CountTransfers(p)
      <3>1. active[q] = 0
        BY <1>4, <2>1, <2>3 DEF CountTransfers, LoopGoes, TypeOK
      <3>2. QED
        BY <3>1, ThreadsFinite, FS_EmptySet DEF Counted
    <2>4. CASE ~Join(p) /\ ~CountTransfers(p)
      BY <1>4, <2>1, <2>4 DEF LoopStep, MustStop, CheckIdle, AcceptCancelled,
                              NothingToAccept, AcceptFails, Leave, LoopGoes, TypeOK
    <2>5. QED
      BY <2>2, <2>3, <2>4
  <1>5. Addressed'
    BY <1>3 DEF Addressed, Threads, Transferring
  <1>6. Counted' /\ Quiet'
    BY <1>2, <1>3, <1>4, ThreadsKept DEF Threads, Transferring
  <1>7. QED
    BY <1>1, <1>5, <1>6

LEMMA AcceptInv ==
  ASSUME ProxyInv, NEW p \in Plays, NEW c \in Connections, Accept(p, c)
  PROVE  ProxyInv'
  <1> USE DEF ProxyInv
  <1>1. CASE AtCapacity(p)
    <2>1. /\ conn' = [conn EXCEPT ![c].at = "gone"]
          /\ active' = active
          /\ conn[c].at = "none"
      BY <1>1 DEF Accept
    <2>2. server' = [server EXCEPT ![p] = "polling"]
      BY DEF Accept, LoopGoes
    <2>3. TypeOK'
      BY <2>1, <2>2 DEF TypeOK, Accept
    <2>4. Addressed'
      BY <2>1 DEF Addressed, TypeOK, Threads, Transferring
    <2>5. Counted' /\ Quiet'
      BY <2>1, <2>2, ThreadsKept DEF TypeOK, Threads, Transferring
    <2>6. QED
      BY <2>3, <2>4, <2>5
  <1>2. CASE ~AtCapacity(p)
    <2>1. /\ conn' = [conn EXCEPT ![c].at = "sending", ![c].to = p]
          /\ active' = [active EXCEPT ![p] = @ + 1]
          /\ conn[c].at = "none"
      BY <1>2 DEF Accept
    <2>2. server' = [server EXCEPT ![p] = "polling"]
      BY DEF Accept, LoopGoes
    <2>3. TypeOK'
      <3>1. active[p] + 1 \in 0 .. MaxConnections
        BY <1>2, TimesAssumption DEF AtCapacity, TypeOK
      <3>2. QED
        BY <2>1, <2>2, <3>1 DEF TypeOK, Accept, Threads, Transferring
    <2>4. Addressed'
      BY <2>1 DEF Addressed, TypeOK
    <2>5. /\ ThreadsOf(p)' = ThreadsOf(p) \cup {c} /\ c \notin ThreadsOf(p)
          /\ \A q \in Plays \ {p} : ThreadsOf(q)' = ThreadsOf(q)
      BY <2>1 DEF ThreadsOf, ConnectionsOf, TypeOK, Threads, Transferring
    <2>6. Counted'
      BY <2>1, <2>5, ThreadsFinite, FS_AddElement DEF Counted, TypeOK
    <2>7. Quiet'
      BY <2>2, <2>5 DEF Quiet, TypeOK
    <2>8. QED
      BY <2>3, <2>4, <2>6, <2>7
  <1>3. QED
    BY <1>1, <1>2

LEMMA TransferInv ==
  ASSUME ProxyInv, NEW c \in Connections, TransferStep(c)
  PROVE  ProxyInv'
  <1> USE DEF ProxyInv
  <1>1. CASE LeaveTransfer(c)
    <2>0. PICK p \in Plays : p = conn[c].to
      BY <1>1 DEF LeaveTransfer, Addressed, Threads
    <2>1. c \in ThreadsOf(p)
      BY <1>1, <2>0 DEF LeaveTransfer, ThreadsOf, ConnectionsOf, Threads
    <2>2. active[p] \in 1 .. MaxConnections
      <3>1. ThreadsOf(p) # {}
        BY <2>1
      <3>2. active[p] # 0
        BY <2>1, <3>1, ThreadsFinite, FS_EmptySet DEF Counted
      <3>3. QED
        BY <2>1, <3>2, TimesAssumption DEF TypeOK
    <2>3. TypeOK'
      BY <1>1, <2>0, <2>2, TimesAssumption DEF LeaveTransfer, TypeOK
    <2>4. Addressed'
      BY <1>1, <2>0 DEF LeaveTransfer, Addressed, TypeOK
    <2>5. /\ ThreadsOf(p)' = ThreadsOf(p) \ {c}
          /\ \A q \in Plays \ {p} : ThreadsOf(q)' = ThreadsOf(q)
      BY <1>1, <2>0 DEF LeaveTransfer, ThreadsOf, ConnectionsOf, TypeOK, Threads, Transferring
    <2>6. Counted'
      <3>1. Cardinality(ThreadsOf(p) \ {c}) = Cardinality(ThreadsOf(p)) - 1
        BY <2>1, ThreadsFinite, FS_RemoveElement
      <3>2. active' = [active EXCEPT ![p] = active[p] - 1]
        BY <1>1, <2>0 DEF LeaveTransfer
      <3>3. \A q \in Plays : active'[q] = IF q = p THEN active[p] - 1 ELSE active[q]
        BY <3>2 DEF TypeOK
      <3>4. QED
        BY <2>1, <2>5, <3>1, <3>3 DEF Counted
    <2>7. Quiet'
      BY <1>1, <2>5 DEF LeaveTransfer, Quiet
    <2>8. QED
      BY <2>3, <2>4, <2>6, <2>7
  <1>2. CASE ~LeaveTransfer(c)
    <2>1. /\ active' = active /\ server' = server /\ age' = age
          /\ play' = play /\ slot' = slot /\ cancelled' = cancelled
      BY <1>2 DEF TransferStep, Refused, Answered, WaitForRetry, RelayOn, RelayPiece,
                  NoteActivity, TransferGoes, control
    <2>2. /\ conn[c].at \in Threads
          /\ \A d \in Connections \ {c} : conn'[d] = conn[d]
          /\ conn'[c].at \in Threads /\ conn'[c].to = conn[c].to
          /\ conn' \in [Connections -> [at: Threads \cup {"none", "closed", "gone"},
                          to: Plays \cup {None}, attempt: {0, 1}, rest: 0 .. IdleTimeout]]
      <3>1. /\ conn[c].at \in Threads
            /\ \E place \in Threads, n \in {0, 1} :
                 conn' = [conn EXCEPT ![c].at = place, ![c].attempt = n]
        <4>1. ASSUME NEW place \in Threads, TransferGoes(c, place)
              PROVE  conn' = [conn EXCEPT ![c].at = place, ![c].attempt = conn[c].attempt]
          BY <4>1 DEF TransferGoes, TypeOK
        <4>2. conn[c].attempt \in {0, 1}
          BY DEF TypeOK
        <4>3. CASE \E place \in Threads : TransferGoes(c, place)
          <5>1. conn[c].at \in Threads
            BY <1>2 DEF TransferStep, Refused, Answered, WaitForRetry,
                 RelayOn, RelayPiece, NoteActivity, Threads, Transferring
          <5>2. QED
            BY <4>1, <4>2, <4>3, <5>1
        <4>4. CASE ~\E place \in Threads : TransferGoes(c, place)
          <5>1. \/ NoteActivity(c)
                \/ WaitForRetry(c)
            BY <1>2, <4>4 DEF TransferStep, Refused, Answered, RelayOn, RelayPiece,
                 Threads, Transferring
          <5>2. CASE NoteActivity(c)
            BY <5>2 DEF NoteActivity, Threads
          <5>3. CASE WaitForRetry(c)
            BY <4>4, <5>3 DEF WaitForRetry, Threads, Transferring
          <5>4. QED
            BY <5>1, <5>2, <5>3
        <4>5. QED
          BY <4>3, <4>4
      <3>2. PICK place \in Threads, n \in {0, 1} :
              conn' = [conn EXCEPT ![c].at = place, ![c].attempt = n]
        BY <3>1
      <3>3. conn[c] \in [at: Threads \cup {"none", "closed", "gone"},
                         to: Plays \cup {None}, attempt: {0, 1}, rest: 0 .. IdleTimeout]
        BY DEF TypeOK
      <3>4. conn' = [d \in Connections |-> conn'[d]]
        BY <3>2 DEF TypeOK
      <3>5. /\ conn'[c] \in [at: Threads \cup {"none", "closed", "gone"},
                            to: Plays \cup {None}, attempt: {0, 1}, rest: 0 .. IdleTimeout]
            /\ conn'[c].at = place /\ conn'[c].to = conn[c].to
        BY <3>2, <3>3 DEF TypeOK
      <3>6. \A d \in Connections \ {c} : conn'[d] = conn[d]
        BY <3>2 DEF TypeOK
      <3>7. conn' \in [Connections -> [at: Threads \cup {"none", "closed", "gone"},
                          to: Plays \cup {None}, attempt: {0, 1}, rest: 0 .. IdleTimeout]]
        BY <3>4, <3>5, <3>6 DEF TypeOK
      <3>8. QED
        BY <3>1, <3>2, <3>5, <3>6, <3>7
    <2>3. TypeOK'
      <3>1. quiet' \in [Plays -> 0 .. IdleTimeout]
        BY <1>2, TimesAssumption DEF TransferStep, Refused, Answered, WaitForRetry, RelayOn,
                    RelayPiece, NoteActivity, TransferGoes, TypeOK, control
      <3>2. QED
        BY <2>1, <2>2, <3>1 DEF TypeOK
    <2>4. Addressed'
      BY <2>2 DEF Addressed
    <2>5. Counted' /\ Quiet'
      BY <2>1, <2>2, ThreadsKept
    <2>6. QED
      BY <2>3, <2>4, <2>5
  <1>3. QED
    BY <1>1, <1>2

LEMMA TickInv ==
  ASSUME ProxyInv, Tick
  PROVE  ProxyInv'
  <1> USE DEF ProxyInv
  <1>1. \A limit \in Nat : \A t \in 0 .. limit : Later(t, limit) \in 0 .. limit
    BY DEF Later
  <1>2. age' \in [Plays -> 0 .. MaxLifetime] /\ quiet' \in [Plays -> 0 .. IdleTimeout]
    BY <1>1, TimesAssumption DEF Tick, TypeOK
  <1>3. \A c \in Connections :
          /\ conn'[c].at = conn[c].at /\ conn'[c].to = conn[c].to
          /\ conn'[c] \in [at: Threads \cup {"none", "closed", "gone"},
                      to: Plays \cup {None}, attempt: {0, 1}, rest: 0 .. IdleTimeout]
    BY <1>1, TimesAssumption DEF Tick, TypeOK
  <1>4. TypeOK'
    BY <1>2, <1>3 DEF Tick, TypeOK
  <1>5. Addressed'
    BY <1>3 DEF Addressed
  <1>6. Counted' /\ Quiet'
    BY <1>3, ThreadsKept DEF Tick
  <1>7. QED
    BY <1>4, <1>5, <1>6

LEMMA ProxyInvStays ==
  ASSUME ProxyInv, [Next]_vars
  PROVE  ProxyInv'
  <1>1. CASE UNCHANGED vars
    <2>1. /\ TypeOK' /\ Addressed'
          /\ \A p \in Plays : ThreadsOf(p)' = ThreadsOf(p)
      BY <1>1 DEF ProxyInv, vars, control, TypeOK, Addressed, ThreadsOf, ConnectionsOf
    <2>2. QED
      BY <1>1, <2>1 DEF ProxyInv, vars, control, Counted, Quiet
  <1>2. CASE StopPlayer
    <2>1. slot \in Plays
      BY <1>2 DEF StopPlayer, ProxyInv, TypeOK
    <2>2. QED
      BY <1>2, <2>1, PlayInv
  <1>3. CASE Next /\ ~StopPlayer
    BY <1>3, PlayInv, LoopInv, AcceptInv, TransferInv, TickInv DEF Next
  <1>4. QED
    BY <1>1, <1>2, <1>3

LEMMA ProxyInvHolds == Spec => []ProxyInv
  BY InitInv, ProxyInvStays, PTL DEF Spec

\* The types of the states of plays, proxies and connections; in particular no
\* proxy ever counts a negative number of transfers or more than its capacity.
THEOREM TypeCorrect == Spec => []TypeOK
  BY ProxyInvHolds, PTL DEF ProxyInv

\* No transfer outlives its proxy, and none is left uncounted.
THEOREM EndedAreQuiet == Spec => []EndedProxyIsQuiet
  <1>1. ProxyInv => EndedProxyIsQuiet
    BY DEF ProxyInv, EndedProxyIsQuiet, Quiet, Counted
  <1>2. QED
    BY <1>1, ProxyInvHolds, PTL

-----------------------------------------------------------------------------
(* Idleness. *)

LEMMA RestedStays ==
  ASSUME ProxyInv, Rested, [Next]_vars
  PROVE  Rested'
  <1> USE DEF ProxyInv
  <1>1. CASE Tick
    <2>1. \A limit \in Nat : \A s, t \in 0 .. limit : s <= t => Later(s, limit) <= Later(t, limit)
      BY DEF Later
    <2>2. \A limit \in Nat : \A t \in 0 .. limit : Later(t, limit) \in Nat
      BY DEF Later
    <2>3. ASSUME NEW c \in Connections, conn'[c].at \in {"noted", "closed"}
          PROVE  quiet'[conn'[c].to] <= conn'[c].rest
      <3>1. /\ conn[c].at \in {"noted", "closed"} /\ conn'[c].to = conn[c].to
            /\ conn'[c].rest = Later(conn[c].rest, IdleTimeout)
        BY <1>1, <2>3 DEF Tick, TypeOK
      <3>2. conn[c].to \in Plays
        BY <3>1 DEF Addressed, Threads
      <3>3. quiet'[conn[c].to] \in {0, Later(quiet[conn[c].to], IdleTimeout)}
        BY <1>1, <3>2 DEF Tick
      <3>4. quiet[conn[c].to] \in 0 .. IdleTimeout /\ conn[c].rest \in 0 .. IdleTimeout
        BY <3>2 DEF TypeOK
      <3>5. quiet[conn[c].to] <= conn[c].rest
        BY <3>1 DEF Rested
      <3>6. QED
        BY <2>1, <2>2, <3>1, <3>3, <3>4, <3>5, TimesAssumption
    <2>4. QED
      BY <2>3 DEF Rested
  <1>2. CASE \E p \in Plays : Join(p)
    <2>1. PICK p \in Plays : Join(p)
      BY <1>2
    <2>2. ASSUME NEW c \in Connections, conn'[c].at \in {"noted", "closed"}
          PROVE  quiet'[conn'[c].to] <= conn'[c].rest
      <3>1. conn'[c] = conn[c]
        BY <2>1, <2>2 DEF Join
      <3>2. conn[c].to \in Plays /\ conn[c].rest \in Nat
        BY <2>2, <3>1, TimesAssumption DEF Addressed, Threads, TypeOK
      <3>3. quiet'[conn[c].to] \in {0, quiet[conn[c].to]}
        BY <2>1, <3>2 DEF Join, TypeOK
      <3>4. QED
        BY <2>2, <3>1, <3>2, <3>3 DEF Rested
    <2>3. QED
      BY <2>2 DEF Rested
  <1>3. CASE \E c \in Connections : NoteActivity(c)
    <2>1. PICK c \in Connections : NoteActivity(c)
      BY <1>3
    <2>2. conn[c].to \in Plays
      BY <2>1 DEF NoteActivity, Addressed, Threads
    <2>3. ASSUME NEW d \in Connections, conn'[d].at \in {"noted", "closed"}
          PROVE  quiet'[conn'[d].to] <= conn'[d].rest
      <3>1. conn'[d].to = conn[d].to /\ conn'[d].rest = conn[d].rest
            /\ (d = c \/ conn'[d] = conn[d])
        BY <2>1 DEF NoteActivity, TypeOK
      <3>2. conn[d].to \in Plays
        BY <2>2, <2>3, <3>1 DEF Addressed, Threads
      <3>3. /\ conn[d].rest \in Nat
            /\ quiet'[conn[d].to] = IF conn[d].to = conn[c].to THEN 0 ELSE quiet[conn[d].to]
        BY <2>1, <3>2, TimesAssumption DEF NoteActivity, TypeOK
      <3>4. QED
        BY <2>3, <3>1, <3>3 DEF Rested
    <2>4. QED
      BY <2>3 DEF Rested
  <1>4. CASE [Next]_vars /\ ~Tick /\ ~(\E p \in Plays : Join(p))
               /\ ~(\E c \in Connections : NoteActivity(c))
    <2>1. quiet' = quiet
      BY <1>4 DEF Next, StopPlayer, PlayStep, StartPlay, SpawnFails, ReplacePlayer, TakeSlot,
           DropTaken, LoopStep, MustStop, CountTransfers, CheckIdle, AcceptCancelled,
           NothingToAccept, AcceptFails, Leave, Accept, TransferStep, Refused, Answered, WaitForRetry, RelayOn, RelayPiece,
           LeaveTransfer, TransferGoes, control, vars
    <2>2. ASSUME NEW c \in Connections, conn'[c].at \in {"noted", "closed"}
          PROVE  /\ conn[c].at \in {"noted", "closed"}
                 /\ conn'[c].to = conn[c].to /\ conn'[c].rest = conn[c].rest
      <3>1. CASE conn' = conn
        BY <2>2, <3>1
      <3>2. CASE \E p \in Plays, d \in Connections : Accept(p, d)
        BY <2>2, <3>2 DEF Accept, TypeOK
      <3>3. CASE \E d \in Connections : TransferStep(d)
        BY <1>4, <2>2, <3>3 DEF TransferStep, Refused, Answered, WaitForRetry, RelayOn,
             RelayPiece, LeaveTransfer, TransferGoes, TypeOK
      <3>4. QED
        BY <1>4, <3>1, <3>2, <3>3 DEF Next, StopPlayer, PlayStep, StartPlay, SpawnFails,
             ReplacePlayer, TakeSlot, DropTaken, LoopStep, MustStop, CountTransfers,
             CheckIdle, AcceptCancelled, NothingToAccept, AcceptFails, Leave, vars
    <2>3. QED
      BY <2>1, <2>2 DEF Rested
  <1>5. QED
    BY <1>1, <1>2, <1>3, <1>4

LEMMA RestedHolds == Spec => [](ProxyInv /\ Rested)
  <1>1. Init => Rested
    BY DEF Init, Rested
  <1>2. QED
    BY <1>1, InitInv, ProxyInvStays, RestedStays, PTL DEF Spec

\* A proxy stops for idleness only when no transfer has run for the whole timeout.
THEOREM IdleStops == Spec => IdleStopsAreIdle
  <1> DEFINE A == \A p \in Plays :
       server[p] = "counted" /\ server'[p] = "joining" =>
         \A c \in ConnectionsOf(p) :
           /\ conn[c].at \notin Threads
           /\ conn[c].at = "closed" => conn[c].rest = IdleTimeout
  <1>1. ProxyInv /\ Rested /\ [Next]_vars => A
    <2> SUFFICES ASSUME ProxyInv, Rested, [Next]_vars, NEW p \in Plays,
                        server[p] = "counted", server'[p] = "joining",
                        NEW c \in ConnectionsOf(p)
                 PROVE  /\ conn[c].at \notin Threads
                        /\ conn[c].at = "closed" => conn[c].rest = IdleTimeout
      OBVIOUS
    <2>1. CheckIdle(p)
      BY DEF ProxyInv, TypeOK, Next, Tick, StopPlayer, PlayStep, StartPlay, SpawnFails,
           ReplacePlayer, TakeSlot, DropTaken, LoopStep, MustStop, CountTransfers, CheckIdle,
           AcceptCancelled, NothingToAccept, AcceptFails, Leave, Join, LoopGoes, Accept, TransferStep, Refused, Answered,
           WaitForRetry, RelayOn, RelayPiece, NoteActivity, LeaveTransfer, TransferGoes, vars
    <2>2. quiet[p] = IdleTimeout
      BY <2>1 DEF CheckIdle, LoopGoes, ProxyInv, TypeOK
    <2>3. c \in Connections /\ conn[c].to = p
      BY DEF ConnectionsOf
    <2>4. conn[c].at \notin Threads
      BY <2>3 DEF ProxyInv, Quiet, ThreadsOf
    <2>5. conn[c].rest \in 0 .. IdleTimeout
      BY <2>3 DEF ProxyInv, TypeOK
    <2>6. QED
      BY <2>2, <2>3, <2>4, <2>5, TimesAssumption DEF Rested
  <1>2. QED
    BY <1>1, RestedHolds, PTL DEF Spec, IdleStopsAreIdle

-----------------------------------------------------------------------------
(* Leases. *)

\* The current player is the one that plays.
InSlot == \A p \in Plays : play[p] = "playing" <=> p = slot

\* A proxy starts with its play, and keeps its flag down until its play is over,
\* unless its own loop has ended.
Leased ==
  \A p \in Plays :
    /\ play[p] = "none" => server[p] = "none" /\ ~cancelled[p]
    /\ play[p] = "over" => cancelled[p]
    /\ play[p] \in {"spawned", "playing", "taken"} /\ cancelled[p] =>
         server[p] \in {"joining", "ended"}

LeaseInv == InSlot /\ Leased

\* Steps of plays and of the user.
LEMMA PlayLease ==
  ASSUME TypeOK, LeaseInv, NEW p \in Plays, PlayStep(p) \/ StopPlayer
  PROVE  LeaseInv'
  <1> USE DEF LeaseInv, InSlot, Leased, TypeOK
  <1>1. \A q \in Plays : q # None
    BY DEF Plays, None
  <1>2. CASE StartPlay(p)
    BY <1>1, <1>2 DEF StartPlay, control
  <1>3. CASE SpawnFails(p)
    BY <1>1, <1>3 DEF SpawnFails, DropLease
  <1>4. CASE ReplacePlayer(p) \/ StopPlayer
    <2>0. /\ ReplacePlayer(p) => TakeSlot(p) /\ play[p] = "spawned"
          /\ StopPlayer => TakeSlot(None)
      BY DEF ReplacePlayer, StopPlayer
    <2>1. PICK s \in {p, None} : TakeSlot(s) /\ (s = p => play[p] = "spawned")
      BY <1>1, <1>4, <2>0, Zenon
    <2>2. /\ slot' = s /\ server' = server /\ cancelled' = cancelled
          /\ \A q \in Plays : play'[q] = IF q = s THEN "playing"
                                        ELSE IF q = slot THEN "taken" ELSE play[q]
      BY <2>1 DEF TakeSlot, control
    <2>3. QED
      BY <1>1, <2>1, <2>2
  <1>5. CASE DropTaken(p)
    <2>1. /\ play[p] = "taken" /\ slot' = slot /\ server' = server
          /\ \A q \in Plays : play'[q] = IF q = p THEN "over" ELSE play[q]
          /\ \A q \in Plays : cancelled'[q] = (q = p \/ cancelled[q])
      BY <1>5 DEF DropTaken, DropLease
    <2>2. QED
      BY <1>1, <2>1
  <1>6. QED
    BY <1>2, <1>3, <1>4, <1>5 DEF PlayStep

\* Steps of a proxy's own loop.
LEMMA LoopLease ==
  ASSUME TypeOK, LeaseInv, NEW p \in Plays, LoopStep(p) \/ AcceptFails(p)
  PROVE  LeaseInv'
  <1> USE DEF LeaseInv, InSlot, Leased, TypeOK
  <1>1. play' = play /\ slot' = slot
    BY DEF LoopStep, MustStop, CountTransfers, CheckIdle, AcceptCancelled, NothingToAccept,
           AcceptFails, Leave, Join
  <1>2. server[p] # "none"
    BY DEF LoopStep, MustStop, CountTransfers, CheckIdle, AcceptCancelled, NothingToAccept,
           AcceptFails, Join
  <1>3. CASE Leave(p)
    <2>1. \A q \in Plays : /\ server'[q] = IF q = p THEN "joining" ELSE server[q]
                          /\ cancelled'[q] = (q = p \/ cancelled[q])
      BY <1>3 DEF Leave, LoopGoes, DropLease
    <2>2. QED
      BY <1>1, <1>2, <2>1
  <1>4. CASE ~Leave(p)
    <2>1. /\ cancelled' = cancelled
          /\ \A q \in Plays \ {p} : server'[q] = server[q]
      BY <1>4 DEF LoopStep, MustStop, CountTransfers, CheckIdle, AcceptCancelled,
           NothingToAccept, AcceptFails, Join, LoopGoes, control
    <2>2. cancelled[p] => server'[p] \in {"ended", "joining"} \/ play[p] = "over"
      BY <1>4 DEF LoopStep, MustStop, CountTransfers, CheckIdle, AcceptCancelled,
           NothingToAccept, AcceptFails, Join, LoopGoes
    <2>3. QED
      BY <1>1, <1>2, <2>1, <2>2
  <1>5. QED
    BY <1>3, <1>4

LEMMA LeaseInvStays ==
  ASSUME TypeOK, LeaseInv, [Next]_vars
  PROVE  LeaseInv'
  <1>1. CASE \E p \in Plays : PlayStep(p)
    BY <1>1, PlayLease
  <1>2. CASE StopPlayer
    <2>1. slot \in Plays
      BY <1>2 DEF StopPlayer, TypeOK
    <2>2. QED
      BY <1>2, <2>1, PlayLease
  <1>3. CASE \E p \in Plays : LoopStep(p) \/ AcceptFails(p)
    BY <1>3, LoopLease
  <1>4. CASE \E p \in Plays, c \in Connections : Accept(p, c)
    <2>1. PICK p \in Plays : /\ server[p] = "accepting"
                            /\ server' = [server EXCEPT ![p] = "polling"]
                            /\ UNCHANGED <<play, slot, cancelled>> /\ ~cancelled[p]
      BY <1>4 DEF Accept, LoopGoes
    <2>2. QED
      BY <2>1 DEF LeaseInv, InSlot, Leased, TypeOK
  <1>5. CASE Tick \/ (\E c \in Connections : TransferStep(c)) \/ UNCHANGED vars
    <2>1. UNCHANGED <<play, slot, server, cancelled>>
      BY <1>5 DEF Tick, TransferStep, Refused, Answered, WaitForRetry, RelayOn, RelayPiece,
           NoteActivity, LeaveTransfer, TransferGoes, control, vars
    <2>2. QED
      BY <2>1 DEF LeaseInv, InSlot, Leased
  <1>6. QED
    BY <1>1, <1>2, <1>3, <1>4, <1>5 DEF Next

\* No command of another play, and no stop of another player, tells the proxy of
\* the current player to stop; and every other proxy has been told to, or has a
\* command under way that will tell it or make its player the current one.
THEOREM PlayerIsServed == Spec => []OnlyThePlayerIsServed
  <1>1. Init => LeaseInv
    BY DEF Init, LeaseInv, InSlot, Leased, Plays, None
  <1>2. TypeOK /\ LeaseInv => OnlyThePlayerIsServed
    BY DEF TypeOK, LeaseInv, InSlot, Leased, OnlyThePlayerIsServed
  <1>3. QED
    BY <1>1, <1>2, LeaseInvStays, TypeCorrect, PTL DEF Spec
=============================================================================
