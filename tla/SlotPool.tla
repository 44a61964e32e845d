------------------------------ MODULE SlotPool ------------------------------
(***************************************************************************)
(* What the transcode registry promises its operator, without dirs, files, *)
(* processes or callers: a session takes one of Size slots, starts, becomes*)
(* live or gives up, and frees the slot.  A session whose slot is live may *)
(* take it again without freeing it, as an overtaken replacement does.     *)
(***************************************************************************)
EXTENDS Naturals, FiniteSets

CONSTANTS Sessions, Size
VARIABLE slot

States == {"free", "starting", "live"}
Busy == {s \in Sessions : slot[s] # "free"}

Init == slot = [s \in Sessions |-> "free"]

Take(s) ==
  /\ slot[s] \in {"free", "live"} /\ Cardinality(Busy) < Size
  /\ slot' = [slot EXCEPT ![s] = "starting"]

GoLive(s) == slot[s] = "starting" /\ slot' = [slot EXCEPT ![s] = "live"]

\* A start-up fails, or its job was killed under it.
GiveUp(s) == slot[s] = "starting" /\ slot' = [slot EXCEPT ![s] = "free"]

\* The reaper, a replacement, stop() or a crash frees any set of slots.
Release(S) ==
  /\ S \subseteq Busy /\ S # {}
  /\ slot' = [s \in Sessions |-> IF s \in S THEN "free" ELSE slot[s]]

Next ==
  \/ \E s \in Sessions : Take(s) \/ GoLive(s) \/ GiveUp(s)
  \/ \E S \in SUBSET Sessions : Release(S)

Spec == Init /\ [][Next]_slot

TypeOK == slot \in [Sessions -> States]
WithinSize == Cardinality(Busy) <= Size
=============================================================================
