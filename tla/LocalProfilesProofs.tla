------------------------- MODULE LocalProfilesProofs -------------------------
(***************************************************************************)
(* Theorems about LocalProfiles, for any profiles, switches and edits and  *)
(* any number of reloads: its two safety invariants, from one inductive    *)
(* invariant, ProfilesInv.  What a switch touches changes in an order, and *)
(* the invariant says what holds at each of its awaits.                    *)
(***************************************************************************)
EXTENDS LocalProfiles, TLAPS

Phases == {"idle", "adding", "looking", "opening", "touching", "loading",
           "refreshing", "failed", "done"}
SwapPhases == {"opening", "touching", "loading", "refreshing"}
FlightPhases == SwapPhases \cup {"adding", "looking"}
Stages == {"idle", "decoding", "saving", "cut", "done"}
Vias == {"auto", "lock", "launch", "switch", "gone"}
Call == [at : Phases, to : Profiles \cup {None}, via : Vias,
         from : Profiles \cup {None}, got : Settings \cup {None}]
Save == [at : Stages, next : Settings \cup {None}, to : Profiles \cup {None},
         keys : SUBSET Keys, after : SUBSET Edits]

TypeOK ==
  /\ records \subseteq Profiles /\ activeId \in Profiles
  /\ autoEnter \in Profiles \cup {None}
  /\ db \in [Profiles -> Settings \cup {None}] /\ cache \in Settings
  /\ boot \in {"resolving", "hydrating", "up"} /\ open \in Profiles \cup {None}
  /\ mode \in Modes /\ settings \in Settings
  /\ screen \in Profiles \cup {None} /\ active \in Profiles \cup {None}
  /\ listed \subseteq Profiles /\ unlocked \subseteq Profiles
  /\ choosing \subseteq {"launch", "switch"} /\ choiceMade \in BOOLEAN
  /\ switch \in [Switches -> Call] /\ edit \in [Edits -> Save]
  /\ syncing \subseteq Edits /\ alone \in BOOLEAN /\ faults \in Nat

\* A call that runs, or was rejected, has a profile to go to, and knows what it
\* read once it has read it.
CallGood(c) ==
  /\ switch[c].at \notin {"idle", "done"} => switch[c].to \in Profiles /\ boot = "up"
  /\ switch[c].at \in {"loading", "refreshing"} =>
       switch[c].from \in Profiles /\ switch[c].got \in Settings
  /\ switch[c].at = "adding" => switch[c].to \notin Installed
  /\ switch[c].at = "idle" => switch[c].to = None
CallsGood == \A c \in Switches : CallGood(c)

\* A save goes to the open database, and comes after saves that had begun.
EditGood(e) ==
  /\ edit[e].at \in {"decoding", "saving", "cut"} =>
       edit[e].next \in Settings /\ boot = "up"
  /\ edit[e].at = "saving" =>
       /\ edit[e].to = open
       /\ \A d \in edit[e].after : edit[d].at \notin {"idle", "decoding"}
EditsGood == \A e \in Edits : EditGood(e)

\* Of two saves under way one comes after the other.
Ordered(d, e) ==
  edit[d].at = "saving" /\ edit[e].at = "saving" /\ d # e
    => d \in edit[e].after \/ e \in edit[d].after
InOrder == \A d, e \in Edits : Ordered(d, e)

\* What the hydration shows is the profile of the database it opened; unless it
\* was given up, that is the one the registry names.
Starting ==
  /\ boot # "resolving" => open \in Profiles
  /\ boot = "resolving" =>
       active = None /\ listed = {} /\ (alone => activeId \in records)
  /\ boot = "hydrating" =>
       /\ active = open \/ (active = None /\ listed = {})
       /\ alone => activeId = open /\ open \in records
Typed == TypeOK /\ CallsGood /\ EditsGood /\ InOrder /\ Starting /\ (syncing # {} => boot = "up")

OneAtATime == alone => \A c, d \in Switches : InFlight(c) /\ InFlight(d) => c = d

\* Once a switch has swapped the database, whatever it will show had its
\* password given.
Shut == Protected \ unlocked
PasswordsGiven ==
  \A c \in Switches :
    /\ Swapping(c) => open \notin Shut
    /\ switch[c].at = "loading" => switch[c].from \notin Shut
    /\ switch[c].at = "refreshing" => screen \notin Shut

\* While slices of a shut profile are shown, the page goes by its name.
Excluded == Failed \/ (~alone /\ Creating)
LockTells ==
  boot = "up" /\ screen \in Shut /\ ~Excluded
    => active = screen \/ (active = None /\ listed = {})

\* How far a switch is that nothing has met.
Steady ==
  alone => \A c \in Switches : Swapping(c) =>
    /\ open = switch[c].to /\ open \in records
    /\ switch[c].at # "refreshing" => mode = "offline"
    /\ switch[c].at # "opening" => activeId = open
    /\ switch[c].at \in {"loading", "refreshing"} =>
         /\ switch[c].from = open /\ switch[c].got = db[open]
         /\ ~\E e \in Edits : Saving(e)
    /\ switch[c].at = "refreshing" =>
         screen = open /\ settings = db[open] /\ mode = settings.mode

\* Of the saves of a key, the last holds what the page has in force; when there
\* is none the open database does.
Last(k, e) ==
  /\ Saving(e) /\ k \in edit[e].keys
  /\ \A d \in Edits : Saving(d) /\ k \in edit[d].keys => d = e \/ d \in edit[e].after
Kept ==
  /\ mode = settings.mode /\ db[open] \in Settings
  /\ \A k \in Keys :
       /\ (~\E e \in Edits : Saving(e) /\ k \in edit[e].keys) => db[open][k] = settings[k]
       /\ \A e \in Edits : Last(k, e) => edit[e].next[k] = settings[k]

\* Between two switches the settings are kept, or a switch that was rejected has
\* left the page offline; and if none was, registry and page agree.
Between == boot = "up" /\ alone /\ ~\E c \in Switches : Swapping(c)
StoreKept == Between => Kept \/ (Failed /\ mode = "offline")
Settled ==
  Between /\ ~Failed =>
    /\ screen = open /\ activeId = open /\ open \in records
    /\ active = open \/ (active = None /\ listed = {})

Rest == PasswordsGiven /\ LockTells /\ Steady /\ StoreKept /\ Settled

\* A photo or a name is taken where the page is not covered, and only a switch,
\* with its password, changes the page after that: when the profiles are read
\* again in the middle of another switch, there is nothing to cover.
SyncsOpen == syncing # {} /\ ~Excluded => screen \notin Shut
ProfilesInv == Typed /\ OneAtATime /\ Rest /\ SyncsOpen

-----------------------------------------------------------------------------
(* Settings, and what is read and written of them. *)

LEMMA KeysAreFields ==
  ASSUME NEW s \in Settings, NEW t \in Settings
  PROVE  /\ s["mode"] = s.mode /\ s["of"] = s.of
         /\ (\A k \in Keys : s[k] = t[k]) => s = t
BY DEF Settings, Keys

LEMMA LoadedIsSettings ==
  ASSUME TypeOK, NEW p \in Profiles
  PROVE  Loaded(p) \in Settings /\ (db[p] # None => Loaded(p) = db[p])
<1>1. db[p] \in Settings \cup {None} /\ cache \in Settings
  BY DEF TypeOK
<1>2. Fresh(p) \in Settings  BY DEF Fresh, Settings, Modes
<1> QED  BY <1>1, <1>2, NoneAssumption DEF Loaded

LEMMA LoadTypes ==
  ASSUME TypeOK, NEW p \in Profiles, loadSettingsFromStore(p)
  PROVE  /\ db' \in [Profiles -> Settings \cup {None}] /\ cache' \in Settings
         /\ db'[p] = Loaded(p) /\ db'[p] \in Settings
         /\ \A q \in Profiles \ {p} : db'[q] = db[q]
<1>1. db \in [Profiles -> Settings \cup {None}] /\ cache \in Settings
  BY DEF TypeOK
<1>2. Loaded(p) \in Settings  BY LoadedIsSettings
<1> QED  BY <1>1, <1>2 DEF loadSettingsFromStore

LEMMA WrittenTypes ==
  ASSUME TypeOK, EditsGood, NEW p \in Profiles,
         NEW w \in [Keys -> Edits \cup {None}],
         \A k \in Keys : w[k] # None => edit[w[k]].at = "saving"
  PROVE  /\ Written(p, w) \in [Profiles -> Settings \cup {None}]
         /\ \A q \in Profiles \ {p} : Written(p, w)[q] = db[q]
         /\ (\A k \in Keys : w[k] = None) => Written(p, w) = db
         /\ (\E k \in Keys : w[k] # None) => Written(p, w)[p] \in Settings
         /\ \A k \in Keys : w[k] # None => Written(p, w)[p][k] = edit[w[k]].next[k]
         /\ \A k \in Keys : w[k] = None /\ db[p] # None => Written(p, w)[p][k] = db[p][k]
<1>1. db \in [Profiles -> Settings \cup {None}]
  BY DEF TypeOK
<1> DEFINE s == IF db[p] = None THEN Fresh(p) ELSE db[p]
           r == [k \in Keys |-> IF w[k] = None THEN s[k] ELSE edit[w[k]].next[k]]
<1>2. s \in Settings  BY <1>1 DEF Fresh, Settings, Modes
<1>3. \A k \in Keys : w[k] # None => edit[w[k]].next \in Settings
  <2> SUFFICES ASSUME NEW k \in Keys, w[k] # None PROVE edit[w[k]].next \in Settings
    OBVIOUS
  <2>1. w[k] \in Edits  OBVIOUS
  <2> QED  BY <2>1 DEF EditsGood, EditGood
<1>4. r \in Settings
  <2> DEFINE f == [k \in Keys |-> IF w[k] = None THEN s ELSE edit[w[k]].next]
  <2>1. f \in [Keys -> Settings]  BY <1>2, <1>3
  <2>2. r = [k \in Keys |-> f[k][k]]  OBVIOUS
  <2> HIDE DEF f, r
  <2> QED  BY <2>1, <2>2 DEF Settings, Keys, Modes
<1>5. Written(p, w) = IF \A k \in Keys : w[k] = None THEN db ELSE [db EXCEPT ![p] = r]
  BY DEF Written
<1>6. \A k \in Keys : r[k] = IF w[k] = None THEN s[k] ELSE edit[w[k]].next[k]
  OBVIOUS
<1>7. db[p] # None => s = db[p]  OBVIOUS
<1> HIDE DEF r, s
<1> QED  BY <1>1, <1>4, <1>5, <1>6, <1>7

LEMMA InterruptedTypes ==
  ASSUME TypeOK, EditsGood, open \in Profiles, db' \in Interrupted
  PROVE  /\ db' \in [Profiles -> Settings \cup {None}]
         /\ \A q \in Profiles \ {open} : db'[q] = db[q]
<1>1. PICK w \in [Keys -> Edits \cup {None}] :
         /\ db' = Written(open, w)
         /\ \A k \in Keys : w[k] \in {None} \cup {e \in Edits : Saving(e) /\ k \in edit[e].keys}
  BY DEF Interrupted
<1>2. \A k \in Keys : w[k] # None => edit[w[k]].at = "saving"
  BY <1>1 DEF Saving
<1> QED  BY <1>1, <1>2, WrittenTypes

-----------------------------------------------------------------------------
(* One call, or one save, moves. *)

LEMMA PhaseMoves ==
  ASSUME switch \in [Switches -> Call], NEW c \in Switches, NEW ph \in Phases,
         NEW m, m = [switch EXCEPT ![c].at = ph]
  PROVE  /\ m \in [Switches -> Call]
         /\ m[c].at = ph /\ m[c].to = switch[c].to /\ m[c].via = switch[c].via
         /\ m[c].from = switch[c].from /\ m[c].got = switch[c].got
         /\ \A d \in Switches \ {c} : m[d] = switch[d]
BY DEF Call

LEMMA ReadMoves ==
  ASSUME TypeOK, open \in Profiles, NEW c \in Switches, SettingsRead(c)
  PROVE  /\ switch' \in [Switches -> Call]
         /\ switch'[c].at = "loading" /\ switch'[c].to = switch[c].to
         /\ switch'[c].from = open /\ switch'[c].got = Loaded(open)
         /\ \A d \in Switches \ {c} : switch'[d] = switch[d]
         /\ Loaded(open) \in Settings
<1>1. Loaded(open) \in Settings /\ switch \in [Switches -> Call]
  BY LoadedIsSettings DEF TypeOK
<1>2. PICK s \in Settings : s = Loaded(open)
  BY <1>1
<1>3. PICK r : r = [switch[c] EXCEPT !.at = "loading", !.from = open, !.got = s]
  OBVIOUS
<1>4. /\ r \in Call
      /\ r.at = "loading" /\ r.to = switch[c].to /\ r.from = open /\ r.got = s
  BY <1>1, <1>3 DEF Call, Phases
<1>5. switch' = [switch EXCEPT ![c].at = "loading", ![c].from = open, ![c].got = s]
  BY <1>2 DEF SettingsRead
<1>6. DOMAIN switch' = Switches /\ switch'[c] = r
      /\ \A d \in Switches \ {c} : switch'[d] = switch[d]
  BY <1>1, <1>3, <1>5
<1>7. switch' = [d \in Switches |-> switch'[d]]
  BY <1>1, <1>5
<1> QED  BY <1>1, <1>2, <1>4, <1>6, <1>7

LEMMA NewCallMoves ==
  ASSUME switch \in [Switches -> Call], NEW c \in Switches, NEW ph \in Phases,
         NEW via \in Vias, NEW p \in Profiles \cup {None}, Begin(c, p, via, ph)
  PROVE  /\ switch' \in [Switches -> Call]
         /\ switch'[c].at = ph /\ switch'[c].to = p
         /\ \A d \in Switches \ {c} : switch'[d] = switch[d]
<1>1. PICK r : r = [NoSwitch EXCEPT !.at = ph, !.to = p, !.via = via]
  OBVIOUS
<1>2. r \in Call /\ r.at = ph /\ r.to = p
  BY <1>1 DEF NoSwitch, Call
<1>3. switch' = [switch EXCEPT ![c] = r]
  BY <1>1 DEF Begin
<1> QED  BY <1>2, <1>3

LEMMA EndMoves ==
  ASSUME switch \in [Switches -> Call], NEW c \in Switches,
         NEW m, m = [switch EXCEPT ![c] = Ended(c)]
  PROVE  /\ m \in [Switches -> Call]
         /\ m[c].at = "done" /\ m[c].to = switch[c].to
         /\ \A d \in Switches \ {c} : m[d] = switch[d]
<1>1. /\ Ended(c) \in Call
      /\ Ended(c).at = "done" /\ Ended(c).to = switch[c].to
  BY DEF Ended, NoSwitch, Call, Phases, Vias
<1> QED  BY <1>1

LEMMA FailMoves ==
  ASSUME switch \in [Switches -> Call], NEW c \in Switches,
         NEW m, m = [switch EXCEPT ![c] = [Ended(c) EXCEPT !.at = "failed", !.via = switch[c].via]]
  PROVE  /\ m \in [Switches -> Call]
         /\ m[c].at = "failed" /\ m[c].to = switch[c].to
         /\ \A d \in Switches \ {c} : m[d] = switch[d]
<1>1. PICK r : r = [Ended(c) EXCEPT !.at = "failed", !.via = switch[c].via]
  OBVIOUS
<1>2. r \in Call /\ r.at = "failed" /\ r.to = switch[c].to
  BY <1>1 DEF Ended, NoSwitch, Call, Phases, Vias
<1>3. m = [switch EXCEPT ![c] = r]
  BY <1>1
<1> QED  BY <1>2, <1>3

LEMMA UnmountMoves ==
  ASSUME NEW calls \in [Switches -> Call], NEW closed
  PROVE  /\ Unmounted(calls, closed) \in [Switches -> Call]
         /\ \A d \in Switches :
              /\ Unmounted(calls, closed)[d].at = calls[d].at
              /\ Unmounted(calls, closed)[d].to = calls[d].to
              /\ Unmounted(calls, closed)[d].from = calls[d].from
              /\ Unmounted(calls, closed)[d].got = calls[d].got
BY DEF Unmounted, Call, Vias

LEMMA SaveEnds ==
  ASSUME edit \in [Edits -> Save], NEW e \in Edits,
         edit' = [edit EXCEPT ![e] = [NoEdit EXCEPT !.at = "done"]]
  PROVE  /\ edit' \in [Edits -> Save] /\ edit'[e].at = "done"
         /\ \A d \in Edits \ {e} : edit'[d] = edit[d]
<1>1. PICK r : r = [NoEdit EXCEPT !.at = "done"]
  OBVIOUS
<1>2. r \in Save /\ r.at = "done"
  BY <1>1 DEF NoEdit, Stages, Save
<1>3. edit' = [edit EXCEPT ![e] = r]
  BY <1>1
<1> QED  BY <1>2, <1>3

LEMMA ApplyMoves ==
  ASSUME TypeOK, open \in Profiles, NEW e \in Edits, NEW next \in Settings, Apply(e, next)
  PROVE  /\ edit' \in [Edits -> Save]
         /\ mode' = next.mode /\ mode' \in Modes /\ settings' = next
         /\ edit'[e].at = "saving" /\ edit'[e].next = next /\ edit'[e].to = open
         /\ edit'[e].keys = Changed(next, settings)
         /\ edit'[e].after = {d \in Edits : Saving(d)}
         /\ \A d \in Edits \ {e} : edit'[d] = edit[d]
<1> DEFINE r == [at |-> "saving", next |-> next, to |-> open,
                 keys |-> Changed(next, settings), after |-> {d \in Edits : Saving(d)}]
<1>1. Changed(next, settings) \subseteq Keys  BY DEF Changed
<1>2. r \in Save
  BY <1>1 DEF Stages, Save
<1>3. edit \in [Edits -> Save] /\ edit' = [edit EXCEPT ![e] = r]
  BY DEF TypeOK, Apply
<1>4. next.mode \in Modes  BY DEF Settings
<1>5. /\ r.at = "saving" /\ r.next = next /\ r.to = open
      /\ r.keys = Changed(next, settings) /\ r.after = {d \in Edits : Saving(d)}
  OBVIOUS
<1> HIDE DEF r
<1>6. edit' \in [Edits -> Save] /\ edit'[e] = r /\ \A d \in Edits \ {e} : edit'[d] = edit[d]
  BY <1>2, <1>3 DEF Save
<1> QED  BY <1>4, <1>5, <1>6 DEF Apply

LEMMA PickMoves ==
  ASSUME TypeOK, NEW e \in Edits, PickImage(e)
  PROVE  /\ edit' \in [Edits -> Save]
         /\ edit'[e].at = "decoding" /\ edit'[e].next = settings
         /\ \A d \in Edits \ {e} : edit'[d] = edit[d]
<1> DEFINE r == [NoEdit EXCEPT !.at = "decoding", !.next = settings]
<1>1. /\ r \in Save
      /\ r.at = "decoding" /\ r.next = settings
  BY DEF NoEdit, Stages, TypeOK, Save
<1>2. edit \in [Edits -> Save] /\ edit' = [edit EXCEPT ![e] = r]
  BY DEF PickImage, TypeOK
<1> HIDE DEF r
<1> QED  BY <1>1, <1>2 DEF Save

\* A save that is done leaves what it was to leave, and nothing else is saved.
LEMMA SavedMoves ==
  ASSUME TypeOK, EditsGood, Starting, NEW e \in Edits, Saved(e)
  PROVE  /\ edit' \in [Edits -> Save] /\ edit'[e].at = "done"
         /\ \A d \in Edits \ {e} : edit'[d] = edit[d]
         /\ open \in Profiles
         /\ db' \in [Profiles -> Settings \cup {None}] /\ cache' \in Settings
         /\ db[open] # None => db'[open] \in Settings
         /\ \A k \in edit[e].keys : db'[open][k] = edit[e].next[k]
         /\ \A k \in Keys \ edit[e].keys : db[open] # None => db'[open][k] = db[open][k]
<1>1. edit \in [Edits -> Save] /\ Saving(e) /\ edit[e].to = open /\ edit[e].next \in Settings
  BY DEF TypeOK, EditsGood, EditGood, Saved, Saving
<1>2. /\ edit' \in [Edits -> Save] /\ edit'[e].at = "done"
      /\ \A d \in Edits \ {e} : edit'[d] = edit[d]
  BY <1>1, SaveEnds DEF Saved
<1>3. open \in Profiles
  BY <1>1 DEF EditsGood, EditGood, Starting, Saving
<1> DEFINE w == [k \in Keys |-> IF k \in edit[e].keys THEN e ELSE None]
<1>4. w \in [Keys -> Edits \cup {None}]  OBVIOUS
<1>5. e # None /\ edit[e].keys \subseteq Keys
  BY <1>1, ProfilesAssumption DEF Save
<1>6. \A k \in Keys : w[k] = IF k \in edit[e].keys THEN e ELSE None  OBVIOUS
<1>7. db' = Written(open, w) /\ cache' = edit[e].next
  BY <1>1 DEF Saved
<1>8. \A k \in Keys : w[k] # None => edit[w[k]].at = "saving"
  BY <1>1, <1>6 DEF Saving
<1> HIDE DEF w
<1>9. /\ db' \in [Profiles -> Settings \cup {None}]
      /\ (\A k \in Keys : w[k] = None) => db' = db
      /\ (\E k \in Keys : w[k] # None) => db'[open] \in Settings
      /\ \A k \in Keys : w[k] # None => db'[open][k] = edit[w[k]].next[k]
      /\ \A k \in Keys : w[k] = None /\ db[open] # None => db'[open][k] = db[open][k]
  BY <1>3, <1>4, <1>7, <1>8, WrittenTypes
<1>10. db[open] # None => db'[open] \in Settings
  BY <1>3, <1>9 DEF TypeOK
<1> QED  BY <1>1, <1>2, <1>3, <1>5, <1>6, <1>7, <1>9, <1>10

-----------------------------------------------------------------------------
(* Types. *)

LEMMA TypeStep ==
  ASSUME TypeOK, CallsGood, EditsGood, Starting, Next
  PROVE  TypeOK'
<1> USE DEF registry, people, shown, pickers
<1>a. /\ switch \in [Switches -> Call] /\ edit \in [Edits -> Save]
      /\ db \in [Profiles -> Settings \cup {None}] /\ cache \in Settings
      /\ records \subseteq Profiles /\ activeId \in Profiles
      /\ faults \in Nat /\ choosing \subseteq {"launch", "switch"}
  BY DEF TypeOK
<1>b. NoSwitch \in Call /\ NoEdit \in Save
  BY DEF NoSwitch, NoEdit, Call, Save, Phases, Stages, Vias
<1>c. Bootstrap(cache) \in Settings /\ Bootstrap(cache).mode \in Modes
  BY <1>a, NoneAssumption DEF Bootstrap, Settings
<1>d. refreshProfiles => listed' = records' /\ active' \in Profiles \cup {None}
  BY <1>a DEF refreshProfiles, TypeOK
<1>e. \A p \in Profiles \cup {None}, c \in Switches, via \in Vias, ph \in Phases :
         Begin(c, p, via, ph) => switch' \in [Switches -> Call] /\ alone' \in BOOLEAN
  <2> SUFFICES ASSUME NEW p \in Profiles \cup {None}, NEW c \in Switches, NEW via \in Vias,
                      NEW ph \in Phases, Begin(c, p, via, ph)
               PROVE  switch' \in [Switches -> Call] /\ alone' \in BOOLEAN
    OBVIOUS
  <2>1. switch' \in [Switches -> Call]
    BY <1>a, NewCallMoves
  <2>2. alone' \in BOOLEAN
    BY DEF Begin, TypeOK
  <2> QED  BY <2>1, <2>2
<1>f. Fault => faults' \in Nat
  BY <1>a DEF Fault
<1>1. ASSUME Restart PROVE TypeOK'
  <2>1. switch' \in [Switches -> Call]
    <3>1. [NoSwitch EXCEPT !.at = "done"] \in Call
      BY DEF NoSwitch, Call, Phases, Vias
    <3> QED  BY <1>1, <1>b, <3>1 DEF Restart
  <2>2. edit' \in [Edits -> Save]
    <3>1. [NoEdit EXCEPT !.at = "done"] \in Save
      BY DEF NoEdit, Save, Stages
    <3> QED  BY <1>1, <1>b, <3>1 DEF Restart
  <2>3. db' \in [Profiles -> Settings \cup {None}]
    <3>1. CASE open \in Profiles
      BY <3>1, <1>1, InterruptedTypes DEF Restart
    <3>2. CASE open \notin Profiles
      <4>1. \A e \in Edits : ~Saving(e)
        BY <3>2 DEF EditsGood, EditGood, Starting, Saving
      <4>2. PICK w \in [Keys -> Edits \cup {None}] :
               /\ db' = Written(open, w)
               /\ \A k \in Keys : w[k] \in {None} \cup {e \in Edits : Saving(e) /\ k \in edit[e].keys}
        BY <1>1 DEF Restart, Interrupted
      <4>3. \A k \in Keys : w[k] = None
        BY <4>1, <4>2
      <4> QED  BY <4>2, <4>3, <1>a DEF Written
    <3> QED  BY <3>1, <3>2
  <2>4. alone' \in BOOLEAN /\ mode' \in Modes /\ settings' \in Settings /\ faults' \in Nat
    <3>1. alone' = (activeId \in records)  BY <1>1 DEF Restart
    <3>2. Fault  BY <1>1 DEF Restart
    <3>3. mode' \in Modes /\ settings' \in Settings  BY <1>1, <1>c DEF Restart
    <3>4. alone' \in BOOLEAN  BY <3>1
    <3> QED  BY <3>2, <3>3, <3>4, <1>f
  <2>5. /\ boot' = "resolving" /\ open' = None /\ screen' = None /\ active' = None
        /\ listed' = {} /\ unlocked' = {} /\ choosing' = {} /\ choiceMade' = FALSE
        /\ records' = records /\ activeId' = activeId /\ autoEnter' = autoEnter
        /\ cache' = cache /\ syncing' = {}
    BY <1>1 DEF Restart
  <2> QED  BY <2>1, <2>2, <2>3, <2>4, <2>5 DEF TypeOK
<1>2. ASSUME Hydrate PROVE TypeOK'
  <2>1. open \in Profiles
    BY <1>2 DEF Hydrate, Starting
  <2>2. /\ db' \in [Profiles -> Settings \cup {None}] /\ cache' \in Settings
        /\ Loaded(open) \in Settings /\ Loaded(open).mode \in Modes
    BY <1>2, <2>1, LoadTypes DEF Hydrate, Settings
  <2> QED  BY <1>2, <2>1, <2>2 DEF Hydrate, TypeOK
<1>3. ASSUME LaunchChoice PROVE TypeOK'
  <2>1. switch' \in [Switches -> Call] /\ alone' \in BOOLEAN
    <3>1. ASSUME NEW c \in Switches, Begin(c, autoEnter, "auto", "looking")
          PROVE  switch' \in [Switches -> Call] /\ alone' \in BOOLEAN
      <4>1. autoEnter \in Profiles \cup {None} /\ "auto" \in Vias /\ "looking" \in Phases
        BY DEF TypeOK, Vias, Phases
      <4> QED  BY <3>1, <4>1, <1>e
    <3> QED  BY <1>3, <3>1, <1>a DEF LaunchChoice, TypeOK
  <2>2. choosing' \subseteq {"launch", "switch"} /\ choiceMade' \in BOOLEAN
    BY <1>3, <1>a DEF LaunchChoice
  <2> QED  BY <1>3, <2>1, <2>2 DEF LaunchChoice, TypeOK
<1>4. ASSUME OpenPicker PROVE TypeOK'
  BY <1>4 DEF OpenPicker, TypeOK
<1>5. ASSUME CancelPicker PROVE TypeOK'
  <2>1. switch' \in [Switches -> Call]
    BY <1>5, <1>a, UnmountMoves DEF CancelPicker
  <2> QED  BY <1>5, <2>1 DEF CancelPicker, TypeOK
<1>6. ASSUME NEW p \in Profiles, ResolveProfile(p) PROVE TypeOK'
  BY <1>6 DEF ResolveProfile, TypeOK
<1>7. ASSUME NEW p \in Profiles, ResolveFails(p) PROVE TypeOK'
  BY <1>7, <1>f DEF ResolveFails, TypeOK
<1>8. ASSUME NEW p \in Profiles, deleteProfile(p) PROVE TypeOK'
  <2>1. records' \subseteq Profiles
    BY <1>8, <1>a DEF deleteProfile
  <2>2. alone' \in BOOLEAN
    BY <1>8 DEF deleteProfile, TypeOK
  <2> QED  BY <1>8, <1>d, <2>1, <2>2 DEF deleteProfile, TypeOK
<1>9. ASSUME NEW c \in Switches, NEW p \in Profiles, NEW via \in {"lock", "launch", "switch"},
             Choose(c, p, via)
      PROVE TypeOK'
  <2>1. switch' \in [Switches -> Call] /\ alone' \in BOOLEAN
    <3>1. "looking" \in Phases /\ via \in Vias  BY DEF Phases, Vias
    <3> QED  BY <1>9, <1>e, <3>1 DEF Choose
  <2> QED  BY <1>9, <2>1 DEF Choose, TypeOK
<1>10. ASSUME NEW c \in Switches, NEW p \in Profiles, NEW via \in {"lock", "launch", "switch"},
              CreateAndEnter(c, p, via)
       PROVE TypeOK'
  <2>1. switch' \in [Switches -> Call] /\ alone' \in BOOLEAN
    <3>1. "adding" \in Phases /\ via \in Vias  BY DEF Phases, Vias
    <3> QED  BY <1>10, <1>e, <3>1 DEF CreateAndEnter
  <2> QED  BY <1>10, <2>1 DEF CreateAndEnter, TypeOK
<1>11. ASSUME NEW c \in Switches, Created(c) PROVE TypeOK'
  <2>1. switch' \in [Switches -> Call]
    BY <1>11, <1>a, PhaseMoves DEF Created, Phases
  <2>2. records' \subseteq Profiles
    BY <1>11, <1>a DEF Created, CallsGood, CallGood
  <2> QED  BY <1>11, <2>1, <2>2, <1>d DEF Created, TypeOK
<1>12. ASSUME NEW c \in Switches, Verified(c) PROVE TypeOK'
  <2>1. switch' \in [Switches -> Call]
    BY <1>12, <1>a, PhaseMoves DEF Verified, Phases
  <2>2. switch[c].to \in Profiles /\ open \in Profiles
    BY <1>12 DEF Verified, CallsGood, CallGood, Starting
  <2>3. db' \in [Profiles -> Settings \cup {None}]
    BY <1>12, <2>2, <1>a, InterruptedTypes DEF Verified, swapLocalProfileStore
  <2>4. edit' \in [Edits -> Save]
    BY <1>12, <1>a DEF Verified, swapLocalProfileStore, Save, Stages
  <2>5. unlocked' \subseteq Profiles /\ open' \in Profiles
    BY <1>12, <2>2 DEF Verified, swapLocalProfileStore, TypeOK
  <2>6. mode' \in Modes
    BY <1>12 DEF Verified, Modes
  <2> QED  BY <1>12, <2>1, <2>3, <2>4, <2>5, <2>6 DEF Verified, TypeOK
<1>13. ASSUME NEW c \in Switches, Refused(c) PROVE TypeOK'
  <2>1. switch' \in [Switches -> Call]
    BY <1>13, <1>a, EndMoves DEF Refused
  <2>2. choosing' \subseteq {"launch", "switch"}
    BY <1>13, <1>a DEF Refused
  <2> QED  BY <1>13, <2>1, <2>2 DEF Refused, TypeOK
<1>14. ASSUME NEW c \in Switches, Marked(c) PROVE TypeOK'
  <2>1. switch' \in [Switches -> Call]
    BY <1>14, <1>a, PhaseMoves DEF Marked, Phases
  <2>2. activeId' \in Profiles
    BY <1>14 DEF Marked, CallsGood, CallGood
  <2> QED  BY <1>14, <2>1, <2>2 DEF Marked, TypeOK
<1>15. ASSUME NEW c \in Switches, SettingsRead(c) PROVE TypeOK'
  <2>1. open \in Profiles
    BY <1>15 DEF SettingsRead, CallsGood, CallGood, Starting
  <2>2. /\ db' \in [Profiles -> Settings \cup {None}] /\ cache' \in Settings
        /\ Loaded(open) \in Settings
    BY <1>15, <2>1, LoadTypes DEF SettingsRead
  <2>3. switch' \in [Switches -> Call]
    BY <1>15, <2>1, ReadMoves
  <2> QED  BY <1>15, <2>2, <2>3 DEF SettingsRead, TypeOK
<1>16. ASSUME NEW c \in Switches, Reloaded(c) PROVE TypeOK'
  <2>1. switch' \in [Switches -> Call]
    BY <1>16, <1>a, PhaseMoves DEF Reloaded, Phases
  <2>2. switch[c].got \in Settings /\ switch[c].got.mode \in Modes /\ switch[c].from \in Profiles
    BY <1>16 DEF Reloaded, CallsGood, CallGood, Settings
  <2> QED  BY <1>16, <2>1, <2>2 DEF Reloaded, TypeOK
<1>17. ASSUME NEW c \in Switches, Refreshed(c) PROVE TypeOK'
  <2>1. PICK closed : /\ choosing' = choosing \ {closed}
                      /\ switch' = Unmounted([switch EXCEPT ![c] = Ended(c)], closed)
    BY <1>17 DEF Refreshed
  <2>2. [switch EXCEPT ![c] = Ended(c)] \in [Switches -> Call]
    BY <1>a, EndMoves
  <2>3. switch' \in [Switches -> Call]
    BY <2>1, <2>2, UnmountMoves
  <2>4. records' = records /\ refreshProfiles
    BY <1>17 DEF Refreshed
  <2> QED  BY <1>17, <1>a, <1>d, <2>1, <2>3, <2>4 DEF Refreshed, TypeOK
<1>18. ASSUME NEW c \in Switches, Rejected(c) PROVE TypeOK'
  <2>1. switch' \in [Switches -> Call]
    BY <1>18, <1>a, FailMoves DEF Rejected
  <2>2. faults' \in Nat
    BY <1>18, <1>a, <1>f DEF Rejected
  <2> QED  BY <1>18, <2>1, <2>2 DEF Rejected, TypeOK
<1>19. ASSUME NEW e \in Edits, NEW next \in Settings, Apply(e, next), boot = "up",
              UNCHANGED <<registry, db, cache, boot, open, screen, people, unlocked, pickers,
                          switch, faults, syncing>>
       PROVE TypeOK'
  <2>1. open \in Profiles
    BY <1>19 DEF Starting
  <2>2. edit' \in [Edits -> Save] /\ mode' \in Modes /\ settings' = next
    BY <1>19, <2>1, ApplyMoves
  <2>3. alone' \in BOOLEAN
    BY <1>19 DEF Apply, TypeOK
  <2> QED  BY <1>19, <2>2, <2>3 DEF TypeOK
<1>20. ASSUME NEW e \in Edits, NEW m \in Modes, updateSettings(e, m) PROVE TypeOK'
  <2>1. [settings EXCEPT !.mode = m] \in Settings
    BY DEF TypeOK, Settings
  <2> QED  BY <1>19, <1>20, <2>1 DEF updateSettings
<1>21. ASSUME NEW e \in Edits, PickImage(e) PROVE TypeOK'
  BY <1>21, PickMoves DEF PickImage, TypeOK
<1>22. ASSUME NEW e \in Edits, Decoded(e) PROVE TypeOK'
  <2>1. edit[e].next \in Settings /\ boot = "up"
    BY <1>22 DEF Decoded, EditsGood, EditGood
  <2> QED  BY <1>19, <1>22, <2>1 DEF Decoded
<1>23. ASSUME NEW e \in Edits, Saved(e) PROVE TypeOK'
  BY <1>23, SavedMoves DEF Saved, TypeOK
<1>24. ASSUME NEW e \in Edits, SaveCut(e) PROVE TypeOK'
  <2>1. edit' \in [Edits -> Save]
    BY <1>24, <1>a, SaveEnds DEF SaveCut
  <2>2. cache' \in Settings
    BY <1>24, <1>a DEF SaveCut, EditsGood, EditGood
  <2> QED  BY <1>24, <2>1, <2>2 DEF SaveCut, TypeOK
<1>25. ASSUME NEW e \in Edits, Synced(e) PROVE TypeOK'
  BY <1>25, <1>d DEF Synced, TypeOK
<1> QED
  BY <1>1, <1>2, <1>3, <1>4, <1>5, <1>6, <1>7, <1>8, <1>9, <1>10, <1>11, <1>12, <1>13,
     <1>14, <1>15, <1>16, <1>17, <1>18, <1>20, <1>21, <1>22, <1>23, <1>24, <1>25 DEF Next

-----------------------------------------------------------------------------
LEMMA CallsStep ==
  ASSUME TypeOK, CallsGood, Starting, Next
  PROVE  CallsGood'
<1>a. /\ switch \in [Switches -> Call] /\ cache \in Settings
      /\ db \in [Profiles -> Settings \cup {None}]
  BY DEF TypeOK
<1>b. CallsGood <=> \A c \in Switches : CallGood(c)
  BY DEF CallsGood, CallGood
<1>c. (\A c \in Switches : CallGood(c)') => CallsGood'
  BY DEF CallsGood, CallGood
<1>d. ASSUME boot' = boot,
             \A c \in Switches : /\ switch'[c].at = switch[c].at /\ switch'[c].to = switch[c].to
                                 /\ switch'[c].from = switch[c].from
                                 /\ switch'[c].got = switch[c].got
      PROVE  CallsGood'
  BY <1>d, <1>b, <1>c DEF CallGood
<1>e. ASSUME NEW c \in Switches, boot' = boot, CallGood(c)',
             \A d \in Switches \ {c} : switch'[d] = switch[d]
      PROVE  CallsGood'
  <2> SUFFICES ASSUME NEW d \in Switches PROVE CallGood(d)'
    BY <1>c
  <2>1. CASE d = c  BY <2>1, <1>e
  <2>2. CASE d # c
    <3>1. CallGood(d) /\ switch'[d] = switch[d]  BY <2>2, <1>b, <1>e
    <3> QED  BY <3>1, <1>e DEF CallGood
  <2> QED  BY <2>1, <2>2
<1>f. ASSUME NEW c \in Switches, NEW p \in Profiles, NEW via \in Vias,
             NEW ph \in {"looking", "adding"}, Begin(c, p, via, ph), boot' = boot,
             ph = "adding" => p \notin Installed
      PROVE  CallsGood'
  <2>1. "looking" \in Phases /\ "adding" \in Phases /\ p \in Profiles \cup {None} /\ boot = "up"
    BY <1>f DEF Phases, Begin
  <2>2. /\ switch'[c].at = ph /\ switch'[c].to = p
        /\ \A d \in Switches \ {c} : switch'[d] = switch[d]
    BY <1>a, <1>f, <2>1, NewCallMoves
  <2> QED  BY <1>e, <1>f, <2>1, <2>2 DEF CallGood
<1>1. ASSUME Restart PROVE CallsGood'
  <2> SUFFICES ASSUME NEW c \in Switches PROVE CallGood(c)'
    BY <1>c
  <2>1. switch'[c].at \in {"idle", "done"} /\ switch'[c].to = None
    BY <1>1 DEF Restart, NoSwitch
  <2> QED  BY <2>1 DEF CallGood
<1>2. ASSUME Hydrate PROVE CallsGood'
  <2>1. switch' = switch /\ boot' = "up"  BY <1>2 DEF Hydrate
  <2> QED  BY <2>1, <1>b, <1>c DEF CallGood
<1>3. ASSUME LaunchChoice PROVE CallsGood'
  <2>1. ASSUME NEW c \in Switches, autoEnter \in listed, Begin(c, autoEnter, "auto", "looking")
        PROVE  CallsGood'
    <3>1. autoEnter \in Profiles /\ "auto" \in Vias  BY <2>1 DEF TypeOK, Vias
    <3>2. boot' = boot  BY <1>3 DEF LaunchChoice
    <3> QED  BY <2>1, <3>1, <3>2, <1>f
  <2>2. ASSUME switch' = switch PROVE CallsGood'
    BY <1>3, <2>2, <1>d DEF LaunchChoice
  <2> QED  BY <1>3, <2>1, <2>2 DEF LaunchChoice
<1>4. ASSUME OpenPicker PROVE CallsGood'
  BY <1>4, <1>d DEF OpenPicker
<1>5. ASSUME CancelPicker PROVE CallsGood'
  BY <1>5, <1>a, <1>d, UnmountMoves DEF CancelPicker
<1>6. ASSUME NEW p \in Profiles, ResolveProfile(p) PROVE CallsGood'
  <2>1. switch' = switch /\ boot = "resolving"  BY <1>6 DEF ResolveProfile
  <2> QED  BY <2>1, <1>b, <1>c DEF CallGood
<1>7. ASSUME NEW p \in Profiles, ResolveFails(p) PROVE CallsGood'
  <2>1. switch' = switch /\ boot = "resolving"  BY <1>7 DEF ResolveFails
  <2> QED  BY <2>1, <1>b, <1>c DEF CallGood
<1>8. ASSUME NEW p \in Profiles, deleteProfile(p) PROVE CallsGood'
  BY <1>8, <1>d DEF deleteProfile
<1>9. ASSUME NEW c \in Switches, NEW p \in Profiles, NEW via \in {"lock", "launch", "switch"},
             Choose(c, p, via)
      PROVE CallsGood'
  <2>1. via \in Vias  BY DEF Vias
  <2> QED  BY <1>9, <1>f, <2>1 DEF Choose
<1>10. ASSUME NEW c \in Switches, NEW p \in Profiles, NEW via \in {"lock", "launch", "switch"},
              CreateAndEnter(c, p, via)
       PROVE CallsGood'
  <2>1. via \in Vias  BY DEF Vias
  <2> QED  BY <1>10, <1>f, <2>1 DEF CreateAndEnter
<1>11. ASSUME NEW c \in Switches, NEW ph \in Phases, boot' = boot,
              switch' = [switch EXCEPT ![c].at = ph], switch[c].at \notin {"idle", "done"},
              ph \notin {"adding", "idle"},
              ph = "loading" => switch[c].at = "refreshing",
              ph = "refreshing" => switch[c].at = "loading"
       PROVE CallsGood'
  <2>1. /\ switch'[c].at = ph /\ switch'[c].to = switch[c].to
        /\ switch'[c].from = switch[c].from /\ switch'[c].got = switch[c].got
        /\ \A d \in Switches \ {c} : switch'[d] = switch[d]
    BY <1>a, <1>11, PhaseMoves
  <2>2. CallGood(c)'
    BY <1>b, <1>11, <2>1 DEF CallGood
  <2> QED  BY <1>e, <1>11, <2>1, <2>2
<1>12. ASSUME NEW c \in Switches, Created(c) PROVE CallsGood'
  BY <1>12, <1>11 DEF Created, Phases
<1>13. ASSUME NEW c \in Switches, Verified(c) PROVE CallsGood'
  BY <1>13, <1>11 DEF Verified, Phases
<1>14. ASSUME NEW c \in Switches, Refused(c) PROVE CallsGood'
  <2>1. switch'[c].at = "done" /\ \A d \in Switches \ {c} : switch'[d] = switch[d]
    BY <1>14, <1>a, EndMoves DEF Refused
  <2> QED  BY <1>14, <2>1, <1>e DEF Refused, CallGood
<1>15. ASSUME NEW c \in Switches, Marked(c) PROVE CallsGood'
  BY <1>15, <1>11 DEF Marked, Phases
<1>16. ASSUME NEW c \in Switches, SettingsRead(c) PROVE CallsGood'
  <2>1. open \in Profiles /\ boot = "up" /\ switch[c].to \in Profiles
    BY <1>16 DEF SettingsRead, CallsGood, CallGood, Starting
  <2>2. Loaded(open) \in Settings
    BY <2>1, LoadedIsSettings
  <2>3. /\ switch'[c].at = "loading" /\ switch'[c].to = switch[c].to
        /\ switch'[c].from = open /\ switch'[c].got = Loaded(open)
        /\ \A d \in Switches \ {c} : switch'[d] = switch[d]
    BY <1>16, <2>1, ReadMoves
  <2>4. boot' = boot  BY <1>16 DEF SettingsRead
  <2>5. CallGood(c)'  BY <2>1, <2>2, <2>3, <2>4 DEF CallGood
  <2> QED  BY <2>3, <2>4, <2>5, <1>e
<1>17. ASSUME NEW c \in Switches, Reloaded(c) PROVE CallsGood'
  BY <1>17, <1>11 DEF Reloaded, Phases
<1>18. ASSUME NEW c \in Switches, Refreshed(c) PROVE CallsGood'
  <2> DEFINE m == [switch EXCEPT ![c] = Ended(c)]
  <2>1. /\ m \in [Switches -> Call] /\ m[c].at = "done"
        /\ \A d \in Switches \ {c} : m[d] = switch[d]
    BY <1>a, EndMoves
  <2>2. PICK closed : switch' = Unmounted(m, closed)
    BY <1>18 DEF Refreshed
  <2> HIDE DEF m
  <2>3. \A d \in Switches : /\ switch'[d].at = m[d].at /\ switch'[d].to = m[d].to
                            /\ switch'[d].from = m[d].from /\ switch'[d].got = m[d].got
    BY <2>1, <2>2, UnmountMoves
  <2>4. boot' = boot  BY <1>18 DEF Refreshed
  <2> SUFFICES ASSUME NEW d \in Switches PROVE CallGood(d)'
    BY <1>c
  <2>5. CASE d = c  BY <2>1, <2>3, <2>5 DEF CallGood
  <2>6. CASE d # c  BY <1>b, <2>1, <2>3, <2>4, <2>6 DEF CallGood
  <2> QED  BY <2>5, <2>6
<1>19. ASSUME NEW c \in Switches, Rejected(c) PROVE CallsGood'
  <2>1. /\ switch'[c].at = "failed" /\ switch'[c].to = switch[c].to
        /\ \A d \in Switches \ {c} : switch'[d] = switch[d]
    BY <1>19, <1>a, FailMoves DEF Rejected
  <2>2. switch[c].at \notin {"idle", "done"} /\ boot' = boot
    BY <1>19 DEF Rejected
  <2>3. CallGood(c)'  BY <1>b, <2>1, <2>2 DEF CallGood
  <2> QED  BY <2>1, <2>2, <2>3, <1>e
<1>20. ASSUME NEW e \in Edits, NEW m \in Modes, updateSettings(e, m) PROVE CallsGood'
  BY <1>20, <1>d DEF updateSettings
<1>21. ASSUME NEW e \in Edits, PickImage(e) PROVE CallsGood'
  BY <1>21, <1>d DEF PickImage
<1>22. ASSUME NEW e \in Edits, Decoded(e) PROVE CallsGood'
  BY <1>22, <1>d DEF Decoded
<1>23. ASSUME NEW e \in Edits, Saved(e) PROVE CallsGood'
  BY <1>23, <1>d DEF Saved
<1>24. ASSUME NEW e \in Edits, SaveCut(e) PROVE CallsGood'
  BY <1>24, <1>d DEF SaveCut
<1>25. ASSUME NEW e \in Edits, Synced(e) PROVE CallsGood'
  BY <1>25, <1>d DEF Synced
<1> QED
  BY <1>1, <1>2, <1>3, <1>4, <1>5, <1>6, <1>7, <1>8, <1>9, <1>10, <1>12, <1>13,
     <1>14, <1>15, <1>16, <1>17, <1>18, <1>19, <1>20, <1>21, <1>22, <1>23, <1>24, <1>25 DEF Next

-----------------------------------------------------------------------------
LEMMA EditsStep ==
  ASSUME TypeOK, CallsGood, EditsGood, InOrder, Starting, Next
  PROVE  EditsGood' /\ InOrder'
<1>a. edit \in [Edits -> Save]
  BY DEF TypeOK
<1>b. (\A e \in Edits : EditGood(e)) /\ (\A d, e \in Edits : Ordered(d, e))
  BY DEF EditsGood, EditGood, InOrder, Ordered, Saving
<1>c. (\A e \in Edits : EditGood(e)') /\ (\A d, e \in Edits : Ordered(d, e)')
        => EditsGood' /\ InOrder'
  BY DEF EditsGood, EditGood, InOrder, Ordered, Saving
<1>d. ASSUME edit' = edit, open' = open, boot' = boot
      PROVE  EditsGood' /\ InOrder'
  BY <1>b, <1>c, <1>d DEF EditGood, Ordered
<1>e. ASSUME edit' = edit, boot # "up"
      PROVE  EditsGood' /\ InOrder'
  BY <1>b, <1>c, <1>e DEF EditGood, Ordered
<1>f. ASSUME NEW e \in Edits, edit'[e].at = "done", \A d \in Edits \ {e} : edit'[d] = edit[d],
             open' = open, boot' = boot
      PROVE  EditsGood' /\ InOrder'
  <2>1. ASSUME NEW f \in Edits PROVE EditGood(f)'
    <3>1. CASE f = e  BY <3>1, <1>f DEF EditGood
    <3>2. CASE f # e
      <4>1. edit'[f] = edit[f] /\ EditGood(f)  BY <3>2, <1>b, <1>f
      <4>2. \A d \in Edits : edit[d].at \notin {"idle", "decoding"}
                               => edit'[d].at \notin {"idle", "decoding"}
        BY <1>f
      <4>3. edit[f].after \subseteq Edits  BY <1>a DEF Save
      <4> QED  BY <4>1, <4>2, <4>3, <1>f DEF EditGood
    <3> QED  BY <3>1, <3>2
  <2>2. ASSUME NEW d \in Edits, NEW f \in Edits PROVE Ordered(d, f)'
    BY <1>b, <1>f DEF Ordered
  <2> QED  BY <2>1, <2>2, <1>c
<1>g. ASSUME NEW e \in Edits, NEW next \in Settings, Apply(e, next), boot = "up",
             edit[e].at \in {"idle", "decoding"}, open' = open, boot' = boot
      PROVE  EditsGood' /\ InOrder'
  <2>1. open \in Profiles
    BY <1>g DEF Starting
  <2>2. /\ edit'[e].at = "saving" /\ edit'[e].next = next /\ edit'[e].to = open
        /\ edit'[e].after = {d \in Edits : Saving(d)}
        /\ \A d \in Edits \ {e} : edit'[d] = edit[d]
    BY <1>g, <2>1, ApplyMoves
  <2>3. ASSUME NEW f \in Edits PROVE EditGood(f)'
    <3>1. CASE f = e
      <4>1. \A d \in edit'[e].after : edit'[d].at = "saving"
        BY <2>2, <1>g DEF Saving
      <4> QED  BY <3>1, <4>1, <2>2, <1>g DEF EditGood
    <3>2. CASE f # e
      <4>1. edit'[f] = edit[f] /\ EditGood(f)  BY <3>2, <1>b, <2>2
      <4>2. \A d \in Edits : edit[d].at \notin {"idle", "decoding"}
                               => edit'[d].at \notin {"idle", "decoding"}
        BY <2>2
      <4>3. edit[f].after \subseteq Edits  BY <1>a DEF Save
      <4> QED  BY <4>1, <4>2, <4>3, <1>g DEF EditGood
    <3> QED  BY <3>1, <3>2
  <2>4. ASSUME NEW d \in Edits, NEW f \in Edits PROVE Ordered(d, f)'
    BY <1>b, <2>2 DEF Ordered, Saving
  <2> QED  BY <2>3, <2>4, <1>c
<1>1. ASSUME Restart PROVE EditsGood' /\ InOrder'
  <2>1. \A e \in Edits : edit'[e].at \in {"idle", "done"}
    BY <1>1 DEF Restart, NoEdit
  <2> QED  BY <2>1, <1>c DEF EditGood, Ordered
<1>2. ASSUME Hydrate PROVE EditsGood' /\ InOrder'
  BY <1>2, <1>e DEF Hydrate
<1>3. ASSUME LaunchChoice PROVE EditsGood' /\ InOrder'
  BY <1>3, <1>d DEF LaunchChoice
<1>4. ASSUME OpenPicker PROVE EditsGood' /\ InOrder'
  BY <1>4, <1>d DEF OpenPicker
<1>5. ASSUME CancelPicker PROVE EditsGood' /\ InOrder'
  BY <1>5, <1>d DEF CancelPicker
<1>6. ASSUME NEW p \in Profiles, ResolveProfile(p) PROVE EditsGood' /\ InOrder'
  BY <1>6, <1>e DEF ResolveProfile
<1>7. ASSUME NEW p \in Profiles, ResolveFails(p) PROVE EditsGood' /\ InOrder'
  BY <1>7, <1>e DEF ResolveFails
<1>8. ASSUME NEW p \in Profiles, deleteProfile(p) PROVE EditsGood' /\ InOrder'
  BY <1>8, <1>d DEF deleteProfile
<1>9. ASSUME NEW c \in Switches, NEW p \in Profiles, NEW via \in {"lock", "launch", "switch"},
             Choose(c, p, via) \/ CreateAndEnter(c, p, via)
      PROVE EditsGood' /\ InOrder'
  BY <1>9, <1>d DEF Choose, CreateAndEnter
<1>10. ASSUME NEW c \in Switches, Created(c) PROVE EditsGood' /\ InOrder'
  BY <1>10, <1>d DEF Created
<1>11. ASSUME NEW c \in Switches, Verified(c) PROVE EditsGood' /\ InOrder'
  <2>1. boot' = boot /\ boot = "up" /\ open' = switch[c].to
    BY <1>11 DEF Verified, swapLocalProfileStore, CallsGood, CallGood
  <2>2. CASE switch[c].to = open
    BY <1>11, <2>1, <2>2, <1>d DEF Verified, swapLocalProfileStore
  <2>3. CASE switch[c].to # open
    <3>1. edit' = [e \in Edits |-> IF Saving(e) THEN [edit[e] EXCEPT !.at = "cut"] ELSE edit[e]]
      BY <1>11, <2>3 DEF Verified, swapLocalProfileStore
    <3>2. ASSUME NEW e \in Edits
          PROVE  /\ edit'[e].next = edit[e].next
                 /\ edit'[e].at = IF edit[e].at = "saving" THEN "cut" ELSE edit[e].at
      <4>1. edit[e] \in Save  BY <1>a
      <4> QED  BY <3>1, <4>1 DEF Saving, Save
    <3>3. ASSUME NEW e \in Edits PROVE EditGood(e)'
      BY <1>b, <2>1, <3>2 DEF EditGood
    <3>4. ASSUME NEW d \in Edits, NEW e \in Edits PROVE Ordered(d, e)'
      BY <3>2 DEF Ordered
    <3> QED  BY <3>3, <3>4, <1>c
  <2> QED  BY <2>2, <2>3
<1>12. ASSUME NEW c \in Switches, Refused(c) PROVE EditsGood' /\ InOrder'
  BY <1>12, <1>d DEF Refused
<1>13. ASSUME NEW c \in Switches, Marked(c) PROVE EditsGood' /\ InOrder'
  BY <1>13, <1>d DEF Marked
<1>14. ASSUME NEW c \in Switches, SettingsRead(c) PROVE EditsGood' /\ InOrder'
  BY <1>14, <1>d DEF SettingsRead
<1>15. ASSUME NEW c \in Switches, Reloaded(c) PROVE EditsGood' /\ InOrder'
  BY <1>15, <1>d DEF Reloaded
<1>16. ASSUME NEW c \in Switches, Refreshed(c) PROVE EditsGood' /\ InOrder'
  BY <1>16, <1>d DEF Refreshed
<1>17. ASSUME NEW c \in Switches, Rejected(c) PROVE EditsGood' /\ InOrder'
  BY <1>17, <1>d DEF Rejected
<1>18. ASSUME NEW e \in Edits, NEW m \in Modes, updateSettings(e, m)
       PROVE  EditsGood' /\ InOrder'
  <2>1. [settings EXCEPT !.mode = m] \in Settings
    BY DEF TypeOK, Settings
  <2> QED  BY <1>18, <1>g, <2>1 DEF updateSettings
<1>19. ASSUME NEW e \in Edits, PickImage(e) PROVE EditsGood' /\ InOrder'
  <2>1. /\ edit'[e].at = "decoding" /\ edit'[e].next = settings /\ settings \in Settings
        /\ \A d \in Edits \ {e} : edit'[d] = edit[d]
    BY <1>19, PickMoves DEF TypeOK
  <2>2. boot = "up" /\ boot' = boot /\ open' = open /\ edit[e].at = "idle"
    BY <1>19 DEF PickImage
  <2>3. ASSUME NEW f \in Edits PROVE EditGood(f)'
    <3>1. CASE f = e  BY <3>1, <2>1, <2>2 DEF EditGood
    <3>2. CASE f # e
      <4>1. edit'[f] = edit[f] /\ EditGood(f)  BY <3>2, <1>b, <2>1
      <4>2. \A d \in Edits : edit[d].at \notin {"idle", "decoding"}
                               => edit'[d].at \notin {"idle", "decoding"}
        BY <2>1, <2>2
      <4>3. edit[f].after \subseteq Edits  BY <1>a DEF Save
      <4> QED  BY <4>1, <4>2, <4>3, <2>2 DEF EditGood
    <3> QED  BY <3>1, <3>2
  <2>4. ASSUME NEW d \in Edits, NEW f \in Edits PROVE Ordered(d, f)'
    BY <1>b, <2>1 DEF Ordered
  <2> QED  BY <2>3, <2>4, <1>c
<1>20. ASSUME NEW e \in Edits, Decoded(e) PROVE EditsGood' /\ InOrder'
  <2>1. edit[e].next \in Settings /\ boot = "up"
    BY <1>20, <1>b DEF Decoded, EditGood
  <2> QED  BY <1>20, <1>g, <2>1 DEF Decoded
<1>21. ASSUME NEW e \in Edits, Saved(e) PROVE EditsGood' /\ InOrder'
  BY <1>21, <1>a, <1>f, SaveEnds DEF Saved
<1>22. ASSUME NEW e \in Edits, SaveCut(e) PROVE EditsGood' /\ InOrder'
  BY <1>22, <1>a, <1>f, SaveEnds DEF SaveCut
<1>23. ASSUME NEW e \in Edits, Synced(e) PROVE EditsGood' /\ InOrder'
  BY <1>23, <1>d DEF Synced
<1> QED
  BY <1>1, <1>2, <1>3, <1>4, <1>5, <1>6, <1>7, <1>8, <1>9, <1>10, <1>11, <1>12, <1>13,
     <1>14, <1>15, <1>16, <1>17, <1>18, <1>19, <1>20, <1>21, <1>22, <1>23 DEF Next

\* Once the page is up, no step but a reload takes it down; until then nobody
\* but the hydration touches what it is to show.
LEMMA StartStep ==
  ASSUME Typed, Next
  PROVE  Starting'
<1> USE DEF registry, people, shown, pickers
<1>a. ASSUME boot = "up", boot' = "up", open' \in Profiles PROVE Starting'
  BY <1>a DEF Starting
<1>b. boot = "up" => open \in Profiles
  BY DEF Typed, Starting
<1>c. /\ \A c \in Switches : switch[c].at \notin {"idle", "done"} =>
           boot = "up" /\ switch[c].to \in Profiles
      /\ syncing # {} => boot = "up"
      /\ \A e \in Edits : edit[e].at \in {"decoding", "saving", "cut"} => boot = "up"
  BY DEF Typed, CallsGood, CallGood, EditsGood, EditGood
<1>d. ASSUME UNCHANGED <<boot, open, active, listed, alone, activeId, records>>
      PROVE  Starting'
  BY <1>d DEF Typed, Starting
<1>1. CASE Restart
  BY <1>1 DEF Restart, Starting
<1>2. CASE Hydrate
  BY <1>2 DEF Hydrate, Typed, Starting
<1>3. CASE LaunchChoice
  BY <1>3, <1>a, <1>b DEF LaunchChoice
<1>4. CASE OpenPicker
  BY <1>4, <1>d DEF OpenPicker
<1>5. CASE CancelPicker
  BY <1>5, <1>d DEF CancelPicker
<1>6. ASSUME NEW p \in Profiles, ResolveProfile(p) PROVE Starting'
  <2>1. alone => p = activeId /\ p \in records
    BY <1>6 DEF ResolveProfile, StartProfiles, Typed, Starting
  <2> QED  BY <1>6, <2>1 DEF ResolveProfile, Starting
<1>7. ASSUME NEW p \in Profiles, ResolveFails(p) PROVE Starting'
  <2>1. alone => p = activeId /\ p \in records
    BY <1>7 DEF ResolveFails, StartProfiles, Typed, Starting
  <2>2. active = None /\ listed = {}
    BY <1>7 DEF ResolveFails, Typed, Starting
  <2> QED  BY <1>7, <2>1, <2>2 DEF ResolveFails, Starting
<1>8. ASSUME NEW p \in Profiles, deleteProfile(p) PROVE Starting'
  BY <1>8, <1>a, <1>b DEF deleteProfile
<1>9. ASSUME NEW c \in Switches, NEW p \in Profiles, NEW via \in {"lock", "launch", "switch"},
             Choose(c, p, via) \/ CreateAndEnter(c, p, via)
      PROVE Starting'
  BY <1>9, <1>a, <1>b DEF Choose, CreateAndEnter, Begin
<1>10. ASSUME NEW c \in Switches, Created(c) PROVE Starting'
  BY <1>10, <1>a, <1>b, <1>c DEF Created
<1>11. ASSUME NEW c \in Switches, Verified(c) PROVE Starting'
  BY <1>11, <1>a, <1>b, <1>c DEF Verified, swapLocalProfileStore
<1>12. ASSUME NEW c \in Switches, Refused(c) PROVE Starting'
  BY <1>12, <1>a, <1>b, <1>c DEF Refused
<1>13. ASSUME NEW c \in Switches, Marked(c) PROVE Starting'
  BY <1>13, <1>a, <1>b, <1>c DEF Marked
<1>14. ASSUME NEW c \in Switches, SettingsRead(c) PROVE Starting'
  BY <1>14, <1>a, <1>b, <1>c DEF SettingsRead
<1>15. ASSUME NEW c \in Switches, Reloaded(c) PROVE Starting'
  BY <1>15, <1>a, <1>b, <1>c DEF Reloaded
<1>16. ASSUME NEW c \in Switches, Refreshed(c) PROVE Starting'
  BY <1>16, <1>a, <1>b, <1>c DEF Refreshed
<1>17. ASSUME NEW c \in Switches, Rejected(c) PROVE Starting'
  BY <1>17, <1>a, <1>b, <1>c DEF Rejected
<1>18. ASSUME NEW e \in Edits, NEW m \in Modes, updateSettings(e, m) PROVE Starting'
  BY <1>18, <1>a, <1>b DEF updateSettings
<1>19. ASSUME NEW e \in Edits, PickImage(e) PROVE Starting'
  BY <1>19, <1>a, <1>b DEF PickImage
<1>20. ASSUME NEW e \in Edits, Decoded(e) PROVE Starting'
  BY <1>20, <1>a, <1>b, <1>c DEF Decoded
<1>21. ASSUME NEW e \in Edits, Saved(e) PROVE Starting'
  BY <1>21, <1>a, <1>b, <1>c DEF Saved, Saving
<1>22. ASSUME NEW e \in Edits, SaveCut(e) PROVE Starting'
  BY <1>22, <1>a, <1>b, <1>c DEF SaveCut
<1>23. ASSUME NEW e \in Edits, Synced(e) PROVE Starting'
  BY <1>23, <1>a, <1>b, <1>c DEF Synced
<1> QED
  BY <1>1, <1>2, <1>3, <1>4, <1>5, <1>6, <1>7, <1>8, <1>9, <1>10, <1>11, <1>12, <1>13,
     <1>14, <1>15, <1>16, <1>17, <1>18, <1>19, <1>20, <1>21, <1>22, <1>23 DEF Next

\* Only where the page is up is anything synced.
LEMMA SyncingStep ==
  ASSUME Typed, Next, syncing' # {}
  PROVE  boot' = "up"
<1>1. syncing # {} => boot = "up"
  BY DEF Typed
<1>2. CASE Restart \/ Hydrate
  BY <1>1, <1>2 DEF Restart, Hydrate
<1>3. CASE \E e \in Edits : PickImage(e)
  BY <1>3 DEF PickImage
<1>4. ASSUME NEW p \in Profiles, ResolveProfile(p) \/ ResolveFails(p) PROVE FALSE
  BY <1>1, <1>4 DEF ResolveProfile, ResolveFails
<1>5. CASE LaunchChoice \/ OpenPicker \/ CancelPicker \/ \E p \in Profiles : deleteProfile(p)
  BY <1>1, <1>5 DEF LaunchChoice, OpenPicker, CancelPicker, deleteProfile
<1>6. ASSUME NEW c \in Switches, NEW p \in Profiles, NEW via \in {"lock", "launch", "switch"},
             Choose(c, p, via) \/ CreateAndEnter(c, p, via)
      PROVE  boot' = "up"
  BY <1>1, <1>6 DEF Choose, CreateAndEnter
<1>7. ASSUME NEW c \in Switches,
             \/ Created(c) \/ Verified(c) \/ Refused(c) \/ Marked(c)
             \/ SettingsRead(c) \/ Reloaded(c) \/ Refreshed(c) \/ Rejected(c)
      PROVE  boot' = "up"
  BY <1>1, <1>7 DEF Created, Verified, Refused, Marked, SettingsRead, Reloaded, Refreshed, Rejected
<1>8. ASSUME NEW e \in Edits, NEW m \in Modes, updateSettings(e, m) PROVE boot' = "up"
  BY <1>1, <1>8 DEF updateSettings
<1>9. ASSUME NEW e \in Edits, Decoded(e) \/ Synced(e) \/ Saved(e) \/ SaveCut(e)
      PROVE  boot' = "up"
  BY <1>1, <1>9 DEF Decoded, Synced, Saved, SaveCut
<1> QED  BY <1>2, <1>3, <1>4, <1>5, <1>6, <1>7, <1>8, <1>9 DEF Next

LEMMA TypedStep ==
  ASSUME Typed, [Next]_vars
  PROVE  Typed'
<1>1. CASE Next
  <2>1. syncing' # {} => boot' = "up"
    BY <1>1, SyncingStep
  <2> QED  BY <1>1, <2>1, TypeStep, CallsStep, EditsStep, StartStep DEF Typed
<1>2. CASE UNCHANGED vars
  BY <1>2 DEF Typed, vars, registry, people, shown, pickers, TypeOK, CallsGood, CallGood, EditsGood, EditGood,
              InOrder, Ordered, Starting, Saving
<1> QED  BY <1>1, <1>2

LEMMA TypedInit == Init => Typed
<1> SUFFICES ASSUME Init PROVE Typed
  OBVIOUS
<1>1. NoSwitch \in Call /\ NoEdit \in Save
  BY DEF NoSwitch, NoEdit, Call, Save, Phases, Stages, Vias
<1>2. Installed \subseteq Profiles
  BY ProfilesAssumption
<1>3. /\ db \in [Profiles -> Settings \cup {None}]
      /\ \A p \in Installed : db[p] \in Settings
  BY <1>2 DEF Init, Settings, Modes
<1>4. cache \in Settings
  BY <1>3 DEF Init
<1>5. Bootstrap(cache) \in Settings /\ Bootstrap(cache).mode \in Modes
  BY <1>4, NoneAssumption DEF Bootstrap, Settings
<1>6. TypeOK
  BY <1>1, <1>2, <1>3, <1>4, <1>5 DEF Init, TypeOK
<1>7. (\A c \in Switches : switch[c].at = "idle" /\ switch[c].to = None) /\ (\A e \in Edits : edit[e].at = "idle")
  BY DEF Init, NoSwitch, NoEdit
<1> QED  BY <1>6, <1>7 DEF Typed, CallsGood, CallGood, EditsGood, EditGood, InOrder, Ordered, Starting, Saving, Init

-----------------------------------------------------------------------------
(* One switch at a time. *)

LEMMA InPhase ==
  /\ \A c \in Switches : Swapping(c) <=> switch[c].at \in SwapPhases
  /\ \A c \in Switches : InFlight(c) <=> switch[c].at \in FlightPhases
BY DEF Swapping, InFlight, SwapPhases, FlightPhases

\* A step in which no call, edit or deletion meets another starts no call that
\* is not alone.
LEMMA OneAtATimeStep ==
  ASSUME Typed, OneAtATime, [Next]_vars
  PROVE  OneAtATime'
<1> USE DEF registry, people, shown, pickers
<1>a. /\ switch \in [Switches -> Call]
      /\ OneAtATime <=> (alone => \A c, d \in Switches : switch[c].at \in FlightPhases
                                        /\ switch[d].at \in FlightPhases => c = d)
  BY InPhase DEF Typed, TypeOK, OneAtATime
<1>b. (alone' => \A c, d \in Switches : switch'[c].at \in FlightPhases
                                        /\ switch'[d].at \in FlightPhases => c = d)
        => OneAtATime'
  BY DEF OneAtATime, InFlight, Swapping, SwapPhases, FlightPhases
<1>c. ASSUME alone' => alone,
             \A c \in Switches : switch'[c].at \in FlightPhases => switch[c].at \in FlightPhases
      PROVE  OneAtATime'
  BY <1>a, <1>b, <1>c
<1>d. ASSUME NEW c \in Switches, NEW p \in Profiles, NEW via \in Vias,
             NEW ph \in {"looking", "adding"}, Begin(c, p, via, ph)
      PROVE  OneAtATime'
  <2>1. "looking" \in Phases /\ "adding" \in Phases /\ p \in Profiles \cup {None}
    BY DEF Phases
  <2>2. \A d \in Switches \ {c} : switch'[d] = switch[d]
    BY <1>a, <1>d, <2>1, NewCallMoves
  <2>3. alone' => \A d \in Switches : switch[d].at \notin FlightPhases
    BY <1>d, InPhase DEF Begin
  <2> QED  BY <2>2, <2>3, <1>b
<1>e. ASSUME NEW c \in Switches, NEW ph \in Phases, switch[c].at \in FlightPhases,
             switch' = [switch EXCEPT ![c].at = ph], alone' = alone
      PROVE  OneAtATime'
  <2>1. \A d \in Switches \ {c} : switch'[d] = switch[d]
    BY <1>a, <1>e, PhaseMoves
  <2> QED  BY <1>c, <1>e, <2>1
<1>1. CASE Restart
  <2>1. \A c \in Switches : switch'[c].at \in {"idle", "done"}
    BY <1>1 DEF Restart, NoSwitch
  <2> QED  BY <2>1, <1>c DEF SwapPhases, FlightPhases, OneAtATime, InFlight, Swapping
<1>2. CASE Hydrate
  BY <1>2, <1>c DEF Hydrate
<1>3. CASE LaunchChoice
  <2>1. ASSUME NEW c \in Switches, autoEnter \in listed, Begin(c, autoEnter, "auto", "looking")
        PROVE  OneAtATime'
    <3>1. autoEnter \in Profiles /\ "auto" \in Vias  BY <2>1 DEF Typed, TypeOK, Vias
    <3> QED  BY <2>1, <3>1, <1>d
  <2>2. ASSUME switch' = switch, alone' = alone PROVE OneAtATime'
    BY <2>2, <1>c
  <2> QED  BY <1>3, <2>1, <2>2 DEF LaunchChoice
<1>4. CASE OpenPicker
  BY <1>4, <1>c DEF OpenPicker
<1>5. CASE CancelPicker
  BY <1>5, <1>a, <1>c, UnmountMoves DEF CancelPicker
<1>6. ASSUME NEW p \in Profiles, ResolveProfile(p) \/ ResolveFails(p) PROVE OneAtATime'
  BY <1>6, <1>c DEF ResolveProfile, ResolveFails
<1>7. ASSUME NEW p \in Profiles, deleteProfile(p) PROVE OneAtATime'
  BY <1>7, <1>c DEF deleteProfile
<1>8. ASSUME NEW c \in Switches, NEW p \in Profiles, NEW via \in {"lock", "launch", "switch"},
             Choose(c, p, via) \/ CreateAndEnter(c, p, via)
      PROVE OneAtATime'
  <2>1. via \in Vias  BY DEF Vias
  <2> QED  BY <1>8, <2>1, <1>d DEF Choose, CreateAndEnter
<1>9. ASSUME NEW c \in Switches, Created(c) PROVE OneAtATime'
  BY <1>9, <1>e DEF Created, Phases, FlightPhases
<1>10. ASSUME NEW c \in Switches, Verified(c) PROVE OneAtATime'
  BY <1>10, <1>e DEF Verified, Phases, FlightPhases
<1>11. ASSUME NEW c \in Switches, Refused(c) PROVE OneAtATime'
  <2>1. switch'[c].at = "done" /\ \A d \in Switches \ {c} : switch'[d] = switch[d]
    BY <1>11, <1>a, EndMoves DEF Refused
  <2> QED  BY <1>11, <2>1, <1>c DEF Refused, FlightPhases, SwapPhases
<1>12. ASSUME NEW c \in Switches, Marked(c) PROVE OneAtATime'
  BY <1>12, <1>e DEF Marked, Phases, FlightPhases, SwapPhases
<1>13. ASSUME NEW c \in Switches, SettingsRead(c) PROVE OneAtATime'
  <2>1. open \in Profiles /\ TypeOK
    BY <1>13 DEF SettingsRead, Typed, CallsGood, CallGood, Starting
  <2>2. \A d \in Switches \ {c} : switch'[d] = switch[d]
    BY <1>13, <2>1, ReadMoves
  <2> QED  BY <1>13, <2>2, <1>c DEF SettingsRead, FlightPhases, SwapPhases
<1>14. ASSUME NEW c \in Switches, Reloaded(c) PROVE OneAtATime'
  BY <1>14, <1>e DEF Reloaded, Phases, FlightPhases, SwapPhases
<1>15. ASSUME NEW c \in Switches, Refreshed(c) PROVE OneAtATime'
  <2>1. \A d \in Switches : switch'[d].at = IF d = c THEN "done" ELSE switch[d].at
    <3> DEFINE m == [switch EXCEPT ![c] = Ended(c)]
    <3>1. /\ m \in [Switches -> Call] /\ m[c].at = "done"
          /\ \A d \in Switches \ {c} : m[d] = switch[d]
      BY <1>a, EndMoves
    <3>2. PICK closed : switch' = Unmounted(m, closed)
      BY <1>15 DEF Refreshed
    <3> HIDE DEF m
    <3> QED  BY <3>1, <3>2, UnmountMoves
  <2>2. "done" \notin FlightPhases  BY DEF FlightPhases, SwapPhases
  <2>3. alone' = alone  BY <1>15 DEF Refreshed
  <2> QED  BY <2>1, <2>2, <2>3, <1>c
<1>16. ASSUME NEW c \in Switches, Rejected(c) PROVE OneAtATime'
  <2>1. switch'[c].at = "failed" /\ \A d \in Switches \ {c} : switch'[d] = switch[d]
    BY <1>16, <1>a, FailMoves DEF Rejected
  <2>2. "failed" \notin FlightPhases  BY DEF FlightPhases, SwapPhases
  <2>3. alone' = alone  BY <1>16 DEF Rejected
  <2> QED  BY <2>1, <2>2, <2>3, <1>c
<1>17. ASSUME NEW e \in Edits, NEW m \in Modes, updateSettings(e, m) PROVE OneAtATime'
  BY <1>17, <1>c DEF updateSettings, Apply
<1>18. ASSUME NEW e \in Edits, PickImage(e) \/ Synced(e) \/ Saved(e) \/ SaveCut(e)
       PROVE OneAtATime'
  BY <1>18, <1>c DEF PickImage, Synced, Saved, SaveCut
<1>19. ASSUME NEW e \in Edits, Decoded(e) PROVE OneAtATime'
  BY <1>19, <1>c DEF Decoded, Apply
<1>20. CASE UNCHANGED vars
  BY <1>20, <1>c DEF vars
<1> QED
  BY <1>1, <1>2, <1>3, <1>4, <1>5, <1>6, <1>7, <1>8, <1>9, <1>10, <1>11, <1>12, <1>13,
     <1>14, <1>15, <1>16, <1>17, <1>18, <1>19, <1>20 DEF Next

-----------------------------------------------------------------------------
(* The steps that neither switch nor save. *)

\* What the steps have in common that neither switch nor save anything.
Quiet ==
  /\ UNCHANGED <<records, activeId, db, boot, open, mode, settings, screen, active,
                 listed, unlocked>>
  /\ alone' => alone
  /\ \A c \in Switches : switch[c].at \in SwapPhases \/ switch'[c].at \in SwapPhases =>
       /\ switch'[c].at = switch[c].at /\ switch'[c].to = switch[c].to
       /\ switch'[c].from = switch[c].from /\ switch'[c].got = switch[c].got
  /\ \A c \in Switches : switch'[c].at = "failed" <=> switch[c].at = "failed"
  /\ Creating => Creating'
  /\ \A e \in Edits : edit[e].at = "saving" \/ edit'[e].at = "saving" => edit'[e] = edit[e]

LEMMA QuietStep ==
  ASSUME Typed, Rest, Quiet
  PROVE  Rest'
<1>a. /\ \A c \in Switches : Swapping(c)' <=> Swapping(c)
      /\ \A c \in Switches : Swapping(c) => /\ switch'[c].at = switch[c].at
                                            /\ switch'[c].to = switch[c].to
                                            /\ switch'[c].from = switch[c].from
                                            /\ switch'[c].got = switch[c].got
      /\ \A e \in Edits : Saving(e)' <=> Saving(e)
      /\ \A e \in Edits : Saving(e) => edit'[e] = edit[e]
      /\ Failed' <=> Failed
  BY DEF Quiet, Swapping, SwapPhases, Saving, Failed
<1>b. /\ UNCHANGED <<records, activeId, db, boot, open, mode, settings, screen, active,
                     listed, unlocked>>
      /\ alone' => alone
      /\ Creating => Creating'
  BY DEF Quiet
<1>1. PasswordsGiven'
  <2> SUFFICES ASSUME NEW c \in Switches
               PROVE  /\ Swapping(c)' => open' \notin Shut'
                      /\ switch'[c].at = "loading" => switch'[c].from \notin Shut'
                      /\ switch'[c].at = "refreshing" => screen' \notin Shut'
    BY DEF PasswordsGiven
  <2>1. Shut' = Shut  BY <1>b DEF Shut
  <2>2. /\ switch'[c].at = "loading" => switch[c].at = "loading" /\ switch'[c].from = switch[c].from
        /\ switch'[c].at = "refreshing" => switch[c].at = "refreshing"
    BY DEF Quiet, SwapPhases
  <2> QED  BY <1>a, <1>b, <2>1, <2>2 DEF Rest, PasswordsGiven
<1>2. LockTells'
  <2>1. Excluded => Excluded'
    BY <1>a, <1>b DEF Excluded
  <2>2. Shut' = Shut  BY <1>b DEF Shut
  <2> QED  BY <1>b, <2>1, <2>2 DEF Rest, LockTells
<1>3. Steady'
  <2> SUFFICES ASSUME alone', NEW c \in Switches, Swapping(c)'
               PROVE  /\ open' = switch'[c].to /\ open' \in records'
                      /\ switch'[c].at # "refreshing" => mode' = "offline"
                      /\ switch'[c].at # "opening" => activeId' = open'
                      /\ switch'[c].at \in {"loading", "refreshing"} =>
                           /\ switch'[c].from = open' /\ switch'[c].got = db'[open']
                           /\ ~\E e \in Edits : Saving(e)'
                      /\ switch'[c].at = "refreshing" =>
                           screen' = open' /\ settings' = db'[open'] /\ mode' = settings'.mode
    BY DEF Steady
  <2> QED  BY <1>a, <1>b DEF Rest, Steady
<1>4. Between' => Between
  BY <1>a, <1>b DEF Between
<1>5. StoreKept'
  <2> SUFFICES ASSUME Between' PROVE Kept' \/ (Failed' /\ mode' = "offline")
    BY DEF StoreKept
  <2>1. Kept \/ (Failed /\ mode = "offline")
    BY <1>4 DEF Rest, StoreKept
  <2>2. \A k \in Keys, e \in Edits : Last(k, e)' => Last(k, e)
    BY <1>a DEF Last
  <2>3. \A e \in Edits : \A k \in Keys : Last(k, e)' => Saving(e)
    BY <1>a DEF Last
  <2>4. Kept => Kept'
    BY <1>a, <1>b, <2>2, <2>3 DEF Kept
  <2> QED  BY <1>a, <1>b, <2>1, <2>4
<1>6. Settled'
  BY <1>a, <1>b, <1>4 DEF Rest, Settled
<1> QED  BY <1>1, <1>2, <1>3, <1>5, <1>6 DEF Rest

LEMMA QuietSteps ==
  ASSUME Typed, Rest,
         \/ LaunchChoice \/ OpenPicker \/ CancelPicker
         \/ \E c \in Switches : Refused(c)
         \/ \E c \in Switches, p \in Profiles, via \in {"lock", "launch", "switch"} :
              Choose(c, p, via) \/ CreateAndEnter(c, p, via)
         \/ \E e \in Edits : PickImage(e) \/ SaveCut(e)
         \/ UNCHANGED vars
  PROVE  Rest'
<1> USE DEF registry, people, shown, pickers
<1>a. switch \in [Switches -> Call] /\ edit \in [Edits -> Save]
  BY DEF Typed, TypeOK
<1>b. \A c \in Switches : switch[c].at = "idle" => switch[c].to = None
  BY DEF Typed, CallsGood, CallGood
<1>c. ASSUME NEW c \in Switches, NEW p \in Profiles, NEW via \in Vias,
             NEW ph \in {"looking", "adding"}, Begin(c, p, via, ph), edit' = edit,
             UNCHANGED <<records, activeId, db, boot, open, mode, settings, screen, active,
                         listed, unlocked>>
      PROVE  Quiet
  <2>1. "looking" \in Phases /\ "adding" \in Phases /\ p \in Profiles \cup {None}
    BY DEF Phases
  <2>2. switch'[c].at = ph /\ \A d \in Switches \ {c} : switch'[d] = switch[d]
    BY <1>a, <1>c, <2>1, NewCallMoves
  <2>3. switch[c].at = "idle" /\ switch[c].to = None /\ (alone' => alone)
    BY <1>b, <1>c DEF Begin
  <2>4. Creating => Creating'
    BY <2>2, <2>3 DEF Creating
  <2> QED  BY <1>c, <2>2, <2>3, <2>4 DEF Quiet, SwapPhases
<1>d. ASSUME \A c \in Switches : /\ switch'[c].at = switch[c].at /\ switch'[c].to = switch[c].to
                                 /\ switch'[c].from = switch[c].from
                                 /\ switch'[c].got = switch[c].got,
             \A e \in Edits : edit[e].at = "saving" \/ edit'[e].at = "saving" => edit'[e] = edit[e],
             UNCHANGED <<records, activeId, db, boot, open, mode, settings, screen, active,
                         listed, unlocked, alone>>
      PROVE  Quiet
  BY <1>d DEF Quiet, Creating
<1>1. CASE LaunchChoice
  <2>1. ASSUME NEW c \in Switches, autoEnter \in listed, Begin(c, autoEnter, "auto", "looking")
        PROVE  Quiet
    <3>1. autoEnter \in Profiles /\ "auto" \in Vias  BY <2>1 DEF Typed, TypeOK, Vias
    <3> QED  BY <1>1, <2>1, <3>1, <1>c DEF LaunchChoice
  <2>2. ASSUME switch' = switch, alone' = alone PROVE Quiet
    BY <1>1, <2>2, <1>d DEF LaunchChoice
  <2>3. Quiet  BY <1>1, <2>1, <2>2 DEF LaunchChoice
  <2> QED  BY <2>3, QuietStep
<1>2. CASE OpenPicker
  <2>1. Quiet  BY <1>2, <1>d DEF OpenPicker
  <2> QED  BY <2>1, QuietStep
<1>3. CASE CancelPicker
  <2>1. \A c \in Switches : /\ switch'[c].at = switch[c].at /\ switch'[c].to = switch[c].to
                            /\ switch'[c].from = switch[c].from
                            /\ switch'[c].got = switch[c].got
    BY <1>3, <1>a, UnmountMoves DEF CancelPicker
  <2>2. Quiet  BY <1>3, <2>1, <1>d DEF CancelPicker
  <2> QED  BY <2>2, QuietStep
<1>4. ASSUME NEW c \in Switches, Refused(c) PROVE Rest'
  <2>1. /\ switch'[c].at = "done" /\ switch'[c].to = switch[c].to
        /\ \A d \in Switches \ {c} : switch'[d] = switch[d]
    BY <1>4, <1>a, EndMoves DEF Refused
  <2>2. Creating => Creating'
    BY <2>1 DEF Creating
  <2>3. Quiet  BY <1>4, <2>1, <2>2 DEF Quiet, Refused, SwapPhases
  <2> QED  BY <2>3, QuietStep
<1>5. ASSUME NEW c \in Switches, NEW p \in Profiles, NEW via \in {"lock", "launch", "switch"},
             Choose(c, p, via) \/ CreateAndEnter(c, p, via)
      PROVE Rest'
  <2>1. via \in Vias  BY DEF Vias
  <2>2. Quiet  BY <1>5, <2>1, <1>c DEF Choose, CreateAndEnter
  <2> QED  BY <2>2, QuietStep
<1>6. ASSUME NEW e \in Edits, PickImage(e) PROVE Rest'
  <2>1. edit'[e].at = "decoding" /\ \A d \in Edits \ {e} : edit'[d] = edit[d]
    BY <1>6, PickMoves DEF Typed
  <2>2. Quiet  BY <1>6, <2>1, <1>d DEF PickImage
  <2> QED  BY <2>2, QuietStep
<1>7. ASSUME NEW e \in Edits, SaveCut(e) PROVE Rest'
  <2>1. edit'[e].at = "done" /\ \A d \in Edits \ {e} : edit'[d] = edit[d]
    BY <1>7, <1>a, SaveEnds DEF SaveCut
  <2>2. Quiet  BY <1>7, <2>1, <1>d DEF SaveCut
  <2> QED  BY <2>2, QuietStep
<1>8. CASE UNCHANGED vars
  <2>1. Quiet  BY <1>8, <1>d DEF vars
  <2> QED  BY <2>1, QuietStep
<1> QED  BY <1>1, <1>2, <1>3, <1>4, <1>5, <1>6, <1>7, <1>8

-----------------------------------------------------------------------------
(* The steps of a switch, of the hydration and of a deletion. *)

\* The page is down: nobody switches, and the hydration puts it back.
LEMMA DownStep ==
  ASSUME Typed', boot' # "up"
  PROVE  Rest'
<1>1. \A c \in Switches : switch'[c].at \in {"idle", "done"}
  BY DEF Typed, CallsGood, CallGood
<1>2. PasswordsGiven'  BY <1>1 DEF PasswordsGiven, Swapping
<1>3. LockTells'  BY DEF LockTells
<1>4. Steady'  BY <1>1 DEF Steady, Swapping
<1>5. StoreKept' /\ Settled'  BY DEF StoreKept, Settled, Between
<1> QED  BY <1>2, <1>3, <1>4, <1>5 DEF Rest

LEMMA HydrateStep ==
  ASSUME Typed, Hydrate
  PROVE  Rest'
<1> USE DEF registry, people, shown, pickers
<1>1. /\ \A c \in Switches : switch'[c].at \in {"idle", "done"}
      /\ \A e \in Edits : edit'[e].at # "saving"
  BY DEF Typed, CallsGood, CallGood, EditsGood, EditGood, Hydrate
<1>2. PasswordsGiven'  BY <1>1 DEF PasswordsGiven, Swapping
<1>3. Steady'  BY <1>1 DEF Steady, Swapping
<1>4. /\ screen' = open /\ open' = open /\ boot' = "up" /\ active' = active /\ listed' = listed
      /\ alone' = alone /\ activeId' = activeId /\ records' = records
      /\ settings' = Loaded(open) /\ mode' = Loaded(open).mode
  BY DEF Hydrate
<1>5. /\ active = open \/ (active = None /\ listed = {})
      /\ alone => activeId = open /\ open \in records
      /\ open \in Profiles
  BY DEF Typed, Starting, Hydrate
<1>6. LockTells'  BY <1>4, <1>5 DEF LockTells
<1>7. db'[open] = Loaded(open) /\ db'[open] \in Settings
  BY <1>5, LoadTypes DEF Hydrate, Typed
<1>8. Kept'
  BY <1>1, <1>4, <1>7 DEF Kept, Saving, Last
<1>9. StoreKept' /\ Settled'
  BY <1>4, <1>5, <1>8 DEF StoreKept, Settled, Between
<1> QED  BY <1>2, <1>3, <1>6, <1>9 DEF Rest

\* A profile other than the active one goes: what was agreed on stays.
LEMMA DeleteStep ==
  ASSUME Typed, Rest, NEW p \in Profiles, deleteProfile(p)
  PROVE  Rest'
<1> USE DEF registry, people, shown, pickers
<1>1. /\ UNCHANGED <<activeId, db, boot, open, mode, settings, screen, unlocked, switch, edit>>
      /\ records' = records \ {p} /\ listed # {} /\ p # active /\ ~Locked
      /\ active' = IF activeId \in records' THEN activeId ELSE None
      /\ alone' => alone
      /\ alone' => \A c \in Switches : ~InFlight(c) /\ switch[c].at # "failed"
  BY DEF deleteProfile, refreshProfiles, Modal
<1>2. PasswordsGiven'
  BY <1>1 DEF Rest, PasswordsGiven, Swapping, Shut
<1>3. LockTells'
  <2>1. Excluded => Excluded'
    BY <1>1 DEF Excluded, Failed, Creating
  <2>2. ~(boot = "up" /\ screen \in Shut /\ ~Excluded)
    BY <1>1 DEF Rest, LockTells, Locked, Shut
  <2> QED  BY <1>1, <2>1, <2>2 DEF LockTells, Shut
<1>4. Steady'
  BY <1>1, InPhase DEF Steady, InFlight, Swapping
<1>5. Between' => Between
  BY <1>1 DEF Between, Swapping
<1>6. StoreKept'
  BY <1>1, <1>5 DEF Rest, StoreKept, Kept, Failed, Last, Saving
<1>7. Settled'
  BY <1>1, <1>5 DEF Rest, Settled, Failed
<1> QED  BY <1>2, <1>3, <1>4, <1>6, <1>7 DEF Rest

\* The page learns of a profile it made: it was alone, so the registry still
\* names the profile that is shown.
LEMMA CreatedStep ==
  ASSUME Typed, OneAtATime, Rest, NEW c \in Switches, Created(c)
  PROVE  Rest'
<1> USE DEF registry, people, shown, pickers
<1>1. /\ UNCHANGED <<activeId, db, boot, open, mode, settings, screen, unlocked, edit, alone>>
      /\ records' = records \cup {switch[c].to}
      /\ active' = IF activeId \in records' THEN activeId ELSE None
      /\ switch[c].at = "adding" /\ switch[c].to \in Profiles \ Installed
  BY DEF Created, refreshProfiles, Typed, CallsGood, CallGood
<1>2. /\ switch'[c].at = "looking" /\ switch'[c].to = switch[c].to
      /\ \A d \in Switches \ {c} : switch'[d] = switch[d]
  BY PhaseMoves DEF Created, Phases, Typed, TypeOK
<1>3. (Failed' <=> Failed) /\ (Between' <=> Between) /\ Creating' /\ Creating
  <2>1. switch[c].to # None  BY <1>1, ProfilesAssumption
  <2> QED  BY <1>1, <1>2, <2>1 DEF Failed, Between, Swapping, Creating
<1>4. alone => ~\E d \in Switches : Swapping(d)
  BY <1>1 DEF OneAtATime, InFlight, Swapping
<1>5. PasswordsGiven'
  BY <1>1, <1>2 DEF Rest, PasswordsGiven, Swapping, Shut
<1>6. LockTells'
  <2> SUFFICES ASSUME boot = "up", ~Excluded' PROVE active' = screen
    BY <1>1 DEF LockTells
  <2>1. Between /\ ~Failed
    BY <1>1, <1>3, <1>4 DEF Excluded, Between
  <2> QED  BY <1>1, <2>1 DEF Rest, Settled
<1>7. Steady'
  BY <1>1, <1>2, <1>4 DEF Steady, Swapping
<1>8. StoreKept'
  BY <1>1, <1>3 DEF Rest, StoreKept, Kept, Last, Saving
<1>9. Settled'
  BY <1>1, <1>3 DEF Rest, Settled
<1> QED  BY <1>5, <1>6, <1>7, <1>8, <1>9 DEF Rest

\* A call that is alone is the only one in flight, so only it is to be steady.
LEMMA AloneSteady ==
  ASSUME OneAtATime, NEW c \in Switches, InFlight(c), alone,
         \A d \in Switches \ {c} : switch'[d] = switch[d]
  PROVE  \A d \in Switches : Swapping(d)' => d = c
BY DEF OneAtATime, InFlight, Swapping

LEMMA VerifiedStep ==
  ASSUME Typed, OneAtATime, Rest, NEW c \in Switches, Verified(c)
  PROVE  Rest'
<1> USE DEF registry, people, shown, pickers
<1>1. /\ UNCHANGED <<records, activeId, boot, settings, screen, active, listed, alone>>
      /\ unlocked' = unlocked \cup ({switch[c].to} \cap Protected)
      /\ mode' = "offline" /\ open' = switch[c].to /\ switch[c].to \in records
      /\ switch[c].at = "looking"
  BY DEF Verified, swapLocalProfileStore
<1>2. /\ switch'[c].at = "opening" /\ switch'[c].to = switch[c].to
      /\ \A d \in Switches \ {c} : switch'[d] = switch[d]
  BY PhaseMoves DEF Verified, Phases, Typed, TypeOK
<1>3. (Failed' <=> Failed) /\ (Creating' <=> Creating) /\ ~Between'
  BY <1>1, <1>2 DEF Failed, Between, Swapping, Creating
<1>4. Shut' \subseteq Shut /\ open' \notin Shut'
  BY <1>1 DEF Shut
<1>5. PasswordsGiven'
  BY <1>1, <1>2, <1>4 DEF Rest, PasswordsGiven
<1>6. LockTells'
  BY <1>1, <1>3, <1>4 DEF Rest, LockTells, Excluded
<1>7. Steady'
  <2> SUFFICES ASSUME alone PROVE Steady'
    BY <1>1 DEF Steady
  <2>1. InFlight(c)  BY <1>1 DEF InFlight
  <2>2. \A d \in Switches : Swapping(d)' => d = c
    BY <1>2, <2>1, AloneSteady
  <2> QED  BY <1>1, <1>2, <2>2 DEF Steady
<1> QED  BY <1>3, <1>5, <1>6, <1>7 DEF Rest, StoreKept, Settled

LEMMA MarkedStep ==
  ASSUME Typed, OneAtATime, Rest, NEW c \in Switches, Marked(c)
  PROVE  Rest'
<1> USE DEF registry, people, shown, pickers
<1>1. /\ UNCHANGED <<records, boot, open, mode, settings, screen, active, listed, unlocked, alone>>
      /\ activeId' = switch[c].to /\ switch[c].at = "opening"
  BY DEF Marked
<1>2. /\ switch'[c].at = "touching" /\ switch'[c].to = switch[c].to
      /\ \A d \in Switches \ {c} : switch'[d] = switch[d]
  BY PhaseMoves DEF Marked, Phases, Typed, TypeOK
<1>3. (Failed' <=> Failed) /\ (Creating' <=> Creating) /\ ~Between'
  BY <1>1, <1>2 DEF Failed, Between, Swapping, Creating
<1>4. Shut' = Shut  BY <1>1 DEF Shut
<1>5. PasswordsGiven'
  BY <1>1, <1>2, <1>4 DEF Rest, PasswordsGiven, Swapping
<1>6. LockTells'
  BY <1>1, <1>3, <1>4 DEF Rest, LockTells, Excluded
<1>7. Steady'
  <2> SUFFICES ASSUME alone PROVE Steady'
    BY <1>1 DEF Steady
  <2>1. InFlight(c) /\ Swapping(c)  BY <1>1 DEF InFlight, Swapping
  <2>2. \A d \in Switches : Swapping(d)' => d = c
    BY <1>2, <2>1, AloneSteady
  <2>3. open = switch[c].to /\ open \in records /\ mode = "offline"
    BY <1>1, <2>1 DEF Rest, Steady
  <2> QED  BY <1>1, <1>2, <2>2, <2>3 DEF Steady
<1> QED  BY <1>3, <1>5, <1>6, <1>7 DEF Rest, StoreKept, Settled

LEMMA SettingsReadStep ==
  ASSUME Typed, OneAtATime, Rest, NEW c \in Switches, SettingsRead(c)
  PROVE  Rest'
<1> USE DEF registry, people, shown, pickers
<1>1. /\ UNCHANGED <<records, activeId, boot, open, mode, settings, screen, active, listed,
                     unlocked, edit, alone>>
      /\ switch[c].at = "touching"
      /\ ~\E e \in Edits : Saving(e) /\ edit[e].to = open
  BY DEF SettingsRead
<1>2. open \in Profiles
  BY <1>1 DEF Typed, CallsGood, CallGood, Starting
<1>3. /\ switch'[c].at = "loading" /\ switch'[c].to = switch[c].to
      /\ switch'[c].from = open /\ switch'[c].got = Loaded(open)
      /\ \A d \in Switches \ {c} : switch'[d] = switch[d]
  BY <1>2, ReadMoves DEF Typed
<1>4. (Failed' <=> Failed) /\ (Creating' <=> Creating) /\ ~Between'
  BY <1>1, <1>3 DEF Failed, Between, Swapping, Creating
<1>5. Shut' = Shut  BY <1>1 DEF Shut
<1>6. Swapping(c) /\ InFlight(c)
  BY <1>1 DEF InFlight, Swapping
<1>7. PasswordsGiven'
  <2>1. open \notin Shut  BY <1>6 DEF Rest, PasswordsGiven
  <2> QED  BY <1>1, <1>3, <1>5, <2>1 DEF Rest, PasswordsGiven, Swapping
<1>8. LockTells'
  BY <1>1, <1>4, <1>5 DEF Rest, LockTells, Excluded
<1>9. Steady'
  <2> SUFFICES ASSUME alone PROVE Steady'
    BY <1>1 DEF Steady
  <2>1. \A d \in Switches : Swapping(d)' => d = c
    BY <1>3, <1>6, AloneSteady
  <2>2. open = switch[c].to /\ open \in records /\ mode = "offline" /\ activeId = open
    BY <1>1, <1>6 DEF Rest, Steady
  <2>3. db'[open] = Loaded(open)
    BY <1>2, LoadTypes DEF SettingsRead, Typed
  <2>4. ~\E e \in Edits : edit'[e].at = "saving"
    BY <1>1 DEF Typed, EditsGood, EditGood, Saving
  <2> QED  BY <1>1, <1>3, <2>1, <2>2, <2>3, <2>4 DEF Steady, Saving
<1> QED  BY <1>4, <1>7, <1>8, <1>9 DEF Rest, StoreKept, Settled

LEMMA ReloadedStep ==
  ASSUME Typed, OneAtATime, Rest, NEW c \in Switches, Reloaded(c)
  PROVE  Rest'
<1> USE DEF registry, people, shown, pickers
<1>1. /\ UNCHANGED <<records, activeId, db, boot, open, active, listed, unlocked, edit, alone>>
      /\ switch[c].at = "loading"
      /\ mode' = switch[c].got.mode /\ settings' = switch[c].got /\ screen' = switch[c].from
  BY DEF Reloaded
<1>2. /\ switch'[c].at = "refreshing" /\ switch'[c].to = switch[c].to
      /\ switch'[c].from = switch[c].from /\ switch'[c].got = switch[c].got
      /\ \A d \in Switches \ {c} : switch'[d] = switch[d]
  BY PhaseMoves DEF Reloaded, Phases, Typed, TypeOK
<1>3. ~Between'
  BY <1>2 DEF Between, Swapping
<1>4. Shut' = Shut  BY <1>1 DEF Shut
<1>5. Swapping(c) /\ InFlight(c)
  BY <1>1 DEF InFlight, Swapping
<1>6. screen' \notin Shut
  BY <1>1 DEF Rest, PasswordsGiven
<1>7. PasswordsGiven'
  <2>1. open \notin Shut  BY <1>5 DEF Rest, PasswordsGiven
  <2> QED  BY <1>1, <1>2, <1>4, <1>6, <2>1 DEF Rest, PasswordsGiven, Swapping
<1>8. LockTells'
  BY <1>4, <1>6 DEF LockTells
<1>9. Steady'
  <2> SUFFICES ASSUME alone PROVE Steady'
    BY <1>1 DEF Steady
  <2>1. \A d \in Switches : Swapping(d)' => d = c
    BY <1>2, <1>5, AloneSteady
  <2>2. /\ open = switch[c].to /\ open \in records /\ activeId = open
        /\ switch[c].from = open /\ switch[c].got = db[open]
        /\ ~\E e \in Edits : Saving(e)
    BY <1>1, <1>5 DEF Rest, Steady
  <2> QED  BY <1>1, <1>2, <2>1, <2>2 DEF Steady, Saving
<1> QED  BY <1>3, <1>7, <1>8, <1>9 DEF Rest, StoreKept, Settled

\* The end of a switch: page, registry, database and mode agree again.
LEMMA RefreshedStep ==
  ASSUME Typed, OneAtATime, Rest, NEW c \in Switches, Refreshed(c)
  PROVE  Rest'
<1> USE DEF registry, people, shown, pickers
<1>1. /\ UNCHANGED <<records, activeId, db, boot, open, mode, settings, screen, unlocked,
                     edit, alone>>
      /\ switch[c].at = "refreshing"
      /\ active' = IF activeId \in records THEN activeId ELSE None
  BY DEF Refreshed, refreshProfiles
<1>2. \A d \in Switches : /\ switch'[d].at = IF d = c THEN "done" ELSE switch[d].at
                          /\ switch'[d].to = switch[d].to
                          /\ d # c => switch'[d].from = switch[d].from
  <2> DEFINE m == [switch EXCEPT ![c] = Ended(c)]
  <2>1. /\ m \in [Switches -> Call] /\ m[c].at = "done" /\ m[c].to = switch[c].to
        /\ \A d \in Switches \ {c} : m[d] = switch[d]
    BY EndMoves DEF Typed, TypeOK
  <2>2. PICK closed : switch' = Unmounted(m, closed)
    BY DEF Refreshed
  <2> HIDE DEF m
  <2> QED  BY <2>1, <2>2, UnmountMoves
<1>3. Shut' = Shut  BY <1>1 DEF Shut
<1>4. Swapping(c) /\ InFlight(c)
  BY <1>1 DEF InFlight, Swapping
<1>5. screen \notin Shut
  BY <1>1 DEF Rest, PasswordsGiven
<1>6. PasswordsGiven'
  BY <1>1, <1>2, <1>3 DEF Rest, PasswordsGiven, Swapping
<1>7. LockTells'
  BY <1>1, <1>3, <1>5 DEF LockTells
<1>8. alone => ~\E d \in Switches : Swapping(d)'
  BY <1>2, <1>4 DEF OneAtATime, InFlight, Swapping
<1>9. Steady'
  BY <1>1, <1>8 DEF Steady
<1>10. alone => /\ open \in records /\ activeId = open /\ db[open] \in Settings
                /\ ~\E e \in Edits : Saving(e)
                /\ screen = open /\ settings = db[open] /\ mode = settings.mode
  <2> SUFFICES ASSUME alone
               PROVE  /\ open \in records /\ activeId = open /\ db[open] \in Settings
                      /\ ~\E e \in Edits : Saving(e)
                      /\ screen = open /\ settings = db[open] /\ mode = settings.mode
    OBVIOUS
  <2>1. switch[c].got \in Settings  BY <1>1 DEF Typed, CallsGood, CallGood
  <2> QED  BY <1>1, <1>4, <2>1 DEF Rest, Steady
<1>11. StoreKept'
  <2> SUFFICES ASSUME alone PROVE Kept'
    BY <1>1 DEF StoreKept, Between
  <2> QED  BY <1>1, <1>10 DEF Kept, Saving, Last
<1>12. Settled'
  BY <1>1, <1>10 DEF Settled, Between
<1> QED  BY <1>6, <1>7, <1>9, <1>11, <1>12 DEF Rest

LEMMA RejectedStep ==
  ASSUME Typed, OneAtATime, Rest, NEW c \in Switches, Rejected(c)
  PROVE  Rest'
<1> USE DEF registry, people, shown, pickers
<1>1. /\ UNCHANGED <<records, activeId, db, boot, open, mode, settings, screen, unlocked,
                     active, listed, edit, alone>>
      /\ switch[c].at \in {"opening", "touching", "loading"}
  BY DEF Rejected
<1>2. /\ switch'[c].at = "failed"
      /\ \A d \in Switches \ {c} : switch'[d] = switch[d]
  BY FailMoves DEF Rejected, Typed, TypeOK
<1>3. Failed'  BY <1>2 DEF Failed
<1>4. Swapping(c) /\ InFlight(c)
  BY <1>1 DEF InFlight, Swapping
<1>5. PasswordsGiven'
  BY <1>1, <1>2 DEF Rest, PasswordsGiven, Swapping, Shut
<1>6. LockTells'
  BY <1>3 DEF LockTells, Excluded
<1>7. alone => ~\E d \in Switches : Swapping(d)'
  BY <1>2, <1>4 DEF OneAtATime, InFlight, Swapping
<1>8. Steady'
  BY <1>1, <1>7 DEF Steady
<1>9. StoreKept'
  <2>1. alone => mode = "offline"  BY <1>1, <1>4 DEF Rest, Steady
  <2> QED  BY <1>1, <1>3, <2>1 DEF StoreKept, Between
<1> QED  BY <1>3, <1>5, <1>6, <1>8, <1>9 DEF Rest, Settled

-----------------------------------------------------------------------------
(* Saves. *)

\* A setting is chosen: the save it begins comes after those under way, so it
\* is the last of the keys it writes.
LEMMA ApplyStep ==
  ASSUME Typed, Rest, NEW e \in Edits, NEW next \in Settings, Apply(e, next),
         boot = "up", edit[e].at \in {"idle", "decoding"},
         UNCHANGED <<registry, db, cache, boot, open, screen, people, unlocked, pickers,
                     switch, faults, syncing>>
  PROVE  Rest'
<1> USE DEF registry, people, shown, pickers
<1>1. /\ UNCHANGED <<records, activeId, db, boot, open, screen, active, listed, unlocked, switch>>
      /\ alone' => alone /\ \A c \in Switches : ~InFlight(c) /\ switch[c].at # "failed"
  BY DEF Apply
<1>2. open \in Profiles
  BY DEF Typed, Starting
<1>3. /\ edit' \in [Edits -> Save] /\ mode' = next.mode /\ settings' = next
      /\ edit'[e].at = "saving" /\ edit'[e].next = next
      /\ edit'[e].keys = Changed(next, settings)
      /\ \A d \in Edits \ {e} : edit'[d] = edit[d]
  BY <1>2, ApplyMoves DEF Typed
<1>4. PasswordsGiven'
  BY <1>1 DEF Rest, PasswordsGiven, Swapping, Shut
<1>5. LockTells'
  <2>1. Excluded => Excluded'  BY <1>1 DEF Excluded, Failed, Creating
  <2> QED  BY <1>1, <2>1 DEF Rest, LockTells, Shut
<1>6. Steady'
  BY <1>1 DEF Steady, InFlight, Swapping
<1>7. Between' => Between /\ ~Failed
  BY <1>1 DEF Between, Swapping, Failed
<1>8. StoreKept'
  <2> SUFFICES ASSUME Between' PROVE Kept'
    BY DEF StoreKept
  <2>1. Kept
    BY <1>7 DEF Rest, StoreKept
  <2>2. mode' = settings'.mode /\ db'[open'] \in Settings
    BY <1>1, <1>3, <2>1 DEF Kept
  <2>3. \A k \in Keys \ Changed(next, settings) : next[k] = settings[k]
    BY DEF Changed
  <2>4. ASSUME NEW k \in Keys, ~\E d \in Edits : edit'[d].at = "saving" /\ k \in edit'[d].keys
        PROVE  db'[open'][k] = settings'[k]
    <3>1. k \notin Changed(next, settings)
      BY <1>3, <2>4
    <3>2. ~\E d \in Edits : Saving(d) /\ k \in edit[d].keys
      BY <1>3, <2>4 DEF Saving
    <3>3. db[open][k] = settings[k]
      BY <2>1, <3>2 DEF Kept
    <3> QED  BY <1>1, <1>3, <2>3, <3>1, <3>3
  <2>5. ASSUME NEW k \in Keys, NEW d \in Edits, edit'[d].at = "saving", k \in edit'[d].keys,
               \A f \in Edits : edit'[f].at = "saving" /\ k \in edit'[f].keys
                                  => f = d \/ f \in edit'[d].after
        PROVE  edit'[d].next[k] = settings'[k]
    <3>1. CASE d = e
      BY <1>3, <3>1
    <3>2. CASE d # e
      <4>1. edit'[d] = edit[d] /\ Saving(d)
        BY <1>3, <2>5, <3>2 DEF Saving
      <4>2. e \notin edit[d].after
        BY <4>1 DEF Typed, EditsGood, EditGood, Saving
      <4>3. k \notin Changed(next, settings)
        BY <1>3, <2>5, <3>2, <4>1, <4>2
      <4>4. \A f \in Edits : Saving(f) => f # e
        BY DEF Saving
      <4>5. Last(k, d)
        BY <1>3, <2>5, <4>1, <4>4 DEF Last, Saving
      <4>6. edit[d].next[k] = settings[k]
        BY <2>1, <4>5 DEF Kept
      <4> QED  BY <1>3, <2>3, <4>1, <4>3, <4>6
    <3> QED  BY <3>1, <3>2
  <2> QED  BY <2>2, <2>4, <2>5 DEF Kept, Last, Saving
<1>9. Settled'
  BY <1>1, <1>7 DEF Rest, Settled
<1> QED  BY <1>4, <1>5, <1>6, <1>8, <1>9 DEF Rest

\* A save is done: those that are still to write its keys come after it.
LEMMA SavedStep ==
  ASSUME Typed, Rest, NEW e \in Edits, Saved(e)
  PROVE  Rest'
<1> USE DEF registry, people, shown, pickers
<1>1. /\ UNCHANGED <<records, activeId, boot, open, mode, settings, screen, active, listed,
                     unlocked, switch, alone>>
      /\ Saving(e)
      /\ \A d \in edit[e].after : Saving(d) => edit[d].keys \cap edit[e].keys = {}
  BY DEF Saved
<1>2. /\ edit'[e].at = "done"
      /\ \A d \in Edits \ {e} : edit'[d] = edit[d]
      /\ open \in Profiles
      /\ db[open] # None => db'[open] \in Settings
      /\ \A k \in edit[e].keys : db'[open][k] = edit[e].next[k]
      /\ \A k \in Keys \ edit[e].keys : db[open] # None => db'[open][k] = db[open][k]
  BY SavedMoves DEF Typed
<1>3. PasswordsGiven'
  BY <1>1 DEF Rest, PasswordsGiven, Swapping, Shut
<1>4. LockTells'
  <2>1. Excluded => Excluded'  BY <1>1 DEF Excluded, Failed, Creating
  <2> QED  BY <1>1, <2>1 DEF Rest, LockTells, Shut
<1>5. Steady'
  BY <1>1 DEF Rest, Steady, Swapping
<1>6. (Between' <=> Between) /\ (Failed' <=> Failed)
  BY <1>1 DEF Between, Swapping, Failed
<1>7. Kept => Kept'
  <2> SUFFICES ASSUME Kept PROVE Kept'
    OBVIOUS
  <2>1. db[open] # None
    BY NoneAssumption DEF Kept
  <2>2. mode' = settings'.mode /\ db'[open'] \in Settings
    BY <1>1, <1>2, <2>1 DEF Kept
  <2>3. ASSUME NEW k \in Keys, ~\E d \in Edits : edit'[d].at = "saving" /\ k \in edit'[d].keys
        PROVE  db'[open'][k] = settings'[k]
    <3>1. \A d \in Edits \ {e} : ~(Saving(d) /\ k \in edit[d].keys)
      BY <1>2, <2>3 DEF Saving
    <3>2. CASE k \in edit[e].keys
      <4>1. Last(k, e)
        BY <1>1, <3>1, <3>2 DEF Last
      <4>2. edit[e].next[k] = settings[k]
        BY <4>1 DEF Kept
      <4> QED  BY <1>1, <1>2, <3>2, <4>2
    <3>3. CASE k \notin edit[e].keys
      <4>1. ~\E d \in Edits : Saving(d) /\ k \in edit[d].keys
        BY <3>1, <3>3
      <4>2. db[open][k] = settings[k]
        BY <4>1 DEF Kept
      <4> QED  BY <1>1, <1>2, <2>1, <3>3, <4>2
    <3> QED  BY <3>2, <3>3
  <2>4. ASSUME NEW k \in Keys, NEW d \in Edits, edit'[d].at = "saving", k \in edit'[d].keys,
               \A f \in Edits : edit'[f].at = "saving" /\ k \in edit'[f].keys
                                  => f = d \/ f \in edit'[d].after
        PROVE  edit'[d].next[k] = settings'[k]
    <3>1. d # e /\ edit'[d] = edit[d] /\ Saving(d)
      BY <1>2, <2>4 DEF Saving
    <3>2. k \in edit[e].keys => e \in edit[d].after
      <4> SUFFICES ASSUME k \in edit[e].keys PROVE e \in edit[d].after
        OBVIOUS
      <4>1. d \notin edit[e].after
        BY <1>1, <2>4, <3>1
      <4> QED  BY <1>1, <3>1, <4>1 DEF Typed, InOrder, Ordered, Saving
    <3>3. Last(k, d)
      <4> SUFFICES ASSUME NEW f \in Edits, Saving(f), k \in edit[f].keys
                   PROVE  f = d \/ f \in edit[d].after
        BY <2>4, <3>1 DEF Last
      <4>1. CASE f = e
        BY <3>2, <4>1
      <4>2. CASE f # e
        <5>1. edit'[f] = edit[f]  BY <1>2, <4>2
        <5> QED  BY <2>4, <3>1, <5>1 DEF Saving
      <4> QED  BY <4>1, <4>2
    <3>4. edit[d].next[k] = settings[k]
      BY <3>3 DEF Kept
    <3> QED  BY <1>1, <3>1, <3>4
  <2> QED  BY <2>2, <2>3, <2>4 DEF Kept, Last, Saving
<1>8. StoreKept'
  BY <1>1, <1>6, <1>7 DEF Rest, StoreKept
<1>9. Settled'
  BY <1>1, <1>6 DEF Rest, Settled
<1> QED  BY <1>3, <1>4, <1>5, <1>8, <1>9 DEF Rest

\* The profiles are read again, whoever switches.
LEMMA SyncedStep ==
  ASSUME Typed, Rest, SyncsOpen, NEW e \in Edits, Synced(e)
  PROVE  Rest'
<1> USE DEF registry, people, shown, pickers
<1>1. /\ UNCHANGED <<records, activeId, db, boot, open, mode, settings, screen, unlocked,
                     switch, edit, alone>>
      /\ syncing # {}
      /\ active' = IF activeId \in records THEN activeId ELSE None
  BY DEF Synced, refreshProfiles
<1>2. PasswordsGiven'
  BY <1>1 DEF Rest, PasswordsGiven, Swapping, Shut
<1>3. LockTells'
  <2>1. Excluded' <=> Excluded
    BY <1>1 DEF Excluded, Failed, Creating
  <2> QED  BY <1>1, <2>1 DEF SyncsOpen, LockTells, Shut
<1>4. Steady'
  BY <1>1 DEF Rest, Steady, Swapping, Saving
<1>5. (Between' <=> Between) /\ (Failed' <=> Failed) /\ (Kept' <=> Kept)
  BY <1>1 DEF Between, Swapping, Failed, Kept, Last, Saving
<1>6. StoreKept'
  BY <1>1, <1>5 DEF Rest, StoreKept
<1>7. Settled'
  BY <1>1, <1>5 DEF Rest, Settled
<1> QED  BY <1>2, <1>3, <1>4, <1>6, <1>7 DEF Rest

LEMMA RestStep ==
  ASSUME Typed, OneAtATime, Rest, SyncsOpen, [Next]_vars
  PROVE  Rest'
<1>1. CASE Restart \/ \E p \in Profiles : ResolveProfile(p) \/ ResolveFails(p)
  <2>1. boot' # "up"
    BY <1>1 DEF Restart, ResolveProfile, ResolveFails
  <2> QED  BY <2>1, TypedStep, DownStep
<1>2. ASSUME NEW p \in Profiles, deleteProfile(p) PROVE Rest'
  BY <1>2, DeleteStep
<1>3. ASSUME NEW c \in Switches,
             \/ Created(c) \/ Verified(c) \/ Marked(c) \/ SettingsRead(c)
             \/ Reloaded(c) \/ Refreshed(c) \/ Rejected(c)
      PROVE  Rest'
  BY <1>3, CreatedStep, VerifiedStep, MarkedStep, SettingsReadStep, ReloadedStep,
     RefreshedStep, RejectedStep
<1>4. ASSUME NEW e \in Edits, NEW m \in Modes, updateSettings(e, m) PROVE Rest'
  <2>1. [settings EXCEPT !.mode = m] \in Settings
    BY DEF Typed, TypeOK, Settings
  <2> QED  BY <1>4, <2>1, ApplyStep DEF updateSettings
<1>5. ASSUME NEW e \in Edits, Decoded(e) PROVE Rest'
  <2>1. edit[e].next \in Settings /\ boot = "up"
    BY <1>5 DEF Decoded, Typed, EditsGood, EditGood
  <2> QED  BY <1>5, <2>1, ApplyStep DEF Decoded
<1>6. ASSUME NEW e \in Edits, Saved(e) \/ Synced(e) PROVE Rest'
  BY <1>6, SavedStep, SyncedStep
<1> QED
  BY <1>1, <1>2, <1>3, <1>4, <1>5, <1>6, HydrateStep, QuietSteps DEF Next

-----------------------------------------------------------------------------
(* What is shown while a photo or a name is synced. *)

\* What left the page open to a meeting stays so until the page is reloaded.
LEMMA ExcludedStays ==
  ASSUME alone' => alone,
         \A c \in Switches : /\ switch[c].at = "failed" => switch'[c].at = "failed"
                             /\ switch[c].to # None => switch'[c].to = switch[c].to,
         Excluded
  PROVE  Excluded'
BY DEF Excluded, Failed, Creating

LEMMA ExcludedStep ==
  ASSUME Typed, Next, ~Restart, Excluded
  PROVE  Excluded'
<1> USE DEF registry, people, shown, pickers
<1>a. switch \in [Switches -> Call]
  BY DEF Typed, TypeOK
<1>b. \A c \in Switches : switch[c].at = "idle" => switch[c].to = None
  BY DEF Typed, CallsGood, CallGood
<1>c. ASSUME alone' => alone, switch' = switch PROVE Excluded'
  BY <1>c, ExcludedStays
<1>d. ASSUME NEW c \in Switches, NEW p \in Profiles, NEW via \in Vias,
             NEW ph \in {"looking", "adding"}, Begin(c, p, via, ph)
      PROVE  Excluded'
  <2>1. "looking" \in Phases /\ "adding" \in Phases /\ p \in Profiles \cup {None}
    BY DEF Phases
  <2>2. \A d \in Switches \ {c} : switch'[d] = switch[d]
    BY <1>a, <1>d, <2>1, NewCallMoves
  <2>3. switch[c].at = "idle" /\ switch[c].to = None /\ (alone' => alone)
    BY <1>b, <1>d DEF Begin
  <2> QED  BY <2>2, <2>3, ExcludedStays
<1>e. ASSUME NEW c \in Switches, NEW ph \in Phases, switch[c].at # "failed",
             switch' = [switch EXCEPT ![c].at = ph], alone' = alone
      PROVE  Excluded'
  <2>1. switch'[c].to = switch[c].to /\ \A d \in Switches \ {c} : switch'[d] = switch[d]
    BY <1>a, <1>e, PhaseMoves
  <2> QED  BY <1>e, <2>1, ExcludedStays
<1>1. CASE LaunchChoice
  <2>1. ASSUME NEW c \in Switches, autoEnter \in listed, Begin(c, autoEnter, "auto", "looking")
        PROVE  Excluded'
    <3>1. autoEnter \in Profiles /\ "auto" \in Vias  BY <2>1 DEF Typed, TypeOK, Vias
    <3> QED  BY <2>1, <3>1, <1>d
  <2> QED  BY <1>1, <2>1, <1>c DEF LaunchChoice
<1>2. CASE CancelPicker
  <2>1. \A c \in Switches : switch'[c].at = switch[c].at /\ switch'[c].to = switch[c].to
    BY <1>2, <1>a, UnmountMoves DEF CancelPicker
  <2> QED  BY <1>2, <2>1, ExcludedStays DEF CancelPicker
<1>3. CASE Hydrate \/ OpenPicker \/ \E p \in Profiles : ResolveProfile(p) \/ ResolveFails(p)
  BY <1>3, <1>c DEF Hydrate, OpenPicker, ResolveProfile, ResolveFails
<1>4. ASSUME NEW p \in Profiles, deleteProfile(p) PROVE Excluded'
  BY <1>4, <1>c DEF deleteProfile
<1>5. ASSUME NEW c \in Switches, NEW p \in Profiles, NEW via \in {"lock", "launch", "switch"},
             Choose(c, p, via) \/ CreateAndEnter(c, p, via)
      PROVE  Excluded'
  <2>1. via \in Vias  BY DEF Vias
  <2> QED  BY <1>5, <2>1, <1>d DEF Choose, CreateAndEnter
<1>6. ASSUME NEW c \in Switches, Created(c) \/ Verified(c) \/ Marked(c) \/ Reloaded(c)
      PROVE  Excluded'
  BY <1>6, <1>e DEF Created, Verified, Marked, Reloaded, Phases
<1>7. ASSUME NEW c \in Switches, SettingsRead(c) PROVE Excluded'
  <2>1. open \in Profiles /\ TypeOK
    BY <1>7 DEF SettingsRead, Typed, CallsGood, CallGood, Starting
  <2>2. switch'[c].to = switch[c].to /\ \A d \in Switches \ {c} : switch'[d] = switch[d]
    BY <1>7, <2>1, ReadMoves
  <2> QED  BY <1>7, <2>2, ExcludedStays DEF SettingsRead
<1>8. ASSUME NEW c \in Switches, Refused(c) PROVE Excluded'
  <2>1. switch'[c].to = switch[c].to /\ \A d \in Switches \ {c} : switch'[d] = switch[d]
    BY <1>8, <1>a, EndMoves DEF Refused
  <2> QED  BY <1>8, <2>1, ExcludedStays DEF Refused
<1>9. ASSUME NEW c \in Switches, Refreshed(c) PROVE Excluded'
  <2> DEFINE m == [switch EXCEPT ![c] = Ended(c)]
  <2>1. /\ m \in [Switches -> Call] /\ m[c].to = switch[c].to
        /\ \A d \in Switches \ {c} : m[d] = switch[d]
    BY <1>a, EndMoves
  <2>2. PICK closed : switch' = Unmounted(m, closed)
    BY <1>9 DEF Refreshed
  <2> HIDE DEF m
  <2>3. /\ switch'[c].to = switch[c].to
        /\ \A d \in Switches \ {c} : switch'[d].at = switch[d].at /\ switch'[d].to = switch[d].to
    BY <2>1, <2>2, UnmountMoves
  <2>4. switch[c].at = "refreshing" /\ alone' = alone
    BY <1>9 DEF Refreshed
  <2> QED  BY <2>3, <2>4, ExcludedStays
<1>10. ASSUME NEW c \in Switches, Rejected(c) PROVE Excluded'
  <2>1. /\ switch' = [switch EXCEPT ![c] = [Ended(c) EXCEPT !.at = "failed", !.via = switch[c].via]]
        /\ alone' = alone
    BY <1>10 DEF Rejected
  <2>2. /\ switch'[c].at = "failed" /\ switch'[c].to = switch[c].to
        /\ \A d \in Switches \ {c} : switch'[d] = switch[d]
    BY <2>1, <1>a, FailMoves
  <2> QED  BY <2>1, <2>2, ExcludedStays
<1>11. ASSUME NEW e \in Edits, NEW m \in Modes, updateSettings(e, m) PROVE Excluded'
  BY <1>11, <1>c DEF updateSettings, Apply
<1>12. ASSUME NEW e \in Edits, PickImage(e) \/ Decoded(e) \/ Synced(e) \/ Saved(e) \/ SaveCut(e)
       PROVE  Excluded'
  <2>1. switch' = switch
    BY <1>12 DEF PickImage, Decoded, Synced, Saved, SaveCut
  <2>2. alone' => alone
    BY <1>12 DEF PickImage, Decoded, Apply, Synced, Saved, SaveCut
  <2> QED  BY <2>1, <2>2, <1>c
<1> QED
  BY <1>1, <1>2, <1>3, <1>4, <1>5, <1>6, <1>7, <1>8, <1>9, <1>10, <1>11, <1>12 DEF Next

LEMMA SyncsStep ==
  ASSUME Typed, Rest, SyncsOpen, [Next]_vars
  PROVE  SyncsOpen'
<1> USE DEF registry, people, shown, pickers
<1>a. syncing # {} => boot = "up"
  BY DEF Typed
<1>b. ASSUME ~Restart, Next, syncing' # {}, syncing # {}, screen' = screen, Shut' \subseteq Shut
      PROVE  SyncsOpen'
  BY <1>b, ExcludedStep DEF SyncsOpen
<1>1. CASE UNCHANGED vars
  BY <1>1 DEF vars, SyncsOpen, Excluded, Failed, Creating, Shut
<1> SUFFICES ASSUME Next, syncing' # {} PROVE SyncsOpen'
  BY <1>1 DEF SyncsOpen
<1>2. ~Restart
  BY DEF Restart
<1>3. CASE \E e \in Edits : PickImage(e)
  <2>1. PICK e \in Edits : PickImage(e)
    BY <1>3
  <2>2. CASE active = None
    BY <1>2, <1>b, <2>1, <2>2 DEF PickImage, Shut
  <2>3. CASE active # None
    <3>1. active \notin Shut /\ boot = "up"
      BY <2>1 DEF PickImage, Modal, Locked, Shut
    <3>2. screen \notin Shut \/ Excluded
      BY <2>3, <3>1 DEF Rest, LockTells
    <3> QED  BY <1>2, <2>1, <3>2, ExcludedStep DEF SyncsOpen, PickImage, Shut
  <2> QED  BY <2>2, <2>3
<1>4. CASE \E c \in Switches : Reloaded(c)
  <2>1. PICK c \in Switches : Reloaded(c)
    BY <1>4
  <2>2. switch[c].from \notin Shut /\ screen' = switch[c].from /\ Shut' = Shut
    BY <2>1 DEF Reloaded, Rest, PasswordsGiven, Shut
  <2> QED  BY <2>2 DEF SyncsOpen
<1>5. CASE \E c \in Switches : Verified(c)
  BY <1>2, <1>5, <1>b DEF Verified, Shut
<1>6. CASE Hydrate \/ \E p \in Profiles : ResolveProfile(p) \/ ResolveFails(p)
  BY <1>a, <1>6 DEF Hydrate, ResolveProfile, ResolveFails
<1>7. CASE LaunchChoice \/ OpenPicker \/ CancelPicker \/ \E p \in Profiles : deleteProfile(p)
  BY <1>2, <1>7, <1>b DEF LaunchChoice, OpenPicker, CancelPicker, deleteProfile, Shut
<1>8. CASE \E c \in Switches, p \in Profiles, via \in {"lock", "launch", "switch"} :
             Choose(c, p, via) \/ CreateAndEnter(c, p, via)
  BY <1>2, <1>8, <1>b DEF Choose, CreateAndEnter, Shut
<1>9. CASE \E c \in Switches :
             Created(c) \/ Refused(c) \/ Marked(c) \/ SettingsRead(c) \/ Refreshed(c) \/ Rejected(c)
  BY <1>2, <1>9, <1>b DEF Created, Refused, Marked, SettingsRead, Refreshed, Rejected, Shut
<1>10. CASE \E e \in Edits : (\E m \in Modes : updateSettings(e, m)) \/ Decoded(e)
  BY <1>2, <1>10, <1>b DEF updateSettings, Decoded, Shut
<1>11. CASE \E e \in Edits : Synced(e) \/ Saved(e) \/ SaveCut(e)
  BY <1>2, <1>11, <1>b DEF Synced, Saved, SaveCut, Shut
<1> QED
  BY <1>2, <1>3, <1>4, <1>5, <1>6, <1>7, <1>8, <1>9, <1>10, <1>11 DEF Next

-----------------------------------------------------------------------------
LEMMA ProfilesInvHolds == Spec => []ProfilesInv
<1>1. Init => ProfilesInv
  <2> SUFFICES ASSUME Init PROVE ProfilesInv
    OBVIOUS
  <2>1. (\A c \in Switches : switch[c].at = "idle") /\ boot = "resolving"
    BY DEF Init, NoSwitch
  <2>2. OneAtATime
    BY <2>1 DEF OneAtATime, InFlight, Swapping
  <2>3. Rest
    BY <2>1 DEF Rest, PasswordsGiven, LockTells, Steady, StoreKept, Settled, Between, Swapping
  <2>4. SyncsOpen
    BY DEF Init, SyncsOpen
  <2> QED  BY <2>2, <2>3, <2>4, TypedInit DEF ProfilesInv
<1>2. ProfilesInv /\ [Next]_vars => ProfilesInv'
  BY TypedStep, OneAtATimeStep, RestStep, SyncsStep DEF ProfilesInv
<1> QED  BY <1>1, <1>2, PTL DEF Spec

\* However many profiles, switches and edits there are, the page of a protected
\* profile is covered until its password is given: the lock knows the profile
\* by its name, and the name changes after the slices do (AppStore.tsx 591-615).
THEOREM LockHolds == Spec => []LockedStaysHidden
<1>1. ProfilesInv => LockedStaysHidden
  <2> SUFFICES ASSUME ProfilesInv, boot = "up", active # None, ~Failed, ~Locked,
                      alone \/ ~Creating, screen \in Protected, screen \notin unlocked
               PROVE  FALSE
    BY DEF LockedStaysHidden
  <2>1. screen \in Shut /\ ~Excluded
    BY DEF Shut, Excluded
  <2>2. active = screen
    BY <2>1 DEF ProfilesInv, Rest, LockTells
  <2> QED  BY <2>1, <2>2 DEF Locked, Shut
<1> QED  BY <1>1, ProfilesInvHolds, PTL

\* A switch that met nothing leaves registry, database, page and network mode
\* at one profile, with its settings stored (AppStore.tsx 591-615).
THEOREM SwitchesDoSettle == Spec => []SwitchesSettle
<1>1. ProfilesInv => SwitchesSettle
  <2> SUFFICES ASSUME ProfilesInv, boot = "up", active # None, alone, ~Failed,
                      ~\E c \in Switches : InFlight(c), ~\E e \in Edits : Saving(e)
               PROVE  /\ open = active /\ screen = active
                      /\ settings = db[open] /\ mode = settings.mode
    BY DEF SwitchesSettle
  <2>1. Between
    BY DEF Between, InFlight
  <2>2. screen = open /\ active = open
    BY <2>1 DEF ProfilesInv, Rest, Settled
  <2>3. /\ mode = settings.mode /\ db[open] \in Settings
        /\ \A k \in Keys : db[open][k] = settings[k]
    BY <2>1 DEF ProfilesInv, Rest, StoreKept, Kept
  <2>4. settings \in Settings
    BY DEF ProfilesInv, Typed, TypeOK
  <2>5. settings = db[open]
    BY <2>3, <2>4, KeysAreFields
  <2> QED  BY <2>2, <2>3, <2>5
<1> QED  BY <1>1, ProfilesInvHolds, PTL
=============================================================================
