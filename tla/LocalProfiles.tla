---------------------------- MODULE LocalProfiles ----------------------------
(***************************************************************************)
(* The profiles of one device (web/src/store/AppStore.tsx, storage/index,  *)
(* storage/ProfileRegistry, data/settings, components/LocalProfilePicker,  *)
(* App.tsx).  Every profile has a database of its own; the registry, a     *)
(* database apart, says which profiles exist and which is active.  One     *)
(* database is open at a time and everything reads the open one when it    *)
(* asks, so a switch, which takes seven awaits, meets whatever else runs:  *)
(* another switch, a setting that is being saved, a reload of the page.    *)
(***************************************************************************)
EXTENDS Naturals, FiniteSets

CONSTANTS
  Profiles,      \* all profiles there may be
  Installed,     \* those the registry begins with, the default one included
  Default,       \* the profile of the database "debridstreamer"
  Protected,     \* those with a password
  Standard,      \* those whose stored mode is at first the standard one
  Switches,      \* executions of switchLocalProfile
  Edits,         \* executions of updateSettings
  None,
  MaxFaults      \* reloads and crashes of the page, and databases that cannot
                 \* be opened or read in time

ASSUME ProfilesAssumption ==
  /\ Default \in Installed
  /\ Installed \cup Protected \cup Standard \subseteq Profiles
  /\ None \notin Profiles \cup Switches \cup Edits
ASSUME BoundsAssumption == MaxFaults \in Nat

\* Settings are a privacy mode and, for all the rest, whose settings they are.
\* fullLocal lies between these two modes and is left out.
Modes == {"standard", "offline"}
Keys == {"mode", "of"}
Settings == [mode : Modes, of : Profiles]
ASSUME NoneAssumption == None \notin Settings
Fresh(p) == [mode |-> "standard", of |-> p]

VARIABLES
  \* kept on the device
  records, activeId, autoEnter,  \* the registry
  db,          \* the settings in each database, None while it is empty
  cache,       \* the copy of the last settings in localStorage
  \* kept by the page
  boot,        \* how far the hydration is
  open,        \* the profile of dexieInstance
  mode,        \* what networkPolicy enforces
  settings,    \* the store's settings
  screen,      \* whose watchlist and history are shown
  active,      \* activeProfile
  listed,      \* profiles, the store's copy of the records
  unlocked,    \* unlockedProfileIds
  choosing,    \* the pickers that are open: "launch", "switch"
  choiceMade,  \* launchChoiceMade
  switch, edit,
  syncing,     \* edits whose updateProfileRecord is, or will be, under way
  \* bookkeeping of the model
  alone,       \* nothing has met a switch since the page was loaded
  faults

registry == <<records, activeId, autoEnter>>
people == <<active, listed>>
shown == <<settings, screen, people>>
pickers == <<choosing, choiceMade>>
vars == <<registry, db, cache, boot, open, mode, shown, unlocked, pickers,
          switch, edit, syncing, alone, faults>>

-----------------------------------------------------------------------------
(* Helpers. *)

NoSwitch == [at |-> "idle", to |-> None, via |-> "auto", from |-> None, got |-> None]
Ended(c) == [NoSwitch EXCEPT !.at = "done", !.to = switch[c].to]
NoEdit == [at |-> "idle", next |-> None, to |-> None, keys |-> {}, after |-> {}]

\* A switch past its password and before its end.
Swapping(c) ==
  switch[c].at \in {"opening", "touching", "loading", "refreshing"}
InFlight(c) == Swapping(c) \/ switch[c].at \in {"adding", "looking"}
Saving(e) == edit[e].at = "saving"

\* The lock screen (localProfileLocked), and whether anything covers the page.
Locked == active \in Protected \ unlocked
Modal == Locked \/ choosing # {}

\* The picker a user stands at answers clicks: no choice made at it is under
\* way, and none was rejected, since `busy` is then never taken back.
Picker(via) ==
  CASE via = "lock" -> Locked
    [] via = "launch" -> "launch" \in choosing /\ ~Locked
    [] via = "switch" -> "switch" \in choosing
Free(via) == ~\E c \in Switches : switch[c].via = via /\ (InFlight(c) \/ switch[c].at = "failed")

\* closing a picker unmounts it; its calls go on.
Unmounted(calls, closed) ==
  [c \in Switches |->
    IF calls[c].via = closed THEN [calls[c] EXCEPT !.via = "gone"] ELSE calls[c]]

\* refreshProfiles(): the active profile is the registry's, if it is there.
refreshProfiles ==
  /\ listed' = records'
  /\ active' = IF activeId \in records' THEN activeId ELSE None

\* What a load reads of the open database, which it first fills from the
\* cache when it is empty (loadSettingsFromStore).
Loaded(p) == IF db[p] # None THEN db[p] ELSE IF cache # None THEN cache ELSE Fresh(p)
loadSettingsFromStore(p) ==
  /\ db' = [db EXCEPT ![p] = Loaded(p)]
  /\ cache' = IF db[p] # None \/ cache # None THEN Loaded(p) ELSE cache

-----------------------------------------------------------------------------
(* Start of the page. *)

\* The synchronous bootstrap: the cached settings are in force at once.
Bootstrap(c) == IF c # None THEN c ELSE Fresh(Default)

Init ==
  /\ records = Installed
  /\ activeId \in Installed /\ autoEnter \in Installed \cup {None}
  /\ db = [p \in Profiles |->
             IF p \notin Installed THEN None
             ELSE [mode |-> IF p \in Standard THEN "standard" ELSE "offline", of |-> p]]
  /\ cache = db[activeId]
  /\ boot = "resolving" /\ open = None
  /\ settings = Bootstrap(cache) /\ mode = Bootstrap(cache).mode
  /\ screen = None /\ active = None /\ listed = {} /\ unlocked = {}
  /\ choosing = {} /\ choiceMade = FALSE
  /\ switch = [c \in Switches |-> NoSwitch] /\ edit = [e \in Edits |-> NoEdit]
  /\ syncing = {} /\ alone = TRUE /\ faults = 0

Fault == faults < MaxFaults /\ faults' = faults + 1

\* Database p when the save w[k] is the last that wrote key k of it.
Written(p, w) ==
  LET stored == IF db[p] = None THEN Fresh(p) ELSE db[p] IN
  IF \A k \in Keys : w[k] = None THEN db
  ELSE [db EXCEPT ![p] = [k \in Keys |-> IF w[k] = None THEN stored[k]
                                         ELSE edit[w[k]].next[k]]]

\* The databases when the saves under way may have been interrupted.
Interrupted ==
  LET Writers(k) == {None} \cup {e \in Edits : Saving(e) /\ k \in edit[e].keys}
  IN {Written(open, w) : w \in {v \in [Keys -> Edits \cup {None}] :
                                  \A k \in Keys : v[k] \in Writers(k)}}

\* The page is reloaded or dies: what it kept is gone, and of the saves under
\* way any of the writes may be done, but not the copy in the cache.
Restart ==
  /\ Fault
  /\ boot' = "resolving" /\ open' = None
  /\ settings' = Bootstrap(cache) /\ mode' = Bootstrap(cache).mode
  /\ screen' = None /\ active' = None /\ listed' = {} /\ unlocked' = {}
  /\ choosing' = {} /\ choiceMade' = FALSE
  /\ switch' = [c \in Switches |-> IF switch[c].at = "idle" THEN NoSwitch
                                   ELSE [NoSwitch EXCEPT !.at = "done"]]
  /\ edit' = [e \in Edits |-> IF edit[e].at = "idle" THEN NoEdit
                              ELSE [NoEdit EXCEPT !.at = "done"]]
  /\ db' \in Interrupted
  /\ syncing' = {} /\ alone' = (activeId \in records)
  /\ UNCHANGED <<registry, cache>>

\* The first half of the hydration: whose database to open.
StartProfiles ==
  IF activeId \in records THEN {activeId}
  ELSE IF Default \in records THEN {Default} ELSE records
ResolveProfile(p) ==
  /\ boot = "resolving" /\ p \in StartProfiles
  /\ boot' = "hydrating" /\ open' = p /\ active' = p /\ listed' = records
  /\ UNCHANGED <<registry, db, cache, mode, settings, screen, unlocked, pickers,
                 switch, edit, alone, faults, syncing>>

\* The database does not open in time: the chain is abandoned with the
\* instance already replaced, and the hydration goes on without a profile.
ResolveFails(p) ==
  /\ boot = "resolving" /\ p \in StartProfiles \ {Default} /\ Fault
  /\ boot' = "hydrating" /\ open' = p
  /\ UNCHANGED <<registry, db, cache, mode, shown, unlocked, pickers, switch,
                 edit, alone, syncing>>

\* The second half: settings and slices of the open database.
Hydrate ==
  /\ boot = "hydrating"
  /\ loadSettingsFromStore(open)
  /\ settings' = Loaded(open) /\ mode' = Loaded(open).mode
  /\ screen' = open /\ boot' = "up"
  /\ UNCHANGED <<registry, open, people, unlocked, pickers, switch, edit, alone,
                 faults, syncing>>

-----------------------------------------------------------------------------
(* Who begins a switch. *)

Begin(c, p, via, at) ==
  /\ boot = "up" /\ switch[c].at = "idle"
  /\ switch' = [switch EXCEPT ![c] = [NoSwitch EXCEPT !.at = at, !.to = p, !.via = via]]
  /\ alone' = (alone /\ ~\E d \in Switches : InFlight(d))

\* Once per launch: enter the chosen profile, or ask.
LaunchChoice ==
  /\ boot = "up" /\ ~choiceMade /\ listed # {}
  /\ choiceMade' = TRUE
  /\ \/ /\ Cardinality(listed) > 1 /\ autoEnter \in listed \ {active}
        /\ \E c \in Switches : Begin(c, autoEnter, "auto", "looking")
        /\ UNCHANGED choosing
     \/ /\ Cardinality(listed) > 1 /\ autoEnter \notin listed
        /\ choosing' = choosing \cup {"launch"}
        /\ UNCHANGED <<switch, alone>>
     \/ /\ Cardinality(listed) = 1 \/ autoEnter = active
        /\ UNCHANGED <<choosing, switch, alone>>
  /\ UNCHANGED <<registry, db, cache, boot, open, mode, shown, unlocked, edit, faults, syncing>>

\* A tile of a picker is chosen, and the password given where one is asked: the
\* Enter key of the password form sends it again, busy or not.
Choose(c, p, via) ==
  /\ Picker(via) /\ p \in listed
  /\ \/ Free(via)
     \/ p \in Protected /\ \E d \in Switches : switch[d].via = via /\ switch[d].to = p
                                            /\ switch[d].at # "done"
  /\ Begin(c, p, via, "looking")
  /\ UNCHANGED <<registry, db, cache, boot, open, mode, shown, unlocked, pickers,
                 edit, faults, syncing>>

\* "Create your profile" at the launch choice or the lock: create and enter.
CreateAndEnter(c, p, via) ==
  /\ via \in {"launch", "lock"} /\ Picker(via) /\ Free(via)
  /\ p \notin records \cup Installed
  /\ Begin(c, p, via, "adding")
  /\ UNCHANGED <<registry, db, cache, boot, open, mode, shown, unlocked, pickers,
                 edit, faults, syncing>>

Created(c) ==
  /\ switch[c].at = "adding"
  /\ records' = records \cup {switch[c].to}
  /\ refreshProfiles
  /\ switch' = [switch EXCEPT ![c].at = "looking"]
  /\ UNCHANGED <<activeId, autoEnter, db, cache, boot, open, mode, settings, screen,
                 unlocked, pickers, edit, alone, faults, syncing>>

\* The profile menu opens the picker; Cancel and Escape close it, busy or not.
OpenPicker ==
  /\ boot = "up" /\ ~Modal
  /\ choosing' = choosing \cup {"switch"}
  /\ UNCHANGED <<registry, db, cache, boot, open, mode, shown, unlocked, choiceMade,
                 switch, edit, alone, faults, syncing>>

CancelPicker ==
  /\ "switch" \in choosing
  /\ choosing' = choosing \ {"switch"}
  /\ switch' = Unmounted(switch, "switch")
  /\ UNCHANGED <<registry, db, cache, boot, open, mode, shown, unlocked, choiceMade,
                 edit, alone, faults, syncing>>

-----------------------------------------------------------------------------
(* switchLocalProfile, from one await to the next. *)

\* swapLocalProfileStore, up to its open(): the open database is closed, unless
\* it is the one to open; a save to it gets no further.
swapLocalProfileStore(p) ==
  /\ open' = p
  /\ IF p = open THEN UNCHANGED <<db, edit>>
     ELSE /\ db' \in Interrupted
          /\ edit' = [e \in Edits |-> IF Saving(e) THEN [edit[e] EXCEPT !.at = "cut"]
                                      ELSE edit[e]]

\* The profile is there and its password right: the mode is clamped and the
\* database swapped.
Verified(c) ==
  LET p == switch[c].to IN
  /\ switch[c].at = "looking"
  /\ p \in records /\ (p \in Protected => switch[c].via # "auto")
  /\ unlocked' = unlocked \cup ({p} \cap Protected)
  /\ mode' = "offline"
  /\ swapLocalProfileStore(p)
  /\ switch' = [switch EXCEPT ![c].at = "opening"]
  /\ UNCHANGED <<registry, cache, boot, shown, pickers, alone, faults, syncing>>

\* The profile is gone, or the password is wrong: nothing was touched.
Refused(c) ==
  /\ switch[c].at = "looking"
  /\ switch[c].to \notin records \/ switch[c].to \in Protected
  /\ switch' = [switch EXCEPT ![c] = Ended(c)]
  /\ choosing' = IF switch[c].via = "auto" THEN choosing \cup {"launch"} ELSE choosing
  /\ UNCHANGED <<registry, db, cache, boot, open, mode, shown, unlocked, choiceMade,
                 edit, alone, faults, syncing>>

\* Mutants: the registry is not told; the page is told at once.
Mut_MarkedForgets(c) ==
  /\ switch[c].at = "opening"
  /\ switch' = [switch EXCEPT ![c].at = "touching"]
  /\ UNCHANGED <<registry, db, cache, boot, open, mode, shown, unlocked, pickers,
                 edit, alone, faults, syncing>>
Mut_MarkedEarly(c) ==
  /\ switch[c].at = "opening"
  /\ activeId' = switch[c].to /\ active' = switch[c].to
  /\ switch' = [switch EXCEPT ![c].at = "touching"]
  /\ UNCHANGED <<records, autoEnter, db, cache, boot, open, mode, settings, screen,
                 listed, unlocked, pickers, edit, alone, faults, syncing>>

\* The database is open, and setActiveProfileId is done.
Marked(c) ==
  /\ switch[c].at = "opening"
  /\ activeId' = switch[c].to
  /\ switch' = [switch EXCEPT ![c].at = "touching"]
  /\ UNCHANGED <<records, autoEnter, db, cache, boot, open, mode, shown, unlocked,
                 pickers, edit, alone, faults, syncing>>

\* lastUsedAt is written, and the reload reads the settings of the store that
\* is open by then.  IndexedDB lets earlier writes of a table go first.
SettingsRead(c) ==
  /\ switch[c].at = "touching"
  /\ ~\E e \in Edits : Saving(e) /\ edit[e].to = open
  /\ loadSettingsFromStore(open)
  /\ switch' = [switch EXCEPT ![c].at = "loading", ![c].from = open, ![c].got = Loaded(open)]
  /\ UNCHANGED <<registry, boot, open, mode, shown, unlocked, pickers, edit, alone,
                 faults, syncing>>

\* The other slices are read too: mode, settings and slices are set at once.
Reloaded(c) ==
  /\ switch[c].at = "loading"
  /\ mode' = switch[c].got.mode /\ settings' = switch[c].got
  /\ screen' = switch[c].from
  /\ switch' = [switch EXCEPT ![c].at = "refreshing"]
  /\ UNCHANGED <<registry, db, cache, boot, open, people, unlocked, pickers, edit,
                 alone, faults, syncing>>

\* refreshProfiles, and the picker closes.
Refreshed(c) ==
  LET closed == CASE switch[c].via = "launch" -> "launch"
                  [] switch[c].via \in {"switch", "gone"} -> "switch"
                  [] OTHER -> None
  IN
  /\ switch[c].at = "refreshing"
  /\ UNCHANGED registry /\ refreshProfiles
  /\ choosing' = choosing \ {closed}
  /\ switch' = Unmounted([switch EXCEPT ![c] = Ended(c)], closed)
  /\ UNCHANGED <<db, cache, boot, open, mode, settings, screen, unlocked, choiceMade,
                 edit, alone, faults, syncing>>

\* An open or a read rejects: the store was closed by another switch, or the
\* database cannot be opened or read.  Nothing that was done is undone.
Rejected(c) ==
  /\ \/ switch[c].at = "opening" /\ open # switch[c].to /\ UNCHANGED faults
     \/ switch[c].at = "loading" /\ open # switch[c].from /\ UNCHANGED faults
     \/ /\ switch[c].at \in {"opening", "touching", "loading"}
        /\ Fault
  /\ switch' = [switch EXCEPT ![c] = [Ended(c) EXCEPT !.at = "failed", !.via = switch[c].via]]
  /\ UNCHANGED <<registry, db, cache, boot, open, mode, shown, unlocked, pickers,
                 edit, alone, syncing>>

-----------------------------------------------------------------------------
(* Settings, and the list of profiles. *)

\* The settings that differ, which are the ones updateSettings writes.
Changed(next, previous) == {k \in Keys : next[k] # previous[k]}

Apply(e, next) ==
  /\ mode' = next.mode /\ settings' = next
  /\ edit' = [edit EXCEPT ![e] = [at |-> "saving", next |-> next, to |-> open,
                                  keys |-> Changed(next, settings),
                                  after |-> {d \in Edits : Saving(d)}]]
  /\ alone' = (alone /\ ~\E c \in Switches : InFlight(c) \/ switch[c].at = "failed")

\* A setting is chosen: it is in force at once, and the save begins.
updateSettings(e, m) ==
  /\ boot = "up" /\ ~Modal /\ edit[e].at = "idle" /\ m # settings.mode
  /\ Apply(e, [settings EXCEPT !.mode = m])
  /\ UNCHANGED <<registry, db, cache, boot, open, screen, people, unlocked, pickers,
                 switch, faults, syncing>>

\* A photo is picked in the profile menu: the handler keeps its settings and its
\* active profile while it is decoded.  A typed name is the same with nothing in
\* between.  syncLocalProfile, at the end, does nothing without an active profile.
PickImage(e) ==
  /\ boot = "up" /\ ~Modal /\ edit[e].at = "idle"
  /\ edit' = [edit EXCEPT ![e] = [NoEdit EXCEPT !.at = "decoding", !.next = settings]]
  /\ syncing' = IF active = None THEN syncing ELSE syncing \cup {e}
  /\ UNCHANGED <<registry, db, cache, boot, open, mode, shown, unlocked, pickers,
                 switch, alone, faults>>

Decoded(e) ==
  /\ edit[e].at = "decoding"
  /\ Apply(e, edit[e].next)
  /\ UNCHANGED <<registry, db, cache, boot, open, screen, people, unlocked, pickers,
                 switch, syncing, faults>>

\* syncLocalProfile: name and photo are in the record (neither is modelled), and
\* the profiles are read again, whatever switch has begun since.
Synced(e) ==
  /\ e \in syncing /\ edit[e].at # "decoding"
  /\ syncing' = syncing \ {e}
  /\ UNCHANGED registry /\ refreshProfiles
  /\ UNCHANGED <<db, cache, boot, open, mode, settings, screen, unlocked, pickers,
                 switch, edit, alone, faults>>

\* A save is done: its writes, and then the cache.  IndexedDB writes a key in
\* the order it was asked to, whatever else the saves do.
Saved(e) ==
  /\ Saving(e)
  /\ \A d \in edit[e].after : Saving(d) => edit[d].keys \cap edit[e].keys = {}
  /\ db' = Written(edit[e].to, [k \in Keys |-> IF k \in edit[e].keys THEN e ELSE None])
  /\ cache' = edit[e].next
  /\ edit' = [edit EXCEPT ![e] = [NoEdit EXCEPT !.at = "done"]]
  /\ UNCHANGED <<registry, boot, open, mode, shown, unlocked, pickers, switch, alone,
                 faults, syncing>>

\* A save whose database was closed: failed writes do not keep it from the
\* cache, but the debrid tables, which differ too, can no longer be read.
SaveCut(e) ==
  /\ edit[e].at = "cut"
  /\ cache' = IF "of" \in edit[e].keys THEN cache ELSE edit[e].next
  /\ edit' = [edit EXCEPT ![e] = [NoEdit EXCEPT !.at = "done"]]
  /\ UNCHANGED <<registry, db, boot, open, mode, shown, unlocked, pickers, switch,
                 alone, faults, syncing>>

\* Settings, Profiles: another profile than the active one is deleted.
deleteProfile(p) ==
  /\ boot = "up" /\ ~Modal
  /\ p \in listed \ {active} /\ Cardinality(listed) > 1
  /\ records' = records \ {p}
  /\ refreshProfiles
  /\ alone' = (alone /\ ~\E c \in Switches : InFlight(c) \/ switch[c].at = "failed")
  /\ UNCHANGED <<activeId, autoEnter, db, cache, boot, open, mode, settings, screen,
                 unlocked, pickers, switch, edit, faults, syncing>>

-----------------------------------------------------------------------------

Next ==
  \/ Restart \/ Hydrate \/ LaunchChoice \/ OpenPicker \/ CancelPicker
  \/ \E p \in Profiles : ResolveProfile(p) \/ ResolveFails(p) \/ deleteProfile(p)
  \/ \E c \in Switches :
       \/ \E p \in Profiles, via \in {"lock", "launch", "switch"} :
            Choose(c, p, via) \/ CreateAndEnter(c, p, via)
       \/ Created(c) \/ Verified(c) \/ Refused(c) \/ Marked(c)
       \/ SettingsRead(c) \/ Reloaded(c) \/ Refreshed(c) \/ Rejected(c)
  \/ \E e \in Edits :
       \/ \E m \in Modes : updateSettings(e, m)
       \/ PickImage(e) \/ Decoded(e) \/ Synced(e) \/ Saved(e) \/ SaveCut(e)

Spec == Init /\ [][Next]_vars

-----------------------------------------------------------------------------
(* Properties. *)

Failed == \E c \in Switches : switch[c].at = "failed"
Creating == \E c \in Switches : switch[c].to \notin Installed \cup {None}

\* Without the lock screen nothing of a protected profile is shown whose
\* password was not given since the page was loaded: the slices of the next
\* profile arrive before its name lifts the lock (AppStore.tsx 591-615,
\* App.tsx 360), however many switches, edits and deletions meet.
LockedStaysHidden ==
  boot = "up" /\ active # None /\ ~Failed /\ ~Locked /\ (alone \/ ~Creating)
    => screen \notin Protected \/ screen \in unlocked

\* When all is at rest and no switch was overtaken or failed, registry, open
\* database, page and network mode are those of one profile.
SwitchesSettle ==
  /\ boot = "up" /\ active # None /\ alone /\ ~Failed
  /\ ~\E c \in Switches : InFlight(c)
  /\ ~\E e \in Edits : Saving(e)
  => /\ open = active /\ screen = active
     /\ settings = db[open] /\ mode = settings.mode

-----------------------------------------------------------------------------
(* A statement that the code does not keep; README section 4 says how it     *)
(* fails.  No run checks it.                                                 *)

\* The network mode is never wider than the one the open profile has stored,
\* unless its own change to it is being saved ("Clamp to the most restrictive
\* mode so a scheduler tick in that sub-second window cannot make a call the
\* target profile would block", AppStore.tsx 603-606).
PrivacyKept ==
  boot = "up" /\ mode # "offline"
    => \/ db[open] # None /\ db[open].mode = mode
       \/ \E e \in Edits : Saving(e) /\ edit[e].to = open
=============================================================================
