# DebridStreamer: formal models

TLA+ modules, TLC configurations and TLAPS proofs for DebridStreamer: a
self-hosted streaming server (`server/`), a web application (`web/src/`) and the
desktop application around it (`web/src-tauri/`). Line numbers below are those
of the repository the modules stand beside; `PROJECT.json` maps every definition
to its lines, and lists the runs, mutants, findings, hazards and theorems.

    tlc -workers 2 -config MCTranscodeFaults.cfg MCTranscodeRegistry.tla
    tlc -workers 2 -config MCDownloadsSlots.cfg DownloadQueue.tla
    tlc -workers 2 -config MCServerHost.cfg ServerHost.tla
    tlapm TranscodeRegistryProofs.tla
    tlapm DownloadQueueProofs.tla
    tlapm HouseholdProofs.tla
    tlapm ServerHostProofs.tla
    tlapm PlaybackProxyProofs.tla
    tlapm LocalProfilesProofs.tla

## 1. The system

### Components, their state and their operations

| Component | State | Operations | Modelled by |
|---|---|---|---|
| Server transcode registry (`transcodeSession.ts`, `transcode.ts`) | maps `jobs` and `pending`, ffmpeg children, temp dirs, `stream_sessions.transcode_dir` | `ensureJob`, `createJob`, `kill`, `dirFor`, `reap`, `start`, `stop`; manifest, asset and revoke handlers | `TranscodeRegistry`, `SlotPool` |
| Web download manager (`DownloadManager.ts`) | download rows in IndexedDB, a cache of them, launches, update queues, retry timers, native claims | `enqueue`, `pump`, `resolveAndStart`, `handleProgress`, `startOptimization`, `pause`, `resume`, `retry`, `forceStop`, `cancel`, restart recovery | `DownloadQueue` |
| Native download executor (`downloads.rs`) | job table with generations, files, events | start, pause, resume, cancel, force stop, transcode, delete | `NativeDownloads` |
| Server accounts and sessions (`app.ts`, `crypto.ts`) | accounts, profiles, sessions, invites (SQLite) | owner set-up, login, logout, revocation, invites, account creation, roles, disabling, passwords | `Accounts` |
| Household profiles (`app.ts` 2976-3374) | profiles of an account, their guards, each session's active profile | create, delete, switch, guard, maturity | `Household` |
| Database (`db.ts`) and recovery tool (`recovery.ts`) | pid lock file, database and its wal, snapshots, backups | acquire, release, open, migrate, backup, restore; owner reset (in `Accounts`) | `ServerDatabase` |
| Server host supervisor (`server_host.rs`) | child process, generations, respawn counter | start, status, monitor, respawn, stop | `ServerHost` |
| Playback proxy (`playback_proxy.rs`) and the mpv slot (`player.rs`) | flag, counter and times of a proxy; transfer threads; the current player | play, stop, accept, relay, retry, expire | `PlaybackProxy` |
| Login throttle and rate limiter (`app.ts` 505-547, 2334-2452) | in-memory counters | check before, count after, an awaited password hash | no: it only refuses |
| Library, history, media requests (`app.ts`, `schema.ts`) | tables | single-statement handlers | no: nothing interleaves |
| Cast and playback authorisation (`cast.rs`, `playback_auth.rs`) | none | network output, validation | no |
| Debrid services (`services/debrid/`) | remote torrents, caches | fallback, polling, cache merge | no |
| Trakt sync and scrobbling | watch state, session events | two-way merge | no |
| Profiles of a device (`AppStore.tsx`, `storage/`, `data/settings.ts`, `LocalProfilePicker.tsx`, `App.tsx`) | a registry, a database per profile and a cache of settings on the device; the open database, the network mode and the shown profile of the page | hydrate, switch, lock, auto-enter, create, delete, load and save settings | `LocalProfiles` |
| Rest of the client's storage and state: other tables, keychain migration, Server Mode store, navigation | IndexedDB, keychain, browser history | get, put, migrate | the download rows only |
| Stream proxy and upstream guard, indexers, metadata, AI, subtitles | none worth checking | HTTP and parsing | no |
| Players and render surfaces, screens, web sites, deployment, legacy Swift application | | | no |

### How they interact

The server is one Node process: handlers are asynchronous functions that share
the registry's two maps and a synchronous SQLite connection, so races happen at
awaits only. ffmpeg children and temp dirs outlive a crash of the process. The
reaper is an interval timer, armed while there are jobs.

The download manager runs in the web view's event loop. It awaits IndexedDB
(every row write goes through a per-row queue, `updateRecord`), the debrid
resolver, and commands of the native executor, which runs threads of its own and
reports with events. Events and command answers travel apart and may cross. Row
changes come back through a live query, which refreshes the cache and pumps.

The desktop application owns one server process (`ServerHost`), which owns the
database file through its lock (`ServerDatabase`); the restore command is a third
program over the same files. Processes meet in the file system only, and each
may be killed between two calls of it. A player of the desktop application owns
a proxy, which owns threads.

A page of the web application has one database open at a time. `getStore()`
answers with the one open when it is asked, the profile registry is a database of
its own, and the settings are also in `localStorage`, where the next page finds
them before any database is open.

### What is hard

- server: two players start, share, replace and abandon one session's transcode
  while files are removed, the session is revoked, the reaper runs, the process
  crashes or the application closes;
- downloads: a pause, stop or retry lands in the middle of a launch, of a
  completion or of a queued write; progress timers fire late; `completed` means
  "transferred" or "done" by the cached status; retries race the user; after a
  restart the rows say things no worker does;
- accounts: a row is checked, a password hashed (awaited), the row written;
- lock, restore and supervisor: crashes between two file system calls, process
  ids read from files, a stop in the middle of a respawn;
- proxy: threads that read a flag, a counter and a time one after the other;
- profiles: a switch changes network mode, database, registry, page and lock in
  seven awaits, and other switches, edits, failures and reloads come between.

### What makes each correct

| Component | Properties |
|---|---|
| transcode registry | the cap holds; at most one creation per session; no process without an owner (violated); a client never gets another timeline; calls are answered; a revoked session ends with nothing |
| downloads | never more than `concurrency` slots; every queued row comes to rest; retries are bounded; canceled rows stay so (violated). Broken and left unchecked, section 4: a completed row names a whole file, phases do not regress, paused rows stay so |
| accounts | one owner by set-up; always an owner who can sign in; uses of an invite counted exactly |
| household | the active profile of a session exists and is the account's; the limit holds; guards in public mode |
| lock and recovery | at most one live server per database; a kill at any step loses no commit; an upgrade is preceded by a copy |
| supervisor | no server outside its hands; a stop wins over a respawn; a start ends in a server or in giving up |
| proxy | no transfer outlives its proxy; no command ends the current player's proxy or leaves another one alive; none goes idle under a transfer; every one ends |
| profiles of a device | a protected profile is not shown without its password; registry, database, page and network mode come to agree. Broken and left unchecked: the mode is never wider than the open profile allows |

`PROJECT.json` lists the hazards one by one with the property that covers each
or the reason that none does.

## 2. Modules

### TranscodeRegistry

One *call* is one execution of the `index.m3u8` handler. A call creates at most
one job, so the job, its ffmpeg and its temp dir are named after it. `phase` is
where the handler stands:

| phase | code |
|---|---|
| `checked` | row loaded, `assertSafeUpstream` awaited (app.ts 4896-4936) |
| `killing` | `await this.kill` of a job with other options (359) |
| `sharing`, `waiting` | awaiting somebody else's creation (361-369), same or other options |
| `refusing` | the 503 of a `createJob` at the cap, which is in `pending` until its `finally` runs (370-393) |
| `creating`, `probing`, `clearing` | mkdir and mkdtemp, ffprobe and placeholder, rm after a failed spawn (395-424) |
| `starting`, `aborting` | polling for the first segment (446-453), killing after it failed (454-464) |
| `reading`, `answered` | reading the manifest, done |

An action is the code from one await to the next. `jobs`, `pending` and
`recorded` are the code's two maps and the `transcode_dir` column; `removal` is
how far the rm and the UPDATE of a `kill()` are; `ffmpeg` and `dir` are the
world outside. Continuations of settled promises (microtasks) run before the
next event: that is `Woken`/`EventTurn`. The order among several woken calls is
left open. `Kill` is the synchronous first part of `kill()`; `RemoveDir` and
`ClearRecorded` are the rest.

Abstractions: ffmpeg's arguments, manifest contents and segment numbers are
left out; a dir is `playable` once manifest and first segment exist; an options
fingerprint is a model value; time is left open (a start-up may be late at any
moment, a job idle at any moment).

Nothing is assumed about the length of a removal: a `kill()` may be overtaken by
any number of start-ups.

`SlotPool` is the abstract specification: sessions take one of `Size` slots,
start, go live or give up, and free the slot; a live slot is never taken again
without being freed first. The mapping: `starting` when `pending` has the
session with a creation that passed the cap, else `live` when `jobs` has it, else `free`.

### NativeDownloads and DownloadQueue

`NativeDownloads` is the executor: `native` is the job table's entry, `path` its
destination or input, `file` the two files a job may have on disk (the transfer's
and `optimizedOutputPath` of it), `events` what it emitted and the web view has
not yet seen. Only the worker of the current generation may emit or finish, so
one value per job is enough. A command takes effect when it is sent: before its
answer the sender cannot see the difference. One that discards a job takes it from
the table at once and removes its files afterwards, a file at a time (`removals`),
while other commands for the same job go on; its event and its answer come last. Two files matter because an
optimized download is transferred to one and transcoded to the other, and the
source is removed before the job ends (`encoded`).

`DownloadQueue` EXTENDS it and is the scheduler. The variables stand for:

| variable | code |
|---|---|
| `row`, `dest`, `changed` | the durable row, and that the live query owes a delivery |
| `cache` | `recordsByJobId` |
| `pumping` | `pump()` awaits its list of rows (a second request is dropped, 515) |
| `launch`, `aborted` | an entry of `launches`: where `resolveAndStart` awaits, and its AbortController |
| `claim`, `pausing`, `unsaved` | `nativeJobs`, `pausing`, `pendingProgress` |
| `updates`, `writing` | `recordUpdateTails`: the queued updates of a row, and whether the first awaits IndexedDB |
| `attempts`, `timer` | automatic retries |
| `ffmpeg`, `optimizing` | the cached ffmpeg probe, and `startOptimization` calls in flight |
| `waiting` | control calls (pause, resume, stop, retry) that await an answer |

An update is a record: the status it writes, the statuses that allow it
(`allowedStatuses`), the destination, and `then`, the code behind its await. That
continuation is the heart of the model: `Marked`, `Claimed`, `Failed`,
`CompletionWritten`, `TranscodeStarts`, `ControlWritten` are what follows a
write. Work that is ready in the same turn of the event loop (an update whose
turn has come) runs first: `JsTurn`.

Abstractions: bytes are three contents (`part`, `whole`, and `mixed`: a transfer
written over a finished output; a transcode of such a file would have itself as
output, which ffmpeg refuses, so it can only fail); rows are admitted in any
order instead of by age; a click the row's status does not allow only refreshes
the cache and is left out; `cancel()` (no screen calls it), the removal of
finished rows and notifications are left out. `RetryFires` relies on timers: the
retry timer runs for at least 1.5 s, and a pause or resume sent before it is
answered by then (the executor takes a lock, and retries a removal 20 times 50
ms at most).

### Accounts and Household

A *request* is one HTTP request that creates a row or awaits a hash; it makes at
most one account, profile, session and invite, so rows are named after it, and
the default profile of account `r` is profile `r`. `users`, `profiles`,
`sessions`, `invites` are the tables. A handler without an await is one action;
one with an await is two: `SetupOwner` and `FinishSetup`, `AcceptInvite` and
`FinishInvite`, `CreateProfile` and `FinishProfile`, and so on, with `call`
holding what the handler captured before the await (its `readAuth`). What the
second half reads again (the users, the invite, the count of profiles) is read
from the tables, what it does not is taken from `call`: that is where the races
are. `AuditAccepts` is the foreign key of the audit row that every transaction
writes: when the acting profile is gone the transaction fails (`ActorDeleted`).

`Household` EXTENDS it with profiles within an account. `gated` is a password or
a PIN; `Immediate` puts a creation without a password, which does not await, in
one turn. Passwords matter where a hash is replaced; wrong ones are left out, as
a failed attempt writes none of these tables. The recovery command's owner reset
is `RecoverOwner`: the server is stopped for it, so requests in flight end.

### ServerDatabase and ServerHost

A *process* is one run of the program, as server or as restore command, and
`proc[p].at` the system call it is about to make: `check`, `probe`, `remove`,
`create`, `write` for the lock (db.ts 105-178), `open`, `snapshot`, `migrate`,
`serving` (33-41, 197-259), and `save` to `discard` for a restore (recovery.ts
100-145). `Killed` may take any of them at any point. `lock` keeps who created
the file apart from the pid in it, since a write goes to the file that was
opened, not to the one at the path. `data[f]` is what a file holds: whose data it
is, how many commits, how many of those are out of the write-ahead log
(`flushed`: the restore deletes the log), and its schema version. `live` is the
file at the database's path, `displaced` those moved aside, `copies` the
contents of snapshots and backups.

`ServerHost` EXTENDS it: `registered` is the child in the mutex, `desired` and
`generation` the atomics, `command` the Tauri command on the main thread,
`monitor` the monitor thread. A step is the code between two accesses of the
shared state. `Start` is one step: commands run one at a time, the old monitor
is joined first, so nothing else changes this state in between. The six seconds
of `wait_for_port` are left open: a probe may time out whenever the port is not
open. `StatusFails` is a `try_wait` that returns an error: the monitor drops, and so
kills, a child that may be alive.

### PlaybackProxy

A *play* is one `mpv_play` with an authenticated url, and its proxy is named
after it. `server` is where the accept loop stands: `polling` (should_stop's
flag and lifetime), `counted` (it read a zero counter and is to read the time),
`accepting`, `joining`. A player that a command has taken out of the slot is `taken`
until that command drops its lease, after the lock of the slot is given back. A connection is a transfer thread: `sending`,
`waiting` for its retry, `testing` the flag, `reading` a piece, `returned` from
`handle_connection`, `noted` its activity. `age` and `quiet` are the elapsed
times of `started` and `last_activity`, which saturate at their limits, and
`rest` is the time since a transfer noted its activity, which the property
needs and no action reads. The player connects when it likes; the listener's
queue is not kept.

### LocalProfiles

A switch is one execution of `switchLocalProfile`, and `switch[c].at` the await
it stands at: `adding` (createProfileRecord), `looking` (record and password),
`opening` (the database), `touching` (registry written, lastUsedAt under way),
`loading` (settings read, the other slices not), `refreshing`; `via` is what
began it, one of the three pickers or auto-enter, whose `busy` flag and `onClose`
it owns. An edit is one `updateSettings`, from a control or from a photo that has
been decoded; it keeps the database that was open when it began. A photo or a name
is also written to the registry, after which the profiles are read again, also in
the middle of a switch (`syncing`, `Synced`).

`open` is the profile of `dexieInstance`, `mode` what `networkPolicy` enforces,
`screen` whose watchlist and history are shown. Settings are two fields: the mode,
and whose settings all the rest are. `Loaded` is what a load finds, the seeding
of an empty database from the cache included. `swapLocalProfileStore` closes and
replaces in one step and leaves any part of a save to the old database undone
(`Interrupted`, as does `Restart`); the save goes on as `cut`. IndexedDB lets
earlier writes of a table go before later reads, which is a guard of
`SettingsRead`, and before later writes, which is one of `Saved`: saves overlap,
but of two that write the same key the later one is the later to be done
(`after`), and an interrupted database holds, key by key, what some save of it
wrote last (`Written`).

Left out: `fullLocal`, which lies between the two modes; setting passwords (those
of `Protected` have one), admin rights and the multi-user switch (and the refresh after it and after a
rename in the settings page, Settings.tsx 886-890 and 967); the design
refresh, restore and factory reset; a registry that fails. A wrong or forgotten
password is `Refused`. `alone` is a history variable: since the page was loaded,
no switch, edit or deletion met a switch under way, and the registry named a
profile that exists.

### Proof modules

Each theorem of section 5 is in the proof module of the component it is about,
`TranscodeRegistryProofs`, `DownloadQueueProofs`, `HouseholdProofs` (with the accounts under it), `ServerHostProofs`
(with the database under it), `PlaybackProxyProofs` and `LocalProfilesProofs`, with
its inductive invariant and the lemmas it rests on; the models hold no proof.

## 3. What the runs show

| Run | Instance | Checked |
|---|---|---|
| `transcode_live` | 1 session that may be revoked, 2 calls, 2 options, fair | `EveryCallAnswered`, `RevokedSessionQuiesces` |
| `transcode_faults` | 2 sessions, 2 calls, 2 options, 1 slot; failing disk, one crash, shutdown | `TypeOK`, `CapRespected`, `CreationsExclusive`, `StartingOwnsJob`, `RightTimeline`, `ImplementsPool` |
| `transcode_orphans` | 1 session, 3 calls, 2 options, 2 slots; no fault | `EveryFfmpegIsOwned` is violated |
| `downloads_slots` | 2 downloads, one of them size-checked, 1 slot, one of pause, stop, retry; fair | `TypeOK`, `SlotCap`, `EveryDownloadComesToRest` |
| `downloads_retries` | 1 optimized, size-checked download; 1 automatic retry, 2 of pause, resume, retry; failing disk; one restart; fair | `EveryDownloadComesToRest`, `RetriesAreBounded` |
| `downloads_canceled` | 1 download, one stop | `CanceledIsFinal` is violated |
| `accounts` | 4 requests, public mode, invites of one use, all account operations | `TypeOK`, `OneSetupOwner`, `InviteUsesCounted`, `AnOwnerCanSignIn`, `PublicProfilesAreGuarded` |
| `household` | 4 requests, 2 profiles per account, all profile operations, password changes | `ActiveProfilesExist`, `LimitHolds` |
| `server_host` | 4 processes, 2 starts, 2 respawns, one kill or failing rename, a restore of an old or a too new backup, 1 commit; fair | `HostTypeOK`, `OneServer`, `NoStrayServer`, `StoppedMeansStopped`, `NothingIsLost`, `UpgradesAreSnapshotted`, `ServerSettles` |
| `database_restart` | 2 runs of the program with the same pid | `RefusedOnlyWhenOpen` is violated |
| `playback_proxy` | 2 plays, 2 connections, a cap of 1, lifetime twice the idle timeout; fair | `TypeOK`, `EndedProxyIsQuiet`, `OnlyThePlayerIsServed`, `IdleStopsAreIdle`, `EveryProxyEnds` |
| `local_profiles` | 3 profiles, of which one is yet to be created and one has a password; 2 switches, 1 edit, one reload or failing database | `LockedStaysHidden`, `SwitchesSettle` |

Distinct states: `transcode_live` 99,770, `transcode_faults` 649,196,
`downloads_slots` 68,476, `downloads_retries` 241,024, `accounts` 42,313,
`household` 41,103, `server_host` 708,886, `playback_proxy` 361,858,
`local_profiles` 1,206,469.

**Bounds.** Transcodes: replacing a job by another needs a first call that made it
and one that kills it, and to be overtaken one more that creates meanwhile, so
three calls on one session; the cap needs two sessions and one slot, which fills the
pool of `ImplementsPool`. A second crash or a third option set adds
nothing that the first does not reach. Downloads: two rows and one slot are the
smallest contention; `Concurrency` is 1 to 3 in the code. In `downloads_retries` `MaxRetries` is 1
(the code's `MAX_AUTOMATIC_RETRIES` is 2): one retry meets every action of the
retry machinery and its exhaustion. `MaxEvents` bounds the progress reports that
are under way and never a terminal event, `MaxUpdates` the updates that wait when
a progress report is saved, `MaxClicks` the user's operations; one or two clicks
fit between any two awaits of a launch. Symmetry is used where all sessions are
alike and no liveness is checked. Accounts: a race needs an owner (set-up and
login), and two overlapping requests, which is four; with `MaxUses` 1 two
acceptances already meet the bound, with `ProfileLimit` 2 (12 in the code) two
creations. `accounts` and `household` split the operations between them
(`Handlers`): each has those its properties depend on. Database: a fault, a
respawn after it and a restart by the user are three processes, a restore is the
fourth; one commit tells kept from lost. The schema of the installation is one
step behind (`Latest` 2), that of a backup two steps behind or newer. The code's
`SERVER_MAX_RESPAWN_ATTEMPTS` is 5; two meet the counter, its reset and its end.
Proxy: `MAX_CONCURRENT_CONNECTIONS` is 8, 15 minutes of idleness and 6 hours of
lifetime are one and two ticks: an idle stop, then a stop of old age, are apart.
`PlayCount` and `ConnectionCount` bound the model; two overlapping plays are
what a slot of one can mix up. Profiles: two switches are what can overlap, one
edit meets them at every await, and the three profiles are the default one, which
has a password and a standard mode, one without a password that is offline, and
one to create. `MaxFaults` 1 puts a reload or a rejection anywhere; two in a row
meet a page that the first has already made start over. A second edit makes the
instance too large to keep: overlapping saves were checked with one switch and
two edits (141,488 states), and with two of each and no fault (3.7 million), and
are covered by the proofs.

**Fairness.** Server: Node runs every ready continuation and timer (weak fairness
of each call's handler and of each kill), the reaper's interval fires while it is
armed, and a signalled child dies, by SIGKILL after 3 s at the latest. Nothing is
assumed of ffmpeg's progress: the start deadline answers for it. Web view:
IndexedDB, the resolver and native commands answer, timers fire, and a transfer
or transcode ends, in success or failure. Supervisor: the main thread finishes a
command, the monitor thread runs, and processes make their next system call.
Proxy: the clock advances, the accept loop polls (every 20 ms), and each transfer
thread goes on, since all its I/O has timeouts (10 s and 30 s); that a body ever
ends is not assumed. No fairness is given to users, crashes,
revocations, kills or idleness.

**Deadlock** is checked in the two passing transcode runs: a step `Finished` stutters only
when every call is answered, every kill done and every child ended. The download
runs switch it off, since with all rows at rest and the user's operations spent
the system really may stop; `EveryDownloadComesToRest` shows it stops nowhere
else. It is a leads-to from `queued`, which is how both launches and retries
begin. Accounts, database, proxy and profiles switch it off as well: the system stops
when the requests, processes, plays or switches of the instance are used up.

**Mutants.** Each property of a passing run has a mutant in the module, a
plausible slip in a mapped definition (a missing deletion, a guard on one map of
two, a terminal event taken for the wrong phase), that makes it fail.

## 4. Findings

1. `transcode_orphans` (transcodeSession.ts 359): `jobs` is not looked at again after
   `await this.kill`. A call that arrives during that removal finds neither job nor
   creation, creates and registers; when the removal ends after that creation
   settled, the first call creates its own and `jobs.set` overwrites the other,
   whose ffmpeg nobody will stop, against "so there are no zombie ffmpegs or
   orphaned dirs" (5-7). It needs a removal slower than a start-up. The theorem
   `StraysComeFromOvertaking` says that without crashes this is the only way.
2. `downloads_canceled` (DownloadManager.ts 552): a stop's write is not yet done
   when `pump()` lists the rows; the launch's `resolving` is queued behind
   `canceled`.
3. `database_restart` (db.ts 127): a stopped server leaves its lock, and the pid
   in it is probed without asking whose it is. In the container image every run
   is pid 1, so the run after a stop finds itself and refuses to start. Where
   pids differ it takes a reused pid.

Seen while modelling, in conflict with a text of the repository and checked by no
run. Each name is a definition in its module; adding it to a configuration shows
the schedule:

- `EveryDirIsOwned` (transcodeSession.ts 412): a creation whose placeholder write
  fails rejects and leaves its dir, with `DiskMayFail` and no other fault, against
  the promise of lines 5-7; so do a kill whose `rm` fails (322) and the
  overwritten job of finding 1;
- `JobDirRecorded` (324): the UPDATE `transcode_dir = NULL` of a kill runs after its
  rm and clears the record that a newer job of the session has written meanwhile,
  so that "a boot sweep cleans crash leftovers" (6) will not find that dir;
- `BusyOnlyWhenFull` (391): a starting job is in `jobs` and in `pending`, and counts
  twice; the second of two slots is refused while the first one starts, against
  "Maximum simultaneous FFmpeg HLS jobs" (docs/self-hosting.md:145);
- `ReturnedDirIsReady` (355): a second request for the same options during the
  start gets the dir before the manifest exists, and so an error, against "once the
  manifest + first segment are available" (338-339);
- `PausedStaysPaused` (DownloadManager.ts 600): no currency check after the
  free-space answer, so a paused launch writes `downloading` over `paused`,
  starts nothing and keeps its slot, against "Paused records stay paused" (222), and
  the next row in the queue waits for ever.
  `EveryDownloadComesToRest` excludes this schedule by `CaughtMeasuring`: it shows
  that there is no other but that one and `PauseFailsLate` (below);
- `FinishedFilesAreWhole` (628-710), against "only complete after ffmpeg emits its
  terminal event" (219-222): events carry the job and not which of its runs they are
  of, and what `completed` ends is told by the cached status. A
  `completed` that a pause of the transcode and a resume overtake completes the row
  while the transcode begun by the resume still writes (three clicks). A stop
  removes the file before the row is written: a row whose completion is under way
  then names a file that is gone;
- `ProgressNeverRegresses`: a `canceled` event that a resume overtakes puts the row
  of a running transcode back to where a second resume queues it again (three
  clicks). After a stop that is answered with an error and a retry, the answer to a
  question for ffmpeg asked before the stop may come after the new transfer began,
  and `startOptimization`, which finds the row `downloading`, takes that transfer
  for the one it was to transcode;
- the restore command "then replaces the database atomically" (docs/recovery.md
  48-49): a kill between its two renames (recovery.ts 131) leaves no database, and
  the next start creates an empty one beside the displaced file. `NothingIsLost`
  shows that the displaced file is kept, not that the replacement is atomic;
- `OwnersAreEnabled` (app.ts 2908-2951): "Cannot be disabled", says
  docs/multi-user-and-profiles.md:75 of owners; a disabled admin may be made an
  owner and stays disabled;
- `KidProfileIsLocked` (app.ts 3190): a switch to a profile with a PIN that was
  begun before the session entered the kid profile takes it out again without the
  account's password;
- `PrivacyKept`, and `SwitchesSettle` without `alone` (AppStore.tsx 603-607): two
  switches overlap when the switch picker is cancelled while busy, when a password
  form is sent twice with Enter, or when a choice is made while auto-enter runs.
  The reload of the first then sets its mode after the clamp of the second,
  against "cannot make a call the target profile would block", and registry, open
  database and page may stay on different profiles;
- `Loaded` (settings.ts 998-1025): the "one-time migration" also runs for every
  new profile, and seeds its database from the cache of the profile before it,
  network mode included, against "its own empty database"
  (LocalProfilePicker.tsx 52-56);
- a reload between the write of the active profile (AppStore.tsx 609) and that of
  the cache starts the next page under the mode of the profile before, against
  "never has a boot window running under the default mode" (424-427). `PrivacyKept`
  speaks of the hydrated page only.

Seen while modelling, with no text in the repository that promises otherwise:

- a switch that is rejected after its clamp (open or read failed) leaves its picker
  busy for good, the mode offline and the old profile's page over the new
  database; `Failed` keeps it out of the properties;
- "Create your profile" at the lock refreshes the active profile; when auto-enter
  has just marked another one, the lock lifts before the page has changed
  (`Creating` in `LockedStaysHidden`);
- a photo decoded after a switch saves the settings it captured before, all of
  them, to the database of the new profile;
- when a profile's database does not open at boot the catch goes on "on the
  already-open default DB" (AppStore.tsx 485), with the instance already replaced
  and no active profile, and so no lock;
- two servers started by hand on one stale lock can both open the database: the
  second unlinks the lock that the first has created (db.ts 135); a kill between
  creating and writing the lock leaves an empty one, which refuses every later
  start (166). The supervisor meets neither harm: it starts one at a time, and
  gives up;
- the restore command looks at the lock and does not take it (recovery.ts 109): a
  server started during a restore may open the file that is then moved aside. The
  runs assume what the runbook asks (`Careful`);
- a login whose verification began before a password change ends with a session
  that the change does not revoke;
- a job whose ffmpeg failed after its first segment is still reused (355) until
  it is idle for two minutes;
- a crash between mkdtemp (396) and the UPDATE (434) leaves a dir no sweep knows,
  the boot sweep does not stop ffmpegs that survived the crash, and `stop()` (285) misses creations in flight;
- a pause during `startOptimization` reaches the executor before
  `transcode_start`: the row is paused and the transcode runs on, its completion
  ignored;
- a pause of a transcode whose output cannot be removed is answered after the
  `failed` event of the removal: the event meets the pause still under way and may
  be ignored, and the row stays `optimizing` with no job behind it
  (`PauseFailsLate`);
- a resumed transfer may fail before the resume's answer is handled: the event
  meets a paused row and is dropped, then `downloading` is written for a job that
  is gone;
- a stop or pause that crosses a completion may turn the completed row to
  `paused`; resuming transfers onto the finished output (`mixed`). A stop may
  delete the file of a row that stays completed if the application ends in
  between;
- a pause between the removal of a transcode's source and the end of its job
  deletes the output as well (downloads.rs 1037): both copies are gone.

The project has twelve runs, of the questions that say most; the statements above
are kept as definitions, described here and checked by none. `downloads_slots`
leaves out `resume`, which passes the queue by design (369-398) and so breaks
`SlotCap`; `downloads_retries` leaves out `stop`, whose schedules the other
download runs have.

## 5. What is proved

Each theorem is proved for every value of the constants that the named `ASSUME`s
of its modules allow, which TLC evaluates in every run; a further hypothesis is in
the theorem's own `ASSUME` and in the tables below. Every inductive invariant was
also checked by TLC on an instance of its module.

### TranscodeRegistryProofs

Any finite set of sessions, any calls and options, any cap and number of crashes.

| Theorem | Holds |
|---|---|
| `TypeCorrect`, `CreationsAreExclusive`, `StartupKillsItsOwnJob`, `CapHolds`, `TimelinesAreRight` | always, with every fault |
| `RegistryImplementsPool` | always |
| `StraysComeFromOvertaking` | without crashes: in a behaviour with `[]NoneOvertaken` every running child is owned |

The argument is a chain of inductive invariants.

- `Typed`: `TypeOK`, and a call that was begun has a session and options.
- `Exclusive`: a call is in a creation phase exactly when it is its session's
  entry of `pending`, and a creation that polls finds its own job or none.
  Neither half is inductive alone: the failure path of `createJob` kills by
  session id, and only the exclusiveness of creations says whose job that is.
- `CapRespected` follows because only an admission adds a session to `Slots`,
  and it is made when two counts, which may count a session twice, are below the
  cap (`AdmissionBelowCap`, `AdmissionFits`).
- `Timelines` adds that a job belongs to the session it is registered for, and
  that a call which has a dir has one made for what it asked: it took the dir of
  its session's job after it compared the options, or the one of the creation it
  began or joined, and neither changes what it asked.
- `RegistryImplementsPool`: every step maps to a step of the pool or a stutter, kills
  to the release of slots that are live, a settling creation to its slot going live
  or being given up. It needs neither prompt removals nor a disk that works: an
  overwritten job is a slot that is taken again by an admission, since the pool
  counts slots and not processes.
- `StraysComeFromOvertaking` is about the one property of the registry that the code
  does not keep. `NoneOvertaken` says that while a call awaits a kill its session has
  no job, or has a creation in flight that the call will find.
  `Owned` is inductive while it holds: a creation before its registration has no job
  to overwrite (`SlotFree`). So finding 1 is the only cause of a stray ffmpeg, and
  neither failures nor shutdown nor the reaper is another. A crash orphans children
  by its nature, hence `MaxCrashes = 0`.

### DownloadQueueProofs

Any finite set of downloads, any number of clicks, retries, events and restarts.

| Theorem | Holds |
|---|---|
| `TypeCorrect` | always |
| `SlotsHold` | without the user's `resume`, as in the run |

- `Typed`: `TypeOK`; `UpdatesGood`, an update that goes on to a native command
  carries the destination it was given; and `DestsKnown`, the executor knows nothing
  of a job before its row has a destination. Types alone are not inductive: a paused
  job is optimized with the destination in its row.
- `SlotInv` says of every job how its launch, its waiting updates, the one being
  written and the cached row fit together (`LaunchesMatch`, `UpdatesFit`,
  `WritingFits`, `CacheFresh`): a row becomes active by an update of its launch,
  or by one that only an active row permits, and a launch holds the slot until the
  update it awaits is done. So `PumpRun` alone takes a slot, and it counts first
  (`PumpSlots`); every other step leaves `Busy' \subseteq Busy` (`SlotsShrink`).
- `resume` passes the queue by design: it puts a parked transfer back to work
  without a slot, so the hypothesis excludes it.

### HouseholdProofs

`HouseholdSpec`: any sets of requests and passwords, any `MaxUses` and
`ProfileLimit`, any `Handlers`, with or without public mode.

| Theorem | Holds |
|---|---|
| `TypeCorrect` | always |
| `OneOwnerIsSetUp`, `UsesCounted`, `OwnerCanSignIn` | always |
| `PublicGuarded`, `ActivesExist`, `ProfilesWithinLimit` | always |

- `Sound` is the inductive invariant below all of them: `TypeOK`; `DefaultsStay`,
  an account keeps the default profile it was created with; `RowsAreMadeLast`, a
  request makes its rows in the step that answers it; and `CapturesHold`, what a
  request captured before it awaits still names rows that are of the kind and the
  account it believes. The last is what makes a check before an await worth
  something after it, and is true because accounts, sessions and invites are
  never deleted and a profile never changes hands.
- `Effects` then says of every step what it may do to calls, to the accounts and
  to default profiles (`StepEffects`), so that the arguments about set-up, invites
  and owners are made once per effect and not once per handler. `SetupUnique`: a
  set-up that made an account made it when there was none. `UsesOf`: an invite's
  uses go up by one exactly when one more acceptance makes an account.
  `OwnerStays`: an owner that can sign in stays, or another one is made; it needs
  that an invite exists only when an account does, since an invite makes the first
  account of an empty database otherwise, and that is no owner.
- `AllGuarded` and `ActivesHold` are about profiles: a creation captured its guard,
  and public mode refuses to clear one (`GuardStep`); a switch that resumes checks
  that its profile is still there, and a deletion resets every session that has it
  (`ActiveStep`).
- The limit is an action property. `LiveSteps`: a step adds a live profile only
  where it has just counted room for it, or enables one that was there.
  `FewProfiles`: the live profiles of an account are finitely many, so that the
  cardinalities before and after a step can be compared.

### ServerHostProofs

`HostSpec`: the supervisor, its monitors and the database under them, any numbers
of starts, respawns, processes, commits and faults, process ids used again or not.

| Theorem | Holds |
|---|---|
| `HostTypeCorrect`, `NoStray`, `StopWins`, `OneServerOpen` | always |
| `NothingLost`, `UpgradesCopied` | under `Careful`: the recovery runbook is kept |

- `HostInv` is `HostTypeOK`, `NoStrayServer` and `StoppedMeansStopped` with two
  more: `DbInv` says of each process what it may do in its role and at its place,
  and `Supervised` what a monitor and a command of the main thread know of the
  child while the other goes on. A stop that meets a respawn is decided by the
  generation, and `Supervised` is what makes that decision stand until the child
  that was spawned is registered or killed.
- `OneServer` needs no lock file: a supervisor spawns a server only when the one it
  spawned before is dead, so at most one holds the database even with the file
  removed, corrupt or naming a process id used again.
- `CarefulInv` is about files. `Alone`: one process at a time is at the database.
  `Covered` says of each process that it has no file before it makes one
  (`Unused`), that what it found at its start stands until it opens
  (`FoundStands`), and that what a migration or a restore is about to replace has
  its copy (`MigrationCopied`, `RestoreCopied`). `Careful` is the runbook of
  docs/recovery.md: no restore while another process is at the database, and no
  server while a restore is.

### PlaybackProxyProofs

Any numbers of plays and connections, any cap, lifetime and idle timeout.

| Theorem | Holds |
|---|---|
| `TypeCorrect`, `EndedAreQuiet`, `PlayerIsServed` | always |
| `IdleStops` | always (an action property) |

- `ProxyInv`: a connection has the proxy it was made to (`Addressed`), the counter
  of a proxy is the number of its threads at every point between an increment and
  the decrement of `Drop` (`Counted`), and a proxy that has ended has no thread, nor
  has one whose accept loop has just read a count of zero (`Quiet`), since only that
  loop starts any.
- `Rested` adds for the idle stop that the last activity of a proxy is no earlier
  than the end of any of its transfers: a transfer writes it before it gives its
  slot back, so an idle time measured at a count of zero is one of rest.
- `LeaseInv`: the player in the slot is `playing` and no other play is; while a play
  is `spawned`, `playing` or `taken` only its own loop raises its flag, and when it is
  over the flag is up. A command that has taken a player out of the slot drops the lease of that one and
  not of whoever is in the slot by then, so the current player's flag is raised by
  its own accept loop only.

### LocalProfilesProofs

Any set of profiles with any of them protected, any numbers of switches, edits,
deletions, reloads and rejected writes.

| Theorem | Holds |
|---|---|
| `LockHolds`, `SwitchesDoSettle` | always |

`ProfilesInv` is `Typed` (with `Starting`, what a loading page has in hand, and
`InOrder`, of two saves that write a key one is the later), `OneAtATime`, by which
a switch that met nothing is the only one, `SyncsOpen`, by which a refresh after a
photo or name finds a page that needs no cover, and `Rest`:

- `PasswordsGiven`: whatever a switch will show has had its password given before
  the database is swapped. `LockTells`: while slices of a locked profile are shown
  the page goes by its name, so the lock, which is decided by name, is shown.
  Neither asks that the switch met nothing, but for a creation of a profile that
  did (`Excluded`).
- `Steady` says what is true at each await of a switch that nothing met: which
  database is open, what the registry says, that the page is offline until the
  settings are read, and that what was read is what the database holds.
- `StoreKept`: between switches the last save of each key holds what the page has
  in force and, when none is under way, the open database does; or a switch was
  rejected and the page is offline. `Settled`: page and registry name one profile.

With one edit, as in the run, the order of saves does not matter; the proof is for
any number of them, and needs `InOrder` and the guard of `Saved`.

### Assumptions and what is only model-checked

Assumed of the constants: finite `Sessions` and `Jobs`; bounds and limits that are
natural numbers, positive where the code's are (`MaxUses`, `ProfileLimit`,
`MaxGeneration`, `MaxRespawns`, and those of `LimitsAssumption` and
`TimesAssumption`); `None` and the other marks apart from the values they stand
beside (`NoneAssumption`, `MarksAreApart`, `RowsAreNotMarks`, `ChildAssumption`);
`PublicMode` a Boolean; `Concurrency` 1 to 3, as the setting allows; the default
profile installed (`ProfilesAssumption`); and schema versions no more than one beyond
`Latest`.
None of them says anything of what the code does.

**Only model-checked**:

- liveness: `EveryCallAnswered`, `RevokedSessionQuiesces`,
  `EveryDownloadComesToRest`, `RetriesAreBounded`, `ServerSettles`, `EveryProxyEnds`. Fairness and
  `ENABLED` are out of reach of TLAPS here;
- `EveryFfmpegIsOwned`, `CanceledIsFinal` and `RefusedOnlyWhenOpen`, which are
  violated (section 4).

## 6. What is left

**Proofs**: an abstract life cycle of a download row for `DownloadQueue` to
implement; the supervisor as an implementation of a start/stop switch.

**Models**: an abstract life cycle of a download row for `DownloadQueue` to
refine; the navigation history of `AppStore.tsx` against the browser's; the
connection of Trakt and its scrobbles; the settings cache of `RemoteStore` and a
profile switch in Server Mode; the stream sessions of the server's proxy; the
throttle in front of `Login`, if it is ever to promise more than to refuse.

**Not modelled, and why.** Library, history and media requests are handlers
without an await, one statement or one transaction each: nothing interleaves with
them. The throttle and the rate limiter refuse requests and write no table. Of
accounts TOTP, display names, quotas and settings are left out: they decide
nothing about the rows modelled. Clients of third-party services (debrid,
indexers, metadata, subtitles, AI) are requests and parsers; what they keep are
caches that may be dropped at any time and the state of an account at the
service, whose rules are not in this repository. Players and render surfaces are glue to libmpv and window systems,
whose behaviour is not in this repository. Screens, which are most of its lines,
are React rendering and data selection, apart from the profile and settings
handlers of `LocalProfiles`. The Swift application is the superseded
predecessor. Web sites, containers and scripts keep no state.
