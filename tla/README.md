# SeisConv: a TLA+ verification development

SeisConv is an Electron application for land-seismic field crews: it views, checks and converts
recordings, edits survey files, keeps an observer's log, and keeps folders of several laptops
identical over WiFi (WiFiSync). Paths below are relative to `src/`, the repository.

This development models the parts of the program in which several actors meet: machines, users and
passes in WiFiSync; the hub's asynchronous calls; the update dialog, the download and the installer;
the recorder, the folder watch and the observer's log; the main process and its worker; the batch
and the disk. Each is checked by TLC on small instances, and its safety properties are proved by TLAPS for
every instance, under the conditions section 5 names.

## 1. Inventory

| Component | Source | State it keeps | Operations, interactions | What is hard | What makes it correct |
|---|---|---|---|---|---|
| Manifest and diff | `core/field/diff.ts`, `manifest.ts`, `constants.ts`, `types.ts` | none (pure) | build and merge manifests, add and prune tombstones, `computeDiff`, the anti-wipe guard; called by the engine and the file side | tolerance and stability boundaries, tombstone against file | newer wins, ties do not move, no deletion on the word of an empty peer |
| Sync engine | `electron/field/engine.ts` | tombstones, pending deletions, mode, switch, peers, loop flags | `syncNow` (called by the loop and by the button), rounds, `originateTombstones`, `start`, `stop`; reads folders, calls the transport | everything between two awaits: user edits, another pass, the watcher, a switch, a crash | see section 4 |
| File side | `electron/field/fsutil.ts`, `watcher.ts` | the tombstone file, the history file, the settings file, the OS watcher | walk, read-change-rewrite of the tombstone file, history, settings | two writers of one file, crash between memory and disk, lost events | tombstones survive, deletions are noticed |
| Transport | `electron/field/transport.ts`, `core/field/transfer-frame.ts` | per connection: reader buffer, `done`, open handle | `fetchManifest`, `fetchFile`, `FileServer` | stat then read, timeout against completion, backpressure | a file is installed whole or not at all, nobody waits for ever |
| Discovery | `electron/field/discovery.ts`, `core/field/discovery-packet.ts`, `roles.ts` | last seen times, sockets | beacon, found and lost callbacks into the hub | loss, expiry, role changes between beacons | a live peer is found, a silent one lost, roles complement |
| Hub | `electron/main.ts` 3506-3976, `renderer/src/app.ts` 22216-22530 | engine, server, discovery, peers, pending, trusted, role; the panel | start, stop, approve, revoke, role, sync now; IPC from the renderer | awaits across stop and start, callbacks of a dead discovery service | only approved peers are synced with, nothing survives a stop, the lists and the panel agree |
| Rate limiter, path safety | `core/field/ratelimit.ts`, `safepath.ts` | a token bucket | consume, join | real time, strings | the rate, no path outside the folder |
| Worker calls, open files, sibling navigation | `electron/main.ts` 84-233, 1234-1275, 1730-1749, `workers/parse.worker.ts` | pending calls by id, the current file, the worker's open session | request and reply by message | late replies, a worker that dies | no caller waits for a dead worker; window, main process, folder index and worker hold the same file |
| Batch conversion | `electron/main.ts` 1381-1707, `renderer/src/app.ts` 2763-2945 | cancel flag, names taken, the tape | convert, combine, cancel | cancel against the next batch, names taken at the last moment, a disk that fills | no output overwrites anything, the report is what is on the disk |
| Updates | `electron/main.ts` 540-1231, `core/version.ts`, `renderer/src/app.ts` 848-1352 | remembered answer, check and download state, the staged file, the dialog | check, hide, download, cancel, verify, install | overlapping calls, abort, restart, a file changed after its check | only a verified file is run, a cancel wins, a dismissal stays |
| Trigger watch: folder and rows | `electron/main.ts` 2802-2905, 3433-3455, `renderer/src/app.ts` 19503-20066 | a timer and a size per file, the event queue, rows waiting for files, the catch-up mark | start, stop, configure, settle, emit, catch up | debounce against growing files, timers that outlive a stop, pulse and file in either order | one row per shot with its file, none missed |
| Trigger watch: survey log | `electron/main.ts` 3076-3184, `core/trigger/parse.ts` | offset, half a line, memory of shots | tick, read, rotate, start, stop | reads that fail or overlap a stop, a log that is rotated | each new line once, in order, no history |
| Trigger watch: other sources | `electron/main.ts` 2906-3075, 3185-3407, `core/obslog/autonum.ts` | sockets, serial ports, a polled folder | arm, disarm, emit | a port that comes and goes | an armed source delivers |
| Formats, survey files, GIS, DSP, rendering, export | `core/formats`, `sps`, `gis`, `dsp`, `render`, `export` | none | sequential conversion of bytes, text and floating point | bytes and arithmetic, not interleaving | tested by `core/__tests__` and `qa` |
| Renderer, preload | `renderer/src/app.ts`, `electron/preload.ts` | the user interface | DOM handlers, IPC | one 23 000-line module | - |
| Hotspot and firewall helpers | `electron/field/windows.ts` | none | `netsh`, PowerShell | the operating system | - |
| Tooling | `qa`, `scripts`, `docs`, `packaging` | none | - | - | - |

`PROJECT.json` lists each with its status, and every hazard with its line and the properties that watch
it.

## 2. Plan

Done, in this order:

1. `FieldManifest`: the pure half of WiFiSync.
2. `SyncEngine`: all machines of a crew, all concurrent passes; `SharedFolder`, what that promises, and
   the refinement; `SyncQuiet`, what happens when everyone is left alone.
3. `MCSyncEngine`, `MCSyncQuiet`: instances for TLC.
4. `SyncEngineProofs`: types, anti-wipe, provenance of tombstones, refinement, and that what was
   deleted is remembered and stays deleted across a crash.
5. `RateLimiter`, `FileTransfer`: one fetch below the level of `SyncEngine`, with the reader's marks, the
   limiter, the timer and the temp file; `FileTransferProofs`, for all marks and sizes. Its theorem
   `WholeFiles` justifies the one-step installation in `SyncEngine` where fetches of one name do not
   overlap, and its instance `SharedTemp` the fault "tear" where they do.
6. `FieldHub`: start and stop, trust, roles, discovery and the panel around engines and servers of several
   sessions; `FieldHubProofs`.
7. `UpdateInstall` and `UpdateInstallProofs`; `BatchConvert` and `BatchConvertProofs`.
8. `ShotRows` and `ShotRowsProofs`: the trigger watch from the shot to the row; `LogTail` and `LogTailProofs`:
   the survey log's tail.
9. `Desk` and `DeskProofs`: the open file, between the window, the main process and its worker.

Left, in this order:

- `TombstoneStore`: read, change and rewrite of the tombstone file as separate steps, with two passes.
- `TriggerArm`: the arming and disarming of the UDP, serial, TempCom and SC_Files sources, whose events enter
  `ShotRows` as pulses.
- The WiFiSync history log and settings file, which are written but decide nothing.

## 3. The models and the code

### FieldManifest (`core/field`)

A manifest, a JavaScript `Map`, is a total function from `Path` to records; a missing key has kind
"none". Times are integers, in units the configuration chooses; `MTIME_TOLERANCE`,
`WRITE_STABILITY_SEC` and `TOMBSTONE_MAX_AGE` are constants. Sizes are left out, as no decision reads
them. `computeDiff` is its two loops as sets: `MirrorPull`/`MirrorDelete` for a slave,
`MergePull`/`MergeDelete` for two-way. The order in which a plan's paths are handled (insertion order
of the maps) is left open.

### SyncEngine (`electron/field/engine.ts`, with `fsutil.ts`, `watcher.ts`, `transport.ts`)

| Variable | Code |
|---|---|
| `disk[n]` | the shared folder; a file has an mtime and a `content` that names its bytes |
| `store[n]`, `tombs[n]` | the tombstone file; `SyncEngine.tombstones` |
| `pending[n]`, `events[n]` | `pendingDeletes`; what `fs.watch` has yet to deliver |
| `mode[n]`, `allow[n]` | `mode`, `allowRemoteDeletes` |
| `pc, todo, batch, local, remote, pulls, dels, cur` | the locals of one call of `syncNow`, see below |
| `saved`, `erased` | history: what users saved, when they last deleted |

A *runner* is one caller of `syncNow()`: the background loop, or the "Sync now" button, which nothing
keeps from running while the loop's pass is under way. Every `await` across which other code can change
what the pass reads or writes is a step boundary:

| Action | Code |
|---|---|
| `StartPass`, `GoOn`, `EndRound` | `syncNow`: the peers, slave's first peer only, master serves only; a round that throws is followed by the next peer |
| (in `GoOn`) draining `pending` | `originateTombstones`, first two lines, run before the first await of a round |
| `OriginateProbe`, `SaveTombstone`, `SetTombstone` | the rest of it; also the last two for the delete loop |
| `SaveFail` | `saveTombstone`/`removeTombstone` reject |
| `LocalManifest`, `FetchManifest`, `FetchFail` | `getMergedManifest`, `fetchManifest`, `computeDiff`, the guard |
| `PullRequest` | the peer's `stat` and header (`FileServer.sendFile`) |
| `PullTear` | the bytes that follow are not those of that file |
| `PullRename`, `PullStamp`, `ForgetTombstone` | `rename`, `utimes` and `tombstones.delete`, `removeTombstone` |
| `PullFail` | `fail` in `fetchFile`; the case of a failure after the rename is in `PullStamp` |
| `DeleteGate`, `DeleteLocal`, `DeleteDone` | the switch is read once; the loop |
| `UnlinkFail` | `stat` or `unlink` rejects: the loop's catch (250-265), the file stays and its tombstone is not adopted |
| `WatchEvent`, `LoseEvent` | the watcher's callback; an event that never comes, or interval mode |
| `Restart` | the application ends or crashes and comes back: `loadTombstonesSync` |

Abstractions, each on purpose:

- The walk of a folder is one step, and so is the server's walk with its answer. The walk reads each
  file once; a file changed during the walk is seen as before or after, which an earlier or later walk
  sees too.
- So are the walk and the tombstones laid over it (`getMergedManifest`, 121-122): a tombstone set between the two
  is one of a later walk.
- The stamp of a pull is in place when its runner goes on. In the code a `utimes` that is under way when `fail` rejects
  the fetch may end later, when the runner is elsewhere; without `fail` nothing goes on before it.
- The check of a file that is to be deleted and its `unlink` are one step.
- Reading, changing and rewriting the tombstone file is one step (`SaveTombstone`, `ForgetTombstone`).
  With one pass per machine nothing else writes the file. With two, an entry may also be lost between
  the read and the write: the plan's `TombstoneStore`.
- A transfer is its request, its installation and its stamp; it carries the version the peer had at the
  request. With the fault "tear" it may also carry a mix.
- Peers, and who is approved, are fixed. The loop's sleep and the change signal only say when a pass
  starts, and a pass may start at any time.
- Deleting a directory is deleting its files; directories have no events of their own.
- The mtime that `utimes` sets is read back as it was set.
- No two users act in the same instant, so the time of a save also names its bytes.

`Faults` says which of "net", "save", "crash", "event", "tear", "unlink" may happen, `Switchers` whose settings
change while running, `Skew` how wrong a machine's clock is, `Edited` which paths users touch, and
`MaxTime` bounds the clock, the only bound of the model.

### SharedFolder

What a user may rely on, with no mtimes, manifests or passes in it: whatever is under a path is one of
the versions saved under that path (`Replicate`), and a file goes only because its user deletes it
(`Erase`) or because the machine lets peers delete and some user did delete that path (`Withdraw`; a
slave needs no such user). `SyncEngine` implements it with `folder <- Contents`, `history <- saved`,
`willing <- Willing`: most engine steps are stutters, `PullRename` is a `Replicate`, `DeleteLocal` a
`Withdraw`.

### SyncQuiet

The same engines started on any mix of copies and tombstones (`QuietInit`: what earlier sessions may have
left behind), with no user and no fault. Fairness: each runner (the loop in `engine.ts` 293-302 never ends and its
waits are bounded by `syncInterval`), each watcher (the OS delivers), and the clock.

### RateLimiter, FileTransfer (`core/field/ratelimit.ts`, `electron/field/transport.ts`)

`FileTransfer` is `fetchFile` on this machine, `SocketReader` under it and `sendFile` at the other end. Two
things run at once in a fetch, and the model has both: the async function (`step`), and `fail()` (`failing`),
which an error or the idle timer starts at any of the function's awaits.

| Variable | Code |
|---|---|
| `left`, `flight`, `alive`, `intact` | what the peer has yet to send, what is under way, whether peer and network still work, whether this machine's disk does |
| `buffered`, `paused`, `sock`, `idle` | `SocketReader.buffered`, `paused`, `err`/`ended`, the timer of `setTimeout` |
| `step`, `remaining`, `wake` | where the function is, its local, the sleep the limiter ordered |
| `failing`, `result` | where `fail` is (`done` is "not no"), the promise |
| `handle`, `inode`, `bytes`, `tmp`, `dest` | `fh`; files as sets of written units, so that a truncation or a hole is seen; the two names |
| `credit` | `allowance` and `last` of the limiter, as one number |

`Deliver` is the whole `'data'` handler with the `pump` and `take` it calls, and `NextRead` the `readExact` with which
the loop goes on. A delivery is at most `Window`. Status, mtime and size are one header; "not found" is a peer that
ends the connection there. `Tick` lets time pass only when nothing on this machine is ready, and a peer that is alive is
never silent until the timer expires: what is checked is what the *receiver* adds. `DiskFail` lets any `mkdir`, `open`, `write`, `close`,
`rename` or `utimes` of the function reject, and then `fail`'s own `unlink` may fail as well. A unit of time is the time in
which the limit lets one unit of data through, and `Burst` is one second of it.

### FieldHub (`FieldHub` in `electron/main.ts`, `electron/field/discovery.ts`, the panel in `renderer/src/app.ts`)

| Variable | Code |
|---|---|
| `hub` | the fields of the hub object; `engine` and `server` are a session's number or 0 for null, `seen` is what the discovery service has announced |
| `eng[s]`, `srv[s]`, `conns[s]` | every engine, server and accepted connection ever made: an old session's do not go away because the hub forgets them |
| `calls` | the invocations of `start`, `stop` and `connectPeer` under way, each at its await |
| `ui`, `alive` | the panel; which peers are up |

`start` is `StartClick` (it begins with a `stop`), `EngineLeft`, `ServerLeft`, `BadFolder` or `MakeSession`, `Listening`
or `CannotListen`, and, with a manual peer, `Probed`. The three-second limit of `SyncEngine.stop` is a choice in
`EngineLeft`: the loop has ended or has not. `Snapshot` is the list of peers a pass takes at its start and visits later
(`RoundEnds`), so a peer that is revoked meanwhile is still visited by that pass, but by no later one, and an engine that was let go after the three
seconds finishes the pass it is in (section 6). A negotiated role
(`Beacon`) goes through `setRole` and so replaces the discovery service from inside its own callback. What a pass does is
`SyncEngine`'s business. Several shared folders and the settings file are left out. `DoubleClick` says whether
Start or Stop may be pressed before the first answer; see section 4.

### UpdateInstall (`electron/main.ts` 540-1231, the dialog in `renderer/src/app.ts` 848-1352)

| Variable | Code |
|---|---|
| `current`, `published` | the version that runs, the newest release |
| `stored` | `update_state.json`: the release and the dismissed one |
| `file[v]`, `part[v]` | what lies in the update folder under the installer's name (`"good"`: the published bytes) and its partial name |
| `check`, `hide`, `dl` | the locals of `checkForUpdates`, of the dismissal (`HideClick` reads the state, `HideWrites` writes it), of `downloadUpdate` |
| `verified`, `running`, `install` | `updateVerified`, `updateInstallerRunning`, the calls of `updateInstall` and the installers they started |
| `ui`, `run` | the dialog; each call of `runUpdateNow` at its await |

A version is a number. Requests reach the main process at once and answers come when they come, so a click may overtake the
answer. `Spoil` is another program that changes the file, at any time but while the installer runs (Windows keeps a running
executable). `updateInstall` fingerprints the file (`"hash"`), has the result (`InstallHashed`) and starts it (`InstallSpawns`), and
`Spoil` may come before either; that it did is what `swapped` remembers. `Faults` lets reads and writes of the
remembered answer fail ("read", "write": `readUpdateState` answers with nothing, `writeUpdateState` says nothing) and removals
fail ("unlink": a partial file is then `"stuck"`, an installer stays).
`Quit`, `Crash` and `Updated` end the session, and `Starts` is the housekeeping of the next. Release notes, the badge, the
URL's validation and the batch that forbids an update are left out.

### BatchConvert (`electron/main.ts` 1438-1707, `renderer/src/app.ts` 2763-2945)

`base` is the name the template gives each file; two files may get the same. `out`, `taken` and `disk` are
`outNameCandidate`, `takenNames` and the folder, in which other programs save files at any moment (`ForeignFile`). A name is
a pair of base and try: lower-casing, and suffixes that happen to look like other names, are left out, for they only
make more names equal, which `base` already does. `pc` is the await at which `batchConvert` is: `LoopTop`, `Converted`/`Refused`/
`WorkerDies`, `Reserve`/`NoFreeName`, `WriteOut`/`NameIsGone`/`WriteFails` for files of their own, `TapeOpens`, `TapeHeader`,
`TapeAppends`, `TapeEnds`, `TapeBreaks`, `TapeDropped` for a tape. A failed write may leave a part (`whole = FALSE`), and the removal of a tape may fail without a word: its kind is then "left". `says` is what
`finishBatch` tells the user.

### ShotRows (`electron/main.ts` 2802-2905, `renderer/src/app.ts` 19503-20066)

| Variable | Code |
|---|---|
| `shot`, `event`, `still` | the survey: shots fired, their files while they grow; folder events not yet delivered; files that stalled in the last tick |
| `timer`, `slot`, `sizes`, `emitted` | the settles under way; `trigTimers`, `trigSizes`, `trigEmitted` |
| `early`, `failed` | history: files announced before they were closed, and those the last look at which failed |
| `queue`, `rows`, `mark`, `catchup`, `on` | the window: events before `trigChain`, the log's rows, `lastMtimeMs`, the catch-up, the switch |

`Consider`, `SettleBegins`, `SettleResumes`, `SettleFails` are `trigConsider` and `trigSettle` around its `stat`, which may be refused, or
find no file or an empty one (2865-2866: the size is forgotten and no timer set). Timers the map has forgotten
stay in `timer`, as they do in the event loop. A pulse stands for any of the sources UDP, serial and TempCom. `Tick` is 500 ms;
a file that is written grows in every tick, or stalls. Rows are numbered and filled elsewhere; here a row is its shot and its file.

`Habits` are conditions on the world, not on the code, most of which by themselves make the code fail a claim
(section 6). The run has "stall" (the recorder writes nothing for a tick or more) and "fail" (a look fails), and its properties
say what holds with them. With `Habits = {}` the survey is the quiet one for which the feature is designed. The window
does not restart: its mark lives as long as its log.

### LogTail (`electron/main.ts` 3076-3184, `core/trigger/parse.ts`)

`log` is every line ever written, `file` the pieces in the log file now: a line comes in two, of which only the second
ends it. `path`, `offset`, `buf`, `seen`, `timer` are the `trigScs` variables; `read` is `trigScsRead` at its four awaits
(`stat`, `open`, `read`, `close`), each of which may fail; `start` is `startTriggerScsLog` at its `stat`. `sent` is history: which line was
sent, and under which start. `Stop` in the middle of a read lets the read go on, as the code does. The log may be rotated any number of
times. What is read is taken line by line by the function `Taken`, in the step that follows the `close`; the window takes an
event while any of its sources is on (`TakesEvents`; habit "others": another source than this one is). A read
finds less than `TRIG_SCS_BUF_MAX` (256 KiB, thousands of shots): it is one chunk, and the guard of 3150 cuts nothing. What the code does
beyond that, where the guard cuts whole lines too, is left out.

### Desk (`electron/main.ts` 84-233, 1234-1275, 1476-1487, 1730-1749, `workers/parse.worker.ts`, `renderer/src/app.ts`)

`calls` is `pending`, in the order of the requests, with what each caller remembers over its await; `worker` and `life` say where requests go
and how far each worker has come: a worker that dies reports an error (`WorkerError`: all pending calls are rejected) and
then its exit (`WorkerExit`). An exit without an error does not occur: no line of the worker or of the main process
ends a worker (`process.exit`, `terminate`). `pace` is history: whether the user has rushed. `current[g]` is the file the worker holds, `lastOpened`, `listed`, `index`, `indexing` are the main
process's, `shown` the window's. `Work` handles requests strictly in order, and a file may turn out to be unreadable, as may its folder (`Listings`: the list is then of the one file). A second file may be
opened while the first is parsed or its folder read, as `app.ts` 2155 lets it. What the window
is told it shows at once. Requests that change no file (traces, spectra) are left out.

## 4. The runs

All instances have two paths where deletions matter, `p`, on which users work, and `w`, because a deletion passes the guard only
if the peer has some live file. `MTIME_TOLERANCE` and `WRITE_STABILITY_SEC` are 1 (2.0 s both in the code), so that
within four ticks there are times inside, on and outside either boundary. Two saves and a deletion, each with a
pass between them, fit into `MaxTime = 4`, and `TOMBSTONE_MAX_AGE = 2` lets tombstones be pruned in `TwoWay` and `Roles`.

| Run | Question | Properties |
|---|---|---|
| `TwoWay` | two two-way machines, deletions allowed on either, both or none, failing tombstone files and network, crashes | `TombstoneDurable`, `NoPhantomTombstone`, `SharedFolderSpec` |
| `Roles` | one machine changes role and switch at any time; failing network and unlinks, dropped events; a peer that may have no live file | `NoWipe` |
| `Button` | loop and button at once on one folder, failing network, torn transfers | `DeletionRemembered` |
| `Quiet` | left alone, do two machines come to rest, and agree? | `Settles`, `NewestSpreads`, `DeletionSpreads` |
| `Transfer` | one fetch; a peer that grows, cuts or falls silent, a connection that breaks, a disk that fails, the timer at any await | `Backpressure`, `NoStall`, `InstalledWhole`, `FetchEnds`, `Completes` |
| `Hub` | every order of clicks, awaits, beacons and passes over two sessions and two peers | `PeersAgree`, `NothingLeft`, `PanelTruthful`, `NewPassTrusted` |
| `Update` | one release, two downloads, two installers, with quits, crashes, files changed at any moment, failing reads, writes and removals | `OnlyVerifiedRuns`, `CancelWins`, `PartGone`, `DismissalKept`, `NeverStranded` |
| `Batch` | two batches of two files, plain or tape, three tries for a name, a foreign file, removals that fail | `ReportTrue`, `TapeWhole`, `NothingReplaced`, `CancelMeant`, `BatchEnds` |
| `Shots` | two shots, pulse and file in every order, a recorder that stalls, a look that fails, stops, starts, catch-up | `OneRowPerShot`, `RightFile`, `NothingMissed`, `WholeFile`, `EveryLanding` |
| `Tail` | three lines, rotations, failed reads, a restart | `OnceEach`, `NoHistory`, `NothingSkipped`, `EveryShot` |
| `Desk` | three files, five clicks in any haste, unreadable folders, workers that die | `NoOrphan`, `OneOpenFile`, `ConvertsShown`, `EveryCallEnds` |
| `PullOlder` | may a pull replace a newer save? It may (section 6) | `PullsNewer` |

No run checks a `TypeOK`: those of the proved modules are theorems. `Relay.cfg` (of `MCSyncQuiet`, three
machines in a line, the newest copy crosses the middle one) passes but takes long, and is there to be run by hand.

WiFiSync:

- `SharedFolderSpec`: the refinement of section 3.
- `TombstoneDurable`: what peers may have been told is deleted is in the tombstone file, so a crash does not
  bring a file back; or it is old enough to be pruned there, or is about to be replaced in memory by one that is (which needs a
  peer whose clock was ahead). It needs save-before-set and forget-in-memory-first, and **one pass per machine**: with two, a
  pull's `removeTombstone` can remove the entry that a later deletion just saved, after which the deletion lives
  in memory only.
- `NoPhantomTombstone`: every tombstone goes back to some user's deletion, across machines and restarts.
- `DeletionRemembered`: a deletion is on its way to a tombstone, or has one, or the file is back. No claim is made
  with crashes, dropped events or failed saves: the code then does forget (section 6).
- `NoWipe`: no file goes on the word of a peer that advertises no live file.
- `Settles`, `NewestSpreads`, `DeletionSpreads`: liveness. The premises of the last two (beyond the tolerance, outside
  the stability window, no pass under way) are the ones without which the code does not deliver.

- `Backpressure`, `NoStall`: unread bytes stay below the high mark and one delivery; a reader that waits never waits on a
  socket it has paused.
- `InstalledWhole`: with one fetch at a time under a name, what reaches the destination is whole.
- `FetchEnds`, `Completes`: every fetch ends, even if the peer falls silent; with a peer that works it succeeds, as long
  as draining the buffer from the high to the low mark takes less than the timer (`Timeout = 8` against 4; `SlowPull` has 3).
  Fairness: the event loop runs what is ready, time passes, a live peer sends.

`Transfer` has 9 units of data, reads of 2, marks 2 and 4 and deliveries of up to 2, so that the socket pauses and resumes
several times and ends in a short read. It may stop, as a fetch does.

The hub:

- `PeersAgree`: the list on the screen, which IPC handlers and discovery callbacks change, is the engine's list.
- `NothingLeft`: while WiFiSync is off and nobody is switching it, no engine of any session loops and no server listens;
  a start that cannot listen takes back what it has made. An engine that was let go begins no pass and no round with a
  peer it had not yet taken. The pass it is in it may finish, which `LeftoverPass` shows (section 6).
- `PanelTruthful`: the panel shows On exactly when WiFiSync is on. It uses status events as well as answers.
- `NewPassTrusted`: a pass takes none but approved peers, also if the approval is withdrawn during a probe or a start.

`Hub` has `DoubleClick = FALSE`: Start and Stop are not pressed again before the first press was answered. The panel disables no
button, and with `TRUE` two starts may overlap, of which the loser's `MakeSession` overwrites the engine the hub holds: the
instance then violates each of the four. No document speaks of it, so it is an assumption here, not a finding.

Updates:

- `OnlyVerifiedRuns`, `CancelWins`, `PartGone`, `DismissalKept`: see the module; each is a sentence of the code's own comments, with the
  exceptions without which the code does not keep it: a file another program changes after this start has begun to fingerprint it; a
  part whose removal fails; a check whose read of the stored answer fails, or comes before a dismissal under way is written.
  One release with two downloads, or two releases with one (`MaxVersion = 2`, `MaxGo = MaxInstall = 1`, by hand: 744 000 states): no clause
  relates more than one download and one other installer.
- `NeverStranded`: while an installer is started or awaited, a way to close the dialog turns up. Fairness: the window's
  timer fires. Nothing is assumed of the main process or the installer.

Batches:

- `ReportTrue`, `TapeWhole`: the result of a batch against the folder: the files called converted lie whole under names of
  their own, and no other part is left; a tape is whole and has the records reported, or is gone.
- `NothingReplaced`: nothing of others, of earlier batches, or finished is ever written to.
- `CancelMeant`: one flag serves all batches; no batch begins a file after its own click, none dies of the last one's.
- `BatchEnds`. Fairness: the loop's awaits are answered. After the last batch the model stops.

The trigger watch:

- `OneRowPerShot`, `RightFile`, `NothingMissed`, `WholeFile`, `EveryLanding`: the log's rows against the shots fired, for every
  order of pulse, folder event, settle, stop, start and catch-up. `WholeFile` claims of an announced file that it is closed or has
  kept its size for a settle period, `NothingMissed` and `EveryLanding` except files the last look at which failed, and
  `OneRowPerShot` and `RightFile` count no file that was announced early: section 6 shows what comes of both.
  A file takes up to three ticks and more if it stalls, so that it is looked at while it grows.
  Fairness: timers fire, stats end, the window handles its events, the recorder closes its files.
- `OnceEach`, `NoHistory`, `NothingSkipped`, `EveryShot`: the rows the tail asks for against the lines written. Three lines in six pieces, one
  rotation, one failing read, a memory of one shot, a restart. Fairness: the timer fires and reads go on.

The open file:

- `NoOrphan`: no caller waits for a worker whose end was handled, though requests are made between the two events.
- `OneOpenFile`, `ConvertsShown`: at rest all four places name one file; a conversion begun at rest and saved under a name
  has that file in it. Both are of a desk that is not rushed (`pace`). It is rushed from an open or clear during another one, a step
  during an open, or an overlapping step that fails, and calm again after the next open, step or clear that is
  made at rest and ends well. On a rushed desk the code does disagree with itself: `OtherName`, `IndexAhead` (section 6).
- `EveryCallEnds`. Fairness: the worker works and the main process gets its events. The user clicks five times, which is
  an open, steps that overlap, and a conversion.

Every property of a passing run has a mutant in `PROJECT.json`: a plausible bug under which the same run fails.

## 5. The proofs

`SyncEngineProofs`, for all machines, runners, peers, paths, skews and clocks, from the assumptions
`ConstantsAssumption` and `EngineAssumption` (constants are of their types, there is a path):

| Theorem | Statement | Argument |
|---|---|---|
| `TypeCorrect` | `Spec => []TypeOK` | `Typed`, i.e. `TypeOK` with `InRound`: a runner in a round has its peer at the head of `todo`, without which `Tail` and `Head` have no type |
| `AntiWipe` | `Spec => NoWipe` | `Guarded`: a plan that deletes was made from a manifest with a live file, and the runner still holds that manifest; only `DeleteLocal` removes a file |
| `NoPhantoms` | without slaves, `Spec => []NoPhantomTombstone` | `Provenance`: reported, drained and planned deletions are of paths some user deleted, too. A plan deletes only what the peer's tombstones name, which are its own |
| `Refinement` | without "tear", `Spec => SharedFolderSpec` | `IInv`: besides the above, `Genuine` (files and transfers under way are saved versions), `Granted` (a delete loop runs only where peers may delete), `Past` (no deletion is from the future, so each is a change of `erased`) |

"Without slaves" and "without tear" are not conveniences: with a slave the watcher reports the slave's own unlinks as
user deletions, and with torn transfers the refinement is false (run `PartialFile`).

`FileTransferProofs`, from `TransferAssumption`, `MarksAssumption` (a read asks for no more than the low mark, which is
no higher than the high one; 64 KiB, 1 MiB and 4 MiB in `constants.ts`) and `BurstAssumption`:

| Theorem | Statement | Argument |
|---|---|---|
| `TransferTypes`, `BoundedBuffer`, `NeverStalls` | `Spec => []TypeOK`, `[]Backpressure`, `[]NoStall` | `IInv`: a socket that is not paused is at most at the high mark, a paused one at least at the low mark (`Marks`); a read waits only for more than is there (`Waits`); `Left` ties the position in the function to `remaining` |
| `WholeFiles` | with one fetch, `Spec => []InstalledWhole` | `Content`: the temp file holds what was read, from the start, and nothing writes it once it is renamed |
| `BucketIsCredit` | the number `credit` follows `consume` | case split on the debt; `last`, set ahead, stands for a negative credit |

`FieldHubProofs`, from `HubAssumption` and `~DoubleClick`, for all peers, invocations and sessions:

| Theorem | Statement | Argument |
|---|---|---|
| `HubTypes`, `ListsAgree`, `NothingIsLeft` | `Spec => []TypeOK`, `[]PeersAgree`, `NothingLeft` | one invariant: at most one invocation switches the hub, its position says which of discovery, engine and server still stand, every engine and server but the hub's current ones is ending or has ended, and the peers of an engine are the hub's and approved. For `NothingLeft`, `LetGoEnds`: no step adds to what an engine has to do that is not the hub's |
| `RevokedIsLeft` | `Spec => NewPassTrusted` | a pass takes its engine's list, and that has none but approved peers |
| `PanelIsTruthful` | `Spec => []PanelTruthful` | `Panel`: until a start reaches its probe neither the hub nor the panel is on, from there the hub is; so whatever ends the start or is let in by its awaits, a status event or an undoing, finds the two alike or makes them so |

`UpdateInstallProofs`, from `UpdateAssumption`:

| Theorem | Statement | Argument |
|---|---|---|
| `UpdateTypes`, `VerifiedRuns` | `Spec => []TypeOK`, `[]OnlyVerifiedRuns` | `Installers`: the file of a call that has read the published bytes is theirs or gone until the call ends, whatever the app does, unless `Spoil` has come in between; it is not deleted, replaced or spoiled while it runs. Nothing is said of the version the dialog named (`NamedVersion` is false) |
| `CancelAlwaysWins` | `Spec => CancelWins` | `Wishes`, `Answers`: while the last word is "cancel" no dialog state leads to an installation, and each answer under way belongs to a call that will look at the flag |
| `NoPartLeft` | `Spec => PartGone` | `Parts`: of all partial files, those a crash has left included, only the one of the download under way has not been tried to remove |
| `DismissalStays` | `Spec => DismissalKept` | `Dismissals`: while a check is under way the dialog with "Hide" is closed, so what a check that could see the dismissal has read is what is stored; one whose read failed, or came before the write of a dismissal under way, is `blind`, and excepted |

`BatchConvertProofs`, from `BatchAssumption`:

| Theorem | Statement | Argument |
|---|---|---|
| `BatchTypes` | `Spec => []TypeOK` | with `Places`: at each await the loop's file, its name and the tape are what the step needs |
| `NeverReplaced` | `Spec => NothingReplaced` | `TapeThere`, `NoneFromLater`: what a batch writes or drops under a name it has itself put there, and no file is of a later batch |
| `CancelIsMeant` | `Spec => CancelMeant` | `OneWish`: the flag is up exactly if the running batch's click was |
| `ReportsTrue` | `Spec => []ReportTrue` (plain batches; of tapes it is false, `TapeClaim`) | `Reported`: results called "ok" lie whole under their own names, and whole files of the batch are results; the counter counts them, by a bijection between the two |
| `TapeIsWhole` | `Spec => []TapeWhole` | `Taping`: from the opening of the tape to the batch's answer it is the only output, and its records are the files called converted so far, in order, each once; after it the tape is whole, gone, or a part the disk would not remove |

`DeskProofs`, from `DeskAssumption`:

| Theorem | Statement | Argument |
|---|---|---|
| `DeskTypes`, `NoneWaits` | `Spec => []TypeOK`, `[]NoOrphan` | `OneWorker`: the worker that lives, or whose death is not yet known, is the one requests go to, so its `error` event rejects only its own callers, and `exit` never lets go of its successor |
| `OneFileIsOpen`, `ConvertedIsShown` | `Spec => []OneOpenFile`, `[]ConvertsShown` | `OpenInv`: requests are answered in their order (`OneQueue`), and a conversion begun at rest comes before whatever is opened after it (`Conversions`: on any desk). While the desk is not rushed, `Quiet`: opens are alone but for overlapping steps, and the last request that was answered says what the worker holds (`AnswerHeld`, `ListedHeld`). While it is calm, `Calm`: with no step left the window, the main process and the index name one file (`Agree`, `FirstStep`, `ShownHeld`). What calms a desk is under way `Alone`, and its end makes them agree |

`SyncEngineProofs` on tombstones, from `ConstantsAssumption` and `EngineAssumption`. `DurableTombstones` is about machines that make one
pass at a time (`OneRunnerEach`; with the "Sync now" button during the loop's pass it is false, section 4), whatever
their clocks show:

| Theorem | Statement | Argument |
|---|---|---|
| `DeletionsRemembered` | without "save", "crash" and "event" among the faults (any number of passes at a time, any clocks), `Spec => []DeletionRemembered` | `Memory`: besides the property, `BatchTaken`: deletions a pass has drained are in its hands only while it originates their tombstones, so no other step of it can drop one |
| `DurableTombstones` | one pass at a time, `Spec => []TombstoneDurable` | `Kept`: a tombstone the engine holds is in the file, or is old enough to be pruned, or is being replaced by the one just saved; `Saving`: what a runner has saved and not yet set is in the file or old itself, and what it is forgetting on disk it has forgotten in memory. Each action of the pass moves a tombstone between the three |

`ShotRowsProofs`, from `ShotAssumption`, for any number of shots, sizes, timers, events and starts. The habits each
theorem excludes are those with which the statement is false (section 6), and what the invariant needs to hold between them:

| Theorem | Statement | Argument |
|---|---|---|
| `ShotRowsTypes` | `Spec => []TypeOK` | with `Busy`: a timer that runs has a file, and a catch-up that adds has one to add |
| `AnnouncedWhole` | without "burst", `Spec => WholeFile`: closed, or unchanged for a settle period | `Settled`: a file has one timer (`OneTimer`), a size is never ahead of the file (`Landed`), and a file that is still written and did not stall is as large as it was last seen only until time goes on, so no second look has begun (`Fresh`) |
| `NoFileMissed` | with no habits but "edit", "burst" and "stall", `Spec => []NothingMissed` | `Kept`: files are begun in order and whatever can raise the mark (an offer, an event in the queue, a file that settles or is written) comes after all that is earlier, which is in the log or further ahead on the same way |
| `RightFileInRow` | `Habits = {}`, `Spec => []RightFile` | `Single`: a file is announced, queued and logged once (`Once`) and has not changed since (`Closed`, `Emitted`, `Unseen`); `Paired`: pulses come in the order of the shots and before their files, and under the theorem's premise the rows that wait are exactly the shots whose file is not in the log. With `Kept` the oldest of them is the shot of the file that lands: every earlier shot has its file |
| `NoShotTwice` | `Habits = {}`, `Spec => []OneRowPerShot` | `Paid`: a shot has two rows, or may still get a second one, only if its file or that of another has gone to a row of a third. The shots with two rows (`Twice`) are never more than the shots whose file was taken by another row and that have none themselves (`Spare`); a pigeonhole and the cardinality of unions do the rest |

The habits' exclusion is not a convenience there either: the count holds by a balance, not because shots and rows
match one to one. When a pulse is lost, the next file goes to the wrong row, and only the balance says that no more
rows come of it.

`LogTailProofs`, from `TailAssumption`, for any number of lines, repetitions, rotations, starts and failed reads:

| Theorem | Statement | Argument |
|---|---|---|
| `LogTailTypes` | every habit, `Spec => []TypeOK` | with `Known`: no piece, row or start is of a line or a start that has not been |
| `LogTailOnceEach` | no "others", `Spec => []OnceEach` | `Orderly`: pieces stand in the order of their lines in the file (`InOrder`) and in the buffer (`Joining`); whatever may still be read (`Unread`), from the offset or from where a read has begun, comes after the rows and the buffer; the window of remembered shots is the end of the rows (`Remembers`). That holds after a rotation, too, whether the tail notices it (it will read all of the file, which is new) or not |
| `LogTailNoHistory` | no "hasty", no "others", `Spec => []NoHistory` | the same invariant: what may still be read was begun under this start (`Mine`), for a start looks at the size when nothing is read |
| `LogTailNothingSkipped` | `Habits \subseteq {"slow"}`, `Spec => []NothingSkipped` | `Full`: the buffer is the part of the file just before the offset (`Window`), or the log was just rotated and the tail will look again before more comes (`Unnoticed`); every shot of this start that asks for a row has one or stands in the file behind what was taken (`Complete`) |

What one read takes is the value of a recursive function, `Taken`, over the buffer. `OnceStep` and `FullStep` show what one more
piece keeps; that it is kept up to the last one is an induction along the buffer, done over the set of the positions up to which it
holds with the well-foundedness of `<` (`UpTo`), since the library's induction theorems take a predicate.

Only model-checked is all
liveness: `Settles`, `NewestSpreads`, `DeletionSpreads`, `FetchEnds`, `Completes`, `NeverStranded`, `BatchEnds`,
`EveryLanding`, `EveryShot`, `EveryCallEnds`. Liveness under fairness is out of the prover's reach.

## 6. Where the code and its documents disagree

`PullOlder` is a run. The others are instances to run by hand: `tlc -config <name>.cfg <module>` finds the violation.

| Instance | Module | What it shows |
|---|---|---|
| `PullOlder` | `MCSyncEngine` | A pull in two-way mode replaces a newer local save, made after the manifest or hidden by the stability window; `core/field/diff.ts` 15 says "pull newer". |
| `HiddenByTombstone` | `MCSyncEngine` | A file saved again after its deletion was recorded stays behind the machine's own tombstone: `mergeManifest` never compares times. `MANUAL.md` 690 promises it is copied. |
| `DroppedEvent` | `MCSyncEngine` | The poll does not find a deletion whose event was dropped (`README.md` 294). |
| `PartialFile` | `MCSyncEngine` | A file saved in place while it is sent arrives as a mix (`README.md` 295). |
| `SlowPull` | `FileTransfer` | The idle timer counts while the receiver itself has paused the socket: with a rate limit below about 100 KB/s, files that exceed the buffer never arrive from a faster peer (`renderer/src/manual.ts` 616). |
| `SharedTemp` | `FileTransfer` | Loop and button fetch one path at once, into one temp file; a file with a hole is installed (`README.md` 295). |
| `NamedVersion` | `UpdateInstall` | `downloadUpdate` takes the stored release, not the one in the dialog: after a check that found a newer release but whose answer the dialog has not shown, another version than the one named is installed; a dismissal that writes back the release it read before a newer check, or a write that fails, does the same. `electron/main.ts` 570 says "installs exactly the version the modal named". |
| `SwappedFile` | `UpdateInstall` | Another program changes the installer after `updateInstall` has read it for the second time and before it is started; `electron/main.ts` 1166 says "what runs is exactly what was checked". |
| `LostDismissal` | `UpdateInstall` | A check begun while a dismissal is being written has read the answer before it and writes it back; `electron/main.ts` 741 says "the tag they dismissed stays dismissed". |
| `OtherName` | `Desk` | Two opens whose folders are listed in the other order, or a step during an open: the window shows one file, the worker holds the other, and a conversion is saved under the first one's name (`electron/main.ts` 1239-1244, 1267-1274); `electron/main.ts` 1474 says "Convert the CURRENTLY-OPEN file". |
| `IndexAhead` | `Desk` | Two overlapping steps that both fail: each goes back to where it began, the second to where the first had gone; `electron/main.ts` 1262-1263 says "Roll back if the parse fails so a failed step doesn't leave the index advanced". |
| `BurstEvent` | `ShotRows` | A folder event during the `stat` of a file arms a second timer, and two looks closer than a settle period announce a file that is being written; `electron/main.ts` 2869-2870 says "re-check after one more settle period; emit only once the size is stable". |
| `StalledFile` | `ShotRows` | A recorder that writes nothing for a settle period: the file is announced, and again when it has grown, and gets a second row; `electron/main.ts` 2858-2859 says "emit ONE trigger event per landing". |
| `OtherSource` | `LogTail` | The survey log's source is stopped during the `open` of a read, while another source is on: the read goes on from the offset that Stop has cleared, and the whole log gets rows; `electron/main.ts` 3079-3081 says "only NEW shots; history is NOT replayed". |
| `EditBeforeFile` | `ShotRows` | A row the observer edits before its file has landed is no longer waiting, so the file adds a second row for the same shot. |
| `TapeClaim` | `BatchConvert` | The closing marks of a tape fail: the tape is removed, but `failed` is the total less the records (`electron/main.ts` 1654), the window ignores `ok` and says that all went well; `electron/main.ts` 1657 says "don't claim success". |

Other claims fail as soon as one condition is lifted; no document makes them without it:

- `ShotRows` with `Habits` = {"fast"}: a file begun before the last has settled breaks `OneRowPerShot`, `RightFile` and
  `NothingMissed`; "live", "save", "late" (the watch is switched on, or configured, while a shot is under way; something touches an
  old file): `OneRowPerShot` and `NothingMissed`; "save" also `EveryLanding`. A look that fails after the last event of its file loses
  it for good: the mark of a later one overtakes it (`FailedLook`).
- `LogTail` with "refill" (rotated before it was read to its end): `NothingSkipped` and `EveryShot`; "slow" (a read longer
  than the debounce): `EveryShot`; "hasty" (started again during a read): `NoHistory` and `NothingSkipped`; "others": `OnceEach` and `NothingSkipped`, too.
- `FieldHub`: a pass that is still under way three seconds after Stop goes on pulling and deleting with WiFiSync off (`LeftoverPass`, of
  `MCFieldHub`). The panel speaks of stopping at the end of the program only (`renderer/src/app.ts` 1134).

Also seen, without a document that says otherwise: the server sends a file that was touched after the manifest was made;
deletions go on after the switch is turned off in the middle of a pass; a slave removes what its master has but does not
advertise at that moment; `fail()` during `open` leaves the temp file and its handle behind; a double click on Start
(section 4).

## 7. Not modelled

- Formats, survey files, GIS, DSP, rendering, export, numbering of the observer's log: sequential conversions of bytes, text and
  floating point, without state or interleaving. They are most of the repository's code outside the window, are tested against
  golden files by `core/__tests__` and `qa`, and a model of them would be their transliteration.
- Most of the window (`renderer/src/app.ts`, 23 000 lines of handlers that draw): only the handlers that take part
  in one of the protocols above are modelled.
- The sources UDP, serial, TempCom and SC_Files, the tombstone file's own steps, history and settings: section 2.
- Path safety and version strings (text), the Windows helpers (calls of `netsh`), the tooling.

The map therefore covers the concurrent core and a small share of all lines.

## 8. Running

`tlc -config TwoWay.cfg MCSyncEngine`, and so on for each entry of `PROJECT.json`, which names the module of each
configuration; `tlapm <Module>Proofs.tla` for `SyncEngine`, `FileTransfer`, `FieldHub`, `UpdateInstall`, `BatchConvert`, `Desk`,
`ShotRows` and `LogTail`.
