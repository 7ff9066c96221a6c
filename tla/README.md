# Vellum: TLA+ verification project

Vellum is a screenshot program for Wayland desktops: region capture, long (scrolling) screenshots,
pinned images, recognition and translation of text. It is written in Rust, as a workspace of small
programs that start, signal and replace one another. What is hard about it is therefore not inside
one function: processes that share the screen, threads that share a queue, and an installer that may
be killed between any two changes of the disk. This project states what those parts promise, checks
it with TLC on small instances and proves the invariants with TLAPS.

Paths below are relative to `src/crates/` unless they begin with `src/`.

## 1. Inventory

### 1.1 How the parts interact

```
 niri / KDE shortcut ──> vellumctl ──socket──> vellum daemon ──spawn──> vellum-ui (region, long, pin)
                            │ falls back to a      ▲    ▲  ▲                 │      │
                            │ direct run           │    │  └─ release datagram┘      ├─> stitcher (vellum-stitch)
 vellum-tray ───────────────┴── Status, polled ────┘    └─ exit, seen by a waiter    ├─> vellum-text (OCR, API, LLM)
                                                   SIGUSR1 = "finish the long shot"  └─> editor / result / pin windows
 vellum install | rollback | repair | uninstall ──> release store ──> systemd user units of daemon, tray, shortcuts
```

### 1.2 Components

| component | state it keeps | operations | what is hard | what makes it correct |
|---|---|---|---|---|
| **Control service** `vellum-ipc/src/daemon.rs`, `vellum-core/src/capture_lifecycle.rs` | `lifecycle` mutex over the tracked process, its waiter flag and the last event; `running`; one release socket per process | `region`, `long`, `pin`, `status`, `stop`, release by datagram, waiter per process, accept loop with a poll | a thread per connection, a waiter per process, processes that release the screen at any moment, a stop in between all of them | one owner of the screen; no selector without somebody who can end it; no signal to a reaped pid; each exit reported once; a stop ends |
| **Control client** `vellum-ipc/src/client.rs`, `control.rs`, `vellum-cli/src/bin/vellumctl.rs` | none between calls; socket and flock of the service | connect, identify, send, fall back, start or restart the service | an action whose acknowledgement is lost; a service replaced between two calls; a fallback after the action ran | an action runs at most once |
| **Long-shot recorder** `vellum-ui/src/recorder.rs`, `main.rs` | queue and notice under a mutex; `sampling`, `aborting`, `idle_queued` atomics; panel; capture thread; finish flag set by SIGUSR1 | start, grab, enqueue, notice, idle callback, stitch, finish, cancel, fail; choose, map and verify the panel | GTK main loop and capture thread; back pressure; a latch that must be re-armed; a signal that may arrive at any time; finish blocks the main loop; a panel that the compositor sizes | no frame lost or stitched twice; no lost wake-up; a recording always has a control; a finish delivers; the panel is not in the picture |
| **Stitching** `vellum-stitch/src` | canvas, history, key frames, bands that do not scroll | feed a view, extend, lift, evict, learn bands, compose | growth at both ends, eviction, a lost anchor, bands learnt from few transitions | the canvas is one unbroken piece of the page; positions are true; no content is taken for a header |
| **Screen capture** `vellum-ui/src/screencopy.rs`, `vellum-core/src/capture.rs`, `compositor` | registry, outputs, one shared buffer, pending frame | grab with damage and heartbeat, time out, stop | events of an earlier request, outputs that come, go and move, formats | a frame is of now, of the place asked for, and the right way up |
| **Capture overlay** `vellum-ui/src/surface.rs`, `selector.rs`, `toolbar.rs` | selection, drag, annotator, popup, label under the input method, timers | pointer, keys, input method, focus, finish, cancel, layout of the bar | events in the middle of a drag; two owners of one pointer | what is captured is what was shown; every button can be reached |
| **Delivery** `vellum-ui/src/main.rs`, `vellum-core/src/io.rs`, `io/atomic_file.rs`, `io/clipboard_process.rs` | the file under its new name, the clipboard process, the window | save, copy, open, recover | each fails on its own; a kill in between | no file is half written; what is reported is so; a picture is somewhere |
| **Hand-off** `vellum-ui/src/handoff.rs`, `session_transfer.rs` | recovery copy, receipt, deadline | create, spawn, wait, acknowledge, delete, discard | a receipt that is late; two processes that may die | the picture is held by somebody or in the copy |
| **Editor** `vellum-ui/src/editor.rs`, `document.rs`, `annotate.rs` | document with revision, draft, bounded undo and redo, canvas with cache | draw, select, move, type, crop, undo, redo, apply, close | a draft against an old revision; trimming at both ends; a cache of what is drawn | history is a line; a close keeps what was shown |
| **Windows of one image** `vellum-ui/src/preview.rs`, `result.rs`, `pin.rs` | who holds the image, exports in threads, marks per revision, view and tiles; pin framing | open, edit, export, close; zoom, scroll; float, resize, hand off | an export while the image is edited; the last window; late answers of the compositor | no unsaved image goes without a question; marks are about what was written |
| **Text result and jobs** `vellum-ui/src/result.rs`, `ui_job.rs` | generation, worker slot, text with its origin | recognize, translate, cancel, type | a late answer of a cancelled job; text typed meanwhile | only the newest job delivers, and never over what was typed |
| **Recognition, translation** `vellum-text/src` | deadlines, cancel flag, children | engines and models in turn, prepare the picture | fallbacks under one shared deadline; processes in groups | cancellation stops the whole chain; no stage outlives the budget |
| **Settings** `vellum-ui/src/panel.rs`, `model_picker.rs`, `vellum-core/src/settings_lock.rs`, `config.rs`, `prefs.rs` | files under a lock; forms, dialogs, requests | merge, write, probe, save at login, pick a model, close | two writers, two files, answers after the form changed | no field of another writer is lost; what is shown is so |
| **Tray** `vellum-tray/src` | lock, icon, menu, flags, marks | register, poll, menu, toggle, worker, quit | the poll, the menu's thread and the workers | one icon; marks and flags are those of now; a Quit is not lost |
| **Portal shortcuts** `vellum-ui/src/portal_shortcuts.rs` | preference, session, pending requests, bindings | enable, disable, answers, signals, timers | any order of answers | what is shown as granted is what the portal holds |
| **Shortcuts of niri and KDE** `vellum-cli/src/shortcuts`, `vellum-ui/src/kde.rs` | managed block, backup | install, remove | plain writes; validation after the write | the user's text is in the file or the backup |
| **Release manager** `vellum-cli/src/release_store.rs`, `release_services.rs` | `state.json`, `journal.json`, links `current` and `previous`, version directories, public entries, backup, services | install (with adoption), rollback, repair, cancel, uninstall, autostart; snapshot, activate, restore, stop | killed or failing between any two of some thirty disk changes; services that are busy; files the user changed meanwhile | `current` is always a complete version; records agree outside transactions; files of others are left alone; repair ends an interrupted operation |
| **Drawing, pixels**; **diagnostics, logs** | none shared | | sequential | |

`PROJECT.json` lists every component with its status and, under `hazards`, the 40 places in the code
where something hard to test can go wrong, each with the properties that watch it.

## 2. Plan

| order | module | composes with | abstract specification | state |
|---|---|---|---|---|
| 1 | `ControlService` | action processes (`vellum-ui`) as seen by the service | `ScreenOwner` | checked, safety proved |
| 2 | `LongShot` | the daemon's SIGUSR1, the panel, the stitcher as one step per frame | `Recording` | checked, safety proved |
| 3 | `ReleaseStore` | `UnitControl` (services), the user's files | `VersionSwitch` | checked, safety proved |
| 4 | `ControlClient` | the requests of `ControlService` as single steps; flock, socket, restart | | checked, safety proved |
| 5 | `CaptureSurface`, `ScreenCopy`, `Stitching`, `FixedRegions`, `PanelPlacement`, `ToolbarLayout` | how a picture is taken; the first uses `Annotator` | | checked, proved |
| 6 | `Annotator`, `Document`, `Editor`, `ImageSession`, `PreviewView`, `PinWindow` | how it is shown and edited: `Document` extends `Annotator`, `Editor` and `ImageSession` extend `Document` | `EditTimeline` | checked, proved |
| 7 | `Delivery`, `Handoff`, `TextResult`, `Recognition`, `ImagePrep` | how it is given away and read | | checked, proved |
| 8 | `SettingsFile`, `Workbench`, `ModelPicker`, `Tray` | settings and what shows them | | checked, proved |
| 9 | `PortalShortcuts`, `NiriBindings`, `UnitControl` | keys and user services | | checked, proved |
| 10 | `ControlProofs`, `LongShotProofs`, `ReleaseStoreProofs`, `SurfaceProofs`, `PictureProofs`, `WindowsProofs`, `PartsProofs`, `ServicesProofs` | the proofs, each for one to nine of the modules above | | done (section 8) |
| 11 | the liveness properties of 1 to 3 | | | checked; out of the prover's reach |

Each module declares its parameters as CONSTANTS with named assumptions, has one action per
operation or step, uses no RECURSIVE operator, and states its invariants as conjunctions of named
parts, so that a `...Proofs` module can extend it. The modules of lines 5 to 7 are checked in one
run, `windows`, and those of 8 and 9 in another, `services` (section 7).

## 3. The control service: `ControlService`, `ScreenOwner`

### What it models

`daemon.rs` runs one accept loop (`Main` in the module) that accepts connections, collects the capture
that has finished at each poll, and stops the service in the end. Every connection gets a thread
(`Worker`). One exclusive process (region or long) is tracked in the slot `active`; a pin window and a
process that left the slot get a waiter thread each. All of them meet at the mutex `lifecycle`.

| in the model | in the code |
|---|---|
| `pc`, `request` | where a thread stands in its handler, and what it was asked |
| `lifecycle` | the owner of the mutex, or `Free` |
| `active`, `event`, `running` | the slot and the last event behind the mutex, and the flag beside it |
| `stopping` | the child `stop()` took out of the slot |
| `detached` | children whose exit a background thread waits for and nobody reports |
| `phase` of a process: unborn, boot, ready, armed, result, zombie, reaped | not started; started, its SIGUSR1 handler not yet in place; the handler is there; the recording is armed; the screen is released and a result shown; it has exited; it has been waited for |
| `release`, `finish`, `killed` | the release datagram (no channel, open, sent), the finish flag of the long shot, a SIGKILL pending |
| `reported`, `notice` | how often `finish_action` ran for a process, and whether it notified |

A handler is several actions exactly where the code lets go of the mutex or calls something that
another process can see. `Lock` takes the mutex and looks for a release, `TryWait` looks for an exit
(processes move between the two), and the body of the request is one action, at the end of which the
mutex is free; only `stop` keeps it over several. `stop` first closes `running`, then
empties the slot, then kills and waits, in the order of the code; the interleavings between these
steps are what most of its hazards are about.

Left out: message texts, log and trace, the display environment of children, and a SIGKILL of the
daemon itself, which `ControlClient` has, with the flock and the restart. The number of processes
is bounded by `MaxChildren`, a bound in the guard of the launch.

### What is checked

| run | instance | shows |
|---|---|---|
| `control_safety` | 2 connection threads, 2 processes, symmetry over threads | `NoOrphanSelector`: a process that still covers the screen is tracked, or a stop has killed it or is about to; `HeldPidUnreaped`: no held pid belongs to a reaped process, so a signal cannot hit a stranger; `ExitReportedOnce`; `EventsFollowNewestCapture`: a late exit never overwrites the event of a newer capture; `ExclusiveScreen`: the service implements `ScreenOwner` |
| `control_liveness` | 2 threads, 1 process, no symmetry | `ShutdownCompletes`, `RequestsAnswered`, `FinishedChildFreesSlot` |
| `early_finish_fatal` | expected violation | the comment at `vellum-ui/src/main.rs:185` (finding 1) |
| `stop_kills_result` | expected violation | `src/docs/RESULT_OPENING.md:32` (finding 2) |

Why the bounds are enough: every conflict in this code is between two requests, or between a request
and a waiter, a release or the accept loop. Two threads and the accept loop give all pairs; two
processes give an old and a new capture (with one, `EventsFollowNewestCapture` could not fail). The
liveness run needs one process only, because its properties follow one process or one thread.

Fairness, and why the code has it. A thread that waits for the mutex gets it in the end (strong
fairness of `Lock` for each thread: the mutex is held for short and bounded stretches, and a waiter
parked on its futex is woken at each release). A runnable thread runs (weak fairness of handlers,
replies, the accept loop's poll and the steps of a stop), and a connection that sends nothing times
out (`Hangup`). A long shot that was told to finish after it was armed exits (weak fairness of that
exit, which section 4 justifies); nothing is assumed of a process the user merely looks at, and not
even that SIGKILL takes effect: `stop` gives up after its deadline.

## 4. The long shot: `LongShot`, `Recording`

### What it models

The GTK main loop and the capture thread of one long screenshot. The thread grabs frames, drops
repetitions, waits when the queue is full (it looks again every 50 ms), posts a frame or a notice
and, if the latch `idle_queued` was down, asks GLib for a callback. The callback drains
a frame, stitches it, re-arms. The finish signal sets a flag that a timer polls. `finish` blocks the
main loop: stop sampling, wait, join the thread, drain what is left, deliver. `cancel` and
`fail_capture` are the two other endings; the panel is opened, mapped, or never comes.

| in the model | in the code |
|---|---|
| `frames`, `latest`, `notice`, `latch` | the shared queue, the last frame seen, the notice slot and `idle_queued` |
| `sampling`, `aborting` | the two atomics |
| `stage`, `armed`, `pending`, `requested`, `panel` | the session up to the recorder, the three flags a finish request passes through, the panel window |
| `mpc`, `wpc` with `popped`, `held` | where the main loop stands (`consume_pending`, `finish`, `cancel`, `fail_capture`) and where the thread stands, and the frame in their hands |
| `idles`, `idleFinish` | callbacks queued on the main loop |
| `Capacity` | 48 frames or 96 MiB, whichever is reached first; a frame is at most 48 MB, so at least one always fits |
| a frame `[seq, image]` | an image; `seq` tells frames apart, `image` is what the comparison with the last frame sees |

`MaxGrabs` bounds only the frames that take a new number: repeated grabs are free. Left out: the
live preview, the stall timer of the status line, the choice of the backend (each grab is a
frame, an error, a cancellation, or none before the deadline), a panic of the thread, and long shots
started from the toolbar of a region capture. Where the panel stands is `PanelPlacement` (section 7).
Once the main loop has quit GLib dispatches nothing.

### What is checked

| run | instance | shows |
|---|---|---|
| `longshot` | 2 images, capacity 1, 2 numbered frames, fairness | `NoLostWakeup`: a queued frame or notice always has a callback coming or a consumer at work; `Controllable`: outside the daemon nothing is recorded without a panel; `FinishKeepsFrames`: an accepted finish delivers an image if a frame was taken, and reports a failure without one only when something failed; `StitchedInOrder`: refines `Recording`, each frame taken is stitched once and in order, the image delivered has them all; `FinishHonoured`, `FramesStitched`, `RetryCleared` |

With capacity 1 the queue is full after every frame and the thread is blocked most of the time, which
is where a wake-up would be lost; the second frame is taken while the first is queued, in hand or
stitched, and a repeated image is told from a changed one. The four safety properties are also proved
for every capacity and any number of frames, so that the small instance only has to carry the liveness.

Fairness: weak for the capture thread (each backend has a deadline) and for the steps of a callback
that has started; strong for the three sources GLib dispatches (the idle callback, the finish poll,
the idle finish), because GLib dispatches a ready source of equal priority in turn, while the guard
of a source is switched off by others in between.

## 5. The release manager: `ReleaseStore`, `VersionSwitch`

### What it models

One manager at a time (it holds an flock) that may be killed or fail **between any two changes of the
disk** (`Interrupted`); the next one finds what is on the disk, and nothing else. Each
phase the journal can name is a step, and the steps between two journal writes are steps of their
own. The user may put a file where an entry belongs, or remove one (`Edit`), between two steps; the
services may refuse because a window is open.

| in the model | in the code |
|---|---|
| `state`, `journal` | `state.json`, `journal.json` with operation, target, previous state, snapshot of the services, phase, adoption, plan of the cleanup |
| `link`, `prevLink`, `releases`, `backup` | the links `current` and `previous`, the version directories (absent, partial, complete), the copy of the files that had no manager |
| `entries` | the public files: none, the original of the user, edited by the user, ours |
| `pref`, `running` | the login preference; whether the services run |
| `pc`, `todo` | where the manager stands, entries still to be treated |
| `asked`, `edited`, `calm` | counters for the bounds; `calm` means nothing interferes any more |

Abstractions: the three services are one and their enabled flags are left out here (`UnitControl` has them, command by command); an error before
anything is written is the operation that does not happen; Busy may hold at any moment until `calm`;
the copy of the files without a manager is one step; the check and replacement of one entry is one
step; the limit of 16 planned clean-ups, private staging directories, report texts and read-only
commands are left out; an install that finds a journal in phase `preparing` closes it first, which is
`Repair`, `Forget`, `Close`, `StartInstall` here. `ResumeAt` is the table of `repair`: the step at
which a manager goes on, from the operation and the phase it finds in the journal.

### What is checked

| run | instance | shows |
|---|---|---|
| `release_safety` | 2 versions (symmetric), 1 set of files without a manager, 2 entries (service unit and login entry), 3 operations, 1 edit, any number of repairs and kills | `PointersAgree`: with no transaction open, the state file, the two links and the versions agree; `NothingOverwritten`: a file of the user is replaced only by what keeps a complete backup of it, and never deleted; `OneVersionLive`: refines `VersionSwitch` |
| `release_liveness` | 2 versions, 2 sets of files, 2 operations, no edits, then calm | `InterruptedInstallEnds` |
| `cleanup_continues` | 1 version, expected violation | `src/docs/DELIVERY_PHASE3.md:33` (finding 3) |

`VersionSwitch` is the promise to whoever starts the program: what `current` names is always a
complete version; it moves only inside a transaction and only to one of its two ends; a withdrawn
transaction never activates; a version is removed only when none is live. Three operations give
install, second install, rollback or uninstall; one edit is enough because each property
is about one file; two entries are enough because the service unit is the one `services.stop` needs
and the login entry the one with a preference.

`NothingOverwritten` makes one exception, stated in the module: `autostart on` puts the login entry
back after it has asked the services, without looking at the file again.
`InterruptedInstallEnds` is limited to `Recoverable` states, which leave out three kinds: the user
edited an entry; a first install is in phase `activating` (its rollback, killed after `current` was
removed, fails for ever at `services.stop`); an adoption was killed after `staged` and before
`adopting` (repair then installs the links without adopting, and is refused).

Fairness: a manager that runs goes on (weak fairness of `Manager`), and a user told to run repair
runs it (weak fairness of `Repair`). That Busy ends is assumed only for the liveness run, by `calm`.

## 6. Callers and the life of the service: `ControlClient`

### What it models

A keypress starts `vellumctl`, which pings the service, compares builds, sends one action on the same
connection and waits 700 ms. If there is nobody who would do it, it becomes `vellum`, which tries
again, starts the service (the systemd unit, then its own program), tries once more, and at last runs
the action itself. The tray and `vellum restart` use the same functions. The daemons they talk to take
turns under a flock and behind one socket path, and each may be of another build, because the installer
moves `current` meanwhile, or because one was started from a checkout.

| in the model | in the code |
|---|---|
| `at`, `stage` of a caller | where it stands: `connect`, `asked`, `reconnect` (a daemon without identity serves one request per connection), `ensure`, `unit`, `await`, `spawn`, `awaitOwn`, `direct`; which of its three attempts this is |
| `ident`, `build` | the build a caller or daemon belongs to: of a managed installation, of a checkout (`Dev`), or of a version that sends no identity (`Legacy`) |
| `sent`, `reply` | what a caller wrote and its daemon has not read; what the daemon answered |
| `up` of a daemon | starting, locked, serving, leaving (`running` is false), stopping (in `stop()`), stopped, unlinked, gone |
| `lock`, `path` | who holds the flock; whose socket file is at the path, which remains when a daemon is killed |
| `tracked` | the exclusive action a daemon tracks; the steps of its process are in `ControlService` |
| `outcome` | what the user is told: accepted, rejected, refused, unknown, direct, failed, restarted |
| `told`, `found` | the daemon that acknowledged a restart's shutdown; the one that answered when it reported success |

Deadlines are untimed: a caller may give up whenever it waits, and its request may be read and run
afterwards. A daemon may be killed in any state. A request takes one step, because it holds the
lifecycle mutex throughout; a ping takes one, because it changes nothing.

### What is checked

| run | instance | shows |
|---|---|---|
| `client_safety` | 1 keypress, 1 restart from the tray, 2 daemons, 1 managed build beside `Dev` and `Legacy` | `RunsOnce`: the action runs at most once, what was told to be accepted ran, what was refused or failed did not and will not; `SameBuildRuns`: what runs is of a build the caller may use, though the daemon changes between ping and action; `ServingReachable`: a daemon that serves holds the lock and the path is its own; `RestartIsNew`: a restart reports success only when another daemon answers |
| `tray_spawn` | the same, expected violation | `vellum-ipc/src/client.rs:246` (finding 4) |

One keypress is enough, because its properties are about one keypress and `OthersLaunch` lets other
callers keep the service busy; two daemons give an old and a new one; one managed build is enough,
because the code only asks whether two builds match, and `Dev` and `Legacy` give the mismatches. That
the restart comes from the tray takes nothing away: what a restart spawns elsewhere is what
`ServiceStarts` does at any time. The theorems lift all these bounds.

No liveness is claimed: every wait of a caller has a deadline, so that it ends is nothing to check, and
whether the service is there in the end depends on systemd.

Two observations without a run. A restart stops waiting at the first ping without an answer, and the
old daemon gives none once its accept loop has ended, long before it drops the lock; the daemon
spawned then may find the lock taken and leave, and the restart reports a failure, not a wrong
success. And a direct run is known to no daemon, so a daemon that starts later may open a second
selector; the code announces such a run as one outside the service.

## 7. Windows and services: the runs `windows` and `services`

The modules of this section share no state: what one of them takes from another process or window
is an input of its own (a file that appears, a window that opens, an answer that comes or does not).
So they are checked together but not interleaved: in `MCWindows` and `MCServices` the variable `part`
names the module whose steps a behaviour takes, and the others rest in one initial state. This finds
what separate runs would find; it says nothing about one module's steps between another's. Where
components do interact, one module has both sides: `Handoff` sender and receiver, `TextResult` the
main loop and the workers, `Document` under the editor and (in `ImageSession`) under every window
that shares it, `SettingsFile` the panels and the tray, `PortalShortcuts` the service and the portal,
`UnitControl` the manager and the user. The view of the search hides what rests, and how a pin looked
that is closed. `windows` has 1.17 million distinct states, `services` 0.89 million.

Where a property of these runs covers several components it is the conjunction of named parts, so
that a counterexample leads to the component: `CaptureTrue` is about taking a picture (`OverlaySound`,
`FrameTrue`, `StitchSound`, `BandsSound`, `PanelSafe`), `PiecesFit` about large pictures and long bars
(`PreviewSound`, `ToolbarReachable`). A `TypeOK` per run conjoins the modules' own.

### 7.1 Taking a picture

**`CaptureSurface`** has every handler of the overlay (`surface.rs`, `selector.rs`): pointer, keys,
input method, focus, the grace timer and the watchdog. `csState` is `SurfaceState` with the selector
and the `Annotator` in it; a press falls on the canvas, a button, the padding of a bar or an open
popup, each an action. The screen is one line of 3 pixel columns; where a bar lies is a choice.
*`OverlaySound`*: the input has one owner (`OneInputOwner`), and the picture handed on has the ink the
last draw showed in the selection (`FinishedInkCaptured`), except for a stroke still in flight and
ink past the edge of the canvas it was begun on (section 9).

**`ScreenCopy`** is the Wayland capturer: registry, outputs that come, go and move, one buffer for
all frames, copies that wait for damage with a heartbeat after a second. The compositor sends
whatever the protocol lets it send, in order. *`FrameTrue`*: a picture that `capture` returns was copied
for this request, shows the page as it was then or later, the right way up, at the selected place
unless the output moved meanwhile; no frame is left behind. Two outputs, one of two layouts each, one
change of page or layout, three frames: the first picture, one that waits for damage, its heartbeat.

**`Stitching`** is the stitcher from view to picture: matched, missed, found again, rejected, growth
at both ends, eviction, keyframes, the composed picture. A page is 8 rows, all different, a view 3 of
them; scoring may miss a match and never invents one. *`StitchSound`*: the canvas is one unbroken piece
of the page and every stored view lies where its position says, however often the canvas grew upward
since; the picture has all that was stitched, and one that is not rebuilt warns when it lacks the
last view. A history of 2 and 3 keyframes are less than the 4 views fed, so that both evict; a canvas of at
most 5 rows is cut off, one of at most 9 never (the page has 8).

**`FixedRegions`** is how bands that do not scroll are learnt from a window of transitions.
*`BandsSound`*: a row that scrolled in two of the transitions kept is in no band, something is left
between the bands, and a header is found at its height or not at all (in a view of more than two of
the thinnest bands: a lower one may be all header and footer, and then has none). Ten rows, six sampled columns,
six kinds of transition (a header, header and footer, a pause, a blank page, side bars), a window of
6 of which 3 must be there: 80 % is then 3 of 3, 4 of 4, 4 of 5 and 5 of 6, so that one dissenting
transition is tolerated in some windows and not in others.

**`PanelPlacement`** is where the panel of a long shot stands, from the measured sizes to the check
after it was mapped. *`PanelSafe`*: while frames are taken the panel is on the screen and outside the
selection (a KDE panel that KWin did not move is left out, see section 9), and the best panel with
room is the one chosen. Every selection on screens of 6×5 and 8×4.
**`ToolbarLayout`** fits, packs and places the bar. *`ToolbarReachable`*: every button is there once, in
reading order, clear of the others, on the screen where the screen suffices, and the bar leaves the
selection free where there is room. Three bars on ten screens, in half pixels. Both have many inputs
and few steps: they are checked over all of them.

### 7.2 Showing and editing it

**`Annotator`** and **`Document`** are libraries of operators on records, as the structs of
`annotate.rs` and `document.rs` are called by their owners; **`Editor`** is the window that owns a canvas on a
draft. The picture is a line, colour, width and type size are one attribute, a text is its length,
and the history's limit in bytes counts objects, and one for each state. *`WhatIsShown`*: the canvas is what would be applied,
from the cache or not, and a composed picture is never that of an earlier revision.
*`HistoryIsTimeline`*: the draft's history refines **`EditTimeline`**, a line of states of which only the far
ends are ever forgotten; a limit of 2 steps and 4 objects is passed by 3 edits, by count and by
bytes. *`CloseKeepsDrawn`*: a window that closes without "discard" leaves in the document exactly what it
showed.

**`ImageSession`** is the windows of one image. *`ImageSafe`*: the last of them never closes on a revision
that neither reached a file or the clipboard nor was given up by the user (`SomeoneHoldsImage`), and
"saved" and "copied" are about the picture they are shown with (`MarksTrue`). Two revisions: an export
or a question is about the first while the second is edited.

**`PreviewView`** is the preview of a long picture. *`PreviewSound`*: the view stays inside its limits and
both ends can be scrolled to, every row in the window was drawn from the revision the viewer has,
and the cache keeps to its bytes. Three pictures, three windows, three revisions,
scales in halves.

**`PinWindow`** is the pin with its framing, the compositor that floats and sizes it, and its two
background outputs; one axis, a picture of 8 pixels, scales in quarters. *`PinSound`*: a view nobody
zoomed is the whole picture, centred (`FittedIsWhole`); the size the compositor was told last is the
one the pin wanted last (`WantedSizeAsked`); what is reported was done and a job that blocks a button
has a worker (`OutputsTold`, `ReaderTold`).

### 7.3 Giving it away and reading it

**`Delivery`** saves under a new name through a temporary file and a hard link, feeds the clipboard
process, and opens the window, each with its own failure, a kill anywhere, and other programs that
save and copy. *`Delivered`*: no file is half written and none of others is replaced (`FilesWhole`);
what is said was done is done (`ExportsTrue`); a process that ends with success did all, one that fails
leaves the picture somewhere (`NothingLost`). Two names: the second is what a taken one leads to.

**`Handoff`** is one process giving the picture to another's window. *`HandoffSafe`*: however the wait, the
answer, the deletion and the user's discard interleave, the picture is in the sender, in a window or
where `recover` finds it (`PictureHeld`), and the copy stays as long as nobody saw the picture, or the
save is uncertain (`CopyKept`). One picture, no bounds: the state space is finite. `ImageSafe`,
`Delivered` and `HandoffSafe` are the parts of `ImageKept`.

**`TextResult`** is the result window with the gate of `ui_job.rs`. *`TextSound`*: one worker runs,
whatever was cancelled and replaced (`OneWorker`); the label of a text is true (`LabelTrue`); a stage is
not forgotten (`StageNotLost`). *`TypedTextKept`*: a translation takes the place only of the text it was
made from, and recognition never that of text somebody typed. Two versions of the image, three
tickets, one typing: a late answer of the first request meets the third.

**`Recognition`** is a request with its fallbacks on a clock of ticks: the engines, candidates, layouts
and models in turn, their processes with group and reaping. *`OneBudget`*: nothing it started runs past
its stage's deadline, no process is left when a stage returns, and no text is given out once the
budget is used up. The request has 3 ticks and the answer of a service 2, so that one stage
that times out leaves less than the next is due, and time runs to 6. **`ImagePrep`** is the integer part of
the preparation of a picture; *`PrepExact`* compares each of its loops with its definition, for all rows
of up to 5, images of 3×3 in two shades and histograms of 3 greys with up to 3 pixels of each.

### 7.4 Settings, tray, shortcuts and services

**`SettingsFile`** is the lock, the merge against what was loaded, the two writes and the tray's toggle.
*`SavesKeepOthers`*: a field on disk changes only from what its writer had seen or to the opposite of
what it is, and a file that does not parse is not written: no program undoes what another saved. Two
panels and the tray, three values, two edits.

**`Workbench`** is the settings window with its worker, its dialogs and the capture it starts
(*`WorkbenchTrue`*: the switch shows login start as it is, "saved" is true of what is shown, a capture
starts only with settings the user saw saved or gave up). **`ModelPicker`** is the list of models under
answers that come at any moment (*`CursorIsShown`*: the highlighted row is the one Enter takes;
*`ButtonsReturn`* and *`HintTrue`*: each button comes back, "in the list" is so). **`Tray`** has its processes, threads and workers (*`TrayTrue`*: one
icon; marks are what is on disk unless somebody else saved since; what a worker did is looked at
again; a capture takes the preferences of its moment; a Quit is not lost). All but `CursorIsShown` together
are `ShownTrue`.

**`PortalShortcuts`** has the service and the portal with everything that may be on its way between them
(*`GrantsAgree`*: granted is shown only while the portal holds the keys or the end is on its way, and the
portal holds none for a session nobody tracks, and no key counts as held that is not bound). The portal may
answer late, unusably or never, end, start, or be replaced by another that takes its name.
**`NiriBindings`** has the commands that edit the user's
file step by step, with a kill or a failed write anywhere (*`BindingsSafe`*: the user's text is in the
file or whole in the backup, and a success reported is one). A failed write leaves nothing, a file without
the end of its `binds` block, which `install` refuses, or one cut after it, which it takes for whole. The two
are `ShortcutsTrue`. It leaves out edits during a command and commands run on a file cut short, which do
lose text (section 9).

**`UnitControl`** is `release_services.rs` command by command, while the user opens windows and starts,
stops and enables services; `ReleaseStore` takes each of its calls as one step. *`ServicesSafe`*: a call
that reports success leaves every service as asked, running the version asked for, unless somebody
changed it after the last look (`ServicesAsPromised`), and no failing command takes a service's entry
away for good (`EntriesKept`; a kill can, section 9). Two units, so that the first is done when the
second fails, and one interference.

### 7.5 Fairness and limits

These runs check safety only. The windows wait for the user and the services for other programs, so
that the code justifies fairness for few of their steps; the liveness that does depend on the program
is in sections 3 to 5. CHECK_DEADLOCK is off: a window that closed stops.

## 8. What is proved

All invariants and action properties of the passing runs are proved, for every value of the constants,
and so are the four refinements (of `ScreenOwner`, `Recording`, `VersionSwitch` and `EditTimeline`). Eight
modules hold the proofs:

| proofs | of |
|---|---|
| `ControlProofs` | `ControlService`, `ControlClient` |
| `LongShotProofs` | `LongShot` |
| `ReleaseStoreProofs` | `ReleaseStore` |
| `SurfaceProofs` | `Editor` (with `Annotator`, `Document`), `CaptureSurface`, `PanelPlacement`, `FixedRegions`, `ScreenCopy` |
| `PictureProofs` | `TextResult`, `Handoff`, `ImageSession`, `Delivery`, `PinWindow`, `Stitching`, `PreviewView`, `ToolbarLayout` |
| `WindowsProofs` | the composition `MCWindows` |
| `PartsProofs` | `PortalShortcuts`, `NiriBindings`, `ImagePrep` |
| `ServicesProofs` | `SettingsFile`, `Workbench`, `ModelPicker`, `Tray`, `UnitControl`, `Recognition`, the composition `MCServices` |

The assumptions are those of the modules, and TLC evaluates them on the instances of the runs. Most say
what the constants are: bounds are natural numbers, and positive where the code has at least one (a
queue holds a frame, a list of units is not empty, the tray makes an attempt); names which stand for
different things differ (`Main` is no worker, `Free` no thread, keypresses and restarts are different
callers, `Dev` and `Legacy` are builds of no managed installation, versions are not `None`, "nobody" and
"tray" are no panels, "none" is no tray process); what a window is given (captured objects, lists of
models, sizes, transitions) is well formed; "other" is a format the capturer refuses. The rest are
relations between constants of the code, and the proofs show where it depends on them:

- the history of a document has room for any one state (`HistoryAssumption`): 8 MiB are more than what
  `validate_objects` lets through, 65 536 points of 16 bytes, 1 MiB of text and 1024 strokes;
- the rails of a long shot's panel are no larger than what the overlay takes them to be when it says
  whether there will be a control, 320×64 and 104×184 pixels (`PanelAssumption`): the comment at
  `recorder.rs:67` says that the envelope is deliberately so;
- two transitions that disagree are more than the consensus forgives, and a band is less than half of
  the view (`FixedAssumption`): 20 % of at most 6, and 45 %;
- a view has at least the rows a match needs, the page at least those of a view, and of the keyframes
  there is room for two (`StitchAssumption`);
- scales have 1 between their limits, a tile has rows, the view a padding (`PreviewAssumption`);
- the tightest bar is no looser than the widest, and the padding inside the bar, which gives half as
  much per step as that of the buttons, is at its floor no later (`ToolbarAssumption`); a selection
  begins on its screen;
- the clock runs past both budgets (`RecognitionAssumption`), 0 and 1 are values of a switch
  (`SettingsAssumption`), a pin's window has a multiple of 4 pixels, as scales are in quarters
  (`PinAssumption`).

No module assumes a set to be finite.

Each proof has the same form: an inductive invariant, one lemma for the initial
states, one per action or group of actions, one that the invariant implies the property, and a
temporal theorem that combines them. What the invariants say beyond the properties is the argument:

**Control service.** `TypeCorrect`, `OrphanFree`, `PidSafe`, `ReportedOnce`, `EventsInOrder` and
`Exclusivity` (the refinement of `ScreenOwner`), for any number of connection threads and processes.
None of the invariants is inductive alone. The inductive invariant `IndInv` adds three facts:
`MutexInv`, a thread stands in a section of the code that needs the mutex if and only if it holds it,
so that no two threads are between a check and its use; `StopInv`, a stop under way has closed
`running` and emptied the slot, so that no launch follows; `TrackInv`, the tracked process is
exclusive, not reaped and the newest of its kind, and a release in a channel means its sender no
longer covers the screen. From these, a launch finds an empty slot and a screen without owner, which
gives exclusivity; a pid is forgotten in the section in which it is reaped, which gives `PidSafe`.

**Long shot.** `TypeCorrect`, `WakeupKept`, `AlwaysControllable`, `FinishDelivers` and `Implements`
(the refinement of `Recording`), for any set of images, any capacity and any number of grabs. The
inductive invariant has `OrderInv`, the frames taken are those stitched, the one in hand, those
queued, and at most one that only `latest` knows, in this order; `WakeInv`, the latch is up only if a
callback is queued or is about to be; and `ControlInv`, which relates the stages of the two threads.

**Callers.** `ClientTyped`, `ServingReached`, `KeypressRunsOnce`, `KeypressRunsItsBuild` and
`RestartHearsAnother`, for any number of keypresses, restarts, builds and daemons. The invariant has
four parts. `DaemonInv`: daemons are born in order, who has passed `acquire_lock` and is not gone holds
the lock, who has bound the socket and not unlinked it has the path; it needs that the lock is dropped
after the socket is removed. `OnceInv`: while a request waits to be read its action has not run, and
an answer says "accepted" exactly when it has; so a caller that hears anything else may try elsewhere,
and one that hears nothing may not. `BuildInv`: the request of a managed caller is on its way to a
daemon of its build, which needs that only a caller out of a checkout ever reconnects. `NewInv`: a
daemon that acknowledged a shutdown never serves again. The proofs first reduce the steps of a caller
to six kinds and those of a daemon to six (`CallerCases`, `DaemonCases`).

**Release manager.** `StoreTyped`, `PointersKept`, `FilesKept` and `Refinement` (of `VersionSwitch`),
for any versions, entries, operations and edits, killed or failing at every step. `PointersAgree`
speaks of the time between transactions, so the invariant `StoreInv` has to say what holds inside one:
`StepsTyped` and `PhaseOfStep`, which operation a step belongs to and which phase the journal has
there, so that a manager resuming from the phase alone (`ResumeAt`) arrives where the disk is; `Ends`,
the journal names two versions that differ and the old one is whole; `Prepared`, nothing has moved
before the switch; `Moved`, after it the links are at the target, or back at the old version;
`Removed`, a version is taken apart only once nothing names it, and not the one a cancelled adoption
leaves for a rollback. The refinement then needs that each change of `current` is at one of the two
ends and to a complete version. `NothingOverwritten` needs no invariant: each replacement looks at the
file in the same step.

**Results and hand-off.** `TextSafe` and `TypedKept` rest on `TextInv`: the slot is held exactly while a
worker runs and that worker has the newest ticket (`SlotHeld`), and a request still wanted is about the
text still there (`RequestTrue`), so that what it brings cannot take the place of anything typed since.
`HandoffKeeps` rests on `HandoffInv`: nothing deletes the copy but the sender after it saw a window, and
the user (`RemovalJustified`). `SessionKeeps` rests on `SessionInv`: an export or an open question
belongs to the one open viewer, and an export counted as done was written (`SessionOrder`).
`DeliveryKeeps` rests on `DeliveryInv`: what each step knows of the steps before it.

**Editor.** `EditorShows`, `EditorWalksTheLine` and `EditorClosesTrue`, for any width, tools, captured
objects and limits of the history, rest on `EditInv`: the draft began at the revision the document
still has (`DraftOfDoc`), the canvas shows the draft from a cache that holds its strokes and has no
redo of its own (`CanvasOfDraft`), what the hand holds is in range (`HandTyped`). That undo walks a
line needs arithmetic of the trimming: what the loop of `trim_history` leaves is the longest part next
to the present that fits, at either end, which follows from the sums of bytes growing along the line.

**Overlay.** `OverlayTrue`: the cache of the canvas is never of other strokes than it has, whatever
popup, label or drag intervenes (`Cached`); the input has one owner (`OwnerOf`), and the input method
is attached exactly while a label is typed; as long as nothing was decided the screen shows the ink
there is, so that what is clipped at the end is what was shown.

**Frames.** `ScreenCopyTrue`, for any outputs, layouts and changes. `CopyInv` says where the frame of
a call is: with the compositor and asked for at the selected place (`Asked`), refused, or copied into
the shared buffer after the request and with its flags ahead of the news that it is ready (`Copied`);
in between no event of an earlier frame is in the queue (`Quiet`, `OneEach`), which is what makes one
buffer enough.

**Panel, bands.** `PanelTrue`: the placement is the best with room for what was measured (`PanelInv`),
the mapped panel stands where it says (`StandsAt`), and sampling begins only after the check
(`AllocationSafe`). `BandsTrue` counts: a row in a band misses at most the share of the window that
the consensus forgives, which is less than two.

**Pin.** `PinTrue` rests on `PinInv`: a fitted view is centred and its size is drawn (`ViewInv`), the
handle of the window has the wanted size once it is placed (`HandleInv`), a job that blocks has its
worker (`JobsInv`), the clipboard's reader is gone before a pin opens (`ReaderInv`).

**Stitching.** `StitchTrue`, for any page, view, history and number of views: the canvas is a piece of
the page, and every view in the history and every keyframe with a position lies on it (`CanvasKnown`),
the last one where the anchor is; growth upward moves all of them by the same rows. The view fed last
is within `MinShift` of where it was put (`LastNear`), so that a picture that lacks more says so.

**Preview, bar.** `PreviewTrue`: the view is inside its limits after every zoom, scroll and resize
(`Inside`), no row has two tiles in the cache, and their bytes, summed as they come and go, keep to
the limit (`CacheHolds`). `ToolbarTrue`: packed rows fit or hold one button, each row begins where the
last ended, and the place chosen is free if one of the places is.

**Picture.** `PictureKept`, `TextStaysSound`, `TypedStaysTyped`, `CaptureStaysTrue`, `PiecesStayFit`,
`PinStaysSound`, `HistoryStaysLine`, `ClosingStaysTrue` and `WindowsTyped` carry these over to the
composition TLC checks.

**Settings.** `OthersKept` (of `SavesKeepOthers`, an action property), `SettingsTyped` and
`SavesExact` rest on `SettingsInv`: who is between taking and dropping the lock has it (`LockHeld`);
what is left of a save to be written is the merge of the form with the file **as it is now**
(`PlanTrue`), which holds because only the holder writes; the tray flips what is on disk now
(`ToggleTrue`). `WorkbenchKeeps`: one request of the login switch is out at a time, its answer is how
login start is until the next, and the switch stays dirty until it is granted (`OneRequest`).
`PickerKeeps`, for any models and answers: the rows shown are some of the list, in its order, the
cursor is on one of them or on none, and the row highlighted is the cursor's, whether the list is
refilled, filtered or closed (`ListInv`); nothing is said of a list before one was fetched.
`TrayKeeps`, for any number of tray processes: only the holder of the lock is past the registration,
and what a process shows or has just written is what was saved, unless it knows that somebody else
wrote since (`ShowsTrue`).

**Shortcuts.** `GrantsKept` rests on the longest invariant, `ShortcutsInv`, which follows what is on its
way between service and portal: tokens are given out in order and each is for one request, one
response and perhaps one session (`TokensGiven`, `AskedOnce`); the service has one request out at most
(`OneOut`); messages were true when sent and the end of a session comes after what was said of it
(`OutInOrder`); news of a grant are followed by the loss of the keys, or the keys are held
(`GrantComing`, `GrantHeld`); a session the portal no longer has is about to be told so
(`LiveOrEnding`); no grab is for a session nobody tracks (`GrabsKnown`); what is held is bound
(`HeldBound`). `BindingsKept`: a command works
on the file it read and, before it writes, has a whole backup of it (`CommandTrue`), as long as the user
does not edit during a command; the managed blocks never bind a key twice, edits or not
(`BlocksAlone`).

**Services.** `UnitsKeep`: a call is about what its caller wants (`CallTrue`), and in its last look
the units looked at so far are as desired unless somebody changed one since (`LooksTrue`).
`BudgetKept`: what is out is what the step waits for (`Outstanding`), and a process has until the end
of its stage (`RunsEnd`), for any budget, cap and number of engines, candidates and models.
`ServicesKept`, `CursorStaysShown`, `SavesStayExact`, `ShownStaysTrue`, `ShortcutsStayTrue`,
`BudgetStaysKept`, `PrepStaysExact` and `ServicesTyped` state all of these for the composition.

**Preparing a picture.** `PrepTrue`: the four algorithms of `prep.rs` compute what they stand for, for
rows, images, kernels and histograms of any size. The queue of the sliding window holds, in order,
columns of which each is as good as those after it, and one as good as any column of the window that
is not before it, so that the head is the extreme (`QueueCovers`); a closing is an erosion after a
dilation with a symmetric kernel, and from `Morph` of one being below an image exactly when the image
is above `Morph` of the other it follows that it darkens nothing and is idempotent; the running sums
of `Otsu` are those of the greys passed, and fractions are compared by products of positive
denominators; what `Quantile` has left is the cut less the pixels passed. These loops are functions
defined by recursion, and no theorem of induction can be used here (each takes an operator as a
parameter): the lemmas argue by the least counterexample, from the well-order of the naturals
(`LeastNat`), which the prover does find.

The compositions are proved from the parts: a behaviour of `MCWindows` or `MCServices` is a behaviour
of each component that may stutter (the lemmas `...Part`), so that a theorem about the component holds
there.

**What proving changed in the model.** Some of it was wrong or said too little:

- two guards of the former `ResumeAt` in `ReleaseStore` could both hold, and TLC took the first; it is
  an exhaustive choice in the order of the code now;
- constants of several modules could have made distinct things equal (a tray process named "none", a
  panel named "tray", an empty list of units), and their assumptions exclude that;
- `EditTimeline` says now that what is kept is the most that fits, at each of the ends, and bytes are
  summed over the whole line, as `trim_history` does;
- `PanelPlacement` needs the rails to be within their hint, `HeadersFound` a view of more than two bands;
- strokes have a left end that is not right of their right end, as rectangles have in `annotate.rs`.

The rest was written so that it can be reasoned about and does the same: sums over the tiles of the
preview, the tightening and packing of the bar and the loops of `ImagePrep` are functions by recursion
on a number or closed forms instead of folds; positions inserted above are shifted over index sets;
nested updates in `Tray` are written out; `ControlClient` has names that do not clash with
`ControlService`.

**Only model-checked:** the liveness properties of `control_liveness`, `longshot` and
`release_liveness`, because fairness and ENABLED are out of the prover's reach, and the four
properties that are violated.

The type invariants of `ControlService`, `LongShot`, `ControlClient` and `ReleaseStore` are proved
(`TypeCorrect`, `ClientTyped`, `StoreTyped`) and not run again.

## 9. Findings

1. *An early second shortcut ends the long shot.* `vellum-ui/src/main.rs:185` says the SIGUSR1 handler
   is installed before any start-up work so that an early second shortcut is ignored. The signal may
   be sent as soon as the launch returned; until the handler is in place it has its default action. The
   run `early_finish_fatal` shows: `long`, launch, `long` again, signal in phase `boot`.
2. *A stop may end a result window.* `src/docs/RESULT_OPENING.md:32` says stop never ends a released
   result process. `stop` looks for a release once and then kills what is tracked; a release sent in
   between is not seen (`stop_kills_result`).
3. *An interrupted uninstall may become impossible to end.* `src/docs/DELIVERY_PHASE3.md:33` says an
   interrupted cleanup can be continued. `release_store.rs:1088` overwrites the phase with
   `uninstall-deferred` when a window is open; the next repair takes the entries to be still there and
   fails at `services.stop`, and so does every later one (`cleanup_continues`).

4. *The tray cannot start the service without the unit.* `vellum-ipc/src/client.rs:246` promises "a
   direct spawn so a broken or absent unit still leaves the tool usable", by running the caller's own
   program with the argument `daemon`. The tray calls the same functions, and its program is
   `vellum-tray`: it ignores the argument, finds `tray.lock` taken and leaves. A restart from the
   tray without a usable unit stops the service and starts none (`tray_spawn`).

### Observations without a run

Met while reading the code for the models; each is either outside what a property here is about or
excluded by name in the property it would touch. They are listed for the maintainers, not as claims
of a run.

- **Release manager.** An install that was switched but not activated (`pending-activation`) and is
  deferred once more by `repair` becomes `deferred` with `current` at its target; `cancel_pending` then
  refuses, although the status offers it. A kill between `systemctl disable` and the return of the
  symlink leaves the public entry missing, and a later apply is refused (`EntriesKept` names it).
- **Editor.** `delete` (`editor.rs:711–726`) does not end a drag in progress: the next motion
  (577–595) moves the object that took its place. A "discard" that was answered stays set. With a
  geometry that is not valid the window can be neither applied nor closed without discarding.
- **Overlay.** Esc while a press is held leaves a stroke in `active` that is not drawn
  (`surface.rs:1119–1214`) yet captured (1127–1128); ink past the edge of the canvas is in the document
  once the selection is enlarged. The key `d` during the drag of a selection, then Esc, leaves the
  rectangle following the pointer. After a right-click the bounds of the bar that is gone still swallow
  presses. No button or key leads to `anno.exit` (975).
- **Long shot.** On KDE the check of the panel is about its size only; KWin is asked to place it
  60 ms after it was mapped, and a failure prints "continuing without it" (`recorder.rs:1858`), so the
  panel may stand over the selection, which the comment at 952–958 calls unacceptable. Its size is not
  looked at again once frames are taken.
- **Stitching.** A picture that could be rebuilt hides the warning that it is incomplete even if the
  last view was rejected. The two bands of an axis may take 45 % each. An observation in which nothing
  changed is kept and counts, where a comment in `stitcher.rs` says that it is cleared.
- **Screen capture.** An output that moves between request and copy gives a picture of another place,
  with no check afterwards; its position and its size can be seen half applied.
- **Settings.** A save drops keys of `config.toml` that this version does not know (`config.rs:587`),
  where the comment at `panel.rs:194` says that anything a future version adds stays as written. After a save that wrote one of
  the two files, editing again gives a conflict with one's own value. The lock is cooperative.
  A probe answers for the credentials of the moment it was asked; "discard" does not stop a login
  save in flight, and the release manager it started runs on after the panel is closed.
- **Tray.** A toggle flips what is on disk, which is the opposite of its mark if the panel saved
  meanwhile. An entry whose label is stale ("finish the long shot") may start a new one. A worker dies
  with the tray on Quit.
- **Portal.** A time-out of the authorization whose preference could not be written leaves the request
  pending while the phase says time-out. `apply_bindings` clears the gate of a key that is held. An
  answer that creates a session just as "disable" is sent leaves a session without bindings.
  An answer whose code cannot be read ends the request and leaves the phase as if it were still out.
- **niri.** The writes are plain: one that fails half-way cuts the file and puts nothing back, where
  `mod.rs:4–5` says it is rolled back, and a `remove` on the cut file, or an `install` if the cut is after
  the `binds` block, replaces the only good backup. A
  command killed while niri validates leaves a block that was not verified, and the next `install` reports
  success. `remove` takes out the first of two blocks only. Keys in other included files are not seen.
  An edit of the user between the read and the write is lost.
- **Pin.** `own_window` acts on the newest window of the process (`compositor/mod.rs:176–178`), so a second
  pin within the retries floats the wrong one. At the limit of the scale `zoom_window` still scales the
  offset.
- **Files.** `hard_link` publishes the temporary file by its path, not by its descriptor.

## 10. What is not modelled

Pixel arithmetic, drawing, layout of widgets and cleaning of text are sequential and numeric or
visual; scoring of overlaps and of recognized text is reduced to the answers it may give. The D-Bus
portal, the compositors, niri, KWin, systemd, tesseract and the network are outside: they appear as
what the code can see of them, with every answer they may give. Logs, traces, diagnostics and the
build identity change no state that matters. Widgets of the settings pages, the parsing and
validation of values, the autostart entry file and the rule for KDE windows each read or write one
value in one step. The components in `PROJECT.json` with status `partly` say what is missing in each.

Time is untimed everywhere but in `Recognition`: a deadline may pass at any moment, which includes
the moments at which it really does.

## 11. Running it

```
tlc -workers 2 -config MCControlService.cfg MCControlService
tlc -workers 2 -config MCControlServiceLive.cfg MCControlService
tlc -workers 2 -config MCLongShot.cfg MCLongShot
tlc -workers 2 -config MCReleaseStore.cfg MCReleaseStore
tlc -workers 2 -config MCReleaseStoreLive.cfg MCReleaseStore
tlc -workers 2 -config MCControlClient.cfg MCControlClient
tlc -workers 2 -config MCWindows.cfg MCWindows
tlc -workers 2 -config MCServices.cfg MCServices
tlapm ControlProofs.tla
tlapm LongShotProofs.tla
tlapm ReleaseStoreProofs.tla
tlapm SurfaceProofs.tla
tlapm PictureProofs.tla
tlapm WindowsProofs.tla
tlapm PartsProofs.tla
tlapm ServicesProofs.tla
```

`MCWindows` takes about four minutes, `MCServices` two, the other runs less; `PictureProofs` takes about
twenty minutes, `SurfaceProofs` fifteen, `ServicesProofs` ten, `PartsProofs` five, the other proofs two or
less. `MCEarlyFinishIgnored.cfg`,
`MCStopSparesReleased.cfg` (both with `MCControlService`), `MCCleanupContinues.cfg` (with
`MCReleaseStore`) and `MCTraySpawn.cfg` (with `MCControlClient`) end with the counterexamples of
section 9. CHECK_DEADLOCK is off because each system may stop: the daemon after a shutdown, the long
shot after it delivered, the manager when it has nothing left to do, the callers when they are done
and no more daemons may start within the bound, a window when it is closed.
