# A TLA+ model of ARO

ARO runs Android apps as ordinary Linux processes. One supervisor (`arod`)
owns a private Binder bus and implements the Android system services an app
talks to; each service translates into what the desktop offers (Wayland,
PipeWire, portals, NetworkManager). The interesting part of the code is not a
data structure but the meeting of many actors: Binder threads that handle calls
of the apps, threads the services spawn, worker processes, the compositor
thread, the desktop, and processes that die in the middle of anything.

This directory holds TLA+ modules of those meetings, the TLC configurations
that check them on small instances, and TLAPS proofs. `PROJECT.json` maps every
definition to the lines it translates, and lists the runs, the hazards behind
the properties and the disagreements found. Paths below are relative to
`src/crates/arod/src/` unless they start with `docs/`.

- [Inventory](#inventory)
- [Modules](#modules)
- [Runs and bounds](#runs-and-bounds)
- [Fairness](#fairness)
- [Proofs](#proofs)
- [Hazards without a property](#hazards-without-a-property)
- [Disagreements between code and documentation](#disagreements-between-code-and-documentation)
- [What is not modelled](#what-is-not-modelled)
- [Plan](#plan)

To repeat a check: `tlc -config MCX.cfg MCX.tla` with the pairs of the table
below, and `tlapm M.tla` for the proofs, with each M of the eight modules that
hold theorems: `SequenceFacts` and those whose name ends in `Proofs`.

## Inventory

| Component | State it keeps | Operations | Talks to | What is hard, and what must hold |
|---|---|---|---|---|
| Service manager (`hub.rs`) | names to binders and publishers; reservations; waiters; three mutexes | addService, tryUnregisterService, registerForNotifications, unregisterForNotifications; reserve and remove_process for the supervisor | every process; `host_services.rs` | A transaction outlives its sender. remove_process holds one mutex over another. A name reserved for a worker leads to it or to nobody; what was withdrawn stays out; waiters hear of registrations |
| Worker supervision (`host_services.rs`, `main.rs`) | children behind a mutex; the stop flag of the monitor | spawn (fork, reserve, go, poll the names with a 30 s deadline), service, Drop; the monitor every 100 ms; `serve` in the worker | the hub, the kernel (parent death signal), the apps' PID namespace | Death at every point, of either side; main and monitor withdraw concurrently. No child is lost, apps start only on published services, no orphan |
| Started and bound services (`services/activity.rs`, `services/service_processes.rs`) | the processes map; bindings; running_services; token counters | bind, unbind, start, stopSelf, publish, attachApplication, finishAttachApplication; reaper threads | the app, the service processes, `aro` launchers | Binds race attaches, unbinds race binds, processes die halfway. No accepted bind is forgotten; idle processes go; each process hears CREATE, BIND, UNBIND, STOP in order |
| Location consent (`services/location.rs`, `location_setup.rs`, `portal.rs`) | the socket's mutex; decisions of the session; cancellation flags; the install lock file | getCurrentLocation, cancel; Request and Cancel messages; dialog, installation, enabling; the portal session | user, package manager, GeoClue, other ARO sessions | One anonymous Boolean per request over a shared socket; cancellation at any time; two sessions install. Answers, cancellations and consents keep to their request |
| Window input (`services/window_session.rs`, `input_channel.rs`, `compositor.rs`) | the window stack; the selected channel, its window id, the focus flag; the gesture of the pointer | addToDisplay, remove, pointer, scroll and keyboard focus events | the app's ViewRootImpl, Wayland | Binder threads and the compositor thread switch one channel. Gestures end, focus follows the channel, the channel is current |
| Activities, tasks, app start (`services/activity.rs`, `services/activity_task.rs`, `services/package.rs`) | the activity stack, the intent each launch was for, pending document requests | attachApplication, finishAttachApplication, startActivity, OPEN_DOCUMENT, finishActivity, activityDestroyed | the app, the portal | One thread per transaction to the app, which arrive in any order. activityDestroyed pops the top whatever its token; an activity runs at most once, and who waits for a result is answered |
| Graphics buffers (`services/surfaceflinger.rs`, `compositor.rs`, `services/allocator.rs`, `shm.rs`) | the gralloc buffers, cached channels, frames in flight, the SHM pool and its slots | allocate2, setTransactionState, the present loop, wl_buffer release | libgui in the app, Wayland | Every posted buffer is released exactly once, on four different ways to the screen; a slot is not drawn into while the host reads it |
| Composition (`compositor.rs`, `services/window_session.rs`) | one canvas per window, popups, SurfaceViews, the picture shown last | addToDisplay, tag, remove; the loop's checks and composites | Binder threads, Wayland | The loop locks the windows several times per frame. What is closed or dismissed leaves the screen |
| Vsync (`services/surfaceflinger.rs`) | a rate, a request flag, a socket | setVsyncRate, requestNextVsync, the ticker | the app's Choreographer | Two atomics read one after the other; no request is lost |
| Window layout (`services/window_session.rs`) | the size, each window's frame, the stack | addToDisplay, relayout, resize, remove | the Wayland thread, the app's UI thread | A resize tells a copy of the windows; every window hears of the newest size |
| Media player, recorder (`services/media_player.rs`, `services/media_recorder.rs`) | child process, socket, stop flag, position; the processes of a recording | START, STOP, PAUSE, SEEK_TO, SET_LOOPING, RESET; prepare, start and stop a capture | mpv; pw-record and ffmpeg | Every playback has a thread of its own; a late thread of the last one must not touch the next. Of two processes, either can fail |
| Notifications and shade (`services/notification.rs`, `shade.rs`, `notify.rs`) | active notes, connected widgets | enqueue, cancel, cancelAll; connect, tap, dismiss | the shade widget | A widget connects amid changes and reads late; it shows what is there |
| Alarms, pending intents (`services/alarm.rs`, `pending_intent.rs`) | active alarms; targets by binder | set, remove, removeAll, fire; getIntentSender, send | apps, activities and services | set replaces under two locks; a firing alarm races its removal |
| Persistent providers (`services/settings.rs`, `services/calendar.rs`, `services/media.rs`) | rows in memory, a JSON file (settings, calendar), an index of the user's directories (media) | load, query, insert, update, delete, batches, persist; the walk, open | apps, file system | Mutation and write are two lock sections; the file is written in place; sessions share it |
| Clipboard (`services/clipboard.rs`) | the clip and its listeners | set, get, add and remove listener, host offers | Wayland data device | Listeners are called from a snapshot |
| Keyboard (`keyboard.rs`) | xkb state, held keys, repeat | key, enter, leave, modifiers | compositor thread | Keys held while the channel switches |
| Host network (`hostnet.rs`, `services/network.rs`) | what the monitor read last | the probe of four properties, the monitor's loop, the connectivity queries | NetworkManager over D-Bus | The host changes amid a probe, or the bus goes; answers follow a host that stands still |
| Properties (`crates/aro-props`, its lines from `crates/aro-exec/src/prepare.rs`) | an arena with a trie of names | write, in the order of the lines | bionic in every process | Bionic must find what was written, in its own walk; overflow fails the write |
| Portal dialogs, audio, DNS proxy (`portal.rs`, `services/audio*.rs`, `dnsproxy.rs`) | none | one call each | desktop, PipeWire, sockets | see "What is not modelled" |
| Stateless services (`services/` others) | none, or filled before the apps start | queries | apps | wire formats only |
| Encodings (`aparcel.rs`, `bundle.rs`, `parcelables.rs`, `spec/`) | none | read and write parcels | all services | layouts, checked by unit tests |
| `aro-exec`, `session.rs` | none | namespaces, mounts, seccomp, exec | kernel | a fixed sequence of system calls |
| `aro-apk`, `aro-image`, `aro-mapper` | none that is shared, or per buffer | parse; unpack; map buffers | files, gralloc | parsers and converters |
| bootstrap, companion, tools, tests; rsbinder | | | | glue, build scripts and a vendored library |

`arod` uses `std` threads and mutexes throughout, so an atomic step of a model
is what happens inside one critical section, or between two points at which
another actor can see the difference. Calls from `arod` into an app are oneway
Binder transactions: to one target object they arrive in the order they were
sent; calls from an app are handled by any thread of the pool.

## Modules

```
ServiceRegistry            abstract: one atomic registry
   ^ implemented by
ServiceHub                 hub.rs: variables and handlers
   |-- HubNotifications    + arbitrary clients, waiters
   `-- WorkerSupervision   + supervisor, monitor, workers, apps, kernel
          `-- WorkerSupervisionProofs
BoundServices              services of the app and services with a process
   `-- BoundServicesProofs
LocationConsent            requests, socket, helper, host, portal
   `-- LocationConsentProofs
HostNetwork                the monitor of NetworkManager, and its answers

BufferOwnership            abstract: nobody renders into what is being read
   ^ implemented by
FrameBuffers               buffers and pool slots from allocation to release
WindowComposition          which frames make the picture
VsyncDelivery              one display event connection
WindowLayout               sizes and frames of windows
ActivityTask               launches, ends, choosers; intent resolution
Alarms                     set, remove, fire; EXTENDS PendingIntents
   `-- Desktop             all of these side by side
          `-- DesktopProofs

WindowInput                window stack, input channel, pointer, focus
KeyboardInput, Clipboard, Shade
   `-- UserInput           all of these side by side
          `-- UserInputProofs

MediaPlayback, MediaRecorder, CalendarStore, SettingsStore, MediaIndex
PropertyArea               arena, trie, bionic's search
   |-- PropertyAreaProofs
   `-- Media               all of these side by side
          `-- ProvidersProofs     EXTENDS PropertyAreaProofs too

VecRetain                  Vec::retain, used wherever the code keeps some of a list
SequenceFacts              lemmas about numbers, sequences and Retain
MC*                        the instances TLC checks
```

**ServiceHub** has the hub's three maps and one action per atomic section of a
handler. A transaction is a record `txn[p]` with a program counter that stays
when its sender dies, because the driver delivers what was queued. `resLock` is
the mutex of `reserved`, which only remove_process holds across another
acquisition; all other sections are single steps. `HubNotifications` lets every
process call anything and die; it abstracts reservations to a fixed choice.

**WorkerSupervision** adds `Workers::new`, `spawn`, `service`, `Drop`, the
monitor thread and `serve`, in the order `main.rs` uses them. `mpc` is main's
program counter, `cur` the worker it starts, `mon` the monitor's. A worker is
`forked` before its pre_exec hook ran, `waiting` until main writes the byte it
blocks on, and `started` after it; a dead child is a `zombie` until somebody
waits for it. A worker, an app or the supervisor may end at every step.

**ServiceRegistry** is what clients should see: a name kept for a process is
led to by that process only, and a withdrawal takes all names of a process at
once and for good. `ImplementsRegistry` is the refinement: the owner of a name
is the publisher in `services`, and a worker is gone once `remove_process`
returned.

**BoundServices** has the two kinds of services `bindService` knows. All calls
about services with a process hold the mutex of `processes` from beginning to
end and are one step each, with the failures in the middle of the step as
alternatives; calls about services of the app unlock between their parts and are
cut there (`call`). `log` is what each service was sent: the order in it is the
order Binder keeps. A process goes through `booting`, `attaching`, `bound`, `up`
and may die anywhere (`broken`, then `exited` when its launcher ended).

**LocationConsent** models a request thread (`pc`), the socket with its two
queues, the helper's main loop (`main`) and the job it starts per request, over
the host's state that sessions share. The job is cut between its two looks at the
host, at the dialog, the lock, the transaction and the switch, and between its last
look and the send of its answer: the user may turn the switch at each. `wasOn` is a
history: whether the host offered location at any moment of the job. `ready` messages carry the request they
answer although the code's do not: the field is only read by properties.

**WindowInput** has the stack of windows, the selected channel and the focus,
and cuts the compositor thread where it releases a lock: between the choice of
a gesture's window and the send, and inside set_focus.

**FrameBuffers** follows one buffer from `allocate2` through the app's queue, a
transaction, the composer's handler, the presenter's channel and one of the four
ways to the screen (`ZeroCopy`, `Copied`, an overlay, `Drop`) to its release; a
pool of SHM slots is a second set of resources, replaced as a whole when the
size changes. **BufferOwnership** is what both should look like from outside:
it is posted, shown, read to the end and given
back, never before the end, or it is replaced by fresh memory. The mapping takes an app's
buffer for `rendering` when its queue may hand it out, and for `scanning` when
the desktop has it committed or has not sent its release.

**WindowComposition** is the presenter's loop over its inbox, cut at each lock of
the windows: which window a frame belongs to (by tag, by kind, or by guess), the
canvas it becomes, when a composite is due, and the checks for a top window or
child that has gone. **VsyncDelivery** cuts the ticker at its two atomics;
**WindowLayout** cuts `resize` and `remove` between the snapshot and the sends.

**ActivityTask** keeps a set of messages on their way (`sends`), any of which may
be delivered next, as each is sent by a thread of its own. It contains the
resolution of intents against the manifest's filters. **PendingIntents** is a
module of variables and operators that **Alarms** composes with the alarms'
threads.

**KeyboardInput** turns one host event into messages (`outbox`) that go out one at
a time to the channel that is selected by then, each of which may be full.
**Clipboard** cuts a round of listeners at each notification; **Shade** cuts a call
at each line to a widget, because a full widget blocks it with the lock held.

**MediaPlayback** has the call of the app (`call`, a program counter), a thread per
playback, the slot of the current child, the flags and the socket path. A thread
that is done clears `playing`, removes the socket's path and reports its end in three
steps; it reads whether it was stopped (`Leave`) in the step that finds it is done, as
nothing that others see comes between the two. A player that the app drops only takes
no more calls: its threads hold `Inner`, which is dropped with the last of them.
**MediaRecorder** has one action per call, which holds the mutex throughout, over
two external processes. **CalendarStore** and **SettingsStore** cut an operation
between the change of the map and its write, and the write between the opening of
the file, which empties it, and its end. A write may fail at either, or be mixed with
one of another session; the code drops the error, so the operation is answered all
the same. CalendarStore has any number of sessions over one file. In SettingsStore
the other sessions are one action, `OtherSession`, which writes any map that has the
defaults, or half a file, at any moment; a session keeps nothing of another but the
file. In both the histories (`known`, `last`) are what the session was answered for,
and with a whole file goes what its writer had been (`filed`, `saved`). **MediaIndex** and **PropertyArea** are mostly pure operators:
the walk, the queries and the pages; insertion into the trie and bionic's search
of it, an external definition after `prop_area::find`. The bucket of a directory in
MediaIndex is a constant function, `bucket_of`: the code hashes the path in lower case,
so directories may share one.

**HostNetwork** reads one property per step, over a host that may change at any of
them.

Components that share no state in the code stand side by side in one instance:
`subject` picks, in the initial state, the one a behaviour is about, and the
others stay as they are. So `Desktop`, `UserInput`, `Media` and
`MCServicesLive` are the union of their components' behaviours, each with its
own properties, not a product of their states. The first three are modules of their
own, so that theorems can be stated of what their `MC` modules instantiate.

Operators whose comment begins with "Mutant" are deliberate bugs. They belong to
no specification; substituting one for its neighbour shows that a property can
fail. `history` variables (so commented) are only written, and read by
properties.

## Runs and bounds

| Run | Module, cfg | Instance | States |
|---|---|---|---|
| supervision | MCWorkerSupervision | two workers, one with two names, one app, one binder each | 176,561 |
| late_waiter | MCHubNotifications, MCEveryWaiterHears | two processes, one name, two binders, two callbacks | violation |
| bound_services | MCBoundServices | two connections, two service classes with a process, two start sequences, one service and one thread of the app | 709,221 |
| services_live | MCServicesLive | the same without the app's services; two processes with a waiter each; a host of two changes | 144,061 |
| stop_self | MCBoundServices, MCStopSelf | two threads, one service of the app | violation |
| final_unbind | MCBoundServices, MCFinalUnbind | two connections, two processes | violation |
| location | MCLocationConsent | one session, two requests of one package | 222,490 |
| location_install | MCLocationConsent, MCLocationInstall | two sessions that share a host | 2,438,256 |
| input | MCUserInput | three windows; two keys in two layouts and two windows; two clip threads and listeners; two notes and two widgets | 803,584 |
| input_focus | MCWindowInput, MCOneWindowFocused | two windows | violation |
| desktop | MCDesktop | two queues with a buffer each; two windows; a vsync connection; an activity and a dialog; three launches; three alarms of one sender | 268,560 |
| media | MCMedia | two playbacks; three recordings; a calendar of two sessions, one of two threads; two settings and clients; three files in five directories; four property lines | 475,590 |

What the passing runs show:

- **supervision.** The registry never leads to a withdrawn worker
  (`WithdrawnStayOut`) although a registration the worker queued may be handled
  after its withdrawal; a reserved name never leads elsewhere
  (`ReservedNamesExclusive`); `WorkersAreAccountedFor`: when the apps run, each
  running worker has published every name and is supervised
  (`AppsFindServices`), no step loses a child (`NoWorkerIsLost`), and main returns
  only after all were collected (`DoneMeansCollected`); nothing is withdrawn from
  a running worker (`LiveServicesStay`); the whole is one atomic registry
  (`ImplementsRegistry`). `SupervisionProgresses`: a dead worker is withdrawn,
  startup decides, and a dead supervisor leaves no worker (`DeadAreWithdrawn`,
  `StartupDecides`, `NoOrphans`). Two workers are enough for main to be starting
  one while the monitor withdraws the other; two names for a worker to die between
  its publications; the app stands for any other process, as it may call anything.
- **bound_services.** `ProcessesFollowTheirBinds`: an accepted bind of a live
  process waits or is bound until it is unbound (`NoConnectionIsForgotten`), a key
  has one process (`OneProcessPerKey`), and a live process nobody uses exists only
  after an unbindService that failed (`IdleProcessesAreStopped`).
  `ServicesLiveOnce`: each process hears CREATE, BIND, UNBIND and STOP in order
  (`ProcessesHearALife`) and a stopped service of the app is gone
  (`StoppedServicesAreGone`). The bounds: `MaxSeq` = 2 makes the exhaustion of the
  isolated UIDs (1000 in the code) happen; `MaxBinds` = 2 lets one connection bind
  two services, or two connections one, and rebind after an unbind of a connection
  that waited; `MaxLocal` = 1 and `StartsLast` bound the history of the service of
  the app.
- **services_live.** `BindsAndStopsComplete`: a bind ends in `connected`, in an
  unbind or in the death of the process, and stopped processes are collected.
  `WaitersAreTold`: a callback that is registered when a service is inserted hears
  of exactly that service unless it is dropped or dies. `AnswersFollowTheHost`:
  once the host stands still, so do the answers, and they are the host's.
- **location.** `AnswersKeepToTheirRequest`: an anonymous answer or cancellation
  cannot reach the neighbouring request, and nobody is asked twice (`RepliesMatch`,
  `CancelHitsItsOwnRequest`, `NobodyIsAskedTwice`). `ConsentRules`: no fix and no
  enabling without consent (`FixNeedsConsent`, `EnablingNeedsConsent`), and ready is
  answered only if the host offered location at some moment of the request's own job
  (`ReadyMeansEnabled`): not from an allowance that is remembered alone. That it still
  does when the answer is read is not claimed: the helper does not look again before
  it sends. `EverythingEnds`: requests do, and
  the helper last. Two requests of one package are the interesting case: they
  share the socket, the helper and the decision, and the second can see the first
  allowed, denied or canceled.
- **location_install.** Two sessions that both found GeoClue missing install it
  once (`OneInstallation`). Only one of them may end (`Ending`), for size.
- **input.** `FocusFollowsChannel`, `ChannelIsCurrent` (after the app's calls
  are done, the channel is that of the top window, or of one that a gesture
  pinned and that is still there) and `GesturesEnd`. Each window is added once;
  three suffice for a gesture's window to be covered, uncovered and removed
  while another one comes. `GesturesEnd` leaves out runs in which a Binder
  thread switched the channel between the choice of a window and the send
  (`disturbed`): there the code does send to another window. `NoKeySticks`: a key
  a window takes for down is held, or its release is on its way, under the keycode
  the window was told; windows that lost a message to a full channel are left out.
  `ListenersKnowTheClip`: between rounds, each listener that was there when the
  clip was written was told after it. `WidgetsShowTheNotes`: a widget that reads to
  the end of its lines shows arod's notes, and a tap opens that note's target
  however old the list is (`SocketLines` = 1 makes a widget block a call).
- **desktop.** `BuffersAreOwned` is the refinement of BufferOwnership and
  `NoBufferIsLost`: a buffer that is not its queue's is on one of the ways back to
  it. `NumBuffers` = 2, `MaxFrames` = 3 and `MaxPools` = 2 let a slot be released
  after its pool was replaced and a cached buffer be shown under another frame.
  `DesktopProgresses` is what is due: a dismissed popup vanishes, and when the window
  on the screen is closed the one below comes up, under fair scheduling of the
  presenter (`ClosedAndDismissedLeave`); an activity that asked for a document or was
  told to end gets its answer (`AppsAreAnswered`); an alarm that nobody removed fires
  (`OthersFire`).
  `RequestsAreAnswered`: no vsync request is lost between the two atomics (a
  `Capacity` of 1 makes the socket full). `EveryWindowIsTold`: every window that was
  laid out has been told, or is about to be told, of the newest size.
  `NobodyRunsTwice`: no activity is launched while another of its class is on its
  way or runs, as long as activities end from the last one on (`astray` says when
  they did not). Three launches are a home, one above it and one that comes
  back. `AlarmsAndIntentsKeepTheirWord`: a sender starts what it was made for as
  what it was made for, and an alarm that a removal or a later set found asleep never
  fires.
  Three alarms of one sender from two callers show a set that races another one.
- **media.** `StopsAreFinal`: a child in the slot belongs to a playback that nobody
  stopped, or the call that stopped it is about to take it.
  `StoppedPlayersFallSilent`: a player that was stopped falls silent, also when
  threads of older playbacks took its process out of the slot. `RecordingsEndWell`: success is answered only for a file that is
  whole, and no process outlives its session. `CalendarKnowsItsEvents`: an event
  that a session answered for is found in it until it is deleted, whatever becomes of the
  writes and whatever the other session does (`KeptEventsAreFound`); a file that was
  written whole has all of them (`WholeFilesHaveAll`); ids are not reused in a session
  and those it goes on from (`IdsAreNotReused`); and an instance query answers the
  window's events. With `MaxOperations` = 2 two threads insert at once, one inserts
  while the other deletes, and two sessions give one id twice. `PutSettingsStay`: what
  was put and answered for is what GET says until it is put again, and a start says what
  the session before it was told if it wrote that whole and nobody wrote after it, or
  the defaults. `IndexKnowsItsFiles`: the index is
  the tree down to its depth, the pages cover the matches, and a uri opens its
  file; two of the five directories share a bucket; `MAX_VISUAL_ITEMS` (4) and `MAX_WALK_DEPTH` (1) stand for the code's limits
  so that trees of three files in five directories reach them.
  `PropertiesAreFound` compares bionic's search with the last value of each line,
  over all sequences of four lines of eight, and the write's failure with the space
  that is needed; `ArenaSize` = 560 makes it fail in some.

Deadlock is checked in the supervision runs, where `Finished` names the only
states in which nothing is left to do. The other systems may really stop: apps
need not call, sequences and windows run out.

## Fairness

Nobody is obliged to fail, to die, to call or to answer a dialog quickly. What
is assumed:

- threads of the supervisor and its Binder threads run (weak fairness of
  `Startup`, `Teardown`, `Monitor`, `HubStep`, `HandleStep`);
- main gets the mutex of `children` although the monitor takes it every 100 ms
  (strong fairness of `Push \/ Resolve \/ LockChildren`): the monitor sleeps
  100 ms without it;
- the clock advances, so the 30 s deadline of startup passes (`Timeout`), and the
  kernel delivers the death signal (`OrphanKilled`) once the parent is gone;
- a service process that stays alive attaches, finishes and answers what it was
  bound for, and the threads arod spawned for it run; it may die instead;
- a dialog and a portal request end, because each has a timeout of 60 s; a
  package transaction ends, because the package manager does. A request thread
  gets the socket's mutex since the other requests of an instance are finitely
  many and each ends;
- a Binder thread that tells a hub's waiters goes on, and the network monitor does
  (`WF` of `HandleStep`, `Monitor`); the host and the bus owe nothing, and
  `AnswersFollowTheHost` is about those that stand still;
- the presenter's loop runs (`WF` of `Loop`). A composite needs a free slot, which
  may be taken again and again, so it is strongly fair (`SF` of
  `PresentComposite`): the desktop gives back what it no longer shows;
- the threads that send to the app run, choosers end, and the app does what it is
  told and reports it; an alarm's thread wakes up and fires;
- a call of the player goes on (`WF` of `CallStep`), and each playback thread gets
  the locks it waits for in the end (`SF` of `PlayThread`), since nobody keeps one.

Nobody is made to read: a vsync socket, a widget or an input channel may stay full
for ever. The safety properties hold without any of this.

## Proofs

Every invariant, action property and refinement that a passing run checks is also a
theorem; what a run checks and no theorem states is liveness.
Every theorem holds for all values of the constants that satisfy the named ASSUMEs
of the modules. Each of them follows from an inductive invariant, whose parts are
named and commented at the head of the proof module, and is laid out in the same
way: the invariant holds initially, one lemma or step per action keeps it, and the
last step combines the two. The theorems, with the components' own specification
(`PlaybackSpec`, `ClipSpec` and so on) where an instance has several components side
by side, and one theorem of each composition:

| Module | Theorem | States |
|---|---|---|
| WorkerSupervisionProofs | TypeCorrect, Invariance | `Spec => []TypeOK`, `Spec => []IInv` |
| | WithdrawnStayOutAlways | a withdrawn worker is never found in the registry again |
| | ReservedNamesExclusiveAlways | a reserved name leads to its worker or to nobody |
| | LiveServicesStayAlways | no step takes a service from a worker that runs before and after it |
| | RegistryRefinement | `Spec => ImplementsRegistry` |
| | WorkersAreAccountedForAlways | apps find their services, no child is lost, none is left at the end |
| BoundServicesProofs | TypeCorrect, Invariance | `Spec => []TypeOK`, `Spec => []IInv` |
| | ProcessesFollowTheirBindsAlways | no accepted bind is forgotten, one process per key, nobody idles |
| | ServicesLiveOnceAlways | CREATE, BIND, UNBIND, STOP in the order of a life; the stopped are gone |
| LocationConsentProofs | TypeCorrect, Invariance | `Spec => []TypeOK`, `Spec => []IInv` |
| | AnswersKeepToTheirRequestAlways | answers and cancellations belong to the request that asked |
| | OneInstallationAlways | at most one session installs, and only what is missing |
| | ConsentRulesHold | `Spec => ConsentRules`: nothing without consent, and ready only of a host that offered location during the job |
| DesktopProofs | BuffersAreOwnedAlways | `FrameSpec => BuffersAreOwned`: BufferOwnership is implemented, no buffer is lost |
| | BuffersTyped | `FrameSpec => []FrameTypeOK` |
| | EveryWindowIsToldAlways | of `LayoutSpec`, with its types |
| | RequestsAreAnsweredAlways | of `VsyncSpec`, with its types |
| | NobodyRunsTwiceAlways | of `TaskSpec`, with its types |
| | AlarmsAndIntentsKeepTheirWordAlways | of `AlarmsSpec`, with its types |
| | DesktopKeepsItsInvariants | `Spec` of Desktop: all of the above and all types, those of WindowComposition included |
| UserInputProofs | NoKeySticksAlways | of `KeyboardSpec`, with its types |
| | ListenersKnowTheClipAlways | of `ClipSpec`, with its types |
| | WidgetsShowTheNotesAlways, ShadeTypeOKAlways | of `ShadeSpec` |
| | WindowTypeCorrect, WindowInvariance | of WindowInput's `Spec`: `[]TypeOK`, `[]WindowInv` |
| | FocusFollowsChannelAlways, ChannelIsCurrentAlways, GesturesEndAlways | of the same; see the run `input` |
| | UserInputKeepsItsInvariants | `UserSpec` of UserInput: all of the above and all types |
| ProvidersProofs | StopsAreFinalAlways | of `PlaybackSpec`, with its types |
| | RecordingsEndWellAlways | of `RecorderSpec`, with its types |
| | PutSettingsStayAlways | of `SettingsSpec`, with its types; failed writes and other sessions included |
| | CalendarKnowsItsEventsAlways | of `CalendarSpec`, for any number of sessions and threads |
| | CalendarTyped | `CalendarSpec => []CalendarTypeOK`, for any number of sessions |
| | IndexKnowsItsFilesAlways | of `MediaSpec`, with its types: any tree, buckets, limits, selections and pages |
| | MediaKeepsItsInvariants | `Spec` of Media: all of the above, the property area and all types |
| PropertyAreaProofs | PropertiesAreFoundAlways | of `AreaSpec`, with its types: any lines, names and size of the arena |

### Supervision and the registry

`HubAssumption` and `WorkerAssumption` say that pids, names, binders and callbacks are
told apart from the two absent values, that a callback has one home, that every
worker is started once and that no two workers share a name: what the
`Kind` enumeration and `main.rs` fix. Type correctness is proved first, per
action. `WithdrawnStayOut` is not inductive: a withdrawn worker could own a name
again if its queued registration found the reservation open. So the invariant
follows the life of a reservation:

- names are reserved for a worker before it is let go (`ReservedFirstInv`), so
  before any transaction of its own or of an app exists;
- a worker only publishes its own names and an app never owns one
  (`PublicationInv`, `ReservationInv`, `ReservedNamesExclusive`);
- in the middle of remove_process the reservations are already retired and the
  lock is held (`ResLockInv`), so that nothing is inserted before the second
  half, and afterwards nothing can be (`WithdrawnInv`);
- who may be withdrawing whom: main's victim and the monitor's suspect are
  different processes, dead ones, and the mutex of `children` keeps main's
  teardown and the monitor apart (`VictimInv`, `SuspectInv`, `ChildLockInv`,
  `ChildrenInv`, `StartupInv`, `AliveInv`).

`InvStep` has one lemma per actor and one step per action. The refinement maps
each step: a second half of remove_process to `Withdraw`, an insertion to
`Publish`, a withdrawal by the publisher to `Unpublish`, everything else to a
stutter.

`WorkersAreAccountedFor` needs a second invariant, proved on top of the first
(`AccountInv`): a worker that was forked and not collected is the one main is
starting, a child, or in the hands of whoever withdraws it (`NoWorkerIsLost`); what
Drop is done with was withdrawn, and all are before main is done (`DroppedInv`,
`DoneMeansCollected`); and a child has all of its names until it is withdrawn
(`OwnersInv`).

### Bound services

The assumptions only keep the bounds natural, the connections and threads finite
and the absent value apart. The invariant is stated per process (`ProcessInv`),
since the calls about processes are atomic:

- nothing is known of a sequence number that was not used (`FreshInv`);
- a process in the map has heard nothing until it is ready, then CREATE first, and
  no STOP while it is in the map (`MapInv`);
- each of its bindings was sent its BIND while it lives, and the tokens it heard of
  are older than the next one, so that a BIND never repeats (`BindingsInv`,
  `LogInv`, `Life`);
- a live process holds exactly the connections that were accepted for it, and one
  at least unless an unbindService gave up (`ConnectionsInv`).

`PromisesInv` says that the bound `MaxBinds` leaves a token for everyone who was
promised one: without it a finishAttachApplication could run out of tokens in the
model where the code has no limit. `LocalInv` is for services of the app: a token
that was not given out is unknown to all threads. The lemmas about what `retain`
removes and keeps of the bindings, and about what a process hears of an unbind, are
proved by induction on a length (`SequenceFacts`).

### Location consent

The answer on the socket carries no request, so all depends on the mutex: the
thread that waits holds it (`LockInv`), and while the socket is open its exchange
is in one of three places (`ExchangeInv`: none, queued, or at its job until the
answer is there). A Cancel comes after the Request it is for, or is for the last
job (`QueueInv`), which is why it can be read late without harm; an answer that was
written before the socket closed is still for the holder (`AnswersInv`). The lock
file belongs to a session from its second look to the end of the transaction
(`InstallInv`), which gives `OneInstallation`. For the consents, each place behind
the dialog has one, and so has an answer of ready that is still to be sent or read
(`ConsentInv`). A job that runs while the host offers location has seen it so, and no
job starts while an answer waits to be read (`HostInv`), so an answer of ready is that of the
job that started last, whose `wasOn` nobody has reset (`ReadyMeansEnabled`).

### Window input

For any set of windows; the only assumption is that no window is the absent value.
`ChannelIsCurrent` needs little help, the other two need an invariant:

- for the focus, that the hub has a channel unless the channel was closed
  (`ChannelInv`), so that a selection that changes nothing may stay quiet,
  and that the flag is what was stored last (`FocusFlagInv`);
- for gestures, that the only open window that is touched is the one of the
  gesture, or the one that its UP or CANCEL is on its way to, and that a DOWN is
  sent while no window is touched (`TouchInv`, with `GestureInv` for the
  compositor's own state); a window that is no longer in the stack is closed
  (`StackInv`), so nothing is owed to it.

`TypeOK` says that no window is in the stack twice, which is only preserved
because a window in the stack is never about to be added: type correctness is
proved together with `StackInv`.

### The desktop

**Buffers.** For any queues, buffers, slots and frames. A buffer is in one place at
a time, and in one at least while the presenter runs (`WayInv`); the frame number
tells a release of the last post from an older one (`NumberInv`, `QueuedInv`,
`HeldInv`); the presenter's books agree with what the desktop has (`DesktopInv`,
`EventsInv`); a cached buffer has a channel (`CachedInv`); a slot of the current
pool is free only if the desktop does not have it (`SlotInv`). `OwnershipStep` is
what a step of BufferOwnership does to the two mapped sets, and every action is shown to
take one or to stutter.

**Layout.** A window that was ever told a size is told every later one (`ToldInv`):
each is in the letters of the resize under way, or has been told. A letter that a
remove is about to send may be older, and then a resize tells the window too
(`CallInv`). **Vsync** needs no more than its types.

**Tasks.** `NobodyRunsTwice` follows from the list of activities (`ListInv`): what
comes, runs or has not reported its end is on the list, no two of a class, and
the list has no class twice. A pop of the top keeps that only when the top is what
ended: the premise `~astray`. `OnTheWayInv` has what is on its way to the app.
The manifest is assumed to be a list of declared activities (`TaskAssumption`).

### Keyboard, clipboard and shade

**Keyboard.** The messages of one host event are of five forms (`OutboxInv`); with
`FocusInv`, only a focused window takes a key for down, so the releases that a
leave queues before the loss of focus cover all of them. **Clipboard.** A listener
that does not know the clip is still to be told by some thread (`ToldInv`).

**Shade.** The invariant of `WidgetsShowTheNotes` is about the future: an open
widget is a client, and *what it will show when it has read its lines and the lines
the holder of the lock has yet to write to it* is the list of notes (`ClientsInv`).
Since a note's id and key occur once (`NotesInv`), a line acts on one note only, and
the order of an update's lines does not matter to the others. The lemmas say what a
sequence of lines makes of a shown list: its first, its last, one moved from the
writer to the socket, one posted, one removed. For taps an id keeps its key from
its first note on, on the list, in any line and on any widget (`KeysInv`).

### Player, recorder, settings and alarms

- The **player**: a thread stores only the child it has started itself
  (`SpawnedInv`), and a stop sets the flag before it takes the slot.
- The **recorder**: the file is the session's while there is one, and no later
  session has ended (`SessionInv`).
- The **settings**: the map of a running process has every value of `last`, the file
  unless half written every value of `saved`, and what a thread writes is the map as
  it is (`KeptInv`).
- The **alarms**: what a removal found asleep still sleeps or looked and kept
  silent (`SilencedInv`); a set that has begun has room for its alarm
  (`ArmedInv`), for which the callers are assumed finite. Senders are never taken
  back (`EntriesInv`).

### The calendar

For any number of sessions and of threads of each. The invariant has three parts:

- of each session (`CopyInv`): its copy has every event it was answered for under its
  id, and its counter of ids is beyond all of these (`Answers`); the ids of the
  insertions its threads have under way are in the copy, are nobody else's and were
  not given before; one thread writes at a time, and writes the copy as it is;
- of the file (`FileInv`): unless it is torn or missing, it answers for what the
  session that wrote it had been answered for (`filed`), so a session that loads it
  may go on from there;
- of the sizes (`SizesInv`): what bounds the ids of a calendar is not what its session
  inserted, since it may have loaded what another one wrote, but the number of
  insertions of all sessions (`Sized`).

Other sessions only disturb the file, and they leave it torn, theirs, or as it was, each
of which keeps `FileInv`; that is why no property of one session needs the others to
keep still. That the ids of two sessions differ is not claimed, and not so: both count
from what they loaded.

### The index of the media provider

For any tree of directories, any files and limits. The walk is a function from the
depth to a function from the directory; nothing in it is of bounded size, so the proof
is an induction on the depth from the limit up. At each depth the walk of a directory
is one that adds to what was found, if there is room for it, each image and video as
often as there is a way down to it within the levels that are left (`Adds`). Because
the directories have levels (`MediaAssumption`), two different directories in one
directory have no file in common, so a file below the directory is found once
(`Ones`), and from all the directories to walk together once for each of them that is
above it (`InMany`, `Above`).

`Indexed` says what a session's start makes of that: items with ids that follow one
another, ordered by `Later`. The order is a strict one of finitely many items, so
position and number of later items agree. Ids of chosen files are beyond those of the
index and never given twice (`ChosenInv`). The queries are proved of any index:
that pages of a size that is positive cut the list of matches without gap or overlap,
that terms joined by AND are a conjunction when no two are of one column, whatever
function `bucket_of` is, and that a uri leads to the item with its id.

### The property area

For any lines, any names and any size of the arena. The trie is a binary search tree
of siblings per level, in an arena whose offsets only grow, and both aro's insertion
and bionic's search are walks in it. Two facts make them work:

- every link leads to a larger offset (`Linked`), so that each walk ends: the proofs
  about walks are inductions from the last offset to the first (`FromTheLast`);
- insertion and search turn the same way at each node (`SameTurn`), so that a walk
  which found its segment finds it still when another node hangs at the end of another
  branch (`Hangs`), and the node just hung is found.

The area of a state is what writing makes of its lines (`AreaInv`), so the argument is
about the writing, one line after the other (`Stage`): every node has one path of
segments from the root, and every path one node (`Tree`); the value of a name is at the
node of its path, and nothing is at the others (`Entries`); and what is used is what
the paths and the properties need (`Holds`), so that the write fails exactly when that
does not fit, or a segment is empty. Lines with the same name are merged before, and
the merge keeps the last one's value (`Merges`).

### Compositions

A step of `Desktop`, `UserInput` or `Media` is a step of its subject and leaves the
others as they are, so the conjunction of the components' inductive invariants is one of
the composition. That is the step from the theorems to the very specifications the runs
check, with the types of all components. For it the types of **WindowComposition** are proved
as well: what the presenter has taken, shows or keeps is a posted frame or nothing, and
where it draws is in the stack at that moment, although windows come and go between any
two of its steps (`MatchingFacts`, `TopFacts`).

### Limits

What stays with TLC is liveness: `SupervisionProgresses`, `BindsAndStopsComplete`,
`WaitersAreTold`, `AnswersFollowTheHost`, `EverythingEnds`, `DesktopProgresses` and
`StoppedPlayersFallSilent`. They rest on fairness and ENABLED, of which the provers know
nothing; so the waiters of the hub and HostNetwork, whose properties are all of this kind,
are model-checked only, with the types of the latter.

Induction is used where an invariant speaks of sequences, trees or walks of any length.
The library states it with a predicate as a parameter, which the installed provers cannot
instantiate, so `SequenceFacts` proves that a set of naturals has a least element
and each use names the set of the numbers at which its claim fails, or holds. No module
has a RECURSIVE operator: what recurs is a recursive function, which is shown to exist
before it is used.

The bounds that a module names and the code does not have (`MaxPosts`, `MaxInserts` and
so on) are constants: the theorems hold for each value, however large.

## Hazards without a property

Each is visible in the model, and no document, comment or test says what should
happen:

- `services/activity.rs:512`: CREATE is sent after running_services is unlocked,
  so that a second caller's ARGS or BIND can precede it;
- `compositor.rs:323`: the stack is unlocked between the choice of a gesture's
  channel and the send, so that the message may go to another window (the history
  variable `disturbed`).

Other behaviour that is modelled as it is and not promised otherwise: a service of
the app that was only bound is never stopped (`unbind` removes the connection
alone); the composer's table of gralloc buffers only grows, and an allocate2 that
fails leaves the buffers it made; the vsync thread ignores a closed socket; a media
root inside another one is indexed twice; an OR in a selection counts as AND; a
second session takes over the shade's socket; unregisterForNotifications drops
every waiter of the name and ignores its callback argument (`hub.rs:170`).

## Disagreements between code and documentation

Four have a run whose counterexample shows them.

- `late_waiter`: registerForNotifications looks the name up and pushes the
  waiter under two mutexes (`hub.rs:167`); a service registered in between is
  never reported.
- `stop_self`: stop_service checks the bindings, unlocks, and then stops the
  service (`services/activity.rs:627`), against docs/WEBVIEW.md:105.
- `final_unbind`: a failed UNBIND ends unbindService before its sweep
  (`services/service_processes.rs:154`), against docs/WEBVIEW.md:103.
- `input_focus`: set_focus stores the flag before it takes the lock
  (`input_channel.rs:116`), so that a channel switch moves no focus, against
  docs/DESKTOP-INPUT.md:20.

Seven have a property without a run. Adding it to the INVARIANTS of the cfg
gives the counterexample.

| Property | cfg | The code |
|---|---|---|
| `ReleasesGoHome` | MCDesktop | a buffer is cached with the release channel of whichever window was seen last (`services/surfaceflinger.rs:399`) |
| `TopCanvasIsShown` | MCDesktop | the top window is compared by its layer id alone, so a frame that was cached before it came to the top is not shown (`compositor.rs:714`) |
| `OrphansAreDropped` | MCDesktop | with one base window, the late frame of a dismissed popup becomes its picture (`compositor.rs:571`) |
| `LaidOutAtTheSize` | MCDesktop | remove() may send an older size after a resize (`services/window_session.rs:450`) |
| `StackIsWhatRuns` | MCDesktop | activityDestroyed pops the top whatever activity ended (`services/activity_task.rs:79`) |
| `CompletedPlaybacksEnded` | MCMedia | a stopped playback's thread takes the next one's child, which is then reported complete (`services/media_player.rs:271`) |
| `InsertsArePersisted` | MCMedia | calendar.json is written in place, its failed writes are dropped, and sessions share it (`services/calendar.rs:217`) |

Three were met while reading, and no property states them: toasts go to the shade
only, as nothing constructs the `Notifier` (`shade.rs:4`); DELETE takes the number
at the end of any uri for an event's, also a reminder's
(`services/calendar.rs:880`); recurrences are stored and never expanded
(`services/calendar.rs:561`, docs/MILESTONES.md:140).

## What is not modelled

- The components that `PROJECT.json` lists as not_modelled, with the reason for
  each: portal dialogs for files and links (one call, one answer), audio, the
  stateless services, the DNS proxy, encodings, `aro-exec`, the parsers, bootstrap
  and companion, and the vendored rsbinder. None keeps state that two actors share.
- Of the modelled components: formats, layouts and read-only queries, with the
  exception of those of the calendar, the index and the property area; content
  providers an app asks for; volume, positions and durations of a player; display
  callbacks, which are registered and never called with anything but a constant;
  layers and pixel formats; test taps of the presenter.
- What the media walk passes over: names that begin with a dot, directories and files
  it cannot read (`services/media.rs:441`, `449`). MediaIndex's directories and files are
  those that it sees.
- An OPEN_DOCUMENT without a receiver, or before an app is attached, is dropped without
  an answer and changes nothing, so it has no action.
- A full socket for pointer events: a send to an open channel always arrives in
  WindowInput. KeyboardInput has full channels.
- Overflow of the allocator's u32 sizes: dimensions are data here.
- Registry entries of apps that died stay in the hub; nothing in the code
  withdraws them and no property says otherwise.
- The location authority's check of the caller (`host_services.rs`) is a
  nondeterministic yes or no; the encoding of a fix is left out.
- Pids are not reused within a session.
- Poisoned mutexes: a panic while a lock is held is not modelled.

## Plan

1. *Done.* The hub and its supervision with their abstract registry, because
   everything else is found through them; then the two components with most
   actors (bound services, location consent), then window input.
2. *Done.* The display path with its abstract ownership of buffers, tasks, alarms
   and intents; keyboard, clipboard and shade; media, the providers, properties and
   the network; liveness where the scheduling justifies it.
3. *Done.* The safety invariants of the runs, one component after the other, with
   their inductive invariants, and the two refinements.
4. *Done.* The searches of the property area and the walk of the media provider; the
   types of the calendar's sessions and of the presenter; the theorems of the
   compositions.
5. What could come next:
   - a safety property of the picture itself: which canvas may be on the screen after
     which removals, beyond that it is a posted frame. The code's guesses
     (`TopCanvasIsShown`, `OrphansAreDropped`) leave little that always holds;
   - the hub with arbitrary clients (HubNotifications) as an implementation of
     ServiceRegistry, which so far is shown for the clients of a session;
   - the stateful part of `services/package.rs` and the content providers that apps
     ask for.
