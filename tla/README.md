# Clipped: a verification project

Clipped records games on Windows without being asked to. A recorder process
watches for games starting, records each one, keeps the last minutes in a
replay buffer, runs plug-ins that report what happens in a game, writes a
library of what it recorded and answers a desktop application over a named
pipe. This directory holds TLA+ models of the parts of it that decide things,
configurations that check them with TLC on small instances, and theorems about
them checked with TLAPS.

## How to run it

    tlasany SessionManager.tla                                 # parse
    tlc -workers 2 -config MCSessionManager.cfg MCSessionManager
    tlapm AutomaticRecorder_proofs.tla                         # prove

`PROJECT.json` lists every run with what it is expected to find, for every
modelled definition the source lines it stands for (`map`), for every property
a plausible bug in the code that the property catches (`mutants`), what is hard
to test in this code and which property looks there (`hazards`), and where the
models and the documentation disagree (`findings`).

Contents: [the system](#the-system), [the modules](#the-modules),
[the runs](#the-runs), [fairness](#fairness), [refinement](#refinement),
[disagreements](#where-the-code-and-its-documentation-disagree),
[what is proved](#what-is-proved), [what is only checked](#what-is-only-checked),
[what is not modelled](#what-is-not-modelled), [what is left](#what-is-left).

## The system

    game processes                       desktop window, tray, web view
         |  start, exit                       |  named pipe
    process watcher ----+              protocol server <---- supervision link
      (WMI or polling)  |                     |                (in the window)
                        v                     v
     plug-ins <--->  driver loop  <---->  recording state (one encoder)
     (one host          |                     ^
      a recording)  session manager           | adopt, finish
                        |  start / stop       |
                        +------------> recording thread (capture loop)
                                         |         |         ^ audio threads
                                   muxing thread  replay buffer --> spill thread
                                         |                |
                                       file            a save
                                         |
                              library: index, trash, cleanup,
                              thumbnails, waveforms (background worker)

| Component | State | Operations | What is hard | What makes it correct |
| --- | --- | --- | --- | --- |
| Process watcher (`crates/game-detection/src/process_watcher`) | launches being collected, live processes, exits settling; the source's last looks; the channel | look, take an event, drain what is due, replace a lost source | two subscriptions that look independently, reused ids, a source lost half-way, a launcher that never stops starting | nothing alive is reported gone, nothing is launched twice, what is collected is reported and what was seen to end is reported gone |
| Session manager (`crates/session/src/automatic/mod.rs`) | the open session, deferred games, clocks, the recording directory, the sidecars on disk | launch, exit, poll, suspend, outcome, user's stop, shutdown, directory | orders of outcome, stop, exit and timeout; a crash at any moment; a session that can never close | one encoder; the record on disk agrees with what runs; a stop holds; a sitting ends, and only after its grace |
| Driver and recording state (`apps/recorder/src/watch.rs`, `serve.rs`) | the pass, the recording thread, `current` and its flags, the connections' calls | the pass, adopt, finish, start, stop | four kinds of thread and one mutex, flags read outside it, waits that give it away | one capture; no wait for ever; shutdown ends with everything collected |
| Protocol server (`crates/ipc/src/server.rs`, `serve.rs`) | the pending pipe instance, connections and their count, `deciding`, `requested`, `stopping` | accept, greet, dispatch, stop, shut down, wind up | connections nobody joins, replies that cannot be written, a stop that must wake a blocked accept, check-then-act against the recording state | an honest count, a door that opens again, what the last look finds is finished, an accepted stop ends the process |
| Supervision link (`crates/ipc/src/supervisor*`) | attempts, loss, the attachment, `stop` and `retry`; the recorder processes and the endpoint | probe, spawn, follow, back off, give up, retry, shut down | recorders that crash, wind up or are started elsewhere; a stop between the look at the flag and the spawn | one endpoint, a bounded budget, a stop that is heeded, a loss that is told |
| Recording pipeline (`crates/session/src/recording.rs`, `muxing.rs`, `audio/`) | frames, what the encoder holds, the one queue and its two counted shares, the audio threads, the writer, free space | submit, recover, write, flush, join, conclude | a slow disk, a queue at its limit, failures of four parties at once, a panic | the capture thread never waits for the disk, the file is whole, a failure is told, a stop finishes |
| Replay buffer (`crates/replay/src`) | sealed and open segments, gaps, silence, what is spilled or leased; the writer and its channel; the files | push, seal, evict, spill, lease, end | the window against the ceiling, gaps of two kinds, files shared by the window, a save and the writer | a whole window without a jump, an honest completeness, bounded memory, no file lost and none left |
| Plug-in host (`crates/plugins/src`, `crates/session/src/plugins`) | processes and what their readers share, the bounded queue, restart ledgers, what is collected | attach, poll, judge, replace, disable, detach, finish; deliver, drain, take | hangs before and after a hello, floods, crashes, a replacement due when everything ends, readers nobody joins | bounded replacement, every event in one place or counted, nothing given up on comes back, no recording waits for a plug-in |
| Library (`crates/library`, `crates/session/src/cleanup.rs`) | rows, files, trash entries, the indexer's and the window's places | reconcile, sweep, send, restore, empty, lock | two database connections without a lock between them, a rename and a row in two steps, a crash or a person in Explorer between | deletion stays recoverable, one thread at a file, what is in the trash is named, no other file replaced |
| Background worker (`crates/background/src/worker.rs`) | bounded queue, current item, suspension, stop | request, suspend, resume, stop; the thread's waits | two waits on one condition variable, wakes without cause, stop during a pause | once each, never during a recording, stops |

How they touch one another: the driver owns the session manager, the recording
thread's handle and the plug-in host, and is the only one to call any of them;
the recording state is a mutex it shares with the protocol server's
connections; the capture loop, the audio threads and the writer share one
channel; the library's two hands share nothing but SQLite and the disk; the
link knows the recorder by its pipe and its process. `PROJECT.json` names the
remaining parts of the repository under `components`, each with its status.

## The modules

| Module | Models | How it corresponds to the code |
| --- | --- | --- |
| `SessionManager` | `SessionManager` and its settings | Each public method is an operator from the manager before the call to the manager after it; a method that calls others is their composition in the code's order, the trailing `persist` and the directory held back included. The actions a method returns are the fields `starts` and `stops`, applied by `Call` as the driver applies them. Around it: live processes, running recordings. |
| `AutomaticRecorder` | `Driver::watch`, `attempt_with`, `RecordingState` | EXTENDS `SessionManager` and calls its actions. The pass is three steps (flag, collect, turn) because other threads run between them; every critical section of the recording state's mutex is one action. |
| `ProcessWatcher` | `LaunchDebouncer`, `ProcessWatcher`, the WMI and polling sources | The debouncer's methods are operators on its three fields, whose lists are sets: a process id is looked up in them, `KeptApart` says it is found at one place, and `drain` sorts what it takes out. An instant is the ticks left until it. The two WMI subscriptions come up and look at the machine independently, and the watcher takes nothing before both stand; the poller looks once for both. |
| `RecorderServer` | `Server::run`, `Listener`, `serve_connection`, `ShutdownState`, the phases of serve.rs's `run` | One action per step of the main thread, of the console's thread and of each connection's; a connection is where its thread is (`greeting` to `knocking`), and its client may hang up between any two. |
| `RecorderLink` | `RecorderLink`'s thread and owner | One action per decision of the watching thread and per wait of the owner; a recorder process is `starting`, `serving`, `winding` or `dead`, whoever started it. |
| `RecordingPipeline` | `record_into` and its `conclude`, `MuxingThread`, the audio threads | The loop, each audio thread and the writer are records with a step; the channel is two sequences with one capacity, FIFO for pictures. Failures are choices bounded by `MaxFaults`. |
| `ReplayBuffer` | `ReplayBuffer`/`Inner`, `SegmentLease`, `SpillArea`, `spill_loop`, `SpillWorker` | The functions that run under the lock are operators on `b`; one action is one critical section. The capture thread offers, sends and unmarks in three, the writer goes round its loop in seven. A buffer made by `new` has no writer, one made by `spilling` has (`Kinds`). |
| `PluginHost` | `PluginSupervisor`, `PluginProcess` and its reader, `EventInbox`, the runner of `SessionPlugins`, the driver's side of it | A plug-in is a record of what the supervisor keeps and one of what the process and its reader share. The look of `examine_running` and the judgement on it are two steps, since the reader and the process go on between them; the rest of a poll is one step per plug-in. |
| `Library` | the indexer's run, the sweep, the trash and the window's commands | A file is at a place; a place holds nothing, footage, a placeholder of a claimed name, or another file. Each look, rename and row is an action of its own; one transaction is one action. |
| `RecoverableDeletion` | what the trash promises | The abstract specification that `Library` implements; see [refinement](#refinement). |
| `BackgroundWorker` | `Worker` and its thread | One action per method and per critical section of the thread; `Wake` is a condition variable waking of itself. |
| `BoundedRequests` | what the worker promises | The abstract specification that `BackgroundWorker` implements; see [refinement](#refinement). |
| `MC*` | small instances | Constants only; no definition is replaced. |
| `*_proofs` | theorems | One module to a component, but that `AutomaticRecorder_proofs` holds the session manager's too and `RecorderEndpoint_proofs` those of `RecorderServer` and of `RecorderLink` (whose `LinkInit`, `LinkNext` and `LinkSpec` are named apart for it). See [what is proved](#what-is-proved). |

### Time

`SessionManager`, `ProcessWatcher` and `PluginHost` never compare a clock with
anything but a few constants, so a moment is kept as an age (or as the ticks
left) that `Tick` moves and that stops at the largest value a comparison can
tell apart. Runs are then unbounded and their states are finite, and no bound
on time is needed. In `ReplayBuffer` media time is a datum (segments carry it),
and `MaxTime` bounds it. `RecorderServer`, `RecorderLink`, `RecordingPipeline`
and `Library` decide nothing by a clock that another step does not race with:
a delay there is a choice.

### Abstractions worth knowing

- A session's id is its launch's; the code's ids have a resolution of one
  second and two sittings that begin in one second would share a file.
- A sidecar write succeeds. The code promises nothing after one that fails
  other than to write again at the next change.
- What the watcher drains goes to the consumer in one step: the ready queue is
  emptied before the next drain, by the same thread.
- The order in which the debouncer opened its launches, and that of the
  processes in one, are left out; both are reported in it, and no property here
  is about it. The walk up the parent links of a batch of exits is
  `Walks`/`Depth`; of two exits with one id the code keeps the later one's
  parent (a `HashMap` collects them) and the model keeps either's.
- The spare capacity of a segment's vectors is left out; sizes are units.
  Pictures arrive in presentation order, which is how the low-latency encoders
  are configured. `SpillQueue` is 1 in the configurations and 4 in the code:
  one makes the queue full sooner.
- A spill thread that cannot be spawned leaves a buffer in memory, which is the
  kind without a writer.
- `RecordingPipeline` numbers the pictures it submits; that is all of a packet
  there is. An encoder may hold pictures back (`HeldBack`) and gives them at the
  flush; `Burst` packets at most come out of one submission, which is what the
  code's headroom is sized for.
- In `Library` a batch of the indexer is one transaction with a choice, for
  each session in it, of whether its savepoint was rolled back.
- A line of a plug-in is what its reader makes of it, and the loop that reads
  one line at a time is one action. A plug-in that floods fills a queue of one.
- `began`, `holes` (ReplayBuffer), `reported` (ProcessWatcher), `askedFor`,
  `late` and `cut` (SessionManager, AutomaticRecorder), `spent` and `strays`
  (RecorderLink), `stranded` and `byHand` (Library), `tries` (PluginHost) and
  the field `late` of RecorderServer's recording are history: nothing in the
  code reads them, and no action's guard does.

## The runs

Every passing run explores its whole state space.

| Run | Checks | Bounds, and why they are enough |
| --- | --- | --- |
| `session_manager` | safety of the manager | Two games, three launches (the third the first game again under the first's process id), a child for two of them, two recordings a session, grace and restart of one tick and a suspend of two, two directories. A relaunch in the grace, a deferred game, a second recording and the limit, a suspend with each thing pending, and a directory changed while a sitting is open all happen. |
| `session_manager_live` | a dead session ends; a live game is recorded again | Two launches, one with a child that the other game makes wait: what a missed exit needs. |
| `automatic_recorder` | one capture, nothing waits for ever, what is asked ends | One game, one automatic recording, one client, one recording started by hand: enough for the game's recording to be refused and to race a stop and a start. |
| `process_watcher` | the watcher's promises, safety and liveness | A launcher, the game it starts and another process with the game's id; the game runs before the watcher. Quiet period 2, cap 3 and settle 1, so that the cap is not a multiple of the quiet period and a child that joins late meets it. Both sources, the subscriptions in either order, a refusal of either, and every loss of a source. |
| `replay_buffer` | the window, gaps, the ceiling, completeness, the segment files and the end | Both kinds of buffer. Without a writer six pictures and one block of audio in five ticks, with one five pictures in four; a window of two segments and a ceiling of three units, so that the window fills and turns over and the ceiling is hit while it does; one save, a disk that may fail, and one segment's room in the channel, so that a send is refused. |
| `background_worker` | the worker's promises, and that it is the queue it promises to be | Three paths and a queue of two, so that one is dropped, and it matters which. |
| `recorder_server` | the count, the door, the last look, the end | Two clients against a cap of two connections, two recordings, the console's stop: two shutdowns at once, a start between a check and a look, and a client gone before its reply. Two clients cannot pass the cap: of `live <= MaxConnections` this run says nothing, and `CountIsHonest` proves it. |
| `recorder_link` | the budget, the endpoint, the stop, the loss | One link, four processes and two attempts; recorders started elsewhere stand for the other windows, and the fourth process is the replacement that must not come. |
| `library` | recoverable deletion, one hand at a file, names, liveness | Two recordings and one entry of the trash, so that a second deletion finds it taken; one crash, act by hand or lock. |
| `recording_pipeline` | room, the whole file, the failure told, the stop | Two audio sources against a share of two, a queue that holds two pictures with one of headroom, an encoder that holds back two, three pictures and one fault: the high-water mark is reached, a flush fills the queue past it, and the fault may fall on every party. |
| `plugin_host` | the budget, the books, what stays down, no waiting | One plug-in, one replacement, every budget at its smallest, a queue and a store of one event, three lines: one says hello and two are too many, or three events against a queue of one; all ages that a comparison tells apart. What one plug-in does to another through the shared queue is below. |
| `lost_writer` | a statement of the documentation that TLC refutes | See [disagreements](#where-the-code-and-its-documentation-disagree). |

Deadlock checking is off (`CHECK_DEADLOCK FALSE`) where the system stops of
itself: the driver returns after a shutdown, the recording lets go of its
buffer, the process exits, the link's thread ends, the indexer's does, a
recording is concluded and a plug-in host is gone, with bounded input. It is on
for `SessionManager` and `ProcessWatcher`, which always go on, and for
`BackgroundWorker`, whose `Gone` step stands for the owner having dropped it,
so that any other end is a deadlock.

What the properties say is in the comment above each; most are the conjunction
of named parts, one to a promise. A few notes:

- `NothingIsForgotten` (in `AllAreAccountedFor`) is the invariant behind
  `DeadSessionEnds` and `LiveGameIsRecorded`: an open session with nothing to
  wait for is inside its grace, and a game that is played and not recorded is
  due a recording. Its mutant, a last child whose exit starts no grace, leaves a
  session open for ever.
- `ReportsAreTrue` and `WhatIsSeenIsReported` hold across a change of source
  because `known_pids` counts what is reported, collected and settling; the
  mutant leaves out what was reported. They do not need the subscriptions to be
  fair to each other. `NotPutOff` (in `ReportsAreTrue`) and `DueWithinCap` (in
  `BatchesAreSound`) are what ends a launcher that never stops: a child that
  joins is due within the window, and the window only closes. A join that
  forgets the cap violates the second, one that renews it the first.
- `BatchesAreSound` is five things of what the debouncer keeps: its type;
  `KeptApart`, that a process id is collected once or believed to run once and
  that what waits to be reported gone is in neither place; `ToldIsKept`, that
  what the consumer was told runs is what the watcher still has to report gone;
  `DueWithinCap`; and `LeavesFirst`, rule 5, for a batch with each id once and no circle of
  parents.
- `NoGapInTheWindow` and `OwnedIsBounded` (in `WindowIsWhole`) are of buffers
  handed pictures alone. With audio neither holds; see below.
- `CompleteIsCurrent` is of a save made when the recording loop has just said
  how long the source has been silent, and not while the ceiling is throwing
  pictures away: the code says nothing of completeness there.
- `WhatRanIsFinished` is of what the service finds when it looks for the last
  time; what an open connection starts after that look is `late`, and
  `NothingIsAbandoned` says there is no such thing.
- `FailureIsTold` has `WriterLost` replaced by the writer's own error, but of a
  writer that panicked: its join has no other to give, and the property says
  that this is the only time.
- `StopIsHeeded` allows the one attempt whose look at the stop came before it.
- `OthersSurvive` exempts the undo of a move whose row was refused: it renames
  over whatever came in between.
- `QueueHasRoom` is of the capture loop and of each audio thread; a flush at a
  seam is the one send that may wait, and `AudioFindsRoom` says that it alone
  can push the audio threads out of their share.
- `NothingWaitsForAPlugin` is liveness in both its parts: a hung plug-in is
  reclaimed while the recording goes on, and the end of a recording, once asked
  for, comes without any fairness of plug-ins or readers.

## Fairness

- `SessionManager`: time passes; the driver polls (its loop turns at least once
  a `POLL_INTERVAL`); a recording that was asked to stop stops. Nothing is
  assumed of games, users or recordings nobody stopped.
- `AutomaticRecorder`: the driver's three steps; a thread that was told ends and
  releases; a client that began a stop goes on with it. Each is a thread that
  is runnable. The capture ending when told is `StopSignal` being polled every
  frame.
- `ProcessWatcher`: the source starts and looks once an interval; the driver
  calls `next_event` again and again; time passes.
- `ReplayBuffer`: the capture thread's offer, the writer and the joins go on;
  a save that holds a lease reads and drops it. Nothing is assumed of pictures
  arriving, or of the disk working.
- `BackgroundWorker`: the thread runs when it can and the owner joins. `Finish`
  is strongly fair: an item that reaches checkpoint after checkpoint comes to
  its end. Without it a closure may loop for ever, which the code does not rule
  out and its two users do not do.
- `RecorderServer`: the main thread, the console's and each connection's run
  when they can, and a recording that was told to stop does. Nothing is assumed
  of clients, who may say nothing for ever, nor of recordings nobody stopped.
- `RecorderLink`: each link's threads run; a recorder that started binds or
  ends, and one that winds up ends. Nobody has to start, ask or crash.
- `Library`: the indexer's thread runs. Nothing is assumed of the window, of a
  person or of crashes.
- `RecordingPipeline`: the loop, the writer and the audio threads run. Taking a
  picture from the queue is strongly fair, because the channel is first in,
  first out and no packet waits for ever behind audio. `DrawnSpec`, of
  `lost_writer` alone, adds that frames go on arriving.
- `PluginHost`: time passes, the runner's thread runs, and the driver asks and
  joins. Nothing is assumed of a plug-in or of the thread that reads it.

## Refinement

`RecoverableDeletion` says what docs/storage-management.md and the trash's own
documentation promise: footage is in the library or in the trash, moves between
the two, and is destroyed only out of the trash and under a row that says it is
deleted, or by a person's own hand. `Library` implements it: `Promise ==
INSTANCE RecoverableDeletion WITH place <- Place, ...`, where `Place` reads off
the disk where a recording's footage lies. It is checked as the property
`DeletionIsRecoverable` and proved as `DeletionKeepsItsPromise`. The steps that
could break it are the ones between a rename and its row: a row refused, an
undo refused, a crash, another hand.

`BoundedRequests` says what a background worker promises those who ask it: a
bounded set of requests, an order among them (`before`, a relation), and one
item in hand. The oldest is the one served, and not while a recording runs; a
request goes unserved only by being the oldest when a new one finds every place
taken, or by the worker being closed. `BackgroundWorker` implements it with the
set and the order of its queue, and everything its thread does around its two
waits is a stutter. It is checked as `RequestsAreKept`, whose mutant drops the
newest request, and proved as `WorkerKeepsItsPromise`.

## Where the code and its documentation disagree

One has a run and a finding.

`lost_writer` (muxing.rs). The writer takes a packet and lowers the count
before it writes it, so that during a slow write the capture loop can bring the
count back to the high-water mark. If that write then fails, nobody lowers the
count again: the loop drops every further frame before it reaches the writer's
channel, never learns that the writer is gone, and goes on with nothing being
written until somebody stops it. The documentation of `write` says that
`WriterLost` is how a failed write reaches the capture loop.

The others that are stated as formulas stand in their modules without a run; a
configuration of a few lines with the formula as its property reproduces them.

| Formula | Module | What happens |
| --- | --- | --- |
| `StopIsSeenBeforeItsOutcome` | `AutomaticRecorder` | The driver reads the user's stop flag and then whether the thread has finished, with no lock over both. A stop that falls between the two is collected unread, and another recording is scheduled of a game the user stopped. watch.rs says a pass that sees the recording finished "has already had a pass at the flag". |
| `LateStopHolds` | `AutomaticRecorder` | An ended recording stays in `current` until it is collected. A stop is accepted for it and raises the flag of a `Running` the driver has dropped; the restart already scheduled goes ahead. |
| `ReplyIsOfTheRecordingStopped` | `AutomaticRecorder` | `stop` gives the lock away and, on waking, looks at whatever is current; when another recording was adopted meanwhile it waits for that one and returns its report. |
| `NothingReportedLingers` | `ProcessWatcher` | A process that starts and ends between two looks of the exit subscription, with a look of the start subscription between, is launched after it is gone and never reported gone. |
| `BaselineExitIsReported` | `ProcessWatcher` | A process that ran before the watcher and ends before the exit subscription's first look is never reported gone. |
| `DirectoryGoes` | `ReplayBuffer` | While the writer reports a segment it holds a strong reference. If the recording lets go then, the writer drops the last one and joins itself: the thread and the spill directory stay until the process ends. |
| `DestroyedIsForgotten` | `Library` | trash/mod.rs has a destroyed recording's row go; its session's record still names it, and the next run of the indexer makes the row again, of a missing recording. |
| `NothingIsAbandoned` | `RecorderServer` | A connection that passed its check before the shutdown starts a recording after the shutdown's last look; the process ends under it. |
| `OnlyAStopEndsServing` | `RecorderServer` | A client that opens the pipe and closes it before the accept loop connects gives an error the loop takes for the end of serving (server.rs 405-423); so does a next pipe instance that cannot be created. |
| `GoneMeansGone` | `RecorderLink` | A busy pipe is read as one where nobody listens, so the wait for the recorder ends while the recorder lives (supervisor.rs 577-590). |
| `NoReplacement` | `RecorderLink` | `shut_down_recorder` hears that the recorder accepts and then tells its own link to stop; a link that is past its look at `stop` probes and spawns, and starts a replacement. link.rs 436-450 says there is no window for one. |
| `NothingIsLostUntold` | `PluginHost` | mod.rs says an event that was drained is put on the session; `report_plugin_outcome` does not look at the outcome's events. Events delivered after the last drain are neither kept nor counted. |

Three more belong to a property above that says where it holds. The order of a
batch of exits ("so that a process is reported before its parent", debounce.rs
308) fails for one that has a circle of parents: a process with id 1 whose parent had id 2, and a later
one with id 2 whose parent had id 1, that exit in one batch are as deep as the
walk's bound, both, and are ordered by id. The comment on the bound has a cycle
be something "which Windows should not produce"; reused ids do. `LeavesFirst`
therefore asks for `HasRoots`, which was found missing when its proof failed.

With audio in the
buffer (take the condition `pushed.audio = 0` out), `NoGapInTheWindow` fails: a
block of audio that seals the open segment at the ceiling leaves no open
segment to measure the next gap from, and a save selects across it. So does
`OwnedIsBounded`: what a picture will cost leaves out the audio already in the
segment (`resident_bytes_after`), while config.rs says "What the buffer holds
never exceeds the ceiling".

What follows was seen in the code while it was modelled, at the lines named,
and has no formula.

- Replay buffer. `drop_front` takes any second reference for a save's, the
  writer's too, in its figure for retained memory, and misses a segment spilled
  while a save reads it. Between a full channel refusing a segment and the
  capture thread unmarking it, the writer may find nothing to do; that segment
  stays in memory until another picture arrives. lease.rs says memory a lease
  holds "still counts against the buffer's ceiling"; `evict` compares what the
  buffer owns.
- Recorder server. A shutdown that is refused opens the door to new recordings
  that another, undecided shutdown had shut.
- Link. A `retry` is documented to do nothing to a link that has not given up
  (link.rs 396-400); it is remembered and cuts a later wait short. What `state` says of a recorder that was
  asked to exit is overwritten by the link's own thread.
- Library. A recording locked or favourited between `candidates()` and the send
  is swept all the same (session/src/cleanup.rs:32). A restore diverted to
  another name is overwritten in the row at the next index. A crash between a
  rename and its row leaves a file no row names. Emptying confirms by count and
  bytes, not by entries. The undo of a move renames over what came in between.
  `recover --discard` is a second process at the same files.
- Recording pipeline. A flush at a seam may block the capture thread when the
  queue is full. `AudioQueue`'s full branch is "Unreachable while the share is
  honoured" (muxing.rs 383-387) and is reached after such a flush.
  `CompatibilityMixer::track` picks the first source that is `None`.
- Plug-in host. `dropped_before` is documented so that a plug-in cannot escape
  its budgets by being restarted, and the flood and fault budgets are judged on
  the present process (supervisor.rs 541-544, 329-347). `problems` keeps four
  and `problems_reported` is an index into it, so that the fifth is never
  reported. A process that ends in `Stopping` does not add its dropped events
  and faults to the plug-in's. One plug-in's flood fills the shared queue, and
  the other's events that find it full are charged to the other, which may be
  disabled for it.

## What is proved

The theorems hold for every value of the constants under the assumptions the
modules name (`LaunchAssumption`, `SettingsAssumption`, `NoneAssumption`;
`WorkerAssumption`; `ServerAssumption`; `LinkAssumption`; `RecordingsAssumption`,
`EntriesAssumption`; `CapacityAssumption`, `AudioAssumption`,
`EncoderAssumption`, `BoundAssumption`; `PolicyAssumption`; `ClientAssumption`;
`ReplayConfigOK`; `ConfigAssumption`), which TLC evaluates in every run of the
modules. They are as weak as the code justifies: sets of
processes, recordings and plug-ins are arbitrary, and finite only where a count
is taken of them.

- `AutomaticRecorder_proofs` holds the session manager's theorems and the
  recorder's. `TypeCorrect`: `Spec => []TypeOK`. One lemma per method
  says that it takes a manager to a manager; since methods are operators, the
  lemma of a method that calls others cites theirs, and the theorem is a case
  for each action. What has to be carried along is that a method which touches
  the open session is called with one, and that what it returns has a recording
  index the session's list has.
- `ShutDownIsFinal`: the action property
  `NothingStartsAfterShutDown`, from the types alone. Each method of a manager
  that is stopping returns one that is stopping and that starts nothing more
  (`Halted`), which follows every way to `begin_recording`.
- `OneEncoderHolds`: `Spec => []OneEncoder`; with `TypeCorrect` it makes
  `ManagerIsHeld`, `Spec => []ManagerIsSound`, the invariant the run checks.
  `OneEncoder` is not inductive: with a `pending_start` that comes due while a
  recording runs, or an `idle_since` that runs out while one does, `advance`
  would start over it or close the session under it. `Timed` says neither can
  be set on a session that records (and which of the two goes with a live
  game), and `Sound` carries both through the methods between two calls of the
  driver, with the recordings still running and those the call has asked for
  taken together. `SoundClose` and `SoundBegin` are the heart of it: a session
  closes, and a recording begins, only where `Quiet` shows nothing is owed.
- `RecordsAgree`, `NothingIsLost`, `AStopHolds`, `SittingsLast`: `RecordAgrees`,
  `AllAreAccountedFor`, `StopHolds` and `EndsOnlyAfterGrace`, from one more
  invariant on top of those (`HeldInv`), which again says of every method what
  it leaves between the driver's calls. `Filed` ties the records on disk
  (`DiskSound`) and the open session's (`OpenSound`) to what runs and to the
  outcomes reported; `Tracked` says that a waiting game and an open session whose
  game lives are never of one process (`Apart`), that waiting games are live
  processes, each waited for once, that the user has not stopped (`Waiting`), and
  that what the open session tracks is alive (`Watched`); `Owed`, which of
  `idle_since` and `pending_start` an open session has set. A stop holds because
  `Watched` says that a live game the user stopped is remembered as such and has
  no start pending, and `Tracked` that no start asked for is of its process. A
  session without a grace (`RestartGrace = 0`) has none to wait out:
  `EndsOnlyAfterGrace` lets the outcome of its last recording end it.
- `RecorderCallsTheManager`: `RecorderSpec => Spec`, that the driver loop, its
  recording thread, the connections' stops and `start_recording` together only
  ever call the manager as `SessionManager` says it is called. Each action of
  the recorder is an action of the manager or leaves it alone, so every theorem
  above is one of the whole recorder. It needs of the recorder that its thread
  has its type (`ThreadOK`): an outcome the driver takes is one the manager has
  a case for.
- `RecorderIsHeld`: `RecorderSpec => []RecorderIsSound`. `OneCaptureAtATime` and
  `CurrentHasAThread` are not inductive; `Holding` says that a recording begun by
  hand is what `current` holds, and that while the thread records or has just
  ended `current` is a recording still running and not yet marked done;
  `Remembered`, that a client's call which has begun knows the recording it is to
  signal. `TypeOK` and `OneEncoder` come in through the theorem before.
- `BackgroundWorker_proofs!WorkerSafe`: `Spec => []QueueIsSound`, with two
  conjuncts that make it inductive: `WorkingOnIsHonest`, that `working_on` is
  set exactly while the thread is in an item (without it the head of the queue,
  when taken, could be what was worked on), and `StoppedIsEmpty`, that a
  stopping worker's queue is empty. `PausedStaysPaused` is the action property
  `PausedWhileRecording`, from the definition of each step.
- `BackgroundWorker_proofs!WorkerKeepsItsPromise`: `Spec => RequestsAreKept`, the
  refinement. The lemmas are of sequences that hold nothing twice: the first is
  before all others and the rest is what waits without it (`WithoutTheFirst`),
  what is appended comes after all that is there (`OneMoreBehind`), and there are
  as many elements as places (`NoneTwiceCounts`), which is what makes the code's
  length the promise's count.
- `RecorderEndpoint_proofs!CountIsHonest`, `LastLookIsFinished`, `DoorOpensAgain`:
  `CountIsKept`, `WhatRanIsFinished` and `DoorIsAccountedFor`, from one
  invariant. `LiveIsHonest` equates the count with the cardinality of the
  threads, so each step that opens or closes a connection is a lemma about a
  finite set; `KnockFollowsFlag` says that whoever knocks at the pipe to wake the
  accept loop has raised the stop before; `PendingIsNew`, that the client at
  the pending instance has no thread yet.
- `RecorderEndpoint_proofs!BudgetIsKept`, `StopIsKept`: `LinkIsSound` and
  `StopIsHeeded`. `Counted` says that an attempt about to start a recorder has
  been counted, and one that has started it is one behind; `Looked`, that a
  link gets to its next attempt only past a look at the stop; `OneEndpoint`
  and `LinkTyped` are the rest.
- `Library_proofs!NeverBothAtWork`, `TrashIsListed`: `HandsKeepApart` and
  `TrashIsNamed`. `MarkKeepsApart` is why two connections need no lock between
  them: the sweep is at work only on a row that is not in the trash and the
  window only on one that is, and neither changes the mark of a row that the
  other is at work on. `OneFile` says a recording's footage is at one place, `RowsAreSound`
  what a row may say of it, and `SweepIsSound`, `RestoreIsSound` and
  `EmptyIsSound` what each thread may rely on at each of its steps.
- `Library_proofs!DeletionKeepsItsPromise`: the refinement. Initial states map
  to initial states, and a case for each action finds the abstract step or the
  stutter under the same invariant.
- `Library_proofs!OthersAreLeftAlone`: the action property `OthersSurvive`, from
  the same invariant: a restore moves onto the name it holds a placeholder at,
  the trash is entered where nothing is, and undoing a move is the exception the
  property names.
- `RecordingPipeline_proofs!SubmissionFindsRoom`, `FailuresAreTold`:
  `QueueHasRoom` and `FailureIsTold`. `VideoIsCounted` and `AudioIsCounted` tie
  the two shares' counters to what is in the channel and in the hands of those
  who counted and have not sent; `AudioKeepsShare` and `FrameFits` turn the
  counters into room; `LostHasFailed` says that a loop which found the writer
  gone has a failure to report.
- `RecordingPipeline_proofs!PicturesAreKept`: `FileIsWhole`. `InOrder` follows a
  picture through the encoder, the thread's hand, the queue and the writer's:
  what is in the file, in the writer's hand, in the queue, in the submission's
  hand and still in the encoder are, one after the other, the pictures that
  were submitted (`WrittenInOrder`, `QueuedInOrder`, `HeldInOrder`), also across a
  replaced encoder, and `NothingIsLeft` says that a loop which ended without a
  failure has left none of them behind.
- `PluginHost_proofs!HostIsHeld`, `GivenUpIsFinal`: `HostIsSound` and
  `GivenUpStaysDown`. `BudgetIsSpent` says a plug-in that is not up is owed one
  start less than one that is; `NotYetAttached`, `DownAfterDetach` and
  `GoneIsGone`, what holds before, after and beyond the recording (after the
  detach no replacement is due); `EventsAreAccountedFor` balances what was
  delivered against the queue, the runner's hand, the store, the session and
  what was counted as lost.
- `ProcessWatcher_proofs!ReportsAreHonest`: `Spec => ReportsAreTrue`. That an
  exit is of what is gone (`GoneAreDead`) and a launch is news (`NewsIsNew`) is
  not inductive: a message still in the channel could retire an id's new owner,
  or start what was started. `HeardAreLive` says that what runs and was heard of
  is believed to run; `SeenAreKnown`, that whatever is believed or on its way the
  source has seen and does not announce again, which is what a source that
  replaces another has to be told; `StartsAreNew`, that a start is on its way
  once and nobody accounts for its process; and `OldFirst`, that what the
  channel says of an id's former owners comes before the start of the present
  one. `OldFirst` is why two subscriptions that look on their own suffice: an exit
  is sent only of an id nobody has, so it cannot come behind the start of a
  process that still runs. `SourceKeeps` is that argument for whatever a look
  finds, in whatever order, `SubscriptionKeeps` for a subscription that comes up,
  `EmptyChannelKeeps` for a new poller and `TakingKeeps` for both kinds of
  message. That no launch is put off (`WindowsOnlyClose`) is read off the
  debouncer's methods: each leaves nothing it did not collect before, at a stage
  of the window no earlier, but for the one process that starts (`Within`), and
  a launch is known by any of its members because they are in no other.
- `ProcessWatcher_proofs!BatchesAreInOrder`: `Spec => []BatchesAreSound`, from the
  same invariant, whose `OnePerId` and `ToldIsKept` are about the debouncer. Each
  of its methods has a lemma that says what becomes of what is live, collected
  and exiting, and no step of the theorem looks inside them. That children come
  first (`ChildBeforeParent`) is that a walk from a child is a walk from its
  parent and one step more, unless the walk was cut off; and it never is
  (`WalksAreShort`), because a walk of as many steps as the batch has ids meets
  one of them twice, by the pigeonhole principle, and what lies between is a
  circle.
- `ReplayBuffer_proofs!FilesAreHeld`: `Spec => []FilesAreKept`, for every window,
  ceiling, budget, queue and number of saves. Each function under the lock is
  shown to leave the segments in order (`InOrder`) and to bring nothing but what
  is new and in memory (`ComesFrom`), so that no call of them can lose or revive
  a segment on disk. Around them, `Claimed` says that what is on its way to the
  disk is marked as such, until the spill is given up or the buffer is gone;
  `Apart`, that nothing on its way is on disk already as far as the buffer or a
  save knows, and that what a save has pinned on disk the buffer knows is there;
  `InHand` and `WrittenIsThere`, what the two threads hold at each step and when
  the writer's segment has a file. The invariant has to say that a segment's
  number is never given twice while a save may still hold it.
- `ReplayBuffer_proofs!CompleteMeansCurrent`: `CompleteIsCurrent`, from `UpToDate`:
  out of a gap, a buffer that holds anything is writing and its newest picture is
  the last there was. A save that reaches `now` can then only be one for which
  `stale_by` is zero.
- `ReplayBuffer_proofs!WindowIsHeld`: `Spec => []WindowIsWhole`. The segments are
  read as one list (`Segments`), of which `Drop` leaves the end (`Cut`) and `Seal`
  the same list in other hands (`Shut`), so that a fact about the list survives
  both, and only the gaps and the growth of the open segment need more. What is
  kept of it is `Sized` (in order, a picture in each, numbers no higher than the
  pictures handed over), `Reaches` (back to `began`, or a window), and, of pictures
  alone, `Unbroken` and `Light`. `WindowIsWhole` is not inductive without
  the second half of `Unbroken`: what comes next belongs to what is held, or the
  buffer is in a gap and will begin again after it. Nor without that of `Light`: a
  segment of pictures never outgrows the ceiling, so sealing the open one at the
  ceiling leaves the buffer no heavier than it may be. `Given` and `Within` say
  that nothing on its way to the disk has a number that was not given, and that the
  recording is within the bounds on it.

  The bound on memory is of a sum over the segments (`ResidentIn`, a recursive
  function). Its lemmas (`OneMoreSegment`, `OldestGone`, `LighterPart`) come from
  the function's defining equation, and that there is such a function
  (`SumIsThere`) from the least number for which there would be none: the library's
  induction theorems take an operator, but its theorem about the least element of
  a well-founded set takes a set, and can be cited.

## What is only checked

By TLC, on the instances above: every liveness property, since fairness and
`ENABLED` are out of the prover's reach. Every invariant and every action
property that a run checks is a theorem as well.

## What is not modelled

What is inside a call to Windows, a graphics driver, FFmpeg or SQLite; pixel,
sample and byte arithmetic; wording and layout; the desktop application's
screens. Of the modelled components:

- Session manager and driver: a change of the catalogue or of a game's settings
  while the manager runs (a launch is taken as already matched), what
  `place_recording` adds to a record, game events, hotkeys and the replay
  buffer's part in the driver's loop; a wall clock set backwards, which delays
  a grace or a restart and decides nothing else.
- Replay buffer: the sweep of spill directories left by processes that died; the
  early return for a segment that is spilled already (buffer.rs 423), which the
  protocol between the capture thread and the writer never takes.
- Background worker: a panic inside an item, a thread that cannot be spawned.
- Recorder server: event connections, and requests that touch neither a
  recording nor the shutdown. Of the way out, the hotkeys', the automatic
  recorder's and the indexer's stops (serve.rs 395, 402 and 983), so that
  `StopEnds` says nothing of their waits.
- Link: the requests a window sends over it, and the file that keeps a second
  window out.
- Library: clips, games, events, search and presence; expiry by age.
- Recording pipeline: the mix of the compatibility track, which frame pacing
  keeps, the choice of capture and of encoder, screenshots.
- Plug-in host: messages about problems, discovery, consent and manifests; a
  kill that Windows refuses (process.rs 213-223 goes on to wait for the child),
  which every bound on a wait rests on; a reader's thread that cannot be
  created; and the moment between an event's `try_send` and its count.

Vendor bindings, encoder and capture calls are most of the repository's lines
and hold sequences of calls and tables, with no interleaving of the program's
own; a model of them would be one of the vendor's library. The components that
are not modelled are in `PROJECT.json`, each with its reason.

## What is left

- An abstract specification of the recorder (one recording at a time, each with
  an outcome), with `AutomaticRecorder` shown to implement it.
- `PluginHost` and `ReplayBuffer` composed with the driver's loop.
- Recovery after a crash, as a reader of what `SessionManager` leaves on disk.
