# Verification of WLANPi Utilization

TLA+ models of WLANPi Utilization: the capture and everything that manages it
(`src/beacon_live/`), the figures it computes, and the FPMS menus in front of
it (`src/integration/wlanpi_fpms/`), with the TLC runs that check them on small
instances, and proofs for every instance.

## The system

A capture on a Wi-Fi radio, and what is done with its packets:

| Component | State it keeps | Operations | Talks to |
|---|---|---|---|
| Service broker, `service.py` (`ServiceBroker`, `serve`) | publication (session ID, phase, revision), the owner process and its link, the requested logging and export, the download catalog | start / ensure / join, stop, logging, export, read, files; poll, reap, shutdown | clients over a Unix socket; the owner over a socket pair, SIGINT and the control file |
| Capture owner, `service.py` (`run_owner`), `runtime.py` (`ManagedRuntime`) | run state, newest publication | boot, run, publish, poll, finish, drain | broker; `run_live` |
| Framed socket, `ipc.py` | receive buffer, two output slots, offset | queue, flush, receive | both ends of every link |
| Service client, `service_client.py` | the session ID last read | request, follow | broker |
| Live loop, `live.py` (`run_live`) | what it has borrowed, its plan, deadlines, latches, child processes | acquire, tune, read back, loop, release in reverse | everything in the owner |
| Radio session, `radio_session.py` | lock, snapshot of the radio's interfaces, which it changed | enter, prepare, restore, release | `ip`, `iw`, other tools |
| Packet source, `packet_source.py`, `pcapng.py` | fan-out of packet blocks | read, deliver | Dumpcap, decoder, export |
| Core capture, `core_capture.py`, `core_diagnostics.py` | one session of the platform's capture service, owned by a transport process | connect, start, receive, stop, confirm, close | websocket; control and status pipes; decoder |
| Analyzer, `analyzer.py`, `aggregator.py`, `host_tracking.py`, `radio_grouping.py` | open and completed seconds, retained beacons, selections, history, snapshot | ingest, complete, publish, refresh, flush | aggregation worker, live loop |
| Channel planning, `channel.py`, `capture_target.py`, `capture_options.py` | the requested, tuned and covered channel | tables, fallbacks, beacon elements | live loop, analyzer |
| Live logging, `log_writer.py` | active writer, queue, writer thread, deadlines | start, stop, write, maintain, rotate, low-disk stop | live loop, control file, disk |
| Beacon export, `beacon_export.py` | context, generation, shared count and control, queue; the worker's writer | offer, set_enabled, read, close; the worker's loop | packet path, live loop, disk |
| FPMS menus, `integration/wlanpi_fpms` and the patch `scripts/patch_wlanpi_fpms.py` installs | menu entries, `g_vars`, display children and threads | enter, poll, launch, stop, leave, report | FPMS's main loop and button monitor; the service's status command; display children |
| Parsing, `parser.py`, `ssid.py`, `survey.py`, `models.py` | none | field decoding | analyzer |
| Displays, `screens.py`, `screen_manager.py`, `tui.py`, `lcd_dashboard.py`, `dashboard.py`, `device.py` | page, selection | render, keys | live loop or client |
| Web, `web.py` | cached publication | HTTP | client |
| CLI, `cli.py`; retry diagnostics, `retry_debug.py`; installers and probes, `scripts` | | | client |

What is hard in it:

* processes and threads that signal and abandon each other: a SIGINT can arrive
  at any instruction of the owner or of `run_live`, also while it cleans up;
* links whose two ends see an exit, an end of file and a last message in any
  order, and a remote capture service that confirms its stop late or never;
* a radio that is borrowed: a crashed broker's owner may still hold it, a
  command that puts it back may fail, an adapter may be replaced under its name;
* seconds that are closed while their frames are still arriving, and figures
  that depend on the figure shown a second before;
* queues that drop instead of block, and files that are stopped, rolled over
  and given up while records are in flight;
* a page and a menu that FPMS's main loop, its button monitor and the display
  threads change without a lock.

`PROJECT.json` lists each such place with its line and its properties.

What makes each part correct:

* broker and owner: one session at a time, one holder of the radio, a phase that
  only moves forward, a terminal phase only after the radio is released, a stop
  for the named session only; stops, exits and abandonment end in a reaped owner.
* live loop, radio session, core capture: a clean exit leaves the radio and the
  capture service as they were found; what cannot be put back is reported and
  does not keep the rest from being put back; no packet block is lost or torn.
* analyzer: a second is published once, in order, and is exact; a replay of the
  capture says the same of its frames and BSSIDs, but for what had just left the
  window; what is displayed has a reason in what was heard.
* channel planning: the run knows what it is tuned to, and claims complete
  coverage only of channels that are inside it.
* logging: an ordered sample of what was offered; drained before a file is
  closed; a failure stops the segment it hit and no other.
* export: every accepted beacon in exactly one place; files of one generation
  and one context; the shared count exact; published counts that only rise, and end with the last report that was delivered.
* FPMS menus: a child's end is always seen, and reported once; launching is not
  refused for good; a menu is not overwritten with an older status.

## Modules

| Module | Models | Against |
|---|---|---|
| `SessionLifecycle` | abstract: what a client may rely on about session ID and phase | |
| `ManagedSession` | broker, owners, link, radio lock | `service.py`, `runtime.py`, `ipc.py`, parts of `live.py`, `radio_session.py` |
| `ManagedSessionProofs` | theorems about `ManagedSession`, and that it implements `SessionLifecycle` | |
| `SampledLog` | abstract: a log is an ordered sample of the records offered | |
| `LoggingService` | loop thread, logging service, writer thread | `log_writer.py`, parts of `live.py` |
| `LoggingServiceProofs` | theorems about `LoggingService` | |
| `BeaconExport` | producer, shared count and control, writer process | `beacon_export.py` |
| `BeaconExportProofs` | theorems about `BeaconExport` | |
| `RadioSession` | the borrowed radio, as operators | `radio_session.py` |
| `CoreCapture` | transport process, capture service, fan-out, decoder | `core_capture.py`, `packet_source.py`, `pcapng.py` |
| `LiveRun` | composes the two: acquisition and release in `run_live` | `live.py`, `core_capture.py`, `core_diagnostics.py` |
| `LiveRunProofs` | theorems about `LiveRun` | |
| `Analyzer` | the rolling analyzer and its replay, as operators | `analyzer.py`, `aggregator.py` |
| `LivePipeline` | composes it with the aggregation process, its pipe and the live loop | `live.py` |
| `LivePipelineProofs` | theorems about `LivePipeline` | |
| `RadioGrouping`, `DisplayChoice` | which radio and BSSID each figure names | `radio_grouping.py`, `analyzer.py` |
| `DisplayChoiceProofs` | theorems about `DisplayChoice` | |
| `FrameProjection` | what frames count for, live and in replay; the table of hosts | `analyzer.py`, `host_tracking.py`, `models.py` |
| `BeaconReception` | beacons expected and received | `analyzer.py` |
| `ChannelPlan` | request, fallback, tuning, read-back, coverage | `channel.py`, `live.py` |
| `AnalysisProofs` | theorems about `BeaconReception`, `ChannelPlan` and `FrameProjection` | |
| `Analysis` | the four computations above, side by side | |
| `Ordering`, `Optional` | sets in the order of a key; the value that is none | |
| `FpmsMenu` | the session menu and its readers | `channel_utilization.py`, FPMS's sources |
| `Fpms` | launches, display children and threads, exits | `channel_utilization.py`, `patch_wlanpi_fpms.py`, FPMS's sources |
| `FpmsProofs` | theorems about `Fpms` | |
| `MC...` | instances for TLC | |

Three compositions cut `run_live` by what they ask of it: `ManagedSession` sees
it as the stages of an owner, `LiveRun` as an order of acquiring and releasing,
`LivePipeline` and `LoggingService` as the loop in between. `ChannelPlan` is
the plan that `LiveRun` tunes to in its steps `Tune` and `Verify`.

Operators marked "Mutant" are faulty variants of the definition that follows
them; nothing uses them except the mutation runs named in `PROJECT.json`.

### ManagedSession

`broker` is the `ServiceBroker` (publication, `process`/`owner`, `owner.eof`,
an undecodable receive buffer) with the place it is at in `serve`. `pc[s]` is
the owner process of session `s`: the stages of `run_owner`,
`ManagedRuntime.run` and `run_live` that differ in what a SIGINT does there.
`latest` is `run_owner`'s variable, `chan` the output side of its
`FramedSocket` (current frame, whether partly sent, waiting frame, whether bytes
were repeated), `pipe` the complete frames on the way, `orphan` the link closed
from the broker's end, `lock` the radio's `flock`.

One poll is one action: `flush`, `receive`, the loop over messages, the error
branch and the reap happen together in a single-threaded process. How many
frames a `receive` takes, whether it sees the end of file, and whether
undecodable bytes raise now or with the next chunk are choices. Every request
polls first (`PollOwner` into mode "dispatching"); a stop then names `named`, any
session ID ever issued, as a client's view may be stale. A SIGINT is `sig`; where it
lands decides the outcome (`InterruptTo`, `InterruptKills`,
`InterruptInFlush`), and `RadioSession.__exit__` blocks it (`Restore`).

A publication is its phase: metrics, logging and export status ride along. The
byte level of a frame is abstracted to whole, partly sent and torn.

### LoggingService

`loop` is the place of `run_live`'s thread, `service` the `LoggingService`,
`worker` the writer thread, `queue` its queue, `files` the segments with what
was accepted for each and the items the writer has gone through (`rows`). A
metadata update is such an item and leaves no row of its own: the rows behind it
carry it. `control` holds
`logging_only` and what the broker wrote to the control file; `latched` is `low_disk_latched`. `BeginStop`, `PutStop`, `Join`
and `Close` are the steps of `_close_writer` between which the writer thread or
a SIGINT can act; `Interrupt` and `InterruptInStart` are the latter. One file
stands for the CSV and JSONL pair, which get the same records in the same order.

### BeaconExport

`parent` and `lock` are the `BeaconExport` object and the semaphore of
`pending_bytes` while `offer` holds it; `control`, `pending`, `records`,
`reports` the shared objects; `worker` the process: its place in
`_export_worker`, what it last read from `control`, the packet in hand, and its
`RotatingBeaconWriter` as the packets of the open file and of the closed ones.
A packet weighs one unit. `Failures` is the `except OSError` branch: the error,
the failed generation, and the writer closed or aborted. An `OSError` out of
the abort itself, which loses the writer's counts, is left out. `parent.left` is
what an owner that dies leaves taken: a lock, or a message half sent (`Leavable`);
`worker.told` whether the last report found room.

### RadioSession, CoreCapture and LiveRun

`radio` is what the kernel knows of the interfaces, `states` the snapshot,
`changed` what this session touched, `failed` the interfaces whose restoration
reported an error. A command has its effect, fails without one, or times out
after it (`After`, `Untouched`); an adapter may be replaced under its name, and
another tool may take the radio. `RestoreCommands` is the order of commands by
which one interface is put back, and `Restorations` every outcome of that.

`core` and `open` are the capture service and its websocket, `worker` the place
of the transport process in `run_owner` of `core_capture.py`, `control` and
`status` its pipes to `run_live`, `pipe` its pipe to the decoder or the fan-out.
A chunk is two halves, so that a write can stop in the middle of one.

`pc` is the step of `run_live` and `todo` the callbacks its `ExitStack` still
holds. A failure or an interrupt (`Raises`, `Interrupt`) goes to the innermost
of them; a callback is popped before it is called, so one that is interrupted is
not called again. Signals that `RadioSession.__exit__` masks are no step
(`Masked`). Every wait has a timeout in the code; its expiry is a step that may
happen at any moment of the wait. There is therefore no fairness and only safety.

### Analyzer and LivePipeline

`Analyzer` is the state of one analyzer as a record, and its methods as
operators on it: `Ingest`, `FinalizeBefore`, `FinalizeAfterGrace`, `Published`,
`RefreshSnapshot`, `Flushed`. What the code does second by second in a loop,
`FinalizeBefore` says of all the seconds passed at once: no second completed
there changes what the next one reads. Time is counted in beacon intervals. A second's
sample is the BSSIDs heard in the window that ends with it, its frame count and
the beacons its reception is counted from. What depends on the target, which only
the live worker has, is `FrameProjection`'s.

`LivePipeline` has the aggregation process (`Decode`, `EndBatch`, `Eof`), the
pipe, and the live loop (`Take`, `Survey`, `PipeBreaks`, `Interrupt`). A message
is taken in step by step: `Receive` reads it and notes the readings of its
samples, `Publish` logs a row, `Paint` replaces the snapshot, `Record` logs a
beacon; `taken` is what is left of it. A SIGINT comes between any two, and its
handler publishes the snapshot there is. `Due` are the rows that one has to show:
the rows of a message may be logged before its snapshot is in place.
`delivered` is every frame decoded so far: the properties compare what is
published with it. Frames arrive in any batches, the worker dies at any moment.

### DisplayChoice, FrameProjection, BeaconReception, ChannelPlan

Each is a computation with a memory, driven by any input of its own; `Analysis`
runs them side by side (`subject` says which), as none reads another's state. It
extends all four and checks their properties as they are: they say nothing
before a plan, a beacon, a frame or a refresh.

* `DisplayChoice`: `selected`, `retry` and `radio` are what the analyzer keeps
  from one refresh to the next; beacons and expiries change `heard` in between.
  `by_bssid` is what a refresh counts frames of: of BSSIDs heard or not, since
  frames may be associated with one that never beaconed (`RetryStates`).
  `RefreshAny` is a refresh out of cadence. Addresses are numbers of three
  digits, which keep what the grouping compares: order, adjacency, and the count
  of differing digits.
* `FrameProjection`: a stream of frames is counted into the buckets of its
  seconds, as every live and replaying analyzer does. The projection of retained
  frames in one pass (`Project`) is what the properties compare them with; the
  cache that only `retry_debug.py` fills is left out.
* `BeaconReception`: the greedy fit of capture times to a schedule of unknown
  phase: `times` are the beacons so far, `fit` the slots and phases left to it.
* `ChannelPlan`: a request is planned, tuned, retried, read back; then any
  access point beacons any channel. Beacons are encoded as operation elements
  (`Fields`, external) and decoded by the code's way back
  (`definition_from_operation_fields`). EHT centres are encoded as the
  repository's tests write them (`tests/test_channel.py:85-104`). Beacons that
  are cut short after some of their elements are outside the model.
  `IsChannelOf` says what the channels of access points are: their centres are
  channels of the band, 2.4 GHz has none wider than 40 MHz, only wide contiguous
  ones are punctured, and the two halves of 80+80 MHz do not touch.

### Fpms and FpmsMenu

FPMS, whose sources the repository keeps for its tests
(`tests/fixtures/fpms_1_4_24`), runs the adapter in two threads: the main loop
runs the page's action again at every refresh (`fpms.py:1401-1459`), and the
button monitor runs the buttons' handlers (`fpms.py:1217-1262`), which start the
same actions and leave the page. The main loop only looks at `sig_fired` before
it begins a turn. Each display child has a thread besides. Nothing locks
`g_vars`.

In `Fpms`, `todo[a]` is what actor `a` still does, and every step of it reads or
changes `g_vars`, a session or its child once, so that any thread may act between
the check of `recovering`, the two looks at the registered session, the
registration, the child's start, the installation of the handlers and the start
of the thread. `target[a]` is the session that an actor launches, reports or
stops; `registered` and `exit_handler` are the entries of `g_vars` that hold one.
What only takes time is no step: the join of 2 s may end before the joined thread
does, whatever that is doing. Killing a child always succeeds: a child that
survives SIGKILL for 2 s is outside the model.

In `FpmsMenu` the same threads read the service's status inline or through the
menu's reader, and replace the entries; `signature` says what they are, `filled`
in which generation the read they show was begun. The service is external: its
status changes under the menu.

Which entry of a menu is highlighted is left out, and with it the race of
`menu_up` and `menu_down`, in the button monitor, with the poll that replaces
entries and location in the main loop (`channel_utilization.py:290-291`): a
button that counted the old entries can leave the location outside the new
ones. In `Fpms` the user may have moved to any entry. The control file, drawing
and wording are left out.

## Runs

| Run | Instance | Shows |
|---|---|---|
| `managed_session` | two sessions (symmetric), one frame in the pipe, deaths and crashes | safety, and refinement of `SessionLifecycle` |
| `managed_session_live` | one session | a stop completes, orphans exit |
| `logging` | 3 records (the first a metadata update), queue and batch of 2, 2 segments, failing disk, a SIGINT | closed segments are drained, failures stay with their segment; refinement of `SampledLog`; failure, stops and logging-only mode end |
| `beacon_export` | 2 packets, 2 switchings, 1 change of context, faults | conservation, exact count, pure files, rising reports |
| `beacon_export_live` | 2 packets, 1 switching | a stop closes the file, close() ends, an orphan leaves |
| `live_run` | both backends, 2 interfaces found in 3 ways, a chunk, a fault, an interrupt | a confirmed stop is one, a clean exit restores, a failing restoration is isolated, the stream is whole |
| `live_run_children` | the same | violation: a decoder outlives an interrupted wait into the restoration |
| `live_pipeline` | 4 frames of 2 access points in 4 seconds of 2 intervals, window of 2 seconds, pipe of 1 | published seconds are exact, complete and in order; replay and graph agree with them |
| `analysis` | see below | what is displayed, counted, expected and claimed has its reason |
| `analysis_coverage` | the same | violation: an unverified capture turns complete |
| `fpms` | both modes, 2 display children, 3 children and buttons pressed together, a full disk | exits are reported once, seen at last, and do not block launching |
| `fpms_menu` | one change of the service, 3 refreshes | violation: an older status replaces a newer menu |

The bounds, and why they suffice:

* Two sessions: one session's late effects (frames, exits, the lock) on the
  next, with an orphan beside a new owner. A third adds no new kind of
  neighbour, as a broker has one child. One frame in the pipe makes writes
  block; a newer one then waits in `latest` or the second slot.
* Three records fill a batch of two, or the queue of two behind a record that is
  being written; two segments give a rollover, or a stop and a restart. `OfferInVain`
  lets records be dropped beyond the bound.
* Two switchings of export give two exporting generations with the first one's
  packets still queued; one change of context separates files within one.
* `live_run`: `MaxFaults` and `MaxInterrupts` are one each, so a fault is met
  at every step, and a cleanup that a fault began is interrupted at every step.
  Two interfaces give the captured one and a sibling; the three found states are
  a monitor that is up, one that is down, and a captured interface that was
  managed beside a sibling that was a monitor. One chunk of two halves is cut by
  a stop, and precedes `CAPTURE_STARTED` or follows it.
* `live_pipeline`: two intervals to a second and one of grace make every frame
  either one that may be a delayed beacon or one that may not; four seconds and
  a window of two let data expire, and leave seconds without a frame; four
  frames give each second of a window one, and one before them. Live, what has
  left the window is dropped at the next publication; a replay drops it at the
  next frame: `ReplayAgrees` lets the BSSIDs differ for the window's first beacon
  interval. The two access points are symmetric.
* `analysis`: `DisplayChoice` has three BSSIDs in a chain, of which the first
  and last are not related, and profiles on both sides of each tolerance, up
  to second 3 (a rotation is two); frames of two of them, heard or not, with
  equal, different or no retries. `FrameProjection` has frames of two access
  points that are also each other's client, on and off the target, good and
  corrupt; four of them in three seconds; a host table of one entry.
  `BeaconReception` has four beacons in an interval of two beacon times and a
  remainder, of three ticks each. `ChannelPlan` has requests that are granted,
  replaced and refused, three adapters, and two access points on channels
  inside, wider than, punctured within and next to the capture, for two seconds
  and a retention of one: an entry is added, replaced and expires.
* `fpms`: two children give two launches at once, an old thread that still
  reports or draws beside a new session, and two reports that overlap; three
  events are two launches and a Left, or one launch and two buttons. Disk full is
  met by the first session. `fpms_menu`: three refreshes let two reads overlap.

Deadlock is not checked where a system may stop: a session that is over, a run
that has ended, a bound that is reached.

Fairness, where a run states it: the accept loop polls (it does so every 50 ms)
and a poll reads what has arrived; each stage of an owner ends, as its commands,
joins and waits have timeouts; a pending SIGINT is taken; the logging loop goes
round and reads its control file; a write to the log returns; the writer thread
and the export worker run; `close()` waits 2 s. Nothing makes a client, a packet
source or a fault act. An export worker blocked by a stuck filesystem is not
covered by `beacon_export_live`, except in `close()`, which kills it. In `fpms`
each thread of FPMS and each display thread goes on; buttons need not be pressed
and children need not end, and every command has a timeout. The other
runs state no fairness and check safety.

## Disagreements

Three runs find a counterexample to what the repository says of itself;
`PROJECT.json` quotes the text:

* `live_run_children`: capture children are to stop before the radio is
  restored; a second interrupt during the wait for a terminated decoder leaves
  it running (`live.py:1165`).
* `analysis_coverage`: unverified definitions are to remain explicit; a
  "partial" in between lets "unverified" become "complete" (`live.py:1071`).
* `fpms_menu`: reads pending before a new local action are not to overwrite its
  refreshed state; `_refresh` applies what it read without looking at the
  generation, and `poll` looks at it before it applies, not under the lock
  (`channel_utilization.py:250`, `283-285`). Inline reads of the main loop, the
  button monitor and a display thread overlap, and the older one may come last.

Known from reading the code against its documents, and without a run:

* A stop that meets an owner before `ManagedRuntime.run`, or in the `finally` of
  `run_owner`, is reported as `failed` (`service.py:144`), against
  `docs/managed-service.md:122-126`.
* A failure whose cleanup meets a SIGINT, as a stop or a shutdown sends, is
  published as stopped, since the KeyboardInterrupt takes its place
  (`runtime.py:168-171`), against `docs/managed-service.md:206-207`.
  `StoppedIsGenuine` allows this one case (`end` is then "hidden") and no other.
* While records are dropped the disk is never checked (`log_writer.py:466`),
  against `docs/logging.md:202-203`.
* A log that cannot be opened ends the capture (`log_writer.py:419`), against
  `docs/architecture.md:412-413`.
* A second interrupt while the writer is joined closes the log under the
  writer's thread (`log_writer.py:613`), against `docs/logging.md:195-196`.
* A metadata update that a full queue drops leaves stale coverage in later rows
  (`log_writer.py:459`).
* An old generation's error is published for a new export
  (`beacon_export.py:320`), against `docs/beacon-export.md:108-113`.
* An owner killed while it holds the count's lock (`beacon_export.py:425-442`,
  `465-469`) or the control's (`398-404`, `446-451`, `486-490`), or in the middle
  of a message to or from its worker, leaves the worker waiting without a timeout
  (`beacon_export.py:275`, `292`), against `docs/beacon-export.md:104-105`.
  `OrphanLeaves` excepts these moments (`Stranded`).
* The last report is dropped when the queue has no room for 0.2 s
  (`beacon_export.py:222-230`), against the comment that gives it a slot of its
  own (`beacon_export.py:341-342`). `FinalStatus` then promises no more than that
  the counts published are ones the worker has had.
* A Start Logging after a low-disk stop does nothing until logging has been
  switched off, because the broker's request never became false
  (`live.py:2149-2152`).
* A second child: two launches that both pass `channel_utilization.py:516` start a
  child each (`fpms` reaches this), and the first one's session is no longer
  registered, so nothing but its own display thread ever stops it, against
  `docs/managed-runtime-roadmap.md:698-701`. Likewise an old display thread that
  returns to the menu runs the exit handler of a session launched meanwhile.
* The docstring of `_SessionMenu` (`channel_utilization.py:190`) keeps changes
  of the menu to FPMS's UI path; two FPMS threads and a display thread that
  reports an exit make them.

## Proofs

A theorem holds for every value of the constants that the named assumptions
allow, which are the ones TLC evaluates on each run: numbers are natural
numbers, capacities are positive. Faults and interrupts are unbounded.

| Run | Proved of its properties | By TLC only |
|---|---|---|
| `managed_session` | all six | |
| `beacon_export` | all five | |
| `logging` | `DrainedOnClose`, `FailureIsCurrent`, `RefinesSampledLog` | three liveness properties |
| `live_run` | all four | |
| `fpms` | `ExitsReported` | `ExitsEnd` (liveness) |
| `live_pipeline` | `SamplesExact`, `RowsComplete`, `GraphMatchesLog` | `ReplayAgrees` |
| `analysis` | all eight | |
| `managed_session_live`, `beacon_export_live` | | all (liveness) |

### The managed session

`ManagedSessionProofs` proves, for any set of sessions, any pipe capacity and
with or without faults, from `SessionAssumption` only:

* `TypeCorrect`: `Spec => []TypeOK`, one step per action, over lemmas on what
  the helpers (`Queued`, `Advanced`, `Flush`, `PollChild`) return.
* `RadioIsExclusive`, `OwnersAreOwned`, `ReleasedBeforeTerminal` and
  `StoppedMeansStopped`.

None of the four is inductive alone. `IInv` adds: `LockInv`, the lock names
exactly the owner in a stage that holds the radio; `ChildInv`, the broker's
child is the session it publishes; `EndInv`, an owner past its capture knows how
it ended; `FinalInv`, a terminal message anywhere on its way (in `latest`, in a
slot of the socket, in the pipe) is from an owner that has released the radio
and says how that ended; `BrokerFinal`, the same for what the broker publishes.
`FinalInv` is the heart: a terminal phase is read long after it was true at its
origin, so the invariant has to follow the message, and the argument is that
what it says is stable. It also has to hold through the failing paths: a torn
frame is undecodable, never a different message.

The module goes on, from the same assumption, to `StopsAreNamed` (every step
satisfies `StopReachesNamed`'s action) and `SessionsHaveLifecycles`, the
refinement of `SessionLifecycle`: initial states map to initial states, and each
step to a step or a stutter, action by action. The abstract phase only moves
forward, but a publication waits in up to four places, and an owner may publish
"running" after the broker has accepted a stop. `OrderedInv` therefore says that
these places, read from the broker outwards, hold no earlier phase behind a
later one and nothing behind a final one (`OrderInv`); that an owner has said
only what its stage lets it say (`StageInv`); and that nothing on its way undoes
what the broker has published (`BrokerOrder`).

### Logging

`LoggingServiceProofs` proves, for any records, queue, batch, segments, disk
faults and interrupts, from `LoggingAssumption` only: `TypeCorrect`,
`ClosedAreDrained` (`DrainedOnClose`), `FailuresAreCurrent` (`FailureIsCurrent`)
and `LogIsSampled`, the refinement of `SampledLog`.

`StopInv` says where a stop can be: what the loop's place implies for the
service, where the stop mark is in the queue (last), and when the writer thread
lives. `FileInv` ties the newest file to those places. On them rests `FlowInv`:
the file, the thread's batch and the queue, read in that order, are what the
segment accepted, until a write fails or a signal cuts a stop short (`Cut`); the
segments before are complete. A closed file is drained because there the batch
and the queue are empty. For the refinement `OrderInv` says that in the same
order the records stay increasing, which survives failures and cuts, where
`FlowInv` does not.

### Beacon export

`BeaconExportProofs` proves, for any bounds and queue capacity and with or
without faults, from `ExportAssumption` only: `TypeCorrect`,
`PacketsAreAccounted`, `PendingIsExact`, `LeavesDrained`, `ReportsAreSound`
(`FinalStatus`) and `SegmentsArePure`.

The argument has two layers. The storage operators (`CloseSegment`, `Finish`,
`Discard`, `Failures`, `Added`, `Stores`) keep or raise by one what a worker
holds (`Held`), whatever fails inside them; every loop step is one of them and a
move. Its `IInv` then adds what relates the two processes: `Hand`, a packet is
in hand between `get` and storing; `Room`, a packet being counted still fits;
`ControlFollows`, the control does not run ahead of its owner without an error;
`StopFollows`, a worker's stop comes from `close()`, which outlives it; and from
these `Drained`, which makes "nothing pending" mean "nothing queued, now and
later", and `Reported`, that a delivered last report is the newest one. `Rising`
says that reports, as they were made, say more and more; it is kept because every
step of the worker only adds to its counts, and every step of the reports takes
away a prefix or appends the present ones. The counts' upper bounds are no fact of any one step:
they follow from `Accounted`, so the steps are proved for unbounded counts
(`Loose`) first. `SegmentsArePure` needs `FilesInv`: generations and contexts
never decrease from the open file to the packet in hand and along the queue, so
a packet that would mix a file is a newer one and closes it first.

### The live run

`LiveRunProofs` proves, for any radio, number of chunks, pipe, websocket window,
faults and interrupts, from `RadioAssumption`, `FoundAssumption` and
`RunAssumption`:
`TypeCorrect`; `AskedOnce`, `ConfirmedStops` (`ConfirmedIsIdle`),
`ChunksArrive` and `StreamIsKept` (`StreamKept`); `RunIsSound`,
`FailuresAreIsolated` (`FailureIsolated`) and `CleanExits` (`CleanExitRestores`).

`StopInv` is the protocol with Core: it is asked to start at most once, an
end it reports is one because no start can be behind it, and "idle" or
"confirmed" reach the run only from a worker that has left an idle Core.
`ChunkInv` follows packet data from Core to the worker: whole chunks, numbered
as they were sent, before the capture's end. `ByteInv` numbers the bytes in the
worker's hand, the pipe, the fan-out and the decoder by their positions in the
stream; `FanInv` says that the fan-out holds one block at a time.
Most steps leave the capture alone, which one lemma per group states; the ones
that remain are Core's, the worker's and the fan-out's.

That a clean exit restores is the conjunction of what several parts owe each
other, `RunInv`. `RestoreInv` is its heart: an interface is as it was found
unless it is still to be put back (`changed`), could not be (`failed`), or Core
may have tuned it and has not confirmed its stop (`Disturbed`); that the commands
of `RestoreCommands` give back what was found is a lemma over their outcomes,
each command's effect in turn. `PhaseInv` says that nothing is reconfigured
before it is noted in `changed`, and that the radio is held until all of it has
been put back or was refused. `AskInv` adds what Core can do without being
asked, which is nothing. `TodoInv` says, while nothing has been reported, that
whatever runs still has a callback to end it; a report is the one way to lose
one. `CleanInv` puts these together at the end. `FailureIsolated` is the part of
`RestoreInv` that survives a report.

### The menus

`FpmsProofs` proves `ExitsAreReported` (`ExitsReported`), from `FpmsAssumption`,
for any number of sessions and buttons pressed. `ExitsReported` is not inductive:
it says nothing of what an actor is about to do. `Inv` adds `ListInv`, which lists
there are: steps that end a session or return to the menu (`Ending`), where
drawing the menu follows leaving the page, steps that look or act (`Other`), and
those of a launch in its order. `StartInv` then says that a session being
launched has one launcher, no thread and, before Popen, no child; `FreshInv` the
same of sessions not yet launched; `ReportInv` that an actor about to report has
the session of a dead child; `RecInv` that a refusal has an actor whose list
lifts it. Most actions are instances of one lemma, `Moves`: an actor goes on with
another list. That a list keeps its last steps is `EndsOn`, when its first step is
taken, and `StopThenEnds`, when leaving the page puts the stopping of a session
before it. That two reports may overlap is why the refusal is said to have some
actor to lift it, not one.

### The live pipeline

`LivePipelineProofs` proves, for any access points, window, length of
a second, pipe and number of frames, from `AnalyzerAssumption` and
`PipelineAssumption`: `PipelineIsSound`, `SamplesAreExact` (`SamplesExact`),
`RowsAreComplete` (`RowsComplete`) and `GraphMatches` (`GraphMatchesLog`).

`PipelineInv` follows a second from its frames to its row. `FramesInv`: frames
come in the order of their times. `RetainsInv`: the analyzer has every beacon of
the window, no other, and the exact count of every second it can still close.
`ClosedInv`: the closed seconds are those before `next`, none of which has ended
within the grace, and the history is the window of them. `SamplesInv` then says
of a sample wherever it is, in the batch, a message or a row, that it is `Exact`
and will stay so, since no later frame can be one of its own or one of its
delayed beacons. `TakenInv` gives what is left of a message its place in front of
the pipe (`Messages`). `ChainInv` says that rows, messages and batch, read in this
order, are consecutive seconds, and `BeaconsInv` that the beacons in the same
places are all the decoded ones in ascending order; `EofInv` that the end of
capture is the last message and everything before it was closed. `SnapshotsInv`
and `PaintedInv` say the same of the history in a snapshot and of the graph: it
is the window of the second it goes up to, with the readings of the rows. In
between a message's rows and its snapshot the graph goes up to a second before
the last row, which is what `Due` allows.

What is sorted by second is `Ordering.Ascending`, of which the lemmas state that
it lists the set, each member once and in order; they go by the least
counterexample among the positions.

### The choice of what is shown

`DisplayChoiceProofs` proves, for any number of access points with any
readings, from `GroupingAssumption` (tolerances are ordered, "none" is no number)
and `DisplayAssumption` (profiles have their types, and a retry counts as a frame
that could be one): `RadiosAreSound` (`RadiosSound`), `ChoicesAreJustified`
(`ChoicesJustified`) and `CadenceIsFree` (`CadenceFree`).

* Every choice is the greatest of a finite set in some order, which is unique
  since addresses break ties. The ratio of retries is compared without division,
  so that its order is transitive is a lemma of its own, by multiplication.
* Groups are built address by address (`Placed`), a recursive function on the
  addresses. What holds of the groups so far (they are disjoint, cover the
  addresses placed, and all members of one are compatible with each other) is
  carried from one address to the next; the least address at which it could fail
  contradicts that.
* `CadenceFree` compares a refresh with one more refresh in between. The rotation
  counts from the second it last turned, so the seconds passed add up
  (`StepsAdd`) and turning twice is turning once (`TurningTwice`); the radio
  chosen once is chosen again (`StrongestRadioStays`).
* `ChoiceInv` adds to the properties only the types of what is heard and of the
  rotation.

### Reception and channel

`AnalysisProofs` proves `ReceptionIsSound` (`ReceptionSound`) from
`ReceptionAssumption`, for any beacon interval, schedule and number of beacons.
The code assigns each beacon the first slot it can have and never looks back. By
exchange, that is no worse than any schedule that explains the same times:
`Latest` says that of all of those, at every phase, none ends in an earlier slot
and none allows a later phase; `Gapless`, that when a schedule without a gap
explains the beacons, the code's has none. Both are kept by one more beacon, by
the arithmetic of the slot it is given.

From `ChannelAssumption` (access points are on channels that 802.11 has,
`IsChannelOf`, and options have their types) it proves, for any requests,
adapters, access points, retention and length:

* `TuningIsKept` (`TuningKept`). `PlanInv` says that what is asked for can be
  commanded (`Commanded`: it has its centres, is punctured only if wide and
  contains its primary), which is enough for iw's report of it to read the same,
  and that it is what was requested unless a fallback is declared.
* `CoverageIsHonest` (`CoverageHonest`). The lemma `Understood` is the reader's
  half: each of the ways in which an access point can write its channel is
  parsed as that channel, by the arithmetic of channel numbers. The coverage is
  `Fair`: what it lists is so, what was outside lately is listed, and what was
  known lately was heard no earlier. The last part is what pruning needs, as it
  drops a BSSID by when it was heard and not by what is known of it.

### Frames counted as they come

From `ProjectionAssumption` (addresses are addresses or none, numbers are
natural numbers), for any frames, target, length of a second, age of a
definition and size of the host table, `AnalysisProofs` also proves:

* `StreamsAreWhole` (`StreamIsWhole`): merging the buckets of the seconds gives
  the counts, BSSID summaries and clients of one pass over all the frames.
* `HostsAreHonest` (`HostsHonest`): the merged host table is exact, or says that
  it is limited, exactly when there are more clients than it can hold.

Both sides are recursive functions over sequences that grow, `Passes` over the
frames and `Merged` over the seconds; the induction is over the steps of the
analyzer instead. One frame more is one step of `Passes`, since what the earlier
frames say stays the same once every BSSID was heard before them (`SaidStays`).
It is the last bucket with a frame more in `Merged`, and absorbing that is
absorbing the bucket and then counting the frame (`AccumulatesLater`).

`StreamIsWhole` is not inductive: a frame changes which hosts were active last,
so which ones the merge lists, and nothing is then known of a merge with the
others. `StreamInv` therefore says it of every choice of the hosts listed, and
that their details are those of the pass when no bucket is limited and the
choice has all clients. `FrameInv` adds that capture times rise and that each
bucket lists its clients, or as many as it can and says so. What the table's
size has to do with it is a lemma on ranks (`LeadingCount`): in an order in
which any two differ, exactly k have fewer than k ahead of them.

### What is only model-checked

* Liveness and `ENABLED`, which the prover does not do.
* `ReplayAgrees` of `LivePipeline`: it compares what was published with a fold
  of the analyzer's step over all the frames delivered, whatever batches they
  came in.

## Not modelled

Operations of modelled components that are left out:

* broker: its own copy of the requested logging, the download catalog, the
  client table and deadlines of `serve`; `follow` of the client; the bytes of a
  frame, which is whole, partly sent or torn.
* live loop: the variant without an aggregation process, the calls of
  dashboards, the metadata of raw captures, the discovery of interfaces, and a
  phy that cannot monitor, which is refused before anything is borrowed.
* channel planning: `choose_capture_definition` and `RetuneHysteresis`, which no
  live code calls.
* core capture: tokens, progress counters, the diagnostics file's contents.
* radio session: how other tools are recognised, which is one condition here.
* analyzer: figures copied from a beacon into a sample, and averages of them.
* logging and export: row formats, retention, leases and byte budgets of files.
* FPMS: which entry is highlighted, drawing, screenshots, rotation, navigation
  inside a page, a child that outlives SIGKILL.

Components left out: displays and parsing beyond the fields above (stateless, or
layout), the web front, the command line and retry diagnostics (they call the
modelled parts), and installers and probes (outside the running system). The
platform's services appear only as they are used.

Next to model: the catalog, `serve`'s clients and `follow`; `BeaconRetention`
(budgets and leases of `RotatingBeaconWriter`); the bytes of a frame, refined by
the whole frames of `ManagedSession`.

Next to prove: `ReplayAgrees`, by the invariants of `LivePipelineProofs` for an
analyzer that is read after every frame.
