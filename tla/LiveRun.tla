------------------------------- MODULE LiveRun -------------------------------
(***************************************************************************)
(* run_live's acquisition and release of everything it borrows (live.py):  *)
(* the radio, the capture, either Dumpcap/TShark or a Core session, and    *)
(* the analysis child.  Composes RadioSession and CoreCapture, whose       *)
(* operators it calls in the program's order; the loop between the two,    *)
(* which only reads, is LivePipeline.tla.                                  *)
(*                                                                         *)
(* Ctrl+C, or SIGTERM, raises at any step that does not mask signals; the  *)
(* ExitStack callbacks and the context managers then run, each popped      *)
(* before it is called, so one that is interrupted is not run again.       *)
(***************************************************************************)
EXTENDS RadioSession, CoreCapture

CONSTANTS
  Backends,        \* the capture backends explored: "direct", "core"
  MaxInterrupts    \* bound on SIGINT and SIGTERM

ASSUME RunAssumption ==
  Backends \subseteq {"direct", "core"} /\ MaxInterrupts \in Nat

VARIABLES
  backend,        \* capture_backend
  exporting,      \* an export directory was given: Dumpcap and the fan-out
  pc,             \* the step of run_live
  todo,           \* ExitStack callbacks still registered, innermost first
  reported,       \* the run ends with an exception, or one was logged
  interrupts,     \* signals so far
  source,         \* Dumpcap, or TShark itself: "off", "run" or "done"
  analysis,       \* the aggregation worker: "off", "run" or "done"
  start_sent,     \* CoreCaptureProcess.attempted
  confirmed,      \* CoreCaptureProcess.stop_confirmed
  closed,         \* CoreCaptureProcess.closed, DirectCaptureProcess.closed
  verified        \* CoreDiagnostics: restoration_verified

runVars == <<backend, exporting, pc, todo, reported, interrupts, source, analysis,
             start_sent, confirmed, closed, verified>>
captureVars == <<coreVars, wireVars, workerVars, parentVars, streamVars>>
vars == <<radioVars, captureVars, runVars>>

Init ==
  /\ RadioInit /\ CaptureInit
  /\ backend \in Backends /\ exporting \in BOOLEAN
  /\ pc = "entering" /\ todo = << >> /\ reported = FALSE /\ interrupts = 0
  /\ source = "off" /\ analysis = "off"
  /\ start_sent = FALSE /\ confirmed = FALSE /\ closed = FALSE /\ verified = FALSE

Goto(step) == pc' = step /\ UNCHANGED reported
Raises(step) == pc' = step /\ reported' = TRUE
\* A command of the run succeeds, or fails within the bound and raises.
Commanded(ok, step) ==
  IF ok THEN Goto(step) /\ UNCHANGED faults ELSE Raises("unwinding") /\ Fault

Quiet == UNCHANGED <<backend, exporting, interrupts, verified>>
NoCapture == UNCHANGED <<captureVars, source, start_sent, confirmed, closed>>

-----------------------------------------------------------------------------
(* Startup.                                                                *)

EnterRadio ==
  /\ pc = "entering"
  /\ \/ Enter /\ Goto("setup")
     \/ Raises("done") /\ UNCHANGED radioVars       \* busy, locked or unreadable
  /\ Quiet /\ NoCapture /\ UNCHANGED <<todo, analysis>>

\* The Core backend reuses an existing monitor; it spawns the transport worker
\* before anything is mutated.
SpawnWorker ==
  /\ pc = "setup" /\ backend = "core"
  /\ IF states[Selected].mode = "monitor"
       THEN /\ Goto("connecting") /\ todo' = <<"capture">>
            /\ worker' = "spawned" /\ decoder' = "run"
            /\ fanout' = IF exporting THEN "run" ELSE "off"
       ELSE Raises("unwinding") /\ UNCHANGED <<todo, worker, decoder, fanout>>
  /\ Quiet
  /\ UNCHANGED <<radioVars, coreVars, wireVars, early, writing, stop_requested, stopped,
                 attempted, raised, parentVars, pipe, held, decoded, offered, source, analysis,
                 start_sent, confirmed, closed>>

BeginDirect ==
  /\ pc = "setup" /\ backend = "direct" /\ Goto("preparing")
  /\ Quiet /\ NoCapture /\ UNCHANGED <<radioVars, todo, analysis>>

Told(phase) == phase \in Range(status)

\* wait_phase: the phase arrives, or an error, the worker's end or the timeout.
WaitPhase(step, phase, next) ==
  /\ pc = step
  /\ \/ Told(phase) /\ ~Told("error") /\ Goto(next)
     \/ Raises("unwinding")
  /\ Quiet /\ NoCapture /\ UNCHANGED <<radioVars, todo, analysis>>

Prepare ==
  /\ pc = "preparing"
  /\ IF Prepared(core = "running") THEN Goto("pausing") ELSE Raises("unwinding")
  /\ Quiet /\ NoCapture /\ UNCHANGED <<radioVars, todo, analysis>>

PauseSibling ==
  /\ pc = "pausing"
  /\ \E ok \in BOOLEAN : Pause(ok) /\ Commanded(ok, "pausing")
  /\ Quiet /\ NoCapture /\ UNCHANGED <<todo, analysis>>

SelectInterface ==
  /\ pc = "pausing" /\ Select /\ Goto(IF backend = "core" THEN "raising" ELSE "tuning")
  /\ Quiet /\ NoCapture /\ UNCHANGED <<todo, analysis>>

\* build_monitor_setup_commands
MonitorSetup ==
  LET now == Untouched(radio[Selected])
      typed == IF states[Selected].mode = "monitor" THEN now
               ELSE After(After(now, "down"), "monitor")
  IN After(After(typed, "up"), "capture")

\* configure_monitor_interface, tried once more at 20 MHz when it fails.
Tune ==
  /\ pc \in {"tuning", "retuning"}
  /\ \E ok \in BOOLEAN :
       /\ Configure(MonitorSetup, ok)
       /\ IF ~ok /\ pc = "tuning" THEN Fault /\ pc' \in {"retuning", "unwinding"}
                                       /\ reported' = (pc' = "unwinding" \/ reported)
                                  ELSE Commanded(ok, "launching")
  /\ Quiet /\ NoCapture /\ UNCHANGED <<todo, analysis>>

RaiseInterface ==
  /\ pc = "raising"
  /\ \E ok \in BOOLEAN :
       Configure(After(Untouched(radio[Selected]), "up"), ok) /\ Commanded(ok, "starting")
  /\ Quiet /\ NoCapture /\ UNCHANGED <<todo, analysis>>

\* start_capture up to the wait for `started`.
StartCore ==
  /\ pc = "starting" /\ start_sent' = TRUE
  /\ IF worker # "exited" THEN Goto("started") /\ control' = Append(control, "start")
                          ELSE Raises("unwinding") /\ UNCHANGED control
  /\ Quiet
  /\ UNCHANGED <<radioVars, todo, coreVars, wireVars, workerVars, parent, status, streamVars,
                 source, analysis, confirmed, closed>>

\* Core's tuning is read back; a difference stops the run.
Verify ==
  /\ pc = "verifying"
  /\ \/ radio[Selected].channel = "capture" /\ Goto("launching")
     \/ Raises("unwinding")
  /\ Quiet /\ NoCapture /\ UNCHANGED <<radioVars, todo, analysis>>

\* Starts Dumpcap and its decoder, or TShark alone.
LaunchDirect ==
  /\ pc = "launching" /\ backend = "direct" /\ source = "off"
  /\ \/ /\ Goto("launching") /\ todo' = <<"capture">> \o todo
        /\ source' = "run"
        /\ decoder' = IF exporting THEN "run" ELSE "off"
        /\ fanout' = IF exporting THEN "run" ELSE "off"
     \/ Raises("unwinding") /\ UNCHANGED <<todo, source, decoder, fanout>>
  /\ Quiet
  /\ UNCHANGED <<radioVars, coreVars, wireVars, workerVars, parentVars, pipe, held, decoded,
                 offered, analysis, start_sent, confirmed, closed>>

LaunchAnalysis ==
  /\ pc = "launching" /\ (backend = "core" \/ source # "off")
  /\ Goto("running") /\ analysis' = "run" /\ todo' = Append(todo, "analysis")
  /\ Quiet /\ NoCapture /\ UNCHANGED radioVars

-----------------------------------------------------------------------------
(* The end of the run.                                                     *)

Failing ==
  IF backend = "core" THEN Told("error") \/ worker = "exited" \/ ReaderGone
                      ELSE source = "done" \/ ReaderGone

\* The loop ends: the capture ended, which raises, or a display asked for it.
LoopEnds ==
  /\ pc = "running"
  /\ \/ Failing /\ Raises("unwinding")
     \/ Goto("unwinding")
  /\ Quiet /\ NoCapture /\ UNCHANGED <<radioVars, todo, analysis>>

\* capture_resources: the callback is popped, and `closed` set, before its work.
CloseCapture ==
  /\ pc = "unwinding" /\ todo # << >> /\ Head(todo) = "capture"
  /\ todo' = Tail(todo) /\ closed' = TRUE /\ Goto("closing")
  /\ Quiet /\ UNCHANGED <<radioVars, captureVars, source, analysis, start_sent, confirmed>>

\* terminate_tshark_process on the source and the decoder: each ends, or its
\* second wait times out and raises, what follows being left undone.
CloseDirect ==
  /\ pc = "closing" /\ backend = "direct"
  /\ \/ /\ source' = "done" /\ decoder' = IF decoder = "run" THEN "done" ELSE decoder
        /\ Goto("unwinding")
        /\ UNCHANGED faults
     \/ Fault /\ Raises("unwinding") /\ source' \in {source, "done"} /\ UNCHANGED decoder
  /\ Quiet
  /\ UNCHANGED <<radio, states, changed, locked, failed, refused, busy, todo, coreVars,
                 wireVars, workerVars, parentVars, pipe, held, fanout, decoded,
                 offered, analysis, start_sent, confirmed, closed>>

\* CoreCaptureProcess.close, from here on with SIGINT and SIGTERM blocked.
AskStop ==
  /\ pc = "closing" /\ backend = "core" /\ Goto("joining")
  /\ control' = IF worker = "exited" THEN control ELSE Append(control, "stop")
  /\ Quiet
  /\ UNCHANGED <<radioVars, todo, coreVars, wireVars, workerVars, parent, status, streamVars,
                 source, analysis, start_sent, confirmed, closed>>

\* _drain, as far as the `stopped` message, of which there is at most one, is
\* concerned.
Drain ==
  LET last == Range(status) \cap {"idle", "confirmed", "unconfirmed"} IN
  /\ start_sent' = IF last = {} THEN start_sent ELSE "idle" \notin last
  /\ confirmed' = IF last = {} THEN confirmed ELSE "unconfirmed" \notin last

\* The worker has ended within 25 s, or is terminated.
Join ==
  /\ pc = "joining" /\ Drain
  /\ IF worker = "exited" THEN UNCHANGED <<wireVars, workerVars, control, status>>
                          ELSE Killed
  /\ IF start_sent' /\ ~confirmed' THEN Raises("joined") ELSE Goto("joined")
  /\ Quiet
  /\ UNCHANGED <<radioVars, todo, coreVars, parent, streamVars, source, analysis, closed>>

CloseDecoder ==
  /\ pc = "joined"
  /\ \/ decoder' = "done" /\ Goto("unwinding") /\ UNCHANGED faults
     \/ Fault /\ decoder = "run" /\ UNCHANGED decoder /\ Raises("unwinding")
  /\ Quiet
  /\ UNCHANGED <<radio, states, changed, locked, failed, refused, busy, todo, coreVars,
                 wireVars, workerVars, parentVars, pipe, held, fanout, decoded,
                 offered, source, analysis, start_sent, confirmed, closed>>

\* _stop_live_aggregation joins, terminates and joins again, or gives up.
CloseAnalysis ==
  /\ pc = "unwinding" /\ todo # << >> /\ Head(todo) = "analysis"
  /\ todo' = Tail(todo) /\ Goto("unwinding")
  /\ \/ analysis' = "done" /\ UNCHANGED faults
     \/ Fault /\ UNCHANGED analysis
  /\ Quiet /\ NoCapture /\ UNCHANGED <<radio, states, changed, locked, failed, refused, busy>>

\* RadioSession.__exit__, with signals blocked.
BeginRestore ==
  /\ pc = "unwinding" /\ todo = << >>
  /\ \/ /\ backend = "core" /\ changed # << >>
        /\ \/ ~Idle(core = "running") /\ Refuse
           \/ Idle(core = "running") /\ Fault /\ refused' = TRUE
              /\ UNCHANGED <<radio, states, changed, locked, failed, busy>>
        /\ Raises("releasing")
     \/ /\ backend = "core" /\ changed # << >> => Idle(core = "running")
        /\ Goto("restoring") /\ UNCHANGED radioVars
  /\ Quiet /\ NoCapture /\ UNCHANGED <<todo, analysis>>

RestoreNext ==
  /\ pc = "restoring" /\ changed # << >>
  /\ \E ok \in BOOLEAN :
       RestoreOne(Last(changed), ok) /\ (IF ok THEN UNCHANGED faults ELSE Fault)
  /\ Goto("restoring")
  /\ Quiet /\ NoCapture /\ UNCHANGED <<todo, analysis>>

EndRestore ==
  /\ pc = "restoring" /\ changed = << >>
  /\ IF failed = {} THEN Goto("releasing") ELSE Raises("releasing")
  /\ Quiet /\ NoCapture /\ UNCHANGED <<radioVars, todo, analysis>>

\* CoreDiagnostics.__exit__ compares the radio with the baseline once more.
Verified ==
  \A i \in Interface : /\ SameInterface(i) /\ AsFound(i)
                       /\ states[i].mode = "monitor" => states[i].channel # "none"

ReleaseRadio ==
  /\ pc = "releasing" /\ Release /\ Goto("done")
  /\ verified' = (backend = "core" /\ Verified)
  /\ NoCapture /\ UNCHANGED <<backend, exporting, interrupts, todo, analysis>>

\* The process ends; its daemonic children are terminated.
ParentExits ==
  /\ pc = "done" /\ parent /\ parent' = FALSE
  /\ IF worker \in {"off", "exited"}
       THEN UNCHANGED <<wireVars, workerVars, control, status>>
       ELSE Killed
  /\ fanout' = IF fanout = "run" THEN "done" ELSE fanout
  /\ analysis' = IF analysis = "run" THEN "done" ELSE analysis
  /\ UNCHANGED <<radioVars, coreVars, pipe, held, decoder, decoded, offered, backend, exporting,
                 pc, todo, reported, interrupts, source, start_sent, confirmed, closed, verified>>

-----------------------------------------------------------------------------
(* What happens around the run.                                            *)

Masked == pc \in {"joining", "joined", "restoring", "releasing", "done", "killed"}

\* Ctrl+C or SIGTERM.  In the loop it ends the run normally; in a callback it
\* abandons what is left of that callback, and in RadioSession.__exit__, before
\* its first line has blocked signals, the restoration.
Interrupt ==
  /\ ~Masked /\ interrupts < MaxInterrupts
  /\ interrupts' = interrupts + 1
  /\ \/ pc = "running" /\ Goto("unwinding")
     \/ pc \notin {"entering", "running"} /\ Raises("unwinding")
     \/ (pc = "entering" \/ (pc = "unwinding" /\ todo = << >>)) /\ Raises("done")
  /\ \/ UNCHANGED todo
     \/ pc = "unwinding" /\ todo # << >> /\ Head(todo) = "analysis" /\ todo' = Tail(todo)
  /\ NoCapture /\ UNCHANGED <<radioVars, backend, exporting, analysis, verified>>

\* SIGKILL: nothing is released but the phy lock, by the kernel.
RunKilled ==
  /\ pc \notin {"done", "killed"} /\ pc' = "killed" /\ parent' = FALSE /\ locked' = FALSE
  /\ fanout' = IF fanout = "run" THEN "done" ELSE fanout
  /\ UNCHANGED <<radio, states, changed, failed, refused, busy, faults, coreVars, wireVars,
                 workerVars, control, status, pipe, held, decoder, decoded, offered, backend,
                 exporting, todo, reported, interrupts, source, analysis, start_sent, confirmed,
                 closed, verified>>

\* external: Core, whose tuning is a change of the radio.
CoreStep ==
  /\ Core
  /\ radio' = IF core' = "starting" /\ core = "none"
                THEN [radio EXCEPT ![Selected] = Tuned(@, "capture")] ELSE radio
  /\ UNCHANGED <<states, changed, locked, failed, refused, busy, faults, runVars>>

WorkerStep == Worker /\ UNCHANGED <<radioVars, runVars>>

\* A process of the capture dies, or the Core service restarts.
Breaks ==
  /\ Fault
  /\ \/ WorkerDies \/ CoreRestarts
     \/ DecoderDies /\ UNCHANGED <<coreVars, wireVars, workerVars, parentVars>>
  /\ UNCHANGED <<radio, states, changed, locked, failed, refused, busy, runVars>>

\* Dumpcap writes the pipe the fan-out reads.
SourceWrites ==
  /\ source = "run" /\ fanout # "off" /\ sent < MaxChunks /\ Len(pipe) + 2 <= PipeRoom
  /\ sent' = sent + 1 /\ pipe' = pipe \o Halves(sent + 1)
  /\ UNCHANGED <<radioVars, core, wireVars, workerVars, parentVars, held, fanout, decoder,
                 decoded, offered, runVars>>

SourceDies ==
  /\ Fault /\ source = "run" /\ source' = "done"
  /\ UNCHANGED <<radio, states, changed, locked, failed, refused, busy, captureVars, backend,
                 exporting, pc, todo, reported, interrupts, analysis, start_sent, confirmed,
                 closed, verified>>

\* The pipe's writer has closed it.
SourceEnded == IF backend = "core" THEN worker = "exited" ELSE source = "done"

StreamStep ==
  /\ FanoutReads \/ FanoutWrites \/ FanoutEnds(SourceEnded) \/ DecoderReads
  /\ UNCHANGED <<radioVars, coreVars, wireVars, workerVars, parentVars, runVars>>

Elsewhere ==
  /\ Occupy \/ (\E i \in Interface : Replace(i))
  /\ pc \notin {"done", "killed"} /\ UNCHANGED <<captureVars, runVars>>

Startup ==
  \/ EnterRadio \/ SpawnWorker \/ BeginDirect
  \/ WaitPhase("connecting", "ready", "preparing") \/ WaitPhase("started", "started", "verifying")
  \/ Prepare \/ PauseSibling \/ SelectInterface \/ Tune \/ RaiseInterface \/ StartCore
  \/ Verify \/ LaunchDirect \/ LaunchAnalysis

Shutdown ==
  \/ LoopEnds \/ CloseCapture \/ CloseDirect \/ AskStop \/ Join \/ CloseDecoder
  \/ CloseAnalysis \/ BeginRestore \/ RestoreNext \/ EndRestore \/ ReleaseRadio \/ ParentExits

Next ==
  \/ Startup \/ Shutdown \/ Interrupt \/ RunKilled \/ CoreStep \/ WorkerStep
  \/ Breaks \/ SourceWrites \/ SourceDies \/ StreamStep \/ Elsewhere

Spec == Init /\ [][Next]_vars

-----------------------------------------------------------------------------
Over == pc \in {"done", "killed"}

\* Core will do nothing more for this run.
CoreIsIdle == core = "none" /\ "start" \notin Range(commands)

\* A stop the parent takes for confirmed is one: Core runs no session of this
\* run, nor will it start one from a command it has not read yet.
ConfirmedIsIdle == confirmed => CoreIsIdle

Restorable ==
  \A i \in Interface :
    SameInterface(i) /\ (states[i].mode = "monitor" => states[i].channel # "none")

\* A run that ends without an exception or a logged error leaves every
\* interface it found as it found it, no capture child and no Core session;
\* nothing that is still on its way changes that afterwards.  The diagnostics
\* report says so when every interface had a state to return to.
CleanExitRestores ==
  pc = "done" /\ ~reported =>
    /\ \A i \in Interface : SameInterface(i) => AsFound(i)
    /\ backend = "core" /\ Restorable => verified
    /\ CoreIsIdle /\ source # "run" /\ decoder # "run" /\ worker \in {"off", "exited"}

\* One interface that cannot be restored, or was replaced, does not keep the
\* others from being restored, whatever step the run failed at.
FailureIsolated ==
  /\ Over /\ states # << >> /\ ~locked /\ pc # "killed" /\ ~refused
  /\ start_sent => confirmed
  => \A i \in Interface \ failed : SameInterface(i) => AsFound(i)

\* The decoder and the exporter get the bytes of the capture in order, without
\* a gap, and only whole blocks; a capture that is stopped in good order has
\* delivered everything Core sent before the stop.
StreamKept ==
  LET bytes == decoded \o held \o pipe IN
  /\ bytes = [k \in 1 .. Len(bytes) |-> k]
  /\ offered = [k \in 1 .. Len(offered) |-> k]
  /\ 2 * Len(offered) <= Len(decoded)
  /\ backend = "core" /\ stopped /\ ~raised => Len(bytes) = 2 * sent

\* docs/architecture.md: capture and analysis children stop before radio
\* restoration.
ChildrenStopFirst ==
  pc = "restoring" => source # "run" /\ decoder # "run" /\ analysis # "run"
=============================================================================
