----------------------------- MODULE CoreCapture -----------------------------
(***************************************************************************)
(* Capture through wlanpi-core (core_capture.py) and the packet fan-out    *)
(* (packet_source.py).                                                     *)
(*                                                                         *)
(* Four actors: the Core service, reached over one websocket; the spawned  *)
(* transport worker, which owns the Core session and copies its PCAPNG     *)
(* bytes into a pipe; the fan-out thread, which gives every block to the   *)
(* decoder and then offers it to the exporter; and the parent, whose       *)
(* CoreCaptureProcess talks to the worker over a control pipe (its steps   *)
(* are in LiveRun.tla).                                                    *)
(*                                                                         *)
(* A Core message of packet data is a chunk; chunk c is the two halves     *)
(* 2c-1 and 2c, so a write can stop in the middle of a chunk, and a chunk  *)
(* is also one PCAPNG block.  Timeouts are steps that may happen at any    *)
(* moment of the wait they bound.                                          *)
(***************************************************************************)
EXTENDS Naturals, Sequences, SequencesExt

CONSTANTS
  MaxChunks,   \* bound on the chunks Core sends
  PipeRoom,    \* halves the worker's pipe holds
  Window       \* events the websocket holds (max_queue)

ASSUME CaptureAssumption ==
  MaxChunks \in Nat /\ PipeRoom \in Nat \ {0, 1} /\ Window \in Nat \ {0}

VARIABLES
  core,            \* Core's session for this websocket: "none", "starting", "running"
  sent,            \* chunks Core has sent
  open,            \* the websocket is up
  commands,        \* worker to Core, in order
  events,          \* Core to worker, in order
  worker,          \* where run_owner is; "off" before the spawn
  early,           \* packet data that preceded CAPTURE_STARTED
  writing,         \* halves of the current write_bytes not yet in the pipe
  stop_requested,  \* run_owner.stop_requested
  stopped,         \* run_owner.stopped
  attempted,       \* run_owner.attempted
  raised,          \* run_owner is ending with an exception
  parent,          \* the parent process is alive
  control,         \* parent to worker
  status,          \* worker to parent
  pipe,            \* the pipe between the worker, or Dumpcap, and its reader
  held,            \* halves of the block the fan-out is writing
  fanout,          \* "off", "run" or "done"
  decoder,         \* "off", "run" or "done"
  decoded,         \* halves the decoder has been given
  offered          \* blocks offered to the exporter

coreVars   == <<core, sent>>
wireVars   == <<open, commands, events>>
workerVars == <<worker, early, writing, stop_requested, stopped, attempted, raised>>
parentVars == <<parent, control, status>>
streamVars == <<pipe, held, fanout, decoder, decoded, offered>>

CaptureInit ==
  /\ core = "none" /\ sent = 0
  /\ open = FALSE /\ commands = << >> /\ events = << >>
  /\ worker = "off" /\ early = << >> /\ writing = << >>
  /\ stop_requested = FALSE /\ stopped = FALSE /\ attempted = FALSE /\ raised = FALSE
  /\ parent = TRUE /\ control = << >> /\ status = << >>
  /\ pipe = << >> /\ held = << >>
  /\ fanout = "off" /\ decoder = "off" /\ decoded = << >> /\ offered = << >>

Halves(c) == <<2 * c - 1, 2 * c>>
Event(code, ok) == [code |-> code, ok |-> ok]
Data(c) == [code |-> "data", ok |-> TRUE, chunk |-> c]

-----------------------------------------------------------------------------
(* external: the Core service.  It answers the commands of a websocket in  *)
(* order, tunes before it captures, keeps the session of the websocket     *)
(* that started it and ends that session when the websocket closes.        *)

\* The event that answers each command.
Answer == [auth |-> "AUTH_OK", list_sessions |-> "SESSIONS",
           get_supported_frequencies |-> "SUPPORTED_FREQUENCIES",
           configure |-> "CONFIG_APPLIED", start |-> "CAPTURE_STARTED"]

Says(e) == events' = IF open THEN Append(events, e) ELSE events

\* A session inventory, a layout or a frequency list may not be what the
\* request needs (ok = FALSE); any command may be refused.
CoreAnswers ==
  /\ commands # << >> /\ core # "starting"
  /\ Head(commands) \notin {"start", "stop"}
  /\ \E ok \in BOOLEAN :
       \/ Says(Event(Answer[Head(commands)], ok))
       \/ ok /\ Says(Event("error", FALSE))
  /\ commands' = Tail(commands)
  /\ UNCHANGED <<core, sent, open>>

CoreAccepts ==
  /\ commands # << >> /\ core = "none" /\ Head(commands) = "start"
  /\ \/ core' = "starting" /\ UNCHANGED events
     \/ UNCHANGED core /\ Says(Event("error", FALSE))
  /\ commands' = Tail(commands)
  /\ UNCHANGED <<sent, open>>

\* A failing initial tune is reported as an error and may leave the capture on;
\* ok = FALSE is a session that differs from the request.
CoreStarts ==
  /\ core = "starting"
  /\ \/ core' = "running" /\ \E ok \in BOOLEAN : Says(Event("CAPTURE_STARTED", ok))
     \/ core' \in {"running", "none"} /\ Says(Event("error", FALSE))
  /\ UNCHANGED <<sent, open, commands>>

CoreStops ==
  /\ commands # << >> /\ core # "starting" /\ Head(commands) = "stop"
  /\ Says(IF core = "running" THEN Event("CAPTURE_STOPPED", TRUE) ELSE Event("error", FALSE))
  /\ core' = "none" /\ commands' = Tail(commands)
  /\ UNCHANGED <<sent, open>>

\* Packet data may also precede the answer to start.
CoreSends ==
  /\ core \in {"starting", "running"} /\ open
  /\ sent < MaxChunks /\ Len(events) < Window
  /\ sent' = sent + 1 /\ events' = Append(events, Data(sent + 1))
  /\ UNCHANGED <<core, open, commands>>

CoreEnds ==
  /\ core = "running" /\ core' = "none"
  /\ Says(Event("CAPTURE_ENDED", TRUE))
  /\ UNCHANGED <<sent, open, commands>>

CoreSeesClose ==
  /\ ~open /\ (core # "none" \/ commands # << >>)
  /\ core' = "none" /\ commands' = << >>
  /\ UNCHANGED <<sent, open, events>>

CoreRestarts ==
  /\ open /\ open' = FALSE /\ core' = "none" /\ commands' = << >>
  /\ UNCHANGED <<sent, events, workerVars, parentVars, streamVars>>

Core ==
  /\ \/ CoreAnswers \/ CoreAccepts \/ CoreStarts \/ CoreStops \/ CoreSends
     \/ CoreEnds \/ CoreSeesClose
  /\ UNCHANGED <<workerVars, parentVars, streamVars>>

-----------------------------------------------------------------------------
(* run_owner and the transport worker around it.                           *)

\* The `finally` of run_owner: a capture that was attempted and not stopped is
\* stopped again, and its confirmation awaited.
Raise ==
  /\ raised' = TRUE /\ writing' = << >>
  /\ IF attempted /\ ~stopped /\ open
       THEN worker' = "confirming" /\ commands' = Append(commands, "stop")
       ELSE worker' = "reporting" /\ UNCHANGED commands
  /\ UNCHANGED <<open, early, stop_requested, stopped, attempted, status>>

\* _transport_worker up to the first command; a failure here is before run_owner.
WorkerConnects ==
  /\ worker = "spawned"
  /\ \/ worker' = "auth" /\ open' = TRUE /\ commands' = <<"auth">>
        /\ UNCHANGED <<raised, status>>
     \/ worker' = "exited" /\ raised' = TRUE /\ status' = Append(status, "error")
        /\ UNCHANGED <<open, commands>>
  /\ UNCHANGED <<events, early, writing, stop_requested, stopped, attempted>>

\* The step after each step that waits for an answer.
Following == [auth |-> "list_sessions", list_sessions |-> "get_supported_frequencies",
              get_supported_frequencies |-> "ready", configure |-> "start",
              start |-> "streaming"]

Waiting == worker \in DOMAIN Following

\* A slip: the data that preceded CAPTURE_STARTED is forgotten.
NoEarlyBytes == << >>

\* The halves of the chunks in `early`, in order.
EarlyBytes == [h \in 1 .. 2 * Len(early) |-> 2 * early[(h + 1) \div 2] - (h % 2)]

\* The answer is the one awaited and is accepted.  `attempted` is set before
\* start is sent; a failing send, to Core or to the parent, raises.
Accepted(next) ==
  IF /\ next \in DOMAIN Answer => open
     /\ next \notin DOMAIN Answer => parent
    THEN /\ worker' = next
         /\ commands' = IF next \in DOMAIN Answer THEN Append(commands, next) ELSE commands
         /\ status' = IF next \in DOMAIN Answer THEN status
                      ELSE Append(status, IF next = "ready" THEN "ready" ELSE "started")
         /\ attempted' = (attempted \/ next = "start")
         /\ writing' = IF next = "streaming" THEN EarlyBytes ELSE writing
         /\ UNCHANGED <<open, early, stop_requested, stopped, raised>>
    ELSE Raise

\* _wait_event: other events are skipped, packet data is kept only while
\* CAPTURE_STARTED is awaited, an error event or an unfit answer raises.
WorkerHears ==
  /\ Waiting /\ events # << >> /\ events' = Tail(events)
  /\ LET e == Head(events) IN
       \/ e.code = Answer[worker] /\ e.ok /\ Accepted(Following[worker])
       \/ e.code = "data" /\ worker = "start" /\ early' = Append(early, e.chunk)
          /\ UNCHANGED <<worker, open, commands, writing, stop_requested, stopped,
                         attempted, raised, status>>
       \/ /\ \/ e.code = "data" /\ worker # "start"
             \/ e.code = "error"
             \/ e.code = Answer[worker] /\ ~e.ok
          /\ Raise
       \/ e.code \notin {"data", "error", Answer[worker]}
          /\ UNCHANGED <<worker, open, commands, early, writing, stop_requested, stopped,
                         attempted, raised, status>>

\* A wait of _wait_event (15 s) or of control's stop (20 s) runs out, or the
\* connection is lost with nothing left to read.
WorkerGivesUp ==
  /\ \/ worker \in DOMAIN Following \cup {"stopping"}
     \/ worker = "streaming" /\ ~open /\ events = << >> /\ writing = << >>
  /\ UNCHANGED events /\ Raise

\* next_control at `ready`: anything but start ends the worker.
WorkerStarts ==
  /\ worker = "ready" /\ (control # << >> \/ ~parent)
  /\ IF parent /\ Head(control) = "start"
       THEN IF open THEN /\ worker' = "configure" /\ commands' = Append(commands, "configure")
                         /\ control' = Tail(control)
                         /\ UNCHANGED <<open, early, writing, stop_requested, stopped,
                                        attempted, raised, status>>
                    ELSE Raise /\ control' = Tail(control)
       ELSE /\ worker' = "reporting" /\ UNCHANGED control
            /\ UNCHANGED <<open, commands, early, writing, stop_requested, stopped,
                           attempted, raised, status>>
  /\ UNCHANGED events

\* The control task of a running capture: any message, or a parent that is
\* gone, asks for the stop.  The reader is not cancelled.
WorkerStops ==
  /\ worker = "streaming" /\ (control # << >> \/ ~parent)
  /\ IF open THEN /\ worker' = "stopping" /\ stop_requested' = TRUE
                  /\ commands' = Append(commands, "stop")
                  /\ UNCHANGED <<open, early, writing, stopped, attempted, raised, status>>
             ELSE Raise
  /\ UNCHANGED <<events, control>>

\* The receive task, between two writes.
Receiving == worker \in {"streaming", "stopping"} /\ writing = << >> /\ events # << >>

WorkerReceives ==
  /\ Receiving /\ events' = Tail(events)
  /\ LET e == Head(events) IN
       \/ e.code = "data" /\ writing' = Halves(e.chunk)
          /\ UNCHANGED <<worker, open, commands, early, stop_requested, stopped, attempted,
                         raised, status>>
       \/ e.code = "CAPTURE_STOPPED" /\ stop_requested
          /\ stopped' = TRUE /\ worker' = "reporting"
          /\ UNCHANGED <<open, commands, early, writing, stop_requested, attempted, raised,
                         status>>
       \/ /\ \/ e.code \in {"error", "CAPTURE_ENDED"}
             \/ e.code = "CAPTURE_STOPPED" /\ ~stop_requested
          /\ Raise
       \/ e.code \notin {"data", "error", "CAPTURE_ENDED", "CAPTURE_STOPPED"}
          /\ UNCHANGED <<worker, open, commands, early, writing, stop_requested, stopped,
                         attempted, raised, status>>

\* The pipe's reader: the fan-out when there is one, else the decoder.
ReaderGone == fanout = "done" \/ (fanout = "off" /\ decoder = "done")

\* One write of _write_pipe.
WorkerWrites ==
  /\ worker \in {"streaming", "stopping"} /\ writing # << >>
  /\ Len(pipe) < PipeRoom /\ ~ReaderGone
  /\ pipe' = Append(pipe, Head(writing)) /\ writing' = Tail(writing)
  /\ UNCHANGED <<coreVars, wireVars, worker, early, stop_requested, stopped, attempted,
                 raised, parentVars, held, fanout, decoder, decoded, offered>>

\* The decoder cannot keep up (5 s), or has closed its input.
WriteFails ==
  /\ worker \in {"streaming", "stopping"} /\ writing # << >>
  /\ Len(pipe) = PipeRoom \/ ReaderGone
  /\ UNCHANGED events /\ Raise

\* A slip: any event is taken for the confirmation.
ConfirmsAnyEvent(e) == e.code # "data"

\* The confirmation run_owner's `finally` waits for (15 s), whatever else arrives.
Confirms(e) == e.code = "CAPTURE_STOPPED"

WorkerConfirms ==
  /\ worker = "confirming"
  /\ \/ events # << >> /\ events' = Tail(events)
        /\ IF Confirms(Head(events))
             THEN stopped' = TRUE /\ worker' = "reporting"
             ELSE UNCHANGED <<stopped, worker>>
     \/ UNCHANGED <<events, stopped>> /\ worker' = "reporting"
  /\ UNCHANGED <<open, commands, early, writing, stop_requested, attempted, raised, status>>

\* The process is gone, and with it everything it had in memory.
Exits ==
  /\ worker' = "exited" /\ open' = FALSE
  /\ events' = << >> /\ early' = << >> /\ writing' = << >>
  /\ stop_requested' = FALSE /\ attempted' = FALSE
  /\ UNCHANGED commands

\* The last status messages, and the end of the process.
WorkerExits ==
  /\ worker = "reporting" /\ Exits
  /\ status' = status
       \o <<IF ~attempted THEN "idle" ELSE IF stopped THEN "confirmed" ELSE "unconfirmed">>
       \o (IF raised THEN <<"error">> ELSE << >>)
  /\ UNCHANGED <<stopped, raised>>

\* SIGTERM, or a crash: nothing is reported.
Killed == Exits /\ raised' = TRUE /\ UNCHANGED <<stopped, control, status>>

WorkerDies ==
  /\ worker \notin {"off", "exited"} /\ Killed
  /\ UNCHANGED <<coreVars, parent, streamVars>>

Worker ==
  \/ /\ \/ WorkerConnects \/ WorkerHears \/ WorkerGivesUp \/ WorkerReceives
        \/ WriteFails \/ WorkerConfirms \/ WorkerExits
     /\ UNCHANGED <<coreVars, parent, control, streamVars>>
  \/ (WorkerStarts \/ WorkerStops) /\ UNCHANGED <<coreVars, parent, streamVars>>
  \/ WorkerWrites

-----------------------------------------------------------------------------
(* forward_packets: each block whole to the decoder, then to the exporter. *)

FanoutReads ==
  /\ fanout = "run" /\ held = << >> /\ Len(pipe) >= 2
  /\ held' = SubSeq(pipe, 1, 2) /\ pipe' = SubSeq(pipe, 3, Len(pipe))
  /\ UNCHANGED <<fanout, decoder, decoded, offered>>

FanoutWrites ==
  /\ fanout = "run" /\ held # << >> /\ decoder = "run"
  /\ decoded' = Append(decoded, Head(held)) /\ held' = Tail(held)
  /\ offered' = IF Len(held) = 1 THEN Append(offered, Head(held) \div 2) ELSE offered
  /\ UNCHANGED <<pipe, fanout, decoder>>

\* The thread ends: its decoder is gone, or its source has ended (in the middle
\* of a block that is an error).
FanoutEnds(ended) ==
  /\ fanout = "run"
  /\ \/ decoder = "done" /\ held # << >>
     \/ ended /\ held = << >> /\ Len(pipe) < 2
  /\ fanout' = "done"
  /\ UNCHANGED <<pipe, held, decoder, decoded, offered>>

\* Without a fan-out the decoder reads the pipe itself.
DecoderReads ==
  /\ fanout = "off" /\ decoder = "run" /\ pipe # << >>
  /\ decoded' = Append(decoded, Head(pipe)) /\ pipe' = Tail(pipe)
  /\ UNCHANGED <<held, fanout, decoder, offered>>

\* The decoder dies.
DecoderDies ==
  /\ decoder = "run" /\ decoder' = "done"
  /\ UNCHANGED <<pipe, held, fanout, decoded, offered>>
=============================================================================
