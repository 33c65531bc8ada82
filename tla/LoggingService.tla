--------------------------- MODULE LoggingService ---------------------------
(***************************************************************************)
(* Live logging: run_live's loop thread (control file, maintenance, final  *)
(* cleanup), the LoggingService it calls, and the writer thread behind a   *)
(* bounded queue (log_writer.py).                                          *)
(*                                                                         *)
(* Records and metadata updates are numbered as the loop thread offers     *)
(* them; Updates are the numbers of the updates.  A segment's file pair is *)
(* one file here: every record goes to one of the two in the same order.   *)
(* Its rows are what write_records has gone through: an update leaves no   *)
(* row of its own, the rows behind it carry it.                            *)
(*                                                                         *)
(* The loop thread's stage:                                                *)
(*   "input"     reading frames, enqueueing records                        *)
(*   "maintain"  control file handled, LoggingService.maintain next        *)
(*   "put"       _stop_writer_worker: the queue is to take the stop mark   *)
(*   "join"      _stop_writer_worker: waiting for the writer thread        *)
(*   "close"     the writer is (or is taken to be) done with the file      *)
(*   "reopen"    _rotate: one segment closed, the next not yet open        *)
(*   "ending"    the loop is left, final rows may still be enqueued        *)
(*   "gone"      run_live's finally is past logging; "exited" process gone *)
(* and why says what it stops the writer for.                              *)
(***************************************************************************)
EXTENDS Naturals, Sequences, Functions

CONSTANTS
  MaxRecords,   \* bound: records and updates offered
  Updates,      \* which of them are metadata updates
  QueueCap,     \* write_queue_capacity
  BatchSize,    \* DEFAULT_LOG_BATCH_SIZE
  MaxFiles,     \* bound: segments opened
  DiskFaults,   \* whether space runs low and writes and opens fail
  Interrupts    \* bound: SIGINTs that reach the loop thread

ASSUME LoggingAssumption ==
  /\ MaxRecords \in Nat /\ Updates \subseteq 1..MaxRecords
  /\ QueueCap \in Nat \ {0} /\ BatchSize \in Nat \ {0} /\ MaxFiles \in Nat
  /\ DiskFaults \in BOOLEAN /\ Interrupts \in Nat

StopMark == 0      \* _STOP_LOG_WRITER

VARIABLES
  loop,          \* the loop thread: "input", "maintain", "put", "join", "close",
                 \* "reopen", "ending", "gone" or "exited"
  why,           \* its reason to stop the writer: "none", "stop", "rotate",
                 \* "lowdisk" or "end"
  service,       \* LoggingService: active, failed, sampling, linked, due
  worker,        \* the writer thread: pc, batch, stop requested, write failed
  queue,         \* what the queue holds
  files,         \* the segments written so far
  offered,       \* the newest record or update
  control,       \* what is asked of run_live: logging_only, the control file
  latched,       \* low_disk_latched
  signals,       \* SIGINTs still to come
  cause          \* what ended the capture loop

vars == <<loop, why, service, worker, queue, files, offered, control, latched,
          signals, cause>>
outside == <<control, signals>>

Off == [active |-> FALSE, failed |-> FALSE, sampling |-> FALSE,
        linked |-> FALSE, due |-> {}]

NoWorker == [pc |-> "none", batch |-> << >>, stop |-> FALSE, failed |-> FALSE]

Init ==
  /\ loop = "input" /\ why = "none"
  /\ service = Off
  /\ worker = NoWorker
  /\ queue = << >> /\ files = << >> /\ offered = 0
  /\ control \in [wanted : BOOLEAN, only : BOOLEAN]
  /\ latched = FALSE
  /\ signals = Interrupts
  /\ cause = "none"

Newest == Len(files)

\* The updates the loop thread has met; the newest is the metadata in force.
UpdatesUpTo(n) == {u \in Updates : u <= n}

-----------------------------------------------------------------------------
(* LoggingService, called by the loop thread.                              *)

\* A new segment: CaptureLogWriter.open and _start_writer_worker.
Segment == [rows |-> << >>, ended |-> FALSE, open |-> TRUE, whole |-> TRUE,
            told |-> UpdatesUpTo(offered), accepted |-> << >>]

Opens(active, due) ==
  /\ files' = Append(files, Segment)
  /\ service' = [active |-> active, failed |-> FALSE, sampling |-> FALSE,
                 linked |-> TRUE, due |-> due]
  /\ worker' = [NoWorker EXCEPT !.pc = "get"]
  /\ queue' = << >>

\* _stop_writer_worker forgets queue and thread first; _close_writer forgets
\* the session first, _stop_for_low_disk only when it calls _close_writer.
BeginStop(reason) ==
  /\ loop' = IF service.linked THEN "put" ELSE "close"
  /\ why' = reason
  /\ service' = [service EXCEPT !.linked = FALSE,
                   !.active = reason = "lowdisk" /\ service.active,
                   !.due = IF reason = "lowdisk" THEN service.due ELSE {}]

Full == Len(queue) >= QueueCap

\* put() blocks while the queue is full.
PutStop ==
  /\ loop = "put"
  /\ ~Full
  /\ queue' = Append(queue, StopMark)
  /\ loop' = "join"
  /\ UNCHANGED <<why, service, worker, files, offered, latched, cause, outside>>

\* Mutant: the thread is not waited for.
NotJoined == TRUE

\* The writer thread has ended.  Low disk then appends the end marker, or
\* fails to: the file may be full.
Joined == worker.pc = "exited"

Join ==
  /\ loop = "join"
  /\ Joined
  /\ loop' = "close"
  /\ \/ why # "lowdisk" /\ UNCHANGED files
     \/ why = "lowdisk" /\ files' = [files EXCEPT ![Newest].ended = TRUE]
     \/ why = "lowdisk" /\ DiskFaults /\ UNCHANGED files
  /\ UNCHANGED <<why, service, worker, queue, offered, latched, cause, outside>>

\* Mutant: a failure noticed while draining outlives its segment.
ClosedWithFailure ==
  [service EXCEPT !.active = FALSE, !.linked = FALSE, !.due = {}]

\* The rest of _close_writer: the failure flag is cleared and the file closed.
Closed == [service EXCEPT !.active = FALSE, !.failed = FALSE, !.linked = FALSE,
                          !.due = {}]

NewestClosed == [files EXCEPT ![Newest].open = FALSE]

\* Mutant: logging-only mode goes on without its log.
AfterCloseGoOn(reason) ==
  CASE reason = "stop"    -> "maintain"
    [] reason = "lowdisk" -> "input"
    [] reason = "rotate"  -> "reopen"
    [] reason = "end"     -> "gone"

\* What the loop thread does once the file is closed.
AfterClose(reason) ==
  CASE reason = "stop"    -> IF control.only THEN "ending" ELSE "maintain"
    [] reason = "lowdisk" -> IF control.only THEN "ending" ELSE "input"
    [] reason = "rotate"  -> "reopen"
    [] reason = "end"     -> "gone"

Close ==
  /\ loop = "close"
  /\ service' = Closed
  /\ files' = NewestClosed
  /\ loop' = AfterClose(why)
  /\ latched' = (latched \/ why = "lowdisk")
  /\ cause' = IF loop' = "ending" THEN "source" ELSE cause
  /\ why' = "none"
  /\ UNCHANGED <<worker, queue, offered, outside>>

\* The open() of a rotation or of a start fails: run_live is left through its
\* finally, with the service inactive.
OpenFails ==
  /\ DiskFaults
  /\ loop' = "ending"
  /\ cause' = "logging"
  /\ UNCHANGED <<service, worker, queue, files>>

\* The second half of _rotate.
Reopen ==
  /\ loop = "reopen"
  /\ \/ Opens(TRUE, {}) /\ loop' = "input" /\ UNCHANGED cause
     \/ OpenFails
  /\ UNCHANGED <<why, offered, latched, outside>>

-----------------------------------------------------------------------------
(* The loop thread.                                                        *)

\* A beacon, a completed second or a metadata update: put_nowait while the
\* service is active, and a full queue drops it.
Enqueued(n) ==
  /\ offered' = n
  /\ IF service.active /\ service.linked
       THEN IF Full
              THEN /\ service' = [service EXCEPT !.sampling = TRUE]
                   /\ UNCHANGED <<queue, files>>
              ELSE /\ queue' = Append(queue, n)
                   /\ files' = [files EXCEPT ![Newest].accepted = Append(@, n)]
                   /\ UNCHANGED service
       ELSE UNCHANGED <<service, queue, files>>

Offer ==
  /\ loop \in {"input", "ending"}
  /\ offered < MaxRecords
  /\ Enqueued(offered + 1)
  /\ UNCHANGED <<loop, why, worker, latched, cause, outside>>

\* More of what a full queue drops, once the bounded records are used up.
OfferInVain ==
  /\ loop = "input"
  /\ service.active /\ Full
  /\ service' = [service EXCEPT !.sampling = TRUE]
  /\ UNCHANGED <<loop, why, worker, queue, files, offered, latched, cause, outside>>

\* The control file is not due, or cannot be read, or says what is so.
NoControl ==
  /\ loop = "input"
  /\ loop' = "maintain"
  /\ UNCHANGED <<why, service, worker, queue, files, offered, latched, cause, outside>>

\* "logging_enabled": false lifts the latch and stops an active service.
ControlOff ==
  /\ loop = "input"
  /\ ~control.wanted
  /\ latched' = FALSE
  /\ IF service.active THEN BeginStop("stop")
     ELSE loop' = "maintain" /\ UNCHANGED <<why, service>>
  /\ UNCHANGED <<worker, queue, files, offered, cause, outside>>

MayStart == control.wanted /\ ~service.active /\ ~latched /\ Newest < MaxFiles

\* "logging_enabled": true starts an inactive service, unless low disk
\* stopped it; a failing open() leaves the loop.
ControlOn ==
  /\ loop = "input"
  /\ MayStart
  /\ \/ Opens(TRUE, {"disk"}) /\ loop' = "maintain" /\ UNCHANGED cause
     \/ OpenFails
  /\ UNCHANGED <<why, offered, latched, outside>>

\* maintain(): a failed write, then sampling, then the deadlines.
LowDisk ==
  /\ BeginStop("lowdisk")
  /\ UNCHANGED <<worker, queue, files, offered, latched, cause, outside>>

\* Mutant: a failed write is noticed at the next disk check.
FailedWriteWhenDue ==
  /\ loop = "maintain"
  /\ service.failed /\ "disk" \in service.due
  /\ LowDisk

FailedWrite ==
  /\ loop = "maintain"
  /\ service.failed
  /\ LowDisk

Sampled ==
  /\ loop = "maintain"
  /\ ~service.failed /\ service.sampling
  /\ service' = [service EXCEPT !.sampling = FALSE]
  /\ loop' = "input"
  /\ UNCHANGED <<why, worker, queue, files, offered, latched, cause, outside>>

Quiet == loop = "maintain" /\ ~service.failed /\ ~service.sampling

SpaceLow ==
  /\ DiskFaults
  /\ Quiet
  /\ "disk" \in service.due
  /\ LowDisk

\* Space suffices: on to the rollover deadline.
Checked ==
  LET due == service.due \ {"disk"} IN
  /\ Quiet
  /\ IF "rotation" \in due
       THEN BeginStop("rotate")
       ELSE /\ loop' = "input"
            /\ service' = [service EXCEPT !.due = due]
            /\ UNCHANGED why
  /\ UNCHANGED <<worker, queue, files, offered, latched, cause, outside>>

\* End of the packet source, with its final rows, or any other failure.
SourceEnds ==
  /\ loop = "input"
  /\ loop' = "ending"
  /\ cause' = "source"
  /\ UNCHANGED <<why, service, worker, queue, files, offered, latched, outside>>

\* run_live's finally: logging_service.stop().
Finally ==
  /\ loop = "ending"
  /\ IF service.active THEN BeginStop("end")
     ELSE loop' = "gone" /\ UNCHANGED <<why, service>>
  /\ UNCHANGED <<worker, queue, files, offered, latched, cause, outside>>

\* The process ends, and with it the writer, a daemon thread.
Exit ==
  /\ loop = "gone"
  /\ loop' = "exited"
  /\ UNCHANGED <<why, service, worker, queue, files, offered, latched, cause, outside>>

-----------------------------------------------------------------------------
(* The writer thread.                                                      *)

\* An unbounded wait for one item, then what else comes within the batch's
\* 50 ms, up to the stop mark.
Get ==
  /\ worker.pc = "get" /\ queue # << >>
  /\ worker' = IF Head(queue) = StopMark THEN [worker EXCEPT !.pc = "exited"]
               ELSE [worker EXCEPT !.pc = "batch", !.batch = <<Head(queue)>>]
  /\ queue' = Tail(queue)

\* Mutant: the newest record comes first.
GatherNewestFirst ==
  /\ worker.pc = "batch"
  /\ Len(worker.batch) < BatchSize /\ queue # << >>
  /\ worker' = IF Head(queue) = StopMark
                 THEN [worker EXCEPT !.pc = "write", !.stop = TRUE]
                 ELSE [worker EXCEPT !.batch = <<Head(queue)>> \o @]
  /\ queue' = Tail(queue)

\* Mutant: a stop mark that ends a batch is not remembered.
GatherPastStop ==
  /\ worker.pc = "batch"
  /\ Len(worker.batch) < BatchSize /\ queue # << >>
  /\ worker' = IF Head(queue) = StopMark THEN [worker EXCEPT !.pc = "write"]
               ELSE [worker EXCEPT !.batch = Append(@, Head(queue))]
  /\ queue' = Tail(queue)

Gather ==
  /\ worker.pc = "batch"
  /\ Len(worker.batch) < BatchSize /\ queue # << >>
  /\ worker' = IF Head(queue) = StopMark
                 THEN [worker EXCEPT !.pc = "write", !.stop = TRUE]
                 ELSE [worker EXCEPT !.batch = Append(@, Head(queue))]
  /\ queue' = Tail(queue)

BatchDone ==
  /\ worker.pc = "batch"
  /\ worker' = [worker EXCEPT !.pc = "write"]
  /\ UNCHANGED queue

\* write_records: an update changes the metadata of the rows behind it.
Written(file, batch) ==
  [file EXCEPT !.rows = @ \o batch, !.told = @ \cup (Updates \cap Range(batch))]

Ready(failed) ==
  [worker EXCEPT !.pc = IF worker.stop THEN "exited" ELSE "get", !.batch = << >>,
                 !.failed = failed]

\* A batch after a failed write is thrown away.
Discard ==
  /\ worker.failed
  /\ worker' = Ready(TRUE)
  /\ UNCHANGED <<files, service>>

WriteAll ==
  /\ ~worker.failed /\ files[Newest].open
  /\ files' = [files EXCEPT ![Newest] = Written(@, worker.batch)]
  /\ worker' = Ready(FALSE)
  /\ UNCHANGED service

\* OSError: the file has some first part of the batch.
WriteFails ==
  /\ DiskFaults
  /\ ~worker.failed /\ files[Newest].open
  /\ \E n \in 0..Len(worker.batch) :
       files' = [files EXCEPT ![Newest] =
                   [Written(@, SubSeq(worker.batch, 1, n)) EXCEPT !.whole = FALSE]]
  /\ worker' = Ready(TRUE)
  /\ service' = [service EXCEPT !.failed = TRUE]

\* A file closed underneath the thread takes nothing: its rows are skipped, or
\* a ValueError ends the thread.
WriteClosed ==
  /\ ~worker.failed /\ ~files[Newest].open
  /\ worker' \in {Ready(FALSE), [worker EXCEPT !.pc = "exited", !.batch = << >>]}
  /\ UNCHANGED <<files, service>>

Write ==
  /\ worker.pc = "write"
  /\ Discard \/ WriteAll \/ WriteFails \/ WriteClosed
  /\ UNCHANGED queue

Collect ==
  /\ Get \/ Gather \/ BatchDone
  /\ UNCHANGED <<files, service>>

Worker ==
  /\ loop # "exited"
  /\ Collect \/ Write
  /\ UNCHANGED <<loop, why, offered, latched, cause, outside>>

-----------------------------------------------------------------------------
(* Around them.                                                            *)

\* The broker rewrites the control file.
SetControl ==
  /\ control' = [control EXCEPT !.wanted = ~@]
  /\ UNCHANGED <<loop, why, service, worker, queue, files, offered, latched, signals, cause>>

\* A deadline passes.
Tick ==
  /\ service.active
  /\ \E d \in (IF Newest < MaxFiles THEN {"disk", "rotation"} ELSE {"disk"}) \ service.due :
       service' = [service EXCEPT !.due = @ \cup {d}]
  /\ UNCHANGED <<loop, why, worker, queue, files, offered, latched, cause, outside>>

\* SIGINT, wherever the loop thread is.  In _stop_writer_worker it leaves the
\* writer thread unjoined; in run_live's own finally it leaves that too.
Signalled ==
  /\ signals > 0
  /\ signals' = signals - 1
  /\ cause' = IF loop \in {"put", "join", "close"} THEN "cut"
              ELSE IF cause = "none" THEN "interrupt" ELSE cause
  /\ why' = "none"
  /\ UNCHANGED <<offered, latched>>

\* _stop_for_low_disk is still active until it reaches _close_writer.
Interrupt ==
  /\ loop \in {"input", "maintain", "put", "join", "close", "reopen"}
  /\ Signalled
  /\ loop' = IF why = "end" THEN "gone" ELSE "ending"
  /\ \/ UNCHANGED service
     \/ loop = "close" /\ service' = [service EXCEPT !.active = FALSE]
  /\ UNCHANGED <<worker, queue, files, control>>

\* SIGINT inside start() or _rotate, with the writer thread started and the
\* service not yet active.
InterruptInStart ==
  /\ (loop = "input" /\ MayStart) \/ loop = "reopen"
  /\ Signalled
  /\ loop' = "ending"
  /\ Opens(FALSE, {})
  /\ UNCHANGED control

-----------------------------------------------------------------------------
LoopProgress ==
  \/ PutStop \/ Join \/ Close \/ Reopen
  \/ NoControl \/ FailedWrite \/ Sampled \/ SpaceLow \/ Checked
  \/ Finally \/ Exit

Next ==
  \/ LoopProgress \/ ControlOff \/ ControlOn
  \/ Offer \/ OfferInVain \/ SourceEnds
  \/ Worker
  \/ SetControl \/ Tick \/ Interrupt \/ InterruptInStart

Spec == Init /\ [][Next]_vars

Control == ControlOff \/ ControlOn

\* The loop goes round, the control file is read every half second, and the
\* writer thread runs.
Fairness ==
  /\ WF_vars(LoopProgress) /\ SF_vars(Control)
  /\ WF_vars(Collect /\ Worker)

\* Its writes return; nothing says how soon.
LiveSpec == Spec /\ Fairness /\ WF_vars(Write /\ Worker)

-----------------------------------------------------------------------------
\* What a closed segment holds is everything its queue accepted, in order and
\* once, metadata updates among the records: a stop, a rollover and the end of
\* the capture drain the writer first.
DrainedOnClose ==
  \A i \in DOMAIN files :
    ~files[i].open /\ files[i].whole /\ cause # "cut" =>
      files[i].rows = files[i].accepted

\* A write failure belongs to the segment it hit: none is left behind to stop
\* a later one, or to raise the low-disk latch with logging already off.
FailureIsCurrent ==
  service.failed /\ loop \in {"input", "maintain", "ending"} /\ cause # "cut" =>
    service.active

\* The segments are an ordered sample of what was offered, whatever is
\* dropped, fails or is interrupted, and nothing follows an end marker.
Log == INSTANCE SampledLog WITH
  log <- [i \in DOMAIN files |-> [rows |-> files[i].rows,
                                  ended |-> files[i].ended, open |-> files[i].open]],
  offered <- offered
RefinesSampledLog == Log!LogSpec

\* A failed write stops logging.
FailureStops == service.failed ~> ~service.active

\* Stopping the writer ends: its queue drains and the thread is joined.
StopEnds == loop = "put" ~> loop \notin {"put", "join"}

\* In logging-only mode a low-disk stop ends the capture, and so the process.
LoggingOnlyEnds == control.only /\ latched ~> loop = "exited"
=============================================================================
