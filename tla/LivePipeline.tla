---------------------------- MODULE LivePipeline ----------------------------
(***************************************************************************)
(* The way from captured frames to rows and graphs (live.py): the          *)
(* aggregation process, which reads TShark's rows in order and drives the  *)
(* analyzer, the pipe it publishes through, and run_live's loop, which     *)
(* stamps the local channel utilisation on the samples, hands them to      *)
(* logging and keeps the snapshot it will paint.                           *)
(*                                                                         *)
(* TShark writes its rows in the order of capture: frames come with times  *)
(* that never go back.  A batch is what one turn of the worker's loop      *)
(* takes off the line reader; a message is one LiveAggregationMessage,     *)
(* which run_live takes in bit by bit: a SIGINT may come between any two.  *)
(***************************************************************************)
EXTENDS Analyzer

CONSTANTS
  Shapes,      \* bound: the frames heard, as [beacon, bssid]
  MaxFrames,   \* bound: frames captured
  MaxTime,     \* bound: the newest capture time
  PipeCap,     \* messages the pipe takes before send() blocks
  Readings,    \* local CU readings, None among them
  MaxSurveys   \* bound: completed surveys

ASSUME PipelineAssumption ==
  /\ \A shape \in Shapes : shape.beacon \in BOOLEAN
  /\ MaxTime \in Nat

VARIABLES
  delivered,   \* the frames the worker has decoded, in order
  worker,      \* the aggregation process: pc, partial second, batch, beacons
  analyzer,    \* its analyzer
  pipe,        \* messages sent and not received
  taken,       \* what is left of the message being taken in, if there is one
  loop,        \* run_live: pc, exit code
  rows,        \* samples published to logging and the dashboard
  beacons,     \* beacons given to logging
  cu,          \* latest_local_cu_percent, surveys taken
  stamped,     \* local_cu_by_second
  shown        \* worker_snapshot, as run_live patched it

vars == <<delivered, worker, analyzer, pipe, taken, loop, rows, beacons, cu, stamped, shown>>

Now == IF delivered = << >> THEN 0 ELSE Last(delivered).time

\* Times the next frame may have; capture begins in second 0.
Times == IF delivered = << >> THEN 0..(Ticks - 1) ELSE Now..MaxTime

Init ==
  /\ delivered = << >>
  /\ worker = [pc |-> "reading", partial |-> None, batch |-> << >>, beacons |-> << >>]
  /\ analyzer = NewAnalyzer
  /\ pipe = << >> /\ taken = << >>
  /\ loop = [pc |-> "looping", failed |-> FALSE]
  /\ rows = << >> /\ beacons = << >>
  /\ cu = [latest |-> None, surveys |-> 0]
  /\ stamped = << >>
  /\ shown = [history |-> << >>, current |-> None, bssids |-> {}]

-----------------------------------------------------------------------------
(* The aggregation process.                                                *)

\* Mutant: the first full second is held back as well.
VisibleLate(stats, partial) ==
  KeptAt(stats, {i \in DOMAIN stats : stats[i].second > partial + 1})

\* LiveStartupFilter: the second capture began in is not published.
Visible(stats, partial) ==
  IF partial = None THEN stats
  ELSE KeptAt(stats, {i \in DOMAIN stats : stats[i].second > partial})

\* One row of TShark becomes a frame: analysed, and what it completed taken.
Decode ==
  /\ worker.pc = "reading"
  /\ Len(delivered) < MaxFrames
  /\ \E time \in Times, shape \in Shapes :
       LET frame == [id |-> Len(delivered) + 1, time |-> time, beacon |-> shape.beacon,
                     bssid |-> shape.bssid]
           first == worker.partial = None
           ingested == Ingest(IF first THEN [analyzer EXCEPT !.start = Second(time) + 1]
                                       ELSE analyzer, frame)
           completes == ingested.ready # {}
       IN /\ delivered' = Append(delivered, frame)
          /\ analyzer' = IF completes THEN AfterPublish(ingested, FALSE) ELSE ingested
          /\ worker' = [worker EXCEPT
                          !.partial = IF first THEN Second(time) ELSE @,
                          !.beacons = IF frame.beacon THEN Append(@, frame.id) ELSE @,
                          !.batch = IF completes THEN @ \o Published(ingested, FALSE)
                                                 ELSE @]
  /\ UNCHANGED <<pipe, taken, loop, rows, beacons, cu, stamped, shown>>

\* send(): it blocks while the pipe is full.
Sent(stats, snapshot, eof) ==
  /\ pipe' = Append(pipe, [stats |-> Visible(stats, worker.partial),
                           beacons |-> worker.beacons, eof |-> eof,
                           snapshot |-> snapshot])
  /\ worker' = [worker EXCEPT !.batch = << >>, !.beacons = << >>,
                              !.pc = IF eof THEN "ended" ELSE @]

\* The batch is done: what it completed is published; or, after a while,
\* progress without samples.
EndBatch ==
  /\ worker.pc = "reading" /\ delivered # << >>
  /\ worker.batch # << >> \/ worker.beacons # << >>
  /\ Len(pipe) < PipeCap
  /\ Sent(worker.batch, analyzer.snapshot, FALSE)
  /\ UNCHANGED <<delivered, analyzer, taken, loop, rows, beacons, cu, stamped, shown>>

\* TShark's output has ended: the delayed-beacon grace need not pass.
Ended == TRUE

Eof ==
  /\ worker.pc = "reading" /\ worker.batch = << >>
  /\ Len(pipe) < PipeCap
  /\ analyzer' = AfterPublish(analyzer, Ended)
  /\ Sent(Published(analyzer, Ended), AfterPublish(analyzer, Ended).snapshot, TRUE)
  /\ UNCHANGED <<delivered, taken, loop, rows, beacons, cu, stamped, shown>>

\* The process dies; what it has sent stays readable.
WorkerDies ==
  /\ worker.pc = "reading"
  /\ worker' = [worker EXCEPT !.pc = "dead"]
  /\ UNCHANGED <<delivered, analyzer, pipe, taken, loop, rows, beacons, cu, stamped, shown>>

-----------------------------------------------------------------------------
(* run_live's loop.                                                        *)

Stamp(s) == [second |-> s.second, sample |-> s, cu |-> cu.latest]

\* Mutant: the graph keeps the readings of the analyzer, which has none.
PatchedFromMessage(history) ==
  [i \in DOMAIN history |-> [second |-> history[i].second, cu |-> None]]

\* The history of a snapshot, with the readings its samples were given.
Patched(history) ==
  [i \in DOMAIN history |->
     [second |-> history[i].second,
      cu |-> IF history[i].second \in DOMAIN stamped THEN stamped[history[i].second]
             ELSE None]]

\* recv(), and the reading of each of its samples.
Receive ==
  /\ loop.pc = "looping" /\ pipe # << >>
  /\ LET seconds == {s.second : s \in ToSet(Head(pipe).stats)}
     IN stamped' = [s \in DOMAIN stamped \cup seconds |->
                      IF s \in seconds THEN cu.latest ELSE stamped[s]]
  /\ taken' = <<Head(pipe)>>
  /\ pipe' = Tail(pipe)
  /\ loop' = [loop EXCEPT !.pc = "publishing"]
  /\ UNCHANGED <<delivered, worker, analyzer, rows, beacons, cu, shown>>

\* _publish_live_stats, row by row.
Publish ==
  /\ loop.pc = "publishing" /\ taken[1].stats # << >>
  /\ rows' = Append(rows, Stamp(Head(taken[1].stats)))
  /\ taken' = <<[taken[1] EXCEPT !.stats = Tail(@)]>>
  /\ UNCHANGED <<delivered, worker, analyzer, pipe, loop, beacons, cu, stamped, shown>>

\* The rows are logged, and the snapshot with them in it replaces the one before.
Paint ==
  /\ loop.pc = "publishing" /\ taken[1].stats = << >>
  /\ shown' = [history |-> Patched(taken[1].snapshot.history),
               current |-> taken[1].snapshot.current,
               bssids |-> taken[1].snapshot.bssids]
  /\ loop' = [loop EXCEPT !.pc = "recording"]
  /\ UNCHANGED <<delivered, worker, analyzer, pipe, taken, rows, beacons, cu, stamped>>

\* The message's beacons, one by one.
Record ==
  /\ loop.pc = "recording" /\ taken[1].beacons # << >>
  /\ beacons' = Append(beacons, Head(taken[1].beacons))
  /\ taken' = <<[taken[1] EXCEPT !.beacons = Tail(@)]>>
  /\ UNCHANGED <<delivered, worker, analyzer, pipe, loop, rows, cu, stamped, shown>>

Received ==
  /\ loop.pc = "recording" /\ taken[1].beacons = << >>
  /\ taken' = << >>
  /\ loop' = [loop EXCEPT !.pc = IF taken[1].eof THEN "exhausted" ELSE "looping"]
  /\ UNCHANGED <<delivered, worker, analyzer, pipe, rows, beacons, cu, stamped, shown>>

\* recv() meets the end of a pipe whose last message was no end of capture.
PipeBreaks ==
  /\ loop.pc = "looping" /\ pipe = << >> /\ worker.pc = "dead"
  /\ loop' = [pc |-> "exhausted", failed |-> TRUE]
  /\ UNCHANGED <<delivered, worker, analyzer, pipe, taken, rows, beacons, cu, stamped, shown>>

\* A survey is evaluated: an unavailable one leaves no reading.
Survey ==
  /\ loop.pc = "looping" /\ cu.surveys < MaxSurveys
  /\ \E reading \in Readings \ {cu.latest} :
       cu' = [latest |-> reading, surveys |-> cu.surveys + 1]
  /\ UNCHANGED <<delivered, worker, analyzer, pipe, taken, loop, rows, beacons, stamped, shown>>

\* SIGINT, or the dashboard's request: the snapshot that there is is published,
\* TShark and the worker are ended, and what is left of a message, what the
\* pipe still holds, or the worker had not sent, is given up.
Interrupt ==
  /\ loop.pc \in {"looping", "publishing", "recording"}
  /\ loop' = [loop EXCEPT !.pc = "interrupted"]
  /\ worker' = [worker EXCEPT !.pc = IF @ = "reading" THEN "dead" ELSE @]
  /\ UNCHANGED <<delivered, analyzer, pipe, taken, rows, beacons, cu, stamped, shown>>

Take == Receive \/ Publish \/ Paint \/ Record \/ Received

Next == Decode \/ EndBatch \/ Eof \/ WorkerDies \/ Take \/ PipeBreaks \/ Survey
          \/ Interrupt

Spec == Init /\ [][Next]_vars

-----------------------------------------------------------------------------
(* Properties.                                                             *)

In(second) == {i \in DOMAIN delivered : Second(delivered[i].time) = second}
BeaconsIn(low, upper) ==
  {i \in DOMAIN delivered :
     delivered[i].beacon /\ delivered[i].time >= low /\ delivered[i].time < upper}
Senders(ids) == {delivered[i].bssid : i \in ids}

\* What a sample of a second must say of the whole capture: every frame of
\* the second, every beacon that can be one of its delayed ones, and exactly
\* the BSSIDs of its window.  Only the window's first beacon interval may
\* have been expired already: retained data is cut at the newest frame.
Exact(s) ==
  LET end == StartOf(s.second + 1)
      bottom == end - StartOf(Window)
  IN /\ s.frames = Cardinality(In(s.second))
     /\ Senders(BeaconsIn(bottom + Grace, end)) \subseteq s.bssids
     /\ s.bssids \subseteq Senders(BeaconsIn(bottom, end))
     /\ BeaconsIn(bottom + Grace, end + Grace + 1) \subseteq s.observed

\* A published second is final and exact, whatever the batches, and however
\* late its delayed beacons came (analyzer.py:441-456, 521-587); so is, at any
\* time, a provisional snapshot of the window up to the newest frame.
SamplesExact ==
  /\ \A i \in DOMAIN rows : Exact(rows[i].sample)
  /\ RefreshCurrent(analyzer).snapshot.bssids
       = Senders(BeaconsIn(Now - StartOf(Window), Now + 1))

\* When capture ends, a replay of the same frames returns a sample of every
\* second from the first to the last, and says of each second what the live
\* rows said, but for the BSSIDs heard only in the window's first beacon
\* interval (aggregator.py:15-29, analyzer.py:378-384, 470).
ReplayAgrees ==
  LET replayed == Aggregated(delivered)
  IN loop.pc = "exhausted" /\ delivered # << >> =>
       /\ Len(replayed) = Second(Now) - worker.partial + 1
       /\ \A i \in DOMAIN replayed : replayed[i].second = worker.partial + i - 1
       /\ \A i \in DOMAIN rows :
            /\ replayed[i + 1].frames = rows[i].sample.frames
            /\ SymDiff(replayed[i + 1].bssids, rows[i].sample.bssids) \subseteq
                 Senders(BeaconsIn(StartOf(rows[i].second + 1 - Window),
                                   StartOf(rows[i].second + 1 - Window) + Grace))

\* The messages not wholly taken in.
Messages == taken \o pipe

\* Where a decoded beacon can be: logged, in a message, or with the worker.
Places ==
  <<beacons>> \o [k \in DOMAIN Messages |-> Messages[k].beacons] \o <<worker.beacons>>

\* The log is complete: its rows are the seconds after the one capture began
\* in, each once, in order and without a gap; when the capture ends by itself,
\* all of them up to the last, partial second; and no decoded beacon is logged
\* twice, out of order, or lost between the worker and the loop
\* (live.py:712-752, 1781-1889; analyzer.py:435-477).
RowsComplete ==
  LET full == Second(Now) - 1 - worker.partial
  IN /\ \A i \in DOMAIN rows : rows[i].second = worker.partial + i
     /\ loop.pc = "exhausted" /\ ~loop.failed /\ delivered # << >> =>
          Len(rows) = IF full > 0 THEN full ELSE 0
     /\ UNION {ToSet(Places[p]) : p \in DOMAIN Places}
          = {i \in DOMAIN delivered : delivered[i].beacon}
     /\ \A p, q \in DOMAIN Places : \A i \in DOMAIN Places[p], j \in DOMAIN Places[q] :
          p < q \/ (p = q /\ i < j) => Places[p][i] < Places[q][j]

\* A row as a point of the graph.
Point(i) == [second |-> rows[i].second, cu |-> rows[i].cu]

\* The rows the graph has to show: all but those of a message that is being
\* taken in, or was cut short by an interrupt, before its snapshot is there.
Due ==
  {i \in DOMAIN rows :
     loop.pc \in {"publishing", "interrupted"} /\ taken # << >> =>
       shown.current # None /\ rows[i].second <= shown.current}

\* The graph agrees with the log, also the one an interrupt publishes: it is
\* the newest Window of the rows that are due, with the readings they were
\* logged with (live.py:1799-1840, 2284-2308, analyzer.py:607-632).
GraphMatchesLog ==
  /\ ToSet(shown.history) \subseteq {Point(i) : i \in Due}
  /\ Len(shown.history) <= Window
  /\ \A i \in Due :
       (\A j \in Due : rows[i].second > rows[j].second - Window) =>
         Point(i) \in ToSet(shown.history)
=============================================================================
