------------------------------ MODULE Analyzer ------------------------------
(***************************************************************************)
(* The rolling analyzer of analyzer.py in its streaming mode, as operators *)
(* on the analyzer's state: its callers decide when each is called.        *)
(*                                                                         *)
(* Time is counted in beacon intervals (ASSUMED_BEACON_INTERVAL_SECONDS),  *)
(* Ticks of them to a second.  A frame is [id, time, beacon, bssid]: a     *)
(* beacon of bssid, or another frame.  What a second's sample holds is     *)
(* abstracted to the BSSIDs heard in the window that ends with it, its     *)
(* frame count, and the beacons its reception is counted from: what does   *)
(* not depend on a target channel.  Which BSSID each metric shows is the   *)
(* subject of DisplayChoice, the counting of slots that of                 *)
(* BeaconReception, whose frames are whose that of FrameProjection.        *)
(***************************************************************************)
EXTENDS Integers, Sequences, FiniteSets, FiniteSetsExt, SequencesExt, Ordering

CONSTANTS
  Ticks,    \* beacon intervals in a second
  Window,   \* window_seconds
  None      \* no value (Python's None)

ASSUME AnalyzerAssumption ==
  /\ Ticks \in Nat /\ Ticks > 1
  /\ Window \in Nat \ {0}
  /\ None \notin Int

Grace == 1
Second(time) == time \div Ticks
StartOf(second) == second * Ticks

NoSnapshot == [at |-> None, current |-> None, bssids |-> {}, history |-> << >>]

NewAnalyzer ==
  [records |-> {}, buckets |-> << >>, pending |-> {}, completed |-> {},
   ready |-> {}, history |-> {}, reference |-> None, next |-> None,
   projection |-> None, start |-> None, snapshot |-> NoSnapshot]

-----------------------------------------------------------------------------
(* What the analyzer derives from the records it retains.                  *)

\* _streaming_projection_for_second: the frames counted for the second.
Bucket(a, second) == IF second \in DOMAIN a.buckets THEN a.buckets[second] ELSE 0

\* _states_at: who beaconed from low on, and before upper where there is one.
HeardBetween(a, low, upper) ==
  {r.bssid : r \in {b \in a.records : b.time >= low /\ (upper # None => b.time < upper)}}

\* _beacon_reception_snapshot: what the reception of a second is counted from.
Observations(a, second) ==
  {b.id : b \in {r \in a.records : r.time <= StartOf(second + 1) + Grace}}

Stats(a, second) ==
  LET end == StartOf(second + 1)
  IN [second |-> second,
      bssids |-> HeardBetween(a, end - StartOf(Window), end),
      frames |-> Bucket(a, second),
      observed |-> Observations(a, second)]

-----------------------------------------------------------------------------
(* Completing and publishing seconds.                                      *)

\* What _complete_second keeps of the newest second it completes.
Projection(a, second) ==
  [second |-> second, bssids |-> Stats(a, second).bssids]

\* _finalize_pending_before: every second before it is completed, the empty
\* ones too, and its sample is ready.
FinalizeBefore(a, second) ==
  IF a.next = None \/ a.next >= second THEN a
  ELSE LET passed == a.next..(second - 1)
           new == passed \ a.completed
       IN [a EXCEPT !.ready = @ \cup {Stats(a, s) : s \in new},
                    !.projection = IF new = {} THEN @ ELSE Projection(a, Max(new)),
                    !.completed = @ \cup passed,
                    !.pending = @ \ passed,
                    !.next = second]

\* Mutant: a second is closed by the first frame that is a grace late.
LastClosedAtGrace(time) == (time - Grace) \div Ticks

\* The seconds whose end lies more than the grace before time are those before this.
LastClosed(time) == (time - Grace - 1) \div Ticks

FinalizeAfterGrace(a, time) == FinalizeBefore(a, LastClosed(time))

\* The oldest capture time the window of reference reaches.
RetainedFrom(reference) == reference - StartOf(Window)

\* _expire_records.
Expire(a, reference) ==
  LET cutoff == RetainedFrom(reference)
  IN [a EXCEPT !.records = {r \in @ : r.time >= cutoff},
               !.buckets = [s \in {s \in DOMAIN @ : s >= Second(cutoff)} |-> @[s]]]

\* _prune_completed_seconds.
Prune(a, latest) ==
  [a EXCEPT !.completed = {s \in @ : s > latest - Window}]

\* _record_history, for several samples in order.
Recorded(a, stats) ==
  LET history == a.history
        \cup {s \in ToSet(stats) : a.start # None => s.second >= a.start}
  IN {h \in history : \A other \in history : h.second > other.second - Window}

\* _refresh_current_snapshot.  The newest completed second's analysis is used
\* again for the snapshot at its end.
RefreshSnapshot(a, reference, second, upper) ==
  LET reuse == /\ a.projection # None /\ a.projection.second = second
               /\ reference = StartOf(second + 1) /\ upper = StartOf(second + 1)
      low == RetainedFrom(reference)
  IN [a EXCEPT !.snapshot =
        [at |-> reference, current |-> second,
         bssids |-> IF reuse THEN a.projection.bssids ELSE HeardBetween(a, low, upper),
         history |-> BySecond(a.history)]]

\* refresh_current: a provisional snapshot up to the newest frame.
RefreshCurrent(a) ==
  IF a.reference = None THEN a
  ELSE RefreshSnapshot(Expire(a, a.reference), a.reference, Second(a.reference), None)

\* The samples publish_capture_complete returns, and the analyzer after it.
\* At the end of the capture the last, partial second stays pending.
Closed(a, ended) ==
  IF ended THEN FinalizeBefore(a, Second(a.reference)) ELSE a

Published(a, ended) ==
  IF a.reference = None THEN << >>
  ELSE BySecond({s \in Closed(a, ended).ready : s.second < Second(a.reference)})

AfterPublish(a, ended) ==
  LET stats == Published(a, ended)
      newest == Last(stats).second
      closed == [Closed(a, ended) EXCEPT
                   !.history = Recorded(a, stats),
                   !.ready = {s \in @ : s.second >= Second(a.reference)}]
  IN IF a.reference = None THEN a
     ELSE IF stats = << >> THEN closed
     ELSE RefreshSnapshot(Prune(Expire(closed, a.reference), newest),
                          StartOf(newest + 1), newest, StartOf(newest + 1))

-----------------------------------------------------------------------------
(* Taking in a frame.                                                      *)

\* _accumulate_streaming_frame: the frame counts for its second.
Accumulated(a, frame) ==
  [s \in DOMAIN a.buckets \cup {Second(frame.time)} |->
     IF s = Second(frame.time) THEN Bucket(a, s) + 1 ELSE a.buckets[s]]

\* Older than everything the window can still hold.
ExpiredLate(a, time) == a.reference # None /\ time < RetainedFrom(a.reference)

\* ingest, without publication (publish_snapshot=False).
Ingest(a, frame) ==
  LET begun == [a EXCEPT !.next = IF @ = None THEN Second(frame.time) ELSE @]
      closed == FinalizeAfterGrace(begun, frame.time)
      hidden == closed.projection # None
                  /\ frame.time < StartOf(closed.projection.second + 1)
      kept == [closed EXCEPT
                 !.projection = IF hidden THEN None ELSE @,
                 !.records = IF frame.beacon THEN @ \cup {frame} ELSE @]
  IN IF ExpiredLate(closed, frame.time) THEN closed
     ELSE [kept EXCEPT
             !.buckets = Accumulated(kept, frame),
             !.pending = IF Second(frame.time) \in closed.completed THEN @
                         ELSE @ \cup {Second(frame.time)},
             !.reference = IF @ = None \/ frame.time > @ THEN frame.time ELSE @]

-----------------------------------------------------------------------------
(* Finite replay: Aggregator.aggregate_records.                            *)

\* Mutant: the newest second stays open.
FlushedOpen(a) ==
  IF a.pending = {} THEN a ELSE FinalizeBefore(a, Max(a.pending))

\* flush: everything observed is completed, the newest second included.
Flushed(a) ==
  IF a.pending = {} THEN a ELSE FinalizeBefore(a, Max(a.pending) + 1)

\* add: ingest with publication, then every ready sample is taken.
\* returned collects the samples, in the order they are returned.
Added(replay, frame) ==
  LET ingested == RefreshCurrent(Ingest(replay.analyzer, frame))
      stats == BySecond(ingested.ready)
  IN [analyzer |-> [ingested EXCEPT !.ready = {}, !.history = Recorded(ingested, stats)],
      returned |-> replay.returned \o stats]

Aggregated(frames) ==
  LET replay == FoldLeft(Added, [analyzer |-> NewAnalyzer, returned |-> << >>], frames)
  IN replay.returned \o BySecond(Flushed(replay.analyzer).ready)
=============================================================================
