------------------------- MODULE BeaconExportProofs -------------------------
(***************************************************************************)
(* What holds of the beacon export for every bound, queue capacity and     *)
(* failure: the type invariant, the conservation of packets, the exact     *)
(* shared count, the drained queue of a worker that leaves, and the counts *)
(* that are published.                                                     *)
(***************************************************************************)
EXTENDS BeaconExport, TLAPS

\* The worker with its counts not yet bounded: only the conservation of
\* packets bounds them.
Loose == Worker(Nat)

\* Nothing but the storage differs.
SamePlace(w, x) ==
  x.pc = w.pc /\ x.stop = w.stop /\ x.packet = w.packet /\ x.told = w.told

\* The fields that closing a segment changes.
LEMMA ClosedType ==
  ASSUME NEW w \in Loose, NEW n \in Nat, NEW closed \in Seq(Seq(Packet)),
         NEW segment \in Seq(Packet)
  PROVE  [w EXCEPT !.exported = n, !.closed = closed, !.segment = segment] \in Loose
BY DEF Loose, Worker

\* The fields that giving a file up changes.
LEMMA DiscardedType ==
  ASSUME NEW w \in Loose, NEW n \in Nat, NEW segment \in Seq(Packet)
  PROVE  [w EXCEPT !.skipped = n, !.segment = segment, !.open = FALSE] \in Loose
BY DEF Loose, Worker

\* The fields that skipping a packet changes.
LEMMA SkippedType ==
  ASSUME NEW w \in Loose, NEW n \in Nat, NEW packet \in Packet
  PROVE  [w EXCEPT !.skipped = n, !.packet = packet] \in Loose
BY DEF Loose, Worker

\* Closing a segment moves its packets from the open file to the closed ones.
LEMMA CloseSegmentKeeps ==
  ASSUME NEW w \in Loose
  PROVE  /\ CloseSegment(w) \in Loose
         /\ Held(CloseSegment(w)) = Held(w)
         /\ SamePlace(w, CloseSegment(w))
         /\ CloseSegment(w).segment = EmptySegment
<1>1. CASE w.segment = EmptySegment
  BY <1>1 DEF CloseSegment, SamePlace
<1>2. CASE w.segment # EmptySegment
  <2>1. w.segment \in Seq(Packet) /\ Len(w.segment) \in Nat /\ w.exported \in Nat
        /\ w.skipped \in Nat /\ w.closed \in Seq(Seq(Packet))
    BY DEF Loose, Worker
  <2>2. Append(w.closed, w.segment) \in Seq(Seq(Packet)) /\ << >> \in Seq(Packet)
    <3> DEFINE Segments == Seq(Packet)
    <3>1. w.closed \in Seq(Segments) /\ w.segment \in Segments
      BY <2>1
    <3> HIDE DEF Segments
    <3>2. Append(w.closed, w.segment) \in Seq(Segments)
      BY <3>1
    <3>3. << >> \in Seq(Packet)
      OBVIOUS
    <3> QED BY <3>2, <3>3 DEF Segments
  <2>3. CloseSegment(w) = [w EXCEPT !.exported = w.exported + Len(w.segment),
                                    !.closed = Append(w.closed, w.segment),
                                    !.segment = EmptySegment]
    BY <1>2 DEF CloseSegment
  <2>6. w.exported + Len(w.segment) \in Nat
    BY <2>1
  <2>4. CloseSegment(w) \in Loose
    <3> DEFINE n == w.exported + Len(w.segment)
               closed == Append(w.closed, w.segment)
               segment == EmptySegment
    <3>1. n \in Nat /\ closed \in Seq(Seq(Packet)) /\ segment \in Seq(Packet)
      BY <2>2, <2>6 DEF EmptySegment
    <3> HIDE DEF n, closed, segment
    <3>2. [w EXCEPT !.exported = n, !.closed = closed, !.segment = segment] \in Loose
      BY <3>1, ClosedType
    <3> QED BY <2>3, <3>2 DEF n, closed, segment
  <2>5. /\ CloseSegment(w).exported = w.exported + Len(w.segment)
        /\ CloseSegment(w).skipped = w.skipped
        /\ CloseSegment(w).segment = << >>
        /\ SamePlace(w, CloseSegment(w))
    BY <2>3 DEF Loose, Worker, SamePlace, EmptySegment
  <2> QED BY <2>1, <2>4, <2>5 DEF Held, EmptySegment
<1> QED BY <1>1, <1>2

\* So does closing the writer.
LEMMA FinishKeeps ==
  ASSUME NEW w \in Loose
  PROVE  Finish(w) \in Loose /\ Held(Finish(w)) = Held(w) /\ SamePlace(w, Finish(w))
<1>1. CloseSegment(w) \in Loose
  BY CloseSegmentKeeps
<1>2. Finish(w) = [CloseSegment(w) EXCEPT !.open = FALSE]
  BY DEF Finish
<1>3. /\ Finish(w) \in Loose
      /\ Finish(w).segment = CloseSegment(w).segment
      /\ Finish(w).exported = CloseSegment(w).exported
      /\ Finish(w).skipped = CloseSegment(w).skipped
      /\ SamePlace(CloseSegment(w), Finish(w))
  BY <1>1, <1>2 DEF Loose, Worker, SamePlace
<1> QED BY <1>3, CloseSegmentKeeps DEF Held, SamePlace

\* Giving the open file up counts its packets as skipped.
LEMMA DiscardKeeps ==
  ASSUME NEW w \in Loose
  PROVE  Discard(w) \in Loose /\ Held(Discard(w)) = Held(w) /\ SamePlace(w, Discard(w))
<1>1. w.segment \in Seq(Packet) /\ Len(w.segment) \in Nat /\ w.exported \in Nat
      /\ w.skipped \in Nat /\ << >> \in Seq(Packet)
  BY DEF Loose, Worker
<1>2. Discard(w) = [w EXCEPT !.skipped = w.skipped + Len(w.segment),
                             !.segment = EmptySegment, !.open = FALSE]
  BY DEF Discard
<1>4. w.skipped + Len(w.segment) \in Nat
  BY <1>1
<1>5. Discard(w) \in Loose
  <2> DEFINE n == w.skipped + Len(w.segment)
             segment == EmptySegment
  <2>1. n \in Nat /\ segment \in Seq(Packet)
    BY <1>1, <1>4 DEF EmptySegment
  <2> HIDE DEF n, segment
  <2>2. [w EXCEPT !.skipped = n, !.segment = segment, !.open = FALSE] \in Loose
    BY <2>1, DiscardedType
  <2> QED BY <1>2, <2>2 DEF n, segment
<1>3. /\ Discard(w).segment = << >>
      /\ Discard(w).exported = w.exported
      /\ Discard(w).skipped = w.skipped + Len(w.segment)
      /\ SamePlace(w, Discard(w))
  BY <1>1, <1>2 DEF Loose, Worker, SamePlace, EmptySegment
<1> QED BY <1>1, <1>3, <1>5 DEF Held

\* A storage failure loses no packet from the accounts.
LEMMA FailuresKeep ==
  ASSUME NEW w \in Loose, NEW epoch \in -1..MaxGeneration, NEW x \in Failures(w, epoch)
  PROVE  x \in Loose /\ Held(x) = Held(w) /\ SamePlace(w, x)
<1>1. PICK y \in {Finish(w), Discard(w)} :
        x = [y EXCEPT !.error = TRUE, !.failed = IF epoch > y.failed THEN epoch ELSE y.failed]
  BY DEF Failures
<1>2. y \in Loose /\ Held(y) = Held(w) /\ SamePlace(w, y)
  BY FinishKeeps, DiscardKeeps
<1>3. y.failed \in -1..MaxGeneration
  BY <1>2 DEF Loose, Worker
<1>4. /\ x \in Loose
      /\ x.segment = y.segment /\ x.exported = y.exported /\ x.skipped = y.skipped
      /\ SamePlace(y, x)
  BY <1>1, <1>2, <1>3 DEF Loose, Worker, SamePlace
<1> QED BY <1>2, <1>4 DEF Held, SamePlace

\* Counts that grow twice have grown.
LEMMA Grown ==
  ASSUME NEW w \in Loose, NEW x \in Loose, NEW y \in Loose, UpTo(w, x), UpTo(x, y)
  PROVE  UpTo(w, y)
<1>1. \A z \in Loose : z.exported \in Nat /\ z.skipped \in Nat
  BY DEF Loose, Worker
<1> QED BY <1>1 DEF UpTo

\* Closing a file, or giving it up, only raises the counts.
LEMMA StorageGrows ==
  ASSUME NEW w \in Loose
  PROVE  UpTo(w, w) /\ UpTo(w, CloseSegment(w)) /\ UpTo(w, Finish(w)) /\ UpTo(w, Discard(w))
<1>1. w.exported \in Nat /\ w.skipped \in Nat /\ Len(w.segment) \in Nat
  BY DEF Loose, Worker
<1>2. /\ CloseSegment(w).exported \in {w.exported, w.exported + Len(w.segment)}
      /\ CloseSegment(w).skipped = w.skipped
  BY DEF CloseSegment, Loose, Worker
<1>3. Finish(w).exported = CloseSegment(w).exported /\ Finish(w).skipped = w.skipped
  BY <1>2, CloseSegmentKeeps DEF Finish, Loose, Worker
<1>4. Discard(w).exported = w.exported /\ Discard(w).skipped = w.skipped + Len(w.segment)
  BY DEF Discard, Loose, Worker
<1> QED BY <1>1, <1>2, <1>3, <1>4 DEF UpTo

\* So does a failure.
LEMMA FailuresGrow ==
  ASSUME NEW w \in Loose, NEW epoch \in -1..MaxGeneration, NEW x \in Failures(w, epoch)
  PROVE  UpTo(w, x)
<1>1. PICK y \in {Finish(w), Discard(w)} :
        x = [y EXCEPT !.error = TRUE, !.failed = IF epoch > y.failed THEN epoch ELSE y.failed]
  BY DEF Failures
<1>2. y \in Loose /\ UpTo(w, y)
  BY FinishKeeps, DiscardKeeps, StorageGrows
<1>3. x.exported = y.exported /\ x.skipped = y.skipped
  BY <1>1, <1>2 DEF Loose, Worker
<1> QED BY <1>2, <1>3 DEF UpTo

\* A skipped packet is counted.
LEMMA SkippedCounts ==
  ASSUME NEW w \in Loose, MaxPackets \in Nat, MaxGeneration \in Nat, MaxContext \in Nat
  PROVE  /\ Skipped(w) \in Loose /\ Held(Skipped(w)) = Held(w) + 1
         /\ Skipped(w).packet = NoPacket
         /\ Skipped(w).pc = w.pc /\ Skipped(w).stop = w.stop
         /\ Skipped(w).told = w.told /\ UpTo(w, Skipped(w))
<1>1. Len(w.segment) \in Nat /\ w.exported \in Nat /\ w.skipped \in Nat
  BY DEF Loose, Worker
<1>2. NoPacket \in Packet
  BY DEF NoPacket, Packet
<1>4. Skipped(w) \in Loose
  <2>1. \A n \in Nat : [w EXCEPT !.skipped = n, !.packet = NoPacket] \in Loose
    BY <1>2, SkippedType
  <2>2. w.skipped + 1 \in Nat
    BY <1>1
  <2> QED BY <2>1, <2>2 DEF Skipped
<1>3. /\ Skipped(w).segment = w.segment /\ Skipped(w).exported = w.exported
      /\ Skipped(w).skipped = w.skipped + 1 /\ Skipped(w).packet = NoPacket
      /\ Skipped(w).pc = w.pc /\ Skipped(w).stop = w.stop /\ Skipped(w).told = w.told
  BY <1>1, <1>2 DEF Skipped, Loose, Worker
<1> QED BY <1>1, <1>3, <1>4 DEF Held, UpTo

\* A packet added to the open file is counted there.
LEMMA AddedCounts ==
  ASSUME NEW w \in Loose, NEW packet \in Packet,
         MaxPackets \in Nat, MaxGeneration \in Nat, MaxContext \in Nat
  PROVE  /\ Added(w, packet) \in Loose /\ Held(Added(w, packet)) = Held(w) + 1
         /\ Added(w, packet).packet = NoPacket
         /\ Added(w, packet).pc = w.pc /\ Added(w, packet).stop = w.stop
         /\ Added(w, packet).told = w.told /\ UpTo(w, Added(w, packet))
<1>1. w.segment \in Seq(Packet) /\ Len(w.segment) \in Nat /\ w.exported \in Nat
      /\ w.skipped \in Nat
  BY DEF Loose, Worker
<1>2. NoPacket \in Packet
  BY DEF NoPacket, Packet
<1>3. /\ Append(w.segment, packet) \in Seq(Packet)
      /\ Len(Append(w.segment, packet)) = Len(w.segment) + 1
  BY <1>1
<1>4. /\ Added(w, packet) \in Loose
      /\ Added(w, packet).segment = Append(w.segment, packet)
      /\ Added(w, packet).exported = w.exported
      /\ Added(w, packet).skipped = w.skipped /\ Added(w, packet).packet = NoPacket
      /\ Added(w, packet).pc = w.pc /\ Added(w, packet).stop = w.stop
      /\ Added(w, packet).told = w.told
  BY <1>1, <1>2, <1>3 DEF Added, Loose, Worker
<1>5. Held(Added(w, packet)) = Held(w) + 1
  BY <1>1, <1>3, <1>4, SMTT(30) DEF Held
<1>6. UpTo(w, Added(w, packet))
  BY <1>1, <1>4 DEF UpTo
<1> QED BY <1>4, <1>5, <1>6

\* Storing the packet in hand counts it once, whatever happens to it.
LEMMA StoresCount ==
  ASSUME NEW w \in Loose, NEW x \in Stores(w, w.packet), ExportAssumption
  PROVE  /\ x \in Loose /\ Held(x) = Held(w) + 1 /\ x.packet = NoPacket
         /\ x.pc = w.pc /\ x.stop = w.stop /\ x.told = w.told /\ UpTo(w, x)
<1> DEFINE packet == w.packet
<1>1. packet \in Packet /\ packet.epoch \in -1..MaxGeneration
  BY SMTT(30) DEF Loose, Worker, Packet
<1>2. CASE x = Skipped(w)
  BY <1>2, SkippedCounts DEF ExportAssumption
<1>3. CASE x \in Failures(Skipped(w), packet.epoch)
  <2>1. /\ Skipped(w) \in Loose /\ UpTo(w, Skipped(w)) /\ Held(Skipped(w)) = Held(w) + 1
        /\ Skipped(w).packet = NoPacket /\ Skipped(w).pc = w.pc
        /\ Skipped(w).stop = w.stop /\ Skipped(w).told = w.told
    BY SkippedCounts DEF ExportAssumption
  <2>2. x \in Loose /\ Held(x) = Held(Skipped(w)) /\ SamePlace(Skipped(w), x)
        /\ UpTo(Skipped(w), x)
    BY <1>1, <1>3, <2>1, FailuresKeep, FailuresGrow
  <2> QED BY <2>1, <2>2, Grown DEF SamePlace
<1>4. CASE x \in Writes(w, packet)
  <2> DEFINE ready == IF NeedsWriter(w, packet)
                        THEN [Finish(w) EXCEPT !.open = TRUE, !.epoch = packet.epoch]
                        ELSE w
  <2>1. ready \in Loose /\ Held(ready) = Held(w) /\ ready.pc = w.pc /\ ready.stop = w.stop
        /\ ready.told = w.told /\ UpTo(w, ready)
    <3>1. CASE NeedsWriter(w, packet)
      <4>1. Finish(w) \in Loose /\ Held(Finish(w)) = Held(w) /\ SamePlace(w, Finish(w))
        BY FinishKeeps
      <4>2. ready = [Finish(w) EXCEPT !.open = TRUE, !.epoch = packet.epoch]
        BY <3>1
      <4>3. /\ ready \in Loose
            /\ ready.segment = Finish(w).segment /\ ready.exported = Finish(w).exported
            /\ ready.skipped = Finish(w).skipped
            /\ ready.pc = Finish(w).pc /\ ready.stop = Finish(w).stop
            /\ ready.told = Finish(w).told
        BY <1>1, <4>1, <4>2, ZenonT(30) DEF Loose, Worker
      <4>4. UpTo(w, ready)
        BY <4>3, StorageGrows DEF UpTo
      <4> QED BY <4>1, <4>3, <4>4 DEF Held, SamePlace
    <3>2. CASE ~NeedsWriter(w, packet)
      BY <3>2, StorageGrows
    <3> QED BY <3>1, <3>2
  <2>2. \E y \in {ready, CloseSegment(ready)} : x = Added(y, packet)
    BY <1>4 DEF Writes
  <2> HIDE DEF ready
  <2>3. PICK y \in {ready, CloseSegment(ready)} : x = Added(y, packet)
    BY <2>2
  <2>4. y \in Loose /\ Held(y) = Held(w) /\ y.pc = w.pc /\ y.stop = w.stop
        /\ y.told = w.told /\ UpTo(w, y)
    BY <2>1, <2>3, CloseSegmentKeeps, StorageGrows, Grown DEF SamePlace
  <2>5. /\ x \in Loose /\ Held(x) = Held(y) + 1 /\ x.packet = NoPacket
        /\ x.pc = y.pc /\ x.stop = y.stop /\ x.told = y.told /\ UpTo(y, x)
    BY <1>1, <2>3, <2>4, AddedCounts DEF ExportAssumption
  <2> QED BY <2>4, <2>5, Grown
<1> QED BY <1>2, <1>3, <1>4 DEF Stores

-----------------------------------------------------------------------------
(* The inductive invariant.                                                *)

\* A counted packet still fits.
Room == lock => pending < QueueCap

\* No packet is the absence of one.
Numbered == \A i \in DOMAIN records : records[i] # NoPacket

\* A packet is in hand between taking it and storing it.
Hand ==
  /\ worker.pc \in {"got", "write"} => worker.packet # NoPacket
  /\ worker.pc \notin {"got", "write", "killed"} => worker.packet = NoPacket

\* Without an error the control does not run ahead of its owner.
ControlFollows == parent.error = "none" => control.generation <= parent.generation

\* Only close() tells the worker to stop, and it ends with the worker.
StopFollows ==
  /\ worker.stop => control.stop
  /\ control.stop => parent.stage # "open"
  /\ parent.stage = "closed" => ~Alive

\* A worker that has left its loop has nothing queued and gets nothing more.
Drained ==
  worker.pc \in {"leave", "final", "exited"} /\ parent.stage # "dead" =>
    records = << >> /\ parent.stage # "open"

\* A last report that was queued is the newest there is.
Reported ==
  /\ worker.told => worker.pc = "exited"
  /\ worker.told /\ parent.stage # "dead" =>
       /\ reports = << >> => seen = Status
       /\ reports # << >> => Last(reports) = Status
       /\ parent.stage = "closed" => reports = << >>

IInv ==
  /\ TypeOK /\ Accounted /\ PendingExact
  /\ Room /\ Numbered /\ Hand /\ ControlFollows /\ StopFollows /\ Drained /\ Reported

\* Counts that add up to no more than the packets accepted are in their bounds.
LEMMA TightType ==
  ASSUME NEW w \in Loose, ExportAssumption, Held(w) <= MaxPackets
  PROVE  /\ w \in Worker(0..MaxPackets)
         /\ [exported |-> w.exported, skipped |-> w.skipped] \in Report
<1>1. Len(w.segment) \in Nat /\ w.exported \in Nat /\ w.skipped \in Nat
  BY DEF Loose, Worker
<1>2. w.exported \in 0..MaxPackets /\ w.skipped \in 0..MaxPackets
  BY <1>1 DEF Held, ExportAssumption
<1> QED BY <1>2 DEF Loose, Worker, Report

\* What a worker holds is a number.
LEMMA HeldType == ASSUME NEW w \in Loose PROVE Held(w) \in Nat
<1>1. Len(w.segment) \in Nat /\ w.exported \in Nat /\ w.skipped \in Nat
  BY DEF Loose, Worker
<1> QED BY <1>1 DEF Held

\* And the other way round.
LEMMA LooseType ==
  ASSUME NEW w \in Worker(0..MaxPackets), ExportAssumption
  PROVE  w \in Loose /\ Held(w) \in Nat
<1>1. w.exported \in Nat /\ w.skipped \in Nat
  BY DEF Worker, ExportAssumption
<1>2. w \in Loose
  BY <1>1 DEF Loose, Worker
<1> QED BY <1>2, HeldType

\* A step of the worker's loop changes nothing else of the storage.
LEMMA Moves ==
  ASSUME NEW w \in Loose,
         NEW pc \in {"sync", "get", "got", "write", "empty", "rest", "leave", "final",
                     "exited", "killed"},
         NEW x, x = [w EXCEPT !.pc = pc]
  PROVE  /\ x \in Loose /\ Held(x) = Held(w) /\ x.pc = pc
         /\ x.stop = w.stop /\ x.packet = w.packet
         /\ x.exported = w.exported /\ x.skipped = w.skipped /\ x.told = w.told
<1>1. /\ x \in Loose /\ x.pc = pc /\ x.told = w.told /\ x.stop = w.stop /\ x.packet = w.packet
      /\ x.exported = w.exported /\ x.skipped = w.skipped /\ x.segment = w.segment
  BY DEF Loose, Worker
<1> QED BY <1>1 DEF Held

\* A packet is in hand or not.
LEMMA HandCount == InHand \in Nat
BY DEF InHand

\* The initial states satisfy the invariant.
LEMMA InitIInv == ASSUME ExportAssumption, Init PROVE IInv
<1>1. NoPacket \in Packet /\ NoReport \in Report
  BY DEF NoPacket, Packet, NoReport, Report, ExportAssumption
<1>2. worker.segment = << >> /\ worker.exported = 0 /\ worker.skipped = 0
      /\ worker.packet = NoPacket /\ worker.pc = "sync" /\ ~worker.stop
  BY DEF Init, EmptySegment
<1>3. worker \in Worker(0..MaxPackets)
  <2> DEFINE Segments == Seq(Packet)
  <2>1. << >> \in Seq(Segments) /\ << >> \in Seq(Packet)
    OBVIOUS
  <2>2. -1 \in -1..MaxGeneration /\ -1 \in -1..MaxGeneration + 1 /\ 0 \in 0..MaxPackets
    BY DEF ExportAssumption
  <2>3. worker.closed \in Seq(Segments) /\ worker.segment \in Segments
    BY <2>1 DEF Init, EmptySegment
  <2> QED BY <1>1, <2>2, <2>3 DEF Init, Worker
<1>4. PICK on \in BOOLEAN :
        /\ parent = [requested |-> on, generation |-> 0, context |-> 0,
                     error |-> "none", stage |-> "open", left |-> {}]
        /\ control = [generation |-> 0, enabled |-> on, stop |-> FALSE]
  BY DEF Init
<1>5. TypeOK
  <2>1. parent \in [requested : BOOLEAN, generation : 0..MaxGeneration,
                    context : 0..MaxContext,
                    error : {"none", "metadata", "control", "worker", "timeout"},
                    stage : {"open", "closing", "closed", "dead"},
                    left : SUBSET {"count", "control", "record", "report"}]
    BY <1>4 DEF ExportAssumption
  <2>2. control \in [generation : 0..MaxGeneration + 1, enabled : BOOLEAN, stop : BOOLEAN]
    BY <1>4 DEF ExportAssumption
  <2>3. records = << >> /\ reports = << >> /\ lock = FALSE /\ pending = 0 /\ accepted = 0
        /\ seen = NoReport
    BY DEF Init
  <2>4. records \in Seq(Packet) /\ reports \in Seq(Report)
    BY <2>3
  <2>5. Len(records) <= QueueCap /\ Len(reports) <= ReportCap
    BY <2>3 DEF ExportAssumption, ReportCap
  <2>6. pending \in 0..QueueCap /\ accepted \in 0..MaxPackets
    BY <2>3 DEF ExportAssumption
  <2>7. lock \in BOOLEAN /\ seen \in Report
    BY <1>1, <2>3
  <2> QED BY <1>3, <2>1, <2>2, <2>4, <2>5, <2>6, <2>7 DEF TypeOK
<1>6. Accounted /\ PendingExact
  BY <1>2 DEF Init, Accounted, Held, PendingExact, InHand, At
<1>7. Room /\ Numbered /\ Hand /\ ControlFollows /\ StopFollows /\ Drained /\ Reported
  BY <1>2, <1>4 DEF Init, Room, Numbered, Hand, ControlFollows, StopFollows, Drained,
     Reported, At, Alive
<1> QED BY <1>5, <1>6, <1>7 DEF IInv

-----------------------------------------------------------------------------
(* The parent's steps.                                                     *)

\* A packet accepted is one more in the queue, not yet in the shared count.
LEMMA OfferStep == ASSUME ExportAssumption, IInv, Offer PROVE IInv'
<1> USE DEF IInv
<1>1. /\ parent.generation \in 0..MaxGeneration /\ parent.context \in 0..MaxContext
      /\ accepted \in 0..MaxPackets /\ accepted < MaxPackets
      /\ records \in Seq(Packet) /\ Len(records) < QueueCap /\ pending < QueueCap
      /\ parent' = parent /\ control' = control /\ worker' = worker /\ reports' = reports
      /\ seen' = seen /\ pending' = pending /\ lock' = TRUE /\ ~lock
      /\ parent.stage = "open" /\ accepted' = accepted + 1
  BY DEF TypeOK, Offer, Exporting, Serving
<1> DEFINE packet == [n |-> accepted + 1, epoch |-> parent.generation,
                      context |-> parent.context]
<1>2. packet \in Packet /\ packet.n = accepted + 1
  BY <1>1 DEF Packet, ExportAssumption
<1>3. packet # NoPacket
  BY <1>1, <1>2 DEF NoPacket
<1>4. records' = Append(records, packet)
  BY DEF Offer
<1> HIDE DEF packet
<1>5. /\ records' \in Seq(Packet) /\ Len(records') = Len(records) + 1
      /\ \A i \in 1..Len(records) : records'[i] = records[i]
      /\ records'[Len(records) + 1] = packet
      /\ Len(records) \in Nat
  BY <1>1, <1>2, <1>4
<1>6. TypeOK'
  <2>1. Len(records') <= QueueCap /\ accepted' \in 0..MaxPackets
    BY <1>1, <1>5 DEF ExportAssumption
  <2>2. lock' \in BOOLEAN
    BY <1>1
  <2> QED BY <1>1, <1>5, <2>1, <2>2 DEF TypeOK
<1>7. Accounted'
  <2>1. worker \in Worker(0..MaxPackets)
    BY DEF TypeOK
  <2>2. Held(worker) \in Nat /\ InHand \in Nat /\ InHand' = InHand
    BY <1>1, <2>1, LooseType, HandCount DEF InHand
  <2>3. Len(records') + InHand + Held(worker) = Len(records) + InHand + Held(worker) + 1
    BY <1>5, <2>2
  <2> QED BY <1>1, <2>2, <2>3 DEF Accounted
<1>8. PendingExact' /\ Room'
  <2>1. pending \in Int /\ lock' /\ (worker.pc = "got")' = (worker.pc = "got")
    BY <1>1 DEF TypeOK, ExportAssumption
  <2> QED BY <1>1, <1>5, <2>1 DEF PendingExact, Room, At
<1>9. Numbered'
  <2> SUFFICES ASSUME NEW i \in 1..Len(records) + 1 PROVE records'[i] # NoPacket
    BY <1>5 DEF Numbered
  <2>1. CASE i \in 1..Len(records)
    BY <1>1, <1>5, <2>1 DEF Numbered
  <2>2. CASE i = Len(records) + 1
    BY <1>3, <1>5, <2>2
  <2> QED BY <1>5, <2>1, <2>2
<1>10. (Hand /\ ControlFollows /\ StopFollows /\ Drained /\ Reported)'
  BY <1>1 DEF Hand, ControlFollows, StopFollows, Drained, Reported, At, Alive, Status
<1> QED BY <1>6, <1>7, <1>8, <1>9, <1>10

\* Its weight joins the shared count as the lock is given up.
LEMMA OfferCountedStep == ASSUME ExportAssumption, IInv, OfferCounted PROVE IInv'
<1> USE DEF IInv
<1>1. /\ parent' = parent /\ control' = control /\ worker' = worker /\ reports' = reports
      /\ seen' = seen /\ records' = records /\ accepted' = accepted
      /\ lock' = FALSE /\ lock /\ pending' = pending + 1 /\ pending \in 0..QueueCap
      /\ pending < QueueCap /\ QueueCap \in Nat
  BY DEF TypeOK, OfferCounted, Room, ExportAssumption
<1>2. TypeOK'
  <2>1. pending' \in 0..QueueCap
    BY <1>1
  <2>2. lock' \in BOOLEAN
    BY <1>1
  <2> QED BY <1>1, <2>1, <2>2 DEF TypeOK
<1>3. (Accounted /\ Room /\ Numbered /\ Hand /\ ControlFollows /\ StopFollows)'
  BY <1>1 DEF Accounted, InHand, Room, Numbered, Hand, ControlFollows, StopFollows, At, Alive
<1>4. (Drained /\ Reported)'
  BY <1>1 DEF Drained, Reported, At, Status
<1>5. PendingExact'
  BY <1>1 DEF PendingExact, At, TypeOK
<1> QED BY <1>2, <1>3, <1>4, <1>5

\* The types of what the parent writes.
ParentOK == parent \in [requested : BOOLEAN, generation : 0..MaxGeneration,
                        context : 0..MaxContext,
                        error : {"none", "metadata", "control", "worker", "timeout"},
                        stage : {"open", "closing", "closed", "dead"},
                        left : SUBSET {"count", "control", "record", "report"}]
ControlOK == control \in [generation : 0..MaxGeneration + 1, enabled : BOOLEAN,
                          stop : BOOLEAN]

\* What the parent may change of itself, the control and the reports: the rest
\* of the invariant is about the queue and the worker.
LEMMA ParentStep ==
  ASSUME IInv, UNCHANGED <<lock, pending, records, accepted, worker>>,
         ParentOK', ControlOK', reports' \in Seq(Report), Len(reports') <= ReportCap,
         seen' \in Report, ControlFollows', StopFollows', Drained', Reported'
  PROVE  IInv'
<1>1. TypeOK'
  BY DEF TypeOK, IInv, ParentOK, ControlOK
<1>2. (Accounted /\ PendingExact /\ Room /\ Numbered /\ Hand)'
  BY DEF IInv, Accounted, InHand, PendingExact, At, Room, Numbered, Hand
<1> QED BY <1>1, <1>2 DEF IInv

\* A new context is still within its bound.
LEMMA NewContextStep == ASSUME ExportAssumption, IInv, NewContext PROVE IInv'
<1>1. parent' = [parent EXCEPT !.context = @ + 1] /\ ParentOK /\ ControlOK
      /\ parent.context < MaxContext /\ parent.context \in Nat
      /\ UNCHANGED <<lock, control, pending, records, accepted, worker, reports, seen>>
  BY DEF NewContext, IInv, TypeOK, ParentOK, ControlOK, ExportAssumption
<1>2. parent.context + 1 \in 0..MaxContext
  BY <1>1 DEF ExportAssumption
<1>3. /\ ParentOK' /\ parent'.stage = parent.stage /\ parent'.error = parent.error
      /\ parent'.generation = parent.generation
  BY <1>1, <1>2 DEF ParentOK
<1>4. ControlOK' /\ (ControlFollows /\ StopFollows /\ Drained /\ Reported)'
  BY <1>1, <1>3 DEF ControlOK, IInv, ControlFollows, StopFollows, Drained, Reported, At,
     Alive, Status
<1> QED BY <1>1, <1>3, <1>4, ParentStep DEF IInv, TypeOK

\* The branch that a bad block ends may tell the worker with a generation
\* beyond its own; the error says that it did.
LEMMA BadBlockStep == ASSUME ExportAssumption, IInv, BadBlock PROVE IInv'
<1>1. /\ parent' = [parent EXCEPT !.error = "metadata"] /\ ParentOK /\ ControlOK
      /\ parent.stage = "open" /\ parent.error = "none" /\ ControlFollows
      /\ UNCHANGED <<lock, pending, records, accepted, worker, reports, seen>>
  BY DEF BadBlock, Exporting, Serving, IInv, TypeOK, ParentOK, ControlOK
<1>2. /\ ParentOK' /\ parent'.stage = "open" /\ parent'.error = "metadata"
  BY <1>1 DEF ParentOK
<1>3. control.generation + 1 \in 0..MaxGeneration + 1
  BY <1>1 DEF ParentOK, ControlOK, ControlFollows, ExportAssumption
<1>4. ControlOK' /\ control'.stop = control.stop
  <2>1. CASE UNCHANGED control
    BY <1>1, <2>1 DEF ControlOK
  <2>2. CASE control' = [control EXCEPT !.generation = @ + 1, !.enabled = FALSE]
    BY <1>1, <1>3, <2>2 DEF ControlOK
  <2> QED BY <2>1, <2>2 DEF BadBlock
<1>5. (ControlFollows /\ StopFollows /\ Drained /\ Reported)'
  BY <1>1, <1>2, <1>4 DEF IInv, ControlFollows, StopFollows, Drained, Reported, At,
     Alive, Status
<1> QED BY <1>1, <1>2, <1>4, <1>5, ParentStep DEF IInv, TypeOK

\* Switching sets the control to the new generation, or to nothing and an error.
LEMMA SetEnabledStep == ASSUME ExportAssumption, IInv, SetEnabled PROVE IInv'
<1> DEFINE p == [parent EXCEPT !.requested = ~@, !.generation = @ + 1]
<1>1. /\ ParentOK /\ ControlOK /\ parent.stage = "open"
      /\ parent.generation < MaxGeneration /\ parent.generation \in Nat
      /\ UNCHANGED <<lock, pending, records, accepted, worker, reports, seen>>
  BY DEF SetEnabled, Serving, IInv, TypeOK, ParentOK, ControlOK, ExportAssumption
<1>2. parent.generation + 1 \in 0..MaxGeneration /\ parent.generation + 1 \in 0..MaxGeneration + 1
  BY <1>1 DEF ExportAssumption
<1>3. /\ p \in [requested : BOOLEAN, generation : 0..MaxGeneration,
                context : 0..MaxContext,
                error : {"none", "metadata", "control", "worker", "timeout"},
                stage : {"open", "closing", "closed", "dead"},
                left : SUBSET {"count", "control", "record", "report"}]
      /\ p.generation = parent.generation + 1 /\ p.stage = "open" /\ p.requested \in BOOLEAN
  BY <1>1, <1>2 DEF ParentOK
<1>4. ParentOK' /\ parent'.stage = "open" /\ ControlOK' /\ control'.stop = control.stop
      /\ ControlFollows'
  <2>1. CASE parent' = p /\ control' = [control EXCEPT !.generation = p.generation,
                                                       !.enabled = p.requested]
    <3>1. /\ control' \in [generation : 0..MaxGeneration + 1, enabled : BOOLEAN, stop : BOOLEAN]
          /\ control'.stop = control.stop /\ control'.generation = parent'.generation
      BY <1>1, <1>2, <1>3, <2>1 DEF ControlOK
    <3>2. parent'.generation \in Nat
      BY <1>1, <1>3, <2>1
    <3> QED BY <1>3, <2>1, <3>1, <3>2 DEF ParentOK, ControlOK, ControlFollows
  <2>2. CASE parent' = [p EXCEPT !.error = "control"] /\ UNCHANGED control
    <3> HIDE DEF p
    <3>1. ParentOK' /\ parent'.stage = "open" /\ parent'.error = "control"
      BY <1>3, <2>2 DEF ParentOK
    <3> QED BY <1>1, <2>2, <3>1 DEF ControlOK, ControlFollows
  <2> QED BY <2>1, <2>2 DEF SetEnabled
<1>5. (StopFollows /\ Drained /\ Reported)'
  BY <1>1, <1>4 DEF IInv, StopFollows, Drained, Reported, At, Alive, Status
<1> QED BY <1>1, <1>4, <1>5, ParentStep DEF IInv, TypeOK

\* What is left after the first k reports, and the newest of it.
LEMMA TakesFirst ==
  ASSUME reports \in Seq(Report), seen \in Report, NEW k \in 0..Len(reports), Takes(k)
  PROVE  /\ reports' \in Seq(Report) /\ seen' \in Report
         /\ Len(reports) \in Nat /\ Len(reports') = Len(reports) - k
         /\ \A i \in 1..Len(reports') : reports'[i] = reports[i + k]
         /\ k = Len(reports) <=> reports' = << >>
         /\ reports = << >> => seen' = seen
         /\ k = Len(reports) /\ reports # << >> => seen' = Last(reports)
         /\ k # Len(reports) => Last(reports') = Last(reports)
<1> DEFINE n == Len(reports)
<1>1. n \in Nat /\ (n = 0 <=> reports = << >>) /\ \A i \in 1..n : reports[i] \in Report
  OBVIOUS
<1>2. /\ reports' \in Seq(Report) /\ Len(reports') = n - k
      /\ \A i \in 1..Len(reports') : reports'[i] = reports[i + k]
  BY <1>1 DEF Takes
<1>3. Len(reports') = 0 <=> reports' = << >>
  BY <1>2
<1>4. seen' \in Report /\ (k = 0 => seen' = seen) /\ (k # 0 => seen' = reports[k])
  BY <1>1 DEF Takes
<1>5. k # n => Last(reports') = Last(reports)
  <2> SUFFICES ASSUME k # n PROVE Last(reports') = Last(reports)
    OBVIOUS
  <2>1. n - k \in 1..Len(reports') /\ (n - k) + k = n
    BY <1>1, <1>2
  <2>2. reports'[n - k] = reports[n]
    BY <1>2, <2>1
  <2> QED BY <1>2, <2>2 DEF Last
<1>6. k = n /\ reports # << >> => seen' = Last(reports)
  BY <1>1, <1>4 DEF Last
<1> QED BY <1>1, <1>2, <1>3, <1>4, <1>5, <1>6

\* read() takes reports over, or finds the worker dead.
LEMMA ReadStep == ASSUME ExportAssumption, IInv, Read PROVE IInv'
<1>1. /\ ParentOK /\ ControlOK /\ ControlFollows /\ parent.stage \in {"open", "closing"}
      /\ reports \in Seq(Report) /\ Len(reports) <= ReportCap /\ seen \in Report
      /\ UNCHANGED <<lock, control, pending, records, accepted, worker>>
  BY DEF Read, IInv, TypeOK, ParentOK, ControlOK
<1>2. CASE parent.stage = "open" /\ ~Alive
  <2>1. parent' = [parent EXCEPT !.error = IF @ = "none" THEN "worker" ELSE @]
        /\ UNCHANGED <<reports, seen>>
    BY <1>2 DEF Read
  <2>2. /\ ParentOK' /\ parent'.stage = parent.stage /\ parent'.error # "none"
    BY <1>1, <2>1 DEF ParentOK
  <2>3. ControlOK' /\ (ControlFollows /\ StopFollows /\ Drained /\ Reported)'
    BY <1>1, <2>1, <2>2 DEF ControlOK, IInv, ControlFollows, StopFollows, Drained, Reported,
       At, Alive, Status
  <2> QED BY <1>1, <2>1, <2>2, <2>3, ParentStep
<1>3. CASE ~(parent.stage = "open" /\ ~Alive)
  <2>0. PICK k \in 1..Len(reports) : Takes(k)
    BY <1>3 DEF Read
  <2>4. UNCHANGED parent /\ k \in 0..Len(reports) /\ reports # << >>
    BY <1>1, <1>3 DEF Read
  <2>5. /\ reports' \in Seq(Report) /\ seen' \in Report
        /\ Len(reports) \in Nat /\ Len(reports') = Len(reports) - k
        /\ k = Len(reports) <=> reports' = << >>
        /\ k = Len(reports) => seen' = Last(reports)
        /\ k # Len(reports) => Last(reports') = Last(reports)
    BY <1>1, <2>0, <2>4, TakesFirst
  <2>1. /\ UNCHANGED parent /\ reports # << >>
        /\ reports' = << >> => seen' = Last(reports)
        /\ reports' # << >> => Last(reports') = Last(reports)
    BY <2>4, <2>5
  <2>2. reports' \in Seq(Report) /\ Len(reports') <= ReportCap /\ seen' \in Report
    BY <1>1, <2>0, <2>5 DEF ReportCap
  <2>3. ParentOK' /\ ControlOK' /\ (ControlFollows /\ StopFollows /\ Drained /\ Reported)'
    BY <1>1, <2>1 DEF ParentOK, ControlOK, IInv, ControlFollows, StopFollows, Drained,
       Reported, At, Alive, Status
  <2> QED BY <1>1, <2>2, <2>3, ParentStep
<1> QED BY <1>2, <1>3

\* close() starts: nothing is queued from now on.
LEMMA CloseStep == ASSUME ExportAssumption, IInv, Close PROVE IInv'
<1>1. /\ ParentOK /\ ControlOK /\ parent.stage = "open"
      /\ parent' = [parent EXCEPT !.stage = "closing"]
      /\ UNCHANGED <<lock, pending, records, accepted, worker, reports, seen>>
  BY DEF Close, Serving, IInv, TypeOK, ParentOK, ControlOK
<1>2. /\ ParentOK' /\ parent'.stage = "closing" /\ parent'.error = parent.error
      /\ parent'.generation = parent.generation
  BY <1>1 DEF ParentOK
<1>3. ControlOK' /\ control'.generation = control.generation
      /\ (control.stop => control'.stop)
  <2>1. CASE control' = [control EXCEPT !.stop = TRUE]
    BY <1>1, <2>1 DEF ControlOK
  <2>2. CASE UNCHANGED control
    BY <1>1, <2>2 DEF ControlOK
  <2> QED BY <2>1, <2>2 DEF Close
<1>4. (ControlFollows /\ StopFollows /\ Drained /\ Reported)'
  BY <1>1, <1>2, <1>3 DEF IInv, ControlFollows, StopFollows, Drained, Reported, At, Alive,
     Status
<1> QED BY <1>1, <1>2, <1>3, <1>4, ParentStep DEF IInv, TypeOK

\* The last read takes over the last report.
LEMMA CloseEndsStep == ASSUME ExportAssumption, IInv, CloseEnds PROVE IInv'
<1>1. /\ ParentOK /\ ControlOK /\ parent.stage = "closing" /\ At("exited")
      /\ parent' = [parent EXCEPT !.stage = "closed"]
      /\ reports \in Seq(Report) /\ seen \in Report
      /\ UNCHANGED <<lock, control, pending, records, accepted, worker>>
      /\ Takes(Len(reports)) /\ Len(reports) \in 0..Len(reports)
  BY DEF CloseEnds, IInv, TypeOK, ParentOK, ControlOK
<1>2. /\ ParentOK' /\ parent'.stage = "closed" /\ parent'.error = parent.error
      /\ parent'.generation = parent.generation
  BY <1>1 DEF ParentOK
<1>5. /\ reports' \in Seq(Report) /\ seen' \in Report
      /\ Len(reports) \in Nat /\ Len(reports') = Len(reports) - Len(reports)
      /\ reports' = << >> /\ (reports = << >> => seen' = seen)
      /\ (reports # << >> => seen' = Last(reports))
  BY <1>1, TakesFirst
<1>3. reports' \in Seq(Report) /\ Len(reports') <= ReportCap /\ seen' \in Report
  BY <1>5 DEF ReportCap
<1>4. ControlOK' /\ (ControlFollows /\ StopFollows /\ Drained /\ Reported)'
  BY <1>1, <1>2, <1>5 DEF ControlOK, IInv, ControlFollows, StopFollows, Drained, Reported, At,
     Alive, Status
<1> QED BY <1>1, <1>2, <1>3, <1>4, ParentStep

\* A killed worker is no exited one: nothing is said of its reports.
LEMMA CloseFindsDeadStep == ASSUME ExportAssumption, IInv, CloseFindsDead PROVE IInv'
<1>1. /\ ParentOK /\ ControlOK /\ parent.stage = "closing" /\ At("killed")
      /\ parent' = [parent EXCEPT !.stage = "closed",
                                  !.error = IF @ = "none" THEN "worker" ELSE @]
      /\ UNCHANGED <<lock, control, pending, records, accepted, worker, reports, seen>>
  BY DEF CloseFindsDead, IInv, TypeOK, ParentOK, ControlOK
<1>2. ParentOK' /\ parent'.stage = "closed" /\ parent'.error # "none"
  BY <1>1 DEF ParentOK
<1>3. ControlOK' /\ (ControlFollows /\ StopFollows /\ Drained /\ Reported)'
  BY <1>1, <1>2 DEF ControlOK, IInv, ControlFollows, StopFollows, Drained, Reported, At,
     Alive, Status
<1> QED BY <1>1, <1>2, <1>3, ParentStep DEF IInv, TypeOK

-----------------------------------------------------------------------------
(* The worker's steps.                                                     *)

\* Counts that still add up are still in their bounds.
LEMMA StaysTight ==
  ASSUME ExportAssumption, IInv, UNCHANGED accepted, worker' \in Loose,
         records' \in Seq(Packet),
         Len(records') + InHand' + Held(worker') = Len(records) + InHand + Held(worker)
  PROVE  /\ worker' \in Worker(0..MaxPackets) /\ Accounted'
         /\ [exported |-> worker'.exported, skipped |-> worker'.skipped] \in Report
<1>1. /\ worker \in Worker(0..MaxPackets) /\ records \in Seq(Packet) /\ Accounted
      /\ accepted \in 0..MaxPackets
  BY DEF IInv, TypeOK
<1>2. Held(worker') \in Nat /\ InHand' \in Nat /\ Len(records') \in Nat
  <2>1. InHand' \in Nat
    BY DEF InHand
  <2>2. Len(records') \in Nat
    OBVIOUS
  <2> QED BY <2>1, <2>2, HeldType
<1>3. accepted = Len(records') + InHand' + Held(worker')
  BY <1>1 DEF Accounted
<1>4. Held(worker') <= MaxPackets
  BY <1>1, <1>2, <1>3 DEF ExportAssumption
<1> QED BY <1>3, <1>4, TightType DEF Accounted

\* A step of the worker that leaves the queue alone and has no packet to give
\* back before or after it.
LEMMA LoopStep ==
  ASSUME ExportAssumption, IInv,
         UNCHANGED <<parent, lock, control, pending, records, accepted, seen>>,
         worker' \in Loose, InHand' + Held(worker') = InHand + Held(worker),
         worker.pc \notin {"got", "exited", "killed"}, worker'.pc \notin {"got", "killed"},
         worker'.stop => control.stop, Hand', Drained',
         reports' \in Seq(Report), Len(reports') <= ReportCap,
         worker'.told = worker.told \/ Reported'
  PROVE  IInv'
<1>1. Len(records) \in Nat /\ InHand \in Nat /\ InHand' \in Nat /\ Held(worker) \in Nat
      /\ records \in Seq(Packet)
  BY LooseType, HandCount DEF IInv, TypeOK, InHand
<1>2. Held(worker') \in Nat
  BY HeldType
<1>3. Len(records') + InHand' + Held(worker') = Len(records) + InHand + Held(worker)
  <2> DEFINE queued == Len(records)
  <2>1. queued \in Nat /\ Len(records') = queued
    BY <1>1
  <2> HIDE DEF queued
  <2>2. queued + InHand' + Held(worker') = queued + (InHand' + Held(worker'))
    BY <1>1, <1>2, <2>1
  <2>3. queued + InHand + Held(worker) = queued + (InHand + Held(worker))
    BY <1>1, <1>2, <2>1
  <2> QED BY <2>1, <2>2, <2>3 DEF queued
<1>4. worker' \in Worker(0..MaxPackets) /\ Accounted'
  BY <1>1, <1>3, StaysTight
<1>5. TypeOK'
  BY <1>4 DEF IInv, TypeOK
<1>6. (PendingExact /\ Room /\ Numbered /\ ControlFollows)'
  BY DEF IInv, PendingExact, At, Room, Numbered, ControlFollows
<1>7. StopFollows' /\ Reported'
  BY DEF IInv, StopFollows, Alive, At, Reported
<1> QED BY <1>4, <1>5, <1>6, <1>7 DEF IInv

\* synchronize() touches neither storage nor packet.
LEMMA SynchronizedKeeps ==
  ASSUME NEW w \in Loose, ControlOK
  PROVE  /\ Synchronized(w) \in Loose /\ Held(Synchronized(w)) = Held(w)
         /\ SamePlace(w, Synchronized(w))
<1>1. CASE control.generation = w.generation
  BY <1>1 DEF Synchronized, SamePlace
<1>2. CASE control.generation # w.generation
  <2>1. Synchronized(w) = [w EXCEPT !.generation = control.generation,
                                    !.enabled = control.enabled,
                                    !.error = @ /\ ~control.enabled]
    BY <1>2 DEF Synchronized
  <2>2. control.generation \in -1..MaxGeneration + 1 /\ control.enabled \in BOOLEAN
    BY DEF ControlOK
  <2>3. /\ Synchronized(w) \in Loose
        /\ Synchronized(w).segment = w.segment /\ Synchronized(w).exported = w.exported
        /\ Synchronized(w).skipped = w.skipped /\ SamePlace(w, Synchronized(w))
    BY <2>1, <2>2 DEF Loose, Worker, SamePlace
  <2> QED BY <2>3 DEF Held
<1> QED BY <1>1, <1>2

\* What every step of the worker starts from.
LEMMA WorkerFacts ==
  ASSUME ExportAssumption, IInv
  PROVE  /\ worker \in Loose /\ ControlOK /\ Hand /\ Held(worker) \in Nat
         /\ reports \in Seq(Report) /\ Len(reports) <= ReportCap
         /\ worker.stop => control.stop
         /\ worker.epoch \in -1..MaxGeneration /\ worker.failed \in -1..MaxGeneration
<1>1. worker \in Worker(0..MaxPackets)
  BY DEF IInv, TypeOK
<1>2. worker \in Loose /\ Held(worker) \in Nat
  BY <1>1, LooseType
<1> QED BY <1>2 DEF IInv, TypeOK, ControlOK, StopFollows, Loose, Worker

\* The stop that the worker sees is the one in the control.
LEMMA SyncStep == ASSUME ExportAssumption, IInv, Sync PROVE IInv'
<1> DEFINE w == [Synchronized(worker) EXCEPT !.stop = control.stop]
<1>1. worker \in Loose /\ ControlOK /\ Hand /\ worker.pc = "sync"
  BY WorkerFacts DEF Sync, At
<1>2. Synchronized(worker) \in Loose /\ Held(Synchronized(worker)) = Held(worker)
      /\ SamePlace(worker, Synchronized(worker))
  BY <1>1, SynchronizedKeeps
<1>3. /\ w \in Loose /\ w.segment = Synchronized(worker).segment
      /\ w.exported = Synchronized(worker).exported
      /\ w.skipped = Synchronized(worker).skipped
      /\ w.packet = worker.packet /\ w.stop = control.stop /\ w.told = worker.told
  BY <1>1, <1>2 DEF Loose, Worker, ControlOK, SamePlace
<1>4. Held(w) = Held(worker)
  BY <1>2, <1>3 DEF Held
<1>5. worker' = [w EXCEPT !.pc = "get"]
      /\ UNCHANGED <<parent, lock, control, pending, records, accepted, reports, seen>>
  BY DEF Sync, Becomes
<1> HIDE DEF w
<1>6. /\ worker' \in Loose /\ Held(worker') = Held(worker) /\ worker'.pc = "get"
      /\ worker'.stop = control.stop /\ worker'.packet = worker.packet /\ worker'.told = worker.told
  BY <1>3, <1>4, <1>5, Moves
<1>7. Hand' /\ Drained' /\ InHand' = InHand
  BY <1>1, <1>6 DEF Hand, Drained, InHand
<1> QED BY <1>1, <1>5, <1>6, <1>7, LoopStep, WorkerFacts

\* An empty wait changes nothing else.
LEMMA GetNothingStep == ASSUME ExportAssumption, IInv, GetNothing PROVE IInv'
<1>1. worker \in Loose /\ Hand /\ worker.pc = "get" /\ worker' = [worker EXCEPT !.pc = "empty"]
      /\ UNCHANGED <<parent, lock, control, pending, records, accepted, reports, seen>>
      /\ (worker.stop => control.stop)
  BY WorkerFacts DEF GetNothing, At, Becomes
<1>2. /\ worker' \in Loose /\ Held(worker') = Held(worker) /\ worker'.pc = "empty"
      /\ worker'.stop = worker.stop /\ worker'.packet = worker.packet /\ worker'.told = worker.told
  BY <1>1, Moves
<1>3. Hand' /\ Drained' /\ InHand' = InHand
  BY <1>1, <1>2 DEF Hand, Drained, InHand
<1> QED BY <1>1, <1>2, <1>3, LoopStep, WorkerFacts

\* The packet in hand is stored or skipped, once.
LEMMA StoreStep == ASSUME ExportAssumption, IInv, Store PROVE IInv'
<1>1. worker \in Loose /\ ControlOK /\ Hand /\ worker.pc = "write" /\ Held(worker) \in Nat
      /\ UNCHANGED <<parent, lock, control, pending, records, accepted, reports, seen>>
      /\ (worker.stop => control.stop)
  BY WorkerFacts DEF Store, At
<1> DEFINE s == Synchronized(worker)
<1>2. s \in Loose /\ Held(s) = Held(worker) /\ SamePlace(worker, s)
  BY <1>1, SynchronizedKeeps
<1> HIDE DEF s
<1>3. PICK w \in Stores(s, s.packet) : worker' = [w EXCEPT !.pc = "rest"]
  BY <1>2 DEF Store, Becomes, SamePlace, s
<1>4. w \in Loose /\ Held(w) = Held(s) + 1 /\ w.packet = NoPacket /\ w.stop = s.stop /\ w.told = s.told
  BY <1>2, <1>3, StoresCount
<1>5. /\ worker' \in Loose /\ Held(worker') = Held(worker) + 1 /\ worker'.pc = "rest"
      /\ worker'.stop = worker.stop /\ worker'.packet = NoPacket /\ worker'.told = worker.told
  BY <1>2, <1>3, <1>4, Moves DEF SamePlace
<1>6. Hand' /\ Drained' /\ InHand' = 0 /\ InHand = 1
  BY <1>1, <1>5 DEF Hand, Drained, InHand
<1>7. InHand' + Held(worker') = InHand + Held(worker)
  BY <1>1, <1>5, <1>6
<1> QED BY <1>1, <1>5, <1>6, <1>7, LoopStep, WorkerFacts

\* With the lock free, nothing pending means nothing queued.
LEMMA EmptyStep == ASSUME ExportAssumption, IInv, Empty PROVE IInv'
<1>1. worker \in Loose /\ Hand /\ worker.pc = "empty" /\ ~lock
      /\ UNCHANGED <<parent, lock, control, pending, records, accepted, reports, seen>>
      /\ (worker.stop => control.stop) /\ worker.epoch \in -1..MaxGeneration
  BY WorkerFacts DEF Empty, At, MayCount
<1>2. pending = 0 => records = << >>
  <2>1. pending = Len(records) /\ records \in Seq(Packet)
    BY <1>1 DEF IInv, TypeOK, PendingExact, At
  <2>2. Len(records) = 0 => records = << >>
    BY <2>1
  <2> QED BY <2>1, <2>2
<1> DEFINE next == IF Leaves(pending = 0) THEN "leave" ELSE "rest"
<1>3. \E w \in {worker, Finish(worker)} \cup Failures(worker, worker.epoch),
         pc \in {next, "rest"} : worker' = [w EXCEPT !.pc = pc]
  BY DEF Empty, Becomes
<1>4. next \in {"leave", "rest"}
      /\ (next = "leave" /\ parent.stage # "dead" => worker.stop /\ pending = 0)
  BY DEF Leaves, Orphaned
<1> HIDE DEF next
<1>5. PICK w \in {worker, Finish(worker)} \cup Failures(worker, worker.epoch) :
        \E pc \in {next, "rest"} : worker' = [w EXCEPT !.pc = pc]
  BY <1>3
<1>6. PICK pc \in {next, "rest"} : worker' = [w EXCEPT !.pc = pc]
  BY <1>5
<1>7. w \in Loose /\ Held(w) = Held(worker) /\ SamePlace(worker, w)
  BY <1>1, FinishKeeps, FailuresKeep DEF SamePlace
<1>8. /\ worker' \in Loose /\ Held(worker') = Held(worker) /\ worker'.pc = pc
      /\ worker'.stop = worker.stop /\ worker'.packet = worker.packet /\ worker'.told = worker.told
  <2>1. pc \in {"leave", "rest"}
    BY <1>4, <1>6
  <2>2. CASE pc = "leave"
    <3>1. worker' = [w EXCEPT !.pc = "leave"]
      BY <1>6, <2>2
    <3> QED BY <1>7, <2>2, <3>1, Moves DEF SamePlace
  <2>3. CASE pc = "rest"
    <3>1. worker' = [w EXCEPT !.pc = "rest"]
      BY <1>6, <2>3
    <3> QED BY <1>7, <2>3, <3>1, Moves DEF SamePlace
  <2> QED BY <2>1, <2>2, <2>3
<1>9. Hand' /\ InHand' = InHand
  BY <1>1, <1>4, <1>8 DEF Hand, InHand
<1>10. Drained'
  BY <1>1, <1>2, <1>4, <1>8 DEF Drained, IInv, StopFollows
<1> QED BY <1>1, <1>4, <1>8, <1>9, <1>10, LoopStep, WorkerFacts

\* A report is of counts that add up.
LEMMA RestStep == ASSUME ExportAssumption, IInv, Rest PROVE IInv'
<1>1. worker \in Loose /\ Hand /\ worker.pc = "rest" /\ Held(worker) \in Nat
      /\ UNCHANGED <<parent, lock, control, pending, records, accepted, seen>>
      /\ (worker.stop => control.stop) /\ worker.epoch \in -1..MaxGeneration
      /\ reports \in Seq(Report) /\ Len(reports) <= ReportCap
  BY WorkerFacts DEF Rest, At
<1>2. PICK w \in {worker, CloseSegment(worker)} \cup Failures(worker, worker.epoch) :
        worker' = [w EXCEPT !.pc = "sync"]
  BY DEF Rest, Becomes
<1>3. w \in Loose /\ Held(w) = Held(worker) /\ SamePlace(worker, w)
  BY <1>1, CloseSegmentKeeps, FailuresKeep DEF SamePlace
<1>4. /\ worker' \in Loose /\ Held(worker') = Held(worker) /\ worker'.pc = "sync"
      /\ worker'.stop = worker.stop /\ worker'.packet = worker.packet /\ worker'.told = worker.told
  BY <1>2, <1>3, Moves DEF SamePlace
<1>5. Hand' /\ Drained' /\ InHand' = InHand
  BY <1>1, <1>4 DEF Hand, Drained, InHand
<1>6. reports' \in Seq(Report) /\ Len(reports') <= ReportCap
  <2> DEFINE report == [exported |-> worker'.exported, skipped |-> worker'.skipped]
  <2>1. report \in Report
    BY <1>1, <1>4, <1>5, StaysTight DEF IInv, TypeOK
  <2>2. CASE UNCHANGED reports
    BY <1>1, <2>2
  <2>3. CASE Len(reports) < ReportCap /\ reports' = Append(reports, report)
    <3> HIDE DEF report
    <3> QED BY <1>1, <2>1, <2>3 DEF ReportCap
  <2> QED BY <2>2, <2>3 DEF Rest
<1> QED BY <1>1, <1>4, <1>5, <1>6, LoopStep

\* The last segment is closed or given up: its packets stay counted.
LEMMA LeaveStep == ASSUME ExportAssumption, IInv, Leave PROVE IInv'
<1>1. worker \in Loose /\ Hand /\ worker.pc = "leave"
      /\ UNCHANGED <<parent, lock, control, pending, records, accepted, seen>>
      /\ (worker.stop => control.stop) /\ worker.failed \in -1..MaxGeneration
      /\ reports \in Seq(Report) /\ Len(reports) <= ReportCap
  BY WorkerFacts DEF Leave, At
<1>2. PICK w \in {Finish(worker)} \cup Failures(worker, worker.failed) :
        worker' = [[w EXCEPT !.enabled = FALSE] EXCEPT !.pc = "final"]
  BY DEF Leave, Becomes
<1>3. w \in Loose /\ Held(w) = Held(worker) /\ SamePlace(worker, w)
  BY <1>1, FinishKeeps, FailuresKeep
<1> DEFINE x == [w EXCEPT !.enabled = FALSE]
<1>4. /\ x \in Loose /\ x.segment = w.segment /\ x.exported = w.exported
      /\ x.skipped = w.skipped /\ x.packet = worker.packet /\ x.stop = worker.stop
      /\ x.told = worker.told
  BY <1>3 DEF Loose, Worker, SamePlace
<1>5. Held(x) = Held(worker) /\ worker' = [x EXCEPT !.pc = "final"]
  BY <1>2, <1>3, <1>4 DEF Held
<1> HIDE DEF x
<1>6. /\ worker' \in Loose /\ Held(worker') = Held(worker) /\ worker'.pc = "final"
      /\ worker'.stop = worker.stop /\ worker'.packet = worker.packet /\ worker'.told = worker.told
  BY <1>4, <1>5, Moves
<1>7. Hand' /\ Drained' /\ InHand' = InHand
  BY <1>1, <1>6 DEF Hand, Drained, InHand, IInv
<1>8. reports' \in Seq(Report) /\ Len(reports') <= ReportCap
  <2>1. PICK k \in 0..Len(reports) : reports' = SubSeq(reports, k + 1, Len(reports))
    BY DEF Leave
  <2> QED BY <1>1, <2>1 DEF ReportCap
<1> QED BY <1>1, <1>6, <1>7, <1>8, LoopStep

\* The last report is delivered, unless there is nobody left to read it.
LEMMA LastReportStep == ASSUME ExportAssumption, IInv, LastReport PROVE IInv'
<1>1. worker \in Loose /\ Hand /\ worker.pc = "final"
      /\ UNCHANGED <<parent, lock, control, pending, records, accepted, seen>>
      /\ (worker.stop => control.stop) /\ Held(worker) \in Nat
      /\ reports \in Seq(Report) /\ Len(reports) <= ReportCap
  BY WorkerFacts DEF LastReport, At
<1>2. PICK told \in BOOLEAN :
        /\ worker' = [[worker EXCEPT !.told = told] EXCEPT !.pc = "exited"]
        /\ told => Len(reports) < ReportCap /\ reports' = Append(reports, Status)
        /\ ~told => UNCHANGED reports
  <2>1. CASE /\ Len(reports) < ReportCap
             /\ reports' = Append(reports, Status)
             /\ Becomes([worker EXCEPT !.told = TRUE], "exited")
    BY <2>1 DEF Becomes
  <2>2. CASE Becomes(worker, "exited") /\ UNCHANGED reports
    <3>1. worker.told = FALSE
      BY <1>1 DEF IInv, Reported, Loose, Worker
    <3>2. worker = [worker EXCEPT !.told = FALSE]
      BY <1>1, <3>1 DEF Loose, Worker
    <3> QED BY <2>2, <3>2 DEF Becomes
  <2> QED BY <2>1, <2>2 DEF LastReport
<1> DEFINE x == [worker EXCEPT !.told = told]
<1>3. /\ x \in Loose /\ x.segment = worker.segment /\ x.exported = worker.exported
      /\ x.skipped = worker.skipped /\ x.packet = worker.packet /\ x.stop = worker.stop
      /\ x.told = told
  BY <1>1, <1>2 DEF Loose, Worker
<1>4. Held(x) = Held(worker)
  BY <1>3 DEF Held
<1>5. worker' = [x EXCEPT !.pc = "exited"]
  BY <1>2
<1> HIDE DEF x
<1>6. /\ worker' \in Loose /\ Held(worker') = Held(worker) /\ worker'.pc = "exited"
      /\ worker'.stop = worker.stop /\ worker'.packet = worker.packet
      /\ worker'.exported = worker.exported /\ worker'.skipped = worker.skipped
      /\ worker'.told = told
  BY <1>3, <1>4, <1>5, Moves
<1>7. Hand' /\ Drained' /\ InHand' = InHand
  BY <1>1, <1>6 DEF Hand, Drained, InHand, IInv
<1>8. Status \in Report
  BY <1>1, <1>6, <1>7, StaysTight, LooseType DEF IInv, TypeOK, Status
<1>9. parent.stage # "closed"
  BY <1>1 DEF IInv, StopFollows, Alive, At
<1>10. reports' \in Seq(Report) /\ Len(reports') <= ReportCap /\ Reported'
  <2>1. CASE told
    <3> DEFINE report == Status
    <3>1. report \in Report /\ reports' = Append(reports, report) /\ report = Status'
          /\ Len(reports) < ReportCap
      BY <1>2, <1>6, <1>8, <2>1 DEF Status
    <3> HIDE DEF report
    <3>2. /\ reports' \in Seq(Report) /\ Len(reports') = Len(reports) + 1
          /\ reports'[Len(reports')] = report
      BY <1>1, <3>1
    <3>3. reports' # << >> /\ Len(reports') <= ReportCap
      BY <1>1, <3>1, <3>2 DEF ReportCap
    <3>4. Last(reports') = Status'
      BY <3>1, <3>2 DEF Last
    <3> QED BY <1>1, <1>6, <1>9, <3>2, <3>3, <3>4 DEF Reported
  <2>2. CASE ~told
    BY <1>1, <1>2, <1>6, <2>2 DEF Reported
  <2> QED BY <2>1, <2>2
<1> QED BY <1>1, <1>6, <1>7, <1>10, LoopStep

\* A packet leaves the queue for the worker's hand.
LEMMA GetStep == ASSUME ExportAssumption, IInv, Get PROVE IInv'
<1>1. worker \in Loose /\ Hand /\ worker.pc = "get" /\ Held(worker) \in Nat
      /\ UNCHANGED <<parent, lock, control, pending, accepted, reports, seen>>
      /\ records \in Seq(Packet) /\ records # << >> /\ records' = Tail(records)
      /\ Len(records) <= QueueCap /\ Numbered /\ PendingExact
  BY WorkerFacts DEF Get, At, IInv, TypeOK
<1>2. /\ Len(records) \in Nat /\ Len(records) # 0 /\ Head(records) = records[1]
      /\ Head(records) \in Packet /\ records' \in Seq(Packet)
      /\ Len(records') = Len(records) - 1
      /\ \A i \in 1..Len(records') : records'[i] = records[i + 1]
  BY <1>1
<1>3. Head(records) # NoPacket
  BY <1>1, <1>2 DEF Numbered
<1> DEFINE x == [worker EXCEPT !.packet = Head(records)]
<1>4. worker' = [x EXCEPT !.pc = "got"]
  BY DEF Get, Becomes
<1>5. /\ x \in Loose /\ x.segment = worker.segment /\ x.exported = worker.exported
      /\ x.skipped = worker.skipped /\ x.packet = Head(records) /\ x.stop = worker.stop
      /\ x.told = worker.told
  BY <1>1, <1>2 DEF Loose, Worker
<1>6. Held(x) = Held(worker)
  BY <1>5 DEF Held
<1> HIDE DEF x
<1>7. /\ worker' \in Loose /\ Held(worker') = Held(worker) /\ worker'.pc = "got"
      /\ worker'.stop = worker.stop /\ worker'.packet = Head(records) /\ worker'.told = worker.told
  BY <1>4, <1>5, <1>6, Moves
<1>8. InHand = 0 /\ InHand' = 1
  BY <1>1, <1>3, <1>7 DEF Hand, InHand
<1>9. Len(records') + InHand' + Held(worker') = Len(records) + InHand + Held(worker)
  BY <1>1, <1>2, <1>7, <1>8
<1>10. worker' \in Worker(0..MaxPackets) /\ Accounted'
  BY <1>1, <1>2, <1>7, <1>9, StaysTight
<1>11. TypeOK'
  <2>1. Len(records') <= QueueCap
    BY <1>1, <1>2 DEF ExportAssumption
  <2> QED BY <1>1, <1>2, <1>10, <2>1 DEF IInv, TypeOK
<1>12. PendingExact'
  BY <1>1, <1>2, <1>7 DEF PendingExact, At
<1>13. Numbered'
  BY <1>1, <1>2 DEF Numbered
<1>14. Hand' /\ StopFollows' /\ Drained' /\ Reported' /\ Room' /\ ControlFollows'
  BY <1>1, <1>3, <1>7 DEF IInv, Hand, StopFollows, Alive, At, Drained, Reported, Room,
     ControlFollows
<1> QED BY <1>10, <1>11, <1>12, <1>13, <1>14 DEF IInv

\* Its weight leaves the shared count while the lock is free.
LEMMA GiveBackStep == ASSUME ExportAssumption, IInv, GiveBack PROVE IInv'
<1>1. worker \in Loose /\ Hand /\ worker.pc = "got" /\ worker' = [worker EXCEPT !.pc = "write"]
      /\ UNCHANGED <<parent, lock, control, records, accepted, reports, seen>>
      /\ ~lock /\ pending' = pending - 1 /\ pending \in 0..QueueCap
      /\ records \in Seq(Packet) /\ PendingExact /\ QueueCap \in Nat
  BY WorkerFacts DEF GiveBack, At, Becomes, MayCount, IInv, TypeOK, ExportAssumption
<1>2. /\ worker' \in Loose /\ Held(worker') = Held(worker) /\ worker'.pc = "write"
      /\ worker'.stop = worker.stop /\ worker'.packet = worker.packet /\ worker'.told = worker.told
  BY <1>1, Moves
<1>3. InHand' = InHand
  BY <1>2 DEF InHand
<1>4. pending = Len(records) + 1 /\ Len(records) \in Nat
  BY <1>1 DEF PendingExact, At
<1>5. pending' \in 0..QueueCap /\ pending' = Len(records)
  BY <1>1, <1>4
<1>6. worker' \in Worker(0..MaxPackets) /\ Accounted'
  BY <1>1, <1>2, <1>3, StaysTight
<1>7. TypeOK'
  BY <1>1, <1>5, <1>6 DEF IInv, TypeOK
<1>8. PendingExact'
  BY <1>1, <1>2, <1>4, <1>5 DEF PendingExact, At
<1>9. (Hand /\ StopFollows /\ Drained /\ Reported /\ Room /\ Numbered /\ ControlFollows)'
  BY <1>1, <1>2 DEF IInv, Hand, StopFollows, Alive, At, Drained, Reported, Room, Numbered,
     ControlFollows
<1> QED BY <1>6, <1>7, <1>8, <1>9 DEF IInv

\* A worker killed keeps what it had in the accounts; nothing more is read.
LEMMA KilledStep ==
  ASSUME ExportAssumption, IInv, worker' = [worker EXCEPT !.pc = "killed"],
         UNCHANGED <<lock, control, pending, records, accepted, reports, seen>>,
         worker.pc # "exited", ParentOK', parent'.error = "none" => parent.error = "none" /\ UNCHANGED parent,
         parent'.stage = "open" => parent.stage = "open"
  PROVE  IInv'
<1>1. worker \in Loose /\ Hand /\ (worker.stop => control.stop) /\ records \in Seq(Packet)
  BY WorkerFacts DEF IInv, TypeOK
<1>2. /\ worker' \in Loose /\ Held(worker') = Held(worker) /\ worker'.pc = "killed"
      /\ worker'.stop = worker.stop /\ worker'.packet = worker.packet
      /\ worker'.told = worker.told
  BY <1>1, Moves
<1>3. InHand' = InHand
  BY <1>2 DEF InHand
<1>4. worker' \in Worker(0..MaxPackets) /\ Accounted'
  BY <1>1, <1>2, <1>3, StaysTight
<1>5. TypeOK'
  BY <1>4 DEF IInv, TypeOK, ParentOK
<1>6. (PendingExact /\ Hand /\ StopFollows /\ Drained /\ Reported)'
  BY <1>1, <1>2 DEF IInv, PendingExact, Hand, StopFollows, Alive, At, Drained, Reported
<1>7. (Room /\ Numbered /\ ControlFollows)'
  BY DEF IInv, Room, Numbered, ControlFollows
<1> QED BY <1>4, <1>5, <1>6, <1>7 DEF IInv

\* close() kills with an error.
LEMMA CloseKillsStep == ASSUME ExportAssumption, IInv, CloseKills PROVE IInv'
<1>1. parent' = [parent EXCEPT !.stage = "closed", !.error = "timeout"] /\ ParentOK
      /\ worker' = [worker EXCEPT !.pc = "killed"]
      /\ UNCHANGED <<lock, control, pending, records, accepted, reports, seen>>
      /\ worker.pc # "exited"
  BY DEF CloseKills, Killable, Alive, At, IInv, TypeOK, ParentOK
<1>2. ParentOK' /\ parent'.stage = "closed" /\ parent'.error = "timeout"
  BY <1>1 DEF ParentOK
<1> QED BY <1>1, <1>2, KilledStep

\* The owner may die at any step, too.
LEMMA CrashStep == ASSUME ExportAssumption, IInv, Crash PROVE IInv'
<1>1. UNCHANGED <<lock, control, pending, records, accepted, reports, seen>>
  BY DEF Crash
<1>2. CASE Alive /\ Becomes(worker, "killed") /\ UNCHANGED parent
  <2>1. ParentOK' /\ worker.pc # "exited"
    BY <1>2 DEF IInv, TypeOK, ParentOK, Alive, At
  <2> QED BY <1>1, <1>2, <2>1, KilledStep DEF Becomes
<1>3. CASE /\ \E left \in {{}} \cup {{what} : what \in Leavable} :
                parent' = [parent EXCEPT !.stage = "dead", !.left = left]
           /\ UNCHANGED worker
  <2>1. ParentOK /\ ControlOK
    BY DEF IInv, TypeOK, ParentOK, ControlOK
  <2>2. PICK left \in SUBSET {"count", "control", "record", "report"} :
          parent' = [parent EXCEPT !.stage = "dead", !.left = left]
    <3>1. Leavable \subseteq {"count", "control", "record", "report"}
      BY DEF Leavable
    <3> QED BY <1>3, <3>1
  <2>3. /\ ParentOK' /\ parent'.stage = "dead" /\ parent'.error = parent.error
        /\ parent'.generation = parent.generation
    BY <2>1, <2>2 DEF ParentOK
  <2>4. ControlOK' /\ (ControlFollows /\ StopFollows /\ Drained /\ Reported)'
    BY <1>1, <1>3, <2>1, <2>3 DEF ControlOK, IInv, ControlFollows, StopFollows, Drained,
       Reported, At, Alive
  <2> QED BY <1>1, <1>3, <2>3, <2>4, ParentStep DEF IInv, TypeOK
<1> QED BY <1>2, <1>3 DEF Crash

-----------------------------------------------------------------------------
(* The theorems.                                                           *)

\* Every step keeps the invariant.
LEMMA NextIInv == ASSUME ExportAssumption, IInv, [Next]_vars PROVE IInv'
<1>1. CASE UNCHANGED vars
  BY <1>1 DEF vars, IInv, TypeOK, Accounted, InHand, PendingExact, At, Room, Numbered, Hand,
     ControlFollows, StopFollows, Alive, Drained, Reported, Status
<1>2. CASE Work
  BY <1>2, SyncStep, GetStep, GiveBackStep, StoreStep, EmptyStep, RestStep, LeaveStep,
     LastReportStep DEF Work
<1>3. CASE Parent
  BY <1>3, OfferStep, OfferCountedStep, NewContextStep, BadBlockStep, SetEnabledStep, ReadStep,
     CloseStep, CloseEndsStep, CloseFindsDeadStep, CloseKillsStep DEF Parent
<1> QED BY <1>1, <1>2, <1>3, GetNothingStep, CrashStep DEF Next

\* The invariant holds of every reachable state.
THEOREM Invariance == Spec => []IInv
<1>1. Init => IInv
  BY InitIInv, ExportAssumption
<1>2. IInv /\ [Next]_vars => IInv'
  BY NextIInv, ExportAssumption
<1> QED BY <1>1, <1>2, PTL DEF Spec

\* Every variable has its type: in particular neither queue, shared count nor
\* report queue outgrows its bound, and no count the packets accepted
\* (_offer_packet's tests, the report queue's maxsize).
THEOREM TypeCorrect == Spec => []TypeOK
<1>1. IInv => TypeOK
  BY DEF IInv
<1> QED BY <1>1, Invariance, PTL

\* No packet is lost from the accounts or counted twice, through rotation,
\* discarded files, failed generations and deaths (write, abort, close_segment).
THEOREM PacketsAreAccounted == Spec => []Accounted
<1>1. IInv => Accounted
  BY DEF IInv
<1> QED BY <1>1, Invariance, PTL

\* The shared byte count, raised by one process and lowered by the other, is
\* exactly what is outstanding (_offer_packet, _export_worker's get).
THEOREM PendingIsExact == Spec => []PendingExact
<1>1. IInv => PendingExact
  BY DEF IInv
<1> QED BY <1>1, Invariance, PTL

\* A worker that leaves by itself has nothing left to write (the drain rule of
\* _export_worker).
THEOREM LeavesDrained == Spec => []ExitDrained
<1>1. IInv => ExitDrained
  BY DEF IInv, Drained, ExitDrained, At
<1> QED BY <1>1, Invariance, PTL

-----------------------------------------------------------------------------
(* What is published of the counts.                                        *)

\* What was said of the counts, in order, and what they are.
Rising ==
  /\ UpTo(seen, Status)
  /\ \A i \in DOMAIN reports : UpTo(seen, reports[i]) /\ UpTo(reports[i], Status)
  /\ \A i, j \in DOMAIN reports : i < j => UpTo(reports[i], reports[j])

\* The numbers in it.
Counted(c) == c.exported \in Nat /\ c.skipped \in Nat

LEMMA CountsType ==
  ASSUME ExportAssumption, IInv
  PROVE  /\ Counted(seen) /\ Counted(worker) /\ Counted(Status)
         /\ reports \in Seq(Report) /\ \A i \in DOMAIN reports : Counted(reports[i])
<1>1. \A c \in Report : Counted(c)
  BY DEF Report, Counted, ExportAssumption
<1>2. worker \in Loose /\ seen \in Report /\ reports \in Seq(Report)
  BY WorkerFacts DEF IInv, TypeOK
<1>3. \A i \in DOMAIN reports : reports[i] \in Report
  BY <1>2
<1>4. Counted(worker)
  BY <1>2 DEF Loose, Worker, Counted
<1> QED BY <1>1, <1>2, <1>3, <1>4 DEF Status, Counted

\* Taking some of the first reports away, and perhaps reading the last of them.
LEMMA RisesTaken ==
  ASSUME ExportAssumption, IInv, IInv', Rising, UpTo(worker, worker'),
         NEW k \in 0..Len(reports), Len(reports') = Len(reports) - k,
         \A i \in 1..Len(reports') : reports'[i] = reports[i + k],
         seen' = seen \/ (k # 0 /\ seen' = reports[k])
  PROVE  Rising'
<1>1. reports \in Seq(Report) /\ reports' \in Seq(Report) /\ Len(reports) \in Nat
  BY CountsType DEF IInv, TypeOK
<1>2. /\ DOMAIN reports = 1..Len(reports) /\ DOMAIN reports' = 1..Len(reports')
      /\ \A i \in 1..Len(reports') : i + k \in 1..Len(reports) /\ k < i + k
      /\ k # 0 => k \in 1..Len(reports)
  BY <1>1
<1>3. UpTo(Status, Status')
  BY DEF UpTo, Status
<1>4. \A c, d, e : Counted(c) /\ Counted(d) /\ Counted(e) /\ UpTo(c, d) /\ UpTo(d, e) => UpTo(c, e)
  BY DEF UpTo, Counted
<1>5. Counted(Status) /\ Counted(Status') /\ Counted(seen) /\ Counted(seen')
      /\ \A i \in DOMAIN reports : Counted(reports[i])
  <2>1. Counted(worker') /\ Counted(seen')
    <3>1. \A c \in Report : Counted(c)
      BY DEF Report, Counted, ExportAssumption
    <3>2. worker' \in Worker(0..MaxPackets) /\ seen' \in Report
      BY DEF IInv, TypeOK
    <3>3. Counted(worker')
      BY <3>2 DEF Worker, Counted, ExportAssumption
    <3> QED BY <3>1, <3>2, <3>3
  <2> QED BY <2>1, CountsType DEF Status, Counted
<1>6. UpTo(seen', Status')
  <2>1. UpTo(seen', Status)
    BY <1>2 DEF Rising
  <2> QED BY <1>3, <1>4, <1>5, <2>1
<1>7. ASSUME NEW i \in DOMAIN reports'
      PROVE  UpTo(seen', reports'[i]) /\ UpTo(reports'[i], Status')
  <2>1. i + k \in DOMAIN reports /\ reports'[i] = reports[i + k]
    BY <1>2
  <2>2. UpTo(seen', reports[i + k])
    BY <1>2, <2>1 DEF Rising
  <2>3. UpTo(reports[i + k], Status)
    BY <2>1 DEF Rising
  <2> QED BY <1>3, <1>4, <1>5, <2>1, <2>2, <2>3
<1>8. ASSUME NEW i \in DOMAIN reports', NEW j \in DOMAIN reports', i < j
      PROVE  UpTo(reports'[i], reports'[j])
  <2>1. i + k \in DOMAIN reports /\ j + k \in DOMAIN reports /\ i + k < j + k
    BY <1>1, <1>2, <1>8
  <2> QED BY <1>2, <2>1 DEF Rising
<1> QED BY <1>6, <1>7, <1>8 DEF Rising

\* Saying nothing new of counts that grow.
LEMMA RisesUnsaid ==
  ASSUME ExportAssumption, IInv, IInv', Rising, UpTo(worker, worker'),
         UNCHANGED <<reports, seen>>
  PROVE  Rising'
<1>1. reports \in Seq(Report) /\ Len(reports) \in Nat
  BY CountsType
<1>2. 0 \in 0..Len(reports) /\ Len(reports') = Len(reports) - 0
      /\ \A i \in 1..Len(reports') : reports'[i] = reports[i + 0]
  BY <1>1
<1> QED BY <1>2, RisesTaken

\* One more report, of the counts as they are now.
LEMMA RisesSaid ==
  ASSUME ExportAssumption, IInv, IInv', Rising, UpTo(worker, worker'),
         reports' = Append(reports, Status'), UNCHANGED seen
  PROVE  Rising'
<1> DEFINE n == Len(reports)
           now == Status'
<1>1. reports \in Seq(Report) /\ n \in Nat /\ now \in Report
  <2>1. reports \in Seq(Report) /\ worker' \in Worker(0..MaxPackets)
    BY DEF IInv, TypeOK
  <2> QED BY <2>1 DEF Status, Worker, Report
<1>2. reports' = Append(reports, now)
  OBVIOUS
<1>3. UpTo(Status, now) /\ UpTo(now, now) /\ UpTo(now, Status')
  BY <1>1 DEF UpTo, Status, Report, ExportAssumption
<1>4. \A c, d, e : Counted(c) /\ Counted(d) /\ Counted(e) /\ UpTo(c, d) /\ UpTo(d, e) => UpTo(c, e)
  BY DEF UpTo, Counted
<1>5. Counted(now) /\ Counted(Status) /\ Counted(seen)
      /\ \A i \in DOMAIN reports : Counted(reports[i])
  BY <1>1, CountsType DEF Report, Counted, ExportAssumption
<1>6. now = Status'
  OBVIOUS
<1> HIDE DEF now
<1>7. /\ DOMAIN reports = 1..n /\ DOMAIN reports' = 1..n + 1 /\ reports'[n + 1] = now
      /\ \A i \in 1..n : reports'[i] = reports[i]
  BY <1>1, <1>2
<1>8. UpTo(seen, now) /\ \A i \in 1..n : UpTo(reports[i], now)
  BY <1>3, <1>4, <1>5, <1>7 DEF Rising
<1>9. ASSUME NEW i \in DOMAIN reports'
      PROVE  UpTo(seen', reports'[i]) /\ UpTo(reports'[i], Status')
  <2>1. i \in 1..n \/ i = n + 1
    BY <1>1, <1>7
  <2> QED BY <1>3, <1>6, <1>7, <1>8, <2>1 DEF Rising
<1>10. ASSUME NEW i \in DOMAIN reports', NEW j \in DOMAIN reports', i < j
       PROVE  UpTo(reports'[i], reports'[j])
  <2>1. i \in 1..n /\ (j \in 1..n \/ j = n + 1)
    BY <1>1, <1>7, <1>10
  <2> QED BY <1>7, <1>8, <1>10, <2>1 DEF Rising
<1> QED BY <1>6, <1>8, <1>9, <1>10 DEF Rising

\* No step takes anything back from the worker's counts.
LEMMA WorkerGrows ==
  ASSUME ExportAssumption, IInv, IInv', [Next]_vars
  PROVE  UpTo(worker, worker')
<1>1. worker \in Loose /\ worker' \in Loose /\ ControlOK /\ worker.epoch \in -1..MaxGeneration
      /\ worker.failed \in -1..MaxGeneration
  <2>1. worker' \in Worker(0..MaxPackets)
    BY DEF IInv, TypeOK
  <2> QED BY <2>1, WorkerFacts, LooseType
<1>2. ASSUME NEW w \in Loose, UpTo(worker, w), NEW pc, worker' = [w EXCEPT !.pc = pc]
      PROVE  UpTo(worker, worker')
  <2>1. worker'.exported = w.exported /\ worker'.skipped = w.skipped
    BY <1>2 DEF Loose, Worker
  <2> QED BY <1>2, <2>1 DEF UpTo
<1>3. UpTo(worker, worker)
  BY <1>1, StorageGrows
<1>4. ASSUME worker' \in {worker, [worker EXCEPT !.pc = worker'.pc]}
      PROVE  UpTo(worker, worker')
  BY <1>1, <1>2, <1>3, <1>4
<1>5. Synchronized(worker) \in Loose /\ UpTo(worker, Synchronized(worker))
  <2>1. Synchronized(worker).exported = worker.exported
        /\ Synchronized(worker).skipped = worker.skipped
    BY <1>1 DEF Synchronized, Loose, Worker
  <2> QED BY <1>1, <1>3, <2>1, SynchronizedKeeps DEF UpTo
<1>6. CASE Sync
  <2> DEFINE w == [Synchronized(worker) EXCEPT !.stop = control.stop]
  <2>1. w \in Loose /\ w.exported = Synchronized(worker).exported
        /\ w.skipped = Synchronized(worker).skipped
    BY <1>1, <1>5 DEF Loose, Worker, ControlOK
  <2>2. worker' = [w EXCEPT !.pc = "get"]
    BY <1>6 DEF Sync, Becomes
  <2> HIDE DEF w
  <2> QED BY <1>2, <1>5, <2>1, <2>2 DEF UpTo
<1>7. CASE Get
  <2>1. worker'.exported = worker.exported /\ worker'.skipped = worker.skipped
    BY <1>1, <1>7 DEF Get, Becomes, Loose, Worker
  <2> QED BY <1>3, <2>1 DEF UpTo
<1>8. CASE Store
  <2> DEFINE s == Synchronized(worker)
  <2>1. PICK w \in Stores(s, worker.packet) : worker' = [w EXCEPT !.pc = "rest"]
    BY <1>8 DEF Store, Becomes
  <2>2. s.packet = worker.packet
    BY <1>1, SynchronizedKeeps DEF SamePlace
  <2>3. w \in Loose /\ UpTo(s, w)
    BY <1>5, <2>1, <2>2, StoresCount
  <2>4. UpTo(worker, w)
    BY <1>1, <1>5, <2>3, Grown
  <2> QED BY <1>2, <2>1, <2>3, <2>4
<1>9. CASE Empty \/ Rest
  <2>1. PICK w \in {worker, Finish(worker), CloseSegment(worker)} \cup Failures(worker, worker.epoch) :
          \E pc \in {"sync", "rest", "leave"} : worker' = [w EXCEPT !.pc = pc]
    BY <1>9 DEF Empty, Rest, Becomes
  <2>2. w \in Loose /\ UpTo(worker, w)
    BY <1>1, <1>3, <2>1, FinishKeeps, CloseSegmentKeeps, FailuresKeep, StorageGrows, FailuresGrow
  <2> QED BY <1>2, <2>1, <2>2
<1>10. CASE Leave
  <2>1. PICK w \in {Finish(worker)} \cup Failures(worker, worker.failed) :
          worker' = [[w EXCEPT !.enabled = FALSE] EXCEPT !.pc = "final"]
    BY <1>10 DEF Leave, Becomes
  <2>2. w \in Loose /\ UpTo(worker, w)
    BY <1>1, <2>1, FinishKeeps, FailuresKeep, StorageGrows, FailuresGrow
  <2>3. worker'.exported = w.exported /\ worker'.skipped = w.skipped
    BY <2>1, <2>2 DEF Loose, Worker
  <2> QED BY <2>2, <2>3 DEF UpTo
<1>11. CASE LastReport
  <2>1. worker'.exported = worker.exported /\ worker'.skipped = worker.skipped
    BY <1>1, <1>11 DEF LastReport, Becomes, Loose, Worker
  <2> QED BY <1>3, <2>1 DEF UpTo
<1>12. CASE GiveBack \/ GetNothing \/ CloseKills \/ Crash
  <2>1. worker' = worker \/ \E pc \in {"write", "empty", "killed"} : worker' = [worker EXCEPT !.pc = pc]
    BY <1>12 DEF GiveBack, GetNothing, CloseKills, Crash, Becomes
  <2> QED BY <1>1, <1>2, <1>3, <2>1
<1>13. CASE UNCHANGED worker
  BY <1>3, <1>13
<1> QED BY <1>6, <1>7, <1>8, <1>9, <1>10, <1>11, <1>12, <1>13
    DEF Next, Work, Parent, Offer, OfferCounted, NewContext, BadBlock, SetEnabled, Read, Close,
        CloseEnds, CloseFindsDead, vars

\* Every step keeps what is published in order.
LEMMA RisingStep ==
  ASSUME ExportAssumption, IInv, IInv', Rising, [Next]_vars
  PROVE  Rising'
<1>1. UpTo(worker, worker')
  BY WorkerGrows
<1>2. reports \in Seq(Report) /\ seen \in Report /\ Len(reports) \in Nat
  BY DEF IInv, TypeOK
<1>3. ASSUME UNCHANGED <<reports, seen>>
      PROVE  Rising'
  BY <1>1, <1>3, RisesUnsaid
<1>4. ASSUME NEW k \in 0..Len(reports), Takes(k)
      PROVE  Rising'
  <2>1. /\ Len(reports') = Len(reports) - k
        /\ \A i \in 1..Len(reports') : reports'[i] = reports[i + k]
    BY <1>2, <1>4, TakesFirst
  <2>2. seen' = seen \/ (k # 0 /\ seen' = reports[k])
    BY <1>4 DEF Takes
  <2> QED BY <1>1, <2>1, <2>2, RisesTaken
<1>5. CASE Read
  <2>1. UNCHANGED <<reports, seen>> \/ \E k \in 1..Len(reports) : Takes(k)
    BY <1>5 DEF Read
  <2>2. \A k \in 1..Len(reports) : k \in 0..Len(reports)
    BY <1>2
  <2> QED BY <1>3, <1>4, <2>1, <2>2
<1>6. CASE CloseEnds
  <2>1. Takes(Len(reports)) /\ Len(reports) \in 0..Len(reports)
    BY <1>2, <1>6 DEF CloseEnds
  <2> QED BY <1>4, <2>1
<1>7. CASE Leave
  <2>1. PICK k \in 0..Len(reports) : reports' = SubSeq(reports, k + 1, Len(reports))
    BY <1>7 DEF Leave
  <2>2. UNCHANGED seen
    BY <1>7 DEF Leave
  <2>3. /\ Len(reports') = Len(reports) - k
        /\ \A i \in 1..Len(reports') : reports'[i] = reports[i + k]
    BY <1>2, <2>1
  <2> QED BY <1>1, <2>2, <2>3, RisesTaken
<1>8. CASE Rest
  <2>1. UNCHANGED <<reports, seen>>
        \/ (reports' = Append(reports, Status') /\ UNCHANGED seen)
    BY <1>8 DEF Rest, Status
  <2> QED BY <1>1, <1>3, <2>1, RisesSaid
<1>9. CASE LastReport
  <2>1. UNCHANGED seen
    BY <1>9 DEF LastReport
  <2>2. CASE UNCHANGED reports
    BY <1>3, <2>1, <2>2
  <2>3. CASE reports' = Append(reports, Status) /\ Becomes([worker EXCEPT !.told = TRUE], "exited")
    <3>1. worker'.exported = worker.exported /\ worker'.skipped = worker.skipped
      BY <2>3, WorkerFacts DEF Becomes, Loose, Worker
    <3>2. Status' = Status
      BY <3>1 DEF Status
    <3> QED BY <1>1, <2>1, <2>3, <3>2, RisesSaid
  <2> QED BY <1>9, <2>2, <2>3 DEF LastReport
<1>10. CASE \/ Sync \/ Get \/ GiveBack \/ Store \/ Empty \/ GetNothing \/ Crash \/ Offer
            \/ OfferCounted \/ NewContext \/ BadBlock \/ SetEnabled \/ Close
            \/ CloseFindsDead \/ CloseKills \/ UNCHANGED vars
  <2>1. UNCHANGED <<reports, seen>>
    BY <1>10 DEF Sync, Get, GiveBack, Store, Empty, GetNothing, Crash, Offer, OfferCounted,
       NewContext, BadBlock, SetEnabled, Close, CloseFindsDead, CloseKills, vars
  <2> QED BY <1>3, <2>1
<1> QED BY <1>5, <1>6, <1>7, <1>8, <1>9, <1>10 DEF Next, Work, Parent

\* The published counts only grow, say no more than the worker has done, and are
\* its last ones after close() if its last report could be queued (report,
\* _latest, read, close).
THEOREM ReportsAreSound == Spec => []FinalStatus
<1>1. IInv /\ Rising => FinalStatus
  <2> SUFFICES ASSUME IInv, Rising
               PROVE  FinalStatus
    OBVIOUS
  <2> DEFINE n == Len(reports)
             said == <<seen>> \o reports \o <<Status>>
  <2>1. reports \in Seq(Report) /\ n \in Nat /\ seen \in Report /\ Status \in Report
    <3>1. worker \in Worker(0..MaxPackets)
      BY DEF IInv, TypeOK
    <3> QED BY <3>1 DEF IInv, TypeOK, Status, Worker, Report
  <2>2. /\ DOMAIN said = 1..n + 2 /\ said[1] = seen /\ said[n + 2] = Status
        /\ \A i \in 1..n : said[i + 1] = reports[i]
    <3> DEFINE first == seen
               last == Status
    <3>1. first \in Report /\ last \in Report
      BY <2>1
    <3> HIDE DEF first, last
    <3> DEFINE front == <<first>> \o reports
    <3>2. /\ front \in Seq(Report) /\ Len(front) = n + 1 /\ front[1] = first
          /\ \A i \in 1..n : front[i + 1] = reports[i]
      BY <2>1, <3>1
    <3>3. said = front \o <<last>>
      BY DEF first, last
    <3> HIDE DEF front, said
    <3>6. PICK m \in Nat : m = n + 1
      BY <2>1
    <3>7. /\ Len(said) = m + 1 /\ said \in Seq(Report) /\ said[m + 1] = last
          /\ \A i \in 1..m : said[i] = front[i]
      BY <3>1, <3>2, <3>3, <3>6
    <3>4. /\ DOMAIN said = 1..n + 2 /\ said[n + 2] = last
          /\ \A i \in 1..n + 1 : said[i] = front[i]
      BY <2>1, <3>6, <3>7
    <3>5. 1 \in 1..n + 1 /\ \A i \in 1..n : i + 1 \in 1..n + 1
      BY <2>1
    <3> QED BY <3>2, <3>4, <3>5 DEF first, last
  <2> HIDE DEF said
  <2>3. ASSUME NEW i \in DOMAIN said, NEW j \in DOMAIN said, i < j
        PROVE  UpTo(said[i], said[j])
    <3>4. i \in 1..n + 2 /\ j \in 1..n + 2
      BY <2>2, <2>3
    <3>5. ASSUME NEW k \in 1..n + 2, k # 1, k # n + 2
          PROVE  k - 1 \in 1..n /\ said[k] = reports[k - 1]
      <4>1. k - 1 \in 1..n /\ (k - 1) + 1 = k
        BY <2>1, <3>5
      <4>2. said[(k - 1) + 1] = reports[k - 1]
        BY <2>2, <4>1, Zenon
      <4> QED BY <4>1, <4>2
    <3>6. i # n + 2 /\ j # 1 /\ i \in Nat /\ j \in Nat
      BY <2>1, <2>3, <3>4
    <3>1. /\ i = 1 \/ (i - 1 \in 1..n /\ said[i] = reports[i - 1])
          /\ j = n + 2 \/ (j - 1 \in 1..n /\ said[j] = reports[j - 1])
      BY <3>4, <3>5, <3>6, Zenon
    <3>2. DOMAIN reports = 1..n
      BY <2>1
    <3>3. i - 1 < j - 1
      BY <2>3, <3>6
    <3> QED BY <2>2, <3>1, <3>2, <3>3 DEF Rising
  <2>4. parent.stage = "closed" /\ At("exited") /\ worker.told => seen = Status
    BY DEF IInv, Reported
  <2> QED BY <2>3, <2>4 DEF FinalStatus, said
<1>2. Init => Rising
  <2> SUFFICES ASSUME Init PROVE Rising
    OBVIOUS
  <2>1. reports = << >> /\ UpTo(seen, Status)
    BY DEF Init, NoReport, Status, UpTo
  <2> QED BY <2>1 DEF Rising
<1>3. IInv /\ IInv' /\ Rising /\ [Next]_vars => Rising'
  BY RisingStep, ExportAssumption
<1> QED BY <1>1, <1>2, <1>3, Invariance, PTL DEF Spec

-----------------------------------------------------------------------------
(* What the files hold.                                                    *)

Alike(s) ==
  \A k, l \in DOMAIN s :
    /\ s[k].epoch = s[l].epoch /\ s[k].context = s[l].context
    /\ k < l => s[k].n < s[l].n
Ahead(s, t) == \A k \in DOMAIN s, l \in DOMAIN t : s[k].n < t[l].n
Under(s, n) == \A k \in DOMAIN s : s[k].n < n

\* The files of a worker, the open one last; it is of the writer's generation.
Tidy(w) ==
  /\ Alike(w.segment)
  /\ \A i \in DOMAIN w.closed : Alike(w.closed[i]) /\ Ahead(w.closed[i], w.segment)
  /\ \A i, j \in DOMAIN w.closed : i < j => Ahead(w.closed[i], w.closed[j])
  /\ w.segment # EmptySegment => w.open /\ w.segment[1].epoch = w.epoch

\* All it has written is older than packet n.
Older(w, n) == Under(w.segment, n) /\ \A i \in DOMAIN w.closed : Under(w.closed[i], n)

\* What is on its way is newer than what is written, and in order.
Coming ==
  /\ Older(worker, accepted + 1)
  /\ \A k \in DOMAIN records : records[k].n <= accepted /\ Older(worker, records[k].n)
  /\ \A k, l \in DOMAIN records : k < l => records[k].n < records[l].n
  /\ worker.packet # NoPacket =>
       /\ worker.packet.n <= accepted /\ Older(worker, worker.packet.n)
       /\ \A k \in DOMAIN records : worker.packet.n < records[k].n

FilesInv == Tidy(worker) /\ Coming

\* x is w with its files rearranged, none of them newer.
Orderly(w, x) == Tidy(x) /\ \A n \in Nat : Older(w, n) => Older(x, n)

SameFiles(w, x) ==
  /\ x.segment = w.segment /\ x.closed = w.closed /\ x.epoch = w.epoch
  /\ x.open <=> w.open

LEMMA SameOrderly ==
  ASSUME NEW w, NEW x, Tidy(w), SameFiles(w, x)
  PROVE  Orderly(w, x)
BY DEF Tidy, Older, SameFiles, Orderly

LEMMA OrderlyThen ==
  ASSUME NEW w, NEW x, NEW y, Orderly(w, x), Orderly(x, y)
  PROVE  Orderly(w, y)
BY DEF Orderly

\* Closing a segment.
LEMMA CloseOrderly ==
  ASSUME NEW w \in Loose, Tidy(w)
  PROVE  /\ Orderly(w, CloseSegment(w))
         /\ CloseSegment(w).open = w.open /\ CloseSegment(w).epoch = w.epoch
<1> DEFINE x == CloseSegment(w)
<1>1. CASE w.segment = EmptySegment
  BY <1>1, SameOrderly DEF CloseSegment, SameFiles
<1>2. CASE w.segment # EmptySegment
  <2>1. /\ x.closed = Append(w.closed, w.segment) /\ x.segment = EmptySegment
        /\ x.open = w.open /\ x.epoch = w.epoch
    BY <1>2 DEF CloseSegment, Loose, Worker
  <2> HIDE DEF x
  <2>2. /\ DOMAIN x.closed = 1 .. Len(w.closed) + 1 /\ DOMAIN w.closed = 1 .. Len(w.closed)
        /\ Len(w.closed) \in Nat /\ x.closed[Len(w.closed) + 1] = w.segment
        /\ \A i \in 1 .. Len(w.closed) : x.closed[i] = w.closed[i]
    <3> DEFINE Segments == Seq(Packet)
    <3>1. w.closed \in Seq(Segments) /\ w.segment \in Segments
      BY DEF Loose, Worker
    <3> HIDE DEF Segments
    <3> QED BY <2>1, <3>1
  <2>3. DOMAIN x.segment = {}
    BY <2>1 DEF EmptySegment
  <2>4. Tidy(x)
    <3>1. \A i \in DOMAIN x.closed : Alike(x.closed[i]) /\ Ahead(x.closed[i], x.segment)
      BY <2>2, <2>3 DEF Tidy, Ahead
    <3>2. ASSUME NEW i \in 1 .. Len(w.closed), NEW j \in 1 .. Len(w.closed) + 1, i < j
          PROVE  Ahead(x.closed[i], x.closed[j])
      <4>1. CASE j = Len(w.closed) + 1
        BY <2>2, <4>1 DEF Tidy
      <4>2. CASE j \in 1 .. Len(w.closed)
        BY <2>2, <3>2, <4>2 DEF Tidy
      <4> QED BY <2>2, <4>1, <4>2
    <3>3. \A i, j \in DOMAIN x.closed : i < j => Ahead(x.closed[i], x.closed[j])
      BY <2>2, <3>2
    <3> QED BY <2>1, <2>3, <3>1, <3>3 DEF Tidy, Alike
  <2>5. ASSUME NEW n \in Nat, Older(w, n)
        PROVE  Older(x, n)
    BY <2>2, <2>3, <2>5, SMTT(30) DEF Older, Under
  <2> QED BY <2>1, <2>4, <2>5 DEF Orderly, x
<1> QED BY <1>1, <1>2

LEMMA FinishOrderly ==
  ASSUME NEW w \in Loose, Tidy(w)
  PROVE  Orderly(w, Finish(w)) /\ Finish(w).segment = EmptySegment
<1> DEFINE x == CloseSegment(w)
<1>1. x \in Loose /\ x.segment = EmptySegment /\ Orderly(w, x)
  BY CloseOrderly, CloseSegmentKeeps
<1>2. Finish(w) = [x EXCEPT !.open = FALSE]
  BY DEF Finish
<1> HIDE DEF x
<1>3. /\ Finish(w).segment = x.segment /\ Finish(w).closed = x.closed
      /\ Finish(w).epoch = x.epoch
  BY <1>1, <1>2 DEF Loose, Worker
<1> QED BY <1>1, <1>3 DEF Orderly, Tidy, Older

LEMMA DiscardOrderly ==
  ASSUME NEW w \in Loose, Tidy(w)
  PROVE  Orderly(w, Discard(w))
<1> DEFINE x == Discard(w)
<1>1. x.segment = EmptySegment /\ x.closed = w.closed /\ x.epoch = w.epoch
  BY DEF Discard, Loose, Worker
<1> HIDE DEF x
<1>2. DOMAIN x.segment = {}
  BY <1>1 DEF EmptySegment
<1>3. Tidy(x)
  BY <1>1, <1>2 DEF Tidy, Alike, Ahead
<1>4. \A n \in Nat : Older(w, n) => Older(x, n)
  BY <1>1, <1>2 DEF Older, Under
<1> QED BY <1>3, <1>4 DEF Orderly, x

LEMMA FailuresOrderly ==
  ASSUME NEW w \in Loose, Tidy(w), NEW epoch \in -1..MaxGeneration, NEW x \in Failures(w, epoch)
  PROVE  Orderly(w, x)
<1>1. PICK y \in {Finish(w), Discard(w)} :
        x = [y EXCEPT !.error = TRUE, !.failed = IF epoch > y.failed THEN epoch ELSE y.failed]
  BY DEF Failures
<1>2. y \in Loose /\ Orderly(w, y)
  BY FinishKeeps, DiscardKeeps, FinishOrderly, DiscardOrderly
<1>3. SameFiles(y, x)
  BY <1>1, <1>2 DEF Loose, Worker, SameFiles
<1>4. Orderly(y, x)
  BY <1>2, <1>3, SameOrderly DEF Orderly
<1> QED BY <1>2, <1>4, OrderlyThen

\* A packet newer than all in the files, of the open one's generation and
\* context.
LEMMA AddedOrderly ==
  ASSUME NEW w \in Loose, Tidy(w), NEW packet \in Packet, w.open, packet.epoch = w.epoch,
         w.segment # EmptySegment => w.segment[1].context = packet.context,
         Older(w, packet.n)
  PROVE  /\ Tidy(Added(w, packet))
         /\ \A n \in Nat : packet.n < n /\ Older(w, n) => Older(Added(w, packet), n)
<1> DEFINE x == Added(w, packet)
<1>1. /\ x.segment = Append(w.segment, packet) /\ x.closed = w.closed /\ x.epoch = w.epoch
      /\ x.open
  BY DEF Added, Loose, Worker
<1> HIDE DEF x
<1>2. /\ DOMAIN x.segment = 1 .. Len(w.segment) + 1 /\ DOMAIN w.segment = 1 .. Len(w.segment)
      /\ Len(w.segment) \in Nat /\ x.segment[Len(w.segment) + 1] = packet
      /\ \A k \in 1 .. Len(w.segment) : x.segment[k] = w.segment[k]
      /\ w.segment # EmptySegment => 1 \in 1 .. Len(w.segment)
  <2>1. w.segment \in Seq(Packet)
    BY DEF Loose, Worker
  <2> HIDE DEF Packet
  <2> QED BY <1>1, <2>1 DEF EmptySegment
<1>3. \A k \in 1 .. Len(w.segment) :
        /\ w.segment[k].epoch = packet.epoch /\ w.segment[k].context = packet.context
        /\ w.segment[k].n < packet.n
  <2> SUFFICES ASSUME NEW k \in 1 .. Len(w.segment)
               PROVE  /\ w.segment[k].epoch = packet.epoch
                      /\ w.segment[k].context = packet.context
                      /\ w.segment[k].n < packet.n
    OBVIOUS
  <2>1. w.segment # EmptySegment
    BY <1>2 DEF EmptySegment
  <2>2. /\ w.segment[k].epoch = w.segment[1].epoch
        /\ w.segment[k].context = w.segment[1].context
    BY <1>2, <2>1 DEF Tidy, Alike
  <2> QED BY <1>2, <2>1, <2>2 DEF Tidy, Older, Under
<1>4. Alike(x.segment)
  <2>1. ASSUME NEW k \in 1 .. Len(w.segment) + 1
        PROVE  x.segment[k].epoch = packet.epoch /\ x.segment[k].context = packet.context
    <3>1. k \in 1 .. Len(w.segment) \/ k = Len(w.segment) + 1
      BY <1>2
    <3> QED BY <1>2, <1>3, <3>1
  <2>2. ASSUME NEW k \in 1 .. Len(w.segment) + 1, NEW l \in 1 .. Len(w.segment) + 1, k < l
        PROVE  x.segment[k].n < x.segment[l].n
    <3>1. k \in 1 .. Len(w.segment) /\ (l \in 1 .. Len(w.segment) \/ l = Len(w.segment) + 1)
      BY <1>2, <2>2
    <3>2. CASE l \in 1 .. Len(w.segment)
      BY <1>2, <2>2, <3>1, <3>2 DEF Tidy, Alike
    <3>3. CASE l = Len(w.segment) + 1
      BY <1>2, <1>3, <3>1, <3>3
    <3> QED BY <3>1, <3>2, <3>3
  <2> QED BY <1>2, <2>1, <2>2 DEF Alike
<1>5. \A i \in DOMAIN x.closed : Alike(x.closed[i]) /\ Ahead(x.closed[i], x.segment)
  BY <1>1, <1>2 DEF Tidy, Ahead, Older, Under
<1>6. x.segment[1].epoch = x.epoch
  BY <1>1, <1>2, <1>3
<1>7. Tidy(x)
  BY <1>1, <1>4, <1>5, <1>6 DEF Tidy
<1>8. \A n \in Nat : packet.n < n /\ Older(w, n) => Older(x, n)
  BY <1>1, <1>2 DEF Older, Under
<1> QED BY <1>7, <1>8 DEF x

\* Storing a packet.
LEMMA StoresOrderly ==
  ASSUME NEW w \in Loose, Tidy(w), NEW x \in Stores(w, w.packet), Older(w, w.packet.n),
         ExportAssumption
  PROVE  /\ Tidy(x)
         /\ \A n \in Nat : w.packet.n < n /\ Older(w, n) => Older(x, n)
<1> DEFINE packet == w.packet
<1>1. packet \in Packet /\ packet.epoch \in -1..MaxGeneration /\ packet.n \in Nat
  BY SMTT(30) DEF Loose, Worker, Packet
<1>2. Skipped(w) \in Loose /\ Orderly(w, Skipped(w))
  <2>1. Skipped(w) \in Loose
    BY SkippedCounts DEF ExportAssumption
  <2>2. SameFiles(w, Skipped(w))
    BY DEF Skipped, SameFiles, Loose, Worker
  <2> QED BY <2>1, <2>2, SameOrderly
<1>3. CASE x = Skipped(w)
  BY <1>2, <1>3 DEF Orderly
<1>4. CASE x \in Failures(Skipped(w), packet.epoch)
  <2>1. Orderly(Skipped(w), x)
    BY <1>1, <1>2, <1>4, FailuresOrderly DEF Orderly
  <2> QED BY <1>2, <2>1 DEF Orderly
<1>5. CASE x \in Writes(w, packet)
  <2> DEFINE ready == IF NeedsWriter(w, packet)
                        THEN [Finish(w) EXCEPT !.open = TRUE, !.epoch = packet.epoch]
                        ELSE w
  <2>1. ready \in Loose /\ Orderly(w, ready) /\ ready.open /\ ready.epoch = packet.epoch
    <3>1. CASE NeedsWriter(w, packet)
      <4> DEFINE f == Finish(w)
      <4>1. f \in Loose /\ Orderly(w, f) /\ f.segment = EmptySegment
        BY FinishKeeps, FinishOrderly
      <4>2. ready = [f EXCEPT !.open = TRUE, !.epoch = packet.epoch]
        BY <3>1
      <4> HIDE DEF f, ready
      <4>3. /\ ready \in Loose /\ ready.open /\ ready.epoch = packet.epoch
            /\ ready.segment = f.segment /\ ready.closed = f.closed
        BY <1>1, <4>1, <4>2 DEF Loose, Worker
      <4> QED BY <4>1, <4>3 DEF Orderly, Tidy, Older
    <3>2. CASE ~NeedsWriter(w, packet)
      <4>1. SameFiles(w, w) /\ w.open /\ w.epoch = packet.epoch
        BY <3>2 DEF NeedsWriter, SameFiles
      <4> QED BY <3>2, <4>1, SameOrderly
    <3> QED BY <3>1, <3>2
  <2>2. \/ x = Added(CloseSegment(ready), packet)
        \/ /\ x = Added(ready, packet)
           /\ ready.segment # EmptySegment => ready.segment[1].context = packet.context
    BY <1>5 DEF Writes
  <2> HIDE DEF ready
  <2>3. CASE x = Added(CloseSegment(ready), packet)
    <3> DEFINE y == CloseSegment(ready)
    <3>1. /\ y \in Loose /\ Orderly(ready, y) /\ y.open /\ y.epoch = packet.epoch
          /\ y.segment = EmptySegment
      BY <2>1, CloseOrderly, CloseSegmentKeeps DEF Orderly
    <3>2. Orderly(w, y)
      BY <2>1, <3>1, OrderlyThen
    <3>3. x = Added(y, packet)
      BY <2>3
    <3> HIDE DEF y
    <3> QED BY <1>1, <3>1, <3>2, <3>3, AddedOrderly DEF Orderly
  <2>4. CASE /\ x = Added(ready, packet)
             /\ ready.segment # EmptySegment => ready.segment[1].context = packet.context
    BY <1>1, <2>1, <2>4, AddedOrderly DEF Orderly
  <2> QED BY <2>2, <2>3, <2>4
<1> QED BY <1>3, <1>4, <1>5 DEF Stores

\* The steps that leave the files alone, and what is on its way to them.
LEMMA FilesStay ==
  ASSUME FilesInv, SameFiles(worker, worker'), worker'.packet = worker.packet,
         UNCHANGED <<records, accepted>>
  PROVE  FilesInv'
<1>1. Tidy(worker')
  BY SameOrderly DEF FilesInv, Orderly
<1>2. Coming'
  BY DEF FilesInv, Coming, SameFiles, Older
<1> QED BY <1>1, <1>2 DEF FilesInv

LEMMA FilesRearranged ==
  ASSUME IInv, ExportAssumption, FilesInv, Orderly(worker, worker'),
         worker'.packet = worker.packet, UNCHANGED <<records, accepted>>
  PROVE  FilesInv'
<1>1. /\ accepted + 1 \in Nat /\ worker.packet.n \in Nat
      /\ \A k \in DOMAIN records : records[k].n \in Nat
  <2>1. accepted \in Nat /\ records \in Seq(Packet) /\ worker.packet \in Packet
    BY LooseType DEF IInv, TypeOK, Loose, Worker
  <2>2. \A packet \in Packet : packet.n \in Nat
    BY DEF Packet
  <2>3. \A k \in DOMAIN records : records[k] \in Packet
    <3> HIDE DEF Packet
    <3> QED BY <2>1
  <2> QED BY <2>1, <2>2, <2>3
<1>2. Coming'
  BY <1>1 DEF FilesInv, Coming, Orderly
<1> QED BY <1>2 DEF FilesInv, Orderly

LEMMA FilesStep == ASSUME ExportAssumption, IInv, FilesInv, [Next]_vars PROVE FilesInv'
<1>1. worker \in Loose /\ ControlOK /\ Hand /\ worker.epoch \in -1..MaxGeneration
      /\ worker.failed \in -1..MaxGeneration
  BY WorkerFacts
<1>2. /\ accepted \in Nat /\ records \in Seq(Packet) /\ worker.packet \in Packet
      /\ Len(records) \in Nat /\ DOMAIN records = 1 .. Len(records)
      /\ \A k \in DOMAIN records : records[k] \in Packet
  <2>1. accepted \in Nat /\ records \in Seq(Packet) /\ worker.packet \in Packet
    BY <1>1 DEF IInv, TypeOK, Loose, Worker
  <2> HIDE DEF Packet
  <2> QED BY <2>1
<1>3. \A packet \in Packet : packet.n \in Nat
  BY DEF Packet
<1>4. ASSUME NEW w \in Loose, NEW pc, worker' = [w EXCEPT !.pc = pc], SamePlace(worker, w),
             Orderly(worker, w), UNCHANGED <<records, accepted>>
      PROVE  FilesInv'
  <2>1. SameFiles(w, worker') /\ worker'.packet = worker.packet
    BY <1>4 DEF SameFiles, SamePlace, Loose, Worker
  <2>2. Orderly(w, worker')
    BY <1>4, <2>1, SameOrderly DEF Orderly
  <2>3. Orderly(worker, worker')
    BY <1>4, <2>2, OrderlyThen
  <2> QED BY <1>4, <2>1, <2>3, FilesRearranged
<1>5. Tidy(worker) /\ Orderly(worker, worker) /\ SamePlace(worker, worker)
  BY SameOrderly DEF FilesInv, SameFiles, SamePlace
<1>6. CASE Offer
  <2> DEFINE packet == [n |-> accepted + 1, epoch |-> parent.generation,
                        context |-> parent.context]
  <2>1. /\ records' = Append(records, packet) /\ accepted' = accepted + 1
        /\ UNCHANGED worker /\ packet.n = accepted + 1
    BY <1>6 DEF Offer
  <2> HIDE DEF packet
  <2>2. /\ DOMAIN records' = 1 .. Len(records) + 1
        /\ records'[Len(records) + 1] = packet
        /\ \A k \in 1 .. Len(records) : records'[k] = records[k]
    BY <1>2, <2>1
  <2>3. Older(worker, accepted + 1) => Older(worker, accepted + 2)
    <3>1. \A i \in DOMAIN worker.segment : worker.segment[i].n \in Nat
      <4>1. worker.segment \in Seq(Packet)
        BY <1>1 DEF Loose, Worker
      <4>2. \A i \in DOMAIN worker.segment : worker.segment[i] \in Packet
        <5> HIDE DEF Packet
        <5> QED BY <4>1
      <4> QED BY <1>3, <4>2
    <3>2. \A i \in DOMAIN worker.closed : \A k \in DOMAIN worker.closed[i] :
            worker.closed[i][k].n \in Nat
      <4> DEFINE Segments == Seq(Packet)
      <4>1. worker.closed \in Seq(Segments)
        BY <1>1 DEF Loose, Worker
      <4> HIDE DEF Segments
      <4>2. \A i \in DOMAIN worker.closed : worker.closed[i] \in Segments
        BY <4>1
      <4>3. \A i \in DOMAIN worker.closed : \A k \in DOMAIN worker.closed[i] :
              worker.closed[i][k] \in Packet
        <5> HIDE DEF Packet
        <5> QED BY <4>2 DEF Segments
      <4> QED BY <1>3, <4>3
    <3> QED BY <1>2, <3>1, <3>2 DEF Older, Under
  <2>4. Older(worker', accepted' + 1)
    BY <1>2, <2>1, <2>3 DEF FilesInv, Coming
  <2>5. \A k \in DOMAIN records' : records'[k].n <= accepted' /\ Older(worker', records'[k].n)
    <3> SUFFICES ASSUME NEW k \in 1 .. Len(records) + 1
                 PROVE  records'[k].n <= accepted' /\ Older(worker', records'[k].n)
      BY <2>2
    <3>1. CASE k \in 1 .. Len(records)
      <4>1. records'[k] = records[k] /\ records[k].n \in Nat
        BY <1>2, <1>3, <2>2, <3>1
      <4> QED BY <1>2, <2>1, <3>1, <4>1 DEF FilesInv, Coming
    <3>2. CASE k = Len(records) + 1
      BY <1>2, <2>1, <2>2, <3>2 DEF FilesInv, Coming
    <3> QED BY <1>2, <3>1, <3>2
  <2>6. \A k, l \in DOMAIN records' : k < l => records'[k].n < records'[l].n
    <3> SUFFICES ASSUME NEW k \in 1 .. Len(records) + 1, NEW l \in 1 .. Len(records) + 1, k < l
                 PROVE  records'[k].n < records'[l].n
      BY <2>2
    <3>1. k \in 1 .. Len(records) /\ records'[k] = records[k] /\ records[k].n \in Nat
      BY <1>2, <1>3, <2>2
    <3>2. CASE l \in 1 .. Len(records)
      BY <1>2, <2>2, <3>1, <3>2 DEF FilesInv, Coming
    <3>3. CASE l = Len(records) + 1
      BY <1>2, <2>1, <2>2, <3>1, <3>3 DEF FilesInv, Coming
    <3> QED BY <1>2, <3>2, <3>3
  <2>7. worker'.packet # NoPacket =>
          /\ worker'.packet.n <= accepted' /\ Older(worker', worker'.packet.n)
          /\ \A k \in DOMAIN records' : worker'.packet.n < records'[k].n
    <3> SUFFICES ASSUME worker.packet # NoPacket
                 PROVE  /\ worker.packet.n <= accepted' /\ Older(worker, worker.packet.n)
                        /\ \A k \in 1 .. Len(records) + 1 : worker.packet.n < records'[k].n
      BY <2>1, <2>2
    <3>1. worker.packet.n \in Nat /\ worker.packet.n <= accepted
      BY <1>2, <1>3 DEF FilesInv, Coming
    <3>2. ASSUME NEW k \in 1 .. Len(records) + 1
          PROVE  worker.packet.n < records'[k].n
      <4>1. CASE k \in 1 .. Len(records)
        BY <1>2, <2>2, <4>1 DEF FilesInv, Coming
      <4>2. CASE k = Len(records) + 1
        BY <1>2, <2>1, <2>2, <3>1, <4>2
      <4> QED BY <1>2, <4>1, <4>2
    <3> QED BY <1>2, <2>1, <3>1, <3>2 DEF FilesInv, Coming
  <2>8. Coming'
    BY <2>4, <2>5, <2>6, <2>7 DEF Coming
  <2> QED BY <2>1, <2>8 DEF FilesInv
<1>7. CASE Get
  <2>1. /\ records # << >> /\ worker' = [worker EXCEPT !.packet = Head(records), !.pc = "got"]
        /\ records' = Tail(records) /\ UNCHANGED accepted
    BY <1>7 DEF Get, Becomes
  <2>2. SameFiles(worker, worker') /\ worker'.packet = Head(records)
    BY <1>1, <2>1 DEF SameFiles, Loose, Worker
  <2>3. /\ Len(records) \in Nat \ {0} /\ Head(records) = records[1]
        /\ 1 \in 1 .. Len(records)
        /\ DOMAIN records' = 1 .. Len(records) - 1
        /\ \A k \in 1 .. Len(records) - 1 : records'[k] = records[k + 1]
                                             /\ k + 1 \in 1 .. Len(records)
    <3> HIDE DEF Packet
    <3> QED BY <1>2, <2>1
  <2>4. Tidy(worker') /\ \A n \in Nat : Older(worker, n) => Older(worker', n)
    BY <1>5, <2>2, SameOrderly DEF Orderly
  <2>5. \A k \in 1 .. Len(records) : records[k].n \in Nat
    BY <1>2, <1>3
  <2>6. Older(worker', accepted' + 1)
    BY <1>2, <2>1, <2>4 DEF FilesInv, Coming
  <2>7. \A k \in DOMAIN records' : records'[k].n <= accepted' /\ Older(worker', records'[k].n)
    BY <1>2, <2>1, <2>3, <2>4, <2>5 DEF FilesInv, Coming
  <2>8. \A k, l \in DOMAIN records' : k < l => records'[k].n < records'[l].n
    <3> SUFFICES ASSUME NEW k \in 1 .. Len(records) - 1, NEW l \in 1 .. Len(records) - 1, k < l
                 PROVE  records'[k].n < records'[l].n
      BY <2>3
    <3>1. /\ k + 1 \in DOMAIN records /\ l + 1 \in DOMAIN records /\ k + 1 < l + 1
          /\ records'[k] = records[k + 1] /\ records'[l] = records[l + 1]
      BY <1>2, <2>3
    <3> QED BY <3>1 DEF FilesInv, Coming
  <2>9. /\ worker'.packet.n <= accepted' /\ Older(worker', worker'.packet.n)
    BY <1>2, <2>1, <2>2, <2>3, <2>4, <2>5 DEF FilesInv, Coming
  <2>10. \A k \in DOMAIN records' : worker'.packet.n < records'[k].n
    <3> SUFFICES ASSUME NEW k \in 1 .. Len(records) - 1
                 PROVE  worker'.packet.n < records'[k].n
      BY <2>3
    <3>1. /\ 1 \in DOMAIN records /\ k + 1 \in DOMAIN records /\ 1 < k + 1
          /\ records'[k] = records[k + 1] /\ worker'.packet = records[1]
      BY <1>2, <2>2, <2>3
    <3> QED BY <3>1 DEF FilesInv, Coming
  <2>11. Coming'
    BY <2>6, <2>7, <2>8, <2>9, <2>10 DEF Coming
  <2> QED BY <2>4, <2>11 DEF FilesInv
<1>8. CASE Store
  <2> DEFINE s == Synchronized(worker)
  <2>1. s \in Loose /\ SamePlace(worker, s)
    BY <1>1, SynchronizedKeeps
  <2>2. SameFiles(worker, s)
    BY <1>1 DEF Synchronized, SameFiles, Loose, Worker
  <2>3. PICK w \in Stores(s, s.packet) : worker' = [w EXCEPT !.pc = "rest"]
    BY <1>8, <2>1 DEF Store, Becomes, SamePlace
  <2>4. worker.packet # NoPacket /\ s.packet = worker.packet /\ UNCHANGED <<records, accepted>>
    BY <1>1, <1>8, <2>1 DEF Store, At, Hand, SamePlace
  <2> HIDE DEF s
  <2>5. /\ Tidy(s) /\ worker.packet.n \in Nat
        /\ \A n \in Nat : Older(worker, n) => Older(s, n)
    BY <1>2, <1>3, <1>5, <2>2, SameOrderly DEF Orderly
  <2>6. Older(s, s.packet.n)
    BY <2>4, <2>5 DEF FilesInv, Coming
  <2>7. /\ Tidy(w)
        /\ \A n \in Nat : worker.packet.n < n /\ Older(worker, n) => Older(w, n)
    BY <2>1, <2>3, <2>4, <2>5, <2>6, StoresOrderly
  <2>8. w \in Loose /\ w.packet = NoPacket
    BY <2>1, <2>3, StoresCount
  <2>9. SameFiles(w, worker') /\ worker'.packet = NoPacket
    BY <2>3, <2>8 DEF SameFiles, Loose, Worker
  <2>10. /\ Tidy(worker')
         /\ \A n \in Nat : worker.packet.n < n /\ Older(worker, n) => Older(worker', n)
    BY <2>7, <2>9, SameOrderly DEF Orderly
  <2>11. Older(worker', accepted' + 1)
    BY <1>2, <2>4, <2>5, <2>10 DEF FilesInv, Coming
  <2>12. \A k \in DOMAIN records' : records'[k].n <= accepted' /\ Older(worker', records'[k].n)
    <3>1. \A k \in DOMAIN records : records[k].n \in Nat
      BY <1>2, <1>3
    <3> QED BY <2>4, <2>10, <3>1 DEF FilesInv, Coming
  <2>13. Coming'
    BY <2>4, <2>9, <2>11, <2>12 DEF FilesInv, Coming
  <2> QED BY <2>10, <2>13 DEF FilesInv
<1>9. CASE Empty
  <2>1. UNCHANGED <<records, accepted>>
    BY <1>9 DEF Empty
  <2>2. PICK w \in {worker, Finish(worker)} \cup Failures(worker, worker.epoch) :
          \E pc \in {"leave", "rest"} : worker' = [w EXCEPT !.pc = pc]
    BY <1>9 DEF Empty, Becomes
  <2>3. w \in Loose /\ SamePlace(worker, w) /\ Orderly(worker, w)
    BY <1>1, <1>5, FinishKeeps, FailuresKeep, FinishOrderly, FailuresOrderly
  <2> QED BY <1>4, <2>1, <2>2, <2>3
<1>10. CASE Rest
  <2>1. UNCHANGED <<records, accepted>>
    BY <1>10 DEF Rest
  <2>2. PICK w \in {worker, CloseSegment(worker)} \cup Failures(worker, worker.epoch) :
          worker' = [w EXCEPT !.pc = "sync"]
    BY <1>10 DEF Rest, Becomes
  <2>3. w \in Loose /\ SamePlace(worker, w) /\ Orderly(worker, w)
    BY <1>1, <1>5, CloseSegmentKeeps, FailuresKeep, CloseOrderly, FailuresOrderly
  <2> QED BY <1>4, <2>1, <2>2, <2>3
<1>11. CASE Leave
  <2>1. UNCHANGED <<records, accepted>>
    BY <1>11 DEF Leave
  <2>2. PICK w \in {Finish(worker)} \cup Failures(worker, worker.failed) :
          worker' = [[w EXCEPT !.enabled = FALSE] EXCEPT !.pc = "final"]
    BY <1>11 DEF Leave, Becomes
  <2>3. w \in Loose /\ SamePlace(worker, w) /\ Orderly(worker, w)
    BY <1>1, <1>5, FinishKeeps, FailuresKeep, FinishOrderly, FailuresOrderly
  <2> DEFINE x == [w EXCEPT !.enabled = FALSE]
  <2>4. x \in Loose /\ SamePlace(w, x) /\ SameFiles(w, x)
    BY <2>3 DEF SamePlace, SameFiles, Loose, Worker
  <2>5. worker' = [x EXCEPT !.pc = "final"]
    BY <2>2
  <2> HIDE DEF x
  <2>6. Orderly(w, x) /\ SamePlace(worker, x)
    BY <2>3, <2>4, SameOrderly DEF Orderly, SamePlace
  <2>7. Orderly(worker, x)
    BY <2>3, <2>6, OrderlyThen
  <2> QED BY <1>4, <2>1, <2>4, <2>5, <2>6, <2>7
<1>12. CASE Sync
  <2> DEFINE s == Synchronized(worker)
             x == [s EXCEPT !.stop = control.stop]
  <2>1. s \in Loose /\ SamePlace(worker, s)
    BY <1>1, SynchronizedKeeps
  <2>2. SameFiles(worker, s)
    BY <1>1 DEF Synchronized, SameFiles, Loose, Worker
  <2>3. worker' = [x EXCEPT !.pc = "get"] /\ UNCHANGED <<records, accepted>>
    BY <1>12 DEF Sync, Becomes
  <2> HIDE DEF s
  <2>4. SameFiles(worker, worker') /\ worker'.packet = worker.packet
    BY <2>1, <2>2, <2>3 DEF SameFiles, SamePlace, Loose, Worker
  <2> QED BY <2>3, <2>4, FilesStay
<1>13. ASSUME NEW pc, worker' = [worker EXCEPT !.pc = pc], UNCHANGED <<records, accepted>>
       PROVE  FilesInv'
  BY <1>1, <1>4, <1>5, <1>13
<1>14. ASSUME UNCHANGED <<worker, records, accepted>>
       PROVE  FilesInv'
  BY <1>14 DEF FilesInv, Coming
<1>15. CASE GiveBack \/ GetNothing \/ CloseKills
  BY <1>13, <1>15 DEF GiveBack, GetNothing, CloseKills, Becomes
<1>18. CASE LastReport
  <2>1. \/ worker' = [[worker EXCEPT !.told = TRUE] EXCEPT !.pc = "exited"]
        \/ worker' = [worker EXCEPT !.pc = "exited"]
    BY <1>18 DEF LastReport, Becomes
  <2>2. SameFiles(worker, worker') /\ worker'.packet = worker.packet
    BY <1>1, <2>1 DEF SameFiles, Loose, Worker
  <2>3. UNCHANGED <<records, accepted>>
    BY <1>18 DEF LastReport
  <2> QED BY <2>2, <2>3, FilesStay
<1>16. CASE Crash
  BY <1>13, <1>14, <1>16 DEF Crash, Becomes
<1>17. CASE \/ OfferCounted \/ NewContext \/ BadBlock \/ SetEnabled \/ Read \/ Close \/ CloseEnds
            \/ CloseFindsDead \/ UNCHANGED vars
  BY <1>14, <1>17 DEF OfferCounted, NewContext, BadBlock, SetEnabled, Read, Close, CloseEnds,
                      CloseFindsDead, vars
<1> QED BY <1>6, <1>7, <1>8, <1>9, <1>10, <1>11, <1>12, <1>15, <1>16, <1>17,
          <1>18 DEF Next, Work, Parent

LEMMA InitFiles == Init => FilesInv
<1> SUFFICES ASSUME Init
             PROVE  FilesInv
  OBVIOUS
<1>1. /\ worker.segment = << >> /\ worker.closed = << >> /\ worker.packet = NoPacket
      /\ records = << >>
  BY DEF Init, EmptySegment
<1> QED BY <1>1 DEF FilesInv, Tidy, Coming, Older, Under, Alike, EmptySegment

\* A file holds one generation's and one context's packets, in order and once,
\* and closed files follow each other, whatever rotates, fails or is switched
\* (_close_segment, the generation and context tests of write()).
THEOREM SegmentsArePure == Spec => []SegmentsPure
<1>1. FilesInv /\ IInv => SegmentsPure
  <2> SUFFICES ASSUME FilesInv, IInv
               PROVE  SegmentsPure
    OBVIOUS
  <2> DEFINE Segments == Seq(Packet)
             closed == worker.closed
             all == closed \o <<worker.segment>>
  <2>1. closed \in Seq(Segments) /\ worker.segment \in Segments
    BY ExportAssumption, WorkerFacts DEF Loose, Worker
  <2> HIDE DEF Segments
  <2>2. /\ Len(closed) \in Nat /\ DOMAIN all = 1 .. Len(closed) + 1
        /\ DOMAIN closed = 1 .. Len(closed)
        /\ all[Len(closed) + 1] = worker.segment
        /\ \A i \in 1 .. Len(closed) : all[i] = closed[i]
    <3> HIDE DEF closed
    <3> QED BY <2>1
  <2>3. \A i \in DOMAIN all : Alike(all[i])
    BY <2>2 DEF FilesInv, Tidy
  <2>4. ASSUME NEW i \in DOMAIN all, NEW j \in DOMAIN all, i < j
        PROVE  Ahead(all[i], all[j])
    <3>1. i \in 1 .. Len(closed) /\ (j \in 1 .. Len(closed) \/ j = Len(closed) + 1)
      BY <2>2, <2>4
    <3> QED BY <2>2, <2>4, <3>1 DEF FilesInv, Tidy
  <2> HIDE DEF all
  <2>5. ASSUME NEW i \in DOMAIN all, NEW j \in DOMAIN all, NEW k \in DOMAIN all[i],
               NEW l \in DOMAIN all[j]
        PROVE  /\ i < j \/ (i = j /\ k < l) => all[i][k].n < all[j][l].n
               /\ i = j => /\ all[i][k].epoch = all[j][l].epoch
                           /\ all[i][k].context = all[j][l].context
    BY <2>3, <2>4 DEF Alike, Ahead
  <2> QED BY <2>5 DEF SegmentsPure, all
<1>2. IInv /\ FilesInv /\ [Next]_vars => FilesInv'
  BY FilesStep, ExportAssumption
<1> QED BY <1>1, <1>2, InitFiles, Invariance, PTL DEF Spec
=============================================================================
