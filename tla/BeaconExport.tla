---------------------------- MODULE BeaconExport ----------------------------
(***************************************************************************)
(* Beacon export (beacon_export.py): the producer on the packet path and   *)
(* the controls of run_live's loop (BeaconExport), a bounded queue with a  *)
(* shared byte count, and the spawned writer process (_export_worker with  *)
(* its RotatingBeaconWriter).                                              *)
(*                                                                         *)
(* A packet weighs one unit of the byte budget; its interface context is a *)
(* number.  A generation is one period between two switchings of export.   *)
(*                                                                         *)
(* The worker's loop:                                                      *)
(*   "sync"   synchronize() with the shared control                        *)
(*   "get"    waiting 50 ms for a packet                                   *)
(*   "got"    a packet in hand, its bytes still counted as pending         *)
(*   "write"  its bytes given back, the packet not yet written             *)
(*   "empty"  the wait ended with nothing                                  *)
(*   "rest"   maintain() and report()                                      *)
(*   "final"  the last segment closed, the last report not yet delivered   *)
(*   "exited" / "killed"                                                   *)
(***************************************************************************)
EXTENDS Integers, Sequences, SequencesExt

CONSTANTS
  MaxPackets,    \* bound: packets accepted
  MaxGeneration, \* bound: switchings of export
  MaxContext,    \* bound: context changes
  QueueCap,      \* queue_records, and queue_bytes in units of a packet
  Faults         \* whether storage, metadata, locks and processes fail

ASSUME ExportAssumption ==
  /\ MaxPackets \in Nat /\ MaxGeneration \in Nat /\ MaxContext \in Nat
  /\ QueueCap \in Nat \ {0} /\ Faults \in BOOLEAN

ReportCap == 2    \* maxsize of the report queue

VARIABLES
  parent,    \* BeaconExport: requested, generation, context, error, stage, and
             \* what its death left taken
  lock,      \* pending_bytes' lock is held by offer()
  control,   \* the shared array: generation, enabled, stop
  pending,   \* the shared count of unwritten bytes
  records,   \* packets in the queue
  accepted,  \* packets ever put into the queue
  worker,    \* the writer process
  reports,   \* what it has reported and the parent has not read
  seen       \* the report the parent read last

vars == <<parent, lock, control, pending, records, accepted, worker, reports, seen>>

NoPacket == [n |-> 0, epoch |-> 0, context |-> 0]
NoReport == [exported |-> 0, skipped |-> 0]
EmptySegment == << >>

Init ==
  /\ \E on \in BOOLEAN :
       /\ parent = [requested |-> on, generation |-> 0, context |-> 0,
                    error |-> "none", stage |-> "open", left |-> {}]
       /\ control = [generation |-> 0, enabled |-> on, stop |-> FALSE]
  /\ lock = FALSE /\ pending = 0 /\ records = << >> /\ accepted = 0
  /\ worker = [pc |-> "sync", generation |-> -1, enabled |-> FALSE, stop |-> FALSE,
               failed |-> -1, error |-> FALSE, packet |-> NoPacket, epoch |-> -1,
               open |-> FALSE, segment |-> EmptySegment, closed |-> << >>,
               exported |-> 0, skipped |-> 0, told |-> FALSE]
  /\ reports = << >> /\ seen = NoReport

-----------------------------------------------------------------------------
(* The parent: offer() on the packet path; set_enabled, read and close on  *)
(* run_live's loop.  One lock serializes offer, set_enabled and close.     *)

At(pc) == worker.pc = pc

Alive == ~At("exited") /\ ~At("killed")

Serving == parent.stage = "open" /\ ~lock

Exporting == Serving /\ parent.error = "none"

\* A beacon is put on the queue, with the count's lock held until it is
\* counted.  A busy lock, a spent budget or a full queue skips it.
Offer ==
  /\ Exporting /\ parent.requested /\ Alive
  /\ accepted < MaxPackets
  /\ pending < QueueCap /\ Len(records) < QueueCap
  /\ lock' = TRUE
  /\ accepted' = accepted + 1
  /\ records' = Append(records, [n |-> accepted + 1, epoch |-> parent.generation,
                                 context |-> parent.context])
  /\ UNCHANGED <<parent, control, pending, worker, reports, seen>>

OfferCounted ==
  /\ lock /\ parent.stage # "dead"
  /\ lock' = FALSE
  /\ pending' = pending + 1
  /\ UNCHANGED <<parent, control, records, accepted, worker, reports, seen>>

\* A new section or interface block.
NewContext ==
  /\ Exporting /\ parent.context < MaxContext
  /\ parent' = [parent EXCEPT !.context = @ + 1]
  /\ UNCHANGED <<lock, control, pending, records, accepted, worker, reports, seen>>

\* A block that cannot be classified ends this branch; the worker is told
\* when the control's lock is free.
BadBlock ==
  /\ Faults /\ Exporting
  /\ parent' = [parent EXCEPT !.error = "metadata"]
  /\ \/ UNCHANGED control
     \/ control' = [control EXCEPT !.generation = @ + 1, !.enabled = FALSE]
  /\ UNCHANGED <<lock, pending, records, accepted, worker, reports, seen>>

\* The control's lock may stay busy for the 10 ms this waits.
SetEnabled ==
  /\ Serving /\ parent.generation < MaxGeneration
  /\ LET p == [parent EXCEPT !.requested = ~@, !.generation = @ + 1]
     IN \/ /\ parent' = p
           /\ control' = [control EXCEPT !.generation = p.generation,
                                         !.enabled = p.requested]
        \/ /\ Faults
           /\ parent' = [p EXCEPT !.error = "control"]
           /\ UNCHANGED control
  /\ UNCHANGED <<lock, pending, records, accepted, worker, reports, seen>>

\* The first k reports are read, the last of them stays.
Takes(k) ==
  /\ seen' = IF k = 0 THEN seen ELSE reports[k]
  /\ reports' = SubSeq(reports, k + 1, Len(reports))

\* read(): the newest report that has left the worker's buffer.  A worker found
\* dead is an error.
Read ==
  /\ parent.stage \in {"open", "closing"}
  /\ IF parent.stage = "open" /\ ~Alive
       THEN /\ parent' = [parent EXCEPT !.error = IF @ = "none" THEN "worker" ELSE @]
            /\ UNCHANGED <<reports, seen>>
       ELSE /\ \E k \in 1..Len(reports) : Takes(k)
            /\ UNCHANGED parent
  /\ UNCHANGED <<lock, control, pending, records, accepted, worker>>

Close ==
  /\ Serving
  /\ parent' = [parent EXCEPT !.stage = "closing"]
  /\ \/ control' = [control EXCEPT !.stop = TRUE]
     \/ Faults /\ UNCHANGED control
  /\ UNCHANGED <<lock, pending, records, accepted, worker, reports, seen>>

\* Mutant: a worker found gone is not read once more.
CloseEndsUnread ==
  /\ parent.stage = "closing" /\ At("exited")
  /\ parent' = [parent EXCEPT !.stage = "closed"]
  /\ UNCHANGED <<lock, control, pending, records, accepted, worker, reports, seen>>

\* The worker is gone and all it wrote is there: one last read.
CloseEnds ==
  /\ parent.stage = "closing" /\ At("exited")
  /\ parent' = [parent EXCEPT !.stage = "closed"]
  /\ Takes(Len(reports))
  /\ UNCHANGED <<lock, control, pending, records, accepted, worker>>

\* A killed one may have left half a report: nothing is read.
CloseFindsDead ==
  /\ parent.stage = "closing" /\ At("killed")
  /\ parent' = [parent EXCEPT !.stage = "closed",
                              !.error = IF @ = "none" THEN "worker" ELSE @]
  /\ UNCHANGED <<lock, control, pending, records, accepted, worker, reports, seen>>

\* Mutant: a worker that outlasts its 2 s is waited for only if it was told to stop.
KillableOnceTold == Alive /\ control.stop

Killable == Alive

\* The worker outlasts its 2 s: it is terminated and its reports left alone.
CloseKills ==
  /\ parent.stage = "closing" /\ Killable
  /\ parent' = [parent EXCEPT !.stage = "closed", !.error = "timeout"]
  /\ worker' = [worker EXCEPT !.pc = "killed"]
  /\ UNCHANGED <<lock, control, pending, records, accepted, reports, seen>>

-----------------------------------------------------------------------------
(* The worker's storage: a segment is the packets of its partial file.     *)

\* Mutant: the packets of a discarded file are forgotten.
DiscardUncounted(w) == [w EXCEPT !.segment = EmptySegment, !.open = FALSE]

\* abort(): the partial file and what it held are given up.
Discard(w) ==
  [w EXCEPT !.skipped = @ + Len(w.segment), !.segment = EmptySegment, !.open = FALSE]

\* close_segment(): the partial file gets its final name and is registered.
CloseSegment(w) ==
  IF w.segment = EmptySegment THEN w
  ELSE [w EXCEPT !.exported = @ + Len(w.segment), !.closed = Append(@, w.segment),
                 !.segment = EmptySegment]

Finish(w) == [CloseSegment(w) EXCEPT !.open = FALSE]

\* An OSError of the given generation: valid output is closed after a low-disk
\* check, discarded after anything else and when closing fails too.
Failures(w, epoch) ==
  IF ~Faults THEN {}
  ELSE {[x EXCEPT !.error = TRUE, !.failed = IF epoch > @ THEN epoch ELSE @] :
          x \in {Finish(w), Discard(w)}}

\* Mutant: a writer once open serves every generation.
WriterMissing(w, packet) == ~w.open

\* A generation starts with a writer of its own.
NeedsWriter(w, packet) == ~w.open \/ packet.epoch # w.epoch

\* write(): a change of context, the size limit or the rotation deadline closes
\* the segment before the packet goes into the next.
Added(w, packet) == [w EXCEPT !.segment = Append(@, packet), !.packet = NoPacket]

Writes(w, packet) ==
  LET ready == IF NeedsWriter(w, packet)
                 THEN [Finish(w) EXCEPT !.open = TRUE, !.epoch = packet.epoch] ELSE w
      fresh == {CloseSegment(ready)}
      same  == IF ready.segment # EmptySegment /\ ready.segment[1].context # packet.context
                 THEN {} ELSE {ready}
  IN {Added(x, packet) : x \in fresh \cup same}

Skipped(w) == [w EXCEPT !.skipped = @ + 1, !.packet = NoPacket]

\* A packet of a generation that has failed is skipped.
Stores(w, packet) ==
  IF packet.epoch <= w.failed THEN {Skipped(w)}
  ELSE Writes(w, packet) \cup Failures(Skipped(w), packet.epoch)

Status == [exported |-> worker.exported, skipped |-> worker.skipped]

-----------------------------------------------------------------------------
(* The worker's loop.                                                      *)

Becomes(w, pc) == worker' = [w EXCEPT !.pc = pc]

\* synchronize(): a new generation; switching export on forgives an error.
Synchronized(w) ==
  IF control.generation = w.generation THEN w
  ELSE [w EXCEPT !.generation = control.generation, !.enabled = control.enabled,
                 !.error = @ /\ ~control.enabled]

\* What the dead owner held when it died is never free again.
Taken(what) == what \in parent.left

Sync ==
  /\ At("sync") /\ ~Taken("control")
  /\ Becomes([Synchronized(worker) EXCEPT !.stop = control.stop], "get")
  /\ UNCHANGED <<parent, lock, control, pending, records, accepted, reports, seen>>

\* A record that was half sent when its sender died keeps its reader waiting.
Get ==
  /\ At("get") /\ records # << >>
  /\ Taken("record") => Len(records) > 1
  /\ Becomes([worker EXCEPT !.packet = Head(records)], "got")
  /\ records' = Tail(records)
  /\ UNCHANGED <<parent, lock, control, pending, accepted, reports, seen>>

\* Nothing came within 50 ms: the queue's pipe may still be on its way.
GetNothing ==
  /\ At("get") /\ ~Taken("record")
  /\ Becomes(worker, "empty")
  /\ UNCHANGED <<parent, lock, control, pending, records, accepted, reports, seen>>

\* Mutant: the count is changed without its lock.
MayCountAnyway == TRUE

MayCount == ~lock /\ ~Taken("count")

\* Mutant: a packet that is skipped keeps its bytes.
GiveBackIfStored ==
  /\ At("got") /\ MayCount
  /\ pending' = IF worker.packet.epoch <= worker.failed THEN pending ELSE pending - 1
  /\ Becomes(worker, "write")
  /\ UNCHANGED <<parent, lock, control, records, accepted, reports, seen>>

GiveBack ==
  /\ At("got") /\ MayCount
  /\ pending' = pending - 1
  /\ Becomes(worker, "write")
  /\ UNCHANGED <<parent, lock, control, records, accepted, reports, seen>>

\* synchronize() again, then the packet.
Store ==
  /\ At("write") /\ ~Taken("control")
  /\ \E w \in Stores(Synchronized(worker), worker.packet) : Becomes(w, "rest")
  /\ UNCHANGED <<parent, lock, control, pending, records, accepted, reports, seen>>

Orphaned == parent.stage = "dead"

\* Mutant: only a stop is waited for.
LeavesWhenTold(drained) == worker.stop /\ drained

Leaves(drained) == Orphaned \/ (worker.stop /\ drained)

\* Mutant: switching export off leaves its file open.
ClosesAtStop(drained) == drained /\ worker.stop

Closes(drained) == drained /\ ~worker.enabled

Empty ==
  /\ At("empty") /\ MayCount
  /\ LET drained == pending = 0
         next == IF Leaves(drained) THEN "leave" ELSE "rest"
     IN IF Closes(drained) /\ worker.open
          THEN \/ Becomes(Finish(worker), next)
               \/ \E w \in Failures(worker, worker.epoch) : Becomes(w, "rest")
          ELSE Becomes(worker, next)
  /\ UNCHANGED <<parent, lock, control, pending, records, accepted, reports, seen>>

\* maintain() may close a segment by age; report() is due or not, and leaves
\* an unread report alone when there is no room.
Rest ==
  /\ At("rest")
  /\ \E w \in {worker, CloseSegment(worker)}
              \cup IF worker.segment = EmptySegment THEN {} ELSE Failures(worker, worker.epoch) :
       Becomes(w, "sync")
  /\ \/ UNCHANGED reports
     \/ Len(reports) < ReportCap
        /\ reports' = Append(reports, [exported |-> worker'.exported, skipped |-> worker'.skipped])
  /\ UNCHANGED <<parent, lock, control, pending, records, accepted, seen>>

\* The loop is left: the last segment is closed or given up, and older reports
\* are withdrawn as far as they have not left the queue.
Leave ==
  /\ At("leave")
  /\ \E w \in {Finish(worker)} \cup Failures(worker, worker.failed) :
       Becomes([w EXCEPT !.enabled = FALSE], "final")
  /\ reports' \in {SubSeq(reports, k + 1, Len(reports)) : k \in 0..Len(reports)}
  /\ UNCHANGED <<parent, lock, control, pending, records, accepted, seen>>

\* The last report waits 0.2 s for the room that close() makes by reading, and
\* is given up after that.
LastReport ==
  /\ At("final") /\ ~Taken("report")
  /\ \/ /\ Len(reports) < ReportCap
        /\ reports' = Append(reports, Status)
        /\ Becomes([worker EXCEPT !.told = TRUE], "exited")
     \/ /\ Len(reports) = ReportCap
        /\ Becomes(worker, "exited")
        /\ UNCHANGED reports
  /\ UNCHANGED <<parent, lock, control, pending, records, accepted, seen>>

\* What a dying owner can leave taken for good: the count's lock, in read() or
\* offer(); the control's lock, in set_enabled(), close() or offer(); a record
\* half sent; and, by not reading on, the worker's last report half sent.  One
\* of them at a time: with two the worker gets no further than with one.
Leavable ==
  (IF lock THEN {} ELSE {"count"})
    \cup (IF lock \/ parent.stage # "open" THEN {} ELSE {"control"})
    \cup (IF records = << >> THEN {} ELSE {"record"})
    \cup (IF At("final") THEN {"report"} ELSE {})

\* The worker or its parent, the capture owner, dies; the locks the parent then
\* holds, semaphores of the kernel, are never released.
Crash ==
  /\ Faults
  /\ \/ Alive /\ Becomes(worker, "killed") /\ UNCHANGED parent
     \/ /\ parent.stage # "dead"
        /\ \E left \in {{}} \cup {{what} : what \in Leavable} :
             parent' = [parent EXCEPT !.stage = "dead", !.left = left]
        /\ UNCHANGED worker
  /\ UNCHANGED <<lock, control, pending, records, accepted, reports, seen>>

-----------------------------------------------------------------------------
Work ==
  \/ Sync \/ Get \/ GiveBack \/ Store \/ Empty \/ Rest \/ Leave \/ LastReport

Parent ==
  \/ Offer \/ OfferCounted \/ NewContext \/ BadBlock \/ SetEnabled
  \/ Read \/ Close \/ CloseEnds \/ CloseFindsDead \/ CloseKills

Next == Work \/ GetNothing \/ Parent \/ Crash

Spec == Init /\ [][Next]_vars

\* The worker runs; a queue that keeps having packets yields one, while its
\* parent's feeder thread lives; offer() returns; close() reads while it waits,
\* and its 2 s end.
Fairness ==
  /\ WF_vars(Work \/ GetNothing) /\ SF_vars(Get /\ parent.stage # "dead")
  /\ WF_vars(OfferCounted)
  /\ WF_vars(parent.stage = "closing" /\ Read)
  /\ WF_vars(CloseEnds \/ CloseFindsDead \/ CloseKills)

LiveSpec == Spec /\ Fairness

-----------------------------------------------------------------------------
Packet == [n : 0..MaxPackets, epoch : 0..MaxGeneration, context : 0..MaxContext]
Report == [exported : 0..MaxPackets, skipped : 0..MaxPackets]

Worker(Count) ==
  [pc : {"sync", "get", "got", "write", "empty", "rest", "leave", "final", "exited", "killed"},
   generation : -1..MaxGeneration + 1, enabled : BOOLEAN, stop : BOOLEAN,
   failed : -1..MaxGeneration, error : BOOLEAN, packet : Packet,
   epoch : -1..MaxGeneration, open : BOOLEAN, segment : Seq(Packet),
   closed : Seq(Seq(Packet)), exported : Count, skipped : Count, told : BOOLEAN]

TypeOK ==
  /\ parent \in [requested : BOOLEAN, generation : 0..MaxGeneration,
                 context : 0..MaxContext,
                 error : {"none", "metadata", "control", "worker", "timeout"},
                 stage : {"open", "closing", "closed", "dead"},
                 left : SUBSET {"count", "control", "record", "report"}]
  /\ lock \in BOOLEAN
  /\ control \in [generation : 0..MaxGeneration + 1, enabled : BOOLEAN, stop : BOOLEAN]
  /\ pending \in 0..QueueCap
  /\ records \in Seq(Packet) /\ Len(records) <= QueueCap
  /\ accepted \in 0..MaxPackets
  /\ worker \in Worker(0..MaxPackets)
  /\ reports \in Seq(Report) /\ Len(reports) <= ReportCap
  /\ seen \in Report

InHand == IF worker.packet = NoPacket THEN 0 ELSE 1

\* The packets a worker has disposed of, or has in its open file.
Held(w) == Len(w.segment) + w.exported + w.skipped

\* Every packet accepted is in exactly one place: queued, in hand, in the open
\* file, in a closed one, or counted as skipped, whatever fails.
Accounted == accepted = Len(records) + InHand + Held(worker)

\* The shared count is what offer() has accepted and the worker not taken up,
\* so that "drained" means that no accepted packet is outstanding.
PendingExact ==
  worker.pc # "killed" =>
    pending = Len(records) + (IF At("got") THEN 1 ELSE 0) - (IF lock THEN 1 ELSE 0)

\* A file holds packets of one generation and one context, in order, and each
\* closed file only packets newer than the files before it.
SegmentsPure ==
  LET all == worker.closed \o <<worker.segment>> IN
  \A i, j \in DOMAIN all : \A k \in DOMAIN all[i], l \in DOMAIN all[j] :
    /\ i < j \/ (i = j /\ k < l) => all[i][k].n < all[j][l].n
    /\ i = j => all[i][k].epoch = all[j][l].epoch /\ all[i][k].context = all[j][l].context

\* A worker that leaves by itself has written or skipped all it was given.
ExitDrained == At("exited") /\ parent.stage # "dead" => records = << >>

\* One report says no more than another.
UpTo(a, b) == a.exported <= b.exported /\ a.skipped <= b.skipped

\* The published counts never go back and never say more than the worker has
\* done, whichever reports are dropped, withdrawn or late; and after close()
\* they are the worker's last ones, unless it had to give its last report up.
FinalStatus ==
  LET said == <<seen>> \o reports \o <<Status>> IN
  /\ \A i, j \in DOMAIN said : i < j => UpTo(said[i], said[j])
  /\ parent.stage = "closed" /\ At("exited") /\ worker.told => seen = Status

\* Switching export off closes its file, once what was accepted is written,
\* unless the control could not be told, the owner died or export is on again.
StopCloses ==
  ~parent.requested /\ parent.error = "none" /\ parent.stage = "open" ~>
    \/ ~worker.open \/ ~Alive
    \/ parent.requested \/ parent.error # "none" \/ parent.stage # "open"

\* The owner died at a moment from which its worker cannot go on.
Stranded == parent.stage = "dead" /\ (lock \/ parent.left # {})

\* close() ends, and the worker with it.
CloseCompletes ==
  parent.stage = "closing" ~> Stranded \/ (~Alive /\ parent.stage # "closing")

\* An abandoned worker exits on its own, unless its parent died holding a lock
\* of theirs or in the middle of a message between them.
OrphanLeaves == parent.stage = "dead" /\ ~Stranded ~> ~Alive
=============================================================================
