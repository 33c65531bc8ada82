------------------------ MODULE LoggingServiceProofs ------------------------
(***************************************************************************)
(* What holds of live logging for every number of records, queue capacity, *)
(* batch size, number of segments and of interrupts, with or without disk  *)
(* faults: closed segments are drained, a write failure stays with its     *)
(* segment, and the files are an ordered sample of what was offered        *)
(* (SampledLog).                                                           *)
(*                                                                         *)
(* A record on its way is in one of three places, the newest file, the     *)
(* writer thread's batch or the queue.  Read in that order they are what   *)
(* the segment accepted, until a write fails or a signal cuts a stop       *)
(* short; and in that order they stay increasing, whatever happens.        *)
(***************************************************************************)
EXTENDS LoggingService, SequenceTheorems, TLAPS

Busy == loop \in {"put", "join", "close"}
Cut == cause = "cut"
Current == files[Newest]

Numbers == 1 .. MaxRecords

File ==
  [rows : Seq(Numbers), ended : BOOLEAN, open : BOOLEAN, whole : BOOLEAN,
   told : SUBSET Updates, accepted : Seq(Numbers)]

Service ==
  [active : BOOLEAN, failed : BOOLEAN, sampling : BOOLEAN, linked : BOOLEAN,
   due : SUBSET {"disk", "rotation"}]

Writer ==
  [pc : {"none", "get", "batch", "write", "exited"}, batch : Seq(Numbers),
   stop : BOOLEAN, failed : BOOLEAN]

\* Every variable keeps its type.
TypeOK ==
  /\ loop \in {"input", "maintain", "put", "join", "close", "reopen", "ending", "gone",
               "exited"}
  /\ why \in {"none", "stop", "rotate", "lowdisk", "end"}
  /\ service \in Service
  /\ worker \in Writer
  /\ queue \in Seq(Numbers \cup {StopMark})
  /\ files \in Seq(File)
  /\ offered \in 0 .. MaxRecords
  /\ control \in [wanted : BOOLEAN, only : BOOLEAN]
  /\ latched \in BOOLEAN
  /\ signals \in Nat
  /\ cause \in {"none", "source", "logging", "interrupt", "cut"}

-----------------------------------------------------------------------------
(* Types.                                                                  *)

\* A new segment is a file, whatever has been offered.
LEMMA SegmentType ==
  ASSUME TypeOK
  PROVE  Segment \in File
BY LoggingAssumption DEF Segment, File, UpdatesUpTo

\* So is the newest file with rows added to it.
LEMMA WrittenType ==
  ASSUME NEW file \in File, NEW batch \in Seq(Numbers)
  PROVE  /\ Written(file, batch) \in File
         /\ Written(file, batch).rows = file.rows \o batch
         /\ Written(file, batch).ended = file.ended
         /\ Written(file, batch).open = file.open
         /\ Written(file, batch).whole = file.whole
         /\ Written(file, batch).accepted = file.accepted
<1>1. file.rows \o batch \in Seq(Numbers)
  <2>1. file.rows \in Seq(Numbers)
    BY DEF File
  <2> HIDE DEF Numbers
  <2> QED BY <2>1
<1> DEFINE told == file.told \cup (Updates \cap Range(batch))
           rows == file.rows \o batch
<1>2. told \in SUBSET Updates
  BY DEF File
<1>3. Written(file, batch) = [file EXCEPT !.rows = rows, !.told = told]
  BY DEF Written
<1> HIDE DEF told, rows, Numbers
<1>4. rows \in Seq(Numbers)
  BY <1>1 DEF rows
<1>5. Written(file, batch) \in File
  BY <1>2, <1>3, <1>4 DEF File
<1> QED BY <1>3, <1>5 DEF File, rows

\* The newest file replaced by another.
LEMMA NewestReplaced ==
  ASSUME TypeOK, files # << >>, NEW file \in File
  PROVE  /\ [files EXCEPT ![Newest] = file] \in Seq(File)
         /\ Len([files EXCEPT ![Newest] = file]) = Newest
         /\ Newest \in DOMAIN files /\ Newest \in Nat /\ Newest > 0
         /\ Current \in File
         /\ [files EXCEPT ![Newest] = file][Newest] = file
         /\ \A i \in DOMAIN files : i < Newest => [files EXCEPT ![Newest] = file][i] = files[i]
<1> HIDE DEF File
<1> QED BY DEF TypeOK, Newest, Current

\* A segment is opened before anything else happens to logging.
Begun == files = << >> => service = Off /\ worker = NoWorker /\ queue = << >> /\ ~Busy

\* The writer is being stopped, for a reason.
Reasoned == why = "none" <=> ~Busy

LEMMA OpensType ==
  ASSUME TypeOK, NEW active \in BOOLEAN, NEW due \in SUBSET {"disk", "rotation"},
         Opens(active, due)
  PROVE  /\ service' \in Service /\ worker' \in Writer
         /\ queue' \in Seq(Numbers \cup {StopMark}) /\ files' \in Seq(File)
         /\ files' # << >>
<1>1. Segment \in File
  BY SegmentType
<1>2. files' \in Seq(File) /\ files' # << >>
  <2> HIDE DEF File
  <2> QED BY <1>1 DEF Opens, TypeOK
<1>3. worker' \in Writer
  <2>1. worker' = [pc |-> "get", batch |-> << >>, stop |-> FALSE, failed |-> FALSE]
    BY DEF Opens, NoWorker
  <2> QED BY <2>1 DEF Writer
<1> QED BY <1>2, <1>3 DEF Opens, Service

LEMMA BeginStopType ==
  ASSUME TypeOK, NEW reason \in {"stop", "rotate", "lowdisk", "end"}, BeginStop(reason)
  PROVE  /\ loop' \in {"put", "close"} /\ why' = reason /\ service' \in Service
BY DEF BeginStop, TypeOK, Service

\* Records are offered in the order of their numbers.
LEMMA OfferNext ==
  ASSUME TypeOK, Offer
  PROVE  /\ offered + 1 \in Numbers /\ Enqueued(offered + 1) /\ UNCHANGED worker
         /\ offered' = offered + 1
<1>1. offered \in 0 .. MaxRecords
  BY DEF TypeOK
<1>2. offered < MaxRecords /\ Enqueued(offered + 1) /\ UNCHANGED worker
  BY DEF Offer
<1>3. offered' = offered + 1
  BY <1>2 DEF Enqueued
<1> QED BY <1>1, <1>2, <1>3, LoggingAssumption DEF Numbers

LEMMA EnqueuedType ==
  ASSUME TypeOK, NEW n \in Numbers, Enqueued(n)
  PROVE  /\ service' \in Service /\ queue' \in Seq(Numbers \cup {StopMark})
         /\ files' \in Seq(File) /\ offered' \in 0 .. MaxRecords
         /\ (files' = << >>) = (files = << >>)
         /\ files = << >> /\ Begun => UNCHANGED <<service, queue>>
<1>1. offered' \in 0 .. MaxRecords
  BY LoggingAssumption DEF Enqueued, Numbers
<1>2. CASE service.active /\ service.linked /\ ~Full /\ files # << >>
  <2> DEFINE file == [Current EXCEPT !.accepted = Append(@, n)]
  <2>1. Current \in File
    <3> HIDE DEF File
    <3> QED BY <1>2 DEF TypeOK, Current, Newest
  <2>2. file \in File
    <3>1. Append(Current.accepted, n) \in Seq(Numbers)
      <4>1. Current.accepted \in Seq(Numbers)
        BY <2>1 DEF File
      <4> HIDE DEF Numbers
      <4> QED BY <4>1
    <3> QED BY <2>1, <3>1 DEF File
  <2>3. files' = [files EXCEPT ![Newest] = file]
    BY <1>2 DEF Enqueued, Current
  <2> HIDE DEF file
  <2>4. files' \in Seq(File) /\ files' # << >>
    BY <1>2, <2>2, <2>3, NewestReplaced DEF Newest
  <2>5. queue' \in Seq(Numbers \cup {StopMark}) /\ UNCHANGED service
    <3>1. queue \in Seq(Numbers \cup {StopMark})
      BY DEF TypeOK
    <3>2. queue' = Append(queue, n) /\ UNCHANGED service
      BY <1>2 DEF Enqueued
    <3> HIDE DEF Numbers
    <3> QED BY <3>1, <3>2
  <2> QED BY <1>1, <1>2, <2>4, <2>5 DEF TypeOK
<1>3. CASE service.active /\ service.linked /\ ~Full /\ files = << >>
  <2>1. files' = files
    BY <1>3 DEF Enqueued
  <2>2. queue' \in Seq(Numbers \cup {StopMark}) /\ UNCHANGED service
    <3> HIDE DEF Numbers
    <3> QED BY <1>3 DEF Enqueued, TypeOK
  <2> QED BY <1>1, <1>3, <2>1, <2>2 DEF TypeOK, Begun, Off
<1>4. CASE ~(service.active /\ service.linked /\ ~Full)
  <2>1. UNCHANGED <<queue, files>> /\ service' \in Service
    BY <1>4 DEF Enqueued, TypeOK, Service
  <2>2. files = << >> /\ Begun => UNCHANGED service
    BY <1>4 DEF Enqueued, Begun, Off
  <2> QED BY <1>1, <2>1, <2>2 DEF TypeOK
<1> QED BY <1>2, <1>3, <1>4

\* What the writer thread has taken from the queue.
LEMMA CollectType ==
  ASSUME TypeOK, Begun, Collect
  PROVE  worker' \in Writer /\ queue' \in Seq(Numbers \cup {StopMark}) /\ files # << >>
<1>1. files # << >>
  BY DEF Begun, Collect, Get, Gather, BatchDone, NoWorker
<1>2. CASE BatchDone
  BY <1>1, <1>2 DEF BatchDone, TypeOK, Writer
<1>3. ASSUME queue # << >>, queue' = Tail(queue)
      PROVE  /\ queue' \in Seq(Numbers \cup {StopMark})
             /\ Head(queue) # StopMark => Head(queue) \in Numbers
  <2> HIDE DEF Numbers
  <2> QED BY <1>3 DEF TypeOK
<1>4. CASE Get
  <2>1. Head(queue) # StopMark => <<Head(queue)>> \in Seq(Numbers)
    <3>1. Head(queue) # StopMark => Head(queue) \in Numbers
      BY <1>3, <1>4 DEF Get
    <3> HIDE DEF Numbers
    <3> QED BY <3>1
  <2> QED BY <1>1, <1>3, <1>4, <2>1 DEF Get, TypeOK, Writer
<1>5. CASE Gather
  <2>1. Head(queue) # StopMark => Append(worker.batch, Head(queue)) \in Seq(Numbers)
    <3>1. Head(queue) # StopMark => Head(queue) \in Numbers
      BY <1>3, <1>5 DEF Gather
    <3>2. worker.batch \in Seq(Numbers)
      BY DEF TypeOK, Writer
    <3> HIDE DEF Numbers
    <3> QED BY <3>1, <3>2
  <2> QED BY <1>1, <1>3, <1>5, <2>1 DEF Gather, TypeOK, Writer
<1> QED BY <1>2, <1>4, <1>5 DEF Collect

\* What it leaves in the file.
LEMMA WriteType ==
  ASSUME TypeOK, Begun, Write
  PROVE  /\ worker' \in Writer /\ service' \in Service /\ files' \in Seq(File)
         /\ files # << >> /\ files' # << >>
<1>1. files # << >>
  BY DEF Begun, Write, NoWorker
<1>2. worker' \in Writer
  <2>1. << >> \in Seq(Numbers)
    OBVIOUS
  <2> QED BY <2>1 DEF Write, Discard, WriteAll, WriteFails, WriteClosed, Ready, TypeOK, Writer
<1>3. service' \in Service
  BY DEF Write, Discard, WriteAll, WriteFails, WriteClosed, TypeOK, Service
<1>4. Current \in File /\ worker.batch \in Seq(Numbers)
  <2>1. Current \in File
    <3> HIDE DEF File
    <3> QED BY <1>1 DEF TypeOK, Current, Newest
  <2> QED BY <2>1 DEF TypeOK, Writer
<1>5. CASE UNCHANGED files
  BY <1>1, <1>2, <1>3, <1>5 DEF TypeOK
<1>6. CASE WriteAll
  <2> DEFINE file == Written(Current, worker.batch)
  <2>1. file \in File
    BY <1>4, WrittenType
  <2>2. files' = [files EXCEPT ![Newest] = file]
    BY <1>6 DEF WriteAll, Current
  <2> HIDE DEF file
  <2>3. files' \in Seq(File) /\ files' # << >>
    BY <1>1, <2>1, <2>2, NewestReplaced DEF Newest
  <2> QED BY <1>1, <1>2, <1>3, <2>3
<1>7. CASE WriteFails
  <2>1. PICK n \in 0 .. Len(worker.batch) :
          files' = [files EXCEPT ![Newest] =
                      [Written(@, SubSeq(worker.batch, 1, n)) EXCEPT !.whole = FALSE]]
    BY <1>7 DEF WriteFails
  <2> DEFINE file == [Written(Current, SubSeq(worker.batch, 1, n)) EXCEPT !.whole = FALSE]
  <2>2. SubSeq(worker.batch, 1, n) \in Seq(Numbers)
    <3> HIDE DEF Numbers
    <3> QED BY <1>4
  <2>3. file \in File
    <3>1. Written(Current, SubSeq(worker.batch, 1, n)) \in File
      BY <1>4, <2>2, WrittenType
    <3> QED BY <3>1 DEF File
  <2>4. files' = [files EXCEPT ![Newest] = file]
    BY <2>1 DEF Current
  <2> HIDE DEF file
  <2>5. files' \in Seq(File) /\ files' # << >>
    BY <1>1, <2>3, <2>4, NewestReplaced DEF Newest
  <2> QED BY <1>1, <1>2, <1>3, <2>5
<1> QED BY <1>5, <1>6, <1>7 DEF Write, Discard, WriteClosed

\* The end marker, and the closing of the file.
LEMMA FlaggedType ==
  ASSUME TypeOK, files # << >>, NEW file \in {[Current EXCEPT !.ended = TRUE],
                                              [Current EXCEPT !.open = FALSE]}
  PROVE  /\ file \in File
         /\ file.rows = Current.rows /\ file.whole = Current.whole
         /\ file.accepted = Current.accepted
<1>1. Current \in File
  <2> HIDE DEF File
  <2> QED BY DEF TypeOK, Current, Newest
<1> QED BY <1>1 DEF File

LEMMA TypeStep ==
  ASSUME TypeOK, Begun, Reasoned, [Next]_vars
  PROVE  TypeOK' /\ Begun' /\ Reasoned'
<1> USE DEF outside
<1>1. ASSUME NEW file \in {[Current EXCEPT !.ended = TRUE], [Current EXCEPT !.open = FALSE]},
             files # << >>, files' = [files EXCEPT ![Newest] = file]
      PROVE  files' \in Seq(File) /\ files' # << >>
  <2>1. file \in File
    BY <1>1, FlaggedType
  <2> HIDE DEF File
  <2> QED BY <1>1, <2>1, NewestReplaced DEF Newest
<1>2. CASE PutStop
  <2>1. queue' \in Seq(Numbers \cup {StopMark})
    <3> HIDE DEF Numbers
    <3> QED BY <1>2 DEF PutStop, TypeOK
  <2> QED BY <1>2, <2>1 DEF PutStop, TypeOK, Begun, Busy, Reasoned
<1>3. CASE Join
  <2>1. files # << >>
    BY <1>3 DEF Join, Begun, Busy
  <2>2. files' \in Seq(File) /\ files' # << >>
    <3>1. CASE UNCHANGED files
      BY <2>1, <3>1 DEF TypeOK
    <3>2. CASE files' = [files EXCEPT ![Newest].ended = TRUE]
      BY <1>1, <2>1, <3>2 DEF Current
    <3> QED BY <1>3, <3>1, <3>2 DEF Join
  <2> QED BY <1>3, <2>2 DEF Join, TypeOK, Begun, Reasoned, Busy
<1>4. CASE Close
  <2>1. files # << >>
    BY <1>4 DEF Close, Begun, Busy
  <2>2. files' \in Seq(File) /\ files' # << >>
    BY <1>1, <1>4, <2>1 DEF Close, NewestClosed, Current
  <2>3. loop' \in {"ending", "maintain", "input", "reopen", "gone"}
    <3>1. why # "none"
      BY <1>4 DEF Close, Reasoned, Busy
    <3> QED BY <1>4, <3>1 DEF Close, AfterClose, TypeOK
  <2> QED BY <1>4, <2>2, <2>3 DEF Close, Closed, TypeOK, Service, Begun, Busy, Reasoned
<1>5. ASSUME NEW reason \in {"stop", "rotate", "lowdisk", "end"}, BeginStop(reason),
             service # Off \/ files # << >>,
             UNCHANGED <<worker, queue, files, offered, control, signals, cause>>,
             latched' \in BOOLEAN
      PROVE  TypeOK' /\ Begun' /\ Reasoned'
  BY <1>5, BeginStopType DEF TypeOK, Begun, Busy, Reasoned
<1>6. ASSUME NEW active \in BOOLEAN, NEW due \in SUBSET {"disk", "rotation"}, Opens(active, due),
             ~Busy, loop' \in {"input", "maintain", "ending"},
             cause' \in {"none", "source", "logging", "interrupt", "cut"},
             why' = "none", signals' \in Nat, UNCHANGED <<offered, latched, control>>
      PROVE  TypeOK' /\ Begun' /\ Reasoned'
  BY <1>6, OpensType DEF TypeOK, Begun, Busy, Reasoned
<1>7. CASE Reopen
  <2>1. CASE OpenFails
    BY <1>7, <2>1 DEF Reopen, OpenFails, TypeOK, Begun, Busy, Reasoned
  <2>2. CASE Opens(TRUE, {})
    BY <1>6, <1>7, <2>2 DEF Reopen, OpenFails, Busy, TypeOK, Reasoned
  <2> QED BY <1>7, <2>1, <2>2 DEF Reopen
<1>8. CASE ControlOn
  <2>1. CASE OpenFails
    BY <1>8, <2>1 DEF ControlOn, OpenFails, TypeOK, Begun, Busy, Reasoned
  <2>2. CASE Opens(TRUE, {"disk"})
    BY <1>6, <1>8, <2>2 DEF ControlOn, OpenFails, Busy, TypeOK, Reasoned
  <2> QED BY <1>8, <2>1, <2>2 DEF ControlOn
<1>9. CASE InterruptInStart
  <2>1. /\ ~Busy /\ why' = "none" /\ loop' = "ending" /\ UNCHANGED <<offered, latched, control>>
        /\ Opens(FALSE, {})
    BY <1>9 DEF InterruptInStart, Signalled, Busy
  <2>2. signals' \in Nat /\ cause' \in {"none", "source", "logging", "interrupt", "cut"}
    BY <1>9 DEF InterruptInStart, Signalled, TypeOK
  <2> QED BY <1>6, <2>1, <2>2
<1>10. CASE Interrupt
  <2>3. /\ signals' \in Nat /\ cause' \in {"none", "source", "logging", "interrupt", "cut"}
        /\ why' = "none" /\ loop' \in {"gone", "ending"} /\ UNCHANGED <<offered, latched>>
    BY <1>10 DEF Interrupt, Signalled, TypeOK
  <2>1. CASE UNCHANGED service
    BY <1>10, <2>1, <2>3 DEF Interrupt, TypeOK, Begun, Busy, Reasoned
  <2>2. CASE loop = "close" /\ service' = [service EXCEPT !.active = FALSE]
    <3>1. service' \in Service
      BY <2>2 DEF TypeOK, Service
    <3>2. files # << >>
      BY <2>2 DEF Begun, Busy
    <3> QED BY <1>10, <2>3, <3>1, <3>2 DEF Interrupt, TypeOK, Begun, Busy, Reasoned
  <2> QED BY <1>10, <2>1, <2>2 DEF Interrupt
<1>11. CASE NoControl \/ Exit \/ SourceEnds
  BY <1>11 DEF NoControl, Exit, SourceEnds, TypeOK, Begun, Busy, Reasoned
<1>21. CASE SetControl
  BY <1>21, ZenonT(30) DEF SetControl, TypeOK, Begun, Busy, Reasoned
<1>22. ASSUME service # Off, files' = files, service' \in Service,
              UNCHANGED <<worker, queue, offered, control, latched, signals, cause, why>>,
              loop' \in {loop, "input"}, ~Busy
       PROVE  TypeOK' /\ Begun' /\ Reasoned'
  BY <1>22 DEF TypeOK, Begun, Busy, Reasoned
<1>23. CASE Sampled
  <2>1. service # Off
    BY <1>23 DEF Sampled, Off
  <2>2. ~Busy /\ service' \in Service
    BY <1>23 DEF Sampled, TypeOK, Service, Busy
  <2> QED BY <1>22, <1>23, <2>1, <2>2 DEF Sampled
<1>24. CASE Tick
  <2>1. service # Off /\ files # << >>
    BY <1>24 DEF Tick, Off, Begun
  <2>2. service' \in Service
    <3>1. PICK d \in {"disk", "rotation"} : service' = [service EXCEPT !.due = @ \cup {d}]
      BY <1>24 DEF Tick
    <3> QED BY <3>1 DEF TypeOK, Service
  <2> QED BY <1>24, <2>1, <2>2 DEF Tick, TypeOK, Begun, Busy, Reasoned
<1>12. CASE FailedWrite
  <2>1. service # Off
    BY <1>12 DEF FailedWrite, Off
  <2> QED BY <1>5, <1>12, <2>1 DEF FailedWrite, LowDisk, TypeOK
<1>13. CASE SpaceLow
  <2>1. service # Off
    BY <1>13 DEF SpaceLow, Off
  <2> QED BY <1>5, <1>13, <2>1 DEF SpaceLow, LowDisk, TypeOK
<1>14. CASE Checked
  <2>1. CASE "rotation" \in service.due \ {"disk"}
    <3>1. service # Off
      BY <2>1 DEF Off
    <3> QED BY <1>5, <1>14, <2>1, <3>1 DEF Checked, TypeOK
  <2>2. CASE "rotation" \notin service.due \ {"disk"}
    <3> DEFINE due == service.due \ {"disk"}
    <3>1. service' = [service EXCEPT !.due = due] /\ due \in SUBSET {"disk", "rotation"}
      BY <1>14, <2>2 DEF Checked, TypeOK, Service
    <3>2. service' \in Service
      BY <3>1 DEF TypeOK, Service
    <3>3. ASSUME service = Off
          PROVE  service' = Off
      <4>1. due = {}
        BY <3>3 DEF Off
      <4> HIDE DEF due
      <4> QED BY <3>1, <3>3, <4>1 DEF Off
    <3> QED BY <1>14, <2>2, <3>2, <3>3 DEF Checked, Quiet, TypeOK, Begun, Busy, Reasoned
  <2> QED BY <2>1, <2>2
<1>15. CASE ControlOff
  <2>1. CASE service.active
    <3>1. service # Off
      BY <2>1 DEF Off
    <3> QED BY <1>5, <1>15, <2>1, <3>1 DEF ControlOff
  <2>2. CASE ~service.active
    BY <1>15, <2>2 DEF ControlOff, TypeOK, Begun, Busy, Reasoned
  <2> QED BY <2>1, <2>2
<1>16. CASE Finally
  <2>1. CASE service.active
    <3>1. service # Off
      BY <2>1 DEF Off
    <3> QED BY <1>5, <1>16, <2>1, <3>1 DEF Finally, TypeOK
  <2>2. CASE ~service.active
    BY <1>16, <2>2 DEF Finally, TypeOK, Begun, Busy, Reasoned
  <2> QED BY <2>1, <2>2
<1>17. CASE Offer
  <2>1. offered + 1 \in Numbers
    BY <1>17, LoggingAssumption DEF Offer, TypeOK, Numbers
  <2> QED BY <1>17, <2>1, EnqueuedType DEF Offer, TypeOK, Begun, Busy, Reasoned
<1>18. CASE OfferInVain
  <2>1. service # Off
    BY <1>18 DEF OfferInVain, Off
  <2>2. ~Busy /\ service' \in Service
    BY <1>18 DEF OfferInVain, TypeOK, Service, Busy
  <2> QED BY <1>18, <1>22, <2>1, <2>2 DEF OfferInVain
<1>19. CASE Worker
  <2>1. CASE Collect
    BY <1>19, <2>1, CollectType DEF Worker, Collect, TypeOK, Begun, Reasoned, Busy
  <2>2. CASE Write
    BY <1>19, <2>2, WriteType DEF Worker, Write, TypeOK, Begun, Reasoned, Busy
  <2> QED BY <1>19, <2>1, <2>2 DEF Worker
<1>20. CASE UNCHANGED vars
  BY <1>20 DEF vars, TypeOK, Begun, Reasoned, Busy
<1> QED BY <1>2, <1>3, <1>4, <1>7, <1>8, <1>9, <1>10, <1>11, <1>12, <1>13, <1>14, <1>15, <1>16,
           <1>17, <1>18, <1>19, <1>20, <1>21, <1>23, <1>24 DEF Next, LoopProgress

LEMMA InitType == Init => TypeOK /\ Begun /\ Reasoned
<1> SUFFICES ASSUME Init
             PROVE  TypeOK /\ Begun /\ Reasoned
  OBVIOUS
<1>1. service \in Service
  BY DEF Init, Off, Service
<1>2. worker \in Writer
  <2>1. << >> \in Seq(Numbers)
    OBVIOUS
  <2> QED BY <2>1 DEF Init, NoWorker, Writer
<1>3. queue \in Seq(Numbers \cup {StopMark}) /\ files \in Seq(File)
  <2> HIDE DEF File, Numbers
  <2> QED BY DEF Init
<1>4. Begun /\ Reasoned
  BY DEF Init, Begun, Reasoned, Busy
<1>5. offered \in 0 .. MaxRecords /\ signals \in Nat
  BY LoggingAssumption DEF Init
<1> QED BY <1>1, <1>2, <1>3, <1>4, <1>5 DEF Init, TypeOK

\* Every reachable state of the logging service is well typed.
THEOREM TypeCorrect == Spec => [](TypeOK /\ Begun /\ Reasoned)
<1> QED BY InitType, TypeStep, PTL DEF Spec

-----------------------------------------------------------------------------
(* Stopping the writer thread.                                             *)

Alive == worker.pc \in {"get", "batch", "write"}
Marked == \E k \in DOMAIN queue : queue[k] = StopMark

\* Only a segment in use has a queue, a live thread and a failure, unless a
\* signal cut its stop short.
StageInv ==
  /\ loop \in {"input", "maintain", "reopen"} => cause = "none"
  /\ Busy /\ why # "end" => cause = "none"
  /\ loop = "reopen" => ~service.active
  /\ service.linked => loop \notin {"put", "join", "close", "reopen"}
  /\ Cut => ~service.linked /\ loop \notin {"put", "join"}
  /\ ~Cut => /\ service.active => service.linked \/ why = "lowdisk"
             /\ service.due # {} => service.active
             /\ service.failed => service.active \/ Busy
  /\ service.linked /\ ~service.active => loop \notin {"input", "maintain"}

\* The stop mark is the last item of its queue, and the thread stops at it.
MarkInv ==
  /\ \A k \in DOMAIN queue : queue[k] = StopMark => k = Len(queue)
  /\ Marked => loop = "join" \/ Cut
  /\ worker.stop => queue = << >> /\ worker.pc \in {"write", "exited"}

\* The thread lives until it is stopped; it is joined when it is done.
WorkerInv ==
  /\ service.linked \/ loop = "put" => Alive /\ ~worker.stop
  /\ service.linked /\ ~service.active => queue = << >> /\ worker.pc = "get"
  /\ loop = "join" =>
       \/ Marked /\ Alive
       \/ queue = << >> /\ (worker.stop \/ worker.pc = "exited") /\ worker.pc # "none"
  /\ ~Cut /\ ~service.linked /\ loop \notin {"put", "join"} =>
       queue = << >> /\ worker.pc \in {"none", "exited"}

StopInv == StageInv /\ MarkInv /\ WorkerInv

\* Taking the head of the queue.
LEMMA TakenMark ==
  ASSUME TypeOK, MarkInv, queue # << >>, queue' = Tail(queue)
  PROVE  /\ \A k \in DOMAIN queue' : queue'[k] = StopMark => k = Len(queue')
         /\ Head(queue) = StopMark => Marked /\ queue' = << >> /\ ~Marked'
         /\ Head(queue) # StopMark => (Marked' <=> Marked)
<1>1. queue \in Seq(Numbers \cup {StopMark})
  BY DEF TypeOK
<1> HIDE DEF Numbers
<1>2. /\ Len(queue) \in Nat \ {0} /\ Len(queue') = Len(queue) - 1
      /\ DOMAIN queue = 1 .. Len(queue) /\ DOMAIN queue' = 1 .. Len(queue) - 1
      /\ \A k \in 1 .. Len(queue) - 1 : queue'[k] = queue[k + 1]
      /\ Head(queue) = queue[1]
  BY <1>1
<1>3. \A k \in DOMAIN queue' : queue'[k] = StopMark => k = Len(queue')
  BY <1>2 DEF MarkInv
<1>4. ASSUME Head(queue) = StopMark
      PROVE  Marked /\ queue' = << >> /\ ~Marked'
  <2>1. Len(queue) = 1
    BY <1>2, <1>4 DEF MarkInv
  <2>2. queue' = << >>
    BY <1>1, <2>1
  <2> QED BY <1>2, <1>4, <2>1, <2>2 DEF Marked
<1>5. ASSUME Head(queue) # StopMark
      PROVE  Marked' <=> Marked
  <2>1. ASSUME NEW k \in 1 .. Len(queue), queue[k] = StopMark
        PROVE  k - 1 \in 1 .. Len(queue) - 1 /\ queue'[k - 1] = StopMark
    BY <1>2, <1>5, <2>1
  <2>2. ASSUME NEW k \in 1 .. Len(queue) - 1, queue'[k] = StopMark
        PROVE  k + 1 \in 1 .. Len(queue) /\ queue[k + 1] = StopMark
    BY <1>2, <2>2
  <2>3. Marked => Marked'
    BY <1>2, <2>1 DEF Marked
  <2>4. Marked' => Marked
    BY <1>2, <2>2 DEF Marked
  <2> QED BY <2>3, <2>4
<1> QED BY <1>3, <1>4, <1>5

\* The stop mark goes in at the end.
LEMMA PutMark ==
  ASSUME TypeOK, ~Marked, queue' = Append(queue, StopMark)
  PROVE  Marked' /\ \A k \in DOMAIN queue' : queue'[k] = StopMark => k = Len(queue')
<1>1. queue \in Seq(Numbers \cup {StopMark})
  BY DEF TypeOK
<1> HIDE DEF Numbers
<1>2. /\ Len(queue') = Len(queue) + 1 /\ DOMAIN queue' = 1 .. Len(queue) + 1
      /\ DOMAIN queue = 1 .. Len(queue) /\ Len(queue) \in Nat
      /\ queue'[Len(queue) + 1] = StopMark
      /\ \A k \in 1 .. Len(queue) : queue'[k] = queue[k]
  BY <1>1
<1> QED BY <1>2 DEF Marked

\* A record goes in at the end.
LEMMA PutNumber ==
  ASSUME TypeOK, NEW n \in Numbers, ~Marked, queue' = Append(queue, n)
  PROVE  ~Marked'
<1>1. queue \in Seq(Numbers \cup {StopMark})
  BY DEF TypeOK
<1>3. n # StopMark
  BY DEF Numbers, StopMark
<1> HIDE DEF Numbers
<1>2. /\ Len(queue') = Len(queue) + 1 /\ DOMAIN queue' = 1 .. Len(queue) + 1
      /\ DOMAIN queue = 1 .. Len(queue) /\ Len(queue) \in Nat
      /\ queue'[Len(queue) + 1] = n
      /\ \A k \in 1 .. Len(queue) : queue'[k] = queue[k]
  BY <1>1
<1> QED BY <1>2, <1>3 DEF Marked

\* An unmarked queue has no mark out of place.
LEMMA Unmarked == ~Marked => \A k \in DOMAIN queue : queue[k] = StopMark => k = Len(queue)
BY DEF Marked

\* A stop begins, with a thread that lives or none.
LEMMA BeginStopStep ==
  ASSUME TypeOK, Reasoned, StopInv, NEW reason \in {"stop", "rotate", "lowdisk", "end"},
         BeginStop(reason), loop \in {"input", "maintain", "ending"},
         loop = "ending" => reason = "end",
         UNCHANGED <<worker, queue, cause>>
  PROVE  StopInv'
<1>1. /\ loop' = (IF service.linked THEN "put" ELSE "close") /\ why' = reason
      /\ ~service'.linked /\ service'.failed = service.failed
      /\ service'.active <=> reason = "lowdisk" /\ service.active
      /\ service'.due = (IF reason = "lowdisk" THEN service.due ELSE {})
  BY DEF BeginStop, TypeOK, Service
<1>2. StageInv'
  BY <1>1 DEF StopInv, StageInv, Busy, Cut, TypeOK, Reasoned
<1>3. MarkInv'
  BY <1>1 DEF StopInv, StageInv, MarkInv, Marked, Cut
<1>4. WorkerInv'
  BY <1>1 DEF StopInv, StageInv, MarkInv, WorkerInv, Marked, Cut, Alive
<1> QED BY <1>2, <1>3, <1>4 DEF StopInv

\* A segment begins with a thread of its own.
LEMMA OpensStep ==
  ASSUME TypeOK, NEW active \in BOOLEAN, NEW due \in SUBSET {"disk", "rotation"},
         Opens(active, due), loop' \in {"input", "maintain", "ending"},
         ~active => loop' = "ending" /\ due = {}, cause' # "cut",
         loop' # "ending" => cause' = "none"
  PROVE  StopInv'
<1>1. /\ service'.linked /\ ~service'.failed /\ (service'.active <=> active)
      /\ service'.due = due
      /\ queue' = << >>
  BY DEF Opens
<1>2. worker'.pc = "get" /\ ~worker'.stop
  BY DEF Opens, NoWorker
<1>3. StageInv'
  BY <1>1 DEF StageInv, Busy, Cut
<1>4. MarkInv'
  BY <1>1, <1>2 DEF MarkInv, Marked
<1>5. WorkerInv'
  BY <1>1, <1>2 DEF WorkerInv, Alive, Marked, Cut
<1> QED BY <1>3, <1>4, <1>5 DEF StopInv

\* What the loop thread offers is queued in front of no stop mark.
LEMMA OfferStep ==
  ASSUME TypeOK, StopInv, Offer
  PROVE  StopInv'
<1>1. offered + 1 \in Numbers
  BY LoggingAssumption DEF Offer, TypeOK, Numbers
<1>2. UNCHANGED <<loop, why, worker, cause>>
  BY DEF Offer
<1>3. CASE service.active /\ service.linked /\ ~Full
  <2>1. queue' = Append(queue, offered + 1) /\ UNCHANGED service
    BY <1>3 DEF Offer, Enqueued
  <2>2. ~Marked
    BY <1>3 DEF StopInv, StageInv, MarkInv
  <2>3. ~Marked'
    BY <1>1, <2>1, <2>2, PutNumber
  <2>4. ~worker.stop
    BY <1>3 DEF StopInv, WorkerInv
  <2>5. MarkInv'
    BY <1>2, <2>3, <2>4 DEF MarkInv, Marked
  <2>6. loop \in {"input", "ending"}
    BY DEF Offer
  <2>7. WorkerInv'
    BY <1>2, <1>3, <2>1, <2>6 DEF StopInv, WorkerInv, Alive
  <2>8. StageInv'
    BY <1>2, <2>1 DEF StopInv, StageInv, Busy, Cut
  <2> QED BY <2>5, <2>7, <2>8 DEF StopInv
<1>4. CASE ~(service.active /\ service.linked /\ ~Full)
  <2>1. /\ UNCHANGED queue /\ service'.active = service.active /\ service'.linked = service.linked
        /\ service'.failed = service.failed /\ service'.due = service.due
    BY <1>4 DEF Offer, Enqueued, TypeOK, Service
  <2> QED BY <1>2, <2>1
        DEF StopInv, StageInv, MarkInv, WorkerInv, Busy, Cut, Alive, Marked
<1> QED BY <1>3, <1>4

\* The thread takes items up to the stop mark.
LEMMA CollectStep ==
  ASSUME TypeOK, StopInv, Collect, UNCHANGED <<loop, why, cause>>
  PROVE  StopInv'
<1>1. StageInv'
  BY DEF Collect, StopInv, StageInv, Busy, Cut
<1>2. CASE BatchDone
  <2>1. worker'.pc = "write" /\ worker'.stop = worker.stop /\ worker.pc = "batch" /\ UNCHANGED queue
    BY <1>2 DEF BatchDone, TypeOK, Writer
  <2>2. MarkInv' /\ WorkerInv'
    BY <2>1 DEF Collect, StopInv, MarkInv, WorkerInv, Cut, Alive, Marked
  <2> QED BY <1>1, <2>2 DEF StopInv
<1>3. ASSUME queue # << >>, queue' = Tail(queue), worker.pc \in {"get", "batch"},
             IF Head(queue) = StopMark
               THEN \/ worker'.pc = "exited" /\ ~worker'.stop
                    \/ worker'.pc = "write" /\ worker'.stop
               ELSE worker'.pc = "batch" /\ ~worker'.stop
      PROVE  StopInv'
  <2>1. MarkInv
    BY DEF StopInv
  <2>2. MarkInv'
    BY <1>3, <2>1, TakenMark DEF MarkInv, Collect, Cut
  <2>3. WorkerInv'
    BY <1>3, <2>1, TakenMark DEF MarkInv, WorkerInv, StopInv, StageInv, Collect, Cut, Alive
  <2> QED BY <1>1, <2>2, <2>3 DEF StopInv
<1>4. CASE Get
  <2>1. ~worker.stop
    BY <1>4 DEF Get, StopInv, MarkInv
  <2> QED BY <1>3, <1>4, <2>1 DEF Get, TypeOK, Writer
<1>5. CASE Gather
  <2>1. ~worker.stop
    BY <1>5 DEF Gather, StopInv, MarkInv
  <2> QED BY <1>3, <1>5, <2>1 DEF Gather, TypeOK, Writer
<1> QED BY <1>2, <1>4, <1>5 DEF Collect

\* The file is open as long as its thread may write; it is given an end
\* marker by nobody else's hand, and is not whole once a write has failed.
FileInv ==
  /\ service.linked \/ loop \in {"put", "join"} => Current.open /\ ~Current.ended
  /\ ~Cut /\ ~service.linked /\ loop \notin {"put", "join"} /\ files # << >> =>
       (Current.open <=> loop = "close")
  /\ files # << >> => /\ Current.ended => worker.pc = "exited"
                      /\ Current.whole <=> ~worker.failed

\* The thread writes; a failure is its segment's.
LEMMA WriteStep ==
  ASSUME TypeOK, StopInv, FileInv, Write, UNCHANGED <<loop, why, cause>>
  PROVE  StopInv'
<1>1. ~Cut => (service.linked /\ service.active) \/ loop \in {"put", "join"}
  BY DEF Write, StopInv, StageInv, WorkerInv
<1>2. /\ service'.linked = service.linked /\ service'.active = service.active
      /\ service'.due = service.due
      /\ ~Cut => (service'.failed => service'.active \/ Busy)
  BY <1>1 DEF Write, Discard, WriteAll, WriteFails, WriteClosed, TypeOK, Service, Busy,
              StopInv, StageInv
<1>3. StageInv'
  BY <1>2 DEF StopInv, StageInv, Busy, Cut
<1>4. /\ worker'.stop = worker.stop /\ worker'.pc \in {"get", "exited"} /\ UNCHANGED queue
      /\ worker.stop => worker'.pc = "exited"
      /\ ~worker.stop /\ worker'.pc = "exited" => ~Current.open
  <2>1. worker.pc = "write" /\ UNCHANGED queue
    BY DEF Write
  <2>2. CASE worker' \in {Ready(FALSE), Ready(TRUE)}
    BY <2>1, <2>2 DEF Ready, TypeOK, Writer
  <2>3. CASE worker' = [worker EXCEPT !.pc = "exited", !.batch = << >>] /\ ~Current.open
    BY <2>1, <2>3 DEF TypeOK, Writer
  <2> QED BY <2>2, <2>3, <2>1 DEF Write, Discard, WriteAll, WriteFails, WriteClosed, Current
<1>5. MarkInv'
  BY <1>4 DEF StopInv, MarkInv, Marked, Cut
<1>6. ~worker.stop /\ worker'.pc = "exited" => Cut
  BY <1>1, <1>4 DEF FileInv
<1>7. WorkerInv'
  BY <1>1, <1>2, <1>4, <1>6 DEF Write, StopInv, StageInv, WorkerInv, MarkInv, Marked, Cut, Alive
<1> QED BY <1>3, <1>5, <1>7 DEF StopInv

LEMMA StopStep ==
  ASSUME TypeOK, Begun, Reasoned, StopInv, FileInv, [Next]_vars
  PROVE  StopInv'
<1> USE DEF outside
<1>1. CASE PutStop
  <2>1. ~Marked /\ queue' = Append(queue, StopMark) /\ loop = "put" /\ loop' = "join" /\ ~Cut
        /\ UNCHANGED <<why, service, worker, cause>>
    BY <1>1 DEF PutStop, StopInv, MarkInv, StageInv
  <2>2. Marked' /\ \A k \in DOMAIN queue' : queue'[k] = StopMark => k = Len(queue')
    BY <2>1, PutMark
  <2>3. Alive /\ ~worker.stop
    BY <2>1 DEF StopInv, WorkerInv
  <2>4. StageInv'
    BY <2>1 DEF StopInv, StageInv, Busy, Cut
  <2>5. MarkInv'
    BY <2>1, <2>2, <2>3 DEF MarkInv, Marked
  <2>6. WorkerInv'
    BY <2>1, <2>2, <2>3, <2>4 DEF WorkerInv, StageInv, Alive, Marked
  <2> QED BY <2>4, <2>5, <2>6 DEF StopInv
<1>2. CASE Join
  <2>1. /\ loop = "join" /\ loop' = "close" /\ worker.pc = "exited"
        /\ UNCHANGED <<why, service, worker, queue, cause>>
    BY <1>2 DEF Join, Joined
  <2>2. queue = << >>
    BY <2>1 DEF StopInv, WorkerInv, Alive
  <2>3. ~Marked /\ ~Cut /\ ~service.linked
    BY <2>1, <2>2 DEF Marked, StopInv, StageInv
  <2> QED BY <2>1, <2>2, <2>3 DEF StopInv, StageInv, MarkInv, WorkerInv, Busy, Cut, Alive, Marked
<1>3. CASE Close
  <2>1. /\ loop = "close" /\ why' = "none" /\ UNCHANGED <<worker, queue>>
        /\ ~service'.active /\ ~service'.failed /\ ~service'.linked /\ service'.due = {}
    BY <1>3 DEF Close, Closed, TypeOK, Service
  <2>2. why # "none"
    BY <2>1 DEF Reasoned, Busy
  <2>3. /\ loop' \in {"ending", "maintain", "input", "reopen", "gone"}
        /\ loop' = "ending" => cause' = "source"
        /\ loop' # "ending" => cause' = cause
        /\ loop' # "ending" => loop' = AfterClose(why)
    BY <1>3, <2>2 DEF Close, AfterClose, TypeOK
  <2>9. (why # "end" => cause = "none") /\ (why = "end" => loop' = "gone")
    <3>1. why # "end" => cause = "none"
      BY <2>1 DEF StopInv, StageInv, Busy
    <3>2. why = "end" => AfterClose(why) = "gone"
      BY DEF AfterClose
    <3>3. why = "end" => loop' = "gone"
      BY <1>3, <3>2 DEF Close
    <3> QED BY <3>1, <3>3
  <2>4. cause' = "none" \/ loop' \in {"ending", "gone"}
    BY <2>3, <2>9
  <2>5. Cut => Cut' /\ loop' = "gone"
    BY <2>3, <2>9 DEF Cut
  <2>6. StageInv'
    BY <2>1, <2>3, <2>4 DEF StageInv, Busy, Cut
  <2>7. MarkInv'
    BY <2>1, <2>5 DEF StopInv, MarkInv, Marked
  <2>8. WorkerInv'
    BY <2>1, <2>3, <2>5 DEF StopInv, WorkerInv, StageInv
  <2> QED BY <2>6, <2>7, <2>8 DEF StopInv
<1>4. CASE Reopen
  <2>1. CASE OpenFails
    BY <1>4, <2>1 DEF Reopen, OpenFails, StopInv, StageInv, MarkInv, WorkerInv, Busy, Cut, Alive,
                      Marked
  <2>2. CASE Opens(TRUE, {}) /\ loop' = "input" /\ UNCHANGED cause
    BY <1>4, <2>2, OpensStep DEF Reopen, StopInv, StageInv
  <2> QED BY <1>4, <2>1, <2>2 DEF Reopen
<1>5. CASE ControlOn
  <2>1. CASE OpenFails
    BY <1>5, <2>1 DEF ControlOn, MayStart, OpenFails, StopInv, StageInv, MarkInv, WorkerInv, Busy,
                      Cut, Alive, Marked
  <2>2. CASE Opens(TRUE, {"disk"}) /\ loop' = "maintain" /\ UNCHANGED cause
    BY <1>5, <2>2, OpensStep DEF ControlOn, StopInv, StageInv
  <2> QED BY <1>5, <2>1, <2>2 DEF ControlOn
<1>6. CASE InterruptInStart
  <2>1. cause' # "cut" /\ Opens(FALSE, {}) /\ loop' = "ending"
    BY <1>6 DEF InterruptInStart, Signalled, StopInv, StageInv
  <2> QED BY <2>1, OpensStep
<1>7. CASE Interrupt
  <2>1. /\ why' = "none" /\ loop' = (IF why = "end" THEN "gone" ELSE "ending")
        /\ cause' = (IF Busy THEN "cut" ELSE IF cause = "none" THEN "interrupt" ELSE cause)
        /\ UNCHANGED <<worker, queue>>
        /\ service'.linked = service.linked /\ service'.due = service.due
        /\ service'.failed = service.failed /\ (~Busy => service'.active = service.active)
    BY <1>7 DEF Interrupt, Signalled, Busy, TypeOK, Service
  <2>2. loop \notin {"ending", "gone", "exited"} /\ (~Busy => why = "none")
    BY <1>7 DEF Interrupt, Reasoned
  <2>3. StageInv'
    BY <2>1, <2>2 DEF StopInv, StageInv, Busy, Cut
  <2>4. MarkInv'
    BY <2>1, <2>2 DEF StopInv, MarkInv, Marked, Cut, Busy
  <2>5. WorkerInv'
    BY <2>1, <2>2 DEF StopInv, StageInv, WorkerInv, Marked, Cut, Busy, Alive
  <2> QED BY <2>3, <2>4, <2>5 DEF StopInv
<1>8. CASE FailedWrite \/ SpaceLow
  BY <1>8, BeginStopStep DEF FailedWrite, SpaceLow, Quiet, LowDisk
<1>9. CASE Checked
  <2>1. CASE "rotation" \in service.due \ {"disk"}
    BY <1>9, <2>1, BeginStopStep DEF Checked, Quiet
  <2>2. CASE "rotation" \notin service.due \ {"disk"}
    <3>1. /\ loop = "maintain" /\ loop' = "input" /\ UNCHANGED <<why, worker, queue, cause>>
          /\ service'.active = service.active /\ service'.linked = service.linked
          /\ service'.failed = service.failed /\ service'.due \subseteq service.due
      BY <1>9, <2>2 DEF Checked, Quiet, TypeOK, Service
    <3>2. service'.due # {} => service.due # {}
      BY <3>1
    <3> QED BY <3>1, <3>2 DEF StopInv, StageInv, MarkInv, WorkerInv, Busy, Cut, Alive, Marked
  <2> QED BY <2>1, <2>2
<1>10. CASE ControlOff
  <2>1. CASE service.active
    BY <1>10, <2>1, BeginStopStep DEF ControlOff
  <2>2. CASE ~service.active
    BY <1>10, <2>2 DEF ControlOff, StopInv, StageInv, MarkInv, WorkerInv, Busy, Cut, Alive, Marked
  <2> QED BY <2>1, <2>2
<1>11. CASE Finally
  <2>1. CASE service.active
    BY <1>11, <2>1, BeginStopStep DEF Finally
  <2>2. CASE ~service.active
    BY <1>11, <2>2 DEF Finally, StopInv, StageInv, MarkInv, WorkerInv, Busy, Cut, Alive, Marked
  <2> QED BY <2>1, <2>2
<1>12. CASE Offer
  BY <1>12, OfferStep
<1>13. CASE Worker
  BY <1>13, CollectStep, WriteStep DEF Worker
<1>14. ASSUME UNCHANGED <<why, worker, queue, cause>>,
              service'.active = service.active, service'.linked = service.linked,
              service'.failed = service.failed,
              service'.due = service.due \/ service.active,
              \/ loop' = loop
              \/ loop \in {"input", "maintain"} /\ loop' \in {"input", "maintain"}
       PROVE  StopInv'
  BY <1>14 DEF StopInv, StageInv, MarkInv, WorkerInv, Busy, Cut, Alive, Marked
<1>15. CASE NoControl \/ SetControl \/ UNCHANGED vars
  BY <1>14, <1>15 DEF NoControl, SetControl, vars
<1>16. CASE Sampled \/ OfferInVain
  BY <1>14, <1>16 DEF Sampled, OfferInVain, TypeOK, Service
<1>17. CASE Tick
  <2>1. PICK d \in {"disk", "rotation"} : service' = [service EXCEPT !.due = @ \cup {d}]
    BY <1>17 DEF Tick
  <2>2. /\ service'.active = service.active /\ service'.linked = service.linked
        /\ service'.failed = service.failed /\ service.active
    BY <1>17, <2>1 DEF Tick, TypeOK, Service
  <2> QED BY <1>14, <1>17, <2>2 DEF Tick
<1>18. CASE Exit
  BY <1>18 DEF Exit, StopInv, StageInv, MarkInv, WorkerInv, Busy, Cut, Alive, Marked
<1>19. CASE SourceEnds
  BY <1>19 DEF SourceEnds, StopInv, StageInv, MarkInv, WorkerInv, Busy, Cut, Alive, Marked
<1> QED BY <1>1, <1>2, <1>3, <1>4, <1>5, <1>6, <1>7, <1>8, <1>9, <1>10, <1>11, <1>12, <1>13,
           <1>15, <1>16, <1>17, <1>18, <1>19 DEF Next, LoopProgress

-----------------------------------------------------------------------------
(* What each operation does to the files.                                  *)

\* All but the newest file are what they were, and there is no other.
SameOlder ==
  Newest' = Newest /\ \A i \in DOMAIN files : i < Newest => files'[i] = files[i]

SameText ==
  /\ Current'.rows = Current.rows /\ Current'.accepted = Current.accepted
  /\ Current'.whole = Current.whole

\* The newest file is there, and well typed.
LEMMA CurrentType ==
  ASSUME TypeOK, files # << >>
  PROVE  /\ Current \in File /\ Newest \in Nat \ {0} /\ DOMAIN files = 1 .. Newest
         /\ Newest \in DOMAIN files
         /\ Current.rows \in Seq(Numbers) /\ Current.accepted \in Seq(Numbers)
<1>1. Current \in File /\ Newest \in Nat \ {0} /\ DOMAIN files = 1 .. Newest
      /\ Newest \in DOMAIN files
  <2> HIDE DEF File
  <2> QED BY DEF TypeOK, Current, Newest
<1> QED BY <1>1 DEF File

LEMMA Replaced ==
  ASSUME TypeOK, files # << >>, NEW file \in File, files' = [files EXCEPT ![Newest] = file]
  PROVE  SameOlder /\ Current' = file
<1>1. Len(files') = Newest
  BY NewestReplaced
<1>2. files'[Newest] = file /\ \A i \in DOMAIN files : i < Newest => files'[i] = files[i]
  BY NewestReplaced
<1>3. Newest' = Newest
  BY <1>1 DEF Newest
<1> QED BY <1>2, <1>3 DEF SameOlder, Current

LEMMA OpensFiles ==
  ASSUME TypeOK, NEW active, NEW due, Opens(active, due)
  PROVE  /\ Newest' = Newest + 1 /\ Newest \in Nat /\ Current' = Segment
         /\ DOMAIN files = 1 .. Newest /\ DOMAIN files' = 1 .. Newest + 1
         /\ \A i \in DOMAIN files : files'[i] = files[i]
<1>1. Segment \in File
  BY SegmentType
<1> HIDE DEF File
<1>2. files \in Seq(File) /\ files' = Append(files, Segment)
  BY DEF Opens, TypeOK
<1> QED BY <1>1, <1>2 DEF Newest, Current

LEMMA JoinFiles ==
  ASSUME TypeOK, files # << >>, Join
  PROVE  /\ SameOlder /\ SameText /\ Current'.open = Current.open
         /\ Current'.ended = Current.ended \/ (Current'.ended /\ why = "lowdisk")
<1>1. CASE UNCHANGED files
  BY <1>1 DEF SameOlder, SameText, Current, Newest
<1>2. CASE why = "lowdisk" /\ files' = [files EXCEPT ![Newest].ended = TRUE]
  <2> DEFINE file == [Current EXCEPT !.ended = TRUE]
  <2>1. file \in File
    BY FlaggedType
  <2>2. files' = [files EXCEPT ![Newest] = file]
    BY <1>2 DEF Current
  <2>3. /\ file.rows = Current.rows /\ file.accepted = Current.accepted
        /\ file.whole = Current.whole /\ file.open = Current.open /\ file.ended
    BY CurrentType DEF File
  <2> HIDE DEF file
  <2>4. SameOlder /\ Current' = file
    BY <2>1, <2>2, Replaced
  <2> QED BY <1>2, <2>3, <2>4 DEF SameText
<1> QED BY <1>1, <1>2 DEF Join

LEMMA CloseFiles ==
  ASSUME TypeOK, files # << >>, Close
  PROVE  SameOlder /\ SameText /\ ~Current'.open /\ Current'.ended = Current.ended
<1> DEFINE file == [Current EXCEPT !.open = FALSE]
<1>1. file \in File
  BY FlaggedType
<1>2. files' = [files EXCEPT ![Newest] = file]
  BY DEF Close, NewestClosed, Current
<1>3. /\ file.rows = Current.rows /\ file.accepted = Current.accepted
      /\ file.whole = Current.whole /\ ~file.open /\ file.ended = Current.ended
  BY CurrentType DEF File
<1> HIDE DEF file
<1>4. SameOlder /\ Current' = file
  BY <1>1, <1>2, Replaced
<1> QED BY <1>3, <1>4 DEF SameText

LEMMA EnqueuedFiles ==
  ASSUME TypeOK, files # << >>, NEW n \in Numbers, Enqueued(n)
  PROVE  /\ SameOlder
         /\ Current'.rows = Current.rows /\ Current'.whole = Current.whole
         /\ Current'.open = Current.open /\ Current'.ended = Current.ended
         /\ \/ UNCHANGED <<files, queue>>
            \/ /\ Current'.accepted = Append(Current.accepted, n) /\ queue' = Append(queue, n)
               /\ service.active /\ service.linked
<1>1. CASE UNCHANGED <<files, queue>>
  BY <1>1 DEF SameOlder, Current, Newest
<1>2. CASE /\ service.active /\ service.linked /\ queue' = Append(queue, n)
           /\ files' = [files EXCEPT ![Newest].accepted = Append(@, n)]
  <2> DEFINE accepted == Append(Current.accepted, n)
             file == [Current EXCEPT !.accepted = accepted]
  <2>1. accepted \in Seq(Numbers)
    <3>1. Current.accepted \in Seq(Numbers)
      BY CurrentType
    <3> HIDE DEF Numbers
    <3> QED BY <3>1
  <2>2. files' = [files EXCEPT ![Newest] = file]
    BY <1>2 DEF Current
  <2> HIDE DEF accepted
  <2>3. /\ file \in File
        /\ file.rows = Current.rows /\ file.accepted = accepted
        /\ file.whole = Current.whole /\ file.open = Current.open /\ file.ended = Current.ended
    BY <2>1, CurrentType DEF File
  <2> HIDE DEF file
  <2>4. SameOlder /\ Current' = file
    BY <2>2, <2>3, Replaced
  <2> QED BY <1>2, <2>3, <2>4 DEF accepted
<1> QED BY <1>1, <1>2 DEF Enqueued

\* Some first part of the batch reaches the file: none when it is thrown away.
LEMMA WriteFiles ==
  ASSUME TypeOK, Begun, Write
  PROVE  /\ files # << >> /\ SameOlder /\ worker'.batch = << >>
         /\ Current'.accepted = Current.accepted
         /\ Current'.open = Current.open /\ Current'.ended = Current.ended
         /\ \/ UNCHANGED files /\ (worker'.failed <=> worker.failed)
               /\ (worker.failed \/ ~Current.open)
            \/ \E n \in 0 .. Len(worker.batch) :
                 /\ Current.open /\ ~worker.failed
                 /\ Current'.rows = Current.rows \o SubSeq(worker.batch, 1, n)
                 /\ \/ worker'.failed /\ ~Current'.whole
                    \/ /\ n = Len(worker.batch)
                       /\ ~worker'.failed /\ Current'.whole = Current.whole
<1>1. files # << >> /\ worker.batch \in Seq(Numbers)
  BY DEF Begun, Write, NoWorker, TypeOK, Writer
<1>2. worker'.batch = << >>
  BY DEF Write, Discard, WriteAll, WriteFails, WriteClosed, Ready, TypeOK, Writer
<1>3. CASE Discard \/ WriteClosed
  <2>1. UNCHANGED files /\ (worker.failed \/ ~Current.open)
    BY <1>3 DEF Discard, WriteClosed, Current
  <2>2. worker'.failed <=> worker.failed
    BY <1>3 DEF Discard, WriteClosed, Ready, TypeOK, Writer
  <2> QED BY <1>1, <1>2, <2>1, <2>2 DEF SameOlder, Current, Newest
<1>4. CASE WriteAll
  <2> DEFINE file == Written(Current, worker.batch)
  <2>1. files' = [files EXCEPT ![Newest] = file]
    BY <1>4 DEF WriteAll, Current
  <2>2. /\ file \in File
        /\ file.rows = Current.rows \o worker.batch /\ file.accepted = Current.accepted
        /\ file.whole = Current.whole /\ file.open = Current.open /\ file.ended = Current.ended
    BY <1>1, CurrentType, WrittenType
  <2> HIDE DEF file
  <2>3. SameOlder /\ Current' = file
    BY <1>1, <2>1, <2>2, Replaced
  <2>4. Current.open /\ ~worker.failed /\ ~worker'.failed
    BY <1>4 DEF WriteAll, Ready, TypeOK, Writer, Current
  <2>5. SubSeq(worker.batch, 1, Len(worker.batch)) = worker.batch
        /\ Len(worker.batch) \in 0 .. Len(worker.batch)
    <3> HIDE DEF Numbers
    <3> QED BY <1>1
  <2> QED BY <1>1, <1>2, <2>2, <2>3, <2>4, <2>5
<1>5. CASE WriteFails
  <2>1. PICK n \in 0 .. Len(worker.batch) :
          files' = [files EXCEPT ![Newest] =
                      [Written(@, SubSeq(worker.batch, 1, n)) EXCEPT !.whole = FALSE]]
    BY <1>5 DEF WriteFails
  <2> DEFINE part == SubSeq(worker.batch, 1, n)
             written == Written(Current, part)
             file == [written EXCEPT !.whole = FALSE]
  <2>2. part \in Seq(Numbers)
    <3> HIDE DEF Numbers
    <3> QED BY <1>1
  <2>3. files' = [files EXCEPT ![Newest] = file]
    BY <2>1 DEF Current
  <2> HIDE DEF part
  <2>4. /\ written \in File
        /\ written.rows = Current.rows \o part /\ written.accepted = Current.accepted
        /\ written.open = Current.open /\ written.ended = Current.ended
    BY <1>1, <2>2, CurrentType, WrittenType
  <2> HIDE DEF written
  <2>5. /\ file \in File /\ file.rows = written.rows /\ file.accepted = written.accepted
        /\ file.open = written.open /\ file.ended = written.ended /\ ~file.whole
    BY <2>4 DEF File
  <2> HIDE DEF file
  <2>6. SameOlder /\ Current' = file
    BY <1>1, <2>3, <2>5, Replaced
  <2>7. Current.open /\ ~worker.failed /\ worker'.failed
    BY <1>5 DEF WriteFails, Ready, TypeOK, Writer, Current
  <2> QED BY <1>1, <1>2, <2>4, <2>5, <2>6, <2>7 DEF part
<1> QED BY <1>3, <1>4, <1>5 DEF Write

-----------------------------------------------------------------------------
(* The files: open as long as they are written, whole until a write fails. *)

LEMMA FileStep ==
  ASSUME TypeOK, Begun, Reasoned, StopInv, FileInv, [Next]_vars
  PROVE  FileInv'
<1> USE DEF outside
<1>0. StopInv'
  BY StopStep
<1>1. ASSUME NEW active \in BOOLEAN, NEW due \in SUBSET {"disk", "rotation"}, Opens(active, due),
             loop' \in {"input", "maintain", "ending"}
      PROVE  FileInv'
  <2>1. Current' = Segment /\ worker' = [NoWorker EXCEPT !.pc = "get"] /\ service'.linked
    BY <1>1, OpensFiles DEF Opens
  <2>2. Current'.open /\ ~Current'.ended /\ Current'.whole
    BY <2>1 DEF Segment
  <2>3. ~worker'.failed
    BY <2>1 DEF NoWorker
  <2> QED BY <2>1, <2>2, <2>3 DEF FileInv
<1>2. CASE Join
  <2>1. files # << >> /\ loop = "join" /\ loop' = "close" /\ worker.pc = "exited"
        /\ UNCHANGED <<service, worker, cause>>
    BY <1>2 DEF Begun, Busy, Join, Joined
  <2>2. SameText /\ Current'.open = Current.open
    BY <1>2, <2>1, JoinFiles
  <2>3. ~service.linked
    BY <2>1 DEF StopInv, StageInv
  <2> QED BY <2>1, <2>2, <2>3 DEF FileInv, SameText
<1>3. CASE Close
  <2>1. files # << >> /\ loop = "close" /\ UNCHANGED worker /\ ~service'.linked
    BY <1>3 DEF Begun, Busy, Close, Closed, TypeOK, Service
  <2>2. SameText /\ ~Current'.open /\ Current'.ended = Current.ended
    BY <1>3, <2>1, CloseFiles
  <2>3. loop' \notin {"put", "join", "close"}
    <3>1. why # "none"
      BY <2>1 DEF Reasoned, Busy
    <3> QED BY <1>3, <3>1 DEF Close, AfterClose, TypeOK
  <2> QED BY <2>1, <2>2, <2>3 DEF FileInv, SameText
<1>4. CASE Offer
  <2>1. offered + 1 \in Numbers
    BY <1>4, LoggingAssumption DEF Offer, TypeOK, Numbers
  <2>2. service'.linked = service.linked /\ UNCHANGED <<loop, worker, cause>>
    BY <1>4 DEF Offer, Enqueued, TypeOK, Service
  <2>3. CASE files = << >>
    <3>1. ~service.active /\ ~service.linked /\ loop \notin {"put", "join"}
      BY <2>3 DEF Begun, Off, Busy
    <3>2. files' = << >>
      BY <1>4, <2>3, <3>1 DEF Offer, Enqueued
    <3> QED BY <2>2, <3>1, <3>2 DEF FileInv
  <2>4. CASE files # << >>
    BY <1>4, <2>1, <2>2, <2>4, EnqueuedFiles DEF Offer, FileInv, Cut
  <2> QED BY <2>3, <2>4
<1>5. CASE Worker /\ Write
  <2>1. UNCHANGED <<loop, cause>> /\ Write
    BY <1>5 DEF Worker
  <2>2. service'.linked = service.linked /\ worker.pc = "write"
    BY <2>1 DEF Write, Discard, WriteAll, WriteFails, WriteClosed, TypeOK, Service
  <2>3. /\ files # << >> /\ Current'.open = Current.open /\ Current'.ended = Current.ended
        /\ Current'.whole <=> ~worker'.failed
    BY <2>1, WriteFiles DEF FileInv, Current, Newest
  <2> QED BY <2>1, <2>2, <2>3 DEF FileInv, Cut
<1>6. CASE Worker /\ Collect
  <2>1. UNCHANGED <<loop, cause, files, service>>
    BY <1>6 DEF Worker, Collect
  <2>2. worker'.failed = worker.failed /\ worker.pc # "exited"
    BY <1>6 DEF Collect, Get, Gather, BatchDone, TypeOK, Writer
  <2> QED BY <2>1, <2>2 DEF FileInv, Current, Newest, Cut
<1>7. ASSUME UNCHANGED <<worker, files>>, service'.linked = service.linked, loop' = loop,
             cause' = cause
      PROVE  FileInv'
  BY <1>7 DEF FileInv, Current, Newest, Cut
<1>8. ASSUME UNCHANGED <<worker, files, cause>>, service'.linked = service.linked,
             loop \notin {"put", "join", "close"}, loop' \notin {"put", "join", "close"}
      PROVE  FileInv'
  BY <1>8 DEF FileInv, Current, Newest, Cut
<1>9. ASSUME UNCHANGED <<worker, files, cause>>, NEW reason, BeginStop(reason),
             loop \in {"input", "maintain", "ending"}, service.active
      PROVE  FileInv'
  <2>1. /\ loop' = (IF service.linked THEN "put" ELSE "close") /\ ~service'.linked
    BY <1>9 DEF BeginStop, TypeOK, Service
  <2>2. ~Cut => service.linked
    BY <1>9 DEF StopInv, StageInv, Reasoned, Busy
  <2> QED BY <1>9, <2>1, <2>2 DEF FileInv, Current, Newest, Cut
<1>10. CASE PutStop
  BY <1>10 DEF PutStop, FileInv, Current, Newest, Cut
<1>11. CASE Reopen
  <2>1. CASE OpenFails
    BY <1>8, <1>11, <2>1 DEF Reopen, OpenFails, FileInv, StopInv, StageInv, Cut, Current, Newest
  <2>2. CASE Opens(TRUE, {}) /\ loop' = "input"
    BY <1>1, <2>2
  <2> QED BY <1>11, <2>1, <2>2 DEF Reopen
<1>12. CASE ControlOn
  <2>1. CASE OpenFails
    BY <1>12, <2>1 DEF ControlOn, OpenFails, FileInv, StopInv, StageInv, Cut, Current, Newest
  <2>2. CASE Opens(TRUE, {"disk"}) /\ loop' = "maintain"
    BY <1>1, <2>2
  <2> QED BY <1>12, <2>1, <2>2 DEF ControlOn
<1>13. CASE InterruptInStart
  BY <1>1, <1>13 DEF InterruptInStart
<1>14. CASE Interrupt
  <2>1. /\ UNCHANGED <<worker, files>> /\ loop' \in {"gone", "ending"}
        /\ cause' = (IF Busy THEN "cut" ELSE IF cause = "none" THEN "interrupt" ELSE cause)
        /\ service'.linked = service.linked
    BY <1>14 DEF Interrupt, Signalled, Busy, TypeOK, Service
  <2>2. Busy => ~service.linked
    BY DEF StopInv, StageInv, Busy
  <2> QED BY <2>1, <2>2 DEF FileInv, Current, Newest, Cut, Busy
<1>15. CASE FailedWrite \/ SpaceLow
  <2>1. service.active /\ loop = "maintain"
    BY <1>15 DEF FailedWrite, SpaceLow, Quiet, StopInv, StageInv, Cut, Busy
  <2> QED BY <1>9, <1>15, <2>1 DEF FailedWrite, SpaceLow, LowDisk
<1>16. CASE Checked
  <2>1. CASE "rotation" \in service.due \ {"disk"}
    <3>1. service.active /\ loop = "maintain"
      BY <1>16, <2>1 DEF Checked, Quiet, StopInv, StageInv, Cut
    <3> QED BY <1>9, <1>16, <2>1, <3>1 DEF Checked
  <2>2. CASE "rotation" \notin service.due \ {"disk"}
    BY <1>8, <1>16, <2>2 DEF Checked, Quiet, TypeOK, Service
  <2> QED BY <2>1, <2>2
<1>17. CASE ControlOff
  <2>1. CASE service.active
    BY <1>9, <1>17, <2>1 DEF ControlOff
  <2>2. CASE ~service.active
    BY <1>8, <1>17, <2>2 DEF ControlOff
  <2> QED BY <2>1, <2>2
<1>18. CASE Finally
  <2>1. CASE service.active
    BY <1>9, <1>18, <2>1 DEF Finally
  <2>2. CASE ~service.active
    BY <1>8, <1>18, <2>2 DEF Finally
  <2> QED BY <2>1, <2>2
<1>19. CASE NoControl \/ Exit
  BY <1>8, <1>19 DEF NoControl, Exit
<1>20. CASE SetControl \/ UNCHANGED vars
  BY <1>7, <1>20 DEF SetControl, vars
<1>21. CASE Sampled \/ OfferInVain
  BY <1>8, <1>21 DEF Sampled, OfferInVain, TypeOK, Service
<1>22. CASE Tick
  <2>1. PICK d \in {"disk", "rotation"} : service' = [service EXCEPT !.due = @ \cup {d}]
    BY <1>22 DEF Tick
  <2> QED BY <1>7, <1>22, <2>1 DEF Tick, TypeOK, Service
<1>23. CASE SourceEnds
  BY <1>23 DEF SourceEnds, FileInv, Current, Newest, Cut, StopInv, StageInv
<1> QED BY <1>2, <1>3, <1>4, <1>5, <1>6, <1>10, <1>11, <1>12, <1>13, <1>14, <1>15, <1>16, <1>17,
           <1>18, <1>19, <1>20, <1>21, <1>22, <1>23 DEF Next, LoopProgress, Worker

LEMMA InitStop == Init => StopInv /\ FileInv
<1> SUFFICES ASSUME Init
             PROVE  StopInv /\ FileInv
  OBVIOUS
<1>1. /\ ~service.active /\ ~service.linked /\ ~service.failed /\ service.due = {}
      /\ worker.pc = "none" /\ ~worker.stop
  BY DEF Init, Off, NoWorker
<1>2. ~Marked
  BY DEF Init, Marked
<1> QED BY <1>1, <1>2
    DEF Init, StopInv, StageInv, MarkInv, WorkerInv, FileInv, Busy, Cut, Marked

LEMMA AlwaysStopped == Spec => [](StopInv /\ FileInv)
<1>1. /\ TypeOK /\ Begun /\ Reasoned /\ StopInv /\ FileInv /\ [Next]_vars
      => StopInv' /\ FileInv'
  BY StopStep, FileStep
<1> QED BY <1>1, InitStop, TypeCorrect, PTL DEF Spec

\* A write failure is noticed while its segment is in use, whichever thread
\* is ahead: maintain() stops the segment it hit and no later one.
THEOREM FailuresAreCurrent == Spec => []FailureIsCurrent
<1>1. StopInv => FailureIsCurrent
  BY DEF StopInv, StageInv, FailureIsCurrent, Busy, Cut
<1> QED BY <1>1, AlwaysStopped, PTL

-----------------------------------------------------------------------------
(* What is accepted is written.                                            *)

\* Between two of its batches the thread holds nothing.
BatchInv == worker.pc \in {"none", "get", "exited"} => worker.batch = << >>

\* What the segment's queue has been given, the stop mark included.
Given == IF Marked THEN Append(Current.accepted, StopMark) ELSE Current.accepted

\* File, batch and queue together are what the queue has been given, and the
\* segments before are closed and complete.
Complete(file) == ~file.open /\ (file.whole => file.rows = file.accepted)

FlowInv ==
  /\ \A i \in DOMAIN files : i < Newest => Complete(files[i])
  /\ files # << >> /\ Current.whole /\ ~Cut =>
       Given = (Current.rows \o worker.batch) \o queue

Items == Numbers \cup {StopMark}

\* An item moves from the head of a queue to the end of what is before it.
LEMMA Shifted ==
  ASSUME NEW S, NEW s \in Seq(S), NEW q \in Seq(S), q # << >>
  PROVE  Append(s, Head(q)) \o Tail(q) = s \o q
<1>1. /\ Head(q) \in S /\ Tail(q) \in Seq(S) /\ Append(s, Head(q)) \in Seq(S)
      /\ Len(Tail(q)) = Len(q) - 1 /\ Len(Append(s, Head(q))) = Len(s) + 1
      /\ Len(q) \in Nat \ {0} /\ Len(s) \in Nat
      /\ \A i \in 1 .. Len(q) - 1 : Tail(q)[i] = q[i + 1]
      /\ \A i \in 1 .. Len(s) : Append(s, Head(q))[i] = s[i]
      /\ Append(s, Head(q))[Len(s) + 1] = q[1]
  OBVIOUS
<1>2. /\ Append(s, Head(q)) \o Tail(q) \in Seq(S) /\ s \o q \in Seq(S)
      /\ Len(Append(s, Head(q)) \o Tail(q)) = Len(s) + Len(q)
      /\ Len(s \o q) = Len(s) + Len(q)
  BY <1>1, ConcatProperties
<1>3. ASSUME NEW i \in 1 .. Len(s) + Len(q)
      PROVE  (Append(s, Head(q)) \o Tail(q))[i] = (s \o q)[i]
  BY <1>1, ConcatProperties
<1> QED BY <1>2, <1>3, SeqEqual

\* Appending to the second of two sequences.
LEMMA AppendLast ==
  ASSUME NEW S, NEW s \in Seq(S), NEW q \in Seq(S), NEW e \in S
  PROVE  s \o Append(q, e) = Append(s \o q, e)
<1>1. <<e>> \in Seq(S) /\ s \o q \in Seq(S)
  BY ConcatProperties
<1>2. Append(q, e) = q \o <<e>> /\ Append(s \o q, e) = (s \o q) \o <<e>>
  BY <1>1, AppendIsConcat
<1> QED BY <1>1, <1>2, ConcatAssociative

LEMMA FlowTypes ==
  ASSUME TypeOK
  PROVE  /\ queue \in Seq(Items) /\ worker.batch \in Seq(Items)
         /\ files # << >> => /\ Current.rows \in Seq(Items) /\ Current.accepted \in Seq(Items)
                             /\ Current.rows \o worker.batch \in Seq(Items)
<1>1. queue \in Seq(Items) /\ worker.batch \in Seq(Numbers)
  BY DEF TypeOK, Writer, Items
<1>2. files # << >> => Current.rows \in Seq(Numbers) /\ Current.accepted \in Seq(Numbers)
  BY CurrentType
<1>3. Numbers \subseteq Items
  BY DEF Items
<1> HIDE DEF Items, Numbers
<1>4. /\ worker.batch \in Seq(Items)
      /\ files # << >> => Current.rows \in Seq(Items) /\ Current.accepted \in Seq(Items)
  BY <1>1, <1>2, <1>3, SeqMonotonic
<1> QED BY <1>1, <1>4, ConcatProperties

LEMMA BatchStep ==
  ASSUME TypeOK, Begun, BatchInv, [Next]_vars
  PROVE  BatchInv'
<1>1. CASE UNCHANGED worker
  BY <1>1 DEF BatchInv
<1>2. CASE Collect
  BY <1>2 DEF Collect, Get, Gather, BatchDone, BatchInv, TypeOK, Writer
<1>3. CASE Write
  BY <1>3, WriteFiles DEF BatchInv
<1>4. ASSUME NEW active, NEW due, Opens(active, due)
      PROVE  BatchInv'
  <2>1. worker'.batch = << >>
    BY <1>4 DEF Opens, NoWorker
  <2> QED BY <2>1 DEF BatchInv
<1> QED BY <1>1, <1>2, <1>3, <1>4
    DEF Next, LoopProgress, vars, PutStop, Join, Close, Reopen, NoControl, FailedWrite, Sampled,
        SpaceLow, LowDisk, Checked, Finally, Exit, ControlOff, ControlOn, OpenFails, Offer,
        OfferInVain, SourceEnds, Worker, SetControl, Tick, Interrupt, InterruptInStart

\* The thread takes an item: it is still between the file and the queue.
LEMMA CollectFlow ==
  ASSUME TypeOK, Begun, StopInv, BatchInv, FlowInv, Collect,
         UNCHANGED <<cause, files>>
  PROVE  FlowInv'
<1> DEFINE rows == Current.rows
           batch == worker.batch
<1>1. files # << >> /\ Newest' = Newest /\ Current' = Current
  BY CollectType DEF Newest, Current
<1>2. /\ queue \in Seq(Items) /\ rows \in Seq(Items) /\ batch \in Seq(Items)
      /\ rows \o batch \in Seq(Items)
  BY <1>1, FlowTypes
<1> SUFFICES ASSUME Current.whole, ~Cut
             PROVE  Given' = (rows \o worker'.batch) \o queue'
  BY <1>1 DEF FlowInv, Cut
<1>3. Given = (rows \o batch) \o queue
  BY <1>1 DEF FlowInv
<1> HIDE DEF rows, batch
<1>4. CASE BatchDone
  <2>1. worker'.batch = batch /\ UNCHANGED queue
    BY <1>4 DEF BatchDone, TypeOK, Writer, batch
  <2> QED BY <1>1, <1>3, <2>1 DEF Given, Marked
<1>5. ASSUME queue # << >>, queue' = Tail(queue), Head(queue) = StopMark, worker'.batch = batch
      PROVE  Given' = (rows \o worker'.batch) \o queue'
  <2>1. Marked /\ queue' = << >> /\ ~Marked'
    BY <1>5, TakenMark DEF StopInv
  <2>2. queue = << StopMark >>
    <3>1. Len(queue) \in Nat \ {0} /\ Len(Tail(queue)) = Len(queue) - 1 /\ queue[1] = StopMark
      BY <1>2, <1>5, HeadTailProperties
    <3>2. Len(queue) = 1
      <4>1. Tail(queue) = << >> /\ Len(<< >>) = 0
        BY <1>5, <2>1
      <4> DEFINE n == Len(queue)
      <4>2. n \in Nat /\ n - 1 = 0
        BY <3>1, <4>1
      <4> HIDE DEF n
      <4>3. n = 1
        BY <4>2
      <4> QED BY <4>3 DEF n
    <3>3. << StopMark >> \in Seq(Items) /\ Len(<< StopMark >>) = 1
          /\ << StopMark >>[1] = StopMark
      BY DEF Items
    <3> QED BY <1>2, <3>1, <3>2, <3>3, SeqEqual
  <2>3. Given = Append(rows \o batch, StopMark)
    BY <1>2, <1>3, <2>2, AppendIsConcat DEF Items
  <2>4. Append(Current.accepted, StopMark) = Append(rows \o batch, StopMark)
    BY <2>1, <2>3 DEF Given
  <2>5. Current.accepted = rows \o batch
    <3> DEFINE s == Current.accepted
               t == rows \o batch
    <3>1. s \in Seq(Items) /\ t \in Seq(Items) /\ Append(s, StopMark) = Append(t, StopMark)
          /\ StopMark \in Items
      BY <1>1, <1>2, <2>4, FlowTypes DEF Items
    <3> HIDE DEF s, t
    <3>2. s = t
      BY <3>1, AppendInjective
    <3> QED BY <3>2 DEF s, t
  <2>6. (rows \o batch) \o << >> = rows \o batch
    BY <1>2, ConcatEmptySeq
  <2> QED BY <1>1, <1>5, <2>1, <2>5, <2>6 DEF Given
<1>6. ASSUME queue # << >>, queue' = Tail(queue), Head(queue) # StopMark,
             worker'.batch = Append(batch, Head(queue))
      PROVE  Given' = (rows \o worker'.batch) \o queue'
  <2>1. Marked' <=> Marked
    BY <1>6, TakenMark DEF StopInv
  <2>2. Head(queue) \in Items
    BY <1>2, <1>6, HeadTailProperties
  <2>3. rows \o Append(batch, Head(queue)) = Append(rows \o batch, Head(queue))
    BY <1>2, <2>2, AppendLast
  <2>4. Append(rows \o batch, Head(queue)) \o Tail(queue) = (rows \o batch) \o queue
    BY <1>2, <1>6, Shifted
  <2> QED BY <1>1, <1>3, <1>6, <2>1, <2>3, <2>4 DEF Given
<1>7. CASE Get
  <2>1. batch = << >> /\ queue # << >> /\ queue' = Tail(queue)
    BY <1>7 DEF Get, BatchInv, batch
  <2>2. Head(queue) = StopMark => worker'.batch = batch
    BY <1>7 DEF Get, TypeOK, Writer, batch
  <2>3. Head(queue) # StopMark => worker'.batch = Append(batch, Head(queue))
    BY <1>7, <2>1 DEF Get, TypeOK, Writer
  <2> QED BY <1>5, <1>6, <2>1, <2>2, <2>3
<1>8. CASE Gather
  <2>1. Head(queue) = StopMark => worker'.batch = batch
    BY <1>8 DEF Gather, TypeOK, Writer, batch
  <2>2. Head(queue) # StopMark => worker'.batch = Append(batch, Head(queue))
    BY <1>8 DEF Gather, TypeOK, Writer, batch
  <2> QED BY <1>5, <1>6, <1>8, <2>1, <2>2 DEF Gather
<1> QED BY <1>4, <1>7, <1>8 DEF Collect

\* The thread writes what it holds: it is no longer in its batch but in the
\* file, or the file is no longer whole.
LEMMA WriteFlow ==
  ASSUME TypeOK, Begun, StopInv, FileInv, FlowInv, Write,
         UNCHANGED <<loop, cause>>
  PROVE  FlowInv'
<1>1. /\ files # << >> /\ SameOlder /\ worker'.batch = << >> /\ UNCHANGED queue
      /\ Current'.accepted = Current.accepted
  BY WriteFiles DEF Write
<1>2. DOMAIN files' = 1 .. Newest /\ DOMAIN files = 1 .. Newest
  <2>1. files' \in Seq(File) /\ Len(files') = Newest
    BY <1>1, WriteType DEF SameOlder, Newest
  <2> HIDE DEF File
  <2> QED BY <1>1, <2>1, CurrentType
<1>3. \A i \in DOMAIN files' : i < Newest' => Complete(files'[i])
  BY <1>1, <1>2 DEF SameOlder, FlowInv
<1>4. ASSUME Current'.whole, ~Cut
      PROVE  Given' = (Current'.rows \o worker'.batch) \o queue'
  <2>1. Current.open
    <3>1. worker.pc = "write"
      BY DEF Write
    <3>2. service.linked \/ loop \in {"put", "join"}
      BY <1>4, <3>1 DEF StopInv, WorkerInv
    <3> QED BY <3>2 DEF FileInv
  <2>2. Current.whole => ~worker.failed
    BY <1>1 DEF FileInv
  <2>3. PICK n \in 0 .. Len(worker.batch) :
          /\ Current'.rows = Current.rows \o SubSeq(worker.batch, 1, n)
          /\ n = Len(worker.batch)
          /\ Current'.whole = Current.whole
    <3>1. ~(UNCHANGED files /\ (worker.failed \/ ~Current.open))
      <4>1. ASSUME UNCHANGED files
            PROVE  ~worker.failed
        BY <1>4, <2>2, <4>1 DEF Current, Newest
      <4> QED BY <2>1, <4>1
    <3> QED BY <1>4, <3>1, WriteFiles
  <2>4. Current'.rows = Current.rows \o worker.batch /\ Current.whole
    <3>1. worker.batch \in Seq(Items)
      BY FlowTypes
    <3>2. SubSeq(worker.batch, 1, Len(worker.batch)) = worker.batch
      BY <3>1, SubSeqFull
    <3> QED BY <1>4, <2>3, <3>2
  <2>5. (Current.rows \o worker.batch) \o << >> = Current.rows \o worker.batch
    BY <1>1, FlowTypes, ConcatEmptySeq
  <2> QED BY <1>1, <1>4, <2>4, <2>5 DEF FlowInv, Given, Marked
<1> QED BY <1>3, <1>4 DEF FlowInv, Cut

\* The loop thread adds an item to the queue.
LEMMA PutFlow ==
  ASSUME TypeOK, StopInv, FlowInv, files # << >>, SameOlder, NEW item \in Items, ~Marked,
         queue' = Append(queue, item), queue' # << >>, DOMAIN files' = DOMAIN files,
         Current'.rows = Current.rows, Current'.whole = Current.whole,
         Given' = Append(Given, item), UNCHANGED <<worker, cause>>
  PROVE  FlowInv'
<1>1. /\ queue \in Seq(Items) /\ Current.rows \o worker.batch \in Seq(Items)
  BY FlowTypes
<1>2. (Current.rows \o worker.batch) \o Append(queue, item)
        = Append((Current.rows \o worker.batch) \o queue, item)
  <2> DEFINE s == Current.rows \o worker.batch
  <2>1. s \in Seq(Items) /\ queue \in Seq(Items) /\ item \in Items
    BY <1>1
  <2> HIDE DEF s
  <2>2. s \o Append(queue, item) = Append(s \o queue, item)
    BY <2>1, AppendLast
  <2> QED BY <2>2 DEF s
<1>3. \A i \in DOMAIN files' : i < Newest' => Complete(files'[i])
  BY DEF SameOlder, FlowInv
<1> QED BY <1>2, <1>3 DEF FlowInv, Cut

LEMMA OpensFlow ==
  ASSUME TypeOK, StopInv, FileInv, BatchInv, FlowInv, NEW active, NEW due, Opens(active, due),
         loop \in {"input", "reopen"}, ~service.linked
  PROVE  FlowInv'
<1>1. /\ Newest' = Newest + 1 /\ Newest \in Nat /\ Current' = Segment
      /\ DOMAIN files = 1 .. Newest /\ DOMAIN files' = 1 .. Newest + 1
      /\ \A i \in DOMAIN files : files'[i] = files[i]
  BY OpensFiles
<1>2. queue' = << >> /\ worker'.batch = << >>
  BY DEF Opens, NoWorker
<1>3. Current'.rows = << >> /\ Current'.accepted = << >>
  BY <1>1 DEF Segment
<1>4. Given' = (Current'.rows \o worker'.batch) \o queue'
  <2>1. << >> \o << >> = << >>
    <3>1. << >> \in Seq({})
      OBVIOUS
    <3> QED BY <3>1, ConcatEmptySeq
  <2> QED BY <1>2, <1>3, <2>1 DEF Given, Marked
<1>7. files # << >> => ~Current.open
  BY DEF StopInv, StageInv, FileInv, Cut
<1>5. ASSUME files # << >>, Current.whole
      PROVE  Current.rows = Current.accepted
  <2>1. queue = << >> /\ worker.batch = << >> /\ ~Cut
    BY DEF StopInv, StageInv, WorkerInv, BatchInv, Cut
  <2>2. Given = (Current.rows \o << >>) \o << >>
    BY <1>5, <2>1 DEF FlowInv
  <2>3. Given = Current.accepted
    BY <2>1 DEF Given, Marked
  <2>4. Current.rows \o << >> = Current.rows
    BY <1>5, FlowTypes, ConcatEmptySeq
  <2> QED BY <2>2, <2>3, <2>4
<1>6. ASSUME NEW i \in DOMAIN files', i < Newest'
      PROVE  Complete(files'[i])
  <2>1. i \in DOMAIN files /\ files'[i] = files[i] /\ files # << >>
    BY <1>1, <1>6
  <2>2. CASE i < Newest
    BY <1>6, <2>1, <2>2 DEF FlowInv
  <2>3. CASE ~(i < Newest)
    <3>1. i = Newest
      BY <1>1, <2>1, <2>3
    <3> QED BY <1>5, <1>7, <2>1, <3>1 DEF Current, Complete
  <2> QED BY <2>2, <2>3
<1> QED BY <1>4, <1>6 DEF FlowInv

LEMMA FlowStep ==
  ASSUME TypeOK, Begun, Reasoned, StopInv, FileInv, BatchInv, FlowInv, [Next]_vars
  PROVE  FlowInv'
<1> USE DEF outside
<1>1. files' \in Seq(File)
  BY TypeStep DEF TypeOK
<1>2. ASSUME UNCHANGED <<files, queue, worker>>, Cut => Cut'
      PROVE  FlowInv'
  BY <1>2 DEF FlowInv, Given, Marked, Current, Newest
<1>3. ASSUME SameOlder, files # << >>
      PROVE  DOMAIN files' = DOMAIN files
  <2>1. Len(files') = Len(files)
    BY <1>3 DEF SameOlder, Newest
  <2> HIDE DEF File
  <2> QED BY <1>1, <2>1 DEF TypeOK
<1>4. ASSUME SameOlder, SameText, files # << >>, UNCHANGED <<queue, worker>>, Cut => Cut'
      PROVE  FlowInv'
  BY <1>3, <1>4 DEF FlowInv, Given, Marked, SameOlder, SameText
<1>5. CASE Join
  <2>1. files # << >> /\ UNCHANGED <<queue, worker, cause>>
    BY <1>5 DEF Begun, Busy, Join
  <2> QED BY <1>4, <1>5, <2>1, JoinFiles DEF Cut
<1>6. CASE Close
  <2>1. files # << >> /\ UNCHANGED <<queue, worker>> /\ loop = "close" /\ why # "none"
    BY <1>6 DEF Begun, Busy, Close, Reasoned
  <2>2. Cut => Cut'
    <3>1. Cut => why = "end"
      BY <2>1 DEF StopInv, StageInv, Busy, Cut
    <3>2. why = "end" => AfterClose(why) = "gone"
      BY DEF AfterClose
    <3> QED BY <1>6, <3>1, <3>2 DEF Close, Cut
  <2> QED BY <1>4, <1>6, <2>1, <2>2, CloseFiles
<1>7. CASE PutStop
  <2>1. /\ queue' = Append(queue, StopMark) /\ UNCHANGED <<worker, cause, files>> /\ ~Marked
        /\ files # << >> /\ loop = "put"
    BY <1>7 DEF PutStop, Begun, Busy, StopInv, MarkInv, StageInv
  <2>2. Marked'
    BY <2>1, PutMark
  <2>3. SameOlder /\ Current' = Current
    BY <2>1 DEF SameOlder, Newest, Current
  <2>4. Given' = Append(Given, StopMark)
    BY <2>1, <2>2, <2>3 DEF Given
  <2> QED BY <1>3, <2>1, <2>2, <2>3, <2>4, PutFlow DEF Items, Marked
<1>8. CASE Offer
  <2>1. offered + 1 \in Numbers /\ Enqueued(offered + 1) /\ UNCHANGED <<worker, cause, loop>>
    BY <1>8, LoggingAssumption DEF Offer, TypeOK, Numbers
  <2>2. CASE UNCHANGED <<files, queue>>
    BY <1>2, <2>1, <2>2 DEF Cut
  <2>3. CASE ~UNCHANGED <<files, queue>>
    <3>1. files # << >> /\ service.linked
      BY <2>1, <2>3 DEF Begun, Off, Enqueued
    <3>2. /\ SameOlder /\ Current'.rows = Current.rows /\ Current'.whole = Current.whole
          /\ Current'.accepted = Append(Current.accepted, offered + 1)
          /\ queue' = Append(queue, offered + 1)
      BY <2>1, <2>3, <3>1, EnqueuedFiles
    <3>3. ~Marked
      BY <3>1 DEF StopInv, StageInv, MarkInv
    <3>4. ~Marked'
      BY <2>1, <3>2, <3>3, PutNumber
    <3>5. Given' = Append(Given, offered + 1)
      BY <3>2, <3>3, <3>4 DEF Given
    <3>6. queue' # << >>
      <4>1. queue \in Seq(Items) /\ offered + 1 \in Items
        BY <2>1, FlowTypes DEF Items
      <4> QED BY <3>2, <4>1, AppendProperties
    <3> QED BY <1>3, <2>1, <3>1, <3>2, <3>3, <3>5, <3>6, PutFlow DEF Items
  <2> QED BY <2>2, <2>3
<1>9. CASE Worker
  <2>1. UNCHANGED <<loop, cause>>
    BY <1>9 DEF Worker
  <2> QED BY <1>9, <2>1, CollectFlow, WriteFlow DEF Worker, Collect
<1>10. CASE Reopen
  <2>1. CASE OpenFails
    BY <1>2, <1>10, <2>1 DEF Reopen, OpenFails, StopInv, StageInv, Cut
  <2>2. CASE Opens(TRUE, {})
    BY <1>10, <2>2, OpensFlow DEF Reopen, StopInv, StageInv
  <2> QED BY <1>10, <2>1, <2>2 DEF Reopen
<1>11. CASE ControlOn
  <2>1. CASE OpenFails
    BY <1>2, <1>11, <2>1 DEF ControlOn, OpenFails, StopInv, StageInv, Cut
  <2>2. CASE Opens(TRUE, {"disk"})
    BY <1>11, <2>2, OpensFlow DEF ControlOn, MayStart, StopInv, StageInv
  <2> QED BY <1>11, <2>1, <2>2 DEF ControlOn
<1>12. CASE InterruptInStart
  <2>1. ~service.linked
    BY <1>12 DEF InterruptInStart, MayStart, StopInv, StageInv
  <2> QED BY <1>12, <2>1, OpensFlow DEF InterruptInStart
<1>13. CASE Interrupt
  BY <1>2, <1>13 DEF Interrupt, Signalled, Cut
<1>14. CASE \/ NoControl \/ FailedWrite \/ Sampled \/ SpaceLow \/ Checked \/ Finally \/ Exit
            \/ ControlOff \/ OfferInVain \/ SetControl \/ Tick \/ UNCHANGED vars
  BY <1>2, <1>14 DEF NoControl, FailedWrite, Sampled, SpaceLow, LowDisk, Checked, Finally, Exit,
                     ControlOff, OfferInVain, SetControl, Tick, vars, Cut
<1>15. CASE SourceEnds
  BY <1>2, <1>15 DEF SourceEnds, StopInv, StageInv, Cut
<1> QED BY <1>5, <1>6, <1>7, <1>8, <1>9, <1>10, <1>11, <1>12, <1>13, <1>14, <1>15
    DEF Next, LoopProgress

LEMMA InitFlow == Init => BatchInv /\ FlowInv
BY DEF Init, NoWorker, BatchInv, FlowInv

LEMMA AlwaysFlow == Spec => [](BatchInv /\ FlowInv)
<1>1. /\ TypeOK /\ Begun /\ Reasoned /\ StopInv /\ FileInv /\ BatchInv /\ FlowInv /\ [Next]_vars
      => BatchInv' /\ FlowInv'
  BY BatchStep, FlowStep
<1> QED BY <1>1, InitFlow, TypeCorrect, AlwaysStopped, PTL DEF Spec

\* A closed segment holds what its queue accepted, in order and once, whatever
\* stopped it and however the writer thread's batches fell: only a failed
\* write or a signal that cuts the stop short loses any of it.
THEOREM ClosedAreDrained == Spec => []DrainedOnClose
<1>1. TypeOK /\ Begun /\ StopInv /\ FileInv /\ BatchInv /\ FlowInv => DrainedOnClose
  <2> SUFFICES ASSUME TypeOK, Begun, StopInv, FileInv, BatchInv, FlowInv,
                      NEW i \in DOMAIN files, ~files[i].open, files[i].whole, cause # "cut"
               PROVE  files[i].rows = files[i].accepted
    BY DEF DrainedOnClose
  <2>1. files # << >>
    OBVIOUS
  <2>2. DOMAIN files = 1 .. Newest /\ Newest \in Nat
    BY <2>1, CurrentType
  <2>3. CASE i < Newest
    BY <2>3 DEF FlowInv, Complete
  <2>4. CASE i = Newest
    <3>1. ~Current.open /\ Current.whole
      BY <2>4 DEF Current
    <3>2. ~service.linked /\ loop \notin {"put", "join"}
      BY <3>1 DEF FileInv
    <3>3. queue = << >> /\ worker.batch = << >>
      BY <3>2 DEF StopInv, WorkerInv, BatchInv, Cut
    <3>4. Current.accepted = (Current.rows \o << >>) \o << >>
      BY <2>1, <3>1, <3>3 DEF FlowInv, Cut, Given, Marked
    <3>5. Current.rows \o << >> = Current.rows
      BY <2>1, FlowTypes, ConcatEmptySeq
    <3> QED BY <2>4, <3>4, <3>5 DEF Current
  <2> QED BY <2>2, <2>3, <2>4
<1> QED BY <1>1, TypeCorrect, AlwaysStopped, AlwaysFlow, PTL

-----------------------------------------------------------------------------
(* The order of the records.                                               *)

InFiles == UNION {Range(files[i].rows) : i \in DOMAIN files}
InBatch == Range(worker.batch)
InQueue == Range(queue) \ {StopMark}

Before(S, T) == \A m \in S, n \in T : m < n
Sorted(s) == \A i, j \in DOMAIN s : i < j => s[i] < s[j] \/ s[j] = StopMark

\* What waits is newer than what is before it, and older than the next offer.
OrderInv ==
  /\ Before(InFiles, InBatch) /\ Before(InFiles, InQueue) /\ Before(InBatch, InQueue)
  /\ \A n \in InFiles \cup InBatch \cup InQueue : n <= offered
  /\ Sorted(worker.batch) /\ Sorted(queue)
  /\ \A i \in DOMAIN files : Sorted(files[i].rows)

\* An item after all of a sorted sequence.
LEMMA SortedAppend ==
  ASSUME NEW s \in Seq(Items), NEW n \in Items, Sorted(s),
         n = StopMark \/ \A m \in Range(s) \ {StopMark} : m < n
  PROVE  /\ Sorted(Append(s, n)) \/ \E m \in DOMAIN s : s[m] = StopMark
         /\ Range(Append(s, n)) = Range(s) \cup {n}
<1> HIDE DEF Items
<1>1. /\ Append(s, n) \in Seq(Items) /\ DOMAIN Append(s, n) = 1 .. Len(s) + 1
      /\ DOMAIN s = 1 .. Len(s) /\ Len(s) \in Nat
      /\ \A i \in 1 .. Len(s) : Append(s, n)[i] = s[i]
      /\ Append(s, n)[Len(s) + 1] = n
  OBVIOUS
<1>2. ASSUME NEW i \in DOMAIN Append(s, n), NEW j \in DOMAIN Append(s, n), i < j,
             \A m \in DOMAIN s : s[m] # StopMark
      PROVE  Append(s, n)[i] < Append(s, n)[j] \/ Append(s, n)[j] = StopMark
  <2>1. CASE j \in 1 .. Len(s)
    BY <1>1, <1>2, <2>1 DEF Sorted
  <2>2. CASE j = Len(s) + 1
    BY <1>1, <1>2, <2>2 DEF Range
  <2> QED BY <1>1, <2>1, <2>2
<1>3. Range(Append(s, n)) = Range(s) \cup {n}
  BY <1>1 DEF Range
<1> QED BY <1>2, <1>3 DEF Sorted

\* The head of a sorted queue is before the rest.
LEMMA SortedTail ==
  ASSUME NEW s \in Seq(Items), s # << >>, Sorted(s)
  PROVE  /\ Sorted(Tail(s)) /\ Range(Tail(s)) \subseteq Range(s) /\ Head(s) \in Range(s)
         /\ \A n \in Range(Tail(s)) \ {StopMark} : Head(s) < n
<1> HIDE DEF Items
<1>1. /\ Tail(s) \in Seq(Items) /\ DOMAIN Tail(s) = 1 .. Len(s) - 1 /\ Head(s) = s[1]
      /\ DOMAIN s = 1 .. Len(s) /\ Len(s) \in Nat \ {0}
      /\ \A i \in 1 .. Len(s) - 1 : Tail(s)[i] = s[i + 1] /\ i + 1 \in 1 .. Len(s)
  OBVIOUS
<1>2. Range(Tail(s)) \subseteq Range(s) /\ Head(s) \in Range(s)
  BY <1>1 DEF Range
<1>3. Sorted(Tail(s))
  BY <1>1 DEF Sorted
<1>4. ASSUME NEW i \in 1 .. Len(s) - 1, Tail(s)[i] # StopMark
      PROVE  Head(s) < Tail(s)[i]
  BY <1>1, <1>4 DEF Sorted
<1> QED BY <1>1, <1>2, <1>3, <1>4 DEF Range

\* Two sorted sequences, one behind the other.
LEMMA SortedConcat ==
  ASSUME NEW s \in Seq(Numbers), NEW t \in Seq(Numbers), Sorted(s), Sorted(t),
         Before(Range(s), Range(t))
  PROVE  Sorted(s \o t) /\ Range(s \o t) \subseteq Range(s) \cup Range(t)
<1> HIDE DEF Numbers
<1>1. /\ s \o t \in Seq(Numbers) /\ DOMAIN (s \o t) = 1 .. Len(s) + Len(t)
      /\ DOMAIN s = 1 .. Len(s) /\ DOMAIN t = 1 .. Len(t) /\ Len(s) \in Nat /\ Len(t) \in Nat
      /\ \A i \in 1 .. Len(s) : (s \o t)[i] = s[i]
      /\ \A i \in 1 .. Len(t) : (s \o t)[Len(s) + i] = t[i] /\ Len(s) + i \in 1 .. Len(s) + Len(t)
      /\ \A i \in 1 .. Len(s) + Len(t) :
           i \in 1 .. Len(s) \/ (i - Len(s) \in 1 .. Len(t) /\ (s \o t)[i] = t[i - Len(s)])
  BY ConcatProperties
<1>2. ASSUME NEW i \in 1 .. Len(s) + Len(t), NEW j \in 1 .. Len(s) + Len(t), i < j
      PROVE  (s \o t)[i] < (s \o t)[j] \/ (s \o t)[j] = StopMark
  <2>1. CASE j \in 1 .. Len(s)
    <3>1. i \in 1 .. Len(s)
      BY <1>1, <1>2, <2>1
    <3> QED BY <1>1, <1>2, <2>1, <3>1 DEF Sorted
  <2>2. CASE i \in 1 .. Len(s) /\ j - Len(s) \in 1 .. Len(t)
    <3>1. s[i] \in Range(s) /\ t[j - Len(s)] \in Range(t)
      BY <1>1, <2>2 DEF Range
    <3>2. (s \o t)[j] = t[j - Len(s)] /\ (s \o t)[i] = s[i]
      BY <1>1, <2>2
    <3> QED BY <3>1, <3>2 DEF Before
  <2>3. CASE i - Len(s) \in 1 .. Len(t) /\ j - Len(s) \in 1 .. Len(t)
    <3>1. (s \o t)[j] = t[j - Len(s)] /\ (s \o t)[i] = t[i - Len(s)]
      BY <1>1, <2>3
    <3>2. i - Len(s) < j - Len(s)
      BY <1>1, <1>2
    <3> QED BY <1>1, <2>3, <3>1, <3>2 DEF Sorted
  <2> QED BY <1>1, <2>1, <2>2, <2>3
<1>3. \A i \in 1 .. Len(s) + Len(t) : (s \o t)[i] \in Range(s) \cup Range(t)
  BY <1>1 DEF Range
<1>4. Range(s \o t) \subseteq Range(s) \cup Range(t)
  BY <1>1, <1>3 DEF Range
<1> QED BY <1>1, <1>2, <1>4 DEF Sorted

\* A first part of a sorted sequence.
LEMMA SortedPart ==
  ASSUME NEW s \in Seq(Numbers), NEW n \in 0 .. Len(s), Sorted(s)
  PROVE  /\ SubSeq(s, 1, n) \in Seq(Numbers) /\ Len(SubSeq(s, 1, n)) = n
         /\ Sorted(SubSeq(s, 1, n)) /\ Range(SubSeq(s, 1, n)) \subseteq Range(s)
<1> HIDE DEF Numbers
<1>1. /\ SubSeq(s, 1, n) \in Seq(Numbers) /\ Len(SubSeq(s, 1, n)) = n
      /\ DOMAIN SubSeq(s, 1, n) = 1 .. n /\ DOMAIN s = 1 .. Len(s) /\ Len(s) \in Nat
      /\ \A i \in 1 .. n : SubSeq(s, 1, n)[i] = s[i] /\ i \in 1 .. Len(s)
  OBVIOUS
<1> QED BY <1>1 DEF Sorted, Range

LEMMA NumberTypes ==
  ASSUME TypeOK
  PROVE  /\ InBatch \subseteq Numbers /\ InQueue \subseteq Numbers /\ InFiles \subseteq Numbers
         /\ worker.batch \in Seq(Numbers) /\ queue \in Seq(Items)
         /\ \A i \in DOMAIN files :
              files[i].rows \in Seq(Numbers) /\ Range(files[i].rows) \subseteq InFiles
<1>1. worker.batch \in Seq(Numbers) /\ queue \in Seq(Items)
  BY DEF TypeOK, Writer, Items
<1>2. \A i \in DOMAIN files : files[i].rows \in Seq(Numbers)
  <2>1. \A i \in DOMAIN files : files[i] \in File
    <3> HIDE DEF File
    <3> QED BY DEF TypeOK
  <2> QED BY <2>1 DEF File
<1>3. Range(worker.batch) \subseteq Numbers /\ Range(queue) \subseteq Items
  BY <1>1 DEF Range
<1>4. \A i \in DOMAIN files : Range(files[i].rows) \subseteq Numbers
  BY <1>2 DEF Range
<1> QED BY <1>1, <1>2, <1>3, <1>4 DEF InBatch, InQueue, InFiles, Items

\* The newest file alone gets other rows.
LEMMA InFilesStep ==
  ASSUME TypeOK, TypeOK', files # << >>, SameOlder, NEW more,
         Range(Current'.rows) \subseteq Range(Current.rows) \cup more,
         Sorted(Current'.rows), OrderInv
  PROVE  InFiles' \subseteq InFiles \cup more /\ \A i \in DOMAIN files' : Sorted(files'[i].rows)
<1>1. DOMAIN files' = 1 .. Newest /\ DOMAIN files = 1 .. Newest /\ Newest \in DOMAIN files
  <2>1. files' \in Seq(File) /\ Len(files') = Newest
    BY DEF SameOlder, Newest, TypeOK
  <2> HIDE DEF File
  <2> QED BY <2>1, CurrentType
<1>2. ASSUME NEW i \in DOMAIN files'
      PROVE  Range(files'[i].rows) \subseteq InFiles \cup more /\ Sorted(files'[i].rows)
  <2>1. CASE i = Newest
    <3>1. files'[i] = Current' /\ Range(Current.rows) \subseteq InFiles
      BY <1>1, <2>1 DEF SameOlder, Current, InFiles
    <3> QED BY <3>1
  <2>2. CASE i # Newest
    <3>1. i \in DOMAIN files /\ files'[i] = files[i]
      <4>1. Newest \in Nat /\ i < Newest
        BY <1>1, <1>2, <2>2, CurrentType
      <4> QED BY <1>1, <1>2, <4>1 DEF SameOlder
    <3> QED BY <3>1 DEF InFiles, OrderInv
  <2> QED BY <2>1, <2>2
<1> QED BY <1>2 DEF InFiles

LEMMA OrderStep ==
  ASSUME TypeOK, Begun, Reasoned, StopInv, FileInv, BatchInv, OrderInv, [Next]_vars
  PROVE  OrderInv'
<1> USE DEF outside
<1>1. TypeOK'
  BY TypeStep
<1>2. /\ InBatch \subseteq Numbers /\ InQueue \subseteq Numbers /\ InFiles \subseteq Numbers
      /\ worker.batch \in Seq(Numbers) /\ queue \in Seq(Items) /\ offered \in Nat
  BY NumberTypes, LoggingAssumption DEF TypeOK
<1>3. ASSUME InFiles' \subseteq InFiles, \A i \in DOMAIN files' : Sorted(files'[i].rows),
             UNCHANGED <<worker, queue, offered>>
      PROVE  OrderInv'
  BY <1>3 DEF OrderInv, InBatch, InQueue, Before
<1>4. ASSUME UNCHANGED <<worker, queue, offered, files>>
      PROVE  OrderInv'
  BY <1>4 DEF OrderInv, InBatch, InQueue, InFiles
<1>5. ASSUME SameOlder, SameText, files # << >>, UNCHANGED <<worker, queue, offered>>
      PROVE  OrderInv'
  <2>1. Sorted(Current'.rows) /\ Range(Current'.rows) \subseteq Range(Current.rows) \cup {}
    BY <1>5, CurrentType DEF SameText, OrderInv, Current
  <2>2. InFiles' \subseteq InFiles \cup {} /\ \A i \in DOMAIN files' : Sorted(files'[i].rows)
    BY <1>1, <1>5, <2>1, InFilesStep
  <2> QED BY <1>3, <1>5, <2>2
<1>6. CASE Join
  BY <1>5, <1>6, JoinFiles DEF Join, Begun, Busy
<1>7. CASE Close
  BY <1>5, <1>7, CloseFiles DEF Close, Begun, Busy
<1>8. CASE PutStop
  <2>1. ~Marked /\ queue' = Append(queue, StopMark) /\ UNCHANGED <<worker, offered, files>>
    BY <1>8 DEF PutStop, StopInv, StageInv, MarkInv
  <2>2. StopMark \in Items
    BY DEF Items
  <2>3. Sorted(queue') /\ InQueue' = InQueue
    BY <1>2, <2>1, <2>2, SortedAppend DEF OrderInv, Marked, InQueue
  <2> QED BY <2>1, <2>3 DEF OrderInv, InBatch, InFiles
<1>9. CASE Offer
  <2>1. /\ offered + 1 \in Numbers /\ Enqueued(offered + 1) /\ UNCHANGED worker
        /\ offered' = offered + 1
    BY <1>9, OfferNext
  <2>2. CASE UNCHANGED <<files, queue>>
    <3>1. InBatch' = InBatch /\ InQueue' = InQueue /\ InFiles' = InFiles
      BY <2>1, <2>2 DEF InBatch, InQueue, InFiles
    <3>2. \A n \in Numbers : n <= offered => n <= offered'
      BY <1>2, <2>1 DEF Numbers
    <3> QED BY <1>2, <2>1, <2>2, <3>1, <3>2 DEF OrderInv
  <2>3. CASE ~UNCHANGED <<files, queue>>
    <3>1. files # << >> /\ service.linked
      BY <2>1, <2>3 DEF Begun, Off, Enqueued
    <3>2. SameOlder /\ Current'.rows = Current.rows /\ queue' = Append(queue, offered + 1)
      BY <2>1, <2>3, <3>1, EnqueuedFiles
    <3>3. Sorted(Current'.rows) /\ Range(Current'.rows) \subseteq Range(Current.rows) \cup {}
      BY <3>1, <3>2, CurrentType DEF OrderInv, Current
    <3>4. InFiles' \subseteq InFiles \cup {} /\ \A i \in DOMAIN files' : Sorted(files'[i].rows)
      BY <1>1, <3>1, <3>2, <3>3, InFilesStep
    <3>5. ~Marked
      BY <3>1 DEF StopInv, StageInv, MarkInv
    <3>6. \A m \in Range(queue) \ {StopMark} : m < offered + 1
      BY <1>2 DEF OrderInv, InQueue, Numbers
    <3>7. Sorted(queue') /\ InQueue' \subseteq InQueue \cup {offered + 1}
      <4>1. offered + 1 \in Items
        BY <2>1 DEF Items
      <4> QED BY <1>2, <3>2, <3>5, <3>6, <4>1, SortedAppend DEF OrderInv, Marked, InQueue
    <3>8. \A n \in InFiles \cup InBatch \cup InQueue : n < offered + 1
      BY <1>2 DEF OrderInv, Numbers
    <3>9. InBatch' = InBatch /\ worker'.batch = worker.batch
      BY <2>1 DEF InBatch
    <3>10. Before(InFiles', InQueue') /\ Before(InBatch', InQueue') /\ Before(InFiles', InBatch')
      BY <3>4, <3>7, <3>8, <3>9 DEF OrderInv, Before
    <3>11. \A n \in InFiles' \cup InBatch' \cup InQueue' : n <= offered'
      BY <1>2, <2>1, <3>4, <3>7, <3>8, <3>9 DEF Numbers
    <3> QED BY <3>4, <3>7, <3>9, <3>10, <3>11 DEF OrderInv
  <2> QED BY <2>2, <2>3
<1>10. ASSUME NEW active, NEW due, Opens(active, due), UNCHANGED offered
       PROVE  OrderInv'
  <2>1. /\ DOMAIN files = 1 .. Newest /\ DOMAIN files' = 1 .. Newest + 1 /\ Newest \in Nat
        /\ \A i \in DOMAIN files : files'[i] = files[i]
        /\ Newest' = Newest + 1 /\ Current' = Segment
    BY <1>10, OpensFiles
  <2>2. queue' = << >> /\ worker'.batch = << >>
    BY <1>10 DEF Opens, NoWorker
  <2>3. files'[Newest + 1].rows = << >>
    BY <2>1 DEF Current, Segment
  <2>4. InBatch' = {} /\ InQueue' = {} /\ Range(<< >>) = {} /\ Sorted(<< >>)
    BY <2>2 DEF InBatch, InQueue, Range, Sorted
  <2>5. ASSUME NEW i \in DOMAIN files'
        PROVE  Range(files'[i].rows) \subseteq InFiles /\ Sorted(files'[i].rows)
    <3>1. CASE i = Newest + 1
      BY <2>3, <2>4, <3>1
    <3>2. CASE i \in DOMAIN files
      BY <2>1, <3>2 DEF InFiles, OrderInv
    <3> QED BY <2>1, <3>1, <3>2
  <2>6. InFiles' \subseteq InFiles
    BY <2>5 DEF InFiles
  <2> QED BY <1>10, <2>2, <2>4, <2>5, <2>6 DEF OrderInv, Before
<1>11. ASSUME Collect, UNCHANGED <<files, offered>>
       PROVE  OrderInv'
  <2>1. CASE BatchDone
    <3>1. worker'.batch = worker.batch /\ UNCHANGED queue
      BY <2>1 DEF BatchDone, TypeOK, Writer
    <3> QED BY <1>11, <3>1 DEF OrderInv, InBatch, InQueue, InFiles
  <2>2. ASSUME queue # << >>, queue' = Tail(queue), worker'.batch = worker.batch
        PROVE  OrderInv'
    <3>1. Sorted(queue') /\ InQueue' \subseteq InQueue /\ InBatch' = InBatch /\ InFiles' = InFiles
      BY <1>2, <1>11, <2>2, SortedTail DEF OrderInv, InQueue, InBatch, InFiles
    <3> QED BY <1>11, <2>2, <3>1 DEF OrderInv, Before
  <2>3. ASSUME queue # << >>, queue' = Tail(queue), Head(queue) # StopMark,
               worker'.batch = Append(worker.batch, Head(queue))
        PROVE  OrderInv'
    <3> DEFINE n == Head(queue)
    <3>1. /\ Sorted(queue') /\ InQueue' \subseteq InQueue /\ n \in InQueue
          /\ \A m \in InQueue' : n < m
      BY <1>2, <2>3, SortedTail DEF OrderInv, InQueue
    <3>2. n \in Numbers /\ n \in Items /\ worker.batch \in Seq(Items)
      BY <1>1, <1>2, <3>1, FlowTypes DEF Items
    <3>3. \A m \in InBatch : m < n
      BY <3>1 DEF OrderInv, Before
    <3>4. ~\E k \in DOMAIN worker.batch : worker.batch[k] = StopMark
      <4>1. \A k \in DOMAIN worker.batch : worker.batch[k] \in Numbers
        BY <1>2 DEF InBatch, Range
      <4> QED BY <4>1 DEF Numbers, StopMark
    <3> HIDE DEF n
    <3>5. Sorted(worker'.batch) /\ InBatch' = InBatch \cup {n}
      <4>1. Sorted(Append(worker.batch, n)) /\ Range(Append(worker.batch, n)) = InBatch \cup {n}
        BY <3>2, <3>3, <3>4, SortedAppend DEF OrderInv, InBatch
      <4> QED BY <2>3, <4>1 DEF InBatch, n
    <3>6. InFiles' = InFiles
      BY <1>11 DEF InFiles
    <3>7. Before(InFiles', InBatch') /\ Before(InFiles', InQueue') /\ Before(InBatch', InQueue')
      BY <3>1, <3>5, <3>6 DEF OrderInv, Before
    <3>8. \A m \in InFiles' \cup InBatch' \cup InQueue' : m <= offered'
      BY <1>11, <3>1, <3>5, <3>6 DEF OrderInv
    <3> QED BY <1>11, <3>1, <3>5, <3>7, <3>8 DEF OrderInv
  <2>4. CASE Get
    <3>1. worker.batch = << >>
      BY <2>4 DEF Get, BatchInv
    <3>2. CASE Head(queue) = StopMark
      BY <2>2, <2>4, <3>2 DEF Get, TypeOK, Writer
    <3>3. CASE Head(queue) # StopMark
      BY <2>3, <2>4, <3>1, <3>3 DEF Get, TypeOK, Writer
    <3> QED BY <3>2, <3>3
  <2>5. CASE Gather
    <3>2. CASE Head(queue) = StopMark
      BY <2>2, <2>5, <3>2 DEF Gather, TypeOK, Writer
    <3>3. CASE Head(queue) # StopMark
      BY <2>3, <2>5, <3>3 DEF Gather, TypeOK, Writer
    <3> QED BY <3>2, <3>3
  <2> QED BY <1>11, <2>1, <2>4, <2>5 DEF Collect
<1>12. ASSUME Write, UNCHANGED offered
       PROVE  OrderInv'
  <2>1. files # << >> /\ SameOlder /\ worker'.batch = << >> /\ UNCHANGED queue
    BY <1>12, WriteFiles DEF Write
  <2>2. InBatch' = {} /\ Sorted(worker'.batch) /\ InQueue' = InQueue
    BY <2>1 DEF InBatch, InQueue, Range, Sorted
  <2>3. /\ Current.rows \in Seq(Numbers) /\ Sorted(Current.rows)
        /\ Range(Current.rows) \subseteq InFiles
    BY <2>1, CurrentType DEF OrderInv, Current, InFiles
  <2>4. Sorted(Current'.rows) /\ Range(Current'.rows) \subseteq Range(Current.rows) \cup InBatch
    <3>1. CASE UNCHANGED files
      BY <2>3, <3>1 DEF Current, Newest
    <3>2. CASE \E n \in 0 .. Len(worker.batch) :
                 Current'.rows = Current.rows \o SubSeq(worker.batch, 1, n)
      <4>1. PICK n \in 0 .. Len(worker.batch) :
              Current'.rows = Current.rows \o SubSeq(worker.batch, 1, n)
        BY <3>2
      <4> DEFINE part == SubSeq(worker.batch, 1, n)
      <4>2. part \in Seq(Numbers) /\ Sorted(part) /\ Range(part) \subseteq InBatch
        BY <1>2, SortedPart DEF OrderInv, InBatch
      <4>3. Current'.rows = Current.rows \o part
        BY <4>1
      <4> HIDE DEF part
      <4>4. Before(Range(Current.rows), Range(part))
        BY <2>3, <4>2 DEF OrderInv, Before
      <4> QED BY <2>3, <4>2, <4>3, <4>4, SortedConcat
    <3> QED BY <1>12, <3>1, <3>2, WriteFiles
  <2>5. InFiles' \subseteq InFiles \cup InBatch /\ \A i \in DOMAIN files' : Sorted(files'[i].rows)
    BY <1>1, <2>1, <2>4, InFilesStep
  <2>6. Before(InFiles', InBatch') /\ Before(InFiles', InQueue') /\ Before(InBatch', InQueue')
    BY <2>2, <2>5 DEF OrderInv, Before
  <2>7. \A n \in InFiles' \cup InBatch' \cup InQueue' : n <= offered'
    BY <1>12, <2>2, <2>5 DEF OrderInv
  <2> QED BY <2>1, <2>2, <2>5, <2>6, <2>7 DEF OrderInv
<1>13. CASE Worker
  BY <1>11, <1>12, <1>13 DEF Worker, Collect
<1>14. CASE Reopen \/ ControlOn \/ InterruptInStart
  BY <1>4, <1>10, <1>14 DEF Reopen, ControlOn, InterruptInStart, OpenFails, Signalled
<1>15. CASE \/ NoControl \/ FailedWrite \/ Sampled \/ SpaceLow \/ Checked \/ Finally \/ Exit
            \/ ControlOff \/ OfferInVain \/ SetControl \/ Tick \/ SourceEnds \/ Interrupt
            \/ UNCHANGED vars
  BY <1>4, <1>15 DEF NoControl, FailedWrite, Sampled, SpaceLow, LowDisk, Checked, Finally, Exit,
                     ControlOff, OfferInVain, SetControl, Tick, SourceEnds, Interrupt, Signalled,
                     vars
<1> QED BY <1>6, <1>7, <1>8, <1>9, <1>13, <1>14, <1>15 DEF Next, LoopProgress

LEMMA InitOrder == Init => OrderInv
BY DEF Init, NoWorker, OrderInv, InFiles, InBatch, InQueue, Range, Before, Sorted

LEMMA AlwaysOrdered == Spec => []OrderInv
<1>1. /\ TypeOK /\ Begun /\ Reasoned /\ StopInv /\ FileInv /\ BatchInv /\ OrderInv /\ [Next]_vars
      => OrderInv'
  BY OrderStep
<1> QED BY <1>1, InitOrder, TypeCorrect, AlwaysStopped, AlwaysFlow, PTL DEF Spec

-----------------------------------------------------------------------------
(* The abstract log.                                                       *)

Shown(file) == [rows |-> file.rows, ended |-> file.ended, open |-> file.open]
ShownLog == [i \in DOMAIN files |-> Shown(files[i])]
ShownFile == [rows : Seq(Numbers), ended : BOOLEAN, open : BOOLEAN]

\* The log shown is one, file by file.
ShownWell ==
  /\ ShownLog \in Seq(ShownFile) /\ Len(ShownLog) = Newest
  /\ DOMAIN ShownLog = DOMAIN files /\ DOMAIN files = 1 .. Newest /\ Newest \in Nat
  /\ \A i \in DOMAIN files : /\ ShownLog[i] = Shown(files[i])
                             /\ ShownLog[i].rows = files[i].rows
                             /\ ShownLog[i].ended = files[i].ended
                             /\ ShownLog[i].open = files[i].open

LEMMA ShownType == TypeOK => ShownWell
<1> SUFFICES ASSUME TypeOK
             PROVE  ShownWell
  OBVIOUS
<1>1. \A i \in DOMAIN files : Shown(files[i]) \in ShownFile
  <2>1. \A i \in DOMAIN files : files[i] \in File
    <3> HIDE DEF File
    <3> QED BY DEF TypeOK
  <2> QED BY <2>1 DEF File, Shown, ShownFile
<1>2. DOMAIN files = 1 .. Newest /\ Newest \in Nat
  <2> HIDE DEF File
  <2> QED BY DEF TypeOK, Newest
<1>3. /\ \A i \in DOMAIN files : ShownLog[i] = Shown(files[i])
      /\ ShownLog = [i \in 1 .. Newest |-> Shown(files[i])]
  BY <1>2 DEF ShownLog
<1> HIDE DEF ShownFile
<1>4. ShownLog \in Seq(ShownFile) /\ Len(ShownLog) = Newest /\ DOMAIN ShownLog = DOMAIN files
  BY <1>1, <1>2, <1>3
<1> QED BY <1>2, <1>3, <1>4 DEF Shown, ShownWell

LEMMA ShownNext == TypeOK' => ShownWell'
BY ShownType, PTL

\* Only the newest file, or nothing, is shown otherwise.
LEMMA ShownSame ==
  ASSUME TypeOK, TypeOK', files # << >>, SameOlder
  PROVE  ShownLog' = [ShownLog EXCEPT ![Newest] = Shown(Current')]
<1>1. DOMAIN files' = DOMAIN files /\ DOMAIN files = 1 .. Newest /\ Newest \in Nat
  <2>1. files' \in Seq(File) /\ Len(files') = Newest
    BY DEF SameOlder, Newest, TypeOK
  <2> HIDE DEF File
  <2> QED BY <2>1, CurrentType
<1>2. \A i \in DOMAIN files : Shown(files'[i]) = [ShownLog EXCEPT ![Newest] = Shown(Current')][i]
  BY <1>1 DEF SameOlder, ShownLog, Current
<1> QED BY <1>1, <1>2 DEF ShownLog

\* Opening a file while another one is not closed never happens.
LEMMA LogOpens ==
  ASSUME TypeOK, TypeOK', Begun, Reasoned, StopInv, FileInv, FlowInv,
         NEW active, NEW due, Opens(active, due), UNCHANGED offered,
         loop \in {"input", "reopen"}, ~service.linked
  PROVE  Log!Open
<1>1. /\ Newest' = Newest + 1 /\ Newest \in Nat /\ Current' = Segment
      /\ DOMAIN files = 1 .. Newest /\ DOMAIN files' = 1 .. Newest + 1
      /\ \A i \in DOMAIN files : files'[i] = files[i]
  BY OpensFiles
<1>2. \A i \in DOMAIN ShownLog : ~ShownLog[i].open
  <2>1. files # << >> => ~Current.open
    BY DEF StopInv, StageInv, FileInv, Cut
  <2>2. ASSUME NEW i \in DOMAIN files
        PROVE  ~files[i].open
    <3>1. i = Newest \/ i < Newest
      BY <1>1
    <3>2. files # << >>
      OBVIOUS
    <3> QED BY <2>1, <3>1, <3>2 DEF Current, FlowInv, Complete
  <2> QED BY <2>2, ShownType DEF ShownWell
<1> DEFINE new == [rows |-> << >>, ended |-> FALSE, open |-> TRUE]
<1>3. Shown(files'[Newest + 1]) = new
  BY <1>1 DEF Current, Segment, Shown
<1>4. ShownLog' = Append(ShownLog, new)
  <2>1. new \in ShownFile
    BY DEF ShownFile
  <2> HIDE DEF new, ShownFile
  <2>2. /\ DOMAIN Append(ShownLog, new) = 1 .. Newest + 1
        /\ Append(ShownLog, new) \in Seq(ShownFile)
        /\ Len(Append(ShownLog, new)) = Newest + 1
        /\ Append(ShownLog, new)[Newest + 1] = new
        /\ \A i \in 1 .. Newest : Append(ShownLog, new)[i] = ShownLog[i]
    BY <2>1, ShownType DEF ShownWell
  <2>3. /\ ShownLog' \in Seq(ShownFile) /\ Len(ShownLog') = Newest + 1
        /\ \A i \in 1 .. Newest + 1 : ShownLog'[i] = Shown(files'[i])
    <3>1. /\ ShownLog' \in Seq(ShownFile)' /\ Len(ShownLog') = Newest'
          /\ \A i \in DOMAIN files' : ShownLog'[i] = Shown(files'[i])
      BY ShownNext DEF ShownWell
    <3> QED BY <1>1, <3>1 DEF ShownFile, Numbers
  <2>4. \A i \in 1 .. Newest + 1 : ShownLog'[i] = Append(ShownLog, new)[i]
    BY <1>1, <1>3, <2>2, <2>3, ShownType DEF ShownWell
  <2> QED BY <2>2, <2>3, <2>4, SeqEqual
<1> QED BY <1>2, <1>4 DEF Log!Open, Log!NoneOpen, ShownLog, Shown

\* What the log shows of the newest file.
LEMMA ShownCurrent ==
  ASSUME TypeOK, files # << >>
  PROVE  /\ ShownLog # << >> /\ Log!Last = Newest /\ Newest \in DOMAIN ShownLog
         /\ ShownLog[Newest] = Shown(Current)
         /\ ShownLog[Newest].rows = Current.rows
         /\ ShownLog[Newest].ended = Current.ended
         /\ ShownLog[Newest].open = Current.open
<1>1. Newest \in DOMAIN files /\ Newest # 0
  BY CurrentType
<1>2. ShownLog # << >>
  <2>1. Len(ShownLog) # 0
    BY <1>1, ShownType DEF ShownWell
  <2> QED BY <2>1
<1>3. Log!Last = Newest
  BY ShownType DEF ShownWell, Log!Last, ShownLog, Shown
<1> QED BY <1>1, <1>2, <1>3, ShownType DEF ShownWell, Current

FlagsTyped == \A i \in DOMAIN files : files[i].open \in BOOLEAN /\ files[i].ended \in BOOLEAN

LEMMA FlagTypes == TypeOK => FlagsTyped
<1> SUFFICES ASSUME TypeOK, NEW i \in DOMAIN files
             PROVE  files[i].open \in BOOLEAN /\ files[i].ended \in BOOLEAN
  BY DEF FlagsTyped
<1>1. files[i] \in File
  <2> HIDE DEF File
  <2> QED BY DEF TypeOK
<1> QED BY <1>1 DEF File

LEMMA FlagTypesNext == TypeOK' => FlagsTyped'
BY FlagTypes, PTL

LEMMA CurrentFlags ==
  ASSUME TypeOK, TypeOK', files # << >>, SameOlder
  PROVE  /\ Current.open \in BOOLEAN /\ Current.ended \in BOOLEAN
         /\ Current'.open \in BOOLEAN /\ Current'.ended \in BOOLEAN
<1>1. Newest \in DOMAIN files /\ Newest' = Newest /\ Newest \in Nat \ {0}
  BY CurrentType DEF SameOlder
<1>2. DOMAIN files' = 1 .. Newest
  BY <1>1, ShownNext DEF ShownWell
<1> QED BY <1>1, <1>2, FlagTypes, FlagTypesNext DEF Current, FlagsTyped

\* One part of what is shown of a file is replaced.
LEMMA ShownParts ==
  ASSUME NEW file, NEW next, NEW part
  PROVE  /\ (next.rows = file.rows /\ next.open = file.open /\ next.ended = part) =>
               Shown(next) = [Shown(file) EXCEPT !.ended = part]
         /\ (next.rows = file.rows /\ next.ended = file.ended /\ next.open = part) =>
               Shown(next) = [Shown(file) EXCEPT !.open = part]
BY DEF Shown

\* The marker, and the closing of the newest file.
LEMMA LogFlags ==
  ASSUME TypeOK, TypeOK', files # << >>, SameOlder, Current.open, UNCHANGED offered,
         Current'.rows = Current.rows,
         \/ ~Current.ended /\ Current'.ended /\ Current'.open
         \/ ~Current'.open /\ Current'.ended = Current.ended
  PROVE  Log!Mark \/ Log!Close
<1>1. ShownLog' = [ShownLog EXCEPT ![Newest] = Shown(Current')]
  BY ShownSame
<1>2. CASE ~Current.ended /\ Current'.ended /\ Current'.open
  <2>1. Shown(Current') = [Shown(Current) EXCEPT !.ended = TRUE]
    <3> DEFINE now == Current
               next == Current'
               flag == TRUE
    <3>1. next.ended \in BOOLEAN /\ next.ended /\ next.open = now.open /\ next.rows = now.rows
      BY <1>2, CurrentFlags
    <3>2. next.ended = flag
      BY <3>1
    <3> HIDE DEF now, next, flag
    <3>3. Shown(next) = [Shown(now) EXCEPT !.ended = flag]
      BY <3>1, <3>2, ShownParts
    <3> QED BY <3>3 DEF now, next, flag
  <2>2. ShownLog' = [ShownLog EXCEPT ![Newest].ended = TRUE]
    BY <1>1, <2>1, ShownCurrent
  <2> QED BY <1>2, <2>2, ShownCurrent DEF Log!Mark, ShownLog, Shown
<1>3. CASE ~Current'.open /\ Current'.ended = Current.ended
  <2>1. Shown(Current') = [Shown(Current) EXCEPT !.open = FALSE]
    <3> DEFINE now == Current
               next == Current'
               flag == FALSE
    <3>1. next.open \in BOOLEAN /\ ~next.open /\ next.ended = now.ended /\ next.rows = now.rows
      BY <1>3, CurrentFlags
    <3>2. next.open = flag
      BY <3>1
    <3> HIDE DEF now, next, flag
    <3>3. Shown(next) = [Shown(now) EXCEPT !.open = flag]
      BY <3>1, <3>2, ShownParts
    <3> QED BY <3>3 DEF now, next, flag
  <2>2. ShownLog' = [ShownLog EXCEPT ![Newest].open = FALSE]
    BY <1>1, <2>1, ShownCurrent
  <2> QED BY <1>3, <2>2, ShownCurrent DEF Log!Close, ShownLog, Shown
<1> QED BY <1>2, <1>3

\* Nothing to show.
LEMMA LogKeeps ==
  ASSUME TypeOK, TypeOK', files # << >>, SameOlder,
         Current'.rows = Current.rows, Current'.ended = Current.ended,
         Current'.open = Current.open
  PROVE  ShownLog' = ShownLog
<1>1. ShownLog' = [ShownLog EXCEPT ![Newest] = Shown(Current')]
  BY ShownSame
<1>2. Shown(Current') = ShownLog[Newest]
  BY ShownCurrent DEF Shown
<1>3. ShownLog = [i \in DOMAIN files |-> ShownLog[i]]
  BY DEF ShownLog
<1> QED BY <1>1, <1>2, <1>3

\* The rows of the log are the records in its files.
LEMMA LogWritten ==
  ASSUME TypeOK
  PROVE  Log!Written = InFiles
BY ShownType DEF ShownWell, Log!Written, InFiles, Range, ShownLog, Shown

\* Part of a batch reaches the file.
LEMMA LogExtends ==
  ASSUME TypeOK, TypeOK', files # << >>, SameOlder, OrderInv,
         Current.open, ~Current.ended, Current'.open, ~Current'.ended,
         NEW part \in Seq(Numbers), part # << >>, Sorted(part), Range(part) \subseteq InBatch,
         Current'.rows = Current.rows \o part, UNCHANGED offered
  PROVE  Log!Extend
<1> DEFINE rows == Current.rows
<1>1. rows \in Seq(Numbers) /\ Sorted(rows) /\ Range(rows) \subseteq InFiles
  BY CurrentType DEF OrderInv, Current, InFiles
<1>2. InFiles \subseteq Numbers /\ InBatch \subseteq Numbers
  BY NumberTypes
<1>3. ShownLog' = [ShownLog EXCEPT ![Newest] = Shown(Current')]
  BY ShownSame
<1>4. Shown(Current') = [Shown(Current) EXCEPT !.rows = rows \o part]
  <2> DEFINE now == Current
             next == Current'
             new == rows \o part
  <2>1. next.open = now.open /\ next.ended = now.ended /\ next.rows = new
    BY CurrentFlags
  <2> HIDE DEF now, next, new
  <2>2. Shown(next) = [Shown(now) EXCEPT !.rows = new]
    BY <2>1 DEF Shown
  <2> QED BY <2>2 DEF now, next, new
<1>5. ShownLog'[Newest] = Shown(Current') /\ ShownLog'[Newest].rows = rows \o part
  BY <1>3, ShownCurrent DEF Shown
<1>6. ShownLog' = [ShownLog EXCEPT ![Newest].rows = ShownLog'[Newest].rows]
  <2> DEFINE new == ShownLog'[Newest].rows
  <2>1. Shown(Current') = [Shown(Current) EXCEPT !.rows = new]
    BY <1>4, <1>5
  <2> HIDE DEF new
  <2>2. ShownLog' = [ShownLog EXCEPT ![Newest].rows = new]
    BY <1>3, <2>1, ShownCurrent
  <2> QED BY <2>2 DEF new
<1>7. Before(Range(rows), Range(part))
  BY <1>1 DEF OrderInv, Before
<1>8. Sorted(rows \o part) /\ Range(rows \o part) \subseteq Range(rows) \cup Range(part)
  BY <1>1, <1>7, SortedConcat
<1>9. /\ Len(rows) \in Nat /\ Len(part) \in Nat \ {0}
      /\ Len(rows \o part) = Len(rows) + Len(part)
      /\ rows \o part \in Seq(Numbers)
      /\ \A j \in Len(rows) + 1 .. Len(rows) + Len(part) : (rows \o part)[j] \in Range(part)
      /\ \A j \in DOMAIN (rows \o part) : (rows \o part)[j] \in Numbers
      /\ SubSeq(rows \o part, 1, Len(rows)) = rows
  <2> HIDE DEF Numbers, rows
  <2>1. /\ Len(rows) \in Nat /\ Len(part) \in Nat \ {0}
        /\ Len(rows \o part) = Len(rows) + Len(part)
        /\ rows \o part \in Seq(Numbers)
    BY <1>1, ConcatProperties
  <2>2. ASSUME NEW j \in Len(rows) + 1 .. Len(rows) + Len(part)
        PROVE  (rows \o part)[j] \in Range(part)
    <3>1. j - Len(rows) \in DOMAIN part /\ (rows \o part)[j] = part[j - Len(rows)]
      BY <1>1, <2>1, ConcatProperties
    <3> QED BY <3>1 DEF Range
  <2>3. \A j \in DOMAIN (rows \o part) : (rows \o part)[j] \in Numbers
    BY <2>1
  <2>4. SubSeq(rows \o part, 1, Len(rows)) = rows
    <3>1. /\ SubSeq(rows \o part, 1, Len(rows)) \in Seq(Numbers)
          /\ Len(SubSeq(rows \o part, 1, Len(rows))) = Len(rows)
          /\ \A j \in 1 .. Len(rows) : SubSeq(rows \o part, 1, Len(rows))[j] = (rows \o part)[j]
      BY <2>1
    <3>2. \A j \in 1 .. Len(rows) : (rows \o part)[j] = rows[j]
      BY <1>1, <2>1, ConcatProperties
    <3> QED BY <1>1, <3>1, <3>2, SeqEqual
  <2> QED BY <2>1, <2>2, <2>3, <2>4
<1>10. Log!Increasing(rows \o part)
  <2> DEFINE new == rows \o part
  <2>1. Sorted(new) /\ \A j \in DOMAIN new : new[j] \in Numbers
    BY <1>8, <1>9
  <2>2. StopMark \notin Numbers
    BY DEF StopMark, Numbers
  <2> HIDE DEF new
  <2>3. Log!Increasing(new)
    BY <2>1, <2>2 DEF Log!Increasing, Sorted
  <2> QED BY <2>3 DEF new
<1>11. \A j \in Len(rows) + 1 .. Len(rows \o part) :
         (rows \o part)[j] <= offered /\ \A r \in InFiles : r < (rows \o part)[j]
  BY <1>9 DEF OrderInv, Before
<1>12. /\ Len(rows) < Len(rows \o part)
  BY <1>9
<1>13. ShownLog[Newest].rows = rows /\ ShownLog[Newest].open /\ ~ShownLog[Newest].ended
       /\ ShownLog # << >> /\ Log!Last = Newest
  BY ShownCurrent
<1> HIDE DEF rows
<1> DEFINE log == ShownLog
           log2 == ShownLog'
<1>14. /\ log # << >> /\ log[Newest].open /\ ~log[Newest].ended
       /\ log2 = [log EXCEPT ![Newest].rows = log2[Newest].rows]
       /\ Len(log[Newest].rows) < Len(log2[Newest].rows)
       /\ SubSeq(log2[Newest].rows, 1, Len(log[Newest].rows)) = log[Newest].rows
       /\ Log!Increasing(log2[Newest].rows)
       /\ \A j \in Len(log[Newest].rows) + 1 .. Len(log2[Newest].rows) :
            log2[Newest].rows[j] <= offered /\ \A r \in Log!Written : r < log2[Newest].rows[j]
  <2>1. log2[Newest].rows = rows \o part /\ log[Newest].rows = rows
    BY <1>5, <1>13
  <2>2. Log!Written = InFiles
    BY LogWritten
  <2>3. log2 = [log EXCEPT ![Newest].rows = log2[Newest].rows]
    BY <1>6
  <2> HIDE DEF log, log2
  <2> QED BY <1>9, <1>10, <1>11, <1>12, <1>13, <2>1, <2>2, <2>3 DEF log
<1> QED BY <1>13, <1>14 DEF Log!Extend, ShownLog, Shown

\* Every step of live logging is one of the abstract log, or leaves it.
LEMMA LogStep ==
  ASSUME TypeOK, Begun, Reasoned, StopInv, FileInv, BatchInv, FlowInv, OrderInv, [Next]_vars
  PROVE  [Log!Next]_(Log!vars)
<1> USE DEF outside
<1>1. TypeOK'
  BY TypeStep
<1>2. ASSUME ShownLog' = ShownLog, UNCHANGED offered
      PROVE  UNCHANGED Log!vars
  BY <1>2 DEF ShownLog, Shown, Log!vars
<1>3. ASSUME UNCHANGED <<files, offered>>
      PROVE  UNCHANGED Log!vars
  BY <1>3 DEF Log!vars
<1>4. CASE Offer
  <2>1. /\ offered + 1 \in Numbers /\ Enqueued(offered + 1) /\ offered' = offered + 1
    BY <1>4, OfferNext
  <2>2. ShownLog' = ShownLog
    <3>1. CASE files = << >>
      <4>1. ~service.active
        BY <3>1 DEF Begun, Off
      <4>2. UNCHANGED files
        BY <2>1, <4>1 DEF Enqueued
      <4> QED BY <4>2 DEF ShownLog, Shown
    <3>2. CASE files # << >>
      <4>1. /\ SameOlder /\ Current'.rows = Current.rows /\ Current'.ended = Current.ended
            /\ Current'.open = Current.open
        BY <2>1, <3>2, EnqueuedFiles
      <4> QED BY <1>1, <3>2, <4>1, LogKeeps
    <3> QED BY <3>1, <3>2
  <2>3. offered' \in offered + 1 .. MaxRecords
    BY <2>1, LoggingAssumption DEF Numbers, TypeOK
  <2>4. Log!Offer
    BY <2>2, <2>3 DEF Log!Offer, ShownLog, Shown
  <2> QED BY <2>4 DEF Log!Next
<1>5. ASSUME NEW active, NEW due, Opens(active, due), UNCHANGED offered,
             loop \in {"input", "reopen"}, loop = "input" => ~service.active
      PROVE  Log!Next
  <2>1. ~service.linked
    BY <1>5 DEF StopInv, StageInv
  <2>2. Log!Open
    BY <1>1, <1>5, <2>1, LogOpens
  <2> QED BY <2>2 DEF Log!Next
<1>6. CASE Reopen
  BY <1>3, <1>5, <1>6 DEF Reopen, OpenFails
<1>7. CASE ControlOn
  BY <1>3, <1>5, <1>7 DEF ControlOn, OpenFails, MayStart
<1>8. CASE InterruptInStart
  BY <1>5, <1>8 DEF InterruptInStart, MayStart, Signalled
<1>9. CASE Join
  <2>1. files # << >> /\ UNCHANGED offered /\ Current.open /\ ~Current.ended
    BY <1>9 DEF Join, Begun, Busy, FileInv
  <2>2. /\ SameOlder /\ Current'.rows = Current.rows /\ Current'.open = Current.open
        /\ Current'.ended = Current.ended \/ Current'.ended
    BY <1>9, <2>1, JoinFiles DEF SameText
  <2>3. CASE Current'.ended = Current.ended
    BY <1>1, <1>2, <2>1, <2>2, <2>3, LogKeeps
  <2>4. CASE Current'.ended
    <3>1. Log!Mark \/ Log!Close
      BY <1>1, <2>1, <2>2, <2>4, LogFlags
    <3> QED BY <3>1 DEF Log!Next
  <2> QED BY <2>2, <2>3, <2>4
<1>10. CASE Close
  <2>1. files # << >> /\ UNCHANGED offered
    BY <1>10 DEF Close, Begun, Busy
  <2>2. /\ SameOlder /\ Current'.rows = Current.rows /\ ~Current'.open
        /\ Current'.ended = Current.ended
    BY <1>10, <2>1, CloseFiles DEF SameText
  <2>3. CASE Current.open
    <3>1. Log!Mark \/ Log!Close
      BY <1>1, <2>1, <2>2, <2>3, LogFlags
    <3> QED BY <3>1 DEF Log!Next
  <2>4. CASE ~Current.open
    <3>1. Current'.open = Current.open
      BY <1>1, <2>1, <2>2, <2>4, CurrentFlags
    <3> QED BY <1>1, <1>2, <2>1, <2>2, <3>1, LogKeeps
  <2> QED BY <2>3, <2>4
<1>11. CASE Worker /\ Write
  <2>1. /\ files # << >> /\ SameOlder /\ UNCHANGED offered
        /\ Current'.open = Current.open /\ Current'.ended = Current.ended
    BY <1>11, WriteFiles DEF Worker
  <2>2. ~Current.ended
    BY <1>11, <2>1 DEF FileInv, Write
  <2>3. CASE UNCHANGED files
    BY <1>3, <2>1, <2>3
  <2>4. CASE \E n \in 0 .. Len(worker.batch) :
               Current.open /\ Current'.rows = Current.rows \o SubSeq(worker.batch, 1, n)
    <3>1. PICK n \in 0 .. Len(worker.batch) :
            Current.open /\ Current'.rows = Current.rows \o SubSeq(worker.batch, 1, n)
      BY <2>4
    <3> DEFINE part == SubSeq(worker.batch, 1, n)
    <3>2. part \in Seq(Numbers) /\ Sorted(part) /\ Range(part) \subseteq InBatch
      BY SortedPart, NumberTypes DEF OrderInv, InBatch
    <3>3. Current.open /\ Current'.rows = Current.rows \o part
      BY <3>1
    <3> HIDE DEF part
    <3>4. CASE part = << >>
      <4>1. Current'.rows = Current.rows
        <5>1. Current.rows \in Seq(Numbers)
          BY <2>1, CurrentType
        <5> HIDE DEF Numbers
        <5> QED BY <3>3, <3>4, <5>1
      <4> QED BY <1>1, <1>2, <2>1, <4>1, LogKeeps
    <3>5. CASE part # << >>
      <4>1. Current'.open /\ ~Current'.ended
        BY <2>1, <2>2, <3>3
      <4>2. Log!Extend
        BY <1>1, <2>1, <2>2, <3>2, <3>3, <3>5, <4>1, LogExtends
      <4> QED BY <4>2 DEF Log!Next
    <3> QED BY <3>4, <3>5
  <2> QED BY <1>11, <2>3, <2>4, WriteFiles
<1>12. CASE Worker /\ Collect
  BY <1>3, <1>12 DEF Worker, Collect
<1>13. CASE \/ PutStop \/ NoControl \/ FailedWrite \/ Sampled \/ SpaceLow \/ Checked \/ Finally
            \/ Exit \/ ControlOff \/ OfferInVain \/ SourceEnds \/ SetControl \/ Tick \/ Interrupt
            \/ UNCHANGED vars
  BY <1>3, <1>13 DEF PutStop, NoControl, FailedWrite, Sampled, SpaceLow, LowDisk, Checked, Finally,
                     Exit, ControlOff, OfferInVain, SourceEnds, SetControl, Tick, Interrupt,
                     Signalled, vars
<1> QED BY <1>4, <1>6, <1>7, <1>8, <1>9, <1>10, <1>11, <1>12, <1>13
    DEF Next, LoopProgress, Worker

LEMMA InitLog == Init => Log!Init
<1> SUFFICES ASSUME Init
             PROVE  ShownLog = << >> /\ offered = 0
  BY DEF Log!Init, ShownLog, Shown
<1>1. files = << >> /\ offered = 0
  BY DEF Init
<1>2. DOMAIN files = {}
  BY <1>1
<1> QED BY <1>1, <1>2 DEF ShownLog

\* The segments of a live session are what SampledLog promises their reader:
\* an ordered sample of the records offered, one segment open at a time, and
\* nothing behind an end marker, whatever is dropped, fails or is interrupted.
THEOREM LogIsSampled == Spec => RefinesSampledLog
<1>1. /\ TypeOK /\ Begun /\ Reasoned /\ StopInv /\ FileInv /\ BatchInv /\ FlowInv /\ OrderInv
      /\ [Next]_vars
      => [Log!Next]_(Log!vars)
  BY LogStep
<1> QED BY <1>1, InitLog, TypeCorrect, AlwaysStopped, AlwaysFlow, AlwaysOrdered, PTL
    DEF Spec, RefinesSampledLog, Log!LogSpec
=============================================================================
