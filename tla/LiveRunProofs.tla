---------------------------- MODULE LiveRunProofs ----------------------------
(***************************************************************************)
(* What holds of a live run for every radio, number of chunks, pipe size,  *)
(* websocket window and number of faults and interrupts.                   *)
(*                                                                         *)
(* A stop taken for confirmed is one, and the packet stream has no gap.    *)
(* Most steps of the run leave the capture alone (Still); what is left are *)
(* Core's steps, the transport worker's, the fan-out's, and the few with   *)
(* which the run starts the capture and ends it.                           *)
(*                                                                         *)
(* How the run leaves the radio: what it has touched it puts back, one     *)
(* interface independently of another, and a run that reports nothing has  *)
(* put back everything and leaves nothing running (RunInv).                *)
(***************************************************************************)
EXTENDS LiveRun, SequenceTheorems, TLAPS

-----------------------------------------------------------------------------
(* The inductive invariant.                                                *)

Chunk == Nat \ {0}
Code == {"AUTH_OK", "SESSIONS", "SUPPORTED_FREQUENCIES", "CONFIG_APPLIED", "CAPTURE_STARTED",
         "CAPTURE_STOPPED", "CAPTURE_ENDED", "error"}
Message ==
  [code : Code, ok : BOOLEAN] \cup [code : {"data"}, ok : {TRUE}, chunk : Chunk]
Request == {"auth", "list_sessions", "get_supported_frequencies", "configure", "start"}
Command == Request \cup {"stop"}
Report == {"ready", "started", "idle", "confirmed", "unconfirmed", "error"}

\* Where the worker is before it has asked for a capture, and while it copies one.
Before == {"off", "spawned", "auth", "list_sessions", "get_supported_frequencies", "ready",
           "configure"}
Copying == {"streaming", "stopping"}

\* What the worker and the parent have noted.
FlagsOK ==
  /\ attempted \in BOOLEAN /\ stopped \in BOOLEAN /\ raised \in BOOLEAN
  /\ confirmed \in BOOLEAN

\* Every variable of the capture keeps its type.
TypeOK ==
  /\ FlagsOK
  /\ core \in {"none", "starting", "running"} /\ sent \in Nat
  /\ commands \in Seq(Command) /\ events \in Seq(Message)
  /\ worker \in Before \cup Copying \cup {"start", "confirming", "reporting", "exited"}
  /\ early \in Seq(Chunk) /\ writing \in Seq(Chunk)
  /\ status \in Seq(Report)
  /\ pipe \in Seq(Chunk) /\ held \in Seq(Chunk)
  /\ decoded \in Seq(Chunk) /\ offered \in Seq(Nat)
  /\ backend \in {"core", "direct"}

Bytes == Len(decoded) + Len(held) + Len(pipe)

\* What has been started: by the run, and by the worker.
PlaceInv ==
  /\ pc \in {"entering", "setup"} => worker = "off" /\ source = "off"
  /\ pc = "joining" => backend = "core"
  /\ backend = "core" => source = "off"
  /\ backend = "direct" => worker = "off"
  /\ worker = "off" => core = "none" /\ commands = << >>
  /\ worker = "off" /\ source = "off" => fanout = "off" /\ Bytes = 0 /\ sent = 0
  /\ worker \notin Copying => writing = << >>
  /\ worker \in Before => early = << >>
  /\ worker = "confirming" => raised

Once(q) == \A i, j \in DOMAIN q : q[i] = "start" /\ q[j] = "start" => i = j
Has(q, code) == \E k \in DOMAIN q : q[k].code = code

\* Core is asked for one capture, and does nothing more once it says so.
StopInv ==
  /\ worker \in Before => ~attempted /\ ~stopped /\ ~Has(events, "CAPTURE_STOPPED")
  /\ ~attempted /\ worker # "exited" => CoreIsIdle
  /\ stopped \/ Has(events, "CAPTURE_STOPPED") => CoreIsIdle
  /\ core # "none" => "start" \notin Range(commands)
  /\ Once(commands)
  /\ "idle" \in Range(status) \/ "confirmed" \in Range(status) \/ confirmed
     => worker = "exited" /\ CoreIsIdle

IsData(q, k) == k \in DOMAIN q /\ q[k].code = "data"

\* The packet data in q is that of the chunks after the b-th, up to the s-th, in
\* order, and precedes the end of the capture.
Coming(q, b, s) ==
  /\ b <= s
  /\ \A k \in DOMAIN q : IsData(q, k) => q[k].chunk \in b + 1 .. s
  /\ \A c \in b + 1 .. s : \E k \in DOMAIN q : IsData(q, k) /\ q[k].chunk = c
  /\ \A k, l \in DOMAIN q : IsData(q, k) /\ IsData(q, l) /\ k < l => q[k].chunk < q[l].chunk
  /\ \A k, l \in DOMAIN q : q[k].code = "CAPTURE_STOPPED" /\ IsData(q, l) => l < k

Copied == Bytes + Len(writing)

\* The chunks the worker has not copied are all on their way to it.
ChunkInv ==
  /\ worker \in Before /\ backend = "core" =>
       sent = 0 /\ Bytes = 0 /\ Coming(events, 0, 0)
  /\ worker = "start" =>
       /\ Bytes = 0 /\ Coming(events, Len(early), sent)
       /\ \A k \in DOMAIN early : early[k] = k
  /\ worker \in Copying => \E b \in Nat : Copied = 2 * b /\ Coming(events, b, sent)
  /\ worker \in Copying \cup {"start"} => ~stopped
  /\ backend = "direct" \/ (stopped /\ ~raised) => Bytes = 2 * sent

\* The bytes that have left the worker, or Dumpcap, wherever they are.
ByteInv ==
  /\ \A k \in DOMAIN decoded : decoded[k] = k
  /\ \A k \in DOMAIN held : held[k] = Len(decoded) + k
  /\ \A k \in DOMAIN pipe : pipe[k] = Len(decoded) + Len(held) + k
  /\ \A k \in DOMAIN writing : writing[k] = Bytes + k

\* The fan-out holds one block at a time.
FanInv ==
  /\ \A k \in DOMAIN offered : offered[k] = k
  /\ IF fanout = "off"
       THEN held = << >> /\ offered = << >>
       ELSE /\ Len(offered) = Len(decoded) \div 2 /\ Len(held) \in 0 .. 2
            /\ (Len(decoded) + Len(held)) % 2 = 0

-----------------------------------------------------------------------------
(* Messages, requests and the steps of the handshake.                      *)

\* Every request has an answer, which does not end a capture.
LEMMA Answers ==
  /\ DOMAIN Answer = Request
  /\ \A c \in Request :
       Answer[c] \in Code \ {"CAPTURE_STOPPED", "CAPTURE_ENDED", "error"}
BY DEF Answer, Request, Code

\* Every command the worker sends is one.
LEMMA Commands ==
  /\ "stop" \in Command /\ Request \subseteq Command
  /\ \A q \in Seq(Command), c \in Command : Append(q, c) \in Seq(Command)
BY DEF Command

\* Every step of the handshake has a successor; only configure is followed by start.
LEMMA Successors ==
  /\ DOMAIN Following = {"auth", "list_sessions", "get_supported_frequencies", "configure",
                         "start"}
  /\ Following["auth"] = "list_sessions"
  /\ Following["list_sessions"] = "get_supported_frequencies"
  /\ Following["get_supported_frequencies"] = "ready"
  /\ Following["configure"] = "start"
  /\ Following["start"] = "streaming"
BY DEF Following

\* An event that carries no packet data.
LEMMA EventFields ==
  ASSUME NEW code \in Code, NEW ok \in BOOLEAN
  PROVE  Event(code, ok) \in Message /\ Event(code, ok).code = code
BY DEF Event, Message

\* Packet data.
LEMMA DataFields ==
  ASSUME NEW c \in Chunk
  PROVE  Data(c) \in Message /\ Data(c).code = "data" /\ Data(c).chunk = c
BY DEF Data, Message

\* What a message carries.
LEMMA MessageFields ==
  ASSUME NEW m \in Message
  PROVE  /\ m.code \in Code \cup {"data"}
         /\ m.code = "data" => m.chunk \in Chunk
<1>1. CASE m \in [code : Code, ok : BOOLEAN]
  <2>1. m.code \in Code
    BY <1>1
  <2>2. m.code # "data"
    BY <2>1 DEF Code
  <2> QED BY <2>1, <2>2
<1>2. CASE m \in [code : {"data"}, ok : {TRUE}, chunk : Chunk]
  BY <1>2
<1> QED BY <1>1, <1>2 DEF Message

\* The two halves of a chunk.
LEMMA HalvesType ==
  ASSUME NEW c \in Chunk
  PROVE  /\ Halves(c) \in Seq(Chunk) /\ Len(Halves(c)) = 2
         /\ Halves(c)[1] = 2 * c - 1 /\ Halves(c)[2] = 2 * c
BY DEF Halves, Chunk

\* The packet data that preceded CAPTURE_STARTED.
LEMMA EarlyType ==
  ASSUME early \in Seq(Chunk)
  PROVE  EarlyBytes \in Seq(Chunk) /\ Len(EarlyBytes) = 2 * Len(early)
<1>1. Len(early) \in Nat
  OBVIOUS
<1>2. ASSUME NEW h \in 1 .. 2 * Len(early)
      PROVE  2 * early[(h + 1) \div 2] - (h % 2) \in Chunk
  <2>1. (h + 1) \div 2 \in 1 .. Len(early)
    BY <1>1
  <2>2. early[(h + 1) \div 2] \in Nat \ {0}
    BY <2>1 DEF Chunk
  <2>3. h % 2 \in {0, 1}
    BY <1>1
  <2> QED BY <2>2, <2>3 DEF Chunk
<1>3. EarlyBytes \in [1 .. 2 * Len(early) -> Chunk]
  BY <1>2 DEF EarlyBytes
<1> QED BY <1>1, <1>3

\* What Core says reaches the websocket while it is up.
LEMMA SaysType ==
  ASSUME events \in Seq(Message), NEW m \in Message, Says(m)
  PROVE  events' \in Seq(Message) /\ (events' = events \/ events' = Append(events, m))
BY DEF Says

-----------------------------------------------------------------------------
(* Steps of the run that leave the capture alone.                          *)

\* What they may change is where the run is, whether its source still runs and
\* whether the fan-out has ended.
Still ==
  /\ UNCHANGED <<coreVars, commands, events, worker, early, writing, stopped, attempted, raised,
                 status, pipe, held, decoded, offered, backend, confirmed>>
  /\ pc' \in {"entering", "setup"} =>
       pc \in {"entering", "setup"} /\ (source = "off" => source' = "off")
  /\ pc' = "joining" => pc = "joining" \/ backend = "core"
  /\ source' = "off" => source = "off"
  /\ backend = "core" => source' = source
  /\ fanout' = "off" <=> fanout = "off"

LEMMA StartupIsStill ==
  ASSUME \/ EnterRadio \/ BeginDirect
         \/ WaitPhase("connecting", "ready", "preparing")
         \/ WaitPhase("started", "started", "verifying")
         \/ Prepare \/ PauseSibling \/ SelectInterface \/ Tune \/ RaiseInterface \/ StartCore
         \/ Verify \/ LaunchAnalysis
  PROVE  Still
<1> USE DEF Still, Goto, Raises, Commanded, Quiet, NoCapture, captureVars, coreVars, wireVars,
            workerVars, parentVars, streamVars
<1>1. CASE EnterRadio
  BY <1>1 DEF EnterRadio
<1>2. CASE BeginDirect
  BY <1>2 DEF BeginDirect
<1>3. CASE WaitPhase("connecting", "ready", "preparing")
  BY <1>3 DEF WaitPhase
<1>4. CASE WaitPhase("started", "started", "verifying")
  BY <1>4 DEF WaitPhase
<1>5. CASE Prepare
  BY <1>5 DEF Prepare
<1>6. CASE PauseSibling
  BY <1>6 DEF PauseSibling
<1>7. CASE SelectInterface
  BY <1>7 DEF SelectInterface
<1>8. CASE Tune
  BY <1>8 DEF Tune
<1>9. CASE RaiseInterface
  BY <1>9 DEF RaiseInterface
<1>10. CASE StartCore
  BY <1>10 DEF StartCore
<1>11. CASE Verify
  BY <1>11 DEF Verify
<1>12. CASE LaunchAnalysis
  BY <1>12 DEF LaunchAnalysis
<1> QED BY <1>1, <1>2, <1>3, <1>4, <1>5, <1>6, <1>7, <1>8, <1>9, <1>10, <1>11, <1>12

LEMMA ShutdownIsStill ==
  ASSUME backend \in {"core", "direct"},
         \/ LoopEnds \/ CloseCapture \/ CloseDirect \/ AskStop \/ CloseDecoder
         \/ CloseAnalysis \/ BeginRestore \/ RestoreNext \/ EndRestore \/ ReleaseRadio
  PROVE  Still
<1> USE DEF Still, Goto, Raises, Commanded, Quiet, NoCapture, captureVars, coreVars, wireVars,
            workerVars, parentVars, streamVars
<1>1. CASE LoopEnds
  BY <1>1 DEF LoopEnds
<1>2. CASE CloseCapture
  BY <1>2 DEF CloseCapture
<1>3. CASE CloseDirect
  BY <1>3 DEF CloseDirect
<1>4. CASE AskStop
  BY <1>4 DEF AskStop
<1>5. CASE CloseDecoder
  BY <1>5 DEF CloseDecoder
<1>6. CASE CloseAnalysis
  BY <1>6 DEF CloseAnalysis
<1>7. CASE BeginRestore
  BY <1>7 DEF BeginRestore
<1>8. CASE RestoreNext
  BY <1>8 DEF RestoreNext
<1>9. CASE EndRestore
  BY <1>9 DEF EndRestore
<1>10. CASE ReleaseRadio
  BY <1>10 DEF ReleaseRadio
<1> QED BY <1>1, <1>2, <1>3, <1>4, <1>5, <1>6, <1>7, <1>8, <1>9, <1>10

LEMMA AroundIsStill ==
  ASSUME backend = "core" => source = "off",
         \/ Interrupt \/ RunKilled \/ SourceDies \/ Elsewhere
         \/ Breaks /\ DecoderDies /\ UNCHANGED <<coreVars, wireVars, workerVars, parentVars>>
  PROVE  Still
<1> USE DEF Still, Goto, Raises, NoCapture, captureVars, coreVars, wireVars, workerVars,
            parentVars, streamVars, runVars
<1>1. CASE Interrupt
  BY <1>1 DEF Interrupt, Masked
<1>2. CASE RunKilled
  BY <1>2 DEF RunKilled
<1>3. CASE SourceDies
  BY <1>3 DEF SourceDies
<1>4. CASE Elsewhere
  BY <1>4 DEF Elsewhere
<1>5. CASE Breaks /\ DecoderDies /\ UNCHANGED <<coreVars, wireVars, workerVars, parentVars>>
  BY <1>5 DEF Breaks, DecoderDies
<1> QED BY <1>1, <1>2, <1>3, <1>4, <1>5

\* Every other step is one of these.
Moves ==
  \/ SpawnWorker \/ LaunchDirect \/ Join \/ ParentExits \/ CoreStep \/ WorkerStep
  \/ Breaks /\ WorkerDies
  \/ Breaks /\ CoreRestarts
  \/ SourceWrites \/ StreamStep

LEMMA Steps ==
  ASSUME backend \in {"core", "direct"}, backend = "core" => source = "off", [Next]_vars
  PROVE  Still \/ Moves
<1>1. CASE Startup
  BY <1>1, StartupIsStill DEF Startup, Moves
<1>2. CASE Shutdown
  BY <1>2, ShutdownIsStill DEF Shutdown, Moves
<1>3. CASE Interrupt \/ RunKilled \/ SourceDies \/ Elsewhere
  <2>1. Still
    BY <1>3, AroundIsStill, Zenon
  <2> QED BY <2>1
<1>4. CASE Breaks
  BY <1>4, AroundIsStill DEF Breaks, Moves
<1>5. CASE CoreStep \/ WorkerStep \/ SourceWrites \/ StreamStep
  BY <1>5 DEF Moves
<1>6. CASE UNCHANGED vars
  BY <1>6 DEF vars, Still, captureVars, coreVars, wireVars, workerVars, parentVars, streamVars,
              runVars
<1> QED BY <1>1, <1>2, <1>3, <1>4, <1>5, <1>6 DEF Next

-----------------------------------------------------------------------------
(* Types and places.                                                       *)

LEMMA InitTypeOK == Init => TypeOK /\ PlaceInv
<1> SUFFICES ASSUME Init PROVE TypeOK /\ PlaceInv
  OBVIOUS
<1> USE DEF Init, CaptureInit
<1>1. FlagsOK
  BY DEF FlagsOK
<1>2. TypeOK
  BY <1>1, RunAssumption DEF TypeOK, Before
<1>3. PlaceInv
  BY DEF PlaceInv, Bytes, Before, Copying
<1> QED BY <1>2, <1>3

LEMMA StillTypeOK == TypeOK /\ PlaceInv /\ Still => TypeOK' /\ PlaceInv'
<1> SUFFICES ASSUME TypeOK, PlaceInv, Still PROVE TypeOK' /\ PlaceInv'
  OBVIOUS
<1>1. FlagsOK'
  BY DEF TypeOK, FlagsOK, Still
<1>2. TypeOK'
  BY <1>1 DEF TypeOK, Still, coreVars
<1>3. PlaceInv'
  BY DEF TypeOK, FlagsOK, PlaceInv, Still, coreVars, Bytes
<1> QED BY <1>2, <1>3

LEMMA SpawnTypeOK ==
  TypeOK /\ PlaceInv /\ (SpawnWorker \/ LaunchDirect) => TypeOK' /\ PlaceInv'
<1> SUFFICES ASSUME TypeOK, PlaceInv, SpawnWorker \/ LaunchDirect PROVE TypeOK' /\ PlaceInv'
  OBVIOUS
<1> USE DEF coreVars, wireVars, workerVars, parentVars, Quiet, Goto, Raises
<1>1. FlagsOK'
  BY DEF SpawnWorker, LaunchDirect, TypeOK, FlagsOK
<1>2. CASE SpawnWorker
  <2>1. TypeOK'
    BY <1>1, <1>2 DEF SpawnWorker, TypeOK, Before
  <2>2. PlaceInv'
    BY <1>2 DEF SpawnWorker, PlaceInv, Bytes, Before, Copying
  <2> QED BY <2>1, <2>2
<1>3. CASE LaunchDirect
  <2>1. TypeOK'
    BY <1>1, <1>3 DEF LaunchDirect, TypeOK
  <2>2. PlaceInv'
    BY <1>3 DEF LaunchDirect, PlaceInv, Bytes
  <2> QED BY <2>1, <2>2
<1> QED BY <1>2, <1>3

\* A killed worker.
LEMMA KilledTypeOK ==
  ASSUME TypeOK, PlaceInv, Killed, backend = "core",
         UNCHANGED <<coreVars, pipe, held, decoded, offered, backend>>,
         pc' \notin {"entering", "setup", "joining"} \/ (pc' = pc /\ worker # "off"),
         source' = source, confirmed' \in BOOLEAN
  PROVE  TypeOK' /\ PlaceInv'
<1> USE DEF Killed, Exits, coreVars
<1>1. FlagsOK'
  BY DEF TypeOK, FlagsOK
<1>2. TypeOK'
  BY <1>1 DEF TypeOK
<1>3. PlaceInv'
  BY DEF PlaceInv, Bytes, Before, Copying
<1> QED BY <1>2, <1>3

\* The rest of the capture while Core moves.
Aside ==
  UNCHANGED <<worker, early, writing, stopped, attempted, raised, status, pipe, held, fanout,
              decoded, offered, backend, pc, source, confirmed>>

LEMMA CoreTypeOK == TypeOK /\ PlaceInv /\ Core /\ Aside => TypeOK'
<1> SUFFICES ASSUME TypeOK, PlaceInv, Core, Aside PROVE TypeOK'
  OBVIOUS
<1> DEFINE Kept == /\ core' \in {"none", "starting", "running"} /\ sent' \in Nat
                   /\ commands' \in Seq(Command) /\ events' \in Seq(Message)
<1>1. FlagsOK'
  BY DEF TypeOK, FlagsOK, Aside
<1>2. Kept => TypeOK'
  BY <1>1 DEF TypeOK, Aside
<1>3. ASSUME NEW code \in Code, NEW ok \in BOOLEAN, Says(Event(code, ok))
      PROVE  events' \in Seq(Message)
  BY <1>3, EventFields, SaysType DEF TypeOK
<1>4. CASE CoreAnswers
  <2>1. Head(commands) \in Request
    BY <1>4 DEF CoreAnswers, TypeOK, Command
  <2>2. Answer[Head(commands)] \in Code /\ "error" \in Code
    BY <2>1, Answers DEF Code
  <2>3. events' \in Seq(Message)
    BY <1>3, <1>4, <2>2 DEF CoreAnswers
  <2> QED BY <1>2, <1>4, <2>3 DEF CoreAnswers, TypeOK
<1>5. CASE CoreAccepts
  <2>1. events' \in Seq(Message)
    BY <1>3, <1>5 DEF CoreAccepts, TypeOK, Code
  <2>2. commands' \in Seq(Command)
    <3>1. commands # << >> /\ commands' = Tail(commands)
      BY <1>5 DEF CoreAccepts
    <3> QED BY <3>1 DEF TypeOK
  <2>3. core' \in {"none", "starting"} /\ sent' = sent
    BY <1>5 DEF CoreAccepts
  <2> QED BY <1>2, <2>1, <2>2, <2>3 DEF TypeOK
<1>6. CASE CoreStarts
  <2>1. events' \in Seq(Message)
    BY <1>3, <1>6 DEF CoreStarts, Code
  <2> QED BY <1>2, <1>6, <2>1 DEF CoreStarts, TypeOK
<1>7. CASE CoreStops
  <2>1. events' \in Seq(Message)
    BY <1>3, <1>7 DEF CoreStops, Code
  <2> QED BY <1>2, <1>7, <2>1 DEF CoreStops, TypeOK
<1>8. CASE CoreSends
  <2>1. sent + 1 \in Chunk
    BY DEF TypeOK, Chunk
  <2>2. Data(sent + 1) \in Message
    BY <2>1, DataFields
  <2> QED BY <1>2, <1>8, <2>2 DEF CoreSends, TypeOK
<1>9. CASE CoreEnds
  <2>1. events' \in Seq(Message)
    BY <1>3, <1>9 DEF CoreEnds, Code
  <2> QED BY <1>2, <1>9, <2>1 DEF CoreEnds, TypeOK
<1>10. CASE CoreSeesClose
  BY <1>2, <1>10 DEF CoreSeesClose, TypeOK
<1> QED BY <1>4, <1>5, <1>6, <1>7, <1>8, <1>9, <1>10 DEF Core

\* The rest of the capture while the worker moves.
Apart ==
  UNCHANGED <<core, sent, pipe, held, fanout, decoded, offered, backend, pc, source, confirmed>>

\* Leaving with an exception.
LEMMA RaiseTypeOK ==
  ASSUME TypeOK, PlaceInv, Raise, Apart, events' \in Seq(Message),
         worker \notin {"off", "confirming"}
  PROVE  TypeOK' /\ PlaceInv'
<1> USE DEF Raise, Apart
<1>1. FlagsOK'
  BY DEF TypeOK, FlagsOK
<1>2. commands' \in Seq(Command)
  <2>1. commands \in Seq(Command)
    BY DEF TypeOK
  <2> QED BY <2>1, Commands
<1>3. worker' \in {"confirming", "reporting"}
  OBVIOUS
<1>4. UNCHANGED <<early, status>> /\ writing' = << >>
  OBVIOUS
<1>5. TypeOK'
  <2> HIDE DEF Raise
  <2> QED BY <1>1, <1>2, <1>3, <1>4 DEF TypeOK
<1>6. PlaceInv'
  BY DEF TypeOK, FlagsOK, PlaceInv, Bytes, Before, Copying
<1> QED BY <1>5, <1>6

LEMMA ConnectsTypeOK ==
  TypeOK /\ PlaceInv /\ Apart /\ (WorkerConnects \/ WorkerConfirms \/ WorkerExits)
  => TypeOK' /\ PlaceInv'
<1> SUFFICES ASSUME TypeOK, PlaceInv, Apart, WorkerConnects \/ WorkerConfirms \/ WorkerExits
             PROVE  TypeOK' /\ PlaceInv'
  OBVIOUS
<1> USE DEF Apart
<1>1. CASE WorkerConnects
  <2> USE <1>1 DEF WorkerConnects
  <2>1. FlagsOK'
    BY DEF TypeOK, FlagsOK
  <2>2. commands' \in Seq(Command)
    <3>1. commands \in Seq(Command)
      BY DEF TypeOK
    <3>2. "auth" \in Command
      BY DEF Command, Request
    <3>3. <<"auth">> \in Seq(Command)
      BY <3>2
    <3>4. commands' = <<"auth">> \/ commands' = commands
      OBVIOUS
    <3> QED BY <3>1, <3>3, <3>4
  <2>3. status' \in Seq(Report)
    <3>1. status \in Seq(Report)
      BY DEF TypeOK
    <3>2. "error" \in Report
      BY DEF Report
    <3> QED BY <3>1, <3>2
  <2>4. worker' \in {"auth", "exited"} /\ UNCHANGED <<events, early, writing>>
    OBVIOUS
  <2>5. TypeOK'
    <3> HIDE <1>1 DEF WorkerConnects
    <3> QED BY <2>1, <2>2, <2>3, <2>4 DEF TypeOK, Before
  <2>6. PlaceInv'
    BY DEF TypeOK, FlagsOK, PlaceInv, Bytes, Before, Copying
  <2> QED BY <2>5, <2>6
<1>2. CASE WorkerConfirms
  <2> USE <1>2 DEF WorkerConfirms
  <2>1. FlagsOK'
    BY DEF TypeOK, FlagsOK
  <2>2. events' \in Seq(Message)
    <3>1. events \in Seq(Message)
      BY DEF TypeOK
    <3> QED BY <3>1
  <2>3. worker' \in {"confirming", "reporting"} /\ UNCHANGED <<commands, early, writing, status>>
    OBVIOUS
  <2>4. TypeOK'
    <3> HIDE <1>2 DEF WorkerConfirms
    <3> QED BY <2>1, <2>2, <2>3 DEF TypeOK
  <2>5. PlaceInv'
    BY DEF TypeOK, FlagsOK, PlaceInv, Bytes, Before, Copying
  <2> QED BY <2>4, <2>5
<1>3. CASE WorkerExits
  <2> USE <1>3 DEF WorkerExits, Exits
  <2>1. FlagsOK'
    BY DEF TypeOK, FlagsOK
  <2>2. status' \in Seq(Report)
    <3> DEFINE outcome == IF ~attempted THEN "idle" ELSE IF stopped THEN "confirmed"
                                                             ELSE "unconfirmed"
               failure == IF raised THEN <<"error">> ELSE << >>
    <3>1. status \in Seq(Report)
      BY DEF TypeOK
    <3>2. outcome \in Report
      BY DEF Report
    <3>3. failure \in Seq(Report)
      <4>1. "error" \in Report
        BY DEF Report
      <4>2. <<"error">> \in Seq(Report) /\ << >> \in Seq(Report)
        BY <4>1
      <4> HIDE <1>3 DEF WorkerExits
      <4> QED BY <4>2
    <3>4. status' = status \o <<outcome>> \o failure
      OBVIOUS
    <3> HIDE <1>3 DEF outcome, failure, WorkerExits
    <3> QED BY <3>1, <3>2, <3>3, <3>4
  <2>3. TypeOK'
    BY <2>1, <2>2 DEF TypeOK
  <2>4. PlaceInv'
    BY DEF TypeOK, FlagsOK, PlaceInv, Bytes, Before, Copying
  <2> QED BY <2>3, <2>4
<1> QED BY <1>1, <1>2, <1>3

\* A handshake that goes on, or fails because a message cannot be sent.
LEMMA AcceptedTypeOK ==
  ASSUME TypeOK, PlaceInv, Waiting, Accepted(Following[worker]), Apart,
         events' \in Seq(Message)
  PROVE  TypeOK' /\ PlaceInv'
<1> DEFINE next == Following[worker]
<1>1. next \in (Request \cup {"ready", "streaming"}) \ {"auth", "configure"}
  BY Successors DEF Waiting, Request
<1>2. worker # "off" /\ worker # "confirming"
  BY Successors DEF Waiting
<1>3. CASE Raise
  BY <1>2, <1>3, RaiseTypeOK
<1>4. CASE ~Raise
  <2>1. /\ worker' = next
        /\ commands' = IF next \in DOMAIN Answer THEN Append(commands, next) ELSE commands
        /\ status' = IF next \in DOMAIN Answer THEN status
                     ELSE Append(status, IF next = "ready" THEN "ready" ELSE "started")
        /\ attempted' = (attempted \/ next = "start")
        /\ writing' = IF next = "streaming" THEN EarlyBytes ELSE writing
        /\ UNCHANGED <<early, stopped, raised>>
    BY <1>4 DEF Accepted
  <2> HIDE DEF next
  <2>2. FlagsOK'
    BY <2>1 DEF TypeOK, FlagsOK, Apart
  <2>3. commands' \in Seq(Command)
    <3>1. commands \in Seq(Command)
      BY DEF TypeOK
    <3>2. next \in DOMAIN Answer => next \in Command
      BY Answers, Commands
    <3> QED BY <2>1, <3>1, <3>2
  <2>4. status' \in Seq(Report)
    <3>1. status \in Seq(Report)
      BY DEF TypeOK
    <3>2. "ready" \in Report /\ "started" \in Report
      BY DEF Report
    <3> QED BY <2>1, <3>1, <3>2
  <2>5. early \in Seq(Chunk) /\ writing \in Seq(Chunk)
    BY DEF TypeOK
  <2>6. early' \in Seq(Chunk) /\ writing' \in Seq(Chunk)
    BY <2>1, <2>5, EarlyType
  <2>7. worker' \in Before \cup Copying \cup {"start", "confirming", "reporting", "exited"}
    BY <1>1, <2>1 DEF Request, Before, Copying
  <2>8. TypeOK'
    BY <2>2, <2>3, <2>4, <2>6, <2>7 DEF TypeOK, Apart
  <2>9. worker' # "off" /\ worker' # "confirming"
    BY <1>1, <2>1 DEF Request
  <2>10. worker' \in Before => worker \in Before
    BY Successors, <2>1 DEF Waiting, Before, next
  <2>11. worker' \notin Copying => writing' = << >>
    <3>1. worker \notin Copying
      BY Successors DEF Waiting, Copying
    <3> QED BY <2>1, <3>1 DEF PlaceInv, Copying
  <2>12. pc' \in {"entering", "setup"} => worker = "off"
    BY DEF PlaceInv, Apart
  <2>13. PlaceInv'
    BY <1>2, <2>1, <2>9, <2>10, <2>11, <2>12 DEF PlaceInv, Apart, Bytes
  <2> QED BY <2>8, <2>13
<1> QED BY <1>3, <1>4

LEMMA HearsTypeOK == TypeOK /\ PlaceInv /\ Apart /\ WorkerHears => TypeOK' /\ PlaceInv'
<1> SUFFICES ASSUME TypeOK, PlaceInv, Apart, WorkerHears PROVE TypeOK' /\ PlaceInv'
  OBVIOUS
<1> DEFINE e == Head(events)
<1>1. Waiting /\ events # << >> /\ events' = Tail(events)
  BY DEF WorkerHears
<1>2. events' \in Seq(Message) /\ e \in Message
  BY <1>1 DEF TypeOK
<1>3. worker # "off" /\ worker # "confirming"
  BY <1>1, Successors DEF Waiting
<1>4. CASE Accepted(Following[worker])
  BY <1>1, <1>2, <1>4, AcceptedTypeOK
<1>5. CASE Raise
  BY <1>2, <1>3, <1>5, RaiseTypeOK
<1>6. CASE /\ e.code = "data" /\ worker = "start" /\ early' = Append(early, e.chunk)
           /\ UNCHANGED <<worker, open, commands, writing, stop_requested, stopped,
                          attempted, raised, status>>
  <2> HIDE DEF e
  <2>1. early' \in Seq(Chunk)
    BY <1>2, <1>6, MessageFields DEF TypeOK
  <2>2. FlagsOK'
    BY <1>6 DEF TypeOK, FlagsOK, Apart
  <2>3. TypeOK'
    BY <1>2, <1>6, <2>1, <2>2 DEF TypeOK, Apart
  <2>4. PlaceInv'
    BY <1>6 DEF TypeOK, FlagsOK, PlaceInv, Apart, Bytes, Before
  <2> QED BY <2>3, <2>4
<1>7. CASE UNCHANGED <<worker, open, commands, early, writing, stop_requested, stopped,
                       attempted, raised, status>>
  <2>1. FlagsOK'
    BY <1>7 DEF TypeOK, FlagsOK, Apart
  <2>2. TypeOK'
    BY <1>2, <1>7, <2>1 DEF TypeOK, Apart
  <2>3. PlaceInv'
    BY <1>7 DEF TypeOK, FlagsOK, PlaceInv, Apart, Bytes
  <2> QED BY <2>2, <2>3
<1> QED BY <1>4, <1>5, <1>6, <1>7 DEF WorkerHears

LEMMA FailsTypeOK ==
  TypeOK /\ PlaceInv /\ Apart /\ (WorkerGivesUp \/ WriteFails) => TypeOK' /\ PlaceInv'
<1> SUFFICES ASSUME TypeOK, PlaceInv, Apart, WorkerGivesUp \/ WriteFails
             PROVE  TypeOK' /\ PlaceInv'
  OBVIOUS
<1>1. Raise /\ events' = events /\ worker \notin {"off", "confirming"}
  BY Successors DEF WorkerGivesUp, WriteFails
<1>2. events' \in Seq(Message)
  BY <1>1 DEF TypeOK
<1> QED BY <1>1, <1>2, RaiseTypeOK

LEMMA StartsTypeOK ==
  TypeOK /\ PlaceInv /\ Apart /\ (WorkerStarts \/ WorkerStops) => TypeOK' /\ PlaceInv'
<1> SUFFICES ASSUME TypeOK, PlaceInv, Apart, WorkerStarts \/ WorkerStops
             PROVE  TypeOK' /\ PlaceInv'
  OBVIOUS
<1>1. events' \in Seq(Message) /\ commands \in Seq(Command)
  BY DEF WorkerStarts, WorkerStops, TypeOK
<1>2. worker \in {"ready", "streaming"}
  BY DEF WorkerStarts, WorkerStops
<1>3. CASE Raise
  BY <1>1, <1>2, <1>3, RaiseTypeOK
<1>4. CASE /\ worker = "ready" /\ worker' = "configure"
           /\ commands' = Append(commands, "configure")
           /\ UNCHANGED <<open, early, writing, stop_requested, stopped, attempted, raised,
                          status>>
  <2>1. commands' \in Seq(Command)
    <3>1. "configure" \in Command
      BY DEF Command, Request
    <3> QED BY <1>1, <1>4, <3>1
  <2>2. FlagsOK'
    BY <1>4 DEF TypeOK, FlagsOK, Apart
  <2>3. TypeOK'
    BY <1>1, <1>4, <2>1, <2>2 DEF TypeOK, Apart, Before
  <2>4. PlaceInv'
    BY <1>4 DEF TypeOK, FlagsOK, PlaceInv, Apart, Bytes, Before, Copying
  <2> QED BY <2>3, <2>4
<1>5. CASE /\ worker = "ready" /\ worker' = "reporting"
           /\ UNCHANGED <<open, commands, early, writing, stop_requested, stopped, attempted,
                          raised, status>>
  <2>1. FlagsOK'
    BY <1>5 DEF TypeOK, FlagsOK, Apart
  <2>2. TypeOK'
    BY <1>1, <1>5, <2>1 DEF TypeOK, Apart
  <2>3. PlaceInv'
    BY <1>5 DEF TypeOK, FlagsOK, PlaceInv, Apart, Bytes, Before, Copying
  <2> QED BY <2>2, <2>3
<1>6. CASE /\ worker = "streaming" /\ worker' = "stopping"
           /\ commands' = Append(commands, "stop")
           /\ UNCHANGED <<open, early, writing, stopped, attempted, raised, status>>
  <2>1. commands' \in Seq(Command)
    BY <1>1, <1>6, Commands
  <2>2. FlagsOK'
    BY <1>6 DEF TypeOK, FlagsOK, Apart
  <2>3. TypeOK'
    BY <1>1, <1>6, <2>1, <2>2 DEF TypeOK, Apart, Copying
  <2>4. PlaceInv'
    BY <1>6 DEF TypeOK, FlagsOK, PlaceInv, Apart, Bytes, Before, Copying
  <2> QED BY <2>3, <2>4
<1> QED BY <1>3, <1>4, <1>5, <1>6 DEF WorkerStarts, WorkerStops

LEMMA ReceivesTypeOK == TypeOK /\ PlaceInv /\ Apart /\ WorkerReceives => TypeOK' /\ PlaceInv'
<1> SUFFICES ASSUME TypeOK, PlaceInv, Apart, WorkerReceives PROVE TypeOK' /\ PlaceInv'
  OBVIOUS
<1> DEFINE e == Head(events)
<1>1. worker \in Copying /\ writing = << >> /\ events # << >> /\ events' = Tail(events)
  BY DEF WorkerReceives, Receiving, Copying
<1>2. events' \in Seq(Message) /\ e \in Message
  BY <1>1 DEF TypeOK
<1>3. worker \notin {"off", "confirming"} \cup Before
  BY <1>1 DEF Copying, Before
<1>4. CASE Raise
  BY <1>2, <1>3, <1>4, RaiseTypeOK
<1>5. CASE /\ e.code = "data" /\ writing' = Halves(e.chunk)
           /\ UNCHANGED <<worker, open, commands, early, stop_requested, stopped, attempted,
                          raised, status>>
  <2> HIDE DEF e
  <2>1. writing' \in Seq(Chunk)
    BY <1>2, <1>5, MessageFields, HalvesType
  <2>2. FlagsOK'
    BY <1>5 DEF TypeOK, FlagsOK, Apart
  <2>3. TypeOK'
    BY <1>2, <1>5, <2>1, <2>2 DEF TypeOK, Apart
  <2>4. PlaceInv'
    BY <1>1, <1>5 DEF TypeOK, FlagsOK, PlaceInv, Apart, Bytes
  <2> QED BY <2>3, <2>4
<1>6. CASE /\ stopped' = TRUE /\ worker' = "reporting"
           /\ UNCHANGED <<open, commands, early, writing, stop_requested, attempted, raised,
                          status>>
  <2>1. FlagsOK'
    BY <1>6 DEF TypeOK, FlagsOK, Apart
  <2>2. TypeOK'
    BY <1>2, <1>6, <2>1 DEF TypeOK, Apart
  <2>3. PlaceInv'
    BY <1>1, <1>3, <1>6 DEF TypeOK, FlagsOK, PlaceInv, Apart, Bytes, Before
  <2> QED BY <2>2, <2>3
<1>7. CASE UNCHANGED <<worker, open, commands, early, writing, stop_requested, stopped,
                       attempted, raised, status>>
  <2>1. FlagsOK'
    BY <1>7 DEF TypeOK, FlagsOK, Apart
  <2>2. TypeOK'
    BY <1>2, <1>7, <2>1 DEF TypeOK, Apart
  <2>3. PlaceInv'
    BY <1>7 DEF TypeOK, FlagsOK, PlaceInv, Apart, Bytes
  <2> QED BY <2>2, <2>3
<1> QED BY <1>4, <1>5, <1>6, <1>7 DEF WorkerReceives

\* The rest of the capture while its bytes move.
Beside ==
  UNCHANGED <<core, commands, events, worker, early, stopped, attempted, raised, status, backend,
              pc, source, confirmed>>

LEMMA WritesTypeOK ==
  TypeOK /\ PlaceInv /\ Beside /\ WorkerWrites => TypeOK' /\ PlaceInv'
<1> SUFFICES ASSUME TypeOK, PlaceInv, Beside, WorkerWrites PROVE TypeOK' /\ PlaceInv'
  OBVIOUS
<1>1. /\ worker \in Copying /\ writing # << >>
      /\ pipe' = Append(pipe, Head(writing)) /\ writing' = Tail(writing)
      /\ UNCHANGED <<sent, held, fanout, decoded, offered>>
  BY DEF WorkerWrites, Copying, coreVars
<1>2. writing \in Seq(Chunk) /\ pipe \in Seq(Chunk)
  BY DEF TypeOK
<1>3. pipe' \in Seq(Chunk) /\ writing' \in Seq(Chunk)
  BY <1>1, <1>2
<1>4. FlagsOK'
  BY DEF TypeOK, FlagsOK, Beside
<1>5. TypeOK'
  BY <1>1, <1>3, <1>4 DEF TypeOK, Beside
<1>6. PlaceInv'
  BY <1>1 DEF TypeOK, FlagsOK, PlaceInv, Beside, Copying
<1> QED BY <1>5, <1>6

LEMMA SourceTypeOK ==
  TypeOK /\ PlaceInv /\ Beside /\ SourceWrites => TypeOK' /\ PlaceInv'
<1> SUFFICES ASSUME TypeOK, PlaceInv, Beside, SourceWrites PROVE TypeOK' /\ PlaceInv'
  OBVIOUS
<1>1. /\ source = "run" /\ sent' = sent + 1 /\ pipe' = pipe \o Halves(sent + 1)
      /\ UNCHANGED <<writing, held, fanout, decoded, offered>>
  BY DEF SourceWrites, workerVars
<1>2. sent + 1 \in Chunk /\ pipe \in Seq(Chunk)
  BY DEF TypeOK, Chunk
<1>3. pipe' \in Seq(Chunk)
  BY <1>1, <1>2, HalvesType
<1>4. FlagsOK'
  BY DEF TypeOK, FlagsOK, Beside
<1>5. TypeOK'
  BY <1>1, <1>3, <1>4 DEF TypeOK, Beside
<1>6. PlaceInv'
  BY <1>1 DEF TypeOK, FlagsOK, PlaceInv, Beside
<1> QED BY <1>5, <1>6

\* The fan-out reads whole blocks off the pipe.
LEMMA ReadsEffect ==
  ASSUME TypeOK, FanoutReads
  PROVE  /\ held' \in Seq(Chunk) /\ pipe' \in Seq(Chunk)
         /\ held = << >> /\ Len(held') = 2 /\ Len(pipe') = Len(pipe) - 2 /\ Len(pipe) >= 2
         /\ \A k \in 1 .. 2 : held'[k] = pipe[k]
         /\ \A k \in 1 .. Len(pipe) - 2 : pipe'[k] = pipe[k + 2]
<1>1. /\ pipe \in Seq(Chunk) /\ Len(pipe) >= 2 /\ held = << >>
      /\ held' = SubSeq(pipe, 1, 2) /\ pipe' = SubSeq(pipe, 3, Len(pipe))
  BY DEF FanoutReads, TypeOK
<1>2. held' \in Seq(Chunk) /\ Len(held') = 2 /\ \A k \in 1 .. 2 : held'[k] = pipe[k]
  BY <1>1
<1>3. /\ pipe' \in Seq(Chunk) /\ Len(pipe') = Len(pipe) - 2
      /\ \A k \in 1 .. Len(pipe) - 2 : pipe'[k] = pipe[k + 2]
  BY <1>1
<1> QED BY <1>1, <1>2, <1>3

\* What StreamStep changes, and that no byte is lost between its ends.
LEMMA StreamEffect ==
  ASSUME TypeOK, StreamStep
  PROVE  /\ held' \in Seq(Chunk) /\ pipe' \in Seq(Chunk) /\ decoded' \in Seq(Chunk)
         /\ offered' \in Seq(Nat)
         /\ Bytes' = Bytes
         /\ UNCHANGED <<sent, writing>> /\ Beside
         /\ fanout' = "off" <=> fanout = "off"
<1>1. /\ held \in Seq(Chunk) /\ pipe \in Seq(Chunk) /\ decoded \in Seq(Chunk)
      /\ offered \in Seq(Nat)
  BY DEF TypeOK
<1>2. UNCHANGED <<sent, writing>> /\ Beside
  BY DEF StreamStep, Beside, coreVars, wireVars, workerVars, parentVars, runVars
<1>3. CASE FanoutReads
  <2>1. UNCHANGED <<fanout, decoded, offered>>
    BY <1>3 DEF FanoutReads
  <2>2. held = << >> /\ Len(held') = 2 /\ Len(pipe') = Len(pipe) - 2
    BY <1>3, ReadsEffect
  <2>3. held' \in Seq(Chunk) /\ pipe' \in Seq(Chunk)
    BY <1>3, ReadsEffect
  <2>4. Bytes' = Bytes
    BY <1>1, <2>1, <2>2, <2>3 DEF Bytes
  <2> QED BY <1>1, <1>2, <2>1, <2>3, <2>4
<1>4. CASE FanoutWrites
  <2>1. /\ held # << >> /\ UNCHANGED <<pipe, fanout>>
        /\ decoded' = Append(decoded, Head(held)) /\ held' = Tail(held)
        /\ offered' \in {Append(offered, Head(held) \div 2), offered}
    BY <1>4 DEF FanoutWrites
  <2>2. Head(held) \in Chunk /\ held' \in Seq(Chunk) /\ Len(held') = Len(held) - 1
    BY <1>1, <2>1
  <2>3. Head(held) \div 2 \in Nat
    BY <2>2 DEF Chunk
  <2>4. decoded' \in Seq(Chunk) /\ Len(decoded') = Len(decoded) + 1
    BY <1>1, <2>1, <2>2
  <2>5. Append(offered, Head(held) \div 2) \in Seq(Nat)
    BY <1>1, <2>3
  <2>6. Bytes' = Bytes
    BY <1>1, <2>1, <2>2, <2>4 DEF Bytes
  <2> QED BY <1>1, <1>2, <2>1, <2>2, <2>4, <2>5, <2>6
<1>5. CASE FanoutEnds(SourceEnded)
  <2>1. fanout = "run" /\ fanout' = "done" /\ UNCHANGED <<pipe, held, decoded, offered>>
    BY <1>5 DEF FanoutEnds
  <2> QED BY <1>1, <1>2, <2>1 DEF Bytes
<1>6. CASE DecoderReads
  <2>1. /\ pipe # << >> /\ UNCHANGED <<held, fanout, offered>>
        /\ decoded' = Append(decoded, Head(pipe)) /\ pipe' = Tail(pipe)
    BY <1>6 DEF DecoderReads
  <2>2. pipe' \in Seq(Chunk) /\ Len(pipe') = Len(pipe) - 1 /\ Head(pipe) \in Chunk
    BY <1>1, <2>1
  <2>3. decoded' \in Seq(Chunk) /\ Len(decoded') = Len(decoded) + 1
    BY <1>1, <2>1, <2>2
  <2> QED BY <1>1, <1>2, <2>1, <2>2, <2>3 DEF Bytes
<1> QED BY <1>3, <1>4, <1>5, <1>6 DEF StreamStep

LEMMA StreamTypeOK == TypeOK /\ PlaceInv /\ StreamStep => TypeOK' /\ PlaceInv'
<1> SUFFICES ASSUME TypeOK, PlaceInv, StreamStep PROVE TypeOK' /\ PlaceInv'
  OBVIOUS
<1>1. FlagsOK'
  BY StreamEffect DEF TypeOK, FlagsOK, Beside
<1>2. TypeOK'
  BY <1>1, StreamEffect DEF TypeOK, Beside
<1>3. PlaceInv'
  <2> HIDE DEF Bytes
  <2> QED BY StreamEffect DEF TypeOK, FlagsOK, PlaceInv, Beside
<1> QED BY <1>2, <1>3

LEMMA JoinTypeOK == TypeOK /\ PlaceInv /\ Join => TypeOK' /\ PlaceInv'
<1> SUFFICES ASSUME TypeOK, PlaceInv, Join PROVE TypeOK' /\ PlaceInv'
  OBVIOUS
<1>1. /\ UNCHANGED <<coreVars, streamVars, backend, source>>
      /\ pc' \notin {"entering", "setup", "joining"} /\ backend = "core"
  BY DEF Join, PlaceInv, Quiet, Goto, Raises
<1>2. confirmed' \in BOOLEAN
  BY DEF Join, Drain, TypeOK, FlagsOK
<1>3. CASE worker # "exited"
  <2>1. Killed
    BY <1>3 DEF Join
  <2>2. UNCHANGED <<coreVars, pipe, held, decoded, offered, backend>> /\ source' = source
    BY <1>1 DEF streamVars
  <2>3. pc' \notin {"entering", "setup", "joining"} \/ (pc' = pc /\ worker # "off")
    BY <1>1
  <2> QED BY <1>1, <1>2, <2>1, <2>2, <2>3, KilledTypeOK
<1>4. CASE worker = "exited"
  <2>1. UNCHANGED <<wireVars, workerVars, control, status>>
    BY <1>4 DEF Join
  <2>2. FlagsOK'
    BY <1>2, <2>1 DEF TypeOK, FlagsOK, workerVars
  <2>3. TypeOK'
    BY <1>1, <2>1, <2>2 DEF TypeOK, coreVars, streamVars, wireVars, workerVars
  <2>4. PlaceInv'
    BY <1>1, <1>4, <2>1 DEF PlaceInv, Bytes, coreVars, streamVars, wireVars, workerVars, Before
  <2> QED BY <2>3, <2>4
<1> QED BY <1>3, <1>4

LEMMA ExitsTypeOK ==
  TypeOK /\ PlaceInv /\ (ParentExits \/ (Breaks /\ WorkerDies)) => TypeOK' /\ PlaceInv'
<1> SUFFICES ASSUME TypeOK, PlaceInv, ParentExits \/ (Breaks /\ WorkerDies)
             PROVE  TypeOK' /\ PlaceInv'
  OBVIOUS
<1>1. UNCHANGED <<coreVars, pipe, held, decoded, offered, backend, source, pc, confirmed>>
  BY DEF ParentExits, Breaks, WorkerDies, streamVars, runVars
<1>2. confirmed' \in BOOLEAN
  BY <1>1 DEF TypeOK, FlagsOK
<1>3. CASE Killed /\ worker \notin {"off", "exited"}
  <2>1. backend = "core"
    BY <1>3 DEF TypeOK, PlaceInv
  <2> QED BY <1>1, <1>2, <1>3, <2>1, KilledTypeOK
<1>4. CASE /\ UNCHANGED <<wireVars, workerVars, control, status>>
           /\ fanout' = IF fanout = "run" THEN "done" ELSE fanout
  <2> USE <1>1, <1>4 DEF coreVars, wireVars, workerVars
  <2>1. FlagsOK'
    BY DEF TypeOK, FlagsOK
  <2>2. TypeOK'
    BY <2>1 DEF TypeOK
  <2>3. PlaceInv'
    BY DEF TypeOK, FlagsOK, PlaceInv, Bytes
  <2> QED BY <2>2, <2>3
<1> QED BY <1>3, <1>4 DEF ParentExits, WorkerDies

LEMMA CoreStepTypeOK ==
  TypeOK /\ PlaceInv /\ (CoreStep \/ (Breaks /\ CoreRestarts)) => TypeOK' /\ PlaceInv'
<1> SUFFICES ASSUME TypeOK, PlaceInv, CoreStep \/ (Breaks /\ CoreRestarts)
             PROVE  TypeOK' /\ PlaceInv'
  OBVIOUS
<1>1. Aside
  BY DEF CoreStep, Core, Breaks, CoreRestarts, Aside, workerVars, parentVars, streamVars, runVars
<1>2. CASE CoreStep
  <2>1. TypeOK'
    BY <1>1, <1>2, CoreTypeOK DEF CoreStep
  <2>2. worker = "off" => sent' = sent /\ core' = "none" /\ commands' = << >>
    BY <1>2 DEF CoreStep, PlaceInv, Core, CoreAnswers, CoreAccepts, CoreStarts, CoreStops,
                CoreSends, CoreEnds, CoreSeesClose
  <2>3. PlaceInv'
    BY <1>1, <2>2 DEF TypeOK, FlagsOK, PlaceInv, Aside, Bytes
  <2> QED BY <2>1, <2>3
<1>3. CASE CoreRestarts
  <2> USE <1>1, <1>3 DEF CoreRestarts
  <2>1. FlagsOK'
    BY DEF TypeOK, FlagsOK, Aside
  <2>2. << >> \in Seq(Command)
    OBVIOUS
  <2>3. TypeOK'
    BY <2>1, <2>2 DEF TypeOK, Aside
  <2>4. PlaceInv'
    BY DEF TypeOK, FlagsOK, PlaceInv, Aside, Bytes
  <2> QED BY <2>3, <2>4
<1> QED BY <1>2, <1>3

LEMMA WorkerStepTypeOK == TypeOK /\ PlaceInv /\ WorkerStep => TypeOK' /\ PlaceInv'
<1> SUFFICES ASSUME TypeOK, PlaceInv, WorkerStep PROVE TypeOK' /\ PlaceInv'
  OBVIOUS
<1>1. CASE WorkerWrites
  <2>1. Beside
    BY <1>1 DEF WorkerStep, WorkerWrites, Beside, coreVars, wireVars, parentVars, runVars
  <2> QED BY <1>1, <2>1, WritesTypeOK
<1>2. CASE ~WorkerWrites
  <2>1. Apart
    BY <1>2 DEF WorkerStep, Worker, Apart, coreVars, streamVars, runVars
  <2>2. \/ WorkerConnects \/ WorkerHears \/ WorkerGivesUp \/ WorkerReceives \/ WriteFails
        \/ WorkerConfirms \/ WorkerExits \/ WorkerStarts \/ WorkerStops
    BY <1>2 DEF WorkerStep, Worker
  <2> QED BY <2>1, <2>2, ConnectsTypeOK, HearsTypeOK, FailsTypeOK, ReceivesTypeOK, StartsTypeOK
<1> QED BY <1>1, <1>2

LEMMA StepTypeOK == TypeOK /\ PlaceInv /\ [Next]_vars => TypeOK' /\ PlaceInv'
<1> SUFFICES ASSUME TypeOK, PlaceInv, [Next]_vars PROVE TypeOK' /\ PlaceInv'
  OBVIOUS
<1>1. Still \/ Moves
  BY Steps DEF TypeOK, PlaceInv
<1>2. CASE Still
  BY <1>2, StillTypeOK
<1>3. CASE SourceWrites
  <2>1. Beside
    BY <1>3 DEF SourceWrites, Beside, wireVars, workerVars, parentVars, runVars
  <2> QED BY <1>3, <2>1, SourceTypeOK
<1>4. CASE Moves /\ ~SourceWrites
  BY <1>4, SpawnTypeOK, JoinTypeOK, ExitsTypeOK, CoreStepTypeOK, WorkerStepTypeOK, StreamTypeOK
     DEF Moves
<1> QED BY <1>1, <1>2, <1>3, <1>4

\* Every variable of the capture keeps its type, and nothing of it moves before
\* the run has started it: the transport worker of the Core backend or the
\* capture process of the direct one, never both.
THEOREM TypeCorrect == Spec => [](TypeOK /\ PlaceInv)
BY InitTypeOK, StepTypeOK, PTL DEF Spec

-----------------------------------------------------------------------------
(* One capture, and what a stop means.                                     *)

\* A queue of commands from which the first is taken.
LEMMA TailStart ==
  ASSUME NEW q \in Seq(Command), q # << >>
  PROVE  /\ "start" \notin Range(q) => "start" \notin Range(Tail(q))
         /\ Once(q) => Once(Tail(q))
         /\ Once(q) /\ Head(q) = "start" => "start" \notin Range(Tail(q))
<1> DEFINE t == Tail(q)
<1>1. /\ t \in Seq(Command) /\ Len(t) = Len(q) - 1 /\ Len(q) \in Nat /\ Len(q) > 0
      /\ \A k \in 1 .. Len(t) : t[k] = q[k + 1]
      /\ Head(q) = q[1]
  OBVIOUS
<1> HIDE DEF t
<1>2. DOMAIN q = 1 .. Len(q) /\ DOMAIN t = 1 .. Len(t)
  BY <1>1
<1>3. \A k \in DOMAIN t : k + 1 \in DOMAIN q /\ t[k] = q[k + 1]
  BY <1>1, <1>2
<1>4. "start" \notin Range(q) => "start" \notin Range(t)
  BY <1>3 DEF Range
<1>5. Once(q) => Once(t)
  BY <1>1, <1>2, <1>3 DEF Once
<1>6. Once(q) /\ Head(q) = "start" => "start" \notin Range(t)
  <2> SUFFICES ASSUME Once(q), Head(q) = "start", NEW k \in DOMAIN t, t[k] = "start"
               PROVE  FALSE
    BY DEF Range
  <2>1. 1 \in DOMAIN q /\ k + 1 \in DOMAIN q /\ q[1] = "start" /\ q[k + 1] = "start"
    BY <1>1, <1>2, <1>3
  <2>2. k + 1 = 1
    BY <2>1 DEF Once
  <2> QED BY <1>2, <2>2
<1> QED BY <1>4, <1>5, <1>6 DEF t

\* A queue of commands to which one is added.
LEMMA AppendStart ==
  ASSUME NEW q \in Seq(Command), NEW c \in Command
  PROVE  /\ "start" \notin Range(q) /\ c # "start" => "start" \notin Range(Append(q, c))
         /\ Once(q) /\ (c # "start" \/ "start" \notin Range(q)) => Once(Append(q, c))
<1> DEFINE a == Append(q, c)
<1>1. /\ a \in Seq(Command) /\ Len(a) = Len(q) + 1 /\ Len(q) \in Nat
      /\ a[Len(q) + 1] = c
      /\ \A k \in 1 .. Len(q) : a[k] = q[k]
  OBVIOUS
<1> HIDE DEF a
<1>2. DOMAIN q = 1 .. Len(q) /\ DOMAIN a = 1 .. Len(q) + 1
  BY <1>1
<1>3. \A k \in DOMAIN a : (k \in DOMAIN q /\ a[k] = q[k]) \/ (k = Len(q) + 1 /\ a[k] = c)
  BY <1>1, <1>2
<1>4. "start" \notin Range(q) /\ c # "start" => "start" \notin Range(a)
  BY <1>3 DEF Range
<1>5. Once(q) /\ (c # "start" \/ "start" \notin Range(q)) => Once(a)
  <2> SUFFICES ASSUME Once(q), c # "start" \/ "start" \notin Range(q),
                      NEW i \in DOMAIN a, NEW j \in DOMAIN a, a[i] = "start", a[j] = "start"
               PROVE  i = j
    BY DEF Once
  <2>1. CASE c # "start"
    <3>1. i \in DOMAIN q /\ q[i] = "start" /\ j \in DOMAIN q /\ q[j] = "start"
      BY <1>3, <2>1
    <3> QED BY <3>1 DEF Once
  <2>2. CASE "start" \notin Range(q)
    <3>1. i = Len(q) + 1 /\ j = Len(q) + 1
      BY <1>3, <2>2 DEF Range
    <3> QED BY <3>1
  <2> QED BY <2>1, <2>2
<1> QED BY <1>4, <1>5 DEF a

\* An event at either end of a queue.
LEMMA HasTail ==
  ASSUME NEW q \in Seq(Message), q # << >>, NEW code
  PROVE  Has(Tail(q), code) => Has(q, code)
<1>1. \A k \in DOMAIN Tail(q) : k + 1 \in DOMAIN q /\ Tail(q)[k] = q[k + 1]
  OBVIOUS
<1> QED BY <1>1 DEF Has

LEMMA HasAppend ==
  ASSUME NEW q \in Seq(Message), NEW m \in Message, NEW code
  PROVE  Has(Append(q, m), code) => Has(q, code) \/ m.code = code
<1> DEFINE a == Append(q, m)
<1>1. \A k \in DOMAIN a : (k \in DOMAIN q /\ a[k] = q[k]) \/ a[k] = m
  OBVIOUS
<1> HIDE DEF a
<1>2. Has(a, code) => Has(q, code) \/ m.code = code
  BY <1>1 DEF Has
<1> QED BY <1>2 DEF a

LEMMA HasEmpty == \A code : ~Has(<< >>, code)
BY DEF Has

\* What Core's steps mean for the capture it was asked for.
LEMMA CoreEffect ==
  ASSUME TypeOK, StopInv, Core
  PROVE  /\ CoreIsIdle => CoreIsIdle' /\ (Has(events', "CAPTURE_STOPPED") =>
                                          Has(events, "CAPTURE_STOPPED"))
         /\ Has(events', "CAPTURE_STOPPED") => Has(events, "CAPTURE_STOPPED") \/ CoreIsIdle'
         /\ core' # "none" => "start" \notin Range(commands')
         /\ Once(commands')
<1> DEFINE Stopped(q) == Has(q, "CAPTURE_STOPPED")
           starts == "start" \in Range(commands)
           starts2 == "start" \in Range(commands')
<1>1. commands \in Seq(Command) /\ events \in Seq(Message)
  BY DEF TypeOK
<1>2. Once(commands) /\ (core # "none" => ~starts)
  BY DEF StopInv
<1>3. ASSUME NEW code \in Code \ {"CAPTURE_STOPPED"}, NEW ok \in BOOLEAN, Says(Event(code, ok))
      PROVE  Stopped(events') => Stopped(events)
  <2>1. Event(code, ok) \in Message /\ Event(code, ok).code = code
    BY EventFields
  <2>2. events' = events \/ events' = Append(events, Event(code, ok))
    BY <1>1, <1>3, <2>1, SaysType
  <2> QED BY <1>1, <2>1, <2>2, HasAppend
<1>4. ASSUME commands # << >>, commands' = Tail(commands)
      PROVE  /\ ~starts => ~starts2 
             /\ Once(commands')
             /\ Head(commands) = "start" => ~starts2
  BY <1>1, <1>2, <1>4, TailStart
<1>5. CASE CoreAnswers
  <2>1. Head(commands) \in Request
    BY <1>1, <1>5 DEF CoreAnswers, Command
  <2>2. /\ Answer[Head(commands)] \in Code \ {"CAPTURE_STOPPED"}
        /\ "error" \in Code \ {"CAPTURE_STOPPED"}
    BY <2>1, Answers DEF Code
  <2>3. Stopped(events') => Stopped(events)
    BY <1>3, <1>5, <2>2 DEF CoreAnswers
  <2>4. commands # << >> /\ commands' = Tail(commands) /\ core' = core
    BY <1>5 DEF CoreAnswers
  <2> QED BY <1>2, <1>4, <2>3, <2>4 DEF CoreIsIdle
<1>6. CASE CoreAccepts
  <2>1. Stopped(events') => Stopped(events)
    BY <1>3, <1>6 DEF CoreAccepts, Code
  <2>2. commands # << >> /\ commands' = Tail(commands) /\ Head(commands) = "start"
    BY <1>6 DEF CoreAccepts
  <2>3. starts
    BY <1>1, <2>2 DEF Range
  <2> QED BY <1>4, <2>1, <2>2, <2>3 DEF CoreIsIdle
<1>7. CASE CoreStarts
  <2>1. Stopped(events') => Stopped(events)
    BY <1>3, <1>7 DEF CoreStarts, Code
  <2>2. core = "starting" /\ commands' = commands
    BY <1>7 DEF CoreStarts
  <2> QED BY <1>2, <2>1, <2>2 DEF CoreIsIdle
<1>8. CASE CoreStops
  <2>1. commands # << >> /\ commands' = Tail(commands) /\ core' = "none"
    BY <1>8 DEF CoreStops
  <2>2. CASE core = "running"
    <3>1. CoreIsIdle'
      BY <1>2, <1>4, <2>1, <2>2 DEF CoreIsIdle
    <3> QED BY <1>4, <2>1, <2>2, <3>1 DEF CoreIsIdle
  <2>3. CASE core # "running"
    <3>1. Stopped(events') => Stopped(events)
      BY <1>3, <1>8, <2>3 DEF CoreStops, Code
    <3> QED BY <1>2, <1>4, <2>1, <3>1 DEF CoreIsIdle
  <2> QED BY <2>2, <2>3
<1>9. CASE CoreSends
  <2>1. /\ core \in {"starting", "running"} /\ UNCHANGED <<core, commands>>
        /\ events' = Append(events, Data(sent + 1))
    BY <1>9 DEF CoreSends
  <2>2. Data(sent + 1) \in Message /\ Data(sent + 1).code # "CAPTURE_STOPPED"
    BY DataFields DEF TypeOK, Chunk
  <2>3. Stopped(events') => Stopped(events)
    BY <1>1, <2>1, <2>2, HasAppend
  <2> QED BY <1>2, <2>1, <2>3 DEF CoreIsIdle
<1>10. CASE CoreEnds
  <2>1. Stopped(events') => Stopped(events)
    BY <1>3, <1>10 DEF CoreEnds, Code
  <2>2. core' = "none" /\ commands' = commands
    BY <1>10 DEF CoreEnds
  <2> QED BY <1>2, <2>1, <2>2 DEF CoreIsIdle
<1>11. CASE CoreSeesClose
  <2>1. core' = "none" /\ commands' = << >> /\ events' = events
    BY <1>11 DEF CoreSeesClose
  <2> QED BY <2>1 DEF CoreIsIdle, Range, Once
<1> QED BY <1>5, <1>6, <1>7, <1>8, <1>9, <1>10, <1>11 DEF Core

LEMMA CoreStopInv == TypeOK /\ StopInv /\ Core /\ Aside => StopInv'
<1> SUFFICES ASSUME TypeOK, StopInv, Core, Aside PROVE StopInv'
  OBVIOUS
<1> HIDE DEF Core, CoreIsIdle, Has, Once
<1>1. worker \in Before => worker # "exited"
  BY DEF Before
<1> QED BY <1>1, CoreEffect DEF StopInv, Aside

\* The worker puts a command on the wire that does not start a capture.
LEMMA Asks ==
  ASSUME TypeOK, StopInv, NEW c \in Command \ {"start"}, core' = core,
         commands' = commands \/ commands' = Append(commands, c)
  PROVE  /\ CoreIsIdle => CoreIsIdle'
         /\ core' # "none" => "start" \notin Range(commands')
         /\ Once(commands')
<1>1. commands \in Seq(Command) /\ Once(commands)
      /\ (core # "none" => "start" \notin Range(commands))
  BY DEF TypeOK, StopInv
<1>2. CASE commands' = commands
  BY <1>1, <1>2 DEF CoreIsIdle
<1>3. CASE commands' = Append(commands, c)
  <2>1. /\ "start" \notin Range(commands) => "start" \notin Range(commands')
        /\ Once(commands')
    BY <1>1, <1>3, AppendStart
  <2> QED BY <1>1, <2>1 DEF CoreIsIdle
<1> QED BY <1>2, <1>3

\* Nothing the worker reads tells it of a stop that was not in the queue.
Heard == Has(events', "CAPTURE_STOPPED") => Has(events, "CAPTURE_STOPPED")

LEMMA RaiseStopInv ==
  ASSUME TypeOK, StopInv, Raise, Apart, Heard, worker # "exited"
  PROVE  StopInv'
<1>1. commands' = commands \/ commands' = Append(commands, "stop")
  BY DEF Raise
<1>2. /\ worker' \in {"confirming", "reporting"}
      /\ UNCHANGED <<core, stopped, attempted, status, confirmed>>
  BY DEF Raise, Apart
<1>3. worker' \notin Before
  BY <1>2 DEF Before
<1>4. "stop" \in Command \ {"start"}
  BY DEF Command
<1> HIDE DEF CoreIsIdle, Has, Once, Raise
<1>5. /\ CoreIsIdle => CoreIsIdle'
      /\ core' # "none" => "start" \notin Range(commands')
      /\ Once(commands')
  BY <1>1, <1>2, <1>4, Asks
<1> QED BY <1>2, <1>3, <1>5 DEF StopInv, Heard

\* A step that sends no command, and notes nothing.
LEMMA QuietStopInv ==
  ASSUME StopInv, UNCHANGED <<core, commands, stopped, attempted, status, confirmed>>, Heard,
         worker # "exited", worker' \in Before => worker \in Before
  PROVE  StopInv'
<1>1. CoreIsIdle' = CoreIsIdle
  BY DEF CoreIsIdle
<1> HIDE DEF CoreIsIdle, Has, Once
<1> QED BY <1>1 DEF StopInv, Heard

\* The worker hears that the capture has stopped.
LEMMA StoppedStopInv ==
  ASSUME StopInv, UNCHANGED <<core, commands, attempted, status, confirmed>>, Heard,
         stopped' = TRUE, Has(events, "CAPTURE_STOPPED"), worker # "exited",
         worker' \notin Before
  PROVE  StopInv'
<1>1. CoreIsIdle' = CoreIsIdle
  BY DEF CoreIsIdle
<1> HIDE DEF CoreIsIdle, Has, Once
<1> QED BY <1>1 DEF StopInv, Heard

\* The end of the process, whatever the reason.
LEMMA ExitsStopInv ==
  ASSUME StopInv, Exits, UNCHANGED <<core, stopped>>,
         ("idle" \in Range(status') \/ "confirmed" \in Range(status') \/ confirmed')
           => CoreIsIdle
  PROVE  StopInv'
<1>1. /\ worker' = "exited" /\ events' = << >> /\ attempted' = FALSE /\ commands' = commands
      /\ core' = core /\ stopped' = stopped
  BY DEF Exits
<1>2. CoreIsIdle' = CoreIsIdle
  BY <1>1 DEF CoreIsIdle
<1>3. ~Has(events', "CAPTURE_STOPPED")
  BY <1>1, HasEmpty
<1>4. worker' \notin Before
  BY <1>1 DEF Before
<1> HIDE DEF CoreIsIdle, Has, Once
<1> QED BY <1>1, <1>2, <1>3, <1>4 DEF StopInv

LEMMA AcceptedStopInv ==
  ASSUME TypeOK, StopInv, Waiting, Accepted(Following[worker]), Apart, Heard
  PROVE  StopInv'
<1> DEFINE next == Following[worker]
<1>1. worker # "exited"
  BY Successors DEF Waiting
<1>2. CASE Raise
  BY <1>1, <1>2, RaiseStopInv
<1>3. CASE ~Raise
  <2>1. /\ worker' = next
        /\ commands' = IF next \in DOMAIN Answer THEN Append(commands, next) ELSE commands
        /\ status' = IF next \in DOMAIN Answer THEN status
                     ELSE Append(status, IF next = "ready" THEN "ready" ELSE "started")
        /\ attempted' = (attempted \/ next = "start")
        /\ UNCHANGED <<stopped, core, confirmed>>
    BY <1>3 DEF Accepted, Apart
  <2>2. next \in {"list_sessions", "get_supported_frequencies", "ready", "start", "streaming"}
    BY Successors DEF Waiting
  <2>3. next # "streaming" => worker \in Before
    BY Successors DEF Waiting, Before
  <2> HIDE DEF next
  <2>4. ~("idle" \in Range(status')) /\ ~("confirmed" \in Range(status')) /\ ~confirmed'
    <3>1. status \in Seq(Report)
      BY DEF TypeOK
    <3>2. ~("idle" \in Range(status)) /\ ~("confirmed" \in Range(status)) /\ ~confirmed
      BY <1>1 DEF StopInv
    <3>3. ASSUME NEW r \in {"ready", "started"}, status' = Append(status, r)
          PROVE  ~("idle" \in Range(status')) /\ ~("confirmed" \in Range(status'))
      <4>1. \A k \in DOMAIN status' : (k \in DOMAIN status /\ status'[k] = status[k])
                                      \/ status'[k] = r
        BY <3>1, <3>3
      <4> QED BY <3>2, <4>1 DEF Range
    <3> QED BY <2>1, <3>2, <3>3
  <2>5. CASE next = "start"
    <3>1. ~attempted /\ ~stopped /\ ~Has(events, "CAPTURE_STOPPED") /\ CoreIsIdle
      BY <1>1, <2>3, <2>5 DEF StopInv
    <3>2. next \in DOMAIN Answer /\ next \in Command
      BY <2>5, Answers, Commands DEF Request
    <3>3. Once(commands')
      BY <2>1, <3>1, <3>2, AppendStart DEF TypeOK, StopInv, CoreIsIdle
    <3>4. core' = "none" /\ attempted' /\ worker' = "start" /\ ~stopped'
      BY <2>1, <2>5, <3>1 DEF CoreIsIdle
    <3>5. ~Has(events', "CAPTURE_STOPPED")
      BY <3>1 DEF Heard
    <3> HIDE DEF CoreIsIdle, Has, Once
    <3> QED BY <2>4, <3>3, <3>4, <3>5 DEF StopInv, Before
  <2>6. CASE next # "start"
    <3>1. commands' = commands \/ (next \in Command \ {"start"}
                                   /\ commands' = Append(commands, next))
      BY <2>1, <2>6, Answers, Commands
    <3>2. "stop" \in Command \ {"start"}
      BY DEF Command
    <3> HIDE DEF CoreIsIdle, Has, Once
    <3>3. /\ CoreIsIdle => CoreIsIdle'
          /\ core' # "none" => "start" \notin Range(commands')
          /\ Once(commands')
      BY <2>1, <3>1, <3>2, Asks
    <3>4. attempted' = attempted
      BY <2>1, <2>6 DEF TypeOK, FlagsOK
    <3>5. worker' \in Before => worker \in Before
      BY <2>1, <2>3 DEF Before
    <3> QED BY <1>1, <2>1, <2>4, <3>3, <3>4, <3>5 DEF StopInv, Heard
  <2> QED BY <2>5, <2>6
<1> QED BY <1>2, <1>3

LEMMA HearsStopInv == TypeOK /\ StopInv /\ Apart /\ WorkerHears => StopInv'
<1> SUFFICES ASSUME TypeOK, StopInv, Apart, WorkerHears PROVE StopInv'
  OBVIOUS
<1>1. Waiting /\ events # << >> /\ events' = Tail(events) /\ events \in Seq(Message)
  BY DEF WorkerHears, TypeOK
<1>2. Heard
  BY <1>1, HasTail DEF Heard
<1>3. worker # "exited"
  BY <1>1, Successors DEF Waiting
<1>4. CASE Accepted(Following[worker])
  BY <1>1, <1>2, <1>4, AcceptedStopInv
<1>5. CASE Raise
  BY <1>2, <1>3, <1>5, RaiseStopInv
<1>6. CASE UNCHANGED <<worker, commands, stopped, attempted, status>>
  BY <1>2, <1>3, <1>6, QuietStopInv DEF Apart
<1> QED BY <1>4, <1>5, <1>6 DEF WorkerHears

LEMMA ReceivesStopInv ==
  TypeOK /\ StopInv /\ Apart /\ (WorkerReceives \/ WorkerConfirms) => StopInv'
<1> SUFFICES ASSUME TypeOK, StopInv, Apart, WorkerReceives \/ WorkerConfirms PROVE StopInv'
  OBVIOUS
<1> DEFINE e == Head(events)
<1>1. events' = events \/ (events # << >> /\ events' = Tail(events))
  BY DEF WorkerReceives, WorkerConfirms, Receiving
<1>2. Heard
  BY <1>1, HasTail DEF Heard, TypeOK
<1>3. worker # "exited" /\ worker \notin Before
  BY DEF WorkerReceives, WorkerConfirms, Receiving, Before
<1>4. CASE Raise
  BY <1>2, <1>3, <1>4, RaiseStopInv
<1>5. CASE UNCHANGED <<commands, stopped, attempted, status>> /\ worker' \in {worker, "reporting"}
  BY <1>2, <1>3, <1>5, QuietStopInv DEF Apart, Before
<1>6. CASE /\ e.code = "CAPTURE_STOPPED" /\ events # << >>
           /\ stopped' = TRUE /\ worker' = "reporting" /\ UNCHANGED <<commands, attempted, status>>
  <2>1. 1 \in DOMAIN events /\ e = events[1]
    BY <1>6 DEF TypeOK
  <2>2. Has(events, "CAPTURE_STOPPED")
    BY <1>6, <2>1 DEF Has
  <2> QED BY <1>2, <1>3, <1>6, <2>2, StoppedStopInv DEF Apart, Before
<1>7. CASE WorkerReceives
  BY <1>4, <1>5, <1>6, <1>7 DEF WorkerReceives, Receiving
<1>8. CASE WorkerConfirms
  BY <1>4, <1>5, <1>6, <1>8 DEF WorkerConfirms, Confirms
<1> QED BY <1>7, <1>8

LEMMA ConnectsStopInv == TypeOK /\ StopInv /\ Apart /\ WorkerConnects => StopInv'
<1> SUFFICES ASSUME TypeOK, StopInv, Apart, WorkerConnects PROVE StopInv'
  OBVIOUS
<1>1. /\ ~attempted /\ ~stopped /\ ~Has(events, "CAPTURE_STOPPED") /\ CoreIsIdle
      /\ ~("idle" \in Range(status)) /\ ~("confirmed" \in Range(status)) /\ ~confirmed
      /\ Once(commands)
  BY DEF WorkerConnects, StopInv, Before
<1>2. /\ UNCHANGED <<core, events, stopped, attempted, confirmed>>
      /\ worker' \in {"auth", "exited"}
  BY DEF WorkerConnects, Apart
<1>3. CASE commands' = <<"auth">> /\ worker' = "auth" /\ UNCHANGED status
  <2>1. \A k \in DOMAIN commands' : commands'[k] = "auth"
    BY <1>3
  <2>2. "start" \notin Range(commands') /\ Once(commands')
    BY <2>1 DEF Range, Once
  <2>3. CoreIsIdle'
    BY <1>1, <1>2, <2>2 DEF CoreIsIdle
  <2> HIDE DEF CoreIsIdle, Has, Once
  <2> QED BY <1>1, <1>2, <1>3, <2>2, <2>3 DEF StopInv
<1>4. CASE commands' = commands /\ worker' = "exited" /\ status' = Append(status, "error")
  <2>1. CoreIsIdle' = CoreIsIdle /\ (core' # "none" => "start" \notin Range(commands'))
    BY <1>1, <1>2, <1>4 DEF CoreIsIdle
  <2>2. \A k \in DOMAIN status' : (k \in DOMAIN status /\ status'[k] = status[k])
                                  \/ status'[k] = "error"
    BY <1>4 DEF TypeOK
  <2>3. ~("idle" \in Range(status')) /\ ~("confirmed" \in Range(status'))
    BY <1>1, <2>2 DEF Range
  <2> HIDE DEF CoreIsIdle, Has, Once
  <2> QED BY <1>1, <1>2, <1>4, <2>1, <2>3 DEF StopInv, Before
<1> QED BY <1>3, <1>4 DEF WorkerConnects

\* What the last messages of the worker add to its reports.
LEMMA EndReports ==
  ASSUME TypeOK, WorkerExits,
         NEW outcome, outcome = IF ~attempted THEN "idle" ELSE IF stopped THEN "confirmed"
                                                               ELSE "unconfirmed"
  PROVE  /\ outcome \in Range(status')
         /\ Range(status') \subseteq Range(status) \cup {outcome, "error"}
<1> DEFINE failure == IF raised THEN <<"error">> ELSE << >>
           one == <<outcome>>
           both == status \o one
<1>1. status' = both \o failure /\ status \in Seq(Report) /\ outcome \in Report
  BY DEF WorkerExits, TypeOK, Report
<1>2. failure \in Seq(Report) /\ \A k \in DOMAIN failure : failure[k] = "error"
  <2>1. "error" \in Report
    BY DEF Report
  <2>2. <<"error">> \in Seq(Report) /\ << >> \in Seq(Report)
    BY <2>1
  <2> QED BY <2>2
<1> HIDE DEF failure
<1>3. one \in Seq(Report) /\ both \in Seq(Report)
  BY <1>1
<1>4. Range(one) = {outcome}
  BY DEF Range
<1> HIDE DEF one
<1>5. Range(both) = Range(status) \cup Range(one)
  BY <1>1, <1>3, RangeConcatenation
<1> HIDE DEF both
<1>6. Range(both \o failure) = Range(both) \cup Range(failure)
  BY <1>2, <1>3, RangeConcatenation
<1>7. Range(failure) \subseteq {"error"}
  BY <1>2 DEF Range
<1> QED BY <1>1, <1>4, <1>5, <1>6, <1>7

LEMMA ReportsStopInv == TypeOK /\ StopInv /\ Apart /\ WorkerExits => StopInv'
<1> SUFFICES ASSUME TypeOK, StopInv, Apart, WorkerExits PROVE StopInv'
  OBVIOUS
<1> DEFINE outcome == IF ~attempted THEN "idle" ELSE IF stopped THEN "confirmed"
                                                     ELSE "unconfirmed"
<1>1. worker = "reporting" /\ Exits /\ UNCHANGED <<core, stopped, confirmed>>
  BY DEF WorkerExits, Apart
<1>2. outcome \in {"idle", "confirmed"} => CoreIsIdle
  BY <1>1 DEF StopInv, TypeOK, FlagsOK
<1>3. ~("idle" \in Range(status)) /\ ~("confirmed" \in Range(status)) /\ ~confirmed
  BY <1>1 DEF StopInv
<1>4. "idle" \in Range(status') \/ "confirmed" \in Range(status')
      => outcome \in {"idle", "confirmed"}
  BY <1>3, EndReports
<1> QED BY <1>1, <1>2, <1>3, <1>4, ExitsStopInv

LEMMA StartsStopInv ==
  TypeOK /\ StopInv /\ Apart /\ (WorkerStarts \/ WorkerStops) => StopInv'
<1> SUFFICES ASSUME TypeOK, StopInv, Apart, WorkerStarts \/ WorkerStops PROVE StopInv'
  OBVIOUS
<1>1. Heard /\ worker # "exited"
  BY DEF WorkerStarts, WorkerStops, Heard
<1>2. CASE Raise
  BY <1>1, <1>2, RaiseStopInv
<1>3. CASE /\ worker' = "reporting"
           /\ UNCHANGED <<open, commands, early, writing, stop_requested, stopped, attempted,
                          raised, status>>
  BY <1>1, <1>3, QuietStopInv DEF Apart, Before
<1>4. ASSUME NEW c \in Command \ {"start"}, commands' = Append(commands, c),
             UNCHANGED <<stopped, attempted, status>>, worker' # "exited",
             worker' \in Before => worker \in Before
      PROVE  StopInv'
  <2>1. UNCHANGED <<core, confirmed>>
    BY DEF Apart
  <2> HIDE DEF CoreIsIdle, Has, Once
  <2>2. /\ CoreIsIdle => CoreIsIdle'
        /\ core' # "none" => "start" \notin Range(commands')
        /\ Once(commands')
    BY <1>4, <2>1, Asks
  <2> QED BY <1>1, <1>4, <2>1, <2>2 DEF StopInv, Heard
<1>5. CASE /\ worker = "ready" /\ worker' = "configure"
           /\ commands' = Append(commands, "configure")
           /\ UNCHANGED <<stopped, attempted, status>>
  BY <1>4, <1>5 DEF Command, Request, Before
<1>6. CASE /\ worker = "streaming" /\ worker' = "stopping"
           /\ commands' = Append(commands, "stop")
           /\ UNCHANGED <<stopped, attempted, status>>
  BY <1>4, <1>6 DEF Command, Before
<1> QED BY <1>2, <1>3, <1>5, <1>6 DEF WorkerStarts, WorkerStops

LEMMA WorkerStopInv == TypeOK /\ StopInv /\ WorkerStep => StopInv'
<1> SUFFICES ASSUME TypeOK, StopInv, WorkerStep PROVE StopInv'
  OBVIOUS
<1>1. CASE WorkerWrites
  <2>1. UNCHANGED <<core, commands, events, worker, stopped, attempted, status, confirmed>>
    BY <1>1 DEF WorkerStep, WorkerWrites, coreVars, wireVars, parentVars, runVars
  <2>2. Heard /\ worker # "exited"
    BY <1>1, <2>1 DEF Heard, WorkerWrites
  <2> QED BY <2>1, <2>2, QuietStopInv
<1>2. CASE WorkerGivesUp \/ WriteFails
  <2>1. Raise /\ Heard /\ worker # "exited"
    BY <1>2, Successors DEF WorkerGivesUp, WriteFails, Heard
  <2>2. Apart
    BY <1>2, <2>1 DEF WorkerStep, Worker, WorkerGivesUp, WriteFails, Raise, WorkerWrites, Apart,
                      coreVars, streamVars, runVars
  <2> QED BY <2>1, <2>2, RaiseStopInv
<1>3. CASE ~WorkerWrites /\ ~WorkerGivesUp /\ ~WriteFails
  <2>1. Apart
    BY <1>3 DEF WorkerStep, Worker, Apart, coreVars, streamVars, runVars
  <2>2. \/ WorkerConnects \/ WorkerHears \/ WorkerReceives \/ WorkerConfirms \/ WorkerExits
        \/ WorkerStarts \/ WorkerStops
    BY <1>3 DEF WorkerStep, Worker
  <2> QED BY <2>1, <2>2, ConnectsStopInv, HearsStopInv, ReceivesStopInv, ReportsStopInv,
             StartsStopInv
<1> QED BY <1>1, <1>2, <1>3

\* A step that leaves Core, the worker and what they have said alone.
LEMMA SameStopInv ==
  ASSUME StopInv,
         UNCHANGED <<core, commands, events, worker, stopped, attempted, status, confirmed>>
  PROVE  StopInv'
<1>1. CoreIsIdle' = CoreIsIdle
  BY DEF CoreIsIdle
<1> HIDE DEF CoreIsIdle, Has, Once
<1> QED BY <1>1 DEF StopInv

LEMMA SpawnStopInv == TypeOK /\ PlaceInv /\ StopInv /\ SpawnWorker => StopInv'
<1> SUFFICES ASSUME TypeOK, PlaceInv, StopInv, SpawnWorker PROVE StopInv'
  OBVIOUS
<1>1. /\ UNCHANGED <<core, commands, events, stopped, attempted, status, confirmed>>
      /\ worker = "off" /\ worker' \in {"off", "spawned"}
  BY DEF SpawnWorker, PlaceInv, coreVars, wireVars, parentVars
<1>2. Heard
  BY <1>1 DEF Heard
<1> QED BY <1>1, <1>2, QuietStopInv DEF Before

LEMMA JoinStopInv == TypeOK /\ StopInv /\ Join => StopInv'
<1> SUFFICES ASSUME TypeOK, StopInv, Join PROVE StopInv'
  OBVIOUS
<1>1. core' = core /\ status' = status
  BY DEF Join, Killed, coreVars
<1>2. confirmed' =>
        confirmed \/ "idle" \in Range(status) \/ "confirmed" \in Range(status)
  BY DEF Join, Drain, TypeOK, FlagsOK
<1>3. CASE worker # "exited"
  <2>1. Exits /\ stopped' = stopped
    BY <1>3 DEF Join, Killed
  <2>2. ("idle" \in Range(status') \/ "confirmed" \in Range(status') \/ confirmed')
          => CoreIsIdle
    BY <1>1, <1>2 DEF StopInv
  <2> QED BY <1>1, <2>1, <2>2, ExitsStopInv
<1>4. CASE worker = "exited"
  <2>1. UNCHANGED <<commands, events, worker, stopped, attempted>>
    BY <1>4 DEF Join, wireVars, workerVars
  <2>2. CoreIsIdle' = CoreIsIdle
    BY <1>1, <2>1 DEF CoreIsIdle
  <2> HIDE DEF CoreIsIdle, Has, Once
  <2> QED BY <1>1, <1>2, <1>4, <2>1, <2>2 DEF StopInv
<1> QED BY <1>3, <1>4

LEMMA KilledStopInv ==
  TypeOK /\ StopInv /\ (ParentExits \/ (Breaks /\ WorkerDies)) => StopInv'
<1> SUFFICES ASSUME TypeOK, StopInv, ParentExits \/ (Breaks /\ WorkerDies) PROVE StopInv'
  OBVIOUS
<1>1. UNCHANGED <<core, status, confirmed>>
  BY DEF ParentExits, Breaks, WorkerDies, Killed, coreVars, runVars
<1>2. CASE Killed
  <2>1. ("idle" \in Range(status') \/ "confirmed" \in Range(status') \/ confirmed')
          => CoreIsIdle
    BY <1>1 DEF StopInv
  <2> QED BY <1>1, <1>2, <2>1, ExitsStopInv DEF Killed
<1>3. CASE UNCHANGED <<wireVars, workerVars, control, status>>
  BY <1>1, <1>3, SameStopInv DEF wireVars, workerVars
<1> QED BY <1>2, <1>3 DEF ParentExits, WorkerDies

LEMMA RestartStopInv == TypeOK /\ StopInv /\ Breaks /\ CoreRestarts => StopInv'
<1> SUFFICES ASSUME TypeOK, StopInv, Breaks, CoreRestarts PROVE StopInv'
  OBVIOUS
<1>1. /\ core' = "none" /\ commands' = << >>
      /\ UNCHANGED <<events, worker, stopped, attempted, status, confirmed>>
  BY DEF Breaks, CoreRestarts, workerVars, parentVars, runVars
<1>2. CoreIsIdle' /\ Once(commands')
  BY <1>1 DEF CoreIsIdle, Once, Range
<1> HIDE DEF CoreIsIdle, Has, Once
<1> QED BY <1>1, <1>2 DEF StopInv

LEMMA InitStopInv == Init => StopInv
BY DEF Init, CaptureInit, StopInv, Before, Has, Once, CoreIsIdle, Range

LEMMA StepStopInv == TypeOK /\ PlaceInv /\ StopInv /\ [Next]_vars => StopInv'
<1> SUFFICES ASSUME TypeOK, PlaceInv, StopInv, [Next]_vars PROVE StopInv'
  OBVIOUS
<1>1. Still \/ Moves
  BY Steps DEF TypeOK, PlaceInv
<1>2. CASE Still \/ LaunchDirect \/ SourceWrites \/ StreamStep
  <2>1. UNCHANGED <<core, commands, events, worker, stopped, attempted, status, confirmed>>
    BY <1>2, StreamEffect DEF Still, LaunchDirect, SourceWrites, Beside, coreVars, wireVars,
       workerVars, parentVars, runVars
  <2> QED BY <2>1, SameStopInv
<1>3. CASE CoreStep
  <2>1. Core /\ Aside
    BY <1>3 DEF CoreStep, Core, Aside, workerVars, parentVars, streamVars, runVars
  <2> QED BY <2>1, CoreStopInv
<1>4. CASE \/ SpawnWorker \/ Join \/ ParentExits \/ WorkerStep
           \/ (Breaks /\ WorkerDies) \/ (Breaks /\ CoreRestarts)
  BY <1>4, SpawnStopInv, JoinStopInv, KilledStopInv, RestartStopInv, WorkerStopInv
<1> QED BY <1>1, <1>2, <1>3, <1>4 DEF Moves

\* Core is asked for at most one capture; once it has confirmed the stop, it
\* has none and no request for one is on its way.
THEOREM AskedOnce == Spec => []StopInv
BY TypeCorrect, InitStopInv, StepStopInv, PTL DEF Spec

\* A stop that the run takes for confirmed, on the word of the worker, is one:
\* Core has no session of this run and will not start one from a command it has
\* yet to read, whatever died, restarted or was interrupted on the way
\* (CoreCaptureProcess.stop_confirmed, run_owner's `finally`).
THEOREM ConfirmedStops == Spec => []ConfirmedIsIdle
<1>1. StopInv => ConfirmedIsIdle
  BY DEF StopInv, ConfirmedIsIdle
<1> QED BY <1>1, AskedOnce, PTL

-----------------------------------------------------------------------------
(* The packet data on its way.                                             *)

\* An event that carries none is added.
LEMMA AppendOther ==
  ASSUME NEW q \in Seq(Message), NEW m \in Message, NEW b \in Nat, NEW s \in Nat,
         Coming(q, b, s), m.code # "data"
  PROVE  Coming(Append(q, m), b, s)
<1> DEFINE a == Append(q, m)
<1>1. /\ Len(q) \in Nat /\ DOMAIN q = 1 .. Len(q) /\ DOMAIN a = 1 .. Len(q) + 1
      /\ a[Len(q) + 1] = m
      /\ \A k \in 1 .. Len(q) : a[k] = q[k]
  OBVIOUS
<1> HIDE DEF a
<1>2. \A k : IsData(a, k) <=> IsData(q, k)
  BY <1>1 DEF IsData
<1>3. \A k : IsData(a, k) => k \in DOMAIN q /\ k \in DOMAIN a /\ a[k] = q[k]
  BY <1>1, <1>2 DEF IsData
<1>4. \A k \in DOMAIN a : IsData(a, k) => a[k].chunk \in b + 1 .. s
  BY <1>2, <1>3 DEF Coming
<1>5. \A c \in b + 1 .. s : \E k \in DOMAIN a : IsData(a, k) /\ a[k].chunk = c
  BY <1>2, <1>3 DEF Coming
<1>6. \A k, l \in DOMAIN a : IsData(a, k) /\ IsData(a, l) /\ k < l => a[k].chunk < a[l].chunk
  BY <1>2, <1>3 DEF Coming
<1>7. \A k, l \in DOMAIN a : a[k].code = "CAPTURE_STOPPED" /\ IsData(a, l) => l < k
  <2> SUFFICES ASSUME NEW k \in DOMAIN a, NEW l \in DOMAIN a, a[k].code = "CAPTURE_STOPPED",
                      IsData(a, l)
               PROVE  l < k
    OBVIOUS
  <2>1. l \in DOMAIN q /\ IsData(q, l)
    BY <1>2, <1>3
  <2>2. CASE k \in DOMAIN q
    BY <1>1, <2>1, <2>2 DEF Coming
  <2>3. CASE k \notin DOMAIN q
    BY <1>1, <2>1, <2>3
  <2> QED BY <2>2, <2>3
<1> QED BY <1>4, <1>5, <1>6, <1>7 DEF Coming, a

\* The next chunk is added.
LEMMA AppendData ==
  ASSUME NEW q \in Seq(Message), NEW m \in Message, NEW b \in Nat, NEW s \in Nat,
         Coming(q, b, s), ~Has(q, "CAPTURE_STOPPED"), m.code = "data", m.chunk = s + 1
  PROVE  Coming(Append(q, m), b, s + 1)
<1> DEFINE a == Append(q, m)
           n == Len(q) + 1
<1>1. /\ Len(q) \in Nat /\ DOMAIN q = 1 .. Len(q) /\ DOMAIN a = 1 .. n
      /\ a[n] = m
      /\ \A k \in 1 .. Len(q) : a[k] = q[k]
  OBVIOUS
<1> HIDE DEF a
<1>2. \A k : IsData(a, k) <=> (IsData(q, k) \/ k = n)
  BY <1>1 DEF IsData
<1>3. \A k : IsData(q, k) => k \in DOMAIN q /\ k \in DOMAIN a /\ k < n /\ a[k] = q[k]
                             /\ a[k].chunk \in b + 1 .. s
  BY <1>1 DEF IsData, Coming
<1>4. b <= s + 1 /\ a[n].chunk = s + 1 /\ n \in DOMAIN a
  BY <1>1 DEF Coming
<1>5. \A k \in DOMAIN a : IsData(a, k) => a[k].chunk \in b + 1 .. s + 1
  BY <1>2, <1>3, <1>4 DEF Coming
<1>6. ASSUME NEW c \in b + 1 .. s + 1
      PROVE  \E k \in DOMAIN a : IsData(a, k) /\ a[k].chunk = c
  <2>1. CASE c = s + 1
    BY <1>2, <1>4, <2>1
  <2>2. CASE c # s + 1
    <3>1. c \in b + 1 .. s
      BY <2>2
    <3>2. PICK k \in DOMAIN q : IsData(q, k) /\ q[k].chunk = c
      BY <3>1 DEF Coming
    <3> QED BY <1>2, <1>3, <3>2
  <2> QED BY <2>1, <2>2
<1>7. ASSUME NEW k \in DOMAIN a, NEW l \in DOMAIN a, IsData(a, k), IsData(a, l), k < l
      PROVE  a[k].chunk < a[l].chunk
  <2>1. IsData(q, k)
    BY <1>1, <1>2, <1>7
  <2>2. CASE l = n
    BY <1>3, <1>4, <2>1, <2>2
  <2>3. CASE l # n
    BY <1>2, <1>3, <1>7, <2>1, <2>3 DEF Coming
  <2> QED BY <2>2, <2>3
<1>8. \A k \in DOMAIN a : a[k].code # "CAPTURE_STOPPED"
  BY <1>1 DEF Has
<1> QED BY <1>4, <1>5, <1>6, <1>7, <1>8 DEF Coming, a

\* The first event is taken.
LEMMA TailOf ==
  ASSUME NEW q \in Seq(Message), q # << >>
  PROVE  /\ Tail(q) \in Seq(Message) /\ Len(q) \in Nat \ {0}
         /\ 1 \in DOMAIN q /\ Head(q) = q[1]
         /\ \A k \in DOMAIN Tail(q) : k \in Nat \ {0} /\ k + 1 \in DOMAIN q /\ Tail(q)[k] = q[k + 1]
         /\ \A k \in DOMAIN q : k # 1 => k - 1 \in DOMAIN Tail(q) /\ Tail(q)[k - 1] = q[k]
OBVIOUS

LEMMA TailComing ==
  ASSUME NEW q \in Seq(Message), q # << >>, NEW b \in Nat, NEW s \in Nat, Coming(q, b, s)
  PROVE  /\ Head(q).code # "data" => Coming(Tail(q), b, s)
         /\ Head(q).code = "data" => Head(q).chunk = b + 1 /\ Coming(Tail(q), b + 1, s)
         /\ Head(q).code = "CAPTURE_STOPPED" => b = s
<1> DEFINE t == Tail(q)
<1>1. /\ 1 \in DOMAIN q /\ Head(q) = q[1] /\ DOMAIN q \subseteq Nat \ {0}
      /\ \A k \in DOMAIN t : k \in Nat \ {0} /\ k + 1 \in DOMAIN q /\ t[k] = q[k + 1]
      /\ \A k \in DOMAIN q : k # 1 => k - 1 \in DOMAIN t /\ t[k - 1] = q[k]
  BY TailOf
<1> HIDE DEF t
<1>2. \A k \in DOMAIN t : k + 1 \in DOMAIN q /\ (IsData(t, k) <=> IsData(q, k + 1))
                          /\ t[k].chunk = q[k + 1].chunk /\ t[k].code = q[k + 1].code
  BY <1>1 DEF IsData
<1>3. \A k, l \in DOMAIN t : IsData(t, k) /\ IsData(t, l) /\ k < l => t[k].chunk < t[l].chunk
  BY <1>1, <1>2 DEF Coming
<1>4. \A k, l \in DOMAIN t : t[k].code = "CAPTURE_STOPPED" /\ IsData(t, l) => l < k
  <2> SUFFICES ASSUME NEW k \in DOMAIN t, NEW l \in DOMAIN t, t[k].code = "CAPTURE_STOPPED",
                      IsData(t, l)
               PROVE  l < k
    OBVIOUS
  <2>1. k + 1 \in DOMAIN q /\ l + 1 \in DOMAIN q /\ q[k + 1].code = "CAPTURE_STOPPED"
        /\ IsData(q, l + 1) /\ k \in Nat /\ l \in Nat
    BY <1>1, <1>2
  <2>2. l + 1 < k + 1
    BY <2>1 DEF Coming
  <2> QED BY <2>1, <2>2
<1>5. ASSUME Head(q).code # "data" PROVE Coming(t, b, s)
  <2>1. \A k \in DOMAIN t : IsData(t, k) => t[k].chunk \in b + 1 .. s
    BY <1>2 DEF Coming
  <2>2. ASSUME NEW c \in b + 1 .. s PROVE \E k \in DOMAIN t : IsData(t, k) /\ t[k].chunk = c
    <3>1. PICK k \in DOMAIN q : IsData(q, k) /\ q[k].chunk = c
      BY DEF Coming
    <3>2. k # 1
      BY <1>1, <1>5, <3>1 DEF IsData
    <3>3. k - 1 \in DOMAIN t /\ t[k - 1] = q[k]
      BY <1>1, <3>2
    <3> QED BY <3>1, <3>3 DEF IsData
  <2> QED BY <1>3, <1>4, <2>1, <2>2 DEF Coming
<1>6. ASSUME Head(q).code = "data" PROVE Head(q).chunk = b + 1 /\ Coming(t, b + 1, s)
  <2>1. IsData(q, 1) /\ q[1].chunk \in b + 1 .. s
    BY <1>1, <1>6 DEF IsData, Coming
  <2>2. b + 1 \in b + 1 .. s
    BY <2>1
  <2>3. PICK j \in DOMAIN q : IsData(q, j) /\ q[j].chunk = b + 1
    BY <2>2 DEF Coming
  <2>4. j = 1
    <3> SUFFICES ASSUME j # 1 PROVE FALSE
      OBVIOUS
    <3>1. 1 < j
      BY <1>1
    <3>2. q[1].chunk < q[j].chunk
      BY <1>1, <2>1, <2>3, <3>1 DEF Coming
    <3> QED BY <2>1, <2>3, <3>2
  <2>5. q[1].chunk = b + 1
    BY <2>3, <2>4
  <2>6. ASSUME NEW k \in DOMAIN t, IsData(t, k) PROVE t[k].chunk \in b + 2 .. s
    <3>1. k + 1 \in DOMAIN q /\ IsData(q, k + 1) /\ t[k].chunk = q[k + 1].chunk /\ 1 < k + 1
      BY <1>1, <1>2, <2>6
    <3>2. q[k + 1].chunk \in b + 1 .. s /\ q[1].chunk < q[k + 1].chunk
      BY <1>1, <2>1, <3>1 DEF Coming
    <3> QED BY <2>5, <3>1, <3>2
  <2>7. ASSUME NEW c \in b + 2 .. s PROVE \E k \in DOMAIN t : IsData(t, k) /\ t[k].chunk = c
    <3>1. c \in b + 1 .. s /\ c # b + 1
      OBVIOUS
    <3>2. PICK k \in DOMAIN q : IsData(q, k) /\ q[k].chunk = c
      BY <3>1 DEF Coming
    <3>3. k # 1
      BY <2>5, <3>1, <3>2
    <3>4. k - 1 \in DOMAIN t /\ t[k - 1] = q[k]
      BY <1>1, <3>3
    <3> QED BY <3>2, <3>4 DEF IsData
  <2>8. b + 1 <= s /\ (b + 1) + 1 = b + 2
    BY <2>1
  <2> QED BY <1>1, <1>3, <1>4, <2>5, <2>6, <2>7, <2>8 DEF Coming
<1>7. ASSUME Head(q).code = "CAPTURE_STOPPED" PROVE b = s
  <2>1. \A l \in DOMAIN q : ~IsData(q, l)
    BY <1>1, <1>7 DEF Coming
  <2>2. b + 1 .. s = {}
    BY <2>1 DEF Coming
  <2> QED BY <2>2 DEF Coming
<1> QED BY <1>5, <1>6, <1>7 DEF t

\* What Core says keeps the packet data in order.
LEMMA CoreComing ==
  ASSUME TypeOK, StopInv, Core, NEW b \in Nat, Coming(events, b, sent)
  PROVE  Coming(events', b, sent')
<1>1. events \in Seq(Message) /\ sent \in Nat /\ commands \in Seq(Command)
  BY DEF TypeOK
<1>2. ASSUME NEW code \in Code, NEW ok \in BOOLEAN, Says(Event(code, ok)), sent' = sent
      PROVE  Coming(events', b, sent')
  <2>1. Event(code, ok) \in Message /\ Event(code, ok).code # "data"
    BY EventFields DEF Code
  <2>2. events' = events \/ events' = Append(events, Event(code, ok))
    BY <1>1, <1>2, <2>1, SaysType
  <2>3. Coming(Append(events, Event(code, ok)), b, sent)
    BY <1>1, <2>1, AppendOther
  <2> QED BY <1>2, <2>2, <2>3
<1>3. CASE CoreSends
  <2>1. /\ core # "none" /\ sent' = sent + 1 /\ events' = Append(events, Data(sent + 1))
    BY <1>3 DEF CoreSends
  <2>2. /\ Data(sent + 1) \in Message /\ Data(sent + 1).code = "data"
        /\ Data(sent + 1).chunk = sent + 1
    BY <1>1, DataFields DEF Chunk
  <2>3. ~Has(events, "CAPTURE_STOPPED")
    BY <2>1 DEF StopInv, CoreIsIdle
  <2>4. Coming(Append(events, Data(sent + 1)), b, sent + 1)
    BY <1>1, <2>2, <2>3, AppendData
  <2> QED BY <2>1, <2>4
<1>4. CASE CoreAnswers
  <2>1. Head(commands) \in Request
    BY <1>1, <1>4 DEF CoreAnswers, Command
  <2>2. Answer[Head(commands)] \in Code /\ "error" \in Code
    BY <2>1, Answers DEF Code
  <2> QED BY <1>2, <1>4, <2>2 DEF CoreAnswers
<1>5. CASE CoreAccepts \/ CoreStarts \/ CoreStops \/ CoreEnds \/ CoreSeesClose
  BY <1>2, <1>5 DEF CoreAccepts, CoreStarts, CoreStops, CoreEnds, CoreSeesClose, Code
<1> QED BY <1>3, <1>4, <1>5 DEF Core

LEMMA CoreChunkInv ==
  TypeOK /\ PlaceInv /\ StopInv /\ ChunkInv /\ Core /\ Aside => ChunkInv'
<1> SUFFICES ASSUME TypeOK, PlaceInv, StopInv, ChunkInv, Core, Aside PROVE ChunkInv'
  OBVIOUS
<1>1. \A b \in Nat : Coming(events, b, sent) => Coming(events', b, sent')
  BY CoreComing
<1>2. core = "none" => sent' = sent
  BY DEF Core, CoreAnswers, CoreAccepts, CoreStarts, CoreStops, CoreSends, CoreEnds,
         CoreSeesClose
<1>3. Bytes' = Bytes /\ Copied' = Copied
  BY DEF Aside, Bytes, Copied
<1>4. worker \in Before => core = "none"
  BY DEF StopInv, CoreIsIdle, Before
<1>5. backend = "direct" \/ stopped => core = "none"
  BY DEF PlaceInv, StopInv, CoreIsIdle
<1>6. Len(early) \in Nat
  BY DEF TypeOK
<1> HIDE DEF Bytes, Copied, Coming, Core
<1>7. (worker \in Before /\ backend = "core" => sent = 0 /\ Bytes = 0 /\ Coming(events, 0, 0))'
  BY <1>1, <1>2, <1>3, <1>4 DEF ChunkInv, Aside
<1>8. (worker = "start" => /\ Bytes = 0 /\ Coming(events, Len(early), sent)
                           /\ \A k \in DOMAIN early : early[k] = k)'
  BY <1>1, <1>3, <1>6 DEF ChunkInv, Aside
<1>9. (worker \in Copying => \E b \in Nat : Copied = 2 * b /\ Coming(events, b, sent))'
  BY <1>1, <1>3 DEF ChunkInv, Aside
<1>10. (backend = "direct" \/ (stopped /\ ~raised) => Bytes = 2 * sent)'
  BY <1>2, <1>3, <1>5 DEF ChunkInv, Aside
<1>11. (worker \in Copying \cup {"start"} => ~stopped)'
  BY DEF ChunkInv, Aside
<1> QED BY <1>7, <1>8, <1>9, <1>10, <1>11 DEF ChunkInv

\* The worker gives up its copy, and what it had not written.
LEMMA LeftChunkInv ==
  ASSUME ChunkInv, worker' \notin Before \cup Copying \cup {"start"}, Bytes' = Bytes,
         sent' = sent, backend' = backend,
         (stopped /\ ~raised)' => (stopped /\ ~raised) \/ Bytes = 2 * sent
  PROVE  ChunkInv'
<1> HIDE DEF Bytes, Coming
<1> QED BY DEF ChunkInv

\* The capture's bytes do not move while the worker reads and sends.
LEMMA ApartBytes == Apart => Bytes' = Bytes /\ sent' = sent /\ backend' = backend
BY DEF Apart, Bytes

LEMMA RaiseChunkInv == ChunkInv /\ Raise /\ Apart => ChunkInv'
<1> SUFFICES ASSUME ChunkInv, Raise, Apart PROVE ChunkInv'
  OBVIOUS
<1>1. worker' \in {"confirming", "reporting"} /\ raised' = TRUE
  BY DEF Raise
<1>2. worker' \notin Before \cup Copying \cup {"start"}
  BY <1>1 DEF Before, Copying
<1> QED BY <1>1, <1>2, ApartBytes, LeftChunkInv

\* A step of the handshake, which reads no packet data.
LEMMA AcceptedChunkInv ==
  ASSUME TypeOK, PlaceInv, StopInv, ChunkInv, Waiting, Accepted(Following[worker]), Apart,
         \A b \in Nat : Coming(events, b, sent) => Coming(events', b, sent)
  PROVE  ChunkInv'
<1> DEFINE next == Following[worker]
<1>1. CASE Raise
  BY <1>1, RaiseChunkInv
<1>2. CASE ~Raise
  <2>1. /\ worker' = next
        /\ writing' = IF next = "streaming" THEN EarlyBytes ELSE writing
        /\ UNCHANGED <<early, stopped, raised>>
    BY <1>2 DEF Accepted
  <2>2. /\ worker = "start" => next = "streaming"
        /\ worker = "configure" => next = "start"
        /\ worker \notin {"start", "configure"} => next \in Before
        /\ worker # "start" => worker \in Before
    BY Successors DEF Waiting, Before
  <2>3. Bytes' = Bytes /\ sent' = sent /\ backend' = backend
    BY ApartBytes
  <2>4. backend = "core" /\ ~stopped
    <3>1. worker # "off"
      BY Successors DEF Waiting
    <3> QED BY <2>2, <3>1 DEF TypeOK, PlaceInv, StopInv, ChunkInv
  <2>5. Len(early) \in Nat /\ early \in Seq(Chunk)
    BY DEF TypeOK
  <2> HIDE DEF next, Bytes, Coming
  <2>6. CASE worker = "start"
    <3>1. worker' = "streaming" /\ writing' = EarlyBytes
      BY <2>1, <2>2, <2>6
    <3>2. Len(writing') = 2 * Len(early)
      BY <2>5, <3>1, EarlyType
    <3>3. Bytes = 0 /\ Coming(events', Len(early), sent)
      BY <2>5, <2>6 DEF ChunkInv
    <3>4. Copied' = 2 * Len(early)
      BY <2>3, <2>5, <3>2, <3>3 DEF Copied
    <3>5. worker' \notin Before
      BY <3>1 DEF Before
    <3> QED BY <2>1, <2>3, <2>4, <2>5, <3>1, <3>3, <3>4, <3>5 DEF ChunkInv
  <2>7. CASE worker # "start"
    <3>1. sent = 0 /\ Bytes = 0 /\ Coming(events', 0, 0) /\ early = << >>
      BY <2>2, <2>4, <2>7 DEF ChunkInv, PlaceInv
    <3>2. Len(early) = 0 /\ DOMAIN early = {}
      BY <3>1
    <3>3. worker' \notin Copying
      BY <2>1, <2>2, <2>7 DEF Copying, Before
    <3> QED BY <2>1, <2>3, <2>4, <3>1, <3>2, <3>3 DEF ChunkInv
  <2> QED BY <2>6, <2>7
<1> QED BY <1>1, <1>2

LEMMA HearsChunkInv ==
  TypeOK /\ PlaceInv /\ StopInv /\ ChunkInv /\ Apart /\ WorkerHears => ChunkInv'
<1> SUFFICES ASSUME TypeOK, PlaceInv, StopInv, ChunkInv, Apart, WorkerHears PROVE ChunkInv'
  OBVIOUS
<1> DEFINE e == Head(events)
<1>1. Waiting /\ events # << >> /\ events' = Tail(events)
  BY DEF WorkerHears
<1>2. events \in Seq(Message) /\ sent \in Nat /\ early \in Seq(Chunk) /\ Len(early) \in Nat
  BY DEF TypeOK
<1>3. e.code # "data" => \A b \in Nat : Coming(events, b, sent) => Coming(events', b, sent)
  BY <1>1, <1>2, TailComing
<1>4. e.code = "data" => \A b \in Nat : Coming(events, b, sent) =>
                                          e.chunk = b + 1 /\ Coming(events', b + 1, sent)
  BY <1>1, <1>2, TailComing
<1>5. worker # "off" /\ worker \notin Copying
  BY <1>1, Successors DEF Waiting, Copying
<1>6. backend = "core"
  BY <1>5 DEF PlaceInv, TypeOK
<1>7. Bytes' = Bytes /\ sent' = sent /\ backend' = backend
  BY ApartBytes
<1>8. CASE Raise
  BY <1>8, RaiseChunkInv
<1>9. CASE e.code # "data" /\ Accepted(Following[worker])
  BY <1>1, <1>3, <1>9, AcceptedChunkInv
<1> HIDE DEF e, Bytes, Coming
<1>10. CASE /\ e.code = "data" /\ worker = "start" /\ early' = Append(early, e.chunk)
            /\ UNCHANGED <<worker, stopped, raised>>
  <2>1. /\ Coming(events, Len(early), sent) /\ Bytes = 0
        /\ \A k \in DOMAIN early : early[k] = k
    BY <1>10 DEF ChunkInv
  <2>2. e.chunk = Len(early) + 1 /\ Coming(events', Len(early) + 1, sent)
    BY <1>2, <1>4, <1>10, <2>1
  <2>3. /\ Len(early') = Len(early) + 1
        /\ \A k \in DOMAIN early' : early'[k] = k
    <3>1. /\ Len(Append(early, e.chunk)) = Len(early) + 1
          /\ \A k \in DOMAIN Append(early, e.chunk) :
               (k \in DOMAIN early /\ Append(early, e.chunk)[k] = early[k])
               \/ (k = Len(early) + 1 /\ Append(early, e.chunk)[k] = e.chunk)
      BY <1>2
    <3> QED BY <1>10, <2>1, <2>2, <3>1
  <2>4. worker' = "start" /\ worker' \notin Before \cup Copying
    BY <1>10 DEF Before, Copying
  <2> QED BY <1>6, <1>7, <1>10, <2>1, <2>2, <2>3, <2>4 DEF ChunkInv
<1>11. CASE e.code # "data" /\ UNCHANGED <<worker, early, stopped, raised>>
  <2>1. worker' \notin Copying
    BY <1>5, <1>11
  <2>2. (worker \in Before /\ backend = "core" =>
           sent = 0 /\ Bytes = 0 /\ Coming(events, 0, 0))'
    BY <1>3, <1>7, <1>11 DEF ChunkInv
  <2>3. (worker = "start" => /\ Bytes = 0 /\ Coming(events, Len(early), sent)
                             /\ \A k \in DOMAIN early : early[k] = k)'
    BY <1>2, <1>3, <1>7, <1>11 DEF ChunkInv
  <2> QED BY <1>7, <1>11, <2>1, <2>2, <2>3 DEF ChunkInv
<1>12. e.code = Answer[worker] => e.code # "data"
  <2>1. worker \in Request
    BY <1>1, Successors DEF Waiting, Request
  <2>2. Answer[worker] # "data"
    BY <2>1, Answers DEF Code
  <2> QED BY <2>2
<1> QED BY <1>8, <1>9, <1>10, <1>11, <1>12 DEF WorkerHears, e

LEMMA ReceivesChunkInv ==
  TypeOK /\ PlaceInv /\ ChunkInv /\ Apart /\ WorkerReceives => ChunkInv'
<1> SUFFICES ASSUME TypeOK, PlaceInv, ChunkInv, Apart, WorkerReceives PROVE ChunkInv'
  OBVIOUS
<1> DEFINE e == Head(events)
<1>1. worker \in Copying /\ writing = << >> /\ events # << >> /\ events' = Tail(events)
  BY DEF WorkerReceives, Receiving, Copying
<1>2. events \in Seq(Message) /\ sent \in Nat /\ e \in Message /\ Bytes \in Nat
  BY <1>1 DEF TypeOK, Bytes
<1>3. PICK b \in Nat : Copied = 2 * b /\ Coming(events, b, sent)
  BY <1>1 DEF ChunkInv
<1>4. Bytes = 2 * b
  BY <1>1, <1>2, <1>3 DEF Copied
<1>5. /\ e.code # "data" => Coming(events', b, sent)
      /\ e.code = "data" => e.chunk = b + 1 /\ Coming(events', b + 1, sent)
      /\ e.code = "CAPTURE_STOPPED" => b = sent
  BY <1>1, <1>2, <1>3, TailComing
<1>6. Bytes' = Bytes /\ sent' = sent /\ backend' = backend /\ backend = "core" /\ ~stopped
  BY <1>1, ApartBytes DEF TypeOK, PlaceInv, ChunkInv, Copying
<1>7. CASE Raise
  BY <1>7, RaiseChunkInv
<1> HIDE DEF Bytes, Coming
<1>8. CASE e.code = "data" /\ writing' = Halves(e.chunk) /\ UNCHANGED <<worker, stopped, raised>>
  <2>1. Len(writing') = 2
    BY <1>2, <1>8, MessageFields, HalvesType
  <2>2. Copied' = 2 * (b + 1) /\ b + 1 \in Nat
    BY <1>4, <1>6, <2>1 DEF Copied
  <2>3. worker' \in Copying /\ worker' \notin Before \cup {"start"}
    BY <1>1, <1>8 DEF Copying, Before
  <2> QED BY <1>5, <1>6, <1>8, <2>2, <2>3 DEF ChunkInv
<1>9. CASE e.code = "CAPTURE_STOPPED" /\ worker' = "reporting"
  <2>1. worker' \notin Before \cup Copying \cup {"start"}
    BY <1>9 DEF Copying, Before
  <2> QED BY <1>4, <1>5, <1>6, <1>9, <2>1, LeftChunkInv
<1>10. CASE e.code # "data" /\ UNCHANGED <<worker, writing, stopped, raised>>
  <2>1. Copied' = Copied
    BY <1>6, <1>10 DEF Copied
  <2>2. worker' \in Copying /\ worker' \notin Before \cup {"start"}
    BY <1>1, <1>10 DEF Copying, Before
  <2> QED BY <1>3, <1>5, <1>6, <1>10, <2>1, <2>2 DEF ChunkInv
<1> QED BY <1>7, <1>8, <1>9, <1>10 DEF WorkerReceives

LEMMA OthersChunkInv ==
  TypeOK /\ PlaceInv /\ StopInv /\ ChunkInv /\ Apart
  /\ (WorkerConnects \/ WorkerConfirms \/ WorkerExits \/ WorkerStarts \/ WorkerStops)
  => ChunkInv'
<1> SUFFICES ASSUME TypeOK, PlaceInv, StopInv, ChunkInv, Apart,
                    \/ WorkerConnects \/ WorkerConfirms \/ WorkerExits \/ WorkerStarts
                    \/ WorkerStops
             PROVE  ChunkInv'
  OBVIOUS
<1>1. Bytes' = Bytes /\ sent' = sent /\ backend' = backend
  BY ApartBytes
<1>2. CASE Raise
  BY <1>2, RaiseChunkInv
<1> HIDE DEF Bytes, Coming
<1>3. CASE worker' \in {"exited", "reporting", "confirming"} /\ stopped' = stopped
           /\ (raised' = raised \/ raised')
  <2>1. worker' \notin Before \cup Copying \cup {"start"}
    BY <1>3 DEF Copying, Before
  <2> QED BY <1>1, <1>3, <2>1, LeftChunkInv DEF TypeOK, FlagsOK
<1>4. CASE WorkerConfirms
  <2>1. worker' \in {"confirming", "reporting"} /\ raised'
    BY <1>4 DEF WorkerConfirms, PlaceInv
  <2>2. worker' \notin Before \cup Copying \cup {"start"}
    BY <2>1 DEF Copying, Before
  <2> QED BY <1>1, <2>1, <2>2, LeftChunkInv
<1>5. CASE /\ worker \in Before \ {"off"} /\ worker' \in Before
           /\ UNCHANGED <<events, stopped, raised>>
  <2>1. worker' \notin Copying \cup {"start"}
    BY <1>5 DEF Copying, Before
  <2>2. backend = "core" /\ ~stopped
    BY <1>5 DEF TypeOK, PlaceInv, StopInv
  <2> QED BY <1>1, <1>5, <2>1, <2>2 DEF ChunkInv
<1>6. CASE /\ worker = "streaming" /\ worker' = "stopping"
           /\ UNCHANGED <<events, writing, stopped, raised>>
  <2>1. worker \in Copying /\ worker' \in Copying /\ worker' \notin Before \cup {"start"}
    BY <1>6 DEF Copying, Before
  <2>2. Copied' = Copied
    BY <1>1, <1>6 DEF Copied
  <2>3. backend = "core" /\ ~stopped
    BY <2>1 DEF TypeOK, PlaceInv, ChunkInv, Copying
  <2> QED BY <1>1, <1>6, <2>1, <2>2, <2>3 DEF ChunkInv
<1>7. CASE WorkerConnects
  BY <1>3, <1>5, <1>7 DEF WorkerConnects, Before
<1>8. CASE WorkerExits
  BY <1>3, <1>8 DEF WorkerExits, Exits
<1>9. CASE WorkerStarts \/ WorkerStops
  BY <1>2, <1>3, <1>5, <1>6, <1>9 DEF WorkerStarts, WorkerStops, Before
<1> QED BY <1>4, <1>7, <1>8, <1>9

LEMMA WritesChunkInv == TypeOK /\ PlaceInv /\ ChunkInv /\ WorkerStep /\ WorkerWrites => ChunkInv'
<1> SUFFICES ASSUME TypeOK, PlaceInv, ChunkInv, WorkerStep, WorkerWrites PROVE ChunkInv'
  OBVIOUS
<1>1. /\ worker \in Copying /\ writing # << >> /\ writing' = Tail(writing)
      /\ pipe' = Append(pipe, Head(writing))
      /\ UNCHANGED <<sent, events, worker, stopped, raised, decoded, held, backend>>
  BY DEF WorkerStep, WorkerWrites, Copying, coreVars, wireVars, runVars
<1>2. pipe \in Seq(Chunk) /\ writing \in Seq(Chunk) /\ decoded \in Seq(Chunk)
      /\ held \in Seq(Chunk)
  BY DEF TypeOK
<1>3. Len(pipe') = Len(pipe) + 1 /\ Len(writing') = Len(writing) - 1
  BY <1>1, <1>2
<1>4. Copied' = Copied
  BY <1>1, <1>2, <1>3 DEF Copied, Bytes
<1>5. worker' \in Copying /\ worker' \notin Before \cup {"start"}
  BY <1>1 DEF Copying, Before
<1>6. backend = "core" /\ ~stopped
  BY <1>1 DEF TypeOK, PlaceInv, ChunkInv, Copying
<1> QED BY <1>1, <1>4, <1>5, <1>6 DEF ChunkInv

LEMMA WorkerChunkInv ==
  TypeOK /\ PlaceInv /\ StopInv /\ ChunkInv /\ WorkerStep => ChunkInv'
<1> SUFFICES ASSUME TypeOK, PlaceInv, StopInv, ChunkInv, WorkerStep PROVE ChunkInv'
  OBVIOUS
<1>1. CASE WorkerWrites
  BY <1>1, WritesChunkInv
<1>2. CASE WorkerGivesUp \/ WriteFails
  <2>1. Raise
    BY <1>2 DEF WorkerGivesUp, WriteFails
  <2>2. Apart
    BY <1>2, <2>1 DEF WorkerStep, Worker, WorkerGivesUp, WriteFails, Raise, WorkerWrites, Apart,
                      coreVars, streamVars, runVars
  <2> QED BY <2>1, <2>2, RaiseChunkInv
<1>3. CASE ~WorkerWrites /\ ~WorkerGivesUp /\ ~WriteFails
  <2>1. Apart
    BY <1>3 DEF WorkerStep, Worker, Apart, coreVars, streamVars, runVars
  <2>2. \/ WorkerHears \/ WorkerReceives
        \/ WorkerConnects \/ WorkerConfirms \/ WorkerExits \/ WorkerStarts \/ WorkerStops
    BY <1>3 DEF WorkerStep, Worker
  <2> QED BY <2>1, <2>2, HearsChunkInv, ReceivesChunkInv, OthersChunkInv
<1> QED BY <1>1, <1>2, <1>3

\* A step that only moves bytes from one hand to another, if anything.
LEMMA SameChunkInv ==
  ASSUME ChunkInv, Bytes' = Bytes,
         UNCHANGED <<sent, events, worker, early, writing, stopped, raised, backend>>
  PROVE  ChunkInv'
<1>1. Copied' = Copied
  BY DEF Copied
<1> HIDE DEF Bytes, Copied, Coming
<1> QED BY <1>1 DEF ChunkInv

LEMMA KilledChunkInv ==
  ASSUME ChunkInv, Killed, UNCHANGED <<sent, pipe, held, decoded, backend>>
  PROVE  ChunkInv'
<1>1. worker' = "exited" /\ raised' = TRUE
  BY DEF Killed, Exits
<1>2. worker' \notin Before \cup Copying \cup {"start"}
  BY <1>1 DEF Before, Copying
<1>3. Bytes' = Bytes
  BY DEF Bytes
<1> QED BY <1>1, <1>2, <1>3, LeftChunkInv

LEMMA SpawnChunkInv == TypeOK /\ PlaceInv /\ ChunkInv /\ SpawnWorker => ChunkInv'
<1> SUFFICES ASSUME TypeOK, PlaceInv, ChunkInv, SpawnWorker PROVE ChunkInv'
  OBVIOUS
<1>1. /\ UNCHANGED <<sent, events, stopped, raised, pipe, held, decoded, backend>>
      /\ worker = "off" /\ worker' \in {"off", "spawned"} /\ backend = "core"
  BY DEF SpawnWorker, PlaceInv, coreVars, wireVars, Quiet
<1>2. Bytes' = Bytes
  BY <1>1 DEF Bytes
<1>3. worker \in Before /\ worker' \in Before /\ worker' \notin Copying \cup {"start"}
  BY <1>1 DEF Before, Copying
<1> HIDE DEF Bytes, Coming
<1> QED BY <1>1, <1>2, <1>3 DEF ChunkInv

LEMMA SourceChunkInv == TypeOK /\ PlaceInv /\ ChunkInv /\ SourceWrites => ChunkInv'
<1> SUFFICES ASSUME TypeOK, PlaceInv, ChunkInv, SourceWrites PROVE ChunkInv'
  OBVIOUS
<1>1. /\ source = "run" /\ sent' = sent + 1 /\ pipe' = pipe \o Halves(sent + 1)
      /\ UNCHANGED <<held, decoded, worker, backend>>
  BY DEF SourceWrites, workerVars, runVars
<1>2. backend = "direct" /\ worker = "off"
  BY <1>1 DEF TypeOK, PlaceInv
<1>3. sent \in Nat /\ sent + 1 \in Chunk /\ pipe \in Seq(Chunk) /\ held \in Seq(Chunk)
      /\ decoded \in Seq(Chunk)
  BY DEF TypeOK, Chunk
<1>4. Len(pipe') = Len(pipe) + 2
  <2> DEFINE block == Halves(sent + 1)
  <2>1. block \in Seq(Chunk) /\ Len(block) = 2
    BY <1>3, HalvesType
  <2>2. pipe' = pipe \o block
    BY <1>1
  <2>3. pipe \in Seq(Chunk)
    BY <1>3
  <2> HIDE DEF block
  <2>4. Len(pipe \o block) = Len(pipe) + Len(block)
    BY <2>1, <2>3, ConcatProperties
  <2> QED BY <2>1, <2>2, <2>4
<1>5. Bytes' = Bytes + 2 /\ Bytes \in Nat
  BY <1>1, <1>3, <1>4 DEF Bytes
<1>6. Bytes = 2 * sent
  BY <1>2 DEF ChunkInv
<1>7. Bytes' = 2 * sent'
  BY <1>1, <1>3, <1>5, <1>6
<1>8. worker' \notin Copying \cup {"start"} /\ backend' # "core"
  BY <1>1, <1>2 DEF Copying
<1> HIDE DEF Bytes, Coming
<1> QED BY <1>7, <1>8 DEF ChunkInv

LEMMA InitChunkInv == Init => ChunkInv
<1> SUFFICES ASSUME Init PROVE ChunkInv
  OBVIOUS
<1>1. sent = 0 /\ Bytes = 0 /\ events = << >> /\ worker = "off" /\ stopped = FALSE
  BY DEF Init, CaptureInit, Bytes
<1>2. Coming(events, 0, 0)
  BY <1>1 DEF Coming
<1>3. worker \notin Copying \cup {"start"}
  BY <1>1 DEF Copying
<1> QED BY <1>1, <1>2, <1>3 DEF ChunkInv

LEMMA StepChunkInv ==
  TypeOK /\ PlaceInv /\ StopInv /\ ChunkInv /\ [Next]_vars => ChunkInv'
<1> SUFFICES ASSUME TypeOK, PlaceInv, StopInv, ChunkInv, [Next]_vars PROVE ChunkInv'
  OBVIOUS
<1>1. Still \/ Moves
  BY Steps DEF TypeOK, PlaceInv
<1>2. CASE Still \/ LaunchDirect
  <2>1. /\ UNCHANGED <<sent, events, worker, early, writing, stopped, raised, backend>>
        /\ UNCHANGED <<pipe, held, decoded>>
    BY <1>2 DEF Still, LaunchDirect, coreVars, wireVars, workerVars, Quiet
  <2>2. Bytes' = Bytes
    BY <2>1 DEF Bytes
  <2> QED BY <2>1, <2>2, SameChunkInv
<1>3. CASE StreamStep
  BY <1>3, StreamEffect, SameChunkInv DEF Beside
<1>4. CASE CoreStep
  <2>1. Core /\ Aside
    BY <1>4 DEF CoreStep, Core, Aside, workerVars, parentVars, streamVars, runVars
  <2> QED BY <2>1, CoreChunkInv
<1>5. CASE Join \/ ParentExits \/ (Breaks /\ WorkerDies)
  <2>1. UNCHANGED <<sent, pipe, held, decoded, backend>>
    BY <1>5 DEF Join, ParentExits, Breaks, WorkerDies, coreVars, streamVars, runVars, Quiet
  <2>2. CASE Killed
    BY <2>1, <2>2, KilledChunkInv
  <2>3. CASE ~Killed
    <3>1. UNCHANGED <<events, worker, early, writing, stopped, raised>>
      BY <1>5, <2>3 DEF Join, ParentExits, WorkerDies, wireVars, workerVars
    <3>2. Bytes' = Bytes
      BY <2>1 DEF Bytes
    <3> QED BY <2>1, <3>1, <3>2, SameChunkInv
  <2> QED BY <2>2, <2>3
<1>6. CASE Breaks /\ CoreRestarts
  <2>1. /\ UNCHANGED <<sent, events, worker, early, writing, stopped, raised, backend>>
        /\ UNCHANGED <<pipe, held, decoded>>
    BY <1>6 DEF Breaks, CoreRestarts, workerVars, streamVars, runVars
  <2>2. Bytes' = Bytes
    BY <2>1 DEF Bytes
  <2> QED BY <2>1, <2>2, SameChunkInv
<1>7. CASE SpawnWorker \/ SourceWrites \/ WorkerStep
  BY <1>7, SpawnChunkInv, SourceChunkInv, WorkerChunkInv
<1> QED BY <1>1, <1>2, <1>3, <1>4, <1>5, <1>6, <1>7 DEF Moves

\* Between Core and the worker no packet data is lost, repeated or reordered
\* while a capture is copied, and a stop that ends in good order comes after
\* the last of it.
THEOREM ChunksArrive == Spec => []ChunkInv
BY TypeCorrect, AskedOnce, InitChunkInv, StepChunkInv, PTL DEF Spec

-----------------------------------------------------------------------------
(* The bytes, from the worker to the decoder and the exporter.             *)

\* A step that moves none of them.
LEMMA SameByteInv ==
  ASSUME ByteInv, UNCHANGED <<decoded, held, pipe>>, writing' = writing \/ writing' = << >>
  PROVE  ByteInv'
BY DEF ByteInv, Bytes

\* A queue from which the first is taken, and one to which it is added.
LEMMA Handed ==
  ASSUME NEW p \in Seq(Chunk), NEW q \in Seq(Chunk), q # << >>
  PROVE  /\ Head(q) = q[1] /\ 1 \in DOMAIN q
         /\ Len(Append(p, q[1])) = Len(p) + 1 /\ Len(Tail(q)) = Len(q) - 1
         /\ Len(p) \in Nat /\ Len(q) \in Nat \ {0}
         /\ DOMAIN p = 1 .. Len(p) /\ DOMAIN q = 1 .. Len(q)
         /\ \A k \in DOMAIN Append(p, q[1]) :
              (k \in DOMAIN p /\ Append(p, q[1])[k] = p[k])
              \/ (k = Len(p) + 1 /\ Append(p, q[1])[k] = q[1])
         /\ \A k \in DOMAIN Tail(q) : k \in Nat /\ k + 1 \in DOMAIN q /\ Tail(q)[k] = q[k + 1]
OBVIOUS

LEMMA WritesByteInv == TypeOK /\ ByteInv /\ WorkerWrites => ByteInv'
<1> SUFFICES ASSUME TypeOK, ByteInv, WorkerWrites PROVE ByteInv'
  OBVIOUS
<1>1. /\ pipe \in Seq(Chunk) /\ writing \in Seq(Chunk) /\ writing # << >>
      /\ Len(decoded) \in Nat /\ Len(held) \in Nat
  BY DEF TypeOK, WorkerWrites
<1>2. /\ pipe' = Append(pipe, writing[1]) /\ writing' = Tail(writing)
      /\ UNCHANGED <<decoded, held>>
  BY <1>1, Handed DEF WorkerWrites
<1>3. writing[1] = Bytes + 1 /\ Bytes' = Bytes + 1 /\ Bytes \in Nat
  BY <1>1, <1>2, Handed DEF ByteInv, Bytes
<1>4. ASSUME NEW k \in DOMAIN pipe' PROVE pipe'[k] = Len(decoded) + Len(held) + k
  <2>1. \/ k \in DOMAIN pipe /\ pipe'[k] = pipe[k]
        \/ k = Len(pipe) + 1 /\ pipe'[k] = writing[1]
    BY <1>1, <1>2, Handed
  <2>2. Len(pipe) \in Nat
    BY <1>1, Handed
  <2>3. Bytes = Len(decoded) + Len(held) + Len(pipe)
    BY DEF Bytes
  <2> QED BY <1>1, <1>3, <2>1, <2>2, <2>3 DEF ByteInv
<1>5. \A k \in DOMAIN writing' : writing'[k] = Bytes + 1 + k
  BY <1>1, <1>2, <1>3, Handed, SMTT(30) DEF ByteInv
<1> QED BY <1>2, <1>3, <1>4, <1>5 DEF ByteInv

LEMMA SourceByteInv == TypeOK /\ PlaceInv /\ ChunkInv /\ ByteInv /\ SourceWrites => ByteInv'
<1> SUFFICES ASSUME TypeOK, PlaceInv, ChunkInv, ByteInv, SourceWrites PROVE ByteInv'
  OBVIOUS
<1> DEFINE block == Halves(sent + 1)
<1>1. /\ source = "run" /\ pipe' = pipe \o block /\ UNCHANGED <<held, decoded, writing>>
  BY DEF SourceWrites, workerVars
<1>2. backend = "direct" /\ worker = "off"
  BY <1>1 DEF TypeOK, PlaceInv
<1>3. sent \in Nat /\ sent + 1 \in Chunk /\ pipe \in Seq(Chunk) /\ Len(pipe) \in Nat
      /\ Len(decoded) \in Nat /\ Len(held) \in Nat
  BY DEF TypeOK, Chunk
<1>4. Bytes = 2 * sent /\ writing = << >>
  BY <1>2 DEF ChunkInv, PlaceInv, Copying
<1>5. block \in Seq(Chunk) /\ Len(block) = 2
      /\ block[1] = 2 * (sent + 1) - 1 /\ block[2] = 2 * (sent + 1)
  BY <1>3, HalvesType
<1> HIDE DEF block
<1>6. /\ Len(pipe') = Len(pipe) + 2 /\ pipe' \in Seq(Chunk)
      /\ \A k \in 1 .. Len(pipe) + 2 :
           pipe'[k] = IF k <= Len(pipe) THEN pipe[k] ELSE block[k - Len(pipe)]
  <2>1. pipe \in Seq(Chunk) /\ block \in Seq(Chunk)
    BY <1>3, <1>5
  <2>2. /\ Len(pipe \o block) = Len(pipe) + Len(block) /\ pipe \o block \in Seq(Chunk)
        /\ \A k \in 1 .. Len(pipe) + Len(block) :
             (pipe \o block)[k] = IF k <= Len(pipe) THEN pipe[k] ELSE block[k - Len(pipe)]
    BY <2>1, ConcatProperties
  <2> QED BY <1>1, <1>5, <2>2
<1>7. ASSUME NEW k \in DOMAIN pipe' PROVE pipe'[k] = Len(decoded) + Len(held) + k
  <2>1. k \in 1 .. Len(pipe) + 2
    BY <1>6, <1>7
  <2>2. CASE k <= Len(pipe)
    BY <1>3, <1>6, <2>1, <2>2 DEF ByteInv
  <2>3. Len(decoded) + Len(held) + Len(pipe) = 2 * sent
    BY <1>4 DEF Bytes
  <2>4. CASE k = Len(pipe) + 1
    <3>1. pipe'[k] = block[1]
      BY <1>3, <1>6, <2>1, <2>4
    <3>2. block[1] = 2 * sent + 1
      BY <1>3, <1>5
    <3>3. Len(decoded) + Len(held) + k = 2 * sent + 1
      BY <1>3, <2>3, <2>4
    <3> QED BY <3>1, <3>2, <3>3
  <2>5. CASE k = Len(pipe) + 2
    <3>1. pipe'[k] = block[2]
      BY <1>3, <1>6, <2>1, <2>5
    <3>2. block[2] = 2 * sent + 2
      BY <1>3, <1>5
    <3>3. Len(decoded) + Len(held) + k = 2 * sent + 2
      BY <1>3, <2>3, <2>5
    <3> QED BY <3>1, <3>2, <3>3
  <2> QED BY <1>3, <2>1, <2>2, <2>4, <2>5
<1> QED BY <1>1, <1>4, <1>7 DEF ByteInv

LEMMA CopiesByteInv ==
  TypeOK /\ PlaceInv /\ ChunkInv /\ ByteInv /\ Apart /\ (WorkerHears \/ WorkerReceives)
  => ByteInv'
<1> SUFFICES ASSUME TypeOK, PlaceInv, ChunkInv, ByteInv, Apart, WorkerHears \/ WorkerReceives
             PROVE  ByteInv'
  OBVIOUS
<1>1. UNCHANGED <<decoded, held, pipe>> /\ Bytes' = Bytes /\ Bytes \in Nat
  BY DEF Apart, Bytes, TypeOK
<1>2. CASE writing' = writing \/ writing' = << >>
  BY <1>1, <1>2, SameByteInv
<1>3. CASE worker = "start" /\ writing' = EarlyBytes
  <2>1. Bytes = 0 /\ early \in Seq(Chunk) /\ \A k \in DOMAIN early : early[k] = k
    BY <1>3 DEF ChunkInv, TypeOK
  <2>2. ASSUME NEW h \in 1 .. 2 * Len(early) PROVE EarlyBytes[h] = h
    <3>1. (h + 1) \div 2 \in 1 .. Len(early) /\ h \in Nat
      BY <2>1
    <3>2. early[(h + 1) \div 2] = (h + 1) \div 2
      BY <2>1, <3>1
    <3>3. 2 * ((h + 1) \div 2) - (h % 2) = h
      BY <3>1
    <3> QED BY <3>2, <3>3 DEF EarlyBytes
  <2>3. DOMAIN EarlyBytes = 1 .. 2 * Len(early)
    BY DEF EarlyBytes
  <2>4. \A k \in DOMAIN writing' : writing'[k] = Bytes' + k
    BY <1>1, <1>3, <2>1, <2>2, <2>3
  <2> QED BY <1>1, <2>4 DEF ByteInv
<1>4. CASE WorkerReceives /\ Head(events).code = "data" /\ writing' = Halves(Head(events).chunk)
  <2>1. worker \in Copying /\ writing = << >> /\ events # << >> /\ events \in Seq(Message)
        /\ sent \in Nat
    BY <1>4 DEF WorkerReceives, Receiving, Copying, TypeOK
  <2>2. PICK b \in Nat : Copied = 2 * b /\ Coming(events, b, sent)
    BY <2>1 DEF ChunkInv
  <2>3. Bytes = 2 * b
    BY <1>1, <2>1, <2>2 DEF Copied
  <2>4. Head(events).chunk = b + 1
    BY <1>4, <2>1, <2>2, TailComing
  <2>5. b + 1 \in Chunk /\ writing' = Halves(b + 1)
    BY <1>4, <2>4 DEF Chunk
  <2>6. /\ writing' \in Seq(Chunk) /\ Len(writing') = 2
        /\ writing'[1] = 2 * (b + 1) - 1 /\ writing'[2] = 2 * (b + 1)
    BY <2>5, HalvesType
  <2>7. \A k \in DOMAIN writing' : writing'[k] = Bytes' + k
    BY <1>1, <2>3, <2>6
  <2> QED BY <1>1, <2>7 DEF ByteInv
<1>5. CASE WorkerHears
  <2>1. Following[worker] = "streaming" => worker = "start"
    BY <1>5, Successors DEF WorkerHears, Waiting
  <2> QED BY <1>2, <1>3, <1>5, <2>1 DEF WorkerHears, Accepted, Raise
<1>6. CASE WorkerReceives
  BY <1>2, <1>4, <1>6 DEF WorkerReceives, Raise
<1> QED BY <1>5, <1>6

LEMMA StreamByteInv == TypeOK /\ ByteInv /\ FanInv /\ StreamStep => ByteInv'
<1> SUFFICES ASSUME TypeOK, ByteInv, FanInv, StreamStep PROVE ByteInv'
  OBVIOUS
<1>1. /\ pipe \in Seq(Chunk) /\ held \in Seq(Chunk) /\ decoded \in Seq(Chunk)
      /\ Len(pipe) \in Nat /\ Len(held) \in Nat /\ Len(decoded) \in Nat
  BY DEF TypeOK
<1>2. Bytes' = Bytes /\ writing' = writing
  BY StreamEffect
<1>3. \A k \in DOMAIN writing' : writing'[k] = Bytes' + k
  BY <1>2 DEF ByteInv
<1>4. CASE FanoutReads
  <2>1. UNCHANGED decoded
    BY <1>4 DEF FanoutReads
  <2>2. /\ held' \in Seq(Chunk) /\ pipe' \in Seq(Chunk)
        /\ held = << >> /\ Len(held') = 2 /\ Len(pipe') = Len(pipe) - 2 /\ Len(pipe) >= 2
        /\ \A k \in 1 .. 2 : held'[k] = pipe[k]
        /\ \A k \in 1 .. Len(pipe) - 2 : pipe'[k] = pipe[k + 2]
    BY <1>4, ReadsEffect
  <2>3. \A k \in 1 .. Len(pipe) : pipe[k] = Len(decoded) + k
    <3>1. Len(held) = 0 /\ DOMAIN pipe = 1 .. Len(pipe)
      BY <1>1, <2>2
    <3> QED BY <1>1, <3>1 DEF ByteInv
  <2>4. \A k \in DOMAIN held' : held'[k] = Len(decoded') + k
    BY <1>1, <2>1, <2>2, <2>3
  <2>5. \A k \in DOMAIN pipe' : pipe'[k] = Len(decoded') + Len(held') + k
    <3> SUFFICES ASSUME NEW k \in DOMAIN pipe' PROVE pipe'[k] = Len(decoded') + Len(held') + k
      OBVIOUS
    <3>1. k \in 1 .. Len(pipe) - 2
      BY <2>2
    <3>2. pipe'[k] = pipe[k + 2] /\ k + 2 \in 1 .. Len(pipe)
      BY <1>1, <2>2, <3>1
    <3>3. pipe[k + 2] = Len(decoded) + (k + 2)
      BY <2>3, <3>2
    <3> QED BY <1>1, <2>1, <2>2, <3>1, <3>2, <3>3
  <2> QED BY <1>3, <2>1, <2>4, <2>5 DEF ByteInv
<1>5. CASE FanoutWrites
  <2>1. /\ held # << >> /\ UNCHANGED pipe
        /\ decoded' = Append(decoded, held[1]) /\ held' = Tail(held)
    BY <1>1, <1>5, Handed DEF FanoutWrites
  <2>2. Len(decoded') = Len(decoded) + 1 /\ Len(held') = Len(held) - 1
    BY <1>1, <2>1, Handed
  <2>3. held[1] = Len(decoded) + 1
    BY <1>1, <2>1, Handed DEF ByteInv
  <2>4. \A k \in DOMAIN decoded' : decoded'[k] = k
    BY <1>1, <2>1, <2>3, Handed DEF ByteInv
  <2>5. \A k \in DOMAIN held' : held'[k] = Len(decoded) + 1 + k
    <3> SUFFICES ASSUME NEW k \in DOMAIN held' PROVE held'[k] = Len(decoded) + 1 + k
      OBVIOUS
    <3>1. k \in Nat /\ k + 1 \in DOMAIN held /\ held'[k] = held[k + 1]
      BY <1>1, <2>1, Handed
    <3> QED BY <1>1, <3>1 DEF ByteInv
  <2>6. \A k \in DOMAIN pipe' : pipe'[k] = Len(decoded') + Len(held') + k
    BY <1>1, <2>1, <2>2 DEF ByteInv
  <2> QED BY <1>3, <2>2, <2>4, <2>5, <2>6 DEF ByteInv
<1>6. CASE FanoutEnds(SourceEnded)
  <2>1. UNCHANGED <<pipe, held, decoded>>
    BY <1>6 DEF FanoutEnds
  <2> QED BY <1>2, <2>1, SameByteInv
<1>7. CASE DecoderReads
  <2>1. /\ pipe # << >> /\ UNCHANGED held
        /\ decoded' = Append(decoded, pipe[1]) /\ pipe' = Tail(pipe)
    BY <1>1, <1>7, Handed DEF DecoderReads
  <2>2. held = << >> /\ Len(held) = 0
    BY <1>7 DEF DecoderReads, FanInv
  <2>3. pipe[1] = Len(decoded) + 1 /\ Len(decoded') = Len(decoded) + 1
    BY <1>1, <2>1, <2>2, Handed DEF ByteInv
  <2>4. \A k \in DOMAIN decoded' : decoded'[k] = k
    BY <1>1, <2>1, <2>3, Handed DEF ByteInv
  <2>5. \A k \in DOMAIN pipe' : pipe'[k] = Len(decoded') + Len(held') + k
    <3> SUFFICES ASSUME NEW k \in DOMAIN pipe' PROVE pipe'[k] = Len(decoded') + Len(held') + k
      OBVIOUS
    <3>1. k \in Nat /\ k + 1 \in DOMAIN pipe /\ pipe'[k] = pipe[k + 1]
      BY <1>1, <2>1, Handed
    <3>2. pipe[k + 1] = Len(decoded) + Len(held) + (k + 1)
      BY <3>1 DEF ByteInv
    <3> QED BY <1>1, <2>1, <2>2, <2>3, <3>1, <3>2
  <2>6. \A k \in DOMAIN held' : held'[k] = Len(decoded') + k
    BY <2>1, <2>2
  <2> QED BY <1>3, <2>4, <2>5, <2>6 DEF ByteInv
<1> QED BY <1>4, <1>5, <1>6, <1>7 DEF StreamStep

\* Blocks are counted in halves.
LEMMA Halving ==
  \A d \in Nat : /\ (d + 1) % 2 = 0 => (d + 1) \div 2 = d \div 2 + 1
                 /\ (d + 2) % 2 = 0 => (d + 1) \div 2 = d \div 2
OBVIOUS

LEMMA StreamFanInv == TypeOK /\ ByteInv /\ FanInv /\ StreamStep => FanInv'
<1> SUFFICES ASSUME TypeOK, ByteInv, FanInv, StreamStep PROVE FanInv'
  OBVIOUS
<1>1. /\ pipe \in Seq(Chunk) /\ held \in Seq(Chunk) /\ decoded \in Seq(Chunk)
      /\ offered \in Seq(Nat)
      /\ Len(held) \in Nat /\ Len(decoded) \in Nat /\ Len(offered) \in Nat
  BY DEF TypeOK
<1>2. CASE FanoutReads
  <2>1. UNCHANGED <<decoded, offered, fanout>> /\ fanout = "run" /\ held = << >>
        /\ Len(held') = 2
    BY <1>2, ReadsEffect DEF FanoutReads
  <2>2. Len(offered) = Len(decoded) \div 2 /\ (Len(decoded) + Len(held)) % 2 = 0
        /\ Len(held) = 0
    BY <2>1 DEF FanInv
  <2>3. (Len(decoded) + 2) % 2 = 0
    BY <1>1, <2>2
  <2>4. \A k \in DOMAIN offered : offered[k] = k
    BY DEF FanInv
  <2> QED BY <2>1, <2>2, <2>3, <2>4 DEF FanInv
<1>3. CASE FanoutWrites
  <2>1. /\ held # << >> /\ fanout = "run" /\ UNCHANGED fanout
        /\ decoded' = Append(decoded, held[1]) /\ held' = Tail(held)
        /\ offered' = IF Len(held) = 1 THEN Append(offered, held[1] \div 2) ELSE offered
    BY <1>1, <1>3, Handed DEF FanoutWrites
  <2>2. /\ Len(decoded') = Len(decoded) + 1 /\ Len(held') = Len(held) - 1
        /\ held[1] = Len(decoded) + 1
    BY <1>1, <2>1, Handed DEF ByteInv
  <2>3. /\ \A k \in DOMAIN offered : offered[k] = k
        /\ Len(offered) = Len(decoded) \div 2 /\ Len(held) \in {1, 2}
        /\ (Len(decoded) + Len(held)) % 2 = 0
    BY <1>1, <2>1, Handed DEF FanInv
  <2>4. (Len(decoded') + Len(held')) % 2 = 0 /\ Len(held') \in 0 .. 2
    BY <1>1, <2>2, <2>3
  <2>5. CASE Len(held) = 1
    <3>1. held[1] \div 2 = Len(offered) + 1
      BY <1>1, <2>2, <2>3, <2>5, Halving
    <3>2. offered' = Append(offered, Len(offered) + 1)
      BY <2>1, <2>5, <3>1
    <3>3. Len(offered') = Len(offered) + 1 /\ \A k \in DOMAIN offered' : offered'[k] = k
      BY <1>1, <2>3, <3>2
    <3>4. Len(offered') = Len(decoded') \div 2
      BY <1>1, <2>2, <2>3, <2>5, <3>3, Halving
    <3> QED BY <2>1, <2>4, <3>3, <3>4 DEF FanInv
  <2>6. CASE Len(held) = 2
    <3>1. offered' = offered
      BY <2>1, <2>6
    <3>2. Len(offered) = Len(decoded') \div 2
      BY <1>1, <2>2, <2>3, <2>6, Halving
    <3> QED BY <2>1, <2>3, <2>4, <3>1, <3>2 DEF FanInv
  <2> QED BY <2>3, <2>5, <2>6
<1>4. CASE FanoutEnds(SourceEnded)
  <2>1. fanout = "run" /\ fanout' = "done" /\ UNCHANGED <<held, decoded, offered>>
    BY <1>4 DEF FanoutEnds
  <2> QED BY <2>1 DEF FanInv
<1>5. CASE DecoderReads
  <2>1. fanout = "off" /\ UNCHANGED <<fanout, held, offered>>
    BY <1>5 DEF DecoderReads
  <2> QED BY <2>1 DEF FanInv
<1> QED BY <1>2, <1>3, <1>4, <1>5 DEF StreamStep

LEMMA SpawnFanInv ==
  TypeOK /\ PlaceInv /\ FanInv /\ (SpawnWorker \/ LaunchDirect) => FanInv'
<1> SUFFICES ASSUME TypeOK, PlaceInv, FanInv, SpawnWorker \/ LaunchDirect PROVE FanInv'
  OBVIOUS
<1>1. UNCHANGED <<held, decoded, offered>> /\ fanout' \in {"run", "off", fanout}
  BY DEF SpawnWorker, LaunchDirect, streamVars
<1>2. worker = "off" /\ source = "off"
  BY DEF SpawnWorker, LaunchDirect, PlaceInv
<1>3. fanout = "off" /\ Bytes = 0
  BY <1>2 DEF PlaceInv
<1>4. held = << >> /\ offered = << >> /\ Len(held) = 0 /\ Len(offered) = 0
  BY <1>3 DEF FanInv
<1>5. Len(decoded) = 0
  BY <1>3, <1>4 DEF Bytes, TypeOK
<1> QED BY <1>1, <1>3, <1>4, <1>5 DEF FanInv

LEMMA SameFanInv ==
  ASSUME FanInv, UNCHANGED <<held, decoded, offered>>, fanout' = "off" <=> fanout = "off"
  PROVE  FanInv'
BY DEF FanInv

LEMMA InitByteInv == Init => ByteInv /\ FanInv
BY DEF Init, CaptureInit, ByteInv, FanInv

LEMMA StepByteInv ==
  TypeOK /\ PlaceInv /\ ChunkInv /\ ByteInv /\ FanInv /\ [Next]_vars => ByteInv' /\ FanInv'
<1> SUFFICES ASSUME TypeOK, PlaceInv, ChunkInv, ByteInv, FanInv, [Next]_vars
             PROVE  ByteInv' /\ FanInv'
  OBVIOUS
<1>1. Still \/ Moves
  BY Steps DEF TypeOK, PlaceInv
<1>2. CASE StreamStep
  BY <1>2, StreamByteInv, StreamFanInv
<1>3. CASE SpawnWorker \/ LaunchDirect
  <2>1. UNCHANGED <<decoded, held, pipe, writing>>
    BY <1>3 DEF SpawnWorker, LaunchDirect, workerVars
  <2> QED BY <1>3, <2>1, SpawnFanInv, SameByteInv
<1>4. CASE SourceWrites
  <2>1. UNCHANGED <<held, decoded, offered, fanout>>
    BY <1>4 DEF SourceWrites
  <2> QED BY <1>4, <2>1, SourceByteInv, SameFanInv
<1>5. CASE WorkerStep
  <2>1. UNCHANGED <<held, decoded, offered, fanout>>
    BY <1>5 DEF WorkerStep, Worker, WorkerWrites, streamVars
  <2>2. FanInv'
    BY <2>1, SameFanInv
  <2>3. CASE WorkerWrites
    BY <2>2, <2>3, WritesByteInv
  <2>4. CASE ~WorkerWrites /\ (WorkerHears \/ WorkerReceives)
    <3>1. Apart
      BY <1>5, <2>4 DEF WorkerStep, Worker, Apart, coreVars, streamVars, runVars
    <3> QED BY <2>2, <2>4, <3>1, CopiesByteInv
  <2>5. CASE ~WorkerWrites /\ ~WorkerHears /\ ~WorkerReceives
    <3>1. UNCHANGED <<decoded, held, pipe>>
      BY <1>5, <2>5 DEF WorkerStep, Worker, streamVars
    <3>2. writing' = writing \/ writing' = << >>
      BY <1>5, <2>5 DEF WorkerStep, Worker, WorkerConnects, WorkerGivesUp, WriteFails,
         WorkerConfirms, WorkerExits, Exits, WorkerStarts, WorkerStops, Raise
    <3> QED BY <2>2, <3>1, <3>2, SameByteInv
  <2> QED BY <2>3, <2>4, <2>5
<1>6. CASE \/ Still \/ Join \/ ParentExits \/ CoreStep
           \/ (Breaks /\ WorkerDies) \/ (Breaks /\ CoreRestarts)
  <2>1. UNCHANGED <<decoded, held, pipe, offered>>
    BY <1>6 DEF Still, Join, ParentExits, CoreStep, Core, Breaks, WorkerDies, CoreRestarts,
       streamVars
  <2>2. fanout' = "off" <=> fanout = "off"
    BY <1>6 DEF Still, Join, ParentExits, CoreStep, Core, Breaks, WorkerDies, CoreRestarts,
       streamVars
  <2>3. writing' = writing \/ writing' = << >>
    BY <1>6 DEF Still, Join, ParentExits, CoreStep, Core, Breaks, WorkerDies, CoreRestarts,
       Killed, Exits, workerVars
  <2> QED BY <2>1, <2>2, <2>3, SameByteInv, SameFanInv
<1> QED BY <1>1, <1>2, <1>3, <1>4, <1>5, <1>6 DEF Moves

\* The decoder and the exporter get the bytes of the capture in order, without
\* a gap, and only whole blocks; a capture that is stopped in good order has
\* delivered everything Core sent before the stop (run_owner's receive,
\* forward_packets), whatever the size of the pipe and of the messages' queue,
\* and whoever dies, stalls or is interrupted.
THEOREM StreamIsKept == Spec => []StreamKept
<1>1. TypeOK /\ PlaceInv /\ ChunkInv /\ ByteInv /\ FanInv => StreamKept
  <2> SUFFICES ASSUME TypeOK, PlaceInv, ChunkInv, ByteInv, FanInv PROVE StreamKept
    OBVIOUS
  <2> DEFINE first == decoded \o held
             bytes == first \o pipe
  <2>1. /\ pipe \in Seq(Chunk) /\ held \in Seq(Chunk) /\ decoded \in Seq(Chunk)
        /\ Len(pipe) \in Nat /\ Len(held) \in Nat /\ Len(decoded) \in Nat
    BY DEF TypeOK
  <2>2. /\ first \in Seq(Chunk) /\ Len(first) = Len(decoded) + Len(held)
        /\ \A k \in 1 .. Len(decoded) + Len(held) :
             first[k] = IF k <= Len(decoded) THEN decoded[k] ELSE held[k - Len(decoded)]
    BY <2>1, ConcatProperties
  <2>3. \A k \in 1 .. Len(first) : first[k] = k
    BY <2>1, <2>2 DEF ByteInv
  <2> HIDE DEF first
  <2>4. /\ bytes \in Seq(Chunk) /\ Len(bytes) = Len(first) + Len(pipe)
        /\ \A k \in 1 .. Len(first) + Len(pipe) :
             bytes[k] = IF k <= Len(first) THEN first[k] ELSE pipe[k - Len(first)]
    <3>1. first \in Seq(Chunk) /\ pipe \in Seq(Chunk)
      BY <2>1, <2>2
    <3> QED BY <3>1, ConcatProperties
  <2>5. \A k \in 1 .. Len(bytes) : bytes[k] = k
    BY <2>1, <2>2, <2>3, <2>4 DEF ByteInv
  <2>6. Len(bytes) = Bytes
    BY <2>1, <2>2, <2>4 DEF Bytes
  <2> HIDE DEF bytes
  <2>7. bytes = [k \in 1 .. Len(bytes) |-> k]
    BY <2>4, <2>5
  <2>8. offered = [k \in 1 .. Len(offered) |-> k]
    BY DEF TypeOK, FanInv
  <2>9. 2 * Len(offered) <= Len(decoded)
    BY <2>1 DEF FanInv, TypeOK
  <2>10. backend = "core" /\ stopped /\ ~raised => Len(bytes) = 2 * sent
    BY <2>6 DEF ChunkInv
  <2> QED BY <2>7, <2>8, <2>9, <2>10 DEF StreamKept, bytes, first
<1> QED BY <1>1, TypeCorrect, ChunksArrive, InitByteInv, StepByteInv, PTL DEF Spec

-----------------------------------------------------------------------------
(* Commands on an interface.                                               *)

RadioCommand == {"down", "up", "monitor", "managed", "home", "capture"}

\* What outcomes there are: states of the interface with that identity.
Left(outcomes, id) ==
  \A o \in outcomes : o.state \in InterfaceState /\ o.state.id = id /\ o.ok \in BOOLEAN

\* A command leaves a state of the same interface.
LEMMA AppliedType ==
  ASSUME NEW s \in InterfaceState, NEW command \in RadioCommand
  PROVE  Applied(s, command) \in InterfaceState /\ Applied(s, command).id = s.id
<1>1. /\ Down(s) \in InterfaceState /\ Down(s).id = s.id
      /\ Up(s) \in InterfaceState /\ Up(s).id = s.id
  BY DEF InterfaceState, Down, Up
<1>2. ASSUME NEW mode \in {"monitor", "managed"}
      PROVE  Typed(s, mode) \in InterfaceState /\ Typed(s, mode).id = s.id
  BY DEF InterfaceState, Typed
<1>3. ASSUME NEW channel \in {"home", "capture"}
      PROVE  Tuned(s, channel) \in InterfaceState /\ Tuned(s, channel).id = s.id
  BY DEF InterfaceState, Tuned
<1> QED BY <1>1, <1>2, <1>3 DEF Applied, RadioCommand

\* Before any command.
LEMMA UntouchedLeft ==
  ASSUME NEW s \in InterfaceState
  PROVE  /\ Left(Untouched(s), s.id)
         /\ \A o \in Untouched(s) : o.state = s
<1>1. \A o \in Untouched(s) : o = [state |-> s, ok |-> TRUE]
  BY DEF Untouched
<1>2. \A o \in Untouched(s) : o.state = s /\ o.ok = TRUE
  BY <1>1
<1> QED BY <1>2 DEF Left

\* One command more.
LEMMA AfterLeft ==
  ASSUME NEW outcomes, NEW id, Left(outcomes, id), NEW command \in RadioCommand
  PROVE  /\ Left(After(outcomes, command), id)
         /\ \A o \in After(outcomes, command) : o.ok =>
              \E p \in outcomes : p.ok /\ o.state = Applied(p.state, command)
<1> DEFINE Endings(p) == {[state |-> Applied(p.state, command), ok |-> TRUE],
                        [state |-> Applied(p.state, command), ok |-> FALSE],
                        [state |-> p.state, ok |-> FALSE]}
           Done == {p \in outcomes : p.ok}
<1>1. After(outcomes, command) = {o \in outcomes : ~o.ok} \cup UNION {Endings(p) : p \in Done}
  BY DEF After
<1> HIDE DEF Endings
<1>2. ASSUME NEW o \in After(outcomes, command)
      PROVE  (o \in outcomes /\ ~o.ok) \/ \E p \in Done : o \in Endings(p)
  BY <1>1, Zenon
<1>3. ASSUME NEW o \in After(outcomes, command)
      PROVE  /\ o.state \in InterfaceState /\ o.state.id = id /\ o.ok \in BOOLEAN
             /\ o.ok => \E p \in outcomes : p.ok /\ o.state = Applied(p.state, command)
  <2>1. CASE o \in outcomes /\ ~o.ok
    BY <2>1 DEF Left
  <2>2. ASSUME NEW p \in Done, o \in Endings(p)
        PROVE  /\ o.state \in InterfaceState /\ o.state.id = id /\ o.ok \in BOOLEAN
               /\ o.ok => p.ok /\ o.state = Applied(p.state, command)
    <3>1. p.ok /\ p.state \in InterfaceState /\ p.state.id = id
      BY DEF Left
    <3>2. Applied(p.state, command) \in InterfaceState /\ Applied(p.state, command).id = id
      BY <3>1, AppliedType
    <3>3. \/ o.state = Applied(p.state, command) /\ o.ok = TRUE
          \/ o.state = Applied(p.state, command) /\ o.ok = FALSE
          \/ o.state = p.state /\ o.ok = FALSE
      BY <2>2 DEF Endings
    <3> QED BY <3>1, <3>2, <3>3
  <2> QED BY <1>2, <2>1, <2>2
<1> QED BY <1>3 DEF Left

\* The command of a list that consists of it.
LEMMA AfterOne ==
  ASSUME NEW s \in InterfaceState, NEW command \in RadioCommand
  PROVE  /\ Left(After(Untouched(s), command), s.id)
         /\ \A o \in After(Untouched(s), command) : o.ok => o.state = Applied(s, command)
BY UntouchedLeft, AfterLeft

\* What the kernel is asked for last of a restored interface is what it gets.
LEMMA Commanding ==
  ASSUME NEW s \in InterfaceState
  PROVE  /\ Applied(s, "down") = Down(s) /\ Applied(s, "up") = Up(s)
         /\ \A mode \in {"monitor", "managed"} : Applied(s, mode) = Typed(s, mode)
         /\ \A channel \in {"home", "capture"} : Applied(s, channel) = Tuned(s, channel)
BY DEF Applied

\* What the commands of a restoration leave, all of them run or not.
LEMMA RestoreCommandsLeft ==
  ASSUME NEW now \in InterfaceState, NEW then \in InterfaceState
  PROVE  /\ Left(RestoreCommands(now, then), now.id)
         /\ \A o \in RestoreCommands(now, then) : o.ok =>
              /\ o.state.mode = then.mode
              /\ then.channel # "none" => o.state.up /\ o.state.channel = then.channel
<1> DEFINE downed == After(Untouched(now), "down")
           typed == IF now.mode = then.mode THEN Untouched(now) ELSE After(downed, then.mode)
<1>1. then.mode \in {"monitor", "managed"} /\ then.mode \in RadioCommand
      /\ then.channel \in {"none", "home", "capture"}
      /\ {"down", "up", "home", "capture"} \subseteq RadioCommand
      /\ (then.channel # "none" => then.mode = "monitor")
  BY DEF InterfaceState, RadioCommand
<1>2. Left(typed, now.id) /\ \A o \in typed : o.ok => o.state.mode = then.mode
  <2>1. CASE now.mode = then.mode
    BY <2>1, UntouchedLeft
  <2>2. CASE now.mode # then.mode
    <3>1. Left(downed, now.id) /\ \A o \in downed : o.ok => o.state = Down(now)
      BY <1>1, AfterOne, Commanding
    <3> HIDE DEF downed
    <3>2. /\ Left(After(downed, then.mode), now.id)
          /\ \A o \in After(downed, then.mode) : o.ok =>
               \E p \in downed : p.ok /\ o.state = Applied(p.state, then.mode)
      BY <1>1, <3>1, AfterLeft
    <3>3. Down(now) \in InterfaceState /\ ~Down(now).up
      BY DEF Down, InterfaceState
    <3>4. Applied(Down(now), then.mode).mode = then.mode
      BY <1>1, <3>3, Commanding DEF Typed, InterfaceState
    <3> QED BY <2>2, <3>1, <3>2, <3>4
  <2> QED BY <2>1, <2>2
<1> HIDE DEF typed
<1> DEFINE upped == After(typed, "up")
           tuned == After(upped, then.channel)
<1>3. ASSUME then.channel # "none"
      PROVE  Left(tuned, now.id) /\ \A o \in tuned : o.ok =>
               o.state.mode = "monitor" /\ o.state.up /\ o.state.channel = then.channel
  <2>1. /\ Left(upped, now.id)
        /\ \A o \in upped : o.ok => \E p \in typed : p.ok /\ o.state = Applied(p.state, "up")
    BY <1>1, <1>2, AfterLeft
  <2>2. \A o \in upped : o.ok => /\ o.state \in InterfaceState
                                 /\ o.state.mode = "monitor" /\ o.state.up
    <3> SUFFICES ASSUME NEW o \in upped, o.ok
                 PROVE  o.state \in InterfaceState /\ o.state.mode = "monitor" /\ o.state.up
      OBVIOUS
    <3> HIDE DEF upped
    <3>1. PICK p \in typed : p.ok /\ o.state = Applied(p.state, "up")
      BY <2>1
    <3>2. p.state \in InterfaceState /\ p.state.mode = "monitor"
      BY <1>1, <1>2, <1>3, <3>1 DEF Left
    <3>3. o.state = Up(p.state)
      BY <3>1, <3>2, Commanding
    <3> QED BY <3>2, <3>3 DEF Up, InterfaceState
  <2> HIDE DEF upped
  <2>3. /\ Left(tuned, now.id)
        /\ \A o \in tuned : o.ok =>
             \E p \in upped : p.ok /\ o.state = Applied(p.state, then.channel)
    BY <1>1, <1>3, <2>1, AfterLeft
  <2>4. \A o \in tuned : o.ok =>
          o.state.mode = "monitor" /\ o.state.up /\ o.state.channel = then.channel
    <3> SUFFICES ASSUME NEW o \in tuned, o.ok
                 PROVE  o.state.mode = "monitor" /\ o.state.up /\ o.state.channel = then.channel
      OBVIOUS
    <3> HIDE DEF tuned
    <3>1. PICK p \in upped : p.ok /\ o.state = Applied(p.state, then.channel)
      BY <2>3
    <3>2. p.state \in InterfaceState /\ p.state.mode = "monitor" /\ p.state.up
      BY <2>2, <3>1
    <3>3. o.state = Tuned(p.state, then.channel)
      BY <1>1, <1>3, <3>1, <3>2, Commanding
    <3> QED BY <3>2, <3>3 DEF Tuned, InterfaceState
  <2> QED BY <2>3, <2>4
<1>4. RestoreCommands(now, then) =
        IF then.mode = "monitor" /\ then.channel # "none" THEN tuned ELSE typed
  BY DEF RestoreCommands, typed
<1> HIDE DEF tuned
<1> QED BY <1>1, <1>2, <1>3, <1>4

\* What a restoration leaves: the interface, as it was found when every command succeeds.
LEMMA Restored ==
  ASSUME NEW now \in InterfaceState, NEW then \in InterfaceState,
         NEW o \in Restorations(now, then)
  PROVE  /\ o.state \in InterfaceState /\ o.state.id = now.id
         /\ o.ok => /\ o.state.mode = then.mode /\ o.state.up = then.up
                    /\ then.channel # "none" => o.state.channel = then.channel
<1> DEFINE Lasts(first) == {[state |-> last.state, ok |-> first.ok /\ last.ok] :
                              last \in After(Untouched(first.state), LastCommand(then))}
<1>1. o \in UNION {Lasts(first) : first \in RestoreCommands(now, then)}
  BY DEF Restorations
<1> HIDE DEF Lasts
<1>2. PICK first \in RestoreCommands(now, then) : o \in Lasts(first)
  BY <1>1, Zenon
<1>3. PICK last \in After(Untouched(first.state), LastCommand(then)) :
        o = [state |-> last.state, ok |-> first.ok /\ last.ok]
  BY <1>2 DEF Lasts
<1>4. o.state = last.state /\ (o.ok <=> first.ok /\ last.ok)
  BY <1>3
<1>5. first.state \in InterfaceState /\ first.state.id = now.id /\ first.ok \in BOOLEAN
  BY RestoreCommandsLeft DEF Left
<1>6. LastCommand(then) \in RadioCommand /\ LastCommand(then) = IF then.up THEN "up" ELSE "down"
  BY DEF LastCommand, RadioCommand
<1>7. /\ last.state \in InterfaceState /\ last.state.id = now.id
      /\ last.ok => last.state = Applied(first.state, LastCommand(then))
  BY <1>5, <1>6, AfterOne DEF Left
<1>8. ASSUME o.ok
      PROVE  /\ last.state.mode = then.mode /\ last.state.up = then.up
             /\ then.channel # "none" => last.state.channel = then.channel
  <2>1. /\ first.state.mode = then.mode
        /\ then.channel # "none" => first.state.up /\ first.state.channel = then.channel
    BY <1>4, <1>8, RestoreCommandsLeft
  <2>2. then.up \in BOOLEAN /\ (then.channel # "none" => then.up)
    BY DEF InterfaceState
  <2>3. last.state = IF then.up THEN Up(first.state) ELSE Down(first.state)
    BY <1>4, <1>5, <1>6, <1>7, <1>8, Commanding
  <2>4. CASE then.up
    BY <1>5, <2>1, <2>3, <2>4 DEF Up, InterfaceState
  <2>5. CASE ~then.up
    BY <1>5, <2>1, <2>2, <2>3, <2>5 DEF Down, InterfaceState
  <2> QED BY <2>4, <2>5
<1> QED BY <1>4, <1>7, <1>8

-----------------------------------------------------------------------------
(* The radio.                                                              *)

\* The interfaces are interfaces, and the snapshot was taken of these.
RadioOK ==
  /\ radio \in [Interface -> InterfaceState]
  /\ changed \in Seq(Interface)
  /\ states = << >> \/ states \in [Interface -> InterfaceState]
  /\ \A i \in Interface : states # << >> /\ states[i].id = 1 => radio[i].id = 1

\* A step that gives interface i another state, if any.
OnlyAt(i) ==
  /\ radio' \in [Interface -> InterfaceState]
  /\ \A j \in Interface : radio'[j].id = radio[j].id /\ (j # i => radio'[j] = radio[j])

\* No adapter was exchanged, or the interface is as the session found it.
Sound(i) == SameInterface(i) => AsFound(i)

\* The selected interface is one of the radio.
LEMMA SelectedIsOne == Selected \in Interface
BY RadioAssumption DEF Interface

\* The state of one interface, replaced.
LEMMA ReplacedAt ==
  ASSUME RadioOK, NEW i \in Interface, NEW s \in InterfaceState, s.id = radio[i].id,
         radio' = [radio EXCEPT ![i] = s]
  PROVE  OnlyAt(i) /\ radio'[i] = s
BY DEF RadioOK, OnlyAt

\* A step that leaves the radio alone.
LEMMA KeptAt ==
  ASSUME RadioOK, NEW i \in Interface, UNCHANGED radio
  PROVE  OnlyAt(i)
BY DEF RadioOK, OnlyAt

\* The other interfaces stay as sound as they were.
LEMMA SoundBeside ==
  ASSUME NEW i \in Interface, OnlyAt(i), UNCHANGED states, NEW j \in Interface, j # i, Sound(j)
  PROVE  Sound(j)'
BY DEF OnlyAt, Sound, SameInterface, AsFound

\* An interface nobody touches stays sound.
LEMMA SoundStays ==
  ASSUME UNCHANGED <<radio, states>>, NEW j \in Interface, Sound(j)
  PROVE  Sound(j)'
BY DEF Sound, SameInterface, AsFound

\* What a list of changed interfaces has once one is added, or its last one is removed.
LEMMA AppendRange ==
  ASSUME NEW q \in Seq(Interface), NEW i \in Interface
  PROVE  /\ Append(q, i) \in Seq(Interface) /\ Append(q, i) # << >>
         /\ Range(q) \subseteq Range(Append(q, i)) /\ i \in Range(Append(q, i))
<1> DEFINE a == Append(q, i)
<1>1. /\ a \in Seq(Interface) /\ Len(a) = Len(q) + 1 /\ Len(q) \in Nat
      /\ DOMAIN q = 1 .. Len(q) /\ DOMAIN a = 1 .. Len(q) + 1
      /\ a[Len(q) + 1] = i /\ \A k \in 1 .. Len(q) : a[k] = q[k]
  OBVIOUS
<1> HIDE DEF a
<1>2. a # << >>
  BY <1>1
<1>3. \A k \in DOMAIN q : k \in DOMAIN a /\ a[k] = q[k]
  BY <1>1
<1>4. Len(q) + 1 \in DOMAIN a
  BY <1>1
<1>5. Range(q) \subseteq Range(a) /\ i \in Range(a)
  BY <1>1, <1>3, <1>4 DEF Range
<1> QED BY <1>1, <1>2, <1>5 DEF a

\* A sequence without its last element.
LEMMA FrontRange ==
  ASSUME NEW q \in Seq(Interface), q # << >>
  PROVE  /\ Front(q) \in Seq(Interface) /\ Last(q) \in Interface
         /\ Range(q) = Range(Front(q)) \cup {Last(q)}
<1> DEFINE f == Front(q)
<1>1. Len(q) \in Nat /\ Len(q) > 0 /\ DOMAIN q = 1 .. Len(q)
  OBVIOUS
<1>2. /\ f \in Seq(Interface) /\ Len(f) = Len(q) - 1
      /\ \A k \in 1 .. Len(q) - 1 : f[k] = q[k]
  BY <1>1 DEF Front
<1>3. Last(q) = q[Len(q)] /\ Last(q) \in Interface
  BY <1>1 DEF Last
<1> HIDE DEF f
<1>4. DOMAIN f = 1 .. Len(q) - 1
  BY <1>1, <1>2
<1>5. \A k \in DOMAIN q : k \in DOMAIN f \/ k = Len(q)
  BY <1>1, <1>4
<1>6. (\A k \in DOMAIN f : k \in DOMAIN q /\ f[k] = q[k]) /\ Len(q) \in DOMAIN q
  BY <1>1, <1>2, <1>4
<1>7. Range(q) = Range(f) \cup {Last(q)}
  BY <1>3, <1>5, <1>6 DEF Range
<1> QED BY <1>2, <1>3, <1>7 DEF f

\* The steps of the run that command the radio.
LEMMA PauseEffect ==
  ASSUME RadioOK, PauseSibling
  PROVE  \E i \in Interface : OnlyAt(i) /\ changed' = Append(changed, i)
<1>1. PICK ok \in BOOLEAN : Pause(ok)
  BY DEF PauseSibling
<1>2. PICK i \in Interface :
        /\ \E effect \in {radio[i], Down(radio[i])} : radio' = [radio EXCEPT ![i] = effect]
        /\ changed' = Append(changed, i)
  BY <1>1 DEF Pause
<1>3. radio[i] \in InterfaceState
  BY DEF RadioOK
<1>4. Down(radio[i]) \in InterfaceState /\ Down(radio[i]).id = radio[i].id
  BY <1>3, AppliedType, Commanding DEF RadioCommand
<1> QED BY <1>2, <1>3, <1>4, ReplacedAt

\* Configuring and tuning touch the selected interface only.
LEMMA ConfigureEffect ==
  ASSUME RadioOK, NEW outcomes, NEW ok, Left(outcomes, radio[Selected].id),
         Configure(outcomes, ok)
  PROVE  OnlyAt(Selected)
<1>1. PICK o \in outcomes : radio' = [radio EXCEPT ![Selected] = o.state]
  BY DEF Configure
<1>2. o.state \in InterfaceState /\ o.state.id = radio[Selected].id
  BY DEF Left
<1> QED BY <1>1, <1>2, SelectedIsOne, ReplacedAt

\* Tuning, and raising, touch the selected interface only.
LEMMA TuneEffect ==
  ASSUME RadioOK, Tune \/ RaiseInterface
  PROVE  OnlyAt(Selected)
<1> DEFINE id == radio[Selected].id
           now == Untouched(radio[Selected])
           downed == After(now, "down")
           typed == After(downed, "monitor")
           chosen == IF states[Selected].mode = "monitor" THEN now ELSE typed
           upped == After(chosen, "up")
<1>1. Left(now, id)
  BY SelectedIsOne, UntouchedLeft DEF RadioOK
<1>2. {"down", "up", "monitor", "capture"} \subseteq RadioCommand
  BY DEF RadioCommand
<1> HIDE DEF now, id
<1>3. Left(After(now, "up"), id) /\ Left(downed, id)
  BY <1>1, <1>2, AfterLeft
<1> HIDE DEF downed
<1>4. Left(typed, id)
  BY <1>2, <1>3, AfterLeft
<1> HIDE DEF typed
<1>5. Left(chosen, id)
  BY <1>1, <1>4
<1> HIDE DEF chosen
<1>6. Left(upped, id)
  BY <1>2, <1>5, AfterLeft
<1> HIDE DEF upped
<1>7. Left(After(upped, "capture"), id)
  BY <1>2, <1>6, AfterLeft
<1>8. MonitorSetup = After(upped, "capture")
  BY DEF MonitorSetup, upped, chosen, typed, downed, now
<1>9. CASE Tune
  <2>1. PICK ok \in BOOLEAN : Configure(MonitorSetup, ok)
    BY <1>9 DEF Tune
  <2> QED BY <1>7, <1>8, <2>1, ConfigureEffect DEF id
<1>10. CASE RaiseInterface
  <2>1. PICK ok \in BOOLEAN : Configure(After(now, "up"), ok)
    BY <1>10 DEF RaiseInterface, now
  <2> QED BY <1>3, <2>1, ConfigureEffect DEF id
<1> QED BY <1>9, <1>10

\* One iteration of the restoration.
LEMMA RestoreEffect ==
  ASSUME RadioOK, states # << >>, RestoreNext, NEW i, i = Last(changed)
  PROVE  /\ OnlyAt(i) /\ changed # << >> /\ changed' = Front(changed)
         /\ failed' \in {failed, failed \cup {i}}
         /\ i \in failed' \/ Sound(i)'
         /\ UNCHANGED <<states, locked, refused>>
<1>1. PICK ok \in BOOLEAN : RestoreOne(i, ok)
  BY DEF RestoreNext
<1>2. changed # << >> /\ changed' = Front(changed) /\ UNCHANGED <<states, locked, refused>>
  BY <1>1 DEF RestoreNext, RestoreOne
<1>3. i \in Interface
  BY <1>2, FrontRange DEF RadioOK
<1>4. radio[i] \in InterfaceState /\ states[i] \in InterfaceState
  BY <1>3 DEF RadioOK
<1>5. CASE UNCHANGED radio /\ failed' = failed \cup {i}
  BY <1>2, <1>3, <1>5, KeptAt
<1>6. ASSUME SameInterface(i), NEW o \in Restorations(radio[i], states[i]), o.ok = ok,
             radio' = [radio EXCEPT ![i] = o.state],
             failed' = IF ok THEN failed ELSE failed \cup {i}
      PROVE  /\ OnlyAt(i) /\ failed' \in {failed, failed \cup {i}}
             /\ i \in failed' \/ Sound(i)'
  <2>1. o.state \in InterfaceState /\ o.state.id = radio[i].id
    BY <1>4, <1>6, Restored
  <2>2. OnlyAt(i) /\ radio'[i] = o.state
    BY <1>3, <1>6, <2>1, ReplacedAt
  <2>3. CASE ok
    <3>1. /\ o.state.mode = states[i].mode /\ o.state.up = states[i].up
          /\ states[i].channel # "none" => o.state.channel = states[i].channel
      BY <1>4, <1>6, <2>3, Restored, ZenonT(30)
    <3> QED BY <1>2, <1>6, <2>2, <3>1 DEF Sound, AsFound
  <2>4. CASE ~ok
    BY <1>6, <2>2, <2>4
  <2> QED BY <2>3, <2>4
<1> QED BY <1>1, <1>2, <1>5, <1>6 DEF RestoreOne
-----------------------------------------------------------------------------
(* The request for a capture.                                              *)

Ends == {"idle", "confirmed", "unconfirmed"}

\* Where the worker can be before it is asked, and once it has ended without that.
Unasked == {"off", "spawned", "auth", "list_sessions", "get_supported_frequencies", "ready",
            "reporting", "exited"}

\* The worker reports the end of its capture once, and without a request for it
\* Core starts none, now or later.
AskInv ==
  /\ control \in Seq(Command)
  /\ worker # "exited" => Range(status) \cap Ends = {}
  /\ \A e, f \in Range(status) \cap Ends : e = f
  /\ ~start_sent =>
       /\ CoreIsIdle /\ {"confirmed", "unconfirmed"} \cap Range(status) = {}
       /\ worker \in Unasked
       /\ worker # "exited" => ~attempted /\ "start" \notin Range(control)

\* Who asks the worker, and who learns what was asked of Core.
LEMMA RequestSteps ==
  ASSUME [Next]_vars, ~StartCore, ~AskStop, ~Join, ~WorkerStep
  PROVE  UNCHANGED <<start_sent, control>>
<1> USE DEF Quiet, NoCapture, captureVars, parentVars, runVars
<1>1. CASE Startup
  BY <1>1 DEF Startup, EnterRadio, SpawnWorker, BeginDirect, WaitPhase, Prepare, PauseSibling,
              SelectInterface, Tune, RaiseInterface, Verify, LaunchDirect, LaunchAnalysis
<1>2. CASE Shutdown
  <2>1. CASE LoopEnds \/ CloseCapture \/ CloseDirect \/ CloseDecoder \/ CloseAnalysis
             \/ BeginRestore \/ RestoreNext \/ EndRestore \/ ReleaseRadio
    BY <2>1 DEF LoopEnds, CloseCapture, CloseDirect, CloseDecoder, CloseAnalysis, BeginRestore,
                RestoreNext, EndRestore, ReleaseRadio
  <2>2. CASE ParentExits
    BY <2>2 DEF ParentExits, Killed
  <2> QED BY <1>2, <2>1, <2>2 DEF Shutdown
<1>3. CASE Interrupt \/ RunKilled
  BY <1>3 DEF Interrupt, RunKilled
<1>4. CASE CoreStep \/ SourceWrites \/ SourceDies \/ StreamStep \/ Elsewhere
  BY <1>4 DEF CoreStep, Core, SourceWrites, SourceDies, StreamStep, Elsewhere
<1>5. CASE Breaks
  BY <1>5 DEF Breaks, WorkerDies, Killed, CoreRestarts
<1>6. CASE UNCHANGED vars
  BY <1>6 DEF vars
<1> QED BY <1>1, <1>2, <1>3, <1>4, <1>5, <1>6 DEF Next

\* A worker that ends without a word.
LEMMA KilledAskInv ==
  ASSUME AskInv, Killed, UNCHANGED <<core, start_sent>>
  PROVE  AskInv'
BY DEF AskInv, Killed, Exits, CoreIsIdle, Unasked

\* Nothing of it moves.
LEMMA SameAskInv ==
  ASSUME AskInv, UNCHANGED <<core, commands, worker, attempted, control, status, start_sent>>
  PROVE  AskInv'
BY DEF AskInv, CoreIsIdle

\* The worker moves, without ending.
LEMMA WorkingAskInv ==
  ASSUME AskInv, StopInv', worker # "exited", worker' # "exited", UNCHANGED start_sent,
         control' \in Seq(Command),
         Range(status') \subseteq Range(status) \cup {"ready", "started"},
         ~start_sent => worker' \in Unasked /\ ~attempted' /\ control' = control
  PROVE  AskInv'
<1>1. Range(status') \cap Ends = {}
  BY DEF AskInv, Ends
<1>2. ~start_sent => /\ CoreIsIdle'
                     /\ {"confirmed", "unconfirmed"} \cap Range(status') = {}
  <2> SUFFICES ASSUME ~start_sent
               PROVE  CoreIsIdle' /\ {"confirmed", "unconfirmed"} \cap Range(status') = {}
    OBVIOUS
  <2>1. CoreIsIdle'
    BY DEF StopInv
  <2> QED BY <1>1, <2>1 DEF Ends
<1> QED BY <1>1, <1>2 DEF AskInv

\* What is appended to the reports.
LEMMA ReportsAppend ==
  ASSUME NEW q \in Seq(Report), NEW r \in Report
  PROVE  Range(Append(q, r)) = Range(q) \cup {r}
<1> DEFINE a == Append(q, r)
<1>1. /\ Len(q) \in Nat /\ DOMAIN q = 1 .. Len(q) /\ DOMAIN a = 1 .. Len(q) + 1
      /\ a[Len(q) + 1] = r /\ \A k \in 1 .. Len(q) : a[k] = q[k]
  OBVIOUS
<1> HIDE DEF a
<1>2. \A k \in DOMAIN a : (k \in DOMAIN q /\ a[k] = q[k]) \/ a[k] = r
  BY <1>1
<1>3. \A k \in DOMAIN q : k \in DOMAIN a /\ a[k] = q[k]
  BY <1>1
<1>4. Len(q) + 1 \in DOMAIN a
  BY <1>1
<1>5. Range(a) = Range(q) \cup {r}
  BY <1>1, <1>2, <1>3, <1>4 DEF Range
<1> QED BY <1>5 DEF a

\* The worker moves.
LEMMA WorkerAskInv == TypeOK /\ AskInv /\ StopInv /\ StopInv' /\ WorkerStep => AskInv'
<1> SUFFICES ASSUME TypeOK, AskInv, StopInv, StopInv', WorkerStep PROVE AskInv'
  OBVIOUS
<1>1. UNCHANGED <<core, start_sent, confirmed>>
  BY DEF WorkerStep, Worker, WorkerWrites, coreVars, runVars
<1>2. status \in Seq(Report) /\ control \in Seq(Command)
  BY DEF TypeOK, AskInv
<1>3. {"ready", "started", "error"} \subseteq Report
  BY DEF Report
<1>4. ~start_sent => worker \in Unasked /\ (worker # "exited" => ~attempted)
  BY DEF AskInv
<1>5. CASE WorkerConnects /\ UNCHANGED control
  <2>1. CASE worker' = "auth" /\ UNCHANGED <<attempted, status>>
    <3>1. worker # "exited" /\ worker' # "exited" /\ worker' \in Unasked
      BY <1>5, <2>1 DEF WorkerConnects, Unasked
    <3> QED BY <1>1, <1>2, <1>4, <1>5, <2>1, <3>1, WorkingAskInv
  <2>2. CASE worker' = "exited" /\ UNCHANGED commands /\ status' = Append(status, "error")
    <3>1. worker # "exited"
      BY <1>5 DEF WorkerConnects
    <3>2. Range(status') = Range(status) \cup {"error"}
      BY <1>2, <1>3, <2>2, ReportsAppend
    <3> QED BY <1>1, <1>5, <2>2, <3>1, <3>2 DEF AskInv, CoreIsIdle, Unasked, Ends
  <2> QED BY <1>5, <2>1, <2>2 DEF WorkerConnects
<1>6. ASSUME Raise, worker # "exited", control' \in Seq(Command), ~start_sent => control' = control
      PROVE  AskInv'
  <2>1. worker' # "exited" /\ UNCHANGED <<status, attempted>>
        /\ (~attempted => worker' = "reporting")
    BY <1>6 DEF Raise
  <2>2. ~start_sent => worker' \in Unasked
    BY <1>4, <1>6, <2>1 DEF Unasked
  <2> QED BY <1>1, <1>4, <1>6, <2>1, <2>2, WorkingAskInv
<1>7. CASE WorkerHears /\ UNCHANGED control
  <2>1. Waiting /\ worker # "exited"
    BY <1>7, Successors DEF WorkerHears, Waiting
  <2>2. CASE Raise
    BY <1>2, <1>6, <1>7, <2>1, <2>2
  <2>3. CASE UNCHANGED <<worker, attempted, status>>
    BY <1>1, <1>2, <1>4, <1>7, <2>1, <2>3, WorkingAskInv
  <2>4. CASE Accepted(Following[worker]) /\ ~Raise
    <3> DEFINE next == Following[worker]
    <3>1. /\ worker' = next
          /\ status' = IF next \in DOMAIN Answer THEN status
                       ELSE Append(status, IF next = "ready" THEN "ready" ELSE "started")
          /\ attempted' = (attempted \/ next = "start")
      BY <2>4 DEF Accepted
    <3>2. worker' # "exited"
      BY <2>1, <3>1, Successors DEF Waiting
    <3>3. ~start_sent => worker' \in Unasked /\ worker' # "start"
      BY <1>4, <2>1, <3>1, Successors DEF Waiting, Unasked
    <3>4. ~start_sent => ~attempted'
      BY <1>4, <2>1, <3>1, <3>3
    <3> HIDE DEF next
    <3>5. Range(status') \subseteq Range(status) \cup {"ready", "started"}
      BY <1>2, <1>3, <3>1, ReportsAppend
    <3> QED BY <1>1, <1>2, <1>7, <2>1, <3>2, <3>3, <3>4, <3>5, WorkingAskInv
  <2> QED BY <1>7, <2>2, <2>3, <2>4 DEF WorkerHears
<1>8. CASE WorkerReceives /\ UNCHANGED control
  <2>1. worker \in {"streaming", "stopping"}
    BY <1>8 DEF WorkerReceives, Receiving
  <2>2. CASE Raise
    BY <1>2, <1>6, <1>8, <2>1, <2>2
  <2>3. CASE worker' \in {worker, "reporting"} /\ UNCHANGED status
    <3>1. start_sent
      BY <1>4, <2>1 DEF Unasked
    <3> QED BY <1>1, <1>2, <1>8, <2>1, <2>3, <3>1, WorkingAskInv
  <2> QED BY <1>8, <2>2, <2>3 DEF WorkerReceives
<1>9. CASE (WorkerGivesUp \/ WriteFails) /\ UNCHANGED control
  <2>1. Raise /\ worker # "exited"
    BY <1>9, Successors DEF WorkerGivesUp, WriteFails
  <2> QED BY <1>2, <1>6, <1>9, <2>1
<1>10. CASE WorkerConfirms /\ UNCHANGED control
  <2>1. worker = "confirming" /\ worker' \in {"confirming", "reporting"} /\ UNCHANGED status
    BY <1>10 DEF WorkerConfirms
  <2>2. start_sent
    BY <1>4, <2>1 DEF Unasked
  <2> QED BY <1>1, <1>2, <1>10, <2>1, <2>2, WorkingAskInv
<1>11. CASE WorkerExits /\ UNCHANGED control
  <2> DEFINE outcome == IF ~attempted THEN "idle" ELSE IF stopped THEN "confirmed"
                                                       ELSE "unconfirmed"
  <2>1. Range(status') \subseteq Range(status) \cup {outcome, "error"}
    BY <1>11, EndReports
  <2>2. worker # "exited" /\ worker' = "exited" /\ UNCHANGED commands
    BY <1>11 DEF WorkerExits, Exits
  <2>3. Range(status) \cap Ends = {}
    BY <2>2 DEF AskInv
  <2>4. Range(status') \cap Ends \subseteq {outcome}
    BY <2>1, <2>3 DEF Ends
  <2>5. ~start_sent => outcome = "idle"
    BY <1>4, <2>2
  <2> HIDE DEF outcome
  <2>6. ~start_sent => {"confirmed", "unconfirmed"} \cap Range(status') = {}
    BY <2>4, <2>5 DEF Ends
  <2>7. CoreIsIdle' = CoreIsIdle
    BY <1>1, <2>2 DEF CoreIsIdle
  <2> QED BY <1>1, <1>2, <1>11, <2>2, <2>4, <2>6, <2>7 DEF AskInv, Unasked
<1>12. CASE WorkerStarts \/ WorkerStops
  <2>1. worker \in {"ready", "streaming"} /\ UNCHANGED <<attempted, status>>
    BY <1>12 DEF WorkerStarts, WorkerStops, Raise
  <2>2. control' \in Seq(Command)
    <3>1. control' = control \/ (control # << >> /\ control' = Tail(control))
      BY <1>12 DEF WorkerStarts, WorkerStops
    <3> QED BY <1>2, <3>1
  <2>3. worker' # "exited"
    BY <1>12, <2>1 DEF WorkerStarts, WorkerStops, Raise
  <2>4. ASSUME ~start_sent PROVE worker' \in Unasked /\ control' = control
    <3>1. "start" \notin Range(control) /\ WorkerStarts
      BY <1>4, <1>12, <2>1, <2>4 DEF AskInv, Unasked, WorkerStarts, WorkerStops
    <3>2. control # << >> => Head(control) \in Range(control)
      <4> SUFFICES ASSUME control # << >> PROVE Head(control) \in Range(control)
        OBVIOUS
      <4>1. Head(control) = control[1] /\ 1 \in DOMAIN control
        BY <1>2
      <4> QED BY <4>1 DEF Range
    <3>3. ~(parent /\ Head(control) = "start")
      BY <3>1, <3>2 DEF WorkerStarts
    <3> QED BY <3>1, <3>3 DEF WorkerStarts, Unasked
  <2> QED BY <1>1, <1>4, <2>1, <2>2, <2>3, <2>4, WorkingAskInv
<1>13. CASE WorkerWrites
  <2>1. UNCHANGED <<core, commands, worker, attempted, control, status, start_sent>>
    BY <1>1, <1>13 DEF WorkerWrites, wireVars, parentVars
  <2> QED BY <2>1, SameAskInv
<1> QED BY <1>5, <1>7, <1>8, <1>9, <1>10, <1>11, <1>12, <1>13 DEF WorkerStep, Worker

\* The join reads the last the worker said.
LEMMA JoinAskInv ==
  ASSUME AskInv, StopInv, Join
  PROVE  AskInv' /\ (start_sent' => start_sent)
<1> DEFINE last == Range(status) \cap {"idle", "confirmed", "unconfirmed"}
<1>1. /\ start_sent' = IF last = {} THEN start_sent ELSE "idle" \notin last
      /\ UNCHANGED core
  BY DEF Join, Drain, coreVars
<1>2. start_sent' => start_sent
  BY <1>1 DEF AskInv
<1>3. CASE worker # "exited"
  <2>1. UNCHANGED start_sent
    BY <1>1, <1>3 DEF AskInv, Ends
  <2> QED BY <1>1, <1>2, <1>3, <2>1, KilledAskInv DEF Join
<1>4. CASE worker = "exited"
  <2>1. UNCHANGED <<worker, commands, control, status>>
    BY <1>4 DEF Join, wireVars, workerVars
  <2>2. ASSUME ~start_sent'
        PROVE  CoreIsIdle /\ {"confirmed", "unconfirmed"} \cap Range(status) = {}
    <3>1. CASE ~start_sent
      BY <3>1 DEF AskInv
    <3>2. CASE "idle" \in Range(status)
      BY <3>2 DEF AskInv, StopInv, Ends
    <3> QED BY <1>1, <2>2, <3>1, <3>2
  <2>3. CoreIsIdle' = CoreIsIdle
    BY <1>1, <2>1 DEF CoreIsIdle
  <2> QED BY <1>2, <1>4, <2>1, <2>2, <2>3 DEF AskInv, Unasked
<1> QED BY <1>3, <1>4

\* Nothing is asked before the run has begun.
LEMMA InitAskInv == Init => AskInv
<1> SUFFICES ASSUME Init PROVE AskInv
  OBVIOUS
<1>1. /\ status = << >> /\ control = << >> /\ core = "none" /\ commands = << >>
      /\ worker = "off" /\ attempted = FALSE
  BY DEF Init, CaptureInit
<1>2. Range(status) = {} /\ Range(control) = {} /\ Range(commands) = {}
  BY <1>1 DEF Range
<1>3. << >> \in Seq(Command)
  OBVIOUS
<1> QED BY <1>1, <1>2, <1>3 DEF AskInv, CoreIsIdle, Unasked

\* Every step keeps what was asked and what is known of it consistent.
LEMMA StepAskInv == TypeOK /\ PlaceInv /\ StopInv /\ StopInv' /\ AskInv /\ [Next]_vars => AskInv'
<1> SUFFICES ASSUME TypeOK, PlaceInv, StopInv, StopInv', AskInv, [Next]_vars PROVE AskInv'
  OBVIOUS
<1>1. Still \/ Moves
  BY Steps DEF TypeOK, PlaceInv
<1>2. control \in Seq(Command) /\ {"start", "stop"} \subseteq Command
  BY DEF AskInv, Command, Request
<1>3. CASE StartCore
  <2>1. Still
    BY <1>3, StartupIsStill
  <2>2. start_sent' = TRUE /\ control' \in {control, Append(control, "start")}
    BY <1>3 DEF StartCore
  <2>3. control' \in Seq(Command)
    BY <1>2, <2>2
  <2> QED BY <2>1, <2>2, <2>3 DEF AskInv, Still
<1>4. CASE AskStop
  <2>1. Still
    BY <1>4, ShutdownIsStill DEF TypeOK
  <2>2. start_sent' = start_sent /\ control' \in {control, Append(control, "stop")}
    BY <1>4 DEF AskStop
  <2>3. control' \in Seq(Command)
    BY <1>2, <2>2
  <2>4. "start" \notin Range(control) => "start" \notin Range(control')
    BY <1>2, <2>2, AppendStart
  <2>5. CoreIsIdle' = CoreIsIdle
    BY <2>1 DEF Still, coreVars, CoreIsIdle
  <2> QED BY <2>1, <2>2, <2>3, <2>4, <2>5 DEF AskInv, Still
<1>5. CASE Join
  BY <1>5, JoinAskInv
<1>6. CASE WorkerStep
  BY <1>6, WorkerAskInv
<1>7. CASE ~StartCore /\ ~AskStop /\ ~Join /\ ~WorkerStep
  <2>1. UNCHANGED <<start_sent, control>>
    BY <1>7, RequestSteps
  <2>2. CASE Still
    <3>1. UNCHANGED <<core, commands, worker, attempted, control, status, start_sent>>
      BY <2>1, <2>2 DEF Still, coreVars
    <3> QED BY <3>1, SameAskInv
  <2>3. CASE SpawnWorker
    <3>1. /\ UNCHANGED <<core, commands, attempted, status>>
          /\ worker = "off" /\ worker' \in {"off", "spawned"}
      BY <2>3 DEF SpawnWorker, PlaceInv, coreVars, wireVars, parentVars
    <3>2. CoreIsIdle' = CoreIsIdle
      BY <3>1 DEF CoreIsIdle
    <3> QED BY <2>1, <3>1, <3>2 DEF AskInv, Unasked
  <2>4. CASE CoreStep
    <3>1. UNCHANGED <<worker, attempted, status>> /\ Core
      BY <2>4 DEF CoreStep, Core, workerVars, parentVars
    <3>2. CoreIsIdle => CoreIsIdle'
      BY <3>1, CoreEffect
    <3> QED BY <2>1, <3>1, <3>2 DEF AskInv
  <2>5. CASE Breaks /\ CoreRestarts
    <3>1. UNCHANGED <<worker, attempted, status>> /\ core' = "none" /\ commands' = << >>
      BY <2>5 DEF Breaks, CoreRestarts, workerVars, parentVars
    <3>2. CoreIsIdle'
      BY <3>1 DEF CoreIsIdle, Range
    <3> QED BY <2>1, <3>1, <3>2 DEF AskInv
  <2>6. CASE ParentExits \/ (Breaks /\ WorkerDies)
    <3>1. UNCHANGED core
      BY <2>6 DEF ParentExits, Breaks, WorkerDies, coreVars
    <3>2. Killed \/ UNCHANGED <<worker, commands, attempted, control, status>>
      BY <2>6 DEF ParentExits, Breaks, WorkerDies, wireVars, workerVars
    <3> QED BY <2>1, <3>1, <3>2, KilledAskInv, SameAskInv
  <2>7. CASE LaunchDirect \/ SourceWrites \/ StreamStep
    <3>1. UNCHANGED <<core, commands, worker, attempted, control, status, start_sent>>
      BY <2>1, <2>7 DEF LaunchDirect, SourceWrites, StreamStep, coreVars, wireVars, workerVars,
                        parentVars
    <3> QED BY <3>1, SameAskInv
  <2> QED BY <1>1, <1>7, <2>2, <2>3, <2>4, <2>5, <2>6, <2>7 DEF Moves
<1> QED BY <1>3, <1>4, <1>5, <1>6, <1>7
-----------------------------------------------------------------------------
(* What the run has in hand.                                               *)

\* The steps in which it holds the radio.
Holding == {"setup", "connecting", "preparing", "pausing", "tuning", "retuning", "raising",
            "starting", "started", "verifying", "launching", "running", "unwinding", "closing",
            "joining", "joined", "restoring", "releasing"}

\* The steps that reconfigure the interface the run captures on, or ask Core to.
Reconfiguring == {"tuning", "retuning", "raising", "starting"}

\* The run reconfigures what it has noted it changes, and holds the radio until
\* it has put all of it back or was refused.
PhaseInv ==
  /\ pc \in Holding \cup {"entering", "done", "killed"}
  /\ pc = "entering" => states = << >>
  /\ states = << >> => changed = << >> /\ ~start_sent
  /\ pc \in Holding => states # << >> /\ locked
  /\ pc \in Reconfiguring => Selected \in Range(changed)
  /\ start_sent /\ pc \notin {"restoring", "releasing", "done", "killed"}
       => Selected \in Range(changed)
  /\ pc = "releasing" => changed = << >> \/ refused
  /\ pc = "done" /\ states # << >> /\ ~locked => changed = << >> \/ refused

\* Steps that leave the radio and what the session noted of it alone.
LEMMA RadioKept ==
  ASSUME [Next]_vars, ~EnterRadio, ~PauseSibling, ~SelectInterface, ~Tune, ~RaiseInterface,
         ~RestoreNext, ~CoreStep, ~Elsewhere
  PROVE  UNCHANGED <<radio, states, changed, failed>>
<1> USE DEF radioVars
<1>1. CASE Startup
  BY <1>1 DEF Startup, SpawnWorker, BeginDirect, WaitPhase, Prepare, StartCore, Verify,
              LaunchDirect, LaunchAnalysis
<1>2. CASE Shutdown
  BY <1>2 DEF Shutdown, LoopEnds, CloseCapture, CloseDirect, AskStop, Join, CloseDecoder,
              CloseAnalysis, BeginRestore, Refuse, EndRestore, ReleaseRadio, Release, ParentExits
<1>3. CASE Interrupt \/ RunKilled
  BY <1>3 DEF Interrupt, RunKilled
<1>4. CASE WorkerStep \/ SourceWrites \/ SourceDies \/ StreamStep \/ Breaks
  BY <1>4 DEF WorkerStep, SourceWrites, SourceDies, StreamStep, Breaks
<1>5. CASE UNCHANGED vars
  BY <1>5 DEF vars
<1> QED BY <1>1, <1>2, <1>3, <1>4, <1>5 DEF Next

\* A snapshot of the radio is one.
LEMMA SnapshotTaken ==
  ASSUME RadioOK, states' = radio
  PROVE  states' # << >> /\ states' \in [Interface -> InterfaceState]
<1>1. DOMAIN radio = Interface /\ Interface # {}
  BY SelectedIsOne DEF RadioOK
<1>2. radio # << >>
  BY <1>1
<1> QED BY <1>2 DEF RadioOK

\* Every step leaves a radio of states, and a sequence of changed interfaces.
LEMMA StepRadioOK == RadioOK /\ PhaseInv /\ [Next]_vars => RadioOK'
<1> SUFFICES ASSUME RadioOK, PhaseInv, [Next]_vars PROVE RadioOK'
  OBVIOUS
<1>1. /\ radio \in [Interface -> InterfaceState] /\ changed \in Seq(Interface)
      /\ states = << >> \/ states \in [Interface -> InterfaceState]
  BY DEF RadioOK
<1>2. ASSUME NEW i, OnlyAt(i), UNCHANGED states, changed' \in Seq(Interface) PROVE RadioOK'
  BY <1>2 DEF RadioOK, OnlyAt
<1>3. CASE EnterRadio
  <2>1. CASE Enter
    <3>1. states' = radio /\ UNCHANGED <<radio, changed>>
      BY <2>1 DEF Enter
    <3> QED BY <1>1, <3>1, SnapshotTaken DEF RadioOK
  <2>2. CASE UNCHANGED radioVars
    BY <2>2 DEF RadioOK, radioVars
  <2> QED BY <1>3, <2>1, <2>2 DEF EnterRadio
<1>4. CASE PauseSibling
  <2>1. PICK i \in Interface : OnlyAt(i) /\ changed' = Append(changed, i)
    BY <1>4, PauseEffect
  <2>2. UNCHANGED states
    BY <1>4 DEF PauseSibling, Pause
  <2> QED BY <1>1, <1>2, <2>1, <2>2, AppendRange
<1>5. CASE SelectInterface
  <2>1. changed' = Append(changed, Selected) /\ UNCHANGED <<radio, states>>
    BY <1>5 DEF SelectInterface, Select
  <2> QED BY <1>1, <1>2, <2>1, KeptAt, SelectedIsOne, AppendRange
<1>6. CASE Tune \/ RaiseInterface
  <2>1. UNCHANGED <<states, changed>>
    BY <1>6 DEF Tune, RaiseInterface, Configure
  <2> QED BY <1>1, <1>2, <1>6, <2>1, TuneEffect
<1>7. CASE RestoreNext
  <2>1. states # << >>
    BY <1>7 DEF RestoreNext, PhaseInv, Holding
  <2>2. OnlyAt(Last(changed)) /\ changed # << >> /\ changed' = Front(changed) /\ UNCHANGED states
    BY <1>7, <2>1, RestoreEffect
  <2> QED BY <1>1, <1>2, <2>2, FrontRange
<1>8. CASE CoreStep
  <2>1. OnlyAt(Selected)
    <3>1. radio' = radio \/ radio' = [radio EXCEPT ![Selected] = Tuned(radio[Selected], "capture")]
      BY <1>8 DEF CoreStep
    <3>2. radio[Selected] \in InterfaceState
      BY <1>1, SelectedIsOne
    <3>3. /\ Tuned(radio[Selected], "capture") \in InterfaceState
          /\ Tuned(radio[Selected], "capture").id = radio[Selected].id
      BY <3>2, AppliedType, Commanding DEF RadioCommand
    <3> QED BY <3>1, <3>3, SelectedIsOne, KeptAt, ReplacedAt
  <2>2. UNCHANGED <<states, changed>>
    BY <1>8 DEF CoreStep
  <2> QED BY <1>1, <1>2, <2>1, <2>2
<1>9. CASE Elsewhere
  <2>1. UNCHANGED <<states, changed>>
    BY <1>9 DEF Elsewhere, Occupy, Replace
  <2>2. CASE UNCHANGED radio
    BY <1>1, <1>2, <2>1, <2>2, SelectedIsOne, KeptAt
  <2>3. ASSUME NEW i \in Interface, Replace(i) PROVE RadioOK'
    <3> DEFINE other == [id |-> 1, mode |-> "managed", up |-> FALSE, channel |-> "none"]
    <3>1. radio' = [radio EXCEPT ![i] = other]
      BY <2>3 DEF Replace
    <3>2. other \in InterfaceState /\ other.id = 1
      BY DEF InterfaceState
    <3> HIDE DEF other
    <3> QED BY <1>1, <2>1, <3>1, <3>2 DEF RadioOK
  <2> QED BY <1>9, <2>2, <2>3 DEF Elsewhere, Occupy
<1>10. CASE UNCHANGED <<radio, states, changed, failed>>
  BY <1>10 DEF RadioOK
<1> QED BY <1>3, <1>4, <1>5, <1>6, <1>7, <1>8, <1>9, <1>10, RadioKept

\* The steps that ask for the capture or note its end are few.
LEMMA StartSteps ==
  ASSUME AskInv, StopInv, [Next]_vars, ~StartCore
  PROVE  start_sent' => start_sent
BY RequestSteps, JoinAskInv DEF AskStop, WorkerStep, runVars

\* A phase is reached only with what it needs.
LEMMA StepPhaseInv ==
  RadioOK /\ AskInv /\ StopInv /\ PhaseInv /\ [Next]_vars => PhaseInv'
<1> SUFFICES ASSUME RadioOK, AskInv, StopInv, PhaseInv, [Next]_vars PROVE PhaseInv'
  OBVIOUS
<1>1. ~StartCore => (start_sent' => start_sent)
  BY StartSteps
<1>2. CASE EnterRadio
  <2>1. CASE Enter /\ Goto("setup")
    <3>1. states' # << >>
      BY <2>1, SnapshotTaken DEF Enter
    <3>2. pc = "entering" /\ UNCHANGED start_sent
      BY <1>2 DEF EnterRadio, NoCapture
    <3> QED BY <2>1, <3>1, <3>2 DEF PhaseInv, Enter, Goto, Holding, Reconfiguring
  <2>2. CASE Raises("done") /\ UNCHANGED radioVars
    BY <1>2, <2>2 DEF EnterRadio, PhaseInv, Raises, radioVars, NoCapture, Holding, Reconfiguring
  <2> QED BY <1>2, <2>1, <2>2 DEF EnterRadio
<1>3. CASE PauseSibling
  <2>1. PICK i \in Interface : changed' = Append(changed, i)
    BY <1>3, PauseEffect
  <2>2. Range(changed) \subseteq Range(changed')
    BY <2>1, AppendRange DEF RadioOK
  <2>3. /\ pc = "pausing" /\ pc' \in {"pausing", "unwinding"}
        /\ UNCHANGED <<states, locked, start_sent>>
    BY <1>3 DEF PauseSibling, Pause, Commanded, Goto, Raises, NoCapture
  <2> QED BY <2>2, <2>3 DEF PhaseInv, Holding, Reconfiguring
<1>4. CASE SelectInterface
  <2>1. changed' = Append(changed, Selected)
    BY <1>4 DEF SelectInterface, Select
  <2>2. Selected \in Range(changed')
    BY <2>1, SelectedIsOne, AppendRange DEF RadioOK
  <2>3. /\ pc = "pausing" /\ pc' \in {"raising", "tuning"}
        /\ UNCHANGED <<states, locked, start_sent>>
    BY <1>4 DEF SelectInterface, Select, Goto, NoCapture
  <2> QED BY <2>2, <2>3 DEF PhaseInv, Holding, Reconfiguring
<1>5. CASE Tune \/ RaiseInterface
  <2>1. /\ pc \in {"tuning", "retuning", "raising"}
        /\ pc' \in {"retuning", "launching", "starting", "unwinding"}
        /\ UNCHANGED <<states, changed, locked, start_sent>>
    BY <1>5 DEF Tune, RaiseInterface, Configure, Commanded, Goto, Raises, NoCapture
  <2> QED BY <2>1 DEF PhaseInv, Holding, Reconfiguring
<1>6. CASE RestoreNext
  <2>1. pc = "restoring" /\ pc' = "restoring" /\ UNCHANGED <<states, locked>>
    BY <1>6 DEF RestoreNext, RestoreOne, Goto
  <2>2. states # << >>
    BY <2>1 DEF PhaseInv, Holding
  <2> QED BY <2>1, <2>2 DEF PhaseInv, Holding, Reconfiguring
<1>7. CASE StartCore
  <2>1. /\ pc = "starting" /\ pc' \in {"started", "unwinding"}
        /\ UNCHANGED <<states, changed, locked>>
    BY <1>7 DEF StartCore, Goto, Raises, radioVars
  <2> QED BY <2>1 DEF PhaseInv, Holding, Reconfiguring
<1>8. CASE BeginRestore
  <2>1. /\ pc = "unwinding" /\ pc' \in {"restoring", "releasing"}
        /\ pc' = "releasing" => refused'
        /\ UNCHANGED <<states, changed, locked, start_sent>>
    BY <1>8 DEF BeginRestore, Refuse, Goto, Raises, NoCapture, radioVars
  <2> QED BY <2>1 DEF PhaseInv, Holding, Reconfiguring
<1>9. CASE EndRestore
  <2>1. /\ pc = "restoring" /\ changed = << >> /\ pc' = "releasing"
        /\ UNCHANGED <<states, changed, locked, start_sent>>
    BY <1>9 DEF EndRestore, Goto, Raises, NoCapture, radioVars
  <2> QED BY <2>1 DEF PhaseInv, Holding, Reconfiguring
<1>10. CASE ReleaseRadio
  <2>1. /\ pc = "releasing" /\ pc' = "done"
        /\ UNCHANGED <<states, changed, refused, start_sent>>
    BY <1>10 DEF ReleaseRadio, Release, Goto, NoCapture
  <2> QED BY <2>1 DEF PhaseInv, Holding, Reconfiguring
<1>11. CASE RunKilled
  <2>1. pc' = "killed" /\ UNCHANGED <<states, changed, start_sent>>
    BY <1>11 DEF RunKilled
  <2> QED BY <2>1 DEF PhaseInv, Holding, Reconfiguring
<1>12. CASE Interrupt
  <2>1. /\ pc \notin {"restoring", "releasing", "done", "killed"}
        /\ pc' \in {"unwinding", "done"}
        /\ pc = "entering" => pc' = "done"
        /\ pc' = "done" => pc \in {"entering", "unwinding"}
        /\ UNCHANGED <<states, changed, locked, start_sent>>
    BY <1>12 DEF Interrupt, Masked, Goto, Raises, NoCapture, radioVars
  <2> QED BY <2>1 DEF PhaseInv, Holding, Reconfiguring
<1>13. ASSUME UNCHANGED <<states, changed, locked, refused>>, ~StartCore,
              \/ pc' = pc
              \/ /\ pc \in Holding \ {"restoring", "releasing"}
                 /\ pc' \in Holding \ (Reconfiguring \cup {"restoring", "releasing"})
       PROVE  PhaseInv'
  <2>1. start_sent' => start_sent
    BY <1>1, <1>13
  <2> HIDE DEF StartCore
  <2>2. CASE pc' = pc
    BY <1>13, <2>1, <2>2 DEF PhaseInv
  <2>3. CASE /\ pc \in Holding \ {"restoring", "releasing"}
             /\ pc' \in Holding \ (Reconfiguring \cup {"restoring", "releasing"})
    BY <1>13, <2>1, <2>3 DEF PhaseInv, Holding
  <2> QED BY <1>13, <2>2, <2>3
<1>14. CASE \/ SpawnWorker \/ BeginDirect
            \/ WaitPhase("connecting", "ready", "preparing")
            \/ WaitPhase("started", "started", "verifying")
            \/ Prepare \/ Verify \/ LaunchDirect \/ LaunchAnalysis
  <2>1. UNCHANGED <<states, changed, locked, refused>>
    BY <1>14 DEF SpawnWorker, BeginDirect, WaitPhase, Prepare, Verify, LaunchDirect,
                 LaunchAnalysis, radioVars
  <2>2. /\ pc \in Holding \ {"restoring", "releasing"}
        /\ pc' \in Holding \ (Reconfiguring \cup {"restoring", "releasing"})
    BY <1>14 DEF SpawnWorker, BeginDirect, WaitPhase, Prepare, Verify, LaunchDirect,
                 LaunchAnalysis, Goto, Raises, Holding, Reconfiguring
  <2>3. CASE StartCore
    BY <1>7, <2>3
  <2> QED BY <1>13, <2>1, <2>2, <2>3
<1>15. CASE LoopEnds \/ CloseCapture \/ CloseDirect \/ AskStop \/ Join \/ CloseDecoder
            \/ CloseAnalysis
  <2>1. UNCHANGED <<states, changed, locked, refused>>
    BY <1>15 DEF LoopEnds, CloseCapture, CloseDirect, AskStop, Join, CloseDecoder, CloseAnalysis,
                 radioVars
  <2>2. /\ pc \in Holding \ {"restoring", "releasing"}
        /\ pc' \in Holding \ (Reconfiguring \cup {"restoring", "releasing"})
    BY <1>15 DEF LoopEnds, CloseCapture, CloseDirect, AskStop, Join, CloseDecoder, CloseAnalysis,
                 Goto, Raises, Holding, Reconfiguring
  <2>3. CASE StartCore
    BY <1>7, <2>3
  <2> QED BY <1>13, <2>1, <2>2, <2>3
<1>16. CASE \/ ParentExits \/ CoreStep \/ WorkerStep \/ Breaks \/ SourceWrites \/ SourceDies
            \/ StreamStep \/ Elsewhere \/ UNCHANGED vars
  <2>1. UNCHANGED <<states, changed, locked, refused, pc>>
    BY <1>16 DEF ParentExits, CoreStep, WorkerStep, Breaks, SourceWrites, SourceDies, StreamStep,
                 Elsewhere, Occupy, Replace, radioVars, runVars, vars
  <2>2. CASE StartCore
    BY <1>7, <2>2
  <2> QED BY <1>13, <2>1, <2>2
<1> QED BY <1>2, <1>3, <1>4, <1>5, <1>6, <1>7, <1>8, <1>9, <1>10, <1>11, <1>12, <1>14, <1>15, <1>16
        DEF Next, Startup, Shutdown

\* Core may have tuned the radio, or may do so yet.
Disturbed(i) == i = Selected /\ start_sent /\ ~confirmed

\* What the run has not touched, and what it has put back, is as it was found.
RestoreInv ==
  states # << >> =>
    \A i \in Interface : i \in Range(changed) \cup failed \/ Disturbed(i) \/ Sound(i)

\* An interface nobody owes is as it was found.
LEMMA StepRestoreInv ==
  TypeOK /\ PlaceInv /\ RadioOK /\ AskInv /\ StopInv /\ PhaseInv /\ RestoreInv /\ [Next]_vars
  => RestoreInv'
<1> SUFFICES ASSUME TypeOK, PlaceInv, RadioOK, AskInv, StopInv, PhaseInv, RestoreInv, [Next]_vars,
                    states' # << >>, NEW j \in Interface
             PROVE  j \in Range(changed') \cup failed' \/ Disturbed(j)' \/ Sound(j)'
  BY DEF RestoreInv
<1>1. changed \in Seq(Interface)
  BY DEF RadioOK
<1>2. ASSUME states # << >> PROVE j \in Range(changed) \cup failed \/ Disturbed(j) \/ Sound(j)
  BY <1>2 DEF RestoreInv
<1>3. CASE EnterRadio
  <2>1. CASE Enter
    BY <2>1 DEF Enter, Sound, AsFound
  <2>2. CASE UNCHANGED radioVars /\ UNCHANGED <<start_sent, confirmed>>
    BY <1>2, <2>2, SoundStays DEF radioVars, Disturbed
  <2> QED BY <1>3, <2>1, <2>2 DEF EnterRadio, NoCapture
<1>4. CASE PauseSibling
  <2>1. PICK i \in Interface : OnlyAt(i) /\ changed' = Append(changed, i)
    BY <1>4, PauseEffect
  <2>2. UNCHANGED <<states, failed, start_sent, confirmed>>
    BY <1>4 DEF PauseSibling, Pause, NoCapture
  <2>3. Range(changed) \subseteq Range(changed') /\ i \in Range(changed')
    BY <1>1, <2>1, AppendRange
  <2> QED BY <1>2, <2>1, <2>2, <2>3, SoundBeside DEF Disturbed
<1>5. CASE SelectInterface
  <2>1. /\ changed' = Append(changed, Selected)
        /\ UNCHANGED <<radio, states, failed, start_sent, confirmed>>
    BY <1>5 DEF SelectInterface, Select, NoCapture
  <2>2. Range(changed) \subseteq Range(changed')
    BY <1>1, <2>1, SelectedIsOne, AppendRange
  <2> QED BY <1>2, <2>1, <2>2, SoundStays DEF Disturbed
<1>6. CASE Tune \/ RaiseInterface
  <2>1. OnlyAt(Selected)
    BY <1>6, TuneEffect
  <2>2. UNCHANGED <<states, changed, failed, start_sent, confirmed>>
    BY <1>6 DEF Tune, RaiseInterface, Configure, NoCapture
  <2>3. Selected \in Range(changed)
    BY <1>6 DEF Tune, RaiseInterface, PhaseInv, Reconfiguring
  <2> QED BY <1>2, <2>1, <2>2, <2>3, SelectedIsOne, SoundBeside DEF Disturbed
<1>7. CASE RestoreNext
  <2>1. states # << >>
    BY <1>7 DEF RestoreNext, PhaseInv, Holding
  <2>2. PICK i : i = Last(changed)
    OBVIOUS
  <2>3. /\ OnlyAt(i) /\ changed # << >> /\ changed' = Front(changed)
        /\ failed \subseteq failed' /\ UNCHANGED states
        /\ i \in failed' \/ Sound(i)'
    BY <1>7, <2>1, <2>2, RestoreEffect
  <2>4. i \in Interface /\ Range(changed) = Range(changed') \cup {i}
    BY <1>1, <2>2, <2>3, FrontRange
  <2>5. UNCHANGED <<start_sent, confirmed>>
    BY <1>7 DEF RestoreNext, NoCapture
  <2>6. CASE j = i
    BY <2>3, <2>6
  <2>7. CASE j # i
    BY <1>2, <2>1, <2>3, <2>4, <2>5, <2>7, SoundBeside DEF Disturbed
  <2> QED BY <2>6, <2>7
<1>8. CASE CoreStep
  <2>1. UNCHANGED <<states, changed, failed, start_sent, confirmed>>
    BY <1>8 DEF CoreStep, runVars
  <2>2. CASE UNCHANGED radio
    BY <1>2, <2>1, <2>2, SoundStays DEF Disturbed
  <2>3. CASE radio' # radio
    <3>1. core = "none" /\ core' = "starting" /\ Core
      BY <1>8, <2>3 DEF CoreStep
    <3>2. commands # << >> /\ Head(commands) = "start" /\ commands \in Seq(Command)
      BY <3>1 DEF Core, CoreAnswers, CoreAccepts, CoreStarts, CoreStops, CoreSends, CoreEnds,
                  CoreSeesClose, TypeOK
    <3>3. ~CoreIsIdle
      BY <3>2 DEF CoreIsIdle, Range
    <3>4. start_sent /\ ~confirmed
      BY <3>3 DEF AskInv, StopInv
    <3>5. OnlyAt(Selected)
      <4>1. radio' = [radio EXCEPT ![Selected] = Tuned(radio[Selected], "capture")]
        BY <1>8, <2>3 DEF CoreStep
      <4>2. radio[Selected] \in InterfaceState
        BY SelectedIsOne DEF RadioOK
      <4>3. /\ Tuned(radio[Selected], "capture") \in InterfaceState
            /\ Tuned(radio[Selected], "capture").id = radio[Selected].id
        BY <4>2, AppliedType, Commanding DEF RadioCommand
      <4> QED BY <4>1, <4>3, SelectedIsOne, ReplacedAt
    <3> QED BY <1>2, <2>1, <3>4, <3>5, SelectedIsOne, SoundBeside DEF Disturbed
  <2> QED BY <2>2, <2>3
<1>9. CASE Elsewhere
  <2>1. UNCHANGED <<states, changed, failed, start_sent, confirmed>>
    BY <1>9 DEF Elsewhere, Occupy, Replace, runVars
  <2>2. CASE UNCHANGED radio
    BY <1>2, <2>1, <2>2, SoundStays DEF Disturbed
  <2>3. ASSUME NEW i \in Interface, Replace(i)
        PROVE  j \in Range(changed') \cup failed' \/ Disturbed(j)' \/ Sound(j)'
    <3>1. /\ radio[i].id = 0
          /\ radio' = [radio EXCEPT ![i] = [id |-> 1, mode |-> "managed", up |-> FALSE,
                                            channel |-> "none"]]
      BY <2>3 DEF Replace
    <3>2. radio \in [Interface -> InterfaceState] /\ states[i].id # 1
      BY <2>1, <3>1 DEF RadioOK
    <3>3. radio'[i].id = 1 /\ (j # i => radio'[j] = radio[j])
      BY <3>1, <3>2
    <3>4. CASE j = i
      BY <2>1, <3>2, <3>3, <3>4 DEF Sound, SameInterface
    <3>5. CASE j # i
      BY <1>2, <2>1, <3>3, <3>5 DEF Sound, SameInterface, AsFound, Disturbed
    <3> QED BY <3>4, <3>5
  <2> QED BY <1>9, <2>2, <2>3 DEF Elsewhere, Occupy
<1>10. CASE Join
  <2>1. UNCHANGED <<radio, states, changed, failed>> /\ pc = "joining"
    BY <1>10 DEF Join, radioVars
  <2>2. start_sent => Selected \in Range(changed)
    BY <2>1 DEF PhaseInv
  <2> QED BY <1>2, <2>1, <2>2, SoundStays DEF Disturbed
<1>11. CASE /\ ~EnterRadio /\ ~PauseSibling /\ ~SelectInterface /\ ~Tune /\ ~RaiseInterface
            /\ ~RestoreNext /\ ~CoreStep /\ ~Elsewhere /\ ~Join
  <2>1. UNCHANGED <<radio, states, changed, failed>>
    BY <1>11, RadioKept
  <2>2. UNCHANGED confirmed
    <3>1. Still \/ Moves
      BY Steps DEF TypeOK, PlaceInv
    <3> QED BY <1>11, <3>1 DEF Still, Moves, SpawnWorker, LaunchDirect, ParentExits, WorkerStep,
                              Breaks, SourceWrites, StreamStep, runVars
  <2>3. start_sent => start_sent'
    <3>1. CASE StartCore
      BY <3>1 DEF StartCore
    <3>2. CASE ~StartCore
      BY <1>11, <3>2, RequestSteps DEF AskStop, WorkerStep, runVars
    <3> QED BY <3>1, <3>2
  <2> QED BY <1>2, <2>1, <2>2, <2>3, SoundStays DEF Disturbed
<1> QED BY <1>3, <1>4, <1>5, <1>6, <1>7, <1>8, <1>9, <1>10, <1>11

-----------------------------------------------------------------------------
(* What the run still has to end.                                          *)

\* The callbacks that can be registered.
Todo == {<< >>, <<"capture">>, <<"analysis">>, <<"capture", "analysis">>}
CaptureTodo == todo \in {<<"capture">>, <<"capture", "analysis">>}

Starting == {"entering", "setup", "connecting", "preparing", "pausing", "tuning", "retuning",
             "raising", "starting", "started", "verifying", "launching"}
Begun == (Starting \cup {"running"}) \ {"entering", "setup"}

\* While nothing has gone wrong, what runs still has somebody to end it.
TodoInv ==
  /\ todo \in Todo
  /\ pc \in {"entering", "setup"} => todo = << >>
  /\ pc \in Starting => todo \in {<< >>, <<"capture">>}
  /\ backend = "core" /\ pc \in Begun => CaptureTodo
  /\ backend = "direct" => pc \notin {"raising", "starting"} /\ ~start_sent
  /\ backend = "direct" /\ source = "off" => todo = << >>
  /\ pc \in {"closing", "joining", "joined"} => ~CaptureTodo
  /\ ~reported /\ pc # "killed" /\ ~CaptureTodo =>
       /\ source = "run" => pc = "closing"
       /\ decoder = "run" => pc \in {"closing", "joining", "joined"}
       /\ worker \notin {"off", "exited"} => pc \in {"closing", "joining"}
       /\ start_sent /\ ~confirmed => pc \in {"closing", "joining"}

\* The callbacks are at most two: sequences of so few.
LEMMA AppendedLast ==
  ASSUME NEW S, NEW q \in Seq(S), NEW e \in S
  PROVE  Append(q, e)[Len(q) + 1] = e
OBVIOUS

\* The second of two.
LEMMA AppendedToOne ==
  ASSUME NEW S, NEW q \in Seq(S), NEW e \in S, Len(q) = 1
  PROVE  /\ Append(q, e) \in Seq(S) /\ Len(Append(q, e)) = 2
         /\ Append(q, e)[1] = q[1] /\ Append(q, e)[2] = e
<1>1. Append(q, e) \in Seq(S)
  OBVIOUS
<1>2. Len(Append(q, e)) = 2
  OBVIOUS
<1>3. Append(q, e)[1] = q[1]
  OBVIOUS
<1>4. Append(q, e)[2] = e
  <2>1. PICK n : n = Len(q) + 1
    OBVIOUS
  <2>2. Append(q, e)[n] = e
    BY <2>1, AppendedLast
  <2>3. n = 2
    BY <2>1
  <2> QED BY <2>2, <2>3
<1> QED BY <1>1, <1>2, <1>3, <1>4

\* Registering a callback, and taking the innermost.
LEMMA Callbacks ==
  /\ <<"capture">> \o << >> = <<"capture">>
  /\ Append(<< >>, "analysis") = <<"analysis">>
  /\ Append(<<"capture">>, "analysis") = <<"capture", "analysis">>
  /\ Tail(<<"capture">>) = << >> /\ Head(<<"capture">>) = "capture"
  /\ Tail(<<"analysis">>) = << >> /\ Head(<<"analysis">>) = "analysis"
  /\ Tail(<<"capture", "analysis">>) = <<"analysis">>
  /\ Head(<<"capture", "analysis">>) = "capture"
  /\ <<"capture">> # << >> /\ <<"analysis">> # << >> /\ <<"capture", "analysis">> # << >>
  /\ <<"capture">> # <<"analysis">> /\ <<"capture", "analysis">> # <<"analysis">>
  /\ <<"capture", "analysis">> # <<"capture">>
<1> DEFINE one == <<"capture">>
<1>1. one \o << >> = one
  <2>1. one \in Seq({"capture"})
    OBVIOUS
  <2> HIDE DEF one
  <2> QED BY <2>1, ConcatEmptySeq
<1>2. /\ Tail(<<"capture">>) = << >> /\ Head(<<"capture">>) = "capture"
      /\ Tail(<<"analysis">>) = << >> /\ Head(<<"analysis">>) = "analysis"
      /\ Tail(<<"capture", "analysis">>) = <<"analysis">>
      /\ Head(<<"capture", "analysis">>) = "capture"
  OBVIOUS
<1>3. Append(<< >>, "analysis") = <<"analysis">>
  OBVIOUS
<1>4. Append(<<"capture">>, "analysis") = <<"capture", "analysis">>
  <2> DEFINE longer == Append(one, "analysis")
             both == <<"capture", "analysis">>
  <2>1. one \in Seq({"capture", "analysis"}) /\ Len(one) = 1 /\ one[1] = "capture"
    OBVIOUS
  <2>2. both \in Seq({"capture", "analysis"}) /\ Len(both) = 2
        /\ both[1] = "capture" /\ both[2] = "analysis"
    OBVIOUS
  <2> HIDE DEF one, both
  <2>3. longer \in Seq({"capture", "analysis"}) /\ Len(longer) = 2
        /\ longer[1] = "capture" /\ longer[2] = "analysis"
    <3>1. "analysis" \in {"capture", "analysis"}
      OBVIOUS
    <3> QED BY <2>1, <3>1, AppendedToOne
  <2> HIDE DEF longer
  <2>4. longer = both
    <3>1. longer \in [1 .. 2 -> {"capture", "analysis"}]
      BY <2>3
    <3>2. both \in [1 .. 2 -> {"capture", "analysis"}]
      BY <2>2
    <3>3. \A k \in 1 .. 2 : longer[k] = both[k]
      BY <2>2, <2>3
    <3> QED BY <3>1, <3>2, <3>3
  <2> QED BY <2>4 DEF longer, both, one
<1>5. <<"capture">> # << >> /\ <<"analysis">> # << >> /\ <<"capture", "analysis">> # << >>
  OBVIOUS
<1>6. /\ <<"capture">> # <<"analysis">> /\ <<"capture", "analysis">> # <<"analysis">>
      /\ <<"capture", "analysis">> # <<"capture">>
  OBVIOUS
<1> QED BY <1>1, <1>2, <1>3, <1>4, <1>5, <1>6

\* The innermost callback, taken.
LEMMA Popped ==
  ASSUME todo \in Todo, todo # << >>, todo' = Tail(todo)
  PROVE  /\ todo' \in Todo
         /\ Head(todo) = "capture" => ~CaptureTodo'
         /\ Head(todo) = "analysis" => ~CaptureTodo /\ ~CaptureTodo' /\ todo' = << >>
BY Callbacks DEF Todo, CaptureTodo

\* The step of an end that raises, or that leaves nothing running.
LEMMA UnwindsTodoInv ==
  ASSUME TodoInv, pc' \in {"unwinding", "done", "killed", "restoring", "releasing"},
         UNCHANGED <<todo, backend>>,
         source' = "off" => source = "off",
         backend = "direct" => UNCHANGED start_sent,
         \/ reported' \/ pc' = "killed"
         \/ /\ ~CaptureTodo => /\ source' # "run" /\ decoder' # "run"
                               /\ worker' \in {"off", "exited"} /\ ~(start_sent' /\ ~confirmed')
  PROVE  TodoInv'
<1>1. CaptureTodo' = CaptureTodo
  BY DEF CaptureTodo
<1> HIDE DEF CaptureTodo, Todo
<1>2. Todo' = Todo
  BY DEF Todo
<1> QED BY <1>1, <1>2 DEF TodoInv, Starting, Begun

\* A step of the processes around the run.
LEMMA RunsTodoInv ==
  ASSUME TodoInv, UNCHANGED <<todo, backend, reported, pc, start_sent, confirmed>>,
         source' \in {source, "done"}, decoder' \in {decoder, "done"},
         worker \in {"off", "exited"} => worker' \in {worker, "exited"}
  PROVE  TodoInv'
<1>1. CaptureTodo' = CaptureTodo
  BY DEF CaptureTodo
<1> HIDE DEF CaptureTodo, Todo
<1>2. Todo' = Todo
  BY DEF Todo
<1> QED BY <1>1, <1>2 DEF TodoInv

\* A step of the run that starts nothing and raises nothing.
LEMMA GoesTodoInv ==
  ASSUME TodoInv, UNCHANGED <<todo, backend, source, decoder, worker, start_sent, confirmed>>,
         reported => reported',
         pc \in Starting \cup {"running", "unwinding"},
         pc' \in (Starting \cup {"running", "unwinding", "restoring"}) \ {"entering"},
         pc' \in Starting => pc \in Starting,
         pc' = "setup" => pc = "entering",
         backend = "core" /\ pc' \in Begun => pc \in Begun,
         pc' \in {"raising", "starting"} => backend = "core" \/ pc \in {"raising", "starting"}
  PROVE  TodoInv'
<1>1. CaptureTodo' = CaptureTodo
  BY DEF CaptureTodo
<1> HIDE DEF CaptureTodo, Todo
<1>2. Todo' = Todo
  BY DEF Todo
<1> QED BY <1>1, <1>2 DEF TodoInv, Starting, Begun

\* The transport worker moves only between its start and its end.
LEMMA WorkerRuns ==
  ASSUME WorkerStep
  PROVE  worker \notin {"off", "exited"}
BY Successors DEF WorkerStep, Worker, WorkerConnects, WorkerHears, Waiting, WorkerGivesUp,
   WorkerReceives, Receiving, WriteFails, WorkerConfirms, WorkerExits, WorkerStarts, WorkerStops,
   WorkerWrites

\* What starts the capture leaves its callback on the stack.
LEMMA StartupTodoInv ==
  TypeOK /\ PlaceInv /\ TodoInv /\ Startup => TodoInv'
<1> SUFFICES ASSUME TypeOK, PlaceInv, TodoInv, Startup PROVE TodoInv'
  OBVIOUS
<1> USE DEF Quiet, NoCapture, captureVars, streamVars, workerVars, Goto, Raises, Commanded
<1>1. backend \in {"core", "direct"} /\ (backend = "core" => source = "off")
  BY DEF TypeOK, PlaceInv
<1>2. pc \in {"entering", "setup"} => todo = << >>
  BY DEF TodoInv
<1>3. CASE EnterRadio
  <2>1. /\ pc = "entering"
        /\ (pc' = "setup" /\ UNCHANGED reported) \/ (pc' = "done" /\ reported')
        /\ UNCHANGED <<todo, backend, source, decoder, worker, start_sent, confirmed>>
    BY <1>3 DEF EnterRadio
  <2> QED BY <2>1, UnwindsTodoInv, GoesTodoInv DEF Starting, Begun
<1>4. CASE SpawnWorker
  <2>1. /\ pc = "setup" /\ backend = "core" /\ UNCHANGED <<backend, source, start_sent, confirmed>>
        /\ \/ pc' = "connecting" /\ todo' = <<"capture">>
           \/ pc' = "unwinding" /\ reported' /\ UNCHANGED todo
    BY <1>4 DEF SpawnWorker
  <2>2. CASE pc' = "connecting" /\ todo' = <<"capture">>
    <3>1. todo' \in Todo /\ CaptureTodo'
      BY <2>2 DEF Todo, CaptureTodo
    <3> HIDE DEF Todo, CaptureTodo
    <3>2. Todo' = Todo
      BY DEF Todo
    <3> QED BY <2>1, <2>2, <3>1, <3>2 DEF TodoInv, Starting, Begun
  <2>3. CASE pc' = "unwinding" /\ reported' /\ UNCHANGED todo
    BY <2>1, <2>3, UnwindsTodoInv
  <2> QED BY <2>1, <2>2, <2>3
<1>5. CASE BeginDirect
  <2>1. /\ pc = "setup" /\ pc' = "preparing" /\ backend = "direct"
        /\ UNCHANGED <<todo, backend, reported, source, decoder, worker, start_sent, confirmed>>
    BY <1>5 DEF BeginDirect
  <2> QED BY <2>1, GoesTodoInv DEF Starting, Begun
<1>6. CASE \/ WaitPhase("connecting", "ready", "preparing")
           \/ WaitPhase("started", "started", "verifying")
           \/ Prepare \/ PauseSibling \/ Tune \/ RaiseInterface \/ Verify
  <2>1. /\ UNCHANGED <<todo, backend, source, decoder, worker, start_sent, confirmed>>
        /\ pc \in Begun \cap Starting
    BY <1>6 DEF WaitPhase, Prepare, PauseSibling, Tune, RaiseInterface, Verify, Begun, Starting
  <2>2. /\ reported => reported'
        /\ pc' \in {"unwinding", "preparing", "verifying", "pausing", "retuning", "launching",
                    "starting"}
        /\ pc' = "starting" => pc = "raising"
        /\ pc' = "unwinding" => reported'
    <3>1. CASE \/ WaitPhase("connecting", "ready", "preparing")
               \/ WaitPhase("started", "started", "verifying")
               \/ Prepare \/ Verify
      BY <3>1 DEF WaitPhase, Prepare, Verify
    <3>2. CASE PauseSibling \/ RaiseInterface
      BY <3>2 DEF PauseSibling, RaiseInterface
    <3>3. CASE Tune
      <4>1. PICK ok \in BOOLEAN :
              IF ~ok /\ pc = "tuning" THEN Fault /\ pc' \in {"retuning", "unwinding"}
                                            /\ reported' = (pc' = "unwinding" \/ reported)
                                       ELSE Commanded(ok, "launching")
        BY <3>3 DEF Tune
      <4>2. CASE reported' = (pc' = "unwinding" \/ reported) /\ pc' \in {"retuning", "unwinding"}
        BY <4>2
      <4>3. CASE Commanded(ok, "launching")
        BY <4>3
      <4> HIDE DEF Commanded, Goto, Raises
      <4> QED BY <4>1, <4>2, <4>3
    <3> QED BY <1>6, <3>1, <3>2, <3>3
  <2>3. CASE pc' = "unwinding"
    BY <2>1, <2>2, <2>3, UnwindsTodoInv
  <2>4. CASE pc' # "unwinding"
    <3>1. /\ pc' \in (Starting \cup {"running", "unwinding", "restoring"}) \ {"entering"}
          /\ pc' # "setup"
      BY <2>2, <2>4 DEF Starting
    <3>2. pc \in Starting \cup {"running", "unwinding"} /\ pc \in Begun /\ pc \in Starting
      BY <2>1
    <3>3. pc' \in {"raising", "starting"} => backend = "core" \/ pc \in {"raising", "starting"}
      BY <2>2
    <3>4. reported => reported'
      BY <2>2
    <3>5. UNCHANGED <<todo, backend, source, decoder, worker, start_sent, confirmed>>
      BY <2>1
    <3> QED BY <3>1, <3>2, <3>3, <3>4, <3>5, GoesTodoInv
  <2> QED BY <2>3, <2>4
<1>7. CASE SelectInterface
  <2>1. /\ pc = "pausing" /\ pc' = (IF backend = "core" THEN "raising" ELSE "tuning")
        /\ UNCHANGED <<todo, backend, reported, source, decoder, worker, start_sent, confirmed>>
    BY <1>7 DEF SelectInterface
  <2> QED BY <2>1, GoesTodoInv DEF Starting, Begun
<1>8. CASE StartCore
  <2>1. /\ pc = "starting" /\ UNCHANGED <<todo, backend, source, decoder, worker, confirmed>>
        /\ pc' = "started" \/ (pc' = "unwinding" /\ reported')
    BY <1>8 DEF StartCore
  <2>2. backend = "core" /\ CaptureTodo
    BY <1>1, <2>1 DEF TodoInv, Starting, Begun
  <2>3. CaptureTodo' = CaptureTodo /\ Todo' = Todo
    BY <2>1 DEF CaptureTodo, Todo
  <2> HIDE DEF CaptureTodo, Todo
  <2> QED BY <2>1, <2>2, <2>3 DEF TodoInv, Starting, Begun
<1>9. CASE LaunchDirect
  <2>1. /\ pc = "launching" /\ backend = "direct" /\ source = "off"
        /\ UNCHANGED <<backend, worker, start_sent, confirmed>>
        /\ \/ pc' = "launching" /\ todo' = <<"capture">> \o todo /\ source' = "run"
           \/ pc' = "unwinding" /\ reported' /\ UNCHANGED <<todo, source, decoder>>
    BY <1>9 DEF LaunchDirect
  <2>2. CASE pc' = "launching" /\ todo' = <<"capture">> \o todo /\ source' = "run"
    <3>1. todo = << >>
      BY <2>1 DEF TodoInv
    <3>2. todo' = <<"capture">>
      BY <2>2, <3>1, Callbacks
    <3>3. todo' \in Todo /\ CaptureTodo'
      BY <3>2 DEF Todo, CaptureTodo
    <3> HIDE DEF Todo, CaptureTodo
    <3>4. Todo' = Todo
      BY DEF Todo
    <3> QED BY <2>1, <2>2, <3>2, <3>3, <3>4 DEF TodoInv, Starting, Begun
  <2>3. CASE pc' = "unwinding" /\ reported' /\ UNCHANGED <<todo, source, decoder>>
    BY <2>1, <2>3, UnwindsTodoInv
  <2> QED BY <2>1, <2>2, <2>3
<1>10. CASE LaunchAnalysis
  <2>1. /\ pc = "launching" /\ pc' = "running" /\ todo' = Append(todo, "analysis")
        /\ UNCHANGED <<backend, reported, source, decoder, worker, start_sent, confirmed>>
        /\ backend = "direct" => source # "off"
    BY <1>1, <1>10 DEF LaunchAnalysis
  <2>2. todo \in {<< >>, <<"capture">>}
    BY <2>1 DEF TodoInv, Starting
  <2>3. /\ todo' \in Todo
        /\ (CaptureTodo' <=> CaptureTodo)
    BY <2>1, <2>2, Callbacks DEF Todo, CaptureTodo
  <2> HIDE DEF Todo, CaptureTodo
  <2>4. Todo' = Todo
    BY DEF Todo
  <2> QED BY <2>1, <2>3, <2>4 DEF TodoInv, Starting, Begun
<1> QED BY <1>3, <1>4, <1>5, <1>6, <1>7, <1>8, <1>9, <1>10 DEF Startup

\* What takes the callback ends the capture, or raises.
LEMMA ShutdownTodoInv ==
  TypeOK /\ PlaceInv /\ AskInv /\ StopInv /\ TodoInv /\ Shutdown => TodoInv'
<1> SUFFICES ASSUME TypeOK, PlaceInv, AskInv, StopInv, TodoInv, Shutdown PROVE TodoInv'
  OBVIOUS
<1> USE DEF Quiet, NoCapture, captureVars, streamVars, workerVars, Goto, Raises
<1>1. /\ backend \in {"core", "direct"} /\ (backend = "core" => source = "off")
      /\ (backend = "direct" => worker = "off")
  BY DEF TypeOK, PlaceInv
<1>2. ~reported /\ pc # "killed" /\ ~CaptureTodo =>
        /\ source = "run" => pc = "closing"
        /\ decoder = "run" => pc \in {"closing", "joining", "joined"}
        /\ worker \notin {"off", "exited"} => pc \in {"closing", "joining"}
        /\ start_sent /\ ~confirmed => pc \in {"closing", "joining"}
  BY DEF TodoInv
<1>3. backend = "direct" => ~start_sent
  BY DEF TodoInv
<1>4. Todo' = Todo
  BY DEF Todo
<1>5. CASE LoopEnds \/ BeginRestore \/ EndRestore \/ ReleaseRadio \/ RestoreNext
  <2>1. /\ pc' \in {"unwinding", "restoring", "releasing", "done"}
        /\ UNCHANGED <<todo, backend, source, decoder, worker, start_sent, confirmed>>
        /\ pc \in {"running", "unwinding", "restoring", "releasing"}
        /\ reported' \/ UNCHANGED reported
    BY <1>5 DEF LoopEnds, BeginRestore, EndRestore, ReleaseRadio, RestoreNext
  <2>2. ~reported /\ ~CaptureTodo => /\ source' # "run" /\ decoder' # "run"
                                     /\ worker' \in {"off", "exited"}
                                     /\ ~(start_sent' /\ ~confirmed')
    BY <1>2, <2>1
  <2> HIDE DEF CaptureTodo
  <2>3. CASE reported
    BY <2>1, <2>3, UnwindsTodoInv
  <2>4. CASE ~reported
    BY <2>1, <2>2, <2>4, UnwindsTodoInv
  <2> QED BY <2>3, <2>4
<1>6. CASE CloseCapture
  <2>1. /\ pc = "unwinding" /\ pc' = "closing" /\ todo # << >> /\ Head(todo) = "capture"
        /\ todo' = Tail(todo)
        /\ UNCHANGED <<backend, source, start_sent>>
    BY <1>6 DEF CloseCapture
  <2>2. todo' \in Todo /\ ~CaptureTodo'
    BY <2>1, Popped DEF TodoInv
  <2>3. ~(backend = "direct" /\ source = "off")
    BY <2>1 DEF TodoInv
  <2> HIDE DEF CaptureTodo, Todo
  <2> QED BY <1>4, <2>1, <2>2, <2>3 DEF TodoInv, Starting, Begun
<1>7. CASE CloseDirect
  <2>1. /\ pc = "closing" /\ pc' = "unwinding" /\ backend = "direct"
        /\ UNCHANGED <<todo, backend, worker, start_sent, confirmed>>
        /\ source' \in {source, "done"}
        /\ reported' \/ (source' = "done" /\ decoder' # "run")
    BY <1>7 DEF CloseDirect
  <2> QED BY <1>1, <1>3, <2>1, UnwindsTodoInv
<1>8. CASE AskStop
  <2>1. /\ pc = "closing" /\ pc' = "joining" /\ backend = "core"
        /\ UNCHANGED <<todo, backend, reported, source, decoder, worker, start_sent, confirmed>>
    BY <1>8 DEF AskStop
  <2>2. CaptureTodo' = CaptureTodo
    BY <2>1 DEF CaptureTodo
  <2> HIDE DEF CaptureTodo, Todo
  <2> QED BY <1>1, <1>4, <2>1, <2>2 DEF TodoInv, Starting, Begun
<1>9. CASE Join
  <2>1. /\ pc = "joining" /\ pc' = "joined" /\ backend = "core" /\ worker' = "exited"
        /\ UNCHANGED <<todo, backend, source, decoder>>
        /\ start_sent' /\ ~confirmed' => reported'
        /\ reported' \/ UNCHANGED reported
    BY <1>9 DEF Join, Killed, Exits, PlaceInv
  <2>2. CaptureTodo' = CaptureTodo
    BY <2>1 DEF CaptureTodo
  <2> HIDE DEF CaptureTodo, Todo
  <2> QED BY <1>1, <1>4, <2>1, <2>2 DEF TodoInv, Starting, Begun
<1>10. CASE CloseDecoder
  <2>1. /\ pc = "joined" /\ pc' = "unwinding"
        /\ UNCHANGED <<todo, backend, source, worker, start_sent, confirmed>>
        /\ reported' \/ (UNCHANGED reported /\ decoder' = "done")
    BY <1>10 DEF CloseDecoder
  <2>2. ~reported /\ ~CaptureTodo => /\ source' # "run" /\ worker' \in {"off", "exited"}
                                     /\ ~(start_sent' /\ ~confirmed')
    BY <1>2, <2>1
  <2> HIDE DEF CaptureTodo
  <2>3. CASE reported'
    BY <2>1, <2>3, UnwindsTodoInv
  <2>4. CASE ~reported /\ decoder' = "done"
    BY <2>1, <2>2, <2>4, UnwindsTodoInv
  <2> QED BY <2>1, <2>3, <2>4
<1>11. CASE CloseAnalysis
  <2>1. /\ pc = "unwinding" /\ pc' = "unwinding" /\ todo # << >> /\ Head(todo) = "analysis"
        /\ todo' = Tail(todo)
        /\ UNCHANGED <<backend, reported, source, decoder, worker, start_sent, confirmed>>
    BY <1>11 DEF CloseAnalysis
  <2>2. todo' \in Todo /\ ~CaptureTodo /\ ~CaptureTodo' /\ todo' = << >>
    BY <2>1, Popped DEF TodoInv
  <2> HIDE DEF CaptureTodo, Todo
  <2> QED BY <1>4, <2>1, <2>2 DEF TodoInv, Starting, Begun
<1>12. CASE ParentExits
  <2>1. /\ UNCHANGED <<todo, backend, reported, pc, source, decoder, start_sent, confirmed>>
        /\ worker' \in {worker, "exited"}
    BY <1>12 DEF ParentExits, Killed, Exits
  <2> QED BY <2>1, RunsTodoInv
<1> QED BY <1>5, <1>6, <1>7, <1>8, <1>9, <1>10, <1>11, <1>12 DEF Shutdown

\* Every step keeps a capture that is on owed.
LEMMA StepTodoInv ==
  TypeOK /\ PlaceInv /\ AskInv /\ StopInv /\ TodoInv /\ [Next]_vars => TodoInv'
<1> SUFFICES ASSUME TypeOK, PlaceInv, AskInv, StopInv, TodoInv, [Next]_vars PROVE TodoInv'
  OBVIOUS
<1> USE DEF NoCapture, captureVars, streamVars, workerVars, runVars
<1>1. CASE Interrupt
  <2>1. /\ UNCHANGED <<backend, source, decoder, worker, start_sent, confirmed>>
        /\ pc' \in {"unwinding", "done"}
        /\ reported' \/ (UNCHANGED <<reported, todo>> /\ pc = "running")
    BY <1>1 DEF Interrupt, Goto, Raises
  <2>2. CASE UNCHANGED todo
    <3>1. ~reported /\ pc # "killed" /\ ~CaptureTodo =>
            /\ source = "run" => pc = "closing"
            /\ decoder = "run" => pc \in {"closing", "joining", "joined"}
            /\ worker \notin {"off", "exited"} => pc \in {"closing", "joining"}
            /\ start_sent /\ ~confirmed => pc \in {"closing", "joining"}
      BY DEF TodoInv
    <3> HIDE DEF CaptureTodo
    <3>2. CASE reported'
      BY <2>1, <2>2, <3>2, UnwindsTodoInv
    <3>3. CASE ~reported' /\ ~reported /\ pc = "running"
      BY <2>1, <2>2, <3>1, <3>3, UnwindsTodoInv
    <3> QED BY <2>1, <3>2, <3>3
  <2>3. CASE pc = "unwinding" /\ todo # << >> /\ Head(todo) = "analysis" /\ todo' = Tail(todo)
    <3>1. todo' \in Todo /\ todo' = << >> /\ reported'
      BY <2>1, <2>3, Popped DEF TodoInv
    <3>2. Todo' = Todo
      BY DEF Todo
    <3> HIDE DEF CaptureTodo, Todo
    <3> QED BY <2>1, <3>1, <3>2 DEF TodoInv, Starting, Begun
  <2> QED BY <1>1, <2>2, <2>3 DEF Interrupt
<1>2. CASE RunKilled
  <2>1. UNCHANGED <<todo, backend, source, start_sent>> /\ pc' = "killed"
    BY <1>2 DEF RunKilled
  <2> QED BY <2>1, UnwindsTodoInv
<1>3. CASE CoreStep \/ SourceWrites \/ StreamStep \/ Elsewhere
  <2>1. UNCHANGED <<todo, backend, reported, pc, source, decoder, worker, start_sent, confirmed>>
    BY <1>3 DEF CoreStep, Core, SourceWrites, StreamStep, FanoutReads, FanoutWrites, FanoutEnds,
                DecoderReads, Elsewhere
  <2> QED BY <2>1, RunsTodoInv
<1>4. CASE WorkerStep
  <2>1. UNCHANGED <<todo, backend, reported, pc, source, decoder, start_sent, confirmed>>
    BY <1>4 DEF WorkerStep, Worker, WorkerWrites
  <2>2. worker \notin {"off", "exited"}
    BY <1>4, WorkerRuns
  <2> QED BY <2>1, <2>2, RunsTodoInv
<1>5. CASE Breaks \/ SourceDies
  <2>1. /\ UNCHANGED <<todo, backend, reported, pc, start_sent, confirmed>>
        /\ source' \in {source, "done"} /\ decoder' \in {decoder, "done"}
        /\ worker' \in {worker, "exited"}
    BY <1>5 DEF Breaks, SourceDies, WorkerDies, Killed, Exits, CoreRestarts, DecoderDies
  <2> QED BY <2>1, RunsTodoInv
<1>6. CASE UNCHANGED vars
  <2>1. UNCHANGED <<todo, backend, reported, pc, source, decoder, worker, start_sent, confirmed>>
    BY <1>6 DEF vars
  <2> QED BY <2>1, RunsTodoInv
<1> QED BY <1>1, <1>2, <1>3, <1>4, <1>5, <1>6, StartupTodoInv, ShutdownTodoInv DEF Next

-----------------------------------------------------------------------------
(* How a run that has reported nothing ends.                               *)

CleanInv ==
  /\ pc \in {"restoring", "releasing"} => todo = << >>
  /\ ~reported => ~refused
  /\ ~reported /\ pc = "done" => todo = << >>
  /\ ~reported /\ pc \in {"releasing", "done"} =>
       failed = {} /\ changed = << >> /\ states # << >>
  /\ ~reported /\ pc = "done" /\ backend = "core" /\ Restorable => verified

\* Without an error, nothing of the capture is left once its callback was taken.
LEMMA Undisturbed ==
  ASSUME AskInv, StopInv, TodoInv, ~reported, todo = << >>,
         pc \notin {"killed", "closing", "joining", "joined"}
  PROVE  /\ ~(start_sent /\ ~confirmed) /\ CoreIsIdle
         /\ source # "run" /\ decoder # "run" /\ worker \in {"off", "exited"}
<1>1. ~CaptureTodo
  BY DEF CaptureTodo
<1>2. /\ ~(start_sent /\ ~confirmed)
      /\ source # "run" /\ decoder # "run" /\ worker \in {"off", "exited"}
  <2> HIDE DEF CaptureTodo
  <2> QED BY <1>1 DEF TodoInv
<1>3. CoreIsIdle
  BY <1>2 DEF AskInv, StopInv
<1> QED BY <1>2, <1>3

\* With nothing changed, failed or still to come, every interface is as found.
LEMMA AllSound ==
  ASSUME RestoreInv, states # << >>, changed = << >>, failed = {}, ~(start_sent /\ ~confirmed)
  PROVE  \A i \in Interface : Sound(i)
<1>1. Range(changed) = {}
  BY DEF Range
<1> QED BY <1>1 DEF RestoreInv, Disturbed

\* A step that does not reach the restoration, or raises on its way past it.
LEMMA PassesCleanInv ==
  ASSUME CleanInv, UNCHANGED refused, reported => reported',
         \/ pc' \notin {"restoring", "releasing", "done"}
         \/ pc' = "done" /\ reported'
  PROVE  CleanInv'
BY DEF CleanInv

\* A step of somebody else.
LEMMA StaysCleanInv ==
  ASSUME CleanInv,
         UNCHANGED <<pc, todo, reported, refused, failed, changed, states, backend, verified>>,
         pc = "done" /\ ~reported => UNCHANGED radio
  PROVE  CleanInv'
<1>1. pc = "done" /\ ~reported => Restorable' = Restorable
  BY DEF Restorable, SameInterface
<1> HIDE DEF Restorable
<1> QED BY <1>1 DEF CleanInv

\* A run reaches its end unreported only with everything restored.
LEMMA StepCleanInv ==
  /\ TypeOK /\ PlaceInv /\ AskInv /\ StopInv /\ PhaseInv /\ RestoreInv /\ TodoInv /\ CleanInv
  /\ [Next]_vars
  => CleanInv'
<1> SUFFICES ASSUME TypeOK, PlaceInv, AskInv, StopInv, PhaseInv, RestoreInv, TodoInv, CleanInv,
                    [Next]_vars
             PROVE  CleanInv'
  OBVIOUS
<1>1. CASE Startup
  <2> USE DEF Goto, Raises, Commanded, radioVars
  <2>1. UNCHANGED refused
    BY <1>1 DEF Startup, EnterRadio, Enter, SpawnWorker, BeginDirect, WaitPhase, Prepare,
       PauseSibling, Pause, SelectInterface, Select, Tune, RaiseInterface, Configure, StartCore,
       Verify, LaunchDirect, LaunchAnalysis
  <2>2. CASE Tune
    <3>1. pc' \in {"retuning", "unwinding", "launching"}
      BY <2>2 DEF Tune
    <3>2. reported => reported'
      <4>1. PICK ok \in BOOLEAN :
              IF ~ok /\ pc = "tuning" THEN Fault /\ pc' \in {"retuning", "unwinding"}
                                            /\ reported' = (pc' = "unwinding" \/ reported)
                                       ELSE Commanded(ok, "launching")
        BY <2>2 DEF Tune
      <4>2. CASE reported' = (pc' = "unwinding" \/ reported)
        BY <4>2
      <4>3. CASE Commanded(ok, "launching")
        BY <4>3
      <4> HIDE DEF Commanded, Goto, Raises
      <4> QED BY <4>1, <4>2, <4>3
    <3> QED BY <2>1, <3>1, <3>2, PassesCleanInv
  <2>3. CASE PauseSibling \/ RaiseInterface
    <3>1. pc' \in {"pausing", "unwinding", "starting"} /\ (reported => reported')
      BY <2>3 DEF PauseSibling, RaiseInterface
    <3> QED BY <2>1, <3>1, PassesCleanInv
  <2>4. CASE EnterRadio
    <3>1. /\ \/ pc' = "setup"
             \/ pc' = "done" /\ reported'
          /\ reported => reported'
      BY <2>4 DEF EnterRadio
    <3> QED BY <2>1, <3>1, PassesCleanInv
  <2>5. CASE \/ SpawnWorker \/ BeginDirect
             \/ WaitPhase("connecting", "ready", "preparing")
             \/ WaitPhase("started", "started", "verifying")
             \/ Prepare \/ SelectInterface \/ StartCore \/ Verify \/ LaunchDirect \/ LaunchAnalysis
    <3>1. /\ pc' \notin {"restoring", "releasing", "done"}
          /\ reported => reported'
      BY <2>5 DEF SpawnWorker, BeginDirect, WaitPhase, Prepare, SelectInterface, StartCore, Verify,
                  LaunchDirect, LaunchAnalysis
    <3> QED BY <2>1, <3>1, PassesCleanInv
  <2> QED BY <1>1, <2>2, <2>3, <2>4, <2>5 DEF Startup
<1>2. CASE LoopEnds \/ CloseCapture \/ CloseDirect \/ AskStop \/ Join \/ CloseDecoder
           \/ CloseAnalysis
  <2>1. /\ UNCHANGED refused /\ (reported => reported')
        /\ pc' \notin {"restoring", "releasing", "done"}
    BY <1>2 DEF LoopEnds, CloseCapture, CloseDirect, AskStop, Join, CloseDecoder, CloseAnalysis,
                Goto, Raises, radioVars
  <2> QED BY <2>1, PassesCleanInv
<1>3. CASE BeginRestore
  <2>1. /\ todo = << >> /\ UNCHANGED todo /\ pc' \in {"restoring", "releasing"}
        /\ \/ reported'
           \/ UNCHANGED <<reported, refused>> /\ pc' = "restoring"
    BY <1>3 DEF BeginRestore, Goto, Raises, radioVars
  <2> QED BY <2>1 DEF CleanInv
<1>4. CASE RestoreNext
  <2>1. pc = "restoring" /\ pc' = "restoring" /\ UNCHANGED <<todo, reported, refused>>
    BY <1>4 DEF RestoreNext, RestoreOne, Goto
  <2> QED BY <2>1 DEF CleanInv
<1>5. CASE EndRestore
  <2>1. /\ pc = "restoring" /\ pc' = "releasing" /\ changed = << >>
        /\ UNCHANGED <<todo, refused, failed, changed, states>>
        /\ \/ reported'
           \/ UNCHANGED reported /\ failed = {}
    BY <1>5 DEF EndRestore, Goto, Raises, radioVars
  <2>2. states # << >>
    BY <2>1 DEF PhaseInv, Holding
  <2> QED BY <2>1, <2>2 DEF CleanInv
<1>6. CASE ReleaseRadio
  <2>1. /\ pc = "releasing" /\ pc' = "done"
        /\ UNCHANGED <<radio, states, changed, failed, refused, backend, todo, reported>>
        /\ verified' = (backend = "core" /\ Verified)
    BY <1>6 DEF ReleaseRadio, Release, Goto
  <2>2. ASSUME ~reported, backend = "core", Restorable PROVE verified'
    <3>1. failed = {} /\ changed = << >> /\ states # << >> /\ todo = << >>
      BY <2>1, <2>2 DEF CleanInv
    <3>2. ~(start_sent /\ ~confirmed)
      BY <2>1, <2>2, <3>1, Undisturbed
    <3>3. \A i \in Interface : Sound(i)
      BY <3>1, <3>2, AllSound
    <3>4. Verified
      BY <2>2, <3>3 DEF Verified, Restorable, Sound
    <3> QED BY <2>1, <2>2, <3>4
  <2>3. Restorable' = Restorable
    BY <2>1 DEF Restorable, SameInterface
  <2> HIDE DEF Restorable
  <2> QED BY <2>1, <2>2, <2>3 DEF CleanInv
<1>7. CASE Interrupt
  <2>1. /\ UNCHANGED refused
        /\ reported => reported'
        /\ \/ pc' = "unwinding"
           \/ pc' = "done" /\ reported'
    BY <1>7 DEF Interrupt, Goto, Raises, radioVars
  <2> QED BY <2>1, PassesCleanInv
<1>8. CASE RunKilled
  <2>1. UNCHANGED <<refused, reported>> /\ pc' = "killed"
    BY <1>8 DEF RunKilled
  <2> QED BY <2>1, PassesCleanInv
<1>9. CASE CoreStep
  <2>1. UNCHANGED <<pc, todo, reported, refused, failed, changed, states, backend, verified>>
    BY <1>9 DEF CoreStep, runVars
  <2>2. ASSUME pc = "done", ~reported PROVE UNCHANGED radio
    <3>1. todo = << >>
      BY <2>2 DEF CleanInv
    <3>2. CoreIsIdle
      BY <2>2, <3>1, Undisturbed
    <3>3. ASSUME core = "none", core' = "starting" PROVE FALSE
      <4>1. commands # << >> /\ Head(commands) = "start" /\ commands \in Seq(Command)
        BY <1>9, <3>3 DEF CoreStep, Core, CoreAnswers, CoreAccepts, CoreStarts, CoreStops,
                          CoreSends, CoreEnds, CoreSeesClose, TypeOK
      <4> QED BY <3>2, <4>1 DEF CoreIsIdle, Range
    <3> QED BY <1>9, <3>3 DEF CoreStep
  <2> QED BY <2>1, <2>2, StaysCleanInv
<1>10. CASE Elsewhere
  <2>1. /\ UNCHANGED <<pc, todo, reported, refused, failed, changed, states, backend, verified>>
        /\ pc # "done"
    BY <1>10 DEF Elsewhere, Occupy, Replace, runVars
  <2> QED BY <2>1, StaysCleanInv
<1>11. CASE ParentExits \/ WorkerStep \/ Breaks \/ SourceWrites \/ SourceDies \/ StreamStep
            \/ UNCHANGED vars
  <2>1. UNCHANGED <<pc, todo, reported, refused, failed, changed, states, backend, verified, radio>>
    BY <1>11 DEF ParentExits, WorkerStep, Breaks, SourceWrites, SourceDies, StreamStep, vars,
                 radioVars, runVars
  <2> QED BY <2>1, StaysCleanInv
<1> QED BY <1>1, <1>2, <1>3, <1>4, <1>5, <1>6, <1>7, <1>8, <1>9, <1>10, <1>11 DEF Next, Shutdown

-----------------------------------------------------------------------------
(* What the run promises of the radio.                                     *)

\* The invariants of the run, of its radio and of its ends together.
RunInv == RadioOK /\ AskInv /\ PhaseInv /\ RestoreInv /\ TodoInv /\ CleanInv

\* All of it holds at the start.
LEMMA InitRunInv == Init => RunInv
<1> SUFFICES ASSUME Init PROVE RunInv
  OBVIOUS
<1> USE DEF Init, RadioInit
<1>1. radio \in [Interface -> InterfaceState]
  BY FoundAssumption
<1>2. << >> \in Seq(Interface)
  OBVIOUS
<1>3. RadioOK
  BY <1>1, <1>2 DEF RadioOK
<1>4. PhaseInv
  BY DEF PhaseInv, Holding, Reconfiguring
<1>5. RestoreInv
  BY DEF RestoreInv
<1>6. TodoInv
  <2>1. << >> \in Todo /\ ~CaptureTodo
    BY Callbacks DEF Todo, CaptureTodo
  <2>2. backend \in {"core", "direct"}
    BY RunAssumption
  <2>3. worker = "off" /\ decoder = "off"
    BY DEF CaptureInit
  <2> HIDE DEF Todo, CaptureTodo
  <2> QED BY <2>1, <2>2, <2>3 DEF TodoInv, Starting, Begun
<1>7. CleanInv
  BY DEF CleanInv
<1> QED BY <1>3, <1>4, <1>5, <1>6, <1>7, InitAskInv DEF RunInv

\* And at every step.
LEMMA StepRunInv ==
  TypeOK /\ PlaceInv /\ StopInv /\ StopInv' /\ RunInv /\ [Next]_vars => RunInv'
BY StepRadioOK, StepAskInv, StepPhaseInv, StepRestoreInv, StepTodoInv, StepCleanInv DEF RunInv

\* Whatever the run, its faults and its interrupts do, what it still owes its
\* radio is in changed and todo: an interface outside changed is as it was
\* found, a capture that is on has its callback on the stack, and a phase is
\* reached only with what it needs (run_live's ExitStack, RadioSession).
THEOREM RunIsSound == Spec => []RunInv
BY TypeCorrect, AskedOnce, InitRunInv, StepRunInv, PTL DEF Spec

\* One interface that cannot be restored, or was replaced, does not keep the
\* others from being restored, whatever step the run failed at and whatever
\* order the commands, the faults and the interrupts came in (RadioSession's
\* restore, run_live's ExitStack).
THEOREM FailuresAreIsolated == Spec => []FailureIsolated
<1>1. RunInv => FailureIsolated
  <2> SUFFICES ASSUME RunInv, Over, states # << >>, ~locked, pc # "killed", ~refused,
                      start_sent => confirmed, NEW i \in Interface \ failed
               PROVE  Sound(i)
    BY DEF FailureIsolated, Sound
  <2>1. changed = << >>
    BY DEF RunInv, PhaseInv, Over
  <2>2. Range(changed) = {}
    BY <2>1 DEF Range
  <2> QED BY <2>2 DEF RunInv, RestoreInv, Disturbed
<1> QED BY <1>1, RunIsSound, PTL

\* A run that ends without an exception or a logged error leaves every
\* interface it found as it found it, no capture child and no Core session, and
\* nothing that is still on its way changes that afterwards; the diagnostics
\* report says so when every interface had a state to return to (run_live,
\* RadioSession.__exit__, CoreDiagnostics.__exit__).
THEOREM CleanExits == Spec => []CleanExitRestores
<1>1. StopInv /\ RunInv => CleanExitRestores
  <2> SUFFICES ASSUME StopInv, RunInv, pc = "done", ~reported
               PROVE  /\ \A i \in Interface : Sound(i)
                      /\ backend = "core" /\ Restorable => verified
                      /\ CoreIsIdle /\ source # "run" /\ decoder # "run"
                      /\ worker \in {"off", "exited"}
    BY DEF CleanExitRestores, Sound
  <2>1. /\ todo = << >> /\ failed = {} /\ changed = << >> /\ states # << >>
        /\ backend = "core" /\ Restorable => verified
    BY DEF RunInv, CleanInv
  <2>2. /\ ~(start_sent /\ ~confirmed) /\ CoreIsIdle
        /\ source # "run" /\ decoder # "run" /\ worker \in {"off", "exited"}
    BY <2>1, Undisturbed DEF RunInv
  <2>3. \A i \in Interface : Sound(i)
    BY <2>1, <2>2, AllSound DEF RunInv
  <2> QED BY <2>1, <2>2, <2>3
<1> QED BY <1>1, AskedOnce, RunIsSound, PTL
=============================================================================
