--------------------------- MODULE ManagedSession ---------------------------
(***************************************************************************)
(* The managed session: the service broker (service.py), the capture-owner *)
(* process it spawns for each session (run_owner, ManagedRuntime, the      *)
(* stages of run_live and RadioSession), the framed socket between them,   *)
(* and the radio lock that owners of any broker compete for.               *)
(*                                                                         *)
(* A session is an owner process.  Its program counter pc[s]:              *)
(*                                                                         *)
(*   "unused"   the ID has not been issued                                 *)
(*   "boot"     interpreter start, config read: outside ManagedRuntime.run *)
(*   "startup"  inside run_live, before the radio lock                     *)
(*   "setup"    radio lock held, capture not yet started                   *)
(*   "live"     the capture loop: the only stage that polls the broker     *)
(*   "unwind"   run_live's finally blocks, still interruptible             *)
(*   "restore"  RadioSession.__exit__ with SIGINT blocked                  *)
(*   "finish"   radio released, final state not yet recorded               *)
(*   "drain"    run_owner's finally, before its last poll                  *)
(*   "flush"    the bounded wait for that poll's output                    *)
(*   "closing"  socket closed, process not yet gone                        *)
(*   "exited"   the process is gone                                        *)
(*                                                                         *)
(* A publication is abstracted to its phase.  A frame is sent in at most   *)
(* two pieces: the bytes of an incomplete frame are of no use to its       *)
(* reader, so pipe[s] holds the complete frames only.                      *)
(***************************************************************************)
EXTENDS Naturals, Sequences, FiniteSets

CONSTANTS
  Sessions,    \* session IDs the broker may issue (uuid4: never reused)
  NoSession,   \* no session ID
  PipeCap,     \* complete frames the kernel buffers per owner
  Faults       \* whether owners are killed and brokers crash

ASSUME SessionAssumption ==
  /\ NoSession \notin Sessions
  /\ PipeCap \in Nat \ {0}
  /\ Faults \in BOOLEAN

Active   == {"starting", "running", "stopping"}
Terminal == {"stopped", "failed"}
Phase    == Active \cup Terminal \cup {"idle"}
Nothing  == "nothing"      \* no message
Junk     == "junk"         \* bytes that do not decode

Message  == Active \cup Terminal
Modes    == {"looping", "dispatching", "exiting", "closing", "down"}

\* Owner stages.
Held    == {"setup", "live", "unwind", "restore"}
Alive   == {"boot", "startup", "finish", "drain", "flush", "closing"} \cup Held
Ended   == {"drain", "flush", "closing", "exited"}
Stage   == Alive \cup {"unused", "exited"}

VARIABLES
  broker,   \* the broker's publication (sid, phase), child, and link state
  named,    \* the session ID in the request that is being dispatched
  pc,       \* stage of each owner process
  sig,      \* SIGINT pending at the owner
  end,      \* how run_live ended: not yet, returned 0, a failure, a
            \* KeyboardInterrupt, one that hides a failure, or its outcome lost
  latest,   \* run_owner's `latest`: publication not yet queued
  chan,     \* the owner's FramedSocket output
  pipe,     \* complete frames between owner and broker
  orphan,   \* the broker end of the owner's socket was closed on it
  lock      \* holder of the radio's flock

vars == <<broker, named, pc, sig, end, latest, chan, pipe, orphan, lock>>
owner == <<pc, end, latest, chan>>

Chan == [out : Message \cup {Nothing}, part : BOOLEAN,
         nxt : Message \cup {Nothing}, torn : BOOLEAN]
Broker == [mode : Modes, sid : Sessions \cup {NoSession}, phase : Phase,
           proc : Sessions \cup {NoSession}, eof : BOOLEAN, bad : BOOLEAN]

EmptyChan == [out |-> Nothing, part |-> FALSE, nxt |-> Nothing, torn |-> FALSE]

FreshBroker == [mode |-> "looping", sid |-> NoSession, phase |-> "idle",
                proc |-> NoSession, eof |-> FALSE, bad |-> FALSE]
Gone == [FreshBroker EXCEPT !.mode = "down"]

Init ==
  /\ broker = FreshBroker
  /\ named = NoSession
  /\ pc = [s \in Sessions |-> "unused"]
  /\ sig = [s \in Sessions |-> FALSE]
  /\ end = [s \in Sessions |-> "none"]
  /\ latest = [s \in Sessions |-> Nothing]
  /\ chan = [s \in Sessions |-> EmptyChan]
  /\ pipe = [s \in Sessions |-> << >>]
  /\ orphan = [s \in Sessions |-> FALSE]
  /\ lock = NoSession

-----------------------------------------------------------------------------
(* The broker polls its owner: FramedSocket.receive, then poll_owner.      *)

\* Complete frames are read in order, several to a call; the byte budget may
\* end the call early.  End of file is seen once everything has been read.
EofChoices(s, n) ==
  IF broker.eof THEN {TRUE}
  ELSE IF n = Len(pipe[s]) /\ pc[s] \in {"closing", "exited"}
    THEN BOOLEAN ELSE {FALSE}

\* Bytes that do not decode stay in the receive buffer, in front of whatever
\* follows them.
Undecodable(s, n) == broker.bad \/ \E i \in 1..n : pipe[s][i] = Junk

\* receive() raises on them once they make up a frame, again with every later
\* chunk, and at end of file.
RaiseChoices(s, n, eof) ==
  IF ~Undecodable(s, n) THEN {FALSE}
  ELSE IF ~eof /\ (broker.bad \/ pipe[s][1] = Junk) THEN BOOLEAN
  ELSE {TRUE}

\* Mutant: a late publication is shown as it was sent.
AsSent(phase, message) == message

\* A late publication of an active phase cannot undo an accepted stop.
Sticky(phase, message) ==
  IF phase = "stopping" /\ message \in Active THEN "stopping" ELSE message

\* The phase after the frames of one successful receive(): the newest wins.
\* A receive() that raises returns none of the frames it had decoded.
Delivered(s, n) ==
  IF n = 0 \/ Undecodable(s, n) THEN broker.phase ELSE Sticky(broker.phase, pipe[s][n])

\* Mutant: a decoding error skips the rest of poll_owner.
ReapIfDecoded(b, s) ==
  IF pc[s] = "exited" /\ b.eof /\ ~b.bad
    THEN [b EXCEPT !.phase = IF b.phase \in Active THEN "failed" ELSE b.phase,
                   !.proc = NoSession, !.eof = FALSE]
    ELSE b

\* An owner that is gone and fully read is reaped; without a final
\* publication its session is failed.
Reap(b, s) ==
  IF pc[s] = "exited" /\ b.eof
    THEN [b EXCEPT !.phase = IF b.phase \in Active THEN "failed" ELSE b.phase,
                   !.proc = NoSession, !.eof = FALSE, !.bad = FALSE]
    ELSE b

PollReads(s, mode, n, eof, raised) ==
  /\ broker' = Reap([broker EXCEPT !.mode = mode, !.eof = eof,
                                   !.bad = Undecodable(s, n),
                                   !.phase = Delivered(s, n)], s)
  /\ pipe' = [pipe EXCEPT ![s] = SubSeq(pipe[s], n + 1, Len(pipe[s]))]
  /\ sig' = [sig EXCEPT ![s] = sig[s] \/ (raised /\ pc[s] # "exited")]

PollChild(s, mode) ==
  \E n \in 0..Len(pipe[s]) : \E eof \in EofChoices(s, n) :
  \E raised \in RaiseChoices(s, n, eof) : PollReads(s, mode, n, eof, raised)

\* A client may name any session it has ever read of.
Names(mode) ==
  IF mode = "dispatching" THEN {NoSession} \cup {s \in Sessions : pc[s] # "unused"}
  ELSE {NoSession}

\* poll_owner runs on every turn of the accept loop, at the head of every
\* dispatch, at the head of shutdown, and while shutdown waits.
PollOwner ==
  /\ broker.mode \in {"looping", "closing"}
  /\ \E mode \in IF broker.mode = "closing" THEN {"closing"}
                 ELSE {"looping", "dispatching", "exiting"} :
       IF broker.proc = NoSession
         THEN broker' = [broker EXCEPT !.mode = mode] /\ UNCHANGED <<pipe, sig>>
         ELSE PollChild(broker.proc, mode)
  /\ named' \in Names(broker'.mode)
  /\ UNCHANGED <<owner, orphan, lock>>

\* A process that is gone leaves its last frame cut short, if it was, and
\* nothing else.
CutShort(s) ==
  IF ~orphan[s] /\ (chan[s].part \/ chan[s].torn)
    THEN Append(pipe[s], Junk) ELSE pipe[s]

Vanish(s) ==
  /\ pc' = [pc EXCEPT ![s] = "exited"]
  /\ sig' = [sig EXCEPT ![s] = FALSE]
  /\ latest' = [latest EXCEPT ![s] = Nothing]
  /\ chan' = [chan EXCEPT ![s] = EmptyChan]

-----------------------------------------------------------------------------
(* Requests: the rest of dispatch, after its poll.                         *)

Idle == broker.proc = NoSession /\ broker.phase \notin Active

\* start, ensure or join with no session active.
Start(s) ==
  /\ broker.mode = "dispatching"
  /\ Idle
  /\ pc[s] = "unused"
  /\ broker' = [broker EXCEPT !.mode = "looping", !.sid = s, !.proc = s,
                              !.phase = "starting"]
  /\ pc' = [pc EXCEPT ![s] = "boot"]
  /\ named' = NoSession
  /\ UNCHANGED <<sig, end, latest, chan, pipe, orphan, lock>>

\* The control file cannot be written or the owner cannot be spawned.
StartFails(s) ==
  /\ broker.mode = "dispatching"
  /\ Idle
  /\ pc[s] = "unused"
  /\ broker' = [broker EXCEPT !.mode = "looping", !.sid = s, !.phase = "failed"]
  /\ pc' = [pc EXCEPT ![s] = "exited"]
  /\ named' = NoSession
  /\ UNCHANGED <<sig, end, latest, chan, pipe, orphan, lock>>

\* A read, a join of a starting or running session, or a refused request.
Reply ==
  /\ broker.mode = "dispatching"
  /\ broker' = [broker EXCEPT !.mode = "looping"]
  /\ named' = NoSession
  /\ UNCHANGED <<owner, sig, pipe, orphan, lock>>

\* Mutant: a stop is for whatever runs now.
StopAnyAccepted(s) ==
  broker.proc # NoSession /\ broker.phase \in Active /\ broker.phase # "stopping"

\* A stop names the session its client read, which may be an old one.
StopAccepted(s) ==
  /\ s = broker.sid
  /\ broker.proc # NoSession
  /\ broker.phase \in Active
  /\ broker.phase # "stopping"

\* Mutant: a stop is reported done when it is asked for.
StopAtOnce(s) ==
  /\ broker.mode = "dispatching"
  /\ named = s
  /\ StopAccepted(s)
  /\ broker' = [broker EXCEPT !.mode = "looping", !.phase = "stopped"]
  /\ sig' = [sig EXCEPT ![broker.proc] = pc[broker.proc] # "exited"]
  /\ named' = NoSession
  /\ UNCHANGED <<owner, pipe, orphan, lock>>

Stop(s) ==
  /\ broker.mode = "dispatching"
  /\ named = s
  /\ StopAccepted(s)
  /\ broker' = [broker EXCEPT !.mode = "looping", !.phase = "stopping"]
  /\ sig' = [sig EXCEPT ![broker.proc] = pc[broker.proc] # "exited"]
  /\ named' = NoSession
  /\ UNCHANGED <<owner, pipe, orphan, lock>>

-----------------------------------------------------------------------------
(* The broker's own end.                                                   *)

\* shutdown(), after its poll: signal the owner and wait for it.
Shutdown ==
  /\ broker.mode = "exiting"
  /\ IF broker.proc = NoSession
       THEN broker' = Gone /\ UNCHANGED sig
       ELSE /\ broker' = [broker EXCEPT !.mode = "closing",
                            !.phase = IF broker.phase \in Active
                                        THEN "stopping" ELSE broker.phase]
            /\ sig' = [sig EXCEPT ![broker.proc] = pc[broker.proc] # "exited"]
  /\ UNCHANGED <<named, owner, pipe, orphan, lock>>

ShutdownDone ==
  /\ broker.mode = "closing"
  /\ broker.proc = NoSession
  /\ broker' = Gone
  /\ UNCHANGED <<named, owner, sig, pipe, orphan, lock>>

\* The broker's end of the owner link closes with the broker.
Abandon ==
  /\ orphan' = [orphan EXCEPT ![broker.proc] = TRUE]
  /\ pipe' = [pipe EXCEPT ![broker.proc] = << >>]

\* The 95 s pass: the owner is killed, the kernel drops its lock.
ShutdownKills ==
  /\ broker.mode = "closing"
  /\ broker.proc # NoSession
  /\ broker' = Gone
  /\ Vanish(broker.proc)
  /\ Abandon
  /\ lock' = IF lock = broker.proc THEN NoSession ELSE lock
  /\ UNCHANGED <<named, end>>

\* The broker dies: its owner, in a session of its own, lives on.
BrokerCrash ==
  /\ Faults
  /\ broker.mode # "down"
  /\ broker' = Gone
  /\ IF broker.proc = NoSession THEN UNCHANGED <<orphan, pipe>> ELSE Abandon
  /\ named' = NoSession
  /\ UNCHANGED <<owner, sig, lock>>

\* A new broker starts idle and resumes nothing.
BrokerStart ==
  /\ broker.mode = "down"
  /\ broker' = FreshBroker
  /\ UNCHANGED <<named, owner, sig, pipe, orphan, lock>>

-----------------------------------------------------------------------------
(* The owner's FramedSocket: queue and flush.                              *)

\* The newest message replaces one not yet begun, or waits behind one begun.
Queued(c, message) ==
  IF c.out = Nothing \/ ~c.part
    THEN [c EXCEPT !.out = message, !.part = FALSE]
    ELSE [c EXCEPT !.nxt = message]

Advanced(c) == [c EXCEPT !.out = c.nxt, !.nxt = Nothing, !.part = FALSE]

Room(s) == Len(pipe[s]) < PipeCap

\* Mutant: the slots are advanced before the frame is taken.
FrameOfNext(c) == IF c.torn THEN Junk ELSE Advanced(c).out

\* After bytes were repeated or left out, no later frame decodes.
Frame(c) == IF c.torn THEN Junk ELSE c.out

Writing(c) == c.out # Nothing

\* send() takes the whole frame, a first part of it, or would block.
Flush(s, c) ==
  \/ /\ Writing(c) /\ Room(s)
     /\ chan' = [chan EXCEPT ![s] = Advanced(c)]
     /\ pipe' = [pipe EXCEPT ![s] = Append(pipe[s], Frame(c))]
  \/ /\ Writing(c) /\ Room(s) /\ ~c.part
     /\ chan' = [chan EXCEPT ![s] = [c EXCEPT !.part = TRUE]]
     /\ UNCHANGED pipe
  \/ /\ ~Writing(c) \/ ~Room(s)
     /\ chan' = [chan EXCEPT ![s] = c]
     /\ UNCHANGED pipe

\* run_owner's poll(): queue the newest publication, if any, and flush.
Polled(s) == IF latest[s] = Nothing THEN chan[s] ELSE Queued(chan[s], latest[s])

-----------------------------------------------------------------------------
(* The owner process.                                                      *)

Goto(s, from, to) == pc[s] = from /\ pc' = [pc EXCEPT ![s] = to]

\* ManagedRuntime.run records STARTING and enters run_live.
Boot(s) ==
  /\ Goto(s, "boot", "startup")
  /\ latest' = [latest EXCEPT ![s] = "starting"]
  /\ UNCHANGED <<broker, named, sig, end, chan, pipe, orphan, lock>>

\* Mutant: the radio is prepared without its flock.
AcquireUnlocked(s) ==
  /\ Goto(s, "startup", "setup")
  /\ lock' = s
  /\ UNCHANGED <<broker, named, sig, end, latest, chan, pipe, orphan>>

\* RadioSession.__enter__ takes the radio's flock without waiting.
Acquire(s) ==
  /\ Goto(s, "startup", "setup")
  /\ lock = NoSession
  /\ lock' = s
  /\ UNCHANGED <<broker, named, sig, end, latest, chan, pipe, orphan>>

\* Discovery, decoder or lock failure: nothing to release.
StartupFails(s) ==
  /\ Goto(s, "startup", "finish")
  /\ end' = [end EXCEPT ![s] = "failure"]
  /\ UNCHANGED <<broker, named, sig, latest, chan, pipe, orphan, lock>>

\* A failure between the lock and the capture loop unwinds its resources.
SetupFails(s) ==
  /\ Goto(s, "setup", "unwind")
  /\ end' = [end EXCEPT ![s] = "failure"]
  /\ UNCHANGED <<broker, named, sig, latest, chan, pipe, orphan, lock>>

CaptureStarted(s) ==
  /\ Goto(s, "setup", "live")
  /\ latest' = [latest EXCEPT ![s] = "running"]
  /\ UNCHANGED <<broker, named, sig, end, chan, pipe, orphan, lock>>

\* Snapshots, completed rows, statuses: a new publication in the same phase.
Publish(s) ==
  /\ pc[s] = "live"
  /\ latest[s] # "running"
  /\ latest' = [latest EXCEPT ![s] = "running"]
  /\ UNCHANGED <<broker, named, pc, sig, end, chan, pipe, orphan, lock>>

\* poll_input inside the live loop.
LivePoll(s) ==
  /\ pc[s] = "live"
  /\ ~orphan[s]
  /\ Flush(s, Polled(s))
  /\ latest' = [latest EXCEPT ![s] = Nothing]
  /\ UNCHANGED <<broker, named, pc, sig, end, orphan, lock>>

\* Mutant: the capture loop ignores the end of its link.
LiveIgnoresEof(s) == orphan[s] /\ pc[s] = "live" /\ UNCHANGED vars

\* The broker is gone: end of file, then a write error out of poll().
LiveSeesEof(s) ==
  /\ orphan[s]
  /\ Goto(s, "live", "unwind")
  /\ latest' = [latest EXCEPT ![s] = Nothing]
  /\ chan' = [chan EXCEPT ![s] = Queued(chan[s], "stopping")]
  /\ end' = [end EXCEPT ![s] = "failure"]
  /\ UNCHANGED <<broker, named, sig, pipe, orphan, lock>>

\* The packet source ends, or the decoder or aggregation worker fails.
SourceEnds(s) ==
  /\ Goto(s, "live", "unwind")
  /\ \E how \in {"zero", "failure"} : end' = [end EXCEPT ![s] = how]
  /\ UNCHANGED <<broker, named, sig, latest, chan, pipe, orphan, lock>>

\* A KeyboardInterrupt replaces what was being returned or raised.
Interrupted(how) == IF how \in {"failure", "hidden"} THEN "hidden" ELSE "interrupt"

Restored(how, complete) == IF how = "zero" /\ ~complete THEN "failure" ELSE how

\* run_live's finally blocks are done; __exit__ blocks SIGINT.
Unwind(s) ==
  /\ Goto(s, "unwind", "restore")
  /\ UNCHANGED <<broker, named, sig, end, latest, chan, pipe, orphan, lock>>

\* The radio is restored and released, then the mask is lifted: a SIGINT that
\* arrived meanwhile becomes a KeyboardInterrupt, in place of any failure.  An
\* incomplete restoration is an error of its own only when nothing else is
\* already propagating.
Restore(s) ==
  /\ Goto(s, "restore", "finish")
  /\ lock' = NoSession
  /\ sig' = [sig EXCEPT ![s] = FALSE]
  /\ \E complete \in BOOLEAN :
       end' = [end EXCEPT ![s] =
                 IF sig[s] THEN Interrupted(Restored(end[s], complete))
                 ELSE Restored(end[s], complete)]
  /\ UNCHANGED <<broker, named, latest, chan, pipe, orphan>>

\* Mutant: every ending is reported as a stop.
AlwaysStopped(s) == "stopped"

Outcome(s) == IF end[s] = "failure" THEN "failed" ELSE "stopped"

\* ManagedRuntime._finish records the terminal phase.
Finish(s) ==
  /\ Goto(s, "finish", "drain")
  /\ latest' = [latest EXCEPT ![s] = Outcome(s)]
  /\ UNCHANGED <<broker, named, sig, end, chan, pipe, orphan, lock>>

\* run_owner's last poll.
DrainPoll(s) ==
  /\ ~orphan[s]
  /\ Goto(s, "drain", "flush")
  /\ Flush(s, Polled(s))
  /\ latest' = [latest EXCEPT ![s] = Nothing]
  /\ UNCHANGED <<broker, named, sig, end, orphan, lock>>

DrainFlush(s) ==
  /\ pc[s] = "flush"
  /\ ~orphan[s]
  /\ Writing(chan[s]) /\ Room(s)
  /\ Flush(s, chan[s])
  /\ UNCHANGED <<broker, named, pc, sig, end, latest, orphan, lock>>

\* Everything is sent, the socket stayed full for 5 s, or the broker is gone.
DrainEnds(s) ==
  /\ \/ pc[s] = "flush" /\ (orphan[s] \/ ~Writing(chan[s]) \/ ~Room(s))
     \/ pc[s] = "drain" /\ orphan[s]
  /\ pc' = [pc EXCEPT ![s] = "closing"]
  /\ pipe' = [pipe EXCEPT ![s] = CutShort(s)]
  /\ chan' = [chan EXCEPT ![s] = EmptyChan]
  /\ latest' = [latest EXCEPT ![s] = Nothing]
  /\ UNCHANGED <<broker, named, sig, end, orphan, lock>>

Exit(s) ==
  /\ pc[s] = "closing"
  /\ Vanish(s)
  /\ UNCHANGED <<broker, named, end, pipe, orphan, lock>>

-----------------------------------------------------------------------------
(* SIGINT and sudden death.                                                *)

\* Before ManagedRuntime.run, and from run_owner's finally on, a
\* KeyboardInterrupt ends the process: nothing more is published.
InterruptKills(s) ==
  /\ pc[s] \in {"boot", "drain", "flush", "closing"}
  /\ sig[s]
  /\ Vanish(s)
  /\ pipe' = [pipe EXCEPT ![s] = CutShort(s)]
  /\ UNCHANGED <<broker, named, end, orphan, lock>>

\* Inside run_live a KeyboardInterrupt unwinds to ManagedRuntime.run.  The
\* capture loop turns it into a return of 0; in a finally block it replaces
\* whatever was being returned or raised; past the try it escapes _finish.
InterruptTo(stage, how) ==
  CASE stage = "startup" -> [pc |-> "finish", end |-> "interrupt"]
    [] stage = "setup"   -> [pc |-> "unwind", end |-> "interrupt"]
    [] stage = "live"    -> [pc |-> "unwind", end |-> "zero"]
    [] stage = "unwind"  -> [pc |-> "unwind", end |-> Interrupted(how)]
    [] stage = "finish"  -> [pc |-> "drain",  end |-> "lost"]

Unwinding(s) ==
  /\ sig[s]
  /\ pc' = [pc EXCEPT ![s] = InterruptTo(pc[s], end[s]).pc]
  /\ end' = [end EXCEPT ![s] = InterruptTo(pc[s], end[s]).end]
  /\ sig' = [sig EXCEPT ![s] = FALSE]

Interrupt(s) ==
  /\ pc[s] \in {"startup", "setup", "live", "unwind", "finish"}
  /\ Unwinding(s)
  /\ UNCHANGED <<broker, named, latest, chan, pipe, orphan, lock>>

\* The signal lands inside flush(), after send() took some or all of the
\* bytes and before the offset is advanced: the same bytes go out again.
InterruptInFlush(s) ==
  LET c == Polled(s) IN
  /\ pc[s] = "live"
  /\ ~orphan[s]
  /\ Writing(c) /\ Room(s)
  /\ Unwinding(s)
  /\ latest' = [latest EXCEPT ![s] = Nothing]
  /\ \/ /\ chan' = [chan EXCEPT ![s] = [c EXCEPT !.torn = TRUE]]
        /\ UNCHANGED pipe
     \/ /\ chan' = [chan EXCEPT ![s] = [c EXCEPT !.torn = c.torn \/ c.part]]
        /\ pipe' = [pipe EXCEPT ![s] = Append(pipe[s], Frame(c))]
  /\ UNCHANGED <<broker, named, orphan, lock>>

\* An import error, a config that never arrives, SIGKILL, out of memory.
Dies(s) ==
  /\ Faults
  /\ pc[s] \in Alive
  /\ Vanish(s)
  /\ lock' = IF lock = s THEN NoSession ELSE lock
  /\ pipe' = [pipe EXCEPT ![s] = CutShort(s)]
  /\ UNCHANGED <<broker, named, end, orphan>>

-----------------------------------------------------------------------------
BrokerNext ==
  \/ PollOwner \/ Reply
  \/ Shutdown \/ ShutdownDone \/ ShutdownKills \/ BrokerCrash \/ BrokerStart
  \/ \E s \in Sessions : Start(s) \/ StartFails(s) \/ Stop(s)

\* The owner's way forward once nothing keeps it in the capture loop.
OwnerProgress(s) ==
  \/ Boot(s) \/ Acquire(s) \/ StartupFails(s) \/ SetupFails(s) \/ CaptureStarted(s)
  \/ LiveSeesEof(s) \/ Unwind(s) \/ Restore(s) \/ Finish(s)
  \/ DrainPoll(s) \/ DrainFlush(s) \/ DrainEnds(s) \/ Exit(s)

OwnerNext(s) ==
  \/ OwnerProgress(s) \/ Publish(s) \/ LivePoll(s) \/ SourceEnds(s)
  \/ InterruptKills(s) \/ Interrupt(s) \/ InterruptInFlush(s) \/ Dies(s)

Next == BrokerNext \/ \E s \in Sessions : OwnerNext(s)

Spec == Init /\ [][Next]_vars

\* The accept loop keeps polling, and a poll that finds something reads it;
\* each owner stage ends (its commands and waits are bounded); a pending
\* SIGINT is acted on.  Nothing makes a client, a source or a fault act.
Fairness ==
  /\ SF_<<broker.phase, broker.proc, broker.eof, pipe>>(PollOwner)
  /\ WF_vars(Reply) /\ WF_vars(Shutdown) /\ WF_vars(ShutdownDone)
  /\ \A s \in Sessions :
       /\ WF_vars(OwnerProgress(s))
       /\ WF_vars(InterruptKills(s) \/ Interrupt(s))

LiveSpec == Spec /\ Fairness

-----------------------------------------------------------------------------
TypeOK ==
  /\ broker \in Broker
  /\ named \in Sessions \cup {NoSession}
  /\ pc \in [Sessions -> Stage]
  /\ sig \in [Sessions -> BOOLEAN]
  /\ end \in [Sessions -> {"none", "zero", "failure", "interrupt", "hidden", "lost"}]
  /\ latest \in [Sessions -> Message \cup {Nothing}]
  /\ chan \in [Sessions -> Chan]
  /\ pipe \in [Sessions -> Seq(Message \cup {Junk})]
  /\ orphan \in [Sessions -> BOOLEAN]
  /\ lock \in Sessions \cup {NoSession}

\* At most one owner has the radio, whatever brokers came and went: the
\* flock of RadioSession, not the broker, protects the hardware.
RadioExclusive ==
  \A s, t \in Sessions : pc[s] \in Held /\ pc[t] \in Held => s = t

\* Every living owner is either the broker's one child or has lost its
\* broker: dispatch starts none while the last is unreaped.
OneOwnedOwner ==
  \A s \in Sessions : pc[s] \in Alive /\ ~orphan[s] => broker.proc = s

\* A client that reads stopped or failed may take the radio: the owner's
\* final publication, and the broker's own verdict, come after its release.
TerminalAfterRelease ==
  broker.phase \in Terminal => pc[broker.sid] \in Ended

\* "stopped" is shown only for an owner whose run_live returned 0 or ended in
\* a KeyboardInterrupt, and never for one whose outcome was lost.  A failure
\* shows as stopped in one case, which the code has: a SIGINT met its cleanup
\* and the KeyboardInterrupt took its place.
StoppedIsGenuine ==
  broker.phase = "stopped" => end[broker.sid] \in {"zero", "interrupt", "hidden"}

\* A stop reaches only the session its client named, even when that session
\* was replaced in between; no other request signals an owner.
StopReachesNamed ==
  [][\A s \in Sessions :
       sig'[s] /\ ~sig[s] => named = s \/ broker.mode = "exiting" \/ broker'.bad]_vars

\* The broker's publication is the session lifecycle clients rely on: ids
\* never reused, phases only forward, an accepted stop never undone.
Lifecycle == INSTANCE SessionLifecycle WITH
  sid <- broker.sid, phase <- broker.phase,
  past <- {s \in Sessions : pc[s] # "unused"}
RefinesLifecycle == Lifecycle!LifecycleSpec

\* An accepted stop ends: the owner unwinds from any stage, is reaped, and a
\* session without a final publication is failed.
StopCompletes == broker.phase = "stopping" ~> broker.phase # "stopping"

\* Losing its broker ends an owner: no capture is left unattended.
OrphanExits == \A s \in Sessions : orphan[s] ~> pc[s] = "exited"
=============================================================================
