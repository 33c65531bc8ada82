------------------------ MODULE ManagedSessionProofs ------------------------
(***************************************************************************)
(* The managed session, for any set of session IDs, any socket capacity,   *)
(* with or without faults: its safety; that it signals only the owner it   *)
(* was asked to; and that it implements SessionLifecycle.                  *)
(*                                                                         *)
(* The phase of a session only moves forward although its publications     *)
(* wait in up to four places (run_owner's `latest`, the two slots of its   *)
(* socket, the kernel's buffer) and overtake a stop the broker has already *)
(* accepted.  The argument is that the places, read from the broker        *)
(* outwards, never hold an earlier phase behind a later one, and nothing   *)
(* behind a final one.                                                     *)
(***************************************************************************)
EXTENDS ManagedSession, SequenceTheorems, TLAPS

-----------------------------------------------------------------------------
(* Type correctness.                                                       *)

\* queue() and a completed flush() keep a channel a channel.
LEMMA ChannelType ==
  ASSUME NEW c \in Chan, NEW m \in Message
  PROVE  /\ Queued(c, m) \in Chan
         /\ Advanced(c) \in Chan
         /\ [c EXCEPT !.part = TRUE] \in Chan
         /\ \A b \in BOOLEAN : [c EXCEPT !.torn = b] \in Chan
         /\ Writing(c) => Frame(c) \in Message \cup {Junk}
BY DEF Chan, Queued, Advanced, Frame, Writing

\* poll() hands flush() a channel.
LEMMA PolledType ==
  ASSUME TypeOK, NEW s \in Sessions
  PROVE  Polled(s) \in Chan
BY ChannelType DEF TypeOK, Polled

\* One flush(), whatever send() takes.
LEMMA FlushType ==
  ASSUME TypeOK, NEW s \in Sessions, NEW c \in Chan, Flush(s, c)
  PROVE  /\ chan' \in [Sessions -> Chan]
         /\ pipe' \in [Sessions -> Seq(Message \cup {Junk})]
<1>m. "running" \in Message
  BY DEF Message, Active
<1>1. CASE /\ Writing(c) /\ chan' = [chan EXCEPT ![s] = Advanced(c)]
           /\ pipe' = [pipe EXCEPT ![s] = Append(pipe[s], Frame(c))]
  <2>1. Advanced(c) \in Chan /\ Frame(c) \in Message \cup {Junk}
    BY <1>1, <1>m, ChannelType
  <2>2. Append(pipe[s], Frame(c)) \in Seq(Message \cup {Junk})
    BY <2>1 DEF TypeOK
  <2> QED BY <1>1, <2>1, <2>2 DEF TypeOK
<1>2. CASE chan' = [chan EXCEPT ![s] = [c EXCEPT !.part = TRUE]] /\ UNCHANGED pipe
  BY <1>2, <1>m, ChannelType DEF TypeOK
<1>3. CASE chan' = [chan EXCEPT ![s] = c] /\ UNCHANGED pipe
  BY <1>3 DEF TypeOK
<1> QED BY <1>1, <1>2, <1>3 DEF Flush

\* A closed socket's channel is a channel.
LEMMA EmptyChanType == EmptyChan \in Chan
BY DEF EmptyChan, Chan

\* The fields a step of the broker changes.
LEMMA BrokerType ==
  ASSUME NEW b \in Broker, NEW mode \in Modes, NEW phase \in Phase
  PROVE  /\ [b EXCEPT !.mode = mode] \in Broker
         /\ [b EXCEPT !.mode = mode, !.phase = phase] \in Broker
         /\ \A s \in Sessions :
              [b EXCEPT !.mode = mode, !.sid = s, !.phase = phase] \in Broker
         /\ \A s \in Sessions :
              [b EXCEPT !.mode = mode, !.sid = s, !.proc = s, !.phase = phase] \in Broker
         /\ \A e, d \in BOOLEAN :
              [b EXCEPT !.mode = mode, !.eof = e, !.bad = d, !.phase = phase] \in Broker
         /\ [b EXCEPT !.phase = phase, !.proc = NoSession, !.eof = FALSE,
                      !.bad = FALSE] \in Broker
BY DEF Broker

\* A broker that starts, or is gone, is a broker record.
LEMMA FreshBrokerType ==
  /\ FreshBroker \in Broker /\ Gone \in Broker
  /\ "looping" \in Modes /\ "closing" \in Modes
  /\ "starting" \in Phase /\ "failed" \in Phase /\ "stopping" \in Phase
BY DEF FreshBroker, Gone, Broker, Modes, Phase, Active, Terminal

\* What a socket leaves in the pipe when its process goes.
LEMMA CutShortType ==
  ASSUME TypeOK, NEW s \in Sessions
  PROVE  CutShort(s) \in Seq(Message \cup {Junk})
BY DEF TypeOK, CutShort

\* receive() leaves the frames it has not read.
LEMMA RestType ==
  ASSUME TypeOK, NEW s \in Sessions, NEW n \in 0..Len(pipe[s])
  PROVE  SubSeq(pipe[s], n + 1, Len(pipe[s])) \in Seq(Message \cup {Junk})
<1>1. pipe[s] \in Seq(Message \cup {Junk}) /\ n + 1 \in 1..Len(pipe[s]) + 1
  BY DEF TypeOK
<1> QED BY <1>1, SubSeqProperties

\* One poll keeps the broker's record a broker record.
LEMMA PollChildType ==
  ASSUME TypeOK, NEW s \in Sessions, NEW mode \in Modes, PollChild(s, mode)
  PROVE  /\ broker' \in Broker
         /\ pipe' \in [Sessions -> Seq(Message \cup {Junk})]
         /\ sig' \in [Sessions -> BOOLEAN]
<1>p. PICK n \in 0..Len(pipe[s]) : \E eof \in EofChoices(s, n) :
        \E raised \in RaiseChoices(s, n, eof) : PollReads(s, mode, n, eof, raised)
  BY DEF PollChild
<1>q. PICK eof \in EofChoices(s, n) :
        \E raised \in RaiseChoices(s, n, eof) : PollReads(s, mode, n, eof, raised)
  BY <1>p
<1>1. PICK raised : PollReads(s, mode, n, eof, raised)
  BY <1>q
<1>2. eof \in BOOLEAN
  BY DEF EofChoices
<1>3. Delivered(s, n) \in Phase
  <2>1. CASE n = 0 \/ Undecodable(s, n)
    BY <2>1 DEF Delivered, TypeOK, Broker
  <2>2. CASE n # 0 /\ ~Undecodable(s, n)
    <3>1. n \in 1..Len(pipe[s]) /\ pipe[s] \in Seq(Message \cup {Junk})
      BY <2>2 DEF TypeOK
    <3>2. pipe[s][n] \in Message
      BY <2>2, <3>1 DEF Undecodable
    <3> QED BY <2>2, <3>2 DEF Delivered, Sticky, Phase, Message, Active
  <2> QED BY <2>1, <2>2
<1>4. Undecodable(s, n) \in BOOLEAN
  BY DEF Undecodable, TypeOK, Broker
<1>5. broker' \in Broker
  <2> DEFINE b == [broker EXCEPT !.mode = mode, !.eof = eof, !.bad = Undecodable(s, n),
                                 !.phase = Delivered(s, n)]
  <2>1. b \in Broker
    BY <1>2, <1>3, <1>4, BrokerType DEF TypeOK
  <2>2. b.phase \in Phase
    BY <2>1 DEF Broker
  <2>3. Reap(b, s) \in Broker
    BY <2>1, <2>2, BrokerType, FreshBrokerType DEF Reap
  <2> QED BY <1>1, <2>3 DEF PollReads
<1> QED BY <1>1, <1>5, RestType DEF PollReads, TypeOK

\* Where an interrupted stage goes is a stage, with an outcome.
LEMMA UnwindingType ==
  ASSUME TypeOK, NEW s \in Sessions, Unwinding(s),
         pc[s] \in {"startup", "setup", "live", "unwind", "finish"}
  PROVE  /\ pc' \in [Sessions -> Stage]
         /\ end' \in [Sessions -> {"none", "zero", "failure", "interrupt", "hidden", "lost"}]
         /\ sig' \in [Sessions -> BOOLEAN]
BY DEF TypeOK, Unwinding, InterruptTo, Interrupted, Stage, Alive, Held

\* A process that is gone leaves well-typed remains.
LEMMA VanishType ==
  ASSUME TypeOK, NEW s \in Sessions, Vanish(s)
  PROVE  /\ pc' \in [Sessions -> Stage]
         /\ sig' \in [Sessions -> BOOLEAN]
         /\ latest' \in [Sessions -> Message \cup {Nothing}]
         /\ chan' \in [Sessions -> Chan]
BY EmptyChanType DEF TypeOK, Vanish, Stage

\* Every variable keeps its type.
THEOREM TypeCorrect == Spec => []TypeOK
<1>1. Init => TypeOK
  BY SessionAssumption, FreshBrokerType, EmptyChanType DEF Init, TypeOK, Stage
<1>2. TypeOK /\ [Next]_vars => TypeOK'
  <2> SUFFICES ASSUME TypeOK, [Next]_vars PROVE TypeOK'
    OBVIOUS
  <2> USE DEF Stage, Alive, Held
  <2>1. CASE UNCHANGED vars
    BY <2>1 DEF vars, TypeOK
  <2>2. CASE PollOwner
    <3>1. PICK mode \in Modes :
            IF broker.proc = NoSession
              THEN broker' = [broker EXCEPT !.mode = mode] /\ UNCHANGED <<pipe, sig>>
              ELSE PollChild(broker.proc, mode)
      BY <2>2 DEF PollOwner, Modes
    <3>2. CASE broker.proc = NoSession
      <4>1. [broker EXCEPT !.mode = mode] \in Broker
        BY FreshBrokerType, BrokerType DEF TypeOK
      <4> QED BY <2>2, <3>1, <3>2, <4>1 DEF PollOwner, Names, owner, TypeOK
    <3>3. CASE broker.proc # NoSession
      <4>1. broker.proc \in Sessions
        BY <3>3 DEF TypeOK, Broker
      <4> QED BY <2>2, <3>1, <3>3, <4>1, PollChildType DEF PollOwner, Names, owner, TypeOK
    <3> QED BY <3>2, <3>3
  <2>3. CASE Reply \/ ShutdownDone \/ BrokerStart
    <3>1. broker.sid \in Sessions \cup {NoSession}
      BY DEF TypeOK, Broker
    <3>2. [broker EXCEPT !.mode = "looping"] \in Broker
      BY FreshBrokerType, BrokerType DEF TypeOK
    <3> QED BY <2>3, <3>1, <3>2, FreshBrokerType
        DEF Reply, ShutdownDone, BrokerStart, owner, TypeOK
  <2>13. CASE Shutdown
    <3>1. CASE broker.proc = NoSession
      BY <2>13, <3>1, FreshBrokerType DEF Shutdown, owner, TypeOK
    <3>2. CASE broker.proc # NoSession
      <4>1. broker.phase \in Phase
        BY DEF TypeOK, Broker
      <4>2. [broker EXCEPT !.mode = "closing",
               !.phase = IF broker.phase \in Active THEN "stopping" ELSE broker.phase]
              \in Broker
        BY <4>1, BrokerType, FreshBrokerType DEF TypeOK
      <4> QED BY <2>13, <3>2, <4>2 DEF Shutdown, owner, TypeOK
    <3> QED BY <3>1, <3>2
  <2>14. CASE BrokerCrash
    <3>1. << >> \in Seq(Message \cup {Junk})
      OBVIOUS
    <3>2. /\ broker' = Gone /\ named' = NoSession /\ UNCHANGED <<owner, sig, lock>>
          /\ \/ UNCHANGED <<orphan, pipe>>
             \/ /\ orphan' = [orphan EXCEPT ![broker.proc] = TRUE]
                /\ pipe' = [pipe EXCEPT ![broker.proc] = << >>]
      BY <2>14 DEF BrokerCrash, Abandon
    <3>3. pipe' \in [Sessions -> Seq(Message \cup {Junk})]
      BY <3>1, <3>2 DEF TypeOK
    <3>4. orphan' \in [Sessions -> BOOLEAN]
      BY <3>2 DEF TypeOK
    <3> QED BY <3>2, <3>3, <3>4, FreshBrokerType DEF owner, TypeOK
  <2>4. CASE ShutdownKills
    <3>1. << >> \in Seq(Message \cup {Junk})
      OBVIOUS
    <3> QED BY <2>4, <3>1, FreshBrokerType, EmptyChanType
    DEF ShutdownKills, Abandon, Vanish, TypeOK
  <2>5. ASSUME NEW s \in Sessions, Start(s) \/ StartFails(s) \/ Stop(s)
        PROVE  TypeOK'
    <3>1. /\ [broker EXCEPT !.mode = "looping", !.phase = "stopping"] \in Broker
          /\ [broker EXCEPT !.mode = "looping", !.sid = s, !.phase = "failed"] \in Broker
          /\ [broker EXCEPT !.mode = "looping", !.sid = s, !.proc = s,
                            !.phase = "starting"] \in Broker
      BY BrokerType, FreshBrokerType DEF TypeOK
    <3> QED BY <2>5, <3>1 DEF Start, StartFails, Stop, StopAccepted, owner, TypeOK
  <2>6. ASSUME NEW s \in Sessions,
               \/ Boot(s) \/ Acquire(s) \/ StartupFails(s) \/ SetupFails(s)
               \/ CaptureStarted(s) \/ Publish(s) \/ SourceEnds(s) \/ Unwind(s)
               \/ Finish(s)
        PROVE  TypeOK'
    BY <2>6 DEF Boot, Acquire, StartupFails, SetupFails, CaptureStarted, Publish,
                SourceEnds, Unwind, Finish, Outcome, Goto, TypeOK, Message, Active,
                Terminal
  <2>7. ASSUME NEW s \in Sessions, Restore(s)
        PROVE  TypeOK'
    BY <2>7 DEF Restore, Restored, Interrupted, Goto, TypeOK
  <2>8. ASSUME NEW s \in Sessions, LivePoll(s) \/ DrainPoll(s) \/ DrainFlush(s)
        PROVE  TypeOK'
    <3>1. chan[s] \in Chan
      BY DEF TypeOK
    <3> QED BY <2>8, <3>1, FlushType, PolledType
        DEF LivePoll, DrainPoll, DrainFlush, Goto, TypeOK
  <2>9. ASSUME NEW s \in Sessions, LiveSeesEof(s)
        PROVE  TypeOK'
    <3>1. Queued(chan[s], "stopping") \in Chan
      BY ChannelType DEF TypeOK, Message, Active
    <3> QED BY <2>9, <3>1 DEF LiveSeesEof, Goto, TypeOK
  <2>10. ASSUME NEW s \in Sessions, DrainEnds(s)
         PROVE  TypeOK'
    BY <2>10, CutShortType, EmptyChanType DEF DrainEnds, TypeOK
  <2>15. ASSUME NEW s \in Sessions, Exit(s) \/ InterruptKills(s) \/ Dies(s)
         PROVE  TypeOK'
    <3>1. pipe' \in [Sessions -> Seq(Message \cup {Junk})] /\ Vanish(s)
      BY <2>15, CutShortType DEF Exit, InterruptKills, Dies, TypeOK
    <3> QED BY <2>15, <3>1, VanishType DEF Exit, InterruptKills, Dies, TypeOK
  <2>11. ASSUME NEW s \in Sessions, Interrupt(s)
         PROVE  TypeOK'
    BY <2>11, UnwindingType DEF Interrupt, TypeOK
  <2>12. ASSUME NEW s \in Sessions, InterruptInFlush(s)
         PROVE  TypeOK'
    <3> DEFINE c == Polled(s)
    <3>1. c \in Chan /\ pc[s] = "live" /\ Writing(c)
      BY <2>12, PolledType DEF InterruptInFlush
    <3>2. "running" \in Message /\ c.torn \in BOOLEAN /\ c.part \in BOOLEAN
      BY <3>1 DEF Message, Active, Chan
    <3>3. /\ [c EXCEPT !.torn = TRUE] \in Chan
          /\ [c EXCEPT !.torn = c.torn \/ c.part] \in Chan
      BY <3>1, <3>2 DEF Chan
    <3>4. Frame(c) \in Message \cup {Junk}
      BY <3>1, <3>2, ChannelType
    <3>6. Append(pipe[s], Frame(c)) \in Seq(Message \cup {Junk})
      BY <3>4 DEF TypeOK
    <3>7. chan' \in [Sessions -> Chan]
      BY <2>12, <3>3 DEF InterruptInFlush, TypeOK
    <3>8. \/ UNCHANGED pipe
          \/ pipe' = [pipe EXCEPT ![s] = Append(pipe[s], Frame(c))]
      BY <2>12 DEF InterruptInFlush
    <3>5. pipe' \in [Sessions -> Seq(Message \cup {Junk})]
      <4> HIDE DEF c
      <4> QED BY <3>6, <3>8 DEF TypeOK
    <3> QED BY <2>12, <3>5, <3>7, UnwindingType DEF InterruptInFlush, TypeOK
  <2> QED BY <2>1, <2>2, <2>3, <2>4, <2>5, <2>6, <2>7, <2>8, <2>9, <2>10, <2>11, <2>12,
         <2>13, <2>14, <2>15
      DEF Next, BrokerNext, OwnerNext, OwnerProgress
<1> QED BY <1>1, <1>2, PTL DEF Spec

-----------------------------------------------------------------------------
(* The inductive invariant.  A final publication may be anywhere between   *)
(* `latest` and the broker, so what holds of the broker's phase is stated  *)
(* of every place the message passes through.                              *)

InChan(c, m) == c.out = m \/ c.nxt = m
InPipe(q, m) == \E i \in 1..Len(q) : q[i] = m

\* The flock belongs to the owner that is between __enter__ and __exit__.
LockInv == \A s \in Sessions : lock = s <=> pc[s] \in Held

\* The broker's child is the session it publishes, and is still linked.
ChildInv ==
  /\ broker.proc # NoSession => broker.proc = broker.sid /\ ~orphan[broker.proc]
  /\ broker.sid # NoSession => pc[broker.sid] # "unused"
  /\ broker.sid = NoSession <=> broker.phase = "idle"
  /\ broker.mode = "down" => broker.proc = NoSession
  /\ \A s \in Sessions : pc[s] = "unused" => ~orphan[s]

\* A final publication exists only once run_live has ended, the way it says.
Final(s, m) == pc[s] \in Ended /\ (m = "stopped" => end[s] \in {"zero", "interrupt", "hidden"})

FinalInv ==
  \A s \in Sessions : \A m \in Terminal :
    latest[s] = m \/ InChan(chan[s], m) \/ InPipe(pipe[s], m) => Final(s, m)

BrokerFinal ==
  \A m \in Terminal : broker.phase = m => Final(broker.sid, m)

\* Once run_live is left, how it ended is known.
EndInv ==
  \A s \in Sessions : pc[s] \in {"unwind", "restore", "finish"} =>
    end[s] \in {"zero", "failure", "interrupt", "hidden"}

IInv == LockInv /\ EndInv /\ OneOwnedOwner /\ ChildInv /\ FinalInv /\ BrokerFinal

\* The invariant holds before the first session.
LEMMA InitIInv == Init => IInv
BY SessionAssumption
DEF Init, IInv, LockInv, EndInv, OneOwnedOwner, ChildInv, FinalInv, BrokerFinal, FreshBroker,
    EmptyChan, InChan, InPipe, Held, Alive, Terminal, Nothing

\* A poll reads, reaps and signals; it moves no owner and starts none.
LEMMA PollOwnerStep ==
  ASSUME TypeOK, PollOwner
  PROVE  /\ UNCHANGED <<pc, end, latest, chan, orphan, lock>>
         /\ broker'.sid = broker.sid
         /\ broker'.mode # "down"
         /\ \/ broker'.proc = broker.proc
            \/ broker'.proc = NoSession /\ pc[broker.proc] = "exited"
         /\ \/ broker'.phase = broker.phase
            \/ /\ broker.proc \in Sessions
               /\ \/ broker'.phase = "failed" /\ pc[broker.proc] = "exited"
                  \/ broker'.phase = "stopping"
                  \/ /\ broker'.phase \in Message
                     /\ InPipe(pipe[broker.proc], broker'.phase)
         /\ \A s \in Sessions : \A m \in Terminal :
              InPipe(pipe'[s], m) => InPipe(pipe[s], m)
<1>1. UNCHANGED <<pc, end, latest, chan, orphan, lock>>
  BY DEF PollOwner, owner
<1>2. CASE broker.proc = NoSession
  BY <1>1, <1>2 DEF PollOwner, TypeOK, Broker
<1>3. CASE broker.proc # NoSession
  <2> DEFINE p == broker.proc
  <2>1. p \in Sessions
    BY <1>3 DEF TypeOK, Broker
  <2>2. PICK mode \in Modes \ {"down"} : PollChild(p, mode)
    BY <1>3 DEF PollOwner, Modes
  <2>3. PICK n \in 0..Len(pipe[p]) : \E eof \in EofChoices(p, n) :
          \E raised \in RaiseChoices(p, n, eof) : PollReads(p, mode, n, eof, raised)
    BY <2>2 DEF PollChild
  <2>4. PICK eof, raised : PollReads(p, mode, n, eof, raised)
    BY <2>3
  <2> DEFINE b == [broker EXCEPT !.mode = mode, !.eof = eof, !.bad = Undecodable(p, n),
                                 !.phase = Delivered(p, n)]
  <2>5. b.sid = broker.sid /\ b.proc = broker.proc /\ b.mode = mode /\ b.phase = Delivered(p, n)
    BY DEF TypeOK, Broker
  <2>6. broker' = Reap(b, p)
    BY <2>4 DEF PollReads
  <2>7. /\ broker'.sid = broker.sid
        /\ broker'.mode # "down"
        /\ \/ broker'.proc = broker.proc
           \/ broker'.proc = NoSession /\ pc[p] = "exited"
        /\ \/ broker'.phase = Delivered(p, n)
           \/ broker'.phase = "failed" /\ pc[p] = "exited"
    <3> HIDE DEF b
    <3>1. b \in Broker \/ b = [broker EXCEPT !.mode = mode, !.eof = eof,
                                !.bad = Undecodable(p, n), !.phase = Delivered(p, n)]
      BY DEF b
    <3> QED BY <2>5, <2>6, <3>1 DEF Reap, b, TypeOK, Broker
  <2>8. pipe[p] \in Seq(Message \cup {Junk})
    BY <2>1 DEF TypeOK
  <2>9. \/ Delivered(p, n) = broker.phase
        \/ Delivered(p, n) = "stopping"
        \/ Delivered(p, n) \in Message /\ InPipe(pipe[p], Delivered(p, n))
    <3>1. CASE n = 0 \/ Undecodable(p, n)
      BY <3>1 DEF Delivered
    <3>2. CASE n # 0 /\ ~Undecodable(p, n)
      <4>1. n \in 1..Len(pipe[p]) /\ pipe[p][n] \in Message
        BY <2>8, <3>2 DEF Undecodable
      <4> QED BY <3>2, <4>1 DEF Delivered, Sticky, InPipe
    <3> QED BY <3>1, <3>2
  <2>10. ASSUME NEW s \in Sessions, NEW m \in Terminal, InPipe(pipe'[s], m)
         PROVE  InPipe(pipe[s], m)
    <3>1. CASE s # p
      BY <2>4, <2>10, <3>1 DEF PollReads, TypeOK
    <3>2. CASE s = p
      <4>1. pipe'[s] = SubSeq(pipe[p], n + 1, Len(pipe[p]))
        BY <2>1, <2>4, <3>2 DEF PollReads, TypeOK
      <4>2. PICK i \in 1..Len(pipe'[s]) : pipe'[s][i] = m
        BY <2>10 DEF InPipe
      <4>3. /\ Len(pipe'[s]) = Len(pipe[p]) - n
            /\ pipe'[s][i] = pipe[p][n + i]
        BY <2>8, <4>1, <4>2, SubSeqProperties
      <4>4. n + i \in 1..Len(pipe[p])
        BY <2>8, <4>2, <4>3
      <4> QED BY <3>2, <4>2, <4>3, <4>4 DEF InPipe
    <3> QED BY <3>1, <3>2
  <2> QED BY <1>1, <2>1, <2>7, <2>9, <2>10
<1> QED BY <1>2, <1>3

\* flush() sends what it was given: no final publication comes from nowhere.
LEMMA FlushStep ==
  ASSUME TypeOK, NEW s \in Sessions, NEW c \in Chan, Flush(s, c), NEW m \in Terminal
  PROVE  /\ InChan(chan'[s], m) \/ InPipe(pipe'[s], m) => InChan(c, m) \/ InPipe(pipe[s], m)
         /\ \A t \in Sessions \ {s} : chan'[t] = chan[t] /\ pipe'[t] = pipe[t]
<1>1. CASE /\ chan' = [chan EXCEPT ![s] = Advanced(c)]
           /\ pipe' = [pipe EXCEPT ![s] = Append(pipe[s], Frame(c))]
  <2>1. pipe[s] \in Seq(Message \cup {Junk}) /\ chan'[s] = Advanced(c)
        /\ pipe'[s] = Append(pipe[s], Frame(c))
    BY <1>1 DEF TypeOK
  <2>2. InChan(Advanced(c), m) => InChan(c, m)
    BY DEF InChan, Advanced, Chan, Terminal, Nothing
  <2>3. Frame(c) = m => InChan(c, m)
    BY DEF Frame, InChan, Terminal, Junk
  <2>4. InPipe(Append(pipe[s], Frame(c)), m) => InPipe(pipe[s], m) \/ Frame(c) = m
    BY <2>1 DEF InPipe
  <2> QED BY <1>1, <2>1, <2>2, <2>3, <2>4 DEF TypeOK
<1>2. CASE chan' = [chan EXCEPT ![s] = [c EXCEPT !.part = TRUE]] /\ UNCHANGED pipe
  BY <1>2 DEF TypeOK, InChan, Chan
<1>3. CASE chan' = [chan EXCEPT ![s] = c] /\ UNCHANGED pipe
  BY <1>3 DEF TypeOK
<1> QED BY <1>1, <1>2, <1>3 DEF Flush

\* poll() queues `latest` and nothing else.
LEMMA PolledStep ==
  ASSUME TypeOK, NEW s \in Sessions, NEW m \in Terminal, InChan(Polled(s), m)
  PROVE  latest[s] = m \/ InChan(chan[s], m)
BY DEF TypeOK, Polled, Queued, InChan, Chan

\* A process that goes takes its unsent publications with it.
LEMMA CutShortStep ==
  ASSUME TypeOK, NEW s \in Sessions, NEW m \in Terminal, InPipe(CutShort(s), m)
  PROVE  InPipe(pipe[s], m)
<1>1. pipe[s] \in Seq(Message \cup {Junk}) /\ m # Junk
  BY DEF TypeOK, Terminal, Junk
<1> QED BY <1>1 DEF CutShort, InPipe

-----------------------------------------------------------------------------
(* The lock.                                                               *)

\* Every step keeps the radio's stages within its flock's holder.
LEMMA LockStep == TypeOK /\ LockInv /\ [Next]_vars => LockInv'
<1> SUFFICES ASSUME TypeOK, LockInv, [Next]_vars PROVE LockInv'
  OBVIOUS
<1> USE DEF LockInv, Held
<1>1. CASE UNCHANGED <<pc, lock>>
  BY <1>1
<1>2. CASE ShutdownKills
  BY <1>2, SessionAssumption DEF ShutdownKills, Vanish, TypeOK, Broker
<1>3. ASSUME NEW s \in Sessions,
             \/ Start(s) \/ StartFails(s) \/ Boot(s) \/ Acquire(s) \/ StartupFails(s)
             \/ SetupFails(s) \/ CaptureStarted(s) \/ SourceEnds(s) \/ LiveSeesEof(s)
             \/ Unwind(s) \/ Restore(s) \/ Finish(s) \/ DrainPoll(s) \/ DrainEnds(s)
      PROVE  LockInv'
  BY <1>3, SessionAssumption
  DEF Start, StartFails, Boot, Acquire, StartupFails, SetupFails, CaptureStarted,
      SourceEnds, LiveSeesEof, Unwind, Restore, Finish, DrainPoll, DrainEnds, Goto, TypeOK
<1>4. ASSUME NEW s \in Sessions, Exit(s) \/ InterruptKills(s) \/ Dies(s)
      PROVE  LockInv'
  BY <1>4, SessionAssumption DEF Exit, InterruptKills, Dies, Vanish, TypeOK
<1>5. ASSUME NEW s \in Sessions, Interrupt(s) \/ InterruptInFlush(s)
      PROVE  LockInv'
  BY <1>5 DEF Interrupt, InterruptInFlush, Unwinding, InterruptTo, Interrupted, TypeOK
<1>6. CASE PollOwner
  BY <1>6, PollOwnerStep
<1> QED BY <1>1, <1>2, <1>3, <1>4, <1>5, <1>6
    DEF Next, BrokerNext, OwnerNext, OwnerProgress, vars, owner, Reply, Shutdown,
        ShutdownDone, BrokerCrash, BrokerStart, Stop, Publish, LivePoll, DrainFlush

-----------------------------------------------------------------------------
(* The broker and its child.                                               *)

\* Every step keeps each living owner owned or abandoned.
LEMMA ChildStep ==
  TypeOK /\ OneOwnedOwner /\ ChildInv /\ [Next]_vars => OneOwnedOwner' /\ ChildInv'
<1> SUFFICES ASSUME TypeOK, OneOwnedOwner, ChildInv, [Next]_vars
             PROVE  OneOwnedOwner' /\ ChildInv'
  OBVIOUS
<1> USE DEF OneOwnedOwner, ChildInv, Alive, Held
<1>0. broker.sid \in Sessions \cup {NoSession} /\ broker.proc \in Sessions \cup {NoSession}
  BY DEF TypeOK, Broker
<1>1. CASE UNCHANGED <<broker, pc, orphan>>
  BY <1>1
<1>2. CASE PollOwner
  <2>1. broker'.phase = "idle" <=> broker.phase = "idle"
    BY <1>2, <1>0, PollOwnerStep, SessionAssumption
    DEF TypeOK, Broker, Message, Active, Terminal
  <2> QED BY <1>2, <2>1, PollOwnerStep DEF TypeOK
<1>g. /\ Gone.proc = NoSession /\ Gone.sid = NoSession /\ Gone.phase = "idle"
      /\ FreshBroker.proc = NoSession /\ FreshBroker.sid = NoSession
      /\ FreshBroker.phase = "idle"
  BY DEF Gone, FreshBroker
<1>3. CASE Reply
  BY <1>3, <1>0 DEF Reply, owner, TypeOK, Broker
<1>10. CASE Shutdown
  <2>1. CASE broker.proc = NoSession
    BY <1>10, <1>0, <1>g, <2>1 DEF Shutdown, owner
  <2>2. CASE broker.proc # NoSession
    <3>1. /\ broker'.sid = broker.sid /\ broker'.proc = broker.proc
          /\ broker'.phase \in {"stopping", broker.phase} /\ broker'.mode = "closing"
      <4>1. /\ broker \in Broker
            /\ broker' = [broker EXCEPT !.mode = "closing",
                            !.phase = IF broker.phase \in Active THEN "stopping" ELSE broker.phase]
        BY <1>10, <2>2 DEF Shutdown, TypeOK
      <4> QED BY <4>1 DEF Broker
    <3>2. broker.phase # "idle" /\ UNCHANGED <<pc, orphan>>
      BY <1>10, <1>0, <2>2 DEF Shutdown, owner
    <3> QED BY <1>0, <3>1, <3>2
  <2> QED BY <2>1, <2>2
<1>4. CASE ShutdownDone \/ BrokerStart
  BY <1>4, <1>0, <1>g DEF ShutdownDone, BrokerStart, owner
<1>11. CASE BrokerCrash
  <2>1. UNCHANGED pc /\ broker' = Gone
    BY <1>11 DEF BrokerCrash, owner
  <2>2. \A s \in Sessions :
          orphan'[s] = (orphan[s] \/ (s = broker.proc /\ broker.proc # NoSession))
    BY <1>11, <1>0 DEF BrokerCrash, Abandon, TypeOK
  <2> QED BY <1>0, <1>g, <2>1, <2>2
<1>5. CASE ShutdownKills
  BY <1>5, <1>0, SessionAssumption
  DEF ShutdownKills, Abandon, Vanish, Gone, FreshBroker, TypeOK, Broker
<1>6. ASSUME NEW s \in Sessions, Start(s) \/ StartFails(s) \/ Stop(s)
      PROVE  OneOwnedOwner' /\ ChildInv'
  <2>1. CASE Start(s) \/ StartFails(s)
    <3>1. /\ broker.proc = NoSession /\ pc[s] = "unused" /\ ~orphan[s] /\ s # NoSession
      BY <2>1, SessionAssumption DEF Start, StartFails, Idle
    <3>2. /\ broker'.sid = s /\ broker'.proc \in {s, NoSession} /\ UNCHANGED orphan
          /\ broker'.phase \in {"starting", "failed"}
          /\ Start(s) => broker'.proc = s
      BY <2>1, <3>1 DEF Start, StartFails, TypeOK, Broker
    <3>3. /\ \A t \in Sessions \ {s} : pc'[t] = pc[t]
          /\ pc'[s] \in {"boot", "exited"}
          /\ pc'[s] = "boot" => broker'.proc = s
      BY <2>1, <3>2 DEF Start, StartFails, TypeOK
    <3>4. broker'.mode = "looping"
      BY <2>1 DEF Start, StartFails, TypeOK, Broker
    <3> QED BY <1>0, <3>1, <3>2, <3>3, <3>4, SessionAssumption
  <2>2. CASE Stop(s)
    <3>1. /\ broker'.sid = broker.sid /\ broker'.proc = broker.proc
          /\ broker'.mode = "looping"
          /\ broker'.phase = "stopping" /\ broker.sid = s /\ UNCHANGED <<pc, orphan>>
      BY <2>2 DEF Stop, StopAccepted, owner, TypeOK, Broker
    <3> QED BY <1>0, <3>1, SessionAssumption
  <2> QED BY <1>6, <2>1, <2>2
<1>7. ASSUME NEW s \in Sessions,
             \/ Boot(s) \/ Acquire(s) \/ StartupFails(s) \/ SetupFails(s)
             \/ CaptureStarted(s) \/ SourceEnds(s) \/ LiveSeesEof(s) \/ Unwind(s)
             \/ Restore(s) \/ Finish(s) \/ DrainPoll(s) \/ DrainEnds(s)
      PROVE  OneOwnedOwner' /\ ChildInv'
  BY <1>7, <1>0
  DEF Boot, Acquire, StartupFails, SetupFails, CaptureStarted, SourceEnds, LiveSeesEof,
      Unwind, Restore, Finish, DrainPoll, DrainEnds, Goto, TypeOK
<1>8. ASSUME NEW s \in Sessions, Exit(s) \/ InterruptKills(s) \/ Dies(s)
      PROVE  OneOwnedOwner' /\ ChildInv'
  BY <1>8, <1>0 DEF Exit, InterruptKills, Dies, Vanish, TypeOK
<1>9. ASSUME NEW s \in Sessions, Interrupt(s) \/ InterruptInFlush(s)
      PROVE  OneOwnedOwner' /\ ChildInv'
  BY <1>9, <1>0 DEF Interrupt, InterruptInFlush, Unwinding, InterruptTo, Interrupted, TypeOK
<1> QED BY <1>1, <1>2, <1>3, <1>4, <1>5, <1>6, <1>7, <1>8, <1>9, <1>10, <1>11
    DEF Next, BrokerNext, OwnerNext, OwnerProgress, vars, Publish, LivePoll, DrainFlush

-----------------------------------------------------------------------------
(* How run_live ended.                                                     *)

\* Every step keeps run_live's outcome undecided until it ends.
LEMMA EndStep == TypeOK /\ EndInv /\ [Next]_vars => EndInv'
<1> SUFFICES ASSUME TypeOK, EndInv, [Next]_vars PROVE EndInv'
  OBVIOUS
<1> USE DEF EndInv
<1>1. CASE UNCHANGED <<pc, end>>
  BY <1>1
<1>2. CASE ShutdownKills
  BY <1>2 DEF ShutdownKills, Vanish, TypeOK
<1>3. ASSUME NEW s \in Sessions,
             \/ Start(s) \/ StartFails(s) \/ Boot(s) \/ Acquire(s) \/ StartupFails(s)
             \/ SetupFails(s) \/ CaptureStarted(s) \/ SourceEnds(s) \/ LiveSeesEof(s)
             \/ Unwind(s) \/ Finish(s) \/ DrainPoll(s) \/ DrainEnds(s)
      PROVE  EndInv'
  BY <1>3
  DEF Start, StartFails, Boot, Acquire, StartupFails, SetupFails, CaptureStarted,
      SourceEnds, LiveSeesEof, Unwind, Finish, DrainPoll, DrainEnds, Goto, TypeOK
<1>7. ASSUME NEW s \in Sessions, Restore(s)
      PROVE  EndInv'
  <2>1. /\ pc[s] = "restore"
        /\ pc' = [pc EXCEPT ![s] = "finish"]
        /\ \E complete \in BOOLEAN :
             end' = [end EXCEPT ![s] =
                       IF sig[s] THEN Interrupted(Restored(end[s], complete))
                       ELSE Restored(end[s], complete)]
    BY <1>7 DEF Restore, Goto
  <2> QED BY <2>1 DEF Restored, Interrupted, TypeOK
<1>4. ASSUME NEW s \in Sessions, Exit(s) \/ InterruptKills(s) \/ Dies(s)
      PROVE  EndInv'
  BY <1>4 DEF Exit, InterruptKills, Dies, Vanish, TypeOK
<1>5. ASSUME NEW s \in Sessions, Interrupt(s) \/ InterruptInFlush(s)
      PROVE  EndInv'
  <2>1. CASE Interrupt(s)
    BY <2>1 DEF Interrupt, Unwinding, InterruptTo, Interrupted, TypeOK
  <2>2. CASE InterruptInFlush(s)
    BY <2>2 DEF InterruptInFlush, Unwinding, InterruptTo, Interrupted, TypeOK
  <2> QED BY <1>5, <2>1, <2>2
<1>6. CASE PollOwner
  BY <1>6, PollOwnerStep
<1> QED BY <1>1, <1>2, <1>3, <1>4, <1>5, <1>6, <1>7
    DEF Next, BrokerNext, OwnerNext, OwnerProgress, vars, owner, Reply, Shutdown,
        ShutdownDone, BrokerCrash, BrokerStart, Stop, Publish, LivePoll, DrainFlush

-----------------------------------------------------------------------------
(* Final publications.                                                     *)

\* A step that leaves end and the queues of s alone, and s ended if it was,
\* keeps what is known of its final publications.
LEMMA FinalFrame ==
  ASSUME NEW s \in Sessions, TypeOK, FinalInv,
         latest'[s] \in {latest[s], Nothing, "starting", "running"},
         chan'[s] \in {chan[s], EmptyChan},
         \A m \in Terminal : InPipe(pipe'[s], m) => InPipe(pipe[s], m),
         pc[s] \in Ended => pc'[s] \in Ended /\ end'[s] = end[s]
  PROVE  \A m \in Terminal :
           latest'[s] = m \/ InChan(chan'[s], m) \/ InPipe(pipe'[s], m) => Final(s, m)'
BY DEF FinalInv, Final, InChan, EmptyChan, Terminal, Nothing

\* Every step keeps a final phase, wherever it waits, true of its owner.
LEMMA FinalStep == TypeOK /\ FinalInv /\ EndInv /\ [Next]_vars => FinalInv'
<1> SUFFICES ASSUME TypeOK, FinalInv, EndInv, [Next]_vars,
                    NEW t \in Sessions, NEW m \in Terminal,
                    latest'[t] = m \/ InChan(chan'[t], m) \/ InPipe(pipe'[t], m)
             PROVE  Final(t, m)'
  BY DEF FinalInv
<1> DEFINE Carried == latest[t] = m \/ InChan(chan[t], m) \/ InPipe(pipe[t], m)
<1>c. Carried => pc[t] \in Ended /\ Final(t, m)
  BY DEF FinalInv, Final
<1>1. CASE UNCHANGED <<pc, end, latest, chan, pipe>>
  BY <1>1, <1>c DEF Final
<1>2. CASE PollOwner
  BY <1>2, <1>c, PollOwnerStep DEF Final
<1>3. CASE BrokerCrash
  <2>1. UNCHANGED <<pc, end, latest, chan>> /\ pipe'[t] \in {pipe[t], << >>}
    BY <1>3 DEF BrokerCrash, Abandon, owner, TypeOK
  <2>2. InPipe(pipe'[t], m) => InPipe(pipe[t], m)
    BY <2>1 DEF InPipe
  <2> QED BY <1>c, <2>1, <2>2 DEF Final
<1>4. CASE ShutdownKills
  <2>1. /\ latest'[t] \in {latest[t], Nothing} /\ chan'[t] \in {chan[t], EmptyChan}
        /\ pipe'[t] \in {pipe[t], << >>} /\ end' = end
        /\ pc'[t] \in {pc[t], "exited"}
    BY <1>4 DEF ShutdownKills, Vanish, Abandon, TypeOK
  <2>2. \A x \in Terminal : InPipe(pipe'[t], x) => InPipe(pipe[t], x)
    BY <2>1 DEF InPipe
  <2> QED BY <2>1, <2>2, FinalFrame DEF Ended
<1>5. ASSUME NEW s \in Sessions,
             \/ Start(s) \/ StartFails(s) \/ Boot(s) \/ Acquire(s) \/ StartupFails(s)
             \/ SetupFails(s) \/ CaptureStarted(s) \/ Publish(s) \/ SourceEnds(s)
             \/ Unwind(s) \/ Restore(s) \/ Interrupt(s)
      PROVE  Final(t, m)'
  <2>1. /\ chan' = chan /\ pipe' = pipe
        /\ latest'[t] \in {latest[t], "starting", "running"}
        /\ pc[t] \in Ended => pc'[t] \in Ended /\ end'[t] = end[t]
    BY <1>5
    DEF Start, StartFails, Boot, Acquire, StartupFails, SetupFails, CaptureStarted,
        Publish, SourceEnds, Unwind, Restore, Interrupt, Unwinding, Goto, TypeOK, Ended
  <2> QED BY <2>1, FinalFrame
<1>6. ASSUME NEW s \in Sessions, Finish(s)
      PROVE  Final(t, m)'
  <2>1. CASE t # s
    BY <1>6, <1>c, <2>1 DEF Finish, Goto, Final, TypeOK
  <2>2. CASE t = s
    <3>1. ~Carried
      BY <1>6, <1>c, <2>2 DEF Finish, Goto, Ended
    <3>2. latest'[s] = m /\ m = Outcome(s) /\ pc'[s] = "drain" /\ end' = end
      BY <1>6, <2>2, <3>1 DEF Finish, Goto, TypeOK
    <3>3. end[s] \in {"zero", "failure", "interrupt", "hidden"}
      BY <1>6 DEF EndInv, Finish, Goto
    <3> QED BY <2>2, <3>2, <3>3 DEF Final, Outcome, Ended
  <2> QED BY <2>1, <2>2
<1>7. ASSUME NEW s \in Sessions, LiveSeesEof(s)
      PROVE  Final(t, m)'
  <2>1. CASE t # s
    BY <1>7, <1>c, <2>1 DEF LiveSeesEof, Goto, Final, TypeOK
  <2>2. CASE t = s
    <3>1. InChan(Queued(chan[s], "stopping"), m) => InChan(chan[s], m)
      BY DEF InChan, Queued, TypeOK, Chan, Terminal
    <3>2. Carried
      BY <1>7, <2>2, <3>1 DEF LiveSeesEof, TypeOK, Nothing, Terminal
    <3> QED BY <1>7, <1>c, <2>2, <3>2 DEF LiveSeesEof, Goto, Ended
  <2> QED BY <2>1, <2>2
<1>8. ASSUME NEW s \in Sessions, LivePoll(s) \/ DrainPoll(s) \/ DrainFlush(s)
      PROVE  Final(t, m)'
  <2>1. PICK c \in Chan : /\ Flush(s, c)
                          /\ InChan(c, m) => latest[s] = m \/ InChan(chan[s], m)
    BY <1>8, PolledStep, PolledType DEF LivePoll, DrainPoll, DrainFlush, TypeOK
  <2>2. Carried
    <3>1. CASE t = s
      BY <1>8, <2>1, <3>1, FlushStep
      DEF LivePoll, DrainPoll, DrainFlush, TypeOK, Nothing, Terminal
    <3>2. CASE t # s
      BY <1>8, <2>1, <3>2, FlushStep DEF LivePoll, DrainPoll, DrainFlush, TypeOK
    <3> QED BY <3>1, <3>2
  <2>3. end' = end /\ (pc[t] \in Ended => pc'[t] \in Ended)
    BY <1>8 DEF LivePoll, DrainPoll, DrainFlush, Goto, TypeOK, Ended
  <2> QED BY <1>c, <2>2, <2>3 DEF Final
<1>9. ASSUME NEW s \in Sessions, DrainEnds(s) \/ Exit(s) \/ InterruptKills(s) \/ Dies(s)
      PROVE  Final(t, m)'
  <2>1. /\ latest'[t] \in {latest[t], Nothing} /\ chan'[t] \in {chan[t], EmptyChan}
        /\ pipe'[t] \in {pipe[t], CutShort(t)} /\ end' = end
        /\ pc'[t] \in {pc[t], "exited", "closing"}
    BY <1>9 DEF DrainEnds, Exit, InterruptKills, Dies, Vanish, TypeOK
  <2>2. \A x \in Terminal : InPipe(pipe'[t], x) => InPipe(pipe[t], x)
    BY <2>1, CutShortStep
  <2> QED BY <2>1, <2>2, FinalFrame DEF Ended
<1>10. ASSUME NEW s \in Sessions, InterruptInFlush(s)
       PROVE  Final(t, m)'
  <2>1. CASE t # s
    BY <1>10, <1>c, <2>1 DEF InterruptInFlush, Unwinding, Final, TypeOK
  <2>2. CASE t = s
    <3> DEFINE c == Polled(s)
    <3>1. c \in Chan /\ ~Carried
      BY <1>10, <1>c, <2>2, PolledType DEF InterruptInFlush, Ended
    <3>2. ~InChan(c, m)
      BY <2>2, <3>1, PolledStep
    <3>3. latest'[s] # m /\ chan'[s].out = c.out /\ chan'[s].nxt = c.nxt
      BY <1>10, <3>1 DEF InterruptInFlush, TypeOK, Chan, Nothing, Terminal
    <3>4. Frame(c) # m
      BY <3>2 DEF Frame, InChan, Junk, Terminal
    <3>5. UNCHANGED pipe \/ pipe' = [pipe EXCEPT ![s] = Append(pipe[s], Frame(c))]
      BY <1>10 DEF InterruptInFlush
    <3>6. ~InPipe(pipe'[s], m)
      <4> HIDE DEF c
      <4>1. pipe[s] \in Seq(Message \cup {Junk}) /\ ~InPipe(pipe[s], m)
        BY <2>2, <3>1 DEF TypeOK
      <4>2. pipe'[s] \in {pipe[s], Append(pipe[s], Frame(c))}
        BY <3>5 DEF TypeOK
      <4>3. ~InPipe(Append(pipe[s], Frame(c)), m)
        BY <3>4, <4>1 DEF InPipe
      <4> QED BY <4>1, <4>2, <4>3
    <3> QED BY <2>2, <3>2, <3>3, <3>6 DEF InChan
  <2> QED BY <2>1, <2>2
<1> QED BY <1>1, <1>2, <1>3, <1>4, <1>5, <1>6, <1>7, <1>8, <1>9, <1>10
    DEF Next, BrokerNext, OwnerNext, OwnerProgress, vars, owner, Reply, Shutdown,
        ShutdownDone, BrokerStart, Stop

\* What the broker publishes as final stays true of its session.
LEMMA BrokerFinalStep ==
  TypeOK /\ FinalInv /\ ChildInv /\ BrokerFinal /\ [Next]_vars => BrokerFinal'
<1> SUFFICES ASSUME TypeOK, FinalInv, ChildInv, BrokerFinal, [Next]_vars,
                    NEW m \in Terminal, broker'.phase = m
             PROVE  Final(broker.sid, m)'
  BY DEF BrokerFinal
<1>0. /\ broker.sid \in Sessions \cup {NoSession}
      /\ broker.proc # NoSession => broker.proc = broker.sid
      /\ broker.phase = m => broker.sid \in Sessions /\ Final(broker.sid, m)
      /\ m # "idle"
  BY DEF TypeOK, Broker, ChildInv, BrokerFinal, Terminal
<1>f. m \notin {"idle", "starting", "running", "stopping"}
  BY DEF Terminal
\* A step that changes neither the publication nor an ended owner.
<1>k. ASSUME broker'.sid = broker.sid, broker'.phase = broker.phase,
             \A s \in Sessions : pc[s] \in Ended => pc'[s] \in Ended /\ end'[s] = end[s]
      PROVE  Final(broker.sid, m)'
  BY <1>0, <1>k DEF Final
<1>1. CASE UNCHANGED <<broker, pc, end>>
  BY <1>1, <1>k
<1>2. CASE PollOwner
  <2>1. CASE broker'.phase = broker.phase
    BY <1>2, <1>k, <2>1, PollOwnerStep
  <2>2. CASE broker'.phase # broker.phase
    <3>1. /\ broker.proc \in Sessions /\ broker'.sid = broker.sid
          /\ UNCHANGED <<pc, end>>
      BY <1>2, <2>2, PollOwnerStep
    <3>2. broker.proc = broker.sid
      BY <1>0, <3>1, SessionAssumption
    <3>3. \/ m = "failed" /\ pc[broker.sid] = "exited"
          \/ InPipe(pipe[broker.sid], m)
      BY <1>2, <1>f, <2>2, <3>2, PollOwnerStep
    <3>4. Final(broker.sid, m)
      BY <3>1, <3>2, <3>3 DEF FinalInv, Final, Ended
    <3> QED BY <3>1, <3>4 DEF Final
  <2> QED BY <2>1, <2>2
<1>3. CASE Reply
  BY <1>3, <1>k DEF Reply, owner, TypeOK, Broker
<1>4. CASE ShutdownDone \/ BrokerStart \/ BrokerCrash \/ ShutdownKills
  BY <1>4, <1>f
  DEF ShutdownDone, BrokerStart, BrokerCrash, ShutdownKills, Gone, FreshBroker
<1>5. CASE Shutdown
  <2>1. CASE broker.proc = NoSession
    BY <1>5, <1>f, <2>1 DEF Shutdown, Gone, FreshBroker
  <2>2. CASE broker.proc # NoSession
    <3>1. broker'.sid = broker.sid /\ broker'.phase \in {"stopping", broker.phase}
      BY <1>5, <2>2 DEF Shutdown, TypeOK, Broker
    <3> QED BY <1>5, <1>f, <1>k, <3>1 DEF Shutdown, owner
  <2> QED BY <2>1, <2>2
<1>6. ASSUME NEW s \in Sessions, Start(s) \/ Stop(s)
      PROVE  Final(broker.sid, m)'
  BY <1>6, <1>f DEF Start, Stop, TypeOK, Broker
<1>7. ASSUME NEW s \in Sessions, StartFails(s)
      PROVE  Final(broker.sid, m)'
  BY <1>7 DEF StartFails, Final, Ended, TypeOK, Broker
<1>8. ASSUME NEW s \in Sessions, OwnerNext(s)
      PROVE  Final(broker.sid, m)'
  <2>1. CASE Boot(s) \/ Acquire(s) \/ StartupFails(s) \/ SetupFails(s)
             \/ CaptureStarted(s) \/ Publish(s) \/ SourceEnds(s) \/ Unwind(s)
             \/ Restore(s) \/ Interrupt(s) \/ InterruptInFlush(s) \/ LiveSeesEof(s)
             \/ Finish(s)
    <3>1. /\ UNCHANGED broker
          /\ \A t \in Sessions :
               pc[t] \in Ended => pc'[t] \in Ended /\ end'[t] = end[t]
      BY <2>1
      DEF Boot, Acquire, StartupFails, SetupFails, CaptureStarted, Publish, SourceEnds,
          Unwind, Restore, Interrupt, InterruptInFlush, LiveSeesEof, Finish, Unwinding,
          Goto, TypeOK, Ended
    <3> QED BY <1>k, <3>1
  <2>2. CASE LivePoll(s) \/ DrainPoll(s) \/ DrainFlush(s) \/ DrainEnds(s)
             \/ Exit(s) \/ InterruptKills(s) \/ Dies(s)
    <3>1. /\ UNCHANGED broker /\ UNCHANGED end
          /\ \A t \in Sessions : pc[t] \in Ended => pc'[t] \in Ended
      BY <2>2
      DEF LivePoll, DrainPoll, DrainFlush, DrainEnds, Exit, InterruptKills, Dies, Vanish,
          Goto, TypeOK, Ended
    <3> QED BY <1>k, <3>1
  <2> QED BY <1>8, <2>1, <2>2 DEF OwnerNext, OwnerProgress
<1> QED BY <1>1, <1>2, <1>3, <1>4, <1>5, <1>6, <1>7, <1>8 DEF Next, BrokerNext, vars

-----------------------------------------------------------------------------
(* The theorems.                                                           *)

\* The strengthened invariant holds throughout.
LEMMA Inductive == Spec => []IInv
<1>1. TypeOK /\ IInv /\ [Next]_vars => IInv'
  BY LockStep, ChildStep, EndStep, FinalStep, BrokerFinalStep DEF IInv
<1> QED BY <1>1, InitIInv, TypeCorrect, PTL DEF Spec

\* At most one owner holds the radio, across any number of brokers.
THEOREM RadioIsExclusive == Spec => []RadioExclusive
<1>1. IInv => RadioExclusive
  BY DEF IInv, LockInv, RadioExclusive
<1> QED BY <1>1, Inductive, PTL

\* A broker never has two living owners, nor loses track of its one.
THEOREM OwnersAreOwned == Spec => []OneOwnedOwner
<1>1. IInv => OneOwnedOwner
  BY DEF IInv
<1> QED BY <1>1, Inductive, PTL

\* A terminal phase is published only after the radio is released.
THEOREM ReleasedBeforeTerminal == Spec => []TerminalAfterRelease
<1>1. IInv => TerminalAfterRelease
  BY DEF IInv, BrokerFinal, Final, TerminalAfterRelease
<1> QED BY <1>1, Inductive, PTL

\* A session published as stopped ended by returning 0 or in a
\* KeyboardInterrupt, the one that takes the place of a failure included.
THEOREM StoppedMeansStopped == Spec => []StoppedIsGenuine
<1>1. IInv => StoppedIsGenuine
  BY DEF IInv, BrokerFinal, Final, StoppedIsGenuine, Terminal
<1> QED BY <1>1, Inductive, PTL

-----------------------------------------------------------------------------
(* A stop reaches the session it names.                                    *)

\* A step raises SIGINT for the session its client named, for the broker's
\* own end, or with a frame that does not decode.
LEMMA StopStep ==
  ASSUME TypeOK, ChildInv, [Next]_vars, NEW s \in Sessions, sig'[s], ~sig[s]
  PROVE  named = s \/ broker.mode = "exiting" \/ broker'.bad
<1>1. CASE PollOwner
  <2>1. broker.proc # NoSession
    BY <1>1 DEF PollOwner
  <2> DEFINE p == broker.proc
  <2>2. p \in Sessions
    BY <2>1 DEF TypeOK, Broker
  <2>3. PICK mode : PollChild(p, mode)
    BY <1>1, <2>1 DEF PollOwner
  <2>4. PICK n \in 0..Len(pipe[p]) : \E eof \in EofChoices(p, n) :
          \E raised \in RaiseChoices(p, n, eof) : PollReads(p, mode, n, eof, raised)
    BY <2>3 DEF PollChild
  <2>5. PICK eof \in EofChoices(p, n) :
          \E raised \in RaiseChoices(p, n, eof) : PollReads(p, mode, n, eof, raised)
    BY <2>4
  <2>6. PICK raised \in RaiseChoices(p, n, eof) : PollReads(p, mode, n, eof, raised)
    BY <2>5
  <2>7. s = p /\ raised /\ pc[p] # "exited"
    BY <2>2, <2>6 DEF PollReads, TypeOK
  <2>8. Undecodable(p, n)
    BY <2>7 DEF RaiseChoices
  <2>9. broker' = [broker EXCEPT !.mode = mode, !.eof = eof, !.bad = Undecodable(p, n),
                                 !.phase = Delivered(p, n)]
    BY <2>6, <2>7 DEF PollReads, Reap
  <2> QED BY <2>8, <2>9 DEF TypeOK, Broker
<1>2. CASE Shutdown
  BY <1>2 DEF Shutdown
<1>3. ASSUME NEW t \in Sessions, Stop(t)
      PROVE  named = s
  <2>1. broker.proc = t /\ named = t
    BY <1>3 DEF Stop, StopAccepted, ChildInv
  <2> QED BY <1>3, <2>1 DEF Stop, TypeOK
<1>4. ASSUME NEW t \in Sessions,
             \/ Restore(t) \/ Exit(t) \/ InterruptKills(t) \/ Dies(t) \/ Interrupt(t)
             \/ InterruptInFlush(t)
      PROVE  FALSE
  BY <1>4 DEF Restore, Exit, InterruptKills, Dies, Vanish, Interrupt, InterruptInFlush,
              Unwinding, TypeOK
<1>5. CASE ShutdownKills
  BY <1>5 DEF ShutdownKills, Vanish, TypeOK
<1>6. CASE UNCHANGED sig
  BY <1>6
<1> QED BY <1>1, <1>2, <1>3, <1>4, <1>5, <1>6
    DEF Next, BrokerNext, OwnerNext, OwnerProgress, vars, Reply, ShutdownDone,
        BrokerCrash, BrokerStart, Start, StartFails, Boot, Acquire, StartupFails,
        SetupFails, CaptureStarted, Publish, LivePoll, LiveSeesEof, SourceEnds, Unwind,
        Finish, DrainPoll, DrainFlush, DrainEnds

\* dispatch's stop signals the session its client named and no other, even
\* when that session was replaced in between; besides it only shutdown and a
\* frame that does not decode make poll_owner signal an owner.
THEOREM StopsAreNamed == Spec => StopReachesNamed
<1>1. TypeOK /\ IInv /\ [Next]_vars =>
        [\A s \in Sessions :
           sig'[s] /\ ~sig[s] => named = s \/ broker.mode = "exiting" \/ broker'.bad]_vars
  BY StopStep DEF IInv
<1> QED BY <1>1, Inductive, TypeCorrect, PTL DEF Spec, StopReachesNamed

-----------------------------------------------------------------------------
(* The order of an owner's publications.                                   *)

Blank == {Nothing, Junk}

\* Publication b may follow publication a, or one of them is none.
Before(a, b) ==
  \/ a \in Blank \/ b \in Blank
  \/ a = "starting"
  \/ a = "running" /\ b # "starting"
  \/ a = "stopping" /\ b \in {"stopping"} \cup Terminal

\* The frames of the kernel, then the two slots of the socket, of which the
\* second waits for a first already begun, then `latest`.
Ordered(q, c, l) ==
  /\ \A i, j \in 1..Len(q) : i < j => Before(q[i], q[j])
  /\ \A i \in 1..Len(q) : Before(q[i], c.out) /\ Before(q[i], c.nxt) /\ Before(q[i], l)
  /\ Before(c.out, c.nxt) /\ Before(c.out, l) /\ Before(c.nxt, l)
  /\ c.nxt # Nothing => c.out # Nothing /\ c.part

OrderInv == \A s \in Sessions : Ordered(pipe[s], chan[s], latest[s])

\* What an owner has not yet been heard to say.
Holds(q, c, l, m) == l = m \/ InChan(c, m) \/ InPipe(q, m)
InFlight(s, m) == Holds(pipe[s], chan[s], latest[s], m)

\* What an owner can have said by a stage; a final phase is FinalInv's matter.
Sayable(stage) ==
  CASE stage \in {"unused", "boot"}   -> {}
    [] stage \in {"startup", "setup"} -> {"starting"}
    [] stage = "live"                 -> {"starting", "running"}
    [] OTHER                          -> Message

StageInv == \A s \in Sessions : \A m \in Message : InFlight(s, m) => m \in Sayable(pc[s])

\* What is still to come does not undo what the broker has published.
BrokerOrder ==
  broker.proc # NoSession =>
    /\ broker.phase = "running" =>
         pc[broker.proc] # "boot" /\ ~InFlight(broker.proc, "starting")
    /\ broker.phase \in Terminal => \A m \in Message : ~InFlight(broker.proc, m)

Frames == Seq(Message \cup {Junk})
Slot == Message \cup {Nothing}

\* Queueing the newest publication, in front of which nothing is lost but an
\* unsent older one.
LEMMA QueueOrdered ==
  ASSUME NEW q, NEW c \in Chan, NEW l \in Message, Ordered(q, c, l)
  PROVE  /\ Ordered(q, Queued(c, l), Nothing)
         /\ \A m \in Message : Holds(q, Queued(c, l), Nothing, m) => Holds(q, c, l, m)
<1>1. /\ \A m \in Message : m \notin Blank
      /\ \A x : Before(x, Nothing) /\ Before(Nothing, x)
  BY DEF Before, Blank, Message, Active, Terminal, Nothing, Junk
<1>2. CASE c.out = Nothing \/ ~c.part
  <2>1. Queued(c, l).out = l /\ Queued(c, l).nxt = Nothing /\ c.nxt = Nothing
    BY <1>2 DEF Queued, Chan, Ordered
  <2> QED BY <1>1, <2>1 DEF Ordered, Holds, InChan, Blank
<1>3. CASE ~(c.out = Nothing \/ ~c.part)
  <2>1. /\ Queued(c, l).out = c.out /\ Queued(c, l).nxt = l
        /\ c.out # Nothing /\ Queued(c, l).part
    BY <1>3 DEF Queued, Chan
  <2> QED BY <1>1, <2>1 DEF Ordered, Holds, InChan, Blank
<1> QED BY <1>2, <1>3

\* A frame that goes out takes its place behind those that went before it.
LEMMA SentOrdered ==
  ASSUME NEW q \in Frames, NEW c \in Chan, NEW l \in Slot, Ordered(q, c, l), Writing(c)
  PROVE  /\ Ordered(Append(q, Frame(c)), Advanced(c), l)
         /\ \A m \in Message :
              Holds(Append(q, Frame(c)), Advanced(c), l, m) => Holds(q, c, l, m)
<1> DEFINE r == Append(q, Frame(c))
<1>1. Frame(c) \in Blank \/ Frame(c) = c.out
  BY DEF Frame, Blank
<1>2. Advanced(c).out = c.nxt /\ Advanced(c).nxt = Nothing
  BY DEF Advanced, Chan
<1>3. /\ Len(r) = Len(q) + 1 /\ Len(q) \in Nat
      /\ \A i \in 1..Len(q) : r[i] = q[i]
      /\ r[Len(r)] = Frame(c)
  BY DEF Frames
<1>4. \A i \in 1..Len(r) : (i \in 1..Len(q) /\ r[i] = q[i])
                        \/ (i = Len(r) /\ r[i] = Frame(c))
  BY <1>3
<1>5. \A m \in Slot : Before(c.out, m) => Before(Frame(c), m)
  BY <1>1 DEF Before
<1>6. c.nxt \in Slot /\ c.out \in Slot /\ Nothing \in Slot
  BY DEF Chan, Slot
<1>7. \A i \in 1..Len(q) : Before(q[i], Frame(c))
  BY <1>1 DEF Ordered, Before
<1>8. \A x : Before(x, Nothing) /\ Before(Nothing, x)
  BY DEF Before, Blank
<1>9. Ordered(r, Advanced(c), l)
  <2> HIDE DEF r
  <2>1. ASSUME NEW i \in 1..Len(r), NEW j \in 1..Len(r), i < j
        PROVE  Before(r[i], r[j])
    <3>1. i \in 1..Len(q) /\ r[i] = q[i]
      BY <1>3, <1>4, <2>1
    <3> QED BY <1>4, <1>7, <2>1, <3>1 DEF Ordered
  <2>2. ASSUME NEW i \in 1..Len(r)
        PROVE  Before(r[i], c.nxt) /\ Before(r[i], l)
    BY <1>4, <1>5, <1>6, <2>2 DEF Ordered
  <2> QED BY <1>2, <1>8, <2>1, <2>2 DEF Ordered
<1>10. ASSUME NEW m \in Message, Holds(r, Advanced(c), l, m)
       PROVE  Holds(q, c, l, m)
  <2>1. m \notin Blank
    BY DEF Message, Active, Terminal, Blank, Nothing, Junk
  <2>2. InPipe(r, m) => InPipe(q, m) \/ m = c.out
    BY <1>1, <1>4, <2>1 DEF InPipe
  <2> QED BY <1>2, <1>10, <2>1, <2>2 DEF Holds, InChan, Blank
<1> QED BY <1>9, <1>10

\* An interrupted flush() sends its frame and holds on to it.
LEMMA ResentOrdered ==
  ASSUME NEW q \in Frames, NEW c \in Chan, Ordered(q, c, Nothing), Writing(c),
         Before(c.out, c.out), NEW d \in Chan, d.out = c.out, d.nxt = c.nxt, d.part = c.part
  PROVE  /\ Ordered(Append(q, Frame(c)), d, Nothing)
         /\ \A m \in Message :
              Holds(Append(q, Frame(c)), d, Nothing, m) => Holds(q, c, Nothing, m)
<1> DEFINE r == Append(q, Frame(c))
<1>1. Frame(c) \in Blank \/ Frame(c) = c.out
  BY DEF Frame, Blank
<1>2. /\ Len(r) = Len(q) + 1 /\ Len(q) \in Nat
      /\ \A i \in 1..Len(q) : r[i] = q[i]
      /\ r[Len(r)] = Frame(c)
  BY DEF Frames
<1>3. \A i \in 1..Len(r) : (i \in 1..Len(q) /\ r[i] = q[i])
                        \/ (i = Len(r) /\ r[i] = Frame(c))
  BY <1>2
<1>4. /\ Before(Frame(c), c.out) /\ Before(Frame(c), c.nxt)
      /\ \A x : Before(x, Nothing)
      /\ \A i \in 1..Len(q) : Before(q[i], Frame(c))
  BY <1>1 DEF Before, Blank, Ordered
<1> HIDE DEF r
<1>5. Ordered(r, d, Nothing)
  <2>1. ASSUME NEW i \in 1..Len(r), NEW j \in 1..Len(r), i < j
        PROVE  Before(r[i], r[j])
    <3>1. i \in 1..Len(q) /\ r[i] = q[i]
      BY <1>2, <1>3, <2>1
    <3> QED BY <1>3, <1>4, <2>1, <3>1 DEF Ordered
  <2>2. ASSUME NEW i \in 1..Len(r)
        PROVE  Before(r[i], c.out) /\ Before(r[i], c.nxt) /\ Before(r[i], Nothing)
    BY <1>3, <1>4, <2>2 DEF Ordered
  <2> QED BY <1>4, <2>1, <2>2 DEF Ordered
<1>6. ASSUME NEW m \in Message, Holds(r, d, Nothing, m)
      PROVE  Holds(q, c, Nothing, m)
  <2>1. m \notin Blank
    BY DEF Message, Active, Terminal, Blank, Nothing, Junk
  <2>2. InPipe(r, m) => InPipe(q, m) \/ m = c.out
    BY <1>1, <1>3, <2>1 DEF InPipe
  <2> QED BY <1>6, <2>1, <2>2 DEF Holds, InChan, Blank
<1> QED BY <1>5, <1>6 DEF r

\* The frames that are left after a receive(), which its newest came before.
LEMMA ReadOrdered ==
  ASSUME NEW q \in Frames, NEW c \in Chan, NEW l \in Slot, NEW n \in 0..Len(q),
         Ordered(q, c, l)
  PROVE  LET r == SubSeq(q, n + 1, Len(q)) IN
         /\ Ordered(r, c, l)
         /\ \A m \in Message : Holds(r, c, l, m) => Holds(q, c, l, m)
         /\ n > 0 => \A m \in Message : Holds(r, c, l, m) => Before(q[n], m)
<1> DEFINE r == SubSeq(q, n + 1, Len(q))
<1>1. /\ Len(r) = Len(q) - n /\ Len(q) \in Nat
      /\ \A i \in 1..Len(r) : r[i] = q[n + i] /\ n + i \in 1..Len(q)
  <2>1. n + 1 \in 1..Len(q) + 1 /\ Len(q) \in Nat
    BY DEF Frames
  <2> QED BY <2>1, SubSeqProperties DEF Frames
<1> HIDE DEF r
<1>2. Ordered(r, c, l)
  <2>1. ASSUME NEW i \in 1..Len(r), NEW j \in 1..Len(r), i < j
        PROVE  Before(r[i], r[j])
    <3>1. n + i < n + j
      BY <1>1, <2>1
    <3> QED BY <1>1, <2>1, <3>1 DEF Ordered
  <2> QED BY <1>1, <2>1 DEF Ordered
<1>3. \A m \in Message : Holds(r, c, l, m) => Holds(q, c, l, m)
  BY <1>1 DEF Holds, InPipe
<1>4. ASSUME n > 0, NEW m \in Message, Holds(r, c, l, m)
      PROVE  Before(q[n], m)
  <2>1. n \in 1..Len(q)
    BY <1>1, <1>4
  <2>2. CASE InPipe(r, m)
    <3>1. PICK i \in 1..Len(r) : r[i] = m
      BY <2>2 DEF InPipe
    <3>2. n + i \in 1..Len(q) /\ q[n + i] = m /\ n < n + i
      BY <1>1, <3>1
    <3> QED BY <2>1, <3>2 DEF Ordered
  <2>3. CASE l = m \/ InChan(c, m)
    BY <2>1, <2>3 DEF Ordered, InChan
  <2> QED BY <1>4, <2>2, <2>3 DEF Holds
<1> QED BY <1>2, <1>3, <1>4 DEF r

\* A publication that may follow whatever is in flight is recorded.
LEMMA RecordOrdered ==
  ASSUME NEW q \in Frames, NEW c \in Chan, NEW l \in Slot, Ordered(q, c, l),
         NEW k \in Message, \A m \in Message : Holds(q, c, l, m) => Before(m, k)
  PROVE  /\ Ordered(q, c, k)
         /\ \A m \in Message : Holds(q, c, k, m) => m = k \/ Holds(q, c, l, m)
<1>1. \A x \in Message \cup {Nothing, Junk} : x \notin Message => Before(x, k)
  BY DEF Before, Blank
<1>2. \A i \in 1..Len(q) : q[i] \in Message \cup {Junk}
  BY DEF Frames
<1>3. \A i \in 1..Len(q) : Before(q[i], k)
  BY <1>1, <1>2 DEF Holds, InPipe
<1>4. Before(c.out, k) /\ Before(c.nxt, k)
  BY <1>1 DEF Holds, InChan, Chan
<1> QED BY <1>3, <1>4 DEF Ordered, Holds

\* A socket that closes keeps what it had sent, and perhaps half a frame.
LEMMA ClosedOrdered ==
  ASSUME NEW q \in Frames, NEW c \in Chan, NEW l \in Slot, Ordered(q, c, l),
         NEW r \in {q, Append(q, Junk), << >>}
  PROVE  /\ Ordered(r, EmptyChan, Nothing)
         /\ \A m \in Message : Holds(r, EmptyChan, Nothing, m) => Holds(q, c, l, m)
<1>1. \A x : Before(x, Nothing) /\ Before(Nothing, x) /\ Before(x, Junk)
  BY DEF Before, Blank
<1>2. EmptyChan.out = Nothing /\ EmptyChan.nxt = Nothing
  BY DEF EmptyChan
<1>3. \A i \in 1..Len(r) : r[i] = Junk \/ (i \in 1..Len(q) /\ r[i] = q[i])
  BY DEF Frames
<1>4. \A i, j \in 1..Len(r) : i < j => Before(r[i], r[j])
  <2>1. CASE r \in {q, << >>}
    BY <2>1 DEF Ordered
  <2>2. CASE r = Append(q, Junk)
    <3>1. Len(r) = Len(q) + 1 /\ Len(q) \in Nat /\ r[Len(r)] = Junk
          /\ \A i \in 1..Len(q) : r[i] = q[i]
      BY <2>2 DEF Frames
    <3>2. ASSUME NEW i \in 1..Len(r), NEW j \in 1..Len(r), i < j
          PROVE  Before(r[i], r[j])
      <4>1. i \in 1..Len(q) /\ r[i] = q[i]
        BY <3>1, <3>2
      <4>2. r[j] = Junk \/ (j \in 1..Len(q) /\ r[j] = q[j])
        BY <1>3
      <4> QED BY <1>1, <3>2, <4>1, <4>2 DEF Ordered
    <3> QED BY <3>2
  <2> QED BY <2>1, <2>2
<1>5. Ordered(r, EmptyChan, Nothing)
  BY <1>1, <1>2, <1>4 DEF Ordered
<1>6. \A m \in Message : Holds(r, EmptyChan, Nothing, m) => Holds(q, c, l, m)
  BY <1>2, <1>3 DEF Holds, InChan, InPipe, Message, Active, Terminal, Nothing, Junk
<1> QED BY <1>5, <1>6

\* One flush() of a channel that is in order.
LEMMA FlushOrdered ==
  ASSUME TypeOK, NEW s \in Sessions, NEW c \in Chan, NEW l \in Slot,
         Ordered(pipe[s], c, l), Flush(s, c)
  PROVE  /\ Ordered(pipe'[s], chan'[s], l)
         /\ \A m \in Message : Holds(pipe'[s], chan'[s], l, m) => Holds(pipe[s], c, l, m)
         /\ \A t \in Sessions \ {s} : pipe'[t] = pipe[t] /\ chan'[t] = chan[t]
<1>0. pipe[s] \in Frames
  BY DEF TypeOK, Frames
<1>1. CASE /\ Writing(c) /\ chan' = [chan EXCEPT ![s] = Advanced(c)]
           /\ pipe' = [pipe EXCEPT ![s] = Append(pipe[s], Frame(c))]
  <2>1. chan'[s] = Advanced(c) /\ pipe'[s] = Append(pipe[s], Frame(c))
    BY <1>1 DEF TypeOK
  <2> QED BY <1>0, <1>1, <2>1, SentOrdered DEF TypeOK
<1>2. CASE chan' = [chan EXCEPT ![s] = [c EXCEPT !.part = TRUE]] /\ UNCHANGED pipe
  <2>1. chan'[s].out = c.out /\ chan'[s].nxt = c.nxt /\ chan'[s].part
    BY <1>2 DEF TypeOK, Chan
  <2> QED BY <1>2, <2>1 DEF Ordered, Holds, InChan, TypeOK
<1>3. CASE chan' = [chan EXCEPT ![s] = c] /\ UNCHANGED pipe
  BY <1>3 DEF TypeOK
<1> QED BY <1>1, <1>2, <1>3 DEF Flush

\* poll()'s channel with `latest` queued is in order.
LEMMA PolledOrdered ==
  ASSUME TypeOK, NEW s \in Sessions, Ordered(pipe[s], chan[s], latest[s])
  PROVE  /\ Ordered(pipe[s], Polled(s), Nothing)
         /\ \A m \in Message : Holds(pipe[s], Polled(s), Nothing, m) => InFlight(s, m)
<1>1. CASE latest[s] = Nothing
  BY <1>1 DEF Polled, InFlight
<1>2. CASE latest[s] # Nothing
  BY <1>2, QueueOrdered DEF Polled, InFlight, TypeOK
<1> QED BY <1>1, <1>2

\* One poll_owner of a linked owner: the frames it reads leave the pipe, the
\* newest is delivered, and an owner that is gone and fully read is reaped.
LEMMA PollReadStep ==
  ASSUME TypeOK, PollOwner, broker.proc # NoSession
  PROVE  LET p == broker.proc IN
         \E n \in 0..Len(pipe[p]) :
           /\ pipe' = [pipe EXCEPT ![p] = SubSeq(pipe[p], n + 1, Len(pipe[p]))]
           /\ \/ broker'.phase = Delivered(p, n) /\ broker'.proc \in {p, NoSession}
              \/ /\ broker'.phase = "failed" /\ Delivered(p, n) \in Active
                 /\ broker'.proc = NoSession
           /\ broker'.sid = broker.sid
<1> DEFINE p == broker.proc
<1>1. PICK mode : PollChild(p, mode)
  BY DEF PollOwner
<1>2. PICK n \in 0..Len(pipe[p]) : \E eof \in EofChoices(p, n) :
        \E raised \in RaiseChoices(p, n, eof) : PollReads(p, mode, n, eof, raised)
  BY <1>1 DEF PollChild
<1>3. PICK eof, raised : PollReads(p, mode, n, eof, raised)
  BY <1>2
<1> DEFINE b == [broker EXCEPT !.mode = mode, !.eof = eof, !.bad = Undecodable(p, n),
                               !.phase = Delivered(p, n)]
<1>4. b.sid = broker.sid /\ b.proc = p /\ b.phase = Delivered(p, n)
  BY DEF TypeOK, Broker
<1>5. broker' = Reap(b, p)
  BY <1>3 DEF PollReads
<1>6. /\ \/ broker'.phase = Delivered(p, n) /\ broker'.proc \in {p, NoSession}
         \/ /\ broker'.phase = "failed" /\ Delivered(p, n) \in Active
            /\ broker'.proc = NoSession
      /\ broker'.sid = broker.sid
  <2>1. CASE broker' = b
    BY <1>4, <2>1
  <2>2. CASE broker' # b
    <3>1. broker' = [b EXCEPT !.phase = IF b.phase \in Active THEN "failed" ELSE b.phase,
                              !.proc = NoSession, !.eof = FALSE, !.bad = FALSE]
      BY <1>5, <2>2 DEF Reap
    <3>2. /\ broker'.phase = IF b.phase \in Active THEN "failed" ELSE b.phase
          /\ broker'.proc = NoSession /\ broker'.sid = b.sid
      BY <3>1 DEF TypeOK, Broker
    <3> QED BY <1>4, <3>2
  <2> QED BY <2>1, <2>2
<1> QED BY <1>3, <1>6 DEF PollReads

\* What a step may add to an owner's publications in flight.
Said(s, stage, m) ==
  /\ pc[s] \notin Ended
  /\ m \in Sayable(stage)
  /\ m = "starting" => pc[s] = "boot"

\* Every step keeps the publications of an owner in order, and adds only what
\* its stage may say.
LEMMA OwnerStep ==
  ASSUME TypeOK, OrderInv, StageInv, FinalInv, [Next]_vars, NEW t \in Sessions
  PROVE  /\ Ordered(pipe'[t], chan'[t], latest'[t])
         /\ \A m \in Message : InFlight(t, m)' => InFlight(t, m) \/ Said(t, pc'[t], m)
         /\ Sayable(pc[t]) \subseteq Sayable(pc'[t])
<1> USE DEF Goto
<1>o. Ordered(pipe[t], chan[t], latest[t])
  BY DEF OrderInv
<1>t. pipe[t] \in Frames /\ chan[t] \in Chan /\ latest[t] \in Slot /\ pc[t] \in Stage
  BY DEF TypeOK, Frames, Slot
<1>m. /\ {"starting", "running", "stopping", "stopped", "failed"} = Message
      /\ Nothing \in Slot
      /\ Nothing \notin Message
  BY DEF Message, Active, Terminal, Slot, Nothing
<1>s. \A stage \in Stage : Sayable(stage) \subseteq Message
  BY <1>m DEF Sayable
<1>f. InFlight(t, "stopped") \/ InFlight(t, "failed") => pc[t] \in Ended
  BY DEF FinalInv, Final, Terminal, InFlight, Holds
<1>k. ASSUME pipe'[t] = pipe[t], chan'[t] = chan[t], latest'[t] = latest[t],
             Sayable(pc[t]) \subseteq Sayable(pc'[t])
      PROVE  /\ Ordered(pipe'[t], chan'[t], latest'[t])
             /\ \A m \in Message : InFlight(t, m)' => InFlight(t, m) \/ Said(t, pc'[t], m)
             /\ Sayable(pc[t]) \subseteq Sayable(pc'[t])
  BY <1>k, <1>o DEF InFlight
<1>r. ASSUME NEW k \in Message, pipe'[t] = pipe[t], chan'[t] = chan[t], latest'[t] = k,
             \A m \in Message : InFlight(t, m) => Before(m, k),
             Said(t, pc'[t], k), Sayable(pc[t]) \subseteq Sayable(pc'[t])
      PROVE  /\ Ordered(pipe'[t], chan'[t], latest'[t])
             /\ \A m \in Message : InFlight(t, m)' => InFlight(t, m) \/ Said(t, pc'[t], m)
             /\ Sayable(pc[t]) \subseteq Sayable(pc'[t])
  BY <1>r, <1>o, <1>t, RecordOrdered DEF InFlight
<1>c. ASSUME pipe'[t] \in {pipe[t], Append(pipe[t], Junk), << >>}, chan'[t] = EmptyChan,
             latest'[t] = Nothing, Sayable(pc[t]) \subseteq Sayable(pc'[t])
      PROVE  /\ Ordered(pipe'[t], chan'[t], latest'[t])
             /\ \A m \in Message : InFlight(t, m)' => InFlight(t, m) \/ Said(t, pc'[t], m)
             /\ Sayable(pc[t]) \subseteq Sayable(pc'[t])
  BY <1>c, <1>o, <1>t, ClosedOrdered, ZenonT(30) DEF InFlight
<1>1. CASE UNCHANGED <<pc, latest, chan, pipe>>
  BY <1>1, <1>k
<1>2. CASE PollOwner
  <2>1. UNCHANGED <<pc, latest, chan>>
    BY <1>2 DEF PollOwner, owner
  <2>2. CASE pipe'[t] = pipe[t]
    BY <1>k, <2>1, <2>2
  <2>3. CASE pipe'[t] # pipe[t]
    <3>1. broker.proc # NoSession
      BY <1>2, <2>3 DEF PollOwner
    <3>2. PICK n \in 0..Len(pipe[broker.proc]) :
            pipe' = [pipe EXCEPT ![broker.proc] =
                       SubSeq(pipe[broker.proc], n + 1, Len(pipe[broker.proc]))]
      BY <1>2, <3>1, PollReadStep
    <3>3. t = broker.proc /\ pipe'[t] = SubSeq(pipe[t], n + 1, Len(pipe[t]))
      BY <2>3, <3>2 DEF TypeOK
    <3> QED BY <1>o, <1>t, <2>1, <3>2, <3>3, ReadOrdered DEF InFlight
  <2> QED BY <2>2, <2>3
<1>3. CASE BrokerCrash
  <2>1. UNCHANGED <<pc, latest, chan>> /\ pipe'[t] \in {pipe[t], << >>}
    BY <1>3 DEF BrokerCrash, Abandon, owner, TypeOK
  <2>2. CASE pipe'[t] = << >>
    BY <1>o, <2>1, <2>2 DEF Ordered, InFlight, Holds, InPipe
  <2> QED BY <1>k, <2>1, <2>2
<1>4. CASE ShutdownKills
  <2>1. \/ /\ pipe'[t] = pipe[t] /\ chan'[t] = chan[t] /\ latest'[t] = latest[t]
           /\ pc'[t] = pc[t]
        \/ /\ pipe'[t] = << >> /\ chan'[t] = EmptyChan /\ latest'[t] = Nothing
           /\ pc'[t] = "exited"
    BY <1>4 DEF ShutdownKills, Vanish, Abandon, TypeOK
  <2>2. Sayable("exited") = Message
    BY DEF Sayable
  <2> QED BY <1>c, <1>k, <1>s, <1>t, <2>1, <2>2
<1>5. ASSUME NEW s \in Sessions,
             \/ Start(s) \/ StartFails(s) \/ Acquire(s) \/ StartupFails(s) \/ SetupFails(s)
             \/ SourceEnds(s) \/ Unwind(s) \/ Restore(s) \/ Interrupt(s)
      PROVE  /\ Ordered(pipe'[t], chan'[t], latest'[t])
             /\ \A m \in Message : InFlight(t, m)' => InFlight(t, m) \/ Said(t, pc'[t], m)
             /\ Sayable(pc[t]) \subseteq Sayable(pc'[t])
  <2>1. UNCHANGED <<latest, chan, pipe>>
    BY <1>5 DEF Start, StartFails, Acquire, StartupFails, SetupFails, SourceEnds, Unwind,
                Restore, Interrupt
  <2>2. Sayable(pc[t]) \subseteq Sayable(pc'[t])
    BY <1>5, <1>m
    DEF Start, StartFails, Acquire, StartupFails, SetupFails, SourceEnds, Unwind, Restore,
        Interrupt, Unwinding, InterruptTo, Interrupted, TypeOK, Sayable
  <2> QED BY <1>k, <2>1, <2>2
<1>6. ASSUME NEW s \in Sessions, Boot(s) \/ CaptureStarted(s) \/ Publish(s) \/ Finish(s)
      PROVE  /\ Ordered(pipe'[t], chan'[t], latest'[t])
             /\ \A m \in Message : InFlight(t, m)' => InFlight(t, m) \/ Said(t, pc'[t], m)
             /\ Sayable(pc[t]) \subseteq Sayable(pc'[t])
  <2>1. UNCHANGED <<chan, pipe>>
    BY <1>6 DEF Boot, CaptureStarted, Publish, Finish
  <2>2. CASE t # s
    BY <1>6, <1>k, <2>1, <2>2 DEF Boot, CaptureStarted, Publish, Finish, TypeOK
  <2>3. CASE t = s /\ Boot(s)
    <3>1. /\ latest'[t] = "starting" /\ pc[t] = "boot" /\ pc'[t] = "startup"
      BY <2>3 DEF Boot, TypeOK
    <3>2. \A m \in Message : ~InFlight(t, m)
      BY <3>1 DEF StageInv, Sayable
    <3>3. Said(t, pc'[t], "starting") /\ Sayable(pc[t]) = {}
      BY <3>1 DEF Said, Sayable, Ended
    <3> QED BY <1>m, <1>r, <2>1, <3>1, <3>2, <3>3
  <2>4. CASE t = s /\ (CaptureStarted(s) \/ Publish(s))
    <3>1. latest'[t] = "running" /\ pc[t] \in {"setup", "live"} /\ pc'[t] = "live"
      BY <2>4 DEF CaptureStarted, Publish, TypeOK
    <3>2. \A m \in Message : InFlight(t, m) => Before(m, "running")
      BY <3>1 DEF StageInv, Sayable, Before
    <3>3. Said(t, pc'[t], "running") /\ Sayable(pc[t]) \subseteq Sayable(pc'[t])
      BY <3>1 DEF Said, Sayable, Ended
    <3> QED BY <1>m, <1>r, <2>1, <3>1, <3>2, <3>3
  <2>5. CASE t = s /\ Finish(s)
    <3>1. /\ latest'[t] = Outcome(s) /\ pc[t] = "finish" /\ pc'[t] = "drain"
      BY <2>5 DEF Finish, TypeOK
    <3>2. Outcome(s) \in Terminal
      BY DEF Outcome, Terminal
    <3>3. \A m \in Message : InFlight(t, m) => Before(m, Outcome(s))
      BY <1>f, <1>m, <3>1, <3>2 DEF Before, Ended, Terminal
    <3>4. Said(t, pc'[t], Outcome(s)) /\ Sayable(pc[t]) \subseteq Sayable(pc'[t])
      BY <1>m, <3>1, <3>2 DEF Said, Sayable, Ended, Terminal, Outcome
    <3> QED BY <1>r, <2>1, <3>1, <3>2, <3>3, <3>4 DEF Message
  <2> QED BY <1>6, <2>2, <2>3, <2>4, <2>5
<1>7. ASSUME NEW s \in Sessions, LiveSeesEof(s)
      PROVE  /\ Ordered(pipe'[t], chan'[t], latest'[t])
             /\ \A m \in Message : InFlight(t, m)' => InFlight(t, m) \/ Said(t, pc'[t], m)
             /\ Sayable(pc[t]) \subseteq Sayable(pc'[t])
  <2>1. CASE t # s
    BY <1>7, <1>k, <2>1 DEF LiveSeesEof, TypeOK
  <2>2. CASE t = s
    <3> DEFINE k == "stopping"
    <3>1. /\ pipe'[t] = pipe[t] /\ chan'[t] = Queued(chan[t], k) /\ latest'[t] = Nothing
          /\ pc[t] = "live" /\ pc'[t] = "unwind" /\ k \in Message
      BY <1>7, <1>m, <2>2 DEF LiveSeesEof, TypeOK
    <3>2. \A m \in Message : InFlight(t, m) => Before(m, k)
      BY <3>1 DEF StageInv, Sayable, Before
    <3>3. /\ Ordered(pipe[t], chan[t], k)
          /\ \A m \in Message : Holds(pipe[t], chan[t], k, m) => m = k \/ InFlight(t, m)
      BY <1>o, <1>t, <3>1, <3>2, RecordOrdered DEF InFlight
    <3>4. /\ Ordered(pipe'[t], chan'[t], latest'[t])
          /\ \A m \in Message : InFlight(t, m)' => m = k \/ InFlight(t, m)
      BY <1>t, <3>1, <3>3, QueueOrdered DEF InFlight
    <3>5. Said(t, pc'[t], k) /\ Sayable(pc[t]) \subseteq Sayable(pc'[t])
      BY <1>m, <3>1 DEF Said, Sayable, Ended
    <3> QED BY <3>4, <3>5
  <2> QED BY <2>1, <2>2
<1>8. ASSUME NEW s \in Sessions, LivePoll(s) \/ DrainPoll(s) \/ DrainFlush(s)
      PROVE  /\ Ordered(pipe'[t], chan'[t], latest'[t])
             /\ \A m \in Message : InFlight(t, m)' => InFlight(t, m) \/ Said(t, pc'[t], m)
             /\ Sayable(pc[t]) \subseteq Sayable(pc'[t])
  <2>1. Sayable(pc[t]) \subseteq Sayable(pc'[t])
    BY <1>8, <1>m DEF LivePoll, DrainPoll, DrainFlush, TypeOK, Sayable
  <2>2. CASE t # s
    <3>1. latest'[t] = latest[t] /\ pipe'[t] = pipe[t] /\ chan'[t] = chan[t]
      BY <1>8, <2>2 DEF LivePoll, DrainPoll, DrainFlush, Flush, TypeOK
    <3> QED BY <1>k, <2>1, <3>1
  <2>3. CASE t = s /\ DrainFlush(s)
    <3>1. latest'[t] = latest[t] /\ Flush(t, chan[t])
      BY <2>3 DEF DrainFlush
    <3> QED BY <1>o, <1>t, <2>1, <3>1, FlushOrdered DEF InFlight
  <2>4. CASE t = s /\ (LivePoll(s) \/ DrainPoll(s))
    <3>1. latest'[t] = Nothing /\ Flush(t, Polled(t))
      BY <2>4 DEF LivePoll, DrainPoll, TypeOK
    <3>2. /\ Ordered(pipe[t], Polled(t), Nothing) /\ Polled(t) \in Chan
          /\ \A m \in Message : Holds(pipe[t], Polled(t), Nothing, m) => InFlight(t, m)
      BY <1>o, PolledOrdered, PolledType
    <3>3. /\ Ordered(pipe'[t], chan'[t], Nothing)
          /\ \A m \in Message :
               Holds(pipe'[t], chan'[t], Nothing, m) => Holds(pipe[t], Polled(t), Nothing, m)
      BY <1>m, <3>1, <3>2, FlushOrdered
    <3> QED BY <2>1, <3>1, <3>2, <3>3 DEF InFlight
  <2> QED BY <1>8, <2>2, <2>3, <2>4
<1>9. ASSUME NEW s \in Sessions, DrainEnds(s) \/ Exit(s) \/ InterruptKills(s) \/ Dies(s)
      PROVE  /\ Ordered(pipe'[t], chan'[t], latest'[t])
             /\ \A m \in Message : InFlight(t, m)' => InFlight(t, m) \/ Said(t, pc'[t], m)
             /\ Sayable(pc[t]) \subseteq Sayable(pc'[t])
  <2>1. CASE t # s
    BY <1>9, <1>k, <2>1 DEF DrainEnds, Exit, InterruptKills, Dies, Vanish, TypeOK
  <2>2. CASE t = s
    <3>1. /\ pipe'[t] \in {pipe[t], Append(pipe[t], Junk)} /\ chan'[t] = EmptyChan
          /\ latest'[t] = Nothing /\ pc'[t] \in {"closing", "exited"}
      BY <1>9, <2>2 DEF DrainEnds, Exit, InterruptKills, Dies, Vanish, CutShort, TypeOK
    <3>2. Sayable(pc'[t]) = Message
      BY <3>1 DEF Sayable
    <3> QED BY <1>c, <1>s, <1>t, <3>1, <3>2
  <2> QED BY <2>1, <2>2
<1>10. ASSUME NEW s \in Sessions, InterruptInFlush(s)
       PROVE  /\ Ordered(pipe'[t], chan'[t], latest'[t])
              /\ \A m \in Message : InFlight(t, m)' => InFlight(t, m) \/ Said(t, pc'[t], m)
              /\ Sayable(pc[t]) \subseteq Sayable(pc'[t])
  <2>1. CASE t # s
    BY <1>10, <1>k, <2>1 DEF InterruptInFlush, Unwinding, TypeOK
  <2>2. CASE t = s
    <3> DEFINE c == Polled(t)
    <3>1. /\ Ordered(pipe[t], c, Nothing) /\ c \in Chan
          /\ \A m \in Message : Holds(pipe[t], c, Nothing, m) => InFlight(t, m)
      BY <1>o, PolledOrdered, PolledType
    <3>2. /\ latest'[t] = Nothing /\ pc[t] = "live" /\ pc'[t] = "unwind" /\ Writing(c)
          /\ pipe'[t] \in {pipe[t], Append(pipe[t], Frame(c))}
          /\ \E torn \in BOOLEAN : chan'[t] = [c EXCEPT !.torn = torn]
      <4>1. pc[t] = "live" /\ InterruptTo(pc[t], end[t]).pc = "unwind" /\ Writing(c)
        BY <1>10, <2>2 DEF InterruptInFlush, InterruptTo
      <4>2. /\ \/ pipe' = pipe
               \/ pipe' = [pipe EXCEPT ![t] = Append(pipe[t], Frame(c))]
            /\ \/ chan' = [chan EXCEPT ![t] = [c EXCEPT !.torn = TRUE]]
               \/ chan' = [chan EXCEPT ![t] = [c EXCEPT !.torn = c.torn \/ c.part]]
            /\ latest' = [latest EXCEPT ![t] = Nothing]
            /\ pc' = [pc EXCEPT ![t] = InterruptTo(pc[t], end[t]).pc]
        BY <1>10, <2>2 DEF InterruptInFlush, Unwinding
      <4>3. TRUE \in BOOLEAN /\ (c.torn \/ c.part) \in BOOLEAN
        OBVIOUS
      <4> HIDE DEF c
      <4> QED BY <4>1, <4>2, <4>3 DEF TypeOK
    <3>3. /\ chan'[t].out = c.out /\ chan'[t].nxt = c.nxt /\ chan'[t].part = c.part
          /\ chan'[t] \in Chan
      <4> HIDE DEF c
      <4> QED BY <3>1, <3>2 DEF Chan
    <3>4. Before(c.out, c.out) /\ Before(Junk, c.out)
      <4>1. c.out \in Message => c.out \in {"starting", "running"}
        BY <3>1, <3>2 DEF StageInv, Sayable, Holds, InChan
      <4> QED BY <3>1, <3>2, <4>1 DEF Before, Blank, Chan, Writing
    <3>5. /\ Ordered(pipe'[t], chan'[t], Nothing)
          /\ \A m \in Message :
               Holds(pipe'[t], chan'[t], Nothing, m) => Holds(pipe[t], c, Nothing, m)
      <4> HIDE DEF c
      <4>1. CASE pipe'[t] = pipe[t]
        BY <3>1, <3>3, <4>1 DEF Ordered, Holds, InChan
      <4>2. CASE pipe'[t] = Append(pipe[t], Frame(c))
        <5> DEFINE d == chan'[t]
                   q == pipe[t]
        <5>1. /\ q \in Frames /\ Ordered(q, c, Nothing) /\ d \in Chan /\ c \in Chan
              /\ d.out = c.out /\ d.nxt = c.nxt /\ d.part = c.part
          BY <1>t, <3>1, <3>3
        <5> HIDE DEF d, q
        <5>2. /\ Ordered(Append(q, Frame(c)), d, Nothing)
              /\ \A m \in Message :
                   Holds(Append(q, Frame(c)), d, Nothing, m) => Holds(q, c, Nothing, m)
          BY <3>2, <3>4, <5>1, ResentOrdered
        <5> QED BY <4>2, <5>2 DEF d, q
      <4> QED BY <3>2, <4>1, <4>2
    <3>6. Sayable(pc[t]) \subseteq Sayable(pc'[t])
      BY <1>m, <3>2 DEF Sayable
    <3> QED BY <3>1, <3>2, <3>5, <3>6 DEF InFlight
  <2> QED BY <2>1, <2>2
<1> QED BY <1>1, <1>2, <1>3, <1>4, <1>5, <1>6, <1>7, <1>8, <1>9, <1>10
    DEF Next, BrokerNext, OwnerNext, OwnerProgress, vars, owner, Reply, Shutdown,
        ShutdownDone, BrokerStart, Stop

\* OrderInv and StageInv are kept.
LEMMA OrderStep ==
  TypeOK /\ OrderInv /\ StageInv /\ FinalInv /\ [Next]_vars => OrderInv' /\ StageInv'
<1> SUFFICES ASSUME TypeOK, OrderInv, StageInv, FinalInv, [Next]_vars
             PROVE  OrderInv' /\ StageInv'
  OBVIOUS
<1>1. OrderInv'
  BY OwnerStep DEF OrderInv
<1>2. ASSUME NEW t \in Sessions, NEW m \in Message, InFlight(t, m)'
      PROVE  m \in Sayable(pc[t])'
  BY <1>2, OwnerStep DEF StageInv, Said
<1> QED BY <1>1, <1>2 DEF StageInv

\* What the broker's new phase allows of what is left, when it reads.
LEMMA DeliveredStep ==
  ASSUME TypeOK, ChildInv, OrderInv, StageInv, BrokerOrder, broker.proc # NoSession,
         NEW n \in 0..Len(pipe[broker.proc])
  PROVE  LET p == broker.proc
             r == SubSeq(pipe[p], n + 1, Len(pipe[p]))
             k == Delivered(p, n)
         IN /\ k \in Message
            /\ k # broker.phase =>
                 broker.phase \in Active /\ Lifecycle!Rank(k) > Lifecycle!Rank(broker.phase)
            /\ k = "running" => /\ pc[p] # "boot"
                                /\ ~Holds(r, chan[p], latest[p], "starting")
            /\ k \in Terminal => \A m \in Message : ~Holds(r, chan[p], latest[p], m)
<1> DEFINE p == broker.proc
           r == SubSeq(pipe[p], n + 1, Len(pipe[p]))
           k == Delivered(p, n)
<1> SUFFICES /\ k \in Message
             /\ k # broker.phase =>
                  broker.phase \in Active /\ Lifecycle!Rank(k) > Lifecycle!Rank(broker.phase)
             /\ k = "running" => /\ pc[p] # "boot"
                                 /\ ~Holds(r, chan[p], latest[p], "starting")
             /\ k \in Terminal => \A m \in Message : ~Holds(r, chan[p], latest[p], m)
  OBVIOUS
<1>0. /\ p \in Sessions /\ pipe[p] \in Frames /\ chan[p] \in Chan /\ latest[p] \in Slot
      /\ Ordered(pipe[p], chan[p], latest[p])
  BY DEF TypeOK, Broker, Frames, Slot, OrderInv
<1>m. /\ Message = {"starting", "running", "stopping", "stopped", "failed"}
      /\ Active = {"starting", "running", "stopping"} /\ Terminal = {"stopped", "failed"}
      /\ broker.phase \in Message
  BY SessionAssumption DEF Message, Active, Terminal, ChildInv, TypeOK, Broker, Phase
<1>1. /\ \A m \in Message : Holds(r, chan[p], latest[p], m) => InFlight(p, m)
      /\ n > 0 => \A m \in Message : Holds(r, chan[p], latest[p], m) => Before(pipe[p][n], m)
  BY <1>0, ReadOrdered DEF InFlight
<1> HIDE DEF r
<1>2. CASE k = broker.phase
  <2> HIDE DEF k
  <2> QED BY <1>1, <1>2, <1>m DEF BrokerOrder
<1>3. CASE k # broker.phase
  <2>1. /\ n \in 1..Len(pipe[p]) /\ ~Undecodable(p, n)
        /\ k = Sticky(broker.phase, pipe[p][n])
    BY <1>0, <1>3 DEF Delivered, Frames
  <2> DEFINE x == pipe[p][n]
  <2>2. x \in Message
    BY <1>0, <2>1 DEF Undecodable, Frames
  <2>3. InFlight(p, x)
    BY <2>1 DEF InFlight, Holds, InPipe
  <2>4. k = x /\ ~(broker.phase = "stopping" /\ x \in Active)
    BY <1>3, <2>1 DEF Sticky
  <2>5. broker.phase \in Active /\ (broker.phase = "running" => x # "starting")
    BY <1>m, <2>2, <2>3 DEF BrokerOrder
  <2>6. Lifecycle!Rank(k) > Lifecycle!Rank(broker.phase)
    BY <1>3, <1>m, <2>2, <2>4, <2>5 DEF Lifecycle!Rank, Lifecycle!Terminal
  <2>7. \A m \in Message : Holds(r, chan[p], latest[p], m) => Before(x, m)
    BY <1>1, <2>1
  <2>8. k = "running" => pc[p] # "boot" /\ ~Holds(r, chan[p], latest[p], "starting")
    BY <1>0, <1>m, <2>3, <2>4, <2>7 DEF Before, Blank, Nothing, Junk, StageInv, Sayable
  <2>9. k \in Terminal => \A m \in Message : ~Holds(r, chan[p], latest[p], m)
    BY <1>m, <2>4, <2>7 DEF Before, Blank, Nothing, Junk
  <2> HIDE DEF k
  <2> QED BY <2>2, <2>4, <2>5, <2>6, <2>8, <2>9
<1> QED BY <1>2, <1>3

\* Every step keeps what is to come in step with what has been published.
LEMMA BrokerOrderStep ==
  TypeOK /\ IInv /\ OrderInv /\ StageInv /\ BrokerOrder /\ [Next]_vars => BrokerOrder'
<1> SUFFICES ASSUME TypeOK, IInv, OrderInv, StageInv, BrokerOrder, [Next]_vars,
                    broker'.proc # NoSession
             PROVE  /\ broker'.phase = "running" =>
                         pc'[broker'.proc] # "boot" /\ ~InFlight(broker.proc, "starting")'
                    /\ broker'.phase \in Terminal =>
                         \A m \in Message : ~InFlight(broker.proc, m)'
  BY DEF BrokerOrder
<1>i. ChildInv /\ FinalInv /\ BrokerFinal
  BY DEF IInv
<1>m. {"starting", "running", "stopping"} \cap Terminal = {} /\ "starting" \in Message
  BY DEF Terminal, Message, Active
<1>k. ASSUME broker'.proc = broker.proc, broker'.phase = broker.phase,
             UNCHANGED <<pc, latest, chan, pipe>>
      PROVE  /\ broker'.phase = "running" =>
                  pc'[broker'.proc] # "boot" /\ ~InFlight(broker.proc, "starting")'
             /\ broker'.phase \in Terminal => \A m \in Message : ~InFlight(broker.proc, m)'
  BY <1>k DEF BrokerOrder, InFlight
<1>1. CASE UNCHANGED vars
  BY <1>1, <1>k DEF vars
<1>2. CASE PollOwner
  <2>1. broker.proc # NoSession
    BY <1>2 DEF PollOwner, TypeOK, Broker
  <2> DEFINE p == broker.proc
  <2>2. UNCHANGED <<pc, latest, chan>>
    BY <1>2 DEF PollOwner, owner
  <2>3. PICK n \in 0..Len(pipe[p]) :
          /\ pipe' = [pipe EXCEPT ![p] = SubSeq(pipe[p], n + 1, Len(pipe[p]))]
          /\ \/ broker'.phase = Delivered(p, n) /\ broker'.proc \in {p, NoSession}
             \/ /\ broker'.phase = "failed" /\ Delivered(p, n) \in Active
                /\ broker'.proc = NoSession
    BY <1>2, <2>1, PollReadStep
  <2>4. /\ broker'.phase = Delivered(p, n) /\ broker'.proc = p /\ p \in Sessions
        /\ pipe'[p] = SubSeq(pipe[p], n + 1, Len(pipe[p]))
    BY <2>1, <2>3 DEF TypeOK, Broker
  <2> QED BY <1>i, <2>1, <2>2, <2>4, DeliveredStep DEF InFlight
<1>3. CASE Reply
  <2>1. broker'.proc = broker.proc /\ broker'.phase = broker.phase
    BY <1>3 DEF Reply, TypeOK, Broker
  <2> QED BY <1>3, <1>k, <2>1 DEF Reply, owner
<1>4. CASE Shutdown
  <2>1. CASE broker.proc = NoSession
    BY <1>4, <2>1 DEF Shutdown, Gone, FreshBroker
  <2>2. CASE broker.proc # NoSession
    <3>1. /\ broker'.proc = broker.proc
          /\ broker'.phase = "stopping" \/ broker'.phase = broker.phase
      BY <1>4, <2>2 DEF Shutdown, TypeOK, Broker
    <3>2. UNCHANGED <<pc, latest, chan, pipe>>
      BY <1>4 DEF Shutdown, owner
    <3> QED BY <1>k, <1>m, <3>1, <3>2
  <2> QED BY <2>1, <2>2
<1>5. CASE ShutdownDone \/ ShutdownKills \/ BrokerCrash \/ BrokerStart
  BY <1>5 DEF ShutdownDone, ShutdownKills, BrokerCrash, BrokerStart, Gone, FreshBroker
<1>6. ASSUME NEW s \in Sessions, Start(s) \/ StartFails(s) \/ Stop(s)
      PROVE  broker'.phase \in {"starting", "stopping"}
  BY <1>6 DEF Start, StartFails, Stop, Idle, TypeOK, Broker
<1>7. ASSUME NEW s \in Sessions, OwnerNext(s)
      PROVE  /\ broker'.phase = "running" =>
                  pc'[broker'.proc] # "boot" /\ ~InFlight(broker.proc, "starting")'
             /\ broker'.phase \in Terminal => \A m \in Message : ~InFlight(broker.proc, m)'
  <2> DEFINE p == broker.proc
  <2>1. broker' = broker
    BY <1>7
    DEF OwnerNext, OwnerProgress, Boot, Acquire, StartupFails, SetupFails, CaptureStarted,
        LiveSeesEof, Unwind, Restore, Finish, DrainPoll, DrainFlush, DrainEnds, Exit,
        Publish, LivePoll, SourceEnds, InterruptKills, Interrupt, InterruptInFlush, Dies
  <2>2. p \in Sessions /\ p = broker.sid
    BY <1>i, <2>1 DEF TypeOK, Broker, ChildInv
  <2>3. pc[p] # "boot" => pc'[p] # "boot"
    BY <1>7, <2>2
    DEF OwnerNext, OwnerProgress, Boot, Acquire, StartupFails, SetupFails, CaptureStarted,
        LiveSeesEof, Unwind, Restore, Finish, DrainPoll, DrainFlush, DrainEnds, Exit,
        Publish, LivePoll, SourceEnds, InterruptKills, Interrupt, InterruptInFlush, Dies,
        Unwinding, InterruptTo, Vanish, Goto, TypeOK
  <2>4. \A m \in Message : InFlight(p, m)' => InFlight(p, m) \/ Said(p, pc'[p], m)
    <3>1. ASSUME NEW t \in Sessions, t = p, NEW m \in Message, InFlight(t, m)'
          PROVE  InFlight(t, m) \/ Said(t, pc'[t], m)
      BY <1>i, <3>1, OwnerStep
    <3> QED BY <2>1, <2>2, <3>1 DEF InFlight
  <2>5. broker.phase \in Terminal => pc[p] \in Ended
    BY <1>i, <2>2 DEF BrokerFinal, Final
  <2> QED BY <1>m, <2>1, <2>3, <2>4, <2>5 DEF BrokerOrder, Said
<1> QED BY <1>1, <1>2, <1>3, <1>4, <1>5, <1>6, <1>7, <1>m DEF Next, BrokerNext

-----------------------------------------------------------------------------
(* The refinement.                                                         *)

OrderedInv == OrderInv /\ StageInv /\ BrokerOrder

\* Nothing has been said before the first session.
LEMMA InitOrdered == Init => OrderedInv
BY DEF Init, OrderedInv, OrderInv, StageInv, BrokerOrder, FreshBroker, EmptyChan, Ordered,
       InFlight, Holds, InChan, InPipe, Before, Blank, Message, Active, Terminal, Nothing

\* The publications stay in order throughout.
LEMMA AlwaysOrdered == Spec => []OrderedInv
<1>1. TypeOK /\ IInv /\ OrderedInv /\ [Next]_vars => OrderedInv'
  BY OrderStep, BrokerOrderStep DEF OrderedInv, IInv
<1> QED BY <1>1, InitOrdered, TypeCorrect, Inductive, PTL DEF Spec

\* The first state of the broker is the first state of the lifecycle.
LEMMA LifecycleInitial == Init => Lifecycle!LifecycleInit
BY DEF Init, FreshBroker, Lifecycle!LifecycleInit

\* Every step of the broker or of an owner is a step of the lifecycle, or
\* leaves it alone.
LEMMA LifecycleStep ==
  TypeOK /\ IInv /\ OrderedInv /\ [Next]_vars
    => [Lifecycle!LifecycleNext]_(Lifecycle!lifecycle)
<1> SUFFICES ASSUME TypeOK, IInv, OrderedInv, [Next]_vars
             PROVE  Lifecycle!LifecycleNext \/ UNCHANGED Lifecycle!lifecycle
  OBVIOUS
<1> DEFINE Issued == {s \in Sessions : pc[s] # "unused"}
<1>i. ChildInv /\ OrderInv /\ StageInv /\ BrokerOrder
  BY DEF IInv, OrderedInv
<1>d. /\ Lifecycle!Active = Active /\ Lifecycle!Terminal = Terminal
      /\ Lifecycle!Quiet = {"idle", "stopped", "failed"}
      /\ Active = {"starting", "running", "stopping"} /\ Terminal = {"stopped", "failed"}
      /\ Message = Active \cup Terminal
      /\ broker.phase \in Message \cup {"idle"}
  BY DEF Lifecycle!Active, Lifecycle!Terminal, Lifecycle!Quiet, Active, Terminal, Message,
         TypeOK, Broker, Phase
<1>k. ASSUME broker'.sid = broker.sid, broker'.phase = broker.phase, Issued' = Issued
      PROVE  UNCHANGED Lifecycle!lifecycle
  BY <1>k DEF Lifecycle!lifecycle
<1>a. ASSUME broker.sid # NoSession, broker.phase \in Active,
             broker'.phase \in Message, broker'.sid = broker.sid, Issued' = Issued,
             Lifecycle!Rank(broker'.phase) > Lifecycle!Rank(broker.phase)
      PROVE  Lifecycle!LifecycleNext
  BY <1>a, <1>d DEF Lifecycle!LifecycleNext, Lifecycle!Advance
<1>f. ASSUME broker'.sid = NoSession, broker'.phase = "idle", Issued' = Issued
      PROVE  Lifecycle!LifecycleNext
  BY <1>f DEF Lifecycle!LifecycleNext, Lifecycle!Forget
<1>g. /\ Gone.sid = NoSession /\ Gone.phase = "idle"
      /\ FreshBroker.sid = NoSession /\ FreshBroker.phase = "idle"
  BY DEF Gone, FreshBroker
<1>c. broker.proc # NoSession => broker.sid = broker.proc /\ broker.proc \in Sessions
  BY <1>i DEF ChildInv, TypeOK, Broker
<1>1. CASE UNCHANGED vars
  BY <1>1, <1>k DEF vars
<1>2. CASE PollOwner
  <2>1. UNCHANGED pc
    BY <1>2 DEF PollOwner, owner
  <2>2. CASE broker.proc = NoSession
    <3>1. broker'.sid = broker.sid /\ broker'.phase = broker.phase
      BY <1>2, <2>2 DEF PollOwner, TypeOK, Broker
    <3> QED BY <1>k, <2>1, <3>1
  <2>3. CASE broker.proc # NoSession
    <3> DEFINE p == broker.proc
    <3>1. PICK n \in 0..Len(pipe[p]) :
            /\ \/ broker'.phase = Delivered(p, n)
               \/ broker'.phase = "failed" /\ Delivered(p, n) \in Active
            /\ broker'.sid = broker.sid
      BY <1>2, <2>3, PollReadStep
    <3> DEFINE k == Delivered(p, n)
    <3>2. /\ k \in Message
          /\ k # broker.phase =>
               broker.phase \in Active /\ Lifecycle!Rank(k) > Lifecycle!Rank(broker.phase)
      BY <1>i, <2>3, DeliveredStep
    <3> HIDE DEF k
    <3>3. CASE broker'.phase = k
      BY <1>a, <1>c, <1>k, <2>1, <2>3, <3>1, <3>2, <3>3, SessionAssumption
    <3>4. CASE broker'.phase = "failed" /\ k \in Active
      <4>1. broker.phase \in Active
        BY <3>2, <3>4
      <4>2. Lifecycle!Rank("failed") > Lifecycle!Rank(broker.phase)
        BY <1>d, <4>1 DEF Lifecycle!Rank
      <4> QED BY <1>a, <1>c, <1>d, <2>1, <2>3, <3>1, <3>4, <4>1, <4>2, SessionAssumption
    <3> QED BY <3>1, <3>3, <3>4 DEF k
  <2> QED BY <2>2, <2>3
<1>3. CASE Reply
  BY <1>3, <1>k DEF Reply, owner, TypeOK, Broker
<1>s. broker.phase \in Active /\ broker.phase # "stopping" =>
        Lifecycle!Rank("stopping") > Lifecycle!Rank(broker.phase)
  BY <1>d DEF Lifecycle!Rank
<1>4. CASE Shutdown
  <2>1. UNCHANGED pc
    BY <1>4 DEF Shutdown, owner
  <2>2. CASE broker.proc = NoSession
    BY <1>4, <1>f, <1>g, <2>1, <2>2 DEF Shutdown
  <2>3. CASE broker.proc # NoSession
    <3>1. /\ broker'.sid = broker.sid
          /\ broker'.phase = IF broker.phase \in Active THEN "stopping" ELSE broker.phase
      BY <1>4, <2>3 DEF Shutdown, TypeOK, Broker
    <3> QED BY <1>a, <1>c, <1>d, <1>k, <1>s, <2>1, <2>3, <3>1, SessionAssumption
  <2> QED BY <2>2, <2>3
<1>5. CASE ShutdownDone \/ BrokerCrash \/ BrokerStart
  BY <1>5, <1>f, <1>g DEF ShutdownDone, BrokerCrash, BrokerStart, owner
<1>6. CASE ShutdownKills
  <2>1. Issued' = Issued
    BY <1>6, <1>c, <1>i DEF ShutdownKills, Vanish, ChildInv, TypeOK
  <2> QED BY <1>6, <1>f, <1>g, <2>1 DEF ShutdownKills
<1>7. ASSUME NEW s \in Sessions, Start(s) \/ StartFails(s)
      PROVE  Lifecycle!LifecycleNext
  <2>1. /\ broker.phase \notin Active /\ pc[s] = "unused"
        /\ broker'.sid = s /\ broker'.phase \in {"starting", "failed"}
        /\ \E stage \in {"boot", "exited"} : pc' = [pc EXCEPT ![s] = stage]
    BY <1>7 DEF Start, StartFails, Idle, TypeOK, Broker
  <2>2. Issued' = Issued \cup {s} /\ s \notin Issued
    BY <2>1 DEF TypeOK
  <2>3. Lifecycle!Begin(s)
    BY <1>d, <2>1, <2>2 DEF Lifecycle!Begin
  <2> QED BY <2>3 DEF Lifecycle!LifecycleNext
<1>8. ASSUME NEW s \in Sessions, Stop(s)
      PROVE  Lifecycle!LifecycleNext
  <2>1. /\ broker'.sid = broker.sid /\ broker'.phase = "stopping" /\ UNCHANGED pc
        /\ broker.proc # NoSession /\ broker.phase \in Active /\ broker.phase # "stopping"
    BY <1>8 DEF Stop, StopAccepted, owner, TypeOK, Broker
  <2> QED BY <1>a, <1>c, <1>d, <1>s, <2>1, SessionAssumption
<1>9. ASSUME NEW s \in Sessions, OwnerNext(s)
      PROVE  UNCHANGED Lifecycle!lifecycle
  <2>1. broker' = broker /\ Issued' = Issued
    BY <1>9
    DEF OwnerNext, OwnerProgress, Boot, Acquire, StartupFails, SetupFails, CaptureStarted,
        LiveSeesEof, Unwind, Restore, Finish, DrainPoll, DrainFlush, DrainEnds, Exit,
        Publish, LivePoll, SourceEnds, InterruptKills, Interrupt, InterruptInFlush, Dies,
        Unwinding, InterruptTo, Vanish, Goto, TypeOK, Alive, Held
  <2> QED BY <1>k, <2>1
<1> QED BY <1>1, <1>2, <1>3, <1>4, <1>5, <1>6, <1>7, <1>8, <1>9 DEF Next, BrokerNext

\* What a client reads of the service is a session lifecycle: IDs are never
\* reused, a phase only moves forward, an accepted stop is not undone by a
\* publication that was already on its way, and a final phase is final.
THEOREM SessionsHaveLifecycles == Spec => RefinesLifecycle
BY LifecycleInitial, LifecycleStep, TypeCorrect, Inductive, AlwaysOrdered, PTL
DEF Spec, RefinesLifecycle, Lifecycle!LifecycleSpec
=============================================================================
