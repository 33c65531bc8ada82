---------------------------- MODULE RadioSession ----------------------------
(***************************************************************************)
(* Borrowing a Linux radio (radio_session.py): the session takes the phy   *)
(* lock, snapshots every interface of the radio, pauses the idle siblings  *)
(* and, on the way out, puts back what it changed.  Every step is an       *)
(* external command (ip, iw) that can fail without an effect, or time out  *)
(* after it had one, and an interface can be replaced by another adapter   *)
(* under the same name while the session runs.                             *)
(*                                                                         *)
(* The operators take no position in the program: LiveRun.tla says when    *)
(* run_live calls each of them.                                            *)
(***************************************************************************)
EXTENDS Naturals, Sequences, SequencesExt

CONSTANTS
  Inventory,   \* the interfaces of the radio, in the order iw lists them
  Selected,    \* the interface the run captures on
  Found,       \* the radios explored: a state for each interface
  MaxFaults    \* bound on what goes wrong around a run: commands that fail,
               \* processes that die, other tools that interfere

ASSUME RadioAssumption ==
  /\ Inventory \in Seq(STRING) /\ IsInjective(Inventory)
  /\ Selected \in Range(Inventory)
  /\ MaxFaults \in Nat

VARIABLES
  radio,      \* the interfaces as the kernel has them
  states,     \* self.states, the snapshot; << >> when there is none
  changed,    \* self.changed, the interfaces this session has touched
  locked,     \* self.lock_fd is held
  failed,     \* interfaces whose restoration reported an error
  refused,    \* restore raised before it touched anything
  busy,       \* another tool uses the radio
  faults      \* what has gone wrong so far

radioVars == <<radio, states, changed, locked, failed, refused, busy, faults>>

Interface == Range(Inventory)

\* What `iw dev X info` and `ip link show X` say of an interface.  An
\* interface that is down, or not a monitor, reports no channel.
InterfaceState ==
  {s \in [id : {0, 1}, mode : {"monitor", "managed"}, up : BOOLEAN,
          channel : {"none", "home", "capture"}] :
     s.channel # "none" => s.up /\ s.mode = "monitor"}

ASSUME FoundAssumption ==
  Found \subseteq [Interface -> {s \in InterfaceState : s.id = 0 /\ s.channel # "capture"}]

Down(s) == [s EXCEPT !.up = FALSE, !.channel = "none"]
Up(s)   == [s EXCEPT !.up = TRUE]
Typed(s, mode) == IF s.up THEN s ELSE [s EXCEPT !.mode = mode]
Tuned(s, channel) ==
  IF s.up /\ s.mode = "monitor" THEN [s EXCEPT !.channel = channel] ELSE s

\* What one ip or iw command leaves of interface state s.
Applied(s, command) ==
  CASE command = "down" -> Down(s)
    [] command = "up" -> Up(s)
    [] command \in {"monitor", "managed"} -> Typed(s, command)
    [] OTHER -> Tuned(s, command)

\* What a list of commands run in order can leave, and whether all of them
\* succeeded: before the first command, and after one more.  The first failure
\* ends the list, and a command that fails may still have had its effect.
Untouched(s) == {[state |-> s, ok |-> TRUE]}

After(outcomes, command) ==
  {o \in outcomes : ~o.ok} \cup
  UNION {{[state |-> Applied(o.state, command), ok |-> TRUE],
          [state |-> Applied(o.state, command), ok |-> FALSE],
          [state |-> o.state, ok |-> FALSE]} : o \in {done \in outcomes : done.ok}}

-----------------------------------------------------------------------------
Fault == faults < MaxFaults /\ faults' = faults + 1

RadioInit ==
  /\ radio \in Found
  /\ states = << >> /\ changed = << >> /\ locked = FALSE
  /\ failed = {} /\ refused = FALSE /\ busy = FALSE /\ faults = 0

\* check_idle, given that `capturing` processes hold packet sockets on the radio.
Idle(capturing) == ~busy /\ ~capturing

\* __enter__: the lock, the inventory and the first check_idle.
Enter ==
  /\ Idle(FALSE)
  /\ states' = radio /\ locked' = TRUE
  /\ UNCHANGED <<radio, changed, failed, refused, busy, faults>>

\* The interfaces prepare still has to pause: siblings that were up.
ToPause == {i \in Interface : i # Selected /\ states[i].up /\ i \notin Range(changed)}

\* The first of them that iw lists.
IsNextToPause(i) ==
  \E k \in DOMAIN Inventory :
    Inventory[k] = i /\ i \in ToPause /\ \A l \in 1 .. k - 1 : Inventory[l] \notin ToPause

\* prepare, before its first mutation: idle, and nothing moved since __enter__.
Prepared(capturing) == Idle(capturing) /\ radio = states

\* prepare's loop: remember the interface, then take it down.  The command can
\* raise, or be interrupted, with or without having run.
Pause(ok) ==
  \E i \in Interface :
    /\ IsNextToPause(i)
    /\ \E effect \in {radio[i], Down(radio[i])} :
         (ok => effect = Down(radio[i])) /\ radio' = [radio EXCEPT ![i] = effect]
    /\ changed' = Append(changed, i)
    /\ UNCHANGED <<states, locked, failed, refused, busy>>

\* prepare's last line: the selected interface is about to be reconfigured.
Select ==
  /\ ToPause = {} /\ Selected \notin Range(changed)
  /\ changed' = Append(changed, Selected)
  /\ UNCHANGED <<radio, states, locked, failed, refused, busy, faults>>

\* Commands on the selected interface, which end one of these ways.
Configure(outcomes, ok) ==
  /\ \E o \in outcomes : o.ok = ok /\ radio' = [radio EXCEPT ![Selected] = o.state]
  /\ UNCHANGED <<states, changed, locked, failed, refused, busy>>

\* The commands of one restoration, before its `finally`.
RestoreCommands(now, then) ==
  LET typed == IF now.mode = then.mode THEN Untouched(now)
               ELSE After(After(Untouched(now), "down"), then.mode)
  IN IF then.mode = "monitor" /\ then.channel # "none"
       THEN After(After(typed, "up"), then.channel) ELSE typed

\* A slip: the interface is left up for its retune.
LastCommandUp(then) == "up"

LastCommand(then) == IF then.up THEN "up" ELSE "down"

\* The `finally` runs whatever happened before it, and can fail as well.
Restorations(now, then) ==
  UNION {{[state |-> last.state, ok |-> first.ok /\ last.ok] :
            last \in After(Untouched(first.state), LastCommand(then))} :
         first \in RestoreCommands(now, then)}

\* The identity a snapshot must still have: phy, wdev, ifindex and address.
SameInterface(i) == radio[i].id = states[i].id

\* A slip: the first failure ends the loop.
RestoreOneThenStop(i, ok) ==
  /\ \E o \in Restorations(radio[i], states[i]) :
       /\ o.ok = ok
       /\ radio' = IF SameInterface(i) THEN [radio EXCEPT ![i] = o.state] ELSE radio
       /\ failed' = IF ok /\ SameInterface(i) THEN failed ELSE failed \cup {i}
       /\ changed' = IF ok /\ SameInterface(i) THEN Front(changed) ELSE << >>
  /\ UNCHANGED <<states, locked, refused, busy>>

\* One iteration of restore's loop over reversed(self.changed); `ok` says that
\* no command of it failed.  A replaced interface is not touched.
RestoreOne(i, ok) ==
  /\ IF SameInterface(i)
       THEN \/ \E o \in Restorations(radio[i], states[i]) :
                 /\ o.ok = ok
                 /\ radio' = [radio EXCEPT ![i] = o.state]
                 /\ failed' = IF ok THEN failed ELSE failed \cup {i}
            \/ ~ok /\ UNCHANGED radio /\ failed' = failed \cup {i}  \* snapshot failed
       ELSE ok /\ UNCHANGED radio /\ failed' = failed \cup {i}
  /\ changed' = Front(changed)
  /\ UNCHANGED <<states, locked, refused, busy>>

\* restore raises at once: another owner is active.
Refuse ==
  /\ refused' = TRUE
  /\ UNCHANGED <<radio, states, changed, locked, failed, busy, faults>>

Release ==
  /\ locked' = FALSE
  /\ UNCHANGED <<radio, states, changed, failed, refused, busy, faults>>

\* external: the adapter is unplugged and another one takes the name.
Replace(i) ==
  /\ Fault /\ radio[i].id = 0
  /\ radio' = [radio EXCEPT ![i] = [id |-> 1, mode |-> "managed", up |-> FALSE,
                                    channel |-> "none"]]
  /\ UNCHANGED <<states, changed, locked, failed, refused, busy>>

\* external: another tool takes the radio.
Occupy ==
  /\ Fault /\ ~busy /\ busy' = TRUE
  /\ UNCHANGED <<radio, states, changed, locked, failed, refused>>

\* The interface is as the session found it.  A monitor whose channel iw did
\* not report has none to return to.
AsFound(i) ==
  /\ radio[i].mode = states[i].mode /\ radio[i].up = states[i].up
  /\ states[i].channel # "none" => radio[i].channel = states[i].channel
=============================================================================
