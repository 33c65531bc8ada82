-------------------------------- MODULE Fpms --------------------------------
(***************************************************************************)
(* The FPMS adapter's app (channel_utilization.py, ChannelUtilizationApp): *)
(* it runs a display child, or a logging-only one, installs the page's     *)
(* exit handler and reports a child that dies.  The threads that take part *)
(* share g_vars and take no lock on it: FPMS's main loop, which runs the   *)
(* page's action again at every refresh; its button monitor, which runs    *)
(* the same action, and leaves the page; and a display thread per child.   *)
(*                                                                         *)
(* Each actor has a list of steps to take.  A step reads or changes        *)
(* g_vars, the session or its child once; a call that only takes time is   *)
(* none, as others may always act between two steps.                       *)
(***************************************************************************)
EXTENDS Naturals, Sequences

CONSTANTS
  Modes,        \* configured_runtime_mode: subset of {"managed", "standalone"}
  MaxSessions,  \* bound on the display children started
  MaxEvents,    \* bound on the children started and the buttons pressed together
  FullDisk      \* bound on the sessions that find the disk full

ASSUME FpmsAssumption ==
  Modes \subseteq {"managed", "standalone"} /\ MaxSessions \in Nat /\ MaxEvents \in Nat

Main == 0                   \* FPMS's main loop; as a session, none
Session == 1..MaxSessions   \* each is also its display thread
Buttons == MaxSessions + 1  \* the button monitor
Actor == 0..Buttons

VARIABLES
  mode,
  todo,           \* what each actor still does, first things first
  target,         \* the session an actor launches, reports or stops; 0 for none
  display,        \* g_vars["display_state"]: "menu" or "page"
  selected,       \* g_vars["option_selected"]: an action, "" for another entry
  registered,     \* g_vars["channel_utilization_session"]
  exit_handler,   \* whose stop() is g_vars["page_exit_handler"]
  recovering,     \* g_vars["channel_utilization_recovering"]
  launched,       \* number of display sessions so far
  child,          \* per session: "none", "run" or "dead"
  proxy,          \* the logging-only child: "none", "run" or "dead"
  stop_event,     \* per session
  reported,       \* per session: how often its exit was reported
  low_disk,       \* per session: low_disk_stopped
  presses

gVars == <<display, selected, registered, exit_handler, recovering>>
childVars == <<launched, child, proxy>>
sessionVars == <<stop_event, reported, low_disk>>
vars == <<mode, todo, target, gVars, childVars, sessionVars, presses>>

Init ==
  /\ mode \in Modes
  /\ todo = [a \in Actor |-> << >>] /\ target = [a \in Actor |-> 0]
  /\ display = "menu" /\ selected = ""
  /\ registered = 0 /\ exit_handler = 0 /\ recovering = FALSE
  /\ launched = 0 /\ child = [s \in Session |-> "none"] /\ proxy = "none"
  /\ stop_event = [s \in Session |-> FALSE] /\ reported = [s \in Session |-> 0]
  /\ low_disk = [s \in Session |-> FALSE] /\ presses = 0

Managed == mode = "managed"
Free(a) == todo[a] = << >>
At(a, step) == todo[a] # << >> /\ Head(todo[a]) = step
Will(a, steps) == todo' = [todo EXCEPT ![a] = steps]
Done(a) == Will(a, Tail(todo[a]))
Drops(a) == target' = [target EXCEPT ![a] = 0]

\* session.stop(); _return_to_menu and the patched menu_left; a whole report.
Stopping == <<"stop", "wait", "tell", "unregister">>
Leaving == <<"left", "redraw">>
Returning == <<"return", "left", "redraw">>
RecoveringUnfinished == <<"alert", "return", "left", "redraw">>
Recovering == <<"alert", "return", "left", "redraw", "recovered">>
Returns(a) == Will(a, IF Managed THEN Returning ELSE << >>)

\* What an entry of the menu runs, and how it goes about it.
Actions == IF Managed THEN {"launch", "resume", "log_only", "stop_log", "control"}
                      ELSE {"launch", "log_only", "stop_log"}
Steps(action) ==
  CASE action \in {"launch", "resume"} -> <<"check", "find", action, "proxy", "attach">>
    [] action = "log_only"             -> <<"log_only", "find_log", "start_log">>
    [] OTHER                           -> <<action>>

-----------------------------------------------------------------------------
(* FPMS: the main loop and the buttons.                                    *)

\* The main loop naps while a button is served (sig_fired).
Turn ==
  /\ Free(Main) /\ Free(Buttons) /\ Will(Main, <<"dispatch">>)
  /\ UNCHANGED <<mode, target, gVars, childVars, sessionVars, presses>>

\* ... then runs the page's action; the menu's poll is FpmsMenu's.
Dispatch ==
  /\ At(Main, "dispatch")
  /\ Will(Main, IF display = "page" /\ selected # "" THEN Steps(selected) ELSE << >>)
  /\ UNCHANGED <<mode, target, gVars, childVars, sessionVars, presses>>

\* Center, on an entry of the menu the user has moved to, or on a page.
Center ==
  /\ Free(Buttons) /\ presses + launched < MaxEvents /\ presses' = presses + 1
  /\ selected' \in IF display = "menu" THEN Actions ELSE {selected} \ {""}
  /\ display' = "page" /\ Will(Buttons, Steps(selected'))
  /\ UNCHANGED <<mode, target, registered, exit_handler, recovering, childVars, sessionVars>>

Left ==
  /\ Free(Buttons) /\ presses + launched < MaxEvents /\ presses' = presses + 1
  /\ Will(Buttons, Leaving)
  /\ UNCHANGED <<mode, target, gVars, childVars, sessionVars>>

-----------------------------------------------------------------------------
(* report_exit and stop, by any actor.                                     *)

\* Under frame_lock: the first to come reports, unless the session is stopped.
ReportExit(a) ==
  LET s == target[a] IN
  /\ At(a, "report")
  /\ IF reported[s] > 0 \/ stop_event[s]
       THEN Will(a, << >>) /\ Drops(a) /\ UNCHANGED <<reported, recovering>>
       ELSE /\ Will(a, Stopping \o Recovering) /\ UNCHANGED target
            /\ reported' = [reported EXCEPT ![s] = @ + 1] /\ recovering' = TRUE
  /\ UNCHANGED <<mode, display, selected, registered, exit_handler, childVars, stop_event,
                 low_disk, presses>>

StopSession(a) ==
  /\ At(a, "stop") /\ Done(a) /\ stop_event' = [stop_event EXCEPT ![target[a]] = TRUE]
  /\ UNCHANGED <<mode, target, gVars, childVars, reported, low_disk, presses>>

\* SIGINT and, after the timeouts, SIGTERM and SIGKILL, which no child outlives.
\* Joining the display thread, for up to 2 s, only takes time.
ChildStopped(a) ==
  /\ At(a, "wait") /\ Done(a)
  /\ child' = [child EXCEPT ![target[a]] = IF @ = "run" THEN "dead" ELSE @]
  /\ UNCHANGED <<mode, target, gVars, launched, proxy, sessionVars, presses>>

\* An overlay, which restores the page (show_status) or the menu (_display_status).
\* Only a standalone session that was logging says so when it stops.
Overlay(a) ==
  /\ \/ At(a, "tell") /\ display' \in IF Managed THEN {display} ELSE {display, "page"}
     \/ At(a, "notice") /\ display' = "page"
     \/ At(a, "alert") /\ display' = "menu"
  /\ Done(a)
  /\ UNCHANGED <<mode, target, selected, registered, exit_handler, recovering, childVars,
                 sessionVars, presses>>

\* Whichever session is registered by now, and its handlers.
Unregister(a) ==
  /\ At(a, "unregister") /\ Done(a) /\ Drops(a) /\ registered' = 0 /\ exit_handler' = 0
  /\ UNCHANGED <<mode, display, selected, recovering, childVars, sessionVars, presses>>

ReturnToMenu(a) ==
  /\ At(a, "return") /\ Done(a) /\ display' = "page"
  /\ UNCHANGED <<mode, target, selected, registered, exit_handler, recovering, childVars,
                 sessionVars, presses>>

\* The patched menu_left: on a page it runs the exit handler, having removed it;
\* in a menu it goes up a level.
LeavePage(a) ==
  /\ At(a, "left")
  /\ IF display = "menu"
       THEN /\ Will(a, Tail(Tail(todo[a]))) /\ selected' = ""
            /\ UNCHANGED <<target, exit_handler>>
       ELSE /\ exit_handler' = 0 /\ target' = [target EXCEPT ![a] = exit_handler]
            /\ Will(a, IF exit_handler = 0 THEN Tail(todo[a]) ELSE Stopping \o Tail(todo[a]))
            /\ UNCHANGED selected
  /\ UNCHANGED <<mode, display, registered, recovering, childVars, sessionVars, presses>>

\* The menu is drawn, in managed mode after it was refreshed (FpmsMenu) and with
\* its first entry highlighted, below the Utilization menu; else as it was left.
Redraw(a) ==
  /\ At(a, "redraw") /\ Done(a) /\ display' = "menu"
  /\ selected' \in IF Managed THEN {selected, "", "resume"} ELSE {selected}
  /\ UNCHANGED <<mode, target, registered, exit_handler, recovering, childVars, sessionVars,
                 presses>>

Recovered(a) ==
  /\ At(a, "recovered") /\ Done(a) /\ recovering' = FALSE
  /\ UNCHANGED <<mode, target, display, selected, registered, exit_handler, childVars,
                 sessionVars, presses>>

-----------------------------------------------------------------------------
(* The display thread and the children.                                    *)

\* Until it is told to stop it draws, and says once that the disk is full.
Frames(s) ==
  /\ At(s, "frames")
  /\ \/ stop_event[s] /\ Will(s, << >>) /\ UNCHANGED low_disk
     \/ ~stop_event[s] /\ Will(s, <<"poll">>) /\ UNCHANGED low_disk
     \/ /\ ~stop_event[s] /\ s \in FullDisk /\ ~low_disk[s]
        /\ low_disk' = [low_disk EXCEPT ![s] = TRUE]
        /\ Will(s, <<"notice", "poll">>)
  /\ UNCHANGED <<mode, target, gVars, childVars, stop_event, reported, presses>>

PollsRegistered(s) ==
  /\ At(s, "poll")
  /\ IF child[s] = "dead" /\ registered = s
       THEN Will(s, <<"report">>) /\ target' = [target EXCEPT ![s] = s]
       ELSE Will(s, <<"frames">>) /\ UNCHANGED target
  /\ UNCHANGED <<mode, gVars, childVars, sessionVars, presses>>

Polls(s) ==
  /\ At(s, "poll")
  /\ IF child[s] = "dead" THEN Will(s, <<"report">>) /\ target' = [target EXCEPT ![s] = s]
                          ELSE Will(s, <<"frames">>) /\ UNCHANGED target
  /\ UNCHANGED <<mode, gVars, childVars, sessionVars, presses>>

\* external: a child ends by itself.
ChildExits ==
  /\ \/ /\ \E s \in Session : child[s] = "run" /\ child' = [child EXCEPT ![s] = "dead"]
        /\ UNCHANGED proxy
     \/ proxy = "run" /\ proxy' = "dead" /\ UNCHANGED child
  /\ UNCHANGED <<mode, todo, target, gVars, launched, sessionVars, presses>>

-----------------------------------------------------------------------------
(* launch.                                                                 *)

ChecksRecovery(a) ==
  /\ At(a, "check") /\ IF recovering THEN Will(a, << >>) ELSE Done(a)
  /\ UNCHANGED <<mode, target, gVars, childVars, sessionVars, presses>>

\* A registered session: reported if its child is dead, else left as it is.
Existing(a, s) ==
  IF child[s] = "dead" THEN Will(a, <<"report">>) /\ target' = [target EXCEPT ![a] = s]
                       ELSE Will(a, << >>) /\ UNCHANGED target

FindsSession(a) ==
  /\ At(a, "find")
  /\ IF registered = 0 THEN Done(a) /\ UNCHANGED target ELSE Existing(a, registered)
  /\ UNCHANGED <<mode, gVars, childVars, sessionVars, presses>>

\* The status of the service: an error stays on the page, and resume attaches
\* only to a session that runs.
LooksUp(a) ==
  /\ At(a, "launch") \/ At(a, "resume")
  /\ \/ Done(a) /\ UNCHANGED display
     \/ Managed /\ Will(a, << >>) /\ display' \in IF At(a, "resume") THEN {display, "menu"} ELSE {display}
  /\ UNCHANGED <<mode, target, selected, registered, exit_handler, recovering, childVars,
                 sessionVars, presses>>

\* A standalone capture that only logs keeps the radio.
ChecksProxy(a) ==
  /\ At(a, "proxy")
  /\ IF ~Managed /\ proxy = "run" THEN Will(a, << >>) ELSE Done(a)
  /\ proxy' = IF proxy = "dead" THEN "none" ELSE proxy
  /\ UNCHANGED <<mode, target, gVars, launched, child, sessionVars, presses>>

\* Looks again, after the calls above: another thread may have launched a session.
Attaches(a) ==
  /\ At(a, "attach")
  /\ IF registered = 0
       THEN Will(a, <<"register", "popen", "install", "start">>) /\ UNCHANGED target
     ELSE IF child[registered] = "dead" THEN Existing(a, registered)
     ELSE Will(a, <<"install", "show">>) /\ target' = [target EXCEPT ![a] = registered]
  /\ UNCHANGED <<mode, gVars, childVars, sessionVars, presses>>

\* The bounds stop a launch here.
Registers(a) ==
  /\ At(a, "register")
  /\ IF launched = MaxSessions \/ presses + launched >= MaxEvents
       THEN Will(a, << >>) /\ UNCHANGED <<launched, registered, target>>
       ELSE /\ Done(a) /\ launched' = launched + 1
            /\ registered' = launched' /\ target' = [target EXCEPT ![a] = launched']
  /\ UNCHANGED <<mode, display, selected, exit_handler, recovering, child, proxy, sessionVars,
                 presses>>

\* Popen, which may raise.
StartsChild(a) ==
  /\ At(a, "popen")
  /\ \/ /\ Done(a) /\ child' = [child EXCEPT ![target[a]] = "run"]
        /\ UNCHANGED <<registered, target>>
     \/ Will(a, <<"fail">>) /\ Drops(a) /\ registered' = 0 /\ UNCHANGED child
  /\ UNCHANGED <<mode, display, selected, exit_handler, recovering, launched, proxy, sessionVars,
                 presses>>

LaunchFails(a) ==
  /\ At(a, "fail") /\ Will(a, Recovering) /\ recovering' = TRUE
  /\ UNCHANGED <<mode, target, display, selected, registered, exit_handler, childVars,
                 sessionVars, presses>>

InstallsHandlers(a) ==
  /\ At(a, "install") /\ Done(a) /\ exit_handler' = target[a] /\ display' = "page"
  /\ UNCHANGED <<mode, target, selected, registered, recovering, childVars, sessionVars, presses>>

\* A message, or none, and start_display if the session is new.
StartsDisplay(a) ==
  /\ At(a, "show") \/ At(a, "start")
  /\ todo' = IF At(a, "show") THEN [todo EXCEPT ![a] = << >>]
             ELSE [todo EXCEPT ![a] = << >>, ![target[a]] = <<"frames">>]
  /\ Drops(a) /\ display' \in {display, "page"}
  /\ UNCHANGED <<mode, selected, registered, exit_handler, recovering, childVars, sessionVars,
                 presses>>

-----------------------------------------------------------------------------
(* The other actions.                                                      *)

Live == registered # 0 /\ child[registered] # "dead"

\* Stop Session and the export commands, whatever comes of them.
Commands(a) ==
  /\ At(a, "control") /\ Returns(a) /\ display' \in {display, "menu"}
  /\ UNCHANGED <<mode, target, selected, registered, exit_handler, recovering, childVars,
                 sessionVars, presses>>

\* Start Logging: with no session to log in, or in standalone mode, it goes on here.
RequestsLogging(a) ==
  /\ At(a, "log_only")
  /\ \/ Managed /\ Returns(a) /\ display' \in {display, "menu"}
     \/ Done(a) /\ UNCHANGED display
  /\ UNCHANGED <<mode, target, selected, registered, exit_handler, recovering, childVars,
                 sessionVars, presses>>

FindsLog(a) ==
  /\ At(a, "find_log")
  /\ IF Live THEN Returns(a) /\ display' \in {display, "page"}
             ELSE Done(a) /\ UNCHANGED display
  /\ UNCHANGED <<mode, target, selected, registered, exit_handler, recovering, childVars,
                 sessionVars, presses>>

\* The background capture, or an error alert.
StartsLogging(a) ==
  /\ At(a, "start_log") /\ Returns(a)
  /\ \/ display' = "menu" /\ proxy' = "run"
     \/ proxy # "run" /\ proxy' = "none" /\ UNCHANGED display
  /\ UNCHANGED <<mode, target, selected, registered, exit_handler, recovering, launched, child,
                 sessionVars, presses>>

\* The background capture is stopped, unless a command or the control file fails.
StopsLogging(a) ==
  /\ At(a, "stop_log") /\ Returns(a)
  /\ \/ UNCHANGED proxy /\ display' \in {display, "menu"}
     \/ proxy' = "none" /\ display' \in {display, "menu"} \cup (IF Live THEN {"page"} ELSE {})
  /\ UNCHANGED <<mode, target, selected, registered, exit_handler, recovering, launched, child,
                 sessionVars, presses>>

-----------------------------------------------------------------------------
Exits(a) ==
  ReportExit(a) \/ StopSession(a) \/ ChildStopped(a) \/ Overlay(a) \/ Unregister(a)
    \/ ReturnToMenu(a) \/ LeavePage(a) \/ Redraw(a) \/ Recovered(a)
Launches(a) ==
  ChecksRecovery(a) \/ FindsSession(a) \/ LooksUp(a) \/ ChecksProxy(a) \/ Attaches(a)
    \/ Registers(a) \/ StartsChild(a) \/ LaunchFails(a) \/ InstallsHandlers(a)
    \/ StartsDisplay(a)
Logs(a) ==
  Commands(a) \/ RequestsLogging(a) \/ FindsLog(a) \/ StartsLogging(a) \/ StopsLogging(a)
Step(a) ==
  Exits(a) \/ Launches(a) \/ Logs(a) \/ (a = Main /\ (Turn \/ Dispatch))
    \/ (a \in Session /\ (Frames(a) \/ Polls(a)))

Next == Center \/ Left \/ ChildExits \/ \E a \in Actor : Step(a)

Spec == Init /\ [][Next]_vars

\* Each thread goes on; buttons may not be pressed, and children need not end.
FairSpec == Spec /\ \A a \in Actor : WF_vars(Step(a))

-----------------------------------------------------------------------------
(* An exit is reported once and only of a child that ended, whichever       *)
(* threads see it, and launching is refused (recovering) only while a       *)
(* thread still has to lift the refusal: it is set and popped without a     *)
(* lock by reports and failed launches that may overlap                     *)
(* (channel_utilization.py, report_exit and launch).                        *)
ExitsReported ==
  /\ \A s \in Session : reported[s] <= 1 /\ (reported[s] = 1 => child[s] = "dead")
  /\ recovering => \E a \in Actor : \E i \in 1..Len(todo[a]) : todo[a][i] = "recovered"

(* A child that ends, by itself or not, is always seen: its session is      *)
(* stopped, and its display thread ends and draws no more, even if the      *)
(* session was stopped before that thread began; and launching is never     *)
(* refused for good (report_exit, stop, _display_frames).                   *)
ExitsEnd ==
  /\ \A s \in Session : (child[s] = "dead") ~> [](stop_event[s] /\ todo[s] = << >>)
  /\ recovering ~> ~recovering
=============================================================================
