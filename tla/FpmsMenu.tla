------------------------------ MODULE FpmsMenu ------------------------------
(***************************************************************************)
(* The Utilization menu of the FPMS adapter (channel_utilization.py,       *)
(* _SessionMenu), which follows the managed session.  FPMS's main loop     *)
(* polls: a reader thread asks the service for its status, and a later     *)
(* poll takes the answer and replaces the menu's entries.  A page that     *)
(* returns to the menu, and a user who enters it, read inline: the page's  *)
(* action in the main loop or in the button monitor, Left in the latter,   *)
(* and the report of a dead child in its display thread.  Which entry is   *)
(* highlighted is left out.                                                *)
(*                                                                         *)
(* The service is external here: it is what the status command answers     *)
(* that changes (ManagedSession.tla models it).                            *)
(***************************************************************************)
EXTENDS Naturals, Sequences

CONSTANTS
  MaxChanges,    \* bound on what others do to the service
  MaxRefreshes   \* bound on the generations begun

Main == 1      \* FPMS's main loop
Buttons == 2   \* its button monitor
Display == 3   \* the display thread of a child
Actor == {Main, Buttons, Display}

VARIABLES
  service,     \* the session of the service, as `session status` tells it
  changes,     \* what others did so far
  display,     \* g_vars["display_state"]: "menu" or "page"
  commands,    \* whether the page's action is a command to the service
  signature,   \* _SessionMenu.signature, which says what the entries are
  generation,  \* _SessionMenu.generation
  reading,     \* the reader's generation; << >> unless in_flight
  result,      \* _SessionMenu.result: << >> or <<generation, state>>
  todo,        \* what each actor still does, first things first
  answer,      \* what an actor read: << >> or <<generation when it asked, state>>
  filled       \* the generation in which the read of the entries was begun

serviceVars == <<service, changes>>
readerVars == <<reading, result>>
pageVars == <<display, commands>>
menuVars == <<signature, generation, filled>>
vars == <<serviceVars, pageVars, menuVars, readerVars, todo, answer>>

State == [kind : {"idle", "active", "stopping", "unavailable"}, id : Nat,
          logging : BOOLEAN, export : BOOLEAN]
Idle == [kind |-> "idle", id |-> 0, logging |-> FALSE, export |-> FALSE]
Unavailable == [Idle EXCEPT !.kind = "unavailable"]

\* external: the session's ID outlives it, as the next one's is new.
Gone(state) == [Idle EXCEPT !.id = state.id]
Begun(state, logging, export) ==
  [kind |-> "active", id |-> state.id + 1, logging |-> logging, export |-> export]

Init ==
  /\ service \in {Idle, Begun(Idle, FALSE, FALSE)} /\ changes = 0
  /\ display = "menu" /\ commands = FALSE /\ signature = Idle /\ generation = 0 /\ filled = 0
  /\ reading = << >> /\ result = << >>
  /\ todo = [a \in Actor |-> << >>] /\ answer = [a \in Actor |-> << >>]

At(a, step) == todo[a] # << >> /\ Head(todo[a]) = step
Will(a, steps) == todo' = [todo EXCEPT ![a] = steps]
Done(a) == Will(a, Tail(todo[a]))
Free(a) == todo[a] = << >>

\* _return_to_menu, and Left on a page: returned, before the menu is drawn.
Returning == <<"refresh", "read", "apply", "redraw">>

SignatureOf(state) ==
  IF state.kind = "active" THEN state
  ELSE [Idle EXCEPT !.kind = state.kind,
                    !.id = IF state.kind = "stopping" THEN state.id ELSE 0]

\* _managed_session_status, through _read: the status command can fail.
Answers == {service, Unavailable}
-----------------------------------------------------------------------------
\* external: other clients, and the owner's end, change the session.
ServiceChanges ==
  /\ changes < MaxChanges /\ changes' = changes + 1
  /\ \/ service.kind = "idle" /\ service' = Begun(service, FALSE, FALSE)
     \/ /\ service.kind = "active"
        /\ service' \in {[service EXCEPT !.logging = ~@], [service EXCEPT !.export = ~@],
                         [service EXCEPT !.kind = "stopping"]}
     \/ service.kind # "idle" /\ service' = Gone(service)
  /\ UNCHANGED <<pageVars, menuVars, readerVars, todo, answer>>

\* Right or Center, in the menu: enter reads inline.
Enters ==
  /\ Free(Buttons) /\ display = "menu" /\ Will(Buttons, <<"refresh", "read", "apply">>)
  /\ UNCHANGED <<serviceVars, pageVars, menuVars, readerVars, answer>>

\* Center on an entry: the page's action launches a display, or it gives the
\* service a command and returns to the menu.
Center ==
  /\ Free(Buttons) /\ display = "menu" /\ display' = "page"
  /\ commands' \in BOOLEAN /\ Will(Buttons, IF commands' THEN <<"command">> \o Returning ELSE << >>)
  /\ UNCHANGED <<serviceVars, menuVars, readerVars, answer>>

\* Left on a page.
Left ==
  /\ Free(Buttons) /\ display = "page" /\ Will(Buttons, Returning)
  /\ UNCHANGED <<serviceVars, pageVars, menuVars, readerVars, answer>>

\* The report of a dead child ends with the return to the menu.
ChildReported ==
  /\ Free(Display) /\ display = "page" /\ ~commands /\ Will(Display, Returning)
  /\ UNCHANGED <<serviceVars, pageVars, menuVars, readerVars, answer>>

\* The main loop naps while a button is served (sig_fired), then runs the
\* page's action, or polls.
Turn ==
  /\ Free(Main) /\ Free(Buttons) /\ Will(Main, <<"dispatch">>)
  /\ UNCHANGED <<serviceVars, pageVars, menuVars, readerVars, answer>>

Dispatch ==
  /\ At(Main, "dispatch")
  /\ Will(Main, IF display = "menu" THEN <<"take", "start">>
                ELSE IF commands THEN <<"command">> \o Returning ELSE << >>)
  /\ UNCHANGED <<serviceVars, pageVars, menuVars, readerVars, answer>>

\* A command names the session the status told of, and may be refused.
Command(a) ==
  /\ At(a, "command") /\ Done(a)
  /\ \/ UNCHANGED service
     \/ /\ service.kind = "active"
        /\ service' \in {[service EXCEPT !.kind = "stopping"], [service EXCEPT !.logging = ~@],
                         [service EXCEPT !.export = ~@]}
     \/ service.kind = "idle" /\ service' = Begun(service, FALSE, TRUE)
  /\ UNCHANGED <<changes, pageVars, menuVars, readerVars, answer>>

\* _refresh, by any actor: discards any read started before.
Refresh(a) ==
  /\ At(a, "refresh") /\ generation < MaxRefreshes /\ Done(a)
  /\ generation' = generation + 1 /\ result' = << >>
  /\ answer' = [answer EXCEPT ![a] = <<generation', Idle>>]
  /\ UNCHANGED <<serviceVars, pageVars, signature, filled, reading>>

ReadInline(a) ==
  /\ At(a, "read") /\ Done(a)
  /\ \E state \in Answers : answer' = [answer EXCEPT ![a][2] = state]
  /\ UNCHANGED <<serviceVars, pageVars, menuVars, readerVars>>

\* _apply, which says whether the entries are other ones.
Apply(a) ==
  /\ At(a, "apply") /\ Done(a)
  /\ signature' = SignatureOf(answer[a][2]) /\ filled' = answer[a][1]
  /\ answer' = [answer EXCEPT ![a] = << >>]
  /\ UNCHANGED <<serviceVars, pageVars, generation, readerVars>>

Redraw(a) ==
  /\ At(a, "redraw") /\ Done(a) /\ display' = "menu"
  /\ UNCHANGED <<serviceVars, commands, menuVars, readerVars, answer>>

\* poll: the main loop takes an answer ...
PollTakes ==
  /\ At(Main, "take") /\ result' = << >>
  /\ answer' = [answer EXCEPT ![Main] = result]
  /\ Will(Main, IF result = << >> THEN <<"start">> ELSE <<"compare", "start">>)
  /\ UNCHANGED <<serviceVars, pageVars, menuVars, reading>>

\* ... and uses it unless a refresh overtook it.
PollCompares ==
  /\ At(Main, "compare")
  /\ IF answer[Main][1] = generation
       THEN Will(Main, <<"apply", "start">>) /\ UNCHANGED answer
       ELSE Done(Main) /\ answer' = [answer EXCEPT ![Main] = << >>]
  /\ UNCHANGED <<serviceVars, pageVars, menuVars, readerVars>>

\* After MENU_POLL_SECONDS without one, another reader is started.
PollStarts ==
  /\ At(Main, "start") /\ Done(Main)
  /\ reading' \in IF reading = << >> THEN {reading, <<generation>>} ELSE {reading}
  /\ UNCHANGED <<serviceVars, pageVars, menuVars, result, answer>>

ReaderStores ==
  /\ reading # << >> /\ reading' = << >>
  /\ \E state \in Answers : result' = <<reading[1], state>>
  /\ UNCHANGED <<serviceVars, pageVars, menuVars, todo, answer>>

-----------------------------------------------------------------------------
Next ==
  \/ ServiceChanges \/ Enters \/ Center \/ Left \/ ChildReported \/ Turn \/ Dispatch
  \/ PollTakes \/ PollCompares \/ PollStarts \/ ReaderStores
  \/ \E a \in Actor : Command(a) \/ Refresh(a) \/ ReadInline(a) \/ Apply(a) \/ Redraw(a)

Spec == Init /\ [][Next]_vars

-----------------------------------------------------------------------------
(* Reads pending before a new local action cannot overwrite its refreshed   *)
(* state (docs/managed-service.md:95-96): whoever changes the entries does  *)
(* so with a read begun no earlier than the one they show                   *)
(* (_SessionMenu._refresh, poll).                                           *)
PendingReadsDiscarded ==
  [][signature' # signature => filled' >= filled]_vars
=============================================================================
