-------------------------- MODULE SessionLifecycle --------------------------
(***************************************************************************)
(* What the managed service promises a client that reads its status: one   *)
(* session at a time, named by an ID that is never reused, whose phase     *)
(* only moves forward.  `SessionPhase` (runtime.py) gives the phases; the  *)
(* promise is the broker's: a start waits for the previous session to      *)
(* end, an accepted stop is never undone, and losing the broker leaves a   *)
(* fresh idle state rather than a resumed capture.                         *)
(***************************************************************************)
EXTENDS Naturals

CONSTANTS Sessions, NoSession

VARIABLES sid,    \* the session ID in the publication
          phase,  \* its SessionPhase
          past    \* the IDs issued so far

lifecycle == <<sid, phase, past>>

Quiet    == {"idle", "stopped", "failed"}
Terminal == {"stopped", "failed"}
Active   == {"starting", "running", "stopping"}

\* How far a session has come; both terminal phases are final.
Rank(p) == CASE p = "idle"     -> 0
             [] p = "starting" -> 1
             [] p = "running"  -> 2
             [] p = "stopping" -> 3
             [] p \in Terminal -> 4

LifecycleInit == sid = NoSession /\ phase = "idle" /\ past = {}

\* A new session, under an ID never used before and only from a quiet state;
\* it is failed at once when its owner cannot be spawned.
Begin(s) ==
  /\ phase \in Quiet
  /\ s \notin past
  /\ sid' = s
  /\ phase' \in {"starting", "failed"}
  /\ past' = past \cup {s}

\* The session moves forward, never out of a terminal phase.
Advance ==
  /\ sid # NoSession
  /\ phase \in Active
  /\ phase' \in Active \cup Terminal
  /\ Rank(phase') > Rank(phase)
  /\ UNCHANGED <<sid, past>>

\* The broker is gone: its successor knows no session.
Forget ==
  /\ sid' = NoSession
  /\ phase' = "idle"
  /\ UNCHANGED past

LifecycleNext == Advance \/ Forget \/ \E s \in Sessions : Begin(s)

LifecycleSpec == LifecycleInit /\ [][LifecycleNext]_lifecycle
=============================================================================
