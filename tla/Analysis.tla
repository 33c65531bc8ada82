------------------------------ MODULE Analysis ------------------------------
(***************************************************************************)
(* The computations behind a capture's figures, side by side: which BSSIDs *)
(* are shown (DisplayChoice), what frames count for (FrameProjection), how *)
(* many beacons were missed (BeaconReception), and which channel all of it *)
(* is about (ChannelPlan).  Their properties are checked as they are: they *)
(* say nothing before a refresh, a frame, a beacon or a plan.              *)
(* The four share no state in the code either: subject says which of them  *)
(* a behaviour is about.                                                   *)
(***************************************************************************)
EXTENDS ChannelPlan, BeaconReception, DisplayChoice, FrameProjection

VARIABLE subject

vars == <<subject, displayVars, projectionVars, receptionVars, planVars>>

Init ==
  /\ subject \in {"display", "projection", "reception", "tuning"}
  /\ DisplayInit /\ ReceptionInit /\ ProjectionInit /\ TuningInit
  /\ subject # "projection" => target = None
  /\ subject # "tuning" =>
       plan.backend = "direct" /\ plan.request = CHOOSE request \in Requests : TRUE

ChoiceNext ==
  /\ subject = "display" /\ DisplayNext
  /\ UNCHANGED <<subject, projectionVars, receptionVars, planVars>>

FrameNext ==
  /\ subject = "projection" /\ ProjectionNext
  /\ UNCHANGED <<subject, displayVars, receptionVars, planVars>>

BeaconNext ==
  /\ subject = "reception" /\ ReceptionNext
  /\ UNCHANGED <<subject, displayVars, projectionVars, planVars>>

ChannelNext ==
  /\ subject = "tuning" /\ TuningNext
  /\ UNCHANGED <<subject, displayVars, projectionVars, receptionVars>>

Next == ChoiceNext \/ FrameNext \/ BeaconNext \/ ChannelNext
Spec == Init /\ [][Next]_vars
=============================================================================
