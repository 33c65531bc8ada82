--------------------------- MODULE MCLivePipeline ---------------------------
(***************************************************************************)
(* Instances of LivePipeline for TLC: the beacons of two access points,    *)
(* and another frame.                                                      *)
(***************************************************************************)
EXTENDS LivePipeline

CONSTANTS ap1, ap2

HeardShapes == {[beacon |-> TRUE, bssid |-> ap1], [beacon |-> TRUE, bssid |-> ap2],
                [beacon |-> FALSE, bssid |-> None]}

AccessPoints == Permutations({ap1, ap2})
=============================================================================
