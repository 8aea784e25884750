----------------------------- MODULE MCHLSServer -----------------------------
(* Instances of HLSServer for TLC.                                         *)
EXTENDS HLSServer, TLC

CONSTANT cam

Cam(fixed) == (cam :> [key |-> cam, regexp |-> FALSE, static |-> TRUE, fixed |-> fixed, hot |-> 1])
Others ==
  ("all_others" :> [key |-> "all_others", regexp |-> TRUE, static |-> FALSE, fixed |-> 1, hot |-> 1])

(* The path is created on request, by a publisher or a muxer, and ends     *)
(* when it is not used any more; or it has a static source that comes and  *)
(* goes.  Neither is recreated by a reload.                                *)
Kept == {Others, Cam(1)}
=============================================================================
