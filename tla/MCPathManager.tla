---------------------------- MODULE MCPathManager ----------------------------
(* Instances of PathManager for TLC.                                       *)
EXTENDS PathManager, TLC

CONSTANT cam

Conf(k, static, fixed, hot) ==
  [key |-> k, regexp |-> k \notin Names, static |-> static, fixed |-> fixed, hot |-> hot]

(* cam: absent, matched by all_others, a publisher, a static source, ...   *)
(* and the same with other settings.                                       *)
Others(fixed, hot) == ("all_others" :> Conf("all_others", FALSE, fixed, hot))
Cam(static, fixed, hot) == (cam :> Conf(cam, static, fixed, hot))

Moves ==
  { Others(1, 1), Others(1, 1) @@ Cam(FALSE, 1, 1), Cam(TRUE, 1, 1), Cam(TRUE, 2, 2) }
=============================================================================
