------------------------------- MODULE MCCore -------------------------------
(* Instances of Core for TLC.                                              *)
EXTENDS Core, TLC

(* One setting of each kind the tables of closeResources tell apart.      *)
Representative ==
  {"log", "users", "metrics", "rtspEncryption", "multicastIPRange", "rtmpsAddress"}
=============================================================================
