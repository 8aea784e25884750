---------------------------- MODULE MCRTSPServer ----------------------------
(* A client that reads and publishes, with a hook; and two publishers.     *)
EXTENDS RTSPServer

CONSTANTS c1, c2

Hook(h, r) == [hook |-> h, run |-> TRUE, restart |-> r, runOver |-> TRUE]
NoHook == [hook |-> "read", run |-> FALSE, restart |-> FALSE, runOver |-> FALSE]
Wants(w1, w2) == [c \in Clients |-> IF c = c1 THEN w1 ELSE w2]

Visits ==
  {[wants |-> Wants({"read", "publish"}, {}), hookConf |-> Hook("read", TRUE)],
   [wants |-> Wants({"read", "publish"}, {}), hookConf |-> Hook("connect", FALSE)],
   [wants |-> Wants({"publish"}, {"publish"}), hookConf |-> NoHook]}
=============================================================================
