----------------------------- MODULE MCSessions -----------------------------
(* One server of each kind.  Two clients meet where one of them can        *)
(* displace the other; where there is a hook one client is enough, for the *)
(* hooks of two clients share nothing.                                     *)
EXTENDS Sessions

CONSTANTS s1, s2

Hook(h, r, o) == [hook |-> h, run |-> TRUE, restart |-> r, runOver |-> o]
NoHook == [hook |-> "read", run |-> FALSE, restart |-> FALSE, runOver |-> FALSE]
Wants(w1, w2) == [s \in Clients |-> IF s = s1 THEN w1 ELSE w2]
Both == {"read", "publish"}

AllServers ==
  {[kind |-> "rtmp", wants |-> Wants(Both, {"publish"}), hookConf |-> NoHook],
   [kind |-> "rtmp", wants |-> Wants(Both, {}), hookConf |-> Hook("connect", TRUE, TRUE)],
   [kind |-> "srt", wants |-> Wants(Both, {}), hookConf |-> Hook("read", FALSE, TRUE)],
   [kind |-> "webrtc", wants |-> Wants(Both, {}), hookConf |-> Hook("read", TRUE, FALSE)]}
=============================================================================
