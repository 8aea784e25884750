\* One RTMP, SRT or WebRTC server, up to two of its sessions, one hook.
SPECIFICATION FairSpec
CONSTANTS
  s1 = s1
  s2 = s2
  Owners = {s1}
  Clients = {s1, s2}
  Patches = {p1}
  Settings <- AllServers
  Nil = Nil
\* A server that is closed stops.
CHECK_DEADLOCK FALSE
INVARIANTS
  SessionsAccountedFor

  
  
