\* A client of an RTSP server and a hook, or two clients.
SPECIFICATION FairSpec
CONSTANTS
  c1 = c1
  c2 = c2
  Clients = {c1, c2}
  Owners = {c1}
  Kickable = {c1}
  Settings <- Visits
\* A server that is closed stops.
CHECK_DEADLOCK FALSE
INVARIANTS
  SessionsReleased

  
