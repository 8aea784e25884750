----------------------------- MODULE RTSPServer -----------------------------
(***************************************************************************)
(* The RTSP server (internal/servers/rtsp).  Here no loop of its own owns  *)
(* the tables: the library runs a goroutine per connection and one per     *)
(* session, and calls the handlers of the server on them; the control API  *)
(* comes on goroutines of its own, and a mutex guards the two maps.        *)
(*                                                                         *)
(* A session is kicked under the READ lock: it leaves the map, and what    *)
(* should release it when the library ends it, onClose, is called by the   *)
(* API, while a handler of the session may still run.  "raced" collects    *)
(* the sessions this happened to, whose release the code does not ensure.  *)
(*                                                                         *)
(* Each client has a connection and at most one session on it.  The state  *)
(* of a session is the library's: it moves on when a handler has returned  *)
(* without error.                                                          *)
(***************************************************************************)
EXTENDS Commands

CONSTANTS
  Clients,     (* connections, each with its session                       *)
  Kickable,    (* clients whose session may be kicked                      *)
  Settings     (* [wants, hookConf] of who comes and of the hook           *)

ASSUME SettingsAssumption ==
  Settings \subseteq [wants : [Clients -> SUBSET {"read", "publish"}], hookConf : HookConfs]

VARIABLES
  wants,       (* client -> what it comes for, if it comes                 *)
  serverAt,    (* "run" | "closing" (srv.Close, srv.Wait) | "ended"        *)
  closing,     (* core has called Close: s.ctx is cancelled                *)
  conns,       (* s.conns                                                  *)
  table,       (* s.sessions                                               *)
  connAt,      (* client -> where its connection is, see ConnPlaces        *)
  at,          (* client -> where the goroutine of its session is          *)
  state,       (* client -> rsession.State()                               *)
  cancelled,   (* sessions on which rsession.Close has been called         *)
  hasPath,     (* sessions with path # nil                                 *)
  api,         (* client -> how far APISessionsKick is with its session    *)
  raced,       (* sessions kicked while, or before, a handler ran          *)
  crashed,     (* sessions that used a nil path                            *)
  listed       (* sessions the path has as its publisher or readers        *)

serverVars  == <<wants, serverAt, closing>>
sessionVars == <<at, state, cancelled, hasPath, crashed>>
vars == <<serverVars, conns, table, connAt, sessionVars, api, raced, listed, commandVars>>

ConnPlaces == {"none", "open", "onDescribe", "onClose", "gone"}
Handlers == {"onAnnounce", "onSetup", "onRecord"}  (* they wait for the path *)
Places == {"none", "idle", "delete", "hook", "remove", "gone"} \cup Handlers
States == {"Initial", "PrePlay", "Play", "PreRecord", "Record"}

TypeOK ==
  /\ CommandsTypeOK
  /\ [wants |-> wants, hookConf |-> hookConf] \in Settings
  /\ serverAt \in {"run", "closing", "ended"} /\ closing \in BOOLEAN
  /\ \A set \in {conns, table, cancelled, hasPath, raced, crashed, listed} : set \subseteq Clients
  /\ connAt \in [Clients -> ConnPlaces]
  /\ at \in [Clients -> Places]
  /\ state \in [Clients -> States]
  /\ api \in [Clients -> {"no", "hook", "remove", "done"}]

(* s.mutex: a kick holds it for reading until onClose has returned.        *)
NobodyReads == \A c \in Clients : api[c] \notin {"hook", "remove"}

Init ==
  /\ \E x \in Settings : wants = x.wants /\ hookConf = x.hookConf
  /\ CommandsInit
  /\ serverAt = "run" /\ closing = FALSE
  /\ conns = {} /\ table = {} /\ cancelled = {} /\ hasPath = {}
  /\ raced = {} /\ crashed = {} /\ listed = {}
  /\ connAt = [c \in Clients |-> "none"]
  /\ at = [c \in Clients |-> "none"]
  /\ state = [c \in Clients |-> "Initial"]
  /\ api = [c \in Clients |-> "no"]

-----------------------------------------------------------------------------
(* Connections.                                                            *)

OnConnOpen(c) ==
  /\ serverAt = "run" /\ connAt[c] = "none" /\ wants[c] # {} /\ NobodyReads
  /\ connAt' = [connAt EXCEPT ![c] = "open"]
  /\ conns' = conns \cup {c}
  /\ commands' = Begin(commands, c, "connect")
  /\ UNCHANGED <<serverVars, table, sessionVars, api, raced, listed, hookConf>>

(* The path may keep the request on hold, and the connection with it; so   *)
(* does the pause after a wrong password.                                  *)
OnDescribe(c) ==
  /\ connAt[c] = "open" /\ "read" \in wants[c]
  /\ connAt' = [connAt EXCEPT ![c] = "onDescribe"]
  /\ UNCHANGED <<serverVars, conns, table, sessionVars, api, raced, listed, commandVars>>

DescribeAnswered(c) ==
  /\ connAt[c] = "onDescribe"
  /\ connAt' = [connAt EXCEPT ![c] = "open"]
  /\ UNCHANGED <<serverVars, conns, table, sessionVars, api, raced, listed, commandVars>>

(* The client or the server closes the connection, and the session with    *)
(* it.                                                                     *)
OnConnClose(c) ==
  /\ connAt[c] = "open" /\ NobodyReads
  /\ conns' = conns \ {c}
  /\ connAt' = [connAt EXCEPT ![c] = "onClose"]
  /\ cancelled' = cancelled \cup {c}
  /\ UNCHANGED <<serverVars, table, at, state, hasPath, crashed, api, raced, listed, commandVars>>

OnDisconnect(c) ==
  /\ connAt[c] = "onClose"
  /\ commands' = End(commands, c, "connect")
  /\ connAt' = [connAt EXCEPT ![c] = "gone"]
  /\ UNCHANGED <<serverVars, conns, table, sessionVars, api, raced, listed, hookConf>>

-----------------------------------------------------------------------------
(* Sessions.                                                               *)

OnSessionOpen(c) ==
  /\ connAt[c] = "open" /\ at[c] = "none" /\ NobodyReads
  /\ at' = [at EXCEPT ![c] = "idle"]
  /\ table' = table \cup {c}
  /\ UNCHANGED <<serverVars, conns, connAt, state, cancelled, hasPath, crashed, api, raced, listed,
                 commandVars>>

(* A handler starts on the goroutine of the session.                       *)
Race(c) == raced' = IF api[c] = "no" THEN raced ELSE raced \cup {c}

Calls(c, h, states) ==
  /\ connAt[c] = "open" /\ at[c] = "idle" /\ state[c] \in states
  /\ at' = [at EXCEPT ![c] = h]
  /\ Race(c)
  /\ UNCHANGED <<serverVars, conns, table, connAt, state, cancelled, hasPath, crashed, api, listed,
                 commandVars>>

OnAnnounce(c) == "publish" \in wants[c] /\ Calls(c, "onAnnounce", {"Initial"})
OnSetup(c)    == "read" \in wants[c] /\ Calls(c, "onSetup", {"Initial", "PrePlay"})
OnRecord(c)   == Calls(c, "onRecord", {"PreRecord"})

(* FindPathConf, AddReader and AddPublisher are answered, and the handler  *)
(* returns.                                                                *)
Answers(c, h, next) ==
  /\ at[c] = h
  /\ at' = [at EXCEPT ![c] = "idle"]
  /\ \/ state' = [state EXCEPT ![c] = next]
     \/ UNCHANGED state
  /\ UNCHANGED <<serverVars, conns, table, connAt, crashed, api, raced, commandVars>>

AnnounceAnswered(c) ==
  /\ Answers(c, "onAnnounce", "PreRecord")
  /\ UNCHANGED <<cancelled, hasPath, listed>>

Accepted(c, displaced) ==
  /\ hasPath' = hasPath \cup {c}
  /\ listed' = (listed \ displaced) \cup {c}
  /\ cancelled' = cancelled \cup displaced

SetupAnswered(c) ==
  /\ Answers(c, "onSetup", "PrePlay")
  /\ \/ state'[c] = "PrePlay" /\ Accepted(c, {})
     \/ state' = state /\ UNCHANGED <<hasPath, listed, cancelled>>

Publishers == {p \in listed : state[p] = "Record"}

RecordAnswered(c) ==
  /\ Answers(c, "onRecord", "Record")
  /\ \/ state'[c] = "Record" /\ Accepted(c, Publishers)
     \/ state' = state /\ UNCHANGED <<hasPath, listed, cancelled>>

(* Bound: a client plays again only once the command of its last play has  *)
(* ended.                                                                  *)
OnPlay(c) ==
  /\ connAt[c] = "open" /\ at[c] = "idle" /\ state[c] = "PrePlay"
  /\ commands[<<c, "read">>].at \in {"none", "ended"} /\ commands[<<c, "unread">>].at \in {"none", "ended"}
  /\ IF c \in hasPath
     THEN /\ commands' = Begin(commands, c, "read")
          /\ state' = [state EXCEPT ![c] = "Play"]
          /\ UNCHANGED crashed
     ELSE crashed' = crashed \cup {c} /\ UNCHANGED <<commands, state>>
  /\ Race(c)
  /\ UNCHANGED <<serverVars, conns, table, connAt, at, cancelled, hasPath, api, listed, hookConf>>

(* A fault: the hook of a reader that pauses goes on.                       *)
OnPause_HookKept(c) ==
  /\ connAt[c] = "open" /\ at[c] = "idle" /\ state[c] = "Play"
  /\ state' = [state EXCEPT ![c] = "PrePlay"]
  /\ Race(c)
  /\ UNCHANGED <<serverVars, conns, table, connAt, at, cancelled, hasPath, crashed, api, listed,
                 commandVars>>

OnPause(c) ==
  /\ connAt[c] = "open" /\ at[c] = "idle"
  /\ \/ /\ state[c] = "Play"
        /\ commands' = End(commands, c, "read")
        /\ state' = [state EXCEPT ![c] = "PrePlay"]
        /\ UNCHANGED <<listed, crashed>>
     \/ /\ state[c] = "Record"
        /\ listed' = listed \ {c}
        /\ state' = [state EXCEPT ![c] = "PreRecord"]
        /\ crashed' = IF c \in hasPath THEN crashed ELSE crashed \cup {c}
        /\ UNCHANGED commands
  /\ Race(c)
  /\ UNCHANGED <<serverVars, conns, table, connAt, at, cancelled, hasPath, api, hookConf>>

(* The session ends: closed, out of time, or by TEARDOWN.                  *)
SessionEnds(c) ==
  /\ at[c] = "idle"
  /\ at' = [at EXCEPT ![c] = "delete"]
  /\ UNCHANGED <<serverVars, conns, table, connAt, state, cancelled, hasPath, crashed, api, raced, listed,
                 commandVars>>

OnSessionClose(c) ==
  /\ at[c] = "delete" /\ NobodyReads
  /\ table' = table \ {c}
  /\ at' = [at EXCEPT ![c] = IF c \in table THEN "hook" ELSE "gone"]
  /\ UNCHANGED <<serverVars, conns, connAt, state, cancelled, hasPath, crashed, api, raced, listed,
                 commandVars>>

-----------------------------------------------------------------------------
(* onClose, on the goroutine of the session or of the API.                 *)

EndHook(c) ==
  /\ commands' = IF state[c] = "Play" THEN End(commands, c, "read") ELSE commands
  /\ UNCHANGED hookConf

(* A fault: only a session that plays is taken out of its path.             *)
LeavePath_OnlyPlay(c) ==
  /\ listed' = IF state[c] \in {"Play", "Record"} THEN listed \ {c} ELSE listed
  /\ hasPath' = hasPath \ {c}
  /\ UNCHANGED crashed

LeavePath(c) ==
  /\ listed' = IF state[c] \in {"PrePlay", "Play", "Record"} THEN listed \ {c} ELSE listed
  /\ crashed' = IF state[c] \in {"PrePlay", "Play", "Record"} /\ c \notin hasPath
                THEN crashed \cup {c} ELSE crashed
  /\ hasPath' = hasPath \ {c}

OnClose(c) ==
  \/ /\ at[c] = "hook" /\ EndHook(c)
     /\ at' = [at EXCEPT ![c] = "remove"]
     /\ UNCHANGED <<serverVars, conns, table, connAt, state, cancelled, hasPath, crashed, api, raced, listed>>
  \/ /\ at[c] = "remove" /\ LeavePath(c)
     /\ at' = [at EXCEPT ![c] = "gone"]
     /\ UNCHANGED <<serverVars, conns, table, connAt, state, cancelled, api, raced, commandVars>>

APISessionsKick(c) ==
  /\ ~closing /\ c \in table /\ c \in Kickable
  /\ cancelled' = cancelled \cup {c}
  /\ table' = table \ {c}
  /\ api' = [api EXCEPT ![c] = "hook"]
  /\ raced' = IF at[c] \in Handlers THEN raced \cup {c} ELSE raced
  /\ UNCHANGED <<serverVars, conns, connAt, at, state, hasPath, crashed, listed, commandVars>>

KickCloses(c) ==
  \/ /\ api[c] = "hook" /\ EndHook(c)
     /\ api' = [api EXCEPT ![c] = "remove"]
     /\ UNCHANGED <<serverVars, conns, table, connAt, sessionVars, raced, listed>>
  \/ /\ api[c] = "remove" /\ LeavePath(c)
     /\ api' = [api EXCEPT ![c] = "done"]
     /\ UNCHANGED <<serverVars, conns, table, connAt, at, state, cancelled, raced, commandVars>>

-----------------------------------------------------------------------------
(* The path and the server.                                                *)

PathCloses(c) ==
  /\ c \in listed
  /\ listed' = listed \ {c}
  /\ cancelled' = cancelled \cup {c}
  /\ UNCHANGED <<serverVars, conns, table, connAt, at, state, hasPath, crashed, api, raced, commandVars>>

CloseServer ==
  /\ ~closing
  /\ closing' = TRUE
  /\ UNCHANGED <<wants, serverAt, conns, table, connAt, sessionVars, api, raced, listed, commandVars>>

(* srv.Close, or an error of the library's own; either ends every          *)
(* connection and every session.                                           *)
ServerStops ==
  /\ serverAt = "run"
  /\ serverAt' = "closing"
  /\ cancelled' = Clients
  /\ UNCHANGED <<wants, closing, conns, table, connAt, at, state, hasPath, crashed, api, raced, listed, commandVars>>

ServerEnds ==
  /\ serverAt = "closing"
  /\ \A c \in Clients : connAt[c] \in {"none", "gone"} /\ at[c] \in {"none", "gone"}
  /\ serverAt' = "ended" /\ closing' = TRUE
  /\ UNCHANGED <<wants, conns, table, connAt, sessionVars, api, raced, listed, commandVars>>

-----------------------------------------------------------------------------

ConnStep(c) == DescribeAnswered(c) \/ OnDisconnect(c)

SessionStep(c) ==
  \/ AnnounceAnswered(c) \/ SetupAnswered(c) \/ RecordAnswered(c)
  \/ OnSessionClose(c) \/ OnClose(c)

Command ==
  /\ \E id \in CommandIds : CommandStep(id)
  /\ UNCHANGED <<serverVars, conns, table, connAt, sessionVars, api, raced, listed>>

(* A panic ends the program.                                               *)
Alive == crashed = {} /\ \A id \in CommandIds : commands[id].at # "panic"

Step ==
  \/ \E c \in Clients :
       \/ ConnStep(c) \/ SessionStep(c) \/ OnConnOpen(c) \/ OnDescribe(c) \/ OnConnClose(c) \/ OnSessionOpen(c)
       \/ OnAnnounce(c) \/ OnSetup(c) \/ OnRecord(c) \/ OnPlay(c) \/ OnPause(c)
       \/ SessionEnds(c) \/ APISessionsKick(c) \/ KickCloses(c) \/ PathCloses(c)
  \/ CloseServer \/ ServerStops \/ ServerEnds
  \/ Command

Next == Alive /\ Step

Spec == Init /\ [][Next]_vars

(* The goroutines go on; a session or a connection may stay for as long as *)
(* it likes, until it is closed.                                           *)
Fairness ==
  /\ \A c \in Clients :
       /\ WF_vars(Alive /\ ConnStep(c)) /\ WF_vars(Alive /\ SessionStep(c)) /\ WF_vars(Alive /\ KickCloses(c))
       /\ SF_vars(Alive /\ serverAt = "closing" /\ OnConnClose(c))
       /\ SF_vars(Alive /\ c \in cancelled /\ SessionEnds(c))
  /\ WF_vars(Alive /\ closing /\ ServerStops) /\ WF_vars(Alive /\ ServerEnds)
  /\ CommandFairness

FairSpec == Spec /\ Fairness

-----------------------------------------------------------------------------
(* Properties.                                                             *)

(* A session that has ended, by itself or by a kick, and that no handler   *)
(* raced with, was released once: its path does not list it, its hook has  *)
(* been told to end, and nothing used the path after that.                 *)
SessionsReleased ==
  \A c \in Clients \ raced :
    /\ at[c] = "gone" /\ api[c] \in {"no", "done"} =>
         /\ c \notin listed
         /\ c \in Owners /\ commands[<<c, "read">>].at # "none" => commands[<<c, "read">>].closed
    /\ c \notin crashed
    /\ c \in Owners => \A kind \in {"connect", "read"} : commands[<<c, kind>>].at # "panic"

(* Close of the server returns, after it has waited for every handler, and *)
(* then the commands end; unless a kick has raced with a handler.          *)
CloseReturns == closing ~> (serverAt = "ended" /\ PoolIsEmpty) \/ raced # {}
=============================================================================
