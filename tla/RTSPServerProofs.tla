-------------------------- MODULE RTSPServerProofs ---------------------------
(***************************************************************************)
(* What the server of RTSP releases, for any number of clients: a session  *)
(* that is over has been released once, whoever ended it, unless a kick    *)
(* raced with a handler of it.                                             *)
(*                                                                         *)
(* The property is not inductive: that onClose runs once, and runs on a    *)
(* session nobody else works on, rests on who may be where.  The session   *)
(* is in the table until one of the two, its goroutine or the API, takes   *)
(* it out and with that the right to release it.                           *)
(***************************************************************************)
EXTENDS RTSPServer, TLAPS

(* Its hook has been told to end, and its path has been left.              *)
Ended(c) == (api[c] = "no" /\ at[c] \in {"remove", "gone"}) \/ api[c] \in {"remove", "done"}
Left(c)  == (api[c] = "no" /\ at[c] = "gone") \/ api[c] = "done"

(* States in which onClose uses the path.                                  *)
WithPath == {"PrePlay", "Play", "Record"}

(* Who is where: the table says who may still end the session.             *)
Turns(c) ==
  /\ c \in table <=> api[c] = "no" /\ at[c] \in {"idle", "delete"} \cup Handlers
  /\ at[c] \in {"none", "hook", "remove"} => api[c] = "no"
  /\ at[c] \in {"none", "onAnnounce"} => state[c] = "Initial"
  /\ at[c] = "onSetup" => state[c] \in {"Initial", "PrePlay"}
  /\ at[c] = "onRecord" => state[c] = "PreRecord"

(* The hook of a connection ends with it.                                  *)
ConnHook(c) ==
  c \in Owners =>
    /\ commands[<<c, "connect">>].at # "panic"
    /\ connAt[c] # "gone" => ~commands[<<c, "connect">>].closed

(* The hook of a reader runs while it plays.                               *)
ReadHook(c) ==
  c \in Owners =>
    /\ commands[<<c, "read">>].at # "panic"
    /\ commands[<<c, "read">>].at # "none" =>
         /\ hookConf.hook = "read" /\ hookConf.run
         /\ Ended(c) \/ state[c] # "Play" => commands[<<c, "read">>].closed
    /\ ~Ended(c) /\ state[c] = "Play" /\ hookConf.hook = "read" /\ hookConf.run =>
         ~commands[<<c, "read">>].closed

(* What the path knows of the session.                                     *)
PathHasIt(c) ==
  /\ c \notin crashed
  /\ Left(c) => c \notin listed
  /\ ~Left(c) => /\ c \in listed => state[c] \in WithPath
                 /\ state[c] \in WithPath => c \in hasPath

Undisturbed(c) ==
  c \notin raced =>
    /\ api[c] # "no" => at[c] \notin Handlers
    /\ ReadHook(c) /\ PathHasIt(c)

Sound(c) == Turns(c) /\ ConnHook(c) /\ Undisturbed(c)

Inv == TypeOK /\ \A c \in Clients : Sound(c)

(* What is shown of the property: a session that is over has been left.    *)
LEMMA InvIsEnough == Inv => SessionsReleased
<1> SUFFICES ASSUME Inv, NEW c \in Clients \ raced
             PROVE  /\ at[c] = "gone" /\ api[c] \in {"no", "done"} =>
                         /\ c \notin listed
                         /\ c \in Owners /\ commands[<<c, "read">>].at # "none" =>
                              commands[<<c, "read">>].closed
                    /\ c \notin crashed
                    /\ c \in Owners => \A kind \in {"connect", "read"} : commands[<<c, kind>>].at # "panic"
  BY DEF SessionsReleased
<1>1. ConnHook(c) /\ ReadHook(c) /\ PathHasIt(c)
  BY DEF Inv, Sound, Undisturbed
<1> QED
  BY <1>1 DEF ConnHook, ReadHook, PathHasIt, Ended, Left

-----------------------------------------------------------------------------
(* The hooks.                                                              *)

Table == [CommandIds -> [at : CommandSteps, restart : BOOLEAN, closed : BOOLEAN]]
Runs(hook) == hookConf.hook = hook /\ hookConf.run

(* Begin starts the command of the hook, and nothing else;                 *)
LEMMA BeginFacts ==
  ASSUME CommandsTypeOK, NEW o, NEW hook \in Hooks
  PROVE  /\ Begin(commands, o, hook) \in Table
         /\ \A id \in CommandIds : id # <<o, hook>> => Begin(commands, o, hook)[id] = commands[id]
         /\ o \in Owners /\ Runs(hook) =>
              /\ Begin(commands, o, hook)[<<o, hook>>].at = "starting"
              /\ ~Begin(commands, o, hook)[<<o, hook>>].closed
         /\ ~Runs(hook) => Begin(commands, o, hook) = commands
<1>1. commands \in Table /\ hookConf.restart \in BOOLEAN
  BY DEF CommandsTypeOK, HookConfs, Table
<1>2. CASE Runs(hook) /\ o \in Owners
  <2>1. <<o, hook>> \in CommandIds
    BY <1>2 DEF CommandIds, Hooks
  <2>2. Begin(commands, o, hook) =
          [commands EXCEPT ![<<o, hook>>] = [at |-> "starting", restart |-> hookConf.restart, closed |-> FALSE]]
    BY <1>2 DEF Begin, NewCmd, Runs
  <2> QED
    BY <1>1, <1>2, <2>1, <2>2 DEF Table, CommandSteps
<1>3. CASE ~(Runs(hook) /\ o \in Owners)
  BY <1>1, <1>3 DEF Begin, Runs
<1> QED
  BY <1>2, <1>3

(* its end closes that command and may start the one that comes after.     *)
LEMMA EndFacts ==
  ASSUME CommandsTypeOK, NEW o, NEW hook \in Hooks
  PROVE  /\ End(commands, o, hook) \in Table
         /\ \A id \in CommandIds : id \notin {<<o, hook>>, <<o, Over[hook]>>} =>
              End(commands, o, hook)[id] = commands[id]
         /\ o \in Owners /\ Runs(hook) =>
              /\ End(commands, o, hook)[<<o, hook>>].closed
              /\ ~commands[<<o, hook>>].closed =>
                   End(commands, o, hook)[<<o, hook>>].at = commands[<<o, hook>>].at
         /\ o \in Owners /\ ~Runs(hook) =>
              End(commands, o, hook)[<<o, hook>>] = commands[<<o, hook>>]
<1> DEFINE over == <<o, Over[hook]>>
           stopped == IF Runs(hook) /\ o \in Owners THEN Close(commands, <<o, hook>>) ELSE commands
<1>1. commands \in Table
  BY DEF CommandsTypeOK, Table
<1>2. over # <<o, hook>> /\ (o \in Owners => {over, <<o, hook>>} \subseteq CommandIds)
  BY DEF CommandIds, Hooks, Over
<1>3. /\ stopped \in Table
      /\ \A id \in CommandIds : id # <<o, hook>> => stopped[id] = commands[id]
      /\ o \in Owners /\ Runs(hook) =>
           /\ stopped[<<o, hook>>].closed
           /\ ~commands[<<o, hook>>].closed => stopped[<<o, hook>>].at = commands[<<o, hook>>].at
      /\ ~Runs(hook) => stopped = commands
  <2>1. CASE Runs(hook) /\ o \in Owners /\ commands[<<o, hook>>].closed
    <3>1. stopped = [commands EXCEPT ![<<o, hook>>].at = "panic"]
      BY <2>1 DEF Close
    <3> QED
      BY <1>1, <1>2, <2>1, <3>1 DEF Table, CommandSteps
  <2>2. CASE Runs(hook) /\ o \in Owners /\ ~commands[<<o, hook>>].closed
    <3>1. stopped = [commands EXCEPT ![<<o, hook>>].closed = TRUE]
      BY <2>2 DEF Close
    <3> QED
      BY <1>1, <1>2, <2>2, <3>1 DEF Table
  <2>3. CASE ~(Runs(hook) /\ o \in Owners)
    BY <1>1, <2>3
  <2> QED
    BY <2>1, <2>2, <2>3
<1>4. End(commands, o, hook) =
        IF hookConf.hook = hook /\ hookConf.runOver /\ o \in Owners
        THEN [stopped EXCEPT ![over] = [at |-> "starting", restart |-> FALSE, closed |-> FALSE]]
        ELSE stopped
  BY DEF End, NewCmd, Runs
<1> HIDE DEF stopped, over
<1>5. /\ End(commands, o, hook) \in Table
      /\ \A id \in CommandIds : id # over => End(commands, o, hook)[id] = stopped[id]
  BY <1>2, <1>3, <1>4 DEF Table, CommandSteps
<1> QED
  BY <1>2, <1>3, <1>5 DEF over

(* A command that goes on is not closed by that, nor forgotten.            *)
LEMMA CommandStepFacts ==
  ASSUME CommandsTypeOK, NEW id \in CommandIds, CommandStep(id)
  PROVE  /\ hookConf' = hookConf /\ commands' \in Table
         /\ \A i \in CommandIds :
              /\ commands'[i].closed = commands[i].closed
              /\ commands'[i].at = "none" <=> commands[i].at = "none"
              /\ commands'[i].at = "panic" <=> commands[i].at = "panic"
<1>1. PICK to \in CommandSteps \ {"none", "panic"} :
        /\ commands[id].at \notin {"none", "panic"}
        /\ commands' = [commands EXCEPT ![id].at = to] /\ hookConf' = hookConf
  BY DEF CommandStep, Starts, CannotStart, Exits, Terminated, PauseOver, PauseTerminated, Moves, Again,
         CommandSteps
<1>2. commands \in Table
  BY DEF CommandsTypeOK, Table
<1> QED
  BY <1>1, <1>2 DEF Table

(* The tables of commands of Begin, End and CommandStep are well typed.    *)
LEMMA TableTypes ==
  ASSUME CommandsTypeOK, hookConf' = hookConf, commands' \in Table
  PROVE  CommandsTypeOK'
  BY DEF CommandsTypeOK, Table

-----------------------------------------------------------------------------
(* What one client does makes no difference to the others.                 *)

HooksAside(q) ==
  q \in Owners => \A h \in Hooks :
    /\ commands'[<<q, h>>].closed = commands[<<q, h>>].closed
    /\ commands'[<<q, h>>].at = "none" <=> commands[<<q, h>>].at = "none"
    /\ commands'[<<q, h>>].at = "panic" <=> commands[<<q, h>>].at = "panic"

Aside(q) ==
  /\ at'[q] = at[q] /\ api'[q] = api[q] /\ state'[q] = state[q] /\ connAt'[q] = connAt[q]
  /\ q \in table' <=> q \in table
  /\ q \in raced' <=> q \in raced
  /\ q \in hasPath' <=> q \in hasPath
  /\ q \in listed' => q \in listed
  /\ q \in crashed' => q \in crashed
  /\ HooksAside(q) /\ hookConf' = hookConf

LEMMA AsideStays ==
  ASSUME NEW q, Sound(q), Aside(q)
  PROVE  Sound(q)'
<1>1. Turns(q)'
  BY DEF Aside, Sound, Turns
<1>2. ConnHook(q)'
  BY DEF Aside, HooksAside, Hooks, Sound, ConnHook
<1>3. Undisturbed(q)'
  <2>1. (Ended(q)' <=> Ended(q)) /\ (Left(q)' <=> Left(q))
    BY DEF Aside, Ended, Left
  <2>2. ReadHook(q) => ReadHook(q)'
    BY <2>1 DEF Aside, HooksAside, Hooks, ReadHook
  <2>3. PathHasIt(q) => PathHasIt(q)'
    BY <2>1 DEF Aside, PathHasIt
  <2> QED
    BY <2>2, <2>3 DEF Aside, Sound, Undisturbed
<1> QED
  BY <1>1, <1>2, <1>3 DEF Sound

(* So only the client that moves is to be looked at.                       *)
LEMMA OneClient ==
  ASSUME Inv, TypeOK', NEW c, \A q \in Clients \ {c} : Aside(q), Sound(c)'
  PROVE  Inv'
<1>1. \A q \in Clients \ {c} : Sound(q)'
  BY AsideStays DEF Inv
<1> QED
  BY <1>1 DEF Inv

(* A step without hooks leaves every hook aside.                           *)
LEMMA HooksRest ==
  ASSUME UNCHANGED commandVars
  PROVE  hookConf' = hookConf /\ \A q : HooksAside(q)
  BY DEF commandVars, HooksAside

(* The library tells of connections: onConnOpen begins the hook of one ... *)
LEMMA OnConnOpenStays ==
  ASSUME Inv, NEW c \in Clients, OnConnOpen(c)
  PROVE  Inv'
<1>1. /\ connAt[c] = "none" /\ connAt' = [connAt EXCEPT ![c] = "open"] /\ conns' = conns \cup {c}
      /\ commands' = Begin(commands, c, "connect")
      /\ UNCHANGED <<serverVars, table, sessionVars, api, raced, listed, hookConf>>
  BY DEF OnConnOpen
<1>2. TypeOK /\ CommandsTypeOK /\ "connect" \in Hooks /\ Sound(c)
  BY DEF Inv, TypeOK, Hooks
<1>3. /\ commands' \in Table
      /\ \A id \in CommandIds : id # <<c, "connect">> => commands'[id] = commands[id]
      /\ c \in Owners /\ Runs("connect") =>
           commands'[<<c, "connect">>].at = "starting" /\ ~commands'[<<c, "connect">>].closed
      /\ ~Runs("connect") => commands' = commands
  BY <1>1, <1>2, BeginFacts
<1>4. TypeOK'
  <2>1. CommandsTypeOK'
    BY <1>1, <1>2, <1>3, TableTypes
  <2> QED
    BY <1>1, <1>2, <2>1 DEF TypeOK, serverVars, sessionVars, ConnPlaces
<1>5. \A q \in Clients \ {c} : Aside(q)
  <2>1. \A q \in Clients \ {c} : HooksAside(q)
    BY <1>3 DEF HooksAside, Hooks, CommandIds
  <2> QED
    BY <1>1, <1>2, <2>1 DEF Aside, TypeOK, sessionVars
<1>6. Sound(c)'
  <2>1. Turns(c)' /\ (Ended(c)' <=> Ended(c)) /\ (Left(c)' <=> Left(c))
    BY <1>1, <1>2 DEF Sound, Turns, Ended, Left, sessionVars
  <2>2. ConnHook(c)'
    BY <1>1, <1>2, <1>3 DEF Sound, ConnHook
  <2>3. c \in Owners => commands'[<<c, "read">>] = commands[<<c, "read">>]
    BY <1>3 DEF CommandIds
  <2>4. Undisturbed(c)'
    BY <1>1, <1>2, <2>1, <2>3 DEF Sound, Undisturbed, ReadHook, PathHasIt, sessionVars
  <2> QED
    BY <2>1, <2>2, <2>4 DEF Sound
<1> QED
  BY <1>4, <1>5, <1>6, OneClient

(* ... and OnDisconnect ends it.                                           *)
LEMMA OnDisconnectStays ==
  ASSUME Inv, NEW c \in Clients, OnDisconnect(c)
  PROVE  Inv'
<1>1. /\ connAt[c] = "onClose" /\ connAt' = [connAt EXCEPT ![c] = "gone"]
      /\ commands' = End(commands, c, "connect")
      /\ UNCHANGED <<serverVars, conns, table, sessionVars, api, raced, listed, hookConf>>
  BY DEF OnDisconnect
<1>2. TypeOK /\ CommandsTypeOK /\ "connect" \in Hooks /\ Sound(c) /\ Over["connect"] = "disconnect"
  BY DEF Inv, TypeOK, Hooks, Over
<1>3. /\ commands' \in Table
      /\ \A id \in CommandIds :
           id \notin {<<c, "connect">>, <<c, "disconnect">>} => commands'[id] = commands[id]
      /\ c \in Owners /\ Runs("connect") /\ ~commands[<<c, "connect">>].closed =>
           commands'[<<c, "connect">>].at = commands[<<c, "connect">>].at
      /\ c \in Owners /\ ~Runs("connect") =>
           commands'[<<c, "connect">>] = commands[<<c, "connect">>]
  BY <1>1, <1>2, EndFacts
<1>4. TypeOK'
  <2>1. CommandsTypeOK'
    BY <1>1, <1>2, <1>3, TableTypes
  <2> QED
    BY <1>1, <1>2, <2>1 DEF TypeOK, serverVars, sessionVars, ConnPlaces
<1>5. \A q \in Clients \ {c} : Aside(q)
  <2>1. \A q \in Clients \ {c} : HooksAside(q)
    BY <1>3 DEF HooksAside, Hooks, CommandIds
  <2> QED
    BY <1>1, <1>2, <2>1 DEF Aside, TypeOK, sessionVars
<1>6. Sound(c)'
  <2>1. Turns(c)' /\ (Ended(c)' <=> Ended(c)) /\ (Left(c)' <=> Left(c))
    BY <1>1, <1>2 DEF Sound, Turns, Ended, Left, sessionVars
  <2>2. ConnHook(c)'
    BY <1>1, <1>2, <1>3 DEF Sound, ConnHook, TypeOK
  <2>3. c \in Owners => commands'[<<c, "read">>] = commands[<<c, "read">>]
    BY <1>3 DEF CommandIds
  <2>4. Undisturbed(c)'
    BY <1>1, <1>2, <2>1, <2>3 DEF Sound, Undisturbed, ReadHook, PathHasIt, sessionVars
  <2> QED
    BY <2>1, <2>2, <2>4 DEF Sound
<1> QED
  BY <1>4, <1>5, <1>6, OneClient

(* In between a connection may wait for the path, or be closed.            *)
LEMMA ConnRestStays ==
  ASSUME Inv, NEW c \in Clients, OnDescribe(c) \/ DescribeAnswered(c) \/ OnConnClose(c)
  PROVE  Inv'
<1>1. PICK to \in {"onDescribe", "open", "onClose"} :
        connAt[c] # "gone" /\ connAt' = [connAt EXCEPT ![c] = to]
  BY DEF OnDescribe, DescribeAnswered, OnConnClose
<1>2. /\ conns' \in {conns, conns \ {c}} /\ cancelled' \in {cancelled, cancelled \cup {c}}
      /\ UNCHANGED <<serverVars, table, at, state, hasPath, crashed, api, raced, listed, commandVars>>
  BY DEF OnDescribe, DescribeAnswered, OnConnClose, sessionVars
<1>3. TypeOK /\ CommandsTypeOK'
  BY <1>2 DEF Inv, TypeOK, CommandsTypeOK, commandVars
<1>4. TypeOK'
  BY <1>1, <1>2, <1>3 DEF TypeOK, serverVars, commandVars, ConnPlaces
<1>5. \A q \in Clients \ {c} : Aside(q)
  BY <1>1, <1>2, <1>3, HooksRest DEF Aside, TypeOK
<1>6. Sound(c)'
  BY <1>1, <1>2, <1>3 DEF Inv, Sound, Turns, ConnHook, Undisturbed, ReadHook, PathHasIt, Ended, Left,
                          commandVars, TypeOK
<1> QED
  BY <1>4, <1>5, <1>6, OneClient

-----------------------------------------------------------------------------
(* A session moves by itself: no hook takes part.                          *)

Alone(c) ==
  /\ \A q \in Clients \ {c} :
       at'[q] = at[q] /\ api'[q] = api[q] /\ state'[q] = state[q]
  /\ table' \ {c} = table \ {c} /\ raced' \ {c} = raced \ {c}
  /\ hasPath' \ {c} = hasPath \ {c} /\ listed' \subseteq listed \cup {c}
  /\ crashed' \subseteq crashed \cup {c}
  /\ connAt' = connAt

LEMMA AloneStays ==
  ASSUME Inv, NEW c \in Clients, Alone(c), UNCHANGED commandVars, TypeOK', Turns(c)', Undisturbed(c)'
  PROVE  Inv'
<1>1. \A q \in Clients \ {c} : Aside(q)
  BY HooksRest DEF Alone, Aside
<1>2. ConnHook(c)'
  BY DEF Inv, Sound, ConnHook, Alone, commandVars
<1> QED
  BY <1>1, <1>2, OneClient DEF Sound

(* A session that is out of the way of its release is as it was.           *)
LEMMA OnSessionOpenStays ==
  ASSUME Inv, NEW c \in Clients, OnSessionOpen(c)
  PROVE  Inv'
<1>1. /\ at[c] = "none" /\ at' = [at EXCEPT ![c] = "idle"] /\ table' = table \cup {c}
      /\ UNCHANGED <<serverVars, conns, connAt, state, cancelled, hasPath, crashed, api, raced, listed>>
      /\ UNCHANGED commandVars
  BY DEF OnSessionOpen
<1>2. TypeOK /\ Turns(c) /\ Undisturbed(c)
  BY DEF Inv, Sound
<1>3. TypeOK'
  BY <1>1, <1>2 DEF TypeOK, CommandsTypeOK, serverVars, commandVars, Places
<1>4. Turns(c)'
  BY <1>1, <1>2 DEF Turns, TypeOK, Handlers
<1>5. Undisturbed(c)'
  <2>1. ~Ended(c)' /\ ~Ended(c) /\ ~Left(c)' /\ ~Left(c) /\ api'[c] = "no"
    BY <1>1, <1>2 DEF Turns, TypeOK, Ended, Left
  <2> QED
    BY <1>1, <1>2, <2>1 DEF Undisturbed, ReadHook, PathHasIt, commandVars
<1> QED
  BY <1>1, <1>2, <1>3, <1>4, <1>5, AloneStays DEF Alone, TypeOK

(* A handler starts; if the API is at work on the session, they race.      *)
LEMMA CallsStays ==
  ASSUME Inv, NEW c \in Clients, OnAnnounce(c) \/ OnSetup(c) \/ OnRecord(c)
  PROVE  Inv'
<1>1. PICK h \in Handlers :
        /\ at[c] = "idle" /\ at' = [at EXCEPT ![c] = h]
        /\ h = "onAnnounce" => state[c] = "Initial"
        /\ h = "onSetup" => state[c] \in {"Initial", "PrePlay"}
        /\ h = "onRecord" => state[c] = "PreRecord"
        /\ Race(c)
  BY DEF OnAnnounce, OnSetup, OnRecord, Calls, Handlers
<1>2. /\ UNCHANGED <<serverVars, conns, table, connAt, state, cancelled, hasPath, crashed, api, listed>>
      /\ UNCHANGED commandVars
  BY DEF OnAnnounce, OnSetup, OnRecord, Calls
<1>3. TypeOK /\ Turns(c) /\ Undisturbed(c)
  BY DEF Inv, Sound
<1>4. TypeOK'
  BY <1>1, <1>2, <1>3 DEF TypeOK, CommandsTypeOK, serverVars, commandVars, Places, Race
<1>5. Turns(c)'
  BY <1>1, <1>2, <1>3 DEF Turns, TypeOK, Handlers
<1>6. Undisturbed(c)'
  <2> SUFFICES ASSUME c \notin raced' PROVE Undisturbed(c)'
    BY DEF Undisturbed
  <2>1. api[c] = "no" /\ c \notin raced
    BY <1>1 DEF Race
  <2>2. ~Ended(c)' /\ ~Ended(c) /\ ~Left(c)' /\ ~Left(c) /\ api'[c] = "no"
    BY <1>1, <1>2, <1>3, <2>1 DEF TypeOK, Ended, Left, Handlers
  <2> QED
    BY <1>1, <1>2, <1>3, <2>1, <2>2 DEF Undisturbed, ReadHook, PathHasIt, commandVars
<1> QED
  BY <1>1, <1>2, <1>3, <1>4, <1>5, <1>6, AloneStays DEF Alone, TypeOK, Race

(* A handler that was not raced with returns to a session that is there.   *)
LEMMA AnswerFacts ==
  ASSUME Inv, NEW c \in Clients, NEW h \in Handlers, NEW next \in States, Answers(c, h, next)
  PROVE  /\ at[c] = h /\ at' = [at EXCEPT ![c] = "idle"]
         /\ state' \in [Clients -> States] /\ (state' = state \/ state'[c] = next)
         /\ \A q \in Clients \ {c} : state'[q] = state[q]
         /\ UNCHANGED <<serverVars, conns, table, connAt, crashed, api, raced, commandVars>>
         /\ c \notin raced =>
              /\ api[c] = "no" /\ ~Ended(c) /\ ~Left(c) /\ ~Ended(c)' /\ ~Left(c)'
              /\ ReadHook(c) /\ PathHasIt(c)
<1>1. TypeOK /\ Undisturbed(c)
  BY DEF Inv, Sound
<1>2. /\ at[c] = h /\ at' = [at EXCEPT ![c] = "idle"]
      /\ state' = [state EXCEPT ![c] = next] \/ state' = state
      /\ UNCHANGED <<serverVars, conns, table, connAt, crashed, api, raced, commandVars>>
  BY DEF Answers
<1>3. at'[c] = "idle" /\ api'[c] = api[c]
  BY <1>1, <1>2 DEF TypeOK
<1>4. c \notin raced =>
        /\ api[c] = "no" /\ ~Ended(c) /\ ~Left(c) /\ ~Ended(c)' /\ ~Left(c)'
        /\ ReadHook(c) /\ PathHasIt(c)
  BY <1>1, <1>2, <1>3 DEF Undisturbed, Ended, Left, Handlers
<1> QED
  BY <1>1, <1>2, <1>4 DEF TypeOK

LEMMA AnswersStay ==
  ASSUME Inv, NEW c \in Clients, AnnounceAnswered(c) \/ SetupAnswered(c) \/ RecordAnswered(c)
  PROVE  Inv'
<1>1. TypeOK /\ Turns(c)
  BY DEF Inv, Sound
<1>2. PICK h \in Handlers, next \in States :
        /\ Answers(c, h, next)
        /\ \/ /\ UNCHANGED <<cancelled, hasPath, listed>>
              /\ state' = state \/ (h = "onAnnounce" /\ next = "PreRecord")
           \/ /\ state'[c] \in {"PrePlay", "Record"}
              /\ \E displaced \in SUBSET Clients : Accepted(c, displaced)
  <2>1. ASSUME AnnounceAnswered(c)
        PROVE  /\ Answers(c, "onAnnounce", "PreRecord")
               /\ UNCHANGED <<cancelled, hasPath, listed>>
    BY <2>1 DEF AnnounceAnswered
  <2>2. CASE SetupAnswered(c)
    BY <2>2 DEF SetupAnswered, Handlers, States
  <2>3. CASE RecordAnswered(c)
    <3>1. Publishers \subseteq Clients
      BY <1>1 DEF Publishers, TypeOK
    <3> QED
      BY <2>3, <3>1 DEF RecordAnswered, Handlers, States
  <2> QED
    BY <2>1, <2>2, <2>3 DEF Handlers, States
<1>3. /\ at[c] = h /\ at' = [at EXCEPT ![c] = "idle"]
      /\ state' \in [Clients -> States] /\ (state' = state \/ state'[c] = next)
      /\ \A q \in Clients \ {c} : state'[q] = state[q]
      /\ UNCHANGED <<serverVars, conns, table, connAt, crashed, api, raced, commandVars>>
      /\ c \notin raced =>
           /\ api[c] = "no" /\ ~Ended(c) /\ ~Left(c) /\ ~Ended(c)' /\ ~Left(c)'
           /\ ReadHook(c) /\ PathHasIt(c)
  BY <1>2, AnswerFacts
<1>4. /\ cancelled' \subseteq Clients /\ hasPath' \subseteq Clients /\ listed' \subseteq Clients
      /\ hasPath' \ {c} = hasPath \ {c} /\ listed' \subseteq listed \cup {c}
  BY <1>1, <1>2 DEF Accepted, TypeOK
<1>5. TypeOK'
  BY <1>1, <1>3, <1>4 DEF TypeOK, CommandsTypeOK, serverVars, commandVars, Places
<1>6. Turns(c)'
  BY <1>1, <1>3 DEF Turns, TypeOK, Handlers
<1>7. Undisturbed(c)'
  <2> SUFFICES ASSUME c \notin raced' PROVE ReadHook(c)' /\ PathHasIt(c)' /\ api'[c] = "no"
    BY DEF Undisturbed
  <2>1. c \notin raced /\ api'[c] = "no"
    BY <1>3
  <2>2. CASE state'[c] = state[c] /\ UNCHANGED <<hasPath, listed>>
    BY <1>3, <2>1, <2>2 DEF ReadHook, PathHasIt, commandVars
  <2>3. CASE state'[c] = "PreRecord" /\ h = "onAnnounce" /\ UNCHANGED <<hasPath, listed>>
    <3>1. state[c] = "Initial"
      BY <1>1, <1>3, <2>3 DEF Turns
    <3> QED
      BY <1>3, <2>1, <2>3, <3>1 DEF ReadHook, PathHasIt, commandVars, WithPath
  <2>4. CASE state'[c] \in {"PrePlay", "Record"} /\ c \in hasPath'
    <3>1. state[c] # "Play"
      BY <1>1, <1>3 DEF Turns, Handlers
    <3> QED
      BY <1>3, <2>1, <2>4, <3>1 DEF ReadHook, PathHasIt, commandVars, WithPath
  <2> QED
    BY <1>2, <1>3, <2>1, <2>2, <2>3, <2>4 DEF Accepted
<1> QED
  BY <1>1, <1>3, <1>4, <1>5, <1>6, <1>7, AloneStays DEF Alone, TypeOK

-----------------------------------------------------------------------------
(* A reader plays, and its hook begins, or it pauses, and its hook ends.   *)

(* Only the hook of readers moves, that of c.                              *)
ReadHooksOf(c) ==
  /\ hookConf' = hookConf /\ commands' \in Table
  /\ \A id \in CommandIds : id \notin {<<c, "read">>, <<c, "unread">>} => commands'[id] = commands[id]

LEMMA ReaderStays ==
  ASSUME Inv, NEW c \in Clients, Alone(c), ReadHooksOf(c), TypeOK', Turns(c)', Undisturbed(c)'
  PROVE  Inv'
<1>1. \A q \in Clients \ {c} : HooksAside(q)
  BY DEF ReadHooksOf, HooksAside, CommandIds, Hooks
<1>2. \A q \in Clients \ {c} : Aside(q)
  BY <1>1 DEF Alone, Aside, ReadHooksOf
<1>3. c \in Owners => commands'[<<c, "connect">>] = commands[<<c, "connect">>]
  BY DEF ReadHooksOf, CommandIds
<1>4. ConnHook(c)'
  BY <1>3 DEF Inv, Sound, ConnHook, Alone
<1> QED
  BY <1>2, <1>4, OneClient DEF Sound

(* The hooks of readers, begun,                                            *)
LEMMA ReadBegins ==
  ASSUME CommandsTypeOK, NEW c, hookConf' = hookConf, commands' = Begin(commands, c, "read")
  PROVE  /\ ReadHooksOf(c)
         /\ c \in Owners /\ Runs("read") =>
              commands'[<<c, "read">>].at = "starting" /\ ~commands'[<<c, "read">>].closed
         /\ ~Runs("read") => commands' = commands
<1>1. "read" \in Hooks
  BY DEF Hooks
<1> QED
  BY <1>1, BeginFacts DEF ReadHooksOf

(* and ended.                                                              *)
LEMMA ReadEnds ==
  ASSUME CommandsTypeOK, NEW c, hookConf' = hookConf, commands' = End(commands, c, "read")
  PROVE  /\ ReadHooksOf(c)
         /\ c \in Owners /\ Runs("read") =>
              /\ commands'[<<c, "read">>].closed
              /\ ~commands[<<c, "read">>].closed =>
                   commands'[<<c, "read">>].at = commands[<<c, "read">>].at
         /\ c \in Owners /\ ~Runs("read") => commands'[<<c, "read">>] = commands[<<c, "read">>]
<1>1. "read" \in Hooks /\ Over["read"] = "unread"
  BY DEF Hooks, Over
<1> QED
  BY <1>1, EndFacts DEF ReadHooksOf

(* The hook of a reader that played and does so no more is as it should be.*)
LEMMA EndedReadHook ==
  ASSUME CommandsTypeOK, NEW c, ReadHook(c), ~Ended(c), state[c] = "Play",
         hookConf' = hookConf, commands' = End(commands, c, "read"),
         Ended(c)' \/ state'[c] # "Play"
  PROVE  ReadHook(c)'
<1> SUFFICES ASSUME c \in Owners PROVE ReadHook(c)'
  BY DEF ReadHook
<1>1. CASE Runs("read")
  <2>1. /\ commands'[<<c, "read">>].closed
        /\ commands'[<<c, "read">>].at # "panic"
    BY <1>1, ReadEnds DEF ReadHook, Runs
  <2> QED
    BY <1>1, <2>1 DEF ReadHook, Runs
<1>2. CASE ~Runs("read")
  <2>1. commands'[<<c, "read">>] = commands[<<c, "read">>]
    BY <1>2, ReadEnds
  <2>2. commands[<<c, "read">>].at = "none"
    BY <1>2 DEF ReadHook, Runs
  <2> QED
    BY <2>1, <2>2 DEF ReadHook
<1> QED
  BY <1>1, <1>2

LEMMA OnPlayStays ==
  ASSUME Inv, NEW c \in Clients, OnPlay(c)
  PROVE  Inv'
<1>1. TypeOK /\ CommandsTypeOK /\ Turns(c) /\ Undisturbed(c)
  BY DEF Inv, Sound, TypeOK
<1>2. /\ at[c] = "idle" /\ state[c] = "PrePlay" /\ Race(c)
      /\ UNCHANGED <<serverVars, conns, table, connAt, at, cancelled, hasPath, api, listed, hookConf>>
  BY DEF OnPlay
<1>3. c \notin raced' =>
        /\ c \notin raced /\ api[c] = "no" /\ ReadHook(c) /\ PathHasIt(c)
        /\ ~Ended(c) /\ ~Ended(c)' /\ ~Left(c) /\ ~Left(c)'
  BY <1>1, <1>2 DEF Race, Undisturbed, Ended, Left
<1>4. CASE c \in hasPath
  <2>1. /\ commands' = Begin(commands, c, "read") /\ state' = [state EXCEPT ![c] = "Play"]
        /\ UNCHANGED crashed
    BY <1>4 DEF OnPlay
  <2>2. /\ ReadHooksOf(c)
        /\ c \in Owners /\ Runs("read") =>
             commands'[<<c, "read">>].at = "starting" /\ ~commands'[<<c, "read">>].closed
        /\ ~Runs("read") => commands' = commands
    BY <1>1, <1>2, <2>1, ReadBegins
  <2>3. TypeOK'
    <3>1. CommandsTypeOK'
      BY <1>1, <2>2, TableTypes DEF ReadHooksOf
    <3> QED
      BY <1>1, <1>2, <2>1, <3>1 DEF TypeOK, serverVars, States, Race
  <2>4. Turns(c)'
    BY <1>1, <1>2, <2>1 DEF Turns, TypeOK, Handlers
  <2>5. Undisturbed(c)'
    <3> SUFFICES ASSUME c \notin raced' PROVE ReadHook(c)' /\ PathHasIt(c)'
      BY <1>2, <1>3 DEF Undisturbed
    <3>1. state'[c] = "Play"
      BY <1>1, <2>1 DEF TypeOK
    <3>2. PathHasIt(c)'
      BY <1>2, <1>3, <1>4, <2>1, <3>1 DEF PathHasIt, WithPath
    <3>3. ReadHook(c)'
      BY <1>2, <1>3, <2>2, <3>1 DEF ReadHook, Runs
    <3> QED
      BY <3>2, <3>3
  <2> QED
    BY <1>1, <1>2, <2>1, <2>2, <2>3, <2>4, <2>5, ReaderStays DEF Alone, TypeOK, Race
<1>5. CASE c \notin hasPath
  <2>1. crashed' = crashed \cup {c} /\ UNCHANGED <<commands, state>>
    BY <1>5 DEF OnPlay
  <2>2. c \in raced'
    BY <1>2, <1>3, <1>5 DEF PathHasIt, WithPath
  <2>3. TypeOK'
    BY <1>1, <1>2, <2>1 DEF TypeOK, CommandsTypeOK, serverVars, Race
  <2>4. Turns(c)' /\ Undisturbed(c)'
    BY <1>1, <1>2, <2>1, <2>2 DEF Turns, Undisturbed
  <2> QED
    BY <1>1, <1>2, <2>1, <2>3, <2>4, AloneStays DEF Alone, TypeOK, Race, commandVars
<1> QED
  BY <1>4, <1>5

LEMMA OnPauseStays ==
  ASSUME Inv, NEW c \in Clients, OnPause(c)
  PROVE  Inv'
<1>1. TypeOK /\ CommandsTypeOK /\ Turns(c) /\ Undisturbed(c)
  BY DEF Inv, Sound, TypeOK
<1>2. /\ at[c] = "idle" /\ Race(c)
      /\ UNCHANGED <<serverVars, conns, table, connAt, at, cancelled, hasPath, api, hookConf>>
  BY DEF OnPause
<1>3. c \notin raced' =>
        /\ c \notin raced /\ api[c] = "no" /\ ReadHook(c) /\ PathHasIt(c)
        /\ ~Ended(c) /\ ~Ended(c)' /\ ~Left(c) /\ ~Left(c)'
  BY <1>1, <1>2 DEF Race, Undisturbed, Ended, Left
<1>4. ASSUME state[c] = "Play", commands' = End(commands, c, "read"),
             state' = [state EXCEPT ![c] = "PrePlay"], UNCHANGED <<listed, crashed>>
      PROVE  Inv'
  <2>1. ReadHooksOf(c)
    BY <1>1, <1>2, <1>4, ReadEnds
  <2>2. TypeOK'
    <3>1. CommandsTypeOK'
      BY <1>1, <2>1, TableTypes DEF ReadHooksOf
    <3> QED
      BY <1>1, <1>2, <1>4, <3>1 DEF TypeOK, serverVars, States, Race
  <2>3. Turns(c)'
    BY <1>1, <1>2, <1>4 DEF Turns, TypeOK, Handlers
  <2>4. Undisturbed(c)'
    <3> SUFFICES ASSUME c \notin raced' PROVE ReadHook(c)' /\ PathHasIt(c)'
      BY <1>2, <1>3 DEF Undisturbed
    <3>1. state'[c] = "PrePlay"
      BY <1>1, <1>4 DEF TypeOK
    <3>2. PathHasIt(c)'
      BY <1>2, <1>3, <1>4, <3>1 DEF PathHasIt, WithPath
    <3>3. ReadHook(c)'
      BY <1>1, <1>2, <1>3, <1>4, <3>1, EndedReadHook
    <3> QED
      BY <3>2, <3>3
  <2> QED
    BY <1>1, <1>2, <1>4, <2>1, <2>2, <2>3, <2>4, ReaderStays DEF Alone, TypeOK, Race
<1>5. ASSUME state[c] = "Record", listed' = listed \ {c}, state' = [state EXCEPT ![c] = "PreRecord"],
             crashed' = IF c \in hasPath THEN crashed ELSE crashed \cup {c}, UNCHANGED commands
      PROVE  Inv'
  <2>1. TypeOK'
    BY <1>1, <1>2, <1>5 DEF TypeOK, CommandsTypeOK, serverVars, States, Race
  <2>2. Turns(c)'
    BY <1>1, <1>2, <1>5 DEF Turns, TypeOK, Handlers
  <2>3. Undisturbed(c)'
    <3> SUFFICES ASSUME c \notin raced' PROVE ReadHook(c)' /\ PathHasIt(c)'
      BY <1>2, <1>3 DEF Undisturbed
    <3>1. state'[c] = "PreRecord"
      BY <1>1, <1>5 DEF TypeOK
    <3>2. PathHasIt(c)' /\ ReadHook(c)'
      BY <1>2, <1>3, <1>5, <3>1 DEF PathHasIt, ReadHook, WithPath
    <3> QED
      BY <3>2
  <2> QED
    BY <1>1, <1>2, <1>5, <2>1, <2>2, <2>3, AloneStays DEF Alone, TypeOK, Race, commandVars
<1> QED
  BY <1>4, <1>5 DEF OnPause

-----------------------------------------------------------------------------
(* A session ends, and whoever takes it out of the table releases it.      *)

LEMMA SessionEndsStays ==
  ASSUME Inv, NEW c \in Clients, SessionEnds(c)
  PROVE  Inv'
<1>1. TypeOK /\ Turns(c) /\ Undisturbed(c)
  BY DEF Inv, Sound
<1>2. /\ at[c] = "idle" /\ at' = [at EXCEPT ![c] = "delete"]
      /\ UNCHANGED <<serverVars, conns, table, connAt, state, cancelled, hasPath, crashed, api, raced, listed>>
      /\ UNCHANGED commandVars
  BY DEF SessionEnds
<1>3. TypeOK'
  BY <1>1, <1>2 DEF TypeOK, CommandsTypeOK, serverVars, commandVars, Places
<1>4. Turns(c)'
  BY <1>1, <1>2 DEF Turns, TypeOK, Handlers
<1>5. Undisturbed(c)'
  <2>1. (Ended(c)' <=> Ended(c)) /\ (Left(c)' <=> Left(c))
    BY <1>1, <1>2 DEF TypeOK, Ended, Left
  <2> QED
    BY <1>1, <1>2, <2>1 DEF Undisturbed, ReadHook, PathHasIt, commandVars, TypeOK, Handlers
<1> QED
  BY <1>1, <1>2, <1>3, <1>4, <1>5, AloneStays DEF Alone, TypeOK

LEMMA OnSessionCloseStays ==
  ASSUME Inv, NEW c \in Clients, OnSessionClose(c)
  PROVE  Inv'
<1>1. TypeOK /\ Turns(c) /\ Undisturbed(c)
  BY DEF Inv, Sound
<1>2. /\ at[c] = "delete" /\ table' = table \ {c}
      /\ at' = [at EXCEPT ![c] = IF c \in table THEN "hook" ELSE "gone"]
      /\ UNCHANGED <<serverVars, conns, connAt, state, cancelled, hasPath, crashed, api, raced, listed>>
      /\ UNCHANGED commandVars
  BY DEF OnSessionClose
<1>3. TypeOK'
  BY <1>1, <1>2 DEF TypeOK, CommandsTypeOK, serverVars, commandVars, Places
<1>4. c \in table <=> api[c] = "no"
  BY <1>1, <1>2 DEF Turns
<1>5. Turns(c)'
  BY <1>1, <1>2, <1>4 DEF Turns, TypeOK, Handlers
<1>6. Undisturbed(c)'
  <2>1. (Ended(c)' <=> Ended(c)) /\ (Left(c)' <=> Left(c))
    BY <1>1, <1>2, <1>4 DEF TypeOK, Ended, Left
  <2> QED
    BY <1>1, <1>2, <2>1 DEF Undisturbed, ReadHook, PathHasIt, commandVars, TypeOK, Handlers
<1> QED
  BY <1>1, <1>2, <1>3, <1>5, <1>6, AloneStays DEF Alone, TypeOK

LEMMA APISessionsKickStays ==
  ASSUME Inv, NEW c \in Clients, APISessionsKick(c)
  PROVE  Inv'
<1>1. TypeOK /\ Turns(c) /\ Undisturbed(c)
  BY DEF Inv, Sound
<1>2. /\ c \in table /\ table' = table \ {c} /\ api' = [api EXCEPT ![c] = "hook"]
      /\ cancelled' = cancelled \cup {c}
      /\ raced' = IF at[c] \in Handlers THEN raced \cup {c} ELSE raced
      /\ UNCHANGED <<serverVars, conns, connAt, at, state, hasPath, crashed, listed>>
      /\ UNCHANGED commandVars
  BY DEF APISessionsKick
<1>3. TypeOK'
  BY <1>1, <1>2 DEF TypeOK, CommandsTypeOK, serverVars, commandVars
<1>4. api[c] = "no" /\ at[c] \in {"idle", "delete"} \cup Handlers /\ api'[c] = "hook"
  BY <1>1, <1>2 DEF Turns, TypeOK
<1>5. Turns(c)'
  BY <1>1, <1>2, <1>4 DEF Turns, TypeOK, Handlers
<1>6. Undisturbed(c)'
  <2>1. ~Ended(c)' /\ ~Ended(c) /\ ~Left(c)' /\ ~Left(c)
    BY <1>1, <1>2, <1>4 DEF Ended, Left, Handlers
  <2> QED
    BY <1>1, <1>2, <1>4, <2>1 DEF Undisturbed, ReadHook, PathHasIt, commandVars
<1> QED
  BY <1>1, <1>2, <1>3, <1>5, <1>6, AloneStays DEF Alone, TypeOK

-----------------------------------------------------------------------------
(* onClose, first the hook of the session, then its path.                  *)

EndsHook(c) ==
  /\ EndHook(c) /\ ~Ended(c) /\ Ended(c)' /\ ~Left(c) /\ ~Left(c)'
  /\ UNCHANGED <<serverVars, conns, table, connAt, state, cancelled, hasPath, crashed, raced, listed>>
  /\ \A q \in Clients \ {c} : at'[q] = at[q] /\ api'[q] = api[q]

LEMMA EndHookStays ==
  ASSUME Inv, NEW c \in Clients, EndsHook(c), Turns(c)', api'[c] # "no" => api[c] # "no" /\ at' = at,
         at' \in [Clients -> Places], api' \in [Clients -> {"no", "hook", "remove", "done"}]
  PROVE  Inv'
<1>1. TypeOK /\ CommandsTypeOK /\ Turns(c) /\ Undisturbed(c)
  BY DEF Inv, Sound, TypeOK
<1>2. /\ commands' = IF state[c] = "Play" THEN End(commands, c, "read") ELSE commands
      /\ hookConf' = hookConf
      /\ UNCHANGED <<serverVars, conns, table, connAt, state, cancelled, hasPath, crashed, raced, listed>>
  BY DEF EndsHook, EndHook
<1>3. ReadHooksOf(c)
  <2>1. CASE state[c] = "Play"
    BY <1>1, <1>2, <2>1, ReadEnds
  <2>2. CASE state[c] # "Play"
    BY <1>1, <1>2, <2>2 DEF ReadHooksOf, CommandsTypeOK, Table
  <2> QED
    BY <2>1, <2>2
<1>4. TypeOK'
  <2>1. CommandsTypeOK'
    BY <1>1, <1>3, TableTypes DEF ReadHooksOf
  <2> QED
    BY <1>1, <1>2, <2>1 DEF TypeOK, serverVars
<1>5. Undisturbed(c)'
  <2> SUFFICES ASSUME c \notin raced PROVE ReadHook(c)' /\ PathHasIt(c)'
    BY <1>1, <1>2 DEF Undisturbed
  <2>1. ReadHook(c) /\ PathHasIt(c)
    BY <1>1 DEF Undisturbed
  <2>2. PathHasIt(c)'
    BY <1>2, <2>1 DEF EndsHook, PathHasIt
  <2>3. CASE state[c] = "Play"
    BY <1>1, <1>2, <2>1, <2>2, <2>3, EndedReadHook DEF EndsHook
  <2>4. CASE state[c] # "Play"
    BY <1>2, <2>1, <2>2, <2>4 DEF ReadHook
  <2> QED
    BY <2>3, <2>4, <2>2
<1> QED
  BY <1>1, <1>2, <1>3, <1>4, <1>5, ReaderStays DEF Alone, TypeOK, EndsHook

LeavesPath(c) ==
  /\ LeavePath(c) /\ Ended(c) /\ Ended(c)' /\ ~Left(c) /\ Left(c)'
  /\ UNCHANGED <<serverVars, conns, table, connAt, state, cancelled, raced>> /\ UNCHANGED commandVars
  /\ \A q \in Clients \ {c} : at'[q] = at[q] /\ api'[q] = api[q]

LEMMA LeavePathStays ==
  ASSUME Inv, NEW c \in Clients, LeavesPath(c), Turns(c)', api'[c] # "no" => api[c] # "no" /\ at' = at,
         at' \in [Clients -> Places], api' \in [Clients -> {"no", "hook", "remove", "done"}]
  PROVE  Inv'
<1>1. TypeOK /\ CommandsTypeOK /\ Turns(c) /\ Undisturbed(c)
  BY DEF Inv, Sound, TypeOK
<1>2. /\ listed' = IF state[c] \in WithPath THEN listed \ {c} ELSE listed
      /\ crashed' = IF state[c] \in WithPath /\ c \notin hasPath THEN crashed \cup {c} ELSE crashed
      /\ hasPath' = hasPath \ {c}
      /\ UNCHANGED <<serverVars, conns, table, connAt, state, cancelled, raced>> /\ UNCHANGED commandVars
  BY DEF LeavesPath, LeavePath, WithPath
<1>3. TypeOK'
  BY <1>1, <1>2 DEF TypeOK, CommandsTypeOK, serverVars, commandVars
<1>4. Undisturbed(c)'
  <2> SUFFICES ASSUME c \notin raced PROVE ReadHook(c)' /\ PathHasIt(c)'
    BY <1>1, <1>2 DEF Undisturbed
  <2>1. ReadHook(c) /\ PathHasIt(c)
    BY <1>1 DEF Undisturbed
  <2> QED
    BY <1>2, <2>1 DEF LeavesPath, ReadHook, PathHasIt, commandVars
<1> QED
  BY <1>1, <1>2, <1>3, <1>4, AloneStays DEF Alone, TypeOK, LeavesPath

(* On the goroutine of the session,                                        *)
LEMMA OnCloseStays ==
  ASSUME Inv, NEW c \in Clients, OnClose(c)
  PROVE  Inv'
<1>1. TypeOK /\ Turns(c)
  BY DEF Inv, Sound
<1>2. ASSUME at[c] = "hook", EndHook(c), at' = [at EXCEPT ![c] = "remove"],
             UNCHANGED <<serverVars, conns, table, connAt, state, cancelled, hasPath, crashed, api, raced, listed>>
      PROVE  Inv'
  <2>1. api[c] = "no" /\ api' = api /\ at'[c] = "remove"
    BY <1>1, <1>2 DEF Turns, TypeOK
  <2>2. EndsHook(c)
    BY <1>1, <1>2, <2>1 DEF EndsHook, Ended, Left, TypeOK
  <2>3. Turns(c)'
    BY <1>1, <1>2, <2>1 DEF Turns, Handlers
  <2>4. at' \in [Clients -> Places] /\ api' \in [Clients -> {"no", "hook", "remove", "done"}]
    BY <1>1, <1>2, <2>1 DEF TypeOK, Places
  <2> QED
    BY <2>1, <2>2, <2>3, <2>4, EndHookStays
<1>3. ASSUME at[c] = "remove", LeavePath(c), at' = [at EXCEPT ![c] = "gone"],
             UNCHANGED <<serverVars, conns, table, connAt, state, cancelled, api, raced, commandVars>>
      PROVE  Inv'
  <2>1. api[c] = "no" /\ api' = api /\ at'[c] = "gone"
    BY <1>1, <1>3 DEF Turns, TypeOK
  <2>2. LeavesPath(c)
    BY <1>1, <1>3, <2>1 DEF LeavesPath, Ended, Left, TypeOK
  <2>3. Turns(c)'
    BY <1>1, <1>3, <2>1 DEF Turns, Handlers
  <2>4. at' \in [Clients -> Places] /\ api' \in [Clients -> {"no", "hook", "remove", "done"}]
    BY <1>1, <1>3, <2>1 DEF TypeOK, Places
  <2> QED
    BY <2>1, <2>2, <2>3, <2>4, LeavePathStays
<1> QED
  BY <1>2, <1>3 DEF OnClose

(* or on that of the API.                                                  *)
LEMMA KickClosesStays ==
  ASSUME Inv, NEW c \in Clients, KickCloses(c)
  PROVE  Inv'
<1>1. TypeOK /\ Turns(c)
  BY DEF Inv, Sound
<1>2. ASSUME api[c] = "hook", EndHook(c), api' = [api EXCEPT ![c] = "remove"],
             UNCHANGED <<serverVars, conns, table, connAt, sessionVars, raced, listed>>
      PROVE  Inv'
  <2>1. at' = at /\ api'[c] = "remove" /\ state' = state
    BY <1>1, <1>2 DEF sessionVars, TypeOK
  <2>2. EndsHook(c)
    BY <1>1, <1>2, <2>1 DEF EndsHook, Ended, Left, TypeOK, sessionVars
  <2>3. Turns(c)'
    BY <1>1, <1>2, <2>1 DEF Turns, Handlers
  <2>4. at' \in [Clients -> Places] /\ api' \in [Clients -> {"no", "hook", "remove", "done"}]
    BY <1>1, <1>2, <2>1 DEF TypeOK
  <2> QED
    BY <1>2, <2>1, <2>2, <2>3, <2>4, EndHookStays
<1>3. ASSUME api[c] = "remove", LeavePath(c), api' = [api EXCEPT ![c] = "done"],
             UNCHANGED <<serverVars, conns, table, connAt, at, state, cancelled, raced, commandVars>>
      PROVE  Inv'
  <2>1. at' = at /\ api'[c] = "done"
    BY <1>1, <1>3 DEF TypeOK
  <2>2. LeavesPath(c)
    BY <1>1, <1>3, <2>1 DEF LeavesPath, Ended, Left, TypeOK
  <2>3. Turns(c)'
    BY <1>1, <1>3, <2>1 DEF Turns, Handlers
  <2>4. at' \in [Clients -> Places] /\ api' \in [Clients -> {"no", "hook", "remove", "done"}]
    BY <1>1, <1>3, <2>1 DEF TypeOK
  <2> QED
    BY <1>3, <2>1, <2>2, <2>3, <2>4, LeavePathStays
<1> QED
  BY <1>2, <1>3 DEF KickCloses

-----------------------------------------------------------------------------
(* The path, the server and the commands.                                  *)

LEMMA PathClosesStays ==
  ASSUME Inv, NEW c \in Clients, PathCloses(c)
  PROVE  Inv'
<1>1. TypeOK /\ Turns(c) /\ Undisturbed(c)
  BY DEF Inv, Sound
<1>2. /\ listed' = listed \ {c} /\ cancelled' = cancelled \cup {c}
      /\ UNCHANGED <<serverVars, conns, table, connAt, at, state, hasPath, crashed, api, raced>>
      /\ UNCHANGED commandVars
  BY DEF PathCloses
<1>3. TypeOK'
  BY <1>1, <1>2 DEF TypeOK, CommandsTypeOK, serverVars, commandVars
<1>4. Turns(c)'
  BY <1>1, <1>2 DEF Turns
<1>5. Undisturbed(c)'
  BY <1>1, <1>2 DEF Undisturbed, ReadHook, PathHasIt, commandVars, Ended, Left
<1> QED
  BY <1>1, <1>2, <1>3, <1>4, <1>5, AloneStays DEF Alone

(* Nothing of what a session leaves depends on the state of the server.    *)
LEMMA ServerStays ==
  ASSUME Inv, CloseServer \/ ServerStops \/ ServerEnds
  PROVE  Inv'
<1>1. TypeOK
  BY DEF Inv
<1>2. /\ serverAt' \in {"run", "closing", "ended"} /\ closing' \in BOOLEAN
      /\ cancelled' \in {cancelled, Clients}
      /\ UNCHANGED <<wants, conns, table, connAt, at, state, hasPath, crashed, api, raced, listed, commandVars>>
  BY <1>1 DEF CloseServer, ServerStops, ServerEnds, TypeOK, sessionVars
<1>3. TypeOK'
  BY <1>1, <1>2 DEF TypeOK, CommandsTypeOK, commandVars
<1>4. ASSUME NEW q \in Clients PROVE Aside(q)
  BY <1>2, HooksRest DEF Aside
<1> QED
  BY <1>3, <1>4, AsideStays DEF Inv

(* Nor does a hook that goes on change what is owed.                       *)
LEMMA CommandStays ==
  ASSUME Inv, Command
  PROVE  Inv'
<1>1. TypeOK /\ CommandsTypeOK
  BY DEF Inv, TypeOK
<1>2. /\ \E id \in CommandIds : CommandStep(id)
      /\ UNCHANGED <<serverVars, conns, table, connAt, sessionVars, api, raced, listed>>
  BY DEF Command
<1>3. /\ hookConf' = hookConf /\ commands' \in Table
      /\ \A i \in CommandIds :
           /\ commands'[i].closed = commands[i].closed
           /\ commands'[i].at = "none" <=> commands[i].at = "none"
           /\ commands'[i].at = "panic" <=> commands[i].at = "panic"
  BY <1>1, <1>2, CommandStepFacts
<1>4. TypeOK'
  <2>1. CommandsTypeOK'
    BY <1>1, <1>3, TableTypes
  <2> QED
    BY <1>1, <1>2, <1>3, <2>1 DEF TypeOK, serverVars, sessionVars
<1>5. ASSUME NEW q \in Clients PROVE Aside(q)
  <2>1. HooksAside(q)
    BY <1>3 DEF HooksAside, CommandIds, Hooks
  <2> QED
    BY <1>2, <1>3, <2>1 DEF Aside, sessionVars
<1> QED
  BY <1>4, <1>5, AsideStays DEF Inv

LEMMA StutterStays ==
  ASSUME Inv, UNCHANGED vars
  PROVE  Inv'
<1>1. TypeOK'
  BY DEF Inv, TypeOK, CommandsTypeOK, vars, serverVars, sessionVars, commandVars
<1>2. ASSUME NEW q \in Clients PROVE Aside(q)
  BY HooksRest DEF Aside, vars, sessionVars
<1> QED
  BY <1>1, <1>2, AsideStays DEF Inv

-----------------------------------------------------------------------------

LEMMA InitInv == Init => Inv
<1> SUFFICES ASSUME Init PROVE Inv
  OBVIOUS
<1>1. PICK x \in Settings : wants = x.wants /\ hookConf = x.hookConf
  BY DEF Init
<1>2. x \in [wants : [Clients -> SUBSET {"read", "publish"}], hookConf : HookConfs]
  BY SettingsAssumption
<1>3. [wants |-> wants, hookConf |-> hookConf] \in Settings /\ hookConf \in HookConfs
  <2>1. x = [wants |-> x.wants, hookConf |-> x.hookConf]
    BY <1>2
  <2> QED
    BY <1>1, <1>2, <2>1
<1>4. CommandsTypeOK /\ \A id \in CommandIds : commands[id] = NoCommand
  BY <1>3 DEF Init, CommandsInit, CommandsTypeOK, NoCommand, CommandSteps
<1>5. TypeOK
  BY <1>3, <1>4 DEF Init, TypeOK, ConnPlaces, Places, States
<1>6. ASSUME NEW c \in Clients PROVE Sound(c)
  <2>1. /\ at[c] = "none" /\ api[c] = "no" /\ state[c] = "Initial" /\ connAt[c] = "none"
        /\ table = {} /\ listed = {} /\ crashed = {}
    BY DEF Init
  <2>2. c \in Owners => \A h \in Hooks : commands[<<c, h>>] = NoCommand
    BY <1>4 DEF CommandIds, Hooks
  <2>3. ConnHook(c) /\ ReadHook(c)
    BY <2>1, <2>2 DEF ConnHook, ReadHook, NoCommand, Hooks
  <2>4. Turns(c) /\ PathHasIt(c)
    BY <2>1 DEF Turns, PathHasIt, Left, Handlers, WithPath
  <2> QED
    BY <2>1, <2>3, <2>4 DEF Sound, Undisturbed
<1> QED
  BY <1>5, <1>6 DEF Inv

LEMMA NextInv == Inv /\ [Next]_vars => Inv'
<1> SUFFICES ASSUME Inv, [Next]_vars PROVE Inv'
  OBVIOUS
<1>1. ASSUME NEW c \in Clients,
             \/ ConnStep(c) \/ SessionStep(c) \/ OnConnOpen(c) \/ OnDescribe(c) \/ OnConnClose(c)
             \/ OnSessionOpen(c) \/ OnAnnounce(c) \/ OnSetup(c) \/ OnRecord(c) \/ OnPlay(c) \/ OnPause(c)
             \/ SessionEnds(c) \/ APISessionsKick(c) \/ KickCloses(c) \/ PathCloses(c)
      PROVE  Inv'
  <2>1. CASE ConnStep(c) \/ OnConnOpen(c) \/ OnDescribe(c) \/ OnConnClose(c)
    BY <2>1, OnConnOpenStays, OnDisconnectStays, ConnRestStays DEF ConnStep
  <2>2. CASE SessionStep(c)
    BY <2>2, AnswersStay, OnSessionCloseStays, OnCloseStays DEF SessionStep
  <2>3. CASE OnSessionOpen(c) \/ OnAnnounce(c) \/ OnSetup(c) \/ OnRecord(c)
    BY <2>3, OnSessionOpenStays, CallsStays
  <2>4. CASE OnPlay(c) \/ OnPause(c) \/ SessionEnds(c)
    BY <2>4, OnPlayStays, OnPauseStays, SessionEndsStays
  <2>5. CASE APISessionsKick(c) \/ KickCloses(c) \/ PathCloses(c)
    BY <2>5, APISessionsKickStays, KickClosesStays, PathClosesStays
  <2> QED
    BY <1>1, <2>1, <2>2, <2>3, <2>4, <2>5
<1>2. CASE CloseServer \/ ServerStops \/ ServerEnds
  BY <1>2, ServerStays
<1>3. CASE Command
  BY <1>3, CommandStays
<1>4. CASE UNCHANGED vars
  BY <1>4, StutterStays
<1> QED
  BY <1>1, <1>2, <1>3, <1>4 DEF Next, Step

LEMMA Invariance == Spec => []Inv
<1> QED
  BY InitInv, NextInv, PTL DEF Spec

(* The state of the server and of its clients is always one of those the   *)
(* types list.                                                             *)
THEOREM TypeCorrect == Spec => []TypeOK
<1>1. Inv => TypeOK
  BY DEF Inv
<1> QED
  BY <1>1, Invariance, PTL

(* For any number of clients: onClose runs once for every session that no  *)
(* handler raced with, on a path it still has, and leaves nothing: the     *)
(* path does not list it, its hook was told to end, no hook is ended twice.*)
THEOREM SessionsEndReleased == Spec => []SessionsReleased
  BY Invariance, InvIsEnough, PTL
==============================================================================
