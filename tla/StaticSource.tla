----------------------------- MODULE StaticSource -----------------------------
(***************************************************************************)
(* The handler that keeps the source of a path running                     *)
(* (staticsources/handler.go), the source instance it runs, and the parts  *)
(* of the path and of the path manager they wait for.                      *)
(*                                                                         *)
(* Four goroutines: the path (Start, Stop, ReloadConf, and the receiver of *)
(* SetReady and SetNotReady), the loop of the handler, the instance, and   *)
(* one short goroutine per configuration on its way to the handler or to   *)
(* the instance.  Stop waits for the loop, the loop for the instance, the  *)
(* instance for the path, directly or through the loop.                    *)
(***************************************************************************)
EXTENDS Naturals

CONSTANTS
  Kinds,      (* "network": connects, reads until an error (RTSP, RTMP, SRT, *)
              (*   MPEG-TS, WHEP, HLS, RTP); "camera": a Raspberry Pi camera;*)
              (* "secondary": the second stream of a camera, which it reads  *)
              (*   from the path of the first                                *)
  MaxReloads  (* bound: hot reloads                                          *)

ASSUME KindsAreKnown == Kinds \subseteq {"network", "camera", "secondary"}
ASSUME MaxReloadsIsNatural == MaxReloads \in Nat

Versions == 0..MaxReloads

VARIABLES
  kind, onDemand,
  manager,        (* "serving" | "waiting" for the path to end | "done"      *)
  pathState,      (* "running" | "stopping" (in Stop) | "closing" (in Stop,  *)
                  (* called by the end of run) | "ended"                     *)
  pathCtxDone,    (* pa.ctx is cancelled                                     *)
  pathConf,       (* pa.conf: how many reloads it has seen                   *)
  streamUp,       (* pa.stream # nil                                         *)
  running,        (* s.running                                               *)
  handlerCtxDone, (* s.ctx is cancelled                                      *)
  handlerConf,    (* s.Conf                                                  *)
  loop,           (* "off" | "select" | "forwarding" a request to the path | *)
                  (* "draining" (<-runErr after the context is done)         *)
  recreating,     (* the retry timer runs and there is no instance           *)
  inst,           (* where the instance is, see Steps                        *)
  runCtxDone,     (* runCtx is cancelled                                     *)
  instConf,       (* the configuration the instance works with               *)
  reloads,        (* goroutines of ReloadConf: [conf, old]; old when the     *)
                  (* context they hold is not that of the current run        *)
  innerReloads    (* the same, from the loop to the instance                 *)

pathVars    == <<pathState, pathCtxDone, pathConf, streamUp>>
runVars     == <<running, handlerCtxDone>>
loopVars    == <<handlerConf, loop, recreating>>
instVars    == <<inst, runCtxDone, instConf>>
fixedVars   == <<kind, onDemand>>
handlerVars == <<fixedVars, manager, pathVars, runVars, loopVars, instVars, reloads, innerReloads>>

Steps ==
  {"none",
   "starting",      (* the goroutine has not read its parameters yet         *)
   "askManager",    (* secondary: in pathManager.AddReader                   *)
   "joining",       (* secondary: in addReader of the path of the camera     *)
   "pausing",       (* secondary: pauseBetweenErrors                         *)
   "connecting",
   "askReady",      (* in SetReady, before the loop took the request         *)
   "readyCall",     (* in SetReady, waiting for the answer of the path       *)
   "up",
   "askNotReady", "notReadyCall",
   "finished",      (* Run has returned: in runErr <-                        *)
   "panicked"}      (* "should not happen": the process ends                 *)

Goroutines == [conf : Versions, old : BOOLEAN]

HandlerTypeOK ==
  /\ kind \in Kinds /\ onDemand \in BOOLEAN
  /\ manager \in {"serving", "waiting", "done"}
  /\ pathState \in {"running", "stopping", "closing", "ended"}
  /\ pathCtxDone \in BOOLEAN /\ streamUp \in BOOLEAN
  /\ pathConf \in Versions /\ handlerConf \in Versions /\ instConf \in Versions
  /\ running \in BOOLEAN /\ handlerCtxDone \in BOOLEAN
  /\ loop \in {"off", "select", "forwarding", "draining"}
  /\ recreating \in BOOLEAN /\ runCtxDone \in BOOLEAN
  /\ inst \in Steps
  /\ recreating => inst = "none"
  /\ reloads \subseteq Goroutines /\ innerReloads \subseteq Goroutines

(* Start: a new context and a new loop, which begins with recreate().      *)
Start ==
  /\ running' = TRUE
  /\ handlerCtxDone' = FALSE
  /\ loop' = "select"
  /\ recreating' = FALSE
  /\ inst' = "starting"
  /\ runCtxDone' = FALSE

(* Without sourceOnDemand the path starts the source as it starts itself.  *)
HandlerInit ==
  /\ kind \in Kinds /\ onDemand \in BOOLEAN
  /\ manager = "serving"
  /\ pathState = "running" /\ pathCtxDone = FALSE /\ streamUp = FALSE
  /\ pathConf = 0 /\ handlerConf = 0 /\ instConf = 0
  /\ running = ~onDemand /\ handlerCtxDone = FALSE
  /\ loop = IF onDemand THEN "off" ELSE "select"
  /\ recreating = FALSE
  /\ inst = IF onDemand THEN "none" ELSE "starting"
  /\ runCtxDone = FALSE
  /\ reloads = {} /\ innerReloads = {}

-----------------------------------------------------------------------------
(***************************************************************************)
(* The path.                                                               *)
(***************************************************************************)

PathStart ==
  /\ pathState = "running" /\ onDemand /\ ~running
  /\ Start
  /\ reloads' = {[r EXCEPT !.old = TRUE] : r \in reloads}
  /\ innerReloads' = {[r EXCEPT !.old = TRUE] : r \in innerReloads}
  /\ UNCHANGED <<fixedVars, manager, pathVars, handlerConf, instConf>>

(* Stop up to <-s.done; the caller takes the stream down before.           *)
Stop_NoWait(waiting) ==
  /\ running' = FALSE
  /\ handlerCtxDone' = TRUE
  /\ streamUp' = FALSE
  /\ pathState' = IF waiting = "stopping" THEN "running" ELSE "ended"
Stop(waiting) ==
  /\ running' = FALSE
  /\ handlerCtxDone' = TRUE
  /\ streamUp' = FALSE
  /\ pathState' = waiting

(* The close timer, or the start timeout.                                  *)
PathStop ==
  /\ pathState = "running" /\ onDemand /\ running
  /\ Stop("stopping")
  /\ UNCHANGED <<fixedVars, manager, pathCtxDone, pathConf, loopVars, instVars, reloads,
                 innerReloads>>

StopReturns ==
  /\ pathState \in {"stopping", "closing"} /\ loop = "off"
  /\ pathState' = IF pathState = "closing" THEN "ended" ELSE "running"
  /\ UNCHANGED <<fixedVars, manager, pathCtxDone, pathConf, streamUp, runVars, loopVars,
                 instVars, reloads, innerReloads>>

(* doReloadConf and Handler.ReloadConf.                                    *)
PathReloads ==
  /\ pathState = "running" /\ pathConf < MaxReloads
  /\ pathConf' = pathConf + 1
  /\ reloads' = IF running THEN reloads \cup {[conf |-> pathConf', old |-> FALSE]} ELSE reloads
  /\ UNCHANGED <<fixedVars, manager, pathState, pathCtxDone, streamUp, runVars, loopVars,
                 instVars, innerReloads>>

(* The path ends: its context is cancelled by the manager, which waits     *)
(* when it recreates the path, and not when it shuts down.                 *)
ClosePath(then) ==
  /\ manager = "serving" /\ pathState # "ended"
  /\ manager' = then
  /\ pathCtxDone' = TRUE
  /\ UNCHANGED <<fixedVars, pathState, pathConf, streamUp, runVars, loopVars, instVars,
                 reloads, innerReloads>>

PathTerminates ==
  /\ pathState = "running" /\ pathCtxDone
  /\ IF running THEN Stop("closing")
     ELSE /\ pathState' = "ended"
          /\ UNCHANGED <<streamUp, runVars>>
  /\ UNCHANGED <<fixedVars, manager, pathCtxDone, pathConf, loopVars, instVars, reloads,
                 innerReloads>>

(* The manager waited and creates the new path, with a new handler; what   *)
(* was on its way to the old one has nowhere to go.                        *)
Recreated ==
  /\ manager = "waiting" /\ pathState = "ended"
  /\ manager' = "serving"
  /\ pathState' = "running" /\ pathCtxDone' = FALSE
  /\ handlerConf' = pathConf
  /\ IF onDemand
     THEN UNCHANGED <<runVars, loop, recreating, inst, runCtxDone>>
     ELSE Start
  /\ reloads' = {} /\ innerReloads' = {}
  /\ UNCHANGED <<fixedVars, pathConf, streamUp, instConf>>

-----------------------------------------------------------------------------
(***************************************************************************)
(* The loop of the handler.                                                *)
(***************************************************************************)

(* The instance has returned: wait, then run another.                      *)
RunErr_NoTimer ==
  /\ loop = "select" /\ inst = "finished"
  /\ inst' = "none"
  /\ runCtxDone' = TRUE
  /\ UNCHANGED <<fixedVars, manager, pathVars, runVars, loopVars, instConf, reloads, innerReloads>>
RunErr ==
  /\ loop = "select" /\ inst = "finished"
  /\ inst' = "none"
  /\ runCtxDone' = TRUE
  /\ recreating' = TRUE
  /\ UNCHANGED <<fixedVars, manager, pathVars, runVars, handlerConf, loop, instConf, reloads,
                 innerReloads>>

RecreateTimer ==
  /\ loop = "select" /\ recreating
  /\ recreating' = FALSE
  /\ inst' = "starting"
  /\ runCtxDone' = FALSE
  /\ innerReloads' = {[r EXCEPT !.old = TRUE] : r \in innerReloads}
  /\ UNCHANGED <<fixedVars, manager, pathVars, runVars, handlerConf, loop, instConf, reloads>>

TakeRequest ==
  /\ loop = "select" /\ inst \in {"askReady", "askNotReady"}
  /\ loop' = "forwarding"
  /\ inst' = IF inst = "askReady" THEN "readyCall" ELSE "notReadyCall"
  /\ UNCHANGED <<fixedVars, manager, pathVars, runVars, handlerConf, recreating, runCtxDone, instConf,
                 reloads, innerReloads>>

(* doSourceStaticSetReady and doSourceStaticSetNotReady, answer included.  *)
(* An on-demand source that is not ready any more is stopped, after the    *)
(* answer.  (Path.tla also has the stream that cannot be initialized.)     *)
PathTakesReady ==
  /\ loop = "forwarding" /\ inst = "readyCall" /\ pathState = "running"
  /\ loop' = "select"
  /\ streamUp' = TRUE
  /\ inst' = "up"
  /\ UNCHANGED <<fixedVars, manager, pathState, pathCtxDone, pathConf, runVars, handlerConf,
                 recreating, runCtxDone, instConf, reloads, innerReloads>>

PathTakesNotReady ==
  /\ loop = "forwarding" /\ inst = "notReadyCall" /\ pathState = "running"
  /\ loop' = "select"
  /\ inst' = "finished"
  /\ IF onDemand THEN Stop("stopping")
     ELSE /\ streamUp' = FALSE
          /\ UNCHANGED <<pathState, runVars>>
  /\ UNCHANGED <<fixedVars, manager, pathCtxDone, pathConf, handlerConf, recreating, runCtxDone,
                 instConf, reloads, innerReloads>>

(* What the instance does when its call gives up.  The camera does not     *)
(* expect SetReady to fail.                                                *)
Refused ==
  IF inst \in {"askReady", "readyCall"} /\ kind = "camera" THEN "panicked" ELSE "finished"

ForwardGivesUp_Never == FALSE
ForwardGivesUp ==
  /\ loop = "forwarding" /\ (handlerCtxDone \/ pathCtxDone)
  /\ loop' = "select"
  /\ inst' = Refused
  /\ UNCHANGED <<fixedVars, manager, pathVars, runVars, handlerConf, recreating, runCtxDone, instConf,
                 reloads, innerReloads>>

TakeReload(r) ==
  /\ loop = "select"
  /\ reloads' = reloads \ {r}
  /\ handlerConf' = r.conf
  /\ innerReloads' = IF recreating THEN innerReloads
                     ELSE innerReloads \cup {[conf |-> r.conf, old |-> FALSE]}
  /\ UNCHANGED <<fixedVars, manager, pathVars, runVars, loop, recreating, instVars>>

(* The context is done: the instance is told and waited for.               *)
CtxDone ==
  /\ loop = "select" /\ handlerCtxDone
  /\ IF recreating THEN loop' = "off" /\ UNCHANGED runCtxDone
                   ELSE loop' = "draining" /\ runCtxDone' = TRUE
  /\ UNCHANGED <<fixedVars, manager, pathVars, runVars, handlerConf, recreating, inst, instConf,
                 reloads, innerReloads>>

Drained ==
  /\ loop = "draining" /\ inst = "finished"
  /\ loop' = "off"
  /\ inst' = "none"
  /\ UNCHANGED <<fixedVars, manager, pathVars, runVars, handlerConf, recreating, runCtxDone, instConf,
                 reloads, innerReloads>>

(* A goroutine whose context is done gives up; if its receiver is ready    *)
(* too, either may happen.                                                 *)
ReloadGivesUp(r) ==
  /\ r.old \/ handlerCtxDone
  /\ reloads' = reloads \ {r}
  /\ UNCHANGED <<fixedVars, manager, pathVars, runVars, loopVars, instVars, innerReloads>>
InnerReloadGivesUp(r) ==
  /\ r.old \/ runCtxDone
  /\ innerReloads' = innerReloads \ {r}
  /\ UNCHANGED <<fixedVars, manager, pathVars, runVars, loopVars, instVars, reloads>>

-----------------------------------------------------------------------------
(***************************************************************************)
(* The instance.                                                           *)
(***************************************************************************)

InstanceGoes(from, to) ==
  /\ inst = from /\ inst' = to
  /\ UNCHANGED <<fixedVars, manager, pathVars, runVars, loopVars, runCtxDone, instConf, reloads,
                 innerReloads>>

(* params.Conf is read when the goroutine starts.                          *)
RunBegins ==
  /\ inst = "starting"
  /\ inst' = IF kind = "secondary" THEN "askManager" ELSE "connecting"
  /\ instConf' = handlerConf
  /\ UNCHANGED <<fixedVars, manager, pathVars, runVars, loopVars, runCtxDone, reloads,
                 innerReloads>>

Connects == kind # "secondary" /\ InstanceGoes("connecting", "askReady")

(* An error, or the end of the context.                                    *)
ConnectFails == kind # "secondary" /\ InstanceGoes("connecting", "finished")
StreamFails_Silent == kind # "secondary" /\ InstanceGoes("up", "finished")
StreamFails == kind # "secondary" /\ InstanceGoes("up", "askNotReady")

(* waitForPrimary: only the pause looks at the context.                    *)
AsksManager ==
  /\ manager # "waiting"
  /\ InstanceGoes("askManager", IF manager = "done" THEN "finished" ELSE "joining")
JoinsPrimary == \E to \in {"askReady", "pausing", "finished"} : InstanceGoes("joining", to)
PauseEnds == InstanceGoes("pausing", "askManager")
PauseInterrupted == runCtxDone /\ InstanceGoes("pausing", "finished")

(* The stream of the camera has ended, or the context: the secondary       *)
(* leaves the path of the camera and does not call SetNotReady.            *)
SecondaryEnds == kind = "secondary" /\ InstanceGoes("up", "finished")

(* Handler.SetReady and Handler.SetNotReady, when s.ctx is done.           *)
CallGivesUp_Always == inst \in {"askReady", "askNotReady"} /\ InstanceGoes(inst, Refused)
CallGivesUp ==
  /\ handlerCtxDone /\ inst \in {"askReady", "askNotReady"}
  /\ InstanceGoes(inst, Refused)

(* The loop of Run takes a new configuration.  A secondary has no loop.    *)
InstanceReloads(r) ==
  /\ kind # "secondary"
  /\ inst \in {"connecting", "askReady", "readyCall", "up", "askNotReady", "notReadyCall"}
  /\ instConf' = r.conf
  /\ innerReloads' = innerReloads \ {r}
  /\ UNCHANGED <<fixedVars, manager, pathVars, runVars, loopVars, inst, runCtxDone, reloads>>

-----------------------------------------------------------------------------
Alive == inst # "panicked"

PathNext ==
  \/ PathStart
  \/ PathStop
  \/ StopReturns
  \/ PathReloads
  \/ ClosePath("waiting")
  \/ ClosePath("done")
  \/ PathTerminates
  \/ Recreated
  \/ PathTakesReady
  \/ PathTakesNotReady

LoopNext ==
  \/ RunErr
  \/ RecreateTimer
  \/ TakeRequest
  \/ ForwardGivesUp
  \/ CtxDone
  \/ Drained
  \/ \E r \in reloads : TakeReload(r) \/ ReloadGivesUp(r)
  \/ \E r \in innerReloads : InnerReloadGivesUp(r)

InstanceNext ==
  \/ RunBegins
  \/ Connects
  \/ ConnectFails
  \/ StreamFails
  \/ AsksManager
  \/ JoinsPrimary
  \/ PauseEnds
  \/ PauseInterrupted
  \/ SecondaryEnds
  \/ CallGivesUp
  \/ \E r \in innerReloads : InstanceReloads(r)

HandlerNext == Alive /\ (PathNext \/ LoopNext \/ InstanceNext)

HandlerSpec == HandlerInit /\ [][HandlerNext]_handlerVars

(***************************************************************************)
(* The goroutines run, timers expire, an instance whose context is done    *)
(* returns.  The select of the loop picks at random, so a case that is     *)
(* ready again and again is taken (strong fairness).  Sources are free     *)
(* never to connect and never to fail, paths never to start or stop one.   *)
(***************************************************************************)
PathStep ==
  StopReturns \/ PathTerminates \/ Recreated \/ PathTakesReady \/ PathTakesNotReady \/ ForwardGivesUp
LoopStep == RunErr \/ RecreateTimer \/ TakeRequest \/ CallGivesUp \/ Drained
InstanceStep == RunBegins \/ AsksManager \/ JoinsPrimary \/ PauseEnds \/ PauseInterrupted
InstanceEnds == runCtxDone /\ (ConnectFails \/ StreamFails \/ SecondaryEnds \/ PauseInterrupted)

HandlerFairness ==
  /\ WF_handlerVars(Alive /\ PathStep)
  /\ WF_handlerVars(Alive /\ LoopStep)
  /\ SF_handlerVars(Alive /\ CtxDone)
  /\ WF_handlerVars(Alive /\ InstanceStep)
  /\ SF_handlerVars(Alive /\ InstanceEnds)
  /\ SF_handlerVars(Alive /\ \E r \in reloads : TakeReload(r) \/ ReloadGivesUp(r))
  /\ SF_handlerVars(Alive /\ \E r \in innerReloads : InstanceReloads(r) \/ InnerReloadGivesUp(r))

HandlerFairSpec == HandlerSpec /\ HandlerFairness
-----------------------------------------------------------------------------
(***************************************************************************)
(* Properties.                                                             *)
(***************************************************************************)

(* SetReady and SetNotReady reach the path in turns and never after Stop:  *)
(* a path that is not ending has a stream exactly while the instance of    *)
(* the current run is between them.  Path.tla relies on it.  (A secondary  *)
(* does not keep it.)                                                      *)
StreamFollowsInstance ==
  kind # "secondary" /\ ~pathCtxDone =>
    streamUp = (running /\ inst \in {"up", "askNotReady", "notReadyCall"})

(* When Stop has returned nothing of the run is left to call the path or   *)
(* to read s.ctx: Start may replace the context and run a new instance.    *)
StoppedIsQuiet ==
  pathState \in {"running", "ended"} /\ ~running => loop = "off" /\ inst \in {"none", "panicked"}

(* The camera asserts that SetReady does not fail ("should not happen").   *)
(* The assertion can only fail while the source or its path is stopped.    *)
PanicsOnlyWhenStopped == inst = "panicked" => handlerCtxDone \/ pathCtxDone

(* A source that fails is run again, as long as the path wants it.         *)
SourceRetried == inst = "finished" /\ running ~> inst = "starting" \/ ~running \/ pathCtxDone

(* Stop returns, whatever the source is doing.                             *)
NetworkStopEnds ==
  kind = "network" /\ pathState \in {"stopping", "closing"} ~>
    pathState \in {"running", "ended"}

(* The comment in core/path.go on the calls of a static source: waiting    *)
(* for s.done inside Stop does not deadlock.  The code does not keep it,   *)
(* see the README.                                                         *)
StopEnds ==
  pathState \in {"stopping", "closing"} ~> pathState \in {"running", "ended"} \/ ~Alive

(* The goroutine of a reload ends: the configuration is taken or its       *)
(* receiver is gone.                                                       *)
ReloadsEnd ==
  kind = "network" => \A v \in Versions : [](
    [conf |-> v, old |-> FALSE] \in reloads \cup innerReloads =>
      <>([conf |-> v, old |-> FALSE] \notin reloads \cup innerReloads))

(* What waits for a source that reads from the network does not wait for   *)
(* ever: neither Stop nor a reload.                                        *)
CallsReturn == NetworkStopEnds /\ ReloadsEnd
=============================================================================
