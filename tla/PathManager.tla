----------------------------- MODULE PathManager -----------------------------
(***************************************************************************)
(* The path manager (core/path_manager.go) and the goroutines of its       *)
(* paths, as far as the two interact.                                      *)
(*                                                                         *)
(* The manager's loop takes one message at a time.  A path calls it        *)
(* (pathReady, pathNotReady, closePath) over an unbuffered channel, and    *)
(* the manager in turn waits for paths it recreates and for the HLS        *)
(* server: each blocked call is a state here, so that TLC sees who waits   *)
(* for whom.  What a path does for its clients is reduced to "in use" and  *)
(* "has a stream"; module Path has the rest.                               *)
(*                                                                         *)
(* A path object is used again once the path is gone and nobody holds a    *)
(* pointer to it.                                                          *)
(***************************************************************************)
EXTENDS Naturals, FiniteSets

CONSTANTS
  Names,    (* names of paths                                              *)
  Clients,  (* sessions that describe, read or publish                     *)
  Ids,      (* path objects (pointers); as many as may exist at a time     *)
  Configs,  (* pathConfs, before and after reloads: key -> configuration   *)
  Nil       (* Go's nil                                                    *)

(***************************************************************************)
(* A path configuration: `key' is its Name, `static' says that its source  *)
(* is a static one which is always on, `fixed' stands for the settings     *)
(* that cannot be changed in place and `hot' for those that can.           *)
(***************************************************************************)
IdsOrNil == Ids \cup {Nil}
Keys == UNION {DOMAIN c : c \in Configs}
PathConfs == UNION {{c[k] : k \in DOMAIN c} : c \in Configs}

ASSUME ConfigsValid ==
  \A c \in Configs, k \in Keys : k \in DOMAIN c =>
    /\ c[k].key = k
    /\ c[k].regexp = (k \notin Names)
    /\ c[k].regexp => ~c[k].static
ASSUME NilIsNoValue ==
  Nil \notin Ids /\ Nil \notin Names /\ Nil \notin Keys /\ Nil \notin PathConfs /\ Nil \notin Configs

(* A name has its own configuration or that of a regular expression (one   *)
(* matches here every name).                                               *)
IsConfigured(c, n) == n \in DOMAIN c \/ \E k \in DOMAIN c : c[k].regexp
FindPathConf(c, n) ==
  IF n \in DOMAIN c THEN c[n] ELSE c[CHOOSE k \in DOMAIN c : c[k].regexp]

PathConfCanBeUpdated(old, new) == old.fixed = new.fixed /\ old.static = new.static

VARIABLES
  pathConfs,  (* pm.pathConfs                                              *)
  pmCtxDone,  (* pm.ctx is cancelled                                       *)
  pmState,    (* "idle" | "reloading" | "waiting" (path.wait) | "creating" *)
              (* | "notifying" (HLS server) | "stopped"                    *)
  newPaths,   (* argument of doReloadConf, or Nil                          *)
  todo,       (* names doReloadConf has not looked at yet                  *)
  waitFor,    (* path that path.wait() waits for, or Nil                     *)
  paths,      (* pm.paths: name -> path, or Nil                              *)
  ready,      (* pathData.ready                                            *)
  confName,   (* pathData.confName                                         *)
  hlsServer,  (* pm.hlsServer # nil                                        *)
  notice,     (* argument of the blocked call to the HLS server, or Nil    *)
  name,       (* of each path: pa.name                                     *)
  conf,       (* pa.conf                                                   *)
  ctxDone,    (* pa.ctx is cancelled by the manager or by run()            *)
  used,       (* the path has a publisher, readers or requests on hold     *)
  stream,     (* pa.stream # nil                                           *)
  step,       (* where the goroutine of the path is, see PathSteps         *)
  reloads,    (* the goroutines `go path.reloadConf(conf)'                 *)
  asked       (* path a client was given and is about to call, or Nil        *)

PathSteps ==
  {"none",       (* the object was never used                               *)
   "running",    (* in the select of runInner                              *)
   "readyCall", "notReadyCall", "overrideCall",  (* blocked in a handler   *)
   "closeCall",  (* run() called closePath                                 *)
   "closing",    (* run() called ctxCancel                                 *)
   "finalCall",  (* run() called setNotReady                               *)
   "done"}

pmVars   == <<pathConfs, pmCtxDone, pmState, newPaths, todo, waitFor, paths,
              ready, confName, hlsServer, notice>>
pathVars == <<name, conf, ctxDone, used, stream, step>>
vars     == <<pmVars, pathVars, reloads, asked>>

CtxDone(i) == ctxDone[i] \/ pmCtxDone

(* The path was created and its run() has not returned.                    *)
Alive(i) == step[i] \notin {"none", "done"}

TypeOK ==
  /\ pathConfs \in Configs
  /\ pmCtxDone \in BOOLEAN
  /\ pmState \in {"idle", "reloading", "waiting", "creating", "notifying", "stopped"}
  /\ newPaths \in IF pmState \in {"reloading", "waiting"} THEN Configs ELSE {Nil}
  /\ todo \in SUBSET Names
  /\ waitFor \in IF pmState = "waiting" THEN Ids ELSE {Nil}
  /\ paths \in [Names -> IdsOrNil]
  /\ ready \in [Names -> BOOLEAN]
  /\ confName \in [Names -> Keys \cup {Nil}]
  /\ hlsServer \in BOOLEAN
  /\ notice \in IF pmState = "notifying" THEN Names \X BOOLEAN ELSE {Nil}
  /\ name \in [Ids -> Names \cup {Nil}]
  /\ conf \in [Ids -> PathConfs \cup {Nil}]
  /\ ctxDone \in [Ids -> BOOLEAN]
  /\ used \in [Ids -> BOOLEAN]
  /\ stream \in [Ids -> BOOLEAN]
  /\ step \in [Ids -> PathSteps]
  /\ reloads \in SUBSET (Ids \X PathConfs)
  /\ asked \in [Clients -> IdsOrNil]

(* initialize() is about to create the paths that have no regexp.          *)
Init ==
  /\ pathConfs \in Configs
  /\ pmCtxDone = FALSE
  /\ pmState = "creating"
  /\ newPaths = Nil
  /\ todo = {}
  /\ waitFor = Nil
  /\ paths = [n \in Names |-> Nil]
  /\ ready = [n \in Names |-> FALSE]
  /\ confName = [n \in Names |-> Nil]
  /\ hlsServer = FALSE
  /\ notice = Nil
  /\ name = [i \in Ids |-> Nil]
  /\ conf = [i \in Ids |-> Nil]
  /\ ctxDone = [i \in Ids |-> FALSE]
  /\ used = [i \in Ids |-> FALSE]
  /\ stream = [i \in Ids |-> FALSE]
  /\ step = [i \in Ids |-> "none"]
  /\ reloads = {}
  /\ asked = [c \in Clients |-> Nil]

-----------------------------------------------------------------------------
(***************************************************************************)
(* Creating and removing paths.                                            *)
(***************************************************************************)

Referenced == {paths[n] : n \in Names} \cup {waitFor} \cup {asked[c] : c \in Clients}
              \cup {r[1] : r \in reloads}
Free == {i \in Ids : ~Alive(i) /\ i \notin Referenced}

CreatePath(i, pathConf, n) ==
  /\ i \in Free
  /\ paths' = [paths EXCEPT ![n] = i]
  /\ ready' = [ready EXCEPT ![n] = FALSE]
  /\ confName' = [confName EXCEPT ![n] = pathConf.key]
  /\ name' = [name EXCEPT ![i] = n]
  /\ conf' = [conf EXCEPT ![i] = pathConf]
  /\ ctxDone' = [ctxDone EXCEPT ![i] = FALSE]
  /\ used' = [used EXCEPT ![i] = FALSE]
  /\ stream' = [stream EXCEPT ![i] = FALSE]
  /\ step' = [step EXCEPT ![i] = "running"]

RemovePath(n) ==
  /\ paths' = [paths EXCEPT ![n] = Nil]
  /\ ready' = [ready EXCEPT ![n] = FALSE]
  /\ confName' = [confName EXCEPT ![n] = Nil]

RemoveAndClosePath_NoWait(n) ==
  /\ RemovePath(n)
  /\ ctxDone' = [ctxDone EXCEPT ![paths[n]] = TRUE]
  /\ UNCHANGED <<waitFor, pmState>>
RemoveAndClosePath(n) ==
  /\ RemovePath(n)
  /\ ctxDone' = [ctxDone EXCEPT ![paths[n]] = TRUE]
  /\ waitFor' = paths[n]
  /\ pmState' = "waiting"

-----------------------------------------------------------------------------
(***************************************************************************)
(* doReloadConf, path by path in the order of a Go map.                    *)
(***************************************************************************)

ReloadPathConfs(new) ==
  /\ pmState = "idle"
  /\ new # pathConfs
  /\ Cardinality(Free) >= Cardinality(Names)   \* room, see Ids
  /\ pmState' = "reloading"
  /\ newPaths' = new
  /\ todo' = {n \in Names : paths[n] # Nil}
  /\ UNCHANGED <<pathConfs, pmCtxDone, waitFor, paths, ready, confName, hlsServer,
                 notice, pathVars, reloads, asked>>

(* The path is recreated if it has no configuration any more or one that   *)
(* differs in more than the settings that can be changed in place.         *)
MustRecreate_OnNameChange(n) ==
  \/ ~IsConfigured(newPaths, n)
  \/ FindPathConf(newPaths, n).key # confName[n]
     /\ ~PathConfCanBeUpdated(pathConfs[confName[n]], FindPathConf(newPaths, n))
MustRecreate(n) ==
  \/ ~IsConfigured(newPaths, n)
  \/ ~PathConfCanBeUpdated(pathConfs[confName[n]], FindPathConf(newPaths, n))

ReloadPath(n) ==
  /\ pmState = "reloading" /\ n \in todo
  /\ todo' = todo \ {n}
  /\ IF MustRecreate(n)
     THEN /\ RemoveAndClosePath(n)
          /\ UNCHANGED reloads
     ELSE /\ confName' = [confName EXCEPT ![n] = FindPathConf(newPaths, n).key]
          /\ reloads' = IF FindPathConf(newPaths, n) = pathConfs[confName[n]] THEN reloads
                        ELSE reloads \cup {<<paths[n], FindPathConf(newPaths, n)>>}
          /\ UNCHANGED <<paths, ready, waitFor, pmState, ctxDone>>
  /\ UNCHANGED <<pathConfs, pmCtxDone, newPaths, hlsServer, notice, name, conf, used,
                 stream, step, asked>>

PathWaitReturns ==
  /\ pmState = "waiting" /\ step[waitFor] = "done"
  /\ pmState' = "reloading"
  /\ waitFor' = Nil
  /\ UNCHANGED <<pathConfs, pmCtxDone, newPaths, todo, paths, ready, confName, hlsServer,
                 notice, pathVars, reloads, asked>>

ReloadPathsDone ==
  /\ pmState = "reloading" /\ todo = {}
  /\ pathConfs' = newPaths
  /\ newPaths' = Nil
  /\ pmState' = "creating"
  /\ UNCHANGED <<pmCtxDone, todo, waitFor, paths, ready, confName, hlsServer, notice,
                 pathVars, reloads, asked>>

Missing == {n \in Names \cap DOMAIN pathConfs : paths[n] = Nil}

CreateStaticPath(n, i) ==
  /\ pmState = "creating" /\ n \in Missing
  /\ CreatePath(i, pathConfs[n], n)
  /\ UNCHANGED <<pathConfs, pmCtxDone, pmState, newPaths, todo, waitFor, hlsServer,
                 notice, reloads, asked>>

CreateStaticPathsDone ==
  /\ pmState = "creating" /\ Missing = {}
  /\ pmState' = "idle"
  /\ UNCHANGED <<pathConfs, pmCtxDone, newPaths, todo, waitFor, paths, ready, confName,
                 hlsServer, notice, pathVars, reloads, asked>>

-----------------------------------------------------------------------------
(***************************************************************************)
(* The calls of the paths.  Each is a select on the manager's channel, the *)
(* manager's context and the path's context.                               *)
(***************************************************************************)

(* doPathReady and doPathNotReady: a path that is not listed is ignored,   *)
(* the HLS server is told about the others.                                *)
Notify(i, isReady) ==
  IF paths[name[i]] = i
  THEN /\ ready' = [ready EXCEPT ![name[i]] = isReady]
       /\ IF hlsServer
          THEN pmState' = "notifying" /\ notice' = <<name[i], isReady>>
          ELSE UNCHANGED <<pmState, notice>>
  ELSE UNCHANGED <<ready, pmState, notice>>

NotifyOutcome_NoCtx(i, isReady) ==
  /\ pmState = "idle"
  /\ Notify(i, isReady)
NotifyOutcome(i, isReady) ==
  \/ /\ pmState = "idle"
     /\ Notify(i, isReady)
  \/ /\ CtxDone(i)
     /\ UNCHANGED <<ready, pmState, notice>>

(* A path of a regular expression that nobody uses any more ends.          *)
AfterHandler(i, inUse) == IF conf[i].regexp /\ ~inUse THEN "closeCall" ELSE "running"

(* setReady: the last thing a handler does.                                *)
PathReady(i) ==
  /\ step[i] = "readyCall"
  /\ NotifyOutcome(i, TRUE)
  /\ step' = [step EXCEPT ![i] = "running"]
  /\ UNCHANGED <<pathConfs, pmCtxDone, newPaths, todo, waitFor, paths, confName,
                 hlsServer, name, conf, ctxDone, used, stream, reloads, asked>>

(* setNotReady of a path whose source went away.                           *)
PathNotReady(i) ==
  /\ step[i] = "notReadyCall"
  /\ NotifyOutcome(i, FALSE)
  /\ stream' = [stream EXCEPT ![i] = FALSE]
  /\ used' = [used EXCEPT ![i] = FALSE]
  /\ step' = [step EXCEPT ![i] = AfterHandler(i, FALSE)]
  /\ UNCHANGED <<pathConfs, pmCtxDone, newPaths, todo, waitFor, paths, confName,
                 hlsServer, name, conf, ctxDone, reloads, asked>>

(* setNotReady of a path whose publisher is overridden, setReady follows.  *)
PathOverridden(i) ==
  /\ step[i] = "overrideCall"
  /\ NotifyOutcome(i, FALSE)
  /\ step' = [step EXCEPT ![i] = "readyCall"]
  /\ UNCHANGED <<pathConfs, pmCtxDone, newPaths, todo, waitFor, paths, confName,
                 hlsServer, name, conf, ctxDone, used, stream, reloads, asked>>

(* run() after runInner: doClosePath, then ctxCancel.                      *)
DoClosePath(i) == IF paths[name[i]] = i THEN RemovePath(name[i])
                  ELSE UNCHANGED <<paths, ready, confName>>
ClosePath_Unlisted(i) ==
  /\ step[i] = "closeCall"
  /\ ctxDone' = [ctxDone EXCEPT ![i] = TRUE]
  /\ step' = [step EXCEPT ![i] = "closing"]
  /\ UNCHANGED <<pmVars, name, conf, used, stream, reloads, asked>>
ClosePath(i) ==
  /\ step[i] = "closeCall"
  /\ \/ /\ pmState = "idle"
        /\ DoClosePath(i)
     \/ /\ CtxDone(i)
        /\ UNCHANGED <<paths, ready, confName>>
  /\ ctxDone' = [ctxDone EXCEPT ![i] = TRUE]
  /\ step' = [step EXCEPT ![i] = "closing"]
  /\ UNCHANGED <<pathConfs, pmCtxDone, pmState, newPaths, todo, waitFor, hlsServer,
                 notice, name, conf, used, stream, reloads, asked>>

(* The end of run(): nothing is left of the path, but for its context.     *)
PathDone(i) ==
  /\ step' = [step EXCEPT ![i] = "done"]
  /\ name' = [name EXCEPT ![i] = Nil]
  /\ conf' = [conf EXCEPT ![i] = Nil]
  /\ used' = [used EXCEPT ![i] = FALSE]
  /\ stream' = [stream EXCEPT ![i] = FALSE]

PathCleanup(i) ==
  /\ step[i] = "closing"
  /\ IF stream[i]
     THEN /\ step' = [step EXCEPT ![i] = "finalCall"]
          /\ UNCHANGED <<name, conf, used, stream>>
     ELSE PathDone(i)
  /\ UNCHANGED <<pmVars, ctxDone, reloads, asked>>

PathFinalNotReady(i) ==
  /\ step[i] = "finalCall"
  /\ NotifyOutcome(i, FALSE)
  /\ PathDone(i)
  /\ UNCHANGED <<pathConfs, pmCtxDone, newPaths, todo, waitFor, paths, confName,
                 hlsServer, ctxDone, reloads, asked>>

-----------------------------------------------------------------------------
(***************************************************************************)
(* The loop of a path.                                                     *)
(***************************************************************************)

(* A static source announces its stream, or loses it.                      *)
StaticSourceUp(i) ==
  /\ step[i] = "running" /\ conf[i].static /\ ~stream[i]
  /\ stream' = [stream EXCEPT ![i] = TRUE]
  /\ step' = [step EXCEPT ![i] = "readyCall"]
  /\ UNCHANGED <<pmVars, name, conf, ctxDone, used, reloads, asked>>

(* The source, or the last client of a path without a stream, goes away.   *)
Leave(i) ==
  /\ step[i] = "running" /\ (stream[i] \/ used[i])
  /\ used' = [used EXCEPT ![i] = stream[i] /\ used[i]]
  /\ step' = [step EXCEPT ![i] = IF stream[i] THEN "notReadyCall" ELSE AfterHandler(i, FALSE)]
  /\ UNCHANGED <<pmVars, name, conf, ctxDone, stream, reloads, asked>>

PathReloadConf(i, new) ==
  /\ step[i] = "running" /\ <<i, new>> \in reloads
  /\ conf' = [conf EXCEPT ![i] = new]
  /\ reloads' = reloads \ {<<i, new>>}
  /\ UNCHANGED <<pmVars, name, ctxDone, used, stream, step, asked>>

PathReloadConfDropped(i, new) ==
  /\ CtxDone(i) /\ <<i, new>> \in reloads
  /\ reloads' = reloads \ {<<i, new>>}
  /\ UNCHANGED <<pmVars, pathVars, asked>>

PathTerminated(i) ==
  /\ step[i] = "running" /\ CtxDone(i)
  /\ step' = [step EXCEPT ![i] = "closeCall"]
  /\ UNCHANGED <<pmVars, name, conf, ctxDone, used, stream, reloads, asked>>

-----------------------------------------------------------------------------
(***************************************************************************)
(* Clients.                                                                *)
(***************************************************************************)

(* doDescribe, doAddReader, doAddPublisher: the client is handed a path,   *)
(* which is created if there is none.                                      *)
Request(c, n) ==
  /\ pmState = "idle" /\ asked[c] = Nil
  /\ IsConfigured(pathConfs, n)
  /\ IF paths[n] = Nil
     THEN \E i \in Ids : /\ CreatePath(i, FindPathConf(pathConfs, n), n)
                         /\ asked' = [asked EXCEPT ![c] = i]
     ELSE /\ asked' = [asked EXCEPT ![c] = paths[n]]
          /\ UNCHANGED <<paths, ready, confName, pathVars>>
  /\ UNCHANGED <<pathConfs, pmCtxDone, pmState, newPaths, todo, waitFor, hlsServer,
                 notice, reloads>>

(* ... and then calls it: the request is refused, is one of a reader, or   *)
(* is one of a publisher.                                                  *)
Arrive(c) ==
  LET i == asked[c]
  IN /\ i # Nil /\ step[i] = "running"
     /\ asked' = [asked EXCEPT ![c] = Nil]
     /\ \/ /\ UNCHANGED <<used, stream>>
           /\ \/ step' = [step EXCEPT ![i] = AfterHandler(i, used[i] \/ stream[i])]
              \/ UNCHANGED step   \* doAddPublisher: no shouldClose()
        \/ /\ used' = [used EXCEPT ![i] = TRUE]
           /\ UNCHANGED <<stream, step>>
        \/ /\ ~conf[i].static
           /\ used' = [used EXCEPT ![i] = TRUE]
           /\ stream' = [stream EXCEPT ![i] = TRUE]
           /\ step' = [step EXCEPT ![i] = IF stream[i] THEN "overrideCall" ELSE "readyCall"]
     /\ UNCHANGED <<pmVars, name, conf, ctxDone, reloads>>

ArriveTerminated(c) ==
  /\ asked[c] # Nil /\ CtxDone(asked[c])
  /\ asked' = [asked EXCEPT ![c] = Nil]
  /\ UNCHANGED <<pmVars, pathVars, reloads>>

-----------------------------------------------------------------------------
(***************************************************************************)
(* The HLS server.                                                         *)
(***************************************************************************)

SetHLSServer(attached) ==
  /\ pmState = "idle" /\ hlsServer # attached
  /\ hlsServer' = attached
  /\ UNCHANGED <<pathConfs, pmCtxDone, pmState, newPaths, todo, waitFor, paths, ready,
                 confName, notice, pathVars, reloads, asked>>

(* The server takes the notice, or is closing and the call gives up.       *)
NotifyReturns ==
  /\ pmState = "notifying"
  /\ pmState' = "idle"
  /\ notice' = Nil
  /\ UNCHANGED <<pathConfs, pmCtxDone, newPaths, todo, waitFor, paths, ready, confName,
                 hlsServer, pathVars, reloads, asked>>

-----------------------------------------------------------------------------
(***************************************************************************)
(* Termination.                                                            *)
(***************************************************************************)
Close ==
  /\ ~pmCtxDone
  /\ pmCtxDone' = TRUE
  /\ UNCHANGED <<pathConfs, pmState, newPaths, todo, waitFor, paths, ready, confName,
                 hlsServer, notice, pathVars, reloads, asked>>

Stop ==
  /\ pmState = "idle" /\ pmCtxDone
  /\ pmState' = "stopped"
  /\ UNCHANGED <<pathConfs, pmCtxDone, newPaths, todo, waitFor, paths, ready, confName,
                 hlsServer, notice, pathVars, reloads, asked>>

-----------------------------------------------------------------------------
(* The goroutine of the path, outside of its select.                       *)
PathCall(i) ==
  \/ PathReady(i)
  \/ PathNotReady(i)
  \/ PathOverridden(i)
  \/ ClosePath(i)
  \/ PathCleanup(i)
  \/ PathFinalNotReady(i)

(* The manager, and the paths in their select.                             *)
ManagerNext ==
  \/ \E new \in Configs : ReloadPathConfs(new)
  \/ \E n \in Names : ReloadPath(n)
  \/ PathWaitReturns
  \/ ReloadPathsDone
  \/ \E n \in Names, i \in Ids : CreateStaticPath(n, i)
  \/ CreateStaticPathsDone
  \/ \E i \in Ids : \/ StaticSourceUp(i)
                    \/ Leave(i)
                    \/ PathTerminated(i)
                    \/ \E new \in PathConfs : PathReloadConf(i, new) \/ PathReloadConfDropped(i, new)
  \/ Close
  \/ Stop

ClientNext(c) ==
  \/ \E n \in Names : Request(c, n)
  \/ Arrive(c)
  \/ ArriveTerminated(c)

Next ==
  \/ ManagerNext
  \/ \E i \in Ids : PathCall(i)
  \/ \E c \in Clients : ClientNext(c)
  \/ \E attached \in BOOLEAN : SetHLSServer(attached)
  \/ NotifyReturns

Spec == Init /\ [][Next]_vars

(***************************************************************************)
(* The goroutines run: the manager, the paths, the HLS server and sessions *)
(* that hold a path.  Go's select picks at random among the cases that are *)
(* ready, so a context that is done is noticed however busy the loop is:   *)
(* that is strong fairness.  For the rest weak fairness will do.  Clients, *)
(* sources and whoever reloads are free never to act.                      *)
(***************************************************************************)
ManagerFairness ==
  /\ WF_vars(\E n \in Names : ReloadPath(n))
  /\ WF_vars(\E n \in Names, i \in Ids : CreateStaticPath(n, i))
  /\ WF_vars(PathWaitReturns)
  /\ WF_vars(ReloadPathsDone)
  /\ WF_vars(CreateStaticPathsDone)
  /\ SF_vars(Stop)
  /\ \A i \in Ids : /\ WF_vars(PathCall(i))
                    /\ SF_vars(PathTerminated(i))

Fairness ==
  /\ ManagerFairness
  /\ WF_vars(NotifyReturns)
  /\ \A c \in Clients : WF_vars(ArriveTerminated(c))

FairSpec == Spec /\ Fairness
-----------------------------------------------------------------------------
(***************************************************************************)
(* Properties.                                                             *)
(***************************************************************************)

(* "avoid conflicts between sources" (removeAndClosePath): the static      *)
(* source of a path that is recreated, or is configured again under the    *)
(* same name, does not start before the previous one has ended.  (It may,  *)
(* when a request reaches a manager that is closing.)                      *)
NoConflictingSources ==
  ~pmCtxDone => \A i, j \in Ids : Alive(i) /\ Alive(j) /\ i # j /\ name[i] = name[j] =>
                  ~conf[i].static \/ ~conf[j].static

(* What the manager hands out is a path that serves: pm.paths never points *)
(* to a path under another name or one whose context is cancelled, so a    *)
(* client is sent to a dead path only if the path dies in between.         *)
ListedPathsServe ==
  \A n \in Names : paths[n] # Nil /\ ~pmCtxDone =>
    /\ name[paths[n]] = n /\ Alive(paths[n])
    /\ ~ctxDone[paths[n]]

(* Every path that is not on its way out can be found by its name: none    *)
(* serves on unseen by clients, by the API and by reloads.                 *)
ServingPathsListed ==
  \A i \in Ids : Alive(i) /\ ~ctxDone[i] => paths[name[i]] = i

(* The manager's copy of the readiness of a path agrees with the path      *)
(* whenever the path is not about to report a change.                      *)
ReadyFlagFollowsPath ==
  \A n \in Names : paths[n] # Nil /\ step[paths[n]] = "running" /\ ~pmCtxDone =>
    ready[n] = stream[paths[n]]

(* The table of the manager and the paths agree, whatever reports, reloads *)
(* and requests are under way.                                             *)
TableFollowsPaths == ListedPathsServe /\ ServingPathsListed /\ ReadyFlagFollowsPath

(* In all settings that cannot be changed in place, every listed path runs *)
(* what the configuration says, whichever configuration its name moved to  *)
(* and in whatever order the reloads reach it.                             *)
FixedConfInForce ==
  pmState \in {"idle", "notifying"} /\ ~pmCtxDone =>
    \A n \in Names : paths[n] # Nil =>
      /\ IsConfigured(pathConfs, n)
      /\ confName[n] = FindPathConf(pathConfs, n).key
      /\ PathConfCanBeUpdated(conf[paths[n]], FindPathConf(pathConfs, n))

(* docs/2-usage/04-configuration.md: changes of the configuration are      *)
(* detected and applied.  So once no reload is under way every path has    *)
(* the configuration the manager has for it.  The code does not keep it,   *)
(* see the README.                                                         *)
ChangesApplied ==
  pmState = "idle" /\ ~pmCtxDone =>
    \A n \in Names :
      paths[n] # Nil /\ (\A r \in reloads : r[1] # paths[n]) =>
        conf[paths[n]] = FindPathConf(pathConfs, n)

(* A configured static source always has its path.                         *)
StaticSourcesExist ==
  pmState \in {"idle", "notifying"} /\ ~pmCtxDone =>
    \A n \in Names \cap DOMAIN pathConfs : pathConfs[n].static => paths[n] # Nil

(* Through any reloads the paths are those of the configuration in force.  *)
ConfigurationInForce == FixedConfInForce /\ StaticSourcesExist

(* The manager, its paths and the HLS server never wait for each other in  *)
(* a circle: whatever the manager is doing, it gets back to its select.    *)
ManagerReturns == pmState \notin {"idle", "stopped"} ~> pmState \in {"idle", "stopped"}

(* Closing the manager ends every path and releases the clients.           *)
CloseEnds ==
  pmCtxDone ~> /\ pmState = "stopped"
               /\ \A i \in Ids : ~Alive(i)
               /\ \A c \in Clients : asked[c] = Nil

(* Nobody around the manager waits for ever.                               *)
NoDeadlock == ManagerReturns /\ CloseEnds
=============================================================================
