-------------------------------- MODULE Core --------------------------------
(***************************************************************************)
(* The core (core/core.go): it creates the components, replaces the ones   *)
(* whose settings change and closes them all at the end.  Configurations   *)
(* reach it from the file watcher and from the requests of the control     *)
(* API, which edit a copy of their own.                                    *)
(*                                                                         *)
(* A configuration gives each group of settings a value; module            *)
(* Configuration says what is in it and how it is edited.                  *)
(***************************************************************************)
EXTENDS Naturals, Sequences, FiniteSets

CONSTANTS
  Requests,   (* requests to the API that edit the configuration           *)
  ApiIds,     (* instances of the API that exist at a time                 *)
  Touched,    (* settings that may be edited: of a behaviour, one and the paths *)
  Values,     (* the values edits give                                     *)
  HasFile,    (* whether there is a configuration file: a set of BOOLEAN   *)
  Nil,
  Invalid,    (* content of a file that is not valid                       *)
  Gone,       (* the file does not exist                                   *)
  MaxChanges  (* bound on writes of the file, requests and errors          *)

CreateOrder ==
  <<"logger", "auth", "metrics", "pprof", "cleaner", "playback", "pathManager", "rtsp", "rtsps",
    "rtmp", "rtmps", "hls", "webrtc", "srt", "api">>
Components == {CreateOrder[i] : i \in DOMAIN CreateOrder}
Rank == [c \in Components |-> CHOOSE i \in DOMAIN CreateOrder : CreateOrder[i] = c]
Before(c, d) == Rank[c] < Rank[d]

RTSPServers == {"rtsp", "rtsps"}
RTMPServers == {"rtmp", "rtmps"}
Servers == RTSPServers \cup RTMPServers \cup {"hls", "webrtc", "srt"}
HTTPServers == {"metrics", "pprof", "playback", "hls", "webrtc", "api"}

(* The groups of settings, and the components that are created with them.  *)
UsedBy ==
  [log |-> {"logger"}, auth |-> {"auth"}, users |-> {"auth"},
   paths |-> {"cleaner", "playback", "pathManager"},
   readTimeout |-> {"auth", "pathManager"} \cup HTTPServers \cup Servers,
   writeTimeout |-> {"pathManager", "srt"} \cup RTSPServers \cup RTMPServers,
   writeQueueSize |-> {"pathManager"} \cup RTSPServers,
   udpMaxPayloadSize |-> {"pathManager", "srt"},
   runOnConnect |-> RTSPServers \cup RTMPServers \cup {"srt"},
   rtspAddress |-> {"pathManager", "srt"} \cup RTSPServers \cup RTMPServers,
   rtspEncryption |-> {"pathManager"} \cup RTSPServers,
   rtsp |-> RTSPServers, rtspTransports |-> RTSPServers, multicastIPRange |-> RTSPServers,
   rtpAddress |-> {"rtsp"}, srtpAddress |-> {"rtsps"}, rtspsAddress |-> {"rtsps"},
   rtmp |-> RTMPServers, rtmpEncryption |-> RTMPServers,
   rtmpAddress |-> {"rtmp"}, rtmpsAddress |-> {"rtmps"},
   metrics |-> {"metrics"}, pprof |-> {"pprof"}, playback |-> {"playback"},
   hls |-> {"hls"}, webrtc |-> {"webrtc"}, srt |-> {"srt"}, api |-> {"api"}]
Settings == DOMAIN UsedBy
Confs == [Settings -> 0..2]
SettingsOf(c) == {s \in Settings : c \in UsedBy[s]}

ASSUME EditsAssumption == Touched \subseteq Settings /\ Values \subseteq 0..2 /\ MaxChanges \in Nat

ASSUME NilAssumption ==
  Nil \notin ApiIds /\ \A c \in Components : Nil \notin [SettingsOf(c) -> 0..2]

(* There is always a name for a new instance: the requests of the old ones *)
(* never take all.                                                         *)
ASSUME EnoughInstances ==
  \A f \in [Requests -> ApiIds \cup {Nil}] : \E i \in ApiIds : \A r \in Requests : f[r] # i

(* The comparisons closeResources makes of the two configurations.  Users  *)
(* and paths are handed over in place.  Of the RTSPS server, the multicast *)
(* range and the SRTP addresses are not compared.                          *)
ComparedBy ==
  [UsedBy EXCEPT !.users = {}, !.paths = {}, !.multicastIPRange = {"rtsp"}, !.srtpAddress = {}]

(* The components whose pointer each component keeps.                      *)
PointsTo ==
  [c \in Components |->
     CASE c = "api" -> {"auth", "pathManager"} \cup Servers
       [] c \in Servers -> {"metrics", "pathManager"}
       [] c = "pathManager" -> {"auth", "metrics"}
       [] c \in {"metrics", "pprof", "playback"} -> {"auth"}
       [] OTHER -> {}]

(* The components that are closed when another one is: closeAPI does not   *)
(* look at closeRTMPSServer, closeSRTServer not at closeMetrics.           *)
ClosedWith_APIForgetsRTSP ==
  [c \in Components |->
     CASE c = "api" -> {"auth", "pathManager", "logger"} \cup (Servers \ {"rtsp", "rtmps"})
       [] c = "srt" -> {"pathManager", "logger"}
       [] c \in Servers \ {"srt"} -> {"metrics", "pathManager", "logger"}
       [] c = "pathManager" -> {"metrics", "auth", "logger"}
       [] c \in {"metrics", "pprof", "playback"} -> {"auth", "logger"}
       [] c = "cleaner" -> {"logger"}
       [] OTHER -> {}]
ClosedWith ==
  [c \in Components |->
     CASE c = "api" -> {"auth", "pathManager", "logger"} \cup (Servers \ {"rtmps"})
       [] c = "srt" -> {"pathManager", "logger"}
       [] c \in Servers \ {"srt"} -> {"metrics", "pathManager", "logger"}
       [] c = "pathManager" -> {"metrics", "auth", "logger"}
       [] c \in {"metrics", "pprof", "playback"} -> {"auth", "logger"}
       [] c = "cleaner" -> {"logger"}
       [] OTHER -> {}]

(* Values: 0 is off; the second value of `paths' has record files to       *)
(* delete; encryption is no (0), optional (1) or strict (2).               *)
AtLeastOneRecordDeleteAfter(conf) == conf.paths = 2
Enabled(c, conf) ==
  CASE c \in {"metrics", "pprof", "playback", "hls", "webrtc", "srt", "api"} -> conf[c] # 0
    [] c = "cleaner" -> AtLeastOneRecordDeleteAfter(conf)
    [] c = "rtsp"  -> conf.rtsp # 0 /\ conf.rtspEncryption # 2
    [] c = "rtsps" -> conf.rtsp # 0 /\ conf.rtspEncryption # 0
    [] c = "rtmp"  -> conf.rtmp # 0 /\ conf.rtmpEncryption # 2
    [] c = "rtmps" -> conf.rtmp # 0 /\ conf.rtmpEncryption # 0
    [] OTHER -> TRUE

(* The close... flags: a component is closed when a setting it is compared *)
(* by changes, or one of a component it is closed with, in one step or in  *)
(* up to four.                                                             *)
Doubled(with) == [c \in Components |-> with[c] \cup UNION {with[d] : d \in with[c]}]
ClosedWithAll == Doubled(Doubled(ClosedWith))
Sensitive ==
  [c \in Components |-> {s \in Settings : ComparedBy[s] \cap ({c} \cup ClosedWithAll[c]) # {}}]
MustClose(c, old, new) ==
  \/ \E s \in Sensitive[c] : old[s] # new[s]
  \/ c = "cleaner" /\ AtLeastOneRecordDeleteAfter(old) # AtLeastOneRecordDeleteAfter(new)

VARIABLES
  conf,     (* p.conf                                                      *)
  newConf,  (* the configuration a reload is about, or Nil                   *)
  byAPI,    (* calledByAPI                                                 *)
  core,     (* where run() is, see TypeOK                                  *)
  up,       (* the components that exist                                   *)
  closing,  (* those closeResources has still to close                     *)
  built,    (* of each component, the settings it works with               *)
  outdated, (* <<c, d>>: c keeps a pointer to a d that was replaced         *)
  api,      (* the instance p.api points to, or Nil                          *)
  apiConf,  (* of each instance: a.Conf                                    *)
  at,       (* of each request: "idle" | "arrived" | "sending" (in         *)
            (* APIConfigSet, a.mutex held) | "posted" (go APIConfigSet)    *)
  of,       (* its instance of the API                                     *)
  sent,     (* the configuration it brings                                 *)
  file,     (* content of the file: a configuration, Invalid or Gone       *)
  watcher,  (* "none" | "idle" | "signalling" | "broken" | "ended"         *)
  events,   (* events of the file wait in fsnotify                         *)
  recent,   (* less than a second since lastCalled                         *)
  noticed,  (* the file has changed and the watcher does not ignore it     *)
  raced,    (* two configurations were on their way to the core            *)
  touched,  (* the setting that is edited besides the paths                *)
  changes

coreVars == <<conf, newConf, byAPI, core, up, closing, built, outdated>>
apiVars  == <<api, apiConf, at, of, sent>>
fileVars == <<file, watcher, events, recent, noticed, touched>>
vars == <<coreVars, apiVars, fileVars, raced, changes>>

TypeOK ==
  /\ conf \in Confs /\ newConf \in Confs \cup {Nil} /\ byAPI \in BOOLEAN
  /\ core \in {"select", "reloading", "closing", "creating", "ending", "ended", "panicked"}
  /\ up \subseteq Components /\ closing \subseteq up
  /\ outdated \subseteq up \X Components
  /\ api \in ApiIds \cup {Nil} /\ (api # Nil <=> "api" \in up)
  /\ apiConf \in [ApiIds -> Confs \cup {Nil}]
  /\ at \in [Requests -> {"idle", "arrived", "sending", "posted"}]
  /\ of \in [Requests -> ApiIds \cup {Nil}]
  /\ sent \in [Requests -> Confs \cup {Nil}]
  /\ file \in Confs \cup {Invalid, Gone} /\ touched \in Touched
  /\ watcher \in {"none", "idle", "signalling", "broken", "ended"}
  /\ raced \in BOOLEAN
  /\ changes \in 0..MaxChanges

DefaultConf == [s \in Settings |-> 1]

Init ==
  /\ conf = DefaultConf
  /\ newConf = Nil /\ byAPI = FALSE
  /\ core = "creating"
  /\ up = {} /\ closing = {} /\ outdated = {}
  /\ built = [c \in Components |-> Nil]
  /\ api = Nil
  /\ apiConf = [i \in ApiIds |-> Nil]
  /\ at = [r \in Requests |-> "idle"]
  /\ of = [r \in Requests |-> Nil]
  /\ sent = [r \in Requests |-> Nil]
  /\ file = DefaultConf
  /\ \E hasFile \in HasFile : watcher = IF hasFile THEN "idle" ELSE "none"
  /\ events = FALSE /\ recent = FALSE /\ noticed = FALSE
  /\ raced = FALSE /\ changes = 0 /\ touched \in Touched

(* A handler returns, and its variables are gone.                          *)
Return(r) ==
  /\ at' = [at EXCEPT ![r] = "idle"]
  /\ of' = [of EXCEPT ![r] = Nil]
  /\ sent' = [sent EXCEPT ![r] = Nil]

CtxDone == core \in {"ending", "ended", "panicked"}
MutexFree(i) == \A r \in Requests : at[r] = "sending" => of[r] # i
Underway == {r \in Requests : at[r] \in {"sending", "posted"}}

-----------------------------------------------------------------------------
(***************************************************************************)
(* Creating and closing.                                                   *)
(***************************************************************************)

Missing == {c \in Components : Enabled(c, conf) /\ c \notin up}

(* createResources creates in order what does not exist.                   *)
CreateNext ==
  /\ core = "creating"
  /\ \E c \in Missing :
       /\ \A d \in Missing \ {c} : Before(c, d)
       /\ up' = up \cup {c}
       /\ built' = [built EXCEPT ![c] = [s \in SettingsOf(c) |-> conf[s]]]
       /\ outdated' = outdated \cup {<<e, c>> : e \in {e \in up : c \in PointsTo[e]}}
       /\ IF c = "api"
          THEN /\ api' = CHOOSE i \in ApiIds : \A r \in Requests : of[r] # i
               /\ apiConf' = [i \in ApiIds |->
                    IF i = api' THEN conf
                    ELSE IF \E r \in Requests : of[r] = i THEN apiConf[i] ELSE Nil]
               /\ raced' = (Underway # {})
          ELSE UNCHANGED <<api, apiConf, raced>>
  /\ UNCHANGED <<conf, newConf, byAPI, core, closing, at, of, sent, fileVars, changes>>

CreateDone ==
  /\ core = "creating" /\ Missing = {}
  /\ core' = "select"
  /\ newConf' = Nil
  /\ UNCHANGED <<conf, byAPI, up, closing, built, outdated, apiVars, fileVars, raced, changes>>

(* break outer, ctxCancel and closeResources(nil, false), which begins     *)
(* with the watcher.                                                       *)
Shutdown ==
  /\ core' = "ending"
  /\ closing' = up
  /\ newConf' = Nil
  /\ watcher' = IF watcher = "none" THEN "none" ELSE "ended"
  /\ noticed' = FALSE

(* A listener, a certificate or the log file cannot be opened.  run() logs *)
(* the error, through a logger that is nil when it is the logger's.        *)
CreateFails ==
  /\ core = "creating" /\ changes < MaxChanges
  /\ \E c \in Missing \ {"auth", "cleaner", "pathManager"} :
       /\ \A d \in Missing \ {c} : Before(c, d)
       /\ IF c = "logger"
          THEN core' = "panicked" /\ UNCHANGED <<closing, newConf, watcher, noticed>>
          ELSE Shutdown
  /\ changes' = changes + 1
  /\ UNCHANGED <<conf, byAPI, up, built, outdated, apiVars, file, events, recent, raced, touched>>

Removed(c) ==
  /\ up' = up \ {c}
  /\ closing' = closing \ {c}
  /\ built' = [built EXCEPT ![c] = Nil]
  /\ outdated' = {p \in outdated : p[1] # c} \cup {<<e, c>> : e \in {e \in up : c \in PointsTo[e]}}

(* closeResources closes in the opposite order.  The API comes first; its  *)
(* requests in progress are not waited for.                                *)
CloseNext ==
  /\ core \in {"closing", "ending"}
  /\ \E c \in closing :
       /\ \A d \in closing \ {c} : Before(d, c)
       /\ Removed(c)
       /\ api' = IF c = "api" THEN Nil ELSE api
  /\ UNCHANGED <<conf, newConf, byAPI, core, apiConf, at, of, sent, fileVars, raced, changes>>

CloseDone ==
  /\ core \in {"closing", "ending"} /\ closing = {}
  /\ IF core = "closing" THEN core' = "creating" /\ conf' = newConf
                         ELSE core' = "ended" /\ UNCHANGED conf
  /\ UNCHANGED <<newConf, byAPI, up, closing, built, outdated, apiVars, fileVars, raced, changes>>

(* reloadConf, up to the call of api.ReloadConf: what can be handed over   *)
(* in place is.                                                            *)
InPlace(c, new) ==
  IF c \in {"auth", "cleaner", "playback", "pathManager"}
  THEN [s \in SettingsOf(c) |-> IF s \in {"users", "paths"} THEN new[s] ELSE built[c][s]]
  ELSE built[c]

ReloadConf(new, calledByAPI) ==
  /\ closing' = {c \in up : MustClose(c, conf, new)}
  /\ built' = [c \in Components |->
                 IF c \in up /\ ~MustClose(c, conf, new) THEN InPlace(c, new) ELSE built[c]]
  /\ newConf' = new
  /\ byAPI' = calledByAPI
  /\ core' = IF api # Nil /\ ~calledByAPI /\ ~MustClose("api", conf, new)
             THEN "reloading" ELSE "closing"
  /\ UNCHANGED <<conf, up, outdated>>

(* api.ReloadConf takes the mutex of the API.                              *)
ApiReloadConf_KeepsCopy ==
  /\ core = "reloading" /\ MutexFree(api)
  /\ core' = "closing"
  /\ raced' = (raced \/ Underway # {})
  /\ UNCHANGED <<conf, newConf, byAPI, up, closing, built, outdated, apiVars, fileVars, changes>>
ApiReloadConf ==
  /\ core = "reloading" /\ MutexFree(api)
  /\ apiConf' = [apiConf EXCEPT ![api] = newConf]
  /\ core' = "closing"
  /\ raced' = (raced \/ Underway # {})
  /\ UNCHANGED <<conf, newConf, byAPI, up, closing, built, outdated, api, at, of, sent, fileVars, changes>>

-----------------------------------------------------------------------------
(***************************************************************************)
(* Requests to the API.                                                    *)
(***************************************************************************)

(* A request has been authenticated and its body read.                     *)
Arrive(r) ==
  /\ at[r] = "idle" /\ api # Nil /\ changes < MaxChanges
  /\ at' = [at EXCEPT ![r] = "arrived"]
  /\ of' = [of EXCEPT ![r] = api]
  /\ changes' = changes + 1
  /\ UNCHANGED <<coreVars, api, apiConf, sent, fileVars, raced>>

(* Two configurations are on their way, or one of an API that is not the   *)
(* current one: the copies may differ from now on.                         *)
Races(r) ==
  \/ Underway \ {r} # {}
  \/ of[r] # api
  \/ core = "reloading"

Edited(r, new, where) ==
  /\ apiConf' = [apiConf EXCEPT ![of[r]] = new]
  /\ sent' = [sent EXCEPT ![r] = new]
  /\ at' = [at EXCEPT ![r] = where]
  /\ raced' = (raced \/ Races(r))

(* onConfigGlobalPatch: "since reloading the configuration can cause the   *)
(* shutdown of the API, call it in a goroutine".                           *)
OnConfigGlobalPatch(r) ==
  /\ at[r] = "arrived" /\ MutexFree(of[r])
  /\ \E v \in Values : Edited(r, [apiConf[of[r]] EXCEPT ![touched] = v], "posted")
  /\ UNCHANGED <<coreVars, api, of, fileVars, changes>>

(* The handlers that edit paths and their defaults call APIConfigSet       *)
(* before they unlock the mutex.                                           *)
OnConfigPathsEdit(r) ==
  /\ at[r] = "arrived" /\ MutexFree(of[r])
  /\ \E v \in Values : Edited(r, [apiConf[of[r]] EXCEPT !.paths = v], "sending")
  /\ UNCHANGED <<coreVars, api, of, fileVars, changes>>

(* The edited configuration is not valid.                                  *)
OnConfigRefused(r) ==
  /\ at[r] = "arrived" /\ MutexFree(of[r])
  /\ Return(r)
  /\ UNCHANGED <<coreVars, api, apiConf, fileVars, raced, changes>>

(* APIConfigSet: the core takes the configuration, or is closing.          *)
ApiConfigSet(r) ==
  /\ core = "select" /\ r \in Underway
  /\ ReloadConf(sent[r], TRUE)
  /\ Return(r)
  /\ raced' = (api # Nil /\ (Underway # {r} \/ apiConf[api] # sent[r]) /\ raced)
  /\ UNCHANGED <<api, apiConf, fileVars, changes>>

ApiConfigSetTerminated(r) ==
  /\ CtxDone /\ r \in Underway
  /\ Return(r)
  /\ UNCHANGED <<coreVars, api, apiConf, fileVars, raced, changes>>

(* The requests that read: the server has no route, or was closed under    *)
(* the API that asks it, or answers.                                       *)
ListStatus(d) ==
  IF built["api"] = Nil \/ (d \notin up /\ <<"api", d>> \notin outdated) THEN 404
  ELSE IF <<"api", d>> \in outdated THEN 500 ELSE 200

-----------------------------------------------------------------------------
(***************************************************************************)
(* The configuration file and its watcher (confwatcher/confwatcher.go).    *)
(***************************************************************************)

FileContents ==
  {[conf EXCEPT ![s] = v] : s \in {touched, "paths"}, v \in Values} \cup {Invalid, Gone}

WriteFile ==
  /\ watcher # "none" /\ changes < MaxChanges
  /\ file' \in FileContents
  /\ events' = TRUE
  /\ changes' = changes + 1
  /\ UNCHANGED <<coreVars, apiVars, watcher, recent, noticed, raced, touched>>

TakeEvent_NoWait ==
  /\ watcher = "idle" /\ events
  /\ events' = FALSE
  /\ IF recent \/ file = Gone THEN UNCHANGED <<watcher, recent, noticed>>
     ELSE /\ watcher' = IF core = "select" THEN "signalling" ELSE "idle"
          /\ recent' = TRUE /\ noticed' = TRUE
  /\ UNCHANGED <<coreVars, apiVars, file, raced, changes, touched>>
TakeEvent ==
  /\ watcher = "idle" /\ events
  /\ events' = FALSE
  /\ IF recent \/ file = Gone THEN UNCHANGED <<watcher, recent, noticed>>
     ELSE watcher' = "signalling" /\ recent' = TRUE /\ noticed' = TRUE
  /\ UNCHANGED <<coreVars, apiVars, file, raced, changes, touched>>

SecondPasses ==
  /\ recent
  /\ recent' = FALSE
  /\ UNCHANGED <<coreVars, apiVars, file, watcher, events, noticed, raced, changes, touched>>

(* <-w.inner.Errors: run() ends and closes the channel core selects on.    *)
WatcherFails ==
  /\ watcher = "idle" /\ changes < MaxChanges
  /\ watcher' = "broken"
  /\ changes' = changes + 1
  /\ UNCHANGED <<coreVars, apiVars, file, events, recent, noticed, raced, touched>>

(* case <-confChanged: the file is loaded, whatever the API was told.      *)
ConfChanged ==
  /\ core = "select" /\ watcher \in {"signalling", "broken"}
  /\ IF file \in {Invalid, Gone}
     THEN Shutdown /\ UNCHANGED <<conf, byAPI, up, built, outdated>>
     ELSE /\ ReloadConf(file, FALSE)
          /\ watcher' = IF watcher = "signalling" THEN "idle" ELSE watcher
          /\ noticed' = FALSE
  /\ raced' = (raced \/ Underway # {})
  /\ UNCHANGED <<apiVars, file, events, recent, changes, touched>>

(* A signal, or Core.Close().                                              *)
Interrupt ==
  /\ core = "select"
  /\ Shutdown
  /\ UNCHANGED <<conf, byAPI, up, built, outdated, apiVars, file, events, recent, raced, changes, touched>>

Next ==
  \/ CreateNext \/ CreateDone \/ CreateFails \/ CloseNext \/ CloseDone \/ ApiReloadConf
  \/ \E r \in Requests :
       \/ Arrive(r) \/ OnConfigGlobalPatch(r) \/ OnConfigPathsEdit(r) \/ OnConfigRefused(r)
       \/ ApiConfigSet(r) \/ ApiConfigSetTerminated(r)
  \/ WriteFile \/ TakeEvent \/ SecondPasses \/ WatcherFails \/ ConfChanged \/ Interrupt

Spec == Init /\ [][Next]_vars

(* The loop of the core and the goroutines it waits for go on; a select    *)
(* that is ready again and again for a sender takes it at last.            *)
Fairness ==
  /\ WF_vars(CreateNext \/ CreateDone \/ CloseNext \/ CloseDone \/ ApiReloadConf)
  /\ \A r \in Requests : SF_vars(ApiConfigSet(r)) /\ WF_vars(ApiConfigSetTerminated(r))
  /\ SF_vars(ConfChanged) /\ WF_vars(TakeEvent)
FairSpec == Spec /\ Fairness

-----------------------------------------------------------------------------
(***************************************************************************)
(* Properties.                                                             *)
(***************************************************************************)

(* closeResources: whatever is replaced, also in the middle of it, no      *)
(* component works with a component that was closed or replaced.  The API  *)
(* is the exception: when only the RTMPS server is replaced it keeps the   *)
(* pointer to the old one, and its requests fail until it is recreated.    *)
PointersAreCurrent ==
  /\ outdated \subseteq {<<"api", "rtmps">>}
  /\ core = "select" /\ api # Nil =>
       \A d \in Servers \ {"rtmps"} : ListStatus(d) = IF Enabled(d, conf) THEN 200 ELSE 404

(* Between reloads the components that are enabled exist, no others, and   *)
(* each works with the settings in force, whichever was handed over in     *)
(* place and whichever needed a new instance.  The exception are the       *)
(* multicast range and the SRTP addresses of the RTSPS server.             *)
SettingsInForce ==
  core = "select" =>
    /\ up = {c \in Components : Enabled(c, conf)}
    /\ \A c \in up : \A s \in SettingsOf(c) :
         <<c, s>> \notin {<<"rtsps", "multicastIPRange">>, <<"rtsps", "srtpAddress">>}
           => built[c][s] = conf[s]

(* At rest the configuration the API shows and edits is the one in force,  *)
(* unless two configurations were on their way at the same time: then one  *)
(* of them is lost, and the API does not learn which.                      *)
CopiesAgree ==
  core = "select" /\ api # Nil /\ Underway = {} /\ ~raced => apiConf[api] = conf

(* Between changes there is one configuration: what every component works  *)
(* with, what the API shows and what the core has are the same.            *)
OneConfiguration == SettingsInForce /\ CopiesAgree

(* A handler that edits paths keeps the mutex of the API while it waits    *)
(* for the core, and the core, told of the file, waits for the mutex.      *)
Stuck == core = "reloading" /\ ~MutexFree(api)

(* Every accepted edit reaches the core or finds it closing, whatever is   *)
(* replaced meanwhile, the API itself included.                            *)
EditsReachCore ==
  \A r \in Requests : (at[r] \in {"sending", "posted"}) ~> (at[r] = "idle" \/ Stuck)

(* A change of the file the watcher does not ignore is loaded.             *)
FileIsLoaded == noticed ~> (~noticed \/ Stuck \/ core = "panicked")

(* No change gets lost on its way to the core.                             *)
ChangesArrive == EditsReachCore /\ FileIsLoaded

(* docs/2-usage/04-configuration.md: "Changes are detected and applied".   *)
(* So a reload that began ends.  The code does not keep it (Stuck), see    *)
(* the README.                                                             *)
ReloadsEnd == (core = "reloading") ~> (core \in {"select", "ended", "panicked"})
=============================================================================
