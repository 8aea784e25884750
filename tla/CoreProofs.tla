----------------------------- MODULE CoreProofs -----------------------------
(***************************************************************************)
(* Proofs about Core: for any number of requests, any edits and any        *)
(* settings, no component works with one that was closed or replaced, and  *)
(* between reloads there is one configuration.                             *)
(*                                                                         *)
(* The first part is about the tables of closeResources alone, the second  *)
(* one about the steps.  The argument looks at the configuration that is   *)
(* coming and at the components that stay: at every point of a reload the  *)
(* components that stay fit the configuration that is coming.              *)
(***************************************************************************)
EXTENDS Core, TLAPS

(* The pointer closeAPI forgets, and the settings that are not compared.   *)
Excepted(e, c) == e = "api" /\ c = "rtmps"
Unapplied == {<<"rtsps", "multicastIPRange">>, <<"rtsps", "srtpAddress">>}

-----------------------------------------------------------------------------
(***************************************************************************)
(* The tables.                                                             *)
(***************************************************************************)

Names ==
  {"logger", "auth", "metrics", "pprof", "cleaner", "playback", "pathManager", "rtsp", "rtsps",
   "rtmp", "rtmps", "hls", "webrtc", "srt", "api"}

(* The components of the list are these fifteen.                           *)
LEMMA ComponentNames == Components = Names
<1>1. DOMAIN CreateOrder = 1..15
  BY DEF CreateOrder
<1>2. \A i \in 1..15 : CreateOrder[i] \in Names
  BY DEF CreateOrder, Names
<1>3. \A c \in Names : \E i \in 1..15 : CreateOrder[i] = c
  BY DEF CreateOrder, Names
<1>4. QED
  BY <1>1, <1>2, <1>3 DEF Components

(* The rank of a component is its place in the list.                       *)
LEMMA Places ==
  ASSUME NEW i \in 1..15
  PROVE  Rank[CreateOrder[i]] = i
<1>1. DOMAIN CreateOrder = 1..15
  BY DEF CreateOrder
<1>2. \A j \in 1..15 : CreateOrder[j] = CreateOrder[i] => j = i
  BY DEF CreateOrder
<1>3. CreateOrder[i] \in Components
  BY <1>1 DEF Components
<1>4. QED
  BY <1>1, <1>2, <1>3 DEF Rank

LEMMA Ranks ==
  /\ Rank["logger"] = 1 /\ Rank["auth"] = 2 /\ Rank["metrics"] = 3 /\ Rank["pprof"] = 4
  /\ Rank["cleaner"] = 5 /\ Rank["playback"] = 6 /\ Rank["pathManager"] = 7
  /\ Rank["rtsp"] = 8 /\ Rank["rtsps"] = 9 /\ Rank["rtmp"] = 10 /\ Rank["rtmps"] = 11
  /\ Rank["hls"] = 12 /\ Rank["webrtc"] = 13 /\ Rank["srt"] = 14 /\ Rank["api"] = 15
BY Places DEF CreateOrder

(* A component keeps pointers only to components created before it.        *)
LEMMA PointsBack ==
  ASSUME NEW e \in Components, NEW c \in PointsTo[e]
  PROVE  Before(c, e) /\ c \in Components /\ e # c /\ ~Before(e, c)
<1>1. e \in Names
  BY ComponentNames
<1>2. c \in Names /\ Rank[c] < Rank[e] /\ Rank[c] \in Nat /\ Rank[e] \in Nat
  BY <1>1, Ranks DEF PointsTo, Names, Components, Servers, RTSPServers, RTMPServers
<1>3. QED
  BY <1>2, ComponentNames DEF Before


(* What is closed with what, over all steps.                               *)
LEMMA ClosedWithAllValues ==
  ASSUME NEW c \in Components
  PROVE  ClosedWithAll[c] =
    CASE c = "api" -> {"auth", "pathManager", "logger", "metrics"} \cup (Servers \ {"rtmps"})
      [] c \in Servers -> {"metrics", "pathManager", "auth", "logger"}
      [] c = "pathManager" -> {"metrics", "auth", "logger"}
      [] c \in {"metrics", "pprof", "playback"} -> {"auth", "logger"}
      [] c = "cleaner" -> {"logger"}
      [] OTHER -> {}
<1>. DEFINE Once == Doubled(ClosedWith)
            S == {"rtsp", "rtsps", "rtmp", "rtmps", "hls", "webrtc", "srt"}
<1>1. Servers = S /\ \A d \in Components : d \in Names
  BY ComponentNames DEF Servers, RTSPServers, RTMPServers
<1>2. /\ ClosedWith["logger"] = {} /\ ClosedWith["auth"] = {} /\ ClosedWith["cleaner"] = {"logger"}
      /\ \A d \in {"metrics", "pprof", "playback"} : ClosedWith[d] = {"auth", "logger"}
      /\ ClosedWith["pathManager"] = {"metrics", "auth", "logger"}
      /\ ClosedWith["srt"] = {"pathManager", "logger"}
      /\ \A d \in S \ {"srt"} : ClosedWith[d] = {"metrics", "pathManager", "logger"}
      /\ ClosedWith["api"] = {"auth", "pathManager", "logger"} \cup (S \ {"rtmps"})
  BY <1>1, ComponentNames DEF ClosedWith, Names
<1>3. \A d \in Components : Once[d] = ClosedWith[d] \cup UNION {ClosedWith[x] : x \in ClosedWith[d]}
  BY DEF Doubled
<1>4. \A d \in Components : ClosedWithAll[d] = Once[d] \cup UNION {Once[x] : x \in Once[d]}
  BY DEF Doubled, ClosedWithAll
<1>. HIDE DEF Once
<1>5. /\ Once["logger"] = {} /\ Once["auth"] = {} /\ Once["cleaner"] = {"logger"}
      /\ \A d \in {"metrics", "pprof", "playback"} : Once[d] = {"auth", "logger"}
      /\ Once["pathManager"] = {"metrics", "auth", "logger"}
      /\ \A d \in S : Once[d] = {"metrics", "pathManager", "auth", "logger"}
      /\ Once["api"] = {"auth", "pathManager", "logger", "metrics"} \cup (S \ {"rtmps"})
  <2>1. /\ Once["logger"] = {} /\ Once["auth"] = {} /\ Once["cleaner"] = {"logger"}
        /\ Once["pathManager"] = {"metrics", "auth", "logger"}
    BY <1>2, <1>3, ComponentNames DEF Names
  <2>2. ASSUME NEW d \in {"metrics", "pprof", "playback"} PROVE Once[d] = {"auth", "logger"}
    BY <1>2, <1>3, ComponentNames DEF Names
  <2>3. ASSUME NEW d \in S PROVE Once[d] = {"metrics", "pathManager", "auth", "logger"}
    BY <1>2, <1>3, ComponentNames DEF Names
  <2>4. Once["api"] = {"auth", "pathManager", "logger", "metrics"} \cup (S \ {"rtmps"})
    BY <1>2, <1>3, ComponentNames DEF Names
  <2>5. QED
    BY <2>1, <2>2, <2>3, <2>4
<1>6. ASSUME NEW d \in {"logger", "auth"} PROVE ClosedWithAll[d] = {}
  BY <1>4, <1>5, ComponentNames DEF Names
<1>7. ClosedWithAll["cleaner"] = {"logger"}
  BY <1>4, <1>5, ComponentNames DEF Names
<1>8. ASSUME NEW d \in {"metrics", "pprof", "playback"} PROVE ClosedWithAll[d] = {"auth", "logger"}
  BY <1>4, <1>5, ComponentNames DEF Names
<1>9. ClosedWithAll["pathManager"] = {"metrics", "auth", "logger"}
  BY <1>4, <1>5, ComponentNames DEF Names
<1>10. ASSUME NEW d \in S PROVE ClosedWithAll[d] = {"metrics", "pathManager", "auth", "logger"}
  BY <1>4, <1>5, ComponentNames DEF Names
<1>11. ClosedWithAll["api"] = {"auth", "pathManager", "logger", "metrics"} \cup (S \ {"rtmps"})
  BY <1>4, <1>5, ComponentNames DEF Names
<1>12. c \in Names
  BY ComponentNames
<1>13. QED
  BY <1>1, <1>6, <1>7, <1>8, <1>9, <1>10, <1>11, <1>12 DEF Names

(* The tables of closeResources agree with the pointers: whatever closes a  *)
(* component closes those that point to it, but for the API and RTMPS.      *)
LEMMA ClosedWithPointed ==
  ASSUME NEW e \in Components, NEW c \in PointsTo[e], ~Excepted(e, c)
  PROVE  c # "cleaner" /\ Sensitive[c] \subseteq Sensitive[e]
<1>1. c \in Components
  BY PointsBack
<1>2. c # "cleaner" /\ {c} \cup ClosedWithAll[c] \subseteq {e} \cup ClosedWithAll[e]
  <2>1. e \in Names /\ c \in Names
    BY <1>1, ComponentNames
  <2>2. CASE e = "api"
    BY <1>1, <2>1, <2>2, ClosedWithAllValues
       DEF PointsTo, Excepted, Names, Servers, RTSPServers, RTMPServers
  <2>3. CASE e \in Servers
    BY <1>1, <2>1, <2>3, ClosedWithAllValues
       DEF PointsTo, Names, Servers, RTSPServers, RTMPServers
  <2>4. CASE e \notin Servers \cup {"api"}
    BY <1>1, <2>1, <2>4, ClosedWithAllValues
       DEF PointsTo, Names, Servers, RTSPServers, RTMPServers
  <2>5. QED
    BY <2>2, <2>3, <2>4
<1>3. QED
  BY <1>1, <1>2 DEF Sensitive

(* A setting a component is created with is compared, unless it is handed   *)
(* over in place or forgotten.                                             *)
LEMMA ComparedWithUsed ==
  ASSUME NEW c \in Components, NEW s \in SettingsOf(c), s \notin {"users", "paths"},
         <<c, s>> \notin Unapplied
  PROVE  s \in Sensitive[c]
<1>1. s \in Settings /\ c \in UsedBy[s]
  BY DEF SettingsOf
<1>2. UsedBy["multicastIPRange"] = RTSPServers /\ UsedBy["srtpAddress"] = {"rtsps"}
  BY DEF UsedBy
<1>3. c \in ComparedBy[s]
  <2>1. CASE s = "multicastIPRange"
    BY <1>1, <1>2, <2>1 DEF ComparedBy, Settings, Unapplied, RTSPServers
  <2>2. CASE s = "srtpAddress"
    BY <1>1, <1>2, <2>2 DEF Unapplied
  <2>3. CASE s \notin {"multicastIPRange", "srtpAddress"}
    BY <1>1, <2>3 DEF ComparedBy, Settings
  <2>4. QED
    BY <2>1, <2>2, <2>3
<1>4. QED
  BY <1>1, <1>3 DEF Sensitive

(* Who is handed settings in place.                                        *)
LEMMA HandedOver ==
  ASSUME NEW c \in Components
  PROVE  /\ "users" \in SettingsOf(c) => c = "auth"
         /\ "paths" \in SettingsOf(c) => c \in {"cleaner", "playback", "pathManager"}
BY DEF SettingsOf, UsedBy

(* A component that a new configuration enables or disables is closed: the  *)
(* switch is among the settings that are compared.                         *)
LEMMA EnabledDepends ==
  ASSUME NEW c \in Components, NEW old \in Confs, NEW new \in Confs, ~MustClose(c, old, new)
  PROVE  Enabled(c, old) = Enabled(c, new)
<1>1. c \in Names
  BY ComponentNames
<1>2. \A s \in SettingsOf(c) : s \notin {"users", "paths"} /\ <<c, s>> \notin Unapplied => old[s] = new[s]
  BY ComparedWithUsed DEF MustClose
<1>3. /\ \A d \in {"metrics", "pprof", "playback", "hls", "webrtc", "srt", "api"} : d \in SettingsOf(d)
      /\ \A d \in {"rtsp", "rtsps"} : {"rtsp", "rtspEncryption"} \subseteq SettingsOf(d)
      /\ \A d \in {"rtmp", "rtmps"} : {"rtmp", "rtmpEncryption"} \subseteq SettingsOf(d)
  BY DEF SettingsOf, Settings, UsedBy, RTSPServers, RTMPServers
<1>4. CASE c \in {"metrics", "pprof", "playback", "hls", "webrtc", "srt", "api"}
  BY <1>2, <1>3, <1>4 DEF Enabled, Unapplied
<1>5. CASE c \in {"rtsp", "rtsps"}
  BY <1>2, <1>3, <1>5 DEF Enabled, Unapplied
<1>6. CASE c \in {"rtmp", "rtmps"}
  BY <1>2, <1>3, <1>6 DEF Enabled, Unapplied
<1>7. CASE c = "cleaner"
  BY <1>7 DEF Enabled, MustClose
<1>8. CASE c \in {"logger", "auth", "pathManager"}
  BY <1>8 DEF Enabled
<1>9. QED
  BY <1>1, <1>4, <1>5, <1>6, <1>7, <1>8 DEF Names

-----------------------------------------------------------------------------
(***************************************************************************)
(* The inductive invariant.                                                *)
(***************************************************************************)

(* The configuration the next select will have, and the components that    *)
(* will still be there.                                                    *)
Coming == IF core \in {"reloading", "closing"} THEN newConf ELSE conf
Staying == up \ closing
Working == core \in {"select", "creating", "reloading", "closing"}

Stages ==
  /\ core \in {"select", "creating"} => closing = {}
  /\ core = "select" => Missing = {}
  /\ core \in {"reloading", "closing"} => newConf \in Confs

BuiltUp ==
  /\ DOMAIN built = Components
  /\ \A c \in up : built[c] \in [SettingsOf(c) -> 0..2]

(* What is to be closed goes after everything that points to it.           *)
ClosedFirst ==
  \A c \in closing, e \in up : c \in PointsTo[e] /\ ~Excepted(e, c) => e \in closing

(* A component that stays has all it points to: nothing is created after   *)
(* it that it should know.                                                 *)
HasWhatItUses ==
  Working => \A e \in Staying : \A c \in PointsTo[e] :
    Enabled(c, Coming) /\ ~Excepted(e, c) => c \in Staying

StaysEnabled == Working => \A c \in Staying : Enabled(c, Coming)

StaysCurrent ==
  Working => \A c \in Staying : \A s \in SettingsOf(c) :
    <<c, s>> \notin Unapplied => built[c][s] = Coming[s]

Pointers == outdated \subseteq {<<"api", "rtmps">>}

ComponentsSound ==
  /\ Stages /\ BuiltUp /\ ClosedFirst /\ HasWhatItUses
  /\ StaysEnabled /\ StaysCurrent /\ Pointers

(* The instance of a request outlives it.                                  *)
RequestsSound ==
  /\ api # Nil => apiConf[api] \in Confs
  /\ core = "reloading" => api # Nil
  /\ \A r \in Requests :
       /\ at[r] # "idle" => of[r] \in ApiIds /\ apiConf[of[r]] \in Confs
       /\ r \in Underway => sent[r] \in Confs

(* As long as nothing raced, what the API shows is what is coming, or what *)
(* its one request brings.                                                 *)
CopyFollows ==
  core \in {"select", "creating", "closing"} /\ api # Nil /\ "api" \notin closing /\ ~raced =>
    \/ Underway = {} /\ apiConf[api] = Coming
    \/ \E r \in Requests : Underway = {r} /\ of[r] = api /\ sent[r] = apiConf[api]

Inv == TypeOK /\ ComponentsSound /\ RequestsSound /\ CopyFollows

(* It says what the properties need.                                       *)
LEMMA InvImplies ==
  ASSUME Inv
  PROVE  PointersAreCurrent /\ OneConfiguration
<1>1. ASSUME core = "select" PROVE up = {c \in Components : Enabled(c, conf)} /\ Staying = up /\ Coming = conf
  BY <1>1 DEF Inv, TypeOK, ComponentsSound, Stages, StaysEnabled, Working, Staying, Coming, Missing
<1>2. SettingsInForce
  BY <1>1 DEF SettingsInForce, Inv, ComponentsSound, StaysCurrent, Working, Unapplied
<1>3. CopiesAgree
  BY <1>1 DEF CopiesAgree, Inv, ComponentsSound, CopyFollows, Stages
<1>4. ASSUME core = "select", api # Nil, NEW d \in Servers \ {"rtmps"}
      PROVE  ListStatus(d) = IF Enabled(d, conf) THEN 200 ELSE 404
  <2>1. "api" \in up /\ "api" \in Components /\ d \in Components
    BY <1>4, ComponentNames DEF Inv, TypeOK, Names, Servers, RTSPServers, RTMPServers
  <2>2. built["api"] # Nil
    BY <2>1, NilAssumption DEF Inv, ComponentsSound, BuiltUp
  <2>3. <<"api", d>> \notin outdated
    BY DEF Inv, ComponentsSound, Pointers
  <2>4. d \in up <=> Enabled(d, conf)
    BY <1>1, <1>4, <2>1
  <2>5. QED
    BY <2>2, <2>3, <2>4 DEF ListStatus
<1>5. QED
  BY <1>2, <1>3, <1>4 DEF PointersAreCurrent, OneConfiguration, Inv, ComponentsSound, Pointers

LEMMA InitInv ==
  ASSUME Init
  PROVE  Inv
<1>1. DefaultConf \in Confs
  BY DEF DefaultConf, Confs
<1>2. up = {} /\ closing = {} /\ outdated = {} /\ core = "creating" /\ api = Nil /\ Underway = {}
  BY DEF Init, Underway
<1>3. TypeOK
  <2>1. /\ conf \in Confs /\ newConf = Nil /\ byAPI \in BOOLEAN /\ file \in Confs /\ raced \in BOOLEAN
    BY <1>1 DEF Init
  <2>2. touched \in Touched
    BY DEF Init
  <2>3. changes \in 0..MaxChanges
    BY EditsAssumption DEF Init
  <2>4. watcher \in {"none", "idle"}
    BY DEF Init
  <2>5. /\ apiConf \in [ApiIds -> Confs \cup {Nil}] /\ at \in [Requests -> {"idle"}]
        /\ of \in [Requests -> ApiIds \cup {Nil}] /\ sent \in [Requests -> Confs \cup {Nil}]
    BY DEF Init
  <2>6. at \in [Requests -> {"idle", "arrived", "sending", "posted"}]
    BY <2>5
  <2>7. QED
    BY <1>2, <2>1, <2>2, <2>3, <2>4, <2>5, <2>6 DEF TypeOK
<1>4. ComponentsSound
  BY <1>2 DEF Init, ComponentsSound, Stages, BuiltUp, ClosedFirst, HasWhatItUses, StaysEnabled, StaysCurrent,
     Staying, Pointers
<1>5. RequestsSound /\ CopyFollows
  BY <1>2 DEF Init, RequestsSound, CopyFollows
<1>6. QED
  BY <1>3, <1>4, <1>5 DEF Inv

(* What does not touch the core leaves the components sound.               *)
LEMMA CoreFrame ==
  ASSUME ComponentsSound, UNCHANGED coreVars
  PROVE  ComponentsSound'
BY DEF coreVars, ComponentsSound, Stages, BuiltUp, ClosedFirst, HasWhatItUses, StaysEnabled, StaysCurrent,
   Staying, Working, Coming, Pointers, Missing

(* What does not touch the requests leaves them sound.                     *)
LEMMA RequestsFrame ==
  ASSUME RequestsSound, UNCHANGED <<api, apiConf, at, of, sent>>, core' # "reloading"
  PROVE  RequestsSound'
BY DEF RequestsSound, Underway

-----------------------------------------------------------------------------
(***************************************************************************)
(* Creating and closing.                                                   *)
(***************************************************************************)

LEMMA CreateNextInv ==
  ASSUME Inv, CreateNext
  PROVE  Inv'
<1>1. PICK c \in Missing :
       /\ \A d \in Missing \ {c} : Before(c, d)
       /\ up' = up \cup {c}
       /\ built' = [built EXCEPT ![c] = [s \in SettingsOf(c) |-> conf[s]]]
       /\ outdated' = outdated \cup {<<e, c>> : e \in {e \in up : c \in PointsTo[e]}}
       /\ IF c = "api"
          THEN /\ api' = CHOOSE i \in ApiIds : \A r \in Requests : of[r] # i
               /\ apiConf' = [i \in ApiIds |->
                    IF i = api' THEN conf
                    ELSE IF \E r \in Requests : of[r] = i THEN apiConf[i] ELSE Nil]
               /\ raced' = (Underway # {})
          ELSE UNCHANGED <<api, apiConf, raced>>
  BY DEF CreateNext
<1>2. /\ core = "creating" /\ core' = core /\ conf' = conf /\ newConf' = newConf /\ byAPI' = byAPI
      /\ closing' = closing /\ UNCHANGED <<at, of, sent, file, watcher, touched, changes>>
  BY DEF CreateNext, fileVars
<1>3. /\ c \in Components /\ c \notin up /\ Enabled(c, conf)
      /\ closing = {} /\ Coming = conf /\ Coming' = conf /\ Staying = up /\ Staying' = up \cup {c} /\ Working
  BY <1>1, <1>2 DEF Missing, Inv, ComponentsSound, Stages, Coming, Staying, Working
<1>4. up \subseteq Components
  BY DEF Inv, TypeOK
<1>5. ASSUME c = "api"
      PROVE  api' \in ApiIds /\ api' # Nil /\ \A r \in Requests : of[r] # api'
  <2>1. \E i \in ApiIds : \A r \in Requests : of[r] # i
    BY EnoughInstances DEF Inv, TypeOK
  <2>2. QED
    BY <1>1, <1>5, <2>1, NilAssumption
<1>6. TypeOK'
  <2>1. outdated' \subseteq up' \X Components
    BY <1>1, <1>3, <1>4 DEF Inv, TypeOK
  <2>2. api' \in ApiIds \cup {Nil} /\ (api' # Nil <=> "api" \in up')
    BY <1>1, <1>5 DEF Inv, TypeOK
  <2>3. apiConf' \in [ApiIds -> Confs \cup {Nil}] /\ raced' \in BOOLEAN
    BY <1>1, <1>5 DEF Inv, TypeOK
  <2>4. QED
    BY <1>1, <1>2, <1>3, <1>4, <2>1, <2>2, <2>3 DEF Inv, TypeOK
<1>7. ComponentsSound'
  <2>1. Stages'
    BY <1>2, <1>3 DEF Stages
  <2>2. BuiltUp'
    <3>1. [s \in SettingsOf(c) |-> conf[s]] \in [SettingsOf(c) -> 0..2]
      BY DEF Inv, TypeOK, Confs, SettingsOf
    <3>2. QED
      BY <1>1, <1>3, <1>4, <3>1 DEF BuiltUp, Inv, ComponentsSound
  <2>3. ClosedFirst'
    BY <1>2, <1>3 DEF ClosedFirst
  <2>4. HasWhatItUses'
    <3>1. ASSUME NEW e \in up \cup {c}, NEW d \in PointsTo[e], Enabled(d, conf), ~Excepted(e, d)
          PROVE  d \in up \cup {c}
      <4>1. d \in Components /\ d # e /\ ~Before(e, d)
        BY <1>3, <1>4, PointsBack
      <4>2. CASE e = c
        BY <1>1, <3>1, <4>1, <4>2 DEF Missing
      <4>3. CASE e \in up
        BY <1>3, <3>1, <4>3 DEF Inv, ComponentsSound, HasWhatItUses
      <4>4. QED
        BY <4>2, <4>3
    <3>2. QED
      BY <1>3, <3>1 DEF HasWhatItUses
  <2>5. StaysEnabled'
    BY <1>3 DEF StaysEnabled, Inv, ComponentsSound
  <2>6. StaysCurrent'
    <3>1. ASSUME NEW d \in up \cup {c}, NEW s \in SettingsOf(d), <<d, s>> \notin Unapplied
          PROVE  built'[d][s] = conf[s]
      <4>1. CASE d = c
        BY <1>1, <1>3, <4>1 DEF Inv, ComponentsSound, BuiltUp
      <4>2. CASE d # c
        BY <1>1, <1>3, <1>4, <3>1, <4>2 DEF Inv, ComponentsSound, BuiltUp, StaysCurrent
      <4>3. QED
        BY <4>1, <4>2
    <3>2. QED
      BY <1>3, <3>1 DEF StaysCurrent
  <2>7. Pointers'
    <3>1. ASSUME NEW e \in up, c \in PointsTo[e]
          PROVE  Excepted(e, c)
      BY <1>3, <3>1 DEF Inv, ComponentsSound, HasWhatItUses
    <3>2. QED
      BY <1>1, <3>1 DEF Pointers, Inv, ComponentsSound, Excepted
  <2>8. QED
    BY <2>1, <2>2, <2>3, <2>4, <2>5, <2>6, <2>7 DEF ComponentsSound
<1>8. Underway' = Underway
  BY <1>2 DEF Underway
<1>9. CASE c = "api"
  <2>1. apiConf'[api'] = conf /\ conf \in Confs
    BY <1>1, <1>5, <1>9 DEF Inv, TypeOK
  <2>2. \A r \in Requests : of[r] \in ApiIds => apiConf'[of[r]] = apiConf[of[r]]
    BY <1>1, <1>5, <1>9
  <2>3. RequestsSound'
    BY <1>2, <1>8, <2>1, <2>2 DEF RequestsSound, Inv
  <2>4. CopyFollows'
    BY <1>1, <1>3, <1>8, <1>9, <2>1 DEF CopyFollows
  <2>5. QED
    BY <1>6, <1>7, <2>3, <2>4 DEF Inv
<1>10. CASE c # "api"
  <2>1. UNCHANGED <<api, apiConf, raced>>
    BY <1>1, <1>10
  <2>2. RequestsSound'
    BY <1>2, <2>1, RequestsFrame DEF Inv
  <2>3. CopyFollows'
    BY <1>2, <1>3, <1>8, <2>1 DEF CopyFollows, Inv
  <2>4. QED
    BY <1>6, <1>7, <2>2, <2>3 DEF Inv
<1>11. QED
  BY <1>9, <1>10

LEMMA CreateDoneInv ==
  ASSUME Inv, CreateDone
  PROVE  Inv'
<1>1. /\ core = "creating" /\ Missing = {} /\ core' = "select" /\ newConf' = Nil
      /\ UNCHANGED <<conf, byAPI, up, closing, built, outdated, api, apiConf, at, of, sent, file, watcher,
                     touched, raced, changes>>
  BY DEF CreateDone, apiVars, fileVars
<1>2. Coming' = Coming /\ Staying' = Staying /\ Working /\ Underway' = Underway /\ Missing' = {}
  BY <1>1 DEF Coming, Staying, Working, Underway, Missing
<1>3. TypeOK'
  BY <1>1 DEF Inv, TypeOK
<1>4. ComponentsSound'
  BY <1>1, <1>2 DEF Inv, ComponentsSound, Stages, BuiltUp, ClosedFirst, HasWhatItUses, StaysEnabled, StaysCurrent,
     Pointers
<1>5. RequestsSound' /\ CopyFollows'
  BY <1>1, <1>2, RequestsFrame DEF Inv, CopyFollows
<1>6. QED
  BY <1>3, <1>4, <1>5 DEF Inv

(* The end of run: everything is closed, nothing is promised any more.     *)
LEMMA ShutdownInv ==
  ASSUME Inv, Shutdown, changes' \in 0..MaxChanges, raced' \in BOOLEAN,
         UNCHANGED <<conf, byAPI, up, built, outdated, api, apiConf, at, of, sent, file, touched>>
  PROVE  Inv'
<1>1. core' = "ending" /\ closing' = up /\ newConf' = Nil
      /\ watcher' \in {"none", "idle", "signalling", "broken", "ended"}
  BY DEF Shutdown
<1>2. TypeOK'
  BY <1>1 DEF Inv, TypeOK
<1>3. ComponentsSound'
  BY <1>1 DEF Inv, ComponentsSound, Stages, BuiltUp, ClosedFirst, HasWhatItUses, StaysEnabled, StaysCurrent,
     Pointers, Working
<1>4. RequestsSound' /\ CopyFollows'
  BY <1>1, RequestsFrame DEF Inv, CopyFollows
<1>5. QED
  BY <1>2, <1>3, <1>4 DEF Inv

LEMMA CreateFailsInv ==
  ASSUME Inv, CreateFails
  PROVE  Inv'
<1>1. /\ changes' \in 0..MaxChanges /\ raced' \in BOOLEAN
      /\ UNCHANGED <<conf, byAPI, up, built, outdated, api, apiConf, at, of, sent, file, touched, raced>>
  BY EditsAssumption DEF CreateFails, apiVars, Inv, TypeOK
<1>2. CASE Shutdown
  BY <1>1, <1>2, ShutdownInv
<1>3. CASE core' = "panicked" /\ UNCHANGED <<closing, newConf, watcher, noticed>>
  <2>1. TypeOK'
    BY <1>1, <1>3 DEF Inv, TypeOK
  <2>2. ComponentsSound'
    BY <1>1, <1>3 DEF Inv, ComponentsSound, Stages, BuiltUp, ClosedFirst, HasWhatItUses, StaysEnabled,
       StaysCurrent, Pointers, Working
  <2>3. RequestsSound' /\ CopyFollows'
    BY <1>1, <1>3, RequestsFrame DEF Inv, CopyFollows
  <2>4. QED
    BY <2>1, <2>2, <2>3 DEF Inv
<1>4. QED
  BY <1>2, <1>3 DEF CreateFails

LEMMA CloseNextInv ==
  ASSUME Inv, CloseNext
  PROVE  Inv'
<1>1. PICK c \in closing :
        /\ \A d \in closing \ {c} : Before(d, c)
        /\ Removed(c)
        /\ api' = IF c = "api" THEN Nil ELSE api
  BY DEF CloseNext
<1>2. /\ core \in {"closing", "ending"} /\ core' = core
      /\ UNCHANGED <<conf, newConf, byAPI, apiConf, at, of, sent, file, watcher, touched, raced, changes>>
  BY DEF CloseNext, fileVars
<1>3. c \in up /\ up \subseteq Components /\ closing \subseteq up /\ DOMAIN built = Components
  BY <1>1 DEF Inv, TypeOK, ComponentsSound, BuiltUp
<1>4. /\ up' = up \ {c} /\ closing' = closing \ {c}
      /\ \A d \in up' : built'[d] = built[d]
      /\ DOMAIN built' = Components
      /\ outdated' = {p \in outdated : p[1] # c} \cup {<<e, c>> : e \in {e \in up : c \in PointsTo[e]}}
  BY <1>1, <1>3 DEF Removed
<1>5. Coming' = Coming /\ Staying' = Staying /\ Working' = Working /\ Underway' = Underway
  BY <1>1, <1>2, <1>4 DEF Coming, Staying, Working, Underway
<1>6. ASSUME NEW e \in up, c \in PointsTo[e]
      PROVE  e # c /\ Excepted(e, c)
  <2>1. e # c /\ ~Before(e, c)
    BY <1>3, <1>6, PointsBack
  <2>2. QED
    BY <1>1, <1>6, <2>1 DEF Inv, ComponentsSound, ClosedFirst
<1>7. outdated' \subseteq {<<"api", "rtmps">>} /\ (c = "api" => outdated' = {})
  BY <1>4, <1>6 DEF Inv, ComponentsSound, Pointers, Excepted
<1>8. TypeOK'
  <2>1. outdated' \subseteq up' \X Components
    BY <1>3, <1>4, <1>6, <1>7 DEF Inv, TypeOK, ComponentsSound, Pointers
  <2>2. QED
    BY <1>1, <1>2, <1>3, <1>4, <2>1 DEF Inv, TypeOK
<1>9. ComponentsSound'
  <2>1. Stages' /\ ClosedFirst'
    BY <1>2, <1>4 DEF Inv, ComponentsSound, Stages, ClosedFirst
  <2>2. BuiltUp'
    BY <1>4 DEF Inv, ComponentsSound, BuiltUp
  <2>3. HasWhatItUses' /\ StaysEnabled'
    BY <1>5 DEF Inv, ComponentsSound, HasWhatItUses, StaysEnabled
  <2>4. StaysCurrent'
    <3>1. \A d \in Staying' : built'[d] = built[d]
      BY <1>4 DEF Staying
    <3>2. QED
      BY <1>5, <3>1 DEF Inv, ComponentsSound, StaysCurrent
  <2>5. QED
    BY <1>7, <2>1, <2>2, <2>3, <2>4 DEF ComponentsSound, Pointers
<1>10. RequestsSound' /\ CopyFollows'
  BY <1>1, <1>2, <1>4, <1>5 DEF Inv, RequestsSound, CopyFollows
<1>11. QED
  BY <1>8, <1>9, <1>10 DEF Inv

LEMMA CloseDoneInv ==
  ASSUME Inv, CloseDone
  PROVE  Inv'
<1>1. /\ core \in {"closing", "ending"} /\ closing = {}
      /\ UNCHANGED <<newConf, byAPI, up, closing, built, outdated, api, apiConf, at, of, sent, file, watcher,
                     touched, raced, changes>>
  BY DEF CloseDone, apiVars, fileVars
<1>2. Staying' = Staying /\ Underway' = Underway
  BY <1>1 DEF Staying, Underway
<1>3. CASE core = "closing"
  <2>1. core' = "creating" /\ conf' = newConf /\ newConf \in Confs /\ Coming = newConf /\ Coming' = newConf
    BY <1>1, <1>3 DEF CloseDone, Inv, ComponentsSound, Stages, Coming
  <2>2. TypeOK'
    BY <1>1, <2>1 DEF Inv, TypeOK
  <2>3. ComponentsSound'
    BY <1>1, <1>2, <1>3, <2>1 DEF Inv, ComponentsSound, Stages, BuiltUp, ClosedFirst, HasWhatItUses,
       StaysEnabled, StaysCurrent, Pointers, Working
  <2>4. RequestsSound' /\ CopyFollows'
    BY <1>1, <1>2, <1>3, <2>1, RequestsFrame DEF Inv, CopyFollows
  <2>5. QED
    BY <2>2, <2>3, <2>4 DEF Inv
<1>4. CASE core # "closing"
  <2>1. core' = "ended" /\ conf' = conf
    BY <1>4 DEF CloseDone
  <2>2. TypeOK'
    BY <1>1, <2>1 DEF Inv, TypeOK
  <2>3. ComponentsSound'
    BY <1>1, <2>1 DEF Inv, ComponentsSound, Stages, BuiltUp, ClosedFirst, HasWhatItUses,
       StaysEnabled, StaysCurrent, Pointers, Working
  <2>4. RequestsSound' /\ CopyFollows'
    BY <1>1, <2>1, RequestsFrame DEF Inv, CopyFollows
  <2>5. QED
    BY <2>2, <2>3, <2>4 DEF Inv
<1>5. QED
  BY <1>3, <1>4

-----------------------------------------------------------------------------
(***************************************************************************)
(* Reloads.                                                                *)
(***************************************************************************)

(* Whoever asks for it, the components that stay fit the configuration.    *)
LEMMA ReloadSound ==
  ASSUME Inv, core = "select", NEW new \in Confs, NEW byApi, ReloadConf(new, byApi)
  PROVE  ComponentsSound' /\ closing' \subseteq up
<1>1. /\ closing' = {c \in up : MustClose(c, conf, new)}
      /\ built' = [c \in Components |->
                     IF c \in up /\ ~MustClose(c, conf, new) THEN InPlace(c, new) ELSE built[c]]
      /\ newConf' = new /\ core' \in {"reloading", "closing"}
      /\ UNCHANGED <<conf, up, outdated>>
  BY DEF ReloadConf
<1>2. /\ closing = {} /\ Missing = {} /\ Coming = conf /\ Coming' = new /\ Staying = up /\ Working /\ Working'
      /\ Staying' = {c \in up : ~MustClose(c, conf, new)}
      /\ up \subseteq Components /\ conf \in Confs
  BY <1>1 DEF Inv, TypeOK, ComponentsSound, Stages, Coming, Staying, Working
<1>3. ASSUME NEW e \in up, NEW c \in PointsTo[e], ~Excepted(e, c), MustClose(c, conf, new)
      PROVE  MustClose(e, conf, new)
  BY <1>2, <1>3, ClosedWithPointed DEF MustClose
<1>4. Stages'
  BY <1>1 DEF Stages
<1>5. BuiltUp'
  <2>1. ASSUME NEW c \in up PROVE built'[c] \in [SettingsOf(c) -> 0..2]
    <3>1. built[c] \in [SettingsOf(c) -> 0..2] /\ c \in Components
      BY <1>2 DEF Inv, ComponentsSound, BuiltUp
    <3>2. \A s \in SettingsOf(c) : new[s] \in 0..2
      BY DEF Confs, SettingsOf
    <3>3. InPlace(c, new) \in [SettingsOf(c) -> 0..2]
      BY <3>1, <3>2 DEF InPlace
    <3>4. QED
      BY <1>1, <3>1, <3>3
  <2>2. QED
    BY <1>1, <2>1 DEF BuiltUp
<1>6. ClosedFirst'
  BY <1>1, <1>3 DEF ClosedFirst
<1>7. HasWhatItUses'
  <2>1. ASSUME NEW e \in Staying', NEW c \in PointsTo[e], Enabled(c, new), ~Excepted(e, c)
        PROVE  c \in Staying'
    <3>1. e \in up /\ ~MustClose(e, conf, new)
      BY <1>2
    <3>2. ~MustClose(c, conf, new) /\ c \in Components
      BY <1>2, <1>3, <2>1, <3>1, PointsBack
    <3>3. Enabled(c, conf)
      BY <1>2, <2>1, <3>2, EnabledDepends
    <3>4. QED
      BY <1>2, <3>2, <3>3 DEF Missing
  <2>2. QED
    BY <1>2, <2>1 DEF HasWhatItUses
<1>8. StaysEnabled'
  <2>1. ASSUME NEW c \in Staying' PROVE Enabled(c, new)
    <3>1. c \in up /\ ~MustClose(c, conf, new) /\ Enabled(c, conf)
      BY <1>2 DEF Inv, ComponentsSound, StaysEnabled
    <3>2. QED
      BY <1>2, <3>1, EnabledDepends
  <2>2. QED
    BY <1>2, <2>1 DEF StaysEnabled
<1>9. StaysCurrent'
  <2>1. ASSUME NEW c \in Staying', NEW s \in SettingsOf(c), <<c, s>> \notin Unapplied
        PROVE  built'[c][s] = new[s]
    <3>1. c \in up /\ c \in Components /\ ~MustClose(c, conf, new) /\ built[c][s] = conf[s]
      BY <1>2, <2>1 DEF Inv, ComponentsSound, StaysCurrent
    <3>2. built'[c] = InPlace(c, new)
      BY <1>1, <3>1
    <3>3. CASE s \in {"users", "paths"}
      <4>1. c \in {"auth", "cleaner", "playback", "pathManager"}
        BY <3>1, <3>3, HandedOver
      <4>2. QED
        BY <3>2, <3>3, <4>1 DEF InPlace
    <3>4. CASE s \notin {"users", "paths"}
      <4>1. conf[s] = new[s]
        BY <2>1, <3>1, <3>4, ComparedWithUsed DEF MustClose
      <4>2. QED
        BY <3>1, <3>2, <3>4, <4>1 DEF InPlace
    <3>5. QED
      BY <3>3, <3>4
  <2>2. QED
    BY <1>2, <2>1 DEF StaysCurrent
<1>10. Pointers'
  BY <1>1 DEF Inv, ComponentsSound, Pointers
<1>11. QED
  BY <1>1, <1>4, <1>5, <1>6, <1>7, <1>8, <1>9, <1>10 DEF ComponentsSound

LEMMA ApiReloadConfInv ==
  ASSUME Inv, ApiReloadConf
  PROVE  Inv'
<1>1. /\ core = "reloading" /\ core' = "closing"
      /\ apiConf' = [apiConf EXCEPT ![api] = newConf]
      /\ raced' = (raced \/ Underway # {})
      /\ UNCHANGED <<conf, newConf, byAPI, up, closing, built, outdated, api, at, of, sent, file, watcher,
                     touched, changes>>
  BY DEF ApiReloadConf, fileVars
<1>2. newConf \in Confs /\ api \in ApiIds /\ apiConf'[api] = newConf
  BY <1>1 DEF Inv, ComponentsSound, Stages, RequestsSound, TypeOK
<1>3. Coming' = Coming /\ Staying' = Staying /\ Working' = Working /\ Coming = newConf /\ Underway' = Underway
  BY <1>1 DEF Coming, Staying, Working, Underway
<1>4. TypeOK'
  BY <1>1, <1>2 DEF Inv, TypeOK
<1>5. ComponentsSound'
  BY <1>1, <1>3 DEF Inv, ComponentsSound, Stages, BuiltUp, ClosedFirst, HasWhatItUses, StaysEnabled,
     StaysCurrent, Pointers
<1>6. RequestsSound'
  BY <1>1, <1>2, <1>3 DEF Inv, TypeOK, RequestsSound
<1>7. CopyFollows'
  BY <1>1, <1>2, <1>3 DEF CopyFollows
<1>8. QED
  BY <1>4, <1>5, <1>6, <1>7 DEF Inv

LEMMA ApiConfigSetInv ==
  ASSUME Inv, NEW r \in Requests, ApiConfigSet(r)
  PROVE  Inv'
<1>1. /\ core = "select" /\ r \in Underway
      /\ ReloadConf(sent[r], TRUE)
      /\ at' = [at EXCEPT ![r] = "idle"]
      /\ of' = [of EXCEPT ![r] = Nil]
      /\ sent' = [sent EXCEPT ![r] = Nil]
      /\ raced' = (api # Nil /\ (Underway # {r} \/ apiConf[api] # sent[r]) /\ raced)
      /\ UNCHANGED <<api, apiConf, file, watcher, touched, changes>>
  BY DEF ApiConfigSet, Return, fileVars
<1>2. sent[r] \in Confs
  BY <1>1 DEF Inv, RequestsSound
<1>3. ComponentsSound' /\ closing' \subseteq up
  BY <1>1, <1>2, ReloadSound DEF Inv
<1>4. /\ core' = "closing" /\ newConf' = sent[r] /\ byAPI' = TRUE /\ UNCHANGED <<conf, up, outdated>>
      /\ Coming' = sent[r]
  BY <1>1 DEF ReloadConf, Coming
<1>5. TypeOK'
  BY <1>1, <1>2, <1>3, <1>4 DEF Inv, TypeOK
<1>6. Underway' = Underway \ {r} /\ \A q \in Requests \ {r} : UNCHANGED <<at[q], of[q], sent[q]>>
  BY <1>1 DEF Underway, Inv, TypeOK
<1>7. RequestsSound'
  <2>1. at'[r] = "idle" /\ r \notin Underway'
    BY <1>1, <1>6 DEF Inv, TypeOK
  <2>2. QED
    BY <1>1, <1>4, <1>6, <2>1 DEF RequestsSound, Inv
<1>8. CopyFollows'
  <2>1. ASSUME api' # Nil, ~raced'
        PROVE  Underway = {r} /\ apiConf[api] = sent[r]
    BY <1>1, <2>1 DEF Inv, ComponentsSound, Stages, CopyFollows
  <2>2. QED
    BY <1>1, <1>4, <1>6, <2>1 DEF CopyFollows
<1>9. QED
  BY <1>3, <1>5, <1>7, <1>8 DEF Inv

LEMMA ConfChangedInv ==
  ASSUME Inv, ConfChanged
  PROVE  Inv'
<1>1. /\ core = "select" /\ raced' = (raced \/ Underway # {})
      /\ UNCHANGED <<api, apiConf, at, of, sent, file, changes, touched>>
  BY DEF ConfChanged, apiVars
<1>2. CASE Shutdown /\ UNCHANGED <<conf, byAPI, up, built, outdated>>
  BY <1>1, <1>2, ShutdownInv DEF Inv, TypeOK
<1>3. CASE /\ file \notin {Invalid, Gone}
           /\ ReloadConf(file, FALSE)
           /\ watcher' = IF watcher = "signalling" THEN "idle" ELSE watcher
  <2>1. file \in Confs
    BY <1>3 DEF Inv, TypeOK
  <2>2. ComponentsSound' /\ closing' \subseteq up
    BY <1>1, <1>3, <2>1, ReloadSound
  <2>3. /\ core' \in {"reloading", "closing"} /\ newConf' = file /\ byAPI' = FALSE
        /\ UNCHANGED <<conf, up, outdated>>
        /\ core' = "reloading" => api # Nil
        /\ core' = "closing" => api = Nil \/ ("api" \in up => "api" \in closing')
    BY <1>3 DEF ReloadConf
  <2>4. TypeOK'
    BY <1>1, <1>3, <2>1, <2>2, <2>3 DEF Inv, TypeOK
  <2>5. RequestsSound'
    BY <1>1, <2>3 DEF Inv, RequestsSound, Underway
  <2>6. CopyFollows'
    BY <1>1, <2>3 DEF Inv, TypeOK, CopyFollows
  <2>7. QED
    BY <2>2, <2>4, <2>5, <2>6 DEF Inv
<1>4. QED
  BY <1>2, <1>3 DEF ConfChanged

LEMMA InterruptInv ==
  ASSUME Inv, Interrupt
  PROVE  Inv'
<1>1. /\ Shutdown
      /\ UNCHANGED <<conf, byAPI, up, built, outdated, api, apiConf, at, of, sent, file, touched, raced, changes>>
  BY DEF Interrupt, apiVars
<1>2. changes' \in 0..MaxChanges /\ raced' \in BOOLEAN
  BY <1>1 DEF Inv, TypeOK
<1>3. QED
  BY <1>1, <1>2, ShutdownInv

-----------------------------------------------------------------------------
(***************************************************************************)
(* Requests.                                                               *)
(***************************************************************************)

LEMMA ArriveInv ==
  ASSUME Inv, NEW r \in Requests, Arrive(r)
  PROVE  Inv'
<1>1. /\ at[r] = "idle" /\ api # Nil /\ changes < MaxChanges
      /\ at' = [at EXCEPT ![r] = "arrived"] /\ of' = [of EXCEPT ![r] = api] /\ changes' = changes + 1
      /\ UNCHANGED coreVars /\ UNCHANGED <<api, apiConf, sent, file, watcher, touched, raced>>
  BY DEF Arrive, fileVars
<1>2. UNCHANGED <<conf, newConf, byAPI, core, up, closing, built, outdated>>
  BY <1>1 DEF coreVars
<1>3. TypeOK'
  BY <1>1, <1>2, EditsAssumption DEF Inv, TypeOK
<1>4. Underway' = Underway /\ r \notin Underway
  BY <1>1 DEF Inv, TypeOK, Underway
<1>5. of'[r] = api /\ \A q \in Requests \ {r} : at'[q] = at[q] /\ of'[q] = of[q]
  BY <1>1 DEF Inv, TypeOK
<1>6. RequestsSound'
  BY <1>1, <1>2, <1>4, <1>5 DEF Inv, TypeOK, RequestsSound
<1>7. CopyFollows'
  <2>1. Coming' = Coming /\ \A q \in Underway : of'[q] = of[q]
    BY <1>1, <1>2, <1>4 DEF Coming, Inv, TypeOK, Underway
  <2>2. QED
    BY <1>1, <1>2, <1>4, <2>1 DEF Inv, CopyFollows
<1>8. QED
  BY <1>1, <1>3, <1>6, <1>7, CoreFrame DEF Inv

(* A request edits the copy of its instance and is on its way.             *)
LEMMA EditedInv ==
  ASSUME Inv, NEW r \in Requests, at[r] = "arrived", NEW new \in Confs, NEW where \in {"sending", "posted"},
         Edited(r, new, where), UNCHANGED coreVars, UNCHANGED <<api, of, file, watcher, touched, changes>>
  PROVE  Inv'
<1>1. /\ apiConf' = [apiConf EXCEPT ![of[r]] = new] /\ sent' = [sent EXCEPT ![r] = new]
      /\ at' = [at EXCEPT ![r] = where] /\ raced' = (raced \/ Races(r))
  BY DEF Edited
<1>2. UNCHANGED <<conf, newConf, byAPI, core, up, closing, built, outdated>>
  BY DEF coreVars
<1>3. of[r] \in ApiIds
  BY DEF Inv, RequestsSound
<1>4. TypeOK'
  <2>1. apiConf' \in [ApiIds -> Confs \cup {Nil}] /\ sent' \in [Requests -> Confs \cup {Nil}]
    BY <1>1, <1>3 DEF Inv, TypeOK
  <2>2. at' \in [Requests -> {"idle", "arrived", "sending", "posted"}]
    BY <1>1 DEF Inv, TypeOK
  <2>3. raced' \in BOOLEAN
    BY <1>1
  <2>4. QED
    BY <1>2, <2>1, <2>2, <2>3 DEF Inv, TypeOK
<1>5. Underway' = Underway \cup {r} /\ r \notin Underway
  BY <1>1 DEF Inv, TypeOK, Underway
<1>6. /\ \A i \in ApiIds : apiConf'[i] = IF i = of[r] THEN new ELSE apiConf[i]
      /\ \A q \in Requests : sent'[q] = IF q = r THEN new ELSE sent[q]
      /\ \A q \in Requests : at'[q] = IF q = r THEN where ELSE at[q]
  BY <1>1, <1>3 DEF Inv, TypeOK
<1>7. RequestsSound'
  <2>1. api' # Nil => apiConf'[api'] \in Confs
    BY <1>6 DEF Inv, TypeOK, RequestsSound
  <2>2. ASSUME NEW q \in Requests
        PROVE  /\ at'[q] # "idle" => of'[q] \in ApiIds /\ apiConf'[of'[q]] \in Confs
               /\ q \in Underway' => sent'[q] \in Confs
    BY <1>3, <1>5, <1>6 DEF Inv, RequestsSound
  <2>3. QED
    BY <1>2, <2>1, <2>2 DEF Inv, RequestsSound
<1>8. CopyFollows'
  <2>1. ASSUME api # Nil, ~raced'
        PROVE  Underway' = {r} /\ of'[r] = api /\ sent'[r] = apiConf'[api]
    BY <1>1, <1>3, <1>5, <1>6, <2>1 DEF Races
  <2>2. QED
    BY <2>1 DEF CopyFollows
<1>9. QED
  BY <1>4, <1>7, <1>8, CoreFrame DEF Inv

LEMMA EditsInv ==
  ASSUME Inv, NEW r \in Requests, OnConfigGlobalPatch(r) \/ OnConfigPathsEdit(r)
  PROVE  Inv'
<1>1. /\ at[r] = "arrived" /\ UNCHANGED coreVars /\ UNCHANGED <<api, of, file, watcher, touched, changes>>
      /\ apiConf[of[r]] \in Confs
  BY DEF OnConfigGlobalPatch, OnConfigPathsEdit, fileVars, Inv, RequestsSound
<1>2. CASE OnConfigGlobalPatch(r)
  <2>1. PICK v \in Values : Edited(r, [apiConf[of[r]] EXCEPT ![touched] = v], "posted")
    BY <1>2 DEF OnConfigGlobalPatch
  <2>2. [apiConf[of[r]] EXCEPT ![touched] = v] \in Confs
    BY <1>1, EditsAssumption DEF Confs
  <2>3. QED
    BY <1>1, <2>1, <2>2, EditedInv
<1>3. CASE OnConfigPathsEdit(r)
  <2>1. PICK v \in Values : Edited(r, [apiConf[of[r]] EXCEPT !.paths = v], "sending")
    BY <1>3 DEF OnConfigPathsEdit
  <2>2. [apiConf[of[r]] EXCEPT !.paths = v] \in Confs
    BY <1>1, EditsAssumption DEF Confs
  <2>3. QED
    BY <1>1, <2>1, <2>2, EditedInv
<1>4. QED
  BY <1>2, <1>3

(* A request returns with nothing on its way, or when the core is closing. *)
LEMMA ReturnInv ==
  ASSUME Inv, NEW r \in Requests, OnConfigRefused(r) \/ ApiConfigSetTerminated(r)
  PROVE  Inv'
<1>1. /\ at' = [at EXCEPT ![r] = "idle"] /\ of' = [of EXCEPT ![r] = Nil] /\ sent' = [sent EXCEPT ![r] = Nil]
      /\ UNCHANGED coreVars /\ UNCHANGED <<api, apiConf, file, watcher, touched, raced, changes>>
      /\ CtxDone \/ at[r] = "arrived"
  BY DEF OnConfigRefused, ApiConfigSetTerminated, Return, fileVars
<1>2. UNCHANGED <<conf, newConf, byAPI, core, up, closing, built, outdated>>
  BY <1>1 DEF coreVars
<1>3. TypeOK'
  BY <1>1, <1>2 DEF Inv, TypeOK
<1>4. /\ Underway' = Underway \ {r} /\ at'[r] = "idle"
      /\ \A q \in Requests \ {r} : UNCHANGED <<at[q], of[q], sent[q]>>
  BY <1>1 DEF Underway, Inv, TypeOK
<1>5. RequestsSound'
  BY <1>1, <1>2, <1>4 DEF RequestsSound, Inv
<1>6. CopyFollows'
  <2>1. CASE CtxDone
    BY <1>2, <2>1 DEF CtxDone, CopyFollows
  <2>2. CASE at[r] = "arrived"
    <3>1. r \notin Underway /\ Underway' = Underway /\ Coming' = Coming
      BY <1>2, <1>4, <2>2 DEF Underway, Coming
    <3>2. \A q \in Underway : UNCHANGED <<of[q], sent[q]>>
      BY <1>4, <3>1 DEF Underway
    <3>3. QED
      BY <1>1, <1>2, <3>1, <3>2 DEF Inv, CopyFollows
  <2>3. QED
    BY <1>1, <2>1, <2>2
<1>7. QED
  BY <1>1, <1>3, <1>5, <1>6, CoreFrame DEF Inv

(* The watcher and the file.                                               *)
LEMMA WatcherInv ==
  ASSUME Inv, WriteFile \/ TakeEvent \/ SecondPasses \/ WatcherFails
  PROVE  Inv'
<1>1. /\ UNCHANGED coreVars /\ UNCHANGED <<api, apiConf, at, of, sent, touched, raced>>
      /\ changes' \in 0..MaxChanges /\ watcher' \in {"none", "idle", "signalling", "broken", "ended"}
  BY EditsAssumption DEF WriteFile, TakeEvent, SecondPasses, WatcherFails, apiVars, Inv, TypeOK
<1>2. UNCHANGED <<conf, newConf, byAPI, core, up, closing, built, outdated>>
  BY <1>1 DEF coreVars
<1>3. file' \in Confs \cup {Invalid, Gone}
  <2>1. CASE WriteFile
    <3>1. touched \in Settings /\ "paths" \in Settings
      BY EditsAssumption DEF Inv, TypeOK, Settings, UsedBy
    <3>2. \A s \in {touched, "paths"}, v \in Values : [conf EXCEPT ![s] = v] \in Confs
      BY <3>1, EditsAssumption DEF Inv, TypeOK, Confs
    <3>3. QED
      BY <2>1, <3>2 DEF WriteFile, FileContents
  <2>2. CASE ~WriteFile
    BY <2>2 DEF TakeEvent, SecondPasses, WatcherFails, Inv, TypeOK
  <2>3. QED
    BY <2>1, <2>2
<1>4. TypeOK'
  BY <1>1, <1>2, <1>3 DEF Inv, TypeOK
<1>5. RequestsSound'
  BY <1>1, <1>2 DEF Inv, RequestsSound, Underway
<1>6. CopyFollows'
  BY <1>1, <1>2 DEF Inv, CopyFollows, Underway, Coming
<1>7. QED
  BY <1>1, <1>4, <1>5, <1>6, CoreFrame DEF Inv

LEMMA StutterInv ==
  ASSUME Inv, UNCHANGED vars
  PROVE  Inv'
<1>1. /\ UNCHANGED coreVars /\ UNCHANGED <<api, apiConf, at, of, sent, file, watcher, touched, raced, changes>>
  BY DEF vars, apiVars, fileVars
<1>2. UNCHANGED <<conf, newConf, byAPI, core, up, closing, built, outdated>>
  BY <1>1 DEF coreVars
<1>3. TypeOK'
  BY <1>1, <1>2 DEF Inv, TypeOK
<1>4. RequestsSound' /\ CopyFollows'
  BY <1>1, <1>2 DEF Inv, RequestsSound, CopyFollows, Underway, Coming
<1>5. QED
  BY <1>1, <1>3, <1>4, CoreFrame DEF Inv

-----------------------------------------------------------------------------
(***************************************************************************)
(* The theorems.                                                           *)
(***************************************************************************)

LEMMA NextInv ==
  ASSUME Inv, [Next]_vars
  PROVE  Inv'
<1>1. CASE UNCHANGED vars
  BY <1>1, StutterInv
<1>2. CASE CreateNext \/ CreateDone \/ CreateFails \/ CloseNext \/ CloseDone \/ ApiReloadConf
  BY <1>2, CreateNextInv, CreateDoneInv, CreateFailsInv, CloseNextInv, CloseDoneInv, ApiReloadConfInv
<1>3. ASSUME NEW r \in Requests,
             \/ Arrive(r) \/ OnConfigGlobalPatch(r) \/ OnConfigPathsEdit(r) \/ OnConfigRefused(r)
             \/ ApiConfigSet(r) \/ ApiConfigSetTerminated(r)
      PROVE  Inv'
  BY <1>3, ArriveInv, EditsInv, ReturnInv, ApiConfigSetInv
<1>4. CASE WriteFile \/ TakeEvent \/ SecondPasses \/ WatcherFails \/ ConfChanged \/ Interrupt
  BY <1>4, WatcherInv, ConfChangedInv, InterruptInv
<1>5. QED
  BY <1>1, <1>2, <1>3, <1>4 DEF Next

LEMMA Invariant == Spec => []Inv
<1>1. Init => Inv
  BY InitInv
<1>2. Inv /\ [Next]_vars => Inv'
  BY NextInv
<1>3. QED
  BY <1>1, <1>2, PTL DEF Spec

(* The variables of the core keep their types: in particular the pointer   *)
(* to the API is set exactly while an API exists, and whatever is on its   *)
(* way to the core, from the file or from a request, is a configuration.   *)
THEOREM TypeCorrect == Spec => []TypeOK
<1>1. Inv => TypeOK
  BY DEF Inv
<1>2. QED
  BY <1>1, Invariant, PTL

(* No component works with one that closeResources has closed or replaced, *)
(* but for the pointer to the RTMPS server that closeAPI forgets: for any  *)
(* setting that changes, from whatever side, at every step of a reload.    *)
THEOREM ComponentsPointToLiveOnes == Spec => []PointersAreCurrent
<1>1. Inv => PointersAreCurrent
  BY InvImplies
<1>2. QED
  BY <1>1, Invariant, PTL

(* Between reloads the components that exist are those the configuration   *)
(* enables, each works with its settings, and the API shows the same ones  *)
(* unless two configurations were on their way at once: for any number of  *)
(* requests and any setting.                                               *)
THEOREM ConfigurationsAgree == Spec => []OneConfiguration
<1>1. Inv => OneConfiguration
  BY InvImplies
<1>2. QED
  BY <1>1, Invariant, PTL
=============================================================================
