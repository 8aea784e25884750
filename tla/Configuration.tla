--------------------------- MODULE Configuration ---------------------------
(***************************************************************************)
(* The configuration (package conf) and what the control API does to it:   *)
(* a file is loaded, and every request edits a copy, validates it and puts *)
(* it in force.  Validate also rewrites: deprecated parameters are copied  *)
(* over the ones that replaced them, and the configurations of the paths   *)
(* are built anew from the defaults and the optional values of each path.  *)
(*                                                                         *)
(* A value is whatever the rules tell apart.  The parameters that share a  *)
(* rule (a deprecated alias, a server certificate, a hook) are one here.   *)
(***************************************************************************)
EXTENDS Naturals, FiniteSets

CONSTANTS
  Names,       (* names of paths that can be configured                    *)
  RegexpNames, (* those of them that are regular expressions               *)
  BadNames,    (* those that IsValidPathName or regexp.Compile refuse      *)
  AllOthers,   (* those that mean "all others"                             *)
  Files,       (* what the file can contain, see RawConfs                  *)
  Globals,     (* bodies of a request that patches the global settings     *)
  PathValues,  (* optional values of a path: functions from fields to values *)
  Unset,       (* a pointer that is nil                                    *)
  MaxEdits     (* bound on the requests and reloads                        *)

ASSUME FinitelyManyPaths ==
  IsFiniteSet(Names) /\ \A file \in Files : IsFiniteSet(DOMAIN file.optional)
ASSUME ICEServersAreCounted ==
  \A values \in Globals \cup {file.global : file \in Files} :
    \A f \in {"ice", "oldIce"} \cap DOMAIN values : values[f] \in Nat

(* Fields of a path, with setDefaults().                                   *)
DefaultPath ==
  [source |-> "publisher", onDemand |-> FALSE, redirect |-> FALSE,
   srtPassphrase |-> "none", srtReadPassphrase |-> "none", legacyUser |-> Unset, disableOverride |-> Unset,
   overridePublisher |-> TRUE, url |-> "good", rtpSDP |-> FALSE,
   camID |-> 0, camCodec |-> "auto", secondary |-> FALSE, width |-> 1920, camSettings |-> "good",
   fallback |-> "none", recordPath |-> "full", segmentDuration |-> 1, deleteAfter |-> 24,
   runOnInit |-> FALSE, runOnDemand |-> FALSE]

PathFields == DOMAIN DefaultPath

(* Global settings, with setDefaults().  Names in `old' are deprecated     *)
(* parameters; `users' is Unset for the default users, and of the ICE      *)
(* servers only how many they are is kept.                                 *)
DefaultGlobal ==
  [readTimeout |-> 10, queue |-> 512, udpMaxPayload |-> 1472, authMethod |-> "internal",
   authAddress |-> "none", users |-> Unset, hashed |-> FALSE, rtspAuth |-> "basic",
   rtsp |-> TRUE, localUDP |-> TRUE, fromInterfaces |-> TRUE, hosts |-> FALSE,
   ice |-> 0, iceURL |-> "good", playback |-> FALSE,
   oldQueue |-> Unset, oldAuthAddress |-> Unset, oldDisable |-> Unset, oldIce |-> 0]

GlobalFields == DOMAIN DefaultGlobal

(* A request with an unknown field is refused before anything else.        *)
ASSUME RequestsAreKnown ==
  /\ \A v \in Globals : DOMAIN v \subseteq GlobalFields
  /\ \A v \in PathValues : DOMAIN v \subseteq PathFields

(* copyStructFields: values that are set replace those of `dest'.          *)
Overlay(dest, src) == [f \in DOMAIN dest |-> IF f \in DOMAIN src THEN src[f] ELSE dest[f]]

NewPath_DefaultsWin(defaults, partial) ==
  [f \in PathFields |-> IF f \in DOMAIN partial /\ defaults[f] = DefaultPath[f]
                        THEN partial[f] ELSE defaults[f]]
NewPath(defaults, partial) == Overlay(defaults, partial)

-----------------------------------------------------------------------------
(***************************************************************************)
(* Validate.                                                               *)
(***************************************************************************)

PowersOfTwo == {0} \cup {2^i : i \in 0..16}

(* The deprecated parameters and the ones that replaced them.              *)
ApplyDeprecated(g) ==
  [g EXCEPT
    !.queue = IF g.oldQueue = Unset THEN @ ELSE g.oldQueue,
    !.authMethod = IF g.oldAuthAddress = Unset THEN @ ELSE "http",
    !.authAddress = IF g.oldAuthAddress = Unset THEN @ ELSE g.oldAuthAddress,
    !.rtsp = IF g.oldDisable = Unset THEN @ ELSE ~g.oldDisable,
    !.ice = @ + g.oldIce]

(* The record settings that moved to the defaults of the paths.            *)
MovedToDefaults(conf) ==
  IF conf.oldDeleteAfter = Unset THEN conf.defaults
  ELSE [conf.defaults EXCEPT !.deleteAfter = conf.oldDeleteAfter]

AnyPathHasDeprecatedCredentials(conf) ==
  \/ conf.defaults.legacyUser # Unset
  \/ \E n \in DOMAIN conf.optional :
       "legacyUser" \in DOMAIN conf.optional[n] /\ conf.optional[n].legacyUser # Unset

(* The users a configuration with legacy credentials ends with: the two    *)
(* fixed ones and, of each path, a publisher and a reader.                 *)
LegacyUsers(paths) == [n \in DOMAIN paths |-> paths[n].legacyUser]

GeneralErrors(g) ==
  \/ g.readTimeout = 0
  \/ g.queue \notin PowersOfTwo
  \/ g.udpMaxPayload > 1472

AuthErrors(g) ==
  \/ g.authAddress = "not a URL"
  \/ g.authMethod \in {"http", "jwt"} /\ g.authAddress = "none"
  \/ g.rtspAuth = "digest" /\ (g.authMethod # "internal" \/ g.hashed)
  \/ g.rtspAuth = "none"

WebRTCErrors(g) ==
  \/ g.ice > 0 /\ g.iceURL = "bad"
  \/ ~g.localUDP /\ g.ice = 0
  \/ g.localUDP /\ ~g.fromInterfaces /\ ~g.hosts

NameErrors(names) == names \cap BadNames # {} \/ Cardinality(names \cap AllOthers) > 1

HasStaticSource(p) == p.source \notin {"publisher", "redirect"}
HasOnDemandStaticSource(p) == HasStaticSource(p) /\ p.onDemand
HasOnDemandPublisher(p) == p.runOnDemand

CommonErrors(p, n) ==
  \/ HasStaticSource(p) /\ n \in RegexpNames /\ ~p.onDemand
  \/ p.srtPassphrase # "none" /\ p.source # "publisher"
  \/ "short" \in {p.srtPassphrase, p.srtReadPassphrase}
  \/ p.onDemand /\ p.source = "publisher"
  \/ p.source # "redirect" /\ p.redirect
  \/ p.fallback = "bad"

SourceErrors(p) ==
  \/ p.source \notin {"publisher", "redirect", "rpiCamera", "network", "rtp"}
  \/ p.source \in {"network", "rtp"} /\ p.url # "good"
  \/ p.source = "rtp" /\ ~p.rtpSDP
  \/ p.source = "redirect" /\ ~p.redirect

RecordErrors(p, playback) ==
  \/ p.recordPath = "no %path" \/ p.recordPath = "no date"
  \/ playback /\ p.recordPath = "no %f"
  \/ p.segmentDuration > 24
  \/ p.deleteAfter # 0 /\ p.deleteAfter < p.segmentDuration

HookErrors(p, n) ==
  \/ p.runOnInit /\ n \in RegexpNames
  \/ p.runOnDemand /\ p.source # "publisher"

(* Cameras: one primary stream for each camera, at most one secondary      *)
(* stream, and that one needs the primary.                                 *)
Primaries(paths, id) ==
  {n \in DOMAIN paths : paths[n].source = "rpiCamera" /\ ~paths[n].secondary /\ paths[n].camID = id}
Secondaries(paths, id) ==
  {n \in DOMAIN paths : paths[n].source = "rpiCamera" /\ paths[n].secondary /\ paths[n].camID = id}

CameraErrors(paths, n) ==
  LET p == paths[n] IN
  p.source = "rpiCamera" /\
    \/ p.width = 0 \/ p.camSettings = "bad"
    \/ /\ ~p.secondary
       /\ p.camCodec = "mjpeg" \/ Primaries(paths, p.camID) # {n}
    \/ /\ p.secondary
       /\ \/ p.camCodec \notin {"auto", "mjpeg"}
          \/ Primaries(paths, p.camID) = {}
          \/ Cardinality(Secondaries(paths, p.camID)) > 1

(* What validate() writes into the paths.  A secondary learns the name of  *)
(* its primary, which learns the size of the second stream.                *)
Derived(paths, n) ==
  LET p == paths[n]
      others == IF p.source # "rpiCamera" THEN {}
                ELSE IF p.secondary THEN Primaries(paths, p.camID) ELSE Secondaries(paths, p.camID)
  IN [f \in PathFields \cup {"primaryName", "secondaryWidth"} |->
        CASE f = "primaryName" -> IF p.secondary /\ others # {} THEN CHOOSE o \in others : TRUE ELSE Unset
          [] f = "secondaryWidth" ->
               IF ~p.secondary /\ others # {} THEN paths[CHOOSE o \in others : TRUE].width ELSE 0
          [] f = "overridePublisher" ->
               IF p.source = "publisher" /\ p.disableOverride # Unset
               THEN ~p.disableOverride ELSE p.overridePublisher
          [] OTHER -> p[f]]

BuildPaths(defaults, optional) == [n \in DOMAIN optional |-> NewPath(defaults, optional[n])]

Failed(conf, global, built) ==
  \/ GeneralErrors(global) \/ WebRTCErrors(global)
  \/ AnyPathHasDeprecatedCredentials(conf) /\ conf.global.users # Unset
  \/ AuthErrors(global)
  \/ NameErrors(DOMAIN built)
  \/ \E n \in DOMAIN built :
       \/ CommonErrors(built[n], n) \/ SourceErrors(built[n]) \/ CameraErrors(built, n)
       \/ RecordErrors(built[n], global.playback) \/ HookErrors(built[n], n)

Validate(conf) ==
  LET global   == ApplyDeprecated(conf.global)
      defaults == MovedToDefaults(conf)
      built    == BuildPaths(defaults, conf.optional)
  IN [ok   |-> ~Failed(conf, global, built),
      conf |-> [global |-> IF AnyPathHasDeprecatedCredentials(conf)
                           THEN [global EXCEPT !.users = LegacyUsers(built)] ELSE global,
                defaults |-> defaults,
                optional |-> conf.optional,
                oldDeleteAfter |-> conf.oldDeleteAfter,
                paths |-> [n \in DOMAIN built |-> Derived(built, n)]]]

-----------------------------------------------------------------------------
(***************************************************************************)
(* Loading and editing.                                                    *)
(***************************************************************************)

(* A clone goes through JSON: `paths' is not in it, and an unset pointer   *)
(* takes the default, which is unset.                                      *)
Clone_DropsDefaults(conf) ==
  [conf EXCEPT !.paths = [n \in {} |-> Unset], !.defaults = DefaultPath]
Clone(conf) == [conf EXCEPT !.paths = [n \in {} |-> Unset]]

Raw(file) ==
  [global |-> Overlay(DefaultGlobal, file.global),
   defaults |-> Overlay(DefaultPath, file.defaults),
   optional |-> file.optional,
   oldDeleteAfter |-> file.oldDeleteAfter,
   paths |-> [n \in {} |-> Unset]]

Load(file) == Validate(Raw(file))

PatchGlobal(conf, values) == [conf EXCEPT !.global = Overlay(@, values)]
PatchPathDefaults(conf, values) == [conf EXCEPT !.defaults = Overlay(@, values)]
With(optional, n, values) ==
  [m \in DOMAIN optional \cup {n} |-> IF m = n THEN values ELSE optional[m]]
AddPath(conf, n, values) == [conf EXCEPT !.optional = With(@, n, values)]
ReplacePath(conf, n, values) == [conf EXCEPT !.optional = With(@, n, values)]
PatchPath(conf, n, values) ==
  [conf EXCEPT !.optional = With(@, n, [f \in DOMAIN @[n] \cup DOMAIN values |->
                                         IF f \in DOMAIN values THEN values[f] ELSE conf.optional[n][f]])]
RemovePath(conf, n) ==
  [conf EXCEPT !.optional = [m \in DOMAIN @ \ {n} |-> @[m]]]

VARIABLES
  conf,    (* the configuration in force (a.Conf)                          *)
  answer,  (* status of the last request                                   *)
  asked,   (* the last request: its kind, path and values                  *)
  edits    (* requests and reloads so far                                  *)

vars == <<conf, answer, asked, edits>>

Init ==
  /\ \E file \in Files : Load(file).ok /\ conf = Load(file).conf
  /\ answer = 200
  /\ edits = 0
  /\ asked = [kind |-> "load", name |-> Unset, values |-> Unset]

(* What every edit does with the copy it changed.                          *)
Apply(kind, n, values, edited) ==
  LET result == Validate(edited) IN
  /\ asked' = [kind |-> kind, name |-> n, values |-> values]
  /\ answer' = IF result.ok THEN 200 ELSE 400
  /\ conf' = IF result.ok THEN result.conf ELSE conf

Refuse(kind, n, status) ==
  /\ asked' = [kind |-> kind, name |-> n, values |-> Unset]
  /\ answer' = status
  /\ UNCHANGED conf

OnConfigGlobalPatch ==
  \E v \in Globals : Apply("global", Unset, v, PatchGlobal(Clone(conf), v))

OnConfigPathDefaultsPatch ==
  \E v \in PathValues : Apply("defaults", Unset, v, PatchPathDefaults(Clone(conf), v))

OnConfigPathsAdd(n) ==
  IF n \in DOMAIN conf.optional THEN Refuse("add", n, 400)
  ELSE \E v \in PathValues : Apply("add", n, v, AddPath(Clone(conf), n, v))

OnConfigPathsPatch(n) ==
  IF n \notin DOMAIN conf.optional THEN Refuse("patch", n, 404)
  ELSE \E v \in PathValues : Apply("patch", n, v, PatchPath(Clone(conf), n, v))

OnConfigPathsReplace(n) ==
  \E v \in PathValues : Apply("replace", n, v, ReplacePath(Clone(conf), n, v))

OnConfigPathsDelete_NotValidated(n) ==
  IF n \notin DOMAIN conf.optional THEN Refuse("delete", n, 404)
  ELSE /\ conf' = [RemovePath(conf, n) EXCEPT !.paths = [m \in DOMAIN @ \ {n} |-> @[m]]]
       /\ answer' = 200
       /\ asked' = [kind |-> "delete", name |-> n, values |-> Unset]
OnConfigPathsDelete(n) ==
  IF n \notin DOMAIN conf.optional THEN Refuse("delete", n, 404)
  ELSE Apply("delete", n, Unset, RemovePath(Clone(conf), n))

(* The file is written and loaded again; one that is not valid ends the    *)
(* program (module Core).                                                  *)
FileChanged ==
  \E file \in Files :
    /\ Load(file).ok
    /\ conf' = Load(file).conf
    /\ answer' = 200
    /\ asked' = [kind |-> "load", name |-> Unset, values |-> Unset]

Next ==
  /\ edits < MaxEdits
  /\ edits' = edits + 1
  /\ \/ OnConfigGlobalPatch
     \/ OnConfigPathDefaultsPatch
     \/ \E n \in Names :
          \/ OnConfigPathsAdd(n) \/ OnConfigPathsPatch(n)
          \/ OnConfigPathsReplace(n) \/ OnConfigPathsDelete(n)
     \/ FileChanged

Spec == Init /\ [][Next]_vars

-----------------------------------------------------------------------------
(***************************************************************************)
(* Properties.                                                             *)
(***************************************************************************)

(* Whatever was added, patched or deleted, each camera that is read has    *)
(* one primary path, a secondary path knows it by its name, and it was     *)
(* told to produce exactly the second stream that path expects.            *)
CamerasPaired ==
  \A n \in DOMAIN conf.paths :
    LET p == conf.paths[n] IN
    p.source = "rpiCamera" =>
      /\ Cardinality(Primaries(conf.paths, p.camID)) = 1
      /\ p.secondary =>
           /\ p.primaryName \in DOMAIN conf.paths
           /\ conf.paths[p.primaryName].camID = p.camID
           /\ conf.paths[p.primaryName].secondaryWidth = p.width
      /\ ~p.secondary /\ p.secondaryWidth # 0 => Secondaries(conf.paths, p.camID) # {}

(* The configuration in force passes validation again and validation does  *)
(* not change it, so that an edit changes nothing but what it says.  Two   *)
(* deprecated features are the exception: ICE servers under their old name *)
(* are appended once more by every edit, and legacy credentials make every *)
(* later edit fail.                                                        *)
RevalidationIsIdentity ==
  conf.global.oldIce = 0 /\ ~AnyPathHasDeprecatedCredentials(conf)
    => Validate(Clone(conf)) = [ok |-> TRUE, conf |-> conf]

(* An accepted request puts the values it carries in force, in the path it *)
(* names or in every path that has no value of its own, and no other path  *)
(* changes.  A deprecated parameter still rules the one that replaced it.  *)
Ruled(old) == {f \in GlobalFields :
                \/ f = "queue" /\ old.oldQueue # Unset
                \/ f = "rtsp" /\ old.oldDisable # Unset
                \/ f \in {"authMethod", "authAddress"} /\ old.oldAuthAddress # Unset
                \/ f \in {"ice", "users"}}
RuledInDefaults(c) == {f \in {"deleteAfter"} : c.oldDeleteAfter # Unset}
RuledInPath(p) ==
  {f \in {"overridePublisher"} : p.source = "publisher" /\ p.disableOverride # Unset}
EditTakesEffect ==
  /\ asked'.kind = "global" =>
       \A f \in DOMAIN asked'.values \ Ruled(conf'.global) : conf'.global[f] = asked'.values[f]
  /\ asked'.kind = "defaults" =>
       \A n \in DOMAIN conf'.paths :
         \A f \in DOMAIN asked'.values \ (RuledInDefaults(conf') \cup RuledInPath(conf'.paths[n])) :
           f \notin DOMAIN conf'.optional[n] => conf'.paths[n][f] = asked'.values[f]
  /\ asked'.kind \in {"add", "patch", "replace"} =>
       /\ DOMAIN conf'.paths = DOMAIN conf.paths \cup {asked'.name}
       /\ \A f \in DOMAIN asked'.values \ RuledInPath(conf'.paths[asked'.name]) :
            conf'.paths[asked'.name][f] = asked'.values[f]
  /\ asked'.kind = "delete" => DOMAIN conf'.paths = DOMAIN conf.paths \ {asked'.name}
  /\ asked'.kind \in {"add", "patch", "replace", "delete"} =>
       \A n \in DOMAIN conf.paths \ {asked'.name}, f \in PathFields :
         conf'.paths[n][f] = conf.paths[n][f]
EditsTakeEffect == [][answer' = 200 => EditTakesEffect]_vars
=============================================================================
