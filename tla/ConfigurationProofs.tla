------------------------- MODULE ConfigurationProofs -------------------------
(***************************************************************************)
(* What validation guarantees of the configuration in force, for any       *)
(* files, requests, names and values.                                      *)
(***************************************************************************)
EXTENDS Configuration, FiniteSetTheorems, TLAPS

(* What validation makes of the paths, and what it has refused.            *)
Accepted(paths, built) ==
  /\ IsFiniteSet(DOMAIN built)
  /\ \A n \in DOMAIN built : ~CameraErrors(built, n)
  /\ DOMAIN paths = DOMAIN built
  /\ \A n \in DOMAIN built : paths[n] = Derived(built, n)

(* Each path keeps what it was given,                                      *)
LEMMA KeptFields ==
  ASSUME NEW built, NEW n \in DOMAIN built
  PROVE  /\ Derived(built, n).source = built[n].source
         /\ Derived(built, n).secondary = built[n].secondary
         /\ Derived(built, n).camID = built[n].camID
         /\ Derived(built, n).width = built[n].width
<1>1. {"source", "secondary", "camID", "width"} \subseteq PathFields
  BY DEF PathFields, DefaultPath
<1>2. QED
  BY <1>1 DEF Derived

(* and cameras learn of the other path.                                    *)
LEMMA SecondaryLearns ==
  ASSUME NEW built, NEW n \in DOMAIN built, NEW m,
         built[n].source = "rpiCamera", built[n].secondary,
         Primaries(built, built[n].camID) = {m}
  PROVE  Derived(built, n).primaryName = m
  BY DEF Derived

LEMMA PrimaryLearns ==
  ASSUME NEW built, NEW n \in DOMAIN built, NEW m,
         built[n].source = "rpiCamera", ~built[n].secondary,
         Secondaries(built, built[n].camID) = {m}
  PROVE  Derived(built, n).secondaryWidth = built[m].width
  BY DEF Derived

LEMMA LonePrimary ==
  ASSUME NEW built, NEW n \in DOMAIN built,
         built[n].source = "rpiCamera", ~built[n].secondary,
         Secondaries(built, built[n].camID) = {}
  PROVE  Derived(built, n).secondaryWidth = 0
  BY DEF Derived

(* The cameras of the paths are those of the paths they were derived from. *)
LEMMA SameCameras ==
  ASSUME NEW paths, NEW built, Accepted(paths, built), NEW id
  PROVE  /\ Primaries(paths, id) = Primaries(built, id)
         /\ Secondaries(paths, id) = Secondaries(built, id)
<1>1. \A n \in DOMAIN built : /\ paths[n].source = built[n].source
                              /\ paths[n].secondary = built[n].secondary
                              /\ paths[n].camID = built[n].camID
  BY KeptFields DEF Accepted
<1>2. DOMAIN paths = DOMAIN built
  BY DEF Accepted
<1>3. QED
  BY <1>1, <1>2 DEF Primaries, Secondaries

(* A camera whose secondary path is accepted has one primary path.         *)
LEMMA OnePrimary ==
  ASSUME NEW built, \A k \in DOMAIN built : ~CameraErrors(built, k), NEW n \in DOMAIN built,
         built[n].source = "rpiCamera"
  PROVE  \E m : Primaries(built, built[n].camID) = {m}
<1>1. CASE ~built[n].secondary
  <2>1. Primaries(built, built[n].camID) = {n}
    BY <1>1 DEF CameraErrors
  <2>2. QED
    BY <1>1, <2>1
<1>2. CASE built[n].secondary
  <2>1. PICK m : m \in Primaries(built, built[n].camID)
    BY <1>2 DEF CameraErrors
  <2>2. /\ m \in DOMAIN built /\ built[m].source = "rpiCamera" /\ ~built[m].secondary
        /\ built[m].camID = built[n].camID
    BY <2>1 DEF Primaries
  <2>3. Primaries(built, built[m].camID) = {m}
    BY <2>2 DEF CameraErrors
  <2>4. QED
    BY <2>2, <2>3
<1>3. QED
  BY <1>1, <1>2

(* A finite set that is no more than one element is that element.          *)
LEMMA AtMostOne ==
  ASSUME NEW S, IsFiniteSet(S), ~(Cardinality(S) > 1), NEW x \in S
  PROVE  S = {x}
<1>1. IsFiniteSet(S \ {x}) /\ Cardinality(S \ {x}) = Cardinality(S) - 1
  BY FS_RemoveElement
<1>2. Cardinality(S) \in Nat /\ Cardinality(S \ {x}) \in Nat
  BY <1>1, FS_CardinalityType
<1>3. Cardinality(S \ {x}) = 0
  BY <1>1, <1>2
<1>4. S \ {x} = {}
  BY <1>1, <1>3, FS_EmptySet
<1>5. QED
  BY <1>4

LEMMA AcceptedIsPaired ==
  ASSUME NEW paths, NEW built, Accepted(paths, built), NEW n \in DOMAIN paths,
         paths[n].source = "rpiCamera"
  PROVE  LET p == paths[n] IN
         /\ Cardinality(Primaries(paths, p.camID)) = 1
         /\ p.secondary =>
              /\ p.primaryName \in DOMAIN paths
              /\ paths[p.primaryName].camID = p.camID
              /\ paths[p.primaryName].secondaryWidth = p.width
         /\ ~p.secondary /\ p.secondaryWidth # 0 => Secondaries(paths, p.camID) # {}
<1> DEFINE id == built[n].camID
<1>1. n \in DOMAIN built /\ paths[n] = Derived(built, n)
  BY DEF Accepted
<1>2. /\ built[n].source = "rpiCamera" /\ paths[n].camID = id
      /\ paths[n].secondary = built[n].secondary /\ paths[n].width = built[n].width
  BY <1>1, KeptFields
<1>3. PICK m : Primaries(built, id) = {m}
  BY <1>1, <1>2, OnePrimary DEF Accepted
<1> m \in DOMAIN built /\ built[m].source = "rpiCamera" /\ ~built[m].secondary
    /\ built[m].camID = id
  BY <1>3 DEF Primaries
<1>4. Primaries(paths, id) = {m} /\ Secondaries(paths, id) = Secondaries(built, id)
  BY <1>3, SameCameras
<1>5. Cardinality(Primaries(paths, paths[n].camID)) = 1
  BY <1>2, <1>4, FS_Singleton
<1>6. ASSUME paths[n].secondary
      PROVE  /\ paths[n].primaryName \in DOMAIN paths
             /\ paths[paths[n].primaryName].camID = paths[n].camID
             /\ paths[paths[n].primaryName].secondaryWidth = paths[n].width
  <2>1. paths[n].primaryName = m
    BY <1>1, <1>2, <1>3, <1>6, SecondaryLearns
  <2>2. m \in DOMAIN paths /\ paths[m] = Derived(built, m)
    BY <1>3 DEF Accepted
  <2>3. Secondaries(built, id) = {n}
    <3>1. n \in Secondaries(built, id)
      BY <1>1, <1>2, <1>6 DEF Secondaries
    <3>2. IsFiniteSet(Secondaries(built, id))
      BY FS_Subset DEF Accepted, Secondaries
    <3>3. ~(Cardinality(Secondaries(built, id)) > 1)
      BY <1>1, <1>2, <1>6 DEF Accepted, CameraErrors
    <3>4. QED
      BY <3>1, <3>2, <3>3, AtMostOne
  <2>4. paths[m].camID = id /\ paths[m].secondaryWidth = built[n].width
    BY <1>3, <2>2, <2>3, KeptFields, PrimaryLearns
  <2>5. QED
    BY <1>2, <2>1, <2>2, <2>4
<1>7. ASSUME ~paths[n].secondary, paths[n].secondaryWidth # 0
      PROVE  Secondaries(paths, paths[n].camID) # {}
  BY <1>1, <1>2, <1>4, <1>7, LonePrimary
<1>8. QED
  BY <1>5, <1>6, <1>7

-----------------------------------------------------------------------------
(***************************************************************************)
(* Validation, in parts.                                                   *)
(***************************************************************************)

IsGlobal(g) == g = [f \in GlobalFields |-> g[f]] /\ g.ice \in Nat /\ g.oldIce \in Nat
IsPath(p)   == p = [f \in PathFields |-> p[f]]
IsConf(c) ==
  /\ c = [global |-> c.global, defaults |-> c.defaults, optional |-> c.optional,
          oldDeleteAfter |-> c.oldDeleteAfter, paths |-> c.paths]
  /\ IsGlobal(c.global) /\ IsPath(c.defaults) /\ IsFiniteSet(DOMAIN c.optional)

Built(c) == BuildPaths(MovedToDefaults(c), c.optional)

LEMMA ValidIsAccepted ==
  ASSUME NEW c, IsFiniteSet(DOMAIN c.optional), Validate(c).ok
  PROVE  Accepted(Validate(c).conf.paths, Built(c))
<1>1. Validate(c).conf.paths = [n \in DOMAIN Built(c) |-> Derived(Built(c), n)]
  BY DEF Validate, Built
<1>2. \A n \in DOMAIN Built(c) : ~CameraErrors(Built(c), n)
  BY DEF Validate, Built, Failed
<1>3. DOMAIN Built(c) = DOMAIN c.optional
  BY DEF Built, BuildPaths
<1>4. QED
  BY <1>1, <1>2, <1>3 DEF Accepted

(* Deprecated parameters are applied to any settings,                      *)
LEMMA DeprecatedFields ==
  ASSUME NEW g, IsGlobal(g), NEW d, d = ApplyDeprecated(g)
  PROVE  /\ d = [f \in GlobalFields |-> d[f]]
         /\ d.queue = IF g.oldQueue = Unset THEN g.queue ELSE g.oldQueue
         /\ d.authMethod = IF g.oldAuthAddress = Unset THEN g.authMethod ELSE "http"
         /\ d.authAddress = IF g.oldAuthAddress = Unset THEN g.authAddress ELSE g.oldAuthAddress
         /\ d.rtsp = IF g.oldDisable = Unset THEN g.rtsp ELSE ~g.oldDisable
         /\ d.ice = g.ice + g.oldIce
         /\ \A f \in GlobalFields \ {"queue", "authMethod", "authAddress", "rtsp", "ice"} : d[f] = g[f]
<1>1. {"queue", "authMethod", "authAddress", "rtsp", "ice"} \subseteq GlobalFields
  BY DEF GlobalFields, DefaultGlobal
<1>2. DOMAIN g = GlobalFields
  BY DEF IsGlobal
<1>3. QED
  BY <1>1, <1>2 DEF ApplyDeprecated

LEMMA DeprecatedType ==
  ASSUME NEW g, IsGlobal(g)
  PROVE  IsGlobal(ApplyDeprecated(g))
<1> DEFINE d == ApplyDeprecated(g)
<1> HIDE DEF d
<1>1. d = [f \in GlobalFields |-> d[f]] /\ d.ice = g.ice + g.oldIce
  BY DeprecatedFields DEF d
<1>2. d.oldIce = g.oldIce
  <2>1. "oldIce" \in GlobalFields
    BY DEF GlobalFields, DefaultGlobal
  <2>2. QED
    BY <2>1, DeprecatedFields DEF d
<1>3. QED
  BY <1>1, <1>2 DEF IsGlobal, d

(* and once more they change nothing, unless they are ICE servers.         *)
LEMMA DeprecatedTwice ==
  ASSUME NEW g, IsGlobal(g), g.oldIce = 0
  PROVE  ApplyDeprecated(ApplyDeprecated(g)) = ApplyDeprecated(g)
<1> DEFINE once == ApplyDeprecated(g)
           twice == ApplyDeprecated(once)
<1> HIDE DEF once, twice
<1>1. IsGlobal(once) /\ IsGlobal(twice)
  BY DeprecatedType DEF once, twice
<1>2. /\ once.oldQueue = g.oldQueue /\ once.oldAuthAddress = g.oldAuthAddress
      /\ once.oldDisable = g.oldDisable /\ once.oldIce = 0
  <2>1. {"oldIce", "oldQueue", "oldAuthAddress", "oldDisable"} \subseteq GlobalFields
    BY DEF GlobalFields, DefaultGlobal
  <2>2. QED
    BY <2>1, DeprecatedFields DEF once
<1>3. /\ twice.queue = once.queue /\ twice.authMethod = once.authMethod
      /\ twice.authAddress = once.authAddress /\ twice.rtsp = once.rtsp
  BY <1>1, <1>2, DeprecatedFields DEF once, twice
<1>4. twice.ice = once.ice
  BY <1>1, <1>2, DeprecatedFields DEF once, twice, IsGlobal
<1>5. \A f \in GlobalFields : twice[f] = once[f]
  BY <1>1, <1>3, <1>4, DeprecatedFields DEF twice
<1>6. twice = once
  BY <1>1, <1>5 DEF IsGlobal
<1>7. QED
  BY <1>6 DEF once, twice

-----------------------------------------------------------------------------
(***************************************************************************)
(* The configuration in force is one that validation returned.             *)
(***************************************************************************)

Valid(c) == IsConf(c) /\ \E raw : IsConf(raw) /\ Validate(raw).ok /\ c = Validate(raw).conf

LEMMA MovedType ==
  ASSUME NEW c, IsConf(c)
  PROVE  /\ IsPath(MovedToDefaults(c))
         /\ MovedToDefaults(c).legacyUser = c.defaults.legacyUser
<1>1. {"deleteAfter", "legacyUser"} \subseteq PathFields
  BY DEF PathFields, DefaultPath
<1>2. QED
  BY <1>1 DEF IsConf, IsPath, MovedToDefaults

LEMMA ValidatedType ==
  ASSUME NEW c, IsConf(c)
  PROVE  IsConf(Validate(c).conf)
<1> DEFINE v == Validate(c).conf
           g == ApplyDeprecated(c.global)
<1>1. IsGlobal(g)
  BY DeprecatedType DEF IsConf
<1>2. IsGlobal([g EXCEPT !.users = LegacyUsers(Built(c))])
  <2>1. {"ice", "oldIce"} \subseteq GlobalFields
    BY DEF GlobalFields, DefaultGlobal
  <2>2. QED
    BY <1>1, <2>1 DEF IsGlobal
<1>3. v = [global |-> v.global, defaults |-> v.defaults, optional |-> v.optional,
           oldDeleteAfter |-> v.oldDeleteAfter, paths |-> v.paths]
  BY DEF Validate
<1>4. v.global = IF AnyPathHasDeprecatedCredentials(c)
                 THEN [g EXCEPT !.users = LegacyUsers(Built(c))] ELSE g
  BY DEF Validate, Built
<1>5. v.defaults = MovedToDefaults(c) /\ v.optional = c.optional
  BY DEF Validate
<1>6. IsGlobal(v.global) /\ IsPath(v.defaults) /\ IsFiniteSet(DOMAIN v.optional)
  BY <1>1, <1>2, <1>4, <1>5, MovedType DEF IsConf
<1>7. QED
  BY <1>3, <1>6 DEF IsConf

LEMMA ValidationIsValid ==
  ASSUME NEW c, IsConf(c), Validate(c).ok
  PROVE  Valid(Validate(c).conf)
BY ValidatedType DEF Valid

(* Everything that is validated is a configuration.                        *)
LEMMA OverlaidGlobal ==
  ASSUME NEW g, IsGlobal(g), NEW values,
         \A f \in {"ice", "oldIce"} \cap DOMAIN values : values[f] \in Nat
  PROVE  IsGlobal(Overlay(g, values))
<1>1. {"ice", "oldIce"} \subseteq GlobalFields /\ DOMAIN g = GlobalFields
  BY DEF GlobalFields, DefaultGlobal, IsGlobal
<1>2. QED
  BY <1>1 DEF Overlay, IsGlobal

LEMMA OverlaidPath ==
  ASSUME NEW p, IsPath(p), NEW values
  PROVE  IsPath(Overlay(p, values))
BY DEF Overlay, IsPath

LEMMA DefaultTypes == IsGlobal(DefaultGlobal) /\ IsPath(DefaultPath)
<1>1. IsPath(DefaultPath)
  BY DEF IsPath, PathFields, DefaultPath
<1>2. IsGlobal(DefaultGlobal)
  BY DEF IsGlobal, GlobalFields, DefaultGlobal
<1>3. QED
  BY <1>1, <1>2

LEMMA RawType ==
  ASSUME NEW file \in Files
  PROVE  IsConf(Raw(file))
<1>1. IsGlobal(Overlay(DefaultGlobal, file.global))
  BY ICEServersAreCounted, DefaultTypes, OverlaidGlobal
<1>2. IsPath(Overlay(DefaultPath, file.defaults))
  BY DefaultTypes, OverlaidPath
<1>3. QED
  BY <1>1, <1>2, FinitelyManyPaths DEF Raw, IsConf

LEMMA CloneType ==
  ASSUME NEW c, IsConf(c)
  PROVE  /\ IsConf(Clone(c))
         /\ Clone(c) = [global |-> c.global, defaults |-> c.defaults, optional |-> c.optional,
                        oldDeleteAfter |-> c.oldDeleteAfter, paths |-> [n \in {} |-> Unset]]
<1>1. Clone(c) = [global |-> c.global, defaults |-> c.defaults, optional |-> c.optional,
                  oldDeleteAfter |-> c.oldDeleteAfter, paths |-> [n \in {} |-> Unset]]
  BY DEF Clone, IsConf
<1>2. QED
  BY <1>1 DEF IsConf

LEMMA PatchGlobalType ==
  ASSUME NEW c, IsConf(c), NEW values \in Globals
  PROVE  IsConf(PatchGlobal(c, values))
<1>1. IsGlobal(Overlay(c.global, values))
  BY ICEServersAreCounted, OverlaidGlobal DEF IsConf
<1>2. PatchGlobal(c, values) =
        [global |-> Overlay(c.global, values), defaults |-> c.defaults, optional |-> c.optional,
         oldDeleteAfter |-> c.oldDeleteAfter, paths |-> c.paths]
  BY DEF PatchGlobal, IsConf
<1>3. QED
  BY <1>1, <1>2 DEF IsConf

LEMMA PatchDefaultsType ==
  ASSUME NEW c, IsConf(c), NEW values
  PROVE  IsConf(PatchPathDefaults(c, values))
<1>1. IsPath(Overlay(c.defaults, values))
  BY OverlaidPath DEF IsConf
<1>2. PatchPathDefaults(c, values) =
        [global |-> c.global, defaults |-> Overlay(c.defaults, values), optional |-> c.optional,
         oldDeleteAfter |-> c.oldDeleteAfter, paths |-> c.paths]
  BY DEF PatchPathDefaults, IsConf
<1>3. QED
  BY <1>1, <1>2 DEF IsConf

LEMMA OptionalType ==
  ASSUME NEW c, IsConf(c), NEW o, IsFiniteSet(DOMAIN o)
  PROVE  IsConf([c EXCEPT !.optional = o])
<1>1. [c EXCEPT !.optional = o] =
        [global |-> c.global, defaults |-> c.defaults, optional |-> o,
         oldDeleteAfter |-> c.oldDeleteAfter, paths |-> c.paths]
  BY DEF IsConf
<1>2. QED
  BY <1>1 DEF IsConf

LEMMA WithFinite ==
  ASSUME NEW o, IsFiniteSet(DOMAIN o), NEW n, NEW values
  PROVE  IsFiniteSet(DOMAIN With(o, n, values))
BY FS_AddElement DEF With

LEMMA PathEditTypes ==
  ASSUME NEW c, IsConf(c), NEW n, NEW values
  PROVE  /\ IsConf(AddPath(c, n, values))
         /\ IsConf(ReplacePath(c, n, values))
         /\ IsConf(PatchPath(c, n, values))
         /\ IsConf(RemovePath(c, n))
<1> IsFiniteSet(DOMAIN c.optional)
  BY DEF IsConf
<1>1. IsConf(AddPath(c, n, values))
  BY OptionalType, WithFinite DEF AddPath
<1>2. IsConf(ReplacePath(c, n, values))
  BY OptionalType, WithFinite DEF ReplacePath
<1>3. IsConf(PatchPath(c, n, values))
  BY OptionalType, WithFinite DEF PatchPath
<1>4. IsConf(RemovePath(c, n))
  <2>1. IsFiniteSet(DOMAIN c.optional \ {n})
    BY FS_RemoveElement
  <2>2. QED
    BY <2>1, OptionalType DEF RemovePath
<1>5. QED
  BY <1>1, <1>2, <1>3, <1>4

LEMMA InitValid == Init => Valid(conf)
BY RawType, ValidationIsValid DEF Init, Load

(* A request that is not valid changes nothing.                            *)
LEMMA ApplyKeepsValid ==
  ASSUME Valid(conf), NEW edited, IsConf(edited), NEW kind, NEW n, NEW values,
         Apply(kind, n, values, edited)
  PROVE  Valid(conf')
<1>1. CASE Validate(edited).ok
  BY <1>1, ValidationIsValid DEF Apply
<1>2. CASE ~Validate(edited).ok
  BY <1>2 DEF Apply
<1>3. QED
  BY <1>1, <1>2

LEMMA RefuseKeepsValid ==
  ASSUME Valid(conf), NEW kind, NEW n, NEW status, Refuse(kind, n, status)
  PROVE  Valid(conf')
BY DEF Refuse

LEMMA StepKeepsValid ==
  ASSUME Valid(conf), [Next]_vars
  PROVE  Valid(conf')
<1> IsConf(Clone(conf))
  BY CloneType DEF Valid
<1>1. CASE OnConfigGlobalPatch
  BY <1>1, PatchGlobalType, ApplyKeepsValid DEF OnConfigGlobalPatch
<1>2. CASE OnConfigPathDefaultsPatch
  BY <1>2, PatchDefaultsType, ApplyKeepsValid DEF OnConfigPathDefaultsPatch
<1>3. ASSUME NEW n \in Names, OnConfigPathsAdd(n)
      PROVE  Valid(conf')
  BY <1>3, PathEditTypes, ApplyKeepsValid, RefuseKeepsValid DEF OnConfigPathsAdd
<1>4. ASSUME NEW n \in Names, OnConfigPathsPatch(n)
      PROVE  Valid(conf')
  BY <1>4, PathEditTypes, ApplyKeepsValid, RefuseKeepsValid DEF OnConfigPathsPatch
<1>5. ASSUME NEW n \in Names, OnConfigPathsReplace(n)
      PROVE  Valid(conf')
  BY <1>5, PathEditTypes, ApplyKeepsValid DEF OnConfigPathsReplace
<1>6. ASSUME NEW n \in Names, OnConfigPathsDelete(n)
      PROVE  Valid(conf')
  BY <1>6, PathEditTypes, ApplyKeepsValid, RefuseKeepsValid DEF OnConfigPathsDelete
<1>7. CASE FileChanged
  BY <1>7, RawType, ValidationIsValid DEF FileChanged, Load
<1>8. CASE UNCHANGED vars
  BY <1>8 DEF vars
<1>9. QED
  BY <1>1, <1>2, <1>3, <1>4, <1>5, <1>6, <1>7, <1>8 DEF Next

LEMMA AlwaysValid == Spec => []Valid(conf)
<1>1. Init => Valid(conf)
  BY InitValid
<1>2. Valid(conf) /\ [Next]_vars => Valid(conf)'
  BY StepKeepsValid
<1>3. QED
  BY <1>1, <1>2, PTL DEF Spec

(* Whatever requests and files follow one another, each camera that is     *)
(* read has one primary path, which produces the second stream its         *)
(* secondary path expects.                                                 *)
LEMMA ValidIsPaired ==
  ASSUME Valid(conf)
  PROVE  CamerasPaired
<1>1. PICK raw : IsConf(raw) /\ Validate(raw).ok /\ conf = Validate(raw).conf
  BY DEF Valid
<1>2. Accepted(conf.paths, Built(raw))
  BY <1>1, ValidIsAccepted DEF IsConf
<1>3. QED
  BY <1>2, AcceptedIsPaired DEF CamerasPaired

THEOREM CamerasStayPaired == Spec => []CamerasPaired
BY AlwaysValid, ValidIsPaired, PTL

(* Validating a configuration that is in force changes nothing.            *)
LEMMA ValidatedTwice ==
  ASSUME NEW raw, IsConf(raw), Validate(raw).ok, NEW c, c = Validate(raw).conf,
         c.global.oldIce = 0, ~AnyPathHasDeprecatedCredentials(c)
  PROVE  Validate(Clone(c)) = [ok |-> TRUE, conf |-> c]
<1> DEFINE k == Clone(c)
           g == ApplyDeprecated(raw.global)
<1>1. c.defaults = MovedToDefaults(raw) /\ c.optional = raw.optional
      /\ c.oldDeleteAfter = raw.oldDeleteAfter
  BY DEF Validate
<1>2. ~AnyPathHasDeprecatedCredentials(raw)
  BY <1>1, MovedType DEF AnyPathHasDeprecatedCredentials
<1>3. c.global = g
  BY <1>2 DEF Validate
<1>4. k.global = c.global /\ k.defaults = c.defaults /\ k.optional = c.optional
      /\ k.oldDeleteAfter = c.oldDeleteAfter
  BY ValidatedType, CloneType
<1>5. ~AnyPathHasDeprecatedCredentials(k)
  BY <1>4 DEF AnyPathHasDeprecatedCredentials
<1>6. ApplyDeprecated(k.global) = g
  <2>1. raw.global.oldIce = 0
    <3>1. "oldIce" \in GlobalFields
      BY DEF GlobalFields, DefaultGlobal
    <3>2. QED
      BY <1>3, <3>1, DeprecatedFields DEF IsConf
  <2>2. QED
    BY <1>3, <1>4, <2>1, DeprecatedTwice DEF IsConf
<1>7. MovedToDefaults(k) = c.defaults
  <2>1. c.defaults = IF raw.oldDeleteAfter = Unset THEN raw.defaults
                     ELSE [raw.defaults EXCEPT !.deleteAfter = raw.oldDeleteAfter]
    BY <1>1 DEF MovedToDefaults
  <2>2. MovedToDefaults(k) = IF raw.oldDeleteAfter = Unset THEN c.defaults
                             ELSE [c.defaults EXCEPT !.deleteAfter = raw.oldDeleteAfter]
    BY <1>1, <1>4 DEF MovedToDefaults
  <2>3. "deleteAfter" \in PathFields /\ IsPath(raw.defaults)
    BY DEF PathFields, DefaultPath, IsConf
  <2>4. QED
    BY <2>1, <2>2, <2>3 DEF IsPath
<1>8. Built(k) = Built(raw)
  BY <1>1, <1>4, <1>7 DEF Built
<1>9. ~Failed(k, g, Built(raw))
  <2>1. ~Failed(raw, g, Built(raw))
    BY DEF Validate, Built
  <2>2. QED
    BY <1>5, <2>1, Zenon DEF Failed
<1>10. c = [global |-> g, defaults |-> MovedToDefaults(raw), optional |-> raw.optional,
            oldDeleteAfter |-> raw.oldDeleteAfter,
            paths |-> [n \in DOMAIN Built(raw) |-> Derived(Built(raw), n)]]
  BY <1>2 DEF Validate, Built
<1>11. Validate(k) =
         [ok |-> ~Failed(k, ApplyDeprecated(k.global), Built(k)),
          conf |-> [global |-> ApplyDeprecated(k.global), defaults |-> MovedToDefaults(k),
                    optional |-> k.optional, oldDeleteAfter |-> k.oldDeleteAfter,
                    paths |-> [n \in DOMAIN Built(k) |-> Derived(Built(k), n)]]]
  BY <1>5 DEF Validate, Built
<1>12. QED
  BY <1>1, <1>4, <1>6, <1>7, <1>8, <1>9, <1>10, <1>11

(* The configuration in force passes validation again, unchanged, unless   *)
(* it uses one of the two deprecated features: so an edit changes nothing  *)
(* but what it says, in every order of requests and files.                 *)
THEOREM RevalidationChangesNothing == Spec => []RevalidationIsIdentity
<1>1. Valid(conf) => RevalidationIsIdentity
  BY ValidatedTwice DEF Valid, RevalidationIsIdentity
<1>2. QED
  BY <1>1, AlwaysValid, PTL

-----------------------------------------------------------------------------
(***************************************************************************)
(* What an edit changes.                                                   *)
(***************************************************************************)

(* The configuration of a path is what validation makes of its own values  *)
(* and the defaults,                                                       *)
LEMMA PathOfValidated ==
  ASSUME NEW c, IsConf(c), NEW v, v = Validate(c).conf
  PROVE  /\ DOMAIN v.paths = DOMAIN c.optional /\ v.optional = c.optional
         /\ v.oldDeleteAfter = c.oldDeleteAfter /\ v.defaults = MovedToDefaults(c)
         /\ \A n \in DOMAIN c.optional :
              /\ Built(c)[n] = NewPath(v.defaults, c.optional[n])
              /\ v.paths[n] = Derived(Built(c), n)
BY DEF Validate, Built, BuildPaths

(* of which it keeps all but a value under its deprecated name,            *)
LEMMA DerivedFields ==
  ASSUME NEW built, NEW n \in DOMAIN built, NEW d, d = Derived(built, n)
  PROVE  /\ \A f \in PathFields \ RuledInPath(d) : d[f] = built[n][f]
         /\ d.overridePublisher = IF built[n].source = "publisher" /\ built[n].disableOverride # Unset
                                  THEN ~built[n].disableOverride ELSE built[n].overridePublisher
<1>1. /\ {"source", "disableOverride", "overridePublisher"} \subseteq PathFields
      /\ {"primaryName", "secondaryWidth"} \cap PathFields = {}
  BY DEF PathFields, DefaultPath
<1>2. \A f \in PathFields \ {"overridePublisher"} : d[f] = built[n][f]
  BY <1>1 DEF Derived
<1>3. d.overridePublisher = IF built[n].source = "publisher" /\ built[n].disableOverride # Unset
                           THEN ~built[n].disableOverride ELSE built[n].overridePublisher
  BY <1>1 DEF Derived
<1>4. d.source = built[n].source /\ d.disableOverride = built[n].disableOverride
  BY <1>1, <1>2
<1>5. QED
  BY <1>2, <1>3, <1>4 DEF RuledInPath

(* so that two paths with the same values and defaults are the same.       *)
LEMMA SameValuesSamePath ==
  ASSUME NEW built, NEW other, NEW n \in DOMAIN built, n \in DOMAIN other, other[n] = built[n],
         NEW f \in PathFields
  PROVE  Derived(built, n)[f] = Derived(other, n)[f]
<1>1. \A g \in PathFields \ {"overridePublisher"} :
        Derived(built, n)[g] = built[n][g] /\ Derived(other, n)[g] = other[n][g]
  BY DerivedFields DEF RuledInPath
<1>2. QED
  BY <1>1, DerivedFields

(* What a path has a value of its own for, it has; what it has none for    *)
(* is that of the defaults.                                                *)
LEMMA OwnValues ==
  ASSUME NEW defaults, IsPath(defaults), NEW values, NEW f \in PathFields
  PROVE  NewPath(defaults, values)[f] = IF f \in DOMAIN values THEN values[f] ELSE defaults[f]
BY DEF NewPath, Overlay, IsPath

(* The defaults of the configuration in force have been moved already.     *)
LEMMA MovedTwice ==
  ASSUME Valid(conf)
  PROVE  conf.defaults = IF conf.oldDeleteAfter = Unset THEN conf.defaults
                         ELSE [conf.defaults EXCEPT !.deleteAfter = conf.oldDeleteAfter]
<1>1. PICK raw : IsConf(raw) /\ conf = Validate(raw).conf
  BY DEF Valid
<1>2. /\ conf.oldDeleteAfter = raw.oldDeleteAfter
      /\ conf.defaults = IF raw.oldDeleteAfter = Unset THEN raw.defaults
                         ELSE [raw.defaults EXCEPT !.deleteAfter = raw.oldDeleteAfter]
  BY <1>1, PathOfValidated DEF MovedToDefaults
<1>3. "deleteAfter" \in PathFields /\ IsPath(raw.defaults)
  BY <1>1 DEF PathFields, DefaultPath, IsConf
<1>4. QED
  BY <1>2, <1>3 DEF IsPath

(* An edit of the values of one path leaves the others alone.              *)
LEMMA OthersStay ==
  ASSUME Valid(conf), NEW o, IsFiniteSet(DOMAIN o), NEW n, NEW m \in DOMAIN conf.paths \ {n},
         m \in DOMAIN o, o[m] = conf.optional[m], NEW f \in PathFields,
         NEW v, v = Validate([Clone(conf) EXCEPT !.optional = o]).conf
  PROVE  v.paths[m][f] = conf.paths[m][f]
<1> DEFINE c == [Clone(conf) EXCEPT !.optional = o]
<1>0. v = Validate(c).conf
  OBVIOUS
<1> HIDE DEF c
<1>1. PICK raw : IsConf(raw) /\ conf = Validate(raw).conf
  BY DEF Valid
<1>2. IsConf(c) /\ c.optional = o /\ c.defaults = conf.defaults
      /\ c.oldDeleteAfter = conf.oldDeleteAfter
  <2>1. IsConf(Clone(conf))
    BY CloneType DEF Valid
  <2>2. QED
    BY <2>1, OptionalType, CloneType DEF c, IsConf, Valid
<1>3. MovedToDefaults(c) = conf.defaults
  BY <1>2, MovedTwice DEF MovedToDefaults
<1>4. m \in DOMAIN raw.optional /\ raw.optional[m] = o[m]
      /\ Built(raw)[m] = NewPath(conf.defaults, o[m]) /\ conf.paths[m] = Derived(Built(raw), m)
  BY <1>1, PathOfValidated
<1>5. Built(c)[m] = NewPath(conf.defaults, o[m]) /\ v.paths[m] = Derived(Built(c), m)
  BY <1>0, <1>2, <1>3, PathOfValidated
<1>6. m \in DOMAIN Built(c) /\ m \in DOMAIN Built(raw)
  BY <1>2, <1>4 DEF Built, BuildPaths
<1>7. QED
  BY <1>4, <1>5, <1>6, SameValuesSamePath

(* The path that is edited has what it was given.                          *)
LEMMA EditedPath ==
  ASSUME Valid(conf), NEW o, IsFiniteSet(DOMAIN o), NEW n \in DOMAIN o,
         NEW values, DOMAIN values \subseteq PathFields,
         \A f \in DOMAIN values : f \in DOMAIN o[n] /\ o[n][f] = values[f],
         NEW v, v = Validate([Clone(conf) EXCEPT !.optional = o]).conf
  PROVE  /\ DOMAIN v.paths = DOMAIN o
         /\ \A f \in DOMAIN values \ RuledInPath(v.paths[n]) : v.paths[n][f] = values[f]
<1> DEFINE c == [Clone(conf) EXCEPT !.optional = o]
<1> HIDE DEF c
<1>1. IsConf(c) /\ c.optional = o
  <2>1. IsConf(Clone(conf))
    BY CloneType DEF Valid
  <2>2. QED
    BY <2>1, OptionalType DEF c, IsConf
<1>2. IsPath(v.defaults) /\ v = Validate(c).conf
  BY <1>1, MovedType, PathOfValidated DEF c
<1>3. Built(c)[n] = NewPath(v.defaults, o[n]) /\ v.paths[n] = Derived(Built(c), n)
      /\ DOMAIN v.paths = DOMAIN o
  BY <1>1, <1>2, PathOfValidated
<1>4. \A f \in DOMAIN values : Built(c)[n][f] = values[f]
  BY <1>2, <1>3, OwnValues
<1>5. n \in DOMAIN Built(c)
  BY <1>1 DEF Built, BuildPaths
<1>6. QED
  BY <1>3, <1>4, <1>5, DerivedFields

(* The requests.                                                           *)
LEMMA GlobalEdit ==
  ASSUME Valid(conf), NEW values \in Globals,
         Apply("global", Unset, values, PatchGlobal(Clone(conf), values)), answer' = 200
  PROVE  EditTakesEffect
<1> DEFINE c == PatchGlobal(Clone(conf), values)
           g == ApplyDeprecated(c.global)
<1>1. IsConf(Clone(conf))
  BY CloneType DEF Valid
<1>2. IsConf(c) /\ c.global = Overlay(Clone(conf).global, values)
  BY <1>1, PatchGlobalType DEF PatchGlobal, IsConf
<1> HIDE DEF c
<1>3. conf' = Validate(c).conf /\ asked' = [kind |-> "global", name |-> Unset, values |-> values]
  BY DEF Apply, c
<1>4. conf'.global = IF AnyPathHasDeprecatedCredentials(c)
                     THEN [g EXCEPT !.users = LegacyUsers(Built(c))] ELSE g
  BY <1>3 DEF Validate, Built
<1>5. IsGlobal(c.global) /\ IsGlobal(g)
  BY <1>2, DeprecatedType DEF IsConf
<1> HIDE DEF g
<1>6. DOMAIN g = GlobalFields /\ \A f \in GlobalFields \ {"users"} : conf'.global[f] = g[f]
  BY <1>4, <1>5 DEF IsGlobal
<1>7. \A f \in {"oldQueue", "oldDisable", "oldAuthAddress"} :
        f \in GlobalFields /\ f # "users" /\ g[f] = c.global[f]
  <2>1. {"oldQueue", "oldDisable", "oldAuthAddress"} \subseteq GlobalFields
    BY DEF GlobalFields, DefaultGlobal
  <2>2. QED
    BY <1>5, <2>1, DeprecatedFields DEF g
<1>8. ASSUME NEW f \in DOMAIN values \ Ruled(conf'.global)
      PROVE  conf'.global[f] = values[f]
  <2>1. f \in GlobalFields /\ f \notin {"ice", "users"} /\ c.global[f] = values[f]
    BY <1>1, <1>2, RequestsAreKnown DEF Ruled, Overlay, IsConf, IsGlobal
  <2>2. /\ f = "queue" => c.global.oldQueue = Unset
        /\ f = "rtsp" => c.global.oldDisable = Unset
        /\ f \in {"authMethod", "authAddress"} => c.global.oldAuthAddress = Unset
    BY <1>6, <1>7, <2>1 DEF Ruled
  <2>3. g[f] = c.global[f]
    BY <1>5, <2>1, <2>2, DeprecatedFields DEF g
  <2>4. QED
    BY <1>6, <2>1, <2>3
<1>9. QED
  BY <1>3, <1>8 DEF EditTakesEffect

LEMMA DefaultsEdit ==
  ASSUME Valid(conf), NEW values \in PathValues,
         Apply("defaults", Unset, values, PatchPathDefaults(Clone(conf), values)), answer' = 200
  PROVE  EditTakesEffect
<1> DEFINE c == PatchPathDefaults(Clone(conf), values)
<1>1. IsConf(Clone(conf))
  BY CloneType DEF Valid
<1>2. IsConf(c) /\ c.defaults = Overlay(Clone(conf).defaults, values)
  BY <1>1, PatchDefaultsType DEF PatchPathDefaults, IsConf
<1>3. conf' = Validate(c).conf /\ asked' = [kind |-> "defaults", name |-> Unset, values |-> values]
  BY DEF Apply
<1> HIDE DEF c
<1>4. ASSUME NEW n \in DOMAIN conf'.paths,
             NEW f \in DOMAIN values \ (RuledInDefaults(conf') \cup RuledInPath(conf'.paths[n])),
             f \notin DOMAIN conf'.optional[n]
      PROVE  conf'.paths[n][f] = values[f]
  <2>1. f \in PathFields
    BY RequestsAreKnown
  <2>2. /\ n \in DOMAIN c.optional /\ conf'.optional = c.optional
        /\ conf'.oldDeleteAfter = c.oldDeleteAfter /\ conf'.defaults = MovedToDefaults(c)
        /\ Built(c)[n] = NewPath(conf'.defaults, c.optional[n])
        /\ conf'.paths[n] = Derived(Built(c), n)
    BY <1>2, <1>3, PathOfValidated
  <2>3. c.defaults[f] = values[f]
    BY <1>1, <1>2, <2>1 DEF Overlay, IsConf, IsPath
  <2>4. conf'.defaults[f] = c.defaults[f]
    BY <1>2, <2>1, <2>2 DEF MovedToDefaults, RuledInDefaults, IsConf, IsPath
  <2>5. Built(c)[n][f] = conf'.defaults[f]
    BY <1>2, <1>4, <2>1, <2>2, MovedType, OwnValues
  <2>6. n \in DOMAIN Built(c)
    BY <2>2 DEF Built, BuildPaths
  <2>7. QED
    BY <2>1, <2>2, <2>3, <2>4, <2>5, <2>6, DerivedFields
<1>5. QED
  BY <1>3, <1>4 DEF EditTakesEffect

LEMMA PathsOfValid ==
  ASSUME Valid(conf)
  PROVE  DOMAIN conf.paths = DOMAIN conf.optional /\ IsFiniteSet(DOMAIN conf.optional)
         /\ IsConf(Clone(conf)) /\ Clone(conf).optional = conf.optional
BY PathOfValidated, CloneType DEF Valid, IsConf

LEMMA PathEdit ==
  ASSUME Valid(conf), NEW n, NEW values \in PathValues, NEW kind \in {"add", "patch", "replace"},
         NEW own, \A f \in DOMAIN values : f \in DOMAIN own /\ own[f] = values[f],
         NEW o, o = With(conf.optional, n, own),
         Apply(kind, n, values, [Clone(conf) EXCEPT !.optional = o]), answer' = 200
  PROVE  EditTakesEffect
<1>1. /\ DOMAIN o = DOMAIN conf.optional \cup {n} /\ o[n] = own
      /\ \A m \in DOMAIN conf.optional \ {n} : o[m] = conf.optional[m]
      /\ IsFiniteSet(DOMAIN o)
  BY PathsOfValid, WithFinite DEF With
<1>2. /\ conf' = Validate([Clone(conf) EXCEPT !.optional = o]).conf
      /\ asked' = [kind |-> kind, name |-> n, values |-> values]
  BY DEF Apply
<1>3. /\ DOMAIN conf'.paths = DOMAIN conf.paths \cup {n}
      /\ \A f \in DOMAIN values \ RuledInPath(conf'.paths[n]) : conf'.paths[n][f] = values[f]
  BY <1>1, <1>2, EditedPath, PathsOfValid, RequestsAreKnown
<1>4. \A m \in DOMAIN conf.paths \ {n}, f \in PathFields : conf'.paths[m][f] = conf.paths[m][f]
  BY <1>1, <1>2, OthersStay, PathsOfValid
<1>5. QED
  BY <1>2, <1>3, <1>4 DEF EditTakesEffect

LEMMA PathRemoved ==
  ASSUME Valid(conf), NEW n, Apply("delete", n, Unset, RemovePath(Clone(conf), n)), answer' = 200
  PROVE  EditTakesEffect
<1> DEFINE o == [m \in DOMAIN conf.optional \ {n} |-> conf.optional[m]]
<1>1. DOMAIN o = DOMAIN conf.optional \ {n} /\ IsFiniteSet(DOMAIN o)
      /\ \A m \in DOMAIN o : o[m] = conf.optional[m]
  BY PathsOfValid, FS_RemoveElement
<1>2. RemovePath(Clone(conf), n) = [Clone(conf) EXCEPT !.optional = o]
  BY PathsOfValid DEF RemovePath
<1> HIDE DEF o
<1>3. /\ conf' = Validate([Clone(conf) EXCEPT !.optional = o]).conf
      /\ asked' = [kind |-> "delete", name |-> n, values |-> Unset]
  BY <1>2 DEF Apply
<1>4. DOMAIN conf'.paths = DOMAIN conf.paths \ {n}
  <2>1. IsConf([Clone(conf) EXCEPT !.optional = o])
    BY <1>1, OptionalType, PathsOfValid
  <2>2. [Clone(conf) EXCEPT !.optional = o].optional = o
    BY PathsOfValid DEF IsConf
  <2>3. QED
    BY <1>1, <1>3, <2>1, <2>2, PathOfValidated, PathsOfValid
<1>5. \A m \in DOMAIN conf.paths \ {n}, f \in PathFields : conf'.paths[m][f] = conf.paths[m][f]
  BY <1>1, <1>3, OthersStay, PathsOfValid
<1>6. QED
  BY <1>3, <1>4, <1>5 DEF EditTakesEffect

LEMMA EditStep ==
  ASSUME Valid(conf), [Next]_vars
  PROVE  [answer' = 200 => EditTakesEffect]_vars
<1> SUFFICES ASSUME Next, answer' = 200
             PROVE  EditTakesEffect
  OBVIOUS
<1>1. CASE OnConfigGlobalPatch
  BY <1>1, GlobalEdit DEF OnConfigGlobalPatch
<1>2. CASE OnConfigPathDefaultsPatch
  BY <1>2, DefaultsEdit DEF OnConfigPathDefaultsPatch
<1>3. ASSUME NEW n \in Names, OnConfigPathsAdd(n)
      PROVE  EditTakesEffect
  <2>1. PICK v \in PathValues : Apply("add", n, v, AddPath(Clone(conf), n, v))
    BY <1>3 DEF OnConfigPathsAdd, Refuse
  <2>2. AddPath(Clone(conf), n, v) = [Clone(conf) EXCEPT !.optional = With(conf.optional, n, v)]
    BY PathsOfValid DEF AddPath
  <2> Apply("add", n, v, [Clone(conf) EXCEPT !.optional = With(conf.optional, n, v)])
    BY <2>1, <2>2
  <2>3. \A f \in DOMAIN v : f \in DOMAIN v /\ v[f] = v[f]
    OBVIOUS
  <2>4. QED
    BY <2>1, <2>2, <2>3, PathEdit
<1>4. ASSUME NEW n \in Names, OnConfigPathsPatch(n)
      PROVE  EditTakesEffect
  <2>1. PICK v \in PathValues : Apply("patch", n, v, PatchPath(Clone(conf), n, v))
    BY <1>4 DEF OnConfigPathsPatch, Refuse
  <2> DEFINE own == [f \in DOMAIN conf.optional[n] \cup DOMAIN v |->
                       IF f \in DOMAIN v THEN v[f] ELSE conf.optional[n][f]]
  <2>2. PatchPath(Clone(conf), n, v) =
          [Clone(conf) EXCEPT !.optional = With(conf.optional, n, own)]
    BY PathsOfValid DEF PatchPath
  <2>3. \A f \in DOMAIN v : f \in DOMAIN own /\ own[f] = v[f]
    OBVIOUS
  <2> HIDE DEF own
  <2> Apply("patch", n, v, [Clone(conf) EXCEPT !.optional = With(conf.optional, n, own)])
    BY <2>1, <2>2
  <2>4. QED
    BY <2>1, <2>2, <2>3, PathEdit
<1>5. ASSUME NEW n \in Names, OnConfigPathsReplace(n)
      PROVE  EditTakesEffect
  <2>1. PICK v \in PathValues : Apply("replace", n, v, ReplacePath(Clone(conf), n, v))
    BY <1>5 DEF OnConfigPathsReplace
  <2>2. ReplacePath(Clone(conf), n, v) = [Clone(conf) EXCEPT !.optional = With(conf.optional, n, v)]
    BY PathsOfValid DEF ReplacePath
  <2> Apply("replace", n, v, [Clone(conf) EXCEPT !.optional = With(conf.optional, n, v)])
    BY <2>1, <2>2
  <2>3. \A f \in DOMAIN v : f \in DOMAIN v /\ v[f] = v[f]
    OBVIOUS
  <2>4. QED
    BY <2>1, <2>2, <2>3, PathEdit
<1>6. ASSUME NEW n \in Names, OnConfigPathsDelete(n)
      PROVE  EditTakesEffect
  BY <1>6, PathRemoved DEF OnConfigPathsDelete, Refuse
<1>7. CASE FileChanged
  BY <1>7 DEF FileChanged, EditTakesEffect
<1>8. QED
  BY <1>1, <1>2, <1>3, <1>4, <1>5, <1>6, <1>7 DEF Next

(* An accepted request puts what it carries in force, in the path it names *)
(* or wherever a path has no value of its own, and changes no other path,  *)
(* whatever was loaded and edited before.                                  *)
THEOREM AcceptedEditsTakeEffect == Spec => EditsTakeEffect
<1>1. Valid(conf) /\ [Next]_vars => [answer' = 200 => EditTakesEffect]_vars
  BY EditStep
<1>2. QED
  BY <1>1, AlwaysValid, PTL DEF Spec, EditsTakeEffect

=============================================================================
