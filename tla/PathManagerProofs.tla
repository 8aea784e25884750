------------------------- MODULE PathManagerProofs -------------------------
(***************************************************************************)
(* Proofs about the path manager, for any names, clients, paths and        *)
(* configurations, then about the HLS server and its muxers next to it.    *)
(*                                                                         *)
(* The properties of PathManager are about paths that run and lists that   *)
(* are settled.  IInv says what holds in between: which configuration a    *)
(* path is being moved to (ConfsFit), why a path may be ending (Ending),   *)
(* and that the name of a path which is waited for is free (Awaited).      *)
(***************************************************************************)
EXTENDS HLSServer, TLAPS

-----------------------------------------------------------------------------
(* Configurations.                                                         *)

(* A configuration has one of the keys; a static source excludes a regular *)
(* expression.                                                             *)
LEMMA PathConfFacts ==
  ASSUME NEW p \in PathConfs
  PROVE  p.key \in Keys /\ (p.regexp => ~p.static)
BY ConfigsValid DEF PathConfs, Keys

(* What conf.FindPathConf returns for a name that is configured.           *)
LEMMA FindConf ==
  ASSUME NEW c \in Configs, NEW n \in Names, IsConfigured(c, n)
  PROVE  /\ FindPathConf(c, n) \in PathConfs
         /\ FindPathConf(c, n).key \in Keys
         /\ FindPathConf(c, n).key \in DOMAIN c
         /\ c[FindPathConf(c, n).key] = FindPathConf(c, n)
<1>1. PICK k \in DOMAIN c : FindPathConf(c, n) = c[k]
  <2>1. CASE n \in DOMAIN c
    BY <2>1 DEF FindPathConf
  <2>2. CASE n \notin DOMAIN c
    <3>1. \E k \in DOMAIN c : c[k].regexp
      BY <2>2 DEF IsConfigured
    <3>2. FindPathConf(c, n) = c[CHOOSE k \in DOMAIN c : c[k].regexp]
      BY <2>2 DEF FindPathConf
    <3>3. (CHOOSE k \in DOMAIN c : c[k].regexp) \in DOMAIN c
      BY <3>1
    <3> QED
      BY <3>2, <3>3
  <2> QED
    BY <2>1, <2>2
<1>2. k \in Keys /\ c[k] \in PathConfs
  BY DEF Keys, PathConfs
<1>3. c[k].key = k
  BY <1>2, ConfigsValid
<1> QED
  BY <1>1, <1>2, <1>3

-----------------------------------------------------------------------------
(***************************************************************************)
(* The inductive invariant.                                                *)
(***************************************************************************)

Reloading == pmState \in {"reloading", "waiting"}

(* The configuration that the path of a name has been moved to, or stays   *)
(* in while the reload has not come to it.                                 *)
Target(n) == IF Reloading /\ n \notin todo THEN newPaths ELSE pathConfs

(* The listed path of the name runs what c says in all that cannot be      *)
(* changed in place, now and after any reload that is on its way to it.    *)
InForce(c, n) ==
  /\ IsConfigured(c, n)
  /\ confName[n] = FindPathConf(c, n).key
  /\ PathConfCanBeUpdated(conf[paths[n]], FindPathConf(c, n))
  /\ \A new \in PathConfs :
       <<paths[n], new>> \in reloads => PathConfCanBeUpdated(new, FindPathConf(c, n))

(* A reload looks at listed paths only, and none is left after it.         *)
TodoListed == /\ \A n \in todo : paths[n] # Nil
              /\ todo # {} => Reloading

(* What the place where its goroutine is says about a path.                *)
InPlace ==
  \A i \in Ids :
    /\ Alive(i) => name[i] \in Names /\ conf[i] \in PathConfs
    /\ step[i] \in {"closing", "finalCall", "done"} => ctxDone[i]
    /\ step[i] \in {"readyCall", "overrideCall"} => stream[i]

(* While the manager is not closing, a path that ends is the one the       *)
(* manager waits for, or one of a regular expression that nobody used.     *)
Ending ==
  ~pmCtxDone => \A i \in Ids : Alive(i) =>
    /\ ctxDone[i] => waitFor = i \/ (step[i] \in {"closing", "finalCall"} /\ conf[i].regexp)
    /\ step[i] = "closeCall" /\ ~ctxDone[i] => conf[i].regexp

(* The name of the path that the manager waits for is free.                *)
Awaited ==
  ~pmCtxDone /\ pmState = "waiting" /\ Alive(waitFor) => paths[name[waitFor]] = Nil

(* Every listed path fits the configuration it has been moved to.          *)
ConfsFit == ~pmCtxDone => \A n \in Names : paths[n] # Nil => InForce(Target(n), n)

IInv == /\ TypeOK
        /\ TodoListed
        /\ InPlace
        /\ ListedPathsServe
        /\ ServingPathsListed
        /\ ReadyFlagFollowsPath
        /\ Ending
        /\ Awaited
        /\ ConfsFit
        /\ StaticSourcesExist

-----------------------------------------------------------------------------
(* The operators that the actions share.                                   *)

(* A path is created in an object that nothing refers to.                  *)
LEMMA Created ==
  ASSUME TypeOK, NEW i \in Ids, NEW n \in Names, NEW p \in PathConfs, CreatePath(i, p, n)
  PROVE  /\ ~Alive(i) /\ i # Nil /\ waitFor # i
         /\ \A m \in Names : paths[m] # i
         /\ \A c \in Clients : asked[c] # i
         /\ \A new \in PathConfs : <<i, new>> \notin reloads
         /\ paths' \in [Names -> IdsOrNil] /\ paths'[n] = i
         /\ ready' \in [Names -> BOOLEAN] /\ ~ready'[n]
         /\ confName' \in [Names -> Keys \cup {Nil}] /\ confName'[n] = p.key
         /\ \A m \in Names : m # n =>
              paths'[m] = paths[m] /\ ready'[m] = ready[m] /\ confName'[m] = confName[m]
         /\ name' \in [Ids -> Names \cup {Nil}] /\ name'[i] = n
         /\ conf' \in [Ids -> PathConfs \cup {Nil}] /\ conf'[i] = p
         /\ ctxDone' \in [Ids -> BOOLEAN] /\ ~ctxDone'[i]
         /\ used' \in [Ids -> BOOLEAN] /\ ~used'[i]
         /\ stream' \in [Ids -> BOOLEAN] /\ ~stream'[i]
         /\ step' \in [Ids -> PathSteps] /\ step'[i] = "running"
         /\ \A j \in Ids : j # i =>
              /\ name'[j] = name[j] /\ conf'[j] = conf[j] /\ ctxDone'[j] = ctxDone[j]
              /\ stream'[j] = stream[j] /\ step'[j] = step[j]
<1>1. /\ ~Alive(i) /\ i # Nil /\ waitFor # i
      /\ \A m \in Names : paths[m] # i
      /\ \A c \in Clients : asked[c] # i
  BY NilIsNoValue DEF CreatePath, Free, Referenced
<1>2. ASSUME NEW new \in PathConfs, <<i, new>> \in reloads
      PROVE  FALSE
  <2>1. <<i, new>>[1] \in Referenced
    BY <1>2 DEF Referenced
  <2> QED
    BY <2>1 DEF CreatePath, Free
<1>3. /\ paths' \in [Names -> IdsOrNil] /\ paths'[n] = i
      /\ ready' \in [Names -> BOOLEAN] /\ ~ready'[n]
      /\ confName' \in [Names -> Keys \cup {Nil}] /\ confName'[n] = p.key
      /\ \A m \in Names : m # n =>
           paths'[m] = paths[m] /\ ready'[m] = ready[m] /\ confName'[m] = confName[m]
  BY PathConfFacts DEF CreatePath, TypeOK, IdsOrNil
<1>4. /\ name' \in [Ids -> Names \cup {Nil}] /\ name'[i] = n
      /\ conf' \in [Ids -> PathConfs \cup {Nil}] /\ conf'[i] = p
      /\ ctxDone' \in [Ids -> BOOLEAN] /\ ~ctxDone'[i]
      /\ used' \in [Ids -> BOOLEAN] /\ ~used'[i]
      /\ stream' \in [Ids -> BOOLEAN] /\ ~stream'[i]
      /\ step' \in [Ids -> PathSteps] /\ step'[i] = "running"
      /\ \A j \in Ids : j # i =>
           /\ name'[j] = name[j] /\ conf'[j] = conf[j] /\ ctxDone'[j] = ctxDone[j]
           /\ stream'[j] = stream[j] /\ step'[j] = step[j]
  BY DEF CreatePath, TypeOK, PathSteps
<1> QED
  BY <1>1, <1>2, <1>3, <1>4

(* The entry of one name is cleared.                                       *)
LEMMA Removed ==
  ASSUME TypeOK, NEW n \in Names, RemovePath(n)
  PROVE  /\ paths' \in [Names -> IdsOrNil] /\ paths'[n] = Nil
         /\ ready' \in [Names -> BOOLEAN]
         /\ confName' \in [Names -> Keys \cup {Nil}]
         /\ \A m \in Names : m # n =>
              paths'[m] = paths[m] /\ ready'[m] = ready[m] /\ confName'[m] = confName[m]
BY DEF RemovePath, TypeOK, IdsOrNil

(* A call of a path: the flag of the name changes only if the path is the  *)
(* one that is listed, and does change if neither context is done.         *)
LEMMA Notified ==
  ASSUME TypeOK, NEW i \in Ids, name[i] \in Names, NEW isReady \in BOOLEAN,
         NotifyOutcome(i, isReady)
  PROVE  /\ ready' \in [Names -> BOOLEAN]
         /\ notice' \in IF pmState' = "notifying" THEN Names \X BOOLEAN ELSE {Nil}
         /\ pmState' = pmState \/ (pmState = "idle" /\ pmState' = "notifying")
         /\ \A n \in Names : paths[n] # i => ready'[n] = ready[n]
         /\ ~CtxDone(i) /\ paths[name[i]] = i => ready'[name[i]] = isReady
<1>1. CASE pmState = "idle" /\ paths[name[i]] = i /\ Notify(i, isReady)
  <2>1. ready' = [ready EXCEPT ![name[i]] = isReady]
    BY <1>1 DEF Notify
  <2>2. \/ pmState' = "notifying" /\ notice' = <<name[i], isReady>>
        \/ UNCHANGED <<pmState, notice>>
    BY <1>1 DEF Notify
  <2>3. /\ ready' \in [Names -> BOOLEAN] /\ ready'[name[i]] = isReady
        /\ \A n \in Names : paths[n] # i => ready'[n] = ready[n]
    BY <1>1, <2>1 DEF TypeOK
  <2> QED
    BY <1>1, <2>2, <2>3 DEF TypeOK
<1>2. CASE /\ UNCHANGED <<ready, pmState, notice>>
           /\ CtxDone(i) \/ paths[name[i]] # i
  BY <1>2 DEF TypeOK
<1> QED
  BY <1>1, <1>2 DEF NotifyOutcome, Notify

(* A path that is created where there is none, with the configuration of   *)
(* its name.                                                               *)
LEMMA CreateKeeps ==
  ASSUME IInv, NEW n \in Names, NEW i \in Ids,
         pmState \in {"idle", "creating"}, paths[n] = Nil, IsConfigured(pathConfs, n),
         CreatePath(i, FindPathConf(pathConfs, n), n),
         asked' \in [Clients -> IdsOrNil],
         UNCHANGED <<pathConfs, pmCtxDone, pmState, newPaths, todo, waitFor, hlsServer,
                     notice, reloads>>
  PROVE  IInv'
<1> DEFINE p == FindPathConf(pathConfs, n)
<1>1. p \in PathConfs
  BY FindConf DEF IInv, TypeOK
<1>2. /\ ~Alive(i) /\ i # Nil /\ waitFor # i
      /\ \A m \in Names : paths[m] # i
      /\ \A new \in PathConfs : <<i, new>> \notin reloads
  BY <1>1, Created DEF IInv
<1>3. /\ paths'[n] = i /\ ~ready'[n] /\ confName'[n] = p.key
      /\ \A m \in Names : m # n =>
           paths'[m] = paths[m] /\ ready'[m] = ready[m] /\ confName'[m] = confName[m]
  BY <1>1, Created DEF IInv
<1>4. /\ name'[i] = n /\ conf'[i] = p /\ ~ctxDone'[i] /\ ~stream'[i] /\ step'[i] = "running"
      /\ \A j \in Ids : j # i =>
           /\ name'[j] = name[j] /\ conf'[j] = conf[j] /\ ctxDone'[j] = ctxDone[j]
           /\ stream'[j] = stream[j] /\ step'[j] = step[j]
  BY <1>1, Created DEF IInv
<1>5. TypeOK'
  BY <1>1, Created DEF IInv, TypeOK
<1>6. TodoListed'
  BY <1>2, <1>3 DEF IInv, TypeOK, TodoListed, Reloading
<1>7. InPlace'
  BY <1>1, <1>4 DEF IInv, InPlace, Alive
<1>8. ListedPathsServe'
  BY <1>2, <1>3, <1>4 DEF IInv, TypeOK, IdsOrNil, ListedPathsServe, Alive
<1>9. ServingPathsListed'
  <2> SUFFICES ASSUME NEW j \in Ids, Alive(j)', ~ctxDone'[j]
               PROVE  paths'[name'[j]] = j
    BY DEF ServingPathsListed
  <2>1. CASE j = i
    BY <2>1, <1>3, <1>4
  <2>2. CASE j # i
    <3>1. Alive(j) /\ name'[j] = name[j] /\ name[j] \in Names /\ paths[name[j]] = j
      BY <2>2, <1>4 DEF IInv, Alive, InPlace, ServingPathsListed
    <3> QED
      BY <3>1, <1>3, NilIsNoValue
  <2> QED
    BY <2>1, <2>2
<1>10. ReadyFlagFollowsPath'
  <2> SUFFICES ASSUME NEW m \in Names, paths'[m] # Nil, step'[paths'[m]] = "running", ~pmCtxDone
               PROVE  ready'[m] = stream'[paths'[m]]
    BY DEF ReadyFlagFollowsPath
  <2>1. CASE m = n
    <3>1. ready'[n] \in BOOLEAN /\ stream'[i] \in BOOLEAN
      BY <1>5 DEF TypeOK
    <3> QED
      BY <2>1, <3>1, <1>3, <1>4
  <2>2. CASE m # n
    <3>1. paths'[m] = paths[m] /\ ready'[m] = ready[m] /\ paths[m] \in Ids /\ paths[m] # i
      BY <2>2, <1>2, <1>3 DEF IInv, TypeOK, IdsOrNil
    <3> QED
      BY <3>1, <1>4 DEF IInv, ReadyFlagFollowsPath
  <2> QED
    BY <2>1, <2>2
<1>11. Ending'
  BY <1>2, <1>4 DEF IInv, Ending, Alive
<1>12. Awaited'
  BY DEF IInv, TypeOK, Awaited
<1>13. ConfsFit'
  <2> SUFFICES ASSUME NEW m \in Names, paths'[m] # Nil, ~pmCtxDone
               PROVE  InForce(Target(m), m)'
    BY DEF ConfsFit
  <2>1. Target(m)' = pathConfs
    BY DEF Target, Reloading
  <2>2. CASE m = n
    BY <2>1, <2>2, <1>2, <1>3, <1>4 DEF InForce, PathConfCanBeUpdated
  <2>3. CASE m # n
    <3>1. /\ paths'[m] = paths[m] /\ confName'[m] = confName[m]
          /\ paths[m] \in Ids /\ paths[m] # i
      BY <2>3, <1>2, <1>3 DEF IInv, TypeOK, IdsOrNil
    <3>2. InForce(pathConfs, m)
      BY <3>1 DEF IInv, ConfsFit, Target, Reloading
    <3> QED
      BY <2>1, <3>1, <3>2, <1>4 DEF InForce
  <2> QED
    BY <2>2, <2>3
<1>14. StaticSourcesExist'
  BY <1>2, <1>3 DEF IInv, StaticSourcesExist
<1> QED
  BY <1>5, <1>6, <1>7, <1>8, <1>9, <1>10, <1>11, <1>12, <1>13, <1>14 DEF IInv

(* A client that is given no new path, or lets go of one.                  *)
LEMMA OnlyAskedKeeps ==
  ASSUME IInv, asked' \in [Clients -> IdsOrNil], UNCHANGED <<pmVars, pathVars, reloads>>
  PROVE  IInv'
BY DEF IInv, TypeOK, TodoListed, InPlace, ListedPathsServe, ServingPathsListed,
       ReadyFlagFollowsPath, Ending, Awaited, ConfsFit, StaticSourcesExist, Alive, Target,
       Reloading, InForce, pmVars, pathVars

-----------------------------------------------------------------------------
(***************************************************************************)
(* Every action keeps the invariant.                                       *)
(***************************************************************************)

(* A reload starts: every path is still to be looked at, so its target     *)
(* stays pathConfs.                                                        *)
LEMMA ReloadPathConfsKeeps ==
  ASSUME IInv, NEW new \in Configs, ReloadPathConfs(new)
  PROVE  IInv'
<1>1. /\ TypeOK' /\ TodoListed' /\ InPlace' /\ ListedPathsServe' /\ ServingPathsListed'
      /\ ReadyFlagFollowsPath' /\ Ending' /\ Awaited' /\ ConfsFit' /\ StaticSourcesExist'
  BY DEF IInv, TypeOK, TodoListed, Reloading, InPlace, Alive, ListedPathsServe,
       ServingPathsListed, ReadyFlagFollowsPath, Ending, Awaited, ConfsFit, Target,
       InForce, StaticSourcesExist, pathVars, ReloadPathConfs
<1> QED
  BY <1>1 DEF IInv

(* doReloadConf at one path. Either the path is cancelled, leaves the      *)
(* table and is waited for, or it keeps its place and its target becomes   *)
(* newPaths: what it runs, and each reload on its way to it, differ from   *)
(* that only in what can be changed in place.                              *)
LEMMA ReloadPathKeeps ==
  ASSUME IInv, NEW n \in Names, ReloadPath(n)
  PROVE  IInv'
<1>1. TypeOK'
  <2>1. CASE MustRecreate(n)
    <3>1. RemovePath(n) /\ ctxDone' = [ctxDone EXCEPT ![paths[n]] = TRUE]
          /\ waitFor' = paths[n] /\ pmState' = "waiting" /\ UNCHANGED reloads
      BY <2>1 DEF ReloadPath, RemoveAndClosePath
    <3>2. paths[n] \in Ids
      BY DEF IInv, TypeOK, TodoListed, IdsOrNil, ReloadPath
    <3> QED
      BY <3>1, <3>2, Removed DEF IInv, TypeOK, ReloadPath
  <2>2. CASE ~MustRecreate(n)
    <3>1. IsConfigured(newPaths, n) /\ newPaths \in Configs
      BY <2>2 DEF MustRecreate, IInv, TypeOK, ReloadPath
    <3>2. paths[n] \in Ids
      BY DEF IInv, TypeOK, TodoListed, IdsOrNil, ReloadPath
    <3>3. confName' \in [Names -> Keys \cup {Nil}] /\ reloads' \in SUBSET (Ids \X PathConfs)
      BY <2>2, <3>1, <3>2, FindConf DEF IInv, TypeOK, ReloadPath
    <3> QED
      BY <2>2, <3>3 DEF IInv, TypeOK, ReloadPath
  <2> QED
    BY <2>1, <2>2
<1>2. TodoListed'
  BY DEF IInv, TodoListed, Reloading, TypeOK, ReloadPath, RemoveAndClosePath, RemovePath
<1>3. InPlace'
  BY DEF IInv, InPlace, Alive, TypeOK, ReloadPath, RemoveAndClosePath
<1>4. ListedPathsServe'
  BY DEF IInv, ListedPathsServe, Alive, TypeOK, IdsOrNil, ReloadPath,
       RemoveAndClosePath, RemovePath
<1>5. ServingPathsListed'
  BY DEF IInv, ServingPathsListed, Alive, TypeOK, InPlace, ReloadPath,
       RemoveAndClosePath, RemovePath
<1>6. ReadyFlagFollowsPath'
  BY DEF IInv, ReadyFlagFollowsPath, TypeOK, ReloadPath, RemoveAndClosePath, RemovePath
<1>7. Ending'
  <2>1. paths[n] \in Ids
    BY DEF IInv, TypeOK, TodoListed, IdsOrNil, ReloadPath
  <2>2. waitFor = Nil
    BY DEF IInv, TypeOK, ReloadPath
  <2>3. CASE MustRecreate(n)
    <3>1. ctxDone' = [ctxDone EXCEPT ![paths[n]] = TRUE] /\ waitFor' = paths[n]
      BY <2>3 DEF ReloadPath, RemoveAndClosePath
    <3> QED
      BY <2>1, <2>2, <3>1, NilIsNoValue DEF IInv, TypeOK, Ending, Alive, ReloadPath
  <2>4. CASE ~MustRecreate(n)
    BY <2>4 DEF IInv, Ending, Alive, ReloadPath
  <2> QED
    BY <2>3, <2>4
<1>8. Awaited'
  BY DEF IInv, TypeOK, TodoListed, ListedPathsServe, Awaited, Alive, ReloadPath,
       RemoveAndClosePath, RemovePath
<1>9. ConfsFit'
  BY FindConf
    DEF IInv, TypeOK, ConfsFit, Target, Reloading, InForce, PathConfCanBeUpdated,
       ReloadPath, RemoveAndClosePath, RemovePath, MustRecreate
<1>10. StaticSourcesExist'
  BY DEF StaticSourcesExist, ReloadPath, RemoveAndClosePath
<1> QED
  BY <1>1, <1>2, <1>3, <1>4, <1>5, <1>6, <1>7, <1>8, <1>9, <1>10 DEF IInv

(* path.wait() returns when the path is gone, so it is no longer excused   *)
(* by waitFor.                                                             *)
LEMMA PathWaitReturnsKeeps ==
  ASSUME IInv, PathWaitReturns
  PROVE  IInv'
<1>1. /\ TypeOK' /\ TodoListed' /\ InPlace' /\ ListedPathsServe' /\ ServingPathsListed'
      /\ ReadyFlagFollowsPath' /\ Ending' /\ Awaited' /\ ConfsFit' /\ StaticSourcesExist'
  BY DEF IInv, TypeOK, TodoListed, Reloading, InPlace, Alive, ListedPathsServe,
       ServingPathsListed, ReadyFlagFollowsPath, Ending, Awaited, ConfsFit, Target,
       InForce, StaticSourcesExist, pathVars, PathWaitReturns
<1> QED
  BY <1>1 DEF IInv

(* newPaths comes into force when no path is left to look at: the target   *)
(* of every path stays what it was.                                        *)
LEMMA ReloadPathsDoneKeeps ==
  ASSUME IInv, ReloadPathsDone
  PROVE  IInv'
<1>1. /\ TypeOK' /\ TodoListed' /\ InPlace' /\ ListedPathsServe' /\ ServingPathsListed'
      /\ ReadyFlagFollowsPath' /\ Ending' /\ Awaited' /\ ConfsFit' /\ StaticSourcesExist'
  BY DEF IInv, TypeOK, TodoListed, Reloading, InPlace, Alive, ListedPathsServe,
       ServingPathsListed, ReadyFlagFollowsPath, Ending, Awaited, ConfsFit, Target,
       InForce, StaticSourcesExist, pathVars, ReloadPathsDone
<1> QED
  BY <1>1 DEF IInv

(* A path without a regular expression is created with the configuration   *)
(* of its own name.                                                        *)
LEMMA CreateStaticPathKeeps ==
  ASSUME IInv, NEW n \in Names, NEW i \in Ids, CreateStaticPath(n, i)
  PROVE  IInv'
<1>1. CreatePath(i, pathConfs[n], n) /\ paths[n] = Nil /\ n \in DOMAIN pathConfs
  BY DEF CreateStaticPath, Missing
<1>2. FindPathConf(pathConfs, n) = pathConfs[n] /\ IsConfigured(pathConfs, n)
  BY <1>1 DEF FindPathConf, IsConfigured
<1> QED
  BY <1>1, <1>2, CreateKeeps DEF CreateStaticPath, IInv, TypeOK

(* No configured name is without a path when the manager returns to its    *)
(* select.                                                                 *)
LEMMA CreateStaticPathsDoneKeeps ==
  ASSUME IInv, CreateStaticPathsDone
  PROVE  IInv'
<1>1. StaticSourcesExist'
  BY DEF StaticSourcesExist, CreateStaticPathsDone, Missing
<1>2. /\ TypeOK' /\ TodoListed' /\ InPlace' /\ ListedPathsServe' /\ ServingPathsListed'
      /\ ReadyFlagFollowsPath' /\ Ending' /\ Awaited' /\ ConfsFit'
  BY DEF IInv, TypeOK, TodoListed, Reloading, InPlace, Alive, ListedPathsServe,
       ServingPathsListed, ReadyFlagFollowsPath, Ending, Awaited, ConfsFit, Target,
       InForce, pathVars, CreateStaticPathsDone
<1> QED
  BY <1>1, <1>2 DEF IInv

(* setReady: the flag of the path is set, unless the path is not listed    *)
(* any more or ends.                                                       *)
LEMMA PathReadyKeeps ==
  ASSUME IInv, NEW i \in Ids, PathReady(i)
  PROVE  IInv'
<1>1. name[i] \in Names /\ Alive(i)
  BY DEF IInv, InPlace, Alive, PathReady
<1>2. /\ ready' \in [Names -> BOOLEAN]
      /\ notice' \in IF pmState' = "notifying" THEN Names \X BOOLEAN ELSE {Nil}
      /\ pmState' = pmState \/ (pmState = "idle" /\ pmState' = "notifying")
      /\ \A n \in Names : paths[n] # i => ready'[n] = ready[n]
      /\ ~CtxDone(i) /\ paths[name[i]] = i => ready'[name[i]] = TRUE
  BY <1>1, Notified DEF IInv, PathReady
<1>3. TypeOK'
  BY <1>2, PathConfFacts DEF IInv, TypeOK, PathSteps, AfterHandler, PathDone, PathReady
<1>4. TodoListed'
  BY <1>2 DEF IInv, TodoListed, Reloading, PathReady
<1>5. ReadyFlagFollowsPath'
  BY <1>2
    DEF IInv, ReadyFlagFollowsPath, TypeOK, InPlace, ListedPathsServe, CtxDone,
       PathReady
<1>6. Awaited'
  BY <1>2 DEF IInv, Awaited, Alive, PathReady
<1>7. ConfsFit'
  BY <1>2 DEF IInv, ConfsFit, Target, InForce, Reloading, PathReady
<1>8. StaticSourcesExist'
  BY <1>2 DEF IInv, StaticSourcesExist, PathReady
<1>9. /\ InPlace' /\ ListedPathsServe'
      /\ ServingPathsListed' /\ Ending'
  BY DEF IInv, InPlace, Alive, ListedPathsServe, ServingPathsListed, Ending, PathReady
<1> QED
  BY <1>3, <1>4, <1>5, <1>6, <1>7, <1>8, <1>9 DEF IInv

(* setNotReady when a source went away. Only a path of a regular           *)
(* expression goes on to end by itself.                                    *)
LEMMA PathNotReadyKeeps ==
  ASSUME IInv, NEW i \in Ids, PathNotReady(i)
  PROVE  IInv'
<1>1. name[i] \in Names /\ Alive(i)
  BY DEF IInv, InPlace, Alive, PathNotReady
<1>2. /\ ready' \in [Names -> BOOLEAN]
      /\ notice' \in IF pmState' = "notifying" THEN Names \X BOOLEAN ELSE {Nil}
      /\ pmState' = pmState \/ (pmState = "idle" /\ pmState' = "notifying")
      /\ \A n \in Names : paths[n] # i => ready'[n] = ready[n]
      /\ ~CtxDone(i) /\ paths[name[i]] = i => ready'[name[i]] = FALSE
  BY <1>1, Notified DEF IInv, PathNotReady
<1>3. TypeOK'
  BY <1>2, PathConfFacts DEF IInv, TypeOK, PathSteps, AfterHandler, PathDone, PathNotReady
<1>4. TodoListed'
  BY <1>2 DEF IInv, TodoListed, Reloading, PathNotReady
<1>5. InPlace'
  BY DEF IInv, InPlace, Alive, AfterHandler, PathNotReady
<1>6. ListedPathsServe'
  BY DEF IInv, ListedPathsServe, Alive, AfterHandler, PathNotReady
<1>7. ServingPathsListed'
  BY DEF IInv, ServingPathsListed, Alive, AfterHandler, PathNotReady
<1>8. ReadyFlagFollowsPath'
  <2> SUFFICES ASSUME NEW n \in Names, paths[n] # Nil, step'[paths[n]] = "running", ~pmCtxDone
               PROVE  ready'[n] = stream'[paths[n]]
    BY DEF PathNotReady, ReadyFlagFollowsPath
  <2>1. paths[n] \in Ids /\ name[paths[n]] = n /\ ~ctxDone[paths[n]]
    BY DEF IInv, TypeOK, IdsOrNil, ListedPathsServe
  <2>2. CASE paths[n] = i
    BY <1>2, <2>1, <2>2 DEF CtxDone, IInv, TypeOK, PathNotReady, PathDone
  <2>3. CASE paths[n] # i
    BY <1>2, <2>1, <2>3 DEF IInv, TypeOK, ReadyFlagFollowsPath, PathNotReady, PathDone
  <2> QED
    BY <2>2, <2>3
<1>9. Ending'
  BY DEF IInv, Ending, Alive, AfterHandler, PathNotReady
<1>10. Awaited'
  BY <1>2 DEF IInv, Awaited, Alive, AfterHandler, PathNotReady
<1>11. ConfsFit'
  BY <1>2 DEF IInv, ConfsFit, Target, InForce, Reloading, PathNotReady
<1>12. StaticSourcesExist'
  BY <1>2 DEF IInv, StaticSourcesExist, PathNotReady
<1> QED
  BY <1>3, <1>4, <1>5, <1>6, <1>7, <1>8, <1>9, <1>10, <1>11, <1>12 DEF IInv

(* setNotReady when a publisher is overridden: the stream stays.           *)
LEMMA PathOverriddenKeeps ==
  ASSUME IInv, NEW i \in Ids, PathOverridden(i)
  PROVE  IInv'
<1>1. name[i] \in Names /\ Alive(i)
  BY DEF IInv, InPlace, Alive, PathOverridden
<1>2. /\ ready' \in [Names -> BOOLEAN]
      /\ notice' \in IF pmState' = "notifying" THEN Names \X BOOLEAN ELSE {Nil}
      /\ pmState' = pmState \/ (pmState = "idle" /\ pmState' = "notifying")
      /\ \A n \in Names : paths[n] # i => ready'[n] = ready[n]
      /\ ~CtxDone(i) /\ paths[name[i]] = i => ready'[name[i]] = FALSE
  BY <1>1, Notified DEF IInv, PathOverridden
<1>3. TypeOK'
  BY <1>2, PathConfFacts DEF IInv, TypeOK, PathSteps, AfterHandler, PathDone, PathOverridden
<1>4. TodoListed'
  BY <1>2 DEF IInv, TodoListed, Reloading, PathOverridden
<1>5. ReadyFlagFollowsPath'
  BY <1>2 DEF IInv, ReadyFlagFollowsPath, PathOverridden
<1>6. Awaited'
  BY <1>2 DEF IInv, Awaited, Alive, PathOverridden
<1>7. ConfsFit'
  BY <1>2 DEF IInv, ConfsFit, Target, InForce, Reloading, PathOverridden
<1>8. StaticSourcesExist'
  BY <1>2 DEF IInv, StaticSourcesExist, PathOverridden
<1>9. /\ InPlace' /\ ListedPathsServe'
      /\ ServingPathsListed' /\ Ending'
  BY DEF IInv, InPlace, Alive, ListedPathsServe, ServingPathsListed, Ending,
       PathOverridden
<1> QED
  BY <1>3, <1>4, <1>5, <1>6, <1>7, <1>8, <1>9 DEF IInv

(* doClosePath and ctxCancel. A path that ends by itself is one of a       *)
(* regular expression, hence not one that StaticSourcesExist speaks of.    *)
LEMMA ClosePathKeeps ==
  ASSUME IInv, NEW i \in Ids, ClosePath(i)
  PROVE  IInv'
<1>1. TypeOK'
  <2>1. name[i] \in Names
    BY DEF IInv, InPlace, Alive, ClosePath
  <2>2. RemovePath(name[i]) \/ UNCHANGED <<paths, ready, confName>>
    BY DEF ClosePath, DoClosePath
  <2> QED
    BY <2>1, <2>2, Removed DEF IInv, TypeOK, PathSteps, ClosePath
<1>2. InPlace'
  BY DEF IInv, InPlace, Alive, TypeOK, ClosePath
<1>3. ListedPathsServe'
  BY DEF IInv, ListedPathsServe, Alive, TypeOK, ClosePath, DoClosePath, RemovePath,
       CtxDone
<1>4. ServingPathsListed'
  BY DEF IInv, ServingPathsListed, Alive, TypeOK, InPlace, ClosePath, DoClosePath,
       RemovePath
<1>5. ReadyFlagFollowsPath'
  BY DEF IInv, ReadyFlagFollowsPath, TypeOK, ClosePath, DoClosePath, RemovePath
<1>6. Ending'
  BY DEF IInv, Ending, Alive, TypeOK, ClosePath
<1>7. ConfsFit'
  BY DEF IInv, ConfsFit, Target, InForce, Reloading, TypeOK, ClosePath, DoClosePath,
       RemovePath
<1>8. StaticSourcesExist'
  <2> SUFFICES ASSUME pmState \in {"idle", "notifying"}, ~pmCtxDone,
                      NEW n \in Names \cap DOMAIN pathConfs, pathConfs[n].static
               PROVE  paths'[n] # Nil
    BY DEF StaticSourcesExist, ClosePath
  <2>1. name[i] \in Names /\ paths[n] # Nil
    BY DEF IInv, InPlace, Alive, ClosePath, StaticSourcesExist
  <2>2. CASE paths[n] # i
    BY <2>1, <2>2 DEF ClosePath, DoClosePath, RemovePath, IInv, TypeOK
  <2>3. CASE paths[n] = i
    <3>1. conf[i].regexp
      BY <2>1, <2>3 DEF ClosePath, IInv, Ending, ListedPathsServe, Alive
    <3>2. /\ pathConfs \in Configs /\ FindPathConf(pathConfs, n) = pathConfs[n]
          /\ PathConfCanBeUpdated(conf[i], pathConfs[n])
      BY <2>1, <2>3 DEF IInv, TypeOK, ConfsFit, Target, Reloading, InForce, FindPathConf
    <3> QED
      BY <2>1, <3>1, <3>2, PathConfFacts DEF PathConfCanBeUpdated, IInv, InPlace, Alive, ClosePath
  <2> QED
    BY <2>2, <2>3
<1>9. TodoListed' /\ Awaited'
  BY DEF IInv, TodoListed, Reloading, Awaited, Alive, ClosePath
<1> QED
  BY <1>1, <1>2, <1>3, <1>4, <1>5, <1>6, <1>7, <1>8, <1>9 DEF IInv

(* run() after its context is cancelled.                                   *)
LEMMA PathCleanupKeeps ==
  ASSUME IInv, NEW i \in Ids, PathCleanup(i)
  PROVE  IInv'
<1>1. TypeOK'
  BY DEF IInv, TypeOK, PathSteps, PathCleanup, PathDone, pmVars
<1>2. InPlace'
  BY DEF IInv, InPlace, Alive, TypeOK, PathCleanup, PathDone
<1>3. ListedPathsServe'
  BY DEF IInv, ListedPathsServe, Alive, TypeOK, IdsOrNil, InPlace, pmVars, PathCleanup,
       PathDone
<1>4. ServingPathsListed'
  BY DEF IInv, ServingPathsListed, Alive, TypeOK, pmVars, PathCleanup, PathDone
<1>5. ReadyFlagFollowsPath'
  BY DEF IInv, ReadyFlagFollowsPath, TypeOK, IdsOrNil, pmVars, PathCleanup, PathDone
<1>6. Ending'
  BY DEF IInv, Ending, Alive, TypeOK, pmVars, PathCleanup, PathDone
<1>7. Awaited'
  BY DEF IInv, Awaited, Alive, TypeOK, pmVars, PathCleanup, PathDone
<1>8. ConfsFit'
  BY DEF IInv, ConfsFit, Target, InForce, Reloading, TypeOK, IdsOrNil, InPlace,
       ListedPathsServe, pmVars, PathCleanup, PathDone
<1>9. TodoListed' /\ StaticSourcesExist'
  BY DEF IInv, TodoListed, Reloading, StaticSourcesExist, pmVars, PathCleanup
<1> QED
  BY <1>1, <1>2, <1>3, <1>4, <1>5, <1>6, <1>7, <1>8, <1>9 DEF IInv

(* setNotReady at the end of run(). The path is not listed any more, or    *)
(* the manager is closing.                                                 *)
LEMMA PathFinalNotReadyKeeps ==
  ASSUME IInv, NEW i \in Ids, PathFinalNotReady(i)
  PROVE  IInv'
<1>1. name[i] \in Names /\ Alive(i)
  BY DEF IInv, InPlace, Alive, PathFinalNotReady
<1>2. /\ ready' \in [Names -> BOOLEAN]
      /\ notice' \in IF pmState' = "notifying" THEN Names \X BOOLEAN ELSE {Nil}
      /\ pmState' = pmState \/ (pmState = "idle" /\ pmState' = "notifying")
      /\ \A n \in Names : paths[n] # i => ready'[n] = ready[n]
      /\ ~CtxDone(i) /\ paths[name[i]] = i => ready'[name[i]] = FALSE
  BY <1>1, Notified DEF IInv, PathFinalNotReady
<1>3. TypeOK'
  BY <1>2, PathConfFacts DEF IInv, TypeOK, PathSteps, AfterHandler, PathDone, PathFinalNotReady
<1>4. TodoListed'
  BY <1>2 DEF IInv, TodoListed, Reloading, PathFinalNotReady
<1>5. InPlace'
  BY DEF IInv, InPlace, Alive, TypeOK, PathDone, PathFinalNotReady
<1>6. ListedPathsServe'
  BY DEF IInv, ListedPathsServe, Alive, InPlace, PathDone, PathFinalNotReady
<1>7. ServingPathsListed'
  BY DEF IInv, ServingPathsListed, Alive, TypeOK, PathDone, PathFinalNotReady
<1>8. ReadyFlagFollowsPath'
  <2> SUFFICES ASSUME NEW n \in Names, paths[n] # Nil, step'[paths[n]] = "running", ~pmCtxDone
               PROVE  ready'[n] = stream'[paths[n]]
    BY DEF PathFinalNotReady, ReadyFlagFollowsPath
  <2>1. paths[n] \in Ids /\ name[paths[n]] = n /\ ~ctxDone[paths[n]]
    BY DEF IInv, TypeOK, IdsOrNil, ListedPathsServe
  <2>2. CASE paths[n] = i
    BY <1>2, <2>1, <2>2 DEF CtxDone, IInv, TypeOK, PathFinalNotReady, PathDone
  <2>3. CASE paths[n] # i
    BY <1>2, <2>1, <2>3 DEF IInv, TypeOK, ReadyFlagFollowsPath, PathFinalNotReady, PathDone
  <2> QED
    BY <2>2, <2>3
<1>9. Ending'
  BY DEF IInv, Ending, Alive, TypeOK, PathDone, PathFinalNotReady
<1>10. Awaited'
  BY <1>2 DEF IInv, Awaited, Alive, TypeOK, PathDone, PathFinalNotReady
<1>11. ConfsFit'
  BY <1>2
    DEF IInv, ConfsFit, Target, InForce, Reloading, InPlace, ListedPathsServe, PathDone,
       PathFinalNotReady
<1>12. StaticSourcesExist'
  BY <1>2 DEF IInv, StaticSourcesExist, PathFinalNotReady
<1> QED
  BY <1>3, <1>4, <1>5, <1>6, <1>7, <1>8, <1>9, <1>10, <1>11, <1>12 DEF IInv

(* A static source announces its stream: the path is about to report it.   *)
LEMMA StaticSourceUpKeeps ==
  ASSUME IInv, NEW i \in Ids, StaticSourceUp(i)
  PROVE  IInv'
<1>1. TypeOK'
  BY DEF IInv, TypeOK, PathSteps, pmVars, StaticSourceUp
<1>2. InPlace'
  BY DEF IInv, InPlace, Alive, TypeOK, StaticSourceUp
<1>3. ReadyFlagFollowsPath'
  BY DEF IInv, ReadyFlagFollowsPath, TypeOK, IdsOrNil, pmVars, StaticSourceUp
<1>4. /\ TodoListed' /\ ListedPathsServe' /\ ServingPathsListed' /\ Ending'
      /\ Awaited' /\ ConfsFit' /\ StaticSourcesExist'
  BY DEF IInv, TodoListed, Reloading, ListedPathsServe, Alive, ServingPathsListed,
       Ending, Awaited, ConfsFit, Target, InForce, StaticSourcesExist, pmVars,
       StaticSourceUp
<1> QED
  BY <1>1, <1>2, <1>3, <1>4 DEF IInv

(* The source or the last client goes away.                                *)
LEMMA LeaveKeeps ==
  ASSUME IInv, NEW i \in Ids, Leave(i)
  PROVE  IInv'
<1>1. TypeOK'
  BY DEF IInv, TypeOK, PathSteps, pmVars, Leave, AfterHandler
<1>2. InPlace'
  BY DEF IInv, InPlace, Alive, Leave, AfterHandler
<1>3. ListedPathsServe'
  BY DEF IInv, ListedPathsServe, Alive, pmVars, Leave, AfterHandler
<1>4. ServingPathsListed'
  BY DEF IInv, ServingPathsListed, Alive, pmVars, Leave, AfterHandler
<1>5. ReadyFlagFollowsPath'
  BY DEF IInv, ReadyFlagFollowsPath, pmVars, Leave, AfterHandler
<1>6. Ending'
  BY DEF IInv, Ending, Alive, pmVars, Leave, AfterHandler
<1>7. Awaited'
  BY DEF IInv, Awaited, Alive, pmVars, Leave, AfterHandler
<1>8. TodoListed' /\ ConfsFit' /\ StaticSourcesExist'
  BY DEF IInv, TodoListed, Reloading, ConfsFit, Target, InForce, StaticSourcesExist,
       pmVars, Leave
<1> QED
  BY <1>1, <1>2, <1>3, <1>4, <1>5, <1>6, <1>7, <1>8 DEF IInv

(* The path takes a configuration that was on its way: it can be reached   *)
(* in place from what the path has, and it is within what the manager asks *)
(* for.                                                                    *)
LEMMA PathReloadConfKeeps ==
  ASSUME IInv, NEW i \in Ids, NEW new \in PathConfs, PathReloadConf(i, new)
  PROVE  IInv'
<1>1. /\ TypeOK' /\ TodoListed' /\ InPlace' /\ ListedPathsServe' /\ ServingPathsListed'
      /\ ReadyFlagFollowsPath' /\ Ending' /\ Awaited' /\ ConfsFit' /\ StaticSourcesExist'
  BY DEF IInv, TypeOK, TodoListed, Reloading, InPlace, Alive, ListedPathsServe,
       ServingPathsListed, ReadyFlagFollowsPath, Ending, Awaited, ConfsFit, Target,
       InForce, StaticSourcesExist, pmVars, PathReloadConf
<1> QED
  BY <1>1 DEF IInv

(* A reload that is given up asks for nothing any more.                    *)
LEMMA PathReloadConfDroppedKeeps ==
  ASSUME IInv, NEW i \in Ids, NEW new \in PathConfs, PathReloadConfDropped(i, new)
  PROVE  IInv'
<1>1. /\ TypeOK' /\ TodoListed' /\ InPlace' /\ ListedPathsServe' /\ ServingPathsListed'
      /\ ReadyFlagFollowsPath' /\ Ending' /\ Awaited' /\ ConfsFit' /\ StaticSourcesExist'
  BY DEF IInv, TypeOK, TodoListed, Reloading, InPlace, Alive, ListedPathsServe,
       ServingPathsListed, ReadyFlagFollowsPath, Ending, Awaited, ConfsFit, Target,
       InForce, StaticSourcesExist, pmVars, pathVars, PathReloadConfDropped
<1> QED
  BY <1>1 DEF IInv

(* The context of the path was cancelled by the manager, which waits for   *)
(* it, or by Close.                                                        *)
LEMMA PathTerminatedKeeps ==
  ASSUME IInv, NEW i \in Ids, PathTerminated(i)
  PROVE  IInv'
<1>1. TypeOK'
  BY DEF IInv, TypeOK, PathSteps, pmVars, PathTerminated
<1>2. Ending'
  BY DEF IInv, Ending, Alive, pmVars, PathTerminated, CtxDone
<1>3. /\ TodoListed' /\ InPlace' /\ ListedPathsServe' /\ ServingPathsListed'
      /\ ReadyFlagFollowsPath' /\ Awaited' /\ ConfsFit' /\ StaticSourcesExist'
  BY DEF IInv, TodoListed, Reloading, InPlace, Alive, ListedPathsServe,
       ServingPathsListed, ReadyFlagFollowsPath, Awaited, ConfsFit, Target, InForce,
       StaticSourcesExist, pmVars, PathTerminated
<1> QED
  BY <1>1, <1>2, <1>3 DEF IInv

(* A client is handed a path that is listed or one that is created.        *)
LEMMA RequestKeeps ==
  ASSUME IInv, NEW c \in Clients, NEW n \in Names, Request(c, n)
  PROVE  IInv'
<1>1. CASE paths[n] = Nil
  <2>1. PICK i \in Ids : /\ CreatePath(i, FindPathConf(pathConfs, n), n)
                         /\ asked' = [asked EXCEPT ![c] = i]
    BY <1>1 DEF Request
  <2>2. asked' \in [Clients -> IdsOrNil]
    BY <2>1 DEF IInv, TypeOK, IdsOrNil
  <2> QED
    BY <1>1, <2>1, <2>2, CreateKeeps DEF Request
<1>2. CASE paths[n] # Nil
  <2>1. /\ asked' \in [Clients -> IdsOrNil]
        /\ UNCHANGED <<pmVars, pathVars, reloads>>
    BY <1>2 DEF Request, IInv, TypeOK, pmVars
  <2> QED
    BY <2>1, OnlyAskedKeeps
<1> QED
  BY <1>1, <1>2

(* A client calls the path it was given.                                   *)
LEMMA ArriveKeeps ==
  ASSUME IInv, NEW c \in Clients, Arrive(c)
  PROVE  IInv'
<1>1. TypeOK'
  <2>1. asked[c] \in Ids
    BY DEF IInv, TypeOK, IdsOrNil, Arrive
  <2> DEFINE i == asked[c]
  <2>2. /\ asked' \in [Clients -> IdsOrNil]
    BY DEF IInv, TypeOK, IdsOrNil, Arrive
  <2>3. used' \in [Ids -> BOOLEAN] /\ stream' \in [Ids -> BOOLEAN] /\ step' \in [Ids -> PathSteps]
    BY <2>1 DEF IInv, TypeOK, PathSteps, Arrive, AfterHandler
  <2> QED
    BY <2>2, <2>3 DEF IInv, TypeOK, Arrive, pmVars
<1>2. InPlace'
  BY DEF IInv, InPlace, Alive, TypeOK, Arrive, AfterHandler
<1>3. ListedPathsServe'
  BY DEF IInv, ListedPathsServe, Alive, TypeOK, IdsOrNil, pmVars, Arrive, AfterHandler
<1>4. ServingPathsListed'
  BY DEF IInv, ServingPathsListed, Alive, TypeOK, pmVars, Arrive
<1>5. ReadyFlagFollowsPath'
  BY DEF IInv, ReadyFlagFollowsPath, TypeOK, IdsOrNil, pmVars, Arrive
<1>6. Ending'
  BY DEF IInv, Ending, Alive, TypeOK, pmVars, Arrive, AfterHandler
<1>7. Awaited'
  BY DEF IInv, Awaited, Alive, TypeOK, pmVars, Arrive
<1>8. TodoListed' /\ ConfsFit' /\ StaticSourcesExist'
  BY DEF IInv, TodoListed, Reloading, ConfsFit, Target, InForce, StaticSourcesExist,
       pmVars, Arrive
<1> QED
  BY <1>1, <1>2, <1>3, <1>4, <1>5, <1>6, <1>7, <1>8 DEF IInv

(* ... which may be gone by then.                                          *)
LEMMA ArriveTerminatedKeeps ==
  ASSUME IInv, NEW c \in Clients, ArriveTerminated(c)
  PROVE  IInv'
<1>1. TypeOK'
  BY DEF IInv, TypeOK, IdsOrNil, pmVars, pathVars, ArriveTerminated
<1>2. /\ TodoListed' /\ InPlace' /\ ListedPathsServe' /\ ServingPathsListed' /\ ReadyFlagFollowsPath'
      /\ Ending' /\ Awaited' /\ ConfsFit' /\ StaticSourcesExist'
  BY DEF IInv, TodoListed, Reloading, InPlace, Alive, ListedPathsServe,
       ServingPathsListed, ReadyFlagFollowsPath, Ending, Awaited, ConfsFit, Target,
       InForce, StaticSourcesExist, pmVars, pathVars, ArriveTerminated
<1> QED
  BY <1>1, <1>2 DEF IInv

(* The HLS server comes or goes.                                           *)
LEMMA SetHLSServerKeeps ==
  ASSUME IInv, NEW attached \in BOOLEAN, SetHLSServer(attached)
  PROVE  IInv'
<1>1. /\ TypeOK' /\ TodoListed' /\ InPlace' /\ ListedPathsServe' /\ ServingPathsListed'
      /\ ReadyFlagFollowsPath' /\ Ending' /\ Awaited' /\ ConfsFit' /\ StaticSourcesExist'
  BY DEF IInv, TypeOK, TodoListed, Reloading, InPlace, Alive, ListedPathsServe,
       ServingPathsListed, ReadyFlagFollowsPath, Ending, Awaited, ConfsFit, Target,
       InForce, StaticSourcesExist, pathVars, SetHLSServer
<1> QED
  BY <1>1 DEF IInv

(* The HLS server took the notice.                                         *)
LEMMA NotifyReturnsKeeps ==
  ASSUME IInv, NotifyReturns
  PROVE  IInv'
<1>1. /\ TypeOK' /\ TodoListed' /\ InPlace' /\ ListedPathsServe' /\ ServingPathsListed'
      /\ ReadyFlagFollowsPath' /\ Ending' /\ Awaited' /\ ConfsFit' /\ StaticSourcesExist'
  BY DEF IInv, TypeOK, TodoListed, Reloading, InPlace, Alive, ListedPathsServe,
       ServingPathsListed, ReadyFlagFollowsPath, Ending, Awaited, ConfsFit, Target,
       InForce, StaticSourcesExist, pathVars, NotifyReturns
<1> QED
  BY <1>1 DEF IInv

(* The context of the manager is cancelled: most of the invariant is about *)
(* a manager that is not closing.                                          *)
LEMMA CloseKeeps ==
  ASSUME IInv, Close
  PROVE  IInv'
<1>1. /\ TypeOK' /\ TodoListed' /\ InPlace' /\ ListedPathsServe' /\ ServingPathsListed'
      /\ ReadyFlagFollowsPath' /\ Ending' /\ Awaited' /\ ConfsFit' /\ StaticSourcesExist'
  BY DEF IInv, TypeOK, TodoListed, Reloading, InPlace, Alive, ListedPathsServe,
       ServingPathsListed, ReadyFlagFollowsPath, Ending, Awaited, ConfsFit, Target,
       InForce, StaticSourcesExist, pathVars, Close
<1> QED
  BY <1>1 DEF IInv

(* The manager's loop ends.                                                *)
LEMMA StopKeeps ==
  ASSUME IInv, Stop
  PROVE  IInv'
<1>1. /\ TypeOK' /\ TodoListed' /\ InPlace' /\ ListedPathsServe' /\ ServingPathsListed'
      /\ ReadyFlagFollowsPath' /\ Ending' /\ Awaited' /\ ConfsFit' /\ StaticSourcesExist'
  BY DEF IInv, TypeOK, TodoListed, Reloading, InPlace, Alive, ListedPathsServe,
       ServingPathsListed, ReadyFlagFollowsPath, Ending, Awaited, ConfsFit, Target,
       InForce, StaticSourcesExist, pathVars, Stop
<1> QED
  BY <1>1 DEF IInv

(* Nothing happens.                                                        *)
LEMMA StutterKeeps ==
  ASSUME IInv, UNCHANGED vars
  PROVE  IInv'
<1>1. /\ TypeOK' /\ TodoListed' /\ InPlace' /\ ListedPathsServe' /\ ServingPathsListed'
      /\ ReadyFlagFollowsPath' /\ Ending' /\ Awaited' /\ ConfsFit' /\ StaticSourcesExist'
  BY DEF IInv, TypeOK, TodoListed, Reloading, InPlace, Alive, ListedPathsServe,
       ServingPathsListed, ReadyFlagFollowsPath, Ending, Awaited, ConfsFit, Target,
       InForce, StaticSourcesExist, pmVars, pathVars, vars
<1> QED
  BY <1>1 DEF IInv

-----------------------------------------------------------------------------
(***************************************************************************)
(* The invariant holds in every behaviour, and the properties follow.      *)
(***************************************************************************)

(* initialize() starts with no path.                                       *)
LEMMA InitInv == Init => IInv
<1> SUFFICES ASSUME Init PROVE IInv
  OBVIOUS
<1>1. TypeOK
  BY DEF Init, TypeOK, IdsOrNil, PathSteps
<1>2. TodoListed /\ Awaited /\ ConfsFit /\ ListedPathsServe /\ ReadyFlagFollowsPath
  BY DEF Init, TodoListed, Awaited, ConfsFit, ListedPathsServe, ReadyFlagFollowsPath
<1>3. InPlace /\ Ending /\ ServingPathsListed
  BY DEF Init, InPlace, Ending, ServingPathsListed, Alive
<1>4. StaticSourcesExist
  BY DEF Init, StaticSourcesExist
<1> QED
  BY <1>1, <1>2, <1>3, <1>4 DEF IInv

(* No step of the manager, a path, a client or the HLS server breaks it.   *)
LEMMA NextKeeps == IInv /\ [Next]_vars => IInv'
<1> SUFFICES ASSUME IInv, [Next]_vars PROVE IInv'
  OBVIOUS
<1>1. CASE ManagerNext
  BY <1>1, ReloadPathConfsKeeps, ReloadPathKeeps, PathWaitReturnsKeeps, ReloadPathsDoneKeeps,
     CreateStaticPathKeeps, CreateStaticPathsDoneKeeps, StaticSourceUpKeeps, LeaveKeeps,
     PathTerminatedKeeps, PathReloadConfKeeps, PathReloadConfDroppedKeeps, CloseKeeps, StopKeeps
     DEF ManagerNext
<1>2. ASSUME NEW i \in Ids, PathCall(i)
      PROVE  IInv'
  BY <1>2, PathReadyKeeps, PathNotReadyKeeps, PathOverriddenKeeps, ClosePathKeeps,
     PathCleanupKeeps, PathFinalNotReadyKeeps DEF PathCall
<1>3. ASSUME NEW c \in Clients, ClientNext(c)
      PROVE  IInv'
  BY <1>3, RequestKeeps, ArriveKeeps, ArriveTerminatedKeeps DEF ClientNext
<1>4. ASSUME NEW attached \in BOOLEAN, SetHLSServer(attached)
      PROVE  IInv'
  BY <1>4, SetHLSServerKeeps
<1>5. CASE NotifyReturns
  BY <1>5, NotifyReturnsKeeps
<1>6. CASE UNCHANGED vars
  BY <1>6, StutterKeeps
<1> QED
  BY <1>1, <1>2, <1>3, <1>4, <1>5, <1>6 DEF Next

(* The invariant in all behaviours of the manager.                         *)
LEMMA Invariance == Spec => []IInv
BY InitInv, NextKeeps, PTL DEF Spec

(* The tables of path_manager.go hold what they are meant to hold: the     *)
(* manager waits for a path exactly when it is in path.wait(), and so on.  *)
THEOREM TypeCorrect == Spec => []TypeOK
<1>1. IInv => TypeOK
  BY DEF IInv
<1> QED
  BY <1>1, Invariance, PTL

(* The table of the manager and the paths agree, whatever reports, reloads *)
(* and requests are under way: what is listed serves, what serves is       *)
(* listed, and the flags of readiness are those of the paths.              *)
THEOREM TableAgrees == Spec => []TableFollowsPaths
<1>1. IInv => TableFollowsPaths
  BY DEF IInv, TableFollowsPaths
<1> QED
  BY <1>1, Invariance, PTL

(* doReloadConf: after any number of reloads, each listed path runs what   *)
(* the configuration says in all that cannot be changed in place, and each *)
(* configured static source has its path.                                  *)
THEOREM ConfigurationApplied == Spec => []ConfigurationInForce
<1>1. IInv => FixedConfInForce
  BY DEF IInv, FixedConfInForce, ConfsFit, Target, Reloading, InForce
<1>2. IInv => ConfigurationInForce
  BY <1>1 DEF IInv, ConfigurationInForce
<1> QED
  BY <1>2, Invariance, PTL

(* removeAndClosePath waits for the path it removes: two paths of one name *)
(* that are alive at a time are never both fed by a static source.  A path *)
(* with a static source that ends is the one that is waited for, and while *)
(* it is waited for its name stays free.                                   *)
THEOREM SourcesNeverConflict == Spec => []NoConflictingSources
<1>1. ASSUME IInv
      PROVE  NoConflictingSources
  <2> SUFFICES ASSUME ~pmCtxDone, NEW i \in Ids, NEW j \in Ids, Alive(i), Alive(j), i # j,
                      name[i] = name[j], conf[i].static, conf[j].static
               PROVE  FALSE
    BY DEF NoConflictingSources
  <2>1. name[i] \in Names /\ ~conf[i].regexp /\ ~conf[j].regexp
    BY <1>1, PathConfFacts DEF IInv, InPlace
  <2>2. /\ ctxDone[i] => waitFor = i
        /\ ctxDone[j] => waitFor = j
    BY <1>1, <2>1 DEF IInv, Ending
  <2>3. /\ ~ctxDone[i] => paths[name[i]] = i
        /\ ~ctxDone[j] => paths[name[i]] = j
    BY <1>1 DEF IInv, ServingPathsListed
  <2>4. ASSUME NEW k \in {i, j}, waitFor = k
        PROVE  paths[name[i]] = Nil
    <3>1. pmState = "waiting"
      BY <1>1, <2>4, NilIsNoValue DEF IInv, TypeOK
    <3> QED
      BY <1>1, <2>4, <3>1 DEF IInv, Awaited
  <2> QED
    BY <2>2, <2>3, <2>4, NilIsNoValue
<1>2. IInv => NoConflictingSources
  BY <1>1
<1> QED
  BY <1>2, Invariance, PTL

-----------------------------------------------------------------------------
(***************************************************************************)
(* The HLS server next to the manager.                                     *)
(***************************************************************************)

(* The path listed under a name has that name while it lives, even when    *)
(* the manager is closing.                                                 *)
ListedNamed == \A n \in Names : paths[n] # Nil /\ Alive(paths[n]) => name[paths[n]] = n

(* What a muxer holds is the path that it was given for its name.          *)
MuxersHold ==
  \A m \in Muxers :
    /\ (asked[m] = Nil) = (muxerStep[m] \in {"none", "asking", "closeCall"})
    /\ muxerStep[m] \in {"adding", "reading"} /\ Alive(asked[m]) => name[asked[m]] = muxerName[m]

(* The inductive invariant of the composition.                             *)
HInv ==
  /\ IInv
  /\ HLSTypeOK
  /\ ListedNamed
  /\ MuxersHold
  /\ LiveMuxersListed
  /\ MuxersReadLiveStreams

(* What a step that ends no stream leaves of the paths: those that live    *)
(* live on, and no client holds a new one.                                 *)
PathsGoOn ==
  /\ \A i \in Ids : Alive(i) => Alive(i)' /\ name'[i] = name[i] /\ (stream[i] => stream'[i])
  /\ \A i \in Ids, c \in Clients : asked[c] = i /\ Alive(i)' => Alive(i)

(* Creating a path touches no other.                                       *)
LEMMA CreateGoesOn ==
  ASSUME IInv, ListedNamed, NEW i \in Ids, NEW n \in Names, NEW p \in PathConfs,
         CreatePath(i, p, n)
  PROVE  PathsGoOn /\ ListedNamed'
<1>1. /\ ~Alive(i)
      /\ \A m \in Names : paths[m] # i
      /\ \A c \in Clients : asked[c] # i
      /\ paths'[n] = i
      /\ \A m \in Names : m # n => paths'[m] = paths[m]
      /\ name'[i] = n
      /\ \A j \in Ids : j # i =>
           name'[j] = name[j] /\ stream'[j] = stream[j] /\ step'[j] = step[j]
  BY Created DEF IInv
<1>2. PathsGoOn
  BY <1>1 DEF PathsGoOn, Alive
<1>3. ListedNamed'
  BY <1>1 DEF ListedNamed, Alive, IInv, TypeOK, IdsOrNil
<1> QED
  BY <1>2, <1>3

(* The manager cancels contexts and clears entries, it ends no stream.     *)
LEMMA ManagerGoesOn ==
  ASSUME IInv, ListedNamed, ManagerNext
  PROVE  PathsGoOn /\ ListedNamed' /\ UNCHANGED asked
<1>1. ASSUME NEW n \in Names, ReloadPath(n)
      PROVE  PathsGoOn /\ ListedNamed' /\ UNCHANGED asked
  <2>1. PathsGoOn /\ UNCHANGED asked
    BY <1>1 DEF ReloadPath, PathsGoOn, Alive
  <2>2. ListedNamed'
    BY <1>1 DEF ReloadPath, RemoveAndClosePath, RemovePath, ListedNamed, Alive, IInv, TypeOK
  <2> QED
    BY <2>1, <2>2
<1>2. ASSUME NEW n \in Names, NEW i \in Ids, CreateStaticPath(n, i)
      PROVE  PathsGoOn /\ ListedNamed' /\ UNCHANGED asked
  <2>1. CreatePath(i, pathConfs[n], n) /\ pathConfs[n] \in PathConfs /\ UNCHANGED asked
    BY <1>2 DEF CreateStaticPath, Missing, IInv, TypeOK, PathConfs
  <2> QED
    BY <2>1, CreateGoesOn
<1>3. ASSUME NEW i \in Ids, StaticSourceUp(i) \/ Leave(i) \/ PathTerminated(i)
      PROVE  PathsGoOn /\ ListedNamed' /\ UNCHANGED asked
  <2>1. /\ step[i] = "running" /\ step'[i] \in {"readyCall", "notReadyCall", "closeCall", "running"}
        /\ \A j \in Ids : j # i => step'[j] = step[j] /\ stream'[j] = stream[j]
        /\ stream[i] => stream'[i]
        /\ UNCHANGED <<asked, name, paths>>
    BY <1>3 DEF StaticSourceUp, Leave, AfterHandler, PathTerminated, IInv, TypeOK, pmVars
  <2> QED
    BY <2>1 DEF PathsGoOn, ListedNamed, Alive, IInv, TypeOK, IdsOrNil
<1>4. ASSUME UNCHANGED <<asked, name, paths, step, stream>>
      PROVE  PathsGoOn /\ ListedNamed' /\ UNCHANGED asked
  BY <1>4 DEF PathsGoOn, ListedNamed, Alive
<1>5. ASSUME \/ \E new \in Configs : ReloadPathConfs(new)
             \/ PathWaitReturns \/ ReloadPathsDone \/ CreateStaticPathsDone
             \/ \E i \in Ids, new \in PathConfs : PathReloadConf(i, new) \/ PathReloadConfDropped(i, new)
             \/ Close \/ Stop
      PROVE  UNCHANGED <<asked, name, paths, step, stream>>
  BY <1>5 DEF ReloadPathConfs, PathWaitReturns, ReloadPathsDone, CreateStaticPathsDone,
     PathReloadConf, PathReloadConfDropped, Close, Stop, pmVars, pathVars
<1> QED
  BY <1>1, <1>2, <1>3, <1>4, <1>5 DEF ManagerNext

(* A request is answered with a path of the name that was asked for.       *)
LEMMA RequestGoesOn ==
  ASSUME IInv, ListedNamed, NEW c \in Clients, NEW n \in Names, Request(c, n)
  PROVE  /\ PathsGoOn /\ ListedNamed'
         /\ asked[c] = Nil /\ asked'[c] \in Ids
         /\ Alive(asked[c])' => name'[asked'[c]] = n
         /\ \A d \in Clients : d # c => asked'[d] = asked[d]
<1>1. CASE paths[n] = Nil
  <2>1. PICK i \in Ids : /\ CreatePath(i, FindPathConf(pathConfs, n), n)
                         /\ asked' = [asked EXCEPT ![c] = i]
    BY <1>1 DEF Request
  <2>2. FindPathConf(pathConfs, n) \in PathConfs
    BY FindConf DEF IInv, TypeOK, Request
  <2>3. name'[i] = n
    BY <2>1, <2>2, Created DEF IInv
  <2> QED
    BY <2>1, <2>2, <2>3, CreateGoesOn DEF IInv, TypeOK, Request
<1>2. CASE paths[n] # Nil
  <2>1. /\ asked' = [asked EXCEPT ![c] = paths[n]] /\ paths[n] \in Ids /\ asked[c] = Nil
        /\ UNCHANGED <<paths, name, step, stream>>
    BY <1>2 DEF Request, pathVars, IInv, TypeOK, IdsOrNil
  <2>2. PathsGoOn /\ ListedNamed'
    BY <2>1 DEF PathsGoOn, ListedNamed, Alive
  <2>3. Alive(paths[n])' => name'[paths[n]] = n
    BY <1>2, <2>1 DEF ListedNamed, Alive
  <2>4. asked'[c] = paths[n] /\ \A d \in Clients : d # c => asked'[d] = asked[d]
    BY <2>1 DEF IInv, TypeOK
  <2> QED
    BY <2>1, <2>2, <2>3, <2>4
<1> QED
  BY <1>1, <1>2

(* A client ends no stream either.                                         *)
LEMMA ClientGoesOn ==
  ASSUME IInv, ListedNamed, NEW c \in Clients, ClientNext(c)
  PROVE  /\ PathsGoOn /\ ListedNamed'
         /\ \A d \in Clients : d # c => asked'[d] = asked[d]
<1>1. CASE \E n \in Names : Request(c, n)
  BY <1>1, RequestGoesOn
<1>2. CASE Arrive(c)
  <2> DEFINE i == asked[c]
  <2>1. /\ i \in Ids /\ step[i] = "running"
        /\ step'[i] \in {"running", "closeCall", "readyCall", "overrideCall"}
        /\ \A j \in Ids : j # i => step'[j] = step[j] /\ stream'[j] = stream[j]
        /\ stream[i] => stream'[i]
        /\ asked' = [asked EXCEPT ![c] = Nil]
        /\ UNCHANGED <<name, paths>>
    BY <1>2 DEF Arrive, AfterHandler, IInv, TypeOK, IdsOrNil, pmVars
  <2> QED
    BY <2>1 DEF PathsGoOn, ListedNamed, Alive, IInv, TypeOK, IdsOrNil
<1>3. CASE ArriveTerminated(c)
  BY <1>3 DEF ArriveTerminated, PathsGoOn, ListedNamed, Alive, pmVars, pathVars, IInv, TypeOK
<1> QED
  BY <1>1, <1>2, <1>3 DEF ClientNext

(* A call of a path changes that path only; its stream goes away only in   *)
(* the steps that close the readers first.                                 *)
LEMMA PathCallFacts ==
  ASSUME IInv, ListedNamed, NEW i \in Ids, PathCall(i)
  PROVE  /\ ListedNamed' /\ UNCHANGED asked
         /\ \A j \in Ids : j # i =>
              step'[j] = step[j] /\ name'[j] = name[j] /\ stream'[j] = stream[j]
         /\ Alive(i)
         /\ Alive(i)' => name'[i] = name[i]
         /\ ~StreamEnds(i) /\ stream[i] => Alive(i)' /\ stream'[i]
<1>1. CASE PathReady(i) \/ PathNotReady(i) \/ PathOverridden(i)
  <2>1. /\ UNCHANGED <<asked, name, paths>> /\ Alive(i) /\ Alive(i)'
        /\ \A j \in Ids : j # i => step'[j] = step[j] /\ stream'[j] = stream[j]
        /\ ~StreamEnds(i) => UNCHANGED stream
    BY <1>1 DEF PathReady, PathNotReady, PathOverridden, AfterHandler, Alive, StreamEnds, IInv, TypeOK
  <2>2. ListedNamed'
    BY <2>1 DEF ListedNamed, Alive, IInv, TypeOK, IdsOrNil
  <2> QED
    BY <2>1, <2>2
<1>2. CASE ClosePath(i)
  <2>1. /\ UNCHANGED <<asked, name, stream>> /\ Alive(i) /\ Alive(i)'
        /\ \A j \in Ids : j # i => step'[j] = step[j]
    BY <1>2 DEF ClosePath, Alive, IInv, TypeOK
  <2>2. \A n \in Names : paths'[n] = paths[n] \/ paths'[n] = Nil
    BY <1>2 DEF ClosePath, DoClosePath, RemovePath, IInv, TypeOK
  <2>3. ListedNamed'
    BY <2>1, <2>2 DEF ListedNamed, Alive, IInv, TypeOK, IdsOrNil
  <2> QED
    BY <2>1, <2>3
<1>3. CASE PathCleanup(i) \/ PathFinalNotReady(i)
  <2>1. /\ UNCHANGED <<asked, paths>> /\ Alive(i)
        /\ \A j \in Ids : j # i =>
             step'[j] = step[j] /\ name'[j] = name[j] /\ stream'[j] = stream[j]
    BY <1>3 DEF PathCleanup, PathFinalNotReady, PathDone, Alive, IInv, TypeOK, pmVars
  <2>2. /\ Alive(i)' => name'[i] = name[i]
        /\ ~StreamEnds(i) /\ stream[i] => Alive(i)' /\ stream'[i]
    BY <1>3 DEF PathCleanup, PathFinalNotReady, PathDone, Alive, StreamEnds, IInv, TypeOK
  <2>3. ListedNamed'
    BY <2>1, <2>2 DEF ListedNamed, Alive, IInv, TypeOK, IdsOrNil
  <2> QED
    BY <2>1, <2>2, <2>3
<1> QED
  BY <1>1, <1>2, <1>3 DEF PathCall

-----------------------------------------------------------------------------
(* Steps of the manager and of the paths.                                  *)

(* A step that ends no stream leaves the muxers what they hold.            *)
LEMMA PathsGoOnKeeps ==
  ASSUME HInv, IInv', ListedNamed', PathsGoOn, UNCHANGED hlsVars,
         \A m \in Muxers : asked'[m] = asked[m]
  PROVE  HInv'
<1>1. HLSTypeOK'
  BY DEF HInv, IInv, HLSTypeOK, hlsVars, serverVars, muxerVars
<1>2. \A m \in Muxers : asked[m] \in IdsOrNil
  BY MuxersAreClients DEF HInv, IInv, TypeOK
<1>3. MuxersHold'
  BY <1>2, MuxersAreClients DEF HInv, MuxersHold, PathsGoOn, hlsVars, muxerVars, IdsOrNil
<1>4. LiveMuxersListed'
  BY DEF HInv, LiveMuxersListed, MuxerDone, hlsVars, serverVars, muxerVars
<1>5. MuxersReadLiveStreams'
  BY <1>2 DEF HInv, MuxersReadLiveStreams, MuxersHold, PathsGoOn, MuxerDone, hlsVars, serverVars,
     muxerVars, IdsOrNil
<1> QED
  BY <1>1, <1>3, <1>4, <1>5 DEF HInv

(* The calls of the paths keep the invariant of the manager.               *)
LEMMA PathCallKeeps ==
  ASSUME IInv, NEW i \in Ids, PathCall(i)
  PROVE  IInv'
BY PathReadyKeeps, PathNotReadyKeeps, PathOverriddenKeeps, ClosePathKeeps,
   PathCleanupKeeps, PathFinalNotReadyKeeps DEF PathCall

(* setNotReady closes the readers, so no muxer goes on with a stream that  *)
(* ended.                                                                  *)
LEMMA PathCallAndReadersKeeps ==
  ASSUME HInv, NEW i \in Ids, PathCallAndReaders(i)
  PROVE  HInv'
<1>1. /\ IInv' /\ ListedNamed' /\ UNCHANGED asked
      /\ \A j \in Ids : j # i =>
           step'[j] = step[j] /\ name'[j] = name[j] /\ stream'[j] = stream[j]
      /\ Alive(i)
      /\ Alive(i)' => name'[i] = name[i]
      /\ ~StreamEnds(i) /\ stream[i] => Alive(i)' /\ stream'[i]
  BY PathCallKeeps, PathCallFacts DEF HInv, PathCallAndReaders
<1>2. /\ UNCHANGED <<serverVars, muxerName, requested, muxerStep>>
      /\ muxerDone' \in [Muxers -> BOOLEAN]
      /\ \A m \in Muxers : muxerDone[m] => muxerDone'[m]
      /\ \A m \in Muxers :
           StreamEnds(i) /\ muxerStep[m] = "reading" /\ asked[m] = i => muxerDone'[m]
  BY DEF PathCallAndReaders, CloseReaders, hlsVars, muxerVars, HInv, HLSTypeOK
<1>3. HLSTypeOK'
  BY <1>1, <1>2 DEF HInv, IInv, HLSTypeOK, serverVars
<1>4. \A m \in Muxers : asked[m] \in IdsOrNil
  BY MuxersAreClients DEF HInv, IInv, TypeOK
<1>5. MuxersHold'
  BY <1>1, <1>2, <1>4 DEF HInv, MuxersHold, Alive, IdsOrNil
<1>6. LiveMuxersListed'
  BY <1>2 DEF HInv, LiveMuxersListed, MuxerDone, serverVars
<1>7. MuxersReadLiveStreams'
  <2> SUFFICES ASSUME NEW m \in Muxers, muxerStep[m] = "reading", ~MuxerDone(m)'
               PROVE  Alive(asked[m])' /\ stream'[asked[m]] /\ name'[asked[m]] = muxerName[m]
    BY <1>1, <1>2 DEF MuxersReadLiveStreams, Alive
  <2>1. /\ asked[m] \in Ids /\ Alive(asked[m]) /\ stream[asked[m]]
        /\ name[asked[m]] = muxerName[m]
    BY <1>2, <1>4 DEF HInv, MuxersReadLiveStreams, MuxersHold, MuxerDone, serverVars, IdsOrNil
  <2>2. asked[m] = i => ~StreamEnds(i)
    BY <1>2 DEF MuxerDone
  <2> QED
    BY <1>1, <2>1, <2>2 DEF Alive
<1> QED
  BY <1>1, <1>3, <1>5, <1>6, <1>7 DEF HInv

-----------------------------------------------------------------------------
(* Steps of the server.                                                    *)

(* Muxers that are in use stay as they are, new ones start by asking.      *)
MuxersGoOn ==
  \A m \in Muxers :
    \/ /\ muxerStep'[m] = muxerStep[m]
       /\ muxerStep[m] # "none" =>
            muxerName'[m] = muxerName[m] /\ (MuxerDone(m) => MuxerDone(m)')
    \/ muxerStep[m] = "none" /\ muxerStep'[m] = "asking"

(* A step of the server that keeps its table in order.                     *)
LEMMA MuxersGoOnKeeps ==
  ASSUME HInv, IInv', HLSTypeOK', LiveMuxersListed', MuxersGoOn,
         UNCHANGED <<asked, name, paths, step, stream>>
  PROVE  HInv'
<1>1. ListedNamed'
  BY DEF HInv, ListedNamed, Alive
<1>2. MuxersHold'
  BY DEF HInv, MuxersHold, MuxersGoOn, Alive
<1>3. MuxersReadLiveStreams'
  BY DEF HInv, MuxersReadLiveStreams, MuxersGoOn, Alive
<1> QED
  BY <1>1, <1>2, <1>3 DEF HInv

(* createMuxer for a name that has no muxer.                               *)
LEMMA MuxerCreated ==
  ASSUME HLSTypeOK, LiveMuxersListed, NEW n \in Names, NEW byRequest \in BOOLEAN,
         muxers[n] = Nil, CreateMuxer(n, byRequest), UNCHANGED serverDone
  PROVE  /\ muxers' \in [Names -> Muxers \cup {Nil}]
         /\ muxerName' \in [Muxers -> Names \cup {Nil}]
         /\ requested' \in [Muxers -> BOOLEAN]
         /\ muxerDone' \in [Muxers -> BOOLEAN]
         /\ muxerStep' \in [Muxers -> MuxerSteps]
         /\ \A m \in Muxers : (muxerName'[m] = Nil) = (muxerStep'[m] = "none")
         /\ LiveMuxersListed'
         /\ MuxersGoOn
<1>1. PICK m \in Muxers :
        /\ muxerStep[m] = "none" /\ \A k \in Names : muxers[k] # m
        /\ muxers' = [muxers EXCEPT ![n] = m]
        /\ muxerName' = [muxerName EXCEPT ![m] = n]
        /\ requested' = [requested EXCEPT ![m] = byRequest]
        /\ muxerDone' = [muxerDone EXCEPT ![m] = FALSE]
        /\ muxerStep' = [muxerStep EXCEPT ![m] = "asking"]
  BY DEF CreateMuxer
<1>2. /\ muxers' \in [Names -> Muxers \cup {Nil}]
      /\ muxerName' \in [Muxers -> Names \cup {Nil}]
      /\ requested' \in [Muxers -> BOOLEAN]
      /\ muxerDone' \in [Muxers -> BOOLEAN]
      /\ muxerStep' \in [Muxers -> MuxerSteps]
      /\ \A k \in Muxers : (muxerName'[k] = Nil) = (muxerStep'[k] = "none")
  BY <1>1, NilIsNoValue DEF HLSTypeOK, MuxerSteps
<1>3. /\ muxers'[n] = m /\ muxerName'[m] = n
      /\ \A k \in Names : k # n => muxers'[k] = muxers[k]
      /\ \A k \in Muxers : k # m =>
           /\ muxerName'[k] = muxerName[k] /\ muxerDone'[k] = muxerDone[k]
           /\ muxerStep'[k] = muxerStep[k]
  BY <1>1 DEF HLSTypeOK
<1>4. LiveMuxersListed'
  BY <1>3, NilIsNoValue, MuxersAreClients DEF LiveMuxersListed, MuxerDone, HLSTypeOK
<1>5. MuxersGoOn
  BY <1>1, <1>3 DEF MuxersGoOn, MuxerDone, HLSTypeOK
<1> QED
  BY <1>2, <1>4, <1>5

(* ... which is what the server makes sure of.                             *)
LEMMA MuxerCreatedIfNone ==
  ASSUME HLSTypeOK, LiveMuxersListed, NEW n \in Names, CreateMuxerIfNone(n),
         UNCHANGED serverDone
  PROVE  /\ muxers' \in [Names -> Muxers \cup {Nil}]
         /\ muxerName' \in [Muxers -> Names \cup {Nil}]
         /\ requested' \in [Muxers -> BOOLEAN]
         /\ muxerDone' \in [Muxers -> BOOLEAN]
         /\ muxerStep' \in [Muxers -> MuxerSteps]
         /\ \A m \in Muxers : (muxerName'[m] = Nil) = (muxerStep'[m] = "none")
         /\ LiveMuxersListed'
         /\ MuxersGoOn
<1>1. CASE alwaysRemux /\ muxers[n] = Nil
  BY <1>1, MuxerCreated DEF CreateMuxerIfNone
<1>2. CASE ~(alwaysRemux /\ muxers[n] = Nil)
  BY <1>2 DEF CreateMuxerIfNone, HLSTypeOK, LiveMuxersListed, MuxersGoOn, MuxerDone, muxerVars
<1> QED
  BY <1>1, <1>2

(* The notice that the server takes names a path.                          *)
LEMMA NotifyReturnsFacts ==
  ASSUME IInv, NotifyReturns
  PROVE  /\ IInv' /\ UNCHANGED <<asked, name, paths, step, stream>>
         /\ notice[1] \in Names
<1>1. notice[1] \in Names
  BY DEF NotifyReturns, IInv, TypeOK
<1> QED
  BY <1>1, NotifyReturnsKeeps DEF NotifyReturns, pathVars

(* SetHLSServer changes no path.                                           *)
LEMMA SetHLSServerFacts ==
  ASSUME IInv, NEW attached \in BOOLEAN, SetHLSServer(attached)
  PROVE  IInv' /\ UNCHANGED <<asked, name, paths, step, stream>>
BY SetHLSServerKeeps DEF SetHLSServer, pathVars

(* A step of the server or of a muxer alone.                               *)
LEMMA StutterFacts ==
  ASSUME IInv, UNCHANGED vars
  PROVE  IInv' /\ UNCHANGED <<asked, name, paths, step, stream>>
BY StutterKeeps DEF vars, pmVars, pathVars

(* The server: its table and the muxers change together.                   *)
LEMMA ServerNextKeeps ==
  ASSUME HInv, ServerNext
  PROVE  HInv'
<1>1. CASE Initialize
  <2>1. IInv' /\ UNCHANGED <<asked, name, paths, step, stream>>
    BY <1>1, StutterFacts DEF Initialize, HInv
  <2>2. HLSTypeOK'
    BY <1>1, <2>1, RemuxSettingsAreBooleans DEF Initialize, HInv, IInv, HLSTypeOK, muxerVars
  <2>3. LiveMuxersListed'
    BY <1>1 DEF Initialize, LiveMuxersListed, muxerVars
  <2>4. MuxersGoOn
    BY <1>1 DEF Initialize, MuxersGoOn, muxerVars
  <2> QED
    BY <2>1, <2>2, <2>3, <2>4, MuxersGoOnKeeps
<1>2. CASE Attach \/ Detach
  <2>1. IInv' /\ UNCHANGED <<asked, name, paths, step, stream>>
    BY <1>2, SetHLSServerFacts, StutterFacts DEF Attach, Detach, HInv
  <2>2. HLSTypeOK'
    BY <1>2, <2>1 DEF Attach, Detach, HInv, IInv, HLSTypeOK, muxerVars
  <2>3. UNCHANGED <<serverDone, muxers, muxerVars>>
    BY <1>2 DEF Attach, Detach
  <2>4. LiveMuxersListed'
    BY <2>3 DEF HInv, LiveMuxersListed, MuxerDone, muxerVars
  <2>5. MuxersGoOn
    BY <2>3 DEF MuxersGoOn, MuxerDone, muxerVars
  <2> QED
    BY <2>1, <2>2, <2>4, <2>5, MuxersGoOnKeeps
<1>3. ASSUME NEW n \in Names, RemuxReadyPath(n) \/ GetMuxer(n)
      PROVE  HInv'
  <2>1. IInv' /\ UNCHANGED <<asked, name, paths, step, stream>>
    BY <1>3, StutterFacts DEF RemuxReadyPath, GetMuxer, HInv
  <2>2. /\ muxers' \in [Names -> Muxers \cup {Nil}]
        /\ muxerName' \in [Muxers -> Names \cup {Nil}]
        /\ requested' \in [Muxers -> BOOLEAN]
        /\ muxerDone' \in [Muxers -> BOOLEAN]
        /\ muxerStep' \in [Muxers -> MuxerSteps]
        /\ \A m \in Muxers : (muxerName'[m] = Nil) = (muxerStep'[m] = "none")
        /\ LiveMuxersListed'
        /\ MuxersGoOn
    BY <1>3, MuxerCreated, MuxerCreatedIfNone DEF RemuxReadyPath, GetMuxer, HInv
  <2>3. HLSTypeOK'
    BY <1>3, <2>1, <2>2 DEF RemuxReadyPath, GetMuxer, HInv, IInv, HLSTypeOK
  <2> QED
    BY <2>1, <2>2, <2>3, MuxersGoOnKeeps
<1>4. CASE TakePathReady
  <2>1. IInv' /\ UNCHANGED <<asked, name, paths, step, stream>> /\ notice[1] \in Names
    BY <1>4, NotifyReturnsFacts DEF TakePathReady, HInv
  <2>2. /\ muxers' \in [Names -> Muxers \cup {Nil}]
        /\ muxerName' \in [Muxers -> Names \cup {Nil}]
        /\ requested' \in [Muxers -> BOOLEAN]
        /\ muxerDone' \in [Muxers -> BOOLEAN]
        /\ muxerStep' \in [Muxers -> MuxerSteps]
        /\ \A m \in Muxers : (muxerName'[m] = Nil) = (muxerStep'[m] = "none")
        /\ LiveMuxersListed'
        /\ MuxersGoOn
    BY <1>4, <2>1, MuxerCreatedIfNone DEF TakePathReady, HInv
  <2>3. HLSTypeOK'
    BY <1>4, <2>1, <2>2 DEF TakePathReady, HInv, IInv, HLSTypeOK
  <2> QED
    BY <2>1, <2>2, <2>3, MuxersGoOnKeeps
<1>5. CASE TakePathNotReady
  <2> DEFINE n == notice[1]
             m == muxers[n]
  <2>1. IInv' /\ UNCHANGED <<asked, name, paths, step, stream>> /\ n \in Names
    BY <1>5, NotifyReturnsFacts DEF TakePathNotReady, HInv
  <2>2. UNCHANGED <<serverState, alwaysRemux, serverDone, readyPaths, muxerName, requested, muxerStep>>
    BY <1>5 DEF TakePathNotReady
  <2>3. CASE m # Nil /\ ~requested[m]
    <3>1. /\ m \in Muxers
          /\ muxers' = [muxers EXCEPT ![n] = Nil]
          /\ muxerDone' = [muxerDone EXCEPT ![m] = TRUE]
      BY <1>5, <2>1, <2>3 DEF TakePathNotReady, HInv, HLSTypeOK
    <3>2. HLSTypeOK'
      BY <2>1, <2>2, <3>1 DEF HInv, IInv, HLSTypeOK
    <3>3. /\ \A k \in Names : k # n => muxers'[k] = muxers[k]
          /\ \A k \in Muxers : k # m => muxerDone'[k] = muxerDone[k]
          /\ muxerDone'[m]
      BY <3>1 DEF HInv, HLSTypeOK
    <3>4. LiveMuxersListed'
      BY <2>2, <3>1, <3>3 DEF HInv, HLSTypeOK, LiveMuxersListed, MuxerDone
    <3>5. MuxersGoOn
      BY <2>2, <3>3 DEF MuxersGoOn, MuxerDone
    <3> QED
      BY <2>1, <3>2, <3>4, <3>5, MuxersGoOnKeeps
  <2>4. CASE ~(m # Nil /\ ~requested[m])
    <3>1. UNCHANGED <<muxers, muxerDone>>
      BY <1>5, <2>4 DEF TakePathNotReady
    <3>2. HLSTypeOK' /\ LiveMuxersListed' /\ MuxersGoOn
      BY <2>1, <2>2, <3>1 DEF HInv, IInv, HLSTypeOK, LiveMuxersListed, MuxersGoOn, MuxerDone
    <3> QED
      BY <2>1, <3>2, MuxersGoOnKeeps
  <2> QED
    BY <2>3, <2>4
<1>6. CASE EnterLoop \/ LeaveLoop \/ CloseServer \/ NoticeDropped
  <2>1. IInv' /\ UNCHANGED <<asked, name, paths, step, stream>>
    BY <1>6, NotifyReturnsFacts, StutterFacts DEF EnterLoop, LeaveLoop, CloseServer, NoticeDropped, HInv
  <2>2. /\ UNCHANGED <<alwaysRemux, readyPaths, muxers, muxerVars>>
        /\ serverState' \in {serverState, "running", "detaching"}
        /\ serverDone' \in {serverDone, TRUE}
    BY <1>6 DEF EnterLoop, LeaveLoop, CloseServer, NoticeDropped, hlsVars, serverVars
  <2>3. HLSTypeOK'
    BY <2>1, <2>2 DEF HInv, IInv, HLSTypeOK, muxerVars
  <2>4. \A m \in Muxers : MuxerDone(m) => MuxerDone(m)'
    BY <2>2 DEF MuxerDone, muxerVars
  <2>5. LiveMuxersListed' /\ MuxersGoOn
    BY <2>2, <2>4 DEF HInv, LiveMuxersListed, MuxersGoOn, muxerVars
  <2> QED
    BY <2>1, <2>3, <2>5, MuxersGoOnKeeps
<1> QED
  BY <1>1, <1>2, <1>3, <1>4, <1>5, <1>6 DEF ServerNext

-----------------------------------------------------------------------------
(* Steps of the muxers.                                                    *)

(* Types, of a muxer that ends.                                            *)
LEMMA EndMuxerType ==
  ASSUME HLSTypeOK, TypeOK', NEW m \in Muxers, muxerName[m] # Nil, EndMuxer(m)
  PROVE  HLSTypeOK'
BY DEF EndMuxer, HLSTypeOK, MuxerSteps, serverVars

(* Types, of a muxer that goes on.                                         *)
LEMMA GotoType ==
  ASSUME HLSTypeOK, TypeOK', NEW m \in Muxers, muxerName[m] # Nil,
         NEW s \in {"adding", "reading", "removing"}, Goto(m, s)
  PROVE  HLSTypeOK'
BY DEF Goto, HLSTypeOK, MuxerSteps, serverVars

(* A muxer that ends has let go of the path.                               *)
LEMMA EndMuxerKeeps ==
  ASSUME HInv, IInv', ListedNamed', PathsGoOn, NEW m \in Muxers, muxerName[m] # Nil,
         EndMuxer(m), asked'[m] = Nil, \A k \in Muxers : k # m => asked'[k] = asked[k]
  PROVE  HInv'
<1>1. HLSTypeOK'
  BY EndMuxerType DEF HInv, IInv
<1>2. /\ muxerStep'[m] = "closeCall"
      /\ \A k \in Muxers : k # m => muxerStep'[k] = muxerStep[k] /\ muxerDone'[k] = muxerDone[k]
      /\ UNCHANGED <<serverDone, muxers, muxerName>>
  BY DEF EndMuxer, HInv, HLSTypeOK, serverVars
<1>3. \A k \in Muxers : asked[k] \in IdsOrNil
  BY MuxersAreClients DEF HInv, IInv, TypeOK
<1>4. MuxersHold'
  BY <1>2, <1>3, MuxersAreClients DEF HInv, MuxersHold, PathsGoOn, IdsOrNil
<1>5. LiveMuxersListed'
  BY <1>2 DEF HInv, LiveMuxersListed, MuxerDone
<1>6. MuxersReadLiveStreams'
  BY <1>2, <1>3 DEF HInv, MuxersReadLiveStreams, MuxersHold, PathsGoOn, MuxerDone, IdsOrNil
<1> QED
  BY <1>1, <1>4, <1>5, <1>6 DEF HInv

(* pathManager.AddReader: the muxer is given the path of its name.         *)
LEMMA AskManagerKeeps ==
  ASSUME HInv, NEW m \in Muxers, AskManager(m)
  PROVE  HInv'
<1> DEFINE n == muxerName[m]
<1>1. n \in Names /\ muxerStep[m] = "asking" /\ asked[m] = Nil /\ m \in Clients
  BY MuxersAreClients DEF AskManager, HInv, HLSTypeOK, MuxersHold
<1>2. CASE Request(m, n) /\ Goto(m, "adding")
  <2>1. IInv'
    BY <1>1, <1>2, RequestKeeps DEF HInv
  <2>2. /\ PathsGoOn /\ ListedNamed'
        /\ asked'[m] \in Ids
        /\ Alive(asked[m])' => name'[asked'[m]] = n
        /\ \A k \in Clients : k # m => asked'[k] = asked[k]
    BY <1>1, <1>2, RequestGoesOn DEF HInv
  <2>3. HLSTypeOK'
    BY <1>1, <1>2, <2>1, GotoType, NilIsNoValue DEF HInv, IInv
  <2>4. /\ muxerStep'[m] = "adding"
        /\ \A k \in Muxers : k # m => muxerStep'[k] = muxerStep[k]
        /\ UNCHANGED <<serverDone, muxers, muxerName, muxerDone>>
    BY <1>2 DEF Goto, HInv, HLSTypeOK, serverVars
  <2>5. \A k \in Muxers : k # m => asked'[k] = asked[k] /\ asked[k] \in IdsOrNil
    BY <2>2, MuxersAreClients DEF HInv, IInv, TypeOK
  <2>6. MuxersHold'
    <3> SUFFICES ASSUME NEW k \in Muxers
                 PROVE  /\ (asked'[k] = Nil) = (muxerStep'[k] \in {"none", "asking", "closeCall"})
                        /\ muxerStep'[k] \in {"adding", "reading"} /\ Alive(asked[k])' =>
                             name'[asked'[k]] = muxerName'[k]
      BY DEF MuxersHold
    <3>1. CASE k = m
      BY <2>2, <2>4, <3>1, NilIsNoValue
    <3>2. CASE k # m
      <4>1. /\ asked'[k] = asked[k] /\ muxerStep'[k] = muxerStep[k] /\ muxerName'[k] = muxerName[k]
            /\ asked[k] \in IdsOrNil /\ k \in Clients
        BY <2>4, <2>5, <3>2, MuxersAreClients
      <4>2. (asked'[k] = Nil) = (muxerStep'[k] \in {"none", "asking", "closeCall"})
        BY <4>1 DEF HInv, MuxersHold
      <4>3. ASSUME muxerStep'[k] \in {"adding", "reading"}, Alive(asked[k])'
            PROVE  name'[asked'[k]] = muxerName'[k]
        <5>1. asked[k] \in Ids
          BY <4>1, <4>3 DEF HInv, MuxersHold, IdsOrNil
        <5>2. Alive(asked[k])
          BY <4>1, <4>3, <5>1, <2>2 DEF PathsGoOn, Alive
        <5> QED
          BY <4>1, <4>3, <5>1, <5>2, <2>2 DEF HInv, MuxersHold, PathsGoOn
      <4> QED
        BY <4>2, <4>3
    <3> QED
      BY <3>1, <3>2
  <2>7. LiveMuxersListed'
    BY <1>1, <2>4 DEF HInv, LiveMuxersListed, MuxerDone
  <2>8. MuxersReadLiveStreams'
    BY <2>2, <2>4, <2>5 DEF HInv, MuxersReadLiveStreams, MuxersHold, PathsGoOn, MuxerDone, Alive, IdsOrNil
  <2> QED
    BY <2>1, <2>2, <2>3, <2>6, <2>7, <2>8 DEF HInv
<1>3. CASE UNCHANGED vars /\ EndMuxer(m)
  <2>1. IInv' /\ UNCHANGED <<asked, name, paths, step, stream>>
    BY <1>3, StutterFacts DEF HInv
  <2>2. ListedNamed' /\ PathsGoOn
    BY <2>1 DEF HInv, ListedNamed, PathsGoOn, Alive
  <2> QED
    BY <1>1, <1>3, <2>1, <2>2, EndMuxerKeeps, NilIsNoValue
<1> QED
  BY <1>2, <1>3 DEF AskManager

(* A path that refuses a reader.                                           *)
LEMMA RefusedKeeps ==
  ASSUME IInv, NEW i \in Ids, NEW c \in Clients, asked[c] = i, step[i] = "running", ~stream[i],
         step' = [step EXCEPT ![i] = AfterHandler(i, used[i])],
         asked' = [asked EXCEPT ![c] = Nil],
         UNCHANGED <<pmVars, name, conf, ctxDone, used, stream, reloads>>
  PROVE  IInv'
<1>1. step'[i] = "running" \/ (step'[i] = "closeCall" /\ conf[i].regexp)
  BY DEF AfterHandler, IInv, TypeOK
<1>2. \A j \in Ids : j # i => step'[j] = step[j]
  BY DEF IInv, TypeOK
<1>3. TypeOK'
  BY DEF IInv, TypeOK, PathSteps, AfterHandler, IdsOrNil, pmVars
<1>4. TodoListed' /\ StaticSourcesExist' /\ ConfsFit'
  BY DEF IInv, TodoListed, StaticSourcesExist, ConfsFit, Target, Reloading, InForce, pmVars
<1>5. InPlace' /\ Ending' /\ ServingPathsListed' /\ Awaited'
  BY <1>1, <1>2 DEF IInv, InPlace, Ending, ServingPathsListed, Awaited, Alive, pmVars
<1>6. ListedPathsServe'
  BY <1>1, <1>2 DEF IInv, TypeOK, IdsOrNil, ListedPathsServe, Alive, pmVars
<1>7. ReadyFlagFollowsPath'
  BY <1>1, <1>2 DEF IInv, TypeOK, IdsOrNil, ReadyFlagFollowsPath, pmVars
<1> QED
  BY <1>3, <1>4, <1>5, <1>6, <1>7 DEF IInv

(* path.addReader: a muxer that is accepted reads a stream that is there.  *)
LEMMA JoinPathKeeps ==
  ASSUME HInv, NEW m \in Muxers, JoinPath(m)
  PROVE  HInv'
<1> DEFINE i == asked[m]
<1>1. i \in Ids /\ muxerStep[m] = "adding" /\ muxerName[m] # Nil /\ m \in Clients
  BY MuxersAreClients DEF JoinPath, HInv, IInv, TypeOK, IdsOrNil, HLSTypeOK, MuxersHold
<1>2. CASE /\ step[i] = "running" /\ stream[i] /\ used' = [used EXCEPT ![i] = TRUE]
           /\ UNCHANGED <<pmVars, name, conf, ctxDone, stream, step, reloads, asked>>
           /\ Goto(m, "reading")
  <2>1. IInv'
    BY <1>1, <1>2 DEF HInv, IInv, TypeOK, TodoListed, InPlace, ListedPathsServe,
       ServingPathsListed, ReadyFlagFollowsPath, Ending, Awaited, ConfsFit, StaticSourcesExist,
       Alive, Target, Reloading, InForce, pmVars
  <2>2. HLSTypeOK'
    BY <1>1, <1>2, <2>1, GotoType DEF HInv, IInv
  <2>3. /\ muxerStep'[m] = "reading"
        /\ \A k \in Muxers : k # m => muxerStep'[k] = muxerStep[k]
        /\ UNCHANGED <<serverDone, muxers, muxerName, muxerDone, asked, name, paths, step, stream>>
    BY <1>2 DEF Goto, HInv, HLSTypeOK, serverVars, pmVars
  <2>4. Alive(i) /\ name[i] = muxerName[m] /\ i # Nil
    BY <1>1, <1>2, NilIsNoValue DEF HInv, MuxersHold, Alive
  <2>5. ListedNamed'
    BY <2>3 DEF HInv, ListedNamed, Alive
  <2>6. MuxersHold'
    BY <2>3, <2>4 DEF HInv, MuxersHold, Alive
  <2>7. LiveMuxersListed'
    BY <1>1, <2>3 DEF HInv, LiveMuxersListed, MuxerDone
  <2>8. MuxersReadLiveStreams'
    BY <1>2, <2>3, <2>4 DEF HInv, MuxersReadLiveStreams, MuxerDone, Alive
  <2> QED
    BY <2>1, <2>2, <2>5, <2>6, <2>7, <2>8 DEF HInv
<1>3. CASE /\ step[i] = "running" /\ ~stream[i]
           /\ step' = [step EXCEPT ![i] = AfterHandler(i, used[i])]
           /\ asked' = [asked EXCEPT ![m] = Nil]
           /\ UNCHANGED <<pmVars, name, conf, ctxDone, used, stream, reloads>>
           /\ EndMuxer(m)
  <2>1. IInv'
    BY <1>1, <1>3, RefusedKeeps DEF HInv
  <2>2. /\ step'[i] \in {"running", "closeCall"} /\ \A j \in Ids : j # i => step'[j] = step[j]
        /\ asked'[m] = Nil /\ \A k \in Clients : k # m => asked'[k] = asked[k]
        /\ UNCHANGED <<name, stream, paths>>
    BY <1>1, <1>3 DEF HInv, IInv, TypeOK, AfterHandler, pmVars
  <2>3. PathsGoOn /\ ListedNamed'
    BY <1>3, <2>2 DEF PathsGoOn, HInv, ListedNamed, Alive, IInv, TypeOK, IdsOrNil
  <2> QED
    BY <1>1, <1>3, <2>1, <2>2, <2>3, EndMuxerKeeps, MuxersAreClients
<1>4. CASE /\ asked' = [asked EXCEPT ![m] = Nil] /\ UNCHANGED <<pmVars, pathVars, reloads>>
           /\ EndMuxer(m)
  <2>1. asked' \in [Clients -> IdsOrNil] /\ asked'[m] = Nil
        /\ \A k \in Clients : k # m => asked'[k] = asked[k]
    BY <1>1, <1>4 DEF HInv, IInv, TypeOK, IdsOrNil
  <2>2. IInv'
    BY <1>4, <2>1, OnlyAskedKeeps DEF HInv
  <2>3. PathsGoOn /\ ListedNamed'
    BY <1>4 DEF PathsGoOn, HInv, ListedNamed, Alive, pmVars, pathVars
  <2> QED
    BY <1>1, <1>4, <2>1, <2>2, <2>3, EndMuxerKeeps, MuxersAreClients
<1> QED
  BY <1>2, <1>3, <1>4 DEF JoinPath, pathVars

(* path.RemoveReader, or the path is gone.                                 *)
LEMMA RemoveReaderKeeps ==
  ASSUME HInv, NEW m \in Muxers, RemoveReader(m)
  PROVE  HInv'
<1>1. m \in Clients /\ muxerName[m] # Nil
  BY MuxersAreClients DEF RemoveReader, HInv, HLSTypeOK
<1>2. asked' \in [Clients -> IdsOrNil] /\ asked'[m] = Nil
      /\ \A k \in Clients : k # m => asked'[k] = asked[k]
  BY <1>1 DEF RemoveReader, HInv, IInv, TypeOK, IdsOrNil
<1>3. IInv'
  BY <1>2, OnlyAskedKeeps DEF RemoveReader, HInv
<1>4. PathsGoOn /\ ListedNamed'
  BY DEF RemoveReader, PathsGoOn, HInv, ListedNamed, Alive, pmVars, pathVars
<1> QED
  BY <1>1, <1>2, <1>3, <1>4, EndMuxerKeeps, MuxersAreClients DEF RemoveReader

(* runInner returns.                                                       *)
LEMMA LeavePathKeeps ==
  ASSUME HInv, NEW m \in Muxers, LeavePath(m)
  PROVE  HInv'
<1>1. IInv' /\ UNCHANGED <<asked, name, paths, step, stream>>
  BY StutterFacts DEF LeavePath, HInv
<1>2. muxerName[m] # Nil /\ muxerStep[m] = "reading"
  BY DEF LeavePath, HInv, HLSTypeOK
<1>3. HLSTypeOK'
  BY <1>1, <1>2, GotoType DEF LeavePath, HInv, IInv
<1>4. /\ muxerStep'[m] = "removing"
      /\ \A k \in Muxers : k # m => muxerStep'[k] = muxerStep[k]
      /\ UNCHANGED <<serverDone, muxers, muxerName, muxerDone>>
  BY DEF LeavePath, Goto, HInv, HLSTypeOK, serverVars
<1>5. ListedNamed' /\ MuxersHold'
  BY <1>1, <1>2, <1>4 DEF HInv, ListedNamed, MuxersHold, Alive
<1>6. LiveMuxersListed' /\ MuxersReadLiveStreams'
  BY <1>1, <1>4 DEF HInv, LiveMuxersListed, MuxersReadLiveStreams, MuxerDone, Alive
<1> QED
  BY <1>1, <1>3, <1>5, <1>6 DEF HInv

(* closeMuxer: only the entry of this muxer is cleared.                    *)
LEMMA CloseMuxerKeeps ==
  ASSUME HInv, NEW m \in Muxers, CloseMuxer(m)
  PROVE  HInv'
<1>1. IInv' /\ UNCHANGED <<asked, name, paths, step, stream>>
  BY StutterFacts DEF CloseMuxer, HInv
<1>2. muxerStep[m] = "closeCall" /\ muxerName[m] \in Names
  BY DEF CloseMuxer, HInv, HLSTypeOK
<1>3. /\ muxers' \in [Names -> Muxers \cup {Nil}]
      /\ \A n \in Names : muxers[n] # m => muxers'[n] = muxers[n]
  BY <1>2 DEF CloseMuxer, DoCloseMuxer, HInv, HLSTypeOK
<1>4. /\ muxerStep'[m] = "none" /\ muxerName'[m] = Nil
      /\ \A k \in Muxers : k # m => muxerStep'[k] = muxerStep[k] /\ muxerName'[k] = muxerName[k]
      /\ UNCHANGED <<serverDone, muxerDone>>
  BY DEF CloseMuxer, HInv, HLSTypeOK
<1>5. HLSTypeOK'
  BY <1>1, <1>3 DEF CloseMuxer, HInv, IInv, HLSTypeOK, MuxerSteps
<1>6. ListedNamed' /\ MuxersHold'
  BY <1>1, <1>2, <1>4 DEF HInv, ListedNamed, MuxersHold, Alive
<1>7. LiveMuxersListed'
  BY <1>3, <1>4 DEF HInv, HLSTypeOK, LiveMuxersListed, MuxerDone
<1>8. MuxersReadLiveStreams'
  BY <1>1, <1>4 DEF HInv, MuxersReadLiveStreams, MuxerDone, Alive
<1> QED
  BY <1>1, <1>5, <1>6, <1>7, <1>8 DEF HInv

(* No step of the server, a muxer, the manager, a path or a client breaks  *)
(* it.                                                                     *)
LEMMA HLSNextKeeps == HInv /\ [HLSNext]_allVars => HInv'
<1> SUFFICES ASSUME HInv, [HLSNext]_allVars PROVE HInv'
  OBVIOUS
<1>1. CASE ServerNext
  BY <1>1, ServerNextKeeps
<1>2. ASSUME NEW m \in Muxers, MuxerNext(m)
      PROVE  HInv'
  BY <1>2, AskManagerKeeps, JoinPathKeeps, LeavePathKeeps, RemoveReaderKeeps, CloseMuxerKeeps
     DEF MuxerNext
<1>3. ASSUME NEW i \in Ids, PathCallAndReaders(i)
      PROVE  HInv'
  BY <1>3, PathCallAndReadersKeeps
<1>4. CASE ManagerNext /\ UNCHANGED hlsVars
  <2>1. IInv'
    BY <1>4, NextKeeps DEF HInv, Next
  <2> QED
    BY <1>4, <2>1, ManagerGoesOn, PathsGoOnKeeps DEF HInv
<1>5. ASSUME NEW c \in Clients \ Muxers, ClientNext(c), UNCHANGED hlsVars
      PROVE  HInv'
  <2>1. IInv'
    BY <1>5, NextKeeps DEF HInv, Next
  <2> QED
    BY <1>5, <2>1, ClientGoesOn, PathsGoOnKeeps, MuxersAreClients DEF HInv
<1>6. CASE UNCHANGED allVars
  <2>1. IInv' /\ UNCHANGED <<asked, name, paths, step, stream>>
    BY <1>6, StutterFacts DEF HInv, allVars
  <2>2. ListedNamed' /\ PathsGoOn
    BY <2>1 DEF HInv, ListedNamed, PathsGoOn, Alive
  <2> QED
    BY <1>6, <2>1, <2>2, PathsGoOnKeeps DEF allVars
<1> QED
  BY <1>1, <1>2, <1>3, <1>4, <1>5, <1>6 DEF HLSNext

(* No server, no muxer.                                                    *)
LEMMA HLSInitInv == HLSInit => HInv
<1> SUFFICES ASSUME HLSInit PROVE HInv
  OBVIOUS
<1>1. IInv /\ ListedNamed
  BY InitInv DEF HLSInit, Init, ListedNamed
<1>2. HLSTypeOK
  BY <1>1 DEF HLSInit, HLSTypeOK, MuxerSteps, IInv
<1>3. MuxersHold /\ LiveMuxersListed /\ MuxersReadLiveStreams
  BY MuxersAreClients DEF HLSInit, Init, MuxersHold, LiveMuxersListed, MuxersReadLiveStreams
<1> QED
  BY <1>1, <1>2, <1>3 DEF HInv

(* The server can reach every muxer that is not on its way out, and a      *)
(* muxer that is not being closed reads a stream that is still there,      *)
(* under any interleaving of the server, its muxers, the manager and the   *)
(* paths (servers/hls/server.go, muxer.go).                                *)
THEOREM MuxersOfPaths == HLSSpec => [](HLSTypeOK /\ MuxersFollowPaths)
<1>1. HInv => HLSTypeOK /\ MuxersFollowPaths
  BY DEF HInv, MuxersFollowPaths
<1> QED
  BY <1>1, HLSInitInv, HLSNextKeeps, PTL DEF HLSSpec

=============================================================================
