-------------------------------- MODULE Path --------------------------------
(***************************************************************************)
(* One path of the media server: the event loop of core/path.go.           *)
(*                                                                         *)
(* The loop (runInner) takes one message or timer at a time, so every case *)
(* of its select is one action.  Around the loop are its clients: readers, *)
(* describers and publishers (sessions of the protocol servers), the       *)
(* static source handler the path owns, and the path manager, which        *)
(* reloads the configuration and cancels the context.                      *)
(*                                                                         *)
(* Operators named X_Something are faulty variants of X: each shows that   *)
(* a property notices the mistake it describes.  The model does not use    *)
(* them.                                                                   *)
(***************************************************************************)
EXTENDS Naturals, Sequences, FiniteSets

CONSTANTS
  Readers,         (* sessions that read: authors of AddReader               *)
  Describers,      (* clients that ask for the description of the stream     *)
  Publishers,      (* sessions that publish: authors of AddPublisher         *)
  Recordings,      (* values of the record* settings that restart a recorder *)
  Confs,           (* path configurations, before and after reloads          *)
  Nil,             (* Go's nil                                               *)
  SetReadyMayFail  (* whether stream.Initialize() may return an error        *)

(***************************************************************************)
(* A configuration.  `onDemand' is sourceOnDemand for a static source and  *)
(* runOnDemand # "" for a publisher.  maxReaders = 0 means no limit.       *)
(***************************************************************************)
PathConf ==
  [source: {"publisher", "static", "redirect"}, onDemand: BOOLEAN,
   regexp: BOOLEAN, record: BOOLEAN, recording: Recordings,
   maxReaders: Nat, overridePublisher: BOOLEAN, fallback: BOOLEAN]

ASSUME ConfsValid ==
  /\ Confs \subseteq PathConf
  /\ \A c \in Confs : /\ c.source = "redirect" => ~c.onDemand
                      /\ c.source = "static" /\ c.regexp => c.onDemand
ASSUME NilIsNoValue == Nil \notin Publishers \cup Recordings
ASSUME SetReadyMayFailIsBoolean == SetReadyMayFail \in BOOLEAN

HasStaticSource(c)         == c.source = "static"
HasOnDemandStaticSource(c) == HasStaticSource(c) /\ c.onDemand
HasOnDemandPublisher(c)    == c.source = "publisher" /\ c.onDemand
OnDemand(c)                == HasOnDemandStaticSource(c) \/ HasOnDemandPublisher(c)

(* What a reload may change without recreating the path.                   *)
CanBeUpdated(old, new) ==
  new = [old EXCEPT !.regexp = new.regexp, !.record = new.record,
                    !.recording = new.recording]

VARIABLES
  conf,            (* pa.conf                                                *)
  phase,           (* of run(): "running" | "closing" | "closed", or         *)
                   (*   "panicked" when a handler calls a nil or spent hook  *)
  ctxDone,         (* pa.ctx is cancelled                                    *)
  publisher,       (* pa.source when conf.source is "publisher"              *)
  stream,          (* pa.stream: "nil" | "ok" | "failed" (not initialized)   *)
  recorder,        (* settings pa.recorder was started with, or Nil          *)
  onNotReadyHook,  (* "nil" | "armed" | "spent" (called, never reset to nil) *)
  onUnDemandHook,  (* pa.onUnDemandHook # nil: the command is running        *)
  onDemandState,   (* of the static source or of the publisher command       *)
  readyTimer,      (* the on-demand start timer is armed                     *)
  closeTimer,      (* the on-demand close timer is armed                     *)
  readers,         (* pa.readers                                             *)
  heldDescribes,   (* authors of pa.describeRequestsOnHold                   *)
  heldReaders,     (* authors of pa.readerAddRequestsOnHold, in order        *)
  handler,         (* static source: "stopped" | "running" | "ready"         *)
  describerState,  (* what each describer was last told, or "waiting"        *)
  readerState,     (* "idle" | "waiting" | "reading" | "kicked" (closed by   *)
                   (*   the path, about to call RemoveReader) | "gone"       *)
  publisherState   (* "idle" | "publishing" | "kicked" | "gone"              *)

streamVars  == <<stream, recorder, onNotReadyHook>>
demandVars  == <<onUnDemandHook, onDemandState, readyTimer, closeTimer>>
holdVars    == <<heldDescribes, heldReaders, describerState>>
readerVars  == <<readers, readerState>>
publishVars == <<publisher, publisherState>>
vars == <<conf, phase, ctxDone, handler, streamVars, demandVars, holdVars,
          readerVars, publishVars>>

OnHold == {heldReaders[i] : i \in DOMAIN heldReaders}

TypeOK ==
  /\ conf \in Confs
  /\ phase \in {"running", "closing", "closed", "panicked"}
  /\ ctxDone \in BOOLEAN
  /\ publisher \in Publishers \cup {Nil}
  /\ stream \in {"nil", "ok", "failed"}
  /\ recorder \in Recordings \cup {Nil}
  /\ onNotReadyHook \in {"nil", "armed", "spent"}
  /\ onUnDemandHook \in BOOLEAN
  /\ onDemandState \in {"initial", "waiting", "ready", "closing"}
  /\ readyTimer \in BOOLEAN
  /\ closeTimer \in BOOLEAN
  /\ readers \in SUBSET Readers
  /\ heldDescribes \in SUBSET Describers
  /\ heldReaders \in Seq(Readers)
  /\ handler \in {"stopped", "running", "ready"}
  /\ describerState \in [Describers -> {"idle", "waiting", "stream", "redirect", "error"}]
  /\ readerState \in [Readers -> {"idle", "waiting", "reading", "kicked", "gone"}]
  /\ publisherState \in [Publishers -> {"idle", "publishing", "kicked", "gone"}]

(* A static source that is not on demand is started before the loop.       *)
Init ==
  /\ conf \in Confs
  /\ phase = "running"
  /\ ctxDone = FALSE
  /\ publisher = Nil
  /\ stream = "nil"
  /\ recorder = Nil
  /\ onNotReadyHook = "nil"
  /\ onUnDemandHook = FALSE
  /\ onDemandState = "initial"
  /\ readyTimer = FALSE
  /\ closeTimer = FALSE
  /\ readers = {}
  /\ heldDescribes = {}
  /\ heldReaders = <<>>
  /\ handler = IF HasStaticSource(conf) /\ ~HasOnDemandStaticSource(conf) THEN "running" ELSE "stopped"
  /\ describerState = [d \in Describers |-> "idle"]
  /\ readerState = [r \in Readers |-> "idle"]
  /\ publisherState = [p \in Publishers |-> "idle"]

-----------------------------------------------------------------------------
(***************************************************************************)
(* The helpers of the handlers.                                            *)
(***************************************************************************)

ShouldClose ==
  /\ conf.regexp
  /\ conf.source = "publisher" /\ publisher = Nil
  /\ readers = {}
  /\ heldDescribes = {}
  /\ heldReaders = <<>>

(* After a handler: a panic kills the process, some handlers are followed  *)
(* by shouldClose(), the others keep the loop running.                     *)
Stay(panics) == phase' = IF panics THEN "panicked" ELSE "running"
StayOrClose_Never(panics) == Stay(panics)
StayOrClose(panics) ==
  phase' = IF panics THEN "panicked" ELSE IF ShouldClose' THEN "closing" ELSE "running"

OnDemandStaticSourceStart_NoTimer ==
  /\ handler' = "running"
  /\ onDemandState' = "waiting"
  /\ UNCHANGED <<onUnDemandHook, readyTimer, closeTimer>>
OnDemandStaticSourceStart ==
  /\ handler' = "running"
  /\ onDemandState' = "waiting"
  /\ readyTimer' = TRUE
  /\ UNCHANGED <<onUnDemandHook, closeTimer>>

OnDemandStaticSourceStop_StillRuns ==
  /\ onDemandState' = "initial"
  /\ closeTimer' = IF onDemandState = "closing" THEN FALSE ELSE closeTimer
  /\ UNCHANGED <<handler, onUnDemandHook>>
OnDemandStaticSourceStop ==
  /\ handler' = "stopped"
  /\ onDemandState' = "initial"
  /\ closeTimer' = IF onDemandState = "closing" THEN FALSE ELSE closeTimer
  /\ UNCHANGED onUnDemandHook

OnDemandPublisherStart ==
  /\ onUnDemandHook' = TRUE
  /\ onDemandState' = "waiting"
  /\ readyTimer' = TRUE
  /\ UNCHANGED <<handler, closeTimer>>

OnDemandPublisherStop ==
  /\ onUnDemandHook' = FALSE
  /\ onDemandState' = "initial"
  /\ closeTimer' = IF onDemandState = "closing" THEN FALSE ELSE closeTimer
  /\ UNCHANGED handler

ScheduleClose_NoTimer ==
  /\ onDemandState' = "closing"
  /\ UNCHANGED <<onUnDemandHook, readyTimer, closeTimer>>
ScheduleClose ==
  /\ onDemandState' = "closing"
  /\ closeTimer' = TRUE
  /\ UNCHANGED <<onUnDemandHook, readyTimer>>

(* Handler.Start panics when running, Handler.Stop when not running.       *)
StartPanics == handler # "stopped"
StopPanics  == handler = "stopped"

(* setReady, from the recorder and hook the call finds.                    *)
SetReady(ok, rec, hook) ==
  /\ stream' = IF ok THEN "ok" ELSE "failed"
  /\ recorder' = IF ok /\ conf.record THEN conf.recording ELSE rec
  /\ onNotReadyHook' = IF ok THEN "armed" ELSE hook

(* setNotReady: readers are removed and closed, the hook is called, the    *)
(* recorder and the stream are closed.                                     *)
NotReadyPanics == onNotReadyHook # "armed"
Kicked == [r \in Readers |-> IF r \in readers /\ readerState[r] = "reading"
                             THEN "kicked" ELSE readerState[r]]
StreamDown ==
  /\ stream' = "nil"
  /\ recorder' = Nil
  /\ onNotReadyHook' = "spent"
SetNotReady_KeepsReaders == StreamDown /\ UNCHANGED readerVars
SetNotReady ==
  /\ StreamDown
  /\ readers' = {}
  /\ readerState' = Kicked

(* The held readers that addReaderPost admits next to those present.       *)
Admitted(present) ==
  {heldReaders[i] : i \in {j \in DOMAIN heldReaders :
     conf.maxReaders = 0 \/ j + Cardinality(present) <= conf.maxReaders}}

(* consumeOnHoldRequests, from the readers and their states the call finds *)
ConsumeOnHoldRequests(present, states) ==
  /\ heldDescribes' = {}
  /\ describerState' =
       [d \in Describers |-> IF d \in heldDescribes THEN "stream" ELSE describerState[d]]
  /\ heldReaders' = <<>>
  /\ readers' = present \cup Admitted(present)
  /\ readerState' = [r \in Readers |-> IF r \in Admitted(present) THEN "reading"
                                       ELSE IF r \in OnHold THEN "idle" ELSE states[r]]

(* The source got ready: the start timer is stopped and the close timer    *)
(* started, which the first admitted reader stops again (addReaderPost).   *)
OnDemandReady(present) ==
  /\ readyTimer' = FALSE
  /\ onDemandState' = IF Admitted(present) = {} THEN "closing" ELSE "ready"
  /\ closeTimer' = (Admitted(present) = {})
  /\ UNCHANGED onUnDemandHook

(* Every held request is answered with an error.                           *)
RejectOnHold_KeepsDescribes(states) ==
  /\ describerState' =
       [d \in Describers |-> IF d \in heldDescribes THEN "error" ELSE describerState[d]]
  /\ heldReaders' = <<>>
  /\ readerState' = [r \in Readers |-> IF r \in OnHold THEN "idle" ELSE states[r]]
  /\ UNCHANGED heldDescribes
RejectOnHold(states) ==
  /\ heldDescribes' = {}
  /\ describerState' =
       [d \in Describers |-> IF d \in heldDescribes THEN "error" ELSE describerState[d]]
  /\ heldReaders' = <<>>
  /\ readerState' = [r \in Readers |-> IF r \in OnHold THEN "idle" ELSE states[r]]

-----------------------------------------------------------------------------
(***************************************************************************)
(* The timers.                                                             *)
(***************************************************************************)

DoOnDemandStaticSourceReadyTimer ==
  /\ phase = "running" /\ readyTimer /\ HasStaticSource(conf)
  /\ readyTimer' = FALSE
  /\ RejectOnHold(readerState)
  /\ OnDemandStaticSourceStop
  /\ UNCHANGED <<conf, ctxDone, readers, streamVars, publishVars>>
  /\ StayOrClose(StopPanics)

DoOnDemandStaticSourceCloseTimer ==
  /\ phase = "running" /\ closeTimer /\ HasStaticSource(conf)
  /\ SetNotReady
  /\ OnDemandStaticSourceStop
  /\ UNCHANGED <<conf, ctxDone, readyTimer, holdVars, publishVars>>
  /\ StayOrClose(NotReadyPanics \/ StopPanics)

DoOnDemandPublisherReadyTimer ==
  /\ phase = "running" /\ readyTimer /\ HasOnDemandPublisher(conf)
  /\ readyTimer' = FALSE
  /\ RejectOnHold(readerState)
  /\ OnDemandPublisherStop
  /\ UNCHANGED <<conf, ctxDone, readers, streamVars, publishVars>>
  /\ StayOrClose(~onUnDemandHook)

DoOnDemandPublisherCloseTimer ==
  /\ phase = "running" /\ closeTimer /\ HasOnDemandPublisher(conf)
  /\ OnDemandPublisherStop
  /\ UNCHANGED <<conf, ctxDone, readyTimer, streamVars, holdVars, readerVars, publishVars>>
  /\ Stay(~onUnDemandHook)

-----------------------------------------------------------------------------
(***************************************************************************)
(* The configuration and the static source.                                *)
(***************************************************************************)

(* A reload closes the recorder when one of its settings changed, and      *)
(* starts it again if the path still records.                              *)
RecorderKept(new) ==
  IF new.record # conf.record \/ new.recording # conf.recording THEN Nil ELSE recorder

DoReloadConf(new) ==
  /\ phase = "running"
  /\ new # conf /\ CanBeUpdated(conf, new)
  /\ conf' = new
  /\ recorder' = IF new.record /\ stream # "nil" /\ RecorderKept(new) = Nil
                 THEN new.recording ELSE RecorderKept(new)
  /\ UNCHANGED <<ctxDone, handler, stream, onNotReadyHook, demandVars, holdVars,
                 readerVars, publishVars>>
  /\ Stay(FALSE)

(* The running instance announces its stream; ok says whether the stream   *)
(* can be initialized.                                                     *)
DoSourceStaticSetReady(ok) ==
  /\ phase = "running" /\ handler = "running"
  /\ SetReady(ok, recorder, onNotReadyHook)
  /\ IF ok
     THEN /\ handler' = "ready"
          /\ IF HasOnDemandStaticSource(conf)
             THEN OnDemandReady(readers)
             ELSE UNCHANGED demandVars
          /\ ConsumeOnHoldRequests(readers, readerState)
     ELSE UNCHANGED <<handler, demandVars, holdVars, readerVars>>
  /\ UNCHANGED <<conf, ctxDone, publishVars>>
  /\ Stay(FALSE)

DoSourceStaticSetNotReady ==
  /\ phase = "running" /\ handler = "ready"
  /\ SetNotReady
  /\ IF HasOnDemandStaticSource(conf) /\ onDemandState # "initial"
     THEN OnDemandStaticSourceStop
     ELSE /\ handler' = "running"
          /\ UNCHANGED <<onUnDemandHook, onDemandState, closeTimer>>
  /\ UNCHANGED <<conf, ctxDone, readyTimer, holdVars, publishVars>>
  /\ StayOrClose(NotReadyPanics)

-----------------------------------------------------------------------------
(***************************************************************************)
(* The clients.                                                            *)
(***************************************************************************)

(* Putting a request on hold starts the on-demand source when it is not    *)
(* started yet.                                                            *)
StartOnDemand ==
  IF onDemandState # "initial"
  THEN UNCHANGED <<handler, demandVars>>
  ELSE IF HasStaticSource(conf) THEN OnDemandStaticSourceStart ELSE OnDemandPublisherStart

StartOnDemandPanics ==
  onDemandState = "initial" /\ HasStaticSource(conf) /\ StartPanics

DescribeAnswer ==
  IF conf.source = "redirect" THEN "redirect"
  ELSE IF stream # "nil" THEN "stream"
  ELSE IF OnDemand(conf) THEN "waiting"
  ELSE IF conf.fallback THEN "redirect" ELSE "error"

DoDescribe(d) ==
  /\ phase = "running" /\ describerState[d] # "waiting"
  /\ describerState' = [describerState EXCEPT ![d] = DescribeAnswer]
  /\ IF DescribeAnswer = "waiting"
     THEN /\ StartOnDemand
          /\ heldDescribes' = heldDescribes \cup {d}
     ELSE UNCHANGED <<handler, demandVars, heldDescribes>>
  /\ UNCHANGED <<conf, ctxDone, heldReaders, streamVars, readerVars, publishVars>>
  /\ StayOrClose(DescribeAnswer = "waiting" /\ StartOnDemandPanics)

(* addReaderPost for one request; a full path and a reader that is already *)
(* there change nothing.                                                   *)
AddReaderPost_KeepsCloseTimer(r) ==
  /\ IF r \in readers \/ (conf.maxReaders # 0 /\ Cardinality(readers) >= conf.maxReaders)
     THEN UNCHANGED readerVars
     ELSE /\ readers' = readers \cup {r}
          /\ readerState' = [readerState EXCEPT ![r] = "reading"]
  /\ UNCHANGED demandVars
AddReaderPost(r) ==
  IF r \in readers \/ (conf.maxReaders # 0 /\ Cardinality(readers) >= conf.maxReaders)
  THEN UNCHANGED <<readerVars, demandVars>>
  ELSE /\ readers' = readers \cup {r}
       /\ readerState' = [readerState EXCEPT ![r] = "reading"]
       /\ IF OnDemand(conf) /\ onDemandState = "closing"
          THEN /\ onDemandState' = "ready"
               /\ closeTimer' = FALSE
               /\ UNCHANGED <<onUnDemandHook, readyTimer>>
          ELSE UNCHANGED demandVars

DoAddReader(r) ==
  /\ phase = "running" /\ readerState[r] \in {"idle", "reading"}
  /\ IF stream # "nil"
     THEN /\ AddReaderPost(r)
          /\ UNCHANGED <<handler, heldReaders>>
     ELSE IF OnDemand(conf)
     THEN /\ StartOnDemand
          /\ heldReaders' = Append(heldReaders, r)
          /\ readerState' = [readerState EXCEPT ![r] = "waiting"]
          /\ UNCHANGED readers
     ELSE UNCHANGED <<handler, demandVars, heldReaders, readerVars>>
  /\ UNCHANGED <<conf, ctxDone, heldDescribes, describerState, streamVars, publishVars>>
  /\ StayOrClose(stream = "nil" /\ OnDemand(conf) /\ StartOnDemandPanics)

(* A reader leaves by itself or after the path has closed its session.     *)
DoRemoveReader(r) ==
  /\ phase = "running" /\ readerState[r] \in {"reading", "kicked"}
  /\ readers' = readers \ {r}
  /\ readerState' = [readerState EXCEPT ![r] = "idle"]
  /\ IF readers' = {} /\ OnDemand(conf) /\ onDemandState = "ready"
     THEN ScheduleClose
     ELSE UNCHANGED demandVars
  /\ UNCHANGED <<conf, ctxDone, handler, streamVars, holdVars, publishVars>>
  /\ Stay(FALSE)

(* A publisher arrives.  One that is there is closed and removed first, if *)
(* the configuration lets it be overridden.                                *)
AddPublisherAccepted == conf.source = "publisher" /\ (publisher = Nil \/ conf.overridePublisher)
Overridden == publisher # Nil /\ stream # "nil"

DoAddPublisher(p, ok) ==
  LET present == IF Overridden THEN {} ELSE readers
      states  == IF Overridden THEN Kicked ELSE readerState
  IN /\ phase = "running" /\ publisherState[p] = "idle"
     /\ AddPublisherAccepted
     /\ SetReady(ok, IF Overridden THEN Nil ELSE recorder,
                     IF Overridden THEN "spent" ELSE onNotReadyHook)
     /\ publisher' = IF ok THEN p ELSE Nil
     /\ publisherState' = [q \in Publishers |->
                             IF q = p THEN IF ok THEN "publishing" ELSE "idle"
                             ELSE IF q = publisher /\ publisherState[q] = "publishing"
                             THEN "kicked" ELSE publisherState[q]]
     /\ IF ok
        THEN /\ ConsumeOnHoldRequests(present, states)
             /\ IF HasOnDemandPublisher(conf) /\ onDemandState # "initial"
                THEN OnDemandReady(present)
                ELSE UNCHANGED demandVars
        ELSE /\ readers' = present
             /\ readerState' = states
             /\ UNCHANGED <<demandVars, holdVars>>
     /\ UNCHANGED <<conf, ctxDone, handler>>
     /\ Stay(Overridden /\ NotReadyPanics)

DoRemovePublisher(p) ==
  /\ phase = "running" /\ publisherState[p] \in {"publishing", "kicked"}
  /\ publisherState' = [publisherState EXCEPT ![p] = "idle"]
  /\ IF publisher = p
     THEN /\ publisher' = Nil
          /\ IF stream # "nil" THEN SetNotReady ELSE UNCHANGED <<streamVars, readerVars>>
     ELSE UNCHANGED <<publisher, streamVars, readerVars>>
  /\ UNCHANGED <<conf, ctxDone, handler, demandVars, holdVars>>
  /\ StayOrClose(publisher = p /\ stream # "nil" /\ NotReadyPanics)

-----------------------------------------------------------------------------
(***************************************************************************)
(* Termination.                                                            *)
(***************************************************************************)

(* close(), by the path manager.                                           *)
Close ==
  /\ ~ctxDone
  /\ phase = "running"
  /\ ctxDone' = TRUE
  /\ UNCHANGED <<conf, phase, handler, streamVars, demandVars, holdVars,
                 readerVars, publishVars>>

(* The loop sees its context done.                                         *)
Terminate ==
  /\ phase = "running" /\ ctxDone
  /\ phase' = "closing"
  /\ UNCHANGED <<conf, ctxDone, handler, streamVars, demandVars, holdVars,
                 readerVars, publishVars>>

(* The rest of run(), after runInner().                                    *)
HandlerMustClose_Always == HasStaticSource(conf)
HandlerMustClose == HasStaticSource(conf) /\ (~OnDemand(conf) \/ onDemandState # "initial")

Cleanup ==
  /\ phase = "closing"
  /\ ctxDone' = TRUE
  /\ readyTimer' = FALSE
  /\ closeTimer' = FALSE
  /\ RejectOnHold(IF stream # "nil" THEN Kicked ELSE readerState)
  /\ IF stream # "nil"
     THEN StreamDown /\ readers' = {}
     ELSE UNCHANGED <<streamVars, readers>>
  /\ handler' = IF HandlerMustClose THEN "stopped" ELSE handler
  /\ publisherState' =
       [p \in Publishers |-> IF p = publisher /\ publisherState[p] = "publishing"
                             THEN "kicked" ELSE publisherState[p]]
  /\ onUnDemandHook' = FALSE
  /\ phase' = IF \/ stream # "nil" /\ NotReadyPanics
                 \/ HandlerMustClose /\ StopPanics
              THEN "panicked" ELSE "closed"
  /\ UNCHANGED <<conf, publisher, onDemandState>>

(* A call that finds the context done returns by itself, without the loop  *)
(* knowing: the session is gone and the path still lists it.               *)
DescribeTerminated(d) ==
  /\ ctxDone /\ describerState[d] # "waiting"
  /\ describerState' = [describerState EXCEPT ![d] = "error"]
  /\ UNCHANGED <<conf, phase, ctxDone, handler, streamVars, demandVars, heldDescribes,
                 heldReaders, readerVars, publishVars>>

RemoveReaderTerminated(r) ==
  /\ ctxDone /\ readerState[r] \in {"reading", "kicked"}
  /\ readerState' = [readerState EXCEPT ![r] = "gone"]
  /\ UNCHANGED <<conf, phase, ctxDone, handler, streamVars, demandVars, holdVars,
                 readers, publishVars>>

RemovePublisherTerminated(p) ==
  /\ ctxDone /\ publisherState[p] \in {"publishing", "kicked"}
  /\ publisherState' = [publisherState EXCEPT ![p] = "gone"]
  /\ UNCHANGED <<conf, phase, ctxDone, handler, streamVars, demandVars, holdVars,
                 readerVars, publisher>>

-----------------------------------------------------------------------------
Outcomes == IF SetReadyMayFail THEN BOOLEAN ELSE {TRUE}

Next ==
  \/ DoOnDemandStaticSourceReadyTimer
  \/ DoOnDemandStaticSourceCloseTimer
  \/ DoOnDemandPublisherReadyTimer
  \/ DoOnDemandPublisherCloseTimer
  \/ \E new \in Confs : DoReloadConf(new)
  \/ \E ok \in Outcomes : DoSourceStaticSetReady(ok)
  \/ DoSourceStaticSetNotReady
  \/ \E d \in Describers : DoDescribe(d) \/ DescribeTerminated(d)
  \/ \E r \in Readers : DoAddReader(r) \/ DoRemoveReader(r) \/ RemoveReaderTerminated(r)
  \/ \E p \in Publishers, ok \in Outcomes : DoAddPublisher(p, ok)
  \/ \E p \in Publishers : DoRemovePublisher(p) \/ RemovePublisherTerminated(p)
  \/ Close
  \/ Terminate
  \/ Cleanup

Spec == Init /\ [][Next]_vars

(***************************************************************************)
(* The timers expire, the goroutine of the path runs, the sessions that    *)
(* the path has closed end.  Go's select picks at random among the cases   *)
(* that are ready, so a case that stays ready is taken.  Clients and       *)
(* sources are free never to act.                                          *)
(***************************************************************************)
Fairness ==
  /\ WF_vars(DoOnDemandStaticSourceReadyTimer)
  /\ WF_vars(DoOnDemandStaticSourceCloseTimer)
  /\ WF_vars(DoOnDemandPublisherReadyTimer)
  /\ WF_vars(DoOnDemandPublisherCloseTimer)
  /\ WF_vars(Terminate)
  /\ WF_vars(Cleanup)
  /\ \A r \in Readers :
       /\ WF_vars(readerState[r] = "kicked" /\ DoRemoveReader(r))
       /\ WF_vars(readerState[r] = "kicked" /\ RemoveReaderTerminated(r))

FairSpec == Spec /\ Fairness
-----------------------------------------------------------------------------
(***************************************************************************)
(* Properties.                                                             *)
(***************************************************************************)

(* A request the path has not answered yet is on hold, and only such a     *)
(* request is: none is dropped, answered twice or kept after its answer    *)
(* (doDescribe, doAddReader, consumeOnHoldRequests, the ready timers and   *)
(* the end of run()).                                                      *)
HeldExactlyOnce ==
  /\ heldDescribes = {d \in Describers : describerState[d] = "waiting"}
  /\ OnHold = {r \in Readers : readerState[r] = "waiting"}
  /\ \A i, j \in DOMAIN heldReaders : heldReaders[i] = heldReaders[j] => i = j

(* A session that was told it reads is one the path will close when the    *)
(* stream goes away, and the path has a usable stream for it: readers are  *)
(* tracked through setNotReady, overridden publishers and reloads.         *)
ReadersHaveStream ==
  /\ {r \in Readers : readerState[r] = "reading"} \subseteq readers
  /\ phase = "running" /\ readers # {} => stream = "ok"
  /\ \A r \in readers : readerState[r] \in {"reading", "gone"}

(* The two calls that would crash the server are never reached: Start of a *)
(* static source that runs or Stop of one that does not ("should not       *)
(* happen" in staticsources/handler.go), and a not-ready or un-demand hook *)
(* that is nil or was called already.                                      *)
NeverPanics == phase # "panicked"

(* A static source runs exactly while the path wants it: always, or from   *)
(* the first demand until the close timer, the start timeout or an error;  *)
(* and the stream exists exactly while the running instance is ready.      *)
StaticSourceFollowsDemand ==
  phase = "running" /\ HasStaticSource(conf) =>
    /\ (handler = "stopped") = (OnDemand(conf) /\ onDemandState = "initial")
    /\ (handler = "ready") = (stream # "nil")

(* Every state of an on-demand source other than "ready" has the one timer *)
(* that ends it, and "ready" is only left to a path with readers when the  *)
(* source is static: no on-demand source is up with nobody to stop it.     *)
DemandIsBounded ==
  phase = "running" =>
    /\ readyTimer = (onDemandState = "waiting")
    /\ closeTimer = (onDemandState = "closing")
    /\ closeTimer => readers = {}
    /\ HasStaticSource(conf) /\ onDemandState = "ready" => readers # {}
    /\ HasOnDemandPublisher(conf) => onUnDemandHook = (onDemandState # "initial")

(* maxReaders holds whatever the order in which held and new readers, an   *)
(* override and departures come.                                           *)
ReadersWithinLimit ==
  conf.maxReaders # 0 => Cardinality(readers) <= conf.maxReaders

(* mediamtx.yml on the start timeouts: readers are put on hold until the   *)
(* source is ready or the timeout has passed.  So whoever is on hold has a *)
(* start timeout running.  The code does not keep it, see the README.      *)
HeldUntilTimeout ==
  phase = "running" /\ (heldDescribes # {} \/ heldReaders # <<>>) => readyTimer

(* mediamtx.yml on runOnReady: the command runs when the stream is ready   *)
(* to be read.  So a path that reports itself ready has called the hook.   *)
(* The code does not keep it, see the README.                              *)
ReadyHookRan == phase = "running" /\ stream # "nil" => onNotReadyHook = "armed"

(* A path created for a regular expression does not outlive its last user: *)
(* the step that removes the last one ends the loop, unless a reload has   *)
(* just turned the path into one of a regular expression.                  *)
NoUnusedPathLeft ==
  [][~ShouldClose /\ ShouldClose' /\ conf' = conf => phase' # "running"]_vars

(* Every request on hold is answered, by the source or by the timeout.     *)
HeldIsAnswered ==
  /\ \A d \in Describers : describerState[d] = "waiting" ~> describerState[d] # "waiting"
  /\ \A r \in Readers : readerState[r] = "waiting" ~> readerState[r] # "waiting"

(* An on-demand source or command does not stay up without readers.        *)
DemandEnds ==
  /\ handler # "stopped" /\ OnDemand(conf) ~> (handler = "stopped" \/ readers # {})
  /\ onUnDemandHook ~> (~onUnDemandHook \/ readers # {})

(* Cancelling the path ends it and releases everybody it serves, but for   *)
(* the crash that ReadyHookRan leads to.                                   *)
CancelEnds ==
  ctxDone ~> \/ /\ phase = "closed"
                /\ \A r \in Readers : readerState[r] \in {"idle", "gone"}
             \/ phase = "panicked" /\ SetReadyMayFail

(* Nobody waits for ever for a path: neither on hold nor for its end.      *)
NobodyWaitsForever == HeldIsAnswered /\ CancelEnds

(* Seen by its readers the path is the service of PathService, where the   *)
(* stream is up while it is set and initialized.                           *)
Service == INSTANCE PathService
             WITH Clients <- Readers, up <- (stream = "ok"), client <- readerState
ImplementsService == Service!Spec
=============================================================================
