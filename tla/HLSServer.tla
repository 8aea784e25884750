------------------------------ MODULE HLSServer ------------------------------
(***************************************************************************)
(* The HLS server (servers/hls/server.go) and its muxers (muxer.go), next  *)
(* to the path manager and the paths of PathManager.                       *)
(*                                                                         *)
(* Three kinds of goroutines call each other: the manager calls the server *)
(* (PathReady, PathNotReady), the server calls the manager (SetHLSServer), *)
(* and each muxer calls the manager and a path to become a reader          *)
(* (AddReader), the path when it leaves (RemoveReader) and the server when *)
(* it ends (closeMuxer).  A path that loses its stream cancels the         *)
(* contexts of the muxers that read it.                                    *)
(*                                                                         *)
(* A muxer is a client of the manager; a muxer object is used again when   *)
(* its goroutine has ended.                                                *)
(***************************************************************************)
EXTENDS PathManager

CONSTANTS
  Muxers,        (* muxer objects; as many as may exist at a time          *)
  RemuxSettings  (* values of hlsAlwaysRemux that servers are created with *)

ASSUME MuxersAreClients == Muxers \subseteq Clients /\ Nil \notin Muxers
ASSUME RemuxSettingsAreBooleans == RemuxSettings \subseteq BOOLEAN

VARIABLES
  serverState,  (* "off" | "attaching" (SetHLSServer) | "creating" (muxers *)
                (* of paths that are ready) | "running" | "detaching"      *)
                (* (SetHLSServer(nil)) | "ended"                           *)
  alwaysRemux,  (* s.AlwaysRemux                                           *)
  serverDone,   (* s.ctx is cancelled                                      *)
  readyPaths,   (* answer of SetHLSServer not looked at yet                *)
  muxers,       (* s.muxers: name -> muxer, or Nil                         *)
  muxerName,    (* pathName                                                *)
  requested,    (* remoteAddr # "": created by a request                   *)
  muxerDone,    (* m.ctx is cancelled by Close() or run()                  *)
  muxerStep     (* where the goroutine of the muxer is, see MuxerSteps     *)

MuxerSteps ==
  {"none",      (* not in use                                              *)
   "asking",    (* in pathManager.AddReader, before the manager answered   *)
   "adding",    (* in path.addReader                                       *)
   "reading",   (* in the select of runInner                               *)
   "removing",  (* in path.RemoveReader                                    *)
   "closeCall"} (* in parent.closeMuxer                                    *)

muxerVars  == <<muxerName, requested, muxerDone, muxerStep>>
serverVars == <<serverState, alwaysRemux, serverDone, readyPaths, muxers>>
hlsVars    == <<serverVars, muxerVars>>
allVars    == <<vars, hlsVars>>

MuxerDone(m) == muxerDone[m] \/ serverDone

HLSTypeOK ==
  /\ TypeOK
  /\ serverState \in {"off", "attaching", "creating", "running", "detaching", "ended"}
  /\ alwaysRemux \in BOOLEAN
  /\ serverDone \in BOOLEAN
  /\ readyPaths \in SUBSET Names
  /\ muxers \in [Names -> Muxers \cup {Nil}]
  /\ muxerName \in [Muxers -> Names \cup {Nil}]
  /\ requested \in [Muxers -> BOOLEAN]
  /\ muxerDone \in [Muxers -> BOOLEAN]
  /\ muxerStep \in [Muxers -> MuxerSteps]
  /\ \A m \in Muxers : (muxerName[m] = Nil) = (muxerStep[m] = "none")

HLSInit ==
  /\ Init
  /\ serverState = "off"
  /\ alwaysRemux = FALSE
  /\ serverDone = FALSE
  /\ readyPaths = {}
  /\ muxers = [n \in Names |-> Nil]
  /\ muxerName = [m \in Muxers |-> Nil]
  /\ requested = [m \in Muxers |-> FALSE]
  /\ muxerDone = [m \in Muxers |-> FALSE]
  /\ muxerStep = [m \in Muxers |-> "none"]

-----------------------------------------------------------------------------
(***************************************************************************)
(* The server.                                                             *)
(***************************************************************************)

CreateMuxer(n, byRequest) ==
  \E m \in Muxers :
    /\ muxerStep[m] = "none" /\ \A k \in Names : muxers[k] # m
    /\ muxers' = [muxers EXCEPT ![n] = m]
    /\ muxerName' = [muxerName EXCEPT ![m] = n]
    /\ requested' = [requested EXCEPT ![m] = byRequest]
    /\ muxerDone' = [muxerDone EXCEPT ![m] = FALSE]
    /\ muxerStep' = [muxerStep EXCEPT ![m] = "asking"]

CreateMuxerIfNone(n) ==
  IF alwaysRemux /\ muxers[n] = Nil THEN CreateMuxer(n, FALSE)
  ELSE UNCHANGED <<muxers, muxerVars>>

(* Core creates a server; the one before, if any, has ended with all its   *)
(* muxers.                                                                 *)
Initialize ==
  /\ serverState \in {"off", "ended"} /\ \A m \in Muxers : muxerStep[m] = "none"
  /\ ~pmCtxDone
  /\ serverState' = "attaching"
  /\ alwaysRemux' \in RemuxSettings
  /\ serverDone' = FALSE
  /\ muxers' = [n \in Names |-> Nil]
  /\ UNCHANGED <<vars, readyPaths, muxerVars>>

Attach ==
  /\ serverState = "attaching"
  /\ \/ SetHLSServer(TRUE) /\ readyPaths' = {n \in Names : ready[n]}
     \/ pmCtxDone /\ readyPaths' = {} /\ UNCHANGED vars
  /\ serverState' = "creating"
  /\ UNCHANGED <<alwaysRemux, serverDone, muxers, muxerVars>>
RemuxReadyPath(n) ==
  /\ serverState = "creating" /\ n \in readyPaths
  /\ readyPaths' = readyPaths \ {n}
  /\ CreateMuxerIfNone(n)
  /\ UNCHANGED <<vars, serverState, alwaysRemux, serverDone>>

EnterLoop ==
  /\ serverState = "creating" /\ readyPaths = {}
  /\ serverState' = "running"
  /\ UNCHANGED <<vars, alwaysRemux, serverDone, readyPaths, muxers, muxerVars>>

(* The loop takes the notice of the manager ...                            *)
TakePathReady ==
  /\ serverState = "running"
  /\ NotifyReturns /\ notice[2]
  /\ CreateMuxerIfNone(notice[1])
  /\ UNCHANGED <<serverState, alwaysRemux, serverDone, readyPaths>>

TakePathNotReady_KeepsMuxer ==
  /\ serverState = "running"
  /\ NotifyReturns /\ ~notice[2]
  /\ UNCHANGED hlsVars
TakePathNotReady ==
  LET m == muxers[notice[1]]
  IN /\ serverState = "running"
     /\ NotifyReturns /\ ~notice[2]
     /\ IF m # Nil /\ ~requested[m]
        THEN /\ muxers' = [muxers EXCEPT ![notice[1]] = Nil]
             /\ muxerDone' = [muxerDone EXCEPT ![m] = TRUE]
        ELSE UNCHANGED <<muxers, muxerDone>>
     /\ UNCHANGED <<serverState, alwaysRemux, serverDone, readyPaths, muxerName, requested, muxerStep>>

(* ... or the call gives up, as the context of the server is done.         *)
NoticeDropped ==
  /\ serverDone
  /\ NotifyReturns
  /\ UNCHANGED hlsVars

(* A request for a path that has no muxer creates one, unless all muxers   *)
(* are created in advance: then the request fails.                         *)
GetMuxer(n) ==
  /\ serverState = "running"
  /\ muxers[n] = Nil /\ ~alwaysRemux
  /\ CreateMuxer(n, TRUE)
  /\ UNCHANGED <<vars, serverState, alwaysRemux, serverDone, readyPaths>>

DoCloseMuxer(m) ==
  muxers' = IF muxers[muxerName[m]] = m THEN [muxers EXCEPT ![muxerName[m]] = Nil] ELSE muxers

(* Close(): the caller then waits for the server and for its muxers.       *)
CloseServer ==
  /\ serverState \notin {"off", "ended"} /\ ~serverDone
  /\ serverDone' = TRUE
  /\ UNCHANGED <<vars, serverState, alwaysRemux, readyPaths, muxers, muxerVars>>

LeaveLoop ==
  /\ serverState = "running" /\ serverDone
  /\ serverState' = "detaching"
  /\ UNCHANGED <<vars, alwaysRemux, serverDone, readyPaths, muxers, muxerVars>>

Detach ==
  /\ serverState = "detaching"
  /\ SetHLSServer(FALSE) \/ (pmCtxDone /\ UNCHANGED vars)
  /\ serverState' = "ended"
  /\ UNCHANGED <<alwaysRemux, serverDone, readyPaths, muxers, muxerVars>>

-----------------------------------------------------------------------------
(***************************************************************************)
(* The muxers.                                                             *)
(***************************************************************************)

(* run() after runInner: the context is cancelled and closeMuxer called.   *)
EndMuxer(m) ==
  /\ muxerStep' = [muxerStep EXCEPT ![m] = "closeCall"]
  /\ muxerDone' = [muxerDone EXCEPT ![m] = TRUE]
  /\ UNCHANGED <<serverVars, muxerName, requested>>

Goto(m, s) ==
  /\ muxerStep' = [muxerStep EXCEPT ![m] = s]
  /\ UNCHANGED <<serverVars, muxerName, requested, muxerDone>>

AskManager(m) ==
  /\ muxerStep[m] = "asking"
  /\ \/ /\ Request(m, muxerName[m])
        /\ Goto(m, "adding")
     \/ /\ \/ pmState = "idle" /\ ~IsConfigured(pathConfs, muxerName[m])
           \/ pmCtxDone
        /\ UNCHANGED vars
        /\ EndMuxer(m)

(* addReader: a path that has no stream refuses.                           *)
JoinPath(m) ==
  LET i == asked[m]
  IN /\ muxerStep[m] = "adding"
     /\ \/ /\ step[i] = "running" /\ stream[i]
           /\ used' = [used EXCEPT ![i] = TRUE]
           /\ UNCHANGED <<pmVars, name, conf, ctxDone, stream, step, reloads, asked>>
           /\ Goto(m, "reading")
        \/ /\ \/ /\ step[i] = "running" /\ ~stream[i]
                 /\ step' = [step EXCEPT ![i] = AfterHandler(i, used[i])]
              \/ /\ CtxDone(i)
                 /\ UNCHANGED step
           /\ asked' = [asked EXCEPT ![m] = Nil]
           /\ UNCHANGED <<pmVars, name, conf, ctxDone, used, stream, reloads>>
           /\ EndMuxer(m)

(* The context is done, or a requested muxer is not used any more or       *)
(* cannot go on.                                                           *)
LeavePath(m) ==
  /\ muxerStep[m] = "reading"
  /\ MuxerDone(m) \/ requested[m]
  /\ UNCHANGED vars
  /\ Goto(m, "removing")

RemoveReader_NoCtx(m) ==
  /\ muxerStep[m] = "removing"
  /\ step[asked[m]] = "running"
  /\ asked' = [asked EXCEPT ![m] = Nil]
  /\ UNCHANGED <<pmVars, pathVars, reloads>>
  /\ EndMuxer(m)
RemoveReader(m) ==
  /\ muxerStep[m] = "removing"
  /\ step[asked[m]] = "running" \/ CtxDone(asked[m])
  /\ asked' = [asked EXCEPT ![m] = Nil]
  /\ UNCHANGED <<pmVars, pathVars, reloads>>
  /\ EndMuxer(m)

CloseMuxer(m) ==
  /\ muxerStep[m] = "closeCall"
  /\ \/ serverState = "running" /\ DoCloseMuxer(m)
     \/ serverDone /\ UNCHANGED muxers
  /\ muxerStep' = [muxerStep EXCEPT ![m] = "none"]
  /\ muxerName' = [muxerName EXCEPT ![m] = Nil]
  /\ requested' = [requested EXCEPT ![m] = FALSE]
  /\ UNCHANGED <<vars, serverState, alwaysRemux, serverDone, readyPaths, muxerDone>>

MuxerNext(m) ==
  \/ AskManager(m)
  \/ JoinPath(m)
  \/ LeavePath(m)
  \/ RemoveReader(m)
  \/ CloseMuxer(m)

-----------------------------------------------------------------------------
(* setNotReady closes the readers of the path.                             *)
StreamEnds(i) == step[i] \in {"notReadyCall", "overrideCall", "finalCall"}
CloseReaders_None(i) == UNCHANGED hlsVars
CloseReaders(i) ==
  /\ muxerDone' = [m \in Muxers |->
       muxerDone[m] \/ (asked[m] = i /\ muxerStep[m] \in {"reading", "removing"})]
  /\ UNCHANGED <<serverVars, muxerName, requested, muxerStep>>

ServerNext ==
  \/ Initialize
  \/ Attach
  \/ \E n \in Names : RemuxReadyPath(n) \/ GetMuxer(n)
  \/ EnterLoop
  \/ TakePathReady
  \/ TakePathNotReady
  \/ NoticeDropped
  \/ CloseServer
  \/ LeaveLoop
  \/ Detach

PathCallAndReaders(i) ==
  /\ PathCall(i)
  /\ IF StreamEnds(i) THEN CloseReaders(i) ELSE UNCHANGED hlsVars

(* The bound: a stream starts only while a muxer object is free for it.    *)
Room == \E m \in Muxers : muxerStep[m] = "none" /\ \A n \in Names : muxers[n] # m
RoomForStream ==
  Room \/ \A i \in Ids : step'[i] \in {"readyCall", "overrideCall"} => step'[i] = step[i]

HLSNext ==
  \/ ServerNext
  \/ \E m \in Muxers : MuxerNext(m)
  \/ \E i \in Ids : PathCallAndReaders(i)
  \/ ManagerNext /\ RoomForStream /\ UNCHANGED hlsVars
  \/ \E c \in Clients \ Muxers : ClientNext(c) /\ RoomForStream /\ UNCHANGED hlsVars

HLSSpec == HLSInit /\ [][HLSNext]_allVars

(***************************************************************************)
(* As in PathManager, and: the server and the muxers run.  A call that     *)
(* waits for a goroutine which returns to its select again and again is    *)
(* taken some time (strong fairness).                                      *)
(***************************************************************************)
HLSFairness ==
  /\ ManagerFairness
  /\ SF_allVars(Attach)
  /\ WF_allVars(\E n \in Names : RemuxReadyPath(n))
  /\ WF_allVars(EnterLoop)
  /\ SF_allVars(TakePathReady \/ TakePathNotReady \/ NoticeDropped)
  /\ WF_allVars(LeaveLoop)
  /\ SF_allVars(Detach)
  /\ \A m \in Muxers :
       /\ SF_allVars(AskManager(m) \/ JoinPath(m) \/ RemoveReader(m))
       /\ WF_allVars(MuxerDone(m) /\ LeavePath(m))
       /\ WF_allVars(CloseMuxer(m))

HLSFairSpec == HLSSpec /\ HLSFairness
-----------------------------------------------------------------------------
(***************************************************************************)
(* Properties.                                                             *)
(***************************************************************************)

(* The server can reach every muxer that is not on its way out, and has no *)
(* two for one path: a muxer that is replaced has been closed before       *)
(* (PathNotReady followed by PathReady, closeMuxer of an old muxer).       *)
LiveMuxersListed ==
  \A m \in Muxers :
    muxerStep[m] \in {"asking", "adding", "reading"} /\ ~MuxerDone(m) =>
      muxers[muxerName[m]] = m

(* A muxer that is not being closed reads a stream that is still there: it *)
(* is never left with the stream of a path that was recreated or whose     *)
(* publisher was replaced.                                                 *)
MuxersReadLiveStreams ==
  \A m \in Muxers :
    muxerStep[m] = "reading" /\ ~MuxerDone(m) =>
      /\ Alive(asked[m]) /\ stream[asked[m]]
      /\ name[asked[m]] = muxerName[m]

(* The table of the server and the paths agree.                            *)
MuxersFollowPaths == LiveMuxersListed /\ MuxersReadLiveStreams

(* mediamtx.yml on hlsAlwaysRemux: this option allows to generate HLS      *)
(* always.  So a path that is ready has a muxer, unless the path or the    *)
(* manager is about to report a change.                                    *)
AlwaysRemuxed ==
  alwaysRemux /\ serverState = "running" /\ ~serverDone /\ pmState = "idle" /\ ~pmCtxDone =>
    \A n \in Names :
      paths[n] # Nil /\ ready[n] /\ step[paths[n]] = "running" /\ ~ctxDone[paths[n]] =>
        muxers[n] # Nil

(* Closing the server ends it and its muxers, whatever the manager and the *)
(* paths are doing.                                                        *)
ServerEnds ==
  serverDone ~> serverState = "ended" /\ \A m \in Muxers : muxerStep[m] = "none"
=============================================================================
