------------------------------ MODULE Sessions ------------------------------
(***************************************************************************)
(* The RTMP, SRT and WebRTC servers (internal/servers/rtmp, srt, webrtc)   *)
(* and their connections or sessions, here all called sessions.            *)
(*                                                                         *)
(* One goroutine per server keeps the table of the sessions and serves the *)
(* listener or the HTTP handlers, the sessions that end and the control    *)
(* API.  One goroutine per session goes straight down a list of steps,     *)
(* deferring what has to be undone; when a step fails, or when the session *)
(* is closed where it can notice it, the deferred calls run in reverse     *)
(* order, and the session tells the server and runs its last hook.         *)
(*                                                                         *)
(* The path and the stream a session uses are here only what they have to  *)
(* be told: the session is listed by its path, registered in its stream.   *)
(* RTMP and SRT run part of the steps in a second goroutine, so that       *)
(* closing the socket can interrupt them: a step that waits for the peer   *)
(* may fail at any time, and a closed session closes the socket.           *)
(***************************************************************************)
EXTENDS Commands, Sequences

CONSTANTS
  Clients,    (* connections and sessions that may come                    *)
  Patches,    (* HTTP handlers that add ICE candidates                     *)
  Settings,   (* [kind, hookConf, wants] of servers and of who comes       *)
  Nil

ASSUME SettingsAssumption ==
  Settings \subseteq [kind : {"rtmp", "srt", "webrtc"}, hookConf : HookConfs,
                      wants : [Clients -> SUBSET {"read", "publish"}]]

VARIABLES
  kind,        (* which of the three servers                               *)
  wants,       (* client -> what it comes for, if it comes                 *)
  serverAt,    (* "select" (run()) | "left" (the loop) | "ended" (Close    *)
               (* returned)                                                *)
  serverDone,  (* s.ctx is cancelled                                       *)
  closing,     (* core has called Close()                                  *)
  listener,    (* "accepting" | "offering" (newConn) | "failing"           *)
               (* (acceptError) | "ended"                                  *)
  offered,     (* the connection that is offered, or Nil                   *)
  table,       (* s.conns, or s.sessions and s.sessionsBySecret            *)
  at,          (* session -> where its goroutine is, see Places            *)
  step,        (* session -> index of the step it is in                    *)
  role,        (* session -> "read" | "publish"                            *)
  deferred,    (* session -> what its deferred calls will undo             *)
  ctxDone,     (* sessions whose own context is cancelled                  *)
  status,      (* sessions that ended with an HTTP status                  *)
  post,        (* session -> HTTP handler that asked for it, see Posts     *)
  candidates,  (* session -> goroutine readRemoteCandidates                *)
  patch,       (* handler -> [at, of]                                      *)
  listed,      (* sessions the path has as its publisher or readers        *)
  registered   (* session -> "no" | "paused" | "running" in the stream     *)

serverVars  == <<kind, wants, serverAt, serverDone, closing, listener, offered, table>>
sessionVars == <<at, step, role, deferred, ctxDone, status>>
httpVars    == <<post, candidates, patch>>
pathVars    == <<listed, registered>>
vars == <<serverVars, sessionVars, httpVars, pathVars, commandVars>>

Places ==
  {"none",     (* not there yet                                            *)
   "run",      (* in step[s]                                               *)
   "pause",    (* <-time.After(auth.PauseAfterError)                       *)
   "unwind",   (* running the deferred calls                               *)
   "reply",    (* webrtc: answering the handler with an error              *)
   "leave",    (* in parent.closeConn, parent.closeSession                 *)
   "last",     (* running onDisconnectHook                                 *)
   "gone"}     (* wg.Done                                                  *)

Posts ==
  {"none", "queued" (* for the server *), "offer" (* in sx.new *),
   "wait" (* for req.res *), "answered", "error", "terminated"}

TypeOK ==
  /\ CommandsTypeOK
  /\ [kind |-> kind, hookConf |-> hookConf, wants |-> wants] \in Settings
  /\ serverAt \in {"select", "left", "ended"}
  /\ serverDone \in BOOLEAN /\ closing \in BOOLEAN
  /\ listener \in {"accepting", "offering", "failing", "ended"}
  /\ offered \in Clients \cup {Nil}
  /\ table \subseteq Clients /\ listed \subseteq Clients
  /\ ctxDone \subseteq Clients /\ status \subseteq Clients
  /\ at \in [Clients -> Places]
  /\ step \in [Clients -> 1..10]
  /\ role \in [Clients -> {"read", "publish"}]
  /\ post \in [Clients -> Posts]
  /\ candidates \in [Clients -> {"none", "select", "blocked", "ended"}]
  /\ patch \in [Patches -> [at : {"idle", "lookup", "send"}, of : Clients \cup {Nil}]]
  /\ registered \in [Clients -> {"no", "paused", "running"}]

-----------------------------------------------------------------------------
(* The steps of a session, in the order of the code.                       *)

RTMPRead      == <<"handshake", "addReader", "fromStream", "onRead", "startReader", "serve">>
RTMPPublish   == <<"handshake", "toStream", "addPublisher", "serve">>
SRTRead       == <<"streamID", "addReader", "accept", "fromStream", "onRead", "startReader", "serve">>
SRTPublish    == <<"streamID", "findPathConf", "accept", "toStream", "addPublisher", "serve">>
WebRTCRead    == <<"chNew", "addReader", "fromStream", "start", "answer", "connect",
                   "onRead", "startReader", "serve">>
WebRTCPublish == <<"chNew", "findPathConf", "start", "offer", "answer", "connect",
                   "gather", "addPublisher", "serve">>

Steps(k, r) ==
  CASE k = "rtmp"   -> IF r = "read" THEN RTMPRead ELSE RTMPPublish
    [] k = "srt"    -> IF r = "read" THEN SRTRead ELSE SRTPublish
    [] k = "webrtc" -> IF r = "read" THEN WebRTCRead ELSE WebRTCPublish

In(s, name) == at[s] = "run" /\ Steps(kind, role[s])[step[s]] = name

(* Steps that wait for the peer or for the operating system, and what a    *)
(* deferred call has to undo once they are done.                           *)
PeerSteps == {"handshake", "streamID", "toStream", "accept", "start", "offer", "connect", "gather"}

(* A fault: AddPublisher without its deferred RemovePublisher.              *)
Undo_PublisherKept(s, name) ==
  CASE name = "addReader" -> <<"reader">>
    [] name = "accept"    -> IF role[s] = "read" THEN <<"conn">> ELSE <<>>
    [] name = "onRead"    -> <<"readHook">>
    [] OTHER              -> <<>>

Undo(s, name) ==
  CASE name = "addReader"    -> <<"reader">>
    [] name = "addPublisher" -> <<"publisher">>
    [] name = "accept"       -> IF role[s] = "read" THEN <<"conn">> ELSE <<>>
    [] name = "start"        -> <<"pc">>
    [] name = "onRead"       -> <<"readHook">>
    [] name = "startReader"  -> <<"stream">>
    [] OTHER                 -> <<>>

(* A fault: an error after the answer is handed to the handler, too.        *)
StatusOf_AlsoConnect(name) ==
  kind = "webrtc" /\ name \in {"findPathConf", "addReader", "fromStream", "start", "offer", "answer", "connect"}

(* Until the answer is written, a WebRTC session that fails returns the    *)
(* status code for the handler.                                            *)
StatusOf(name) ==
  kind = "webrtc" /\ name \in {"findPathConf", "addReader", "fromStream", "start", "offer", "answer"}

(* runRead of WebRTC takes the reader out of the stream in the branches of *)
(* these errors, before it has deferred it.                                *)
RemovesReader(name) == kind = "webrtc" /\ name \in {"start", "answer", "connect"}

Cancelled(s) == s \in ctxDone \/ serverDone

Init ==
  /\ \E x \in Settings : kind = x.kind /\ hookConf = x.hookConf /\ wants = x.wants
  /\ CommandsInit
  /\ serverAt = "select" /\ serverDone = FALSE /\ closing = FALSE
  /\ listener = IF kind = "webrtc" THEN "ended" ELSE "accepting"
  /\ offered = Nil
  /\ table = {} /\ listed = {} /\ ctxDone = {} /\ status = {}
  /\ at = [s \in Clients |-> "none"]
  /\ step = [s \in Clients |-> 1]
  /\ role = [s \in Clients |-> "read"]
  /\ deferred = [s \in Clients |-> <<>>]
  /\ post = [s \in Clients |-> "none"]
  /\ candidates = [s \in Clients |-> "none"]
  /\ patch = [p \in Patches |-> [at |-> "idle", of |-> Nil]]
  /\ registered = [s \in Clients |-> "no"]

-----------------------------------------------------------------------------
(* Going on, and going back.                                               *)

UnchangedCommands == UNCHANGED commandVars

Advance(s) ==
  /\ step' = [step EXCEPT ![s] = @ + 1]
  /\ deferred' = [deferred EXCEPT ![s] = Undo(s, Steps(kind, role[s])[step[s]]) \o @]
  /\ UNCHANGED <<at, role, ctxDone, status>>

(* The step fails: the function returns, and the deferred calls run.       *)
Returns(s, name, to) ==
  /\ at' = [at EXCEPT ![s] = to]
  /\ status' = IF StatusOf(name) THEN status \cup {s} ELSE status
  /\ UNCHANGED <<step, role, deferred, ctxDone>>

(* A step of the peer succeeds or fails, at the latest when its deadline   *)
(* has passed; once the session is closed, so is the socket it uses.       *)
PeerStep(s) ==
  \E name \in PeerSteps :
    /\ In(s, name)
    /\ \/ Advance(s) /\ UNCHANGED registered
       \/ /\ Returns(s, name, "unwind")
          /\ registered' = IF RemovesReader(name) /\ role[s] = "read"
                           THEN [registered EXCEPT ![s] = "no"] ELSE registered
  /\ UNCHANGED <<serverVars, httpVars, listed>> /\ UnchangedCommands

(* FindPathConf, AddPublisher, AddReader.  The calls cannot be             *)
(* interrupted; the path answers them, some after a time on hold.  After   *)
(* an error of the authentication RTMP and SRT wait some seconds.          *)
Admit(s, name) ==
  IF name = "addPublisher"
  THEN LET displaced == {o \in listed : role[o] = "publish"}
       IN  /\ listed' = (listed \ displaced) \cup {s}
           /\ ctxDone' = ctxDone \cup displaced
  ELSE /\ listed' = IF name = "addReader" THEN listed \cup {s} ELSE listed
       /\ UNCHANGED ctxDone

PathAnswers(s) ==
  \E name \in {"findPathConf", "addReader", "addPublisher"} :
    /\ In(s, name)
    /\ \/ /\ Admit(s, name)
          /\ step' = [step EXCEPT ![s] = @ + 1]
          /\ deferred' = [deferred EXCEPT ![s] = Undo(s, name) \o @]
          /\ UNCHANGED <<at, role, status>>
       \/ Returns(s, name, "unwind") /\ UNCHANGED listed
       \/ /\ kind # "webrtc" /\ (name = "addPublisher" => kind = "rtmp")
          /\ Returns(s, name, "pause") /\ UNCHANGED listed
  /\ UNCHANGED <<serverVars, httpVars, registered>> /\ UnchangedCommands

PauseOverAfterError(s) ==
  /\ at[s] = "pause"
  /\ at' = [at EXCEPT ![s] = "unwind"]
  /\ UNCHANGED <<serverVars, step, role, deferred, ctxDone, status, httpVars, pathVars>>
  /\ UnchangedCommands

(* FromStream registers a callback per track it can send; it may fail      *)
(* after the first of them, and then leaves it there.                      *)
FromStream(s) ==
  /\ In(s, "fromStream")
  /\ \/ Advance(s) /\ registered' = [registered EXCEPT ![s] = "paused"]
     \/ /\ Returns(s, "fromStream", "unwind")
        /\ \E r \in {"no", "paused"} : registered' = [registered EXCEPT ![s] = r]
  /\ UNCHANGED <<serverVars, httpVars, listed>> /\ UnchangedCommands

OnRead(s) ==
  /\ In(s, "onRead")
  /\ Advance(s)
  /\ commands' = Begin(commands, s, "read")
  /\ UNCHANGED <<serverVars, httpVars, pathVars, hookConf>>

StartReader(s) ==
  /\ In(s, "startReader")
  /\ Advance(s)
  /\ registered' = [registered EXCEPT ![s] = "running"]
  /\ UNCHANGED <<serverVars, httpVars, listed>> /\ UnchangedCommands

(* The last step ends with an error of the peer or of the stream, or with  *)
(* the session.                                                            *)
Serves(s) ==
  /\ In(s, "serve")
  /\ Returns(s, "serve", "unwind")
  /\ UNCHANGED <<serverVars, httpVars, pathVars>> /\ UnchangedCommands

(* One deferred call.  closeConn comes before onDisconnectHook, which      *)
(* run() has deferred first.                                               *)
Unwind(s) ==
  /\ at[s] = "unwind" /\ deferred[s] # <<>>
  /\ LET what == Head(deferred[s])
     IN  /\ listed' = IF what \in {"reader", "publisher"} THEN listed \ {s} ELSE listed
         /\ registered' = IF what = "stream" THEN [registered EXCEPT ![s] = "no"] ELSE registered
         /\ commands' = IF what = "readHook" THEN End(commands, s, "read") ELSE commands
  /\ deferred' = [deferred EXCEPT ![s] = Tail(@)]
  /\ UNCHANGED <<serverVars, at, step, role, ctxDone, status, httpVars, hookConf>>

Unwound(s) ==
  /\ at[s] = "unwind" /\ deferred[s] = <<>>
  /\ at' = [at EXCEPT ![s] = IF s \in status THEN "reply" ELSE "leave"]
  /\ ctxDone' = IF s \in status THEN ctxDone ELSE ctxDone \cup {s}
  /\ UNCHANGED <<serverVars, step, role, deferred, status, httpVars, pathVars>>
  /\ UnchangedCommands

CloseGivesUp(s) ==
  /\ at[s] = "leave" /\ serverDone
  /\ at' = [at EXCEPT ![s] = "last"]
  /\ UNCHANGED <<serverVars, step, role, deferred, ctxDone, status, httpVars, pathVars>>
  /\ UnchangedCommands

OnDisconnect(s) ==
  /\ at[s] = "last"
  /\ commands' = IF kind = "webrtc" THEN commands ELSE End(commands, s, "connect")
  /\ at' = [at EXCEPT ![s] = "gone"]
  /\ UNCHANGED <<serverVars, step, role, deferred, ctxDone, status, httpVars, pathVars, hookConf>>

-----------------------------------------------------------------------------
(* Connections of RTMP and SRT arrive through the listener.                *)

Accept(s) ==
  /\ listener = "accepting" /\ serverAt = "select" /\ at[s] = "none"
  /\ listener' = "offering" /\ offered' = s
  /\ \E r \in wants[s] : role' = [role EXCEPT ![s] = r]
  /\ UNCHANGED <<kind, wants, serverAt, serverDone, closing, table, at, step, deferred, ctxDone,
                 status, httpVars, pathVars>>
  /\ UnchangedCommands

(* Also because the server has closed it.                                  *)
AcceptFails ==
  /\ listener = "accepting"
  /\ listener' = "failing"
  /\ UNCHANGED <<kind, wants, serverAt, serverDone, closing, offered, table, sessionVars, httpVars, pathVars>>
  /\ UnchangedCommands

NewConn ==
  /\ serverAt = "select" /\ listener = "offering"
  /\ table' = table \cup {offered}
  /\ at' = [at EXCEPT ![offered] = "run"]
  /\ commands' = Begin(commands, offered, "connect")
  /\ listener' = "accepting" /\ offered' = Nil
  /\ UNCHANGED <<kind, wants, serverAt, serverDone, closing, step, role, deferred, ctxDone, status,
                 httpVars, pathVars, hookConf>>

NewConnGivesUp ==
  /\ serverDone /\ listener = "offering"
  /\ at' = [at EXCEPT ![offered] = "gone"]
  /\ listener' = "accepting" /\ offered' = Nil
  /\ UNCHANGED <<kind, wants, serverAt, serverDone, closing, table, step, role, deferred, ctxDone, status,
                 httpVars, pathVars>>
  /\ UnchangedCommands

(* An error of the listener ends the loop, and every connection with it.   *)
AcceptError ==
  /\ listener = "failing"
  /\ \/ serverAt = "select" /\ serverAt' = "left" /\ serverDone' = TRUE
     \/ serverDone /\ UNCHANGED <<serverAt, serverDone>>
  /\ listener' = "ended"
  /\ UNCHANGED <<kind, wants, closing, offered, table, sessionVars, httpVars, pathVars>>
  /\ UnchangedCommands

-----------------------------------------------------------------------------
(* WebRTC: the HTTP handlers.                                              *)

OnWHIPPost(s) ==
  /\ kind = "webrtc" /\ serverAt # "ended" /\ post[s] = "none"
  /\ post' = [post EXCEPT ![s] = "queued"]
  /\ \E r \in wants[s] : role' = [role EXCEPT ![s] = r]
  /\ UNCHANGED <<serverVars, at, step, deferred, ctxDone, status, candidates, patch, pathVars>>
  /\ UnchangedCommands

NewSession(s) ==
  /\ serverAt = "select" /\ post[s] = "queued"
  /\ table' = table \cup {s}
  /\ at' = [at EXCEPT ![s] = "run"]
  /\ post' = [post EXCEPT ![s] = "offer"]
  /\ UNCHANGED <<kind, wants, serverAt, serverDone, closing, listener, offered, step, role, deferred,
                 ctxDone, status, candidates, patch, pathVars>>
  /\ UnchangedCommands

(* A fault: the handler does not look at the context of the session.        *)
NewGivesUp_ServerOnly(s) ==
  /\ post[s] = "queued" /\ serverDone
  /\ post' = [post EXCEPT ![s] = "terminated"]
  /\ UNCHANGED <<serverVars, sessionVars, candidates, patch, pathVars>>
  /\ UnchangedCommands

NewGivesUp(s) ==
  /\ \/ post[s] = "queued" /\ serverDone
     \/ post[s] = "offer" /\ Cancelled(s)
  /\ post' = [post EXCEPT ![s] = "terminated"]
  /\ UNCHANGED <<serverVars, sessionVars, candidates, patch, pathVars>>
  /\ UnchangedCommands

ChNew(s) ==
  /\ In(s, "chNew")
  /\ \/ post[s] = "offer" /\ Advance(s) /\ post' = [post EXCEPT ![s] = "wait"]
     \/ Cancelled(s) /\ Returns(s, "chNew", "unwind") /\ UNCHANGED post
  /\ UNCHANGED <<serverVars, candidates, patch, pathVars>>
  /\ UnchangedCommands

(* CreateFullAnswer, writeAnswer (which waits for the handler), and the    *)
(* goroutine that takes the candidates.                                    *)
Answer(s) ==
  /\ In(s, "answer")
  /\ \/ /\ post[s] = "wait" /\ Advance(s)
        /\ post' = [post EXCEPT ![s] = "answered"]
        /\ candidates' = [candidates EXCEPT ![s] = "select"]
        /\ UNCHANGED registered
     \/ /\ Returns(s, "answer", "unwind")
        /\ registered' = IF role[s] = "read" THEN [registered EXCEPT ![s] = "no"] ELSE registered
        /\ UNCHANGED <<post, candidates>>
  /\ UNCHANGED <<serverVars, patch, listed>> /\ UnchangedCommands

ReplyError(s) ==
  /\ at[s] = "reply" /\ post[s] = "wait"
  /\ post' = [post EXCEPT ![s] = "error"]
  /\ at' = [at EXCEPT ![s] = "leave"]
  /\ ctxDone' = ctxDone \cup {s}
  /\ UNCHANGED <<serverVars, step, role, deferred, status, candidates, patch, pathVars>>
  /\ UnchangedCommands

(* The secret of a session is known once it has been answered.             *)
OnWHIPPatch(p, s) ==
  /\ patch[p].at = "idle" /\ post[s] = "answered" /\ serverAt # "ended"
  /\ patch' = [patch EXCEPT ![p] = [at |-> "lookup", of |-> s]]
  /\ UNCHANGED <<serverVars, sessionVars, post, candidates, pathVars>> /\ UnchangedCommands

AddSessionCandidates(p) ==
  /\ patch[p].at = "lookup"
  /\ \/ serverAt = "select" /\ patch[p].of \in table /\ patch' = [patch EXCEPT ![p].at = "send"]
     \/ /\ serverDone \/ (serverAt = "select" /\ patch[p].of \notin table)
        /\ patch' = [patch EXCEPT ![p] = [at |-> "idle", of |-> Nil]]
  /\ UNCHANGED <<serverVars, sessionVars, post, candidates, pathVars>> /\ UnchangedCommands

(* readRemoteCandidates.  For a candidate that is refused it answers the   *)
(* request, and then it answers it again.                                  *)
AddCandidates(p) ==
  /\ patch[p].at = "send"
  /\ \/ /\ candidates[patch[p].of] = "select"
        /\ \E c \in {"select", "blocked"} : candidates' = [candidates EXCEPT ![patch[p].of] = c]
     \/ Cancelled(patch[p].of) /\ UNCHANGED candidates
  /\ patch' = [patch EXCEPT ![p] = [at |-> "idle", of |-> Nil]]
  /\ UNCHANGED <<serverVars, sessionVars, post, pathVars>> /\ UnchangedCommands

CandidatesEnd(s) ==
  /\ candidates[s] = "select" /\ Cancelled(s)
  /\ candidates' = [candidates EXCEPT ![s] = "ended"]
  /\ UNCHANGED <<serverVars, sessionVars, post, patch, pathVars>> /\ UnchangedCommands

-----------------------------------------------------------------------------
(* The server, seen by its sessions, the API, the path and core.           *)

CloseConn(s) ==
  /\ serverAt = "select" /\ at[s] = "leave"
  /\ table' = table \ {s}
  /\ at' = [at EXCEPT ![s] = "last"]
  /\ UNCHANGED <<kind, wants, serverAt, serverDone, closing, listener, offered, step, role, deferred,
                 ctxDone, status, httpVars, pathVars>>
  /\ UnchangedCommands

(* APIConnsKick, APISessionsKick, and DELETE for WebRTC.                   *)
Kick(s) ==
  /\ serverAt = "select" /\ s \in table
  /\ table' = table \ {s}
  /\ ctxDone' = ctxDone \cup {s}
  /\ UNCHANGED <<kind, wants, serverAt, serverDone, closing, listener, offered, at, step, role, deferred,
                 status, httpVars, pathVars>>
  /\ UnchangedCommands

(* The path loses its stream or ends, and closes whom it lists.            *)
PathCloses(s) ==
  /\ s \in listed
  /\ listed' = listed \ {s}
  /\ ctxDone' = ctxDone \cup {s}
  /\ UNCHANGED <<serverVars, at, step, role, deferred, status, httpVars, registered>>
  /\ UnchangedCommands

CloseServer ==
  /\ ~closing
  /\ closing' = TRUE /\ serverDone' = TRUE
  /\ UNCHANGED <<kind, wants, serverAt, listener, offered, table, sessionVars, httpVars, pathVars>>
  /\ UnchangedCommands

LoopEnds ==
  /\ serverAt = "select" /\ serverDone
  /\ serverAt' = "left"
  /\ UNCHANGED <<kind, wants, serverDone, closing, listener, offered, table, sessionVars, httpVars, pathVars>>
  /\ UnchangedCommands

(* Close returns: wg.Wait(), in run() for WebRTC.                          *)
Closed ==
  /\ serverAt = "left" /\ closing /\ listener = "ended"
  /\ \A s \in Clients : at[s] \in {"none", "gone"}
  /\ serverAt' = "ended"
  /\ UNCHANGED <<kind, wants, serverDone, closing, listener, offered, table, sessionVars, httpVars, pathVars>>
  /\ UnchangedCommands

(* What the API answers.                                                   *)
APIList == IF serverAt = "select" THEN table ELSE {}

APIGet(s) ==
  IF serverAt = "select" THEN IF s \in APIList THEN "item" ELSE "notFound" ELSE "terminated"

-----------------------------------------------------------------------------

SessionStep(s) ==
  \/ PeerStep(s) \/ PathAnswers(s) \/ PauseOverAfterError(s) \/ FromStream(s)
  \/ OnRead(s) \/ StartReader(s) \/ Unwind(s) \/ Unwound(s)
  \/ CloseGivesUp(s) \/ CloseConn(s) \/ OnDisconnect(s)
  \/ ChNew(s) \/ Answer(s) \/ ReplyError(s)

Command ==
  \E id \in CommandIds :
    CommandStep(id) /\ UNCHANGED <<serverVars, sessionVars, httpVars, pathVars>>

Next ==
  \/ \E s \in Clients :
       \/ SessionStep(s) \/ Serves(s) \/ Accept(s) \/ OnWHIPPost(s) \/ NewSession(s)
       \/ NewGivesUp(s) \/ CandidatesEnd(s) \/ Kick(s) \/ PathCloses(s)
       \/ \E p \in Patches : OnWHIPPatch(p, s)
  \/ \E p \in Patches : AddSessionCandidates(p) \/ AddCandidates(p)
  \/ AcceptFails \/ NewConn \/ NewConnGivesUp \/ AcceptError
  \/ CloseServer \/ LoopEnds \/ Closed
  \/ Command

Spec == Init /\ [][Next]_vars

(* Every goroutine that can go on goes on.  A session serves for as long   *)
(* as its peer likes, and ends when it is closed.                          *)
Fairness ==
  /\ \A s \in Clients :
       /\ WF_vars(SessionStep(s)) /\ WF_vars(Cancelled(s) /\ Serves(s))
       /\ WF_vars(NewSession(s)) /\ WF_vars(NewGivesUp(s))
  /\ \A p \in Patches : WF_vars(AddSessionCandidates(p)) /\ WF_vars(AddCandidates(p))
  /\ WF_vars(NewConn) /\ WF_vars(NewConnGivesUp) /\ WF_vars(AcceptError)
  /\ WF_vars(serverAt # "select" /\ AcceptFails)
  /\ WF_vars(LoopEnds) /\ WF_vars(Closed)
  /\ CommandFairness

FairSpec == Spec /\ Fairness

-----------------------------------------------------------------------------
(* Properties.                                                             *)

(* A session that is gone has left nothing behind: its path does not list  *)
(* it, no callback of it runs in the stream, and the commands of its hooks *)
(* have been told to end, each once.  A callback that never ran may be     *)
(* left in a stream FromStream could not map completely.                   *)
GoneLeavesNothing ==
  /\ \A s \in Clients : at[s] = "gone" =>
       /\ s \notin listed /\ registered[s] # "running"
       /\ \A id \in Owners \X Hooks : id[1] = s /\ commands[id].at # "none" => commands[id].closed
  /\ \A id \in CommandIds : commands[id].at # "panic"

(* While the server runs, the API finds every session that serves and      *)
(* shows none that is gone.                                                *)
APIListsSessions ==
  serverAt = "select" =>
    /\ \A s \in Clients : In(s, "serve") /\ s \notin ctxDone => APIGet(s) = "item"
    /\ \A s \in APIList : at[s] \in {"last", "gone"} => serverDone

(* The server knows its sessions: those that serve and no other, and those *)
(* that are gone have left nothing.                                        *)
SessionsAccountedFor == GoneLeavesNothing /\ APIListsSessions

(* Every POST of WHIP and WHEP is answered once, whatever becomes of the   *)
(* session and of the server.                                              *)
PostsAnswered ==
  \A s \in Clients :
    post[s] \in {"queued", "offer", "wait"} ~> post[s] \in {"answered", "error", "terminated"}

(* A PATCH is answered too, unless the session has had a candidate it      *)
(* refused: the goroutine that would answer is lost then.                  *)
PatchesAnswered ==
  \A p \in Patches :
    patch[p].at = "send" ~>
      patch[p].at = "idle" \/ candidates[patch[p].of] = "blocked"

(* Every request of WHIP and WHEP is answered.                             *)
RequestsAnswered == PostsAnswered /\ PatchesAnswered

(* Close returns, with every session gone, whatever they were doing, and   *)
(* after it the pool of the commands gets empty, so that core can end.     *)
CloseReturns == closing ~> serverAt = "ended" /\ PoolIsEmpty
=============================================================================
