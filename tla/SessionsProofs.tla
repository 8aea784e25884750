---------------------------- MODULE SessionsProofs -----------------------------
(***************************************************************************)
(* The servers of RTMP, SRT and WebRTC know their sessions, and a session  *)
(* that is gone has left nothing behind, for any number of them.           *)
(*                                                                         *)
(* The property is not inductive: that nothing is left rests on what is    *)
(* deferred, for everything a session leaves with others has a deferred    *)
(* call that takes it back, and a hook has at most one.                    *)
(***************************************************************************)
EXTENDS Sessions, TLAPS

Kinds == {"rtmp", "srt", "webrtc"}
Roles == {"read", "publish"}
Undone == {"reader", "publisher", "conn", "pc", "readHook", "stream"}

(* x is deferred in q; no hook is ended twice by q.                        *)
Holds(q, x) == \E i \in DOMAIN q : q[i] = x
Once(q) == \A i, j \in DOMAIN q : q[i] = "readHook" /\ q[j] = "readHook" => i = j

Runs(id) == commands[id].at # "none" /\ ~commands[id].closed

(* A session that has not begun has done nothing.                          *)
Fresh(s) ==
  /\ at[s] = "none" => step[s] = 1
  /\ post[s] # "none" => kind = "webrtc"
  /\ post[s] \in {"none", "queued"} /\ kind = "webrtc" => at[s] = "none"
  /\ listener = "offering" /\ offered = s => at[s] = "none"

(* Its steps end with the one in which it serves.                          *)
StepThere(s) == step[s] \in DOMAIN Steps(kind, role[s])

(* What a session leaves with others has a deferred call.                  *)
Deferral(s) ==
  /\ at[s] \in {"none", "reply", "leave", "last", "gone"} => deferred[s] = <<>>
  /\ s \in listed => Holds(deferred[s], "reader") \/ Holds(deferred[s], "publisher")
  /\ registered[s] = "running" => Holds(deferred[s], "stream")
  /\ Once(deferred[s])
  /\ at[s] = "run" /\ Holds(deferred[s], "readHook") =>
       \A i \in DOMAIN Steps(kind, role[s]) : i >= step[s] => Steps(kind, role[s])[i] # "onRead"

(* A hook runs from its begin to its end, and ends once.                   *)
HooksFollow(s) ==
  s \in Owners =>
    /\ Runs(<<s, "read">>) <=>
         hookConf.hook = "read" /\ hookConf.run /\ Holds(deferred[s], "readHook")
    /\ Runs(<<s, "connect">>) <=>
         /\ hookConf.hook = "connect" /\ hookConf.run
         /\ kind # "webrtc" /\ at[s] \notin {"none", "gone"}

(* A session is in the table until it leaves or is closed.                 *)
Tabled(s) ==
  /\ at[s] \in {"run", "pause", "unwind", "reply", "leave"} => s \in table \cup ctxDone
  /\ s \in table /\ at[s] \in {"last", "gone"} => serverDone

Sound(s) ==
  Fresh(s) /\ StepThere(s) /\ Deferral(s) /\ HooksFollow(s) /\ Tabled(s)

Listener ==
  /\ listener = "offering" => offered \in Clients
  /\ kind = "webrtc" => listener = "ended"
NoPanic == \A id \in CommandIds : commands[id].at # "panic"

Inv ==
  /\ TypeOK /\ deferred \in [Clients -> Seq(Undone)]
  /\ Listener /\ NoPanic
  /\ \A s \in Clients : Sound(s)

-----------------------------------------------------------------------------
(* What is put in front of a sequence, and what is taken from there.       *)

(* Nothing is deferred by a session that has not begun, or has ended.      *)
LEMMA HoldsEmpty == ASSUME NEW x PROVE ~Holds(<<>>, x) /\ Once(<<>>)
  BY DEF Holds, Once

(* Something is deferred;                                                  *)
LEMMA Deferring ==
  ASSUME NEW q \in Seq(Undone), NEW y \in Undone
  PROVE  /\ <<y>> \o q \in Seq(Undone)
         /\ \A x : Holds(<<y>> \o q, x) <=> x = y \/ Holds(q, x)
         /\ Once(q) /\ (y = "readHook" => ~Holds(q, "readHook")) => Once(<<y>> \o q)
<1> DEFINE p == <<y>> \o q
<1>1. p \in Seq(Undone) /\ Len(p) = 1 + Len(q) /\ p[1] = y
  OBVIOUS
<1>2. \A i \in DOMAIN q : i + 1 \in DOMAIN p /\ p[i + 1] = q[i]
  OBVIOUS
<1>3. \A i \in DOMAIN p : i = 1 \/ (i - 1 \in DOMAIN q /\ p[i] = q[i - 1])
  OBVIOUS
<1>4. 1 \in DOMAIN p /\ DOMAIN p \subseteq Nat
  BY <1>1
<1> HIDE DEF p
<1>5. ASSUME NEW x PROVE Holds(p, x) <=> x = y \/ Holds(q, x)
  <2>1. ASSUME NEW i \in DOMAIN p, p[i] = x PROVE x = y \/ Holds(q, x)
    BY <1>1, <1>3, <2>1 DEF Holds
  <2>2. ASSUME NEW i \in DOMAIN q, q[i] = x PROVE Holds(p, x)
    BY <1>2, <2>2 DEF Holds
  <2>3. Holds(p, y)
    BY <1>1, <1>4 DEF Holds
  <2> QED
    BY <2>1, <2>2, <2>3 DEF Holds
<1>6. ASSUME Once(q), y = "readHook" => ~Holds(q, "readHook")
      PROVE  Once(p)
  <2> SUFFICES ASSUME NEW i \in DOMAIN p, NEW j \in DOMAIN p, p[i] = "readHook", p[j] = "readHook"
               PROVE  i = j
    BY DEF Once
  <2>1. CASE i = 1 \/ j = 1
    BY <1>1, <1>3, <1>6, <2>1 DEF Holds
  <2>2. CASE i # 1 /\ j # 1
    <3>1. i - 1 = j - 1
      BY <1>3, <1>6, <2>2 DEF Once
    <3> QED
      BY <1>4, <3>1
  <2> QED
    BY <2>1, <2>2
<1> QED
  BY <1>1, <1>5, <1>6 DEF p

(* a step that leaves nothing defers nothing;                              *)
LEMMA DeferringNothing ==
  ASSUME NEW q \in Seq(Undone)
  PROVE  <<>> \o q = q
  OBVIOUS

(* the call that was deferred last is run first.                           *)
LEMMA Taking ==
  ASSUME NEW q \in Seq(Undone), q # <<>>
  PROVE  /\ Head(q) \in Undone /\ Tail(q) \in Seq(Undone)
         /\ \A x : Holds(q, x) <=> x = Head(q) \/ Holds(Tail(q), x)
         /\ Once(q) => Once(Tail(q)) /\ (Head(q) = "readHook" => ~Holds(Tail(q), "readHook"))
<1> DEFINE t == Tail(q)
<1>1. Head(q) \in Undone /\ t \in Seq(Undone) /\ Head(q) = q[1] /\ 1 \in DOMAIN q
  OBVIOUS
<1>2. \A i \in DOMAIN t : i + 1 \in DOMAIN q /\ t[i] = q[i + 1]
  OBVIOUS
<1>3. \A i \in DOMAIN q : i = 1 \/ (i - 1 \in DOMAIN t /\ q[i] = t[i - 1])
  OBVIOUS
<1>4. DOMAIN q \subseteq Nat /\ DOMAIN t \subseteq Nat /\ 0 \notin DOMAIN t
  OBVIOUS
<1> HIDE DEF t
<1>5. \A x : Holds(q, x) <=> x = Head(q) \/ Holds(t, x)
  BY <1>1, <1>2, <1>3 DEF Holds
<1>6. ASSUME Once(q) PROVE Once(t) /\ (Head(q) = "readHook" => ~Holds(t, "readHook"))
  <2>1. ASSUME NEW i \in DOMAIN t, NEW j \in DOMAIN t, t[i] = "readHook", t[j] = "readHook"
        PROVE  i = j
    <3>1. i + 1 = j + 1
      BY <1>2, <1>6, <2>1 DEF Once
    <3> QED
      BY <1>4, <3>1
  <2>2. ASSUME Head(q) = "readHook", NEW i \in DOMAIN t, t[i] = "readHook" PROVE FALSE
    <3>1. i + 1 = 1
      BY <1>1, <1>2, <1>6, <2>2 DEF Once
    <3> QED
      BY <1>4, <3>1
  <2> QED
    BY <2>1, <2>2 DEF Once, Holds
<1> QED
  BY <1>1, <1>5, <1>6 DEF t

-----------------------------------------------------------------------------
(* The lists of steps.                                                     *)

Regular(q) ==
  /\ DOMAIN q = 1..Len(q) /\ Len(q) \in 4..9 /\ q[Len(q)] = "serve"
  /\ \A i, j \in DOMAIN q : q[i] = "onRead" /\ q[j] = "onRead" => i = j

(* Every list ends with the step that serves, and begins reading once.     *)
LEMMA StepsRegular ==
  ASSUME NEW k \in Kinds, NEW r \in Roles
  PROVE  Regular(Steps(k, r))
<1>1. Regular(RTMPRead)
  BY DEF RTMPRead, Regular
<1>2. Regular(RTMPPublish)
  BY DEF RTMPPublish, Regular
<1>3. Regular(SRTRead)
  BY DEF SRTRead, Regular
<1>4. Regular(SRTPublish)
  BY DEF SRTPublish, Regular
<1>5. Regular(WebRTCRead)
  BY DEF WebRTCRead, Regular
<1>6. Regular(WebRTCPublish)
  BY DEF WebRTCPublish, Regular
<1> QED
  BY <1>1, <1>2, <1>3, <1>4, <1>5, <1>6 DEF Steps, Kinds, Roles

(* A step defers one call at most.                                         *)
LEMMA UndoFacts ==
  ASSUME NEW s, NEW name
  PROVE  Undo(s, name) \in {<<>>} \cup {<<x>> : x \in Undone}
  BY DEF Undo, Undone

-----------------------------------------------------------------------------

(* What the settings say of the server and of its clients.                 *)
LEMMA KindIs == ASSUME TypeOK PROVE kind \in Kinds
<1>1. [kind |-> kind, hookConf |-> hookConf, wants |-> wants] \in
        [kind : {"rtmp", "srt", "webrtc"}, hookConf : HookConfs,
         wants : [Clients -> SUBSET {"read", "publish"}]]
  BY SettingsAssumption DEF TypeOK
<1> QED
  BY <1>1 DEF Kinds

(* A client comes to read or to publish.                                   *)
LEMMA WantsRoles == ASSUME TypeOK, NEW s \in Clients PROVE wants[s] \subseteq Roles
<1>1. [kind |-> kind, hookConf |-> hookConf, wants |-> wants] \in
        [kind : {"rtmp", "srt", "webrtc"}, hookConf : HookConfs,
         wants : [Clients -> SUBSET {"read", "publish"}]]
  BY SettingsAssumption DEF TypeOK
<1> QED
  BY <1>1 DEF Roles

(* The invariant is about more than the property.                          *)
LEMMA InvIsEnough == Inv => SessionsAccountedFor
<1> SUFFICES ASSUME Inv PROVE SessionsAccountedFor
  OBVIOUS
<1>1. ASSUME NEW s \in Clients, at[s] = "gone"
      PROVE  /\ s \notin listed /\ registered[s] # "running"
             /\ \A id \in Owners \X Hooks :
                  id[1] = s /\ commands[id].at # "none" => commands[id].closed
  <2>1. Sound(s) /\ deferred[s] = <<>>
    BY <1>1 DEF Inv, Sound, Deferral
  <2>2. \A x : ~Holds(deferred[s], x)
    BY <2>1, HoldsEmpty
  <2>3. ASSUME NEW id \in Owners \X Hooks, id[1] = s PROVE ~Runs(id)
    <3>1. id \in {<<s, "read">>, <<s, "connect">>} /\ s \in Owners
      BY <2>3 DEF Hooks
    <3> QED
      BY <1>1, <2>1, <2>2, <3>1 DEF Sound, HooksFollow
  <2> QED
    BY <2>1, <2>2, <2>3 DEF Sound, Deferral, Runs
<1>2. GoneLeavesNothing
  BY <1>1 DEF GoneLeavesNothing, Inv, NoPanic
<1>3. ASSUME serverAt = "select", NEW s \in Clients, In(s, "serve"), s \notin ctxDone
      PROVE  APIGet(s) = "item"
  BY <1>3 DEF Inv, Sound, Tabled, In, APIGet, APIList
<1>4. ASSUME serverAt = "select", NEW s \in APIList, at[s] \in {"last", "gone"}
      PROVE  serverDone
  BY <1>4 DEF Inv, TypeOK, Sound, Tabled, APIList
<1> QED
  BY <1>2, <1>3, <1>4 DEF SessionsAccountedFor, APIListsSessions

(* No session has begun.                                                   *)
LEMMA InitInv == Init => Inv
<1> SUFFICES ASSUME Init PROVE Inv
  OBVIOUS
<1>1. PICK x \in Settings : kind = x.kind /\ hookConf = x.hookConf /\ wants = x.wants
  BY DEF Init
<1>2. x \in [kind : {"rtmp", "srt", "webrtc"}, hookConf : HookConfs,
             wants : [Clients -> SUBSET {"read", "publish"}]]
  BY SettingsAssumption
<1>3. /\ [kind |-> kind, hookConf |-> hookConf, wants |-> wants] \in Settings
      /\ kind \in Kinds /\ hookConf \in HookConfs
  <2>1. x = [kind |-> x.kind, hookConf |-> x.hookConf, wants |-> x.wants]
    BY <1>2
  <2> QED
    BY <1>1, <1>2, <2>1 DEF Kinds
<1>4. CommandsTypeOK /\ \A id \in CommandIds : commands[id] = NoCommand
  BY <1>3 DEF Init, CommandsInit, CommandsTypeOK, NoCommand, CommandSteps
<1>5. TypeOK
  <2>1. /\ at \in [Clients -> Places] /\ step \in [Clients -> 1..10]
        /\ role \in [Clients -> {"read", "publish"}] /\ post \in [Clients -> Posts]
        /\ candidates \in [Clients -> {"none", "select", "blocked", "ended"}]
        /\ patch \in [Patches -> [at : {"idle", "lookup", "send"}, of : Clients \cup {Nil}]]
        /\ registered \in [Clients -> {"no", "paused", "running"}]
    BY DEF Init, Places, Posts
  <2> QED
    BY <1>3, <1>4, <2>1 DEF Init, TypeOK
<1>6. deferred \in [Clients -> Seq(Undone)]
  BY DEF Init
<1>7. ASSUME NEW s \in Clients PROVE Sound(s)
  <2>1. /\ at[s] = "none" /\ step[s] = 1 /\ role[s] = "read" /\ deferred[s] = <<>>
        /\ post[s] = "none" /\ registered[s] = "no" /\ listed = {} /\ table = {}
    BY DEF Init
  <2>2. StepThere(s)
    BY <1>3, <2>1, StepsRegular DEF StepThere, Regular, Roles
  <2>3. Deferral(s)
    BY <2>1, HoldsEmpty DEF Deferral
  <2>4. HooksFollow(s)
    <3>1. ASSUME s \in Owners PROVE ~Runs(<<s, "read">>) /\ ~Runs(<<s, "connect">>)
      BY <1>4, <3>1 DEF Runs, NoCommand, CommandIds
    <3> QED
      BY <2>1, <3>1, HoldsEmpty DEF HooksFollow
  <2>5. Fresh(s) /\ Tabled(s)
    BY <2>1 DEF Init, Fresh, Tabled
  <2> QED
    BY <2>2, <2>3, <2>4, <2>5 DEF Sound
<1>8. Listener
  BY <1>3 DEF Init, Listener
<1>9. NoPanic
  BY <1>4 DEF NoPanic, NoCommand
<1> QED
  BY <1>5, <1>6, <1>7, <1>8, <1>9 DEF Inv

-----------------------------------------------------------------------------
(* Every step keeps the types.                                             *)

Types == TypeOK /\ deferred \in [Clients -> Seq(Undone)]

(* A session that is in a step that is not the last one has a next step.   *)
LEMMA NextStep ==
  ASSUME Inv, NEW s \in Clients, NEW name, In(s, name), name # "serve"
  PROVE  /\ step[s] + 1 \in 1..10
         /\ step[s] + 1 \in DOMAIN Steps(kind, role[s])
<1>1. Regular(Steps(kind, role[s]))
  BY KindIs, StepsRegular DEF Inv, TypeOK, Roles
<1>2. step[s] \in DOMAIN Steps(kind, role[s])
  BY DEF Inv, Sound, StepThere
<1>3. Steps(kind, role[s])[step[s]] # "serve"
  BY DEF In
<1> DEFINE steps == Steps(kind, role[s])
           last == Len(steps)
           i == step[s]
<1>4. DOMAIN steps = 1..last /\ last \in 4..9 /\ i \in DOMAIN steps /\ i # last
  BY <1>1, <1>2, <1>3 DEF Regular
<1> HIDE DEF steps, last, i
<1>5. i + 1 \in 1..10 /\ i + 1 \in DOMAIN steps
  BY <1>4
<1> QED
  BY <1>5 DEF i, steps

(* What is deferred is one of six calls.                                   *)
LEMMA UndoneStays ==
  ASSUME NEW q \in Seq(Undone), NEW s, NEW name
  PROVE  Undo(s, name) \o q \in Seq(Undone)
<1>1. CASE Undo(s, name) = <<>>
  BY <1>1, DeferringNothing
<1>2. ASSUME NEW x \in Undone, Undo(s, name) = <<x>> PROVE Undo(s, name) \o q \in Seq(Undone)
  BY <1>2, Deferring
<1> QED
  BY <1>1, <1>2, UndoFacts

(* A session goes on,                                                      *)
LEMMA AdvanceTypes ==
  ASSUME Inv, NEW s \in Clients, NEW name, In(s, name), name # "serve", Advance(s)
  PROVE  /\ step' = [step EXCEPT ![s] = step[s] + 1] /\ step[s] + 1 \in 1..10
         /\ deferred' = [deferred EXCEPT ![s] = Undo(s, name) \o deferred[s]]
         /\ step' \in [Clients -> 1..10] /\ deferred' \in [Clients -> Seq(Undone)]
         /\ at' = at /\ role' = role /\ ctxDone' = ctxDone /\ status' = status
<1>1. step[s] + 1 \in 1..10
  BY NextStep
<1>2. Steps(kind, role[s])[step[s]] = name
  BY DEF In
<1>3. step \in [Clients -> 1..10] /\ deferred \in [Clients -> Seq(Undone)]
  BY DEF Inv, TypeOK
<1>4. deferred' = [deferred EXCEPT ![s] = Undo(s, name) \o deferred[s]]
  BY <1>2, <1>3 DEF Advance
<1>5. Undo(s, name) \o deferred[s] \in Seq(Undone)
  BY <1>3, UndoneStays
<1> QED
  BY <1>1, <1>3, <1>4, <1>5 DEF Advance

(* or back.                                                                *)
LEMMA ReturnsTypes ==
  ASSUME Inv, NEW s \in Clients, NEW name, NEW to \in Places, Returns(s, name, to)
  PROVE  /\ at' \in [Clients -> Places] /\ status' \subseteq Clients
         /\ step' = step /\ role' = role /\ deferred' = deferred /\ ctxDone' = ctxDone
  BY DEF Returns, Inv, TypeOK

(* The hooks keep the type of the table of commands.                       *)
LEMMA CommandTypes ==
  ASSUME CommandsTypeOK, NEW o, NEW hook \in Hooks
  PROVE  /\ Begin(commands, o, hook) \in
              [CommandIds -> [at : CommandSteps, restart : BOOLEAN, closed : BOOLEAN]]
         /\ End(commands, o, hook) \in
              [CommandIds -> [at : CommandSteps, restart : BOOLEAN, closed : BOOLEAN]]
<1> DEFINE T == [CommandIds -> [at : CommandSteps, restart : BOOLEAN, closed : BOOLEAN]]
<1>1. ASSUME NEW cs \in T, NEW id, NEW b \in BOOLEAN
      PROVE  NewCmd(cs, id, b) \in T
  BY DEF NewCmd, CommandSteps
<1>2. ASSUME NEW cs \in T, NEW id PROVE Close(cs, id) \in T
  BY DEF Close, CommandSteps
<1>3. hookConf.restart \in BOOLEAN /\ commands \in T
  BY DEF CommandsTypeOK, HookConfs
<1> QED
  BY <1>1, <1>2, <1>3 DEF Begin, End

-----------------------------------------------------------------------------
(* A step of one session leaves the others as they are.                    *)

Still ==
  /\ kind' = kind /\ hookConf' = hookConf
  /\ ctxDone \subseteq ctxDone' /\ (serverDone => serverDone')
Aside(q) ==
  /\ at'[q] = at[q] /\ step'[q] = step[q] /\ role'[q] = role[q] /\ deferred'[q] = deferred[q]
  /\ post'[q] = post[q] /\ registered'[q] = registered[q]
  /\ q \in listed' => q \in listed
  /\ q \in table' <=> q \in table
  /\ listener' = "offering" /\ offered' = q => listener = "offering" /\ offered = q
  /\ q \in Owners => \A h \in Hooks : Runs(<<q, h>>)' <=> Runs(<<q, h>>)

(* What another session does makes no difference to its soundness.         *)
LEMMA AsideStays ==
  ASSUME NEW q \in Clients, Sound(q), Still, Aside(q)
  PROVE  Sound(q)'
<1>1. Fresh(q)'
  BY DEF Sound, Fresh, Still, Aside
<1>2. StepThere(q)'
  BY DEF Sound, StepThere, Still, Aside
<1>3. Deferral(q)'
  BY DEF Sound, Deferral, Still, Aside
<1>4. HooksFollow(q)'
  BY DEF Sound, HooksFollow, Still, Aside, Hooks
<1>5. Tabled(q)'
  BY DEF Sound, Tabled, Still, Aside
<1> QED
  BY <1>1, <1>2, <1>3, <1>4, <1>5 DEF Sound

(* So only the session that moves is to be looked at.                      *)
LEMMA OneSession ==
  ASSUME Inv, NEW s \in Clients, Types', Listener', NoPanic', Still,
         \A q \in Clients \ {s} : Aside(q),
         Sound(s)'
  PROVE  Inv'
<1>1. \A q \in Clients \ {s} : Sound(q)'
  BY AsideStays DEF Inv
<1> QED
  BY <1>1 DEF Inv, Types

(* A session that goes on, or back, does so by itself: neither the server  *)
(* nor a hook takes part.                                                  *)
Alone(s) ==
  /\ \A q \in Clients \ {s} :
       /\ at'[q] = at[q] /\ step'[q] = step[q] /\ role'[q] = role[q] /\ deferred'[q] = deferred[q]
       /\ post'[q] = post[q] /\ registered'[q] = registered[q]
  /\ listed' \subseteq listed \cup {s} /\ ctxDone \subseteq ctxDone'
  /\ UNCHANGED <<serverVars, commandVars>>

(* What is to be shown of such a step.                                     *)
LEMMA AloneStays ==
  ASSUME Inv, NEW s \in Clients, Types', Alone(s),
         at[s] \notin {"none", "last", "gone"}, at'[s] \notin {"none", "gone"},
         post'[s] = post[s] \/ (post[s] # "none" /\ post'[s] \notin {"none", "queued"}),
         at'[s] = "last" => serverDone,
         StepThere(s)', Deferral(s)',
         Holds(deferred'[s], "readHook") <=> Holds(deferred[s], "readHook")
  PROVE  Inv'
<1>1. Sound(s) /\ Listener /\ NoPanic
  BY DEF Inv
<1>2. Listener' /\ NoPanic' /\ Still
  BY <1>1 DEF Alone, serverVars, commandVars, Listener, NoPanic, Still
<1>3. \A id : Runs(id)' <=> Runs(id)
  BY DEF Runs, Alone, commandVars
<1>4. \A q \in Clients \ {s} : Aside(q)
  BY <1>3 DEF Alone, serverVars, Aside
<1>5. Fresh(s)'
  BY <1>1 DEF Alone, serverVars, Sound, Fresh
<1>6. HooksFollow(s)'
  BY <1>1, <1>2, <1>3 DEF Sound, HooksFollow, Still
<1>7. Tabled(s)'
  BY <1>1 DEF Alone, serverVars, Sound, Tabled, Inv, TypeOK, Places
<1> QED
  BY <1>2, <1>4, <1>5, <1>6, <1>7, OneSession DEF Sound

(* What a session defers when a step of it is done.                        *)
LEMMA AdvanceDefers ==
  ASSUME Inv, NEW s \in Clients, NEW name, In(s, name), name # "serve",
         deferred'[s] = Undo(s, name) \o deferred[s], step'[s] = step[s] + 1,
         at' = at, role' = role, kind' = kind
  PROVE  /\ StepThere(s)' /\ at[s] = "run" /\ Once(deferred'[s])
         /\ \A x : Holds(deferred'[s], x) <=> Holds(deferred[s], x) \/ Undo(s, name) = <<x>>
         /\ name = "onRead" => ~Holds(deferred[s], "readHook")
         /\ Holds(deferred'[s], "readHook") =>
              \A i \in DOMAIN Steps(kind', role'[s]) :
                i >= step'[s] => Steps(kind', role'[s])[i] # "onRead"
<1> DEFINE q == deferred[s]  S == Steps(kind, role[s])
<1>1. q \in Seq(Undone) /\ Once(q) /\ at[s] = "run" /\ S[step[s]] = name
  BY DEF Inv, Sound, Deferral, In
<1>2. step[s] \in DOMAIN S /\ step[s] + 1 \in DOMAIN S /\ step[s] \in Nat
  <2>1. step[s] \in DOMAIN S /\ step[s] \in 1..10
    BY DEF Inv, Sound, StepThere, TypeOK
  <2> QED
    BY <2>1, NextStep
<1>3. Regular(S)
  BY KindIs, StepsRegular DEF Inv, TypeOK, Roles
<1>4. name = "onRead" => ~Holds(q, "readHook")
  <2>1. Holds(q, "readHook") => \A i \in DOMAIN S : i >= step[s] => S[i] # "onRead"
    BY <1>1 DEF Inv, Sound, Deferral
  <2>2. step[s] >= step[s]
    BY <1>2
  <2> QED
    BY <1>1, <1>2, <2>1, <2>2
<1>5. Undo(s, name) = <<"readHook">> => name = "onRead"
  BY DEF Undo
<1>6. /\ Once(deferred'[s])
      /\ \A x : Holds(deferred'[s], x) <=> Holds(q, x) \/ Undo(s, name) = <<x>>
  <2>1. CASE Undo(s, name) = <<>>
    BY <1>1, <2>1, DeferringNothing
  <2>2. ASSUME NEW y \in Undone, Undo(s, name) = <<y>>
        PROVE  /\ Once(deferred'[s])
               /\ \A x : Holds(deferred'[s], x) <=> Holds(q, x) \/ Undo(s, name) = <<x>>
    BY <1>1, <1>4, <1>5, <2>2, Deferring
  <2> QED
    BY <2>1, <2>2, UndoFacts
<1>7. ASSUME Holds(deferred'[s], "readHook"), NEW i \in DOMAIN S, i >= step[s] + 1
      PROVE  S[i] # "onRead"
  <2>1. i >= step[s] /\ i # step[s]
    BY <1>2, <1>3, <1>7 DEF Regular
  <2>2. CASE Holds(q, "readHook")
    BY <1>1, <2>1, <2>2 DEF Inv, Sound, Deferral
  <2>3. CASE Undo(s, name) = <<"readHook">>
    BY <1>1, <1>2, <1>3, <1>5, <2>1, <2>3 DEF Regular
  <2> QED
    BY <1>6, <1>7, <2>2, <2>3
<1> QED
  BY <1>1, <1>2, <1>4, <1>6, <1>7 DEF StepThere

(* A session that goes back keeps what it has deferred.                    *)
LEMMA BackStays ==
  ASSUME Inv, NEW s \in Clients, Types', Alone(s),
         at[s] \notin {"none", "last", "gone"}, at'[s] \in {"pause", "unwind"},
         step'[s] = step[s], role'[s] = role[s], deferred'[s] = deferred[s],
         post'[s] = post[s], s \in listed' => s \in listed,
         registered'[s] = "running" => registered[s] = "running"
  PROVE  Inv'
<1>1. Sound(s)
  BY DEF Inv
<1>2. StepThere(s)' /\ Deferral(s)'
  BY <1>1 DEF Sound, StepThere, Deferral, Alone, serverVars
<1> QED
  BY <1>2, AloneStays

(* And one that goes on has deferred what it left.                         *)
LEMMA OnStays ==
  ASSUME Inv, NEW s \in Clients, Types', Alone(s),
         NEW name, In(s, name), name \notin {"serve", "onRead"},
         deferred'[s] = Undo(s, name) \o deferred[s], step'[s] = step[s] + 1,
         at' = at, role' = role,
         post'[s] = post[s] \/ (post[s] # "none" /\ post'[s] \notin {"none", "queued"}),
         s \in listed' => s \in listed \/ Undo(s, name) \in {<<"reader">>, <<"publisher">>},
         registered'[s] = "running" => registered[s] = "running" \/ Undo(s, name) = <<"stream">>
  PROVE  Inv'
<1>1. Sound(s) /\ kind' = kind
  BY DEF Inv, Alone, serverVars
<1>2. /\ StepThere(s)' /\ at[s] = "run" /\ Once(deferred'[s])
      /\ \A x : Holds(deferred'[s], x) <=> Holds(deferred[s], x) \/ Undo(s, name) = <<x>>
      /\ Holds(deferred'[s], "readHook") =>
           \A i \in DOMAIN Steps(kind', role'[s]) :
             i >= step'[s] => Steps(kind', role'[s])[i] # "onRead"
  BY <1>1, AdvanceDefers
<1>3. Undo(s, name) # <<"readHook">>
  BY DEF Undo
<1>4. Deferral(s)'
  BY <1>1, <1>2 DEF Sound, Deferral
<1>5. at'[s] = "run"
  BY <1>2
<1> QED
  BY <1>2, <1>3, <1>4, <1>5, AloneStays

(* The steps of the peer.                                                  *)
LEMMA PeerStays ==
  ASSUME Inv, NEW s \in Clients, PeerStep(s)
  PROVE  Inv'
<1>1. PICK name \in PeerSteps :
        /\ In(s, name)
        /\ \/ Advance(s) /\ UNCHANGED registered
           \/ /\ Returns(s, name, "unwind")
              /\ registered' = IF RemovesReader(name) /\ role[s] = "read"
                               THEN [registered EXCEPT ![s] = "no"] ELSE registered
  BY DEF PeerStep
<1>2. UNCHANGED <<serverVars, httpVars, listed>> /\ UNCHANGED commandVars
  BY DEF PeerStep, UnchangedCommands
<1>3. name \notin {"serve", "onRead"} /\ "unwind" \in Places
  BY DEF PeerSteps, Places
<1>4. /\ registered' \in [Clients -> {"no", "paused", "running"}]
      /\ \A q \in Clients \ {s} : registered'[q] = registered[q]
      /\ registered'[s] = "running" => registered[s] = "running"
  BY <1>1 DEF Inv, TypeOK
<1>5. CASE Advance(s)
  <2>1. /\ step' = [step EXCEPT ![s] = step[s] + 1]
        /\ deferred' = [deferred EXCEPT ![s] = Undo(s, name) \o deferred[s]]
        /\ step' \in [Clients -> 1..10] /\ deferred' \in [Clients -> Seq(Undone)]
        /\ at' = at /\ role' = role /\ ctxDone' = ctxDone /\ status' = status
    BY <1>1, <1>3, <1>5, AdvanceTypes
  <2>2. Types'
    BY <1>2, <1>4, <2>1 DEF Types, Inv, TypeOK, serverVars, httpVars, commandVars, CommandsTypeOK
  <2>3. Alone(s) /\ deferred'[s] = Undo(s, name) \o deferred[s] /\ step'[s] = step[s] + 1
    BY <1>2, <1>4, <2>1 DEF Alone, Inv, TypeOK, httpVars
  <2> QED
    BY <1>1, <1>2, <1>3, <1>4, <2>1, <2>2, <2>3, OnStays DEF httpVars
<1>6. CASE Returns(s, name, "unwind")
  <2>1. /\ at' \in [Clients -> Places] /\ status' \subseteq Clients
        /\ step' = step /\ role' = role /\ deferred' = deferred /\ ctxDone' = ctxDone
        /\ at' = [at EXCEPT ![s] = "unwind"] /\ at[s] = "run"
    BY <1>1, <1>3, <1>6, ReturnsTypes DEF Returns, In
  <2>2. Types'
    BY <1>2, <1>4, <2>1 DEF Types, Inv, TypeOK, serverVars, httpVars, commandVars, CommandsTypeOK
  <2>3. Alone(s) /\ at'[s] = "unwind"
    BY <1>2, <1>4, <2>1 DEF Alone, Inv, TypeOK, httpVars
  <2> QED
    BY <1>2, <1>4, <2>1, <2>2, <2>3, BackStays DEF httpVars
<1> QED
  BY <1>1, <1>5, <1>6

(* The path admits a reader or a publisher, and closes the publisher it    *)
(* displaces.                                                              *)
LEMMA AdmitFacts ==
  ASSUME TypeOK, NEW s \in Clients, NEW name, Admit(s, name)
  PROVE  /\ listed' \subseteq Clients /\ ctxDone' \subseteq Clients
         /\ listed' \subseteq listed \cup {s} /\ ctxDone \subseteq ctxDone'
         /\ s \in listed' => s \in listed \/ name \in {"addReader", "addPublisher"}
  BY DEF Admit, TypeOK

(* The calls to the path.                                                  *)
LEMMA PathAnswersStays ==
  ASSUME Inv, NEW s \in Clients, PathAnswers(s)
  PROVE  Inv'
<1>1. PICK name \in {"findPathConf", "addReader", "addPublisher"} :
        /\ In(s, name)
        /\ \/ /\ Admit(s, name)
              /\ step' = [step EXCEPT ![s] = @ + 1]
              /\ deferred' = [deferred EXCEPT ![s] = Undo(s, name) \o @]
              /\ UNCHANGED <<at, role, status>>
           \/ Returns(s, name, "unwind") /\ UNCHANGED listed
           \/ /\ kind # "webrtc" /\ (name = "addPublisher" => kind = "rtmp")
              /\ Returns(s, name, "pause") /\ UNCHANGED listed
  BY DEF PathAnswers
<1>2. UNCHANGED <<serverVars, httpVars, registered>> /\ UNCHANGED commandVars
  BY DEF PathAnswers, UnchangedCommands
<1>3. name \notin {"serve", "onRead"} /\ {"unwind", "pause"} \subseteq Places
  BY DEF Places
<1>5. CASE /\ Admit(s, name)
           /\ step' = [step EXCEPT ![s] = @ + 1]
           /\ deferred' = [deferred EXCEPT ![s] = Undo(s, name) \o @]
           /\ UNCHANGED <<at, role, status>>
  <2>1. /\ step[s] + 1 \in 1..10 /\ Undo(s, name) \o deferred[s] \in Seq(Undone)
        /\ step \in [Clients -> 1..10] /\ deferred \in [Clients -> Seq(Undone)]
    BY <1>1, <1>3, NextStep, UndoneStays DEF Inv, TypeOK
  <2>2. /\ step' \in [Clients -> 1..10] /\ deferred' \in [Clients -> Seq(Undone)]
        /\ deferred'[s] = Undo(s, name) \o deferred[s] /\ step'[s] = step[s] + 1
        /\ \A q \in Clients \ {s} : step'[q] = step[q] /\ deferred'[q] = deferred[q]
    BY <1>5, <2>1
  <2>3. /\ listed' \subseteq Clients /\ ctxDone' \subseteq Clients
        /\ listed' \subseteq listed \cup {s} /\ ctxDone \subseteq ctxDone'
        /\ s \in listed' => s \in listed \/ name \in {"addReader", "addPublisher"}
    BY <1>5, AdmitFacts DEF Inv
  <2>4. Types'
    BY <1>2, <1>5, <2>2, <2>3
       DEF Types, Inv, TypeOK, serverVars, httpVars, commandVars, CommandsTypeOK
  <2>5. Alone(s)
    BY <1>2, <1>5, <2>2, <2>3 DEF Alone, httpVars
  <2>6. name \in {"addReader", "addPublisher"} =>
          Undo(s, name) \in {<<"reader">>, <<"publisher">>}
    BY DEF Undo
  <2> QED
    BY <1>1, <1>2, <1>3, <1>5, <2>2, <2>3, <2>4, <2>5, <2>6, OnStays DEF httpVars
<1>6. ASSUME NEW to \in {"unwind", "pause"}, Returns(s, name, to), UNCHANGED listed
      PROVE  Inv'
  <2>1. /\ at' \in [Clients -> Places] /\ status' \subseteq Clients
        /\ step' = step /\ role' = role /\ deferred' = deferred /\ ctxDone' = ctxDone
        /\ at' = [at EXCEPT ![s] = to] /\ at[s] = "run"
    BY <1>1, <1>3, <1>6, ReturnsTypes DEF Returns, In
  <2>2. Types'
    BY <1>2, <1>6, <2>1 DEF Types, Inv, TypeOK, serverVars, httpVars, commandVars, CommandsTypeOK
  <2>3. Alone(s) /\ at'[s] = to
    BY <1>2, <1>6, <2>1 DEF Alone, Inv, TypeOK, httpVars
  <2> QED
    BY <1>2, <1>6, <2>1, <2>2, <2>3, BackStays DEF httpVars
<1> QED
  BY <1>1, <1>5, <1>6

(* The pause after an error of the authentication.                         *)
LEMMA PauseOverStays ==
  ASSUME Inv, NEW s \in Clients, PauseOverAfterError(s)
  PROVE  Inv'
<1>1. /\ at[s] = "pause" /\ at' = [at EXCEPT ![s] = "unwind"] /\ "unwind" \in Places
      /\ UNCHANGED <<serverVars, step, role, deferred, ctxDone, status, httpVars, pathVars, commandVars>>
  BY DEF PauseOverAfterError, UnchangedCommands, Places
<1>2. Types'
  BY <1>1 DEF Types, Inv, TypeOK, serverVars, httpVars, pathVars, commandVars, CommandsTypeOK
<1>3. Alone(s) /\ at'[s] = "unwind"
  BY <1>1 DEF Alone, Inv, TypeOK, httpVars, pathVars
<1> QED
  BY <1>1, <1>2, <1>3, BackStays DEF httpVars, pathVars

(* The steps that change what the session has in the stream.               *)
LEMMA FromStreamStays ==
  ASSUME Inv, NEW s \in Clients, FromStream(s) \/ StartReader(s)
  PROVE  Inv'
<1>1. PICK name \in {"fromStream", "startReader"}, g \in {"no", "paused", "running"} :
        /\ In(s, name) /\ registered' = [registered EXCEPT ![s] = g]
        /\ \/ Advance(s) /\ (g = "running" => name = "startReader")
           \/ Returns(s, name, "unwind") /\ g # "running"
  BY DEF FromStream, StartReader
<1>2. UNCHANGED <<serverVars, httpVars, listed>> /\ UNCHANGED commandVars
  BY DEF FromStream, StartReader, UnchangedCommands
<1>3. name \notin {"serve", "onRead"} /\ "unwind" \in Places
  BY DEF Places
<1>4. /\ registered' \in [Clients -> {"no", "paused", "running"}]
      /\ \A q \in Clients \ {s} : registered'[q] = registered[q]
      /\ registered'[s] = g
  BY <1>1 DEF Inv, TypeOK
<1>5. CASE Advance(s) /\ (g = "running" => name = "startReader")
  <2>1. /\ step' = [step EXCEPT ![s] = step[s] + 1]
        /\ deferred' = [deferred EXCEPT ![s] = Undo(s, name) \o deferred[s]]
        /\ step' \in [Clients -> 1..10] /\ deferred' \in [Clients -> Seq(Undone)]
        /\ at' = at /\ role' = role /\ ctxDone' = ctxDone /\ status' = status
    BY <1>1, <1>3, <1>5, AdvanceTypes
  <2>2. Types'
    BY <1>2, <1>4, <2>1 DEF Types, Inv, TypeOK, serverVars, httpVars, commandVars, CommandsTypeOK
  <2>3. Alone(s) /\ deferred'[s] = Undo(s, name) \o deferred[s] /\ step'[s] = step[s] + 1
    BY <1>2, <1>4, <2>1 DEF Alone, Inv, TypeOK, httpVars
  <2>4. registered'[s] = "running" => Undo(s, name) = <<"stream">>
    BY <1>4, <1>5 DEF Undo
  <2> QED
    BY <1>1, <1>2, <1>3, <1>4, <2>1, <2>2, <2>3, <2>4, OnStays DEF httpVars
<1>6. CASE Returns(s, name, "unwind") /\ g # "running"
  <2>1. /\ at' \in [Clients -> Places] /\ status' \subseteq Clients
        /\ step' = step /\ role' = role /\ deferred' = deferred /\ ctxDone' = ctxDone
        /\ at' = [at EXCEPT ![s] = "unwind"] /\ at[s] = "run"
    BY <1>1, <1>3, <1>6, ReturnsTypes DEF Returns, In
  <2>2. Types'
    BY <1>2, <1>4, <2>1 DEF Types, Inv, TypeOK, serverVars, httpVars, commandVars, CommandsTypeOK
  <2>3. Alone(s) /\ at'[s] = "unwind"
    BY <1>2, <1>4, <2>1 DEF Alone, Inv, TypeOK, httpVars
  <2> QED
    BY <1>2, <1>4, <1>6, <2>1, <2>2, <2>3, BackStays DEF httpVars
<1> QED
  BY <1>1, <1>5, <1>6

(* The end of the last step.                                               *)
LEMMA ServesStays ==
  ASSUME Inv, NEW s \in Clients, Serves(s)
  PROVE  Inv'
<1>1. /\ at' \in [Clients -> Places] /\ status' \subseteq Clients
      /\ step' = step /\ role' = role /\ deferred' = deferred /\ ctxDone' = ctxDone
      /\ at' = [at EXCEPT ![s] = "unwind"] /\ at[s] = "run"
  BY ReturnsTypes DEF Serves, Returns, In, Places
<1>2. UNCHANGED <<serverVars, httpVars, pathVars, commandVars>>
  BY DEF Serves, UnchangedCommands
<1>3. Types'
  BY <1>1, <1>2 DEF Types, Inv, TypeOK, serverVars, httpVars, pathVars, commandVars, CommandsTypeOK
<1>4. Alone(s) /\ at'[s] = "unwind"
  BY <1>1, <1>2 DEF Alone, Inv, TypeOK, httpVars, pathVars
<1> QED
  BY <1>1, <1>2, <1>3, <1>4, BackStays DEF httpVars, pathVars

-----------------------------------------------------------------------------
(* A hook begins, and ends.                                                *)

(* A command of the hook runs,                                             *)
LEMMA BeginRuns ==
  ASSUME TypeOK, NoPanic, NEW o, NEW hook \in Hooks, commands' = Begin(commands, o, hook)
  PROVE  /\ commands' \in [CommandIds -> [at : CommandSteps, restart : BOOLEAN, closed : BOOLEAN]]
         /\ NoPanic'
         /\ \A q \in Owners, h \in Hooks :
              Runs(<<q, h>>)' <=>
                \/ Runs(<<q, h>>)
                \/ q = o /\ h = hook /\ hookConf.hook = hook /\ hookConf.run
<1>1. commands' \in [CommandIds -> [at : CommandSteps, restart : BOOLEAN, closed : BOOLEAN]]
  BY CommandTypes DEF TypeOK
<1>2. commands \in [CommandIds -> [at : CommandSteps, restart : BOOLEAN, closed : BOOLEAN]]
  BY DEF TypeOK, CommandsTypeOK
<1>3. \A q \in Owners, h \in Hooks : <<q, h>> \in CommandIds
  BY DEF CommandIds, Hooks
<1>4. CASE hookConf.hook = hook /\ hookConf.run /\ o \in Owners
  <2>1. commands' = [commands EXCEPT ![<<o, hook>>] =
                       [at |-> "starting", restart |-> hookConf.restart, closed |-> FALSE]]
    BY <1>4 DEF Begin, NewCmd
  <2>2. \A id \in CommandIds :
          commands'[id] = IF id = <<o, hook>>
                          THEN [at |-> "starting", restart |-> hookConf.restart, closed |-> FALSE]
                          ELSE commands[id]
    BY <1>2, <2>1
  <2> QED
    BY <1>1, <1>3, <1>4, <2>2 DEF NoPanic, Runs
<1>5. CASE ~(hookConf.hook = hook /\ hookConf.run /\ o \in Owners)
  BY <1>1, <1>5 DEF Begin, NoPanic, Runs
<1> QED
  BY <1>4, <1>5

(* and is told to end; what it launches then is nobody's to end.           *)
LEMMA EndRuns ==
  ASSUME TypeOK, NoPanic, NEW o, NEW hook \in Hooks, commands' = End(commands, o, hook),
         o \in Owners /\ hookConf.hook = hook /\ hookConf.run => Runs(<<o, hook>>)
  PROVE  /\ commands' \in [CommandIds -> [at : CommandSteps, restart : BOOLEAN, closed : BOOLEAN]]
         /\ NoPanic'
         /\ \A q \in Owners, h \in Hooks :
              Runs(<<q, h>>)' <=>
                /\ Runs(<<q, h>>)
                /\ ~(q = o /\ h = hook /\ hookConf.hook = hook /\ hookConf.run)
<1> DEFINE ends == hookConf.hook = hook /\ hookConf.run /\ o \in Owners
           stopped == IF ends THEN Close(commands, <<o, hook>>) ELSE commands
<1>1. commands' \in [CommandIds -> [at : CommandSteps, restart : BOOLEAN, closed : BOOLEAN]]
  BY CommandTypes DEF TypeOK
<1>2. commands \in [CommandIds -> [at : CommandSteps, restart : BOOLEAN, closed : BOOLEAN]]
  BY DEF TypeOK, CommandsTypeOK
<1>3. /\ \A q \in Owners, h \in Hooks : <<q, h>> \in CommandIds
      /\ \A q \in Owners, h \in Hooks : <<q, h>> # <<o, Over[hook]>>
      /\ \A q \in Owners, h \in Hooks : <<q, h>> = <<o, hook>> <=> q = o /\ h = hook
  BY DEF CommandIds, Hooks, Over
<1>4. /\ stopped \in [CommandIds -> [at : CommandSteps, restart : BOOLEAN, closed : BOOLEAN]]
      /\ \A id \in CommandIds : stopped[id].at = commands[id].at
      /\ \A id \in CommandIds :
           stopped[id].closed <=> commands[id].closed \/ (ends /\ id = <<o, hook>>)
  <2>1. CASE ends
    <3>1. ~commands[<<o, hook>>].closed
      BY <2>1 DEF Runs
    <3>2. stopped = [commands EXCEPT ![<<o, hook>>].closed = TRUE]
      BY <2>1, <3>1 DEF Close
    <3>3. /\ stopped \in [CommandIds -> [at : CommandSteps, restart : BOOLEAN, closed : BOOLEAN]]
          /\ \A id \in CommandIds :
               stopped[id] = IF id = <<o, hook>> THEN [commands[id] EXCEPT !.closed = TRUE]
                             ELSE commands[id]
      BY <1>2, <3>2
    <3>4. ASSUME NEW id \in CommandIds
          PROVE  /\ stopped[id].at = commands[id].at
                 /\ stopped[id].closed <=> commands[id].closed \/ (ends /\ id = <<o, hook>>)
      <4>1. commands[id] \in [at : CommandSteps, restart : BOOLEAN, closed : BOOLEAN]
        BY <1>2
      <4>2. CASE id = <<o, hook>>
        <5>1. stopped[id] = [commands[id] EXCEPT !.closed = TRUE]
          BY <3>3, <4>2
        <5> HIDE DEF stopped
        <5> QED
          BY <2>1, <4>1, <4>2, <5>1
      <4>3. CASE id # <<o, hook>>
        BY <3>3, <4>3
      <4> QED
        BY <4>2, <4>3
    <3> QED
      BY <3>3, <3>4
  <2>2. CASE ~ends
    BY <1>2, <2>2
  <2> QED
    BY <2>1, <2>2
<1> HIDE DEF stopped
<1>5. \/ commands' = stopped
      \/ commands' = NewCmd(stopped, <<o, Over[hook]>>, FALSE)
  BY DEF End, stopped
<1>6. /\ \A id \in CommandIds \ {<<o, Over[hook]>>} : commands'[id] = stopped[id]
      /\ \A id \in CommandIds : commands'[id].at \in {stopped[id].at, "starting"}
  BY <1>4, <1>5 DEF NewCmd
<1>7. NoPanic'
  BY <1>4, <1>6 DEF NoPanic
<1>8. ASSUME NEW q \in Owners, NEW h \in Hooks
      PROVE  Runs(<<q, h>>)' <=>
               /\ Runs(<<q, h>>)
               /\ ~(q = o /\ h = hook /\ hookConf.hook = hook /\ hookConf.run)
  <2>1. commands'[<<q, h>>] = stopped[<<q, h>>] /\ <<q, h>> \in CommandIds
    BY <1>3, <1>6
  <2>2. ends /\ <<q, h>> = <<o, hook>> <=>
          q = o /\ h = hook /\ hookConf.hook = hook /\ hookConf.run
    BY <1>3
  <2>3. /\ commands'[<<q, h>>].at = commands[<<q, h>>].at
        /\ commands'[<<q, h>>].closed <=>
             commands[<<q, h>>].closed \/
               (q = o /\ h = hook /\ hookConf.hook = hook /\ hookConf.run)
    BY <1>4, <2>1, <2>2
  <2> QED
    BY <2>3 DEF Runs
<1> QED
  BY <1>1, <1>7, <1>8

(* WebRTC: the session meets its HTTP handler.                             *)
LEMMA ChNewStays ==
  ASSUME Inv, NEW s \in Clients, ChNew(s)
  PROVE  Inv'
<1>1. In(s, "chNew") /\ "unwind" \in Places /\ "wait" \in Posts
  BY DEF ChNew, Places, Posts
<1>2. UNCHANGED <<serverVars, candidates, patch, pathVars>> /\ UNCHANGED commandVars
  BY DEF ChNew, UnchangedCommands
<1>3. CASE post[s] = "offer" /\ Advance(s) /\ post' = [post EXCEPT ![s] = "wait"]
  <2>1. /\ step' = [step EXCEPT ![s] = step[s] + 1]
        /\ deferred' = [deferred EXCEPT ![s] = Undo(s, "chNew") \o deferred[s]]
        /\ step' \in [Clients -> 1..10] /\ deferred' \in [Clients -> Seq(Undone)]
        /\ at' = at /\ role' = role /\ ctxDone' = ctxDone /\ status' = status
    BY <1>1, <1>3, AdvanceTypes
  <2>2. post' \in [Clients -> Posts] /\ post'[s] = "wait"
        /\ \A q \in Clients \ {s} : post'[q] = post[q]
    BY <1>1, <1>3 DEF Inv, TypeOK
  <2>3. Types'
    BY <1>2, <2>1, <2>2 DEF Types, Inv, TypeOK, serverVars, pathVars, commandVars, CommandsTypeOK
  <2>4. Alone(s) /\ deferred'[s] = Undo(s, "chNew") \o deferred[s] /\ step'[s] = step[s] + 1
    BY <1>2, <2>1, <2>2 DEF Alone, Inv, TypeOK, pathVars
  <2> QED
    BY <1>1, <1>2, <1>3, <2>1, <2>2, <2>3, <2>4, OnStays DEF pathVars
<1>4. CASE Returns(s, "chNew", "unwind") /\ UNCHANGED post
  <2>1. /\ at' \in [Clients -> Places] /\ status' \subseteq Clients
        /\ step' = step /\ role' = role /\ deferred' = deferred /\ ctxDone' = ctxDone
        /\ at' = [at EXCEPT ![s] = "unwind"] /\ at[s] = "run"
    BY <1>1, <1>4, ReturnsTypes DEF Returns, In
  <2>2. Types'
    BY <1>2, <1>4, <2>1 DEF Types, Inv, TypeOK, serverVars, pathVars, commandVars, CommandsTypeOK
  <2>3. Alone(s) /\ at'[s] = "unwind"
    BY <1>2, <1>4, <2>1 DEF Alone, Inv, TypeOK, pathVars
  <2> QED
    BY <1>2, <1>4, <2>1, <2>2, <2>3, BackStays DEF pathVars
<1> QED
  BY <1>3, <1>4 DEF ChNew

(* The answer of the session goes to the handler that waits for it.        *)
LEMMA AnswerStays ==
  ASSUME Inv, NEW s \in Clients, Answer(s)
  PROVE  Inv'
<1>1. In(s, "answer") /\ "unwind" \in Places /\ "answered" \in Posts
  BY DEF Answer, Places, Posts
<1>2. UNCHANGED <<serverVars, patch, listed>> /\ UNCHANGED commandVars
  BY DEF Answer, UnchangedCommands
<1>3. CASE /\ post[s] = "wait" /\ Advance(s)
           /\ post' = [post EXCEPT ![s] = "answered"]
           /\ candidates' = [candidates EXCEPT ![s] = "select"]
           /\ UNCHANGED registered
  <2>1. /\ step' = [step EXCEPT ![s] = step[s] + 1]
        /\ deferred' = [deferred EXCEPT ![s] = Undo(s, "answer") \o deferred[s]]
        /\ step' \in [Clients -> 1..10] /\ deferred' \in [Clients -> Seq(Undone)]
        /\ at' = at /\ role' = role /\ ctxDone' = ctxDone /\ status' = status
    BY <1>1, <1>3, AdvanceTypes
  <2>2. /\ post' \in [Clients -> Posts] /\ post'[s] = "answered"
        /\ \A q \in Clients \ {s} : post'[q] = post[q]
        /\ candidates' \in [Clients -> {"none", "select", "blocked", "ended"}]
    BY <1>1, <1>3 DEF Inv, TypeOK
  <2>3. Types'
    BY <1>2, <1>3, <2>1, <2>2 DEF Types, Inv, TypeOK, serverVars, commandVars, CommandsTypeOK
  <2>4. Alone(s) /\ deferred'[s] = Undo(s, "answer") \o deferred[s] /\ step'[s] = step[s] + 1
    BY <1>2, <1>3, <2>1, <2>2 DEF Alone, Inv, TypeOK
  <2> QED
    BY <1>1, <1>2, <1>3, <2>1, <2>2, <2>3, <2>4, OnStays
<1>4. CASE /\ Returns(s, "answer", "unwind")
           /\ registered' = IF role[s] = "read" THEN [registered EXCEPT ![s] = "no"] ELSE registered
           /\ UNCHANGED <<post, candidates>>
  <2>1. /\ at' \in [Clients -> Places] /\ status' \subseteq Clients
        /\ step' = step /\ role' = role /\ deferred' = deferred /\ ctxDone' = ctxDone
        /\ at' = [at EXCEPT ![s] = "unwind"] /\ at[s] = "run"
    BY <1>1, <1>4, ReturnsTypes DEF Returns, In
  <2>2. /\ registered' \in [Clients -> {"no", "paused", "running"}]
        /\ \A q \in Clients \ {s} : registered'[q] = registered[q]
        /\ registered'[s] = "running" => registered[s] = "running"
    BY <1>4 DEF Inv, TypeOK
  <2>3. Types'
    BY <1>2, <1>4, <2>1, <2>2 DEF Types, Inv, TypeOK, serverVars, commandVars, CommandsTypeOK
  <2>4. Alone(s) /\ at'[s] = "unwind"
    BY <1>2, <1>4, <2>1, <2>2 DEF Alone, Inv, TypeOK
  <2> QED
    BY <1>2, <1>4, <2>1, <2>2, <2>3, <2>4, BackStays
<1> QED
  BY <1>3, <1>4 DEF Answer

(* The end of a session: the calls it has deferred, one by one,            *)
LEMMA UnwindStays ==
  ASSUME Inv, NEW s \in Clients, Unwind(s)
  PROVE  Inv'
<1> DEFINE q == deferred[s]  what == Head(deferred[s])
<1>1. q \in Seq(Undone) /\ q # <<>> /\ at[s] = "unwind" /\ Sound(s) /\ Listener /\ NoPanic /\ TypeOK
  BY DEF Unwind, Inv
<1>2. /\ what \in Undone /\ Tail(q) \in Seq(Undone)
      /\ \A x : Holds(q, x) <=> x = what \/ Holds(Tail(q), x)
      /\ Once(q) => Once(Tail(q)) /\ (what = "readHook" => ~Holds(Tail(q), "readHook"))
  BY <1>1, Taking
<1>3. /\ listed' = IF what \in {"reader", "publisher"} THEN listed \ {s} ELSE listed
      /\ registered' = IF what = "stream" THEN [registered EXCEPT ![s] = "no"] ELSE registered
      /\ commands' = IF what = "readHook" THEN End(commands, s, "read") ELSE commands
      /\ deferred' = [deferred EXCEPT ![s] = Tail(@)]
      /\ UNCHANGED <<serverVars, at, step, role, ctxDone, status, httpVars, hookConf>>
  BY DEF Unwind
<1> HIDE DEF what
<1>4. /\ deferred' \in [Clients -> Seq(Undone)] /\ deferred'[s] = Tail(q)
      /\ \A r \in Clients \ {s} : deferred'[r] = deferred[r]
  BY <1>2, <1>3 DEF Inv
<1>5. /\ registered' \in [Clients -> {"no", "paused", "running"}]
      /\ \A r \in Clients \ {s} : registered'[r] = registered[r]
      /\ what = "stream" => registered'[s] = "no"
      /\ registered'[s] = "running" => registered[s] = "running"
      /\ listed' \subseteq listed /\ listed' \subseteq Clients
      /\ what \in {"reader", "publisher"} => s \notin listed'
  BY <1>1, <1>3 DEF TypeOK
<1>6. Once(q)
  BY <1>1 DEF Sound, Deferral
<1>7. /\ commands' \in [CommandIds -> [at : CommandSteps, restart : BOOLEAN, closed : BOOLEAN]]
      /\ NoPanic'
      /\ \A r \in Owners, h \in Hooks :
           Runs(<<r, h>>)' <=>
             /\ Runs(<<r, h>>)
             /\ ~(what = "readHook" /\ r = s /\ h = "read" /\ hookConf.hook = "read" /\ hookConf.run)
  <2>1. CASE what = "readHook"
    <3>1. s \in Owners /\ hookConf.hook = "read" /\ hookConf.run => Runs(<<s, "read">>)
      BY <1>1, <1>2, <2>1 DEF Sound, HooksFollow
    <3>2. commands' = End(commands, s, "read") /\ "read" \in Hooks
      BY <1>3, <2>1 DEF Hooks
    <3> QED
      BY <1>1, <2>1, <3>1, <3>2, EndRuns
  <2>2. CASE what # "readHook"
    BY <1>1, <1>3, <2>2 DEF TypeOK, CommandsTypeOK, NoPanic, Runs
  <2> QED
    BY <2>1, <2>2
<1>8. Types'
  BY <1>1, <1>3, <1>4, <1>5, <1>7 DEF Types, TypeOK, serverVars, httpVars, CommandsTypeOK
<1>9. Still /\ Listener'
  BY <1>1, <1>3 DEF Still, Listener, serverVars
<1>10. \A r \in Clients \ {s} : Aside(r)
  BY <1>3, <1>4, <1>5, <1>7 DEF Aside, serverVars, httpVars
<1>11. Fresh(s)' /\ StepThere(s)' /\ Tabled(s)'
  BY <1>1, <1>3 DEF Sound, Fresh, StepThere, Tabled, serverVars, httpVars
<1>12. Deferral(s)'
  BY <1>1, <1>2, <1>3, <1>4, <1>5, <1>6 DEF Sound, Deferral
<1>13. HooksFollow(s)'
  BY <1>1, <1>2, <1>3, <1>4, <1>6, <1>7 DEF Sound, HooksFollow, Hooks, serverVars
<1> QED
  BY <1>7, <1>8, <1>9, <1>10, <1>11, <1>12, <1>13, OneSession DEF Sound

(* the answer to the handler, and the end of its context;                  *)
LEMMA UnwoundStays ==
  ASSUME Inv, NEW s \in Clients, Unwound(s)
  PROVE  Inv'
<1>1. /\ at[s] = "unwind" /\ deferred[s] = <<>> /\ {"reply", "leave"} \subseteq Places
      /\ at' = [at EXCEPT ![s] = IF s \in status THEN "reply" ELSE "leave"]
      /\ ctxDone' = IF s \in status THEN ctxDone ELSE ctxDone \cup {s}
      /\ UNCHANGED <<serverVars, step, role, deferred, status, httpVars, pathVars, commandVars>>
  BY DEF Unwound, UnchangedCommands, Places
<1>2. /\ at' \in [Clients -> Places] /\ at'[s] \in {"reply", "leave"}
      /\ \A q \in Clients \ {s} : at'[q] = at[q]
      /\ ctxDone' \subseteq Clients /\ ctxDone \subseteq ctxDone'
  BY <1>1 DEF Inv, TypeOK
<1>3. Types'
  BY <1>1, <1>2 DEF Types, Inv, TypeOK, serverVars, httpVars, pathVars, commandVars, CommandsTypeOK
<1>4. Alone(s)
  BY <1>1, <1>2 DEF Alone, httpVars, pathVars
<1>5. StepThere(s)' /\ Deferral(s)'
  BY <1>1, <1>2 DEF Inv, Sound, StepThere, Deferral, serverVars, pathVars
<1> QED
  BY <1>1, <1>2, <1>3, <1>4, <1>5, AloneStays DEF httpVars

(* the error that the handler gets;                                        *)
LEMMA ReplyErrorStays ==
  ASSUME Inv, NEW s \in Clients, ReplyError(s)
  PROVE  Inv'
<1>1. /\ at[s] = "reply" /\ post[s] = "wait" /\ "leave" \in Places /\ "error" \in Posts
      /\ post' = [post EXCEPT ![s] = "error"]
      /\ at' = [at EXCEPT ![s] = "leave"]
      /\ ctxDone' = ctxDone \cup {s}
      /\ UNCHANGED <<serverVars, step, role, deferred, status, candidates, patch, pathVars,
                     commandVars>>
  BY DEF ReplyError, UnchangedCommands, Places, Posts
<1>2. /\ at' \in [Clients -> Places] /\ at'[s] = "leave"
      /\ post' \in [Clients -> Posts] /\ post'[s] = "error"
      /\ \A q \in Clients \ {s} : at'[q] = at[q] /\ post'[q] = post[q]
      /\ ctxDone' \subseteq Clients /\ ctxDone \subseteq ctxDone'
  BY <1>1 DEF Inv, TypeOK
<1>3. Types'
  BY <1>1, <1>2 DEF Types, Inv, TypeOK, serverVars, pathVars, commandVars, CommandsTypeOK
<1>4. Alone(s)
  BY <1>1, <1>2 DEF Alone, pathVars
<1>5. StepThere(s)' /\ Deferral(s)'
  BY <1>1, <1>2 DEF Inv, Sound, StepThere, Deferral, serverVars, pathVars
<1> QED
  BY <1>1, <1>2, <1>3, <1>4, <1>5, AloneStays

(* its leave of the server, or of a server that is closing,                *)
LEMMA CloseGivesUpStays ==
  ASSUME Inv, NEW s \in Clients, CloseGivesUp(s)
  PROVE  Inv'
<1>1. /\ at[s] = "leave" /\ serverDone /\ "last" \in Places
      /\ at' = [at EXCEPT ![s] = "last"]
      /\ UNCHANGED <<serverVars, step, role, deferred, ctxDone, status, httpVars, pathVars,
                     commandVars>>
  BY DEF CloseGivesUp, UnchangedCommands, Places
<1>2. /\ at' \in [Clients -> Places] /\ at'[s] = "last"
      /\ \A q \in Clients \ {s} : at'[q] = at[q]
  BY <1>1 DEF Inv, TypeOK
<1>3. Types'
  BY <1>1, <1>2 DEF Types, Inv, TypeOK, serverVars, httpVars, pathVars, commandVars, CommandsTypeOK
<1>4. Alone(s)
  BY <1>1, <1>2 DEF Alone, httpVars, pathVars
<1>5. StepThere(s)' /\ Deferral(s)'
  BY <1>1, <1>2 DEF Inv, Sound, StepThere, Deferral, serverVars, pathVars
<1> QED
  BY <1>1, <1>2, <1>3, <1>4, <1>5, AloneStays DEF httpVars

(* which takes it out of its table;                                        *)
LEMMA CloseConnStays ==
  ASSUME Inv, NEW s \in Clients, CloseConn(s)
  PROVE  Inv'
<1>1. /\ at[s] = "leave" /\ "last" \in Places /\ table' = table \ {s}
      /\ at' = [at EXCEPT ![s] = "last"]
      /\ UNCHANGED <<kind, wants, serverAt, serverDone, closing, listener, offered, step, role,
                     deferred, ctxDone, status, httpVars, pathVars, commandVars>>
  BY DEF CloseConn, UnchangedCommands, Places
<1>2. /\ at' \in [Clients -> Places] /\ at'[s] = "last"
      /\ \A q \in Clients \ {s} : at'[q] = at[q]
      /\ table' \subseteq Clients
  BY <1>1 DEF Inv, TypeOK
<1>3. Types'
  BY <1>1, <1>2 DEF Types, Inv, TypeOK, httpVars, pathVars, commandVars, CommandsTypeOK
<1>4. Still /\ Listener' /\ NoPanic' /\ \A id : Runs(id)' <=> Runs(id)
  BY <1>1 DEF Still, Inv, Listener, NoPanic, Runs, commandVars
<1>5. \A q \in Clients \ {s} : Aside(q)
  BY <1>1, <1>2, <1>4 DEF Aside, httpVars, pathVars
<1>6. Fresh(s)' /\ StepThere(s)' /\ Deferral(s)' /\ HooksFollow(s)' /\ Tabled(s)'
  BY <1>1, <1>2, <1>4 DEF Inv, Sound, Fresh, StepThere, Deferral, HooksFollow, Tabled,
     httpVars, pathVars, commandVars
<1> QED
  BY <1>3, <1>4, <1>5, <1>6, OneSession DEF Sound

(* and its last hook.                                                      *)
LEMMA OnDisconnectStays ==
  ASSUME Inv, NEW s \in Clients, OnDisconnect(s)
  PROVE  Inv'
<1>1. /\ at[s] = "last" /\ "gone" \in Places
      /\ commands' = IF kind = "webrtc" THEN commands ELSE End(commands, s, "connect")
      /\ at' = [at EXCEPT ![s] = "gone"]
      /\ UNCHANGED <<serverVars, step, role, deferred, ctxDone, status, httpVars, pathVars,
                     hookConf>>
  BY DEF OnDisconnect, Places
<1>2. /\ at' \in [Clients -> Places] /\ at'[s] = "gone"
      /\ \A q \in Clients \ {s} : at'[q] = at[q]
  BY <1>1 DEF Inv, TypeOK
<1>3. /\ commands' \in [CommandIds -> [at : CommandSteps, restart : BOOLEAN, closed : BOOLEAN]]
      /\ NoPanic'
      /\ \A r \in Owners, h \in Hooks :
           Runs(<<r, h>>)' <=>
             /\ Runs(<<r, h>>)
             /\ ~(kind # "webrtc" /\ r = s /\ h = "connect" /\ hookConf.hook = "connect" /\ hookConf.run)
  <2>0. Sound(s) /\ TypeOK /\ NoPanic
    BY DEF Inv
  <2>1. CASE kind # "webrtc"
    <3>1. s \in Owners /\ hookConf.hook = "connect" /\ hookConf.run => Runs(<<s, "connect">>)
      BY <1>1, <2>0, <2>1 DEF Sound, HooksFollow
    <3>2. commands' = End(commands, s, "connect") /\ "connect" \in Hooks
      BY <1>1, <2>1 DEF Hooks
    <3> QED
      BY <2>0, <2>1, <3>1, <3>2, EndRuns
  <2>2. CASE kind = "webrtc"
    BY <1>1, <2>0, <2>2 DEF TypeOK, CommandsTypeOK, NoPanic, Runs
  <2> QED
    BY <2>1, <2>2
<1>4. Types'
  BY <1>1, <1>2, <1>3 DEF Types, Inv, TypeOK, serverVars, httpVars, pathVars, CommandsTypeOK
<1>5. Still /\ Listener'
  BY <1>1 DEF Still, Inv, Listener, serverVars
<1>6. \A q \in Clients \ {s} : Aside(q)
  BY <1>1, <1>2, <1>3 DEF Aside, serverVars, httpVars, pathVars
<1>7. Fresh(s)' /\ StepThere(s)' /\ Deferral(s)' /\ Tabled(s)'
  BY <1>1, <1>2 DEF Inv, Sound, Fresh, StepThere, Deferral, Tabled, serverVars, httpVars, pathVars
<1>8. HooksFollow(s)'
  BY <1>1, <1>2, <1>3 DEF Inv, Sound, HooksFollow, Hooks, serverVars
<1> QED
  BY <1>3, <1>4, <1>5, <1>6, <1>7, <1>8, OneSession DEF Sound

(* A reader begins to be read: its hook has not run before.                *)
LEMMA OnReadStays ==
  ASSUME Inv, NEW s \in Clients, OnRead(s)
  PROVE  Inv'
<1>1. /\ In(s, "onRead") /\ Advance(s) /\ commands' = Begin(commands, s, "read")
      /\ UNCHANGED <<serverVars, httpVars, pathVars, hookConf>>
  BY DEF OnRead
<1>2. /\ step' = [step EXCEPT ![s] = step[s] + 1]
      /\ deferred' = [deferred EXCEPT ![s] = Undo(s, "onRead") \o deferred[s]]
      /\ step' \in [Clients -> 1..10] /\ deferred' \in [Clients -> Seq(Undone)]
      /\ at' = at /\ role' = role /\ ctxDone' = ctxDone /\ status' = status
  BY <1>1, AdvanceTypes
<1>3. /\ deferred'[s] = Undo(s, "onRead") \o deferred[s] /\ step'[s] = step[s] + 1
      /\ \A q \in Clients \ {s} : deferred'[q] = deferred[q] /\ step'[q] = step[q]
  BY <1>2 DEF Inv, TypeOK
<1>4. kind' = kind
  BY <1>1 DEF serverVars
<1>5. /\ StepThere(s)' /\ at[s] = "run" /\ Once(deferred'[s])
      /\ \A x : Holds(deferred'[s], x) <=> Holds(deferred[s], x) \/ Undo(s, "onRead") = <<x>>
      /\ ~Holds(deferred[s], "readHook")
      /\ Holds(deferred'[s], "readHook") =>
           \A i \in DOMAIN Steps(kind', role'[s]) :
             i >= step'[s] => Steps(kind', role'[s])[i] # "onRead"
  BY <1>1, <1>2, <1>3, <1>4, AdvanceDefers
<1>6. /\ commands' \in [CommandIds -> [at : CommandSteps, restart : BOOLEAN, closed : BOOLEAN]]
      /\ NoPanic'
      /\ \A q \in Owners, h \in Hooks :
           Runs(<<q, h>>)' <=>
             \/ Runs(<<q, h>>)
             \/ q = s /\ h = "read" /\ hookConf.hook = "read" /\ hookConf.run
  BY <1>1, BeginRuns DEF Inv, Hooks
<1>7. Types'
  BY <1>1, <1>2, <1>6 DEF Types, Inv, TypeOK, serverVars, httpVars, pathVars, CommandsTypeOK
<1>8. Still /\ Listener'
  BY <1>1, <1>2 DEF Still, Inv, Listener, serverVars
<1>9. \A q \in Clients \ {s} : Aside(q)
  BY <1>1, <1>2, <1>3, <1>6 DEF Aside, serverVars, httpVars, pathVars
<1>10. Sound(s)
  BY DEF Inv
<1>11. Fresh(s)' /\ Tabled(s)'
  BY <1>1, <1>2, <1>5, <1>10 DEF Sound, Fresh, Tabled, serverVars, httpVars
<1>12. Deferral(s)'
  BY <1>1, <1>2, <1>5, <1>10 DEF Sound, Deferral, pathVars
<1>13. HooksFollow(s)'
  <2>1. Holds(deferred'[s], "readHook")
    BY <1>5 DEF Undo
  <2> QED
    BY <1>1, <1>2, <1>5, <1>6, <1>10, <2>1 DEF Sound, HooksFollow, Hooks, serverVars
<1> QED
  BY <1>5, <1>6, <1>7, <1>8, <1>9, <1>11, <1>12, <1>13, OneSession DEF Sound

-----------------------------------------------------------------------------
(* Steps of the server, of the handlers and of the path.                   *)

(* Those in which no session moves.                                        *)
LEMMA NobodyMoves ==
  ASSUME Inv, Types', Listener', UNCHANGED <<at, step, role, deferred, post, commandVars, kind>>,
         ctxDone \subseteq ctxDone', serverDone => serverDone', listed' \subseteq listed,
         registered' = registered,
         \A s \in Clients : s \in table' => s \in table,
         \A s \in Clients : s \in table => s \in table' \cup ctxDone',
         \A s \in Clients : listener' = "offering" /\ offered' = s => at[s] = "none"
  PROVE  Inv'
<1>1. NoPanic' /\ \A id : Runs(id)' <=> Runs(id)
  BY DEF Inv, NoPanic, Runs, commandVars
<1>2. ASSUME NEW s \in Clients PROVE Sound(s)'
  <2>1. Sound(s)
    BY DEF Inv
  <2>2. Fresh(s)' /\ StepThere(s)' /\ Tabled(s)'
    BY <2>1 DEF Sound, Fresh, StepThere, Tabled
  <2>3. Deferral(s)'
    BY <2>1 DEF Sound, Deferral
  <2>4. HooksFollow(s)'
    BY <1>1, <2>1 DEF Sound, HooksFollow, commandVars
  <2> QED
    BY <2>2, <2>3, <2>4 DEF Sound
<1> QED
  BY <1>1, <1>2 DEF Inv, Types

(* The listener fails, the server is closed, its loop ends.                *)
LEMMA ServerStays ==
  ASSUME Inv, AcceptFails \/ AcceptError \/ CloseServer \/ LoopEnds \/ Closed
  PROVE  Inv'
<1>1. /\ UNCHANGED <<kind, wants, offered, table, sessionVars, httpVars, pathVars, commandVars>>
      /\ serverDone => serverDone'
      /\ listener' = "offering" => listener = "offering"
      /\ kind = "webrtc" => listener' = "ended"
      /\ serverAt' \in {"select", "left", "ended"}
      /\ serverDone' \in BOOLEAN /\ closing' \in BOOLEAN
      /\ listener' \in {"accepting", "offering", "failing", "ended"}
  BY DEF AcceptFails, AcceptError, CloseServer, LoopEnds, Closed, UnchangedCommands, Inv,
     TypeOK, Listener
<1>2. Types'
  BY <1>1 DEF Types, Inv, TypeOK, sessionVars, httpVars, pathVars, commandVars, CommandsTypeOK
<1>3. Listener'
  BY <1>1 DEF Inv, Listener
<1>4. \A s \in Clients : listener' = "offering" /\ offered' = s => at[s] = "none"
  BY <1>1 DEF Inv, Sound, Fresh
<1> QED
  BY <1>1, <1>2, <1>3, <1>4, NobodyMoves DEF sessionVars, httpVars, pathVars

(* Sessions are closed.                                                    *)
LEMMA ClosingStays ==
  ASSUME Inv, NEW s \in Clients, Kick(s) \/ PathCloses(s)
  PROVE  Inv'
<1>1. /\ UNCHANGED <<kind, wants, serverAt, serverDone, closing, listener, offered, at, step, role,
                     deferred, status, httpVars, registered, commandVars>>
      /\ ctxDone' = ctxDone \cup {s}
      /\ table' \in {table, table \ {s}} /\ listed' \in {listed, listed \ {s}}
  BY DEF Kick, PathCloses, UnchangedCommands, serverVars, pathVars
<1>2. Types'
  BY <1>1 DEF Types, Inv, TypeOK, httpVars, commandVars, CommandsTypeOK
<1>3. Listener'
  BY <1>1 DEF Inv, Listener
<1>4. \A q \in Clients : listener' = "offering" /\ offered' = q => at[q] = "none"
  BY <1>1 DEF Inv, Sound, Fresh
<1> QED
  BY <1>1, <1>2, <1>3, <1>4, NobodyMoves DEF httpVars

(* Candidates are added to a session that has been answered.               *)
LEMMA CandidatesStay ==
  ASSUME Inv,
         \/ \E s \in Clients : CandidatesEnd(s)
         \/ \E p \in Patches : \/ AddSessionCandidates(p) \/ AddCandidates(p)
                               \/ \E s \in Clients : OnWHIPPatch(p, s)
  PROVE  Inv'
<1>1. UNCHANGED <<serverVars, sessionVars, post, pathVars, commandVars>>
  BY DEF CandidatesEnd, AddSessionCandidates, AddCandidates, OnWHIPPatch, UnchangedCommands
<1> DEFINE P == [at : {"idle", "lookup", "send"}, of : Clients \cup {Nil}]
           C == {"none", "select", "blocked", "ended"}
<1>0. patch \in [Patches -> P] /\ candidates \in [Clients -> C]
  BY DEF Inv, TypeOK
<1>2. candidates' \in [Clients -> C]
  <2>1. ASSUME NEW s, NEW c \in C, candidates' = [candidates EXCEPT ![s] = c]
        PROVE  candidates' \in [Clients -> C]
    BY <1>0, <2>1
  <2>2. CASE \E s \in Clients : CandidatesEnd(s)
    BY <2>1, <2>2 DEF CandidatesEnd
  <2>3. ASSUME NEW p \in Patches, AddCandidates(p)
        PROVE  candidates' \in [Clients -> C]
    BY <1>0, <2>1, <2>3 DEF AddCandidates
  <2> QED
    BY <1>0, <2>2, <2>3 DEF AddSessionCandidates, OnWHIPPatch
<1>3. patch' \in [Patches -> P]
  <2>1. ASSUME NEW p \in Patches, NEW x \in P, patch' = [patch EXCEPT ![p] = x]
        PROVE  patch' \in [Patches -> P]
    BY <1>0, <2>1
  <2>2. [at |-> "idle", of |-> Nil] \in P
    OBVIOUS
  <2>3. ASSUME NEW p \in Patches, AddSessionCandidates(p)
        PROVE  patch' \in [Patches -> P]
    <3>1. CASE patch' = [patch EXCEPT ![p].at = "send"]
      <4>1. patch[p] \in P
        BY <1>0
      <4>2. [patch[p] EXCEPT !.at = "send"] \in P
        BY <4>1
      <4>3. patch' = [patch EXCEPT ![p] = [patch[p] EXCEPT !.at = "send"]]
        BY <3>1
      <4> HIDE DEF P
      <4> QED
        BY <2>1, <4>2, <4>3
    <3> QED
      BY <2>1, <2>2, <2>3, <3>1 DEF AddSessionCandidates
  <2>4. ASSUME NEW p \in Patches, AddCandidates(p)
        PROVE  patch' \in [Patches -> P]
    BY <2>1, <2>2, <2>4 DEF AddCandidates
  <2>5. ASSUME NEW p \in Patches, NEW s \in Clients, OnWHIPPatch(p, s)
        PROVE  patch' \in [Patches -> P]
    BY <2>1, <2>5 DEF OnWHIPPatch
  <2> QED
    BY <1>0, <2>3, <2>4, <2>5 DEF CandidatesEnd
<1>4. Types'
  BY <1>1, <1>2, <1>3
     DEF Types, Inv, TypeOK, serverVars, sessionVars, pathVars, commandVars, CommandsTypeOK
<1>5. Listener'
  BY <1>1 DEF Inv, Listener, serverVars
<1>6. \A q \in Clients : listener' = "offering" /\ offered' = q => at[q] = "none"
  BY <1>1 DEF Inv, Sound, Fresh, serverVars
<1> QED
  BY <1>1, <1>4, <1>5, <1>6, NobodyMoves DEF serverVars, sessionVars, pathVars

(* A command goes on: what a hook has begun goes on until it is ended.     *)
LEMMA CommandStays ==
  ASSUME Inv, Command
  PROVE  Inv'
<1>1. PICK id \in CommandIds :
        CommandStep(id) /\ UNCHANGED <<serverVars, sessionVars, httpVars, pathVars>>
  BY DEF Command
<1>2. PICK to \in {"starting", "running", "pausing", "ended"} :
        /\ commands[id].at # "none"
        /\ commands' = [commands EXCEPT ![id].at = to] /\ UNCHANGED hookConf
  BY <1>1 DEF CommandStep, Starts, CannotStart, Exits, Terminated, PauseOver, PauseTerminated,
     Moves, Again
<1>3. commands \in [CommandIds -> [at : CommandSteps, restart : BOOLEAN, closed : BOOLEAN]]
  BY DEF Inv, TypeOK, CommandsTypeOK
<1>4. commands' \in [CommandIds -> [at : CommandSteps, restart : BOOLEAN, closed : BOOLEAN]]
  BY <1>2, <1>3 DEF CommandSteps
<1>5. \A o \in CommandIds : /\ commands'[o].closed = commands[o].closed
                            /\ commands'[o].at = IF o = id THEN to ELSE commands[o].at
  BY <1>2, <1>3
<1>6. Types'
  BY <1>1, <1>2, <1>4
     DEF Types, Inv, TypeOK, serverVars, sessionVars, httpVars, pathVars, CommandsTypeOK
<1>7. Still /\ Listener'
  BY <1>1, <1>2 DEF Inv, Listener, Still, serverVars, sessionVars
<1>8. NoPanic'
  BY <1>5 DEF Inv, NoPanic
<1>9. \A q \in Owners, h \in Hooks : Runs(<<q, h>>)' <=> Runs(<<q, h>>)
  <2>1. \A q \in Owners, h \in Hooks : <<q, h>> \in CommandIds
    BY DEF CommandIds, Hooks
  <2> QED
    BY <1>2, <1>5, <2>1 DEF Runs
<1>10. \A q \in Clients : Aside(q)
  BY <1>1, <1>9 DEF Aside, serverVars, sessionVars, httpVars, pathVars
<1>11. \A q \in Clients : Sound(q)'
  BY <1>7, <1>10, AsideStays DEF Inv
<1> QED
  BY <1>6, <1>7, <1>8, <1>11 DEF Inv, Types

(* A connection is offered to the server: nothing of it is there.          *)
LEMMA AcceptStays ==
  ASSUME Inv, NEW s \in Clients, Accept(s)
  PROVE  Inv'
<1>1. PICK r \in Roles : role' = [role EXCEPT ![s] = r]
  BY WantsRoles DEF Accept, Inv
<1>2. /\ listener = "accepting" /\ at[s] = "none"
      /\ listener' = "offering" /\ offered' = s
      /\ UNCHANGED <<kind, wants, serverAt, serverDone, closing, table, at, step, deferred,
                     ctxDone, status, httpVars, pathVars, commandVars>>
  BY DEF Accept, UnchangedCommands
<1>3. /\ role' \in [Clients -> Roles] /\ role'[s] = r
      /\ \A q \in Clients \ {s} : role'[q] = role[q]
  BY <1>1 DEF Inv, TypeOK, Roles
<1>4. Types'
  BY <1>2, <1>3 DEF Types, Inv, TypeOK, httpVars, pathVars, commandVars, CommandsTypeOK, Roles
<1>5. Still /\ Listener' /\ NoPanic' /\ \A id : Runs(id)' <=> Runs(id)
  BY <1>2 DEF Still, Inv, Listener, NoPanic, Runs, commandVars
<1>6. \A q \in Clients \ {s} : Aside(q)
  BY <1>2, <1>3, <1>5 DEF Aside, httpVars, pathVars
<1>7. Sound(s)
  BY DEF Inv
<1>8. StepThere(s)'
  <2>1. step[s] = 1 /\ Regular(Steps(kind, r))
    BY <1>2, <1>7, KindIs, StepsRegular DEF Sound, Fresh, Inv
  <2> QED
    BY <1>2, <1>3, <2>1 DEF StepThere, Regular
<1>9. Fresh(s)' /\ Deferral(s)' /\ HooksFollow(s)' /\ Tabled(s)'
  BY <1>2, <1>5, <1>7 DEF Sound, Fresh, Deferral, HooksFollow, Tabled, httpVars, pathVars, commandVars
<1> QED
  BY <1>4, <1>5, <1>6, <1>8, <1>9, OneSession DEF Sound

(* The server takes it, and its first hook begins; or it is closing.       *)
LEMMA NewConnStays ==
  ASSUME Inv, NewConn
  PROVE  Inv'
<1>0. PICK s \in Clients : s = offered
  BY DEF NewConn, Inv, Listener
<1>1. /\ listener = "offering" /\ table' = table \cup {s}
      /\ at' = [at EXCEPT ![s] = "run"] /\ "run" \in Places
      /\ commands' = Begin(commands, s, "connect")
      /\ listener' = "accepting" /\ offered' = Nil
      /\ UNCHANGED <<kind, wants, serverAt, serverDone, closing, step, role, deferred, ctxDone,
                     status, httpVars, pathVars, hookConf>>
  BY <1>0 DEF NewConn, Places
<1>2. s \in Clients /\ kind # "webrtc" /\ TypeOK /\ NoPanic
  BY <1>1 DEF Inv, Listener
<1>3. Sound(s) /\ at[s] = "none"
  BY <1>0, <1>1, <1>2 DEF Inv, Sound, Fresh
<1>4. /\ at' \in [Clients -> Places] /\ at'[s] = "run"
      /\ \A q \in Clients \ {s} : at'[q] = at[q]
      /\ table' \subseteq Clients
  BY <1>1, <1>2 DEF TypeOK
<1>5. /\ commands' \in [CommandIds -> [at : CommandSteps, restart : BOOLEAN, closed : BOOLEAN]]
      /\ NoPanic'
      /\ \A q \in Owners, h \in Hooks :
           Runs(<<q, h>>)' <=>
             \/ Runs(<<q, h>>)
             \/ q = s /\ h = "connect" /\ hookConf.hook = "connect" /\ hookConf.run
  BY <1>1, <1>2, BeginRuns DEF Hooks
<1>6. Types'
  BY <1>1, <1>2, <1>4, <1>5 DEF Types, Inv, TypeOK, httpVars, pathVars, CommandsTypeOK
<1>7. Still /\ Listener'
  BY <1>1, <1>2 DEF Still, Listener
<1>8. \A q \in Clients \ {s} : Aside(q)
  BY <1>1, <1>4, <1>5 DEF Aside, httpVars, pathVars
<1>9. Fresh(s)' /\ StepThere(s)' /\ Tabled(s)'
  BY <1>1, <1>2, <1>3, <1>4 DEF Sound, Fresh, StepThere, Tabled, httpVars
<1>10. Deferral(s)'
  BY <1>1, <1>3, <1>4, HoldsEmpty DEF Sound, Deferral, pathVars
<1>11. HooksFollow(s)'
  BY <1>1, <1>2, <1>3, <1>4, <1>5 DEF Sound, HooksFollow, Hooks
<1> QED
  BY <1>2, <1>5, <1>6, <1>7, <1>8, <1>9, <1>10, <1>11, OneSession DEF Sound

(* A connection that comes too late is closed at once.                     *)
LEMMA NewConnGivesUpStays ==
  ASSUME Inv, NewConnGivesUp
  PROVE  Inv'
<1>0. PICK s \in Clients : s = offered
  BY DEF NewConnGivesUp, Inv, Listener
<1>1. /\ listener = "offering" /\ serverDone
      /\ at' = [at EXCEPT ![s] = "gone"] /\ "gone" \in Places
      /\ listener' = "accepting" /\ offered' = Nil
      /\ UNCHANGED <<kind, wants, serverAt, serverDone, closing, table, step, role, deferred,
                     ctxDone, status, httpVars, pathVars, commandVars>>
  BY <1>0 DEF NewConnGivesUp, Places, UnchangedCommands
<1>2. s \in Clients /\ kind # "webrtc"
  BY <1>1 DEF Inv, Listener
<1>3. Sound(s) /\ at[s] = "none"
  BY <1>0, <1>1, <1>2 DEF Inv, Sound, Fresh
<1>4. /\ at' \in [Clients -> Places] /\ at'[s] = "gone"
      /\ \A q \in Clients \ {s} : at'[q] = at[q]
  BY <1>1, <1>2 DEF Inv, TypeOK
<1>5. Types'
  BY <1>1, <1>4 DEF Types, Inv, TypeOK, httpVars, pathVars, commandVars, CommandsTypeOK
<1>6. Still /\ Listener' /\ NoPanic' /\ \A id : Runs(id)' <=> Runs(id)
  BY <1>1, <1>2 DEF Still, Inv, Listener, NoPanic, Runs, commandVars
<1>7. \A q \in Clients \ {s} : Aside(q)
  BY <1>1, <1>4, <1>6 DEF Aside, httpVars, pathVars
<1>8. Fresh(s)' /\ StepThere(s)' /\ Deferral(s)' /\ HooksFollow(s)' /\ Tabled(s)'
  BY <1>1, <1>2, <1>3, <1>4, <1>6 DEF Sound, Fresh, StepThere, Deferral, HooksFollow, Tabled,
     httpVars, pathVars, commandVars
<1> QED
  BY <1>2, <1>5, <1>6, <1>7, <1>8, OneSession DEF Sound

(* A handler asks for a session, and the server makes it; or it ends.      *)
LEMMA OnWHIPPostStays ==
  ASSUME Inv, NEW s \in Clients, OnWHIPPost(s)
  PROVE  Inv'
<1>1. PICK r \in Roles : role' = [role EXCEPT ![s] = r]
  BY WantsRoles DEF OnWHIPPost, Inv
<1>2. /\ kind = "webrtc" /\ post[s] = "none" /\ "queued" \in Posts
      /\ post' = [post EXCEPT ![s] = "queued"]
      /\ UNCHANGED <<serverVars, at, step, deferred, ctxDone, status, candidates, patch,
                     pathVars, commandVars>>
  BY DEF OnWHIPPost, UnchangedCommands, Posts
<1>3. /\ role' \in [Clients -> Roles] /\ role'[s] = r
      /\ post' \in [Clients -> Posts] /\ post'[s] = "queued"
      /\ \A q \in Clients \ {s} : role'[q] = role[q] /\ post'[q] = post[q]
  BY <1>1, <1>2 DEF Inv, TypeOK, Roles
<1>4. Types'
  BY <1>2, <1>3 DEF Types, Inv, TypeOK, serverVars, pathVars, commandVars, CommandsTypeOK, Roles
<1>5. Still /\ Listener' /\ NoPanic' /\ \A id : Runs(id)' <=> Runs(id)
  BY <1>2 DEF Still, Inv, Listener, NoPanic, Runs, commandVars, serverVars
<1>6. \A q \in Clients \ {s} : Aside(q)
  BY <1>2, <1>3, <1>5 DEF Aside, serverVars, pathVars
<1>7. Sound(s) /\ at[s] = "none"
  BY <1>2 DEF Inv, Sound, Fresh
<1>8. StepThere(s)'
  <2>1. step[s] = 1 /\ Regular(Steps(kind, r))
    BY <1>2, <1>7, KindIs, StepsRegular DEF Sound, Fresh, Inv
  <2> QED
    BY <1>2, <1>3, <2>1 DEF StepThere, Regular, serverVars
<1>9. Fresh(s)' /\ Deferral(s)' /\ HooksFollow(s)' /\ Tabled(s)'
  BY <1>2, <1>3, <1>5, <1>7 DEF Sound, Fresh, Deferral, HooksFollow, Tabled, serverVars, pathVars,
     commandVars
<1> QED
  BY <1>4, <1>5, <1>6, <1>8, <1>9, OneSession DEF Sound

(* The server makes the session.                                           *)
LEMMA NewSessionStays ==
  ASSUME Inv, NEW s \in Clients, NewSession(s)
  PROVE  Inv'
<1>1. /\ post[s] = "queued" /\ table' = table \cup {s}
      /\ at' = [at EXCEPT ![s] = "run"] /\ "run" \in Places
      /\ post' = [post EXCEPT ![s] = "offer"] /\ "offer" \in Posts
      /\ UNCHANGED <<kind, wants, serverAt, serverDone, closing, listener, offered, step, role,
                     deferred, ctxDone, status, candidates, patch, pathVars, commandVars>>
  BY DEF NewSession, UnchangedCommands, Places, Posts
<1>2. Sound(s) /\ at[s] = "none" /\ kind = "webrtc" /\ listener = "ended"
  BY <1>1 DEF Inv, Sound, Fresh, Listener
<1>3. /\ at' \in [Clients -> Places] /\ at'[s] = "run"
      /\ post' \in [Clients -> Posts] /\ post'[s] = "offer"
      /\ \A q \in Clients \ {s} : at'[q] = at[q] /\ post'[q] = post[q]
      /\ table' \subseteq Clients
  BY <1>1 DEF Inv, TypeOK
<1>4. Types'
  BY <1>1, <1>3 DEF Types, Inv, TypeOK, pathVars, commandVars, CommandsTypeOK
<1>5. Still /\ Listener' /\ NoPanic' /\ \A id : Runs(id)' <=> Runs(id)
  BY <1>1 DEF Still, Inv, Listener, NoPanic, Runs, commandVars
<1>6. \A q \in Clients \ {s} : Aside(q)
  BY <1>1, <1>3, <1>5 DEF Aside, pathVars
<1>7. Fresh(s)' /\ StepThere(s)' /\ Tabled(s)' /\ HooksFollow(s)'
  BY <1>1, <1>2, <1>3, <1>5 DEF Sound, Fresh, StepThere, Tabled, HooksFollow, commandVars
<1>8. Deferral(s)'
  BY <1>1, <1>2, <1>3, HoldsEmpty DEF Sound, Deferral, pathVars
<1> QED
  BY <1>4, <1>5, <1>6, <1>7, <1>8, OneSession DEF Sound

(* The handler gives up.                                                   *)
LEMMA NewGivesUpStays ==
  ASSUME Inv, NEW s \in Clients, NewGivesUp(s)
  PROVE  Inv'
<1>1. /\ post[s] \in {"queued", "offer"} /\ "terminated" \in Posts
      /\ post' = [post EXCEPT ![s] = "terminated"]
      /\ UNCHANGED <<serverVars, sessionVars, candidates, patch, pathVars, commandVars>>
  BY DEF NewGivesUp, UnchangedCommands, Posts
<1>2. /\ post' \in [Clients -> Posts] /\ post'[s] = "terminated"
      /\ \A q \in Clients \ {s} : post'[q] = post[q]
  BY <1>1 DEF Inv, TypeOK
<1>3. Types'
  BY <1>1, <1>2
     DEF Types, Inv, TypeOK, serverVars, sessionVars, pathVars, commandVars, CommandsTypeOK
<1>4. Still /\ Listener' /\ NoPanic' /\ \A id : Runs(id)' <=> Runs(id)
  BY <1>1 DEF Still, Inv, Listener, NoPanic, Runs, commandVars, serverVars, sessionVars
<1>5. \A q \in Clients \ {s} : Aside(q)
  BY <1>1, <1>2, <1>4 DEF Aside, serverVars, sessionVars, pathVars
<1>6. Fresh(s)' /\ StepThere(s)' /\ Deferral(s)' /\ HooksFollow(s)' /\ Tabled(s)'
  BY <1>1, <1>2, <1>4 DEF Inv, Sound, Fresh, StepThere, Deferral, HooksFollow, Tabled,
     serverVars, sessionVars, pathVars, commandVars
<1> QED
  BY <1>3, <1>4, <1>5, <1>6, OneSession DEF Sound

(* Every step keeps the invariant.                                         *)
LEMMA NextInv == Inv /\ [Next]_vars => Inv'
<1> SUFFICES ASSUME Inv, [Next]_vars PROVE Inv'
  OBVIOUS
<1>1. ASSUME NEW s \in Clients, SessionStep(s) PROVE Inv'
  BY <1>1, PeerStays, PathAnswersStays, PauseOverStays, FromStreamStays, OnReadStays, UnwindStays,
     UnwoundStays, CloseGivesUpStays, CloseConnStays, OnDisconnectStays, ChNewStays, AnswerStays,
     ReplyErrorStays DEF SessionStep
<1>2. ASSUME NEW s \in Clients,
             \/ Serves(s) \/ Accept(s) \/ OnWHIPPost(s) \/ NewSession(s) \/ NewGivesUp(s)
             \/ Kick(s) \/ PathCloses(s)
      PROVE  Inv'
  BY <1>2, ServesStays, AcceptStays, OnWHIPPostStays, NewSessionStays, NewGivesUpStays, ClosingStays
<1>3. CASE \/ \E s \in Clients : CandidatesEnd(s)
           \/ \E p \in Patches : \/ AddSessionCandidates(p) \/ AddCandidates(p)
                                 \/ \E s \in Clients : OnWHIPPatch(p, s)
  BY <1>3, CandidatesStay
<1>4. CASE AcceptFails \/ AcceptError \/ CloseServer \/ LoopEnds \/ Closed
  BY <1>4, ServerStays
<1>5. CASE NewConn \/ NewConnGivesUp
  BY <1>5, NewConnStays, NewConnGivesUpStays
<1>6. CASE Command
  BY <1>6, CommandStays
<1>7. CASE UNCHANGED vars
  <2>1. UNCHANGED <<serverVars, sessionVars, httpVars, pathVars, commandVars>>
    BY <1>7 DEF vars
  <2>2. Types' /\ Listener'
    BY <2>1 DEF Inv, Types, TypeOK, Listener, serverVars, sessionVars, httpVars, pathVars,
       commandVars, CommandsTypeOK
  <2>3. \A q \in Clients : listener' = "offering" /\ offered' = q => at[q] = "none"
    BY <2>1 DEF Inv, Sound, Fresh, serverVars
  <2> QED
    BY <2>1, <2>2, <2>3, NobodyMoves DEF serverVars, sessionVars, httpVars, pathVars
<1> QED
  BY <1>1, <1>2, <1>3, <1>4, <1>5, <1>6, <1>7 DEF Next

(* Every variable keeps its type: no session gets beyond its last step.    *)
THEOREM TypeCorrect == Spec => []TypeOK
<1>1. Init => Inv
  BY InitInv
<1>2. Inv /\ [Next]_vars => Inv'
  BY NextInv
<1>3. Inv => TypeOK
  BY DEF Inv
<1>4. QED
  BY <1>1, <1>2, <1>3, PTL DEF Spec

(* Whatever fails, whoever closes them and in whatever order: while the    *)
(* server runs it finds the sessions that serve and shows none that is     *)
(* gone, and those that are gone are not listed by a path, not fed by a    *)
(* stream, and have ended each of their hooks, once.                       *)
THEOREM SessionsStayAccountedFor == Spec => []SessionsAccountedFor
<1>1. Init => Inv
  BY InitInv
<1>2. Inv /\ [Next]_vars => Inv'
  BY NextInv
<1>3. Inv => SessionsAccountedFor
  BY InvIsEnough
<1>4. QED
  BY <1>1, <1>2, <1>3, PTL DEF Spec
=============================================================================
