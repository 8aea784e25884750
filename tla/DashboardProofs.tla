--------------------------- MODULE DashboardProofs ---------------------------
(***************************************************************************)
(* However many requests there are, and however their statements mix, the  *)
(* database of the dashboard stays whole and the answers are true of it;   *)
(* and while nothing fails the page of a patient user shows what it holds. *)
(***************************************************************************)
EXTENDS Dashboard, TLAPS

Fields == {"at", "page", "kind", "user", "cam", "data", "read", "status", "body"}
IsRequest(q) == q = [f \in Fields |-> q[f]]

(* A request is at a query of its handler,                                 *)
Matches(q) ==
  /\ q.at = "FindAccount" => q.kind \in {"register", "login"}
  /\ q.at = "CreateAccount" => q.kind = "register"
  /\ q.at \in {"ListCameras", "ListAlerts"} => q.kind \in {"cameras", "alerts"}
  /\ q.at \in {"CreateCamera", "CreateAlert"} => q.kind = "create"
  /\ q.at = "FindCamera" => q.kind \in {"patch", "delete"}
  /\ q.at \in {"UpdateCamera", "timer"} => q.kind = "patch"
  /\ q.at \in {"DeleteAlerts", "DeleteCamera"} => q.kind = "delete"

(* what it deletes was there once,                                         *)
Was(c, next) == c \in Nat /\ c < next
Refers(q, next) == q.at \in {"DeleteAlerts", "DeleteCamera"} => Was(q.cam, next)

(* and what it was told is true.                                           *)
Told(q, known, ids, next) ==
  q.at = "answered" /\ q.status = 200 =>
    /\ q.kind = "register" => q.user \in known
    /\ q.kind = "delete" => Was(q.cam, next) /\ q.cam \notin ids
    /\ q.kind = "patch" => \A f \in DOMAIN q.data : q.body[f] = q.data[f]

Sound(q, known, ids, next) ==
  IsRequest(q) /\ Matches(q) /\ Refers(q, next) /\ Told(q, known, ids, next)

Registered(q) == q.at = "answered" /\ q.status = 200 /\ q.kind = "register"
Completes(q, c) == q.cam = c /\ q.at \in {"CreateAlert", "DeleteCamera"}

(* The inductive invariant.                                                *)
Counters == faults \in Nat /\ nextId \in Nat
Keys     == (\A c \in DOMAIN cameras : Was(c, nextId)) /\ alerts \subseteq DOMAIN cameras
Requests ==
  /\ reqs = [r \in Slots |-> reqs[r]]
  /\ \A r \in Slots : Sound(reqs[r], accounts, DOMAIN cameras, nextId)
OneEach  ==
  \A r \in Slots, e \in Slots :
    r # e /\ Registered(reqs[r]) /\ Registered(reqs[e]) => reqs[r].user # reqs[e].user
Pending  ==
  faults = 0 => \A c \in DOMAIN cameras \ alerts : \E r \in Slots : Completes(reqs[r], c)

Inv == Counters /\ Keys /\ Requests /\ OneEach /\ Pending

LEMMA InvIsEnough == Inv => StoreIsConsistent
<1> SUFFICES ASSUME Inv PROVE StoreIsConsistent
  OBVIOUS
<1>1. StoreIsWhole
  BY DEF Inv, Keys, Pending, Completes, StoreIsWhole
<1>2. AnswersAreTrue
  <2> SUFFICES ASSUME NEW r \in Slots
               PROVE  /\ Succeeded(r, "register") => \A e \in Slots \ {r} :
                           ~(Succeeded(e, "register") /\ reqs[e].user = reqs[r].user)
                      /\ Succeeded(r, "delete") => reqs[r].cam \notin DOMAIN cameras \cup alerts
                      /\ Succeeded(r, "patch") =>
                           \A f \in DOMAIN reqs[r].data : reqs[r].body[f] = reqs[r].data[f]
    BY DEF AnswersAreTrue
  <2>1. Told(reqs[r], accounts, DOMAIN cameras, nextId)
    BY DEF Inv, Requests, Sound
  <2>2. QED
    BY <2>1 DEF Inv, OneEach, Keys, Registered, Succeeded, At, Told
<1>3. QED
  BY <1>1, <1>2 DEF StoreIsConsistent

LEMMA InitInv == Init => Inv
<1> SUFFICES ASSUME Init PROVE Inv
  OBVIOUS
<1>1. \A r \in Slots : reqs[r] = NoRequest
  BY DEF Init
<1>2. \A known, ids, next : Sound(NoRequest, known, ids, next)
  BY DEF Sound, NoRequest, IsRequest, Fields, Matches, Refers, Told
<1>3. Requests
  BY <1>1, <1>2 DEF Init, Requests
<1>4. alerts = DOMAIN cameras
  BY StoresAreWhole DEF Init
<1>5. Counters /\ Keys
  BY <1>4, BoundsAreNumbers DEF Init, Counters, Keys, Was
<1>6. OneEach
  BY <1>1 DEF OneEach, Registered, NoRequest
<1>7. QED
  BY <1>3, <1>4, <1>5, <1>6 DEF Inv, Pending

-----------------------------------------------------------------------------
(***************************************************************************)
(* The steps of the database.                                              *)
(***************************************************************************)

(* What is true of a request stays true while accounts are added and       *)
(* cameras have new identifiers.                                           *)
LEMMA SoundStays ==
  ASSUME NEW q, NEW known, NEW ids, NEW next \in Nat, Sound(q, known, ids, next),
         NEW known2, known \subseteq known2, NEW next2 \in Nat, next <= next2,
         NEW ids2, ids2 \subseteq ids \cup {next}
  PROVE  Sound(q, known2, ids2, next2)
BY DEF Sound, Refers, Told, Was

(* One request goes on, and the others are as they were.                   *)
Goes(r, q) ==
  /\ reqs' = [reqs EXCEPT ![r] = q]
  /\ Sound(q, accounts', DOMAIN cameras', nextId')
  /\ Registered(q) => q.user \notin accounts
  /\ \A c \in DOMAIN cameras' \ alerts' :
       Completes(q, c) \/ (c \in DOMAIN cameras \ alerts /\ ~Completes(reqs[r], c))

Grows ==
  /\ faults' = faults /\ nextId' \in Nat /\ nextId <= nextId' /\ accounts \subseteq accounts'
  /\ DOMAIN cameras' \subseteq DOMAIN cameras \cup {nextId} /\ Keys'

LEMMA HandlerStep ==
  ASSUME Inv, Grows, NEW r \in Slots, NEW q, Goes(r, q)
  PROVE  Inv'
<1> USE DEF Goes, Grows
<1>1. Counters'
  BY DEF Inv, Counters
<1>2. /\ reqs' = [e \in Slots |-> reqs'[e]]
      /\ reqs'[r] = q /\ \A e \in Slots \ {r} : reqs'[e] = reqs[e]
  BY DEF Inv, Requests
<1>3. \A e \in Slots : Sound(reqs[e], accounts, DOMAIN cameras, nextId)
  BY DEF Inv, Requests
<1>4. \A e \in Slots \ {r} : Sound(reqs[e], accounts', DOMAIN cameras', nextId')
  BY <1>3, SoundStays DEF Inv, Counters
<1>5. Requests'
  BY <1>2, <1>4 DEF Requests
<1>6. \A e \in Slots : Registered(reqs[e]) => reqs[e].user \in accounts
  BY <1>3 DEF Sound, Told, Registered
<1>7. OneEach'
  BY <1>2, <1>6 DEF Inv, OneEach
<1>8. Pending'
  <2> SUFFICES ASSUME faults' = 0, NEW c \in DOMAIN cameras' \ alerts'
               PROVE  \E e \in Slots : Completes(reqs'[e], c)
    BY DEF Pending, Completes
  <2>1. CASE Completes(q, c)
    BY <1>2, <2>1
  <2>2. CASE c \in DOMAIN cameras \ alerts /\ ~Completes(reqs[r], c)
    BY <1>2, <2>2 DEF Inv, Pending
  <2>3. QED
    BY <2>1, <2>2
<1>9. QED
  BY <1>1, <1>5, <1>7, <1>8 DEF Inv

(* What an answer and a further query make of a request.                   *)
Answered(q, status, body) == [q EXCEPT !.at = "answered", !.status = status, !.body = body]
Further(q, at, cam, read) == [q EXCEPT !.at = at, !.cam = cam, !.read = read]

LEMMA AnsweredFields ==
  ASSUME NEW q, IsRequest(q), NEW status, NEW body, NEW a, a = Answered(q, status, body)
  PROVE  /\ IsRequest(a) /\ a.at = "answered" /\ a.status = status /\ a.body = body
         /\ a.kind = q.kind /\ a.user = q.user /\ a.cam = q.cam /\ a.data = q.data /\ a.page = q.page
<1>1. DOMAIN q = Fields
  BY DEF IsRequest
<1>2. a = [f \in Fields |-> a[f]]
  BY <1>1 DEF Answered
<1>3. QED
  BY <1>1, <1>2 DEF Answered, IsRequest, Fields

LEMMA FurtherFields ==
  ASSUME NEW q, IsRequest(q), NEW at, NEW cam, NEW read, NEW a, a = Further(q, at, cam, read)
  PROVE  /\ IsRequest(a) /\ a.at = at /\ a.cam = cam /\ a.read = read
         /\ a.kind = q.kind /\ a.user = q.user /\ a.data = q.data /\ a.page = q.page
<1>1. DOMAIN q = Fields
  BY DEF IsRequest
<1>2. a = [f \in Fields |-> a[f]]
  BY <1>1 DEF Further
<1>3. QED
  BY <1>1, <1>2 DEF Further, IsRequest, Fields

(* A refusal tells nothing, and most answers change nothing.               *)
LEMMA Refusal ==
  ASSUME NEW q, IsRequest(q), NEW status, status # 200 \/ q.kind \notin {"register", "delete", "patch"},
         NEW body, NEW known, NEW ids, NEW next
  PROVE  /\ Sound(Answered(q, status, body), known, ids, next)
         /\ ~Registered(Answered(q, status, body))
         /\ \A c : ~Completes(Answered(q, status, body), c)
<1> DEFINE a == Answered(q, status, body)
<1>1. IsRequest(a) /\ a.at = "answered" /\ a.status = status /\ a.kind = q.kind
  BY AnsweredFields
<1>2. QED
  BY <1>1 DEF Sound, Matches, Refers, Told, Registered, Completes

(* What the invariant says of a request at a query.                        *)
LEMMA AtQuery ==
  ASSUME Inv, NEW r \in Slots
  PROVE  /\ IsRequest(reqs[r]) /\ Matches(reqs[r]) /\ Refers(reqs[r], nextId)
         /\ nextId \in Nat /\ Keys
BY DEF Inv, Requests, Sound, Counters

(* A step that reads the database only.                                    *)
Reads(r, q) ==
  /\ UNCHANGED <<store, nextId, faults>>
  /\ reqs' = [reqs EXCEPT ![r] = q]
  /\ Sound(q, accounts, DOMAIN cameras, nextId)
  /\ ~Registered(q)
  /\ \A c \in DOMAIN cameras \ alerts : ~Completes(reqs[r], c)

LEMMA ReadStep ==
  ASSUME Inv, NEW r \in Slots, NEW q, Reads(r, q)
  PROVE  Inv'
<1>1. accounts' = accounts /\ cameras' = cameras /\ alerts' = alerts /\ nextId' = nextId
      /\ faults' = faults
  BY DEF Reads, store
<1>2. Keys' /\ nextId \in Nat
  BY <1>1 DEF Inv, Keys, Counters
<1>3. Grows
  BY <1>1, <1>2 DEF Grows
<1>4. Goes(r, q)
  BY <1>1 DEF Goes, Reads
<1>5. QED
  BY <1>3, <1>4, HandlerStep

Refuses(r) ==
  \E status, body :
    /\ status # 200 \/ reqs[r].kind \notin {"register", "delete", "patch"}
    /\ reqs' = [reqs EXCEPT ![r] = Answered(reqs[r], status, body)]

LEMMA IsRefused ==
  ASSUME NEW r, NEW status, status # 200, NEW body, Answer(r, status, body)
  PROVE  Refuses(r)
BY DEF Answer, Answered, Refuses

LEMMA RefusalStep ==
  ASSUME Inv, NEW r \in Slots, UNCHANGED <<store, nextId, faults>>, Refuses(r),
         \A c \in DOMAIN cameras \ alerts : ~Completes(reqs[r], c)
  PROVE  Inv'
<1>1. IsRequest(reqs[r])
  BY AtQuery
<1>2. PICK status, body :
        /\ status # 200 \/ reqs[r].kind \notin {"register", "delete", "patch"}
        /\ reqs' = [reqs EXCEPT ![r] = Answered(reqs[r], status, body)]
  BY DEF Refuses
<1>3. Reads(r, Answered(reqs[r], status, body))
  BY <1>1, <1>2, Refusal DEF Reads
<1>4. QED
  BY <1>3, ReadStep

LEMMA FindAccountStep ==
  ASSUME Inv, NEW r \in Slots, FindAccount(r)
  PROVE  Inv'
<1> DEFINE q == reqs[r]
<1>1. IsRequest(q) /\ q.at = "FindAccount" /\ q.kind \in {"register", "login"}
  BY AtQuery DEF FindAccount, At, Matches
<1>2. UNCHANGED <<store, nextId, faults>> /\ \A c : ~Completes(q, c)
  BY <1>1 DEF FindAccount, serverRest, Completes
<1>3. CASE q.kind = "register" /\ q.user \in accounts
  <2>1. Refuses(r)
    BY <1>3, IsRefused, 409 # 200 DEF FindAccount
  <2>2. QED
    BY <1>1, <1>2, <2>1, RefusalStep
<1>4. CASE q.kind = "register" /\ q.user \notin accounts
  <2>1. reqs' = [reqs EXCEPT ![r] = Further(q, "CreateAccount", Nil, Nil)]
    BY <1>4 DEF FindAccount, Continue, Further
  <2>2. LET f == Further(q, "CreateAccount", Nil, Nil)
        IN IsRequest(f) /\ f.at = "CreateAccount" /\ f.kind = "register"
    BY <1>1, <1>4, FurtherFields
  <2>3. Sound(Further(q, "CreateAccount", Nil, Nil), accounts, DOMAIN cameras, nextId)
    BY <2>2 DEF Sound, Matches, Refers, Told
  <2>4. QED
    BY <1>2, <2>1, <2>2, <2>3, ReadStep DEF Reads, Registered
<1>5. CASE q.kind = "login"
  <2>1. \E status, body : reqs' = [reqs EXCEPT ![r] = Answered(q, status, body)]
    <3>1. CASE q.user \in accounts
      <4>1. reqs' = [reqs EXCEPT ![r] = Answered(q, 200, q.user)]
        BY <1>5, <3>1 DEF FindAccount, Answer, Answered
      <4>2. QED
        BY <4>1
    <3>2. CASE q.user \notin accounts
      <4>1. reqs' = [reqs EXCEPT ![r] = Answered(q, 401, Nil)]
        BY <1>5, <3>2 DEF FindAccount, Answer, Answered
      <4>2. QED
        BY <4>1
    <3>3. QED
      BY <3>1, <3>2
  <2>2. Refuses(r)
    BY <1>5, <2>1 DEF Refuses
  <2>3. QED
    BY <1>1, <1>2, <1>5, <2>2, RefusalStep
<1>6. QED
  BY <1>1, <1>3, <1>4, <1>5

LEMMA CreateAccountStep ==
  ASSUME Inv, NEW r \in Slots, CreateAccount(r)
  PROVE  Inv'
<1> DEFINE q == reqs[r]
           a == Answered(q, 200, q.user)
<1>1. /\ IsRequest(q) /\ q.at = "CreateAccount" /\ q.kind = "register"
      /\ Keys /\ nextId \in Nat /\ \A c : ~Completes(q, c)
  BY AtQuery DEF CreateAccount, At, Matches, Completes
<1>2. UNCHANGED <<cameras, alerts, nextId, faults>>
  BY DEF CreateAccount, serverRest
<1>3. CASE q.user \in accounts
  <2>1. Refuses(r) /\ UNCHANGED <<store, nextId, faults>>
    BY <1>2, <1>3, IsRefused, 500 # 200 DEF CreateAccount, store
  <2>2. QED
    BY <1>1, <2>1, RefusalStep
<1>4. CASE q.user \notin accounts
  <2>1. reqs' = [reqs EXCEPT ![r] = a] /\ accounts' = accounts \cup {q.user}
    BY <1>4 DEF CreateAccount, Answer, Answered
  <2>2. IsRequest(a) /\ a.at = "answered" /\ a.kind = "register" /\ a.user = q.user
    BY <1>1, AnsweredFields
  <2>3. Sound(a, accounts', DOMAIN cameras', nextId')
    BY <2>1, <2>2 DEF Sound, Matches, Refers, Told
  <2>4. Keys'
    BY <1>1, <1>2 DEF Keys
  <2>5. Grows /\ Goes(r, a)
    BY <1>1, <1>2, <1>4, <2>1, <2>2, <2>3, <2>4 DEF Grows, Goes
  <2>6. QED
    BY <2>5, HandlerStep
<1>5. QED
  BY <1>3, <1>4

LEMMA ListCamerasStep ==
  ASSUME Inv, NEW r \in Slots, ListCameras(r)
  PROVE  Inv'
<1> DEFINE q == reqs[r]
           f(mine) == Further(q, "ListAlerts", Nil, mine)
<1>1. IsRequest(q) /\ q.at = "ListCameras" /\ q.kind \in {"cameras", "alerts"}
  BY AtQuery DEF ListCameras, At, Matches
<1>2. UNCHANGED <<store, nextId, faults>> /\ \A c : ~Completes(q, c)
  BY <1>1 DEF ListCameras, serverRest, Completes
<1>3. Refuses(r) \/ \E mine : reqs' = [reqs EXCEPT ![r] = f(mine)]
  <2> DEFINE mine == Owned(q.user)
  <2>1. CASE q.kind = "cameras"
    <3>1. reqs' = [reqs EXCEPT ![r] = Answered(q, 200, [c \in mine |-> cameras[c]])]
      BY <2>1 DEF ListCameras, Answer, Answered
    <3>2. QED
      BY <2>1, <3>1 DEF Refuses
  <2>2. CASE q.kind = "alerts" /\ mine = {}
    <3>1. reqs' = [reqs EXCEPT ![r] = Answered(q, 200, {})]
      BY <2>2 DEF ListCameras, Answer, Answered
    <3>2. QED
      BY <2>2, <3>1 DEF Refuses
  <2>3. CASE q.kind = "alerts" /\ mine # {}
    <3>1. reqs' = [reqs EXCEPT ![r] = f(mine)]
      BY <2>3 DEF ListCameras, Continue, Further
    <3>2. QED
      BY <3>1
  <2>4. QED
    BY <1>1, <2>1, <2>2, <2>3
<1>4. CASE Refuses(r)
  BY <1>1, <1>2, <1>4, RefusalStep
<1>5. CASE \E mine : reqs' = [reqs EXCEPT ![r] = f(mine)]
  <2>1. PICK mine : reqs' = [reqs EXCEPT ![r] = f(mine)]
    BY <1>5
  <2>2. IsRequest(f(mine)) /\ f(mine).at = "ListAlerts" /\ f(mine).kind = q.kind
    BY <1>1, FurtherFields
  <2>3. Sound(f(mine), accounts, DOMAIN cameras, nextId)
    BY <1>1, <2>2 DEF Sound, Matches, Refers, Told
  <2>4. QED
    BY <1>2, <2>1, <2>2, <2>3, ReadStep DEF Reads, Registered
<1>6. QED
  BY <1>3, <1>4, <1>5

LEMMA ListAlertsStep ==
  ASSUME Inv, NEW r \in Slots, ListAlerts(r)
  PROVE  Inv'
<1>1. IsRequest(reqs[r]) /\ reqs[r].at = "ListAlerts" /\ reqs[r].kind \in {"cameras", "alerts"}
  BY AtQuery DEF ListAlerts, At, Matches
<1>2. UNCHANGED <<store, nextId, faults>> /\ \A c : ~Completes(reqs[r], c)
  BY <1>1 DEF ListAlerts, serverRest, Completes
<1>3. Refuses(r)
  BY <1>1 DEF ListAlerts, Answer, Answered, Refuses
<1>4. QED
  BY <1>1, <1>2, <1>3, RefusalStep

LEMMA CreateCameraStep ==
  ASSUME Inv, NEW r \in Slots, CreateCamera(r)
  PROVE  Inv'
<1> DEFINE q == reqs[r]
<1>1. /\ IsRequest(q) /\ q.at = "CreateCamera" /\ q.kind = "create"
      /\ Keys /\ nextId \in Nat /\ \A c : ~Completes(q, c)
  BY AtQuery DEF CreateCamera, At, Matches, Completes
<1>2. PICK camera : /\ cameras' = WithKey(cameras, nextId, camera)
                    /\ reqs' = [reqs EXCEPT ![r] = Further(q, "CreateAlert", nextId, camera)]
  BY DEF CreateCamera, Continue, Further
<1> DEFINE f == Further(q, "CreateAlert", nextId, camera)
<1>3. UNCHANGED <<accounts, alerts, faults>> /\ nextId' = nextId + 1
  BY DEF CreateCamera, serverRest
<1>4. DOMAIN cameras' = DOMAIN cameras \cup {nextId}
  BY <1>2 DEF WithKey
<1>5. IsRequest(f) /\ f.at = "CreateAlert" /\ f.kind = "create" /\ f.cam = nextId
  BY <1>1, FurtherFields
<1>6. Sound(f, accounts', DOMAIN cameras', nextId')
  BY <1>5 DEF Sound, Matches, Refers, Told
<1>7. Keys'
  BY <1>1, <1>3, <1>4 DEF Keys, Was
<1>8. Grows
  BY <1>1, <1>3, <1>4, <1>7 DEF Grows
<1>9. Goes(r, f)
  <2>1. \A c \in DOMAIN cameras' \ alerts' : c = nextId \/ c \in DOMAIN cameras \ alerts
    BY <1>3, <1>4
  <2>2. Completes(f, nextId) /\ ~Registered(f)
    BY <1>5 DEF Completes, Registered
  <2>3. QED
    BY <1>1, <1>2, <1>6, <2>1, <2>2 DEF Goes
<1>10. QED
  BY <1>8, <1>9, HandlerStep

LEMMA CreateAlertStep ==
  ASSUME Inv, NEW r \in Slots, CreateAlert(r)
  PROVE  Inv'
<1> DEFINE q == reqs[r]
           c == q.cam
           a == Answered(q, 200, q.read)
<1>1. IsRequest(q) /\ q.at = "CreateAlert" /\ q.kind = "create" /\ Keys /\ nextId \in Nat
  BY AtQuery DEF CreateAlert, At, Matches
<1>2. UNCHANGED <<accounts, cameras, nextId, faults>> /\ \A e : Completes(q, e) => e = c
  BY DEF CreateAlert, serverRest, Completes
<1>3. CASE c \notin DOMAIN cameras
  <2>1. Refuses(r) /\ UNCHANGED <<store, nextId, faults>>
    BY <1>2, <1>3, IsRefused, 500 # 200 DEF CreateAlert, Referenced, store
  <2>2. QED
    BY <1>2, <1>3, <2>1, RefusalStep
<1>4. CASE c \in DOMAIN cameras
  <2>1. reqs' = [reqs EXCEPT ![r] = a] /\ alerts' = alerts \cup {c}
    BY <1>4 DEF CreateAlert, Referenced, Answer, Answered
  <2>2. Sound(a, accounts', DOMAIN cameras', nextId') /\ ~Registered(a)
    <3>1. IsRequest(a) /\ a.at = "answered" /\ a.kind = "create"
      BY <1>1, AnsweredFields
    <3>2. QED
      BY <3>1 DEF Sound, Matches, Refers, Told, Registered
  <2>3. Keys'
    BY <1>1, <1>2, <1>4, <2>1 DEF Keys
  <2>4. Grows
    BY <1>1, <1>2, <2>3 DEF Grows
  <2>5. Goes(r, a)
    BY <1>2, <2>1, <2>2 DEF Goes
  <2>6. QED
    BY <2>4, <2>5, HandlerStep
<1>5. QED
  BY <1>3, <1>4

LEMMA FindCameraStep ==
  ASSUME Inv, NEW r \in Slots, FindCamera(r)
  PROVE  Inv'
<1> DEFINE q == reqs[r]
           at == IF q.kind = "patch" THEN "UpdateCamera" ELSE "DeleteAlerts"
           f == Further(q, at, q.cam, cameras[q.cam])
<1>1. IsRequest(q) /\ q.at = "FindCamera" /\ q.kind \in {"patch", "delete"} /\ Keys
  BY AtQuery DEF FindCamera, At, Matches
<1>2. UNCHANGED <<store, nextId, faults>> /\ \A c : ~Completes(q, c)
  BY <1>1 DEF FindCamera, serverRest, Completes
<1>3. CASE q.cam \notin Owned(q.user)
  <2>1. Refuses(r)
    BY <1>3, IsRefused, 404 # 200 DEF FindCamera
  <2>2. QED
    BY <1>2, <2>1, RefusalStep
<1>4. CASE q.cam \in Owned(q.user)
  <2>1. reqs' = [reqs EXCEPT ![r] = f]
    BY <1>4 DEF FindCamera, Continue, Further
  <2>2. IsRequest(f) /\ f.at = at /\ f.kind = q.kind /\ f.cam = q.cam
    BY <1>1, FurtherFields
  <2>3. Was(q.cam, nextId)
    BY <1>1, <1>4 DEF Keys, Owned
  <2>4. Sound(f, accounts, DOMAIN cameras, nextId) /\ ~Registered(f)
    BY <1>1, <2>2, <2>3 DEF Sound, Matches, Refers, Told, Registered
  <2>5. Reads(r, f)
    BY <1>2, <2>1, <2>4 DEF Reads
  <2>6. QED
    BY <2>5, ReadStep
<1>5. QED
  BY <1>3, <1>4

(* What is written has the values that were asked.                         *)
LEMMA UpdateCameraStep ==
  ASSUME Inv, NEW r \in Slots, UpdateCamera(r)
  PROVE  Inv'
<1> DEFINE q == reqs[r]
           updated == Completed(q.data, q.read)
           a == Answered(q, 200, updated)
<1>1. /\ IsRequest(q) /\ q.at = "UpdateCamera" /\ q.kind = "patch" /\ Keys /\ nextId \in Nat
      /\ \A c : ~Completes(q, c)
  BY AtQuery DEF UpdateCamera, At, Matches, Completes
<1>2. UNCHANGED <<accounts, alerts, nextId, faults>>
  BY DEF UpdateCamera, serverRest
<1>3. CASE q.cam \notin DOMAIN cameras
  <2>1. Refuses(r) /\ UNCHANGED <<store, nextId, faults>>
    BY <1>2, <1>3, IsRefused, 500 # 200 DEF UpdateCamera, store
  <2>2. QED
    BY <1>1, <2>1, RefusalStep
<1>4. CASE q.cam \in DOMAIN cameras
  <2>1. reqs' = [reqs EXCEPT ![r] = a] /\ cameras' = [cameras EXCEPT ![q.cam] = updated]
    BY <1>4 DEF UpdateCamera, Answer, Answered
  <2>2. \A f \in DOMAIN q.data : updated[f] = q.data[f]
    BY DEF Completed
  <2>3. IsRequest(a) /\ a.at = "answered" /\ a.kind = "patch" /\ a.data = q.data
        /\ a.body = updated
    BY <1>1, AnsweredFields
  <2>4. Sound(a, accounts', DOMAIN cameras', nextId') /\ ~Registered(a)
    BY <2>2, <2>3 DEF Sound, Matches, Refers, Told, Registered
  <2>5. DOMAIN cameras' = DOMAIN cameras
    BY <2>1
  <2>6. Keys'
    BY <1>1, <1>2, <2>5 DEF Keys
  <2>7. Grows
    BY <1>1, <1>2, <2>5, <2>6 DEF Grows
  <2>8. Goes(r, a)
    BY <1>1, <1>2, <2>1, <2>4, <2>5 DEF Goes
  <2>9. QED
    BY <2>7, <2>8, HandlerStep
<1>5. QED
  BY <1>3, <1>4

LEMMA DeleteAlertsStep ==
  ASSUME Inv, NEW r \in Slots, DeleteAlerts(r)
  PROVE  Inv'
<1> DEFINE q == reqs[r]
           f == Further(q, "DeleteCamera", q.cam, Nil)
<1>1. /\ IsRequest(q) /\ q.at = "DeleteAlerts" /\ q.kind = "delete" /\ Was(q.cam, nextId)
      /\ Keys /\ nextId \in Nat /\ \A c : ~Completes(q, c)
  BY AtQuery DEF DeleteAlerts, At, Matches, Refers, Completes
<1>2. UNCHANGED <<accounts, cameras, nextId, faults>> /\ alerts' = alerts \ {q.cam}
      /\ reqs' = [reqs EXCEPT ![r] = f]
  BY DEF DeleteAlerts, serverRest, Continue, Further
<1>3. IsRequest(f) /\ f.at = "DeleteCamera" /\ f.kind = "delete" /\ f.cam = q.cam
  BY <1>1, FurtherFields
<1>4. Sound(f, accounts', DOMAIN cameras', nextId') /\ ~Registered(f) /\ Completes(f, q.cam)
  BY <1>1, <1>2, <1>3 DEF Sound, Matches, Refers, Told, Registered, Completes
<1>5. Keys'
  BY <1>1, <1>2 DEF Keys
<1>6. Grows
  BY <1>1, <1>2, <1>5 DEF Grows
<1>7. Goes(r, f)
  BY <1>1, <1>2, <1>4 DEF Goes
<1>8. QED
  BY <1>6, <1>7, HandlerStep

LEMMA DeleteCameraStep ==
  ASSUME Inv, NEW r \in Slots, DeleteCamera(r)
  PROVE  Inv'
<1> DEFINE q == reqs[r]
           c == q.cam
           a == Answered(q, 200, Nil)
<1>1. /\ IsRequest(q) /\ q.at = "DeleteCamera" /\ q.kind = "delete" /\ Was(c, nextId)
      /\ Keys /\ nextId \in Nat
  BY AtQuery DEF DeleteCamera, At, Matches, Refers
<1>2. UNCHANGED <<accounts, alerts, nextId, faults>> /\ \A e : Completes(q, e) => e = c
  BY DEF DeleteCamera, serverRest, Completes
<1>3. CASE c \notin DOMAIN cameras \/ c \in alerts
  <2>1. Refuses(r) /\ UNCHANGED <<store, nextId, faults>>
    BY <1>2, <1>3, IsRefused, 500 # 200 DEF DeleteCamera, store
  <2>2. QED
    BY <1>2, <1>3, <2>1, RefusalStep
<1>4. CASE c \in DOMAIN cameras /\ c \notin alerts
  <2>1. reqs' = [reqs EXCEPT ![r] = a] /\ cameras' = WithoutKey(cameras, c)
    BY <1>4 DEF DeleteCamera, Answer, Answered
  <2>2. DOMAIN cameras' = DOMAIN cameras \ {c}
    BY <2>1 DEF WithoutKey
  <2>3. IsRequest(a) /\ a.at = "answered" /\ a.kind = "delete" /\ a.cam = c
    BY <1>1, AnsweredFields
  <2>4. Sound(a, accounts', DOMAIN cameras', nextId') /\ ~Registered(a)
    BY <1>1, <1>2, <2>2, <2>3 DEF Sound, Matches, Refers, Told, Registered
  <2>5. Keys'
    BY <1>1, <1>2, <1>4, <2>2 DEF Keys
  <2>6. Grows
    BY <1>1, <1>2, <2>2, <2>5 DEF Grows
  <2>7. Goes(r, a)
    BY <1>2, <2>1, <2>2, <2>4 DEF Goes
  <2>8. QED
    BY <2>6, <2>7, HandlerStep
<1>5. QED
  BY <1>3, <1>4

-----------------------------------------------------------------------------
(***************************************************************************)
(* The steps that leave the database alone.                                *)
(***************************************************************************)

(* A request nobody has to account for, and one that is as it was.         *)
Quiet(q) ==
  /\ IsRequest(q) /\ Matches(q)
  /\ q.at \notin {"DeleteAlerts", "DeleteCamera", "CreateAlert"}
  /\ ~(q.at = "answered" /\ q.status = 200)
Same(q, was) == IsRequest(q) /\ \A f \in Fields \ {"page"} : q[f] = was[f]

Changes(e) ==
  \/ Same(reqs'[e], reqs[e])
  \/ Quiet(reqs'[e]) /\ (faults' = 0 => reqs[e].at \notin {"CreateAlert", "DeleteCamera"})

Calm ==
  /\ UNCHANGED <<store, nextId>> /\ faults' \in {faults, faults + 1}
  /\ reqs' = [e \in Slots |-> reqs'[e]]
  /\ \A e \in Slots : Changes(e)

LEMMA SameSound ==
  ASSUME NEW q, NEW was, Same(q, was), NEW known, NEW ids, NEW next, Sound(was, known, ids, next)
  PROVE  Sound(q, known, ids, next)
<1>1. /\ q.at = was.at /\ q.kind = was.kind /\ q.user = was.user /\ q.cam = was.cam
      /\ q.data = was.data /\ q.status = was.status /\ q.body = was.body
  BY DEF Same, Fields
<1>2. QED
  BY <1>1 DEF Same, Sound, Matches, Refers, Told

LEMMA QuietSound ==
  ASSUME NEW q, Quiet(q), NEW known, NEW ids, NEW next
  PROVE  Sound(q, known, ids, next) /\ ~Registered(q)
BY DEF Quiet, Sound, Refers, Told, Registered

LEMMA CalmStep ==
  ASSUME Inv, Calm
  PROVE  Inv'
<1>1. /\ accounts' = accounts /\ cameras' = cameras /\ alerts' = alerts /\ nextId' = nextId
      /\ faults' \in {faults, faults + 1} /\ \A e \in Slots : Changes(e)
  BY DEF Calm, store
<1>2. Counters' /\ Keys'
  BY <1>1 DEF Inv, Counters, Keys
<1>3. Requests'
  <2>1. \A e \in Slots : Sound(reqs[e], accounts, DOMAIN cameras, nextId)
    BY DEF Inv, Requests
  <2>2. \A e \in Slots : Sound(reqs'[e], accounts, DOMAIN cameras, nextId)
    BY <1>1, <2>1, SameSound, QuietSound DEF Changes
  <2>3. QED
    BY <1>1, <2>2 DEF Calm, Requests
<1>4. OneEach'
  <2>1. \A e \in Slots : Registered(reqs'[e]) =>
          Registered(reqs[e]) /\ reqs'[e].user = reqs[e].user
    <3> SUFFICES ASSUME NEW e \in Slots, Registered(reqs'[e])
                 PROVE  Registered(reqs[e]) /\ reqs'[e].user = reqs[e].user
      OBVIOUS
    <3>1. Same(reqs'[e], reqs[e])
      BY <1>1, QuietSound DEF Changes
    <3>2. QED
      BY <3>1 DEF Same, Fields, Registered
  <2>2. QED
    BY <2>1 DEF Inv, OneEach
<1>5. Pending'
  <2> SUFFICES ASSUME faults' = 0, NEW c \in DOMAIN cameras' \ alerts'
               PROVE  \E e \in Slots : Completes(reqs'[e], c)
    BY DEF Pending, Completes
  <2>1. faults = 0
    BY <1>1 DEF Inv, Counters
  <2>2. PICK e \in Slots : Completes(reqs[e], c)
    BY <1>1, <2>1 DEF Inv, Pending
  <2>3. Same(reqs'[e], reqs[e])
    BY <1>1, <2>2 DEF Changes, Completes
  <2>4. Completes(reqs'[e], c)
    BY <2>2, <2>3 DEF Same, Fields, Completes
  <2>5. QED
    BY <2>4
<1>6. QED
  BY <1>2, <1>3, <1>4, <1>5 DEF Inv

(* Failures.                                                               *)
LEMMA QueryFailsStep ==
  ASSUME Inv, NEW r \in Slots, QueryFails(r)
  PROVE  Inv'
<1> DEFINE a == Answered(reqs[r], 500, Nil)
<1>1. reqs' = [reqs EXCEPT ![r] = a] /\ faults' = faults + 1 /\ UNCHANGED <<store, nextId>>
  BY DEF QueryFails, Answer, Answered
<1>2. reqs' = [e \in Slots |-> reqs'[e]] /\ reqs'[r] = a
      /\ \A e \in Slots \ {r} : reqs'[e] = reqs[e]
  BY <1>1 DEF Inv, Requests
<1>3. Quiet(a)
  <2>1. IsRequest(a) /\ a.at = "answered" /\ a.status = 500
    BY AtQuery, AnsweredFields
  <2>2. QED
    BY <2>1 DEF Quiet, Matches
<1>4. faults' # 0
  BY <1>1 DEF Inv, Counters
<1>5. \A e \in Slots : Changes(e)
  BY <1>2, <1>3, <1>4, AtQuery DEF Changes, Same
<1>6. QED
  BY <1>1, <1>2, <1>5, CalmStep DEF Calm

LEMMA NoRequestIsQuiet == Quiet(NoRequest)
BY DEF Quiet, IsRequest, Fields, Matches, NoRequest

LEMMA BackendRestartsStep ==
  ASSUME Inv, BackendRestarts
  PROVE  Inv'
<1>1. /\ faults' = faults + 1 /\ UNCHANGED <<store, nextId>>
      /\ reqs' = [r \in Slots |-> IF reqs[r].at \in {"answered", "timer"} THEN reqs[r]
                                                                           ELSE NoRequest]
  BY DEF BackendRestarts
<1>2. faults' # 0
  BY <1>1 DEF Inv, Counters
<1>3. \A e \in Slots : Changes(e)
  BY <1>1, <1>2, NoRequestIsQuiet, AtQuery DEF Changes, Same
<1>4. QED
  BY <1>1, <1>3, CalmStep DEF Calm

LEMMA AnswerLostStep ==
  ASSUME Inv, NEW r \in Slots, AnswerLost(r)
  PROVE  Inv'
<1>1. /\ faults' = faults + 1 /\ UNCHANGED <<store, nextId>>
      /\ reqs' = [reqs EXCEPT ![r] = NoRequest]
  BY DEF AnswerLost
<1>2. reqs' = [e \in Slots |-> reqs'[e]] /\ reqs'[r] = NoRequest
      /\ \A e \in Slots \ {r} : reqs'[e] = reqs[e]
  BY <1>1 DEF Inv, Requests
<1>3. faults' # 0
  BY <1>1 DEF Inv, Counters
<1>4. \A e \in Slots : Changes(e)
  BY <1>2, <1>3, NoRequestIsQuiet, AtQuery DEF Changes, Same
<1>5. QED
  BY <1>1, <1>2, <1>4, CalmStep DEF Calm

(* Requests are sent.                                                      *)
Kinds == {"register", "login", "cameras", "alerts", "create", "patch", "delete"}

LEMMA AdmittedIsQuiet ==
  ASSUME NEW q, IsRequest(q), q.kind \in Kinds, q.status # 200, NEW expired
  PROVE  Quiet(Admitted(q, expired))
<1>1. DOMAIN q = Fields
  BY DEF IsRequest
<1>2. CASE expired
  <2> DEFINE a == [q EXCEPT !.at = "answered", !.status = 401]
  <2>1. a = [f \in Fields |-> a[f]]
    BY <1>1
  <2>2. a.at = "answered" /\ a.status = 401
    BY <1>1 DEF Fields
  <2> HIDE DEF a
  <2>3. Quiet(a)
    BY <2>1, <2>2, 401 # 200 DEF Quiet, IsRequest, Matches
  <2>4. QED
    BY <1>2, <2>3 DEF Admitted, a
<1>3. CASE ~expired
  <2> DEFINE a == [q EXCEPT !.at = FirstQuery[q.kind]]
  <2>1. a = [f \in Fields |-> a[f]] /\ a.at = FirstQuery[q.kind] /\ a.kind = q.kind
    BY <1>1 DEF Fields
  <2>2. Quiet(a)
    BY <2>1 DEF Quiet, IsRequest, Matches, Kinds, FirstQuery
  <2>3. QED
    BY <1>3, <2>2 DEF Admitted
<1>4. QED
  BY <1>2, <1>3

LEMMA RequestIsQuiet ==
  ASSUME NEW d, NEW kind \in Kinds, NEW u, NEW cam, NEW data
  PROVE  Quiet(Request(d, kind, u, cam, data))
<1> DEFINE q == [NoRequest EXCEPT !.page = d, !.kind = kind, !.user = u, !.cam = cam, !.data = data]
<1>1. IsRequest(q) /\ q.kind = kind /\ q.status = 0
  BY DEF NoRequest, IsRequest, Fields
<1>2. PICK expired : Request(d, kind, u, cam, data) = Admitted(q, expired)
  BY DEF Request
<1> HIDE DEF q
<1>3. QED
  BY <1>1, <1>2, AdmittedIsQuiet, 0 # 200

Table(rs) == rs = [e \in Slots |-> rs[e]]
Adds(new, rs, q) ==
  \A e \in Slots : new[e] = rs[e] \/ (rs[e].at = "free" /\ new[e] = q)

LEMMA PostedSlots ==
  ASSUME NEW rs, Table(rs), Room(rs), NEW q
  PROVE  Table(Posted(rs, q)) /\ Adds(Posted(rs, q), rs, q)
<1> DEFINE free == CHOOSE e \in Slots : rs[e].at = "free"
<1>1. free \in Slots /\ rs[free].at = "free"
  BY DEF Room
<1> HIDE DEF free
<1>2. Posted(rs, q) = [rs EXCEPT ![free] = q]
  BY DEF Posted, free
<1>3. Table([rs EXCEPT ![free] = q])
  BY DEF Table
<1>4. Adds([rs EXCEPT ![free] = q], rs, q)
  <2>1. DOMAIN rs = Slots
    BY DEF Table
  <2>2. \A e \in Slots : [rs EXCEPT ![free] = q][e] = IF e = free THEN q ELSE rs[e]
    BY <2>1
  <2>3. QED
    BY <1>1, <2>2 DEF Adds
<1>5. QED
  BY <1>2, <1>3, <1>4

LEMMA SendStep ==
  ASSUME Inv, UNCHANGED <<store, nextId, faults>>, NEW q, Quiet(q), Send(q)
  PROVE  Inv'
<1>1. Room(reqs) /\ reqs' = Posted(reqs, q) /\ Table(reqs)
  BY DEF Send, Inv, Requests, Table
<1>2. Table(reqs') /\ Adds(reqs', reqs, q)
  BY <1>1, PostedSlots
<1>3. \A e \in Slots : Changes(e)
  BY <1>2, AtQuery DEF Adds, Changes, Same
<1>4. QED
  BY <1>2, <1>3, CalmStep DEF Calm, Table

(* The requests, maybe without one that was answered.                      *)
Freed(rs) ==
  /\ Table(rs)
  /\ \A e \in Slots : rs[e] = reqs[e] \/ (rs[e] = NoRequest /\ reqs[e].at = "answered")

LEMMA AllKept ==
  ASSUME Inv
  PROVE  Freed(reqs)
<1>1. Table(reqs)
  BY DEF Inv, Requests, Table
<1>2. QED
  BY <1>1 DEF Freed

LEMMA OneFreed ==
  ASSUME Inv, NEW r \in Slots, reqs[r].at = "answered"
  PROVE  Freed([reqs EXCEPT ![r] = NoRequest])
<1> DEFINE rest == [reqs EXCEPT ![r] = NoRequest]
<1>1. DOMAIN reqs = Slots
  BY DEF Inv, Requests
<1>2. Table(rest)
  BY <1>1 DEF Table
<1>3. \A e \in Slots : rest[e] = IF e = r THEN NoRequest ELSE reqs[e]
  BY <1>1
<1>4. QED
  BY <1>2, <1>3 DEF Freed

LEMMA SendBothStep ==
  ASSUME Inv, UNCHANGED <<store, nextId, faults>>,
         NEW rs, Freed(rs),
         NEW p, Quiet(p), NEW q, Quiet(q), SendBoth(rs, p, q)
  PROVE  Inv'
<1> DEFINE one == Posted(rs, p)
<1>1. Room(rs) /\ Room(one) /\ reqs' = Posted(one, q)
  BY DEF SendBoth
<1>2. Table(one) /\ Adds(one, rs, p)
  BY <1>1, PostedSlots DEF Freed
<1> HIDE DEF one
<1>3. Table(reqs') /\ Adds(reqs', one, q)
  BY <1>1, <1>2, PostedSlots
<1>4. ASSUME NEW e \in Slots
      PROVE  Changes(e)
  <2>1. rs[e] = reqs[e] \/ (rs[e] = NoRequest /\ reqs[e].at = "answered")
    BY DEF Freed
  <2>2. CASE reqs'[e] = reqs[e]
    BY <2>2, AtQuery DEF Changes, Same
  <2>3. CASE reqs'[e] # reqs[e]
    <3>1. Quiet(reqs'[e])
      BY <1>2, <1>3, <2>1, <2>3, NoRequestIsQuiet DEF Adds
    <3>2. reqs[e].at \in {"free", "answered"} \/ p.at = "free"
      BY <1>2, <1>3, <2>1, <2>3 DEF Adds
    <3>3. reqs[e].at \notin {"CreateAlert", "DeleteCamera"}
      BY <1>2, <1>3, <2>1, <2>3, <3>2 DEF Adds
    <3>4. QED
      BY <3>1, <3>3 DEF Changes
  <2>4. QED
    BY <2>2, <2>3
<1>5. QED
  BY <1>3, <1>4, CalmStep DEF Calm, Table

-----------------------------------------------------------------------------
(***************************************************************************)
(* The pages.                                                              *)
(***************************************************************************)

LEMMA EnterStep ==
  ASSUME Inv, NEW d \in Pages, Enter(d)
  PROVE  Inv'
<1>1. PICK kind \in {"register", "login"}, u \in profile.who :
        Send(Request(d, kind, u, Nil, <<>>))
  BY DEF Enter
<1>2. kind \in Kinds
  BY DEF Kinds
<1>3. QED
  BY <1>1, <1>2, RequestIsQuiet, SendStep DEF Enter, pageRest

LEMMA FetchStep ==
  ASSUME Inv, UNCHANGED <<store, nextId, faults>>, NEW rs, Freed(rs),
         NEW d, NEW u, Fetch(rs, d, u)
  PROVE  Inv'
<1>1. Quiet(Request(d, "cameras", u, Nil, <<>>)) /\ Quiet(Request(d, "alerts", u, Nil, <<>>))
  BY RequestIsQuiet DEF Kinds
<1>2. QED
  BY <1>1, SendBothStep DEF Fetch

LEMMA HandleRefreshStep ==
  ASSUME Inv, NEW d \in Pages, HandleRefresh(d)
  PROVE  Inv'
BY AllKept, FetchStep DEF HandleRefresh, pageRest

LEMMA HandleSaveCameraStep ==
  ASSUME Inv, NEW d \in Pages, HandleSaveCamera(d)
  PROVE  Inv'
<1>1. \E kind \in {"create", "patch"} : \E cam, data :
        Send(Request(d, kind, pages[d].user, cam, data))
  BY DEF HandleSaveCamera
<1>2. {"create", "patch"} \subseteq Kinds
  BY DEF Kinds
<1>3. QED
  BY <1>1, <1>2, RequestIsQuiet, SendStep DEF HandleSaveCamera, pageRest

LEMMA HandleToggleCameraStep ==
  ASSUME Inv, NEW d \in Pages, HandleToggleCamera(d)
  PROVE  Inv'
<1>1. \E cam, data : Send(Request(d, "patch", pages[d].user, cam, data))
  BY DEF HandleToggleCamera, Toggle
<1>2. "patch" \in Kinds
  BY DEF Kinds
<1>3. QED
  BY <1>1, <1>2, RequestIsQuiet, SendStep DEF HandleToggleCamera, pageRest

LEMMA HandleConfirmDeleteStep ==
  ASSUME Inv, NEW d \in Pages, HandleConfirmDelete(d)
  PROVE  Inv'
<1>1. \E cam, data : Send(Request(d, "delete", pages[d].user, cam, data))
  BY DEF HandleConfirmDelete
<1>2. "delete" \in Kinds
  BY DEF Kinds
<1>3. QED
  BY <1>1, <1>2, RequestIsQuiet, SendStep DEF HandleConfirmDelete, pageRest

(* Off at once, and on again when half a second has passed.                *)
LEMMA HandleVideoReloadStep ==
  ASSUME Inv, NEW d \in Pages, HandleVideoReload(d)
  PROVE  Inv'
<1>1. PICK c : SendBoth(reqs, Toggle(d, c, FALSE), [Toggle(d, c, TRUE) EXCEPT !.at = "timer", !.status = 0])
  BY DEF HandleVideoReload
<1> DEFINE on == Toggle(d, c, TRUE)
           later == [on EXCEPT !.at = "timer", !.status = 0]
<1>2. Quiet(Toggle(d, c, FALSE))
  BY RequestIsQuiet DEF Kinds, Toggle
<1>3. IsRequest(on) /\ on.kind = "patch"
  <2>1. Quiet(on)
    BY RequestIsQuiet DEF Kinds, Toggle
  <2> DEFINE q == [NoRequest EXCEPT !.page = d, !.kind = "patch", !.user = pages[d].user,
                                    !.cam = c, !.data = [enabled |-> TRUE]]
  <2>2. DOMAIN q = Fields /\ q.kind = "patch"
    BY DEF NoRequest, Fields
  <2>3. PICK expired : on = Admitted(q, expired)
    BY DEF Toggle, Request
  <2> HIDE DEF q, on
  <2>4. on.kind = q.kind
    BY <2>2, <2>3 DEF Admitted, Fields
  <2>5. QED
    BY <2>1, <2>2, <2>4 DEF Quiet
<1> HIDE DEF on
<1>4. Quiet(later)
  <2>1. DOMAIN on = Fields
    BY <1>3 DEF IsRequest
  <2>2. later = [f \in Fields |-> later[f]]
    BY <2>1
  <2>3. later.at = "timer" /\ later.kind = "patch"
    BY <1>3, <2>1 DEF Fields
  <2> HIDE DEF later
  <2>4. QED
    BY <2>2, <2>3 DEF Quiet, IsRequest, Matches
<1>5. Freed(reqs)
  BY AllKept
<1> HIDE DEF later
<1>6. SendBoth(reqs, Toggle(d, c, FALSE), later)
  BY <1>1 DEF later, on
<1>7. QED
  BY <1>2, <1>4, <1>5, <1>6, SendBothStep DEF HandleVideoReload, pageRest

LEMMA HalfSecondPassesStep ==
  ASSUME Inv, NEW r \in Slots, HalfSecondPasses(r)
  PROVE  Inv'
<1>1. PICK expired : reqs' = [reqs EXCEPT ![r] = Admitted(reqs[r], expired)]
  BY DEF HalfSecondPasses
<1>2. UNCHANGED <<store, nextId, faults>> /\ reqs[r].at = "timer"
  BY DEF HalfSecondPasses, pageRest, At
<1>3. IsRequest(reqs[r]) /\ reqs[r].kind = "patch"
  BY <1>2, AtQuery DEF Matches
<1>4. Quiet(Admitted(reqs[r], expired))
  <2>1. DOMAIN reqs[r] = Fields
    BY <1>3 DEF IsRequest
  <2> DEFINE a == Admitted(reqs[r], expired)
  <2>2. a = [f \in Fields |-> a[f]]
    BY <2>1 DEF Admitted
  <2>3. \/ a.at = "answered" /\ a.status = 401
        \/ a.at = "FindCamera" /\ a.kind = "patch"
    BY <1>3, <2>1 DEF Admitted, FirstQuery, Fields
  <2> HIDE DEF a
  <2>4. Quiet(a)
    BY <2>2, <2>3, 401 # 200 DEF Quiet, IsRequest, Matches
  <2>5. QED
    BY <2>4 DEF a
<1>5. Table(reqs') /\ reqs'[r] = Admitted(reqs[r], expired)
      /\ \A e \in Slots \ {r} : reqs'[e] = reqs[e]
  BY <1>1 DEF Inv, Requests, Table
<1>6. \A e \in Slots : Changes(e)
  BY <1>2, <1>4, <1>5, AtQuery DEF Changes, Same
<1>7. QED
  BY <1>2, <1>5, <1>6, CalmStep DEF Calm, Table

(* The requests of a page that is gone go on.                              *)
LEMMA HandleLogoutStep ==
  ASSUME Inv, NEW d \in Pages, HandleLogout(d)
  PROVE  Inv'
<1>1. /\ UNCHANGED <<store, nextId, faults>>
      /\ reqs' = [r \in Slots |-> IF reqs[r].page = d THEN [reqs[r] EXCEPT !.page = Nil]
                                                       ELSE reqs[r]]
  BY DEF HandleLogout, pageRest
<1>2. ASSUME NEW e \in Slots
      PROVE  Changes(e)
  <2>1. IsRequest(reqs[e])
    BY AtQuery
  <2>2. CASE reqs'[e] = reqs[e]
    BY <2>1, <2>2 DEF Changes, Same
  <2>3. CASE reqs'[e] = [reqs[e] EXCEPT !.page = Nil]
    BY <2>1, <2>3 DEF Changes, Same, IsRequest
  <2>4. QED
    BY <1>1, <2>2, <2>3
<1>3. QED
  BY <1>1, <1>2, CalmStep DEF Calm

LEMMA TakeAnswerStep ==
  ASSUME Inv, NEW r \in Slots, TakeAnswer(r)
  PROVE  Inv'
<1> DEFINE rest == [reqs EXCEPT ![r] = NoRequest]
<1>1. UNCHANGED <<store, nextId, faults>> /\ reqs[r].at = "answered"
      /\ (reqs' = rest \/ \E d, u : Fetch(rest, d, u))
  BY DEF TakeAnswer, pageRest, At
<1>2. Freed(rest)
  BY <1>1, OneFreed
<1> HIDE DEF rest
<1>3. CASE reqs' = rest
  <2>1. \A e \in Slots : Changes(e)
    BY <1>1, <1>2, <1>3, NoRequestIsQuiet, AtQuery DEF Freed, Changes, Same
  <2>2. QED
    BY <1>1, <1>2, <1>3, <2>1, CalmStep DEF Calm, Freed, Table
<1>4. CASE \E d, u : Fetch(rest, d, u)
  BY <1>1, <1>2, <1>4, FetchStep
<1>5. QED
  BY <1>1, <1>3, <1>4

(* A page alone.                                                           *)
LEMMA PageStep ==
  ASSUME Inv, UNCHANGED <<store, nextId, faults, reqs>>
  PROVE  Inv'
BY DEF store, Inv, Counters, Keys, Requests, OneEach, Pending

LEMMA InvStep == Inv /\ [Next]_vars => Inv'
<1> SUFFICES ASSUME Inv, [Next]_vars PROVE Inv'
  OBVIOUS
<1>1. ASSUME NEW r \in Slots, Handler(r)
      PROVE  Inv'
  BY <1>1, FindAccountStep, CreateAccountStep, ListCamerasStep, ListAlertsStep, CreateCameraStep,
     CreateAlertStep, FindCameraStep, UpdateCameraStep, DeleteAlertsStep, DeleteCameraStep,
     QueryFailsStep DEF Handler
<1>2. ASSUME NEW r \in Slots, HalfSecondPasses(r) \/ TakeAnswer(r) \/ AnswerLost(r)
      PROVE  Inv'
  BY <1>2, HalfSecondPassesStep, TakeAnswerStep, AnswerLostStep
<1>3. ASSUME NEW d \in Pages, TokenExpires(d) \/ Connected(d) \/ OnMessage(d)
      PROVE  Inv'
  BY <1>3, PageStep DEF TokenExpires, Connected, OnMessage, pageRest
<1>4. ASSUME NEW d \in Pages, Page(d)
      PROVE  Inv'
  BY <1>3, <1>4, EnterStep, HandleRefreshStep, HandleSaveCameraStep, HandleToggleCameraStep,
     HandleVideoReloadStep, HandleConfirmDeleteStep, HandleLogoutStep DEF Page
<1>5. CASE BackendRestarts
  BY <1>5, BackendRestartsStep
<1>6. CASE UNCHANGED vars
  BY <1>6, PageStep DEF vars
<1>7. QED
  BY <1>1, <1>2, <1>4, <1>5, <1>6 DEF Next

(* For any number of tabs, requests, users and cameras: no alert is left   *)
(* without its camera, a camera is without its alert only in the middle of *)
(* a request or after a failure, and the answers are true.                 *)
THEOREM StoreStaysConsistent == Spec => []StoreIsConsistent
<1>1. Spec => []Inv
  BY InitInv, InvStep, PTL DEF Spec
<1>2. QED
  BY <1>1, InvIsEnough, PTL

-----------------------------------------------------------------------------
(***************************************************************************)
(* The page of a user who does one thing at a time, while nothing fails,   *)
(* shows what the database holds.                                          *)
(***************************************************************************)

Careful == profile.patient /\ faults = 0

Live(q)  == q.at # "free"
Of(q, d) == Live(q) /\ q.page = d
On(page) == page.at = "dashboard"

(* A user has one request in flight, or those of a refresh,                *)
Apart(q, p) ==
  Live(q) /\ Live(p) /\ (q.user = p.user \/ q.page = p.page) =>
    /\ q.user = p.user /\ q.page = p.page /\ q.kind # p.kind
    /\ q.kind \in {"cameras", "alerts"} /\ p.kind \in {"cameras", "alerts"}
OneAtATime(rs) == \A r \in Slots, e \in Slots : r # e => Apart(rs[r], rs[e])

(* and one tab, which the request came from.                               *)
PageFields == {"at", "user", "expired", "ws", "cameras", "alerts"}
IsPage(p) == p = [f \in PageFields |-> p[f]]
Tab(d, tabs, box) ==
  /\ IsPage(tabs[d]) /\ box[d] \in Seq(Nat)
  /\ IF On(tabs[d])
     THEN /\ tabs[d].user # Nil /\ tabs[d].ws \in {"opening", "open"}
          /\ \A e \in Pages \ {d} : tabs[e].user # tabs[d].user
     ELSE tabs[d] = LoginPage /\ box[d] = <<>>
Placed(q, tabs) ==
  /\ q.page \in Pages
  /\ IF On(tabs[q.page])
     THEN q.kind \notin {"register", "login"} /\ q.user = tabs[q.page].user
     ELSE q.kind \in {"register", "login"} /\ \A e \in Pages : tabs[e].user # q.user
  /\ q.kind = "create" => tabs[q.page].ws = "open"

(* A handler works on a camera of its user, which nobody else changes.     *)
Mine(u, cams) == [c \in {e \in DOMAIN cams : cams[e].owner = u} |-> cams[c]]
Works(q, cams) ==
  /\ q.at # "timer"
  /\ q.at = "ListAlerts" => q.kind = "alerts"
  /\ q.at \in {"CreateAlert", "UpdateCamera", "DeleteAlerts", "DeleteCamera"} =>
       q.cam \in DOMAIN Mine(q.user, cams)
  /\ q.at \in {"CreateAlert", "UpdateCamera"} => q.read = Mine(q.user, cams)[q.cam]
  /\ q.kind = "patch" => "owner" \notin DOMAIN q.data
HaveOwners(cams) == \A c \in DOMAIN cams : "owner" \in DOMAIN cams[c]

(* What a page shows lacks what its requests in flight will tell it.       *)
Fits(q, page, mine) ==
  /\ q.kind # "alerts" /\ q.at = "answered" => Shown(page, q).cameras = mine
  /\ q.at = "CreateAlert" => WithKey(page.cameras, q.cam, q.read) = mine
  /\ q.kind \in {"create", "patch", "delete"} /\ q.at \notin {"answered", "CreateAlert"} =>
       page.cameras = mine
  /\ q.at = "ListAlerts" => q.read = DOMAIN mine
  /\ q.kind = "alerts" /\ q.at = "answered" => q.status = 200 /\ q.body = DOMAIN mine
Tells(q, d, c) == Of(q, d) /\ q.at = "CreateAlert" /\ q.cam = c
Heard(page, messages) == page.alerts \cup {messages[i] : i \in DOMAIN messages}

WillFit(d, rs, page, mine) == \A r \in Slots : Of(rs[r], d) => Fits(rs[r], page, mine)
ListIsShown(d, rs, page, mine) ==
  (\A r \in Slots : Of(rs[r], d) => rs[r].kind = "alerts") => page.cameras = mine
AlertsAreHeard(d, rs, heard, mine) ==
  (\A r \in Slots : Of(rs[r], d) => rs[r].kind # "alerts") =>
    \A c \in DOMAIN mine : c \in heard \/ \E r \in Slots : Tells(rs[r], d, c)
Right(d, rs, page, messages, mine) ==
  On(page) /\ ~page.expired =>
    /\ WillFit(d, rs, page, mine)
    /\ ListIsShown(d, rs, page, mine)
    /\ AlertsAreHeard(d, rs, Heard(page, messages), mine)

Steady ==
  /\ OneAtATime(reqs) /\ HaveOwners(cameras)
  /\ pages = [d \in Pages |-> pages[d]] /\ inbox = [d \in Pages |-> inbox[d]]
  /\ \A d \in Pages : Tab(d, pages, inbox)
  /\ \A r \in Slots : Live(reqs[r]) => Placed(reqs[r], pages) /\ Works(reqs[r], cameras)
  /\ \A d \in Pages : Right(d, reqs, pages[d], inbox[d], Mine(pages[d].user, cameras))

SteadyInv == Careful => Steady

(* A user whose page has no request in flight sees the cameras there are.  *)
LEMMA RequestsOfPage ==
  ASSUME Steady, NEW r \in Slots, Live(reqs[r]), NEW d \in Pages, OnDashboard(d)
  PROVE  reqs[r].user = pages[d].user <=> reqs[r].page = d
<1>1. Placed(reqs[r], pages) /\ Tab(d, pages, inbox) /\ On(pages[d])
  BY DEF Steady, OnDashboard, On
<1>2. CASE On(pages[reqs[r].page])
  BY <1>1, <1>2 DEF Placed, Tab
<1>3. CASE ~On(pages[reqs[r].page])
  BY <1>1, <1>3 DEF Placed
<1>4. QED
  BY <1>2, <1>3

LEMMA SteadyIsEnough ==
  ASSUME SteadyInv
  PROVE  DashboardShows
<1> SUFFICES ASSUME NEW d \in Pages, profile.patient, faults = 0, OnDashboard(d),
                    ~Busy(pages[d].user), ~pages[d].expired
             PROVE  /\ pages[d].cameras = [c \in Owned(pages[d].user) |-> cameras[c]]
                    /\ inbox[d] = <<>> => Owned(pages[d].user) \subseteq pages[d].alerts
  BY DEF DashboardShows
<1> DEFINE mine == Mine(pages[d].user, cameras)
<1>1. Steady
  BY DEF SteadyInv, Careful
<1>2. \A r \in Slots : ~Of(reqs[r], d)
  BY <1>1, RequestsOfPage DEF Busy, Of, Live
<1>3. Right(d, reqs, pages[d], inbox[d], mine) /\ On(pages[d])
  BY <1>1 DEF Steady, OnDashboard, On
<1>4. mine = [c \in Owned(pages[d].user) |-> cameras[c]] /\ DOMAIN mine = Owned(pages[d].user)
  BY DEF Mine, Owned
<1> HIDE DEF mine
<1>5. pages[d].cameras = mine
  BY <1>2, <1>3 DEF Right, ListIsShown
<1>6. DOMAIN mine \subseteq Heard(pages[d], inbox[d])
  BY <1>2, <1>3 DEF Right, AlertsAreHeard, Tells
<1>7. inbox[d] = <<>> => Heard(pages[d], inbox[d]) = pages[d].alerts
  BY DEF Heard
<1>8. QED
  BY <1>4, <1>5, <1>6, <1>7

LEMMA LoginPageIsTab ==
  /\ IsPage(LoginPage) /\ LoginPage.at = "login" /\ LoginPage.user = Nil
  /\ ~LoginPage.expired /\ LoginPage.ws = "closed"
BY DEF LoginPage, IsPage, PageFields

LEMMA SteadyInit == Init => Steady
<1> SUFFICES ASSUME Init PROVE Steady
  OBVIOUS
<1>1. \A r \in Slots : ~Live(reqs[r])
  BY DEF Init, NoRequest, Live
<1>2. \A d \in Pages : pages[d] = LoginPage /\ inbox[d] = <<>>
  BY DEF Init
<1>3. <<>> \in Seq(Nat)
  OBVIOUS
<1>4. \A d \in Pages : Tab(d, pages, inbox)
  BY <1>2, <1>3, LoginPageIsTab DEF Tab, On
<1>5. \A d \in Pages : Right(d, reqs, pages[d], inbox[d], Mine(pages[d].user, cameras))
  BY <1>2, LoginPageIsTab DEF Right, On
<1>6. HaveOwners(cameras)
  <2>1. PICK s \in Stores : cameras = s.cameras
    BY DEF Init
  <2>2. cameras \in [DOMAIN cameras -> Camera]
    BY <2>1, StoresAreWhole
  <2>3. QED
    BY <2>2 DEF Camera, HaveOwners
<1>7. pages = [d \in Pages |-> pages[d]] /\ inbox = [d \in Pages |-> inbox[d]]
  BY DEF Init
<1>8. QED
  BY <1>1, <1>4, <1>5, <1>6, <1>7 DEF Steady, OneAtATime, Apart

-----------------------------------------------------------------------------
(***************************************************************************)
(* The steps of a handler: one request goes on, of the same user and page. *)
(***************************************************************************)

(* What the other users have, and what was heard, stays.                   *)
Proceeds(r, q) ==
  /\ reqs' = [reqs EXCEPT ![r] = q] /\ UNCHANGED <<pages, profile, faults>>
  /\ Live(q) /\ q.page = reqs[r].page /\ q.user = reqs[r].user /\ q.kind = reqs[r].kind
  /\ \A u : u # q.user \/ q.kind \in {"cameras", "alerts"} => Mine(u, cameras') = Mine(u, cameras)
  /\ HaveOwners(cameras') /\ Works(q, cameras')

Keeps ==
  /\ inbox' = [d \in Pages |-> inbox'[d]]
  /\ \A d \in Pages : /\ inbox'[d] \in Seq(Nat)
                      /\ pages[d].ws # "open" => inbox'[d] = inbox[d]
                      /\ Heard(pages[d], inbox[d]) \subseteq Heard(pages[d], inbox'[d])

(* The page the request came from, if it shows anything.                   *)
Informs(r, q, d) ==
  LET mine == Mine(q.user, cameras')
      heard == Heard(pages[d], inbox'[d])
  IN On(pages[d]) /\ ~pages[d].expired =>
       /\ Fits(q, pages[d], mine)
       /\ q.kind # "alerts" => \A c \in DOMAIN mine :
            \/ c \in heard \/ Tells(q, d, c)
            \/ c \in DOMAIN Mine(q.user, cameras) /\ ~Tells(reqs[r], d, c)

LEMMA ProceedStep ==
  ASSUME Inv, Steady, NEW r \in Slots, Live(reqs[r]), NEW q, Proceeds(r, q), Keeps,
         Informs(r, q, q.page)
  PROVE  Steady'
<1>1. reqs' = [reqs EXCEPT ![r] = q] /\ pages' = pages
  BY DEF Proceeds
<1>2. reqs'[r] = q /\ \A e \in Slots \ {r} : reqs'[e] = reqs[e]
  BY <1>1 DEF Inv, Requests
<1>3. \A e \in Slots : /\ Live(reqs'[e]) <=> Live(reqs[e])
                       /\ reqs'[e].user = reqs[e].user /\ reqs'[e].page = reqs[e].page
                       /\ reqs'[e].kind = reqs[e].kind
  BY <1>2 DEF Proceeds
<1>4. OneAtATime(reqs')
  BY <1>3 DEF Steady, OneAtATime, Apart
<1>5. \A d \in Pages : Tab(d, pages', inbox')
  <2> SUFFICES ASSUME NEW d \in Pages PROVE Tab(d, pages, inbox')
    BY <1>1
  <2>1. Tab(d, pages, inbox) /\ inbox'[d] \in Seq(Nat) /\ (pages[d].ws # "open" => inbox'[d] = inbox[d])
    BY DEF Steady, Keeps
  <2>2. QED
    BY <2>1, LoginPageIsTab DEF Tab
<1>6. \A e \in Slots : Live(reqs'[e]) => Placed(reqs'[e], pages')
  <2> SUFFICES ASSUME NEW e \in Slots, Live(reqs'[e]) PROVE Placed(reqs'[e], pages)
    BY <1>1
  <2>1. Live(reqs[e]) /\ reqs'[e].user = reqs[e].user /\ reqs'[e].page = reqs[e].page
        /\ reqs'[e].kind = reqs[e].kind
    BY <1>3
  <2>2. Placed(reqs[e], pages)
    BY <2>1 DEF Steady
  <2>3. QED
    BY <2>1, <2>2 DEF Placed
<1>7. \A e \in Slots : Live(reqs'[e]) => Works(reqs'[e], cameras')
  <2> SUFFICES ASSUME NEW e \in Slots \ {r}, Live(reqs[e]) PROVE Works(reqs[e], cameras')
    BY <1>2 DEF Proceeds
  <2>1. Works(reqs[e], cameras) /\ Matches(reqs[e]) /\ Apart(reqs[r], reqs[e])
    BY AtQuery DEF Steady, OneAtATime
  <2>2. CASE reqs[e].user # q.user
    <3>1. Mine(reqs[e].user, cameras') = Mine(reqs[e].user, cameras)
      BY <2>2 DEF Proceeds
    <3>2. QED
      BY <2>1, <3>1 DEF Works
  <2>3. CASE reqs[e].user = q.user
    <3>1. reqs[e].kind \in {"cameras", "alerts"}
      BY <2>1, <2>3 DEF Proceeds, Apart
    <3>2. QED
      BY <2>1, <3>1 DEF Works, Matches
  <2>4. QED
    BY <2>2, <2>3
<1>8. ASSUME NEW d \in Pages, On(pages[d]), ~pages[d].expired
      PROVE  /\ WillFit(d, reqs', pages[d], Mine(pages[d].user, cameras'))
             /\ ListIsShown(d, reqs', pages[d], Mine(pages[d].user, cameras'))
             /\ AlertsAreHeard(d, reqs', Heard(pages[d], inbox'[d]), Mine(pages[d].user, cameras'))
  <2> DEFINE u == pages[d].user
             was == Mine(u, cameras)
             mine == Mine(u, cameras')
             heard == Heard(pages[d], inbox[d])
             hears == Heard(pages[d], inbox'[d])
  <2>1. WillFit(d, reqs, pages[d], was) /\ ListIsShown(d, reqs, pages[d], was)
        /\ AlertsAreHeard(d, reqs, heard, was)
    BY <1>8 DEF Steady, Right
  <2>2. heard \subseteq hears
    BY DEF Keeps
  <2>3. \A e \in Slots : Of(reqs'[e], d) <=> Of(reqs[e], d)
    BY <1>3 DEF Of
  <2>4. u # q.user \/ q.kind \in {"cameras", "alerts"} => mine = was
    BY DEF Proceeds
  <2>5. q.user = u <=> q.page = d
    BY <1>8, RequestsOfPage DEF OnDashboard, On, Proceeds
  <2>6. Of(q, d) <=> q.page = d
    BY DEF Of, Proceeds
  <2> HIDE DEF u, was, mine, heard, hears
  <2>7. CASE q.page # d
    <3>1. mine = was /\ \A e \in Slots : Of(reqs'[e], d) => reqs'[e] = reqs[e]
      BY <1>2, <2>4, <2>5, <2>6, <2>7
    <3>2. WillFit(d, reqs', pages[d], mine) /\ ListIsShown(d, reqs', pages[d], mine)
      BY <2>1, <2>3, <3>1 DEF WillFit, ListIsShown
    <3>3. AlertsAreHeard(d, reqs', hears, mine)
      BY <2>1, <2>2, <2>3, <3>1 DEF AlertsAreHeard, Tells
    <3>4. QED
      BY <3>2, <3>3 DEF mine, hears, u
  <2>8. CASE q.page = d
    <3>1. /\ Fits(q, pages[d], mine)
          /\ q.kind # "alerts" => \A c \in DOMAIN mine :
               c \in hears \/ Tells(q, d, c) \/ (c \in DOMAIN was /\ ~Tells(reqs[r], d, c))
      BY <1>8, <2>5, <2>8 DEF Informs, mine, was, hears, u
    <3>2. ASSUME NEW e \in Slots \ {r}, Of(reqs'[e], d)
          PROVE  mine = was
      <4>1. Apart(reqs[r], reqs[e]) /\ Live(reqs[e]) /\ reqs[e].page = reqs[r].page
        BY <1>2, <2>8, <3>2 DEF Steady, OneAtATime, Of, Proceeds
      <4>2. QED
        BY <2>4, <4>1 DEF Apart, Proceeds
    <3>3. WillFit(d, reqs', pages[d], mine)
      BY <1>2, <2>1, <3>1, <3>2 DEF WillFit
    <3>4. ListIsShown(d, reqs', pages[d], mine)
      BY <1>2, <1>3, <2>1, <2>3, <2>4, <2>6, <2>8 DEF ListIsShown
    <3>5. AlertsAreHeard(d, reqs', hears, mine)
      <4> SUFFICES ASSUME \A e \in Slots : Of(reqs'[e], d) => reqs'[e].kind # "alerts",
                          NEW c \in DOMAIN mine
                   PROVE  c \in hears \/ \E e \in Slots : Tells(reqs'[e], d, c)
        BY DEF AlertsAreHeard
      <4>1. q.kind # "alerts" /\ \A e \in Slots : Of(reqs[e], d) => reqs[e].kind # "alerts"
        BY <1>2, <1>3, <2>3, <2>6, <2>8
      <4>2. CASE c \in hears \/ Tells(q, d, c)
        BY <1>2, <4>2
      <4>3. CASE c \in DOMAIN was /\ ~Tells(reqs[r], d, c)
        <5>1. c \in heard \/ \E e \in Slots : Tells(reqs[e], d, c)
          BY <2>1, <4>1, <4>3 DEF AlertsAreHeard
        <5>2. QED
          BY <1>2, <2>2, <4>3, <5>1
      <4>4. QED
        BY <3>1, <4>1, <4>2, <4>3
    <3>6. QED
      BY <3>3, <3>4, <3>5 DEF mine, hears, u
  <2>9. QED
    BY <2>7, <2>8
<1>9. \A d \in Pages : Right(d, reqs', pages'[d], inbox'[d], Mine(pages'[d].user, cameras'))
  BY <1>1, <1>8 DEF Right
<1>10. pages' = [d \in Pages |-> pages'[d]] /\ inbox' = [d \in Pages |-> inbox'[d]]
  BY <1>1 DEF Steady, Keeps
<1>11. HaveOwners(cameras')
  BY DEF Proceeds
<1>12. QED
  BY <1>4, <1>5, <1>6, <1>7, <1>9, <1>10, <1>11 DEF Steady

(* Most steps read the cameras only.                                       *)
LEMMA KeepsInbox ==
  ASSUME Steady, inbox' = inbox
  PROVE  Keeps
BY DEF Steady, Tab, Keeps

LEMMA ReadSteady ==
  ASSUME Inv, Steady, NEW r \in Slots, Live(reqs[r]), NEW q, IsRequest(q), Live(q),
         q.page = reqs[r].page, q.user = reqs[r].user, q.kind = reqs[r].kind,
         reqs' = [reqs EXCEPT ![r] = q], UNCHANGED <<cameras, inbox, pages, profile, faults>>,
         reqs[r].at # "CreateAlert", Works(q, cameras),
         On(pages[q.page]) /\ ~pages[q.page].expired => Fits(q, pages[q.page], Mine(q.user, cameras))
  PROVE  Steady'
<1>1. Proceeds(r, q)
  BY DEF Steady, Proceeds
<1>2. Informs(r, q, q.page)
  BY DEF Informs, Tells
<1>3. QED
  BY <1>1, <1>2, KeepsInbox, ProceedStep

(* What the invariant says of a request and its page.                      *)
LEMMA AtWork ==
  ASSUME Inv, Steady, NEW r \in Slots, Live(reqs[r])
  PROVE  /\ IsRequest(reqs[r]) /\ Matches(reqs[r]) /\ Works(reqs[r], cameras)
         /\ reqs[r].page \in Pages /\ Placed(reqs[r], pages) /\ IsPage(pages[reqs[r].page])
         /\ On(pages[reqs[r].page]) /\ ~pages[reqs[r].page].expired =>
              Fits(reqs[r], pages[reqs[r].page], Mine(reqs[r].user, cameras))
<1>1. Placed(reqs[r], pages)
  BY DEF Steady
<1>2. reqs[r].page \in Pages /\ (On(pages[reqs[r].page]) => reqs[r].user = pages[reqs[r].page].user)
  BY <1>1 DEF Placed
<1>3. Tab(reqs[r].page, pages, inbox)
  BY <1>2 DEF Steady
<1>4. On(pages[reqs[r].page]) /\ ~pages[reqs[r].page].expired =>
        Fits(reqs[r], pages[reqs[r].page], Mine(reqs[r].user, cameras))
  BY <1>2 DEF Steady, Right, WillFit, Of
<1>5. QED
  BY <1>1, <1>2, <1>3, <1>4, AtQuery DEF Steady, Tab

LEMMA MineIsOwned ==
  ASSUME NEW u
  PROVE  /\ DOMAIN Mine(u, cameras) = Owned(u)
         /\ Mine(u, cameras) = [c \in Owned(u) |-> cameras[c]]
BY DEF Mine, Owned

(* A page at the login is told nothing.                                    *)
LEMMA FindAccountSteady ==
  ASSUME Inv, Steady, NEW r \in Slots, FindAccount(r)
  PROVE  Steady'
<1> DEFINE q == reqs[r]
<1>1. q.at = "FindAccount" /\ UNCHANGED <<cameras, inbox, pages, profile, faults>>
  BY DEF FindAccount, At, serverRest, store
<1>2. /\ Live(q) /\ IsRequest(q) /\ Works(q, cameras) /\ q.kind \in {"register", "login"}
      /\ ~On(pages[q.page])
  BY <1>1, AtWork DEF Live, Matches, Placed
<1>3. \/ \E status, body : reqs' = [reqs EXCEPT ![r] = Answered(q, status, body)]
      \/ reqs' = [reqs EXCEPT ![r] = Further(q, "CreateAccount", Nil, Nil)]
  <2>1. CASE q.kind = "register" /\ q.user \in accounts
    <3>1. reqs' = [reqs EXCEPT ![r] = Answered(q, 409, Nil)]
      BY <2>1 DEF FindAccount, Answer, Answered
    <3>2. QED
      BY <3>1
  <2>2. CASE q.kind = "register" /\ q.user \notin accounts
    BY <2>2 DEF FindAccount, Continue, Further
  <2>3. CASE q.kind = "login" /\ q.user \in accounts
    <3>1. reqs' = [reqs EXCEPT ![r] = Answered(q, 200, q.user)]
      BY <2>3 DEF FindAccount, Answer, Answered
    <3>2. QED
      BY <3>1
  <2>4. CASE q.kind = "login" /\ q.user \notin accounts
    <3>1. reqs' = [reqs EXCEPT ![r] = Answered(q, 401, Nil)]
      BY <2>4 DEF FindAccount, Answer, Answered
    <3>2. QED
      BY <3>1
  <2>5. QED
    BY <1>2, <2>1, <2>2, <2>3, <2>4
<1>4. CASE \E status, body : reqs' = [reqs EXCEPT ![r] = Answered(q, status, body)]
  <2>1. PICK status, body : reqs' = [reqs EXCEPT ![r] = Answered(q, status, body)]
    BY <1>4
  <2> DEFINE a == Answered(q, status, body)
  <2>2. /\ IsRequest(a) /\ Live(a) /\ a.page = q.page /\ a.user = q.user /\ a.kind = q.kind
        /\ Works(a, cameras)
    BY <1>2, AnsweredFields DEF Live, Works
  <2> HIDE DEF a
  <2>3. QED
    BY <1>1, <1>2, <2>1, <2>2, ReadSteady DEF a
<1>5. CASE reqs' = [reqs EXCEPT ![r] = Further(q, "CreateAccount", Nil, Nil)]
  <2> DEFINE f == Further(q, "CreateAccount", Nil, Nil)
  <2>1. /\ IsRequest(f) /\ Live(f) /\ f.page = q.page /\ f.user = q.user /\ f.kind = q.kind
        /\ Works(f, cameras)
    BY <1>2, FurtherFields DEF Live, Works
  <2>2. reqs' = [reqs EXCEPT ![r] = f]
    BY <1>5
  <2> HIDE DEF f
  <2>3. QED
    BY <1>1, <1>2, <2>1, <2>2, ReadSteady
<1>6. QED
  BY <1>3, <1>4, <1>5

LEMMA CreateAccountSteady ==
  ASSUME Inv, Steady, NEW r \in Slots, CreateAccount(r)
  PROVE  Steady'
<1> DEFINE q == reqs[r]
<1>1. q.at = "CreateAccount" /\ UNCHANGED <<cameras, inbox, pages, profile, faults>>
  BY DEF CreateAccount, At, serverRest
<1>2. /\ Live(q) /\ IsRequest(q) /\ Works(q, cameras) /\ q.kind = "register"
      /\ ~On(pages[q.page])
  BY <1>1, AtWork DEF Live, Matches, Placed
<1>3. PICK status, body : reqs' = [reqs EXCEPT ![r] = Answered(q, status, body)]
  <2>1. CASE q.user \in accounts
    <3>1. reqs' = [reqs EXCEPT ![r] = Answered(q, 500, Nil)]
      BY <2>1 DEF CreateAccount, Answer, Answered
    <3>2. QED
      BY <3>1
  <2>2. CASE q.user \notin accounts
    <3>1. reqs' = [reqs EXCEPT ![r] = Answered(q, 200, q.user)]
      BY <2>2 DEF CreateAccount, Answer, Answered
    <3>2. QED
      BY <3>1
  <2>3. QED
    BY <2>1, <2>2
<1> DEFINE a == Answered(q, status, body)
<1>4. /\ IsRequest(a) /\ Live(a) /\ a.page = q.page /\ a.user = q.user /\ a.kind = q.kind
      /\ Works(a, cameras)
  BY <1>2, AnsweredFields DEF Live, Works
<1>5. reqs' = [reqs EXCEPT ![r] = a]
  BY <1>3
<1> HIDE DEF a
<1>6. QED
  BY <1>1, <1>2, <1>4, <1>5, ReadSteady

(* The lists.                                                              *)
LEMMA ListCamerasSteady ==
  ASSUME Inv, Steady, NEW r \in Slots, ListCameras(r)
  PROVE  Steady'
<1> DEFINE q == reqs[r]
           mine == Mine(q.user, cameras)
<1>1. q.at = "ListCameras" /\ UNCHANGED <<cameras, inbox, pages, profile, faults>>
  BY DEF ListCameras, At, serverRest, store
<1>2. Live(q) /\ IsRequest(q) /\ q.kind \in {"cameras", "alerts"} /\ IsPage(pages[q.page])
  BY <1>1, AtWork DEF Live, Matches
<1>3. DOMAIN mine = Owned(q.user) /\ mine = [c \in Owned(q.user) |-> cameras[c]]
  BY MineIsOwned
<1> HIDE DEF mine
<1>4. CASE q.kind = "cameras"
  <2> DEFINE a == Answered(q, 200, mine)
  <2>1. reqs' = [reqs EXCEPT ![r] = a]
    BY <1>3, <1>4 DEF ListCameras, Answer, Answered
  <2>2. /\ IsRequest(a) /\ Live(a) /\ a.page = q.page /\ a.user = q.user /\ a.kind = q.kind
        /\ a.at = "answered" /\ a.status = 200 /\ a.body = mine
    BY <1>2, AnsweredFields DEF Live
  <2> HIDE DEF a
  <2>3. Works(a, cameras)
    BY <1>4, <2>2 DEF Works
  <2>4. Fits(a, pages[a.page], mine)
    <3>1. Shown(pages[a.page], a).cameras = mine
      BY <1>2, <1>4, <2>2 DEF Shown, IsPage, PageFields
    <3>2. QED
      BY <1>4, <2>2, <3>1 DEF Fits
  <2>5. QED
    BY <1>1, <1>2, <2>1, <2>2, <2>3, <2>4, ReadSteady DEF mine
<1>5. CASE q.kind = "alerts" /\ Owned(q.user) = {}
  <2> DEFINE a == Answered(q, 200, {})
  <2>1. reqs' = [reqs EXCEPT ![r] = a]
    BY <1>5 DEF ListCameras, Answer, Answered
  <2>2. /\ IsRequest(a) /\ Live(a) /\ a.page = q.page /\ a.user = q.user /\ a.kind = q.kind
        /\ a.at = "answered" /\ a.status = 200 /\ a.body = {}
    BY <1>2, AnsweredFields DEF Live
  <2> HIDE DEF a
  <2>3. Works(a, cameras) /\ Fits(a, pages[a.page], mine)
    BY <1>3, <1>5, <2>2 DEF Works, Fits
  <2>4. QED
    BY <1>1, <1>2, <2>1, <2>2, <2>3, ReadSteady DEF mine
<1>6. CASE q.kind = "alerts" /\ Owned(q.user) # {}
  <2> DEFINE f == Further(q, "ListAlerts", Nil, Owned(q.user))
  <2>1. reqs' = [reqs EXCEPT ![r] = f]
    BY <1>6 DEF ListCameras, Continue, Further
  <2>2. /\ IsRequest(f) /\ Live(f) /\ f.page = q.page /\ f.user = q.user /\ f.kind = q.kind
        /\ f.at = "ListAlerts" /\ f.read = Owned(q.user)
    BY <1>2, FurtherFields DEF Live
  <2> HIDE DEF f
  <2>3. Works(f, cameras) /\ Fits(f, pages[f.page], mine)
    BY <1>3, <1>6, <2>2 DEF Works, Fits
  <2>4. QED
    BY <1>1, <1>2, <2>1, <2>2, <2>3, ReadSteady DEF mine
<1>7. QED
  BY <1>2, <1>4, <1>5, <1>6

(* A camera without its alert is one its user creates or deletes.          *)
LEMMA AlertsAreThere ==
  ASSUME Inv, Careful, Steady, NEW r \in Slots, reqs[r].at = "ListAlerts"
  PROVE  Owned(reqs[r].user) \subseteq alerts
<1> SUFFICES ASSUME NEW c \in Owned(reqs[r].user), c \notin alerts PROVE FALSE
  OBVIOUS
<1>1. c \in DOMAIN cameras /\ cameras[c].owner = reqs[r].user
  BY DEF Owned
<1>2. PICK e \in Slots : Completes(reqs[e], c)
  BY <1>1 DEF Careful, Inv, Pending
<1>3. Live(reqs[e]) /\ Live(reqs[r]) /\ e # r
  BY <1>2 DEF Completes, Live
<1>4. reqs[e].kind \in {"create", "delete"}
  BY <1>2, AtQuery DEF Completes, Matches
<1>5. c \in DOMAIN Mine(reqs[e].user, cameras)
  BY <1>2, <1>3, AtWork DEF Completes, Works
<1>6. reqs[e].user = reqs[r].user
  BY <1>1, <1>5 DEF Mine
<1>7. Apart(reqs[r], reqs[e])
  BY <1>3 DEF Steady, OneAtATime
<1>8. QED
  BY <1>3, <1>4, <1>6, <1>7 DEF Apart

LEMMA ListAlertsSteady ==
  ASSUME Inv, Careful, Steady, NEW r \in Slots, ListAlerts(r)
  PROVE  Steady'
<1> DEFINE q == reqs[r]
           mine == Mine(q.user, cameras)
           body == q.read \cap alerts
           a == Answered(q, 200, body)
<1>1. /\ q.at = "ListAlerts" /\ UNCHANGED <<cameras, inbox, pages, profile, faults>>
      /\ reqs' = [reqs EXCEPT ![r] = a]
  BY DEF ListAlerts, At, serverRest, store, Answer, Answered
<1>2. /\ Live(q) /\ IsRequest(q) /\ q.kind = "alerts"
      /\ On(pages[q.page]) /\ ~pages[q.page].expired => q.read = DOMAIN mine
  BY <1>1, AtWork DEF Live, Works, Fits
<1>3. DOMAIN mine \subseteq alerts
  BY <1>1, AlertsAreThere, MineIsOwned
<1> HIDE DEF mine
<1>4. On(pages[q.page]) /\ ~pages[q.page].expired => body = DOMAIN mine
  BY <1>2, <1>3
<1> HIDE DEF body
<1>5. /\ IsRequest(a) /\ Live(a) /\ a.page = q.page /\ a.user = q.user /\ a.kind = q.kind
      /\ a.at = "answered" /\ a.status = 200 /\ a.body = body
  BY <1>2, AnsweredFields DEF Live
<1> HIDE DEF a
<1>6. Works(a, cameras)
  BY <1>2, <1>5 DEF Works
<1>7. On(pages[a.page]) /\ ~pages[a.page].expired => Fits(a, pages[a.page], mine)
  BY <1>2, <1>4, <1>5 DEF Fits
<1>8. QED
  BY <1>1, <1>2, <1>5, <1>6, <1>7, ReadSteady DEF mine

(* A handler that changes the cameras of its user.                         *)
LEMMA OthersKeepTheirs ==
  ASSUME NEW c, NEW u, NEW v, v # u,
         \A e \in DOMAIN cameras \ {c} : e \in DOMAIN cameras' /\ cameras'[e] = cameras[e],
         DOMAIN cameras' \subseteq DOMAIN cameras \cup {c},
         c \in DOMAIN cameras => cameras[c].owner = u,
         c \in DOMAIN cameras' => cameras'[c].owner = u
  PROVE  Mine(v, cameras') = Mine(v, cameras)
<1>1. {e \in DOMAIN cameras' : cameras'[e].owner = v} = {e \in DOMAIN cameras : cameras[e].owner = v}
  OBVIOUS
<1>2. \A e \in {f \in DOMAIN cameras : cameras[f].owner = v} : cameras'[e] = cameras[e]
  OBVIOUS
<1>3. QED
  BY <1>1, <1>2 DEF Mine

LEMMA CreateCameraSteady ==
  ASSUME Inv, Steady, NEW r \in Slots, CreateCamera(r)
  PROVE  Steady'
<1> DEFINE q == reqs[r]
           c == nextId
           camera == [owner |-> q.user, name |-> q.data.name, enabled |-> TRUE]
           f == Further(q, "CreateAlert", c, camera)
           was == Mine(q.user, cameras)
           mine == Mine(q.user, cameras')
<1>1. /\ q.at = "CreateCamera" /\ UNCHANGED <<inbox, pages, profile, faults>>
      /\ cameras' = WithKey(cameras, c, camera) /\ reqs' = [reqs EXCEPT ![r] = f]
  BY DEF CreateCamera, At, serverRest, Continue, Further
<1>2. /\ Live(q) /\ IsRequest(q) /\ q.kind = "create"
      /\ On(pages[q.page]) /\ ~pages[q.page].expired => pages[q.page].cameras = was
  BY <1>1, AtWork DEF Live, Matches, Fits
<1>3. c \notin DOMAIN cameras
  BY DEF Inv, Keys, Was
<1>4. camera.owner = q.user /\ "owner" \in DOMAIN camera
  OBVIOUS
<1> HIDE DEF camera
<1>5. /\ DOMAIN cameras' = DOMAIN cameras \cup {c} /\ cameras'[c] = camera
      /\ \A e \in DOMAIN cameras : cameras'[e] = cameras[e]
  BY <1>1, <1>3 DEF WithKey
<1>6. \A u : u # q.user => Mine(u, cameras') = Mine(u, cameras)
  BY <1>3, <1>4, <1>5, OthersKeepTheirs
<1>7. mine = WithKey(was, c, camera) /\ DOMAIN mine = DOMAIN was \cup {c} /\ mine[c] = camera
  <2>1. DOMAIN mine = DOMAIN was \cup {c}
    BY <1>3, <1>4, <1>5 DEF Mine
  <2>2. \A e \in DOMAIN mine : mine[e] = IF e = c THEN camera ELSE was[e]
    BY <1>3, <1>4, <1>5 DEF Mine
  <2>3. mine = [e \in DOMAIN mine |-> mine[e]]
    BY DEF Mine
  <2> HIDE DEF mine, was
  <2>4. QED
    BY <2>1, <2>2, <2>3 DEF WithKey
<1> HIDE DEF mine, was
<1>8. /\ Live(f) /\ f.page = q.page /\ f.user = q.user /\ f.kind = q.kind
      /\ f.at = "CreateAlert" /\ f.cam = c /\ f.read = camera
  BY <1>2, FurtherFields DEF Live
<1> HIDE DEF f
<1>9. Works(f, cameras')
  BY <1>2, <1>7, <1>8 DEF Works, mine
<1>10. HaveOwners(cameras')
  BY <1>4, <1>5 DEF Steady, HaveOwners
<1>11. Proceeds(r, f)
  BY <1>1, <1>2, <1>6, <1>8, <1>9, <1>10 DEF Proceeds
<1>12. Informs(r, f, f.page)
  <2> SUFFICES ASSUME On(pages[f.page]), ~pages[f.page].expired
               PROVE  /\ Fits(f, pages[f.page], mine)
                      /\ \A e \in DOMAIN mine : Tells(f, f.page, e)
                           \/ (e \in DOMAIN was /\ ~Tells(reqs[r], f.page, e))
    BY <1>8 DEF Informs, mine, was
  <2>1. Fits(f, pages[f.page], mine)
    BY <1>2, <1>7, <1>8 DEF Fits
  <2>2. QED
    BY <1>1, <1>7, <1>8, <2>1 DEF Tells, Of
<1>13. QED
  BY <1>1, <1>2, <1>11, <1>12, KeepsInbox, ProceedStep

(* The alert is sent to the page that asked, which has its WebSocket open. *)
LEMMA CreateAlertSteady ==
  ASSUME Inv, Steady, NEW r \in Slots, CreateAlert(r)
  PROVE  Steady'
<1> DEFINE q == reqs[r]
           c == q.cam
           a == Answered(q, 200, q.read)
           d == q.page
           mine == Mine(q.user, cameras)
<1>1. q.at = "CreateAlert" /\ UNCHANGED <<cameras, pages, profile, faults>>
  BY DEF CreateAlert, At, serverRest
<1>2. /\ Live(q) /\ IsRequest(q) /\ q.kind = "create" /\ c \in DOMAIN mine /\ d \in Pages
      /\ pages[d].ws = "open" /\ IsPage(pages[d])
      /\ On(pages[d]) /\ ~pages[d].expired => WithKey(pages[d].cameras, c, q.read) = mine
  BY <1>1, AtWork DEF Live, Matches, Works, Placed, Fits
<1>3. c \in DOMAIN cameras
  BY <1>2 DEF Mine
<1> HIDE DEF mine
<1>4. /\ reqs' = [reqs EXCEPT ![r] = a]
      /\ inbox' = [e \in Pages |-> IF pages[e].ws = "open" THEN Append(inbox[e], c) ELSE inbox[e]]
  BY <1>3 DEF CreateAlert, Referenced, Answer, Answered
<1>5. c \in Nat
  BY <1>3 DEF Inv, Keys, Was
<1>6. \A e \in Pages : inbox[e] \in Seq(Nat)
  BY DEF Steady, Tab
<1>7. ASSUME NEW e \in Pages, pages[e].ws = "open"
      PROVE  /\ inbox'[e] \in Seq(Nat)
             /\ Heard(pages[e], inbox'[e]) = Heard(pages[e], inbox[e]) \cup {c}
  <2>1. inbox'[e] = Append(inbox[e], c) /\ inbox[e] \in Seq(Nat)
    BY <1>4, <1>6, <1>7
  <2>2. /\ inbox'[e] \in Seq(Nat) /\ DOMAIN inbox'[e] = DOMAIN inbox[e] \cup {Len(inbox[e]) + 1}
        /\ inbox'[e][Len(inbox[e]) + 1] = c
        /\ \A i \in DOMAIN inbox[e] : inbox'[e][i] = inbox[e][i]
    BY <1>5, <2>1
  <2>3. {inbox'[e][i] : i \in DOMAIN inbox'[e]} = {inbox[e][i] : i \in DOMAIN inbox[e]} \cup {c}
    BY <2>2
  <2>4. QED
    BY <2>2, <2>3 DEF Heard
<1>8. Keeps
  <2>1. \A e \in Pages : pages[e].ws # "open" => inbox'[e] = inbox[e]
    BY <1>4
  <2>2. inbox' = [e \in Pages |-> inbox'[e]]
    BY <1>4
  <2>3. QED
    BY <1>6, <1>7, <2>1, <2>2 DEF Keeps
<1>9. /\ IsRequest(a) /\ Live(a) /\ a.page = d /\ a.user = q.user /\ a.kind = q.kind
      /\ a.at = "answered" /\ a.status = 200 /\ a.body = q.read /\ a.cam = c
  BY <1>2, AnsweredFields DEF Live
<1> HIDE DEF a
<1>10. Works(a, cameras)
  BY <1>2, <1>9 DEF Works
<1>11. Proceeds(r, a)
  BY <1>1, <1>4, <1>9, <1>10 DEF Proceeds, Steady
<1>12. Informs(r, a, d)
  <2> SUFFICES ASSUME On(pages[d]), ~pages[d].expired
               PROVE  /\ Fits(a, pages[d], mine)
                      /\ \A e \in DOMAIN mine : e \in Heard(pages[d], inbox'[d])
                           \/ (e \in DOMAIN mine /\ ~Tells(reqs[r], d, e))
    BY <1>1, <1>9 DEF Informs, mine
  <2>1. Shown(pages[d], a).cameras = WithKey(pages[d].cameras, c, q.read)
    BY <1>2, <1>9 DEF Shown, IsPage, PageFields
  <2>2. Fits(a, pages[d], mine)
    BY <1>2, <1>9, <2>1 DEF Fits
  <2>3. c \in Heard(pages[d], inbox'[d])
    BY <1>2, <1>7
  <2>4. QED
    BY <2>2, <2>3 DEF Tells
<1>13. QED
  BY <1>2, <1>8, <1>9, <1>11, <1>12, ProceedStep

(* A camera is looked up before it is changed.                             *)
LEMMA FindCameraSteady ==
  ASSUME Inv, Steady, NEW r \in Slots, FindCamera(r)
  PROVE  Steady'
<1> DEFINE q == reqs[r]
           mine == Mine(q.user, cameras)
           at == IF q.kind = "patch" THEN "UpdateCamera" ELSE "DeleteAlerts"
<1>1. q.at = "FindCamera" /\ UNCHANGED <<cameras, inbox, pages, profile, faults>>
  BY DEF FindCamera, At, serverRest, store
<1>2. /\ Live(q) /\ IsRequest(q) /\ q.kind \in {"patch", "delete"} /\ Works(q, cameras)
      /\ On(pages[q.page]) /\ ~pages[q.page].expired => pages[q.page].cameras = mine
  BY <1>1, AtWork DEF Live, Matches, Fits
<1>3. DOMAIN mine = Owned(q.user) /\ \A c \in DOMAIN mine : mine[c] = cameras[c]
  BY MineIsOwned
<1> HIDE DEF mine
<1>4. CASE q.cam \notin Owned(q.user)
  <2> DEFINE a == Answered(q, 404, Nil)
  <2>1. reqs' = [reqs EXCEPT ![r] = a]
    BY <1>4 DEF FindCamera, Answer, Answered
  <2>2. /\ IsRequest(a) /\ Live(a) /\ a.page = q.page /\ a.user = q.user /\ a.kind = q.kind
        /\ a.at = "answered" /\ a.status # 200 /\ a.data = q.data
    BY <1>2, AnsweredFields, 404 # 200 DEF Live
  <2> HIDE DEF a
  <2>3. Works(a, cameras)
    BY <1>2, <2>2 DEF Works
  <2>4. On(pages[a.page]) /\ ~pages[a.page].expired => Fits(a, pages[a.page], mine)
    BY <1>2, <2>2 DEF Fits, Shown
  <2>5. QED
    BY <1>1, <1>2, <2>1, <2>2, <2>3, <2>4, ReadSteady DEF mine
<1>5. CASE q.cam \in Owned(q.user)
  <2> DEFINE f == Further(q, at, q.cam, cameras[q.cam])
  <2>1. reqs' = [reqs EXCEPT ![r] = f]
    BY <1>5 DEF FindCamera, Continue, Further
  <2>2. /\ IsRequest(f) /\ Live(f) /\ f.page = q.page /\ f.user = q.user /\ f.kind = q.kind
        /\ f.at = at /\ f.cam = q.cam /\ f.read = cameras[q.cam] /\ f.data = q.data
    BY <1>2, FurtherFields DEF Live
  <2> HIDE DEF f
  <2>3. Works(f, cameras)
    BY <1>2, <1>3, <1>5, <2>2 DEF Works, mine
  <2>4. On(pages[f.page]) /\ ~pages[f.page].expired => Fits(f, pages[f.page], mine)
    BY <1>2, <2>2 DEF Fits
  <2>5. QED
    BY <1>1, <1>2, <2>1, <2>2, <2>3, <2>4, ReadSteady DEF mine
<1>6. QED
  BY <1>4, <1>5

(* Its owner does not change with it.                                      *)
LEMMA UpdateCameraSteady ==
  ASSUME Inv, Steady, NEW r \in Slots, UpdateCamera(r)
  PROVE  Steady'
<1> DEFINE q == reqs[r]
           c == q.cam
           updated == Completed(q.data, q.read)
           a == Answered(q, 200, updated)
           was == Mine(q.user, cameras)
           mine == Mine(q.user, cameras')
<1>1. q.at = "UpdateCamera" /\ UNCHANGED <<inbox, pages, profile, faults>>
  BY DEF UpdateCamera, At, serverRest
<1>2. /\ Live(q) /\ IsRequest(q) /\ q.kind = "patch" /\ Works(q, cameras) /\ IsPage(pages[q.page])
      /\ c \in DOMAIN was /\ q.read = was[c]
      /\ On(pages[q.page]) /\ ~pages[q.page].expired => pages[q.page].cameras = was
  BY <1>1, AtWork DEF Live, Matches, Works, Fits
<1>3. c \in DOMAIN cameras /\ cameras[c].owner = q.user /\ q.read = cameras[c]
  BY <1>2 DEF Mine
<1>4. cameras' = [cameras EXCEPT ![c] = updated] /\ reqs' = [reqs EXCEPT ![r] = a]
  BY <1>3 DEF UpdateCamera, Answer, Answered
<1>5. "owner" \in DOMAIN updated /\ updated.owner = q.user
  <2>1. "owner" \in DOMAIN q.read /\ "owner" \notin DOMAIN q.data
    BY <1>2, <1>3 DEF Steady, HaveOwners, Works
  <2>2. QED
    BY <1>3, <2>1 DEF Completed
<1> HIDE DEF updated
<1>6. /\ DOMAIN cameras' = DOMAIN cameras /\ cameras'[c] = updated
      /\ \A e \in DOMAIN cameras \ {c} : cameras'[e] = cameras[e]
  BY <1>3, <1>4
<1>7. \A u : u # q.user => Mine(u, cameras') = Mine(u, cameras)
  <2>1. /\ \A e \in DOMAIN cameras \ {c} : e \in DOMAIN cameras' /\ cameras'[e] = cameras[e]
        /\ DOMAIN cameras' \subseteq DOMAIN cameras \cup {c} /\ cameras'[c].owner = q.user
    BY <1>5, <1>6
  <2> HIDE DEF c
  <2>2. QED
    BY <1>3, <2>1, OthersKeepTheirs
<1>8. mine = [was EXCEPT ![c] = updated] /\ DOMAIN mine = DOMAIN was
  <2>1. DOMAIN mine = DOMAIN was
    BY <1>3, <1>5, <1>6 DEF Mine
  <2>2. \A e \in DOMAIN mine : mine[e] = IF e = c THEN updated ELSE was[e]
    BY <1>3, <1>5, <1>6 DEF Mine
  <2>3. mine = [e \in DOMAIN mine |-> mine[e]] /\ was = [e \in DOMAIN was |-> was[e]]
    BY DEF Mine
  <2> HIDE DEF mine, was
  <2>4. QED
    BY <2>1, <2>2, <2>3
<1> HIDE DEF mine, was
<1>9. /\ IsRequest(a) /\ Live(a) /\ a.page = q.page /\ a.user = q.user /\ a.kind = q.kind
      /\ a.at = "answered" /\ a.status = 200 /\ a.body = updated /\ a.cam = c /\ a.data = q.data
  BY <1>2, AnsweredFields DEF Live
<1> HIDE DEF a
<1>10. Works(a, cameras') /\ HaveOwners(cameras')
  BY <1>2, <1>5, <1>6, <1>9 DEF Works, Steady, HaveOwners
<1>11. Proceeds(r, a)
  BY <1>1, <1>2, <1>4, <1>7, <1>9, <1>10 DEF Proceeds
<1>12. Informs(r, a, a.page)
  <2> SUFFICES ASSUME On(pages[a.page]), ~pages[a.page].expired
               PROVE  /\ Fits(a, pages[a.page], mine)
                      /\ \A e \in DOMAIN mine : e \in DOMAIN was /\ ~Tells(reqs[r], a.page, e)
    BY <1>9 DEF Informs, mine, was
  <2>1. pages[a.page].cameras = was /\ c \in DOMAIN pages[a.page].cameras
    BY <1>2, <1>9
  <2>2. Shown(pages[a.page], a).cameras = [was EXCEPT ![c] = updated]
    BY <1>2, <1>9, <2>1 DEF Shown, IsPage, PageFields
  <2>3. Fits(a, pages[a.page], mine)
    BY <1>2, <1>8, <1>9, <2>2 DEF Fits
  <2>4. QED
    BY <1>1, <1>8, <2>3 DEF Tells
<1>13. QED
  BY <1>1, <1>2, <1>11, <1>12, KeepsInbox, ProceedStep

(* A camera is deleted after its alerts.                                   *)
LEMMA DeleteAlertsSteady ==
  ASSUME Inv, Steady, NEW r \in Slots, DeleteAlerts(r)
  PROVE  Steady'
<1> DEFINE q == reqs[r]
           f == Further(q, "DeleteCamera", q.cam, Nil)
<1>1. /\ q.at = "DeleteAlerts" /\ UNCHANGED <<cameras, inbox, pages, profile, faults>>
      /\ reqs' = [reqs EXCEPT ![r] = f]
  BY DEF DeleteAlerts, At, serverRest, Continue, Further
<1>2. /\ Live(q) /\ IsRequest(q) /\ q.kind = "delete" /\ Works(q, cameras)
      /\ q.cam \in DOMAIN Mine(q.user, cameras)
      /\ On(pages[q.page]) /\ ~pages[q.page].expired =>
           pages[q.page].cameras = Mine(q.user, cameras)
  BY <1>1, AtWork DEF Live, Matches, Works, Fits
<1>3. /\ IsRequest(f) /\ Live(f) /\ f.page = q.page /\ f.user = q.user /\ f.kind = q.kind
      /\ f.at = "DeleteCamera" /\ f.cam = q.cam
  BY <1>2, FurtherFields DEF Live
<1> HIDE DEF f
<1>4. Works(f, cameras)
  BY <1>2, <1>3 DEF Works
<1>5. On(pages[f.page]) /\ ~pages[f.page].expired => Fits(f, pages[f.page], Mine(f.user, cameras))
  BY <1>2, <1>3 DEF Fits
<1>6. QED
  BY <1>1, <1>2, <1>3, <1>4, <1>5, ReadSteady

LEMMA DeleteCameraSteady ==
  ASSUME Inv, Steady, NEW r \in Slots, DeleteCamera(r)
  PROVE  Steady'
<1> DEFINE q == reqs[r]
           c == q.cam
           was == Mine(q.user, cameras)
           mine == Mine(q.user, cameras')
<1>1. q.at = "DeleteCamera" /\ UNCHANGED <<inbox, pages, profile, faults>>
  BY DEF DeleteCamera, At, serverRest
<1>2. /\ Live(q) /\ IsRequest(q) /\ q.kind = "delete" /\ IsPage(pages[q.page]) /\ c \in DOMAIN was
      /\ On(pages[q.page]) /\ ~pages[q.page].expired => pages[q.page].cameras = was
  BY <1>1, AtWork DEF Live, Matches, Works, Fits
<1>3. c \in DOMAIN cameras /\ cameras[c].owner = q.user
  BY <1>2 DEF Mine
<1>4. CASE c \in alerts
  <2> DEFINE a == Answered(q, 500, Nil)
  <2>1. reqs' = [reqs EXCEPT ![r] = a] /\ cameras' = cameras
    BY <1>4 DEF DeleteCamera, Answer, Answered
  <2>2. /\ IsRequest(a) /\ Live(a) /\ a.page = q.page /\ a.user = q.user /\ a.kind = q.kind
        /\ a.at = "answered" /\ a.status # 200
    BY <1>2, AnsweredFields, 500 # 200 DEF Live
  <2> HIDE DEF a
  <2>3. Works(a, cameras)
    BY <1>2, <2>2 DEF Works
  <2>4. On(pages[a.page]) /\ ~pages[a.page].expired => Fits(a, pages[a.page], was)
    BY <1>2, <2>2 DEF Fits, Shown
  <2> HIDE DEF was
  <2>5. QED
    BY <1>1, <1>2, <2>1, <2>2, <2>3, <2>4, ReadSteady DEF was
<1>5. CASE c \notin alerts
  <2> DEFINE a == Answered(q, 200, Nil)
  <2>1. reqs' = [reqs EXCEPT ![r] = a] /\ cameras' = WithoutKey(cameras, c)
    BY <1>3, <1>5 DEF DeleteCamera, Answer, Answered
  <2>2. DOMAIN cameras' = DOMAIN cameras \ {c} /\ \A e \in DOMAIN cameras' : cameras'[e] = cameras[e]
    BY <2>1 DEF WithoutKey
  <2>3. \A u : u # q.user => Mine(u, cameras') = Mine(u, cameras)
    BY <1>3, <2>2, OthersKeepTheirs
  <2>4. mine = WithoutKey(was, c) /\ DOMAIN mine = DOMAIN was \ {c}
    <3>1. DOMAIN mine = DOMAIN was \ {c}
      BY <2>2 DEF Mine
    <3>2. \A e \in DOMAIN mine : mine[e] = was[e]
      BY <2>2 DEF Mine
    <3>3. mine = [e \in DOMAIN mine |-> mine[e]]
      BY DEF Mine
    <3> HIDE DEF mine, was
    <3>4. QED
      BY <3>1, <3>2, <3>3 DEF WithoutKey
  <2>5. /\ IsRequest(a) /\ Live(a) /\ a.page = q.page /\ a.user = q.user /\ a.kind = q.kind
        /\ a.at = "answered" /\ a.status = 200 /\ a.cam = c
    BY <1>2, AnsweredFields DEF Live
  <2> HIDE DEF a, mine, was
  <2>6. Works(a, cameras') /\ HaveOwners(cameras')
    BY <1>2, <2>2, <2>5 DEF Works, Steady, HaveOwners
  <2>7. Proceeds(r, a)
    BY <1>1, <1>2, <2>1, <2>3, <2>5, <2>6 DEF Proceeds
  <2>8. Informs(r, a, a.page)
    <3> SUFFICES ASSUME On(pages[a.page]), ~pages[a.page].expired
                 PROVE  /\ Fits(a, pages[a.page], mine)
                        /\ \A e \in DOMAIN mine : e \in DOMAIN was /\ ~Tells(reqs[r], a.page, e)
      BY <2>5 DEF Informs, mine, was
    <3>1. Shown(pages[a.page], a).cameras = WithoutKey(pages[a.page].cameras, c)
      BY <1>2, <2>5 DEF Shown, Without, IsPage, PageFields
    <3>2. Fits(a, pages[a.page], mine)
      BY <1>2, <2>4, <2>5, <3>1 DEF Fits
    <3>3. QED
      BY <1>1, <2>4, <3>2 DEF Tells
  <2>9. QED
    BY <1>1, <1>2, <2>7, <2>8, KeepsInbox, ProceedStep
<1>6. QED
  BY <1>4, <1>5

-----------------------------------------------------------------------------
(***************************************************************************)
(* The steps of a page: the others do not notice.                          *)
(***************************************************************************)

(* What is not about the page d stays.                                     *)
Local(d) ==
  /\ UNCHANGED <<cameras, profile, faults>>
  /\ pages' = [e \in Pages |-> pages'[e]] /\ inbox' = [e \in Pages |-> inbox'[e]]
  /\ \A e \in Pages \ {d} : pages'[e] = pages[e] /\ inbox'[e] = inbox[e]
  /\ \A r \in Slots :
       \/ reqs'[r] = reqs[r]
       \/ (Live(reqs[r]) => reqs[r].page = d) /\ (Live(reqs'[r]) => reqs'[r].page = d)

(* A user who comes to it has no other page and no request of one.         *)
NewHere(d, u) ==
  /\ \A e \in Pages \ {d} : pages[e].user # u
  /\ \A r \in Slots : Live(reqs[r]) /\ reqs[r].page # d => reqs[r].user # u

(* What is about the page is right again.                                  *)
Settles(d) ==
  /\ pages'[d].user \in {Nil, pages[d].user} \/ NewHere(d, pages'[d].user)
  /\ Tab(d, pages', inbox')
  /\ \A r \in Slots : Of(reqs'[r], d) => Placed(reqs'[r], pages') /\ Works(reqs'[r], cameras)
  /\ \A r \in Slots, e \in Slots :
       r # e /\ Of(reqs'[r], d) /\ Live(reqs'[e]) => Apart(reqs'[r], reqs'[e])
  /\ Right(d, reqs', pages'[d], inbox'[d], Mine(pages'[d].user, cameras))

LEMMA ApartIsSymmetric == \A q, p : Apart(q, p) => Apart(p, q)
BY DEF Apart

(* The other pages and their requests.                                     *)
LEMMA OtherTabs ==
  ASSUME Steady, NEW d \in Pages, Local(d), Settles(d), NEW e \in Pages \ {d}
  PROVE  Tab(e, pages', inbox')
<1>1. /\ Tab(e, pages, inbox) /\ pages'[e] = pages[e] /\ inbox'[e] = inbox[e]
      /\ \A f \in Pages \ {d} : pages'[f] = pages[f]
  BY DEF Steady, Local
<1>2. On(pages[e]) => pages'[d].user # pages[e].user
  BY <1>1 DEF Tab, Settles, NewHere
<1>3. QED
  BY <1>1, <1>2 DEF Tab

LEMMA OtherRequests ==
  ASSUME Steady, NEW d \in Pages, Local(d), Settles(d), NEW r \in Slots, Live(reqs'[r]),
         reqs'[r].page # d
  PROVE  reqs'[r] = reqs[r] /\ Placed(reqs'[r], pages') /\ Works(reqs'[r], cameras')
<1>1. reqs'[r] = reqs[r] /\ cameras' = cameras
  BY DEF Local
<1>2. Placed(reqs[r], pages) /\ Works(reqs[r], cameras)
  BY <1>1 DEF Steady
<1>3. pages'[reqs[r].page] = pages[reqs[r].page] /\ \A e \in Pages \ {d} : pages'[e] = pages[e]
  BY <1>1, <1>2 DEF Local, Placed
<1>4. ASSUME ~On(pages[reqs[r].page])
      PROVE  pages'[d].user # reqs[r].user
  <2>1. pages[reqs[r].page] = LoginPage /\ reqs[r].page \in Pages
    BY <1>2, <1>4 DEF Placed, Steady, Tab
  <2>2. \A e \in Pages : pages[e].user # reqs[r].user
    BY <1>2, <1>4 DEF Placed
  <2>3. reqs[r].user # Nil
    BY <2>1, <2>2, LoginPageIsTab
  <2>4. NewHere(d, pages'[d].user) => pages'[d].user # reqs[r].user
    BY <1>1 DEF NewHere
  <2>5. QED
    BY <2>2, <2>3, <2>4 DEF Settles
<1>5. Placed(reqs[r], pages')
  BY <1>2, <1>3, <1>4 DEF Placed
<1>6. QED
  BY <1>1, <1>2, <1>5

LEMMA OtherPagesRight ==
  ASSUME Steady, NEW d \in Pages, Local(d), NEW e \in Pages \ {d}
  PROVE  Right(e, reqs', pages'[e], inbox'[e], Mine(pages'[e].user, cameras'))
<1> DEFINE mine == Mine(pages[e].user, cameras)
           heard == Heard(pages[e], inbox[e])
<1>1. cameras' = cameras /\ pages'[e] = pages[e] /\ inbox'[e] = inbox[e]
  BY DEF Local
<1>2. Right(e, reqs, pages[e], inbox[e], mine)
  BY DEF Steady
<1>3. \A r \in Slots : /\ Of(reqs'[r], e) <=> Of(reqs[r], e)
                       /\ Of(reqs'[r], e) => reqs'[r] = reqs[r]
  BY DEF Local, Of
<1> HIDE DEF mine, heard
<1>4. WillFit(e, reqs, pages[e], mine) => WillFit(e, reqs', pages[e], mine)
  BY <1>3 DEF WillFit
<1>5. ListIsShown(e, reqs, pages[e], mine) => ListIsShown(e, reqs', pages[e], mine)
  BY <1>3 DEF ListIsShown
<1>6. AlertsAreHeard(e, reqs, heard, mine) => AlertsAreHeard(e, reqs', heard, mine)
  BY <1>3 DEF AlertsAreHeard, Tells
<1>7. Right(e, reqs', pages[e], inbox[e], mine)
  BY <1>2, <1>4, <1>5, <1>6 DEF Right, heard
<1>8. QED
  BY <1>1, <1>7 DEF mine

LEMMA LocalStep ==
  ASSUME Steady, NEW d \in Pages, Local(d), Settles(d)
  PROVE  Steady'
<1>1. \A e \in Pages : Tab(e, pages', inbox')
  BY OtherTabs DEF Settles
<1>2. cameras' = cameras
  BY DEF Local
<1>3. \A r \in Slots : Live(reqs'[r]) => Placed(reqs'[r], pages') /\ Works(reqs'[r], cameras')
  BY <1>2, OtherRequests DEF Settles, Of
<1>4. OneAtATime(reqs')
  <2> SUFFICES ASSUME NEW r \in Slots, NEW e \in Slots, r # e, Live(reqs'[r]), Live(reqs'[e])
               PROVE  Apart(reqs'[r], reqs'[e])
    BY DEF OneAtATime, Apart
  <2>1. CASE reqs'[r].page = d
    BY <2>1 DEF Settles, Of
  <2>2. CASE reqs'[e].page = d
    BY <2>2, ApartIsSymmetric DEF Settles, Of
  <2>3. CASE reqs'[r].page # d /\ reqs'[e].page # d
    BY <2>3, OtherRequests DEF Steady, OneAtATime
  <2>4. QED
    BY <2>1, <2>2, <2>3
<1>5. \A e \in Pages : Right(e, reqs', pages'[e], inbox'[e], Mine(pages'[e].user, cameras'))
  BY <1>2, OtherPagesRight DEF Settles
<1>6. HaveOwners(cameras') /\ pages' = [e \in Pages |-> pages'[e]]
      /\ inbox' = [e \in Pages |-> inbox'[e]]
  BY <1>2 DEF Steady, Local
<1>7. QED
  BY <1>1, <1>3, <1>4, <1>5, <1>6 DEF Steady

(* What a page shows of its cameras depends on them only.                  *)
LEMMA ShownCameras ==
  ASSUME NEW page, IsPage(page), NEW other, IsPage(other), other.cameras = page.cameras, NEW q
  PROVE  Shown(other, q).cameras = Shown(page, q).cameras
<1> DOMAIN page = PageFields /\ DOMAIN other = PageFields /\ {"cameras", "alerts"} \subseteq PageFields
  BY DEF IsPage, PageFields
<1>1. CASE q.status # 200
  BY <1>1 DEF Shown
<1>2. CASE q.status = 200 /\ q.kind = "delete"
  BY <1>2 DEF Shown
<1>3. CASE q.status = 200 /\ q.kind # "delete"
  BY <1>3 DEF Shown
<1>4. QED
  BY <1>1, <1>2, <1>3

LEMMA SameFits ==
  ASSUME NEW page, IsPage(page), NEW other, IsPage(other), other.cameras = page.cameras,
         NEW q, NEW mine, Fits(q, page, mine)
  PROVE  Fits(q, other, mine)
<1>1. Shown(other, q).cameras = Shown(page, q).cameras
  BY ShownCameras
<1>2. QED
  BY <1>1 DEF Fits

(* A step of a page alone.                                                 *)
LEMMA PageAlone ==
  ASSUME Steady, NEW d \in Pages, On(pages[d]), UNCHANGED <<cameras, profile, faults, reqs>>,
         NEW page, IsPage(page), pages' = [pages EXCEPT ![d] = page],
         page.at = pages[d].at, page.user = pages[d].user, page.cameras = pages[d].cameras,
         page.ws \in {"opening", "open"}, pages[d].ws = "open" => page.ws = "open",
         NEW messages \in Seq(Nat), inbox' = [inbox EXCEPT ![d] = messages],
         ~page.expired => ~pages[d].expired
                          /\ Heard(pages[d], inbox[d]) \subseteq Heard(page, messages)
  PROVE  Steady'
<1> DEFINE mine == Mine(page.user, cameras)
<1>1. /\ pages'[d] = page /\ inbox'[d] = messages
      /\ \A e \in Pages \ {d} : pages'[e] = pages[e] /\ inbox'[e] = inbox[e]
      /\ pages' = [e \in Pages |-> pages'[e]] /\ inbox' = [e \in Pages |-> inbox'[e]]
  BY DEF Steady
<1>2. Local(d)
  BY <1>1 DEF Local
<1>3. /\ Tab(d, pages, inbox) /\ OneAtATime(reqs)
      /\ Right(d, reqs, pages[d], inbox[d], mine)
      /\ \A r \in Slots : Live(reqs[r]) => Placed(reqs[r], pages) /\ Works(reqs[r], cameras)
  BY DEF Steady
<1> HIDE DEF mine
<1>4. Tab(d, pages', inbox')
  BY <1>1, <1>3 DEF Tab, On
<1>5. \A r \in Slots : Of(reqs[r], d) => Placed(reqs[r], pages')
  <2> SUFFICES ASSUME NEW r \in Slots, Of(reqs[r], d) PROVE Placed(reqs[r], pages')
    OBVIOUS
  <2>1. Placed(reqs[r], pages) /\ reqs[r].page = d
    BY <1>3 DEF Of
  <2>2. QED
    BY <1>1, <2>1 DEF Placed, On
<1>6. Right(d, reqs, page, messages, mine)
  <2> SUFFICES ASSUME ~page.expired
               PROVE  /\ WillFit(d, reqs, page, mine) /\ ListIsShown(d, reqs, page, mine)
                      /\ AlertsAreHeard(d, reqs, Heard(page, messages), mine)
    BY DEF Right
  <2>1. /\ WillFit(d, reqs, pages[d], mine) /\ ListIsShown(d, reqs, pages[d], mine)
        /\ AlertsAreHeard(d, reqs, Heard(pages[d], inbox[d]), mine)
    BY <1>3 DEF Right
  <2>2. WillFit(d, reqs, page, mine)
    BY <1>3, <2>1, SameFits DEF WillFit, Tab
  <2>3. ListIsShown(d, reqs, page, mine)
    BY <2>1 DEF ListIsShown
  <2>4. AlertsAreHeard(d, reqs, Heard(page, messages), mine)
    BY <2>1 DEF AlertsAreHeard
  <2>5. QED
    BY <2>2, <2>3, <2>4
<1>7. \A r \in Slots, e \in Slots : r # e => Apart(reqs[r], reqs[e])
  BY <1>3 DEF OneAtATime
<1>8. Settles(d)
  BY <1>1, <1>3, <1>4, <1>5, <1>6, <1>7 DEF Settles, mine, Of
<1>9. QED
  BY <1>2, <1>8, LocalStep

LEMMA WithField ==
  ASSUME NEW d \in Pages, Steady
  PROVE  /\ \A x : LET p == [pages[d] EXCEPT !.ws = x] IN
              IsPage(p) /\ p.ws = x /\ \A f \in PageFields \ {"ws"} : p[f] = pages[d][f]
         /\ \A x : LET p == [pages[d] EXCEPT !.expired = x] IN
              IsPage(p) /\ p.expired = x /\ \A f \in PageFields \ {"expired"} : p[f] = pages[d][f]
         /\ \A x : LET p == [pages[d] EXCEPT !.alerts = x] IN
              IsPage(p) /\ p.alerts = x /\ \A f \in PageFields \ {"alerts"} : p[f] = pages[d][f]
         /\ DOMAIN pages = Pages /\ DOMAIN inbox = Pages /\ IsPage(pages[d])
<1>1. IsPage(pages[d]) /\ DOMAIN pages = Pages /\ DOMAIN inbox = Pages
  BY DEF Steady, Tab
<1>2. DOMAIN pages[d] = PageFields /\ {"ws", "expired", "alerts"} \subseteq PageFields
  BY <1>1 DEF IsPage, PageFields
<1>3. QED
  BY <1>1, <1>2 DEF IsPage

LEMMA ConnectedSteady ==
  ASSUME Steady, NEW d \in Pages, Connected(d)
  PROVE  Steady'
<1> DEFINE page == [pages[d] EXCEPT !.ws = "open"]
<1>1. /\ pages[d].ws = "opening" /\ UNCHANGED <<cameras, profile, faults, reqs, inbox>>
      /\ pages' = [pages EXCEPT ![d] = page]
  BY DEF Connected, pageRest, store
<1>2. IsPage(page) /\ page.ws = "open" /\ \A f \in PageFields \ {"ws"} : page[f] = pages[d][f]
  BY WithField
<1> HIDE DEF page
<1>3. On(pages[d])
  BY <1>1, LoginPageIsTab DEF Steady, Tab
<1>4. inbox[d] \in Seq(Nat) /\ inbox' = [inbox EXCEPT ![d] = inbox[d]]
  BY <1>1 DEF Steady, Tab
<1>5. /\ page.at = pages[d].at /\ page.user = pages[d].user /\ page.cameras = pages[d].cameras
      /\ page.expired = pages[d].expired /\ page.alerts = pages[d].alerts
  BY <1>2 DEF PageFields
<1>6. Heard(page, inbox[d]) = Heard(pages[d], inbox[d])
  BY <1>5 DEF Heard
<1>7. QED
  BY <1>1, <1>2, <1>3, <1>4, <1>5, <1>6, PageAlone

LEMMA TokenExpiresSteady ==
  ASSUME Steady, NEW d \in Pages, TokenExpires(d)
  PROVE  Steady'
<1> DEFINE page == [pages[d] EXCEPT !.expired = TRUE]
<1>1. /\ On(pages[d]) /\ UNCHANGED <<cameras, profile, faults, reqs, inbox>>
      /\ pages' = [pages EXCEPT ![d] = page]
  BY DEF TokenExpires, OnDashboard, On, pageRest, store
<1>2. IsPage(page) /\ page.expired = TRUE /\ \A f \in PageFields \ {"expired"} : page[f] = pages[d][f]
  BY WithField
<1> HIDE DEF page
<1>3. inbox[d] \in Seq(Nat) /\ inbox' = [inbox EXCEPT ![d] = inbox[d]]
  BY <1>1 DEF Steady, Tab
<1>4. /\ page.at = pages[d].at /\ page.user = pages[d].user /\ page.cameras = pages[d].cameras
      /\ page.ws = pages[d].ws
  BY <1>2 DEF PageFields
<1>5. pages[d].ws \in {"opening", "open"}
  BY <1>1 DEF Steady, Tab
<1>6. QED
  BY <1>1, <1>2, <1>3, <1>4, <1>5, PageAlone

LEMMA OnMessageSteady ==
  ASSUME Steady, NEW d \in Pages, OnMessage(d)
  PROVE  Steady'
<1> DEFINE shown == pages[d].alerts \cup {Head(inbox[d])}
           page == [pages[d] EXCEPT !.alerts = shown]
           messages == Tail(inbox[d])
<1>1. /\ inbox[d] # <<>> /\ UNCHANGED <<cameras, profile, faults, reqs>>
      /\ pages' = [pages EXCEPT ![d] = page] /\ inbox' = [inbox EXCEPT ![d] = messages]
  BY DEF OnMessage, pageRest, store
<1>2. On(pages[d]) /\ inbox[d] \in Seq(Nat) /\ pages[d].ws \in {"opening", "open"}
  BY <1>1 DEF Steady, Tab
<1>3. IsPage(page) /\ page.alerts = shown /\ \A f \in PageFields \ {"alerts"} : page[f] = pages[d][f]
  BY WithField
<1>4. /\ page.at = pages[d].at /\ page.user = pages[d].user /\ page.cameras = pages[d].cameras
      /\ page.ws = pages[d].ws /\ page.expired = pages[d].expired
  BY <1>3 DEF PageFields
<1> HIDE DEF page
<1>5. Heard(pages[d], inbox[d]) \subseteq Heard(page, messages) /\ messages \in Seq(Nat)
  <2>1. /\ messages \in Seq(Nat) /\ Len(messages) = Len(inbox[d]) - 1 /\ Len(inbox[d]) \in Nat
        /\ \A i \in 1..Len(messages) : messages[i] = inbox[d][i + 1]
        /\ DOMAIN messages = 1..Len(messages) /\ DOMAIN inbox[d] = 1..Len(inbox[d])
        /\ Head(inbox[d]) = inbox[d][1]
    BY <1>1, <1>2
  <2> HIDE DEF messages
  <2>2. ASSUME NEW i \in DOMAIN inbox[d]
        PROVE  inbox[d][i] \in Heard(page, messages)
    <3>1. CASE i = 1
      BY <1>3, <2>1, <3>1 DEF Heard
    <3>2. CASE i # 1
      <4>1. i - 1 \in DOMAIN messages /\ messages[i - 1] = inbox[d][i]
        BY <2>1, <3>2
      <4>2. QED
        BY <4>1 DEF Heard
    <3>3. QED
      BY <3>1, <3>2
  <2>3. pages[d].alerts \subseteq Heard(page, messages)
    BY <1>3 DEF Heard
  <2>4. QED
    BY <2>1, <2>2, <2>3 DEF Heard
<1> HIDE DEF messages
<1>6. QED
  BY <1>1, <1>2, <1>3, <1>4, <1>5, PageAlone

(* Nothing is left of what a user who logs out did.                        *)
LEMMA HandleLogoutSteady ==
  ASSUME Inv, Careful, Steady, NEW d \in Pages, HandleLogout(d)
  PROVE  Steady'
<1>1. /\ OnDashboard(d) /\ ~Busy(pages[d].user) /\ UNCHANGED <<cameras, profile, faults>>
      /\ pages' = [pages EXCEPT ![d] = LoginPage] /\ inbox' = [inbox EXCEPT ![d] = <<>>]
      /\ reqs' = [r \in Slots |-> IF reqs[r].page = d THEN [reqs[r] EXCEPT !.page = Nil] ELSE reqs[r]]
  BY DEF HandleLogout, pageRest, store, Careful
<1>2. /\ pages'[d] = LoginPage /\ inbox'[d] = <<>>
      /\ \A e \in Pages \ {d} : pages'[e] = pages[e] /\ inbox'[e] = inbox[e]
      /\ pages' = [e \in Pages |-> pages'[e]] /\ inbox' = [e \in Pages |-> inbox'[e]]
  BY <1>1, WithField
<1>3. \A r \in Slots : ~Of(reqs[r], d)
  BY <1>1, RequestsOfPage DEF Busy, Of, Live
<1>4. \A r \in Slots : reqs'[r] = reqs[r] \/ (~Live(reqs[r]) /\ ~Live(reqs'[r]))
  <2> SUFFICES ASSUME NEW r \in Slots, reqs[r].page = d PROVE ~Live(reqs[r]) /\ ~Live(reqs'[r])
    BY <1>1
  <2>1. reqs'[r] = [reqs[r] EXCEPT !.page = Nil] /\ IsRequest(reqs[r]) /\ ~Live(reqs[r])
    BY <1>1, <1>3, AtQuery DEF Of
  <2>2. reqs'[r].at = reqs[r].at
    BY <2>1 DEF IsRequest, Fields
  <2>3. QED
    BY <2>1, <2>2 DEF Live
<1>5. Local(d)
  BY <1>1, <1>2, <1>4 DEF Local
<1>6. \A r \in Slots : ~Of(reqs'[r], d)
  BY <1>3, <1>4 DEF Of
<1>7. Tab(d, pages', inbox')
  BY <1>2, LoginPageIsTab DEF Tab, On
<1>8. Settles(d)
  BY <1>2, <1>6, <1>7, LoginPageIsTab DEF Settles, Right, On
<1>9. QED
  BY <1>5, <1>8, LocalStep

-----------------------------------------------------------------------------
(***************************************************************************)
(* Requests of a page, and their answers.                                  *)
(***************************************************************************)

(* The slot a request enters.                                              *)
LEMMA PostedSlot ==
  ASSUME NEW rs, Table(rs), Room(rs), NEW q, NEW new, new = Posted(rs, q)
  PROVE  /\ Table(new)
         /\ \E s \in Slots : rs[s].at = "free" /\ new[s] = q /\ \A e \in Slots \ {s} : new[e] = rs[e]
<1> DEFINE free == CHOOSE e \in Slots : rs[e].at = "free"
<1>1. free \in Slots /\ rs[free].at = "free"
  BY DEF Room
<1> HIDE DEF free
<1>2. new = [rs EXCEPT ![free] = q] /\ DOMAIN rs = Slots
  BY DEF Posted, free, Table
<1>3. new[free] = q /\ \A e \in Slots \ {free} : new[e] = rs[e]
  BY <1>1, <1>2
<1>4. QED
  BY <1>1, <1>2, <1>3 DEF Table

LEMMA RequestFields ==
  \A d, u, cam, data : \A kind \in Kinds :
    LET q == Request(d, kind, u, cam, data)
    IN /\ q.page = d /\ q.kind = kind /\ q.user = u /\ q.cam = cam /\ q.data = data
       /\ q.at = FirstQuery[kind] \/ (q.at = "answered" /\ pages[d].expired)
<1> SUFFICES ASSUME NEW d, NEW u, NEW cam, NEW data, NEW kind \in Kinds
             PROVE  LET q == Request(d, kind, u, cam, data)
                    IN /\ q.page = d /\ q.kind = kind /\ q.user = u /\ q.cam = cam /\ q.data = data
                       /\ q.at = FirstQuery[kind] \/ (q.at = "answered" /\ pages[d].expired)
  OBVIOUS
<1> DEFINE new == [NoRequest EXCEPT !.page = d, !.kind = kind, !.user = u, !.cam = cam, !.data = data]
           expired == kind \notin {"register", "login"} /\ pages[d].expired
<1>1. /\ IsRequest(new) /\ new.page = d /\ new.kind = kind /\ new.user = u /\ new.cam = cam
      /\ new.data = data
  BY DEF NoRequest, IsRequest, Fields
<1> DEFINE q == Request(d, kind, u, cam, data)
<1>2. q = Admitted(new, expired) /\ (expired => pages[d].expired)
  BY DEF Request
<1> HIDE DEF new, expired, q
<1>3. DOMAIN new = Fields
  BY <1>1 DEF IsRequest
<1>4. /\ q.page = d /\ q.kind = kind /\ q.user = u /\ q.cam = cam /\ q.data = data
      /\ q.at = FirstQuery[kind] \/ (q.at = "answered" /\ expired)
  <2>1. CASE expired
    BY <1>1, <1>2, <1>3, <2>1 DEF Admitted, Fields
  <2>2. CASE ~expired
    BY <1>1, <1>2, <1>3, <2>2 DEF Admitted, Fields
  <2>3. QED
    BY <2>1, <2>2
<1>5. QED
  BY <1>2, <1>4 DEF q

LEMMA RequestWorks ==
  \A d, u, cam, data : \A kind \in Kinds :
    (kind = "patch" => "owner" \notin DOMAIN data) =>
      Live(Request(d, kind, u, cam, data)) /\ Works(Request(d, kind, u, cam, data), cameras)
<1> SUFFICES ASSUME NEW d, NEW u, NEW cam, NEW data, NEW kind \in Kinds,
                    kind = "patch" => "owner" \notin DOMAIN data
             PROVE  LET q == Request(d, kind, u, cam, data) IN Live(q) /\ Works(q, cameras)
  OBVIOUS
<1> DEFINE q == Request(d, kind, u, cam, data)
<1>1. /\ q.page = d /\ q.kind = kind /\ q.user = u /\ q.cam = cam /\ q.data = data
      /\ q.at = FirstQuery[kind] \/ (q.at = "answered" /\ pages[d].expired)
  BY RequestFields
<1> HIDE DEF q
<1>2. q.at \in {"FindAccount", "ListCameras", "CreateCamera", "FindCamera", "answered"}
  BY <1>1 DEF FirstQuery, Kinds
<1>3. QED
  BY <1>1, <1>2 DEF Live, Works, q

(* A user without a request sends one.                                     *)
LEMMA SendSteady ==
  ASSUME Inv, Steady, UNCHANGED <<cameras, profile, faults, pages, inbox>>,
         NEW d \in Pages, NEW q, Send(q),
         Live(q), q.page = d, q.kind # "alerts", Placed(q, pages), Works(q, cameras),
         \A e \in Slots : Live(reqs[e]) => reqs[e].user # q.user /\ reqs[e].page # d,
         On(pages[d]) /\ ~pages[d].expired /\ pages[d].cameras = Mine(pages[d].user, cameras) =>
           Fits(q, pages[d], Mine(pages[d].user, cameras))
  PROVE  Steady'
<1> DEFINE mine == Mine(pages[d].user, cameras)
           heard == Heard(pages[d], inbox[d])
<1>1. Room(reqs) /\ reqs' = Posted(reqs, q) /\ Table(reqs)
  BY DEF Send, Inv, Requests, Table
<1>2. PICK s \in Slots : reqs[s].at = "free" /\ reqs'[s] = q /\ \A e \in Slots \ {s} : reqs'[e] = reqs[e]
  BY <1>1, PostedSlot
<1>3. \A e \in Slots : ~Of(reqs[e], d) /\ (Of(reqs'[e], d) <=> e = s)
  BY <1>2 DEF Of, Live
<1>4. Tab(d, pages, inbox) /\ Right(d, reqs, pages[d], inbox[d], mine)
  BY DEF Steady
<1>5. Local(d)
  BY <1>2 DEF Local, Live, Steady
<1>6. \A e \in Slots \ {s} : Live(reqs'[e]) => Apart(q, reqs'[e])
  BY <1>2 DEF Apart
<1>7. Right(d, reqs', pages[d], inbox[d], mine)
  <2> SUFFICES ASSUME On(pages[d]), ~pages[d].expired
               PROVE  /\ WillFit(d, reqs', pages[d], mine) /\ ListIsShown(d, reqs', pages[d], mine)
                      /\ AlertsAreHeard(d, reqs', heard, mine)
    BY DEF Right
  <2> HIDE DEF mine, heard
  <2>1. ListIsShown(d, reqs, pages[d], mine) /\ AlertsAreHeard(d, reqs, heard, mine)
    BY <1>4 DEF Right, heard
  <2>2. pages[d].cameras = mine /\ \A c \in DOMAIN mine : c \in heard
    BY <1>3, <2>1 DEF ListIsShown, AlertsAreHeard, Tells
  <2>3. QED
    BY <1>2, <1>3, <2>2 DEF WillFit, ListIsShown, AlertsAreHeard, mine
<1> HIDE DEF mine, heard
<1>8. Settles(d)
  BY <1>2, <1>3, <1>4, <1>6, <1>7 DEF Settles, mine
<1>9. QED
  BY <1>5, <1>8, LocalStep

LEMMA ActSteady ==
  ASSUME Inv, Careful, Steady, NEW d \in Pages, MayAct(d), UNCHANGED <<pageRest, pages, inbox>>,
         NEW kind \in {"create", "patch", "delete"}, NEW cam, NEW data,
         kind = "patch" => "owner" \notin DOMAIN data,
         Send(Request(d, kind, pages[d].user, cam, data))
  PROVE  Steady'
<1> DEFINE q == Request(d, kind, pages[d].user, cam, data)
<1>1. kind \in Kinds /\ FirstQuery[kind] \in {"CreateCamera", "FindCamera"}
  BY DEF Kinds, FirstQuery
<1>2. /\ q.page = d /\ q.kind = kind /\ q.user = pages[d].user /\ Live(q) /\ Works(q, cameras)
      /\ q.at = FirstQuery[kind] \/ (q.at = "answered" /\ pages[d].expired)
  BY <1>1, RequestFields, RequestWorks
<1>3. /\ On(pages[d]) /\ ~Busy(pages[d].user) /\ pages[d].ws = "open"
      /\ UNCHANGED <<cameras, profile, faults>> /\ Send(q)
  BY DEF MayAct, OnDashboard, On, Careful, Steady, Tab, pageRest, store
<1> HIDE DEF q
<1>4. \A e \in Slots : Live(reqs[e]) => reqs[e].user # q.user /\ reqs[e].page # d
  BY <1>2, <1>3, RequestsOfPage DEF Busy, Live, OnDashboard, On
<1>5. Placed(q, pages)
  BY <1>2, <1>3 DEF Placed
<1>6. ~pages[d].expired /\ pages[d].cameras = Mine(pages[d].user, cameras) =>
        Fits(q, pages[d], Mine(pages[d].user, cameras))
  BY <1>1, <1>2 DEF Fits
<1>7. QED
  BY <1>2, <1>3, <1>4, <1>5, <1>6, SendSteady

LEMMA HandleSaveCameraSteady ==
  ASSUME Inv, Careful, Steady, NEW d \in Pages, HandleSaveCamera(d)
  PROVE  Steady'
<1>1. PICK n \in profile.names :
       \/ Send(Request(d, "create", pages[d].user, Nil, [name |-> n]))
       \/ \E c, on : Send(Request(d, "patch", pages[d].user, c, [name |-> n, enabled |-> on]))
  BY DEF HandleSaveCamera
<1>2. \A on : "owner" \notin DOMAIN [name |-> n, enabled |-> on]
  OBVIOUS
<1>3. QED
  BY <1>1, <1>2, ActSteady DEF HandleSaveCamera

LEMMA HandleToggleCameraSteady ==
  ASSUME Inv, Careful, Steady, NEW d \in Pages, HandleToggleCamera(d)
  PROVE  Steady'
<1>1. PICK c, on : Send(Request(d, "patch", pages[d].user, c, [enabled |-> on]))
  BY DEF HandleToggleCamera, Toggle
<1>2. "owner" \notin DOMAIN [enabled |-> on]
  OBVIOUS
<1>3. QED
  BY <1>1, <1>2, ActSteady DEF HandleToggleCamera

LEMMA HandleConfirmDeleteSteady ==
  ASSUME Inv, Careful, Steady, NEW d \in Pages, HandleConfirmDelete(d)
  PROVE  Steady'
<1>1. PICK c : Send(Request(d, "delete", pages[d].user, c, <<>>))
  BY DEF HandleConfirmDelete
<1>2. QED
  BY <1>1, ActSteady DEF HandleConfirmDelete

LEMMA EnterSteady ==
  ASSUME Inv, Careful, Steady, NEW d \in Pages, Enter(d)
  PROVE  Steady'
<1>1. PICK kind \in {"register", "login"}, u \in profile.who :
        /\ ~Busy(u) /\ \A e \in Pages : pages[e].user # u
        /\ Send(Request(d, kind, u, Nil, <<>>))
  BY DEF Enter, Careful
<1> DEFINE q == Request(d, kind, u, Nil, <<>>)
<1>2. kind \in Kinds
  BY DEF Kinds
<1>3. q.page = d /\ q.kind = kind /\ q.user = u /\ Live(q) /\ Works(q, cameras)
  BY <1>2, kind # "patch", RequestFields, RequestWorks
<1>4. ~On(pages[d]) /\ UNCHANGED <<cameras, profile, faults, pages, inbox>> /\ Send(q)
  BY <1>1 DEF Enter, On, pageRest, store
<1> HIDE DEF q
<1>5. \A e \in Slots : Live(reqs[e]) => reqs[e].user # q.user /\ reqs[e].page # d
  BY <1>1, <1>3 DEF Enter, Waiting, Busy, Live
<1>6. Placed(q, pages)
  BY <1>1, <1>3, <1>4 DEF Placed
<1>7. QED
  BY <1>3, <1>4, <1>5, <1>6, SendSteady

(* The two requests of a refresh, when the user has no other: rs is what   *)
(* is in flight besides.                                                   *)
Fetches(d, u, rs) ==
  /\ Table(rs) /\ Fetch(rs, d, u) /\ UNCHANGED <<cameras, profile, faults, inbox>>
  /\ \A e \in Slots : Live(rs[e]) => rs[e] = reqs[e] /\ rs[e].page # d /\ rs[e].user # u
  /\ \A e \in Slots : Live(reqs[e]) /\ reqs[e].page # d => rs[e] = reqs[e]
  /\ pages' = [e \in Pages |-> pages'[e]] /\ \A e \in Pages \ {d} : pages'[e] = pages[e]
  /\ On(pages'[d]) /\ pages'[d].user = u /\ pages'[d].expired = pages[d].expired
  /\ u = pages[d].user \/ NewHere(d, u)
  /\ Tab(d, pages', inbox')

LEMMA FetchSteady ==
  ASSUME Steady
  PROVE  \A d \in Pages : \A u, rs : Fetches(d, u, rs) => Steady'
<1> SUFFICES ASSUME NEW d \in Pages, NEW u, NEW rs, Fetches(d, u, rs) PROVE Steady'
  OBVIOUS
<1> USE DEF Fetches
<1> DEFINE p == Request(d, "cameras", u, Nil, <<>>)
           q == Request(d, "alerts", u, Nil, <<>>)
           one == Posted(rs, p)
<1>1. {"cameras", "alerts"} \subseteq Kinds /\ FirstQuery["cameras"] = "ListCameras"
      /\ FirstQuery["alerts"] = "ListCameras"
  BY DEF Kinds, FirstQuery
<1>2. /\ p.page = d /\ p.kind = "cameras" /\ p.user = u /\ Live(p) /\ Works(p, cameras)
      /\ p.at = "ListCameras" \/ pages[d].expired
  BY <1>1, "cameras" # "patch", RequestFields, RequestWorks
<1>3. /\ q.page = d /\ q.kind = "alerts" /\ q.user = u /\ Live(q) /\ Works(q, cameras)
      /\ q.at = "ListCameras" \/ pages[d].expired
  BY <1>1, "alerts" # "patch", RequestFields, RequestWorks
<1>4. Room(rs) /\ Room(one) /\ reqs' = Posted(one, q)
  BY DEF Fetch, SendBoth
<1> HIDE DEF p, q
<1>5. PICK s \in Slots : /\ Table(one) /\ rs[s].at = "free" /\ one[s] = p
                         /\ \A e \in Slots \ {s} : one[e] = rs[e]
  BY <1>4, PostedSlot
<1> HIDE DEF one
<1>6. PICK t \in Slots : one[t].at = "free" /\ reqs'[t] = q /\ \A e \in Slots \ {t} : reqs'[e] = one[e]
  BY <1>4, <1>5, PostedSlot
<1>7. s # t /\ reqs'[s] = p /\ reqs'[t] = q /\ \A e \in Slots \ {s, t} : reqs'[e] = rs[e]
  BY <1>2, <1>5, <1>6 DEF Live
<1>8. \A e \in Slots : Of(reqs'[e], d) <=> e \in {s, t}
  BY <1>2, <1>3, <1>7 DEF Of
<1>9. Local(d)
  <2> SUFFICES ASSUME NEW e \in Slots
               PROVE  \/ reqs'[e] = reqs[e]
                      \/ (Live(reqs[e]) => reqs[e].page = d) /\ (Live(reqs'[e]) => reqs'[e].page = d)
    BY DEF Local, Steady
  <2>1. CASE e \in {s, t}
    BY <1>2, <1>3, <1>5, <1>6, <1>7, <2>1 DEF Live
  <2>2. CASE e \notin {s, t}
    BY <1>7, <2>2
  <2>3. QED
    BY <2>1, <2>2
<1>10. Placed(p, pages') /\ Placed(q, pages')
  BY <1>2, <1>3 DEF Placed
<1>11. ASSUME NEW r \in Slots, NEW e \in Slots, r # e, Of(reqs'[r], d), Live(reqs'[e])
       PROVE  Apart(reqs'[r], reqs'[e])
  <2>1. CASE e \in {s, t}
    BY <1>2, <1>3, <1>7, <1>8, <1>11, <2>1 DEF Apart
  <2>2. CASE e \notin {s, t}
    BY <1>2, <1>3, <1>7, <1>8, <1>11, <2>2 DEF Apart
  <2>3. QED
    BY <2>1, <2>2
<1>12. Right(d, reqs', pages'[d], inbox'[d], Mine(u, cameras))
  <2> SUFFICES ASSUME ~pages[d].expired
               PROVE  /\ WillFit(d, reqs', pages'[d], Mine(u, cameras))
                      /\ ListIsShown(d, reqs', pages'[d], Mine(u, cameras))
                      /\ AlertsAreHeard(d, reqs', Heard(pages'[d], inbox'[d]), Mine(u, cameras))
    BY DEF Right
  <2>1. p.at = "ListCameras" /\ q.at = "ListCameras"
    BY <1>2, <1>3
  <2>2. \A page, mine : Fits(p, page, mine) /\ Fits(q, page, mine)
    BY <1>2, <1>3, <2>1 DEF Fits
  <2>3. WillFit(d, reqs', pages'[d], Mine(u, cameras))
    BY <1>7, <1>8, <2>2 DEF WillFit
  <2>4. QED
    BY <1>2, <1>3, <1>7, <1>8, <2>3 DEF ListIsShown, AlertsAreHeard
<1>13. Settles(d)
  BY <1>2, <1>3, <1>7, <1>8, <1>10, <1>11, <1>12 DEF Settles
<1>14. QED
  BY <1>9, <1>13, LocalStep

LEMMA HandleRefreshSteady ==
  ASSUME Inv, Careful, Steady, NEW d \in Pages, HandleRefresh(d)
  PROVE  Steady'
<1> DEFINE u == pages[d].user
<1>1. /\ On(pages[d]) /\ ~Busy(u) /\ Fetch(reqs, d, u)
      /\ UNCHANGED <<cameras, profile, faults, pages, inbox>>
  BY DEF HandleRefresh, MayAct, OnDashboard, On, Careful, pageRest, store
<1>2. Table(reqs)
  BY DEF Inv, Requests, Table
<1>3. \A e \in Slots : Live(reqs[e]) => reqs[e].user # u /\ reqs[e].page # d
  BY <1>1, RequestsOfPage DEF Busy, Live, OnDashboard, On
<1>4. pages = [e \in Pages |-> pages[e]] /\ Tab(d, pages, inbox)
  BY DEF Steady
<1>5. /\ pages' = [e \in Pages |-> pages'[e]] /\ \A e \in Pages \ {d} : pages'[e] = pages[e]
      /\ On(pages'[d]) /\ pages'[d].user = u /\ pages'[d].expired = pages[d].expired
      /\ Tab(d, pages', inbox')
  BY <1>1, <1>4
<1>6. QED
  BY <1>1, <1>2, <1>3, <1>5, FetchSteady DEF Fetches

(* What an answer leaves of a page.                                        *)
LEMMA ShownKeeps ==
  \A page, q : IsPage(page) =>
    LET p == Shown(page, q)
    IN /\ IsPage(p) /\ p.at = page.at /\ p.user = page.user /\ p.expired = page.expired
       /\ p.ws = page.ws
       /\ q.kind = "alerts" => p.cameras = page.cameras
       /\ q.kind = "alerts" /\ q.status = 200 => p.alerts = q.body
       /\ \/ q.kind = "alerts" \/ p.alerts = page.alerts
          \/ q.kind = "delete" /\ q.status = 200 /\ p.alerts = page.alerts \ {q.cam}
<1> SUFFICES ASSUME NEW page, NEW q, IsPage(page), NEW p, p = Shown(page, q)
             PROVE  /\ IsPage(p) /\ p.at = page.at /\ p.user = page.user /\ p.expired = page.expired
                    /\ p.ws = page.ws
                    /\ q.kind = "alerts" => p.cameras = page.cameras
                    /\ q.kind = "alerts" /\ q.status = 200 => p.alerts = q.body
                    /\ \/ q.kind = "alerts" \/ p.alerts = page.alerts
                       \/ q.kind = "delete" /\ q.status = 200 /\ p.alerts = page.alerts \ {q.cam}
  OBVIOUS
<1>1. DOMAIN page = PageFields
  BY DEF IsPage
<1>2. CASE q.status # 200
  BY <1>2 DEF Shown
<1>3. CASE q.status = 200 /\ q.kind = "cameras"
  BY <1>1, <1>3 DEF Shown, IsPage, PageFields
<1>4. CASE q.status = 200 /\ q.kind = "alerts"
  BY <1>1, <1>4 DEF Shown, IsPage, PageFields
<1>5. CASE q.status = 200 /\ q.kind = "create"
  BY <1>1, <1>5 DEF Shown, IsPage, PageFields
<1>6. CASE q.status = 200 /\ q.kind = "patch" /\ q.cam \in DOMAIN page.cameras
  BY <1>1, <1>6 DEF Shown, IsPage, PageFields
<1>7. CASE q.status = 200 /\ q.kind = "delete"
  <2> DEFINE left == Without(page.cameras, q.cam)
             shown == [page EXCEPT !.cameras = left, !.alerts = @ \ {q.cam}]
  <2>1. p = shown
    BY <1>7 DEF Shown
  <2> HIDE DEF left
  <2>2. /\ IsPage(shown) /\ shown.at = page.at /\ shown.user = page.user
        /\ shown.expired = page.expired /\ shown.ws = page.ws
        /\ shown.alerts = page.alerts \ {q.cam}
    BY <1>1 DEF IsPage, PageFields
  <2> HIDE DEF shown
  <2>3. QED
    BY <1>7, <2>1, <2>2
<1>8. CASE /\ q.status = 200 /\ q.kind \notin {"cameras", "alerts", "create", "delete"}
           /\ ~(q.kind = "patch" /\ q.cam \in DOMAIN page.cameras)
  BY <1>8 DEF Shown
<1>9. QED
  BY <1>2, <1>3, <1>4, <1>5, <1>6, <1>7, <1>8

(* The page is what it should be with the answer, and the rest stays.      *)
LEMMA AnswerShownSteady ==
  ASSUME Inv, Steady, NEW r \in Slots, reqs[r].at = "answered",
         UNCHANGED <<cameras, profile, faults, inbox>>, reqs' = [reqs EXCEPT ![r] = NoRequest],
         NEW d \in Pages, d = reqs[r].page, pages' = [pages EXCEPT ![d] = Shown(@, reqs[r])]
  PROVE  Steady'
<1> DEFINE q == reqs[r]
           page == Shown(pages[d], q)
           mine == Mine(pages[d].user, cameras)
           heard == Heard(pages[d], inbox[d])
<1>1. /\ Live(q) /\ Matches(q) /\ Placed(q, pages) /\ IsPage(pages[d])
      /\ Told(q, accounts, DOMAIN cameras, nextId)
  <2>1. Live(q)
    BY DEF Live
  <2>2. QED
    BY <2>1, AtWork DEF Inv, Requests, Sound
<1>2. /\ Of(q, d) /\ Tab(d, pages, inbox) /\ Right(d, reqs, pages[d], inbox[d], mine)
      /\ OneAtATime(reqs)
  BY <1>1 DEF Steady, Of
<1>3. ~Live(reqs'[r]) /\ \A e \in Slots \ {r} : reqs'[e] = reqs[e]
  BY DEF Inv, Requests, NoRequest, Live
<1>4. /\ pages'[d] = page /\ \A e \in Pages \ {d} : pages'[e] = pages[e]
      /\ pages' = [e \in Pages |-> pages'[e]] /\ inbox' = [e \in Pages |-> inbox'[e]]
  BY DEF Steady
<1>0. page = Shown(pages[d], q)
  OBVIOUS
<1> HIDE DEF page
<1>5. /\ IsPage(page) /\ page.at = pages[d].at /\ page.user = pages[d].user
      /\ page.expired = pages[d].expired /\ page.ws = pages[d].ws
      /\ q.kind = "alerts" => page.cameras = pages[d].cameras
      /\ q.kind = "alerts" /\ q.status = 200 => page.alerts = q.body
      /\ \/ q.kind = "alerts" \/ page.alerts = pages[d].alerts
         \/ q.kind = "delete" /\ q.status = 200 /\ page.alerts = pages[d].alerts \ {q.cam}
  BY <1>0, <1>1, ShownKeeps
<1>6. ~On(pages[d]) => page = pages[d]
  BY <1>1 DEF Placed, Shown, page
<1> HIDE DEF mine, heard
<1>7. On(pages[d]) /\ ~pages[d].expired => Fits(q, pages[d], mine)
  BY <1>2 DEF Right, WillFit
<1>8. q.kind # "alerts" /\ On(pages[d]) /\ ~pages[d].expired => page.cameras = mine
  BY <1>7 DEF Fits, page
<1> HIDE DEF q
<1>9. Local(d)
  BY <1>1, <1>2, <1>3, <1>4 DEF Local, Of, q
<1>10. Tab(d, pages', inbox')
  BY <1>2, <1>4, <1>5, <1>6 DEF Tab, On
<1>11. ASSUME NEW e \in Slots, Of(reqs'[e], d)
       PROVE  /\ e # r /\ reqs'[e] = reqs[e] /\ Placed(reqs'[e], pages') /\ Works(reqs'[e], cameras)
              /\ Apart(q, reqs[e])
  <2>1. e # r /\ reqs'[e] = reqs[e] /\ Live(reqs[e]) /\ reqs[e].page = d
    BY <1>3, <1>11 DEF Of
  <2>2. Placed(reqs[e], pages) /\ Works(reqs[e], cameras) /\ Apart(q, reqs[e])
    BY <2>1 DEF Steady, OneAtATime, q
  <2>3. Placed(reqs[e], pages')
    BY <1>4, <1>5, <2>1, <2>2 DEF Placed, On
  <2>4. QED
    BY <2>1, <2>2, <2>3
<1>12. ASSUME NEW e \in Slots, NEW f \in Slots, e # f, Of(reqs'[e], d), Live(reqs'[f])
       PROVE  Apart(reqs'[e], reqs'[f])
  BY <1>2, <1>3, <1>11, <1>12 DEF OneAtATime
<1>13. Right(d, reqs', page, inbox[d], mine)
  <2> SUFFICES ASSUME On(pages[d]), ~pages[d].expired
               PROVE  /\ WillFit(d, reqs', page, mine) /\ ListIsShown(d, reqs', page, mine)
                      /\ AlertsAreHeard(d, reqs', Heard(page, inbox[d]), mine)
    BY <1>5 DEF Right, On
  <2>1. /\ WillFit(d, reqs, pages[d], mine) /\ ListIsShown(d, reqs, pages[d], mine)
        /\ AlertsAreHeard(d, reqs, heard, mine)
    BY <1>2 DEF Right, heard
  <2>2. \A e \in Slots : Of(reqs'[e], d) => Of(reqs[e], d)
    BY <1>11
  <2>3. WillFit(d, reqs', page, mine)
    <3> SUFFICES ASSUME NEW e \in Slots, Of(reqs'[e], d) PROVE Fits(reqs[e], page, mine)
      BY <1>11 DEF WillFit
    <3>1. Fits(reqs[e], pages[d], mine) /\ Matches(reqs[e])
      BY <2>1, <2>2, AtQuery DEF WillFit
    <3>2. /\ q.kind \in {"cameras", "alerts"} /\ reqs[e].kind \in {"cameras", "alerts"}
          /\ q.kind # reqs[e].kind
      BY <1>1, <1>2, <1>11, <2>2 DEF Apart, Of
    <3>3. CASE q.kind = "alerts"
      BY <1>1, <1>5, <3>1, <3>3, SameFits
    <3>4. CASE reqs[e].kind = "alerts"
      BY <3>1, <3>4 DEF Fits, Matches
    <3>5. QED
      BY <3>2, <3>3, <3>4
  <2>4. ListIsShown(d, reqs', page, mine)
    <3>1. CASE q.kind # "alerts"
      BY <1>8, <3>1 DEF ListIsShown
    <3>2. CASE q.kind = "alerts"
      <4> SUFFICES ASSUME \A e \in Slots : Of(reqs'[e], d) => reqs'[e].kind = "alerts"
                   PROVE  page.cameras = mine
        BY DEF ListIsShown
      <4>1. ASSUME NEW e \in Slots, Of(reqs[e], d)
            PROVE  reqs[e].kind = "alerts"
        BY <1>3, <3>2, <4>1 DEF q
      <4>2. pages[d].cameras = mine
        BY <2>1, <4>1 DEF ListIsShown
      <4>3. QED
        BY <1>5, <3>2, <4>2
    <3>3. QED
      BY <3>1, <3>2
  <2>5. AlertsAreHeard(d, reqs', Heard(page, inbox[d]), mine)
    <3>1. CASE q.kind = "alerts"
      <4>1. page.alerts = DOMAIN mine
        BY <1>5, <1>7, <3>1 DEF Fits, q
      <4>2. QED
        BY <4>1 DEF AlertsAreHeard, Heard
    <3>2. CASE q.kind # "alerts"
      <4> SUFFICES ASSUME \A e \in Slots : Of(reqs'[e], d) => reqs'[e].kind # "alerts",
                          NEW c \in DOMAIN mine
                   PROVE  c \in Heard(page, inbox[d]) \/ \E e \in Slots : Tells(reqs'[e], d, c)
        BY DEF AlertsAreHeard
      <4>1. ASSUME NEW e \in Slots, Of(reqs[e], d)
            PROVE  reqs[e].kind # "alerts"
        BY <1>3, <3>2, <4>1 DEF q
      <4>2. c \in heard \/ \E e \in Slots : Tells(reqs[e], d, c)
        BY <2>1, <4>1 DEF AlertsAreHeard
      <4>3. CASE c \in heard
        <5>1. q.kind = "delete" /\ q.status = 200 => q.cam # c
          <6>1. c \in DOMAIN cameras
            BY DEF mine, Mine
          <6>2. QED
            BY <1>1, <6>1 DEF Told, q
        <5>2. c \in Heard(page, inbox[d])
          BY <1>5, <3>2, <4>3, <5>1 DEF heard, Heard
        <5>3. QED
          BY <5>2
      <4>4. CASE \E e \in Slots : Tells(reqs[e], d, c)
        BY <1>3, <4>4 DEF Tells, q
      <4>5. QED
        BY <4>2, <4>3, <4>4
    <3>3. QED
      BY <3>1, <3>2
  <2>6. QED
    BY <2>3, <2>4, <2>5
<1>14. Settles(d)
  BY <1>4, <1>5, <1>10, <1>11, <1>12, <1>13 DEF Settles, mine
<1>15. QED
  BY <1>9, <1>14, LocalStep

(* A login brings the user to a page.                                      *)
LEMMA LoginSteady ==
  ASSUME Inv, Steady, NEW r \in Slots, reqs[r].at = "answered", reqs[r].kind = "login",
         UNCHANGED <<cameras, profile, faults, inbox>>, reqs[r].page \in Pages,
         Fetch([reqs EXCEPT ![r] = NoRequest], reqs[r].page, reqs[r].user),
         pages' = [pages EXCEPT ![reqs[r].page] = [LoginPage EXCEPT !.at = "dashboard",
                                                     !.user = reqs[r].user, !.ws = "opening"]]
  PROVE  Steady'
<1> DEFINE d == reqs[r].page
           u == reqs[r].user
           rest == [reqs EXCEPT ![r] = NoRequest]
           page == [LoginPage EXCEPT !.at = "dashboard", !.user = u, !.ws = "opening"]
<1>1. Placed(reqs[r], pages) /\ Live(reqs[r])
  <2>1. Live(reqs[r])
    BY DEF Live
  <2>2. QED
    BY <2>1, AtWork
<1>2. ~On(pages[d]) /\ \A e \in Pages : pages[e].user # u
  BY <1>1 DEF Placed
<1>3. pages[d] = LoginPage /\ inbox[d] = <<>>
  BY <1>2 DEF Steady, Tab
<1>4. IsPage(page) /\ On(page) /\ page.user = u /\ page.ws = "opening" /\ ~page.expired
  BY DEF LoginPage, IsPage, PageFields, On
<1> HIDE DEF page
<1>5. u # Nil
  BY <1>2, <1>3, LoginPageIsTab
<1>6. /\ pages'[d] = page /\ \A e \in Pages \ {d} : pages'[e] = pages[e]
      /\ pages' = [e \in Pages |-> pages'[e]] /\ Fetch(rest, d, u)
  BY DEF Steady, page
<1>7. Tab(d, pages', inbox')
  BY <1>2, <1>3, <1>4, <1>5, <1>6 DEF Tab
<1>8. Table(rest) /\ ~Live(rest[r]) /\ \A e \in Slots \ {r} : rest[e] = reqs[e]
  BY DEF Inv, Requests, Table, NoRequest, Live
<1>9. \A e \in Slots \ {r} : Live(reqs[e]) => reqs[e].page # d /\ reqs[e].user # u
  <2> SUFFICES ASSUME NEW e \in Slots \ {r}, Live(reqs[e]) PROVE reqs[e].page # d /\ reqs[e].user # u
    OBVIOUS
  <2>1. Apart(reqs[r], reqs[e])
    BY DEF Steady, OneAtATime
  <2>2. QED
    BY <1>1, <2>1 DEF Apart
<1>10. NewHere(d, u)
  BY <1>2, <1>9 DEF NewHere
<1>11. pages'[d].expired = pages[d].expired
  BY <1>3, <1>4, <1>6, LoginPageIsTab DEF LoginPage, page
<1>12. \A e \in Slots : Live(rest[e]) => rest[e] = reqs[e] /\ rest[e].page # d /\ rest[e].user # u
  BY <1>8, <1>9
<1>13. \A e \in Slots : Live(reqs[e]) /\ reqs[e].page # d => rest[e] = reqs[e]
  BY <1>8
<1>14. On(pages'[d]) /\ pages'[d].user = u
  BY <1>4, <1>6
<1>15. Fetches(d, u, rest)
  BY <1>6, <1>7, <1>8, <1>10, <1>11, <1>12, <1>13, <1>14 DEF Fetches
<1>16. QED
  BY <1>15, FetchSteady

LEMMA TakeAnswerSteady ==
  ASSUME Inv, Steady, NEW r \in Slots, TakeAnswer(r)
  PROVE  Steady'
<1> DEFINE q == reqs[r]
           d == q.page
           rest == [reqs EXCEPT ![r] = NoRequest]
<1>1. q.at = "answered" /\ UNCHANGED <<cameras, profile, faults, inbox>>
  BY DEF TakeAnswer, At, pageRest, store
<1>2. d \in Pages /\ d # Nil
  <2>1. Live(q)
    BY <1>1 DEF Live
  <2>2. d \in Pages
    BY <2>1, AtWork
  <2>3. QED
    BY <2>2, NilIsNobody
<1>3. CASE q.kind = "login" /\ q.status = 200
  <2>1. /\ Fetch(rest, d, q.user)
        /\ pages' = [pages EXCEPT ![d] = [LoginPage EXCEPT !.at = "dashboard", !.user = q.user,
                                                           !.ws = "opening"]]
    BY <1>2, <1>3 DEF TakeAnswer
  <2> HIDE DEF rest
  <2>2. QED
    BY <1>1, <1>2, <1>3, <2>1, LoginSteady DEF rest
<1>4. CASE ~(q.kind = "login" /\ q.status = 200)
  <2>1. reqs' = rest /\ pages' = [pages EXCEPT ![d] = Shown(@, q)]
    BY <1>2, <1>4 DEF TakeAnswer
  <2>2. QED
    BY <1>1, <1>2, <2>1, AnswerShownSteady
<1>5. QED
  BY <1>3, <1>4

(* No step takes back a failure, or changes who the user is.               *)
LEMMA FaultsStay ==
  ASSUME [Next]_vars
  PROVE  profile' = profile /\ (faults' = faults \/ faults' = faults + 1)
<1> DEFINE Stays == profile' = profile /\ (faults' = faults \/ faults' = faults + 1)
<1>1. (\E r \in Slots : Handler(r)) => Stays
  BY DEF Handler, FindAccount, CreateAccount, ListCameras, ListAlerts, CreateCamera, CreateAlert,
     FindCamera, UpdateCamera, DeleteAlerts, DeleteCamera, QueryFails, serverRest
<1>2. (\E r \in Slots : HalfSecondPasses(r) \/ TakeAnswer(r) \/ AnswerLost(r)) => Stays
  BY DEF HalfSecondPasses, TakeAnswer, AnswerLost, pageRest
<1>3. (\E d \in Pages : Page(d)) => Stays
  BY DEF Page, Enter, TokenExpires, HandleRefresh, HandleSaveCamera, HandleToggleCamera,
     HandleVideoReload, HandleConfirmDelete, HandleLogout, Connected, OnMessage, pageRest
<1>4. BackendRestarts \/ UNCHANGED vars => Stays
  BY DEF BackendRestarts, vars
<1> HIDE DEF Stays
<1>5. Stays
  BY <1>1, <1>2, <1>3, <1>4 DEF Next
<1>6. QED
  BY <1>5 DEF Stays

(* So what is careful after a step was careful before it.                  *)
LEMMA StaysCareful ==
  ASSUME Inv, [Next]_vars, Careful'
  PROVE  Careful
BY FaultsStay DEF Careful, Inv, Counters

LEMMA HandlerSteady ==
  ASSUME Inv, Careful, Careful', Steady, NEW r \in Slots, Handler(r)
  PROVE  Steady'
<1>1. ~QueryFails(r)
  BY DEF QueryFails, Careful, Inv, Counters
<1>2. QED
  BY <1>1, FindAccountSteady, CreateAccountSteady, ListCamerasSteady, ListAlertsSteady,
     CreateCameraSteady, CreateAlertSteady, FindCameraSteady, UpdateCameraSteady,
     DeleteAlertsSteady, DeleteCameraSteady DEF Handler

LEMMA PageSteady ==
  ASSUME Inv, Careful, Steady, NEW d \in Pages, Page(d)
  PROVE  Steady'
<1>1. ~HandleVideoReload(d)
  BY DEF HandleVideoReload, Careful
<1>2. QED
  BY <1>1, EnterSteady, TokenExpiresSteady, HandleRefreshSteady, HandleSaveCameraSteady,
     HandleToggleCameraSteady, HandleConfirmDeleteSteady, HandleLogoutSteady, ConnectedSteady,
     OnMessageSteady DEF Page

LEMMA StutterSteady ==
  ASSUME Steady, UNCHANGED vars
  PROVE  Steady'
BY DEF vars, store, Steady, OneAtATime, HaveOwners, Tab, Placed, Works, Right, WillFit, ListIsShown,
   AlertsAreHeard, Tells, Of

LEMMA SteadyStep == Inv /\ SteadyInv /\ [Next]_vars => SteadyInv'
<1> SUFFICES ASSUME Inv, SteadyInv, [Next]_vars, Careful' PROVE Steady'
  BY DEF SteadyInv
<1>1. Careful /\ Steady
  BY StaysCareful DEF SteadyInv
<1>2. ASSUME NEW r \in Slots, Handler(r)
      PROVE  Steady'
  BY <1>1, <1>2, HandlerSteady
<1>3. ASSUME NEW r \in Slots, HalfSecondPasses(r)
      PROVE  Steady'
  <2>1. Live(reqs[r]) /\ reqs[r].at = "timer"
    BY <1>3 DEF HalfSecondPasses, At, Live
  <2>2. QED
    BY <1>1, <2>1 DEF Steady, Works
<1>4. ASSUME NEW r \in Slots, TakeAnswer(r)
      PROVE  Steady'
  BY <1>1, <1>4, TakeAnswerSteady
<1>5. \A r \in Slots : ~AnswerLost(r)
  BY <1>1 DEF AnswerLost, Careful, Inv, Counters
<1>6. ASSUME NEW d \in Pages, Page(d)
      PROVE  Steady'
  BY <1>1, <1>6, PageSteady
<1>7. ~BackendRestarts
  BY <1>1 DEF BackendRestarts, Careful, Inv, Counters
<1>8. CASE UNCHANGED vars
  BY <1>1, <1>8, StutterSteady
<1>9. QED
  BY <1>2, <1>3, <1>4, <1>5, <1>6, <1>7, <1>8 DEF Next

(* For any number of tabs, users, requests and cameras: once a patient     *)
(* user has the answers, the page shows the cameras of the database and    *)
(* the alerts it has heard of, whatever the other users do and however     *)
(* the statements, the answers and the alerts mix.                         *)
THEOREM PagesShowTheDatabase == Spec => []DashboardShows
<1>1. Init => Inv /\ SteadyInv
  BY InitInv, SteadyInit DEF SteadyInv
<1>2. Inv /\ SteadyInv /\ [Next]_vars => (Inv /\ SteadyInv)'
  BY InvStep, SteadyStep
<1>3. SteadyInv => DashboardShows
  BY SteadyIsEnough
<1>4. QED
  BY <1>1, <1>2, <1>3, PTL DEF Spec

=============================================================================
