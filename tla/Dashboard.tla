------------------------------ MODULE Dashboard ------------------------------
(***************************************************************************)
(* The dashboard of the repository: the backend (backend/src/index.ts), a  *)
(* set of HTTP handlers over a database of accounts, cameras and alerts    *)
(* and a WebSocket server, and the pages of the frontend                   *)
(* (frontend/src/pages) open in browser tabs.                              *)
(*                                                                         *)
(* A handler runs until its next query: every await is a step, in which    *)
(* the database executes one statement, so the statements of several       *)
(* requests mix.  The answers reach a page in any order, and so do the     *)
(* alerts of the WebSocket among them.  The text fields of a camera are    *)
(* one value, `name'; the list a page shows is a function from identifiers *)
(* to cameras, so its order is left out.                                   *)
(***************************************************************************)
EXTENDS Naturals, Sequences

CONSTANTS
  Users, Names, Nil,
  Pages,        (* browser tabs                                            *)
  Stores,       (* what the database may hold when the backend starts      *)
  MaxCameras,   (* bound on the identifiers of cameras                     *)
  MaxRequests,  (* bound on requests in flight                             *)
  Profiles      (* [who, names : the users who come, what they type;       *)
                (* patient; expiry : tokens get old; asks, faults : bounds *)
                (* on what users do, on failing queries and connections]   *)

ASSUME BoundsAreNumbers == MaxCameras \in Nat /\ MaxRequests \in Nat
ASSUME NilIsNobody == Nil \notin Users \cup Pages

Ids    == 1..MaxCameras
Camera == [owner : Users, name : Names, enabled : BOOLEAN]

(* The database was left by handlers none of which failed.                 *)
ASSUME StoresAreWhole == \A s \in Stores :
  s.cameras \in [DOMAIN s.cameras -> Camera] /\ s.alerts = DOMAIN s.cameras

Slots == 1..MaxRequests

VARIABLES
  accounts,  (* names that are registered                                  *)
  cameras,   (* id -> [owner, name, enabled], of the cameras there are     *)
  alerts,    (* the cameras that have an alert                             *)
  nextId,    (* the sequence of Camera.id: never goes back                 *)
  reqs,      (* slot -> request in flight, or NoRequest                    *)
  pages,     (* tab -> the component it shows and its state                *)
  inbox,     (* tab -> alerts sent over its WebSocket and not received     *)
  profile,   (* patient users have one tab each, do one thing at a time    *)
  asked, faults
store == <<accounts, cameras, alerts>>
vars  == <<store, nextId, reqs, pages, inbox, profile, asked, faults>>

LoginPage == [at |-> "login", user |-> Nil, expired |-> FALSE, ws |-> "closed",
              cameras |-> <<>>, alerts |-> {}]

NoRequest == [at |-> "free", page |-> Nil, kind |-> Nil, user |-> Nil, cam |-> Nil,
              data |-> <<>>, read |-> Nil, status |-> 0, body |-> Nil]

Init ==
  /\ \E s \in Stores : accounts = s.accounts /\ cameras = s.cameras /\ alerts = s.alerts
  /\ nextId \in 1..(MaxCameras + 1)
  /\ 1..(nextId - 1) = DOMAIN cameras
  /\ reqs = [r \in Slots |-> NoRequest]
  /\ pages = [d \in Pages |-> LoginPage]
  /\ inbox = [d \in Pages |-> <<>>]
  /\ profile \in Profiles
  /\ asked = 0 /\ faults = 0

Owned(u) == {c \in DOMAIN cameras : cameras[c].owner = u}
WithoutKey(f, c) == [e \in DOMAIN f \ {c} |-> f[e]]
WithKey(f, c, v) == [e \in DOMAIN f \cup {c} |-> IF e = c THEN v ELSE f[e]]

(* What a patch does not carry is written with what was read.              *)
Completed(data, read) ==
  [f \in DOMAIN data \cup DOMAIN read |-> IF f \in DOMAIN data THEN data[f] ELSE read[f]]

(***************************************************************************)
(* Requests.                                                               *)
(***************************************************************************)

(* authMiddleware stands before every handler but /register and /login:    *)
(* an expired token is refused, otherwise the handler reaches its first    *)
(* query.  It reads nothing but the token, so it is part of the step that  *)
(* sends the request.                                                      *)
FirstQuery == [register |-> "FindAccount", login |-> "FindAccount", cameras |-> "ListCameras",
               alerts |-> "ListCameras", create |-> "CreateCamera", patch |-> "FindCamera",
               delete |-> "FindCamera"]
Admitted(q, expired) ==
  IF expired THEN [q EXCEPT !.at = "answered", !.status = 401]
             ELSE [q EXCEPT !.at = FirstQuery[q.kind]]

Request(d, kind, u, cam, data) ==
  Admitted([NoRequest EXCEPT !.page = d, !.kind = kind, !.user = u, !.cam = cam, !.data = data],
           kind \notin {"register", "login"} /\ pages[d].expired)

(* A request enters a free slot of rs.                                     *)
Room(rs) == \E r \in Slots : rs[r].at = "free"
Posted(rs, q) == [rs EXCEPT ![CHOOSE r \in Slots : rs[r].at = "free"] = q]

Answer(r, status, body) ==
  reqs' = [reqs EXCEPT ![r] = [@ EXCEPT !.at = "answered", !.status = status, !.body = body]]
Continue(r, at, cam, read) ==
  reqs' = [reqs EXCEPT ![r] = [@ EXCEPT !.at = at, !.cam = cam, !.read = read]]
At(r, at) == reqs[r].at = at

serverRest == <<pages, profile, asked, faults>>

(* POST /register, POST /login: findUnique by name.                        *)
FindAccount(r) ==
  /\ At(r, "FindAccount")
  /\ LET q == reqs[r]  known == q.user \in accounts
     IN CASE q.kind = "register" /\ known  -> Answer(r, 409, Nil)
          [] q.kind = "register" /\ ~known -> Continue(r, "CreateAccount", Nil, Nil)
          [] q.kind = "login" /\ known     -> Answer(r, 200, q.user)
          [] OTHER                         -> Answer(r, 401, Nil)
  /\ UNCHANGED <<store, nextId, inbox, serverRest>>

(* user.create: the name is unique in the schema.                          *)
CreateAccount(r) ==
  /\ At(r, "CreateAccount")
  /\ IF reqs[r].user \in accounts
     THEN Answer(r, 500, Nil) /\ UNCHANGED accounts
     ELSE accounts' = accounts \cup {reqs[r].user} /\ Answer(r, 200, reqs[r].user)
  /\ UNCHANGED <<cameras, alerts, nextId, inbox, serverRest>>

(* GET /cameras, and the first query of GET /alerts.                       *)
ListCameras(r) ==
  /\ At(r, "ListCameras")
  /\ LET mine == Owned(reqs[r].user)
     IN CASE reqs[r].kind = "cameras" -> Answer(r, 200, [c \in mine |-> cameras[c]])
          [] reqs[r].kind = "alerts" /\ mine = {} -> Answer(r, 200, {})
          [] OTHER -> Continue(r, "ListAlerts", Nil, mine)
  /\ UNCHANGED <<store, nextId, inbox, serverRest>>

ListAlerts(r) ==
  /\ At(r, "ListAlerts")
  /\ Answer(r, 200, reqs[r].read \cap alerts)
  /\ UNCHANGED <<store, nextId, inbox, serverRest>>

(* POST /cameras.                                                          *)
CreateCamera(r) ==
  /\ At(r, "CreateCamera")
  /\ nextId <= MaxCameras
  /\ LET camera == [owner |-> reqs[r].user, name |-> reqs[r].data.name, enabled |-> TRUE]
     IN /\ cameras' = WithKey(cameras, nextId, camera)
        /\ Continue(r, "CreateAlert", nextId, camera)
  /\ nextId' = nextId + 1
  /\ UNCHANGED <<accounts, alerts, inbox, serverRest>>

(* The foreign key of Alert, and a schema that forgets it.                 *)
Referenced_NoKey(c) == TRUE
Referenced(c) == c \in DOMAIN cameras

(* The alert refers to a camera that is still there, and is sent to every  *)
(* client of the WebSocket server.                                         *)
CreateAlert(r) ==
  /\ At(r, "CreateAlert")
  /\ LET c == reqs[r].cam
     IN IF ~Referenced(c)
        THEN Answer(r, 500, Nil) /\ UNCHANGED <<alerts, inbox>>
        ELSE /\ alerts' = alerts \cup {c}
             /\ inbox' = [d \in Pages |-> IF pages[d].ws = "open" THEN Append(inbox[d], c)
                                                                  ELSE inbox[d]]
             /\ Answer(r, 200, reqs[r].read)
  /\ UNCHANGED <<accounts, cameras, nextId, serverRest>>

(* PATCH and DELETE /cameras/:id look the camera up first.                 *)
FindCamera(r) ==
  /\ At(r, "FindCamera")
  /\ LET q == reqs[r]
     IN IF q.cam \notin Owned(q.user) THEN Answer(r, 404, Nil)
        ELSE Continue(r, IF q.kind = "patch" THEN "UpdateCamera" ELSE "DeleteAlerts",
                      q.cam, cameras[q.cam])
  /\ UNCHANGED <<store, nextId, inbox, serverRest>>

(* Every field is written.                                                 *)
UpdateCamera(r) ==
  /\ At(r, "UpdateCamera")
  /\ LET q == reqs[r]  updated == Completed(q.data, q.read)
     IN IF q.cam \notin DOMAIN cameras
        THEN Answer(r, 500, Nil) /\ UNCHANGED cameras
        ELSE cameras' = [cameras EXCEPT ![q.cam] = updated] /\ Answer(r, 200, updated)
  /\ UNCHANGED <<accounts, alerts, nextId, inbox, serverRest>>

DeleteAlerts(r) ==
  /\ At(r, "DeleteAlerts")
  /\ alerts' = alerts \ {reqs[r].cam}
  /\ Continue(r, "DeleteCamera", reqs[r].cam, Nil)
  /\ UNCHANGED <<accounts, cameras, nextId, inbox, serverRest>>

(* The statement fails when the camera is gone or has an alert again.      *)
DeleteCamera(r) ==
  /\ At(r, "DeleteCamera")
  /\ LET c == reqs[r].cam
     IN IF c \notin DOMAIN cameras \/ c \in alerts
        THEN Answer(r, 500, Nil) /\ UNCHANGED cameras
        ELSE cameras' = WithoutKey(cameras, c) /\ Answer(r, 200, Nil)
  /\ UNCHANGED <<accounts, alerts, nextId, inbox, serverRest>>

(* A statement may fail: the handler throws and the answer is a 500.       *)
QueryFails(r) ==
  /\ reqs[r].at \notin {"free", "answered", "timer"}
  /\ faults < profile.faults /\ faults' = faults + 1
  /\ Answer(r, 500, Nil)
  /\ UNCHANGED <<store, nextId, inbox, pages, profile, asked>>

(* The backend dies and is started again: the database keeps what the      *)
(* statements wrote, the handlers and the WebSockets are gone.             *)
BackendRestarts ==
  /\ faults < profile.faults /\ faults' = faults + 1
  /\ reqs' = [r \in Slots |-> IF reqs[r].at \in {"answered", "timer"} THEN reqs[r]
                                                                      ELSE NoRequest]
  /\ pages' = [d \in Pages |-> IF pages[d].ws = "closed" THEN pages[d]
                               ELSE [pages[d] EXCEPT !.ws = "lost"]]
  /\ UNCHANGED <<store, nextId, inbox, profile, asked>>

(***************************************************************************)
(* Pages.                                                                  *)
(***************************************************************************)

OnDashboard(d) == pages[d].at = "dashboard"
Busy(u) == \E r \in Slots : reqs[r].at # "free" /\ reqs[r].user = u
Waiting(d) == \E r \in Slots : reqs[r].at # "free" /\ reqs[r].page = d

(* A patient user waits for the answers and for the chip that tells that   *)
(* the WebSocket is connected.                                             *)
MayAct(d) ==
  /\ OnDashboard(d)
  /\ asked < profile.asks /\ asked' = asked + 1
  /\ profile.patient => ~Busy(pages[d].user) /\ pages[d].ws # "opening"

Send(q) == Room(reqs) /\ reqs' = Posted(reqs, q)
SendBoth(rs, p, q) ==
  Room(rs) /\ Room(Posted(rs, p)) /\ reqs' = Posted(Posted(rs, p), q)

pageRest == <<store, nextId, profile, faults>>

(* Register.tsx and Login.tsx, one request at a time.  A patient user does *)
(* not use two tabs.                                                       *)
Enter(d) ==
  /\ pages[d].at = "login" /\ ~Waiting(d)
  /\ \E kind \in {"register", "login"}, u \in profile.who :
       /\ profile.patient => ~Busy(u) /\ \A e \in Pages : pages[e].user # u
       /\ Send(Request(d, kind, u, Nil, <<>>))
  /\ asked < profile.asks /\ asked' = asked + 1
  /\ UNCHANGED <<pageRest, pages, inbox>>

(* The token of the page is older than an hour.                            *)
TokenExpires(d) ==
  /\ profile.expiry /\ OnDashboard(d) /\ ~pages[d].expired
  /\ pages' = [pages EXCEPT ![d].expired = TRUE]
  /\ UNCHANGED <<pageRest, inbox, reqs, asked>>

(* fetchCameras and fetchAlerts together.                                  *)
Fetch(rs, d, u) ==
  SendBoth(rs, Request(d, "cameras", u, Nil, <<>>), Request(d, "alerts", u, Nil, <<>>))

HandleRefresh(d) ==
  /\ MayAct(d)
  /\ Fetch(reqs, d, pages[d].user)
  /\ UNCHANGED <<pageRest, pages, inbox>>

(* A new camera, or all the fields of one that is shown.                   *)
HandleSaveCamera(d) ==
  /\ MayAct(d)
  /\ \E n \in profile.names :
       \/ Send(Request(d, "create", pages[d].user, Nil, [name |-> n]))
       \/ \E c \in DOMAIN pages[d].cameras, on \in BOOLEAN :
            Send(Request(d, "patch", pages[d].user, c, [name |-> n, enabled |-> on]))
  /\ UNCHANGED <<pageRest, pages, inbox>>

Toggle(d, c, on) == Request(d, "patch", pages[d].user, c, [enabled |-> on])

HandleToggleCamera(d) ==
  /\ MayAct(d)
  /\ \E c \in DOMAIN pages[d].cameras :
       Send(Toggle(d, c, ~pages[d].cameras[c].enabled))
  /\ UNCHANGED <<pageRest, pages, inbox>>

(* Off at once, on again half a second later, answered or not: a patient   *)
(* user does not ask for it.                                               *)
HandleVideoReload(d) ==
  /\ MayAct(d) /\ ~profile.patient
  /\ \E c \in DOMAIN pages[d].cameras :
       /\ pages[d].cameras[c].enabled
       /\ SendBoth(reqs, Toggle(d, c, FALSE),
                   [Toggle(d, c, TRUE) EXCEPT !.at = "timer", !.status = 0])
  /\ UNCHANGED <<pageRest, pages, inbox>>
HalfSecondPasses(r) ==
  /\ At(r, "timer")
  /\ LET d == reqs[r].page
     IN reqs' = [reqs EXCEPT ![r] = Admitted(@, d # Nil /\ pages[d].expired)]
  /\ UNCHANGED <<pageRest, pages, inbox, asked>>

HandleConfirmDelete(d) ==
  /\ MayAct(d)
  /\ \E c \in DOMAIN pages[d].cameras : Send(Request(d, "delete", pages[d].user, c, <<>>))
  /\ UNCHANGED <<pageRest, pages, inbox>>

(* The component is unmounted: its WebSocket is closed, and what is still  *)
(* answered to it has no effect.                                           *)
HandleLogout(d) ==
  /\ OnDashboard(d)
  /\ profile.patient => ~Busy(pages[d].user)
  /\ pages' = [pages EXCEPT ![d] = LoginPage]
  /\ inbox' = [inbox EXCEPT ![d] = <<>>]
  /\ reqs' = [r \in Slots |-> IF reqs[r].page = d THEN [reqs[r] EXCEPT !.page = Nil]
                                                   ELSE reqs[r]]
  /\ UNCHANGED <<pageRest, asked>>

(***************************************************************************)
(* Answers.                                                                *)
(***************************************************************************)

(* The list without a camera; handleConfirmDelete that leaves it there.    *)
Without_Keeps(cams, c) == cams
Without(cams, c) == WithoutKey(cams, c)

(* What the page shows after the answer to q.                              *)
Shown(page, q) ==
  IF q.status # 200 THEN page
  ELSE CASE q.kind = "cameras" -> [page EXCEPT !.cameras = q.body]
         [] q.kind = "alerts"  -> [page EXCEPT !.alerts = q.body]
         [] q.kind = "create"  -> [page EXCEPT !.cameras = WithKey(@, q.cam, q.body)]
         [] q.kind = "patch" /\ q.cam \in DOMAIN page.cameras ->
              [page EXCEPT !.cameras[q.cam] = q.body]
         [] q.kind = "delete"  -> [page EXCEPT !.cameras = Without(@, q.cam),
                                               !.alerts = @ \ {q.cam}]
         [] OTHER              -> page

(* A login mounts the dashboard: it fetches its lists and opens its        *)
(* WebSocket.                                                              *)
TakeAnswer(r) ==
  /\ At(r, "answered")
  /\ LET q == reqs[r]  d == q.page  rest == [reqs EXCEPT ![r] = NoRequest]
     IN IF d # Nil /\ q.kind = "login" /\ q.status = 200
        THEN /\ Fetch(rest, d, q.user)
             /\ pages' = [pages EXCEPT ![d] = [LoginPage EXCEPT !.at = "dashboard",
                                                 !.user = q.user, !.ws = "opening"]]
        ELSE /\ reqs' = rest
             /\ pages' = IF d = Nil THEN pages ELSE [pages EXCEPT ![d] = Shown(@, q)]
  /\ UNCHANGED <<pageRest, inbox, asked>>

(* The connection of a request is lost after the handler has run.          *)
AnswerLost(r) ==
  /\ At(r, "answered")
  /\ faults < profile.faults /\ faults' = faults + 1
  /\ reqs' = [reqs EXCEPT ![r] = NoRequest]
  /\ UNCHANGED <<store, nextId, profile, pages, inbox, asked>>

(* The server has accepted the WebSocket: clients.add(ws).                 *)
Connected(d) ==
  /\ pages[d].ws = "opening"
  /\ pages' = [pages EXCEPT ![d].ws = "open"]
  /\ UNCHANGED <<pageRest, inbox, reqs, asked>>

(* ws.onmessage: whatever arrives is shown.                                *)
OnMessage(d) ==
  /\ inbox[d] # <<>>
  /\ pages' = [pages EXCEPT ![d].alerts = @ \cup {Head(inbox[d])}]
  /\ inbox' = [inbox EXCEPT ![d] = Tail(@)]
  /\ UNCHANGED <<pageRest, reqs, asked>>

Handler(r) ==
  \/ FindAccount(r)  \/ CreateAccount(r) \/ ListCameras(r)  \/ ListAlerts(r)
  \/ CreateCamera(r) \/ CreateAlert(r)   \/ FindCamera(r)   \/ UpdateCamera(r)
  \/ DeleteAlerts(r) \/ DeleteCamera(r)  \/ QueryFails(r)

Page(d) ==
  \/ Enter(d) \/ TokenExpires(d) \/ HandleRefresh(d) \/ HandleSaveCamera(d)
  \/ HandleToggleCamera(d) \/ HandleVideoReload(d) \/ HandleConfirmDelete(d)
  \/ HandleLogout(d) \/ Connected(d) \/ OnMessage(d)

Next ==
  \/ \E r \in Slots : Handler(r) \/ HalfSecondPasses(r) \/ TakeAnswer(r) \/ AnswerLost(r)
  \/ \E d \in Pages : Page(d)
  \/ BackendRestarts

Spec == Init /\ [][Next]_vars

(***************************************************************************)
(* Properties.                                                             *)
(***************************************************************************)

TypeOK ==
  /\ accounts \subseteq Users
  /\ cameras \in UNION {[S -> Camera] : S \in SUBSET Ids}
  /\ alerts \subseteq Ids
  /\ nextId \in 1..(MaxCameras + 1)
  /\ pages \in [Pages -> [at : {"login", "dashboard"}, user : Users \cup {Nil},
                          expired : BOOLEAN, ws : {"closed", "opening", "open", "lost"},
                          cameras : UNION {[S -> Camera] : S \in SUBSET Ids},
                          alerts : SUBSET Ids]]
  /\ inbox \in [Pages -> Seq(Ids)]

(* What the handlers, whose statements are in no transaction, leave in the *)
(* database: no alert without its camera, a camera without its alert only  *)
(* in the middle of a request or when a statement failed.                  *)
StoreIsWhole ==
  /\ alerts \subseteq DOMAIN cameras
  /\ faults = 0 => \A c \in DOMAIN cameras \ alerts :
       \E r \in Slots : reqs[r].cam = c /\ reqs[r].at \in {"CreateAlert", "DeleteCamera"}

Succeeded(r, kind) == At(r, "answered") /\ reqs[r].kind = kind /\ reqs[r].status = 200

(* What a handler that answers 200 says has happened: one account per      *)
(* name, a camera that is deleted is gone for good with its alert, and one *)
(* that is updated was written with the values that were asked.            *)
AnswersAreTrue ==
  \A r \in Slots :
    /\ Succeeded(r, "register") => \A e \in Slots \ {r} :
         ~(Succeeded(e, "register") /\ reqs[e].user = reqs[r].user)
    /\ Succeeded(r, "delete") => reqs[r].cam \notin DOMAIN cameras \cup alerts
    /\ Succeeded(r, "patch") =>
         \A f \in DOMAIN reqs[r].data : reqs[r].body[f] = reqs[r].data[f]

(* However the statements of concurrent requests mix, the database stays   *)
(* whole and the answers are true of it.                                   *)
StoreIsConsistent == StoreIsWhole /\ AnswersAreTrue

(* The page of a patient user, once it has its answers, shows the cameras  *)
(* of the database, and the alerts of those it has heard of, although it   *)
(* never fetches them again after its own changes.                         *)
DashboardShows ==
  \A d \in Pages :
    profile.patient /\ faults = 0 /\ OnDashboard(d) /\ ~Busy(pages[d].user) /\ ~pages[d].expired =>
      /\ pages[d].cameras = [c \in Owned(pages[d].user) |-> cameras[c]]
      /\ inbox[d] = <<>> => Owned(pages[d].user) \subseteq pages[d].alerts
=============================================================================
