---------------------------- MODULE PagesProofs ----------------------------
(***************************************************************************)
(* Theorems about the browser and its pages, for any connections, sessions,*)
(* settings, slots, and numbers of clicks and of other people's changes.   *)
(***************************************************************************)
EXTENDS Pages, FiniteSetTheorems, SequenceTheorems, WellFoundedInduction, TLAPS

(* What every request has, and the page that waits for it: the requests of *)
(* a page are gone with it, except for what changes the server or store.   *)
IsLists(r) == r.kind \in {"first", "lists"}
IsSettings(r) == r.kind \in {"save", "dark", "app"}

Proper(r, route) ==
    /\ {"kind", "status", "mounted", "answer"} \subseteq DOMAIN r
    /\ r.kind = "overview" => route = "home"
    /\ IsLists(r) => route = "sessions"
    /\ r.kind = "form" => route = "settings"
    /\ r.kind \in Changing \cup {"list"} /\ r.mounted => route = "connections"

RequestsProper ==
    /\ DOMAIN requests = Slots
    /\ \A k \in Slots : requests[k] # None => Proper(requests[k], page.route)

(* The parts of a page's state, and the question of a dialog.              *)
Confirms(r) ==
    /\ DOMAIN r = {"kind", "id", "typed", "sent", "mounted", "status", "answer"}
    /\ r.kind \in {"deleteConnection", "deleteSession"}
    /\ r.status = "sent" /\ r.mounted

Parts(p) ==
    /\ "route" \in DOMAIN p
    /\ p.route = "connections" =>
          /\ {"connections", "detail", "detailSessions", "confirm", "editTarget", "pressed",
               "exact"} \subseteq DOMAIN p
          /\ p.confirm = None \/ Confirms(p.confirm)
    /\ p.route = "sessions" =>
          {"connections", "sessions", "selected", "order", "entry", "before", "guessed"}
              \subseteq DOMAIN p
    /\ p.route = "settings" => {"form", "edited", "fresh"} \subseteq DOMAIN p

BaseInv == RequestsProper /\ Parts(page)

(* A place in the slots: that of a request, or none if all are taken.      *)
LEMMA PutAnywhere ==
    ASSUME NEW used, DOMAIN used = Slots, NEW r
    PROVE  /\ DOMAIN Put(used, r) = Slots
           /\ \A k \in Slots : Put(used, r)[k] \in {used[k], r}
BY DEF Put

(* Every request is the old one, or proper where the step has led.         *)
LEMMA BaseStep ==
    ASSUME BaseInv, Parts(page'), DOMAIN requests' = Slots,
           \A k \in Slots :
              \/ requests'[k] = None
              \/ page'.route = page.route /\ requests'[k] = requests[k]
              \/ Proper(requests'[k], page'.route)
    PROVE  BaseInv'
<1>1. \A k \in Slots : requests[k] # None => Proper(requests[k], page.route)
  BY DEF BaseInv, RequestsProper
<1>2. \A k \in Slots : requests'[k] # None => Proper(requests'[k], page'.route)
  BY <1>1
<1> QED
  BY <1>2 DEF BaseInv, RequestsProper

(* A request is sent, or none.                                             *)
LEMMA BaseSends ==
    ASSUME BaseInv, Parts(page'), page'.route = page.route, NEW r,
           Proper(r, page.route), requests' \in {requests, Put(requests, r)}
    PROVE  BaseInv'
<1>1. DOMAIN requests' = Slots /\ \A k \in Slots : requests'[k] \in {requests[k], r}
  BY PutAnywhere DEF BaseInv, RequestsProper
<1> QED
  BY <1>1, BaseStep

(* One request changes.                                                    *)
LEMMA BaseOne ==
    ASSUME BaseInv, Parts(page'), page'.route = page.route, NEW k \in Slots, NEW r,
           r = None \/ Proper(r, page.route), requests' = [requests EXCEPT ![k] = r]
    PROVE  BaseInv'
<1>1. /\ DOMAIN requests' = Slots /\ requests'[k] = r
      /\ \A t \in Slots : t # k => requests'[t] = requests[t]
  BY DEF BaseInv, RequestsProper
<1> QED
  BY <1>1, BaseStep

(* The server answers or refuses.                                          *)
LEMMA BaseServed ==
    ASSUME BaseInv, NEW k \in Slots, requests[k] # None, page' = page, NEW a,
           requests' \in {Answers(k, a), Refuses(k)}
    PROVE  BaseInv'
<1> DEFINE r == requests[k]
           ok == [r EXCEPT !.status = "ok", !.answer = a]
           failed == [r EXCEPT !.status = "failed"]
<1>1. Proper(r, page.route) /\ DOMAIN requests = Slots
  BY DEF BaseInv, RequestsProper
<1>2. \/ requests' = [requests EXCEPT ![k] = ok]
      \/ requests' = [requests EXCEPT ![k] = failed]
  BY <1>1 DEF Answers, Refuses
<1>3. Proper(ok, page.route) /\ Proper(failed, page.route)
  <2> HIDE DEF r
  <2> QED
    BY <1>1 DEF Proper, IsLists
<1> HIDE DEF ok, failed
<1> QED
  BY <1>2, <1>3, BaseOne DEF BaseInv

-----------------------------------------------------------------------------
(* The user.                                                               *)

(* A click on the overview sends at most one request, for an overview.     *)
LEMMA HomeUserFacts ==
    ASSUME "route" \in DOMAIN page, HomeUser
    PROVE  /\ page.route = "home" /\ "route" \in DOMAIN page' /\ page'.route = "home"
           /\ requests' \in {requests, Put(requests, LoadRequest(page'))}
           /\ Free(requests) # {}
<1> DEFINE Goal == /\ "route" \in DOMAIN page' /\ page'.route = "home"
                   /\ requests' \in {requests, Put(requests, LoadRequest(page'))}
                   /\ Free(requests) # {}
<1>1. page.route = "home"
  BY DEF HomeUser, OnHome, On
<1>2. ASSUME NEW p, HomeClick(p), "route" \in DOMAIN p, p.route = "home" PROVE Goal
  BY <1>2 DEF HomeClick, HomeBecomes
<1> HIDE DEF Goal
<1>3. ASSUME NEW x0, NEW x1, handleBrush(x0, x1) PROVE Goal
  <2> DEFINE start == Min({x0, x1})
             end == Max({x0, x1})
             p == [page EXCEPT !.custom = Window(start, end),
                               !.startInput = nsToDt(start), !.endInput = nsToDt(end)]
  <2>1. HomeClick(p)
    BY <1>3 DEF handleBrush
  <2> HIDE DEF start, end
  <2>2. "route" \in DOMAIN p /\ p.route = "home"
    BY <1>1
  <2> QED
    BY <1>2, <2>1, <2>2
<1>4. ASSUME NEW i, SetStart(i) \/ SetEnd(i) PROVE Goal
  <2> DEFINE p == [page EXCEPT !.startInput = i]
             q == [page EXCEPT !.endInput = i]
  <2>1. HomeClick(p) \/ HomeClick(q)
    BY <1>4 DEF SetStart, SetEnd
  <2>2. /\ "route" \in DOMAIN p /\ p.route = "home"
        /\ "route" \in DOMAIN q /\ q.route = "home"
    BY <1>1
  <2> HIDE DEF p, q
  <2> QED
    BY <1>2, <2>1, <2>2
<1>5. ASSUME NEW n, SetRange(n) PROVE Goal
  <2> DEFINE p == [page EXCEPT !.custom = None, !.range = n]
  <2>1. HomeClick(p)
    BY <1>5 DEF SetRange
  <2>2. "route" \in DOMAIN p /\ p.route = "home"
    BY <1>1
  <2> HIDE DEF p
  <2> QED
    BY <1>2, <2>1, <2>2
<1>6. ASSUME applyCustom \/ clearCustom PROVE Goal
  <2> DEFINE p == [page EXCEPT !.custom = Window(page.startInput, page.endInput)]
             q == [page EXCEPT !.custom = None, !.startInput = None, !.endInput = None]
  <2>1. HomeClick(p) \/ HomeClick(q)
    BY <1>6 DEF applyCustom, clearCustom
  <2>2. /\ "route" \in DOMAIN p /\ p.route = "home"
        /\ "route" \in DOMAIN q /\ q.route = "home"
    BY <1>1
  <2> HIDE DEF p, q
  <2> QED
    BY <1>2, <2>1, <2>2
<1> QED
  BY <1>1, <1>3, <1>4, <1>5, <1>6 DEF HomeUser, Goal

LEMMA BaseHomeUser == ASSUME BaseInv, HomeUser PROVE BaseInv'
<1> DEFINE r == LoadRequest(page')
<1>1. /\ page.route = "home" /\ "route" \in DOMAIN page' /\ page'.route = "home"
      /\ requests' \in {requests, Put(requests, r)}
  BY HomeUserFacts DEF BaseInv, Parts
<1>2. Proper(r, page.route)
  BY <1>1 DEF LoadRequest, Proper, IsLists, Changing
<1>3. Parts(page')
  BY <1>1 DEF Parts
<1> HIDE DEF r
<1> QED
  BY <1>1, <1>2, <1>3, BaseSends

(* A click on the connections sends at most one request, which reads or    *)
(* changes what the drawer shows.                                          *)
Sendable(r) ==
    /\ DOMAIN r = {"kind", "id", "typed", "sent", "mounted", "status", "answer"}
    /\ r.kind \in Changing /\ r.mounted /\ r.status = "sent"

LEMMA ConnectionsUserFacts ==
    ASSUME BaseInv, ConnectionsUser
    PROVE  /\ page.route = "connections" /\ page'.route = "connections" /\ Parts(page')
           /\ \/ requests' = requests
              \/ /\ Free(requests) # {}
                 /\ \E r : Sendable(r) /\ requests' = Put(requests, r)
<1> DEFINE Goal == /\ page'.route = "connections" /\ Parts(page')
                   /\ \/ requests' = requests
                      \/ /\ Free(requests) # {}
                         /\ \E r : Sendable(r) /\ requests' = Put(requests, r)
<1>1. page.route = "connections" /\ Parts(page)
  BY DEF BaseInv, ConnectionsUser, OnConnections, On
<1>2. ASSUME NEW p, Parts(p), p.route = "connections", UserDoes(p) PROVE Goal
  BY <1>2 DEF UserDoes
<1>3. ASSUME NEW p, Parts(p), p.route = "connections", NEW r, Sendable(r), NEW e,
             UserSends(p, r, e)
      PROVE  Goal
  <2>1. page' = [p EXCEPT !.exact = e /\ UnderWay(requests) = {}]
        /\ requests' = Put(requests, r) /\ Free(requests) # {}
    BY <1>3 DEF UserSends
  <2>2. Parts(page') /\ page'.route = "connections"
    BY <1>3, <2>1 DEF Parts, Confirms
  <2> QED
    BY <1>3, <2>1, <2>2
<1> HIDE DEF Goal
<1>4. ASSUME NEW c, openDetail(c) PROVE Goal
  <2> DEFINE p == [page EXCEPT !.detail = c, !.detailSessions = {}]
  <2>1. Parts(p) /\ p.route = "connections"
    BY <1>1 DEF Parts
  <2>2. Sendable(PageRequest("detail", c))
    BY DEF Sendable, PageRequest, Changing
  <2>3. UserSends(p, PageRequest("detail", c), TRUE)
    BY <1>4 DEF openDetail
  <2> HIDE DEF p
  <2> QED
    BY <1>3, <2>1, <2>2, <2>3
<1>5. ASSUME CloseDetail \/ CancelConfirm \/ CancelEdit PROVE Goal
  <2> DEFINE p == [page EXCEPT !.detail = None]
             q == [page EXCEPT !.confirm = None]
             o == [page EXCEPT !.editTarget = None]
  <2>1. /\ Parts(p) /\ p.route = "connections" /\ Parts(q) /\ q.route = "connections"
        /\ Parts(o) /\ o.route = "connections"
    BY <1>1 DEF Parts
  <2>2. UserDoes(p) \/ UserDoes(q) \/ UserDoes(o)
    BY <1>5 DEF CloseDetail, CancelConfirm, CancelEdit
  <2> HIDE DEF p, q, o
  <2> QED
    BY <1>2, <2>1, <2>2
<1>6. ASSUME NEW c, handleDeleteConnection(c) PROVE Goal
  <2> DEFINE r == PageRequest("deleteConnection", c)
             p == [page EXCEPT !.confirm = r, !.pressed = FALSE]
  <2>1. Confirms(r)
    BY DEF PageRequest, Confirms
  <2>2. UserDoes(p)
    BY <1>6 DEF handleDeleteConnection
  <2> HIDE DEF r
  <2>3. Parts(p) /\ p.route = "connections"
    BY <1>1, <2>1 DEF Parts
  <2> HIDE DEF p
  <2> QED
    BY <1>2, <2>2, <2>3
<1>7. ASSUME NEW row, handleDeleteSession(row) \/ openEdit(row) PROVE Goal
  <2> DEFINE r == PageRequest("deleteSession", row.id)
             p == [page EXCEPT !.confirm = r, !.pressed = FALSE]
             q == [page EXCEPT !.editTarget = row, !.pressed = FALSE]
  <2>1. Confirms(r)
    BY DEF PageRequest, Confirms
  <2>2. UserDoes(p) \/ UserDoes(q)
    BY <1>7 DEF handleDeleteSession, openEdit
  <2> HIDE DEF r
  <2>3. Parts(p) /\ p.route = "connections" /\ Parts(q) /\ q.route = "connections"
    BY <1>1, <2>1 DEF Parts
  <2> HIDE DEF p, q
  <2> QED
    BY <1>2, <2>2, <2>3
<1>8. ASSUME onConfirm PROVE Goal
  <2> DEFINE p == [page EXCEPT !.pressed = TRUE]
  <2>1. Parts(p) /\ p.route = "connections"
    BY <1>1 DEF Parts
  <2>2. UserSends(p, page.confirm, page.exact) /\ page.confirm # None
    BY <1>8 DEF onConfirm
  <2>3. Sendable(page.confirm)
    BY <1>1, <2>2 DEF Parts, Confirms, Sendable, Changing
  <2> HIDE DEF p
  <2> QED
    BY <1>3, <2>1, <2>2, <2>3
<1>9. ASSUME handleNewSession PROVE Goal
  <2>1. Sendable(PageRequest("new", page.detail))
    BY DEF Sendable, PageRequest, Changing
  <2>2. UserSends(page, PageRequest("new", page.detail), page.exact)
    BY <1>9 DEF handleNewSession
  <2> QED
    BY <1>1, <1>3, <2>1, <2>2
<1>10. ASSUME NEW typed, saveEdit(typed) PROVE Goal
  <2> DEFINE p == [page EXCEPT !.pressed = TRUE]
             r == [PageRequest("edit", page.editTarget.id)
                      EXCEPT !.typed = typed, !.sent = PortToSend(typed)]
  <2>1. Parts(p) /\ p.route = "connections"
    BY <1>1 DEF Parts
  <2>2. UserSends(p, r, page.exact /\ typed # WrongPort)
    BY <1>10 DEF saveEdit
  <2>3. Sendable(r)
    BY DEF Sendable, PageRequest, Changing
  <2> HIDE DEF p, r
  <2> QED
    BY <1>3, <2>1, <2>2, <2>3
<1> QED
  BY <1>1, <1>4, <1>5, <1>6, <1>7, <1>8, <1>9, <1>10 DEF ConnectionsUser, Goal

LEMMA BaseConnectionsUser == ASSUME BaseInv, ConnectionsUser PROVE BaseInv'
<1>1. /\ page.route = "connections" /\ page'.route = page.route /\ Parts(page')
      /\ requests' = requests \/ \E r : Sendable(r) /\ requests' = Put(requests, r)
  BY ConnectionsUserFacts
<1>2. ASSUME NEW r, Sendable(r) PROVE Proper(r, page.route)
  BY <1>1, <1>2 DEF Sendable, Proper, IsLists, Changing
<1>3. CASE requests' = requests
  BY <1>1, <1>3 DEF BaseInv, RequestsProper
<1>4. CASE \E r : Sendable(r) /\ requests' = Put(requests, r)
  BY <1>1, <1>2, <1>4, BaseSends
<1> QED
  BY <1>1, <1>3, <1>4

(* A step of the page that sends nothing.                                  *)
LEMMA BaseTurns ==
    ASSUME BaseInv, Parts(page'), page'.route = page.route, requests' = requests
    PROVE  BaseInv'
BY DEF BaseInv, RequestsProper

LEMMA BaseSessionsUser ==
    ASSUME BaseInv, SessionsUser
    PROVE  BaseInv' /\ page.route = "sessions" /\ page'.route = "sessions"
<1>1. page.route = "sessions" /\ Parts(page)
  BY DEF BaseInv, SessionsUser, OnSessions, On
<1>2. \/ \E selection : Select(selection) /\ requests' = requests
      \/ \E order : page' = [page EXCEPT !.order = order] /\ requests' = requests
  <2>1. ASSUME NEW c, ChooseConnection(c)
        PROVE  \E selection : Select(selection) /\ requests' = requests
    BY <2>1 DEF ChooseConnection
  <2>2. ASSUME NEW x, ChooseSession(x)
        PROVE  \E selection : Select(selection) /\ requests' = requests
    BY <2>2 DEF ChooseSession
  <2>3. ASSUME NEW order, SetOrder(order)
        PROVE  \E o : page' = [page EXCEPT !.order = o] /\ requests' = requests
    BY <2>3 DEF SetOrder
  <2>4. ASSUME NEW key, toggleColumn(key)
        PROVE  \E o : page' = [page EXCEPT !.order = o] /\ requests' = requests
    BY <2>3, <2>4 DEF toggleColumn
  <2>5. ASSUME NEW i, NEW j, moveColumn(i, j)
        PROVE  \E o : page' = [page EXCEPT !.order = o] /\ requests' = requests
    BY <2>3, <2>5 DEF moveColumn
  <2> QED
    BY <2>1, <2>2, <2>4, <2>5 DEF SessionsUser
<1>3. Parts(page') /\ page'.route = "sessions" /\ requests' = requests
  BY <1>1, <1>2 DEF Select, Parts
<1> QED
  BY <1>1, <1>3, BaseTurns

(* A click on the settings, or on the switch of any page.                  *)
LEMMA BaseSettingsUser ==
    ASSUME BaseInv, SettingsUser
    PROVE  BaseInv' /\ page'.route = page.route /\ (~OnSettings => page' = page)
<1>1. Parts(page)
  BY DEF BaseInv
<1>2. ASSUME NEW kind \in {"save", "dark"}, NEW body, NEW touched, NEW knows, page' = page,
             SendSave([SettingsRequest(kind, body) EXCEPT !.touched = touched, !.fresh = knows])
      PROVE  BaseInv'
  <2> DEFINE r == [SettingsRequest(kind, body) EXCEPT !.touched = touched, !.fresh = knows]
  <2>1. Proper(r, page.route)
    BY DEF Proper, SettingsRequest, IsLists, Changing
  <2>2. requests' = Put(requests, r)
    BY <1>2 DEF SendSave
  <2> HIDE DEF r
  <2> QED
    BY <1>1, <1>2, <2>1, <2>2, BaseSends
<1>3. ASSUME ToggleDark PROVE BaseInv' /\ page' = page
  BY <1>2, <1>3 DEF ToggleDark
<1>4. ASSUME onSave PROVE BaseInv' /\ page' = page
  BY <1>2, <1>4 DEF onSave
<1>5. ASSUME NEW f, NEW v, OnSettings, EditForm(f, v)
      PROVE  BaseInv' /\ page'.route = page.route
  <2>1. page' = [page EXCEPT !.form[f] = v, !.edited = @ \cup {f}] /\ requests' = requests
    BY <1>5 DEF EditForm
  <2>2. Parts(page') /\ page'.route = page.route
    BY <1>1, <1>5, <2>1 DEF Parts, OnSettings, On
  <2> QED
    BY <2>1, <2>2, BaseTurns
<1> QED
  BY <1>3, <1>4, <1>5 DEF SettingsUser

LEMMA BaseTimer ==
    ASSUME BaseInv, Timer
    PROVE  BaseInv' /\ page' = page
<1>1. Parts(page)
  BY DEF BaseInv
<1>2. ASSUME HomeTimer PROVE BaseInv' /\ page' = page
  <2>1. Proper(LoadRequest(page), page.route)
    BY <1>2 DEF LoadRequest, Proper, IsLists, Changing, HomeTimer, OnHome, On
  <2> QED
    BY <1>1, <1>2, <2>1, BaseSends DEF HomeTimer
<1>3. ASSUME ListTimer PROVE BaseInv' /\ page' = page
  <2>1. Proper(refresh, page.route)
    BY <1>3 DEF refresh, PageRequest, Proper, IsLists, Changing, ListTimer, OnConnections, On
  <2> QED
    BY <1>1, <1>3, <2>1, BaseSends DEF ListTimer
<1>4. ASSUME SessionsTimer PROVE BaseInv' /\ page' = page
  <2>1. Proper(ListsRequest("lists"), page.route)
    BY <1>4 DEF ListsRequest, Proper, IsLists, Changing, SessionsTimer, OnSessions, On
  <2> QED
    BY <1>1, <1>4, <2>1, BaseSends DEF SessionsTimer
<1> QED
  BY <1>2, <1>3, <1>4 DEF Timer

-----------------------------------------------------------------------------
(* The server.                                                             *)

LEMMA ServeConnectionsFacts ==
    ASSUME NEW k \in Slots, ServeConnections(k)
    PROVE  /\ requests[k] # None /\ requests[k].status = "sent" /\ page' = page
           /\ requests[k].kind \in Changing \cup {"list"}
           /\ \E a : requests' \in {Answers(k, a), Refuses(k)}
<1> DEFINE r == requests[k]
           Done == \E a : requests' \in {Answers(k, a), Refuses(k)}
<1>1. ASSUME NEW there, NEW answer, NEW effect, Change(k, there, answer, effect) PROVE Done
  BY <1>1 DEF Change
<1>2. ASSUME ServeReads(k, r) PROVE Done /\ r.kind \in {"list", "detail"}
  BY <1>2 DEF ServeReads
<1>3. ASSUME ServeChanges(k, r) PROVE Done /\ r.kind \in Changing
  <2>1. CASE \/ r.kind = "deleteConnection"
                /\ Change(k, r.id \in known, TRUE, DeleteConnection(r.id))
             \/ r.kind = "deleteSession"
                /\ Change(k, r.id \in stored, TRUE, DeleteSession(r.id))
             \/ r.kind = "edit"
                /\ Change(k, r.id \in stored, TRUE, UpdateSession(r.id, r.sent))
    BY <1>1, <2>1 DEF Changing
  <2>2. CASE r.kind = "new"
    BY <1>1, <1>3, <2>2 DEF ServeChanges, Changing
  <2> QED
    BY <1>3, <2>1, <2>2 DEF ServeChanges
<1> HIDE DEF r, Done
<1> QED
  BY <1>2, <1>3 DEF ServeConnections, Waiting, Changing, r, Done

(* A request with the same kind and mark is as proper.                     *)
LEMMA ProperLike ==
    ASSUME NEW r, NEW q, NEW route, Proper(r, route),
           {"kind", "status", "mounted", "answer"} \subseteq DOMAIN q,
           q.kind = r.kind, q.mounted = r.mounted
    PROVE  Proper(q, route)
BY DEF Proper, IsLists

LEMMA ServeListsFacts ==
    ASSUME BaseInv, NEW k \in Slots, ServeLists(k)
    PROVE  /\ requests[k] # None /\ requests[k].status = "sent" /\ IsLists(requests[k])
           /\ \E served \in {[requests[k] EXCEPT !.connections = known],
                             [requests[k] EXCEPT !.sessions = stored]} :
                requests' = [requests EXCEPT ![k] = [served EXCEPT !.status =
                    IF None \in {served.connections, served.sessions} THEN "sent" ELSE "ok"]]
BY DEF ServeLists, Waiting, IsLists

LEMMA BaseServe ==
    ASSUME BaseInv, NEW k \in Slots, Serve(k)
    PROVE  BaseInv' /\ requests[k] # None /\ requests[k].status = "sent"
           /\ (page' = page \/ \E f : WriteSetting(k, f))
<1> DEFINE r == requests[k]
<1>1. Parts(page) /\ DOMAIN requests = Slots /\ (r # None => Proper(r, page.route))
  BY DEF BaseInv, RequestsProper
<1>2. ASSUME ServeOverview(k) PROVE BaseInv' /\ r # None /\ r.status = "sent" /\ page' = page
  BY <1>2, BaseServed DEF ServeOverview, Waiting
<1>3. ASSUME ServeConnections(k)
      PROVE  BaseInv' /\ r # None /\ r.status = "sent" /\ page' = page
  BY <1>3, ServeConnectionsFacts, BaseServed
<1>4. ASSUME ServeLists(k), page' = page
      PROVE  BaseInv' /\ r # None /\ r.status = "sent" /\ page' = page
  <2>1. r # None /\ r.status = "sent"
    BY <1>4, ServeListsFacts
  <2>2. PICK served \in {[r EXCEPT !.connections = known], [r EXCEPT !.sessions = stored]} :
            requests' = [requests EXCEPT ![k] = [served EXCEPT !.status =
                    IF None \in {served.connections, served.sessions} THEN "sent" ELSE "ok"]]
    BY <1>4, ServeListsFacts
  <2> DEFINE s == IF None \in {served.connections, served.sessions} THEN "sent" ELSE "ok"
             q == [served EXCEPT !.status = s]
  <2> HIDE DEF r
  <2>3. /\ {"kind", "status", "mounted", "answer"} \subseteq DOMAIN q
        /\ q.kind = r.kind /\ q.mounted = r.mounted
    BY <1>1, <2>1 DEF Proper
  <2>4. Proper(q, page.route)
    BY <1>1, <2>1, <2>3, ProperLike
  <2> HIDE DEF q
  <2> USE DEF r
  <2> QED
    BY <1>1, <1>4, <2>1, <2>2, <2>4, BaseOne DEF q
<1>5. ASSUME ServeSettings(k) PROVE BaseInv' /\ r # None /\ r.status = "sent" /\ page' = page
  <2>1. r # None /\ r.status = "sent" /\ page' = page
    BY <1>5 DEF ServeSettings, Waiting
  <2>2. CASE requests' = Refuses(k)
    BY <2>1, <2>2, BaseServed
  <2>3. CASE requests' = [Answers(k, settings) EXCEPT ![k].fresh = (Writing = {})]
    <3> DEFINE current == Writing = {}
               q == [r EXCEPT !.status = "ok", !.answer = settings, !.fresh = current]
    <3>1. requests' = [requests EXCEPT ![k] = q]
      BY <1>1, <2>3 DEF Answers
    <3> HIDE DEF r, current
    <3>2. /\ {"kind", "status", "mounted", "answer"} \subseteq DOMAIN q
          /\ q.kind = r.kind /\ q.mounted = r.mounted
      BY <1>1, <2>1 DEF Proper
    <3>3. Proper(q, page.route)
      BY <1>1, <2>1, <3>2, ProperLike
    <3> HIDE DEF q
    <3> QED
      BY <1>1, <2>1, <3>1, <3>3, BaseOne
  <2> QED
    BY <1>5, <2>1, <2>2, <2>3 DEF ServeSettings
<1>6. ASSUME RefuseSave(k) PROVE BaseInv' /\ r # None /\ r.status = "sent" /\ page' = page
  BY <1>6, BaseServed DEF RefuseSave, Waiting
<1>7. ASSUME NEW f, WriteSetting(k, f) PROVE BaseInv' /\ r # None /\ r.status = "sent"
  <2>1. /\ r # None /\ r.status = "sent"
        /\ page' = IF OnSettings /\ ~r.fresh THEN [page EXCEPT !.fresh = FALSE] ELSE page
    BY <1>7 DEF WriteSetting, Waiting
  <2>2. Parts(page') /\ page'.route = page.route
    BY <1>1, <2>1 DEF Parts, OnSettings, On
  <2>3. PICK kinds :
            LET written == [Outdated(kinds) EXCEPT ![k] = [r EXCEPT !.done = @ \cup {f}]]
            IN  requests' = IF written[k].done = DOMAIN r.body
                            THEN [written EXCEPT ![k].status = "ok"] ELSE written
    BY <1>7 DEF WriteSetting
  <2> DEFINE one == [r EXCEPT !.done = @ \cup {f}]
             done == [one EXCEPT !.status = "ok"]
  <2>4. /\ DOMAIN requests' = Slots /\ requests'[k] \in {one, done}
        /\ \A t \in Slots : t # k => requests'[t] = Outdated(kinds)[t]
    BY <2>3 DEF Outdated
  <2>5. Proper(one, page.route) /\ Proper(done, page.route)
    <3> HIDE DEF r
    <3> QED
      BY <1>1, <2>1 DEF Proper, IsLists
  <2>6. ASSUME NEW t \in Slots, requests[t] # None
        PROVE  Proper(Outdated(kinds)[t], page.route)
    <3> DEFINE o == requests[t]
               q == [o EXCEPT !.fresh = FALSE]
    <3>1. Proper(o, page.route) /\ Outdated(kinds)[t] \in {o, q}
      BY <2>6 DEF BaseInv, RequestsProper, Outdated
    <3>2. Proper(q, page.route)
      <4> HIDE DEF o
      <4> QED
        BY <3>1 DEF Proper, IsLists
    <3> QED
      BY <3>1, <3>2
  <2>7. \A t \in Slots : requests[t] = None => Outdated(kinds)[t] = None
    BY DEF Outdated
  <2> HIDE DEF one, done
  <2> QED
    BY <2>1, <2>2, <2>4, <2>5, <2>6, <2>7, BaseStep
<1> HIDE DEF r
<1> QED
  BY <1>2, <1>3, <1>4, <1>5, <1>6, <1>7 DEF Serve, r, PickerStep

-----------------------------------------------------------------------------
(* The callbacks.                                                          *)

(* A callback ends with an empty slot.                                     *)
LEMMA BaseDrops ==
    ASSUME BaseInv, Parts(page'), page'.route = page.route, NEW k \in Slots,
           requests' = [requests EXCEPT ![k] = None]
    PROVE  BaseInv'
<1>1. /\ DOMAIN requests' = Slots /\ requests'[k] = None
      /\ \A t \in Slots : t # k => requests'[t] = requests[t]
  BY DEF BaseInv, RequestsProper
<1> QED
  BY <1>1, BaseStep

LEMMA ConnectionsCallbackFacts ==
    ASSUME BaseInv, NEW k \in Slots, ConnectionsCallback(k)
    PROVE  /\ requests[k] # None /\ requests[k].status \in {"ok", "failed"}
           /\ requests[k].mounted /\ requests[k].kind \in Changing \cup {"list"}
           /\ page.route = "connections" /\ page'.route = "connections" /\ Parts(page')
           /\ \E next \in {None, refresh} : requests' = [requests EXCEPT ![k] = next]
<1> DEFINE r == requests[k]
<1>1. /\ r # None /\ r.status \in {"ok", "failed"} /\ r.mounted
      /\ \/ TakeList(k, r) \/ TakeDetail(k, r) \/ ConnectionDeleted(k, r)
         \/ SessionDeleted(k, r) \/ SessionCreated(k, r) \/ SessionEdited(k, r)
         \/ r.kind \in Changing \cup {"list"} /\ Failed(k, r)
  BY DEF ConnectionsCallback, Answered, Refused
<1>2. r.kind \in Changing \cup {"list"}
  BY <1>1 DEF TakeList, TakeDetail, ConnectionDeleted, SessionDeleted, SessionCreated,
     SessionEdited, Changing
<1>3. page.route = "connections" /\ Parts(page)
  BY <1>1, <1>2 DEF BaseInv, RequestsProper, Proper
<1> HIDE DEF r
<1>4. Parts(page') /\ page'.route = "connections"
  <2>1. CASE TakeList(k, r)
    BY <1>3, <2>1 DEF TakeList, Settles, Parts
  <2>2. CASE TakeDetail(k, r)
    BY <1>3, <2>2 DEF TakeDetail, Settles, Parts
  <2>3. CASE ConnectionDeleted(k, r)
    BY <1>3, <2>3 DEF ConnectionDeleted, Settles, Parts
  <2>4. CASE SessionDeleted(k, r)
    <3> DEFINE rows == {x \in page.detailSessions : x.id # r.id}
    <3>1. page' = [page EXCEPT !.detailSessions = rows, !.confirm = None]
      BY <2>4 DEF SessionDeleted, Settles
    <3> HIDE DEF rows
    <3> QED
      BY <1>3, <3>1 DEF Parts
  <2>5. CASE SessionCreated(k, r)
    <3> DEFINE rows == {r.answer} \cup {x \in page.detailSessions : x.id # r.answer.id}
    <3>1. page' = [page EXCEPT !.detailSessions = rows]
      BY <2>5 DEF SessionCreated, Settles
    <3> HIDE DEF rows
    <3> QED
      BY <1>3, <3>1 DEF Parts
  <2>6. CASE SessionEdited(k, r)
    <3> DEFINE rows == {IF x.id = r.id /\ r.typed # 0 THEN [x EXCEPT !.port = r.typed] ELSE x :
                            x \in page.detailSessions}
    <3>1. page' = [page EXCEPT !.detailSessions = rows, !.editTarget = None]
      BY <2>6 DEF SessionEdited, Settles
    <3> HIDE DEF rows
    <3> QED
      BY <1>3, <3>1 DEF Parts
  <2>7. CASE Failed(k, r)
    <3> DEFINE exact == page.exact /\ r.kind = "list"
    <3>1. page' = [page EXCEPT !.exact = exact,
                      !.confirm = IF r.kind \in {"deleteConnection", "deleteSession"}
                                  THEN None ELSE @,
                      !.editTarget = IF r.kind = "edit" THEN None ELSE @]
      BY <2>7 DEF Failed, Settles
    <3> HIDE DEF exact
    <3> QED
      BY <1>3, <3>1 DEF Parts
  <2> QED
    BY <1>1, <2>1, <2>2, <2>3, <2>4, <2>5, <2>6, <2>7
<1>5. \E next \in {None, refresh} : requests' = [requests EXCEPT ![k] = next]
  BY <1>1 DEF TakeList, TakeDetail, ConnectionDeleted, SessionDeleted, SessionCreated,
     SessionEdited, Failed, Settles
<1> QED
  BY <1>1, <1>2, <1>3, <1>4, <1>5 DEF r

LEMMA BaseCallback ==
    ASSUME BaseInv, NEW k \in Slots, Callback(k)
    PROVE  BaseInv' /\ page'.route = page.route
<1>1. Parts(page) /\ (requests[k] # None => Proper(requests[k], page.route))
  BY DEF BaseInv, RequestsProper
<1>2. ASSUME TakeOverview(k) \/ OverviewFailed(k) PROVE BaseInv' /\ page'.route = page.route
  <2>1. page.route = "home"
    BY <1>1, <1>2 DEF TakeOverview, OverviewFailed, Answered, Refused, Proper
  <2>2. Parts(page') /\ page'.route = page.route /\ requests' = [requests EXCEPT ![k] = None]
    BY <1>1, <1>2, <2>1 DEF TakeOverview, OverviewFailed, Dropped, Parts
  <2> QED
    BY <2>2, BaseDrops
<1>3. ASSUME ConnectionsCallback(k) PROVE BaseInv' /\ page'.route = page.route
  <2>1. /\ page.route = "connections" /\ page'.route = page.route /\ Parts(page')
        /\ \E next \in {None, refresh} : requests' = [requests EXCEPT ![k] = next]
    BY <1>3, ConnectionsCallbackFacts
  <2>2. Proper(refresh, page.route)
    BY <2>1 DEF refresh, PageRequest, Proper, IsLists
  <2> QED
    BY <2>1, <2>2, BaseOne, BaseDrops
<1>4. ASSUME TakeFirst(k) \/ TakeLists(k) \/ ListsFailed(k)
      PROVE  BaseInv' /\ page'.route = page.route
  <2>1. page.route = "sessions" /\ requests' = [requests EXCEPT ![k] = None]
    BY <1>1, <1>4 DEF TakeFirst, TakeLists, ListsFailed, Answered, Refused, Proper, IsLists, Dropped
  <2>2. ASSUME TakeFirst(k) PROVE Parts(page') /\ page'.route = page.route
    <3> DEFINE r == requests[k]
               lists == [page EXCEPT !.connections = r.connections, !.sessions = r.sessions]
    <3>1. Parts(lists) /\ lists.route = "sessions"
      BY <1>1, <2>1 DEF Parts
    <3>2. \/ page' = lists
          \/ \E selection, guessed :
                page' = [lists EXCEPT !.selected = selection, !.guessed = guessed]
      BY <2>2 DEF TakeFirst
    <3> HIDE DEF lists
    <3>3. CASE page' = lists
      BY <2>1, <3>1, <3>3
    <3>4. CASE \E selection, guessed :
                page' = [lists EXCEPT !.selected = selection, !.guessed = guessed]
      BY <2>1, <3>1, <3>4 DEF Parts
    <3> QED
      BY <3>2, <3>3, <3>4
  <2>3. ASSUME TakeLists(k) \/ ListsFailed(k) PROVE Parts(page') /\ page'.route = page.route
    BY <1>1, <2>1, <2>3 DEF TakeLists, ListsFailed, Parts
  <2> QED
    BY <1>4, <2>1, <2>2, <2>3, BaseDrops
<1>5. ASSUME TakeSettings(k) PROVE BaseInv' /\ page'.route = page.route
  <2>1. page.route = "settings" /\ requests' = [requests EXCEPT ![k] = None]
    BY <1>1, <1>5 DEF TakeSettings, Answered, Proper, Dropped
  <2>2. Parts(page') /\ page'.route = page.route
    BY <1>1, <1>5, <2>1 DEF TakeSettings, Parts
  <2> QED
    BY <2>1, <2>2, BaseDrops
<1>6. ASSUME TakeAppSettings(k) \/ SettingsIgnored(k) \/ Unheard(k)
      PROVE  BaseInv' /\ page'.route = page.route
  <2>1. page' = page /\ requests' = [requests EXCEPT ![k] = None]
    BY <1>6 DEF TakeAppSettings, SettingsIgnored, Unheard, Dropped
  <2> QED
    BY <1>1, <2>1, BaseDrops
<1>7. ASSUME Saved(k) PROVE BaseInv' /\ page'.route = page.route
  <2> DEFINE app == [SettingsRequest("app", NoBody) EXCEPT !.key = NewKey(requests[k])]
  <2>1. page' = page /\ \E next \in {None, app} : requests' = [requests EXCEPT ![k] = next]
    BY <1>7 DEF Saved, Dropped
  <2>2. app.kind = "app" /\ Proper(app, page.route)
    BY DEF SettingsRequest, Proper, IsLists, Changing
  <2> HIDE DEF app
  <2> QED
    BY <1>1, <2>1, <2>2, BaseOne, BaseDrops
<1> QED
  BY <1>2, <1>3, <1>4, <1>5, <1>6, <1>7 DEF Callback

LEMMA BaseFail == ASSUME BaseInv, NEW k \in Slots, Fail(k) PROVE BaseInv'
BY BaseServed DEF Fail

-----------------------------------------------------------------------------
(* From page to page, and what others do.                                  *)

LEMMA AbandonedFacts ==
    ASSUME BaseInv, NEW heard, heard \subseteq {"save", "dark", "app"}, NEW k \in Slots
    PROVE  /\ DOMAIN Abandoned(heard) = Slots
           /\ \/ Abandoned(heard)[k] = None
              \/ /\ requests[k] # None
                 /\ \/ Abandoned(heard)[k] = requests[k] /\ requests[k].kind \in heard
                    \/ /\ Abandoned(heard)[k] = [requests[k] EXCEPT !.mounted = FALSE]
                       /\ requests[k].kind \in (Changing \ {"detail"}) \cup {"save", "dark"}
                       /\ requests[k].kind \notin heard
BY DEF Abandoned

LEMMA AbandonedProper ==
    ASSUME BaseInv, NEW heard, heard \subseteq {"save", "dark", "app"}, NEW k \in Slots,
           NEW route
    PROVE  Abandoned(heard)[k] = None \/ Proper(Abandoned(heard)[k], route)
<1> DEFINE r == requests[k]
<1>1. r # None => Proper(r, page.route)
  BY DEF BaseInv, RequestsProper
<1>2. CASE Abandoned(heard)[k] = None
  BY <1>2
<1>3. CASE r # None /\ Abandoned(heard)[k] = r /\ r.kind \in heard
  BY <1>1, <1>3 DEF Proper, IsLists, Changing
<1>4. CASE /\ r # None /\ Abandoned(heard)[k] = [r EXCEPT !.mounted = FALSE]
           /\ r.kind \in (Changing \ {"detail"}) \cup {"save", "dark"}
  <2> HIDE DEF r
  <2> QED
    BY <1>1, <1>4 DEF Proper, IsLists, Changing
<1> QED
  BY <1>2, <1>3, <1>4, AbandonedFacts

(* A page is mounted; its first request is its own.                        *)
LEMMA MountFacts ==
    ASSUME NEW route, NEW used, Mount(route, used)
    PROVE  /\ Parts(page') /\ page'.route = route /\ route \in Routes
           /\ \E r : Proper(r, route) /\ requests' = Put(used, r)
                     /\ r.kind \in {"overview", "list", "first", "form"}
<1>1. CASE route = "home" /\ page' = MountedHome
           /\ requests' = Put(used, LoadRequest(MountedHome))
  BY <1>1 DEF MountedHome, Parts, Routes, LoadRequest, Proper, IsLists, Changing
<1>2. CASE route = "connections" /\ page' = MountedConnections
           /\ requests' = Put(used, refresh)
  BY <1>2 DEF MountedConnections, Parts, Routes, refresh, PageRequest, Proper, IsLists, Changing
<1>3. CASE route = "sessions" /\ MountSessions(Nothing, Nothing, used)
  BY <1>3 DEF MountSessions, MountedSessions, Parts, Routes, ListsRequest, Proper, IsLists, Changing
<1>4. CASE route = "settings" /\ page' = MountedSettings
           /\ requests' = Put(used, SettingsRequest("form", NoBody))
  BY <1>4 DEF MountedSettings, Parts, Routes, SettingsRequest, Proper, IsLists, Changing
<1> QED
  BY <1>1, <1>2, <1>3, <1>4 DEF Mount

LEMMA BaseNavigate == ASSUME BaseInv, NEW route, Navigate(route) PROVE BaseInv'
<1> DEFINE left == Abandoned({"save", "dark", "app"})
<1>1. Mount(route, left)
  BY DEF Navigate
<1>2. DOMAIN left = Slots /\ \A k \in Slots : left[k] = None \/ Proper(left[k], route)
  BY AbandonedProper DEF Abandoned
<1> HIDE DEF left
<1>3. Parts(page') /\ page'.route = route
  BY <1>1, MountFacts
<1>4. PICK r : Proper(r, route) /\ requests' = Put(left, r)
  BY <1>1, MountFacts
<1>5. DOMAIN requests' = Slots /\ \A k \in Slots : requests'[k] \in {left[k], r}
  BY <1>2, <1>4, PutAnywhere
<1>6. \A k \in Slots : requests'[k] = None \/ Proper(requests'[k], page'.route)
  BY <1>2, <1>3, <1>4, <1>5
<1> QED
  BY <1>3, <1>5, <1>6, BaseStep

LEMMA BaseReload == ASSUME BaseInv, Reload PROVE BaseInv'
<1> DEFINE left == Abandoned({})
           app == SettingsRequest("app", NoBody)
           first == ListsRequest("first")
<1>1. DOMAIN left = Slots /\ \A k \in Slots : left[k] = None \/ Proper(left[k], "sessions")
  <2>1. {} \subseteq {"save", "dark", "app"}
    OBVIOUS
  <2>2. \A k \in Slots : Abandoned({})[k] = None \/ Proper(Abandoned({})[k], "sessions")
    BY <2>1, AbandonedProper, Zenon
  <2> QED
    BY <2>1, <2>2 DEF Abandoned
<1>2. Proper(app, "sessions") /\ Proper(first, "sessions")
  BY DEF SettingsRequest, ListsRequest, Proper, IsLists, Changing
<1>3. /\ page' = MountedSessions(address, page.selected)
      /\ requests' = Put(Put(left, app), first)
  BY DEF Reload, MountSessions
<1>4. Parts(page') /\ page'.route = "sessions"
  BY <1>3 DEF MountedSessions, Parts
<1> HIDE DEF left, app, first
<1>5. DOMAIN requests' = Slots /\ \A k \in Slots : requests'[k] \in {left[k], app, first}
  BY <1>1, <1>3, PutAnywhere
<1>6. \A k \in Slots : requests'[k] = None \/ Proper(requests'[k], page'.route)
  BY <1>1, <1>2, <1>4, <1>5
<1> QED
  BY <1>4, <1>5, <1>6, BaseStep

LEMMA BaseInterfere ==
    ASSUME BaseInv, Interfere
    PROVE  BaseInv' /\ page'.route = page.route
<1>1. page' = (IF OnConnections THEN [page EXCEPT !.exact = FALSE] ELSE page)
      /\ requests' = requests
  BY DEF Interfere
<1>2. Parts(page') /\ page'.route = page.route
  BY <1>1 DEF BaseInv, Parts, OnConnections, On
<1> QED
  BY <1>1, <1>2, BaseTurns

(* What a request knows of the settings is marked as old.                  *)
LEMMA OutdatedFacts ==
    ASSUME BaseInv, NEW kinds, NEW k \in Slots
    PROVE  /\ DOMAIN Outdated(kinds) = Slots
           /\ Outdated(kinds)[k] \in {requests[k], [requests[k] EXCEPT !.fresh = FALSE]}
           /\ requests[k] = None => Outdated(kinds)[k] = None
BY DEF Outdated

LEMMA OutdatedProper ==
    ASSUME BaseInv, NEW kinds, NEW k \in Slots
    PROVE  requests[k] = None \/ Proper(Outdated(kinds)[k], page.route)
<1> DEFINE r == requests[k]
<1>1. r # None => Proper(r, page.route)
  BY DEF BaseInv, RequestsProper
<1>2. Outdated(kinds)[k] \in {r, [r EXCEPT !.fresh = FALSE]}
  BY OutdatedFacts
<1> HIDE DEF r
<1>3. r # None => Proper([r EXCEPT !.fresh = FALSE], page.route)
  BY <1>1 DEF Proper, IsLists
<1> QED
  BY <1>1, <1>2, <1>3 DEF r

LEMMA BaseInterfereSettings ==
    ASSUME BaseInv, InterfereSettings
    PROVE  BaseInv' /\ page'.route = page.route
<1>1. page' = (IF OnSettings THEN [page EXCEPT !.fresh = FALSE] ELSE page)
      /\ requests' = Outdated({"form", "save"})
  BY DEF InterfereSettings, WriteElsewhere
<1>2. Parts(page') /\ page'.route = page.route
  BY <1>1 DEF BaseInv, Parts, OnSettings, On
<1>3. DOMAIN requests' = Slots
      /\ \A k \in Slots : requests'[k] = None \/ Proper(requests'[k], page.route)
  BY <1>1, OutdatedFacts, OutdatedProper DEF Outdated
<1> QED
  BY <1>2, <1>3, BaseStep

LEMMA BaseNext == BaseInv /\ [Next]_vars => BaseInv'
<1> SUFFICES ASSUME BaseInv, [Next]_vars PROVE BaseInv'
  OBVIOUS
<1>1. CASE UNCHANGED vars
  BY <1>1 DEF vars, browser, BaseInv, RequestsProper
<1>2. CASE User
  BY <1>2, BaseHomeUser, BaseConnectionsUser, BaseSessionsUser, BaseSettingsUser DEF User
<1>3. CASE \E k \in Slots : Serve(k) \/ Callback(k) \/ Fail(k)
  BY <1>3, BaseServe, BaseCallback, BaseFail
<1>4. CASE \E route \in Routes : Navigate(route)
  BY <1>4, BaseNavigate
<1> QED
  BY <1>1, <1>2, <1>3, <1>4, BaseReload, BaseTimer, BaseInterfere, BaseInterfereSettings
     DEF Next

LEMMA BaseInit == Init => BaseInv
<1> SUFFICES ASSUME Init PROVE BaseInv
  OBVIOUS
<1>1. /\ Parts(page)
      /\ \E r : Proper(r, page.route) /\ requests = Put(Nobody, r)
  <2>1. CASE page = MountedHome /\ requests = Put(Nobody, LoadRequest(MountedHome))
    BY <2>1 DEF MountedHome, Parts, LoadRequest, Proper, IsLists, Changing
  <2>2. CASE page = MountedConnections /\ requests = Put(Nobody, refresh)
    BY <2>2 DEF MountedConnections, Parts, refresh, PageRequest, Proper, IsLists, Changing
  <2>3. CASE /\ page = MountedSessions(Nothing, Nothing)
             /\ requests = Put(Nobody, ListsRequest("first"))
    BY <2>3 DEF MountedSessions, Parts, ListsRequest, Proper, IsLists, Changing
  <2>4. CASE page = MountedSettings /\ requests = Put(Nobody, SettingsRequest("form", NoBody))
    BY <2>4 DEF MountedSettings, Parts, SettingsRequest, Proper, IsLists, Changing
  <2> QED
    BY <2>1, <2>2, <2>3, <2>4 DEF Init
<1>2. DOMAIN Nobody = Slots /\ \A k \in Slots : Nobody[k] = None
  BY DEF Nobody
<1> QED
  BY <1>1, <1>2, PutAnywhere DEF BaseInv, RequestsProper

LEMMA BaseInvHolds == Spec => []BaseInv
BY BaseInit, BaseNext, PTL DEF Spec

-----------------------------------------------------------------------------
(* The selection on the page of the messages.                              *)

(* What the server has answered so far to a request for the lists.         *)
ListsOK(r) ==
    /\ {"connections", "sessions"} \subseteq DOMAIN r
    /\ r.sessions = None \/ r.sessions \in SUBSET Sessions
    /\ r.status = "ok" => r.sessions # None

ListsRequestsOK ==
    \A k \in Slots : requests[k] # None /\ IsLists(requests[k]) => ListsOK(requests[k])

(* The address is written with every selection, and a reload reads it.     *)
AddressInStep ==
    OnSessions =>
        /\ address = page.selected /\ DOMAIN page.selected = {"connection", "session"}
        /\ page.before = Nothing \/ page.before.session = page.entry.session

SessionsKnown == stored \subseteq Sessions /\ fresh \subseteq Sessions

PickerInv == ListsRequestsOK /\ SessionsKnown /\ AddressInStep /\ SelectionFits

(* A step that leaves the selection as it is.                              *)
SelectionKept ==
    page'.route = "sessions" =>
        /\ page.route = "sessions" /\ address' = address
        /\ page'.selected = page.selected /\ page'.guessed = page.guessed
        /\ page'.entry = page.entry /\ page'.before = page.before

ListsKept ==
    \A k \in Slots : \/ requests'[k] = None
                     \/ requests'[k] = requests[k]
                     \/ ~IsLists(requests'[k])
                     \/ ListsOK(requests'[k])

LEMMA PickerStepInv ==
    ASSUME PickerInv, SelectionKept, ListsKept, SessionsKnown'
    PROVE  PickerInv'
<1>1. ListsRequestsOK'
  BY DEF PickerInv, ListsKept, ListsRequestsOK
<1>2. AddressInStep' /\ SelectionFits'
  BY DEF PickerInv, SelectionKept, AddressInStep, SelectionFits, OnSessions, On
<1> QED
  BY <1>1, <1>2 DEF PickerInv

LEMMA ServerKeeps == ASSUME PickerInv, UNCHANGED server PROVE SessionsKnown'
BY DEF PickerInv, SessionsKnown, server

LEMMA ListsSend ==
    ASSUME BaseInv, NEW r, requests' \in {requests, Put(requests, r)}, ~IsLists(r) \/ ListsOK(r)
    PROVE  ListsKept
<1>1. \A k \in Slots : requests'[k] \in {requests[k], r}
  BY PutAnywhere DEF BaseInv, RequestsProper
<1> QED
  BY <1>1 DEF ListsKept

LEMMA ListsOne ==
    ASSUME BaseInv, NEW k \in Slots, NEW r, requests' = [requests EXCEPT ![k] = r],
           r = None \/ ~IsLists(r) \/ ListsOK(r)
    PROVE  ListsKept
<1>1. requests'[k] = r /\ \A t \in Slots : t # k => requests'[t] = requests[t]
  BY DEF BaseInv, RequestsProper
<1> QED
  BY <1>1 DEF ListsKept

LEMMA PickerUser == ASSUME BaseInv, BaseInv', PickerInv, User PROVE PickerInv'
<1>1. ASSUME HomeUser \/ ConnectionsUser, HomeStep PROVE PickerInv'
  <2>1. page.route # "sessions" /\ page'.route = page.route /\ ListsKept
    <3>1. CASE HomeUser
      <4>1. /\ page.route = "home" /\ page'.route = "home"
            /\ requests' \in {requests, Put(requests, LoadRequest(page'))}
        BY <3>1, HomeUserFacts DEF BaseInv, Parts
      <4>2. ~IsLists(LoadRequest(page'))
        BY DEF LoadRequest, IsLists
      <4> QED
        BY <4>1, <4>2, ListsSend
    <3>2. CASE ConnectionsUser
      <4>1. /\ page.route = "connections" /\ page'.route = "connections"
            /\ requests' = requests \/ \E r : Sendable(r) /\ requests' = Put(requests, r)
        BY <3>2, ConnectionsUserFacts
      <4>2. \A r : Sendable(r) => ~IsLists(r)
        BY DEF Sendable, IsLists, Changing
      <4>3. CASE requests' = requests
        BY <4>1, <4>3 DEF ListsKept
      <4>4. CASE \E r : Sendable(r) /\ requests' = Put(requests, r)
        BY <4>1, <4>2, <4>4, ListsSend
      <4> QED
        BY <4>1, <4>3, <4>4
    <3> QED
      BY <1>1, <3>1, <3>2
  <2>2. SessionsKnown'
    BY <1>1, ServerKeeps DEF HomeStep
  <2> QED
    BY <2>1, <2>2, PickerStepInv DEF SelectionKept
<1>2. ASSUME SessionsUser, PickerStep PROVE PickerInv'
  <2>1. page.route = "sessions" /\ page'.route = "sessions" /\ requests' = requests
    BY <1>2, BaseSessionsUser DEF SessionsUser, ChooseConnection, ChooseSession, SetOrder,
       toggleColumn, moveColumn
  <2>2. SessionsKnown' /\ ListsRequestsOK'
    BY <1>2, <2>1, ServerKeeps DEF PickerStep, PickerInv, ListsRequestsOK
  <2>3. {"selected", "guessed", "entry", "before"} \subseteq DOMAIN page
    BY <2>1 DEF BaseInv, Parts
  <2>4. ASSUME NEW selection, Select(selection),
               DOMAIN selection = {"connection", "session"},
               \/ None \in {selection.connection, selection.session}
               \/ ConnectionOf[selection.session] = selection.connection
        PROVE  AddressInStep' /\ SelectionFits'
    BY <2>1, <2>3, <2>4 DEF Select, AddressInStep, SelectionFits
  <2>5. ASSUME NEW c, ChooseConnection(c) PROVE AddressInStep' /\ SelectionFits'
    <3>1. PICK s : /\ s = None \/ ConnectionOf[s] = c
                   /\ Select([connection |-> c, session |-> s])
      BY <2>5 DEF ChooseConnection
    <3> QED
      BY <2>4, <3>1
  <2>6. ASSUME NEW s \in Offered \cup {None}, ChooseSession(s)
        PROVE  AddressInStep' /\ SelectionFits'
    <3> DEFINE selection == [page.selected EXCEPT !.session = s]
    <3>1. Select(selection)
      BY <2>6 DEF ChooseSession
    <3>2. /\ DOMAIN selection = {"connection", "session"} /\ selection.session = s
          /\ selection.connection = page.selected.connection
      BY <2>1 DEF PickerInv, AddressInStep, OnSessions, On
    <3>3. \/ None \in {selection.connection, selection.session}
          \/ ConnectionOf[selection.session] = selection.connection
      BY <2>6, <3>2 DEF Offered
    <3> HIDE DEF selection
    <3> QED
      BY <2>4, <3>1, <3>2, <3>3
  <2>7. ASSUME NEW order, SetOrder(order) PROVE AddressInStep' /\ SelectionFits'
    <3>1. SelectionKept
      BY <2>1, <2>3, <2>7 DEF SetOrder, SelectionKept
    <3>2. ListsKept
      BY <2>1 DEF ListsKept
    <3> QED
      BY <2>2, <3>1, <3>2, PickerStepInv DEF PickerInv
  <2>8. AddressInStep' /\ SelectionFits'
    BY <1>2, <2>5, <2>6, <2>7 DEF SessionsUser, toggleColumn, moveColumn
  <2> QED
    BY <2>2, <2>8 DEF PickerInv
<1>3. ASSUME SettingsUser, SettingsStep PROVE PickerInv'
  <2>1. page'.route = page.route /\ (page.route = "sessions" => page' = page)
    BY <1>3, BaseSettingsUser DEF OnSettings, On
  <2>2. ASSUME NEW kind \in {"save", "dark"}, NEW body, NEW touched, NEW knows,
               SendSave([SettingsRequest(kind, body)
                            EXCEPT !.touched = touched, !.fresh = knows])
        PROVE  ListsKept
    <3> DEFINE r == [SettingsRequest(kind, body) EXCEPT !.touched = touched, !.fresh = knows]
    <3>1. ~IsLists(r)
      BY DEF SettingsRequest, IsLists
    <3>2. requests' = Put(requests, r)
      BY <2>2 DEF SendSave
    <3> HIDE DEF r
    <3> QED
      BY <3>1, <3>2, ListsSend
  <2>3. ListsKept
    <3>1. CASE ToggleDark
      BY <2>2, <3>1 DEF ToggleDark
    <3>2. CASE onSave
      BY <2>2, <3>2 DEF onSave
    <3>3. CASE \E f, v : EditForm(f, v)
      BY <3>3 DEF EditForm, ListsKept
    <3> QED
      BY <1>3, <3>1, <3>2, <3>3 DEF SettingsUser
  <2>4. SelectionKept
    BY <1>3, <2>1 DEF SelectionKept, SettingsStep
  <2>5. SessionsKnown'
    BY <1>3, ServerKeeps DEF SettingsStep
  <2> QED
    BY <2>3, <2>4, <2>5, PickerStepInv
<1> QED
  BY <1>1, <1>2, <1>3 DEF User

LEMMA PickerSame ==
    ASSUME PickerInv, UNCHANGED <<page, address>>, ListsKept, SessionsKnown'
    PROVE  PickerInv'
BY PickerStepInv DEF SelectionKept

LEMMA PickerTimer == ASSUME BaseInv, PickerInv, Timer PROVE PickerInv'
<1>1. ListsKept
  <2>1. ~IsLists(LoadRequest(page)) /\ ~IsLists(refresh)
    BY DEF LoadRequest, refresh, PageRequest, IsLists
  <2>2. ListsOK(ListsRequest("lists"))
    BY DEF ListsRequest, ListsOK
  <2>3. \/ requests' = Put(requests, LoadRequest(page))
        \/ requests' = Put(requests, refresh)
        \/ requests' = Put(requests, ListsRequest("lists"))
    BY DEF Timer, HomeTimer, ListTimer, SessionsTimer
  <2> QED
    BY <2>1, <2>2, <2>3, ListsSend
<1>2. UNCHANGED <<page, address, server>>
  BY DEF Timer, HomeTimer, ListTimer, SessionsTimer, HomeStep, PickerStep
<1> QED
  BY <1>1, <1>2, PickerSame, ServerKeeps

(* A request for something else is answered.                               *)
LEMMA ListsServed ==
    ASSUME BaseInv, NEW k \in Slots, requests[k] # None, ~IsLists(requests[k]), NEW a,
           requests' \in {Answers(k, a), Refuses(k)}
    PROVE  ListsKept
<1> DEFINE r == requests[k]
           ok == [r EXCEPT !.status = "ok", !.answer = a]
           failed == [r EXCEPT !.status = "failed"]
<1>1. Proper(r, page.route) /\ DOMAIN requests = Slots
  BY DEF BaseInv, RequestsProper
<1>2. \/ requests' = [requests EXCEPT ![k] = ok]
      \/ requests' = [requests EXCEPT ![k] = failed]
  BY <1>1 DEF Answers, Refuses
<1>3. ~IsLists(r)
  OBVIOUS
<1>4. ~IsLists(ok) /\ ~IsLists(failed)
  <2> HIDE DEF r
  <2> QED
    BY <1>1, <1>3 DEF Proper, IsLists
<1> HIDE DEF ok, failed
<1> QED
  BY <1>2, <1>4, ListsOne

LEMMA ServerChanges ==
    ASSUME PickerInv, NEW k, ServeConnections(k)
    PROVE  SessionsKnown'
<1> DEFINE r == requests[k]
<1>1. \/ UNCHANGED server
      \/ DeleteConnection(r.id) \/ DeleteSession(r.id) \/ UpdateSession(r.id, r.sent)
      \/ \E s : Create(s)
  <2>1. CASE ServeReads(k, r)
    BY <2>1 DEF ServeReads
  <2>2. CASE ServeChanges(k, r)
    BY <2>2 DEF ServeChanges, Change
  <2> QED
    BY <2>1, <2>2 DEF ServeConnections
<1> HIDE DEF r
<1> QED
  BY <1>1, ServerKeeps DEF DeleteConnection, DeleteSession, UpdateSession, Create, SessionsOf,
     PickerInv, SessionsKnown

LEMMA PickerServeLists ==
    ASSUME BaseInv, PickerInv, NEW k \in Slots, ServeLists(k)
    PROVE  ListsKept
<1> DEFINE r == requests[k]
<1>1. r # None /\ IsLists(r)
  BY ServeListsFacts
<1>2. PICK served \in {[r EXCEPT !.connections = known], [r EXCEPT !.sessions = stored]} :
          requests' = [requests EXCEPT ![k] = [served EXCEPT !.status =
                  IF None \in {served.connections, served.sessions} THEN "sent" ELSE "ok"]]
  BY ServeListsFacts
<1>3. ListsOK(r) /\ Proper(r, page.route)
  BY <1>1 DEF PickerInv, ListsRequestsOK, BaseInv, RequestsProper
<1>4. stored \in SUBSET Sessions
  BY DEF PickerInv, SessionsKnown
<1> DEFINE s == IF None \in {served.connections, served.sessions} THEN "sent" ELSE "ok"
           q == [served EXCEPT !.status = s]
<1> HIDE DEF r
<1>5. /\ {"connections", "sessions", "status"} \subseteq DOMAIN served
      /\ served.sessions = None \/ served.sessions \in SUBSET Sessions
  BY <1>2, <1>3, <1>4 DEF ListsOK, Proper
<1>6. ListsOK(q)
  BY <1>5 DEF ListsOK
<1> HIDE DEF q
<1> QED
  BY <1>2, <1>6, ListsOne DEF q

LEMMA PickerServe == ASSUME BaseInv, PickerInv, NEW k \in Slots, Serve(k) PROVE PickerInv'
<1> DEFINE r == requests[k]
<1>1. ASSUME ServeOverview(k), HomeStep PROVE PickerInv'
  <2>1. ListsKept
    BY <1>1, ListsServed DEF ServeOverview, Waiting, IsLists
  <2> QED
    BY <1>1, <2>1, PickerSame, ServerKeeps DEF ServeOverview, HomeStep
<1>2. ASSUME ServeConnections(k), UNCHANGED address PROVE PickerInv'
  <2>1. /\ r # None /\ page' = page /\ r.kind \in Changing \cup {"list"}
        /\ \E a : requests' \in {Answers(k, a), Refuses(k)}
    BY <1>2, ServeConnectionsFacts
  <2>2. ListsKept
    BY <2>1, ListsServed DEF IsLists, Changing
  <2> QED
    BY <1>2, <2>1, <2>2, PickerSame, ServerChanges
<1>3. ASSUME ServeLists(k), PickerStep, UNCHANGED <<page, address>> PROVE PickerInv'
  BY <1>3, PickerServeLists, PickerSame, ServerKeeps DEF PickerStep
<1>4. ASSUME ServeSettings(k), SettingsStep PROVE PickerInv'
  <2>1. r # None /\ ~IsLists(r) /\ page' = page
    BY <1>4 DEF ServeSettings, Waiting, IsLists
  <2>2. CASE requests' = Refuses(k)
    BY <1>4, <2>1, <2>2, ListsServed, PickerSame, ServerKeeps DEF SettingsStep
  <2>3. CASE requests' = [Answers(k, settings) EXCEPT ![k].fresh = (Writing = {})]
    <3> DEFINE current == Writing = {}
               q == [r EXCEPT !.status = "ok", !.answer = settings, !.fresh = current]
    <3>1. DOMAIN requests = Slots /\ Proper(r, page.route)
      BY <2>1 DEF BaseInv, RequestsProper
    <3>2. requests' = [requests EXCEPT ![k] = q]
      BY <2>3, <3>1 DEF Answers
    <3> HIDE DEF r, current
    <3>3. ~IsLists(q)
      BY <2>1, <3>1 DEF Proper, IsLists
    <3> HIDE DEF q
    <3> QED
      BY <1>4, <2>1, <3>2, <3>3, ListsOne, PickerSame, ServerKeeps DEF SettingsStep
  <2> QED
    BY <1>4, <2>2, <2>3 DEF ServeSettings
<1>5. ASSUME RefuseSave(k), SettingsStep PROVE PickerInv'
  <2>1. ListsKept
    BY <1>5, ListsServed DEF RefuseSave, Waiting, IsLists
  <2> QED
    BY <1>5, <2>1, PickerSame, ServerKeeps DEF RefuseSave, SettingsStep
<1>6. ASSUME NEW f, WriteSetting(k, f), SettingsStep PROVE PickerInv'
  <2>1. /\ r # None /\ ~IsLists(r)
        /\ page' = IF OnSettings /\ ~r.fresh THEN [page EXCEPT !.fresh = FALSE] ELSE page
    BY <1>6 DEF WriteSetting, Waiting, IsLists
  <2>2. SelectionKept
    BY <1>6, <2>1 DEF SelectionKept, OnSettings, On, SettingsStep, BaseInv, Parts
  <2>3. PICK kinds \in {{"form"}, {"form", "save"}} :
            LET written == [Outdated(kinds) EXCEPT ![k] = [r EXCEPT !.done = @ \cup {f}]]
            IN  requests' = IF written[k].done = DOMAIN r.body
                            THEN [written EXCEPT ![k].status = "ok"] ELSE written
    BY <1>6 DEF WriteSetting
  <2> DEFINE one == [r EXCEPT !.done = @ \cup {f}]
             done == [one EXCEPT !.status = "ok"]
  <2>4. /\ requests'[k] \in {one, done}
        /\ \A t \in Slots : t # k => requests'[t] = Outdated(kinds)[t]
    BY <2>3 DEF Outdated
  <2>5. Proper(r, page.route)
    BY <2>1 DEF BaseInv, RequestsProper
  <2>6. \A t \in Slots : requests[t] = None \/ IsLists(requests[t]) =>
            Outdated(kinds)[t] = requests[t]
    BY <2>3 DEF Outdated, IsLists
  <2>7. ASSUME NEW t \in Slots, requests[t] # None, ~IsLists(requests[t])
        PROVE  ~IsLists(Outdated(kinds)[t])
    <3> DEFINE o == requests[t]
               q == [o EXCEPT !.fresh = FALSE]
    <3>1. Proper(o, page.route) /\ Outdated(kinds)[t] \in {o, q}
      BY <2>7, OutdatedFacts DEF BaseInv, RequestsProper
    <3>2. ~IsLists(o)
      BY <2>7
    <3> HIDE DEF o
    <3> QED
      BY <3>1, <3>2 DEF Proper, IsLists
  <2>8. ~IsLists(one) /\ ~IsLists(done)
    <3> HIDE DEF r
    <3> QED
      BY <2>1, <2>5 DEF Proper, IsLists
  <2> HIDE DEF one, done
  <2>9. ListsKept
    <3> SUFFICES ASSUME NEW t \in Slots
                 PROVE  requests'[t] = requests[t] \/ ~IsLists(requests'[t])
      BY DEF ListsKept
    <3> QED
      BY <2>4, <2>6, <2>7, <2>8
  <2> QED
    BY <1>6, <2>2, <2>9, PickerStepInv, ServerKeeps DEF SettingsStep
<1> QED
  BY <1>1, <1>2, <1>3, <1>4, <1>5, <1>6 DEF Serve

(* The first answer selects a session of its connection, or has guessed.   *)
LEMMA FirstSelectionFits ==
    ASSUME NEW sessions \in SUBSET Sessions, EntryFits(sessions),
           NEW selection \in InitialSelections(sessions)
    PROVE  ConnectionOf[selection.session] = selection.connection
<1>1. PICK s \in Sessions :
          /\ selection.session = s
          /\ selection.connection = IF page.entry.connection \in ConnectionsWithSessions(sessions)
                                    THEN page.entry.connection ELSE ConnectionOf[s]
          /\ page.entry.session \in sessions => s = page.entry.session
  BY DEF InitialSelections
<1>2. page.entry.connection \in ConnectionsWithSessions(sessions) => page.entry.connection # None
  BY ConnectionOfAssumption, NoneAssumption DEF ConnectionsWithSessions
<1> QED
  BY <1>1, <1>2 DEF EntryFits

LEMMA PickerCallback == ASSUME BaseInv, PickerInv, NEW k \in Slots, Callback(k) PROVE PickerInv'
<1> DEFINE r == requests[k]
<1>1. Parts(page) /\ (r # None => Proper(r, page.route))
  BY DEF BaseInv, RequestsProper
<1>2. ASSUME requests' = Dropped(k) PROVE ListsKept
  BY <1>2, ListsOne DEF Dropped
<1>3. ASSUME TakeOverview(k) \/ OverviewFailed(k), HomeStep PROVE PickerInv'
  <2>1. page.route = "home" /\ page'.route = "home" /\ requests' = Dropped(k)
    BY <1>1, <1>3 DEF TakeOverview, OverviewFailed, Answered, Refused, Proper, Parts
  <2> QED
    BY <1>2, <1>3, <2>1, PickerStepInv, ServerKeeps DEF SelectionKept, HomeStep
<1>4. ASSUME ConnectionsCallback(k), HomeStep PROVE PickerInv'
  <2>1. /\ page'.route = "connections"
        /\ \E next \in {None, refresh} : requests' = [requests EXCEPT ![k] = next]
    BY <1>4, ConnectionsCallbackFacts
  <2>2. ~IsLists(refresh)
    BY DEF refresh, PageRequest, IsLists
  <2>3. ListsKept
    BY <2>1, <2>2, ListsOne
  <2> QED
    BY <1>4, <2>1, <2>3, PickerStepInv, ServerKeeps DEF SelectionKept, HomeStep
<1>5. ASSUME TakeLists(k) \/ ListsFailed(k), PickerStep PROVE PickerInv'
  <2>1. SelectionKept
    BY <1>1, <1>5 DEF TakeLists, ListsFailed, Answered, Proper, IsLists, Parts, SelectionKept
  <2>2. ListsKept
    BY <1>2, <1>5 DEF TakeLists, ListsFailed
  <2> QED
    BY <1>5, <2>1, <2>2, PickerStepInv, ServerKeeps DEF PickerStep
<1>6. ASSUME TakeFirst(k), PickerStep PROVE PickerInv'
  <2> DEFINE lists == [page EXCEPT !.connections = r.connections, !.sessions = r.sessions]
  <2>1. r # None /\ r.kind = "first" /\ r.status = "ok" /\ requests' = Dropped(k)
    BY <1>6 DEF TakeFirst, Answered
  <2>2. page.route = "sessions" /\ r.sessions \in SUBSET Sessions
    BY <1>1, <2>1, NoneAssumption DEF Proper, IsLists, PickerInv, ListsRequestsOK, ListsOK
  <2>3. ListsKept /\ SessionsKnown'
    BY <1>2, <1>6, <2>1, ServerKeeps DEF PickerStep
  <2>4. /\ lists.route = "sessions" /\ lists.selected = page.selected
        /\ lists.guessed = page.guessed /\ lists.entry = page.entry
        /\ lists.before = page.before
        /\ {"route", "selected", "guessed", "entry", "before"} \subseteq DOMAIN lists
    BY <1>1, <2>2 DEF Parts
  <2>5. CASE page' = lists /\ UNCHANGED address
    <3>1. SelectionKept
      BY <2>2, <2>4, <2>5 DEF SelectionKept
    <3> QED
      BY <2>3, <3>1, PickerStepInv
  <2>6. CASE \E selection \in InitialSelections(r.sessions) :
                /\ page' = [lists EXCEPT !.selected = selection,
                        !.guessed = ~EntryFits(r.sessions)]
                /\ address' = selection
    <3>1. PICK selection \in InitialSelections(r.sessions) :
                /\ page' = [lists EXCEPT !.selected = selection,
                        !.guessed = ~EntryFits(r.sessions)]
                /\ address' = selection
      BY <2>6
    <3>2. DOMAIN selection = {"connection", "session"}
      BY DEF InitialSelections
    <3>3. EntryFits(r.sessions) => ConnectionOf[selection.session] = selection.connection
      BY <2>2, FirstSelectionFits
    <3> HIDE DEF r, lists
    <3>4. /\ page'.route = "sessions" /\ page'.selected = selection
          /\ page'.entry = page.entry /\ page'.before = page.before
          /\ page'.guessed = ~EntryFits(r.sessions)
      BY <2>4, <3>1
    <3>5. AddressInStep'
      BY <2>2, <3>1, <3>2, <3>4 DEF AddressInStep, OnSessions, On, PickerInv
    <3>6. SelectionFits'
      BY <3>3, <3>4 DEF SelectionFits, OnSessions, On
    <3>7. ListsRequestsOK'
      BY <2>3 DEF PickerInv, ListsKept, ListsRequestsOK
    <3> QED
      BY <2>3, <3>5, <3>6, <3>7 DEF PickerInv
  <2> QED
    BY <1>6, <2>5, <2>6 DEF TakeFirst
<1>7. ASSUME TakeSettings(k), SettingsStep PROVE PickerInv'
  <2>1. page.route = "settings" /\ page'.route = "settings" /\ requests' = Dropped(k)
    BY <1>1, <1>7 DEF TakeSettings, Answered, Proper, Parts
  <2> QED
    BY <1>2, <1>7, <2>1, PickerStepInv, ServerKeeps DEF SelectionKept, SettingsStep
<1>8. ASSUME TakeAppSettings(k) \/ SettingsIgnored(k), SettingsStep PROVE PickerInv'
  BY <1>2, <1>8, PickerSame, ServerKeeps DEF TakeAppSettings, SettingsIgnored, SettingsStep
<1>9. ASSUME Saved(k), SettingsStep PROVE PickerInv'
  <2> DEFINE app == [SettingsRequest("app", NoBody) EXCEPT !.key = NewKey(r)]
  <2>1. \E next \in {None, app} : requests' = [requests EXCEPT ![k] = next]
    BY <1>9 DEF Saved, Dropped
  <2>2. ~IsLists(app)
    BY DEF SettingsRequest, IsLists
  <2> HIDE DEF app
  <2>3. ListsKept
    BY <2>1, <2>2, ListsOne
  <2> QED
    BY <1>9, <2>3, PickerSame, ServerKeeps DEF Saved, SettingsStep
<1>10. ASSUME Unheard(k) PROVE PickerInv'
  BY <1>2, <1>10, PickerSame, ServerKeeps DEF Unheard
<1> QED
  BY <1>3, <1>4, <1>5, <1>6, <1>7, <1>8, <1>9, <1>10 DEF Callback

LEMMA PickerFail == ASSUME BaseInv, PickerInv, NEW k \in Slots, Fail(k) PROVE PickerInv'
<1> DEFINE r == requests[k]
           failed == [r EXCEPT !.status = "failed"]
<1>1. r # None /\ Proper(r, page.route) /\ requests' = [requests EXCEPT ![k] = failed]
  BY DEF Fail, Refuses, BaseInv, RequestsProper
<1>2. IsLists(r) => ListsOK(r)
  BY <1>1 DEF PickerInv, ListsRequestsOK
<1> HIDE DEF r
<1>3. ~IsLists(failed) \/ ListsOK(failed)
  BY <1>1, <1>2 DEF Proper, IsLists, ListsOK
<1> HIDE DEF failed
<1>4. ListsKept
  BY <1>1, <1>3, ListsOne
<1> QED
  BY <1>4, PickerSame, ServerKeeps DEF Fail

LEMMA PickerInterfere == ASSUME BaseInv, PickerInv, Interfere PROVE PickerInv'
<1>1. SelectionKept
  BY DEF Interfere, OnConnections, On, SelectionKept, BaseInv, Parts
<1>2. ListsKept
  BY DEF Interfere, ListsKept
<1>3. SessionsKnown'
  BY DEF Interfere, SessionElsewhere, Create, DeleteSession, PickerInv, SessionsKnown
<1> QED
  BY <1>1, <1>2, <1>3, PickerStepInv

(* What is marked as old is no request for the lists.                      *)
LEMMA OutdatedLists ==
    ASSUME BaseInv, NEW k \in Slots, requests[k] # None
    PROVE  \/ Outdated({"form", "save"})[k] = requests[k]
           \/ ~IsLists(Outdated({"form", "save"})[k])
<1> DEFINE r == requests[k]
           q == [r EXCEPT !.fresh = FALSE]
<1>1. Proper(r, page.route)
  BY DEF BaseInv, RequestsProper
<1>2. \/ Outdated({"form", "save"})[k] = r
      \/ Outdated({"form", "save"})[k] = q /\ r.kind \in {"form", "save"}
  BY DEF Outdated
<1> HIDE DEF r
<1> QED
  BY <1>1, <1>2 DEF Proper, IsLists, r

LEMMA PickerInterfereSettings == ASSUME BaseInv, PickerInv, InterfereSettings PROVE PickerInv'
<1>1. /\ page' = (IF OnSettings THEN [page EXCEPT !.fresh = FALSE] ELSE page)
      /\ requests' = Outdated({"form", "save"})
  BY DEF InterfereSettings, WriteElsewhere
<1>2. SelectionKept
  BY <1>1 DEF InterfereSettings, OnSettings, On, SelectionKept, BaseInv, Parts
<1>3. ListsKept
  BY <1>1, OutdatedFacts, OutdatedLists DEF ListsKept
<1> QED
  BY <1>2, <1>3, PickerStepInv, ServerKeeps DEF InterfereSettings

(* Nothing that is left of a page asks for the lists.                      *)
LEMMA AbandonedLists ==
    ASSUME BaseInv, NEW heard, heard \subseteq {"save", "dark", "app"}, NEW k \in Slots
    PROVE  Abandoned(heard)[k] = None \/ ~IsLists(Abandoned(heard)[k])
<1> DEFINE r == requests[k]
<1>1. r # None => Proper(r, page.route)
  BY DEF BaseInv, RequestsProper
<1>2. CASE r # None /\ Abandoned(heard)[k] = r /\ r.kind \in heard
  BY <1>2 DEF IsLists
<1>3. CASE /\ r # None /\ Abandoned(heard)[k] = [r EXCEPT !.mounted = FALSE]
           /\ r.kind \in (Changing \ {"detail"}) \cup {"save", "dark"}
  <2> HIDE DEF r
  <2> QED
    BY <1>1, <1>3 DEF Proper, IsLists, Changing
<1> QED
  BY <1>2, <1>3, AbandonedFacts

LEMMA PickerMounted ==
    ASSUME PickerInv, ListsKept, SessionsKnown', NEW entry, NEW before,
           page' = MountedSessions(entry, before), address' = Nothing,
           before = Nothing \/ before.session = entry.session
    PROVE  PickerInv'
<1>1. AddressInStep' /\ SelectionFits'
  BY DEF MountedSessions, Nothing, AddressInStep, SelectionFits, OnSessions, On
<1>2. ListsRequestsOK'
  BY DEF PickerInv, ListsKept, ListsRequestsOK
<1> QED
  BY <1>1, <1>2 DEF PickerInv

LEMMA PickerNavigate == ASSUME BaseInv, PickerInv, NEW route, Navigate(route) PROVE PickerInv'
<1> DEFINE left == Abandoned({"save", "dark", "app"})
<1>1. Mount(route, left) /\ SessionsKnown'
  BY ServerKeeps DEF Navigate
<1>2. DOMAIN left = Slots /\ \A k \in Slots : left[k] = None \/ ~IsLists(left[k])
  BY AbandonedLists DEF Abandoned
<1> HIDE DEF left
<1>3. ASSUME NEW r, requests' = Put(left, r), ~IsLists(r) \/ ListsOK(r) PROVE ListsKept
  <2>1. \A k \in Slots : requests'[k] \in {left[k], r}
    BY <1>2, <1>3, PutAnywhere
  <2> QED
    BY <1>2, <1>3, <2>1 DEF ListsKept
<1>4. CASE route # "sessions"
  <2>1. page'.route # "sessions"
    BY <1>1, <1>4, MountFacts
  <2>2. PICK r : requests' = Put(left, r) /\ Proper(r, route)
    BY <1>1, MountFacts
  <2> QED
    BY <1>1, <1>3, <1>4, <2>1, <2>2, PickerStepInv DEF SelectionKept, Proper
<1>5. CASE route = "sessions" /\ MountSessions(Nothing, Nothing, left)
  <2>1. ListsOK(ListsRequest("first"))
    BY DEF ListsRequest, ListsOK
  <2> QED
    BY <1>1, <1>3, <1>5, <2>1, PickerMounted DEF MountSessions
<1> QED
  BY <1>1, <1>4, <1>5 DEF Mount

LEMMA PickerReload == ASSUME BaseInv, PickerInv, Reload PROVE PickerInv'
<1> DEFINE left == Abandoned({})
           app == SettingsRequest("app", NoBody)
           first == ListsRequest("first")
<1>1. DOMAIN left = Slots /\ \A k \in Slots : left[k] = None \/ ~IsLists(left[k])
  <2>1. {} \subseteq {"save", "dark", "app"}
    OBVIOUS
  <2>2. \A k \in Slots : Abandoned({})[k] = None \/ ~IsLists(Abandoned({})[k])
    BY <2>1, AbandonedLists, Zenon
  <2> QED
    BY <2>2 DEF Abandoned
<1>2. ~IsLists(app) /\ ListsOK(first)
  BY DEF SettingsRequest, ListsRequest, IsLists, ListsOK
<1>3. /\ page' = MountedSessions(address, page.selected) /\ address' = Nothing
      /\ requests' = Put(Put(left, app), first)
  BY DEF Reload, MountSessions
<1> HIDE DEF left, app, first
<1>4. \A k \in Slots : requests'[k] \in {left[k], app, first}
  BY <1>1, <1>3, PutAnywhere
<1>5. ListsKept
  BY <1>1, <1>2, <1>4 DEF ListsKept
<1>6. page.selected.session = address.session /\ SessionsKnown'
  BY ServerKeeps DEF Reload, PickerInv, AddressInStep
<1> QED
  BY <1>3, <1>5, <1>6, PickerMounted

LEMMA PickerNext == BaseInv /\ BaseInv' /\ PickerInv /\ [Next]_vars => PickerInv'
<1> SUFFICES ASSUME BaseInv, BaseInv', PickerInv, [Next]_vars PROVE PickerInv'
  OBVIOUS
<1>1. CASE UNCHANGED vars
  <2>1. ListsKept
    BY <1>1 DEF vars, browser, ListsKept
  <2> QED
    BY <1>1, <2>1, PickerSame, ServerKeeps DEF vars, browser
<1>2. CASE \E k \in Slots : Serve(k) \/ Callback(k) \/ Fail(k)
  BY <1>2, PickerServe, PickerCallback, PickerFail
<1>3. CASE \E route \in Routes : Navigate(route)
  BY <1>3, PickerNavigate
<1> QED
  BY <1>1, <1>2, <1>3, PickerUser, PickerReload, PickerTimer, PickerInterfere,
     PickerInterfereSettings DEF Next

LEMMA PickerInit == Init => PickerInv
<1> SUFFICES ASSUME Init PROVE PickerInv
  OBVIOUS
<1>1. SessionsKnown
  BY InitiallyAssumption DEF Init, SessionsKnown
<1>2. AddressInStep /\ SelectionFits
  BY DEF Init, MountedHome, MountedConnections, MountedSessions, MountedSettings, Nothing,
     AddressInStep, SelectionFits, OnSessions, On
<1>3. \E r : (~IsLists(r) \/ ListsOK(r)) /\ requests = Put(Nobody, r)
  BY DEF Init, LoadRequest, refresh, PageRequest, ListsRequest, SettingsRequest, IsLists, ListsOK
<1>4. DOMAIN Nobody = Slots /\ \A k \in Slots : Nobody[k] = None
  BY DEF Nobody
<1> QED
  BY <1>1, <1>2, <1>3, <1>4, PutAnywhere DEF PickerInv, ListsRequestsOK

LEMMA PickerInvHolds == Spec => []PickerInv
BY BaseInvHolds, PickerInit, PickerNext, PTL DEF Spec

(* Whatever is chosen, deleted or reloaded, and however late the first     *)
(* answer comes, the session that is shown belongs to the connection above *)
(* it, save where the model says the page has guessed                      *)
(* (Sessions.tsx:241-271,452-488).                                         *)
THEOREM SelectionStaysFit == Spec => []SelectionFits
BY PickerInvHolds, PTL DEF PickerInv

(* A reload comes back to the session that was shown, if the first answer  *)
(* has it: the address it was read from was written with the selection,    *)
(* and neither was changed without the other (Sessions.tsx:241-271).       *)
THEOREM ReloadsRestore == Spec => ReloadRestores
<1>1. ASSUME BaseInv, PickerInv, NEW k \in Slots, TakeFirst(k),
             page.before.session \in requests[k].sessions
      PROVE  page'.selected.session = page.before.session
  <2> DEFINE r == requests[k]
             lists == [page EXCEPT !.connections = r.connections, !.sessions = r.sessions]
  <2>1. r # None /\ r.kind = "first" /\ r.status = "ok"
    BY <1>1 DEF TakeFirst, Answered
  <2>2. page.route = "sessions" /\ r.sessions \in SUBSET Sessions /\ Parts(page)
    BY <1>1, <2>1, NoneAssumption
       DEF Proper, IsLists, BaseInv, RequestsProper, PickerInv, ListsRequestsOK, ListsOK
  <2>3. page.before.session = page.entry.session
    BY <1>1, <2>2, NoneAssumption DEF PickerInv, AddressInStep, OnSessions, On, Nothing
  <2>4. PICK selection \in InitialSelections(r.sessions) :
            page' = [lists EXCEPT !.selected = selection, !.guessed = ~EntryFits(r.sessions)]
    BY <1>1 DEF TakeFirst
  <2>5. selection.session = page.entry.session
    BY <1>1, <2>3 DEF InitialSelections
  <2>6. {"selected", "guessed"} \subseteq DOMAIN lists
    BY <2>2 DEF Parts
  <2> HIDE DEF lists
  <2> QED
    BY <2>3, <2>4, <2>5, <2>6
<1>2. BaseInv /\ PickerInv /\ [Next]_vars =>
          [\A k \in Slots :
              TakeFirst(k) /\ page.before.session \in requests[k].sessions
              => page'.selected.session = page.before.session]_<<page, requests>>
  BY <1>1
<1> QED
  BY <1>2, BaseInvHolds, PickerInvHolds, PTL DEF Spec, ReloadRestores

-----------------------------------------------------------------------------
(* What kinds of requests a step touches: it leaves the others alone.      *)

OfKind(r, kinds) == r = None \/ r.kind \in kinds

Within(kinds) ==
    \A k \in Slots : \/ requests'[k] = requests[k]
                     \/ OfKind(requests[k], kinds) /\ OfKind(requests'[k], kinds)

(* The least of some numbers.                                              *)
LEMMA MinIn == ASSUME NEW S \in SUBSET Nat, S # {} PROVE Min(S) \in S /\ \A j \in S : Min(S) <= j
<1> DEFINE less == {pair \in Nat \X Nat : pair[1] < pair[2]}
<1>1. IsWellFoundedOn(less, Nat)
  BY NatLessThanWellFounded DEF OpToRel
<1>2. \A i, j \in Nat : <<j, i>> \notin less => i <= j
  OBVIOUS
<1> HIDE DEF less
<1>3. PICK i \in S : \A j \in S : <<j, i>> \notin less
  BY <1>1, WFMin
<1>4. \A j \in S : i <= j
  BY <1>2, <1>3
<1> QED
  BY <1>4 DEF Min

(* A request is put into an empty slot, if there is one.                   *)
LEMMA PutFree ==
    ASSUME NEW used, DOMAIN used = Slots, Free(used) # {}, NEW r
    PROVE  \E k \in Slots : used[k] = None /\ Put(used, r) = [used EXCEPT ![k] = r]
<1>1. Free(used) \in SUBSET Nat
  BY SlotsAssumption DEF Free
<1>2. Min(Free(used)) \in Free(used)
  BY <1>1, MinIn
<1> QED
  BY <1>2 DEF Put, Free

LEMMA WithinOne ==
    ASSUME BaseInv, NEW kinds, NEW k \in Slots, NEW r, requests' = [requests EXCEPT ![k] = r],
           OfKind(requests[k], kinds), OfKind(r, kinds)
    PROVE  Within(kinds)
<1>1. requests'[k] = r /\ \A t \in Slots : t # k => requests'[t] = requests[t]
  BY DEF BaseInv, RequestsProper
<1> QED
  BY <1>1 DEF Within

LEMMA WithinSends ==
    ASSUME BaseInv, NEW kinds, NEW r, r.kind \in kinds, Free(requests) # {},
           requests' = Put(requests, r)
    PROVE  Within(kinds)
<1>1. DOMAIN requests = Slots
  BY DEF BaseInv, RequestsProper
<1>2. PICK k \in Slots : requests[k] = None /\ requests' = [requests EXCEPT ![k] = r]
  BY <1>1, PutFree
<1> QED
  BY <1>2, WithinOne DEF OfKind

LEMMA WithinServed ==
    ASSUME BaseInv, NEW kinds, NEW k \in Slots, requests[k] # None, requests[k].kind \in kinds,
           NEW a, requests' \in {Answers(k, a), Refuses(k)}
    PROVE  Within(kinds)
<1> DEFINE r == requests[k]
           ok == [r EXCEPT !.status = "ok", !.answer = a]
           failed == [r EXCEPT !.status = "failed"]
<1>1. Proper(r, page.route) /\ DOMAIN requests = Slots
  BY DEF BaseInv, RequestsProper
<1>2. \/ requests' = [requests EXCEPT ![k] = ok]
      \/ requests' = [requests EXCEPT ![k] = failed]
  BY <1>1 DEF Answers, Refuses
<1>3. r.kind \in kinds
  OBVIOUS
<1>4. OfKind(r, kinds) /\ OfKind(ok, kinds) /\ OfKind(failed, kinds)
  <2> HIDE DEF r
  <2> QED
    BY <1>1, <1>3 DEF Proper, OfKind
<1> HIDE DEF ok, failed
<1> QED
  BY <1>2, <1>4, WithinOne

LEMMA WithinNone == ASSUME requests' = requests, NEW kinds PROVE Within(kinds)
BY DEF Within

(* Each page's clicks, timer, callbacks and the server's work for it touch *)
(* the requests of this page.                                              *)
LEMMA HomeWithin ==
    ASSUME BaseInv, \/ HomeUser \/ HomeTimer
                    \/ \E k \in Slots : TakeOverview(k) \/ OverviewFailed(k) \/ ServeOverview(k)
    PROVE  Within({"overview"})
<1>1. CASE HomeUser
  <2> DEFINE r == LoadRequest(page')
  <2>1. requests' \in {requests, Put(requests, r)} /\ Free(requests) # {}
    BY <1>1, HomeUserFacts DEF BaseInv, Parts
  <2>2. r.kind \in {"overview"}
    BY DEF LoadRequest
  <2> HIDE DEF r
  <2> QED
    BY <2>1, <2>2, WithinSends, WithinNone
<1>2. CASE HomeTimer
  <2>1. LoadRequest(page).kind \in {"overview"}
    BY DEF LoadRequest
  <2> QED
    BY <1>2, <2>1, WithinSends DEF HomeTimer
<1>3. ASSUME NEW k \in Slots, TakeOverview(k) \/ OverviewFailed(k) PROVE Within({"overview"})
  BY <1>3, WithinOne DEF TakeOverview, OverviewFailed, Answered, Refused, Dropped, OfKind
<1>4. ASSUME NEW k \in Slots, ServeOverview(k) PROVE Within({"overview"})
  BY <1>4, WithinServed DEF ServeOverview, Waiting
<1> QED
  BY <1>1, <1>2, <1>3, <1>4

LEMMA ConnectionsWithin ==
    ASSUME BaseInv, \/ ConnectionsUser
                    \/ \E k \in Slots : ConnectionsCallback(k) \/ ServeConnections(k)
    PROVE  Within(Changing \cup {"list"})
<1>1. CASE ConnectionsUser
  <2>1. \/ requests' = requests
        \/ Free(requests) # {} /\ \E r : Sendable(r) /\ requests' = Put(requests, r)
    BY <1>1, ConnectionsUserFacts
  <2>2. \A r : Sendable(r) => r.kind \in Changing \cup {"list"}
    BY DEF Sendable
  <2>3. CASE requests' = requests
    BY <2>3, WithinNone
  <2>4. CASE Free(requests) # {} /\ \E r : Sendable(r) /\ requests' = Put(requests, r)
    BY <2>2, <2>4, WithinSends
  <2> QED
    BY <2>1, <2>3, <2>4
<1>2. ASSUME NEW k \in Slots, ConnectionsCallback(k) PROVE Within(Changing \cup {"list"})
  <2>1. OfKind(refresh, Changing \cup {"list"})
    BY DEF refresh, PageRequest, OfKind
  <2> QED
    BY <1>2, <2>1, ConnectionsCallbackFacts, WithinOne DEF OfKind
<1>3. ASSUME NEW k \in Slots, ServeConnections(k) PROVE Within(Changing \cup {"list"})
  BY <1>3, ServeConnectionsFacts, WithinServed
<1> QED
  BY <1>1, <1>2, <1>3

LEMMA ListWithin == ASSUME BaseInv, ListTimer PROVE Within({"list"})
<1>1. refresh.kind \in {"list"}
  BY DEF refresh, PageRequest
<1> QED
  BY <1>1, WithinSends DEF ListTimer

LEMMA PickerWithin ==
    ASSUME BaseInv, \/ SessionsUser \/ SessionsTimer
                    \/ \E k \in Slots : TakeFirst(k) \/ TakeLists(k) \/ ListsFailed(k)
                                        \/ ServeLists(k)
    PROVE  Within({"first", "lists"})
<1>1. CASE SessionsUser
  BY <1>1, WithinNone DEF SessionsUser, ChooseConnection, ChooseSession, SetOrder, toggleColumn,
     moveColumn
<1>2. CASE SessionsTimer
  <2>1. ListsRequest("lists").kind \in {"first", "lists"}
    BY DEF ListsRequest
  <2> QED
    BY <1>2, <2>1, WithinSends DEF SessionsTimer
<1>3. ASSUME NEW k \in Slots, TakeFirst(k) \/ TakeLists(k) \/ ListsFailed(k)
      PROVE  Within({"first", "lists"})
  BY <1>3, WithinOne DEF TakeFirst, TakeLists, ListsFailed, Answered, Refused, Dropped, OfKind
<1>4. ASSUME NEW k \in Slots, ServeLists(k) PROVE Within({"first", "lists"})
  <2> DEFINE r == requests[k]
  <2>1. r # None /\ IsLists(r) /\ Proper(r, page.route)
    BY <1>4, ServeListsFacts DEF BaseInv, RequestsProper
  <2>2. PICK served \in {[r EXCEPT !.connections = known], [r EXCEPT !.sessions = stored]} :
            requests' = [requests EXCEPT ![k] = [served EXCEPT !.status =
                    IF None \in {served.connections, served.sessions} THEN "sent" ELSE "ok"]]
    BY <1>4, ServeListsFacts
  <2> DEFINE status == IF None \in {served.connections, served.sessions} THEN "sent" ELSE "ok"
             q == [served EXCEPT !.status = status]
  <2>3. OfKind(r, {"first", "lists"})
    BY <2>1 DEF OfKind, IsLists
  <2> HIDE DEF r
  <2>4. OfKind(q, {"first", "lists"})
    BY <2>1, <2>2 DEF OfKind, IsLists, Proper
  <2> HIDE DEF q
  <2> QED
    BY <2>2, <2>3, <2>4, WithinOne DEF q, r
<1> QED
  BY <1>1, <1>2, <1>3, <1>4

-----------------------------------------------------------------------------
(* The settings: what the browser, its requests and the server hold.       *)

SettingsKinds == {"form", "save", "dark", "app"}

OfSettings(r) == r # None /\ r.kind \in SettingsKinds
Due(r) == r # None /\ IsSettings(r)
IsForm(r) == r # None /\ r.kind = "form"

IsKey(key) == key \in Keys \cup {Blank}

SettingsParts(r) ==
    /\ r \in SettingsRequests
    /\ r.kind = "save" =>
          /\ {"theme_color", "dark_mode"} \subseteq DOMAIN r.body
          /\ "auth_key" \in DOMAIN r.body => r.body.auth_key \in Keys
          /\ "dark_mode" \in r.touched
    /\ r.kind = "dark" => DOMAIN r.body = {"dark_mode"} /\ r.touched = {"dark_mode"}
    /\ r.kind \in {"save", "dark"} /\ r.status = "ok" => r.done = DOMAIN r.body
    /\ r.kind \in {"form", "app"} /\ r.status = "ok" =>
          r.answer \in [Fields -> SettingValues] /\ IsKey(r.answer.auth_key)

FormShape ==
    /\ page.form \in [FormFields -> SettingValues] /\ IsKey(page.form.auth_key)
    /\ page.edited \subseteq Fields /\ page.fresh \in BOOLEAN

SettingsShape ==
    /\ settings \in [Fields -> SettingValues] /\ IsKey(settings.auth_key)
    /\ DOMAIN store = {"key", "darkMode", "themeColor"}
    /\ IsKey(store.key) /\ store.darkMode \in SettingValues
    /\ OnSettings => FormShape
    /\ \A k \in Slots : OfSettings(requests[k]) => SettingsParts(requests[k])

(* What is under way, if nothing has failed, brings browser and server     *)
(* together: a save has left the key to the server bit by bit, a switch of *)
(* the mode has run ahead of it.                                           *)
OnItsWay(r) ==
    /\ r.mounted /\ r.status \in {"sent", "ok"} /\ r.key = store.key
    /\ r.kind \in {"app", "dark"} => store.key = settings.auth_key
    /\ r.kind = "app" /\ r.status = "ok" => r.answer.dark_mode = settings.dark_mode
    /\ r.kind = "dark" =>
          /\ r.body.dark_mode = store.darkMode
          /\ r.status = "ok" => settings.dark_mode = store.darkMode
    /\ r.kind = "save" =>
          /\ r.body.dark_mode = store.darkMode /\ settings.dark_mode = store.darkMode
          /\ settings.auth_key = IF "auth_key" \in r.done THEN r.body.auth_key ELSE r.key
          /\ "auth_key" \in r.done => "auth_key" \in DOMAIN r.body

Agree == store.key = settings.auth_key /\ store.darkMode = settings.dark_mode

InStep ==
    smooth =>
        /\ \A k, t \in Slots : Due(requests[k]) /\ Due(requests[t]) => k = t
        /\ (\A k \in Slots : ~Due(requests[k])) => Agree
        /\ \A k \in Slots : Due(requests[k]) => OnItsWay(requests[k])

(* A save that is still to be written and knows what the others wrote.     *)
Knows(r) == r # None /\ r.kind = "save" /\ r.status = "sent" /\ r.fresh

(* What a form or a save shows, if it knows, is what the server has, except*)
(* for what the user has edited in it.                                     *)
FormsKnow ==
    /\ \A k, t \in Slots : IsForm(requests[k]) /\ IsForm(requests[t]) => k = t
    /\ \A k \in Slots : IsForm(requests[k]) /\ requests[k].fresh =>
          /\ requests[k].status # "sent"
          /\ requests[k].status = "ok" =>
                \A f \in FormFields : requests[k].answer[f] = settings[f]
          /\ \A t \in Slots : ~Knows(requests[t])
    /\ \A k \in Slots : Knows(requests[k]) =>
          \A f \in DOMAIN requests[k].body \ requests[k].touched :
              requests[k].body[f] = settings[f]
    /\ OnSettings /\ page.fresh =>
          /\ \A k \in Slots : ~IsForm(requests[k])
          /\ \A f \in FormFields \ page.edited : page.form[f] = settings[f]
          /\ \A k \in Slots : Knows(requests[k]) =>
                requests[k].touched \subseteq page.edited \cup {"dark_mode"}

SettingsInv == SettingsShape /\ InStep /\ FormsKnow

LEMMA FieldNames ==
    /\ Fields = {"auth_key", "theme_color", "dark_mode"}
    /\ FormFields = {"auth_key", "theme_color"}
BY DefaultsAssumption DEF Fields, FormFields, Values

LEMMA BooleanSetting == BOOLEAN \subseteq SettingValues /\ Keys \cup {Blank} \subseteq SettingValues
<1>1. \A f \in DOMAIN Values : Values[f] \subseteq SettingValues
  BY DEF SettingValues
<1>2. {"auth_key", "dark_mode"} \subseteq DOMAIN Values
      /\ Values["dark_mode"] = BOOLEAN /\ Values["auth_key"] = Keys \cup {Blank}
  BY DEF Values
<1> QED
  BY <1>1, <1>2

LEMMA PartsAreOfSettings ==
    ASSUME NEW r, SettingsParts(r)
    PROVE  OfSettings(r) /\ (r.kind # "form" => Due(r)) /\ (r.kind = "form" => IsForm(r))
BY NoRequestAssumption DEF SettingsParts, SettingsRequests, OfSettings, SettingsKinds, Due, IsForm,
   IsSettings

(* A step that leaves the settings to themselves.                          *)
SettingsSame ==
    \A k \in Slots : \/ requests'[k] = requests[k]
                     \/ ~OfSettings(requests[k]) /\ ~OfSettings(requests'[k])

FormSame ==
    OnSettings' =>
        OnSettings /\ page'.form = page.form /\ page'.edited = page.edited
                   /\ page'.fresh = page.fresh

LEMMA SettingsStepInv ==
    ASSUME SettingsInv, SettingsSame, FormSame, UNCHANGED <<store, settings>>, smooth' => smooth
    PROVE  SettingsInv'
<1>1. \A k \in Slots : \/ requests'[k] = requests[k]
                       \/ /\ ~Due(requests[k]) /\ ~Due(requests'[k])
                          /\ ~IsForm(requests[k]) /\ ~IsForm(requests'[k])
                          /\ ~Knows(requests[k]) /\ ~Knows(requests'[k])
  BY DEF SettingsSame, OfSettings, SettingsKinds, Due, IsSettings, IsForm, Knows
<1>2. SettingsShape'
  BY DEF SettingsInv, SettingsShape, FormShape, SettingsSame, FormSame
<1>3. InStep'
  <2> SUFFICES ASSUME smooth'
               PROVE  /\ \A k, t \in Slots : Due(requests'[k]) /\ Due(requests'[t]) => k = t
                      /\ (\A k \in Slots : ~Due(requests'[k])) => Agree
                      /\ \A k \in Slots : Due(requests'[k]) => OnItsWay(requests'[k])
    BY DEF InStep, Agree, OnItsWay
  <2> QED
    BY <1>1 DEF SettingsInv, InStep
<1>4. FormsKnow'
  <2>1. \A k \in Slots : (IsForm(requests'[k]) \/ Knows(requests'[k])) =>
            requests'[k] = requests[k]
    BY <1>1
  <2> QED
    BY <2>1 DEF SettingsInv, FormsKnow, FormSame
<1> QED
  BY <1>2, <1>3, <1>4 DEF SettingsInv

(* Requests of another kind are none of the settings.                      *)
LEMMA WithinSame ==
    ASSUME NEW kinds, kinds \cap SettingsKinds = {}, Within(kinds)
    PROVE  SettingsSame
BY DEF Within, OfKind, SettingsSame, OfSettings

(* Browser and server after a step that changes nothing about them.        *)
LEMMA InStepSame ==
    ASSUME SettingsInv, smooth' => smooth,
           \A k \in Slots : \/ requests'[k] = requests[k]
                            \/ ~Due(requests[k]) /\ ~Due(requests'[k]),
           store'.key = store.key, store'.darkMode = store.darkMode, settings' = settings
    PROVE  InStep'
BY DEF SettingsInv, InStep, Agree, OnItsWay

(* After a step with the one request that is under way.                    *)
LEMMA InStepAt ==
    ASSUME SettingsInv, smooth' => smooth, NEW k \in Slots, Due(requests[k]),
           \A t \in Slots : t # k /\ Due(requests'[t]) => Due(requests[t]),
           smooth' => IF Due(requests'[k]) THEN OnItsWay(requests[k])' ELSE Agree'
    PROVE  InStep'
BY DEF SettingsInv, InStep

(* After a request has been sent; `smooth` says it is alone.               *)
LEMMA InStepSent ==
    ASSUME NEW k \in Slots, smooth' => \A t \in Slots : t # k => ~Due(requests'[t]),
           Due(requests'[k]), smooth' => OnItsWay(requests[k])'
    PROVE  InStep'
BY DEF InStep

(* One request changes, and knows nothing.                                 *)
LEMMA FormsOne ==
    ASSUME SettingsInv, BaseInv, NEW k \in Slots, NEW r, requests' = [requests EXCEPT ![k] = r],
           FormSame, UNCHANGED settings, ~Knows(r),
           IsForm(r) => IsForm(requests[k]) /\ r.fresh = requests[k].fresh /\ r.status = "failed"
    PROVE  FormsKnow'
<1>1. requests'[k] = r /\ \A t \in Slots : t # k => requests'[t] = requests[t]
  BY DEF BaseInv, RequestsProper
<1>2. \A t \in Slots : Knows(requests'[t]) => requests'[t] = requests[t]
  BY <1>1
<1>3. \A t \in Slots : IsForm(requests'[t]) =>
          /\ IsForm(requests[t]) /\ requests'[t].fresh = requests[t].fresh
          /\ requests'[t] = requests[t] \/ requests'[t].status = "failed"
  BY <1>1
<1>4. FormsKnow
  BY DEF SettingsInv
<1>5. \A j, t \in Slots : IsForm(requests'[j]) /\ IsForm(requests'[t]) => j = t
  BY <1>3, <1>4 DEF FormsKnow
<1>6. \A t \in Slots : IsForm(requests'[t]) /\ requests'[t].fresh =>
          /\ requests'[t].status # "sent"
          /\ requests'[t].status = "ok" =>
                \A f \in FormFields : requests'[t].answer[f] = settings[f]
          /\ \A j \in Slots : ~Knows(requests'[j])
  BY <1>2, <1>3, <1>4 DEF FormsKnow
<1>7. \A t \in Slots : Knows(requests'[t]) =>
          \A f \in DOMAIN requests'[t].body \ requests'[t].touched :
              requests'[t].body[f] = settings[f]
  BY <1>2, <1>4 DEF FormsKnow
<1>8. ASSUME OnSettings', page'.fresh
      PROVE  /\ \A t \in Slots : ~IsForm(requests'[t])
             /\ \A f \in FormFields \ page'.edited : page'.form[f] = settings[f]
             /\ \A t \in Slots : Knows(requests'[t]) =>
                   requests'[t].touched \subseteq page'.edited \cup {"dark_mode"}
  <2>1. /\ OnSettings /\ page'.form = page.form /\ page'.edited = page.edited
        /\ page'.fresh = page.fresh
    BY <1>8 DEF FormSame
  <2>2. /\ \A t \in Slots : ~IsForm(requests[t])
        /\ \A f \in FormFields \ page.edited : page.form[f] = settings[f]
        /\ \A t \in Slots : Knows(requests[t]) =>
              requests[t].touched \subseteq page.edited \cup {"dark_mode"}
    BY <1>4, <1>8, <2>1 DEF FormsKnow
  <2> QED
    BY <1>2, <1>3, <2>1, <2>2
<1> QED
  BY <1>5, <1>6, <1>7, <1>8 DEF FormsKnow

(* The parts of one request change.                                        *)
LEMMA ShapeOne ==
    ASSUME SettingsInv, BaseInv, NEW k \in Slots, NEW r, requests' = [requests EXCEPT ![k] = r],
           FormSame, UNCHANGED settings, DOMAIN store' = DOMAIN store, IsKey(store'.key),
           store'.darkMode \in SettingValues, OfSettings(r) => SettingsParts(r)
    PROVE  SettingsShape'
<1>1. requests'[k] = r /\ \A t \in Slots : t # k => requests'[t] = requests[t]
  BY DEF BaseInv, RequestsProper
<1>2. \A t \in Slots : OfSettings(requests'[t]) => SettingsParts(requests'[t])
  BY <1>1 DEF SettingsInv, SettingsShape
<1> QED
  BY <1>2 DEF SettingsInv, SettingsShape, FormShape, FormSame

(* The switch of the mode.                                                 *)
LEMMA SettingsToggle == ASSUME BaseInv, SettingsInv, ToggleDark PROVE SettingsInv'
<1> DEFINE body == [dark_mode |-> ~store.darkMode]
           r == [SettingsRequest("dark", body) EXCEPT !.touched = {"dark_mode"}, !.fresh = TRUE]
<1>1. DOMAIN requests = Slots /\ IsKey(store.key)
  BY DEF BaseInv, RequestsProper, SettingsInv, SettingsShape
<1>2. /\ body \in [{"dark_mode"} -> SettingValues] /\ DOMAIN body = {"dark_mode"}
      /\ body.dark_mode = ~store.darkMode
  <2>1. (~store.darkMode) \in BOOLEAN
    BY Zenon
  <2>2. (~store.darkMode) \in SettingValues
    BY <2>1, BooleanSetting
  <2> QED
    BY <2>2
<1>3. /\ Free(requests) # {} /\ requests' = Put(requests, r)
      /\ smooth' = (smooth /\ Unsettled(requests) = {})
      /\ page' = page /\ settings' = settings /\ store' = toggleDark
  BY DEF ToggleDark, SendSave
<1>4. /\ DOMAIN store' = DOMAIN store /\ store'.key = store.key
      /\ store'.darkMode = ~store.darkMode /\ store'.darkMode \in SettingValues
  BY <1>3, BooleanSetting DEF toggleDark, SettingsInv, SettingsShape
<1> HIDE DEF body
<1>5. /\ r.kind = "dark" /\ r.body = body /\ r.mounted /\ r.status = "sent"
      /\ r.key = store.key /\ r.touched = {"dark_mode"} /\ r \in SettingsRequests
  BY <1>1, <1>2, FieldNames DEF SettingsRequest, SettingsRequests, IsKey
<1> HIDE DEF r
<1>6. SettingsParts(r) /\ Due(r) /\ ~Knows(r) /\ ~IsForm(r)
  BY <1>2, <1>5, PartsAreOfSettings DEF SettingsParts, Knows, IsForm
<1>7. PICK k \in Slots : requests[k] = None /\ requests' = [requests EXCEPT ![k] = r]
  BY <1>1, <1>3, PutFree
<1>8. requests'[k] = r /\ \A t \in Slots : t # k => requests'[t] = requests[t]
  BY <1>1, <1>7
<1>9. FormSame
  BY <1>3 DEF FormSame, OnSettings, On
<1>10. SettingsShape' /\ FormsKnow'
  BY <1>1, <1>3, <1>4, <1>6, <1>7, <1>9, ShapeOne, FormsOne
<1>11. ASSUME smooth' PROVE (\A t \in Slots : ~Due(requests[t])) /\ OnItsWay(requests[k])'
  <2>1. smooth /\ \A t \in Slots : ~Due(requests[t])
    BY <1>3, <1>11 DEF Unsettled, Due, IsSettings
  <2>2. store.key = settings.auth_key
    BY <2>1 DEF SettingsInv, InStep, Agree
  <2> QED
    BY <1>2, <1>3, <1>4, <1>5, <1>8, <2>1, <2>2 DEF OnItsWay
<1>12. InStep'
  BY <1>6, <1>8, <1>11, InStepSent
<1> QED
  BY <1>10, <1>12 DEF SettingsInv

(* The form is edited.                                                     *)
LEMMA SettingsEdit ==
    ASSUME BaseInv, SettingsInv, OnSettings, NEW f \in FormFields, NEW v \in Values[f],
           EditForm(f, v)
    PROVE  SettingsInv'
<1>1. /\ page' = [page EXCEPT !.form[f] = v, !.edited = @ \cup {f}]
      /\ store' = IF f = "theme_color" THEN [store EXCEPT !.themeColor = v] ELSE store
      /\ UNCHANGED <<requests, settings, smooth>>
  BY DEF EditForm
<1>2. {"route", "form", "edited", "fresh"} \subseteq DOMAIN page
  BY DEF BaseInv, Parts, OnSettings, On
<1>3. /\ page'.route = page.route /\ page'.form = [page.form EXCEPT ![f] = v]
      /\ page'.edited = page.edited \cup {f} /\ page'.fresh = page.fresh
  BY <1>1, <1>2
<1>4. FormShape
  BY DEF SettingsInv, SettingsShape
<1>5. v \in SettingValues /\ f \in Fields /\ (f = "auth_key" => IsKey(v))
  BY DefaultsAssumption DEF SettingValues, FormFields, Fields, IsKey, Values
<1>6. FormShape'
  BY <1>3, <1>4, <1>5, FieldNames DEF FormShape, IsKey
<1>7. /\ DOMAIN store' = DOMAIN store /\ store'.key = store.key
      /\ store'.darkMode = store.darkMode
  BY <1>1 DEF SettingsInv, SettingsShape
<1>8. SettingsShape'
  BY <1>1, <1>6, <1>7 DEF SettingsInv, SettingsShape
<1>9. InStep'
  BY <1>1, <1>7, InStepSame
<1>10. FormsKnow'
  BY <1>1, <1>3, <1>4 DEF SettingsInv, FormsKnow, FormShape, OnSettings, On
<1> QED
  BY <1>8, <1>9, <1>10 DEF SettingsInv

(* The form is saved.                                                      *)
LEMMA SettingsSave == ASSUME BaseInv, SettingsInv, OnSettings, onSave PROVE SettingsInv'
<1> DEFINE body == Body
           touched == page.edited \cup {"dark_mode"}
           r == [SettingsRequest("save", body) EXCEPT !.touched = touched, !.fresh = page.fresh]
<1>1. DOMAIN requests = Slots /\ FormShape /\ IsKey(store.key) /\ store.darkMode \in SettingValues
  BY DEF BaseInv, RequestsProper, SettingsInv, SettingsShape
<1>2. /\ Free(requests) # {} /\ requests' = Put(requests, r)
      /\ smooth' = (smooth /\ Unsettled(requests) = {})
      /\ page' = page /\ settings' = settings /\ store' = store
  BY DEF onSave, SendSave
<1>3. /\ DOMAIN body \subseteq Fields /\ {"theme_color", "dark_mode"} \subseteq DOMAIN body
      /\ "auth_key" \in DOMAIN body => page.form.auth_key # Blank
      /\ body.dark_mode = store.darkMode
      /\ \A f \in DOMAIN body \ {"dark_mode"} : f \in FormFields /\ body[f] = page.form[f]
  BY FieldNames DEF Body
<1>4. body \in [DOMAIN body -> SettingValues]
  <2>1. body = [f \in DOMAIN body |-> body[f]]
    BY DEF Body
  <2>2. \A f \in DOMAIN body : body[f] \in SettingValues
    BY <1>1, <1>3 DEF FormShape
  <2> HIDE DEF body
  <2> QED
    BY <2>1, <2>2
<1>5. "auth_key" \in DOMAIN body => body.auth_key \in Keys
  BY <1>1, <1>3 DEF FormShape, IsKey
<1> HIDE DEF body
<1>6. touched \subseteq Fields /\ "dark_mode" \in touched
  BY <1>1, FieldNames DEF FormShape
<1> HIDE DEF touched
<1>7. /\ r.kind = "save" /\ r.body = body /\ r.mounted /\ r.status = "sent"
      /\ r.key = store.key /\ r.touched = touched /\ r.fresh = page.fresh
      /\ r.done = {} /\ r \in SettingsRequests
  BY <1>1, <1>3, <1>4, <1>6 DEF SettingsRequest, SettingsRequests, IsKey, FormShape
<1> HIDE DEF r
<1>8. SettingsParts(r) /\ Due(r) /\ ~IsForm(r)
  BY <1>3, <1>5, <1>6, <1>7, PartsAreOfSettings DEF SettingsParts, IsForm
<1>9. PICK k \in Slots : requests[k] = None /\ requests' = [requests EXCEPT ![k] = r]
  BY <1>1, <1>2, PutFree
<1>10. requests'[k] = r /\ \A t \in Slots : t # k => requests'[t] = requests[t]
  BY <1>1, <1>9
<1>11. FormSame
  BY <1>2 DEF FormSame, OnSettings, On
<1>12. SettingsShape'
  BY <1>1, <1>2, <1>8, <1>9, <1>11, ShapeOne
<1>13. ASSUME smooth' PROVE (\A t \in Slots : ~Due(requests[t])) /\ OnItsWay(requests[k])'
  <2>1. smooth /\ \A t \in Slots : ~Due(requests[t])
    BY <1>2, <1>13 DEF Unsettled, Due, IsSettings
  <2>2. store.key = settings.auth_key /\ store.darkMode = settings.dark_mode
    BY <2>1 DEF SettingsInv, InStep, Agree
  <2> QED
    BY <1>2, <1>3, <1>7, <1>10, <2>1, <2>2 DEF OnItsWay
<1>14. InStep'
  BY <1>8, <1>10, <1>13, InStepSent
<1>15. FormsKnow'
  <2>1. FormsKnow
    BY DEF SettingsInv
  <2>2. ASSUME page.fresh
        PROVE  /\ \A t \in Slots : ~IsForm(requests[t])
               /\ \A f \in FormFields \ page.edited : page.form[f] = settings[f]
               /\ \A t \in Slots : Knows(requests[t]) => requests[t].touched \subseteq touched
    BY <2>1, <2>2 DEF FormsKnow, touched
  <2>3. Knows(r) => page.fresh
    BY <1>7 DEF Knows
  <2>4. \A f \in DOMAIN body \ touched : f \in FormFields \ page.edited /\ body[f] = page.form[f]
    BY <1>3 DEF touched
  <2>5. \A t \in Slots : IsForm(requests'[t]) => requests'[t] = requests[t] /\ IsForm(requests[t])
    BY <1>8, <1>10
  <2>6. \A j, t \in Slots : IsForm(requests'[j]) /\ IsForm(requests'[t]) => j = t
    BY <2>1, <2>5 DEF FormsKnow
  <2>7. \A t \in Slots : IsForm(requests'[t]) /\ requests'[t].fresh =>
          /\ requests'[t].status # "sent"
          /\ requests'[t].status = "ok" =>
                \A f \in FormFields : requests'[t].answer[f] = settings[f]
          /\ \A j \in Slots : ~Knows(requests'[j])
    BY <1>10, <2>1, <2>2, <2>3, <2>5 DEF FormsKnow
  <2>8. \A t \in Slots : Knows(requests'[t]) =>
          \A f \in DOMAIN requests'[t].body \ requests'[t].touched :
              requests'[t].body[f] = settings[f]
    BY <1>7, <1>10, <2>1, <2>2, <2>3, <2>4 DEF FormsKnow
  <2>9. page.fresh => /\ \A t \in Slots : ~IsForm(requests'[t])
                      /\ \A t \in Slots : Knows(requests'[t]) => requests'[t].touched \subseteq touched
    BY <1>7, <1>10, <2>2, <2>5
  <2> QED
    BY <1>2, <2>2, <2>6, <2>7, <2>8, <2>9 DEF FormsKnow, touched
<1> QED
  BY <1>12, <1>14, <1>15 DEF SettingsInv

(* A callback ends, and knows nothing about the settings or just what is   *)
(* the same on both sides.                                                 *)
LEMMA SettingsDrops ==
    ASSUME BaseInv, SettingsInv, NEW k \in Slots, requests' = Dropped(k), FormSame,
           UNCHANGED settings, smooth' => smooth,
           DOMAIN store' = DOMAIN store, IsKey(store'.key), store'.darkMode \in SettingValues,
           IF Due(requests[k]) THEN smooth' => Agree'
           ELSE store'.key = store.key /\ store'.darkMode = store.darkMode
    PROVE  SettingsInv'
<1>1. requests' = [requests EXCEPT ![k] = None] /\ DOMAIN requests = Slots
  BY DEF Dropped, BaseInv, RequestsProper
<1>2. requests'[k] = None /\ \A t \in Slots : t # k => requests'[t] = requests[t]
  BY <1>1
<1>3. ~Knows(None) /\ ~IsForm(None) /\ ~Due(None) /\ ~OfSettings(None)
  BY DEF Knows, IsForm, Due, OfSettings
<1>4. SettingsShape' /\ FormsKnow'
  BY <1>1, <1>3, ShapeOne, FormsOne
<1>5. InStep'
  <2>1. CASE Due(requests[k])
    BY <1>2, <1>3, <2>1, InStepAt
  <2>2. CASE ~Due(requests[k])
    BY <1>2, <1>3, <2>2, InStepSame
  <2> QED
    BY <2>1, <2>2
<1> QED
  BY <1>4, <1>5 DEF SettingsInv

(* What is known of a request of the settings that is under way.           *)
LEMMA DueFacts ==
    ASSUME SettingsInv, smooth, NEW k \in Slots, Due(requests[k])
    PROVE  /\ OnItsWay(requests[k]) /\ SettingsParts(requests[k])
           /\ \A t \in Slots : t # k => ~Due(requests[t])
BY DEF SettingsInv, InStep, SettingsShape, Due, IsSettings, OfSettings, SettingsKinds

(* The answer fills the form.                                              *)
LEMMA SettingsTake == ASSUME BaseInv, SettingsInv, NEW k \in Slots, TakeSettings(k) PROVE SettingsInv'
<1> DEFINE r == requests[k]
<1>1. /\ r # None /\ r.kind = "form" /\ r.status = "ok"
      /\ page' = [page EXCEPT !.form = FormOf(r.answer), !.edited = {}, !.fresh = r.fresh]
      /\ requests' = [requests EXCEPT ![k] = None] /\ UNCHANGED <<settings, store, smooth>>
  BY DEF TakeSettings, Answered, Dropped
<1>2. SettingsParts(r)
  BY <1>1 DEF SettingsInv, SettingsShape, OfSettings, SettingsKinds
<1>3. {"route", "form", "edited", "fresh"} \subseteq DOMAIN page
  BY <1>1 DEF BaseInv, RequestsProper, Proper, Parts
<1>4. /\ page'.form = FormOf(r.answer) /\ page'.edited = {} /\ page'.fresh = r.fresh
  BY <1>1, <1>3
<1>5. /\ \A f \in FormFields : FormOf(r.answer)[f] = r.answer[f]
      /\ FormOf(r.answer) \in [FormFields -> SettingValues]
      /\ IsKey(FormOf(r.answer).auth_key)
  BY <1>1, <1>2, FieldNames DEF SettingsParts, FormOf
<1>6. requests'[k] = None /\ \A t \in Slots : t # k => requests'[t] = requests[t]
  BY <1>1 DEF BaseInv, RequestsProper
<1>7. FormShape'
  BY <1>2, <1>4, <1>5 DEF FormShape, SettingsParts, SettingsRequests
<1>8. SettingsShape'
  BY <1>1, <1>6, <1>7 DEF SettingsInv, SettingsShape, OfSettings
<1>9. InStep'
  BY <1>1, <1>6, InStepSame DEF Due, IsSettings
<1>10. FormsKnow'
  <2>1. FormsKnow /\ IsForm(r)
    BY <1>1 DEF SettingsInv, IsForm
  <2>2. \A t \in Slots : ~IsForm(requests'[t])
    BY <1>6, <2>1 DEF FormsKnow, IsForm
  <2>3. r.fresh => /\ \A f \in FormFields : r.answer[f] = settings[f]
                   /\ \A t \in Slots : ~Knows(requests[t])
    BY <1>1, <2>1 DEF FormsKnow
  <2>4. \A t \in Slots : Knows(requests'[t]) => requests'[t] = requests[t]
    BY <1>6 DEF Knows
  <2>5. \A t \in Slots : Knows(requests'[t]) =>
          \A f \in DOMAIN requests'[t].body \ requests'[t].touched :
              requests'[t].body[f] = settings[f]
    BY <2>1, <2>4 DEF FormsKnow
  <2>6. page'.fresh => /\ \A f \in FormFields : page'.form[f] = settings[f]
                       /\ \A t \in Slots : ~Knows(requests'[t])
    BY <1>4, <1>5, <2>3, <2>4
  <2> HIDE DEF r
  <2> QED
    BY <1>1, <2>2, <2>5, <2>6 DEF FormsKnow
<1> QED
  BY <1>8, <1>9, <1>10 DEF SettingsInv

(* The effect of App.                                                      *)
LEMMA SettingsTakeApp ==
    ASSUME BaseInv, SettingsInv, NEW k \in Slots, TakeAppSettings(k)
    PROVE  SettingsInv'
<1> DEFINE r == requests[k]
<1>1. /\ r # None /\ r.kind = "app" /\ r.status = "ok"
      /\ store' = [store EXCEPT !.darkMode = r.answer.dark_mode,
                                !.themeColor = r.answer.theme_color]
      /\ requests' = Dropped(k) /\ UNCHANGED <<page, settings, smooth>>
  BY DEF TakeAppSettings, Answered
<1>2. SettingsParts(r) /\ Due(r)
  BY <1>1 DEF SettingsInv, SettingsShape, OfSettings, SettingsKinds, Due, IsSettings
<1>3. r.answer.dark_mode \in SettingValues
  BY <1>1, <1>2, FieldNames DEF SettingsParts
<1>4. /\ DOMAIN store' = DOMAIN store /\ store'.key = store.key
      /\ store'.darkMode = r.answer.dark_mode /\ IsKey(store.key)
  BY <1>1 DEF SettingsInv, SettingsShape
<1>5. FormSame
  BY <1>1 DEF FormSame, OnSettings, On
<1>6. smooth' => Agree'
  BY <1>1, <1>2, <1>4, DueFacts DEF OnItsWay, Agree
<1> QED
  BY <1>1, <1>2, <1>3, <1>4, <1>5, <1>6, SettingsDrops

(* The form was saved.                                                     *)
LEMMA SettingsSaved == ASSUME BaseInv, SettingsInv, NEW k \in Slots, Saved(k) PROVE SettingsInv'
<1> DEFINE r == requests[k]
           key == NewKey(r)
           app == [SettingsRequest("app", NoBody) EXCEPT !.key = key]
<1>1. /\ r # None /\ r.kind = "save" /\ r.status = "ok" /\ r.mounted
      /\ store' = [store EXCEPT !.themeColor = r.body.theme_color,
                                !.key = IF key # None THEN key ELSE @]
      /\ requests' = IF key = None THEN Dropped(k) ELSE [requests EXCEPT ![k] = app]
      /\ UNCHANGED <<page, settings, smooth>>
  BY DEF Saved, Answered
<1>2. SettingsParts(r) /\ Due(r)
  BY <1>1 DEF SettingsInv, SettingsShape, OfSettings, SettingsKinds, Due, IsSettings
<1>3. /\ key # None => "auth_key" \in DOMAIN r.body /\ key = r.body.auth_key /\ key \in Keys
      /\ key = None => ("auth_key" \in DOMAIN r.body => r.body.auth_key = r.key)
  BY <1>1, <1>2, BlankAssumption DEF NewKey, SettingsParts
<1>4. /\ DOMAIN store' = DOMAIN store /\ store'.darkMode = store.darkMode
      /\ store'.key = IF key # None THEN key ELSE store.key
      /\ IsKey(store.key) /\ IsKey(store'.key) /\ store.darkMode \in SettingValues
  BY <1>1, <1>3 DEF SettingsInv, SettingsShape, IsKey
<1>5. FormSame
  BY <1>1 DEF FormSame, OnSettings, On
<1>6. smooth => /\ settings.auth_key = store'.key /\ settings.dark_mode = store.darkMode
                /\ \A t \in Slots : t # k => ~Due(requests[t])
  BY <1>1, <1>2, <1>3, <1>4, DueFacts DEF OnItsWay, SettingsParts
<1>7. CASE key = None
  <2>1. smooth' => Agree'
    BY <1>1, <1>4, <1>6 DEF Agree
  <2>2. requests' = Dropped(k) /\ UNCHANGED settings
    BY <1>1, <1>7
  <2> QED
    BY <1>1, <1>2, <1>4, <1>5, <2>1, <2>2, SettingsDrops
<1>8. CASE key # None
  <2>1. NoBody \in [{} -> SettingValues] /\ {} \subseteq Fields
    BY DEF NoBody
  <2>2. key \in Keys
    BY <1>3, <1>8
  <2> HIDE DEF key
  <2>3. /\ app \in SettingsRequests /\ app.kind = "app" /\ app.mounted /\ app.status = "sent"
        /\ app.key = key
    BY <2>1, <2>2 DEF SettingsRequest, SettingsRequests
  <2> HIDE DEF app
  <2>4. SettingsParts(app) /\ Due(app) /\ ~IsForm(app) /\ ~Knows(app)
    BY <2>3, PartsAreOfSettings DEF SettingsParts, IsForm, Knows
  <2>5. requests' = [requests EXCEPT ![k] = app]
    BY <1>1, <1>8
  <2>6. requests'[k] = app /\ \A t \in Slots : t # k => requests'[t] = requests[t]
    BY <2>5 DEF BaseInv, RequestsProper
  <2>7. SettingsShape' /\ FormsKnow'
    BY <1>1, <1>4, <1>5, <2>4, <2>5, ShapeOne, FormsOne
  <2>8. smooth' => OnItsWay(requests[k])'
    BY <1>1, <1>4, <1>6, <1>8, <2>3, <2>6 DEF OnItsWay
  <2>9. InStep'
    BY <1>1, <1>6, <2>4, <2>6, <2>8, InStepSent
  <2> QED
    BY <2>7, <2>9 DEF SettingsInv
<1> QED
  BY <1>7, <1>8

(* The answer to the switch, a failure, and what nobody waits for.         *)
LEMMA SettingsIgnores ==
    ASSUME BaseInv, SettingsInv, NEW k \in Slots, SettingsIgnored(k) \/ Unheard(k)
    PROVE  SettingsInv'
<1> DEFINE r == requests[k]
<1>1. /\ r # None /\ requests' = Dropped(k) /\ UNCHANGED <<page, settings, store, smooth>>
      /\ \/ r.kind = "dark" /\ r.status = "ok"
         \/ r.status = "failed"
         \/ ~r.mounted
  BY DEF SettingsIgnored, Unheard, Answered, Refused
<1>2. FormSame
  BY <1>1 DEF FormSame, OnSettings, On
<1>3. IsKey(store.key) /\ store.darkMode \in SettingValues
  BY DEF SettingsInv, SettingsShape
<1>4. ASSUME Due(r), smooth PROVE Agree'
  BY <1>1, <1>4, DueFacts DEF OnItsWay, Agree
<1> QED
  BY <1>1, <1>2, <1>3, <1>4, SettingsDrops

(* A request of the settings fails, or is refused.                         *)
LEMMA SettingsFail ==
    ASSUME BaseInv, SettingsInv, NEW k \in Slots, OfSettings(requests[k]),
           requests' = Refuses(k), UNCHANGED <<page, store, settings>>,
           smooth' => smooth /\ ~Due(requests[k])
    PROVE  SettingsInv'
<1> DEFINE r == requests[k]
           q == [r EXCEPT !.status = "failed"]
<1>1. SettingsParts(r) /\ requests' = [requests EXCEPT ![k] = q]
  BY DEF SettingsInv, SettingsShape, Refuses
<1>2. OfSettings(r) /\ (smooth' => ~Due(r))
  OBVIOUS
<1> HIDE DEF r
<1>3. /\ q \in SettingsRequests /\ q.status = "failed" /\ q.kind = r.kind /\ q.fresh = r.fresh
      /\ q.body = r.body /\ q.touched = r.touched
  BY <1>1 DEF SettingsParts, SettingsRequests
<1> HIDE DEF q
<1>4. SettingsParts(q) /\ ~Knows(q)
  BY <1>1, <1>3 DEF SettingsParts, Knows
<1>5. IsForm(q) => IsForm(r)
  BY <1>2, <1>3 DEF IsForm, OfSettings
<1>6. FormSame
  BY DEF FormSame, OnSettings, On
<1>7. SettingsShape' /\ FormsKnow'
  <2>1. IsKey(store.key) /\ store.darkMode \in SettingValues
    BY DEF SettingsInv, SettingsShape
  <2> USE DEF r
  <2>2. IsForm(q) => IsForm(requests[k]) /\ q.fresh = requests[k].fresh /\ q.status = "failed"
    BY <1>3, <1>5
  <2> QED
    BY <1>1, <1>4, <1>6, <2>1, <2>2, ShapeOne, FormsOne
<1>8. smooth' => ~Due(q)
  BY <1>2, <1>3 DEF Due, IsSettings, OfSettings
<1>9. requests'[k] = q /\ \A t \in Slots : t # k => requests'[t] = requests[t]
  BY <1>1 DEF BaseInv, RequestsProper
<1>10. InStep'
  BY <1>2, <1>8, <1>9 DEF SettingsInv, InStep, Agree, OnItsWay, r
<1> QED
  BY <1>7, <1>10 DEF SettingsInv

(* The settings are read.                                                  *)
LEMMA SettingsRead ==
    ASSUME BaseInv, SettingsInv, NEW k \in Slots, ServeSettings(k)
    PROVE  SettingsInv'
<1> DEFINE r == requests[k]
           current == Writing = {}
           q == [r EXCEPT !.status = "ok", !.answer = settings, !.fresh = current]
<1>1. /\ r # None /\ r.kind \in {"form", "app"} /\ r.status = "sent"
      /\ requests' = IF validKey(r)
                     THEN [Answers(k, settings) EXCEPT ![k].fresh = current] ELSE Refuses(k)
      /\ UNCHANGED <<page, settings, store, smooth>>
  BY DEF ServeSettings, Waiting
<1>2. OfSettings(r) /\ SettingsParts(r) /\ DOMAIN requests = Slots
  BY <1>1 DEF BaseInv, RequestsProper, SettingsInv, SettingsShape, OfSettings, SettingsKinds
<1>3. settings \in [Fields -> SettingValues] /\ IsKey(settings.auth_key)
  BY DEF SettingsInv, SettingsShape
<1>4. FormSame
  BY <1>1 DEF FormSame, OnSettings, On
<1>5. CASE ~validKey(r)
  <2>1. smooth' => smooth /\ ~Due(r)
    BY <1>1, <1>5, DueFacts DEF OnItsWay, validKey, Due, IsSettings
  <2> QED
    BY <1>1, <1>2, <1>5, <2>1, SettingsFail
<1>6. CASE validKey(r)
  <2>1. requests' = [requests EXCEPT ![k] = q]
    BY <1>1, <1>2, <1>6 DEF Answers
  <2>2. current \in BOOLEAN
    OBVIOUS
  <2>3. ASSUME current, NEW t \in Slots PROVE ~Knows(requests[t])
    BY <2>3 DEF Writing, Unsettled, Waiting, Knows
  <2> HIDE DEF r, current
  <2>4. /\ q \in SettingsRequests /\ q.status = "ok" /\ q.kind = r.kind /\ q.fresh = current
        /\ q.answer = settings /\ q.mounted = r.mounted /\ q.key = r.key
    BY <1>2, <1>3, <2>2 DEF SettingsParts, SettingsRequests
  <2> HIDE DEF q
  <2>5. SettingsParts(q) /\ ~Knows(q) /\ q # None
    BY <1>1, <1>3, <2>4, NoRequestAssumption DEF SettingsParts, Knows
  <2>6. requests'[k] = q /\ \A t \in Slots : t # k => requests'[t] = requests[t]
    BY <1>2, <2>1
  <2>7. SettingsShape'
    <3>1. IsKey(store.key) /\ store.darkMode \in SettingValues
      BY DEF SettingsInv, SettingsShape
    <3> QED
      BY <1>1, <1>4, <2>1, <2>5, <3>1, ShapeOne
  <2>8. InStep'
    <3>1. CASE r.kind = "form"
      BY <1>1, <2>4, <2>6, <3>1, InStepSame DEF Due, IsSettings, r
    <3>2. CASE r.kind = "app"
      <4>1. Due(q) /\ Due(requests[k]) /\ requests[k] = r
        BY <1>1, <2>4, <2>5, <3>2 DEF Due, IsSettings, r
      <4>2. smooth' => OnItsWay(requests[k])'
        BY <1>1, <2>4, <2>6, <3>2, <4>1, DueFacts DEF OnItsWay
      <4> QED
        BY <1>1, <2>6, <4>1, <4>2, InStepAt
    <3> QED
      BY <1>1, <3>1, <3>2
  <2>9. FormsKnow'
    <3>1. FormsKnow
      BY DEF SettingsInv
    <3>2. \A t \in Slots : /\ Knows(requests'[t]) => requests'[t] = requests[t]
                           /\ IsForm(requests'[t]) <=> IsForm(requests[t])
      BY <1>1, <2>4, <2>5, <2>6 DEF IsForm, r
    <3>3. \A j, t \in Slots : IsForm(requests'[j]) /\ IsForm(requests'[t]) => j = t
      BY <3>1, <3>2 DEF FormsKnow
    <3>4. \A t \in Slots : IsForm(requests'[t]) /\ requests'[t].fresh =>
            /\ requests'[t].status # "sent"
            /\ requests'[t].status = "ok" =>
                  \A f \in FormFields : requests'[t].answer[f] = settings[f]
            /\ \A j \in Slots : ~Knows(requests'[j])
      BY <2>3, <2>4, <2>6, <3>1, <3>2 DEF FormsKnow
    <3>5. \A t \in Slots : Knows(requests'[t]) =>
            \A f \in DOMAIN requests'[t].body \ requests'[t].touched :
                requests'[t].body[f] = settings[f]
      BY <3>1, <3>2 DEF FormsKnow
    <3>6. ASSUME OnSettings, page.fresh
          PROVE  /\ \A t \in Slots : ~IsForm(requests'[t])
                 /\ \A f \in FormFields \ page.edited : page.form[f] = settings[f]
                 /\ \A t \in Slots : Knows(requests'[t]) =>
                       requests'[t].touched \subseteq page.edited \cup {"dark_mode"}
      BY <3>1, <3>2, <3>6 DEF FormsKnow
    <3>7. page' = page /\ settings' = settings /\ (OnSettings' <=> OnSettings)
      BY <1>1 DEF OnSettings, On
    <3> HIDE DEF r
    <3> QED
      BY <3>3, <3>4, <3>5, <3>6, <3>7 DEF FormsKnow
  <2> QED
    BY <2>7, <2>8, <2>9 DEF SettingsInv
<1> QED
  BY <1>5, <1>6

(* What is marked as old is the same request but for the mark.             *)
ButFresh(q, r) ==
    /\ q.kind = r.kind /\ q.status = r.status /\ q.mounted = r.mounted /\ q.key = r.key
    /\ q.body = r.body /\ q.done = r.done /\ q.touched = r.touched /\ q.answer = r.answer

LEMMA OutdatedSettings ==
    ASSUME SettingsInv, NEW kinds \in {{"form"}, {"form", "save"}}, NEW k \in Slots
    PROVE  /\ ~OfSettings(requests[k]) => Outdated(kinds)[k] = requests[k]
           /\ OfSettings(requests[k]) =>
                 /\ SettingsParts(Outdated(kinds)[k]) /\ ButFresh(Outdated(kinds)[k], requests[k])
                 /\ requests[k].kind \in kinds => Outdated(kinds)[k].fresh = FALSE
                 /\ requests[k].kind \notin kinds => Outdated(kinds)[k] = requests[k]
<1> DEFINE r == requests[k]
           q == [r EXCEPT !.fresh = FALSE]
<1>1. Outdated(kinds)[k] = IF r # None /\ r.kind \in kinds THEN q ELSE r
  BY DEF Outdated
<1>2. OfSettings(r) => SettingsParts(r)
  BY DEF SettingsInv, SettingsShape
<1>3. kinds \subseteq SettingsKinds
  BY DEF SettingsKinds
<1> HIDE DEF r
<1>4. ASSUME OfSettings(r) PROVE SettingsParts(q) /\ ButFresh(q, r) /\ q.fresh = FALSE
  <2>1. q \in SettingsRequests /\ ButFresh(q, r) /\ q.fresh = FALSE
    BY <1>2, <1>4 DEF SettingsParts, SettingsRequests, ButFresh
  <2> HIDE DEF q
  <2> QED
    BY <1>2, <1>4, <2>1 DEF SettingsParts, ButFresh
<1>5. ButFresh(r, r)
  BY DEF ButFresh
<1> HIDE DEF q
<1> QED
  BY <1>1, <1>2, <1>3, <1>4, <1>5 DEF OfSettings, r

LEMMA OutdatedKeeps ==
    ASSUME SettingsInv, NEW kinds \in {{"form"}, {"form", "save"}}, NEW k \in Slots
    PROVE  /\ Due(Outdated(kinds)[k]) <=> Due(requests[k])
           /\ IsForm(Outdated(kinds)[k]) <=> IsForm(requests[k])
           /\ IsForm(Outdated(kinds)[k]) => ~Outdated(kinds)[k].fresh
           /\ Knows(Outdated(kinds)[k]) => "save" \notin kinds /\ Outdated(kinds)[k] = requests[k]
<1> DEFINE q == Outdated(kinds)[k]
           r == requests[k]
<1>1. /\ ~OfSettings(r) => q = r
      /\ OfSettings(r) =>
            /\ SettingsParts(q) /\ ButFresh(q, r)
            /\ r.kind \in kinds => q.fresh = FALSE
            /\ r.kind \notin kinds => q = r
  BY OutdatedSettings
<1> HIDE DEF q, r
<1>2. CASE ~OfSettings(r)
  BY <1>1, <1>2 DEF OfSettings, SettingsKinds, Due, IsSettings, IsForm, Knows, q, r
<1>3. CASE OfSettings(r)
  <2>1. q # None
    BY <1>1, <1>3, PartsAreOfSettings DEF OfSettings
  <2> QED
    BY <1>1, <1>3, <2>1 DEF OfSettings, Due, IsSettings, IsForm, Knows, ButFresh, q, r
<1> QED
  BY <1>2, <1>3

(* One setting is written.                                                 *)
LEMMA SettingsWrite ==
    ASSUME BaseInv, SettingsInv, NEW k \in Slots, NEW f \in Fields, WriteSetting(k, f)
    PROVE  SettingsInv'
<1> DEFINE r == requests[k]
           kinds == IF r.kind = "dark" THEN {"form"} ELSE {"form", "save"}
           one == [r EXCEPT !.done = @ \cup {f}]
           full == [one EXCEPT !.status = "ok"]
           q == IF one.done = DOMAIN r.body THEN full ELSE one
<1>1. /\ r # None /\ r.kind \in {"save", "dark"} /\ r.status = "sent" /\ f \in DOMAIN r.body
      /\ settings' = IF Accepts(f, r.body[f]) THEN [settings EXCEPT ![f] = r.body[f]]
                     ELSE settings
      /\ page' = IF OnSettings /\ ~r.fresh THEN [page EXCEPT !.fresh = FALSE] ELSE page
      /\ UNCHANGED <<store, smooth>>
  BY DEF WriteSetting, Waiting
<1>2. requests' = LET written == [Outdated(kinds) EXCEPT ![k] = one]
                  IN  IF written[k].done = DOMAIN r.body
                      THEN [written EXCEPT ![k].status = "ok"] ELSE written
  BY DEF WriteSetting
<1>3. kinds \in {{"form"}, {"form", "save"}} /\ (r.kind = "save" => "save" \in kinds)
  BY <1>1
<1> HIDE DEF kinds, one
<1>4. requests'[k] = q /\ \A t \in Slots : t # k => requests'[t] = Outdated(kinds)[t]
  BY <1>2 DEF Outdated
<1>5. SettingsParts(r) /\ Due(r)
  BY <1>1 DEF SettingsInv, SettingsShape, OfSettings, SettingsKinds, Due, IsSettings
<1> USE DEF one
<1>6. /\ q.kind = r.kind /\ q.mounted = r.mounted /\ q.key = r.key /\ q.body = r.body
      /\ q.touched = r.touched /\ q.fresh = r.fresh /\ q.done = r.done \cup {f}
      /\ q.status \in {"sent", "ok"} /\ (q.status = "ok" => q.done = DOMAIN q.body)
      /\ q \in SettingsRequests
  <2> HIDE DEF r
  <2>1. DOMAIN r.body \subseteq Fields
    BY <1>5 DEF SettingsParts, SettingsRequests
  <2> QED
    BY <1>1, <1>5, <2>1 DEF SettingsParts, SettingsRequests
<1> HIDE DEF one, q
<1>7. SettingsParts(q) /\ Due(q) /\ ~IsForm(q)
  <2>1. SettingsParts(q)
    BY <1>1, <1>5, <1>6 DEF SettingsParts
  <2> QED
    BY <1>1, <1>6, <2>1, PartsAreOfSettings DEF IsForm
<1>8. /\ settings' \in [Fields -> SettingValues] /\ IsKey(settings'.auth_key)
      /\ \A g \in Fields : g # f => settings'[g] = settings[g]
      /\ settings'[f] \in {settings[f], r.body[f]}
      /\ r.body[f] # Blank \/ f # "auth_key" => settings'[f] = r.body[f]
  <2>1. r.body[f] \in SettingValues /\ (f = "auth_key" => IsKey(r.body[f]))
    <3>1. r.body \in UNION {[fields -> SettingValues] : fields \in SUBSET Fields}
      BY <1>5 DEF SettingsParts, SettingsRequests
    <3> QED
      BY <1>1, <1>5, <3>1 DEF SettingsParts, IsKey
  <2>2. settings \in [Fields -> SettingValues] /\ IsKey(settings.auth_key)
    BY DEF SettingsInv, SettingsShape
  <2> HIDE DEF r
  <2> QED
    BY <1>1, <2>1, <2>2, FieldNames DEF Accepts
<1>9. /\ \A t \in Slots : Due(requests'[t]) <=> Due(requests[t])
      /\ \A t \in Slots : IsForm(requests'[t]) <=> IsForm(requests[t])
      /\ \A t \in Slots : IsForm(requests'[t]) => ~requests'[t].fresh
  <2>1. Due(r) /\ ~IsForm(r)
    BY <1>1, <1>5 DEF IsForm
  <2>2. \A t \in Slots : t # k =>
            /\ Due(requests'[t]) <=> Due(requests[t])
            /\ IsForm(requests'[t]) <=> IsForm(requests[t])
            /\ IsForm(requests'[t]) => ~requests'[t].fresh
    BY <1>3, <1>4, OutdatedKeeps
  <2>3. Due(requests'[k]) /\ ~IsForm(requests'[k])
    BY <1>4, <1>7
  <2> QED
    BY <2>1, <2>2, <2>3
<1>10. SettingsShape'
  <2>1. \A t \in Slots : OfSettings(requests'[t]) => SettingsParts(requests'[t])
    <3> SUFFICES ASSUME NEW t \in Slots, OfSettings(requests'[t])
                 PROVE  SettingsParts(requests'[t])
      OBVIOUS
    <3> QED
      BY <1>3, <1>4, <1>7, OutdatedSettings
  <2>2. OnSettings' => FormShape'
    BY <1>1 DEF SettingsInv, SettingsShape, FormShape, OnSettings, On, BaseInv, Parts
  <2> QED
    BY <1>1, <1>8, <2>1, <2>2 DEF SettingsInv, SettingsShape
<1>11. InStep'
  <2>1. ASSUME smooth PROVE OnItsWay(requests[k])'
    <3>1. OnItsWay(r)
      BY <1>5, <2>1, DueFacts
    <3>2. CASE r.kind = "dark"
      <4>1. f = "dark_mode"
        BY <1>1, <1>5, <3>2 DEF SettingsParts
      <4>2. settings'.dark_mode = r.body.dark_mode /\ settings'.auth_key = settings.auth_key
        BY <1>8, <4>1, FieldNames
      <4> HIDE DEF r
      <4> QED
        BY <1>1, <1>4, <1>6, <3>1, <3>2, <4>2 DEF OnItsWay
    <3>3. CASE r.kind = "save"
      <4>1. f = "auth_key" => settings'.auth_key = r.body.auth_key
        BY <1>1, <1>5, <1>8, <3>3, BlankAssumption DEF SettingsParts
      <4>2. f # "auth_key" => settings'.auth_key = settings.auth_key
        BY <1>8, FieldNames
      <4>3. settings'.dark_mode = settings.dark_mode
        BY <1>8, <3>1, <3>3, FieldNames DEF OnItsWay
      <4> HIDE DEF r
      <4> QED
        BY <1>1, <1>4, <1>6, <3>1, <3>3, <4>1, <4>2, <4>3 DEF OnItsWay
    <3> QED
      BY <1>1, <3>2, <3>3
  <2>2. Due(requests'[k])
    BY <1>4, <1>7
  <2> QED
    BY <1>1, <1>5, <1>9, <2>1, <2>2, InStepAt
<1>12. FormsKnow'
  <2>1. FormsKnow
    BY DEF SettingsInv
  <2>2. Knows(q) => Knows(r)
    BY <1>1, <1>6 DEF Knows
  <2>3. Knows(r) => \A g \in DOMAIN r.body \ r.touched : r.body[g] = settings[g]
    BY <2>1 DEF FormsKnow
  <2>4. Knows(r) /\ f \notin r.touched => settings'[f] = settings[f]
    BY <1>1, <1>8, <2>3
  <2>5. r.kind = "dark" => f = "dark_mode"
    BY <1>1, <1>5 DEF SettingsParts
  <2>6. \A t \in Slots : t # k /\ Knows(requests'[t]) =>
            requests'[t] = requests[t] /\ f = "dark_mode" /\ f \in requests[t].touched
    <3> SUFFICES ASSUME NEW t \in Slots, t # k, Knows(requests'[t])
                 PROVE  requests'[t] = requests[t] /\ f = "dark_mode" /\ f \in requests[t].touched
      OBVIOUS
    <3>1. requests'[t] = requests[t] /\ "save" \notin kinds
      BY <1>3, <1>4, OutdatedKeeps
    <3>2. SettingsParts(requests[t])
      BY <3>1 DEF SettingsInv, SettingsShape, OfSettings, SettingsKinds, Knows
    <3> QED
      BY <1>1, <1>3, <2>5, <3>1, <3>2 DEF SettingsParts, Knows
  <2>7. \A j, t \in Slots : IsForm(requests'[j]) /\ IsForm(requests'[t]) => j = t
    BY <1>9, <2>1 DEF FormsKnow
  <2>8. \A t \in Slots : Knows(requests'[t]) =>
          \A g \in DOMAIN requests'[t].body \ requests'[t].touched :
              requests'[t].body[g] = settings'[g]
    <3>1. ASSUME NEW t \in Slots, t # k, Knows(requests'[t]),
                 NEW g \in DOMAIN requests'[t].body \ requests'[t].touched
          PROVE  requests'[t].body[g] = settings'[g]
      <4>1. requests'[t] = requests[t] /\ f \in requests[t].touched
        BY <2>6, <3>1
      <4>2. requests[t].body[g] = settings[g] /\ g # f
        BY <2>1, <3>1, <4>1 DEF FormsKnow
      <4>3. g \in Fields
        <5>1. SettingsParts(requests[t])
          BY <3>1, <4>1 DEF SettingsInv, SettingsShape, OfSettings, SettingsKinds, Knows
        <5> QED
          BY <3>1, <4>1, <5>1 DEF SettingsParts, SettingsRequests
      <4> QED
        BY <1>8, <4>1, <4>2, <4>3
    <3>2. ASSUME Knows(q), NEW g \in DOMAIN q.body \ q.touched PROVE q.body[g] = settings'[g]
      <4>1. r.body[g] = settings[g]
        BY <1>6, <2>2, <2>3, <3>2
      <4>2. g \in Fields
        BY <1>6, <3>2 DEF SettingsRequests
      <4>3. g = f => settings'[f] = settings[f]
        BY <1>6, <2>2, <2>4, <3>2
      <4> QED
        BY <1>6, <1>8, <4>1, <4>2, <4>3
    <3> QED
      BY <1>4, <3>1, <3>2
  <2>9. ASSUME OnSettings', page'.fresh
        PROVE  /\ \A t \in Slots : ~IsForm(requests'[t])
               /\ \A g \in FormFields \ page'.edited : page'.form[g] = settings'[g]
               /\ \A t \in Slots : Knows(requests'[t]) =>
                     requests'[t].touched \subseteq page'.edited \cup {"dark_mode"}
    <3>1. page' = page /\ OnSettings /\ r.fresh
      BY <1>1, <2>9 DEF OnSettings, On, BaseInv, Parts
    <3>2. /\ \A t \in Slots : ~IsForm(requests[t])
          /\ \A g \in FormFields \ page.edited : page.form[g] = settings[g]
          /\ \A t \in Slots : Knows(requests[t]) =>
                requests[t].touched \subseteq page.edited \cup {"dark_mode"}
      BY <2>1, <2>9, <3>1 DEF FormsKnow
    <3>3. f \in FormFields \ page.edited => settings'[f] = settings[f]
      <4>1. r.kind = "dark" => f \notin FormFields
        BY <2>5, FieldNames
      <4>2. r.kind = "save" => Knows(r)
        BY <1>1, <3>1 DEF Knows
      <4>3. Knows(r) => r.touched \subseteq page.edited \cup {"dark_mode"}
        BY <3>2
      <4> QED
        BY <1>1, <2>4, <4>1, <4>2, <4>3, FieldNames
    <3>4. \A g \in FormFields \ page.edited : settings'[g] = settings[g]
      BY <1>8, <3>3, FieldNames
    <3>5. \A t \in Slots : Knows(requests'[t]) =>
              Knows(requests[t]) /\ requests'[t].touched = requests[t].touched
      BY <1>4, <1>6, <2>2, <2>6
    <3> QED
      BY <1>9, <3>1, <3>2, <3>4, <3>5
  <2> HIDE DEF r
  <2> QED
    BY <1>9, <2>7, <2>8, <2>9 DEF FormsKnow
<1> QED
  BY <1>10, <1>11, <1>12 DEF SettingsInv

(* Somebody else writes a setting.                                         *)
LEMMA SettingsElsewhere == ASSUME BaseInv, SettingsInv, InterfereSettings PROVE SettingsInv'
<1> DEFINE kinds == {"form", "save"}
<1>0. PICK f \in Fields : \E v \in Values[f] : WriteElsewhere(f, v)
  BY DEF InterfereSettings
<1>1. PICK v \in Values[f] : WriteElsewhere(f, v)
  BY <1>0
<1>2. /\ Accepts(f, v) /\ settings' = [settings EXCEPT ![f] = v]
      /\ page' = IF OnSettings THEN [page EXCEPT !.fresh = FALSE] ELSE page
      /\ requests' = Outdated(kinds) /\ UNCHANGED store
      /\ smooth' = (smooth /\ f \notin {"auth_key", "dark_mode"})
  BY <1>1 DEF WriteElsewhere
<1>3. kinds \in {{"form"}, {"form", "save"}}
  OBVIOUS
<1>4. v \in SettingValues /\ (f = "auth_key" => IsKey(v))
  BY DefaultsAssumption DEF SettingValues, Fields, IsKey, Values
<1>5. SettingsShape'
  <2>1. settings' \in [Fields -> SettingValues] /\ IsKey(settings'.auth_key)
    BY <1>2, <1>4, FieldNames DEF SettingsInv, SettingsShape, IsKey
  <2>2. \A t \in Slots : OfSettings(requests'[t]) => SettingsParts(requests'[t])
    BY <1>2, <1>3, OutdatedSettings
  <2>3. OnSettings' => FormShape'
    BY <1>2 DEF SettingsInv, SettingsShape, FormShape, OnSettings, On, BaseInv, Parts
  <2> QED
    BY <1>2, <2>1, <2>2, <2>3 DEF SettingsInv, SettingsShape
<1>6. InStep'
  <2> SUFFICES ASSUME smooth'
               PROVE  /\ \A k, t \in Slots : Due(requests'[k]) /\ Due(requests'[t]) => k = t
                      /\ (\A k \in Slots : ~Due(requests'[k])) => Agree'
                      /\ \A k \in Slots : Due(requests'[k]) => OnItsWay(requests[k])'
    BY DEF InStep
  <2>1. smooth /\ settings'.auth_key = settings.auth_key /\ settings'.dark_mode = settings.dark_mode
    BY <1>2, FieldNames DEF SettingsInv, SettingsShape
  <2>2. \A t \in Slots : Due(requests'[t]) <=> Due(requests[t])
    BY <1>2, <1>3, OutdatedKeeps
  <2>3. ASSUME NEW k \in Slots, Due(requests'[k]) PROVE OnItsWay(requests[k])'
    <3>1. Due(requests[k]) /\ OnItsWay(requests[k])
      BY <2>1, <2>2, <2>3, DueFacts
    <3>2. ButFresh(requests'[k], requests[k])
      BY <1>2, <1>3, <3>1, OutdatedSettings DEF Due, IsSettings, OfSettings, SettingsKinds
    <3> QED
      BY <1>2, <2>1, <3>1, <3>2 DEF OnItsWay, ButFresh
  <2> QED
    BY <1>2, <2>1, <2>2, <2>3 DEF SettingsInv, InStep, Agree
<1>7. FormsKnow'
  <2>1. \A t \in Slots : /\ IsForm(requests'[t]) <=> IsForm(requests[t])
                         /\ IsForm(requests'[t]) => ~requests'[t].fresh
                         /\ ~Knows(requests'[t])
    BY <1>2, <1>3, OutdatedKeeps
  <2>2. ~(OnSettings' /\ page'.fresh)
    BY <1>2 DEF OnSettings, On, BaseInv, Parts
  <2> QED
    BY <2>1, <2>2 DEF SettingsInv, FormsKnow
<1> QED
  BY <1>5, <1>6, <1>7 DEF SettingsInv

(* A page is opened, and the forms of the last one are gone.               *)
LEMMA FormsGone ==
    ASSUME SettingsInv, UNCHANGED settings, ~(OnSettings' /\ page'.fresh),
           \A k, t \in Slots : IsForm(requests'[k]) /\ IsForm(requests'[t]) => k = t,
           \A t \in Slots : IsForm(requests'[t]) => ~requests'[t].fresh,
           \A t \in Slots : Knows(requests'[t]) =>
               /\ Knows(requests[t]) /\ requests'[t].body = requests[t].body
               /\ requests'[t].touched = requests[t].touched
    PROVE  FormsKnow'
BY DEF SettingsInv, FormsKnow

LEMMA AbandonedSettings ==
    ASSUME BaseInv, SettingsInv, NEW heard, heard \subseteq {"save", "dark", "app"}, NEW k \in Slots
    PROVE  /\ ~IsForm(Abandoned(heard)[k])
           /\ OfSettings(Abandoned(heard)[k]) =>
                 /\ OfSettings(requests[k]) /\ SettingsParts(Abandoned(heard)[k])
                 /\ Abandoned(heard)[k].kind = requests[k].kind
                 /\ Abandoned(heard)[k].body = requests[k].body
                 /\ Abandoned(heard)[k].touched = requests[k].touched
                 /\ Abandoned(heard)[k].status = requests[k].status
                 /\ Abandoned(heard)[k].fresh = requests[k].fresh
           /\ requests[k] # None /\ requests[k].kind \in heard =>
                 Abandoned(heard)[k] = requests[k]
<1> DEFINE r == requests[k]
           q == [r EXCEPT !.mounted = FALSE]
           a == Abandoned(heard)[k]
<1>1. /\ \/ a = None
         \/ r # None /\ a = r /\ r.kind \in heard
         \/ /\ r # None /\ a = q
            /\ r.kind \in (Changing \ {"detail"}) \cup {"save", "dark"} /\ r.kind \notin heard
      /\ r # None /\ r.kind \in heard => a = r
  BY DEF Abandoned
<1>2. OfSettings(r) => SettingsParts(r)
  BY DEF SettingsInv, SettingsShape
<1>3. r # None => Proper(r, page.route)
  BY DEF BaseInv, RequestsProper
<1> HIDE DEF r, a
<1>4. CASE a = None
  BY <1>1, <1>4 DEF IsForm, OfSettings, a, r
<1>5. CASE r # None /\ a = r /\ r.kind \in heard
  BY <1>1, <1>2, <1>5 DEF IsForm, a, r
<1>6. CASE /\ r # None /\ a = q /\ r.kind \notin heard
           /\ r.kind \in (Changing \ {"detail"}) \cup {"save", "dark"}
  <2>1. q.kind = r.kind
    BY <1>3, <1>6 DEF Proper
  <2>2. ASSUME OfSettings(r)
        PROVE  /\ q \in SettingsRequests /\ q.body = r.body /\ q.touched = r.touched
               /\ q.status = r.status /\ q.fresh = r.fresh /\ q.done = r.done
               /\ q.answer = r.answer
    BY <1>2, <2>2 DEF SettingsParts, SettingsRequests
  <2> HIDE DEF q
  <2>3. OfSettings(r) => SettingsParts(q)
    BY <1>2, <2>1, <2>2 DEF SettingsParts
  <2>4. OfSettings(q) => OfSettings(r)
    BY <1>6, <2>1 DEF OfSettings
  <2>5. ~IsForm(q)
    BY <1>6, <2>1 DEF IsForm, Changing
  <2> QED
    BY <1>1, <1>6, <2>1, <2>2, <2>3, <2>4, <2>5 DEF a, r
<1> QED
  BY <1>1, <1>4, <1>5, <1>6

LEMMA SettingsNavigate ==
    ASSUME BaseInv, SettingsInv, NEW route, Navigate(route)
    PROVE  SettingsInv'
<1> DEFINE heard == {"save", "dark", "app"}
           left == Abandoned(heard)
           form == SettingsRequest("form", NoBody)
<1>1. /\ Mount(route, left) /\ Free(left) # {} /\ UNCHANGED <<settings, store, smooth>>
      /\ DOMAIN left = Slots
  BY DEF Navigate, Abandoned
<1>2. \A t \in Slots : /\ ~IsForm(left[t])
                       /\ OfSettings(left[t]) => OfSettings(requests[t]) /\ left[t].kind = requests[t].kind
                       /\ requests[t] # None /\ requests[t].kind \in heard => left[t] = requests[t]
  BY AbandonedSettings
<1> HIDE DEF left
<1>3. \A t \in Slots : Due(left[t]) \/ Due(requests[t]) \/ OfSettings(left[t]) =>
          left[t] = requests[t]
  BY <1>2 DEF Due, IsSettings, OfSettings, SettingsKinds, IsForm
<1>4. form \in SettingsRequests /\ form.kind = "form" /\ form.status = "sent" /\ ~form.fresh
  <2>1. NoBody \in [{} -> SettingValues] /\ {} \subseteq Fields /\ IsKey(store.key)
    BY DEF NoBody, SettingsInv, SettingsShape
  <2> QED
    BY <2>1 DEF SettingsRequest, SettingsRequests, IsKey
<1>5. /\ \E r : /\ requests' = Put(left, r)
                /\ r = form \/ r.kind \in {"overview", "list", "first"}
      /\ OnSettings' => FormShape' /\ ~page'.fresh
  <2>1. MountedSettings.form \in [FormFields -> SettingValues]
        /\ IsKey(MountedSettings.form.auth_key)
    <3>1. \A f \in FormFields : (IF f = "auth_key" THEN Blank ELSE Defaults[f]) \in SettingValues
      BY DefaultsAssumption, BooleanSetting DEF FormFields, Fields, SettingValues
    <3> QED
      BY <3>1, FieldNames DEF MountedSettings, IsKey
  <2>2. CASE route = "home"
    BY <1>1, <2>2 DEF Mount, MountedHome, LoadRequest, OnSettings, On
  <2>3. CASE route = "connections"
    BY <1>1, <2>3 DEF Mount, MountedConnections, refresh, PageRequest, OnSettings, On
  <2>4. CASE route = "sessions"
    BY <1>1, <2>4 DEF Mount, MountSessions, MountedSessions, ListsRequest, OnSettings, On
  <2>5. CASE route = "settings"
    <3>1. page' = MountedSettings /\ requests' = Put(left, form)
      BY <1>1, <2>5 DEF Mount
    <3>2. FormShape' /\ ~page'.fresh
      BY <2>1, <3>1 DEF FormShape, MountedSettings
    <3> QED
      BY <3>1, <3>2
  <2> QED
    BY <1>1, <2>2, <2>3, <2>4, <2>5 DEF Mount
<1> HIDE DEF form
<1>6. PICK r : requests' = Put(left, r) /\ (r = form \/ r.kind \in {"overview", "list", "first"})
  BY <1>5
<1>7. PICK k \in Slots : left[k] = None /\ Put(left, r) = [left EXCEPT ![k] = r]
  BY <1>1, PutFree
<1>8. requests'[k] = r /\ \A t \in Slots : t # k => requests'[t] = left[t]
  BY <1>1, <1>6, <1>7
<1>9. /\ ~Due(r) /\ ~Knows(r) /\ (IsForm(r) => r = form)
      /\ OfSettings(r) => SettingsParts(r)
  BY <1>4, <1>6 DEF Due, IsSettings, Knows, IsForm, OfSettings, SettingsKinds, SettingsParts
<1>10. ~Due(requests[k]) /\ ~Due(None)
  BY <1>3, <1>7 DEF Due
<1>11. SettingsShape'
  <2>1. \A t \in Slots : OfSettings(requests'[t]) => SettingsParts(requests'[t])
    BY <1>3, <1>8, <1>9 DEF SettingsInv, SettingsShape
  <2> QED
    BY <1>1, <1>5, <2>1 DEF SettingsInv, SettingsShape
<1>12. InStep'
  <2>1. \A t \in Slots : \/ requests'[t] = requests[t]
                         \/ ~Due(requests[t]) /\ ~Due(requests'[t])
    BY <1>3, <1>8, <1>9, <1>10
  <2> QED
    BY <1>1, <2>1, InStepSame
<1>13. FormsKnow'
  <2>1. \A t \in Slots : IsForm(requests'[t]) => t = k /\ ~requests'[t].fresh
    BY <1>2, <1>4, <1>8, <1>9
  <2>2. \A t \in Slots : Knows(requests'[t]) => requests'[t] = requests[t]
    BY <1>3, <1>8, <1>9 DEF Knows, OfSettings, SettingsKinds
  <2> QED
    BY <1>1, <1>5, <2>1, <2>2, FormsGone
<1> QED
  BY <1>11, <1>12, <1>13 DEF SettingsInv

LEMMA SettingsReload == ASSUME BaseInv, SettingsInv, Reload PROVE SettingsInv'
<1> DEFINE left == Abandoned({})
           app == SettingsRequest("app", NoBody)
           first == ListsRequest("first")
           used == Put(left, app)
<1>1. /\ Cardinality(Free(left)) >= 2 /\ DOMAIN left = Slots
      /\ page' = MountedSessions(address, page.selected) /\ requests' = Put(used, first)
      /\ store' = LoadedStore(store.key) /\ smooth' = (smooth /\ Unsettled(requests) = {})
      /\ UNCHANGED settings
  BY DEF Reload, MountSessions, Abandoned
<1>2. \A t \in Slots :
          /\ ~IsForm(left[t])
          /\ OfSettings(left[t]) =>
                 /\ OfSettings(requests[t]) /\ SettingsParts(left[t])
                 /\ left[t].kind = requests[t].kind /\ left[t].body = requests[t].body
                 /\ left[t].touched = requests[t].touched /\ left[t].status = requests[t].status
                 /\ left[t].fresh = requests[t].fresh
  <2>1. {} \subseteq {"save", "dark", "app"}
    OBVIOUS
  <2> QED
    BY <2>1, AbandonedSettings
<1>3. /\ app \in SettingsRequests /\ app.kind = "app" /\ app.mounted /\ app.status = "sent"
      /\ app.key = store.key
  <2>1. NoBody \in [{} -> SettingValues] /\ {} \subseteq Fields /\ IsKey(store.key)
    BY DEF NoBody, SettingsInv, SettingsShape
  <2> QED
    BY <2>1 DEF SettingsRequest, SettingsRequests, IsKey
<1>4. ~OfSettings(first)
  BY DEF ListsRequest, OfSettings, SettingsKinds
<1> HIDE DEF left, app, first, used
<1>5. SettingsParts(app) /\ Due(app) /\ ~IsForm(app) /\ ~Knows(app)
  BY <1>3, PartsAreOfSettings DEF SettingsParts, IsForm, Knows
<1>6. IsFiniteSet(Free(left)) /\ Free(left) # {}
  <2>1. IsFiniteSet(Free(left))
    BY SlotsAssumption, FS_Subset DEF Free
  <2> QED
    BY <1>1, <2>1, FS_EmptySet
<1>7. PICK k \in Slots : left[k] = None /\ used = [left EXCEPT ![k] = app]
  BY <1>1, <1>6, PutFree DEF used
<1>8. DOMAIN used = Slots /\ used[k] = app /\ \A t \in Slots : t # k => used[t] = left[t]
  BY <1>1, <1>7
<1>9. Free(used) # {}
  <2>1. Cardinality(Free(left) \ {k}) = Cardinality(Free(left)) - 1
    BY <1>6, <1>7, FS_RemoveElement DEF Free
  <2>2. Cardinality(Free(left)) \in Nat
    BY <1>6, FS_CardinalityType
  <2>3. Free(left) \ {k} # {}
    <3>1. ASSUME Free(left) \ {k} = {} PROVE Cardinality(Free(left)) = 1
      <4>1. Cardinality(Free(left) \ {k}) = 0
        BY <3>1, FS_EmptySet
      <4> QED
        BY <2>1, <2>2, <4>1
    <3> QED
      BY <1>1, <3>1
  <2>4. Free(left) \ {k} \subseteq Free(used)
    BY <1>8 DEF Free
  <2> QED
    BY <2>3, <2>4
<1>10. PICK j \in Slots : used[j] = None /\ requests' = [used EXCEPT ![j] = first]
  BY <1>1, <1>8, <1>9, PutFree
<1>11. /\ j # k /\ requests'[j] = first /\ requests'[k] = app
       /\ \A t \in Slots : t # k /\ t # j => requests'[t] = left[t]
  BY <1>5, <1>8, <1>10 DEF Due
<1>12. SettingsShape'
  <2>1. \A t \in Slots : OfSettings(requests'[t]) => SettingsParts(requests'[t])
    BY <1>2, <1>4, <1>5, <1>11
  <2>2. ~OnSettings'
    BY <1>1 DEF MountedSessions, OnSettings, On
  <2> QED
    BY <1>1, <2>1, <2>2, BooleanSetting DEF SettingsInv, SettingsShape, LoadedStore
<1>13. InStep'
  <2>1. ASSUME smooth' PROVE smooth /\ \A t \in Slots : ~Due(requests[t])
    BY <1>1, <2>1 DEF Unsettled, Due, IsSettings
  <2>2. ASSUME smooth', NEW t \in Slots, t # k PROVE ~Due(requests'[t])
    BY <1>2, <1>4, <1>11, <2>1, <2>2 DEF Due, IsSettings, OfSettings, SettingsKinds
  <2>3. ASSUME smooth' PROVE OnItsWay(requests[k])'
    <3>1. store.key = settings.auth_key
      BY <2>1, <2>3 DEF SettingsInv, InStep, Agree
    <3> QED
      BY <1>1, <1>3, <1>11, <3>1 DEF OnItsWay, LoadedStore
  <2> QED
    BY <1>5, <1>11, <2>2, <2>3, InStepSent
<1>14. FormsKnow'
  <2>1. \A t \in Slots : ~IsForm(requests'[t])
    BY <1>2, <1>4, <1>5, <1>11 DEF IsForm, OfSettings, SettingsKinds
  <2>2. ASSUME NEW t \in Slots, Knows(requests'[t])
        PROVE  /\ Knows(requests[t]) /\ requests'[t].body = requests[t].body
               /\ requests'[t].touched = requests[t].touched
    <3>1. requests'[t] = left[t]
      BY <1>4, <1>5, <1>11, <2>2 DEF Knows, OfSettings, SettingsKinds
    <3> QED
      BY <1>2, <2>2, <3>1 DEF Knows, OfSettings, SettingsKinds
  <2>3. ~OnSettings'
    BY <1>1 DEF MountedSessions, OnSettings, On
  <2> QED
    BY <1>1, <2>1, <2>2, <2>3, FormsGone
<1> QED
  BY <1>12, <1>13, <1>14 DEF SettingsInv

(* What the other pages do.                                                *)
LEMMA SettingsOthers ==
    ASSUME BaseInv, BaseInv', SettingsInv, UNCHANGED <<store, settings, smooth>>,
           NEW kinds, kinds \cap SettingsKinds = {}, Within(kinds), page' = page \/ ~OnSettings'
    PROVE  SettingsInv'
<1>1. FormSame
  BY DEF FormSame, OnSettings, On
<1> QED
  BY <1>1, WithinSame, SettingsStepInv

LEMMA SettingsServe ==
    ASSUME BaseInv, BaseInv', SettingsInv, NEW k \in Slots, Serve(k)
    PROVE  SettingsInv'
<1>1. ASSUME ServeOverview(k), HomeStep PROVE SettingsInv'
  BY <1>1, HomeWithin, SettingsOthers DEF ServeOverview, HomeStep, SettingsKinds
<1>2. ASSUME ServeConnections(k), UNCHANGED <<store, settings, smooth>> PROVE SettingsInv'
  BY <1>2, ConnectionsWithin, SettingsOthers, ServeConnectionsFacts DEF Changing, SettingsKinds
<1>3. ASSUME ServeLists(k), PickerStep, page' = page PROVE SettingsInv'
  BY <1>3, PickerWithin, SettingsOthers DEF PickerStep, SettingsKinds
<1>4. ASSUME RefuseSave(k) PROVE SettingsInv'
  <2>1. OfSettings(requests[k])
    BY <1>4 DEF RefuseSave, Waiting, OfSettings, SettingsKinds
  <2> QED
    BY <1>4, <2>1, SettingsFail DEF RefuseSave
<1> QED
  BY <1>1, <1>2, <1>3, <1>4, SettingsRead, SettingsWrite DEF Serve

LEMMA SettingsCallback ==
    ASSUME BaseInv, BaseInv', SettingsInv, NEW k \in Slots, Callback(k)
    PROVE  SettingsInv'
<1> DEFINE r == requests[k]
<1>1. page'.route = page.route /\ (r # None => Proper(r, page.route))
  BY BaseCallback DEF BaseInv, RequestsProper
<1>2. ASSUME TakeOverview(k) \/ OverviewFailed(k), HomeStep PROVE SettingsInv'
  <2>1. ~OnSettings'
    BY <1>1, <1>2 DEF TakeOverview, OverviewFailed, Answered, Refused, Proper, OnSettings, On
  <2> QED
    BY <1>2, <2>1, HomeWithin, SettingsOthers DEF HomeStep, SettingsKinds
<1>3. ASSUME ConnectionsCallback(k), HomeStep PROVE SettingsInv'
  <2>1. ~OnSettings'
    BY <1>3, ConnectionsCallbackFacts DEF OnSettings, On
  <2> QED
    BY <1>3, <2>1, ConnectionsWithin, SettingsOthers DEF HomeStep, Changing, SettingsKinds
<1>4. ASSUME TakeFirst(k) \/ TakeLists(k) \/ ListsFailed(k), PickerStep PROVE SettingsInv'
  <2>1. ~OnSettings'
    BY <1>1, <1>4 DEF TakeFirst, TakeLists, ListsFailed, Answered, Refused, Proper, IsLists,
       OnSettings, On
  <2> QED
    BY <1>4, <2>1, PickerWithin, SettingsOthers DEF PickerStep, SettingsKinds
<1> QED
  BY <1>2, <1>3, <1>4, SettingsTake, SettingsTakeApp, SettingsSaved, SettingsIgnores DEF Callback

LEMMA SettingsFails ==
    ASSUME BaseInv, BaseInv', SettingsInv, NEW k \in Slots, Fail(k)
    PROVE  SettingsInv'
<1> DEFINE r == requests[k]
<1>1. /\ r # None /\ requests' = Refuses(k) /\ UNCHANGED <<page, store, settings>>
      /\ smooth' = (smooth /\ k \notin Unsettled(requests))
  BY DEF Fail
<1>2. CASE OfSettings(r)
  BY <1>1, <1>2, SettingsFail DEF Due, IsSettings, Unsettled
<1>3. CASE ~OfSettings(r)
  <2>1. Within({r.kind}) /\ {r.kind} \cap SettingsKinds = {}
    BY <1>1, <1>3, WithinServed DEF OfSettings
  <2>2. FormSame /\ SettingsSame
    BY <1>1, <2>1, WithinSame DEF FormSame, OnSettings, On
  <2> QED
    BY <1>1, <2>2, SettingsStepInv
<1> QED
  BY <1>2, <1>3

LEMMA SettingsNext == BaseInv /\ BaseInv' /\ SettingsInv /\ [Next]_vars => SettingsInv'
<1> SUFFICES ASSUME BaseInv, BaseInv', SettingsInv, [Next]_vars PROVE SettingsInv'
  OBVIOUS
<1>1. CASE UNCHANGED vars
  <2>1. SettingsSame /\ FormSame
    BY <1>1 DEF vars, browser, SettingsSame, FormSame, OnSettings, On
  <2> QED
    BY <1>1, <2>1, SettingsStepInv DEF vars, browser
<1>2. CASE User
  <2>1. ASSUME HomeUser, HomeStep PROVE SettingsInv'
    <3>1. ~OnSettings'
      BY <2>1, HomeUserFacts DEF BaseInv, Parts, OnSettings, On
    <3> QED
      BY <2>1, <3>1, HomeWithin, SettingsOthers DEF HomeStep, SettingsKinds
  <2>2. ASSUME ConnectionsUser, HomeStep PROVE SettingsInv'
    <3>1. ~OnSettings'
      BY <2>2, ConnectionsUserFacts DEF OnSettings, On
    <3> QED
      BY <2>2, <3>1, ConnectionsWithin, SettingsOthers DEF HomeStep, Changing, SettingsKinds
  <2>3. ASSUME SessionsUser, PickerStep PROVE SettingsInv'
    <3>1. ~OnSettings'
      BY <2>3, BaseSessionsUser DEF OnSettings, On
    <3> QED
      BY <2>3, <3>1, PickerWithin, SettingsOthers DEF PickerStep, SettingsKinds
  <2>4. ASSUME SettingsUser PROVE SettingsInv'
    BY <2>4, SettingsToggle, SettingsEdit, SettingsSave DEF SettingsUser
  <2> QED
    BY <1>2, <2>1, <2>2, <2>3, <2>4 DEF User
<1>3. CASE Timer
  <2>1. ASSUME HomeTimer, HomeStep PROVE SettingsInv'
    BY <2>1, HomeWithin, SettingsOthers DEF HomeTimer, HomeStep, SettingsKinds
  <2>2. ASSUME ListTimer, HomeStep PROVE SettingsInv'
    BY <2>2, ListWithin, SettingsOthers DEF ListTimer, HomeStep, SettingsKinds
  <2>3. ASSUME SessionsTimer, PickerStep PROVE SettingsInv'
    BY <2>3, PickerWithin, SettingsOthers DEF SessionsTimer, PickerStep, SettingsKinds
  <2> QED
    BY <1>3, <2>1, <2>2, <2>3 DEF Timer
<1>4. CASE Interfere
  <2>1. FormSame
    BY <1>4 DEF Interfere, FormSame, OnConnections, OnSettings, On, BaseInv, Parts
  <2>2. SettingsSame
    BY <1>4 DEF Interfere, SettingsSame
  <2> QED
    BY <1>4, <2>1, <2>2, SettingsStepInv DEF Interfere
<1>5. CASE \E k \in Slots : Serve(k) \/ Callback(k) \/ Fail(k)
  BY <1>5, SettingsServe, SettingsCallback, SettingsFails
<1>6. CASE \E route \in Routes : Navigate(route)
  BY <1>6, SettingsNavigate
<1> QED
  BY <1>1, <1>2, <1>3, <1>4, <1>5, <1>6, SettingsReload, SettingsElsewhere DEF Next

LEMMA SettingsInit == Init => SettingsInv
<1> SUFFICES ASSUME Init PROVE SettingsInv
  OBVIOUS
<1> DEFINE form == SettingsRequest("form", NoBody)
<1>1. DOMAIN Nobody = Slots /\ \A t \in Slots : Nobody[t] = None
  BY DEF Nobody
<1>2. /\ settings = Defaults
      /\ store = [key |-> settings.auth_key, darkMode |-> settings.dark_mode,
                  themeColor |-> settings.theme_color]
  BY DEF Init
<1>3. settings \in [Fields -> SettingValues] /\ IsKey(settings.auth_key)
  <2>1. \A f \in Fields : Defaults[f] \in SettingValues
    BY DefaultsAssumption DEF Fields, SettingValues
  <2>2. Defaults = [f \in Fields |-> Defaults[f]]
    BY DefaultsAssumption DEF Fields, SettingValues
  <2>3. IsKey(Defaults["auth_key"])
    BY DefaultsAssumption DEF IsKey, Values
  <2> QED
    BY <1>2, <2>1, <2>2, <2>3, Zenon
<1>4. IsKey(store.key) /\ store.darkMode \in SettingValues
  BY <1>2, <1>3, FieldNames
<1>5. form \in SettingsRequests /\ form.kind = "form" /\ form.status = "sent" /\ ~form.fresh
  <2>1. NoBody \in [{} -> SettingValues] /\ {} \subseteq Fields
    BY DEF NoBody
  <2> QED
    BY <1>4, <2>1 DEF SettingsRequest, SettingsRequests, IsKey
<1>6. /\ OnSettings => FormShape /\ ~page.fresh
      /\ \E r : /\ requests = Put(Nobody, r)
                /\ r = form \/ r.kind \in {"overview", "list", "first"}
  <2>1. MountedSettings.form \in [FormFields -> SettingValues]
        /\ IsKey(MountedSettings.form.auth_key)
    <3>1. \A f \in FormFields : (IF f = "auth_key" THEN Blank ELSE Defaults[f]) \in SettingValues
      BY DefaultsAssumption, BooleanSetting DEF FormFields, Fields, SettingValues
    <3> QED
      BY <3>1, FieldNames DEF MountedSettings, IsKey
  <2>2. CASE page = MountedHome /\ requests = Put(Nobody, LoadRequest(MountedHome))
    BY <2>2 DEF MountedHome, LoadRequest, OnSettings, On
  <2>3. CASE page = MountedConnections /\ requests = Put(Nobody, refresh)
    BY <2>3 DEF MountedConnections, refresh, PageRequest, OnSettings, On
  <2>4. CASE /\ page = MountedSessions(Nothing, Nothing)
             /\ requests = Put(Nobody, ListsRequest("first"))
    BY <2>4 DEF MountedSessions, ListsRequest, OnSettings, On
  <2>5. CASE page = MountedSettings /\ requests = Put(Nobody, form)
    <3>1. FormShape /\ ~page.fresh
      BY <2>1, <2>5 DEF FormShape, MountedSettings
    <3> QED
      BY <2>5, <3>1
  <2> QED
    BY <2>2, <2>3, <2>4, <2>5 DEF Init
<1> HIDE DEF form
<1>7. PICK r : requests = Put(Nobody, r) /\ (r = form \/ r.kind \in {"overview", "list", "first"})
  BY <1>6
<1>8. /\ ~Due(r) /\ ~Knows(r) /\ (IsForm(r) => r = form)
      /\ OfSettings(r) => SettingsParts(r)
  BY <1>5, <1>7 DEF Due, IsSettings, Knows, IsForm, OfSettings, SettingsKinds, SettingsParts
<1>9. \A t, j \in Slots : requests[t] = None \/ requests[j] = None \/ t = j
  <2> SUFFICES ASSUME NEW t \in Slots PROVE \A j \in Slots : requests[t] = None \/ requests[j] = None \/ t = j
    OBVIOUS
  <2>1. Free(Nobody) # {}
    BY <1>1 DEF Free
  <2>2. PICK k \in Slots : Put(Nobody, r) = [Nobody EXCEPT ![k] = r]
    BY <1>1, <2>1, PutFree
  <2> QED
    BY <1>1, <1>7, <2>2
<1>10. \A t \in Slots : requests[t] \in {None, r}
  BY <1>1, <1>7, PutAnywhere
<1>11. SettingsShape
  <2>1. \A t \in Slots : OfSettings(requests[t]) => SettingsParts(requests[t])
    BY <1>8, <1>10 DEF OfSettings
  <2>2. DOMAIN store = {"key", "darkMode", "themeColor"}
    BY <1>2
  <2> QED
    BY <1>3, <1>4, <1>6, <2>1, <2>2 DEF SettingsShape
<1>12. InStep
  <2>1. \A t \in Slots : ~Due(requests[t])
    BY <1>8, <1>10 DEF Due
  <2>2. Agree
    BY <1>2 DEF Agree
  <2> QED
    BY <2>1, <2>2 DEF InStep
<1>13. FormsKnow
  <2>1. \A t \in Slots : /\ ~Knows(requests[t])
                         /\ IsForm(requests[t]) => ~requests[t].fresh
    BY <1>5, <1>8, <1>10 DEF Knows, IsForm
  <2>2. \A t, j \in Slots : IsForm(requests[t]) /\ IsForm(requests[j]) => t = j
    BY <1>9 DEF IsForm
  <2> QED
    BY <1>6, <2>1, <2>2 DEF FormsKnow
<1> QED
  BY <1>11, <1>12, <1>13 DEF SettingsInv

LEMMA SettingsInvHolds == Spec => []SettingsInv
BY BaseInvHolds, SettingsInit, SettingsNext, PTL DEF Spec

(* Once every request that writes settings or reads them for the store is  *)
(* answered, the browser has the server's key and mode, if the saves were  *)
(* alone and none has failed: the key of a save is the old one until the   *)
(* store takes the new one over, and the mode of a switch runs ahead       *)
(* (Settings.tsx:81-97,233-238, Layout.tsx:158-163, App.tsx:31-47).        *)
THEOREM BrowserStaysInStep == Spec => []BrowserInStep
<1>1. SettingsInv => BrowserInStep
  <2> SUFFICES ASSUME SettingsInv, smooth, Unsettled(requests) = {} PROVE Agree
    BY DEF BrowserInStep, Agree
  <2>1. \A k \in Slots : ~Due(requests[k])
    BY DEF Unsettled, Due, IsSettings
  <2> QED
    BY <2>1 DEF SettingsInv, InStep
<1> QED
  BY <1>1, SettingsInvHolds, PTL

(* A request whose mark alone may change writes nothing.                   *)
LEMMA OutdatedWritesNothing ==
    ASSUME SettingsInv, NEW kinds \in {{"form"}, {"form", "save"}}, NEW k \in Slots,
           requests'[k] = Outdated(kinds)[k]
    PROVE  ~Writes(k)
<1>1. CASE OfSettings(requests[k])
  BY <1>1, OutdatedSettings DEF Writes, ButFresh
<1>2. CASE ~OfSettings(requests[k])
  BY <1>2, OutdatedSettings DEF Writes
<1> QED
  BY <1>1, <1>2

(* What a save writes although the user has not changed it is there.       *)
LEMMA WriteOfEdits ==
    ASSUME BaseInv, SettingsInv, NEW t \in Slots, NEW f \in Fields, WriteSetting(t, f),
           NEW k \in Slots, Writes(k), requests[k].fresh,
           NEW g \in Fields, settings'[g] # settings[g]
    PROVE  g \in requests[k].touched
<1> DEFINE r == requests[t]
<1>1. /\ r # None /\ r.kind \in {"save", "dark"} /\ r.status = "sent" /\ f \in DOMAIN r.body
      /\ settings' = IF Accepts(f, r.body[f]) THEN [settings EXCEPT ![f] = r.body[f]]
                     ELSE settings
  BY DEF WriteSetting, Waiting
<1>2. k = t
  <2>1. \E kinds \in {{"form"}, {"form", "save"}} :
            \A j \in Slots : j # t => requests'[j] = Outdated(kinds)[j]
    BY DEF WriteSetting, Outdated
  <2> QED
    BY <2>1, OutdatedWritesNothing
<1>3. SettingsParts(r) /\ settings \in [Fields -> SettingValues]
  BY <1>1 DEF SettingsInv, SettingsShape, OfSettings, SettingsKinds
<1>4. g = f /\ r.body[f] # settings[f]
  BY <1>1, <1>3
<1>5. CASE r.kind = "dark"
  BY <1>1, <1>2, <1>3, <1>4, <1>5 DEF SettingsParts
<1>6. CASE r.kind = "save"
  <2>1. Knows(r)
    BY <1>1, <1>2, <1>6 DEF Knows
  <2> QED
    BY <1>1, <1>2, <1>4, <2>1 DEF SettingsInv, FormsKnow
<1> QED
  BY <1>1, <1>5, <1>6

(* The settings change in two ways only.                                   *)
LEMMA WhoWritesSettings ==
    ASSUME [Next]_vars, settings' # settings
    PROVE  \/ \E t \in Slots, f \in Fields : WriteSetting(t, f)
           \/ InterfereSettings
<1>1. ~UNCHANGED vars
  BY DEF vars
<1>2. ~User
  BY DEF User, HomeStep, PickerStep, SettingsUser, ToggleDark, EditForm, onSave
<1>3. ~Timer /\ ~Reload /\ ~Interfere /\ \A route : ~Navigate(route)
  BY DEF Timer, HomeStep, PickerStep, Reload, Interfere, Navigate
<1>4. \A t \in Slots : ~Fail(t) /\ ~Callback(t)
  BY DEF Fail, Callback, HomeStep, PickerStep, TakeSettings, TakeAppSettings, Saved,
         SettingsIgnored, Unheard
<1>5. \A t \in Slots : Serve(t) => \E f \in Fields : WriteSetting(t, f)
  BY DEF Serve, HomeStep, PickerStep, ServeSettings, RefuseSave
<1> QED
  BY <1>1, <1>2, <1>3, <1>4, <1>5 DEF Next

(* A form that shows the settings changes, when it is saved, only what the *)
(* user has edited in it, and the switch of the mode only the mode, if no  *)
(* one else has written since: every field goes back to the server and is  *)
(* written, one after the other, but as it came                            *)
(* (Settings.tsx:51-97, Layout.tsx:158-163, api.go:740-757).               *)
THEOREM SavesChangeOnlyEdits == Spec => SaveChangesOnlyEdits
<1>1. ASSUME BaseInv, SettingsInv, [Next]_vars
      PROVE  [\A k \in Slots : Writes(k) /\ requests[k].fresh =>
                \A f \in Fields : settings'[f] # settings[f] => f \in requests[k].touched
             ]_<<settings, requests>>
  <2> SUFFICES ASSUME NEW k \in Slots, Writes(k), requests[k].fresh,
                      NEW g \in Fields, settings'[g] # settings[g]
               PROVE  g \in requests[k].touched
    OBVIOUS
  <2>1. settings' # settings
    OBVIOUS
  <2>2. ~InterfereSettings
    BY <1>1, OutdatedWritesNothing DEF InterfereSettings, WriteElsewhere
  <2>3. PICK t \in Slots : \E f \in Fields : WriteSetting(t, f)
    BY <1>1, <2>1, <2>2, WhoWritesSettings
  <2>4. PICK f \in Fields : WriteSetting(t, f)
    BY <2>3
  <2> QED
    BY <1>1, <2>4, WriteOfEdits
<1> QED
  BY <1>1, BaseInvHolds, SettingsInvHolds, PTL DEF Spec, SaveChangesOnlyEdits

-----------------------------------------------------------------------------
(* The drawer with the sessions of a connection.                           *)

Busy(r) == r # None /\ r.kind \in Changing
Editing == \E k \in Slots : requests[k] # None /\ requests[k].kind = "edit"

ChangeOK(r) ==
    /\ r \in ChangingRequests
    /\ r.kind = "detail" /\ r.status = "ok" => r.answer \subseteq Rows
    /\ r.kind = "new" /\ r.status = "ok" => r.answer \in Rows

DrawerParts(p) ==
    /\ p.detail \in Connections \cup {None}
    /\ p.detailSessions \subseteq Rows
    /\ p.editTarget \in Rows \cup {None}
    /\ p.confirm # None => ChangeOK(p.confirm)

DrawerShape ==
    /\ port \in [Sessions -> Ports]
    /\ OnConnections => DrawerParts(page)
    /\ \A k \in Slots : Busy(requests[k]) => ChangeOK(requests[k])

(* The drawer once the answer of r is taken.                               *)
DrawerAfter(r) ==
    CASE r.kind = "detail" -> r.answer
      [] r.kind = "deleteSession" -> {x \in page.detailSessions : x.id # r.id}
      [] r.kind = "new" -> {r.answer} \cup {x \in page.detailSessions : x.id # r.answer.id}
      [] r.kind = "edit" -> {IF x.id = r.id /\ r.typed # 0 THEN [x EXCEPT !.port = r.typed]
                             ELSE x : x \in page.detailSessions}

(* The drawer is what the server has, and will be after the answer: the    *)
(* port that goes back although nothing was typed is the server's.         *)
Follows(r) ==
    /\ r.mounted /\ r.kind # "deleteConnection"
    /\ r.kind = "detail" => r.id = page.detail /\ page.detailSessions = {}
    /\ r.kind = "new" => r.id = page.detail
    /\ r.kind = "edit" => \/ r.typed \in Ports /\ r.sent = r.typed
                          \/ r.typed = 0 /\ (r.status = "sent" => r.sent = port[r.id])
    /\ r.status = "sent" /\ r.kind # "detail" => page.detailSessions = RowsOf(page.detail)
    /\ r.status = "ok" => RowsOf(page.detail) = DrawerAfter(r)

(* While no port is being changed the rows have the ports of the server,   *)
(* and so does the one in the dialog.                                      *)
PortsShown ==
    /\ \A row \in page.detailSessions : row.port = port[row.id]
    /\ page.editTarget # None => page.editTarget.port = port[page.editTarget.id]

Followed ==
    /\ \A k, t \in Slots : Busy(requests[k]) /\ Busy(requests[t]) => k = t
    /\ (\A k \in Slots : ~Busy(requests[k])) => page.detailSessions = RowsOf(page.detail)
    /\ \A k \in Slots : Busy(requests[k]) => Follows(requests[k])
    /\ page.confirm # None => page.confirm.kind = "deleteSession"
    /\ ~Editing => PortsShown

DrawerOpen == OnConnections /\ page.exact /\ page.detail # None

DrawerInv == DrawerShape /\ (DrawerOpen => Followed)

LEMMA ChangeIsBusy == ASSUME NEW r, ChangeOK(r) PROVE Busy(r)
BY NoChangeAssumption DEF ChangeOK, ChangingRequests, Busy

LEMMA ChangeAsked ==
    ASSUME NEW kind \in Changing, NEW id \in Connections \cup Sessions,
           NEW typed \in Ports \cup {0, WrongPort}, NEW sent \in Ports \cup {0, WrongPort},
           NEW r, r = [kind |-> kind, id |-> id, typed |-> typed, sent |-> sent, mounted |-> TRUE,
                       status |-> "sent", answer |-> None]
    PROVE  ChangeOK(r)
<1>1. None \in ChangeAnswers
  BY DEF ChangeAnswers
<1>2. r \in ChangingRequests /\ r.status = "sent"
  BY <1>1 DEF ChangingRequests
<1> QED
  BY <1>2 DEF ChangeOK

LEMMA ChangeMoved ==
    ASSUME NEW r, ChangeOK(r),
           NEW q \in {[r EXCEPT !.status = "failed"], [r EXCEPT !.mounted = FALSE]}
    PROVE  ChangeOK(q) /\ q.kind = r.kind
<1>1. /\ r \in ChangingRequests
      /\ q \in ChangingRequests /\ q.kind = r.kind /\ q.answer = r.answer
      /\ q.status \in {r.status, "failed"}
  BY DEF ChangeOK, ChangingRequests
<1> QED
  BY <1>1 DEF ChangeOK

LEMMA ChangeRefused ==
    ASSUME NEW r, ChangeOK(r), NEW q, q = [r EXCEPT !.status = "failed"]
    PROVE  /\ ChangeOK(q) /\ q.kind = r.kind /\ q.id = r.id /\ q.typed = r.typed
           /\ q.sent = r.sent /\ q.mounted = r.mounted /\ q.status = "failed"
<1>1. r \in ChangingRequests
  BY DEF ChangeOK
<1>2. /\ q \in ChangingRequests /\ q.kind = r.kind /\ q.id = r.id /\ q.typed = r.typed
      /\ q.sent = r.sent /\ q.mounted = r.mounted /\ q.status = "failed"
  BY <1>1 DEF ChangingRequests
<1> QED
  BY <1>2 DEF ChangeOK

AnsweredWith(r, a) == [r EXCEPT !.status = "ok", !.answer = a]

LEMMA ChangeAnswered ==
    ASSUME NEW r, ChangeOK(r), NEW a \in ChangeAnswers,
           r.kind = "detail" => a \subseteq Rows, r.kind = "new" => a \in Rows
    PROVE  /\ ChangeOK(AnsweredWith(r, a))
           /\ AnsweredWith(r, a).kind = r.kind /\ AnsweredWith(r, a).id = r.id
           /\ AnsweredWith(r, a).typed = r.typed /\ AnsweredWith(r, a).sent = r.sent
           /\ AnsweredWith(r, a).mounted = r.mounted
           /\ AnsweredWith(r, a).status = "ok" /\ AnsweredWith(r, a).answer = a
<1> DEFINE q == AnsweredWith(r, a)
<1>1. r \in ChangingRequests
  BY DEF ChangeOK
<1>2. /\ q \in ChangingRequests /\ q.kind = r.kind /\ q.id = r.id /\ q.typed = r.typed
      /\ q.sent = r.sent /\ q.mounted = r.mounted /\ q.status = "ok" /\ q.answer = a
  BY <1>1 DEF ChangingRequests, AnsweredWith
<1> QED
  BY <1>2 DEF ChangeOK

LEMMA AnswersAre ==
    /\ TRUE \in ChangeAnswers
    /\ \A rows : rows \subseteq Rows => rows \in ChangeAnswers
    /\ Rows \subseteq ChangeAnswers
BY DEF ChangeAnswers

(* A step that has nothing to do with the drawer.                          *)
BusySame ==
    \A k \in Slots : \/ requests'[k] = requests[k]
                     \/ ~Busy(requests[k]) /\ ~Busy(requests'[k])

DrawerSame ==
    OnConnections' =>
        /\ OnConnections /\ page'.detail = page.detail
        /\ page'.detailSessions = page.detailSessions /\ page'.editTarget = page.editTarget
        /\ page'.confirm = page.confirm /\ (page'.exact => page.exact)

LEMMA DrawerApart ==
    ASSUME DrawerInv, BusySame, DrawerSame, UNCHANGED server
    PROVE  DrawerInv'
<1>1. \A k \in Slots : /\ Busy(requests'[k]) => requests'[k] = requests[k]
                       /\ Busy(requests'[k]) <=> Busy(requests[k])
  BY DEF BusySame
<1>2. DrawerShape'
  BY <1>1 DEF DrawerInv, DrawerShape, DrawerParts, DrawerSame, server
<1>3. ASSUME DrawerOpen' PROVE Followed'
  <2>1. DrawerOpen /\ Followed
    BY <1>3 DEF DrawerInv, DrawerOpen, DrawerSame
  <2>2. /\ page'.detail = page.detail /\ page'.detailSessions = page.detailSessions
        /\ page'.editTarget = page.editTarget /\ page'.confirm = page.confirm
        /\ port' = port /\ stored' = stored
    BY <1>3 DEF DrawerOpen, DrawerSame, server
  <2>3. RowsOf(page.detail)' = RowsOf(page.detail)
    BY <2>2 DEF RowsOf, SessionsOf, SessionRow
  <2>4. ASSUME NEW k \in Slots, Busy(requests'[k]) PROVE Follows(requests[k])'
    <3>1. requests'[k] = requests[k] /\ Follows(requests[k])
      BY <1>1, <2>1, <2>4 DEF Followed
    <3>2. DrawerAfter(requests[k])' = DrawerAfter(requests[k])
      BY <2>2, <3>1 DEF DrawerAfter
    <3> QED
      BY <2>2, <2>3, <3>1, <3>2 DEF Follows
  <2>5. Editing' <=> Editing
    BY <1>1 DEF Editing, Busy, Changing, BusySame
  <2> QED
    BY <1>1, <2>1, <2>2, <2>3, <2>4, <2>5 DEF Followed, PortsShown
<1> QED
  BY <1>2, <1>3 DEF DrawerInv

(* No drawer is open afterwards.                                           *)
LEMMA DrawerAway ==
    ASSUME DrawerInv, ~DrawerOpen', port' \in [Sessions -> Ports],
           OnConnections' => DrawerParts(page)',
           \A k \in Slots : Busy(requests'[k]) => ChangeOK(requests'[k])
    PROVE  DrawerInv'
BY DEF DrawerInv, DrawerShape

(* The one request that changes something goes on.                         *)
LEMMA DrawerOne ==
    ASSUME DrawerInv, DrawerShape', NEW k \in Slots, Busy(requests[k]),
           \A t \in Slots : t # k => requests'[t] = requests[t],
           DrawerOpen' => DrawerOpen,
           DrawerOpen' => IF Busy(requests'[k]) THEN Follows(requests[k])'
                          ELSE page'.detailSessions = RowsOf(page.detail)',
           DrawerOpen' => page'.confirm = None \/ page'.confirm = page.confirm,
           DrawerOpen' /\ ~Editing' => PortsShown'
    PROVE  DrawerInv'
<1>1. ASSUME DrawerOpen' PROVE Followed'
  <2>1. DrawerOpen /\ Followed
    BY <1>1 DEF DrawerInv
  <2>2. \A t \in Slots : Busy(requests'[t]) => t = k
    BY <2>1 DEF Followed
  <2> QED
    BY <1>1, <2>1, <2>2 DEF Followed
<1> QED
  BY <1>1 DEF DrawerInv

LEMMA WithinApart ==
    ASSUME NEW kinds, kinds \cap Changing = {}, Within(kinds)
    PROVE  BusySame
BY DEF Within, OfKind, BusySame, Busy

(* A click that sends nothing.                                             *)
LEMMA DrawerClick ==
    ASSUME DrawerInv, requests' = requests, UNCHANGED server, DrawerParts(page)',
           DrawerOpen' =>
               /\ DrawerOpen /\ page'.detail = page.detail
               /\ page'.detailSessions = page.detailSessions
               /\ \/ page'.confirm \in {None, page.confirm}
                  \/ page'.confirm.kind = "deleteSession"
               /\ page'.editTarget \in {None, page.editTarget} \cup page.detailSessions
    PROVE  DrawerInv'
<1>1. DrawerShape'
  BY DEF DrawerInv, DrawerShape, server
<1>2. ASSUME DrawerOpen' PROVE Followed'
  <2>1. Followed /\ page'.detail = page.detail /\ page'.detailSessions = page.detailSessions
        /\ port' = port /\ stored' = stored
    BY <1>2 DEF DrawerInv, server
  <2>2. RowsOf(page.detail)' = RowsOf(page.detail)
    BY <2>1 DEF RowsOf, SessionsOf, SessionRow
  <2>3. ASSUME NEW k \in Slots, Busy(requests'[k]) PROVE Follows(requests[k])'
    <3>1. requests'[k] = requests[k] /\ Follows(requests[k])
      BY <2>1, <2>3 DEF Followed
    <3>2. DrawerAfter(requests[k])' = DrawerAfter(requests[k])
      BY <2>1, <3>1 DEF DrawerAfter
    <3> QED
      BY <2>1, <2>2, <3>1, <3>2 DEF Follows
  <2>4. page'.confirm # None => page'.confirm.kind = "deleteSession"
    BY <1>2, <2>1 DEF Followed
  <2>5. (Editing' <=> Editing) /\ (~Editing => PortsShown')
    BY <1>2, <2>1 DEF Editing, Followed, PortsShown
  <2> QED
    BY <2>1, <2>2, <2>3, <2>4, <2>5 DEF Followed
<1> QED
  BY <1>1, <1>2 DEF DrawerInv

(* A click that sends a request; it is the only one if it is to be         *)
(* followed.                                                               *)
LEMMA DrawerSends ==
    ASSUME BaseInv, DrawerInv, NEW r, ChangeOK(r), Free(requests) # {},
           requests' = Put(requests, r), UNCHANGED server, DrawerParts(page)',
           DrawerOpen' => UnderWay(requests) = {} /\ Follows(r)',
           DrawerOpen' => page'.confirm = None \/ page'.confirm.kind = "deleteSession",
           DrawerOpen' /\ ~Editing => r.kind = "edit" \/ PortsShown'
    PROVE  DrawerInv'
<1>1. DOMAIN requests = Slots
  BY DEF BaseInv, RequestsProper
<1>2. PICK k \in Slots : requests[k] = None /\ requests' = [requests EXCEPT ![k] = r]
  BY <1>1, PutFree
<1>3. requests'[k] = r /\ \A t \in Slots : t # k => requests'[t] = requests[t]
  BY <1>1, <1>2
<1>4. Busy(r)
  BY ChangeIsBusy
<1>5. DrawerShape'
  BY <1>3 DEF DrawerInv, DrawerShape, server
<1>6. ASSUME DrawerOpen' PROVE Followed'
  <2>1. \A t \in Slots : ~Busy(requests[t])
    BY <1>6 DEF UnderWay, Busy
  <2>2. \A t \in Slots : Busy(requests'[t]) <=> t = k
    BY <1>3, <1>4, <2>1
  <2>3. Follows(requests[k])'
    <3>1. DrawerAfter(requests[k])' = DrawerAfter(r)'
      BY <1>3 DEF DrawerAfter
    <3> QED
      BY <1>3, <1>6, <3>1 DEF Follows
  <2>4. ~Editing
    BY <2>1 DEF Editing, Busy, Changing
  <2>5. r.kind = "edit" => Editing'
    BY <1>3, <1>4 DEF Editing, Busy
  <2> QED
    BY <1>6, <2>2, <2>3, <2>4, <2>5 DEF Followed
<1> QED
  BY <1>5, <1>6 DEF DrawerInv

LEMMA UserSendsFacts ==
    ASSUME NEW p, Parts(p), p.route = "connections", NEW r, NEW e, UserSends(p, r, e)
    PROVE  /\ page'.detail = p.detail /\ page'.detailSessions = p.detailSessions
           /\ page'.confirm = p.confirm /\ page'.editTarget = p.editTarget
           /\ page'.exact => e /\ UnderWay(requests) = {}
           /\ Free(requests) # {} /\ requests' = Put(requests, r)
BY DEF UserSends, Parts

LEMMA DrawerConnectionsUser ==
    ASSUME BaseInv, DrawerInv, ConnectionsUser, UNCHANGED server
    PROVE  DrawerInv'
<1>1. /\ page.route = "connections" /\ Parts(page)
      /\ OnConnections /\ OnConnections' /\ DrawerParts(page)
  BY ConnectionsUserFacts DEF BaseInv, OnConnections, On, DrawerInv, DrawerShape
<1>2. ASSUME NEW c \in Connections, openDetail(c) PROVE DrawerInv'
  <2> DEFINE p == [page EXCEPT !.detail = c, !.detailSessions = {}]
             r == PageRequest("detail", c)
  <2>1. /\ Parts(p) /\ p.route = "connections" /\ p.detail = c /\ p.detailSessions = {}
        /\ p.confirm = page.confirm /\ p.editTarget = page.editTarget
    BY <1>1 DEF Parts
  <2>2. UserSends(p, r, TRUE) /\ page.confirm = None /\ page.editTarget = None
    BY <1>2 DEF openDetail, AtList, NoDialog
  <2>3. ChangeOK(r) /\ r.kind = "detail" /\ r.id = c /\ r.mounted /\ r.status = "sent"
    BY ChangeAsked DEF PageRequest, Changing
  <2> HIDE DEF p, r
  <2>4. /\ page'.detail = c /\ page'.detailSessions = {} /\ page'.confirm = None
        /\ page'.editTarget = None
        /\ page'.exact => UnderWay(requests) = {}
        /\ Free(requests) # {} /\ requests' = Put(requests, r)
    BY <2>1, <2>2, UserSendsFacts
  <2>5. DrawerParts(page)' /\ Follows(r)' /\ PortsShown'
    BY <2>3, <2>4 DEF DrawerParts, Follows, PortsShown
  <2> QED
    BY <2>3, <2>4, <2>5, DrawerSends DEF DrawerOpen
<1>3. ASSUME CloseDetail \/ CancelConfirm \/ CancelEdit PROVE DrawerInv'
  <2>1. /\ requests' = requests
        /\ \/ page' = [page EXCEPT !.detail = None]
           \/ page' = [page EXCEPT !.confirm = None]
           \/ page' = [page EXCEPT !.editTarget = None]
    BY <1>3 DEF CloseDetail, CancelConfirm, CancelEdit, UserDoes
  <2>2. /\ page'.detail \in {None, page.detail} /\ page'.detailSessions = page.detailSessions
        /\ page'.confirm \in {None, page.confirm} /\ page'.exact = page.exact
        /\ page'.editTarget \in {None, page.editTarget}
    BY <1>1, <2>1 DEF Parts
  <2> QED
    BY <1>1, <2>1, <2>2, DrawerClick DEF DrawerParts, DrawerOpen
<1>4. ASSUME NEW c \in Connections, handleDeleteConnection(c) PROVE DrawerInv'
  <2> DEFINE r == PageRequest("deleteConnection", c)
  <2>1. /\ requests' = requests /\ page.detail = None
        /\ page' = [page EXCEPT !.confirm = r, !.pressed = FALSE]
    BY <1>4 DEF handleDeleteConnection, AtList, UserDoes
  <2>2. ChangeOK(r)
    BY ChangeAsked DEF PageRequest, Changing
  <2> HIDE DEF r
  <2>3. /\ page'.detail = None /\ page'.detailSessions = page.detailSessions
        /\ page'.confirm = r /\ page'.editTarget = page.editTarget
    BY <1>1, <2>1 DEF Parts
  <2> QED
    BY <1>1, <2>1, <2>2, <2>3, DrawerClick DEF DrawerParts, DrawerOpen
<1>5. ASSUME NEW row \in page.detailSessions, handleDeleteSession(row) PROVE DrawerInv'
  <2> DEFINE r == PageRequest("deleteSession", row.id)
  <2>1. requests' = requests /\ page' = [page EXCEPT !.confirm = r, !.pressed = FALSE]
    BY <1>5 DEF handleDeleteSession, UserDoes
  <2>2. row.id \in Sessions
    BY <1>1 DEF DrawerParts, Rows
  <2>3. ChangeOK(r) /\ r.kind = "deleteSession"
    BY <2>2, ChangeAsked DEF PageRequest, Changing
  <2> HIDE DEF r
  <2>4. /\ page'.detail = page.detail /\ page'.detailSessions = page.detailSessions
        /\ page'.confirm = r /\ page'.editTarget = page.editTarget /\ page'.exact = page.exact
    BY <1>1, <2>1 DEF Parts
  <2> QED
    BY <1>1, <2>1, <2>3, <2>4, DrawerClick DEF DrawerParts, DrawerOpen
<1>6. ASSUME NEW row \in page.detailSessions, openEdit(row) PROVE DrawerInv'
  <2>1. requests' = requests /\ page' = [page EXCEPT !.editTarget = row, !.pressed = FALSE]
    BY <1>6 DEF openEdit, UserDoes
  <2>2. /\ page'.detail = page.detail /\ page'.detailSessions = page.detailSessions
        /\ page'.confirm = page.confirm /\ page'.editTarget = row /\ page'.exact = page.exact
    BY <1>1, <2>1 DEF Parts
  <2> QED
    BY <1>1, <2>1, <2>2, DrawerClick DEF DrawerParts, DrawerOpen
<1>7. ASSUME onConfirm PROVE DrawerInv'
  <2> DEFINE p == [page EXCEPT !.pressed = TRUE]
  <2>1. PICK r : r = page.confirm
    OBVIOUS
  <2>2. /\ Parts(p) /\ p.route = "connections" /\ p.detail = page.detail
        /\ p.detailSessions = page.detailSessions
        /\ p.confirm = page.confirm /\ p.editTarget = page.editTarget
    BY <1>1 DEF Parts
  <2>3. UserSends(p, r, page.exact) /\ page.confirm # None
    BY <1>7, <2>1 DEF onConfirm
  <2>4. ChangeOK(r) /\ Confirms(r)
    BY <1>1, <2>1, <2>3 DEF DrawerParts, Parts
  <2> HIDE DEF p
  <2>5. /\ page'.detail = page.detail /\ page'.detailSessions = page.detailSessions
        /\ page'.confirm = page.confirm /\ page'.editTarget = page.editTarget
        /\ page'.exact => page.exact /\ UnderWay(requests) = {}
        /\ Free(requests) # {} /\ requests' = Put(requests, r)
    BY <2>2, <2>3, UserSendsFacts
  <2>6. DrawerParts(page)'
    BY <1>1, <2>5 DEF DrawerParts
  <2>7. ASSUME DrawerOpen'
        PROVE  /\ UnderWay(requests) = {} /\ Follows(r)' /\ page'.confirm.kind = "deleteSession"
               /\ ~Editing => PortsShown'
    <3>1. Followed /\ UnderWay(requests) = {}
      BY <1>1, <2>5, <2>7 DEF DrawerInv, DrawerOpen
    <3>2. page.detailSessions = RowsOf(page.detail) /\ r.kind = "deleteSession"
      BY <2>1, <2>3, <3>1 DEF Followed, UnderWay, Busy
    <3>3. RowsOf(page.detail)' = RowsOf(page.detail)
      BY <2>5 DEF RowsOf, SessionsOf, SessionRow, server
    <3>4. Follows(r)'
      BY <2>4, <2>5, <3>2, <3>3 DEF Follows, Confirms
    <3> QED
      BY <2>1, <2>5, <3>1, <3>2, <3>4 DEF Followed, PortsShown, server
  <2> QED
    BY <2>4, <2>5, <2>6, <2>7, DrawerSends
<1>8. ASSUME handleNewSession PROVE DrawerInv'
  <2>1. PICK c : c = page.detail
    OBVIOUS
  <2> DEFINE r == PageRequest("new", c)
  <2>2. UserSends(page, r, page.exact) /\ c \in Connections
    BY <1>1, <1>8, <2>1 DEF handleNewSession, InDrawer, DrawerParts
  <2>3. ChangeOK(r) /\ r.kind = "new" /\ r.id = c /\ r.mounted /\ r.status = "sent"
    BY <2>2, ChangeAsked DEF PageRequest, Changing
  <2> HIDE DEF r
  <2>4. /\ page'.detail = page.detail /\ page'.detailSessions = page.detailSessions
        /\ page'.confirm = page.confirm /\ page'.editTarget = page.editTarget
        /\ page'.exact => page.exact /\ UnderWay(requests) = {}
        /\ Free(requests) # {} /\ requests' = Put(requests, r)
    BY <1>1, <2>2, UserSendsFacts
  <2>5. DrawerParts(page)'
    BY <1>1, <2>4 DEF DrawerParts
  <2>6. page.confirm = None
    BY <1>8 DEF handleNewSession, InDrawer, NoDialog
  <2>7. ASSUME DrawerOpen'
        PROVE  UnderWay(requests) = {} /\ Follows(r)' /\ (~Editing => PortsShown')
    <3>1. Followed /\ UnderWay(requests) = {}
      BY <1>1, <2>4, <2>7 DEF DrawerInv, DrawerOpen
    <3>2. page.detailSessions = RowsOf(page.detail)
      BY <3>1 DEF Followed, UnderWay, Busy
    <3>3. RowsOf(page.detail)' = RowsOf(page.detail)
      BY <2>4 DEF RowsOf, SessionsOf, SessionRow, server
    <3>4. Follows(r)'
      BY <2>1, <2>3, <2>4, <3>2, <3>3 DEF Follows
    <3> QED
      BY <2>4, <3>1, <3>4 DEF Followed, PortsShown, server
  <2> QED
    BY <2>3, <2>4, <2>5, <2>6, <2>7, DrawerSends
<1>9. ASSUME NEW typed \in Ports \cup {0, WrongPort}, saveEdit(typed) PROVE DrawerInv'
  <2> DEFINE p == [page EXCEPT !.pressed = TRUE]
  <2>1. PICK s : s = page.editTarget.id
    OBVIOUS
  <2>2. PICK sent : sent = PortToSend(typed)
    OBVIOUS
  <2> DEFINE r == [PageRequest("edit", s) EXCEPT !.typed = typed, !.sent = sent]
  <2>3. /\ Parts(p) /\ p.route = "connections" /\ p.detail = page.detail
        /\ p.detailSessions = page.detailSessions
        /\ p.confirm = page.confirm /\ p.editTarget = page.editTarget
    BY <1>1 DEF Parts
  <2>4. UserSends(p, r, page.exact /\ typed # WrongPort) /\ page.editTarget # None
    BY <1>9, <2>1, <2>2 DEF saveEdit
  <2>5. s \in Sessions /\ sent \in Ports \cup {0, WrongPort}
    BY <1>1, <2>1, <2>2, <2>4 DEF DrawerParts, Rows, PortToSend
  <2>6. ChangeOK(r) /\ r.kind = "edit" /\ r.id = s /\ r.mounted /\ r.status = "sent"
        /\ r.typed = typed /\ r.sent = sent
    <3> DEFINE q == PageRequest("edit", s)
    <3>1. q \in ChangingRequests /\ q.kind = "edit" /\ q.id = s /\ q.mounted /\ q.status = "sent"
      BY <2>5, ChangeAsked DEF PageRequest, Changing, ChangeOK
    <3> HIDE DEF q
    <3>2. /\ r \in ChangingRequests /\ r.kind = "edit" /\ r.id = s /\ r.mounted
          /\ r.status = "sent" /\ r.typed = typed /\ r.sent = sent
      BY <2>5, <3>1 DEF ChangingRequests, q
    <3> QED
      BY <3>2 DEF ChangeOK
  <2> HIDE DEF p, r
  <2>7. /\ page'.detail = page.detail /\ page'.detailSessions = page.detailSessions
        /\ page'.confirm = page.confirm /\ page'.editTarget = page.editTarget
        /\ page'.exact => page.exact /\ typed # WrongPort /\ UnderWay(requests) = {}
        /\ Free(requests) # {} /\ requests' = Put(requests, r)
    BY <2>3, <2>4, UserSendsFacts
  <2>8. DrawerParts(page)'
    BY <1>1, <2>7 DEF DrawerParts
  <2>9. ASSUME DrawerOpen'
        PROVE  /\ UnderWay(requests) = {} /\ Follows(r)'
               /\ page'.confirm = None \/ page'.confirm.kind = "deleteSession"
    <3>1. Followed /\ UnderWay(requests) = {} /\ typed # WrongPort
      BY <1>1, <2>7, <2>9 DEF DrawerInv, DrawerOpen
    <3>2. page.detailSessions = RowsOf(page.detail) /\ PortsShown
      BY <3>1 DEF Followed, UnderWay, Busy, Editing, Changing
    <3>3. RowsOf(page.detail)' = RowsOf(page.detail)
      BY <2>7 DEF RowsOf, SessionsOf, SessionRow, server
    <3>4. (typed \in Ports /\ sent = typed) \/ (typed = 0 /\ sent = port[s])
      BY <2>1, <2>2, <2>4, <3>1, <3>2, PortsAssumption DEF PortToSend, PortsShown
    <3>5. Follows(r)'
      BY <2>6, <2>7, <3>2, <3>3, <3>4 DEF Follows, server
    <3> QED
      BY <2>7, <3>1, <3>5 DEF Followed
  <2> QED
    BY <2>6, <2>7, <2>8, <2>9, DrawerSends
<1> QED
  BY <1>2, <1>3, <1>4, <1>5, <1>6, <1>7, <1>8, <1>9 DEF ConnectionsUser

(* What a request that the drawer follows is about.                        *)
LEMMA FollowedOne ==
    ASSUME DrawerInv, DrawerOpen, NEW k \in Slots, Busy(requests[k])
    PROVE  /\ Follows(requests[k])
           /\ requests[k].kind # "edit" => PortsShown
           /\ page.confirm # None => page.confirm.kind = "deleteSession"
           /\ \A t \in Slots : Busy(requests[t]) => t = k
<1>1. Followed
  BY DEF DrawerInv
<1>2. requests[k].kind # "edit" => ~Editing
  BY <1>1 DEF Followed, Editing, Busy, Changing
<1> QED
  BY <1>1, <1>2 DEF Followed

(* The server does what a request asks for.                                *)
LEMMA DrawerServe ==
    ASSUME BaseInv, SessionsKnown, DrawerInv, NEW k \in Slots, ServeConnections(k)
    PROVE  DrawerInv'
<1> DEFINE r == requests[k]
           q == requests'[k]
           failed == [r EXCEPT !.status = "failed"]
<1>1. /\ r # None /\ r.status = "sent" /\ page' = page /\ r.kind \in Changing \cup {"list"}
      /\ ServeReads(k, r) \/ ServeChanges(k, r)
  BY ServeConnectionsFacts DEF ServeConnections
<1>2. DOMAIN requests = Slots
  BY DEF BaseInv, RequestsProper
<1>3. /\ \A a : Answers(k, a) = [requests EXCEPT ![k] = AnsweredWith(r, a)]
      /\ Refuses(k) = [requests EXCEPT ![k] = failed]
  BY <1>2 DEF Answers, Refuses, AnsweredWith
<1> HIDE DEF r, failed
<1>4. ASSUME r.kind = "list" PROVE DrawerInv'
  <2>1. UNCHANGED server
    BY <1>1, <1>4 DEF ServeReads, ServeChanges
  <2>2. Within({"list"})
    BY <1>1, <1>4, WithinServed, ServeConnectionsFacts DEF r
  <2>3. BusySame
    BY <2>2, WithinApart DEF Changing
  <2>4. DrawerSame
    BY <1>1 DEF DrawerSame, OnConnections, On
  <2> QED
    BY <2>1, <2>3, <2>4, DrawerApart
<1>5. r.kind \in Changing => Busy(r) /\ ChangeOK(r)
  BY <1>1 DEF Busy, DrawerInv, DrawerShape, r
<1>6. DrawerOpen' <=> DrawerOpen
  BY <1>1 DEF DrawerOpen, OnConnections, On
(* It is answered: port and rows are what they should be.                  *)
<1>7. ASSUME NEW a, r.kind \in Changing, requests' = Answers(k, a), port' \in [Sessions -> Ports],
             r.kind = "detail" => a \subseteq Rows, r.kind = "new" => a \in Rows,
             a \in ChangeAnswers,
             DrawerOpen /\ Follows(r) =>
                 /\ r.kind # "deleteConnection"
                 /\ r.kind # "edit" => port' = port
                 /\ \A x : x = AnsweredWith(r, a) => RowsOf(page.detail)' = DrawerAfter(x)
      PROVE  DrawerInv'
  <2>1. q = AnsweredWith(r, a) /\ \A t \in Slots : t # k => requests'[t] = requests[t]
    BY <1>2, <1>3, <1>7
  <2>2. /\ ChangeOK(q) /\ q.kind = r.kind /\ q.id = r.id /\ q.typed = r.typed
        /\ q.sent = r.sent /\ q.mounted = r.mounted /\ q.status = "ok" /\ q.answer = a
    BY <1>5, <1>7, <2>1, ChangeAnswered
  <2>3. DrawerShape'
    BY <1>1, <1>7, <2>1, <2>2 DEF DrawerInv, DrawerShape, DrawerParts, OnConnections, On
  <2>4. Busy(requests[k]) /\ Busy(requests'[k])
    BY <1>5, <1>7, <2>2, ChangeIsBusy DEF r
  <2>5. ASSUME DrawerOpen'
        PROVE  Follows(requests[k])' /\ (~Editing' => PortsShown')
    <3>1. Follows(r) /\ (r.kind # "edit" => PortsShown)
      BY <1>6, <2>4, <2>5, FollowedOne DEF r
    <3>2. /\ RowsOf(page.detail)' = DrawerAfter(q)
          /\ r.kind # "deleteConnection" /\ (r.kind # "edit" => port' = port)
      BY <1>6, <1>7, <2>1, <2>5, <3>1
    <3>3. DrawerAfter(requests[k])' = DrawerAfter(q)
      BY <1>1 DEF DrawerAfter
    <3>4. Follows(requests[k])'
      BY <1>1, <2>2, <3>1, <3>2, <3>3 DEF Follows
    <3>5. ~Editing' => r.kind # "edit"
      BY <2>2, <2>4 DEF Editing, Busy
    <3> QED
      BY <1>1, <3>1, <3>2, <3>4, <3>5 DEF PortsShown
  <2> QED
    BY <1>1, <1>6, <2>1, <2>3, <2>4, <2>5, DrawerOne
(* It is refused, and nothing has changed.                                 *)
<1>8. ASSUME r.kind \in Changing \ {"detail"}, requests' = Refuses(k), UNCHANGED server
      PROVE  DrawerInv'
  <2>1. q = failed /\ \A t \in Slots : t # k => requests'[t] = requests[t]
    BY <1>2, <1>3, <1>8
  <2>2. /\ ChangeOK(q) /\ q.kind = r.kind /\ q.id = r.id /\ q.typed = r.typed
        /\ q.sent = r.sent /\ q.mounted = r.mounted /\ q.status = "failed"
    BY <1>5, <1>8, <2>1, ChangeRefused DEF failed
  <2>3. DrawerShape'
    BY <1>1, <1>8, <2>1, <2>2 DEF DrawerInv, DrawerShape, DrawerParts, OnConnections, On, server
  <2>4. Busy(requests[k]) /\ Busy(requests'[k])
    BY <1>5, <1>8, <2>2, ChangeIsBusy DEF r
  <2>5. ASSUME DrawerOpen'
        PROVE  Follows(requests[k])' /\ (~Editing' => PortsShown')
    <3>1. Follows(r) /\ (r.kind # "edit" => PortsShown)
      BY <1>6, <2>4, <2>5, FollowedOne DEF r
    <3>2. Follows(requests[k])'
      BY <1>1, <1>8, <2>2, <3>1 DEF Follows
    <3>3. ~Editing' => r.kind # "edit"
      BY <2>2, <2>4 DEF Editing, Busy
    <3> QED
      BY <1>1, <1>8, <3>1, <3>2, <3>3 DEF PortsShown, server
  <2> QED
    BY <1>1, <1>6, <2>1, <2>3, <2>4, <2>5, DrawerOne
<1>9. port \in [Sessions -> Ports]
  BY DEF DrawerInv, DrawerShape
<1>10. ASSUME r.kind = "detail" PROVE DrawerInv'
  <2>1. UNCHANGED server /\ requests' = Answers(k, RowsOf(r.id))
    BY <1>1, <1>10 DEF ServeReads, ServeChanges
  <2>2. RowsOf(r.id) \subseteq Rows
    BY <1>9 DEF RowsOf, SessionsOf, SessionRow, Rows, SessionsKnown
  <2>3. ASSUME DrawerOpen, Follows(r), NEW x, x = AnsweredWith(r, RowsOf(r.id))
        PROVE  RowsOf(page.detail)' = DrawerAfter(x)
    <3>1. x.kind = "detail" /\ x.answer = RowsOf(r.id)
      BY <1>5, <1>10, <2>2, <2>3, AnswersAre, ChangeAnswered DEF Changing
    <3>2. RowsOf(page.detail)' = RowsOf(page.detail)
      BY <1>1, <2>1 DEF RowsOf, SessionsOf, SessionRow, server
    <3>3. DrawerAfter(x) = x.answer
      BY <3>1 DEF DrawerAfter
    <3> QED
      BY <1>10, <2>3, <3>1, <3>2, <3>3 DEF Follows
  <2>4. PICK a : a = RowsOf(r.id)
    OBVIOUS
  <2> QED
    BY <1>7, <1>9, <1>10, <2>1, <2>2, <2>3, <2>4, AnswersAre DEF Changing, server
<1>11. ASSUME r.kind = "deleteConnection" PROVE DrawerInv'
  <2>1. Change(k, r.id \in known, TRUE, DeleteConnection(r.id))
    BY <1>1, <1>11 DEF ServeReads, ServeChanges
  <2>2. CASE requests' = Refuses(k) /\ UNCHANGED server
    BY <1>8, <1>11, <2>2 DEF Changing
  <2>3. CASE requests' = Answers(k, TRUE) /\ DeleteConnection(r.id)
    <3>1. PICK a : a = TRUE
      OBVIOUS
    <3>2. requests' = Answers(k, a) /\ a \in ChangeAnswers
      BY <2>3, <3>1, AnswersAre, Zenon
    <3>3. port' = port
      BY <2>3 DEF DeleteConnection
    <3>4. ~Follows(r)
      BY <1>11 DEF Follows
    <3> QED
      BY <1>7, <1>9, <1>11, <3>2, <3>3, <3>4 DEF Changing
  <2> QED
    BY <2>1, <2>2, <2>3 DEF Change
<1>12. ASSUME r.kind = "deleteSession" PROVE DrawerInv'
  <2>1. Change(k, r.id \in stored, TRUE, DeleteSession(r.id))
    BY <1>1, <1>12 DEF ServeReads, ServeChanges
  <2>2. CASE requests' = Refuses(k) /\ UNCHANGED server
    BY <1>8, <1>12, <2>2 DEF Changing
  <2>3. CASE requests' = Answers(k, TRUE) /\ DeleteSession(r.id)
    <3>1. PICK a : a = TRUE
      OBVIOUS
    <3>2. requests' = Answers(k, a) /\ a \in ChangeAnswers
      BY <2>3, <3>1, AnswersAre, Zenon
    <3>3. ASSUME DrawerOpen, Follows(r), NEW x, x = AnsweredWith(r, a)
          PROVE  RowsOf(page.detail)' = DrawerAfter(x)
      <4>1. x.kind = "deleteSession" /\ x.id = r.id
        BY <1>5, <1>12, <3>3, <3>2, ChangeAnswered DEF Changing
      <4>2. page.detailSessions = RowsOf(page.detail)
        BY <1>1, <1>12, <3>3 DEF Follows
      <4>3. DrawerAfter(x) = {y \in RowsOf(page.detail) : y.id # r.id}
        BY <4>1, <4>2 DEF DrawerAfter
      <4> QED
        BY <1>1, <2>3, <4>3 DEF RowsOf, SessionsOf, SessionRow, DeleteSession
    <3>4. port' = port
      BY <2>3 DEF DeleteSession
    <3> QED
      BY <1>7, <1>9, <1>12, <3>3, <3>2, <3>4 DEF Changing
  <2> QED
    BY <2>1, <2>2, <2>3 DEF Change
<1>13. ASSUME r.kind = "new" PROVE DrawerInv'
  <2>1. \/ requests' = Refuses(k) /\ UNCHANGED server
        \/ \E s \in fresh : /\ ConnectionOf[s] = r.id
                            /\ Change(k, r.id \in known, SessionRow(s), Create(s))
    BY <1>1, <1>13 DEF ServeReads, ServeChanges
  <2>2. CASE requests' = Refuses(k) /\ UNCHANGED server
    BY <1>8, <1>13, <2>2 DEF Changing
  <2>3. ASSUME NEW s \in fresh, ConnectionOf[s] = r.id,
               requests' = Answers(k, SessionRow(s)), Create(s)
        PROVE  DrawerInv'
    <3>1. SessionRow(s) \in Rows
      BY <1>9, <2>3 DEF SessionsKnown, SessionRow, Rows
    <3>2. ASSUME DrawerOpen, Follows(r), NEW x, x = AnsweredWith(r, SessionRow(s))
          PROVE  RowsOf(page.detail)' = DrawerAfter(x)
      <4>1. x.kind = "new" /\ x.answer = SessionRow(s)
        BY <1>5, <1>13, <3>1, <3>2, AnswersAre, ChangeAnswered DEF Changing
      <4>2. page.detailSessions = RowsOf(page.detail) /\ r.id = page.detail
        BY <1>1, <1>13, <3>2 DEF Follows
      <4>3. DrawerAfter(x) = {SessionRow(s)} \cup {y \in RowsOf(page.detail) : y.id # s}
        BY <4>1, <4>2 DEF DrawerAfter, SessionRow
      <4> QED
        BY <1>1, <2>3, <4>2, <4>3 DEF RowsOf, SessionsOf, SessionRow, Create
    <3>3. PICK a : a = SessionRow(s)
      OBVIOUS
    <3> QED
      BY <1>7, <1>9, <1>13, <2>3, <3>1, <3>2, <3>3, AnswersAre DEF Changing, Create
  <2> QED
    BY <2>1, <2>2, <2>3 DEF Change
<1>14. ASSUME r.kind = "edit" PROVE DrawerInv'
  <2>1. Change(k, r.id \in stored, TRUE, UpdateSession(r.id, r.sent))
    BY <1>1, <1>14 DEF ServeReads, ServeChanges
  <2>2. CASE requests' = Refuses(k) /\ UNCHANGED server
    BY <1>8, <1>14, <2>2 DEF Changing
  <2>3. CASE requests' = Answers(k, TRUE) /\ UpdateSession(r.id, r.sent)
    <3>1. /\ stored' = stored /\ port' \in [Sessions -> Ports]
          /\ \A s \in Sessions : s # r.id => port'[s] = port[s]
          /\ r.id \in stored /\ r.sent \in Ports => port'[r.id] = r.sent
          /\ r.sent = port[r.id] => port' = port
      BY <1>9, <2>3 DEF UpdateSession, SessionsKnown
    <3>2. PICK a : a = TRUE
      OBVIOUS
    <3>3. requests' = Answers(k, a) /\ a \in ChangeAnswers
      BY <2>3, <3>2, AnswersAre, Zenon
    <3>4. ASSUME DrawerOpen, Follows(r), NEW x, x = AnsweredWith(r, a)
          PROVE  RowsOf(page.detail)' = DrawerAfter(x)
      <4>1. x.kind = "edit" /\ x.id = r.id /\ x.typed = r.typed
        BY <1>5, <1>14, <3>4, <3>3, ChangeAnswered DEF Changing
      <4>2. page.detailSessions = RowsOf(page.detail)
        BY <1>1, <1>14, <3>4 DEF Follows
      <4>3. DrawerAfter(x) = {IF y.id = r.id /\ r.typed # 0 THEN [y EXCEPT !.port = r.typed]
                              ELSE y : y \in RowsOf(page.detail)}
        BY <4>1, <4>2 DEF DrawerAfter
      <4>4. ASSUME NEW s \in stored
            PROVE  [id |-> s, port |-> port'[s]] =
                       LET y == SessionRow(s)
                       IN  IF y.id = r.id /\ r.typed # 0 THEN [y EXCEPT !.port = r.typed] ELSE y
        <5>1. CASE r.typed \in Ports /\ r.sent = r.typed
          BY <3>1, <5>1, PortsAssumption DEF SessionsKnown, SessionRow
        <5>2. CASE r.typed = 0 /\ r.sent = port[r.id]
          BY <3>1, <5>2 DEF SessionRow
        <5> QED
          BY <1>1, <1>14, <3>4, <5>1, <5>2 DEF Follows
      <4> DEFINE own == SessionsOf(page.detail)
                 became(y) == IF y.id = r.id /\ r.typed # 0 THEN [y EXCEPT !.port = r.typed] ELSE y
      <4>5. RowsOf(page.detail)' = {[id |-> s, port |-> port'[s]] : s \in own}
        BY <1>1, <3>1 DEF RowsOf, SessionsOf, SessionRow
      <4>6. \A s \in own : [id |-> s, port |-> port'[s]] = became(SessionRow(s))
        BY <4>4 DEF SessionsOf
      <4>7. DrawerAfter(x) = {became(SessionRow(s)) : s \in own}
        BY <4>3 DEF RowsOf
      <4> HIDE DEF own, became
      <4> QED
        BY <4>5, <4>6, <4>7
    <3> QED
      BY <1>7, <1>14, <3>1, <3>4, <3>3 DEF Changing
  <2> QED
    BY <2>1, <2>2, <2>3 DEF Change
<1> QED
  BY <1>1, <1>4, <1>10, <1>11, <1>12, <1>13, <1>14 DEF Changing

(* A callback: the drawer becomes what the server had.                     *)
LEMMA DrawerCallback ==
    ASSUME BaseInv, DrawerInv, NEW k \in Slots, ConnectionsCallback(k), UNCHANGED server
    PROVE  DrawerInv'
<1> DEFINE r == requests[k]
<1>1. /\ r # None /\ r.status \in {"ok", "failed"} /\ r.mounted
      /\ r.kind \in Changing \cup {"list"}
      /\ page.route = "connections" /\ page'.route = "connections" /\ Parts(page)
      /\ \E next \in {None, refresh} : requests' = [requests EXCEPT ![k] = next]
  BY ConnectionsCallbackFacts DEF BaseInv
<1>2. \/ r.status = "ok" /\ \/ TakeList(k, r) \/ TakeDetail(k, r) \/ ConnectionDeleted(k, r)
                            \/ SessionDeleted(k, r) \/ SessionCreated(k, r) \/ SessionEdited(k, r)
      \/ Failed(k, r)
  BY DEF ConnectionsCallback, Answered
<1>3. /\ ~Busy(requests'[k]) /\ requests'[k] \in {None, refresh}
      /\ \A t \in Slots : t # k => requests'[t] = requests[t]
  BY <1>1 DEF BaseInv, RequestsProper, Busy, refresh, PageRequest, Changing
<1>4. OnConnections /\ OnConnections' /\ DrawerParts(page)
  BY <1>1 DEF OnConnections, On, DrawerInv, DrawerShape
<1>5. r.kind \in Changing => Busy(r) /\ ChangeOK(r)
  BY <1>1 DEF Busy, DrawerInv, DrawerShape
<1>6. ASSUME DrawerParts(page)' PROVE DrawerShape'
  BY <1>3, <1>6 DEF DrawerInv, DrawerShape, server
<1> HIDE DEF r
(* The answer to a change that the drawer follows.                         *)
<1>7. ASSUME r.status = "ok", r.kind \in Changing, DrawerParts(page)',
             page'.detail = page.detail, page'.exact = page.exact,
             page'.detailSessions = DrawerAfter(r),
             page'.confirm \in {None, page.confirm}, page'.editTarget \in {None, page.editTarget},
             r.kind = "edit" => page'.editTarget = None
      PROVE  DrawerInv'
  <2>1. DrawerOpen' => DrawerOpen
    BY <1>4, <1>7 DEF DrawerOpen
  <2>2. ASSUME DrawerOpen'
        PROVE  page'.detailSessions = RowsOf(page.detail)' /\ PortsShown'
    <3>1. Follows(r) /\ (r.kind # "edit" => PortsShown)
      BY <1>5, <1>7, <2>1, <2>2, FollowedOne DEF r
    <3>2. page'.detailSessions = RowsOf(page.detail) /\ port' = port
      BY <1>7, <3>1 DEF Follows, server
    <3>3. RowsOf(page.detail)' = RowsOf(page.detail)
      BY <1>7 DEF RowsOf, SessionsOf, SessionRow, server
    <3>4. \A row \in RowsOf(page.detail) : row.port = port[row.id]
      BY DEF RowsOf, SessionRow
    <3>5. page'.editTarget # None => page'.editTarget.port = port[page'.editTarget.id]
      BY <1>7, <3>1 DEF PortsShown
    <3> QED
      BY <3>2, <3>3, <3>4, <3>5 DEF PortsShown
  <2> QED
    BY <1>3, <1>5, <1>6, <1>7, <2>1, <2>2, DrawerOne DEF r
<1>8. ASSUME r.kind = "list", page'.detail = page.detail,
             page'.detailSessions = page.detailSessions, page'.editTarget = page.editTarget,
             page'.confirm = page.confirm, page'.exact = page.exact
      PROVE  DrawerInv'
  <2>1. ~Busy(requests[k])
    BY <1>8 DEF Busy, Changing, r
  <2> QED
    BY <1>3, <1>4, <1>8, <2>1, DrawerApart DEF BusySame, DrawerSame
<1>9. ASSUME ~DrawerOpen', DrawerParts(page)' PROVE DrawerInv'
  BY <1>6, <1>9 DEF DrawerInv
<1>10. CASE TakeList(k, r)
  <2>1. r.kind = "list" /\ page' = [page EXCEPT !.connections = r.answer]
    BY <1>10 DEF TakeList, Settles
  <2> QED
    BY <1>1, <1>8, <2>1 DEF Parts
<1>11. CASE r.status = "ok" /\ TakeDetail(k, r)
  <2>1. r.kind = "detail" /\ page' = [page EXCEPT !.detailSessions = r.answer]
    BY <1>11 DEF TakeDetail, Settles
  <2>2. /\ page'.detail = page.detail /\ page'.detailSessions = r.answer
        /\ page'.editTarget = page.editTarget /\ page'.confirm = page.confirm
        /\ page'.exact = page.exact
    BY <1>1, <2>1 DEF Parts
  <2>3. DrawerParts(page)'
    BY <1>4, <1>5, <1>11, <2>1, <2>2 DEF DrawerParts, ChangeOK, Changing
  <2>4. DrawerAfter(r) = r.answer
    BY <2>1 DEF DrawerAfter
  <2> QED
    BY <1>7, <1>11, <2>1, <2>2, <2>3, <2>4 DEF Changing
<1>12. CASE ConnectionDeleted(k, r)
  <2>1. page' = [page EXCEPT !.detail = None, !.confirm = None]
    BY <1>12 DEF ConnectionDeleted, Settles
  <2>2. /\ page'.detail = None /\ page'.confirm = None /\ page'.editTarget = page.editTarget
        /\ page'.detailSessions = page.detailSessions
    BY <1>1, <2>1 DEF Parts
  <2> QED
    BY <1>4, <1>9, <2>2 DEF DrawerParts, DrawerOpen
<1>13. CASE r.status = "ok" /\ SessionDeleted(k, r)
  <2> DEFINE rows == {x \in page.detailSessions : x.id # r.id}
  <2>1. r.kind = "deleteSession" /\ page' = [page EXCEPT !.detailSessions = rows, !.confirm = None]
    BY <1>13 DEF SessionDeleted, Settles
  <2>2. DrawerAfter(r) = rows /\ rows \subseteq page.detailSessions
    BY <2>1 DEF DrawerAfter
  <2> HIDE DEF rows
  <2>3. /\ page'.detail = page.detail /\ page'.detailSessions = rows
        /\ page'.editTarget = page.editTarget /\ page'.confirm = None /\ page'.exact = page.exact
    BY <1>1, <2>1 DEF Parts
  <2>4. DrawerParts(page)'
    BY <1>4, <2>2, <2>3 DEF DrawerParts
  <2> QED
    BY <1>7, <1>13, <2>1, <2>2, <2>3, <2>4 DEF Changing
<1>14. CASE r.status = "ok" /\ SessionCreated(k, r)
  <2> DEFINE rows == {r.answer} \cup {x \in page.detailSessions : x.id # r.answer.id}
  <2>1. r.kind = "new" /\ page' = [page EXCEPT !.detailSessions = rows]
    BY <1>14 DEF SessionCreated, Settles
  <2>2. DrawerAfter(r) = rows /\ rows \subseteq page.detailSessions \cup {r.answer}
    BY <2>1 DEF DrawerAfter
  <2> HIDE DEF rows
  <2>3. /\ page'.detail = page.detail /\ page'.detailSessions = rows
        /\ page'.editTarget = page.editTarget /\ page'.confirm = page.confirm
        /\ page'.exact = page.exact
    BY <1>1, <2>1 DEF Parts
  <2>4. r.answer \in Rows
    BY <1>5, <1>14, <2>1 DEF ChangeOK, Changing
  <2>5. DrawerParts(page)'
    BY <1>4, <2>2, <2>3, <2>4 DEF DrawerParts
  <2> QED
    BY <1>7, <1>14, <2>1, <2>2, <2>3, <2>5 DEF Changing
<1>15. CASE r.status = "ok" /\ SessionEdited(k, r)
  <2> DEFINE rows == {IF x.id = r.id /\ r.typed # 0 THEN [x EXCEPT !.port = r.typed] ELSE x :
                          x \in page.detailSessions}
  <2>1. r.kind = "edit" /\ page' = [page EXCEPT !.detailSessions = rows, !.editTarget = None]
    BY <1>15 DEF SessionEdited, Settles
  <2>2. DrawerAfter(r) = rows
    BY <2>1 DEF DrawerAfter
  <2>3. r.typed \in Ports \cup {0, WrongPort}
    BY <1>5, <2>1 DEF ChangeOK, ChangingRequests, Changing
  <2>4. rows \subseteq Rows
    BY <1>4, <2>3 DEF DrawerParts, Rows
  <2> HIDE DEF rows
  <2>5. /\ page'.detail = page.detail /\ page'.detailSessions = rows
        /\ page'.editTarget = None /\ page'.confirm = page.confirm /\ page'.exact = page.exact
    BY <1>1, <2>1 DEF Parts
  <2>6. DrawerParts(page)'
    BY <1>4, <2>4, <2>5 DEF DrawerParts
  <2> QED
    BY <1>7, <1>15, <2>1, <2>2, <2>5, <2>6 DEF Changing
<1>16. CASE Failed(k, r)
  <2>1. page' = [page EXCEPT !.exact = @ /\ r.kind = "list",
                    !.confirm = IF r.kind \in {"deleteConnection", "deleteSession"}
                                THEN None ELSE @,
                    !.editTarget = IF r.kind = "edit" THEN None ELSE @]
    BY <1>16 DEF Failed, Settles
  <2>2. /\ page'.detail = page.detail /\ page'.detailSessions = page.detailSessions
        /\ page'.exact <=> page.exact /\ r.kind = "list"
        /\ page'.confirm \in {None, page.confirm} /\ page'.editTarget \in {None, page.editTarget}
        /\ r.kind = "list" => page'.confirm = page.confirm /\ page'.editTarget = page.editTarget
    BY <1>1, <2>1 DEF Parts
  <2>3. DrawerParts(page)'
    BY <1>4, <2>2 DEF DrawerParts
  <2>4. CASE r.kind = "list"
    <3>1. DrawerSame /\ BusySame
      BY <1>3, <1>4, <2>2, <2>4 DEF DrawerSame, BusySame, Busy, Changing, r
    <3> QED
      BY <3>1, DrawerApart
  <2>5. CASE r.kind # "list"
    BY <1>9, <2>2, <2>3, <2>5 DEF DrawerOpen
  <2> QED
    BY <2>4, <2>5
<1> QED
  BY <1>2, <1>10, <1>11, <1>12, <1>13, <1>14, <1>15, <1>16

(* The other pages, and the settings, have no such requests.               *)
LEMMA OutdatedApart ==
    ASSUME BaseInv, NEW kinds \in {{"form"}, {"form", "save"}}, NEW k \in Slots
    PROVE  \/ Outdated(kinds)[k] = requests[k]
           \/ ~Busy(requests[k]) /\ ~Busy(Outdated(kinds)[k])
<1> DEFINE r == requests[k]
           q == [r EXCEPT !.fresh = FALSE]
<1>1. r # None => Proper(r, page.route)
  BY DEF BaseInv, RequestsProper
<1>2. \/ Outdated(kinds)[k] = r
      \/ Outdated(kinds)[k] = q /\ r # None /\ r.kind \in {"form", "save"}
  BY DEF Outdated
<1> HIDE DEF r
<1> QED
  BY <1>1, <1>2 DEF Proper, Busy, Changing, r

LEMMA WriteApart ==
    ASSUME BaseInv, NEW k \in Slots, NEW f, WriteSetting(k, f)
    PROVE  BusySame
<1> DEFINE r == requests[k]
           one == [r EXCEPT !.done = @ \cup {f}]
           done == [one EXCEPT !.status = "ok"]
<1>1. /\ r # None /\ r.kind \in {"save", "dark"} /\ Proper(r, page.route)
  BY DEF WriteSetting, Waiting, BaseInv, RequestsProper
<1>2. PICK kinds \in {{"form"}, {"form", "save"}} :
          LET written == [Outdated(kinds) EXCEPT ![k] = [r EXCEPT !.done = @ \cup {f}]]
          IN  requests' = IF written[k].done = DOMAIN r.body
                          THEN [written EXCEPT ![k].status = "ok"] ELSE written
  BY DEF WriteSetting
<1>3. /\ requests'[k] \in {one, done}
      /\ \A t \in Slots : t # k => requests'[t] = Outdated(kinds)[t]
  BY <1>2 DEF Outdated
<1>4. ~Busy(r) /\ ~Busy(one) /\ ~Busy(done)
  <2> HIDE DEF r
  <2> QED
    BY <1>1 DEF Proper, Busy, Changing
<1> HIDE DEF one, done
<1> QED
  BY <1>3, <1>4, OutdatedApart DEF BusySame

LEMMA SettingsApart ==
    ASSUME BaseInv, \/ SettingsUser
                    \/ \E k \in Slots : TakeSettings(k) \/ TakeAppSettings(k) \/ Saved(k)
                                        \/ SettingsIgnored(k) \/ ServeSettings(k) \/ RefuseSave(k)
    PROVE  BusySame
<1>1. SettingsKinds \cap Changing = {}
  BY DEF SettingsKinds, Changing
<1>2. ASSUME NEW kind \in {"save", "dark"}, NEW body, NEW touched, NEW knows,
             SendSave([SettingsRequest(kind, body) EXCEPT !.touched = touched, !.fresh = knows])
      PROVE  BusySame
  <2> DEFINE r == [SettingsRequest(kind, body) EXCEPT !.touched = touched, !.fresh = knows]
  <2>1. r.kind \in SettingsKinds
    BY DEF SettingsRequest, SettingsKinds
  <2>2. Free(requests) # {} /\ requests' = Put(requests, r)
    BY <1>2 DEF SendSave
  <2> HIDE DEF r
  <2> QED
    BY <1>1, <2>1, <2>2, WithinSends, WithinApart
<1>3. CASE SettingsUser
  <2>1. CASE ToggleDark
    BY <1>2, <2>1 DEF ToggleDark
  <2>2. CASE onSave
    BY <1>2, <2>2 DEF onSave
  <2>3. ASSUME NEW f, NEW v, EditForm(f, v) PROVE BusySame
    BY <2>3 DEF EditForm, BusySame
  <2> QED
    BY <1>3, <2>1, <2>2, <2>3 DEF SettingsUser
<1>4. ASSUME NEW k \in Slots, TakeSettings(k) \/ TakeAppSettings(k) \/ SettingsIgnored(k)
      PROVE  BusySame
  <2>1. OfKind(requests[k], SettingsKinds) /\ requests' = [requests EXCEPT ![k] = None]
    BY <1>4 DEF TakeSettings, TakeAppSettings, SettingsIgnored, Answered, Refused, Dropped,
       OfKind, SettingsKinds
  <2>2. OfKind(None, SettingsKinds)
    BY DEF OfKind
  <2> QED
    BY <1>1, <2>1, <2>2, WithinOne, WithinApart
<1>5. ASSUME NEW k \in Slots, Saved(k) PROVE BusySame
  <2> DEFINE app == [SettingsRequest("app", NoBody) EXCEPT !.key = NewKey(requests[k])]
  <2>1. /\ OfKind(requests[k], SettingsKinds) /\ OfKind(None, SettingsKinds)
        /\ OfKind(app, SettingsKinds)
    BY <1>5 DEF Saved, OfKind, SettingsKinds, SettingsRequest
  <2>2. \/ requests' = [requests EXCEPT ![k] = None]
        \/ requests' = [requests EXCEPT ![k] = app]
    BY <1>5 DEF Saved, Dropped
  <2> HIDE DEF app
  <2> QED
    BY <1>1, <2>1, <2>2, WithinOne, WithinApart
<1>6. ASSUME NEW k \in Slots, requests[k] # None, requests[k].kind \in SettingsKinds,
             requests' = Refuses(k)
      PROVE  BusySame
  BY <1>1, <1>6, WithinServed, WithinApart
<1>7. ASSUME NEW k \in Slots, ServeSettings(k) PROVE BusySame
  <2> DEFINE r == requests[k]
             current == Writing = {}
             q == [r EXCEPT !.status = "ok", !.answer = settings, !.fresh = current]
  <2>1. r # None /\ r.kind \in SettingsKinds /\ Proper(r, page.route) /\ DOMAIN requests = Slots
    BY <1>7 DEF ServeSettings, Waiting, SettingsKinds, BaseInv, RequestsProper
  <2>2. CASE requests' = [Answers(k, settings) EXCEPT ![k].fresh = (Writing = {})]
    <3>1. requests' = [requests EXCEPT ![k] = q]
      BY <2>1, <2>2 DEF Answers
    <3>2. OfKind(r, SettingsKinds)
      BY <2>1 DEF OfKind
    <3> HIDE DEF r, current
    <3>3. OfKind(q, SettingsKinds)
      BY <2>1 DEF Proper, OfKind
    <3> HIDE DEF q
    <3> QED
      BY <1>1, <3>1, <3>2, <3>3, WithinOne, WithinApart DEF r
  <2> QED
    BY <1>6, <1>7, <2>1, <2>2 DEF ServeSettings
<1>8. ASSUME NEW k \in Slots, RefuseSave(k) PROVE BusySame
  BY <1>6, <1>8 DEF RefuseSave, Waiting, SettingsKinds
<1> QED
  BY <1>3, <1>4, <1>5, <1>7, <1>8

(* A failure, and what nobody waits for any more.                          *)
LEMMA DrawerFail == ASSUME BaseInv, DrawerInv, NEW k \in Slots, Fail(k) PROVE DrawerInv'
<1> DEFINE r == requests[k]
           q == requests'[k]
           failed == [r EXCEPT !.status = "failed"]
<1>1. /\ r # None /\ requests' = Refuses(k) /\ page' = page /\ UNCHANGED server
      /\ DOMAIN requests = Slots
  BY DEF Fail, BaseInv, RequestsProper
<1>2. q = failed /\ \A t \in Slots : t # k => requests'[t] = requests[t]
  BY <1>1 DEF Refuses
<1>3. DrawerOpen' <=> DrawerOpen
  BY <1>1 DEF DrawerOpen, OnConnections, On
<1> HIDE DEF r, failed
<1>4. CASE Busy(r)
  <2>1. ChangeOK(r)
    BY <1>4 DEF DrawerInv, DrawerShape, r
  <2>2. /\ ChangeOK(q) /\ q.kind = r.kind /\ q.id = r.id /\ q.typed = r.typed
        /\ q.sent = r.sent /\ q.mounted = r.mounted /\ q.status = "failed"
    BY <1>2, <2>1, ChangeRefused DEF failed
  <2>3. DrawerShape'
    BY <1>1, <1>2, <2>2 DEF DrawerInv, DrawerShape, DrawerParts, OnConnections, On, server
  <2>4. Busy(requests[k]) /\ Busy(requests'[k])
    BY <1>4, <2>2, ChangeIsBusy DEF r
  <2>5. ASSUME DrawerOpen'
        PROVE  Follows(requests[k])' /\ (~Editing' => PortsShown')
    <3>1. Follows(r) /\ (r.kind # "edit" => PortsShown)
      BY <1>3, <2>4, <2>5, FollowedOne DEF r
    <3>2. Follows(requests[k])'
      BY <1>1, <2>2, <3>1 DEF Follows
    <3>3. ~Editing' => r.kind # "edit"
      BY <2>2, <2>4 DEF Editing, Busy
    <3> QED
      BY <1>1, <3>1, <3>2, <3>3 DEF PortsShown, server
  <2> QED
    BY <1>1, <1>3, <1>2, <2>3, <2>4, <2>5, DrawerOne
<1>5. CASE ~Busy(r)
  <2>1. Within({r.kind}) /\ {r.kind} \cap Changing = {}
    BY <1>1, <1>5, WithinServed DEF Busy, r
  <2>2. BusySame
    BY <2>1, WithinApart
  <2>3. DrawerSame
    BY <1>1 DEF DrawerSame, OnConnections, On
  <2> QED
    BY <1>1, <2>2, <2>3, DrawerApart
<1> QED
  BY <1>4, <1>5

LEMMA DrawerUnheard == ASSUME BaseInv, DrawerInv, NEW k \in Slots, Unheard(k) PROVE DrawerInv'
<1> DEFINE r == requests[k]
<1>1. /\ r # None /\ ~r.mounted /\ page' = page /\ UNCHANGED server
      /\ requests'[k] = None /\ \A t \in Slots : t # k => requests'[t] = requests[t]
  BY DEF Unheard, Dropped, BaseInv, RequestsProper
<1>2. ~Busy(None)
  BY DEF Busy
<1>3. CASE Busy(r)
  <2>1. ~DrawerOpen'
    <3>1. DrawerOpen => Follows(r)
      BY <1>3, FollowedOne
    <3> QED
      BY <1>1, <3>1 DEF Follows, DrawerOpen, OnConnections, On
  <2> QED
    BY <1>1, <1>2, <2>1, DrawerAway
       DEF DrawerInv, DrawerShape, DrawerParts, OnConnections, On, server
<1>4. CASE ~Busy(r)
  BY <1>1, <1>2, <1>4, DrawerApart DEF BusySame, DrawerSame, OnConnections, On
<1> QED
  BY <1>3, <1>4

(* What others do to the server: the drawer cannot follow.                 *)
LEMMA DrawerInterfere == ASSUME BaseInv, DrawerInv, Interfere PROVE DrawerInv'
<1>1. /\ page' = IF OnConnections THEN [page EXCEPT !.exact = FALSE] ELSE page
      /\ requests' = requests /\ port' = port
  BY DEF Interfere, SessionElsewhere, Create, DeleteSession
<1>2. OnConnections' => /\ OnConnections /\ ~page'.exact /\ page'.detail = page.detail
                        /\ page'.detailSessions = page.detailSessions
                        /\ page'.editTarget = page.editTarget /\ page'.confirm = page.confirm
  BY <1>1 DEF OnConnections, On, BaseInv, Parts
<1>3. ~DrawerOpen'
  BY <1>2 DEF DrawerOpen
<1> QED
  BY <1>1, <1>2, <1>3, DrawerAway DEF DrawerInv, DrawerShape, DrawerParts

LEMMA DrawerElsewhere == ASSUME BaseInv, DrawerInv, InterfereSettings PROVE DrawerInv'
<1>1. /\ page' = IF OnSettings THEN [page EXCEPT !.fresh = FALSE] ELSE page
      /\ requests' = Outdated({"form", "save"}) /\ UNCHANGED server
  BY DEF InterfereSettings, WriteElsewhere
<1>2. BusySame
  BY <1>1, OutdatedApart DEF BusySame
<1>3. DrawerSame
  BY <1>1 DEF DrawerSame, OnConnections, OnSettings, On, BaseInv, Parts
<1> QED
  BY <1>1, <1>2, <1>3, DrawerApart

(* Another page, or this one once more: its drawer is closed, and what was *)
(* sent before is not heard of.                                            *)
LEMMA AbandonedChanges ==
    ASSUME BaseInv, DrawerInv, NEW heard, heard \subseteq {"save", "dark", "app"}, NEW k \in Slots,
           Busy(Abandoned(heard)[k])
    PROVE  ChangeOK(Abandoned(heard)[k])
<1> DEFINE r == requests[k]
           a == Abandoned(heard)[k]
           q == [r EXCEPT !.mounted = FALSE]
<1>1. a = None \/ (r # None /\ a \in {r, q})
  BY AbandonedFacts
<1>2. r # None => Proper(r, page.route)
  BY DEF BaseInv, RequestsProper
<1>3. Busy(r) => ChangeOK(r)
  BY DEF DrawerInv, DrawerShape
<1> HIDE DEF r, a
<1>4. CASE a = None
  BY <1>4 DEF Busy, a
<1>5. CASE a = r
  BY <1>3, <1>5 DEF a
<1>6. CASE r # None /\ a = q
  <2>1. q.kind = r.kind
    BY <1>2, <1>6 DEF Proper
  <2>2. Busy(r)
    BY <1>6, <2>1 DEF Busy, a
  <2>3. ChangeOK(q)
    BY <1>3, <2>2, ChangeMoved
  <2> QED
    BY <1>6, <2>3 DEF a
<1> QED
  BY <1>1, <1>4, <1>5, <1>6

LEMMA DrawerNavigate ==
    ASSUME BaseInv, DrawerInv, NEW route, Navigate(route)
    PROVE  DrawerInv'
<1> DEFINE heard == {"save", "dark", "app"}
           left == Abandoned(heard)
<1>1. Mount(route, left) /\ DOMAIN left = Slots /\ port' = port
  BY DEF Navigate, Abandoned, server
<1>2. \A k \in Slots : Busy(left[k]) => ChangeOK(left[k])
  BY AbandonedChanges
<1> HIDE DEF left
<1>3. PICK r : requests' = Put(left, r) /\ r.kind \in {"overview", "list", "first", "form"}
  BY <1>1, MountFacts
<1>4. \A k \in Slots : requests'[k] \in {left[k], r}
  BY <1>1, <1>3, PutAnywhere
<1>5. \A k \in Slots : Busy(requests'[k]) => ChangeOK(requests'[k])
  BY <1>2, <1>3, <1>4 DEF Busy, Changing
<1>6. OnConnections' => page' = MountedConnections
  BY <1>1 DEF Mount, OnConnections, On, MountedHome, MountSessions, MountedSessions, MountedSettings
<1>7. ~DrawerOpen' /\ (OnConnections' => DrawerParts(page)')
  BY <1>6 DEF DrawerOpen, DrawerParts, MountedConnections
<1> QED
  BY <1>1, <1>5, <1>7, DrawerAway DEF DrawerInv, DrawerShape

LEMMA DrawerReload == ASSUME BaseInv, DrawerInv, Reload PROVE DrawerInv'
<1> DEFINE left == Abandoned({})
           app == SettingsRequest("app", NoBody)
           first == ListsRequest("first")
<1>1. /\ page' = MountedSessions(address, page.selected) /\ requests' = Put(Put(left, app), first)
      /\ DOMAIN left = Slots /\ port' = port
  BY DEF Reload, MountSessions, Abandoned, server
<1>2. \A k \in Slots : Busy(left[k]) => ChangeOK(left[k])
  <2>1. {} \subseteq {"save", "dark", "app"}
    OBVIOUS
  <2> QED
    BY <2>1, AbandonedChanges, Zenon
<1>3. ~Busy(app) /\ ~Busy(first)
  BY DEF SettingsRequest, ListsRequest, Busy, Changing
<1>4. ~OnConnections'
  BY <1>1 DEF MountedSessions, OnConnections, On
<1> HIDE DEF left, app, first
<1>5. \A k \in Slots : requests'[k] \in {left[k], app, first}
  BY <1>1, PutAnywhere
<1>6. \A k \in Slots : Busy(requests'[k]) => ChangeOK(requests'[k])
  BY <1>2, <1>3, <1>5
<1> QED
  BY <1>1, <1>4, <1>6, DrawerAway DEF DrawerInv, DrawerShape, DrawerOpen

(* What the other pages do.                                                *)
LEMMA DrawerOthers ==
    ASSUME DrawerInv, UNCHANGED server, page' = page \/ ~OnConnections',
           NEW kinds, kinds \cap Changing = {}, Within(kinds)
    PROVE  DrawerInv'
BY WithinApart, DrawerApart DEF DrawerSame, OnConnections, On

LEMMA DrawerSettles ==
    ASSUME DrawerInv, BusySame, UNCHANGED server, page' = page \/ ~OnConnections'
    PROVE  DrawerInv'
BY DrawerApart DEF DrawerSame, OnConnections, On

LEMMA DrawerUser == ASSUME BaseInv, DrawerInv, User PROVE DrawerInv'
<1>1. ASSUME HomeUser, HomeStep PROVE DrawerInv'
  <2>1. ~OnConnections'
    BY <1>1, HomeUserFacts DEF BaseInv, Parts, OnConnections, On
  <2> QED
    BY <1>1, <2>1, HomeWithin, DrawerOthers DEF HomeStep, Changing
<1>2. ASSUME SessionsUser, PickerStep PROVE DrawerInv'
  <2>1. ~OnConnections'
    BY <1>2, BaseSessionsUser DEF OnConnections, On
  <2> QED
    BY <1>2, <2>1, PickerWithin, DrawerOthers DEF PickerStep, Changing
<1>3. ASSUME SettingsUser, SettingsStep PROVE DrawerInv'
  <2>1. page' = page \/ ~OnConnections'
    BY <1>3, BaseSettingsUser DEF OnSettings, OnConnections, On
  <2> QED
    BY <1>3, <2>1, SettingsApart, DrawerSettles DEF SettingsStep
<1> QED
  BY <1>1, <1>2, <1>3, DrawerConnectionsUser DEF User, HomeStep

LEMMA DrawerTimer == ASSUME BaseInv, DrawerInv, Timer PROVE DrawerInv'
<1>1. ASSUME HomeTimer, HomeStep PROVE DrawerInv'
  BY <1>1, HomeWithin, DrawerOthers DEF HomeTimer, HomeStep, Changing
<1>2. ASSUME ListTimer, HomeStep PROVE DrawerInv'
  BY <1>2, ListWithin, DrawerOthers DEF ListTimer, HomeStep, Changing
<1>3. ASSUME SessionsTimer, PickerStep PROVE DrawerInv'
  BY <1>3, PickerWithin, DrawerOthers DEF SessionsTimer, PickerStep, Changing
<1> QED
  BY <1>1, <1>2, <1>3 DEF Timer

LEMMA DrawerServes ==
    ASSUME BaseInv, SessionsKnown, DrawerInv, NEW k \in Slots, Serve(k)
    PROVE  DrawerInv'
<1>1. ASSUME ServeOverview(k), HomeStep PROVE DrawerInv'
  BY <1>1, HomeWithin, DrawerOthers DEF ServeOverview, HomeStep, Changing
<1>2. ASSUME ServeLists(k), PickerStep, page' = page PROVE DrawerInv'
  BY <1>2, PickerWithin, DrawerOthers DEF PickerStep, Changing
<1>3. ASSUME ServeSettings(k) \/ RefuseSave(k), SettingsStep PROVE DrawerInv'
  BY <1>3, SettingsApart, DrawerSettles DEF ServeSettings, RefuseSave, SettingsStep
<1>4. ASSUME NEW f, WriteSetting(k, f), SettingsStep PROVE DrawerInv'
  <2>1. page' = page \/ ~OnConnections'
    BY <1>4 DEF WriteSetting, OnSettings, OnConnections, On, BaseInv, Parts
  <2> QED
    BY <1>4, <2>1, WriteApart, DrawerSettles DEF SettingsStep
<1> QED
  BY <1>1, <1>2, <1>3, <1>4, DrawerServe DEF Serve

LEMMA DrawerCallbacks ==
    ASSUME BaseInv, DrawerInv, NEW k \in Slots, Callback(k)
    PROVE  DrawerInv'
<1> DEFINE r == requests[k]
<1>1. page'.route = page.route /\ (r # None => Proper(r, page.route))
  BY BaseCallback DEF BaseInv, RequestsProper
<1>2. ASSUME TakeOverview(k) \/ OverviewFailed(k), HomeStep PROVE DrawerInv'
  <2>1. ~OnConnections'
    BY <1>1, <1>2 DEF TakeOverview, OverviewFailed, Answered, Refused, Proper, OnConnections, On
  <2> QED
    BY <1>2, <2>1, HomeWithin, DrawerOthers DEF HomeStep, Changing
<1>3. ASSUME TakeFirst(k) \/ TakeLists(k) \/ ListsFailed(k), PickerStep PROVE DrawerInv'
  <2>1. ~OnConnections'
    BY <1>1, <1>3 DEF TakeFirst, TakeLists, ListsFailed, Answered, Refused, Proper, IsLists,
       OnConnections, On
  <2> QED
    BY <1>3, <2>1, PickerWithin, DrawerOthers DEF PickerStep, Changing
<1>4. ASSUME TakeSettings(k) \/ TakeAppSettings(k) \/ Saved(k) \/ SettingsIgnored(k), SettingsStep
      PROVE  DrawerInv'
  <2>1. page' = page \/ ~OnConnections'
    BY <1>1, <1>4 DEF TakeSettings, TakeAppSettings, Saved, SettingsIgnored, Answered, Proper,
       OnConnections, On
  <2> QED
    BY <1>4, <2>1, SettingsApart, DrawerSettles DEF SettingsStep
<1> QED
  BY <1>2, <1>3, <1>4, DrawerCallback, DrawerUnheard DEF Callback, HomeStep

LEMMA DrawerNext == BaseInv /\ PickerInv /\ DrawerInv /\ [Next]_vars => DrawerInv'
<1> SUFFICES ASSUME BaseInv, PickerInv, DrawerInv, [Next]_vars PROVE DrawerInv'
  OBVIOUS
<1>1. CASE UNCHANGED vars
  <2>1. BusySame
    BY <1>1 DEF vars, browser, BusySame
  <2> QED
    BY <1>1, <2>1, DrawerSettles DEF vars, browser
<1>2. CASE \E k \in Slots : Serve(k) \/ Callback(k) \/ Fail(k)
  BY <1>2, DrawerServes, DrawerCallbacks, DrawerFail DEF PickerInv
<1>3. CASE \E route \in Routes : Navigate(route)
  BY <1>3, DrawerNavigate
<1> QED
  BY <1>1, <1>2, <1>3, DrawerUser, DrawerTimer, DrawerReload, DrawerInterfere, DrawerElsewhere
     DEF Next

LEMMA DrawerInit == Init => DrawerInv
<1> SUFFICES ASSUME Init PROVE DrawerInv
  OBVIOUS
<1>1. port \in [Sessions -> Ports]
  BY MinIn, PortsAssumption DEF Init
<1>2. OnConnections => page = MountedConnections
  BY DEF Init, OnConnections, On, MountedHome, MountedSessions, MountedSettings
<1>3. \E r : ~Busy(r) /\ requests = Put(Nobody, r)
  BY DEF Init, LoadRequest, refresh, PageRequest, ListsRequest, SettingsRequest, Busy, Changing
<1>4. DOMAIN Nobody = Slots /\ (\A k \in Slots : Nobody[k] = None) /\ ~Busy(None)
  BY DEF Nobody, Busy
<1>5. \A k \in Slots : ~Busy(requests[k])
  BY <1>3, <1>4, PutAnywhere
<1>6. ~DrawerOpen /\ (OnConnections => DrawerParts(page))
  BY <1>2 DEF DrawerOpen, DrawerParts, MountedConnections
<1> QED
  BY <1>1, <1>5, <1>6 DEF DrawerInv, DrawerShape

LEMMA DrawerInvHolds == Spec => []DrawerInv
BY BaseInvHolds, PickerInvHolds, DrawerInit, DrawerNext, PTL DEF Spec

(* The drawer is asked for once.  Whatever the user creates, edits and     *)
(* deletes in it afterwards, one thing after the other, it shows the       *)
(* sessions and the ports the server has, without asking again: each       *)
(* answer changes the drawer the way its request has changed the server,   *)
(* also when nothing was typed and the port the dialog began with goes     *)
(* back (Connections.tsx:102-111,139-141,177-186,194-212).                 *)
THEOREM DrawerStaysExact == Spec => []DrawerExact
<1>1. DrawerInv => DrawerExact
  <2> SUFFICES ASSUME DrawerInv, DrawerOpen, UnderWay(requests) = {}
               PROVE  page.detailSessions = RowsOf(page.detail)
    BY DEF DrawerExact, DrawerOpen
  <2>1. \A k \in Slots : ~Busy(requests[k])
    BY DEF UnderWay, Busy
  <2> QED
    BY <2>1 DEF DrawerInv, Followed
<1> QED
  BY <1>1, DrawerInvHolds, PTL

-----------------------------------------------------------------------------
(* The dialogs of the connections, and the requests they wait for.         *)

Deletions == {"deleteConnection", "deleteSession"}

Awaited(kinds) == \E k \in Slots : /\ Busy(requests[k]) /\ requests[k].kind \in kinds
                                   /\ requests[k].mounted

(* Only one of the dialogs is open: what was sent for the other would leave*)
(* this one pressed and waiting for nothing.                               *)
DialogInv ==
    OnConnections =>
        /\ page.confirm = None \/ page.editTarget = None
        /\ page.pressed /\ page.confirm # None => Awaited(Deletions)
        /\ page.pressed /\ page.editTarget # None => Awaited({"edit"})

(* What is awaited after a step that drops no such request.                *)
LEMMA StillAwaited ==
    ASSUME NEW kinds, Awaited(kinds),
           \A k \in Slots :
              Busy(requests[k]) /\ requests[k].kind \in kinds /\ requests[k].mounted =>
                  /\ Busy(requests'[k]) /\ requests'[k].kind = requests[k].kind
                  /\ requests'[k].mounted
    PROVE  Awaited(kinds)'
BY DEF Awaited

(* A dialog may be closed, and no request that one waits for is dropped    *)
(* unless it is.                                                           *)
LEMMA DialogKeeps ==
    ASSUME DialogInv,
           OnConnections' =>
               /\ OnConnections
               /\ page'.confirm \in {None, page.confirm}
               /\ page'.editTarget \in {None, page.editTarget}
               /\ page'.pressed => page.pressed
               /\ page'.confirm # None /\ Awaited(Deletions) => Awaited(Deletions)'
               /\ page'.editTarget # None /\ Awaited({"edit"}) => Awaited({"edit"})'
    PROVE  DialogInv'
BY DEF DialogInv

LEMMA DialogApart ==
    ASSUME DialogInv, BusySame, page' = page \/ ~OnConnections'
    PROVE  DialogInv'
<1>1. \A k \in Slots : Busy(requests[k]) => requests'[k] = requests[k]
  BY DEF BusySame
<1>2. \A kinds : Awaited(kinds) => Awaited(kinds)'
  BY <1>1, StillAwaited
<1> QED
  BY <1>2, DialogKeeps DEF OnConnections, On

(* What the other pages do.                                                *)
LEMMA DialogOthers ==
    ASSUME DialogInv, page' = page \/ ~OnConnections',
           NEW kinds, kinds \cap Changing = {}, Within(kinds)
    PROVE  DialogInv'
BY WithinApart, DialogApart

(* A request is sent, and nothing else changes.                            *)
LEMMA AwaitedSends ==
    ASSUME BaseInv, NEW r, Free(requests) # {}, requests' = Put(requests, r)
    PROVE  /\ \A kinds : Awaited(kinds) => Awaited(kinds)'
           /\ \A kinds : Busy(r) /\ r.kind \in kinds /\ r.mounted => Awaited(kinds)'
<1>1. DOMAIN requests = Slots
  BY DEF BaseInv, RequestsProper
<1>2. PICK k \in Slots : requests[k] = None /\ requests' = [requests EXCEPT ![k] = r]
  BY <1>1, PutFree
<1>3. requests'[k] = r /\ \A t \in Slots : t # k => requests'[t] = requests[t]
  BY <1>1, <1>2
<1>4. ~Busy(requests[k])
  BY <1>2 DEF Busy
<1>5. \A kinds : Awaited(kinds) => Awaited(kinds)'
  BY <1>3, <1>4, StillAwaited
<1> QED
  BY <1>3, <1>5 DEF Awaited

LEMMA DialogConnectionsUser ==
    ASSUME BaseInv, DrawerInv, DialogInv, ConnectionsUser
    PROVE  DialogInv'
<1>1. /\ page.route = "connections" /\ Parts(page) /\ OnConnections /\ DrawerParts(page)
      /\ page.confirm = None \/ Confirms(page.confirm)
  BY ConnectionsUserFacts DEF BaseInv, OnConnections, On, DrawerInv, DrawerShape, Parts
(* A click that leaves the dialogs as they are, or closes one.             *)
<1>2. ASSUME page'.confirm \in {None, page.confirm},
             page'.editTarget \in {None, page.editTarget}, page'.pressed = page.pressed,
             \/ requests' = requests
             \/ Free(requests) # {} /\ \E r : requests' = Put(requests, r)
      PROVE  DialogInv'
  <2>1. \A kinds : Awaited(kinds) => Awaited(kinds)'
    BY <1>2, AwaitedSends DEF Awaited
  <2> QED
    BY <1>1, <1>2, <2>1, DialogKeeps
<1>3. ASSUME NEW p, Parts(p), p.route = "connections", NEW r, NEW e, UserSends(p, r, e),
             p.confirm = page.confirm, p.editTarget = page.editTarget
      PROVE  /\ page'.confirm = page.confirm /\ page'.editTarget = page.editTarget
             /\ page'.pressed = p.pressed
             /\ Free(requests) # {} /\ requests' = Put(requests, r)
  BY <1>3 DEF UserSends, Parts
<1>4. ASSUME NEW c, openDetail(c) PROVE DialogInv'
  <2> DEFINE p == [page EXCEPT !.detail = c, !.detailSessions = {}]
             r == PageRequest("detail", c)
  <2>1. /\ Parts(p) /\ p.route = "connections" /\ p.confirm = page.confirm
        /\ p.editTarget = page.editTarget /\ p.pressed = page.pressed
    BY <1>1 DEF Parts
  <2>2. UserSends(p, r, TRUE)
    BY <1>4 DEF openDetail
  <2> HIDE DEF p, r
  <2> QED
    BY <1>2, <1>3, <2>1, <2>2
<1>5. ASSUME CloseDetail \/ CancelConfirm \/ CancelEdit PROVE DialogInv'
  <2>1. /\ requests' = requests
        /\ \/ page' = [page EXCEPT !.detail = None]
           \/ page' = [page EXCEPT !.confirm = None]
           \/ page' = [page EXCEPT !.editTarget = None]
    BY <1>5 DEF CloseDetail, CancelConfirm, CancelEdit, UserDoes
  <2> QED
    BY <1>1, <1>2, <2>1 DEF Parts
<1>6. ASSUME NEW r, NoDialog, UserDoes([page EXCEPT !.confirm = r, !.pressed = FALSE])
      PROVE  DialogInv'
  BY <1>1, <1>6 DEF UserDoes, Parts, NoDialog, DialogInv
<1>7. ASSUME NEW c, handleDeleteConnection(c) PROVE DialogInv'
  BY <1>6, <1>7 DEF handleDeleteConnection, AtList
<1>8. ASSUME NEW row, handleDeleteSession(row) PROVE DialogInv'
  BY <1>6, <1>8 DEF handleDeleteSession, InDrawer
<1>9. ASSUME NEW row, openEdit(row) PROVE DialogInv'
  BY <1>1, <1>9 DEF openEdit, InDrawer, UserDoes, Parts, NoDialog, DialogInv
<1>10. ASSUME onConfirm PROVE DialogInv'
  <2> DEFINE p == [page EXCEPT !.pressed = TRUE]
             r == page.confirm
  <2>1. /\ Parts(p) /\ p.route = "connections" /\ p.confirm = page.confirm
        /\ p.editTarget = page.editTarget
    BY <1>1 DEF Parts
  <2>2. UserSends(p, r, page.exact) /\ r # None
    BY <1>10 DEF onConfirm
  <2>3. Busy(r) /\ r.kind \in Deletions /\ r.mounted
    BY <1>1, <2>2 DEF Confirms, Busy, Changing, Deletions
  <2>4. page.editTarget = None
    BY <1>1, <2>2 DEF DialogInv
  <2> HIDE DEF p
  <2>5. /\ page'.confirm = page.confirm /\ page'.editTarget = None
        /\ Free(requests) # {} /\ requests' = Put(requests, r)
    BY <1>3, <2>1, <2>2, <2>4
  <2> HIDE DEF r
  <2>6. Awaited(Deletions)'
    BY <2>3, <2>5, AwaitedSends
  <2> QED
    BY <2>5, <2>6 DEF DialogInv
<1>11. ASSUME handleNewSession PROVE DialogInv'
  <2>1. UserSends(page, PageRequest("new", page.detail), page.exact)
    BY <1>11 DEF handleNewSession
  <2> QED
    BY <1>1, <1>2, <1>3, <2>1
<1>12. ASSUME NEW typed \in Ports \cup {0, WrongPort}, saveEdit(typed) PROVE DialogInv'
  <2> DEFINE p == [page EXCEPT !.pressed = TRUE]
  <2>1. PICK s : s = page.editTarget.id
    OBVIOUS
  <2>2. PICK sent : sent = PortToSend(typed)
    OBVIOUS
  <2> DEFINE r == [PageRequest("edit", s) EXCEPT !.typed = typed, !.sent = sent]
  <2>3. /\ Parts(p) /\ p.route = "connections" /\ p.confirm = page.confirm
        /\ p.editTarget = page.editTarget
    BY <1>1 DEF Parts
  <2>4. UserSends(p, r, page.exact /\ typed # WrongPort) /\ page.editTarget # None
    BY <1>12, <2>1, <2>2 DEF saveEdit
  <2>5. s \in Sessions /\ sent \in Ports \cup {0, WrongPort}
    BY <1>1, <2>1, <2>2, <2>4 DEF DrawerParts, Rows, PortToSend
  <2>6. ChangeOK(r) /\ r.kind = "edit" /\ r.mounted
    <3> DEFINE q == PageRequest("edit", s)
    <3>1. q \in ChangingRequests /\ q.kind = "edit" /\ q.mounted /\ q.status = "sent"
      BY <2>5, ChangeAsked DEF PageRequest, Changing, ChangeOK
    <3> HIDE DEF q
    <3>2. r \in ChangingRequests /\ r.kind = "edit" /\ r.mounted /\ r.status = "sent"
      BY <2>5, <3>1 DEF ChangingRequests, q
    <3> QED
      BY <3>2 DEF ChangeOK
  <2>7. page.confirm = None
    BY <1>1, <2>4 DEF DialogInv
  <2> HIDE DEF p, r
  <2>8. /\ page'.confirm = None /\ page'.editTarget = page.editTarget
        /\ Free(requests) # {} /\ requests' = Put(requests, r)
    BY <1>3, <2>3, <2>4, <2>7
  <2>9. Awaited({"edit"})'
    BY <2>6, <2>8, AwaitedSends, ChangeIsBusy
  <2> QED
    BY <2>8, <2>9 DEF DialogInv
<1> QED
  BY <1>4, <1>5, <1>7, <1>8, <1>9, <1>10, <1>11, <1>12 DEF ConnectionsUser

(* The server and the network take no request away.                        *)
LEMMA DialogServed ==
    ASSUME BaseInv, DrawerInv, DialogInv, page' = page, NEW k \in Slots, requests[k] # None, NEW a,
           requests[k].kind \in Deletions \cup {"edit"} /\ requests' # Refuses(k) => a = TRUE,
           requests' \in {Answers(k, a), Refuses(k)}
    PROVE  DialogInv'
<1> DEFINE r == requests[k]
           failed == [r EXCEPT !.status = "failed"]
<1>1. DOMAIN requests = Slots
  BY DEF BaseInv, RequestsProper
<1>2. /\ requests'[k] \in {AnsweredWith(r, a), failed}
      /\ requests' # Refuses(k) => requests'[k] = AnsweredWith(r, a)
      /\ requests' = Refuses(k) => requests'[k] = failed
      /\ \A t \in Slots : t # k => requests'[t] = requests[t]
  BY <1>1 DEF Answers, Refuses, AnsweredWith
<1>3. ASSUME Busy(r), r.kind \in Deletions \cup {"edit"}, r.mounted
      PROVE  /\ Busy(requests'[k]) /\ requests'[k].kind = r.kind /\ requests'[k].mounted
  <2>1. ChangeOK(r)
    BY <1>3 DEF DrawerInv, DrawerShape
  <2>2. r.kind # "detail" /\ r.kind # "new"
    BY <1>3 DEF Deletions
  <2>3. requests'[k] \in {AnsweredWith(r, TRUE), failed}
    BY <1>2, <1>3
  <2> HIDE DEF r
  <2>4. CASE requests'[k] = AnsweredWith(r, TRUE)
    <3>1. LET q == AnsweredWith(r, TRUE)
          IN  ChangeOK(q) /\ q.kind = r.kind /\ q.mounted = r.mounted
      BY <2>1, <2>2, AnswersAre, ChangeAnswered
    <3> QED
      BY <1>3, <2>4, <3>1, ChangeIsBusy
  <2>5. CASE requests'[k] = failed
    BY <1>3, <2>1, <2>5, ChangeRefused, ChangeIsBusy DEF failed
  <2> QED
    BY <2>3, <2>4, <2>5
<1>4. \A kinds : kinds \subseteq Deletions \cup {"edit"} /\ Awaited(kinds) => Awaited(kinds)'
  BY <1>2, <1>3, StillAwaited
<1> QED
  BY <1>4, DialogKeeps DEF OnConnections, On, Deletions

LEMMA DialogServe ==
    ASSUME BaseInv, DrawerInv, DialogInv, NEW k \in Slots, ServeConnections(k)
    PROVE  DialogInv'
<1> DEFINE r == requests[k]
<1>1. r # None /\ page' = page /\ \E a : requests' \in {Answers(k, a), Refuses(k)}
  BY ServeConnectionsFacts
<1>2. r.kind \in Deletions \cup {"edit"} => requests' \in {Answers(k, TRUE), Refuses(k)}
  BY DEF ServeConnections, ServeReads, ServeChanges, Change, Deletions
<1> QED
  BY <1>1, <1>2, DialogServed

LEMMA DialogCallback ==
    ASSUME BaseInv, DialogInv, NEW k \in Slots, ConnectionsCallback(k)
    PROVE  DialogInv'
<1> DEFINE r == requests[k]
<1>1. /\ r # None /\ r.kind \in Changing \cup {"list"}
      /\ page.route = "connections" /\ page'.route = "connections" /\ Parts(page)
      /\ \A t \in Slots : t # k => requests'[t] = requests[t]
  BY ConnectionsCallbackFacts DEF BaseInv, RequestsProper
<1>2. \/ TakeList(k, r) \/ TakeDetail(k, r) \/ ConnectionDeleted(k, r)
      \/ SessionDeleted(k, r) \/ SessionCreated(k, r) \/ SessionEdited(k, r)
      \/ Failed(k, r)
  BY DEF ConnectionsCallback, Answered
<1>3. \A kinds : r.kind \notin kinds /\ Awaited(kinds) => Awaited(kinds)'
  BY <1>1, StillAwaited
<1> HIDE DEF r
<1>4. /\ page'.confirm = page.confirm \/ page'.confirm = None
      /\ page'.editTarget = page.editTarget \/ page'.editTarget = None
      /\ page'.pressed = page.pressed
      /\ r.kind \in Deletions => page'.confirm = None
      /\ r.kind = "edit" => page'.editTarget = None
  <2>1. CASE TakeList(k, r)
    BY <1>1, <2>1 DEF TakeList, Settles, Parts, Deletions
  <2>2. CASE TakeDetail(k, r)
    BY <1>1, <2>2 DEF TakeDetail, Settles, Parts, Deletions
  <2>3. CASE ConnectionDeleted(k, r)
    BY <1>1, <2>3 DEF ConnectionDeleted, Settles, Parts, Deletions
  <2>4. CASE SessionDeleted(k, r)
    <3> DEFINE rows == {x \in page.detailSessions : x.id # r.id}
    <3>1. /\ r.kind = "deleteSession"
          /\ page' = [page EXCEPT !.detailSessions = rows, !.confirm = None]
      BY <2>4 DEF SessionDeleted, Settles
    <3> HIDE DEF rows
    <3> QED
      BY <1>1, <3>1 DEF Parts
  <2>5. CASE SessionCreated(k, r)
    <3> DEFINE rows == {r.answer} \cup {x \in page.detailSessions : x.id # r.answer.id}
    <3>1. r.kind = "new" /\ page' = [page EXCEPT !.detailSessions = rows]
      BY <2>5 DEF SessionCreated, Settles
    <3> HIDE DEF rows
    <3> QED
      BY <1>1, <3>1 DEF Parts, Deletions
  <2>6. CASE SessionEdited(k, r)
    <3> DEFINE rows == {IF x.id = r.id /\ r.typed # 0 THEN [x EXCEPT !.port = r.typed] ELSE x :
                            x \in page.detailSessions}
    <3>1. r.kind = "edit" /\ page' = [page EXCEPT !.detailSessions = rows, !.editTarget = None]
      BY <2>6 DEF SessionEdited, Settles
    <3> HIDE DEF rows
    <3> QED
      BY <1>1, <3>1 DEF Parts, Deletions
  <2>7. CASE Failed(k, r)
    <3> DEFINE exact == page.exact /\ r.kind = "list"
    <3>1. page' = [page EXCEPT !.exact = exact,
                      !.confirm = IF r.kind \in Deletions THEN None ELSE @,
                      !.editTarget = IF r.kind = "edit" THEN None ELSE @]
      BY <2>7 DEF Failed, Settles, Deletions
    <3> HIDE DEF exact
    <3> QED
      BY <1>1, <3>1 DEF Parts, Deletions
  <2> QED
    BY <1>2, <2>1, <2>2, <2>3, <2>4, <2>5, <2>6, <2>7
<1> QED
  BY <1>1, <1>3, <1>4, DialogKeeps DEF OnConnections, On

LEMMA DialogUnheard == ASSUME BaseInv, DialogInv, NEW k \in Slots, Unheard(k) PROVE DialogInv'
<1>1. /\ page' = page /\ ~requests[k].mounted
      /\ \A t \in Slots : t # k => requests'[t] = requests[t]
  BY DEF Unheard, Dropped, BaseInv, RequestsProper
<1>2. \A kinds : Awaited(kinds) => Awaited(kinds)'
  BY <1>1, StillAwaited
<1> QED
  BY <1>1, <1>2, DialogKeeps DEF OnConnections, On

LEMMA DialogFail == ASSUME BaseInv, DrawerInv, DialogInv, NEW k \in Slots, Fail(k) PROVE DialogInv'
BY DialogServed DEF Fail

LEMMA DialogInterfere == ASSUME BaseInv, DialogInv, Interfere PROVE DialogInv'
<1>1. /\ page' = IF OnConnections THEN [page EXCEPT !.exact = FALSE] ELSE page
      /\ requests' = requests
  BY DEF Interfere
<1>2. OnConnections' => /\ OnConnections /\ page'.editTarget = page.editTarget
                        /\ page'.confirm = page.confirm /\ page'.pressed = page.pressed
  BY <1>1 DEF OnConnections, On, BaseInv, Parts
<1> QED
  BY <1>1, <1>2, DialogKeeps DEF Awaited

LEMMA DialogElsewhere == ASSUME BaseInv, DialogInv, InterfereSettings PROVE DialogInv'
<1>1. /\ page' = IF OnSettings THEN [page EXCEPT !.fresh = FALSE] ELSE page
      /\ requests' = Outdated({"form", "save"})
  BY DEF InterfereSettings, WriteElsewhere
<1>2. BusySame
  BY <1>1, OutdatedApart DEF BusySame
<1>3. page' = page \/ ~OnConnections'
  BY <1>1 DEF OnConnections, OnSettings, On, BaseInv, Parts
<1> QED
  BY <1>2, <1>3, DialogApart

(* A page begins without a dialog.                                         *)
LEMMA DialogNone == ASSUME OnConnections' => page' = MountedConnections PROVE DialogInv'
BY DEF DialogInv, MountedConnections

LEMMA DialogNavigate == ASSUME DialogInv, NEW route, Navigate(route) PROVE DialogInv'
BY DialogNone DEF Navigate, Mount, OnConnections, On, MountedHome, MountSessions, MountedSessions,
   MountedSettings

LEMMA DialogReload == ASSUME DialogInv, Reload PROVE DialogInv'
BY DialogNone DEF Reload, MountSessions, MountedSessions, OnConnections, On

LEMMA DialogUser == ASSUME BaseInv, DrawerInv, DialogInv, User PROVE DialogInv'
<1>1. ASSUME HomeUser PROVE DialogInv'
  <2>1. ~OnConnections'
    BY <1>1, HomeUserFacts DEF BaseInv, Parts, OnConnections, On
  <2> QED
    BY <1>1, <2>1, HomeWithin, DialogOthers DEF Changing
<1>2. ASSUME SessionsUser PROVE DialogInv'
  <2>1. ~OnConnections'
    BY <1>2, BaseSessionsUser DEF OnConnections, On
  <2> QED
    BY <1>2, <2>1, PickerWithin, DialogOthers DEF Changing
<1>3. ASSUME SettingsUser PROVE DialogInv'
  <2>1. page' = page \/ ~OnConnections'
    BY <1>3, BaseSettingsUser DEF OnSettings, OnConnections, On
  <2> QED
    BY <1>3, <2>1, SettingsApart, DialogApart
<1> QED
  BY <1>1, <1>2, <1>3, DialogConnectionsUser DEF User

LEMMA DialogTimer == ASSUME BaseInv, DialogInv, Timer PROVE DialogInv'
<1>1. ASSUME HomeTimer PROVE DialogInv'
  BY <1>1, HomeWithin, DialogOthers DEF HomeTimer, Changing
<1>2. ASSUME ListTimer PROVE DialogInv'
  BY <1>2, ListWithin, DialogOthers DEF ListTimer, Changing
<1>3. ASSUME SessionsTimer PROVE DialogInv'
  BY <1>3, PickerWithin, DialogOthers DEF SessionsTimer, Changing
<1> QED
  BY <1>1, <1>2, <1>3 DEF Timer

LEMMA DialogServes ==
    ASSUME BaseInv, DrawerInv, DialogInv, NEW k \in Slots, Serve(k)
    PROVE  DialogInv'
<1>1. ASSUME ServeOverview(k) PROVE DialogInv'
  BY <1>1, HomeWithin, DialogOthers DEF ServeOverview, Changing
<1>2. ASSUME ServeLists(k), page' = page PROVE DialogInv'
  BY <1>2, PickerWithin, DialogOthers DEF Changing
<1>3. ASSUME ServeSettings(k) \/ RefuseSave(k) PROVE DialogInv'
  BY <1>3, SettingsApart, DialogApart DEF ServeSettings, RefuseSave
<1>4. ASSUME NEW f, WriteSetting(k, f) PROVE DialogInv'
  <2>1. page' = page \/ ~OnConnections'
    BY <1>4 DEF WriteSetting, OnSettings, OnConnections, On, BaseInv, Parts
  <2> QED
    BY <1>4, <2>1, WriteApart, DialogApart
<1> QED
  BY <1>1, <1>2, <1>3, <1>4, DialogServe DEF Serve

LEMMA DialogCallbacks ==
    ASSUME BaseInv, DialogInv, NEW k \in Slots, Callback(k)
    PROVE  DialogInv'
<1> DEFINE r == requests[k]
<1>1. page'.route = page.route /\ (r # None => Proper(r, page.route))
  BY BaseCallback DEF BaseInv, RequestsProper
<1>2. ASSUME TakeOverview(k) \/ OverviewFailed(k) PROVE DialogInv'
  <2>1. ~OnConnections'
    BY <1>1, <1>2 DEF TakeOverview, OverviewFailed, Answered, Refused, Proper, OnConnections, On
  <2> QED
    BY <1>2, <2>1, HomeWithin, DialogOthers DEF Changing
<1>3. ASSUME TakeFirst(k) \/ TakeLists(k) \/ ListsFailed(k) PROVE DialogInv'
  <2>1. ~OnConnections'
    BY <1>1, <1>3 DEF TakeFirst, TakeLists, ListsFailed, Answered, Refused, Proper, IsLists,
       OnConnections, On
  <2> QED
    BY <1>3, <2>1, PickerWithin, DialogOthers DEF Changing
<1>4. ASSUME TakeSettings(k) \/ TakeAppSettings(k) \/ Saved(k) \/ SettingsIgnored(k)
      PROVE  DialogInv'
  <2>1. page' = page \/ ~OnConnections'
    BY <1>1, <1>4 DEF TakeSettings, TakeAppSettings, Saved, SettingsIgnored, Answered, Proper,
       OnConnections, On
  <2> QED
    BY <1>4, <2>1, SettingsApart, DialogApart
<1> QED
  BY <1>2, <1>3, <1>4, DialogCallback, DialogUnheard DEF Callback

LEMMA DialogNext == BaseInv /\ DrawerInv /\ DialogInv /\ [Next]_vars => DialogInv'
<1> SUFFICES ASSUME BaseInv, DrawerInv, DialogInv, [Next]_vars PROVE DialogInv'
  OBVIOUS
<1>1. CASE UNCHANGED vars
  <2>1. BusySame
    BY <1>1 DEF vars, browser, BusySame
  <2> QED
    BY <1>1, <2>1, DialogApart DEF vars, browser
<1>2. CASE \E k \in Slots : Serve(k) \/ Callback(k) \/ Fail(k)
  BY <1>2, DialogServes, DialogCallbacks, DialogFail
<1>3. CASE \E route \in Routes : Navigate(route)
  BY <1>3, DialogNavigate
<1> QED
  BY <1>1, <1>2, <1>3, DialogUser, DialogTimer, DialogReload, DialogInterfere, DialogElsewhere
     DEF Next

LEMMA DialogInit == Init => DialogInv
<1> SUFFICES ASSUME Init, OnConnections PROVE page = MountedConnections
  BY DEF DialogInv, MountedConnections
<1> QED
  BY DEF Init, OnConnections, On, MountedHome, MountedSessions, MountedSettings

(* A dialog whose button was pressed is never left alone: whatever is      *)
(* answered late, fails, is cancelled, asked again or mounted anew, a      *)
(* request of the page is under way whose end closes it                    *)
(* (Connections.tsx:113-148,188-213).                                      *)
THEOREM DialogsAreAnswered == Spec => []DialogAwaits
<1>1. DialogInv => DialogAwaits
  BY DEF DialogInv, DialogAwaits, Awaited, UnderWay, Busy, Deletions
<1>2. BaseInv /\ DrawerInv /\ DialogInv /\ [Next]_vars => DialogInv'
  BY DialogNext
<1> QED
  BY <1>1, <1>2, BaseInvHolds, DrawerInvHolds, DialogInit, PTL DEF Spec

-----------------------------------------------------------------------------
(* Types: what the pages show, what is on its way to them, and what the    *)
(* store and the server hold.                                              *)

(* The requests whose answers the pages keep.                              *)
ReadOK(r) ==
    /\ r.kind = "list" /\ r.status = "ok" => r.answer \in SUBSET Connections
    /\ IsLists(r) =>
          /\ "connections" \in DOMAIN r
          /\ r.connections = None \/ r.connections \in SUBSET Connections
          /\ r.status = "ok" => r.connections # None
    /\ r.kind \in SettingsKinds =>
          /\ \A f \in DOMAIN r.body : r.body[f] \in Values[f]
          /\ r.kind \in {"form", "app"} /\ r.status = "ok" =>
                \A f \in Fields : r.answer[f] \in Values[f]

ReadsOK == \A k \in Slots : requests[k] # None => ReadOK(requests[k])

HomeFits(p) ==
    /\ {"range", "custom", "startInput", "endInput", "shown"} \subseteq DOMAIN p
    /\ p.range \in Ranges
    /\ p.custom = None \/ p.custom \in [start : Instants, end : Instants]
    /\ {p.startInput, p.endInput} \subseteq Instants \cup {None}

HomeOK == OnHome => HomeFits(page)

ListOK == OnConnections => page.connections \in SUBSET Connections

SomeOf(S) == S \cup {None}

PickerFits(p) ==
    /\ {"connections", "sessions", "selected"} \subseteq DOMAIN p
    /\ p.connections \in SUBSET Connections /\ p.sessions \in SUBSET Sessions
    /\ p.selected \in [connection : SomeOf(Connections), session : SomeOf(Sessions)]

PickerOK == OnSessions => PickerFits(page)

(* The columns are some of those there are, none of them twice.            *)
ColumnsFit(order) == order \in Seq(ToSet(Columns)) /\ IsInjective(order)
ColumnsOK == ColumnsFit(columns) /\ (OnSessions => page.order = columns)

FormOK == OnSettings => \A f \in FormFields : page.form[f] \in Values[f]

TypesInv ==
    /\ page.route \in Routes /\ known \in SUBSET Connections
    /\ ReadsOK /\ HomeOK /\ ListOK /\ PickerOK /\ ColumnsOK /\ FormOK /\ SettingsTypeOK

AllInv == BaseInv /\ PickerInv /\ SettingsInv /\ TypesInv

-----------------------------------------------------------------------------
(* The requests.                                                           *)

(* What every step may do to a request.                                    *)
LEMMA ReadsOne ==
    ASSUME AllInv, NEW k \in Slots, NEW r, requests' = [requests EXCEPT ![k] = r],
           r = None \/ ReadOK(r)
    PROVE  ReadsOK'
<1>1. requests'[k] = r /\ \A t \in Slots : t # k => requests'[t] = requests[t]
  BY DEF AllInv, BaseInv, RequestsProper
<1>2. ReadsOK
  BY DEF AllInv, TypesInv
<1> QED
  BY <1>1, <1>2 DEF ReadsOK

LEMMA ReadsSend ==
    ASSUME AllInv, NEW r, requests' \in {requests, Put(requests, r)}, ReadOK(r)
    PROVE  ReadsOK'
<1>1. \A k \in Slots : requests'[k] \in {requests[k], r}
  BY PutAnywhere DEF AllInv, BaseInv, RequestsProper
<1>2. ReadsOK
  BY DEF AllInv, TypesInv
<1> QED
  BY <1>1, <1>2 DEF ReadsOK

(* A request goes on: its mark, its status or what it has written changes. *)
LEMMA ReadMoved ==
    ASSUME AllInv, NEW k \in Slots, requests[k] # None, NEW f,
           NEW q \in {[requests[k] EXCEPT !.status = "failed"],
                      [requests[k] EXCEPT !.mounted = FALSE],
                      [requests[k] EXCEPT !.fresh = FALSE]}
    PROVE  ReadOK(q)
<1> DEFINE r == requests[k]
<1>1. Proper(r, page.route) /\ ReadOK(r)
  BY DEF AllInv, BaseInv, RequestsProper, TypesInv, ReadsOK
<1>2. r.kind \in SettingsKinds => r \in SettingsRequests
  BY DEF AllInv, SettingsInv, SettingsShape, SettingsParts, OfSettings
<1>3. q \in {[r EXCEPT !.status = "failed"], [r EXCEPT !.mounted = FALSE],
             [r EXCEPT !.fresh = FALSE]}
  OBVIOUS
<1> HIDE DEF r
<1>4. /\ q.kind = r.kind /\ q.answer = r.answer /\ q.status \in {r.status, "failed"}
      /\ DOMAIN q = DOMAIN r
  BY <1>1, <1>3 DEF Proper
<1>5. r.kind \in SettingsKinds => q.body = r.body
  BY <1>2, <1>3 DEF SettingsRequests
<1>6. IsLists(r) => q.connections = r.connections
  BY <1>1, <1>3 DEF ReadOK
<1> QED
  BY <1>1, <1>4, <1>5, <1>6 DEF ReadOK, IsLists

LEMMA ReadsRefused ==
    ASSUME AllInv, NEW k \in Slots, requests[k] # None, requests' = Refuses(k)
    PROVE  ReadsOK'
<1> DEFINE q == [requests[k] EXCEPT !.status = "failed"]
<1>1. ReadOK(q)
  BY ReadMoved
<1>2. requests' = [requests EXCEPT ![k] = q]
  BY DEF Refuses
<1> HIDE DEF q
<1> QED
  BY <1>1, <1>2, ReadsOne

(* Answers that are nothing to the page, or of its type.                   *)
LEMMA ReadsAnswered ==
    ASSUME AllInv, NEW k \in Slots, requests[k] # None, NEW a, requests' = Answers(k, a),
           \/ requests[k].kind \notin SettingsKinds \cup {"list", "first", "lists"}
           \/ requests[k].kind = "list" /\ a \in SUBSET Connections
    PROVE  ReadsOK'
<1> DEFINE r == requests[k]
           q == [r EXCEPT !.status = "ok", !.answer = a]
<1>1. Proper(r, page.route) /\ DOMAIN requests = Slots
  BY DEF AllInv, BaseInv, RequestsProper
<1>2. requests' = [requests EXCEPT ![k] = q]
  BY <1>1 DEF Answers
<1>3. \/ r.kind \notin SettingsKinds \cup {"list", "first", "lists"}
      \/ r.kind = "list" /\ a \in SUBSET Connections
  OBVIOUS
<1> HIDE DEF r
<1>4. q.kind = r.kind /\ q.answer = a
  BY <1>1 DEF Proper
<1>5. ReadOK(q)
  BY <1>3, <1>4 DEF ReadOK, IsLists, SettingsKinds
<1> HIDE DEF q
<1> QED
  BY <1>2, <1>5, ReadsOne

(* What is sent: only the settings carry something.                        *)
LEMMA NewReads ==
    /\ \A p : ReadOK(LoadRequest(p))
    /\ ReadOK(refresh)
    /\ \A kind \in {"first", "lists"} : ReadOK(ListsRequest(kind))
    /\ \A r : Sendable(r) => ReadOK(r)
<1>1. \A p : ReadOK(LoadRequest(p))
  BY DEF ReadOK, LoadRequest, IsLists, SettingsKinds
<1>2. ReadOK(refresh)
  BY DEF ReadOK, refresh, PageRequest, IsLists, SettingsKinds
<1>3. \A kind \in {"first", "lists"} : ReadOK(ListsRequest(kind))
  BY DEF ReadOK, ListsRequest, IsLists, SettingsKinds
<1>4. \A r : Sendable(r) => ReadOK(r)
  BY DEF ReadOK, Sendable, Changing, IsLists, SettingsKinds
<1> QED
  BY <1>1, <1>2, <1>3, <1>4

LEMMA NewSettings ==
    ASSUME NEW kind \in SettingsKinds, NEW body, \A f \in DOMAIN body : body[f] \in Values[f],
           NEW touched, NEW knows, NEW key
    PROVE  /\ ReadOK([SettingsRequest(kind, body) EXCEPT !.touched = touched, !.fresh = knows])
           /\ ReadOK([SettingsRequest(kind, body) EXCEPT !.key = key])
           /\ ReadOK(SettingsRequest(kind, body))
BY DEF ReadOK, SettingsRequest, IsLists, SettingsKinds

LEMMA NoBodyFits == \A f \in DOMAIN NoBody : NoBody[f] \in Values[f]
BY DEF NoBody

LEMMA FieldValues ==
    /\ Values["auth_key"] = Keys \cup {Blank} /\ Values["theme_color"] = Colors
    /\ Values["dark_mode"] = BOOLEAN
BY DEF Values

LEMMA ReadsUser == ASSUME AllInv, User PROVE ReadsOK'
<1>1. CASE HomeUser
  BY <1>1, HomeUserFacts, NewReads, ReadsSend DEF AllInv, BaseInv, Parts
<1>2. CASE ConnectionsUser
  <2>1. requests' = requests \/ \E r : Sendable(r) /\ requests' = Put(requests, r)
    BY <1>2, ConnectionsUserFacts DEF AllInv
  <2>2. CASE requests' = requests
    BY <2>2 DEF AllInv, TypesInv, ReadsOK
  <2>3. CASE \E r : Sendable(r) /\ requests' = Put(requests, r)
    BY <2>3, NewReads, ReadsSend
  <2> QED
    BY <2>1, <2>2, <2>3
<1>3. CASE SessionsUser
  <2>1. requests' = requests
    BY <1>3 DEF SessionsUser, ChooseConnection, ChooseSession, SetOrder, toggleColumn, moveColumn
  <2> QED
    BY <2>1 DEF AllInv, TypesInv, ReadsOK
<1>4. CASE SettingsUser
  <2>1. ASSUME NEW kind \in {"save", "dark"}, NEW body, NEW touched, NEW knows,
               \A f \in DOMAIN body : body[f] \in Values[f],
               SendSave([SettingsRequest(kind, body) EXCEPT !.touched = touched, !.fresh = knows])
        PROVE  ReadsOK'
    <3> DEFINE r == [SettingsRequest(kind, body) EXCEPT !.touched = touched, !.fresh = knows]
    <3>1. ReadOK(r)
      BY <2>1, NewSettings DEF SettingsKinds
    <3>2. requests' = Put(requests, r)
      BY <2>1 DEF SendSave
    <3> HIDE DEF r
    <3> QED
      BY <3>1, <3>2, ReadsSend
  <2>2. CASE ToggleDark
    <3>1. PICK v : v = ~store.darkMode
      BY Zenon
    <3>2. v \in Values["dark_mode"]
      BY <3>1, FieldValues, Zenon
    <3> DEFINE body == [dark_mode |-> v]
    <3>3. \A f \in DOMAIN body : body[f] \in Values[f]
      BY <3>2
    <3>4. SendSave([SettingsRequest("dark", body) EXCEPT !.touched = {"dark_mode"}, !.fresh = TRUE])
      BY <2>2, <3>1, Zenon DEF ToggleDark
    <3> HIDE DEF body
    <3> QED
      BY <2>1, <3>3, <3>4
  <2>3. CASE OnSettings /\ onSave
    <3>1. \A f \in DOMAIN Body : Body[f] \in Values[f]
      <4>1. \A f \in FormFields : page.form[f] \in Values[f]
        BY <2>3 DEF AllInv, TypesInv, FormOK
      <4>2. store.darkMode \in Values["dark_mode"]
        BY FieldValues DEF AllInv, TypesInv, SettingsTypeOK
      <4>3. /\ DOMAIN Body \subseteq FormFields \cup {"dark_mode"}
            /\ "dark_mode" \in DOMAIN Body => Body["dark_mode"] = store.darkMode
            /\ \A f \in DOMAIN Body : f # "dark_mode" => Body[f] = page.form[f]
        BY FieldNames DEF Body
      <4> QED
        BY <4>1, <4>2, <4>3
    <3> DEFINE touched == page.edited \cup {"dark_mode"}
               body == Body
    <3>2. SendSave([SettingsRequest("save", body) EXCEPT !.touched = touched, !.fresh = page.fresh])
      BY <2>3 DEF onSave
    <3>3. \A f \in DOMAIN body : body[f] \in Values[f]
      BY <3>1
    <3> HIDE DEF body, touched
    <3> QED
      BY <2>1, <3>2, <3>3
  <2>4. ASSUME NEW f, NEW v, EditForm(f, v) PROVE ReadsOK'
    BY <2>4 DEF EditForm, AllInv, TypesInv, ReadsOK
  <2> QED
    BY <1>4, <2>2, <2>3, <2>4 DEF SettingsUser
<1> QED
  BY <1>1, <1>2, <1>3, <1>4 DEF User

LEMMA ReadsTimer == ASSUME AllInv, Timer PROVE ReadsOK'
<1>1. \/ requests' = Put(requests, LoadRequest(page))
      \/ requests' = Put(requests, refresh)
      \/ requests' = Put(requests, ListsRequest("lists"))
  BY DEF Timer, HomeTimer, ListTimer, SessionsTimer
<1> QED
  BY <1>1, NewReads, ReadsSend

LEMMA ReadsServe == ASSUME AllInv, NEW k \in Slots, Serve(k) PROVE ReadsOK'
<1> DEFINE r == requests[k]
<1>1. r # None /\ Proper(r, page.route) /\ ReadOK(r) /\ DOMAIN requests = Slots
  BY BaseServe DEF AllInv, BaseInv, RequestsProper, TypesInv, ReadsOK
<1>2. ASSUME ServeOverview(k) PROVE ReadsOK'
  BY <1>1, <1>2, ReadsAnswered DEF ServeOverview, SettingsKinds
<1>3. ASSUME ServeConnections(k) PROVE ReadsOK'
  <2>1. \/ requests' = Refuses(k)
        \/ r.kind = "list" /\ requests' = Answers(k, known)
        \/ r.kind \in Changing /\ \E a : requests' = Answers(k, a)
    <3>1. CASE ServeReads(k, r)
      BY <3>1 DEF ServeReads, Changing
    <3>2. CASE ServeChanges(k, r)
      BY <3>2 DEF ServeChanges, Change, Changing
    <3> QED
      BY <1>3, <3>1, <3>2 DEF ServeConnections
  <2>2. known \in SUBSET Connections
    BY DEF AllInv, TypesInv
  <2>3. CASE requests' = Refuses(k)
    BY <1>1, <2>3, ReadsRefused
  <2>4. CASE r.kind = "list" /\ requests' = Answers(k, known)
    BY <1>1, <2>2, <2>4, ReadsAnswered
  <2>5. CASE r.kind \in Changing /\ \E a : requests' = Answers(k, a)
    BY <1>1, <2>5, ReadsAnswered DEF Changing, SettingsKinds
  <2> QED
    BY <2>1, <2>3, <2>4, <2>5
<1>4. ASSUME ServeLists(k) PROVE ReadsOK'
  <2>1. IsLists(r)
    BY <1>4, ServeListsFacts DEF AllInv
  <2>2. PICK served \in {[r EXCEPT !.connections = known], [r EXCEPT !.sessions = stored]} :
            requests' = [requests EXCEPT ![k] = [served EXCEPT !.status =
                    IF None \in {served.connections, served.sessions} THEN "sent" ELSE "ok"]]
    BY <1>4, ServeListsFacts DEF AllInv
  <2>3. known \in SUBSET Connections
    BY DEF AllInv, TypesInv
  <2> DEFINE s == IF None \in {served.connections, served.sessions} THEN "sent" ELSE "ok"
             q == [served EXCEPT !.status = s]
  <2> HIDE DEF r
  <2>4. /\ {"kind", "status", "connections"} \subseteq DOMAIN served /\ served.kind = r.kind
        /\ served.connections = None \/ served.connections \in SUBSET Connections
    BY <1>1, <2>1, <2>2, <2>3 DEF ReadOK, Proper
  <2>5. ReadOK(q)
    BY <2>1, <2>4 DEF ReadOK, IsLists, SettingsKinds
  <2> HIDE DEF q
  <2> QED
    BY <2>2, <2>5, ReadsOne DEF q
<1>5. ASSUME ServeSettings(k) PROVE ReadsOK'
  <2>1. CASE requests' = Refuses(k)
    BY <1>1, <2>1, ReadsRefused
  <2>2. CASE requests' = [Answers(k, settings) EXCEPT ![k].fresh = (Writing = {})]
    <3> DEFINE current == Writing = {}
               q == [r EXCEPT !.status = "ok", !.answer = settings, !.fresh = current]
    <3>1. requests' = [requests EXCEPT ![k] = q]
      BY <1>1, <2>2 DEF Answers
    <3>2. r.kind \in {"form", "app"} /\ r \in SettingsRequests
      BY <1>1, <1>5 DEF ServeSettings, AllInv, SettingsInv, SettingsShape, SettingsParts,
         OfSettings, SettingsKinds
    <3>3. \A f \in Fields : settings[f] \in Values[f]
      BY DEF AllInv, TypesInv, SettingsTypeOK
    <3> HIDE DEF r, current
    <3>4. q.kind = r.kind /\ q.answer = settings /\ q.body = r.body
      BY <3>2 DEF SettingsRequests
    <3>5. ReadOK(q)
      BY <1>1, <3>2, <3>3, <3>4 DEF ReadOK, IsLists, SettingsKinds
    <3> HIDE DEF q
    <3> QED
      BY <3>1, <3>5, ReadsOne
  <2> QED
    BY <1>5, <2>1, <2>2 DEF ServeSettings
<1>6. ASSUME RefuseSave(k) PROVE ReadsOK'
  BY <1>1, <1>6, ReadsRefused DEF RefuseSave
<1>7. ASSUME NEW f, WriteSetting(k, f) PROVE ReadsOK'
  <2>1. r.kind \in {"save", "dark"} /\ r \in SettingsRequests
    BY <1>1, <1>7 DEF WriteSetting, AllInv, SettingsInv, SettingsShape, SettingsParts, OfSettings,
       SettingsKinds
  <2>2. PICK kinds :
            LET written == [Outdated(kinds) EXCEPT ![k] = [r EXCEPT !.done = @ \cup {f}]]
            IN  requests' = IF written[k].done = DOMAIN r.body
                            THEN [written EXCEPT ![k].status = "ok"] ELSE written
    BY <1>7 DEF WriteSetting
  <2> DEFINE one == [r EXCEPT !.done = @ \cup {f}]
             done == [one EXCEPT !.status = "ok"]
  <2>3. /\ requests'[k] \in {one, done}
        /\ \A t \in Slots : t # k => requests'[t] = Outdated(kinds)[t]
    BY <2>2 DEF Outdated
  <2>4. ReadOK(one) /\ ReadOK(done)
    <3> HIDE DEF r
    <3>1. one.kind = r.kind /\ one.body = r.body /\ done.kind = r.kind /\ done.body = r.body
      BY <2>1 DEF SettingsRequests
    <3> HIDE DEF one, done
    <3> QED
      BY <1>1, <2>1, <3>1 DEF ReadOK, IsLists, SettingsKinds
  <2>5. \A t \in Slots : requests[t] = None \/ ReadOK(Outdated(kinds)[t])
    <3> SUFFICES ASSUME NEW t \in Slots, requests[t] # None PROVE ReadOK(Outdated(kinds)[t])
      OBVIOUS
    <3>1. Outdated(kinds)[t] \in {requests[t], [requests[t] EXCEPT !.fresh = FALSE]}
      BY OutdatedFacts DEF AllInv
    <3>2. ReadOK(requests[t])
      BY DEF AllInv, TypesInv, ReadsOK
    <3> QED
      BY <3>1, <3>2, ReadMoved
  <2>6. \A t \in Slots : requests[t] = None => Outdated(kinds)[t] = None
    BY DEF Outdated
  <2> HIDE DEF one, done
  <2> QED
    BY <2>3, <2>4, <2>5, <2>6 DEF ReadsOK
<1> QED
  BY <1>2, <1>3, <1>4, <1>5, <1>6, <1>7 DEF Serve

LEMMA ReadsCallback == ASSUME AllInv, NEW k \in Slots, Callback(k) PROVE ReadsOK'
<1> DEFINE app == [SettingsRequest("app", NoBody) EXCEPT !.key = NewKey(requests[k])]
<1>1. ReadOK(app) /\ ReadOK(refresh)
  BY NewSettings, NoBodyFits, NewReads DEF SettingsKinds
<1>2. CASE ConnectionsCallback(k)
  BY <1>1, <1>2, ConnectionsCallbackFacts, ReadsOne DEF AllInv
<1>3. CASE Saved(k)
  <2>1. \E next \in {None, app} : requests' = [requests EXCEPT ![k] = next]
    BY <1>3 DEF Saved, Dropped
  <2> HIDE DEF app
  <2> QED
    BY <1>1, <2>1, ReadsOne
<1>4. CASE ~ConnectionsCallback(k) /\ ~Saved(k)
  <2>1. requests' = [requests EXCEPT ![k] = None]
    BY <1>4 DEF Callback, TakeOverview, OverviewFailed, TakeFirst, TakeLists, ListsFailed,
       TakeSettings, TakeAppSettings, SettingsIgnored, Unheard, Dropped
  <2> QED
    BY <2>1, ReadsOne
<1> QED
  BY <1>2, <1>3, <1>4

LEMMA ReadsElsewhere == ASSUME AllInv, InterfereSettings PROVE ReadsOK'
<1>1. requests' = Outdated({"form", "save"})
  BY DEF InterfereSettings, WriteElsewhere
<1> SUFFICES ASSUME NEW t \in Slots, requests'[t] # None PROVE ReadOK(requests'[t])
  BY DEF ReadsOK
<1>2. requests[t] # None /\ requests'[t] \in {requests[t], [requests[t] EXCEPT !.fresh = FALSE]}
  BY <1>1, OutdatedFacts DEF AllInv
<1>3. ReadOK(requests[t])
  BY <1>2 DEF AllInv, TypesInv, ReadsOK
<1> QED
  BY <1>2, <1>3, ReadMoved

(* What is left of a page, and the requests of the next.                   *)
LEMMA ReadsLeft ==
    ASSUME AllInv, NEW heard, heard \subseteq {"save", "dark", "app"}, NEW k \in Slots
    PROVE  Abandoned(heard)[k] = None \/ ReadOK(Abandoned(heard)[k])
<1>1. \/ Abandoned(heard)[k] = None
      \/ /\ requests[k] # None
         /\ Abandoned(heard)[k] \in {requests[k], [requests[k] EXCEPT !.mounted = FALSE]}
  BY AbandonedFacts DEF AllInv
<1>2. requests[k] # None => ReadOK(requests[k])
  BY DEF AllInv, TypesInv, ReadsOK
<1> QED
  BY <1>1, <1>2, ReadMoved

LEMMA ReadsNavigate == ASSUME AllInv, NEW route, Navigate(route) PROVE ReadsOK'
<1> DEFINE left == Abandoned({"save", "dark", "app"})
<1>1. Mount(route, left) /\ DOMAIN left = Slots
  BY DEF Navigate, Abandoned
<1>2. \A k \in Slots : left[k] = None \/ ReadOK(left[k])
  BY ReadsLeft
<1> HIDE DEF left
<1>3. \E r : ReadOK(r) /\ requests' = Put(left, r)
  <2>1. ReadOK(SettingsRequest("form", NoBody))
    BY NewSettings, NoBodyFits DEF SettingsKinds
  <2> QED
    BY <1>1, <2>1, NewReads DEF Mount, MountSessions
<1>4. PICK r : ReadOK(r) /\ requests' = Put(left, r)
  BY <1>3
<1>5. \A k \in Slots : requests'[k] \in {left[k], r}
  BY <1>1, <1>4, PutAnywhere
<1> QED
  BY <1>2, <1>4, <1>5 DEF ReadsOK

LEMMA ReadsReload == ASSUME AllInv, Reload PROVE ReadsOK'
<1> DEFINE left == Abandoned({})
           app == SettingsRequest("app", NoBody)
           first == ListsRequest("first")
<1>1. requests' = Put(Put(left, app), first) /\ DOMAIN left = Slots
  BY DEF Reload, MountSessions, Abandoned
<1>2. \A k \in Slots : left[k] = None \/ ReadOK(left[k])
  <2>1. {} \subseteq {"save", "dark", "app"}
    OBVIOUS
  <2> QED
    BY <2>1, ReadsLeft, Zenon
<1>3. ReadOK(app) /\ ReadOK(first)
  BY NewSettings, NoBodyFits, NewReads DEF SettingsKinds
<1> HIDE DEF left, app, first
<1>4. \A k \in Slots : requests'[k] \in {left[k], app, first}
  BY <1>1, PutAnywhere
<1> QED
  BY <1>2, <1>3, <1>4 DEF ReadsOK

LEMMA ReadsNext == AllInv /\ [Next]_vars => ReadsOK'
<1> SUFFICES ASSUME AllInv, [Next]_vars PROVE ReadsOK'
  OBVIOUS
<1>1. CASE UNCHANGED vars \/ Interfere
  <2>1. requests' = requests
    BY <1>1 DEF vars, browser, Interfere
  <2> QED
    BY <2>1 DEF AllInv, TypesInv, ReadsOK
<1>2. CASE \E k \in Slots : Serve(k) \/ Callback(k)
  BY <1>2, ReadsServe, ReadsCallback
<1>3. CASE \E k \in Slots : Fail(k)
  BY <1>3, ReadsRefused DEF Fail
<1>4. CASE \E route \in Routes : Navigate(route)
  BY <1>4, ReadsNavigate
<1> QED
  BY <1>1, <1>2, <1>3, <1>4, ReadsUser, ReadsTimer, ReadsElsewhere, ReadsReload DEF Next

-----------------------------------------------------------------------------
(* The pages.                                                              *)

(* What a step does to the page: it belongs to the page that is mounted, or*)
(* mounts one.                                                             *)
LEMMA PageTurns ==
    ASSUME BaseInv, [Next]_vars
    PROVE  \/ page' = page /\ columns' = columns
           \/ /\ page.route = "home" /\ page'.route = "home" /\ columns' = columns
              /\ HomeUser \/ \E k \in Slots : TakeOverview(k)
           \/ /\ page.route = "connections" /\ page'.route = "connections" /\ columns' = columns
              /\ ConnectionsUser \/ Interfere \/ \E k \in Slots : ConnectionsCallback(k)
           \/ /\ page.route = "sessions" /\ page'.route = "sessions"
              /\ SessionsUser \/ \E k \in Slots : TakeFirst(k) \/ TakeLists(k)
           \/ /\ page.route = "settings" /\ page'.route = "settings" /\ columns' = columns
              /\ \/ page'.form = page.form
                 \/ \E f \in FormFields : \E v \in Values[f] : EditForm(f, v)
                 \/ \E k \in Slots : TakeSettings(k)
           \/ \E route \in Routes : \E used : Mount(route, used)
           \/ Reload
<1> DEFINE Same == page' = page /\ columns' = columns
           Home == /\ page.route = "home" /\ page'.route = "home" /\ columns' = columns
                   /\ HomeUser \/ \E k \in Slots : TakeOverview(k)
           List == /\ page.route = "connections" /\ page'.route = "connections"
                   /\ columns' = columns
                   /\ ConnectionsUser \/ Interfere \/ \E k \in Slots : ConnectionsCallback(k)
           Picker == /\ page.route = "sessions" /\ page'.route = "sessions"
                     /\ SessionsUser \/ \E k \in Slots : TakeFirst(k) \/ TakeLists(k)
           Form == /\ page.route = "settings" /\ page'.route = "settings" /\ columns' = columns
                   /\ \/ page'.form = page.form
                      \/ \E f \in FormFields : \E v \in Values[f] : EditForm(f, v)
                      \/ \E k \in Slots : TakeSettings(k)
<1>1. Parts(page) /\ "route" \in DOMAIN page
  BY DEF BaseInv, Parts
<1>2. \A k \in Slots : requests[k] # None => Proper(requests[k], page.route)
  BY DEF BaseInv, RequestsProper
<1>3. ASSUME UNCHANGED vars PROVE Same
  BY <1>3 DEF vars, browser
<1>4. ASSUME User PROVE Same \/ Home \/ List \/ Picker \/ Form
  <2>1. CASE HomeUser /\ HomeStep
    BY <1>1, <2>1, HomeUserFacts DEF HomeStep
  <2>2. CASE ConnectionsUser /\ HomeStep
    BY <2>2, ConnectionsUserFacts DEF HomeStep
  <2>3. CASE SessionsUser
    <3>1. page.route = "sessions"
      BY <2>3 DEF SessionsUser, OnSessions, On
    <3>2. page'.route = "sessions"
      BY <1>1, <2>3, <3>1 DEF SessionsUser, ChooseConnection, ChooseSession, Select, SetOrder,
         toggleColumn, moveColumn
    <3> QED
      BY <2>3, <3>1, <3>2
  <2>4. CASE SettingsUser /\ SettingsStep
    <3>1. ASSUME ToggleDark \/ (OnSettings /\ onSave) PROVE Same
      BY <2>4, <3>1 DEF ToggleDark, onSave, SettingsStep
    <3>2. ASSUME OnSettings /\ \E f \in FormFields : \E v \in Values[f] : EditForm(f, v)
          PROVE  Form
      <4>1. page.route = "settings"
        BY <3>2 DEF OnSettings, On
      <4>2. page'.route = page.route
        BY <1>1, <3>2 DEF EditForm
      <4> QED
        BY <2>4, <3>2, <4>1, <4>2 DEF SettingsStep
    <3> HIDE DEF Same, Home, List, Picker, Form
    <3> QED
      BY <2>4, <3>1, <3>2, Zenon DEF SettingsUser
  <2> HIDE DEF Same, Home, List, Picker, Form
  <2> QED
    BY <1>4, <2>1, <2>2, <2>3, <2>4 DEF User
<1>5. ASSUME Timer PROVE Same
  BY <1>5 DEF Timer, HomeTimer, ListTimer, SessionsTimer, HomeStep, PickerStep
<1>6. ASSUME NEW k \in Slots, Serve(k) PROVE Same \/ Form
  <2>1. ASSUME NEW f \in Fields, WriteSetting(k, f), SettingsStep PROVE Same \/ Form
    <3>1. CASE page' = page
      BY <2>1, <3>1 DEF SettingsStep
    <3>2. CASE page.route = "settings" /\ page' = [page EXCEPT !.fresh = FALSE]
      <4>1. page'.route = "settings" /\ page'.form = page.form
        BY <1>1, <3>2 DEF Parts
      <4> QED
        BY <2>1, <3>2, <4>1 DEF SettingsStep
    <3>3. page' = IF OnSettings /\ ~requests[k].fresh THEN [page EXCEPT !.fresh = FALSE] ELSE page
      BY <2>1, Zenon DEF WriteSetting
    <3> HIDE DEF Same, Form
    <3> QED
      BY <3>1, <3>2, <3>3 DEF OnSettings, On
  <2>2. ASSUME ~\E f \in Fields : WriteSetting(k, f) /\ SettingsStep PROVE Same
    BY <1>6, <2>2 DEF Serve, ServeOverview, ServeConnections, ServeLists, ServeSettings, RefuseSave,
       HomeStep, SettingsStep
  <2> QED
    BY <2>1, <2>2
<1>7. ASSUME NEW k \in Slots, Callback(k) PROVE Same \/ Home \/ List \/ Picker \/ Form
  <2>1. CASE TakeOverview(k) /\ HomeStep
    <3>1. page.route = "home"
      BY <1>2, <2>1 DEF TakeOverview, Answered, Proper
    <3>2. page'.route = "home"
      BY <1>1, <2>1, <3>1 DEF TakeOverview
    <3> QED
      BY <2>1, <3>1, <3>2 DEF HomeStep
  <2>2. CASE ConnectionsCallback(k) /\ HomeStep
    BY <2>2, ConnectionsCallbackFacts DEF HomeStep
  <2>3. CASE TakeFirst(k) \/ TakeLists(k)
    <3>1. page.route = "sessions"
      BY <1>2, <2>3 DEF TakeFirst, TakeLists, Answered, Proper, IsLists
    <3>2. page'.route = "sessions"
      BY <1>1, <2>3, <3>1 DEF TakeFirst, TakeLists
    <3> QED
      BY <2>3, <3>1, <3>2
  <2>4. CASE TakeSettings(k) /\ SettingsStep
    <3>1. page.route = "settings"
      BY <1>2, <2>4 DEF TakeSettings, Answered, Proper
    <3>2. page'.route = "settings"
      BY <1>1, <2>4, <3>1 DEF TakeSettings
    <3> QED
      BY <2>4, <3>1, <3>2 DEF SettingsStep
  <2>5. CASE \/ OverviewFailed(k) /\ HomeStep
             \/ ListsFailed(k) /\ PickerStep
             \/ (TakeAppSettings(k) \/ Saved(k) \/ SettingsIgnored(k)) /\ SettingsStep
             \/ Unheard(k)
    BY <2>5 DEF OverviewFailed, ListsFailed, TakeAppSettings, Saved, SettingsIgnored, Unheard,
       HomeStep, PickerStep, SettingsStep
  <2> QED
    BY <1>7, <2>1, <2>2, <2>3, <2>4, <2>5 DEF Callback
<1>8. ASSUME Interfere PROVE Same \/ List
  <2>1. page' = IF OnConnections THEN [page EXCEPT !.exact = FALSE] ELSE page
    BY <1>8 DEF Interfere
  <2>2. columns' = columns
    BY <1>8 DEF Interfere
  <2> QED
    BY <1>1, <1>8, <2>1, <2>2 DEF OnConnections, On
<1>9. ASSUME InterfereSettings PROVE Same \/ Form
  <2>1. page' = IF OnSettings THEN [page EXCEPT !.fresh = FALSE] ELSE page
    BY <1>9 DEF InterfereSettings, WriteElsewhere
  <2>2. columns' = columns
    BY <1>9 DEF InterfereSettings
  <2>3. CASE page.route = "settings"
    <3>1. page'.route = "settings" /\ page'.form = page.form
      BY <1>1, <2>1, <2>3 DEF Parts, OnSettings, On
    <3> QED
      BY <2>2, <2>3, <3>1
  <2>4. CASE page.route # "settings"
    BY <2>1, <2>2, <2>4 DEF OnSettings, On
  <2> QED
    BY <2>3, <2>4
<1>10. ASSUME NEW k \in Slots, Fail(k) PROVE Same
  BY <1>10 DEF Fail
<1>11. ASSUME NEW route \in Routes, Navigate(route) PROVE \E used : Mount(route, used)
  BY <1>11 DEF Navigate
<1> HIDE DEF Same, Home, List, Picker, Form
<1>12. \/ Same \/ Home \/ List \/ Picker \/ Form
       \/ \E route \in Routes : \E used : Mount(route, used)
       \/ Reload
  BY <1>3, <1>4, <1>5, <1>6, <1>7, <1>8, <1>9, <1>10, <1>11 DEF Next
<1> QED
  BY <1>12 DEF Same, Home, List, Picker, Form

(* The window of a selection.                                              *)
LEMMA EndsOfSelection ==
    ASSUME NEW x0 \in Instants, NEW x1 \in Instants
    PROVE  Min({x0, x1}) \in Instants /\ Max({x0, x1}) \in Instants
<1>1. x0 \in Nat /\ x1 \in Nat
  BY InstantsAssumption
<1>2. Min({x0, x1}) \in {x0, x1}
  BY <1>1, MinIn
<1>3. \E x \in {x0, x1} : \A y \in {x0, x1} : x >= y
  BY <1>1
<1>4. Max({x0, x1}) \in {x0, x1}
  BY <1>3 DEF Max
<1> QED
  BY <1>2, <1>4

(* The overview.                                                           *)
LEMMA HomeClickFits ==
    ASSUME NEW p, HomeClick(p), HomeFits(p)
    PROVE  HomeFits(page')
BY DEF HomeClick, HomeBecomes

LEMMA HomeUserFits == ASSUME HomeFits(page), HomeUser PROVE HomeFits(page')
<1>1. ASSUME NEW x0 \in Instants, NEW x1 \in Instants, handleBrush(x0, x1) PROVE HomeFits(page')
  <2> DEFINE start == Min({x0, x1})
             end == Max({x0, x1})
             p == [page EXCEPT !.custom = Window(start, end),
                               !.startInput = nsToDt(start), !.endInput = nsToDt(end)]
  <2>1. HomeClick(p)
    BY <1>1 DEF handleBrush
  <2>2. start \in Instants /\ end \in Instants
    BY EndsOfSelection
  <2> HIDE DEF start, end
  <2>3. nsToDt(start) \in Instants /\ nsToDt(end) \in Instants
    BY <2>2, InstantsAssumption
  <2>4. Window(start, end) \in [start : Instants, end : Instants]
    BY <2>2 DEF Window
  <2>5. HomeFits(p)
    BY <2>3, <2>4 DEF HomeFits
  <2> HIDE DEF p
  <2> QED
    BY <2>1, <2>5, HomeClickFits
<1>2. ASSUME NEW i \in Instants, SetStart(i) \/ SetEnd(i) PROVE HomeFits(page')
  <2> DEFINE p == [page EXCEPT !.startInput = i]
             q == [page EXCEPT !.endInput = i]
  <2>1. HomeClick(p) \/ HomeClick(q)
    BY <1>2 DEF SetStart, SetEnd
  <2>2. HomeFits(p) /\ HomeFits(q)
    BY DEF HomeFits
  <2> HIDE DEF p, q
  <2> QED
    BY <2>1, <2>2, HomeClickFits
<1>3. ASSUME NEW n \in Ranges, SetRange(n) PROVE HomeFits(page')
  <2> DEFINE p == [page EXCEPT !.custom = None, !.range = n]
  <2>1. HomeClick(p)
    BY <1>3 DEF SetRange
  <2>2. HomeFits(p)
    BY DEF HomeFits
  <2> HIDE DEF p
  <2> QED
    BY <2>1, <2>2, HomeClickFits
<1>4. ASSUME applyCustom PROVE HomeFits(page')
  <2> DEFINE w == Window(page.startInput, page.endInput)
             p == [page EXCEPT !.custom = w]
  <2>1. HomeClick(p) /\ page.startInput # None /\ page.endInput # None
    BY <1>4 DEF applyCustom
  <2>2. w \in [start : Instants, end : Instants]
    BY <2>1 DEF HomeFits, Window
  <2> HIDE DEF w
  <2>3. HomeFits(p)
    BY <2>2 DEF HomeFits
  <2> HIDE DEF p
  <2> QED
    BY <2>1, <2>3, HomeClickFits
<1>5. ASSUME clearCustom PROVE HomeFits(page')
  <2> DEFINE p == [page EXCEPT !.custom = None, !.startInput = None, !.endInput = None]
  <2>1. HomeClick(p)
    BY <1>5 DEF clearCustom
  <2>2. HomeFits(p)
    BY DEF HomeFits
  <2> HIDE DEF p
  <2> QED
    BY <2>1, <2>2, HomeClickFits
<1> QED
  BY <1>1, <1>2, <1>3, <1>4, <1>5 DEF HomeUser

LEMMA HomeMounted == HomeFits(MountedHome)
<1>1. Min(Ranges) \in Ranges
  BY MinIn, RangesAssumption
<1> QED
  BY <1>1 DEF HomeFits, MountedHome

(* The list of connections is that of an answer.                           *)
LEMMA ListUser == ASSUME BaseInv, ConnectionsUser PROVE page'.connections = page.connections
<1> DEFINE Kept(p) == "connections" \in DOMAIN p /\ p.connections = page.connections
<1>1. "connections" \in DOMAIN page
  BY DEF BaseInv, Parts, ConnectionsUser, OnConnections, On
<1>2. ASSUME NEW p, Kept(p), UserDoes(p) \/ \E r, e : UserSends(p, r, e) PROVE Kept(page')
  BY <1>2 DEF UserDoes, UserSends
<1>3. \E p : Kept(p) /\ (UserDoes(p) \/ \E r, e : UserSends(p, r, e))
  <2>1. CASE \/ \E c \in Connections : openDetail(c) \/ handleDeleteConnection(c)
             \/ \E row \in page.detailSessions : handleDeleteSession(row) \/ openEdit(row)
    BY <1>1, <2>1 DEF openDetail, handleDeleteConnection, handleDeleteSession, openEdit
  <2>2. CASE \E typed \in Ports \cup {0, WrongPort} : saveEdit(typed)
    BY <1>1, <2>2 DEF saveEdit
  <2>3. CASE CloseDetail \/ CancelConfirm \/ CancelEdit
    BY <1>1, <2>3 DEF CloseDetail, CancelConfirm, CancelEdit
  <2>4. CASE onConfirm \/ handleNewSession
    BY <1>1, <2>4 DEF onConfirm, handleNewSession
  <2> QED
    BY <2>1, <2>2, <2>3, <2>4 DEF ConnectionsUser
<1> HIDE DEF Kept
<1>4. Kept(page')
  BY <1>2, <1>3
<1> QED
  BY <1>4 DEF Kept

LEMMA ListCallback ==
    ASSUME BaseInv, NEW k \in Slots, ConnectionsCallback(k)
    PROVE  \/ page'.connections = page.connections
           \/ /\ requests[k] # None /\ requests[k].kind = "list" /\ requests[k].status = "ok"
              /\ page'.connections = requests[k].answer
<1> DEFINE r == requests[k]
<1>1. "connections" \in DOMAIN page
  BY ConnectionsCallbackFacts DEF BaseInv, Parts
<1>2. CASE Answered(k) /\ TakeList(k, r)
  BY <1>1, <1>2 DEF Answered, TakeList, Settles
<1>3. CASE \/ TakeDetail(k, r) \/ ConnectionDeleted(k, r) \/ SessionDeleted(k, r)
           \/ SessionCreated(k, r) \/ SessionEdited(k, r) \/ Failed(k, r)
  BY <1>1, <1>3 DEF TakeDetail, ConnectionDeleted, SessionDeleted, SessionCreated, SessionEdited,
     Failed, Settles
<1> QED
  BY <1>2, <1>3 DEF ConnectionsCallback

(* The selection on the page of the messages.                              *)
LEMMA SelectFits ==
    ASSUME PickerFits(page), NEW c \in SomeOf(Connections), NEW s \in SomeOf(Sessions),
           Select([connection |-> c, session |-> s])
    PROVE  PickerFits(page')
<1> DEFINE selection == [connection |-> c, session |-> s]
<1>1. page' = [page EXCEPT !.selected = selection, !.before = Nothing, !.guessed = FALSE]
  BY DEF Select
<1>2. selection \in [connection : SomeOf(Connections), session : SomeOf(Sessions)]
  OBVIOUS
<1> HIDE DEF selection
<1> QED
  BY <1>1, <1>2 DEF PickerFits

LEMMA PickerUserFits == ASSUME PickerFits(page), BaseInv, SessionsUser PROVE PickerFits(page')
<1>1. ASSUME NEW c \in page.connections \cup {None}, ChooseConnection(c) PROVE PickerFits(page')
  <2>1. PICK s \in page.sessions \cup {None} : Select([connection |-> c, session |-> s])
    BY <1>1 DEF ChooseConnection
  <2> QED
    BY <2>1, SelectFits DEF PickerFits, SomeOf
<1>2. ASSUME NEW s \in Offered \cup {None}, ChooseSession(s) PROVE PickerFits(page')
  <2>1. Select([page.selected EXCEPT !.session = s])
    BY <1>2 DEF ChooseSession
  <2>2. page.selected.connection \in SomeOf(Connections) /\ s \in SomeOf(Sessions)
    BY DEF PickerFits, Offered, SomeOf
  <2>3. [page.selected EXCEPT !.session = s]
            = [connection |-> page.selected.connection, session |-> s]
    BY DEF PickerFits
  <2> QED
    BY <2>1, <2>2, <2>3, SelectFits
<1>3. ASSUME NEW order, SetOrder(order) PROVE PickerFits(page')
  BY <1>3 DEF SetOrder, PickerFits
<1>4. \/ \E c \in page.connections \cup {None} : ChooseConnection(c)
      \/ \E s \in Offered \cup {None} : ChooseSession(s)
      \/ \E order : SetOrder(order)
  BY DEF SessionsUser, toggleColumn, moveColumn
<1> QED
  BY <1>1, <1>2, <1>3, <1>4

LEMMA InitialFits ==
    ASSUME NEW sessions \in SUBSET Sessions, NEW selection \in InitialSelections(sessions)
    PROVE  selection \in [connection : SomeOf(Connections), session : SomeOf(Sessions)]
<1>1. ConnectionsWithSessions(sessions) \subseteq Connections
  BY ConnectionOfAssumption DEF ConnectionsWithSessions
<1>2. PICK s \in sessions :
          selection = [connection |-> IF page.entry.connection \in ConnectionsWithSessions(sessions)
                                      THEN page.entry.connection ELSE ConnectionOf[s],
                       session |-> s]
  BY DEF InitialSelections
<1> QED
  BY <1>1, <1>2, ConnectionOfAssumption DEF SomeOf

LEMMA PickerTakesFits ==
    ASSUME AllInv, PickerFits(page), NEW k \in Slots, TakeFirst(k) \/ TakeLists(k)
    PROVE  PickerFits(page')
<1> DEFINE r == requests[k]
           lists == [page EXCEPT !.connections = r.connections, !.sessions = r.sessions]
<1>1. /\ r # None /\ r.status = "ok" /\ IsLists(r)
      /\ \/ page' = lists
         \/ \E selection \in InitialSelections(r.sessions) : \E guessed :
                page' = [lists EXCEPT !.selected = selection, !.guessed = guessed]
  BY DEF TakeFirst, TakeLists, Answered, IsLists
<1>2. r.connections \in SUBSET Connections /\ r.sessions \in SUBSET Sessions
  BY <1>1 DEF AllInv, TypesInv, ReadsOK, ReadOK, PickerInv, ListsRequestsOK, ListsOK
<1> HIDE DEF r
<1>3. PickerFits(lists)
  BY <1>2 DEF PickerFits
<1>4. \A selection \in InitialSelections(r.sessions) :
          selection \in [connection : SomeOf(Connections), session : SomeOf(Sessions)]
  BY <1>2, InitialFits
<1> HIDE DEF lists
<1>5. ASSUME NEW selection \in InitialSelections(r.sessions), NEW guessed,
             page' = [lists EXCEPT !.selected = selection, !.guessed = guessed]
      PROVE  PickerFits(page')
  <2>1. selection \in [connection : SomeOf(Connections), session : SomeOf(Sessions)]
    BY <1>4
  <2> QED
    BY <1>3, <1>5, <2>1 DEF PickerFits
<1> QED
  BY <1>1, <1>3, <1>5

LEMMA PickerMountedFits == \A entry, before : PickerFits(MountedSessions(entry, before))
BY DEF PickerFits, MountedSessions, Nothing, SomeOf

-----------------------------------------------------------------------------
(* The columns.                                                            *)

LEMMA ColumnTakenOut ==
    ASSUME NEW order, ColumnsFit(order), NEW i \in DOMAIN order
    PROVE  ColumnsFit(RemoveAt(order, i))
<1> DEFINE n == Len(order)
           left == RemoveAt(order, i)
           before == SubSeq(order, 1, i - 1)
           behind == SubSeq(order, i + 1, n)
<1>1. order \in Seq(ToSet(Columns)) /\ n \in Nat /\ DOMAIN order = 1 .. n /\ i \in 1 .. n
  BY DEF ColumnsFit
<1>2. left = before \o behind
  BY DEF RemoveAt
<1>3. /\ before \in Seq(ToSet(Columns)) /\ Len(before) = i - 1
      /\ \A j \in 1 .. i - 1 : before[j] = order[j]
  BY <1>1
<1>4. /\ behind \in Seq(ToSet(Columns)) /\ Len(behind) = n - i
      /\ \A j \in 1 .. n - i : behind[j] = order[j + i]
  BY <1>1
<1> HIDE DEF n, before, behind
<1>5. /\ left \in Seq(ToSet(Columns)) /\ Len(left) = n - 1
      /\ \A j \in 1 .. n - 1 : left[j] = IF j <= i - 1 THEN before[j] ELSE behind[j - (i - 1)]
  <2>1. /\ Len(before) + Len(behind) = n - 1 /\ before \o behind \in Seq(ToSet(Columns))
        /\ Len(before \o behind) = Len(before) + Len(behind)
        /\ \A j \in 1 .. Len(before) + Len(behind) :
              (before \o behind)[j] =
                  IF j <= Len(before) THEN before[j] ELSE behind[j - Len(before)]
    <3>1. before \in Seq(ToSet(Columns)) /\ behind \in Seq(ToSet(Columns))
      BY <1>3, <1>4
    <3>2. Len(before) + Len(behind) = n - 1
      BY <1>1, <1>3, <1>4
    <3> QED
      BY <3>1, <3>2, ConcatProperties, Zenon
  <2> QED
    BY <1>2, <1>3, <2>1, Zenon
<1> HIDE DEF left
<1>6. \A j \in 1 .. n - 1 : left[j] = IF j < i THEN order[j] ELSE order[j + 1]
  <2> SUFFICES ASSUME NEW j \in 1 .. n - 1 PROVE left[j] = IF j < i THEN order[j] ELSE order[j + 1]
    OBVIOUS
  <2>1. CASE j < i
    <3>1. j <= i - 1 /\ j \in 1 .. i - 1
      BY <1>1, <2>1
    <3>2. left[j] = before[j]
      BY <1>5, <3>1
    <3>3. before[j] = order[j]
      BY <1>3, <3>1
    <3> QED
      BY <2>1, <3>2, <3>3
  <2>2. CASE ~(j < i)
    <3>1. j - (i - 1) \in 1 .. n - i /\ (j - (i - 1)) + i = j + 1 /\ ~(j <= i - 1)
      BY <1>1, <2>2
    <3>2. left[j] = behind[j - (i - 1)]
      BY <1>5, <3>1
    <3>3. behind[j - (i - 1)] = order[(j - (i - 1)) + i]
      BY <1>4, <3>1
    <3> QED
      BY <2>2, <3>1, <3>2, <3>3
  <2> QED
    BY <2>1, <2>2
<1>7. IsInjective(left)
  <2> SUFFICES ASSUME NEW a \in DOMAIN left, NEW b \in DOMAIN left, left[a] = left[b]
               PROVE  a = b
    BY DEF IsInjective
  <2> DEFINE at(j) == IF j < i THEN j ELSE j + 1
  <2>1. a \in 1 .. n - 1 /\ b \in 1 .. n - 1
    BY <1>1, <1>5
  <2>2. at(a) \in DOMAIN order /\ at(b) \in DOMAIN order /\ order[at(a)] = order[at(b)]
    BY <1>1, <1>6, <2>1
  <2>3. at(a) = at(b)
    BY <2>2 DEF ColumnsFit, IsInjective
  <2> QED
    BY <1>1, <2>1, <2>3
<1> QED
  BY <1>5, <1>7 DEF ColumnsFit, left

LEMMA ColumnAdded ==
    ASSUME NEW order, ColumnsFit(order), NEW key \in ToSet(Columns), key \notin ToSet(order)
    PROVE  ColumnsFit(Append(order, key))
<1>1. order \in Seq(ToSet(Columns)) /\ DOMAIN order = 1 .. Len(order) /\ Len(order) \in Nat
  BY DEF ColumnsFit
<1>2. \A j \in DOMAIN order : order[j] # key
  BY <1>1 DEF ToSet
<1> DEFINE longer == Append(order, key)
<1>3. /\ longer \in Seq(ToSet(Columns)) /\ DOMAIN longer = 1 .. Len(order) + 1
      /\ longer[Len(order) + 1] = key
      /\ \A j \in 1 .. Len(order) : longer[j] = order[j]
  BY <1>1
<1> HIDE DEF longer
<1>4. IsInjective(longer)
  <2> SUFFICES ASSUME NEW a \in DOMAIN longer, NEW b \in DOMAIN longer, longer[a] = longer[b]
               PROVE  a = b
    BY DEF IsInjective
  <2>1. CASE a \in DOMAIN order /\ b \in DOMAIN order
    BY <1>1, <1>3, <2>1 DEF ColumnsFit, IsInjective
  <2>2. CASE a \notin DOMAIN order \/ b \notin DOMAIN order
    BY <1>1, <1>2, <1>3, <2>2
  <2> QED
    BY <2>1, <2>2
<1> QED
  BY <1>3, <1>4 DEF ColumnsFit, longer

LEMMA ColumnsExchanged ==
    ASSUME NEW order, ColumnsFit(order), NEW i \in DOMAIN order, NEW j \in DOMAIN order
    PROVE  ColumnsFit([order EXCEPT ![i] = order[j], ![j] = order[i]])
<1>1. order \in Seq(ToSet(Columns))
  BY DEF ColumnsFit
<1> DEFINE moved == [order EXCEPT ![i] = order[j], ![j] = order[i]]
<1>2. /\ DOMAIN moved = DOMAIN order
      /\ moved[j] = order[i] /\ (i # j => moved[i] = order[j])
      /\ \A m \in DOMAIN order : m \notin {i, j} => moved[m] = order[m]
  BY <1>1
<1>3. moved \in Seq(ToSet(Columns))
  BY <1>1
<1> HIDE DEF moved
<1>4. IsInjective(moved)
  BY <1>2 DEF ColumnsFit, IsInjective
<1> QED
  BY <1>3, <1>4 DEF ColumnsFit, moved

LEMMA ColumnsUser ==
    ASSUME PickerFits(page), "order" \in DOMAIN page, ColumnsFit(columns),
           page.order = columns, SessionsUser
    PROVE  ColumnsFit(columns') /\ page'.order = columns'
<1>1. ASSUME NEW order, SetOrder(order), ColumnsFit(order)
      PROVE  ColumnsFit(columns') /\ page'.order = columns'
  BY <1>1 DEF SetOrder
<1>2. ASSUME NEW key \in ToSet(Columns), toggleColumn(key)
      PROVE  ColumnsFit(columns') /\ page'.order = columns'
  <2>1. CASE \E i \in DOMAIN page.order :
                 page.order[i] = key /\ SetOrder(RemoveAt(page.order, i))
    BY <1>1, <2>1, ColumnTakenOut
  <2>2. CASE key \notin ToSet(page.order) /\ SetOrder(Append(page.order, key))
    BY <1>1, <2>2, ColumnAdded
  <2> QED
    BY <1>2, <2>1, <2>2 DEF toggleColumn
<1>3. ASSUME NEW i, NEW j, moveColumn(i, j) PROVE ColumnsFit(columns') /\ page'.order = columns'
  <2>1. i \in DOMAIN page.order /\ j \in DOMAIN page.order
        /\ SetOrder([page.order EXCEPT ![i] = page.order[j], ![j] = page.order[i]])
    BY <1>3 DEF moveColumn
  <2> QED
    BY <1>1, <2>1, ColumnsExchanged
<1>4. ASSUME \/ \E c \in page.connections \cup {None} : ChooseConnection(c)
             \/ \E s \in Offered \cup {None} : ChooseSession(s)
      PROVE  ColumnsFit(columns') /\ page'.order = columns'
  <2>1. columns' = columns /\ page'.order = page.order
    BY <1>4 DEF ChooseConnection, ChooseSession, Select
  <2> QED
    BY <2>1
<1> QED
  BY <1>2, <1>3, <1>4 DEF SessionsUser

LEMMA ColumnsLoaded == ASSUME ColumnsFit(columns) PROVE ColumnsFit(loadOrder)
BY ColumnsAssumption DEF ColumnsFit, loadOrder

-----------------------------------------------------------------------------
(* The steps.                                                              *)

LEMMA MountRoutes ==
    ASSUME NEW route \in Routes, NEW used, Mount(route, used)
    PROVE  /\ page'.route \in Routes
           /\ page'.route = "home" => page' = MountedHome
           /\ page'.route = "connections" => page' = MountedConnections
           /\ page'.route = "sessions" => /\ page' = MountedSessions(Nothing, Nothing)
                                          /\ columns' = loadOrder
           /\ page'.route # "sessions" => columns' = columns
           /\ page'.route = "settings" => page' = MountedSettings
BY DEF Mount, MountSessions, MountedHome, MountedConnections, MountedSessions, MountedSettings,
   Routes

LEMMA ReloadRoute ==
    ASSUME Reload
    PROVE  page'.route = "sessions" /\ columns' = loadOrder
           /\ page' = MountedSessions(address, page.selected)
BY DEF Reload, MountSessions, MountedSessions

LEMMA HomeNext == AllInv /\ [Next]_vars => HomeOK'
<1> SUFFICES ASSUME AllInv, [Next]_vars, page'.route = "home" PROVE HomeFits(page')
  BY DEF HomeOK, OnHome, On
<1>1. page.route = "home" => HomeFits(page)
  BY DEF AllInv, TypesInv, HomeOK, OnHome, On
<1>2. CASE page' = page
  BY <1>1, <1>2
<1>3. CASE page.route = "home" /\ HomeUser
  BY <1>1, <1>3, HomeUserFits
<1>4. ASSUME page.route = "home", NEW k \in Slots, TakeOverview(k) PROVE HomeFits(page')
  BY <1>1, <1>4 DEF TakeOverview, HomeFits
<1>5. ASSUME NEW route \in Routes, NEW used, Mount(route, used) PROVE HomeFits(page')
  BY <1>5, MountRoutes, HomeMounted
<1>6. ~Reload
  BY ReloadRoute
<1> QED
  BY <1>2, <1>3, <1>4, <1>5, <1>6, PageTurns DEF AllInv

LEMMA ListNext == AllInv /\ [Next]_vars => ListOK'
<1> SUFFICES ASSUME AllInv, [Next]_vars, page'.route = "connections"
             PROVE  page'.connections \in SUBSET Connections
  BY DEF ListOK, OnConnections, On
<1>1. page.route = "connections" =>
          page.connections \in SUBSET Connections /\ "connections" \in DOMAIN page
  BY DEF AllInv, TypesInv, ListOK, OnConnections, On, BaseInv, Parts
<1>2. CASE page' = page
  BY <1>1, <1>2
<1>3. CASE page.route = "connections" /\ ConnectionsUser
  BY <1>1, <1>3, ListUser DEF AllInv
<1>4. CASE page.route = "connections" /\ Interfere
  <2>1. page'.connections = page.connections
    BY <1>1, <1>4 DEF Interfere
  <2> QED
    BY <1>1, <1>4, <2>1
<1>5. ASSUME page.route = "connections", NEW k \in Slots, ConnectionsCallback(k)
      PROVE  page'.connections \in SUBSET Connections
  <2>1. requests[k] # None => ReadOK(requests[k])
    BY DEF AllInv, TypesInv, ReadsOK
  <2> QED
    BY <1>1, <1>5, <2>1, ListCallback DEF AllInv, ReadOK
<1>6. ASSUME NEW route \in Routes, NEW used, Mount(route, used)
      PROVE  page'.connections \in SUBSET Connections
  BY <1>6, MountRoutes DEF MountedConnections
<1>7. ~Reload
  BY ReloadRoute
<1> QED
  BY <1>2, <1>3, <1>4, <1>5, <1>6, <1>7, PageTurns DEF AllInv

LEMMA PickerFitsNext == AllInv /\ [Next]_vars => PickerOK'
<1> SUFFICES ASSUME AllInv, [Next]_vars, page'.route = "sessions" PROVE PickerFits(page')
  BY DEF PickerOK, OnSessions, On
<1>1. page.route = "sessions" => PickerFits(page)
  BY DEF AllInv, TypesInv, PickerOK, OnSessions, On
<1>2. CASE page' = page
  BY <1>1, <1>2
<1>3. CASE page.route = "sessions" /\ SessionsUser
  BY <1>1, <1>3, PickerUserFits DEF AllInv
<1>4. ASSUME page.route = "sessions", NEW k \in Slots, TakeFirst(k) \/ TakeLists(k)
      PROVE  PickerFits(page')
  BY <1>1, <1>4, PickerTakesFits
<1>5. ASSUME NEW route \in Routes, NEW used, Mount(route, used) PROVE PickerFits(page')
  BY <1>5, MountRoutes, PickerMountedFits
<1>6. CASE Reload
  BY <1>6, ReloadRoute, PickerMountedFits
<1> QED
  BY <1>2, <1>3, <1>4, <1>5, <1>6, PageTurns DEF AllInv

LEMMA ColumnsNext == AllInv /\ [Next]_vars => ColumnsOK'
<1> SUFFICES ASSUME AllInv, [Next]_vars
             PROVE  ColumnsFit(columns') /\ (page'.route = "sessions" => page'.order = columns')
  BY DEF ColumnsOK, ColumnsFit, OnSessions, On
<1> DEFINE Goal == ColumnsFit(columns') /\ (page'.route = "sessions" => page'.order = columns')
<1>1. /\ ColumnsFit(columns)
      /\ page.route = "sessions" => /\ page.order = columns /\ PickerFits(page)
                                    /\ "order" \in DOMAIN page
  BY DEF AllInv, TypesInv, ColumnsOK, PickerOK, OnSessions, On, BaseInv, Parts
<1>2. CASE page' = page /\ columns' = columns
  BY <1>1, <1>2
<1>3. CASE page'.route # "sessions" /\ columns' = columns
  BY <1>1, <1>3
<1>4. CASE page.route = "sessions" /\ SessionsUser
  BY <1>1, <1>4, ColumnsUser
<1>5. ASSUME page.route = "sessions", NEW k \in Slots, TakeFirst(k) \/ TakeLists(k) PROVE Goal
  <2>1. columns' = columns /\ page'.order = page.order
    BY <1>1, <1>5 DEF TakeFirst, TakeLists
  <2> QED
    BY <1>1, <1>5, <2>1
<1>6. ASSUME NEW route \in Routes, NEW used, Mount(route, used) PROVE Goal
  BY <1>1, <1>6, MountRoutes, ColumnsLoaded DEF MountedSessions
<1>7. CASE Reload
  BY <1>1, <1>7, ReloadRoute, ColumnsLoaded DEF MountedSessions
<1> HIDE DEF Goal
<1>8. \/ page' = page /\ columns' = columns
      \/ page'.route # "sessions" /\ columns' = columns
      \/ page.route = "sessions" /\ (SessionsUser \/ \E k \in Slots : TakeFirst(k) \/ TakeLists(k))
      \/ \E route \in Routes : \E used : Mount(route, used)
      \/ Reload
  BY PageTurns DEF AllInv
<1> QED
  BY <1>2, <1>3, <1>4, <1>5, <1>6, <1>7, <1>8 DEF Goal

(* The form.                                                               *)
LEMMA FormNext == AllInv /\ [Next]_vars => FormOK'
<1> SUFFICES ASSUME AllInv, [Next]_vars, page'.route = "settings"
             PROVE  \A f \in FormFields : page'.form[f] \in Values[f]
  BY DEF FormOK, OnSettings, On
<1> DEFINE Goal == \A f \in FormFields : page'.form[f] \in Values[f]
<1>1. page.route = "settings" =>
          /\ \A f \in FormFields : page.form[f] \in Values[f]
          /\ "form" \in DOMAIN page /\ DOMAIN page.form = FormFields
  BY DEF AllInv, TypesInv, FormOK, OnSettings, On, BaseInv, Parts, SettingsInv, SettingsShape,
     FormShape
<1>2. CASE page' = page
  BY <1>1, <1>2
<1>3. CASE page.route = "settings" /\ page'.form = page.form
  BY <1>1, <1>3
<1>4. ASSUME page.route = "settings", NEW f \in FormFields, NEW v \in Values[f], EditForm(f, v)
      PROVE  Goal
  <2>1. page' = [page EXCEPT !.form[f] = v, !.edited = @ \cup {f}]
    BY <1>4 DEF EditForm
  <2>2. page'.form = [page.form EXCEPT ![f] = v]
    BY <1>1, <1>4, <2>1
  <2> QED
    BY <1>1, <1>4, <2>2
<1>5. ASSUME page.route = "settings", NEW k \in Slots, TakeSettings(k) PROVE Goal
  <2>1. /\ requests[k] # None /\ requests[k].kind = "form" /\ requests[k].status = "ok"
        /\ page'.form = FormOf(requests[k].answer)
    BY <1>1, <1>5 DEF TakeSettings, Answered
  <2>2. \A f \in Fields : requests[k].answer[f] \in Values[f]
    BY <2>1 DEF AllInv, TypesInv, ReadsOK, ReadOK, SettingsKinds
  <2> QED
    BY <2>1, <2>2, FieldNames DEF FormOf
<1>6. ASSUME NEW route \in Routes, NEW used, Mount(route, used) PROVE Goal
  <2>1. page' = MountedSettings
    BY <1>6, MountRoutes
  <2>2. Defaults["theme_color"] \in Values["theme_color"]
    BY DefaultsAssumption, FieldNames DEF Fields
  <2> QED
    BY <2>1, <2>2, FieldNames, FieldValues DEF MountedSettings
<1>7. ~Reload
  BY ReloadRoute
<1> HIDE DEF Goal
<1>8. \/ page' = page
      \/ /\ page.route = "settings"
         /\ \/ page'.form = page.form
            \/ \E f \in FormFields : \E v \in Values[f] : EditForm(f, v)
            \/ \E k \in Slots : TakeSettings(k)
      \/ \E route \in Routes : \E used : Mount(route, used)
  BY <1>7, PageTurns DEF AllInv
<1> QED
  BY <1>2, <1>3, <1>4, <1>5, <1>6, <1>8 DEF Goal

LEMMA RouteNext == AllInv /\ [Next]_vars => page'.route \in Routes
<1> SUFFICES ASSUME AllInv, [Next]_vars PROVE page'.route \in Routes
  OBVIOUS
<1>1. page.route \in Routes /\ {"home", "connections", "sessions", "settings"} \subseteq Routes
  BY DEF AllInv, TypesInv, Routes
<1> QED
  BY <1>1, PageTurns, MountRoutes, ReloadRoute DEF AllInv

(* A session that is created belongs to one of the connections.            *)
LEMMA KnownNext == AllInv /\ [Next]_vars => known' \in SUBSET Connections
<1> SUFFICES ASSUME AllInv, [Next]_vars PROVE known' \in SUBSET Connections
  OBVIOUS
<1>1. known \in SUBSET Connections /\ fresh \subseteq Sessions
  BY DEF AllInv, TypesInv, PickerInv, SessionsKnown
<1>2. ASSUME NEW s, Create(s) PROVE known' \in SUBSET Connections
  <2>1. s \in Sessions
    BY <1>1, <1>2 DEF Create
  <2>2. ConnectionOf[s] \in Connections
    BY <2>1, ConnectionOfAssumption
  <2> QED
    BY <1>1, <1>2, <2>2 DEF Create
<1>3. \/ known' = known
      \/ \E c : DeleteConnection(c)
      \/ \E s : Create(s)
  <2>1. ASSUME NEW k \in Slots, ServeConnections(k)
        PROVE  known' = known \/ (\E c : DeleteConnection(c)) \/ (\E s : Create(s))
    <3>1. CASE ServeReads(k, requests[k])
      BY <3>1 DEF ServeReads, server
    <3>2. CASE ServeChanges(k, requests[k])
      BY <3>2 DEF ServeChanges, Change, server, DeleteSession, UpdateSession
    <3> QED
      BY <2>1, <3>1, <3>2 DEF ServeConnections
  <2>2. ASSUME NEW k \in Slots, Serve(k), ~ServeConnections(k) PROVE UNCHANGED server
    BY <2>2 DEF Serve, HomeStep, PickerStep, SettingsStep
  <2>3. ASSUME NEW k \in Slots, Callback(k) PROVE UNCHANGED server
    BY <2>3 DEF Callback, HomeStep, PickerStep, SettingsStep, Unheard
  <2>4. ASSUME Interfere PROVE known' = known \/ (\E s : Create(s))
    BY <2>4 DEF Interfere, SessionElsewhere, DeleteSession
  <2>5. ASSUME User \/ Timer PROVE UNCHANGED server
    BY <2>5 DEF User, Timer, HomeStep, PickerStep, SettingsStep
  <2>6. ASSUME UNCHANGED vars PROVE UNCHANGED server
    BY <2>6 DEF vars
  <2>7. ASSUME Reload \/ InterfereSettings PROVE UNCHANGED server
    BY <2>7 DEF Reload, InterfereSettings
  <2>8. ASSUME NEW route, Navigate(route) PROVE UNCHANGED server
    BY <2>8 DEF Navigate
  <2>9. ASSUME NEW k, Fail(k) PROVE UNCHANGED server
    BY <2>9 DEF Fail
  <2>10. UNCHANGED server => known' = known
    BY DEF server
  <2> QED
    BY <2>1, <2>2, <2>3, <2>4, <2>5, <2>6, <2>7, <2>8, <2>9, <2>10 DEF Next
<1>4. ASSUME NEW c, DeleteConnection(c) PROVE known' \in SUBSET Connections
  BY <1>1, <1>4 DEF DeleteConnection
<1> QED
  BY <1>1, <1>2, <1>3, <1>4

(* The settings on the server: an accepted value of a request, or of       *)
(* another client.                                                         *)
LEMMA SettingsFit ==
    ASSUME AllInv, [Next]_vars
    PROVE  \A f \in Fields : settings'[f] \in Values[f]
<1> DEFINE Goal == \A f \in Fields : settings'[f] \in Values[f]
<1>1. settings \in [Fields -> SettingValues] /\ \A f \in Fields : settings[f] \in Values[f]
  BY DEF AllInv, TypesInv, SettingsTypeOK, SettingsInv, SettingsShape
<1>2. ASSUME settings' = settings PROVE Goal
  BY <1>1, <1>2
<1>3. ASSUME NEW f, NEW v \in Values[f], settings' = [settings EXCEPT ![f] = v] PROVE Goal
  BY <1>1, <1>3
<1> HIDE DEF Goal
<1>4. ASSUME NEW t \in Slots, NEW f \in Fields, WriteSetting(t, f) PROVE Goal
  <2> DEFINE v == requests[t].body[f]
  <2>1. /\ requests[t] # None /\ requests[t].kind \in {"save", "dark"}
        /\ f \in DOMAIN requests[t].body
        /\ settings' = IF Accepts(f, v) THEN [settings EXCEPT ![f] = v] ELSE settings
    BY <1>4 DEF WriteSetting, Waiting
  <2>2. v \in Values[f]
    BY <2>1 DEF AllInv, TypesInv, ReadsOK, ReadOK, SettingsKinds
  <2> HIDE DEF v
  <2> QED
    BY <1>2, <1>3, <2>1, <2>2
<1>5. ASSUME InterfereSettings PROVE Goal
  BY <1>3, <1>5 DEF InterfereSettings, WriteElsewhere
<1>6. Goal
  BY <1>2, <1>4, <1>5, WhoWritesSettings
<1> QED
  BY <1>6 DEF Goal

(* The store: what the user chooses, and what the answers bring.           *)
StoreType == [key : Keys, darkMode : BOOLEAN, themeColor : Colors]

LEMMA WhoSetsStore ==
    ASSUME [Next]_vars
    PROVE  \/ store' = store
           \/ ToggleDark \/ Reload
           \/ \E f \in FormFields : \E v \in Values[f] : EditForm(f, v)
           \/ \E k \in Slots : TakeAppSettings(k) \/ Saved(k)
<1>1. UNCHANGED vars \/ Interfere \/ InterfereSettings => store' = store
  BY DEF vars, browser, Interfere, InterfereSettings, WriteElsewhere
<1>2. User => \/ store' = store
              \/ ToggleDark
              \/ \E f \in FormFields : \E v \in Values[f] : EditForm(f, v)
  BY DEF User, HomeStep, PickerStep, SettingsUser, onSave
<1>3. Timer => store' = store
  BY DEF Timer, HomeStep, PickerStep
<1>4. \A route : Navigate(route) => store' = store
  BY DEF Navigate
<1>5. \A k \in Slots : /\ Fail(k) => store' = store
                       /\ Serve(k) => store' = store
  BY DEF Fail, Serve, HomeStep, PickerStep, ServeSettings, WriteSetting, RefuseSave
<1>6. \A k \in Slots : Callback(k) => store' = store \/ TakeAppSettings(k) \/ Saved(k)
  BY DEF Callback, HomeStep, PickerStep, TakeSettings, SettingsIgnored, Unheard
<1> QED
  BY <1>1, <1>2, <1>3, <1>4, <1>5, <1>6 DEF Next

LEMMA StoreFits == ASSUME AllInv, [Next]_vars PROVE store' \in StoreType
<1>1. store \in StoreType
  BY DEF AllInv, TypesInv, SettingsTypeOK, StoreType
<1>2. DEFAULT_GREEN \in Colors /\ DEFAULT_RED \in Colors
  BY ColorsAssumption
<1>3. CASE store' = store
  BY <1>1, <1>3
<1>4. CASE ToggleDark
  <2> DEFINE color == IF store.themeColor = DEFAULT_GREEN /\ ~(~store.darkMode) THEN DEFAULT_RED
                      ELSE IF store.themeColor = DEFAULT_RED /\ ~store.darkMode THEN DEFAULT_GREEN
                      ELSE store.themeColor
  <2>1. PICK mode : mode = ~store.darkMode
    BY Zenon
  <2>2. mode \in BOOLEAN
    BY <2>1, Zenon
  <2>3. color \in Colors
    BY <1>1, <1>2 DEF StoreType
  <2>4. store' = [store EXCEPT !.darkMode = mode, !.themeColor = color]
    BY <1>1, <1>4, <2>1, Zenon DEF ToggleDark, toggleDark
  <2> HIDE DEF color
  <2> QED
    BY <1>1, <2>2, <2>3, <2>4 DEF StoreType
<1>5. CASE Reload
  <2>1. store' = [key |-> store.key, darkMode |-> FALSE, themeColor |-> DEFAULT_RED]
    BY <1>5 DEF Reload, LoadedStore
  <2> QED
    BY <1>1, <1>2, <2>1 DEF StoreType
<1>6. ASSUME NEW f \in FormFields, NEW v \in Values[f], EditForm(f, v) PROVE store' \in StoreType
  <2>1. store' = IF f = "theme_color" THEN [store EXCEPT !.themeColor = v] ELSE store
    BY <1>6 DEF EditForm
  <2>2. f = "theme_color" => v \in Colors
    BY <1>6, FieldValues
  <2> QED
    BY <1>1, <2>1, <2>2 DEF StoreType
<1>7. ASSUME NEW k \in Slots, TakeAppSettings(k) PROVE store' \in StoreType
  <2>1. /\ requests[k] # None /\ requests[k].kind = "app" /\ requests[k].status = "ok"
        /\ store' = [store EXCEPT !.darkMode = requests[k].answer.dark_mode,
                                  !.themeColor = requests[k].answer.theme_color]
    BY <1>7 DEF TakeAppSettings, Answered
  <2>2. \A f \in Fields : requests[k].answer[f] \in Values[f]
    BY <2>1 DEF AllInv, TypesInv, ReadsOK, ReadOK, SettingsKinds
  <2>3. requests[k].answer["theme_color"] \in Colors /\ requests[k].answer["dark_mode"] \in BOOLEAN
    BY <2>2, FieldNames, FieldValues
  <2> QED
    BY <1>1, <2>1, <2>3 DEF StoreType
<1>8. ASSUME NEW k \in Slots, Saved(k) PROVE store' \in StoreType
  <2> DEFINE r == requests[k]
  <2>1. /\ r # None /\ r.kind = "save"
        /\ store' = [store EXCEPT !.themeColor = r.body.theme_color,
                                  !.key = IF NewKey(r) # None THEN NewKey(r) ELSE @]
    BY <1>8 DEF Saved, Answered
  <2>2. SettingsParts(r) /\ ReadOK(r)
    BY <2>1 DEF AllInv, SettingsInv, SettingsShape, OfSettings, SettingsKinds, TypesInv, ReadsOK
  <2>3. r.body["theme_color"] \in Colors
    BY <2>1, <2>2, FieldValues DEF SettingsParts, ReadOK, SettingsKinds
  <2>4. NewKey(r) # None => NewKey(r) \in Keys
    BY <2>1, <2>2 DEF NewKey, SettingsParts
  <2> HIDE DEF r
  <2> QED
    BY <1>1, <2>1, <2>3, <2>4 DEF StoreType
<1> QED
  BY <1>3, <1>4, <1>5, <1>6, <1>7, <1>8, WhoSetsStore

LEMMA TypesNext == AllInv /\ [Next]_vars => TypesInv'
<1> SUFFICES ASSUME AllInv, [Next]_vars PROVE TypesInv'
  OBVIOUS
<1>1. SettingsTypeOK'
  BY SettingsFit, StoreFits DEF SettingsTypeOK, StoreType
<1> QED
  BY <1>1, RouteNext, KnownNext, ReadsNext, HomeNext, ListNext, PickerFitsNext, ColumnsNext,
     FormNext DEF TypesInv

LEMMA TypesInit == Init => TypesInv
<1> SUFFICES ASSUME Init PROVE TypesInv
  OBVIOUS
<1>1. /\ known = Connections /\ settings = Defaults /\ columns = Columns
      /\ store = [key |-> settings.auth_key, darkMode |-> settings.dark_mode,
                  themeColor |-> settings.theme_color]
  BY DEF Init
<1>2. \E r : /\ ReadOK(r) /\ requests = Put(Nobody, r)
             /\ page \in {MountedHome, MountedConnections, MountedSessions(Nothing, Nothing),
                          MountedSettings}
  <2>1. ReadOK(SettingsRequest("form", NoBody))
    BY NewSettings, NoBodyFits DEF SettingsKinds
  <2> QED
    BY <2>1, NewReads DEF Init
<1>3. ReadsOK
  <2>1. DOMAIN Nobody = Slots /\ \A k \in Slots : Nobody[k] = None
    BY DEF Nobody
  <2> QED
    BY <1>2, <2>1, PutAnywhere DEF ReadsOK
<1>4. page.route \in Routes
  BY <1>2 DEF MountedHome, MountedConnections, MountedSessions, MountedSettings, Routes
<1>5. /\ page.route = "home" => page = MountedHome
      /\ page.route = "connections" => page = MountedConnections
      /\ page.route = "sessions" => page = MountedSessions(Nothing, Nothing)
      /\ page.route = "settings" => page = MountedSettings
  BY <1>2 DEF MountedHome, MountedConnections, MountedSessions, MountedSettings
<1>6. HomeOK /\ ListOK /\ PickerOK
  BY <1>5, HomeMounted, PickerMountedFits DEF HomeOK, ListOK, PickerOK, OnHome, OnConnections,
     OnSessions, On, MountedConnections
<1>7. ColumnsOK
  <2>1. ColumnsFit(Columns)
    BY ColumnsAssumption DEF ColumnsFit
  <2>2. OnSessions => page.order = columns
    BY <1>1, <1>5, ColumnsAssumption DEF OnSessions, On, MountedSessions, loadOrder
  <2> QED
    BY <1>1, <2>1, <2>2 DEF ColumnsOK
<1>8. \A f \in Fields : Defaults[f] \in Values[f]
  BY DefaultsAssumption DEF Fields
<1>9. FormOK
  BY <1>5, <1>8, FieldNames, FieldValues DEF FormOK, OnSettings, On, MountedSettings
<1>10. SettingsTypeOK
  <2>1. Defaults["auth_key"] \in Keys /\ Defaults["theme_color"] \in Colors
    BY <1>8, FieldNames, FieldValues, DefaultsAssumption
  <2>2. Defaults["dark_mode"] \in BOOLEAN
    BY <1>8, FieldNames, FieldValues, Zenon
  <2> QED
    BY <1>1, <1>8, <2>1, <2>2 DEF SettingsTypeOK
<1> QED
  BY <1>1, <1>3, <1>4, <1>6, <1>7, <1>9, <1>10 DEF TypesInv

LEMMA TypesInvHolds == Spec => []TypesInv
<1>1. Init => TypesInv
  BY TypesInit
<1>2. BaseInv /\ PickerInv /\ SettingsInv /\ TypesInv /\ [Next]_vars => TypesInv'
  BY TypesNext DEF AllInv
<1> QED
  BY <1>1, <1>2, BaseInvHolds, PickerInvHolds, SettingsInvHolds, PTL DEF Spec

(* Whatever is answered, late or not at all, the pages show connections,   *)
(* sessions, rows and windows there can be, the settings are accepted ones *)
(* in the store and on the server, and no column is in the table twice: an *)
(* answer is taken for what its request has asked for                      *)
(* (Home.tsx:38-106, Connections.tsx:80-211, Sessions.tsx:228-271,412-439, *)
(* Settings.tsx:51-97, store.ts:46-82).                                    *)
THEOREM TypeCorrect == Spec => []TypeOK
<1>1. PickerInv /\ TypesInv /\ DrawerInv => TypeOK
  <2> SUFFICES ASSUME PickerInv, TypesInv, DrawerInv PROVE TypeOK
    OBVIOUS
  <2>1. /\ stored \subseteq Sessions /\ fresh \subseteq Sessions /\ port \in [Sessions -> Ports]
        /\ known \subseteq Connections /\ page.route \in Routes
    BY DEF PickerInv, SessionsKnown, DrawerInv, DrawerShape, TypesInv
  <2>2. OnHome => HomeTypeOK
    BY DEF TypesInv, HomeOK, HomeFits, HomeTypeOK
  <2>3. OnConnections => ConnectionsTypeOK
    BY DEF TypesInv, ListOK, DrawerInv, DrawerShape, DrawerParts, ConnectionsTypeOK
  <2>4. OnSessions => PickerTypeOK
    BY DEF TypesInv, PickerOK, PickerFits, ColumnsOK, ColumnsFit, PickerTypeOK, SomeOf
  <2>5. SettingsTypeOK
    BY DEF TypesInv
  <2> QED
    BY <2>1, <2>2, <2>3, <2>4, <2>5 DEF TypeOK
<1> QED
  BY <1>1, PickerInvHolds, TypesInvHolds, DrawerInvHolds, PTL
=============================================================================
