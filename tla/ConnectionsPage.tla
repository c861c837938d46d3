--------------------------- MODULE ConnectionsPage ---------------------------
(***************************************************************************)
(* The list of connections, the drawer with the sessions of one of them,   *)
(* and the dialogs that edit and delete (src/views/src/pages/              *)
(* Connections.tsx).  The list is asked for every three seconds, after     *)
(* events and after changes; the drawer is asked for once and then changed *)
(* along with the server.  A dialog stays open until its request is        *)
(* answered and may be cancelled before; nothing ties an answer to the     *)
(* dialog or the drawer that is open when it arrives.                      *)
(***************************************************************************)
EXTENDS MountedPage, PageServer

CONSTANT WrongPort  \* a number that is no port

ASSUME PortsAssumption ==
    /\ Ports \subseteq Nat /\ Ports # {}
    /\ WrongPort # 0 /\ Ports \cap {0, WrongPort} = {}

OnConnections == On("connections")

(* Two histories: `pressed`, the button of the open dialog was pressed;    *)
(* `exact`, nothing has happened since the drawer was opened that its local*)
(* changes cannot follow.                                                  *)
MountedConnections ==
    [route |-> "connections", connections |-> {}, detail |-> None, detailSessions |-> {},
     confirm |-> None, editTarget |-> None, pressed |-> FALSE, exact |-> TRUE]

(* A row of the drawer, with the number that was typed last.               *)
Rows == [id : Sessions, port : Ports \cup {WrongPort}]

(* What opens over the page takes the clicks: the drawer over the list, a  *)
(* dialog over both.                                                       *)
NoDialog == page.confirm = None /\ page.editTarget = None
AtList == NoDialog /\ page.detail = None
InDrawer == NoDialog /\ page.detail # None

PageRequest(kind, id) ==
    [kind |-> kind, id |-> id, typed |-> 0, sent |-> 0, mounted |-> TRUE,
     status |-> "sent", answer |-> None]

refresh == PageRequest("list", None)

(* Kinds of requests that change the drawer or a dialog.                   *)
Changing == {"detail", "deleteConnection", "deleteSession", "new", "edit"}

(* Their requests, as they are at any time.                                *)
ChangeAnswers == (SUBSET Rows) \cup Rows \cup {TRUE, None}
ChangingRequests ==
    [kind : Changing, id : Connections \cup Sessions,
     typed : Ports \cup {0, WrongPort}, sent : Ports \cup {0, WrongPort}, mounted : BOOLEAN,
     status : {"sent", "ok", "failed"}, answer : ChangeAnswers]

ASSUME NoChangeAssumption == None \notin ChangingRequests

UnderWay(used) == {k \in Slots : used[k] # None /\ used[k].kind \in Changing}

UserDoes(p) ==
    /\ OnConnections /\ Click
    /\ page' = p
    /\ UNCHANGED requests

(* A request the user causes.  Two at a time are more than the drawer can  *)
(* follow.                                                                 *)
UserSends(p, r, exact) ==
    /\ OnConnections /\ Free(requests) # {} /\ Click
    /\ page' = [p EXCEPT !.exact = exact /\ UnderWay(requests) = {}]
    /\ requests' = Put(requests, r)

-----------------------------------------------------------------------------
(* The user.                                                               *)

openDetail(c) ==
    /\ AtList /\ c \in page.connections
    /\ UserSends([page EXCEPT !.detail = c, !.detailSessions = {}],
                 PageRequest("detail", c), TRUE)

CloseDetail == InDrawer /\ UserDoes([page EXCEPT !.detail = None])

handleDeleteConnection(c) ==
    /\ AtList /\ c \in page.connections
    /\ UserDoes([page EXCEPT !.confirm = PageRequest("deleteConnection", c), !.pressed = FALSE])

handleDeleteSession(row) ==
    /\ InDrawer /\ row \in page.detailSessions
    /\ UserDoes([page EXCEPT !.confirm = PageRequest("deleteSession", row.id), !.pressed = FALSE])

CancelConfirm == page.confirm # None /\ UserDoes([page EXCEPT !.confirm = None])

(* The dialog stays open, and its button can be pressed again.             *)
onConfirm ==
    /\ page.confirm # None
    /\ UserSends([page EXCEPT !.pressed = TRUE], page.confirm, page.exact)

handleNewSession ==
    InDrawer /\ UserSends(page, PageRequest("new", page.detail), page.exact)

openEdit(row) ==
    /\ InDrawer /\ row \in page.detailSessions
    /\ UserDoes([page EXCEPT !.editTarget = row, !.pressed = FALSE])

CancelEdit == page.editTarget # None /\ UserDoes([page EXCEPT !.editTarget = None])

(* The number sent: what was typed, or the port as it was.                 *)
PortToSend(typed) == IF typed \in Ports THEN typed ELSE page.editTarget.port

(* saveEdit, when `typed` was typed, which is 0 if it is no number.        *)
saveEdit(typed) ==
    /\ page.editTarget # None
    /\ UserSends([page EXCEPT !.pressed = TRUE],
                 [PageRequest("edit", page.editTarget.id)
                      EXCEPT !.typed = typed, !.sent = PortToSend(typed)],
                 page.exact /\ typed # WrongPort)

(* The timer, and the events of the server.                                *)
ListTimer ==
    /\ OnConnections /\ Free(requests) # {}
    /\ requests' = Put(requests, refresh)
    /\ UNCHANGED <<page, clicks>>

-----------------------------------------------------------------------------
(* The callbacks, for the request r of slot k; they end with the next      *)
(* request in its place.                                                   *)

Settles(k, p, next) ==
    /\ page' = p
    /\ requests' = [requests EXCEPT ![k] = next]
    /\ UNCHANGED clicks

TakeList(k, r) ==
    r.kind = "list" /\ Settles(k, [page EXCEPT !.connections = r.answer], None)

TakeDetail(k, r) ==
    r.kind = "detail" /\ Settles(k, [page EXCEPT !.detailSessions = r.answer], None)

ConnectionDeleted(k, r) ==
    /\ r.kind = "deleteConnection"
    /\ Settles(k, [page EXCEPT !.detail = None, !.confirm = None], refresh)

(* Mutation of SessionDeleted: the list in the drawer is left to itself.   *)
SessionDeletedKept(k, r) ==
    /\ r.kind = "deleteSession"
    /\ Settles(k, [page EXCEPT !.confirm = None], refresh)

SessionDeleted(k, r) ==
    /\ r.kind = "deleteSession"
    /\ Settles(k, [page EXCEPT !.detailSessions = {x \in @ : x.id # r.id},
                                !.confirm = None], refresh)

SessionCreated(k, r) ==
    /\ r.kind = "new"
    /\ Settles(k, [page EXCEPT !.detailSessions =
                        {r.answer} \cup {x \in @ : x.id # r.answer.id}], refresh)

(* `port || x.port`.                                                       *)
SessionEdited(k, r) ==
    /\ r.kind = "edit"
    /\ Settles(k, [page EXCEPT !.detailSessions =
                        {IF x.id = r.id /\ r.typed # 0
                         THEN [x EXCEPT !.port = r.typed] ELSE x : x \in @},
                                !.editTarget = None], refresh)

(* Mutation of Failed: a dialog is closed by success only.                 *)
FailedOpen(k, r) == Settles(k, [page EXCEPT !.exact = FALSE], None)

(* The request failed: nothing is told, the dialog is closed.              *)
Failed(k, r) ==
    Settles(k, [page EXCEPT !.exact = @ /\ r.kind = "list",
                             !.confirm = IF r.kind \in {"deleteConnection", "deleteSession"}
                                         THEN None ELSE @,
                             !.editTarget = IF r.kind = "edit" THEN None ELSE @], None)

(* The end of a request this page has sent.                                *)
ConnectionsCallback(k) ==
    LET r == requests[k]
    IN  \/ /\ Answered(k) /\ r.mounted
           /\ \/ TakeList(k, r) \/ TakeDetail(k, r) \/ ConnectionDeleted(k, r)
              \/ SessionDeleted(k, r) \/ SessionCreated(k, r) \/ SessionEdited(k, r)
        \/ Refused(k) /\ r.mounted /\ r.kind \in Changing \cup {"list"} /\ Failed(k, r)

ConnectionsUser ==
    /\ OnConnections
    /\ \/ \E c \in Connections : openDetail(c) \/ handleDeleteConnection(c)
       \/ \E row \in page.detailSessions : handleDeleteSession(row) \/ openEdit(row)
       \/ \E typed \in Ports \cup {0, WrongPort} : saveEdit(typed)
       \/ CloseDetail \/ CancelConfirm \/ onConfirm \/ handleNewSession \/ CancelEdit

-----------------------------------------------------------------------------
(* The server: what it does for the request of slot k, mounted or not.     *)

ServeReads(k, r) ==
    /\ \/ r.kind = "list" /\ requests' = Answers(k, known)
       \/ r.kind = "detail" /\ requests' = Answers(k, RowsOf(r.id))
    /\ UNCHANGED server

(* A change of what is not there is answered with 404.                     *)
Change(k, there, answer, effect) ==
    IF there THEN requests' = Answers(k, answer) /\ effect
    ELSE requests' = Refuses(k) /\ UNCHANGED server

ServeChanges(k, r) ==
    \/ r.kind = "deleteConnection" /\ Change(k, r.id \in known, TRUE, DeleteConnection(r.id))
    \/ r.kind = "deleteSession" /\ Change(k, r.id \in stored, TRUE, DeleteSession(r.id))
    \/ r.kind = "edit" /\ Change(k, r.id \in stored, TRUE, UpdateSession(r.id, r.sent))
    \/ /\ r.kind = "new"
       /\ LET ids == {s \in fresh : ConnectionOf[s] = r.id}
          IN  IF ids = {} THEN requests' = Refuses(k) /\ UNCHANGED server
              ELSE \E s \in ids : Change(k, r.id \in known, SessionRow(s), Create(s))

ServeConnections(k) ==
    /\ Waiting(k) /\ (ServeReads(k, requests[k]) \/ ServeChanges(k, requests[k]))
    /\ UNCHANGED <<page, clicks>>
-----------------------------------------------------------------------------
ConnectionsTypeOK ==
    /\ page.connections \subseteq Connections
    /\ page.detail \in Connections \cup {None}
    /\ page.detailSessions \subseteq Rows

(* The drawer is asked for once and never again; its rows are changed here *)
(* and there, by the page and by the server.  As long as the user waits for*)
(* each answer, nothing fails and nobody else changes the connection, they *)
(* stay the same through any sequence of creations, edits and deletions    *)
(* (Connections.tsx:102-111,139-141,177-186,194-212).                      *)
DrawerExact ==
    OnConnections /\ page.exact /\ page.detail # None /\ UnderWay(requests) = {} =>
        page.detailSessions = RowsOf(page.detail)
=============================================================================
