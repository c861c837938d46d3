---------------------------- MODULE SessionPicker ----------------------------
(***************************************************************************)
(* The choice of a connection and a session, and of the columns of the     *)
(* table, on the page of the messages (src/views/src/pages/Sessions.tsx).  *)
(* The first answer to the lists selects what the address says, or what is *)
(* most recent; later ones, each second and after events, change the lists *)
(* only.  The selection is written into the address, and the columns into  *)
(* the local storage, where a reload of the page finds them.               *)
(***************************************************************************)
EXTENDS MountedPage, PageServer, Sequences, SequencesExt

CONSTANT Columns    \* the columns of the table, in their default order

ASSUME NoneAssumption == None \notin Connections \cup Sessions
ASSUME ColumnsAssumption ==
    Columns \in Seq(ToSet(Columns)) \ {<<>>} /\ IsInjective(Columns)

VARIABLES
    address,        \* the selection in the URL
    columns         \* the columns in the local storage

OnSessions == On("sessions")

Nothing == [connection |-> None, session |-> None]

(* loadOrder: what is stored, if anything is left of it.                   *)
loadOrder == IF columns = <<>> THEN Columns ELSE columns

(* `entry` is the address the page was opened with; `before`, a history,   *)
(* what was selected when it was reloaded; `guessed`, another, that the    *)
(* address had a connection, but no session that is there and belongs to it*)
(* and that the user has not chosen since.                                 *)
MountedSessions(entry, before) ==
    [route |-> "sessions", connections |-> {}, sessions |-> {}, selected |-> Nothing,
     order |-> loadOrder, entry |-> entry, before |-> before, guessed |-> FALSE]

(* refreshSessions: two requests, answered apart.                          *)
ListsRequest(kind) ==
    [kind |-> kind, connections |-> None, sessions |-> None, mounted |-> TRUE,
     status |-> "sent", answer |-> None]

ConnectionsWithSessions(sessions) == {ConnectionOf[s] : s \in sessions}

(* The page is opened with the address `entry`; the effect that keeps the  *)
(* address in step clears it until something is selected.                  *)
MountSessions(entry, before, used) ==
    /\ page' = MountedSessions(entry, before)
    /\ address' = Nothing
    /\ columns' = loadOrder
    /\ requests' = Put(used, ListsRequest("first"))

(* Mutation of Select: the session is left out of the address.             *)
SelectUnwritten(selection) ==
    /\ page' = [page EXCEPT !.selected = selection, !.before = Nothing, !.guessed = FALSE]
    /\ address' = [selection EXCEPT !.session = None]

(* The selection changes, and with it the address.                         *)
Select(selection) ==
    /\ page' = [page EXCEPT !.selected = selection, !.before = Nothing, !.guessed = FALSE]
    /\ address' = selection

(* Mutation of ChooseConnection: the session stays.                        *)
ChooseConnectionOnly(c) ==
    /\ OnSessions /\ Click /\ c # page.selected.connection
    /\ Select([page.selected EXCEPT !.connection = c])
    /\ UNCHANGED <<requests, columns>>

(* A connection is chosen, with one of its sessions if it has any.         *)
ChooseConnection(c) ==
    LET own == {s \in page.sessions : ConnectionOf[s] = c}
    IN  /\ OnSessions /\ Click /\ c # page.selected.connection
        /\ \E s \in IF own = {} THEN {None} ELSE own :
               Select([connection |-> c, session |-> s])
        /\ UNCHANGED <<requests, columns>>

(* filteredSessions.                                                       *)
Offered ==
    IF page.selected.connection = None THEN page.sessions
    ELSE {s \in page.sessions : ConnectionOf[s] = page.selected.connection}

ChooseSession(s) ==
    /\ OnSessions /\ Click /\ s # page.selected.session
    /\ Select([page.selected EXCEPT !.session = s])
    /\ UNCHANGED <<requests, columns>>

(* What the first answer selects from these sessions.                      *)
InitialSelections(sessions) ==
    {[connection |-> IF page.entry.connection \in ConnectionsWithSessions(sessions)
                     THEN page.entry.connection ELSE ConnectionOf[s],
      session |-> s] :
     s \in IF page.entry.session \in sessions THEN {page.entry.session} ELSE sessions}

(* The address names no connection, or a session of it.                    *)
EntryFits(sessions) ==
    LET e == page.entry
    IN  e.connection # None => e.session \in sessions /\ ConnectionOf[e.session] = e.connection

(* The first answer, after whatever the user has chosen meanwhile.         *)
TakeFirst(k) ==
    LET r == requests[k]
        lists == [page EXCEPT !.connections = r.connections, !.sessions = r.sessions]
    IN  /\ Answered(k) /\ r.kind = "first"
        /\ IF r.sessions = {} THEN page' = lists /\ UNCHANGED address
           ELSE \E selection \in InitialSelections(r.sessions) :
                    /\ page' = [lists EXCEPT !.selected = selection,
                            !.guessed = ~EntryFits(r.sessions)]
                    /\ address' = selection
        /\ requests' = Dropped(k)
        /\ UNCHANGED <<columns, clicks>>

(* The timer, and the events of the server.                                *)
SessionsTimer ==
    /\ OnSessions /\ Free(requests) # {}
    /\ requests' = Put(requests, ListsRequest("lists"))
    /\ UNCHANGED <<page, address, columns, clicks>>

TakeLists(k) ==
    /\ Answered(k) /\ requests[k].kind = "lists"
    /\ page' = [page EXCEPT !.connections = requests[k].connections,
                            !.sessions = requests[k].sessions]
    /\ requests' = Dropped(k)
    /\ UNCHANGED <<address, columns, clicks>>

(* A failure leaves everything as it is, the selection too.                *)
ListsFailed(k) ==
    /\ Refused(k) /\ requests[k].kind \in {"first", "lists"}
    /\ requests' = Dropped(k)
    /\ UNCHANGED <<page, address, columns, clicks>>

(* The order of the columns, which an effect stores.                       *)
SetOrder(order) ==
    /\ OnSessions /\ Click
    /\ page' = [page EXCEPT !.order = order]
    /\ columns' = order
    /\ UNCHANGED <<requests, address>>

(* Mutation of toggleColumn: the column is added in any case.              *)
toggleColumnAdds(key) == SetOrder(Append(page.order, key))

(* The column is taken out, of which there is one (PickerTypeOK), or added.*)
toggleColumn(key) ==
    \/ \E i \in DOMAIN page.order :
           page.order[i] = key /\ SetOrder(RemoveAt(page.order, i))
    \/ key \notin ToSet(page.order) /\ SetOrder(Append(page.order, key))

(* The column at i changes places with the one before it, or after it.     *)
moveColumn(i, j) ==
    /\ j \in {i - 1, i + 1} /\ {i, j} \subseteq DOMAIN page.order
    /\ SetOrder([page.order EXCEPT ![i] = page.order[j], ![j] = page.order[i]])

SessionsUser ==
    /\ OnSessions
    /\ \/ \E c \in page.connections \cup {None} : ChooseConnection(c)
       \/ \E s \in Offered \cup {None} : ChooseSession(s)
       \/ \E key \in ToSet(Columns) : toggleColumn(key)
       \/ \E i, j \in DOMAIN page.order : moveColumn(i, j)

(* The server serves the two requests in either order.                     *)
ServeLists(k) ==
    LET r == requests[k]
        Serves(served) == requests' =
            [requests EXCEPT ![k] = [served EXCEPT !.status =
                IF None \in {served.connections, served.sessions} THEN "sent" ELSE "ok"]]
    IN  /\ Waiting(k) /\ r.kind \in {"first", "lists"}
        /\ \/ r.connections = None /\ Serves([r EXCEPT !.connections = known])
           \/ r.sessions = None /\ Serves([r EXCEPT !.sessions = stored])
-----------------------------------------------------------------------------
PickerTypeOK ==
    /\ page.connections \subseteq Connections
    /\ page.sessions \subseteq Sessions
    /\ page.selected \in [connection : Connections \cup {None}, session : Sessions \cup {None}]
    /\ IsInjective(page.order) /\ columns = page.order

(* The session that is shown is one of the connection above it, whatever   *)
(* was chosen, deleted or reloaded, and however late the first answer was; *)
(* a reload where the address has a connection and no session that exists  *)
(* is left out: it takes the connection from the address and the session   *)
(* from anywhere, and writes both into the address                         *)
(* (Sessions.tsx:241-263,452-457,483-488).                                 *)
SelectionFits ==
    OnSessions /\ ~page.guessed =>
        \/ None \in {page.selected.connection, page.selected.session}
        \/ ConnectionOf[page.selected.session] = page.selected.connection

(* A reload comes back to the session that was shown before it, if the     *)
(* server still has it, unless the user has chosen another before the first*)
(* answer came (Sessions.tsx:241-271).                                     *)
ReloadRestores ==
    [][\A k \in Slots :
          TakeFirst(k) /\ page.before.session \in requests[k].sessions
          => page'.selected.session = page.before.session]_<<page, requests>>
=============================================================================
