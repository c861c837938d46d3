------------------------------- MODULE Pages -------------------------------
(***************************************************************************)
(* The browser: one of the pages is mounted, the user goes from one to     *)
(* another or reloads, and the server, other browsers and messages go on.  *)
(* Leaving a page does not take back what it has asked the server to do:   *)
(* its writes are carried out, and the settings it saved still reach the   *)
(* store.                                                                  *)
(***************************************************************************)
EXTENDS HomePage, ConnectionsPage, SessionPicker, SettingsPage

browser == <<page, requests, clicks, address, columns, store>>
vars == <<browser, server, elsewhere, settings, smooth>>

(* What is left of the requests when the page goes: nobody waits for what  *)
(* it has read, and nobody hears of what it has changed.                   *)
Abandoned(heard) == [k \in Slots |->
    IF requests[k] = None \/ requests[k].kind \in heard THEN requests[k]
    ELSE IF requests[k].kind \in (Changing \ {"detail"}) \cup {"save", "dark"}
         THEN [requests[k] EXCEPT !.mounted = FALSE]
         ELSE None]

(* A page is mounted and asks for what it shows.                           *)
Mount(route, used) ==
    \/ /\ route = "home" /\ page' = MountedHome
       /\ requests' = Put(used, LoadRequest(MountedHome))
       /\ UNCHANGED <<address, columns>>
    \/ /\ route = "connections" /\ page' = MountedConnections
       /\ requests' = Put(used, refresh)
       /\ UNCHANGED <<address, columns>>
    \/ route = "sessions" /\ MountSessions(Nothing, Nothing, used)
    \/ /\ route = "settings" /\ page' = MountedSettings
       /\ requests' = Put(used, SettingsRequest("form", NoBody))
       /\ UNCHANGED <<address, columns>>

(* The store of a page that is loaded; the key is in the local storage.    *)
LoadedStore(key) == [key |-> key, darkMode |-> FALSE, themeColor |-> DEFAULT_RED]

Nobody == [k \in Slots |-> None]

(* Init: a page has just been mounted, and the settings that App asks for  *)
(* have arrived.                                                           *)
Init ==
    /\ known = Connections
    /\ stored = Initially
    /\ fresh = Sessions \ stored
    /\ port = [s \in Sessions |-> Min(Ports)]
    /\ settings = Defaults
    /\ store = [key |-> settings.auth_key, darkMode |-> settings.dark_mode,
                themeColor |-> settings.theme_color]
    /\ address = Nothing /\ columns = Columns
    /\ clicks = 0 /\ elsewhere = 0
    /\ smooth = TRUE
    /\ \/ page = MountedHome /\ requests = Put(Nobody, LoadRequest(MountedHome))
       \/ page = MountedConnections /\ requests = Put(Nobody, refresh)
       \/ /\ page = MountedSessions(Nothing, Nothing)
          /\ requests = Put(Nobody, ListsRequest("first"))
       \/ /\ page = MountedSettings
          /\ requests = Put(Nobody, SettingsRequest("form", NoBody))

(* Layout: the menu.                                                       *)
Navigate(route) ==
    LET left == Abandoned({"save", "dark", "app"})
    IN  /\ route # page.route /\ Click
        /\ Free(left) # {}
        /\ Mount(route, left)
        /\ UNCHANGED <<server, elsewhere, settings, store, smooth>>

(* The page of the messages is loaded again: a new store, whose effect asks*)
(* for the settings.  To reload another page is to mount it.               *)
Reload ==
    LET left == Abandoned({})
    IN  /\ OnSessions /\ Click
        /\ Cardinality(Free(left)) >= 2
        /\ MountSessions(address, page.selected, Put(left, SettingsRequest("app", NoBody)))
        /\ store' = LoadedStore(store.key)
        /\ smooth' = (smooth /\ Unsettled(requests) = {})
        /\ UNCHANGED <<server, elsewhere, settings>>

(* A request fails before it reaches the server, on its way back, or while *)
(* the server works on it.                                                 *)
Fail(k) ==
    /\ requests[k] # None /\ ~Refused(k) /\ Elsewhere
    /\ requests' = Refuses(k)
    /\ smooth' = (smooth /\ k \notin Unsettled(requests))
    /\ UNCHANGED <<page, clicks, address, columns, store, server, settings>>

(* A change that comes from elsewhere; the drawer does not follow.         *)
Interfere ==
    /\ \E s \in Sessions : SessionElsewhere(s)
    /\ page' = IF OnConnections THEN [page EXCEPT !.exact = FALSE] ELSE page
    /\ UNCHANGED <<requests, clicks, address, columns, store, settings, smooth>>

InterfereSettings ==
    /\ Elsewhere
    /\ \E f \in Fields : \E v \in Values[f] : WriteElsewhere(f, v)
    /\ UNCHANGED <<server, address, columns>>

(* The answer to what a page has changed that is not there any more.       *)
Unheard(k) ==
    /\ requests[k] # None /\ ~Waiting(k) /\ ~requests[k].mounted
    /\ requests' = Dropped(k)
    /\ UNCHANGED <<page, clicks, address, columns, store, server, elsewhere, settings, smooth>>

HomeStep == UNCHANGED <<address, columns, store, server, elsewhere, settings, smooth>>
PickerStep == UNCHANGED <<store, server, elsewhere, settings, smooth>>
SettingsStep == UNCHANGED <<address, columns, server, elsewhere>>

Serve(k) ==
    \/ ServeOverview(k) /\ HomeStep
    \/ ServeConnections(k) /\ UNCHANGED <<address, columns, store, elsewhere, settings, smooth>>
    \/ ServeLists(k) /\ PickerStep /\ UNCHANGED <<page, clicks, address, columns>>
    \/ ServeSettings(k) /\ SettingsStep
    \/ \E f \in Fields : WriteSetting(k, f) /\ SettingsStep
    \/ RefuseSave(k) /\ SettingsStep

Callback(k) ==
    \/ (TakeOverview(k) \/ OverviewFailed(k)) /\ HomeStep
    \/ ConnectionsCallback(k) /\ HomeStep
    \/ (TakeFirst(k) \/ TakeLists(k) \/ ListsFailed(k)) /\ PickerStep
    \/ (TakeSettings(k) \/ TakeAppSettings(k) \/ Saved(k) \/ SettingsIgnored(k)) /\ SettingsStep
    \/ Unheard(k)

Timer ==
    \/ (HomeTimer \/ ListTimer) /\ HomeStep
    \/ SessionsTimer /\ PickerStep

User ==
    \/ (HomeUser \/ ConnectionsUser) /\ HomeStep
    \/ SessionsUser /\ PickerStep
    \/ SettingsUser /\ SettingsStep

Next ==
    \/ User \/ Reload \/ Timer \/ Interfere \/ InterfereSettings
    \/ \E route \in Routes : Navigate(route)
    \/ \E k \in Slots : Serve(k) \/ Callback(k) \/ Fail(k)

Spec == Init /\ [][Next]_vars

(* The timers fire, the server answers, and the callbacks run: a request   *)
(* waits for the one or for the other.                                     *)
Fairness ==
    /\ WF_vars(Timer)
    /\ \A k \in Slots : WF_vars(Serve(k) \/ Callback(k))

FairSpec == Spec /\ Fairness
-----------------------------------------------------------------------------
TypeOK ==
    /\ page.route \in Routes
    /\ known \subseteq Connections /\ stored \subseteq Sessions /\ fresh \subseteq Sessions
    /\ port \in [Sessions -> Ports]
    /\ OnHome => HomeTypeOK
    /\ OnConnections => ConnectionsTypeOK
    /\ OnSessions => PickerTypeOK
    /\ SettingsTypeOK

(* Once the user rests, each page shows what it was asked for last and what*)
(* the server has, whatever failed, came late or was changed elsewhere     *)
(* (Home.tsx:38-57, Connections.tsx:80-100, Sessions.tsx:228-239,378-385). *)
UpToDate ==
    /\ OnHome => page.shown = Overview(opts(page))
    /\ OnConnections => page.connections = known
    /\ OnSessions => page.connections = known /\ page.sessions = stored

CatchesUp == <>[]UpToDate

(* A dialog whose button was pressed waits for a request of this page, and *)
(* of the kind it asks about: no answer, failure, other click or return to *)
(* the page takes the request away and leaves the dialog                   *)
(* (Connections.tsx:113-148,188-213).                                      *)
DialogAwaits ==
    LET Awaited(kinds) == \E k \in UnderWay(requests) :
                              requests[k].kind \in kinds /\ requests[k].mounted
    IN  OnConnections /\ page.pressed =>
            /\ page.confirm # None => Awaited({"deleteConnection", "deleteSession"})
            /\ page.editTarget # None => Awaited({"edit"})

(* A dialog whose button was pressed does not stay open, also when its     *)
(* request fails (Connections.tsx:119-128,139-148,196-211).                *)
DialogsEnd == <>[](OnConnections /\ page.pressed => NoDialog)
=============================================================================
