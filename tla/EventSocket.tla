----------------------------- MODULE EventSocket -----------------------------
(***************************************************************************)
(* The event client of a browser (src/views/src/api/ws.ts): it keeps one   *)
(* WebSocket to the server as long as the user is logged in, opens the next*)
(* one two seconds after it lost one, and tells every new connection what  *)
(* the page has subscribed to.  The application connects whenever the key  *)
(* changes (App.tsx) and the logout button closes (Layout.tsx).            *)
(*                                                                         *)
(* JavaScript runs one callback at a time: a step is a callback, or a step *)
(* of the network or of the server's end of a connection.                  *)
(***************************************************************************)
EXTENDS Naturals, Sequences

CONSTANTS
    Filters,        \* what a page subscribes to: a session, or All
    All,            \* no filter
    MaxSockets,     \* bound: how many sockets are opened
    MaxChanges      \* bound: how many subscriptions, logins and logouts

ASSUME AllAssumption == All \in Filters
ASSUME MaxSocketsAssumption == MaxSockets \in Nat \ {0}
ASSUME MaxChangesAssumption == MaxChanges \in Nat

(* A socket is named by its number; there is none before the first.        *)
Sockets == 1..MaxSockets
NoSocket == 0

VARIABLES
    key,            \* is there a key in the store, that is, is the user logged in?
    ws,             \* this.ws
    timer,          \* is this.reconnectTimer set?
    closed,         \* this.closed
    wanted,         \* this.sessionFilter
    wsConnected,    \* what the page says of the connection
    opened,         \* how many sockets have been opened
    state,          \* socket -> readyState, and "none" before it is opened
    attached,       \* the sockets that have their handlers
    toServer,       \* socket -> the filters on their way to the server
    served,         \* socket -> the filter in force at the server
    changes         \* how many changes the user has made

client == <<key, ws, timer, closed, wanted, wsConnected, opened, attached>>
vars == <<client, state, toServer, served, changes>>

Init ==
    /\ key = FALSE
    /\ ws = NoSocket
    /\ timer = FALSE
    /\ closed = FALSE
    /\ wanted = All
    /\ wsConnected = FALSE
    /\ opened = 0
    /\ state = [s \in Sockets |-> "none"]
    /\ attached = {}
    /\ toServer = [s \in Sockets |-> <<>>]
    /\ served = [s \in Sockets |-> All]
    /\ changes = 0

-----------------------------------------------------------------------------
(* The client.                                                             *)

(* What close() of the WebSocket makes of its state.                       *)
Closing(st) == IF st \in {"connecting", "open"} THEN "closing" ELSE st

(* Mutation of connect: the old socket is not closed.                       *)
connectKeepsOld ==
    /\ opened < MaxSockets
    /\ closed' = FALSE
    /\ timer' = FALSE
    /\ opened' = opened + 1
    /\ ws' = opened'
    /\ attached' = (attached \ {ws}) \cup {ws'}
    /\ state' = [state EXCEPT ![ws'] = "connecting"]
    /\ UNCHANGED <<wanted, wsConnected, toServer, served>>

connect ==
    /\ opened < MaxSockets
    /\ closed' = FALSE
    /\ timer' = FALSE
    /\ opened' = opened + 1
    /\ ws' = opened'
    /\ attached' = (attached \ {ws}) \cup {ws'}
    /\ state' = [s \in Sockets |-> IF s = ws' THEN "connecting"
                                   ELSE IF s = ws THEN Closing(state[s]) ELSE state[s]]
    /\ UNCHANGED <<wanted, wsConnected, toServer, served>>

(* Mutation of close: the timer goes on.                                   *)
closeKeepsTimer ==
    /\ closed' = TRUE
    /\ ws' = NoSocket
    /\ attached' = attached \ {ws}
    /\ state' = [s \in Sockets |-> IF s = ws THEN Closing(state[s]) ELSE state[s]]
    /\ UNCHANGED <<timer, wanted, wsConnected, opened, toServer, served>>

close ==
    /\ closed' = TRUE
    /\ timer' = FALSE
    /\ ws' = NoSocket
    /\ attached' = attached \ {ws}
    /\ state' = [s \in Sockets |-> IF s = ws THEN Closing(state[s]) ELSE state[s]]
    /\ UNCHANGED <<wanted, wsConnected, opened, toServer, served>>

(* sendFilter for the filter f, when the sockets are in the states st.     *)
sendFilter(st, f) ==
    toServer' = [s \in Sockets |-> IF s = ws /\ st[s] = "open"
                                   THEN Append(toServer[s], f) ELSE toServer[s]]

(* The page chooses what it wants to see.                                  *)
subscribe(f) ==
    /\ changes < MaxChanges /\ f # wanted
    /\ changes' = changes + 1
    /\ wanted' = f
    /\ sendFilter(state, f)
    /\ UNCHANGED <<key, ws, timer, closed, wsConnected, opened, attached, state, served>>

(* A login, or another key: the effect of App connects.                    *)
KeyChanges ==
    /\ changes < MaxChanges
    /\ changes' = changes + 1
    /\ key' = TRUE
    /\ connect

Logout ==
    /\ changes < MaxChanges /\ key
    /\ changes' = changes + 1
    /\ key' = FALSE
    /\ close

(* Mutation of scheduleReconnect: nothing after the end of a connection.   *)
neverReconnect == UNCHANGED timer

scheduleReconnect == timer' = TRUE

(* The timer of scheduleReconnect.                                         *)
TimerFires == timer /\ connect /\ UNCHANGED <<key, changes>>

(* Mutation of onopen: the filter is sent when it is chosen only.          *)
onopenSilent(s) ==
    /\ state[s] = "connecting"
    /\ state' = [state EXCEPT ![s] = "open"]
    /\ wsConnected' = (wsConnected \/ s \in attached)
    /\ UNCHANGED <<key, ws, timer, closed, wanted, opened, attached, toServer, served, changes>>

(* The connection is there.                                                *)
onopen(s) ==
    /\ state[s] = "connecting"
    /\ state' = [state EXCEPT ![s] = "open"]
    /\ IF s \in attached
       THEN wsConnected' = TRUE /\ sendFilter(state', wanted)
       ELSE UNCHANGED <<wsConnected, toServer>>
    /\ UNCHANGED <<key, ws, timer, closed, wanted, opened, attached, served, changes>>

(* The connection fails, or is lost: the callbacks onerror and onclose run *)
(* when readyState is "closed" already.  What was on its way is lost.  The *)
(* last socket of the bound does not fail.                                 *)
onclose(s) ==
    /\ state[s] \in {"connecting", "open"}
    /\ opened < MaxSockets
    /\ state' = [state EXCEPT ![s] = "closed"]
    /\ toServer' = [toServer EXCEPT ![s] = <<>>]
    /\ IF s \in attached
       THEN /\ wsConnected' = FALSE
            /\ IF closed THEN UNCHANGED timer ELSE scheduleReconnect
       ELSE UNCHANGED <<wsConnected, timer>>
    /\ UNCHANGED <<key, ws, closed, wanted, opened, attached, served, changes>>

-----------------------------------------------------------------------------
(* The network and the server.                                             *)

(* The closing handshake of a socket the client has let go of.             *)
Closes(s) ==
    /\ state[s] = "closing"
    /\ state' = [state EXCEPT ![s] = "closed"]
    /\ toServer' = [toServer EXCEPT ![s] = <<>>]
    /\ UNCHANGED <<client, served, changes>>

(* readPump of the server takes a subscribe or unsubscribe message.        *)
ReadFilter(s) ==
    /\ state[s] = "open" /\ toServer[s] # <<>>
    /\ served' = [served EXCEPT ![s] = Head(toServer[s])]
    /\ toServer' = [toServer EXCEPT ![s] = Tail(@)]
    /\ UNCHANGED <<client, state, changes>>

Next ==
    \/ \E f \in Filters : subscribe(f)
    \/ KeyChanges \/ Logout \/ TimerFires
    \/ \E s \in Sockets : onopen(s) \/ onclose(s) \/ Closes(s) \/ ReadFilter(s)

Spec == Init /\ [][Next]_vars

(* The timer fires, and the server, when it can be reached, answers.       *)
Fairness ==
    /\ WF_vars(TimerFires)
    /\ \A s \in Sockets : WF_vars(onopen(s)) /\ WF_vars(Closes(s)) /\ WF_vars(ReadFilter(s))

FairSpec == Spec /\ Fairness
-----------------------------------------------------------------------------
TypeOK ==
    /\ key \in BOOLEAN /\ timer \in BOOLEAN /\ closed \in BOOLEAN
    /\ wsConnected \in BOOLEAN
    /\ ws \in Sockets \cup {NoSocket}
    /\ wanted \in Filters
    /\ opened \in 0..MaxSockets
    /\ state \in [Sockets -> {"none", "connecting", "open", "closing", "closed"}]
    /\ attached \subseteq Sockets
    /\ toServer \in [Sockets -> Seq(Filters)]
    /\ served \in [Sockets -> Filters]
    /\ changes \in 0..MaxChanges

(* However logins, lost connections and retries follow one another, there  *)
(* is at most one connection, and no other socket can call the client: an  *)
(* event is never seen twice (ws.ts:16-33,60-76).                          *)
OneConnection ==
    /\ attached \subseteq {ws}
    /\ \A s \in Sockets \ {ws} : state[s] \notin {"connecting", "open"}

(* A user who is logged in has a connection, or one that is being set up,  *)
(* or a timer that will do so; one who logged out has none of these        *)
(* (ws.ts:14-19,39-42,59-77,100-106).                                      *)
KeepsTrying ==
    IF key THEN ws # NoSocket /\ (state[ws] \in {"connecting", "open"} \/ timer)
           ELSE ws = NoSocket /\ ~timer

(* What the server filters by, once it has read what is on its way, is what*)
(* the page asked for last, on whatever connection it asked                *)
(* (ws.ts:35-38,79-98).                                                    *)
LastFilter(s) == IF toServer[s] = <<>> THEN served[s] ELSE toServer[s][Len(toServer[s])]

FilterInStep ==
    ws # NoSocket => (state[ws] = "open" => LastFilter(ws) = wanted)

(* The indicator never shows a connection that has ended, or misses one    *)
(* that is there (ws.ts:35-42, Layout.tsx:97-99).                          *)
IndicatorTrue ==
    ws # NoSocket =>
        /\ state[ws] = "closed" => ~wsConnected
        /\ state[ws] = "open" => wsConnected

(* A user who stays logged in gets a connection on which the server knows  *)
(* the filter, however often the connection was lost (ws.ts:100-106).      *)
Streaming ==
    /\ ws # NoSocket /\ state[ws] = "open"
    /\ toServer[ws] = <<>> /\ served[ws] = wanted

Recovers == [](key => <>(~key \/ Streaming))
=============================================================================
