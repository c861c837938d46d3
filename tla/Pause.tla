-------------------------------- MODULE Pause --------------------------------
(***************************************************************************)
(* Pausing the system.  The server keeps the gate that the listeners and   *)
(* the HTTP ingest look at, and a setting from which a restart restores it;*)
(* a request changes the gate, then the setting, then tells every browser  *)
(* that is connected (internal/api, internal/state, main).  A browser shows*)
(* a flag of its own: set by its own button before the server has answered *)
(* (Layout.tsx), by the events (ws.ts) and by the settings it reads when   *)
(* the page is loaded (App.tsx).                                           *)
(*                                                                         *)
(* Requests run in goroutines of their own and share no lock.              *)
(***************************************************************************)
EXTENDS Naturals, Sequences

CONSTANTS
    Browsers,
    MaxCalls,       \* bound: how many times a pause button is pressed
    MaxFaults       \* bound: lost connections, lost requests, restarts,
                    \* reloads and failed writes of the database

ASSUME MaxCallsAssumption == MaxCalls \in Nat
ASSUME MaxFaultsAssumption == MaxFaults \in Nat

Calls == 1..MaxCalls

VARIABLES
    gate,           \* Gate.paused
    setting,        \* is the setting "paused" equal to "true"?
    pc,             \* call -> "none", "sent", "gate", "setting", "done"
    value,          \* call -> body.Paused
    paused,         \* browser -> paused of the store
    link,           \* browser -> is its WebSocket open?
    inbox,          \* browser -> the events on their way to it
    load,           \* browser -> "asked", "idle", or the answer "true" or "false"
    faults,         \* how many faults have happened
    overlapped,     \* history: have two calls been at work at a time?
    spoilt,         \* history: did a write fail, or a restart cut a call off?
    acked,          \* history: the value of the last call that was answered
    heard           \* history: the browsers whose flag is what an event said

server == <<gate, setting, pc, value>>
browser == <<paused, link, inbox, load>>
history == <<overlapped, spoilt, acked, heard>>
vars == <<server, browser, faults, history>>

AtWork(c) == pc[c] \in {"gate", "setting"}

(* Init: the system was started, and the pages are being loaded.           *)
Init ==
    /\ gate \in BOOLEAN
    /\ setting = gate
    /\ pc = [c \in Calls |-> "none"]
    /\ value = [c \in Calls |-> FALSE]
    /\ paused = [b \in Browsers |-> FALSE]
    /\ link = [b \in Browsers |-> FALSE]
    /\ inbox = [b \in Browsers |-> <<>>]
    /\ load = [b \in Browsers |-> "asked"]
    /\ faults = 0
    /\ overlapped = FALSE
    /\ spoilt = FALSE
    /\ acked = gate
    /\ heard = {}

-----------------------------------------------------------------------------
(* The browser.                                                            *)

(* The button: the flag is turned at once, the request follows.            *)
Toggle(b) ==
    \E c \in Calls :
        /\ pc[c] = "none" /\ \A d \in Calls : d < c => pc[d] # "none"
        /\ paused' = [paused EXCEPT ![b] = ~paused[b]]
        /\ value' = [value EXCEPT ![c] = ~paused[b]]
        /\ pc' = [pc EXCEPT ![c] = "sent"]
        /\ heard' = heard \ {b}
        /\ UNCHANGED <<gate, setting, link, inbox, load, faults, overlapped, spoilt, acked>>

onmessage(b) ==
    /\ link[b] /\ inbox[b] # <<>>
    /\ paused' = [paused EXCEPT ![b] = Head(inbox[b])]
    /\ inbox' = [inbox EXCEPT ![b] = Tail(@)]
    /\ heard' = heard \cup {b}
    /\ UNCHANGED <<server, link, load, faults, overlapped, spoilt, acked>>

(* The answer of getSettings can set the flag, and never clears it.        *)
Loaded(b) ==
    /\ load[b] \in {"true", "false"}
    /\ paused' = [paused EXCEPT ![b] = @ \/ load[b] = "true"]
    /\ load' = [load EXCEPT ![b] = "idle"]
    /\ heard' = IF load[b] = "true" THEN heard \ {b} ELSE heard
    /\ UNCHANGED <<server, link, inbox, faults, overlapped, spoilt, acked>>

(* The page is loaded again: a new store, a new socket.                    *)
Reload(b) ==
    /\ faults < MaxFaults
    /\ faults' = faults + 1
    /\ paused' = [paused EXCEPT ![b] = FALSE]
    /\ link' = [link EXCEPT ![b] = FALSE]
    /\ inbox' = [inbox EXCEPT ![b] = <<>>]
    /\ load' = [load EXCEPT ![b] = "asked"]
    /\ heard' = heard \ {b}
    /\ UNCHANGED <<server, overlapped, spoilt, acked>>

(* The socket, which reconnects by itself; the flag stays as it is.        *)
LinkOpens(b) ==
    /\ ~link[b]
    /\ link' = [link EXCEPT ![b] = TRUE]
    /\ UNCHANGED <<server, paused, inbox, load, faults, history>>

LinkLost(b) ==
    /\ link[b] /\ faults < MaxFaults
    /\ faults' = faults + 1
    /\ link' = [link EXCEPT ![b] = FALSE]
    /\ inbox' = [inbox EXCEPT ![b] = <<>>]
    /\ heard' = heard \ {b}
    /\ UNCHANGED <<server, paused, load, overlapped, spoilt, acked>>

-----------------------------------------------------------------------------
(* The server.                                                             *)

(* gate.Pause or gate.Resume.                                              *)
SetGate(c) ==
    /\ pc[c] = "sent"
    /\ gate' = value[c]
    /\ pc' = [pc EXCEPT ![c] = "gate"]
    /\ overlapped' = (overlapped \/ \E d \in Calls : AtWork(d))
    /\ UNCHANGED <<setting, value, browser, faults, spoilt, acked, heard>>

(* The request does not arrive; the browser does not look.                 *)
CallLost(c) ==
    /\ pc[c] = "sent" /\ faults < MaxFaults
    /\ faults' = faults + 1
    /\ pc' = [pc EXCEPT ![c] = "done"]
    /\ UNCHANGED <<gate, setting, value, browser, history>>

(* SetSetting, whose error is dropped.                                     *)
SetSetting(c) ==
    /\ pc[c] = "gate"
    /\ pc' = [pc EXCEPT ![c] = "setting"]
    /\ \/ setting' = value[c] /\ UNCHANGED <<faults, spoilt>>
       \/ /\ faults < MaxFaults
          /\ faults' = faults + 1 /\ spoilt' = TRUE
          /\ UNCHANGED setting
    /\ UNCHANGED <<gate, value, browser, overlapped, acked, heard>>

(* Mutation of Broadcast: what is sent is the setting, read back.          *)
BroadcastSetting(c) ==
    /\ pc[c] = "setting"
    /\ pc' = [pc EXCEPT ![c] = "done"]
    /\ inbox' = [b \in Browsers |->
            IF link[b] THEN Append(inbox[b], setting) ELSE inbox[b]]
    /\ heard' = heard \cap {b \in Browsers : link[b]}
    /\ acked' = value[c]
    /\ UNCHANGED <<gate, setting, value, paused, link, load, faults, overlapped, spoilt>>

(* Broadcast, and the answer.                                              *)
Broadcast(c) ==
    /\ pc[c] = "setting"
    /\ pc' = [pc EXCEPT ![c] = "done"]
    /\ inbox' = [b \in Browsers |->
            IF link[b] THEN Append(inbox[b], value[c]) ELSE inbox[b]]
    /\ heard' = heard \cap {b \in Browsers : link[b]}
    /\ acked' = value[c]
    /\ UNCHANGED <<gate, setting, value, paused, link, load, faults, overlapped, spoilt>>

(* getSettings.                                                            *)
GetSettings(b) ==
    /\ load[b] = "asked"
    /\ load' = [load EXCEPT ![b] = IF setting THEN "true" ELSE "false"]
    /\ UNCHANGED <<server, paused, link, inbox, faults, history>>

(* Mutation of Restart: the gate begins open.                              *)
RestartOpen ==
    /\ faults < MaxFaults
    /\ faults' = faults + 1
    /\ gate' = FALSE
    /\ pc' = [c \in Calls |-> IF pc[c] = "none" THEN "none" ELSE "done"]
    /\ spoilt' = (spoilt \/ \E c \in Calls : AtWork(c))
    /\ link' = [b \in Browsers |-> FALSE]
    /\ inbox' = [b \in Browsers |-> <<>>]
    /\ load' = [b \in Browsers |-> IF load[b] = "asked" THEN "idle" ELSE load[b]]
    /\ heard' = {}
    /\ UNCHANGED <<setting, value, paused, overlapped, acked>>

(* The process is stopped or killed, with the requests it was working on,  *)
(* and started again: the gate is what the setting says.                   *)
Restart ==
    /\ faults < MaxFaults
    /\ faults' = faults + 1
    /\ gate' = setting
    /\ pc' = [c \in Calls |-> IF pc[c] = "none" THEN "none" ELSE "done"]
    /\ spoilt' = (spoilt \/ \E c \in Calls : AtWork(c))
    /\ link' = [b \in Browsers |-> FALSE]
    /\ inbox' = [b \in Browsers |-> <<>>]
    /\ load' = [b \in Browsers |-> IF load[b] = "asked" THEN "idle" ELSE load[b]]
    /\ heard' = {}
    /\ UNCHANGED <<setting, value, paused, overlapped, acked>>

Next ==
    \/ \E b \in Browsers : \/ Toggle(b) \/ onmessage(b) \/ Loaded(b) \/ Reload(b)
                           \/ LinkOpens(b) \/ LinkLost(b) \/ GetSettings(b)
    \/ \E c \in Calls : SetGate(c) \/ CallLost(c) \/ SetSetting(c) \/ Broadcast(c)
    \/ Restart

Spec == Init /\ [][Next]_vars
-----------------------------------------------------------------------------
TypeOK ==
    /\ gate \in BOOLEAN /\ setting \in BOOLEAN /\ acked \in BOOLEAN
    /\ overlapped \in BOOLEAN /\ spoilt \in BOOLEAN
    /\ pc \in [Calls -> {"none", "sent", "gate", "setting", "done"}]
    /\ value \in [Calls -> BOOLEAN]
    /\ paused \in [Browsers -> BOOLEAN]
    /\ link \in [Browsers -> BOOLEAN]
    /\ inbox \in [Browsers -> Seq(BOOLEAN)]
    /\ load \in [Browsers -> {"asked", "idle", "true", "false"}]
    /\ faults \in 0..MaxFaults
    /\ heard \subseteq Browsers

(* The server has no call under way.                                       *)
Quiet == \A c \in Calls : ~AtWork(c)

(* What the last answered request said is what the gate is, also after any *)
(* number of restarts, as long as requests did not overlap and no write    *)
(* failed (api.go:761-778, main.go:99-103).                                *)
PauseSurvives == Quiet /\ ~overlapped /\ ~spoilt => gate = acked /\ setting = acked

(* A browser that was told by an event, and has not pressed the button or  *)
(* lost its connection since, shows what the gate is once the events on    *)
(* their way have arrived (ws.ts:46-52).                                   *)
HeardIsTrue ==
    \A b \in Browsers :
        Quiet /\ ~overlapped /\ inbox[b] = <<>> /\ b \in heard => paused[b] = gate
=============================================================================
