----------------------------- MODULE PageServer -----------------------------
(***************************************************************************)
(* The server as the pages see it: connections, sessions and their ports,  *)
(* which messages, this browser and others create, change and remove.  What*)
(* a request does to the registry and the database is Registry's matter;   *)
(* here it is one step.                                                    *)
(***************************************************************************)
EXTENDS Naturals

CONSTANTS
    Connections,
    Sessions,
    Initially,      \* the sessions there are at first
    ConnectionOf,   \* session -> the connection it belongs to
    Ports,          \* valid ports
    MaxElsewhere    \* bound: how much happens that the user did not do

ASSUME InitiallyAssumption == Initially \subseteq Sessions
ASSUME ConnectionOfAssumption == ConnectionOf \in [Sessions -> Connections]
ASSUME MaxElsewhereAssumption == MaxElsewhere \in Nat

VARIABLES
    known,          \* the connections
    stored,         \* the sessions
    fresh,          \* the sessions that have never been
    port,           \* session -> its port
    elsewhere       \* how much has happened elsewhere

server == <<known, stored, fresh, port>>

SessionRow(s) == [id |-> s, port |-> port[s]]

(* getSessions, of one connection or of all.                               *)
SessionsOf(c) == {s \in stored : ConnectionOf[s] = c}
RowsOf(c) == {SessionRow(s) : s \in SessionsOf(c)}

Elsewhere == elsewhere < MaxElsewhere /\ elsewhere' = elsewhere + 1

(* createSession, or a message that opens a session: the id is new.        *)
Create(s) ==
    /\ s \in fresh
    /\ fresh' = fresh \ {s}
    /\ stored' = stored \cup {s}
    /\ known' = known \cup {ConnectionOf[s]}
    /\ UNCHANGED port

DeleteSession(s) ==
    /\ stored' = stored \ {s}
    /\ UNCHANGED <<known, fresh, port>>

DeleteConnection(c) ==
    /\ stored' = stored \ SessionsOf(c)
    /\ known' = known \ {c}
    /\ UNCHANGED <<fresh, port>>

(* updateSession: a number that is no port leaves the port as it is.       *)
UpdateSession(s, p) ==
    /\ port' = IF s \in stored /\ p \in Ports THEN [port EXCEPT ![s] = p] ELSE port
    /\ UNCHANGED <<known, stored, fresh>>

(* Messages, and other browsers.                                           *)
SessionElsewhere(s) ==
    /\ Elsewhere
    /\ \/ Create(s)
       \/ s \in stored /\ DeleteSession(s)
=============================================================================
