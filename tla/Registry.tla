------------------------------ MODULE Registry ------------------------------
(***************************************************************************)
(* The live registry of clients and sessions (internal/session.Manager),   *)
(* the rows of the SQLite database it creates and reloads, and the REST    *)
(* handlers that delete, edit and create them (internal/api).              *)
(*                                                                         *)
(* Handle and the Manager's methods hold the mutex m.mu; the REST handlers *)
(* read and write the database without it.  A step of the model is one     *)
(* access to the database, with the accesses to the maps that go with it   *)
(* under the mutex, or one critical section without database access.       *)
(*                                                                         *)
(* Names, counters, times and status are left out: they decide none of the *)
(* control modelled here.                                                  *)
(***************************************************************************)
EXTENDS Integers, FiniteSets

CONSTANTS
    Ips,            \* the addresses of the clients
    Ports,          \* the ports, all of them positive
    ClientIds,      \* the ids that newID draws for clients
    SessionIds,     \* the ids that newID draws for sessions
    Names,          \* the ids that clients give to sessions themselves
    Messages,       \* the messages: [transport, claims, ip, port, sid]
    Callers,        \* the goroutines of the REST handlers
    Edited,         \* the sessions that users rename or give a port
    Edits,          \* the ports that users give to sessions
    PortsCollide,   \* may a random port be that of a row of the database?
    Restarts,       \* may the process be killed and started again?
    None            \* no id, no row, no message

ASSUME NoneAssumption ==
    None \notin Ips \cup Ports \cup ClientIds \cup SessionIds \cup Names
ASSUME NamesAssumption == Names \cap SessionIds = {}

Sids == SessionIds \cup Names
Protocols == {"tcp", "udp", "http"}

ASSUME EditsAssumption == Edited \subseteq Sids /\ Edits \subseteq Ports

ASSUME MessagesAssumption ==
    Messages \subseteq [transport : Protocols, claims : {"", "tcp", "udp"},
                        ip : Ips, port : Ports, sid : Sids \cup {None}]

Session == [client : ClientIds, ip : Ips, port : Ports, protocol : Protocols]
ASSUME NoRowAssumption == None \notin Session

Keys == Ips \X Ports \X Protocols
keyOf(ss) == <<ss.ip, ss.port, ss.protocol>>

VARIABLES
    clients,    \* address -> id of the live client (clients, clientIDs)
    owned,      \* address -> the sessions of the live client (cs.sessions)
    sessions,   \* id -> live session
    keyIndex,   \* address, port, protocol -> id
    dbClients,  \* id -> address of the row
    dbSessions, \* id -> row
    mu,         \* the mutex, or how far the Handle that holds it has come
    work,       \* the local variables of that Handle
    call,       \* the REST call of each goroutine and its local variables
    issued      \* history: the ids that newID has drawn

memory == <<clients, owned, sessions, keyIndex>>
disk == <<dbClients, dbSessions>>
vars == <<memory, disk, mu, work, call, issued>>

NoWork == [msg |-> None, client |-> None, sid |-> None, session |-> None]
Idle == [pc |-> "idle", sid |-> None, client |-> None, ip |-> None,
         port |-> None, todo |-> {}]

Init ==
    /\ clients = [ip \in Ips |-> None]
    /\ owned = [ip \in Ips |-> {}]
    /\ sessions = [s \in Sids |-> None]
    /\ keyIndex = [k \in Keys |-> None]
    /\ dbClients = [id \in ClientIds |-> None]
    /\ dbSessions = [s \in Sids |-> None]
    /\ mu = "free"
    /\ work = NoWork
    /\ call = [c \in Callers |-> Idle]
    /\ issued = {}

-----------------------------------------------------------------------------
(* The statements of the database.  An insert that meets a row with the    *)
(* same address or key updates times and status only, and one that meets   *)
(* a row with the same id fails; both leave the identity of the rows alone.*)

(* Mutation of SessionRows: the protocol is not part of the key.           *)
SessionRowsAnyProtocol(key) ==
    {s \in Sids : /\ dbSessions[s] # None
                  /\ dbSessions[s].ip = key[1] /\ dbSessions[s].port = key[2]}

ClientRows(ip) == {id \in ClientIds : dbClients[id] = ip}
SessionRows(key) ==
    {s \in Sids : dbSessions[s] # None /\ keyOf(dbSessions[s]) = key}

UpsertClient(id, ip) ==
    dbClients' = IF ClientRows(ip) = {} /\ dbClients[id] = None
                 THEN [dbClients EXCEPT ![id] = ip] ELSE dbClients

UpsertSession(s, ss) ==
    dbSessions' = IF SessionRows(keyOf(ss)) = {} /\ dbSessions[s] = None
                  THEN [dbSessions EXCEPT ![s] = ss] ELSE dbSessions

(* UPDATE ... WHERE id: refused when another row has the key.              *)
UpdateRow(s, port) ==
    dbSessions' =
        IF dbSessions[s] # None
            /\ SessionRows(keyOf([dbSessions[s] EXCEPT !.port = port])) \subseteq {s}
        THEN [dbSessions EXCEPT ![s].port = port] ELSE dbSessions

(* Mutation of RowOrNew: the row is not looked up.                         *)
AlwaysNew(rows, ids) == ids \ issued

(* newID, kept only when the database has no row to reuse.                 *)
RowOrNew(rows, ids) == IF rows # {} THEN rows ELSE ids \ issued

(* Mutations of RandomPorts: the range begins at zero; the port may be in  *)
(* use by a live session.                                                  *)
RandomPortsFromZero(ip, protocol) == {0}
RandomPortsInUse(ip, protocol) == Ports

(* randomPortLocked tries ports until one is not in keyIndex, at most 100  *)
(* times; it does not look at the rows.                                    *)
RandomPorts(ip, protocol) ==
    LET Free == {p \in Ports : keyIndex[<<ip, p, protocol>>] = None}
        Unused == {p \in Free : SessionRows(<<ip, p, protocol>>) = {}}
    IN  IF ~PortsCollide THEN Unused ELSE IF Free # {} THEN Free ELSE Ports

-----------------------------------------------------------------------------
(* Handle.                                                                 *)

protocolOf(m) == IF m.claims = "" THEN m.transport ELSE m.claims

(* The bound on messages: an id must be left for each that may be drawn.   *)
IdsLeft(m) ==
    /\ clients[m.ip] # None \/ ~(ClientIds \subseteq issued)
    /\ \/ m.sid # None \/ keyIndex[<<m.ip, m.port, protocolOf(m)>>] # None
       \/ ~(SessionIds \subseteq issued)

(* ensureClientLocked: the client is live, or its row is looked up.        *)
Lock(m) ==
    /\ mu = "free" /\ IdsLeft(m)
    /\ m.sid \in {None} \cup Names \cup issued
    /\ IF clients[m.ip] # None
       THEN /\ mu' = "session"
            /\ work' = [NoWork EXCEPT !.msg = m, !.client = clients[m.ip]]
            /\ UNCHANGED issued
       ELSE \E id \in RowOrNew(ClientRows(m.ip), ClientIds) :
            /\ mu' = "client"
            /\ work' = [NoWork EXCEPT !.msg = m, !.client = id]
            /\ issued' = issued \cup {id}
    /\ UNCHANGED <<memory, disk, call>>

NewClient ==
    /\ mu = "client"
    /\ clients' = [clients EXCEPT ![work.msg.ip] = work.client]
    /\ owned' = [owned EXCEPT ![work.msg.ip] = {}]
    /\ UpsertClient(work.client, work.msg.ip)
    /\ mu' = "session"
    /\ UNCHANGED <<sessions, keyIndex, dbSessions, work, call, issued>>

Unlock == mu' = "free" /\ work' = NoWork

(* The session of the message is live: Handle has only counters to touch.  *)
Found ==
    /\ mu = "session"
    /\ IF work.msg.sid # None
       THEN sessions[work.msg.sid] # None
       ELSE LET s == keyIndex[<<work.msg.ip, work.msg.port, protocolOf(work.msg)>>]
            IN  s # None /\ sessions[s] # None
    /\ Unlock
    /\ UNCHANGED <<memory, disk, call, issued>>

Prepare(s, ss) ==
    /\ mu' = "upsert"
    /\ work' = [work EXCEPT !.sid = s, !.session = ss]
    /\ issued' = issued \cup ({s} \cap SessionIds)
    /\ UNCHANGED <<memory, disk, call>>

(* ensureSessionLocked: a session for an address, port and protocol.       *)
LoadKeyed ==
    LET m == work.msg
        key == <<m.ip, m.port, protocolOf(m)>>
    IN  /\ mu = "session" /\ m.sid = None /\ keyIndex[key] = None
        /\ \E s \in RowOrNew(SessionRows(key), SessionIds) :
             Prepare(s, [client |-> work.client, ip |-> m.ip, port |-> m.port,
                         protocol |-> protocolOf(m)])

(* ensureNamedSessionLocked: the session that the message names.           *)
LoadNamed ==
    LET m == work.msg
    IN  /\ mu = "session" /\ m.sid # None /\ sessions[m.sid] = None
        /\ IF dbSessions[m.sid] # None
           THEN Prepare(m.sid, dbSessions[m.sid])
           ELSE \E p \in RandomPorts(m.ip, protocolOf(m)) :
                Prepare(m.sid, [client |-> work.client, ip |-> m.ip, port |-> p,
                                protocol |-> protocolOf(m)])

(* The session enters the maps and the database.                           *)
Enter(s, ss) ==
    /\ sessions' = [sessions EXCEPT ![s] = ss]
    /\ keyIndex' = [keyIndex EXCEPT ![keyOf(ss)] = s]
    /\ owned' = [owned EXCEPT ![ss.ip] =
                    IF clients[ss.ip] # None THEN @ \cup {s} ELSE @]
    /\ UpsertSession(s, ss)

NewSession ==
    /\ mu = "upsert"
    /\ Enter(work.sid, work.session)
    /\ Unlock
    /\ UNCHANGED <<clients, dbClients, call, issued>>

-----------------------------------------------------------------------------
(* keyIndex leads to no session: nil is dereferenced under the mutex.      *)

Dangling(key) == keyIndex[key] # None /\ sessions[keyIndex[key]] = None

(* The process ends and starts again with what the database holds.         *)
Restart ==
    /\ clients' = [ip \in Ips |-> None]
    /\ owned' = [ip \in Ips |-> {}]
    /\ sessions' = [s \in Sids |-> None]
    /\ keyIndex' = [k \in Keys |-> None]
    /\ mu' = "free" /\ work' = NoWork
    /\ call' = [c \in Callers |-> Idle]
    /\ UNCHANGED <<disk, issued>>

(* In the goroutine of a TCP connection the deferred Close waits for the   *)
(* mutex for ever, and net/http recovers the panic of a REST call: either  *)
(* way the mutex stays locked.  The UDP loop takes the process down.       *)
Panic ==
    /\ mu = "session" /\ work.msg.sid = None
    /\ Dangling(<<work.msg.ip, work.msg.port, protocolOf(work.msg)>>)
    /\ IF work.msg.transport = "udp"
       THEN Restart
       ELSE mu' = "wedged" /\ UNCHANGED <<memory, disk, work, call, issued>>

(* Close, when a TCP connection ends: it marks the session closed, and the *)
(* same nil takes the process down.                                        *)
ClosePanics ==
    /\ mu = "free"
    /\ \E m \in Messages : m.transport = "tcp" /\ Dangling(<<m.ip, m.port, "tcp">>)
    /\ Restart

Kill == Restarts /\ Restart

-----------------------------------------------------------------------------
(* The REST calls.                                                         *)

Goto(c, pc) == call' = [call EXCEPT ![c].pc = pc]
Return(c) == call' = [call EXCEPT ![c] = Idle]
At(c, pc) == call[c].pc = pc

(* Mutations of RemoveSession: the client keeps the session; the index     *)
(* keeps its key.                                                          *)
RemoveSessionKeepsOwned(s) ==
    IF sessions[s] = None THEN UNCHANGED memory
    ELSE /\ keyIndex' = [keyIndex EXCEPT ![keyOf(sessions[s])] = None]
         /\ sessions' = [sessions EXCEPT ![s] = None]
         /\ UNCHANGED <<clients, owned>>

RemoveSessionKeepsKey(s) ==
    IF sessions[s] = None THEN UNCHANGED memory
    ELSE /\ sessions' = [sessions EXCEPT ![s] = None]
         /\ owned' = [owned EXCEPT ![sessions[s].ip] = @ \ {s}]
         /\ UNCHANGED <<clients, keyIndex>>

(* RemoveSession.                                                          *)
RemoveSession(s) ==
    IF sessions[s] = None THEN UNCHANGED memory
    ELSE /\ keyIndex' = [keyIndex EXCEPT ![keyOf(sessions[s])] = None]
         /\ sessions' = [sessions EXCEPT ![s] = None]
         /\ owned' = [owned EXCEPT ![sessions[s].ip] = @ \ {s}]
         /\ UNCHANGED clients

(* RemoveClient.                                                           *)
RemoveClient(id) ==
    LET mine == {ip \in Ips : clients[ip] = id}
        gone == UNION {owned[ip] : ip \in mine}
        keys == {keyOf(sessions[s]) : s \in {s \in gone : sessions[s] # None}}
    IN  /\ keyIndex' = [k \in Keys |-> IF k \in keys THEN None ELSE keyIndex[k]]
        /\ sessions' = [s \in Sids |-> IF s \in gone THEN None ELSE sessions[s]]
        /\ clients' = [ip \in Ips |-> IF ip \in mine THEN None ELSE clients[ip]]
        /\ owned' = [ip \in Ips |-> IF ip \in mine THEN {} ELSE owned[ip]]

(* deleteSession: the row exists; delete it; then drop the live session.   *)
DeleteSession(c, s) ==
    /\ At(c, "idle") /\ dbSessions[s] # None
    /\ call' = [call EXCEPT ![c] = [Idle EXCEPT !.pc = "delete row", !.sid = s]]
    /\ UNCHANGED <<memory, disk, mu, work, issued>>

DeleteSessionRow(c) ==
    /\ At(c, "delete row")
    /\ dbSessions' = [dbSessions EXCEPT ![call[c].sid] = None]
    /\ Goto(c, "remove session")
    /\ UNCHANGED <<memory, dbClients, mu, work, issued>>

DeleteSessionLive(c) ==
    /\ At(c, "remove session") /\ mu = "free"
    /\ RemoveSession(call[c].sid)
    /\ Return(c)
    /\ UNCHANGED <<disk, mu, work, issued>>

(* deleteConnection: the client's row exists; list the rows of its         *)
(* sessions; delete each; delete the client's row; drop the live client.   *)
DeleteConnection(c, id) ==
    /\ At(c, "idle") /\ dbClients[id] # None
    /\ call' = [call EXCEPT ![c] = [Idle EXCEPT !.pc = "list", !.client = id]]
    /\ UNCHANGED <<memory, disk, mu, work, issued>>

ListSessions(c) ==
    LET rows == {s \in Sids : dbSessions[s] # None /\ dbSessions[s].client = call[c].client}
    IN  /\ At(c, "list")
        /\ call' = [call EXCEPT ![c].pc = "delete rows", ![c].todo = rows]
        /\ UNCHANGED <<memory, disk, mu, work, issued>>

DeleteListedRow(c) ==
    /\ At(c, "delete rows")
    /\ \E s \in call[c].todo :
         /\ dbSessions' = [dbSessions EXCEPT ![s] = None]
         /\ call' = [call EXCEPT ![c].todo = @ \ {s}]
    /\ UNCHANGED <<memory, dbClients, mu, work, issued>>

DeleteClientRow(c) ==
    /\ At(c, "delete rows") /\ call[c].todo = {}
    /\ dbClients' = [dbClients EXCEPT ![call[c].client] = None]
    /\ Goto(c, "remove client")
    /\ UNCHANGED <<memory, dbSessions, mu, work, issued>>

DeleteClientLive(c) ==
    /\ At(c, "remove client") /\ mu = "free"
    /\ RemoveClient(call[c].client)
    /\ Return(c)
    /\ UNCHANGED <<disk, mu, work, issued>>

(* updateSession: look the session up, live or in the database; without a  *)
(* port in the request it keeps the one found.  UpdateSession then changes *)
(* the maps under the mutex and the row after releasing it.                *)
Update(c, s) ==
    LET sess == IF sessions[s] # None THEN sessions[s] ELSE dbSessions[s]
    IN  /\ At(c, "idle") /\ mu = "free" /\ sess # None
        /\ \E p \in Edits \cup {sess.port} :
             call' = [call EXCEPT ![c] =
                        [Idle EXCEPT !.pc = "update", !.sid = s, !.port = p]]
        /\ UNCHANGED <<memory, disk, mu, work, issued>>

UpdateLive(c) ==
    LET s == call[c].sid
        old == sessions[s]
        new == [old EXCEPT !.port = call[c].port]
    IN  /\ At(c, "update") /\ mu = "free"
        /\ IF old = None THEN UNCHANGED <<sessions, keyIndex>>
           ELSE /\ sessions' = [sessions EXCEPT ![s] = new]
                /\ keyIndex' = [keyIndex EXCEPT ![keyOf(old)] = None, ![keyOf(new)] = s]
        /\ Goto(c, "update row")
        /\ UNCHANGED <<clients, owned, disk, mu, work, issued>>

UpdateSessionRow(c) ==
    /\ At(c, "update row")
    /\ UpdateRow(call[c].sid, call[c].port)
    /\ Return(c)
    /\ UNCHANGED <<memory, dbClients, mu, work, issued>>

(* createSession: the client is live or has a row; CreateNamedSession      *)
(* gives it a session with a new id and a random port.                     *)
Create(c, id) ==
    /\ At(c, "idle") /\ mu = "free"
    /\ \E ip \in Ips :
         /\ clients[ip] = id \/ dbClients[id] = ip
         /\ call' = [call EXCEPT ![c] =
                        [Idle EXCEPT !.pc = "create", !.client = id, !.ip = ip]]
    /\ UNCHANGED <<memory, disk, mu, work, issued>>

CreateNamedSession(c) ==
    /\ At(c, "create") /\ mu = "free"
    /\ \E s \in SessionIds \ issued, p \in RandomPorts(call[c].ip, "http") :
         /\ Enter(s, [client |-> call[c].client, ip |-> call[c].ip, port |-> p,
                      protocol |-> "http"])
         /\ issued' = issued \cup {s}
    /\ Return(c)
    /\ UNCHANGED <<clients, dbClients, mu, work>>

-----------------------------------------------------------------------------
Handle == NewClient \/ Found \/ LoadKeyed \/ LoadNamed \/ NewSession \/ Panic

StartCall(c) ==
    \/ \E s \in Sids : DeleteSession(c, s)
    \/ \E s \in Edited : Update(c, s)
    \/ \E id \in ClientIds : DeleteConnection(c, id) \/ Create(c, id)

Rest(c) ==
    \/ DeleteSessionRow(c) \/ DeleteSessionLive(c)
    \/ ListSessions(c) \/ DeleteListedRow(c) \/ DeleteClientRow(c) \/ DeleteClientLive(c)
    \/ UpdateLive(c) \/ UpdateSessionRow(c)
    \/ CreateNamedSession(c)

Next ==
    \/ \E m \in Messages : Lock(m)
    \/ Handle
    \/ ClosePanics \/ Kill
    \/ \E c \in Callers : StartCall(c) \/ Rest(c)

Spec == Init /\ [][Next]_vars
-----------------------------------------------------------------------------
TypeOK ==
    /\ clients \in [Ips -> ClientIds \cup {None}]
    /\ owned \in [Ips -> SUBSET Sids]
    /\ sessions \in [Sids -> Session \cup {None}]
    /\ keyIndex \in [Keys -> Sids \cup {None}]
    /\ dbClients \in [ClientIds -> Ips \cup {None}]
    /\ dbSessions \in [Sids -> Session \cup {None}]
    /\ mu \in {"free", "client", "session", "upsert", "wedged"}
    /\ work \in [msg : Messages \cup {None}, client : ClientIds \cup {None},
                 sid : Sids \cup {None}, session : Session \cup {None}]
    /\ call \in [Callers -> [pc : {"idle", "delete row", "remove session", "list",
                                  "delete rows", "remove client", "update",
                                  "update row", "create"},
                             sid : Sids \cup {None}, client : ClientIds \cup {None},
                             ip : Ips \cup {None}, port : Ports \cup {None},
                             todo : SUBSET Sids]]
    /\ issued \subseteq ClientIds \cup SessionIds

(* A client has one identity: two addresses never share a live id, and     *)
(* while a client is live no row gives its address another id, whatever is *)
(* deleted, recreated or reloaded in between (manager.go:167-191).         *)
ClientIdentity ==
    /\ \A i, j \in Ips : clients[i] = clients[j] /\ clients[i] # None => i = j
    /\ \A ip \in Ips : clients[ip] # None => ClientRows(ip) \subseteq {clients[ip]}

(* cs.sessions lists live sessions of its own address only, so RemoveClient*)
(* drops no session of another client (manager.go:342-364).                *)
OwnedSessionsLive ==
    \A ip \in Ips : \A s \in owned[ip] :
        clients[ip] # None /\ sessions[s] # None /\ sessions[s].ip = ip

(* A live session and its row agree on the address and the protocol.       *)
RowMatchesLive ==
    \A s \in Sids : sessions[s] # None /\ dbSessions[s] # None =>
        /\ sessions[s].ip = dbSessions[s].ip
        /\ sessions[s].protocol = dbSessions[s].protocol

(* keyIndex is exactly the index of the live sessions by address, port and *)
(* protocol (manager.go:48): every entry leads to a live session with that *)
(* key and every live session is found under its key.                      *)
IndexExact ==
    \A k \in Keys, s \in Sids :
        keyIndex[k] = s <=> sessions[s] # None /\ keyOf(sessions[s]) = k

(* A session that becomes live has its row: without one it is in no list   *)
(* and is lost by a restart.  "randomPortLocked picks an unused high port" *)
(* (manager.go:193-272,296).                                               *)
NewSessionPersisted ==
    [][\A s \in Sids : sessions[s] = None /\ sessions'[s] # None
            => dbSessions'[s] # None]_vars
=============================================================================
