--------------------------- MODULE RegistryProofs ---------------------------
(***************************************************************************)
(* Theorems about the registry, for any addresses, ports, ids, messages    *)
(* and REST calls, with restarts.                                          *)
(***************************************************************************)
EXTENDS Registry, TLAPS

(* What a Handle and a REST call have put into their local variables.      *)
WorkOK ==
    /\ mu \in {"client", "session", "upsert", "wedged"} =>
           work.msg \in Messages /\ work.client \in ClientIds
    /\ mu = "upsert" => work.sid \in Sids /\ work.session \in Session

OfSession == {"delete row", "remove session", "update", "update row"}
OfClient == {"list", "delete rows", "remove client", "create"}
Updating(c) == call[c].pc \in {"update", "update row"}

CallOK ==
    \A c \in Callers :
        /\ call[c].pc \in OfSession => call[c].sid \in Sids
        /\ call[c].pc \in OfClient => call[c].client \in ClientIds
        /\ At(c, "create") => call[c].ip \in Ips
        /\ Updating(c) => call[c].port \in Ports

TypeInv == TypeOK /\ WorkOK /\ CallOK

-----------------------------------------------------------------------------
(* The ids of clients: an id in use was drawn, no row gives a live client's*)
(* id to another address, and no two rows have one address.                *)
LiveIds ==
    \A ip \in Ips : clients[ip] # None =>
        clients[ip] \in issued /\ dbClients[clients[ip]] \in {None, ip}
RowIds ==
    /\ \A id \in ClientIds : dbClients[id] # None => id \in issued
    /\ \A i, j \in ClientIds : dbClients[i] = dbClients[j] /\ dbClients[i] # None => i = j

(* The id that Handle is about to give to an address is nobody else's.     *)
ChosenId ==
    mu = "client" =>
        /\ clients[work.msg.ip] = None
        /\ work.client \in issued
        /\ dbClients[work.client] \in {None, work.msg.ip}
        /\ ClientRows(work.msg.ip) \subseteq {work.client}
        /\ \A ip \in Ips : clients[ip] # work.client

ClientInv == ClientIdentity /\ LiveIds /\ RowIds /\ ChosenId

-----------------------------------------------------------------------------
(* The ids of sessions in use were drawn.                                  *)
SessionIdsDrawn ==
    /\ \A s \in SessionIds : sessions[s] # None \/ dbSessions[s] # None => s \in issued
    /\ mu = "upsert" /\ work.sid \in SessionIds => work.sid \in issued

(* What Handle is about to enter is what is there under its id.            *)
EntersSame ==
    mu = "upsert" =>
        /\ sessions[work.sid] # None => sessions[work.sid].ip = work.session.ip
        /\ dbSessions[work.sid] # None =>
               /\ dbSessions[work.sid].ip = work.session.ip
               /\ dbSessions[work.sid].protocol = work.session.protocol

SessionInv == RowMatchesLive /\ OwnedSessionsLive /\ SessionIdsDrawn /\ EntersSame

-----------------------------------------------------------------------------
(* Users give no ports, a random port is not that of a row, and a rename,  *)
(* which writes back the port it found, overlaps with no other REST call.  *)
PortsKept ==
    /\ Edits = {} /\ ~PortsCollide
    /\ Edited = {} \/ \E c \in Callers : Callers = {c}

(* A row has the key of its live session and of no other.                  *)
RowKeys ==
    /\ \A s, t \in Sids :
           dbSessions[s] # None /\ dbSessions[t] # None
           /\ keyOf(dbSessions[s]) = keyOf(dbSessions[t]) => s = t
    /\ \A s, t \in Sids :
           sessions[s] # None /\ dbSessions[t] # None =>
               (keyOf(sessions[s]) = keyOf(dbSessions[t]) <=> s = t)

(* What Handle is about to enter takes a key that is free.                 *)
EntersFree ==
    mu = "upsert" =>
        /\ sessions[work.sid] = None
        /\ keyIndex[keyOf(work.session)] = None
        /\ SessionRows(keyOf(work.session)) \subseteq {work.sid}
        /\ dbSessions[work.sid] # None => keyOf(dbSessions[work.sid]) = keyOf(work.session)

(* A rename is alone, and its session is there with the port it found.     *)
RenameKeeps ==
    \A c \in Callers : Updating(c) =>
        LET s == call[c].sid
        IN  /\ Callers = {c}
            /\ sessions[s] # None \/ dbSessions[s] # None
            /\ sessions[s] # None => sessions[s].port = call[c].port
            /\ dbSessions[s] # None => dbSessions[s].port = call[c].port
            /\ mu = "upsert" /\ work.sid = s => work.session.port = call[c].port

IndexInv == IndexExact /\ RowKeys /\ EntersFree /\ RenameKeeps
-----------------------------------------------------------------------------
(* Types.                                                                  *)

LEMMA MessageFields ==
    ASSUME NEW m \in Messages
    PROVE  /\ m.transport \in Protocols /\ m.ip \in Ips /\ m.port \in Ports
           /\ m.sid \in Sids \cup {None}
           /\ protocolOf(m) \in Protocols
           /\ <<m.ip, m.port, protocolOf(m)>> \in Keys
BY MessagesAssumption DEF Protocols, protocolOf, Keys

LEMMA SessionFields ==
    ASSUME NEW ss \in Session
    PROVE  /\ ss.ip \in Ips /\ ss.port \in Ports /\ ss.protocol \in Protocols
           /\ ss.client \in ClientIds
           /\ keyOf(ss) \in Keys
           /\ \A p \in Ports : [ss EXCEPT !.port = p] \in Session
BY DEF Session, keyOf, Keys

LEMMA RestartTypes == ASSUME TypeInv, Restart PROVE TypeInv'
BY DEF TypeInv, TypeOK, WorkOK, CallOK, Restart, disk, NoWork, Idle, OfSession, OfClient,
       Updating, At

(* A step of Handle leaves the REST calls alone, and the other way round.  *)
LEMMA CallsUnchanged == ASSUME TypeInv, UNCHANGED call PROVE CallOK'
BY DEF TypeInv, CallOK, OfSession, OfClient, Updating, At

LEMMA LockTypes == ASSUME TypeInv, NEW m \in Messages, Lock(m) PROVE TypeInv'
<1>1. m.ip \in Ips
  BY MessageFields
<1>2. CASE clients[m.ip] # None
  <2>1. clients[m.ip] \in ClientIds
    BY <1>1, <1>2 DEF TypeInv, TypeOK
  <2> QED
    BY <1>2, <2>1, CallsUnchanged
    DEF TypeInv, TypeOK, WorkOK, Lock, NoWork, memory, disk
<1>3. CASE clients[m.ip] = None
  <2>1. PICK id \in RowOrNew(ClientRows(m.ip), ClientIds) :
            /\ mu' = "client"
            /\ work' = [NoWork EXCEPT !.msg = m, !.client = id]
            /\ issued' = issued \cup {id}
    BY <1>3 DEF Lock
  <2>2. id \in ClientIds
    BY <2>1 DEF RowOrNew, ClientRows
  <2> QED
    BY <2>1, <2>2, CallsUnchanged
    DEF TypeInv, TypeOK, WorkOK, Lock, NoWork, memory, disk
<1> QED
  BY <1>2, <1>3

LEMMA EnterTypes ==
    ASSUME TypeInv, NEW s \in Sids, NEW ss \in Session, Enter(s, ss)
    PROVE  /\ owned' \in [Ips -> SUBSET Sids]
           /\ sessions' \in [Sids -> Session \cup {None}]
           /\ keyIndex' \in [Keys -> Sids \cup {None}]
           /\ dbSessions' \in [Sids -> Session \cup {None}]
BY SessionFields DEF TypeInv, TypeOK, Enter, UpsertSession

LEMMA PrepareTypes ==
    ASSUME TypeInv, mu = "session", NEW s \in Sids, NEW ss \in Session, Prepare(s, ss)
    PROVE  TypeInv'
BY CallsUnchanged DEF TypeInv, TypeOK, WorkOK, Prepare, memory, disk

LEMMA RandomPortsArePorts ==
    ASSUME NEW ip, NEW protocol
    PROVE  RandomPorts(ip, protocol) \subseteq Ports
BY DEF RandomPorts

(* What a Load found or made up is prepared.                               *)
LEMMA LoadKeyedCases ==
    ASSUME TypeInv, LoadKeyed
    PROVE  \E s \in Sids, ss \in Session :
              /\ ss = [client |-> work.client, ip |-> work.msg.ip, port |-> work.msg.port,
                       protocol |-> protocolOf(work.msg)]
              /\ keyIndex[keyOf(ss)] = None
              /\ \/ s \in SessionRows(keyOf(ss))
                 \/ SessionRows(keyOf(ss)) = {} /\ s \in SessionIds \ issued
              /\ Prepare(s, ss)
<1> DEFINE m == work.msg
           ss == [client |-> work.client, ip |-> m.ip, port |-> m.port,
                  protocol |-> protocolOf(m)]
<1>1. m \in Messages /\ work.client \in ClientIds
  BY DEF TypeInv, WorkOK, LoadKeyed
<1>2. m.ip \in Ips /\ m.port \in Ports /\ protocolOf(m) \in Protocols
  BY <1>1, MessageFields
<1>3. ss \in Session /\ keyOf(ss) = <<m.ip, m.port, protocolOf(m)>>
  BY <1>1, <1>2 DEF Session, keyOf
<1> HIDE DEF ss
<1>4. /\ keyIndex[keyOf(ss)] = None
      /\ \E s \in RowOrNew(SessionRows(keyOf(ss)), SessionIds) : Prepare(s, ss)
  BY <1>3, Zenon DEF LoadKeyed, ss
<1>5. PICK s \in RowOrNew(SessionRows(keyOf(ss)), SessionIds) : Prepare(s, ss)
  BY <1>4
<1>6. /\ \/ s \in SessionRows(keyOf(ss))
         \/ SessionRows(keyOf(ss)) = {} /\ s \in SessionIds \ issued
      /\ s \in Sids
  BY <1>5 DEF RowOrNew, SessionRows, Sids
<1> QED
  BY <1>3, <1>4, <1>5, <1>6 DEF ss

LEMMA LoadNamedCases ==
    ASSUME TypeInv, LoadNamed
    PROVE  \E s \in Sids, ss \in Session :
              /\ s = work.msg.sid
              /\ sessions[s] = None
              /\ \/ dbSessions[s] = ss /\ ss # None
                 \/ /\ dbSessions[s] = None
                    /\ ss.port \in RandomPorts(ss.ip, ss.protocol)
              /\ Prepare(s, ss)
<1> DEFINE m == work.msg
           new(p) == [client |-> work.client, ip |-> m.ip, port |-> p,
                      protocol |-> protocolOf(m)]
<1>1. m \in Messages /\ work.client \in ClientIds
  BY DEF TypeInv, WorkOK, LoadNamed
<1>2. m.ip \in Ips /\ protocolOf(m) \in Protocols /\ m.sid \in Sids
  BY <1>1, MessageFields DEF LoadNamed
<1>3. sessions[m.sid] = None
  BY DEF LoadNamed
<1>4. CASE dbSessions[m.sid] # None
  <2>1. dbSessions[m.sid] \in Session /\ Prepare(m.sid, dbSessions[m.sid])
    BY <1>2, <1>4 DEF LoadNamed, TypeInv, TypeOK
  <2> QED
    BY <1>2, <1>3, <1>4, <2>1
<1>5. CASE dbSessions[m.sid] = None
  <2>1. PICK p \in RandomPorts(m.ip, protocolOf(m)) : Prepare(m.sid, new(p))
    BY <1>5 DEF LoadNamed
  <2>2. p \in Ports
    BY <2>1, RandomPortsArePorts
  <2>3. /\ new(p) \in Session /\ new(p).port = p /\ new(p).ip = m.ip
        /\ new(p).protocol = protocolOf(m)
    BY <1>1, <1>2, <2>2 DEF Session
  <2> HIDE DEF new
  <2> QED
    BY <1>2, <1>3, <1>5, <2>1, <2>3
<1> QED
  BY <1>4, <1>5

LEMMA NewClientTypes == ASSUME TypeInv, NewClient PROVE TypeInv'
<1>1. work.msg.ip \in Ips /\ work.client \in ClientIds
  BY MessageFields DEF TypeInv, WorkOK, NewClient
<1>2. /\ clients' \in [Ips -> ClientIds \cup {None}]
      /\ owned' \in [Ips -> SUBSET Sids]
      /\ dbClients' \in [ClientIds -> Ips \cup {None}]
  BY <1>1 DEF TypeInv, TypeOK, NewClient, UpsertClient
<1> QED
  BY <1>2, CallsUnchanged DEF TypeInv, TypeOK, WorkOK, NewClient

LEMMA HandleTypes == ASSUME TypeInv, Handle PROVE TypeInv'
<1>1. CASE Found
  BY <1>1, CallsUnchanged
  DEF TypeInv, TypeOK, WorkOK, Found, Unlock, NoWork, memory, disk
<1>2. CASE LoadKeyed
  <2>1. PICK s \in Sids, ss \in Session : Prepare(s, ss)
    BY <1>2, LoadKeyedCases
  <2> QED
    BY <1>2, <2>1, PrepareTypes DEF LoadKeyed
<1>3. CASE LoadNamed
  <2>1. PICK s \in Sids, ss \in Session : Prepare(s, ss)
    BY <1>3, LoadNamedCases
  <2> QED
    BY <1>3, <2>1, PrepareTypes DEF LoadNamed
<1>4. CASE NewSession
  <2>1. /\ owned' \in [Ips -> SUBSET Sids]
        /\ sessions' \in [Sids -> Session \cup {None}]
        /\ keyIndex' \in [Keys -> Sids \cup {None}]
        /\ dbSessions' \in [Sids -> Session \cup {None}]
    BY <1>4, EnterTypes DEF NewSession, TypeInv, WorkOK
  <2> QED
    BY <1>4, <2>1, CallsUnchanged
    DEF TypeInv, TypeOK, WorkOK, NewSession, Unlock, NoWork
<1>5. CASE Panic
  <2>1. CASE work.msg.transport = "udp"
    BY <1>5, <2>1, RestartTypes DEF Panic
  <2>2. CASE work.msg.transport # "udp"
    BY <1>5, <2>2, CallsUnchanged DEF Panic, TypeInv, TypeOK, WorkOK, memory, disk
  <2> QED
    BY <2>1, <2>2
<1> QED
  BY <1>1, <1>2, <1>3, <1>4, <1>5, NewClientTypes DEF Handle

(* The records of the REST calls.                                          *)
Call == [pc : {"idle", "delete row", "remove session", "list", "delete rows",
               "remove client", "update", "update row", "create"},
         sid : Sids \cup {None}, client : ClientIds \cup {None},
         ip : Ips \cup {None}, port : Ports \cup {None}, todo : SUBSET Sids]

CallFits(d) ==
    /\ d \in Call
    /\ d.pc \in OfSession => d.sid \in Sids
    /\ d.pc \in OfClient => d.client \in ClientIds
    /\ d.pc = "create" => d.ip \in Ips
    /\ d.pc \in {"update", "update row"} => d.port \in Ports

LEMMA CallsFit ==
    ASSUME TypeInv, NEW c \in Callers
    PROVE  CallFits(call[c])
BY DEF TypeInv, TypeOK, CallOK, CallFits, Call, Updating, At

LEMMA CallTypes ==
    ASSUME TypeInv, NEW c \in Callers, NEW d, CallFits(d), call' = [call EXCEPT ![c] = d]
    PROVE  call' \in [Callers -> Call] /\ CallOK'
<1>1. call \in [Callers -> Call] /\ \A e \in Callers : CallFits(call[e])
  BY CallsFit DEF TypeInv, TypeOK, Call
<1>2. \A e \in Callers : call'[e] = IF e = c THEN d ELSE call[e]
  BY <1>1
<1>3. \A e \in Callers : CallFits(call'[e])
  BY <1>1, <1>2
<1> QED
  BY <1>1, <1>3 DEF CallFits, CallOK, Updating, At

(* The end of a call.                                                      *)
LEMMA IdleFits == CallFits(Idle)
BY DEF CallFits, Call, Idle, OfSession, OfClient

(* Starting a call: its record is built from Idle.                         *)
LEMMA StartTypes ==
    ASSUME TypeInv, NEW c \in Callers, StartCall(c)
    PROVE  TypeInv'
<1> DEFINE D(d) == call' = [call EXCEPT ![c] = d] /\ CallFits(d)
<1>1. /\ UNCHANGED <<memory, disk, mu, work, issued>>
      /\ \E d : D(d)
  <2> USE DEF CallFits, Call, Idle, OfSession, OfClient
  <2>1. ASSUME NEW s \in Sids, DeleteSession(c, s)
        PROVE  UNCHANGED <<memory, disk, mu, work, issued>> /\ \E d : D(d)
    <3>1. D([Idle EXCEPT !.pc = "delete row", !.sid = s])
      BY <2>1 DEF DeleteSession
    <3> QED
      BY <2>1, <3>1, Zenon DEF DeleteSession
  <2>2. ASSUME NEW s \in Edited, Update(c, s)
        PROVE  UNCHANGED <<memory, disk, mu, work, issued>> /\ \E d : D(d)
    <3> DEFINE sess == IF sessions[s] # None THEN sessions[s] ELSE dbSessions[s]
    <3>1. s \in Sids
      BY EditsAssumption
    <3>2. sess \in Session
      BY <2>2, <3>1 DEF Update, TypeInv, TypeOK
    <3>3. PICK p \in Edits \cup {sess.port} :
            call' = [call EXCEPT ![c] = [Idle EXCEPT !.pc = "update", !.sid = s, !.port = p]]
      BY <2>2, Zenon DEF Update
    <3>4. p \in Ports
      BY <3>2, <3>3, EditsAssumption, SessionFields
    <3>5. D([Idle EXCEPT !.pc = "update", !.sid = s, !.port = p])
      BY <3>1, <3>3, <3>4
    <3> QED
      BY <2>2, <3>5, Zenon DEF Update
  <2>3. ASSUME NEW id \in ClientIds, DeleteConnection(c, id)
        PROVE  UNCHANGED <<memory, disk, mu, work, issued>> /\ \E d : D(d)
    <3>1. D([Idle EXCEPT !.pc = "list", !.client = id])
      BY <2>3 DEF DeleteConnection
    <3> QED
      BY <2>3, <3>1, Zenon DEF DeleteConnection
  <2>4. ASSUME NEW id \in ClientIds, Create(c, id)
        PROVE  UNCHANGED <<memory, disk, mu, work, issued>> /\ \E d : D(d)
    <3>1. PICK ip \in Ips :
            call' = [call EXCEPT ![c] = [Idle EXCEPT !.pc = "create", !.client = id, !.ip = ip]]
      BY <2>4, Zenon DEF Create
    <3>2. D([Idle EXCEPT !.pc = "create", !.client = id, !.ip = ip])
      BY <3>1
    <3> QED
      BY <2>4, <3>2, Zenon DEF Create
  <2> QED
    BY <2>1, <2>2, <2>3, <2>4, Zenon DEF StartCall
<1>2. PICK d : D(d)
  BY <1>1
<1>3. call' \in [Callers -> Call] /\ CallOK'
  BY <1>2, CallTypes
<1>4. TypeOK'
  BY <1>1, <1>3 DEF TypeInv, TypeOK, Call, memory, disk
<1>5. WorkOK'
  BY <1>1 DEF TypeInv, WorkOK
<1> QED
  BY <1>3, <1>4, <1>5 DEF TypeInv

(* What a call does to the maps and the rows.                              *)
LEMMA RestTypes ==
    ASSUME TypeInv, NEW c \in Callers, Rest(c)
    PROVE  TypeInv'
<1> DEFINE Data == /\ clients' \in [Ips -> ClientIds \cup {None}]
                   /\ owned' \in [Ips -> SUBSET Sids]
                   /\ sessions' \in [Sids -> Session \cup {None}]
                   /\ keyIndex' \in [Keys -> Sids \cup {None}]
                   /\ dbClients' \in [ClientIds -> Ips \cup {None}]
                   /\ dbSessions' \in [Sids -> Session \cup {None}]
                   /\ mu' = mu /\ work' = work
                   /\ issued' \subseteq ClientIds \cup SessionIds
           Goes == \E d : CallFits(d) /\ call' = [call EXCEPT ![c] = d]
<1>1. CallFits(call[c])
  BY CallsFit
<1>2. ASSUME Return(c) PROVE Goes
  BY <1>2, IdleFits DEF Return
<1>3. ASSUME NEW pc, Goto(c, pc), CallFits([call[c] EXCEPT !.pc = pc]) PROVE Goes
  BY <1>3, Zenon DEF Goto
<1>4. ASSUME DeleteSessionRow(c) PROVE Data /\ Goes
  <2>1. Data
    BY <1>4 DEF DeleteSessionRow, TypeInv, TypeOK, memory
  <2>2. CallFits([call[c] EXCEPT !.pc = "remove session"])
    BY <1>1, <1>4 DEF DeleteSessionRow, CallFits, Call, At, OfSession, OfClient
  <2> QED
    BY <1>3, <1>4, <2>1, <2>2 DEF DeleteSessionRow
<1>5. ASSUME DeleteSessionLive(c) PROVE Data /\ Goes
  <2>1. Data
    <3>1. CASE sessions[call[c].sid] = None
      BY <1>5, <3>1 DEF DeleteSessionLive, RemoveSession, TypeInv, TypeOK, memory, disk
    <3>2. CASE sessions[call[c].sid] # None
      <4> DEFINE s == call[c].sid
      <4>1. /\ keyIndex' = [keyIndex EXCEPT ![keyOf(sessions[s])] = None]
            /\ sessions' = [sessions EXCEPT ![s] = None]
            /\ owned' = [owned EXCEPT ![sessions[s].ip] = @ \ {s}]
            /\ UNCHANGED <<clients, disk, mu, work, issued>>
        BY <1>5, <3>2 DEF DeleteSessionLive, RemoveSession
      <4> QED
        BY <4>1 DEF TypeInv, TypeOK, disk
    <3> QED
      BY <3>1, <3>2
  <2> QED
    BY <1>2, <1>5, <2>1 DEF DeleteSessionLive
<1>6. ASSUME ListSessions(c) PROVE Data /\ Goes
  <2>1. Data
    BY <1>6 DEF ListSessions, TypeInv, TypeOK, memory, disk
  <2>2. PICK rows \in SUBSET Sids :
          call' = [call EXCEPT ![c] = [call[c] EXCEPT !.pc = "delete rows", !.todo = rows]]
    BY <1>6 DEF ListSessions, TypeInv, TypeOK
  <2>3. CallFits([call[c] EXCEPT !.pc = "delete rows", !.todo = rows])
    BY <1>1, <1>6 DEF ListSessions, CallFits, Call, At, OfSession, OfClient
  <2> QED
    BY <2>1, <2>2, <2>3
<1>7. ASSUME DeleteListedRow(c) PROVE Data /\ Goes
  <2>1. Data
    BY <1>7 DEF DeleteListedRow, TypeInv, TypeOK, memory
  <2>2. PICK s \in call[c].todo :
          call' = [call EXCEPT ![c] = [call[c] EXCEPT !.todo = @ \ {s}]]
    BY <1>7 DEF DeleteListedRow, TypeInv, TypeOK
  <2>3. CallFits([call[c] EXCEPT !.todo = @ \ {s}])
    BY <1>1, <1>7 DEF DeleteListedRow, CallFits, Call, At
  <2> QED
    BY <2>1, <2>2, <2>3
<1>8. ASSUME DeleteClientRow(c) PROVE Data /\ Goes
  <2>1. Data
    BY <1>8 DEF DeleteClientRow, TypeInv, TypeOK, memory
  <2>2. CallFits([call[c] EXCEPT !.pc = "remove client"])
    BY <1>1, <1>8 DEF DeleteClientRow, CallFits, Call, At, OfSession, OfClient
  <2> QED
    BY <1>3, <1>8, <2>1, <2>2 DEF DeleteClientRow
<1>9. ASSUME DeleteClientLive(c) PROVE Data /\ Goes
  <2>1. Data
    BY <1>9 DEF DeleteClientLive, RemoveClient, TypeInv, TypeOK, disk
  <2> QED
    BY <1>2, <1>9, <2>1 DEF DeleteClientLive
<1>10. ASSUME UpdateLive(c) PROVE Data /\ Goes
  <2>1. call[c].sid \in Sids /\ call[c].port \in Ports
    BY <1>1, <1>10 DEF UpdateLive, CallFits, At, OfSession
  <2>2. Data
    <3>1. CASE sessions[call[c].sid] = None
      BY <1>10, <3>1 DEF UpdateLive, TypeInv, TypeOK, disk
    <3>2. CASE sessions[call[c].sid] # None
      <4>1. [sessions[call[c].sid] EXCEPT !.port = call[c].port] \in Session
        BY <2>1, <3>2, SessionFields DEF TypeInv, TypeOK
      <4> QED
        BY <1>10, <2>1, <3>2, <4>1 DEF UpdateLive, TypeInv, TypeOK, disk
    <3> QED
      BY <3>1, <3>2
  <2>3. CallFits([call[c] EXCEPT !.pc = "update row"])
    BY <1>1, <1>10 DEF UpdateLive, CallFits, Call, At, OfSession, OfClient
  <2> QED
    BY <1>3, <1>10, <2>2, <2>3 DEF UpdateLive
<1>11. ASSUME UpdateSessionRow(c) PROVE Data /\ Goes
  <2>1. call[c].sid \in Sids /\ call[c].port \in Ports
    BY <1>1, <1>11 DEF UpdateSessionRow, CallFits, At, OfSession
  <2>2. dbSessions' \in [Sids -> Session \cup {None}]
    <3>1. CASE dbSessions[call[c].sid] = None
      BY <1>11, <3>1 DEF UpdateSessionRow, UpdateRow, TypeInv, TypeOK
    <3>2. CASE dbSessions[call[c].sid] # None
      <4>1. [dbSessions[call[c].sid] EXCEPT !.port = call[c].port] \in Session
        BY <2>1, <3>2, SessionFields DEF TypeInv, TypeOK
      <4>2. dbSessions' \in {dbSessions, [dbSessions EXCEPT ![call[c].sid].port = call[c].port]}
        BY <1>11, Zenon DEF UpdateSessionRow, UpdateRow
      <4> QED
        BY <2>1, <4>1, <4>2 DEF TypeInv, TypeOK
    <3> QED
      BY <3>1, <3>2
  <2>3. Data
    BY <1>11, <2>2 DEF UpdateSessionRow, TypeInv, TypeOK, memory
  <2> QED
    BY <1>2, <1>11, <2>3 DEF UpdateSessionRow
<1>12. ASSUME CreateNamedSession(c) PROVE Data /\ Goes
  <2>1. call[c].client \in ClientIds /\ call[c].ip \in Ips
    BY <1>1, <1>12 DEF CreateNamedSession, CallFits, At, OfClient
  <2>2. PICK s \in SessionIds \ issued, p \in RandomPorts(call[c].ip, "http") :
          /\ Enter(s, [client |-> call[c].client, ip |-> call[c].ip, port |-> p,
                       protocol |-> "http"])
          /\ issued' = issued \cup {s}
    BY <1>12 DEF CreateNamedSession
  <2>3. [client |-> call[c].client, ip |-> call[c].ip, port |-> p,
         protocol |-> "http"] \in Session
    BY <2>1, RandomPortsArePorts DEF Session, Protocols
  <2>4. /\ owned' \in [Ips -> SUBSET Sids]
        /\ sessions' \in [Sids -> Session \cup {None}]
        /\ keyIndex' \in [Keys -> Sids \cup {None}]
        /\ dbSessions' \in [Sids -> Session \cup {None}]
    BY <2>2, <2>3, EnterTypes DEF Sids
  <2>5. Data
    BY <1>12, <2>2, <2>4 DEF CreateNamedSession, TypeInv, TypeOK
  <2> QED
    BY <1>2, <1>12, <2>5 DEF CreateNamedSession
<1>13. Data /\ Goes
  BY <1>4, <1>5, <1>6, <1>7, <1>8, <1>9, <1>10, <1>11, <1>12 DEF Rest
<1>14. call' \in [Callers -> Call] /\ CallOK'
  BY <1>13, CallTypes
<1>15. TypeOK'
  BY <1>13, <1>14 DEF TypeInv, TypeOK, Call
<1>16. WorkOK'
  BY <1>13 DEF TypeInv, WorkOK
<1> QED
  BY <1>14, <1>15, <1>16 DEF TypeInv

LEMMA TypeInvHolds == Spec => []TypeInv
<1>1. Init => TypeInv
  <2> SUFFICES ASSUME Init PROVE TypeInv
    OBVIOUS
  <2>1. call \in [Callers -> Call] /\ CallOK
    <3>1. \A c \in Callers : CallFits(call[c])
      BY IdleFits DEF Init
    <3> QED
      BY <3>1 DEF Init, CallFits, CallOK, Updating, At
  <2>2. work \in [msg : Messages \cup {None}, client : ClientIds \cup {None},
                  sid : Sids \cup {None}, session : Session \cup {None}]
    BY DEF Init, NoWork
  <2> QED
    BY <2>1, <2>2 DEF Init, TypeInv, TypeOK, WorkOK, Call
<1>2. TypeInv /\ [Next]_vars => TypeInv'
  <2> SUFFICES ASSUME TypeInv, [Next]_vars PROVE TypeInv'
    OBVIOUS
  <2>1. CASE UNCHANGED vars
    BY <2>1, CallsUnchanged DEF vars, memory, disk, TypeInv, TypeOK, WorkOK
  <2>2. CASE ClosePanics \/ Kill
    BY <2>2, RestartTypes DEF ClosePanics, Kill
  <2> QED
    BY <2>1, <2>2, LockTypes, HandleTypes, StartTypes, RestTypes DEF Next
<1> QED
  BY <1>1, <1>2, PTL DEF Spec

(* The types of the maps, the rows and what the calls carry, with messages *)
(* of any transport and calls that overlap (manager.go, api.go).           *)
THEOREM TypeCorrect == Spec => []TypeOK
BY TypeInvHolds, PTL DEF TypeInv

-----------------------------------------------------------------------------
(* The identity of clients.                                                *)

LEMMA ClientFrame ==
    ASSUME TypeInv, ClientInv, UNCHANGED <<clients, dbClients>>, issued \subseteq issued',
           mu' = "client" => UNCHANGED <<mu, work>>
    PROVE  ClientInv'
BY DEF TypeInv, TypeOK, ClientInv, ClientIdentity, LiveIds, RowIds, ChosenId, ClientRows

LEMMA ClientRestart == ASSUME TypeInv, ClientInv, Restart PROVE ClientInv'
BY DEF TypeInv, TypeOK, ClientInv, ClientIdentity, LiveIds, RowIds, ChosenId, Restart, disk

(* The id that is chosen has a row of the address, or is new.              *)
LEMMA ClientLock == ASSUME TypeInv, ClientInv, NEW m \in Messages, Lock(m) PROVE ClientInv'
<1>1. m.ip \in Ips
  BY MessageFields
<1>2. CASE clients[m.ip] # None
  BY <1>2, ClientFrame DEF Lock, memory, disk
<1>3. CASE clients[m.ip] = None
  <2>1. PICK id \in RowOrNew(ClientRows(m.ip), ClientIds) :
            /\ mu' = "client"
            /\ work' = [NoWork EXCEPT !.msg = m, !.client = id]
            /\ issued' = issued \cup {id}
    BY <1>3 DEF Lock
  <2>2. UNCHANGED <<clients, dbClients>>
    BY DEF Lock, memory, disk
  <2>3. work'.msg = m /\ work'.client = id
    BY <2>1 DEF NoWork
  <2>4. /\ id \in ClientIds
        /\ dbClients[id] \in {None, m.ip}
        /\ ClientRows(m.ip) \subseteq {id}
        /\ \A ip \in Ips : clients[ip] # id
    <3>1. CASE ClientRows(m.ip) # {}
      <4>1. id \in ClientIds /\ dbClients[id] = m.ip
        BY <2>1, <3>1 DEF RowOrNew, ClientRows
      <4>2. m.ip # None
        BY <1>1, NoneAssumption
      <4>3. ClientRows(m.ip) \subseteq {id}
        BY <4>1, <4>2 DEF ClientInv, RowIds, ClientRows
      <4>4. \A ip \in Ips : clients[ip] # id
        <5> SUFFICES ASSUME NEW ip \in Ips, clients[ip] = id PROVE FALSE
          OBVIOUS
        <5>1. id # None
          BY <4>1, NoneAssumption
        <5>2. dbClients[id] \in {None, ip}
          BY <5>1 DEF ClientInv, LiveIds
        <5> QED
          BY <1>3, <4>1, <4>2, <5>1, <5>2
      <4> QED
        BY <4>1, <4>3, <4>4
    <3>2. CASE ClientRows(m.ip) = {}
      <4>1. id \in ClientIds /\ id \notin issued
        BY <2>1, <3>2 DEF RowOrNew
      <4>2. dbClients[id] = None /\ \A ip \in Ips : clients[ip] # id
        BY <4>1, NoneAssumption DEF ClientInv, RowIds, LiveIds
      <4> QED
        BY <3>2, <4>1, <4>2
    <3> QED
      BY <3>1, <3>2
  <2>5. ChosenId'
    BY <1>3, <2>1, <2>2, <2>3, <2>4 DEF ChosenId, ClientRows
  <2> QED
    BY <2>1, <2>2, <2>5 DEF ClientInv, ClientIdentity, LiveIds, RowIds, ClientRows
<1> QED
  BY <1>2, <1>3

LEMMA ClientNew == ASSUME TypeInv, ClientInv, NewClient PROVE ClientInv'
<1> DEFINE ip == work.msg.ip
           id == work.client
<1>1. ip \in Ips /\ id \in ClientIds /\ ip # None /\ id # None
  BY MessageFields, NoneAssumption DEF TypeInv, WorkOK, NewClient
<1>2. /\ clients[ip] = None /\ id \in issued
      /\ dbClients[id] \in {None, ip}
      /\ ClientRows(ip) \subseteq {id}
      /\ \A j \in Ips : clients[j] # id
  BY DEF ClientInv, ChosenId, NewClient
<1>3. clients' = [clients EXCEPT ![ip] = id] /\ issued' = issued /\ mu' = "session"
  BY DEF NewClient
<1>4. \A j \in Ips : clients'[j] = IF j = ip THEN id ELSE clients[j]
  BY <1>3 DEF TypeInv, TypeOK
<1>5. \/ dbClients' = dbClients
      \/ /\ ClientRows(ip) = {} /\ dbClients[id] = None
         /\ dbClients' = [dbClients EXCEPT ![id] = ip]
  BY DEF NewClient, UpsertClient
<1>6. \A i \in ClientIds : dbClients'[i] = dbClients[i] \/ (i = id /\ dbClients'[i] = ip)
  BY <1>5 DEF TypeInv, TypeOK
<1>7. \A i, j \in Ips : clients'[i] = clients'[j] /\ clients'[i] # None => i = j
  BY <1>2, <1>4 DEF ClientInv, ClientIdentity
<1>8. \A i \in ClientIds : dbClients'[i] = ip => i = id
  BY <1>2, <1>6 DEF ClientRows
<1>9. \A j \in Ips : clients'[j] # None => ClientRows(j)' \subseteq {clients'[j]}
  BY <1>1, <1>4, <1>6, <1>8 DEF ClientInv, ClientIdentity, ClientRows
<1>10. LiveIds'
  BY <1>1, <1>2, <1>3, <1>4, <1>6 DEF ClientInv, LiveIds, TypeInv, TypeOK
<1>11. RowIds'
  BY <1>1, <1>2, <1>3, <1>6, <1>8 DEF ClientInv, RowIds
<1>12. ChosenId'
  BY <1>3 DEF ChosenId
<1> QED
  BY <1>7, <1>9, <1>10, <1>11, <1>12 DEF ClientInv, ClientIdentity

LEMMA ClientRest == ASSUME TypeInv, ClientInv, NEW c \in Callers, Rest(c) PROVE ClientInv'
<1>1. CASE DeleteClientRow(c)
  <2>1. /\ dbClients' = [dbClients EXCEPT ![call[c].client] = None]
        /\ UNCHANGED <<clients, mu, work, issued>>
    BY <1>1 DEF DeleteClientRow, memory
  <2>2. \A id \in ClientIds : dbClients'[id] \in {None, dbClients[id]}
    BY <2>1 DEF TypeInv, TypeOK
  <2>3. \A ip \in Ips : ClientRows(ip)' \subseteq ClientRows(ip)
    BY <2>2, NoneAssumption DEF ClientRows
  <2>4. mu = "client" => work.client \in ClientIds /\ work.msg.ip \in Ips
    BY MessageFields DEF TypeInv, WorkOK
  <2>5. ClientIdentity'
    BY <2>1, <2>3 DEF ClientInv, ClientIdentity
  <2>6. LiveIds'
    BY <2>1, <2>2 DEF ClientInv, LiveIds, TypeInv, TypeOK
  <2>7. RowIds'
    BY <2>1, <2>2 DEF ClientInv, RowIds
  <2>8. ChosenId'
    BY <2>1, <2>2, <2>3, <2>4 DEF ClientInv, ChosenId
  <2> QED
    BY <2>5, <2>6, <2>7, <2>8 DEF ClientInv
<1>2. CASE DeleteClientLive(c)
  <2>1. /\ UNCHANGED <<dbClients, issued>> /\ mu' = "free"
        /\ \A ip \in Ips : clients'[ip] \in {None, clients[ip]}
    BY <1>2 DEF DeleteClientLive, RemoveClient, disk
  <2> QED
    BY <2>1 DEF ClientInv, ClientIdentity, LiveIds, RowIds, ChosenId, ClientRows
<1>3. CASE CreateNamedSession(c)
  <2>1. UNCHANGED <<clients, dbClients, mu, work>> /\ issued \subseteq issued'
    BY <1>3 DEF CreateNamedSession
  <2> QED
    BY <2>1, ClientFrame
<1>4. CASE \/ DeleteSessionRow(c) \/ DeleteSessionLive(c) \/ ListSessions(c)
           \/ DeleteListedRow(c) \/ UpdateLive(c) \/ UpdateSessionRow(c)
  <2>1. UNCHANGED <<clients, dbClients, mu, work, issued>>
    BY <1>4 DEF DeleteSessionRow, DeleteSessionLive, RemoveSession, ListSessions,
                DeleteListedRow, UpdateLive, UpdateSessionRow, memory, disk
  <2> QED
    BY <2>1, ClientFrame
<1> QED
  BY <1>1, <1>2, <1>3, <1>4 DEF Rest

LEMMA ClientInvHolds == Spec => []ClientInv
<1>1. Init => ClientInv
  BY DEF Init, ClientInv, ClientIdentity, LiveIds, RowIds, ChosenId
<1>2. TypeInv /\ ClientInv /\ [Next]_vars => ClientInv'
  <2> SUFFICES ASSUME TypeInv, ClientInv, [Next]_vars PROVE ClientInv'
    OBVIOUS
  <2>1. CASE UNCHANGED vars
    BY <2>1, ClientFrame DEF vars, memory, disk
  <2>2. CASE Handle
    <3>1. CASE Found \/ LoadKeyed \/ LoadNamed \/ NewSession
      <4>1. UNCHANGED <<clients, dbClients>> /\ issued \subseteq issued' /\ mu' # "client"
        BY <3>1 DEF Found, LoadKeyed, LoadNamed, NewSession, Prepare, Unlock, memory, disk
      <4> QED
        BY <4>1, ClientFrame
    <3>2. CASE Panic
      <4>1. Restart \/ (mu' = "wedged" /\ UNCHANGED <<clients, dbClients, issued>>)
        BY <3>2 DEF Panic, memory, disk
      <4> QED
        BY <4>1, ClientRestart, ClientFrame
    <3> QED
      BY <2>2, <3>1, <3>2, ClientNew DEF Handle
  <2>3. CASE ClosePanics \/ Kill
    BY <2>3, ClientRestart DEF ClosePanics, Kill
  <2>4. ASSUME NEW c \in Callers, StartCall(c) PROVE ClientInv'
    <3>1. UNCHANGED <<clients, dbClients, mu, work, issued>>
      BY <2>4 DEF StartCall, DeleteSession, Update, DeleteConnection, Create, memory, disk
    <3> QED
      BY <3>1, ClientFrame
  <2> QED
    BY <2>1, <2>2, <2>3, <2>4, ClientLock, ClientRest DEF Next
<1> QED
  BY <1>1, <1>2, TypeInvHolds, PTL DEF Spec

(* A client has one identity, though its row is deleted without the mutex  *)
(* while Handle looks it up, reuses its id or draws another                *)
(* (manager.go:167-191).                                                   *)
THEOREM ClientsKnown == Spec => []ClientIdentity
BY ClientInvHolds, PTL DEF ClientInv

-----------------------------------------------------------------------------
(* Sessions, their rows and their owners.                                  *)

LEMMA SessionFrame ==
    ASSUME TypeInv, SessionInv, UNCHANGED <<clients, owned, sessions, dbSessions>>,
           issued \subseteq issued', mu' = "upsert" => UNCHANGED <<mu, work>>
    PROVE  SessionInv'
BY DEF TypeInv, TypeOK, SessionInv, RowMatchesLive, OwnedSessionsLive, SessionIdsDrawn,
       EntersSame

LEMMA SessionRestart == ASSUME TypeInv, SessionInv, Restart PROVE SessionInv'
<1>1. /\ owned' = [ip \in Ips |-> {}]
      /\ sessions' = [s \in Sids |-> None]
      /\ mu' = "free"
      /\ UNCHANGED <<dbSessions, issued>>
  BY DEF Restart, disk
<1>2. OwnedSessionsLive'
  BY <1>1 DEF OwnedSessionsLive
<1>3. RowMatchesLive' /\ EntersSame'
  BY <1>1 DEF RowMatchesLive, EntersSame
<1>4. SessionIdsDrawn'
  BY <1>1 DEF SessionInv, SessionIdsDrawn, Sids
<1> QED
  BY <1>2, <1>3, <1>4 DEF SessionInv

(* A step that enters a session changes nothing about the others.          *)
LEMMA EnterFields ==
    ASSUME TypeInv, NEW s \in Sids, NEW ss \in Session, Enter(s, ss)
    PROVE  /\ \A t \in Sids : sessions'[t] = IF t = s THEN ss ELSE sessions[t]
           /\ \A t \in Sids : t # s => dbSessions'[t] = dbSessions[t]
           /\ dbSessions'[s] = IF SessionRows(keyOf(ss)) = {} /\ dbSessions[s] = None
                               THEN ss ELSE dbSessions[s]
           /\ \A ip \in Ips : owned'[ip] = IF ip = ss.ip /\ clients[ip] # None
                                           THEN owned[ip] \cup {s} ELSE owned[ip]
<1>1. ss.ip \in Ips
  BY SessionFields
<1>2. \A ip \in Ips : owned'[ip] = IF ip = ss.ip /\ clients[ip] # None
                                   THEN owned[ip] \cup {s} ELSE owned[ip]
  BY <1>1 DEF TypeInv, TypeOK, Enter
<1> QED
  BY <1>2 DEF TypeInv, TypeOK, Enter, UpsertSession

LEMMA EnterKeeps ==
    ASSUME TypeInv, SessionInv, NEW s \in Sids, NEW ss \in Session, Enter(s, ss),
           UNCHANGED clients,
           sessions[s] # None => sessions[s].ip = ss.ip,
           dbSessions[s] # None =>
               dbSessions[s].ip = ss.ip /\ dbSessions[s].protocol = ss.protocol
    PROVE  /\ RowMatchesLive' /\ OwnedSessionsLive'
           /\ \A t \in Sids : t # s => /\ sessions'[t] = sessions[t]
                                       /\ dbSessions'[t] = dbSessions[t]
<1>1. ss # None
  BY NoRowAssumption
<1>2. RowMatchesLive'
  BY <1>1, EnterFields DEF SessionInv, RowMatchesLive
<1>3. ASSUME NEW ip \in Ips, NEW t \in owned'[ip]
      PROVE  clients'[ip] # None /\ sessions'[t] # None /\ sessions'[t].ip = ip
  <2>1. t \in Sids
    BY <1>3, EnterTypes
  <2>2. CASE t \in owned[ip]
    <3>1. clients[ip] # None /\ sessions[t] # None /\ sessions[t].ip = ip
      BY <2>2 DEF SessionInv, OwnedSessionsLive
    <3> QED
      BY <1>1, <2>1, <3>1, EnterFields
  <2>3. CASE t \notin owned[ip]
    <3>1. owned'[ip] = IF ip = ss.ip /\ clients[ip] # None
                       THEN owned[ip] \cup {s} ELSE owned[ip]
      BY EnterFields
    <3>2. t = s /\ ip = ss.ip /\ clients[ip] # None
      BY <1>3, <2>3, <3>1
    <3> QED
      BY <1>1, <3>2, EnterFields
  <2> QED
    BY <2>2, <2>3
<1>4. OwnedSessionsLive'
  BY <1>3 DEF OwnedSessionsLive
<1> QED
  BY <1>2, <1>4, EnterFields

(* What a Load prepares is the row of its id, or the id is in nobody's     *)
(* hands.                                                                  *)
LEMMA SessionPrepare ==
    ASSUME TypeInv, SessionInv, mu = "session",
           NEW s \in Sids, NEW ss \in Session, Prepare(s, ss),
           sessions[s] # None => sessions[s].ip = ss.ip,
           dbSessions[s] # None =>
               dbSessions[s].ip = ss.ip /\ dbSessions[s].protocol = ss.protocol
    PROVE  SessionInv'
<1>1. /\ UNCHANGED <<clients, owned, sessions, dbSessions>>
      /\ issued' = issued \cup ({s} \cap SessionIds)
      /\ work' = [work EXCEPT !.sid = s, !.session = ss]
  BY DEF Prepare, memory, disk
<1>2. work'.sid = s /\ work'.session = ss
  BY <1>1 DEF TypeInv, TypeOK
<1>3. SessionIdsDrawn'
  BY <1>1, <1>2 DEF SessionInv, SessionIdsDrawn
<1>4. EntersSame'
  BY <1>1, <1>2 DEF EntersSame
<1> QED
  BY <1>1, <1>3, <1>4 DEF SessionInv, RowMatchesLive, OwnedSessionsLive

LEMMA SessionHandle == ASSUME TypeInv, SessionInv, Handle PROVE SessionInv'
<1>1. CASE Found
  BY <1>1, SessionFrame DEF Found, Unlock, memory, disk
<1>2. CASE LoadKeyed
  <2>1. PICK s \in Sids, ss \in Session :
            /\ keyIndex[keyOf(ss)] = None
            /\ s \in SessionRows(keyOf(ss)) \/ s \in SessionIds \ issued
            /\ Prepare(s, ss)
    BY <1>2, LoadKeyedCases
  <2>2. CASE s \in SessionRows(keyOf(ss))
    <3>1. /\ dbSessions[s] # None /\ dbSessions[s].ip = ss.ip
          /\ dbSessions[s].protocol = ss.protocol
      BY <2>2 DEF SessionRows, keyOf
    <3>2. sessions[s] # None => sessions[s].ip = ss.ip
      BY <3>1 DEF SessionInv, RowMatchesLive
    <3> QED
      BY <1>2, <2>1, <3>1, <3>2, SessionPrepare DEF LoadKeyed
  <2>3. CASE s \in SessionIds \ issued
    <3>1. sessions[s] = None /\ dbSessions[s] = None
      BY <2>3 DEF SessionInv, SessionIdsDrawn
    <3> QED
      BY <1>2, <2>1, <3>1, SessionPrepare DEF LoadKeyed
  <2> QED
    BY <2>1, <2>2, <2>3
<1>3. CASE LoadNamed
  <2>1. PICK s \in Sids, ss \in Session :
            /\ sessions[s] = None
            /\ dbSessions[s] = ss \/ dbSessions[s] = None
            /\ Prepare(s, ss)
    BY <1>3, LoadNamedCases
  <2> QED
    BY <1>3, <2>1, SessionPrepare DEF LoadNamed
<1>4. CASE NewSession
  <2>1. /\ work.sid \in Sids /\ work.session \in Session
        /\ Enter(work.sid, work.session)
        /\ mu = "upsert" /\ mu' = "free"
        /\ UNCHANGED <<clients, issued>>
    BY <1>4 DEF NewSession, Unlock, TypeInv, WorkOK
  <2>2. /\ sessions[work.sid] # None => sessions[work.sid].ip = work.session.ip
        /\ dbSessions[work.sid] # None =>
               /\ dbSessions[work.sid].ip = work.session.ip
               /\ dbSessions[work.sid].protocol = work.session.protocol
    BY <2>1 DEF SessionInv, EntersSame
  <2>3. /\ RowMatchesLive' /\ OwnedSessionsLive'
        /\ \A t \in Sids : t # work.sid => /\ sessions'[t] = sessions[t]
                                           /\ dbSessions'[t] = dbSessions[t]
    BY <2>1, <2>2, EnterKeeps
  <2>4. SessionIdsDrawn'
    BY <2>1, <2>3 DEF SessionInv, SessionIdsDrawn, Sids
  <2>5. EntersSame'
    BY <2>1 DEF EntersSame
  <2> QED
    BY <2>3, <2>4, <2>5 DEF SessionInv
<1>5. CASE Panic
  <2>1. \/ Restart
        \/ mu' = "wedged" /\ UNCHANGED <<clients, owned, sessions, dbSessions, issued>>
    BY <1>5 DEF Panic, memory, disk
  <2> QED
    BY <2>1, SessionRestart, SessionFrame
<1>6. CASE NewClient
  <2>1. /\ mu' = "session"
        /\ clients' = [clients EXCEPT ![work.msg.ip] = work.client]
        /\ owned' = [owned EXCEPT ![work.msg.ip] = {}]
        /\ UNCHANGED <<sessions, dbSessions, issued>>
    BY <1>6 DEF NewClient
  <2>2. \A ip \in Ips : \A s \in owned'[ip] :
            s \in owned[ip] /\ clients'[ip] = clients[ip]
    BY <2>1 DEF TypeInv, TypeOK
  <2>3. OwnedSessionsLive'
    BY <2>1, <2>2 DEF SessionInv, OwnedSessionsLive
  <2> QED
    BY <2>1, <2>3 DEF SessionInv, RowMatchesLive, SessionIdsDrawn, EntersSame
<1> QED
  BY <1>1, <1>2, <1>3, <1>4, <1>5, <1>6 DEF Handle

(* Rows that are deleted, or that keep their addresses and protocols.      *)
LEMMA RowsKept ==
    ASSUME TypeInv, SessionInv, UNCHANGED <<clients, owned, sessions, mu, work, issued>>,
           \A s \in Sids : dbSessions'[s] # None =>
               /\ dbSessions[s] # None
               /\ dbSessions'[s].ip = dbSessions[s].ip
               /\ dbSessions'[s].protocol = dbSessions[s].protocol
    PROVE  SessionInv'
<1>1. RowMatchesLive' /\ OwnedSessionsLive'
  BY DEF SessionInv, RowMatchesLive, OwnedSessionsLive
<1>2. SessionIdsDrawn'
  BY DEF SessionInv, SessionIdsDrawn, Sids
<1>3. EntersSame'
  BY DEF SessionInv, EntersSame, TypeInv, WorkOK
<1> QED
  BY <1>1, <1>2, <1>3 DEF SessionInv

(* A row is written by a rename, which leaves its address and protocol.    *)
LEMMA UpdateRowFields ==
    ASSUME TypeInv, NEW c \in Callers, UpdateSessionRow(c)
    PROVE  /\ UNCHANGED <<clients, owned, sessions, keyIndex, dbClients, mu, work, issued>>
           /\ call[c].sid \in Sids /\ call[c].port \in Ports
           /\ \A s \in Sids : s # call[c].sid => dbSessions'[s] = dbSessions[s]
           /\ LET s == call[c].sid
              IN  \/ dbSessions'[s] = dbSessions[s]
                  \/ /\ dbSessions[s] # None
                     /\ dbSessions'[s] = [dbSessions[s] EXCEPT !.port = call[c].port]
<1>1. call[c].sid \in Sids /\ call[c].port \in Ports
  BY CallsFit DEF UpdateSessionRow, CallFits, At, OfSession
<1>2. \/ dbSessions' = dbSessions
      \/ /\ dbSessions[call[c].sid] # None
         /\ dbSessions' = [dbSessions EXCEPT ![call[c].sid].port = call[c].port]
  BY DEF UpdateSessionRow, UpdateRow
<1> QED
  BY <1>1, <1>2 DEF UpdateSessionRow, memory, TypeInv, TypeOK

(* So is a live session.                                                   *)
LEMMA UpdateLiveFields ==
    ASSUME TypeInv, NEW c \in Callers, UpdateLive(c)
    PROVE  /\ UNCHANGED <<clients, owned, dbClients, dbSessions, mu, work, issued>>
           /\ mu = "free"
           /\ call[c].sid \in Sids /\ call[c].port \in Ports
           /\ \A s \in Sids : s # call[c].sid => sessions'[s] = sessions[s]
           /\ LET s == call[c].sid
              IN  IF sessions[s] = None THEN sessions' = sessions /\ keyIndex' = keyIndex
                  ELSE LET new == [sessions[s] EXCEPT !.port = call[c].port]
                       IN  /\ new \in Session
                           /\ sessions'[s] = new
                           /\ keyIndex' = [keyIndex EXCEPT ![keyOf(sessions[s])] = None,
                                                           ![keyOf(new)] = s]
<1>1. call[c].sid \in Sids /\ call[c].port \in Ports
  BY CallsFit DEF UpdateLive, CallFits, At, OfSession
<1>2. CASE sessions[call[c].sid] = None
  BY <1>1, <1>2 DEF UpdateLive, disk
<1>3. CASE sessions[call[c].sid] # None
  <2> DEFINE s == call[c].sid
             new == [sessions[s] EXCEPT !.port = call[c].port]
  <2>1. /\ sessions' = [sessions EXCEPT ![s] = new]
        /\ keyIndex' = [keyIndex EXCEPT ![keyOf(sessions[s])] = None, ![keyOf(new)] = s]
        /\ UNCHANGED <<clients, owned, dbClients, dbSessions, mu, work, issued>>
        /\ mu = "free"
    BY <1>3 DEF UpdateLive, disk
  <2>2. new \in Session
    BY <1>1, <1>3, SessionFields DEF TypeInv, TypeOK
  <2>3. sessions'[s] = new /\ \A t \in Sids : t # s => sessions'[t] = sessions[t]
    BY <1>1, <2>1 DEF TypeInv, TypeOK
  <2> HIDE DEF new
  <2> QED
    BY <1>1, <1>3, <2>1, <2>2, <2>3 DEF new
<1> QED
  BY <1>2, <1>3

LEMMA PortEdit ==
    ASSUME NEW ss \in Session, NEW p
    PROVE  LET new == [ss EXCEPT !.port = p]
           IN  /\ new.ip = ss.ip /\ new.protocol = ss.protocol /\ new.port = p
               /\ p = ss.port => new = ss
BY DEF Session

(* What a create enters is new.                                            *)
LEMMA CreateFields ==
    ASSUME TypeInv, NEW c \in Callers, CreateNamedSession(c)
    PROVE  \E s \in SessionIds \ issued, ss \in Session :
              /\ Enter(s, ss) /\ issued' = issued \cup {s}
              /\ ss.port \in RandomPorts(ss.ip, ss.protocol)
              /\ mu = "free" /\ UNCHANGED <<clients, dbClients, mu, work>>
<1>1. call[c].client \in ClientIds /\ call[c].ip \in Ips
  BY CallsFit DEF CreateNamedSession, CallFits, At, OfClient
<1>2. PICK s \in SessionIds \ issued, p \in RandomPorts(call[c].ip, "http") :
        /\ Enter(s, [client |-> call[c].client, ip |-> call[c].ip, port |-> p,
                     protocol |-> "http"])
        /\ issued' = issued \cup {s}
  BY DEF CreateNamedSession
<1> DEFINE ss == [client |-> call[c].client, ip |-> call[c].ip, port |-> p,
                  protocol |-> "http"]
<1>3. /\ ss \in Session /\ ss.port = p /\ ss.ip = call[c].ip /\ ss.protocol = "http"
  BY <1>1, <1>2, RandomPortsArePorts DEF Session, Protocols
<1>4. Enter(s, ss) /\ ss.port \in RandomPorts(ss.ip, ss.protocol)
  BY <1>2, <1>3
<1> HIDE DEF ss
<1> QED
  BY <1>2, <1>3, <1>4 DEF CreateNamedSession

LEMMA SessionRest == ASSUME TypeInv, SessionInv, NEW c \in Callers, Rest(c) PROVE SessionInv'
<1>1. CASE DeleteSessionRow(c) \/ DeleteListedRow(c)
  <2>1. /\ UNCHANGED <<clients, owned, sessions, mu, work, issued>>
        /\ \E s : dbSessions' = [dbSessions EXCEPT ![s] = None]
    BY <1>1 DEF DeleteSessionRow, DeleteListedRow, memory
  <2>2. \A t \in Sids : dbSessions'[t] \in {None, dbSessions[t]}
    BY <2>1 DEF TypeInv, TypeOK
  <2> QED
    BY <2>1, <2>2, RowsKept
<1>2. CASE UpdateSessionRow(c)
  <2>1. UNCHANGED <<clients, owned, sessions, mu, work, issued>>
    BY <1>2, UpdateRowFields
  <2>2. ASSUME NEW s \in Sids, dbSessions'[s] # None
        PROVE  /\ dbSessions[s] # None
               /\ dbSessions'[s].ip = dbSessions[s].ip
               /\ dbSessions'[s].protocol = dbSessions[s].protocol
    <3>1. \/ dbSessions'[s] = dbSessions[s]
          \/ /\ dbSessions[s] # None
             /\ dbSessions'[s] = [dbSessions[s] EXCEPT !.port = call[c].port]
      BY <1>2, UpdateRowFields
    <3>2. CASE dbSessions'[s] = dbSessions[s]
      BY <2>2, <3>2
    <3>3. CASE /\ dbSessions[s] # None
               /\ dbSessions'[s] = [dbSessions[s] EXCEPT !.port = call[c].port]
      <4>1. dbSessions[s] \in Session
        BY <3>3 DEF TypeInv, TypeOK
      <4> QED
        BY <3>3, <4>1, PortEdit
    <3> QED
      BY <3>1, <3>2, <3>3
  <2> QED
    BY <2>1, <2>2, RowsKept
<1>3. CASE UpdateLive(c)
  <2>1. UNCHANGED <<clients, owned, dbSessions, mu, work, issued>> /\ mu = "free"
    BY <1>3, UpdateLiveFields
  <2>2. ASSUME NEW s \in Sids
        PROVE  /\ sessions[s] = None <=> sessions'[s] = None
               /\ sessions[s] # None => /\ sessions'[s].ip = sessions[s].ip
                                        /\ sessions'[s].protocol = sessions[s].protocol
    <3>1. CASE s # call[c].sid \/ sessions[s] = None
      BY <1>3, <3>1, UpdateLiveFields
    <3>2. CASE s = call[c].sid /\ sessions[s] # None
      <4>1. /\ [sessions[s] EXCEPT !.port = call[c].port] \in Session
            /\ sessions'[s] = [sessions[s] EXCEPT !.port = call[c].port]
        BY <1>3, <3>2, UpdateLiveFields
      <4>2. sessions[s] \in Session
        BY <3>2 DEF TypeInv, TypeOK
      <4> QED
        BY <3>2, <4>1, <4>2, PortEdit, NoRowAssumption
    <3> QED
      BY <3>1, <3>2
  <2>3. RowMatchesLive'
    BY <2>1, <2>2 DEF SessionInv, RowMatchesLive
  <2>4. OwnedSessionsLive'
    BY <2>1, <2>2 DEF SessionInv, OwnedSessionsLive, TypeInv, TypeOK
  <2>5. SessionIdsDrawn'
    BY <2>1, <2>2 DEF SessionInv, SessionIdsDrawn, Sids
  <2>6. EntersSame'
    BY <2>1 DEF EntersSame
  <2> QED
    BY <2>3, <2>4, <2>5, <2>6 DEF SessionInv
<1>4. CASE DeleteSessionLive(c)
  <2> DEFINE s == call[c].sid
  <2>1. UNCHANGED <<clients, dbSessions, mu, work, issued>> /\ mu = "free"
    BY <1>4 DEF DeleteSessionLive, RemoveSession, disk, memory
  <2>2. CASE sessions[s] = None
    <3>1. UNCHANGED <<owned, sessions>>
      BY <1>4, <2>2 DEF DeleteSessionLive, RemoveSession, memory
    <3> QED
      BY <2>1, <3>1, SessionFrame
  <2>3. CASE sessions[s] # None
    <3>1. /\ sessions' = [sessions EXCEPT ![s] = None]
          /\ owned' = [owned EXCEPT ![sessions[s].ip] = @ \ {s}]
      BY <1>4, <2>3 DEF DeleteSessionLive, RemoveSession
    <3>2. \A t \in Sids : sessions'[t] = IF t = s THEN None ELSE sessions[t]
      BY <3>1 DEF TypeInv, TypeOK
    <3>3. \A ip \in Ips : owned'[ip] = IF ip = sessions[s].ip THEN owned[ip] \ {s} ELSE owned[ip]
      BY <3>1 DEF TypeInv, TypeOK
    <3>4. ASSUME NEW ip \in Ips, NEW t \in owned'[ip]
          PROVE  t \in Sids /\ t \in owned[ip] /\ t # s
      <4>1. t \in owned[ip]
        BY <3>3
      <4>2. t \in Sids /\ sessions[t].ip = ip
        BY <4>1 DEF SessionInv, OwnedSessionsLive, TypeInv, TypeOK
      <4> QED
        BY <3>3, <4>1, <4>2
    <3>5. OwnedSessionsLive'
      BY <2>1, <3>2, <3>4 DEF SessionInv, OwnedSessionsLive
    <3> QED
      BY <2>1, <3>2, <3>5 DEF SessionInv, RowMatchesLive, SessionIdsDrawn, EntersSame, Sids
  <2> QED
    BY <2>2, <2>3
<1>5. CASE DeleteClientLive(c)
  <2> DEFINE mine == {ip \in Ips : clients[ip] = call[c].client}
             gone == UNION {owned[ip] : ip \in mine}
  <2>1. /\ UNCHANGED <<dbSessions, mu, work, issued>> /\ mu = "free"
        /\ \A ip \in Ips : clients'[ip] = IF ip \in mine THEN None ELSE clients[ip]
        /\ \A ip \in Ips : owned'[ip] = IF ip \in mine THEN {} ELSE owned[ip]
        /\ \A t \in Sids : sessions'[t] = IF t \in gone THEN None ELSE sessions[t]
    BY <1>5 DEF DeleteClientLive, RemoveClient, disk
  <2>2. ASSUME NEW ip \in Ips, NEW t \in owned'[ip]
        PROVE  t \in Sids /\ t \in owned[ip] /\ ip \notin mine /\ t \notin gone
    <3>1. ip \notin mine /\ t \in owned[ip] /\ t \in Sids
      BY <2>1, <2>2 DEF TypeInv, TypeOK
    <3>2. \A j \in Ips : t \in owned[j] => j = ip
      BY <3>1 DEF SessionInv, OwnedSessionsLive
    <3> QED
      BY <3>1, <3>2
  <2>3. OwnedSessionsLive'
    BY <2>1, <2>2 DEF SessionInv, OwnedSessionsLive
  <2>4. RowMatchesLive'
    BY <2>1 DEF SessionInv, RowMatchesLive
  <2> QED
    BY <2>1, <2>3, <2>4 DEF SessionInv, SessionIdsDrawn, EntersSame, Sids
<1>6. CASE CreateNamedSession(c)
  <2>1. PICK s \in SessionIds \ issued, ss \in Session :
          /\ Enter(s, ss) /\ issued' = issued \cup {s}
          /\ mu = "free" /\ UNCHANGED <<clients, mu>>
    BY <1>6, CreateFields
  <2>2. s \in Sids /\ sessions[s] = None /\ dbSessions[s] = None
    BY <2>1 DEF SessionInv, SessionIdsDrawn, Sids
  <2>3. /\ RowMatchesLive' /\ OwnedSessionsLive'
        /\ \A t \in Sids : t # s => /\ sessions'[t] = sessions[t]
                                    /\ dbSessions'[t] = dbSessions[t]
    BY <2>1, <2>2, EnterKeeps
  <2> QED
    BY <2>1, <2>3 DEF SessionInv, SessionIdsDrawn, EntersSame, Sids
<1>7. CASE ListSessions(c) \/ DeleteClientRow(c)
  BY <1>7, SessionFrame DEF ListSessions, DeleteClientRow, memory, disk
<1> QED
  BY <1>1, <1>2, <1>3, <1>4, <1>5, <1>6, <1>7 DEF Rest

LEMMA SessionInvHolds == Spec => []SessionInv
<1>1. Init => SessionInv
  BY DEF Init, SessionInv, RowMatchesLive, OwnedSessionsLive, SessionIdsDrawn, EntersSame, Sids
<1>2. TypeInv /\ SessionInv /\ [Next]_vars => SessionInv'
  <2> SUFFICES ASSUME TypeInv, SessionInv, [Next]_vars PROVE SessionInv'
    OBVIOUS
  <2>1. CASE UNCHANGED vars
    BY <2>1, SessionFrame DEF vars, memory, disk
  <2>2. CASE ClosePanics \/ Kill
    BY <2>2, SessionRestart DEF ClosePanics, Kill
  <2>3. ASSUME NEW m \in Messages, Lock(m) PROVE SessionInv'
    <3>1. CASE clients[m.ip] # None
      <4>1. /\ UNCHANGED <<clients, owned, sessions, dbSessions, issued>>
            /\ mu' = "session"
        BY <2>3, <3>1 DEF Lock, memory, disk
      <4> QED
        BY <4>1, SessionFrame
    <3>2. CASE clients[m.ip] = None
      <4>1. PICK id \in RowOrNew(ClientRows(m.ip), ClientIds) :
              mu' = "client" /\ issued' = issued \cup {id}
        BY <2>3, <3>2 DEF Lock
      <4>2. UNCHANGED <<clients, owned, sessions, dbSessions>>
        BY <2>3 DEF Lock, memory, disk
      <4> QED
        BY <4>1, <4>2, SessionFrame
    <3> QED
      BY <3>1, <3>2
  <2>4. ASSUME NEW c \in Callers, StartCall(c) PROVE SessionInv'
    <3>1. UNCHANGED <<clients, owned, sessions, dbSessions, mu, work, issued>>
      BY <2>4 DEF StartCall, DeleteSession, Update, DeleteConnection, Create, memory, disk
    <3> QED
      BY <3>1, SessionFrame
  <2> QED
    BY <2>1, <2>2, <2>3, <2>4, SessionHandle, SessionRest DEF Next
<1> QED
  BY <1>1, <1>2, TypeInvHolds, PTL DEF Spec

(* A live session and its row agree on address and protocol, though a row  *)
(* is deleted, or given another port, while Handle holds the session it    *)
(* found there (manager.go:193-272, api.go:383-470).                       *)
THEOREM RowsMatch == Spec => []RowMatchesLive
BY SessionInvHolds, PTL DEF SessionInv

(* Nobody's set names a session of another client, or one that is gone,    *)
(* whatever ports users give and random ports hit (manager.go:342-364).    *)
THEOREM OwnersRight == Spec => []OwnedSessionsLive
BY SessionInvHolds, PTL DEF SessionInv

-----------------------------------------------------------------------------
(* The index.                                                              *)

LEMMA SidIsNotNone == \A s \in Sids : s # None
BY NoneAssumption DEF Sids

(* Who renames is alone, so nobody renames while another call is at work.  *)
LEMMA NobodyRenames ==
    ASSUME RenameKeeps, NEW c \in Callers, ~Updating(c)
    PROVE  \A d \in Callers : ~Updating(d)
BY DEF RenameKeeps

LEMMA IndexFrame ==
    ASSUME TypeInv, IndexInv, UNCHANGED <<sessions, keyIndex, dbSessions>>,
           mu' = "upsert" => UNCHANGED <<mu, work>>,
           \A c \in Callers : Updating(c)' => call'[c] = call[c]
    PROVE  IndexInv'
<1>1. IndexExact' /\ RowKeys'
  BY DEF IndexInv, IndexExact, RowKeys
<1>2. EntersFree'
  BY DEF IndexInv, EntersFree, SessionRows
<1>3. RenameKeeps'
  BY DEF IndexInv, RenameKeeps, Updating
<1> QED
  BY <1>1, <1>2, <1>3 DEF IndexInv

LEMMA IndexRestart == ASSUME TypeInv, IndexInv, Restart PROVE IndexInv'
<1>1. /\ sessions' = [s \in Sids |-> None]
      /\ keyIndex' = [k \in Keys |-> None]
      /\ mu' = "free" /\ call' = [c \in Callers |-> Idle]
      /\ dbSessions' = dbSessions
  BY DEF Restart, disk
<1>2. IndexExact'
  BY <1>1, SidIsNotNone DEF IndexExact
<1>3. RowKeys'
  BY <1>1 DEF IndexInv, RowKeys
<1>4. EntersFree' /\ RenameKeeps'
  BY <1>1 DEF EntersFree, RenameKeeps, Updating, Idle
<1> QED
  BY <1>2, <1>3, <1>4 DEF IndexInv

(* A session that enters under a free key is indexed and has its row.      *)
LEMMA EnterIndexed ==
    ASSUME TypeInv, IndexExact, RowKeys, NEW s \in Sids, NEW ss \in Session, Enter(s, ss),
           sessions[s] = None, keyIndex[keyOf(ss)] = None,
           SessionRows(keyOf(ss)) \subseteq {s},
           dbSessions[s] # None => keyOf(dbSessions[s]) = keyOf(ss)
    PROVE  /\ IndexExact' /\ RowKeys'
           /\ dbSessions'[s] # None /\ keyOf(dbSessions'[s]) = keyOf(ss)
<1> DEFINE K == keyOf(ss)
<1>1. ss # None /\ s # None /\ K \in Keys
  BY NoRowAssumption, SidIsNotNone, SessionFields
<1>2. /\ \A t \in Sids : sessions'[t] = IF t = s THEN ss ELSE sessions[t]
      /\ \A t \in Sids : t # s => dbSessions'[t] = dbSessions[t]
  BY EnterFields
<1>3. dbSessions'[s] # None /\ keyOf(dbSessions'[s]) = K
  <2>1. CASE dbSessions[s] # None
    BY <2>1, EnterFields
  <2>2. CASE dbSessions[s] = None
    <3>1. SessionRows(K) = {}
      BY <2>2 DEF SessionRows
    <3>2. dbSessions'[s] = ss
      BY <2>2, <3>1, EnterFields
    <3> QED
      BY <1>1, <3>2
  <2> QED
    BY <2>1, <2>2
<1>4. \A k \in Keys : keyIndex'[k] = IF k = K THEN s ELSE keyIndex[k]
  BY <1>1 DEF Enter, TypeInv, TypeOK
<1>5. \A t \in Sids : sessions[t] # None => keyOf(sessions[t]) # K
  BY <1>1, SidIsNotNone DEF IndexExact
<1>6. \A t \in Sids : t # s /\ dbSessions[t] # None => keyOf(dbSessions[t]) # K
  BY DEF SessionRows
<1> HIDE DEF K
<1>7. IndexExact'
  <2> SUFFICES ASSUME NEW k \in Keys, NEW t \in Sids
               PROVE  keyIndex'[k] = t <=> sessions'[t] # None /\ keyOf(sessions'[t]) = k
    BY DEF IndexExact, keyOf
  <2>1. keyIndex[k] = t <=> sessions[t] # None /\ keyOf(sessions[t]) = k
    BY DEF IndexExact
  <2>2. CASE t = s
    <3>1. sessions'[t] = ss /\ keyOf(sessions'[t]) = K
      BY <1>2, <2>2 DEF K
    <3> QED
      BY <1>1, <1>4, <2>1, <2>2, <3>1
  <2>3. CASE t # s
    BY <1>2, <1>4, <1>5, <2>1, <2>3
  <2> QED
    BY <2>2, <2>3
<1>8. ASSUME NEW t \in Sids, NEW u \in Sids, dbSessions'[t] # None, dbSessions'[u] # None,
             keyOf(dbSessions'[t]) = keyOf(dbSessions'[u])
      PROVE  t = u
  BY <1>2, <1>3, <1>6, <1>8 DEF RowKeys
<1>9. ASSUME NEW t \in Sids, NEW u \in Sids, sessions'[t] # None, dbSessions'[u] # None
      PROVE  keyOf(sessions'[t]) = keyOf(dbSessions'[u]) <=> t = u
  <2>1. CASE t = s
    <3>1. keyOf(sessions'[t]) = K
      BY <1>2, <2>1 DEF K
    <3> QED
      BY <1>2, <1>3, <1>6, <1>9, <2>1, <3>1
  <2>2. CASE t # s /\ u = s
    BY <1>2, <1>3, <1>5, <1>9, <2>2
  <2>3. CASE t # s /\ u # s
    BY <1>2, <1>9, <2>3 DEF RowKeys
  <2> QED
    BY <2>1, <2>2, <2>3
<1>10. RowKeys'
  BY <1>8, <1>9 DEF RowKeys, keyOf
<1> QED
  BY <1>3, <1>7, <1>10 DEF K

LEMMA IndexPrepare ==
    ASSUME TypeInv, IndexInv, NEW s \in Sids, NEW ss \in Session, Prepare(s, ss),
           sessions[s] = None, keyIndex[keyOf(ss)] = None,
           SessionRows(keyOf(ss)) \subseteq {s},
           dbSessions[s] # None => dbSessions[s].port = ss.port
                                   /\ keyOf(dbSessions[s]) = keyOf(ss)
    PROVE  IndexInv'
<1>1. /\ UNCHANGED <<sessions, keyIndex, dbSessions, call>>
      /\ work' = [work EXCEPT !.sid = s, !.session = ss]
  BY DEF Prepare, memory, disk
<1>2. work'.sid = s /\ work'.session = ss
  BY <1>1 DEF TypeInv, TypeOK
<1>3. IndexExact' /\ RowKeys'
  BY <1>1 DEF IndexInv, IndexExact, RowKeys
<1>4. EntersFree'
  BY <1>1, <1>2 DEF EntersFree, SessionRows
<1>5. ASSUME NEW c \in Callers, Updating(c), call[c].sid = s
      PROVE  ss.port = call[c].port
  BY <1>5 DEF IndexInv, RenameKeeps
<1>6. RenameKeeps'
  <2> SUFFICES ASSUME NEW c \in Callers, Updating(c)
               PROVE  LET t == call[c].sid
                      IN  /\ Callers = {c}
                          /\ sessions[t] # None \/ dbSessions[t] # None
                          /\ sessions[t] # None => sessions[t].port = call[c].port
                          /\ dbSessions[t] # None => dbSessions[t].port = call[c].port
                          /\ work'.sid = t => work'.session.port = call[c].port
    BY <1>1 DEF RenameKeeps, Updating
  <2> QED
    BY <1>2, <1>5 DEF IndexInv, RenameKeeps
<1> QED
  BY <1>3, <1>4, <1>6 DEF IndexInv

LEMMA RandomPortFree ==
    ASSUME PortsKept, NEW ss \in Session, ss.port \in RandomPorts(ss.ip, ss.protocol)
    PROVE  keyIndex[keyOf(ss)] = None /\ SessionRows(keyOf(ss)) = {}
BY DEF PortsKept, RandomPorts, keyOf

LEMMA IndexHandle ==
    ASSUME PortsKept, TypeInv, SessionInv, IndexInv, Handle
    PROVE  IndexInv'
<1>1. CASE Found
  BY <1>1, IndexFrame DEF Found, Unlock, memory, disk
<1>2. CASE NewClient
  BY <1>2, IndexFrame DEF NewClient
<1>3. CASE LoadKeyed
  <2>1. PICK s \in Sids, ss \in Session :
            /\ keyIndex[keyOf(ss)] = None
            /\ \/ s \in SessionRows(keyOf(ss))
               \/ SessionRows(keyOf(ss)) = {} /\ s \in SessionIds \ issued
            /\ Prepare(s, ss)
    BY <1>3, LoadKeyedCases
  <2>2. CASE s \in SessionRows(keyOf(ss))
    <3>1. dbSessions[s] # None /\ keyOf(dbSessions[s]) = keyOf(ss)
      BY <2>2 DEF SessionRows
    <3>2. SessionRows(keyOf(ss)) \subseteq {s}
      BY <3>1 DEF SessionRows, IndexInv, RowKeys
    <3>3. sessions[s] = None
      <4> SUFFICES ASSUME sessions[s] # None PROVE FALSE
        OBVIOUS
      <4>1. keyOf(sessions[s]) = keyOf(ss)
        BY <3>1 DEF IndexInv, RowKeys
      <4> QED
        BY <2>1, <4>1, SidIsNotNone, SessionFields DEF IndexInv, IndexExact
    <3>4. dbSessions[s].port = ss.port
      BY <3>1 DEF keyOf
    <3> QED
      BY <2>1, <3>1, <3>2, <3>3, <3>4, IndexPrepare
  <2>3. CASE SessionRows(keyOf(ss)) = {} /\ s \in SessionIds \ issued
    <3>1. sessions[s] = None /\ dbSessions[s] = None
      BY <2>3 DEF SessionInv, SessionIdsDrawn
    <3> QED
      BY <2>1, <2>3, <3>1, IndexPrepare
  <2> QED
    BY <2>1, <2>2, <2>3
<1>4. CASE LoadNamed
  <2>1. PICK s \in Sids, ss \in Session :
            /\ sessions[s] = None
            /\ \/ dbSessions[s] = ss /\ ss # None
               \/ /\ dbSessions[s] = None
                  /\ ss.port \in RandomPorts(ss.ip, ss.protocol)
            /\ Prepare(s, ss)
    BY <1>4, LoadNamedCases
  <2>2. CASE dbSessions[s] = ss /\ ss # None
    <3>1. SessionRows(keyOf(ss)) \subseteq {s}
      BY <2>2 DEF SessionRows, IndexInv, RowKeys
    <3>2. keyIndex[keyOf(ss)] = None
      <4> SUFFICES ASSUME keyIndex[keyOf(ss)] # None PROVE FALSE
        OBVIOUS
      <4>1. keyOf(ss) \in Keys /\ keyIndex[keyOf(ss)] \in Sids
        BY SessionFields DEF TypeInv, TypeOK
      <4>2. PICK t \in Sids : t = keyIndex[keyOf(ss)]
        BY <4>1
      <4>3. sessions[t] # None /\ keyOf(sessions[t]) = keyOf(ss)
        BY <4>1, <4>2 DEF IndexInv, IndexExact
      <4> QED
        BY <2>1, <2>2, <4>3 DEF IndexInv, RowKeys
    <3> QED
      BY <2>1, <2>2, <3>1, <3>2, IndexPrepare
  <2>3. CASE dbSessions[s] = None /\ ss.port \in RandomPorts(ss.ip, ss.protocol)
    BY <2>1, <2>3, RandomPortFree, IndexPrepare
  <2> QED
    BY <2>1, <2>2, <2>3
<1>5. CASE NewSession
  <2>1. /\ work.sid \in Sids /\ work.session \in Session
        /\ Enter(work.sid, work.session)
        /\ mu = "upsert" /\ mu' = "free" /\ UNCHANGED call
    BY <1>5 DEF NewSession, Unlock, TypeInv, WorkOK
  <2>2. /\ sessions[work.sid] = None
        /\ keyIndex[keyOf(work.session)] = None
        /\ SessionRows(keyOf(work.session)) \subseteq {work.sid}
        /\ dbSessions[work.sid] # None =>
               keyOf(dbSessions[work.sid]) = keyOf(work.session)
    BY <2>1 DEF IndexInv, EntersFree
  <2>3. /\ IndexExact' /\ RowKeys'
        /\ dbSessions'[work.sid] # None
        /\ keyOf(dbSessions'[work.sid]) = keyOf(work.session)
    BY <2>1, <2>2, EnterIndexed DEF IndexInv
  <2>4. /\ \A t \in Sids : t # work.sid => /\ sessions'[t] = sessions[t]
                                           /\ dbSessions'[t] = dbSessions[t]
        /\ sessions'[work.sid] = work.session
    BY <2>1, EnterFields
  <2>5. EntersFree'
    BY <2>1 DEF EntersFree
  <2>6. ASSUME NEW c \in Callers, Updating(c)
        PROVE  LET t == call[c].sid
               IN  /\ Callers = {c}
                   /\ sessions'[t] # None \/ dbSessions'[t] # None
                   /\ sessions'[t] # None => sessions'[t].port = call[c].port
                   /\ dbSessions'[t] # None => dbSessions'[t].port = call[c].port
    <3>1. call[c].sid \in Sids
      BY <2>6, CallsFit DEF CallFits, OfSession, Updating
    <3>2. CASE call[c].sid = work.sid
      <4>1. Callers = {c} /\ work.session.port = call[c].port
        BY <2>1, <2>6, <3>2 DEF IndexInv, RenameKeeps
      <4>2. dbSessions'[work.sid].port = work.session.port
        BY <2>3 DEF keyOf
      <4> QED
        BY <2>3, <2>4, <3>2, <4>1, <4>2
    <3>3. CASE call[c].sid # work.sid
      BY <2>4, <2>6, <3>1, <3>3 DEF IndexInv, RenameKeeps
    <3> QED
      BY <3>2, <3>3
  <2>7. RenameKeeps'
    BY <2>1, <2>6 DEF RenameKeeps, Updating
  <2> QED
    BY <2>3, <2>5, <2>7 DEF IndexInv
<1>6. CASE Panic
  <2>1. \/ Restart
        \/ mu' = "wedged" /\ UNCHANGED <<sessions, keyIndex, dbSessions, call>>
    BY <1>6 DEF Panic, memory, disk
  <2> QED
    BY <2>1, IndexRestart, IndexFrame
<1> QED
  BY <1>1, <1>2, <1>3, <1>4, <1>5, <1>6 DEF Handle

(* A rename begins alone, with the port of its session.                    *)
LEMMA IndexStart ==
    ASSUME PortsKept, TypeInv, IndexInv, NEW c \in Callers, StartCall(c)
    PROVE  IndexInv'
<1>1. ASSUME ~\E s \in Edited : Update(c, s) PROVE IndexInv'
  <2>1. /\ UNCHANGED <<sessions, keyIndex, dbSessions, mu, work>>
        /\ \E d : call' = [call EXCEPT ![c] = d] /\ d.pc \notin {"update", "update row"}
    <3>1. ASSUME NEW s \in Sids, DeleteSession(c, s)
          PROVE  \E d : call' = [call EXCEPT ![c] = d] /\ d.pc \notin {"update", "update row"}
      <4>1. call' = [call EXCEPT ![c] = [Idle EXCEPT !.pc = "delete row", !.sid = s]]
        BY <3>1 DEF DeleteSession
      <4>2. [Idle EXCEPT !.pc = "delete row", !.sid = s].pc = "delete row"
        BY DEF Idle
      <4> QED
        BY <4>1, <4>2
    <3>2. ASSUME NEW id \in ClientIds, DeleteConnection(c, id)
          PROVE  \E d : call' = [call EXCEPT ![c] = d] /\ d.pc \notin {"update", "update row"}
      <4>1. call' = [call EXCEPT ![c] = [Idle EXCEPT !.pc = "list", !.client = id]]
        BY <3>2 DEF DeleteConnection
      <4>2. [Idle EXCEPT !.pc = "list", !.client = id].pc = "list"
        BY DEF Idle
      <4> QED
        BY <4>1, <4>2
    <3>3. ASSUME NEW id \in ClientIds, Create(c, id)
          PROVE  \E d : call' = [call EXCEPT ![c] = d] /\ d.pc \notin {"update", "update row"}
      <4>1. PICK ip \in Ips :
              call' = [call EXCEPT ![c] = [Idle EXCEPT !.pc = "create", !.client = id, !.ip = ip]]
        BY <3>3, Zenon DEF Create
      <4>2. [Idle EXCEPT !.pc = "create", !.client = id, !.ip = ip].pc = "create"
        BY DEF Idle
      <4> QED
        BY <4>1, <4>2
    <3>4. UNCHANGED <<sessions, keyIndex, dbSessions, mu, work>>
      BY <1>1 DEF StartCall, DeleteSession, DeleteConnection, Create, memory, disk
    <3> QED
      BY <1>1, <3>1, <3>2, <3>3, <3>4, Zenon DEF StartCall
  <2>2. \A d \in Callers : Updating(d)' => call'[d] = call[d]
    BY <2>1 DEF Updating, TypeInv, TypeOK
  <2> QED
    BY <2>1, <2>2, IndexFrame
<1>2. ASSUME NEW s \in Edited, Update(c, s) PROVE IndexInv'
  <2> DEFINE sess == IF sessions[s] # None THEN sessions[s] ELSE dbSessions[s]
  <2>1. /\ sess # None /\ mu = "free"
        /\ call' = [call EXCEPT ![c] =
                      [Idle EXCEPT !.pc = "update", !.sid = s, !.port = sess.port]]
        /\ UNCHANGED <<sessions, keyIndex, dbSessions, mu, work>>
    BY <1>2 DEF Update, PortsKept, memory, disk
  <2>2. s \in Sids /\ Callers = {c}
    BY EditsAssumption DEF PortsKept
  <2>3. call'[c].pc = "update" /\ call'[c].sid = s /\ call'[c].port = sess.port
    BY <2>1 DEF TypeInv, TypeOK, Idle
  <2>4. /\ sessions[s] # None \/ dbSessions[s] # None
        /\ sessions[s] # None => sessions[s].port = sess.port
        /\ dbSessions[s] # None => dbSessions[s].port = sess.port
    BY <2>1, <2>2 DEF IndexInv, RowKeys, keyOf
  <2>5. RenameKeeps'
    BY <2>1, <2>2, <2>3, <2>4 DEF RenameKeeps
  <2>6. EntersFree'
    BY <2>1 DEF EntersFree
  <2>7. IndexExact' /\ RowKeys'
    BY <2>1 DEF IndexInv, IndexExact, RowKeys
  <2> QED
    BY <2>5, <2>6, <2>7 DEF IndexInv
<1> QED
  BY <1>1, <1>2

(* A call that does not rename leaves no rename behind.                    *)
LEMMA RestAlone ==
    ASSUME TypeInv, RenameKeeps, NEW c \in Callers, ~Updating(c),
           NEW d, call' = [call EXCEPT ![c] = d], d.pc \notin {"update", "update row"}
    PROVE  RenameKeeps'
<1>1. \A e \in Callers : ~Updating(e)
  BY NobodyRenames
<1>2. \A e \in Callers : call'[e] = IF e = c THEN d ELSE call[e]
  BY DEF TypeInv, TypeOK
<1>3. \A e \in Callers : ~Updating(e)'
  BY <1>1, <1>2 DEF Updating
<1> QED
  BY <1>3 DEF RenameKeeps

(* Rows are deleted.                                                       *)
LEMMA IndexRows ==
    ASSUME TypeInv, IndexInv, NEW c \in Callers, DeleteSessionRow(c) \/ DeleteListedRow(c)
    PROVE  IndexInv'
<1>1. /\ UNCHANGED <<sessions, keyIndex, mu, work>>
      /\ \E s : dbSessions' = [dbSessions EXCEPT ![s] = None]
  BY DEF DeleteSessionRow, DeleteListedRow, memory
<1>2. \A t \in Sids : dbSessions'[t] \in {None, dbSessions[t]}
  BY <1>1 DEF TypeInv, TypeOK
<1>3. IndexExact'
  BY <1>1 DEF IndexInv, IndexExact
<1>4. RowKeys'
  BY <1>1, <1>2 DEF IndexInv, RowKeys
<1>5. EntersFree'
  <2> SUFFICES ASSUME mu = "upsert" PROVE EntersFree'
    BY <1>1 DEF EntersFree
  <2>1. SessionRows(keyOf(work.session))' \subseteq SessionRows(keyOf(work.session))
    BY <1>1, <1>2 DEF SessionRows
  <2>2. work.sid \in Sids
    BY DEF TypeInv, WorkOK
  <2> QED
    BY <1>1, <1>2, <2>1, <2>2 DEF IndexInv, EntersFree
<1>6. ~Updating(c)
  BY DEF DeleteSessionRow, DeleteListedRow, At, Updating
<1>7. \E d : call' = [call EXCEPT ![c] = d] /\ d.pc \notin {"update", "update row"}
  <2>1. CASE DeleteSessionRow(c)
    <3>1. call' = [call EXCEPT ![c] = [call[c] EXCEPT !.pc = "remove session"]]
      BY <2>1 DEF DeleteSessionRow, Goto, TypeInv, TypeOK
    <3>2. [call[c] EXCEPT !.pc = "remove session"].pc = "remove session"
      BY CallsFit DEF CallFits, Call
    <3> QED
      BY <3>1, <3>2
  <2>2. CASE DeleteListedRow(c)
    <3>1. PICK s : call' = [call EXCEPT ![c] = [call[c] EXCEPT !.todo = @ \ {s}]]
      BY <2>2 DEF DeleteListedRow, TypeInv, TypeOK
    <3>2. [call[c] EXCEPT !.todo = @ \ {s}].pc = "delete rows"
      BY <2>2, CallsFit DEF DeleteListedRow, At, CallFits, Call
    <3> QED
      BY <3>1, <3>2
  <2> QED
    BY <2>1, <2>2
<1>8. RenameKeeps'
  BY <1>6, <1>7, RestAlone DEF IndexInv
<1> QED
  BY <1>3, <1>4, <1>5, <1>8 DEF IndexInv

(* Sessions leave the maps and the index together.                         *)
LEMMA IndexDrops ==
    ASSUME TypeInv, IndexInv, mu' = "free", UNCHANGED dbSessions,
           NEW c \in Callers, ~Updating(c), Return(c), NEW gone \in SUBSET Sids,
           \A t \in Sids : sessions'[t] = IF t \in gone THEN None ELSE sessions[t],
           \A k \in Keys : keyIndex'[k] = IF \E t \in gone : sessions[t] # None /\ keyOf(sessions[t]) = k
                                          THEN None ELSE keyIndex[k]
    PROVE  IndexInv'
<1>1. IndexExact'
  <2> SUFFICES ASSUME NEW k \in Keys, NEW t \in Sids
               PROVE  keyIndex'[k] = t <=> sessions'[t] # None /\ keyOf(sessions'[t]) = k
    BY DEF IndexExact, keyOf
  <2>1. \A u \in Sids : keyIndex[k] = u <=> sessions[u] # None /\ keyOf(sessions[u]) = k
    BY DEF IndexInv, IndexExact
  <2>2. CASE \E u \in gone : sessions[u] # None /\ keyOf(sessions[u]) = k
    <3>1. keyIndex'[k] # t
      BY <2>2, SidIsNotNone
    <3>2. PICK u \in gone : sessions[u] # None /\ keyOf(sessions[u]) = k
      BY <2>2
    <3>3. t \notin gone /\ sessions[t] # None => keyOf(sessions[t]) # k
      BY <2>1, <3>2
    <3> QED
      BY <3>1, <3>3
  <2>3. CASE ~\E u \in gone : sessions[u] # None /\ keyOf(sessions[u]) = k
    <3>1. keyIndex'[k] = keyIndex[k]
      BY <2>3
    <3> QED
      BY <2>1, <2>3, <3>1
  <2> QED
    BY <2>2, <2>3
<1>2. RowKeys'
  BY DEF IndexInv, RowKeys
<1>3. EntersFree'
  BY DEF EntersFree
<1>4. RenameKeeps'
  <2>1. Idle.pc = "idle"
    BY DEF Idle
  <2> QED
    BY <2>1, RestAlone DEF IndexInv, Return
<1> QED
  BY <1>1, <1>2, <1>3, <1>4 DEF IndexInv

(* A rename writes back what is there.                                     *)
LEMMA IndexRename ==
    ASSUME TypeInv, IndexInv, NEW c \in Callers, UpdateLive(c) \/ UpdateSessionRow(c)
    PROVE  IndexInv'
<1> DEFINE s == call[c].sid
<1>1. Updating(c) /\ s \in Sids
  BY UpdateLiveFields, UpdateRowFields DEF UpdateLive, UpdateSessionRow, At, Updating
<1>2. /\ Callers = {c}
      /\ sessions[s] # None \/ dbSessions[s] # None
      /\ sessions[s] # None => sessions[s].port = call[c].port
      /\ dbSessions[s] # None => dbSessions[s].port = call[c].port
  BY <1>1 DEF IndexInv, RenameKeeps
<1>3. CASE UpdateLive(c)
  <2>1. /\ UNCHANGED <<dbSessions, mu, work>> /\ mu = "free"
        /\ call' = [call EXCEPT ![c].pc = "update row"]
    BY <1>3, UpdateLiveFields DEF UpdateLive, Goto
  <2>2. /\ \A t \in Sids : sessions'[t] = sessions[t]
        /\ \A k \in Keys : keyIndex'[k] = keyIndex[k]
    <3>1. CASE sessions[s] = None
      BY <1>3, <3>1, UpdateLiveFields
    <3>2. CASE sessions[s] # None
      <4>1. sessions[s] \in Session
        BY <1>1, <3>2 DEF TypeInv, TypeOK
      <4>2. [sessions[s] EXCEPT !.port = call[c].port] = sessions[s]
        BY <1>2, <3>2, <4>1, PortEdit
      <4>3. /\ \A t \in Sids : sessions'[t] = sessions[t]
            /\ keyIndex' = [keyIndex EXCEPT ![keyOf(sessions[s])] = None,
                                            ![keyOf(sessions[s])] = s]
        BY <1>3, <3>2, <4>2, UpdateLiveFields
      <4>4. keyIndex[keyOf(sessions[s])] = s /\ keyOf(sessions[s]) \in Keys
        BY <1>1, <3>2, <4>1, SessionFields DEF IndexInv, IndexExact
      <4> QED
        BY <4>3, <4>4 DEF TypeInv, TypeOK
    <3> QED
      BY <3>1, <3>2
  <2>3. IndexExact'
    BY <2>2 DEF IndexInv, IndexExact
  <2>4. RowKeys'
    <3>1. dbSessions' = dbSessions
      BY <2>1
    <3>2. ASSUME NEW t \in Sids, NEW u \in Sids, sessions'[t] # None, dbSessions'[u] # None
          PROVE  keyOf(sessions'[t]) = keyOf(dbSessions'[u]) <=> t = u
      <4>1. sessions'[t] = sessions[t]
        BY <2>2
      <4> QED
        BY <3>1, <3>2, <4>1 DEF IndexInv, RowKeys
    <3> QED
      BY <3>1, <3>2 DEF IndexInv, RowKeys, keyOf
  <2>5. EntersFree'
    BY <2>1 DEF EntersFree
  <2>6. call'[c].sid = s /\ call'[c].port = call[c].port
    BY <2>1, CallsFit DEF TypeInv, TypeOK, CallFits, Call
  <2>7. RenameKeeps'
    BY <1>1, <1>2, <2>1, <2>2, <2>6 DEF RenameKeeps
  <2> QED
    BY <2>3, <2>4, <2>5, <2>7 DEF IndexInv
<1>4. CASE UpdateSessionRow(c)
  <2>1. UNCHANGED <<sessions, keyIndex, mu, work>> /\ call' = [call EXCEPT ![c] = Idle]
    BY <1>4, UpdateRowFields DEF UpdateSessionRow, Return
  <2>2. \A t \in Sids : dbSessions'[t] = dbSessions[t]
    <3>1. dbSessions[s] # None => [dbSessions[s] EXCEPT !.port = call[c].port] = dbSessions[s]
      BY <1>1, <1>2, PortEdit DEF TypeInv, TypeOK
    <3> QED
      BY <1>4, <3>1, UpdateRowFields
  <2>3. IndexExact'
    BY <2>1 DEF IndexInv, IndexExact
  <2>4. RowKeys'
    BY <2>1, <2>2 DEF IndexInv, RowKeys
  <2>5. EntersFree'
    BY <2>1, <2>2 DEF IndexInv, EntersFree, SessionRows, TypeInv, WorkOK
  <2>6. \A d \in Callers : ~Updating(d)'
    BY <1>2, <2>1 DEF Updating, Idle, TypeInv, TypeOK
  <2>7. RenameKeeps'
    BY <2>6 DEF RenameKeeps
  <2> QED
    BY <2>3, <2>4, <2>5, <2>7 DEF IndexInv
<1> QED
  BY <1>3, <1>4

(* The calls of a session leave the index exact, one action at a time.     *)
LEMMA IndexRest ==
    ASSUME PortsKept, TypeInv, SessionInv, IndexInv, NEW c \in Callers, Rest(c)
    PROVE  IndexInv'
<1> DEFINE Goes == \E d : call' = [call EXCEPT ![c] = d] /\ d.pc \notin {"update", "update row"}
<1>1. ASSUME Return(c) PROVE Goes
  <2>1. Idle.pc = "idle"
    BY DEF Idle
  <2> QED
    BY <1>1, <2>1 DEF Return
<1>2. ASSUME Goes, UNCHANGED <<sessions, keyIndex, dbSessions, mu, work>> PROVE IndexInv'
  <2>1. \A d \in Callers : Updating(d)' => call'[d] = call[d]
    BY <1>2 DEF Updating, TypeInv, TypeOK
  <2> QED
    BY <1>2, <2>1, IndexFrame
<1>3. CASE DeleteSessionLive(c)
  <2> DEFINE s == call[c].sid
  <2>1. s \in Sids /\ mu = "free" /\ mu' = "free" /\ ~Updating(c) /\ Return(c)
        /\ UNCHANGED <<dbSessions, work>>
    BY <1>3, CallsFit DEF DeleteSessionLive, CallFits, At, OfSession, Updating, disk
  <2>2. CASE sessions[s] = None
    <3>1. UNCHANGED <<sessions, keyIndex, dbSessions, mu, work>>
      BY <1>3, <2>1, <2>2 DEF DeleteSessionLive, RemoveSession, memory
    <3> QED
      BY <1>1, <1>2, <2>1, <3>1
  <2>3. CASE sessions[s] # None
    <3>1. /\ sessions' = [sessions EXCEPT ![s] = None]
          /\ keyIndex' = [keyIndex EXCEPT ![keyOf(sessions[s])] = None]
      BY <1>3, <2>3 DEF DeleteSessionLive, RemoveSession
    <3>2. \A t \in Sids : sessions'[t] = IF t \in {s} THEN None ELSE sessions[t]
      BY <3>1 DEF TypeInv, TypeOK
    <3>3. \A k \in Keys : keyIndex'[k] =
              IF \E t \in {s} : sessions[t] # None /\ keyOf(sessions[t]) = k
              THEN None ELSE keyIndex[k]
      BY <2>3, <3>1 DEF TypeInv, TypeOK
    <3> HIDE DEF s
    <3>4. {s} \in SUBSET Sids
      BY <2>1
    <3> QED
      BY <2>1, <3>2, <3>3, <3>4, IndexDrops
  <2> QED
    BY <2>2, <2>3
<1>4. CASE DeleteClientLive(c)
  <2> DEFINE mine == {ip \in Ips : clients[ip] = call[c].client}
             gone == UNION {owned[ip] : ip \in mine}
  <2>1. mu' = "free" /\ ~Updating(c) /\ Return(c) /\ UNCHANGED dbSessions
    BY <1>4 DEF DeleteClientLive, At, Updating, disk
  <2>2. gone \in SUBSET Sids
    <3>1. \A ip \in mine : owned[ip] \subseteq Sids
      BY DEF TypeInv, TypeOK
    <3> HIDE DEF mine
    <3>2. \A t \in gone : \E ip \in mine : t \in owned[ip]
      OBVIOUS
    <3>3. \A t \in gone : t \in Sids
      BY <3>1, <3>2
    <3> QED
      BY <3>3
  <2>3. /\ sessions' = [t \in Sids |-> IF t \in gone THEN None ELSE sessions[t]]
        /\ keyIndex' = [k \in Keys |->
              IF k \in {keyOf(sessions[t]) : t \in {t \in gone : sessions[t] # None}}
              THEN None ELSE keyIndex[k]]
    BY <1>4, Zenon DEF DeleteClientLive, RemoveClient
  <2> HIDE DEF gone
  <2>4. \A t \in Sids : sessions'[t] = IF t \in gone THEN None ELSE sessions[t]
    BY <2>3
  <2>5. \A k \in Keys : keyIndex'[k] =
            IF \E t \in gone : sessions[t] # None /\ keyOf(sessions[t]) = k
            THEN None ELSE keyIndex[k]
    BY <2>3
  <2> QED
    BY <2>1, <2>2, <2>4, <2>5, IndexDrops
<1>5. CASE ListSessions(c) \/ DeleteClientRow(c)
  <2>1. UNCHANGED <<sessions, keyIndex, dbSessions, mu, work>>
    BY <1>5 DEF ListSessions, DeleteClientRow, memory, disk
  <2>2. CASE ListSessions(c)
    <3> DEFINE rows == {s \in Sids : dbSessions[s] # None
                                     /\ dbSessions[s].client = call[c].client}
               d == [call[c] EXCEPT !.pc = "delete rows", !.todo = rows]
    <3>1. call' = [call EXCEPT ![c].pc = "delete rows", ![c].todo = rows]
      BY <2>2 DEF ListSessions
    <3> HIDE DEF rows
    <3>2. call' = [call EXCEPT ![c] = d]
      BY <3>1 DEF TypeInv, TypeOK
    <3>3. d.pc = "delete rows"
      BY CallsFit DEF CallFits, Call
    <3> HIDE DEF d
    <3> QED
      BY <1>2, <2>1, <3>2, <3>3
  <2>3. CASE DeleteClientRow(c)
    <3>1. call' = [call EXCEPT ![c] = [call[c] EXCEPT !.pc = "remove client"]]
      BY <2>3 DEF DeleteClientRow, Goto, TypeInv, TypeOK
    <3>2. [call[c] EXCEPT !.pc = "remove client"].pc = "remove client"
      BY CallsFit DEF CallFits, Call
    <3> QED
      BY <1>2, <2>1, <3>1, <3>2
  <2> QED
    BY <1>5, <2>2, <2>3
<1>6. CASE CreateNamedSession(c)
  <2>1. PICK s \in SessionIds \ issued, ss \in Session :
              /\ Enter(s, ss)
              /\ ss.port \in RandomPorts(ss.ip, ss.protocol)
              /\ mu = "free" /\ mu' = mu
    BY <1>6, CreateFields
  <2>2. s \in Sids /\ sessions[s] = None /\ dbSessions[s] = None
    BY <2>1 DEF SessionInv, SessionIdsDrawn, Sids
  <2>3. keyIndex[keyOf(ss)] = None /\ SessionRows(keyOf(ss)) \subseteq {s}
    BY <2>1, RandomPortFree
  <2>4. IndexExact' /\ RowKeys'
    BY <2>1, <2>2, <2>3, EnterIndexed DEF IndexInv
  <2>5. EntersFree'
    BY <2>1 DEF EntersFree
  <2>6. ~Updating(c) /\ Goes
    BY <1>1, <1>6 DEF CreateNamedSession, At, Updating
  <2>7. RenameKeeps'
    BY <2>6, RestAlone DEF IndexInv
  <2> QED
    BY <2>4, <2>5, <2>7 DEF IndexInv
<1> QED
  BY <1>3, <1>4, <1>5, <1>6, IndexRows, IndexRename DEF Rest

LEMMA IndexInvHolds == ASSUME PortsKept PROVE Spec => []IndexInv
<1>1. Init => IndexInv
  <2> SUFFICES ASSUME Init PROVE IndexInv
    OBVIOUS
  <2>1. IndexExact
    BY SidIsNotNone DEF Init, IndexExact
  <2>2. RowKeys
    BY DEF Init, RowKeys
  <2>3. EntersFree /\ RenameKeeps
    BY DEF Init, EntersFree, RenameKeeps, Updating, Idle
  <2> QED
    BY <2>1, <2>2, <2>3 DEF IndexInv
<1>2. TypeInv /\ SessionInv /\ IndexInv /\ [Next]_vars => IndexInv'
  <2> SUFFICES ASSUME TypeInv, SessionInv, IndexInv, [Next]_vars PROVE IndexInv'
    OBVIOUS
  <2>1. CASE UNCHANGED vars
    BY <2>1, IndexFrame DEF vars, memory, disk
  <2>2. CASE ClosePanics \/ Kill
    BY <2>2, IndexRestart DEF ClosePanics, Kill
  <2>3. ASSUME NEW m \in Messages, Lock(m) PROVE IndexInv'
    <3>1. UNCHANGED <<sessions, keyIndex, dbSessions, call>>
      BY <2>3 DEF Lock, memory, disk
    <3>2. mu' \in {"session", "client"}
      BY <2>3, Zenon DEF Lock
    <3> QED
      BY <3>1, <3>2, IndexFrame
  <2> QED
    BY <2>1, <2>2, <2>3, IndexHandle, IndexStart, IndexRest DEF Next
<1> QED
  BY <1>1, <1>2, TypeInvHolds, SessionInvHolds, PTL DEF Spec

(* As long as users give no ports, no random port meets a row and renames  *)
(* do not overlap, the index is exact: every entry leads to the live       *)
(* session with that key, so Handle dereferences no nil under the mutex,   *)
(* and every live session is found (manager.go:48,193-272,299-364).        *)
THEOREM IndexIsExact == ASSUME PortsKept PROVE Spec => []IndexExact
<1>1. Spec => []IndexInv
  BY IndexInvHolds
<1>2. IndexInv => IndexExact
  BY DEF IndexInv
<1> QED
  BY <1>1, <1>2, PTL

(* Then, too, a session that becomes live has its row, be it that of Handle*)
(* or of CreateNamedSession, whichever of them met a row under its id or   *)
(* its key first (manager.go:193-296).                                     *)
THEOREM NewSessionsPersisted == ASSUME PortsKept PROVE Spec => NewSessionPersisted
<1> DEFINE Step == \A s \in Sids : sessions[s] = None /\ sessions'[s] # None
                        => dbSessions'[s] # None
<1>1. TypeInv /\ SessionInv /\ IndexInv /\ [Next]_vars => [Step]_vars
  <2> SUFFICES ASSUME TypeInv, SessionInv, IndexInv, Next,
                      NEW s \in Sids, sessions[s] = None, sessions'[s] # None
               PROVE  dbSessions'[s] # None
    OBVIOUS
  <2>1. \/ NewSession
        \/ \E c \in Callers : CreateNamedSession(c)
    <3> SUFFICES ASSUME ~NewSession, ~\E c \in Callers : CreateNamedSession(c)
                 PROVE  FALSE
      OBVIOUS
    <3>1. ASSUME Restart PROVE FALSE
      BY <3>1 DEF Restart
    <3>2. ASSUME NEW m \in Messages, Lock(m) PROVE FALSE
      BY <3>2 DEF Lock, memory
    <3>3. ASSUME Handle PROVE FALSE
      BY <3>1, <3>3 DEF Handle, NewClient, Found, LoadKeyed, LoadNamed, Prepare, Panic, memory
    <3>4. ASSUME NEW c \in Callers, StartCall(c) PROVE FALSE
      BY <3>4 DEF StartCall, DeleteSession, Update, DeleteConnection, Create, memory
    <3>5. ASSUME NEW c \in Callers, Rest(c) PROVE FALSE
      <4>1. ASSUME DeleteSessionLive(c) PROVE FALSE
        BY <4>1 DEF DeleteSessionLive, RemoveSession, memory, TypeInv, TypeOK
      <4>2. ASSUME DeleteClientLive(c) PROVE FALSE
        <5>1. sessions'[s] \in {None, sessions[s]}
          BY <4>2, Zenon DEF DeleteClientLive, RemoveClient
        <5> QED
          BY <5>1
      <4>3. ASSUME UpdateLive(c) PROVE FALSE
        BY <4>3, UpdateLiveFields
      <4> QED
        BY <3>5, <4>1, <4>2, <4>3
        DEF Rest, DeleteSessionRow, ListSessions, DeleteListedRow, DeleteClientRow,
            UpdateSessionRow, memory
    <3> QED
      BY <3>1, <3>2, <3>3, <3>4, <3>5 DEF Next, ClosePanics, Kill
  <2>2. PICK t \in Sids, ss \in Session :
            /\ Enter(t, ss) /\ sessions[t] = None /\ keyIndex[keyOf(ss)] = None
            /\ SessionRows(keyOf(ss)) \subseteq {t}
            /\ dbSessions[t] # None => keyOf(dbSessions[t]) = keyOf(ss)
    <3>1. CASE NewSession
      BY <3>1 DEF NewSession, TypeInv, WorkOK, IndexInv, EntersFree
    <3>2. ASSUME NEW c \in Callers, CreateNamedSession(c)
          PROVE  \E t \in Sids, ss \in Session :
                    /\ Enter(t, ss) /\ sessions[t] = None /\ keyIndex[keyOf(ss)] = None
                    /\ SessionRows(keyOf(ss)) \subseteq {t}
                    /\ dbSessions[t] # None => keyOf(dbSessions[t]) = keyOf(ss)
      <4>1. PICK t \in SessionIds \ issued, ss \in Session :
                Enter(t, ss) /\ ss.port \in RandomPorts(ss.ip, ss.protocol)
        BY <3>2, CreateFields
      <4>2. t \in Sids /\ sessions[t] = None /\ dbSessions[t] = None
        BY <4>1 DEF SessionInv, SessionIdsDrawn, Sids
      <4>3. keyIndex[keyOf(ss)] = None /\ SessionRows(keyOf(ss)) \subseteq {t}
        BY <4>1, RandomPortFree
      <4> QED
        BY <4>1, <4>2, <4>3
    <3> QED
      BY <2>1, <3>1, <3>2
  <2>3. dbSessions'[t] # None
    BY <2>2, EnterIndexed DEF IndexInv
  <2>4. t = s
    BY <2>2, EnterFields
  <2> QED
    BY <2>3, <2>4
<1>2. Spec => [][Next]_vars
  BY DEF Spec
<1>3. Spec => []IndexInv
  BY IndexInvHolds
<1>4. Spec => [][Step]_vars
  BY <1>1, <1>2, <1>3, TypeInvHolds, SessionInvHolds, PTL
<1> QED
  BY <1>4 DEF NewSessionPersisted

(* No entry of the index leads to nothing, and the mutex is never lost.    *)
NoneDangling == \A k \in Keys : ~Dangling(k)
NotWedged == mu # "wedged"
NoPanic == NoneDangling /\ NotWedged

(* Then neither Handle nor Close dereferences nil: the process is not taken*)
(* down, and no goroutine ends with the mutex locked (manager.go:78-165).  *)
THEOREM NobodyPanics == ASSUME PortsKept PROVE Spec => []NoPanic
<1>1. TypeInv /\ IndexInv => NoneDangling
  <2> SUFFICES ASSUME TypeInv, IndexInv, NEW k \in Keys, keyIndex[k] # None
               PROVE  sessions[keyIndex[k]] # None
    BY DEF NoneDangling, Dangling
  <2>1. keyIndex[k] \in Sids
    BY DEF TypeInv, TypeOK
  <2> QED
    BY <2>1 DEF IndexInv, IndexExact
<1>2. Init => NotWedged
  BY DEF Init, NotWedged
<1>3. TypeInv /\ NoneDangling /\ NotWedged /\ [Next]_vars => NotWedged'
  <2> SUFFICES ASSUME TypeInv, NoneDangling, mu # "wedged", [Next]_vars
               PROVE  mu' # "wedged"
    BY DEF NotWedged
  <2>1. CASE UNCHANGED vars
    BY <2>1 DEF vars
  <2>2. CASE ClosePanics \/ Kill
    BY <2>2 DEF ClosePanics, Kill, Restart
  <2>3. ASSUME NEW m \in Messages, Lock(m) PROVE mu' # "wedged"
    BY <2>3, Zenon DEF Lock
  <2>4. CASE Handle
    <3>1. ~Panic
      BY MessageFields DEF Panic, NoneDangling, TypeInv, WorkOK
    <3> QED
      BY <2>4, <3>1 DEF Handle, NewClient, Found, LoadKeyed, LoadNamed, Prepare, NewSession, Unlock
  <2>5. ASSUME NEW c \in Callers, StartCall(c) PROVE mu' # "wedged"
    BY <2>5 DEF StartCall, DeleteSession, Update, DeleteConnection, Create
  <2>6. ASSUME NEW c \in Callers, Rest(c) PROVE mu' # "wedged"
    BY <2>6 DEF Rest, DeleteSessionRow, DeleteSessionLive, ListSessions, DeleteListedRow,
                DeleteClientRow, DeleteClientLive, UpdateLive, UpdateSessionRow, CreateNamedSession
  <2> QED
    BY <2>1, <2>2, <2>3, <2>4, <2>5, <2>6 DEF Next
<1> QED
  BY <1>1, <1>2, <1>3, TypeInvHolds, IndexInvHolds, PTL DEF Spec, NoPanic
=============================================================================
