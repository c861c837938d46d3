------------------------------ MODULE Pipeline ------------------------------
(***************************************************************************)
(* What Handle does with the messages of one session                       *)
(* (internal/session.Manager): it numbers them, records an activation when *)
(* the session is new or was quiet, counts, and hands the records to the   *)
(* buffer and the hub; and SyncCounts, which carries the counts to the     *)
(* database.  The session and its client are created on demand and lost    *)
(* when the process is killed; their rows stay.  How they are found, edited*)
(* and deleted is the subject of Registry.                                 *)
(*                                                                         *)
(* A step is a critical section of m.mu with the database accesses in it,  *)
(* or one access outside it: the number of the record is read after the    *)
(* mutex was released.                                                     *)
(***************************************************************************)
EXTENDS Integers, Sequences

CONSTANTS
    Workers,        \* the goroutines that call Handle
    ClientTimes,    \* the times that messages may carry; 0 is none
    ActiveWindow,   \* how long a session may be quiet and stay active
    Stall,          \* bound: how long a goroutine waits for the mutex
    Failures,       \* may the database fail?
    MaxClock,       \* bound on the clock
    MaxMessages,    \* bound: how many messages are received
    MaxBoots,       \* bound: how often the process is started
    None            \* no session, client, row or record

ASSUME ClientTimesAssumption == ClientTimes \subseteq Nat
ASSUME WindowAssumption == ActiveWindow \in Nat /\ Stall \in Nat
ASSUME BoundsAssumption ==
    MaxClock \in Nat /\ MaxMessages \in Nat /\ MaxBoots \in Nat \ {0}

Sessions == [seq : Nat, count : Nat, synced : Nat, lastActive : 0..MaxClock]
Clients == [count : Nat, synced : Nat]
Records == [seq : Nat \ {0}, time : Int, received : 0..MaxClock,
            system : BOOLEAN, boot : 1..MaxBoots]
Jobs == [now : 0..MaxClock, time : Nat, rec : Records \cup {None}, before : Nat]

ASSUME NoneAssumption ==
    None \notin Sessions /\ None \notin Clients /\ None \notin Records /\ None \notin Nat

VARIABLES
    clock,          \* time.Now()
    boot,           \* how often the process was started
    session,        \* the session in m.sessions
    client,         \* the client in m.clients
    sessionRow,     \* message_count of the session's row
    clientRow,      \* message_count of the client's row
    at,             \* worker -> where it is in Handle
    job,            \* worker -> its local variables
    appended,       \* history: what the buffer was given, in order
    sent,           \* history: what the hub was given, in order
    received,       \* history: how many messages were received
    counted,        \* history: how many numbers were given out, to activations too
    activated,      \* history: how many of them to activations
    exact           \* history: no kill and no failure so far

registry == <<session, client>>
rows == <<sessionRow, clientRow>>
handles == <<at, job>>
streams == <<appended, sent>>
totals == <<counted, activated, exact>>
vars == <<clock, boot, registry, rows, handles, streams, received, totals>>

NoJob == [now |-> 0, time |-> 0, rec |-> None, before |-> 0]

Init ==
    /\ clock = 0 /\ boot = 1
    /\ session = None /\ client = None
    /\ sessionRow = None /\ clientRow = None
    /\ at = [w \in Workers |-> "idle"]
    /\ job = [w \in Workers |-> NoJob]
    /\ appended = <<>> /\ sent = <<>>
    /\ received = 0 /\ counted = 0 /\ activated = 0
    /\ exact = TRUE

-----------------------------------------------------------------------------
(* Time passes, but no goroutine waits for the mutex longer than Stall.    *)
Advance(d) ==
    /\ clock + d <= MaxClock
    /\ \A w \in Workers : at[w] = "received" => clock + d - job[w].now <= Stall
    /\ clock' = clock + d

Pause ==
    /\ Advance(ActiveWindow)
    /\ UNCHANGED <<boot, registry, rows, handles, streams, received, totals>>

(* Handle takes the time, which no two messages share, before it waits for *)
(* the mutex.                                                              *)
Receive(w, t) ==
    /\ at[w] = "idle" /\ received < MaxMessages
    /\ Advance(1)
    /\ received' = received + 1
    /\ at' = [at EXCEPT ![w] = "received"]
    /\ job' = [job EXCEPT ![w] = [NoJob EXCEPT !.now = clock',
                                               !.time = IF t = 0 THEN clock' ELSE t,
                                               !.before = Len(appended)]]
    /\ UNCHANGED <<boot, registry, rows, streams, totals>>

NewSession == [seq |-> 0, count |-> 0, synced |-> 0, lastActive |-> 0]
NewClient == [count |-> 0, synced |-> 0]

(* What ensureClientLocked and ensureSessionLocked leave behind.           *)
EnsuredSession(now) ==
    IF session # None THEN session ELSE [NewSession EXCEPT !.lastActive = now]
EnsuredClient == IF client # None THEN client ELSE NewClient
EnsuredRow(row) == IF row # None THEN row ELSE 0

Record(seq, time, now, system) ==
    [seq |-> seq, time |-> time, received |-> now, system |-> system, boot |-> boot]

Activation(w) ==
    Record(EnsuredSession(job[w].now).seq + 1, job[w].time - 1, job[w].now, TRUE)

(* The session is newly created or has been inactive for a while.          *)
Reactivates(now) ==
    session = None \/ now - session.lastActive > ActiveWindow

(* Mutations of Counted: the message has the number of what came before;   *)
(* that the session is active is not noted.                                *)
CountedActivationsOnly(now, n) ==
    [EnsuredSession(now) EXCEPT !.seq = @ + n - 1, !.count = @ + n, !.lastActive = now]

CountedStaysQuiet(now, n) == [EnsuredSession(now) EXCEPT !.seq = @ + n, !.count = @ + n]

(* The fields of the session after n more numbers.                         *)
Counted(now, n) ==
    [seq |-> EnsuredSession(now).seq + n, count |-> EnsuredSession(now).count + n,
     synced |-> EnsuredSession(now).synced, lastActive |-> now]

(* Under the mutex: the activation is numbered, appended and sent, and the *)
(* message is numbered.                                                    *)
Lock(w) ==
    LET now == job[w].now
        acts == IF Reactivates(now) THEN <<Activation(w)>> ELSE <<>>
        n == Len(acts) + 1
    IN  /\ at[w] = "received"
        /\ session' = Counted(now, n)
        /\ client' = [EnsuredClient EXCEPT !.count = @ + 1]
        /\ sessionRow' = EnsuredRow(sessionRow)
        /\ clientRow' = EnsuredRow(clientRow)
        /\ appended' = appended \o acts
        /\ sent' = sent \o acts
        /\ counted' = counted + n
        /\ activated' = activated + n - 1
        /\ at' = [at EXCEPT ![w] = "number"]
        /\ UNCHANGED <<clock, boot, job, received, exact>>

(* The record gets the number that the session has by now.                 *)
Number(w) ==
    /\ at[w] = "number"
    /\ job' = [job EXCEPT ![w].rec = Record(session.seq, job[w].time, job[w].now, FALSE)]
    /\ at' = [at EXCEPT ![w] = "append"]
    /\ UNCHANGED <<clock, boot, registry, rows, streams, received, totals>>

Append_(w) ==
    /\ at[w] = "append"
    /\ appended' = Append(appended, job[w].rec)
    /\ at' = [at EXCEPT ![w] = "send"]
    /\ UNCHANGED <<clock, boot, registry, rows, job, sent, received, totals>>

SendMessage(w) ==
    /\ at[w] = "send"
    /\ sent' = Append(sent, job[w].rec)
    /\ at' = [at EXCEPT ![w] = "idle"]
    /\ job' = [job EXCEPT ![w] = NoJob]
    /\ UNCHANGED <<clock, boot, registry, rows, appended, received, totals>>

-----------------------------------------------------------------------------
(* SyncCounts.  AddCounts adds the difference to the row; its error is     *)
(* dropped, and the difference counts as stored.                           *)
Delta(x) == x.count - x.synced
Unsynced(x) == IF x = None THEN 0 ELSE Delta(x)

(* Mutation of Synced: what was added is not noted.                        *)
SyncedForgets(x) == x

Synced(x) == IF x = None THEN None ELSE [x EXCEPT !.synced = x.count]

(* Mutation of Sync: the last message of a client waits for the next.      *)
SyncSkipsSingle ==
    /\ Unsynced(session) > 1 /\ Unsynced(client) > 1
    /\ session' = Synced(session)
    /\ client' = Synced(client)
    /\ sessionRow' = sessionRow + Unsynced(session)
    /\ clientRow' = clientRow + Unsynced(client)
    /\ UNCHANGED <<clock, boot, handles, streams, received, totals>>

Sync ==
    /\ Unsynced(session) # 0 \/ Unsynced(client) # 0
    /\ session' = Synced(session)
    /\ client' = Synced(client)
    /\ sessionRow' = sessionRow + Unsynced(session)
    /\ clientRow' = clientRow + Unsynced(client)
    /\ UNCHANGED <<clock, boot, handles, streams, received, totals>>

(* One of the two statements, or both, fail.                               *)
SyncFails ==
    /\ Failures
    /\ Unsynced(session) # 0 \/ Unsynced(client) # 0
    /\ session' = Synced(session)
    /\ client' = Synced(client)
    /\ \/ sessionRow' = sessionRow + Unsynced(session) /\ UNCHANGED clientRow
       \/ clientRow' = clientRow + Unsynced(client) /\ UNCHANGED sessionRow
       \/ UNCHANGED rows
    /\ exact' = FALSE
    /\ UNCHANGED <<clock, boot, handles, streams, received, counted, activated>>

(* The process is killed and started again.                                *)
Kill ==
    /\ boot < MaxBoots
    /\ boot' = boot + 1
    /\ session' = None /\ client' = None
    /\ at' = [w \in Workers |-> "idle"]
    /\ job' = [w \in Workers |-> NoJob]
    /\ exact' = FALSE
    /\ UNCHANGED <<clock, rows, streams, received, counted, activated>>

-----------------------------------------------------------------------------
Proceed(w) == Lock(w) \/ Number(w) \/ Append_(w) \/ SendMessage(w)

Next ==
    \/ \E w \in Workers : Proceed(w) \/ \E t \in ClientTimes : Receive(w, t)
    \/ Pause \/ Sync \/ SyncFails \/ Kill

Spec == Init /\ [][Next]_vars

(* A message that was received is handled, and the ticker of the counts    *)
(* keeps firing.                                                           *)
Fairness == WF_vars(Sync) /\ \A w \in Workers : WF_vars(Proceed(w))

FairSpec == Spec /\ Fairness
-----------------------------------------------------------------------------

TypeOK ==
    /\ clock \in 0..MaxClock /\ boot \in 1..MaxBoots
    /\ session \in Sessions \cup {None} /\ client \in Clients \cup {None}
    /\ sessionRow \in Nat \cup {None} /\ clientRow \in Nat \cup {None}
    /\ at \in [Workers -> {"idle", "received", "number", "append", "send"}]
    /\ job \in [Workers -> Jobs]
    /\ appended \in Seq(Records) /\ sent \in Seq(Records)
    /\ received \in 0..MaxMessages /\ counted \in Nat /\ activated \in Nat
    /\ exact \in BOOLEAN

(* A message that arrives after a record of its session was handed to the  *)
(* buffer gets a larger number, however long it waits and although the     *)
(* number is read after the mutex is released (manager.go:123-133).        *)
NumbersFollowOrder ==
    \A w \in Workers : at[w] \in {"append", "send"} =>
        \A i \in 1..job[w].before :
            appended[i].boot = boot => appended[i].seq < job[w].rec.seq

(* Activations are rare: since a message may be handled with a time that   *)
(* is as old as its wait, two of them are at least the window less that    *)
(* wait apart (manager.go:83,109,126).                                     *)
ActivationsApart ==
    \A i, j \in 1..Len(appended) :
        /\ appended[i].system /\ appended[j].system
        /\ appended[i].boot = appended[j].boot /\ i < j
        => appended[j].received - appended[i].received > ActiveWindow - Stall

(* Counts are never too large, and exact without failures and kills: the   *)
(* session's covers activations and the client's does not, and what is not *)
(* in the row is not marked as synced (manager.go:109-128,454-469).        *)
CountsAdd ==
    LET inSession == EnsuredRow(sessionRow) + Unsynced(session)
        inClient == EnsuredRow(clientRow) + Unsynced(client)
    IN  /\ inSession <= counted /\ inClient <= counted - activated
        /\ exact => inSession = counted /\ inClient = counted - activated

(* The counts in the database catch up (manager.go:454-469,488-504).       *)
CountsSettle ==
    <>[](exact => EnsuredRow(sessionRow) = counted /\ EnsuredRow(clientRow) = counted - activated)

(* No record takes the key of another, in this run of the program or an    *)
(* earlier one: the archive is append-only (leveldb.go:14,37).             *)
KeysDistinct ==
    \A i, j \in 1..Len(appended) :
        i # j => <<appended[i].time, appended[i].seq>> # <<appended[j].time, appended[j].seq>>
=============================================================================
