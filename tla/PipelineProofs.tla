--------------------------- MODULE PipelineProofs ---------------------------
(***************************************************************************)
(* Theorems about the message pipeline, for any goroutines, times and      *)
(* bounds.                                                                 *)
(***************************************************************************)
EXTENDS Pipeline, TLAPS

-----------------------------------------------------------------------------
(* A critical section of Handle with an activation, and one without.       *)

LEMMA LockCases ==
    ASSUME TypeOK, NEW w \in Workers, Lock(w)
    PROVE  /\ job[w].now \in 0..MaxClock
           /\ \/ /\ Reactivates(job[w].now)
                 /\ session' = Counted(job[w].now, 2)
                 /\ appended' = Append(appended, Activation(w))
                 /\ sent' = Append(sent, Activation(w))
                 /\ counted' = counted + 2 /\ activated' = activated + 1
              \/ /\ ~Reactivates(job[w].now)
                 /\ session' = Counted(job[w].now, 1)
                 /\ appended' = appended /\ sent' = sent
                 /\ counted' = counted + 1 /\ activated' = activated
<1> DEFINE now == job[w].now
<1>1. now \in 0..MaxClock /\ appended \in Seq(Records) /\ sent \in Seq(Records)
  BY DEF TypeOK, Jobs
<1>2. counted \in Nat /\ activated \in Nat
  BY DEF TypeOK
<1>3. CASE Reactivates(now)
  <2>1. Len(<<Activation(w)>>) = 1
    OBVIOUS
  <2>2. /\ session' = Counted(now, 2)
        /\ appended' = appended \o <<Activation(w)>>
        /\ sent' = sent \o <<Activation(w)>>
        /\ counted' = counted + 2 /\ activated' = activated + 2 - 1
    BY <1>3, <2>1 DEF Lock
  <2>3. appended \o <<Activation(w)>> = Append(appended, Activation(w))
    BY <1>1, SMT
  <2>4. sent \o <<Activation(w)>> = Append(sent, Activation(w))
    BY <1>1, SMT
  <2> QED
    BY <1>1, <1>2, <1>3, <2>2, <2>3, <2>4
<1>4. CASE ~Reactivates(now)
  <2>1. Len(<<>>) = 0
    OBVIOUS
  <2>2. /\ session' = Counted(now, 1)
        /\ appended' = appended \o <<>> /\ sent' = sent \o <<>>
        /\ counted' = counted + 1 /\ activated' = activated + 1 - 1
    BY <1>4, <2>1 DEF Lock
  <2>3. appended \o <<>> = appended /\ sent \o <<>> = sent
    BY <1>1, SMT
  <2> QED
    BY <1>1, <1>2, <1>4, <2>2, <2>3
<1> QED
  BY <1>3, <1>4

LEMMA CountedFields ==
    ASSUME TypeOK, NEW now \in 0..MaxClock, NEW n \in Nat
    PROVE  /\ Counted(now, n) \in Sessions
           /\ Counted(now, n).seq = EnsuredSession(now).seq + n
           /\ Counted(now, n).count = EnsuredSession(now).count + n
           /\ Counted(now, n).synced = EnsuredSession(now).synced
           /\ Counted(now, n).lastActive = now
           /\ EnsuredSession(now) \in Sessions
<1>1. EnsuredSession(now) \in Sessions
  BY DEF EnsuredSession, NewSession, TypeOK, Sessions
<1>2. EnsuredSession(now).seq \in Nat /\ EnsuredSession(now).count \in Nat
      /\ EnsuredSession(now).synced \in Nat
  BY <1>1 DEF Sessions
<1> QED
  BY <1>1, <1>2 DEF Counted, Sessions

LEMMA ActivationType ==
    ASSUME TypeOK, NEW w \in Workers
    PROVE  Activation(w) \in Records
<1>1. job[w].now \in 0..MaxClock /\ job[w].time \in Nat
  BY DEF TypeOK, Jobs
<1>2. EnsuredSession(job[w].now).seq \in Nat
  BY <1>1, CountedFields DEF Sessions
<1>3. boot \in 1..MaxBoots
  BY DEF TypeOK
<1> QED
  BY <1>1, <1>2, <1>3 DEF Activation, Record, Records

-----------------------------------------------------------------------------
(* What a step of Next does, for the case distinctions below.              *)

LEMMA NextCases ==
    ASSUME Next
    PROVE  \/ \E w \in Workers : Lock(w) \/ Number(w) \/ Append_(w) \/ SendMessage(w)
           \/ \E w \in Workers : \E t \in ClientTimes : Receive(w, t)
           \/ Pause \/ Sync \/ SyncFails \/ Kill
BY DEF Next, Proceed

LEMMA EnsuredClientType == TypeOK => EnsuredClient \in Clients
BY DEF TypeOK, EnsuredClient, NewClient, Clients

-----------------------------------------------------------------------------
(* The types are inductive together with LiveInv: a goroutine that is past *)
(* the mutex has a session, which has a number and a row, as has its       *)
(* client, and no more is noted as synced than was counted.                *)
LiveInv ==
    /\ session = None <=> client = None
    /\ session # None =>
            sessionRow # None /\ session.seq > 0 /\ session.synced <= session.count
    /\ client # None => clientRow # None /\ client.synced <= client.count
    /\ \A w \in Workers : at[w] \in {"number", "append", "send"} => session # None
    /\ \A w \in Workers : at[w] \in {"append", "send"} => job[w].rec # None

StateInv == TypeOK /\ LiveInv

LEMMA LockState ==
    ASSUME StateInv, NEW w \in Workers, Lock(w) PROVE StateInv'
<1> USE DEF registry, rows, handles, streams, totals
<1>1. TypeOK /\ LiveInv
  BY DEF StateInv
<1>2. PICK n \in {1, 2} : session' = Counted(job[w].now, n) /\ job[w].now \in 0..MaxClock
  BY <1>1, LockCases
<1>3. /\ session' \in Sessions /\ session'.seq > 0 /\ session'.synced <= session'.count
  <2>1. EnsuredSession(job[w].now).synced <= EnsuredSession(job[w].now).count
    BY <1>1, <1>2 DEF EnsuredSession, NewSession, LiveInv, TypeOK, Sessions
  <2>2. /\ Counted(job[w].now, n) \in Sessions
        /\ Counted(job[w].now, n).seq = EnsuredSession(job[w].now).seq + n
        /\ Counted(job[w].now, n).count = EnsuredSession(job[w].now).count + n
        /\ Counted(job[w].now, n).synced = EnsuredSession(job[w].now).synced
        /\ EnsuredSession(job[w].now) \in Sessions
    BY <1>1, <1>2, CountedFields
  <2>3. /\ EnsuredSession(job[w].now).seq \in Nat
        /\ EnsuredSession(job[w].now).count \in Nat
        /\ EnsuredSession(job[w].now).synced \in Nat
    BY <2>2 DEF Sessions
  <2> QED
    BY <1>2, <2>1, <2>2, <2>3
<1>4. /\ appended' \in Seq(Records) /\ sent' \in Seq(Records)
      /\ counted' \in Nat /\ activated' \in Nat
  <2>1. Activation(w) \in Records
    BY <1>1, ActivationType
  <2>2. /\ appended' = appended \/ appended' = Append(appended, Activation(w))
        /\ sent' = sent \/ sent' = Append(sent, Activation(w))
        /\ counted' \in {counted + 1, counted + 2}
        /\ activated' \in {activated, activated + 1}
    BY <1>1, LockCases
  <2>3. /\ appended \in Seq(Records) /\ sent \in Seq(Records)
        /\ counted \in Nat /\ activated \in Nat
    BY <1>1 DEF TypeOK
  <2>4. Append(appended, Activation(w)) \in Seq(Records)
    BY <2>1, <2>3
  <2>5. Append(sent, Activation(w)) \in Seq(Records)
    BY <2>1, <2>3
  <2>6. appended' \in Seq(Records) /\ sent' \in Seq(Records)
    BY <2>2, <2>3, <2>4, <2>5
  <2>7. counted' \in Nat /\ activated' \in Nat
    BY <2>2, <2>3
  <2> QED
    BY <2>6, <2>7
<1>5. client' \in Clients /\ client'.synced <= client'.count
  <2>1. EnsuredClient \in Clients /\ EnsuredClient.synced <= EnsuredClient.count
    BY <1>1 DEF EnsuredClient, NewClient, LiveInv, TypeOK, Clients
  <2>2. client' = [EnsuredClient EXCEPT !.count = EnsuredClient.count + 1]
    BY DEF Lock
  <2> QED
    BY <2>1, <2>2 DEF Clients
<1>6. sessionRow' \in Nat /\ clientRow' \in Nat
  BY <1>1 DEF Lock, EnsuredRow, TypeOK
<1>7. TypeOK'
  BY <1>1, <1>3, <1>4, <1>5, <1>6 DEF Lock, TypeOK
<1>8. LiveInv'
  BY <1>1, <1>3, <1>5, <1>6, NoneAssumption DEF Lock, LiveInv, TypeOK
<1> QED
  BY <1>7, <1>8 DEF StateInv

LEMMA HandleState ==
    ASSUME StateInv, NEW w \in Workers, Number(w) \/ Append_(w) \/ SendMessage(w)
    PROVE  StateInv'
<1> USE DEF registry, rows, handles, streams, totals
<1>1. TypeOK /\ LiveInv
  BY DEF StateInv
<1>2. CASE Number(w)
  <2> DEFINE r == Record(session.seq, job[w].time, job[w].now, FALSE)
  <2>1. r \in Records /\ r # None
    <3>1. session \in Sessions /\ session.seq > 0
      BY <1>1, <1>2 DEF Number, LiveInv, TypeOK
    <3>2. session.seq \in Nat \ {0}
      BY <3>1 DEF Sessions
    <3>3. job[w].time \in Int /\ job[w].now \in 0..MaxClock /\ boot \in 1..MaxBoots
      BY <1>1 DEF TypeOK, Jobs
    <3>4. r \in Records
      BY <3>2, <3>3 DEF Record, Records
    <3> QED
      BY <3>4, NoneAssumption
  <2>2. job' = [job EXCEPT ![w] = [job[w] EXCEPT !.rec = r]]
    BY <1>2 DEF Number
  <2>3. [job[w] EXCEPT !.rec = r] \in Jobs
    BY <1>1, <2>1 DEF TypeOK, Jobs
  <2>4. job' \in [Workers -> Jobs] /\ job'[w].rec = r
      /\ \A v \in Workers \ {w} : job'[v] = job[v]
    BY <1>1, <2>2, <2>3 DEF TypeOK, Jobs
  <2>5. TypeOK'
    BY <1>1, <1>2, <2>4 DEF Number, TypeOK
  <2>6. LiveInv'
    BY <1>1, <1>2, <2>1, <2>4 DEF Number, TypeOK, LiveInv
  <2> QED
    BY <2>5, <2>6 DEF StateInv
<1>3. CASE Append_(w)
  <2>1. job[w].rec \in Records
    BY <1>1, <1>3 DEF Append_, LiveInv, TypeOK, Jobs
  <2>2. TypeOK'
    BY <1>1, <1>3, <2>1 DEF Append_, TypeOK
  <2>3. LiveInv'
    BY <1>1, <1>3 DEF Append_, TypeOK, LiveInv
  <2> QED
    BY <2>2, <2>3 DEF StateInv
<1>4. CASE SendMessage(w)
  <2>1. job[w].rec \in Records
    BY <1>1, <1>4 DEF SendMessage, LiveInv, TypeOK, Jobs
  <2>2. NoJob \in Jobs
    BY BoundsAssumption DEF NoJob, Jobs
  <2>3. TypeOK'
    BY <1>1, <1>4, <2>1, <2>2 DEF SendMessage, TypeOK
  <2>4. LiveInv'
    BY <1>1, <1>4 DEF SendMessage, TypeOK, LiveInv
  <2> QED
    BY <2>3, <2>4 DEF StateInv
<1> QED
  BY <1>2, <1>3, <1>4

LEMMA ReceiveState ==
    ASSUME StateInv, NEW w \in Workers, NEW t \in ClientTimes, Receive(w, t)
    PROVE  StateInv'
<1> USE DEF registry, rows, handles, streams, totals
<1>1. TypeOK /\ LiveInv
  BY DEF StateInv
<1> DEFINE j == [NoJob EXCEPT !.now = clock', !.time = IF t = 0 THEN clock' ELSE t,
                              !.before = Len(appended)]
<1>2. clock' \in 0..MaxClock /\ clock' \in Nat
  BY <1>1, BoundsAssumption DEF Receive, Advance, TypeOK
<1>3. Len(appended) \in Nat /\ t \in Nat
  BY <1>1, ClientTimesAssumption DEF TypeOK
<1>4. j \in Jobs
  BY <1>2, <1>3 DEF NoJob, Jobs
<1>5. job' = [job EXCEPT ![w] = j]
  BY DEF Receive
<1>6. TypeOK'
  BY <1>1, <1>2, <1>4, <1>5, BoundsAssumption DEF Receive, TypeOK
<1>7. LiveInv'
  BY <1>1, <1>5 DEF Receive, TypeOK, LiveInv
<1> QED
  BY <1>6, <1>7 DEF StateInv

(* What both forms of SyncCounts do.                                       *)
LEMMA SyncFields ==
    ASSUME StateInv, session' = Synced(session), client' = Synced(client),
           Unsynced(session) # 0 \/ Unsynced(client) # 0
    PROVE  /\ session \in Sessions /\ client \in Clients
           /\ session' \in Sessions /\ client' \in Clients
           /\ session'.seq = session.seq /\ session'.lastActive = session.lastActive
           /\ session'.synced = session'.count /\ client'.synced = client'.count
           /\ Unsynced(session) \in Nat /\ Unsynced(client) \in Nat
           /\ Unsynced(session') = 0 /\ Unsynced(client') = 0
           /\ sessionRow \in Nat /\ clientRow \in Nat
<1>1. TypeOK /\ LiveInv
  BY DEF StateInv
<1>2. session # None /\ client # None
  BY <1>1 DEF Unsynced, LiveInv
<1>3. session \in Sessions /\ client \in Clients
  BY <1>1, <1>2 DEF TypeOK
<1>4. /\ session' = [session EXCEPT !.synced = session.count]
      /\ client' = [client EXCEPT !.synced = client.count]
  BY <1>2 DEF Synced
<1>5. /\ session' \in Sessions /\ client' \in Clients
      /\ session'.seq = session.seq /\ session'.lastActive = session.lastActive
      /\ session'.synced = session'.count /\ client'.synced = client'.count
  BY <1>3, <1>4 DEF Sessions, Clients
<1>6. Unsynced(session) \in Nat /\ Unsynced(client) \in Nat
  BY <1>1, <1>2, <1>3 DEF Unsynced, Delta, LiveInv, Sessions, Clients
<1>7. Unsynced(session') = 0 /\ Unsynced(client') = 0
  BY <1>5 DEF Unsynced, Delta, Sessions, Clients
<1>8. sessionRow \in Nat /\ clientRow \in Nat
  BY <1>1, <1>2 DEF TypeOK, LiveInv
<1> QED
  BY <1>3, <1>5, <1>6, <1>7, <1>8

LEMMA SyncState ==
    ASSUME StateInv, Sync \/ SyncFails PROVE StateInv'
<1> USE DEF registry, rows, handles, streams, totals
<1>1. TypeOK /\ LiveInv
  BY DEF StateInv
<1>2. /\ session \in Sessions /\ client \in Clients
      /\ session' \in Sessions /\ client' \in Clients
      /\ session'.seq = session.seq
      /\ session'.synced = session'.count /\ client'.synced = client'.count
      /\ Unsynced(session) \in Nat /\ Unsynced(client) \in Nat
      /\ sessionRow \in Nat /\ clientRow \in Nat
  BY SyncFields DEF Sync, SyncFails
<1>3. sessionRow' \in Nat /\ clientRow' \in Nat
  BY <1>2 DEF Sync, SyncFails
<1>4. session # None
  BY <1>2, NoneAssumption
<1>5. TypeOK'
  BY <1>1, <1>2, <1>3 DEF Sync, SyncFails, TypeOK
<1>6. session' # None /\ client' # None /\ sessionRow' # None /\ clientRow' # None
  BY <1>2, <1>3, NoneAssumption
<1>7. session'.seq > 0 /\ session'.synced <= session'.count /\ client'.synced <= client'.count
  BY <1>1, <1>2, <1>4 DEF LiveInv, Sessions, Clients
<1>8. LiveInv'
  BY <1>1, <1>6, <1>7 DEF Sync, SyncFails, LiveInv
<1> QED
  BY <1>5, <1>8 DEF StateInv

LEMMA KillState ==
    ASSUME StateInv, Kill PROVE StateInv'
<1> USE DEF registry, rows, handles, streams, totals
<1>1. TypeOK /\ LiveInv
  BY DEF StateInv
<1>2. NoJob \in Jobs
  BY BoundsAssumption DEF NoJob, Jobs
<1>3. TypeOK'
  <2>1. boot' \in 1..MaxBoots
    BY <1>1, BoundsAssumption DEF Kill, TypeOK
  <2>2. job' \in [Workers -> Jobs]
    BY <1>2 DEF Kill
  <2> QED
    BY <1>1, <2>1, <2>2 DEF Kill, TypeOK
<1>4. LiveInv'
  BY <1>1 DEF Kill, LiveInv
<1> QED
  BY <1>3, <1>4 DEF StateInv

LEMMA PauseState ==
    ASSUME StateInv, Pause \/ UNCHANGED vars PROVE StateInv'
<1> USE DEF registry, rows, handles, streams, totals
<1>1. TypeOK /\ LiveInv
  BY DEF StateInv
<1>2. clock' \in 0..MaxClock
  BY <1>1, BoundsAssumption, WindowAssumption DEF Pause, Advance, TypeOK, vars
<1>3. TypeOK'
  BY <1>1, <1>2 DEF Pause, TypeOK, vars
<1>4. LiveInv'
  BY <1>1 DEF Pause, LiveInv, vars
<1> QED
  BY <1>3, <1>4 DEF StateInv

LEMMA StateInvHolds == Spec => []StateInv
<1>1. Init => StateInv
  <2> SUFFICES ASSUME Init PROVE TypeOK /\ LiveInv
    BY DEF StateInv
  <2>1. <<>> \in Seq(Records)
    OBVIOUS
  <2>2. NoJob \in Jobs
    BY BoundsAssumption DEF NoJob, Jobs
  <2>3. clock \in 0..MaxClock /\ boot \in 1..MaxBoots /\ received \in 0..MaxMessages
    BY BoundsAssumption DEF Init
  <2>4. TypeOK
    BY <2>1, <2>2, <2>3 DEF Init, TypeOK
  <2>5. LiveInv
    BY DEF Init, LiveInv
  <2> QED
    BY <2>4, <2>5
<1>2. StateInv /\ [Next]_vars => StateInv'
  BY NextCases, LockState, HandleState, ReceiveState, SyncState, KillState, PauseState
<1> QED
  BY <1>1, <1>2, PTL DEF Spec

(* The variables keep their types: every record that reaches the buffer or *)
(* the hub has a positive number, and no count is read from a session that *)
(* is gone (manager.go:130-145,454-469).                                   *)
THEOREM TypeCorrect == Spec => []TypeOK
<1>1. StateInv => TypeOK
  BY DEF StateInv
<1> QED
  BY <1>1, StateInvHolds, PTL

-----------------------------------------------------------------------------
(* Counts.                                                                 *)

LEMMA LockTally ==
    ASSUME StateInv, NEW w \in Workers, Lock(w)
    PROVE  \E n \in {1, 2} :
             /\ Unsynced(session') = Unsynced(session) + n
             /\ Unsynced(client') = Unsynced(client) + 1
             /\ Unsynced(session) \in Nat /\ Unsynced(client) \in Nat
             /\ counted' = counted + n /\ activated' = activated + n - 1
<1>1. TypeOK /\ LiveInv
  BY DEF StateInv
<1>2. PICK n \in {1, 2} : /\ session' = Counted(job[w].now, n) /\ job[w].now \in 0..MaxClock
                          /\ counted' = counted + n /\ activated' = activated + n - 1
  <2>1. counted \in Nat /\ activated \in Nat
    BY <1>1 DEF TypeOK
  <2> QED
    BY <1>1, <2>1, LockCases
<1>3. session' # None /\ client' # None
  <2>1. TypeOK' /\ session' \in Sessions
    BY <1>1, <1>2, LockState, CountedFields DEF StateInv
  <2>2. session' # None
    BY <2>1, NoneAssumption
  <2> QED
    BY <2>2, LockState DEF StateInv, LiveInv
<1>4. Unsynced(session') = Unsynced(session) + n /\ Unsynced(session) \in Nat
  <2>1. CASE session = None
    BY <1>2, <1>3, <2>1 DEF Unsynced, Delta, Counted, EnsuredSession, NewSession
  <2>2. CASE session # None
    <3>1. session \in Sessions /\ session.synced <= session.count
      BY <1>1, <2>2 DEF TypeOK, LiveInv
    <3>2. /\ session.count \in Nat /\ session.synced \in Nat
      BY <3>1 DEF Sessions
    <3>3. session'.count = session.count + n /\ session'.synced = session.synced
      BY <1>2, <2>2 DEF Counted, EnsuredSession
    <3> QED
      BY <1>3, <2>2, <3>1, <3>2, <3>3 DEF Unsynced, Delta
  <2> QED
    BY <2>1, <2>2
<1>5. Unsynced(client') = Unsynced(client) + 1 /\ Unsynced(client) \in Nat
  <2>1. CASE client = None
    <3>1. client' = [NewClient EXCEPT !.count = NewClient.count + 1]
      BY <2>1 DEF Lock, EnsuredClient
    <3> QED
      BY <1>3, <2>1, <3>1 DEF Unsynced, Delta, NewClient
  <2>2. CASE client # None
    <3>1. client \in Clients /\ client.synced <= client.count
      BY <1>1, <2>2 DEF TypeOK, LiveInv
    <3>2. client' = [client EXCEPT !.count = client.count + 1]
      BY <2>2 DEF Lock, EnsuredClient
    <3>3. client'.count = client.count + 1 /\ client'.synced = client.synced
      BY <3>1, <3>2 DEF Clients
    <3> QED
      BY <1>3, <2>2, <3>1, <3>3 DEF Unsynced, Delta, Clients
  <2> QED
    BY <2>1, <2>2
<1> QED
  BY <1>2, <1>4, <1>5

LEMMA CountsStep ==
    ASSUME StateInv, CountsAdd, [Next]_vars PROVE CountsAdd'
<1> USE DEF registry, rows, handles, streams, totals
<1>1. TypeOK /\ LiveInv
  BY DEF StateInv
<1>2. /\ counted \in Nat /\ activated \in Nat
      /\ EnsuredRow(sessionRow) \in Nat /\ EnsuredRow(clientRow) \in Nat
  BY <1>1 DEF TypeOK, EnsuredRow
<1>3. ASSUME NEW w \in Workers, Lock(w) PROVE CountsAdd'
  <2>1. PICK n \in {1, 2} :
             /\ Unsynced(session') = Unsynced(session) + n
             /\ Unsynced(client') = Unsynced(client) + 1
             /\ Unsynced(session) \in Nat /\ Unsynced(client) \in Nat
             /\ counted' = counted + n /\ activated' = activated + n - 1
    BY <1>3, LockTally
  <2>2. /\ EnsuredRow(sessionRow') = EnsuredRow(sessionRow)
        /\ EnsuredRow(clientRow') = EnsuredRow(clientRow)
        /\ exact' = exact
    BY <1>3, <1>2, NoneAssumption DEF Lock, EnsuredRow
  <2> QED
    BY <1>2, <2>1, <2>2 DEF CountsAdd
<1>4. CASE Sync \/ SyncFails
  <2>1. /\ Unsynced(session) \in Nat /\ Unsynced(client) \in Nat
        /\ Unsynced(session') = 0 /\ Unsynced(client') = 0
        /\ sessionRow \in Nat /\ clientRow \in Nat
    BY <1>4, SyncFields DEF Sync, SyncFails
  <2>2. sessionRow # None /\ clientRow # None
    BY <2>1, NoneAssumption
  <2>3. /\ counted' = counted /\ activated' = activated
        /\ EnsuredRow(sessionRow) = sessionRow /\ EnsuredRow(clientRow) = clientRow
    BY <1>4, <2>2 DEF Sync, SyncFails, EnsuredRow
  <2>4. /\ sessionRow' \in Nat /\ clientRow' \in Nat
        /\ sessionRow' <= sessionRow + Unsynced(session)
        /\ clientRow' <= clientRow + Unsynced(client)
    BY <1>4, <2>1 DEF Sync, SyncFails
  <2>9. exact' => /\ exact
                  /\ sessionRow' = sessionRow + Unsynced(session)
                  /\ clientRow' = clientRow + Unsynced(client)
    BY <1>4 DEF Sync, SyncFails
  <2>5. EnsuredRow(sessionRow') = sessionRow' /\ EnsuredRow(clientRow') = clientRow'
    BY <2>4, NoneAssumption DEF EnsuredRow
  <2>6. /\ sessionRow + Unsynced(session) <= counted
        /\ clientRow + Unsynced(client) <= counted - activated
    BY <2>3 DEF CountsAdd
  <2>10. exact => /\ sessionRow + Unsynced(session) = counted
                  /\ clientRow + Unsynced(client) = counted - activated
    BY <2>3 DEF CountsAdd
  <2>7. sessionRow' + 0 <= counted' /\ clientRow' + 0 <= counted' - activated'
    <3>1. sessionRow + Unsynced(session) \in Nat /\ clientRow + Unsynced(client) \in Nat
      BY <2>1
    <3>2. sessionRow' <= counted /\ clientRow' <= counted - activated
      BY <1>2, <2>4, <2>6, <3>1
    <3> QED
      BY <2>3, <2>4, <3>2
  <2>8. ASSUME exact'
        PROVE  sessionRow' + 0 = counted' /\ clientRow' + 0 = counted' - activated'
    <3>1. /\ sessionRow' = sessionRow + Unsynced(session)
          /\ clientRow' = clientRow + Unsynced(client)
          /\ sessionRow + Unsynced(session) = counted
          /\ clientRow + Unsynced(client) = counted - activated
      BY <2>8, <2>9, <2>10
    <3> QED
      BY <1>2, <2>1, <2>3, <2>4, <3>1
  <2> QED
    BY <2>1, <2>5, <2>7, <2>8 DEF CountsAdd
<1>5. CASE Kill
  <2>1. Unsynced(session') = 0 /\ Unsynced(client') = 0
    BY <1>5 DEF Kill, Unsynced
  <2>2. Unsynced(session) \in Nat
    <3>1. CASE session # None
      BY <1>1, <3>1 DEF Unsynced, Delta, TypeOK, LiveInv, Sessions
    <3> QED
      BY <3>1 DEF Unsynced
  <2>4. Unsynced(client) \in Nat
    <3>1. CASE client # None
      BY <1>1, <3>1 DEF Unsynced, Delta, TypeOK, LiveInv, Clients
    <3> QED
      BY <3>1 DEF Unsynced
  <2>3. UNCHANGED <<sessionRow, clientRow, counted, activated>> /\ ~exact'
    BY <1>5 DEF Kill
  <2> QED
    BY <1>2, <2>1, <2>2, <2>3, <2>4 DEF CountsAdd
<1>6. ASSUME UNCHANGED <<registry, rows, totals>> PROVE CountsAdd'
  BY <1>6 DEF CountsAdd
<1>7. ASSUME NEW w \in Workers, Number(w) \/ Append_(w) \/ SendMessage(w) PROVE CountsAdd'
  BY <1>6, <1>7 DEF Number, Append_, SendMessage
<1>8. ASSUME NEW w \in Workers, NEW t \in ClientTimes, Receive(w, t) PROVE CountsAdd'
  BY <1>6, <1>8 DEF Receive
<1>9. CASE Pause \/ UNCHANGED vars
  BY <1>6, <1>9 DEF Pause, vars
<1> QED
  BY <1>3, <1>4, <1>5, <1>7, <1>8, <1>9, NextCases

(* Counts are never too large, and exact without failures and kills        *)
(* (manager.go:109-128,454-469).                                           *)
THEOREM CountsAddUp == Spec => []CountsAdd
<1>1. Init => CountsAdd
  BY NoneAssumption DEF Init, CountsAdd, EnsuredRow, Unsynced
<1>2. StateInv /\ CountsAdd /\ [Next]_vars => CountsAdd'
  BY CountsStep
<1> QED
  BY <1>1, <1>2, StateInvHolds, PTL DEF Spec

-----------------------------------------------------------------------------
(* Numbers and activations.  In this run of the program the session has    *)
(* the largest number of all that was appended; a record that is on its way*)
(* has the number of a session that exists, and of this run; a goroutine   *)
(* past the mutex has raised the number above all that was there when its  *)
(* message arrived.                                                        *)
OrderInv ==
    /\ \A i \in 1..Len(appended) : appended[i].boot <= boot /\
            (appended[i].boot = boot => session # None /\ appended[i].seq <= session.seq)
    /\ \A w \in Workers : at[w] # "idle" => job[w].before <= Len(appended)
    /\ \A w \in Workers : at[w] = "number" => \A i \in 1..job[w].before :
            appended[i].boot = boot => appended[i].seq < session.seq
    /\ \A w \in Workers : at[w] \in {"append", "send"} =>
            job[w].rec.boot = boot /\ job[w].rec.seq <= session.seq
    /\ NumbersFollowOrder

(* What is appended to the stream of the buffer keeps what was there.      *)
LEMMA AppendKeeps ==
    ASSUME NEW S, NEW s \in Seq(S), NEW e \in S
    PROVE  /\ Append(s, e) \in Seq(S) /\ Len(Append(s, e)) = Len(s) + 1
           /\ Append(s, e)[Len(s) + 1] = e
           /\ \A i \in 1..Len(s) : Append(s, e)[i] = s[i] /\ s[i] \in S
           /\ \A i \in 1..Len(Append(s, e)) : i \in 1..Len(s) \/ i = Len(s) + 1
BY SMT

(* What Lock does to the stream and the session's number.                  *)
LEMMA LockStream ==
    ASSUME StateInv, NEW w \in Workers, Lock(w)
    PROVE  /\ session' # None /\ session' \in Sessions
           /\ session # None => session'.seq > session.seq
           /\ \/ appended' = appended /\ sent' = sent /\ session # None
              \/ /\ appended' = Append(appended, Activation(w))
                 /\ sent' = Append(sent, Activation(w))
                 /\ Activation(w).seq < session'.seq
                 /\ session # None => Activation(w).seq > session.seq
           /\ session'.lastActive = job[w].now
           /\ Activation(w) \in Records /\ Activation(w).boot = boot
           /\ Activation(w).system /\ Activation(w).received = job[w].now
<1>1. TypeOK /\ LiveInv
  BY DEF StateInv
<1> DEFINE now == job[w].now
<1>2. now \in 0..MaxClock
  BY <1>1 DEF TypeOK, Jobs
<1>3. /\ EnsuredSession(now) \in Sessions /\ EnsuredSession(now).seq \in Nat
      /\ session # None => EnsuredSession(now) = session
  BY <1>1, <1>2, CountedFields DEF EnsuredSession, Sessions
<1>4. PICK n \in {1, 2} :
        /\ session' = Counted(now, n)
        /\ \/ appended' = appended /\ sent' = sent /\ ~Reactivates(now)
           \/ /\ n = 2 /\ appended' = Append(appended, Activation(w))
              /\ sent' = Append(sent, Activation(w))
  BY <1>1, LockCases
<1>5. /\ session' \in Sessions /\ session'.lastActive = now
      /\ session'.seq = EnsuredSession(now).seq + n
  BY <1>1, <1>2, <1>4, CountedFields
<1>6. session' # None
  BY <1>5, NoneAssumption
<1>7. /\ Activation(w) \in Records /\ Activation(w).boot = boot
      /\ Activation(w).system /\ Activation(w).received = now
      /\ Activation(w).seq = EnsuredSession(now).seq + 1
  BY <1>1, ActivationType DEF Activation, Record
<1>8. ~Reactivates(now) => session # None
  BY DEF Reactivates
<1>9. session # None => session'.seq > session.seq
  BY <1>3, <1>5
<1>10. n = 2 => Activation(w).seq < session'.seq
  BY <1>3, <1>5, <1>7
<1>11. session # None => Activation(w).seq > session.seq
  BY <1>3, <1>7
<1> QED
  BY <1>4, <1>5, <1>6, <1>7, <1>8, <1>9, <1>10, <1>11

LEMMA OrderLock ==
    ASSUME StateInv, OrderInv, NEW w \in Workers, Lock(w) PROVE OrderInv'
<1> USE DEF registry, rows, handles, streams, totals
<1>1. TypeOK /\ LiveInv
  BY DEF StateInv
<1>2. appended \in Seq(Records) /\ boot \in 1..MaxBoots /\ job \in [Workers -> Jobs]
      /\ at \in [Workers -> {"idle", "received", "number", "append", "send"}]
  BY <1>1 DEF TypeOK
<1>3. /\ boot' = boot /\ job' = job /\ at' = [at EXCEPT ![w] = "number"]
      /\ at[w] = "received"
  BY DEF Lock
<1>4. /\ session' # None /\ session' \in Sessions
      /\ session # None => session \in Sessions /\ session'.seq > session.seq
  BY <1>1, LockStream DEF TypeOK
<1>5. session # None => session.seq \in Nat
  BY <1>4 DEF Sessions
<1>6. session'.seq \in Nat
  BY <1>4 DEF Sessions
<1>15. \A i \in 1..Len(appended) : appended[i].seq \in Nat /\ appended[i].boot <= boot
  <2>1. \A i \in 1..Len(appended) : appended[i] \in Records
    BY <1>2
  <2>2. \A r \in Records : r.seq \in Nat
    BY DEF Records
  <2>3. \A i \in 1..Len(appended) : appended[i].boot <= boot
    BY DEF OrderInv
  <2> QED
    BY <2>1, <2>2, <2>3
<1>7. \A i \in 1..Len(appended) : appended[i].boot = boot => appended[i].seq < session'.seq
  <2> SUFFICES ASSUME NEW i \in 1..Len(appended), appended[i].boot = boot
               PROVE  appended[i].seq < session'.seq
    OBVIOUS
  <2>1. session # None /\ appended[i].seq <= session.seq
    BY DEF OrderInv
  <2> QED
    BY <1>4, <1>5, <1>6, <1>15, <2>1
<1>8. /\ \A i \in 1..Len(appended) : i \in 1..Len(appended') /\ appended'[i] = appended[i]
      /\ Len(appended) <= Len(appended')
      /\ \A i \in 1..Len(appended') : i \in 1..Len(appended) \/
            (appended'[i].boot = boot /\ appended'[i].seq < session'.seq)
  <2>1. CASE appended' = appended
    BY <1>2, <2>1
  <2>2. CASE appended' = Append(appended, Activation(w)) /\ Activation(w).seq < session'.seq
    BY <1>2, <2>2, LockStream, AppendKeeps
  <2> QED
    BY <2>1, <2>2, LockStream
<1>9. \A i \in 1..Len(appended') : appended'[i].boot <= boot /\
        (appended'[i].boot = boot => session' # None /\ appended'[i].seq <= session'.seq)
  <2> SUFFICES ASSUME NEW i \in 1..Len(appended')
               PROVE  /\ appended'[i].boot <= boot
                      /\ appended'[i].boot = boot => appended'[i].seq <= session'.seq
    BY <1>4
  <2>1. CASE i \in 1..Len(appended)
    <3>1. appended'[i] = appended[i]
      BY <1>8, <2>1
    <3>2. appended[i].seq \in Nat /\ appended[i].boot <= boot
      BY <1>15, <2>1
    <3>3. appended[i].boot = boot => appended[i].seq < session'.seq
      BY <1>7, <2>1
    <3> QED
      BY <1>6, <3>1, <3>2, <3>3
  <2>2. CASE i \notin 1..Len(appended)
    <3>1. appended'[i].boot = boot /\ appended'[i].seq < session'.seq
      BY <1>8, <2>2
    <3>2. appended'[i] \in Records
      <4>1. appended' \in Seq(Records)
        BY LockState DEF StateInv, TypeOK
      <4> QED
        BY <4>1
    <3>3. appended'[i].seq \in Nat
      BY <3>2 DEF Records
    <3> QED
      BY <1>2, <1>6, <3>1, <3>3
  <2> QED
    BY <2>1, <2>2
<1>10. \A v \in Workers : at'[v] # "idle" =>
         job[v].before <= Len(appended') /\ job[v].before <= Len(appended)
  <2> SUFFICES ASSUME NEW v \in Workers, at'[v] # "idle"
               PROVE  job[v].before <= Len(appended') /\ job[v].before <= Len(appended)
    OBVIOUS
  <2>1. at[v] # "idle"
    BY <1>2, <1>3
  <2>2. job[v].before \in Nat /\ Len(appended) \in Nat /\ Len(appended') \in Nat
    <3>1. appended' \in Seq(Records)
      BY LockState DEF StateInv, TypeOK
    <3> QED
      BY <1>2, <3>1 DEF Jobs
  <2> QED
    BY <1>8, <2>1, <2>2 DEF OrderInv
<1>11. \A v \in Workers : at'[v] # "idle" => \A i \in 1..job[v].before :
         i \in 1..Len(appended) /\ appended'[i] = appended[i]
  <2>1. \A v \in Workers : job[v].before \in Nat
    BY <1>2 DEF Jobs
  <2>2. Len(appended) \in Nat
    BY <1>2
  <2> QED
    BY <1>8, <1>10, <2>1, <2>2
<1>12. \A v \in Workers : at'[v] = "number" => \A i \in 1..job[v].before :
         appended'[i].boot = boot => appended'[i].seq < session'.seq
  <2> SUFFICES ASSUME NEW v \in Workers, at'[v] = "number", NEW i \in 1..job[v].before
               PROVE  appended'[i].boot = boot => appended'[i].seq < session'.seq
    OBVIOUS
  <2>1. i \in 1..Len(appended) /\ appended'[i] = appended[i]
    BY <1>11
  <2>2. appended[i].boot = boot => appended[i].seq < session'.seq
    BY <1>7, <2>1
  <2> QED
    BY <2>1, <2>2
<1>13. \A v \in Workers : at'[v] \in {"append", "send"} =>
         job[v].rec.boot = boot /\ job[v].rec.seq <= session'.seq
  <2> SUFFICES ASSUME NEW v \in Workers, at'[v] \in {"append", "send"}
               PROVE  job[v].rec.boot = boot /\ job[v].rec.seq <= session'.seq
    OBVIOUS
  <2>1. at[v] \in {"append", "send"}
    BY <1>2, <1>3
  <2>2. job[v].rec \in Records /\ session # None
    BY <1>1, <2>1 DEF LiveInv, TypeOK, Jobs
  <2>3. job[v].rec.seq \in Nat
    BY <2>2 DEF Records
  <2>4. job[v].rec.boot = boot /\ job[v].rec.seq <= session.seq
    BY <2>1 DEF OrderInv
  <2> QED
    BY <1>4, <1>5, <1>6, <2>2, <2>3, <2>4
<1>14. NumbersFollowOrder'
  <2>1. \A v \in Workers : at'[v] \in {"append", "send"} => at[v] \in {"append", "send"}
    BY <1>2, <1>3
  <2> QED
    BY <1>3, <1>11, <2>1 DEF OrderInv, NumbersFollowOrder
<1> QED
  BY <1>3, <1>9, <1>10, <1>12, <1>13, <1>14 DEF OrderInv

LEMMA OrderNumber ==
    ASSUME StateInv, OrderInv, NEW w \in Workers, Number(w) PROVE OrderInv'
<1> USE DEF registry, rows, handles, streams, totals
<1>1. TypeOK /\ LiveInv
  BY DEF StateInv
<1>2. /\ at[w] = "number" /\ at' = [at EXCEPT ![w] = "append"]
      /\ UNCHANGED <<boot, session, appended>>
      /\ job' = [job EXCEPT ![w].rec = Record(session.seq, job[w].time, job[w].now, FALSE)]
  BY DEF Number
<1>3. at \in [Workers -> {"idle", "received", "number", "append", "send"}]
      /\ job \in [Workers -> Jobs]
  BY <1>1 DEF TypeOK
<1>4. \A v \in Workers : at'[v] = (IF v = w THEN "append" ELSE at[v])
  BY <1>2, <1>3
<1>5. \A v \in Workers : v # w => job'[v] = job[v]
  BY <1>2, <1>3
<1>6. /\ job'[w].rec = Record(session.seq, job[w].time, job[w].now, FALSE)
      /\ job'[w].before = job[w].before
  BY <1>2, <1>3 DEF Jobs
<1>7. job'[w].rec.seq = session.seq /\ job'[w].rec.boot = boot
  BY <1>6 DEF Record
<1>8. session.seq \in Nat
  BY <1>1, <1>2 DEF TypeOK, LiveInv, Sessions
<1>9. \A v \in Workers : at'[v] # "idle" => job'[v].before <= Len(appended')
  BY <1>2, <1>4, <1>5, <1>6 DEF OrderInv
<1>10. \A v \in Workers : at'[v] = "number" => \A i \in 1..job'[v].before :
         appended'[i].boot = boot' => appended'[i].seq < session'.seq
  BY <1>2, <1>4, <1>5 DEF OrderInv
<1>11. \A v \in Workers : at'[v] \in {"append", "send"} =>
         job'[v].rec.boot = boot' /\ job'[v].rec.seq <= session'.seq
  <2> SUFFICES ASSUME NEW v \in Workers, at'[v] \in {"append", "send"}
               PROVE  job'[v].rec.boot = boot' /\ job'[v].rec.seq <= session'.seq
    OBVIOUS
  <2>1. CASE v = w
    <3>1. job'[v].rec.seq \in Nat /\ job'[v].rec.seq = session'.seq
      BY <1>2, <1>7, <1>8, <2>1
    <3>2. job'[v].rec.boot = boot'
      BY <1>2, <1>7, <2>1
    <3> QED
      BY <3>1, <3>2
  <2>2. CASE v # w
    BY <1>2, <1>4, <1>5, <2>2 DEF OrderInv
  <2> QED
    BY <2>1, <2>2
<1>12. NumbersFollowOrder'
  <2> SUFFICES ASSUME NEW v \in Workers, at'[v] \in {"append", "send"}
               PROVE  \A i \in 1..job'[v].before :
                        appended'[i].boot = boot' => appended'[i].seq < job'[v].rec.seq
    BY DEF NumbersFollowOrder
  <2>1. CASE v = w
    BY <1>2, <1>6, <1>7, <2>1 DEF OrderInv
  <2>2. CASE v # w
    BY <1>2, <1>4, <1>5, <2>2 DEF OrderInv, NumbersFollowOrder
  <2> QED
    BY <2>1, <2>2
<1> QED
  BY <1>2, <1>9, <1>10, <1>11, <1>12 DEF OrderInv

LEMMA OrderAppend ==
    ASSUME StateInv, OrderInv, NEW w \in Workers, Append_(w) PROVE OrderInv'
<1> USE DEF registry, rows, handles, streams, totals
<1>1. TypeOK /\ LiveInv
  BY DEF StateInv
<1> DEFINE rec == job[w].rec
<1>2. /\ at[w] = "append" /\ at' = [at EXCEPT ![w] = "send"]
      /\ UNCHANGED <<boot, session, job>> /\ appended' = Append(appended, rec)
  BY DEF Append_
<1>3. /\ at \in [Workers -> {"idle", "received", "number", "append", "send"}]
      /\ job \in [Workers -> Jobs] /\ appended \in Seq(Records) /\ boot \in Nat
  BY <1>1 DEF TypeOK
<1>4. rec \in Records /\ session # None
  BY <1>1, <1>2, <1>3 DEF LiveInv, Jobs
<1>5. rec.boot = boot /\ rec.seq <= session.seq
  BY <1>2 DEF OrderInv
<1>6. /\ Len(appended') = Len(appended) + 1 /\ Len(appended) \in Nat
      /\ appended'[Len(appended) + 1] = rec
      /\ \A i \in 1..Len(appended) : appended'[i] = appended[i]
      /\ \A i \in 1..Len(appended') : i \in 1..Len(appended) \/ i = Len(appended) + 1
  BY <1>2, <1>3, <1>4, AppendKeeps
<1>7. \A v \in Workers :
         /\ at'[v] # "idle" => at[v] # "idle"
         /\ at'[v] = "number" => at[v] = "number"
         /\ at'[v] \in {"append", "send"} => at[v] \in {"append", "send"}
  BY <1>2, <1>3
<1>8. \A v \in Workers : at[v] # "idle" =>
         /\ job[v].before <= Len(appended')
         /\ \A i \in 1..job[v].before : appended'[i] = appended[i]
  <2> SUFFICES ASSUME NEW v \in Workers, at[v] # "idle"
               PROVE  /\ job[v].before <= Len(appended')
                      /\ \A i \in 1..job[v].before : i \in 1..Len(appended)
    BY <1>6
  <2>1. job[v].before \in Nat
    BY <1>3 DEF Jobs
  <2>2. job[v].before <= Len(appended)
    BY DEF OrderInv
  <2> QED
    BY <1>6, <2>1, <2>2
<1>9. \A i \in 1..Len(appended') : appended'[i].boot <= boot' /\
        (appended'[i].boot = boot' => session' # None /\ appended'[i].seq <= session'.seq)
  <2> SUFFICES ASSUME NEW i \in 1..Len(appended')
               PROVE  appended'[i].boot <= boot' /\
        (appended'[i].boot = boot' => session' # None /\ appended'[i].seq <= session'.seq)
    OBVIOUS
  <2>1. CASE i \in 1..Len(appended)
    BY <1>2, <1>6, <2>1 DEF OrderInv
  <2>2. CASE i = Len(appended) + 1
    <3>1. appended'[i] = rec
      BY <1>6, <2>2
    <3> QED
      BY <1>2, <1>3, <1>4, <1>5, <3>1
  <2> QED
    BY <1>6, <2>1, <2>2
<1>10. \A v \in Workers : at'[v] # "idle" => job'[v].before <= Len(appended')
  BY <1>2, <1>7, <1>8
<1>11. \A v \in Workers : at'[v] = "number" => \A i \in 1..job'[v].before :
         appended'[i].boot = boot' => appended'[i].seq < session'.seq
  <2> SUFFICES ASSUME NEW v \in Workers, at'[v] = "number", NEW i \in 1..job[v].before
               PROVE  appended'[i].boot = boot => appended'[i].seq < session.seq
    BY <1>2
  <2>1. at[v] = "number"
    BY <1>7
  <2>2. appended'[i] = appended[i]
    BY <1>8, <2>1
  <2>3. appended[i].boot = boot => appended[i].seq < session.seq
    BY <2>1 DEF OrderInv
  <2> QED
    BY <2>2, <2>3
<1>12. \A v \in Workers : at'[v] \in {"append", "send"} =>
         job'[v].rec.boot = boot' /\ job'[v].rec.seq <= session'.seq
  BY <1>2, <1>7 DEF OrderInv
<1>13. NumbersFollowOrder'
  <2> SUFFICES ASSUME NEW v \in Workers, at'[v] \in {"append", "send"},
                      NEW i \in 1..job[v].before
               PROVE  appended'[i].boot = boot => appended'[i].seq < job[v].rec.seq
    BY <1>2 DEF NumbersFollowOrder
  <2>1. at[v] \in {"append", "send"}
    BY <1>7
  <2>2. appended'[i] = appended[i]
    BY <1>8, <2>1
  <2>3. appended[i].boot = boot => appended[i].seq < job[v].rec.seq
    BY <2>1 DEF OrderInv, NumbersFollowOrder
  <2> QED
    BY <2>2, <2>3
<1> QED
  BY <1>9, <1>10, <1>11, <1>12, <1>13 DEF OrderInv

LEMMA OrderSend ==
    ASSUME StateInv, OrderInv, NEW w \in Workers, SendMessage(w) PROVE OrderInv'
<1> USE DEF registry, rows, handles, streams, totals
<1>1. /\ UNCHANGED <<boot, session, appended>>
      /\ at' = [at EXCEPT ![w] = "idle"] /\ job' = [job EXCEPT ![w] = NoJob]
  BY DEF SendMessage
<1>2. /\ at \in [Workers -> {"idle", "received", "number", "append", "send"}]
      /\ job \in [Workers -> Jobs]
  BY DEF StateInv, TypeOK
<1>3. \A v \in Workers : at'[v] # "idle" => at'[v] = at[v] /\ job'[v] = job[v]
  BY <1>1, <1>2
<1> QED
  BY <1>1, <1>3 DEF OrderInv, NumbersFollowOrder

LEMMA OrderReceive ==
    ASSUME StateInv, OrderInv, NEW w \in Workers, NEW t \in ClientTimes, Receive(w, t)
    PROVE  OrderInv'
<1> USE DEF registry, rows, handles, streams, totals
<1>1. /\ UNCHANGED <<boot, session, appended>> /\ at' = [at EXCEPT ![w] = "received"]
      /\ job' = [job EXCEPT ![w] = [NoJob EXCEPT !.now = clock',
                    !.time = IF t = 0 THEN clock' ELSE t, !.before = Len(appended)]]
  BY DEF Receive
<1>2. /\ at \in [Workers -> {"idle", "received", "number", "append", "send"}]
      /\ job \in [Workers -> Jobs] /\ appended \in Seq(Records)
  BY DEF StateInv, TypeOK
<1>3. \A v \in Workers : v # w => at'[v] = at[v] /\ job'[v] = job[v]
  BY <1>1, <1>2
<1>4. job'[w].before = Len(appended) /\ at'[w] = "received"
  BY <1>1, <1>2 DEF NoJob
<1>5. \A v \in Workers : at'[v] # "idle" => job'[v].before <= Len(appended')
  <2>1. Len(appended) \in Nat
    BY <1>2
  <2> QED
    BY <1>1, <1>3, <1>4, <2>1 DEF OrderInv
<1>6. \A v \in Workers : at'[v] \in {"number", "append", "send"} => v # w
  BY <1>4
<1> QED
  BY <1>1, <1>3, <1>5, <1>6 DEF OrderInv, NumbersFollowOrder

(* SyncCounts leaves the numbers of the session alone.                     *)
LEMMA OrderQuiet ==
    ASSUME StateInv, OrderInv, UNCHANGED <<boot, handles, appended>>,
           session # None => session' # None /\ session'.seq = session.seq
    PROVE  OrderInv'
<1>1. \A v \in Workers : at[v] \in {"number", "append", "send"} => session # None
  BY DEF StateInv, LiveInv
<1>2. UNCHANGED <<boot, at, job, appended>>
  BY DEF handles
<1> QED
  BY <1>1, <1>2 DEF OrderInv, NumbersFollowOrder

(* After a restart the records of the buffer are those of an earlier run.  *)
LEMMA OrderKill == ASSUME StateInv, OrderInv, Kill PROVE OrderInv'
<1> USE DEF registry, rows, handles, streams, totals
<1>1. /\ boot' = boot + 1 /\ appended' = appended
      /\ at' = [w \in Workers |-> "idle"]
  BY DEF Kill
<1>2. boot \in Nat /\ appended \in Seq(Records)
  BY DEF StateInv, TypeOK
<1>3. \A i \in 1..Len(appended) : appended[i].boot \in Nat /\ appended[i].boot <= boot
  <2>1. \A i \in 1..Len(appended) : appended[i] \in Records
    BY <1>2
  <2>2. \A r \in Records : r.boot \in Nat
    BY DEF Records
  <2> QED
    BY <2>1, <2>2 DEF OrderInv
<1>4. \A i \in 1..Len(appended') : appended'[i].boot <= boot' /\ appended'[i].boot # boot'
  <2> SUFFICES ASSUME NEW i \in 1..Len(appended)
               PROVE  appended[i].boot <= boot + 1 /\ appended[i].boot # boot + 1
    BY <1>1
  <2> QED
    BY <1>2, <1>3
<1>5. \A v \in Workers : at'[v] = "idle"
  BY <1>1
<1> QED
  BY <1>4, <1>5 DEF OrderInv, NumbersFollowOrder

LEMMA OrderInvHolds == Spec => []OrderInv
<1>1. Init => OrderInv
  BY DEF Init, OrderInv, NumbersFollowOrder
<1>2. StateInv /\ OrderInv /\ [Next]_vars => OrderInv'
  <2> SUFFICES ASSUME StateInv, OrderInv, [Next]_vars PROVE OrderInv'
    OBVIOUS
  <2>1. CASE Sync \/ SyncFails
    <3>1. session' # None /\ session'.seq = session.seq
      BY <2>1, SyncFields, NoneAssumption DEF Sync, SyncFails
    <3> QED
      BY <2>1, <3>1, OrderQuiet DEF Sync, SyncFails, streams
  <2>2. CASE Pause \/ UNCHANGED vars
    BY <2>2, OrderQuiet DEF Pause, vars, registry, handles, streams
  <2> QED
    BY <2>1, <2>2, NextCases, OrderLock, OrderNumber, OrderAppend, OrderSend,
       OrderReceive, OrderKill
<1> QED
  BY <1>1, <1>2, StateInvHolds, PTL DEF Spec

(* A message that arrives after a record of its session was handed to the  *)
(* buffer gets a larger number, for any number of goroutines, although it  *)
(* is read after the mutex was released (manager.go:123-133).              *)
THEOREM NumbersInOrder == Spec => []NumbersFollowOrder
<1>1. OrderInv => NumbersFollowOrder
  BY DEF OrderInv
<1> QED
  BY <1>1, OrderInvHolds, PTL

-----------------------------------------------------------------------------
(* Activations of a session are rare.                                      *)

(* Nobody waits for the mutex longer than Stall.                           *)
WaitsShort ==
    \A w \in Workers : at[w] = "received" =>
        job[w].now <= clock /\ clock - job[w].now <= Stall

(* What a goroutine takes to the buffer after the mutex is a message.      *)
CarriesMessages == \A w \in Workers : at[w] \in {"append", "send"} => ~job[w].rec.system

(* The last activity is set back by no more than a wait.                   *)
ActivityRecent ==
    \A i \in 1..Len(appended) : appended[i].system =>
        /\ appended[i].received <= clock
        /\ appended[i].boot = boot =>
                session # None /\ appended[i].received <= session.lastActive + Stall

RareInv == WaitsShort /\ CarriesMessages /\ ActivityRecent /\ ActivationsApart

LEMMA Ranges ==
    ASSUME StateInv
    PROVE  /\ clock \in Nat /\ Stall \in Nat /\ ActiveWindow \in Nat
           /\ \A w \in Workers : job[w].now \in Nat /\ job[w] \in Jobs
           /\ appended \in Seq(Records)
           /\ \A i \in 1..Len(appended) : appended[i].received \in Nat
           /\ session # None => session.lastActive \in Nat
           /\ at \in [Workers -> {"idle", "received", "number", "append", "send"}]
           /\ job \in [Workers -> Jobs]
<1>1. appended \in Seq(Records) /\ job \in [Workers -> Jobs]
  BY DEF StateInv, TypeOK
<1>2. \A r \in Records : r.received \in Nat
  BY DEF Records
<1>3. \A i \in 1..Len(appended) : appended[i] \in Records
  BY <1>1
<1>4. \A j \in Jobs : j.now \in Nat
  BY DEF Jobs
<1> QED
  BY <1>1, <1>2, <1>3, <1>4, WindowAssumption DEF StateInv, TypeOK, Sessions

-----------------------------------------------------------------------------
(* Time passes, or a step touches neither the stream nor the session's last*)
(* activity.                                                               *)
LEMMA QuietSteps ==
    ASSUME StateInv, StateInv', RareInv, UNCHANGED <<boot, appended>>, clock' >= clock,
           session # None => session' # None /\ session'.lastActive = session.lastActive,
           WaitsShort', CarriesMessages'
    PROVE  RareInv'
<1>1. ActivationsApart'
  BY DEF RareInv, ActivationsApart
<1>2. ActivityRecent'
  <2> SUFFICES ASSUME NEW i \in 1..Len(appended), appended[i].system
               PROVE  /\ appended[i].received <= clock'
                      /\ appended[i].boot = boot =>
                            session' # None /\ appended[i].received <= session'.lastActive + Stall
    BY DEF ActivityRecent
  <2>1. appended[i].received \in Nat /\ appended[i].received <= clock
    BY Ranges DEF RareInv, ActivityRecent
  <2>2. clock \in Nat /\ clock' \in Nat
    BY DEF StateInv, TypeOK
  <2>3. appended[i].received <= clock'
    BY <2>1, <2>2
  <2>4. appended[i].boot = boot =>
            session # None /\ appended[i].received <= session.lastActive + Stall
    BY DEF RareInv, ActivityRecent
  <2> QED
    BY <2>3, <2>4
<1> QED
  BY <1>1, <1>2 DEF RareInv

LEMMA RareReceive ==
    ASSUME StateInv, StateInv', RareInv, NEW w \in Workers, NEW t \in ClientTimes, Receive(w, t)
    PROVE  RareInv'
<1> USE DEF registry, rows, handles, streams, totals
<1>1. /\ UNCHANGED <<boot, appended, session>> /\ clock' = clock + 1
      /\ at' = [at EXCEPT ![w] = "received"]
      /\ job' = [job EXCEPT ![w] = [NoJob EXCEPT !.now = clock',
                    !.time = IF t = 0 THEN clock' ELSE t, !.before = Len(appended)]]
      /\ \A v \in Workers : at[v] = "received" => clock + 1 - job[v].now <= Stall
  BY DEF Receive, Advance
<1>2. /\ at \in [Workers -> {"idle", "received", "number", "append", "send"}]
      /\ job \in [Workers -> Jobs]
  BY Ranges
<1>3. \A v \in Workers : v # w => at'[v] = at[v] /\ job'[v] = job[v]
  BY <1>1, <1>2
<1>4. at'[w] = "received" /\ job'[w].now = clock'
  BY <1>1, <1>2 DEF NoJob
<1>5. WaitsShort'
  <2> SUFFICES ASSUME NEW v \in Workers, at'[v] = "received"
               PROVE  job'[v].now <= clock' /\ clock' - job'[v].now <= Stall
    BY DEF WaitsShort
  <2>1. CASE v = w
    BY <1>1, <1>4, <2>1, Ranges
  <2>2. CASE v # w
    <3>1. at[v] = "received" /\ job'[v].now = job[v].now /\ job[v].now <= clock
      BY <1>3, <2>2 DEF RareInv, WaitsShort
    <3> QED
      BY <1>1, <3>1, Ranges
  <2> QED
    BY <2>1, <2>2
<1>6. CarriesMessages'
  BY <1>3, <1>4 DEF RareInv, CarriesMessages
<1>7. clock' >= clock
  BY <1>1, Ranges
<1> QED
  BY <1>1, <1>5, <1>6, <1>7, QuietSteps

LEMMA RarePause ==
    ASSUME StateInv, StateInv', RareInv, Pause PROVE RareInv'
<1> USE DEF registry, rows, handles, streams, totals
<1>1. /\ UNCHANGED <<boot, appended, session, at, job>> /\ clock' = clock + ActiveWindow
      /\ \A v \in Workers : at[v] = "received" => clock + ActiveWindow - job[v].now <= Stall
  BY DEF Pause, Advance
<1>2. clock' >= clock
  BY <1>1, Ranges
<1>3. WaitsShort'
  <2> SUFFICES ASSUME NEW v \in Workers, at[v] = "received"
               PROVE  job[v].now <= clock' /\ clock' - job[v].now <= Stall
    BY <1>1 DEF WaitsShort
  <2>1. job[v].now <= clock /\ job[v].now \in Nat /\ clock \in Nat /\ clock' \in Nat
    BY <1>1, Ranges DEF RareInv, WaitsShort
  <2>2. job[v].now <= clock'
    BY <1>2, <2>1
  <2>3. clock + ActiveWindow - job[v].now <= Stall
    BY <1>1
  <2>4. clock' - job[v].now <= Stall
    <3>1. clock' = clock + ActiveWindow
      BY <1>1
    <3>2. ActiveWindow \in Nat /\ Stall \in Nat
      BY Ranges
    <3> QED
      BY <2>1, <2>3, <3>1, <3>2
  <2> QED
    BY <2>2, <2>4
<1> QED
  BY <1>1, <1>2, <1>3, QuietSteps DEF RareInv, CarriesMessages

(* A critical section: the activity is that of the message, which waited   *)
(* no longer than Stall since, and its activation, if it has one, is later *)
(* than the last activity by more than the window.                         *)
LEMMA RareLock ==
    ASSUME StateInv, OrderInv, StateInv', RareInv, NEW w \in Workers, Lock(w)
    PROVE  RareInv'
<1> DEFINE now == job[w].now
<1>1. /\ at[w] = "received" /\ at' = [at EXCEPT ![w] = "number"]
      /\ UNCHANGED <<clock, boot, job>>
  BY DEF Lock
<1>2. now \in Nat /\ clock \in Nat /\ now <= clock /\ clock - now <= Stall /\ Stall \in Nat
      /\ ActiveWindow \in Nat
  BY <1>1, Ranges DEF RareInv, WaitsShort
<1>3. session' # None /\ session'.lastActive = now
  BY LockStream
<1>4. \A v \in Workers : at'[v] = (IF v = w THEN "number" ELSE at[v])
  BY <1>1, Ranges
<1>5. WaitsShort' /\ CarriesMessages'
  BY <1>1, <1>4 DEF RareInv, WaitsShort, CarriesMessages
<1>6. \A i \in 1..Len(appended) : appended[i].system =>
        appended[i].received <= clock /\ appended[i].received <= now + Stall
  <2> SUFFICES ASSUME NEW i \in 1..Len(appended), appended[i].system
               PROVE  appended[i].received <= clock /\ appended[i].received <= now + Stall
    OBVIOUS
  <2>1. appended[i].received \in Nat /\ appended[i].received <= clock
    BY Ranges DEF RareInv, ActivityRecent
  <2> QED
    BY <1>2, <2>1
<1>7. CASE appended' = appended
  <2>1. ActivityRecent'
    BY <1>1, <1>3, <1>6, <1>7 DEF ActivityRecent
  <2> QED
    BY <1>5, <1>7, <2>1 DEF RareInv, ActivationsApart
<1>8. CASE appended' # appended
  <2>1. Reactivates(now) /\ appended' = Append(appended, Activation(w))
    BY <1>8, LockCases DEF StateInv
  <2>2. /\ Activation(w) \in Records /\ Activation(w).boot = boot
        /\ Activation(w).received = now
    BY LockStream
  <2>3. /\ Len(appended) \in Nat /\ Len(appended') = Len(appended) + 1
        /\ appended'[Len(appended) + 1] = Activation(w)
        /\ \A i \in 1..Len(appended) : appended'[i] = appended[i]
        /\ \A i \in 1..Len(appended') : i \in 1..Len(appended) \/ i = Len(appended) + 1
    BY <2>1, <2>2, Ranges, AppendKeeps
  <2>4. ActivityRecent'
    <3> SUFFICES ASSUME NEW i \in 1..Len(appended'), appended'[i].system
                 PROVE  appended'[i].received <= clock /\ appended'[i].received <= now + Stall
      BY <1>1, <1>3 DEF ActivityRecent
    <3>1. CASE i \in 1..Len(appended)
      BY <1>6, <2>3, <3>1
    <3>2. CASE i = Len(appended) + 1
      <4>1. appended'[i].received = now
        BY <2>2, <2>3, <3>2
      <4> QED
        BY <1>2, <4>1
    <3> QED
      BY <2>3, <3>1, <3>2
  <2>5. ASSUME NEW i \in 1..Len(appended), appended[i].system, appended[i].boot = boot
        PROVE  now - appended[i].received > ActiveWindow - Stall
    <3>1. session # None /\ appended[i].received <= session.lastActive + Stall
      BY <2>5 DEF RareInv, ActivityRecent
    <3>2. now - session.lastActive > ActiveWindow
      BY <2>1, <3>1 DEF Reactivates
    <3>3. appended[i].received \in Nat /\ session.lastActive \in Nat
      BY <3>1, Ranges
    <3> QED
      BY <1>2, <3>1, <3>2, <3>3
  <2>6. ActivationsApart'
    <3> SUFFICES ASSUME NEW i \in 1..Len(appended'), NEW j \in 1..Len(appended'), i < j,
                        appended'[i].system, appended'[j].system,
                        appended'[i].boot = appended'[j].boot
                 PROVE  appended'[j].received - appended'[i].received > ActiveWindow - Stall
      BY DEF ActivationsApart
    <3>1. i \in 1..Len(appended) /\ appended'[i] = appended[i]
      BY <2>3
    <3>2. CASE j \in 1..Len(appended)
      BY <2>3, <3>1, <3>2 DEF RareInv, ActivationsApart
    <3>3. CASE j = Len(appended) + 1
      <4>1. appended'[j].boot = boot /\ appended'[j].received = now
        BY <2>2, <2>3, <3>3
      <4> QED
        BY <2>5, <3>1, <4>1
    <3> QED
      BY <2>3, <3>2, <3>3
  <2> QED
    BY <1>5, <2>4, <2>6 DEF RareInv
<1> QED
  BY <1>7, <1>8

(* The rest of Handle brings a message, and no activation.                 *)
LEMMA RareAppend ==
    ASSUME StateInv, StateInv', RareInv, NEW w \in Workers, Append_(w)
    PROVE  RareInv'
<1> USE DEF registry, rows, handles, streams, totals
<1> DEFINE rec == job[w].rec
<1>1. /\ at[w] = "append" /\ at' = [at EXCEPT ![w] = "send"]
      /\ UNCHANGED <<clock, boot, session, job>> /\ appended' = Append(appended, rec)
  BY DEF Append_
<1>2. \A v \in Workers : at'[v] = (IF v = w THEN "send" ELSE at[v])
  BY <1>1, Ranges
<1>3. WaitsShort' /\ CarriesMessages'
  BY <1>1, <1>2 DEF RareInv, WaitsShort, CarriesMessages
<1>4. rec \in Records /\ ~rec.system
  BY <1>1, Ranges DEF StateInv, LiveInv, Jobs, RareInv, CarriesMessages
<1>5. /\ appended'[Len(appended) + 1] = rec
      /\ \A i \in 1..Len(appended) : appended'[i] = appended[i]
      /\ \A i \in 1..Len(appended') : i \in 1..Len(appended) \/ i = Len(appended) + 1
  BY <1>1, <1>4, Ranges, AppendKeeps
<1>6. \A i \in 1..Len(appended') : appended'[i].system =>
        i \in 1..Len(appended) /\ appended'[i] = appended[i]
  BY <1>4, <1>5
<1>7. ActivityRecent'
  BY <1>1, <1>6 DEF RareInv, ActivityRecent
<1>8. ActivationsApart'
  BY <1>6 DEF RareInv, ActivationsApart
<1> QED
  BY <1>3, <1>7, <1>8 DEF RareInv

LEMMA RareHandle ==
    ASSUME StateInv, StateInv', RareInv, NEW w \in Workers, Number(w) \/ SendMessage(w)
    PROVE  RareInv'
<1> USE DEF registry, rows, handles, streams, totals
<1>1. UNCHANGED <<clock, boot, session, appended>>
  BY DEF Number, SendMessage
<1>2. clock' >= clock
  BY <1>1, Ranges
<1>3. \A v \in Workers : at'[v] = "received" => v # w /\ at[v] = "received"
  BY Ranges DEF Number, SendMessage
<1>4. \A v \in Workers : v # w => job'[v] = job[v] /\ at'[v] = at[v]
  BY Ranges DEF Number, SendMessage
<1>5. WaitsShort'
  BY <1>1, <1>3, <1>4 DEF RareInv, WaitsShort
<1>6. at'[w] \in {"append", "send"} => ~job'[w].rec.system
  BY Ranges DEF Number, SendMessage, Record, Jobs
<1>7. CarriesMessages'
  BY <1>4, <1>6 DEF RareInv, CarriesMessages
<1> QED
  BY <1>1, <1>2, <1>5, <1>7, QuietSteps

LEMMA RareSync ==
    ASSUME StateInv, StateInv', RareInv, Sync \/ SyncFails
    PROVE  RareInv'
<1> USE DEF registry, rows, handles, streams, totals
<1>1. UNCHANGED <<clock, boot, at, job, appended>>
  BY DEF Sync, SyncFails
<1>2. session' # None /\ session'.lastActive = session.lastActive
  BY SyncFields, NoneAssumption DEF Sync, SyncFails
<1>3. clock' >= clock
  BY <1>1, Ranges
<1>4. WaitsShort' /\ CarriesMessages'
  BY <1>1 DEF RareInv, WaitsShort, CarriesMessages
<1> QED
  BY <1>1, <1>2, <1>3, <1>4, QuietSteps

(* After a restart no record of the buffer is of this run.                 *)
LEMMA RareKill ==
    ASSUME StateInv, OrderInv, RareInv, Kill
    PROVE  RareInv'
<1> USE DEF registry, rows, handles, streams, totals
<1>1. /\ boot' = boot + 1 /\ appended' = appended /\ clock' = clock
      /\ \A w \in Workers : at'[w] = "idle"
  BY DEF Kill
<1>2. boot \in Nat
  BY DEF StateInv, TypeOK
<1>3. \A i \in 1..Len(appended) : appended[i].boot \in Nat /\ appended[i].boot <= boot
  <2>1. \A r \in Records : r.boot \in Nat
    BY DEF Records
  <2>2. \A i \in 1..Len(appended) : appended[i] \in Records
    BY Ranges
  <2> QED
    BY <2>1, <2>2 DEF OrderInv
<1>4. \A i \in 1..Len(appended) : appended[i].boot # boot'
  <2> TAKE i \in 1..Len(appended)
  <2> QED
    BY <1>1, <1>2, <1>3
<1> QED
  BY <1>1, <1>4 DEF RareInv, WaitsShort, CarriesMessages, ActivityRecent, ActivationsApart

(* Two activations of a session in one run of the program are further apart*)
(* than the window less the longest wait for the mutex, however goroutines *)
(* overtake one another there (manager.go:83,109,126).                     *)
THEOREM ActivationsRare == Spec => []ActivationsApart
<1>1. Init => RareInv
  BY DEF Init, RareInv, WaitsShort, CarriesMessages, ActivityRecent, ActivationsApart
<1>2. StateInv /\ StateInv' /\ OrderInv /\ RareInv /\ [Next]_vars => RareInv'
  <2> SUFFICES ASSUME StateInv, StateInv', OrderInv, RareInv, [Next]_vars PROVE RareInv'
    OBVIOUS
  <2>1. CASE UNCHANGED vars
    BY <2>1 DEF vars, registry, handles, streams, RareInv, WaitsShort, CarriesMessages,
                ActivityRecent, ActivationsApart
  <2> QED
    BY <2>1, NextCases, RareReceive, RarePause, RareLock, RareAppend, RareHandle,
       RareSync, RareKill
<1>3. RareInv => ActivationsApart
  BY DEF RareInv
<1> QED
  BY <1>1, <1>2, <1>3, StateInvHolds, OrderInvHolds, PTL DEF Spec
-----------------------------------------------------------------------------
(* Keys, when messages carry no time and so take that of their arrival.    *)
(* A goroutine has a time of its own, and what it has given to the buffer  *)
(* is what bears that time.                                                *)
TimesOwn ==
    /\ \A w \in Workers : at[w] # "idle" =>
            job[w].time = job[w].now /\ job[w].now <= clock
    /\ \A v, w \in Workers :
            at[v] # "idle" /\ at[w] # "idle" /\ job[v].now = job[w].now => v = w
    /\ \A w \in Workers, i \in 1..Len(appended) :
            /\ at[w] = "received" => appended[i].received # job[w].now
            /\ at[w] \in {"number", "append"} /\ appended[i].received = job[w].now
                    => appended[i].system

(* The time of a record is that of its arrival, or one less.               *)
TimesTaken ==
    /\ \A i \in 1..Len(appended) : appended[i].received <= clock /\
            appended[i].time = appended[i].received - (IF appended[i].system THEN 1 ELSE 0)
    /\ \A w \in Workers : at[w] = "append" =>
            /\ job[w].rec.time = job[w].now /\ job[w].rec.received = job[w].now
            /\ ~job[w].rec.system

(* A message never has the number of an activation: the session's number   *)
(* passes it while the mutex is held.                                      *)
NumbersApart ==
    /\ session # None => session.seq > 1
    /\ \A i \in 1..Len(appended) :
            /\ ~appended[i].system => appended[i].seq > 1
            /\ appended[i].boot = boot /\ appended[i].system => appended[i].seq < session.seq
    /\ \A w \in Workers : at[w] = "append" =>
            /\ job[w].rec.seq > 1
            /\ \A i \in 1..Len(appended) : appended[i].boot = boot /\ appended[i].system
                    => appended[i].seq # job[w].rec.seq

(* Whatever an earlier run of the program has stored arrived before the    *)
(* messages of this one.                                                   *)
BootsApart ==
    /\ session # None => session.lastActive <= clock
    /\ \A i \in 1..Len(appended) : appended[i].boot # boot =>
            /\ session # None => appended[i].received < session.lastActive
            /\ \A w \in Workers : at[w] # "idle" => appended[i].received < job[w].now

KeyInv == TimesOwn /\ TimesTaken /\ NumbersApart /\ BootsApart /\ KeysDistinct

LEMMA KeyRanges ==
    ASSUME StateInv
    PROVE  /\ clock \in Nat /\ boot \in Nat
           /\ appended \in Seq(Records) /\ Len(appended) \in Nat
           /\ \A i \in 1..Len(appended) :
                /\ appended[i] \in Records
                /\ appended[i].seq \in Nat /\ appended[i].received \in Nat
                /\ appended[i].time \in Int /\ appended[i].boot \in Nat
           /\ session # None => session.seq \in Nat /\ session.lastActive \in Nat
           /\ \A w \in Workers : job[w].now \in Nat /\ job[w].time \in Nat
           /\ \A w \in Workers : at[w] = "append" =>
                job[w].rec \in Records /\ job[w].rec.seq \in Nat /\ session # None
           /\ at \in [Workers -> {"idle", "received", "number", "append", "send"}]
           /\ job \in [Workers -> Jobs]
<1>1. appended \in Seq(Records) /\ job \in [Workers -> Jobs] /\ Len(appended) \in Nat
  BY DEF StateInv, TypeOK
<1>2. \A r \in Records : /\ r.seq \in Nat /\ r.received \in Nat
                         /\ r.time \in Int /\ r.boot \in Nat
  BY DEF Records
<1>3. \A i \in 1..Len(appended) : appended[i] \in Records
  BY <1>1
<1>4. \A j \in Jobs : j.now \in Nat /\ j.time \in Nat /\ (j.rec = None \/ j.rec \in Records)
  BY DEF Jobs
<1>5. \A w \in Workers : at[w] = "append" =>
        job[w].rec \in Records /\ job[w].rec.seq \in Nat /\ session # None
  BY <1>1, <1>2, <1>4 DEF StateInv, LiveInv
<1>6. session # None => session.seq \in Nat /\ session.lastActive \in Nat
  BY DEF StateInv, TypeOK, Sessions
<1> QED
  BY <1>1, <1>2, <1>3, <1>4, <1>5, <1>6 DEF StateInv, TypeOK

(* Nothing is appended and no goroutine gets further, except home.         *)
LEMMA KeyQuiet ==
    ASSUME StateInv, KeyInv, UNCHANGED <<boot, appended>>, clock' \in Nat, clock' >= clock,
           \A w \in Workers : at'[w] # "idle" => at'[w] = at[w] /\ job'[w] = job[w],
           \/ UNCHANGED session
           \/ /\ session # None /\ session' # None
              /\ session'.seq = session.seq /\ session'.lastActive = session.lastActive
    PROVE  KeyInv'
<1>1. TimesOwn'
  <2>1. \A w \in Workers : at'[w] # "idle" => at[w] # "idle" /\ at'[w] = at[w] /\ job'[w] = job[w]
    OBVIOUS
  <2>2. \A w \in Workers : at[w] # "idle" => job[w].time = job[w].now /\ job[w].now <= clock'
    BY KeyRanges DEF KeyInv, TimesOwn
  <2> QED
    BY <2>1, <2>2 DEF KeyInv, TimesOwn
<1>2. TimesTaken'
  <2>1. \A i \in 1..Len(appended) : appended[i].received <= clock'
    BY KeyRanges DEF KeyInv, TimesTaken
  <2> QED
    BY <2>1 DEF KeyInv, TimesTaken
<1>3. NumbersApart'
  BY DEF KeyInv, NumbersApart
<1>4. BootsApart'
  <2>1. session' # None => session'.lastActive <= clock'
    BY KeyRanges DEF KeyInv, BootsApart
  <2> QED
    BY <2>1 DEF KeyInv, BootsApart
<1>5. KeysDistinct'
  BY DEF KeyInv, KeysDistinct
<1> QED
  BY <1>1, <1>2, <1>3, <1>4, <1>5 DEF KeyInv

LEMMA KeyReceive ==
    ASSUME StateInv, KeyInv, NEW w \in Workers, Receive(w, 0)
    PROVE  KeyInv'
<1>1. /\ UNCHANGED <<boot, session, appended>> /\ clock' = clock + 1
      /\ at' = [at EXCEPT ![w] = "received"]
      /\ job' = [job EXCEPT ![w] = [NoJob EXCEPT !.now = clock', !.time = clock',
                                                 !.before = Len(appended)]]
  BY DEF Receive, Advance, registry, streams
<1>2. at'[w] = "received" /\ job'[w].now = clock + 1 /\ job'[w].time = clock + 1
  BY <1>1, KeyRanges DEF NoJob
<1>3. \A v \in Workers : v # w => at'[v] = at[v] /\ job'[v] = job[v]
  BY <1>1, KeyRanges
<1>4. \A v \in Workers : v # w /\ at[v] # "idle" => job[v].now < clock + 1
  BY KeyRanges DEF KeyInv, TimesOwn
<1>5. \A i \in 1..Len(appended) : appended[i].received < clock + 1
  BY KeyRanges DEF KeyInv, TimesTaken
<1>6. TimesOwn'
  <2>1. \A v \in Workers : at'[v] # "idle" => job'[v].time = job'[v].now /\ job'[v].now <= clock'
    <3> SUFFICES ASSUME NEW v \in Workers, at'[v] # "idle"
                 PROVE  job'[v].time = job'[v].now /\ job'[v].now <= clock'
      OBVIOUS
    <3>1. CASE v = w
      BY <1>1, <1>2, <3>1, KeyRanges
    <3>2. CASE v # w
      BY <1>1, <1>3, <3>2, KeyRanges DEF KeyInv, TimesOwn
    <3> QED
      BY <3>1, <3>2
  <2>2. \A u, v \in Workers :
            at'[u] # "idle" /\ at'[v] # "idle" /\ job'[u].now = job'[v].now => u = v
    <3> SUFFICES ASSUME NEW u \in Workers, NEW v \in Workers,
                        at'[u] # "idle", at'[v] # "idle", job'[u].now = job'[v].now, u # v
                 PROVE  FALSE
      OBVIOUS
    <3>1. u # w /\ v # w
      BY <1>2, <1>3, <1>4, KeyRanges
    <3> QED
      BY <1>3, <3>1 DEF KeyInv, TimesOwn
  <2>3. \A v \in Workers, i \in 1..Len(appended) :
            /\ at'[v] = "received" => appended[i].received # job'[v].now
            /\ at'[v] \in {"number", "append"} /\ appended[i].received = job'[v].now
                    => appended[i].system
    <3> SUFFICES ASSUME NEW v \in Workers, NEW i \in 1..Len(appended)
                 PROVE  /\ at'[v] = "received" => appended[i].received # job'[v].now
                        /\ at'[v] \in {"number", "append"} /\ appended[i].received = job'[v].now
                                => appended[i].system
      OBVIOUS
    <3>1. CASE v = w
      BY <1>2, <1>5, <3>1, KeyRanges
    <3>2. CASE v # w
      BY <1>3, <3>2 DEF KeyInv, TimesOwn
    <3> QED
      BY <3>1, <3>2
  <2> QED
    BY <1>1, <2>1, <2>2, <2>3 DEF TimesOwn
<1>7. \A v \in Workers : at'[v] = "append" => v # w /\ at[v] = "append" /\ job'[v] = job[v]
  BY <1>2, <1>3
<1>8. TimesTaken'
  <2>1. \A i \in 1..Len(appended) : appended[i].received <= clock'
    BY <1>1, <1>5, KeyRanges
  <2> QED
    BY <1>1, <1>7, <2>1 DEF KeyInv, TimesTaken
<1>9. NumbersApart'
  BY <1>1, <1>7 DEF KeyInv, NumbersApart
<1>10. BootsApart'
  <2>1. session # None => session.lastActive <= clock'
    BY <1>1, KeyRanges DEF KeyInv, BootsApart
  <2>2. \A i \in 1..Len(appended), v \in Workers :
          appended[i].boot # boot /\ at'[v] # "idle" => appended[i].received < job'[v].now
    <3> SUFFICES ASSUME NEW i \in 1..Len(appended), NEW v \in Workers,
                        appended[i].boot # boot, at'[v] # "idle"
                 PROVE  appended[i].received < job'[v].now
      OBVIOUS
    <3>1. CASE v = w
      BY <1>2, <1>5, <3>1
    <3>2. CASE v # w
      BY <1>3, <3>2 DEF KeyInv, BootsApart
    <3> QED
      BY <3>1, <3>2
  <2> QED
    BY <1>1, <2>1, <2>2 DEF KeyInv, BootsApart
<1>11. KeysDistinct'
  BY <1>1 DEF KeyInv, KeysDistinct
<1> QED
  BY <1>6, <1>8, <1>9, <1>10, <1>11 DEF KeyInv

LEMMA KeyNumber ==
    ASSUME StateInv, KeyInv, NEW w \in Workers, Number(w)
    PROVE  KeyInv'
<1> DEFINE r == Record(session.seq, job[w].time, job[w].now, FALSE)
<1>1. /\ UNCHANGED <<clock, boot, session, appended>> /\ at[w] = "number"
      /\ at' = [at EXCEPT ![w] = "append"] /\ job' = [job EXCEPT ![w].rec = r]
  BY DEF Number, registry, streams
<1>2. /\ at'[w] = "append" /\ job'[w].rec = r
      /\ \A v \in Workers : /\ job'[v].now = job[v].now /\ job'[v].time = job[v].time
                            /\ v # w => at'[v] = at[v] /\ job'[v] = job[v]
  <2>1. job[w] \in Jobs
    BY KeyRanges
  <2>2. job' = [job EXCEPT ![w] = [job[w] EXCEPT !.rec = r]]
    BY <1>1
  <2> HIDE DEF r
  <2>3. LET j == [job[w] EXCEPT !.rec = r]
        IN  j.rec = r /\ j.now = job[w].now /\ j.time = job[w].time
    BY <2>1 DEF Jobs
  <2> QED
    BY <1>1, <2>2, <2>3, KeyRanges
<1>3. /\ r.time = job[w].now /\ r.received = job[w].now /\ ~r.system /\ r.seq = session.seq
      /\ session # None
  BY <1>1 DEF Record, KeyInv, TimesOwn, StateInv, LiveInv
<1> HIDE DEF r
<1>4. TimesOwn'
  <2>1. \A v \in Workers : /\ at'[v] # "idle" => at[v] # "idle"
                           /\ at'[v] = "received" => at[v] = "received"
                           /\ at'[v] \in {"number", "append"} => at[v] \in {"number", "append"}
    BY <1>1, <1>2
  <2> QED
    BY <1>1, <1>2, <2>1 DEF KeyInv, TimesOwn
<1>5. TimesTaken'
  BY <1>1, <1>2, <1>3 DEF KeyInv, TimesTaken
<1>6. NumbersApart'
  <2>1. \A v \in Workers : at'[v] = "append" =>
            /\ job'[v].rec.seq > 1
            /\ \A i \in 1..Len(appended) : appended[i].boot = boot /\ appended[i].system
                    => appended[i].seq # job'[v].rec.seq
    <3> SUFFICES ASSUME NEW v \in Workers, at'[v] = "append"
                 PROVE  /\ job'[v].rec.seq > 1
                        /\ \A i \in 1..Len(appended) : appended[i].boot = boot /\ appended[i].system
                                => appended[i].seq # job'[v].rec.seq
      OBVIOUS
    <3>1. CASE v = w
      BY <1>2, <1>3, <3>1, KeyRanges DEF KeyInv, NumbersApart
    <3>2. CASE v # w
      BY <1>2, <3>2 DEF KeyInv, NumbersApart
    <3> QED
      BY <3>1, <3>2
  <2> QED
    BY <1>1, <2>1 DEF KeyInv, NumbersApart
<1>7. BootsApart'
  <2>1. \A v \in Workers : at'[v] # "idle" => at[v] # "idle"
    BY <1>1, <1>2
  <2> QED
    BY <1>1, <1>2, <2>1 DEF KeyInv, BootsApart
<1>8. KeysDistinct'
  BY <1>1 DEF KeyInv, KeysDistinct
<1> QED
  BY <1>4, <1>5, <1>6, <1>7, <1>8 DEF KeyInv

LEMMA KeysGrow ==
    ASSUME KeysDistinct, NEW r, appended'[Len(appended) + 1] = r,
           \A i \in 1..Len(appended) : appended'[i] = appended[i],
           \A i \in 1..Len(appended') : i \in 1..Len(appended) \/ i = Len(appended) + 1,
           \A i \in 1..Len(appended) : <<appended[i].time, appended[i].seq>> # <<r.time, r.seq>>
    PROVE  KeysDistinct'
BY DEF KeysDistinct

(* The message is the first record with its time, but for activations of   *)
(* this run, which have other numbers.                                     *)
LEMMA KeyAppend ==
    ASSUME StateInv, OrderInv, KeyInv, NEW w \in Workers, Append_(w)
    PROVE  KeyInv'
<1> DEFINE r == job[w].rec
<1>1. /\ UNCHANGED <<clock, boot, session, job>> /\ at[w] = "append"
      /\ at' = [at EXCEPT ![w] = "send"] /\ appended' = Append(appended, r)
  BY DEF Append_, registry
<1>2. /\ r \in Records /\ r.boot = boot /\ r.time = job[w].now /\ r.received = job[w].now
      /\ ~r.system /\ r.seq > 1
  BY <1>1, KeyRanges DEF OrderInv, KeyInv, TimesTaken, NumbersApart
<1>3. /\ Len(appended') = Len(appended) + 1 /\ appended'[Len(appended) + 1] = r
      /\ \A i \in 1..Len(appended) : appended'[i] = appended[i]
      /\ \A i \in 1..Len(appended') : i \in 1..Len(appended) \/ i = Len(appended) + 1
  BY <1>1, <1>2, KeyRanges, AppendKeeps
<1>4. \A v \in Workers : /\ at'[v] # "idle" => at[v] # "idle"
                         /\ at'[v] \in {"received", "number", "append"} => v # w /\ at'[v] = at[v]
  BY <1>1, KeyRanges
<1>5. job[w].now <= clock /\ at[w] # "idle"
      /\ \A v \in Workers : v # w /\ at[v] # "idle" => job[v].now # job[w].now
  BY <1>1 DEF KeyInv, TimesOwn
<1> HIDE DEF r
<1>6. TimesOwn'
  <2>1. \A v \in Workers, i \in 1..Len(appended') :
            /\ at'[v] = "received" => appended'[i].received # job[v].now
            /\ at'[v] \in {"number", "append"} /\ appended'[i].received = job[v].now
                    => appended'[i].system
    <3> SUFFICES ASSUME NEW v \in Workers, NEW i \in 1..Len(appended')
                 PROVE  /\ at'[v] = "received" => appended'[i].received # job[v].now
                        /\ at'[v] \in {"number", "append"} /\ appended'[i].received = job[v].now
                                => appended'[i].system
      OBVIOUS
    <3>1. CASE i \in 1..Len(appended)
      BY <1>3, <1>4, <3>1 DEF KeyInv, TimesOwn
    <3>2. CASE i = Len(appended) + 1
      BY <1>2, <1>3, <1>4, <1>5, <3>2
    <3> QED
      BY <1>3, <3>1, <3>2
  <2> QED
    BY <1>1, <1>4, <2>1 DEF KeyInv, TimesOwn
<1>7. TimesTaken'
  <2>1. \A i \in 1..Len(appended') : appended'[i].received <= clock /\
            appended'[i].time = appended'[i].received - (IF appended'[i].system THEN 1 ELSE 0)
    <3> SUFFICES ASSUME NEW i \in 1..Len(appended')
                 PROVE  appended'[i].received <= clock /\
            appended'[i].time = appended'[i].received - (IF appended'[i].system THEN 1 ELSE 0)
      OBVIOUS
    <3>1. CASE i \in 1..Len(appended)
      BY <1>3, <3>1 DEF KeyInv, TimesTaken
    <3>2. CASE i = Len(appended) + 1
      BY <1>2, <1>3, <1>5, <3>2, KeyRanges
    <3> QED
      BY <1>3, <3>1, <3>2
  <2> QED
    BY <1>1, <1>4, <2>1 DEF KeyInv, TimesTaken
<1>8. NumbersApart'
  <2>1. \A i \in 1..Len(appended') :
            /\ ~appended'[i].system => appended'[i].seq > 1
            /\ appended'[i].boot = boot /\ appended'[i].system =>
                  appended'[i] = appended[i] /\ i \in 1..Len(appended)
    <3> SUFFICES ASSUME NEW i \in 1..Len(appended')
                 PROVE  /\ ~appended'[i].system => appended'[i].seq > 1
                        /\ appended'[i].boot = boot /\ appended'[i].system =>
                              appended'[i] = appended[i] /\ i \in 1..Len(appended)
      OBVIOUS
    <3>1. CASE i \in 1..Len(appended)
      BY <1>3, <3>1 DEF KeyInv, NumbersApart
    <3>2. CASE i = Len(appended) + 1
      BY <1>2, <1>3, <3>2
    <3> QED
      BY <1>3, <3>1, <3>2
  <2> QED
    BY <1>1, <1>4, <2>1 DEF KeyInv, NumbersApart
<1>9. BootsApart'
  <2>1. \A i \in 1..Len(appended') : appended'[i].boot # boot =>
            i \in 1..Len(appended) /\ appended'[i] = appended[i]
    BY <1>2, <1>3
  <2> QED
    BY <1>1, <1>4, <2>1 DEF KeyInv, BootsApart
<1>10. \A i \in 1..Len(appended) : <<appended[i].time, appended[i].seq>> # <<r.time, r.seq>>
  <2> SUFFICES ASSUME NEW i \in 1..Len(appended), appended[i].time = r.time
               PROVE  appended[i].seq # r.seq
    OBVIOUS
  <2>1. CASE ~appended[i].system
    <3>1. appended[i].received = job[w].now
      BY <1>2, <2>1, KeyRanges DEF KeyInv, TimesTaken
    <3> QED
      BY <1>1, <2>1, <3>1 DEF KeyInv, TimesOwn
  <2>2. CASE appended[i].system /\ appended[i].boot = boot
    BY <1>1, <2>2 DEF KeyInv, NumbersApart, r
  <2>3. CASE appended[i].system /\ appended[i].boot # boot
    <3>1. appended[i].received < job[w].now
      BY <1>5, <2>3 DEF KeyInv, BootsApart
    <3>2. appended[i].time = appended[i].received - 1
      BY <2>3 DEF KeyInv, TimesTaken
    <3> QED
      BY <1>2, <3>1, <3>2, KeyRanges
  <2> QED
    BY <2>1, <2>2, <2>3
<1>11. KeysDistinct'
  BY <1>3, <1>10, KeysGrow DEF KeyInv
<1> QED
  BY <1>6, <1>7, <1>8, <1>9, <1>11 DEF KeyInv

(* An activation is the first record with its time, but for messages,      *)
(* which have other numbers.                                               *)
LEMMA KeyLock ==
    ASSUME StateInv, OrderInv, KeyInv, NEW w \in Workers, Lock(w)
    PROVE  KeyInv'
<1> DEFINE a == Activation(w)
           now == job[w].now
<1>1. /\ UNCHANGED <<clock, boot, job>> /\ at[w] = "received"
      /\ at' = [at EXCEPT ![w] = "number"]
  BY DEF Lock
<1>2. /\ session' # None /\ session'.lastActive = now /\ session'.seq \in Nat
      /\ session # None => session'.seq > session.seq
      /\ a \in Records /\ a.boot = boot /\ a.system /\ a.received = now
      /\ \/ appended' = appended /\ session # None
         \/ /\ appended' = Append(appended, a) /\ a.seq < session'.seq
            /\ session # None => a.seq > session.seq
  BY LockStream DEF Sessions
<1>3. /\ now \in Nat /\ now <= clock /\ job[w].time = now
      /\ a.time = now - 1 /\ a.seq \in Nat
  <2>1. a.time = job[w].time - 1
    BY DEF Activation, Record
  <2>2. a.seq \in Nat
    BY <1>2 DEF Records
  <2> QED
    BY <1>1, <2>1, <2>2, KeyRanges DEF KeyInv, TimesOwn
<1>4. \A i \in 1..Len(appended) : appended[i].received # now
  BY <1>1 DEF KeyInv, TimesOwn
<1>5. session'.seq > 1 /\ (session = None => a.seq = 1)
  <2>1. CASE session = None
    <3>1. EnsuredSession(now).seq = 0 /\ Reactivates(now)
      BY <2>1 DEF EnsuredSession, NewSession, Reactivates
    <3>2. a.seq = 1
      BY <3>1 DEF Activation, Record
    <3>3. appended' = Append(appended, a) /\ a.seq < session'.seq
      BY <1>2, <2>1
    <3> QED
      BY <1>2, <3>2, <3>3
  <2>2. CASE session # None
    BY <1>2, <2>2, KeyRanges DEF KeyInv, NumbersApart
  <2> QED
    BY <2>1, <2>2
<1>6. /\ \A i \in 1..Len(appended) : i \in 1..Len(appended') /\ appended'[i] = appended[i]
      /\ \A i \in 1..Len(appended') : \/ i \in 1..Len(appended)
                                      \/ appended'[i] = a /\ appended' = Append(appended, a)
  <2>1. CASE appended' = appended
    BY <2>1
  <2>2. CASE appended' = Append(appended, a)
    BY <1>2, <2>2, KeyRanges, AppendKeeps
  <2> QED
    BY <1>2, <2>1, <2>2
<1>7. \A v \in Workers : /\ at'[v] # "idle" => at[v] # "idle"
                         /\ at'[v] \in {"received", "append"} => v # w /\ at'[v] = at[v]
                         /\ at'[v] = "number" => v = w \/ at[v] = "number"
  BY <1>1, KeyRanges
<1> HIDE DEF a
<1>8. TimesOwn'
  <2>1. \A v \in Workers, i \in 1..Len(appended') :
            /\ at'[v] = "received" => appended'[i].received # job[v].now
            /\ at'[v] \in {"number", "append"} /\ appended'[i].received = job[v].now
                    => appended'[i].system
    <3> SUFFICES ASSUME NEW v \in Workers, NEW i \in 1..Len(appended')
                 PROVE  /\ at'[v] = "received" => appended'[i].received # job[v].now
                        /\ at'[v] \in {"number", "append"} /\ appended'[i].received = job[v].now
                                => appended'[i].system
      OBVIOUS
    <3>1. CASE i \in 1..Len(appended)
      BY <1>4, <1>6, <1>7, <3>1 DEF KeyInv, TimesOwn
    <3>2. CASE appended'[i] = a
      BY <1>1, <1>2, <1>7, <3>2 DEF KeyInv, TimesOwn
    <3> QED
      BY <1>6, <3>1, <3>2
  <2> QED
    BY <1>1, <1>7, <2>1 DEF KeyInv, TimesOwn
<1>9. TimesTaken'
  <2>1. \A i \in 1..Len(appended') : appended'[i].received <= clock /\
            appended'[i].time = appended'[i].received - (IF appended'[i].system THEN 1 ELSE 0)
    <3> SUFFICES ASSUME NEW i \in 1..Len(appended')
                 PROVE  appended'[i].received <= clock /\
            appended'[i].time = appended'[i].received - (IF appended'[i].system THEN 1 ELSE 0)
      OBVIOUS
    <3>1. CASE i \in 1..Len(appended)
      BY <1>6, <3>1 DEF KeyInv, TimesTaken
    <3>2. CASE appended'[i] = a
      BY <1>2, <1>3, <3>2
    <3> QED
      BY <1>6, <3>1, <3>2
  <2> QED
    BY <1>1, <1>7, <2>1 DEF KeyInv, TimesTaken
<1>10. NumbersApart'
  <2>1. \A i \in 1..Len(appended') :
            /\ ~appended'[i].system => appended'[i].seq > 1
            /\ appended'[i].boot = boot /\ appended'[i].system => appended'[i].seq < session'.seq
    <3> SUFFICES ASSUME NEW i \in 1..Len(appended')
                 PROVE  /\ ~appended'[i].system => appended'[i].seq > 1
                        /\ appended'[i].boot = boot /\ appended'[i].system
                                => appended'[i].seq < session'.seq
      OBVIOUS
    <3>1. CASE i \in 1..Len(appended)
      <4>1. appended[i].boot = boot => session # None
        BY <3>1 DEF OrderInv
      <4> QED
        BY <1>2, <1>6, <3>1, <4>1, KeyRanges DEF KeyInv, NumbersApart
    <3>2. CASE appended'[i] = a /\ appended' = Append(appended, a)
      <4>1. a.seq < session'.seq
        BY <1>2, <1>6, <3>2, KeyRanges, AppendKeeps
      <4> QED
        BY <1>2, <3>2, <4>1
    <3> QED
      BY <1>6, <3>1, <3>2
  <2>2. \A v \in Workers : at'[v] = "append" =>
            /\ job[v].rec.seq > 1
            /\ \A i \in 1..Len(appended') : appended'[i].boot = boot /\ appended'[i].system
                    => appended'[i].seq # job[v].rec.seq
    <3> SUFFICES ASSUME NEW v \in Workers, at'[v] = "append"
                 PROVE  /\ job[v].rec.seq > 1
                        /\ \A i \in 1..Len(appended') :
                             appended'[i].boot = boot /\ appended'[i].system
                                => appended'[i].seq # job[v].rec.seq
      OBVIOUS
    <3>1. at[v] = "append" /\ session # None
          /\ job[v].rec.seq \in Nat /\ job[v].rec.seq <= session.seq
      BY <1>7, KeyRanges DEF OrderInv
    <3>2. ASSUME NEW i \in 1..Len(appended'), appended'[i].boot = boot, appended'[i].system
          PROVE  appended'[i].seq # job[v].rec.seq
      <4>1. CASE i \in 1..Len(appended)
        BY <1>6, <3>1, <3>2, <4>1 DEF KeyInv, NumbersApart
      <4>2. CASE appended'[i] = a /\ appended' = Append(appended, a)
        <5>1. a.seq > session.seq
          BY <1>2, <3>1, <4>2, KeyRanges, AppendKeeps
        <5> QED
          BY <1>3, <3>1, <4>2, <5>1, KeyRanges
      <4> QED
        BY <1>6, <4>1, <4>2
    <3> QED
      BY <3>1, <3>2 DEF KeyInv, NumbersApart
  <2> QED
    BY <1>1, <1>5, <2>1, <2>2 DEF NumbersApart
<1>11. BootsApart'
  <2>1. ASSUME NEW i \in 1..Len(appended'), appended'[i].boot # boot
        PROVE  /\ appended'[i].received < now
               /\ \A v \in Workers : at'[v] # "idle" => appended'[i].received < job[v].now
    <3>1. i \in 1..Len(appended)
      BY <1>2, <1>6, <2>1
    <3> QED
      BY <1>1, <1>6, <1>7, <2>1, <3>1 DEF KeyInv, BootsApart
  <2> QED
    BY <1>1, <1>2, <1>3, <2>1 DEF BootsApart
<1>12. ASSUME appended' = Append(appended, a), NEW i \in 1..Len(appended),
              appended[i].time = a.time
       PROVE  appended[i].seq # a.seq
  <2>1. CASE appended[i].system
    <3>1. appended[i].time = appended[i].received - 1
      BY <2>1 DEF KeyInv, TimesTaken
    <3>2. appended[i].received \in Nat /\ appended[i].received # now
      BY <1>4, KeyRanges
    <3> QED
      BY <1>3, <1>12, <3>1, <3>2
  <2>2. CASE ~appended[i].system /\ appended[i].boot = boot
    <3>1. session # None /\ appended[i].seq <= session.seq
      BY <2>2 DEF OrderInv
    <3>2. a.seq > session.seq
      BY <1>2, <1>12, <3>1, KeyRanges, AppendKeeps
    <3> QED
      BY <1>3, <3>1, <3>2, KeyRanges
  <2>3. CASE ~appended[i].system /\ appended[i].boot # boot /\ session = None
    BY <1>5, <2>3, KeyRanges DEF KeyInv, NumbersApart
  <2>4. CASE ~appended[i].system /\ appended[i].boot # boot /\ session # None
    <3>1. appended[i].received < session.lastActive /\ appended[i].time = appended[i].received
      BY <2>4, KeyRanges DEF KeyInv, BootsApart, TimesTaken
    <3>2. Reactivates(now)
      <4>1. Len(appended') = Len(appended) + 1
        BY <1>2, <1>12, KeyRanges, AppendKeeps
      <4> QED
        BY <4>1, LockCases, KeyRanges DEF StateInv
    <3>3. now - session.lastActive > ActiveWindow
      BY <2>4, <3>2 DEF Reactivates
    <3> QED
      BY <1>3, <1>12, <2>4, <3>1, <3>3, KeyRanges, WindowAssumption
  <2> QED
    BY <2>1, <2>2, <2>3, <2>4
<1>13. KeysDistinct'
  <2>1. CASE appended' = appended
    BY <2>1 DEF KeyInv, KeysDistinct
  <2>2. CASE appended' = Append(appended, a)
    <3>1. \A i \in 1..Len(appended) : <<appended[i].time, appended[i].seq>> # <<a.time, a.seq>>
      BY <1>12, <2>2
    <3>2. /\ appended'[Len(appended) + 1] = a
          /\ \A i \in 1..Len(appended) : appended'[i] = appended[i]
          /\ \A i \in 1..Len(appended') : i \in 1..Len(appended) \/ i = Len(appended) + 1
      BY <1>2, <2>2, KeyRanges, AppendKeeps
    <3> QED
      BY <3>1, <3>2, KeysGrow DEF KeyInv
  <2> QED
    BY <1>2, <2>1, <2>2
<1> QED
  BY <1>8, <1>9, <1>10, <1>11, <1>13 DEF KeyInv

LEMMA KeyKill ==
    ASSUME StateInv, OrderInv, KeyInv, Kill PROVE KeyInv'
<1>1. /\ boot' = boot + 1 /\ session' = None /\ at' = [v \in Workers |-> "idle"]
      /\ UNCHANGED <<clock, appended>>
  BY DEF Kill, streams
<1>2. \A i \in 1..Len(appended) : appended[i].boot # boot + 1
  BY KeyRanges DEF OrderInv
<1>3. \A v \in Workers : at'[v] = "idle"
  BY <1>1
<1>4. TimesOwn' /\ TimesTaken'
  BY <1>1, <1>3 DEF KeyInv, TimesOwn, TimesTaken
<1>5. NumbersApart'
  BY <1>1, <1>2, <1>3 DEF KeyInv, NumbersApart
<1>6. BootsApart'
  BY <1>1, <1>3 DEF BootsApart
<1>7. KeysDistinct'
  BY <1>1 DEF KeyInv, KeysDistinct
<1> QED
  BY <1>4, <1>5, <1>6, <1>7 DEF KeyInv

LEMMA KeyInvHolds == ASSUME ClientTimes = {0} PROVE Spec => []KeyInv
<1>1. Init => KeyInv
  BY DEF Init, KeyInv, TimesOwn, TimesTaken, NumbersApart, BootsApart, KeysDistinct
<1>2. StateInv /\ OrderInv /\ KeyInv /\ [Next]_vars => KeyInv'
  <2> SUFFICES ASSUME StateInv, OrderInv, KeyInv, [Next]_vars PROVE KeyInv'
    OBVIOUS
  <2>1. CASE Sync \/ SyncFails
    <3>1. /\ session # None /\ session' # None
          /\ session'.seq = session.seq /\ session'.lastActive = session.lastActive
      BY <2>1, SyncFields, NoneAssumption DEF Sync, SyncFails
    <3> QED
      BY <2>1, <3>1, KeyQuiet, KeyRanges DEF Sync, SyncFails, streams, handles
  <2>2. CASE Pause \/ UNCHANGED vars
    <3>1. clock' \in Nat /\ clock' >= clock
      BY <2>2, KeyRanges, WindowAssumption DEF Pause, Advance, vars
    <3> QED
      BY <2>2, <3>1, KeyQuiet DEF Pause, vars, registry, handles, streams
  <2>3. ASSUME NEW w \in Workers, SendMessage(w) PROVE KeyInv'
    <3>1. /\ UNCHANGED <<clock, boot, session, appended>>
          /\ at' = [at EXCEPT ![w] = "idle"] /\ job' = [job EXCEPT ![w] = NoJob]
      BY <2>3 DEF SendMessage, registry
    <3>2. \A v \in Workers : at'[v] # "idle" => at'[v] = at[v] /\ job'[v] = job[v]
      BY <3>1, KeyRanges
    <3> QED
      BY <3>1, <3>2, KeyQuiet, KeyRanges
  <2>4. ASSUME NEW w \in Workers, NEW t \in ClientTimes, Receive(w, t) PROVE KeyInv'
    BY <2>4, KeyReceive
  <2> QED
    BY <2>1, <2>2, <2>3, <2>4, NextCases, KeyLock, KeyNumber, KeyAppend, KeyKill
<1> QED
  BY <1>1, <1>2, StateInvHolds, OrderInvHolds, PTL DEF Spec

(* When messages carry no time of their own, no record takes the key of    *)
(* another, whatever goroutines wait, whenever the program is killed and   *)
(* however long the session is quiet: the activation that is given the time*)
(* before its message never has the number of a message of that time       *)
(* (leveldb.go:14,37, manager.go:109-145).                                 *)
THEOREM KeysStayDistinct == ASSUME ClientTimes = {0} PROVE Spec => []KeysDistinct
<1>1. KeyInv => KeysDistinct
  BY DEF KeyInv
<1> QED
  BY <1>1, KeyInvHolds, PTL
=============================================================================
