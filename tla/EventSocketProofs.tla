------------------------- MODULE EventSocketProofs -------------------------
(***************************************************************************)
(* Theorems about the event client, for any filters and any number of      *)
(* sockets and changes.                                                    *)
(***************************************************************************)
EXTENDS EventSocket, SequenceTheorems, TLAPS

(* The socket in hand is the last one that was opened, the only one with   *)
(* handlers, and not closed by the client itself.                          *)
InHand ==
    /\ ws # NoSocket => /\ ws = opened /\ attached = {ws}
                        /\ state[ws] \in {"connecting", "open", "closed"}
    /\ ws = NoSocket => attached = {}

(* Sockets to come have no state, those before are on their way to the end.*)
Others ==
    /\ \A s \in Sockets : s > opened => state[s] = "none"
    /\ \A s \in Sockets : s # ws => state[s] \notin {"connecting", "open"}

(* The flags follow the key.                                               *)
Flags ==
    /\ key => ws # NoSocket /\ ~closed
    /\ ~key => ws = NoSocket /\ ~timer

(* A socket that was lost has set the timer and told the page.             *)
Told ==
    ws # NoSocket =>
        /\ state[ws] = "closed" => timer /\ ~wsConnected
        /\ state[ws] = "open" => wsConnected

IInv == TypeOK /\ InHand /\ Others /\ Flags /\ Told /\ FilterInStep

-----------------------------------------------------------------------------
(* The last element of a queue after a message was added or taken.         *)
LEMMA LastOfQueue ==
    ASSUME NEW q \in Seq(Filters), NEW f \in Filters
    PROVE  /\ Append(q, f) \in Seq(Filters)
           /\ Append(q, f) # <<>>
           /\ Append(q, f)[Len(Append(q, f))] = f
BY AppendProperties

LEMMA LastOfRest ==
    ASSUME NEW q \in Seq(Filters), q # <<>>
    PROVE  /\ Head(q) \in Filters
           /\ Tail(q) \in Seq(Filters)
           /\ Tail(q) # <<>> => Tail(q)[Len(Tail(q))] = q[Len(q)]
           /\ Tail(q) = <<>> => Head(q) = q[Len(q)]
<1>1. Len(q) \in Nat /\ Len(q) > 0
  BY SMT
<1>2. Head(q) \in Filters /\ Tail(q) \in Seq(Filters) /\ Len(Tail(q)) = Len(q) - 1
  BY HeadTailProperties
<1>3. ASSUME Tail(q) # <<>> PROVE Tail(q)[Len(Tail(q))] = q[Len(q)]
  BY <1>1, <1>2, <1>3, SMT
<1>4. ASSUME Tail(q) = <<>> PROVE Head(q) = q[Len(q)]
  <2>1. Len(Tail(q)) = 0
    BY <1>4, EmptySeq
  <2>2. \A n \in Nat : n - 1 = 0 => n = 1
    BY SMT
  <2>3. Head(q) = q[1]
    BY SMT
  <2> QED
    BY <1>1, <1>2, <2>1, <2>2, <2>3, Zenon
<1> QED
  BY <1>2, <1>3, <1>4

LEMMA InitIInv == Init => IInv
<1> SUFFICES ASSUME Init PROVE IInv
  OBVIOUS
<1> USE DEF Init
<1>1. opened \in 0..MaxSockets /\ changes \in 0..MaxChanges
  BY MaxSocketsAssumption, MaxChangesAssumption, SMT
<1>2. toServer \in [Sockets -> Seq(Filters)]
  BY SMT
<1>3. TypeOK
  BY <1>1, <1>2, AllAssumption DEF TypeOK
<1>4. InHand /\ Others /\ Flags /\ Told /\ FilterInStep
  BY DEF InHand, Others, Flags, Told, FilterInStep
<1> QED
  BY <1>3, <1>4 DEF IInv

(* What connect leaves behind, for a user with or without a key.           *)
LEMMA ConnectSteps ==
    ASSUME IInv, connect, key' = TRUE, changes' \in 0..MaxChanges
    PROVE  IInv'
<1> USE MaxSocketsAssumption DEF IInv, connect
<1>1. /\ opened \in Nat /\ opened' = opened + 1 /\ opened' \in Sockets
      /\ ws' = opened' /\ ws' \in Sockets /\ ws' # NoSocket /\ ws' # ws
      /\ ws \in Sockets \cup {NoSocket} /\ opened' \in 0..MaxSockets
  BY SMT DEF TypeOK, Sockets, NoSocket, InHand
<1>2. attached' = {ws'}
  BY <1>1 DEF InHand
<1>3. /\ state' \in [Sockets -> {"none", "connecting", "open", "closing", "closed"}]
      /\ state'[ws'] = "connecting"
      /\ \A s \in Sockets : s # ws' =>
            state'[s] = IF s = ws THEN Closing(state[s]) ELSE state[s]
  BY <1>1 DEF TypeOK, Closing
<1>4. TypeOK'
  BY <1>1, <1>2, <1>3 DEF TypeOK
<1>5. InHand'
  BY <1>1, <1>2, <1>3 DEF InHand
<1>6. Others'
  <2>1. ASSUME NEW s \in Sockets, s # ws'
        PROVE  state'[s] \notin {"connecting", "open"}
    <3>1. CASE s = ws
      BY <1>3, <2>1, <3>1 DEF Closing
    <3>2. CASE s # ws
      BY <1>3, <2>1, <3>2 DEF Others
    <3> QED
      BY <3>1, <3>2
  <2>2. ASSUME NEW s \in Sockets, s > opened'
        PROVE  state'[s] = "none"
    <3>1. s > opened /\ s # ws'
      BY <1>1, <2>2, SMT DEF Sockets
    <3>2. s # ws
      BY <1>1, <3>1, SMT DEF InHand, NoSocket, Sockets
    <3> QED
      BY <1>3, <3>1, <3>2 DEF Others
  <2> QED
    BY <2>1, <2>2 DEF Others
<1>7. Flags'
  BY <1>1 DEF Flags
<1>8. Told' /\ FilterInStep'
  BY <1>1, <1>3 DEF Told, FilterInStep
<1> QED
  BY <1>4, <1>5, <1>6, <1>7, <1>8

LEMMA LogoutSteps ==
    ASSUME IInv, Logout
    PROVE  IInv'
<1> USE MaxSocketsAssumption DEF IInv, Logout, close
<1>1. ws' = NoSocket /\ opened' = opened /\ attached' = {}
  BY DEF InHand
<1>2. /\ state' \in [Sockets -> {"none", "connecting", "open", "closing", "closed"}]
      /\ \A s \in Sockets : state'[s] = IF s = ws THEN Closing(state[s]) ELSE state[s]
  BY DEF TypeOK, Closing
<1>3. changes' \in 0..MaxChanges
  BY MaxChangesAssumption, SMT DEF TypeOK
<1>4. TypeOK'
  BY <1>1, <1>2, <1>3 DEF TypeOK
<1>5. InHand'
  BY <1>1 DEF InHand
<1>6. Others'
  <2>1. ASSUME NEW s \in Sockets PROVE state'[s] \notin {"connecting", "open"}
    BY <1>2 DEF Closing, Others
  <2>2. ASSUME NEW s \in Sockets, s > opened' PROVE state'[s] = "none"
    BY <1>1, <1>2, <2>2 DEF Others, Closing
  <2> QED
    BY <2>1, <2>2 DEF Others
<1>7. Flags' /\ Told' /\ FilterInStep'
  BY <1>1 DEF Flags, Told, FilterInStep
<1> QED
  BY <1>4, <1>5, <1>6, <1>7

LEMMA SubscribeSteps ==
    ASSUME IInv, NEW f \in Filters, subscribe(f)
    PROVE  IInv'
<1> USE DEF IInv, subscribe, sendFilter
<1>1. \A s \in Sockets : toServer'[s] = IF s = ws /\ state[s] = "open"
                                        THEN Append(toServer[s], f) ELSE toServer[s]
  BY DEF TypeOK
<1>2. \A s \in Sockets : toServer'[s] \in Seq(Filters)
  BY <1>1, LastOfQueue DEF TypeOK
<1>3. changes' \in 0..MaxChanges
  BY MaxChangesAssumption, SMT DEF TypeOK
<1>4. toServer' \in [Sockets -> Seq(Filters)]
  BY <1>2
<1>5. TypeOK'
  BY <1>3, <1>4 DEF TypeOK
<1>6. InHand' /\ Others' /\ Flags' /\ Told'
  BY DEF InHand, Others, Flags, Told
<1>7. ASSUME ws' # NoSocket, state'[ws'] = "open"
      PROVE  LastFilter(ws)' = wanted'
  <2>1. ws \in Sockets /\ ws' = ws /\ state' = state
    BY <1>7 DEF TypeOK
  <2>2. toServer'[ws] = Append(toServer[ws], f) /\ toServer[ws] \in Seq(Filters)
    BY <1>1, <1>7, <2>1 DEF TypeOK
  <2> QED
    BY <2>1, <2>2, LastOfQueue DEF LastFilter
<1>8. FilterInStep'
  BY <1>7 DEF FilterInStep
<1> QED
  BY <1>5, <1>6, <1>8

LEMMA OpenSteps ==
    ASSUME IInv, NEW s \in Sockets, onopen(s)
    PROVE  IInv'
<1> USE DEF IInv, onopen
<1>1. s = ws /\ ws # NoSocket /\ s \in attached
  BY DEF Others, InHand, Sockets, NoSocket
<1>2. /\ \A r \in Sockets : state'[r] = IF r = s THEN "open" ELSE state[r]
      /\ state' \in [Sockets -> {"none", "connecting", "open", "closing", "closed"}]
  BY DEF TypeOK
<1>3. wsConnected' = TRUE /\ sendFilter(state', wanted)
  BY <1>1
<1>4. \A r \in Sockets : toServer'[r] = IF r = s THEN Append(toServer[r], wanted)
                                        ELSE toServer[r]
  BY <1>1, <1>2, <1>3 DEF sendFilter
<1>5. toServer' \in [Sockets -> Seq(Filters)]
  <2>1. ASSUME NEW r \in Sockets PROVE toServer'[r] \in Seq(Filters)
    <3>1. toServer[r] \in Seq(Filters) /\ wanted \in Filters
      BY DEF TypeOK
    <3> QED
      BY <1>4, <3>1, LastOfQueue
  <2> QED
    BY <1>3, <2>1 DEF sendFilter
<1>6. TypeOK'
  BY <1>2, <1>3, <1>5 DEF TypeOK
<1>7. InHand'
  BY <1>1, <1>2 DEF InHand
<1>8. Others'
  <2>1. s <= opened
    BY <1>1, SMT DEF InHand, TypeOK
  <2>2. \A r \in Sockets : r > opened => r # s
    BY <2>1, SMT DEF TypeOK, Sockets
  <2> QED
    BY <1>1, <1>2, <2>2 DEF Others
<1>9. Flags' /\ Told'
  BY <1>1, <1>2, <1>3 DEF Flags, Told
<1>10. LastFilter(ws)' = wanted'
  <2>1. toServer'[ws] = Append(toServer[ws], wanted)
    BY <1>1, <1>4
  <2>2. toServer[ws] \in Seq(Filters) /\ wanted \in Filters
    BY <1>1 DEF TypeOK
  <2> QED
    BY <2>1, <2>2, LastOfQueue DEF LastFilter
<1>11. FilterInStep'
  BY <1>10 DEF FilterInStep
<1> QED
  BY <1>6, <1>7, <1>8, <1>9, <1>11

LEMMA LossSteps ==
    ASSUME IInv, NEW s \in Sockets, onclose(s)
    PROVE  IInv'
<1> USE DEF IInv, onclose
<1>1. s = ws /\ ws # NoSocket /\ s \in attached /\ ~closed
  BY DEF Others, InHand, Sockets, NoSocket, Flags
<1>2. /\ \A r \in Sockets : state'[r] = IF r = s THEN "closed" ELSE state[r]
      /\ state' \in [Sockets -> {"none", "connecting", "open", "closing", "closed"}]
  BY DEF TypeOK
<1>3. wsConnected' = FALSE /\ timer' = TRUE
  BY <1>1 DEF scheduleReconnect
<1>4. toServer' \in [Sockets -> Seq(Filters)]
  BY SMT DEF TypeOK
<1>5. TypeOK'
  BY <1>2, <1>3, <1>4 DEF TypeOK
<1>6. InHand'
  BY <1>1, <1>2 DEF InHand
<1>7. Others'
  <2>1. s <= opened
    BY <1>1, SMT DEF InHand, TypeOK
  <2>2. \A r \in Sockets : r > opened => r # s
    BY <2>1, SMT DEF TypeOK, Sockets
  <2> QED
    BY <1>1, <1>2, <2>2 DEF Others
<1>8. Flags' /\ Told'
  BY <1>1, <1>2, <1>3 DEF Flags, Told
<1>9. FilterInStep'
  BY <1>1, <1>2 DEF FilterInStep
<1> QED
  BY <1>5, <1>6, <1>7, <1>8, <1>9

LEMMA ClosesSteps ==
    ASSUME IInv, NEW s \in Sockets, Closes(s)
    PROVE  IInv'
<1> USE DEF IInv, Closes, client
<1>1. s # ws \/ ws = NoSocket
  BY DEF InHand
<1>2. s # ws
  BY <1>1, SMT DEF Sockets, NoSocket
<1>3. /\ \A r \in Sockets : state'[r] = IF r = s THEN "closed" ELSE state[r]
      /\ \A r \in Sockets : r # s => toServer'[r] = toServer[r]
      /\ state' \in [Sockets -> {"none", "connecting", "open", "closing", "closed"}]
  BY DEF TypeOK
<1>4. toServer' \in [Sockets -> Seq(Filters)]
  BY SMT DEF TypeOK
<1>5. TypeOK'
  BY <1>3, <1>4 DEF TypeOK
<1>6. ws # NoSocket => ws \in Sockets
  BY DEF TypeOK
<1>7. InHand' /\ Flags' /\ Told'
  BY <1>2, <1>3, <1>6 DEF InHand, Flags, Told
<1>8. Others'
  BY <1>3 DEF Others
<1>9. FilterInStep'
  BY <1>2, <1>3, <1>6 DEF FilterInStep, LastFilter
<1> QED
  BY <1>5, <1>7, <1>8, <1>9

LEMMA ReadSteps ==
    ASSUME IInv, NEW s \in Sockets, ReadFilter(s)
    PROVE  IInv'
<1> USE DEF IInv, ReadFilter, client
<1>1. s = ws /\ ws # NoSocket
  BY DEF Others, Sockets, NoSocket
<1>2. toServer[s] \in Seq(Filters) /\ toServer[s] # <<>>
  BY DEF TypeOK
<1>3. /\ toServer'[s] = Tail(toServer[s]) /\ served'[s] = Head(toServer[s])
      /\ Tail(toServer[s]) \in Seq(Filters) /\ Head(toServer[s]) \in Filters
  BY <1>2, LastOfRest DEF TypeOK
<1>4. TypeOK'
  <2>1. toServer' \in [Sockets -> Seq(Filters)]
    BY <1>3 DEF TypeOK
  <2>2. served' \in [Sockets -> Filters]
    BY <1>3 DEF TypeOK
  <2> QED
    BY <2>1, <2>2 DEF TypeOK
<1>5. InHand' /\ Flags' /\ Told' /\ Others'
  BY DEF InHand, Flags, Told, Others
<1>6. LastFilter(ws)' = LastFilter(ws)
  BY <1>1, <1>2, <1>3, LastOfRest DEF LastFilter
<1>7. FilterInStep'
  BY <1>1, <1>6 DEF FilterInStep
<1> QED
  BY <1>4, <1>5, <1>7

LEMMA NextIInv == IInv /\ [Next]_vars => IInv'
<1> SUFFICES ASSUME IInv, [Next]_vars PROVE IInv'
  OBVIOUS
<1>1. CASE \E f \in Filters : subscribe(f)
  BY <1>1, SubscribeSteps
<1>2. CASE KeyChanges
  <2>1. changes' \in 0..MaxChanges
    BY <1>2, MaxChangesAssumption, SMT DEF KeyChanges, IInv, TypeOK
  <2> QED
    BY <1>2, <2>1, ConnectSteps DEF KeyChanges
<1>3. CASE Logout
  BY <1>3, LogoutSteps
<1>4. CASE TimerFires
  <2>1. key' = TRUE /\ changes' \in 0..MaxChanges
    BY <1>4 DEF TimerFires, IInv, Flags, TypeOK
  <2> QED
    BY <1>4, <2>1, ConnectSteps DEF TimerFires
<1>5. CASE \E s \in Sockets : onopen(s) \/ onclose(s) \/ Closes(s) \/ ReadFilter(s)
  BY <1>5, OpenSteps, LossSteps, ClosesSteps, ReadSteps
<1>6. CASE UNCHANGED vars
  BY <1>6 DEF vars, client, IInv, TypeOK, InHand, Others, Flags, Told, FilterInStep, LastFilter
<1> QED
  BY <1>1, <1>2, <1>3, <1>4, <1>5, <1>6 DEF Next

LEMMA Invariance == Spec => []IInv
BY InitIInv, NextIInv, PTL DEF Spec
-----------------------------------------------------------------------------
(* Every variable keeps its type (ws.ts:6-12).                             *)
THEOREM TypeCorrect == Spec => []TypeOK
<1>1. IInv => TypeOK
  BY DEF IInv
<1> QED
  BY <1>1, Invariance, PTL

(* However logins, lost connections and retries follow one another, at most*)
(* one socket is alive and can call the client (ws.ts:14-33,59-77).        *)
THEOREM AtMostOneConnection == Spec => []OneConnection
<1>1. IInv => OneConnection
  BY DEF IInv, InHand, Others, OneConnection
<1> QED
  BY <1>1, Invariance, PTL

(* A user who is logged in is never left without a connection, an attempt  *)
(* or a timer, and one who is not has none of them (ws.ts:39-42,100-106).  *)
THEOREM NeverGivesUp == Spec => []KeepsTrying
<1>1. IInv => KeepsTrying
  BY DEF IInv, InHand, Flags, Told, KeepsTrying
<1> QED
  BY <1>1, Invariance, PTL

(* The last filter the server has, or will read, is the one the page wants *)
(* (ws.ts:35-38,79-98).                                                    *)
THEOREM FilterFollows == Spec => []FilterInStep
<1>1. IInv => FilterInStep
  BY DEF IInv
<1> QED
  BY <1>1, Invariance, PTL

(* The indicator agrees with the connection in hand (ws.ts:35-42).         *)
THEOREM IndicatorAgrees == Spec => []IndicatorTrue
<1>1. IInv => IndicatorTrue
  BY DEF IInv, Told, IndicatorTrue
<1> QED
  BY <1>1, Invariance, PTL
=============================================================================
