---------------------------- MODULE PauseProofs ----------------------------
(***************************************************************************)
(* Theorems about pausing, for any browsers and any number of calls and    *)
(* faults.                                                                 *)
(***************************************************************************)
EXTENDS Pause, SequenceTheorems, TLAPS

(* Without overlapping calls there is one at work, the gate is what it     *)
(* says, and so is the setting once it was written.                        *)
OneAtWork == ~overlapped => \A c, d \in Calls : AtWork(c) /\ AtWork(d) => c = d
GateFollows == ~overlapped => \A c \in Calls : AtWork(c) => gate = value[c]
SettingFollows ==
    ~overlapped /\ ~spoilt => \A c \in Calls : pc[c] = "setting" => setting = value[c]

ServerInv == OneAtWork /\ GateFollows /\ SettingFollows /\ PauseSurvives

(* Events are on their way to connected browsers only, and the last one    *)
(* says what was answered last; so does the flag of a browser that has had *)
(* them all, and so does the gate while anybody relies on it.              *)
LastIsAcked ==
    \A b \in Browsers : inbox[b] # <<>> => link[b] /\ inbox[b][Len(inbox[b])] = acked
FlagIsAcked == \A b \in heard : inbox[b] = <<>> => paused[b] = acked
GateIsAcked ==
    Quiet /\ ~overlapped =>
        \A b \in Browsers : b \in heard \/ inbox[b] # <<>> => gate = acked

IInv == TypeOK /\ ServerInv /\ LastIsAcked /\ FlagIsAcked /\ GateIsAcked

-----------------------------------------------------------------------------
(* The last event on its way after one was added or taken.                 *)
LEMMA LastOfQueue ==
    ASSUME NEW q \in Seq(BOOLEAN), NEW v \in BOOLEAN
    PROVE  /\ Append(q, v) \in Seq(BOOLEAN)
           /\ Append(q, v) # <<>>
           /\ Append(q, v)[Len(Append(q, v))] = v
BY AppendProperties

LEMMA LastOfRest ==
    ASSUME NEW q \in Seq(BOOLEAN), q # <<>>
    PROVE  /\ Head(q) \in BOOLEAN
           /\ Tail(q) \in Seq(BOOLEAN)
           /\ Tail(q) # <<>> => Tail(q)[Len(Tail(q))] = q[Len(q)]
           /\ Tail(q) = <<>> => Head(q) = q[Len(q)]
<1>1. Len(q) \in Nat /\ Len(q) > 0
  BY SMT
<1>2. Head(q) \in BOOLEAN /\ Tail(q) \in Seq(BOOLEAN) /\ Len(Tail(q)) = Len(q) - 1
  BY HeadTailProperties
<1>3. ASSUME Tail(q) # <<>> PROVE Tail(q)[Len(Tail(q))] = q[Len(q)]
  BY <1>1, <1>2, <1>3, SMT
<1>4. ASSUME Tail(q) = <<>> PROVE Head(q) = q[Len(q)]
  <2>1. Len(Tail(q)) = 0
    BY <1>4, EmptySeq
  <2>2. \A n \in Nat : n - 1 = 0 => n = 1
    BY SMT
  <2>3. Head(q) = q[1]
    BY SMT
  <2> QED
    BY <1>1, <1>2, <2>1, <2>2, <2>3, Zenon
<1> QED
  BY <1>2, <1>3, <1>4

(* One more fault is within the bound.                                     *)
LEMMA OneMoreFault ==
    ASSUME TypeOK, faults < MaxFaults
    PROVE  faults + 1 \in 0..MaxFaults
BY MaxFaultsAssumption, SMT DEF TypeOK

-----------------------------------------------------------------------------
LEMMA InitIInv == Init => IInv
<1> SUFFICES ASSUME Init PROVE IInv
  OBVIOUS
<1> USE DEF Init
<1>1. faults \in 0..MaxFaults
  BY MaxFaultsAssumption, SMT
<1>2. inbox \in [Browsers -> Seq(BOOLEAN)]
  BY EmptySeq
<1>3. TypeOK
  BY <1>1, <1>2 DEF TypeOK
<1>4. \A c \in Calls : ~AtWork(c) /\ pc[c] # "setting"
  BY DEF AtWork
<1>5. ServerInv
  BY <1>4 DEF ServerInv, OneAtWork, GateFollows, SettingFollows, PauseSurvives
<1>6. LastIsAcked /\ FlagIsAcked /\ GateIsAcked
  BY DEF LastIsAcked, FlagIsAcked, GateIsAcked
<1> QED
  BY <1>3, <1>5, <1>6 DEF IInv

(* What leaves the server, its calls and the histories about them alone    *)
(* keeps what is said of the server.                                       *)
LEMMA ServerUnchanged ==
    ASSUME ServerInv, UNCHANGED <<gate, setting, overlapped, spoilt, acked>>,
           \A c \in Calls : /\ pc'[c] = pc[c] \/ (~AtWork(c) /\ ~AtWork(c)')
                            /\ AtWork(c) => value'[c] = value[c]
    PROVE  ServerInv' /\ (Quiet' <=> Quiet)
<1>1. \A c \in Calls : /\ AtWork(c)' <=> AtWork(c)
                       /\ pc'[c] = "setting" => AtWork(c) /\ pc[c] = "setting"
  BY DEF AtWork
<1>2. Quiet' <=> Quiet
  BY <1>1 DEF Quiet
<1>3. OneAtWork' /\ GateFollows' /\ SettingFollows'
  BY <1>1, Zenon DEF ServerInv, OneAtWork, GateFollows, SettingFollows
<1>4. PauseSurvives'
  BY <1>2, Zenon DEF ServerInv, PauseSurvives
<1> QED
  BY <1>2, <1>3, <1>4 DEF ServerInv

-----------------------------------------------------------------------------
(* The browser.                                                            *)
LEMMA ToggleSteps ==
    ASSUME IInv, NEW b \in Browsers, Toggle(b)
    PROVE  IInv'
<1>1. PICK c \in Calls :
        /\ pc[c] = "none"
        /\ paused' = [paused EXCEPT ![b] = ~paused[b]]
        /\ value' = [value EXCEPT ![c] = ~paused[b]]
        /\ pc' = [pc EXCEPT ![c] = "sent"]
        /\ heard' = heard \ {b}
        /\ UNCHANGED <<gate, setting, link, inbox, load, faults, overlapped, spoilt, acked>>
  BY Zenon DEF Toggle
<1>2. TypeOK'
  BY <1>1 DEF IInv, TypeOK
<1>3. \A d \in Calls : d # c => pc'[d] = pc[d] /\ value'[d] = value[d]
  BY <1>1 DEF IInv, TypeOK
<1>4. ~AtWork(c) /\ ~AtWork(c)'
  BY <1>1 DEF IInv, TypeOK, AtWork
<1>5. ServerInv' /\ (Quiet' <=> Quiet)
  BY <1>1, <1>3, <1>4, ServerUnchanged, Zenon DEF IInv
<1>6. LastIsAcked'
  BY <1>1, Zenon DEF IInv, LastIsAcked
<1>7. \A d \in heard' : d \in heard /\ d \in Browsers /\ paused'[d] = paused[d]
  BY <1>1 DEF IInv, TypeOK
<1>8. FlagIsAcked'
  BY <1>1, <1>7, Zenon DEF IInv, FlagIsAcked
<1>9. GateIsAcked'
  BY <1>1, <1>5, <1>7, Zenon DEF IInv, GateIsAcked
<1> QED
  BY <1>2, <1>5, <1>6, <1>8, <1>9 DEF IInv

(* An event that is taken was the last one, or leaves the last one.        *)
LEMMA EventSteps ==
    ASSUME IInv, NEW b \in Browsers, onmessage(b)
    PROVE  IInv'
<1> USE DEF onmessage, server, history
<1>1. inbox[b] \in Seq(BOOLEAN) /\ inbox[b] # <<>>
  BY DEF IInv, TypeOK
<1>2. /\ Head(inbox[b]) \in BOOLEAN
      /\ Tail(inbox[b]) \in Seq(BOOLEAN)
      /\ Tail(inbox[b]) # <<>> => Tail(inbox[b])[Len(Tail(inbox[b]))] = acked
      /\ Tail(inbox[b]) = <<>> => Head(inbox[b]) = acked
  BY <1>1, LastOfRest, Zenon DEF IInv, LastIsAcked
<1>3. TypeOK'
  BY <1>2 DEF IInv, TypeOK
<1>4. ServerInv' /\ (Quiet' <=> Quiet)
  BY ServerUnchanged, Zenon DEF IInv
<1>5. /\ inbox'[b] = Tail(inbox[b]) /\ paused'[b] = Head(inbox[b])
      /\ \A d \in Browsers : d # b => inbox'[d] = inbox[d] /\ paused'[d] = paused[d]
  BY DEF IInv, TypeOK
<1>6. LastIsAcked'
  BY <1>2, <1>5, Zenon DEF IInv, LastIsAcked
<1>7. \A d \in heard' : d \in Browsers /\ (d # b => d \in heard)
  BY DEF IInv, TypeOK
<1>8. FlagIsAcked'
  BY <1>2, <1>5, <1>7, Zenon DEF IInv, FlagIsAcked
<1>9. GateIsAcked'
  BY <1>1, <1>4, <1>5, <1>7, Zenon DEF IInv, GateIsAcked
<1> QED
  BY <1>3, <1>4, <1>6, <1>8, <1>9 DEF IInv

(* A browser that is not told, and whose events are not added to.          *)
LEMMA BrowserSteps ==
    ASSUME IInv, TypeOK', UNCHANGED <<server, overlapped, spoilt, acked>>,
           \A b \in heard' : b \in heard /\ (inbox'[b] = <<>> => inbox[b] = <<>>
                                                             /\ paused'[b] = paused[b]),
           \A b \in Browsers : inbox'[b] # <<>> => inbox'[b] = inbox[b] /\ (link[b] => link'[b])
    PROVE  IInv'
<1> USE DEF server, history
<1>1. ServerInv' /\ (Quiet' <=> Quiet)
  BY ServerUnchanged, Zenon DEF IInv
<1>2. LastIsAcked'
  BY Zenon DEF IInv, LastIsAcked
<1>3. FlagIsAcked'
  BY Zenon DEF IInv, FlagIsAcked
<1>4. GateIsAcked'
  BY <1>1, Zenon DEF IInv, GateIsAcked
<1> QED
  BY <1>1, <1>2, <1>3, <1>4 DEF IInv

LEMMA LoadSteps ==
    ASSUME IInv, NEW b \in Browsers, Loaded(b) \/ Reload(b) \/ GetSettings(b)
    PROVE  IInv'
<1> USE DEF server, history
<1>1. CASE Loaded(b)
  <2>1. TypeOK'
    BY <1>1 DEF Loaded, IInv, TypeOK
  <2>2. \A d \in heard' : d \in heard /\ d \in Browsers
    BY <1>1 DEF Loaded, IInv, TypeOK
  <2>3. \A d \in heard' : d # b => paused'[d] = paused[d]
    BY <1>1, <2>2 DEF Loaded, IInv, TypeOK
  <2>4. b \in heard' => load[b] = "false"
    BY <1>1 DEF Loaded, IInv, TypeOK
  <2>5. load[b] = "false" => paused'[b] = paused[b]
    BY <1>1 DEF Loaded, IInv, TypeOK
  <2> QED
    BY <1>1, <2>1, <2>2, <2>3, <2>4, <2>5, BrowserSteps, Zenon DEF Loaded
<1>2. CASE Reload(b)
  <2>1. TypeOK'
    BY <1>2, OneMoreFault, EmptySeq DEF Reload, IInv, TypeOK
  <2>2. \A d \in heard' : d \in heard /\ inbox'[d] = inbox[d] /\ paused'[d] = paused[d]
    BY <1>2 DEF Reload, IInv, TypeOK
  <2>3. \A d \in Browsers : inbox'[d] # <<>> => inbox'[d] = inbox[d] /\ link'[d] = link[d]
    BY <1>2 DEF Reload, IInv, TypeOK
  <2> QED
    BY <1>2, <2>1, <2>2, <2>3, BrowserSteps, Zenon DEF Reload
<1>3. CASE GetSettings(b)
  <2>1. TypeOK'
    BY <1>3 DEF GetSettings, IInv, TypeOK
  <2> QED
    BY <1>3, <2>1, BrowserSteps, Zenon DEF GetSettings
<1> QED
  BY <1>1, <1>2, <1>3

LEMMA LinkSteps ==
    ASSUME IInv, NEW b \in Browsers, LinkOpens(b) \/ LinkLost(b)
    PROVE  IInv'
<1> USE DEF server, history
<1>1. CASE LinkOpens(b)
  <2>1. TypeOK'
    BY <1>1 DEF LinkOpens, IInv, TypeOK
  <2>2. \A d \in Browsers : link[d] => link'[d]
    BY <1>1 DEF LinkOpens, IInv, TypeOK
  <2> QED
    BY <1>1, <2>1, <2>2, BrowserSteps, Zenon DEF LinkOpens
<1>2. CASE LinkLost(b)
  <2>1. TypeOK'
    BY <1>2, OneMoreFault, EmptySeq DEF LinkLost, IInv, TypeOK
  <2>2. \A d \in heard' : d \in heard /\ inbox'[d] = inbox[d]
    BY <1>2 DEF LinkLost, IInv, TypeOK
  <2>3. \A d \in Browsers : inbox'[d] # <<>> => inbox'[d] = inbox[d] /\ link'[d] = link[d]
    BY <1>2 DEF LinkLost, IInv, TypeOK
  <2> QED
    BY <1>2, <2>1, <2>2, <2>3, BrowserSteps, Zenon DEF LinkLost
<1> QED
  BY <1>1, <1>2

-----------------------------------------------------------------------------
(* The server.                                                             *)

(* What leaves the browsers, and what was answered, alone.                 *)
LEMMA BrowserUnchanged ==
    ASSUME IInv, UNCHANGED <<browser, acked, heard>>, UNCHANGED gate \/ ~Quiet',
           UNCHANGED overlapped \/ ~Quiet', Quiet' => Quiet
    PROVE  LastIsAcked' /\ FlagIsAcked' /\ GateIsAcked'
<1> USE DEF browser
<1>1. LastIsAcked' /\ FlagIsAcked'
  BY Zenon DEF IInv, LastIsAcked, FlagIsAcked
<1>2. GateIsAcked'
  BY Zenon DEF IInv, GateIsAcked
<1> QED
  BY <1>1, <1>2

(* If another call is at work the two overlap.                             *)
LEMMA SetGateSteps ==
    ASSUME IInv, NEW c \in Calls, SetGate(c)
    PROVE  IInv'
<1> USE DEF SetGate
<1>1. TypeOK'
  BY DEF IInv, TypeOK, browser
<1>2. AtWork(c)' /\ pc'[c] = "gate" /\ \A d \in Calls : d # c => pc'[d] = pc[d]
  BY DEF IInv, TypeOK, AtWork
<1>3. ~Quiet'
  BY <1>2 DEF Quiet
<1>4. ~overlapped' => \A d \in Calls : AtWork(d)' => d = c
  BY <1>2, Zenon DEF AtWork
<1>5. OneAtWork'
  BY <1>4, Zenon DEF OneAtWork
<1>6. GateFollows'
  BY <1>4, Zenon DEF GateFollows
<1>7. SettingFollows'
  <2>1. \A d \in Calls : pc'[d] = "setting" => AtWork(d)'
    BY DEF AtWork
  <2>2. "gate" # "setting"
    OBVIOUS
  <2> QED
    BY <1>2, <1>4, <2>1, <2>2, Zenon DEF SettingFollows
<1>8. PauseSurvives'
  BY <1>3 DEF PauseSurvives
<1>9. LastIsAcked' /\ FlagIsAcked' /\ GateIsAcked'
  BY <1>3, BrowserUnchanged, Zenon
<1> QED
  BY <1>1, <1>5, <1>6, <1>7, <1>8, <1>9 DEF IInv, ServerInv

LEMMA CallLostSteps ==
    ASSUME IInv, NEW c \in Calls, CallLost(c)
    PROVE  IInv'
<1> USE DEF CallLost, history
<1>1. TypeOK'
  BY OneMoreFault DEF IInv, TypeOK, browser
<1>2. ~AtWork(c) /\ ~AtWork(c)' /\ \A d \in Calls : d # c => pc'[d] = pc[d]
  BY DEF IInv, TypeOK, AtWork
<1>3. ServerInv' /\ (Quiet' <=> Quiet)
  BY <1>2, ServerUnchanged, Zenon DEF IInv
<1>4. LastIsAcked' /\ FlagIsAcked' /\ GateIsAcked'
  BY <1>3, BrowserUnchanged, Zenon
<1> QED
  BY <1>1, <1>3, <1>4 DEF IInv

(* A write that fails is what spoilt tells.                                *)
LEMMA SetSettingSteps ==
    ASSUME IInv, NEW c \in Calls, SetSetting(c)
    PROVE  IInv'
<1> USE DEF SetSetting
<1>1. TypeOK'
  <2>1. faults' \in 0..MaxFaults
    BY OneMoreFault, Zenon DEF IInv, TypeOK
  <2> QED
    BY <2>1 DEF IInv, TypeOK, browser
<1>2. /\ AtWork(c) /\ AtWork(c)' /\ pc'[c] = "setting"
      /\ \A d \in Calls : d # c => pc'[d] = pc[d]
  BY DEF IInv, TypeOK, AtWork
<1>3. \A d \in Calls : AtWork(d)' <=> AtWork(d)
  BY <1>2 DEF AtWork
<1>4. ~Quiet'
  BY <1>2 DEF Quiet
<1>5. OneAtWork' /\ GateFollows'
  BY <1>3, Zenon DEF IInv, ServerInv, OneAtWork, GateFollows
<1>6. SettingFollows'
  <2>1. ~overlapped' => \A d \in Calls : pc'[d] = "setting" => d = c
    <3>1. \A d \in Calls : pc'[d] = "setting" => AtWork(d)'
      BY DEF AtWork
    <3> QED
      BY <1>2, <1>5, <3>1, Zenon DEF OneAtWork
  <2>2. ~spoilt' => setting' = value'[c]
    BY Zenon
  <2> QED
    BY <2>1, <2>2, Zenon DEF SettingFollows
<1>7. PauseSurvives'
  BY <1>4 DEF PauseSurvives
<1>8. LastIsAcked' /\ FlagIsAcked' /\ GateIsAcked'
  BY <1>4, BrowserUnchanged, Zenon
<1> QED
  BY <1>1, <1>5, <1>6, <1>7, <1>8 DEF IInv, ServerInv

(* The answer is what gate and setting are, and every browser that counts  *)
(* as told is told.                                                        *)
LEMMA BroadcastSteps ==
    ASSUME IInv, NEW c \in Calls, Broadcast(c)
    PROVE  IInv'
<1> USE DEF Broadcast
<1>1. value[c] \in BOOLEAN /\ \A b \in Browsers : inbox[b] \in Seq(BOOLEAN)
  BY DEF IInv, TypeOK
<1>2. \A b \in Browsers :
        /\ link[b] => /\ inbox'[b] = Append(inbox[b], value[c])
                      /\ inbox'[b] \in Seq(BOOLEAN)
                      /\ inbox'[b] # <<>>
                      /\ inbox'[b][Len(inbox'[b])] = value[c]
        /\ ~link[b] => inbox'[b] = inbox[b]
  BY <1>1, LastOfQueue, Zenon
<1>3. \A b \in Browsers : inbox'[b] \in Seq(BOOLEAN)
  BY <1>1, <1>2, Zenon
<1>4. TypeOK'
  BY <1>1, <1>3 DEF IInv, TypeOK
<1>5. /\ AtWork(c) /\ pc[c] = "setting" /\ ~AtWork(c)' /\ pc'[c] = "done"
      /\ \A d \in Calls : d # c => pc'[d] = pc[d]
  BY DEF IInv, TypeOK, AtWork
<1>6. \A d \in Calls : AtWork(d)' => AtWork(d) /\ pc'[d] = pc[d]
  BY <1>5, Zenon DEF AtWork
<1>7. \A d \in Calls : pc'[d] = "setting" => pc[d] = "setting"
  <2>1. "done" # "setting"
    OBVIOUS
  <2> QED
    BY <1>5, <2>1, Zenon
<1>8. OneAtWork' /\ GateFollows' /\ SettingFollows'
  BY <1>6, <1>7, Zenon DEF IInv, ServerInv, OneAtWork, GateFollows, SettingFollows
<1>9. ~overlapped => gate' = acked'
  BY <1>5, Zenon DEF IInv, ServerInv, GateFollows
<1>10. ~overlapped /\ ~spoilt => setting' = acked'
  BY <1>5, Zenon DEF IInv, ServerInv, SettingFollows
<1>11. PauseSurvives'
  BY <1>9, <1>10, Zenon DEF PauseSurvives
<1>12. LastIsAcked'
  <2> SUFFICES ASSUME NEW b \in Browsers, inbox'[b] # <<>>
               PROVE  link'[b] /\ inbox'[b][Len(inbox'[b])] = acked'
    BY Zenon DEF LastIsAcked
  <2>1. link[b]
    BY <1>2, Zenon DEF IInv, LastIsAcked
  <2> QED
    BY <1>2, <2>1, Zenon
<1>13. FlagIsAcked'
  <2>1. \A b \in heard' : b \in Browsers /\ link[b]
    OBVIOUS
  <2> QED
    BY <1>2, <2>1, Zenon DEF FlagIsAcked
<1>14. GateIsAcked'
  BY <1>9, Zenon DEF GateIsAcked
<1> QED
  BY <1>4, <1>8, <1>11, <1>12, <1>13, <1>14 DEF IInv, ServerInv

(* After a restart nobody is at work, the gate is the setting, and no      *)
(* browser has heard anything.                                             *)
LEMMA RestartSteps ==
    ASSUME IInv, Restart
    PROVE  IInv'
<1> USE DEF Restart
<1>1. TypeOK'
  BY OneMoreFault, EmptySeq DEF IInv, TypeOK
<1>2. \A c \in Calls : ~AtWork(c)' /\ pc'[c] # "setting"
  BY DEF AtWork
<1>3. OneAtWork' /\ GateFollows' /\ SettingFollows'
  BY <1>2, Zenon DEF OneAtWork, GateFollows, SettingFollows
<1>4. ~spoilt' => ~spoilt /\ Quiet
  BY DEF Quiet
<1>5. PauseSurvives'
  BY <1>4, Zenon DEF IInv, ServerInv, PauseSurvives
<1>6. \A b \in Browsers : inbox'[b] = <<>> /\ b \notin heard'
  OBVIOUS
<1>7. LastIsAcked' /\ FlagIsAcked' /\ GateIsAcked'
  BY <1>1, <1>6 DEF TypeOK, LastIsAcked, FlagIsAcked, GateIsAcked
<1> QED
  BY <1>1, <1>3, <1>5, <1>7 DEF IInv, ServerInv

LEMMA NextIInv == IInv /\ [Next]_vars => IInv'
<1> SUFFICES ASSUME IInv, [Next]_vars PROVE IInv'
  OBVIOUS
<1>1. CASE \E b \in Browsers : Toggle(b) \/ onmessage(b)
  BY <1>1, ToggleSteps, EventSteps
<1>2. CASE \E b \in Browsers : Loaded(b) \/ Reload(b) \/ GetSettings(b)
  BY <1>2, LoadSteps
<1>3. CASE \E b \in Browsers : LinkOpens(b) \/ LinkLost(b)
  BY <1>3, LinkSteps
<1>4. CASE \E c \in Calls : SetGate(c) \/ CallLost(c) \/ SetSetting(c) \/ Broadcast(c)
  BY <1>4, SetGateSteps, CallLostSteps, SetSettingSteps, BroadcastSteps
<1>5. CASE Restart
  BY <1>5, RestartSteps
<1>6. CASE UNCHANGED vars
  <2>1. TypeOK'
    BY <1>6 DEF IInv, TypeOK, vars, server, browser, history
  <2> QED
    BY <1>6, <2>1, BrowserSteps, Zenon DEF vars, server, browser, history
<1> QED
  BY <1>1, <1>2, <1>3, <1>4, <1>5, <1>6 DEF Next

LEMMA Invariance == Spec => []IInv
BY InitIInv, NextIInv, PTL DEF Spec
-----------------------------------------------------------------------------
(* Every variable keeps its type (api.go:761-778, store.ts).               *)
THEOREM TypeCorrect == Spec => []TypeOK
<1>1. IInv => TypeOK
  BY DEF IInv
<1> QED
  BY <1>1, Invariance, PTL

(* What the last answered request said is what the gate is, also after any *)
(* number of restarts, as long as requests did not overlap and no write    *)
(* failed (api.go:761-778, main.go:99-103).                                *)
THEOREM PauseAnswered == Spec => []PauseSurvives
<1>1. IInv => PauseSurvives
  BY DEF IInv, ServerInv
<1> QED
  BY <1>1, Invariance, PTL

(* A browser that was told by an event shows what the gate is once the     *)
(* events on their way have arrived (api.go:775, ws.ts:46-52).             *)
THEOREM HeardAgrees == Spec => []HeardIsTrue
<1>1. ASSUME IInv PROVE HeardIsTrue
  <2> SUFFICES ASSUME NEW b \in Browsers, Quiet, ~overlapped, inbox[b] = <<>>, b \in heard
               PROVE  paused[b] = gate
    BY Zenon DEF HeardIsTrue
  <2>1. paused[b] = acked
    BY <1>1, Zenon DEF IInv, FlagIsAcked
  <2>2. gate = acked
    BY <1>1, Zenon DEF IInv, GateIsAcked
  <2> QED
    BY <2>1, <2>2
<1> QED
  BY <1>1, Invariance, PTL
=============================================================================
