---------------------------- MODULE BufferProofs ----------------------------
(***************************************************************************)
(* The safety properties of the buffer and of its reads, for every set of  *)
(* records, of goroutines and of questions and every threshold, after facts*)
(* about the operators that Buffer is built from: the elements of a        *)
(* sequence, the loop that drops a session's records, and the archive.     *)
(***************************************************************************)
EXTENDS Queries, FiniteSetTheorems, SequenceTheorems, TLAPS

(* Induction with the property as a set.  A number that is missing from G  *)
(* would make "minus one" an injection of the missing numbers up to it     *)
(* into a smaller set.                                                     *)
LEMMA SetInduction ==
    ASSUME NEW G, 0 \in G, \A n \in Nat : n \in G => n + 1 \in G
    PROVE  Nat \subseteq G
<1> SUFFICES ASSUME NEW n \in Nat, n \notin G PROVE FALSE
  OBVIOUS
<1> DEFINE Missing == (0..n) \ G
           pred == [i \in Missing |-> i - 1]
<1>1. \A i \in Missing : i # 0 /\ i - 1 \in Missing \ {n}
  OBVIOUS
<1>2. IsFiniteSet(Missing) /\ n \in Missing
  <2>1. IsFiniteSet(0..n)
    BY FS_Interval
  <2>2. Missing \in SUBSET (0..n)
    OBVIOUS
  <2> HIDE DEF Missing
  <2>3. IsFiniteSet(Missing)
    BY <2>1, <2>2, FS_Subset
  <2> QED BY <2>3 DEF Missing
<1>3. /\ IsFiniteSet(Missing \ {n})
      /\ Cardinality(Missing \ {n}) = Cardinality(Missing) - 1
      /\ Cardinality(Missing) \in Nat
  BY <1>2, FS_RemoveElement, FS_CardinalityType
<1>4. pred \in [Missing -> Missing \ {n}]
  BY <1>1
<1>5. \E i, j \in Missing : i # j /\ pred[i] = pred[j]
  <2> HIDE DEF Missing, pred
  <2>1. Cardinality(Missing \ {n}) < Cardinality(Missing)
    BY <1>3
  <2> QED BY <1>2, <1>3, <1>4, <2>1, FS_PigeonHole
<1> QED BY <1>5

(* The recursive function of the loop satisfies its equation.              *)
LEMMA KeptDef ==
    ASSUME NEW s, Len(s) \in Nat, NEW sid
    PROVE  Kept(s, sid) = [i \in 0..Len(s) |->
            IF i = 0 THEN <<>>
            ELSE IF s[i].sid = sid THEN Kept(s, sid)[i - 1]
            ELSE Append(Kept(s, sid)[i - 1], s[i])]
<1> DEFINE Rhs(f, n) == [i \in 0..n |->
            IF i = 0 THEN <<>>
            ELSE IF s[i].sid = sid THEN f[i - 1]
            ELSE Append(f[i - 1], s[i])]
           G == {n \in Nat : \E f : f = Rhs(f, n)}
<1>1. 0 \in G
  <2> DEFINE g == [i \in 0..0 |-> <<>>]
  <2>1. g = Rhs(g, 0)
    OBVIOUS
  <2> QED BY <2>1
<1>2. ASSUME NEW n \in Nat, n \in G PROVE n + 1 \in G
  <2>1. PICK f : f = Rhs(f, n)
    BY <1>2
  <2> DEFINE g == [i \in 0..(n + 1) |-> IF i <= n THEN f[i]
                   ELSE IF s[i].sid = sid THEN f[i - 1]
                   ELSE Append(f[i - 1], s[i])]
  <2> HIDE DEF Rhs
  <2>2. \A i \in 0..n : f[i] = IF i = 0 THEN <<>>
            ELSE IF s[i].sid = sid THEN f[i - 1]
            ELSE Append(f[i - 1], s[i])
    BY <2>1 DEF Rhs
  <2>3. \A i \in 0..(n + 1) : g[i] = IF i = 0 THEN <<>>
            ELSE IF s[i].sid = sid THEN g[i - 1]
            ELSE Append(g[i - 1], s[i])
    BY <2>2
  <2>4. g = Rhs(g, n + 1)
    BY <2>3 DEF Rhs
  <2> QED BY <2>4
<1>3. Nat \subseteq G
  <2> HIDE DEF G
  <2> QED BY <1>1, <1>2, SetInduction
<1>4. \E f : f = Rhs(f, Len(s))
  BY <1>3
<1> QED BY <1>4 DEF Kept

LEMMA KeptAt ==
    ASSUME NEW s, Len(s) \in Nat, NEW sid, NEW i \in 0..Len(s)
    PROVE  Kept(s, sid)[i] = IF i = 0 THEN <<>>
            ELSE IF s[i].sid = sid THEN Kept(s, sid)[i - 1]
            ELSE Append(Kept(s, sid)[i - 1], s[i])
<1> DEFINE e(f, j) == IF j = 0 THEN <<>>
            ELSE IF s[j].sid = sid THEN f[j - 1]
            ELSE Append(f[j - 1], s[j])
<1>1. Kept(s, sid) = [j \in 0..Len(s) |-> e(Kept(s, sid), j)]
  BY KeptDef
<1> HIDE DEF e
<1>2. Kept(s, sid)[i] = e(Kept(s, sid), i)
  BY <1>1
<1> QED BY <1>2 DEF e

LEMMA ElemsAppend ==
    ASSUME NEW S, NEW s \in Seq(S), NEW e \in S
    PROVE  /\ Append(s, e) \in Seq(S)
           /\ Len(Append(s, e)) = Len(s) + 1
           /\ Elems(Append(s, e)) = Elems(s) \cup {e}
           /\ NoRepeats(s) /\ e \notin Elems(s) => NoRepeats(Append(s, e))
<1>1. /\ Append(s, e) \in Seq(S)
      /\ Len(Append(s, e)) = Len(s) + 1
      /\ Append(s, e)[Len(s) + 1] = e
      /\ \A i \in 1..Len(s) : Append(s, e)[i] = s[i]
  OBVIOUS
<1>2. Elems(Append(s, e)) = Elems(s) \cup {e}
  <2> HIDE DEF Elems
  <2>1. 1..(Len(s) + 1) = (1..Len(s)) \cup {Len(s) + 1}
    OBVIOUS
  <2> QED BY <1>1, <2>1 DEF Elems
<1> QED BY <1>1, <1>2 DEF Elems, NoRepeats

LEMMA ElemsEmpty ==
    Len(<<>>) = 0 /\ Elems(<<>>) = {} /\ NoRepeats(<<>>)
BY DEF Elems, NoRepeats

LEMMA ElemsType ==
    ASSUME NEW S, NEW s \in Seq(S)
    PROVE  Elems(s) \subseteq S
BY DEF Elems

(* What the loop has kept of the first n records.                          *)
KeptOf(k, s, sid, n) ==
    /\ k \in Seq(Records)
    /\ Len(k) <= n
    /\ Elems(k) = {s[j] : j \in {j \in 1..n : s[j].sid # sid}}
    /\ NoRepeats(s) => NoRepeats(k)

LEMMA KeptFacts ==
    ASSUME NEW s \in Seq(Records), NEW sid
    PROVE  \A i \in 0..Len(s) : KeptOf(Kept(s, sid)[i], s, sid, i)
<1> DEFINE G == {n \in Nat : n <= Len(s) => KeptOf(Kept(s, sid)[n], s, sid, n)}
<1>1. 0 \in G
  <2>1. Kept(s, sid)[0] = <<>>
    BY KeptAt
  <2>2. {j \in 1..0 : s[j].sid # sid} = {}
    OBVIOUS
  <2>3. KeptOf(<<>>, s, sid, 0)
    BY <2>2, ElemsEmpty DEF KeptOf
  <2> QED BY <2>1, <2>3
<1>2. ASSUME NEW n \in Nat, n \in G PROVE n + 1 \in G
  <2> SUFFICES ASSUME n + 1 <= Len(s)
               PROVE  KeptOf(Kept(s, sid)[n + 1], s, sid, n + 1)
    OBVIOUS
  <2> DEFINE k == Kept(s, sid)[n]
             Chosen(m) == {s[j] : j \in {j \in 1..m : s[j].sid # sid}}
  <2>1. KeptOf(k, s, sid, n)
    BY <1>2
  <2>2. Kept(s, sid)[n + 1] = IF s[n + 1].sid = sid THEN k ELSE Append(k, s[n + 1])
    <3>1. n + 1 \in 0..Len(s) /\ n + 1 # 0 /\ (n + 1) - 1 = n
      OBVIOUS
    <3> QED BY <3>1, KeptAt
  <2>3. Chosen(n + 1) = IF s[n + 1].sid = sid THEN Chosen(n) ELSE Chosen(n) \cup {s[n + 1]}
    <3>1. 1..(n + 1) = (1..n) \cup {n + 1}
      OBVIOUS
    <3> QED BY <3>1
  <2>4. s[n + 1] \in Records
    OBVIOUS
  <2>5. NoRepeats(s) => s[n + 1] \notin Chosen(n)
    BY DEF NoRepeats
  <2> HIDE DEF k, Chosen
  <2>6. k \in Seq(Records) /\ Len(k) <= n /\ Elems(k) = Chosen(n) /\ (NoRepeats(s) => NoRepeats(k))
    BY <2>1 DEF KeptOf, Chosen
  <2>7. CASE s[n + 1].sid = sid
    BY <2>2, <2>3, <2>6, <2>7 DEF KeptOf, Chosen
  <2>8. CASE s[n + 1].sid # sid
    <3>1. /\ Append(k, s[n + 1]) \in Seq(Records)
          /\ Len(Append(k, s[n + 1])) = Len(k) + 1
          /\ Elems(Append(k, s[n + 1])) = Elems(k) \cup {s[n + 1]}
          /\ NoRepeats(k) /\ s[n + 1] \notin Elems(k) => NoRepeats(Append(k, s[n + 1]))
      BY <2>4, <2>6, ElemsAppend
    <3>2. Len(k) \in Nat
      BY <2>6
    <3> QED BY <2>2, <2>3, <2>5, <2>6, <2>8, <3>1, <3>2 DEF KeptOf, Chosen
  <2> QED BY <2>7, <2>8
<1>3. Nat \subseteq G
  <2> HIDE DEF G
  <2> QED BY <1>1, <1>2, SetInduction
<1> QED BY <1>3

(* Dropping a session keeps exactly the records of the others.             *)
LEMMA WithoutFacts ==
    ASSUME NEW s \in Seq(Records), NEW sid
    PROVE  /\ Without(s, sid) \in Seq(Records)
           /\ Len(Without(s, sid)) <= Len(s)
           /\ Elems(Without(s, sid)) = {r \in Elems(s) : r.sid # sid}
           /\ NoRepeats(s) => NoRepeats(Without(s, sid))
<1>1. KeptOf(Without(s, sid), s, sid, Len(s))
  BY KeptFacts DEF Without
<1>2. {s[j] : j \in {j \in 1..Len(s) : s[j].sid # sid}} = {r \in Elems(s) : r.sid # sid}
  BY DEF Elems
<1> QED BY <1>1, <1>2 DEF KeptOf

-----------------------------------------------------------------------------
Archives == [bySession : SUBSET Records, byTime : SUBSET Records]

(* A write adds nothing but the records of its batch.                      *)
LEMMA PutAdds ==
    ASSUME NEW a \in Archives, NEW b \in Seq(Records)
    PROVE  /\ Put(a, b) \in Archives
           /\ Put(a, b).bySession \subseteq a.bySession \cup Elems(b)
           /\ Put(a, b).byTime \subseteq a.byTime \cup Elems(b)
<1>1. Overwrite(a.bySession, b, SessionKey) \subseteq a.bySession \cup Elems(b)
  BY DEF Overwrite, Elems
<1>2. Overwrite(a.byTime, b, GlobalKey) \subseteq a.byTime \cup Elems(b)
  BY DEF Overwrite, Elems
<1>3. Elems(b) \subseteq Records
  BY ElemsType
<1> QED BY <1>1, <1>2, <1>3 DEF Put, Archives

(* With distinct keys a write overwrites nothing.                          *)
LEMMA PutDistinct ==
    ASSUME DistinctKeys, NEW a \in Archives, NEW b \in Seq(Records), NoRepeats(b)
    PROVE  /\ Put(a, b).bySession = a.bySession \cup Elems(b)
           /\ Put(a, b).byTime = a.byTime \cup Elems(b)
<1>1. \A i \in 1..Len(b) : b[i] \in Records
  OBVIOUS
<1>2. \A r, s \in Records : SessionKey(r) = SessionKey(s) => r = s
  BY DEF DistinctKeys, SessionKey, GlobalKey
<1>3. \A r, s \in Records : GlobalKey(r) = GlobalKey(s) => r = s
  BY DEF DistinctKeys
<1> HIDE DEF DistinctKeys
<1>4. ASSUME NEW index \in SUBSET Records
      PROVE  Overwrite(index, b, SessionKey) = index \cup Elems(b)
  <2>1. {i \in 1..Len(b) : \A j \in 1..Len(b) : j > i => SessionKey(b[j]) # SessionKey(b[i])}
            = 1..Len(b)
    BY <1>1, <1>2 DEF NoRepeats
  <2>2. {r \in index : \A i \in 1..Len(b) : SessionKey(b[i]) # SessionKey(r)}
            = index \ Elems(b)
    BY <1>1, <1>2 DEF Elems
  <2> QED BY <2>1, <2>2 DEF Overwrite, Elems
<1>5. ASSUME NEW index \in SUBSET Records
      PROVE  Overwrite(index, b, GlobalKey) = index \cup Elems(b)
  <2>1. {i \in 1..Len(b) : \A j \in 1..Len(b) : j > i => GlobalKey(b[j]) # GlobalKey(b[i])}
            = 1..Len(b)
    BY <1>1, <1>3 DEF NoRepeats
  <2>2. {r \in index : \A i \in 1..Len(b) : GlobalKey(b[i]) # GlobalKey(r)}
            = index \ Elems(b)
    BY <1>1, <1>3 DEF Elems
  <2> QED BY <2>1, <2>2 DEF Overwrite, Elems
<1> QED BY <1>4, <1>5 DEF Put, Archives

(* A batch of deletes adds nothing.                                        *)
LEMMA DeleteRemoves ==
    ASSUME NEW a \in Archives, NEW removed
    PROVE  /\ Delete(a, removed) \in Archives
           /\ Delete(a, removed).bySession \subseteq a.bySession
           /\ Delete(a, removed).byTime \subseteq a.byTime
BY DEF Delete, Archives

(* With flat ids and distinct keys it removes exactly what was found.      *)
LEMMA DeleteExact ==
    ASSUME FlatIds, DistinctKeys, NEW a \in Archives, NEW removed \in SUBSET Records
    PROVE  /\ Delete(a, removed).bySession = a.bySession \ removed
           /\ Delete(a, removed).byTime = a.byTime \ removed
<1>1. \A r, s \in Records : SessionKey(r) = SessionKey(s) => r = s
  BY DEF DistinctKeys, SessionKey, GlobalKey
<1>2. \A r, s \in Records : GlobalKey(r) = GlobalKey(s) => r = s
  BY DEF DistinctKeys
<1>3. \A r \in Records : DecodedKey(r) = GlobalKey(r)
  BY DEF FlatIds, DecodedKey
<1> QED BY <1>1, <1>2, <1>3 DEF Delete, Archives

(* With flat ids the prefix of a session matches its own records only.     *)
LEMMA ScanExact ==
    ASSUME FlatIds, NEW a \in Archives, NEW sid \in Sids
    PROVE  Scan(a, sid) = {r \in a.bySession : r.sid = sid}
<1>1. \A r \in Records : r.sid = <<r.sid[1]>> /\ sid = <<sid[1]>>
  BY DEF FlatIds, Flat, Sids
<1>2. \A x, y : Under(<<x>>, <<y>>) <=> <<x>> = <<y>>
  <2> TAKE x, y
  <2>1. <<x>> \in Seq({x, y}) /\ <<y>> \in Seq({x, y}) /\ Len(<<x>>) = 1 /\ Len(<<y>>) = 1
    OBVIOUS
  <2>2. SubSeq(<<x>>, 1, 1) = <<x>> /\ SubSeq(<<y>>, 1, 1) = <<y>>
    BY <2>1, SubSeqFull
  <2> QED BY <2>1, <2>2 DEF Under, SE!IsPrefix
<1>3. \A r \in Records : Under(sid, r.sid) <=> r.sid = sid
  BY <1>1, <1>2
<1> QED BY <1>3 DEF Scan, Archives

-----------------------------------------------------------------------------
LEMMA NoSidsOutside == \A sid \in Deletable : sid \in Sids
BY DeletableAssumption

(* Every variable keeps its type (buffer.go:19-61,156-168).                *)
THEOREM TypeCorrect == Spec => []TypeOK
<1>1. Init => TypeOK
  BY DEF Init, TypeOK, EmptyArchive, Steps, NoSid
<1>2. TypeOK /\ [Next]_vars => TypeOK'
  <2> SUFFICES ASSUME TypeOK, [Next]_vars PROVE TypeOK'
    OBVIOUS
  <2> USE DEF TypeOK, Steps
  <2>1. archive \in Archives
    BY DEF Archives
  <2>2. <<>> \in Seq(Records)
    OBVIOUS
  <2>3. CASE UNCHANGED vars
    BY <2>3 DEF vars
  <2>4. CASE Tick
    BY <2>4 DEF Tick
  <2>5. CASE Crash
    BY <2>5, <2>2 DEF Crash
  <2>6. ASSUME NEW p \in Procs, NEW r \in Records, Append_(p, r) PROVE TypeOK'
    <3>1. pending' \in Seq(Records)
      BY <2>6 DEF Append_
    <3> QED BY <2>6, <3>1 DEF Append_
  <2>7. ASSUME NEW p \in Procs, FlushTake(p) PROVE TypeOK'
    BY <2>7, <2>2 DEF FlushTake
  <2>8. ASSUME NEW p \in Procs, FlushPut(p) PROVE TypeOK'
    <3>1. archive' \in Archives
      BY <2>8, <2>1, PutAdds DEF FlushPut, EndPut
    <3> QED BY <2>8, <2>2, <3>1 DEF FlushPut, EndPut, Archives
  <2>9. ASSUME NEW p \in Procs, FlushPutFails(p) PROVE TypeOK'
    BY <2>9, <2>2 DEF FlushPutFails, EndPut
  <2>10. ASSUME NEW p \in Procs, NEW sid \in Deletable, DeletePending(p, sid) PROVE TypeOK'
    <3>1. pending' \in Seq(Records)
      BY <2>10, WithoutFacts DEF DeletePending
    <3> QED BY <2>10, <3>1 DEF DeletePending
  <2>11. ASSUME NEW p \in Procs, DeleteScan(p) PROVE TypeOK'
    <3>1. Scan(archive, target[p]) \in SUBSET Records
      BY DEF Scan
    <3> QED BY <2>11, <3>1 DEF DeleteScan
  <2>12. ASSUME NEW p \in Procs, DeleteWrite(p) PROVE TypeOK'
    <3>1. archive' \in Archives
      BY <2>12, <2>1, DeleteRemoves DEF DeleteWrite
    <3> QED BY <2>12, <3>1 DEF DeleteWrite, EndDelete, Archives
  <2>13. ASSUME NEW p \in Procs, DeleteFails(p) PROVE TypeOK'
    BY <2>13 DEF DeleteFails, EndDelete
  <2> QED BY <2>3, <2>4, <2>5, <2>6, <2>7, <2>8, <2>9, <2>10, <2>11, <2>12, <2>13
          DEF Next, Proc, PutReturns
<1> QED BY <1>1, <1>2, PTL DEF Spec

-----------------------------------------------------------------------------
Flushing == {p \in Procs : pc[p] = "flush"}

LEMMA FlushingFinite ==
    IsFiniteSet(Flushing) /\ Cardinality(Flushing) \in Nat
<1>1. Flushing \in SUBSET Procs
  BY DEF Flushing
<1> QED BY <1>1, RunnerAssumption, FS_Subset, FS_CardinalityType

(* pending passes the threshold by at most one record for each goroutine   *)
(* on its way to Flush (buffer.go:38-48).                                  *)
THEOREM PendingBounded == Spec => []PendingBound
<1> USE FlushAtAssumption
<1>1. Init => PendingBound
  BY FlushingFinite DEF Init, PendingBound, Flushing
<1>2. TypeOK /\ PendingBound /\ [Next]_vars => PendingBound'
  <2> SUFFICES ASSUME TypeOK, PendingBound, [Next]_vars PROVE PendingBound'
    OBVIOUS
  <2>1. /\ Len(pending) <= FlushAt - 1 + Cardinality(Flushing)
        /\ Len(pending) \in Nat
        /\ IsFiniteSet(Flushing) /\ Cardinality(Flushing) \in Nat
    BY FlushingFinite DEF PendingBound, Flushing, TypeOK
  <2>2. IsFiniteSet(Flushing') /\ Cardinality(Flushing') \in Nat
    <3>1. Flushing' \in SUBSET Procs
      BY DEF Flushing
    <3> QED BY <3>1, RunnerAssumption, FS_Subset, FS_CardinalityType
  <2> SUFFICES Len(pending') <= FlushAt - 1 + Cardinality(Flushing')
    BY DEF PendingBound, Flushing
  (* A step that lets no goroutine leave for the archive and does not      *)
  (* lengthen pending keeps the bound.                                     *)
  <2>3. ASSUME Len(pending') \in Nat, Len(pending') <= Len(pending), Flushing' = Flushing
        PROVE  Len(pending') <= FlushAt - 1 + Cardinality(Flushing')
    BY <2>1, <2>3
  <2>4. ASSUME pending' = <<>>
        PROVE  Len(pending') <= FlushAt - 1 + Cardinality(Flushing')
    BY <2>2, <2>4
  <2>5. CASE UNCHANGED vars
    BY <2>5, <2>1, <2>3 DEF vars, Flushing
  <2>6. CASE Tick
    <3>1. Flushing' = Flushing \cup {Runner}
      BY <2>6, RunnerAssumption DEF Tick, Flushing, TypeOK
    <3>2. Cardinality(Flushing') \in {Cardinality(Flushing), Cardinality(Flushing) + 1}
      BY <3>1, <2>1, FS_AddElement
    <3> QED BY <2>6, <3>2, <2>1, <2>2 DEF Tick
  <2>7. CASE Crash
    BY <2>7, <2>4 DEF Crash
  <2>8. ASSUME NEW p \in Procs, NEW r \in Records, Append_(p, r)
        PROVE  Len(pending') <= FlushAt - 1 + Cardinality(Flushing')
    <3>1. Len(pending') = Len(pending) + 1
      BY <2>8 DEF Append_, TypeOK
    <3>2. p \notin Flushing
      BY <2>8 DEF Append_, Flushing
    <3>3. CASE Len(pending') >= FlushAt
      <4>1. Flushing' = Flushing \cup {p}
        BY <2>8, <3>3 DEF Append_, Flushing, TypeOK
      <4>2. Cardinality(Flushing') = Cardinality(Flushing) + 1
        BY <4>1, <3>2, <2>1, FS_AddElement
      <4> QED BY <3>1, <4>2, <2>1
    <3>4. CASE ~(Len(pending') >= FlushAt)
      BY <3>1, <3>4, <2>1, <2>2
    <3> QED BY <3>3, <3>4
  <2>9. ASSUME NEW p \in Procs, FlushTake(p)
        PROVE  Len(pending') <= FlushAt - 1 + Cardinality(Flushing')
    BY <2>9, <2>4 DEF FlushTake
  <2>10. ASSUME NEW p \in Procs, EndPut(p)
         PROVE  Len(pending') <= FlushAt - 1 + Cardinality(Flushing')
    BY <2>10, <2>1, <2>3 DEF EndPut, Flushing, TypeOK
  <2>11. ASSUME NEW p \in Procs, NEW sid \in Deletable, DeletePending(p, sid)
         PROVE  Len(pending') <= FlushAt - 1 + Cardinality(Flushing')
    <3>1. Flushing' = Flushing
      BY <2>11 DEF DeletePending, Flushing, TypeOK
    <3>2. pending' \in Seq(Records) /\ Len(pending') <= Len(pending)
      BY <2>11, WithoutFacts DEF DeletePending, TypeOK
    <3> QED BY <3>1, <3>2, <2>3
  <2>12. ASSUME NEW p \in Procs, DeleteScan(p)
         PROVE  Len(pending') <= FlushAt - 1 + Cardinality(Flushing')
    BY <2>12, <2>1, <2>3 DEF DeleteScan, Flushing, TypeOK
  <2>13. ASSUME NEW p \in Procs, EndDelete(p), pc[p] \in {"scan", "write"}
         PROVE  Len(pending') <= FlushAt - 1 + Cardinality(Flushing')
    BY <2>13, <2>1, <2>3 DEF EndDelete, Flushing, TypeOK
  <2> QED BY <2>5, <2>6, <2>7, <2>8, <2>9, <2>10, <2>11, <2>12, <2>13
          DEF Next, Proc, PutReturns, FlushPut, FlushPutFails, DeleteWrite, DeleteFails
<1> QED BY <1>1, <1>2, TypeCorrect, PTL DEF Spec

-----------------------------------------------------------------------------
(* OnePlace is not inductive: an appended record must be new to every      *)
(* place, so the invariant adds that only appended records are anywhere.   *)
OnlySeen == Volatile \cup archive.bySession \cup archive.byTime \subseteq seen

PlaceInv == OnePlace /\ OnlySeen

(* A step that moves no record into a place and reorders none.             *)
LEMMA NothingAdded ==
    ASSUME TypeOK, PlaceInv,
           NoRepeats(pending)', Elems(pending)' \subseteq Elems(pending),
           \A p \in Procs : batch'[p] = batch[p] \/ batch'[p] = <<>>,
           archive'.bySession \subseteq archive.bySession,
           archive'.byTime \subseteq archive.byTime,
           seen' = seen
    PROVE  PlaceInv'
<1>1. \A p \in Procs : /\ Elems(batch'[p]) \subseteq Elems(batch[p])
                       /\ NoRepeats(batch'[p])
  BY ElemsEmpty DEF PlaceInv, OnePlace
<1>2. InFlight' \subseteq InFlight
  BY <1>1 DEF InFlight
<1>3. OnlySeen'
  BY <1>2 DEF PlaceInv, OnlySeen, Volatile
<1>4. OnePlace'
  BY <1>1, <1>2 DEF PlaceInv, OnePlace, Volatile
<1> QED BY <1>3, <1>4 DEF PlaceInv

LEMMA PlaceInductive == TypeOK /\ PlaceInv /\ [Next]_vars => PlaceInv'
<1> SUFFICES ASSUME TypeOK, PlaceInv, [Next]_vars PROVE PlaceInv'
  OBVIOUS
<1>1. archive \in Archives
  BY DEF Archives, TypeOK
<1>2. CASE UNCHANGED vars
  BY <1>2, NothingAdded DEF vars, PlaceInv, OnePlace
<1>3. CASE Tick
  BY <1>3, NothingAdded DEF Tick, PlaceInv, OnePlace
<1>4. CASE Crash
  BY <1>4, NothingAdded, ElemsEmpty DEF Crash
<1>5. ASSUME NEW p \in Procs, NEW r \in Records, Append_(p, r) PROVE PlaceInv'
  <2>1. /\ r \notin Volatile \cup archive.bySession \cup archive.byTime
        /\ batch' = batch /\ archive' = archive /\ seen' = seen \cup {r}
        /\ pending' = Append(pending, r)
    BY <1>5 DEF Append_, PlaceInv, OnlySeen
  <2>2. /\ Elems(pending)' = Elems(pending) \cup {r}
        /\ NoRepeats(pending)'
    <3>1. pending \in Seq(Records) /\ NoRepeats(pending) /\ r \notin Elems(pending)
      BY <2>1 DEF TypeOK, PlaceInv, OnePlace, Volatile
    <3> QED BY <2>1, <3>1, ElemsAppend
  <2>3. InFlight' = InFlight
    BY <2>1 DEF InFlight
  <2>4. \A q \in Procs : r \notin Elems(batch[q])
    BY <2>1 DEF Volatile, InFlight
  <2>5. OnlySeen'
    BY <2>1, <2>2, <2>3 DEF PlaceInv, OnlySeen, Volatile
  <2>6. OnePlace'
    BY <2>1, <2>2, <2>3, <2>4 DEF PlaceInv, OnePlace, Volatile
  <2> QED BY <2>5, <2>6 DEF PlaceInv
<1>6. ASSUME NEW p \in Procs, FlushTake(p) PROVE PlaceInv'
  <2>1. /\ pending' = <<>> /\ archive' = archive /\ seen' = seen
        /\ batch'[p] = pending
        /\ \A q \in Procs \ {p} : batch'[q] = batch[q]
    BY <1>6 DEF FlushTake, TypeOK
  <2>2. InFlight' \subseteq Volatile
    BY <2>1 DEF InFlight, Volatile
  <2>3. Elems(pending)' = {} /\ NoRepeats(pending)'
    BY <2>1, ElemsEmpty
  <2>4. OnlySeen'
    BY <2>1, <2>2, <2>3 DEF PlaceInv, OnlySeen, Volatile
  <2>5. OnePlace'
    BY <2>1, <2>2, <2>3 DEF PlaceInv, OnePlace, Volatile
  <2> QED BY <2>4, <2>5 DEF PlaceInv
<1>7. ASSUME NEW p \in Procs, FlushPut(p) PROVE PlaceInv'
  <2>1. /\ pending' = pending /\ seen' = seen
        /\ batch'[p] = <<>>
        /\ \A q \in Procs \ {p} : batch'[q] = batch[q]
        /\ batch[p] \in Seq(Records)
        /\ archive' = Put(archive, batch[p])
    BY <1>7 DEF FlushPut, EndPut, TypeOK
  <2>2. /\ archive'.bySession \subseteq archive.bySession \cup Elems(batch[p])
        /\ archive'.byTime \subseteq archive.byTime \cup Elems(batch[p])
    BY <2>1, <1>1, PutAdds
  <2>3. Elems(batch'[p]) = {} /\ NoRepeats(batch'[p])
    BY <2>1, ElemsEmpty
  <2>4. Elems(batch[p]) \subseteq InFlight
    BY DEF InFlight
  <2>5. InFlight' \subseteq InFlight /\ InFlight' \cap Elems(batch[p]) = {}
    BY <2>1, <2>3 DEF InFlight, PlaceInv, OnePlace
  <2>6. OnlySeen'
    BY <2>1, <2>2, <2>4, <2>5 DEF PlaceInv, OnlySeen, Volatile
  <2>7. OnePlace'
    BY <2>1, <2>2, <2>3, <2>4, <2>5 DEF PlaceInv, OnePlace, Volatile
  <2> QED BY <2>6, <2>7 DEF PlaceInv
<1>8. ASSUME NEW p \in Procs, FlushPutFails(p) PROVE PlaceInv'
  BY <1>8, NothingAdded DEF FlushPutFails, EndPut, PlaceInv, OnePlace, TypeOK
<1>9. ASSUME NEW p \in Procs, NEW sid \in Deletable, DeletePending(p, sid) PROVE PlaceInv'
  <2>1. NoRepeats(pending)' /\ Elems(pending)' \subseteq Elems(pending)
    BY <1>9, WithoutFacts DEF DeletePending, TypeOK, PlaceInv, OnePlace
  <2> QED BY <1>9, <2>1, NothingAdded DEF DeletePending
<1>10. ASSUME NEW p \in Procs, DeleteScan(p) PROVE PlaceInv'
  BY <1>10, NothingAdded DEF DeleteScan, PlaceInv, OnePlace
<1>11. ASSUME NEW p \in Procs, DeleteWrite(p) PROVE PlaceInv'
  BY <1>11, <1>1, DeleteRemoves, NothingAdded DEF DeleteWrite, EndDelete, PlaceInv, OnePlace
<1>12. ASSUME NEW p \in Procs, DeleteFails(p) PROVE PlaceInv'
  BY <1>12, NothingAdded DEF DeleteFails, EndDelete, PlaceInv, OnePlace
<1> QED BY <1>2, <1>3, <1>4, <1>5, <1>6, <1>7, <1>8, <1>9, <1>10, <1>11, <1>12
        DEF Next, Proc, PutReturns

LEMMA PlaceInvHolds == Spec => []PlaceInv
<1>1. Init => PlaceInv
  BY ElemsEmpty DEF Init, PlaceInv, OnePlace, OnlySeen, Volatile, InFlight, EmptyArchive
<1> QED BY <1>1, PlaceInductive, TypeCorrect, PTL DEF Spec

(* A record is queued once, or in one batch once, or archived              *)
(* (buffer.go:50-61): no interleaving of flushes, deletes and crashes      *)
(* writes a record twice or leaves one both in memory and on disk.         *)
THEOREM RecordInOnePlace == Spec => []OnePlace
<1>1. PlaceInv => OnePlace
  BY DEF PlaceInv
<1> QED BY <1>1, PlaceInvHolds, PTL

-----------------------------------------------------------------------------
(* The two indexes hold the same records (leveldb.go:30-41,136-152) when   *)
(* no session id contains a ':' and no two records share a time and a      *)
(* number: every write and every delete then touches both alike.           *)
THEOREM IndexesHoldTheSame ==
    ASSUME FlatIds, DistinctKeys
    PROVE  Spec => []IndexesAgree
<1>1. Init => IndexesAgree
  BY DEF Init, IndexesAgree, EmptyArchive
<1>2. TypeOK /\ PlaceInv /\ IndexesAgree /\ [Next]_vars => IndexesAgree'
  <2> SUFFICES ASSUME TypeOK, PlaceInv, IndexesAgree, [Next]_vars PROVE IndexesAgree'
    OBVIOUS
  <2>1. archive \in Archives
    BY DEF Archives, TypeOK
  <2>2. CASE UNCHANGED archive
    BY <2>2 DEF IndexesAgree
  <2>3. ASSUME NEW p \in Procs, FlushPut(p) PROVE IndexesAgree'
    <3>1. batch[p] \in Seq(Records) /\ NoRepeats(batch[p])
      BY DEF TypeOK, PlaceInv, OnePlace
    <3>2. /\ Put(archive, batch[p]).bySession = archive.bySession \cup Elems(batch[p])
          /\ Put(archive, batch[p]).byTime = archive.byTime \cup Elems(batch[p])
      BY <2>1, <3>1, PutDistinct
    <3> QED BY <2>3, <3>2 DEF FlushPut, IndexesAgree
  <2>4. ASSUME NEW p \in Procs, DeleteWrite(p) PROVE IndexesAgree'
    <3>1. doomed[p] \in SUBSET Records
      BY DEF TypeOK
    <3>2. /\ Delete(archive, doomed[p]).bySession = archive.bySession \ doomed[p]
          /\ Delete(archive, doomed[p]).byTime = archive.byTime \ doomed[p]
      BY <2>1, <3>1, DeleteExact
    <3> QED BY <2>4, <3>2 DEF DeleteWrite, IndexesAgree
  <2> QED BY <2>2, <2>3, <2>4
          DEF Next, Proc, PutReturns, vars, Tick, Crash, Append_, FlushTake, FlushPutFails,
              DeletePending, DeleteScan, DeleteFails
<1> QED BY <1>1, <1>2, TypeCorrect, PlaceInvHolds, PTL DEF Spec

-----------------------------------------------------------------------------
(* What the steps of a flush and of a delete carry from one to the next:   *)
(* a goroutine holds a batch only while it writes it, and a delete has     *)
(* collected records of its own session only.                              *)
CarryInv ==
    \A p \in Procs :
        /\ pc[p] # "put" => batch[p] = <<>>
        /\ pc[p] \in {"scan", "write"} => target[p] \in Deletable
        /\ pc[p] # "write" => doomed[p] = {}
        /\ \A r \in doomed[p] : r.sid = target[p]

LEMMA CarryInvHolds ==
    ASSUME FlatIds
    PROVE  Spec => []CarryInv
<1>1. Init => CarryInv
  BY DEF Init, CarryInv
<1>2. TypeOK /\ CarryInv /\ [Next]_vars => CarryInv'
  <2> SUFFICES ASSUME TypeOK, CarryInv, [Next]_vars PROVE CarryInv'
    OBVIOUS
  <2> USE DEF TypeOK, Steps
  <2>1. CASE UNCHANGED vars
    BY <2>1 DEF vars, CarryInv
  <2>2. CASE Tick
    BY <2>2 DEF Tick, CarryInv
  <2>3. CASE Crash
    BY <2>3 DEF Crash, CarryInv
  <2>4. ASSUME NEW p \in Procs, NEW r \in Records, Append_(p, r) PROVE CarryInv'
    BY <2>4 DEF Append_, CarryInv
  <2>5. ASSUME NEW p \in Procs, FlushTake(p) PROVE CarryInv'
    BY <2>5 DEF FlushTake, CarryInv
  <2>6. ASSUME NEW p \in Procs, EndPut(p) PROVE CarryInv'
    BY <2>6 DEF EndPut, CarryInv
  <2>7. ASSUME NEW p \in Procs, NEW sid \in Deletable, DeletePending(p, sid) PROVE CarryInv'
    BY <2>7 DEF DeletePending, CarryInv
  <2>8. ASSUME NEW p \in Procs, DeleteScan(p) PROVE CarryInv'
    <3>1. archive \in Archives /\ target[p] \in Sids
      BY <2>8, DeletableAssumption DEF Archives, DeleteScan, CarryInv
    <3>2. \A r \in Scan(archive, target[p]) : r.sid = target[p]
      BY <3>1, ScanExact
    <3> QED BY <2>8, <3>2 DEF DeleteScan, CarryInv
  <2>9. ASSUME NEW p \in Procs, EndDelete(p), pc[p] \in {"scan", "write"} PROVE CarryInv'
    BY <2>9 DEF EndDelete, CarryInv
  <2> QED BY <2>1, <2>2, <2>3, <2>4, <2>5, <2>6, <2>7, <2>8, <2>9
          DEF Next, Proc, PutReturns, FlushPut, FlushPutFails, DeleteWrite, DeleteFails
<1> QED BY <1>1, <1>2, TypeCorrect, PTL DEF Spec

(* A step that turns the records of S from one stage to another.           *)
StageMoves(S, from, to) ==
    /\ S \subseteq {r \in Records : Stage(r) = from}
    /\ \A r \in Records : Stage(r)' = IF r \in S THEN to ELSE Stage(r)

(* Each step of the buffer is a step of the life of a record, or none.     *)
LEMMA StepRefines ==
    ASSUME FlatIds, DistinctKeys, TypeOK, PlaceInv, CarryInv, [Next]_vars
    PROVE  \/ \E r \in Records : StageMoves({r}, "absent", "volatile")
           \/ \E S \in SUBSET Records : StageMoves(S, "volatile", "durable")
           \/ DiskFaults /\ \E S \in SUBSET Records : StageMoves(S, "volatile", "gone")
           \/ StageMoves({r \in Records : Stage(r) = "volatile"}, "volatile", "gone")
           \/ \E sid \in Sids : \E S \in SUBSET {r \in Records : r.sid = sid} :
                   StageMoves(S, "volatile", "gone") \/ StageMoves(S, "durable", "gone")
           \/ \A r \in Records : Stage(r)' = Stage(r)
<1> DEFINE Goal ==
           \/ \E r \in Records : StageMoves({r}, "absent", "volatile")
           \/ \E S \in SUBSET Records : StageMoves(S, "volatile", "durable")
           \/ DiskFaults /\ \E S \in SUBSET Records : StageMoves(S, "volatile", "gone")
           \/ StageMoves({r \in Records : Stage(r) = "volatile"}, "volatile", "gone")
           \/ \E sid \in Sids : \E S \in SUBSET {r \in Records : r.sid = sid} :
                   StageMoves(S, "volatile", "gone") \/ StageMoves(S, "durable", "gone")
           \/ \A r \in Records : Stage(r)' = Stage(r)
<1> SUFFICES Goal
  OBVIOUS
<1> HIDE DEF Goal
<1>a. archive \in Archives
  BY DEF Archives, TypeOK
<1>b. /\ Volatile \subseteq seen /\ archive.bySession \subseteq seen
      /\ Volatile \cap archive.bySession = {}
      /\ Volatile \subseteq Records /\ seen \subseteq Records
  BY DEF PlaceInv, OnePlace, OnlySeen, TypeOK
<1>1. ASSUME Volatile' = Volatile, archive'.bySession = archive.bySession, seen' = seen
      PROVE  Goal
  <2>1. \A r \in Records : Stage(r)' = Stage(r)
    BY <1>1 DEF Stage
  <2> QED BY <2>1 DEF Goal
<1>2. ASSUME UNCHANGED <<pending, batch, archive, seen>> PROVE Goal
  BY <1>1, <1>2 DEF Volatile, InFlight
<1>3. CASE Crash
  <2>1. Volatile' = {} /\ archive' = archive /\ seen' = seen
    BY <1>3, ElemsEmpty DEF Crash, Volatile, InFlight
  <2>2. StageMoves({r \in Records : Stage(r) = "volatile"}, "volatile", "gone")
    BY <2>1, <1>b DEF StageMoves, Stage
  <2> QED BY <2>2 DEF Goal
<1>4. ASSUME NEW p \in Procs, NEW r \in Records, Append_(p, r) PROVE Goal
  <2>1. /\ r \notin seen /\ batch' = batch /\ archive' = archive
        /\ seen' = seen \cup {r}
        /\ pending' = Append(pending, r) /\ pending \in Seq(Records)
    BY <1>4 DEF Append_, TypeOK
  <2>2. Elems(pending)' = Elems(pending) \cup {r}
    BY <2>1, ElemsAppend
  <2>3. Volatile' = Volatile \cup {r}
    BY <2>1, <2>2 DEF Volatile, InFlight
  <2>4. StageMoves({r}, "absent", "volatile")
    BY <2>1, <2>3, <1>b DEF StageMoves, Stage
  <2> QED BY <2>4 DEF Goal
<1>5. ASSUME NEW p \in Procs, FlushTake(p) PROVE Goal
  <2>1. /\ pending' = <<>> /\ archive' = archive /\ seen' = seen
        /\ batch'[p] = pending /\ batch[p] = <<>>
        /\ \A q \in Procs \ {p} : batch'[q] = batch[q]
    BY <1>5 DEF FlushTake, TypeOK, CarryInv
  <2>2. Elems(pending)' = {} /\ Elems(batch[p]) = {}
    BY <2>1, ElemsEmpty
  <2>3. Volatile' = Volatile
    BY <2>1, <2>2 DEF Volatile, InFlight
  <2> QED BY <2>1, <2>3, <1>1
<1>6. ASSUME NEW p \in Procs, EndPut(p)
      PROVE  /\ Volatile' = Volatile \ Elems(batch[p]) /\ seen' = seen
             /\ Elems(batch[p]) \subseteq Volatile /\ batch[p] \in Seq(Records)
  <2>1. /\ pending' = pending /\ seen' = seen /\ batch'[p] = <<>>
        /\ \A q \in Procs \ {p} : batch'[q] = batch[q]
        /\ batch[p] \in Seq(Records)
    BY <1>6 DEF EndPut, TypeOK
  <2>2. Elems(batch'[p]) = {}
    BY <2>1, ElemsEmpty
  <2>3. InFlight' = InFlight \ Elems(batch[p])
    BY <2>1, <2>2 DEF InFlight, PlaceInv, OnePlace
  <2>4. Elems(pending)' = Elems(pending) /\ Elems(pending) \cap Elems(batch[p]) = {}
    BY <2>1 DEF PlaceInv, OnePlace
  <2>5. Elems(batch[p]) \subseteq InFlight
    BY DEF InFlight
  <2> QED BY <2>1, <2>3, <2>4, <2>5 DEF Volatile
<1>7. ASSUME NEW p \in Procs, FlushPut(p) PROVE Goal
  <2>1. EndPut(p) /\ archive' = Put(archive, batch[p])
    BY <1>7 DEF FlushPut
  <2>2. archive'.bySession = archive.bySession \cup Elems(batch[p])
    BY <2>1, <1>6, <1>a, PutDistinct DEF PlaceInv, OnePlace
  <2>3. StageMoves(Elems(batch[p]), "volatile", "durable")
    BY <2>1, <2>2, <1>6, <1>b DEF StageMoves, Stage
  <2>4. Elems(batch[p]) \in SUBSET Records
    BY <2>1, <1>6, <1>b
  <2> QED BY <2>3, <2>4 DEF Goal
<1>8. ASSUME NEW p \in Procs, DiskFaults, FlushPutFails(p) PROVE Goal
  <2>1. EndPut(p) /\ archive' = archive
    BY <1>8 DEF FlushPutFails
  <2>2. StageMoves(Elems(batch[p]), "volatile", "gone")
    BY <2>1, <1>6, <1>b DEF StageMoves, Stage
  <2>3. Elems(batch[p]) \in SUBSET Records
    BY <2>1, <1>6, <1>b
  <2> QED BY <1>8, <2>2, <2>3 DEF Goal
<1>9. ASSUME NEW p \in Procs, NEW sid \in Deletable, DeletePending(p, sid) PROVE Goal
  <2> DEFINE S == {r \in Elems(pending) : r.sid = sid}
  <2>1. batch' = batch /\ archive' = archive /\ seen' = seen
    BY <1>9 DEF DeletePending
  <2>2. Elems(pending)' = Elems(pending) \ S
    BY <1>9, WithoutFacts DEF DeletePending, TypeOK
  <2>3. S \cap InFlight = {} /\ S \subseteq Volatile
    BY DEF PlaceInv, OnePlace, InFlight, Volatile
  <2>4. Volatile' = Volatile \ S
    <3>1. InFlight' = InFlight
      BY <2>1 DEF InFlight
    <3> QED BY <2>2, <2>3, <3>1 DEF Volatile
  <2>5. S \in SUBSET {r \in Records : r.sid = sid} /\ sid \in Sids
    BY <2>3, <1>b, DeletableAssumption
  <2> HIDE DEF S
  <2>6. StageMoves(S, "volatile", "gone")
    BY <2>1, <2>3, <2>4, <1>b DEF StageMoves, Stage
  <2> QED BY <2>5, <2>6 DEF Goal
<1>10. ASSUME NEW p \in Procs, DeleteWrite(p) PROVE Goal
  <2> DEFINE S == doomed[p] \cap archive.bySession
  <2>1. /\ batch' = batch /\ pending' = pending /\ seen' = seen
        /\ archive' = Delete(archive, doomed[p])
        /\ target[p] \in Sids
    BY <1>10, DeletableAssumption DEF DeleteWrite, EndDelete, CarryInv
  <2>2. doomed[p] \in SUBSET Records
    BY DEF TypeOK
  <2>3. archive'.bySession = archive.bySession \ S
    BY <2>1, <2>2, <1>a, DeleteExact
  <2>4. Volatile' = Volatile
    BY <2>1 DEF Volatile, InFlight
  <2>5. S \in SUBSET {r \in Records : r.sid = target[p]} /\ S \subseteq archive.bySession
    BY <2>2 DEF CarryInv
  <2> HIDE DEF S
  <2>6. StageMoves(S, "durable", "gone")
    BY <2>1, <2>3, <2>4, <2>5, <1>b DEF StageMoves, Stage
  <2> QED BY <2>1, <2>5, <2>6 DEF Goal
<1> QED BY <1>2, <1>3, <1>4, <1>5, <1>7, <1>8, <1>9, <1>10
        DEF Next, Proc, PutReturns, vars, Tick, DeleteScan, DeleteFails, EndDelete

(* The buffer in front of the archive keeps the promise of RecordLifecycle *)
(* (buffer.go:17-61,156-168): nothing but a crash, a disk fault or the     *)
(* deletion of its own session makes an accepted record disappear, a flush *)
(* takes effect at once, and nothing gone comes back.                      *)
THEOREM ImplementsLifecycle ==
    ASSUME FlatIds, DistinctKeys
    PROVE  Spec => LifecycleOfRecords
<1> DEFINE stages == [r \in Records |-> Stage(r)]
<1>1. Init => Lifecycle!Init
  BY ElemsEmpty DEF Init, Lifecycle!Init, Stage, Volatile, InFlight, EmptyArchive
<1>2. TypeOK /\ PlaceInv /\ CarryInv /\ [Next]_vars => [Lifecycle!Next]_stages
  <2> SUFFICES ASSUME TypeOK, PlaceInv, CarryInv, [Next]_vars
               PROVE  Lifecycle!Next \/ UNCHANGED stages
    OBVIOUS
  <2>1. ASSUME NEW S, NEW from, NEW to, StageMoves(S, from, to)
        PROVE  S \subseteq Lifecycle!In(from) /\ Lifecycle!Move(S, to)
    BY <2>1 DEF StageMoves, Lifecycle!In, Lifecycle!Move
  <2>2. Lifecycle!In("volatile") = {r \in Records : Stage(r) = "volatile"}
    BY DEF Lifecycle!In
  <2>3. ASSUME NEW r \in Records, StageMoves({r}, "absent", "volatile")
        PROVE  Lifecycle!Next
    BY <2>1, <2>3 DEF Lifecycle!Next, Lifecycle!Accept
  <2>4. ASSUME NEW S \in SUBSET Records, StageMoves(S, "volatile", "durable")
        PROVE  Lifecycle!Next
    BY <2>1, <2>4 DEF Lifecycle!Next, Lifecycle!Persist
  <2>5. ASSUME DiskFaults, NEW S \in SUBSET Records, StageMoves(S, "volatile", "gone")
        PROVE  Lifecycle!Next
    BY <2>1, <2>5 DEF Lifecycle!Next, Lifecycle!Lose
  <2>6. ASSUME StageMoves({r \in Records : Stage(r) = "volatile"}, "volatile", "gone")
        PROVE  Lifecycle!Next
    BY <2>1, <2>2, <2>6 DEF Lifecycle!Next, Lifecycle!Crash
  <2>7. ASSUME NEW sid \in Sids, NEW S \in SUBSET {r \in Records : r.sid = sid},
               StageMoves(S, "volatile", "gone")
        PROVE  Lifecycle!Next
    <3>1. S \subseteq Lifecycle!In("volatile") /\ Lifecycle!Move(S, "gone")
      BY <2>1, <2>7
    <3>2. S \subseteq {r \in Lifecycle!In("volatile") : [x \in Records |-> x.sid][r] = sid}
      BY <3>1, <2>7 DEF Lifecycle!In
    <3> QED BY <3>1, <3>2 DEF Lifecycle!Next, Lifecycle!Discard
  <2>8. ASSUME NEW sid \in Sids, NEW S \in SUBSET {r \in Records : r.sid = sid},
               StageMoves(S, "durable", "gone")
        PROVE  Lifecycle!Next
    <3>1. S \subseteq Lifecycle!In("durable") /\ Lifecycle!Move(S, "gone")
      BY <2>1, <2>8
    <3>2. S \subseteq {r \in Lifecycle!In("durable") : [x \in Records |-> x.sid][r] = sid}
      BY <3>1, <2>8 DEF Lifecycle!In
    <3> QED BY <3>1, <3>2 DEF Lifecycle!Next, Lifecycle!Erase
  <2>9. ASSUME \A r \in Records : Stage(r)' = Stage(r)
        PROVE  UNCHANGED stages
    BY <2>9
  <2> QED BY <2>3, <2>4, <2>5, <2>6, <2>7, <2>8, <2>9, StepRefines
<1> QED BY <1>1, <1>2, TypeCorrect, PlaceInvHolds, CarryInvHolds, PTL
        DEF Spec, LifecycleOfRecords, Lifecycle!LifecycleSpec

-----------------------------------------------------------------------------
(* Reading in two steps.                                                   *)

(* The reader disturbs nothing, so what holds of the buffer still does.    *)
LEMMA BufferOnly == QSpec => Spec
<1>1. QInit => Init
  BY DEF QInit
<1>2. [QNext]_qvars => [Next]_vars
  BY DEF QNext, ReadArchive, ReadPending, Write, qvars
<1> QED
  BY <1>1, <1>2, PTL DEF QSpec, Spec

-----------------------------------------------------------------------------
(* A record that is queued is queued for the first time, and one that      *)
(* leaves the queue is in a batch or gone.                                 *)
LEMMA QueueMoves ==
    ASSUME TypeOK, PlaceInv, Next, ~Crash
    PROVE  /\ seen \subseteq seen'
           /\ \A r \in Elems(pending)' : r \in Elems(pending) \/ r \notin seen
           /\ \A r \in Elems(pending) :
                r \in Elems(pending)' \/ r \in InFlight' \/ Stage(r)' = "gone"
<1> DEFINE Goal == /\ seen \subseteq seen'
                   /\ \A r \in Elems(pending)' : r \in Elems(pending) \/ r \notin seen
                   /\ \A r \in Elems(pending) :
                        r \in Elems(pending)' \/ r \in InFlight' \/ Stage(r)' = "gone"
<1>1. CASE UNCHANGED <<pending, seen>>
  BY <1>1
<1>2. ASSUME NEW p \in Procs, NEW r \in Records, Append_(p, r) PROVE Goal
  <2>1. Elems(pending)' = Elems(pending) \cup {r}
    BY <1>2, ElemsAppend DEF Append_, TypeOK
  <2> QED
    BY <1>2, <2>1 DEF Append_
<1>3. ASSUME NEW p \in Procs, FlushTake(p) PROVE Goal
  <2>1. Elems(pending)' = {} /\ batch'[p] = pending /\ seen' = seen
    BY <1>3, ElemsEmpty DEF FlushTake, TypeOK
  <2>2. Elems(pending) \subseteq InFlight'
    BY <2>1 DEF InFlight
  <2> QED
    BY <2>1, <2>2
<1>4. ASSUME NEW p \in Procs, NEW sid \in Deletable, DeletePending(p, sid) PROVE Goal
  <2>1. /\ Elems(pending)' = {r \in Elems(pending) : r.sid # sid}
        /\ batch' = batch /\ archive' = archive /\ seen' = seen
    BY <1>4, WithoutFacts DEF DeletePending, TypeOK
  <2>2. InFlight' = InFlight
    BY <2>1 DEF InFlight
  <2>3. ASSUME NEW r \in Elems(pending), r \notin Elems(pending)' PROVE Stage(r)' = "gone"
    <3>1. r \notin InFlight /\ r \notin archive.bySession /\ r \in seen
      BY DEF PlaceInv, OnePlace, OnlySeen, Volatile, InFlight
    <3> QED
      BY <2>1, <2>2, <2>3, <3>1 DEF Stage, Volatile
  <2> QED
    BY <2>1, <2>3
<1> QED
  BY <1>1, <1>2, <1>3, <1>4
     DEF Next, Proc, PutReturns, Tick, FlushPut, FlushPutFails, EndPut,
         DeleteScan, DeleteWrite, DeleteFails, EndDelete

(* What was found was archived, so it is in seen, and it stays out of the  *)
(* queue until the queue is read.                                          *)
FoundInv ==
    /\ found \subseteq seen
    /\ phase = "pending" => found \cap Elems(pending) = {}
    /\ NoDoubleRead

LEMMA FoundArchived ==
    ASSUME NEW q
    PROVE  ArchivePart(q) \subseteq archive.bySession \cup archive.byTime
BY DEF ArchivePart, TimeScan, RangeScan, Scan

LEMMA FoundStep == TypeOK /\ PlaceInv /\ FoundInv /\ [QNext]_qvars => FoundInv'
<1> SUFFICES ASSUME TypeOK, PlaceInv, FoundInv, [QNext]_qvars PROVE FoundInv'
  OBVIOUS
<1> USE DEF FoundInv, NoDoubleRead
<1>1. ASSUME NEW q \in Questions, ReadArchive(q) PROVE FoundInv'
  <2>1. found' \subseteq archive.bySession \cup archive.byTime
    BY <1>1, FoundArchived DEF ReadArchive
  <2>2. found' \subseteq seen /\ found' \cap Elems(pending) = {}
    BY <2>1 DEF PlaceInv, OnlySeen, OnePlace, Volatile
  <2> QED
    BY <1>1, <2>2 DEF ReadArchive, vars
<1>2. CASE ReadPending
  <2>1. answered' \subseteq Elems(pending)
    BY <1>2 DEF ReadPending, PendingPart
  <2> QED
    BY <1>2, <2>1 DEF ReadPending, vars
<1>3. CASE Write /\ Crash
  BY <1>3 DEF Write
<1>4. CASE Write /\ ~Crash
  BY <1>4, QueueMoves DEF Write
<1>5. CASE UNCHANGED qvars
  BY <1>5 DEF qvars, vars, readVars
<1> QED
  BY <1>1, <1>2, <1>3, <1>4, <1>5 DEF QNext

(* A read counts no record twice, although a flush may move records while  *)
(* it runs (buffer.go:85-154).                                             *)
THEOREM NothingTwice == QSpec => []NoDoubleRead
<1>1. QInit => FoundInv
  BY DEF QInit, FoundInv, NoDoubleRead
<1>2. FoundInv => NoDoubleRead
  BY DEF FoundInv
<1> QED
  BY <1>1, <1>2, FoundStep, BufferOnly, TypeCorrect, PlaceInvHolds, PTL DEF QSpec

-----------------------------------------------------------------------------
(* A record that is gone stays gone.                                       *)
LEMMA GoneStays ==
    ASSUME FlatIds, DistinctKeys, TypeOK, PlaceInv, CarryInv, Next,
           NEW r \in Records, Stage(r) = "gone"
    PROVE  Stage(r)' = "gone"
<1>1. ASSUME NEW S, NEW from, NEW to, StageMoves(S, from, to), from # "gone"
      PROVE  Stage(r)' = "gone"
  BY <1>1 DEF StageMoves
<1> QED
  BY <1>1, StepRefines

(* What the archive holds and was asked for is found.                      *)
LEMMA ArchivedIsFound ==
    ASSUME FlatIds, TypeOK, IndexesAgree, NEW q, NEW r \in archive.bySession, Asked(q, r)
    PROVE  r \in ArchivePart(q)
<1>1. r \in Records /\ r.sid = <<r.sid[1]>>
  BY DEF TypeOK, FlatIds, Flat
<1>2. DecodedTs(r) = r.ts
  BY <1>1 DEF DecodedTs, Flat
<1>3. Under(r.sid, r.sid)
  <2>1. \A x : Len(<<x>>) = 1
    OBVIOUS
  <2> QED
    BY <1>1, <2>1 DEF Under, SE!IsPrefix
<1> QED
  BY <1>2, <1>3 DEF IndexesAgree, ArchivePart, Asked, TimeScan, RangeScan, Scan

(* While a read is between its two steps, a record that was stored when it *)
(* began was found, was seen in a batch, waits in the queue or is gone.    *)
Pursued(r) == r \in found \/ r \in carried \/ r \in Elems(pending) \/ Stage(r) = "gone"

MissInv ==
    /\ due \subseteq Records
    /\ phase = "pending" => \A r \in due : Asked(question, r) /\ Pursued(r)
    /\ MissedOnlyInFlight

LEMMA MissStep ==
    ASSUME FlatIds, DistinctKeys, TypeOK, PlaceInv, CarryInv, IndexesAgree, MissInv,
           [QNext]_qvars
    PROVE  MissInv'
<1>1. \A r \in due : r \in Records
  BY DEF MissInv
<1>2. ASSUME NEW q \in Questions, ReadArchive(q) PROVE MissInv'
  <2>1. Stored \subseteq Records
    BY DEF TypeOK, Stored, PlaceInv, OnlySeen
  <2>2. ASSUME NEW r \in due' PROVE Asked(question', r) /\ Pursued(r)'
    <3>1. /\ r \in Stored /\ Asked(q, r) /\ question' = q
          /\ found' = ArchivePart(q) /\ carried' = InFlight /\ pending' = pending
      BY <1>2, <2>2 DEF ReadArchive, vars
    <3>2. r \in archive.bySession => r \in found'
      BY <3>1, ArchivedIsFound
    <3> QED
      BY <3>1, <3>2 DEF Stored, Volatile, Pursued
  <2> QED
    BY <1>2, <2>1, <2>2 DEF ReadArchive, MissInv, MissedOnlyInFlight, Asked
<1>3. CASE ReadPending
  <2>1. /\ phase = "pending" /\ phase' = "done" /\ answered' = PendingPart(question)
        /\ UNCHANGED <<found, due, carried, pending, batch, archive, seen>>
    BY <1>3 DEF ReadPending, vars
  <2>2. \A r \in Records : Stage(r)' = Stage(r)
    BY <2>1 DEF Stage, Volatile, InFlight
  <2>3. ASSUME NEW r \in due', r \notin Answer' PROVE r \in carried' \/ Stage(r)' = "gone"
    <3>1. r \in due /\ r \in Records /\ r \notin found /\ r \notin PendingPart(question)
      BY <2>1, <2>3, <1>1 DEF Answer
    <3>2. Asked(question, r) /\ Pursued(r)
      BY <2>1, <3>1 DEF MissInv
    <3> QED
      BY <2>1, <2>2, <3>1, <3>2 DEF Pursued, PendingPart
  <2> QED
    BY <2>1, <2>3, <1>1 DEF MissInv, MissedOnlyInFlight
<1>4. CASE Write /\ Crash
  BY <1>4 DEF Write, MissInv, MissedOnlyInFlight
<1>5. CASE Write /\ ~Crash
  <2>1. /\ Next /\ ~Crash
        /\ carried' = IF phase = "pending" THEN carried \cup InFlight' ELSE carried
        /\ UNCHANGED <<phase, question, found, answered, due>>
    BY <1>5 DEF Write
  <2>2. \A r \in due : Stage(r) = "gone" => Stage(r)' = "gone"
    BY <2>1, <1>1, GoneStays
  <2>3. MissedOnlyInFlight'
    BY <2>1, <2>2 DEF MissInv, MissedOnlyInFlight, Answer
  <2>4. ASSUME phase = "pending", NEW r \in due PROVE Pursued(r)'
    <3>1. Pursued(r) /\ carried' = carried \cup InFlight'
      BY <2>1, <2>4 DEF MissInv
    <3>2. r \in Elems(pending) =>
            r \in Elems(pending)' \/ r \in InFlight' \/ Stage(r)' = "gone"
      BY <2>1, QueueMoves
    <3> QED
      BY <2>1, <2>2, <3>1, <3>2 DEF Pursued
  <2> QED
    BY <2>1, <2>3, <2>4, <1>1 DEF MissInv, Asked
<1>6. CASE UNCHANGED qvars
  BY <1>6 DEF qvars, vars, readVars, MissInv, MissedOnlyInFlight, Answer, Pursued, Asked,
              Stage, Volatile, InFlight
<1> QED
  BY <1>2, <1>3, <1>4, <1>5, <1>6 DEF QNext

(* A read misses what was stored when it began only if a flush carried it  *)
(* meanwhile or if it was deleted (buffer.go:57-60,85-154), when no id     *)
(* contains a ':' and no two records share a time and a number.            *)
THEOREM OnlyFlightsMissed ==
    ASSUME FlatIds, DistinctKeys
    PROVE  QSpec => []MissedOnlyInFlight
<1>1. QInit => MissInv
  BY DEF QInit, MissInv, MissedOnlyInFlight
<1>2. TypeOK /\ PlaceInv /\ CarryInv /\ IndexesAgree /\ MissInv /\ [QNext]_qvars => MissInv'
  BY MissStep
<1>3. MissInv => MissedOnlyInFlight
  BY DEF MissInv
<1> QED
  BY <1>1, <1>2, <1>3, BufferOnly, TypeCorrect, PlaceInvHolds, CarryInvHolds,
     IndexesHoldTheSame, PTL DEF QSpec
=============================================================================
