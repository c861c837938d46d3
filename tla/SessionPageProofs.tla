------------------------- MODULE SessionPageProofs -------------------------
(***************************************************************************)
(* Theorems about the page of a session's messages, for any sessions, page *)
(* sizes, limits, and number of requests, clicks and failures.             *)
(***************************************************************************)
EXTENDS SessionPage, WellFoundedInduction, TLAPS

Replies == [total : Nat, items : Seq(Messages)]
Reqs == [kind : {"table", "poll", "brush"}, question : Questions, windowed : BOOLEAN,
         offset : Nat, upto : Nat, alive : BOOLEAN, status : {"sent", "ok"},
         answer : Replies \cup {None}]

(* An answer holds messages of the session that was asked for, and no more *)
(* than it counts.                                                         *)
Fits(reply, sel) ==
    /\ reply \in Replies
    /\ Len(reply.items) <= reply.total
    /\ \A i \in DOMAIN reply.items : reply.items[i][1] = sel

RequestsOK ==
    /\ requests \in [Slots -> Reqs \cup {None}]
    /\ \A k \in Slots : requests[k] # None => requests[k].question.sel # None
    /\ \A k \in Slots : Answered(k) => Fits(requests[k].answer, requests[k].question.sel)

(* Only the request of the last run of the effect is alive.                *)
TablesCurrent ==
    \A k \in Slots : requests[k] # None /\ requests[k].kind = "table" /\ requests[k].alive
        => requests[k].question = question

PageInv == TypeOK /\ RequestsOK /\ TablesCurrent /\ TotalCoversRows /\ RowsOfSelection

-----------------------------------------------------------------------------
(* The server's answers.                                                   *)

LEMMA MinOfTwo ==
    ASSUME NEW m \in Nat, NEW n \in Nat
    PROVE  Min({m, n}) = IF m <= n THEN m ELSE n
BY DEF Min

LEMMA RecordsFit ==
    ASSUME NEW s \in Sessions, NEW filter, NEW n \in Nat
    PROVE  /\ Records(s, filter, n) \in Seq(Messages)
           /\ \A k \in 1..Len(Records(s, filter, n)) : Records(s, filter, n)[k][1] = s
<1> DEFINE kept == Keeps(filter, n)
<1>1. kept \in Seq(Nat \ {0})
  BY DEF Keeps
<1>2. Records(s, filter, n) = [k \in 1..Len(kept) |-> <<s, kept[Len(kept) + 1 - k]>>]
  BY <1>1 DEF Records, Message
<1> HIDE DEF kept
<1>3. Len(kept) \in Nat
  BY <1>1
<1>4. \A k \in 1..Len(kept) : kept[Len(kept) + 1 - k] \in Nat \ {0}
  BY <1>1
<1> QED
  BY <1>2, <1>3, <1>4 DEF Messages

LEMMA SliceFits ==
    ASSUME NEW S, NEW list \in Seq(S), NEW offset \in Nat, NEW limit \in Nat
    PROVE  /\ Slice(list, offset, limit) \in Seq(S)
           /\ Len(Slice(list, offset, limit)) <= Len(list)
           /\ \A i \in 1..Len(Slice(list, offset, limit)) :
                \E j \in 1..Len(list) : Slice(list, offset, limit)[i] = list[j]
<1> DEFINE hi == Min({offset + limit, Len(list)})
<1>1. Len(list) \in Nat
  OBVIOUS
<1>2. hi \in Nat /\ hi <= Len(list)
  BY <1>1, MinOfTwo
<1>3. CASE offset < Len(list)
  <2>1. Slice(list, offset, limit) = SubSeq(list, offset + 1, hi)
    BY <1>3 DEF Slice
  <2> HIDE DEF hi
  <2>2. \A i \in 1..Len(SubSeq(list, offset + 1, hi)) :
          offset + i \in 1..Len(list) /\ SubSeq(list, offset + 1, hi)[i] = list[offset + i]
    BY <1>1, <1>2
  <2>3. SubSeq(list, offset + 1, hi) \in Seq(S) /\ Len(SubSeq(list, offset + 1, hi)) <= Len(list)
    BY <1>1, <1>2
  <2> QED
    BY <2>1, <2>2, <2>3
<1>4. CASE ~(offset < Len(list))
  BY <1>4 DEF Slice
<1> QED
  BY <1>3, <1>4

LEMMA AnswerFits ==
    ASSUME NEW r \in Reqs, r.question.sel # None, NEW n \in Nat
    PROVE  Fits(Answer(r, n), r.question.sel)
<1> DEFINE q == r.question
           m == Min({n, r.upto})
           list == Records(q.sel, q.filter, m)
           items == IF r.windowed THEN Slice(list, r.offset, q.size)
                    ELSE Slice(list, 0, LiveLimit)
<1>1. q \in Questions /\ r.upto \in Nat /\ r.offset \in Nat
  BY DEF Reqs
<1>2. q.sel \in Sessions /\ q.size \in Nat /\ LiveLimit \in Nat
  BY <1>1, LimitsAssumption DEF Questions
<1>3. m \in Nat
  BY <1>1, MinOfTwo
<1> HIDE DEF m
<1>4. /\ list \in Seq(Messages) /\ Len(list) \in Nat
      /\ \A k \in 1..Len(list) : list[k][1] = q.sel
  <2>1. list \in Seq(Messages) /\ \A k \in 1..Len(list) : list[k][1] = q.sel
    BY <1>2, <1>3, RecordsFit, Zenon
  <2> HIDE DEF list
  <2> QED
    BY <2>1
<1>5. Answer(r, n) = [total |-> Len(list), items |-> items]
  BY DEF Answer, m
<1> HIDE DEF list
<1>6. /\ items \in Seq(Messages) /\ Len(items) <= Len(list)
      /\ \A i \in 1..Len(items) : \E j \in 1..Len(list) : items[i] = list[j]
  <2>1. CASE r.windowed
    BY <1>1, <1>2, <1>4, <2>1, SliceFits
  <2>2. CASE ~r.windowed
    BY <1>2, <1>4, <2>2, SliceFits
  <2> QED
    BY <2>1, <2>2
<1> HIDE DEF items
<1>7. \A i \in DOMAIN items : items[i][1] = q.sel
  BY <1>4, <1>6
<1>8. [total |-> Len(list), items |-> items] \in Replies
  BY <1>4, <1>6 DEF Replies
<1> QED
  BY <1>5, <1>6, <1>7, <1>8 DEF Fits

-----------------------------------------------------------------------------
(* The requests.                                                           *)

LEMMA RequestFields ==
    ASSUME NEW kind \in {"table", "poll", "brush"}, NEW q \in Questions,
           NEW windowed \in BOOLEAN, NEW offset \in Nat, NEW upto \in Nat
    PROVE  LET r == Request(kind, q, windowed, offset, upto)
           IN  /\ r \in Reqs /\ r.kind = kind /\ r.question = q
               /\ r.status = "sent" /\ r.alive
BY DEF Request, Reqs

LEMMA QuestionFields ==
    ASSUME NEW q \in Questions
    PROVE  q.page * q.size \in Nat /\ q.range \in BOOLEAN /\ q.live \in BOOLEAN
           /\ q.sel \in Sessions \cup {None} /\ MaxRecords \in Nat
<1>1. q.page \in Nat /\ q.size \in Nat /\ MaxRecords \in Nat
  <2>1. q.page \in 0..MaxRecords /\ q.size \in PageSizes
    BY DEF Questions
  <2>2. MaxRecords \in Nat /\ q.size \in Nat
    BY <2>1, LimitsAssumption
  <2> QED
    BY <2>1, <2>2
<1>2. q.page * q.size \in Nat
  BY <1>1
<1>3. /\ q.range \in BOOLEAN /\ q.live \in BOOLEAN
      /\ q.sel \in Sessions \cup {None}
  BY DEF Questions
<1> QED
  BY <1>1, <1>2, <1>3

(* What the slots hold: a request that belongs to somebody, or nothing.    *)
LEMMA PutFields ==
    ASSUME NEW used \in [Slots -> Reqs \cup {None}], NEW r \in Reqs
    PROVE  /\ Put(used, r) \in [Slots -> Reqs \cup {None}]
           /\ \A k \in Slots : Put(used, r)[k] \in {used[k], r}
BY DEF Put

LEMMA EffectFields ==
    ASSUME NEW used \in [Slots -> Reqs \cup {None}], NEW q \in Questions
    PROVE  /\ TableEffect(q, used) \in [Slots -> Reqs \cup {None}]
           /\ \A k \in Slots : \/ TableEffect(q, used)[k] = used[k]
                               \/ /\ TableEffect(q, used)[k].question = q
                                  /\ TableEffect(q, used)[k].status = "sent"
                                  /\ q.sel # None
<1>1. CASE Asks(q)
  <2> DEFINE r == Request("table", q, q.range, q.page * q.size, MaxRecords)
  <2>1. r \in Reqs /\ r.question = q /\ r.status = "sent"
    BY QuestionFields, RequestFields
  <2>2. TableEffect(q, used) = Put(used, r) /\ q.sel # None
    BY <1>1 DEF TableEffect, Asks
  <2> HIDE DEF r
  <2> QED
    BY <2>1, <2>2, PutFields
<1>2. CASE ~Asks(q)
  BY <1>2 DEF TableEffect
<1> QED
  BY <1>1, <1>2

LEMMA CleanedFields ==
    ASSUME RequestsOK
    PROVE  /\ Cleaned \in [Slots -> Reqs \cup {None}]
           /\ \A k \in Slots : Cleaned[k] # None =>
                /\ requests[k] # None
                /\ Cleaned[k].question = requests[k].question
                /\ Cleaned[k].status = requests[k].status
                /\ Cleaned[k].answer = requests[k].answer
                /\ Cleaned[k].kind = "table" => ~Cleaned[k].alive
<1> SUFFICES ASSUME NEW k \in Slots
             PROVE  /\ Cleaned[k] \in Reqs \cup {None}
                    /\ Cleaned[k] # None =>
                        /\ requests[k] # None
                        /\ Cleaned[k].question = requests[k].question
                        /\ Cleaned[k].status = requests[k].status
                        /\ Cleaned[k].answer = requests[k].answer
                        /\ Cleaned[k].kind = "table" => ~Cleaned[k].alive
  BY DEF Cleaned
<1>1. CASE requests[k] # None /\ requests[k].kind = "table"
  <2>1. requests[k] \in Reqs /\ Cleaned[k] = [requests[k] EXCEPT !.alive = FALSE]
    BY <1>1 DEF Cleaned, RequestsOK
  <2> QED
    BY <1>1, <2>1 DEF Reqs
<1>2. CASE ~(requests[k] # None /\ requests[k].kind = "table")
  <2>1. Cleaned[k] = requests[k]
    BY <1>2 DEF Cleaned
  <2> QED
    BY <1>2, <2>1 DEF RequestsOK
<1> QED
  BY <1>1, <1>2

-----------------------------------------------------------------------------
(* The steps.                                                              *)

(* A request is new, or has not been answered meanwhile, or is gone.       *)
LEMMA RequestsStep ==
    ASSUME RequestsOK, requests' \in [Slots -> Reqs \cup {None}],
           \A k \in Slots :
              \/ requests'[k] = None
              \/ /\ requests[k] # None
                 /\ requests'[k].question = requests[k].question
                 /\ requests'[k].status = requests[k].status
                 /\ requests'[k].answer = requests[k].answer
              \/ requests'[k].status = "sent" /\ requests'[k].question.sel # None
    PROVE  RequestsOK'
BY DEF RequestsOK, Answered

LEMMA RequestTypes ==
    ASSUME NEW used \in [Slots -> Reqs \cup {None}]
    PROVE  \A k \in Slots : used[k] # None =>
                used[k].kind \in {"table", "poll", "brush"} /\ used[k].question \in Questions
<1>1. \A r \in Reqs : r.kind \in {"table", "poll", "brush"} /\ r.question \in Questions
  BY DEF Reqs
<1> QED
  BY <1>1

LEMMA ChangeInv == ASSUME PageInv, NEW q \in Questions, Change(q) PROVE PageInv'
<1>1. /\ question' = q /\ unanswered' = TRUE /\ requests' = TableEffect(q, Cleaned)
      /\ UNCHANGED <<count, pushes, rows, total, failures, astray>>
      /\ clicks < MaxClicks /\ clicks' = clicks + 1
  BY DEF Change, Acts, ClickOf
<1>2. RequestsOK /\ TypeOK
  BY DEF PageInv
<1>3. requests' \in [Slots -> Reqs \cup {None}]
  BY <1>1, <1>2, CleanedFields, EffectFields
<1>4. \A k \in Slots : \/ requests'[k] = Cleaned[k]
                       \/ /\ requests'[k].question = q /\ requests'[k].status = "sent"
                          /\ q.sel # None
  BY <1>1, <1>2, CleanedFields, EffectFields
<1>5. RequestsOK'
  <2>1. \A k \in Slots :
              \/ requests'[k] = None
              \/ /\ requests[k] # None
                 /\ requests'[k].question = requests[k].question
                 /\ requests'[k].status = requests[k].status
                 /\ requests'[k].answer = requests[k].answer
              \/ requests'[k].status = "sent" /\ requests'[k].question.sel # None
    BY <1>2, <1>4, CleanedFields
  <2> QED
    BY <1>2, <1>3, <2>1, RequestsStep
<1>6. TablesCurrent'
  BY <1>1, <1>2, <1>4, CleanedFields DEF TablesCurrent
<1>7. TypeOK'
  <2>1. clicks' \in 0..MaxClicks
    BY <1>1, <1>2, LimitsAssumption DEF TypeOK
  <2>2. \A k \in Slots : requests'[k] # None =>
            /\ requests'[k].kind \in {"table", "poll", "brush"}
            /\ requests'[k].question \in Questions /\ requests'[k].question.sel # None
    BY <1>3, <1>5, RequestTypes DEF RequestsOK
  <2> QED
    BY <1>1, <1>2, <2>1, <2>2 DEF TypeOK
<1>8. TotalCoversRows' /\ RowsOfSelection'
  BY <1>1 DEF PageInv, TotalCoversRows, RowsOfSelection
<1> QED
  BY <1>5, <1>6, <1>7, <1>8 DEF PageInv

LEMMA BrushInv == ASSUME PageInv, NEW n \in 1..MaxRecords, HandleBrush(n) PROVE PageInv'
<1> DEFINE q == [question EXCEPT !.page = 0]
           r == Request("brush", q, TRUE, 0, n)
<1>1. /\ question' = q /\ question.sel # None
      /\ UNCHANGED <<count, pushes, rows, total, failures, astray>>
      /\ clicks < MaxClicks /\ clicks' = clicks + 1
  BY DEF HandleBrush, Acts, ClickOf, Asks
<1>2. \/ q = question /\ requests' = Put(requests, r) /\ UNCHANGED unanswered
      \/ requests' = TableEffect(q, Put(Cleaned, r)) /\ unanswered' = TRUE
  BY DEF HandleBrush
<1>3. RequestsOK /\ TypeOK
  BY DEF PageInv
<1>4. q \in Questions /\ q.sel = question.sel
  <2>1. 0 \in 0..MaxRecords
    BY LimitsAssumption
  <2>2. question \in Questions
    BY <1>3 DEF TypeOK
  <2> QED
    BY <2>1, <2>2 DEF Questions
<1>5. /\ r \in Reqs /\ r.kind = "brush" /\ r.question = q /\ r.status = "sent"
      /\ r.question.sel # None
  <2>1. n \in Nat /\ 0 \in Nat /\ TRUE \in BOOLEAN
    BY LimitsAssumption
  <2> HIDE DEF q
  <2>2. r \in Reqs /\ r.kind = "brush" /\ r.question = q /\ r.status = "sent"
    BY <1>4, <2>1 DEF Request, Reqs
  <2> QED
    BY <1>1, <1>4, <2>2
<1> HIDE DEF q, r
<1>6. ASSUME q = question, requests' = Put(requests, r), UNCHANGED unanswered
      PROVE  RequestsOK' /\ TablesCurrent' /\ RowsOfSelection' /\ unanswered' \in BOOLEAN
  <2>1. /\ requests' \in [Slots -> Reqs \cup {None}]
        /\ \A k \in Slots : requests'[k] \in {requests[k], r}
    BY <1>3, <1>5, <1>6, PutFields DEF RequestsOK
  <2>2. RequestsOK'
    BY <1>3, <1>5, <2>1, RequestsStep
  <2>3. TablesCurrent'
    <3>1. question' = question /\ TablesCurrent
      BY <1>1, <1>6 DEF PageInv
    <3> QED
      BY <1>5, <2>1, <3>1 DEF TablesCurrent
  <2>4. RowsOfSelection' /\ unanswered' \in BOOLEAN
    BY <1>1, <1>3, <1>6 DEF PageInv, RowsOfSelection, TypeOK
  <2> QED
    BY <2>2, <2>3, <2>4
<1>7. ASSUME requests' = TableEffect(q, Put(Cleaned, r)), unanswered' = TRUE
      PROVE  RequestsOK' /\ TablesCurrent' /\ RowsOfSelection' /\ unanswered' \in BOOLEAN
  <2>1. /\ Put(Cleaned, r) \in [Slots -> Reqs \cup {None}]
        /\ \A k \in Slots : Put(Cleaned, r)[k] \in {Cleaned[k], r}
    BY <1>3, <1>5, CleanedFields, PutFields
  <2>2. /\ requests' \in [Slots -> Reqs \cup {None}]
        /\ \A k \in Slots : \/ requests'[k] = Cleaned[k]
                            \/ requests'[k] = r
                            \/ /\ requests'[k].question = q /\ requests'[k].status = "sent"
                               /\ q.sel # None
    BY <1>4, <1>7, <2>1, EffectFields
  <2>3. RequestsOK'
    <3>1. \A k \in Slots :
              \/ requests'[k] = None
              \/ /\ requests[k] # None
                 /\ requests'[k].question = requests[k].question
                 /\ requests'[k].status = requests[k].status
                 /\ requests'[k].answer = requests[k].answer
              \/ requests'[k].status = "sent" /\ requests'[k].question.sel # None
      BY <1>3, <1>5, <2>2, CleanedFields
    <3> QED
      BY <1>3, <2>2, <3>1, RequestsStep
  <2>4. TablesCurrent'
    BY <1>1, <1>3, <1>5, <2>2, CleanedFields DEF TablesCurrent
  <2>5. RowsOfSelection' /\ unanswered' \in BOOLEAN
    BY <1>7 DEF RowsOfSelection
  <2> QED
    BY <2>3, <2>4, <2>5
<1>8. RequestsOK' /\ TablesCurrent' /\ RowsOfSelection' /\ unanswered' \in BOOLEAN
  BY <1>2, <1>6, <1>7
<1>9. TypeOK'
  <2>1. clicks' \in 0..MaxClicks
    BY <1>1, <1>3, LimitsAssumption DEF TypeOK
  <2>2. \A k \in Slots : requests'[k] # None =>
            /\ requests'[k].kind \in {"table", "poll", "brush"}
            /\ requests'[k].question \in Questions /\ requests'[k].question.sel # None
    BY <1>8, RequestTypes DEF RequestsOK
  <2> QED
    BY <1>1, <1>3, <1>4, <1>8, <2>1, <2>2 DEF TypeOK
<1>10. TotalCoversRows'
  BY <1>1 DEF PageInv, TotalCoversRows
<1> QED
  BY <1>8, <1>9, <1>10 DEF PageInv

(* A step that changes only requests, and keeps what is said of them.      *)
LEMMA RequestsOnly ==
    ASSUME PageInv, RequestsOK', TablesCurrent', failures' \in 0..MaxFailures,
           UNCHANGED <<count, pushes, question, rows, total, clicks, history>>
    PROVE  PageInv'
<1>1. TypeOK'
  <2>1. \A k \in Slots : requests'[k] # None =>
            /\ requests'[k].kind \in {"table", "poll", "brush"}
            /\ requests'[k].question \in Questions /\ requests'[k].question.sel # None
    BY RequestTypes DEF RequestsOK
  <2> QED
    BY <2>1 DEF PageInv, TypeOK, history
<1>2. TotalCoversRows' /\ RowsOfSelection'
  BY DEF PageInv, TotalCoversRows, RowsOfSelection, history
<1> QED
  BY <1>1, <1>2 DEF PageInv

LEMMA PollInv == ASSUME PageInv, Poll PROVE PageInv'
<1> DEFINE r == Request("poll", question, FALSE, 0, MaxRecords)
<1>1. /\ RequestsOK /\ TablesCurrent /\ question \in Questions
      /\ failures \in 0..MaxFailures /\ question.sel # None
      /\ UNCHANGED <<count, pushes, question, rows, total, clicks, failures, history>>
      /\ requests' = Put(requests, r)
  BY DEF PageInv, TypeOK, Poll, Asks
<1>2. r \in Reqs /\ r.kind = "poll" /\ r.question = question /\ r.status = "sent"
  BY <1>1, LimitsAssumption DEF Request, Reqs
<1> HIDE DEF r
<1>3. /\ requests' \in [Slots -> Reqs \cup {None}]
      /\ \A k \in Slots : requests'[k] \in {requests[k], r}
  BY <1>1, <1>2, PutFields DEF RequestsOK
<1>4. RequestsOK'
  BY <1>1, <1>2, <1>3, RequestsStep
<1>5. TablesCurrent'
  BY <1>1, <1>2, <1>3 DEF TablesCurrent
<1> QED
  BY <1>1, <1>4, <1>5, RequestsOnly

LEMMA ServeInv == ASSUME PageInv, NEW k \in Slots, Serve(k) PROVE PageInv'
<1> DEFINE r == requests[k]
           a == Answer(r, count[r.question.sel])
<1>1. /\ RequestsOK /\ TablesCurrent /\ count \in [Sessions -> Nat]
      /\ failures \in 0..MaxFailures
      /\ r # None /\ requests' = Answers(k, a)
      /\ UNCHANGED <<count, pushes, question, rows, total, clicks, failures, history>>
  <2> HIDE DEF a
  <2>1. /\ r # None /\ requests' = Answers(k, a)
        /\ UNCHANGED <<count, pushes, question, rows, total, clicks, failures, history>>
    BY DEF Serve, Waiting, a
  <2> QED
    BY <2>1 DEF PageInv, TypeOK
<1>2. r \in Reqs /\ r.question.sel # None /\ r.question \in Questions
  BY <1>1 DEF RequestsOK, Reqs
<1>3. count[r.question.sel] \in Nat
  BY <1>1, <1>2 DEF Questions
<1>4. Fits(a, r.question.sel) /\ a \in Replies
  BY <1>2, <1>3, AnswerFits DEF Fits
<1> HIDE DEF a
<1>5. /\ requests'[k] \in Reqs /\ requests'[k].answer = a
      /\ requests'[k].question = r.question /\ requests'[k].kind = r.kind
      /\ requests'[k].alive = r.alive
  <2>1. requests'[k] = [r EXCEPT !.status = "ok", !.answer = a]
    BY <1>1 DEF RequestsOK, Answers
  <2> HIDE DEF r
  <2> QED
    BY <1>2, <1>4, <2>1 DEF Reqs
<1>6. \A t \in Slots : t # k => requests'[t] = requests[t]
  BY <1>1 DEF RequestsOK, Answers
<1>7. RequestsOK'
  <2>1. requests' \in [Slots -> Reqs \cup {None}]
    BY <1>1, <1>5, <1>6 DEF RequestsOK, Answers
  <2> QED
    BY <1>1, <1>2, <1>4, <1>5, <1>6, <2>1 DEF RequestsOK, Answered
<1>8. TablesCurrent'
  BY <1>1, <1>5, <1>6 DEF TablesCurrent
<1> QED
  BY <1>1, <1>7, <1>8, RequestsOnly

LEMMA DroppedInv ==
    ASSUME RequestsOK, TablesCurrent, NEW k \in Slots,
           requests' = Dropped(k), question' = question
    PROVE  RequestsOK' /\ TablesCurrent'
<1>1. /\ requests' \in [Slots -> Reqs \cup {None}] /\ requests'[k] = None
      /\ \A t \in Slots : t # k => requests'[t] = requests[t]
  BY DEF Dropped, RequestsOK
<1>2. RequestsOK'
  BY <1>1 DEF RequestsOK, Answered
<1>3. TablesCurrent'
  BY <1>1 DEF TablesCurrent
<1> QED
  BY <1>2, <1>3

LEMMA FailInv == ASSUME PageInv, NEW k \in Slots, Fail(k) PROVE PageInv'
<1>1. /\ RequestsOK /\ TablesCurrent /\ requests' = Dropped(k)
      /\ UNCHANGED <<count, pushes, question, rows, total, clicks, history>>
  BY DEF PageInv, Fail
<1>2. failures' \in 0..MaxFailures
  BY LimitsAssumption DEF PageInv, TypeOK, Fail
<1> QED
  BY <1>1, <1>2, DroppedInv, RequestsOnly

LEMMA DeliverInv == ASSUME PageInv, NEW k \in Slots, Deliver(k) PROVE PageInv'
<1> DEFINE r == requests[k]
<1>1. /\ RequestsOK /\ TablesCurrent /\ TypeOK /\ Answered(k) /\ requests' = Dropped(k)
      /\ UNCHANGED <<count, pushes, question, clicks, failures>>
  BY DEF PageInv, Deliver
<1>2. RequestsOK' /\ TablesCurrent'
  BY <1>1, DroppedInv
<1>3. \/ /\ rows' = r.answer.items /\ total' = r.answer.total
         /\ astray' = ~Belongs(r)
         /\ unanswered' = (unanswered /\ ~Belongs(r))
      \/ UNCHANGED <<rows, total, history>>
  BY DEF Deliver
<1>4. Fits(r.answer, r.question.sel)
  BY <1>1 DEF RequestsOK
<1> HIDE DEF r
<1>5. ASSUME rows' = r.answer.items, total' = r.answer.total,
             astray' = ~Belongs(r), unanswered' = (unanswered /\ ~Belongs(r))
      PROVE  /\ rows' \in Seq(Messages) /\ total' \in Nat
             /\ astray' \in BOOLEAN /\ unanswered' \in BOOLEAN
             /\ TotalCoversRows' /\ RowsOfSelection'
  <2>1. rows' \in Seq(Messages) /\ total' \in Nat /\ TotalCoversRows'
    BY <1>4, <1>5 DEF Fits, Replies, TotalCoversRows
  <2>2. astray' \in BOOLEAN /\ unanswered' \in BOOLEAN
    BY <1>1, <1>5, Zenon DEF TypeOK
  <2>3. ~astray' => r.question.sel = question'.sel
    BY <1>1, <1>5 DEF Belongs
  <2>4. RowsOfSelection'
    BY <1>4, <1>5, <2>3 DEF RowsOfSelection, Fits
  <2> QED
    BY <2>1, <2>2, <2>4
<1>6. ASSUME UNCHANGED <<rows, total, history>>
      PROVE  /\ rows' \in Seq(Messages) /\ total' \in Nat
             /\ astray' \in BOOLEAN /\ unanswered' \in BOOLEAN
             /\ TotalCoversRows' /\ RowsOfSelection'
  BY <1>1, <1>6 DEF PageInv, TypeOK, TotalCoversRows, RowsOfSelection, history
<1>7. TypeOK'
  <2>1. \A t \in Slots : requests'[t] # None =>
            /\ requests'[t].kind \in {"table", "poll", "brush"}
            /\ requests'[t].question \in Questions /\ requests'[t].question.sel # None
    BY <1>2, RequestTypes DEF RequestsOK
  <2> QED
    BY <1>1, <1>3, <1>5, <1>6, <2>1 DEF TypeOK
<1> QED
  BY <1>2, <1>3, <1>5, <1>6, <1>7 DEF PageInv

LEMMA ReceiveInv == ASSUME PageInv, NEW s \in Sessions, Receive(s) PROVE PageInv'
<1>1. /\ RequestsOK /\ TablesCurrent /\ TypeOK /\ count' = [count EXCEPT ![s] = @ + 1]
      /\ pushes' = Append(pushes, Message(s, count'[s])) \/ pushes' = pushes
      /\ UNCHANGED <<question, rows, total, requests, clicks, failures, history>>
  BY DEF PageInv, Receive
<1>2. count' \in [Sessions -> Nat] /\ count'[s] \in Nat \ {0}
  BY <1>1 DEF TypeOK
<1>3. pushes' \in Seq(Messages)
  <2>1. Message(s, count'[s]) \in Messages
    BY <1>2 DEF Message, Messages
  <2>2. pushes \in Seq(Messages)
    BY <1>1 DEF TypeOK
  <2> QED
    BY <1>1, <2>1, <2>2
<1>4. TypeOK'
  BY <1>1, <1>2, <1>3 DEF TypeOK, history
<1>5. RequestsOK' /\ TablesCurrent'
  BY <1>1 DEF RequestsOK, TablesCurrent, Answered
<1>6. TotalCoversRows' /\ RowsOfSelection'
  BY <1>1 DEF PageInv, TotalCoversRows, RowsOfSelection, history
<1> QED
  BY <1>4, <1>5, <1>6 DEF PageInv

LEMMA OnMessageInv == ASSUME PageInv, OnMessage PROVE PageInv'
<1> DEFINE m == Head(pushes)
           n == Min({Len(rows) + 1, MaxLive})
<1>1. /\ RequestsOK /\ TablesCurrent /\ TypeOK /\ TotalCoversRows /\ RowsOfSelection
      /\ pushes # <<>> /\ pushes' = Tail(pushes)
      /\ UNCHANGED <<count, question, requests, clicks, failures, history>>
      /\ \/ Shows(m) /\ rows' = SubSeq(<<m>> \o rows, 1, n) /\ total' = total + 1
         \/ UNCHANGED <<rows, total>>
  BY DEF PageInv, OnMessage
<1>2. m \in Messages /\ pushes' \in Seq(Messages)
  BY <1>1 DEF TypeOK
<1>3. rows \in Seq(Messages) /\ Len(rows) \in Nat /\ total \in Nat /\ Len(rows) <= total
  BY <1>1 DEF TypeOK, TotalCoversRows
<1>4. n \in Nat /\ n <= Len(rows) + 1
  <2>1. MaxLive \in Nat
    BY LimitsAssumption
  <2> QED
    BY <1>3, <2>1, MinOfTwo
<1> HIDE DEF m, n
<1>5. ASSUME Shows(m), rows' = SubSeq(<<m>> \o rows, 1, n), total' = total + 1
      PROVE  /\ rows' \in Seq(Messages) /\ total' \in Nat
             /\ TotalCoversRows' /\ RowsOfSelection'
  <2>1. rows' \in Seq(Messages) /\ Len(rows') = n
    BY <1>2, <1>3, <1>4, <1>5
  <2>2. total' \in Nat /\ TotalCoversRows'
    BY <1>3, <1>4, <1>5, <2>1 DEF TotalCoversRows
  <2>3. \A i \in 1..n : rows'[i] = m \/ \E j \in 1..Len(rows) : rows'[i] = rows[j]
    <3>1. \A i \in 1..n : rows'[i] = (<<m>> \o rows)[i]
      BY <1>2, <1>3, <1>4, <1>5
    <3>2. \A i \in 1..n : (<<m>> \o rows)[i] = IF i = 1 THEN m ELSE rows[i - 1]
      BY <1>2, <1>3, <1>4
    <3>3. \A i \in 1..n : i # 1 => i - 1 \in 1..Len(rows)
      BY <1>3, <1>4
    <3> QED
      BY <3>1, <3>2, <3>3
  <2>4. question.sel # None => m[1] = question.sel
    BY <1>5 DEF Shows
  <2>5. RowsOfSelection'
    BY <1>1, <1>3, <2>1, <2>3, <2>4 DEF RowsOfSelection, history
  <2> QED
    BY <2>1, <2>2, <2>5
<1>6. ASSUME UNCHANGED <<rows, total>>
      PROVE  /\ rows' \in Seq(Messages) /\ total' \in Nat
             /\ TotalCoversRows' /\ RowsOfSelection'
  BY <1>1, <1>3, <1>6 DEF TotalCoversRows, RowsOfSelection, history
<1>7. TypeOK'
  BY <1>1, <1>2, <1>5, <1>6 DEF TypeOK, history
<1>8. RequestsOK' /\ TablesCurrent'
  BY <1>1 DEF RequestsOK, TablesCurrent, Answered
<1> QED
  BY <1>1, <1>5, <1>6, <1>7, <1>8 DEF PageInv

-----------------------------------------------------------------------------
(* The first question: the smallest page.                                  *)
LEMMA SmallestPage == Min(PageSizes) \in PageSizes
<1> DEFINE less == {pair \in Nat \X Nat : pair[1] < pair[2]}
<1>1. PageSizes \subseteq Nat /\ PageSizes # {}
  BY LimitsAssumption
<1>2. IsWellFoundedOn(less, Nat)
  BY NatLessThanWellFounded DEF OpToRel
<1>3. \A x, y \in Nat : <<y, x>> \notin less => x <= y
  OBVIOUS
<1> HIDE DEF less
<1>4. PICK x \in PageSizes : \A y \in PageSizes : <<y, x>> \notin less
  BY <1>1, <1>2, WFMin
<1>5. \A y \in PageSizes : x <= y
  BY <1>1, <1>3, <1>4
<1> QED
  BY <1>5 DEF Min

LEMMA InitInv == Init => PageInv
<1> SUFFICES ASSUME Init PROVE PageInv
  OBVIOUS
<1> DEFINE empty == [k \in Slots |-> None]
<1>1. /\ count = [s \in Sessions |-> 0] /\ pushes = <<>> /\ rows = <<>> /\ total = 0
      /\ requests = TableEffect(question, empty)
      /\ clicks = 0 /\ failures = 0 /\ astray = FALSE /\ unanswered = TRUE
  BY DEF Init
<1>2. question \in Questions
  <2>1. (CHOOSE s \in Sessions : TRUE) \in Sessions
    BY SessionsAssumption
  <2>2. 0 \in 0..MaxRecords
    BY LimitsAssumption
  <2> QED
    BY <2>1, <2>2, SmallestPage DEF Init, Questions, Filters
<1>3. empty \in [Slots -> Reqs \cup {None}] /\ \A k \in Slots : empty[k] = None
  OBVIOUS
<1> HIDE DEF empty
<1>4. /\ requests \in [Slots -> Reqs \cup {None}]
      /\ \A k \in Slots : \/ requests[k] = None
                          \/ /\ requests[k].question = question
                             /\ requests[k].status = "sent" /\ question.sel # None
  BY <1>1, <1>2, <1>3, EffectFields
<1>5. RequestsOK /\ TablesCurrent
  BY <1>4 DEF RequestsOK, TablesCurrent, Answered
<1>6. TypeOK
  <2>1. \A k \in Slots : requests[k] # None =>
            /\ requests[k].kind \in {"table", "poll", "brush"}
            /\ requests[k].question \in Questions /\ requests[k].question.sel # None
    BY <1>5, RequestTypes DEF RequestsOK
  <2>2. clicks \in 0..MaxClicks /\ failures \in 0..MaxFailures
    BY <1>1, LimitsAssumption
  <2>3. count \in [Sessions -> Nat] /\ <<>> \in Seq(Messages)
    BY <1>1
  <2> QED
    BY <1>1, <1>2, <2>1, <2>2, <2>3 DEF TypeOK
<1>7. TotalCoversRows /\ RowsOfSelection
  BY <1>1 DEF TotalCoversRows, RowsOfSelection
<1> QED
  BY <1>5, <1>6, <1>7 DEF PageInv

LEMMA ClickInv ==
    ASSUME PageInv,
           \/ \E s \in Sessions \cup {None} : SelectSession(s)
           \/ SetLive \/ SetRange
           \/ \E f \in Filters : ApplyFilters(f)
           \/ \E p \in 0..MaxRecords : SetPage(p)
           \/ \E n \in PageSizes : SetPageSize(n)
    PROVE  PageInv'
<1>1. question \in Questions
  BY DEF PageInv, TypeOK
<1>2. 0 \in 0..MaxRecords
  BY LimitsAssumption
<1>3. ASSUME NEW s \in Sessions \cup {None}, SelectSession(s) PROVE PageInv'
  <2>1. [question EXCEPT !.sel = s] \in Questions
    BY <1>1 DEF Questions
  <2> QED
    BY <1>3, <2>1, ChangeInv DEF SelectSession
<1>4. ASSUME SetLive PROVE PageInv'
  <2>1. [question EXCEPT !.live = ~@] \in Questions
    BY <1>1 DEF Questions
  <2> QED
    BY <1>4, <2>1, ChangeInv DEF SetLive
<1>5. ASSUME SetRange PROVE PageInv'
  <2>1. [question EXCEPT !.range = TRUE, !.page = 0] \in Questions
    BY <1>1, <1>2 DEF Questions
  <2> QED
    BY <1>5, <2>1, ChangeInv DEF SetRange
<1>6. ASSUME NEW f \in Filters, ApplyFilters(f) PROVE PageInv'
  <2>1. [question EXCEPT !.filter = f, !.page = 0] \in Questions
    BY <1>1, <1>2 DEF Questions
  <2> QED
    BY <1>6, <2>1, ChangeInv DEF ApplyFilters
<1>7. ASSUME NEW p \in 0..MaxRecords, SetPage(p) PROVE PageInv'
  <2>1. [question EXCEPT !.page = p] \in Questions
    BY <1>1 DEF Questions
  <2> QED
    BY <1>7, <2>1, ChangeInv DEF SetPage
<1>8. ASSUME NEW n \in PageSizes, SetPageSize(n) PROVE PageInv'
  <2>1. [question EXCEPT !.size = n, !.page = 0] \in Questions
    BY <1>1, <1>2 DEF Questions
  <2> QED
    BY <1>8, <2>1, ChangeInv DEF SetPageSize
<1> QED
  BY <1>3, <1>4, <1>5, <1>6, <1>7, <1>8, Zenon

LEMMA NextInv == PageInv /\ [Next]_vars => PageInv'
<1> SUFFICES ASSUME PageInv, [Next]_vars PROVE PageInv'
  OBVIOUS
<1>1. ASSUME UNCHANGED vars PROVE PageInv'
  BY <1>1 DEF vars, history, PageInv, TypeOK, RequestsOK, Answered, TablesCurrent,
     TotalCoversRows, RowsOfSelection
<1>2. ASSUME NEW n \in 1..MaxRecords, HandleBrush(n) PROVE PageInv'
  BY <1>2, BrushInv
<1>3. ASSUME NEW k \in Slots, Serve(k) \/ Fail(k) \/ Deliver(k) PROVE PageInv'
  BY <1>3, ServeInv, FailInv, DeliverInv
<1>4. ASSUME NEW s \in Sessions, Receive(s) PROVE PageInv'
  BY <1>4, ReceiveInv
<1> QED
  BY <1>1, <1>2, <1>3, <1>4, ClickInv, PollInv, OnMessageInv, Zenon DEF Next

LEMMA PageInvHolds == Spec => []PageInv
<1> QED
  BY InitInv, NextInv, PTL DEF Spec

-----------------------------------------------------------------------------
(* The table's state is well formed: every request in a slot is one of the *)
(* three the page sends and asks for a session, and every row and push is a*)
(* message with a number (Sessions.tsx:249-371).                           *)
THEOREM TypeCorrect == Spec => []TypeOK
BY PageInvHolds, PTL DEF PageInv

(* After the question of the user was answered, every row is one of the    *)
(* session above the table, whichever answers and pushes come late, as long*)
(* as no answer of the timer or the chart that belonged elsewhere has been *)
(* taken (Sessions.tsx:290-324,349-352,361-371).                           *)
THEOREM RowsRight == Spec => []RowsOfSelection
BY PageInvHolds, PTL DEF PageInv

(* The total never falls below the number of rows, in spite of the rows    *)
(* that pushes add and of answers of any age (Sessions.tsx:349-371,        *)
(* api.go:516-526).                                                        *)
THEOREM EveryRowCounted == Spec => []TotalCoversRows
BY PageInvHolds, PTL DEF PageInv

(* An answer of the table effect changes the table only while the question *)
(* that it answers is the one on the page: whichever runs of the effect are*)
(* under way, only the last is alive (Sessions.tsx:292,307,315,321-323).   *)
THEOREM TableAnswersRight == Spec => TableAnswersBelong
<1> DEFINE Right == \A k \in Slots :
              requests[k] # None /\ requests'[k] = None /\ requests[k].kind = "table"
              /\ <<rows', total'>> # <<rows, total>>
              => requests[k].question = question
<1>1. ASSUME PageInv, [Next]_vars PROVE [Right]_vars
  <2> SUFFICES ASSUME Next, NEW k \in Slots,
                      requests[k] # None, requests'[k] = None, requests[k].kind = "table",
                      <<rows', total'>> # <<rows, total>>
               PROVE  requests[k].question = question
    BY <1>1
  <2>1. requests' # requests
    OBVIOUS
  <2>2. PICK t \in Slots : Deliver(t)
    <3>1. \A q : Change(q) => UNCHANGED <<rows, total>>
      BY DEF Change
    <3>2. \A s : ~SelectSession(s)
      BY <3>1 DEF SelectSession
    <3>3. ~SetLive /\ ~SetRange
      BY <3>1 DEF SetLive, SetRange
    <3>4. \A f : ~ApplyFilters(f)
      BY <3>1 DEF ApplyFilters
    <3>5. \A p : ~SetPage(p) /\ ~SetPageSize(p)
      BY <3>1 DEF SetPage, SetPageSize
    <3>6. \A n : ~HandleBrush(n)
      BY DEF HandleBrush
    <3>7. ~Poll /\ ~OnMessage
      BY <2>1 DEF Poll, OnMessage
    <3>8. \A t : ~Serve(t) /\ ~Fail(t)
      BY DEF Serve, Fail
    <3>9. \A s : ~Receive(s)
      BY DEF Receive
    <3> QED
      BY <3>2, <3>3, <3>4, <3>5, <3>6, <3>7, <3>8, <3>9, Zenon DEF Next
  <2>3. requests' = Dropped(t) /\ Taken(requests[t])
    BY <2>2 DEF Deliver
  <2>4. t = k
    BY <1>1, <2>3 DEF PageInv, RequestsOK, Dropped
  <2> QED
    BY <1>1, <2>3, <2>4 DEF PageInv, TablesCurrent, Taken
<1>2. PageInv /\ [Next]_vars => [Right]_vars
  BY <1>1
<1> HIDE DEF Right
<1>3. Spec => [][Right]_vars
  BY <1>2, PageInvHolds, PTL DEF Spec
<1> QED
  BY <1>3 DEF TableAnswersBelong, Right
=============================================================================
