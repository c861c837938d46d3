----------------------------- MODULE SessionPage -----------------------------
(***************************************************************************)
(* The page of a session's messages (src/views/src/pages/Sessions.tsx).    *)
(* The table is filled from four sides: the request that follows every     *)
(* change of the question, the requests of a timer, the request of a       *)
(* selection in the chart, and the messages the server pushes.  Answers    *)
(* come in any order and at any time; only those of the first kind are     *)
(* looked at before they are taken.                                        *)
(*                                                                         *)
(* A step is a callback of the page with the effects it leads to, or a step*)
(* of the server or the network.  Records of a session are numbered in the *)
(* order of their time; only those with an odd number match the filter.    *)
(***************************************************************************)
EXTENDS Naturals, Sequences, SequencesExt, PageRequests

CONSTANTS
    Sessions,       \* the sessions
    MaxRecords,     \* bound: how many messages the server receives
    PageSizes,      \* the page sizes offered
    LiveLimit,      \* how many messages a request without a range asks for
    MaxLive,        \* MAX_LIVE, how many rows the page keeps
    MaxClicks,      \* bound: how many times the user acts
    MaxFailures     \* bound: how many requests fail

ASSUME SessionsAssumption == Sessions # {} /\ None \notin Sessions
ASSUME LimitsAssumption ==
    /\ MaxRecords \in Nat /\ LiveLimit \in Nat \ {0} /\ MaxLive \in Nat \ {0}
    /\ PageSizes \subseteq Nat \ {0} /\ PageSizes # {}
    /\ MaxClicks \in Nat /\ MaxFailures \in Nat

Filters == {"all", "odd"}

VARIABLES
    count,          \* session -> how many messages the server has of it
    pushes,         \* the message events on their way to the page
    question,       \* [sel, live, range, filter, page, size]
    rows,           \* messages
    total,
    failures,       \* how many requests have failed
    astray,         \* history: did the rows come with an answer that did not
                    \* belong to the question?
    unanswered      \* history: has the question changed since the last answer
                    \* that belonged to it?

history == <<astray, unanswered>>
vars == <<count, pushes, question, rows, total, requests, clicks, failures, history>>

(* selSession, live, rangeSeconds > 0, filters, page and pageSize.         *)
Questions == [sel : Sessions \cup {None}, live : BOOLEAN, range : BOOLEAN,
              filter : Filters, page : 0..MaxRecords, size : PageSizes]

Message(s, i) == <<s, i>>
Messages == Sessions \X (Nat \ {0})

-----------------------------------------------------------------------------
(* The server: sessionMessages.                                            *)

(* filterRecords: the numbers up to n that the filter keeps, in order.     *)
Keeps(filter, n) ==
    IF filter = "all" THEN [i \in 1..n |-> i] ELSE [i \in 1..((n + 1) \div 2) |-> 2 * i - 1]

(* The messages up to number n, newest first.                              *)
Records(s, filter, n) ==
    LET kept == Keeps(filter, n)
    IN  [k \in DOMAIN kept |-> Message(s, kept[Len(kept) + 1 - k])]

(* Offset and limit.  An offset beyond the end gives the whole list.       *)
Slice(list, offset, limit) ==
    IF offset < Len(list) THEN SubSeq(list, offset + 1, Min({offset + limit, Len(list)}))
    ELSE list

(* What the server answers to getMessages, from its n messages.  A window  *)
(* of time holds the records up to number `upto`.                          *)
Answer(r, n) ==
    LET q == r.question
        list == Records(q.sel, q.filter, Min({n, r.upto}))
    IN  [total |-> Len(list),
         items |-> IF r.windowed THEN Slice(list, r.offset, q.size)
                   ELSE Slice(list, 0, LiveLimit)]

-----------------------------------------------------------------------------
(* The requests of the page.                                               *)

Request(kind, q, windowed, offset, upto) ==
    [kind |-> kind, question |-> q, windowed |-> windowed, offset |-> offset,
     upto |-> upto, alive |-> TRUE, status |-> "sent", answer |-> None]

(* Mutation of Asks: without a session all messages are asked for.         *)
AsksLive(q) == q.live

Asks(q) == q.live /\ q.sel # None

(* The cleanup of the table effect.                                        *)
Cleaned == [k \in Slots |->
    IF requests[k] # None /\ requests[k].kind = "table"
    THEN [requests[k] EXCEPT !.alive = FALSE] ELSE requests[k]]

(* The effect that fetches the table for the question q.                   *)
TableEffect(q, used) ==
    IF Asks(q) THEN Put(used, Request("table", q, q.range, q.page * q.size, MaxRecords))
    ELSE used

(* Init: the lists have arrived and a session was selected (SessionPicker),*)
(* so the effect has asked for its messages.                               *)
Init ==
    /\ count = [s \in Sessions |-> 0]
    /\ pushes = <<>>
    /\ question = [sel |-> CHOOSE s \in Sessions : TRUE, live |-> TRUE, range |-> FALSE,
                   filter |-> "all", page |-> 0, size |-> Min(PageSizes)]
    /\ rows = <<>>
    /\ total = 0
    /\ requests = TableEffect(question, [k \in Slots |-> None])
    /\ clicks = 0
    /\ failures = 0
    /\ astray = FALSE
    /\ unanswered = TRUE

Acts(n) == Cardinality(Free(requests)) >= n /\ ClickOf(MaxClicks)

(* The question becomes q, and the effect runs again.                      *)
Change(q) ==
    /\ q # question /\ Acts(1)
    /\ question' = q
    /\ requests' = TableEffect(q, Cleaned)
    /\ unanswered' = TRUE
    /\ UNCHANGED <<count, pushes, rows, total, failures, astray>>

(* Another session, or none: the page number stays what it is.             *)
SelectSession(s) == Change([question EXCEPT !.sel = s])

SetLive == Change([question EXCEPT !.live = ~@])

(* The chips choose a window of time; none of them leaves it again.        *)
SetRange == Change([question EXCEPT !.range = TRUE, !.page = 0])

ApplyFilters(f) == Change([question EXCEPT !.filter = f, !.page = 0])

(* The pages that the pagination offers are those of the total.            *)
Pages == (total + question.size - 1) \div question.size

SetPage(p) == p < Pages /\ Change([question EXCEPT !.page = p])

SetPageSize(n) == Change([question EXCEPT !.size = n, !.page = 0])

(* A selection in the chart: the messages up to number n are asked for with*)
(* the first page, and the effect runs if that was not the page shown.     *)
HandleBrush(n) ==
    LET q == [question EXCEPT !.page = 0]
        r == Request("brush", q, TRUE, 0, n)
    IN  /\ Asks(question) /\ Acts(2)
        /\ question' = q
        /\ IF q = question
           THEN requests' = Put(requests, r) /\ UNCHANGED unanswered
           ELSE requests' = TableEffect(q, Put(Cleaned, r)) /\ unanswered' = TRUE
        /\ UNCHANGED <<count, pushes, rows, total, failures, astray>>

(* Mutation of Poll: the timer asks with the filter of its first run.      *)
PollStale ==
    /\ Asks(question) /\ ~question.range /\ Free(requests) # {}
    /\ requests' = Put(requests,
            Request("poll", [question EXCEPT !.filter = "all"], FALSE, 0, MaxRecords))
    /\ UNCHANGED <<count, pushes, question, rows, total, clicks, failures, history>>

(* The timer of live mode.                                                 *)
Poll ==
    /\ Asks(question) /\ ~question.range /\ Free(requests) # {}
    /\ requests' = Put(requests, Request("poll", question, FALSE, 0, MaxRecords))
    /\ UNCHANGED <<count, pushes, question, rows, total, clicks, failures, history>>

-----------------------------------------------------------------------------
(* The answers.                                                            *)

(* The server answers from what it has at that moment.                     *)
Serve(k) ==
    /\ Waiting(k)
    /\ requests' = Answers(k, Answer(requests[k], count[requests[k].question.sel]))
    /\ UNCHANGED <<count, pushes, question, rows, total, clicks, failures, history>>

(* The request fails: every caller ignores it.                             *)
Fail(k) ==
    /\ Waiting(k) /\ failures < MaxFailures
    /\ failures' = failures + 1
    /\ requests' = Dropped(k)
    /\ UNCHANGED <<count, pushes, question, rows, total, clicks, history>>

(* Does the answer to r still belong to what the page shows?               *)
Belongs(r) ==
    /\ r.question.sel = question.sel /\ r.question.filter = question.filter
    /\ r.kind = "poll" => ~question.range

(* Mutation of Taken: the effect does not look whether it was cleaned up.  *)
TakenAnyway(r) == r.kind \in {"table", "poll", "brush"}

(* Only the answers of the table effect are looked at.                     *)
Taken(r) == r.kind = "table" => r.alive

Deliver(k) ==
    LET r == requests[k]
    IN  /\ Answered(k)
        /\ requests' = Dropped(k)
        /\ IF Taken(r)
           THEN /\ rows' = r.answer.items /\ total' = r.answer.total
                /\ astray' = ~Belongs(r)
                /\ unanswered' = (unanswered /\ ~Belongs(r))
           ELSE UNCHANGED <<rows, total, history>>
        /\ UNCHANGED <<count, pushes, question, clicks, failures>>

-----------------------------------------------------------------------------
(* The messages.                                                           *)

(* A message is stored; the hub may push it to the page: the connection may*)
(* be lost, or have the filter of an earlier selection.                    *)
Receive(s) ==
    /\ SumFunction(count) < MaxRecords
    /\ count' = [count EXCEPT ![s] = @ + 1]
    /\ \/ pushes' = Append(pushes, Message(s, count'[s]))
       \/ UNCHANGED pushes
    /\ UNCHANGED <<question, rows, total, requests, clicks, failures, history>>

(* Mutation of Shows: the session is not looked at.                        *)
ShowsAny(m) == question.live /\ ~question.range /\ question.filter = "all"

(* Is a pushed message shown?                                              *)
Shows(m) ==
    /\ question.live /\ ~question.range /\ question.filter = "all"
    /\ question.sel \in {None, m[1]}

(* Mutation of OnMessage: the total is left to the next poll.              *)
OnMessageNoTotal ==
    /\ pushes # <<>>
    /\ pushes' = Tail(pushes)
    /\ IF Shows(Head(pushes))
       THEN rows' = SubSeq(<<Head(pushes)>> \o rows, 1, Min({Len(rows) + 1, MaxLive}))
       ELSE UNCHANGED rows
    /\ UNCHANGED <<count, question, total, requests, clicks, failures, history>>

OnMessage ==
    /\ pushes # <<>>
    /\ pushes' = Tail(pushes)
    /\ IF Shows(Head(pushes))
       THEN /\ rows' = SubSeq(<<Head(pushes)>> \o rows, 1, Min({Len(rows) + 1, MaxLive}))
            /\ total' = total + 1
       ELSE UNCHANGED <<rows, total>>
    /\ UNCHANGED <<count, question, requests, clicks, failures, history>>

Next ==
    \/ \E s \in Sessions \cup {None} : SelectSession(s)
    \/ SetLive \/ SetRange
    \/ \E f \in Filters : ApplyFilters(f)
    \/ \E p \in 0..MaxRecords : SetPage(p)
    \/ \E n \in PageSizes : SetPageSize(n)
    \/ \E n \in 1..MaxRecords : HandleBrush(n)
    \/ Poll
    \/ \E k \in Slots : Serve(k) \/ Fail(k) \/ Deliver(k)
    \/ \E s \in Sessions : Receive(s)
    \/ OnMessage

Spec == Init /\ [][Next]_vars

(* The timer fires, the server answers, and what is on its way arrives.    *)
Fairness ==
    /\ WF_vars(Poll) /\ WF_vars(OnMessage)
    /\ \A k \in Slots : WF_vars(Serve(k)) /\ WF_vars(Deliver(k))

FairSpec == Spec /\ Fairness
-----------------------------------------------------------------------------
TypeOK ==
    /\ count \in [Sessions -> Nat]
    /\ pushes \in Seq(Messages)
    /\ question \in Questions
    /\ rows \in Seq(Messages)
    /\ total \in Nat
    /\ \A k \in Slots : requests[k] # None =>
           /\ requests[k].kind \in {"table", "poll", "brush"}
           /\ requests[k].question \in Questions /\ requests[k].question.sel # None
    /\ clicks \in 0..MaxClicks /\ failures \in 0..MaxFailures
    /\ astray \in BOOLEAN /\ unanswered \in BOOLEAN

(* An answer of the table effect is taken only while its question is the   *)
(* one on the page, whatever the user chose while it was under way         *)
(* (Sessions.tsx:292,307,315,321-323).                                     *)
TableAnswersBelong ==
    [][\A k \in Slots :
          requests[k] # None /\ requests'[k] = None /\ requests[k].kind = "table"
          /\ <<rows', total'>> # <<rows, total>>
          => requests[k].question = question]_vars

(* Once the question of a user has been answered, every row is one of the  *)
(* session above the table, also after late pushes of the session before;  *)
(* only an answer of the timer or the chart, which nobody looks at, can put*)
(* others there (Sessions.tsx:290-324,349-352,417-420,361-371).            *)
RowsOfSelection ==
    ~unanswered /\ ~astray /\ question.sel # None =>
        \A k \in DOMAIN rows : rows[k][1] = question.sel

(* The pagination never counts fewer messages than the table holds: every  *)
(* row can be reached (Sessions.tsx:349-371,674-685, api.go:516-526).      *)
TotalCoversRows == Len(rows) <= total

(* In live mode the table comes to show what the server has, and then keeps*)
(* showing it: answers that came late or in the wrong order, pushes of a   *)
(* message that an answer contained already, pushes that were lost and     *)
(* requests that failed are all made good (Sessions.tsx:337-359).          *)
Polling == Asks(question) /\ ~question.range

UpToDate ==
    LET now == Answer(Request("poll", question, FALSE, 0, MaxRecords), count[question.sel])
    IN  rows = now.items /\ total = now.total

CatchesUp == <>[](Polling => UpToDate)
=============================================================================
