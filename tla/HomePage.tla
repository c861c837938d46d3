------------------------------ MODULE HomePage ------------------------------
(***************************************************************************)
(* The overview (src/views/src/pages/Home.tsx): cards and a chart for the  *)
(* last minutes or for a window of time, asked for again every three       *)
(* seconds.  A window is chosen by a selection in the chart or typed in.   *)
(* Answers are taken in whatever order they arrive.                        *)
(*                                                                         *)
(* An instant is a number of half minutes: the inputs hold whole minutes.  *)
(***************************************************************************)
EXTENDS Integers, MountedPage, PageServer

CONSTANTS
    Ranges,         \* the ranges offered, in seconds
    Instants        \* the instants a user can choose

ASSUME RangesAssumption == Ranges \subseteq Nat \ {0} /\ Ranges # {}

(* nsToDt: the input shows the minute.                                     *)
nsToDt(i) == i - (i % 2)

ASSUME InstantsAssumption ==
    Instants \subseteq Nat /\ \A i \in Instants : nsToDt(i) \in Instants

OnHome == On("home")

(* The state of the page when it is mounted: the first of the ranges.      *)
MountedHome ==
    [route |-> "home", range |-> Min(Ranges), custom |-> None,
     startInput |-> None, endInput |-> None, shown |-> None]

Window(start, end) == [start |-> start, end |-> end]

(* What the request asks for.                                              *)
opts(p) ==
    IF p.custom # None THEN <<"window", p.custom.start, p.custom.end>>
    ELSE <<"seconds", p.range>>

(* load, on mount, whenever the question changes, and by the timer.        *)
LoadRequest(p) == [kind |-> "overview", opts |-> opts(p), mounted |-> TRUE,
                   status |-> "sent", answer |-> None]

(* The state becomes p; a change of the question runs the effect.          *)
HomeBecomes(p) ==
    /\ page' = p
    /\ requests' = IF opts(p) # opts(page) THEN Put(requests, LoadRequest(p)) ELSE requests

HomeClick(p) == Free(requests) # {} /\ p # page /\ Click /\ HomeBecomes(p)

(* Mutation of HomeTimer: a window, which is over, is asked for once.      *)
HomeTimerLive ==
    /\ OnHome /\ Free(requests) # {} /\ page.custom = None
    /\ requests' = Put(requests, LoadRequest(page))
    /\ UNCHANGED <<page, clicks>>

HomeTimer ==
    /\ OnHome /\ Free(requests) # {}
    /\ requests' = Put(requests, LoadRequest(page))
    /\ UNCHANGED <<page, clicks>>

(* A selection from x0 to x1, drawn in either direction.                   *)
handleBrush(x0, x1) ==
    LET start == Min({x0, x1})
        end == Max({x0, x1})
    IN  /\ x0 # x1
        /\ HomeClick([page EXCEPT !.custom = Window(start, end),
                                  !.startInput = nsToDt(start), !.endInput = nsToDt(end)])

SetStart(i) == nsToDt(i) = i /\ HomeClick([page EXCEPT !.startInput = i])
SetEnd(i) == nsToDt(i) = i /\ HomeClick([page EXCEPT !.endInput = i])

applyCustom ==
    /\ page.startInput # None /\ page.endInput # None
    /\ page.startInput < page.endInput
    /\ HomeClick([page EXCEPT !.custom = Window(page.startInput, page.endInput)])

clearCustom ==
    page.custom # None /\ HomeClick([page EXCEPT !.custom = None, !.startInput = None,
                                                 !.endInput = None])

(* A chip: the inputs keep what they hold.                                 *)
SetRange(n) == HomeClick([page EXCEPT !.custom = None, !.range = n])

(* The answer to an overview request, whichever one it was.                *)
TakeOverview(k) ==
    /\ Answered(k) /\ requests[k].kind = "overview"
    /\ page' = [page EXCEPT !.shown = requests[k].answer]
    /\ requests' = Dropped(k)
    /\ UNCHANGED clicks

(* What the server answers.                                                *)
Overview(asked) == [opts |-> asked, sessions |-> stored]

ServeOverview(k) ==
    /\ Waiting(k) /\ requests[k].kind = "overview"
    /\ requests' = Answers(k, Overview(requests[k].opts))
    /\ UNCHANGED <<page, clicks>>

(* A failure is ignored.                                                   *)
OverviewFailed(k) ==
    /\ Refused(k) /\ requests[k].kind = "overview"
    /\ requests' = Dropped(k)
    /\ UNCHANGED <<page, clicks>>

HomeUser ==
    /\ OnHome
    /\ \/ \E x0, x1 \in Instants : handleBrush(x0, x1)
       \/ \E i \in Instants : SetStart(i) \/ SetEnd(i)
       \/ \E n \in Ranges : SetRange(n)
       \/ applyCustom \/ clearCustom
-----------------------------------------------------------------------------
HomeTypeOK ==
    /\ page.range \in Ranges
    /\ page.custom = None \/ page.custom \in [start : Instants, end : Instants]
    /\ {page.startInput, page.endInput} \subseteq Instants \cup {None}
=============================================================================
