-------------------------------- MODULE Feed --------------------------------
(***************************************************************************)
(* What the hub promises a browser.  While it is connected, events are     *)
(* published to it; it receives them in that order, each once and without  *)
(* a gap; and once the hub lets go of it nothing more is published.  How   *)
(* events are queued, who notices that a browser is gone, and how far a    *)
(* browser gets are left open.                                             *)
(***************************************************************************)
EXTENDS Naturals, Sequences

CONSTANTS
    Browsers,
    Events

VARIABLES
    connected,      \* the browsers that events may be published to
    left,           \* those that the hub has let go of
    published,      \* browser -> the events published to it
    delivered       \* browser -> the events it has received

feedVars == <<connected, left, published, delivered>>

FeedInit ==
    /\ connected = {} /\ left = {}
    /\ published = [b \in Browsers |-> <<>>]
    /\ delivered = [b \in Browsers |-> <<>>]

Join(b) ==
    /\ b \notin connected \cup left
    /\ connected' = connected \cup {b}
    /\ UNCHANGED <<left, published, delivered>>

(* An event goes to some of the browsers; some others are let go.          *)
Publish(e, to, dropped) ==
    /\ to \subseteq connected \ dropped
    /\ dropped \subseteq connected
    /\ published' = [b \in Browsers |->
            IF b \in to THEN Append(published[b], e) ELSE published[b]]
    /\ connected' = connected \ dropped
    /\ left' = left \cup dropped
    /\ UNCHANGED delivered

Leave(b) ==
    /\ b \in connected
    /\ connected' = connected \ {b}
    /\ left' = left \cup {b}
    /\ UNCHANGED <<published, delivered>>

(* The next event that the browser has not received.                       *)
Deliver(b) ==
    LET n == Len(delivered[b]) + 1
    IN  /\ n <= Len(published[b])
        /\ delivered' = [delivered EXCEPT ![b] = Append(@, published[b][n])]
        /\ UNCHANGED <<connected, left, published>>

FeedNext ==
    \/ \E b \in Browsers : Join(b) \/ Leave(b) \/ Deliver(b)
    \/ \E e \in Events, to, dropped \in SUBSET Browsers : Publish(e, to, dropped)

FeedSpec == FeedInit /\ [][FeedNext]_feedVars
=============================================================================
