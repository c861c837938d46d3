-------------------------------- MODULE Hub --------------------------------
(***************************************************************************)
(* The WebSocket hub (internal/hub): the set of connected browsers, a      *)
(* bounded queue of events for each, and the two goroutines of each        *)
(* connection.  readPump takes the subscriptions of the browser and        *)
(* notices that it is gone; writePump takes events from the queue and      *)
(* writes them.  The goroutines that publish never wait: a browser whose   *)
(* queue is full is unregistered, which closes the queue.                  *)
(*                                                                         *)
(* A step is a critical section of h.mu, or one operation on the queue, the*)
(* socket or the filter.  The queue is a Go channel: to close it twice, or *)
(* to send on it after that, is a panic; what it holds when it is closed   *)
(* can still be received.                                                  *)
(***************************************************************************)
EXTENDS Naturals, Sequences

CONSTANTS
    Browsers,       \* the WebSocket connections, each of which connects once
    Messages,       \* what may be published: [session, client]
    Filters,        \* what a browser may subscribe to: [session, client]
    Empty,          \* the empty string of a filter
    SendBuffer,     \* the capacity of a queue
    MaxEvents       \* bound: how many events are published

ASSUME SendBufferAssumption == SendBuffer \in Nat \ {0}
ASSUME MaxEventsAssumption == MaxEvents \in Nat
ASSUME FiltersAssumption == [session |-> Empty, client |-> Empty] \in Filters

VARIABLES
    clients,        \* h.clients
    filter,         \* browser -> what it subscribed to
    queue,          \* browser -> c.send
    closed,         \* browser -> has c.send been closed?
    reader,         \* browser -> where its readPump is
    writer,         \* browser -> where its writePump is
    hand,           \* browser -> the event that writePump is writing, if any
    socket,         \* browser -> is the server's end of the connection open?
    peer,           \* browser -> "away" (not yet connected), "here" or "gone"
    panicked,       \* has a channel been misused?
    sent,           \* how many events have been published
    published,      \* history: browser -> the events it was entitled to
    delivered       \* history: browser -> the events it received

channels == <<queue, closed, panicked>>
pumps == <<reader, writer, hand, socket>>
history == <<sent, published>>
vars == <<clients, filter, channels, pumps, peer, history, delivered>>

Everything == [session |-> Empty, client |-> Empty]

(* Events are told apart by their number.                                  *)
Events == 1..MaxEvents

Init ==
    /\ clients = {}
    /\ filter = [b \in Browsers |-> Everything]
    /\ queue = [b \in Browsers |-> <<>>]
    /\ closed = [b \in Browsers |-> FALSE]
    /\ reader = [b \in Browsers |-> "none"]
    /\ writer = [b \in Browsers |-> "none"]
    /\ hand = [b \in Browsers |-> <<>>]
    /\ socket = [b \in Browsers |-> "none"]
    /\ peer = [b \in Browsers |-> "away"]
    /\ panicked = FALSE
    /\ sent = 0
    /\ published = [b \in Browsers |-> <<>>]
    /\ delivered = [b \in Browsers |-> <<>>]

(* ServeWS.                                                                *)
Register(b) ==
    /\ peer[b] = "away"
    /\ peer' = [peer EXCEPT ![b] = "here"]
    /\ clients' = clients \cup {b}
    /\ socket' = [socket EXCEPT ![b] = "open"]
    /\ reader' = [reader EXCEPT ![b] = "reading"]
    /\ writer' = [writer EXCEPT ![b] = "waiting"]
    /\ UNCHANGED <<filter, channels, hand, history, delivered>>

-----------------------------------------------------------------------------
(* Publishing.                                                             *)

(* Mutations of Unregistered: the browser may have been unregistered       *)
(* already; the queue stays open.                                          *)
UnregisteredAgain(S, to) ==
    /\ clients' = clients \ S
    /\ closed' = [b \in Browsers |-> closed[b] \/ b \in S]
    /\ panicked' = (panicked \/ \E b \in S \cup to : closed[b])

UnregisteredOpen(S, to) == clients' = clients \ S /\ UNCHANGED <<closed, panicked>>

(* unregisterLocked for the browsers S, and a send to the browsers `to`.   *)
Unregistered(S, to) ==
    LET members == S \cap clients
    IN  /\ clients' = clients \ members
        /\ closed' = [b \in Browsers |-> closed[b] \/ b \in members]
        /\ panicked' = (panicked \/ \E b \in members \cup to : closed[b])

Full(b) == Len(queue[b]) >= SendBuffer

(* The loop over the browsers `to`: a select that sends or unregisters.  A *)
(* browser is entitled to the event if it is still registered after it.    *)
Publish(to) ==
    LET full == {b \in to : Full(b)}
    IN  /\ sent < MaxEvents
        /\ sent' = sent + 1
        /\ Unregistered(full, to \ full)
        /\ queue' = [b \in Browsers |->
                IF b \in to \ full THEN Append(queue[b], sent') ELSE queue[b]]
        /\ published' = [b \in Browsers |->
                IF b \in to /\ b \in clients' THEN Append(published[b], sent') ELSE published[b]]
        /\ UNCHANGED <<filter, pumps, peer, delivered>>

Matches(f, m) ==
    \/ f = Everything
    \/ f.session # Empty /\ f.session = m.session
    \/ f.client # Empty /\ f.client = m.client

SendMessage(m) == Publish({b \in clients : Matches(filter[b], m)})

Broadcast == Publish(clients)

-----------------------------------------------------------------------------
(* readPump.                                                               *)

(* A subscribe or unsubscribe message.                                     *)
ReadFilter(b, f) ==
    /\ reader[b] = "reading" /\ socket[b] = "open"
    /\ filter' = [filter EXCEPT ![b] = f]
    /\ UNCHANGED <<clients, channels, pumps, peer, history, delivered>>

(* The connection cannot be used any more.                                 *)
Broken(b) == peer[b] = "gone" \/ socket[b] = "closed"

(* The connection is closed, or the deadline of the pong has passed.       *)
ReadFails(b) ==
    /\ reader[b] = "reading" /\ Broken(b)
    /\ reader' = [reader EXCEPT ![b] = "unregister"]
    /\ UNCHANGED <<clients, filter, channels, writer, hand, socket, peer, history, delivered>>

Unregister(b) ==
    /\ reader[b] = "unregister"
    /\ reader' = [reader EXCEPT ![b] = "close"]
    /\ Unregistered({b}, {})
    /\ UNCHANGED <<filter, queue, writer, hand, socket, peer, history, delivered>>

CloseByReader(b) ==
    /\ reader[b] = "close"
    /\ reader' = [reader EXCEPT ![b] = "done"]
    /\ socket' = [socket EXCEPT ![b] = "closed"]
    /\ UNCHANGED <<clients, filter, channels, writer, hand, peer, history, delivered>>

-----------------------------------------------------------------------------
(* writePump.                                                              *)

(* Mutation of Take: nothing is received from a closed queue.              *)
TakeWhileOpen(b) ==
    /\ writer[b] = "waiting" /\ queue[b] # <<>> /\ ~closed[b]
    /\ writer' = [writer EXCEPT ![b] = "writing"]
    /\ hand' = [hand EXCEPT ![b] = <<Head(queue[b])>>]
    /\ queue' = [queue EXCEPT ![b] = Tail(@)]
    /\ UNCHANGED <<clients, filter, closed, panicked, reader, socket, peer, history, delivered>>

Take(b) ==
    /\ writer[b] = "waiting" /\ queue[b] # <<>>
    /\ writer' = [writer EXCEPT ![b] = "writing"]
    /\ hand' = [hand EXCEPT ![b] = <<Head(queue[b])>>]
    /\ queue' = [queue EXCEPT ![b] = Tail(@)]
    /\ UNCHANGED <<clients, filter, closed, panicked, reader, socket, peer, history, delivered>>

(* The write succeeds; what is written to a browser that is gone is lost.  *)
Write(b) ==
    /\ writer[b] = "writing" /\ socket[b] = "open"
    /\ writer' = [writer EXCEPT ![b] = "waiting"]
    /\ hand' = [hand EXCEPT ![b] = <<>>]
    /\ delivered' = IF peer[b] = "here"
                    THEN [delivered EXCEPT ![b] = @ \o hand[b]] ELSE delivered
    /\ UNCHANGED <<clients, filter, channels, reader, socket, peer, history>>

(* Mutation of WriteFails: an event that missed the deadline on its way is *)
(* written again.                                                          *)
WriteFailsRetries(b) ==
    /\ writer[b] = "writing" /\ socket[b] = "open" /\ peer[b] = "here"
    /\ delivered' = [delivered EXCEPT ![b] = @ \o hand[b]]
    /\ UNCHANGED <<clients, filter, channels, pumps, peer, history>>

(* A write or a ping fails, or takes longer than its deadline.             *)
WriteFails(b) ==
    /\ writer[b] \in {"writing", "waiting"}
    /\ writer' = [writer EXCEPT ![b] = "close"]
    /\ hand' = [hand EXCEPT ![b] = <<>>]
    /\ UNCHANGED <<clients, filter, channels, reader, socket, peer, history, delivered>>

(* The queue is closed and empty: writePump says goodbye and ends.         *)
SeesClosed(b) ==
    /\ writer[b] = "waiting" /\ queue[b] = <<>> /\ closed[b]
    /\ writer' = [writer EXCEPT ![b] = "close"]
    /\ UNCHANGED <<clients, filter, channels, reader, hand, socket, peer, history, delivered>>

CloseByWriter(b) ==
    /\ writer[b] = "close"
    /\ writer' = [writer EXCEPT ![b] = "done"]
    /\ socket' = [socket EXCEPT ![b] = "closed"]
    /\ UNCHANGED <<clients, filter, channels, reader, hand, peer, history, delivered>>

(* The browser is closed, or the network between is cut.                   *)
Vanish(b) ==
    /\ peer[b] = "here"
    /\ peer' = [peer EXCEPT ![b] = "gone"]
    /\ UNCHANGED <<clients, filter, channels, pumps, history, delivered>>

-----------------------------------------------------------------------------
ReadPump(b) ==
    \/ \E f \in Filters : ReadFilter(b, f)
    \/ ReadFails(b) \/ Unregister(b) \/ CloseByReader(b)

WritePump(b) ==
    Take(b) \/ Write(b) \/ WriteFails(b) \/ SeesClosed(b) \/ CloseByWriter(b)

Next ==
    \/ \E m \in Messages : SendMessage(m)
    \/ Broadcast
    \/ \E b \in Browsers : Register(b) \/ ReadPump(b) \/ WritePump(b) \/ Vanish(b)

Spec == Init /\ [][Next]_vars

(* Reading from a broken connection fails, at the latest when the deadline *)
(* of the pong passes; a write ends, at the latest at its deadline; and a  *)
(* goroutine that can go on does.                                          *)
ReadPumpGoesOn(b) == ReadFails(b) \/ Unregister(b) \/ CloseByReader(b)

WritePumpGoesOn(b) ==
    \/ Take(b)
    \/ writer[b] = "writing" /\ (Write(b) \/ WriteFails(b))
    \/ SeesClosed(b)
    \/ CloseByWriter(b)

Fairness ==
    \A b \in Browsers : WF_vars(ReadPumpGoesOn(b)) /\ WF_vars(WritePumpGoesOn(b))

FairSpec == Spec /\ Fairness
-----------------------------------------------------------------------------
TypeOK ==
    /\ clients \subseteq Browsers
    /\ filter \in [Browsers -> Filters]
    /\ queue \in [Browsers -> Seq(Events)]
    /\ \A b \in Browsers : Len(queue[b]) <= SendBuffer
    /\ closed \in [Browsers -> BOOLEAN]
    /\ reader \in [Browsers -> {"none", "reading", "unregister", "close", "done"}]
    /\ writer \in [Browsers -> {"none", "waiting", "writing", "close", "done"}]
    /\ hand \in [Browsers -> Seq(Events)]
    /\ socket \in [Browsers -> {"none", "open", "closed"}]
    /\ peer \in [Browsers -> {"away", "here", "gone"}]
    /\ panicked \in BOOLEAN
    /\ sent \in 0..MaxEvents
    /\ published \in [Browsers -> Seq(Events)]
    /\ delivered \in [Browsers -> Seq(Events)]

(* Whoever unregisters a browser first, its own readPump or a publisher    *)
(* that finds its queue full, the queue is closed once and no event is sent*)
(* on it afterwards (hub.go:69-77,97-101).                                 *)
NoPanic == ~panicked

(* As long as a browser and its writePump are there, every event it was    *)
(* entitled to is received, in hand or queued, in this order; a full queue *)
(* ends the connection instead of leaving a gap (hub.go:97-101,189-199).   *)
NothingLost ==
    \A b \in Browsers :
        peer[b] = "here" /\ writer[b] \in {"waiting", "writing"} =>
            published[b] = delivered[b] \o hand[b] \o queue[b]

(* A connection that is broken, or that the hub has let go of, is cleaned  *)
(* up: both goroutines end and the browser is unregistered, whichever of   *)
(* the two notices first (hub.go:145-149,183-188).                         *)
Released ==
    \A b \in Browsers :
        (Broken(b) \/ closed[b]) ~>
            (b \notin clients /\ reader[b] = "done" /\ writer[b] = "done")

(* A browser gets all it is entitled to unless its connection ends.        *)
Received ==
    \A b \in Browsers :
        (delivered[b] # published[b]) ~>
            (delivered[b] = published[b] \/ Broken(b) \/ writer[b] \in {"close", "done"})

(* The hub implements the feed.                                            *)
Gone == {b \in Browsers : peer[b] # "away" /\ b \notin clients}

EventFeed == INSTANCE Feed WITH connected <- clients, left <- Gone

ImplementsFeed == EventFeed!FeedSpec
=============================================================================
