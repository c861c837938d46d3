----------------------------- MODULE HubProofs -----------------------------
(***************************************************************************)
(* Theorems about the hub, for any browsers, filters, capacity and number  *)
(* of events.                                                              *)
(***************************************************************************)
EXTENDS Hub, SequenceTheorems, TLAPS

-----------------------------------------------------------------------------
(* Sequences.                                                              *)

(* Taking the head of the queue in hand leaves the whole unchanged.        *)
LEMMA TakeKeepsWhole ==
    ASSUME NEW S, NEW d \in Seq(S), NEW q \in Seq(S), q # <<>>
    PROVE  d \o <<>> \o q = d \o <<Head(q)>> \o Tail(q)
<1>1. <<Head(q)>> \o Tail(q) = q
  BY SMT
<1>2. Tail(q) \in Seq(S) /\ <<Head(q)>> \in Seq(S) /\ <<>> \in Seq(S)
  BY SMT
<1>3. d \o <<Head(q)>> \o Tail(q) = d \o (<<Head(q)>> \o Tail(q))
  BY <1>2, SMT
<1>4. d \o <<>> = d
  BY SMT
<1> QED
  BY <1>1, <1>3, <1>4

(* What is queued behind the whole is behind the whole.                    *)
LEMMA AppendToWhole ==
    \A d, h, q \in Seq(Events) : \A e \in Events :
        Append(d \o h \o q, e) = d \o h \o Append(q, e)
BY SMT

(* What is delivered leaves the hand.                                      *)
LEMMA DeliverKeepsWhole ==
    ASSUME NEW S, NEW d \in Seq(S), NEW h \in Seq(S), NEW q \in Seq(S)
    PROVE  d \o h \o q = (d \o h) \o <<>> \o q
<1>1. (d \o h) \in Seq(S)
  OBVIOUS
<1>2. (d \o h) \o <<>> = d \o h
  BY <1>1, SMT
<1> QED
  BY <1>2

(* The event in hand is the one that comes next.                           *)
LEMMA NextInHand ==
    ASSUME NEW S, NEW d \in Seq(S), NEW e \in S, NEW q \in Seq(S)
    PROVE  LET w == d \o <<e>> \o q
           IN  Len(d) + 1 <= Len(w) /\ w[Len(d) + 1] = e /\ d \o <<e>> = Append(d, e)
BY SMT

-----------------------------------------------------------------------------
(* The actions of Next, for the case distinctions below.                   *)

BrowserStep(b) ==
    \/ Register(b) \/ Vanish(b)
    \/ \E f \in Filters : ReadFilter(b, f)
    \/ ReadFails(b) \/ Unregister(b) \/ CloseByReader(b)
    \/ Take(b) \/ Write(b) \/ WriteFails(b) \/ SeesClosed(b) \/ CloseByWriter(b)

LEMMA NextCases ==
    ASSUME Next
    PROVE  (\E to \in SUBSET clients : Publish(to)) \/ (\E b \in Browsers : BrowserStep(b))
<1>1. ASSUME NEW m \in Messages, SendMessage(m)
      PROVE  \E to \in SUBSET clients : Publish(to)
  BY <1>1 DEF SendMessage
<1>2. ASSUME Broadcast PROVE \E to \in SUBSET clients : Publish(to)
  BY <1>2 DEF Broadcast
<1>3. ASSUME NEW b \in Browsers, Register(b) \/ ReadPump(b) \/ WritePump(b) \/ Vanish(b)
      PROVE  BrowserStep(b)
  BY <1>3 DEF ReadPump, WritePump, BrowserStep
<1>4. CASE \E m \in Messages : SendMessage(m)
  BY <1>4, <1>1
<1>5. CASE \E b \in Browsers : Register(b) \/ ReadPump(b) \/ WritePump(b) \/ Vanish(b)
  BY <1>5, <1>3
<1> QED
  BY <1>2, <1>4, <1>5 DEF Next

-----------------------------------------------------------------------------
(* The hub's variables keep their types; a queue never holds more than its *)
(* capacity (hub.go:97-101).                                               *)
THEOREM TypeCorrect == Spec => []TypeOK
<1>1. Init => TypeOK
  <2> SUFFICES ASSUME Init PROVE TypeOK
    OBVIOUS
  <2>1. <<>> \in Seq(Events) /\ Len(<<>>) <= SendBuffer
    BY SendBufferAssumption
  <2>2. /\ queue \in [Browsers -> Seq(Events)] /\ hand \in [Browsers -> Seq(Events)]
        /\ published \in [Browsers -> Seq(Events)] /\ delivered \in [Browsers -> Seq(Events)]
        /\ \A b \in Browsers : Len(queue[b]) <= SendBuffer
    BY <2>1 DEF Init
  <2>3. filter \in [Browsers -> Filters]
    BY FiltersAssumption DEF Init, Everything
  <2>4. sent \in 0..MaxEvents
    BY MaxEventsAssumption DEF Init
  <2> QED
    BY <2>2, <2>3, <2>4 DEF Init, TypeOK
<1>2. TypeOK /\ [Next]_vars => TypeOK'
  <2> SUFFICES ASSUME TypeOK, [Next]_vars PROVE TypeOK'
    OBVIOUS
  <2> USE SendBufferAssumption, MaxEventsAssumption
  <2> USE DEF TypeOK, channels, pumps, history
  <2>1. ASSUME NEW to \in SUBSET clients, Publish(to) PROVE TypeOK'
    <3>1. sent' \in Events /\ sent' \in 0..MaxEvents
      BY <2>1 DEF Publish, Events
    <3>2. /\ clients' \subseteq Browsers
          /\ closed' \in [Browsers -> BOOLEAN] /\ panicked' \in BOOLEAN
      BY <2>1 DEF Publish, Unregistered
    <3>3. /\ queue' \in [Browsers -> Seq(Events)]
          /\ \A b \in Browsers : Len(queue'[b]) <= SendBuffer
      BY <2>1, <3>1 DEF Publish, Full
    <3>4. published' \in [Browsers -> Seq(Events)]
      BY <2>1, <3>1 DEF Publish
    <3> QED
      BY <2>1, <3>1, <3>2, <3>3, <3>4 DEF Publish
  <2>2. ASSUME NEW b \in Browsers, Register(b) \/ Vanish(b) PROVE TypeOK'
    BY <2>2 DEF Register, Vanish
  <2>3. ASSUME NEW b \in Browsers, NEW f \in Filters, ReadFilter(b, f) PROVE TypeOK'
    BY <2>3 DEF ReadFilter
  <2>4. ASSUME NEW b \in Browsers, ReadFails(b) \/ CloseByReader(b) PROVE TypeOK'
    BY <2>4 DEF ReadFails, CloseByReader
  <2>5. ASSUME NEW b \in Browsers, Unregister(b) PROVE TypeOK'
    BY <2>5 DEF Unregister, Unregistered
  <2>6. ASSUME NEW b \in Browsers, Take(b) PROVE TypeOK'
    BY <2>6 DEF Take
  <2>7. ASSUME NEW b \in Browsers, Write(b) PROVE TypeOK'
    BY <2>7 DEF Write
  <2>8. ASSUME NEW b \in Browsers, WriteFails(b) \/ SeesClosed(b) \/ CloseByWriter(b)
        PROVE TypeOK'
    <3>1. CASE WriteFails(b)
      <4>1. <<>> \in Seq(Events)
        OBVIOUS
      <4> QED
        BY <3>1, <4>1 DEF WriteFails
    <3>2. CASE SeesClosed(b)
      BY <3>2 DEF SeesClosed
    <3>3. CASE CloseByWriter(b)
      BY <3>3 DEF CloseByWriter
    <3> QED
      BY <2>8, <3>1, <3>2, <3>3
  <2>9. CASE UNCHANGED vars
    BY <2>9 DEF vars
  <2> QED
    BY <2>1, <2>2, <2>3, <2>4, <2>5, <2>6, <2>7, <2>8, <2>9, NextCases DEF BrowserStep
<1> QED
  BY <1>1, <1>2, PTL DEF Spec

-----------------------------------------------------------------------------
(* The inductive invariant.  A browser that has not connected has no       *)
(* goroutines and no events; a queue is closed exactly when its browser is *)
(* no longer registered; writePump has an event in hand only while it      *)
(* writes.                                                                 *)
AwayInv ==
    \A b \in Browsers : peer[b] = "away" =>
        /\ b \notin clients
        /\ reader[b] = "none" /\ writer[b] = "none"
        /\ queue[b] = <<>> /\ hand[b] = <<>>
        /\ published[b] = <<>> /\ delivered[b] = <<>>

ChannelInv ==
    /\ \A b \in Browsers : closed[b] <=> peer[b] # "away" /\ b \notin clients
    /\ ~panicked

HandInv ==
    \A b \in Browsers :
        IF writer[b] = "writing" THEN \E e \in Events : hand[b] = <<e>>
                                 ELSE hand[b] = <<>>

HubInv == AwayInv /\ ChannelInv /\ HandInv /\ NothingLost

LEMMA AwayStep ==
    ASSUME TypeOK, AwayInv, [Next]_vars PROVE AwayInv'
<1> USE DEF TypeOK, AwayInv, channels, pumps, history
<1>1. ASSUME NEW to \in SUBSET clients, Publish(to) PROVE AwayInv'
  BY <1>1 DEF Publish, Unregistered
<1>2. ASSUME NEW b \in Browsers, BrowserStep(b) PROVE AwayInv'
  <2>1. CASE Register(b) \/ Vanish(b)
    BY <2>1 DEF Register, Vanish
  <2>2. CASE (\E f \in Filters : ReadFilter(b, f)) \/ ReadFails(b) \/ CloseByReader(b)
    BY <2>2 DEF ReadFilter, ReadFails, CloseByReader
  <2>3. CASE Unregister(b)
    BY <2>3 DEF Unregister, Unregistered
  <2>4. CASE Take(b) \/ SeesClosed(b) \/ CloseByWriter(b)
    BY <2>4 DEF Take, SeesClosed, CloseByWriter
  <2>5. CASE Write(b) \/ WriteFails(b)
    BY <2>5 DEF Write, WriteFails
  <2> QED
    BY <1>2, <2>1, <2>2, <2>3, <2>4, <2>5 DEF BrowserStep
<1>3. CASE UNCHANGED vars
  BY <1>3 DEF vars
<1> QED
  BY <1>1, <1>2, <1>3, NextCases

LEMMA ChannelStep ==
    ASSUME TypeOK, AwayInv, ChannelInv, [Next]_vars PROVE ChannelInv'
<1> USE DEF TypeOK, AwayInv, ChannelInv, channels, pumps, history
<1>1. ASSUME NEW to \in SUBSET clients, Publish(to) PROVE ChannelInv'
  BY <1>1 DEF Publish, Unregistered
<1>2. ASSUME NEW b \in Browsers, BrowserStep(b) PROVE ChannelInv'
  <2>1. CASE Register(b) \/ Vanish(b)
    BY <2>1 DEF Register, Vanish
  <2>2. CASE (\E f \in Filters : ReadFilter(b, f)) \/ ReadFails(b) \/ CloseByReader(b)
    BY <2>2 DEF ReadFilter, ReadFails, CloseByReader
  <2>3. CASE Unregister(b)
    BY <2>3 DEF Unregister, Unregistered
  <2>4. CASE Take(b) \/ SeesClosed(b) \/ CloseByWriter(b)
    BY <2>4 DEF Take, SeesClosed, CloseByWriter
  <2>5. CASE Write(b) \/ WriteFails(b)
    BY <2>5 DEF Write, WriteFails
  <2> QED
    BY <1>2, <2>1, <2>2, <2>3, <2>4, <2>5 DEF BrowserStep
<1>3. CASE UNCHANGED vars
  BY <1>3 DEF vars
<1> QED
  BY <1>1, <1>2, <1>3, NextCases

LEMMA HandStep ==
    ASSUME TypeOK, AwayInv, HandInv, [Next]_vars PROVE HandInv'
<1> USE DEF TypeOK, HandInv, channels, pumps, history
<1>1. ASSUME NEW to \in SUBSET clients, Publish(to) PROVE HandInv'
  BY <1>1 DEF Publish
<1>2. ASSUME NEW b \in Browsers, BrowserStep(b) PROVE HandInv'
  <2>1. CASE Register(b) \/ Vanish(b)
    BY <2>1 DEF Register, Vanish, AwayInv
  <2>2. CASE (\E f \in Filters : ReadFilter(b, f)) \/ ReadFails(b) \/ CloseByReader(b)
    BY <2>2 DEF ReadFilter, ReadFails, CloseByReader
  <2>3. CASE Unregister(b)
    BY <2>3 DEF Unregister
  <2>4. CASE Take(b)
    <3>1. Head(queue[b]) \in Events
      BY <2>4 DEF Take
    <3> QED
      BY <2>4, <3>1 DEF Take
  <2>5. CASE SeesClosed(b) \/ CloseByWriter(b)
    BY <2>5 DEF SeesClosed, CloseByWriter
  <2>6. CASE Write(b) \/ WriteFails(b)
    BY <2>6 DEF Write, WriteFails
  <2> QED
    BY <1>2, <2>1, <2>2, <2>3, <2>4, <2>5, <2>6 DEF BrowserStep
<1>3. CASE UNCHANGED vars
  BY <1>3 DEF vars
<1> QED
  BY <1>1, <1>2, <1>3, NextCases

LEMMA WholeStep ==
    ASSUME TypeOK, AwayInv, ChannelInv, HandInv, NothingLost, [Next]_vars
    PROVE  NothingLost'
<1> USE DEF TypeOK, NothingLost, channels, pumps, history
<1>1. ASSUME NEW to \in SUBSET clients, Publish(to) PROVE NothingLost'
  <2> DEFINE full == {b \in to : Full(b)}
  <2>1. sent' \in Events
    BY <1>1, MaxEventsAssumption DEF Publish, Events
  <2>2. \A b \in Browsers : b \in to /\ b \in clients' <=> b \in to \ full
    BY <1>1 DEF Publish, Unregistered
  <2>3. ASSUME NEW b \in Browsers, b \in to \ full,
               peer[b] = "here", writer[b] \in {"waiting", "writing"}
        PROVE  published'[b] = delivered'[b] \o hand'[b] \o queue'[b]
    <3>1. /\ published'[b] = Append(published[b], sent')
          /\ queue'[b] = Append(queue[b], sent')
          /\ delivered' = delivered /\ hand' = hand
      BY <1>1, <2>2, <2>3 DEF Publish
    <3>2. published[b] = delivered[b] \o hand[b] \o queue[b]
      BY <2>3
    <3>3. /\ delivered[b] \in Seq(Events) /\ hand[b] \in Seq(Events)
          /\ queue[b] \in Seq(Events)
      BY <2>3
    <3>4. Append(delivered[b] \o hand[b] \o queue[b], sent')
            = delivered[b] \o hand[b] \o Append(queue[b], sent')
      BY <3>3, <2>1, AppendToWhole
    <3> QED
      BY <3>1, <3>2, <3>4
  <2>4. ASSUME NEW b \in Browsers, b \notin to \ full,
               peer[b] = "here", writer[b] \in {"waiting", "writing"}
        PROVE  published'[b] = delivered'[b] \o hand'[b] \o queue'[b]
    BY <1>1, <2>2, <2>4 DEF Publish
  <2> QED
    BY <1>1, <2>3, <2>4 DEF Publish
<1>2. ASSUME NEW b \in Browsers, BrowserStep(b) PROVE NothingLost'
  <2>1. CASE Register(b)
    <3>1. published[b] = delivered[b] \o hand[b] \o queue[b]
      BY <2>1 DEF Register, AwayInv
    <3> QED
      BY <2>1, <3>1 DEF Register
  <2>2. CASE Vanish(b)
    BY <2>2 DEF Vanish
  <2>3. CASE (\E f \in Filters : ReadFilter(b, f)) \/ ReadFails(b) \/ CloseByReader(b)
    BY <2>3 DEF ReadFilter, ReadFails, CloseByReader
  <2>4. CASE Unregister(b)
    BY <2>4 DEF Unregister
  <2>5. CASE Take(b)
    <3>1. hand[b] = <<>>
      BY <2>5 DEF Take, HandInv
    <3>2. delivered[b] \o <<>> \o queue[b] = delivered[b] \o <<Head(queue[b])>> \o Tail(queue[b])
      BY <2>5, TakeKeepsWhole DEF Take
    <3>3. peer[b] = "here" => published[b] = delivered[b] \o hand'[b] \o queue'[b]
      BY <2>5, <3>1, <3>2 DEF Take
    <3> QED
      BY <2>5, <3>3 DEF Take
  <2>6. CASE Write(b)
    <3>1. peer[b] = "here" => published[b] = delivered'[b] \o hand'[b] \o queue'[b]
      BY <2>6, DeliverKeepsWhole DEF Write
    <3> QED
      BY <2>6, <3>1 DEF Write
  <2>7. CASE WriteFails(b) \/ SeesClosed(b) \/ CloseByWriter(b)
    BY <2>7 DEF WriteFails, SeesClosed, CloseByWriter
  <2> QED
    BY <1>2, <2>1, <2>2, <2>3, <2>4, <2>5, <2>6, <2>7 DEF BrowserStep
<1>3. CASE UNCHANGED vars
  BY <1>3 DEF vars
<1> QED
  BY <1>1, <1>2, <1>3, NextCases

LEMMA HubInvHolds == Spec => []HubInv
<1>1. Init => HubInv
  BY DEF Init, HubInv, AwayInv, ChannelInv, HandInv, NothingLost
<1>2. TypeOK /\ HubInv /\ [Next]_vars => HubInv'
  BY AwayStep, ChannelStep, HandStep, WholeStep DEF HubInv
<1> QED
  BY <1>1, <1>2, TypeCorrect, PTL DEF Spec

-----------------------------------------------------------------------------
(* No queue is closed twice and nothing is sent on a closed queue, whoever *)
(* unregisters a browser and when (hub.go:69-77,97-101).                   *)
THEOREM ChannelsUsedWell == Spec => []NoPanic
<1>1. HubInv => NoPanic
  BY DEF HubInv, ChannelInv, NoPanic
<1> QED
  BY <1>1, HubInvHolds, PTL

(* What a browser was entitled to is received, in hand or queued, in order,*)
(* as long as the browser and its writePump are there (hub.go:189-199).    *)
THEOREM EventsKept == Spec => []NothingLost
<1>1. HubInv => NothingLost
  BY DEF HubInv
<1> QED
  BY <1>1, HubInvHolds, PTL

-----------------------------------------------------------------------------
(* The refinement.                                                         *)

LEMMA PublishIsFeedStep ==
    ASSUME TypeOK, HubInv, NEW to \in SUBSET clients, Publish(to)
    PROVE  EventFeed!FeedNext
<1> DEFINE full == {b \in to : Full(b)}
<1> USE DEF TypeOK, channels, pumps, history
<1>1. sent' \in Events
  BY MaxEventsAssumption DEF Publish, Events
<1>2. to \ full \in SUBSET Browsers /\ full \in SUBSET Browsers
  OBVIOUS
<1>3. clients' = clients \ full
  BY DEF Publish, Unregistered
<1>4. Gone' = Gone \cup full
  BY <1>3 DEF Gone, Publish, HubInv, AwayInv
<1>5. published' = [b \in Browsers |->
          IF b \in to \ full THEN Append(published[b], sent') ELSE published[b]]
  <2>1. \A b \in Browsers : b \in to /\ b \in clients' <=> b \in to \ full
    BY <1>3
  <2> QED
    BY <2>1 DEF Publish
<1>6. delivered' = delivered
  BY DEF Publish
<1>7. to \ full \subseteq clients \ full /\ full \subseteq clients
  OBVIOUS
<1>8. EventFeed!Publish(sent', to \ full, full)
  BY <1>3, <1>4, <1>5, <1>6, <1>7 DEF EventFeed!Publish
<1> QED
  BY <1>1, <1>2, <1>8 DEF EventFeed!FeedNext

LEMMA WriteIsFeedStep ==
    ASSUME TypeOK, HubInv, NEW b \in Browsers, Write(b)
    PROVE  EventFeed!FeedNext \/ UNCHANGED EventFeed!feedVars
<1> USE DEF TypeOK, channels, pumps, history
<1>1. Gone' = Gone /\ clients' = clients /\ published' = published
  BY DEF Write, Gone
<1>2. CASE peer[b] = "here"
  <2>1. PICK e \in Events : hand[b] = <<e>>
    BY DEF HubInv, HandInv, Write
  <2>2. published[b] = delivered[b] \o <<e>> \o queue[b]
    BY <1>2, <2>1 DEF HubInv, NothingLost, Write
  <2>3. delivered[b] \in Seq(Events) /\ queue[b] \in Seq(Events)
    OBVIOUS
  <2>4. /\ Len(delivered[b]) + 1 <= Len(published[b])
        /\ published[b][Len(delivered[b]) + 1] = e
        /\ delivered[b] \o <<e>> = Append(delivered[b], e)
    BY <2>2, <2>3, NextInHand
  <2>5. delivered' = [delivered EXCEPT ![b] = Append(@, e)]
    BY <1>2, <2>1, <2>4 DEF Write
  <2>6. EventFeed!Deliver(b)
    BY <1>1, <2>4, <2>5 DEF EventFeed!Deliver
  <2> QED
    BY <2>6 DEF EventFeed!FeedNext
<1>3. CASE peer[b] # "here"
  BY <1>1, <1>3 DEF Write, EventFeed!feedVars
<1> QED
  BY <1>2, <1>3

(* The hub implements the feed: a browser receives the events it is        *)
(* entitled to in order, each once and without a gap, up to some point,    *)
(* and nothing is published to it once it is unregistered (hub.go:69-122). *)
THEOREM FeedImplemented == Spec => ImplementsFeed
<1>1. Init => EventFeed!FeedInit
  BY DEF Init, EventFeed!FeedInit, Gone
<1>2. ASSUME TypeOK, HubInv, [Next]_vars PROVE [EventFeed!FeedNext]_(EventFeed!feedVars)
  <2> USE DEF EventFeed!feedVars, channels, pumps, history
  <2>1. ASSUME NEW to \in SUBSET clients, Publish(to) PROVE EventFeed!FeedNext
    BY <1>2, <2>1, PublishIsFeedStep
  <2>2. ASSUME NEW b \in Browsers, BrowserStep(b)
        PROVE  EventFeed!FeedNext \/ UNCHANGED EventFeed!feedVars
    <3>1. CASE Register(b)
      <4>1. b \notin clients \cup Gone /\ Gone' = Gone
        BY <1>2, <3>1 DEF Register, Gone, HubInv, AwayInv, TypeOK
      <4>2. EventFeed!Join(b)
        BY <3>1, <4>1 DEF Register, EventFeed!Join
      <4> QED
        BY <4>2 DEF EventFeed!FeedNext
    <3>2. CASE Unregister(b)
      <4>1. CASE b \in clients
        <5>1. clients' = clients \ {b}
          BY <3>2, <4>1 DEF Unregister, Unregistered
        <5>2. Gone' = Gone \cup {b}
          BY <1>2, <3>2, <4>1, <5>1 DEF Unregister, Gone, HubInv, AwayInv
        <5>3. EventFeed!Leave(b)
          BY <3>2, <4>1, <5>1, <5>2 DEF Unregister, EventFeed!Leave
        <5> QED
          BY <5>3 DEF EventFeed!FeedNext
      <4>2. CASE b \notin clients
        BY <3>2, <4>2 DEF Unregister, Unregistered, Gone
      <4> QED
        BY <4>1, <4>2
    <3>3. CASE Write(b)
      BY <1>2, <3>3, WriteIsFeedStep
    <3>4. CASE Vanish(b)
      BY <1>2, <3>4 DEF Vanish, Gone, TypeOK
    <3>5. CASE (\E f \in Filters : ReadFilter(b, f)) \/ ReadFails(b) \/ CloseByReader(b)
      BY <3>5 DEF ReadFilter, ReadFails, CloseByReader, Gone
    <3>6. CASE Take(b) \/ WriteFails(b) \/ SeesClosed(b) \/ CloseByWriter(b)
      BY <3>6 DEF Take, WriteFails, SeesClosed, CloseByWriter, Gone
    <3> QED
      BY <2>2, <3>1, <3>2, <3>3, <3>4, <3>5, <3>6 DEF BrowserStep
  <2>3. CASE UNCHANGED vars
    BY <2>3 DEF vars, Gone
  <2> QED
    BY <1>2, <2>1, <2>2, <2>3, NextCases
<1> QED
  BY <1>1, <1>2, TypeCorrect, HubInvHolds, PTL DEF Spec, ImplementsFeed, EventFeed!FeedSpec
=============================================================================
