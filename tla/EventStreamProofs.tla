------------------------- MODULE EventStreamProofs --------------------------
(***************************************************************************)
(* What the event bus and the stream to a client guarantee for any number  *)
(* of emitting threads, listeners, events and connections, and any         *)
(* capacity of the broadcast channel; and that the stream implements the   *)
(* event log.                                                              *)
(***************************************************************************)
EXTENDS EventStream, SequenceTheorems, FiniteSetTheorems, TLAPS

-----------------------------------------------------------------------------
(* The inductive invariants.                                               *)

\* Nothing is ahead of the history, and no receiver ahead of the broadcasts.
BusBounds ==
  /\ TypeOK
  /\ \A i \in 1..Len(sent) : sent[i] < history
  /\ \A e \in Emitters : stage[e] # "idle" => holding[e] < history
  /\ \A s \in Subscribers :
       /\ cursor[s] <= Len(sent)
       /\ next[s] <= history
       /\ start[s] <= history
       /\ \A i \in 1..Len(seen[s]) : seen[s][i] < history

SeenBy(s, n) == \E i \in 1..Len(seen[s]) : seen[s][i] = n

\* The broadcast of n is ahead of the receiver, which will take it.
Queued(s, n) == n >= next[s] /\ \E j \in (cursor[s] + 1)..Len(sent) : sent[j] = n

\* A later event has been broadcast.
Passed(n) == \E i \in 1..Len(sent) : sent[i] > n

\* An emitter has pushed n and not broadcast it yet: the receiver will take
\* it, or its broadcast will come after that of a later event.
InHand(s, n) ==
  \E e \in Emitters : stage[e] # "idle" /\ holding[e] = n /\ (n >= next[s] \/ Passed(n))

\* Every event a live subscriber should handle is handled, overtaken or on its
\* way.
Accounted(s) ==
  phase[s] = "live" =>
    \A n \in start[s]..(history - 1) :
      SeenBy(s, n) \/ Overtaken(n) \/ Queued(s, n) \/ InHand(s, n)

BusInv == BusBounds /\ \A s \in Subscribers : Accounted(s)

\* The events a message on the outgoing queue carries.
Carries(m, n) == m = <<"event", n>> \/ (m[1] = "events" /\ \E i \in 1..Len(m[2]) : m[2][i] = n)

OnItsWay(n) == \E k \in 1..Len(out) : Carries(out[k], n)

\* A backlog is a stretch of the history, in order.
Stretch(events) ==
  /\ \A i \in 1..Len(events) : events[i] < history
  /\ \A i, j \in 1..Len(events) : i < j => events[i] < events[j]

\* What the client has shown is below its cursor, which is within the history.
CursorOK ==
  /\ resume <= history /\ from <= resume
  /\ \A i \in 1..Len(transcript) : transcript[i] < resume

\* A message to the client is about events there are; auth_ok is the first one.
MailOK ==
  \A k \in 1..Len(out) :
    /\ out[k][1] = "event" => out[k][2] < history
    /\ out[k][1] = "events" => Stretch(out[k][2])
    /\ out[k] = <<"auth_ok">> => k = 1 /\ link = "authenticating"

\* Before the pump starts the connection is silent; the client has asked at
\* most once, after auth_ok.
HandshakeOK ==
  /\ asked # <<>> => asked = <<from>> /\ link = "ready"
  /\ link = "down" => phase[Conn] = "off"
  /\ phase[Conn] # "live" => out = <<>> /\ link \in {"down", "authenticating"}

ClientBounds == StreamTypeOK /\ CursorOK /\ MailOK /\ HandshakeOK

\* The terminal client is past an event, the graphical one holds it.
Got(n) == IF kind = "tui" THEN n < resume ELSE Has(n)

\* What the pump has handled has arrived or is on its way, and so has, once the
\* request has been served, what there was when the pump started.
Delivered ==
  phase[Conn] = "live" =>
    /\ \A i \in 1..Len(seen[Conn]) : Got(seen[Conn][i]) \/ OnItsWay(seen[Conn][i])
    /\ link = "ready" /\ asked = <<>> =>
         \A n \in from..(start[Conn] - 1) : Got(n) \/ OnItsWay(n)

StreamInv == BusInv /\ ClientBounds /\ Delivered

-----------------------------------------------------------------------------
(* The bus stays within its bounds.                                        *)

\* A function on 1..n is a sequence.
LEMMA ListIsSeq ==
  ASSUME NEW T, NEW n \in Nat, NEW f \in [1..n -> T]
  PROVE  f \in Seq(T) /\ Len(f) = n
<1>1. f \in Seq(T)
  BY SeqDef, Zenon
<1>2. DOMAIN f = 1..n
  BY Zenon
<1> QED
  BY <1>1, <1>2, LenProperties

\* EventBus::since returns the history from an event on, in order.
LEMMA SinceProperties ==
  ASSUME NEW f \in Nat, history \in 0..MaxEvents, f <= history
  PROVE  /\ Since(f) \in Seq(0..MaxEvents)
         /\ Len(Since(f)) = history - f
         /\ \A k \in 1..(history - f) : Since(f)[k] = f + k - 1
<1>1. history - f \in Nat
  BY BusAssumption
<1>2. Since(f) \in [1..(history - f) -> 0..MaxEvents]
  BY <1>1, BusAssumption DEF Since
<1>3. Since(f) \in Seq(0..MaxEvents) /\ Len(Since(f)) = history - f
  BY <1>1, <1>2, ListIsSeq, Zenon
<1> QED
  BY <1>3, Zenon DEF Since

\* emit pushes an event.
LEMMA PushBounds ==
  ASSUME BusBounds, NEW e \in Emitters, Push(e)
  PROVE  BusBounds'
<1> USE BusAssumption DEF Push, subVars, BusBounds, TypeOK
<1>1. history \in Nat /\ history' = history + 1 /\ history' \in 0..MaxEvents
  OBVIOUS
<1>2. stage' \in [Emitters -> {"idle", "journal", "send"}] /\ holding' \in [Emitters -> Nat]
  BY <1>1, Zenon
<1>3. \A i \in 1..Len(sent') : sent'[i] < history'
  BY <1>1, ElementOfSeq
<1>4. \A d \in Emitters : stage'[d] # "idle" => holding'[d] < history'
  BY <1>1
<1>5. \A s \in Subscribers :
        /\ cursor'[s] <= Len(sent') /\ next'[s] <= history' /\ start'[s] <= history'
        /\ \A i \in 1..Len(seen'[s]) : seen'[s][i] < history'
  <2> TAKE s \in Subscribers
  <2>1. next[s] \in Nat /\ start[s] \in Nat
    OBVIOUS
  <2>2. ASSUME NEW i \in 1..Len(seen'[s]) PROVE seen'[s][i] < history'
    <3>1. seen[s] \in Seq(0..MaxEvents) /\ seen[s][i] < history
      BY <2>2, Zenon
    <3>2. seen[s][i] \in Nat
      BY <2>2, <3>1, ElementOfSeq
    <3> QED
      BY <1>1, <3>1, <3>2
  <2> QED
    BY <1>1, <2>1, <2>2
<1> QED
  BY <1>1, <1>2, <1>3, <1>4, <1>5, Zenon

\* emit journals and broadcasts what it has pushed.
LEMMA PublishBounds ==
  ASSUME BusBounds, NEW e \in Emitters, Journal(e) \/ Send(e)
  PROVE  BusBounds'
<1> USE DEF subVars, BusBounds, TypeOK
<1>1. holding[e] \in Nat /\ holding[e] < history
  BY Zenon DEF Journal, Send
<1>2. CASE Journal(e)
  <2>1. journal' \in Seq(Nat)
    BY <1>1, <1>2, AppendProperties, Zenon DEF Journal
  <2> QED
    BY <1>2, <2>1, Zenon DEF Journal
<1>3. CASE Send(e)
  <2>1. /\ sent' \in Seq(Nat) /\ Len(sent') = Len(sent) + 1 /\ Len(sent) \in Nat
        /\ \A i \in 1..Len(sent) : sent'[i] = sent[i]
        /\ sent'[Len(sent) + 1] = holding[e]
    BY <1>1, <1>3, AppendProperties, LenProperties DEF Send
  <2>2. \A i \in 1..Len(sent') : sent'[i] < history'
    BY <1>1, <1>3, <2>1 DEF Send
  <2> QED
    BY <1>3, <2>1, <2>2 DEF Send
<1> QED
  BY <1>2, <1>3, Zenon

\* A step of one subscriber, within the bounds.
BoundedStep(s) ==
  /\ UNCHANGED emitVars
  /\ phase' = [phase EXCEPT ![s] = phase'[s]]
  /\ cursor' = [cursor EXCEPT ![s] = cursor'[s]]
  /\ next' = [next EXCEPT ![s] = next'[s]]
  /\ start' = [start EXCEPT ![s] = start'[s]]
  /\ seen' = [seen EXCEPT ![s] = seen'[s]]
  /\ phase'[s] \in {"off", "subscribed", "live"}
  /\ cursor'[s] \in Nat /\ cursor'[s] <= Len(sent)
  /\ next'[s] \in Nat /\ next'[s] <= history
  /\ start'[s] \in Nat /\ start'[s] <= history
  /\ seen'[s] \in Seq(0..MaxEvents) /\ \A i \in 1..Len(seen'[s]) : seen'[s][i] < history

\* A step of one subscriber keeps the bounds when its new state does.
LEMMA SubscriberBounds ==
  ASSUME BusBounds, NEW s \in Subscribers, BoundedStep(s)
  PROVE  BusBounds'
<1>1. history \in Nat /\ MaxEvents \in Nat /\ history <= MaxEvents
  BY BusAssumption DEF BusBounds, TypeOK
<1>2. next'[s] \in 0..MaxEvents /\ start'[s] \in 0..MaxEvents
  BY <1>1 DEF BoundedStep
<1>3. TypeOK'
  <2>1. seen' \in [Subscribers -> Seq(0..MaxEvents)]
    BY Zenon DEF BoundedStep, BusBounds, TypeOK
  <2> QED
    BY <1>2, <2>1, Zenon DEF BoundedStep, BusBounds, TypeOK, emitVars
<1>4. ASSUME NEW r \in Subscribers
      PROVE  /\ cursor'[r] <= Len(sent') /\ next'[r] <= history' /\ start'[r] <= history'
             /\ \A i \in 1..Len(seen'[r]) : seen'[r][i] < history'
  <2>1. CASE r = s
    BY <2>1, Zenon DEF BoundedStep, emitVars
  <2>2. CASE r # s
    <3>1. cursor'[r] = cursor[r] /\ next'[r] = next[r] /\ start'[r] = start[r]
          /\ seen'[r] = seen[r]
      BY <1>4, <2>2 DEF BoundedStep, BusBounds, TypeOK
    <3> QED
      BY <1>4, <3>1, Zenon DEF BoundedStep, BusBounds, emitVars
  <2> QED
    BY <2>1, <2>2, Zenon
<1> QED
  BY <1>3, <1>4, Zenon DEF BoundedStep, BusBounds, emitVars

\* A subscriber subscribes, catches up, receives or lags.
LEMMA FollowBounds ==
  ASSUME BusBounds, NEW s \in Subscribers, Follow(s)
  PROVE  BusBounds'
<1>1. /\ history \in Nat /\ MaxEvents \in Nat /\ history <= MaxEvents
      /\ Capacity \in Nat /\ sent \in Seq(Nat) /\ Len(sent) \in Nat
  BY BusAssumption, LenProperties DEF BusBounds, TypeOK
<1>2. /\ cursor[s] \in Nat /\ cursor[s] <= Len(sent)
      /\ next[s] \in Nat /\ next[s] <= history
      /\ start[s] \in Nat /\ start[s] <= history
      /\ seen[s] \in Seq(0..MaxEvents) /\ \A i \in 1..Len(seen[s]) : seen[s][i] < history
      /\ phase[s] \in {"off", "subscribed", "live"}
  BY <1>1 DEF BusBounds, TypeOK
<1>3. /\ phase \in [Subscribers -> {"off", "subscribed", "live"}]
      /\ cursor \in [Subscribers -> Nat] /\ next \in [Subscribers -> 0..MaxEvents]
      /\ start \in [Subscribers -> 0..MaxEvents]
      /\ seen \in [Subscribers -> Seq(0..MaxEvents)]
  BY Zenon DEF BusBounds, TypeOK
<1>4. ASSUME NEW f \in Nat, f <= history
      PROVE  /\ Since(f) \in Seq(0..MaxEvents)
             /\ \A i \in 1..Len(Since(f)) : Since(f)[i] < history
  <2>1. history \in 0..MaxEvents
    BY <1>1
  <2>2. /\ Since(f) \in Seq(0..MaxEvents)
        /\ Len(Since(f)) = history - f
        /\ \A k \in 1..(history - f) : Since(f)[k] = f + k - 1
    BY <1>4, <2>1, SinceProperties, Zenon
  <2>3. ASSUME NEW i \in 1..Len(Since(f)) PROVE Since(f)[i] < history
    <3>1. i \in 1..(history - f) /\ i \in Nat /\ i <= history - f
      BY <1>1, <2>2
    <3>2. Since(f)[i] = f + i - 1
      BY <2>2, <3>1, Zenon
    <3> QED
      BY <1>1, <1>4, <3>1, <3>2
  <2> QED
    BY <2>2, <2>3, Zenon
<1>5. CASE Subscribe(s)
  <2>1. phase'[s] = "subscribed" /\ cursor'[s] = Len(sent)
        /\ next'[s] = next[s] /\ start'[s] = start[s] /\ seen'[s] = seen[s]
    BY <1>3, <1>5, Zenon DEF Subscribe
  <2>2. BoundedStep(s)
    BY <1>1, <1>2, <1>3, <1>5, <2>1 DEF Subscribe, BoundedStep
  <2> QED
    BY <2>2, SubscriberBounds, Zenon
<1>6. CASE CatchUp(s)
  <2> DEFINE b == IF s \in Pumps THEN history ELSE 0
             q == IF s \in Pumps THEN <<>> ELSE Since(0)
  <2>1. b \in Nat /\ b <= history
    BY <1>1
  <2>2. q \in Seq(0..MaxEvents) /\ \A i \in 1..Len(q) : q[i] < history
    <3>1. CASE s \in Pumps
      BY <3>1, EmptySeq
    <3>2. CASE s \notin Pumps
      BY <1>1, <1>4, <3>2
    <3> QED
      BY <3>1, <3>2, Zenon
  <2>3. /\ phase' = [phase EXCEPT ![s] = "live"] /\ next' = [next EXCEPT ![s] = history]
        /\ start' = [start EXCEPT ![s] = b] /\ seen' = [seen EXCEPT ![s] = q]
        /\ UNCHANGED <<emitVars, cursor>>
    BY <1>6, Zenon DEF CatchUp
  <2> HIDE DEF b, q
  <2>4. phase'[s] = "live" /\ next'[s] = history /\ start'[s] = b /\ seen'[s] = q
        /\ cursor'[s] = cursor[s]
    BY <1>3, <2>3, Zenon
  <2>5. BoundedStep(s)
    BY <1>1, <1>2, <1>3, <2>1, <2>2, <2>3, <2>4 DEF BoundedStep
  <2> QED
    BY <2>5, SubscriberBounds, Zenon
<1>7. CASE Receive(s)
  <2> DEFINE event == sent[cursor[s] + 1]
  <2>1. event \in Nat /\ event < history /\ cursor[s] + 1 \in Nat /\ cursor[s] + 1 <= Len(sent)
    <3>1. cursor[s] + 1 \in 1..Len(sent)
      BY <1>1, <1>2, <1>7 DEF Receive
    <3> QED
      BY <1>1, <3>1, ElementOfSeq DEF BusBounds
  <2>2. cursor'[s] = cursor[s] + 1 /\ phase'[s] = phase[s] /\ start'[s] = start[s]
    BY <1>3, <1>7, Zenon DEF Receive
  <2>3. CASE ~(event >= next[s])
    <3>1. UNCHANGED <<next, seen>>
      BY <1>7, <2>3, Zenon DEF Receive
    <3>2. BoundedStep(s)
      BY <1>2, <1>3, <1>7, <2>1, <2>2, <3>1, Zenon DEF Receive, BoundedStep
    <3> QED
      BY <3>2, SubscriberBounds, Zenon
  <2>4. CASE event >= next[s]
    <3>1. event \in 0..MaxEvents /\ event + 1 \in Nat /\ event + 1 <= history
      BY <1>1, <2>1
    <3>2. next' = [next EXCEPT ![s] = event + 1]
          /\ seen' = [seen EXCEPT ![s] = Append(seen[s], event)]
      BY <1>7, <2>4, Zenon DEF Receive
    <3> HIDE DEF event
    <3>3. /\ Append(seen[s], event) \in Seq(0..MaxEvents)
          /\ Len(Append(seen[s], event)) = Len(seen[s]) + 1
          /\ \A i \in 1..(Len(seen[s]) + 1) :
               Append(seen[s], event)[i] = IF i <= Len(seen[s]) THEN seen[s][i] ELSE event
      BY <1>2, <3>1, AppendProperties, LenProperties
    <3>4. \A i \in 1..Len(Append(seen[s], event)) : Append(seen[s], event)[i] < history
      <4> SUFFICES ASSUME NEW i \in 1..(Len(seen[s]) + 1)
                   PROVE  Append(seen[s], event)[i] < history
        BY <3>3, Zenon
      <4>1. CASE i <= Len(seen[s])
        <5>1. i \in 1..Len(seen[s]) /\ Append(seen[s], event)[i] = seen[s][i]
          BY <1>2, <3>3, <4>1, LenProperties
        <5> QED
          BY <1>2, <5>1, Zenon
      <4>2. CASE ~(i <= Len(seen[s]))
        BY <2>1, <3>3, <4>2, Zenon
      <4> QED
        BY <4>1, <4>2, Zenon
    <3>5. next'[s] = event + 1 /\ seen'[s] = Append(seen[s], event)
      BY <1>3, <3>2, Zenon
    <3>6. BoundedStep(s)
      BY <1>2, <1>3, <1>7, <2>1, <2>2, <3>1, <3>2, <3>3, <3>4, <3>5, Zenon DEF Receive, BoundedStep
    <3> QED
      BY <3>6, SubscriberBounds, Zenon
  <2> QED
    BY <2>3, <2>4, Zenon
<1>8. CASE Lag(s)
  <2> DEFINE p == Since(next[s])
             q == seen[s] \o p
  <2>1. p \in Seq(0..MaxEvents) /\ \A i \in 1..Len(p) : p[i] < history
    BY <1>2, <1>4, Zenon
  <2>2. cursor'[s] = Len(sent) - Capacity /\ next'[s] = history /\ seen'[s] = q
        /\ phase'[s] = phase[s] /\ start'[s] = start[s]
    BY <1>3, <1>8, Zenon DEF Lag
  <2>3. Len(sent) - Capacity \in Nat /\ Len(sent) - Capacity <= Len(sent)
    BY <1>1, <1>2, <1>8 DEF Lag, Lagging
  <2>4. /\ seen' = [seen EXCEPT ![s] = q] /\ next' = [next EXCEPT ![s] = history]
        /\ cursor' = [cursor EXCEPT ![s] = Len(sent) - Capacity]
        /\ UNCHANGED <<emitVars, phase, start>>
    BY <1>8, Zenon DEF Lag
  <2> HIDE DEF p
  <2>5. q \in Seq(0..MaxEvents) /\ \A i \in 1..Len(q) : q[i] < history
    <3>1. /\ q \in Seq(0..MaxEvents) /\ Len(q) = Len(seen[s]) + Len(p)
          /\ \A i \in 1..(Len(seen[s]) + Len(p)) :
               q[i] = IF i <= Len(seen[s]) THEN seen[s][i] ELSE p[i - Len(seen[s])]
      BY <1>2, <2>1, ConcatProperties
    <3>2. Len(seen[s]) \in Nat /\ Len(p) \in Nat
      BY <1>2, <2>1, LenProperties, Zenon
    <3> QED
      BY <1>2, <2>1, <3>1, <3>2
  <2> HIDE DEF q
  <2>6. BoundedStep(s)
    BY <1>1, <1>2, <1>3, <2>2, <2>3, <2>4, <2>5 DEF BoundedStep
  <2> QED
    BY <2>6, SubscriberBounds, Zenon
<1> QED
  BY <1>5, <1>6, <1>7, <1>8, Zenon DEF Follow

-----------------------------------------------------------------------------
(* Every event is accounted for.                                           *)

\* Where an event is, for a subscriber.
Held(s, n) == SeenBy(s, n) \/ Overtaken(n) \/ Queued(s, n) \/ InHand(s, n)

\* emit pushes an event: it is in hand.
LEMMA PushAccounted ==
  ASSUME BusInv, NEW e \in Emitters, Push(e), NEW s \in Subscribers
  PROVE  Accounted(s)'
<1> SUFFICES ASSUME phase[s] = "live", NEW n \in start[s]..history
             PROVE  Held(s, n)'
  BY DEF Push, subVars, Accounted, Held, BusInv, BusBounds, TypeOK
<1>1. /\ history \in Nat /\ next[s] \in Nat /\ next[s] <= history
      /\ start[s] \in Nat /\ n \in Nat
      /\ stage \in [Emitters -> {"idle", "journal", "send"}] /\ holding \in [Emitters -> Nat]
  BY BusAssumption DEF BusInv, BusBounds, TypeOK
<1>2. UNCHANGED <<sent, next, cursor, seen>>
  BY Zenon DEF Push, subVars
<1>3. CASE n = history
  <2>1. stage'[e] # "idle" /\ holding'[e] = n /\ n >= next'[s]
    BY <1>1, <1>2, <1>3, Zenon DEF Push
  <2> QED
    BY <2>1, Zenon DEF Held, InHand
<1>4. CASE n # history
  <2>1. Held(s, n)
    BY <1>1, <1>4 DEF BusInv, Accounted, Held
  <2>2. CASE SeenBy(s, n) \/ Overtaken(n) \/ Queued(s, n)
    BY <1>2, <2>2, Zenon DEF Held, SeenBy, Overtaken, Queued
  <2>3. CASE InHand(s, n)
    <3>1. PICK d \in Emitters :
            stage[d] # "idle" /\ holding[d] = n /\ (n >= next[s] \/ Passed(n))
      BY <2>3, Zenon DEF InHand
    <3>2. stage'[d] # "idle" /\ holding'[d] = n
      BY <1>1, <3>1, Zenon DEF Push
    <3>3. n >= next'[s] \/ Passed(n)'
      BY <1>2, <3>1, Zenon DEF Passed
    <3> QED
      BY <3>2, <3>3, Zenon DEF Held, InHand
  <2> QED
    BY <2>1, <2>2, <2>3, Zenon DEF Held
<1> QED
  BY <1>3, <1>4, Zenon

\* emit appends the event to the journal: it stays in hand.
LEMMA JournalAccounted ==
  ASSUME BusInv, NEW e \in Emitters, Journal(e), NEW s \in Subscribers
  PROVE  Accounted(s)'
<1> SUFFICES ASSUME phase[s] = "live", NEW n \in start[s]..(history - 1)
             PROVE  Held(s, n)'
  BY Zenon DEF Journal, subVars, Accounted, Held
<1>1. stage \in [Emitters -> {"idle", "journal", "send"}]
  BY Zenon DEF BusInv, BusBounds, TypeOK
<1>2. UNCHANGED <<sent, next, cursor, seen, holding>>
  BY Zenon DEF Journal, subVars
<1>3. Held(s, n)
  BY Zenon DEF BusInv, Accounted, Held
<1>4. CASE SeenBy(s, n) \/ Overtaken(n) \/ Queued(s, n)
  BY <1>2, <1>4, Zenon DEF Held, SeenBy, Overtaken, Queued
<1>5. CASE InHand(s, n)
  <2>1. PICK d \in Emitters :
          stage[d] # "idle" /\ holding[d] = n /\ (n >= next[s] \/ Passed(n))
    BY <1>5, Zenon DEF InHand
  <2>2. stage'[d] # "idle" /\ holding'[d] = n
    BY <1>1, <1>2, <2>1, Zenon DEF Journal
  <2>3. n >= next'[s] \/ Passed(n)'
    BY <1>2, <2>1, Zenon DEF Passed
  <2> QED
    BY <2>2, <2>3, Zenon DEF Held, InHand
<1> QED
  BY <1>3, <1>4, <1>5, Zenon DEF Held

\* emit broadcasts the event: the receiver will take it, or it is overtaken.
LEMMA SendAccounted ==
  ASSUME BusInv, NEW e \in Emitters, Send(e), NEW s \in Subscribers
  PROVE  Accounted(s)'
<1> SUFFICES ASSUME phase[s] = "live", NEW n \in start[s]..(history - 1)
             PROVE  Held(s, n)'
  BY Zenon DEF Send, subVars, Accounted, Held
<1>1. /\ stage \in [Emitters -> {"idle", "journal", "send"}] /\ holding[e] \in Nat
      /\ sent \in Seq(Nat) /\ Len(sent) \in Nat
      /\ cursor[s] \in Nat /\ cursor[s] <= Len(sent)
      /\ next[s] \in Nat /\ start[s] \in Nat /\ n \in Nat
  BY BusAssumption, LenProperties DEF BusInv, BusBounds, TypeOK
<1>2. /\ Len(sent') = Len(sent) + 1
      /\ \A i \in 1..Len(sent) : sent'[i] = sent[i]
      /\ sent'[Len(sent) + 1] = holding[e]
  BY <1>1, AppendProperties DEF Send
<1>3. UNCHANGED <<next, cursor, seen, holding>>
  BY Zenon DEF Send, subVars
<1>4. 1..Len(sent) \subseteq 1..Len(sent') /\ Len(sent) + 1 \in 1..Len(sent')
      /\ (cursor[s] + 1)..Len(sent) \subseteq 1..Len(sent)
      /\ (cursor[s] + 1)..Len(sent) \subseteq (cursor'[s] + 1)..Len(sent')
      /\ Len(sent) + 1 \in (cursor'[s] + 1)..Len(sent')
  BY <1>1, <1>2, <1>3
<1>5. Passed(n) => Passed(n)'
  BY <1>2, <1>4, Zenon DEF Passed
<1>6. Held(s, n)
  BY Zenon DEF BusInv, Accounted, Held
<1>7. CASE SeenBy(s, n)
  BY <1>3, <1>7, Zenon DEF Held, SeenBy
<1>8. CASE Overtaken(n)
  BY <1>2, <1>4, <1>8, Zenon DEF Held, Overtaken
<1>9. CASE Queued(s, n)
  BY <1>2, <1>3, <1>4, <1>9, Zenon DEF Held, Queued
<1>10. CASE InHand(s, n)
  <2>1. PICK d \in Emitters :
          stage[d] # "idle" /\ holding[d] = n /\ (n >= next[s] \/ Passed(n))
    BY <1>10, Zenon DEF InHand
  <2>2. CASE d # e
    BY <1>1, <1>3, <1>5, <2>1, <2>2, Zenon DEF Send, Held, InHand
  <2>3. CASE d = e /\ n >= next[s]
    BY <1>2, <1>3, <1>4, <2>1, <2>3, Zenon DEF Held, Queued
  <2>4. CASE d = e /\ Passed(n)
    <3>1. PICK i \in 1..Len(sent) : sent[i] > n
      BY <2>4, Zenon DEF Passed
    <3>2. i \in 1..Len(sent') /\ i < Len(sent) + 1 /\ sent'[i] > n
          /\ sent'[Len(sent) + 1] = n
      BY <1>1, <1>2, <1>4, <2>1, <2>4, <3>1
    <3> QED
      BY <1>4, <3>2, Zenon DEF Held, Overtaken
  <2> QED
    BY <2>1, <2>2, <2>3, <2>4, Zenon
<1> QED
  BY <1>6, <1>7, <1>8, <1>9, <1>10, Zenon DEF Held

\* What one subscriber does leaves the others' accounts alone.
LEMMA OthersAccounted ==
  ASSUME BusInv, NEW r \in Subscribers, UNCHANGED emitVars,
         UNCHANGED <<phase[r], cursor[r], next[r], start[r], seen[r]>>
  PROVE  Accounted(r)'
<1>1. Accounted(r)
  BY Zenon DEF BusInv
<1>2. UNCHANGED <<history, sent, stage, holding>>
  BY Zenon DEF emitVars
<1>3. \A n : (SeenBy(r, n) => SeenBy(r, n)') /\ (Overtaken(n) => Overtaken(n)')
        /\ (Queued(r, n) => Queued(r, n)')
  BY <1>2, Zenon DEF SeenBy, Overtaken, Queued
<1>4. \A n : InHand(r, n) => InHand(r, n)'
  BY <1>2, Zenon DEF InHand, Passed
<1> QED
  BY <1>1, <1>2, <1>3, <1>4, Zenon DEF Accounted

\* A subscriber takes the history as it starts: a pump leaves it out, a
\* listener handles all of it.
LEMMA CatchUpAccounted ==
  ASSUME BusInv, NEW s \in Subscribers, CatchUp(s)
  PROVE  Accounted(s)'
<1>1. /\ history \in Nat /\ history \in 0..MaxEvents
      /\ start \in [Subscribers -> 0..MaxEvents]
      /\ seen \in [Subscribers -> Seq(0..MaxEvents)]
  BY BusAssumption DEF BusInv, BusBounds, TypeOK
<1>2. history' = history
  BY Zenon DEF CatchUp, emitVars
<1>3. CASE s \in Pumps
  <2>1. start'[s] = history
    BY <1>1, <1>3, Zenon DEF CatchUp
  <2> QED
    BY <1>1, <1>2, <2>1 DEF Accounted
<1>4. CASE s \notin Pumps
  <2>1. start'[s] = 0 /\ seen'[s] = Since(0)
    BY <1>1, <1>4, Zenon DEF CatchUp
  <2>2. Len(Since(0)) = history - 0 /\ \A k \in 1..(history - 0) : Since(0)[k] = 0 + k - 1
    BY <1>1, SinceProperties
  <2>3. ASSUME NEW n \in 0..(history - 1) PROVE SeenBy(s, n)'
    <3>1. n + 1 \in 1..(history - 0) /\ 0 + (n + 1) - 1 = n
      BY <1>1
    <3>2. n + 1 \in 1..Len(Since(0)) /\ Since(0)[n + 1] = n
      BY <2>2, <3>1, Zenon
    <3> QED
      BY <2>1, <3>2, Zenon DEF SeenBy
  <2> QED
    BY <1>2, <2>1, <2>3, Zenon DEF Accounted
<1> QED
  BY <1>3, <1>4, Zenon

\* A subscriber receives a broadcast.  What it takes is handled; what it steps
\* over was handled or comes later in the channel and is overtaken.
LEMMA ReceiveAccounted ==
  ASSUME BusInv, NEW s \in Subscribers, Receive(s)
  PROVE  Accounted(s)'
<1> SUFFICES ASSUME NEW n \in start[s]..(history - 1)
             PROVE  Held(s, n)'
  BY Zenon DEF Receive, emitVars, Accounted, Held
<1> DEFINE m == sent[cursor[s] + 1]
<1>1. /\ sent \in Seq(Nat) /\ Len(sent) \in Nat
      /\ cursor \in [Subscribers -> Nat] /\ cursor[s] \in Nat /\ cursor[s] < Len(sent)
      /\ next \in [Subscribers -> 0..MaxEvents] /\ next[s] \in Nat
      /\ seen \in [Subscribers -> Seq(0..MaxEvents)] /\ seen[s] \in Seq(0..MaxEvents)
      /\ start[s] \in Nat /\ n \in Nat /\ MaxEvents \in Nat
  BY BusAssumption, LenProperties DEF BusInv, BusBounds, TypeOK, Receive
<1>2. cursor[s] + 1 \in 1..Len(sent)
  BY <1>1
<1>3. m \in Nat /\ m \in 0..MaxEvents
  BY <1>1, <1>2, ElementOfSeq, BusAssumption DEF BusInv, BusBounds, TypeOK
<1>4. UNCHANGED <<sent, stage, holding>> /\ cursor'[s] = cursor[s] + 1
  BY <1>1, Zenon DEF Receive, emitVars
<1>5. Held(s, n)
  BY Zenon DEF BusInv, Accounted, Held, Receive
<1>6. CASE m < next[s]
  <2>1. next' = next /\ seen' = seen
    BY <1>1, <1>3, <1>6 DEF Receive
  <2>2. CASE SeenBy(s, n) \/ Overtaken(n)
    BY <1>4, <2>1, <2>2, Zenon DEF Held, SeenBy, Overtaken
  <2>3. CASE Queued(s, n)
    <3>1. PICK j \in (cursor[s] + 1)..Len(sent) : n >= next[s] /\ sent[j] = n
      BY <2>3, Zenon DEF Queued
    <3>2. j # cursor[s] + 1
      BY <1>1, <1>3, <1>6, <3>1
    <3>3. j \in (cursor'[s] + 1)..Len(sent')
      BY <1>1, <1>4, <3>2
    <3> QED
      BY <1>4, <2>1, <3>1, <3>3, Zenon DEF Held, Queued
  <2>4. CASE InHand(s, n)
    BY <1>4, <2>1, <2>4, Zenon DEF Held, InHand, Passed
  <2> QED
    BY <1>5, <2>2, <2>3, <2>4, Zenon DEF Held
<1>7. CASE m >= next[s]
  <2>1. next'[s] = m + 1 /\ seen'[s] = Append(seen[s], m)
    BY <1>1, <1>3, <1>7, Zenon DEF Receive
  <2> HIDE DEF m
  <2>2. /\ Len(Append(seen[s], m)) = Len(seen[s]) + 1
        /\ \A i \in 1..Len(seen[s]) : Append(seen[s], m)[i] = seen[s][i]
        /\ Append(seen[s], m)[Len(seen[s]) + 1] = m
    BY <1>1, <1>3, AppendProperties
  <2>3. Len(seen[s]) \in Nat
    BY <1>1, LenProperties, Zenon
  <2>4. CASE SeenBy(s, n)
    BY <2>1, <2>2, <2>3, <2>4 DEF Held, SeenBy
  <2>5. CASE n = m
    BY <2>1, <2>2, <2>3, <2>5 DEF Held, SeenBy
  <2>6. CASE Overtaken(n)
    BY <1>4, <2>6, Zenon DEF Held, Overtaken
  <2>7. CASE Queued(s, n) /\ n # m
    <3>1. PICK j \in (cursor[s] + 1)..Len(sent) : n >= next[s] /\ sent[j] = n
      BY <2>7, Zenon DEF Queued
    <3>2. j # cursor[s] + 1
      BY <1>1, <2>7, <3>1, Zenon DEF m
    <3>3. j \in (cursor'[s] + 1)..Len(sent') /\ j \in 1..Len(sent) /\ cursor[s] + 1 < j
      BY <1>1, <1>4, <3>2
    <3>4. CASE n > m
      <4>1. n >= next'[s]
        BY <1>1, <1>3, <2>1, <3>4
      <4> QED
        BY <1>4, <3>1, <3>3, <4>1, Zenon DEF Held, Queued
    <3>5. CASE n < m
      <4>1. sent[cursor[s] + 1] > n
        BY <1>1, <1>3, <3>5, Zenon DEF m
      <4>2. Overtaken(n)
        BY <1>2, <3>1, <3>3, <4>1, Zenon DEF Overtaken
      <4> QED
        BY <1>4, <4>2, Zenon DEF Held, Overtaken
    <3> QED
      BY <1>1, <1>3, <2>7, <3>4, <3>5
  <2>8. CASE InHand(s, n) /\ n # m
    <3>1. PICK d \in Emitters :
            stage[d] # "idle" /\ holding[d] = n /\ (n >= next[s] \/ Passed(n))
      BY <2>8, Zenon DEF InHand
    <3>2. n >= next'[s] \/ Passed(n)
      <4>1. CASE n > m
        BY <1>1, <1>3, <2>1, <4>1
      <4>2. CASE n < m
        <5>1. sent[cursor[s] + 1] > n
          BY <1>1, <1>3, <4>2, Zenon DEF m
        <5> QED
          BY <1>2, <5>1, Zenon DEF Passed
      <4> QED
        BY <1>1, <1>3, <2>8, <4>1, <4>2
    <3> QED
      BY <1>4, <3>1, <3>2, Zenon DEF Held, InHand, Passed
  <2> QED
    BY <1>5, <2>4, <2>5, <2>6, <2>7, <2>8, Zenon DEF Held
<1> QED
  BY <1>1, <1>3, <1>6, <1>7

\* A lagging subscriber handles what the history has from its next event on;
\* nothing it had not handled stays behind the receiver.
LEMMA LagAccounted ==
  ASSUME BusInv, NEW s \in Subscribers, Lag(s)
  PROVE  Accounted(s)'
<1> SUFFICES ASSUME NEW n \in start[s]..(history - 1)
             PROVE  Held(s, n)'
  BY Zenon DEF Lag, emitVars, Accounted, Held
<1> DEFINE p == Since(next[s])
<1>1. /\ history \in Nat /\ history \in 0..MaxEvents /\ start[s] \in Nat /\ n \in Nat
      /\ next \in [Subscribers -> 0..MaxEvents] /\ next[s] \in Nat /\ next[s] <= history
      /\ seen \in [Subscribers -> Seq(0..MaxEvents)] /\ seen[s] \in Seq(0..MaxEvents)
      /\ Len(seen[s]) \in Nat
  BY BusAssumption, LenProperties DEF BusInv, BusBounds, TypeOK
<1>2. UNCHANGED <<sent, stage, holding>> /\ seen'[s] = seen[s] \o p
  BY <1>1, Zenon DEF Lag, emitVars
<1>3. /\ p \in Seq(0..MaxEvents) /\ Len(p) = history - next[s]
      /\ \A k \in 1..(history - next[s]) : p[k] = next[s] + k - 1
  BY <1>1, SinceProperties, Zenon
<1> HIDE DEF p
<1>4. /\ Len(seen[s] \o p) = Len(seen[s]) + Len(p)
      /\ \A i \in 1..(Len(seen[s]) + Len(p)) :
           (seen[s] \o p)[i] = IF i <= Len(seen[s]) THEN seen[s][i] ELSE p[i - Len(seen[s])]
  BY <1>1, <1>3, ConcatProperties, Zenon
<1>5. CASE n >= next[s]
  <2>1. n - next[s] + 1 \in 1..(history - next[s])
        /\ next[s] + (n - next[s] + 1) - 1 = n
    BY <1>1, <1>5
  <2>2. p[n - next[s] + 1] = n
    BY <1>3, <2>1, Zenon
  <2> DEFINE i == Len(seen[s]) + (n - next[s] + 1)
  <2>3. i \in 1..(Len(seen[s]) + Len(p)) /\ ~(i <= Len(seen[s]))
        /\ i - Len(seen[s]) = n - next[s] + 1
    BY <1>1, <1>3, <2>1
  <2> HIDE DEF i
  <2>4. (seen[s] \o p)[i] = n
    BY <1>4, <2>2, <2>3, Zenon
  <2> QED
    BY <1>2, <1>4, <2>3, <2>4, Zenon DEF Held, SeenBy
<1>6. CASE n < next[s]
  <2>1. SeenBy(s, n) \/ Overtaken(n) \/ InHand(s, n)
    BY <1>1, <1>6 DEF BusInv, Accounted, Lag, Queued
  <2>2. CASE SeenBy(s, n)
    <3>1. PICK i \in 1..Len(seen[s]) : seen[s][i] = n
      BY <2>2, Zenon DEF SeenBy
    <3>2. Len(p) \in Nat
      BY <1>1, <1>3
    <3>3. i \in 1..(Len(seen[s]) + Len(p)) /\ (seen[s] \o p)[i] = n
      BY <1>1, <1>4, <3>1, <3>2
    <3> QED
      BY <1>2, <1>4, <3>3, Zenon DEF Held, SeenBy
  <2>3. CASE Overtaken(n)
    BY <1>2, <2>3, Zenon DEF Held, Overtaken
  <2>4. CASE InHand(s, n)
    BY <1>1, <1>2, <1>6, <2>4 DEF Held, InHand, Passed
  <2> QED
    BY <2>1, <2>2, <2>3, <2>4, Zenon
<1> QED
  BY <1>1, <1>5, <1>6

\* An emitter's step keeps the bus's invariant.
LEMMA EmitStep ==
  ASSUME BusInv, NEW e \in Emitters, Emit(e)
  PROVE  BusInv'
<1>1. BusBounds
  BY Zenon DEF BusInv
<1>2. CASE Push(e)
  BY <1>1, <1>2, PushBounds, PushAccounted, Zenon DEF BusInv
<1>3. CASE Journal(e)
  BY <1>1, <1>3, PublishBounds, JournalAccounted, Zenon DEF BusInv
<1>4. CASE Send(e)
  BY <1>1, <1>4, PublishBounds, SendAccounted, Zenon DEF BusInv
<1> QED
  BY <1>2, <1>3, <1>4, Zenon DEF Emit

\* A subscriber's step keeps the bus's invariant.
LEMMA FollowStep ==
  ASSUME BusInv, NEW s \in Subscribers, Follow(s)
  PROVE  BusInv'
<1>1. BusBounds'
  BY FollowBounds, Zenon DEF BusInv
<1>2. UNCHANGED emitVars
  BY Zenon DEF Follow, Subscribe, CatchUp, Receive, Lag
<1>3. Accounted(s)'
  <2>1. CASE Subscribe(s)
    <3>1. phase'[s] # "live"
      BY <2>1, Zenon DEF Subscribe, BusInv, BusBounds, TypeOK
    <3> QED
      BY <3>1, Zenon DEF Accounted
  <2> QED
    BY <2>1, CatchUpAccounted, ReceiveAccounted, LagAccounted, Zenon DEF Follow
<1>4. ASSUME NEW r \in Subscribers, r # s PROVE Accounted(r)'
  <2>1. UNCHANGED <<phase[r], cursor[r], next[r], start[r], seen[r]>>
    <3> USE <1>4 DEF BusInv, BusBounds, TypeOK
    <3>1. CASE Subscribe(s)
      BY <3>1, Zenon DEF Subscribe
    <3>2. CASE CatchUp(s)
      BY <3>2, Zenon DEF CatchUp
    <3>3. CASE Receive(s)
      BY <3>3, Zenon DEF Receive
    <3>4. CASE Lag(s)
      BY <3>4, Zenon DEF Lag
    <3> QED
      BY <3>1, <3>2, <3>3, <3>4, Zenon DEF Follow
  <2> QED
    BY <1>2, <2>1, OthersAccounted, Zenon
<1> QED
  BY <1>1, <1>3, <1>4, Zenon DEF BusInv

\* Nothing happens on the bus.
LEMMA BusQuiet ==
  ASSUME BusInv, UNCHANGED busVars
  PROVE  BusInv'
<1>1. UNCHANGED emitVars /\ UNCHANGED <<phase, cursor, next, start, seen>>
  BY Zenon DEF busVars, subVars
<1>2. BusBounds'
  BY <1>1, Zenon DEF BusInv, BusBounds, TypeOK, emitVars
<1>3. \A r \in Subscribers : Accounted(r)'
  BY <1>1, OthersAccounted, Zenon
<1> QED
  BY <1>2, <1>3, Zenon DEF BusInv

\* The bus starts empty.
LEMMA BusInit == Init => BusInv
<1> SUFFICES ASSUME Init PROVE BusInv
  BY Zenon
<1>1. TypeOK
  <2>1. history \in 0..MaxEvents /\ journal \in Seq(Nat) /\ sent \in Seq(Nat)
    BY BusAssumption, EmptySeq DEF Init
  <2>2. stage \in [Emitters -> {"idle", "journal", "send"}] /\ holding \in [Emitters -> Nat]
    BY Zenon DEF Init
  <2>3. /\ phase \in [Subscribers -> {"off", "subscribed", "live"}]
        /\ cursor \in [Subscribers -> Nat]
    BY Zenon DEF Init
  <2>4. next \in [Subscribers -> 0..MaxEvents] /\ start \in [Subscribers -> 0..MaxEvents]
    BY BusAssumption DEF Init
  <2>5. seen \in [Subscribers -> Seq(0..MaxEvents)]
    BY EmptySeq, Zenon DEF Init
  <2> QED
    BY <2>1, <2>2, <2>3, <2>4, <2>5, Zenon DEF TypeOK
<1>2. Len(sent) = 0 /\ \A s \in Subscribers : Len(seen[s]) = 0
  BY EmptySeq, Zenon DEF Init
<1>3. BusBounds
  BY <1>1, <1>2, BusAssumption DEF BusBounds, Init
<1> QED
  BY <1>3, Zenon DEF BusInv, Accounted, Init

\* The invariant implies the property: with nothing queued and nothing in
\* hand, what a subscriber has not handled was overtaken.
LEMMA NothingElseMissed == BusInv => MissedOnlyIfOvertaken
<1> SUFFICES ASSUME BusInv, NEW s \in Subscribers, Quiet, CaughtUp(s),
                    NEW n \in start[s]..(history - 1)
             PROVE  SeenBy(s, n) \/ Overtaken(n)
  BY Zenon DEF MissedOnlyIfOvertaken, SeenBy
<1>1. Len(sent) \in Nat
  BY LenProperties, Zenon DEF BusInv, BusBounds, TypeOK
<1>2. ~Queued(s, n)
  BY <1>1 DEF Queued, CaughtUp
<1>3. ~InHand(s, n)
  BY Zenon DEF InHand, Quiet
<1> QED
  BY <1>2, <1>3, Zenon DEF BusInv, Accounted, CaughtUp

\* For any emitters, subscribers and channel capacity: a subscriber of the bus
\* that has received everything has handled every event from its start on
\* whose broadcast was not overtaken (pump_events, the listener loops).
THEOREM LagLosesNothing == Spec => []MissedOnlyIfOvertaken
<1>1. BusInv /\ [Next]_busVars => BusInv'
  BY EmitStep, FollowStep, BusQuiet, Zenon DEF Next, Idle
<1> QED
  BY <1>1, BusInit, NothingElseMissed, PTL DEF Spec

-----------------------------------------------------------------------------
(* The connection and the client.                                          *)

\* The pump is one of the bus's subscribers, and no listener.
LEMMA PumpSubscribes ==
  /\ Conn \in Subscribers /\ Conn \in Pumps /\ Conn \notin Listeners
  /\ Listeners \subseteq Subscribers
BY BusAssumption, StreamAssumption, Zenon DEF Subscribers

\* The connection drops: the pump is a subscriber that is off again.
LEMMA DropBus ==
  ASSUME BusInv, Drop
  PROVE  BusInv'
<1>1. /\ cursor[Conn] \in Nat /\ cursor[Conn] <= Len(sent)
      /\ next[Conn] \in Nat /\ next[Conn] <= history
      /\ start[Conn] \in Nat /\ start[Conn] <= history
      /\ phase \in [Subscribers -> {"off", "subscribed", "live"}]
      /\ cursor \in [Subscribers -> Nat] /\ next \in [Subscribers -> 0..MaxEvents]
      /\ start \in [Subscribers -> 0..MaxEvents]
      /\ seen \in [Subscribers -> Seq(0..MaxEvents)]
  BY PumpSubscribes, BusAssumption DEF BusInv, BusBounds, TypeOK
<1>2. phase'[Conn] = "off" /\ seen'[Conn] = <<>> /\ UNCHANGED <<cursor, next, start, emitVars>>
  BY <1>1, PumpSubscribes, Zenon DEF Drop
<1>3. <<>> \in Seq(0..MaxEvents) /\ \A i \in 1..Len(<<>>) : <<>>[i] < history
  BY EmptySeq
<1>4. BoundedStep(Conn)
  BY <1>1, <1>2, <1>3, PumpSubscribes, Zenon DEF BoundedStep, Drop
<1>5. BusBounds'
  BY <1>4, PumpSubscribes, SubscriberBounds, Zenon DEF BusInv
<1>6. ASSUME NEW r \in Subscribers PROVE Accounted(r)'
  <2>1. CASE r = Conn
    BY <1>2, <2>1, Zenon DEF Accounted
  <2>2. CASE r # Conn
    <3>1. UNCHANGED <<phase[r], cursor[r], next[r], start[r], seen[r]>>
      BY <1>1, <2>2, Zenon DEF Drop
    <3> QED
      BY <1>2, <3>1, OthersAccounted, Zenon
  <2> QED
    BY <2>1, <2>2, Zenon
<1> QED
  BY <1>5, <1>6, Zenon DEF BusInv

\* Every step of the stream keeps the bus's invariant.
LEMMA StreamBusStep ==
  ASSUME BusInv, [StreamNext]_streamVars
  PROVE  BusInv'
<1>1. CASE Produce
  BY <1>1, PumpSubscribes, EmitStep, FollowStep, Zenon DEF Produce
<1>2. CASE Accept \/ AuthOk \/ Pump
  <2>1. Follow(Conn)
    BY <1>2, Zenon DEF Accept, AuthOk, Pump, Follow
  <2> QED
    BY <2>1, PumpSubscribes, FollowStep, Zenon
<1>3. CASE Drop
  BY <1>3, DropBus, Zenon
<1>4. CASE Backlog \/ Connect \/ OnAuthOk \/ KeySaved \/ OnEvent \/ OnEvents
           \/ StreamIdle \/ UNCHANGED streamVars
  <2>1. UNCHANGED busVars
    BY <1>4, Zenon DEF Backlog, Connect, OnAuthOk, KeySaved, OnEvent, OnEvents, StreamIdle, streamVars
  <2> QED
    BY <2>1, BusQuiet, Zenon
<1> QED
  BY <1>1, <1>2, <1>3, <1>4, Zenon DEF StreamNext

\* The messages of StreamTypeOK.
Messages == {<<"auth_ok">>} \cup ({"event"} \X Nat) \cup ({"events"} \X Seq(Nat))

\* A message is what its tag says.
LEMMA MessageShape ==
  ASSUME NEW m \in Messages
  PROVE  /\ m[1] = "event" => m[2] \in Nat /\ m = <<"event", m[2]>>
         /\ m[1] = "events" => m[2] \in Seq(Nat)
         /\ m[1] \notin {"event", "events"} => m = <<"auth_ok">>
BY DEF Messages

\* The list of a set of events in order holds all of them.
LEMMA InOrderLists ==
  ASSUME NEW S, S \subseteq Nat, IsFiniteSet(S), NEW list \in InOrder(S)
  PROVE  /\ Cardinality(S) \in Nat
         /\ list \in [1..Cardinality(S) -> S]
         /\ \A i, j \in 1..Cardinality(S) : i < j => list[i] < list[j]
         /\ \A x \in S : \E i \in 1..Cardinality(S) : list[i] = x
<1> DEFINE N == Cardinality(S)
<1>1. N \in Nat
  BY FS_CardinalityType, Zenon
<1>2. list \in [1..N -> S] /\ \A i, j \in 1..N : i < j => list[i] < list[j]
  BY Zenon DEF InOrder
<1>3. IsInjective(list)
  <2> SUFFICES ASSUME NEW i \in 1..N, NEW j \in 1..N, list[i] = list[j]
               PROVE  i = j
    BY <1>2, Zenon DEF IsInjective
  <2>1. list[i] \in Nat /\ list[j] \in Nat
    BY <1>2, Zenon
  <2>2. ~(i < j) /\ ~(j < i)
    BY <1>2, <2>1
  <2> QED
    BY <1>1, <2>2
<1>4. list \in Injection(1..N, S)
  BY <1>2, <1>3, Zenon DEF Injection
<1>5. Cardinality(1..N) = N
  BY <1>1, FS_Interval
<1> HIDE DEF N
<1>6. list \in Surjection(1..N, S)
  BY <1>4, <1>5, FS_Injection, Zenon DEF N
<1> QED
  BY <1>1, <1>2, <1>6, Zenon DEF N, Surjection

\* An emitter or a listener takes a step: the history may grow, the connection
\* and the client stay as they are.
LEMMA ProduceLeaves ==
  ASSUME BusInv, Produce
  PROVE  /\ history \in Nat /\ history' \in Nat /\ history <= history'
         /\ UNCHANGED <<phase[Conn], start[Conn], seen[Conn]>>
         /\ UNCHANGED <<kind, link, connections, asked, transcript, resume, from, out>>
<1>1. history \in Nat
  BY BusAssumption DEF BusInv, BusBounds, TypeOK
<1>2. CASE \E e \in Emitters : Emit(e)
  BY <1>1, <1>2 DEF Produce, clientVars, Emit, Push, Journal, Send, subVars
<1>3. CASE \E s \in Listeners : Follow(s)
  <2>1. PICK s \in Listeners : Follow(s)
    BY <1>3, Zenon
  <2>2. s # Conn
    BY PumpSubscribes, Zenon
  <2>3. UNCHANGED <<phase[Conn], start[Conn], seen[Conn]>>
    BY <2>1, <2>2, PumpSubscribes, Zenon
    DEF Follow, Subscribe, CatchUp, Receive, Lag, BusInv, BusBounds, TypeOK
  <2>4. history' = history
    BY <2>1, Zenon DEF Follow, Subscribe, CatchUp, Receive, Lag, emitVars
  <2> QED
    BY <1>1, <2>3, <2>4 DEF Produce, clientVars
<1> QED
  BY <1>2, <1>3, Zenon DEF Produce

\* Emitters and listeners: the client's cursor and mail stay within the history.
LEMMA ProduceClient ==
  ASSUME StreamInv, BusInv', Produce
  PROVE  ClientBounds' /\ Delivered'
<1>1. /\ history \in Nat /\ history' \in Nat /\ history <= history'
      /\ UNCHANGED <<phase[Conn], start[Conn], seen[Conn]>>
      /\ UNCHANGED <<kind, link, connections, asked, transcript, resume, from, out>>
  BY ProduceLeaves, Zenon DEF StreamInv
<1>2. StreamTypeOK'
  BY <1>1, Zenon DEF StreamInv, ClientBounds, StreamTypeOK, BusInv, BusBounds
<1>3. CursorOK'
  <2>1. resume \in Nat
    BY BusAssumption DEF StreamInv, ClientBounds, StreamTypeOK
  <2> QED
    BY <1>1, <2>1 DEF StreamInv, ClientBounds, CursorOK
<1>4. MailOK'
  <2> SUFFICES ASSUME NEW k \in 1..Len(out)
               PROVE  /\ out[k][1] = "event" => out[k][2] < history'
                      /\ out[k][1] = "events" => Stretch(out[k][2])'
                      /\ out[k] = <<"auth_ok">> => k = 1 /\ link = "authenticating"
    BY <1>1, Zenon DEF MailOK, Stretch
  <2>1. out[k] \in Messages
    BY ElementOfSeq DEF StreamInv, ClientBounds, StreamTypeOK, Messages
  <2>2. CASE out[k][1] = "event"
    <3>1. out[k][2] \in Nat /\ out[k][2] < history
      BY <2>1, <2>2, MessageShape, Zenon DEF StreamInv, ClientBounds, MailOK
    <3> QED
      BY <1>1, <2>2, <3>1 DEF StreamInv, ClientBounds, MailOK
  <2>3. CASE out[k][1] = "events"
    <3>1. out[k][2] \in Seq(Nat) /\ Stretch(out[k][2])
      BY <2>1, <2>3, MessageShape, Zenon DEF StreamInv, ClientBounds, MailOK
    <3>2. out'[k][2] = out[k][2]
      BY <1>1, Zenon
    <3>3. \A i \in 1..Len(out[k][2]) : out[k][2][i] \in Nat
      BY <3>1, ElementOfSeq, Zenon
    <3>4. \A i \in 1..Len(out[k][2]) : out[k][2][i] < history'
      BY <1>1, <3>1, <3>3 DEF Stretch
    <3>5. Stretch(out[k][2])'
      BY <3>1, <3>2, <3>4, Zenon DEF Stretch
    <3> QED
      BY <2>3, <3>5, Zenon DEF StreamInv, ClientBounds, MailOK
  <2> QED
    BY <2>2, <2>3, Zenon DEF StreamInv, ClientBounds, MailOK
<1>5. HandshakeOK'
  BY <1>1, Zenon DEF StreamInv, ClientBounds, HandshakeOK
<1>6. Delivered'
  <2>1. \A n : (Got(n) => Got(n)') /\ (OnItsWay(n) => OnItsWay(n)')
    BY <1>1, Zenon DEF Got, Has, OnItsWay, Carries
  <2> QED
    BY <1>1, <2>1, Zenon DEF StreamInv, Delivered
<1> QED
  BY <1>2, <1>3, <1>4, <1>5, <1>6, Zenon DEF ClientBounds

\* Messages are put on the outgoing queue.
LEMMA MailAppended ==
  ASSUME StreamInv, NEW ms \in Seq(Messages), out' = out \o ms, UNCHANGED <<history, link>>,
         \A k \in 1..Len(ms) :
           /\ ms[k][1] = "event" => ms[k][2] < history
           /\ ms[k][1] = "events" => Stretch(ms[k][2])
           /\ ms[k] # <<"auth_ok">>
  PROVE  /\ out' \in Seq(Messages)
         /\ MailOK'
         /\ \A n : OnItsWay(n) => OnItsWay(n)'
         /\ \A k \in 1..Len(ms), n \in Nat : Carries(ms[k], n) => OnItsWay(n)'
<1>1. out \in Seq(Messages) /\ Len(out) \in Nat /\ Len(ms) \in Nat
  BY LenProperties, Zenon DEF StreamInv, ClientBounds, StreamTypeOK, Messages
<1>2. /\ out' \in Seq(Messages) /\ Len(out') = Len(out) + Len(ms)
      /\ \A i \in 1..(Len(out) + Len(ms)) :
           out'[i] = IF i <= Len(out) THEN out[i] ELSE ms[i - Len(out)]
  BY <1>1, ConcatProperties, Zenon
<1>3. ASSUME NEW k \in 1..Len(out)
      PROVE  k \in 1..Len(out') /\ out'[k] = out[k]
  BY <1>1, <1>2
<1>4. ASSUME NEW k \in 1..Len(ms)
      PROVE  Len(out) + k \in 1..Len(out') /\ out'[Len(out) + k] = ms[k]
  <2>1. /\ Len(out) + k \in 1..(Len(out) + Len(ms)) /\ ~(Len(out) + k <= Len(out))
        /\ Len(out) + k - Len(out) = k
    BY <1>1
  <2> QED
    BY <1>2, <2>1
<1>5. MailOK'
  <2> SUFFICES ASSUME NEW i \in 1..Len(out')
               PROVE  /\ out'[i][1] = "event" => out'[i][2] < history
                      /\ out'[i][1] = "events" => Stretch(out'[i][2])
                      /\ out'[i] = <<"auth_ok">> => i = 1 /\ link = "authenticating"
    BY Zenon DEF MailOK, Stretch
  <2>1. CASE i <= Len(out)
    <3>1. i \in 1..Len(out) /\ out'[i] = out[i]
      BY <1>1, <1>2, <2>1
    <3> QED
      BY <3>1, Zenon DEF StreamInv, ClientBounds, MailOK
  <2>2. CASE ~(i <= Len(out))
    <3>1. i - Len(out) \in 1..Len(ms) /\ out'[i] = ms[i - Len(out)]
      BY <1>1, <1>2, <2>2
    <3> QED
      BY <3>1, Zenon
  <2> QED
    BY <2>1, <2>2, Zenon
<1>6. ASSUME NEW n, OnItsWay(n) PROVE OnItsWay(n)'
  <2>1. PICK k \in 1..Len(out) : Carries(out[k], n)
    BY <1>6, Zenon DEF OnItsWay
  <2>2. Carries(out[k], n)'
    BY <1>3, <2>1, Zenon DEF Carries
  <2> QED
    BY <1>3, <2>1, <2>2, Zenon DEF OnItsWay, Carries
<1>7. ASSUME NEW k \in 1..Len(ms), NEW n \in Nat, Carries(ms[k], n) PROVE OnItsWay(n)'
  <2>1. PICK j : j = Len(out) + k
    BY Zenon
  <2>2. j \in 1..Len(out') /\ out'[j] = ms[k]
    BY <1>4, <2>1, Zenon
  <2>3. Carries(out[j], n)'
    BY <1>7, <2>2, Zenon DEF Carries
  <2> QED
    BY <2>2, <2>3, Zenon DEF OnItsWay
<1> QED
  BY <1>2, <1>5, <1>6, <1>7, Zenon

\* The client takes the first message.
LEMMA MailTaken ==
  ASSUME StreamInv, out # <<>>, out' = Tail(out), UNCHANGED history
  PROVE  /\ out[1] \in Messages
         /\ out' \in Seq(Messages)
         /\ MailOK'
         /\ \A n : OnItsWay(n) => OnItsWay(n)' \/ Carries(out[1], n)
<1>1. out \in Seq(Messages) /\ Len(out) \in Nat \ {0}
  BY EmptySeq, Zenon DEF StreamInv, ClientBounds, StreamTypeOK, Messages
<1>2. out[1] \in Messages
  <2>1. 1 \in 1..Len(out)
    BY <1>1
  <2> QED
    BY <1>1, <2>1, ElementOfSeq, Zenon
<1>3. /\ out' \in Seq(Messages) /\ Len(out') = Len(out) - 1
      /\ \A i \in 1..Len(out') : out'[i] = out[i + 1]
  BY <1>1, HeadTailProperties, Zenon
<1>4. MailOK'
  <2> SUFFICES ASSUME NEW i \in 1..Len(out')
               PROVE  /\ out'[i][1] = "event" => out'[i][2] < history
                      /\ out'[i][1] = "events" => Stretch(out'[i][2])
                      /\ out'[i] # <<"auth_ok">>
    BY Zenon DEF MailOK, Stretch
  <2>1. i + 1 \in 1..Len(out) /\ i + 1 # 1 /\ out'[i] = out[i + 1]
    BY <1>1, <1>3
  <2> QED
    BY <2>1, Zenon DEF StreamInv, ClientBounds, MailOK
<1>5. ASSUME NEW n, OnItsWay(n), ~Carries(out[1], n) PROVE OnItsWay(n)'
  <2>1. PICK k \in 1..Len(out) : Carries(out[k], n)
    BY <1>5, Zenon DEF OnItsWay
  <2>2. k # 1
    BY <1>5, <2>1, Zenon
  <2>3. k - 1 \in 1..Len(out') /\ (k - 1) + 1 = k
    BY <1>1, <1>3, <2>2
  <2>4. out'[k - 1] = out[k]
    BY <1>3, <2>3, Zenon
  <2> QED
    BY <2>1, <2>3, <2>4, Zenon DEF OnItsWay, Carries
<1> QED
  BY <1>2, <1>3, <1>4, <1>5, Zenon

\* handle_connection subscribes: the pump is not live yet.
LEMMA AcceptClient ==
  ASSUME StreamInv, BusInv', Accept
  PROVE  ClientBounds' /\ Delivered'
<1>1. /\ UNCHANGED <<kind, link, connections, asked, transcript, resume, from, out, history>>
      /\ link = "authenticating" /\ phase[Conn] = "off" /\ phase'[Conn] = "subscribed"
  BY PumpSubscribes, Zenon
  DEF Accept, Subscribe, clientVars, emitVars, StreamInv, BusInv, BusBounds, TypeOK
<1>2. StreamTypeOK'
  BY <1>1, Zenon DEF StreamInv, ClientBounds, StreamTypeOK, BusInv, BusBounds
<1>3. CursorOK'
  BY <1>1, Zenon DEF StreamInv, ClientBounds, CursorOK
<1>4. MailOK'
  BY <1>1, Zenon DEF StreamInv, ClientBounds, MailOK, Stretch
<1>5. HandshakeOK'
  BY <1>1, Zenon DEF StreamInv, ClientBounds, HandshakeOK
<1> QED
  BY <1>1, <1>2, <1>3, <1>4, <1>5, Zenon DEF ClientBounds, Delivered

\* auth_ok is the first message, and the pump has handled nothing.
LEMMA AuthOkClient ==
  ASSUME StreamInv, BusInv', AuthOk
  PROVE  ClientBounds' /\ Delivered'
<1>1. /\ UNCHANGED <<kind, link, connections, asked, transcript, resume, from, history>>
      /\ phase[Conn] = "subscribed" /\ phase'[Conn] = "live" /\ seen'[Conn] = <<>>
  BY PumpSubscribes, Zenon
  DEF AuthOk, CatchUp, clientVars, emitVars, StreamInv, BusInv, BusBounds, TypeOK
<1>2. out = <<>> /\ link = "authenticating"
  BY <1>1, Zenon DEF StreamInv, ClientBounds, HandshakeOK
<1>3. out' = <<<<"auth_ok">>>>
  BY <1>2 DEF AuthOk
<1>4. out' \in Seq(Messages) /\ Len(out') = 1 /\ out'[1] = <<"auth_ok">>
  BY <1>3 DEF Messages
<1>5. StreamTypeOK'
  BY <1>1, <1>4, Zenon DEF StreamInv, ClientBounds, StreamTypeOK, Messages, BusInv, BusBounds
<1>6. CursorOK'
  BY <1>1, Zenon DEF StreamInv, ClientBounds, CursorOK
<1>7. MailOK'
  BY <1>1, <1>2, <1>4 DEF MailOK
<1>8. HandshakeOK'
  BY <1>1, <1>2, Zenon DEF StreamInv, ClientBounds, HandshakeOK
<1>9. Delivered'
  BY <1>1, <1>2, EmptySeq DEF Delivered
<1> QED
  BY <1>5, <1>6, <1>7, <1>8, <1>9, Zenon DEF ClientBounds

\* pump_events: what the pump has handled since is at the end of the queue.
LEMMA PumpClient ==
  ASSUME StreamInv, BusInv', Pump
  PROVE  ClientBounds' /\ Delivered'
<1> DEFINE old == Len(seen[Conn])
           new == Len(seen'[Conn]) - old
           ms == [k \in 1..new |-> <<"event", seen'[Conn][old + k]>>]
<1>1. /\ UNCHANGED <<kind, link, connections, asked, transcript, resume, from, history>>
      /\ UNCHANGED <<phase, start>> /\ phase[Conn] = "live"
      /\ out' = out \o ms
  BY Zenon DEF Pump, Receive, Lag, clientVars, emitVars
<1>2. /\ seen \in [Subscribers -> Seq(0..MaxEvents)]
      /\ seen[Conn] \in Seq(0..MaxEvents) /\ seen'[Conn] \in Seq(0..MaxEvents)
      /\ \A i \in 1..Len(seen'[Conn]) : seen'[Conn][i] < history'
      /\ MaxEvents \in Nat
  BY PumpSubscribes, BusAssumption, Zenon DEF StreamInv, BusInv, BusBounds, TypeOK
<1>3. old \in Nat /\ Len(seen'[Conn]) \in Nat
  BY <1>2, LenProperties, Zenon
<1>4. Len(seen'[Conn]) >= old /\ \A i \in 1..old : seen'[Conn][i] = seen[Conn][i]
  <2>1. CASE Receive(Conn)
    <3>1. CASE seen'[Conn] = seen[Conn]
      BY <1>3, <3>1
    <3>2. CASE seen'[Conn] # seen[Conn]
      <4>1. seen'[Conn] = Append(seen[Conn], sent[cursor[Conn] + 1])
        BY <1>2, <2>1, <3>2, PumpSubscribes, Zenon DEF Receive
      <4> QED
        BY <1>2, <1>3, <4>1, AppendProperties
    <3> QED
      BY <3>1, <3>2, Zenon
  <2>2. CASE Lag(Conn)
    <3> DEFINE p == Since(next[Conn])
               q == seen[Conn]
    <3>1. seen'[Conn] = q \o p
      BY <1>2, <2>2, PumpSubscribes, Zenon DEF Lag
    <3>2. p \in Seq(0..MaxEvents) /\ q \in Seq(0..MaxEvents)
      BY <1>2, PumpSubscribes, SinceProperties, BusAssumption
      DEF StreamInv, BusInv, BusBounds, TypeOK
    <3>3. Len(p) \in Nat
      BY <3>2, LenProperties, Zenon
    <3> HIDE DEF p, q
    <3>4. /\ Len(q \o p) = Len(q) + Len(p)
          /\ \A i \in 1..(Len(q) + Len(p)) :
               (q \o p)[i] = IF i <= Len(q) THEN q[i] ELSE p[i - Len(q)]
      BY <3>2, ConcatProperties, Zenon
    <3>5. Len(q) \in Nat
      BY <3>2, LenProperties, Zenon
    <3>6. Len(q \o p) >= Len(q) /\ \A i \in 1..Len(q) : (q \o p)[i] = q[i]
      BY <3>3, <3>4, <3>5
    <3> QED
      BY <3>1, <3>6, Zenon DEF q
  <2> QED
    BY <2>1, <2>2, Zenon DEF Pump
<1>5. new \in Nat /\ old + new = Len(seen'[Conn])
  BY <1>3, <1>4
<1>6. ASSUME NEW k \in 1..new
      PROVE  /\ old + k \in 1..Len(seen'[Conn]) /\ seen'[Conn][old + k] \in Nat
             /\ seen'[Conn][old + k] < history
             /\ ms[k] = <<"event", seen'[Conn][old + k]>>
  <2>1. old + k \in 1..Len(seen'[Conn])
    BY <1>3, <1>5
  <2> QED
    BY <1>1, <1>2, <2>1, ElementOfSeq
<1>7. ms \in [1..new -> Messages]
  BY <1>6, Zenon DEF Messages
<1> HIDE DEF ms, new
<1>8. ms \in Seq(Messages) /\ Len(ms) = new
  BY <1>5, <1>7, ListIsSeq, Zenon
<1>9. \A k \in 1..Len(ms) :
        /\ ms[k][1] = "event" => ms[k][2] < history
        /\ ms[k][1] = "events" => Stretch(ms[k][2])
        /\ ms[k] # <<"auth_ok">>
  BY <1>6, <1>8
<1>10. /\ out' \in Seq(Messages) /\ MailOK'
       /\ \A n : OnItsWay(n) => OnItsWay(n)'
       /\ \A k \in 1..Len(ms), n \in Nat : Carries(ms[k], n) => OnItsWay(n)'
  BY <1>1, <1>8, <1>9, MailAppended, Zenon
<1>11. StreamTypeOK'
  BY <1>1, <1>10, Zenon DEF StreamInv, ClientBounds, StreamTypeOK, Messages, BusInv, BusBounds
<1>12. CursorOK'
  BY <1>1, Zenon DEF StreamInv, ClientBounds, CursorOK
<1>13. HandshakeOK'
  BY <1>1, Zenon DEF StreamInv, ClientBounds, HandshakeOK
<1>14. Delivered'
  <2>1. \A n : Got(n) => Got(n)'
    BY <1>1, Zenon DEF Got, Has
  <2>2. ASSUME NEW n, NEW i \in 1..Len(seen'[Conn]), n = seen'[Conn][i]
        PROVE  Got(n)' \/ OnItsWay(n)'
    <3>1. CASE i <= old
      <4>1. i \in 1..old /\ n = seen[Conn][i]
        BY <1>3, <1>4, <2>2, <3>1
      <4>2. Got(n) \/ OnItsWay(n)
        BY <1>1, <4>1, Zenon DEF StreamInv, Delivered
      <4> QED
        BY <1>10, <2>1, <4>2, Zenon
    <3>2. CASE ~(i <= old)
      <4>1. i - old \in 1..new /\ old + (i - old) = i
        BY <1>3, <1>5, <3>2
      <4>2. Carries(ms[i - old], n) /\ n \in Nat
        BY <1>6, <2>2, <4>1, Zenon DEF Carries
      <4> QED
        BY <1>8, <1>10, <4>1, <4>2, Zenon
    <3> QED
      BY <3>1, <3>2, Zenon
  <2>3. \A i \in 1..Len(seen'[Conn]) : (Got(seen[Conn][i]) \/ OnItsWay(seen[Conn][i]))'
    BY <2>2, Zenon
  <2>4. link = "ready" /\ asked = <<>> =>
          \A n \in from..(start[Conn] - 1) : Got(n)' \/ OnItsWay(n)'
    BY <1>1, <1>10, <2>1, Zenon DEF StreamInv, Delivered
  <2> QED
    BY <1>1, <2>3, <2>4, Zenon DEF Delivered
<1> QED
  BY <1>10, <1>11, <1>12, <1>13, <1>14, Zenon DEF ClientBounds

\* read_incoming serves the request: the backlog holds everything from the
\* event asked for to the history as it is now, which is at least what there
\* was when the pump started.
LEMMA BacklogClient ==
  ASSUME StreamInv, BusInv', Backlog
  PROVE  ClientBounds' /\ Delivered'
<1> DEFINE events == Since(from)
           ms == <<<<"events", events>>>>
<1>1. asked = <<from>> /\ link = "ready"
  BY Zenon DEF StreamInv, ClientBounds, HandshakeOK, Backlog
<1>2. /\ UNCHANGED <<kind, link, connections, transcript, resume, from, history>>
      /\ UNCHANGED <<phase, start, seen>>
  BY Zenon DEF Backlog, busVars, emitVars, subVars
<1>3. /\ from \in Nat /\ resume \in Nat /\ history \in 0..MaxEvents /\ history \in Nat
      /\ from <= history /\ start[Conn] \in Nat /\ start[Conn] <= history
      /\ out \in Seq(Messages) /\ MaxEvents \in Nat
  BY BusAssumption, PumpSubscribes
  DEF StreamInv, ClientBounds, StreamTypeOK, CursorOK, BusInv, BusBounds, TypeOK, Messages
<1>4. /\ events \in Seq(0..MaxEvents) /\ Len(events) = history - from
      /\ \A k \in 1..(history - from) : events[k] = from + k - 1
  BY <1>3, SinceProperties, Zenon
<1>5. out' = Append(out, <<"events", events>>) /\ asked' = <<>>
  BY <1>1 DEF Backlog
<1> HIDE DEF events
<1>6. events \in Seq(Nat)
  BY <1>3, <1>4, SeqMonotonic
<1>7. <<"events", events>> \in Messages
  BY <1>6, Zenon DEF Messages
<1>8. out' = out \o ms
  BY <1>3, <1>5, <1>7, AppendIsConcat, Zenon
<1>9. ms \in Seq(Messages) /\ Len(ms) = 1 /\ ms[1] = <<"events", events>>
  BY <1>7
<1>10. Stretch(events)
  BY <1>3, <1>4 DEF Stretch
<1> HIDE DEF ms
<1>11. \A k \in 1..Len(ms) :
         /\ ms[k][1] = "event" => ms[k][2] < history
         /\ ms[k][1] = "events" => Stretch(ms[k][2])
         /\ ms[k] # <<"auth_ok">>
  BY <1>9, <1>10
<1>12. /\ out' \in Seq(Messages) /\ MailOK'
       /\ \A n : OnItsWay(n) => OnItsWay(n)'
       /\ \A k \in 1..Len(ms), n \in Nat : Carries(ms[k], n) => OnItsWay(n)'
  BY <1>2, <1>8, <1>9, <1>11, MailAppended, Zenon
<1>13. StreamTypeOK'
  BY <1>2, <1>5, <1>12, EmptySeq, Zenon
  DEF StreamInv, ClientBounds, StreamTypeOK, Messages, BusInv, BusBounds
<1>14. CursorOK'
  BY <1>2, Zenon DEF StreamInv, ClientBounds, CursorOK
<1>15. HandshakeOK'
  BY <1>1, <1>2, <1>5, Zenon DEF StreamInv, ClientBounds, HandshakeOK
<1>16. Delivered'
  <2>1. \A n : Got(n) => Got(n)'
    BY <1>2, Zenon DEF Got, Has
  <2>2. ASSUME NEW n \in from..(start[Conn] - 1) PROVE OnItsWay(n)'
    <3>1. n - from + 1 \in 1..(history - from) /\ from + (n - from + 1) - 1 = n /\ n \in Nat
      BY <1>3
    <3>2. n - from + 1 \in 1..Len(events) /\ events[n - from + 1] = n
      BY <1>4, <3>1, Zenon
    <3>3. Carries(ms[1], n)
      BY <1>9, <3>2 DEF Carries
    <3>4. 1 \in 1..Len(ms)
      BY <1>9
    <3> QED
      BY <1>12, <3>1, <3>3, <3>4, Zenon
  <2>3. phase[Conn] = "live" => \A i \in 1..Len(seen[Conn]) :
          Got(seen[Conn][i])' \/ OnItsWay(seen[Conn][i])'
    <3> SUFFICES ASSUME phase[Conn] = "live", NEW n, NEW i \in 1..Len(seen[Conn]),
                        n = seen[Conn][i]
                 PROVE  Got(n)' \/ OnItsWay(n)'
      BY <1>2, Zenon
    <3> QED
      BY <1>12, <2>1, Zenon DEF StreamInv, Delivered
  <2> QED
    BY <1>2, <2>2, <2>3, Zenon DEF Delivered
<1> QED
  BY <1>12, <1>13, <1>14, <1>15, <1>16, Zenon DEF ClientBounds

\* The client connects: the connection is silent.
LEMMA ConnectClient ==
  ASSUME StreamInv, BusInv', Connect
  PROVE  ClientBounds' /\ Delivered'
<1>1. /\ UNCHANGED <<kind, asked, transcript, resume, from, out, history, phase>>
      /\ link' = "authenticating" /\ link = "down"
      /\ connections < MaxConnections /\ connections' = connections + 1
  BY Zenon DEF Connect, busVars, emitVars, subVars
<1>2. phase[Conn] = "off" /\ out = <<>> /\ asked = <<>>
  BY <1>1, Zenon DEF StreamInv, ClientBounds, HandshakeOK
<1>3. connections' \in 0..MaxConnections
  BY <1>1, StreamAssumption DEF StreamInv, ClientBounds, StreamTypeOK
<1>4. StreamTypeOK'
  BY <1>1, <1>3, Zenon DEF StreamInv, ClientBounds, StreamTypeOK, BusInv, BusBounds
<1>5. CursorOK'
  BY <1>1, Zenon DEF StreamInv, ClientBounds, CursorOK
<1>6. MailOK'
  BY <1>1, <1>2, EmptySeq DEF MailOK
<1>7. HandshakeOK'
  BY <1>1, <1>2, Zenon DEF HandshakeOK
<1> QED
  BY <1>1, <1>2, <1>4, <1>5, <1>6, <1>7, Zenon DEF ClientBounds, Delivered

\* The connection drops: nothing is on its way, and nothing is owed.
LEMMA DropClient ==
  ASSUME StreamInv, BusInv', Drop
  PROVE  ClientBounds' /\ Delivered'
<1>1. /\ UNCHANGED <<kind, connections, transcript, resume, from, history>>
      /\ link' = "down" /\ out' = <<>> /\ asked' = <<>> /\ phase'[Conn] = "off"
  BY PumpSubscribes, Zenon DEF Drop, emitVars, StreamInv, BusInv, BusBounds, TypeOK
<1>2. StreamTypeOK'
  BY <1>1, EmptySeq, Zenon DEF StreamInv, ClientBounds, StreamTypeOK, BusInv, BusBounds
<1>3. CursorOK'
  BY <1>1, Zenon DEF StreamInv, ClientBounds, CursorOK
<1>4. MailOK'
  BY <1>1, EmptySeq DEF MailOK
<1>5. HandshakeOK'
  BY <1>1, Zenon DEF HandshakeOK
<1> QED
  BY <1>1, <1>2, <1>3, <1>4, <1>5, Zenon DEF ClientBounds, Delivered

\* The client asks from its cursor on: on auth_ok, or once its key is stored.
LEMMA AskClient ==
  ASSUME StreamInv, BusInv', OnAuthOk \/ KeySaved
  PROVE  ClientBounds' /\ Delivered'
<1>1. /\ UNCHANGED <<kind, connections, transcript, resume, history, phase, seen, start>>
      /\ link' \in {"saving", "ready"}
  BY Zenon DEF OnAuthOk, KeySaved, busVars, emitVars, subVars
<1>2. asked = <<>> /\ phase[Conn] = "live"
  <2>1. CASE OnAuthOk
    <3>1. out # <<>> /\ out[1] = <<"auth_ok">> /\ 1 \in 1..Len(out)
      BY <2>1, EmptySeq DEF OnAuthOk, StreamInv, ClientBounds, StreamTypeOK
    <3> QED
      BY <3>1, Zenon DEF StreamInv, ClientBounds, MailOK, HandshakeOK
  <2>2. CASE KeySaved
    BY <2>2, Zenon DEF KeySaved, StreamInv, ClientBounds, HandshakeOK
  <2> QED
    BY <2>1, <2>2, Zenon
<1>3. /\ out' \in Seq(Messages) /\ MailOK'
      /\ \A n : OnItsWay(n) => OnItsWay(n)'
  <2>1. CASE OnAuthOk
    <3>1. \A n : ~Carries(out[1], n)
      BY <2>1 DEF OnAuthOk, Carries
    <3> QED
      BY <1>1, <2>1, <3>1, MailTaken, Zenon DEF OnAuthOk
  <2>2. CASE KeySaved
    BY <1>1, <2>2, Zenon
    DEF KeySaved, StreamInv, ClientBounds, StreamTypeOK, Messages, MailOK, Stretch, OnItsWay,
        Carries
  <2> QED
    BY <2>1, <2>2, Zenon
<1>4. \/ link' = "ready" /\ asked' = <<resume>> /\ from' = resume
      \/ link' = "saving" /\ asked' = <<>> /\ from' = from
  BY <1>2 DEF OnAuthOk, KeySaved, Ask
<1>5. resume \in 0..MaxEvents /\ resume \in Nat /\ from \in 0..MaxEvents
  BY BusAssumption DEF StreamInv, ClientBounds, StreamTypeOK
<1>6. asked' \in Seq(Nat) /\ from' \in 0..MaxEvents
  <2>1. <<resume>> \in Seq(Nat) /\ <<>> \in Seq(Nat)
    BY <1>5
  <2> QED
    BY <1>4, <1>5, <2>1, Zenon
<1>7. StreamTypeOK'
  BY <1>1, <1>3, <1>6, Zenon DEF StreamInv, ClientBounds, StreamTypeOK, Messages, BusInv, BusBounds
<1>8. CursorOK'
  BY <1>1, <1>4, <1>5 DEF StreamInv, ClientBounds, CursorOK
<1>9. HandshakeOK'
  BY <1>1, <1>2, <1>4, Zenon DEF HandshakeOK
<1>10. Delivered'
  <2>1. \A n : Got(n) => Got(n)'
    BY <1>1, Zenon DEF Got, Has
  <2>2. \A i \in 1..Len(seen[Conn]) : Got(seen[Conn][i])' \/ OnItsWay(seen[Conn][i])'
    <3> SUFFICES ASSUME NEW n, NEW i \in 1..Len(seen[Conn]), n = seen[Conn][i]
                 PROVE  Got(n)' \/ OnItsWay(n)'
      BY <1>1, Zenon
    <3> QED
      BY <1>2, <1>3, <2>1, Zenon DEF StreamInv, Delivered
  <2>3. ~(link' = "ready" /\ asked' = <<>>)
    BY <1>4
  <2> QED
    BY <1>1, <2>2, <2>3, Zenon DEF Delivered
<1> QED
  BY <1>3, <1>7, <1>8, <1>9, <1>10, Zenon DEF ClientBounds

\* The cursor moves to just past an event above it, and never back.
LEMMA CursorMoves ==
  ASSUME StreamInv, NEW event \in Nat, event < history
  PROVE  /\ After(event) \in 0..MaxEvents /\ After(event) <= history
         /\ resume <= After(event) /\ event < After(event)
         /\ resume \in Nat /\ After(event) \in Nat
<1>1. resume \in Nat /\ history \in Nat /\ resume <= history /\ history <= MaxEvents
      /\ MaxEvents \in Nat
  BY BusAssumption DEF StreamInv, ClientBounds, StreamTypeOK, CursorOK, TypeOK
<1> QED
  BY <1>1 DEF After

\* An event that is not shown is below the cursor.
LEMMA SkippedBelow ==
  ASSUME StreamInv, NEW event \in Nat, ~Shown(event)
  PROVE  event < resume /\ Got(event)
<1>1. resume \in Nat
  BY BusAssumption DEF StreamInv, ClientBounds, StreamTypeOK
<1>2. CASE kind = "tui"
  BY <1>1, <1>2 DEF Shown, Got
<1>3. CASE kind # "tui"
  <2>1. PICK i \in 1..Len(transcript) : transcript[i] = event
    BY <1>3, Zenon DEF Shown
  <2> QED
    BY <1>3, <2>1, Zenon DEF StreamInv, ClientBounds, CursorOK, Got, Has
<1> QED
  BY <1>2, <1>3, Zenon

\* The client applies new events: its transcript grows by them, its cursor
\* moves past them.
LEMMA TranscriptGrows ==
  ASSUME StreamInv, NEW new \in Seq(0..MaxEvents), transcript' = transcript \o new,
         resume' \in Nat, resume <= resume', UNCHANGED kind,
         \A i \in 1..Len(new) : new[i] < resume'
  PROVE  /\ transcript' \in Seq(0..MaxEvents)
         /\ \A i \in 1..Len(transcript') : transcript'[i] < resume'
         /\ \A n \in Nat : Got(n) => Got(n)'
         /\ \A i \in 1..Len(new) : \E j \in 1..Len(transcript') : transcript'[j] = new[i]
<1> DEFINE q == transcript
<1>1. /\ q \in Seq(0..MaxEvents) /\ Len(q) \in Nat /\ Len(new) \in Nat
      /\ \A i \in 1..Len(q) : q[i] < resume /\ q[i] \in Nat
      /\ resume \in Nat
  BY BusAssumption, LenProperties, ElementOfSeq
  DEF StreamInv, ClientBounds, StreamTypeOK, CursorOK
<1>2. transcript' = q \o new
  BY Zenon
<1> HIDE DEF q
<1>3. /\ q \o new \in Seq(0..MaxEvents) /\ Len(q \o new) = Len(q) + Len(new)
      /\ \A i \in 1..(Len(q) + Len(new)) :
           (q \o new)[i] = IF i <= Len(q) THEN q[i] ELSE new[i - Len(q)]
  BY <1>1, ConcatProperties, Zenon
<1>4. ASSUME NEW i \in 1..Len(q \o new) PROVE (q \o new)[i] < resume'
  <2>1. CASE i <= Len(q)
    BY <1>1, <1>3, <2>1
  <2>2. CASE ~(i <= Len(q))
    <3>1. i - Len(q) \in 1..Len(new) /\ (q \o new)[i] = new[i - Len(q)]
      BY <1>1, <1>3, <2>2
    <3> QED
      BY <3>1, Zenon
  <2> QED
    BY <2>1, <2>2, Zenon
<1>5. ASSUME NEW i \in 1..Len(q) PROVE i \in 1..Len(q \o new) /\ (q \o new)[i] = q[i]
  BY <1>1, <1>3
<1>6. ASSUME NEW i \in 1..Len(new)
      PROVE  Len(q) + i \in 1..Len(q \o new) /\ (q \o new)[Len(q) + i] = new[i]
  <2>1. Len(q) + i \in 1..(Len(q) + Len(new)) /\ ~(Len(q) + i <= Len(q))
        /\ Len(q) + i - Len(q) = i
    BY <1>1
  <2> QED
    BY <1>3, <2>1
<1>7. ASSUME NEW n \in Nat, Got(n) PROVE Got(n)'
  <2>1. CASE kind = "tui"
    BY <1>1, <1>7, <2>1 DEF Got
  <2>2. CASE kind # "tui"
    BY <1>2, <1>5, <1>7, <2>2, Zenon DEF Got, Has, q
  <2> QED
    BY <2>1, <2>2, Zenon
<1> QED
  BY <1>2, <1>3, <1>4, <1>6, <1>7, Zenon

\* The client takes a message with events, all of which it then has.
LEMMA TakenClient ==
  ASSUME StreamInv, BusInv', out # <<>>, out' = Tail(out),
         UNCHANGED <<busVars, kind, link, connections, asked, from>>,
         NEW new \in Seq(0..MaxEvents), transcript' = transcript \o new,
         resume' \in 0..MaxEvents, resume <= resume', resume' <= history,
         \A i \in 1..Len(new) : new[i] < resume',
         \A n \in Nat : Carries(out[1], n) => Got(n)'
  PROVE  ClientBounds' /\ Delivered'
<1>1. UNCHANGED <<history, phase, start, seen>>
  BY Zenon DEF busVars, emitVars, subVars
<1>2. /\ out' \in Seq(Messages) /\ MailOK'
      /\ \A n : OnItsWay(n) => OnItsWay(n)' \/ Carries(out[1], n)
  BY <1>1, MailTaken, Zenon
<1>3. /\ resume' \in Nat /\ resume \in Nat /\ from \in Nat /\ start[Conn] \in Nat
      /\ \A i \in 1..Len(seen[Conn]) : seen[Conn][i] \in Nat
  <2>1. /\ resume \in 0..MaxEvents /\ from \in 0..MaxEvents
        /\ start \in [Subscribers -> 0..MaxEvents]
        /\ seen \in [Subscribers -> Seq(0..MaxEvents)]
    BY Zenon DEF StreamInv, ClientBounds, StreamTypeOK, TypeOK
  <2>2. start[Conn] \in 0..MaxEvents /\ seen[Conn] \in Seq(0..MaxEvents)
    BY <2>1, PumpSubscribes, Zenon
  <2>3. \A i \in 1..Len(seen[Conn]) : seen[Conn][i] \in 0..MaxEvents
    BY <2>2, ElementOfSeq, Zenon
  <2> QED
    BY <2>1, <2>2, <2>3, BusAssumption
<1>4. /\ transcript' \in Seq(0..MaxEvents)
      /\ \A i \in 1..Len(transcript') : transcript'[i] < resume'
      /\ \A n \in Nat : Got(n) => Got(n)'
  BY <1>3, TranscriptGrows, Zenon
<1>5. StreamTypeOK'
  BY <1>1, <1>2, <1>4, Zenon DEF StreamInv, ClientBounds, StreamTypeOK, Messages, BusInv, BusBounds
<1>6. CursorOK'
  BY <1>1, <1>3, <1>4 DEF StreamInv, ClientBounds, CursorOK
<1>7. HandshakeOK'
  BY <1>1, Zenon DEF StreamInv, ClientBounds, HandshakeOK
<1>8. Delivered'
  <2>1. \A n \in Nat : Got(n) \/ OnItsWay(n) => Got(n)' \/ OnItsWay(n)'
    BY <1>2, <1>4, Zenon
  <2>2. phase[Conn] = "live" => \A i \in 1..Len(seen[Conn]) :
          Got(seen[Conn][i])' \/ OnItsWay(seen[Conn][i])'
    <3> SUFFICES ASSUME phase[Conn] = "live", NEW n, NEW i \in 1..Len(seen[Conn]),
                        n = seen[Conn][i]
                 PROVE  Got(n)' \/ OnItsWay(n)'
      BY <1>1, Zenon
    <3> QED
      BY <1>3, <2>1, Zenon DEF StreamInv, Delivered
  <2>3. phase[Conn] = "live" /\ link = "ready" /\ asked = <<>> =>
          \A n \in from..(start[Conn] - 1) : Got(n)' \/ OnItsWay(n)'
    BY <1>3, <2>1 DEF StreamInv, Delivered
  <2> QED
    BY <1>1, <2>2, <2>3, Zenon DEF Delivered
<1> QED
  BY <1>2, <1>5, <1>6, <1>7, <1>8, Zenon DEF ClientBounds

\* The client receives a live event.
LEMMA OnEventClient ==
  ASSUME StreamInv, BusInv', OnEvent
  PROVE  ClientBounds' /\ Delivered'
<1>1. out # <<>> /\ out[1][1] = "event" /\ out[1] \in Messages /\ 1 \in 1..Len(out)
  BY ElementOfSeq, EmptySeq DEF OnEvent, StreamInv, ClientBounds, StreamTypeOK, Messages
<1>2. PICK event \in Nat :
        event = out[1][2] /\ event < history /\ out[1] = <<"event", event>>
  BY <1>1, MessageShape, Zenon DEF StreamInv, ClientBounds, MailOK
<1>3. /\ out' = Tail(out) /\ resume' = After(event)
      /\ transcript' = IF Shown(event) THEN Append(transcript, event) ELSE transcript
      /\ UNCHANGED <<busVars, kind, link, connections, asked, from>>
  BY <1>2, Zenon DEF OnEvent
<1>4. \A n : Carries(out[1], n) => n = event
  BY <1>2 DEF Carries
<1> DEFINE new == IF Shown(event) THEN <<event>> ELSE <<>>
<1>5. /\ After(event) \in 0..MaxEvents /\ After(event) <= history
      /\ resume <= After(event) /\ event < After(event) /\ After(event) \in Nat
  BY <1>2, CursorMoves, Zenon
<1>6. event \in 0..MaxEvents /\ transcript \in Seq(0..MaxEvents)
  BY <1>2, BusAssumption DEF StreamInv, ClientBounds, StreamTypeOK, TypeOK
<1>7. new \in Seq(0..MaxEvents) /\ transcript' = transcript \o new
      /\ \A i \in 1..Len(new) : new[i] = event
  <2>1. CASE Shown(event)
    BY <1>3, <1>6, <2>1, AppendIsConcat
  <2>2. CASE ~Shown(event)
    BY <1>3, <1>6, <2>2, EmptySeq, ConcatEmptySeq
  <2> QED
    BY <2>1, <2>2, Zenon
<1>8. Got(event)'
  <2>1. CASE Shown(event)
    <3>1. Len(Append(transcript, event)) = Len(transcript) + 1
          /\ Append(transcript, event)[Len(transcript) + 1] = event
          /\ Len(transcript) \in Nat
      BY <1>6, AppendProperties, LenProperties
    <3>2. Len(transcript) + 1 \in 1..Len(transcript')
          /\ transcript'[Len(transcript) + 1] = event
      BY <1>3, <2>1, <3>1
    <3> QED
      BY <1>3, <1>5, <3>2, Zenon DEF Got, Has
  <2>2. CASE ~Shown(event)
    BY <1>2, <1>3, <1>5, <2>2, SkippedBelow, Zenon DEF Got, Has
  <2> QED
    BY <2>1, <2>2, Zenon
<1> HIDE DEF new
<1>9. \A i \in 1..Len(new) : new[i] < resume'
  BY <1>3, <1>5, <1>7, Zenon
<1>10. \A n \in Nat : Carries(out[1], n) => Got(n)'
  BY <1>4, <1>8, Zenon
<1> QED
  BY <1>1, <1>3, <1>5, <1>7, <1>9, <1>10, TakenClient, Zenon

\* What the client makes of a backlog: the events it shows, in order.
ReadAs(events, new) ==
  /\ Stretch(events)
  /\ \A i \in 1..Len(new) :
       /\ new[i] \in 0..(history - 1) /\ Shown(new[i])
       /\ \E j \in 1..Len(events) : events[j] = new[i]
  /\ \A i, j \in 1..Len(new) : i < j => new[i] < new[j]
  /\ \A j \in 1..Len(events) :
       Shown(events[j]) => \E i \in 1..Len(new) : new[i] = events[j]
  /\ Len(new) <= history
  /\ transcript' = transcript \o new
  /\ resume' = IF Len(events) = 0 THEN resume ELSE After(events[Len(events)])

\* insertAll and apply_events show the events that Shown picks, all of them.
LEMMA BacklogRead ==
  ASSUME StreamInv, OnEvents
  PROVE  \E events \in Seq(Nat), new \in Seq(0..MaxEvents) :
           out[1][1] = "events" /\ out[1][2] = events /\ ReadAs(events, new)
<1>1. out # <<>> /\ out[1][1] = "events" /\ out[1] \in Messages /\ 1 \in 1..Len(out)
  BY ElementOfSeq, EmptySeq DEF OnEvents, StreamInv, ClientBounds, StreamTypeOK, Messages
<1>2. PICK events \in Seq(Nat) : events = out[1][2] /\ Stretch(events)
  BY <1>1, MessageShape, Zenon DEF StreamInv, ClientBounds, MailOK
<1>3. history \in Nat /\ history <= MaxEvents /\ MaxEvents \in Nat
  BY BusAssumption DEF StreamInv, ClientBounds, StreamTypeOK, TypeOK
<1>4. /\ Len(events) \in Nat /\ DOMAIN events = 1..Len(events)
      /\ \A j \in 1..Len(events) : events[j] \in 0..(history - 1)
      /\ events = <<>> <=> Len(events) = 0
  <2>1. Len(events) \in Nat /\ DOMAIN events = 1..Len(events)
    BY LenProperties, Zenon
  <2>2. \A j \in 1..Len(events) : events[j] \in 0..(history - 1)
    BY <1>2, <1>3, ElementOfSeq DEF Stretch
  <2>3. events = <<>> <=> Len(events) = 0
    BY EmptySeq, Zenon
  <2> QED
    BY <2>1, <2>2, <2>3, Zenon
<1> DEFINE S == {events[i] : i \in {j \in DOMAIN events : Shown(events[j])}}
           N == Cardinality(S)
<1>5. PICK new \in InOrder(S) : transcript' = transcript \o new
  BY <1>2, Zenon DEF OnEvents
<1>6. /\ S \subseteq 0..(history - 1)
      /\ \A x \in S : Shown(x) /\ \E j \in 1..Len(events) : events[j] = x
      /\ \A j \in 1..Len(events) : Shown(events[j]) => events[j] \in S
  BY <1>4, Zenon
<1> HIDE DEF S
<1>7. IsFiniteSet(S) /\ N <= history /\ S \subseteq Nat
  <2>1. IsFiniteSet(0..(history - 1)) /\ Cardinality(0..(history - 1)) = history
    BY <1>3, FS_Interval
  <2>2. S \in SUBSET (0..(history - 1)) /\ S \subseteq Nat
    BY <1>3, <1>6
  <2>3. IsFiniteSet(S) /\ Cardinality(S) <= Cardinality(0..(history - 1))
    BY <2>1, <2>2, FS_Subset, Zenon
  <2> QED
    BY <2>1, <2>2, <2>3, Zenon
<1>8. /\ N \in Nat /\ new \in [1..N -> S]
      /\ \A i, j \in 1..N : i < j => new[i] < new[j]
      /\ \A x \in S : \E i \in 1..N : new[i] = x
  BY <1>7, InOrderLists, Zenon
<1> HIDE DEF N
<1>9. new \in Seq(0..MaxEvents) /\ Len(new) = N
  <2>1. S \subseteq 0..MaxEvents
    BY <1>3, <1>6
  <2>2. N \in Nat /\ new \in [1..N -> S]
    BY <1>8, Zenon
  <2>3. new \in [1..N -> 0..MaxEvents]
    BY <2>1, <2>2, Zenon
  <2> QED
    BY <2>2, <2>3, ListIsSeq, Zenon
<1>10. resume' = IF Len(events) = 0 THEN resume ELSE After(events[Len(events)])
  BY <1>2, <1>4, Zenon DEF OnEvents
<1>11. \A i \in 1..Len(new) :
         /\ new[i] \in 0..(history - 1) /\ Shown(new[i])
         /\ \E j \in 1..Len(events) : events[j] = new[i]
  BY <1>6, <1>8, <1>9, Zenon
<1>12. \A j \in 1..Len(events) :
         Shown(events[j]) => \E i \in 1..Len(new) : new[i] = events[j]
  BY <1>6, <1>8, <1>9, Zenon
<1>13. ReadAs(events, new)
  BY <1>2, <1>5, <1>7, <1>8, <1>9, <1>10, <1>11, <1>12, Zenon DEF ReadAs
<1> QED
  BY <1>1, <1>2, <1>9, <1>13, Zenon

\* The client receives a backlog.
LEMMA OnEventsClient ==
  ASSUME StreamInv, BusInv', OnEvents
  PROVE  ClientBounds' /\ Delivered'
<1>1. PICK events \in Seq(Nat), new \in Seq(0..MaxEvents) :
        out[1][1] = "events" /\ out[1][2] = events /\ ReadAs(events, new)
  BY BacklogRead, Zenon
<1>2. /\ out # <<>> /\ out' = Tail(out) /\ transcript' = transcript \o new
      /\ UNCHANGED <<busVars, kind, link, connections, asked, from>>
  BY <1>1, Zenon DEF OnEvents, ReadAs
<1>3. /\ resume \in 0..MaxEvents /\ resume \in Nat /\ resume <= history
      /\ history \in Nat /\ Len(events) \in Nat
      /\ \A j \in 1..Len(events) : events[j] \in Nat
  BY BusAssumption, LenProperties, ElementOfSeq
  DEF StreamInv, ClientBounds, StreamTypeOK, CursorOK, TypeOK
<1>4. /\ resume' \in 0..MaxEvents /\ resume' \in Nat /\ resume <= resume' /\ resume' <= history
      /\ \A j \in 1..Len(events) : events[j] < resume'
  <2>1. CASE Len(events) = 0
    <3>1. resume' = resume
      BY <1>1, <2>1, Zenon DEF ReadAs
    <3> QED
      BY <1>3, <2>1, <3>1
  <2>2. CASE Len(events) # 0
    <3> DEFINE last == events[Len(events)]
    <3>1. Len(events) \in 1..Len(events)
      BY <1>3, <2>2
    <3>2. last \in Nat /\ last < history /\ resume' = After(last)
      BY <1>1, <1>3, <2>2, <3>1, Zenon DEF ReadAs, Stretch
    <3>3. ASSUME NEW j \in 1..Len(events) PROVE events[j] <= last
      <4>1. CASE j = Len(events)
        BY <3>2, <4>1
      <4>2. CASE j < Len(events)
        <5>1. events[j] < last
          BY <1>1, <3>1, <4>2, Zenon DEF ReadAs, Stretch
        <5> QED
          BY <1>3, <3>2, <5>1
      <4> QED
        BY <1>3, <4>1, <4>2
    <3> HIDE DEF last
    <3>4. /\ resume' \in 0..MaxEvents /\ resume' \in Nat /\ resume' <= history
          /\ resume <= resume' /\ last < resume'
      BY <3>2, CursorMoves, Zenon
    <3> QED
      BY <1>3, <3>2, <3>3, <3>4
  <2> QED
    BY <2>1, <2>2, Zenon
<1>5. \A i \in 1..Len(new) : new[i] < resume'
  BY <1>1, <1>4, Zenon DEF ReadAs
<1>6. /\ \A n \in Nat : Got(n) => Got(n)'
      /\ \A i \in 1..Len(new) : \E j \in 1..Len(transcript') : transcript'[j] = new[i]
  BY <1>2, <1>4, <1>5, TranscriptGrows, Zenon
<1>7. ASSUME NEW n \in Nat, Carries(out[1], n) PROVE Got(n)'
  <2>1. PICK j \in 1..Len(events) : events[j] = n
    BY <1>1, <1>7 DEF Carries
  <2>2. CASE ~Shown(n)
    BY <1>6, <2>2, SkippedBelow, Zenon
  <2>3. CASE Shown(n) /\ kind = "tui"
    BY <1>2, <1>4, <2>1, <2>3, Zenon DEF Got
  <2>4. CASE Shown(n) /\ kind # "tui"
    <3>1. PICK i \in 1..Len(new) : new[i] = n
      BY <1>1, <2>1, <2>4, Zenon DEF ReadAs
    <3> QED
      BY <1>2, <1>6, <2>4, <3>1, Zenon DEF Got, Has
  <2> QED
    BY <2>2, <2>3, <2>4, Zenon
<1> QED
  BY <1>2, <1>4, <1>5, <1>7, TakenClient, Zenon

\* Nothing happens.
LEMMA QuietClient ==
  ASSUME StreamInv, BusInv', UNCHANGED streamVars
  PROVE  ClientBounds' /\ Delivered'
<1>1. UNCHANGED <<kind, link, connections, asked, transcript, resume, from, out, history,
                  phase, start, seen>>
  BY Zenon DEF streamVars, clientVars, busVars, emitVars, subVars
<1>2. StreamTypeOK'
  BY <1>1, Zenon DEF StreamInv, ClientBounds, StreamTypeOK, BusInv, BusBounds
<1>3. CursorOK' /\ HandshakeOK'
  BY <1>1, Zenon DEF StreamInv, ClientBounds, CursorOK, HandshakeOK
<1>4. MailOK'
  BY <1>1, Zenon DEF StreamInv, ClientBounds, MailOK, Stretch
<1>5. \A n : (Got(n) => Got(n)') /\ (OnItsWay(n) => OnItsWay(n)')
  BY <1>1, Zenon DEF Got, Has, OnItsWay, Carries
<1>6. Delivered'
  BY <1>1, <1>5, Zenon DEF StreamInv, Delivered
<1> QED
  BY <1>2, <1>3, <1>4, <1>6, Zenon DEF ClientBounds

\* Every step of the stream keeps its invariant.
LEMMA StreamStep == StreamInv /\ [StreamNext]_streamVars => StreamInv'
<1> SUFFICES ASSUME StreamInv, [StreamNext]_streamVars
             PROVE  StreamInv'
  BY Zenon
<1>1. BusInv'
  BY StreamBusStep, Zenon DEF StreamInv
<1>2. StreamIdle => UNCHANGED streamVars
  BY Zenon DEF StreamIdle
<1>3. ClientBounds' /\ Delivered'
  BY <1>1, <1>2, ProduceClient, AcceptClient, AuthOkClient, PumpClient, BacklogClient,
     ConnectClient, AskClient, OnEventClient, OnEventsClient, DropClient, QuietClient, Zenon
  DEF StreamNext
<1> QED
  BY <1>1, <1>3, Zenon DEF StreamInv

\* The stream starts with nothing emitted, nothing connected, nothing shown.
LEMMA StreamStart == StreamInit => StreamInv
<1> SUFFICES ASSUME StreamInit PROVE StreamInv
  BY Zenon
<1>1. BusInv /\ history = 0
  BY BusInit, Zenon DEF StreamInit, Init
<1>2. phase[Conn] = "off"
  BY PumpSubscribes, Zenon DEF StreamInit, Init
<1>3. StreamTypeOK
  <2>1. resume \in 0..MaxEvents /\ from \in 0..MaxEvents /\ connections \in 0..MaxConnections
    BY BusAssumption, StreamAssumption DEF StreamInit
  <2> QED
    BY <1>1, <2>1, EmptySeq, Zenon DEF StreamInit, StreamTypeOK, BusInv, BusBounds
<1>4. CursorOK /\ MailOK
  BY <1>1, EmptySeq DEF StreamInit, CursorOK, MailOK
<1>5. HandshakeOK
  BY <1>2, Zenon DEF StreamInit, HandshakeOK
<1> QED
  BY <1>1, <1>2, <1>3, <1>4, <1>5, Zenon DEF StreamInv, ClientBounds, Delivered

\* The invariant holds throughout.
THEOREM StreamInvariant == StreamSpec => []StreamInv
BY StreamStart, StreamStep, PTL DEF StreamSpec

\* At rest, the client has what the pump should have handled and what it asked
\* for, unless it was overtaken.
LEMMA RestHas ==
  ASSUME StreamInv, AtRest, NEW n \in from..(history - 1)
  PROVE  Got(n) \/ Overtaken(n)
<1>1. Len(out) = 0 /\ phase[Conn] = "live" /\ link = "ready" /\ asked = <<>>
  BY EmptySeq, Zenon DEF AtRest, CaughtUp
<1>2. ~OnItsWay(n)
  BY <1>1 DEF OnItsWay
<1>3. from \in Nat /\ history \in Nat /\ n \in Nat /\ start[Conn] \in Nat
  BY BusAssumption, PumpSubscribes DEF StreamInv, ClientBounds, StreamTypeOK, TypeOK
<1>4. CASE n >= start[Conn]
  <2>1. n \in start[Conn]..(history - 1)
    BY <1>3, <1>4
  <2>2. SeenBy(Conn, n) \/ Overtaken(n)
    BY <2>1, PumpSubscribes, NothingElseMissed, Zenon
    DEF StreamInv, AtRest, MissedOnlyIfOvertaken, SeenBy
  <2> QED
    BY <1>1, <1>2, <2>2, Zenon DEF StreamInv, Delivered, SeenBy
<1>5. CASE n < start[Conn]
  <2>1. n \in from..(start[Conn] - 1)
    BY <1>3, <1>5
  <2> QED
    BY <1>1, <1>2, <2>1, Zenon DEF StreamInv, Delivered
<1> QED
  BY <1>3, <1>4, <1>5

\* For any number of events, emitters, listeners and connections, and any
\* capacity of the channel: a client at rest has its cursor at the end of the
\* history (track_seq, nextSeq, since).
THEOREM CursorReachesEnd == StreamSpec => []ClientReachesEnd
<1>1. StreamInv => ClientReachesEnd
  <2> SUFFICES ASSUME StreamInv, AtRest PROVE resume = history
    BY Zenon DEF ClientReachesEnd
  <2>1. /\ history \in Nat /\ resume \in Nat /\ from \in Nat
        /\ resume <= history /\ from <= resume /\ Len(sent) \in Nat
        /\ sent \in Seq(Nat) /\ \A i \in 1..Len(sent) : sent[i] < history
    BY BusAssumption, LenProperties
    DEF StreamInv, ClientBounds, CursorOK, StreamTypeOK, TypeOK, BusInv, BusBounds
  <2>2. CASE resume < history
    <3>1. history - 1 \in from..(history - 1) /\ history - 1 \in Nat
      BY <2>1, <2>2
    <3>2. ~Overtaken(history - 1)
      <4>1. \A i \in 1..Len(sent) : sent[i] \in Nat /\ ~(sent[i] > history - 1)
        BY <2>1, ElementOfSeq
      <4> QED
        BY <4>1, Zenon DEF Overtaken
    <3>3. Got(history - 1)
      BY <3>1, <3>2, RestHas, Zenon
    <3>4. history - 1 < resume
      BY <3>3, Zenon DEF Got, Has, StreamInv, ClientBounds, CursorOK
    <3> QED
      BY <2>1, <2>2, <3>4
  <2> QED
    BY <2>1, <2>2
<1> QED
  BY <1>1, StreamInvariant, PTL

\* The graphical client at rest holds every event from the one it asked for
\* on whose broadcast was not overtaken (EventStore.insertAll).
THEOREM RequestCompleted == StreamSpec => []CompleteFromRequest
<1>1. StreamInv => CompleteFromRequest
  BY RestHas, Zenon DEF CompleteFromRequest, Got
<1> QED
  BY <1>1, StreamInvariant, PTL

\* The pump and the listeners of the stream, too, miss only what was overtaken.
THEOREM StreamLosesNothing == StreamSpec => []MissedOnlyIfOvertaken
<1>1. StreamInv => MissedOnlyIfOvertaken
  BY NothingElseMissed, Zenon DEF StreamInv
<1> QED
  BY <1>1, StreamInvariant, PTL

-----------------------------------------------------------------------------
(* The stream implements the event log, step by step.                      *)

\* A step of the log, or none.
LogStep == [Promise!Emitted \/ Promise!Show]_(Promise!logVars)

\* The client shows a list of events it had not shown: a Show step.
LEMMA ShowsNew ==
  ASSUME StreamInv, UNCHANGED <<history, kind>>,
         NEW new \in Seq(0..MaxEvents), Len(new) # 0, Len(new) <= history,
         \A i \in 1..Len(new) : new[i] \in 0..(history - 1) /\ Shown(new[i]),
         \A i, j \in 1..Len(new) : i < j => new[i] < new[j],
         transcript' = transcript \o new,
         resume' = After(new[Len(new)])
  PROVE  Promise!Show
<1> DEFINE N == Len(new)
<1>1. N \in Nat /\ N \in 1..history /\ new \in [1..N -> 0..MaxEvents]
  <2>1. N \in Nat /\ new \in [1..N -> 0..MaxEvents]
    BY LenProperties, Zenon
  <2>2. history \in Nat
    BY BusAssumption DEF StreamInv, ClientBounds, StreamTypeOK, TypeOK
  <2> QED
    BY <2>1, <2>2
<1>2. ASSUME NEW i \in 1..N PROVE new[i] \in Promise!Unshown
  <2>1. new[i] \in 0..(history - 1) /\ Shown(new[i])
    BY Zenon
  <2>2. resume \in Nat /\ history \in Nat /\ \A k \in 1..Len(transcript) : transcript[k] < resume
    BY BusAssumption DEF StreamInv, ClientBounds, StreamTypeOK, CursorOK, TypeOK
  <2>3. CASE kind = "tui"
    <3>1. new[i] >= resume
      BY <2>1, <2>3, Zenon DEF Shown
    <3>2. \A k \in 1..Len(transcript) : transcript[k] # new[i]
      BY <2>1, <2>2, <3>1
    <3> QED
      BY <2>1, <3>1, <3>2, Zenon DEF Promise!Unshown
  <2>4. CASE kind # "tui"
    BY <2>1, <2>4, Zenon DEF Promise!Unshown, Shown
  <2> QED
    BY <2>3, <2>4, Zenon
<1>3. new \in [1..N -> Promise!Unshown]
  BY <1>1, <1>2, Zenon
<1>4. /\ \A i, j \in 1..N : i < j => new[i] < new[j]
      /\ transcript' = transcript \o new
      /\ resume' = IF new[N] >= resume THEN new[N] + 1 ELSE resume
      /\ history' = history /\ (kind = "tui")' = (kind = "tui")
  BY Zenon DEF After
<1> HIDE DEF N
<1> QED
  BY <1>1, <1>3, <1>4, Zenon DEF Promise!Show

\* A live event is shown, or leaves transcript and cursor alone.
LEMMA OnEventShows ==
  ASSUME StreamInv, OnEvent
  PROVE  LogStep
<1>1. out # <<>> /\ out[1][1] = "event" /\ out[1] \in Messages /\ 1 \in 1..Len(out)
  BY ElementOfSeq, EmptySeq DEF OnEvent, StreamInv, ClientBounds, StreamTypeOK, Messages
<1>2. PICK event \in Nat : event = out[1][2] /\ event < history
  BY <1>1, MessageShape, Zenon DEF StreamInv, ClientBounds, MailOK
<1>3. /\ transcript' = IF Shown(event) THEN Append(transcript, event) ELSE transcript
      /\ resume' = After(event) /\ UNCHANGED <<history, kind>>
  BY <1>2, Zenon DEF OnEvent, busVars, emitVars
<1>4. /\ event \in 0..(history - 1) /\ event \in 0..MaxEvents /\ history \in Nat
      /\ transcript \in Seq(0..MaxEvents) /\ resume \in Nat
  BY <1>2, BusAssumption DEF StreamInv, ClientBounds, StreamTypeOK, TypeOK
<1>5. CASE Shown(event)
  <2>1. transcript' = transcript \o <<event>>
    BY <1>3, <1>4, <1>5, AppendIsConcat, Zenon
  <2>2. <<event>> \in Seq(0..MaxEvents) /\ Len(<<event>>) = 1 /\ <<event>>[1] = event
    BY <1>4
  <2> DEFINE new == <<event>>
  <2>3. new \in Seq(0..MaxEvents) /\ Len(new) = 1 /\ new[1] = event
        /\ transcript' = transcript \o new
    BY <2>1, <2>2, Zenon
  <2> HIDE DEF new
  <2>4. /\ Len(new) # 0 /\ Len(new) <= history /\ resume' = After(new[Len(new)])
        /\ \A i \in 1..Len(new) : new[i] \in 0..(history - 1) /\ Shown(new[i])
        /\ \A i, j \in 1..Len(new) : i < j => new[i] < new[j]
    BY <1>2, <1>3, <1>4, <1>5, <2>3
  <2>5. Promise!Show
    BY <1>3, <2>3, <2>4, ShowsNew, Zenon
  <2> QED
    BY <2>5, Zenon DEF LogStep
<1>6. CASE ~Shown(event)
  <2>1. resume' = resume
    BY <1>2, <1>3, <1>4, <1>6, SkippedBelow DEF After
  <2> QED
    BY <1>3, <1>6, <2>1, Zenon DEF LogStep, Promise!logVars
<1> QED
  BY <1>5, <1>6, Zenon

\* A backlog is shown in one step, as far as it is new.
LEMMA OnEventsShows ==
  ASSUME StreamInv, OnEvents
  PROVE  LogStep
<1>1. PICK events \in Seq(Nat), new \in Seq(0..MaxEvents) : ReadAs(events, new)
  BY BacklogRead, Zenon
<1>2. UNCHANGED <<history, kind>> /\ transcript' = transcript \o new
  BY <1>1, Zenon DEF OnEvents, busVars, emitVars, ReadAs
<1>3. /\ resume \in Nat /\ history \in Nat /\ Len(events) \in Nat /\ Len(new) \in Nat
      /\ \A j \in 1..Len(events) : events[j] \in Nat
      /\ transcript \in Seq(0..MaxEvents)
  BY BusAssumption, LenProperties, ElementOfSeq
  DEF StreamInv, ClientBounds, StreamTypeOK, TypeOK
<1> DEFINE last == events[Len(events)]
<1>4. Len(events) # 0 => /\ Len(events) \in 1..Len(events) /\ last \in Nat
                         /\ resume' = After(last)
                         /\ \A j \in 1..Len(events) : events[j] <= last
  <2> SUFFICES ASSUME Len(events) # 0
               PROVE  /\ Len(events) \in 1..Len(events) /\ last \in Nat
                      /\ resume' = After(last)
                      /\ \A j \in 1..Len(events) : events[j] <= last
    BY Zenon
  <2>1. Len(events) \in 1..Len(events) /\ last \in Nat
    BY <1>3
  <2>2. resume' = After(last)
    BY <1>1, Zenon DEF ReadAs
  <2>3. ASSUME NEW j \in 1..Len(events) PROVE events[j] <= last
    <3>1. j < Len(events) => events[j] < last
      BY <1>1, <2>1, Zenon DEF ReadAs, Stretch
    <3> QED
      BY <1>3, <2>1, <3>1
  <2> QED
    BY <2>1, <2>2, <2>3, Zenon
<1> HIDE DEF last
<1>5. CASE Len(new) = 0
  <2>1. transcript' = transcript
    <3>1. new = <<>>
      BY <1>5, EmptySeq, Zenon
    <3> QED
      BY <1>2, <1>3, <3>1, ConcatEmptySeq, Zenon
  <2>2. resume' = resume
    <3>1. CASE Len(events) = 0
      BY <1>1, <3>1, Zenon DEF ReadAs
    <3>2. CASE Len(events) # 0
      <4>1. ~Shown(last)
        BY <1>1, <1>4, <1>5, <3>2 DEF ReadAs, last
      <4> QED
        BY <1>3, <1>4, <3>2, <4>1, SkippedBelow DEF After
    <3> QED
      BY <3>1, <3>2, Zenon
  <2> QED
    BY <1>2, <2>1, <2>2, Zenon DEF LogStep, Promise!logVars
<1>6. CASE Len(new) # 0
  <2> DEFINE top == new[Len(new)]
  <2>1. Len(new) \in 1..Len(new)
    BY <1>3, <1>6
  <2>2. top \in Nat /\ Shown(top) /\ \E j \in 1..Len(events) : events[j] = top
    BY <1>1, <1>3, <2>1, Zenon DEF ReadAs
  <2>3. Len(events) # 0 /\ top <= last
    BY <1>3, <1>4, <2>2
  <2>4. resume' = After(top)
    <3>1. CASE Shown(last)
      <4>1. PICK i \in 1..Len(new) : new[i] = last
        BY <1>1, <1>4, <2>3, <3>1, Zenon DEF ReadAs, last
      <4>2. i < Len(new) => last < top
        BY <1>1, <2>1, <4>1, Zenon DEF ReadAs
      <4>3. top = last
        BY <1>3, <1>4, <2>2, <2>3, <4>1, <4>2
      <4> QED
        BY <1>4, <2>3, <4>3, Zenon
    <3>2. CASE ~Shown(last)
      <4>1. last < resume
        BY <1>4, <2>3, <3>2, SkippedBelow, Zenon
      <4> QED
        BY <1>3, <1>4, <2>2, <2>3, <4>1 DEF After
    <3> QED
      BY <3>1, <3>2, Zenon
  <2>5. Promise!Show
    BY <1>1, <1>2, <1>6, <2>4, ShowsNew, Zenon DEF ReadAs
  <2> QED
    BY <2>5, Zenon DEF LogStep
<1> QED
  BY <1>5, <1>6, Zenon

\* The stream implements the event log, for any number of events, emitters,
\* listeners and connections: each event is shown once, after it was emitted,
\* the terminal client's in order, and the cursor is one past the highest event
\* shown (apply_event, track_seq, EventStore.insert).
THEOREM StreamImplementsLog == StreamSpec => ImplementsLog
<1>1. StreamInit => Promise!LogInit
  BY Zenon DEF StreamInit, Init, Promise!LogInit
<1>2. StreamInv /\ [StreamNext]_streamVars => LogStep
  <2> SUFFICES ASSUME StreamInv, [StreamNext]_streamVars PROVE LogStep
    BY Zenon
  <2>1. CASE Produce
    <3>1. UNCHANGED <<transcript, resume, kind>>
      BY <2>1, ProduceLeaves, Zenon DEF StreamInv
    <3>2. history' = history \/ history' = history + 1
      BY <2>1, Zenon DEF Produce, Emit, Push, Journal, Send, Follow, Subscribe, CatchUp, Receive, Lag,
                  emitVars
    <3> QED
      BY <3>1, <3>2, Zenon DEF LogStep, Promise!logVars, Promise!Emitted
  <2>2. CASE Accept \/ AuthOk \/ Pump \/ Backlog \/ Connect \/ OnAuthOk \/ KeySaved \/ Drop
             \/ StreamIdle \/ UNCHANGED streamVars
    <3>1. UNCHANGED <<history, transcript, resume, kind>>
      BY <2>2, Zenon
      DEF Accept, AuthOk, Pump, Backlog, Connect, OnAuthOk, KeySaved, Drop, StreamIdle,
          Subscribe, CatchUp, Receive, Lag, streamVars, clientVars, busVars, emitVars
    <3> QED
      BY <3>1, Zenon DEF LogStep, Promise!logVars
  <2> QED
    BY <2>1, <2>2, OnEventShows, OnEventsShows, Zenon DEF StreamNext
<1> QED
  BY <1>1, <1>2, StreamInvariant, PTL DEF StreamSpec, ImplementsLog, Promise!LogSpec, LogStep

=============================================================================
