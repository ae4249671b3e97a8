------------------------------ MODULE EventBus ------------------------------
(***************************************************************************)
(* The event bus (crates/silo-core/src/event.rs) and the subscribers that  *)
(* follow it by sequence number: the event pump of a client connection     *)
(* (silo-frontend, interactive/connection.rs), the cost watcher            *)
(* (interactive/mod.rs) and the upload listener (silo-harness,             *)
(* uploads.rs).                                                            *)
(*                                                                         *)
(* An event is its sequence number.  `emit` pushes it to the history under *)
(* a lock, releases the lock, appends it to the journal and then           *)
(* broadcasts it; emitters run on different threads, so the three steps of *)
(* two calls interleave.                                                   *)
(***************************************************************************)
EXTENDS Naturals, Sequences

CONSTANTS
  Emitters,     \* threads that call emit
  Pumps,        \* connection pumps: they follow the bus from next_seq
  Listeners,    \* the upload listener and the cost watcher: from event 0
  Capacity,     \* slots of the broadcast channel (4096 in EventBus::new)
  MaxEvents     \* bound: events emitted

ASSUME BusAssumption ==
  /\ Capacity \in Nat \ {0}
  /\ MaxEvents \in Nat
  /\ Pumps \cap Listeners = {}

Subscribers == Pumps \cup Listeners

VARIABLES
  history,      \* number of events in the history: the next sequence number
  journal,      \* events appended to the journal
  sent,         \* events broadcast
  stage,        \* where each emitter is in emit
  holding,      \* the event each emitter has pushed
  phase,        \* state of each subscriber
  cursor,       \* broadcasts each subscriber's receiver is past
  next,         \* each subscriber's next sequence number
  start,        \* its first value, for the properties
  seen          \* the events each subscriber has handled, for the properties

emitVars == <<history, journal, sent, stage, holding>>
subVars == <<phase, cursor, next, start, seen>>
busVars == <<emitVars, subVars>>

\* The shape of the state.
TypeOK ==
  /\ history \in 0..MaxEvents
  /\ journal \in Seq(Nat)
  /\ sent \in Seq(Nat)
  /\ stage \in [Emitters -> {"idle", "journal", "send"}]
  /\ holding \in [Emitters -> Nat]
  /\ phase \in [Subscribers -> {"off", "subscribed", "live"}]
  /\ cursor \in [Subscribers -> Nat]
  /\ next \in [Subscribers -> 0..MaxEvents]
  /\ start \in [Subscribers -> 0..MaxEvents]
  /\ seen \in [Subscribers -> Seq(0..MaxEvents)]

Init ==
  /\ history = 0
  /\ journal = <<>>
  /\ sent = <<>>
  /\ stage = [e \in Emitters |-> "idle"]
  /\ holding = [e \in Emitters |-> 0]
  /\ phase = [s \in Subscribers |-> "off"]
  /\ cursor = [s \in Subscribers |-> 0]
  /\ next = [s \in Subscribers |-> 0]
  /\ start = [s \in Subscribers |-> 0]
  /\ seen = [s \in Subscribers |-> <<>>]

-----------------------------------------------------------------------------
(* emit.                                                                   *)

Push(e) ==
  /\ stage[e] = "idle"
  /\ history < MaxEvents
  /\ holding' = [holding EXCEPT ![e] = history]
  /\ history' = history + 1
  /\ stage' = [stage EXCEPT ![e] = "journal"]
  /\ UNCHANGED <<journal, sent, subVars>>

Journal(e) ==
  /\ stage[e] = "journal"
  /\ journal' = Append(journal, holding[e])
  /\ stage' = [stage EXCEPT ![e] = "send"]
  /\ UNCHANGED <<history, sent, holding, subVars>>

Send(e) ==
  /\ stage[e] = "send"
  /\ sent' = Append(sent, holding[e])
  /\ stage' = [stage EXCEPT ![e] = "idle"]
  /\ UNCHANGED <<history, journal, holding, subVars>>

Emit(e) == Push(e) \/ Journal(e) \/ Send(e)

-----------------------------------------------------------------------------
(* Subscribers.                                                            *)

\* since(from).
Since(from) == [k \in 1..(history - from) |-> from + k - 1]

\* subscribe: the receiver starts at the next broadcast.
Subscribe(s) ==
  /\ phase[s] = "off"
  /\ phase' = [phase EXCEPT ![s] = "subscribed"]
  /\ cursor' = [cursor EXCEPT ![s] = Len(sent)]
  /\ UNCHANGED <<emitVars, next, start, seen>>

\* A pump takes next_seq as it is; a listener handles the whole history.
CatchUp(s) ==
  /\ phase[s] = "subscribed"
  /\ phase' = [phase EXCEPT ![s] = "live"]
  /\ next' = [next EXCEPT ![s] = history]
  /\ start' = [start EXCEPT ![s] = IF s \in Pumps THEN history ELSE 0]
  /\ seen' = [seen EXCEPT ![s] = IF s \in Pumps THEN <<>> ELSE Since(0)]
  /\ UNCHANGED <<emitVars, cursor>>

Lagging(s) == Len(sent) - cursor[s] > Capacity

\* An event below `next` is taken for one already handled.
Receive(s) ==
  /\ phase[s] = "live"
  /\ cursor[s] < Len(sent) /\ ~Lagging(s)
  /\ cursor' = [cursor EXCEPT ![s] = @ + 1]
  /\ LET event == sent[cursor[s] + 1]
     IN IF event >= next[s]
        THEN /\ next' = [next EXCEPT ![s] = event + 1]
             /\ seen' = [seen EXCEPT ![s] = Append(@, event)]
        ELSE UNCHANGED <<next, seen>>
  /\ UNCHANGED <<emitVars, phase, start>>

\* Mutant: a lagging subscriber goes on with the oldest retained event.
LagSkipping(s) ==
  /\ phase[s] = "live"
  /\ Lagging(s)
  /\ cursor' = [cursor EXCEPT ![s] = Len(sent) - Capacity]
  /\ UNCHANGED <<emitVars, phase, next, start, seen>>

\* Lagged: the receiver moves to the oldest retained broadcast, and the
\* subscriber handles what the history has from `next` on.
Lag(s) ==
  /\ phase[s] = "live"
  /\ Lagging(s)
  /\ cursor' = [cursor EXCEPT ![s] = Len(sent) - Capacity]
  /\ seen' = [seen EXCEPT ![s] = @ \o Since(next[s])]
  /\ next' = [next EXCEPT ![s] = history]
  /\ UNCHANGED <<emitVars, phase, start>>

Follow(s) == Subscribe(s) \/ CatchUp(s) \/ Receive(s) \/ Lag(s)

-----------------------------------------------------------------------------
Quiet == \A e \in Emitters : stage[e] = "idle"

CaughtUp(s) == phase[s] = "live" /\ cursor[s] = Len(sent)

\* Everything has been emitted and handled: nothing is left to do.
Idle ==
  /\ history = MaxEvents /\ Quiet
  /\ \A s \in Subscribers : CaughtUp(s)
  /\ UNCHANGED busVars

Next ==
  \/ \E e \in Emitters : Emit(e)
  \/ \E s \in Subscribers : Follow(s)
  \/ Idle

Spec == Init /\ [][Next]_busVars

-----------------------------------------------------------------------------
(* Properties.                                                             *)

\* The broadcast of event n came after that of a later event: two calls of
\* emit overlapped.
Overtaken(n) ==
  \E i, j \in 1..Len(sent) : i < j /\ sent[j] = n /\ sent[i] > n

\* A subscriber that has nothing left to receive has handled every event from
\* its start on ("every event with seq >= next_seq reaches this client
\* through the pump"; "so no upload is skipped"), except where the broadcast
\* of an event was overtaken: lag and catching up lose nothing.
MissedOnlyIfOvertaken ==
  \A s \in Subscribers :
    Quiet /\ CaughtUp(s) =>
      \A n \in start[s]..(history - 1) :
        (\E i \in 1..Len(seen[s]) : seen[s][i] = n) \/ Overtaken(n)

=============================================================================
