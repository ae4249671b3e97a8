---------------------------- MODULE EventStream ----------------------------
(***************************************************************************)
(* The event stream end to end: the bus, one client connection of the      *)
(* interactive frontend (interactive/connection.rs), and a client: the     *)
(* terminal client (apps/silo-tui, net.rs and app.rs) or the graphical one *)
(* (apps/silo_app, harness_connection.dart and event_store.dart).          *)
(*                                                                         *)
(* After auth_ok the server pushes live events; the client asks for the    *)
(* backlog.  The backlog is put on the same outgoing queue by another task *)
(* (read_incoming) than the live events (pump_events).  The connection may *)
(* drop at any time; the client connects again and resumes.                *)
(***************************************************************************)
EXTENDS EventBus, FiniteSets

CONSTANTS
  Conn,            \* the connection, the bus's only pump
  Kinds,           \* the clients considered
  MaxConnections   \* bound: connections the client makes

ASSUME StreamAssumption ==
  /\ Pumps = {Conn}
  /\ Kinds \subseteq {"tui", "app", "pairing"}
  /\ MaxConnections \in Nat \ {0}

VARIABLES
  kind,         \* "tui", "app", or "pairing": an app that first redeems a code
  link,         \* the client's connection state
  connections,  \* connections made so far
  out,          \* messages to the client, in order
  asked,        \* request_events messages to the server
  transcript,   \* the events the client has shown or stored, as they came
  resume,       \* one past the highest sequence number the client has seen
  from          \* from_seq of its last request_events, for the properties

clientVars == <<kind, link, connections, asked, transcript, resume, from>>
streamVars == <<busVars, clientVars, out>>

\* The shape of the state.
StreamTypeOK ==
  /\ TypeOK
  /\ kind \in Kinds
  /\ link \in {"down", "authenticating", "saving", "ready"}
  /\ connections \in 0..MaxConnections
  /\ out \in Seq({<<"auth_ok">>} \cup ({"event"} \X Nat) \cup ({"events"} \X Seq(Nat)))
  /\ asked \in Seq(Nat)
  /\ transcript \in Seq(0..MaxEvents)
  /\ resume \in 0..MaxEvents
  /\ from \in 0..MaxEvents

StreamInit ==
  /\ Init
  /\ kind \in Kinds
  /\ link = "down"
  /\ connections = 0
  /\ out = <<>>
  /\ asked = <<>>
  /\ transcript = <<>>
  /\ resume = 0
  /\ from = 0

-----------------------------------------------------------------------------
(* The server.                                                             *)

\* handle_connection, once the client is authenticated: subscribe, ...
Accept == link = "authenticating" /\ Subscribe(Conn) /\ UNCHANGED <<clientVars, out>>

\* ... read next_seq, send auth_ok, start the pump.
AuthOk ==
  /\ CatchUp(Conn)
  /\ out' = Append(out, <<"auth_ok">>)
  /\ UNCHANGED clientVars

\* pump_events queues one message per event.
Pump ==
  /\ Receive(Conn) \/ Lag(Conn)
  /\ LET old == Len(seen[Conn])
         new == Len(seen'[Conn]) - old
     IN out' = out \o [k \in 1..new |-> <<"event", seen'[Conn][old + k]>>]
  /\ UNCHANGED clientVars

\* read_incoming handles request_events.
Backlog ==
  /\ asked # <<>>
  /\ out' = Append(out, <<"events", Since(asked[1])>>)
  /\ asked' = Tail(asked)
  /\ UNCHANGED <<busVars, kind, link, connections, transcript, resume, from>>

-----------------------------------------------------------------------------
(* The client.                                                             *)

Connect ==
  /\ link = "down"
  /\ connections < MaxConnections
  /\ link' = "authenticating"
  /\ connections' = connections + 1
  /\ UNCHANGED <<busVars, kind, out, asked, transcript, resume, from>>

\* Mutant: one event too far.
AskPast == asked' = Append(asked, resume + 1) /\ from' = resume + 1

\* request_events from the next event the client has not seen.
Ask == asked' = Append(asked, resume) /\ from' = resume

\* On auth_ok the client asks for the backlog.  After pairing, the graphical
\* client first stores its new key, and goes on receiving meanwhile.
OnAuthOk ==
  /\ out # <<>> /\ out[1] = <<"auth_ok">>
  /\ out' = Tail(out)
  /\ IF kind = "pairing" /\ connections = 1
     THEN link' = "saving" /\ UNCHANGED <<asked, from>>
     ELSE link' = "ready" /\ Ask
  /\ UNCHANGED <<busVars, kind, connections, transcript, resume>>

KeySaved ==
  /\ link = "saving"
  /\ link' = "ready"
  /\ Ask
  /\ UNCHANGED <<busVars, kind, connections, out, transcript, resume>>

\* Mutant: the terminal client applies what it receives without looking at
\* the sequence number.
ShownUnchecked(event) == TRUE

\* Mutant: the graphical client, too, skips what is not above the highest
\* event seen.
ShownAbove(event) == event >= resume

\* apply_event of the terminal client skips what is not above the highest
\* event seen; the store of the graphical one only what it already holds.
Shown(event) ==
  IF kind = "tui"
  THEN event >= resume
  ELSE \A i \in 1..Len(transcript) : transcript[i] # event

\* track_seq and nextSeq: the cursor never moves backwards.
After(event) == IF event >= resume THEN event + 1 ELSE resume

OnEvent ==
  /\ out # <<>> /\ out[1][1] = "event"
  /\ out' = Tail(out)
  /\ LET event == out[1][2]
     IN /\ transcript' = IF Shown(event) THEN Append(transcript, event) ELSE transcript
        /\ resume' = After(event)
  /\ UNCHANGED <<busVars, kind, link, connections, asked, from>>

\* The ways to list a set of events in order; there is exactly one.
InOrder(events) ==
  {list \in [1..Cardinality(events) -> events] :
     \A i, j \in DOMAIN list : i < j => list[i] < list[j]}

\* A backlog is ordered, so its events are shown or skipped one by one as
\* the state before it tells.
OnEvents ==
  /\ out # <<>> /\ out[1][1] = "events"
  /\ out' = Tail(out)
  /\ LET events == out[1][2]
     IN /\ \E new \in InOrder({events[i] : i \in {j \in DOMAIN events : Shown(events[j])}}) :
             transcript' = transcript \o new
        /\ resume' = IF events = <<>> THEN resume ELSE After(events[Len(events)])
  /\ UNCHANGED <<busVars, kind, link, connections, asked, from>>

\* The connection drops: what is on its way is lost, the pump is aborted.
Drop ==
  /\ link # "down"
  /\ connections < MaxConnections
  /\ link' = "down"
  /\ out' = <<>>
  /\ asked' = <<>>
  /\ phase' = [phase EXCEPT ![Conn] = "off"]
  /\ seen' = [seen EXCEPT ![Conn] = <<>>]
  /\ UNCHANGED <<emitVars, cursor, next, start, kind, connections, transcript, resume, from>>

-----------------------------------------------------------------------------
\* Every message has been received, and the client is connected.
AtRest ==
  /\ Quiet /\ CaughtUp(Conn)
  /\ link = "ready"
  /\ out = <<>> /\ asked = <<>>

StreamIdle ==
  /\ AtRest /\ \A s \in Listeners : CaughtUp(s)
  /\ history = MaxEvents
  /\ UNCHANGED streamVars

Produce ==
  /\ (\E e \in Emitters : Emit(e)) \/ (\E s \in Listeners : Follow(s))
  /\ UNCHANGED <<clientVars, out>>

StreamNext ==
  \/ Produce
  \/ Accept \/ AuthOk \/ Pump \/ Backlog
  \/ Connect \/ OnAuthOk \/ KeySaved \/ OnEvent \/ OnEvents \/ Drop
  \/ StreamIdle

StreamSpec == StreamInit /\ [][StreamNext]_streamVars

-----------------------------------------------------------------------------
(* Properties.                                                             *)

Promise == INSTANCE EventLog WITH
  log <- history, view <- transcript, last <- resume, ordered <- (kind = "tui")

\* The stream implements the event log: whatever overlaps (live events,
\* backlogs, reconnects that ask again, lag, a key being stored), an event is
\* shown once, after it was emitted, the terminal client's in order, and the
\* cursor stays one past the highest event shown (apply_event, track_seq,
\* EventStore.insert).
ImplementsLog == Promise!LogSpec

\* A client at rest has seen the newest event of the harness, however often
\* its connection dropped and its pump lagged (track_seq, nextSeq, since).
ClientReachesEnd == AtRest => resume = history

Has(n) == \E i \in 1..Len(transcript) : transcript[i] = n

\* The graphical client at rest has every event from the one it asked for
\* on, unless a broadcast was overtaken: live events and backlog fill each
\* other's gaps in whatever order they arrive (EventStore.insertAll).
CompleteFromRequest ==
  AtRest /\ kind # "tui" =>
    \A n \in from..(history - 1) : Has(n) \/ Overtaken(n)

\* A client at rest has every event: it "sees no gaps if it requests
\* [from_seq, next_seq) once after authenticating".
TranscriptComplete == AtRest => \A n \in 0..(history - 1) : Has(n)

=============================================================================
