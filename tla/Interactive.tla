----------------------------- MODULE Interactive -----------------------------
(***************************************************************************)
(* The interactive frontend with several terminal clients: prompts,        *)
(* questions, interrupts, cost requests and shutdown, from the key press   *)
(* on one client to what every screen shows.                               *)
(*                                                                         *)
(* The server side is silo-frontend/src/interactive: mod.rs (the questions *)
(* map, the prompt queue, interrupt, shutdown, the cost watcher) and       *)
(* connection.rs (handle_message, write_outgoing).  The client side is     *)
(* silo-tui: net.rs (the connection task) and app.rs (the operators of     *)
(* TuiApp).  The harness loop is reduced to the calls it makes on the      *)
(* frontend; Conversation has the loop itself.                             *)
(*                                                                         *)
(* Every connection has a task of its own, so two handlers interleave      *)
(* between any two accesses to shared state: a prompt is logged and then   *)
(* queued, an answer takes the question out of the map, then resolves the  *)
(* call, then is logged.  Numbering an event and broadcasting it is one    *)
(* step here (EventStream has them apart), so a client receives the log in *)
(* order, but for one case: after a reconnect a live event may come before *)
(* the backlog, which apply_event then skips.                              *)
(***************************************************************************)
EXTENDS TuiApp, Functions

CONSTANTS
    Clients,
    Typists,     \* the clients that type lines, over connections that may be lost;
                 \* the others watch and answer
    MaxSent,     \* bound: messages typed by all the clients together
    MaxTurns,    \* bound: turns started
    MaxAsked,    \* bound: questions asked
    MaxDrops     \* bound: connections lost, over all the clients

\* Who resolved a question is a client, or none of these.
ASSUME ClientsAssumption == {"none", "interrupted", "dropped"} \cap Clients = {}

VARIABLES
    log,       \* the event bus
    loop,      \* where the harness loop is
    queue,     \* prompts accepted and not yet taken by the loop
    turns,     \* prompts that started a turn, in that order
    pending,   \* questions map: the question whose sender is still in it
    outcome,   \* what the one-shot channel of the current question holds
    asked,     \* number of questions asked
    interrupt, \* an interrupt command not yet consumed
    stopping,  \* a shutdown command was received
    shut,      \* the frontend's shutdown signal
    handlers,  \* handlers between two accesses to shared state
    app,       \* the state of each client
    net,       \* its connection task: "down", "up" or "over"
    cmds,      \* messages typed and not yet handled by the server
    replies,   \* answers to the client's own requests, on their way
    drops,     \* connections lost so far, by client
    lost,      \* answers lost with a connection: <<client, question>>
    due,       \* events in the backlog that is on its way to a client, or 0
    missed,    \* events a client has skipped (history)
    sent,      \* messages typed so far
    command    \* the line typed besides prompts, the same in a whole behaviour

harness == <<loop, queue, turns, asked, interrupt, stopping>>
questions == <<pending, outcome>>
server == <<shut, handlers>>
clients == <<app, net, cmds, replies, drops, lost, due,
                   missed, sent, command>>
vars == <<log, harness, questions, server, clients>>

Plain(type) == [type |-> type]
Emit(event) == log' = Append(log, event)
EmitAll(events) == log' = log \o events

TheQuestion(id) == Question(id, 1, FALSE, FALSE)
QuestionAsked(id) == [type |-> "QuestionAsked", question |-> TheQuestion(id)]
QuestionAnswered(id, by) ==
    [type |-> "QuestionAnswered", question |-> [id |-> id], by |-> by]

CommandLines == {<<"/cost">>, <<"/upload", "file">>, <<"/shutdown">>, <<"/quit">>}

\* The client redraws once it has applied all that has arrived.
CatchUp(a) ==
    LET after[i \in a.lastSeq..Len(log)] ==
          IF i = a.lastSeq THEN a ELSE ApplyEvent(after[i - 1], i, log[i])
    IN after[Len(log)]

\* The clients have connected and the harness is idle.
Init ==
    /\ log = <<Plain("AwaitingInput")>>
    /\ loop = "idle"
    /\ queue = <<>>
    /\ turns = <<>>
    /\ pending = {}
    /\ outcome = "none"
    /\ asked = 0
    /\ interrupt = FALSE
    /\ stopping = FALSE
    /\ shut = FALSE
    /\ handlers = {}
    /\ app = [c \in Clients |-> CatchUp(HandleNet(NewApp, "Connected"))]
    /\ net = [c \in Clients |-> "up"]
    /\ cmds = [c \in Clients |-> <<>>]
    /\ replies = [c \in Clients |-> <<>>]
    /\ drops = [c \in Clients |-> 0]
    /\ lost = {}
    /\ due = [c \in Clients |-> 0]
    /\ missed = [c \in Clients |-> {}]
    /\ sent = 0
    /\ command \in CommandLines

-----------------------------------------------------------------------------
(* The harness loop.                                                       *)

\* An interrupt sent while the loop was idle is consumed here.
TakePrompt ==
    /\ loop = "idle"
    /\ queue # <<>>
    /\ ~stopping
    /\ Len(turns) < MaxTurns
    /\ loop' = "turn"
    /\ queue' = Tail(queue)
    /\ turns' = Append(turns, Head(queue))
    /\ interrupt' = FALSE
    /\ UNCHANGED <<log, asked, stopping, questions, server, clients>>

(***************************************************************************)
(* run_tool of AskUserQuestion registers the question, then shows it.  No  *)
(* client can know its id before the event.                                *)
(***************************************************************************)
Ask ==
    /\ loop = "turn"
    /\ asked < MaxAsked
    /\ asked' = asked + 1
    /\ pending' = pending \cup {asked + 1}
    /\ outcome' = "none"
    /\ Emit(QuestionAsked(asked + 1))
    /\ loop' = "asking"
    /\ UNCHANGED <<queue, turns, interrupt, stopping, server, clients>>

AskReturns ==
    /\ loop \in {"asking", "told"}
    /\ outcome # "none"
    /\ Emit([type |-> "ToolResult", id |-> asked, by |-> outcome])
    /\ loop' = "turn"
    /\ UNCHANGED <<queue, turns, asked, interrupt, stopping, questions, server, clients>>

\* Mutant: an interrupt also logs a question that an answer has taken.
InterruptQuestionTwice ==
    /\ loop = "asking"
    /\ outcome = "none"
    /\ interrupt
    /\ loop' = "told"
    /\ pending' = {}
    /\ outcome' = IF pending = {} THEN outcome ELSE "interrupted"
    /\ Emit(QuestionAnswered(asked, "interrupted"))
    /\ UNCHANGED <<queue, turns, asked, interrupt, stopping, server, clients>>

\* Mutant: an interrupt logs the pending questions and does not resolve them.
InterruptQuestionForgets ==
    /\ loop = "asking"
    /\ outcome = "none"
    /\ interrupt
    /\ loop' = "told"
    /\ pending' = {}
    /\ IF pending = {} THEN UNCHANGED log
       ELSE Emit(QuestionAnswered(asked, "interrupted"))
    /\ UNCHANGED <<queue, turns, asked, interrupt, stopping, outcome, server, clients>>

(***************************************************************************)
(* Frontend::interrupt drains the map, and logs every question it resolves.*)
(* A question an answer has already taken out of the map is left to it:    *)
(* the loop waits for its outcome.                                         *)
(***************************************************************************)
InterruptQuestion ==
    /\ loop = "asking"
    /\ outcome = "none"
    /\ interrupt
    /\ loop' = "told"
    /\ pending' = {}
    /\ IF pending = {} THEN UNCHANGED <<log, outcome>>
       ELSE /\ outcome' = "interrupted"
            /\ Emit(QuestionAnswered(asked, "interrupted"))
    /\ UNCHANGED <<queue, turns, asked, interrupt, stopping, server, clients>>

\* The loop looks for a shutdown before it announces that it is idle again.
EndTurn ==
    /\ loop = "turn"
    /\ ~stopping
    /\ loop' = "idle"
    /\ \/ EmitAll(<<Plain("TurnComplete"), Plain("AwaitingInput")>>)
       \/ interrupt /\ EmitAll(<<Plain("Interrupted"), Plain("AwaitingInput")>>)
    /\ UNCHANGED <<queue, turns, asked, interrupt, stopping, questions, server, clients>>

\* A shutdown drops the call in progress: nobody holds the receiver any more.
Stop ==
    /\ stopping
    /\ loop \in {"idle", "turn", "asking"}
    /\ loop' = "ended"
    /\ outcome' = "dropped"
    /\ Emit(Plain("Shutdown"))
    /\ UNCHANGED <<queue, turns, asked, interrupt, stopping, pending, server, clients>>

(***************************************************************************)
(* Frontend::shutdown raises the signal, aborts the accept loop and the    *)
(* cost watcher, empties the questions map and waits for the connections,  *)
(* five seconds at most for each.                                          *)
(***************************************************************************)
Close ==
    /\ loop = "ended"
    /\ loop' = "closing"
    /\ shut' = TRUE
    /\ pending' = {}
    /\ UNCHANGED <<log, queue, turns, asked, interrupt, stopping, outcome,
                   handlers, clients>>

Closed ==
    /\ loop = "closing"
    /\ loop' = "closed"
    /\ \A c \in Clients : net[c] # "up"
    /\ UNCHANGED <<log, queue, turns, asked, interrupt, stopping, questions, server, clients>>

Harness ==
    \/ TakePrompt
    \/ Ask
    \/ AskReturns
    \/ InterruptQuestion
    \/ EndTurn
    \/ Stop
    \/ Close
    \/ Closed

-----------------------------------------------------------------------------
(* The connection tasks.                                                   *)

\* A connection handles one message at a time; a lost connection's handler
\* runs on beside the one of the next connection.
Free(c) == ~\E h \in handlers : h.client = c /\ h.epoch = drops[c]

Handler(c, step, ref) ==
    [client |-> c, epoch |-> drops[c], step |-> step, ref |-> ref]

Reply(c, message) ==
    /\ replies' = [replies EXCEPT ![c] = Append(@, message)]
    /\ UNCHANGED <<log, pending, interrupt, stopping, handlers>>

\* The first answer takes the question's sender; a later one finds nothing.
HandleAnswer(c, message) ==
    /\ pending' = pending \ {message.id}
    /\ handlers' = IF message.id \in pending
                   THEN handlers \cup {Handler(c, "resolve", message.id)}
                   ELSE handlers
    /\ UNCHANGED <<log, interrupt, stopping, replies>>

HandlePrompt(c) ==
    /\ Emit([type |-> "UserPrompt", client |-> c, epoch |-> drops[c]])
    /\ handlers' = handlers \cup {Handler(c, "queue", Len(log) + 1)}
    /\ UNCHANGED <<pending, interrupt, stopping, replies>>

\* What a request for a report is answered with.
ReplyTo(type) ==
    CASE type = "RequestCost" -> [type |-> "Cost", usage |-> 0]
      [] type = "RequestAccessReport" -> Plain("AccessReport")
      [] type = "RequestPairingCode" -> Plain("PairingCode")

\* Mutant: every message is handled by a task of its own.
HandleMessageSpawned(c) ==
    /\ net[c] = "up"
    /\ cmds[c] # <<>>
    /\ LET message == Head(cmds[c]) IN
       \/ message.type = "Prompt" /\ HandlePrompt(c)
       \/ message.type = "AnswerQuestion" /\ HandleAnswer(c, message)
       \/ /\ message.type = "Interrupt"
          /\ interrupt' = TRUE
          /\ UNCHANGED <<log, pending, stopping, handlers, replies>>
       \/ /\ message.type = "Shutdown"
          /\ stopping' = TRUE
          /\ UNCHANGED <<log, pending, interrupt, handlers, replies>>
       \/ /\ message.type = "UploadFile"
          /\ Emit(Plain("FileShared"))
          /\ UNCHANGED <<pending, interrupt, stopping, handlers, replies>>
       \/ /\ message.type \in {"RequestCost", "RequestAccessReport", "RequestPairingCode"}
          /\ Reply(c, ReplyTo(message.type))
    /\ cmds' = [cmds EXCEPT ![c] = Tail(@)]
    /\ UNCHANGED <<loop, queue, turns, asked, outcome, shut,
                   app, net, drops, lost, due,
                   missed, sent, command>>

HandleMessage(c) ==
    /\ net[c] = "up"
    /\ cmds[c] # <<>>
    /\ Free(c)
    /\ LET message == Head(cmds[c]) IN
       \/ message.type = "Prompt" /\ HandlePrompt(c)
       \/ message.type = "AnswerQuestion" /\ HandleAnswer(c, message)
       \/ /\ message.type = "Interrupt"
          /\ interrupt' = TRUE
          /\ UNCHANGED <<log, pending, stopping, handlers, replies>>
       \/ /\ message.type = "Shutdown"
          /\ stopping' = TRUE
          /\ UNCHANGED <<log, pending, interrupt, handlers, replies>>
       \/ /\ message.type = "UploadFile"
          /\ Emit(Plain("FileShared"))
          /\ UNCHANGED <<pending, interrupt, stopping, handlers, replies>>
       \/ /\ message.type \in {"RequestCost", "RequestAccessReport", "RequestPairingCode"}
          /\ Reply(c, ReplyTo(message.type))
    /\ cmds' = [cmds EXCEPT ![c] = Tail(@)]
    /\ UNCHANGED <<loop, queue, turns, asked, outcome, shut,
                   app, net, drops, lost, due,
                   missed, sent, command>>

QueuePrompt(h) ==
    /\ h.step = "queue"
    /\ queue' = Append(queue, h.ref)
    /\ handlers' = handlers \ {h}
    /\ UNCHANGED <<log, loop, turns, asked, interrupt, stopping, questions, shut,
                   clients>>

\* Resolving fails when the call was dropped; then nothing is logged.
Resolve(h) ==
    /\ h.step = "resolve"
    /\ IF outcome = "none" /\ h.ref = asked
       THEN /\ outcome' = h.client
            /\ handlers' = (handlers \ {h}) \cup {[h EXCEPT !.step = "log"]}
       ELSE /\ handlers' = handlers \ {h}
            /\ UNCHANGED outcome
    /\ UNCHANGED <<log, harness, pending, shut, clients>>

LogAnswer(h) ==
    /\ h.step = "log"
    /\ Emit(QuestionAnswered(h.ref, h.client))
    /\ handlers' = handlers \ {h}
    /\ UNCHANGED <<harness, questions, shut, clients>>

Server ==
    \/ \E c \in Clients : HandleMessage(c)
    \/ \E h \in handlers : QueuePrompt(h) \/ Resolve(h) \/ LogAnswer(h)

-----------------------------------------------------------------------------
(* The clients.                                                            *)

\* Authenticated, subscribed to the bus, and asking for the events after the
\* last one seen.
Connect(c) ==
    /\ net[c] = "down"
    /\ ~app[c].quit
    /\ ~shut
    /\ net' = [net EXCEPT ![c] = "up"]
    /\ app' = [app EXCEPT ![c] = HandleNet(@, "Connected")]
    /\ due' = [due EXCEPT ![c] = IF app[c].lastSeq < Len(log) THEN Len(log) ELSE 0]
    /\ UNCHANGED <<log, harness, questions, server, cmds, replies, drops, lost, missed,
                   sent, command>>

\* The backlog and the live events after it.
ReceiveEvents(c) ==
    /\ net[c] = "up"
    /\ app[c].lastSeq < Len(log)
    /\ app' = [app EXCEPT ![c] = CatchUp(@)]
    /\ due' = [due EXCEPT ![c] = 0]
    /\ UNCHANGED <<log, harness, questions, server, net, cmds, replies, drops, lost, missed,
                   sent, command>>

(***************************************************************************)
(* A live event comes before the backlog.  Applying it moves last_seq past *)
(* the backlog, whose events are then taken for duplicates.                *)
(***************************************************************************)
ReceiveLive(c) ==
    /\ net[c] = "up"
    /\ 0 < due[c] /\ due[c] < Len(log)
    /\ app' = [app EXCEPT ![c] = ApplyEvent(@, due[c] + 1, log[due[c] + 1])]
    /\ missed' = [missed EXCEPT ![c] = @ \cup (app[c].lastSeq + 1)..due[c]]
    /\ due' = [due EXCEPT ![c] = 0]
    /\ UNCHANGED <<log, harness, questions, server, net, cmds, replies, drops, lost,
                   sent, command>>

ReceiveReply(c) ==
    /\ net[c] = "up"
    /\ replies[c] # <<>>
    /\ app' = [app EXCEPT ![c] = HandleServer(@, Head(replies[c]))]
    /\ replies' = [replies EXCEPT ![c] = Tail(@)]
    /\ UNCHANGED <<log, harness, questions, server, net, cmds, drops, lost, due,
                   missed, sent, command>>

(***************************************************************************)
(* On the signal the writer sends what is queued, announces the shutdown   *)
(* and closes the socket; the event pump has stopped, so the last events   *)
(* may be missing.  The client does not reconnect.                         *)
(***************************************************************************)
ReceiveShutdown(c) ==
    /\ net[c] = "up"
    /\ shut
    /\ Free(c)
    /\ app' = [app EXCEPT ![c] = HandleServer(@, Plain("ShuttingDown"))]
    /\ net' = [net EXCEPT ![c] = "over"]
    /\ UNCHANGED <<log, harness, questions, server, cmds, replies, drops, lost, due,
                   missed, sent, command>>

Lost == FoldFunction(LAMBDA x, y : x + y, 0, drops)

(***************************************************************************)
(* A connection is lost with the messages that were written to it and not  *)
(* read by the server; the others stay in the command channel.             *)
(***************************************************************************)
Drop(c) ==
    /\ net[c] = "up"
    /\ c \in Typists
    /\ Lost < MaxDrops
    /\ \E n \in 0..Len(cmds[c]) :
         /\ cmds' = [cmds EXCEPT ![c] = SubSeq(@, n + 1, Len(@))]
         /\ lost' = lost \cup
               {<<c, m.id>> : m \in {x \in Range(SubSeq(cmds[c], 1, n)) :
                                       x.type = "AnswerQuestion"}}
    /\ net' = [net EXCEPT ![c] = "down"]
    /\ app' = [app EXCEPT ![c] = HandleNet(@, "Disconnected")]
    /\ replies' = [replies EXCEPT ![c] = <<>>]
    /\ drops' = [drops EXCEPT ![c] = @ + 1]
    /\ due' = [due EXCEPT ![c] = 0]
    /\ UNCHANGED <<log, harness, questions, server, missed, sent, command>>

\* A connection that does not end within its five seconds is aborted; a
\* handler has no await between its accesses, so none is cut in two.
Timeout(c) ==
    /\ loop = "closing"
    /\ net[c] = "up"
    /\ Free(c)
    /\ net' = [net EXCEPT ![c] = "down"]
    /\ app' = [app EXCEPT ![c] = HandleNet(@, "Disconnected")]
    /\ UNCHANGED <<log, harness, questions, server, cmds, replies, drops, lost, due,
                   missed, sent, command>>

\* A line is typed and sent in one step; what was typed is nobody else's.
Press(c) ==
    /\ ~app[c].quit
    /\ \E key \in {"enter", "esc"}, line \in {<<"hi">>, command} :
         LET typed == IF c \in Typists THEN [app[c] EXCEPT !.input = line]
                      ELSE app[c]
             result == HandleKey(typed, key, None, TRUE)
         IN
         /\ result # Quiet(typed)
         /\ sent + Len(result.sent) <= MaxSent
         /\ app' = [app EXCEPT ![c] = ClearInput(result.app)]
         /\ cmds' = [cmds EXCEPT ![c] = @ \o result.sent]
         /\ sent' = sent + Len(result.sent)
    /\ UNCHANGED <<log, harness, questions, server, net, replies, drops, lost, due, missed,
                   command>>

\* The event loop aborts the connection task; the messages in the channel go.
Leave(c) ==
    /\ app[c].quit
    /\ net[c] # "over"
    /\ net' = [net EXCEPT ![c] = "over"]
    /\ cmds' = [cmds EXCEPT ![c] = <<>>]
    /\ UNCHANGED <<log, harness, questions, server, app, replies, drops, lost, due,
                   missed, sent, command>>

Receive(c) == ReceiveEvents(c) \/ ReceiveLive(c) \/ ReceiveReply(c) \/ ReceiveShutdown(c)

Client(c) == Connect(c) \/ Receive(c) \/ Drop(c) \/ Timeout(c) \/ Press(c) \/ Leave(c)

Next == Harness \/ Server \/ (\E c \in Clients : Client(c))

(***************************************************************************)
(* Everything but the user, the network and the model is a task that runs  *)
(* on.  Every such step uses up something bounded, so fairness of their    *)
(* disjunction is fairness of each.                                        *)
(***************************************************************************)
Progress ==
    \/ AskReturns \/ InterruptQuestion \/ Stop \/ Close \/ Closed
    \/ Server
    \/ \E c \in Clients : Receive(c) \/ Leave(c)

Fairness == WF_vars(Progress)

Spec == Init /\ [][Next]_vars /\ Fairness

-----------------------------------------------------------------------------
(* Properties.                                                             *)

Of(type) == {i \in DOMAIN log : log[i].type = type}

InHand(steps) == {h.ref : h \in {x \in handlers : x.step \in steps}}

\* The client has applied every event, and no answer is on its way to the log.
UpToDate(c) ==
    /\ net[c] = "up"
    /\ app[c].lastSeq = Len(log)
    /\ InHand({"resolve", "log"}) = {}

(***************************************************************************)
(* First answer wins: a question is answered once in the log, whoever      *)
(* answers or interrupts, and what the log says is what the tool returned. *)
(* Code: the questions map of mod.rs and handle_message of connection.rs.  *)
(***************************************************************************)
FirstAnswerWins ==
    \A i, j \in Of("QuestionAnswered") \cup Of("ToolResult") :
        LET id(k) == IF log[k].type = "ToolResult" THEN log[k].id
                     ELSE log[k].question.id
        IN id(i) = id(j) => /\ log[i].by = log[j].by
                            /\ log[i].type = log[j].type => i = j

Missed(c, type, ids) ==
    \E i \in missed[c] : log[i].type = type /\ log[i].question.id \in ids

(***************************************************************************)
(* Screens in step: a client that has caught up shows a question only      *)
(* while that question is waiting for an answer, as long as the session    *)
(* lasts: an answer by another client or an interrupt takes it off every   *)
(* screen, but for a client that skipped the question_answered event when  *)
(* it reconnected.  And while the agent waits every such client shows the  *)
(* question, unless it skipped the question_asked event, or has answered   *)
(* and its answer is still under way or was lost with its connection       *)
(* (handle_question_key takes the question off the screen before the       *)
(* answer is sent, and nothing brings it back).                            *)
(* Code: apply_event of app.rs, interrupt and run_tool of mod.rs.          *)
(***************************************************************************)
ScreensInStep ==
    \A c \in Clients : UpToDate(c) =>
        /\ Asked(app[c]) =>
              \/ app[c].question.id \in pending
              \/ loop \in {"ended", "closing", "closed"}
              \/ Missed(c, "QuestionAnswered", {app[c].question.id})
        /\ loop = "asking" /\ pending # {} =>
              \/ app[c].question.id \in pending
              \/ \E m \in Range(cmds[c]) : m.type = "AnswerQuestion" /\ m.id \in pending
              \/ \E q \in pending : <<c, q>> \in lost
              \/ Missed(c, "QuestionAsked", pending)

Connection(i) == <<log[i].client, log[i].epoch>>

(***************************************************************************)
(* Prompts start turns one each and in the order every client saw them:    *)
(* a logged prompt is with its handler or has one place in the order of    *)
(* turns and queue, and two prompts are out of log order only if they came *)
(* over two connections (their handlers log and queue in two steps).       *)
(* Code: the Prompt arm of handle_message and next_user_input of mod.rs;   *)
(* PROTOCOLS.md promises arrival order.                                    *)
(***************************************************************************)
PromptsInOrder ==
    LET order == turns \o queue IN
    /\ Of("UserPrompt") \ InHand({"queue"}) = Range(order)
    /\ \A i, j \in DOMAIN order : i < j =>
          \/ order[i] < order[j]
          \/ Connection(order[i]) # Connection(order[j])

(***************************************************************************)
(* An interrupt ends a question: whatever races with it, the blocked       *)
(* AskUserQuestion call returns.  Code: interrupt of mod.rs and            *)
(* run_frontend_tool of agent.rs.                                          *)
(***************************************************************************)
InterruptEndsQuestion ==
    (interrupt /\ loop \in {"asking", "told"}) ~> loop \notin {"asking", "told"}

=============================================================================
