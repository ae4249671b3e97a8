--------------------------- MODULE ShutdownSignal ---------------------------
(***************************************************************************)
(* Shutdown and interrupt coordination of one session                      *)
(* (crates/silo-harness/src/shutdown.rs) and the points at which the agent *)
(* loops use it (crates/silo-harness/src/agent.rs).                        *)
(*                                                                         *)
(* The frontend queues commands on one channel.  The receiver sits behind  *)
(* a mutex taken only with try_lock, and every agent task that is waiting  *)
(* for its model, a tool or a child runs wait_abort.  The one that gets    *)
(* the mutex applies commands to two watch channels (state, interrupts);   *)
(* the others watch those channels only.  The harness binary runs on the   *)
(* multi-threaded tokio runtime, so two agents interleave at every access  *)
(* to shared state, but a future is dropped only where it is parked.       *)
(***************************************************************************)
EXTENDS Naturals, Sequences

CONSTANTS
  Agents,         \* agent tasks
  Top,            \* the task of the top-level agent
  Messages,       \* final messages a Shutdown command can carry
  SignalMessage,  \* the message of the OS signal listener
  Interrupt,      \* the Interrupt command, and the Interrupted abort reason
  None,           \* no shutdown requested; no abort reason
  Nobody,         \* the receiver mutex is free
  Capacity,       \* capacity of the command channel (16 in lib.rs)
  MaxCommands     \* bound: commands sent in one behaviour

ASSUME SignalAssumption ==
  /\ Top \in Agents
  /\ Nobody \notin Agents
  /\ Interrupt \notin Messages \cup {SignalMessage}
  /\ None \notin Messages \cup {SignalMessage, Interrupt}

VARIABLES
  state,       \* watch channel: None, or the message of the first request
  interrupts,  \* watch channel: number of interrupts applied
  commands,    \* the command channel
  connected,   \* some frontend still owns a sender
  receiver,    \* the mutex holds Some(receiver), not None
  guard,       \* owner of the receiver mutex
  pc,          \* where each agent task is
  mode,        \* which use of the signal a task is in
  generation,  \* interrupt generation each turn is compared with
  seen,        \* interrupt generation each waiter last observed
  reason,      \* why each task was told to stop
  journal,     \* FrontendCommand entries of the journal
  parent,      \* who spawned a subagent and can still end it, or Nobody
  sent,        \* history: every command sent
  mark,        \* history: Len(sent) when the current turn's input arrived
  crowded      \* history: whether a subagent was running then

history == <<sent, mark, crowded>>
vars == <<state, interrupts, commands, connected, receiver, guard, pc, mode,
          generation, seen, reason, journal, parent, history>>

Command == Messages \cup {Interrupt}
Subagents == Agents \ {Top}

\* "lock", "drain": drain; "state", "gen": the two reads of the watch
\* channels; "park": the second try_lock; "hold", "watch": parked with and
\* without the receiver; "work": none of them; "off": no such task.
PCs == {"off", "work", "lock", "drain", "state", "gen", "park", "hold",
        "watch", "stopped", "ended"}

\* "idle": check before awaiting input; "wait": ShutdownSignal::wait while
\* awaiting it; "turn": check before the turn; "check": a checkpoint of a
\* turn; "abort": wait_abort.
Modes == {"idle", "wait", "turn", "check", "abort"}

Parked(a) == pc[a] \in {"hold", "watch"}
Live(a) == pc[a] # "off" /\ (a = Top => mode[a] \in {"check", "abort"})

TypeOK ==
  /\ state \in Messages \cup {SignalMessage, None}
  /\ interrupts \in Nat
  /\ commands \in Seq(Command)
  /\ connected \in BOOLEAN
  /\ receiver \in BOOLEAN
  /\ guard \in Agents \cup {Nobody}
  /\ pc \in [Agents -> PCs]
  /\ mode \in [Agents -> Modes]
  /\ generation \in [Agents -> Nat]
  /\ seen \in [Agents -> Nat]
  /\ reason \in [Agents -> Messages \cup {SignalMessage, Interrupt, None}]
  /\ journal \in Seq(Command)
  /\ sent \in Seq(Command)
  /\ mark \in Nat
  /\ parent \in [Agents -> Agents \cup {Nobody}]
  /\ crowded \in BOOLEAN

Init ==
  /\ state = None
  /\ interrupts = 0
  /\ commands = <<>>
  /\ connected = TRUE
  /\ receiver = TRUE
  /\ guard = Nobody
  /\ pc = [a \in Agents |-> IF a = Top THEN "lock" ELSE "off"]
  /\ mode = [a \in Agents |-> IF a = Top THEN "idle" ELSE "abort"]
  /\ generation = [a \in Agents |-> 0]
  /\ seen = [a \in Agents |-> 0]
  /\ reason = [a \in Agents |-> None]
  /\ journal = <<>>
  /\ sent = <<>>
  /\ mark = 0
  /\ parent = [a \in Agents |-> Nobody]
  /\ crowded = FALSE

-----------------------------------------------------------------------------
(* Requests and commands.                                                  *)

\* ShutdownSignal::request keeps the first request's message.
Requested(message) == IF state = None THEN message ELSE state

\* ShutdownSignal::apply on the oldest queued command.
ApplyHead ==
  LET command == Head(commands) IN
  /\ commands' = Tail(commands)
  /\ journal' = Append(journal, command)
  /\ state' = IF command = Interrupt THEN state ELSE Requested(command)
  /\ interrupts' = IF command = Interrupt THEN interrupts + 1 ELSE interrupts

\* A frontend sends a command; the bounded channel makes it wait when full.
Send(command) ==
  /\ connected
  /\ Len(commands) < Capacity
  /\ Len(sent) < MaxCommands
  /\ commands' = Append(commands, command)
  /\ sent' = Append(sent, command)
  /\ UNCHANGED <<state, interrupts, connected, receiver, guard, pc, mode,
                 generation, seen, reason, journal, parent, mark, crowded>>

\* The last sender is dropped.  lib.rs keeps one for the whole session, so
\* this is the component's own case, which drain, wait_abort and wait handle.
Disconnect ==
  /\ connected
  /\ connected' = FALSE
  /\ UNCHANGED <<state, interrupts, commands, receiver, guard, pc, mode,
                 generation, seen, reason, journal, parent, history>>

\* spawn_signal_listener: SIGINT or SIGTERM requests a shutdown directly.
Signal ==
  /\ state' = Requested(SignalMessage)
  /\ UNCHANGED <<interrupts, commands, connected, receiver, guard, pc, mode,
                 generation, seen, reason, journal, parent, history>>

-----------------------------------------------------------------------------
(* drain, check, wait_abort and wait, one access to shared state a step.   *)

Goto(a, label) == pc' = [pc EXCEPT ![a] = label]

\* Where a loop of wait_abort (drain first) or wait (read first) restarts.
LoopHead(a) == IF mode[a] = "wait" THEN "state" ELSE "lock"

\* try_lock of drain: when another task has the receiver, skip.
DrainTryLock(a) ==
  /\ pc[a] = "lock"
  /\ \/ guard = Nobody /\ guard' = a /\ Goto(a, "drain")
     \/ guard # Nobody /\ guard' = guard /\ Goto(a, "state")
  /\ UNCHANGED <<state, interrupts, commands, connected, receiver, mode,
                 generation, seen, reason, journal, parent, history>>

\* drain applies the queued commands one by one.
DrainOne(a) ==
  /\ pc[a] = "drain"
  /\ receiver
  /\ commands # <<>>
  /\ ApplyHead
  /\ UNCHANGED <<connected, receiver, guard, pc, mode, generation, seen,
                 reason, parent, history>>

\* try_recv found the channel empty, or empty and disconnected.
DrainEnd(a) ==
  /\ pc[a] = "drain"
  /\ receiver => commands = <<>>
  /\ receiver' = (receiver /\ connected)
  /\ guard' = Nobody
  /\ Goto(a, "state")
  /\ UNCHANGED <<state, interrupts, commands, connected, mode, generation,
                 seen, reason, journal, parent, history>>

\* Reads the shutdown state: a request stops the task, whatever it is doing.
TestState(a) ==
  /\ pc[a] = "state"
  /\ \/ /\ state # None
        /\ reason' = [reason EXCEPT ![a] = state]
        /\ Goto(a, IF Live(a) THEN "stopped" ELSE "ended")
        /\ UNCHANGED mode
     \/ /\ state = None
        /\ mode' = IF mode[a] = "idle" THEN [mode EXCEPT ![a] = "wait"] ELSE mode
        /\ Goto(a, IF mode[a] = "idle" THEN "state"
                   ELSE IF mode[a] = "wait" THEN "park" ELSE "gen")
        /\ UNCHANGED reason
  /\ UNCHANGED <<state, interrupts, commands, connected, receiver, guard,
                 generation, seen, journal, parent, history>>

\* The top-level loop snapshots the generation and starts the turn.
Snapshot(a) ==
  /\ pc[a] = "gen"
  /\ mode[a] = "turn"
  /\ generation' = [generation EXCEPT ![a] = interrupts]
  /\ mode' = [mode EXCEPT ![a] = "check"]
  /\ Goto(a, "work")
  /\ UNCHANGED <<state, interrupts, commands, connected, receiver, guard,
                 seen, reason, journal, parent, history>>

\* interrupted_since at a checkpoint, and the same test in wait_abort.
TestGeneration(a) ==
  /\ pc[a] = "gen"
  /\ mode[a] # "turn"
  /\ seen' = [seen EXCEPT ![a] = interrupts]
  /\ \/ /\ interrupts > generation[a]
        /\ reason' = [reason EXCEPT ![a] = Interrupt]
        /\ Goto(a, "stopped")
     \/ /\ interrupts <= generation[a]
        /\ Goto(a, IF mode[a] = "check" THEN "work" ELSE "park")
        /\ UNCHANGED reason
  /\ UNCHANGED <<state, interrupts, commands, connected, receiver, guard,
                 mode, generation, journal, parent, history>>

\* The second try_lock: park with the receiver if it is free and open,
\* otherwise park on the watch channels only.
Park(a) ==
  /\ pc[a] = "park"
  /\ \/ /\ guard = Nobody /\ receiver
        /\ guard' = a
        /\ Goto(a, "hold")
     \/ /\ guard # Nobody \/ ~receiver
        /\ guard' = guard
        /\ Goto(a, "watch")
  /\ UNCHANGED <<state, interrupts, commands, connected, receiver, mode,
                 generation, seen, reason, journal, parent, history>>

Release(a) == guard' = IF guard = a THEN Nobody ELSE guard

\* Mutant: the parked wait_abort does not watch the shutdown state.
WakeOnInterruptOnly(a) ==
  /\ Parked(a)
  /\ mode[a] = "abort"
  /\ interrupts # seen[a]
  /\ Release(a)
  /\ Goto(a, LoopHead(a))
  /\ UNCHANGED <<state, interrupts, commands, connected, receiver, mode,
                 generation, seen, reason, journal, parent, history>>

\* A watch channel changed since the task last read it.  wait does not
\* watch the interrupts.
Wake(a) ==
  /\ Parked(a)
  /\ \/ state # None
     \/ mode[a] = "abort" /\ interrupts # seen[a]
  /\ Release(a)
  /\ Goto(a, LoopHead(a))
  /\ UNCHANGED <<state, interrupts, commands, connected, receiver, mode,
                 generation, seen, reason, journal, parent, history>>

\* The holder receives one command, or learns that the channel is closed,
\* and gives up the receiver before it loops.
Receive(a) ==
  /\ pc[a] = "hold"
  /\ \/ /\ commands # <<>>
        /\ ApplyHead
        /\ UNCHANGED receiver
     \/ /\ commands = <<>> /\ ~connected
        /\ receiver' = FALSE
        /\ UNCHANGED <<commands, journal, state, interrupts>>
  /\ Release(a)
  /\ Goto(a, LoopHead(a))
  /\ UNCHANGED <<connected, mode, generation, seen, reason, parent, history>>

-----------------------------------------------------------------------------
(* The agent loops around the signal.                                      *)

\* A checkpoint before a model or tool call ("check"), or the wait that
\* races a model call, a tool call or an AwaitAgent ("abort").
Enter(a, m) ==
  /\ pc[a] = "work"
  /\ mode' = [mode EXCEPT ![a] = m]
  /\ Goto(a, "lock")
  /\ UNCHANGED <<state, interrupts, commands, connected, receiver, guard,
                 generation, seen, reason, journal, parent, history>>

\* The other branch of the select finished: the parked wait_abort future is
\* dropped, and the receiver with it.
Drop(a) ==
  /\ Parked(a)
  /\ mode[a] = "abort"
  /\ Release(a)
  /\ Goto(a, "work")
  /\ UNCHANGED <<state, interrupts, commands, connected, receiver, mode,
                 generation, seen, reason, journal, parent, history>>

Running == {a \in Subagents : pc[a] # "off"}

\* Mutant: the turn starts without draining the command channel.
InputWithoutCheck ==
  /\ Parked(Top)
  /\ mode[Top] = "wait"
  /\ Release(Top)
  /\ mode' = [mode EXCEPT ![Top] = "turn"]
  /\ Goto(Top, "gen")
  /\ mark' = Len(sent)
  /\ crowded' = (Running # {})
  /\ UNCHANGED <<state, interrupts, commands, connected, receiver,
                 generation, seen, reason, journal, parent, sent>>

\* User input arrives while the top-level loop waits for it.
Input ==
  /\ Parked(Top)
  /\ mode[Top] = "wait"
  /\ Release(Top)
  /\ mode' = [mode EXCEPT ![Top] = "turn"]
  /\ Goto(Top, "lock")
  /\ mark' = Len(sent)
  /\ crowded' = (Running # {})
  /\ UNCHANGED <<state, interrupts, commands, connected, receiver,
                 generation, seen, reason, journal, parent, sent>>

\* The Agent tool: a new subagent takes the current generation, undrained.
Spawn(p, a) ==
  /\ pc[p] = "work"
  /\ a # Top
  /\ pc[a] = "off"
  /\ generation' = [generation EXCEPT ![a] = interrupts]
  /\ parent' = [parent EXCEPT ![a] = p]
  /\ Goto(a, "work")
  /\ UNCHANGED <<state, interrupts, commands, connected, receiver, guard,
                 mode, seen, reason, journal, history>>

(***************************************************************************)
(* cancel_uncollected_children, as a's turn returns: its own children are  *)
(* aborted, each where it is suspended.  The walk goes on to their         *)
(* children, but one whose handle an aborted task held (see Subagents) is  *)
(* detached and goes on running.                                           *)
(***************************************************************************)
Cancelled(a) ==
  {gone \in SUBSET Running :
     /\ \A b \in Running : parent[b] = a => b \in gone
     /\ \A b \in gone :
          /\ parent[b] \in gone \cup {a}
          /\ pc[b] \in {"work", "stopped", "hold", "watch"}}

\* The tasks in gone end, and with them their locals; whoever they leave
\* behind is nobody's child.
Gone(gone) ==
  /\ guard' = IF guard \in gone THEN Nobody ELSE guard
  /\ parent' = [b \in Agents |->
                  IF b \in gone \/ parent[b] \in gone THEN Nobody ELSE parent[b]]
  /\ generation' = [b \in Agents |-> IF b \in gone THEN 0 ELSE generation[b]]
  /\ seen' = [b \in Agents |-> IF b \in gone THEN 0 ELSE seen[b]]

\* A subagent's task ends.
Finish(a) ==
  /\ a # Top
  /\ pc[a] \in {"work", "stopped"}
  /\ \E gone \in Cancelled(a) :
       /\ Gone(gone \cup {a})
       /\ pc' = [b \in Agents |-> IF b \in gone \cup {a} THEN "off" ELSE pc[b]]
       /\ mode' = [b \in Agents |-> IF b \in gone \cup {a} THEN "abort" ELSE mode[b]]
       /\ reason' = [b \in Agents |-> IF b \in gone \cup {a} THEN None ELSE reason[b]]
  /\ UNCHANGED <<state, interrupts, commands, connected, receiver, journal, history>>

\* The top-level turn ends, by itself or stopped.  Whatever the outcome, the
\* top-level loop checks the signal next: to report the final message after a
\* shutdown, else before it awaits input again.
EndTurn ==
  /\ pc[Top] \in {"work", "stopped"}
  /\ \E gone \in Cancelled(Top) :
       /\ Gone(gone)
       /\ pc' = [b \in Agents |-> IF b = Top THEN "lock"
                                  ELSE IF b \in gone THEN "off" ELSE pc[b]]
       /\ mode' = [b \in Agents |-> IF b = Top THEN "idle"
                                    ELSE IF b \in gone THEN "abort" ELSE mode[b]]
       /\ reason' = [b \in Agents |-> IF b \in gone \cup {Top} THEN None ELSE reason[b]]
  /\ UNCHANGED <<state, interrupts, commands, connected, receiver, journal, history>>

\* The session is over; finish tears the harness down.
Ended == pc[Top] = "ended" /\ UNCHANGED vars

Step(a) ==
  \/ DrainTryLock(a) \/ DrainOne(a) \/ DrainEnd(a)
  \/ TestState(a) \/ Snapshot(a) \/ TestGeneration(a)
  \/ Park(a) \/ Wake(a) \/ Receive(a)

Next ==
  \/ \E command \in Command : Send(command)
  \/ Disconnect
  \/ Signal
  \/ \E a \in Agents : Step(a) \/ Drop(a) \/ Finish(a)
  \/ \E a \in Agents, m \in {"check", "abort"} : Enter(a, m)
  \/ \E p, a \in Agents : Spawn(p, a)
  \/ Input
  \/ EndTurn
  \/ Ended

Spec == Init /\ [][Next]_vars

\* A task that is in none of the waits goes on to its next one, or ends.
Proceed(a) ==
  \/ \E m \in {"check", "abort"} : Enter(a, m)
  \/ Finish(a)
  \/ a = Top /\ EndTurn

\* The runtime polls every task that can make progress, so a task that is
\* not waiting for the outside world takes its next step.  Nothing makes a
\* model call, a tool or a user's answer arrive (AskUserQuestion waits for a
\* person), so Drop and Input are not fair.
FairSpec ==
  /\ Spec
  /\ \A a \in Agents : WF_vars(Step(a)) /\ WF_vars(Proceed(a))

-----------------------------------------------------------------------------
(* Properties.                                                             *)

\* "The first request wins; its message becomes the session's final
\* message" (shutdown.rs, module comment): every task that was told to shut
\* down was given the one message the signal holds.
OneFinalMessage ==
  \A a \in Agents : reason[a] \notin {None, Interrupt} => reason[a] = state

\* An interrupt sent while the harness was idle does not abort the next
\* turn (shutdown.rs, module comment): when the top-level turn is stopped by
\* an interrupt, one was sent after the turn's input arrived.  Condition: no
\* detached subagent was running when the input arrived.  One that has the
\* receiver then makes the check before the turn skip the queue.
IdleInterruptConsumed ==
  reason[Top] = Interrupt /\ ~crowded =>
    \E i \in (mark + 1)..Len(sent) : sent[i] = Interrupt

\* A shutdown that was requested ends every task of the session, whatever
\* their model calls and tools do: each task leaves its wait, the turns
\* above it cancel and join it or it ends by itself, detached ones included,
\* and the top-level loop comes to its last check.
ShutdownUnwinds == state # None ~> (pc[Top] = "ended" /\ Running = {})

\* "Another waiter holds the command receiver; it applies commands into the
\* watch channels, so waiting on those is enough" (shutdown.rs:173): a
\* command sent while a task waits on the watch channels is applied before
\* the task's wait is over by itself.
WatchingIsEnough ==
  \A a \in Agents :
    (pc[a] = "watch" /\ receiver /\ commands # <<>>)
      ~> (pc[a] # "watch" \/ commands = <<>>)

=============================================================================
