------------------------------ MODULE Subagents ------------------------------
(***************************************************************************)
(* The tree of agent tasks of one session: the Agent and AwaitAgent tools, *)
(* the child registry, the slot semaphore, and the cancellation of         *)
(* uncollected children when a turn ends                                   *)
(* (crates/silo-harness/src/agent.rs).                                     *)
(*                                                                         *)
(* Every subagent runs on its own tokio task; the top-level agent, 0, runs *)
(* on the main one.  Tasks run in parallel, so they interleave at every    *)
(* access to the registry.  JoinHandle::abort ends a task only where it is *)
(* suspended at an await, dropping the locals it holds there; dropping a   *)
(* JoinHandle detaches the task, which goes on running.                    *)
(***************************************************************************)
EXTENDS Naturals, Sequences, FiniteSets

CONSTANTS
  MaxDepth,      \* MAX_SUBAGENT_DEPTH (3 in agent.rs)
  Slots,         \* MAX_CONCURRENT_SUBAGENTS (8 in agent.rs)
  MaxAgents,     \* bound: subagents spawned in one behaviour
  MaxInterrupts  \* bound: interrupts applied in one behaviour

ASSUME TreeAssumption ==
  MaxDepth \in Nat /\ Slots \in Nat /\ MaxAgents \in Nat /\ MaxInterrupts \in Nat

Top == 0
Children == 1..MaxAgents
Agents == {Top} \cup Children

VARIABLES
  counter,      \* agent_counter: the next subagent's number
  slots,        \* free permits of subagent_slots
  pc,           \* where each agent's task is
  depth,        \* nesting depth of each agent
  parent,       \* the agent that spawned it
  generation,   \* interrupt generation its turn is compared with
  pools,        \* registry: the handles parked under each agent
  pooled,       \* registry: whether the agent has an entry
  doneQueue,    \* done channel of each pool
  doneParked,   \* the done receiver is in the pool, not taken by a wait
  held,         \* handles an agent's task has taken out of its pool
  frames,       \* the recursion of cancel_uncollected_children in each task
  aborting,     \* tasks whose JoinHandle::abort has been called
  emitted,      \* the flag that guards a child's AgentCompleted
  completions,  \* AgentCompleted events of each child
  interrupts,   \* interrupts applied so far
  shutdown      \* a shutdown has been requested

vars == <<counter, slots, pc, depth, parent, generation, pools, pooled,
          doneQueue, doneParked, held, frames, aborting, emitted,
          completions, interrupts, shutdown>>

registry == <<pools, pooled, doneQueue, doneParked>>
identity == <<counter, depth, parent, generation>>
events == <<emitted, completions>>
signal == <<interrupts, shutdown>>

\* "loop": drive_inner up to the checkpoint of a tool call, its model call
\* included; "tool": past that checkpoint; "spawning": inside run_agent_tool;
\* "poll", "any": await_any_child before and during its wait; "join":
\* run_await_agent_tool with a handle taken; "returning", "cancel": drive
\* after drive_inner; "report", "exit": the end of a child's task; "idle":
\* the top-level loop between turns.
PCs == {"none", "idle", "loop", "tool", "spawning", "poll", "any", "join",
        "returning", "cancel", "report", "exit", "finished"}

Frame == [owner : Agents, todo : SUBSET Children, current : Agents,
          phase : {"pick", "descend", "join"}]

\* The shape of the state.
TypeOK ==
  /\ counter \in 1..(MaxAgents + 1)
  /\ slots \in 0..Slots
  /\ pc \in [Agents -> PCs]
  /\ depth \in [Agents -> Nat]
  /\ parent \in [Agents -> Agents]
  /\ generation \in [Agents -> Nat]
  /\ pools \in [Agents -> SUBSET Children]
  /\ pooled \in [Agents -> BOOLEAN]
  /\ doneQueue \in [Agents -> Seq(Children)]
  /\ doneParked \in [Agents -> BOOLEAN]
  /\ held \in [Agents -> SUBSET Children]
  /\ frames \in [Agents -> Seq(Frame)]
  /\ aborting \in SUBSET Children
  /\ emitted \in [Agents -> BOOLEAN]
  /\ completions \in [Agents -> Nat]
  /\ interrupts \in Nat
  /\ shutdown \in BOOLEAN

Init ==
  /\ counter = 1
  /\ slots = Slots
  /\ pc = [a \in Agents |-> IF a = Top THEN "idle" ELSE "none"]
  /\ depth = [a \in Agents |-> 0]
  /\ parent = [a \in Agents |-> Top]
  /\ generation = [a \in Agents |-> 0]
  /\ pools = [a \in Agents |-> {}]
  /\ pooled = [a \in Agents |-> FALSE]
  /\ doneQueue = [a \in Agents |-> <<>>]
  /\ doneParked = [a \in Agents |-> FALSE]
  /\ held = [a \in Agents |-> {}]
  /\ frames = [a \in Agents |-> <<>>]
  /\ aborting = {}
  /\ emitted = [a \in Agents |-> FALSE]
  /\ completions = [a \in Agents |-> 0]
  /\ interrupts = 0
  /\ shutdown = FALSE

Goto(a, label) == pc' = [pc EXCEPT ![a] = label]

\* What wait_abort and the checkpoints of a's turn react to.
Aborted(a) == shutdown \/ interrupts > generation[a]

-----------------------------------------------------------------------------
(* The signal and the turns of the top-level loop.                         *)

InterruptTurn ==
  /\ interrupts < MaxInterrupts
  /\ interrupts' = interrupts + 1
  /\ UNCHANGED <<slots, pc, identity, registry, held, frames, aborting,
                 events, shutdown>>

RequestShutdown ==
  /\ ~shutdown
  /\ shutdown' = TRUE
  /\ UNCHANGED <<slots, pc, identity, registry, held, frames, aborting,
                 events, interrupts>>

StartTurn ==
  /\ pc[Top] = "idle"
  /\ ~shutdown
  /\ generation' = [generation EXCEPT ![Top] = interrupts]
  /\ Goto(Top, "loop")
  /\ UNCHANGED <<counter, slots, depth, parent, registry, held, frames,
                 aborting, events, signal>>

\* The checkpoint before a tool call finds no abort.  An interrupt applied
\* after it does not stop the call from being made.
Checkpoint(a) ==
  /\ pc[a] = "loop"
  /\ ~Aborted(a)
  /\ Goto(a, "tool")
  /\ UNCHANGED <<slots, identity, registry, held, frames, aborting, events,
                 signal>>

\* A tool of the sandbox or the frontend, or an Agent or AwaitAgent call that
\* its own checks refuse: a result, and no change here.
OtherTool(a) ==
  /\ pc[a] = "tool"
  /\ Goto(a, "loop")
  /\ UNCHANGED <<slots, identity, registry, held, frames, aborting, events,
                 signal>>

\* drive_inner returns: the model stopped, a call failed, or the turn was
\* aborted at a checkpoint.
EndTurn(a) ==
  /\ pc[a] = "loop"
  /\ Goto(a, "returning")
  /\ UNCHANGED <<slots, identity, registry, held, frames, aborting, events,
                 signal>>

-----------------------------------------------------------------------------
(* run_agent_tool.                                                         *)

\* registry.entry(a).or_insert_with(ChildPool::new)
WithPool(a) ==
  /\ pooled' = [pooled EXCEPT ![a] = TRUE]
  /\ doneQueue' = IF pooled[a] THEN doneQueue ELSE [doneQueue EXCEPT ![a] = <<>>]
  /\ doneParked' = IF pooled[a] THEN doneParked ELSE [doneParked EXCEPT ![a] = TRUE]

\* The checks, the permit, the new id, and the child's task; the calls
\* refused by the checks change nothing.
SpawnTask(a) ==
  /\ pc[a] = "tool"
  /\ depth[a] < MaxDepth
  /\ slots > 0
  /\ counter <= MaxAgents
  /\ LET child == counter IN
     /\ slots' = slots - 1
     /\ counter' = counter + 1
     /\ depth' = [depth EXCEPT ![child] = depth[a] + 1]
     /\ parent' = [parent EXCEPT ![child] = a]
     /\ generation' = [generation EXCEPT ![child] = interrupts]
     /\ held' = [held EXCEPT ![a] = {child}]
     /\ pc' = [pc EXCEPT ![a] = "spawning", ![child] = "loop"]
  /\ WithPool(a)
  /\ UNCHANGED <<pools, frames, aborting, events, signal>>

\* The handle is parked under its parent, in a second critical section.
SpawnInsert(a) ==
  /\ pc[a] = "spawning"
  /\ WithPool(a)
  /\ pools' = [pools EXCEPT ![a] = @ \cup held[a]]
  /\ held' = [held EXCEPT ![a] = {}]
  /\ Goto(a, "loop")
  /\ UNCHANGED <<slots, identity, frames, aborting, events, signal>>

-----------------------------------------------------------------------------
(* run_await_agent_tool and await_any_child.                               *)

\* A named child, or the first to finish; a call that names no outstanding
\* child, or finds none, returns an error result and changes nothing.
AwaitOne(a, child) ==
  /\ pc[a] = "tool"
  /\ child \in pools[a]
  /\ pools' = [pools EXCEPT ![a] = @ \ {child}]
  /\ held' = [held EXCEPT ![a] = {child}]
  /\ Goto(a, "join")
  /\ UNCHANGED <<slots, identity, pooled, doneQueue, doneParked, frames,
                 aborting, events, signal>>

AwaitAny(a) ==
  /\ pc[a] = "tool"
  /\ pools[a] # {}
  /\ Goto(a, "poll")
  /\ UNCHANGED <<slots, identity, registry, held, frames, aborting, events,
                 signal>>

\* take_finished_child, else take the done receiver and wait on it.  An
\* entry removed meanwhile by a canceller counts as interrupted; removed
\* after a finished child was found, it makes the call's result an error.
PollDone(a) ==
  /\ pc[a] = "poll"
  /\ LET ready == {c \in pools[a] : pc[c] = "finished"} IN
     \/ /\ ready # {}
        /\ \E c \in ready :
             /\ pools' = [pools EXCEPT ![a] = @ \ {c}]
             /\ held' = [held EXCEPT ![a] = {c}]
        /\ Goto(a, "join")
        /\ UNCHANGED doneParked
     \/ /\ ready = {} /\ pooled[a]
        /\ doneParked' = [doneParked EXCEPT ![a] = FALSE]
        /\ Goto(a, "any")
        /\ UNCHANGED <<pools, held>>
     \/ /\ ~pooled[a]
        /\ Goto(a, "returning") \/ Goto(a, "loop")
        /\ UNCHANGED <<pools, held, doneParked>>
  /\ UNCHANGED <<slots, identity, pooled, doneQueue, frames, aborting, events,
                 signal>>

\* A child signalled.  It may have been collected by name already.
ReceiveDone(a) ==
  /\ pc[a] = "any"
  /\ ~Aborted(a)
  /\ doneQueue[a] # <<>>
  /\ LET child == Head(doneQueue[a]) IN
     /\ doneQueue' = [doneQueue EXCEPT ![a] = Tail(@)]
     /\ doneParked' = [doneParked EXCEPT ![a] = pooled[a]]
     /\ IF child \in pools[a]
        THEN /\ pools' = [pools EXCEPT ![a] = @ \ {child}]
             /\ held' = [held EXCEPT ![a] = {child}]
             /\ Goto(a, "join")
        ELSE Goto(a, "poll") /\ UNCHANGED <<pools, held>>
  /\ UNCHANGED <<slots, identity, pooled, frames, aborting, events, signal>>

\* The abort signal ends the wait for any child, and so does a signal of a
\* child, or the closed channel, once a canceller has removed the pool ...
InterruptAny(a) ==
  /\ pc[a] = "any"
  /\ \/ Aborted(a)
     \/ ~pooled[a] /\ \E c \in Children : parent[c] = a /\ pc[c] \in {"exit", "finished"}
  /\ doneParked' = [doneParked EXCEPT ![a] = pooled[a]]
  /\ Goto(a, "returning")
  /\ UNCHANGED <<slots, identity, pools, pooled, doneQueue, held, frames,
                 aborting, events, signal>>

\* ... and the wait for one, whose handle is parked again.
InterruptJoin(a) ==
  /\ pc[a] = "join"
  /\ Aborted(a)
  /\ WithPool(a)
  /\ pools' = [pools EXCEPT ![a] = @ \cup held[a]]
  /\ held' = [held EXCEPT ![a] = {}]
  /\ Goto(a, "returning")
  /\ UNCHANGED <<slots, identity, frames, aborting, events, signal>>

\* Mutant: the permit is not returned when a child is collected.
JoinKeepingPermit(a) ==
  /\ pc[a] = "join"
  /\ ~Aborted(a)
  /\ \A c \in held[a] : pc[c] = "finished"
  /\ held' = [held EXCEPT ![a] = {}]
  /\ Goto(a, "loop")
  /\ UNCHANGED <<slots, identity, registry, frames, aborting, events, signal>>

\* The awaited task is over: the permit is dropped with the handle.
Join(a) ==
  /\ pc[a] = "join"
  /\ ~Aborted(a)
  /\ \A c \in held[a] : pc[c] = "finished"
  /\ slots' = slots + 1
  /\ held' = [held EXCEPT ![a] = {}]
  /\ Goto(a, "loop")
  /\ UNCHANGED <<identity, registry, frames, aborting, events, signal>>

-----------------------------------------------------------------------------
(* cancel_uncollected_children, recursion made explicit.                   *)

TopFrame(t) == frames[t][Len(frames[t])]

SetTopFrame(t, frame) == [frames EXCEPT ![t][Len(frames[t])] = frame]

NewFrame(a) == [owner |-> a, todo |-> pools[a], current |-> Top, phase |-> "pick"]

\* registry.remove(a)
RemovePool(a) ==
  /\ pools' = [pools EXCEPT ![a] = {}]
  /\ pooled' = [pooled EXCEPT ![a] = FALSE]
  /\ doneQueue' = [doneQueue EXCEPT ![a] = <<>>]
  /\ doneParked' = [doneParked EXCEPT ![a] = FALSE]

\* Where drive's caller continues.
AfterDrive(t) == IF t = Top THEN "idle" ELSE "report"

CancelBegin(t) ==
  /\ pc[t] = "returning"
  /\ IF pooled[t]
     THEN frames' = [frames EXCEPT ![t] = <<NewFrame(t)>>] /\ Goto(t, "cancel")
     ELSE frames' = frames /\ Goto(t, AfterDrive(t))
  /\ RemovePool(t)
  /\ UNCHANGED <<slots, identity, held, aborting, events, signal>>

\* Mutant: the walk joins children without aborting them.
CancelPickWithoutAbort(t) ==
  /\ pc[t] = "cancel"
  /\ TopFrame(t).phase = "pick"
  /\ \E c \in TopFrame(t).todo :
       frames' = SetTopFrame(t, [TopFrame(t) EXCEPT !.todo = @ \ {c},
                                   !.current = c, !.phase = "descend"])
  /\ UNCHANGED <<slots, pc, identity, registry, held, aborting, events, signal>>

\* The next handle of the pool: abort its task.
CancelPick(t) ==
  /\ pc[t] = "cancel"
  /\ TopFrame(t).phase = "pick"
  /\ \E c \in TopFrame(t).todo :
       /\ frames' = SetTopFrame(t, [TopFrame(t) EXCEPT !.todo = @ \ {c},
                                      !.current = c, !.phase = "descend"])
       /\ aborting' = aborting \cup {c}
  /\ UNCHANGED <<slots, pc, identity, registry, held, events, signal>>

\* The recursive call takes the child's own pool out of the registry.
CancelDescend(t) ==
  /\ pc[t] = "cancel"
  /\ TopFrame(t).phase = "descend"
  /\ LET c == TopFrame(t).current
         waiting == SetTopFrame(t, [TopFrame(t) EXCEPT !.phase = "join"]) IN
     /\ frames' = IF pooled[c] THEN [waiting EXCEPT ![t] = Append(@, NewFrame(c))]
                  ELSE waiting
     /\ RemovePool(c)
  /\ UNCHANGED <<slots, pc, identity, held, aborting, events, signal>>

\* Mutant: the canceller emits nothing.
CancelJoinSilent(t) ==
  /\ pc[t] = "cancel"
  /\ TopFrame(t).phase = "join"
  /\ LET c == TopFrame(t).current IN
     /\ pc[c] = "finished"
     /\ emitted' = emitted
     /\ completions' = completions
     /\ slots' = slots + 1
     /\ frames' = SetTopFrame(t, [TopFrame(t) EXCEPT !.current = Top, !.phase = "pick"])
  /\ UNCHANGED <<pc, identity, registry, held, aborting, signal>>

\* The child's task is over: complete it unless it has done so itself, and
\* drop its permit.
CancelJoin(t) ==
  /\ pc[t] = "cancel"
  /\ TopFrame(t).phase = "join"
  /\ LET c == TopFrame(t).current IN
     /\ pc[c] = "finished"
     /\ emitted' = [emitted EXCEPT ![c] = TRUE]
     /\ completions' = [completions EXCEPT ![c] = IF emitted[c] THEN @ ELSE @ + 1]
     /\ slots' = slots + 1
     /\ frames' = SetTopFrame(t, [TopFrame(t) EXCEPT !.current = Top, !.phase = "pick"])
  /\ UNCHANGED <<pc, identity, registry, held, aborting, signal>>

CancelReturn(t) ==
  /\ pc[t] = "cancel"
  /\ TopFrame(t).phase = "pick"
  /\ TopFrame(t).todo = {}
  /\ frames' = [frames EXCEPT ![t] = SubSeq(@, 1, Len(@) - 1)]
  /\ Goto(t, IF Len(frames[t]) = 1 THEN AfterDrive(t) ELSE "cancel")
  /\ UNCHANGED <<slots, identity, registry, held, aborting, events, signal>>

-----------------------------------------------------------------------------
(* The end of a child's task.                                              *)

\* After drive: AgentCompleted unless the canceller emitted it, then the
\* done signal, which is lost when the parent's pool is gone.
Report(c) ==
  /\ pc[c] = "report"
  /\ emitted' = [emitted EXCEPT ![c] = TRUE]
  /\ completions' = [completions EXCEPT ![c] = IF emitted[c] THEN @ ELSE @ + 1]
  /\ LET p == parent[c] IN
     doneQueue' = IF pooled[p] THEN [doneQueue EXCEPT ![p] = Append(@, c)] ELSE doneQueue
  /\ Goto(c, "exit")
  /\ UNCHANGED <<slots, identity, pools, pooled, doneParked, held, frames,
                 aborting, signal>>

Exit(c) ==
  /\ pc[c] = "exit"
  /\ Goto(c, "finished")
  /\ UNCHANGED <<slots, identity, registry, held, frames, aborting, events,
                 signal>>

\* Handles among the locals of a task: the one it awaits or is about to
\* park, and those of the pools it is cancelling.
FrameHandles(frame) == frame.todo \cup ({frame.current} \ {Top})
LocalHandles(t) == held[t] \cup UNION {FrameHandles(frames[t][i]) : i \in DOMAIN frames[t]}

\* Suspended at an await: a model or tool call, a wait for a child, or the
\* join of a child being cancelled.
Suspended(c) ==
  \/ pc[c] \in {"loop", "any", "join"}
  \/ pc[c] = "cancel" /\ TopFrame(c).phase = "join"

\* An aborted task is dropped where it is suspended.  Its handles are
\* dropped with it: the permits return and the tasks are detached.
AbortLands(c) ==
  /\ c \in aborting
  /\ Suspended(c)
  /\ slots' = slots + Cardinality(LocalHandles(c))
  /\ held' = [held EXCEPT ![c] = {}]
  /\ frames' = [frames EXCEPT ![c] = <<>>]
  /\ Goto(c, "finished")
  /\ UNCHANGED <<identity, registry, aborting, events, signal>>

-----------------------------------------------------------------------------
\* A turn's own moves, none of which the agent is forced to make.
Act(a) ==
  \/ Checkpoint(a)
  \/ OtherTool(a)
  \/ EndTurn(a)
  \/ SpawnTask(a)
  \/ \E child \in Children : AwaitOne(a, child)
  \/ AwaitAny(a)

\* The steps a task takes by itself once it can.
Step(a) ==
  \/ SpawnInsert(a)
  \/ PollDone(a) \/ ReceiveDone(a) \/ InterruptAny(a) \/ InterruptJoin(a) \/ Join(a)
  \/ CancelBegin(a) \/ CancelPick(a) \/ CancelDescend(a) \/ CancelJoin(a) \/ CancelReturn(a)
  \/ Report(a) \/ Exit(a) \/ AbortLands(a)

\* The session is over and no task is left to run.
Ended ==
  /\ shutdown /\ pc[Top] = "idle"
  /\ \A c \in Children : pc[c] \in {"none", "finished"}
  /\ UNCHANGED vars

Next ==
  \/ InterruptTurn \/ RequestShutdown \/ StartTurn
  \/ \E a \in Agents : Act(a) \/ Step(a)
  \/ Ended

Spec == Init /\ [][Next]_vars

\* The runtime polls every task that can make progress.  A model need never
\* stop calling tools by itself, but an aborted turn ends at its next
\* checkpoint, and the first await an aborted task reaches ends it.
FairSpec ==
  /\ Spec
  /\ \A a \in Agents :
       /\ WF_vars(Step(a))
       /\ WF_vars(OtherTool(a))
       /\ WF_vars(Aborted(a) /\ EndTurn(a))
       /\ SF_vars(AbortLands(a))

-----------------------------------------------------------------------------
(* Properties.                                                             *)

\* The handles that exist, wherever they are.
Handles == UNION {pools[a] \cup LocalHandles(a) : a \in Agents}

\* A slot is taken from launch until the child's handle is dropped, on every
\* path: the free slots and the handles in the registry, held by AwaitAgent
\* or run_agent_tool, or being cancelled, add up to the cap, and no handle is
\* in two places.
SlotsConserved ==
  /\ slots + Cardinality(Handles) = Slots
  /\ \A a, b \in Agents : pools[a] \cap LocalHandles(b) = {}
  /\ \A a, b \in Agents :
       a # b => pools[a] \cap pools[b] = {} /\ LocalHandles(a) \cap LocalHandles(b) = {}

Running(c) == pc[c] \notin {"none", "finished"}

\* "No subagent outlives its parent's turn" (docs/SUBAGENTS.md): between
\* turns of the top-level agent no subagent's task is running.
NoSubagentOutlivesTurn == pc[Top] = "idle" => \A c \in Children : ~Running(c)

\* The top-level agent's own subagents keep that promise and the one of "an
\* `agent_completed` event" each (docs/SUBAGENTS.md): between turns none of
\* them runs, and each has completed exactly once.
TopChildrenEndWithTurn ==
  pc[Top] = "idle" =>
    \A c \in Children :
      parent[c] = Top /\ pc[c] # "none" => ~Running(c) /\ completions[c] = 1

\* drive returns: joining aborted children, at any depth, never blocks the
\* top-level turn for good.
CancellationEnds == pc[Top] \in {"returning", "cancel"} ~> pc[Top] = "idle"

=============================================================================
