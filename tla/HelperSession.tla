---------------------------- MODULE HelperSession ----------------------------
(***************************************************************************)
(* Tool calls through the helper: the harness side of the connection       *)
(* (crates/silo-sandbox/src/session.rs), the helper's serve loop and its   *)
(* operations (crates/silo-helper/src/lib.rs, ops.rs), and the way an      *)
(* agent interrupts and a backend shuts down (agent.rs, gvisor.rs,         *)
(* sandbox_exec.rs).                                                       *)
(*                                                                         *)
(* Every request has an id of its own, so it is named by who makes it:     *)
(* Tool(c) is the tool call of task c, Cancel(c, d) the Cancel that c      *)
(* sends for d's Exec, Stop the Shutdown.  Tool calls run on different     *)
(* threads; a future that is not polled makes no progress, and one whose   *)
(* task is aborted is dropped where it is parked.                          *)
(***************************************************************************)
EXTENDS Naturals, Sequences, FiniteSets

CONSTANTS
  Callers,      \* tasks that run a tool
  Children,     \* those that are subagents
  Capacity      \* slots of the request channel (64 in from_stream)

\* An interrupted tool call is not polled while its task sends the Cancels, and
\* may have been granted a slot: when such calls have all the slots, their
\* tasks wait for ever.  Each task has at most one, so a channel with more
\* slots than tasks has none of this; a session has eight subagents at a time.
\* Here, where a task makes one tool call, as many slots as tasks are enough.
ASSUME SessionAssumption ==
  /\ IsFiniteSet(Callers) /\ Children \subseteq Callers
  /\ Capacity \in Nat /\ Capacity >= Cardinality(Callers)

Tool(c) == <<c>>
Cancel(c, d) == <<c, d>>
Stop == <<>>

Requests == {Tool(c) : c \in Callers} \cup {Cancel(c, d) : c, d \in Callers} \cup {Stop}

VARIABLES
  kind,         \* whether each tool call is an Exec or another operation
  mode,         \* state of each caller
  todo,         \* the Execs a caller has left to cancel
  pc,           \* where each request is
  answer,       \* what the request's oneshot channel holds
  result,       \* what the request returned
  pending,      \* the map of waiters
  closed,       \* the map has been taken: the connection is closed
  inflight,     \* inflight_execs
  channel,      \* requests for the writer task
  senders,      \* requests waiting for a slot of the channel, in order
  writer,       \* the writer task runs
  helper,       \* the helper's serve loop
  task,         \* the helper's task for each request
  execs,        \* its cancellation senders
  signalled,    \* Execs whose sender has been used
  fromHelper,   \* responses on the stream
  died          \* the helper ended without being asked to

caller == <<kind, mode, todo>>
requestVars == <<pc, answer, result>>
session == <<pending, closed, inflight, channel, senders, writer>>
served == <<task, execs, signalled>>
vars == <<caller, requestVars, session, helper, served, fromHelper, died>>

\* "register": in the map, not yet in inflight_execs; "send": at the send;
\* "queued": parked in it; "granted": a slot has come free for it; "wait":
\* sent, awaiting the answer.
PCs == {"none", "register", "send", "queued", "granted", "wait", "returned", "dropped"}
Parked == {"queued", "granted", "wait"}

Outcomes == {"none", "ok", "cancelled", "error", "closed"}

\* The shape of the state.
TypeOK ==
  /\ kind \in [Callers -> {"exec", "other"}]
  /\ mode \in [Callers -> {"idle", "run", "interrupting", "resumed", "done", "aborted"}]
  /\ todo \in [Callers -> SUBSET Callers]
  /\ pc \in [Requests -> PCs]
  /\ answer \in [Requests -> Outcomes]
  /\ result \in [Requests -> Outcomes]
  /\ pending \subseteq Requests
  /\ closed \in BOOLEAN
  /\ inflight \subseteq Callers
  /\ channel \in Seq(Requests) /\ Len(channel) <= Capacity
  /\ senders \in Seq(Requests)
  /\ writer \in BOOLEAN
  /\ helper \in {"serving", "acking", "gone"}
  /\ task \in [Requests -> {"none", "spawned", "running", "ended", "killed"}]
  /\ execs \subseteq Callers
  /\ signalled \subseteq Callers
  /\ fromHelper \in Seq(Requests \X Outcomes)
  /\ died \in BOOLEAN

\* After from_stream: the handshake is a request like any other.
Init ==
  /\ kind \in [Callers -> {"exec", "other"}]
  /\ mode = [c \in Callers |-> "idle"]
  /\ todo = [c \in Callers |-> {}]
  /\ pc = [r \in Requests |-> "none"]
  /\ answer = [r \in Requests |-> "none"]
  /\ result = [r \in Requests |-> "none"]
  /\ pending = {} /\ closed = FALSE /\ inflight = {}
  /\ channel = <<>> /\ senders = <<>> /\ writer = TRUE
  /\ helper = "serving"
  /\ task = [r \in Requests |-> "none"]
  /\ execs = {} /\ signalled = {}
  /\ fromHelper = <<>>
  /\ died = FALSE

IsExec(r) == Len(r) = 1 /\ kind[r[1]] = "exec"

\* A caller polls its tool call, or the Cancel it is awaiting meanwhile.
Polled(r) ==
  CASE Len(r) = 0 -> TRUE
    [] Len(r) = 1 -> mode[r[1]] \in {"run", "resumed"}
    [] OTHER -> mode[r[1]] = "interrupting"

Move(r, l) == pc' = [pc EXCEPT ![r] = l]

-----------------------------------------------------------------------------
(* HelperSession::request.                                                 *)

\* A Cancel makes way for the next one, whatever it returned.
Returned(r, how) ==
  IF Len(r) = 2
  THEN Move(r, "none") /\ UNCHANGED result
  ELSE Move(r, "returned") /\ result' = [result EXCEPT ![r] = how]

\* A request ends for its caller.
Finish(r, how) ==
  /\ Returned(r, how)
  /\ inflight' = IF IsExec(r) THEN inflight \ {r[1]} ELSE inflight
  /\ mode' = IF Len(r) = 1 THEN [mode EXCEPT ![r[1]] = "done"] ELSE mode

\* The waiter goes into the map, unless the connection is closed.
Begin(r) ==
  IF closed
  THEN Returned(r, "closed") /\ UNCHANGED pending
  ELSE /\ pending' = pending \cup {r}
       /\ Move(r, IF IsExec(r) THEN "register" ELSE "send")
       /\ UNCHANGED result

Register(c) ==
  /\ pc[Tool(c)] = "register"
  /\ inflight' = inflight \cup {c}
  /\ Move(Tool(c), "send")
  /\ UNCHANGED <<caller, answer, result, pending, closed, channel, senders, writer,
                 helper, served, fromHelper, died>>

Granted == {r \in Requests : pc[r] = "granted"}

\* requests.send: take a slot, or queue for one.
Send(r) ==
  /\ pc[r] = "send" /\ writer
  /\ IF senders = <<>> /\ Len(channel) + Cardinality(Granted) < Capacity
     THEN channel' = Append(channel, r) /\ Move(r, "wait") /\ UNCHANGED senders
     ELSE senders' = Append(senders, r) /\ Move(r, "queued") /\ UNCHANGED channel
  /\ UNCHANGED <<caller, answer, result, pending, closed, inflight, writer,
                 helper, served, fromHelper, died>>

\* A parked send goes on only when its future is polled.
Push(r) ==
  /\ pc[r] = "granted" /\ Polled(r)
  /\ channel' = IF writer THEN Append(channel, r) ELSE channel
  /\ Move(r, "wait")
  /\ UNCHANGED <<caller, answer, result, pending, closed, inflight, senders, writer,
                 helper, served, fromHelper, died>>

\* The channel is closed: the waiter is taken out again.
SendFails(r) ==
  /\ pc[r] \in {"send", "queued"} /\ ~writer /\ Polled(r)
  /\ pending' = pending \ {r}
  /\ senders' = SelectSeq(senders, LAMBDA s : s # r)
  /\ Finish(r, "closed")
  /\ UNCHANGED <<kind, todo, answer, closed, channel, writer, helper,
                 served, fromHelper, died>>

Return(r) ==
  /\ pc[r] = "wait" /\ answer[r] # "none" /\ Polled(r)
  /\ Finish(r, answer[r])
  /\ answer' = [answer EXCEPT ![r] = "none"]
  /\ UNCHANGED <<kind, todo, pending, closed, channel, senders, writer,
                 helper, served, fromHelper, died>>

-----------------------------------------------------------------------------
(* The callers.                                                            *)

Stopped == pc[Stop] # "none"

\* run_tool; Sandbox::shutdown takes the backend out of everybody's reach.
RunTool(c) ==
  /\ mode[c] = "idle" /\ ~Stopped
  /\ mode' = [mode EXCEPT ![c] = IF closed THEN "done" ELSE "run"]
  /\ Begin(Tool(c))
  /\ UNCHANGED <<kind, todo, answer, closed, inflight, channel, senders, writer,
                 helper, served, fromHelper, died>>

\* Mutant: an interrupt cancels one Exec, whosever it is.
InterruptOne(c) ==
  /\ mode[c] = "run" /\ pc[Tool(c)] \in Parked
  /\ mode' = [mode EXCEPT ![c] = "interrupting"]
  /\ \E d \in inflight : todo' = [todo EXCEPT ![c] = {d}]
  /\ UNCHANGED <<kind, requestVars, session, helper, served, fromHelper, died>>

\* run_sandbox_tool: the abort signal wins while the tool call is parked, and
\* Sandbox::interrupt, cancel_inflight, runs to its end first.
Interrupt(c) ==
  /\ mode[c] = "run" /\ pc[Tool(c)] \in Parked
  /\ mode' = [mode EXCEPT ![c] = "interrupting"]
  /\ todo' = [todo EXCEPT ![c] = inflight]
  /\ UNCHANGED <<kind, requestVars, session, helper, served, fromHelper, died>>

Cancelling(c) == \E d \in Callers : pc[Cancel(c, d)] # "none"

CancelNext(c) ==
  /\ mode[c] = "interrupting" /\ ~Cancelling(c)
  /\ \E d \in todo[c] :
       /\ todo' = [todo EXCEPT ![c] = @ \ {d}]
       /\ Begin(Cancel(c, d))
  /\ UNCHANGED <<kind, mode, answer, closed, inflight, channel, senders, writer,
                 helper, served, fromHelper, died>>

\* The tool call is awaited again, without the signal.
Resume(c) ==
  /\ mode[c] = "interrupting" /\ ~Cancelling(c) /\ todo[c] = {}
  /\ mode' = [mode EXCEPT ![c] = "resumed"]
  /\ UNCHANGED <<kind, todo, requestVars, session, helper, served, fromHelper, died>>

\* Dropping futures takes them out of the channel's queue, and a slot one had
\* been granted goes to the next; the map and inflight_execs keep them.
DropRequests(rs) ==
  LET left == SelectSeq(senders, LAMBDA s : s \notin rs)
      free == Cardinality(Granted \cap rs)
      lucky == IF free < Len(left) THEN free ELSE Len(left)
  IN /\ senders' = SubSeq(left, lucky + 1, Len(left))
     /\ answer' = [r \in Requests |-> IF r \in rs THEN "none" ELSE answer[r]]
     /\ pc' = [r \in Requests |->
                 IF r \in rs THEN "dropped"
                 ELSE IF \E i \in 1..lucky : left[i] = r THEN "granted" ELSE pc[r]]

\* The tool call is dropped where it is parked: run_sandbox_tool returns at a
\* shutdown, and the task of a subagent may be aborted at any await.
Abort(c) ==
  /\ \/ mode[c] = "run"
     \/ c \in Children /\ mode[c] = "resumed"
     \/ c \in Children /\ mode[c] = "interrupting" /\ Cancelling(c)
  /\ LET mine == {r \in Requests : Len(r) > 0 /\ r[1] = c /\ pc[r] \in PCs \ {"none", "returned"}}
     IN /\ \A r \in mine : pc[r] \in Parked
        /\ DropRequests(mine)
  /\ mode' = [mode EXCEPT ![c] = "aborted"] /\ todo' = [todo EXCEPT ![c] = {}]
  /\ UNCHANGED <<kind, result, pending, closed, inflight, channel, writer,
                 helper, served, fromHelper, died>>

\* Sandbox::shutdown, once nobody else has the backend: HelperSession::shutdown
\* with a timeout, after which the child is killed.
Shutdown ==
  /\ ~Stopped
  /\ \A c \in Callers : mode[c] \in {"idle", "done", "aborted"}
  /\ Begin(Stop)
  /\ UNCHANGED <<caller, answer, closed, inflight, channel, senders, writer,
                 helper, served, fromHelper, died>>

ShutdownTimesOut ==
  /\ pc[Stop] \in Parked
  /\ DropRequests({Stop})
  /\ UNCHANGED <<caller, result, pending, closed, inflight, channel, writer,
                 helper, served, fromHelper, died>>

-----------------------------------------------------------------------------
(* The writer and the reader task of the session.                          *)

\* A write fails: the task ends, and with it the channel.
WriterEnds ==
  /\ writer /\ channel # <<>> /\ helper = "gone"
  /\ writer' = FALSE
  /\ channel' = <<>>
  /\ UNCHANGED <<caller, requestVars, pending, closed, inflight, senders, helper,
                 served, fromHelper, died>>

ReaderReceives ==
  /\ fromHelper # <<>> /\ ~closed
  /\ LET r == Head(fromHelper)[1]
     IN /\ answer' = IF r \in pending /\ pc[r] # "dropped"
                   THEN [answer EXCEPT ![r] = Head(fromHelper)[2]] ELSE answer
        /\ pending' = pending \ {r}
  /\ fromHelper' = Tail(fromHelper)
  /\ UNCHANGED <<caller, pc, result, closed, inflight, channel, senders, writer,
                 helper, served, died>>

\* Mutant: the map is taken but its waiters stay with somebody.
ReaderEndsQuietly ==
  /\ helper = "gone" /\ fromHelper = <<>> /\ ~closed
  /\ closed' = TRUE
  /\ pending' = {}
  /\ UNCHANGED <<caller, requestVars, inflight, channel, senders, writer, helper,
                 served, fromHelper, died>>

\* End of the stream: no further requests, and every waiter fails.
ReaderEnds ==
  /\ helper = "gone" /\ fromHelper = <<>> /\ ~closed
  /\ closed' = TRUE
  /\ answer' = [r \in Requests |-> IF r \in pending /\ pc[r] # "dropped" THEN "closed" ELSE answer[r]]
  /\ pending' = {}
  /\ UNCHANGED <<caller, pc, result, inflight, channel, senders, writer, helper,
                 served, fromHelper, died>>

-----------------------------------------------------------------------------
(* The helper.                                                             *)

\* Mutant: an Exec is registered for cancellation by its task, later.
ServeUnregistered ==
  /\ writer /\ helper = "serving" /\ channel # <<>>
  /\ LET r == Head(channel)
     IN IF r = Stop
        THEN helper' = "acking" /\ UNCHANGED task
        ELSE task' = [task EXCEPT ![r] = "spawned"] /\ UNCHANGED helper
  /\ channel' = Tail(channel)
  /\ IF senders = <<>>
     THEN UNCHANGED <<pc, senders>>
     ELSE Move(Head(senders), "granted") /\ senders' = Tail(senders)
  /\ UNCHANGED <<caller, answer, result, pending, closed, inflight, writer, execs,
                 signalled, fromHelper, died>>

\* A request goes from the channel over the stream to serve_stream, and the
\* slot that comes free to the sender that has waited longest.  An Exec is
\* registered for cancellation before its task is spawned.
Serve ==
  /\ writer /\ helper = "serving" /\ channel # <<>>
  /\ LET r == Head(channel)
     IN IF r = Stop
        THEN helper' = "acking" /\ UNCHANGED <<task, execs>>
        ELSE /\ task' = [task EXCEPT ![r] = "spawned"]
             /\ execs' = IF IsExec(r) THEN execs \cup {r[1]} ELSE execs
             /\ UNCHANGED helper
  /\ channel' = Tail(channel)
  /\ IF senders = <<>>
     THEN UNCHANGED <<pc, senders>>
     ELSE Move(Head(senders), "granted") /\ senders' = Tail(senders)
  /\ UNCHANGED <<caller, answer, result, pending, closed, inflight, writer, signalled,
                 fromHelper, died>>

\* The response of a task, or of the loop itself, through write_loop.
Respond(r, how) == fromHelper' = Append(fromHelper, <<r, how>>)

\* An operation other than Exec and Cancel; "ok" stands for a failure, too.
RunOther(r) ==
  /\ helper # "gone" /\ task[r] = "spawned" /\ Len(r) = 1 /\ ~IsExec(r)
  /\ Respond(r, "ok")
  /\ task' = [task EXCEPT ![r] = "none"]
  /\ UNCHANGED <<caller, requestVars, session, helper, execs, signalled, died>>

\* Cancel uses up the sender of its target, if there is one.
RunCancel(c, d) ==
  /\ helper # "gone" /\ task[Cancel(c, d)] = "spawned"
  /\ execs' = execs \ {d}
  /\ IF d \in execs
     THEN signalled' = signalled \cup {d} /\ Respond(Cancel(c, d), "ok")
     ELSE Respond(Cancel(c, d), "error") /\ UNCHANGED signalled
  /\ task' = [task EXCEPT ![Cancel(c, d)] = "none"]
  /\ UNCHANGED <<caller, requestVars, session, helper, died>>

\* exec: the shell is spawned, or cannot be.
ExecSpawn(c) ==
  /\ helper # "gone" /\ task[Tool(c)] = "spawned" /\ kind[c] = "exec"
  /\ \/ /\ task' = [task EXCEPT ![Tool(c)] = "running"]
        /\ UNCHANGED <<execs, signalled, fromHelper>>
     \/ /\ task' = [task EXCEPT ![Tool(c)] = "none"]
        /\ execs' = execs \ {c} /\ signalled' = signalled \ {c}
        /\ Respond(Tool(c), "error")
  /\ UNCHANGED <<caller, requestVars, session, helper, died>>

\* The process ends, its timeout kills it, or waiting for it fails.
ExecExits(c) ==
  /\ helper # "gone" /\ task[Tool(c)] = "running"
  /\ task' = [task EXCEPT ![Tool(c)] = "ended"]
  /\ UNCHANGED <<caller, requestVars, session, helper, execs, signalled, fromHelper, died>>

\* The cancellation channel resolves, when its sender is used or dropped:
\* the process group is killed.
ExecCancelled(c) ==
  /\ helper # "gone" /\ task[Tool(c)] = "running"
  /\ c \in signalled \/ c \notin execs
  /\ task' = [task EXCEPT ![Tool(c)] = "killed"]
  /\ UNCHANGED <<caller, requestVars, session, helper, execs, signalled, fromHelper, died>>

\* unregister_exec, and the response once the pipes are drained.
ExecResponds(c) ==
  /\ helper # "gone" /\ task[Tool(c)] \in {"ended", "killed"}
  /\ execs' = execs \ {c} /\ signalled' = signalled \ {c}
  /\ Respond(Tool(c), IF task[Tool(c)] = "ended" THEN "ok" ELSE "cancelled")
  /\ task' = [task EXCEPT ![Tool(c)] = "none"]
  /\ UNCHANGED <<caller, requestVars, session, helper, died>>

\* The process is gone, and every task in it; what it has written is read.
HelperGone ==
  /\ helper' = "gone"
  /\ task' = [r \in Requests |-> "none"]
  /\ execs' = {} /\ signalled' = {}
  /\ UNCHANGED <<caller, requestVars, session>>

\* Shutdown: the loop ends once the acknowledgement has been written.
HelperExits ==
  /\ helper = "acking"
  /\ Respond(Stop, "ok")
  /\ HelperGone
  /\ UNCHANGED died

\* kill_and_reap, once HelperSession::shutdown has returned or timed out.
KillHelper ==
  /\ helper # "gone" /\ pc[Stop] \in {"returned", "dropped"}
  /\ HelperGone
  /\ UNCHANGED <<fromHelper, died>>

HelperDies ==
  /\ helper # "gone"
  /\ HelperGone
  /\ died' = TRUE
  /\ UNCHANGED fromHelper

-----------------------------------------------------------------------------
\* The connection is lost, and nothing need happen any more.
Over == helper = "gone" /\ closed /\ UNCHANGED vars

Session ==
  \/ WriterEnds \/ ReaderReceives \/ ReaderEnds

Call(r) == Send(r) \/ Push(r) \/ SendFails(r) \/ Return(r)

Interrupting(c) == Register(c) \/ CancelNext(c) \/ Resume(c)

Exec(c) == ExecSpawn(c) \/ ExecCancelled(c) \/ ExecResponds(c)

HelperStep ==
  \/ Serve \/ HelperExits
  \/ \E r \in Requests : RunOther(r)
  \/ \E c, d \in Callers : RunCancel(c, d)

Runtime ==
  \/ Session \/ HelperStep
  \/ \E r \in Requests : Call(r)
  \/ \E c \in Callers : Interrupting(c) \/ Exec(c)

Next ==
  \/ Runtime
  \/ \E c \in Callers : RunTool(c) \/ Interrupt(c) \/ Abort(c) \/ ExecExits(c)
  \/ Shutdown \/ ShutdownTimesOut \/ KillHelper \/ HelperDies
  \/ Over

Spec == Init /\ [][Next]_vars

\* The runtimes on both sides poll tasks as long as one can go on.  A process
\* that is not told to end need not end, and nobody has to call anything.
FairSpec == Spec /\ WF_vars(Runtime)

-----------------------------------------------------------------------------
(* Properties.                                                             *)

\* "a Cancel read after the Exec on the same stream always finds the
\* registration" (serve_stream_with_config): an Exec in the helper can be
\* cancelled, or has been, for as long as its process may run.
RunningCancellable ==
  \A c \in Callers :
    kind[c] = "exec" /\ task[Tool(c)] \in {"spawned", "running"} => c \in execs \cup signalled

\* When the connection is lost every request returns, also one that is being
\* made meanwhile (the reader task closing the map, request).
LostConnectionFailsRequests ==
  helper = "gone" ~> \A r \in Requests : pc[r] \notin Parked

\* An interrupt ends the tool call it is for, even if the process would run
\* on for ever, provided that the Exec was sent before the interrupt came
\* (run_sandbox_tool, cancel_inflight, the helper's Cancel).
InterruptEndsTool ==
  \A c \in Callers :
    (mode[c] = "interrupting" /\ pc[Tool(c)] = "wait") ~> mode[c] \in {"done", "aborted"}

=============================================================================
