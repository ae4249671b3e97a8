# llmdevsilo in TLA+

TLA+ models of the harness, its clients, its helper and tools, its event
stream, its proxy, its model backends and its workspace store, the TLC
configurations that check them on small instances, a refinement of the event
stream to an abstract log, and machine-checked proofs of that refinement and of
most of the safety properties for every value of the constants. `PROJECT.json`
lists the components, the runs, the definition-to-source map, the mutants that
show each property can fail, the hazards and the theorems.

Run a check from this directory with `tlc -workers 2 -config X.cfg M`, a proof
with `tlapm M.tla`.

## 1. The system

A *harness* process runs one agent session. The top-level agent
(`silo-harness/src/agent.rs`) alternates between awaiting input and running a
turn: model call, tool calls, model call, and so on. Tools run in a *sandbox*
(through a helper process), at the *frontend* (questions, file delivery), or
in the harness itself (`Agent` and `AwaitAgent`, which start and collect
*subagents* on tokio tasks of their own). The frontend, OS signals and
subagents meet in the *shutdown signal* (`shutdown.rs`). Everything that
happens is an event on the *event bus* (`silo-core/src/event.rs`), which the
journal, the client connections, the cost watcher and the upload listener
follow; clients (terminal and graphical) connect, catch up and reconnect. The
directory the agent works on is a *workspace* that was locked beforehand: its
contents are moved or copied into a container, and a *registry* file shared by
all processes of the user records it (`silo-workspace`). An egress *proxy*
mediates the sandbox's network access.

| Part | Source | Model |
| --- | --- | --- |
| shutdown and interrupt signal | `silo-harness/src/shutdown.rs` | `ShutdownSignal`, `HarnessProofs` |
| agent tree, subagent tools, cancellation | `silo-harness/src/agent.rs` | `Subagents`, `SubagentsProofs` |
| session loop, turn, tool calls | `silo-harness/src/agent.rs` | `Conversation`, `SessionProofs` |
| event bus and its subscribers | `silo-core/src/event.rs`, `journal.rs`, `uploads.rs`, `interactive/` | `EventBus` |
| client connection, terminal and graphical client | `interactive/connection.rs`, `silo-tui`, `silo_app` | `EventStream` (composes `EventBus`, implements `EventLog`), `EventStreamProofs` |
| prompts, questions, interrupts with several clients | `interactive/mod.rs`, `connection.rs`, `silo-tui` | `Interactive` (composes `TuiApp`) |
| pairing and authentication | `interactive/auth.rs`, `client.rs`, `silo-tui` | `Pairing`, `ConnectionProofs` |
| set-up and take-down of a harness or shell | `silo-harness/src/lib.rs`, `silo/src/cmd_run.rs`, `cmd_shell.rs`, sandbox backends | `Lifecycle`, `HarnessProofs` |
| settings, risk scan, run file | `silo/src/cli.rs`, `risk.rs`, `validate.rs`, `cmd_shell.rs` | `Settings` |
| helper session and helper | `silo-sandbox/src/session.rs`, `silo-helper` | `HelperSession`, `ConnectionProofs` |
| sandbox tools and file operations | `toolimpl.rs`, `silo-helper/src/ops.rs`, `fetch.rs` | `Tools` |
| wire form of conversations | `silo-llm` | `Wire`, `WireProofs` |
| usage, quota, cost reports, headless frontend | `silo-core/src/cost.rs`, `headless.rs`, `silo-llm/src/common.rs` | `Metering`, `SessionProofs` |
| journal, record and replay, mock components | `journal.rs`, `replay.rs`, `mock.rs` | `Replay` |
| egress proxy and DNS filter | `silo-proxy` | `Proxy`, `ConnectionProofs` |
| allowlist and address guard | `allowlist.rs`, `ipguard.rs` | `NetPolicy`, `PolicyProofs` |
| registry and lock file | `silo-workspace/src/registry.rs`, `process.rs` | `RegistryLock`, `RegistryProofs` |
| lock, unlock, attach, detach | `silo-workspace/src/lib.rs`, `strategy.rs` | `Workspace` |
| snapshot, diff, auto-exec report | `snapshot.rs`, `diff.rs`, `autoexec.rs` | `UnlockReport`, `RegistryProofs` |
| TLS, HTTP, relay, user interfaces | several | not modelled |

## 2. Modules

Modules whose state spaces are small are checked together: `MCAgent`, `MCSafety`
and `MCLiveness` extend several of them, and a variable `part`, fixed at the
start, says which one a behaviour is of. Nothing is composed there; the state space is
the sum of the parts. Compositions are `EventStream` with `EventBus`, and
`Interactive` with `TuiApp`.

### ShutdownSignal

Commands from the frontend go over one channel whose receiver sits behind a
mutex that is only ever tried. Every agent task that waits runs `wait_abort`;
one of them owns the receiver and applies commands to two watch channels, the
others watch.

State: `state` and `interrupts` are the watch channels, `commands` and
`connected` the command channel, `receiver` and `guard` the mutex; `pc`,
`mode`, `generation`, `seen`, `reason` are each task's locals; `journal` is the
part of the journal that records commands; `parent` is who spawned a task;
`sent`, `mark` and `crowded` are history variables. Actions: `Send`, `Signal`, `Disconnect` are the outside world;
`Enter`, `DrainTryLock`, `DrainOne`, `DrainEnd`, `TestState`, `Snapshot`,
`TestGeneration`, `Park`, `Receive`, `Wake` and `Drop` are the steps of `check`,
`wait` and `wait_abort`, one access to shared state each; `Input`, `Finish`, `EndTurn`, `Spawn` place
them in the agent loops. When a turn ends, `cancel_uncollected_children` aborts
the agent's children where they are suspended, and theirs, except those that an
aborted task had in hand: they stay, detached (`Cancelled`; the reason is in
`Subagents`).

### Subagents

The tree of agent tasks. `pools`, `pooled`, `doneQueue` and `doneParked` are
the child registry; `held` and `frames` are what a task has taken out of it
(an awaited handle; the recursion of `cancel_uncollected_children`); `slots`
is the semaphore. Tokio is external and modelled from its use: an aborted task
ends where it is suspended and drops what it holds there (`AbortLands`), and a
dropped `JoinHandle` detaches its task. Each access to the registry is a step.

### Conversation

`top_level_loop`, `drive_inner` and `execute_tool` for one agent. A message
keeps what a backend constrains: role, number of tool uses, the results it
holds and whether it holds a prompt. The abort signal is what the loop sees of
it: `shutdown` and `interrupted` may rise at any time. Model, tools, frontend
and sandbox answer or fail nondeterministically. `headless` is chosen
initially.

### HelperSession

Tool calls through the helper, both sides of the connection. A request is
named by who makes it: `Tool(c)`, `Cancel(c, d)`, `Stop`. On the harness side
`pending` and `closed` are the map of waiters, `inflight` the ids of Execs,
`channel` and `senders` the bounded request channel and those parked in it;
`Begin`, `Register`, `Send`, `Push`, `SendFails`, `Return` are the steps of
`request`, and `WriterEnds`, `ReaderReceives`, `ReaderEnds` those of the two
tasks. `Interrupt`, `CancelNext`, `Resume` are `run_sandbox_tool` with
`cancel_inflight`: meanwhile the tool call is not polled. `Abort` drops a tool
call where it is parked, on a shutdown or with a subagent's task. In the
helper, `Serve` registers and spawns, `RunOther`, `RunCancel` and `ExecSpawn` to
`ExecResponds` are the spawned tasks. `HelperDies` may come at any time.
The stream is a queue in each direction: `channel` goes on to the helper's
reader, `fromHelper` comes from its `write_loop`; a request or response on its
way longer is one that was taken later. `Shutdown` comes when no task has a
call under way; a subagent that outlives the session (`finish_shared`) is left
to `Lifecycle` (`orphan`).

### EventBus and EventStream

An event is its sequence number. `emit` is three steps, as in the code: push
to the history under the lock, append to the journal, broadcast; two emitters
interleave between them. The broadcast channel keeps `Capacity` messages; a
receiver further behind sees `Lagged`. `EventStream` adds one connection and
one client (`kind`: terminal, graphical, or graphical after pairing, chosen
initially). The pump and the answer to `request_events` are two tasks that
write to one queue, `out`. What a batch of events adds to the transcript is
the one ordered list of those not skipped (`InOrder`). `Drop` loses both directions; the client connects
again and asks from where it was.

`EventLog` is what the stream promises a client: a log that grows, and a
cursor. It has two steps, `Emitted` and `Show`; the second shows some events
not shown before, sorted, and moves the cursor past the highest. With `ordered`
(the terminal client) only events above the cursor are shown. `EventStream`
implements it under `log <- history`, `view <- transcript`, `last <- resume`;
connecting, pumping, lagging, losing the connection and catching up are
stuttering steps.

### Interactive and TuiApp

`TuiApp` is `App` of the terminal client as operators: `ApplyEvent`,
`HandleServer`, `HandleNet` and `HandleKey` map an app to the next one, the last
with the messages to send. Words stand for characters.

`Interactive` puts clients with such an app at one frontend. `log` is the bus,
`queue`, `pending` and `outcome` are the prompt channel, the questions map and
the one-shot channel of the current question. A handler that works between two
accesses to shared state is a member of `handlers`: a prompt is logged, then
queued; an answer takes the question out of the map, resolves the call, and is
logged. `Harness` has the calls of the loop (`TakePrompt`, asking, `told` of an
interrupt, closing), `Server` the handlers (`HandleMessage` has one disjunct for
each kind of message), `Client` key presses and deliveries;
the connection of a client in `Typists` may be lost. A client that connects
again is sent the backlog and the live events by two tasks: `ReceiveEvents` has
them in order, `ReceiveLive` has a live event first, after which the client skips
the backlog (`missed`).

### Pairing

Runs of the terminal client that share one state directory, one harness.
`LaunchLocal`, `LaunchKey`, `LaunchPair` are the ways `main.rs` builds a target;
`Dial`, `Authenticate` (token, pairing code, challenge, signature) and
`AuthTimeout` the exchange; `SaveKeyId` and `RememberHost` what a client keeps,
each of which may fail. A lost connection dials again with the specification
it had.

### Lifecycle

One process from start to exit code. `stage` is its next step; the Boolean
variables say what it has set up and not taken down. Every step of the set-up
may fail, every step of `finish` too; `orphan` is the task that outlived the
session, with which `finish_shared` skips frontend and sandbox. `StartFails` is a
sandbox whose helper does not connect: the child is killed and reaped, but the
container it ran (`container`) is runsc's. For `silo
shell`, `SignalArrives` and the steps that end the shell's process group. `Killed` is
a signal before handlers are installed, or SIGKILL at any time.

### Settings

`ResolveSettings` layers flags, file, environment and defaults; `StartRun`
validates the read allowlist (`NormalizePath`, the risk scan), attaches, and
`WriteRunFile` records the policy; `ShellStatus`, `ShellReads`, `ShellDecides`,
`ShellStarts` are `silo shell` taking it over. A table of the file that is there
has its kind, as serde requires; a policy taken over counts as accepted. Directories may appear and the
harness may end or die in between.

### Tools

Callers that work on one file through the helper. `EditRead` and `Truncate`,
`Put` are separate steps, as in `tokio::fs`; captured streams grow by bytes and
are cut at `OutputCap`, reads at `ReadCap`. A command may answer with its pipes
still open (`DRAIN_GRACE`).

### Wire

A conversation grows as the agent loop builds it, and `Request` is its wire form
for each of the four backends: a sequence of items with a role, the calls they
make and the call they answer.

### Metering

`CheckQuota` and `CheckedQuota` (two loads), retries, the two additions of
`record` and the two loads of `snapshot` are separate steps of every agent.
`Report` and `Broadcast` are the two halves of `emit`; `OtherEvent` is any other
event on the bus. `WatchReport` is the cost watcher and the event pump of a
client's connection, with sequence numbers, lag and refill; `TrackReport` is the
headless tracker, `RequestCost` the reply that replaces what a client shows.

### Replay

A behaviour records a session and then replays its journal through the mock
components. `disorder` collects what users did while the harness was not waiting
for it.

### Proxy and NetPolicy

`Proxy` has one state machine per connection: accepting, admission, leaf
certificate, inner requests, resolving, connecting, exchange. Resolution answers
anything, every time. `NetPolicy` has the two decisions as operators: names are
sequences of characters, addresses of octets or segments at the boundaries of
the blocks.

### UnlockReport

The snapshot and the comparison go from path to path of a small tree (`.git` with
a configuration and a hook, a workspace file, `package.json`; a path may be a
file, a directory, a link or missing) which may change in between.

### RegistryLock

The lock file, one system call per step: `Create`, `Write`, `Read`, `Judge`,
`Reread`, `RemoveLock`, then `Load`, `Save`, `Release` of the registry, whose
contents are a version number. `HolderCrash` stops a process anywhere; `Age` lets an
unreadable file pass the staleness age; `Rerun` is the user running a command
again after `acquire_lock` gave up.

### Workspace

One workspace, commands that lock and unlock it, harnesses and shells that
attach. A section under the registry lock is one step (that is what
`RegistryLock` is about); moving, copying or removing one file is one step, which
a failure or a crash may cut off (`CutIn`, `CutOut`): a copy then leaves a
truncated file (`torn`), and a move between filesystems (`across`), a copy and a
removal, the file in both places.
`store[i]` is the directory of the i-th lock: manifest, data directory, image,
mount. Lock: `Reserve`, `Snapshot`, `CreateImage` or `OpenData` ... `Commit`, with the fallback to
a plain directory and the undo steps. Unlock: `Unlock`, `Terminate`,
`ReleaseMount`, `Restore`, `MoveBack` or `CopyBack`, `ReportChanges`, `Forget`, `Erase`.
Operations fail up to `MaxFaults` times, processes die up to `MaxCrashes`
times. `host` (the strategy), `links` and `across` are chosen initially. `Overlap` says
whether somebody runs unlock or attaches while a lock is between its
reservation and its commit.

## 3. Runs

Passing runs; every property has a mutant in `PROJECT.json` that breaks it
under the same configuration.

| Run | Bounds | What it shows |
| --- | --- | --- |
| `MCAgent` | signal: an agent, a subagent and one of its own, queue of 2, 2 commands; conversation: 6 messages, 2 calls a response, 2 failures | an interrupt of the idle session does not abort the next turn (`IdleInterruptConsumed`); a shutdown that was requested ends every task (`ShutdownUnwinds`); every request is well-formed (`RequestWellFormed`); a shutdown ends the session (`ShutdownEndsSession`), an interrupt the turn (`InterruptEndsTurn`) |
| `Subagents` | 3 subagents, depth 2, 2 slots, 1 interrupt | slots add up on every path (`SlotsConserved`), the top-level agent's children end and report with its turn (`TopChildrenEndWithTurn`), recursive cancellation ends (`CancellationEnds`) |
| `EventStream` | 2 emitters, 3 events, capacity 1, 2 connections, pump and listener, 3 kinds of client | subscribers miss no event but one whose broadcast was overtaken (`MissedOnlyIfOvertaken`); the transcript implements `EventLog`, so none is shown twice or below the cursor (`ImplementsLog`); a client at rest is at the newest (`ClientReachesEnd`), and a graphical one is complete from its last request on (`CompleteFromRequest`) |
| `HelperSession` | an agent and a subagent with one tool call each, channel of 2 | an Exec in the helper can be cancelled for as long as it may run (`RunningCancellable`); a lost connection fails every request (`LostConnectionFailsRequests`); an interrupt ends the tool call it is for (`InterruptEndsTool`) |
| `Interactive` | 2 clients, 3 messages, 1 turn, 1 question, 1 lost connection | a question is answered once, and as logged (`FirstAnswerWins`); every caught-up screen agrees with the harness on the pending question (`ScreensInStep`); a prompt starts one turn, and those of one connection in the order they were logged (`PromptsInOrder`); an interrupt ends a question (`InterruptEndsQuestion`) |
| `MCSafety` | see `MCSafety.cfg` | `PairedOnceAndForAll`: a code lets one client in, and a completed pairing can be used again; `EgressGuarded`: only permitted addresses are reached, whatever names resolve to, and every request leaves its record; `PolicyByReference`: string and bit comparisons decide as labels and address blocks do; `CallsAnsweredOnWire`: every request answers each call once, in order; `AnswersTrue`: a tool's answer tells what happened to the file and whether output was left out; `ReportExact`: the unlock report lists exactly the changes; `OrderlySessionsReplay`: a session whose users acted when asked and whose requests succeeded replays exactly; `SensitiveUnread`: no session or shell reads a sensitive file it was not told to |
| `MCLiveness` | see `MCLiveness.cfg` | workspace: no file is lost (`ContentsSafe`), the directory is whole after unlock (`UnlockedWhole`), the mount stays for the last one attached (`AttachedServed`), an unlock run again completes (`UnlockCompletes`); lock file: updates are serialized while no holder has died (`UpdatesSerialized`), a dead holder's file is removed (`StaleLockRemoved`); metering: overshoot of at most one request per agent (`OvershootBounded`), the cost cache and the client settle on the last report (`CostsSettle`); lifecycle: what was set up is taken down and exit code 0 means success (`EndsClean`), a signal ends the shell and its process (`SignalEndsShell`) |

Why these bounds: three tasks give a holder of the receiver, a watcher, and a
detached grandchild that holds it when the next input arrives; two commands a
shutdown behind an interrupt. `Narrow` in `MCAgent` keeps one command while all
three run. Three subagents
at depth two give a grandchild while its uncle is being cancelled; two slots
for three children make the semaphore run out. Capacity 1 with three events
makes every subscriber lag, and two connections lose one in every state. Three
processes are needed for the third to take the lock between another's verdict
and its removal. Two tool calls and a channel of two give every order of an Exec
and the Cancels for it, with senders parked behind a full channel. Two files
make every loop of lock and unlock stop half-way. Two clients give an answer
racing another answer or an interrupt. Two runs of the terminal client, two
codes and two mishaps give a lost answer and a second attempt. Two agents and a
quota of three tokens, where a request uses two, both pass the check, and one may
see half of the other's usage. A channel of one event makes both receivers of
reports lag. Two callers of tools give a write
between another's read and rewrite. Names of four characters have two labels and
a wildcard; octets and segments are the boundaries of every block and their
neighbours. `Narrow` in `MCLiveness` keeps one command for the image strategies,
one harness for all but the ext4 image, and one lock and nobody attached where
files are moved between filesystems: what two commands or two harnesses do to
each other is the same for every strategy.

Runs that refute something the repository says:

| Run | Property | What happens |
| --- | --- | --- |
| `ShutdownWatch` | `WatchingIsEnough` | the task with the command receiver leaves its wait with a command queued; the other, which waits on the watch channels, is not told of it |
| `SubagentsOrphan` | `NoSubagentOutlivesTurn` | a child is aborted with a grandchild's handle in hand; the grandchild runs on after the turn |
| `EventStreamGap` | `TranscriptComplete` | a live event arrives before the backlog, which the terminal client then takes for duplicates |
| `WorkspaceFallback` | `ContentsKept` | a removal fails after the image was filled; the fallback deletes the image with the only copy of what was removed already |
| `ProxyHost` | `RequestsReachTheirHost` | the second request on a kept-alive plain HTTP connection names another host and is sent to the first one's server |

### Conditions in the properties

Several promises of the docs hold under a condition, and the property states
it. Without the condition TLC refutes them:

- `MissedOnlyIfOvertaken`: two overlapping `emit` calls can broadcast in the
  opposite order, and a subscriber takes the lower number for handled.
- `CompleteFromRequest` counts from the last request: after pairing, a live
  event stored before the request moves `nextSeq` past the history; and after a
  loss between a live event and the backlog the next request starts above the
  gap.
- `UpdatesSerialized` asks that no holder has died: between
  the second read and the removal of a stale file another waiter can have
  replaced it.
- `UnlockCompletes` excludes a lock cut off by a crash (one that died before its
  snapshot leaves an entry without a manifest, at which every unlock fails), two
  unlocks at once, and symbolic links with an image strategy or between
  filesystems (a link already restored stops the second copy). An unlock may
  crash.
- `InterruptEndsTool` speaks of an Exec that was sent when the interrupt came.
  One still parked in the full channel is not polled while its Cancel goes
  ahead of it; the Cancel then finds nothing, and the Exec runs on.
- `SessionAssumption` asks for a slot a task: with fewer, interrupted calls that
  are not polled can have all the slots their own Cancels wait for. With 64
  slots that takes 64 interrupted tasks.
- `ContentsSafe` and `UnlockedWhole` are about behaviours that are `Spared`: no
  operation fails, or one does and the strategy is the plain directory (without
  links, if between filesystems). Crashes are not limited, except that no copy
  into the lock's directory was cut off within a file: undo and unlock would copy
  the truncated file over the original. A failure with an image strategy is the
  run `WorkspaceFallback`; and when a lock fails and then the move back of its
  undo fails too, `undo_partial_lock` deletes the container with the files still
  in it (`lib.rs:612`).
- `Overlap = FALSE`: unlock accepts an entry that a running lock has only
  reserved, and attach serves its half-filled container.
- `ShutdownUnwinds` is about a shutdown that was applied; what becomes of a
  command that is queued is the run `ShutdownWatch`.
- `IdleInterruptConsumed`: a detached subagent that has the receiver when the
  input arrives makes the check before the turn skip the queue, and the interrupt
  ends the turn after all (`crowded`).
- `SlotsConserved` counts handles: a detached grandchild's permit is back in the
  semaphore while it runs.
- `OvershootBounded` is one request for each agent that can be between check and
  charge. `docs/COSTS.md:159-160` says "a session can overshoot the limit by up to
  one request's usage", which is the bound for one agent at a time; no run
  refutes that sentence.
- `CostsSettle` asks that no other event overtook the last report's broadcast,
  that the reports of two agents did not cross between snapshot and bus, and that
  the client's last cost reply was not taken from a cache behind its own stream.
  Nothing is claimed of the headless closing lines: the tracker skips what it
  lagged behind, and is aborted at shutdown.
- `AnswersTrue`: Edit reads and rewrites in two steps, so another writer's
  change can be lost; a rewrite that fails has already truncated the file;
  occurrences that overlap are counted once (`str::matches`), although
  `docs/TOOLS.md` asks for exactly one; and nothing marks output that was still
  in a pipe when `DRAIN_GRACE` passed.
- `OrderlySessionsReplay`: prompts, uploads and interrupts during a turn, and
  subagents that run beside each other, do not replay at the point they were
  recorded at; a request that failed leaves no entry in the script.
- `PairedOnceAndForAll`: a launch with `--pair` replaces the stored key before
  its code is tried; two clients that pair at the same time can cross their key
  and id files; a failed write can leave either behind.
- `EgressGuarded`: a request whose connection the sandbox closes while it is
  served may go unrecorded.
- `ScreensInStep`: a client that answered over a connection that was then lost
  does not show the question again, and one that was sent a live event before the
  backlog has skipped the backlog's questions and answers.
- `PromptsInOrder`: the prompts of two connections may be queued in another order
  than they were logged in.
- `EndsClean`: not when the process is killed, when a task outlived the session,
  or when the scratch tree cannot be removed; a frontend that fails to start may
  leave its run file, a gVisor sandbox its container, and the mock frontend its
  observer when the final message does not match.
- `SignalEndsShell`: a signal handled before the shell is spawned ends nothing.
- `SensitiveUnread` speaks of the moment the allowlist is validated; a shell that
  takes over a harness's policy does not validate it again.
- `ReportExact`: the tree lay still during snapshot and report.

## 4. Fairness

- The tokio runtime polls every task that can make progress: weak fairness of
  each task's own steps (`Step`, `Proceed` in `ShutdownSignal`; `Step`,
  `OtherTool` and the end of an aborted turn in `Subagents`; the loop's steps in
  `Conversation`). Nothing is assumed of a model, a user or a tool, except that
  a tool told of an interrupt returns, and that the read of a file to be sent to
  the user, which is raced with nothing (`agent.rs:523`, `ReadDone`), does.
- `SF(AbortLands)` in `Subagents`: an aborted task ends at its next suspension;
  it passes such points again and again.
- `HelperSession`: the runtimes on both sides go on while a task can (`Runtime`;
  every behaviour is finite, so one weak fairness condition is enough). A
  process in the sandbox need not end by itself, and no timeout need fire.
- `RegistryLock`: a process that has not died goes on, time passes (`Age`), and
  the user runs a timed-out command again (`Rerun`).
- `Workspace`: a command that runs goes on, and unlock is run again until it
  succeeds.

- `Metering`: an agent that began a request goes on (`Completing`), and the
  watcher, the tracker and the connection are polled. No request need be made.
- `Lifecycle`: the process goes on (`Steps`); neither the user nor a signal need
  do anything.
- `Interactive`: `Progress`, the steps of the harness, the handlers and the
  delivery to connected clients; no client need type, connect or answer.

In `MCAgent` and `MCLiveness` each condition is guarded by `part`, so it is that of the
component alone. `EventStream` and `MCSafety` need none: their properties speak
about states at rest or about steps.
Deadlock is checked except in `MCSafety`, `MCLiveness`, `Interactive` and the
two
violation runs `WorkspaceFallback` and `ProxyHost`: sessions end, processes exit,
and the bounds on locks, requests and messages are used up.

## 5. Proofs

The theorems hold for every value of the constants that satisfies the named
assumption of the module, so for any number of agents, clients, processes,
events, files and so on. Each is an induction: an invariant that implies the
property, that the initial states satisfy, and that every action keeps, with
one step of the proof per action. TLC was used first to find each inductive
invariant, on the instances of the runs; most properties are not inductive as
they stand, and the strengthening says why the code is right.

Some operators are recursive functions: the labels of a name, the wire form of a
conversation. The library's induction theorems cannot be instantiated here, since
they take a predicate as a parameter. Induction over a set can be stated without
one: a set that has 0 and, with every n, n + 1, has every number (`Counting`).
That is proved from the well-foundedness of the order on the naturals. The facts
about each recursive function are drawn from it, by way of a formula that says
what solving its recursion means (`Splits`, `Sends`).

| Theorem | Property of a run | Module |
| --- | --- | --- |
| `IdleInterrupt`, `LifecycleEndsClean` | `IdleInterruptConsumed`, `EndsClean` | `HarnessProofs` |
| `SlotsAddUp`, `TopChildrenDone` | `SlotsConserved`, `TopChildrenEndWithTurn` | `SubagentsProofs` |
| `LagLosesNothing`, `StreamLosesNothing` | `MissedOnlyIfOvertaken` | `EventStreamProofs` |
| `CursorReachesEnd`, `RequestCompleted` | `ClientReachesEnd`, `CompleteFromRequest` | `EventStreamProofs` |
| `StreamImplementsLog` | `ImplementsLog` | `EventStreamProofs` |
| `EgressStaysGuarded`, `PairedForGood` | `EgressGuarded`, `PairedOnceAndForAll` | `ConnectionProofs` |
| `RegistrationsExact` | `RunningCancellable` | `ConnectionProofs` |
| `PolicyAsReference` | `PolicyByReference` | `PolicyProofs` |
| `RequestsWellFormed`, `QuotaOvershoot` | `RequestWellFormed`, `OvershootBounded` | `SessionProofs` |
| `CallsStayAnswered` | `CallsAnsweredOnWire` | `WireProofs` |
| `RegistrySerialized`, `ReportStaysExact` | `UpdatesSerialized`, `ReportExact` | `RegistryProofs` |

### HarnessProofs

What the harness process owes its user, in two modules that share no state.
The shutdown signal, from `SignalAssumption` (the names of the outcomes are
distinct):

- `TypeCorrect`: `Spec => []TypeOK`.
- `FinalMessage`: `Spec => []OneFinalMessage`. The state is written once, by the
  first request; a task is given what it reads there.
- `IdleInterrupt`: `Spec => []IdleInterruptConsumed`. It needs that commands are
  applied once and in the order sent (`CommandsKept`): a command is consumed only
  by the owner of the receiver (`ReceiverOwned`), and a closed receiver leaves
  nothing queued (`ClosedEmpty`). The heart of the argument is `InputFirst`:
  while the turn runs, the interrupts counted in the turn's generation include
  every one sent before the turn's input, because the check after the input
  drained the queue. That drain is complete when no other task owns the receiver
  then, which is `TopAlone`: unless the session was `crowded`, no subagent was
  alive when the input arrived.

The process:

- `LifecycleEndsClean`: `LifeInv` says for every stage what is up (`WorkspaceUp`,
  `ProxyUp`, `HelperUp`, `FrontendUp`), how the run went and which error it
  returns (`Verdict`), and the exit code (`Code`); a process that was killed
  leaves everything as it was.

### SubagentsProofs

From `TreeAssumption` (the bounds are natural numbers). `TreeInv` follows the
handles of the subagents: each is in one registry pool, in the hand of one task
or in the frames of one recursive cancellation (`Apart`), and there are as many
as permits are out (`SlotsOK`). A handle outside a cancellation is with the
agent that spawned the child, and those of the top-level agent's children never
get into another task's cancellation (`FamilyOK`). `TopChildrenOK` then says
that such a child is still to be collected or is over and has reported
completion, once: the case that needs care is a child that is aborted while it
ends by itself, where either the child or its canceller reports. Steps are
grouped by what they do to handles (`Moves`, `Drops`, `Calm`, `Hands`, `Walks`),
and each group is shown to keep the invariant once.

### EventStreamProofs

From `BusAssumption` and `StreamAssumption`. `BusInv` accounts for every event
that a live subscriber should handle: it is handled, overtaken, broadcast and
still ahead of the receiver, or in the hands of an emitter who has not broadcast
it yet (`Accounted`). In the last case it may become an overtaken one, which is
why the invariant has to speak of later broadcasts (`Passed`) before they
overtake it. `StreamInv` adds the client: what it has shown is below its cursor
and the cursor within the history (`CursorOK`), messages on the way carry events
that exist and backlogs are ordered stretches (`MailOK`), a connection is silent
before its pump starts (`HandshakeOK`), and what the pump handled and the
request asked for has arrived or is on its way (`Delivered`).

`StreamImplementsLog` shows the refinement step by step. Initial states map to
initial states; `Emit`'s push is `Emitted`; receiving an event or a backlog is
`Show` or, when everything is skipped, a stutter; every other step leaves the
mapped variables alone.

### ConnectionProofs

The connections of a session. The three modules share no state.

- `EgressStaysGuarded`, from `ProxyAssumption`: the candidates of a connection
  have passed the guard, and its record is due exactly while a request is in
  flight, or for good once the request was abandoned (`ConnOK`).
- `PairedForGood`, from `PairingAssumption`: a code that has let somebody in is
  gone (`CodesOK`), the messages of a connection follow from the specification
  its process started with (`MessagesOK`), and unless two pairings overlapped or
  a write failed, the process that is pairing owns the stored key and, past
  `save_key_id`, the stored id (`DiskOK`).
- `RegistrationsExact`, from `SessionAssumption`, says more than the run's
  property: a cancellation sender is there for every Exec that may run, and only
  for one that has not answered (`RegistrationsLive`). Both directions are needed
  for the induction, with the fact that only an Exec has a process.

### PolicyProofs

- `PolicyAsReference`, from `NetPolicyAssumption` (octets are below 256, segments
  below 65536): for names over any characters and of any length, comparing
  the end of a name with a pattern decides as comparing labels does; and for every
  address, the comparisons of octets and segments decide as membership in the
  listed blocks does. The first is an induction over names, one character at a
  time (`NameByName`).

### SessionProofs

The session loop and what it may spend. The two modules share no state.

- `ConversationTyped`, `RequestsWellFormed`, from `ConversationAssumption`:
  `LoopInv` ties the place of the loop to the end of the conversation: at a
  model call the last message is the user's, at the next input everything is
  answered, and while a response is being served its calls before the current
  one are. `Chain` says the same of every earlier pair of messages.
- `QuotaOvershoot`, from `MeteringAssumption`: the tokens used,
  together with what the requests under way will still add, stay below the quota
  plus one request for every agent (`ChargeBounded`): a check admits a request
  only below the quota, and no agent has two under way.

### WireProofs

- `CallsStayAnswered`, from `WireAssumption`: for conversations and messages of
  any length and each of the four backends. `WireInv` says of the conversation that every
  call is in one block and its result in one block of the next message, before
  any text (`AnsweredIn`). Of a message's wire form it is shown that each item
  is of its role (`Carries`), that calls and results are kept once and in their
  order (`CallsOnce`, `ResultsOnce`), and that nothing is added (`Honest`). A
  request is the wire forms one after the other, so both ends of a call are
  found at their places in it.

### RegistryProofs

The lock file of the registry, and the report of an unlock.

- `LockTyped`, `RegistrySerialized`, from `LockAssumption`: while no holder has
  crashed, the file is there exactly while one process holds the lock, and a
  waiter that is about to look again has seen the name of a process that has
  exited, so nobody gets as far as removing another's file (`LockExclusive`).
- `ReportStaysExact`, from `UnlockReportAssumption`: for any number of changes and
  unlocks. `UnlockInv` says that a manifest taken while the tree lay still has
  every path as it was (`SnapshotOK`, `ManifestSound`, `OriginalOK`), and that the
  report so far has exactly the changes among the paths walked so far (`SoFar`,
  `ReportOK`).

### What is only model-checked

- All liveness properties: fairness and ENABLED are outside the prover's reach.
- `ContentsSafe`, `UnlockedWhole` and `AttachedServed`: with copies that may be
  cut off within a file, in either direction, the invariant has to say for every
  step of lock, undo and unlock which files are whole where.
- `FirstAnswerWins`, `ScreensInStep` and `PromptsInOrder`: the screens are replays
  of a log of which a client may have skipped a stretch.
- `AnswersTrue` and `SensitiveUnread`.
- `OrderlySessionsReplay`: what is replayed is a script that several passes over
  the finished journal compute (`RecordedResponses`, `Executions` and so on), and
  it has to be compared with what the session went through while it was recorded,
  two runs of the loop that may be any distance apart. No inductive invariant was
  found that relates them.

## 6. Not modelled

Wire encodings (HTTP, TLS, DNS, websocket frames, JSON), certificates, prompt
texts, argument parsing, the rendering of the user interfaces and the helper's
relay: they have no state shared between tasks, and their correctness is in
formats. Sandbox profiles, container specifications and mount commands are input
to other programs. Credential injection in the proxy is a header of a request.
The graphical client is modelled from `auth_ok` on: its registry of harnesses,
its starting of a local harness, and a `disconnect()` that runs while `_connect`
awaits the socket are not. Of the settings, the ones that interact are in
`Settings`; the others are copied. In the modelled parts these are left out:
event payloads outside `Interactive`, malformed helper lines, directory
listings, the texts of unified diffs, and the expectations a test script's
observer checks.

## 7. Plan

Proofs of `ContentsSafe` with truncated files, of `AnswersTrue` for any text, and
of `OrderlySessionsReplay` for sessions of any length, with the passes over the
journal as recursive functions like those of `Wire`.
