----------------------------- MODULE Lifecycle -----------------------------
(***************************************************************************)
(* What one process sets up and takes down: a harness session              *)
(* (silo_harness::run, behind `silo run`) or a user shell (`silo shell`).  *)
(* Setup goes through the journal, the workspace, the egress proxy, the    *)
(* sandbox (scratch space, helper process, helper connection), the         *)
(* frontend and the LLM backend, and may fail at every step; `finish`      *)
(* takes down what was set up; the process ends with an exit code.  The    *)
(* process may also be killed: both programs install their signal handlers *)
(* only after the sandbox has started.                                     *)
(*                                                                         *)
(* The session itself is left to the modules of the agent loop; here it is *)
(* a step that ends in one of the ways `run` distinguishes.  In `silo      *)
(* shell` the step is the user's shell and the signals that end it.        *)
(***************************************************************************)
EXTENDS Naturals

VARIABLES
    program,    \* "run" or "shell" (fixed)
    sandbox,    \* "gvisor" or "sandbox-exec" (fixed)
    scripted,   \* whether a test script drives the run (fixed)
    stubborn,   \* whether the user's shell ignores SIGTERM (fixed)
    stage,      \* the next step of the process
    workspace,  \* whether the workspace is attached
    proxyUp,    \* whether the proxy's accept task runs
    scratch,    \* whether the scratch directory exists
    bundle,     \* whether the temporary directory with its configuration exists
    forwarder,  \* whether the relay to the proxy accepts connections
    helper,     \* whether the helper process runs (gVisor: the runsc command)
    container,  \* whether runsc keeps a container
    frontend,   \* whether the frontend's tasks run
    runFile,    \* whether the run file exists
    server,     \* whether the local inference server runs under this process
    end,        \* how the session ended
    failed,     \* the error `run` or `finish` returns, first one wins
    leftover,   \* whether script entries are left unconsumed
    orphan,     \* whether a task outlived the session and holds the components
    blocked,    \* whether the operating system refused to remove something
    signal,     \* "none", "pending", "lost", "seen": SIGTERM or SIGINT
    shell,      \* the user's shell: "none", "running", "dying", "ended"
    code        \* the exit code, once the process has ended; 256 when killed

fixed == <<program, sandbox, scripted, stubborn>>
running == <<bundle, forwarder, container>>
parts == <<workspace, proxyUp, scratch, running, helper, frontend, runFile, server>>
outcome == <<end, failed, leftover, orphan, blocked>>
lifecycleVars == <<fixed, stage, parts, outcome, signal, shell, code>>

Ok == "ok"
NotYet == 1000

LifecycleInit ==
    /\ program \in {"run", "shell"}
    /\ sandbox \in {"gvisor", "sandbox-exec"}
    /\ scripted \in BOOLEAN /\ (program = "shell" => ~scripted)
    /\ stubborn \in BOOLEAN /\ (program = "run" => ~stubborn)
    /\ stage = "open"
    /\ workspace = FALSE /\ proxyUp = FALSE /\ scratch = FALSE /\ helper = FALSE
    /\ bundle = FALSE /\ forwarder = FALSE /\ container = FALSE
    /\ frontend = FALSE /\ runFile = FALSE /\ server = FALSE
    /\ end = Ok /\ failed = Ok /\ leftover = FALSE /\ orphan = FALSE /\ blocked = FALSE
    /\ signal = "none" /\ shell = "none"
    /\ code = NotYet

----------------------------------------------------------------------------
(* Setup. *)

\* Where a setup error goes: `run` finishes with the components it has so far;
\* `silo shell` returns, and dropping its locals is the only cleanup.
OnError == IF program = "run" THEN "finish_frontend" ELSE "unwind"

\* get_or_insert: the first error wins.
NoteFailure(error) == failed' = IF failed = Ok THEN error ELSE failed

SetupFails == stage' = OnError /\ NoteFailure("setup")
SetupGoesOn(next) == stage' = next /\ UNCHANGED failed

\* Journal path and read allowlist are validated before anything is started:
\* `run` returns from here.
Open ==
    /\ stage = "open"
    /\ \/ SetupGoesOn("attach")
       \/ stage' = "return" /\ NoteFailure("setup")
    /\ UNCHANGED <<fixed, parts, end, leftover, orphan, blocked, signal, shell, code>>

AttachWorkspace ==
    /\ stage = "attach"
    /\ \/ SetupGoesOn("proxy") /\ workspace' = TRUE
       \/ stage' = "return" /\ NoteFailure("setup") /\ UNCHANGED workspace
    /\ UNCHANGED <<fixed, running, proxyUp, scratch, helper, frontend, runFile, server,
                   end, leftover, orphan, blocked, signal, shell, code>>

\* HttpProxy::start; binding the DNS socket may fail with the accept task up.
StartProxy ==
    /\ stage = "proxy"
    /\ \/ SetupGoesOn("scratch") /\ proxyUp' = TRUE
       \/ SetupFails /\ proxyUp' \in BOOLEAN
    /\ UNCHANGED <<fixed, running, workspace, scratch, helper, frontend, runFile, server,
                   end, leftover, orphan, blocked, signal, shell, code>>

\* remove_dir_all: it may fail, and then once more when the handle is dropped.
RemoveScratch ==
    \/ scratch' = FALSE /\ UNCHANGED blocked
    \/ scratch /\ blocked' = TRUE /\ UNCHANGED scratch

\* create_sandbox, and Sandbox::start up to the helper's process.  A partial
\* scratch tree is removed by dropping it.
CreateScratch ==
    /\ stage = "scratch"
    /\ \/ SetupGoesOn("helper") /\ scratch' = TRUE /\ UNCHANGED blocked
       \/ SetupFails /\ scratch' \in BOOLEAN /\ blocked' = scratch'
    /\ UNCHANGED <<fixed, running, workspace, proxyUp, helper, frontend, runFile, server,
                   end, leftover, orphan, signal, shell, code>>

\* Sandbox::start returns with an error: what it holds is dropped, the helper
\* killed, the scratch space removed.
StartFails ==
    /\ SetupFails
    /\ helper' = FALSE /\ bundle' = FALSE /\ forwarder' = FALSE
    /\ RemoveScratch

\* gVisor: copying the helper, the bundle, the helper's socket and the relay to
\* the proxy, and spawning.
SpawnGvisor ==
    /\ stage = "helper" /\ sandbox = "gvisor"
    /\ \/ /\ SetupGoesOn("accept")
          /\ helper' = TRUE /\ bundle' = TRUE /\ forwarder' = TRUE /\ container' = TRUE
          /\ UNCHANGED <<scratch, blocked>>
       \/ StartFails /\ UNCHANGED container
    /\ UNCHANGED <<fixed, workspace, proxyUp, frontend, runFile, server,
                   end, leftover, orphan, signal, shell, code>>

\* sandbox-exec: the profile and the helper's socket, and spawning.  The proxy
\* is reached directly.
SpawnSandboxExec ==
    /\ stage = "helper" /\ sandbox = "sandbox-exec"
    /\ \/ /\ SetupGoesOn("accept")
          /\ helper' = TRUE /\ bundle' = TRUE
          /\ UNCHANGED <<forwarder, scratch, blocked>>
       \/ StartFails
    /\ UNCHANGED container
    /\ UNCHANGED <<fixed, workspace, proxyUp, frontend, runFile, server,
                   end, leftover, orphan, signal, shell, code>>

\* The helper connects and says hello, or fails to within the timeout and is
\* killed, or exits first.  With gVisor it is the runsc command that is killed:
\* unlike in a shutdown nothing deletes its container.
AcceptHelper ==
    /\ stage = "accept"
    /\ \/ /\ SetupGoesOn(IF program = "run" THEN "frontend" ELSE "shell")
          /\ UNCHANGED <<helper, running, scratch, blocked>>
       \/ StartFails /\ container' \in {FALSE, container}
    /\ UNCHANGED <<fixed, workspace, proxyUp, frontend, runFile, server,
                   end, leftover, orphan, signal, shell, code>>

\* create_frontend and Frontend::start.  The interactive frontend writes its
\* run file before the last step that can fail (the TLS configuration), and
\* spawns its tasks after it; the others write none.
StartFrontend ==
    /\ stage = "frontend"
    /\ runFile' \in (IF scripted THEN {FALSE} ELSE BOOLEAN)
    /\ \/ SetupGoesOn("backend") /\ frontend' = TRUE
       \/ SetupFails /\ UNCHANGED frontend
    /\ UNCHANGED <<fixed, running, workspace, proxyUp, scratch, helper, server,
                   end, leftover, orphan, blocked, signal, shell, code>>

\* create_backend; a local backend starts its inference server and polls it
\* until it answers, it exits with an error or the deadline passes.
StartServer ==
    /\ stage = "backend"
    /\ \/ SetupGoesOn("session") /\ server' \in BOOLEAN
       \/ SetupFails /\ UNCHANGED server
    /\ UNCHANGED <<fixed, running, workspace, proxyUp, scratch, helper, frontend, runFile,
                   end, leftover, orphan, blocked, signal, shell, code>>

----------------------------------------------------------------------------
(* The session, or the user's shell. *)

\* The ways `run` distinguishes: an ordinary end, one by LLM failures, a
\* script mismatch, or an error of the loop.  A cut-short turn may leave a
\* task that holds the components.
Session ==
    /\ stage = "session"
    /\ end' \in {Ok, "llm", "error"} \cup (IF scripted THEN {"mismatch"} ELSE {})
    /\ failed' = IF end' = "error" THEN "session" ELSE failed
    /\ leftover' \in (IF scripted THEN BOOLEAN ELSE {FALSE})
    /\ orphan' \in BOOLEAN
    /\ stage' = "finish_frontend"
    /\ UNCHANGED <<fixed, parts, blocked, signal, shell, code>>

\* The first poll of Sandbox::user_shell spawns the shell in a process group.
SpawnShell ==
    /\ stage = "shell" /\ shell = "none"
    /\ \/ shell' = "running" /\ UNCHANGED <<stage, failed>>
       \/ shell' = "ended" /\ NoteFailure("shell") /\ stage' = "finish_frontend"
    /\ UNCHANGED <<fixed, parts, end, leftover, orphan, blocked, signal, code>>

\* SIGTERM or SIGINT, once the handlers are installed.
SignalArrives ==
    /\ stage = "shell" /\ signal = "none"
    /\ signal' = "pending"
    /\ UNCHANGED <<fixed, stage, parts, outcome, shell, code>>

\* terminate_user_shell: nothing to do without a process group; otherwise
\* SIGTERM, and the wait for the group to disappear.
TerminateShell ==
    /\ stage = "shell" /\ signal = "pending"
    /\ \/ shell = "none" /\ signal' = "lost" /\ UNCHANGED shell
       \/ /\ shell = "running"
          /\ signal' = "seen"
          /\ shell' = IF stubborn THEN "dying" ELSE "ended"
    /\ UNCHANGED <<fixed, stage, parts, outcome, code>>

\* Mutant: the group is not killed when it is still there after two seconds.
KillGroupNot == shell' = shell

\* killpg(SIGKILL)
KillGroup == shell' = "ended"

KillShell ==
    /\ shell = "dying"
    /\ KillGroup
    /\ UNCHANGED <<fixed, stage, parts, outcome, signal, code>>

UserExits ==
    /\ stage = "shell" /\ shell = "running"
    /\ shell' = "ended"
    /\ UNCHANGED <<fixed, stage, parts, outcome, signal, code>>

\* run_user_shell returns.
ShellReturns ==
    /\ stage = "shell" /\ shell = "ended"
    /\ stage' = "finish_frontend"
    /\ UNCHANGED <<fixed, parts, outcome, signal, shell, code>>

----------------------------------------------------------------------------
(* finish: every step runs, whatever the others return.  finish_shared      *)
(* leaves out the frontend and the sandbox when it cannot reclaim them.     *)

\* The frontend's shutdown fails only in scripted runs, whose mock frontend
\* compares the final message before it stops its observer.
FinishFrontend ==
    /\ stage = "finish_frontend"
    /\ stage' = "finish_sandbox"
    /\ \/ /\ orphan \/ ~frontend
          /\ UNCHANGED <<frontend, runFile, failed, leftover>>
       \/ /\ ~orphan /\ frontend
          /\ frontend' = FALSE /\ runFile' = FALSE
          /\ UNCHANGED failed
          /\ leftover' \in {leftover, FALSE}
       \/ /\ ~orphan /\ frontend /\ scripted
          /\ NoteFailure("mismatch")
          /\ UNCHANGED <<frontend, runFile, leftover>>
    /\ UNCHANGED <<fixed, running, workspace, proxyUp, scratch, helper, server,
                   end, orphan, blocked, signal, shell, code>>

\* Sandbox::shutdown of gVisor: ask the helper, kill the container, kill runsc,
\* delete the container, each for a limited time; then remove the scratch space
\* (and once more when the handle is dropped).  That the runsc commands did
\* their work is taken for granted, as the code does.
ShutdownGvisor ==
    /\ helper' = FALSE /\ bundle' = FALSE /\ forwarder' = FALSE /\ container' = FALSE
    /\ \/ scratch' = FALSE /\ UNCHANGED <<blocked, failed>>
       \/ RemoveScratch /\ (IF program = "run" THEN NoteFailure("sandbox") ELSE UNCHANGED failed)

\* The same of sandbox-exec, which has only the helper to kill.
ShutdownSandboxExec ==
    /\ helper' = FALSE /\ bundle' = FALSE /\ UNCHANGED <<forwarder, container>>
    /\ \/ scratch' = FALSE /\ UNCHANGED <<blocked, failed>>
       \/ RemoveScratch /\ (IF program = "run" THEN NoteFailure("sandbox") ELSE UNCHANGED failed)

FinishSandbox ==
    /\ stage = "finish_sandbox"
    /\ stage' = "finish_proxy"
    /\ \/ /\ orphan \/ ~helper
          /\ UNCHANGED <<helper, running, scratch, blocked, failed>>
       \/ ~orphan /\ helper /\ sandbox = "gvisor" /\ ShutdownGvisor
       \/ ~orphan /\ helper /\ sandbox = "sandbox-exec" /\ ShutdownSandboxExec
    /\ UNCHANGED <<fixed, workspace, proxyUp, frontend, runFile, server,
                   end, leftover, orphan, signal, shell, code>>

FinishProxy ==
    /\ stage = "finish_proxy"
    /\ stage' = "finish_detach"
    /\ proxyUp' = FALSE
    /\ UNCHANGED <<fixed, running, workspace, scratch, helper, frontend, runFile, server,
                   outcome, signal, shell, code>>

\* Mutant: a setup error skips the workspace.
FinishDetachAfterSession ==
    /\ stage = "finish_detach"
    /\ stage' = "return"
    /\ workspace' = (failed = "setup")
    /\ UNCHANGED <<fixed, running, proxyUp, scratch, helper, frontend, runFile, server,
                   outcome, signal, shell, code>>

\* The workspace is detached and the final journal entry written.
FinishDetach ==
    /\ stage = "finish_detach"
    /\ stage' = "return"
    /\ workspace' = FALSE
    /\ UNCHANGED <<fixed, running, proxyUp, scratch, helper, frontend, runFile, server,
                   outcome, signal, shell, code>>

\* `silo shell` returning early: the sandbox and the attached workspace clean
\* up when they are dropped; the proxy's tasks end with the process.
Unwind ==
    /\ stage = "unwind"
    /\ stage' = "return"
    /\ workspace' = FALSE /\ proxyUp' = FALSE /\ helper' = FALSE /\ bundle' = FALSE
    /\ forwarder' = FALSE
    /\ UNCHANGED <<fixed, container, scratch, frontend, runFile, server, outcome, signal,
                   shell, code>>

----------------------------------------------------------------------------
(* The result of `run` and the exit code. *)

\* The error `run` returns: a failed setup or loop, or a failed `finish`
\* unless it is a script mismatch of a scripted run.
RunError == failed \in {"setup", "session", "sandbox"} \/ (failed = "mismatch" /\ ~scripted)

ScriptFailure ==
    scripted /\ (end = "mismatch" \/ failed = "mismatch" \/ leftover)

ExitCode ==
    CASE RunError -> 1
      [] ~RunError /\ ScriptFailure -> 4
      [] ~RunError /\ ~ScriptFailure /\ end = "llm" -> 3
      [] OTHER -> 0

\* Dropping the backend kills the server it started.
Return ==
    /\ stage = "return"
    /\ stage' = "ended"
    /\ server' = (server /\ orphan)
    /\ code' \in IF program = "run" THEN {ExitCode}
                 ELSE IF failed # Ok THEN {1} ELSE {0, 255}
    /\ UNCHANGED <<fixed, running, workspace, proxyUp, scratch, helper, frontend, runFile,
                   outcome, signal, shell>>

\* The default disposition of a signal before the handlers are installed, or
\* SIGKILL at any time.
Killed ==
    /\ stage # "ended"
    /\ stage' = "ended" /\ code' = 256
    /\ proxyUp' = FALSE
    /\ UNCHANGED <<fixed, running, workspace, scratch, helper, frontend, runFile, server,
                   outcome, signal, shell>>

Steps ==
    \/ Open \/ AttachWorkspace \/ StartProxy \/ CreateScratch \/ SpawnGvisor \/ SpawnSandboxExec
    \/ AcceptHelper
    \/ StartFrontend \/ StartServer \/ Session
    \/ SpawnShell \/ TerminateShell \/ KillShell \/ ShellReturns
    \/ FinishFrontend \/ FinishSandbox \/ FinishProxy \/ FinishDetach \/ Unwind \/ Return

LifecycleNext == Steps \/ SignalArrives \/ UserExits \/ Killed

\* The runtime keeps running the process's own steps.
LifecycleFairness == WF_lifecycleVars(Steps)

LifecycleSpec == LifecycleInit /\ [][LifecycleNext]_lifecycleVars /\ LifecycleFairness

----------------------------------------------------------------------------
(* Properties. *)

\* "Shuts down every started component, detaches the workspace, and writes the
\* final journal entry. All steps run even when one fails; the first failure is
\* returned" (silo-harness lib.rs:477): on every
\* path through setup, session and shutdown, whichever step failed, nothing the
\* process started is left behind when it ends; and exit code 0 means that the
\* session ended without error, every component shut down and the script was
\* consumed.  Conditions: the process was not killed, no task outlived the
\* session and the scratch tree could be removed.  A frontend that fails to
\* start may leave its run file, a gVisor sandbox that fails to start its
\* container, and the mock frontend its observer when the final message does
\* not match.
EndsClean ==
    stage = "ended" =>
        /\ (code # 256 /\ ~orphan) =>
              /\ ~workspace /\ ~proxyUp /\ ~helper /\ ~bundle /\ ~forwarder /\ ~server
              /\ scratch => blocked
              /\ frontend => scripted
              /\ runFile \/ container => failed = "setup"
        /\ (program = "run" /\ code = 0) => end = Ok /\ failed = Ok /\ ~leftover /\ ~blocked

\* "SIGTERM and SIGINT terminate the sandboxed shell's process group, then the
\* session unwinds" (cmd_shell.rs:11), also when the shell ignores SIGTERM.
\* Condition: the shell had been spawned when the signal was handled.
SignalEndsShell == (signal = "seen") ~> (stage = "ended")
=============================================================================
