------------------------------ MODULE Settings ------------------------------
(***************************************************************************)
(* The settings of a session: `silo run` layers flags over a configuration *)
(* file over the environment and the defaults (silo/src/cli.rs), validates *)
(* the read allowlist against the list of sensitive paths                  *)
(* (silo-core/src/risk.rs, silo-harness/src/validate.rs) and records the   *)
(* policy in its run file; `silo shell` takes over that policy when it     *)
(* finds the harness alive (silo/src/cmd_shell.rs).                        *)
(*                                                                         *)
(* A path is a sequence of names.  A symbolic link leads into a sensitive  *)
(* directory, which may be missing at first.                               *)
(***************************************************************************)
EXTENDS Naturals, Sequences, FiniteSets

CONSTANTS
    MaxFlags,    \* bound: flags given to `silo run`
    MaxFileKeys  \* bound: keys in the configuration file

ASSUME SettingsAssumption == MaxFlags \in Nat /\ MaxFileKeys \in Nat

VARIABLES
    runFlags, fileKeys, variables,  \* the command line, the file, the environment (fixed)
    risky,       \* --allow-risky-path
    present,     \* the sensitive directories that exist: the state directory always does
    vetted,       \* those there were when the harness validated its allowlist (history)
    config,      \* the resolved configuration
    run,         \* "new", "resolved", "refused", "attached", "running", "ended" or "dead"
    runFile,     \* the policy in the run file: a set of at most one
    attached,    \* whether the workspace has the harness attached
    shell,       \* "new", "attached", "read", "decided", "refused" or "running"
    shellFlags,  \* the flags of `silo shell`
    found,       \* the run file it has read: a set of at most one
    policy,      \* its sandbox policy
    mirrored     \* whether the policy was taken over

settingsVars == <<runFlags, fileKeys, variables, risky, present, vetted, config, run, runFile,
                  attached, shell, shellFlags, found, policy, mirrored>>
inputs == <<runFlags, fileKeys, variables, risky>>
runVars == <<vetted, config, run, runFile, attached>>
shellVars == <<shell, shellFlags, found, policy, mirrored>>

----------------------------------------------------------------------------
(* Flags, file and environment. *)

Unset == "unset"

AllFlags ==
    [frontend : {Unset, "interactive", "headless", "mock"}, prompt : {Unset, "flag"},
     cert : {Unset, "flag"}, key : {Unset, "flag"},
     llm : {Unset, "anthropic", "local", "mock"}, model : {Unset, "flag"},
     apiKey : {Unset, "flag"}, sandbox : {Unset, "auto", "microvm", "mock"},
     read : {Unset, "opt", "link"}, script : {Unset, "flag"}]

\* A table of the file that is there has its kind or backend: serde requires it.
AllKeys ==
    {k \in [frontend : {Unset, "interactive", "headless"}, prompt : {Unset, "file"},
            cert : {Unset, "file"}, key : {Unset, "file"},
            llm : {Unset, "openai", "mock"}, model : {Unset, "file"}, apiKey : {Unset, "file"},
            sandbox : {Unset, "microvm", "mock"}, read : {Unset, "opt", "home"}] :
        /\ k.frontend = Unset => {k.prompt, k.cert, k.key} = {Unset}
        /\ k.llm = Unset => {k.model, k.apiKey} = {Unset}
        /\ k.sandbox = Unset => k.read = Unset}

Given(settings) == {name \in DOMAIN settings : settings[name] # Unset}

Or(value, default) == IF value # Unset THEN value ELSE default

\* default_llm_from_env
NoChoice == [llm |-> Unset, model |-> Unset, apiKey |-> Unset]
DefaultLlm ==
    CASE "OPENAI_API_KEY" \in variables ->
            [llm |-> "openai", model |-> "gpt-5", apiKey |-> "OPENAI_API_KEY"]
      [] "OPENAI_API_KEY" \notin variables /\ "ANTHROPIC_API_KEY" \in variables ->
            [llm |-> "anthropic", model |-> "claude", apiKey |-> "ANTHROPIC_API_KEY"]
      [] OTHER -> NoChoice

\* HarnessConfig::default, or the file
Base ==
    [frontend |-> Or(fileKeys.frontend, "interactive"), prompt |-> fileKeys.prompt,
     cert |-> fileKeys.cert, key |-> fileKeys.key,
     llm |-> Or(fileKeys.llm, "mock"), model |-> Or(fileKeys.model, "claude"),
     apiKey |-> fileKeys.apiKey, sandbox |-> Or(fileKeys.sandbox, "mock"), read |-> fileKeys.read]

\* resolve_sandbox_kind, on Linux
SandboxKind(option) == IF option = "auto" THEN "gvisor" ELSE option

\* The choice made when neither a flag nor the file selects the backend.
ChosenFromEnv ==
    IF runFlags.llm = Unset /\ fileKeys.llm = Unset THEN DefaultLlm ELSE NoChoice

\* build_run_config_from up to the checks
Resolved ==
    [frontend |-> Or(runFlags.frontend, Base.frontend),
     prompt |-> Or(runFlags.prompt, Base.prompt),
     cert |-> Or(runFlags.cert, Base.cert), key |-> Or(runFlags.key, Base.key),
     llm |-> Or(runFlags.llm, Or(ChosenFromEnv.llm, Base.llm)),
     model |-> Or(runFlags.model, Or(ChosenFromEnv.model, Base.model)),
     apiKey |-> Or(runFlags.apiKey, Or(ChosenFromEnv.apiKey, Base.apiKey)),
     sandbox |-> IF runFlags.sandbox # Unset THEN SandboxKind(runFlags.sandbox)
                 ELSE IF fileKeys.sandbox # Unset THEN Base.sandbox ELSE SandboxKind("auto"),
     read |-> Or(runFlags.read, Base.read)]

\* The errors of build_run_config_from
Incomplete(c) ==
    \/ runFlags.llm = Unset /\ fileKeys.llm = Unset /\ DefaultLlm = NoChoice
    \/ c.frontend = "headless" /\ c.prompt = Unset
    \/ (c.cert = Unset) # (c.key = Unset)
    \/ "mock" \in {c.frontend, c.llm, c.sandbox} /\ runFlags.script = Unset

----------------------------------------------------------------------------
(* Paths. *)

PathOf(name) == CASE name = "opt" -> <<"opt">>
                  [] name = "home" -> <<"home">>
                  [] name = "ssh" -> <<"home", "ssh">>
                  [] name = "state" -> <<"home", "state">>
                  [] name = "link" -> <<"opt", "link">>

\* Mutant: links are not resolved.
NormalizePathAsIs(name) == PathOf(name)

\* normalize_path: the link leads to the directory it names, once that exists;
\* until then it is an entry of the directory it is in.
NormalizePath(name) ==
    IF name = "link" /\ "ssh" \in present THEN PathOf("ssh") ELSE PathOf(name)

StartsWith(path, prefix) ==
    Len(prefix) <= Len(path) /\ SubSeq(path, 1, Len(prefix)) = prefix

\* scan_allowlist_entry
Hits(entry) ==
    {risk \in present :
        \/ StartsWith(NormalizePath(risk), NormalizePath(entry))
        \/ StartsWith(NormalizePath(entry), NormalizePath(risk))}

\* validate_read_allowlist
Refuses(read, accepted) ==
    /\ read # Unset
    /\ Hits(read) # {}
    /\ NormalizePath(read) \notin {NormalizePath(name) : name \in accepted}

----------------------------------------------------------------------------
(* The harness. *)

NoPolicy == [sandbox |-> Unset, read |-> Unset]

\* --sandbox (--allow-domain has the same effect here), --allow-read and
\* --allow-risky-path
ShellFlags ==
    {f \in [sandbox : {Unset, "microvm"}, read : {Unset, "opt", "link"},
            risky : {{}, {"ssh"}}] : f.read = Unset => f.risky = {}}
NoFlags == [sandbox |-> Unset, read |-> Unset, risky |-> {}]

SettingsInit ==
    /\ runFlags \in {f \in AllFlags : Cardinality(Given(f)) <= MaxFlags}
    /\ fileKeys \in {k \in AllKeys : Cardinality(Given(k)) <= MaxFileKeys}
    /\ variables \in SUBSET {"OPENAI_API_KEY", "ANTHROPIC_API_KEY"}
    /\ risky \in {{}, {"ssh"}} /\ (runFlags.read = Unset => risky = {})
    /\ present = {"state"} /\ vetted = {}
    /\ config = <<>>
    /\ run = "new" /\ runFile = {} /\ attached = FALSE
    /\ shell = "new" /\ shellFlags = NoFlags /\ found = {} /\ policy = NoPolicy
    /\ mirrored = FALSE

ResolveSettings ==
    /\ run = "new"
    /\ config' = Resolved
    /\ run' = IF Incomplete(Resolved) THEN "refused" ELSE "resolved"
    /\ UNCHANGED <<inputs, present, vetted, runFile, attached, shellVars>>

\* silo_harness::run validates the allowlist, then attaches the workspace.
StartRun ==
    /\ run = "resolved"
    /\ IF Refuses(config.read, risky)
       THEN run' = "refused" /\ UNCHANGED attached
       ELSE run' = "attached" /\ attached' = TRUE
    /\ vetted' = present
    /\ UNCHANGED <<inputs, present, config, runFile, shellVars>>

\* InteractiveFrontend::start writes the run file with the effective policy.
WriteRunFile ==
    /\ run = "attached"
    /\ run' = "running"
    /\ runFile' = IF config.frontend = "interactive"
                  THEN {[sandbox |-> config.sandbox, read |-> config.read]} ELSE {}
    /\ UNCHANGED <<inputs, present, vetted, config, attached, shellVars>>

\* The session ends, or its process dies and leaves run file and registry.
EndRun ==
    /\ run = "running"
    /\ \/ run' = "ended" /\ runFile' = {} /\ attached' = FALSE
       \/ run' = "dead" /\ UNCHANGED <<runFile, attached>>
    /\ UNCHANGED <<inputs, present, vetted, config, shellVars>>

\* The user's first ssh key.
Appears ==
    /\ "ssh" \notin present
    /\ present' = present \cup {"ssh"}
    /\ UNCHANGED <<inputs, runVars, shellVars>>

----------------------------------------------------------------------------
(* The shell. *)

\* running_harness_policy: the workspace's status names the harness...
ShellStatus ==
    /\ shell = "new" /\ run # "new"
    /\ shellFlags' \in ShellFlags
    /\ shell' = IF attached THEN "attached" ELSE "read"
    /\ UNCHANGED <<inputs, present, runVars, found, policy, mirrored>>

\* ... its run file is read ...
ShellReads ==
    /\ shell = "attached"
    /\ shell' = "read"
    /\ found' = runFile
    /\ UNCHANGED <<inputs, present, runVars, shellFlags, policy, mirrored>>

\* ... and its process must be alive.  resolve_policy: mirror, unless flags
\* were given.
ShellDecides ==
    /\ shell = "read"
    /\ shell' = "decided"
    /\ mirrored' = (found # {} /\ run = "running" /\ {shellFlags.sandbox, shellFlags.read} = {Unset})
    /\ policy' = IF mirrored' THEN CHOOSE p \in found : TRUE
                 ELSE [sandbox |-> SandboxKind(Or(shellFlags.sandbox, "auto")),
                       read |-> shellFlags.read]
    /\ UNCHANGED <<inputs, present, runVars, shellFlags, found>>

\* Entries taken over count as accepted.
ShellStarts ==
    /\ shell = "decided"
    /\ shell' = IF Refuses(policy.read, shellFlags.risky \cup
                                IF mirrored THEN {policy.read} ELSE {})
                THEN "refused" ELSE "running"
    /\ UNCHANGED <<inputs, present, runVars, shellFlags, found, policy, mirrored>>

SettingsNext ==
    \/ ResolveSettings \/ StartRun \/ WriteRunFile \/ EndRun \/ Appears
    \/ ShellStatus \/ ShellReads \/ ShellDecides \/ ShellStarts

----------------------------------------------------------------------------
(* Properties. *)

\* The files of the directories that are there, where they really are, and
\* those an entry lets the sandbox read.
FilesIn(directories) ==
    {<<"opt", "bin">>} \cup {Append(PathOf(name), "file") : name \in directories}

ReadableFiles(entry) ==
    {file \in FilesIn(present) :
        \/ StartsWith(file, PathOf(entry))
        \/ (entry = "link" /\ StartsWith(file, PathOf("ssh")))}

SensitiveFiles(directories) == FilesIn(directories) \ {<<"opt", "bin">>}

\* --allow-risky-path names the entry, or what it leads to.
Accepted(entry, names) == \E name \in names : ReadableFiles(name) = ReadableFiles(entry)

\* When a session passes validate_read_allowlist, its allowlist lets the sandbox
\* read no file of a sensitive directory that exists by then, through a link or
\* by name, unless --allow-risky-path names the place.  A shell (cmd_shell.rs)
\* is held to the same, by its own --allow-risky-path; only where it takes over
\* the policy of a running harness, which it does not validate again, it also
\* reads what that harness was allowed to, and what has appeared under its
\* allowlist since.  The harness may have ended, or never have been more than a
\* stale run file, at any point between the shell's steps.
SensitiveUnread ==
    [][/\ (run = "resolved" /\ run' = "attached" /\ config.read # Unset) =>
            \/ ReadableFiles(config.read) \cap SensitiveFiles(present) = {}
            \/ Accepted(config.read, risky)
       /\ (shell = "decided" /\ shell' = "running" /\ policy.read # Unset) =>
            LET read == ReadableFiles(policy.read) IN
            \/ read \cap SensitiveFiles(present) = {}
            \/ Accepted(policy.read, shellFlags.risky)
            \/ /\ mirrored
               /\ \/ read \cap SensitiveFiles(vetted) = {}
                  \/ Accepted(policy.read, risky)]_settingsVars

=============================================================================
