----------------------------- MODULE MCLiveness -----------------------------
(***************************************************************************)
(* Components with liveness properties, in one model: a behaviour belongs  *)
(* to one component, chosen at the start, and the others stay in an        *)
(* initial state.  Fairness is that of the component.                      *)
(***************************************************************************)
EXTENDS Workspace, RegistryLock, Metering, Lifecycle

CONSTANTS
    OneOfCommands,   \* bound: the command run with the image strategies
    OneOfHarnesses   \* bound: the harness attached with the plain strategy

VARIABLE part  \* the component the behaviour is of

Parts == {"workspace", "lock", "metering", "lifecycle"}

livenessVars == <<part, workspaceVars, lockVars, meteringVars, lifecycleVars>>

\* Two commands work on a plain directory and two harnesses on an ext4 image;
\* between filesystems it is one command alone.  A second lock is taken where
\* links make no difference.
Narrow ==
    /\ host # "PlainDir" \/ across => \A c \in Commands \ {OneOfCommands} : op[c].at = "idle"
    /\ host # "Ext4Fuse" => \A h \in Harnesses \ {OneOfHarnesses} : attached[h] = "off"
    /\ host # "PlainDir" /\ links # {} => locks <= 1
    /\ across => locks <= 1 /\ \A h \in Attachers : attached[h] = "off"

\* Where two receivers follow the reports there is one request less.
Fewer == reader = "interactive" => started < MaxModelCalls

\* A component that is not the behaviour's has one initial state.
AtRest ==
    /\ part # "workspace" => host = "PlainDir" /\ ~across /\ links = {}
    /\ host # "PlainDir" => ~across
    /\ host = "PlainDir" /\ part = "workspace" => across \/ links = Links
    /\ host = "SparseBundle" => links = {}
    /\ part # "metering" => reader = "headless"
    /\ part # "lifecycle" =>
          program = "run" /\ sandbox = "gvisor" /\ ~scripted /\ ~stubborn

Init ==
    /\ part \in Parts
    /\ WorkspaceInit /\ LockInit /\ MeteringInit /\ LifecycleInit
    /\ AtRest

Next ==
    \/ /\ part = "workspace" /\ WorkspaceNext /\ Narrow'
       /\ UNCHANGED <<part, lockVars, meteringVars, lifecycleVars>>
    \/ /\ part = "lock" /\ LockNext
       /\ UNCHANGED <<part, workspaceVars, meteringVars, lifecycleVars>>
    \/ /\ part = "metering" /\ MeteringNext /\ Fewer'
       /\ UNCHANGED <<part, workspaceVars, lockVars, lifecycleVars>>
    \/ /\ part = "lifecycle" /\ LifecycleNext
       /\ UNCHANGED <<part, workspaceVars, lockVars, meteringVars>>

Fairness ==
    /\ \A c \in Commands :
          WF_workspaceVars(part = "workspace" /\ (LockStep(c) \/ Unlock(c) \/ UnlockStep(c)) /\ Narrow')
    /\ WF_lockVars(part = "lock" /\ Age)
    /\ \A p \in Processes : WF_lockVars(part = "lock" /\ LockMove(p))
    /\ \A a \in Callers : WF_meteringVars(part = "metering" /\ Completing(a))
    /\ \A r \in Receivers : WF_meteringVars(part = "metering" /\ WatchReport(r))
    /\ WF_meteringVars(part = "metering" /\ TrackReport)
    /\ WF_lifecycleVars(part = "lifecycle" /\ Steps)

Spec == Init /\ [][Next]_livenessVars /\ Fairness

=============================================================================
