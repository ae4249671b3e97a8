---------------------------- MODULE RegistryLock ----------------------------
(***************************************************************************)
(* The lock file that guards the workspace registry, and the read-modify-  *)
(* write of the registry under it (crates/silo-workspace/src/registry.rs). *)
(*                                                                         *)
(* A process creates the file with create_new and then writes its identity *)
(* into it.  A waiter reads the file, judges whether its holder is dead,   *)
(* reads it again, and removes it.  Each of these is one system call, and  *)
(* the calls of different processes interleave.                            *)
(***************************************************************************)
EXTENDS Naturals, FiniteSets

CONSTANTS
  Processes,         \* processes that use the registry
  LockAttempts,      \* attempts of acquire_lock (600 in registry.rs)
  MaxHolderCrashes,  \* bound: processes that die without releasing the lock
  Empty,             \* contents of a lock file nothing has been written to
  Nobody             \* stands for no file

ASSUME LockAssumption ==
  /\ LockAttempts \in Nat \ {0}
  /\ MaxHolderCrashes \in Nat
  /\ Empty \notin Processes /\ Nobody \notin Processes

VARIABLES
  creator,       \* who created the lock file in place, or Nobody
  contents,      \* what the lock file holds: a process's identity or Empty
  old,           \* the lock file is older than UNREADABLE_LOCK_STALE_AFTER
  pc,            \* where each process is
  read,          \* the contents each process has read
  attempt,       \* attempts each process has made
  registry,      \* version of the registry file
  loaded,        \* the version each process has loaded
  saves,         \* saves made, for the properties
  holderCrashes  \* processes that have crashed

file == <<creator, contents, old>>
db == <<registry, loaded, saves>>
lockVars == <<file, pc, read, attempt, db, holderCrashes>>

Contents == Processes \cup {Empty}

PCs == {"create", "write", "load", "save", "release", "read", "judge", "reread",
        "remove", "exited", "crashed", "failed"}

\* In these a process holds the lock, as far as it knows.
Holding == {"write", "load", "save", "release"}

Dead == {"exited", "crashed"}

\* The shape of the state.
LockTypeOK ==
  /\ creator \in Processes \cup {Nobody}
  /\ contents \in Contents
  /\ old \in BOOLEAN
  /\ pc \in [Processes -> PCs]
  /\ read \in [Processes -> Contents]
  /\ attempt \in [Processes -> 0..LockAttempts]
  /\ registry \in Nat
  /\ loaded \in [Processes -> Nat]
  /\ saves \in Nat
  /\ holderCrashes \in 0..MaxHolderCrashes

LockInit ==
  /\ creator = Nobody
  /\ contents = Empty
  /\ old = FALSE
  /\ pc = [p \in Processes |-> "create"]
  /\ read = [p \in Processes |-> Empty]
  /\ attempt = [p \in Processes |-> 0]
  /\ registry = 0
  /\ loaded = [p \in Processes |-> 0]
  /\ saves = 0
  /\ holderCrashes = 0

GotoLock(p, l) == pc' = [pc EXCEPT ![p] = l]

NoFile == creator' = Nobody /\ contents' = Empty /\ old' = FALSE

\* The next attempt, or the timeout error.
Retry(p) ==
  /\ attempt' = [attempt EXCEPT ![p] = @ + 1]
  /\ GotoLock(p, IF attempt[p] + 1 < LockAttempts THEN "create" ELSE "failed")

-----------------------------------------------------------------------------
(* acquire_lock_with.                                                      *)

Create(p) ==
  /\ pc[p] = "create"
  /\ IF creator = Nobody
     THEN creator' = p /\ contents' = Empty /\ old' = FALSE /\ GotoLock(p, "write")
     ELSE GotoLock(p, "read") /\ UNCHANGED file
  /\ UNCHANGED <<read, attempt, db, holderCrashes>>

\* The identity goes to the file that was opened, which may be gone.
Write(p) ==
  /\ pc[p] = "write"
  /\ contents' = IF creator = p THEN p ELSE contents
  /\ GotoLock(p, "load")
  /\ UNCHANGED <<creator, old, read, attempt, db, holderCrashes>>

-----------------------------------------------------------------------------
(* remove_if_stale.                                                        *)

Read(p) ==
  /\ pc[p] = "read"
  /\ IF creator = Nobody
     THEN Retry(p) /\ UNCHANGED read
     ELSE read' = [read EXCEPT ![p] = contents] /\ GotoLock(p, "judge") /\ UNCHANGED attempt
  /\ UNCHANGED <<file, db, holderCrashes>>

\* A recorded holder is stale when it is dead; an unreadable file when the
\* file now in place is old.
Stale(p) == IF read[p] = Empty THEN creator # Nobody /\ old ELSE pc[read[p]] \in Dead

\* Mutant: an unreadable lock file is never taken for stale.
JudgeReadable(p) ==
  /\ pc[p] = "judge"
  /\ IF read[p] # Empty /\ Stale(p) THEN GotoLock(p, "reread") /\ UNCHANGED attempt ELSE Retry(p)
  /\ UNCHANGED <<file, read, db, holderCrashes>>

Judge(p) ==
  /\ pc[p] = "judge"
  /\ IF Stale(p) THEN GotoLock(p, "reread") /\ UNCHANGED attempt ELSE Retry(p)
  /\ UNCHANGED <<file, read, db, holderCrashes>>

Reread(p) ==
  /\ pc[p] = "reread"
  /\ IF creator # Nobody /\ contents = read[p]
     THEN GotoLock(p, "remove") /\ UNCHANGED attempt
     ELSE Retry(p)
  /\ UNCHANGED <<file, read, db, holderCrashes>>

\* Whatever file is there now goes; `continue` also uses up an attempt.
RemoveLock(p) ==
  /\ pc[p] = "remove"
  /\ NoFile
  /\ Retry(p)
  /\ UNCHANGED <<read, db, holderCrashes>>

-----------------------------------------------------------------------------
(* The holder: load, save, and the drop of RegistryLock.                   *)

\* Mutant: the registry read before the lock was taken is kept.
LoadCached(p) ==
  /\ pc[p] = "load"
  /\ GotoLock(p, "save")
  /\ UNCHANGED <<file, read, attempt, db, holderCrashes>>

Load(p) ==
  /\ pc[p] = "load"
  /\ loaded' = [loaded EXCEPT ![p] = registry]
  /\ GotoLock(p, "save")
  /\ UNCHANGED <<file, read, attempt, registry, saves, holderCrashes>>

Save(p) ==
  /\ pc[p] = "save"
  /\ registry' = loaded[p] + 1
  /\ saves' = saves + 1
  /\ GotoLock(p, "release")
  /\ UNCHANGED <<file, read, attempt, loaded, holderCrashes>>

\* drop removes the file at the path, and the process goes on to exit.
Release(p) ==
  /\ pc[p] = "release"
  /\ NoFile
  /\ GotoLock(p, "exited")
  /\ UNCHANGED <<read, attempt, db, holderCrashes>>

-----------------------------------------------------------------------------
HolderCrash(p) ==
  /\ pc[p] \in Holding
  /\ holderCrashes < MaxHolderCrashes
  /\ holderCrashes' = holderCrashes + 1
  /\ GotoLock(p, "crashed")
  /\ UNCHANGED <<file, read, attempt, db>>

\* A minute passes; only a file left behind by a crash gets that old, the
\* time between a creation and the write being far below a minute.
Age ==
  /\ creator # Nobody
  /\ pc[creator] = "crashed"
  /\ ~old
  /\ old' = TRUE
  /\ UNCHANGED <<creator, contents, pc, read, attempt, db, holderCrashes>>

\* The command that timed out is run again.
Rerun(p) ==
  /\ pc[p] = "failed"
  /\ attempt' = [attempt EXCEPT ![p] = 0]
  /\ GotoLock(p, "create")
  /\ UNCHANGED <<file, read, db, holderCrashes>>

LockMove(p) ==
  \/ Rerun(p)
  \/ Create(p) \/ Write(p)
  \/ Read(p) \/ Judge(p) \/ Reread(p) \/ RemoveLock(p)
  \/ Load(p) \/ Save(p) \/ Release(p)

Done == (\A p \in Processes : pc[p] \in Dead) /\ UNCHANGED lockVars

LockNext == (\E p \in Processes : LockMove(p) \/ HolderCrash(p)) \/ Age \/ Done

LockSpec == LockInit /\ [][LockNext]_lockVars

LockFairSpec == LockSpec /\ WF_lockVars(Age) /\ \A p \in Processes : WF_lockVars(LockMove(p))

-----------------------------------------------------------------------------
(* Properties.                                                             *)

\* As long as no holder has died, every update of the registry builds on the
\* one before: "concurrent harness processes serialize their registry
\* updates" (load and save under acquire_lock).
UpdatesSerialized == holderCrashes = 0 => registry = saves

\* A lock file left behind by a crash does not stay while someone wants the
\* lock: a waiter, or the command run again after its timeout, removes it,
\* also when the crash came before the identity was written
\* (remove_if_stale).
StaleLockRemoved ==
  \A p \in Processes :
    (creator = p /\ pc[p] = "crashed") ~>
      \/ creator # p
      \/ \A q \in Processes : pc[q] \in Dead

=============================================================================
