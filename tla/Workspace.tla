----------------------------- MODULE Workspace ------------------------------
(***************************************************************************)
(* The life of one workspace (crates/silo-workspace/src/lib.rs and         *)
(* strategy.rs): commands that lock and unlock it, harnesses and shells    *)
(* that attach to it and detach, with the failures and crashes the code    *)
(* handles.                                                                *)
(*                                                                         *)
(* A section under the registry lock is one step (RegistryLock models the  *)
(* lock itself); outside it every file moved, copied or removed is a step, *)
(* which a failure or a crash may cut off: a copy then leaves a truncated  *)
(* file, and a move between filesystems, which is a copy and a removal,    *)
(* may leave the file in both places.                                      *)
(* A workspace is a set of files.  Every lock has an id of its own and a   *)
(* directory under that id, which holds the manifest of the snapshot and   *)
(* the container: a data directory or a mountable image.                   *)
(***************************************************************************)
EXTENDS Naturals, FiniteSets

CONSTANTS
  Files,        \* the entries of the workspace
  Links,        \* those of them that may be symbolic links
  Hosts,        \* the strategies of the hosts considered
  Commands,     \* processes that run lock and unlock
  Harnesses,    \* harness processes, each run once
  Shells,       \* shell processes, each run once
  Overlap,      \* somebody runs unlock or attaches before lock has returned
  MaxLocks,     \* bound: locks taken
  MaxFaults,    \* bound: operations that fail
  MaxCrashes    \* bound: processes that crash

Strategies == {"PlainDir", "SparseBundle", "Ext4Fuse"}

ASSUME WorkspaceAssumption ==
  /\ IsFiniteSet(Files)
  /\ Links \subseteq Files
  /\ Hosts \subseteq Strategies
  /\ Harnesses \cap Shells = {}
  /\ Overlap \in BOOLEAN
  /\ MaxLocks \in Nat /\ MaxFaults \in Nat /\ MaxCrashes \in Nat

VARIABLES
  dir,          \* what the original directory holds
  entry,        \* the registry's entry, a set of at most one record
  store,        \* the directory of each lock
  locks,        \* ids given out
  op,           \* what each command is doing
  attached,     \* the state of each harness and shell
  faults,       \* operations that have failed
  crashes,      \* processes that have crashed
  host,         \* the strategy this host locks with
  links,        \* the files that are symbolic links
  across,       \* the directory of a lock is on another filesystem
  torn,         \* the files that are truncated, and where: 0 is the original directory
  truncated,    \* a copy into a lock's directory was cut off (history)
  abandoned     \* a lock was cut off by a crash (history)

given == <<host, links, across>>
env == <<crashes, given, torn, truncated, abandoned>>
rest == <<crashes, given, abandoned>>
workspaceVars == <<dir, entry, store, locks, op, attached, faults, env>>

Ids == 1..MaxLocks
Attachers == Harnesses \cup Shells

UsesImage(s) == s # "PlainDir"

\* RegistryEntry; users stands for attached and secondary_attachments.
Entry == [id : Ids, unlocking : BOOLEAN, strategy : Strategies, users : SUBSET Attachers]

\* A lock's directory: has says which of its parts exist.
Store == [has : SUBSET {"manifest", "data", "image"}, data : SUBSET Files,
          image : SUBSET Files, mounted : BOOLEAN]

NoStore == [has |-> {}, data |-> {}, image |-> {}, mounted |-> FALSE]

LockSteps == {"snapshot", "create", "copy", "detach", "remove", "fallback", "open", "move",
              "mark", "commit", "undo", "undoMove", "undoImage", "undoCopy", "delete",
              "rollback"}
UnlockSteps == {"terminate", "release", "restore", "moveBack", "copyBack",
                "report", "releaseAgain", "forget", "erase"}

\* todo is what a loop over a directory has left; lost says that the commit
\* found the entry changed, after which the registry is left alone.
Op == [at : {"idle"} \cup LockSteps \cup UnlockSteps, id : 0..MaxLocks,
       strategy : Strategies, users : SUBSET Attachers, todo : SUBSET Files,
       lost : BOOLEAN]

Idle == [at |-> "idle", id |-> 0, strategy |-> host, users |-> {}, todo |-> {},
         lost |-> FALSE]

\* An attached process remembers the strategy it attached with.
On(h) == attached[h] \in Strategies

\* The shape of the state.
TypeOK ==
  /\ dir \subseteq Files
  /\ entry \subseteq Entry /\ Cardinality(entry) <= 1
  /\ store \in [Ids -> Store]
  /\ locks \in 0..MaxLocks
  /\ op \in [Commands -> Op]
  /\ attached \in [Attachers -> Strategies \cup {"off", "gone"}]
  /\ faults \in 0..MaxFaults
  /\ crashes \in 0..MaxCrashes
  /\ host \in Hosts
  /\ links \subseteq Links
  /\ torn \subseteq (0..MaxLocks) \X Files
  /\ {across, truncated, abandoned} \subseteq BOOLEAN

WorkspaceInit ==
  /\ host \in Hosts
  /\ links \in SUBSET Links
  /\ across \in BOOLEAN
  /\ torn = {} /\ truncated = FALSE /\ abandoned = FALSE
  /\ dir = Files
  /\ entry = {}
  /\ store = [i \in Ids |-> NoStore]
  /\ locks = 0
  /\ op = [c \in Commands |-> Idle]
  /\ attached = [h \in Attachers |-> "off"]
  /\ faults = 0
  /\ crashes = 0

-----------------------------------------------------------------------------
(* Helpers.                                                                *)

At(c, l) == op[c].at = l

Goto(c, l) == op' = [op EXCEPT ![c].at = l]

\* Enter the loop l over the files fs.
Loop(c, l, fs) == op' = [op EXCEPT ![c].at = l, ![c].todo = fs]

\* One file of the loop is done.
Did(c, f) == op' = [op EXCEPT ![c].todo = @ \ {f}]

\* The command ends, with or without an error.
End(c) == op' = [op EXCEPT ![c] = Idle]

Mine(c) == store[op[c].id]

Has(c, part) == part \in Mine(c).has

Set(c, s) == store' = [store EXCEPT ![op[c].id] = s]

Fault == faults < MaxFaults /\ faults' = faults + 1

\* A commit that found its entry changed undoes the lock with the registry
\* lock in hand.
RegistryFree == \A c \in Commands : ~op[c].lost

\* A file the loop is about to take has gone, or the call fails.
Trouble(missing) == Fault \/ (missing # {} /\ UNCHANGED faults)

\* The truncated files after f was copied from one place to another, or moved.
Copied(f, from, to) ==
  IF <<from, f>> \in torn THEN torn \cup {<<to, f>>} ELSE torn \ {<<to, f>>}

Moved(f, from, to) == Copied(f, from, to) \ {<<from, f>>}

\* What goes with a lock's directory.
Swept(c) == {t \in torn : t[1] # op[c].id}

(***************************************************************************)
(* A copy is cut off, by a failure or a crash: between two files, within   *)
(* one, or between the copy and the removal of a move.                     *)
(***************************************************************************)
CutIn(c) ==
  \E f \in op[c].todo \cap dir :
    /\ \/ /\ At(c, "move") /\ across /\ Has(c, "data")
          /\ Set(c, [Mine(c) EXCEPT !.data = @ \cup {f}])
       \/ /\ At(c, "copy") /\ Mine(c).mounted
          /\ Set(c, [Mine(c) EXCEPT !.image = @ \cup {f}])
    /\ \/ f \notin links /\ torn' = torn \cup {<<op[c].id, f>>} /\ truncated' = TRUE
       \/ torn' = Copied(f, 0, op[c].id) /\ UNCHANGED truncated
    /\ UNCHANGED dir

CutOut(c) ==
  \E f \in op[c].todo :
    /\ \/ At(c, "moveBack") /\ across /\ f \in Mine(c).data
       \/ At(c, "undoMove") /\ across /\ f \in Mine(c).data
       \/ At(c, "copyBack") /\ Mine(c).mounted
       \/ At(c, "undoCopy") /\ Mine(c).mounted
    /\ f \in links => f \notin dir
    /\ dir' = dir \cup {f}
    /\ \/ f \notin links /\ torn' = torn \cup {<<0, f>>}
       \/ torn' = Copied(f, op[c].id, 0)
    /\ UNCHANGED truncated

NotCut == UNCHANGED <<dir, torn, truncated>>

-----------------------------------------------------------------------------
(* lock.                                                                   *)

\* Reserve the key, under the registry lock.
Reserve(c) ==
  /\ At(c, "idle")
  /\ RegistryFree
  /\ entry = {}
  /\ locks < MaxLocks
  /\ locks' = locks + 1
  /\ entry' = {[id |-> locks + 1, unlocking |-> FALSE, strategy |-> host, users |-> {}]}
  /\ op' = [op EXCEPT ![c] = [Idle EXCEPT !.at = "snapshot", !.id = locks + 1]]
  /\ UNCHANGED <<dir, store, attached, faults, env>>

\* snapshot, write_manifest.
Snapshot(c) ==
  /\ At(c, "snapshot")
  /\ \/ /\ Set(c, [Mine(c) EXCEPT !.has = @ \cup {"manifest"}])
        /\ Goto(c, IF UsesImage(host) THEN "create" ELSE "open")
        /\ UNCHANGED faults
     \/ Fault /\ Goto(c, "undo") /\ UNCHANGED store
  /\ UNCHANGED <<dir, entry, locks, attached, env>>

\* lock_into_sparsebundle, lock_into_ext4_image: create and mount the image.
CreateImage(c) ==
  /\ At(c, "create")
  /\ \/ /\ Has(c, "manifest")
        /\ Set(c, [Mine(c) EXCEPT !.has = @ \cup {"image"}, !.mounted = TRUE])
        /\ Loop(c, "copy", dir)
        /\ UNCHANGED faults
     \/ /\ Trouble({"manifest"} \ Mine(c).has)
        /\ Goto(c, "fallback")
        /\ UNCHANGED store
  /\ UNCHANGED <<dir, entry, locks, attached, env>>

\* copy_contents.  What is copied to a mountpoint with nothing mounted on it
\* does not reach the image.  The detach runs whatever the copy gave; a file cut
\* off by a failure goes with the image.
CopyIn(c) ==
  /\ At(c, "copy")
  /\ \/ \E f \in op[c].todo \cap dir :
          /\ IF Mine(c).mounted
             THEN /\ Set(c, [Mine(c) EXCEPT !.image = @ \cup {f}])
                  /\ torn' = Copied(f, 0, op[c].id)
             ELSE UNCHANGED <<store, torn>>
          /\ Did(c, f)
          /\ UNCHANGED faults
     \/ op[c].todo = {} /\ Goto(c, "detach") /\ UNCHANGED <<store, torn, faults>>
     \/ /\ Trouble(op[c].todo \ dir)
        /\ Set(c, [Mine(c) EXCEPT !.mounted = FALSE])
        /\ Goto(c, "fallback")
        /\ UNCHANGED torn
  /\ UNCHANGED <<dir, entry, locks, attached, rest, truncated>>

\* hdiutil reports a detach of nothing as an error, unmount_fuse does not.
DetachImage(c) ==
  /\ At(c, "detach")
  /\ \/ /\ Mine(c).mounted \/ host = "Ext4Fuse"
        /\ Set(c, [Mine(c) EXCEPT !.mounted = FALSE])
        /\ Loop(c, "remove", dir)
        /\ UNCHANGED faults
     \/ /\ Fault \/ (~Mine(c).mounted /\ host = "SparseBundle" /\ UNCHANGED faults)
        /\ Goto(c, "fallback")
        /\ UNCHANGED store
  /\ UNCHANGED <<dir, entry, locks, attached, env>>

\* remove_contents.
RemoveContents(c) ==
  /\ At(c, "remove")
  /\ \/ \E f \in op[c].todo :
          /\ dir' = dir \ {f} /\ torn' = torn \ {<<0, f>>}
          /\ Did(c, f)
          /\ UNCHANGED faults
     \/ op[c].todo = {} /\ Goto(c, "mark") /\ UNCHANGED <<dir, torn, faults>>
     \/ Fault /\ Goto(c, "fallback") /\ UNCHANGED <<dir, torn>>
  /\ UNCHANGED <<entry, store, locks, attached, rest, truncated>>

\* cleanup_sparsebundle, cleanup_ext4_image, whose own failures are ignored;
\* then the plain strategy.
Fallback(c) ==
  /\ At(c, "fallback")
  /\ \E still \in {FALSE, Mine(c).mounted} :
       /\ IF still THEN Fault ELSE UNCHANGED faults
       /\ Set(c, [Mine(c) EXCEPT !.has = @ \ {"image"}, !.image = {}, !.mounted = still])
  /\ op' = [op EXCEPT ![c].at = "open", ![c].strategy = "PlainDir"]
  /\ torn' = Swept(c)
  /\ UNCHANGED <<dir, entry, locks, attached, rest, truncated>>

\* move_contents: create the data directory and list the original one.
OpenData(c) ==
  /\ At(c, "open")
  /\ \/ /\ Set(c, [Mine(c) EXCEPT !.has = @ \cup {"data"}])
        /\ Loop(c, "move", dir)
        /\ UNCHANGED faults
     \/ Fault /\ Goto(c, "undo") /\ UNCHANGED store
  /\ UNCHANGED <<dir, entry, locks, attached, env>>

\* move_contents, file by file: a rename, or a copy and a removal.  An unlock
\* may have taken the directory away.
MoveIn(c) ==
  /\ At(c, "move")
  /\ \/ \E f \in op[c].todo \cap dir :
          /\ Has(c, "data")
          /\ dir' = dir \ {f}
          /\ Set(c, [Mine(c) EXCEPT !.data = @ \cup {f}])
          /\ torn' = Moved(f, 0, op[c].id)
          /\ Did(c, f)
          /\ UNCHANGED <<faults, truncated>>
     \/ op[c].todo = {} /\ Goto(c, "mark") /\ NotCut /\ UNCHANGED <<store, faults>>
     \/ /\ \/ /\ Trouble(IF Has(c, "data") THEN op[c].todo \ dir ELSE op[c].todo)
              /\ NotCut /\ UNCHANGED store
           \/ Fault /\ CutIn(c)
        /\ Goto(c, "undo")
  /\ UNCHANGED <<entry, locks, attached, rest>>

\* write_marker, make_dir_readonly.
Mark(c) ==
  /\ At(c, "mark")
  /\ \/ Goto(c, "commit") /\ UNCHANGED faults
     \/ Fault /\ Goto(c, "undo")
  /\ UNCHANGED <<dir, entry, store, locks, attached, env>>

\* Commit, under the registry lock: the reserved entry must still be ours.
\* Failing to take the lock ends the command with the entry as reserved.
Commit(c) ==
  /\ At(c, "commit")
  /\ RegistryFree
  /\ \/ \E e \in entry :
          /\ e.id = op[c].id
          /\ entry' = {[e EXCEPT !.strategy = op[c].strategy]}
          /\ End(c)
          /\ UNCHANGED faults
     \/ /\ \A e \in entry : e.id # op[c].id
        /\ op' = [op EXCEPT ![c].at = "undo", ![c].lost = TRUE]
        /\ UNCHANGED <<entry, faults>>
     \/ Fault /\ End(c) /\ UNCHANGED entry
  /\ UNCHANGED <<dir, store, locks, attached, env>>

-----------------------------------------------------------------------------
(* Contents going back: move_contents for a data directory,                *)
(* restore_from_sparsebundle and restore_from_ext4_image for an image.     *)
(* l is the loop, next and failed are where it leads.                      *)

\* A rename replaces what is there; a copy does too, but symlink() refuses an
\* existing name.
MoveOut(c, l, next, failed) ==
  /\ At(c, l)
  /\ \/ \E f \in op[c].todo \cap Mine(c).data :
          /\ across /\ f \in links => f \notin dir
          /\ dir' = dir \cup {f}
          /\ Set(c, [Mine(c) EXCEPT !.data = @ \ {f}])
          /\ torn' = Moved(f, op[c].id, 0)
          /\ Did(c, f)
          /\ UNCHANGED <<faults, truncated>>
     \/ op[c].todo = {} /\ Goto(c, next) /\ NotCut /\ UNCHANGED <<store, faults>>
     \/ /\ \/ /\ Trouble((op[c].todo \ Mine(c).data)
                        \cup (IF across THEN op[c].todo \cap links \cap dir ELSE {}))
              /\ NotCut
           \/ Fault /\ CutOut(c)
        /\ IF failed = "idle" THEN End(c) ELSE Goto(c, failed)
        /\ UNCHANGED store
  /\ UNCHANGED <<entry, locks, attached, rest>>

\* Mount the image, unless it is mounted, and list it.
Mount(c, l, failed) ==
  \/ /\ Has(c, "image")
     /\ Set(c, [Mine(c) EXCEPT !.mounted = TRUE])
     /\ Loop(c, l, Mine(c).image)
     /\ UNCHANGED faults
  \/ /\ Trouble({"image"} \ Mine(c).has)
     /\ IF failed = "idle" THEN End(c) ELSE Goto(c, failed)
     /\ UNCHANGED store

\* copy_entry overwrites a file, but symlink() refuses an existing name.  The
\* detach runs whatever the copy gave; its failure is an error too.
CopyOut(c, l, next, failed) ==
  /\ At(c, l)
  /\ \/ \E f \in op[c].todo :
          /\ Mine(c).mounted
          /\ f \in links => f \notin dir
          /\ dir' = dir \cup {f}
          /\ torn' = Copied(f, op[c].id, 0)
          /\ Did(c, f)
          /\ UNCHANGED <<store, faults, truncated>>
     \/ /\ op[c].todo = {}
        /\ Set(c, [Mine(c) EXCEPT !.mounted = FALSE])
        /\ Goto(c, next)
        /\ NotCut
        /\ UNCHANGED faults
     \/ /\ \/ /\ Trouble(IF Mine(c).mounted THEN op[c].todo \cap links \cap dir ELSE op[c].todo)
              /\ NotCut
           \/ Fault /\ CutOut(c)
        /\ \E still \in {FALSE, Mine(c).mounted /\ op[c].todo = {}} :
             Set(c, [Mine(c) EXCEPT !.mounted = still])
        /\ IF failed = "idle" THEN End(c) ELSE Goto(c, failed)
  /\ UNCHANGED <<entry, locks, attached, rest>>

-----------------------------------------------------------------------------
(* undo_partial_lock, with every failure ignored, and the rollback.        *)

\* Mutant: the rollback removes the entry and leaves the contents.
UndoEntryOnly(c) ==
  /\ At(c, "undo")
  /\ Goto(c, "rollback")
  /\ UNCHANGED <<dir, entry, store, locks, attached, faults, env>>

Undo(c) ==
  /\ At(c, "undo")
  /\ IF Has(c, "data") THEN Loop(c, "undoMove", Mine(c).data) ELSE Goto(c, "undoImage")
  /\ UNCHANGED <<dir, entry, store, locks, attached, faults, env>>

UndoMove(c) == MoveOut(c, "undoMove", "undoImage", "undoImage")

UndoImage(c) ==
  /\ At(c, "undoImage")
  /\ IF Has(c, "image")
     THEN Mount(c, "undoCopy", "delete")
     ELSE Goto(c, "delete") /\ UNCHANGED <<store, faults>>
  /\ UNCHANGED <<dir, entry, locks, attached, env>>

UndoCopy(c) == CopyOut(c, "undoCopy", "delete", "delete")

UndoDelete(c) ==
  /\ At(c, "delete")
  /\ IF Mine(c).mounted THEN UNCHANGED <<store, torn>> ELSE Set(c, NoStore) /\ torn' = Swept(c)
  /\ IF op[c].lost THEN End(c) ELSE Goto(c, "rollback")
  /\ UNCHANGED <<dir, entry, locks, attached, faults, rest, truncated>>

Rollback(c) ==
  /\ At(c, "rollback")
  /\ RegistryFree
  /\ \/ entry' = {e \in entry : e.id # op[c].id} /\ UNCHANGED faults
     \/ Fault /\ UNCHANGED entry
  /\ End(c)
  /\ UNCHANGED <<dir, store, locks, attached, env>>

-----------------------------------------------------------------------------
(* unlock, step by step.                                                   *)

NoLockRuns == \A c \in Commands : op[c].at \notin LockSteps

\* Step 1, under the registry lock.
Unlock(c) ==
  /\ At(c, "idle")
  /\ RegistryFree
  /\ Overlap \/ NoLockRuns
  /\ \E e \in entry :
       /\ entry' = {[e EXCEPT !.unlocking = TRUE]}
       /\ op' = [op EXCEPT ![c] = [Idle EXCEPT !.at = "terminate", !.id = e.id,
                                                !.strategy = e.strategy, !.users = e.users]]
  /\ UNCHANGED <<dir, store, locks, attached, faults, env>>

\* Step 2; a survivor ends the command.
Terminate(c) ==
  /\ At(c, "terminate")
  /\ \E survivors \in SUBSET {h \in op[c].users : On(h)} :
       /\ attached' = [h \in Attachers |->
                         IF h \in op[c].users \ survivors THEN "gone" ELSE attached[h]]
       /\ IF survivors = {} THEN Goto(c, "release") /\ UNCHANGED faults ELSE Fault /\ End(c)
  /\ UNCHANGED <<dir, entry, store, locks, env>>

\* Steps 3 and 6.
ReleaseMount(c, l, next) ==
  /\ At(c, l)
  /\ \/ /\ Set(c, [Mine(c) EXCEPT !.mounted = @ /\ ~UsesImage(op[c].strategy)])
        /\ Goto(c, next)
        /\ UNCHANGED faults
     \/ Mine(c).mounted /\ Fault /\ End(c) /\ UNCHANGED store
  /\ UNCHANGED <<dir, entry, locks, attached, env>>

\* Step 4: a missing data directory has been moved back before.
Restore(c) ==
  /\ At(c, "restore")
  /\ \/ UsesImage(op[c].strategy) /\ Mount(c, "copyBack", "idle")
     \/ /\ ~UsesImage(op[c].strategy)
        /\ IF Has(c, "data") THEN Loop(c, "moveBack", Mine(c).data) ELSE Goto(c, "report")
        /\ UNCHANGED <<store, faults>>
     \/ Fault /\ End(c) /\ UNCHANGED store
  /\ UNCHANGED <<dir, entry, locks, attached, env>>

\* Mutant: contents that cannot be moved back do not stop the unlock.
MoveBackRegardless(c) == MoveOut(c, "moveBack", "report", "report")

MoveBack(c) == MoveOut(c, "moveBack", "report", "idle")

CopyBack(c) == CopyOut(c, "copyBack", "report", "idle")

\* Mutant: the manifest is deleted once it has been read.
ReportConsuming(c) ==
  /\ At(c, "report")
  /\ \/ /\ Has(c, "manifest")
        /\ Set(c, [Mine(c) EXCEPT !.has = @ \ {"manifest"}])
        /\ Goto(c, "releaseAgain")
        /\ UNCHANGED faults
     \/ Trouble({"manifest"} \ Mine(c).has) /\ End(c) /\ UNCHANGED store
  /\ UNCHANGED <<dir, entry, locks, attached, env>>

\* Step 5 reads the manifest.
ReportChanges(c) ==
  /\ At(c, "report")
  /\ \/ Has(c, "manifest") /\ Goto(c, "releaseAgain") /\ UNCHANGED faults
     \/ Trouble({"manifest"} \ Mine(c).has) /\ End(c)
  /\ UNCHANGED <<dir, entry, store, locks, attached, env>>

\* Step 7, under the registry lock.
Forget(c) ==
  /\ At(c, "forget")
  /\ RegistryFree
  /\ \/ entry' = {e \in entry : e.id # op[c].id} /\ Goto(c, "erase") /\ UNCHANGED faults
     \/ Fault /\ End(c) /\ UNCHANGED entry
  /\ UNCHANGED <<dir, store, locks, attached, env>>

\* Step 8.
Erase(c) ==
  /\ At(c, "erase")
  /\ \/ ~Mine(c).mounted /\ Set(c, NoStore) /\ torn' = Swept(c) /\ UNCHANGED faults
     \/ Mine(c).mounted /\ UNCHANGED <<store, torn, faults>>
     \/ Fault /\ UNCHANGED <<store, torn>>
  /\ End(c)
  /\ UNCHANGED <<dir, entry, locks, attached, rest, truncated>>

LockStep(c) ==
  \/ Snapshot(c) \/ CreateImage(c) \/ CopyIn(c) \/ DetachImage(c) \/ RemoveContents(c)
  \/ Fallback(c) \/ OpenData(c) \/ MoveIn(c) \/ Mark(c) \/ Commit(c)
  \/ Undo(c) \/ UndoMove(c) \/ UndoImage(c) \/ UndoCopy(c) \/ UndoDelete(c) \/ Rollback(c)

UnlockStep(c) ==
  \/ Terminate(c) \/ ReleaseMount(c, "release", "restore") \/ Restore(c)
  \/ MoveBack(c) \/ CopyBack(c) \/ ReportChanges(c)
  \/ ReleaseMount(c, "releaseAgain", "forget") \/ Forget(c) \/ Erase(c)

-----------------------------------------------------------------------------
(* attach, attach_shared and the detach guards, each under the registry    *)
(* lock from beginning to end.                                             *)

\* prune_dead_attachments.
Live(users) == {h \in users : On(h)}

\* mount_for_entry, then the record, which may fail with the mount in place; a
\* failed mount leaves everything as it was.
Attach(h) ==
  /\ attached[h] = "off"
  /\ RegistryFree
  /\ Overlap \/ NoLockRuns
  /\ \E e \in entry :
       /\ ~e.unlocking
       /\ h \in Harnesses => Live(e.users) \cap Harnesses = {}
       /\ (IF UsesImage(e.strategy) THEN "image" ELSE "data") \in store[e.id].has
       /\ store' = [store EXCEPT ![e.id].mounted = @ \/ UsesImage(e.strategy)]
       /\ \/ /\ entry' = {[e EXCEPT !.users = Live(@) \cup {h}]}
             /\ attached' = [attached EXCEPT ![h] = e.strategy]
             /\ UNCHANGED faults
          \/ Fault /\ UNCHANGED <<entry, attached>>
  /\ UNCHANGED <<dir, locks, op, env>>

\* Mutant: the mount goes with the harness, whoever else is attached.
DetachAlways(h) ==
  /\ On(h)
  /\ RegistryFree
  /\ attached' = [attached EXCEPT ![h] = "gone"]
  /\ entry' = {[e EXCEPT !.users = @ \ {h}] : e \in entry}
  /\ store' = [i \in Ids |-> IF \E e \in entry : e.id = i
                             THEN [store[i] EXCEPT !.mounted = FALSE] ELSE store[i]]
  /\ UNCHANGED <<dir, locks, op, faults, env>>

\* detach_workspace, detach_shared_workspace: the last one attached releases
\* the mount; the last retry may fail before or after the record is saved.
Detach(h) ==
  /\ On(h)
  /\ RegistryFree
  /\ attached' = [attached EXCEPT ![h] = "gone"]
  /\ LET without == {[e EXCEPT !.users = @ \ {h}] : e \in entry} IN
     \/ /\ entry' = without
        /\ store' = [i \in Ids |->
                       IF /\ UsesImage(attached[h])
                          /\ \E e \in without : e.id = i /\ Live(e.users) = {}
                       THEN [store[i] EXCEPT !.mounted = FALSE]
                       ELSE store[i]]
        /\ UNCHANGED faults
     \/ Fault /\ entry' \in {without, entry} /\ UNCHANGED store
  /\ UNCHANGED <<dir, locks, op, env>>

\* status prunes the dead.
Status ==
  /\ RegistryFree
  /\ \E e \in entry :
       Live(e.users) # e.users /\ entry' = {[e EXCEPT !.users = Live(@)]}
  /\ UNCHANGED <<dir, store, locks, op, attached, faults, env>>

-----------------------------------------------------------------------------
WorkspaceCrash ==
  /\ crashes < MaxCrashes
  /\ crashes' = crashes + 1
  /\ \/ \E c \in Commands :
          /\ ~At(c, "idle")
          /\ CutIn(c) \/ ((CutOut(c) \/ NotCut) /\ UNCHANGED store)
          /\ abandoned' = (abandoned \/ op[c].at \in LockSteps)
          /\ End(c)
          /\ UNCHANGED attached
     \/ \E h \in Attachers :
          /\ On(h)
          /\ attached' = [attached EXCEPT ![h] = "gone"]
          /\ NotCut
          /\ UNCHANGED <<op, store, abandoned>>
  /\ UNCHANGED <<entry, locks, faults, given>>

WorkspaceNext ==
  \/ \E c \in Commands : Reserve(c) \/ LockStep(c) \/ Unlock(c) \/ UnlockStep(c)
  \/ \E h \in Attachers : Attach(h) \/ Detach(h)
  \/ Status
  \/ WorkspaceCrash

WorkspaceSpec == WorkspaceInit /\ [][WorkspaceNext]_workspaceVars

\* A command that runs goes on, and unlock is run again until it succeeds.
WorkspaceFairSpec ==
  WorkspaceSpec /\ \A c \in Commands : WF_workspaceVars(LockStep(c) \/ Unlock(c) \/ UnlockStep(c))

-----------------------------------------------------------------------------
(* Properties.                                                             *)

Whole(place) == {f \in Files : <<place, f>> \notin torn}

\* No file is ever lost: each is whole in the original directory or in a
\* container.  "The steps are ordered so a failure part-way through never
\* destroys state that has not been safely released" (unlock; lock, its
\* fallback and its undo).
ContentsKept ==
  \A f \in Files :
    \/ f \in dir \cap Whole(0)
    \/ \E i \in Ids : f \in (store[i].data \cup store[i].image) \cap Whole(i)

\* The faults the code makes up for: one with the plain-directory strategy, whose
\* rollback moves the files back, and none with the image strategies.  Not made up
\* for are a copy into a lock's directory that is cut off within a file, as undo and
\* unlock copy the truncated file over the original; and, between filesystems, a
\* failure that leaves a symbolic link in both places, as that stops the undo.
Spared ==
  /\ ~truncated
  /\ faults = 0 \/ (host = "PlainDir" /\ faults = 1 /\ (across => links = {}))

\* The plain-directory strategy keeps that promise through crashes and one
\* operation that fails, the image strategies through crashes
\* (move_contents, lock_into_ext4_image, undo_partial_lock, unlock).
ContentsSafe == Spared => ContentsKept

\* Whoever is attached is on record in the registry and has the container
\* in front of it, until an unlock that will terminate it; and one harness
\* is attached at a time (attach, attach_shared, the detach guards).
AttachedServed ==
  /\ \A h \in Attachers : On(h) =>
       \E e \in entry :
         /\ h \in e.users
         /\ e.unlocking \/ (IF UsesImage(attached[h])
                            THEN store[e.id].mounted
                            ELSE "data" \in store[e.id].has)
  /\ \A g, h \in Harnesses : On(g) /\ On(h) => g = h

\* An unlock that has begun is finished by running it again: "re-running
\* `unlock` after a mid-step failure resumes and completes" (unlock), also when
\* it crashed.  Two unlocks at once can keep undoing each other's mounts; a
\* symbolic link that is back already stops every further run, unless files are
\* moved by renaming; and a lock that crashed may have left no manifest.
UnlockCompletes ==
  /\ [](~abandoned /\ Cardinality({c \in Commands : op[c].at \in UnlockSteps}) <= 1)
  /\ (host = "PlainDir" /\ ~across) \/ links = {}
  => ((\E e \in entry : e.unlocking) ~> (\A e \in entry : ~e.unlocking))

\* When an entry is gone and no command is running, the directory holds
\* everything again, and whole (unlock, and the rollback of lock).
UnlockedWhole ==
  Spared =>
    ((entry = {} /\ \A c \in Commands : At(c, "idle")) => dir = Files /\ Whole(0) = Files)

=============================================================================
