---------------------------- MODULE UnlockReport ----------------------------
(***************************************************************************)
(* The report of `silo workspace unlock`: the snapshot taken when the      *)
(* workspace was locked (silo-workspace/src/snapshot.rs), the comparison   *)
(* with the tree found at unlock (diff.rs) and the flags for files the     *)
(* host may execute (autoexec.rs).  Workspace has the steps of lock and    *)
(* unlock around them.                                                     *)
(*                                                                         *)
(* The snapshot and the comparison go from entry to entry while the tree   *)
(* may change: before the lock the directory is the user's, and by the     *)
(* time of the report the contents are back in it.  An unlock that fails   *)
(* leaves the snapshot, and is run again.                                  *)
(***************************************************************************)
EXTENDS Naturals, Sequences, FiniteSets

CONSTANTS
    MaxChanges,   \* bound: changes made to the tree
    MaxUnlocks    \* bound: attempts to unlock

ASSUME UnlockReportAssumption == MaxChanges \in Nat /\ MaxUnlocks \in Nat

VARIABLES
    tree,      \* the directory: path -> node
    manifest,  \* the entries of the snapshot, a sequence
    blobs,     \* the contents in the blob store
    walked,    \* the tree as walk_tree found it
    report,    \* the changes found so far
    flags,     \* <<path, rule>> of the changes that match a rule
    stage,     \* "snapshot", "locked", "report", "unlocked" or "refused"
    next,      \* the path the snapshot or the report comes to next
    original,  \* the tree when the snapshot ended
    quiet,     \* whether nobody changed the tree during the snapshot or report
    changes,   \* changes made
    unlocks,   \* attempts to unlock
    damaged    \* whether an attempt failed for a blob or an entry of the snapshot

unlockVars == <<tree, manifest, blobs, walked, report, flags, stage, next, original,
                quiet, changes, unlocks, damaged>>

----------------------------------------------------------------------------
(* Trees.  A hash stands for its content; modes are those of Unix.          *)

\* The paths of the model, in the order of the BTreeMap.
Paths == << <<".git">>, <<".git", "config">>, <<".git", "hooks">>,
            <<".git", "hooks", "x">>, <<"my.code-workspace">>, <<"package.json">> >>

NoMode == 0
NoNode == [kind |-> "none", content |-> "none", mode |-> NoMode]
FileNode(content, mode) == [kind |-> "file", content |-> content, mode |-> mode]
LinkNode(target) == [kind |-> "symlink", content |-> target, mode |-> NoMode]
DirNode(mode) == [kind |-> "dir", content |-> "none", mode |-> mode]
Pipe == [kind |-> "other", content |-> "none", mode |-> 1]

Nodes == {FileNode(c, m) : c \in {"text", "edited", "nul", "large"}, m \in 1..2}
             \cup {LinkNode("text"), LinkNode("other")} \cup {DirNode(1), DirNode(2), Pipe}

Parent(path) == SubSeq(path, 1, Len(path) - 1)
IndexOf(path) == CHOOSE i \in DOMAIN Paths : Paths[i] = path

\* Every entry's parent is a directory.
IsTree(t) ==
    \A i \in DOMAIN Paths :
        (t[i] # NoNode /\ Len(Paths[i]) > 1) => t[IndexOf(Parent(Paths[i]))].kind = "dir"

----------------------------------------------------------------------------
(* The snapshot. *)

None == "none"

\* ManifestEntry::from_tree
FromTree(path, node) ==
    [path |-> path, kind |-> node.kind,
     sha256 |-> IF node.kind = "file" THEN node.content ELSE None,
     target |-> IF node.kind = "symlink" THEN node.content ELSE None,
     mode |-> node.mode]

Complete(entry) ==
    /\ entry.kind = "file" => entry.sha256 # None
    /\ entry.kind = "symlink" => entry.target # None

\* Mutant: the permissions of a directory are not restored.
IntoTreeDirs(entry) ==
    CASE entry.kind = "file" -> FileNode(entry.sha256, entry.mode)
      [] entry.kind = "symlink" -> LinkNode(entry.target)
      [] OTHER -> DirNode(NoMode)

\* ManifestEntry::into_tree, for an entry that is complete
IntoTree(entry) ==
    CASE entry.kind = "file" -> FileNode(entry.sha256, entry.mode)
      [] entry.kind = "symlink" -> LinkNode(entry.target)
      [] OTHER -> DirNode(entry.mode)

\* load_manifest
LoadManifest ==
    [i \in DOMAIN Paths |->
        IF \E k \in DOMAIN manifest : manifest[k].path = Paths[i]
        THEN IntoTree(manifest[CHOOSE k \in DOMAIN manifest : manifest[k].path = Paths[i]])
        ELSE NoNode]

StartTree ==
    [i \in DOMAIN Paths |-> CASE i \in {1, 3} -> DirNode(1)
                              [] i \in {2, 4} -> FileNode("text", 1)
                              [] OTHER -> NoNode]

UnlockReportInit ==
    /\ tree = StartTree
    /\ manifest = <<>> /\ blobs = {}
    /\ walked = <<>>
    /\ report = <<>> /\ flags = {}
    /\ stage = "snapshot" /\ next = 1
    /\ original = <<>>
    /\ quiet = TRUE /\ changes = 0 /\ unlocks = 0 /\ damaged = FALSE

\* scan_tree comes to one path (in the model, in order): store_file_blob copies a file's content into
\* the blob store while it hashes it, unless the store has it already; a pipe
\* or a device makes the lock fail.
SnapshotEntry ==
    /\ stage = "snapshot" /\ next <= Len(Paths)
    /\ LET node == tree[next] IN
       \/ /\ node = NoNode
          /\ next' = next + 1
          /\ UNCHANGED <<manifest, blobs, stage>>
       \/ /\ node = Pipe
          /\ stage' = "refused"
          /\ UNCHANGED <<manifest, blobs, next>>
       \/ /\ node \notin {NoNode, Pipe}
          /\ blobs' = IF node.kind = "file" THEN blobs \cup {node.content} ELSE blobs
          /\ manifest' = Append(manifest, FromTree(Paths[next], node))
          /\ next' = next + 1
          /\ UNCHANGED stage
    /\ UNCHANGED <<tree, walked, report, flags, original, quiet, changes, unlocks, damaged>>

\* write_manifest; the workspace is locked.
SnapshotEnds ==
    /\ stage = "snapshot" /\ next > Len(Paths)
    /\ stage' = "locked"
    /\ original' = tree
    /\ UNCHANGED <<tree, manifest, blobs, walked, report, flags, next, quiet, changes,
                   unlocks, damaged>>

\* The session, or the user, changes one entry.
Change ==
    /\ stage \in {"snapshot", "locked", "report"}
    /\ changes < MaxChanges
    /\ changes' = changes + 1
    /\ \E i \in DOMAIN Paths, node \in Nodes \cup {NoNode} :
        /\ node # tree[i]
        /\ node = Pipe => stage # "report"  \* reading a pipe would wait for a writer
        /\ tree' = [tree EXCEPT ![i] = node]
        /\ IsTree(tree')
    /\ quiet' = (quiet /\ stage = "locked")
    /\ UNCHANGED <<manifest, blobs, walked, report, flags, stage, next, original, unlocks,
                   damaged>>

----------------------------------------------------------------------------
(* The report. *)

\* load_manifest and walk_tree; an entry of unsupported type fails the unlock.
StartReport ==
    /\ stage = "locked" /\ unlocks < MaxUnlocks
    /\ unlocks' = unlocks + 1
    /\ damaged' = (damaged \/ \E k \in DOMAIN manifest : ~Complete(manifest[k]))
    /\ IF damaged' \/ Pipe \in {tree[i] : i \in DOMAIN Paths}
       THEN UNCHANGED <<walked, stage>>
       ELSE walked' = tree /\ stage' = "report"
    /\ report' = <<>> /\ flags' = {} /\ next' = 1
    /\ UNCHANGED <<tree, manifest, blobs, original, quiet, changes>>

\* content_equal ignores modes.
ContentEqual(old, new) == old.kind = new.kind /\ old.content = new.content

\* mode_note
ModeNote(old, new) == old.mode # NoMode /\ new.mode # NoMode /\ old.mode # new.mode

\* bytes_to_text: no NUL byte, and not too large
IsText(content) == content \in {"empty", "text", "edited"}

\* unified, when both sides are text; a missing side is the empty text.
Unified(old, new) == IF IsText(old) /\ IsText(new) THEN {<<old, new>>} ELSE {}

FileChange(path, kind, diff, note) ==
    [path |-> path, kind |-> kind, diff |-> diff, note |-> note]

\* read_current_text: the content now, which may not be what walk_tree saw.  It
\* follows links: one leads to a text file, the other nowhere.
Current(i) == tree[i].content
Readable(i) == tree[i].kind = "file" \/ tree[i] = LinkNode("text")

Difference(old, i) ==
    LET new == walked[i]
        path == Paths[i]
    IN CASE old = NoNode /\ new # NoNode ->
              <<FileChange(path, "Added",
                    IF new.kind = "file" THEN Unified("empty", Current(i)) ELSE {}, FALSE)>>
         [] old # NoNode /\ new = NoNode ->
              <<FileChange(path, "Deleted",
                    IF old.kind = "file" THEN Unified(old.content, "empty") ELSE {}, FALSE)>>
         [] old = NoNode /\ new = NoNode -> <<>>
         [] OTHER ->
              IF ContentEqual(old, new) /\ ~ModeNote(old, new) THEN <<>>
              ELSE <<FileChange(path, "Modified",
                         IF ~ContentEqual(old, new) /\ old.kind = "file" /\ new.kind = "file"
                         THEN Unified(old.content, Current(i)) ELSE {},
                         ModeNote(old, new))>>

NeedsBlob(old, i) ==
    /\ old.kind = "file" /\ old.content # "large"
    /\ walked[i] = NoNode \/ (walked[i].kind = "file" /\ ~ContentEqual(old, walked[i]))

NeedsFile(old, i) ==
    walked[i].kind = "file" /\ (old = NoNode \/ (old.kind = "file" /\ ~ContentEqual(old, walked[i])))

\* Pattern::matches, and the first rule that does
UnderDir(dirs, path) ==
    \E i \in 1..Len(path) :
        i + Len(dirs) - 1 <= Len(path) - 1 /\ SubSeq(path, i, i + Len(dirs) - 1) = dirs
PathSuffix(suffix, path) ==
    Len(suffix) <= Len(path) /\ SubSeq(path, Len(path) - Len(suffix) + 1, Len(path)) = suffix

MatchPath(path) ==
    CASE UnderDir(<<".git", "hooks">>, path) -> {"git hook"}
      [] PathSuffix(<<".git", "config">>, path) -> {"git configuration"}
      [] path[Len(path)] = "package.json" -> {"npm manifest"}
      [] path[Len(path)] \in {"my.code-workspace"} -> {"workspace file"}
      [] OTHER -> {}

\* One path of diff_trees; a blob or a file that cannot be read fails the
\* unlock, and the workspace stays locked.
ReportEntry ==
    /\ stage = "report" /\ next <= Len(Paths)
    /\ LET old == LoadManifest[next] IN
       IF NeedsBlob(old, next) /\ old.content \notin blobs
       THEN stage' = "locked" /\ damaged' = TRUE /\ UNCHANGED <<report, flags, next>>
       ELSE IF NeedsFile(old, next) /\ ~Readable(next)
       THEN stage' = "locked" /\ UNCHANGED <<report, flags, next, damaged>>
       ELSE LET found == Difference(old, next) IN
            /\ report' = report \o found
            /\ flags' = flags \cup {<<Paths[next], rule>> :
                                      rule \in IF found = <<>> THEN {} ELSE MatchPath(Paths[next])}
            /\ next' = next + 1
            /\ UNCHANGED <<stage, damaged>>
    /\ UNCHANGED <<tree, manifest, blobs, walked, original, quiet, changes, unlocks>>

ReportEnds ==
    /\ stage = "report" /\ next > Len(Paths)
    /\ stage' = "unlocked"
    /\ UNCHANGED <<tree, manifest, blobs, walked, report, flags, next, original, quiet,
                   changes, unlocks, damaged>>

UnlockReportNext ==
    \/ SnapshotEntry \/ SnapshotEnds \/ Change
    \/ StartReport \/ ReportEntry \/ ReportEnds

----------------------------------------------------------------------------
(* Properties. *)

Surfaces == {<<".git", "config">>, <<".git", "hooks", "x">>, <<"my.code-workspace">>,
             <<"package.json">>}

KindOf(i) == CASE original[i] = NoNode -> "Added"
               [] tree[i] = NoNode -> "Deleted"
               [] OTHER -> "Modified"

Text(node) == IF node = NoNode THEN "empty" ELSE node.content

\* The report of an unlock whose tree lay still says, for every path whose type,
\* content, link target or permissions are not those at the lock, once and in
\* order, how it changed, with both texts where both sides are text files (or
\* one is and the other is missing), and flags those the host may execute; and
\* whatever was changed while the snapshot was taken, no unlock fails for a blob
\* or a field the snapshot lacks.
ReportExact ==
    /\ ~damaged
    /\ (stage = "unlocked" /\ quiet) =>
        LET differ == {i \in DOMAIN Paths : original[i] # tree[i]}
            files(i) == {original[i].kind, tree[i].kind} \subseteq {"file", "none"}
            at(i) == CHOOSE k \in DOMAIN report : report[k].path = Paths[i]
        IN /\ {report[k].path : k \in DOMAIN report} = {Paths[i] : i \in differ}
           /\ \A j, k \in DOMAIN report :
                j < k => IndexOf(report[j].path) < IndexOf(report[k].path)
           /\ \A i \in differ :
                LET old == original[i] new == tree[i] found == report[at(i)] IN
                /\ found.kind = KindOf(i)
                /\ found.diff = IF files(i) /\ Text(old) # Text(new) /\ IsText(Text(old)) /\ IsText(Text(new))
                                THEN {<<Text(old), Text(new)>>} ELSE {}
                /\ found.note <=> (NoMode \notin {old.mode, new.mode} /\ old.mode # new.mode)
           /\ {fl[1] : fl \in flags} = {Paths[i] : i \in differ} \cap Surfaces
=============================================================================
