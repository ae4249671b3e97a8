--------------------------- MODULE RegistryProofs ---------------------------
(***************************************************************************)
(* The workspace's registry, for any number of processes and attempts: its *)
(* updates are serialized.  And what an unlock tells the user: every       *)
(* change since the lock, whatever happened to the tree in between.        *)
(***************************************************************************)
EXTENDS UnlockReport, RegistryLock, SequenceTheorems, FiniteSetTheorems, TLAPS

-----------------------------------------------------------------------------
(* The registry lock.                                                      *)

\* As long as no holder has crashed: the file is there exactly while one
\* process holds the lock, it names that process once something is written
\* to it, a waiter about to look again has seen the name of a process that has
\* exited, so nobody gets to remove the file of another, and what a process
\* saves is what it has loaded and one change.
LockExclusive ==
  holderCrashes = 0 =>
    /\ ~old
    /\ creator = Nobody => contents = Empty
    /\ creator # Nobody => pc[creator] \in Holding /\ contents \in {Empty, creator}
    /\ \A p \in Processes :
         /\ pc[p] \in Holding => creator = p
         /\ pc[p] = "reread" => read[p] \in Processes /\ pc[read[p]] = "exited"
         /\ pc[p] \notin {"remove", "crashed"}
         /\ pc[p] = "save" => loaded[p] = registry
    /\ registry = saves

\* The types, with what keeps an attempt within its bound: a process that has
\* used all its attempts has failed.
LockType ==
  /\ LockTypeOK
  /\ \A p \in Processes : attempt[p] = LockAttempts => pc[p] = "failed"

\* The next attempt of acquire_lock keeps the types.
LEMMA RetryType ==
  ASSUME LockType, NEW p \in Processes, pc[p] # "failed", Retry(p)
  PROVE  /\ pc' \in [Processes -> PCs]
         /\ attempt' \in [Processes -> 0..LockAttempts]
         /\ \A q \in Processes : attempt'[q] = LockAttempts => pc'[q] = "failed"
<1>1. attempt[p] \in 0..LockAttempts /\ attempt[p] < LockAttempts
  BY LockAssumption DEF LockType, LockTypeOK
<1> QED
  BY <1>1, LockAssumption DEF LockType, LockTypeOK, Retry, GotoLock, PCs

\* Every step of the processes keeps the types.
LEMMA LockTypeStep == LockType /\ [LockNext]_lockVars => LockType'
<1> SUFFICES ASSUME LockType, [LockNext]_lockVars PROVE LockType'
  BY Zenon
<1> USE LockAssumption DEF LockType, LockTypeOK
<1>1. ASSUME NEW p \in Processes, Rerun(p) PROVE LockType'
  BY <1>1 DEF Rerun, GotoLock, PCs, file, db
<1>2. ASSUME NEW p \in Processes, Create(p) PROVE LockType'
  BY <1>2, Zenon DEF Create, GotoLock, PCs, Contents, file, db
<1>3. ASSUME NEW p \in Processes, Write(p) PROVE LockType'
  BY <1>3, Zenon DEF Write, GotoLock, PCs, Contents, file, db
<1>4. ASSUME NEW p \in Processes, Read(p) PROVE LockType'
  <2>1. CASE creator = Nobody
    BY <1>4, <2>1, RetryType, Zenon DEF Read, file, db
  <2>2. CASE creator # Nobody
    BY <1>4, <2>2 DEF Read, GotoLock, PCs, Contents, file, db
  <2> QED
    BY <2>1, <2>2, Zenon
<1>5. ASSUME NEW p \in Processes, Judge(p) PROVE LockType'
  <2>1. CASE Retry(p)
    BY <1>5, <2>1, RetryType, Zenon DEF Judge, file, db
  <2>2. CASE GotoLock(p, "reread") /\ UNCHANGED attempt
    BY <1>5, <2>2, Zenon DEF Judge, GotoLock, PCs, file, db
  <2> QED
    BY <1>5, <2>1, <2>2, Zenon DEF Judge
<1>6. ASSUME NEW p \in Processes, Reread(p) PROVE LockType'
  <2>1. CASE Retry(p)
    BY <1>6, <2>1, RetryType, Zenon DEF Reread, file, db
  <2>2. CASE GotoLock(p, "remove") /\ UNCHANGED attempt
    BY <1>6, <2>2, Zenon DEF Reread, GotoLock, PCs, file, db
  <2> QED
    BY <1>6, <2>1, <2>2, Zenon DEF Reread
<1>7. ASSUME NEW p \in Processes, RemoveLock(p) PROVE LockType'
  BY <1>7, RetryType, Zenon DEF RemoveLock, NoFile, Contents, db
<1>8. ASSUME NEW p \in Processes, Load(p) PROVE LockType'
  BY <1>8, Zenon DEF Load, GotoLock, PCs, file
<1>9. ASSUME NEW p \in Processes, Save(p) PROVE LockType'
  BY <1>9 DEF Save, GotoLock, PCs, file
<1>10. ASSUME NEW p \in Processes, Release(p) PROVE LockType'
  BY <1>10, Zenon DEF Release, NoFile, GotoLock, PCs, Contents, db
<1>11. ASSUME NEW p \in Processes, HolderCrash(p) PROVE LockType'
  BY <1>11 DEF HolderCrash, Holding, GotoLock, PCs, file, db
<1>12. CASE Age
  BY <1>12, Zenon DEF Age, db
<1>13. CASE UNCHANGED lockVars
  BY <1>13, Zenon DEF lockVars, file, db
<1> QED
  BY <1>1, <1>2, <1>3, <1>4, <1>5, <1>6, <1>7, <1>8, <1>9, <1>10, <1>11, <1>12, <1>13, Zenon
  DEF LockNext, LockMove, Done

\* Every step keeps the lock exclusive.
LEMMA ExclusiveStep ==
  LockType /\ LockExclusive /\ [LockNext]_lockVars => LockExclusive'
<1> SUFFICES ASSUME LockType, LockExclusive, [LockNext]_lockVars, holderCrashes' = 0
             PROVE  LockExclusive'
  BY Zenon DEF LockExclusive
<1> USE LockAssumption DEF LockType, LockTypeOK, LockExclusive
<1>0. holderCrashes = 0
  <2>1. holderCrashes' = holderCrashes \/ holderCrashes' = holderCrashes + 1
    BY Zenon DEF LockNext, LockMove, Done, Rerun, Create, Write, Read, Judge, Reread, RemoveLock,
           Load, Save, Release, HolderCrash, Age, lockVars
  <2> QED
    BY <2>1
<1>1. ASSUME NEW p \in Processes, Rerun(p) PROVE LockExclusive'
  BY <1>0, <1>1, Zenon DEF Rerun, GotoLock, Holding, file, db
<1>2. ASSUME NEW p \in Processes, Create(p) PROVE LockExclusive'
  BY <1>0, <1>2 DEF Create, GotoLock, Holding, file, db
<1>3. ASSUME NEW p \in Processes, Write(p) PROVE LockExclusive'
  BY <1>0, <1>3 DEF Write, GotoLock, Holding, db
<1>4. ASSUME NEW p \in Processes, Read(p) PROVE LockExclusive'
  BY <1>0, <1>4 DEF Read, Retry, GotoLock, Holding, file, db
<1>5. ASSUME NEW p \in Processes, Judge(p) PROVE LockExclusive'
  <2>1. Stale(p) => read[p] \in Processes /\ pc[read[p]] = "exited"
    BY <1>0 DEF Stale, Dead, Contents
  <2> QED
    BY <1>0, <1>5, <2>1 DEF Judge, Retry, GotoLock, Holding, file, db
<1>6. ASSUME NEW p \in Processes, Reread(p) PROVE LockExclusive'
  <2>1. ~(creator # Nobody /\ contents = read[p])
    BY <1>0, <1>6 DEF Reread, Holding
  <2> QED
    BY <1>0, <1>6, <2>1 DEF Reread, Retry, GotoLock, Holding, file, db
<1>7. ASSUME NEW p \in Processes, RemoveLock(p) PROVE LockExclusive'
  BY <1>0, <1>7, Zenon DEF RemoveLock
<1>8. ASSUME NEW p \in Processes, Load(p) PROVE LockExclusive'
  BY <1>0, <1>8, Zenon DEF Load, GotoLock, Holding, file
<1>9. ASSUME NEW p \in Processes, Save(p) PROVE LockExclusive'
  BY <1>0, <1>9, Zenon DEF Save, GotoLock, Holding, file
<1>10. ASSUME NEW p \in Processes, Release(p) PROVE LockExclusive'
  BY <1>0, <1>10, Zenon DEF Release, NoFile, GotoLock, Holding, db
<1>11. ASSUME NEW p \in Processes, HolderCrash(p) PROVE LockExclusive'
  BY <1>0, <1>11 DEF HolderCrash
<1>12. CASE Age
  BY <1>0, <1>12, Zenon DEF Age
<1>13. CASE UNCHANGED lockVars
  BY <1>0, <1>13, Zenon DEF lockVars, file, db
<1> QED
  BY <1>1, <1>2, <1>3, <1>4, <1>5, <1>6, <1>7, <1>8, <1>9, <1>10, <1>11, <1>12, <1>13, Zenon
  DEF LockNext, LockMove, Done

\* The lock file and the registry start out well typed, with no lock held.
LEMMA LockInitially == LockInit => LockType /\ LockExclusive
<1> SUFFICES ASSUME LockInit PROVE LockType /\ LockExclusive
  BY Zenon
<1>1. LockTypeOK
  <2>1. pc \in [Processes -> PCs] /\ read \in [Processes -> Contents]
    BY Zenon DEF LockInit, PCs, Contents
  <2>2. attempt \in [Processes -> 0..LockAttempts] /\ loaded \in [Processes -> Nat]
    BY LockAssumption DEF LockInit
  <2>3. holderCrashes \in 0..MaxHolderCrashes
    BY LockAssumption DEF LockInit
  <2> QED
    BY <2>1, <2>2, <2>3, Zenon DEF LockInit, LockTypeOK, Contents
<1>2. \A p \in Processes : attempt[p] # LockAttempts
  BY LockAssumption, Zenon DEF LockInit
<1>3. LockExclusive
  BY Zenon DEF LockInit, LockExclusive, Holding
<1> QED
  BY <1>1, <1>2, <1>3, Zenon DEF LockType

\* The state of the lock file and of the processes is well typed, for any
\* number of processes and attempts.
THEOREM LockTyped == LockSpec => []LockTypeOK
<1>1. LockType => LockTypeOK
  BY Zenon DEF LockType
<1> QED
  BY <1>1, LockInitially, LockTypeStep, PTL DEF LockSpec

\* Concurrent processes serialize their registry updates as long as no holder
\* of the lock dies: every save builds on the one before, although creating
\* the lock file and writing to it, and looking at it and removing it, are
\* separate system calls (acquire_lock_with, remove_if_stale).
THEOREM RegistrySerialized == LockSpec => []UpdatesSerialized
<1>1. LockExclusive => UpdatesSerialized
  BY Zenon DEF LockExclusive, UpdatesSerialized
<1> QED
  BY <1>1, LockInitially, LockTypeStep, ExclusiveStep, PTL DEF LockSpec

-----------------------------------------------------------------------------
(* The report of an unlock.                                                *)

\* The paths of the model.
LEMMA SixPaths ==
    /\ DOMAIN Paths = 1..6 /\ Len(Paths) = 6
    /\ Paths[1] = <<".git">> /\ Paths[2] = <<".git", "config">>
    /\ Paths[3] = <<".git", "hooks">> /\ Paths[4] = <<".git", "hooks", "x">>
    /\ Paths[5] = <<"my.code-workspace">> /\ Paths[6] = <<"package.json">>
  BY DEF Paths

\* No path occurs twice.
LEMMA PathsDiffer ==
    ASSUME NEW i \in 1..6, NEW j \in 1..6, Paths[i] = Paths[j]
    PROVE  i = j
<1>1. i \in {1, 2, 3, 4, 5, 6} /\ j \in {1, 2, 3, 4, 5, 6}
  OBVIOUS
<1>2. /\ Len(Paths[1]) = 1 /\ Len(Paths[2]) = 2 /\ Len(Paths[3]) = 2
      /\ Len(Paths[4]) = 3 /\ Len(Paths[5]) = 1 /\ Len(Paths[6]) = 1
  BY SixPaths, Zenon
<1>3. /\ Paths[1][1] = ".git" /\ Paths[5][1] = "my.code-workspace" 
      /\ Paths[6][1] = "package.json"
      /\ Paths[2][2] = "config" /\ Paths[3][2] = "hooks"
  BY SixPaths
<1> QED  BY <1>1, <1>2, <1>3

\* A path's place in the order of the tree.
LEMMA IndexOfPath ==
    ASSUME NEW i \in 1..6
    PROVE  IndexOf(Paths[i]) = i
<1>1. DOMAIN Paths = 1..6
  BY SixPaths, Zenon
<1>2. \A j \in 1..6 : Paths[j] = Paths[i] => j = i
  BY PathsDiffer, Zenon
<1>3. IndexOf(Paths[i]) \in 1..6 /\ Paths[IndexOf(Paths[i])] = Paths[i]
  BY <1>1, Zenon DEF IndexOf
<1> QED  BY <1>2, <1>3, Zenon

\* A path of two names.
LEMMA TwoNames ==
    ASSUME NEW C, NEW a \in C, NEW b \in C
    PROVE  /\ <<a, b>> \in Seq(C) /\ Len(<<a, b>>) = 2
           /\ <<a, b>>[1] = a /\ <<a, b>>[2] = b
  OBVIOUS

\* A path of three names.
LEMMA ThreeNames ==
    ASSUME NEW C, NEW a \in C, NEW b \in C, NEW c \in C
    PROVE  /\ <<a, b, c>> \in Seq(C) /\ Len(<<a, b, c>>) = 3
           /\ <<a, b, c>>[1] = a /\ <<a, b, c>>[2] = b /\ <<a, b, c>>[3] = c
  OBVIOUS

\* The names in the paths below .git.
GitNames == {".git", "hooks", "config", "x"}

\* Those names, one by one.
LEMMA Strings == {".git", "hooks", "config", "x"} \subseteq GitNames
  BY Zenon DEF GitNames

\* The length of each path and its last name, which PathSuffix and the rules on
\* names look at.
LEMMA LastNames ==
    /\ Len(Paths[1]) = 1 /\ Paths[1][Len(Paths[1])] = ".git"
    /\ Len(Paths[2]) = 2 /\ Paths[2][Len(Paths[2])] = "config"
    /\ Len(Paths[3]) = 2 /\ Paths[3][Len(Paths[3])] = "hooks"
    /\ Len(Paths[4]) = 3 /\ Paths[4][Len(Paths[4])] = "x"
    /\ Len(Paths[5]) = 1 /\ Paths[5][Len(Paths[5])] = "my.code-workspace"
    /\ Len(Paths[6]) = 1 /\ Paths[6][Len(Paths[6])] = "package.json"
  BY SixPaths

\* A path of one or two names is not below .git/hooks.
LEMMA NotUnderHooks ==
    ASSUME NEW p, Len(p) = 1 \/ Len(p) = 2
    PROVE  ~UnderDir(<<".git", "hooks">>, p)
<1>1. ASSUME NEW d, Len(d) = 2 PROVE ~UnderDir(d, p)
  <2>1. ASSUME NEW i \in 1..Len(p) PROVE ~(i + Len(d) - 1 <= Len(p) - 1)
    <3>1. CASE Len(p) = 1
      BY <1>1, <3>1
    <3>2. CASE Len(p) = 2
      BY <1>1, <3>2
    <3> QED  BY <3>1, <3>2, Zenon
  <2> QED  BY <2>1, Zenon DEF UnderDir
<1> QED  BY <1>1, TwoNames, Strings, Zenon

\* The hook is below .git/hooks.
LEMMA UnderHooks == UnderDir(<<".git", "hooks">>, Paths[4])
<1> DEFINE hooks == <<".git", "hooks">>
           p == <<".git", "hooks", "x">>
<1>1. p \in Seq(GitNames) /\ Len(p) = 3 /\ p[1] = ".git" /\ p[2] = "hooks"
  BY ThreeNames, Strings, Zenon
<1>2. hooks \in Seq(GitNames) /\ Len(hooks) = 2 /\ hooks[1] = ".git" /\ hooks[2] = "hooks"
  BY TwoNames, Strings, Zenon
<1>3. SubSeq(p, 1, 2) = hooks
  <2> HIDE DEF hooks, p
  <2>1. /\ SubSeq(p, 1, 2) \in Seq(GitNames) /\ Len(SubSeq(p, 1, 2)) = 2
        /\ SubSeq(p, 1, 2)[1] = p[1] /\ SubSeq(p, 1, 2)[2] = p[2]
    <3>1. 1 \in 1..(Len(p) + 1) /\ 2 \in 0..Len(p) /\ 2 - 1 + 1 = 2
      BY <1>1
    <3>2. SubSeq(p, 1, 2) \in Seq(GitNames) /\ Len(SubSeq(p, 1, 2)) = 2
      BY <1>1, <3>1
    <3>3. SubSeq(p, 1, 2)[1] = p[1] /\ SubSeq(p, 1, 2)[2] = p[2]
      BY <1>1, <3>1
    <3> QED  BY <3>2, <3>3, Zenon
  <2> QED  BY <1>1, <1>2, <2>1, SeqEqual
<1>4. 1 \in 1..Len(p) /\ 1 + Len(hooks) - 1 <= Len(p) - 1 /\ 1 + Len(hooks) - 1 = 2
  BY <1>1, <1>2
<1>5. UnderDir(hooks, p)
  <2> HIDE DEF hooks, p
  <2> QED  BY <1>3, <1>4, Zenon DEF UnderDir
<1>6. Paths[4] = p
  BY SixPaths, Zenon
<1> QED  BY <1>5, <1>6, Zenon

\* A path of one name does not end in .git/config.
LEMMA NotConfig ==
    ASSUME NEW p, Len(p) = 1
    PROVE  ~PathSuffix(<<".git", "config">>, p)
<1>1. Len(<<".git", "config">>) = 2
  BY Zenon
<1> QED  BY <1>1 DEF PathSuffix

\* A path ends in one of the same length exactly when they are the same.
LEMMA WholeSuffix ==
    ASSUME NEW p \in Seq(GitNames), NEW q \in Seq(GitNames), Len(p) = Len(q)
    PROVE  PathSuffix(p, q) <=> p = q
<1>1. Len(q) - Len(p) + 1 = 1 /\ Len(p) <= Len(q)
  OBVIOUS
<1>2. SubSeq(q, 1, Len(q)) = q
  OBVIOUS
<1> QED  BY <1>1, <1>2, Zenon DEF PathSuffix

\* Of the paths of two names .git/config matches the suffix rule, .git/hooks does
\* not.
LEMMA Config ==
    PathSuffix(<<".git", "config">>, Paths[2]) /\ ~PathSuffix(<<".git", "config">>, Paths[3])
<1> DEFINE config == <<".git", "config">>
           hooks == <<".git", "hooks">>
<1>1. config \in Seq(GitNames) /\ Len(config) = 2 /\ config[2] = "config"
  BY TwoNames, Strings, Zenon
<1>2. hooks \in Seq(GitNames) /\ Len(hooks) = 2 /\ hooks[2] = "hooks"
  BY TwoNames, Strings, Zenon
<1>3. Paths[2] = config /\ Paths[3] = hooks
  BY SixPaths, Zenon
<1> HIDE DEF config, hooks
<1>4. PathSuffix(config, Paths[2]) /\ ~PathSuffix(config, Paths[3])
  BY <1>1, <1>2, <1>3, WholeSuffix, Zenon
<1> QED  BY <1>4, Zenon DEF config

\* The hook does not end in .git/config.
LEMMA HookNotConfig == ~PathSuffix(<<".git", "config">>, Paths[4])
<1> DEFINE config == <<".git", "config">>
           p == <<".git", "hooks", "x">>
<1>1. p \in Seq(GitNames) /\ Len(p) = 3 /\ p[3] = "x"
  BY ThreeNames, Strings, Zenon
<1>2. Len(config) = 2 /\ config[2] = "config"
  BY TwoNames, Strings, Zenon
<1>3. Paths[4] = p
  BY SixPaths, Zenon
<1> HIDE DEF config, p
<1>4. SubSeq(p, 2, 3)[2] = p[3]
  BY <1>1, SubSeqProperties
<1>5. ~PathSuffix(config, p)
  BY <1>1, <1>2, <1>4 DEF PathSuffix
<1> QED  BY <1>3, <1>5, Zenon DEF config

\* What match_path of autoexec.rs says of each path.
LEMMA Rules ==
    /\ MatchPath(Paths[1]) = {} /\ MatchPath(Paths[2]) = {"git configuration"}
    /\ MatchPath(Paths[3]) = {} /\ MatchPath(Paths[4]) = {"git hook"}
    /\ MatchPath(Paths[5]) = {"workspace file"} /\ MatchPath(Paths[6]) = {"npm manifest"}
<1>1. /\ ~UnderDir(<<".git", "hooks">>, Paths[1]) /\ ~UnderDir(<<".git", "hooks">>, Paths[2])
      /\ ~UnderDir(<<".git", "hooks">>, Paths[3]) /\ ~UnderDir(<<".git", "hooks">>, Paths[5])
      /\ ~UnderDir(<<".git", "hooks">>, Paths[6])
  BY LastNames, NotUnderHooks, Zenon
<1>2. /\ ~PathSuffix(<<".git", "config">>, Paths[1]) /\ ~PathSuffix(<<".git", "config">>, Paths[5])
      /\ ~PathSuffix(<<".git", "config">>, Paths[6])
  BY LastNames, NotConfig, Zenon
<1>3. ".git" # "package.json" /\ ".git" # "my.code-workspace" /\ "hooks" # "package.json"
      /\ "hooks" # "my.code-workspace" /\ "my.code-workspace" # "package.json"
      /\ "config" # "package.json" /\ "config" # "my.code-workspace"
      /\ "x" # "package.json" /\ "x" # "my.code-workspace"
  BY Zenon
<1>11. MatchPath(Paths[1]) = {}
  BY <1>1, <1>2, <1>3, LastNames, Zenon DEF MatchPath
<1>12. MatchPath(Paths[2]) = {"git configuration"}
  BY <1>1, <1>3, Config, LastNames, Zenon DEF MatchPath
<1>13. MatchPath(Paths[3]) = {}
  BY <1>1, <1>3, Config, LastNames, Zenon DEF MatchPath
<1>14. MatchPath(Paths[4]) = {"git hook"}
  BY <1>3, UnderHooks, HookNotConfig, LastNames, Zenon DEF MatchPath
<1>15. MatchPath(Paths[5]) = {"workspace file"}
  BY <1>1, <1>2, <1>3, LastNames, Zenon DEF MatchPath
<1>16. MatchPath(Paths[6]) = {"npm manifest"}
  BY <1>1, <1>2, <1>3, LastNames, Zenon DEF MatchPath
<1> QED  BY <1>11, <1>12, <1>13, <1>14, <1>15, <1>16, Zenon

\* The rules flag exactly the paths of files the host may execute.
LEMMA RulesAreSurfaces ==
    ASSUME NEW i \in 1..6
    PROVE  Paths[i] \in Surfaces <=> MatchPath(Paths[i]) # {}
<1>1. /\ Paths[2] \in Surfaces /\ Paths[4] \in Surfaces
      /\ Paths[5] \in Surfaces /\ Paths[6] \in Surfaces
  BY SixPaths, Zenon DEF Surfaces
<1>2. Surfaces = {Paths[2], Paths[4], Paths[5], Paths[6]}
  BY SixPaths, Zenon DEF Surfaces
<1>3. Paths[1] \notin Surfaces /\ Paths[3] \notin Surfaces
  BY <1>2, PathsDiffer
<1>4. i \in {1, 2, 3, 4, 5, 6}
  OBVIOUS
<1> QED  BY <1>1, <1>3, <1>4, Rules, Zenon

\* What a path of a tree can hold; nothing is NoNode.
Entries == Nodes \cup {NoNode}
\* The same without pipes and devices, which a snapshot refuses.
Regular == (Nodes \ {Pipe}) \cup {NoNode}

\* The contents of files.
FileContents == {"text", "edited", "nul", "large"}

\* The kinds of nodes.
LEMMA NodeCases ==
    ASSUME NEW n \in Nodes
    PROVE  \/ \E c \in FileContents, m \in 1..2 : n = FileNode(c, m)
           \/ n \in {LinkNode("text"), LinkNode("other")}
           \/ n \in {DirNode(1), DirNode(2)}
           \/ n = Pipe
  BY DEF Nodes, FileContents

\* The fields of an entry that a snapshot can hold.
LEMMA RegularNode ==
    ASSUME NEW n \in Regular
    PROVE  \/ n.kind = "file" /\ n.content \in FileContents /\ n.mode \in 1..2
           \/ n.kind = "symlink" /\ n.content \in {"text", "other"} /\ n.mode = 0
           \/ n.kind = "dir" /\ n.content = "none" /\ n.mode \in 1..2
           \/ n.kind = "none" /\ n.content = "none" /\ n.mode = 0
<1>1. n \in Nodes \/ n = NoNode
  BY Zenon DEF Regular
<1>2. CASE n = NoNode
  BY <1>2, Zenon DEF NoNode, NoMode
<1>3. CASE \E c \in FileContents, m \in 1..2 : n = FileNode(c, m)
  BY <1>3 DEF FileNode
<1>4. CASE n \in {LinkNode("text"), LinkNode("other")}
  BY <1>4 DEF LinkNode, NoMode
<1>5. CASE n \in {DirNode(1), DirNode(2)}
  BY <1>5 DEF DirNode
<1>6. n # Pipe
  <2>1. NoNode # Pipe
    BY Zenon DEF NoNode, Pipe
  <2> QED  BY <2>1, Zenon DEF Regular
<1> QED  BY <1>1, <1>2, <1>3, <1>4, <1>5, <1>6, NodeCases, Zenon

\* An entry is made of its three fields.
LEMMA EntryNode ==
    ASSUME NEW n \in Entries
    PROVE  n = [kind |-> n.kind, content |-> n.content, mode |-> n.mode]
<1>1. CASE n = NoNode
  BY <1>1, Zenon DEF NoNode, NoMode
<1>2. CASE n = Pipe
  BY <1>2, Zenon DEF Pipe
<1>3. CASE \E c \in FileContents, m \in 1..2 : n = FileNode(c, m)
  BY <1>3, Zenon DEF FileNode
<1>4. CASE n \in {LinkNode("text"), LinkNode("other")}
  BY <1>4, Zenon DEF LinkNode, NoMode
<1>5. CASE n \in {DirNode(1), DirNode(2)}
  BY <1>5, Zenon DEF DirNode
<1> QED  BY <1>1, <1>2, <1>3, <1>4, <1>5, NodeCases, Zenon DEF Entries

\* Entries with the same fields are the same.
LEMMA SameNode ==
    ASSUME NEW n \in Entries, NEW m \in Entries,
           n.kind = m.kind, n.content = m.content, n.mode = m.mode
    PROVE  n = m
  BY EntryNode, Zenon

\* A snapshot's entries are entries of a tree, a missing one among them.
LEMMA RegularEntries == Regular \subseteq Entries /\ NoNode \in Regular
  BY Zenon DEF Regular, Entries

\* Only a missing entry has no kind.
LEMMA NoNodeKind ==
    ASSUME NEW n \in Regular
    PROVE  n = NoNode <=> n.kind = "none"
<1>1. NoNode.kind = "none" /\ NoNode.content = "none" /\ NoNode.mode = 0
  BY Zenon DEF NoNode, NoMode
<1>2. ASSUME n.kind = "none" PROVE n = NoNode
  <2>1. n.content = "none" /\ n.mode = 0
    BY <1>2, RegularNode, Zenon
  <2> QED  BY <1>1, <1>2, <2>1, SameNode, RegularEntries, Zenon
<1> QED  BY <1>1, <1>2, Zenon

\* ManifestEntry::into_tree gives back what from_tree wrote: type, content, link
\* target and permissions.
LEMMA RoundTrip ==
    ASSUME NEW n \in Regular, n # NoNode, NEW p
    PROVE  /\ IntoTree(FromTree(p, n)) = n
           /\ Complete(FromTree(p, n))
           /\ FromTree(p, n).path = p
<1>1. n.kind # "none"
  BY NoNodeKind, Zenon
<1>2. n = [kind |-> n.kind, content |-> n.content, mode |-> n.mode]
  BY EntryNode, RegularEntries, Zenon
<1> DEFINE e == FromTree(p, n)
<1>3. e.path = p /\ e.kind = n.kind /\ e.mode = n.mode
  BY Zenon DEF FromTree
<1>4. n.kind = "file" => e.sha256 = n.content
  BY Zenon DEF FromTree
<1>5. n.kind = "symlink" => e.target = n.content
  BY Zenon DEF FromTree
<1> HIDE DEF e
<1>6. CASE n.kind = "file"
  <2>1. IntoTree(e) = FileNode(n.content, n.mode)
    BY <1>3, <1>4, <1>6, Zenon DEF IntoTree
  <2>2. n.content # "none"
    BY <1>6, RegularNode, Zenon DEF FileContents
  <2>3. Complete(e)
    BY <1>3, <1>4, <1>6, <2>2, Zenon DEF Complete, None
  <2>4. FileNode(n.content, n.mode) = n
    BY <1>2, <1>6, Zenon DEF FileNode
  <2> QED  BY <2>1, <2>3, <2>4, <1>3, Zenon DEF e
<1>7. CASE n.kind = "symlink"
  <2>1. IntoTree(e) = LinkNode(n.content)
    BY <1>3, <1>5, <1>7, Zenon DEF IntoTree
  <2>2. n.content # "none" /\ n.mode = 0
    BY <1>7, RegularNode, Zenon
  <2>3. Complete(e)
    BY <1>3, <1>5, <1>7, <2>2, Zenon DEF Complete, None
  <2>4. LinkNode(n.content) = n
    BY <1>2, <1>7, <2>2, Zenon DEF LinkNode, NoMode
  <2> QED  BY <2>1, <2>3, <2>4, <1>3, Zenon DEF e
<1>8. CASE n.kind = "dir"
  <2>1. IntoTree(e) = DirNode(n.mode)
    BY <1>3, <1>8, Zenon DEF IntoTree
  <2>2. n.content = "none"
    BY <1>8, RegularNode, Zenon
  <2>3. Complete(e)
    BY <1>3, <1>8, <2>2, Zenon DEF Complete, None
  <2>4. DirNode(n.mode) = n
    BY <1>2, <1>8, <2>2, Zenon DEF DirNode
  <2> QED  BY <2>1, <2>3, <2>4, <1>3, Zenon DEF e
<1> QED  BY <1>1, <1>6, <1>7, <1>8, RegularNode, Zenon

\* The entries a snapshot can write.
AllEntries == {FromTree(Paths[i], n) : i \in 1..6, n \in Nodes \ {Pipe}}

\* The manifest holds such entries, at most one of a path, and the blob of every
\* file is in the store: store_file_blob comes before the entry.
ManifestSound ==
    /\ manifest \in Seq(AllEntries)
    /\ \A j, k \in DOMAIN manifest : manifest[j].path = manifest[k].path => j = k
    /\ \A k \in DOMAIN manifest : manifest[k].kind = "file" => manifest[k].sha256 \in blobs

\* The manifest says that path i holds n.
Holds(i, n) ==
    IF n = NoNode THEN \A k \in DOMAIN manifest : manifest[k].path # Paths[i]
    ELSE \E k \in DOMAIN manifest : manifest[k] = FromTree(Paths[i], n)

\* An entry of the manifest is written for a path and a node.
LEMMA AnEntry ==
    ASSUME NEW e \in AllEntries
    PROVE  \E i \in 1..6, n \in Regular : n # NoNode /\ e = FromTree(Paths[i], n)
<1>1. PICK i \in 1..6, n \in Nodes \ {Pipe} : e = FromTree(Paths[i], n)
  BY DEF AllEntries
<1>2. n \in Regular /\ n # NoNode
  <2>1. n \in Regular
    BY Zenon DEF Regular
  <2>2. ASSUME n = NoNode PROVE FALSE
    <3>1. n.kind = "none"
      BY <2>2, Zenon DEF NoNode
    <3>2. CASE \E c \in FileContents, m \in 1..2 : n = FileNode(c, m)
      BY <3>1, <3>2 DEF FileNode
    <3>3. CASE n \in {LinkNode("text"), LinkNode("other")}
      BY <3>1, <3>3 DEF LinkNode
    <3>4. CASE n \in {DirNode(1), DirNode(2)}
      BY <3>1, <3>4 DEF DirNode
    <3> QED  BY <3>2, <3>3, <3>4, NodeCases, Zenon
  <2> QED  BY <2>1, <2>2, Zenon
<1> QED  BY <1>1, <1>2, Zenon

\* The entry written for a path and a node is one of those.
LEMMA OfAnEntry ==
    ASSUME NEW i \in 1..6, NEW n \in Regular, n # NoNode
    PROVE  FromTree(Paths[i], n) \in AllEntries
<1>1. n \in Nodes \ {Pipe}
  BY Zenon DEF Regular
<1> QED  BY <1>1 DEF AllEntries

\* load_manifest gives a path the node that its entry was written for.
LEMMA LoadedEntry ==
    ASSUME ManifestSound, NEW i \in 1..6, NEW n \in Regular, n # NoNode,
           NEW k \in DOMAIN manifest, manifest[k] = FromTree(Paths[i], n)
    PROVE  LoadManifest[i] = n
<1> DEFINE at == CHOOSE l \in DOMAIN manifest : manifest[l].path = Paths[i]
<1>1. manifest[k].path = Paths[i]
  BY RoundTrip, Zenon
<1>2. at \in DOMAIN manifest /\ manifest[at].path = Paths[i]
  BY <1>1, Zenon
<1>3. at = k
  BY <1>1, <1>2, Zenon DEF ManifestSound
<1>4. i \in DOMAIN Paths
  BY SixPaths, Zenon
<1>5. LoadManifest[i] = IntoTree(manifest[at])
  BY <1>1, <1>4, Zenon DEF LoadManifest
<1> HIDE DEF at
<1> QED  BY <1>3, <1>5, RoundTrip, Zenon

\* A path without an entry is missing in what load_manifest gives.
LEMMA LoadedNone ==
    ASSUME NEW i \in 1..6, \A k \in DOMAIN manifest : manifest[k].path # Paths[i]
    PROVE  LoadManifest[i] = NoNode
<1>1. i \in DOMAIN Paths
  BY SixPaths, Zenon
<1> QED  BY <1>1, Zenon DEF LoadManifest

\* What load_manifest gives, with the blobs of its files in the store.
LEMMA Loaded ==
    ASSUME ManifestSound, NEW i \in 1..6
    PROVE  /\ LoadManifest[i] \in Regular
           /\ LoadManifest[i].kind = "file" => LoadManifest[i].content \in blobs
<1>1. CASE \A k \in DOMAIN manifest : manifest[k].path # Paths[i]
  <2>1. LoadManifest[i] = NoNode
    BY <1>1, LoadedNone, Zenon
  <2>2. NoNode.kind = "none"
    BY Zenon DEF NoNode
  <2> QED  BY <2>1, <2>2, RegularEntries, Zenon
<1>2. ASSUME NEW k \in DOMAIN manifest, manifest[k].path = Paths[i]
      PROVE  /\ LoadManifest[i] \in Regular
             /\ LoadManifest[i].kind = "file" => LoadManifest[i].content \in blobs
  <2>1. manifest[k] \in AllEntries
    BY DEF ManifestSound
  <2>2. PICK j \in 1..6, n \in Regular : n # NoNode /\ manifest[k] = FromTree(Paths[j], n)
    BY <2>1, AnEntry, Zenon
  <2>3. j = i
    <3>1. FromTree(Paths[j], n).path = Paths[j]
      BY <2>2, RoundTrip, Zenon
    <3> QED  BY <1>2, <2>2, <3>1, PathsDiffer, Zenon
  <2>4. LoadManifest[i] = n
    BY <2>2, <2>3, LoadedEntry, Zenon
  <2>5. ASSUME n.kind = "file" PROVE n.content \in blobs
    <3>1. FromTree(Paths[j], n).kind = "file" /\ FromTree(Paths[j], n).sha256 = n.content
      BY <2>5, Zenon DEF FromTree
    <3> QED  BY <2>2, <3>1, Zenon DEF ManifestSound
  <2> QED  BY <2>4, <2>5, Zenon
<1> QED  BY <1>1, <1>2, Zenon

\* load_manifest gives a path what the manifest says it holds.
LEMMA HoldsLoaded ==
    ASSUME ManifestSound, NEW i \in 1..6, NEW n \in Regular, Holds(i, n)
    PROVE  LoadManifest[i] = n
<1>1. CASE n = NoNode
  BY <1>1, LoadedNone, Zenon DEF Holds
<1>2. CASE n # NoNode
  <2>1. PICK k \in DOMAIN manifest : manifest[k] = FromTree(Paths[i], n)
    BY <1>2, Zenon DEF Holds
  <2> QED  BY <1>2, <2>1, LoadedEntry, Zenon
<1> QED  BY <1>1, <1>2, Zenon

\* The texts that the report of a change should show: both, when both sides are
\* text files or one is and the other is missing.
ExactDiff(was, new) ==
    IF /\ {was.kind, new.kind} \subseteq {"file", "none"}
       /\ Text(was) # Text(new) /\ IsText(Text(was)) /\ IsText(Text(new))
    THEN {<<Text(was), Text(new)>>} ELSE {}

\* The kind of change that it should state.
ExactKind(was, new) ==
    CASE was = NoNode -> "Added" [] new = NoNode -> "Deleted" [] OTHER -> "Modified"

\* Whether it should note that the permissions differ.
ExactNote(was, new) == NoMode \notin {was.mode, new.mode} /\ was.mode # new.mode

\* The report that a change of a path should get.
Exact(path, was, new) ==
    FileChange(path, ExactKind(was, new), ExactDiff(was, new), ExactNote(was, new))

\* diff_trees says nothing of a path that did not change.
LEMMA NoDifference ==
    ASSUME NEW was \in Regular, NEW i, walked[i] = was
    PROVE  Difference(was, i) = <<>>
<1>1. ContentEqual(was, was) /\ ~ModeNote(was, was)
  BY Zenon DEF ContentEqual, ModeNote
<1>2. CASE was = NoNode
  BY <1>2, Zenon DEF Difference
<1>3. CASE was # NoNode
  BY <1>1, <1>3, Zenon DEF Difference
<1> QED  BY <1>2, <1>3, Zenon

\* diff_trees says what it should of a path that changed.
LEMMA OneDifference ==
    ASSUME NEW was \in Regular, NEW i, tree[i] \in Regular, walked[i] = tree[i], was # tree[i]
    PROVE  Difference(was, i) = <<Exact(Paths[i], was, tree[i])>>
<1> DEFINE new == tree[i]
<1>1. new \in Regular /\ new = walked[i] /\ new # was /\ Current(i) = new.content
  BY Zenon DEF Current
<1> HIDE DEF new
<1>2. NoNode.kind = "none" /\ NoNode.mode = 0 /\ NoNode.content = "none"
  BY Zenon DEF NoNode, NoMode
<1>3. CASE was = NoNode
  <2>1. new # NoNode /\ Text(was) = "empty" /\ Text(new) = new.content
    BY <1>1, <1>3, Zenon DEF Text
  <2>2. ExactKind(was, new) = "Added"
    BY <1>3, <2>1, Zenon DEF ExactKind
  <2>3. ExactNote(was, new) = FALSE
    BY <1>2, <1>3, Zenon DEF ExactNote, NoMode
  <2>4. (IF new.kind = "file" THEN Unified("empty", Current(i)) ELSE {}) = ExactDiff(was, new)
    <3>1. new.kind # "none"
      BY <1>1, <2>1, NoNodeKind, Zenon
    <3>2. CASE new.kind = "file"
      <4>1. new.content \in FileContents
        BY <1>1, <3>2, RegularNode, Zenon
      <4>2. new.content # "empty"
        BY <4>1, Zenon DEF FileContents
      <4> QED  BY <1>1, <1>2, <1>3, <2>1, <3>2, <4>2, Zenon DEF ExactDiff, Unified
    <3>3. CASE new.kind # "file"
      BY <1>2, <1>3, <3>1, <3>3, Zenon DEF ExactDiff
    <3> QED  BY <3>2, <3>3, Zenon
  <2>5. Difference(was, i) = <<FileChange(Paths[i], "Added",
           IF new.kind = "file" THEN Unified("empty", Current(i)) ELSE {}, FALSE)>>
    BY <1>1, <1>3, <2>1, Zenon DEF Difference
  <2> QED  BY <2>2, <2>3, <2>4, <2>5, Zenon DEF Exact, new
<1>4. CASE was # NoNode /\ new = NoNode
  <2>1. Text(was) = was.content /\ Text(new) = "empty"
    BY <1>4, Zenon DEF Text
  <2>2. ExactKind(was, new) = "Deleted"
    BY <1>4, Zenon DEF ExactKind
  <2>3. ExactNote(was, new) = FALSE
    BY <1>2, <1>4, Zenon DEF ExactNote, NoMode
  <2>4. (IF was.kind = "file" THEN Unified(was.content, "empty") ELSE {}) = ExactDiff(was, new)
    <3>1. was.kind # "none"
      BY <1>4, NoNodeKind, Zenon
    <3>2. CASE was.kind = "file"
      <4>1. was.content \in FileContents
        BY <3>2, RegularNode, Zenon
      <4>2. was.content # "empty"
        BY <4>1, Zenon DEF FileContents
      <4> QED  BY <1>2, <1>4, <2>1, <3>2, <4>2, Zenon DEF ExactDiff, Unified
    <3>3. CASE was.kind # "file"
      BY <1>2, <1>4, <3>1, <3>3, Zenon DEF ExactDiff
    <3> QED  BY <3>2, <3>3, Zenon
  <2>5. Difference(was, i) = <<FileChange(Paths[i], "Deleted",
           IF was.kind = "file" THEN Unified(was.content, "empty") ELSE {}, FALSE)>>
    BY <1>1, <1>4, Zenon DEF Difference
  <2> QED  BY <2>2, <2>3, <2>4, <2>5, Zenon DEF Exact, new
<1>5. CASE was # NoNode /\ new # NoNode
  <2>1. Text(was) = was.content /\ Text(new) = new.content
    BY <1>5, Zenon DEF Text
  <2>2. ExactKind(was, new) = "Modified"
    BY <1>5, Zenon DEF ExactKind
  <2>3. ExactNote(was, new) = ModeNote(was, new)
    BY Zenon DEF ExactNote, ModeNote
  <2>4. was.kind # "none" /\ new.kind # "none"
    BY <1>1, <1>5, NoNodeKind, Zenon
  <2>5. ~(ContentEqual(was, new) /\ ~ModeNote(was, new))
    <3> SUFFICES ASSUME ContentEqual(was, new), ~ModeNote(was, new) PROVE FALSE
      BY Zenon
    <3>1. was.kind = new.kind /\ was.content = new.content
      BY Zenon DEF ContentEqual
    <3>2. was.mode # new.mode
      BY <1>1, <3>1, SameNode, RegularEntries, Zenon
    <3>3. was.mode = 0 <=> new.mode = 0
      BY <1>1, <2>4, <3>1, RegularNode
    <3> QED  BY <3>2, <3>3, Zenon DEF ModeNote, NoMode
  <2>6. (IF ~ContentEqual(was, new) /\ was.kind = "file" /\ new.kind = "file"
         THEN Unified(was.content, Current(i)) ELSE {}) = ExactDiff(was, new)
    <3>1. CASE was.kind = "file" /\ new.kind = "file"
      BY <1>1, <2>1, <3>1, Zenon DEF ExactDiff, Unified, ContentEqual
    <3>2. CASE ~(was.kind = "file" /\ new.kind = "file")
      BY <2>4, <3>2, Zenon DEF ExactDiff
    <3> QED  BY <3>1, <3>2, Zenon
  <2>7. Difference(was, i) = <<FileChange(Paths[i], "Modified",
           IF ~ContentEqual(was, new) /\ was.kind = "file" /\ new.kind = "file"
           THEN Unified(was.content, Current(i)) ELSE {}, ModeNote(was, new))>>
    BY <1>1, <1>5, <2>5, Zenon DEF Difference
  <2> QED  BY <2>2, <2>3, <2>6, <2>7, Zenon DEF Exact, new
<1> QED  BY <1>3, <1>4, <1>5, Zenon

\* The paths before n that are not as they were when the workspace was locked.
Differ(n) == {i \in 1..(n - 1) : original[i] # tree[i]}
\* The report that path i should get.
Tell(i) == Exact(Paths[i], original[i], tree[i])
\* The reports that the paths before n should get.
Tells(n) == {Tell(i) : i \in Differ(n)}

\* The report rep and the flags fl are right for the paths before n: they tell
\* what they should, of every path that changed, in order, and the flags are those
\* of the changed paths that the host may execute.
SoFar(rep, fl, n) ==
    /\ rep \in Seq(Tells(n))
    /\ \A i \in Differ(n) : \E k \in DOMAIN rep : rep[k] = Tell(i)
    /\ \A j, k \in DOMAIN rep : j < k => IndexOf(rep[j].path) < IndexOf(rep[k].path)
    /\ \A f \in fl : \E i \in Differ(n) : Paths[i] \in Surfaces /\ f[1] = Paths[i]
    /\ \A i \in Differ(n) : Paths[i] \in Surfaces => \E f \in fl : f[1] = Paths[i]

\* One element more in a sequence.
LEMMA AppendedTo ==
    ASSUME NEW C, NEW D, C \subseteq D, NEW s \in Seq(C), NEW e \in D
    PROVE  /\ Append(s, e) \in Seq(D) /\ s \o <<e>> = Append(s, e)
           /\ DOMAIN Append(s, e) = 1..(Len(s) + 1) /\ DOMAIN s = 1..Len(s) /\ Len(s) \in Nat
           /\ \A i \in 1..Len(s) : Append(s, e)[i] = s[i]
           /\ Append(s, e)[Len(s) + 1] = e
<1>1. s \in Seq(D)
  OBVIOUS
<1> QED  BY <1>1

\* One path more: whether it changed.
LEMMA DifferNext ==
    ASSUME NEW n \in 1..6
    PROVE  Differ(n + 1) = Differ(n) \cup (IF original[n] # tree[n] THEN {n} ELSE {})
  BY DEF Differ

\* The changed paths are paths.
LEMMA DifferIn ==
    ASSUME NEW n \in 1..7, NEW i \in Differ(n)
    PROVE  i \in 1..6 /\ i < n
  BY DEF Differ

\* A report is about its path.
LEMMA TellPath ==
    ASSUME NEW i
    PROVE  Tell(i).path = Paths[i]
  BY Zenon DEF Tell, Exact, FileChange

\* Before the first path nothing is to be told.
LEMMA SoFarNone == SoFar(<<>>, {}, 1)
<1>1. Differ(1) = {}
  BY DEF Differ
<1>2. <<>> \in Seq(Tells(1)) /\ DOMAIN <<>> = {}
  OBVIOUS
<1> QED  BY <1>1, <1>2, Zenon DEF SoFar

\* A path that did not change leaves the report right.
LEMMA SoFarSkip ==
    ASSUME NEW n \in 1..6, original[n] = tree[n], NEW rep, NEW fl, SoFar(rep, fl, n)
    PROVE  /\ rep \o <<>> = rep
           /\ SoFar(rep, fl, n + 1)
<1>1. rep \o <<>> = rep
  BY DEF SoFar
<1>2. Differ(n + 1) = Differ(n)
  BY DifferNext, Zenon
<1> QED  BY <1>1, <1>2, Zenon DEF SoFar, Tells

\* The report of a path that changed, and the flags of the rules it matches, leave
\* the report right.
LEMMA SoFarTell ==
    ASSUME NEW n \in 1..6, original[n] # tree[n], NEW rep, NEW fl, SoFar(rep, fl, n)
    PROVE  SoFar(rep \o <<Tell(n)>>,
                 fl \cup {<<Paths[n], rule>> : rule \in MatchPath(Paths[n])}, n + 1)
<1> DEFINE e == Tell(n)
           longer == Append(rep, e)
           more == {<<Paths[n], rule>> : rule \in MatchPath(Paths[n])}
<1>1. Differ(n + 1) = Differ(n) \cup {n}
  BY DifferNext, Zenon
<1>2. Tells(n) \subseteq Tells(n + 1) /\ e \in Tells(n + 1)
  BY <1>1, Zenon DEF Tells
<1>3. rep \in Seq(Tells(n))
  BY Zenon DEF SoFar
<1>4. /\ longer \in Seq(Tells(n + 1)) /\ rep \o <<e>> = longer
      /\ DOMAIN longer = 1..(Len(rep) + 1) /\ DOMAIN rep = 1..Len(rep) /\ Len(rep) \in Nat
      /\ \A i \in 1..Len(rep) : longer[i] = rep[i]
      /\ longer[Len(rep) + 1] = e
  <2> HIDE DEF e
  <2> QED  BY <1>2, <1>3, AppendedTo
<1> HIDE DEF longer, e
<1>5. ASSUME NEW i \in Differ(n + 1)
      PROVE  \E k \in DOMAIN longer : longer[k] = Tell(i)
  <2>1. CASE i = n
    <3>1. Len(rep) + 1 \in DOMAIN longer
      BY <1>4
    <3> QED  BY <1>4, <2>1, <3>1, Zenon DEF e
  <2>2. CASE i \in Differ(n)
    <3>1. PICK k \in DOMAIN rep : rep[k] = Tell(i)
      BY <2>2, Zenon DEF SoFar
    <3>2. k \in DOMAIN longer /\ longer[k] = rep[k]
      BY <1>4
    <3> QED  BY <3>1, <3>2, Zenon
  <2> QED  BY <1>1, <2>1, <2>2, Zenon
<1>6. ASSUME NEW j \in DOMAIN longer, NEW k \in DOMAIN longer, j < k
      PROVE  IndexOf(longer[j].path) < IndexOf(longer[k].path)
  <2>1. j \in DOMAIN rep /\ longer[j] = rep[j]
    BY <1>4, <1>6
  <2>2. CASE k \in DOMAIN rep
    <3>1. longer[k] = rep[k]
      BY <1>4, <2>2, Zenon
    <3>2. IndexOf(rep[j].path) < IndexOf(rep[k].path)
      BY <1>6, <2>1, <2>2, Zenon DEF SoFar
    <3> QED  BY <2>1, <3>1, <3>2, Zenon
  <2>3. CASE k = Len(rep) + 1
    <3>1. longer[k].path = Paths[n]
      BY <1>4, <2>3, TellPath, Zenon DEF e
    <3>2. IndexOf(longer[k].path) = n
      BY <3>1, IndexOfPath, Zenon
    <3>3. rep[j] \in Tells(n)
      BY <1>3, <2>1
    <3>4. PICK i \in Differ(n) : rep[j] = Tell(i)
      BY <3>3, Zenon DEF Tells
    <3>5. i \in 1..6 /\ i < n
      BY DifferIn
    <3>6. IndexOf(rep[j].path) = i
      BY <3>4, <3>5, TellPath, IndexOfPath, Zenon
    <3> QED  BY <2>1, <3>2, <3>5, <3>6, Zenon
  <2> QED  BY <1>4, <2>2, <2>3
<1>7. ASSUME NEW f \in fl \cup more
      PROVE  \E i \in Differ(n + 1) : Paths[i] \in Surfaces /\ f[1] = Paths[i]
  <2>1. CASE f \in fl
    BY <1>1, <2>1, Zenon DEF SoFar
  <2>2. CASE f \in more
    <3>1. PICK rule \in MatchPath(Paths[n]) : f = <<Paths[n], rule>>
      BY <2>2, Zenon
    <3>2. f[1] = Paths[n]
      BY <3>1, Zenon
    <3>3. Paths[n] \in Surfaces
      BY <3>1, RulesAreSurfaces, Zenon
    <3> QED  BY <1>1, <3>2, <3>3, Zenon
  <2> QED  BY <2>1, <2>2, Zenon
<1>8. ASSUME NEW i \in Differ(n + 1), Paths[i] \in Surfaces
      PROVE  \E f \in fl \cup more : f[1] = Paths[i]
  <2>1. CASE i = n
    <3>1. MatchPath(Paths[n]) # {}
      BY <1>8, <2>1, RulesAreSurfaces, Zenon
    <3>2. PICK rule \in MatchPath(Paths[n]) : TRUE
      BY <3>1, Zenon
    <3>3. <<Paths[n], rule>> \in more /\ <<Paths[n], rule>>[1] = Paths[n]
      BY Zenon
    <3> QED  BY <2>1, <3>3, Zenon
  <2>2. CASE i \in Differ(n)
    <3> HIDE DEF more
    <3> QED  BY <1>8, <2>2, Zenon DEF SoFar
  <2> QED  BY <1>1, <2>1, <2>2, Zenon
<1> HIDE DEF more
<1>9. SoFar(longer, fl \cup more, n + 1)
  BY <1>4, <1>5, <1>6, <1>7, <1>8, Zenon DEF SoFar
<1> QED  BY <1>4, <1>9, Zenon DEF e, more

\* The snapshot, the changes and the unlocks, in any order the code allows.
UnlockReportSpec == UnlockReportInit /\ [][UnlockReportNext]_unlockVars

\* While the snapshot is taken, it holds the paths it has come to, as they are
\* when nobody changed them.
SnapshotOK ==
    stage = "snapshot" =>
        /\ \A k \in DOMAIN manifest : \E i \in 1..(next - 1) : manifest[k].path = Paths[i]
        /\ quiet => \A i \in 1..(next - 1) : tree[i] \in Regular /\ Holds(i, tree[i])

\* When nobody changed the tree under the snapshot, it holds the tree as it was.
OriginalOK ==
    (stage \in {"locked", "report", "unlocked"} /\ quiet) =>
        \A i \in 1..6 : original[i] \in Regular /\ Holds(i, original[i])

\* When nobody changes the tree under the report, it is right so far.
ReportOK ==
    (stage \in {"report", "unlocked"} /\ quiet) =>
        /\ walked = tree /\ \A i \in 1..6 : tree[i] \in Regular
        /\ SoFar(report, flags, next)

\* The types.
UnlockTypes ==
    /\ tree \in [1..6 -> Entries] /\ next \in 1..7 /\ quiet \in BOOLEAN
    /\ stage \in {"snapshot", "locked", "report", "unlocked", "refused"}
    /\ stage = "unlocked" => next = 7

\* The inductive invariant.
UnlockInv == UnlockTypes /\ ManifestSound /\ ~damaged /\ SnapshotOK /\ OriginalOK /\ ReportOK

\* It holds before the snapshot begins.
LEMMA UnlockInvInit == UnlockReportInit => UnlockInv
<1> SUFFICES ASSUME UnlockReportInit PROVE UnlockInv
  BY Zenon
<1>1. tree \in [1..6 -> Entries]
  <2>1. tree = [i \in 1..6 |-> CASE i \in {1, 3} -> DirNode(1)
                                 [] i \in {2, 4} -> FileNode("text", 1)
                                 [] OTHER -> NoNode]
    BY SixPaths, Zenon DEF UnlockReportInit, StartTree
  <2>2. DirNode(1) \in Entries /\ FileNode("text", 1) \in Entries /\ NoNode \in Entries
    BY DEF Entries, Nodes
  <2>3. ASSUME NEW i \in 1..6
        PROVE  (CASE i \in {1, 3} -> DirNode(1)
                  [] i \in {2, 4} -> FileNode("text", 1)
                  [] OTHER -> NoNode) \in Entries
    BY <2>2, Zenon
  <2> QED  BY <2>1, <2>3, Zenon
<1>2. UnlockTypes
  BY <1>1 DEF UnlockTypes, UnlockReportInit
<1>3. manifest = <<>> /\ stage = "snapshot" /\ next = 1 /\ damaged = FALSE
  BY Zenon DEF UnlockReportInit
<1>4. ManifestSound
  BY <1>3 DEF ManifestSound
<1>5. SnapshotOK
  BY <1>3 DEF SnapshotOK
<1>6. OriginalOK /\ ReportOK
  BY <1>3, Zenon DEF OriginalOK, ReportOK
<1> QED  BY <1>2, <1>3, <1>4, <1>5, <1>6, Zenon DEF UnlockInv

\* Taking one path into the snapshot keeps it: the blob is stored before the
\* entry, and entries by other paths leave what the manifest says of one.
LEMMA SnapshotEntryKeeps == UnlockInv /\ SnapshotEntry => UnlockInv'
<1> SUFFICES ASSUME UnlockInv, SnapshotEntry PROVE UnlockInv'
  BY Zenon
<1>1. /\ stage = "snapshot" /\ next \in 1..6 /\ ~damaged'
      /\ tree' = tree /\ quiet' = quiet
  BY SixPaths DEF UnlockInv, UnlockTypes, SnapshotEntry
<1>2. tree[next] \in Entries
  BY <1>1, Zenon DEF UnlockInv, UnlockTypes
<1>3. ManifestSound /\ SnapshotOK
  BY Zenon DEF UnlockInv
<1>4. CASE tree[next] = NoNode
  <2>1. next' = next + 1 /\ manifest' = manifest /\ blobs' = blobs /\ stage' = "snapshot"
    BY <1>1, <1>4 DEF SnapshotEntry, Pipe, NoNode
  <2>2. UnlockTypes'
    BY <1>1, <2>1 DEF UnlockInv, UnlockTypes
  <2>3. ManifestSound'
    BY <1>3, <2>1, Zenon DEF ManifestSound
  <2>4. SnapshotOK'
    <3>1. ASSUME NEW k \in DOMAIN manifest
          PROVE  \E i \in 1..next : manifest[k].path = Paths[i]
      <4>1. PICK i \in 1..(next - 1) : manifest[k].path = Paths[i]
        BY <1>1, <1>3, Zenon DEF SnapshotOK
      <4>2. i \in 1..next
        BY <1>1
      <4> QED  BY <4>1, <4>2, Zenon
    <3>2. ASSUME quiet, NEW i \in 1..next PROVE tree[i] \in Regular /\ Holds(i, tree[i])
      <4>1. CASE i = next
        <5>1. ASSUME NEW k \in DOMAIN manifest PROVE manifest[k].path # Paths[next]
          <6>1. PICK j \in 1..(next - 1) : manifest[k].path = Paths[j]
            BY <1>1, <1>3, Zenon DEF SnapshotOK
          <6>2. j \in 1..6 /\ j # next
            BY <1>1
          <6> QED  BY <1>1, <6>1, <6>2, PathsDiffer, Zenon
        <5> QED  BY <1>4, <4>1, <5>1, RegularEntries, Zenon DEF Holds
      <4>2. CASE i # next
        <5>1. i \in 1..(next - 1)
          BY <1>1, <4>2
        <5> QED  BY <1>1, <1>3, <3>2, <5>1, Zenon DEF SnapshotOK
      <4> QED  BY <4>1, <4>2, Zenon
    <3>3. next' - 1 = next
      BY <1>1, <2>1
    <3> QED  BY <1>1, <2>1, <3>1, <3>2, <3>3, Zenon DEF SnapshotOK, Holds
  <2>5. OriginalOK' /\ ReportOK'
    BY <2>1, Zenon DEF OriginalOK, ReportOK
  <2> QED  BY <1>1, <2>2, <2>3, <2>4, <2>5, Zenon DEF UnlockInv
<1>5. CASE tree[next] = Pipe
  <2>1. stage' = "refused" /\ manifest' = manifest /\ blobs' = blobs /\ next' = next
    BY <1>5 DEF SnapshotEntry, Pipe, NoNode
  <2>2. UnlockTypes'
    BY <1>1, <2>1, Zenon DEF UnlockInv, UnlockTypes
  <2>3. ManifestSound'
    BY <1>3, <2>1, Zenon DEF ManifestSound
  <2>4. SnapshotOK' /\ OriginalOK' /\ ReportOK'
    BY <2>1, Zenon DEF SnapshotOK, OriginalOK, ReportOK
  <2> QED  BY <1>1, <2>2, <2>3, <2>4, Zenon DEF UnlockInv
<1>6. CASE tree[next] \notin {NoNode, Pipe}
  <2> DEFINE node == tree[next]
             e == FromTree(Paths[next], node)
  <2>1. /\ blobs' = IF node.kind = "file" THEN blobs \cup {node.content} ELSE blobs
        /\ manifest' = Append(manifest, e)
        /\ next' = next + 1 /\ stage' = "snapshot"
    BY <1>1, <1>6, Zenon DEF SnapshotEntry
  <2>2. node \in Regular /\ node # NoNode
    BY <1>2, <1>6, Zenon DEF Entries, Regular
  <2>3. e \in AllEntries /\ e.path = Paths[next]
    BY <1>1, <2>2, OfAnEntry, RoundTrip, Zenon
  <2>4. e.kind = node.kind /\ (node.kind = "file" => e.sha256 = node.content)
    BY Zenon DEF FromTree
  <2> HIDE DEF node, e
  <2>5. manifest \in Seq(AllEntries)
    BY <1>3, Zenon DEF ManifestSound
  <2>6. /\ manifest' \in Seq(AllEntries)
        /\ DOMAIN manifest' = 1..(Len(manifest) + 1) /\ DOMAIN manifest = 1..Len(manifest)
        /\ Len(manifest) \in Nat
        /\ \A i \in 1..Len(manifest) : manifest'[i] = manifest[i]
        /\ manifest'[Len(manifest) + 1] = e
    BY <2>1, <2>3, <2>5, AppendedTo
  <2>7. ASSUME NEW k \in DOMAIN manifest
        PROVE  \E i \in 1..(next - 1) : i \in 1..6 /\ i # next /\ manifest[k].path = Paths[i]
    <3>1. PICK i \in 1..(next - 1) : manifest[k].path = Paths[i]
      BY <1>1, <1>3, Zenon DEF SnapshotOK
    <3>2. i \in 1..6 /\ i # next
      BY <1>1
    <3> QED  BY <3>1, <3>2, Zenon
  <2>8. ASSUME NEW k \in DOMAIN manifest PROVE manifest[k].path # Paths[next]
    BY <1>1, <2>7, PathsDiffer, Zenon
  <2>9. UnlockTypes'
    BY <1>1, <2>1 DEF UnlockInv, UnlockTypes
  <2>10. ManifestSound'
    <3>1. ASSUME NEW j \in DOMAIN manifest', NEW k \in DOMAIN manifest',
                 manifest'[j].path = manifest'[k].path
          PROVE  j = k
      <4>1. CASE j \in DOMAIN manifest /\ k \in DOMAIN manifest
        <5>1. manifest[j].path = manifest[k].path
          BY <2>6, <3>1, <4>1, Zenon
        <5> QED  BY <1>3, <4>1, <5>1, Zenon DEF ManifestSound
      <4>2. CASE j \in DOMAIN manifest /\ k = Len(manifest) + 1
        BY <2>3, <2>6, <2>8, <3>1, <4>2, Zenon
      <4>3. CASE j = Len(manifest) + 1 /\ k \in DOMAIN manifest
        BY <2>3, <2>6, <2>8, <3>1, <4>3, Zenon
      <4>4. CASE j = Len(manifest) + 1 /\ k = Len(manifest) + 1
        BY <4>4, Zenon
      <4> QED  BY <2>6, <4>1, <4>2, <4>3, <4>4
    <3>2. ASSUME NEW k \in DOMAIN manifest', manifest'[k].kind = "file"
          PROVE  manifest'[k].sha256 \in blobs'
      <4>1. CASE k \in DOMAIN manifest
        <5>1. manifest'[k] = manifest[k]
          BY <2>6, <4>1, Zenon
        <5>2. manifest[k].sha256 \in blobs
          BY <1>3, <3>2, <4>1, <5>1, Zenon DEF ManifestSound
        <5> QED  BY <2>1, <5>1, <5>2, Zenon
      <4>2. CASE k = Len(manifest) + 1
        BY <2>1, <2>4, <2>6, <3>2, <4>2, Zenon
      <4> QED  BY <2>6, <4>1, <4>2
    <3> QED  BY <2>6, <3>1, <3>2, Zenon DEF ManifestSound
  <2>11. ASSUME NEW k \in DOMAIN manifest'
         PROVE  \E i \in 1..next : manifest'[k].path = Paths[i]
    <3>1. CASE k \in DOMAIN manifest
      <4>1. manifest'[k] = manifest[k]
        BY <2>6, <3>1, Zenon
      <4>2. PICK i \in 1..(next - 1) : manifest[k].path = Paths[i]
        BY <2>7, <3>1, Zenon
      <4>3. i \in 1..next
        BY <1>1
      <4> QED  BY <4>1, <4>2, <4>3, Zenon
    <3>2. CASE k = Len(manifest) + 1
      <4>1. manifest'[k].path = Paths[next]
        BY <2>3, <2>6, <3>2, Zenon
      <4>2. next \in 1..next
        BY <1>1
      <4> QED  BY <4>1, <4>2, Zenon
    <3> QED  BY <2>6, <3>1, <3>2
  <2>12. ASSUME quiet, NEW i \in 1..next PROVE tree[i] \in Regular /\ Holds(i, tree[i])'
    <3>1. CASE i = next
      <4>1. Len(manifest) + 1 \in DOMAIN manifest'
        BY <2>6
      <4> QED  BY <1>1, <2>2, <2>6, <3>1, <4>1, Zenon DEF Holds, node, e
    <3>2. CASE i # next
      <4>1. i \in 1..(next - 1) /\ i \in 1..6
        BY <1>1, <3>2
      <4>2. tree[i] \in Regular /\ Holds(i, tree[i])
        BY <1>1, <1>3, <2>12, <4>1, Zenon DEF SnapshotOK
      <4>3. CASE tree[i] = NoNode
        <5>1. ASSUME NEW k \in DOMAIN manifest' PROVE manifest'[k].path # Paths[i]
          <6>1. CASE k \in DOMAIN manifest
            <7>1. manifest'[k] = manifest[k]
              BY <2>6, <6>1, Zenon
            <7> QED  BY <4>2, <4>3, <6>1, <7>1, Zenon DEF Holds
          <6>2. CASE k = Len(manifest) + 1
            <7>1. manifest'[k].path = Paths[next]
              BY <2>3, <2>6, <6>2, Zenon
            <7> QED  BY <1>1, <3>2, <4>1, <7>1, PathsDiffer, Zenon
          <6> QED  BY <2>6, <6>1, <6>2
        <5> QED  BY <1>1, <4>2, <4>3, <5>1, Zenon DEF Holds
      <4>4. CASE tree[i] # NoNode
        <5>1. PICK k \in DOMAIN manifest : manifest[k] = FromTree(Paths[i], tree[i])
          BY <4>2, <4>4, Zenon DEF Holds
        <5>2. k \in DOMAIN manifest' /\ manifest'[k] = manifest[k]
          BY <2>6
        <5> QED  BY <1>1, <4>2, <4>4, <5>1, <5>2, Zenon DEF Holds
      <4> QED  BY <4>3, <4>4, Zenon
    <3> QED  BY <3>1, <3>2, Zenon
  <2>13. SnapshotOK'
    <3>1. next' - 1 = next
      BY <1>1, <2>1
    <3> QED  BY <1>1, <2>1, <2>11, <2>12, <3>1, Zenon DEF SnapshotOK
  <2>14. OriginalOK' /\ ReportOK'
    BY <2>1, Zenon DEF OriginalOK, ReportOK
  <2> QED  BY <1>1, <2>9, <2>10, <2>13, <2>14, Zenon DEF UnlockInv
<1> QED  BY <1>4, <1>5, <1>6, Zenon

\* Writing the manifest keeps it.
LEMMA SnapshotEndsKeeps == UnlockInv /\ SnapshotEnds => UnlockInv'
<1> SUFFICES ASSUME UnlockInv, SnapshotEnds PROVE UnlockInv'
  BY Zenon
<1>1. /\ stage = "snapshot" /\ stage' = "locked" /\ original' = tree /\ next > 6
      /\ tree' = tree /\ manifest' = manifest /\ blobs' = blobs /\ next' = next
      /\ quiet' = quiet /\ damaged' = damaged
  BY SixPaths, Zenon DEF SnapshotEnds
<1>2. UnlockTypes'
  BY <1>1, Zenon DEF UnlockInv, UnlockTypes
<1>3. ManifestSound'
  BY <1>1, Zenon DEF UnlockInv, ManifestSound
<1>4. SnapshotOK' /\ ReportOK'
  BY <1>1, Zenon DEF SnapshotOK, ReportOK
<1>5. OriginalOK'
  <2>1. next - 1 = 6
    BY <1>1 DEF UnlockInv, UnlockTypes
  <2>2. quiet => \A i \in 1..6 : tree[i] \in Regular /\ Holds(i, tree[i])
    BY <1>1, <2>1, Zenon DEF UnlockInv, SnapshotOK
  <2> QED  BY <1>1, <2>2, Zenon DEF OriginalOK, Holds
<1> QED  BY <1>1, <1>2, <1>3, <1>4, <1>5, Zenon DEF UnlockInv

\* A change of the tree, by the session or by the user, keeps it.
LEMMA ChangeKeeps == UnlockInv /\ Change => UnlockInv'
<1> SUFFICES ASSUME UnlockInv, Change PROVE UnlockInv'
  BY Zenon
<1>1. /\ stage' = stage /\ stage \in {"snapshot", "locked", "report"}
      /\ manifest' = manifest /\ blobs' = blobs /\ next' = next /\ original' = original
      /\ damaged' = damaged /\ quiet' = (quiet /\ stage = "locked")
  BY Zenon DEF Change
<1>2. tree' \in [1..6 -> Entries]
  <2>1. PICK i \in 1..6, node \in Nodes \cup {NoNode} : tree' = [tree EXCEPT ![i] = node]
    BY SixPaths, Zenon DEF Change
  <2>2. tree \in [1..6 -> Entries] /\ node \in Entries
    BY Zenon DEF UnlockInv, UnlockTypes, Entries
  <2> QED  BY <2>1, <2>2, Zenon
<1>3. UnlockTypes'
  BY <1>1, <1>2, Zenon DEF UnlockInv, UnlockTypes
<1>4. ManifestSound'
  BY <1>1, Zenon DEF UnlockInv, ManifestSound
<1>5. SnapshotOK'
  <2>1. stage = "snapshot" => ~quiet'
    BY <1>1, Zenon
  <2> QED  BY <1>1, <2>1, Zenon DEF UnlockInv, SnapshotOK
<1>6. OriginalOK'
  BY <1>1, Zenon DEF UnlockInv, OriginalOK, Holds
<1>7. ReportOK'
  <2>1. stage' \in {"report", "unlocked"} => ~quiet'
    BY <1>1, Zenon
  <2> QED  BY <2>1, Zenon DEF ReportOK
<1> QED  BY <1>1, <1>3, <1>4, <1>5, <1>6, <1>7, Zenon DEF UnlockInv

\* No entry of the manifest lacks a field that into_tree needs.
LEMMA EntriesComplete ==
    ASSUME ManifestSound, NEW k \in DOMAIN manifest
    PROVE  Complete(manifest[k])
<1>1. manifest[k] \in AllEntries
  BY DEF ManifestSound
<1>2. PICK i \in 1..6, n \in Regular : n # NoNode /\ manifest[k] = FromTree(Paths[i], n)
  BY <1>1, AnEntry, Zenon
<1> QED  BY <1>2, RoundTrip, Zenon

\* Starting the report keeps it: load_manifest does not fail.
LEMMA StartReportKeeps == UnlockInv /\ StartReport => UnlockInv'
<1> SUFFICES ASSUME UnlockInv, StartReport PROVE UnlockInv'
  BY Zenon
<1>1. /\ stage = "locked" /\ report' = <<>> /\ flags' = {} /\ next' = 1
      /\ tree' = tree /\ manifest' = manifest /\ blobs' = blobs /\ original' = original
      /\ quiet' = quiet
  BY Zenon DEF StartReport
<1>2. ~damaged'
  BY EntriesComplete, Zenon DEF StartReport, UnlockInv
<1>3. \/ stage' = "locked"
      \/ stage' = "report" /\ walked' = tree /\ Pipe \notin {tree[i] : i \in DOMAIN Paths}
  BY <1>1, <1>2, Zenon DEF StartReport
<1>4. UnlockTypes'
  BY <1>1, <1>3 DEF UnlockInv, UnlockTypes
<1>5. ManifestSound'
  BY <1>1, Zenon DEF UnlockInv, ManifestSound
<1>6. SnapshotOK'
  BY <1>3, Zenon DEF SnapshotOK
<1>7. OriginalOK'
  BY <1>1, Zenon DEF UnlockInv, OriginalOK, Holds
<1>8. ReportOK'
  <2> SUFFICES ASSUME stage' = "report" \/ stage' = "unlocked" PROVE
          /\ walked' = tree' /\ \A i \in 1..6 : tree'[i] \in Regular
          /\ SoFar(report, flags, next)'
    BY Zenon DEF ReportOK
  <2>1. walked' = tree /\ Pipe \notin {tree[i] : i \in DOMAIN Paths}
    BY <1>3, Zenon
  <2>2. ASSUME NEW i \in 1..6 PROVE tree[i] \in Regular
    <3>1. tree[i] \in Entries
      BY Zenon DEF UnlockInv, UnlockTypes
    <3>2. tree[i] # Pipe
      BY <2>1, SixPaths, Zenon
    <3> QED  BY <3>1, <3>2, Zenon DEF Entries, Regular
  <2>3. SoFar(report, flags, next)'
    <3>1. Differ(1)' = {}
      BY DEF Differ
    <3>2. <<>> \in Seq(Tells(1))' /\ DOMAIN <<>> = {}
      OBVIOUS
    <3> QED  BY <1>1, <3>1, <3>2, Zenon DEF SoFar
  <2> QED  BY <1>1, <2>1, <2>2, <2>3, Zenon
<1> QED  BY <1>2, <1>4, <1>5, <1>6, <1>7, <1>8, Zenon DEF UnlockInv

\* Comparing one path keeps it: no blob is missing.
LEMMA ReportEntryKeeps == UnlockInv /\ ReportEntry => UnlockInv'
<1> SUFFICES ASSUME UnlockInv, ReportEntry PROVE UnlockInv'
  BY Zenon
<1> DEFINE was == LoadManifest[next]
           found == Difference(was, next)
<1>1. /\ stage = "report" /\ next \in 1..6
      /\ tree' = tree /\ manifest' = manifest /\ blobs' = blobs /\ original' = original
      /\ walked' = walked /\ quiet' = quiet
  BY SixPaths DEF ReportEntry, UnlockInv, UnlockTypes
<1>2. ~(NeedsBlob(was, next) /\ was.content \notin blobs)
  <2>1. was.kind = "file" => was.content \in blobs
    BY <1>1, Loaded, Zenon DEF UnlockInv
  <2> QED  BY <2>1, Zenon DEF NeedsBlob
<1>3. ManifestSound'
  BY <1>1, Zenon DEF UnlockInv, ManifestSound
<1>4. CASE NeedsFile(was, next) /\ ~Readable(next)
  <2>1. stage' = "locked" /\ next' = next /\ damaged' = damaged
    BY <1>2, <1>4, Zenon DEF ReportEntry
  <2>2. UnlockTypes'
    BY <1>1, <2>1, Zenon DEF UnlockInv, UnlockTypes
  <2>3. SnapshotOK' /\ ReportOK'
    BY <2>1, Zenon DEF SnapshotOK, ReportOK
  <2>4. OriginalOK'
    BY <1>1, <2>1, Zenon DEF UnlockInv, OriginalOK, Holds
  <2> QED  BY <1>3, <2>1, <2>2, <2>3, <2>4, Zenon DEF UnlockInv
<1>5. CASE ~(NeedsFile(was, next) /\ ~Readable(next))
  <2>1. /\ report' = report \o found
        /\ flags' = flags \cup {<<Paths[next], rule>> :
                                  rule \in IF found = <<>> THEN {} ELSE MatchPath(Paths[next])}
        /\ next' = next + 1 /\ stage' = "report" /\ damaged' = damaged
    BY <1>1, <1>2, <1>5, Zenon DEF ReportEntry
  <2>2. UnlockTypes'
    BY <1>1, <2>1 DEF UnlockInv, UnlockTypes
  <2>3. SnapshotOK'
    BY <2>1, Zenon DEF SnapshotOK
  <2>4. OriginalOK'
    BY <1>1, <2>1, Zenon DEF UnlockInv, OriginalOK, Holds
  <2>5. ReportOK'
    <3> SUFFICES ASSUME quiet PROVE
            /\ walked' = tree' /\ \A i \in 1..6 : tree'[i] \in Regular
            /\ SoFar(report, flags, next)'
      BY <1>1, Zenon DEF ReportOK
    <3>1. /\ walked = tree /\ \A i \in 1..6 : tree[i] \in Regular
          /\ SoFar(report, flags, next)
      BY <1>1, Zenon DEF UnlockInv, ReportOK
    <3>2. original[next] \in Regular /\ Holds(next, original[next])
      BY <1>1, Zenon DEF UnlockInv, OriginalOK
    <3>3. was = original[next]
      BY <1>1, <3>2, HoldsLoaded, Zenon DEF UnlockInv
    <3>4. SoFar(report', flags', next + 1)
      <4>1. CASE original[next] = tree[next]
        <5>1. found = <<>>
          BY <3>1, <3>2, <3>3, <4>1, NoDifference, Zenon
        <5>2. report \o <<>> = report /\ SoFar(report, flags, next + 1)
          BY <1>1, <3>1, <4>1, SoFarSkip, Zenon
        <5>3. flags' = flags
          <6> HIDE DEF found
          <6> QED  BY <2>1, <5>1, Zenon
        <5>4. report' = report
          BY <2>1, <5>1, <5>2, Zenon
        <5> QED  BY <5>2, <5>3, <5>4, Zenon
      <4>2. CASE original[next] # tree[next]
        <5>1. found = <<Tell(next)>>
          BY <1>1, <3>1, <3>2, <3>3, <4>2, OneDifference, Zenon DEF Tell
        <5>2. found # <<>>
          <6> HIDE DEF found
          <6> QED  BY <5>1, Zenon
        <5>3. SoFar(report \o <<Tell(next)>>,
                    flags \cup {<<Paths[next], rule>> : rule \in MatchPath(Paths[next])}, next + 1)
          BY <1>1, <3>1, <4>2, SoFarTell, Zenon
        <5>4. flags' = flags \cup {<<Paths[next], rule>> : rule \in MatchPath(Paths[next])}
          BY <2>1, <5>2, Zenon
        <5> HIDE DEF found
        <5> QED  BY <2>1, <5>1, <5>3, <5>4, Zenon
      <4> QED  BY <4>1, <4>2, Zenon
    <3>5. SoFar(report, flags, next)'
      BY <1>1, <2>1, <3>4, Zenon DEF SoFar, Differ, Tells, Tell
    <3> QED  BY <1>1, <3>1, <3>5, Zenon
  <2> QED  BY <1>3, <2>1, <2>2, <2>3, <2>4, <2>5, Zenon DEF UnlockInv
<1> QED  BY <1>4, <1>5, Zenon

\* The end of the report keeps it.
LEMMA ReportEndsKeeps == UnlockInv /\ ReportEnds => UnlockInv'
<1> SUFFICES ASSUME UnlockInv, ReportEnds PROVE UnlockInv'
  BY Zenon
<1>1. /\ stage = "report" /\ stage' = "unlocked" /\ next > 6
      /\ tree' = tree /\ manifest' = manifest /\ blobs' = blobs /\ original' = original
      /\ walked' = walked /\ quiet' = quiet /\ report' = report /\ flags' = flags
      /\ next' = next /\ damaged' = damaged
  BY SixPaths, Zenon DEF ReportEnds
<1>2. UnlockTypes'
  BY <1>1 DEF UnlockInv, UnlockTypes
<1>3. ManifestSound'
  BY <1>1, Zenon DEF UnlockInv, ManifestSound
<1>4. SnapshotOK'
  BY <1>1, Zenon DEF SnapshotOK
<1>5. OriginalOK'
  BY <1>1, Zenon DEF UnlockInv, OriginalOK, Holds
<1>6. ReportOK'
  BY <1>1, Zenon DEF UnlockInv, ReportOK, SoFar, Differ, Tells, Tell
<1> QED  BY <1>1, <1>2, <1>3, <1>4, <1>5, <1>6, Zenon DEF UnlockInv

\* Every step keeps it.
LEMMA UnlockInvStep == UnlockInv /\ [UnlockReportNext]_unlockVars => UnlockInv'
<1>1. UnlockInv /\ UNCHANGED unlockVars => UnlockInv'
  <2> SUFFICES ASSUME UnlockInv, UNCHANGED unlockVars PROVE UnlockInv'
    BY Zenon
  <2>1. /\ tree' = tree /\ manifest' = manifest /\ blobs' = blobs /\ original' = original
        /\ walked' = walked /\ quiet' = quiet /\ report' = report /\ flags' = flags
        /\ next' = next /\ damaged' = damaged /\ stage' = stage
    BY Zenon DEF unlockVars
  <2>2. UnlockTypes' /\ ManifestSound'
    BY <2>1, Zenon DEF UnlockInv, UnlockTypes, ManifestSound
  <2>3. SnapshotOK' /\ OriginalOK'
    BY <2>1, Zenon DEF UnlockInv, SnapshotOK, OriginalOK, Holds
  <2>4. ReportOK'
    BY <2>1, Zenon DEF UnlockInv, ReportOK, SoFar, Differ, Tells, Tell
  <2> QED  BY <2>1, <2>2, <2>3, <2>4, Zenon DEF UnlockInv
<1> QED  BY <1>1, SnapshotEntryKeeps, SnapshotEndsKeeps, ChangeKeeps, StartReportKeeps,
            ReportEntryKeeps, ReportEndsKeeps, Zenon DEF UnlockReportNext

\* The report that is right for all paths is the one ReportExact asks for.
LEMMA ReportIsExact == UnlockInv => ReportExact
<1> SUFFICES ASSUME UnlockInv PROVE ReportExact
  BY Zenon
<1>1. ~damaged
  BY Zenon DEF UnlockInv
<1>2. ASSUME stage = "unlocked", quiet
      PROVE  LET differ == {i \in DOMAIN Paths : original[i] # tree[i]}
                 files(i) == {original[i].kind, tree[i].kind} \subseteq {"file", "none"}
                 at(i) == CHOOSE k \in DOMAIN report : report[k].path = Paths[i]
             IN /\ {report[k].path : k \in DOMAIN report} = {Paths[i] : i \in differ}
                /\ \A j, k \in DOMAIN report :
                     j < k => IndexOf(report[j].path) < IndexOf(report[k].path)
                /\ \A i \in differ :
                     LET was == original[i] new == tree[i] found == report[at(i)] IN
                     /\ found.kind = KindOf(i)
                     /\ found.diff = IF /\ files(i) /\ Text(was) # Text(new)
                                      /\ IsText(Text(was)) /\ IsText(Text(new))
                                     THEN {<<Text(was), Text(new)>>} ELSE {}
                     /\ found.note <=> (NoMode \notin {was.mode, new.mode} /\ was.mode # new.mode)
                /\ {fl[1] : fl \in flags} = {Paths[i] : i \in differ} \cap Surfaces
  <2> DEFINE differ == {i \in DOMAIN Paths : original[i] # tree[i]}
             at(i) == CHOOSE k \in DOMAIN report : report[k].path = Paths[i]
  <2>1. SoFar(report, flags, 7)
    BY <1>2, Zenon DEF UnlockInv, UnlockTypes, ReportOK
  <2>2. differ = Differ(7)
    BY SixPaths DEF Differ
  <2> HIDE DEF differ, at
  <2>3. ASSUME NEW k \in DOMAIN report
        PROVE  \E i \in differ : report[k] = Tell(i)
    <3>1. report[k] \in Tells(7)
      BY <2>1 DEF SoFar
    <3> QED  BY <2>2, <3>1, Zenon DEF Tells
  <2>4. ASSUME NEW i \in differ
        PROVE  \E k \in DOMAIN report : report[k] = Tell(i)
    BY <2>1, <2>2, Zenon DEF SoFar
  <2>5. {report[k].path : k \in DOMAIN report} = {Paths[i] : i \in differ}
    <3>1. ASSUME NEW k \in DOMAIN report PROVE report[k].path \in {Paths[i] : i \in differ}
      BY <2>3, TellPath, Zenon
    <3>2. ASSUME NEW i \in differ PROVE Paths[i] \in {report[k].path : k \in DOMAIN report}
      <4>1. PICK k \in DOMAIN report : report[k] = Tell(i)
        BY <2>4, Zenon
      <4>2. report[k].path = Paths[i]
        BY <4>1, TellPath, Zenon
      <4> QED  BY <4>2, Zenon
    <3> QED  BY <3>1, <3>2, Zenon
  <2>6. \A j, k \in DOMAIN report : j < k => IndexOf(report[j].path) < IndexOf(report[k].path)
    BY <2>1, Zenon DEF SoFar
  <2>7. ASSUME NEW i \in differ PROVE report[at(i)] = Tell(i)
    <3>1. PICK k \in DOMAIN report : report[k] = Tell(i)
      BY <2>4, Zenon
    <3>2. report[k].path = Paths[i]
      BY <3>1, TellPath, Zenon
    <3>3. at(i) \in DOMAIN report /\ report[at(i)].path = Paths[i]
      BY <3>2, Zenon DEF at
    <3>4. PICK j \in differ : report[at(i)] = Tell(j)
      BY <2>3, <3>3, Zenon
    <3>5. Paths[j] = Paths[i]
      BY <3>3, <3>4, TellPath, Zenon
    <3>6. i \in 1..6 /\ j \in 1..6
      BY SixPaths, Zenon DEF differ
    <3> QED  BY <3>4, <3>5, <3>6, PathsDiffer, Zenon
  <2>8. ASSUME NEW i
        PROVE  /\ Tell(i).kind = KindOf(i)
               /\ Tell(i).diff = ExactDiff(original[i], tree[i])
               /\ Tell(i).note = ExactNote(original[i], tree[i])
    BY Zenon DEF Tell, Exact, FileChange, KindOf, ExactKind
  <2>9. {fl[1] : fl \in flags} = {Paths[i] : i \in differ} \cap Surfaces
    <3>1. ASSUME NEW fl \in flags PROVE fl[1] \in {Paths[i] : i \in differ} \cap Surfaces
      BY <2>1, <2>2, Zenon DEF SoFar
    <3>2. ASSUME NEW i \in differ, Paths[i] \in Surfaces PROVE Paths[i] \in {fl[1] : fl \in flags}
      BY <2>1, <2>2, <3>2, Zenon DEF SoFar
    <3> QED  BY <3>1, <3>2, Zenon
  <2>10. ASSUME NEW i \in differ
         PROVE  /\ report[at(i)].kind = KindOf(i)
                /\ report[at(i)].diff = ExactDiff(original[i], tree[i])
                /\ report[at(i)].note <=> ExactNote(original[i], tree[i])
    BY <2>7, <2>8, Zenon
  <2> QED  BY <2>5, <2>6, <2>9, <2>10, Zenon DEF differ, at, ExactDiff, ExactNote
<1> QED  BY <1>1, <1>2, Zenon DEF ReportExact

\* The report of `silo workspace unlock` is exact (ReportExact; snapshot.rs,
\* diff.rs, autoexec.rs): every path that is not as it was at the lock is told
\* once, in order, with its kind, texts and permissions, those the host may execute
\* are flagged, and no unlock fails for a blob or a field the snapshot lacks,
\* whatever was changed while the snapshot was taken.  UnlockInv is the inductive
\* invariant: what the manifest says, who has its blobs, and the report so far.
THEOREM ReportStaysExact == UnlockReportSpec => []ReportExact
<1>1. UnlockReportInit => UnlockInv
  BY UnlockInvInit, Zenon
<1>2. UnlockInv /\ [UnlockReportNext]_unlockVars => UnlockInv'
  BY UnlockInvStep, Zenon
<1>3. UnlockInv => ReportExact
  BY ReportIsExact, Zenon
<1> QED  BY <1>1, <1>2, <1>3, PTL DEF UnlockReportSpec

=============================================================================
