-------------------------- MODULE SubagentsProofs --------------------------
(***************************************************************************)
(* Proofs about the tree of agent tasks, for any depth, number of slots    *)
(* and of subagents: where the handle of a subagent can be, and what that  *)
(* says of the slots and of the top-level agent's own subagents.           *)
(***************************************************************************)
EXTENDS Subagents, SequenceTheorems, FiniteSetTheorems, TLAPS

\* The shape of the state that handles are in ...
CoreType ==
  /\ counter \in 1..(MaxAgents + 1) /\ slots \in Nat
  /\ pc \in [Agents -> PCs] /\ parent \in [Agents -> Agents]
  /\ pools \in [Agents -> SUBSET Children] /\ pooled \in [Agents -> BOOLEAN]
  /\ held \in [Agents -> SUBSET Children] /\ frames \in [Agents -> Seq(Frame)]
  /\ aborting \in SUBSET Children
  /\ emitted \in [Agents -> BOOLEAN] /\ completions \in [Agents -> Nat]

\* ... and of the rest.
RestType ==
  /\ depth \in [Agents -> Nat] /\ generation \in [Agents -> Nat]
  /\ doneQueue \in [Agents -> Seq(Children)] /\ doneParked \in [Agents -> BOOLEAN]
  /\ interrupts \in Nat /\ shutdown \in BOOLEAN

\* What the place of a task says of its locals, and what the counter says of
\* the tasks that exist.
TasksOK ==
  /\ \A a \in Agents : held[a] # {} => pc[a] \in {"spawning", "join"}
  /\ \A a \in Agents : pc[a] \in {"spawning", "join"} => \E c \in Children : held[a] = {c}
  /\ \A a \in Agents : frames[a] = <<>> <=> pc[a] # "cancel"
  /\ \A a \in Agents : ~pooled[a] => pools[a] = {}
  /\ \A c \in Children : pc[c] = "none" <=> c >= counter
  /\ pc[Top] \notin {"none", "report", "exit", "finished"}
  /\ \A c \in aborting : c < counter

\* A recursion of cancel_uncollected_children: each handle is in one frame, once.
NeatFrame(f) == (f.phase = "pick" <=> f.current = Top) /\ f.current \notin f.todo

Neat(s) ==
  /\ \A i \in 1..Len(s) : NeatFrame(s[i])
  /\ \A i, j \in 1..Len(s) : i # j => FrameHandles(s[i]) \cap FrameHandles(s[j]) = {}

FramesOK(a) == Neat(frames[a])

\* The handles in a recursion.
InFrames(s) == UNION {FrameHandles(s[i]) : i \in 1..Len(s)}

\* Every handle is in one place only.
Apart ==
  /\ \A a, b \in Agents : pools[a] \cap LocalHandles(b) = {}
  /\ \A a, b \in Agents :
       a # b => pools[a] \cap pools[b] = {} /\ LocalHandles(a) \cap LocalHandles(b) = {}

\* The slots add up, and only numbers given out have handles.
SlotsOK ==
  /\ \A c \in Handles : c < counter
  /\ slots + Cardinality(Handles) = Slots

\* A handle stays with the parent that spawned the child, or is with a task
\* that is cancelling; the top-level agent cancels its own.
FamilyOK ==
  /\ \A a \in Agents : \A c \in pools[a] \cup held[a] : parent[c] = a
  /\ \A a \in Agents : \A c \in LocalHandles(a) : parent[c] = Top => a = Top

\* Each child of the top-level agent is still to be collected, or is over and
\* has completed; one whose abort was called is in neither its pool nor its hand.
TopChildrenOK ==
  /\ \A c \in Children : completions[c] = IF emitted[c] THEN 1 ELSE 0
  /\ \A c \in Children : pc[c] = "exit" => emitted[c]
  /\ \A c \in Children : pc[c] = "finished" /\ c \notin aborting => emitted[c]
  /\ \A c \in Children : parent[c] = Top /\ pc[c] # "none" =>
       c \in pools[Top] \cup LocalHandles(Top) \/ (pc[c] = "finished" /\ emitted[c])
  /\ \A c \in aborting : parent[c] = Top => c \notin pools[Top] \cup held[Top]
  /\ pc[Top] \in {"idle", "cancel"} => pools[Top] = {}

TreeInv ==
  /\ CoreType /\ RestType /\ TasksOK /\ (\A a \in Agents : FramesOK(a))
  /\ Apart /\ SlotsOK /\ FamilyOK /\ TopChildrenOK

-----------------------------------------------------------------------------
(* Where handles are.                                                      *)

\* A local handle is in the task's hand or in one of its frames.
LEMMA LocalHandle ==
  ASSUME NEW a \in Agents
  PROVE  /\ \A h : h \in LocalHandles(a) <=>
              h \in held[a] \/ \E i \in DOMAIN frames[a] : h \in FrameHandles(frames[a][i])
         /\ \A h : h \in LocalHandles(a)' <=>
              h \in held'[a] \/ \E i \in DOMAIN frames'[a] : h \in FrameHandles(frames'[a][i])
BY Zenon DEF LocalHandles, FrameHandles

\* Handles are of subagents, and so finitely many.
LEMMA HandlesFinite ==
  ASSUME CoreType
  PROVE  /\ \A a \in Agents : LocalHandles(a) \in SUBSET Children
         /\ Handles \in SUBSET Children /\ IsFiniteSet(Handles)
         /\ \A S \in SUBSET Children : IsFiniteSet(S) /\ Cardinality(S) \in Nat
<1>1. ASSUME NEW a \in Agents PROVE LocalHandles(a) \in SUBSET Children
  <2>1. /\ frames[a] \in Seq(Frame) /\ held[a] \in SUBSET Children
        /\ DOMAIN frames[a] = 1..Len(frames[a])
    BY LenProperties, Zenon DEF CoreType
  <2>2. \A i \in DOMAIN frames[a] : frames[a][i] \in Frame
    BY <2>1, ElementOfSeq, Zenon
  <2>3. \A i \in DOMAIN frames[a] : FrameHandles(frames[a][i]) \subseteq Children
    BY <2>2 DEF Frame, FrameHandles, Agents
  <2> QED
    BY <2>1, <2>3, LocalHandle, Zenon
<1>2. Handles \in SUBSET Children
  BY <1>1, Zenon DEF Handles, CoreType
<1>3. IsFiniteSet(Children)
  BY FS_Interval, TreeAssumption DEF Children
<1>4. ASSUME NEW S \in SUBSET Children PROVE IsFiniteSet(S) /\ Cardinality(S) \in Nat
  BY <1>3, FS_Subset, FS_CardinalityType, Zenon
<1> QED
  BY <1>1, <1>2, <1>4, Zenon

\* A handle, wherever it is.
LEMMA AnyHandle ==
  /\ \A h : h \in Handles <=> \E a \in Agents : h \in pools[a] \/ h \in LocalHandles(a)
  /\ \A h : h \in Handles' <=> \E a \in Agents : h \in pools'[a] \/ h \in LocalHandles(a)'
BY Zenon DEF Handles

\* Handles go between the pool of x and the locals of a, and nowhere else.
Moves(a, x) ==
  /\ slots' = slots /\ counter' = counter
  /\ \A b \in Agents : b # x => pools'[b] = pools[b]
  /\ \A b \in Agents : b # a => LocalHandles(b)' = LocalHandles(b)
  /\ pools'[x] \cup LocalHandles(a)' = pools[x] \cup LocalHandles(a)
  /\ pools'[x] \cap LocalHandles(a)' = {}

\* Moving handles keeps every one in one place and the slots' sum.
LEMMA MovesKeep ==
  ASSUME TreeInv, NEW a \in Agents, NEW x \in Agents, Moves(a, x)
  PROVE  Apart' /\ SlotsOK'
<1>1. Apart'
  <2>1. ASSUME NEW b \in Agents, NEW d \in Agents PROVE pools'[b] \cap LocalHandles(d)' = {}
    <3>1. CASE b = x /\ d = a
      BY <3>1, Zenon DEF Moves
    <3>2. CASE b = x /\ d # a
      BY <3>2 DEF Moves, TreeInv, Apart
    <3>3. CASE b # x /\ d = a
      BY <3>3, Zenon DEF Moves, TreeInv, Apart
    <3>4. CASE b # x /\ d # a
      BY <3>4, Zenon DEF Moves, TreeInv, Apart
    <3> QED
      BY <3>1, <3>2, <3>3, <3>4, Zenon
  <2>2. ASSUME NEW b \in Agents, NEW d \in Agents, b # d PROVE pools'[b] \cap pools'[d] = {}
    BY <2>2, Zenon DEF Moves, TreeInv, Apart
  <2>3. ASSUME NEW b \in Agents, NEW d \in Agents, b # d
        PROVE  LocalHandles(b)' \cap LocalHandles(d)' = {}
    BY <2>3 DEF Moves, TreeInv, Apart
  <2> QED
    BY <2>1, <2>2, <2>3, Zenon DEF Apart
<1>2. Handles' = Handles
  BY AnyHandle DEF Moves
<1> QED
  BY <1>1, <1>2, Zenon DEF Moves, TreeInv, SlotsOK

\* The handles D among the locals of a are dropped.
Drops(a, D) ==
  /\ slots' = slots + Cardinality(D) /\ counter' = counter
  /\ pools' = pools
  /\ \A b \in Agents : b # a => LocalHandles(b)' = LocalHandles(b)
  /\ D \subseteq LocalHandles(a) /\ LocalHandles(a)' = LocalHandles(a) \ D

\* Dropping handles gives back as many slots.
LEMMA DropsKeep ==
  ASSUME TreeInv, NEW a \in Agents, NEW D, Drops(a, D)
  PROVE  Apart' /\ SlotsOK' /\ slots' \in Nat
<1>1. Apart'
  BY DEF Drops, TreeInv, Apart
<1>2. Handles' = Handles \ D
  BY AnyHandle DEF Drops, TreeInv, Apart
<1>3. D \in SUBSET Children /\ D \subseteq Handles
  BY HandlesFinite, AnyHandle, Zenon DEF Drops, TreeInv
<1>4. /\ IsFiniteSet(Handles) /\ Cardinality(Handles) \in Nat /\ Cardinality(D) \in Nat
      /\ slots \in Nat
  BY <1>3, HandlesFinite, Zenon DEF TreeInv, CoreType
<1>5. Cardinality(Handles \ D) = Cardinality(Handles) - Cardinality(D)
  <2>1. Handles \cap D = D
    BY <1>3, Zenon
  <2> QED
    BY <1>4, <2>1, FS_Difference, Zenon
<1>6. slots' + Cardinality(Handles') = Slots
  BY <1>2, <1>4, <1>5, TreeAssumption DEF Drops, TreeInv, SlotsOK
<1> QED
  BY <1>1, <1>2, <1>4, <1>6 DEF Drops, TreeInv, SlotsOK

-----------------------------------------------------------------------------
(* Steps that leave the handles where they are.                            *)

\* The locals of a task are in its hand and its frames.
LEMMA SameLocals ==
  ASSUME NEW a \in Agents, held'[a] = held[a], frames'[a] = frames[a]
  PROVE  LocalHandles(a)' = LocalHandles(a) /\ (FramesOK(a) => FramesOK(a)')
<1>1. \A h : h \in LocalHandles(a)' <=> h \in LocalHandles(a)
  BY LocalHandle, Zenon
<1> QED
  BY <1>1, Zenon DEF FramesOK

Plain == {"loop", "tool", "poll", "any", "returning"}

\* One task goes on in its turn.
Calm(a) ==
  /\ pc[a] \in Plain \cup {"idle"} /\ pc'[a] \in Plain
  /\ pc' = [pc EXCEPT ![a] = pc'[a]]
  /\ UNCHANGED <<counter, slots, parent, pools, pooled, held, frames, aborting, emitted,
                 completions>>

\* A calm step keeps the invariant.
LEMMA CalmStep ==
  ASSUME TreeInv, NEW a \in Agents, Calm(a), RestType'
  PROVE  TreeInv'
<1>1. /\ UNCHANGED <<counter, slots, parent, pools, pooled, held, frames, aborting, emitted,
                     completions>>
      /\ pc \in [Agents -> PCs] /\ Top \in Agents
  BY Zenon DEF Calm, TreeInv, CoreType, Agents
<1>2. CoreType'
  BY <1>1, Zenon DEF Calm, TreeInv, CoreType, Plain, PCs
<1>3. /\ pc'[a] \in Plain /\ pc[a] \in Plain \cup {"idle"}
      /\ \A b \in Agents : b # a => pc'[b] = pc[b]
  BY <1>1, Zenon DEF Calm
<1>4. TasksOK'
  BY <1>1, <1>3 DEF TreeInv, TasksOK, Plain, Agents
<1>5. \A b \in Agents : LocalHandles(b)' = LocalHandles(b) /\ FramesOK(b)'
  BY <1>1, SameLocals, Zenon DEF TreeInv
<1>6. Moves(a, a)
  BY <1>1, <1>5, Zenon DEF Moves, TreeInv, Apart
<1>7. FamilyOK'
  BY <1>1, <1>5, Zenon DEF TreeInv, FamilyOK
<1>8. TopChildrenOK'
  BY <1>1, <1>3, <1>5 DEF TreeInv, TopChildrenOK, Plain, Agents
<1> QED
  BY <1>2, <1>4, <1>5, <1>6, <1>7, <1>8, MovesKeep, Zenon DEF TreeInv

\* No task moves: an interrupt, a shutdown request, the end.
LEMMA SignalStep ==
  ASSUME TreeInv, RestType',
         UNCHANGED <<pc, counter, slots, parent, pools, pooled, held, frames, aborting, emitted,
                     completions>>
  PROVE  TreeInv'
<1>1. \A b \in Agents : LocalHandles(b)' = LocalHandles(b) /\ FramesOK(b)'
  BY SameLocals, Zenon DEF TreeInv
<1>2. Top \in Agents
  BY Zenon DEF Agents
<1>3. Moves(Top, Top)
  BY <1>1, <1>2, Zenon DEF Moves, TreeInv, Apart
<1>4. CoreType' /\ TasksOK' /\ FamilyOK' /\ TopChildrenOK'
  BY <1>1, <1>2 DEF TreeInv, CoreType, TasksOK, FamilyOK, TopChildrenOK
<1> QED
  BY <1>1, <1>2, <1>3, <1>4, MovesKeep, Zenon DEF TreeInv

\* A child's task reports, and is then over.
LEMMA ReportStep ==
  ASSUME TreeInv, NEW a \in Agents, Report(a) \/ Exit(a), RestType'
  PROVE  TreeInv'
<1>1. /\ UNCHANGED <<counter, slots, parent, pools, pooled, held, frames, aborting>>
      /\ CoreType /\ TasksOK /\ TopChildrenOK /\ Top \in Agents
  BY Zenon DEF Report, Exit, identity, registry, TreeInv, Agents
<1>2. /\ pc[a] \in {"report", "exit"} /\ pc'[a] \in {"exit", "finished"}
      /\ pc' = [pc EXCEPT ![a] = pc'[a]]
      /\ \A b \in Agents : b # a => pc'[b] = pc[b]
  BY <1>1, Zenon DEF Report, Exit, Goto, CoreType
<1>3. a \in Children
  BY <1>1, <1>2, Zenon DEF TasksOK, Agents
<1>4. /\ emitted' \in [Agents -> BOOLEAN] /\ emitted'[a]
      /\ \A b \in Agents : b # a => emitted'[b] = emitted[b]
  <2>1. CASE Report(a)
    BY <1>1, <2>1, Zenon DEF Report, CoreType
  <2>2. CASE Exit(a)
    BY <1>1, <1>3, <2>2, Zenon DEF Exit, events, CoreType, TopChildrenOK
  <2> QED
    BY <2>1, <2>2, Zenon
<1>5. /\ completions' \in [Agents -> Nat] /\ completions'[a] = 1
      /\ \A b \in Agents : b # a => completions'[b] = completions[b]
  <2>1. completions[a] = IF emitted[a] THEN 1 ELSE 0
    BY <1>1, <1>3, Zenon DEF TopChildrenOK
  <2>2. CASE Report(a)
    BY <1>1, <2>1, <2>2 DEF Report, CoreType
  <2>3. CASE Exit(a)
    BY <1>1, <1>3, <2>1, <2>3, Zenon DEF Exit, events, CoreType, TopChildrenOK
  <2> QED
    BY <2>2, <2>3, Zenon
<1>6. CoreType'
  BY <1>1, <1>2, <1>4, <1>5 DEF CoreType, PCs
<1>7. TasksOK'
  BY <1>1, <1>2 DEF TasksOK, Agents
<1>8. \A b \in Agents : LocalHandles(b)' = LocalHandles(b) /\ FramesOK(b)'
  BY <1>1, SameLocals, Zenon DEF TreeInv
<1>9. Moves(a, a)
  BY <1>1, <1>8, Zenon DEF Moves, TreeInv, Apart
<1>10. FamilyOK'
  BY <1>1, <1>8, Zenon DEF TreeInv, FamilyOK
<1>11. TopChildrenOK'
  <2>1. Top # a
    BY <1>1, <1>2, Zenon DEF TasksOK
  <2> QED
    BY <1>1, <1>2, <1>3, <1>4, <1>5, <1>8, <2>1 DEF TopChildrenOK, Agents
<1> QED
  BY <1>6, <1>7, <1>8, <1>9, <1>10, <1>11, MovesKeep, Zenon DEF TreeInv

-----------------------------------------------------------------------------
(* Steps between a pool and the hand of its agent.                         *)

\* The agent parks the handle it holds, or takes one of its pool.
Hands(a) ==
  /\ pc[a] \in {"tool", "poll", "any", "spawning", "join"}
  /\ pc'[a] \in {"loop", "returning", "join"}
  /\ pc' = [pc EXCEPT ![a] = pc'[a]]
  /\ pools' = [pools EXCEPT ![a] = pools'[a]] /\ held' = [held EXCEPT ![a] = held'[a]]
  /\ pooled' = [pooled EXCEPT ![a] = pooled'[a]] /\ pooled'[a] \in BOOLEAN
  /\ ~pooled'[a] => pools'[a] = {}
  /\ pools'[a] \cup held'[a] = pools[a] \cup held[a] /\ pools'[a] \cap held'[a] = {}
  /\ IF pc'[a] = "join" THEN \E c \in Children : held'[a] = {c} ELSE held'[a] = {}
  /\ UNCHANGED <<counter, slots, parent, frames, aborting, emitted, completions>>

\* Parking or taking a handle keeps the invariant.
LEMMA HandsStep ==
  ASSUME TreeInv, NEW a \in Agents, Hands(a), RestType'
  PROVE  TreeInv'
<1>1. /\ UNCHANGED <<counter, slots, parent, frames, aborting, emitted, completions>>
      /\ CoreType /\ TasksOK /\ FamilyOK /\ TopChildrenOK /\ Apart /\ Top \in Agents
  BY Zenon DEF Hands, TreeInv, Agents
<1>2. /\ pools'[a] \cup held'[a] = pools[a] \cup held[a] /\ pools'[a] \cap held'[a] = {}
      /\ pools'[a] \in SUBSET Children /\ held'[a] \in SUBSET Children
  BY <1>1, Zenon DEF Hands, CoreType
<1>3. CoreType'
  <2>1. pools' \in [Agents -> SUBSET Children] /\ held' \in [Agents -> SUBSET Children]
    BY <1>1, <1>2 DEF Hands, CoreType
  <2>2. pc' \in [Agents -> PCs]
    BY <1>1, Zenon DEF Hands, CoreType, PCs
  <2>3. pooled' \in [Agents -> BOOLEAN]
    BY <1>1, Zenon DEF Hands, CoreType
  <2> QED
    BY <1>1, <2>1, <2>2, <2>3, Zenon DEF CoreType
<1>4. \A b \in Agents : b # a =>
        /\ pc'[b] = pc[b] /\ pools'[b] = pools[b] /\ held'[b] = held[b] /\ pooled'[b] = pooled[b]
  BY <1>1, Zenon DEF Hands, CoreType
<1>5. /\ pc[a] \in {"tool", "poll", "any", "spawning", "join"}
      /\ pc'[a] \in {"loop", "returning", "join"} /\ frames[a] = <<>>
  BY <1>1, Zenon DEF Hands, TasksOK
<1>6. TasksOK'
  <2>1. ASSUME NEW b \in Agents
        PROVE  /\ held'[b] # {} => pc'[b] \in {"spawning", "join"}
               /\ pc'[b] \in {"spawning", "join"} => \E c \in Children : held'[b] = {c}
               /\ frames'[b] = <<>> <=> pc'[b] # "cancel"
               /\ ~pooled'[b] => pools'[b] = {}
    <3>1. CASE b = a
      BY <1>1, <1>5, <3>1, Zenon DEF Hands
    <3>2. CASE b # a
      BY <1>1, <1>4, <3>2 DEF TasksOK
    <3> QED
      BY <3>1, <3>2, Zenon
  <2>2. \A c \in Children : pc'[c] = "none" <=> c >= counter
    BY <1>1, <1>4, <1>5, Zenon DEF TasksOK, Agents
  <2> QED
    BY <1>1, <1>4, <1>5, <2>1, <2>2, Zenon DEF TasksOK, Children
<1>7. \A b \in Agents : b # a => LocalHandles(b)' = LocalHandles(b)
  BY <1>1, <1>4, SameLocals, Zenon
<1>8. \A b \in Agents : FramesOK(b)'
  BY <1>1, Zenon DEF TreeInv, FramesOK
<1>9. LocalHandles(a) = held[a] /\ LocalHandles(a)' = held'[a]
  <2>1. DOMAIN frames[a] = {} /\ DOMAIN frames'[a] = {}
    BY <1>1, <1>5
  <2> QED
    BY <2>1, LocalHandle, Zenon
<1>10. Moves(a, a)
  BY <1>1, <1>2, <1>4, <1>7, <1>9, Zenon DEF Moves
<1>11. FamilyOK'
  <2>1. ASSUME NEW b \in Agents, NEW c \in pools'[b] \cup held'[b] PROVE parent'[c] = b
    BY <1>1, <1>2, <1>4, <2>1, Zenon DEF FamilyOK
  <2>2. ASSUME NEW b \in Agents, NEW c \in LocalHandles(b)', parent'[c] = Top PROVE b = Top
    BY <1>1, <1>7, <1>9, <2>1, <2>2 DEF FamilyOK
  <2> QED
    BY <2>1, <2>2, Zenon DEF FamilyOK
<1>12. TopChildrenOK'
  <2>1. pools'[Top] \cup LocalHandles(Top)' = pools[Top] \cup LocalHandles(Top)
    BY <1>1, <1>2, <1>4, <1>7, <1>9, Zenon
  <2>2. pools'[Top] \cup held'[Top] = pools[Top] \cup held[Top]
    BY <1>1, <1>2, <1>4, Zenon
  <2>3. pc'[Top] \in {"idle", "cancel"} => pools'[Top] = {}
    BY <1>1, <1>4, <1>5, Zenon DEF TopChildrenOK
  <2>4. ASSUME NEW c \in Children
        PROVE  /\ pc'[c] = "exit" <=> pc[c] = "exit"
               /\ pc'[c] = "finished" <=> pc[c] = "finished"
               /\ pc'[c] = "none" <=> pc[c] = "none"
    BY <1>4, <1>5, Zenon DEF Agents
  <2> QED
    BY <1>1, <2>1, <2>2, <2>3, <2>4, Zenon DEF TopChildrenOK
<1> QED
  BY <1>3, <1>6, <1>8, <1>10, <1>11, <1>12, MovesKeep, Zenon DEF TreeInv

\* The entry of a pool is made if there is none.
LEMMA WithPoolFacts ==
  ASSUME CoreType, NEW a \in Agents, WithPool(a)
  PROVE  pooled' = [pooled EXCEPT ![a] = pooled'[a]] /\ pooled'[a] = TRUE
BY Zenon DEF CoreType, WithPool

\* run_agent_tool parks the new handle; an interrupted wait parks it again.
LEMMA ParkStep ==
  ASSUME TreeInv, NEW a \in Agents, SpawnInsert(a) \/ InterruptJoin(a), RestType'
  PROVE  TreeInv'
<1>1. CoreType /\ TasksOK
  BY Zenon DEF TreeInv
<1>2. /\ pc[a] \in {"spawning", "join"} /\ WithPool(a)
      /\ pools' = [pools EXCEPT ![a] = @ \cup held[a]]
      /\ held' = [held EXCEPT ![a] = {}]
      /\ Goto(a, "loop") \/ Goto(a, "returning")
      /\ UNCHANGED <<counter, slots, parent, frames, aborting, emitted, completions>>
  BY Zenon DEF SpawnInsert, InterruptJoin, identity, events
<1>3. pooled' = [pooled EXCEPT ![a] = pooled'[a]] /\ pooled'[a] = TRUE
  BY <1>1, <1>2, WithPoolFacts, Zenon
<1>4. /\ pc'[a] \in {"loop", "returning"} /\ pc' = [pc EXCEPT ![a] = pc'[a]]
      /\ pools'[a] = pools[a] \cup held[a] /\ pools' = [pools EXCEPT ![a] = pools'[a]]
      /\ held'[a] = {} /\ held' = [held EXCEPT ![a] = held'[a]]
  BY <1>1, <1>2, Zenon DEF CoreType, Goto
<1>5. Hands(a)
  BY <1>2, <1>3, <1>4, Zenon DEF Hands
<1> QED
  BY <1>5, HandsStep, Zenon

\* AwaitAgent takes a handle out of the pool.
LEMMA TakeStep ==
  ASSUME TreeInv, NEW a \in Agents, NEW c \in Children, c \in pools[a], RestType',
         pc[a] \in {"tool", "poll", "any"}, Goto(a, "join"),
         pools' = [pools EXCEPT ![a] = @ \ {c}], held' = [held EXCEPT ![a] = {c}],
         UNCHANGED <<counter, slots, parent, pooled, frames, aborting, emitted, completions>>
  PROVE  TreeInv'
<1>1. CoreType /\ TasksOK
  BY Zenon DEF TreeInv
<1>2. held[a] = {} /\ (~pooled[a] => pools[a] = {})
  BY <1>1, Zenon DEF TasksOK
<1>3. /\ pc'[a] = "join" /\ pc' = [pc EXCEPT ![a] = pc'[a]]
      /\ pools'[a] = pools[a] \ {c} /\ pools' = [pools EXCEPT ![a] = pools'[a]]
      /\ held'[a] = {c} /\ held' = [held EXCEPT ![a] = held'[a]]
      /\ pooled' = [pooled EXCEPT ![a] = pooled'[a]] /\ pooled'[a] \in BOOLEAN
  BY <1>1, Zenon DEF CoreType, Goto
<1>4. Hands(a)
  BY <1>2, <1>3 DEF Hands
<1> QED
  BY <1>4, HandsStep, Zenon

\* AwaitAgent collects a child whose task is over, and its permit returns.
LEMMA JoinStep ==
  ASSUME TreeInv, NEW a \in Agents, Join(a), RestType'
  PROVE  TreeInv'
<1>1. /\ pc[a] = "join" /\ slots' = slots + 1
      /\ held' = [held EXCEPT ![a] = {}] /\ Goto(a, "loop")
      /\ \A c \in held[a] : pc[c] = "finished"
      /\ UNCHANGED <<counter, parent, pools, pooled, frames, aborting, emitted, completions>>
  BY Zenon DEF Join, identity, registry, events
<1>2. CoreType /\ TasksOK /\ FamilyOK /\ TopChildrenOK /\ Top \in Agents
  BY Zenon DEF TreeInv, Agents
<1>3. PICK c \in Children : held[a] = {c}
  BY <1>1, <1>2, Zenon DEF TasksOK
<1>4. /\ pc' = [pc EXCEPT ![a] = "loop"] /\ pc'[a] = "loop" /\ held'[a] = {}
      /\ \A b \in Agents : b # a => pc'[b] = pc[b] /\ held'[b] = held[b]
      /\ frames[a] = <<>>
  BY <1>1, <1>2, Zenon DEF Goto, CoreType, TasksOK
<1>5. LocalHandles(a) = held[a] /\ LocalHandles(a)' = {}
  <2>1. DOMAIN frames[a] = {} /\ DOMAIN frames'[a] = {}
    BY <1>1, <1>4
  <2> QED
    BY <1>4, <2>1, LocalHandle, Zenon
<1>6. \A b \in Agents : b # a => LocalHandles(b)' = LocalHandles(b)
  BY <1>1, <1>4, SameLocals, Zenon
<1>7. Drops(a, {c})
  <2>1. Cardinality({c}) = 1
    BY FS_Singleton, Zenon
  <2> QED
    BY <1>1, <1>3, <1>5, <1>6, <2>1, Zenon DEF Drops
<1>8. Apart' /\ SlotsOK' /\ slots' \in Nat
  BY <1>7, DropsKeep, Zenon
<1>9. CoreType'
  BY <1>1, <1>2, <1>4, <1>8, Zenon DEF CoreType, PCs
<1>10. TasksOK'
  BY <1>1, <1>2, <1>4 DEF TasksOK, Agents
<1>11. \A b \in Agents : FramesOK(b)'
  BY <1>1, Zenon DEF TreeInv, FramesOK
<1>12. FamilyOK'
  BY <1>1, <1>2, <1>4, <1>5, <1>6 DEF FamilyOK
<1>13. TopChildrenOK'
  <2>1. a = Top => pc[c] = "finished" /\ emitted[c]
    BY <1>1, <1>2, <1>3, Zenon DEF FamilyOK, TopChildrenOK
  <2>2. \A d \in Children : d \in pools[Top] \cup LocalHandles(Top) =>
          d \in pools'[Top] \cup LocalHandles(Top)' \/ (a = Top /\ d = c)
    BY <1>1, <1>2, <1>3, <1>5, <1>6, Zenon
  <2>3. ASSUME NEW d \in Children
        PROVE  /\ pc'[d] = "exit" <=> pc[d] = "exit"
               /\ pc'[d] = "finished" <=> pc[d] = "finished"
               /\ pc'[d] = "none" <=> pc[d] = "none"
    BY <1>1, <1>4, Zenon DEF Agents
  <2>4. pc'[Top] \in {"idle", "cancel"} => pools'[Top] = {}
    BY <1>1, <1>2, <1>4, Zenon DEF TopChildrenOK
  <2>5. pools'[Top] \cup held'[Top] \subseteq pools[Top] \cup held[Top]
    BY <1>1, <1>2, <1>4, Zenon
  <2> QED
    BY <1>1, <1>2, <2>1, <2>2, <2>3, <2>4, <2>5 DEF TopChildrenOK
<1> QED
  BY <1>8, <1>9, <1>10, <1>11, <1>12, <1>13, Zenon DEF TreeInv

\* run_agent_tool takes a permit for a child with a number of its own.
LEMMA SpawnStep ==
  ASSUME TreeInv, NEW a \in Agents, SpawnTask(a), RestType'
  PROVE  TreeInv'
<1> DEFINE child == counter
<1>1. /\ pc[a] = "tool" /\ slots > 0 /\ counter <= MaxAgents
      /\ slots' = slots - 1 /\ counter' = counter + 1
      /\ parent' = [parent EXCEPT ![child] = a]
      /\ held' = [held EXCEPT ![a] = {child}]
      /\ pc' = [pc EXCEPT ![a] = "spawning", ![child] = "loop"]
      /\ WithPool(a)
      /\ UNCHANGED <<pools, frames, aborting, emitted, completions>>
  BY Zenon DEF SpawnTask, events
<1>2. /\ CoreType /\ TasksOK /\ FamilyOK /\ TopChildrenOK /\ Apart /\ SlotsOK
      /\ Top \in Agents /\ a \in Agents
  BY Zenon DEF TreeInv, Agents
<1>3. /\ child \in Children /\ child \in Agents /\ pc[child] = "none" /\ child # a
      /\ counter \in Nat /\ slots \in Nat
  <2>1. child \in Children
    BY <1>1, <1>2, TreeAssumption DEF CoreType, Children
  <2> QED
    BY <1>1, <1>2, <2>1, TreeAssumption DEF TasksOK, Agents, CoreType, Children
<1>4. Children \subseteq Nat
  BY DEF Children
<1> HIDE DEF child
<1>5. /\ pc'[a] = "spawning" /\ pc'[child] = "loop"
      /\ \A b \in Agents : b # a /\ b # child => pc'[b] = pc[b]
      /\ held'[a] = {child} /\ held[a] = {} /\ held[child] = {} /\ frames[a] = <<>>
      /\ frames[child] = <<>>
      /\ \A b \in Agents : b # a => held'[b] = held[b]
      /\ parent'[child] = a /\ \A b \in Agents : b # child => parent'[b] = parent[b]
  BY <1>1, <1>2, <1>3, Zenon DEF CoreType, TasksOK
<1>6. pooled' = [pooled EXCEPT ![a] = pooled'[a]] /\ pooled'[a] = TRUE
  BY <1>1, <1>2, WithPoolFacts, Zenon
<1>7. LocalHandles(a) = {} /\ LocalHandles(a)' = {child}
  <2>1. DOMAIN frames[a] = {} /\ DOMAIN frames'[a] = {}
    BY <1>1, <1>5
  <2> QED
    BY <1>5, <2>1, LocalHandle, Zenon
<1>8. \A b \in Agents : b # a => LocalHandles(b)' = LocalHandles(b)
  BY <1>1, <1>5, SameLocals, Zenon
<1>9. Handles' = Handles \cup {child} /\ child \notin Handles
  <2>1. child \notin Handles
    BY <1>2, <1>3 DEF SlotsOK, child
  <2>2. Handles' = Handles \cup {child}
    BY <1>1, <1>7, <1>8, AnyHandle
  <2> QED
    BY <2>1, <2>2, Zenon
<1>10. Apart'
  <2>1. \A b \in Agents : child \notin pools[b] /\ child \notin LocalHandles(b)
    BY <1>9, AnyHandle, Zenon
  <2> QED
    BY <1>1, <1>2, <1>7, <1>8, <2>1 DEF Apart
<1>11. SlotsOK' /\ slots' \in Nat
  <2>1. Handles \in SUBSET Children /\ IsFiniteSet(Handles) /\ Cardinality(Handles) \in Nat
    BY <1>2, HandlesFinite, Zenon
  <2>2. Cardinality(Handles') = Cardinality(Handles) + 1
    BY <1>9, <2>1, FS_AddElement, Zenon
  <2>3. slots' \in Nat /\ slots' + Cardinality(Handles') = Slots
    BY <1>1, <1>2, <1>3, <2>1, <2>2, TreeAssumption DEF SlotsOK
  <2>4. \A c \in Handles' : c < counter'
    <3>1. ASSUME NEW c \in Handles PROVE c < counter'
      BY <1>1, <1>2, <1>3, <1>4, <2>1, <3>1 DEF SlotsOK
    <3>2. child < counter'
      BY <1>1, <1>3 DEF child
    <3> QED
      BY <1>9, <3>1, <3>2, Zenon
  <2> QED
    BY <2>3, <2>4, Zenon DEF SlotsOK
<1>12. CoreType'
  <2>1. counter' \in 1..(MaxAgents + 1)
    BY <1>1, <1>2, <1>3, TreeAssumption DEF CoreType
  <2>2. pc' \in [Agents -> PCs]
    BY <1>1, <1>2, <1>3, Zenon DEF CoreType, PCs
  <2>3. parent' \in [Agents -> Agents] /\ held' \in [Agents -> SUBSET Children]
    BY <1>1, <1>2, <1>3, Zenon DEF CoreType
  <2>4. pooled' \in [Agents -> BOOLEAN]
    BY <1>2, <1>6, Zenon DEF CoreType
  <2> QED
    BY <1>1, <1>2, <1>11, <2>1, <2>2, <2>3, <2>4, Zenon DEF CoreType
<1>13. TasksOK'
  <2>1. ASSUME NEW b \in Agents
        PROVE  /\ held'[b] # {} => pc'[b] \in {"spawning", "join"}
               /\ pc'[b] \in {"spawning", "join"} => \E c \in Children : held'[b] = {c}
               /\ frames'[b] = <<>> <=> pc'[b] # "cancel"
    <3>1. CASE b = a
      BY <1>1, <1>3, <1>5, <3>1, Zenon
    <3>2. CASE b = child
      BY <1>1, <1>3, <1>5, <3>2, Zenon
    <3>3. CASE b # a /\ b # child
      <4>1. pc'[b] = pc[b] /\ held'[b] = held[b] /\ frames'[b] = frames[b]
        BY <1>1, <1>5, <3>3, Zenon
      <4> QED
        BY <1>2, <4>1, Zenon DEF TasksOK
    <3> QED
      BY <3>1, <3>2, <3>3, Zenon
  <2>2. \A b \in Agents : ~pooled'[b] => pools'[b] = {}
    BY <1>1, <1>2, <1>6, Zenon DEF TasksOK, CoreType
  <2>3. ASSUME NEW c \in Children PROVE pc'[c] = "none" <=> c >= counter'
    <3>1. c \in Nat /\ c \in Agents
      BY <1>4, Zenon DEF Agents
    <3>2. CASE c = child
      BY <1>1, <1>3, <1>5, <3>2 DEF child
    <3>3. CASE c # child
      <4>1. c >= counter' <=> c >= counter
        BY <1>1, <1>3, <3>1, <3>3 DEF child
      <4>2. pc'[c] = "none" <=> pc[c] = "none"
        BY <1>1, <1>5, <3>1, <3>3, Zenon
      <4> QED
        BY <1>2, <4>1, <4>2, Zenon DEF TasksOK
    <3> QED
      BY <3>2, <3>3, Zenon
  <2>4. pc'[Top] \notin {"none", "report", "exit", "finished"}
    BY <1>2, <1>5, Zenon DEF TasksOK
  <2>5. \A c \in aborting : c < counter'
    BY <1>1, <1>2, <1>3, <1>4 DEF TasksOK, CoreType
  <2> QED
    BY <1>1, <2>1, <2>2, <2>3, <2>4, <2>5, Zenon DEF TasksOK
<1>14. \A b \in Agents : FramesOK(b)'
  BY <1>1, Zenon DEF TreeInv, FramesOK
<1>15. \A b \in Agents : \A c \in pools[b] \cup LocalHandles(b) : parent'[c] = parent[c]
  <2>1. Handles \in SUBSET Children
    BY <1>2, HandlesFinite, Zenon
  <2> QED
    BY <1>5, <1>9, <2>1, AnyHandle DEF Agents
<1>16. FamilyOK'
  <2>1. \A b \in Agents : \A c \in held[b] : c \in LocalHandles(b)
    BY LocalHandle, Zenon
  <2>2. ASSUME NEW b \in Agents, NEW c \in pools'[b] \cup held'[b] PROVE parent'[c] = b
    BY <1>1, <1>2, <1>5, <1>15, <2>1, <2>2 DEF FamilyOK
  <2>3. ASSUME NEW b \in Agents, NEW c \in LocalHandles(b)', parent'[c] = Top PROVE b = Top
    BY <1>1, <1>2, <1>5, <1>7, <1>8, <1>15, <2>3 DEF FamilyOK
  <2> QED
    BY <2>2, <2>3, Zenon DEF FamilyOK
<1>17. TopChildrenOK'
  <2>1. child \notin aborting
    BY <1>2, <1>3 DEF TasksOK, child
  <2>2. ASSUME NEW c \in Children, parent'[c] = Top, pc'[c] # "none"
        PROVE  c \in pools'[Top] \cup LocalHandles(Top)' \/ (pc'[c] = "finished" /\ emitted'[c])
    <3>1. CASE c = child
      BY <1>5, <1>7, <2>2, <3>1, Zenon
    <3>2. CASE c # child
      <4>1. c \in Agents /\ parent[c] = Top /\ pc[c] # "none"
        BY <1>1, <1>5, <2>2, <3>2, Zenon DEF Agents
      <4>2. c \in pools[Top] \cup LocalHandles(Top) \/ (pc[c] = "finished" /\ emitted[c])
        BY <1>2, <4>1, Zenon DEF TopChildrenOK
      <4>3. LocalHandles(Top) \subseteq LocalHandles(Top)'
        BY <1>2, <1>7, <1>8, Zenon
      <4> QED
        BY <1>1, <1>5, <3>2, <4>1, <4>2, <4>3, Zenon
    <3> QED
      BY <3>1, <3>2, Zenon
  <2>3. ASSUME NEW c \in aborting, parent'[c] = Top PROVE c \notin pools'[Top] \cup held'[Top]
    <3>1. c \in Agents /\ c # child /\ parent[c] = Top
      BY <1>2, <1>5, <2>1, <2>3, Zenon DEF CoreType, Agents
    <3> QED
      BY <1>1, <1>2, <1>5, <2>3, <3>1 DEF TopChildrenOK
  <2>4. ASSUME NEW c \in Children
        PROVE  (pc'[c] = "exit" <=> pc[c] = "exit") /\ (pc'[c] = "finished" <=> pc[c] = "finished")
    BY <1>1, <1>3, <1>5, Zenon DEF Agents
  <2>5. pc'[Top] \in {"idle", "cancel"} => pools'[Top] = {}
    BY <1>1, <1>2, <1>5, Zenon DEF TopChildrenOK
  <2> QED
    BY <1>1, <1>2, <2>2, <2>3, <2>4, <2>5, Zenon DEF TopChildrenOK
<1> QED
  BY <1>10, <1>11, <1>12, <1>13, <1>14, <1>16, <1>17, Zenon DEF TreeInv

-----------------------------------------------------------------------------
(* The recursion of cancel_uncollected_children.                           *)

\* Its last frame changes, and the handles in it are among those before.
LEMMA NeatTop ==
  ASSUME NEW s \in Seq(Frame), Neat(s), s # <<>>, NEW f \in Frame, NeatFrame(f),
         FrameHandles(f) \subseteq FrameHandles(s[Len(s)])
  PROVE  /\ [s EXCEPT ![Len(s)] = f] \in Seq(Frame)
         /\ [s EXCEPT ![Len(s)] = f] # <<>>
         /\ Len([s EXCEPT ![Len(s)] = f]) = Len(s)
         /\ [s EXCEPT ![Len(s)] = f][Len(s)] = f
         /\ Neat([s EXCEPT ![Len(s)] = f])
         /\ InFrames([s EXCEPT ![Len(s)] = f])
              = (InFrames(s) \ FrameHandles(s[Len(s)])) \cup FrameHandles(f)
<1> DEFINE r == [s EXCEPT ![Len(s)] = f]
<1>1. Len(s) \in Nat /\ Len(s) # 0 /\ Len(s) \in 1..Len(s)
  BY EmptySeq
<1>2. /\ r \in Seq(Frame) /\ Len(r) = Len(s)
      /\ \A j \in 1..Len(s) : r[j] = IF j = Len(s) THEN f ELSE s[j]
  BY <1>1, ExceptSeq
<1>3. r # <<>>
  BY <1>1, <1>2, EmptySeq, Zenon
<1> HIDE DEF r
<1>4. \A i \in 1..Len(r) : NeatFrame(r[i])
  BY <1>2, Zenon DEF Neat
<1>5. ASSUME NEW i \in 1..Len(r), NEW j \in 1..Len(r), i # j
      PROVE  FrameHandles(r[i]) \cap FrameHandles(r[j]) = {}
  BY <1>1, <1>2, <1>5 DEF Neat
<1>6. \A h : h \in InFrames(r) <=> \E i \in 1..Len(s) : h \in FrameHandles(r[i])
  BY <1>2, Zenon DEF InFrames
<1>7. \A h : h \in InFrames(s) <=> \E i \in 1..Len(s) : h \in FrameHandles(s[i])
  BY Zenon DEF InFrames
<1>8. ASSUME NEW h, h \in InFrames(r)
      PROVE  h \in (InFrames(s) \ FrameHandles(s[Len(s)])) \cup FrameHandles(f)
  <2>1. PICK i \in 1..Len(s) : h \in FrameHandles(r[i])
    BY <1>6, <1>8, Zenon
  <2>2. CASE i = Len(s)
    BY <1>2, <2>1, <2>2, Zenon
  <2>3. CASE i # Len(s)
    BY <1>1, <1>2, <1>7, <2>1, <2>3, Zenon DEF Neat
  <2> QED
    BY <2>2, <2>3, Zenon
<1>9. ASSUME NEW h, h \in (InFrames(s) \ FrameHandles(s[Len(s)])) \cup FrameHandles(f)
      PROVE  h \in InFrames(r)
  <2>1. CASE h \in FrameHandles(f)
    BY <1>1, <1>2, <1>6, <2>1, Zenon
  <2>2. CASE h \in InFrames(s) \ FrameHandles(s[Len(s)])
    <3>1. PICK i \in 1..Len(s) : h \in FrameHandles(s[i])
      BY <1>7, <2>2, Zenon
    <3> QED
      BY <1>2, <1>6, <2>2, <3>1, Zenon
  <2> QED
    BY <1>9, <2>1, <2>2, Zenon
<1> QED
  BY <1>1, <1>2, <1>3, <1>4, <1>5, <1>8, <1>9, Zenon DEF Neat, r

\* It goes one call deeper, with handles of a pool.
LEMMA NeatAppend ==
  ASSUME NEW s \in Seq(Frame), Neat(s), NEW f \in Frame, NeatFrame(f),
         FrameHandles(f) \cap InFrames(s) = {}
  PROVE  /\ Append(s, f) \in Seq(Frame) /\ Append(s, f) # <<>>
         /\ Neat(Append(s, f))
         /\ InFrames(Append(s, f)) = InFrames(s) \cup FrameHandles(f)
<1> DEFINE r == Append(s, f)
<1>1. /\ r \in Seq(Frame) /\ r # <<>> /\ Len(r) = Len(s) + 1 /\ Len(s) \in Nat
      /\ \A i \in 1..Len(s) : r[i] = s[i]
      /\ r[Len(s) + 1] = f
  BY AppendProperties, LenProperties
<1> HIDE DEF r
<1>2. \A i \in 1..Len(r) : i \in 1..Len(s) \/ i = Len(s) + 1
  BY <1>1
<1>3. \A h : h \in InFrames(s) <=> \E i \in 1..Len(s) : h \in FrameHandles(s[i])
  BY Zenon DEF InFrames
<1>4. \A i \in 1..Len(r) : NeatFrame(r[i])
  BY <1>1, <1>2, Zenon DEF Neat
<1>5. ASSUME NEW i \in 1..Len(r), NEW j \in 1..Len(r), i # j
      PROVE  FrameHandles(r[i]) \cap FrameHandles(r[j]) = {}
  <2>1. CASE i \in 1..Len(s) /\ j \in 1..Len(s)
    BY <1>1, <1>5, <2>1, Zenon DEF Neat
  <2>2. CASE i = Len(s) + 1
    <3>1. j \in 1..Len(s)
      BY <1>2, <1>5, <2>2, Zenon
    <3> QED
      BY <1>1, <1>3, <2>2, <3>1, Zenon
  <2>3. CASE j = Len(s) + 1
    <3>1. i \in 1..Len(s)
      BY <1>2, <1>5, <2>3, Zenon
    <3> QED
      BY <1>1, <1>3, <2>3, <3>1, Zenon
  <2> QED
    BY <1>2, <2>1, <2>2, <2>3, Zenon
<1>6. InFrames(r) = InFrames(s) \cup FrameHandles(f)
  <2>1. \A h : h \in InFrames(r) <=> \E i \in 1..Len(r) : h \in FrameHandles(r[i])
    BY Zenon DEF InFrames
  <2>2. 1..Len(s) \subseteq 1..Len(r) /\ Len(s) + 1 \in 1..Len(r)
    BY <1>1
  <2>3. ASSUME NEW h, h \in InFrames(r) PROVE h \in InFrames(s) \cup FrameHandles(f)
    BY <1>1, <1>2, <1>3, <2>1, <2>3, Zenon
  <2>4. ASSUME NEW h, h \in InFrames(s) \cup FrameHandles(f) PROVE h \in InFrames(r)
    BY <1>1, <1>3, <2>1, <2>2, <2>4, Zenon
  <2> QED
    BY <2>3, <2>4, Zenon
<1> QED
  BY <1>1, <1>4, <1>5, <1>6, Zenon DEF Neat, r

\* A call with nothing left returns.
LEMMA NeatFront ==
  ASSUME NEW s \in Seq(Frame), Neat(s), s # <<>>, FrameHandles(s[Len(s)]) = {}
  PROVE  /\ SubSeq(s, 1, Len(s) - 1) \in Seq(Frame)
         /\ SubSeq(s, 1, Len(s) - 1) = <<>> <=> Len(s) = 1
         /\ Neat(SubSeq(s, 1, Len(s) - 1))
         /\ InFrames(SubSeq(s, 1, Len(s) - 1)) = InFrames(s)
<1> DEFINE r == SubSeq(s, 1, Len(s) - 1)
<1>1. Len(s) \in Nat /\ Len(s) # 0 /\ Len(s) \in 1..Len(s) /\ Len(s) - 1 \in Nat
  BY EmptySeq
<1>2. \A i \in 1..Len(s) - 1 : s[i] \in Frame /\ i \in 1..Len(s)
  BY <1>1, ElementOfSeq
<1>3. /\ r \in Seq(Frame) /\ Len(r) = (IF 1 <= Len(s) - 1 THEN Len(s) - 1 - 1 + 1 ELSE 0)
      /\ \A i \in 1..Len(s) - 1 - 1 + 1 : r[i] = s[1 + i - 1]
  BY <1>1, <1>2, SubSeqProperties
<1> HIDE DEF r
<1>4. Len(r) = Len(s) - 1 /\ \A i \in 1..Len(r) : r[i] = s[i] /\ i \in 1..Len(s)
  <2>1. Len(r) = Len(s) - 1
    <3> DEFINE n == Len(s)
    <3>1. n \in Nat /\ n # 0
      BY <1>1, Zenon
    <3> HIDE DEF n
    <3>2. (IF 1 <= n - 1 THEN n - 1 - 1 + 1 ELSE 0) = n - 1
      BY <3>1
    <3> QED
      BY <1>3, <3>2 DEF n
  <2>2. ASSUME NEW i \in 1..Len(r) PROVE r[i] = s[i] /\ i \in 1..Len(s)
    <3>1. i \in 1..Len(s) - 1 - 1 + 1 /\ 1 + i - 1 = i /\ i \in 1..Len(s)
      BY <1>1, <2>1
    <3> QED
      BY <1>3, <3>1, Zenon
  <2> QED
    BY <2>1, <2>2, Zenon
<1>5. r = <<>> <=> Len(s) = 1
  <2>1. r # <<>> => Len(r) \in Nat \ {0}
    BY <1>3, EmptySeq, Zenon
  <2>2. r = <<>> => Len(r) = 0
    BY EmptySeq, Zenon
  <2> QED
    BY <1>1, <1>4, <2>1, <2>2
<1>6. Neat(r)
  BY <1>4, Zenon DEF Neat
<1>7. InFrames(r) = InFrames(s)
  <2>1. \A h : h \in InFrames(r) <=> \E i \in 1..Len(r) : h \in FrameHandles(r[i])
    BY Zenon DEF InFrames
  <2>2. \A h : h \in InFrames(s) <=> \E i \in 1..Len(s) : h \in FrameHandles(s[i])
    BY Zenon DEF InFrames
  <2>3. \A i \in 1..Len(s) : i \in 1..Len(r) \/ i = Len(s)
    BY <1>1, <1>4
  <2>4. \A h : h \in InFrames(r) => h \in InFrames(s)
    BY <1>4, <2>1, <2>2, Zenon
  <2>5. \A h : h \in InFrames(s) => h \in InFrames(r)
    BY <1>4, <2>1, <2>2, <2>3, Zenon
  <2> QED
    BY <2>4, <2>5, Zenon
<1> QED
  BY <1>3, <1>5, <1>6, <1>7, Zenon DEF r

-----------------------------------------------------------------------------
(* The steps of a task that cancels.                                       *)

\* The locals of a task: its hand and its recursion.
LEMMA Locals ==
  ASSUME NEW a \in Agents
  PROVE  /\ frames[a] \in Seq(Frame) => LocalHandles(a) = held[a] \cup InFrames(frames[a])
         /\ frames'[a] \in Seq(Frame) => LocalHandles(a)' = held'[a] \cup InFrames(frames'[a])
<1>1. ASSUME frames[a] \in Seq(Frame) PROVE LocalHandles(a) = held[a] \cup InFrames(frames[a])
  <2>1. DOMAIN frames[a] = 1..Len(frames[a])
    BY <1>1, LenProperties, Zenon
  <2>2. \A h : h \in InFrames(frames[a]) <=>
          \E i \in 1..Len(frames[a]) : h \in FrameHandles(frames[a][i])
    BY Zenon DEF InFrames
  <2> QED
    BY <2>1, <2>2, LocalHandle, Zenon
<1>2. ASSUME frames'[a] \in Seq(Frame)
      PROVE  LocalHandles(a)' = held'[a] \cup InFrames(frames'[a])
  <2>1. DOMAIN frames'[a] = 1..Len(frames'[a])
    BY <1>2, LenProperties, Zenon
  <2>2. \A h : h \in InFrames(frames'[a]) <=>
          \E i \in 1..Len(frames'[a]) : h \in FrameHandles(frames'[a][i])
    BY Zenon DEF InFrames
  <2> QED
    BY <2>1, <2>2, LocalHandle, Zenon
<1> QED
  BY <1>1, <1>2, Zenon

\* The recursion of t becomes s, with the pool of x in it or not, and the tasks
\* A are told to abort.
Walks(t, x, s, A) ==
  /\ pc[t] \in {"returning", "cancel"}
  /\ pc' = [pc EXCEPT ![t] = IF s # <<>> THEN "cancel" ELSE AfterDrive(t)]
  /\ frames' = [frames EXCEPT ![t] = s] /\ s \in Seq(Frame) /\ Neat(s)
  /\ pools' = [pools EXCEPT ![x] = pools'[x]]
  /\ pooled' = [pooled EXCEPT ![x] = pooled'[x]] /\ pooled'[x] \in BOOLEAN
  /\ \/ pools'[x] = {} /\ InFrames(s) = InFrames(frames[t]) \cup pools[x]
     \/ /\ pools'[x] = pools[x] /\ pooled'[x] = pooled[x]
        /\ InFrames(s) = InFrames(frames[t])
  /\ x = t \/ x # Top
  /\ t = Top => pools'[Top] = {}
  /\ aborting' = aborting \cup A /\ A \subseteq InFrames(frames[t])
  /\ UNCHANGED <<counter, slots, parent, held, emitted, completions>>

\* A step of the depth-first walk over the pools (shutdown of the children) keeps the invariant.
LEMMA WalksStep ==
  ASSUME TreeInv, NEW t \in Agents, NEW x \in Agents, NEW s, NEW A, Walks(t, x, s, A),
         RestType'
  PROVE  TreeInv'
<1>1. /\ CoreType /\ TasksOK /\ FamilyOK /\ TopChildrenOK /\ Apart /\ SlotsOK /\ Top \in Agents
      /\ UNCHANGED <<counter, slots, parent, held, emitted, completions>>
      /\ aborting' = aborting \cup A /\ A \subseteq InFrames(frames[t])
      /\ pc[t] \in {"returning", "cancel"} /\ s \in Seq(Frame)
  BY Zenon DEF Walks, TreeInv, Agents
<1>2. /\ pc'[t] = IF s # <<>> THEN "cancel" ELSE AfterDrive(t)
      /\ frames'[t] = s /\ \A b \in Agents : b # t => pc'[b] = pc[b] /\ frames'[b] = frames[b]
      /\ \A b \in Agents : b # x => pools'[b] = pools[b] /\ pooled'[b] = pooled[b]
  BY <1>1, Zenon DEF Walks, CoreType
<1>3. /\ pc'[t] \in {"cancel", "idle", "report"} /\ (pc'[t] = "cancel" <=> s # <<>>)
      /\ t = Top => pc'[t] # "report"
  BY <1>2, Zenon DEF AfterDrive
<1>4. /\ LocalHandles(t) = held[t] \cup InFrames(frames[t])
      /\ LocalHandles(t)' = held[t] \cup InFrames(s) /\ held[t] = {}
  BY <1>1, <1>2, Locals, Zenon DEF CoreType, TasksOK
<1>5. \A b \in Agents : b # t => LocalHandles(b)' = LocalHandles(b)
  BY <1>1, <1>2, SameLocals, Zenon
<1>6. Moves(t, x)
  BY <1>1, <1>2, <1>4, <1>5, Zenon DEF Moves, Walks, Apart
<1>7. A \subseteq LocalHandles(t) /\ A \in SUBSET Children
  BY <1>1, <1>4, HandlesFinite, Zenon
<1>8. CoreType'
  <2>1. pc' \in [Agents -> PCs]
    BY <1>1, Zenon DEF Walks, CoreType, PCs, AfterDrive
  <2>2. frames' \in [Agents -> Seq(Frame)]
    BY <1>1, Zenon DEF Walks, CoreType
  <2>3. pools' \in [Agents -> SUBSET Children]
    BY <1>1, Zenon DEF Walks, CoreType
  <2>4. pooled' \in [Agents -> BOOLEAN]
    BY <1>1, Zenon DEF Walks, CoreType
  <2> QED
    BY <1>1, <1>7, <2>1, <2>2, <2>3, <2>4, Zenon DEF CoreType
<1>9. \A b \in Agents : FramesOK(b)'
  BY <1>2, Zenon DEF Walks, TreeInv, FramesOK
<1>10. TasksOK'
  <2>1. ASSUME NEW b \in Agents
        PROVE  /\ held'[b] # {} => pc'[b] \in {"spawning", "join"}
               /\ pc'[b] \in {"spawning", "join"} => \E c \in Children : held'[b] = {c}
               /\ frames'[b] = <<>> <=> pc'[b] # "cancel"
    <3>1. CASE b = t
      BY <1>1, <1>2, <1>3, <1>4, <3>1, Zenon
    <3>2. CASE b # t
      <4>1. pc'[b] = pc[b] /\ held'[b] = held[b] /\ frames'[b] = frames[b]
        BY <1>1, <1>2, <3>2, Zenon
      <4> QED
        BY <1>1, <4>1, Zenon DEF TasksOK
    <3> QED
      BY <3>1, <3>2, Zenon
  <2>2. ASSUME NEW b \in Agents, ~pooled'[b] PROVE pools'[b] = {}
    BY <1>1, <1>2, <2>2, Zenon DEF Walks, TasksOK
  <2>3. \A c \in Children : pc'[c] = "none" <=> pc[c] = "none"
    BY <1>1, <1>2, <1>3, Zenon DEF Agents
  <2>4. \A c \in aborting' : c < counter
    <3>1. A \subseteq Handles
      BY <1>7, AnyHandle, Zenon
    <3> QED
      BY <1>1, <3>1, Zenon DEF TasksOK, SlotsOK
  <2>5. pc'[Top] \notin {"none", "report", "exit", "finished"}
    BY <1>1, <1>2, <1>3, Zenon DEF TasksOK
  <2> QED
    BY <1>1, <2>1, <2>2, <2>3, <2>4, <2>5, Zenon DEF TasksOK
<1>11. FamilyOK'
  <2>1. ASSUME NEW b \in Agents, NEW c \in pools'[b] \cup held'[b] PROVE parent'[c] = b
    <3>1. pools'[b] \subseteq pools[b]
      BY <1>2, Zenon DEF Walks
    <3> QED
      BY <1>1, <2>1, <3>1, Zenon DEF FamilyOK
  <2>2. ASSUME NEW b \in Agents, NEW c \in LocalHandles(b)', parent'[c] = Top PROVE b = Top
    <3>1. CASE b = t
      <4>1. c \in LocalHandles(t) \/ c \in pools[x]
        BY <1>4, <2>2, <3>1, Zenon DEF Walks
      <4> QED
        BY <1>1, <2>2, <3>1, <4>1, Zenon DEF Walks, FamilyOK
    <3>2. CASE b # t
      BY <1>1, <1>5, <2>2, <3>2, Zenon DEF FamilyOK
    <3> QED
      BY <3>1, <3>2, Zenon
  <2> QED
    BY <2>1, <2>2, Zenon DEF FamilyOK
<1>12. TopChildrenOK'
  <2>1. pools[Top] \cup LocalHandles(Top) \subseteq pools'[Top] \cup LocalHandles(Top)'
    <3>1. CASE t = Top
      BY <1>1, <1>2, <1>4, <3>1, Zenon DEF Walks
    <3>2. CASE t # Top
      BY <1>1, <1>2, <1>5, <3>2, Zenon DEF Walks
    <3> QED
      BY <3>1, <3>2, Zenon
  <2>2. pc'[Top] \in {"idle", "cancel"} => pools'[Top] = {}
    <3>1. CASE t = Top
      BY <3>1, Zenon DEF Walks
    <3>2. CASE t # Top
      BY <1>1, <1>2, <3>2, Zenon DEF Walks, TopChildrenOK
    <3> QED
      BY <3>1, <3>2, Zenon
  <2>3. ASSUME NEW c \in aborting', parent'[c] = Top PROVE c \notin pools'[Top] \cup held'[Top]
    <3>1. pools'[Top] \subseteq pools[Top]
      BY <1>1, <1>2, Zenon DEF Walks
    <3>2. CASE c \in aborting
      BY <1>1, <2>3, <3>1, <3>2, Zenon DEF TopChildrenOK
    <3>3. CASE c \in A
      <4>1. c \in LocalHandles(t) /\ t = Top
        BY <1>1, <1>7, <2>3, <3>3, Zenon DEF FamilyOK
      <4> QED
        BY <1>1, <1>4, <3>1, <4>1, Zenon DEF Apart
    <3> QED
      BY <1>1, <2>3, <3>2, <3>3, Zenon
  <2>4. ASSUME NEW c \in Children
        PROVE  /\ pc'[c] = "exit" <=> pc[c] = "exit"
               /\ pc'[c] = "finished" <=> pc[c] = "finished"
               /\ pc'[c] = "none" <=> pc[c] = "none"
    BY <1>1, <1>2, <1>3, Zenon DEF Agents
  <2> QED
    BY <1>1, <2>1, <2>2, <2>3, <2>4, Zenon DEF TopChildrenOK
<1> QED
  BY <1>6, <1>8, <1>9, <1>10, <1>11, <1>12, MovesKeep, Zenon DEF TreeInv

\* The pool taken out of the registry makes a frame.
LEMMA NewFrameFacts ==
  ASSUME CoreType, NEW a \in Agents
  PROVE  NewFrame(a) \in Frame /\ NeatFrame(NewFrame(a)) /\ FrameHandles(NewFrame(a)) = pools[a]
<1>1. pools[a] \in SUBSET Children /\ Top \notin pools[a]
  BY DEF CoreType, Children, Top
<1> QED
  BY <1>1, Zenon DEF NewFrame, Frame, NeatFrame, FrameHandles, Agents

\* The pool is out of the registry.
LEMMA RemovePoolFacts ==
  ASSUME CoreType, NEW a \in Agents, RemovePool(a)
  PROVE  /\ pools' = [pools EXCEPT ![a] = pools'[a]] /\ pools'[a] = {}
         /\ pooled' = [pooled EXCEPT ![a] = pooled'[a]] /\ pooled'[a] = FALSE
BY Zenon DEF CoreType, RemovePool

\* drive starts to cancel what its turn left.
LEMMA CancelBeginStep ==
  ASSUME TreeInv, NEW t \in Agents, CancelBegin(t), RestType'
  PROVE  TreeInv'
<1>1. CoreType /\ TasksOK /\ pc[t] = "returning" /\ RemovePool(t)
  BY Zenon DEF TreeInv, CancelBegin
<1>2. frames[t] = <<>> /\ InFrames(frames[t]) = {} /\ Neat(<<>>) /\ <<>> \in Seq(Frame)
  <2>1. frames[t] = <<>> /\ <<>> \in Seq(Frame) /\ Len(<<>>) = 0
    BY <1>1, EmptySeq, Zenon DEF TasksOK
  <2>2. 1..0 = {}
    OBVIOUS
  <2> QED
    BY <2>1, <2>2, Zenon DEF InFrames, Neat
<1>3. /\ pools' = [pools EXCEPT ![t] = pools'[t]] /\ pools'[t] = {}
      /\ pooled' = [pooled EXCEPT ![t] = pooled'[t]] /\ pooled'[t] = FALSE
  BY <1>1, RemovePoolFacts, Zenon
<1>4. UNCHANGED <<counter, slots, parent, held, aborting, emitted, completions>>
  BY Zenon DEF CancelBegin, identity, events
<1>5. CASE pooled[t]
  <2> DEFINE s == Append(<<>>, NewFrame(t))
  <2>1. s = <<NewFrame(t)>>
    OBVIOUS
  <2>2. /\ s \in Seq(Frame) /\ s # <<>> /\ Neat(s)
        /\ InFrames(s) = InFrames(frames[t]) \cup pools[t]
    <3>1. NewFrame(t) \in Frame /\ NeatFrame(NewFrame(t)) /\ FrameHandles(NewFrame(t)) = pools[t]
      BY <1>1, NewFrameFacts, Zenon
    <3>2. FrameHandles(NewFrame(t)) \cap InFrames(<<>>) = {}
      BY <1>2, Zenon
    <3> QED
      BY <1>2, <3>1, <3>2, NeatAppend, Zenon
  <2>3. frames' = [frames EXCEPT ![t] = s] /\ Goto(t, "cancel")
    BY <1>5, <2>1, Zenon DEF CancelBegin
  <2> HIDE DEF s
  <2>4. Walks(t, t, s, {})
    BY <1>1, <1>3, <1>4, <2>2, <2>3, Zenon DEF Walks, Goto
  <2> QED
    BY <2>4, WalksStep, Zenon
<1>6. CASE ~pooled[t]
  <2>1. frames' = frames /\ Goto(t, AfterDrive(t)) /\ pools[t] = {}
    BY <1>1, <1>6, Zenon DEF CancelBegin, TasksOK
  <2>2. frames' = [frames EXCEPT ![t] = <<>>]
    BY <1>1, <1>2, <2>1, Zenon DEF CoreType
  <2>3. Walks(t, t, <<>>, {})
    BY <1>1, <1>2, <1>3, <1>4, <2>1, <2>2, Zenon DEF Walks, Goto
  <2> QED
    BY <2>3, WalksStep, Zenon
<1> QED
  BY <1>5, <1>6, Zenon

\* What a cancelling task starts from.
LEMMA CancelFacts ==
  ASSUME TreeInv, NEW t \in Agents, pc[t] = "cancel"
  PROVE  /\ frames \in [Agents -> Seq(Frame)] /\ frames[t] \in Seq(Frame) /\ frames[t] # <<>>
         /\ Neat(frames[t]) /\ Len(frames[t]) \in 1..Len(frames[t])
         /\ TopFrame(t) = frames[t][Len(frames[t])]
         /\ TopFrame(t) \in Frame /\ NeatFrame(TopFrame(t))
         /\ FrameHandles(TopFrame(t)) \subseteq InFrames(frames[t])
         /\ t = Top => pools[Top] = {}
         /\ pools = [pools EXCEPT ![t] = pools[t]] /\ pooled = [pooled EXCEPT ![t] = pooled[t]]
         /\ pooled[t] \in BOOLEAN /\ pc = [pc EXCEPT ![t] = "cancel"]
<1>1. CoreType /\ TasksOK /\ FramesOK(t) /\ TopChildrenOK
  BY Zenon DEF TreeInv
<1>2. /\ frames \in [Agents -> Seq(Frame)] /\ frames[t] \in Seq(Frame) /\ frames[t] # <<>>
      /\ Neat(frames[t])
  BY <1>1, Zenon DEF CoreType, TasksOK, FramesOK
<1>3. Len(frames[t]) \in 1..Len(frames[t])
  <2>1. Len(frames[t]) \in Nat \ {0}
    BY <1>2, EmptySeq, Zenon
  <2> QED
    BY <2>1
<1>4. TopFrame(t) \in Frame
  BY <1>2, <1>3, ElementOfSeq, Zenon DEF TopFrame
<1>5. NeatFrame(TopFrame(t)) /\ FrameHandles(TopFrame(t)) \subseteq InFrames(frames[t])
  BY <1>2, <1>3, Zenon DEF TopFrame, Neat, InFrames
<1>6. /\ pools = [pools EXCEPT ![t] = pools[t]] /\ pooled = [pooled EXCEPT ![t] = pooled[t]]
      /\ pooled[t] \in BOOLEAN /\ pc = [pc EXCEPT ![t] = "cancel"]
  BY <1>1, Zenon DEF CoreType
<1>7. t = Top => pools[Top] = {}
  BY <1>1, Zenon DEF TopChildrenOK
<1> QED
  BY <1>2, <1>3, <1>4, <1>5, <1>6, <1>7, Zenon DEF TopFrame

\* The last frame becomes f.
LEMMA SetTop ==
  ASSUME TreeInv, NEW t \in Agents, pc[t] = "cancel", NEW f \in Frame, NeatFrame(f),
         FrameHandles(f) \subseteq FrameHandles(TopFrame(t))
  PROVE  \E s \in Seq(Frame) :
           /\ SetTopFrame(t, f) = [frames EXCEPT ![t] = s] /\ s # <<>> /\ Neat(s)
           /\ InFrames(s)
                = (InFrames(frames[t]) \ FrameHandles(TopFrame(t))) \cup FrameHandles(f)
<1> DEFINE s == [frames[t] EXCEPT ![Len(frames[t])] = f]
<1>1. /\ frames \in [Agents -> Seq(Frame)] /\ frames[t] \in Seq(Frame) /\ frames[t] # <<>>
      /\ Neat(frames[t]) /\ TopFrame(t) = frames[t][Len(frames[t])]
  BY CancelFacts, Zenon
<1>2. FrameHandles(f) \subseteq FrameHandles(frames[t][Len(frames[t])])
  BY <1>1, Zenon
<1>3. /\ s \in Seq(Frame) /\ s # <<>> /\ Neat(s)
      /\ InFrames(s)
           = (InFrames(frames[t]) \ FrameHandles(frames[t][Len(frames[t])])) \cup FrameHandles(f)
  BY <1>1, <1>2, NeatTop, Zenon
<1>4. SetTopFrame(t, f) = [frames EXCEPT ![t] = s]
  BY <1>1, Zenon DEF SetTopFrame
<1> QED
  BY <1>1, <1>3, <1>4, Zenon

\* The next handle: its task is told to abort.
LEMMA CancelPickStep ==
  ASSUME TreeInv, NEW t \in Agents, CancelPick(t), RestType'
  PROVE  TreeInv'
<1>1. /\ pc[t] = "cancel" /\ TopFrame(t).phase = "pick"
      /\ UNCHANGED <<counter, slots, pc, parent, pools, pooled, held, emitted, completions>>
  BY Zenon DEF CancelPick, identity, registry, events
<1>2. PICK c \in TopFrame(t).todo :
        /\ frames' = SetTopFrame(t, [TopFrame(t) EXCEPT !.todo = @ \ {c},
                                       !.current = c, !.phase = "descend"])
        /\ aborting' = aborting \cup {c}
  BY Zenon DEF CancelPick
<1> DEFINE f == [TopFrame(t) EXCEPT !.todo = @ \ {c}, !.current = c, !.phase = "descend"]
<1>3. /\ TopFrame(t) \in Frame /\ NeatFrame(TopFrame(t))
      /\ FrameHandles(TopFrame(t)) \subseteq InFrames(frames[t])
      /\ t = Top => pools[Top] = {}
      /\ pools = [pools EXCEPT ![t] = pools[t]] /\ pooled = [pooled EXCEPT ![t] = pooled[t]]
      /\ pooled[t] \in BOOLEAN /\ pc = [pc EXCEPT ![t] = "cancel"]
  BY <1>1, CancelFacts, Zenon
<1>4. c \in Children /\ c # Top /\ c \in Agents
  BY <1>2, <1>3 DEF Frame, Children, Top, Agents
<1>5. /\ f \in Frame /\ f.phase = "descend" /\ f.current = c /\ f.todo = TopFrame(t).todo \ {c}
      /\ TopFrame(t).current = Top
  BY <1>1, <1>3, <1>4, Zenon DEF Frame, NeatFrame
<1>6. frames' = SetTopFrame(t, f)
  BY <1>2, Zenon
<1> HIDE DEF f
<1>7. NeatFrame(f) /\ FrameHandles(f) = FrameHandles(TopFrame(t)) /\ c \in FrameHandles(f)
  BY <1>2, <1>4, <1>5, Zenon DEF NeatFrame, FrameHandles
<1>8. PICK s \in Seq(Frame) :
        /\ SetTopFrame(t, f) = [frames EXCEPT ![t] = s] /\ s # <<>> /\ Neat(s)
        /\ InFrames(s) = (InFrames(frames[t]) \ FrameHandles(TopFrame(t))) \cup FrameHandles(f)
  BY <1>1, <1>5, <1>7, SetTop, Zenon
<1>9. InFrames(s) = InFrames(frames[t]) /\ {c} \subseteq InFrames(frames[t])
  BY <1>3, <1>7, <1>8, Zenon
<1>10. Walks(t, t, s, {c})
  BY <1>1, <1>2, <1>3, <1>6, <1>8, <1>9, Zenon DEF Walks
<1> QED
  BY <1>10, WalksStep, Zenon

\* The recursive call takes the child's pool, if it has one.
LEMMA CancelDescendStep ==
  ASSUME TreeInv, NEW t \in Agents, CancelDescend(t), RestType'
  PROVE  TreeInv'
<1> DEFINE c == TopFrame(t).current
           f == [TopFrame(t) EXCEPT !.phase = "join"]
<1>1. /\ pc[t] = "cancel" /\ TopFrame(t).phase = "descend" /\ RemovePool(c)
      /\ frames' = IF pooled[c]
                   THEN [SetTopFrame(t, f) EXCEPT ![t] = Append(@, NewFrame(c))]
                   ELSE SetTopFrame(t, f)
      /\ UNCHANGED <<counter, slots, pc, parent, held, aborting, emitted, completions>>
  BY Zenon DEF CancelDescend, identity, events
<1>2. CoreType /\ TasksOK /\ Apart
  BY Zenon DEF TreeInv
<1>3. /\ frames \in [Agents -> Seq(Frame)] /\ frames[t] \in Seq(Frame)
      /\ TopFrame(t) \in Frame /\ NeatFrame(TopFrame(t))
      /\ FrameHandles(TopFrame(t)) \subseteq InFrames(frames[t])
      /\ t = Top => pools[Top] = {}
      /\ pc = [pc EXCEPT ![t] = "cancel"]
  BY <1>1, CancelFacts, Zenon
<1>4. c \in Agents /\ c # Top
  BY <1>1, <1>3, Zenon DEF Frame, NeatFrame
<1>5. /\ f \in Frame /\ f.phase = "join" /\ f.current = c /\ f.todo = TopFrame(t).todo
  BY <1>3, Zenon DEF Frame
<1>6. NeatFrame(f) /\ FrameHandles(f) = FrameHandles(TopFrame(t))
  BY <1>3, <1>4, <1>5, Zenon DEF NeatFrame, FrameHandles
<1> HIDE DEF c, f
<1>7. PICK s \in Seq(Frame) :
        /\ SetTopFrame(t, f) = [frames EXCEPT ![t] = s] /\ s # <<>> /\ Neat(s)
        /\ InFrames(s) = (InFrames(frames[t]) \ FrameHandles(TopFrame(t))) \cup FrameHandles(f)
  BY <1>1, <1>5, <1>6, SetTop, Zenon
<1>8. InFrames(s) = InFrames(frames[t])
  BY <1>3, <1>6, <1>7, Zenon
<1>9. /\ pools' = [pools EXCEPT ![c] = pools'[c]] /\ pools'[c] = {}
      /\ pooled' = [pooled EXCEPT ![c] = pooled'[c]] /\ pooled'[c] = FALSE
  BY <1>1, <1>2, <1>4, RemovePoolFacts, Zenon
<1>10. t = Top => pools'[Top] = {}
  BY <1>2, <1>3, <1>4, <1>9, Zenon DEF CoreType
<1>11. CASE pooled[c]
  <2> DEFINE r == Append(s, NewFrame(c))
  <2>1. /\ NewFrame(c) \in Frame /\ NeatFrame(NewFrame(c))
        /\ FrameHandles(NewFrame(c)) = pools[c]
    BY <1>2, <1>4, NewFrameFacts, Zenon
  <2>2. FrameHandles(NewFrame(c)) \cap InFrames(s) = {}
    <3>1. InFrames(frames[t]) \subseteq LocalHandles(t)
      BY <1>3, Locals, Zenon
    <3> QED
      BY <1>2, <1>4, <1>8, <2>1, <3>1, Zenon DEF Apart
  <2>3. /\ r \in Seq(Frame) /\ r # <<>> /\ Neat(r)
        /\ InFrames(r) = InFrames(frames[t]) \cup pools[c]
    BY <1>7, <1>8, <2>1, <2>2, NeatAppend, Zenon
  <2>4. frames' = [frames EXCEPT ![t] = r]
    BY <1>1, <1>3, <1>7, <1>11, Zenon
  <2> HIDE DEF r
  <2>5. Walks(t, c, r, {})
    BY <1>1, <1>3, <1>4, <1>9, <1>10, <2>3, <2>4, Zenon DEF Walks
  <2> QED
    BY <1>4, <2>5, WalksStep, Zenon
<1>12. CASE ~pooled[c]
  <2>1. frames' = [frames EXCEPT ![t] = s] /\ pools[c] = {}
    BY <1>1, <1>2, <1>4, <1>7, <1>12, Zenon DEF TasksOK
  <2>2. Walks(t, c, s, {})
    BY <1>1, <1>3, <1>4, <1>7, <1>8, <1>9, <1>10, <2>1, Zenon DEF Walks
  <2> QED
    BY <1>4, <2>2, WalksStep, Zenon
<1> QED
  BY <1>11, <1>12, Zenon

\* A call with nothing left returns.
LEMMA CancelReturnStep ==
  ASSUME TreeInv, NEW t \in Agents, CancelReturn(t), RestType'
  PROVE  TreeInv'
<1> DEFINE s == SubSeq(frames[t], 1, Len(frames[t]) - 1)
<1>1. /\ pc[t] = "cancel" /\ TopFrame(t).phase = "pick" /\ TopFrame(t).todo = {}
      /\ frames' = [frames EXCEPT ![t] = SubSeq(@, 1, Len(@) - 1)]
      /\ Goto(t, IF Len(frames[t]) = 1 THEN AfterDrive(t) ELSE "cancel")
      /\ UNCHANGED <<counter, slots, parent, pools, pooled, held, aborting, emitted, completions>>
  BY Zenon DEF CancelReturn, identity, registry, events
<1>2. /\ frames \in [Agents -> Seq(Frame)] /\ frames[t] \in Seq(Frame) /\ frames[t] # <<>>
      /\ Neat(frames[t]) /\ TopFrame(t) = frames[t][Len(frames[t])]
      /\ NeatFrame(TopFrame(t))
      /\ t = Top => pools[Top] = {}
      /\ pools = [pools EXCEPT ![t] = pools[t]] /\ pooled = [pooled EXCEPT ![t] = pooled[t]]
      /\ pooled[t] \in BOOLEAN
  BY <1>1, CancelFacts, Zenon
<1>3. FrameHandles(frames[t][Len(frames[t])]) = {}
  BY <1>1, <1>2, Zenon DEF FrameHandles, NeatFrame
<1>4. /\ s \in Seq(Frame) /\ (s = <<>> <=> Len(frames[t]) = 1) /\ Neat(s)
      /\ InFrames(s) = InFrames(frames[t])
  BY <1>2, <1>3, NeatFront, Zenon
<1>5. frames' = [frames EXCEPT ![t] = s]
  BY <1>1, <1>2, Zenon
<1> HIDE DEF s
<1>6. pc' = [pc EXCEPT ![t] = IF s # <<>> THEN "cancel" ELSE AfterDrive(t)]
  BY <1>1, <1>4, Zenon DEF Goto
<1>7. Walks(t, t, s, {})
  BY <1>1, <1>2, <1>4, <1>5, <1>6, Zenon DEF Walks
<1> QED
  BY <1>7, WalksStep, Zenon

\* The canceller collects a child whose task is over, completing it if need be.
LEMMA CancelJoinStep ==
  ASSUME TreeInv, NEW t \in Agents, CancelJoin(t), RestType'
  PROVE  TreeInv'
<1> DEFINE c == TopFrame(t).current
           f == [TopFrame(t) EXCEPT !.current = Top, !.phase = "pick"]
<1>1. /\ pc[t] = "cancel" /\ TopFrame(t).phase = "join" /\ pc[c] = "finished"
      /\ emitted' = [emitted EXCEPT ![c] = TRUE]
      /\ completions' = [completions EXCEPT ![c] = IF emitted[c] THEN @ ELSE @ + 1]
      /\ slots' = slots + 1 /\ frames' = SetTopFrame(t, f)
      /\ UNCHANGED <<counter, pc, parent, pools, pooled, held, aborting>>
  BY Zenon DEF CancelJoin, identity, registry
<1>2. CoreType /\ TasksOK /\ Apart /\ FamilyOK /\ TopChildrenOK /\ Top \in Agents
  BY Zenon DEF TreeInv, Agents
<1>3. /\ frames \in [Agents -> Seq(Frame)] /\ frames[t] \in Seq(Frame)
      /\ TopFrame(t) \in Frame /\ NeatFrame(TopFrame(t))
      /\ FrameHandles(TopFrame(t)) \subseteq InFrames(frames[t])
  BY <1>1, CancelFacts, Zenon
<1>4. c \in Agents /\ c \in Children /\ c # Top /\ c \in FrameHandles(TopFrame(t))
  BY <1>1, <1>3, Zenon DEF Frame, NeatFrame, FrameHandles, Agents
<1>5. /\ f \in Frame /\ f.phase = "pick" /\ f.current = Top /\ f.todo = TopFrame(t).todo
  BY <1>2, <1>3, Zenon DEF Frame
<1>6. NeatFrame(f) /\ FrameHandles(f) = FrameHandles(TopFrame(t)) \ {c}
  <2>1. Top \notin f.todo
    BY <1>3, <1>5 DEF Frame, Children, Top
  <2> QED
    BY <1>3, <1>4, <1>5, <2>1, Zenon DEF NeatFrame, FrameHandles
<1> HIDE DEF c, f
<1>7. PICK s \in Seq(Frame) :
        /\ SetTopFrame(t, f) = [frames EXCEPT ![t] = s] /\ s # <<>> /\ Neat(s)
        /\ InFrames(s) = (InFrames(frames[t]) \ FrameHandles(TopFrame(t))) \cup FrameHandles(f)
  BY <1>1, <1>5, <1>6, SetTop, Zenon
<1>8. /\ frames' = [frames EXCEPT ![t] = s] /\ frames'[t] = s
      /\ \A b \in Agents : b # t => frames'[b] = frames[b]
      /\ InFrames(s) = InFrames(frames[t]) \ {c} /\ c \in InFrames(frames[t])
  BY <1>1, <1>3, <1>4, <1>6, <1>7, Zenon
<1>9. held[t] = {}
  BY <1>1, <1>2, Zenon DEF TasksOK
<1>10. /\ LocalHandles(t)' = LocalHandles(t) \ {c} /\ c \in LocalHandles(t)
  BY <1>1, <1>3, <1>7, <1>8, <1>9, Locals, Zenon
<1>11. \A b \in Agents : b # t => LocalHandles(b)' = LocalHandles(b)
  BY <1>1, <1>8, SameLocals, Zenon
<1>12. Drops(t, {c})
  <2>1. Cardinality({c}) = 1
    BY FS_Singleton, Zenon
  <2> QED
    BY <1>1, <1>10, <1>11, <2>1, Zenon DEF Drops
<1>13. Apart' /\ SlotsOK' /\ slots' \in Nat
  BY <1>12, DropsKeep, Zenon
<1>14. /\ emitted' \in [Agents -> BOOLEAN] /\ emitted'[c]
       /\ \A b \in Agents : b # c => emitted'[b] = emitted[b]
  BY <1>1, <1>2, <1>4, Zenon DEF CoreType
<1>15. /\ completions' \in [Agents -> Nat] /\ completions'[c] = 1
       /\ \A b \in Agents : b # c => completions'[b] = completions[b]
  <2>1. completions[c] = IF emitted[c] THEN 1 ELSE 0
    BY <1>2, <1>4, Zenon DEF TopChildrenOK
  <2> QED
    BY <1>1, <1>2, <1>4, <2>1 DEF CoreType
<1>16. CoreType'
  BY <1>1, <1>2, <1>7, <1>8, <1>13, <1>14, <1>15 DEF CoreType
<1>17. TasksOK'
  BY <1>1, <1>2, <1>7, <1>8, Zenon DEF TasksOK
<1>18. \A b \in Agents : FramesOK(b)'
  BY <1>7, <1>8, Zenon DEF TreeInv, FramesOK
<1>19. FamilyOK'
  BY <1>1, <1>2, <1>10, <1>11, Zenon DEF FamilyOK
<1>20. TopChildrenOK'
  <2>1. \A d \in Children : d # c => emitted'[d] = emitted[d] /\ completions'[d] = completions[d]
    BY <1>14, <1>15, Zenon DEF Agents
  <2>2. \A d \in Children : d # c /\ d \in pools[Top] \cup LocalHandles(Top) =>
          d \in pools'[Top] \cup LocalHandles(Top)'
    BY <1>1, <1>2, <1>10, <1>11, Zenon
  <2> QED
    BY <1>1, <1>2, <1>4, <1>14, <1>15, <2>1, <2>2 DEF TopChildrenOK
<1> QED
  BY <1>13, <1>16, <1>17, <1>18, <1>19, <1>20, Zenon DEF TreeInv

\* The abort ends a task at an await, and its locals are dropped.
LEMMA AbortStep ==
  ASSUME TreeInv, NEW c \in Agents, AbortLands(c), RestType'
  PROVE  TreeInv'
<1>1. /\ c \in aborting /\ Suspended(c)
      /\ slots' = slots + Cardinality(LocalHandles(c))
      /\ held' = [held EXCEPT ![c] = {}] /\ frames' = [frames EXCEPT ![c] = <<>>]
      /\ Goto(c, "finished")
      /\ UNCHANGED <<counter, parent, pools, pooled, aborting, emitted, completions>>
  BY Zenon DEF AbortLands, identity, registry, events
<1>2. CoreType /\ TasksOK /\ Apart /\ FamilyOK /\ TopChildrenOK /\ Top \in Agents
  BY Zenon DEF TreeInv, Agents
<1>3. c \in Children /\ c # Top /\ pc[c] \in {"loop", "any", "join", "cancel"}
  BY <1>1, <1>2 DEF CoreType, Children, Top, Suspended
<1>4. /\ pc'[c] = "finished" /\ held'[c] = {} /\ frames'[c] = <<>>
      /\ \A b \in Agents : b # c =>
           pc'[b] = pc[b] /\ held'[b] = held[b] /\ frames'[b] = frames[b]
  BY <1>1, <1>2, Zenon DEF CoreType, Goto
<1>5. <<>> \in Seq(Frame) /\ Neat(<<>>) /\ InFrames(<<>>) = {}
  <2>1. <<>> \in Seq(Frame) /\ Len(<<>>) = 0
    BY EmptySeq, Zenon
  <2>2. 1..0 = {}
    OBVIOUS
  <2> QED
    BY <2>1, <2>2, Zenon DEF InFrames, Neat
<1>6. LocalHandles(c)' = {}
  BY <1>4, <1>5, Locals, Zenon
<1>7. \A b \in Agents : b # c => LocalHandles(b)' = LocalHandles(b)
  BY <1>4, SameLocals, Zenon
<1>8. Drops(c, LocalHandles(c))
  BY <1>1, <1>6, <1>7, Zenon DEF Drops
<1>9. Apart' /\ SlotsOK' /\ slots' \in Nat
  BY <1>8, DropsKeep, Zenon
<1>10. CoreType'
  BY <1>1, <1>2, <1>5, <1>9, Zenon DEF CoreType, Goto, PCs
<1>11. TasksOK'
  <2>1. ASSUME NEW b \in Agents
        PROVE  /\ held'[b] # {} => pc'[b] \in {"spawning", "join"}
               /\ pc'[b] \in {"spawning", "join"} => \E d \in Children : held'[b] = {d}
               /\ frames'[b] = <<>> <=> pc'[b] # "cancel"
    <3>1. CASE b = c
      BY <1>4, <3>1, Zenon
    <3>2. CASE b # c
      <4>1. pc'[b] = pc[b] /\ held'[b] = held[b] /\ frames'[b] = frames[b]
        BY <1>4, <3>2, Zenon
      <4> QED
        BY <1>2, <4>1, Zenon DEF TasksOK
    <3> QED
      BY <3>1, <3>2, Zenon
  <2>2. \A d \in Children : pc'[d] = "none" <=> pc[d] = "none"
    BY <1>3, <1>4, Zenon DEF Agents
  <2> QED
    BY <1>1, <1>2, <1>3, <1>4, <2>1, <2>2, Zenon DEF TasksOK
<1>12. \A b \in Agents : FramesOK(b)'
  BY <1>4, <1>5, Zenon DEF TreeInv, FramesOK
<1>13. FamilyOK'
  BY <1>1, <1>2, <1>4, <1>6, <1>7, Zenon DEF FamilyOK
<1>14. TopChildrenOK'
  <2>1. \A d \in Children : d # c => pc'[d] = pc[d]
    BY <1>4, Zenon DEF Agents
  <2>2. LocalHandles(Top)' = LocalHandles(Top) /\ held'[Top] = held[Top] /\ pc'[Top] = pc[Top]
    BY <1>2, <1>3, <1>4, <1>7, Zenon
  <2> QED
    BY <1>1, <1>2, <1>3, <1>4, <2>1, <2>2 DEF TopChildrenOK
<1> QED
  BY <1>9, <1>10, <1>11, <1>12, <1>13, <1>14, Zenon DEF TreeInv

-----------------------------------------------------------------------------
(* Every step.                                                             *)

\* The rest of the state keeps its shape: only a child reports.
LEMMA RestStep ==
  ASSUME TreeInv, [Next]_vars
  PROVE  RestType'
<1> USE DEF registry, identity, events, signal
<1>1. RestType /\ CoreType /\ TasksOK
  BY Zenon DEF TreeInv
<1>2. /\ depth \in [Agents -> Nat] /\ generation \in [Agents -> Nat]
      /\ doneQueue \in [Agents -> Seq(Children)] /\ doneParked \in [Agents -> BOOLEAN]
      /\ interrupts \in Nat /\ shutdown \in BOOLEAN /\ <<>> \in Seq(Children)
      /\ pooled \in [Agents -> BOOLEAN] /\ Top \in Agents
  BY <1>1, EmptySeq, Zenon DEF RestType, CoreType, Agents
<1>3. CASE InterruptTurn \/ RequestShutdown
  <2>1. interrupts' \in Nat /\ UNCHANGED <<depth, generation, doneQueue, doneParked>>
    BY <1>2, <1>3 DEF InterruptTurn, RequestShutdown
  <2>2. shutdown' \in BOOLEAN
    BY <1>2, <1>3, Zenon DEF InterruptTurn, RequestShutdown
  <2> QED
    BY <1>2, <2>1, <2>2, Zenon DEF RestType
<1>4. CASE StartTurn
  BY <1>2, <1>4, Zenon DEF StartTurn, RestType
<1>5. ASSUME NEW a \in Agents, WithPool(a)
      PROVE  doneQueue' \in [Agents -> Seq(Children)] /\ doneParked' \in [Agents -> BOOLEAN]
  BY <1>2, <1>5, Zenon DEF WithPool
<1>6. ASSUME NEW a \in Agents, RemovePool(a)
      PROVE  doneQueue' \in [Agents -> Seq(Children)] /\ doneParked' \in [Agents -> BOOLEAN]
  BY <1>2, <1>6, Zenon DEF RemovePool
<1>7. ASSUME NEW a \in Agents,
             \/ Checkpoint(a) \/ OtherTool(a) \/ EndTurn(a) \/ AwaitAny(a)
             \/ \E child \in Children : AwaitOne(a, child)
             \/ Join(a) \/ CancelPick(a) \/ CancelJoin(a) \/ CancelReturn(a)
             \/ Exit(a) \/ AbortLands(a)
      PROVE  RestType'
  BY <1>1, <1>7, Zenon DEF Checkpoint, OtherTool, EndTurn, AwaitAny, AwaitOne, Join, CancelPick,
    CancelJoin, CancelReturn, Exit, AbortLands, RestType
<1>8. ASSUME NEW a \in Agents, SpawnTask(a) PROVE RestType'
  <2>1. depth' = [depth EXCEPT ![counter] = depth[a] + 1] /\ depth[a] + 1 \in Nat
    BY <1>2, <1>8 DEF SpawnTask
  <2>2. depth' \in [Agents -> Nat]
    BY <1>2, <2>1, Zenon
  <2>3. generation' \in [Agents -> Nat]
    BY <1>2, <1>8, Zenon DEF SpawnTask
  <2>4. WithPool(a) /\ UNCHANGED <<interrupts, shutdown>>
    BY <1>8, Zenon DEF SpawnTask
  <2> QED
    BY <1>2, <1>5, <2>2, <2>3, <2>4, Zenon DEF RestType
<1>9. ASSUME NEW a \in Agents, SpawnInsert(a) \/ InterruptJoin(a) PROVE RestType'
  <2>1. WithPool(a) /\ UNCHANGED <<depth, generation, interrupts, shutdown>>
    BY <1>9, Zenon DEF SpawnInsert, InterruptJoin
  <2> QED
    BY <1>2, <1>5, <2>1, Zenon DEF RestType
<1>10. ASSUME NEW a \in Agents, PollDone(a) \/ InterruptAny(a) PROVE RestType'
  <2>1. /\ doneParked' = doneParked \/ doneParked' = [doneParked EXCEPT ![a] = FALSE]
           \/ doneParked' = [doneParked EXCEPT ![a] = pooled[a]]
        /\ UNCHANGED <<depth, generation, doneQueue, interrupts, shutdown>>
    BY <1>10, Zenon DEF PollDone, InterruptAny
  <2>2. doneParked' \in [Agents -> BOOLEAN]
    BY <1>2, <2>1, Zenon
  <2> QED
    BY <1>2, <2>1, <2>2, Zenon DEF RestType
<1>11. ASSUME NEW a \in Agents, ReceiveDone(a) PROVE RestType'
  <2>1. /\ doneQueue[a] # <<>> /\ doneQueue' = [doneQueue EXCEPT ![a] = Tail(doneQueue[a])]
        /\ doneParked' = [doneParked EXCEPT ![a] = pooled[a]]
        /\ UNCHANGED <<depth, generation, interrupts, shutdown>>
    BY <1>11, Zenon DEF ReceiveDone
  <2>2. Tail(doneQueue[a]) \in Seq(Children)
    BY <1>2, <2>1, HeadTailProperties, Zenon
  <2>3. doneQueue' \in [Agents -> Seq(Children)]
    BY <1>2, <2>1, <2>2, Zenon
  <2>4. doneParked' \in [Agents -> BOOLEAN]
    BY <1>2, <2>1, Zenon
  <2> QED
    BY <1>2, <2>1, <2>3, <2>4, Zenon DEF RestType
<1>12. ASSUME NEW a \in Agents, CancelBegin(a) PROVE RestType'
  <2>1. RemovePool(a) /\ UNCHANGED <<depth, generation, interrupts, shutdown>>
    BY <1>12, Zenon DEF CancelBegin
  <2> QED
    BY <1>2, <1>6, <2>1, Zenon DEF RestType
<1>13. ASSUME NEW a \in Agents, CancelDescend(a) PROVE RestType'
  <2>1. /\ pc[a] = "cancel" /\ RemovePool(TopFrame(a).current)
        /\ UNCHANGED <<depth, generation, interrupts, shutdown>>
    BY <1>13, Zenon DEF CancelDescend
  <2>2. TopFrame(a) \in Frame
    BY <2>1, CancelFacts, Zenon
  <2>3. TopFrame(a).current \in Agents
    BY <2>2, Zenon DEF Frame
  <2> QED
    BY <1>2, <1>6, <2>1, <2>3, Zenon DEF RestType
<1>14. ASSUME NEW a \in Agents, Report(a) PROVE RestType'
  <2>1. a \in Children /\ parent[a] \in Agents
    BY <1>1, <1>14, Zenon DEF Report, TasksOK, Agents, CoreType
  <2>2. /\ \/ doneQueue' = doneQueue
           \/ doneQueue' = [doneQueue EXCEPT ![parent[a]] = Append(doneQueue[parent[a]], a)]
        /\ UNCHANGED <<depth, generation, doneParked, interrupts, shutdown>>
    BY <1>14, Zenon DEF Report
  <2>3. Append(doneQueue[parent[a]], a) \in Seq(Children)
    BY <1>2, <2>1, AppendProperties, Zenon
  <2>4. doneQueue' \in [Agents -> Seq(Children)]
    BY <1>2, <2>1, <2>2, <2>3, Zenon
  <2> QED
    BY <1>2, <2>2, <2>4, Zenon DEF RestType
<1>15. CASE UNCHANGED vars
  BY <1>1, <1>15, Zenon DEF vars, RestType
<1>16. CASE Ended
  BY <1>15, <1>16, Zenon DEF Ended
<1> QED
  BY <1>3, <1>4, <1>7, <1>8, <1>9, <1>10, <1>11, <1>12, <1>13, <1>14, <1>15, <1>16, Zenon
  DEF Next, Act, Step

\* A wait for any child takes a handle, goes on waiting, or ends.
LEMMA WaitStep ==
  ASSUME TreeInv, NEW a \in Agents, PollDone(a) \/ ReceiveDone(a) \/ InterruptAny(a), RestType'
  PROVE  TreeInv'
<1>1. /\ pc[a] \in {"poll", "any"} /\ CoreType
      /\ UNCHANGED <<counter, slots, parent, pooled, frames, aborting, emitted, completions>>
  BY Zenon DEF PollDone, ReceiveDone, InterruptAny, identity, events, TreeInv
<1>2. ASSUME NEW c \in pools[a], pools' = [pools EXCEPT ![a] = @ \ {c}],
             held' = [held EXCEPT ![a] = {c}], Goto(a, "join")
      PROVE  TreeInv'
  <2>1. c \in Children
    BY <1>1, Zenon DEF CoreType
  <2> QED
    BY <1>1, <1>2, <2>1, TakeStep, Zenon
<1>3. ASSUME UNCHANGED <<pools, held>>, NEW label \in Plain, Goto(a, label)
      PROVE  TreeInv'
  <2>1. pc' = [pc EXCEPT ![a] = pc'[a]] /\ pc'[a] \in Plain /\ pc[a] \in Plain
    BY <1>1, <1>3, Zenon DEF Goto, CoreType, Plain
  <2>2. Calm(a)
    BY <1>1, <1>3, <2>1, Zenon DEF Calm
  <2> QED
    BY <2>2, CalmStep, Zenon
<1>4. CASE PollDone(a)
  <2> DEFINE ready == {c \in pools[a] : pc[c] = "finished"}
  <2>1. CASE \E c \in ready :
               /\ pools' = [pools EXCEPT ![a] = @ \ {c}] /\ held' = [held EXCEPT ![a] = {c}]
               /\ Goto(a, "join")
    BY <1>2, <2>1, Zenon
  <2>2. CASE UNCHANGED <<pools, held>> /\ \E label \in {"any", "returning", "loop"} : Goto(a, label)
    BY <1>3, <2>2, Zenon DEF Plain
  <2> QED
    BY <1>4, <2>1, <2>2, Zenon DEF PollDone
<1>5. CASE ReceiveDone(a)
  <2> DEFINE child == Head(doneQueue[a])
  <2>1. CASE /\ child \in pools[a] /\ pools' = [pools EXCEPT ![a] = @ \ {child}]
             /\ held' = [held EXCEPT ![a] = {child}] /\ Goto(a, "join")
    BY <1>2, <2>1, Zenon
  <2>2. CASE UNCHANGED <<pools, held>> /\ Goto(a, "poll")
    BY <1>3, <2>2, Zenon DEF Plain
  <2> QED
    BY <1>5, <2>1, <2>2, Zenon DEF ReceiveDone
<1>6. CASE InterruptAny(a)
  <2>1. UNCHANGED <<pools, held>> /\ Goto(a, "returning")
    BY <1>6, Zenon DEF InterruptAny
  <2> QED
    BY <1>3, <2>1, Zenon DEF Plain
<1> QED
  BY <1>4, <1>5, <1>6, Zenon

\* The steps of a turn that concern no child.
LEMMA TurnStep ==
  ASSUME TreeInv, NEW a \in Agents, RestType',
         \/ a = Top /\ StartTurn
         \/ Checkpoint(a) \/ OtherTool(a) \/ EndTurn(a) \/ AwaitAny(a)
  PROVE  TreeInv'
<1>1. /\ pc[a] \in {"idle", "loop", "tool"} /\ \E label \in Plain : Goto(a, label)
      /\ UNCHANGED <<counter, slots, parent, pools, pooled, held, frames, aborting, emitted,
                     completions>>
  BY Zenon DEF StartTurn, Checkpoint, OtherTool, EndTurn, AwaitAny, identity, registry, events, Plain
<1>2. Calm(a)
  BY <1>1, Zenon DEF Calm, Goto, Plain, TreeInv, CoreType
<1> QED
  BY <1>2, CalmStep, Zenon

\* No agent is running and every slot is free.
LEMMA TreeStart == Init => TreeInv
<1> SUFFICES ASSUME Init PROVE TreeInv
  BY Zenon
<1>1. <<>> \in Seq(Children) /\ <<>> \in Seq(Frame) /\ Len(<<>>) = 0 /\ Top \in Agents
  BY EmptySeq, Zenon DEF Agents
<1>2. 1..0 = {}
  OBVIOUS
<1>3. Neat(<<>>) /\ InFrames(<<>>) = {}
  BY <1>1, <1>2, Zenon DEF Neat, InFrames
<1>4. CoreType
  <2>1. counter \in 1..(MaxAgents + 1) /\ slots \in Nat
    BY TreeAssumption DEF Init
  <2>2. /\ pc \in [Agents -> PCs] /\ parent \in [Agents -> Agents]
        /\ pools \in [Agents -> SUBSET Children] /\ held \in [Agents -> SUBSET Children]
        /\ frames \in [Agents -> Seq(Frame)] /\ aborting \in SUBSET Children
        /\ completions \in [Agents -> Nat]
    BY <1>1, Zenon DEF Init, PCs
  <2>3. pooled \in [Agents -> BOOLEAN] /\ emitted \in [Agents -> BOOLEAN]
    BY Zenon DEF Init
  <2> QED
    BY <2>1, <2>2, <2>3, Zenon DEF CoreType
<1>5. RestType
  <2>1. /\ depth \in [Agents -> Nat] /\ generation \in [Agents -> Nat] /\ interrupts \in Nat
        /\ doneQueue \in [Agents -> Seq(Children)] /\ doneParked \in [Agents -> BOOLEAN]
    BY <1>1, Zenon DEF Init
  <2>2. shutdown \in BOOLEAN
    BY Zenon DEF Init
  <2> QED
    BY <2>1, <2>2, Zenon DEF RestType
<1>6. TasksOK
  <2>1. \A c \in Children : c >= 1 /\ c \in Agents /\ c # Top
    BY DEF Children, Agents, Top
  <2> QED
    BY <1>1, <2>1, Zenon DEF Init, TasksOK
<1>7. \A a \in Agents : FramesOK(a) /\ LocalHandles(a) = {} /\ pools[a] = {}
  <2>1. ASSUME NEW a \in Agents PROVE LocalHandles(a) = {}
    BY <1>1, <1>3, Locals, Zenon DEF Init
  <2> QED
    BY <1>3, <2>1, Zenon DEF Init, FramesOK
<1>8. Apart
  BY <1>7, Zenon DEF Apart
<1>9. SlotsOK
  <2>1. Handles = {}
    BY <1>7, AnyHandle, Zenon
  <2> QED
    BY <2>1, FS_EmptySet, TreeAssumption DEF SlotsOK, Init
<1>10. FamilyOK
  BY <1>7, Zenon DEF FamilyOK, Init
<1>11. TopChildrenOK
  <2>1. \A c \in Children : c \in Agents /\ c # Top
    BY DEF Children, Agents, Top
  <2> QED
    BY <1>1, <1>7, <2>1 DEF TopChildrenOK, Init
<1> QED
  BY <1>4, <1>5, <1>6, <1>7, <1>8, <1>9, <1>10, <1>11, Zenon DEF TreeInv

\* Every step of the tree keeps the invariant.
LEMMA TreeStep == TreeInv /\ [Next]_vars => TreeInv'
<1> SUFFICES ASSUME TreeInv, [Next]_vars PROVE TreeInv'
  BY Zenon
<1>1. RestType'
  BY RestStep, Zenon
<1>2. CASE InterruptTurn \/ RequestShutdown \/ Ended \/ UNCHANGED vars
  <2>1. UNCHANGED <<pc, counter, slots, parent, pools, pooled, held, frames, aborting, emitted,
                    completions>>
    BY <1>2, Zenon DEF InterruptTurn, RequestShutdown, Ended, vars, identity, registry, events
  <2> QED
    BY <1>1, <2>1, SignalStep, Zenon
<1>3. CASE StartTurn
  BY <1>1, <1>3, TurnStep, Zenon DEF Agents
<1>4. ASSUME NEW a \in Agents, NEW child \in Children, AwaitOne(a, child) PROVE TreeInv'
  <2>1. /\ child \in pools[a] /\ pc[a] = "tool" /\ Goto(a, "join")
        /\ pools' = [pools EXCEPT ![a] = @ \ {child}] /\ held' = [held EXCEPT ![a] = {child}]
        /\ UNCHANGED <<counter, slots, parent, pooled, frames, aborting, emitted, completions>>
    BY <1>4, Zenon DEF AwaitOne, identity, events
  <2> QED
    BY <1>1, <2>1, TakeStep, Zenon
<1>5. ASSUME NEW a \in Agents, Act(a) PROVE TreeInv'
  BY <1>1, <1>4, <1>5, TurnStep, SpawnStep, Zenon DEF Act
<1>6. ASSUME NEW a \in Agents, Step(a) PROVE TreeInv'
  BY <1>1, <1>6, ParkStep, WaitStep, JoinStep, CancelBeginStep, CancelPickStep,
    CancelDescendStep, CancelJoinStep, CancelReturnStep, ReportStep, AbortStep, Zenon DEF Step
<1> QED
  BY <1>2, <1>3, <1>5, <1>6, Zenon DEF Next

-----------------------------------------------------------------------------
(* The theorems.                                                           *)

\* The invariant: every handle is in one place, and a child of the top-level
\* agent is uncollected or completed (agent.rs, run_agent_tool to
\* cancel_uncollected_children).
THEOREM TreeInvariant == Spec => []TreeInv
BY TreeStart, TreeStep, PTL DEF Spec

\* The state keeps its shape; no more slots are free than there are.
THEOREM TreeTyped == Spec => []TypeOK
<1>1. TreeInv => TypeOK
  <2> SUFFICES ASSUME TreeInv PROVE TypeOK
    BY Zenon
  <2>1. CoreType /\ RestType /\ Cardinality(Handles) \in Nat /\ slots + Cardinality(Handles) = Slots
    BY HandlesFinite, Zenon DEF TreeInv, SlotsOK
  <2>2. slots \in 0..Slots
    BY <2>1, TreeAssumption DEF CoreType
  <2> QED
    BY <2>1, <2>2, Zenon DEF TypeOK, CoreType, RestType
<1> QED
  BY <1>1, TreeInvariant, PTL

\* The permits of subagent_slots are neither lost nor made: whatever tasks are
\* launched, collected, interrupted, cancelled or aborted, the free slots and
\* the handles of subagents add up to MAX_CONCURRENT_SUBAGENTS, and no handle
\* is in two places.
THEOREM SlotsAddUp == Spec => []SlotsConserved
<1>1. TreeInv => SlotsConserved
  BY Zenon DEF TreeInv, SlotsOK, Apart, SlotsConserved
<1> QED
  BY <1>1, TreeInvariant, PTL

\* Between turns of the top-level agent none of its own subagents runs, and each
\* has completed exactly once, whether it was collected or cancelled.
THEOREM TopChildrenDone == Spec => []TopChildrenEndWithTurn
<1>1. TreeInv => TopChildrenEndWithTurn
  <2> SUFFICES ASSUME TreeInv, pc[Top] = "idle",
                      NEW c \in Children, parent[c] = Top, pc[c] # "none"
               PROVE  ~Running(c) /\ completions[c] = 1
    BY Zenon DEF TopChildrenEndWithTurn
  <2>1. CoreType /\ TasksOK /\ TopChildrenOK /\ Top \in Agents
    BY Zenon DEF TreeInv, Agents
  <2>2. pools[Top] = {} /\ held[Top] = {} /\ frames[Top] = <<>>
    BY <2>1, Zenon DEF TasksOK, TopChildrenOK
  <2>3. LocalHandles(Top) = {}
    <3>1. DOMAIN frames[Top] = {}
      BY <2>2
    <3> QED
      BY <2>1, <2>2, <3>1, LocalHandle, Zenon
  <2>4. pc[c] = "finished" /\ emitted[c]
    BY <2>1, <2>2, <2>3, Zenon DEF TopChildrenOK
  <2> QED
    BY <2>1, <2>4, Zenon DEF TopChildrenOK, Running
<1> QED
  BY <1>1, TreeInvariant, PTL

=============================================================================
