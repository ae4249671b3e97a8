---------------------------- MODULE HarnessProofs ----------------------------
(***************************************************************************)
(* The parts of the harness around the agent loop.  The shutdown signal,   *)
(* for any number of agents, commands and messages, and any capacity of    *)
(* the command channel.  The setup and shutdown of a process: on every     *)
(* path it takes down what it set up.                                      *)
(***************************************************************************)
EXTENDS ShutdownSignal, Lifecycle, SequenceTheorems, TLAPS

-----------------------------------------------------------------------------
(* The shutdown signal.                                                    *)

\* What ApplyHead leaves behind is well typed (ShutdownSignal::apply).
LEMMA ApplyHeadType ==
  ASSUME TypeOK, commands # <<>>, ApplyHead
  PROVE  /\ commands' \in Seq(Command)
         /\ journal' \in Seq(Command)
         /\ state' \in Messages \cup {SignalMessage, None}
         /\ interrupts' \in Nat
<1>1. Head(commands) \in Command /\ Tail(commands) \in Seq(Command)
  BY HeadTailProperties, Zenon DEF TypeOK
<1>2. Append(journal, Head(commands)) \in Seq(Command)
  BY <1>1, AppendProperties, Zenon DEF TypeOK
<1> QED
  BY <1>1, <1>2 DEF TypeOK, ApplyHead, Requested, Command

\* What the tasks that end leave behind is well typed (the abort of a
\* subagent's task drops its locals, the receiver's guard among them).
LEMMA GoneType ==
  ASSUME TypeOK, NEW gone, Gone(gone)
  PROVE  /\ guard' \in Agents \cup {Nobody}
         /\ parent' \in [Agents -> Agents \cup {Nobody}]
         /\ generation' \in [Agents -> Nat]
         /\ seen' \in [Agents -> Nat]
  BY DEF TypeOK, Gone

\* Every step of the signal and of the agents keeps the types.
LEMMA TypeStep == TypeOK /\ [Next]_vars => TypeOK'
<1> SUFFICES ASSUME TypeOK, [Next]_vars PROVE TypeOK'
  BY Zenon
<1> USE SignalAssumption
<1>1. ASSUME NEW c \in Command, Send(c) PROVE TypeOK'
  <2>1. Append(commands, c) \in Seq(Command) /\ Append(sent, c) \in Seq(Command)
    BY AppendProperties, Zenon DEF TypeOK
  <2> QED
    BY <1>1, <2>1, Zenon DEF TypeOK, history, Send
<1>2. CASE Disconnect
  BY <1>2, Zenon DEF TypeOK, history, Disconnect
<1>3. CASE Signal
  BY <1>3, Zenon DEF TypeOK, history, Signal, Requested
<1>4. ASSUME NEW a \in Agents, DrainTryLock(a) PROVE TypeOK'
  BY <1>4, Zenon DEF TypeOK, history, DrainTryLock, Goto, PCs
<1>5. ASSUME NEW a \in Agents, DrainOne(a) PROVE TypeOK'
  BY <1>5, ApplyHeadType, Zenon DEF TypeOK, history, DrainOne
<1>6. ASSUME NEW a \in Agents, DrainEnd(a) PROVE TypeOK'
  <2>1. receiver' \in BOOLEAN
    BY <1>6, Zenon DEF TypeOK, history, DrainEnd
  <2> QED
    BY <1>6, <2>1, Zenon DEF TypeOK, history, DrainEnd, Goto, PCs
<1>7. ASSUME NEW a \in Agents, TestState(a) PROVE TypeOK'
  <2>1. reason' \in [Agents -> Messages \cup {SignalMessage, Interrupt, None}]
    BY <1>7, Zenon DEF TypeOK, history, TestState
  <2>2. pc' \in [Agents -> PCs] /\ mode' \in [Agents -> Modes]
    BY <1>7, Zenon DEF TypeOK, history, TestState, Goto, PCs, Modes
  <2> QED
    BY <1>7, <2>1, <2>2, Zenon DEF TypeOK, history, TestState
<1>8. ASSUME NEW a \in Agents, Snapshot(a) PROVE TypeOK'
  BY <1>8, Zenon DEF TypeOK, history, Snapshot, Goto, PCs, Modes
<1>9. ASSUME NEW a \in Agents, TestGeneration(a) PROVE TypeOK'
  BY <1>9, Zenon DEF TypeOK, history, TestGeneration, Goto, PCs
<1>10. ASSUME NEW a \in Agents, Park(a) PROVE TypeOK'
  BY <1>10, Zenon DEF TypeOK, history, Park, Goto, PCs
<1>11. ASSUME NEW a \in Agents, Wake(a) PROVE TypeOK'
  BY <1>11, Zenon DEF TypeOK, history, Wake, Release, LoopHead, Goto, PCs
<1>12. ASSUME NEW a \in Agents, Receive(a) PROVE TypeOK'
  BY <1>12, ApplyHeadType, Zenon DEF TypeOK, history, Receive, Release, LoopHead, Goto, PCs
<1>13. ASSUME NEW a \in Agents, Drop(a) PROVE TypeOK'
  BY <1>13, Zenon DEF TypeOK, history, Drop, Release, Goto, PCs
<1>14. ASSUME NEW a \in Agents, Finish(a) PROVE TypeOK'
  <2>1. PICK gone \in Cancelled(a) :
          /\ Gone(gone \cup {a})
          /\ pc' = [b \in Agents |-> IF b \in gone \cup {a} THEN "off" ELSE pc[b]]
          /\ mode' = [b \in Agents |-> IF b \in gone \cup {a} THEN "abort" ELSE mode[b]]
          /\ reason' = [b \in Agents |-> IF b \in gone \cup {a} THEN None ELSE reason[b]]
    BY <1>14, Zenon DEF Finish
  <2>2. pc' \in [Agents -> PCs] /\ mode' \in [Agents -> Modes]
    BY <2>1, Zenon DEF TypeOK, PCs, Modes
  <2>3. reason' \in [Agents -> Messages \cup {SignalMessage, Interrupt, None}]
    BY <2>1, Zenon DEF TypeOK
  <2> QED
    BY <1>14, <2>1, <2>2, <2>3, GoneType, Zenon DEF TypeOK, Finish, history
<1>15. ASSUME NEW a \in Agents, NEW m \in {"check", "abort"}, Enter(a, m) PROVE TypeOK'
  BY <1>15, Zenon DEF TypeOK, history, Enter, Goto, PCs, Modes
<1>16. ASSUME NEW p \in Agents, NEW a \in Agents, Spawn(p, a) PROVE TypeOK'
  BY <1>16, Zenon DEF TypeOK, history, Spawn, Goto, PCs
<1>17. CASE Input
  BY <1>17, LenProperties, Zenon DEF TypeOK, history, Input, Release, Goto, PCs, Modes
<1>18. CASE EndTurn
  <2>1. PICK gone \in Cancelled(Top) :
          /\ Gone(gone)
          /\ pc' = [b \in Agents |-> IF b = Top THEN "lock"
                                     ELSE IF b \in gone THEN "off" ELSE pc[b]]
          /\ mode' = [b \in Agents |-> IF b = Top THEN "idle"
                                       ELSE IF b \in gone THEN "abort" ELSE mode[b]]
          /\ reason' = [b \in Agents |->
                          IF b \in gone \cup {Top} THEN None ELSE reason[b]]
    BY <1>18, Zenon DEF EndTurn
  <2>2. pc' \in [Agents -> PCs] /\ mode' \in [Agents -> Modes]
    BY <2>1, Zenon DEF TypeOK, PCs, Modes
  <2>3. reason' \in [Agents -> Messages \cup {SignalMessage, Interrupt, None}]
    BY <2>1, Zenon DEF TypeOK
  <2> QED
    BY <1>18, <2>1, <2>2, <2>3, GoneType, Zenon DEF TypeOK, EndTurn, history
<1>19. CASE UNCHANGED vars
  BY <1>19, Zenon DEF TypeOK, history, vars
<1> QED
  BY <1>1, <1>2, <1>3, <1>4, <1>5, <1>6, <1>7, <1>8, <1>9, <1>10, <1>11, <1>12,
     <1>13, <1>14, <1>15, <1>16, <1>17, <1>18, <1>19, Zenon DEF Next, Step, Ended

\* The types hold throughout a session.
THEOREM TypeCorrect == Spec => []TypeOK
<1>1. Init => TypeOK
  <2>1. <<>> \in Seq(Command) /\ 0 \in Nat
    BY EmptySeq
  <2> QED
    BY <2>1, SignalAssumption, ZenonT(40) DEF Init, TypeOK, PCs, Modes
<1> QED
  BY <1>1, TypeStep, PTL DEF Spec

-----------------------------------------------------------------------------
(* Commands.                                                               *)

\* Every command is in the journal or still queued, in the order it was sent.
JournalThenQueue == sent = journal \o commands

\* Moving the head of the queue to the end of the journal keeps the whole.
LEMMA ApplyKeepsOrder ==
  ASSUME NEW S, NEW s \in Seq(S), NEW t \in Seq(S), t # <<>>
  PROVE  Append(s, Head(t)) \o Tail(t) = s \o t
<1> DEFINE u == Append(s, Head(t)) \o Tail(t)
           v == s \o t
<1>1. /\ Head(t) \in S /\ Tail(t) \in Seq(S) /\ Len(Tail(t)) = Len(t) - 1
      /\ \A i \in 1..Len(Tail(t)) : Tail(t)[i] = t[i + 1]
      /\ Len(s) \in Nat /\ Len(t) \in Nat \ {0}
      /\ Head(t) = t[1]
  BY HeadTailProperties, LenProperties, EmptySeq
<1>2. /\ Append(s, Head(t)) \in Seq(S) /\ Len(Append(s, Head(t))) = Len(s) + 1
      /\ \A i \in 1..Len(s) : Append(s, Head(t))[i] = s[i]
      /\ Append(s, Head(t))[Len(s) + 1] = Head(t)
  BY <1>1, AppendProperties
<1>3. /\ u \in Seq(S) /\ Len(u) = Len(s) + Len(t)
      /\ \A i \in 1..(Len(s) + Len(t)) :
           u[i] = IF i <= Len(s) + 1 THEN Append(s, Head(t))[i]
                                     ELSE Tail(t)[i - (Len(s) + 1)]
  <2>1. /\ u \in Seq(S) /\ Len(u) = Len(Append(s, Head(t))) + Len(Tail(t))
        /\ \A i \in 1..(Len(Append(s, Head(t))) + Len(Tail(t))) :
             u[i] = IF i <= Len(Append(s, Head(t))) THEN Append(s, Head(t))[i]
                    ELSE Tail(t)[i - Len(Append(s, Head(t)))]
    BY <1>1, <1>2, ConcatProperties, Zenon
  <2> HIDE DEF u
  <2> QED
    BY <1>1, <1>2, <2>1
<1>4. /\ v \in Seq(S) /\ Len(v) = Len(s) + Len(t)
      /\ \A i \in 1..(Len(s) + Len(t)) : v[i] = IF i <= Len(s) THEN s[i] ELSE t[i - Len(s)]
  BY ConcatProperties, Zenon
<1> HIDE DEF u, v
<1>5. ASSUME NEW i \in 1..Len(u) PROVE u[i] = v[i]
  <2>1. CASE i <= Len(s)
    BY <1>1, <1>2, <1>3, <1>4, <2>1
  <2>2. CASE i = Len(s) + 1
    BY <1>1, <1>2, <1>3, <1>4, <2>2
  <2>3. CASE i > Len(s) + 1
    <3>1. i - (Len(s) + 1) \in 1..Len(Tail(t)) /\ i - (Len(s) + 1) + 1 = i - Len(s)
      BY <1>1, <1>3, <2>3
    <3> QED
      BY <1>1, <1>3, <1>4, <2>3, <3>1
  <2>4. i <= Len(s) \/ i = Len(s) + 1 \/ i > Len(s) + 1
    BY <1>1, <1>3
  <2> QED
    BY <2>1, <2>2, <2>3, <2>4, Zenon
<1>6. u = v
  BY <1>3, <1>4, <1>5, SeqEqual, Zenon
<1> QED
  BY <1>6, Zenon DEF u, v

\* The steps that touch neither the queue, the journal nor the history.
QueueKept == UNCHANGED <<commands, journal, sent>>

\* Sending appends to the queue and to the history; applying moves the head
\* (drain, wait_abort and wait); every other step leaves the three alone.
LEMMA OrderStep == TypeOK /\ JournalThenQueue /\ [Next]_vars => JournalThenQueue'
<1> SUFFICES ASSUME TypeOK, JournalThenQueue, [Next]_vars
             PROVE  JournalThenQueue'
  BY Zenon
<1>1. ASSUME NEW c \in Command, Send(c) PROVE JournalThenQueue'
  <2>1. /\ journal \in Seq(Command) /\ commands \in Seq(Command) /\ sent \in Seq(Command)
        /\ sent = journal \o commands
        /\ sent' = Append(sent, c) /\ commands' = Append(commands, c) /\ journal' = journal
    BY <1>1, Zenon DEF TypeOK, Send, JournalThenQueue
  <2>2. sent' = sent \o <<c>> /\ commands' = commands \o <<c>> /\ <<c>> \in Seq(Command)
    BY <2>1, AppendIsConcat
  <2>3. (journal \o commands) \o <<c>> = journal \o (commands \o <<c>>)
    BY <2>1, <2>2, ConcatAssociative
  <2> QED
    BY <2>1, <2>2, <2>3, Zenon DEF JournalThenQueue
<1>2. ASSUME commands # <<>>, ApplyHead, UNCHANGED sent PROVE JournalThenQueue'
  BY <1>2, ApplyKeepsOrder, Zenon DEF TypeOK, ApplyHead, JournalThenQueue
<1>3. ASSUME NEW a \in Agents, DrainOne(a) PROVE JournalThenQueue'
  BY <1>2, <1>3, Zenon DEF DrainOne, history
<1>4. ASSUME NEW a \in Agents, Receive(a) PROVE JournalThenQueue'
  BY <1>2, <1>4, Zenon DEF Receive, JournalThenQueue, history
<1>5. CASE QueueKept
  BY <1>5, Zenon DEF QueueKept, JournalThenQueue
<1>6. ASSUME NEW a \in Agents, Step(a) \/ Drop(a) \/ Finish(a),
             ~DrainOne(a), ~Receive(a)
      PROVE  QueueKept
  BY <1>6, Zenon DEF Step, DrainTryLock, DrainEnd, TestState, Snapshot, TestGeneration, Park, Wake,
              Drop, Finish, QueueKept, history
<1>7. ASSUME \/ Disconnect \/ Signal \/ Input \/ EndTurn \/ UNCHANGED vars
             \/ \E a \in Agents, m \in {"check", "abort"} : Enter(a, m)
             \/ \E p, a \in Agents : Spawn(p, a)
      PROVE  QueueKept
  BY <1>7, Zenon DEF Disconnect, Signal, Input, EndTurn, vars, Enter, Spawn, QueueKept, history
<1> QED
  BY <1>1, <1>3, <1>4, <1>5, <1>6, <1>7, Zenon DEF Next, Ended

\* Whatever tasks share the receiver, every command is applied once and in
\* the order it was sent (drain, wait_abort and wait behind the receiver
\* mutex).
LEMMA CommandsKept == Spec => []JournalThenQueue
<1>1. Init => JournalThenQueue
  BY DEF Init, JournalThenQueue
<1>2. TypeOK /\ JournalThenQueue /\ [Next]_vars => JournalThenQueue'
  BY OrderStep, Zenon
<1> QED
  BY <1>1, <1>2, TypeCorrect, PTL DEF Spec

-----------------------------------------------------------------------------
(* The final message.                                                      *)

\* A request, once made, keeps its message (ShutdownSignal::request).
LEMMA StateKept == TypeOK /\ [Next]_vars /\ state # None => state' = state
<1> SUFFICES ASSUME TypeOK, [Next]_vars, state # None PROVE state' = state
  BY Zenon
<1>1. ASSUME NEW a \in Agents, Step(a) \/ Drop(a) \/ Finish(a) PROVE state' = state
  BY <1>1, Zenon DEF Step, DrainTryLock, DrainOne, DrainEnd, TestState, Snapshot, TestGeneration,
              Park, Wake, Receive, Drop, Finish, ApplyHead, Requested
<1> QED
  BY <1>1, Zenon DEF Next, Send, Disconnect, Signal, Requested, Enter, Spawn, Input, EndTurn,
              Ended, vars

\* A task is given the message the signal holds at that moment (check,
\* wait_abort and wait), and the signal keeps it.
LEMMA FinalMessageStep == TypeOK /\ OneFinalMessage /\ [Next]_vars => OneFinalMessage'
<1> SUFFICES ASSUME TypeOK, OneFinalMessage, [Next]_vars,
                    NEW b \in Agents, reason'[b] \notin {None, Interrupt}
             PROVE  reason'[b] = state'
  BY Zenon DEF OneFinalMessage
<1>1. ASSUME reason'[b] = reason[b] PROVE reason'[b] = state'
  <2>1. reason[b] = state /\ state # None
    BY <1>1, Zenon DEF OneFinalMessage
  <2> QED
    BY <1>1, <2>1, StateKept, Zenon
<1>2. ASSUME NEW a \in Agents, TestState(a) PROVE reason'[b] = state'
  BY <1>1, <1>2, Zenon DEF TestState, TypeOK
<1>3. ASSUME NEW a \in Agents, TestGeneration(a) PROVE reason'[b] = state'
  BY <1>1, <1>3, Zenon DEF TestGeneration, TypeOK
<1>4. ASSUME NEW p \in Agents, NEW a \in Agents, Spawn(p, a) PROVE reason'[b] = state'
  BY <1>1, <1>4, Zenon DEF Spawn, TypeOK
<1>5. CASE EndTurn
  BY <1>1, <1>5, Zenon DEF EndTurn, TypeOK
<1>8. ASSUME NEW a \in Agents, Finish(a) PROVE reason'[b] = state'
  BY <1>1, <1>8, Zenon DEF Finish, TypeOK
<1>6. ASSUME NEW a \in Agents, Step(a) \/ Drop(a), ~TestState(a), ~TestGeneration(a)
      PROVE  reason' = reason
  BY <1>6, Zenon DEF Step, DrainTryLock, DrainOne, DrainEnd, Snapshot, Park, Wake, Receive,
              Drop
<1>7. ASSUME \/ Disconnect \/ Signal \/ Input \/ UNCHANGED vars
             \/ \E c \in Command : Send(c)
             \/ \E a \in Agents, m \in {"check", "abort"} : Enter(a, m)
      PROVE  reason' = reason
  BY <1>7, Zenon DEF Disconnect, Signal, Input, vars, Send, Enter
<1> QED
  BY <1>1, <1>2, <1>3, <1>4, <1>5, <1>6, <1>7, <1>8, Zenon DEF Next, Ended

\* Every task that is told to shut down is given the same message, that of
\* the first request, for any number of tasks and requests
\* (ShutdownSignal::request; the reads in check, wait_abort and wait).
THEOREM FinalMessage == Spec => []OneFinalMessage
<1>1. Init => OneFinalMessage
  BY Zenon DEF Init, OneFinalMessage
<1>2. TypeOK /\ OneFinalMessage /\ [Next]_vars => OneFinalMessage'
  BY FinalMessageStep, Zenon
<1> QED
  BY <1>1, <1>2, TypeCorrect, PTL DEF Spec

-----------------------------------------------------------------------------
(* Interrupts of an idle harness.                                          *)

\* The task that owns the receiver mutex is the one that drains or is parked
\* with it.
ReceiverOwned == \A a \in Agents : guard = a <=> pc[a] \in {"drain", "hold"}

\* The receiver is given up only when no command is left or can follow.
ClosedEmpty == ~receiver => ~connected /\ commands = <<>>

InTurn == mode[Top] \in {"check", "abort"}

\* Where the top-level task can be outside its turns, and who runs beside it
\* between an input and the turn's start.
TopAlone ==
  /\ mode[Top] = "idle" => pc[Top] \in {"lock", "drain", "state", "ended"}
  /\ mode[Top] = "wait" => pc[Top] \in {"state", "park", "hold", "watch", "ended"}
  /\ mode[Top] = "turn" => pc[Top] \in {"lock", "drain", "state", "gen", "ended"}
  /\ mode[Top] = "turn" /\ ~crowded => \A a \in Subagents : pc[a] = "off"

\* Every command sent before the input is applied before the turn's
\* generation is read, so an interrupt newer than it was sent after.  A
\* subagent that ran when the input arrived may have the receiver, and the
\* check before the turn then skips the queue.
InputFirst ==
  /\ mark <= Len(sent)
  /\ ~crowded /\ (InTurn \/ (mode[Top] = "turn" /\ pc[Top] \in {"state", "gen"})) =>
       mark <= Len(journal)
  /\ ~crowded /\ InTurn /\ interrupts > generation[Top] =>
       \E i \in (mark + 1)..Len(journal) : sent[i] = Interrupt
  /\ reason[Top] = Interrupt => InTurn /\ interrupts > generation[Top]

\* The history is the journal, then the queue.
LEMMA JournalIsPrefix ==
  ASSUME TypeOK, JournalThenQueue
  PROVE  /\ Len(journal) \in Nat /\ Len(commands) \in Nat
         /\ Len(sent) = Len(journal) + Len(commands)
         /\ commands = <<>> => Len(journal) = Len(sent)
         /\ commands # <<>> => sent[Len(journal) + 1] = Head(commands)
<1>1. /\ journal \in Seq(Command) /\ commands \in Seq(Command)
      /\ sent = journal \o commands
  BY Zenon DEF TypeOK, JournalThenQueue
<1>2. /\ Len(journal) \in Nat /\ Len(commands) \in Nat
      /\ Len(sent) = Len(journal) + Len(commands)
      /\ commands = <<>> => Len(commands) = 0
      /\ commands # <<>> => Len(commands) > 0 /\ Head(commands) = commands[1]
  BY <1>1, ConcatProperties, LenProperties, EmptySeq, HeadTailProperties
<1>3. ASSUME commands # <<>> PROVE sent[Len(journal) + 1] = commands[1]
  BY <1>1, <1>2, <1>3, ConcatProperties
<1> QED
  BY <1>2, <1>3

\* One task at a time has the receiver (try_lock, and the guard's drop).
LEMMA OwnedStep == TypeOK /\ ReceiverOwned /\ [Next]_vars => ReceiverOwned'
<1> SUFFICES ASSUME TypeOK, ReceiverOwned, [Next]_vars PROVE ReceiverOwned'
  BY Zenon
<1> USE SignalAssumption
<1>1. ASSUME NEW a \in Agents, Step(a) PROVE ReceiverOwned'
  <2>1. CASE DrainTryLock(a)
    BY <2>1 DEF TypeOK, ReceiverOwned, DrainTryLock, Goto
  <2>2. CASE DrainOne(a)
    BY <2>2, Zenon DEF ReceiverOwned, DrainOne
  <2>3. CASE DrainEnd(a)
    BY <2>3, Zenon DEF TypeOK, ReceiverOwned, DrainEnd, Goto
  <2>4. CASE TestState(a)
    BY <2>4, Zenon DEF TypeOK, ReceiverOwned, TestState, Goto
  <2>5. CASE Snapshot(a) \/ TestGeneration(a)
    BY <2>5, Zenon DEF TypeOK, ReceiverOwned, Snapshot, TestGeneration, Goto
  <2>6. CASE Park(a)
    BY <2>6 DEF TypeOK, ReceiverOwned, Park, Goto
  <2>7. CASE Wake(a) \/ Receive(a)
    <3>1. /\ guard' = IF guard = a THEN Nobody ELSE guard
          /\ pc' = [pc EXCEPT ![a] = LoopHead(a)]
          /\ LoopHead(a) \in {"lock", "state"}
      BY <2>7, Zenon DEF Wake, Receive, Release, LoopHead, Goto
    <3> QED
      BY <3>1, Zenon DEF TypeOK, ReceiverOwned
  <2> QED
    BY <1>1, <2>1, <2>2, <2>3, <2>4, <2>5, <2>6, <2>7, Zenon DEF Step
<1>2. ASSUME NEW a \in Agents, Drop(a) PROVE ReceiverOwned'
  BY <1>2 DEF TypeOK, ReceiverOwned, Drop, Release, Parked, Goto
<1>8. ASSUME NEW gone, guard' = (IF guard \in gone THEN Nobody ELSE guard),
             NEW a \in Agents, pc[a] \notin {"drain", "hold"},
             \A b \in Agents : b \in gone \cup {a} => pc'[b] \notin {"drain", "hold"},
             \A b \in Agents : b \notin gone \cup {a} => pc'[b] = pc[b]
      PROVE  ReceiverOwned'
  BY <1>8, Zenon DEF ReceiverOwned
<1>9. ASSUME NEW a \in Agents, Finish(a) PROVE ReceiverOwned'
  <2>1. PICK gone \in Cancelled(a) :
          /\ Gone(gone \cup {a})
          /\ pc' = [b \in Agents |-> IF b \in gone \cup {a} THEN "off" ELSE pc[b]]
    BY <1>9, Zenon DEF Finish
  <2>2. guard' = IF guard \in gone \cup {a} THEN Nobody ELSE guard
    BY <2>1, Zenon DEF Gone
  <2> QED
    BY <1>8, <1>9, <2>1, <2>2, Zenon DEF Finish
<1>3. ASSUME NEW a \in Agents, NEW m \in {"check", "abort"}, Enter(a, m) PROVE ReceiverOwned'
  BY <1>3, Zenon DEF TypeOK, ReceiverOwned, Enter, Goto
<1>4. ASSUME NEW p \in Agents, NEW a \in Agents, Spawn(p, a) PROVE ReceiverOwned'
  BY <1>4, Zenon DEF TypeOK, ReceiverOwned, Spawn, Goto
<1>5. CASE Input
  BY <1>5, Zenon DEF TypeOK, ReceiverOwned, Input, Release, Parked, Goto
<1>6. CASE EndTurn
  <2>1. PICK gone \in Cancelled(Top) :
          /\ Gone(gone)
          /\ pc' = [b \in Agents |-> IF b = Top THEN "lock"
                                     ELSE IF b \in gone THEN "off" ELSE pc[b]]
    BY <1>6, Zenon DEF EndTurn
  <2>2. guard' = IF guard \in gone THEN Nobody ELSE guard
    BY <2>1, Zenon DEF Gone
  <2> QED
    BY <1>6, <1>8, <2>1, <2>2, Zenon DEF EndTurn
<1>7. CASE UNCHANGED <<guard, pc>>
  BY <1>7, Zenon DEF ReceiverOwned
<1> QED
  BY <1>1, <1>2, <1>3, <1>4, <1>5, <1>6, <1>7, <1>9, Zenon
  DEF Next, Send, Disconnect, Signal, Ended, vars

\* A closed receiver leaves no command behind (drain and wait_abort give it
\* up when the channel is empty and every sender is gone).
LEMMA ClosedStep == TypeOK /\ ClosedEmpty /\ [Next]_vars => ClosedEmpty'
<1> SUFFICES ASSUME TypeOK, ClosedEmpty, [Next]_vars PROVE ClosedEmpty'
  BY Zenon
<1>1. ASSUME NEW c \in Command, Send(c) PROVE ClosedEmpty'
  BY <1>1, Zenon DEF Send, ClosedEmpty
<1>2. CASE Disconnect
  BY <1>2, Zenon DEF Disconnect, ClosedEmpty
<1>3. ASSUME NEW a \in Agents, DrainOne(a) PROVE ClosedEmpty'
  BY <1>3, Zenon DEF DrainOne, ClosedEmpty
<1>4. ASSUME NEW a \in Agents, DrainEnd(a) PROVE ClosedEmpty'
  BY <1>4, Zenon DEF DrainEnd, ClosedEmpty
<1>5. ASSUME NEW a \in Agents, Receive(a) PROVE ClosedEmpty'
  <2>1. CASE commands # <<>> /\ receiver' = receiver
    BY <2>1, Zenon DEF ClosedEmpty
  <2>2. CASE commands' = <<>> /\ ~connected'
    BY <2>2, Zenon DEF ClosedEmpty
  <2> QED
    BY <1>5, <2>1, <2>2, Zenon DEF Receive
<1>6. CASE UNCHANGED <<receiver, connected, commands>>
  BY <1>6, Zenon DEF ClosedEmpty
<1>7. ASSUME NEW a \in Agents, Step(a) \/ Drop(a) \/ Finish(a),
             ~DrainOne(a), ~DrainEnd(a), ~Receive(a)
      PROVE  UNCHANGED <<receiver, connected, commands>>
  BY <1>7, Zenon DEF Step, DrainTryLock, TestState, Snapshot, TestGeneration, Park, Wake, Drop,
     Finish
<1> QED
  BY <1>1, <1>2, <1>3, <1>4, <1>5, <1>6, <1>7, Zenon
  DEF Next, Signal, Enter, Spawn, Input, EndTurn, Ended, vars

\* A subagent that ends, with those it cancels, leaves the top-level task
\* alone (run_subagent and cancel_uncollected_children).
LEMMA FinishFrame ==
  ASSUME TypeOK, NEW a \in Agents, Finish(a)
  PROVE  /\ pc[a] # "off" /\ a # Top
         /\ pc'[Top] = pc[Top] /\ mode'[Top] = mode[Top]
         /\ reason'[Top] = reason[Top] /\ generation'[Top] = generation[Top]
         /\ UNCHANGED <<interrupts, journal, sent, mark, crowded>>
<1>1. PICK gone \in Cancelled(a) :
        /\ Gone(gone \cup {a})
        /\ pc' = [b \in Agents |-> IF b \in gone \cup {a} THEN "off" ELSE pc[b]]
        /\ mode' = [b \in Agents |-> IF b \in gone \cup {a} THEN "abort" ELSE mode[b]]
        /\ reason' = [b \in Agents |-> IF b \in gone \cup {a} THEN None ELSE reason[b]]
  BY Zenon DEF Finish
<1>2. Top \in Agents /\ Top \notin gone \cup {a}
  BY SignalAssumption, Zenon DEF Cancelled, Running, Subagents, Finish
<1>3. generation'[Top] = generation[Top]
  BY <1>1, <1>2, Zenon DEF Gone
<1> QED
  BY <1>1, <1>2, <1>3, Zenon DEF Finish, history

\* Between an input and the turn's start only a subagent that already runs
\* can start another (the Agent tool is a step of a turn).
LEMMA AloneStep == TypeOK /\ TopAlone /\ [Next]_vars => TopAlone'
<1> SUFFICES ASSUME TypeOK, TopAlone, [Next]_vars PROVE TopAlone'
  BY Zenon
<1> USE SignalAssumption
<1>0. mode[Top] \in {"idle", "wait", "turn", "check", "abort"}
  BY Zenon DEF TypeOK, Modes
<1>1. ASSUME NEW a \in Agents, a # Top, pc[a] # "off",
             pc'[Top] = pc[Top], mode'[Top] = mode[Top], crowded' = crowded
      PROVE  TopAlone'
  BY <1>1, Zenon DEF TopAlone, Subagents
<1>2. ASSUME NEW a \in Agents, Step(a) \/ Drop(a), a # Top PROVE TopAlone'
  <2>1. pc[a] # "off"
    BY <1>2, Zenon DEF Step, DrainTryLock, DrainOne, DrainEnd, TestState, Snapshot, TestGeneration,
                Park, Wake, Receive, Drop, Parked
  <2>2. mode'[Top] = mode[Top] /\ crowded' = crowded
    BY <1>2, Zenon DEF TypeOK, Step, DrainTryLock, DrainOne, DrainEnd, TestState, Snapshot,
                TestGeneration, Park, Wake, Receive, Drop, history
  <2>3. pc'[Top] = pc[Top]
    BY <1>2, Zenon DEF TypeOK, Step, DrainTryLock, DrainOne, DrainEnd, TestState, Snapshot,
                TestGeneration, Park, Wake, Receive, Drop, Goto
  <2> QED
    BY <1>1, <1>2, <2>1, <2>2, <2>3, Zenon
<1>3. ASSUME NEW a \in Agents, Finish(a) PROVE TopAlone'
  BY <1>1, <1>3, FinishFrame, Zenon
<1>4. ASSUME Step(Top) \/ Drop(Top) PROVE TopAlone'
  <2>0. crowded' = crowded
    BY <1>4, Zenon DEF Step, DrainTryLock, DrainOne, DrainEnd, TestState, Snapshot,
                TestGeneration, Park, Wake, Receive, Drop, history
  <2>1. CASE DrainTryLock(Top) \/ DrainOne(Top) \/ DrainEnd(Top)
    BY <2>0, <2>1, Zenon DEF TypeOK, TopAlone, Subagents, DrainTryLock, DrainOne, DrainEnd, Goto
  <2>2. CASE TestState(Top)
    BY <1>0, <2>0, <2>2, Zenon DEF TypeOK, TopAlone, Subagents, TestState, Live, Goto
  <2>3. CASE Snapshot(Top) \/ TestGeneration(Top)
    BY <1>0, <2>0, <2>3, Zenon DEF TypeOK, TopAlone, Subagents, Snapshot, TestGeneration, Goto
  <2>4. CASE Park(Top)
    BY <1>0, <2>0, <2>4, Zenon DEF TypeOK, TopAlone, Subagents, Park, Goto
  <2>5. CASE Wake(Top) \/ Receive(Top)
    <3>1. /\ pc' = [pc EXCEPT ![Top] = IF mode[Top] = "wait" THEN "state" ELSE "lock"]
          /\ mode' = mode
      BY <2>5, Zenon DEF Wake, Receive, LoopHead, Goto
    <3> QED
      BY <1>0, <2>0, <2>5, <3>1, Zenon DEF TypeOK, TopAlone, Subagents, Wake, Receive, Parked
  <2>6. CASE Drop(Top)
    BY <2>0, <2>6, Zenon DEF TypeOK, TopAlone, Subagents, Drop, Goto
  <2> QED
    BY <1>4, <2>1, <2>2, <2>3, <2>4, <2>5, <2>6, Zenon DEF Step
<1>5. ASSUME NEW a \in Agents, NEW m \in {"check", "abort"}, Enter(a, m) PROVE TopAlone'
  <2>1. CASE a = Top
    BY <1>5, <2>1, Zenon DEF TypeOK, TopAlone, Enter
  <2>2. CASE a # Top
    BY <1>1, <1>5, <2>2, Zenon DEF TypeOK, Enter, Goto, history
  <2> QED
    BY <2>1, <2>2, Zenon
<1>6. ASSUME NEW p \in Agents, NEW a \in Agents, Spawn(p, a) PROVE TopAlone'
  <2>1. pc'[Top] = pc[Top] /\ mode'[Top] = mode[Top] /\ crowded' = crowded /\ pc[p] = "work"
    BY <1>6, Zenon DEF TypeOK, Spawn, Goto, history
  <2>2. CASE p = Top
    BY <1>0, <2>1, <2>2, Zenon DEF TopAlone
  <2>3. CASE p # Top
    BY <1>1, <2>1, <2>3, Zenon
  <2> QED
    BY <2>2, <2>3, Zenon
<1>7. CASE Input
  <2>1. /\ mode'[Top] = "turn" /\ pc'[Top] = "lock" /\ crowded' = (Running # {})
        /\ \A a \in Subagents : pc'[a] = pc[a]
    BY <1>7, Zenon DEF TypeOK, Input, Goto, Subagents
  <2> QED
    BY <2>1, Zenon DEF TopAlone, Running
<1>8. CASE EndTurn
  <2>1. mode'[Top] = "idle" /\ pc'[Top] = "lock"
    BY <1>8, Zenon DEF EndTurn
  <2> QED
    BY <2>1, Zenon DEF TopAlone
<1>9. CASE UNCHANGED <<pc, mode, crowded>>
  BY <1>9, Zenon DEF TopAlone
<1> QED
  BY <1>2, <1>3, <1>4, <1>5, <1>6, <1>7, <1>8, <1>9, Zenon
  DEF Next, Send, Disconnect, Signal, Ended, vars, history

\* The top-level task is where InputFirst speaks of after a step only if it
\* was there before.
TopKept ==
  /\ UNCHANGED <<mark, crowded>>
  /\ mode'[Top] = mode[Top]
  /\ reason'[Top] = reason[Top]
  /\ generation'[Top] = generation[Top]
  /\ ~crowded /\ mode[Top] = "turn" /\ pc'[Top] \in {"state", "gen"} =>
       pc[Top] \in {"state", "gen"}

\* Applying the oldest command, in a turn, is applying one that was sent
\* after the turn's input (ShutdownSignal::apply).
LEMMA ApplyInputFirst ==
  ASSUME TypeOK, JournalThenQueue, InputFirst, commands # <<>>, ApplyHead,
         TopKept, UNCHANGED sent
  PROVE  InputFirst'
<1> DEFINE n == Len(journal)
<1>1. /\ n \in Nat /\ mark \in Nat /\ Len(sent) \in Nat
      /\ sent[n + 1] = Head(commands)
  BY JournalIsPrefix DEF TypeOK
<1>2. Head(commands) \in Command
  BY HeadTailProperties, Zenon DEF TypeOK
<1>3. Len(journal') = n + 1
  BY <1>2, AppendProperties, Zenon DEF TypeOK, ApplyHead
<1>4. /\ interrupts \in Nat /\ generation[Top] \in Nat
      /\ interrupts' = IF Head(commands) = Interrupt THEN interrupts + 1 ELSE interrupts
  BY SignalAssumption, Zenon DEF TypeOK, ApplyHead
<1>5. ASSUME ~crowded, InTurn, interrupts' > generation[Top]
      PROVE  \E i \in (mark + 1)..(n + 1) : sent[i] = Interrupt
  <2>1. CASE Head(commands) = Interrupt
    <3>1. n + 1 \in (mark + 1)..(n + 1)
      BY <1>1, <1>5 DEF InputFirst
    <3> QED
      BY <1>1, <2>1, <3>1, Zenon
  <2>2. CASE Head(commands) # Interrupt
    <3>1. PICK i \in (mark + 1)..n : sent[i] = Interrupt
      BY <1>4, <1>5, <2>2, Zenon DEF InputFirst
    <3>2. i \in (mark + 1)..(n + 1)
      BY <1>1, <3>1
    <3> QED
      BY <3>1, <3>2, Zenon
  <2> QED
    BY <2>1, <2>2, Zenon
<1> HIDE DEF n
<1>6. InTurn' <=> InTurn
  BY Zenon DEF InTurn, TopKept
<1>7. ~crowded /\ (InTurn \/ (mode[Top] = "turn" /\ pc'[Top] \in {"state", "gen"})) =>
        mark <= n + 1
  BY <1>1 DEF InputFirst, TopKept, n
<1>8. reason[Top] = Interrupt => InTurn /\ interrupts' > generation[Top]
  BY <1>4 DEF InputFirst
<1> QED
  BY <1>3, <1>5, <1>6, <1>7, <1>8, Zenon DEF InputFirst, TopKept

\* The turn's input comes first: what was sent before it is applied, and
\* counted, before the turn reads its generation (top_level_loop checks the
\* signal between the input and the turn).
LEMMA InputFirstStep ==
  /\ TypeOK /\ JournalThenQueue /\ ReceiverOwned /\ ClosedEmpty /\ TopAlone
  /\ InputFirst /\ [Next]_vars
  => InputFirst'
<1> SUFFICES ASSUME TypeOK, JournalThenQueue, ReceiverOwned, ClosedEmpty, TopAlone,
                    InputFirst, [Next]_vars
             PROVE  InputFirst'
  BY Zenon
<1> USE SignalAssumption
<1>0. /\ Len(journal) \in Nat /\ Len(sent) \in Nat /\ mark \in Nat
      /\ Len(journal) <= Len(sent)
      /\ commands = <<>> => Len(journal) = Len(sent)
      /\ mode[Top] \in {"idle", "wait", "turn", "check", "abort"}
  BY JournalIsPrefix DEF TypeOK, Modes
<1>1. ASSUME TopKept, UNCHANGED <<interrupts, journal, sent>> PROVE InputFirst'
  BY <1>1, Zenon DEF InputFirst, TopKept, InTurn
<1>2. ASSUME NEW c \in Command, Send(c) PROVE InputFirst'
  <2>1. /\ Len(sent') = Len(sent) + 1
        /\ \A i \in 1..Len(sent) : sent'[i] = sent[i]
    BY <1>2, AppendProperties DEF TypeOK, Send
  <2>2. \A i \in (mark + 1)..Len(journal) : sent'[i] = sent[i]
    BY <1>0, <2>1
  <2> QED
    BY <1>0, <1>2, <2>1, <2>2 DEF InputFirst, InTurn, Send
<1>3. ASSUME NEW a \in Agents, a # Top, Step(a) \/ Drop(a) PROVE InputFirst'
  <2>1. TopKept
    <3>1. pc'[Top] = pc[Top] /\ mode'[Top] = mode[Top] /\ UNCHANGED <<mark, crowded>>
      BY <1>3, Zenon DEF TypeOK, Step, DrainTryLock, DrainOne, DrainEnd, TestState, Snapshot,
                  TestGeneration, Park, Wake, Receive, Drop, Goto, history
    <3>2. reason'[Top] = reason[Top] /\ generation'[Top] = generation[Top]
      BY <1>3, Zenon DEF TypeOK, Step, DrainTryLock, DrainOne, DrainEnd, TestState, Snapshot,
                  TestGeneration, Park, Wake, Receive, Drop
    <3> QED
      BY <3>1, <3>2, Zenon DEF TopKept
  <2>2. CASE DrainOne(a) \/ (Receive(a) /\ commands # <<>>)
    BY <2>1, <2>2, ApplyInputFirst, Zenon DEF DrainOne, Receive, history
  <2>3. CASE UNCHANGED <<interrupts, journal, sent>>
    BY <1>1, <2>1, <2>3, Zenon
  <2> QED
    BY <1>3, <2>2, <2>3, Zenon
    DEF Step, DrainTryLock, DrainEnd, TestState, Snapshot, TestGeneration, Park, Wake, Receive,
        Drop, history
<1>17. ASSUME NEW a \in Agents, Finish(a) PROVE InputFirst'
  BY <1>1, <1>17, FinishFrame, Zenon DEF TopKept
<1>4. ASSUME DrainTryLock(Top) PROVE InputFirst'
  <2>1. CASE mode[Top] = "turn" /\ ~crowded
    <3>1. \A a \in Subagents : pc[a] = "off"
      BY <2>1, Zenon DEF TopAlone
    <3>2. guard = Nobody
      BY <1>4, <3>1, Zenon DEF TypeOK, ReceiverOwned, Subagents, DrainTryLock
    <3> QED
      BY <1>1, <1>4, <3>2, Zenon DEF TypeOK, TopKept, DrainTryLock, Goto, history
  <2>2. CASE mode[Top] # "turn" \/ crowded
    BY <1>1, <1>4, <2>2, Zenon DEF TypeOK, TopKept, DrainTryLock, Goto, history
  <2> QED
    BY <2>1, <2>2, Zenon
<1>5. ASSUME DrainOne(Top) PROVE InputFirst'
  BY <1>5, ApplyInputFirst, Zenon DEF DrainOne, TopKept, history
<1>6. ASSUME DrainEnd(Top) PROVE InputFirst'
  <2>1. commands = <<>>
    BY <1>6, Zenon DEF DrainEnd, ClosedEmpty
  <2> QED
    BY <1>0, <1>6, <2>1, Zenon DEF InputFirst, InTurn, DrainEnd, history
<1>7. ASSUME TestState(Top) PROVE InputFirst'
  <2>1. mode' = mode \/ (mode' = [mode EXCEPT ![Top] = "wait"] /\ mode[Top] = "idle")
    BY <1>7, Zenon DEF TestState
  <2>2. reason'[Top] = Interrupt => reason[Top] = Interrupt
    BY <1>7, Zenon DEF TypeOK, TestState
  <2> QED
    BY <1>7, <2>1, <2>2, Zenon DEF TypeOK, InputFirst, InTurn, TestState, history
<1>8. ASSUME Snapshot(Top) PROVE InputFirst'
  BY <1>8 DEF TypeOK, InputFirst, InTurn, Snapshot, history
<1>9. ASSUME TestGeneration(Top) PROVE InputFirst'
  <2>1. InTurn
    BY <1>0, <1>9, Zenon DEF TopAlone, InTurn, TestGeneration
  <2> QED
    BY <1>9, <2>1, Zenon DEF TypeOK, InputFirst, InTurn, TestGeneration, history
<1>10. ASSUME Park(Top) \/ Wake(Top) \/ Drop(Top) PROVE InputFirst'
  <2>1. mode[Top] = "turn" => pc[Top] \notin {"park", "hold", "watch"}
    BY Zenon DEF TopAlone
  <2>2. TopKept /\ UNCHANGED <<interrupts, journal, sent>>
    BY <1>10, <2>1, Zenon DEF TypeOK, TopKept, Park, Wake, Drop, Parked, Goto, history
  <2> QED
    BY <1>1, <2>2, Zenon
<1>11. ASSUME Receive(Top) PROVE InputFirst'
  <2>1. TopKept
    BY <1>11, Zenon DEF TopKept, TopAlone, Receive, history
  <2> QED
    BY <1>1, <1>11, <2>1, ApplyInputFirst, Zenon DEF Receive, history
<1>12. ASSUME NEW a \in Agents, NEW m \in {"check", "abort"}, Enter(a, m) PROVE InputFirst'
  BY <1>0, <1>12, Zenon DEF TypeOK, InputFirst, TopAlone, InTurn, Enter, Goto, history
<1>13. ASSUME NEW p \in Agents, NEW a \in Agents, Spawn(p, a) PROVE InputFirst'
  BY <1>13, Zenon DEF TypeOK, InputFirst, InTurn, Spawn, Goto, history
<1>14. CASE Input
  BY <1>0, <1>14 DEF TypeOK, InputFirst, InTurn, Input, Goto
<1>15. CASE EndTurn
  <2>1. /\ mode'[Top] = "idle" /\ reason'[Top] = None
        /\ mark' = mark /\ sent' = sent
    BY <1>15, Zenon DEF EndTurn, history
  <2> QED
    BY <2>1, Zenon DEF InputFirst, InTurn
<1>16. CASE Disconnect \/ Signal \/ UNCHANGED vars
  BY <1>1, <1>16, Zenon DEF TopKept, Disconnect, Signal, vars, history
<1> QED
  BY <1>2, <1>3, <1>4, <1>5, <1>6, <1>7, <1>8, <1>9, <1>10, <1>11, <1>12, <1>13, <1>14,
     <1>15, <1>16, <1>17, Zenon DEF Next, Step, Ended

\* "An interrupt sent while the harness was idle does not abort the next
\* turn" (shutdown.rs, module comment), for any number of tasks that share
\* the receiver and any capacity of the channel: a turn is stopped by an
\* interrupt only if one was sent after the turn's input, provided no
\* detached subagent ran when the input arrived.
THEOREM IdleInterrupt == Spec => []IdleInterruptConsumed
<1> DEFINE IInv == ReceiverOwned /\ ClosedEmpty /\ TopAlone /\ InputFirst
<1>1. Init => IInv
  BY SignalAssumption, EmptySeq
  DEF Init, ReceiverOwned, ClosedEmpty, TopAlone, InputFirst, InTurn, Subagents
<1>2. TypeOK /\ JournalThenQueue /\ IInv /\ [Next]_vars => IInv'
  BY OwnedStep, ClosedStep, AloneStep, InputFirstStep, Zenon
<1>3. TypeOK /\ JournalThenQueue /\ IInv => IdleInterruptConsumed
  <2> SUFFICES ASSUME TypeOK, JournalThenQueue, InputFirst, reason[Top] = Interrupt, ~crowded
               PROVE  \E i \in (mark + 1)..Len(sent) : sent[i] = Interrupt
    BY Zenon DEF IdleInterruptConsumed
  <2>1. PICK i \in (mark + 1)..Len(journal) : sent[i] = Interrupt
    BY Zenon DEF InputFirst
  <2>2. i \in (mark + 1)..Len(sent)
    BY <2>1, JournalIsPrefix DEF TypeOK
  <2> QED
    BY <2>1, <2>2, Zenon
<1> QED
  BY <1>1, <1>2, <1>3, TypeCorrect, CommandsKept, PTL DEF Spec

-----------------------------------------------------------------------------
(* Setup and shutdown.                                                     *)

\* The stages up to the session, in the order in which a run comes to them.
ToAttach == {"open", "attach"}
ToProxy == ToAttach \cup {"proxy"}
ToHelper == ToProxy \cup {"scratch", "helper"}
ToFrontend == ToHelper \cup {"accept", "frontend"}
Setup == ToFrontend \cup {"backend", "session", "shell"}

\* The stages after each step of finish.
AfterDetach == {"return", "ended"}
AfterProxy == AfterDetach \cup {"finish_detach"}
AfterSandbox == AfterProxy \cup {"finish_proxy"}
AfterFrontend == AfterSandbox \cup {"finish_sandbox"}

\* The errors and the ends of a session.
Errors == {Ok, "setup", "session", "sandbox", "shell", "mismatch"}
Ends == {Ok, "llm", "error", "mismatch"}

\* What is up, by stage.
WorkspaceUp == stage \in ToAttach \cup AfterDetach => ~workspace
ProxyUp == stage \in ToProxy \cup AfterProxy => ~proxyUp
HelperUp ==
    /\ bundle \/ forwarder => helper
    /\ forwarder \/ container => sandbox = "gvisor"
    /\ container => helper \/ failed = "setup"
    /\ stage \in ToHelper \cup {"unwind"} => ~helper
    /\ stage \in AfterSandbox /\ helper => orphan
    /\ scratch => helper \/ blocked \/ stage = "helper"
FrontendUp ==
    /\ stage \in ToFrontend \cup {"unwind"} => ~frontend /\ ~runFile
    /\ runFile => (frontend \/ failed = "setup") /\ ~scripted
    /\ stage \in AfterFrontend => (frontend => orphan \/ scripted)
    /\ stage \in AfterFrontend => (runFile => orphan \/ failed = "setup")

\* How the run went, and the error it returns.
Verdict ==
    /\ failed \in Errors /\ end \in Ends
    /\ stage \in Setup => failed = Ok
    /\ stage \in {"frontend", "backend"} => program = "run"
    /\ stage = "shell" => program = "shell"
    /\ end = "error" => failed # Ok
    /\ end = "mismatch" => scripted
    /\ leftover => scripted
    /\ failed = "mismatch" => scripted
    /\ failed = "shell" => program = "shell"
    /\ blocked /\ program = "run" => failed # Ok

\* The exit code.
Code ==
    /\ stage # "ended" => code = NotYet
    /\ stage = "ended" => (server => orphan)
    /\ stage = "ended" /\ program = "run" /\ code = 0 => ~RunError /\ ~ScriptFailure /\ end # "llm"

\* The inductive invariant: a process that was killed leaves everything behind.
Kept == WorkspaceUp /\ ProxyUp /\ HelperUp /\ FrontendUp /\ Verdict /\ Code
LifeInv ==
    /\ program \in {"run", "shell"} /\ sandbox \in {"gvisor", "sandbox-exec"}
    /\ code = 256 => stage = "ended"
    /\ code # 256 => Kept

\* The invariant says what EndsClean asks when the process has ended.
LEMMA LifeFollows == LifeInv => EndsClean
BY DEF LifeInv, Kept, WorkspaceUp, ProxyUp, HelperUp, FrontendUp, Verdict, Code, EndsClean,
   AfterDetach, AfterProxy, AfterSandbox, AfterFrontend, Errors, Ends, RunError, ScriptFailure,
   Ok

\* Before the first step nothing is up.
LEMMA LifeInit == LifecycleInit => LifeInv
BY DEF LifecycleInit, LifeInv, Kept, WorkspaceUp, ProxyUp, HelperUp, FrontendUp, Verdict, Code,
   AfterDetach, AfterProxy, AfterSandbox, AfterFrontend, Errors, Ends, ToAttach, ToProxy,
   ToHelper, ToFrontend, Setup, NotYet, Ok

\* Every step of setup, session, finish and return keeps the invariant.
LEMMA LifeStep == LifeInv /\ LifecycleNext => LifeInv'
<1> SUFFICES ASSUME LifeInv, LifecycleNext PROVE LifeInv'
    BY Zenon
<1> USE DEF ToAttach, ToProxy, ToHelper, ToFrontend, Setup, AfterDetach, AfterProxy,
   AfterSandbox, AfterFrontend, Ok, NotYet, fixed, running, parts, outcome, OnError,
   NoteFailure, SetupFails, SetupGoesOn
<1>1. CASE Open
  <2>1. code # 256 /\ Kept /\ code' # 256 /\ UNCHANGED fixed
    BY <1>1 DEF LifeInv, Kept, Code, Open
  <2>2. WorkspaceUp' /\ ProxyUp'
    BY <1>1, <2>1, Zenon DEF Kept, WorkspaceUp, ProxyUp, Open
  <2>3. HelperUp'
    BY <1>1, <2>1, Zenon DEF LifeInv, Kept, HelperUp, Verdict, Open
  <2>4. FrontendUp'
    BY <1>1, <2>1, Zenon DEF LifeInv, Kept, FrontendUp, Verdict, Open
  <2>5. Verdict'
    BY <1>1, <2>1 DEF LifeInv, Kept, Verdict, Errors, Ends, Open
  <2>6. Code'
    BY <1>1, <2>1 DEF LifeInv, Kept, Code, RunError, ScriptFailure, Open
  <2> QED
    BY <2>1, <2>2, <2>3, <2>4, <2>5, <2>6, Zenon DEF LifeInv, Kept
<1>2. CASE AttachWorkspace
  <2>1. code # 256 /\ Kept /\ code' # 256 /\ UNCHANGED fixed
    BY <1>2 DEF LifeInv, Kept, Code, AttachWorkspace
  <2>2. WorkspaceUp' /\ ProxyUp'
    BY <1>2, <2>1 DEF Kept, WorkspaceUp, ProxyUp, AttachWorkspace
  <2>3. HelperUp'
    BY <1>2, <2>1, Zenon DEF LifeInv, Kept, HelperUp, Verdict, AttachWorkspace
  <2>4. FrontendUp'
    BY <1>2, <2>1, Zenon DEF LifeInv, Kept, FrontendUp, Verdict, AttachWorkspace
  <2>5. Verdict'
    BY <1>2, <2>1 DEF LifeInv, Kept, Verdict, Errors, Ends, AttachWorkspace
  <2>6. Code'
    BY <1>2, <2>1 DEF LifeInv, Kept, Code, RunError, ScriptFailure, AttachWorkspace
  <2> QED
    BY <2>1, <2>2, <2>3, <2>4, <2>5, <2>6, Zenon DEF LifeInv, Kept
<1>3. CASE StartProxy
  <2>1. code # 256 /\ Kept /\ code' # 256 /\ UNCHANGED fixed
    BY <1>3 DEF LifeInv, Kept, Code, StartProxy
  <2>2. WorkspaceUp' /\ ProxyUp'
    BY <1>3, <2>1, Zenon DEF Kept, WorkspaceUp, ProxyUp, StartProxy
  <2>3. HelperUp'
    BY <1>3, <2>1, Zenon DEF LifeInv, Kept, HelperUp, Verdict, StartProxy
  <2>4. FrontendUp'
    BY <1>3, <2>1, Zenon DEF LifeInv, Kept, FrontendUp, Verdict, StartProxy
  <2>5. Verdict'
    BY <1>3, <2>1 DEF LifeInv, Kept, Verdict, Errors, Ends, StartProxy
  <2>6. Code'
    BY <1>3, <2>1 DEF LifeInv, Kept, Code, RunError, ScriptFailure, StartProxy
  <2> QED
    BY <2>1, <2>2, <2>3, <2>4, <2>5, <2>6, Zenon DEF LifeInv, Kept
<1>4. CASE CreateScratch
  <2>1. code # 256 /\ Kept /\ code' # 256 /\ UNCHANGED fixed
    BY <1>4 DEF LifeInv, Kept, Code, CreateScratch
  <2>2. WorkspaceUp' /\ ProxyUp'
    BY <1>4, <2>1, Zenon DEF Kept, WorkspaceUp, ProxyUp, CreateScratch
  <2>3. HelperUp'
    BY <1>4, <2>1 DEF LifeInv, Kept, HelperUp, Verdict, CreateScratch
  <2>4. FrontendUp'
    BY <1>4, <2>1, Zenon DEF LifeInv, Kept, FrontendUp, Verdict, CreateScratch
  <2>5. Verdict'
    BY <1>4, <2>1 DEF LifeInv, Kept, Verdict, Errors, Ends, CreateScratch
  <2>6. Code'
    BY <1>4, <2>1 DEF LifeInv, Kept, Code, RunError, ScriptFailure, CreateScratch
  <2> QED
    BY <2>1, <2>2, <2>3, <2>4, <2>5, <2>6, Zenon DEF LifeInv, Kept
<1>5. CASE SpawnGvisor
  <2>1. code # 256 /\ Kept /\ code' # 256 /\ UNCHANGED fixed
    BY <1>5 DEF LifeInv, Kept, Code, SpawnGvisor, StartFails, RemoveScratch
  <2>2. WorkspaceUp' /\ ProxyUp'
    BY <1>5, <2>1, Zenon DEF Kept, WorkspaceUp, ProxyUp, SpawnGvisor, StartFails, RemoveScratch
  <2>3. HelperUp'
    BY <1>5, <2>1, Zenon DEF LifeInv, Kept, HelperUp, Verdict, SpawnGvisor, StartFails, RemoveScratch
  <2>4. FrontendUp'
    BY <1>5, <2>1, Zenon DEF LifeInv, Kept, FrontendUp, Verdict, SpawnGvisor, StartFails, RemoveScratch
  <2>5. Verdict'
    BY <1>5, <2>1 DEF LifeInv, Kept, Verdict, Errors, Ends, SpawnGvisor, StartFails,
       RemoveScratch
  <2>6. Code'
    BY <1>5, <2>1 DEF LifeInv, Kept, Code, RunError, ScriptFailure, SpawnGvisor, StartFails,
       RemoveScratch
  <2> QED
    BY <2>1, <2>2, <2>3, <2>4, <2>5, <2>6, Zenon DEF LifeInv, Kept
<1>6. CASE SpawnSandboxExec
  <2>1. code # 256 /\ Kept /\ code' # 256 /\ UNCHANGED fixed
    BY <1>6 DEF LifeInv, Kept, Code, SpawnSandboxExec, StartFails, RemoveScratch
  <2>2. WorkspaceUp' /\ ProxyUp'
    BY <1>6, <2>1, Zenon DEF Kept, WorkspaceUp, ProxyUp, SpawnSandboxExec, StartFails, RemoveScratch
  <2>3. HelperUp'
    BY <1>6, <2>1 DEF LifeInv, Kept, HelperUp, Verdict, SpawnSandboxExec, StartFails,
       RemoveScratch
  <2>4. FrontendUp'
    BY <1>6, <2>1, Zenon DEF LifeInv, Kept, FrontendUp, Verdict, SpawnSandboxExec, StartFails,
       RemoveScratch
  <2>5. Verdict'
    BY <1>6, <2>1 DEF LifeInv, Kept, Verdict, Errors, Ends, SpawnSandboxExec, StartFails,
       RemoveScratch
  <2>6. Code'
    BY <1>6, <2>1 DEF LifeInv, Kept, Code, RunError, ScriptFailure, SpawnSandboxExec,
       StartFails, RemoveScratch
  <2> QED
    BY <2>1, <2>2, <2>3, <2>4, <2>5, <2>6, Zenon DEF LifeInv, Kept
<1>7. CASE AcceptHelper
  <2>1. code # 256 /\ Kept /\ code' # 256 /\ UNCHANGED fixed
    BY <1>7 DEF LifeInv, Kept, Code, AcceptHelper, StartFails, RemoveScratch
  <2>2. WorkspaceUp' /\ ProxyUp'
    BY <1>7, <2>1, Zenon DEF Kept, WorkspaceUp, ProxyUp, AcceptHelper, StartFails, RemoveScratch
  <2>3. HelperUp'
    <3>1. CASE stage' = (IF program = "run" THEN "frontend" ELSE "shell") /\ failed' = failed
               /\ UNCHANGED <<helper, running, scratch, blocked>>
      BY <1>7, <2>1, <3>1, Zenon DEF Kept, HelperUp, AcceptHelper
    <3>2. CASE StartFails /\ container' \in {FALSE, container}
      <4>1. failed' = "setup" /\ stage' \in {"finish_frontend", "unwind"}
        BY <1>7, <2>1, <3>2, Zenon DEF Kept, Verdict, AcceptHelper, StartFails
      <4>2. scratch' => blocked'
        BY <3>2, Zenon DEF StartFails, RemoveScratch
      <4>3. /\ helper' = FALSE /\ bundle' = FALSE /\ forwarder' = FALSE
            /\ UNCHANGED sandbox
        BY <2>1, <3>2, Zenon DEF StartFails
      <4>4. container' => container
        <5>1. container' = FALSE \/ container' = container
          BY <3>2
        <5> QED
          BY <5>1, Zenon
      <4>5. container => sandbox = "gvisor"
        BY <2>1, Zenon DEF Kept, HelperUp
      <4> QED
        BY <4>1, <4>2, <4>3, <4>4, <4>5, Zenon DEF HelperUp
    <3> QED
      BY <1>7, <3>1, <3>2, Zenon DEF AcceptHelper
  <2>4. FrontendUp'
    BY <1>7, <2>1, Zenon DEF LifeInv, Kept, FrontendUp, Verdict, AcceptHelper, StartFails,
       RemoveScratch
  <2>5. Verdict'
    <3>1. failed = Ok /\ UNCHANGED <<end, leftover, scripted, program>>
      BY <1>7, <2>1, Zenon DEF Kept, Verdict, AcceptHelper
    <3>2. CASE stage' = (IF program = "run" THEN "frontend" ELSE "shell") /\ failed' = failed
               /\ UNCHANGED blocked
      BY <1>7, <2>1, <3>1, <3>2 DEF LifeInv, Kept, Verdict, AcceptHelper
    <3>3. CASE failed' = "setup" /\ stage' \in {"finish_frontend", "unwind"}
      BY <2>1, <3>1, <3>3 DEF Kept, Verdict, Errors
    <3> QED
      BY <1>7, <3>1, <3>2, <3>3, Zenon DEF AcceptHelper, StartFails
  <2>6. Code'
    BY <1>7, <2>1 DEF LifeInv, Kept, Code, RunError, ScriptFailure, AcceptHelper, StartFails,
       RemoveScratch
  <2> QED
    BY <2>1, <2>2, <2>3, <2>4, <2>5, <2>6, Zenon DEF LifeInv, Kept
<1>8. CASE StartFrontend
  <2>1. code # 256 /\ Kept /\ code' # 256 /\ UNCHANGED fixed
    BY <1>8 DEF LifeInv, Kept, Code, StartFrontend
  <2>2. WorkspaceUp' /\ ProxyUp'
    BY <1>8, <2>1, Zenon DEF Kept, WorkspaceUp, ProxyUp, StartFrontend
  <2>3. HelperUp'
    BY <1>8, <2>1, Zenon DEF LifeInv, Kept, HelperUp, Verdict, StartFrontend
  <2>4. FrontendUp'
    <3>1. /\ failed = Ok /\ program = "run" /\ stage' \in {"backend", "finish_frontend"}
          /\ stage' = "finish_frontend" => failed' = "setup"
          /\ stage' = "backend" => frontend'
      BY <1>8, <2>1, Zenon DEF Kept, Verdict, StartFrontend
    <3>2. runFile' => ~scripted
      BY <1>8, Zenon DEF StartFrontend
    <3> QED
      BY <2>1, <3>1, <3>2, Zenon DEF FrontendUp
  <2>5. Verdict'
    BY <1>8, <2>1 DEF LifeInv, Kept, Verdict, Errors, Ends, StartFrontend
  <2>6. Code'
    BY <1>8, <2>1 DEF LifeInv, Kept, Code, RunError, ScriptFailure, StartFrontend
  <2> QED
    BY <2>1, <2>2, <2>3, <2>4, <2>5, <2>6, Zenon DEF LifeInv, Kept
<1>9. CASE StartServer
  <2>1. code # 256 /\ Kept /\ code' # 256 /\ UNCHANGED fixed
    BY <1>9 DEF LifeInv, Kept, Code, StartServer
  <2>2. WorkspaceUp' /\ ProxyUp'
    BY <1>9, <2>1, Zenon DEF Kept, WorkspaceUp, ProxyUp, StartServer
  <2>3. HelperUp'
    BY <1>9, <2>1, Zenon DEF LifeInv, Kept, HelperUp, Verdict, StartServer
  <2>4. FrontendUp'
    BY <1>9, <2>1 DEF LifeInv, Kept, FrontendUp, Verdict, StartServer
  <2>5. Verdict'
    BY <1>9, <2>1 DEF LifeInv, Kept, Verdict, Errors, Ends, StartServer
  <2>6. Code'
    BY <1>9, <2>1 DEF LifeInv, Kept, Code, RunError, ScriptFailure, StartServer
  <2> QED
    BY <2>1, <2>2, <2>3, <2>4, <2>5, <2>6, Zenon DEF LifeInv, Kept
<1>10. CASE Session
  <2>1. code # 256 /\ Kept /\ code' # 256 /\ UNCHANGED fixed
    BY <1>10 DEF LifeInv, Kept, Code, Session
  <2>2. WorkspaceUp' /\ ProxyUp'
    BY <1>10, <2>1, Zenon DEF Kept, WorkspaceUp, ProxyUp, Session
  <2>3. HelperUp'
    BY <1>10, <2>1, Zenon DEF LifeInv, Kept, HelperUp, Verdict, Session
  <2>4. FrontendUp'
    BY <1>10, <2>1 DEF LifeInv, Kept, FrontendUp, Verdict, Session
  <2>5. Verdict'
    <3>1. failed = Ok /\ ~(blocked /\ program = "run")
      BY <1>10, <2>1, Zenon DEF Kept, Verdict, Session
    <3>2. /\ end' \in Ends /\ (end' = "mismatch" => scripted)
          /\ failed' = IF end' = "error" THEN "session" ELSE Ok
      BY <1>10, <3>1, Zenon DEF Session, Ends
    <3>3. leftover' => scripted
      BY <1>10, Zenon DEF Session
    <3>4. stage' = "finish_frontend" /\ UNCHANGED <<scripted, program, blocked>>
      BY <1>10, Zenon DEF Session
    <3> QED
      BY <3>1, <3>2, <3>3, <3>4, Zenon DEF Verdict, Errors
  <2>6. Code'
    BY <1>10, <2>1 DEF LifeInv, Kept, Code, RunError, ScriptFailure, Session
  <2> QED
    BY <2>1, <2>2, <2>3, <2>4, <2>5, <2>6, Zenon DEF LifeInv, Kept
<1>11. CASE SpawnShell
  <2>1. code # 256 /\ Kept /\ code' # 256 /\ UNCHANGED fixed
    BY <1>11 DEF LifeInv, Kept, Code, SpawnShell
  <2>2. WorkspaceUp' /\ ProxyUp'
    BY <1>11, <2>1, Zenon DEF Kept, WorkspaceUp, ProxyUp, SpawnShell
  <2>3. HelperUp'
    BY <1>11, <2>1, Zenon DEF LifeInv, Kept, HelperUp, Verdict, SpawnShell
  <2>4. FrontendUp'
    BY <1>11, <2>1 DEF LifeInv, Kept, FrontendUp, Verdict, SpawnShell
  <2>5. Verdict'
    BY <1>11, <2>1 DEF LifeInv, Kept, Verdict, Errors, Ends, SpawnShell
  <2>6. Code'
    BY <1>11, <2>1 DEF LifeInv, Kept, Code, RunError, ScriptFailure, SpawnShell
  <2> QED
    BY <2>1, <2>2, <2>3, <2>4, <2>5, <2>6, Zenon DEF LifeInv, Kept
<1>12. CASE TerminateShell
  <2>1. code # 256 /\ Kept /\ code' # 256 /\ UNCHANGED fixed
    BY <1>12 DEF LifeInv, Kept, Code, TerminateShell
  <2>2. WorkspaceUp' /\ ProxyUp'
    BY <1>12, <2>1, Zenon DEF Kept, WorkspaceUp, ProxyUp, TerminateShell
  <2>3. HelperUp'
    BY <1>12, <2>1, Zenon DEF LifeInv, Kept, HelperUp, Verdict, TerminateShell
  <2>4. FrontendUp'
    BY <1>12, <2>1 DEF LifeInv, Kept, FrontendUp, Verdict, TerminateShell
  <2>5. Verdict'
    BY <1>12, <2>1 DEF LifeInv, Kept, Verdict, Errors, Ends, TerminateShell
  <2>6. Code'
    BY <1>12, <2>1 DEF LifeInv, Kept, Code, RunError, ScriptFailure, TerminateShell
  <2> QED
    BY <2>1, <2>2, <2>3, <2>4, <2>5, <2>6, Zenon DEF LifeInv, Kept
<1>13. CASE KillShell
  BY <1>13 DEF LifeInv, Kept, WorkspaceUp, ProxyUp, HelperUp, FrontendUp, Verdict, Code,
     RunError, ScriptFailure, KillShell
<1>14. CASE ShellReturns
  <2>1. code # 256 /\ Kept /\ code' # 256 /\ UNCHANGED fixed
    BY <1>14 DEF LifeInv, Kept, Code, ShellReturns
  <2>2. WorkspaceUp' /\ ProxyUp'
    BY <1>14, <2>1, Zenon DEF Kept, WorkspaceUp, ProxyUp, ShellReturns
  <2>3. HelperUp'
    BY <1>14, <2>1, Zenon DEF LifeInv, Kept, HelperUp, Verdict, ShellReturns
  <2>4. FrontendUp'
    BY <1>14, <2>1 DEF LifeInv, Kept, FrontendUp, Verdict, ShellReturns
  <2>5. Verdict'
    BY <1>14, <2>1 DEF LifeInv, Kept, Verdict, Errors, Ends, ShellReturns
  <2>6. Code'
    BY <1>14, <2>1 DEF LifeInv, Kept, Code, RunError, ScriptFailure, ShellReturns
  <2> QED
    BY <2>1, <2>2, <2>3, <2>4, <2>5, <2>6, Zenon DEF LifeInv, Kept
<1>15. CASE FinishFrontend
  <2>1. code # 256 /\ Kept /\ code' # 256 /\ UNCHANGED fixed
    BY <1>15 DEF LifeInv, Kept, Code, FinishFrontend
  <2>2. WorkspaceUp' /\ ProxyUp'
    BY <1>15, <2>1, Zenon DEF Kept, WorkspaceUp, ProxyUp, FinishFrontend
  <2>3. HelperUp'
    BY <1>15, <2>1, Zenon DEF LifeInv, Kept, HelperUp, Verdict, FinishFrontend
  <2>4. FrontendUp'
    <3>1. CASE orphan \/ ~frontend
      <4>1. UNCHANGED <<frontend, runFile, failed, orphan, scripted>> /\ stage' = "finish_sandbox"
        BY <1>15, <2>1, <3>1, Zenon DEF FinishFrontend
      <4> QED
        BY <2>1, <3>1, <4>1 DEF Kept, FrontendUp
    <3>2. CASE ~orphan /\ frontend /\ runFile' = FALSE /\ frontend' = FALSE
      BY <1>15, <2>1, <3>2, Zenon DEF FrontendUp, FinishFrontend
    <3>3. CASE ~orphan /\ frontend /\ scripted /\ UNCHANGED <<frontend, runFile>>
      BY <1>15, <2>1, <3>3 DEF Kept, FrontendUp, FinishFrontend
    <3> QED
      BY <1>15, <3>1, <3>2, <3>3, Zenon DEF FinishFrontend
  <2>5. Verdict'
    <3>1. /\ stage' = "finish_sandbox" /\ UNCHANGED <<end, blocked, scripted, program>>
          /\ failed' # failed => failed = Ok /\ failed' = "mismatch" /\ scripted
      BY <1>15, Zenon DEF FinishFrontend
    <3>2. leftover' => leftover
      BY <1>15, Zenon DEF FinishFrontend
    <3> QED
      BY <2>1, <3>1, <3>2 DEF Kept, Verdict, Errors
  <2>6. Code'
    BY <1>15, <2>1 DEF LifeInv, Kept, Code, RunError, ScriptFailure, FinishFrontend
  <2> QED
    BY <2>1, <2>2, <2>3, <2>4, <2>5, <2>6, Zenon DEF LifeInv, Kept
<1>16. CASE FinishSandbox
  <2>1. code # 256 /\ Kept /\ code' # 256 /\ UNCHANGED fixed
    BY <1>16 DEF LifeInv, Kept, Code, FinishSandbox, ShutdownGvisor, ShutdownSandboxExec,
       RemoveScratch
  <2>2. WorkspaceUp' /\ ProxyUp'
    BY <1>16, <2>1, Zenon DEF Kept, WorkspaceUp, ProxyUp, FinishSandbox, ShutdownGvisor,
       ShutdownSandboxExec, RemoveScratch
  <2>3. HelperUp'
    BY <1>16, <2>1 DEF LifeInv, Kept, HelperUp, Verdict, FinishSandbox, ShutdownGvisor,
       ShutdownSandboxExec, RemoveScratch
  <2>4. FrontendUp'
    BY <1>16, <2>1 DEF LifeInv, Kept, FrontendUp, Verdict, FinishSandbox, ShutdownGvisor,
       ShutdownSandboxExec, RemoveScratch
  <2>5. Verdict'
    BY <1>16, <2>1 DEF LifeInv, Kept, Verdict, Errors, Ends,
       FinishSandbox, ShutdownGvisor, ShutdownSandboxExec, RemoveScratch
  <2>6. Code'
    BY <1>16, <2>1 DEF LifeInv, Kept, Code, RunError, ScriptFailure, FinishSandbox,
       ShutdownGvisor, ShutdownSandboxExec, RemoveScratch
  <2> QED
    BY <2>1, <2>2, <2>3, <2>4, <2>5, <2>6, Zenon DEF LifeInv, Kept
<1>17. CASE FinishProxy
  <2>1. code # 256 /\ Kept /\ code' # 256 /\ UNCHANGED fixed
    BY <1>17 DEF LifeInv, Kept, Code, FinishProxy
  <2>2. WorkspaceUp' /\ ProxyUp'
    BY <1>17, <2>1, Zenon DEF Kept, WorkspaceUp, ProxyUp, FinishProxy
  <2>3. HelperUp'
    BY <1>17, <2>1, Zenon DEF LifeInv, Kept, HelperUp, Verdict, FinishProxy
  <2>4. FrontendUp'
    BY <1>17, <2>1 DEF LifeInv, Kept, FrontendUp, Verdict, FinishProxy
  <2>5. Verdict'
    BY <1>17, <2>1 DEF LifeInv, Kept, Verdict, Errors, Ends, FinishProxy
  <2>6. Code'
    BY <1>17, <2>1 DEF LifeInv, Kept, Code, RunError, ScriptFailure, FinishProxy
  <2> QED
    BY <2>1, <2>2, <2>3, <2>4, <2>5, <2>6, Zenon DEF LifeInv, Kept
<1>18. CASE FinishDetach
  <2>1. code # 256 /\ Kept /\ code' # 256 /\ UNCHANGED fixed
    BY <1>18 DEF LifeInv, Kept, Code, FinishDetach
  <2>2. WorkspaceUp' /\ ProxyUp'
    BY <1>18, <2>1, Zenon DEF Kept, WorkspaceUp, ProxyUp, FinishDetach
  <2>3. HelperUp'
    BY <1>18, <2>1, Zenon DEF LifeInv, Kept, HelperUp, Verdict, FinishDetach
  <2>4. FrontendUp'
    BY <1>18, <2>1 DEF LifeInv, Kept, FrontendUp, Verdict, FinishDetach
  <2>5. Verdict'
    BY <1>18, <2>1 DEF LifeInv, Kept, Verdict, Errors, Ends, FinishDetach
  <2>6. Code'
    BY <1>18, <2>1 DEF LifeInv, Kept, Code, RunError, ScriptFailure, FinishDetach
  <2> QED
    BY <2>1, <2>2, <2>3, <2>4, <2>5, <2>6, Zenon DEF LifeInv, Kept
<1>19. CASE Unwind
  <2>1. code # 256 /\ Kept /\ code' # 256 /\ UNCHANGED fixed
    BY <1>19 DEF LifeInv, Kept, Code, Unwind
  <2>2. WorkspaceUp' /\ ProxyUp'
    BY <1>19, <2>1, Zenon DEF Kept, WorkspaceUp, ProxyUp, Unwind
  <2>3. HelperUp'
    BY <1>19, <2>1, Zenon DEF LifeInv, Kept, HelperUp, Verdict, Unwind
  <2>4. FrontendUp'
    BY <1>19, <2>1, Zenon DEF LifeInv, Kept, FrontendUp, Verdict, Unwind
  <2>5. Verdict'
    BY <1>19, <2>1 DEF LifeInv, Kept, Verdict, Errors, Ends, Unwind
  <2>6. Code'
    BY <1>19, <2>1 DEF LifeInv, Kept, Code, RunError, ScriptFailure, Unwind
  <2> QED
    BY <2>1, <2>2, <2>3, <2>4, <2>5, <2>6, Zenon DEF LifeInv, Kept
<1>20. CASE Return
  <2>1. code # 256 /\ Kept /\ code' # 256 /\ UNCHANGED fixed
    BY <1>20 DEF LifeInv, Return, ExitCode
  <2>2. WorkspaceUp' /\ ProxyUp'
    BY <1>20, <2>1, Zenon DEF Kept, WorkspaceUp, ProxyUp, Return, ExitCode
  <2>3. HelperUp'
    BY <1>20, <2>1, Zenon DEF LifeInv, Kept, HelperUp, Verdict, Return, ExitCode
  <2>4. FrontendUp'
    BY <1>20, <2>1 DEF LifeInv, Kept, FrontendUp, Verdict, Return, ExitCode
  <2>5. Verdict'
    BY <1>20, <2>1 DEF LifeInv, Kept, Verdict, Errors, Ends, Return, ExitCode
  <2>6. Code'
    <3>1. stage' = "ended" /\ (server' => orphan') /\ UNCHANGED <<end, RunError, ScriptFailure>>
      BY <1>20, Zenon DEF Return, RunError, ScriptFailure
    <3>2. program' = "run" /\ code' = 0 => ~RunError /\ ~ScriptFailure /\ end # "llm"
      BY <1>20 DEF Return, ExitCode
    <3> QED
      BY <3>1, <3>2 DEF Code
  <2> QED
    BY <2>1, <2>2, <2>3, <2>4, <2>5, <2>6, Zenon DEF LifeInv, Kept
<1>21. CASE SignalArrives
  <2>1. code # 256 /\ Kept /\ code' # 256 /\ UNCHANGED fixed
    BY <1>21 DEF LifeInv, Kept, Code, SignalArrives
  <2>2. WorkspaceUp' /\ ProxyUp'
    BY <1>21, <2>1, Zenon DEF Kept, WorkspaceUp, ProxyUp, SignalArrives
  <2>3. HelperUp'
    BY <1>21, <2>1, Zenon DEF LifeInv, Kept, HelperUp, Verdict, SignalArrives
  <2>4. FrontendUp'
    BY <1>21, <2>1 DEF LifeInv, Kept, FrontendUp, Verdict, SignalArrives
  <2>5. Verdict'
    BY <1>21, <2>1 DEF LifeInv, Kept, Verdict, Errors, Ends, SignalArrives
  <2>6. Code'
    BY <1>21, <2>1 DEF LifeInv, Kept, Code, RunError, ScriptFailure, SignalArrives
  <2> QED
    BY <2>1, <2>2, <2>3, <2>4, <2>5, <2>6, Zenon DEF LifeInv, Kept
<1>22. CASE UserExits
  <2>1. code # 256 /\ Kept /\ code' # 256 /\ UNCHANGED fixed
    BY <1>22 DEF LifeInv, Kept, Code, UserExits
  <2>2. WorkspaceUp' /\ ProxyUp'
    BY <1>22, <2>1, Zenon DEF Kept, WorkspaceUp, ProxyUp, UserExits
  <2>3. HelperUp'
    BY <1>22, <2>1, Zenon DEF LifeInv, Kept, HelperUp, Verdict, UserExits
  <2>4. FrontendUp'
    BY <1>22, <2>1 DEF LifeInv, Kept, FrontendUp, Verdict, UserExits
  <2>5. Verdict'
    BY <1>22, <2>1 DEF LifeInv, Kept, Verdict, Errors, Ends, UserExits
  <2>6. Code'
    BY <1>22, <2>1 DEF LifeInv, Kept, Code, RunError, ScriptFailure, UserExits
  <2> QED
    BY <2>1, <2>2, <2>3, <2>4, <2>5, <2>6, Zenon DEF LifeInv, Kept
<1>23. CASE Killed
  BY <1>23, Zenon DEF LifeInv, Killed
<1> QED
  BY <1>1, <1>2, <1>3, <1>4, <1>5, <1>6, <1>7, <1>8, <1>9, <1>10, <1>11, <1>12, <1>13, <1>14,
     <1>15, <1>16, <1>17, <1>18, <1>19, <1>20, <1>21, <1>22, <1>23, Zenon DEF LifecycleNext, Steps

\* Nothing changes in a step of another component.
LEMMA LifeStutter ==
    ASSUME LifeInv, UNCHANGED lifecycleVars
    PROVE  LifeInv'
BY DEF LifeInv, Kept, WorkspaceUp, ProxyUp, HelperUp, FrontendUp, Verdict, Code, RunError,
   ScriptFailure, lifecycleVars, fixed, running, parts, outcome

\* The process takes down what it set up (EndsClean; run and finish of
\* silo-harness lib.rs, cmd_shell.rs), whichever step of setup, session or
\* shutdown fails, and exit code 0 means success.  LifeInv, the inductive
\* invariant, says for every stage which parts may be up and what the errors
\* noted so far tell.
THEOREM LifecycleEndsClean == LifecycleSpec => []EndsClean
<1>1. LifeInv /\ [LifecycleNext]_lifecycleVars => LifeInv'
  BY LifeStep, LifeStutter, Zenon
<1> QED
  BY <1>1, LifeInit, LifeFollows, PTL DEF LifecycleSpec

=============================================================================
