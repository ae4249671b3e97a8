------------------------------- MODULE MCAgent -------------------------------
(***************************************************************************)
(* The shutdown signal and the conversation loop in one model: a behaviour *)
(* belongs to one of them, chosen at the start, and the other stays in its *)
(* initial state.                                                          *)
(***************************************************************************)
EXTENDS ShutdownSignal, Conversation

CONSTANT Nested  \* bound: the subagent that only another subagent spawns

VARIABLE part  \* the component the behaviour is of

agentVars == <<part, vars, conversationVars>>

Count(happened) == IF happened THEN 1 ELSE 0

\* Bound: commands, the OS signal and the closing of the channel together; one
\* while all the tasks run.
Narrow ==
  /\ parent[Nested] # Top
  /\ Len(sent) + Count(state = SignalMessage) + Count(~connected)
       <= IF Running = Subagents THEN 1 ELSE MaxCommands

MCInit ==
  /\ part \in {"signal", "conversation"}
  /\ Init
  /\ ConversationInit
  /\ part = "signal" => ~headless

MCNext ==
  \/ part = "signal" /\ Next /\ Narrow' /\ UNCHANGED <<part, conversationVars>>
  \/ part = "conversation" /\ ConversationNext /\ UNCHANGED <<part, vars>>

\* Nothing of the conversation's fairness is enabled in its initial state.
MCSpec ==
  /\ MCInit /\ [][MCNext]_agentVars
  /\ LoopFairness
  /\ \A a \in Agents :
       /\ WF_vars(part = "signal" /\ Step(a))
       /\ WF_vars(part = "signal" /\ Proceed(a))

=============================================================================
