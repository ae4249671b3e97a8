---------------------------- MODULE Conversation ----------------------------
(***************************************************************************)
(* The conversation of the top-level agent: top_level_loop, drive_inner,   *)
(* and the tool calls a response asks for                                  *)
(* (crates/silo-harness/src/agent.rs).                                     *)
(*                                                                         *)
(* A message is reduced to what the backends' protocol constrains: its     *)
(* role, the tool uses of an assistant message, and the tool results of a  *)
(* user message and whether it holds a prompt.  A tool use is named by its *)
(* position in its message.                                                *)
(***************************************************************************)
EXTENDS Naturals, Sequences

CONSTANTS
  MaxFailures,  \* MAX_CONSECUTIVE_LLM_FAILURES (8 in agent.rs)
  MaxCalls,     \* bound: tool uses in one response
  MaxMessages   \* bound: messages in the conversation

ASSUME ConversationAssumption ==
  /\ MaxFailures \in Nat \ {0}
  /\ MaxCalls \in Nat
  /\ MaxMessages \in Nat

VARIABLES
  headless,     \* the frontend is the headless one
  at,           \* where the agent's task is
  messages,     \* the conversation
  calls,        \* number of tool uses of the response being served
  stop,         \* its stop_reason is ToolUse
  results,      \* result_blocks: the calls answered so far
  tool,         \* kind of the tool call being executed
  failures,     \* consecutive_llm_failures
  shutdown,     \* a shutdown has been requested
  interrupted,  \* an interrupt newer than the turn has been applied
  end           \* how the session ended

conversationVars == <<headless, at, messages, calls, stop, results, tool, failures,
          shutdown, interrupted, end>>

response == <<calls, stop, results>>
context == <<headless, shutdown, interrupted>>

Prompt == [role |-> "user", uses |-> 0, results |-> <<>>, prompt |-> TRUE]
Assistant(n) == [role |-> "assistant", uses |-> n, results |-> <<>>, prompt |-> FALSE]
Results(answers) == [role |-> "user", uses |-> 0, results |-> answers, prompt |-> FALSE]

\* "input": awaiting user input; "request": the checkpoint before a model
\* call; "llm": the call; "call": the checkpoint before a tool call; "tool":
\* the tool call, raced against the abort signal; "read": the sandbox read
\* of SendUserFile; "unwind": waiting for an interrupted tool to return.
Places == {"input", "request", "llm", "call", "read", "tool", "unwind", "ended"}

\* "sandbox": run_sandbox_tool; "frontend": run_frontend_tool; "await":
\* AwaitAgent; "sync": Agent and unknown tools, which return at once.
Tools == {"sandbox", "frontend", "await", "sync"}

\* The shape of the state.
ConversationTypeOK ==
  /\ headless \in BOOLEAN
  /\ at \in Places
  /\ messages \in Seq([role : {"user", "assistant"}, uses : Nat,
                       results : Seq(Nat), prompt : BOOLEAN])
  /\ calls \in Nat
  /\ stop \in BOOLEAN
  /\ results \in Seq(Nat)
  /\ tool \in Tools
  /\ failures \in Nat
  /\ shutdown \in BOOLEAN
  /\ interrupted \in BOOLEAN
  /\ end \in {"none", "normal", "llm_failure", "script", "error"}

ConversationInit ==
  /\ headless \in BOOLEAN
  /\ at = "input"
  /\ messages = <<>>
  /\ calls = 0
  /\ stop = FALSE
  /\ results = <<>>
  /\ tool = "sync"
  /\ failures = 0
  /\ shutdown = FALSE
  /\ interrupted = FALSE
  /\ end = "none"

-----------------------------------------------------------------------------
(* The abort signal, as the loop observes it.                              *)

RequestShutdown ==
  /\ at # "ended" /\ ~shutdown
  /\ shutdown' = TRUE
  /\ UNCHANGED <<at, messages, response, tool, failures, headless, interrupted, end>>

ApplyInterrupt ==
  /\ at # "ended" /\ ~interrupted
  /\ interrupted' = TRUE
  /\ UNCHANGED <<at, messages, response, tool, failures, headless, shutdown, end>>

-----------------------------------------------------------------------------
(* How top_level_loop goes on after each outcome of a turn.                *)

EndSession(how) == at' = "ended" /\ end' = how /\ UNCHANGED failures

\* Completed and Interrupted reset the failure count and await input.
NextInput == at' = "input" /\ failures' = 0 /\ UNCHANGED end

\* LlmFailed: headless sessions end at once, others at the cap.
CountFailure ==
  /\ failures' = failures + 1
  /\ IF headless \/ failures + 1 >= MaxFailures
     THEN at' = "ended" /\ end' = "llm_failure"
     ELSE at' = "input" /\ UNCHANGED end

-----------------------------------------------------------------------------
(* TakeInput.                                                                  *)

\* Mutant: every prompt becomes a message of its own.
PushPromptAlone == Append(messages, Prompt)

\* push_user_prompt: a conversation that ends with a user message has the
\* prompt added to that message.
PushPrompt ==
  IF messages # <<>> /\ messages[Len(messages)].role = "user"
  THEN [messages EXCEPT ![Len(messages)].prompt = TRUE]
  ELSE Append(messages, Prompt)

\* The interrupts applied so far are consumed by the turn's snapshot.
TakeInput ==
  /\ at = "input"
  /\ ~shutdown
  /\ messages' = PushPrompt
  /\ interrupted' = FALSE
  /\ at' = "request"
  /\ UNCHANGED <<response, tool, failures, headless, shutdown, end>>

\* A shutdown, a script with no further steps, or a failing frontend; the
\* headless frontend always answers.
InputEnds ==
  /\ at = "input"
  /\ \/ (shutdown \/ ~headless) /\ EndSession("normal")
     \/ ~shutdown /\ ~headless /\ EndSession("error")
  /\ UNCHANGED <<messages, response, tool, context>>

-----------------------------------------------------------------------------
(* The model call.                                                         *)

\* Before the call, and while it is in flight; a shutdown wins.
ModelAborted ==
  /\ at \in {"request", "llm"}
  /\ IF shutdown THEN EndSession("normal") ELSE interrupted /\ NextInput
  /\ UNCHANGED <<messages, response, tool, context>>

ModelRequest ==
  /\ at = "request"
  /\ ~shutdown /\ ~interrupted
  /\ at' = "llm"
  /\ UNCHANGED <<messages, response, tool, failures, context, end>>

\* An error, or a mismatch with a test script.
ModelFails ==
  /\ at = "llm"
  /\ ~shutdown /\ ~interrupted
  /\ CountFailure \/ EndSession("script")
  /\ UNCHANGED <<messages, response, tool, context>>

\* The response becomes a message; without tool uses the turn is over.
ModelResponds(n, toolUse) ==
  /\ at = "llm"
  /\ ~shutdown /\ ~interrupted
  /\ Len(messages) < MaxMessages
  /\ messages' = Append(messages, Assistant(n))
  /\ calls' = n
  /\ stop' = toolUse
  /\ results' = <<>>
  /\ IF n = 0 THEN NextInput ELSE at' = "call" /\ UNCHANGED <<failures, end>>
  /\ UNCHANGED <<tool, context>>

-----------------------------------------------------------------------------
(* The tool calls of a response, in order.                                 *)

\* The checkpoint, then execute_tool; SendUserFile first reads the file.
CallTool(kind) ==
  /\ at = "call"
  /\ ~shutdown /\ ~interrupted
  /\ tool' = kind
  /\ at' \in IF kind = "frontend" THEN {"tool", "read"} ELSE {"tool"}
  /\ UNCHANGED <<messages, response, failures, context, end>>

\* After the last result: the results become a message, and the turn goes
\* on if the model stopped for tool use.
Answered(answers) ==
  IF Len(answers) < calls
  THEN /\ results' = answers
       /\ at' = "call"
       /\ UNCHANGED <<messages, failures, end>>
  ELSE /\ messages' = Append(messages, Results(answers))
       /\ results' = <<>>
       /\ IF stop THEN at' = "request" /\ UNCHANGED <<failures, end>> ELSE NextInput

\* The read of SendUserFile is not raced against the abort signal.  Its
\* failure is the call's result; its success goes on to the frontend.
ReadDone ==
  /\ at = "read"
  /\ \/ at' = "tool" /\ UNCHANGED <<messages, results, failures, end>>
     \/ Answered(Append(results, Len(results) + 1))
  /\ UNCHANGED <<calls, stop, tool, context>>

\* The tool returns, by itself or after an interrupt.  The select polls the
\* tool of the sandbox or the frontend before the signal, so its result
\* counts even when the signal is raised; AwaitAgent polls the signal first.
ToolReturns ==
  /\ at \in {"tool", "unwind"}
  /\ tool = "await" => ~shutdown /\ ~interrupted
  /\ Answered(Append(results, Len(results) + 1))
  /\ UNCHANGED <<calls, stop, tool, context>>

\* Mutant: only the frontend is told of an interrupt; a sandbox tool runs on.
ForwardInterruptFrontendOnly ==
  /\ at = "tool"
  /\ tool = "frontend"
  /\ interrupted /\ ~shutdown
  /\ at' = "unwind"
  /\ UNCHANGED <<messages, response, tool, failures, context, end>>

\* An interrupt is passed to the sandbox or the frontend, and the tool is
\* awaited again without the signal.
ForwardInterrupt ==
  /\ at = "tool"
  /\ tool \in {"sandbox", "frontend"}
  /\ interrupted /\ ~shutdown
  /\ at' = "unwind"
  /\ UNCHANGED <<messages, response, tool, failures, context, end>>

\* Every call without a result gets a synthetic one.
Synthetic == results \o [k \in 1..(calls - Len(results)) |-> Len(results) + k]

\* The turn is interrupted before a call, or in an AwaitAgent.
CallsInterrupted ==
  /\ at = "call" \/ (at = "tool" /\ tool = "await")
  /\ interrupted /\ ~shutdown
  /\ messages' = Append(messages, Results(Synthetic))
  /\ results' = <<>>
  /\ NextInput
  /\ UNCHANGED <<calls, stop, tool, context>>

\* Mutant: a shutdown does not cut a tool of the sandbox or frontend short.
CallsShutdownBetween ==
  /\ shutdown
  /\ at = "call" \/ (at = "tool" /\ tool = "await")
  /\ EndSession("normal")
  /\ UNCHANGED <<messages, response, tool, context>>

\* A shutdown before a call or during one drops the conversation as it is.
CallsShutdown ==
  /\ shutdown
  /\ at = "call" \/ (at = "tool" /\ tool # "sync")
  /\ EndSession("normal")
  /\ UNCHANGED <<messages, response, tool, context>>

\* A failing component ends the session with an error, a script mismatch
\* with a script failure.  A frontend that fails while a shutdown is
\* requested is taken as that shutdown.
ToolFails ==
  /\ at \in {"read", "tool", "unwind"}
  /\ tool \in {"sandbox", "frontend"}
  /\ \/ tool = "frontend" /\ at # "read" /\ shutdown /\ EndSession("normal")
     \/ ~(tool = "frontend" /\ at # "read" /\ shutdown) /\ EndSession("error")
     \/ (tool = "sandbox" \/ at = "read") /\ EndSession("script")
  /\ UNCHANGED <<messages, response, tool, context>>

\* AwaitAgent collected a child that ended on a script mismatch.
AwaitFails ==
  /\ at = "tool" /\ tool = "await"
  /\ ~shutdown /\ ~interrupted
  /\ EndSession("script")
  /\ UNCHANGED <<messages, response, tool, context>>

-----------------------------------------------------------------------------
ConversationEnded == at = "ended" /\ UNCHANGED conversationVars

ConversationNext ==
  \/ RequestShutdown \/ ApplyInterrupt
  \/ TakeInput \/ InputEnds
  \/ ModelRequest \/ ModelAborted \/ ModelFails
  \/ \E n \in 0..MaxCalls, toolUse \in BOOLEAN : ModelResponds(n, toolUse)
  \/ \E kind \in Tools : CallTool(kind)
  \/ ReadDone \/ ToolReturns \/ ForwardInterrupt
  \/ CallsInterrupted \/ CallsShutdown \/ ToolFails \/ AwaitFails
  \/ ConversationEnded

ConversationSpec == ConversationInit /\ [][ConversationNext]_conversationVars

\* The loop takes the steps that are its own, and a tool returns once it has
\* been told of an interrupt (the helper kills the process, the frontend
\* resolves the question); a read by SendUserFile returns.  Nothing is
\* assumed of the user, of the model, or of a tool that has not been told.
LoopFairness ==
  /\ WF_conversationVars(shutdown /\ InputEnds)
  /\ WF_conversationVars(ModelRequest)
  /\ WF_conversationVars(ModelAborted)
  /\ WF_conversationVars(at = "call" /\ \E kind \in Tools : CallTool(kind))
  /\ WF_conversationVars(ReadDone)
  /\ WF_conversationVars((at = "unwind" \/ tool = "sync") /\ ToolReturns)
  /\ WF_conversationVars(ForwardInterrupt)
  /\ WF_conversationVars(CallsInterrupted)
  /\ WF_conversationVars(CallsShutdown)

FairConversation == ConversationSpec /\ LoopFairness

-----------------------------------------------------------------------------
(* Properties.                                                             *)

\* Every tool use of an assistant message is answered by exactly one result,
\* in order, in the message that follows.
AnsweredInTurn(k) ==
  messages[k].uses > 0 =>
    /\ k < Len(messages)
    /\ messages[k + 1].results = [j \in 1..messages[k].uses |-> j]

\* What a backend with strict alternation accepts: user and assistant
\* messages in turn, a user message first and last, and results only as
\* answers to the tool uses of the message before.
WellFormed ==
  /\ Len(messages) % 2 = 1
  /\ \A k \in 1..Len(messages) :
       /\ messages[k].role = IF k % 2 = 1 THEN "user" ELSE "assistant"
       /\ AnsweredInTurn(k)
       /\ messages[k].results # <<>> => k > 1 /\ messages[k - 1].uses > 0

\* Every request sent to the model is well-formed, whatever interrupts,
\* failures and tool errors came before it (drive_inner's synthetic results
\* and push_user_prompt's merging).
RequestWellFormed == at = "llm" => WellFormed

\* A shutdown ends the session: the wait for input, the model call and the
\* tool calls are all raced against it (top_level_loop, drive_inner,
\* run_sandbox_tool, run_frontend_tool, run_await_agent_tool).
ShutdownEndsSession == shutdown ~> at = "ended"

\* An interrupt of a turn brings the loop back to awaiting input, also when
\* a tool is running (run_sandbox_tool and run_frontend_tool cancel it).
InterruptEndsTurn == interrupted ~> at \in {"input", "ended"}

=============================================================================
